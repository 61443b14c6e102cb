----------------------------- MODULE TxService ------------------------------
(***************************************************************************)
(* The transaction-proposal handlers of lib/server.js on the proposals of  *)
(* one wallet: createTx, publishTx, signTx, rejectTx, broadcastTx,         *)
(* removePendingTx and getPendingTxs, with the documents lib/storage.js    *)
(* keeps for them and the network the explorer gives access to.            *)
(*                                                                         *)
(* A request is a handler under way.  Every await (a storage or explorer   *)
(* callback) ends a step, so requests interleave there, whether they run   *)
(* in one process or in several.  A handler keeps in req[r].txp the copy   *)
(* of the document it read; storeTx writes the whole copy back.  createTx, *)
(* publishTx and removePendingTx run under the wallet's lock, the others   *)
(* do not.                                                                 *)
(***************************************************************************)
EXTENDS TxProposal, SequencesExt

CONSTANTS
  Request,      \* slots for the handlers under way
  NoRequest,    \* the lock is free
  NoTx,         \* no document
  NoId          \* an idle request is about no proposal

ASSUME TxServiceAssumption ==
  /\ NoTx \notin Proposal
  /\ NoRequest \notin Request
  /\ NoId \notin ProposalId

VARIABLES
  txs,    \* the txs collection: txs[id] is the stored document
  req,    \* the handlers under way
  lock,   \* who holds the wallet's lock
  chain   \* the transactions the network knows

vars == <<txs, req, lock, chain>>

Document == Proposal \cup {NoTx}

PC == {"idle",
       "storeTx",              \* about to store txp and return
       "getUtxos", "getPendingTxs", "checkTxs",  \* _getUtxosForCurrentWallet
       "broadcast", "checkTx", \* broadcastTx
       "removeTx"}             \* removePendingTx

RequestState ==
  [pc: PC,
   op: {"createTx", "publishTx", "signTx", "rejectTx", "broadcastTx",
        "removePendingTx", "getPendingTxs", "none"},
   id: ProposalId \cup {NoId},
   txp: Document,
   utxos: SUBSET Utxo,               \* listed, less those found locked
   todo: [ProposalId -> Document]]   \* accepted proposals to look up

Nothing == [id \in ProposalId |-> NoTx]

Idle == [pc |-> "idle", op |-> "none", id |-> NoId, txp |-> NoTx,
         utxos |-> {}, todo |-> Nothing]

Start(op, pc, id, txp) ==
  [Idle EXCEPT !.op = op, !.pc = pc, !.id = id, !.txp = txp]

Init ==
  /\ txs = Nothing
  /\ req = [r \in Request |-> Idle]
  /\ lock = NoRequest
  /\ chain = {}

-----------------------------------------------------------------------------
(* The wallet's lock (lib/lock.js) and how every handler ends.              *)

Acquire(r) == lock = NoRequest /\ lock' = r

\* The callback that runLocked wraps releases the lock; a lock that expired
\* meanwhile is not the request's to release.
Release(r) == lock' = IF lock = r THEN NoRequest ELSE lock

Return(r) == req' = [req EXCEPT ![r] = Idle] /\ Release(r)

\* The lock passes on when its holder keeps it for 5 minutes; the holder's
\* handler runs on.
LockExpires ==
  /\ lock # NoRequest
  /\ lock' = NoRequest
  /\ UNCHANGED <<txs, req, chain>>

\* A storage or explorer call answers with an error, or the process stops: the
\* handler does nothing more.
Fail(r) ==
  /\ req[r].pc # "idle"
  /\ Return(r)
  /\ UNCHANGED <<txs, chain>>

\* storage.storeTx: an upsert of the whole document, then the answer.
StoreTx(r) ==
  /\ req[r].pc = "storeTx"
  /\ txs' = [txs EXCEPT ![req[r].id] = req[r].txp]
  /\ Return(r)
  /\ UNCHANGED chain

-----------------------------------------------------------------------------
(* signTx and rejectTx: read, vote on the copy, store.  No lock.            *)

\* Mistake: who voted already is not looked at.
VoteAgain(r, op, p, id, type) ==
  /\ req[r].pc = "idle"
  /\ txs[id] # NoTx
  /\ req' = [req EXCEPT ![r] =
               Start(op, "storeTx", id, AddAction(txs[id], p, type))]
  /\ UNCHANGED <<txs, lock, chain>>

Vote(r, op, p, id, type) ==
  /\ req[r].pc = "idle"
  /\ txs[id] # NoTx
  /\ p \notin GetActors(txs[id])
  /\ req' = [req EXCEPT ![r] =
               Start(op, "storeTx", id, AddAction(txs[id], p, type))]
  /\ UNCHANGED <<txs, lock, chain>>

SignTx(r, p, id) ==
  /\ Vote(r, "signTx", p, id, "accept")
  /\ IsPending(txs[id])
  /\ TakesSignature(txs[id])

RejectTx(r, p, id) ==
  /\ Vote(r, "rejectTx", p, id, "reject")
  /\ txs[id].status = "pending"

-----------------------------------------------------------------------------
(* broadcastTx: read, send to the network, mark as broadcasted.  No lock.   *)

\* The network takes no two transactions that spend the same output.
Conflicts(tx) == \E c \in chain : c # tx /\ c.inputs \cap tx.inputs # {}

TxidOf(r) == Txid(req[r].id, req[r].txp)

BroadcastTx(r, id) ==
  /\ req[r].pc = "idle"
  /\ txs[id] # NoTx
  /\ txs[id].status = "accepted"
  /\ req' = [req EXCEPT ![r] = Start("broadcastTx", "broadcast", id, txs[id])]
  /\ UNCHANGED <<txs, lock, chain>>

\* Mistake: a status there is not.
MarkMisspelt(r) ==
  req' = [req EXCEPT ![r].pc = "storeTx",
                     ![r].txp = SetStatus(@, "broadcast")]

\* _processBroadcast marks the copy; StoreTx stores it.
Mark(r) ==
  req' = [req EXCEPT ![r].pc = "storeTx",
                     ![r].txp = SetStatus(@, "broadcasted")]

BroadcastSucceeds(r) ==
  /\ req[r].pc = "broadcast"
  /\ ~Conflicts(TxidOf(r))
  /\ chain' = chain \cup {TxidOf(r)}
  /\ Mark(r)
  /\ UNCHANGED <<txs, lock>>

\* The explorer answers with an error; the transaction may have gone through.
BroadcastErrs(r) ==
  /\ req[r].pc = "broadcast"
  /\ \/ chain' = chain
     \/ ~Conflicts(TxidOf(r)) /\ chain' = chain \cup {TxidOf(r)}
  /\ req' = [req EXCEPT ![r].pc = "checkTx"]
  /\ UNCHANGED <<txs, lock>>

\* Mistake: an error says that it was broadcast before.
ErrorMeansBroadcast(r) ==
  /\ req[r].pc = "checkTx"
  /\ Mark(r)
  /\ UNCHANGED <<txs, lock, chain>>

\* _checkTxInBlockchain found it; not finding it is Fail.
CheckTxFinds(r) ==
  /\ req[r].pc = "checkTx"
  /\ TxidOf(r) \in chain
  /\ Mark(r)
  /\ UNCHANGED <<txs, lock, chain>>

\* A pocketeer, or anyone with the signed transaction, sends it elsewhere.
ThirdPartyBroadcast(id) ==
  /\ txs[id] # NoTx
  /\ txs[id].status = "accepted"
  /\ ~Conflicts(Txid(id, txs[id]))
  /\ chain' = chain \cup {Txid(id, txs[id])}
  /\ UNCHANGED <<txs, req, lock>>

-----------------------------------------------------------------------------
(* _getUtxosForCurrentWallet: what the explorer lists, less what pending     *)
(* proposals lock, less what broadcast ones spend, read in this order.      *)

InputsOf(docs) == UNION {txp.inputs : txp \in docs \ {NoTx}}

Stored(status) == {txp \in {txs[id] : id \in ProposalId} \ {NoTx} :
                     txp.status = status}

\* The explorer may not have indexed yet some of what the network knows.
GetUtxos(r) ==
  /\ req[r].pc = "getUtxos"
  /\ \E indexed \in SUBSET chain :
       req' = [req EXCEPT ![r].pc = "getPendingTxs",
                          ![r].utxos = {u \in Utxo :
                                          \A tx \in indexed : u \notin tx.inputs}]
  /\ UNCHANGED <<txs, lock, chain>>

\* fetchPendingTxs returns pending and accepted proposals; the accepted ones
\* are looked up on the network before they lock their inputs.
FetchPendingTxs(r) ==
  /\ req[r].pc = "getPendingTxs"
  /\ req' = [req EXCEPT ![r].pc = "checkTxs",
                        ![r].utxos = @ \ InputsOf(Stored("pending")),
                        ![r].todo = [id \in ProposalId |->
                          IF txs[id] \in Stored("accepted") THEN txs[id] ELSE NoTx]]
  /\ UNCHANGED <<txs, lock, chain>>

\* Mistake: whatever was accepted was broadcast by somebody.
MarkAccepted(r, id) ==
  /\ req[r].pc = "checkTxs"
  /\ req[r].todo[id] # NoTx
  /\ txs' = [txs EXCEPT ![id] = SetStatus(req[r].todo[id], "broadcasted")]
  /\ req' = [req EXCEPT ![r].todo[id] = NoTx]
  /\ UNCHANGED <<lock, chain>>

\* Mistake: the copy is marked, and not stored.
MarkCopyOnly(r, id) ==
  /\ req[r].pc = "checkTxs"
  /\ req[r].todo[id] # NoTx
  /\ Txid(id, req[r].todo[id]) \in chain
  /\ req' = [req EXCEPT ![r].todo[id] = NoTx]
  /\ UNCHANGED <<txs, lock, chain>>

\* _checkTxInBlockchain finds one: _processBroadcast, and it is not returned.
MarkBroadcasted(r, id) ==
  /\ req[r].pc = "checkTxs"
  /\ req[r].todo[id] # NoTx
  /\ Txid(id, req[r].todo[id]) \in chain
  /\ txs' = [txs EXCEPT ![id] = SetStatus(req[r].todo[id], "broadcasted")]
  /\ req' = [req EXCEPT ![r].todo[id] = NoTx]
  /\ UNCHANGED <<lock, chain>>

\* Mistake: an accepted proposal locks nothing.
AcceptedLocksNothing(r, id) ==
  /\ req[r].pc = "checkTxs"
  /\ req[r].todo[id] # NoTx
  /\ req' = [req EXCEPT ![r].todo[id] = NoTx]
  /\ UNCHANGED <<txs, lock, chain>>

\* The explorer does not know it (yet): it locks its inputs.
NotOnNetwork(r, id) ==
  /\ req[r].pc = "checkTxs"
  /\ req[r].todo[id] # NoTx
  /\ req' = [req EXCEPT ![r].utxos = @ \ req[r].todo[id].inputs,
                        ![r].todo[id] = NoTx]
  /\ UNCHANGED <<txs, lock, chain>>

\* A lookup errs: the request is answered with that error, and the lookups of
\* the others go on for nobody.
LookupFails(r, id) ==
  /\ req[r].pc = "checkTxs"
  /\ req[r].todo[id] # NoTx
  /\ req' = [req EXCEPT ![r] =
               [Start("getPendingTxs", "checkTxs", NoId, NoTx) EXCEPT
                  !.todo = [req[r].todo EXCEPT ![id] = NoTx]]]
  /\ Release(r)
  /\ UNCHANGED <<txs, chain>>

UtxosKnown(r, op) ==
  req[r].pc = "checkTxs" /\ req[r].op = op /\ req[r].todo = Nothing

\* fetchBroadcastedTxs, once every accepted proposal is looked up.  Abstracted:
\* it fetches the last 100 of one day only, time in which the explorer learns
\* of them.
Available(r) == req[r].utxos \ InputsOf(Stored("broadcasted"))

\* getPendingTxs called by a client rather than for its UTXOs.
GetPendingTxs(r) ==
  /\ req[r].pc = "idle"
  /\ req' = [req EXCEPT ![r] = Start("getPendingTxs", "getPendingTxs", NoId, NoTx)]
  /\ UNCHANGED <<txs, lock, chain>>

ReturnPendingTxs(r) ==
  /\ UtxosKnown(r, "getPendingTxs")
  /\ Return(r)
  /\ UNCHANGED <<txs, chain>>

-----------------------------------------------------------------------------
(* createTx and publishTx, under the lock.                                  *)

\* With opts.inputs the proposal spends what the client says; without, the
\* inputs are selected.
CreateTx(r, p, id) ==
  /\ req[r].pc = "idle"
  /\ Acquire(r)
  /\ txs[id] = NoTx
  /\ \/ \E inputs \in SUBSET Utxo \ {{}} :
          req' = [req EXCEPT ![r] =
                    Start("createTx", "storeTx", id, Create(p, inputs))]
     \/ req' = [req EXCEPT ![r] =
                  Start("createTx", "getUtxos", id, Create(p, {}))]
  /\ UNCHANGED <<txs, chain>>

SelectInputs(r) ==
  /\ UtxosKnown(r, "createTx")
  /\ \E inputs \in SUBSET Available(r) \ {{}} :
       req' = [req EXCEPT ![r] =
                 Start("createTx", "storeTx", req[r].id,
                       [req[r].txp EXCEPT !.inputs = inputs])]
  /\ UNCHANGED <<txs, lock, chain>>

PublishTx(r, id) ==
  /\ req[r].pc = "idle"
  /\ Acquire(r)
  /\ txs[id] # NoTx
  /\ txs[id].status = "temporary"
  /\ req' = [req EXCEPT ![r] = Start("publishTx", "getUtxos", id, txs[id])]
  /\ UNCHANGED <<txs, chain>>

\* All inputs are still available: the copy becomes pending.  If one is not,
\* the answer is UNAVAILABLE_UTXOS.
CheckInputs(r) ==
  /\ UtxosKnown(r, "publishTx")
  /\ \/ /\ req[r].txp.inputs \subseteq Available(r)
        /\ req' = [req EXCEPT ![r] =
                     Start("publishTx", "storeTx", req[r].id,
                           SetStatus(req[r].txp, "pending"))]
        /\ UNCHANGED lock
     \/ /\ ~(req[r].txp.inputs \subseteq Available(r))
        /\ Return(r)
  /\ UNCHANGED <<txs, chain>>

-----------------------------------------------------------------------------
(* removePendingTx, under the lock.                                         *)

\* getRemainingDeleteLockTime is 0 when DELETE_LOCKTIME has elapsed since the
\* proposal was created, or for its creator while nobody else approved it.
CanDelete(txp, p, elapsed) ==
  elapsed \/ (txp.creatorId = p /\ GetApprovers(txp) \subseteq {p})

RemovePendingTx(r, p, id) ==
  /\ req[r].pc = "idle"
  /\ Acquire(r)
  /\ txs[id] # NoTx
  /\ IsPending(txs[id])
  /\ \E elapsed \in BOOLEAN : CanDelete(txs[id], p, elapsed)
  /\ req' = [req EXCEPT ![r] = Start("removePendingTx", "removeTx", id, NoTx)]
  /\ UNCHANGED <<txs, chain>>

RemoveTx(r) ==
  /\ req[r].pc = "removeTx"
  /\ txs' = [txs EXCEPT ![req[r].id] = NoTx]
  /\ Return(r)
  /\ UNCHANGED chain

-----------------------------------------------------------------------------

Handler(r) ==
  \/ StoreTx(r)
  \/ BroadcastSucceeds(r) \/ BroadcastErrs(r) \/ CheckTxFinds(r)
  \/ GetUtxos(r) \/ FetchPendingTxs(r) \/ ReturnPendingTxs(r)
  \/ \E id \in ProposalId :
       MarkBroadcasted(r, id) \/ NotOnNetwork(r, id) \/ LookupFails(r, id)
  \/ SelectInputs(r) \/ CheckInputs(r) \/ RemoveTx(r)
  \/ Fail(r)

Call(r) ==
  \/ GetPendingTxs(r)
  \/ \E id \in ProposalId : PublishTx(r, id) \/ BroadcastTx(r, id)
  \/ \E id \in ProposalId, p \in Pocketeer :
       \/ CreateTx(r, p, id) \/ RemovePendingTx(r, p, id)
       \/ SignTx(r, p, id) \/ RejectTx(r, p, id)

Next ==
  \/ \E r \in Request : Call(r) \/ Handler(r)
  \/ \E id \in ProposalId : ThirdPartyBroadcast(id)
  \/ LockExpires

Spec == Init /\ [][Next]_vars

\* No handler keeps the lock for 5 minutes.
PromptNext ==
  \/ \E r \in Request : Call(r) \/ Handler(r)
  \/ \E id \in ProposalId : ThirdPartyBroadcast(id)

PromptSpec == Init /\ [][PromptNext]_vars

\* Clients that never have a vote on a proposal, or its removal, under way
\* together with another handler that will store it.
Rewrites(r, id) ==
  \/ req[r].id = id /\ req[r].op \in {"signTx", "rejectTx", "broadcastTx",
                                     "removePendingTx"}
  \/ req[r].todo[id] # NoTx

VotesAlone ==
  \A r, q \in Request :
    /\ r # q
    /\ req[r].op \in {"signTx", "rejectTx", "removePendingTx"}
    => ~Rewrites(q, req[r].id)

PoliteSpec == Init /\ [][PromptNext /\ VotesAlone']_vars

-----------------------------------------------------------------------------

\* The type of the state.
TypeOK ==
  /\ txs \in [ProposalId -> Document]
  /\ req \in [Request -> RequestState]
  /\ lock \in Request \cup {NoRequest}
  /\ chain \subseteq TxidType

\* However votes, broadcasts and removals interleave, a stored proposal never
\* shows a status its votes do not justify, and nobody votes twice on it:
\* accepted and broadcasted proposals have exactly the required signatures.
\* signTx and rejectTx check the copy they read, and store it much later.
StoredWellVoted ==
  \A id \in ProposalId : txs[id] # NoTx => WellVoted(txs[id])

\* What is true of a handler's copies, as long as it waits for an answer.
HandlerSound(h, network) ==
  /\ h.txp # NoTx => WellVoted(h.txp)
  /\ \A id \in ProposalId : h.todo[id] # NoTx =>
       WellVoted(h.todo[id]) /\ h.todo[id].status = "accepted"
  /\ h.pc \in {"storeTx", "broadcast", "checkTx"} =>
       h.id \in ProposalId /\ h.txp # NoTx
  /\ h.pc \in {"broadcast", "checkTx"} => h.txp.status = "accepted"
  /\ h.pc = "storeTx" /\ h.txp.status = "broadcasted" =>
       Txid(h.id, h.txp) \in network
  /\ h.op \in {"createTx", "publishTx"} /\ h.pc # "storeTx" =>
       h.id \in ProposalId /\ h.txp # NoTx /\ h.txp.status = "temporary"
  /\ h.pc = "removeTx" => h.id \in ProposalId

\* A copy stays fit to be stored while the document it was read from changes,
\* or goes: votes on it are valid by themselves, it says broadcasted only when
\* the network has its transaction, and only unpublished ones are published.
InFlight == \A r \in Request : HandlerSound(req[r], chain)

\* A proposal stored as broadcasted is one whose transaction, with the very
\* signatures the document shows, the network knows: no interleaving of
\* broadcastTx, getPendingTxs and stale stores records a payment not made.
BroadcastedIsOnNetwork ==
  \A id \in ProposalId :
    txs[id] # NoTx /\ txs[id].status = "broadcasted"
      => Txid(id, txs[id]) \in chain

\* Nothing reaches the network with fewer signers than the wallet requires.
NetworkHasQuorum ==
  \A tx \in chain : Cardinality(tx.signers) = RequiredSignatures

\* When everybody has voted the vote is over: requiredRejections leaves no
\* combination of votes that neither accepts nor rejects.
AllVotesDecide ==
  \A id \in ProposalId :
    txs[id] # NoTx /\ txs[id].status = "pending"
      => GetActors(txs[id]) # Pocketeer

\* Publishing locks the inputs: no output is spent by two proposals that wait
\* for signatures or for their broadcast.
InputsLocked ==
  \A i, j \in ProposalId :
    /\ i # j
    /\ txs[i] # NoTx /\ IsPending(txs[i])
    /\ txs[j] # NoTx /\ IsPending(txs[j])
    => txs[i].inputs \cap txs[j].inputs = {}

Rank == [temporary |-> 0, pending |-> 1, accepted |-> 2, rejected |-> 4,
         broadcasted |-> 3]

\* A recorded vote stays recorded, in its place, as long as the proposal is
\* stored: no store takes back what a pocketeer was told is done.  And its
\* status only goes forward: a rejected proposal is never voted on or
\* broadcast, a broadcast one is never open again.
VotesKept ==
  [][\A id \in ProposalId :
       txs[id] # NoTx /\ txs'[id] # NoTx
         => /\ IsPrefix(txs[id].actions, txs'[id].actions)
            /\ txs[id].status # txs'[id].status
                 => /\ Rank[txs[id].status] < Rank[txs'[id].status]
                    /\ txs'[id].status = "rejected" => txs[id].status = "pending"
                    /\ txs'[id].status = "broadcasted" => txs[id].status = "accepted"]_vars

\* Clients keep polling getPendingTxs, every handler ends, and of the polls
\* some in the end get the documents, and then the truth from the explorer.
Polled ==
  \A r \in Request :
    /\ SF_vars(GetPendingTxs(r))
    /\ WF_vars(Handler(r))
    /\ SF_vars(FetchPendingTxs(r))
    /\ \A id \in ProposalId : SF_vars(MarkBroadcasted(r, id))

FairSpec == Spec /\ Polled

\* A transaction the network knows does not stay unnoticed: its proposal, with
\* those signatures, does not wait for its broadcast for ever.
BroadcastNoticed ==
  \A id \in ProposalId :
    []<>~(/\ txs[id] # NoTx
          /\ txs[id].status = "accepted"
          /\ Txid(id, txs[id]) \in chain)

=============================================================================

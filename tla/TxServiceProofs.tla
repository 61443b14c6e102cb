-------------------------- MODULE TxServiceProofs ---------------------------
(***************************************************************************)
(* The safety of the transaction-proposal handlers, for any wallet, any    *)
(* number of requests and proposals, and any interleaving, lost lock and   *)
(* failure that TxService allows.                                          *)
(*                                                                         *)
(* What the votes of one proposal add up to comes first (TxProposal).      *)
(* The invariant that is inductive, IInv, joins what is said of the stored *)
(* documents with what is true of the copies the handlers hold (InFlight): *)
(* a document is only ever replaced by such a copy.                        *)
(***************************************************************************)
EXTENDS TxService, FiniteSetTheorems, TLAPS

-----------------------------------------------------------------------------
(* What votes do to a proposal, for every m and n.                          *)

(* The numbers of a wallet: both quorums ask for a vote at least, and they  *)
(* leave room for each other.                                               *)
LEMMA Quorums ==
  /\ RequiredSignatures \in Nat /\ RequiredSignatures >= 1
  /\ RequiredRejections \in Nat /\ RequiredRejections >= 1
  /\ RequiredSignatures + RequiredRejections <= Cardinality(Pocketeer) + 1
  /\ Cardinality(Pocketeer) \in Nat
<1>1. Cardinality(Pocketeer) \in Nat
  BY TxProposalAssumption, FS_CardinalityType
<1>2. QED
  BY <1>1, TxProposalAssumption DEF RequiredRejections

(* The votes of a stored proposal are finitely many.                        *)
LEMMA VotesFinite ==
  ASSUME NEW txp \in Proposal, NEW type
  PROVE  /\ IsFiniteSet(Votes(txp, type))
         /\ Cardinality(Votes(txp, type)) \in Nat
<1>1. /\ Len(txp.actions) \in Nat
      /\ DOMAIN txp.actions = 1..Len(txp.actions)
  BY DEF Proposal
<1>2. IsFiniteSet(1..Len(txp.actions))
  BY <1>1, FS_Interval
<1>3. Votes(txp, type) \subseteq 1..Len(txp.actions)
  BY <1>1 DEF Votes
<1>4. QED
  BY <1>2, <1>3, FS_Subset, FS_CardinalityType

\* The votes of a proposal are actions.
LEMMA ActionsTyped ==
  ASSUME NEW txp \in Proposal
  PROVE  \A i \in DOMAIN txp.actions : txp.actions[i] \in Action
<1>1. txp.actions \in Seq(Action)
  BY DEF Proposal
<1>2. QED
  BY <1>1

(* A vote is one more of its type, and none more of another.                *)
LEMMA VotesOfAddAction ==
  ASSUME NEW txp \in Proposal, NEW p \in Pocketeer,
         NEW cast \in {"accept", "reject"}, NEW type \in {"accept", "reject"}
  PROVE  LET after == AddAction(txp, p, cast) IN
         Cardinality(Votes(after, type)) =
           Cardinality(Votes(txp, type)) + (IF cast = type THEN 1 ELSE 0)
<1> DEFINE n == Len(txp.actions)
           vote == [pocketeerId |-> p, type |-> cast]
           after == AddAction(txp, p, cast)
<1>1. /\ n \in Nat
      /\ DOMAIN txp.actions = 1..n
      /\ txp.actions \in Seq(Action)
      /\ vote \in Action
  BY DEF Proposal, Action
<1>2. after.actions = Append(txp.actions, vote)
  BY DEF AddAction, Proposal
<1>3. /\ DOMAIN after.actions = 1..(n + 1)
      /\ after.actions[n + 1] = vote
      /\ \A i \in 1..n : after.actions[i] = txp.actions[i]
  BY <1>1, <1>2
<1>4. Votes(after, type) =
        Votes(txp, type) \cup (IF cast = type THEN {n + 1} ELSE {})
  BY <1>1, <1>3 DEF Votes
<1>5. n + 1 \notin Votes(txp, type)
  BY <1>1 DEF Votes
<1>6. IsFiniteSet(Votes(txp, type)) /\ Cardinality(Votes(txp, type)) \in Nat
  BY VotesFinite
<1>7. CASE cast = type
  <2>1. Votes(after, type) = Votes(txp, type) \cup {n + 1}
    BY <1>4, <1>7
  <2>2. Cardinality(Votes(txp, type) \cup {n + 1}) = Cardinality(Votes(txp, type)) + 1
    BY <1>5, <1>6, FS_AddElement
  <2>3. QED
    BY <1>7, <2>1, <2>2
<1>8. CASE cast # type
  BY <1>4, <1>6, <1>8
<1>9. QED
  BY <1>7, <1>8

\* AddAction keeps the type.
LEMMA AddActionType ==
  ASSUME NEW txp \in Proposal, NEW p \in Pocketeer,
         NEW type \in {"accept", "reject"}
  PROVE  AddAction(txp, p, type) \in Proposal
<1>1. Append(txp.actions, [pocketeerId |-> p, type |-> type]) \in Seq(Action)
  BY DEF Proposal, Action
<1>2. QED
  BY <1>1 DEF AddAction, StatusAfterVote, Proposal, Status

(* A vote the handlers let through keeps a proposal well voted: this is the  *)
(* test of signTx and rejectTx made on the copy the vote is added to.        *)
THEOREM VotesStayWell ==
  ASSUME NEW txp \in Proposal, NEW p \in Pocketeer,
         NEW type \in {"accept", "reject"},
         WellVoted(txp),
         p \notin GetActors(txp),
         \/ type = "accept" /\ IsPending(txp) /\ TakesSignature(txp)
         \/ type = "reject" /\ txp.status = "pending"
  PROVE  /\ WellVoted(AddAction(txp, p, type))
         /\ AddAction(txp, p, type).status # "broadcasted"
<1> DEFINE after == AddAction(txp, p, type)
           voted == [txp EXCEPT !.actions =
                       Append(@, [pocketeerId |-> p, type |-> type])]
           acc == Cardinality(Votes(txp, "accept"))
           rej == Cardinality(Votes(txp, "reject"))
<1>1. txp.status \in Status /\ txp.actions \in Seq(Action)
  BY DEF Proposal
<1>2. acc \in Nat /\ rej \in Nat
  BY VotesFinite
<1>3. txp.status = "pending"
  BY <1>1, <1>2, Quorums
     DEF WellVoted, StatusMatchesVotes, IsPending, TakesSignature, Status
<1>4. acc < RequiredSignatures /\ rej < RequiredRejections
  BY <1>3 DEF WellVoted, StatusMatchesVotes
<1>5. /\ after.actions = Append(txp.actions, [pocketeerId |-> p, type |-> type])
      /\ voted.actions = after.actions
      /\ voted.status = "pending"
      /\ after.status = StatusAfterVote(voted)
  BY <1>3 DEF AddAction, Proposal
<1>6. /\ Votes(voted, "accept") = Votes(after, "accept")
      /\ Votes(voted, "reject") = Votes(after, "reject")
  BY <1>5 DEF Votes
<1>7. /\ Cardinality(Votes(after, "accept")) =
            acc + (IF type = "accept" THEN 1 ELSE 0)
      /\ Cardinality(Votes(after, "reject")) =
            rej + (IF type = "reject" THEN 1 ELSE 0)
  BY VotesOfAddAction
<1>8. after.status = IF rej + (IF type = "reject" THEN 1 ELSE 0) >= RequiredRejections
                     THEN "rejected"
                     ELSE IF acc + (IF type = "accept" THEN 1 ELSE 0) >= RequiredSignatures
                     THEN "accepted" ELSE "pending"
  BY <1>5, <1>6, <1>7 DEF StatusAfterVote, IsAccepted, IsRejected
<1>9. StatusMatchesVotes(after)
  <2>1. CASE type = "accept"
    BY <1>2, <1>4, <1>7, <1>8, <2>1, Quorums DEF StatusMatchesVotes
  <2>2. CASE type = "reject"
    BY <1>2, <1>4, <1>7, <1>8, <2>2, Quorums DEF StatusMatchesVotes
  <2>3. QED
    BY <2>1, <2>2
<1>10. OneVoteEach(after)
  <2>1. OneVoteEach(txp)
    BY DEF WellVoted
  <2>2. \A i \in DOMAIN txp.actions : txp.actions[i].pocketeerId # p
    BY DEF GetActors
  <2>3. /\ Len(txp.actions) \in Nat
        /\ DOMAIN txp.actions = 1..Len(txp.actions)
        /\ DOMAIN after.actions = 1..(Len(txp.actions) + 1)
        /\ after.actions[Len(txp.actions) + 1].pocketeerId = p
        /\ \A i \in 1..Len(txp.actions) : after.actions[i] = txp.actions[i]
    BY <1>1, <1>5 DEF Action
  <2>4. \A i \in 1..Len(txp.actions) : after.actions[i].pocketeerId # p
    BY <2>2, <2>3
  <2>5. \A i, j \in 1..Len(txp.actions) :
          after.actions[i].pocketeerId = after.actions[j].pocketeerId => i = j
    BY <2>1, <2>3 DEF OneVoteEach
  <2>6. SUFFICES ASSUME NEW i \in 1..(Len(txp.actions) + 1),
                        NEW j \in 1..(Len(txp.actions) + 1),
                        after.actions[i].pocketeerId = after.actions[j].pocketeerId
                 PROVE  i = j
    BY <2>3 DEF OneVoteEach
  <2>7. \A k \in 1..(Len(txp.actions) + 1) :
          k \in 1..Len(txp.actions) \/ k = Len(txp.actions) + 1
    BY <2>3
  <2>8. QED
    BY <2>3, <2>4, <2>5, <2>6, <2>7
<1>11. QED
  BY <1>8, <1>9, <1>10 DEF WellVoted

(* A proposal nobody has voted on is well voted while it is temporary, and   *)
(* when publishTx makes it pending.                                          *)
LEMMA NoVotes ==
  ASSUME NEW txp \in Proposal, WellVoted(txp), txp.status = "temporary"
  PROVE  WellVoted(SetStatus(txp, "pending"))
<1> DEFINE after == SetStatus(txp, "pending")
<1>1. /\ txp.actions = << >>
      /\ after.actions = << >>
      /\ after.status = "pending"
  BY DEF WellVoted, StatusMatchesVotes, SetStatus, Proposal
<1>2. Votes(after, "accept") = {} /\ Votes(after, "reject") = {}
  BY <1>1 DEF Votes
<1>3. OneVoteEach(after)
  BY <1>1 DEF OneVoteEach
<1>4. StatusMatchesVotes(after)
  <2>1. /\ Cardinality(Votes(after, "accept")) = 0
        /\ Cardinality(Votes(after, "reject")) = 0
    BY <1>2, FS_EmptySet
  <2>2. QED
    BY <1>1, <2>1, Quorums DEF StatusMatchesVotes
<1>5. QED
  BY <1>3, <1>4 DEF WellVoted

(* setBroadcasted changes no vote.                                           *)
LEMMA BroadcastKeepsVotes ==
  ASSUME NEW txp \in Proposal, WellVoted(txp), txp.status = "accepted", NEW id
  PROVE  /\ WellVoted(SetStatus(txp, "broadcasted"))
         /\ Txid(id, SetStatus(txp, "broadcasted")) = Txid(id, txp)
<1> DEFINE after == SetStatus(txp, "broadcasted")
<1>1. /\ after.actions = txp.actions
      /\ after.inputs = txp.inputs
      /\ after.status = "broadcasted"
  BY DEF SetStatus, Proposal
<1>2. /\ Votes(after, "accept") = Votes(txp, "accept")
      /\ Votes(after, "reject") = Votes(txp, "reject")
      /\ GetApprovers(after) = GetApprovers(txp)
  BY <1>1 DEF Votes, GetApprovers
<1>3. WellVoted(after)
  BY <1>1, <1>2 DEF WellVoted, OneVoteEach, StatusMatchesVotes
<1>4. QED
  BY <1>1, <1>2, <1>3 DEF Txid

(* One vote each: there are as many approvers as acceptances.                *)
LEMMA ApproversCounted ==
  ASSUME NEW txp \in Proposal, OneVoteEach(txp)
  PROVE  /\ GetApprovers(txp) \subseteq Pocketeer
         /\ Cardinality(GetApprovers(txp)) = Cardinality(Votes(txp, "accept"))
<1> DEFINE V == Votes(txp, "accept")
           A == GetApprovers(txp)
           voter == [i \in V |-> txp.actions[i].pocketeerId]
<1>1. \A i \in DOMAIN txp.actions : txp.actions[i].pocketeerId \in Pocketeer
  BY ActionsTyped DEF Action
<1>2. voter \in Bijection(V, A)
  <2>1. voter \in [V -> A]
    BY DEF GetApprovers
  <2>2. \A i, j \in V : voter[i] = voter[j] => i = j
    BY DEF OneVoteEach, Votes
  <2>3. \A a \in A : \E i \in V : voter[i] = a
    BY DEF GetApprovers
  <2>4. QED
    BY <2>1, <2>2, <2>3 DEF Bijection, Injection, IsInjective, Surjection
<1>3. ExistsBijection(V, A)
  BY <1>2 DEF ExistsBijection
<1>4. IsFiniteSet(V)
  BY VotesFinite
<1>5. A \subseteq Pocketeer
  BY <1>1 DEF GetApprovers, Votes
<1>6. Cardinality(A) = Cardinality(V)
  BY <1>3, <1>4, FS_Bijection
<1>7. QED
  BY <1>5, <1>6

(* Once every pocketeer has voted the proposal is decided, whatever m and n: *)
(* requiredRejections = min(m, n-m+1) leaves no tie.                         *)
THEOREM EveryVoteCastDecides ==
  ASSUME NEW txp \in Proposal, WellVoted(txp), GetActors(txp) = Pocketeer
  PROVE  txp.status # "pending"
<1> DEFINE A == Votes(txp, "accept")
           R == Votes(txp, "reject")
           D == DOMAIN txp.actions
           voter == [i \in D |-> txp.actions[i].pocketeerId]
<1>1. /\ IsFiniteSet(A) /\ Cardinality(A) \in Nat
      /\ IsFiniteSet(R) /\ Cardinality(R) \in Nat
  BY VotesFinite
<1>2. D = A \cup R
  BY ActionsTyped DEF Votes, Action
<1>3. IsFiniteSet(D) /\ Cardinality(D) <= Cardinality(A) + Cardinality(R)
  <2>1. A \cap R = {}
    BY DEF Votes
  <2>2. QED
    BY <1>1, <1>2, <2>1, FS_Union, FS_EmptySet
<1>4. voter \in Surjection(D, Pocketeer)
  <2>1. voter \in [D -> Pocketeer]
    BY ActionsTyped DEF Action
  <2>2. \A p \in Pocketeer : \E i \in D : voter[i] = p
    BY DEF GetActors
  <2>3. QED
    BY <2>1, <2>2 DEF Surjection
<1>5. Cardinality(Pocketeer) <= Cardinality(D)
  BY <1>3, <1>4, FS_Surjection
<1>6. Cardinality(D) \in Nat
  BY <1>3, FS_CardinalityType
<1>7. SUFFICES ASSUME txp.status = "pending" PROVE FALSE
  OBVIOUS
<1>8. Cardinality(A) < RequiredSignatures /\ Cardinality(R) < RequiredRejections
  BY <1>7 DEF WellVoted, StatusMatchesVotes
<1>9. QED
  BY <1>1, <1>3, <1>5, <1>6, <1>8, Quorums

-----------------------------------------------------------------------------
(* The inductive invariant.                                                 *)

IInv ==
  /\ TypeOK
  /\ StoredWellVoted
  /\ InFlight
  /\ BroadcastedIsOnNetwork
  /\ NetworkHasQuorum

-----------------------------------------------------------------------------
(* The copies: what one step of a handler has to show of itself only.       *)

\* A handler at rest satisfies what is asked of handlers.
LEMMA IdleSound ==
  /\ Idle \in RequestState
  /\ \A network : HandlerSound(Idle, network)
BY DEF Idle, RequestState, PC, Document, Nothing, HandlerSound

(* What started a handler: the copy it holds and where it waits.            *)
LEMMA StartType ==
  ASSUME NEW op \in {"createTx", "publishTx", "signTx", "rejectTx", "broadcastTx",
                     "removePendingTx", "getPendingTxs", "none"},
         NEW pc \in PC, NEW id \in ProposalId \cup {NoId}, NEW txp \in Document
  PROVE  /\ Start(op, pc, id, txp) \in RequestState
         /\ Start(op, pc, id, txp).op = op
         /\ Start(op, pc, id, txp).pc = pc
         /\ Start(op, pc, id, txp).id = id
         /\ Start(op, pc, id, txp).txp = txp
         /\ Start(op, pc, id, txp).todo = Nothing
BY DEF Start, Idle, RequestState, Document, Nothing

(* A network that grows takes nothing from what handlers know of it.        *)
LEMMA HandlerStaysSound ==
  ASSUME NEW h, NEW before, NEW after, before \subseteq after,
         HandlerSound(h, before)
  PROVE  HandlerSound(h, after)
BY DEF HandlerSound

(* One handler moves, to a sound state: all handlers are sound.             *)
LEMMA OneHandlerMoves ==
  ASSUME req \in [Request -> RequestState], InFlight,
         NEW r \in Request, NEW h \in RequestState,
         req' = [req EXCEPT ![r] = h],
         chain \subseteq chain',
         HandlerSound(h, chain')
  PROVE  /\ req' \in [Request -> RequestState]
         /\ InFlight'
<1>1. req' \in [Request -> RequestState]
  OBVIOUS
<1>2. ASSUME NEW q \in Request PROVE HandlerSound(req'[q], chain')
  <2>1. CASE q = r
    BY <2>1
  <2>2. CASE q # r
    <3>1. req'[q] = req[q]
      BY <2>2
    <3>2. HandlerSound(req[q], chain)
      BY DEF InFlight
    <3>3. QED
      BY <3>1, <3>2, HandlerStaysSound
  <2>3. QED
    BY <2>1, <2>2
<1>3. QED
  BY <1>1, <1>2 DEF InFlight

(* The documents: what a step that stores one has to show of it only.       *)
LEMMA OneDocumentMoves ==
  ASSUME IInv, NEW id \in ProposalId, NEW txp \in Document,
         txs' = [txs EXCEPT ![id] = txp],
         chain' = chain,
         txp # NoTx => /\ WellVoted(txp)
                       /\ txp.status = "broadcasted" => Txid(id, txp) \in chain
  PROVE  /\ txs' \in [ProposalId -> Document]
         /\ StoredWellVoted'
         /\ BroadcastedIsOnNetwork'
<1>1. txs \in [ProposalId -> Document]
  BY DEF IInv, TypeOK
<1>2. txs' \in [ProposalId -> Document]
  BY <1>1
<1>3. StoredWellVoted'
  BY <1>1 DEF IInv, StoredWellVoted
<1>4. BroadcastedIsOnNetwork'
  BY <1>1 DEF IInv, BroadcastedIsOnNetwork
<1>5. QED
  BY <1>2, <1>3, <1>4

(* The network: it only takes transactions with the required signatures.    *)
LEMMA NetworkGrows ==
  ASSUME IInv, NEW id \in ProposalId, NEW txp \in Proposal,
         WellVoted(txp), txp.status = "accepted",
         chain' = chain \cup {Txid(id, txp)},
         txs' = txs
  PROVE  /\ chain' \subseteq TxidType
         /\ NetworkHasQuorum'
         /\ BroadcastedIsOnNetwork'
<1>1. /\ GetApprovers(txp) \subseteq Pocketeer
      /\ Cardinality(GetApprovers(txp)) = Cardinality(Votes(txp, "accept"))
  BY ApproversCounted DEF WellVoted
<1>2. Cardinality(Votes(txp, "accept")) = RequiredSignatures
  BY DEF WellVoted, StatusMatchesVotes
<1>3. Txid(id, txp) \in TxidType
  BY <1>1 DEF Txid, TxidType, Proposal
<1>4. Txid(id, txp).signers = GetApprovers(txp)
  BY DEF Txid
<1>5. chain' \subseteq TxidType
  BY <1>3 DEF IInv, TypeOK
<1>6. NetworkHasQuorum'
  BY <1>1, <1>2, <1>4 DEF IInv, NetworkHasQuorum
<1>7. BroadcastedIsOnNetwork'
  BY DEF IInv, BroadcastedIsOnNetwork
<1>8. QED
  BY <1>5, <1>6, <1>7

-----------------------------------------------------------------------------
(* Documents as handlers change them.                                       *)

\* A new proposal is temporary and has no votes.
LEMMA CreateSound ==
  ASSUME NEW p \in Pocketeer, NEW inputs \in SUBSET Utxo
  PROVE  /\ Create(p, inputs) \in Proposal
         /\ Create(p, inputs).status = "temporary"
         /\ WellVoted(Create(p, inputs))
<1> DEFINE txp == Create(p, inputs)
<1>1. txp \in Proposal /\ txp.status = "temporary" /\ txp.actions = << >>
  BY DEF Create, Proposal, Status
<1>2. QED
  BY <1>1 DEF WellVoted, OneVoteEach, StatusMatchesVotes

\* Selecting inputs does not touch the votes.
LEMMA InputsKeepVotes ==
  ASSUME NEW txp \in Proposal, WellVoted(txp), txp.status = "temporary",
         NEW inputs \in SUBSET Utxo
  PROVE  LET after == [txp EXCEPT !.inputs = inputs] IN
         after \in Proposal /\ after.status = "temporary" /\ WellVoted(after)
<1> DEFINE after == [txp EXCEPT !.inputs = inputs]
<1>1. /\ after \in Proposal
      /\ after.status = "temporary"
      /\ after.actions = txp.actions
  BY DEF Proposal
<1>2. txp.actions = << >>
  BY DEF WellVoted, StatusMatchesVotes
<1>3. QED
  BY <1>1, <1>2 DEF WellVoted, OneVoteEach, StatusMatchesVotes

\* SetStatus keeps the type.
LEMMA SetStatusType ==
  ASSUME NEW txp \in Proposal, NEW status \in Status
  PROVE  SetStatus(txp, status) \in Proposal /\ SetStatus(txp, status).status = status
BY DEF SetStatus, Proposal

-----------------------------------------------------------------------------
(* The invariant, action by action.                                         *)

\* The first states satisfy the invariant.
LEMMA InitIInv == Init => IInv
<1> SUFFICES ASSUME Init PROVE IInv
  OBVIOUS
<1>1. TypeOK
  BY IdleSound DEF Init, TypeOK, Nothing, Document
<1>2. InFlight
  BY IdleSound DEF Init, InFlight
<1>3. StoredWellVoted /\ BroadcastedIsOnNetwork /\ NetworkHasQuorum
  BY DEF Init, Nothing, StoredWellVoted, BroadcastedIsOnNetwork, NetworkHasQuorum
<1>4. QED
  BY <1>1, <1>2, <1>3 DEF IInv

(* Releasing a lock leaves a lock.                                           *)
LEMMA LockType ==
  ASSUME TypeOK, NEW r \in Request, Release(r) \/ Acquire(r) \/ UNCHANGED lock
  PROVE  lock' \in Request \cup {NoRequest}
BY DEF TypeOK, Release, Acquire

(* A step that changes one handler, and perhaps the lock, keeps IInv when    *)
(* it leaves the handler sound.                                              *)
LEMMA HandlerStep ==
  ASSUME IInv, NEW r \in Request, NEW h \in RequestState,
         req' = [req EXCEPT ![r] = h], HandlerSound(h, chain),
         Release(r) \/ Acquire(r) \/ UNCHANGED lock,
         UNCHANGED <<txs, chain>>
  PROVE  IInv'
<1>1. req' \in [Request -> RequestState] /\ InFlight'
  BY OneHandlerMoves DEF IInv, TypeOK
<1>2. TypeOK'
  BY <1>1, LockType DEF IInv, TypeOK
<1>3. StoredWellVoted' /\ BroadcastedIsOnNetwork' /\ NetworkHasQuorum'
  BY DEF IInv, StoredWellVoted, BroadcastedIsOnNetwork, NetworkHasQuorum
<1>4. QED
  BY <1>1, <1>2, <1>3 DEF IInv

(* A step that stores or removes one document, and changes one handler.      *)
LEMMA StoreStep ==
  ASSUME IInv, NEW r \in Request, NEW h \in RequestState,
         req' = [req EXCEPT ![r] = h], HandlerSound(h, chain),
         Release(r) \/ UNCHANGED lock,
         NEW id \in ProposalId, NEW txp \in Document,
         txs' = [txs EXCEPT ![id] = txp], UNCHANGED chain,
         txp # NoTx => /\ WellVoted(txp)
                       /\ txp.status = "broadcasted" => Txid(id, txp) \in chain
  PROVE  IInv'
<1>1. req' \in [Request -> RequestState] /\ InFlight'
  BY OneHandlerMoves DEF IInv, TypeOK
<1>2. txs' \in [ProposalId -> Document] /\ StoredWellVoted' /\ BroadcastedIsOnNetwork'
  BY OneDocumentMoves
<1>3. TypeOK'
  BY <1>1, <1>2, LockType DEF IInv, TypeOK
<1>4. NetworkHasQuorum'
  BY DEF IInv, NetworkHasQuorum
<1>5. QED
  BY <1>1, <1>2, <1>3, <1>4 DEF IInv

(* What the invariant says of one handler and one document.                  *)
LEMMA Facts ==
  ASSUME IInv
  PROVE  /\ \A r \in Request : req[r] \in RequestState /\ HandlerSound(req[r], chain)
         /\ \A id \in ProposalId : txs[id] # NoTx =>
              txs[id] \in Proposal /\ WellVoted(txs[id])
BY DEF IInv, TypeOK, InFlight, StoredWellVoted, Document

\* An answer to the client ends the handler.
LEMMA ReturnStep ==
  ASSUME IInv, NEW r \in Request, Return(r), UNCHANGED <<txs, chain>>
  PROVE  IInv'
BY IdleSound, HandlerStep DEF Return

\* A vote is cast in the copy of the proposal.
LEMMA VoteStep ==
  ASSUME IInv, NEW r \in Request, NEW p \in Pocketeer, NEW id \in ProposalId,
         SignTx(r, p, id) \/ RejectTx(r, p, id)
  PROVE  IInv'
<1>1. PICK op \in {"signTx", "rejectTx"}, type \in {"accept", "reject"} :
        /\ Vote(r, op, p, id, type)
        /\ \/ type = "accept" /\ IsPending(txs[id]) /\ TakesSignature(txs[id])
           \/ type = "reject" /\ txs[id].status = "pending"
  BY DEF SignTx, RejectTx
<1> DEFINE after == AddAction(txs[id], p, type)
           h == Start(op, "storeTx", id, after)
<1>2. txs[id] \in Proposal /\ WellVoted(txs[id]) /\ p \notin GetActors(txs[id])
  BY <1>1, Facts DEF Vote
<1>3. after \in Proposal
  BY <1>2, AddActionType
<1>4. WellVoted(after) /\ after.status # "broadcasted"
  BY <1>1, <1>2, VotesStayWell
<1>5. /\ h \in RequestState /\ h.op = op /\ h.pc = "storeTx"
      /\ h.id = id /\ h.txp = after /\ h.todo = Nothing
  BY <1>3, StartType DEF Document, PC
<1>6. HandlerSound(h, chain)
  BY <1>3, <1>4, <1>5, TxServiceAssumption DEF HandlerSound, Nothing
<1>7. QED
  BY <1>1, <1>5, <1>6, HandlerStep DEF Vote

\* The copy replaces the document.
LEMMA StoreTxStep ==
  ASSUME IInv, NEW r \in Request, StoreTx(r)
  PROVE  IInv'
<1>1. /\ req[r].id \in ProposalId /\ req[r].txp # NoTx
      /\ WellVoted(req[r].txp)
      /\ req[r].txp.status = "broadcasted" => Txid(req[r].id, req[r].txp) \in chain
  BY Facts DEF StoreTx, HandlerSound
<1>2. req[r].txp \in Document
  BY Facts DEF RequestState
<1>3. QED
  BY <1>1, <1>2, IdleSound, StoreStep DEF StoreTx, Return

\* The document is removed.
LEMMA RemoveTxStep ==
  ASSUME IInv, NEW r \in Request, RemoveTx(r)
  PROVE  IInv'
<1>1. req[r].id \in ProposalId
  BY Facts DEF RemoveTx, HandlerSound
<1>2. NoTx \in Document
  BY DEF Document
<1>3. QED
  BY <1>1, <1>2, IdleSound, StoreStep DEF RemoveTx, Return

\* The handlers that read the document.
LEMMA CallStep ==
  ASSUME IInv, NEW r \in Request,
         \/ GetPendingTxs(r)
         \/ \E id \in ProposalId : PublishTx(r, id) \/ BroadcastTx(r, id)
         \/ \E id \in ProposalId, p \in Pocketeer :
              CreateTx(r, p, id) \/ RemovePendingTx(r, p, id)
  PROVE  IInv'
<1> USE DEF PC, Document
<1>1. CASE GetPendingTxs(r)
  <2> DEFINE h == Start("getPendingTxs", "getPendingTxs", NoId, NoTx)
  <2>1. /\ h \in RequestState /\ h.op = "getPendingTxs" /\ h.pc = "getPendingTxs"
        /\ h.id = NoId /\ h.txp = NoTx /\ h.todo = Nothing
    BY StartType
  <2>2. HandlerSound(h, chain)
    BY <2>1 DEF HandlerSound, Nothing
  <2>3. QED
    BY <1>1, <2>1, <2>2, HandlerStep DEF GetPendingTxs
<1>2. ASSUME NEW id \in ProposalId, PublishTx(r, id)
      PROVE  IInv'
  <2> DEFINE h == Start("publishTx", "getUtxos", id, txs[id])
  <2>1. txs[id] \in Proposal /\ WellVoted(txs[id]) /\ txs[id].status = "temporary"
    BY <1>2, Facts DEF PublishTx
  <2>2. /\ h \in RequestState /\ h.op = "publishTx" /\ h.pc = "getUtxos"
        /\ h.id = id /\ h.txp = txs[id] /\ h.todo = Nothing
    BY <2>1, StartType
  <2>3. HandlerSound(h, chain)
    BY <2>1, <2>2, TxServiceAssumption DEF HandlerSound, Nothing
  <2>4. QED
    BY <1>2, <2>2, <2>3, HandlerStep DEF PublishTx
<1>3. ASSUME NEW id \in ProposalId, BroadcastTx(r, id)
      PROVE  IInv'
  <2> DEFINE h == Start("broadcastTx", "broadcast", id, txs[id])
  <2>1. txs[id] \in Proposal /\ WellVoted(txs[id]) /\ txs[id].status = "accepted"
    BY <1>3, Facts DEF BroadcastTx
  <2>2. /\ h \in RequestState /\ h.op = "broadcastTx" /\ h.pc = "broadcast"
        /\ h.id = id /\ h.txp = txs[id] /\ h.todo = Nothing
    BY <2>1, StartType
  <2>3. HandlerSound(h, chain)
    BY <2>1, <2>2, TxServiceAssumption DEF HandlerSound, Nothing
  <2>4. QED
    BY <1>3, <2>2, <2>3, HandlerStep DEF BroadcastTx
<1>4. ASSUME NEW id \in ProposalId, NEW p \in Pocketeer, CreateTx(r, p, id)
      PROVE  IInv'
  <2>1. PICK inputs \in SUBSET Utxo, pc \in {"storeTx", "getUtxos"} :
          req' = [req EXCEPT ![r] = Start("createTx", pc, id, Create(p, inputs))]
    BY <1>4 DEF CreateTx
  <2> DEFINE h == Start("createTx", pc, id, Create(p, inputs))
  <2>2. /\ Create(p, inputs) \in Proposal
        /\ Create(p, inputs).status = "temporary"
        /\ WellVoted(Create(p, inputs))
    BY CreateSound
  <2>3. /\ h \in RequestState /\ h.op = "createTx" /\ h.pc \in {"storeTx", "getUtxos"}
        /\ h.id = id /\ h.txp = Create(p, inputs) /\ h.todo = Nothing
    BY <2>2, StartType
  <2>4. HandlerSound(h, chain)
    BY <2>2, <2>3, TxServiceAssumption DEF HandlerSound, Nothing
  <2>5. QED
    BY <1>4, <2>1, <2>3, <2>4, HandlerStep DEF CreateTx
<1>5. ASSUME NEW id \in ProposalId, NEW p \in Pocketeer, RemovePendingTx(r, p, id)
      PROVE  IInv'
  <2> DEFINE h == Start("removePendingTx", "removeTx", id, NoTx)
  <2>1. /\ h \in RequestState /\ h.op = "removePendingTx" /\ h.pc = "removeTx"
        /\ h.id = id /\ h.txp = NoTx /\ h.todo = Nothing
    BY StartType
  <2>2. HandlerSound(h, chain)
    BY <2>1 DEF HandlerSound, Nothing
  <2>3. QED
    BY <1>5, <2>1, <2>2, HandlerStep DEF RemovePendingTx
<1>6. QED
  BY <1>1, <1>2, <1>3, <1>4, <1>5

(* _processBroadcast on the copy of broadcastTx.                             *)
Marked(h) == [h EXCEPT !.pc = "storeTx", !.txp = SetStatus(h.txp, "broadcasted")]

\* A proposal on the network is marked as broadcast in the copy only.
LEMMA MarkType ==
  ASSUME NEW h \in RequestState, NEW network,
         h.pc \in {"broadcast", "checkTx"}, HandlerSound(h, network),
         Txid(h.id, h.txp) \in network
  PROVE  /\ Marked(h) \in RequestState
         /\ HandlerSound(Marked(h), network)
<1> DEFINE marked == Marked(h)
<1>1. /\ h.id \in ProposalId /\ h.txp \in Proposal
      /\ WellVoted(h.txp) /\ h.txp.status = "accepted"
      /\ h.op \notin {"createTx", "publishTx"}
  BY DEF HandlerSound, RequestState, Document
<1>2. /\ SetStatus(h.txp, "broadcasted") \in Proposal
      /\ SetStatus(h.txp, "broadcasted") # NoTx
      /\ WellVoted(SetStatus(h.txp, "broadcasted"))
      /\ Txid(h.id, SetStatus(h.txp, "broadcasted")) \in network
  BY <1>1, SetStatusType, BroadcastKeepsVotes, TxServiceAssumption DEF Status
<1>3. /\ marked \in RequestState
      /\ marked.pc = "storeTx" /\ marked.id = h.id /\ marked.op = h.op
      /\ marked.txp = SetStatus(h.txp, "broadcasted") /\ marked.todo = h.todo
  BY <1>2 DEF Marked, RequestState, PC, Document
<1>4. QED
  BY <1>1, <1>2, <1>3 DEF HandlerSound

\* What Mark does to the handler.
LEMMA MarkStep ==
  ASSUME IInv, NEW r \in Request, Mark(r)
  PROVE  req' = [req EXCEPT ![r] = Marked(req[r])]
BY DEF Mark, Marked, IInv, TypeOK, RequestState

(* broadcastTx with the network: what it sends has its signatures.           *)
LEMMA BroadcastStep ==
  ASSUME IInv, NEW r \in Request,
         BroadcastSucceeds(r) \/ BroadcastErrs(r) \/ CheckTxFinds(r)
  PROVE  IInv'
<1>1. /\ req[r] \in RequestState /\ HandlerSound(req[r], chain)
      /\ req[r].pc \in {"broadcast", "checkTx"}
      /\ UNCHANGED <<txs, lock>>
  BY Facts DEF BroadcastSucceeds, BroadcastErrs, CheckTxFinds
<1>2. /\ req[r].id \in ProposalId /\ req[r].txp \in Proposal
      /\ WellVoted(req[r].txp) /\ req[r].txp.status = "accepted"
      /\ req[r].op \notin {"createTx", "publishTx"}
  BY <1>1 DEF HandlerSound, RequestState, Document
<1>3. chain' = chain \/ chain' = chain \cup {Txid(req[r].id, req[r].txp)}
  BY DEF BroadcastSucceeds, BroadcastErrs, CheckTxFinds, TxidOf
<1>4. chain' \subseteq TxidType /\ NetworkHasQuorum' /\ BroadcastedIsOnNetwork'
  <2>1. CASE chain' = chain
    BY <1>1, <2>1 DEF IInv, TypeOK, NetworkHasQuorum, BroadcastedIsOnNetwork
  <2>2. CASE chain' = chain \cup {Txid(req[r].id, req[r].txp)}
    BY <1>1, <1>2, <2>2, NetworkGrows
  <2>3. QED
    BY <1>3, <2>1, <2>2
<1>5. HandlerSound(req[r], chain')
  BY <1>1, <1>3, HandlerStaysSound
<1>6. PICK h \in RequestState : req' = [req EXCEPT ![r] = h] /\ HandlerSound(h, chain')
  <2>1. CASE Mark(r) /\ Txid(req[r].id, req[r].txp) \in chain'
    <3>1. req' = [req EXCEPT ![r] = Marked(req[r])]
      BY <2>1, MarkStep
    <3>2. Marked(req[r]) \in RequestState /\ HandlerSound(Marked(req[r]), chain')
      BY <1>1, <1>5, <2>1, MarkType
    <3>3. QED
      BY <3>1, <3>2
  <2>2. CASE req' = [req EXCEPT ![r].pc = "checkTx"]
    <3> DEFINE h == [req[r] EXCEPT !.pc = "checkTx"]
    <3>1. /\ h \in RequestState
          /\ h.pc = "checkTx" /\ h.op = req[r].op /\ h.id = req[r].id
          /\ h.txp = req[r].txp /\ h.todo = req[r].todo
      BY <1>1 DEF RequestState, PC
    <3>2. HandlerSound(h, chain')
      BY <1>1, <1>2, <1>5, <3>1 DEF HandlerSound
    <3>3. req' = [req EXCEPT ![r] = h]
      BY <2>2
    <3>4. QED
      BY <3>1, <3>2, <3>3
  <2>3. QED
    BY <2>1, <2>2 DEF BroadcastSucceeds, BroadcastErrs, CheckTxFinds, TxidOf
<1>7. req' \in [Request -> RequestState] /\ InFlight'
  BY <1>3, <1>6, OneHandlerMoves DEF IInv, TypeOK
<1>8. TypeOK' /\ StoredWellVoted'
  BY <1>1, <1>4, <1>7 DEF IInv, TypeOK, StoredWellVoted
<1>9. QED
  BY <1>4, <1>7, <1>8 DEF IInv

\* The monitor marks what somebody else has broadcast.
LEMMA ThirdPartyStep ==
  ASSUME IInv, NEW id \in ProposalId, ThirdPartyBroadcast(id)
  PROVE  IInv'
<1>1. /\ txs[id] \in Proposal /\ WellVoted(txs[id])
      /\ chain' = chain \cup {Txid(id, txs[id])} /\ UNCHANGED <<txs, req, lock>>
      /\ txs[id].status = "accepted"
  BY Facts DEF ThirdPartyBroadcast
<1>2. chain' \subseteq TxidType /\ NetworkHasQuorum' /\ BroadcastedIsOnNetwork'
  BY <1>1, NetworkGrows
<1>3. InFlight'
  BY <1>1, HandlerStaysSound DEF IInv, InFlight
<1>4. TypeOK' /\ StoredWellVoted'
  BY <1>1, <1>2 DEF IInv, TypeOK, StoredWellVoted
<1>5. QED
  BY <1>2, <1>3, <1>4 DEF IInv

(* Reading for the UTXOs: the accepted proposals read are kept as read.      *)
LEMMA ReadStep ==
  ASSUME IInv, NEW r \in Request, GetUtxos(r) \/ FetchPendingTxs(r)
  PROVE  IInv'
<1>1. req[r] \in RequestState /\ HandlerSound(req[r], chain)
  BY Facts
<1>2. PICK pc \in {"getPendingTxs", "checkTxs"}, utxos \in SUBSET Utxo,
          todo \in [ProposalId -> Document] :
        /\ req' = [req EXCEPT ![r] = [req[r] EXCEPT !.pc = pc, !.utxos = utxos,
                                                   !.todo = todo]]
        /\ \A id \in ProposalId : todo[id] # NoTx =>
             WellVoted(todo[id]) /\ todo[id].status = "accepted"
  <2>1. CASE GetUtxos(r)
    <3>1. PICK utxos \in SUBSET Utxo :
            req' = [req EXCEPT ![r].pc = "getPendingTxs", ![r].utxos = utxos]
      BY <2>1 DEF GetUtxos
    <3>2. req' = [req EXCEPT ![r] = [req[r] EXCEPT !.pc = "getPendingTxs",
                               !.utxos = utxos, !.todo = req[r].todo]]
      BY <1>1, <3>1 DEF RequestState
    <3>3. QED
      BY <1>1, <3>2 DEF HandlerSound, RequestState
  <2>2. CASE FetchPendingTxs(r)
    <3> DEFINE todo == [id \in ProposalId |->
                          IF txs[id] \in Stored("accepted") THEN txs[id] ELSE NoTx]
    <3>1. todo \in [ProposalId -> Document]
      BY DEF IInv, TypeOK, Document
    <3>2. \A id \in ProposalId : todo[id] # NoTx =>
            WellVoted(todo[id]) /\ todo[id].status = "accepted"
      BY Facts DEF Stored
    <3>3. req[r].utxos \ InputsOf(Stored("pending")) \in SUBSET Utxo
      BY <1>1 DEF RequestState
    <3>4. req' = [req EXCEPT ![r] = [req[r] EXCEPT !.pc = "checkTxs",
                   !.utxos = req[r].utxos \ InputsOf(Stored("pending")),
                   !.todo = todo]]
      BY <1>1, <2>2 DEF FetchPendingTxs, RequestState
    <3> HIDE DEF todo
    <3>5. QED
      BY <3>1, <3>2, <3>3, <3>4
  <2>3. QED
    BY <2>1, <2>2, Zenon
<1> DEFINE h == [req[r] EXCEPT !.pc = pc, !.utxos = utxos, !.todo = todo]
<1>3. /\ h \in RequestState
      /\ h.pc = pc /\ h.op = req[r].op /\ h.id = req[r].id
      /\ h.txp = req[r].txp /\ h.todo = todo
      /\ req[r].pc \in {"getUtxos", "getPendingTxs"}
      /\ UNCHANGED <<txs, lock, chain>>
  BY <1>1 DEF RequestState, PC, GetUtxos, FetchPendingTxs
<1>4. HandlerSound(h, chain)
  BY <1>1, <1>2, <1>3 DEF HandlerSound
<1>5. QED
  BY <1>2, <1>3, <1>4, HandlerStep

(* The lookups of the accepted proposals that were read.                     *)
LEMMA LookupStep ==
  ASSUME IInv, NEW r \in Request, NEW id \in ProposalId,
         MarkBroadcasted(r, id) \/ NotOnNetwork(r, id)
  PROVE  IInv'
<1> DEFINE txp == req[r].todo[id]
           marked == SetStatus(txp, "broadcasted")
<1>1. /\ req[r] \in RequestState /\ HandlerSound(req[r], chain)
      /\ req[r].pc = "checkTxs" /\ txp # NoTx
  BY Facts DEF MarkBroadcasted, NotOnNetwork
<1>2. txp \in Proposal /\ WellVoted(txp) /\ txp.status = "accepted"
  BY <1>1 DEF HandlerSound, RequestState, Document
<1>3. PICK utxos \in SUBSET Utxo :
        req' = [req EXCEPT ![r] = [req[r] EXCEPT !.utxos = utxos, !.todo[id] = NoTx]]
  <2>1. CASE MarkBroadcasted(r, id)
    <3>1. req' = [req EXCEPT ![r] = [req[r] EXCEPT !.utxos = req[r].utxos,
                                                 !.todo[id] = NoTx]]
      BY <1>1, <2>1 DEF MarkBroadcasted, RequestState
    <3>2. QED
      BY <1>1, <3>1 DEF RequestState
  <2>2. CASE NotOnNetwork(r, id)
    <3>1. req' = [req EXCEPT ![r] = [req[r] EXCEPT !.utxos = req[r].utxos \ txp.inputs,
                                                 !.todo[id] = NoTx]]
      BY <1>1, <2>2 DEF NotOnNetwork, RequestState
    <3>2. QED
      BY <1>1, <3>1 DEF RequestState
  <2>3. QED
    BY <2>1, <2>2
<1> DEFINE h == [req[r] EXCEPT !.utxos = utxos, !.todo[id] = NoTx]
<1>4. /\ h \in RequestState
      /\ h.pc = "checkTxs" /\ h.op = req[r].op /\ h.id = req[r].id
      /\ h.txp = req[r].txp /\ h.todo = [req[r].todo EXCEPT ![id] = NoTx]
  BY <1>1 DEF RequestState, Document
<1>5. HandlerSound(h, chain)
  BY <1>1, <1>4 DEF HandlerSound, RequestState
<1>6. CASE MarkBroadcasted(r, id)
  <2>1. /\ marked \in Document
        /\ WellVoted(marked)
        /\ Txid(id, marked) \in chain
    BY <1>2, <1>6, SetStatusType, BroadcastKeepsVotes
       DEF MarkBroadcasted, Document, Status
  <2>2. txs' = [txs EXCEPT ![id] = marked] /\ UNCHANGED <<lock, chain>>
    BY <1>6 DEF MarkBroadcasted
  <2> HIDE DEF marked, h
  <2>3. QED
    BY <1>3, <1>4, <1>5, <2>1, <2>2, StoreStep DEF h
<1>7. CASE NotOnNetwork(r, id)
  <2>1. UNCHANGED <<txs, lock, chain>>
    BY <1>7 DEF NotOnNetwork
  <2>2. QED
    BY <1>3, <1>4, <1>5, <2>1, HandlerStep
<1>8. QED
  BY <1>6, <1>7

(* A lookup that errs leaves the other copies as they were.                  *)
LEMMA LookupFailsStep ==
  ASSUME IInv, NEW r \in Request, NEW id \in ProposalId, LookupFails(r, id)
  PROVE  IInv'
<1> DEFINE started == Start("getPendingTxs", "checkTxs", NoId, NoTx)
           h == [started EXCEPT !.todo = [req[r].todo EXCEPT ![id] = NoTx]]
<1>1. /\ req[r] \in RequestState /\ HandlerSound(req[r], chain)
  BY Facts
<1>2. started \in RequestState /\ started.pc = "checkTxs"
      /\ started.op = "getPendingTxs" /\ started.txp = NoTx
  BY StartType DEF PC, Document
<1>3. /\ h \in RequestState
      /\ h.pc = "checkTxs" /\ h.op = "getPendingTxs" /\ h.txp = NoTx
      /\ h.todo = [req[r].todo EXCEPT ![id] = NoTx]
  BY <1>1, <1>2 DEF RequestState, Document
<1>4. HandlerSound(h, chain)
  BY <1>1, <1>3 DEF HandlerSound, RequestState
<1>5. /\ req' = [req EXCEPT ![r] = h]
      /\ Release(r)
      /\ UNCHANGED <<txs, chain>>
  BY DEF LookupFails
<1> HIDE DEF h
<1>6. QED
  BY <1>3, <1>4, <1>5, HandlerStep

(* createTx and publishTx after their UTXOs are known.                       *)
LEMMA PublishStep ==
  ASSUME IInv, NEW r \in Request, SelectInputs(r) \/ CheckInputs(r)
  PROVE  IInv'
<1>1. /\ req[r] \in RequestState /\ HandlerSound(req[r], chain)
      /\ req[r].op \in {"createTx", "publishTx"} /\ req[r].pc = "checkTxs"
      /\ UNCHANGED <<txs, chain>>
  BY Facts DEF SelectInputs, CheckInputs, UtxosKnown
<1>2. /\ req[r].id \in ProposalId /\ req[r].txp \in Proposal
      /\ WellVoted(req[r].txp) /\ req[r].txp.status = "temporary"
  BY <1>1 DEF HandlerSound, RequestState, Document
<1>3. CASE Return(r)
  BY <1>1, <1>3, ReturnStep
<1>4. ASSUME NEW op \in {"createTx", "publishTx"}, NEW txp \in Proposal,
             WellVoted(txp), txp.status # "broadcasted",
             req' = [req EXCEPT ![r] = Start(op, "storeTx", req[r].id, txp)],
             UNCHANGED lock
      PROVE  IInv'
  <2> DEFINE h == Start(op, "storeTx", req[r].id, txp)
  <2>1. /\ h \in RequestState /\ h.pc = "storeTx" /\ h.op = op
        /\ h.id = req[r].id /\ h.txp = txp /\ h.todo = Nothing
    BY <1>2, StartType DEF PC, Document
  <2>2. HandlerSound(h, chain)
    BY <1>2, <1>4, <2>1, TxServiceAssumption DEF HandlerSound, Nothing
  <2>3. QED
    BY <1>1, <1>4, <2>1, <2>2, HandlerStep
<1>5. CASE SelectInputs(r)
  <2>1. PICK inputs \in SUBSET Utxo :
          req' = [req EXCEPT ![r] = Start("createTx", "storeTx", req[r].id,
                                          [req[r].txp EXCEPT !.inputs = inputs])]
    <3>1. Available(r) \subseteq Utxo
      BY <1>1 DEF Available, RequestState
    <3>2. QED
      BY <1>5, <3>1 DEF SelectInputs
  <2>2. LET after == [req[r].txp EXCEPT !.inputs = inputs] IN
        after \in Proposal /\ after.status = "temporary" /\ WellVoted(after)
    BY <1>2, InputsKeepVotes
  <2>3. UNCHANGED lock
    BY <1>5 DEF SelectInputs
  <2>4. QED
    BY <1>4, <2>1, <2>2, <2>3
<1>6. CASE CheckInputs(r)
  <2>1. /\ SetStatus(req[r].txp, "pending") \in Proposal
        /\ SetStatus(req[r].txp, "pending").status = "pending"
        /\ WellVoted(SetStatus(req[r].txp, "pending"))
    BY <1>2, SetStatusType, NoVotes DEF Status
  <2>2. QED
    BY <1>3, <1>4, <1>6, <2>1 DEF CheckInputs
<1>7. QED
  BY <1>5, <1>6

-----------------------------------------------------------------------------
(* The theorems.                                                            *)

\* Every step preserves the invariant.
LEMMA NextIInv == IInv /\ [Next]_vars => IInv'
<1> SUFFICES ASSUME IInv, [Next]_vars PROVE IInv'
  OBVIOUS
<1>1. CASE UNCHANGED vars
  BY <1>1 DEF vars, IInv, TypeOK, StoredWellVoted, InFlight,
              BroadcastedIsOnNetwork, NetworkHasQuorum
<1>2. CASE LockExpires
  BY <1>2 DEF LockExpires, IInv, TypeOK, StoredWellVoted, InFlight,
              BroadcastedIsOnNetwork, NetworkHasQuorum
<1>3. ASSUME NEW r \in Request, Call(r) PROVE IInv'
  BY <1>3, CallStep, VoteStep DEF Call
<1>4. ASSUME NEW r \in Request, Handler(r) PROVE IInv'
  <2>1. CASE ReturnPendingTxs(r) \/ Fail(r)
    BY <2>1, ReturnStep DEF ReturnPendingTxs, Fail
  <2>2. CASE StoreTx(r) \/ RemoveTx(r)
    BY <2>2, StoreTxStep, RemoveTxStep
  <2>3. QED
    BY <1>4, <2>1, <2>2, BroadcastStep, ReadStep, LookupStep,
       LookupFailsStep, PublishStep DEF Handler
<1>5. ASSUME NEW id \in ProposalId, ThirdPartyBroadcast(id) PROVE IInv'
  BY <1>5, ThirdPartyStep
<1>6. QED
  BY <1>1, <1>2, <1>3, <1>4, <1>5 DEF Next

(* Every reachable state of every wallet satisfies the invariant.           *)
THEOREM Invariance == Spec => []IInv
<1>1. QED
  BY InitIInv, NextIInv, PTL DEF Spec

(* The type of the state, whatever the requests do.                         *)
THEOREM TypeCorrect == Spec => []TypeOK
<1>1. IInv => TypeOK
  BY DEF IInv
<1>2. QED
  BY <1>1, Invariance, PTL

(* No stored proposal ever shows a status its votes do not justify, although *)
(* signTx, rejectTx and broadcastTx check one copy and overwrite another.   *)
THEOREM VotesJustifyStatus == Spec => []StoredWellVoted
<1>1. IInv => StoredWellVoted
  BY DEF IInv
<1>2. QED
  BY <1>1, Invariance, PTL

(* The copies of handlers under way stay fit to be stored.                  *)
THEOREM CopiesFit == Spec => []InFlight
<1>1. IInv => InFlight
  BY DEF IInv
<1>2. QED
  BY <1>1, Invariance, PTL

(* A proposal stored as broadcasted was broadcast, with the signatures the  *)
(* document shows.                                                          *)
THEOREM BroadcastedWasSent == Spec => []BroadcastedIsOnNetwork
<1>1. IInv => BroadcastedIsOnNetwork
  BY DEF IInv
<1>2. QED
  BY <1>1, Invariance, PTL

(* The network never sees a transaction short of signatures.                *)
THEOREM SignedByQuorum == Spec => []NetworkHasQuorum
<1>1. IInv => NetworkHasQuorum
  BY DEF IInv
<1>2. QED
  BY <1>1, Invariance, PTL

(* No vote ends in a tie: with everybody's vote a proposal is not pending.  *)
THEOREM NoTie == Spec => []AllVotesDecide
<1>1. IInv => AllVotesDecide
  BY Facts, EveryVoteCastDecides DEF AllVotesDecide
<1>2. QED
  BY <1>1, Invariance, PTL

-----------------------------------------------------------------------------
(* The specification when nobody keeps the lock for 5 minutes and no vote   *)
(* or removal is under way together with another handler that will store    *)
(* the same proposal (PoliteSpec): two proposals never lock the same        *)
(* output, recorded votes stay and the status only goes forward.            *)
(*                                                                          *)
(* The argument rests on how the copy a handler carries is related to the   *)
(* stored document (CopyFits), which says of every write of a document what *)
(* it changes (Writes); from that everything else follows.                  *)

LockedOps == {"createTx", "publishTx", "removePendingTx"}

\* Which handler waits where.
WaitsAt(h) ==
  /\ h.pc = "idle" => h.op = "none"
  /\ h.pc = "storeTx" =>
       h.op \in {"createTx", "publishTx", "signTx", "rejectTx", "broadcastTx"}
  /\ h.pc \in {"getUtxos", "getPendingTxs", "checkTxs"} =>
       h.op \in {"createTx", "publishTx", "getPendingTxs"}
  /\ h.pc \in {"broadcast", "checkTx"} => h.op = "broadcastTx"
  /\ h.pc = "removeTx" => h.op = "removePendingTx"
  /\ h.op \in {"signTx", "rejectTx"} => h.pc = "storeTx"
  /\ h.op \notin {"none", "getPendingTxs"} => h.id \in ProposalId

\* Of the same votes and inputs, but for the mark that it was broadcast.
Settles(copy, doc) ==
  /\ doc # NoTx
  /\ doc.status \in {"accepted", "broadcasted"}
  /\ SetStatus(copy, "broadcasted") = SetStatus(doc, "broadcasted")

\* What a handler will store is a change of what is stored.
CopyFits(h, docs) ==
  /\ h.op = "createTx" => /\ docs[h.id] = NoTx
                          /\ h.txp.status = "temporary"
  /\ h.op = "publishTx" =>
       /\ docs[h.id] # NoTx
       /\ docs[h.id].status = "temporary"
       /\ h.txp = IF h.pc = "storeTx" THEN SetStatus(docs[h.id], "pending")
                                      ELSE docs[h.id]
  /\ h.op \in {"signTx", "rejectTx"} =>
       /\ docs[h.id] # NoTx
       /\ docs[h.id].status = "pending"
       /\ \E p \in Pocketeer, type \in {"accept", "reject"} :
            h.txp = AddAction(docs[h.id], p, type)
  /\ h.op = "broadcastTx" =>
       /\ Settles(h.txp, docs[h.id])
       /\ h.pc = "storeTx" => h.txp.status = "broadcasted"
  /\ \A id \in ProposalId : h.todo[id] # NoTx => Settles(h.todo[id], docs[id])

\* Its inputs are locked: it waits for votes or for its broadcast.
Locks(txp) == txp # NoTx /\ IsPending(txp)

\* What publishTx found available stays so: nothing that locks inputs holds
\* any of them, but for the proposals still to be looked up.
InputsReserved(h, docs) ==
  h.op = "publishTx" =>
    /\ h.pc = "checkTxs" =>
         \A id \in ProposalId :
           Locks(docs[id]) => \/ h.todo[id] # NoTx
                              \/ h.utxos \cap docs[id].inputs = {}
    /\ h.pc = "storeTx" =>
         \A id \in ProposalId :
           Locks(docs[id]) => h.txp.inputs \cap docs[id].inputs = {}

Fits(h, docs) == WaitsAt(h) /\ CopyFits(h, docs) /\ InputsReserved(h, docs)

AllFit == \A r \in Request : Fits(req[r], txs)

LockKept == \A r \in Request : req[r].op \in LockedOps => lock = r

PInv == IInv /\ VotesAlone /\ AllFit /\ LockKept /\ InputsLocked

-----------------------------------------------------------------------------
(* The documents.                                                           *)

\* What handler h may make of the document of a proposal.
Writes(h, id, before, after) ==
  \/ after = before
  \/ h.op = "createTx" /\ h.id = id /\ before = NoTx /\ after.status = "temporary"
  \/ /\ h.op = "publishTx" /\ h.pc = "storeTx" /\ h.id = id
     /\ before # NoTx /\ before.status = "temporary"
     /\ after = SetStatus(before, "pending")
  \/ /\ h.op \in {"signTx", "rejectTx"} /\ h.id = id
     /\ before # NoTx /\ before.status = "pending"
     /\ \E p \in Pocketeer, type \in {"accept", "reject"} :
          after = AddAction(before, p, type)
  \/ /\ (h.op = "broadcastTx" /\ h.id = id) \/ h.todo[id] # NoTx
     /\ before # NoTx /\ before.status \in {"accepted", "broadcasted"}
     /\ after = SetStatus(before, "broadcasted")
  \/ h.op = "removePendingTx" /\ h.id = id /\ after = NoTx

WritesOnly(r) ==
  \A id \in ProposalId : Writes(req[r], id, txs[id], txs'[id])

\* SetStatus changes the status only.
LEMMA SetStatusIs ==
  ASSUME NEW txp \in Proposal, NEW status \in Status
  PROVE  LET after == SetStatus(txp, status) IN
         /\ after \in Proposal /\ after # NoTx
         /\ after.status = status
         /\ after.inputs = txp.inputs /\ after.actions = txp.actions
BY TxServiceAssumption DEF SetStatus, Proposal

\* addAction on a pending proposal: one vote more, and a status it decides.
LEMMA AddActionIs ==
  ASSUME NEW txp \in Proposal, txp.status = "pending",
         NEW p \in Pocketeer, NEW type \in {"accept", "reject"}
  PROVE  LET after == AddAction(txp, p, type) IN
         /\ after \in Proposal /\ after # NoTx
         /\ after.status \in {"pending", "accepted", "rejected"}
         /\ after.inputs = txp.inputs
         /\ after.actions = Append(txp.actions, [pocketeerId |-> p, type |-> type])
<1> DEFINE voted == [txp EXCEPT !.actions = Append(@, [pocketeerId |-> p, type |-> type])]
           after == AddAction(txp, p, type)
<1>1. /\ voted \in Proposal /\ voted.status = "pending"
      /\ voted.inputs = txp.inputs
      /\ voted.actions = Append(txp.actions, [pocketeerId |-> p, type |-> type])
  <2>1. [pocketeerId |-> p, type |-> type] \in Action
    BY DEF Action
  <2>2. txp.actions \in Seq(Action)
    BY DEF Proposal
  <2>3. Append(txp.actions, [pocketeerId |-> p, type |-> type]) \in Seq(Action)
    BY <2>1, <2>2
  <2> QED
    BY <2>3 DEF Proposal
<1>2. after = [voted EXCEPT !.status = StatusAfterVote(voted)]
  BY DEF AddAction
<1>3. StatusAfterVote(voted) \in {"pending", "accepted", "rejected"}
  <2> HIDE DEF voted
  <2> QED
    BY <1>1 DEF StatusAfterVote
<1> HIDE DEF voted, after
<1>4. after \in Proposal /\ after.status = StatusAfterVote(voted)
      /\ after.inputs = voted.inputs /\ after.actions = voted.actions
  BY <1>1, <1>2, <1>3 DEF Proposal, Status
<1> QED
  BY <1>1, <1>3, <1>4, TxServiceAssumption DEF after

\* Handlers of which only the lock's holder may be under way.
LEMMA OneLocked ==
  ASSUME PInv, NEW r \in Request, NEW q \in Request, r # q,
         req[q].op \in LockedOps
  PROVE  req[r].op \notin LockedOps
BY DEF PInv, LockKept

\* What the invariant says of one handler and one document.
LEMMA Known ==
  ASSUME PInv
  PROVE  /\ IInv
         /\ \A r \in Request : /\ req[r] \in RequestState
                               /\ Fits(req[r], txs)
                               /\ HandlerSound(req[r], chain)
         /\ \A id \in ProposalId : txs[id] # NoTx =>
              txs[id] \in Proposal /\ WellVoted(txs[id])
         /\ txs \in [ProposalId -> Document]
         /\ req \in [Request -> RequestState]
BY Facts DEF PInv, AllFit, IInv, TypeOK

\* A document that locks inputs after a write locked the same ones before,
\* unless the write publishes it.
LEMMA LocksBefore ==
  ASSUME PInv, NEW r \in Request, WritesOnly(r), NEW id \in ProposalId,
         Locks(txs'[id])
  PROVE  \/ Locks(txs[id]) /\ txs'[id].inputs = txs[id].inputs
         \/ /\ req[r].op = "publishTx" /\ req[r].pc = "storeTx" /\ req[r].id = id
            /\ txs'[id].inputs = req[r].txp.inputs
<1> DEFINE before == txs[id]
           after == txs'[id]
<1>1. before # NoTx => before \in Proposal
  BY Known
<1>2. Writes(req[r], id, before, after)
  BY DEF WritesOnly
<1>3. after # NoTx /\ after.status \notin {"temporary", "broadcasted", "rejected"}
  BY DEF Locks, IsPending
<1>4. Fits(req[r], txs)
  BY Known
<1>5. CASE /\ req[r].op = "publishTx" /\ req[r].pc = "storeTx" /\ req[r].id = id
           /\ after = SetStatus(before, "pending")
  <2>1. req[r].txp = after
    BY <1>4, <1>5 DEF Fits, CopyFits
  <2> QED
    BY <1>5, <2>1
<1>6. CASE /\ before # NoTx /\ before.status = "pending"
           /\ \E p \in Pocketeer, type \in {"accept", "reject"} :
                after = AddAction(before, p, type)
  <2>1. PICK p \in Pocketeer, type \in {"accept", "reject"} :
          after = AddAction(before, p, type)
    BY <1>6
  <2>2. AddAction(before, p, type).inputs = before.inputs
    BY <1>1, <1>6, AddActionIs
  <2> QED
    BY <1>6, <2>1, <2>2 DEF Locks, IsPending
<1>7. CASE /\ before # NoTx /\ after = SetStatus(before, "broadcasted")
  <2>1. after.status = "broadcasted"
    BY <1>1, <1>7, SetStatusIs DEF Status
  <2> QED
    BY <1>3, <2>1
<1>8. CASE after = before
  BY <1>8
<1> HIDE DEF before, after
<1> QED
  BY <1>2, <1>3, <1>5, <1>6, <1>7, <1>8 DEF Writes

\* While a handler is under way, what others write leaves its copy fit.
LEMMA OthersKeepFit ==
  ASSUME PInv, NEW r \in Request, WritesOnly(r),
         NEW q \in Request, r # q
  PROVE  Fits(req[q], txs')
<1> DEFINE h == req[q]
           before == txs[h.id]
           after == txs'[h.id]
<1>1. h \in RequestState /\ WaitsAt(h) /\ CopyFits(h, txs) /\ InputsReserved(h, txs)
  BY Known DEF Fits
<1>2. h.op \notin {"none", "getPendingTxs"} =>
        /\ h.id \in ProposalId
        /\ Writes(req[r], h.id, before, after)
        /\ before # NoTx => before \in Proposal
  BY <1>1, Known DEF WaitsAt, WritesOnly
<1>3. h.op \in LockedOps => req[r].op \notin LockedOps
  BY OneLocked
<1>4. /\ req[r].op \in {"signTx", "rejectTx", "removePendingTx"} => ~Rewrites(q, req[r].id)
      /\ h.op \in {"signTx", "rejectTx", "removePendingTx"} => ~Rewrites(r, h.id)
  BY DEF PInv, VotesAlone
<1> HIDE DEF before, after
<1>5. h.op = "createTx" => after = NoTx /\ h.txp.status = "temporary"
  <2> SUFFICES ASSUME h.op = "createTx" PROVE after = NoTx
    BY <1>1 DEF CopyFits
  <2>1. before = NoTx
    BY <1>1 DEF CopyFits, before
  <2> QED
    BY <1>2, <1>3, <2>1 DEF Writes, LockedOps
<1>6. h.op = "publishTx" => after = before
  <2> SUFFICES ASSUME h.op = "publishTx" PROVE after = before
    OBVIOUS
  <2>1. before # NoTx /\ before.status = "temporary"
    BY <1>1 DEF CopyFits, before
  <2> QED
    BY <1>2, <1>3, <2>1 DEF Writes, LockedOps
<1>7. h.op \in {"signTx", "rejectTx"} => after = before
  <2> SUFFICES ASSUME h.op \in {"signTx", "rejectTx"} PROVE after = before
    OBVIOUS
  <2>1. before # NoTx /\ before.status = "pending"
    BY <1>1 DEF CopyFits, before
  <2>2. ~(req[r].op \in {"signTx", "rejectTx", "removePendingTx"} /\ req[r].id = h.id)
    BY <1>4 DEF Rewrites
  <2> QED
    BY <1>2, <2>1, <2>2 DEF Writes
<1>8. ASSUME NEW id \in ProposalId, Rewrites(q, id),
             NEW copy, Settles(copy, txs[id])
      PROVE  Settles(copy, txs'[id])
  <2>1. /\ txs[id] # NoTx /\ txs[id] \in Proposal
        /\ txs[id].status \in {"accepted", "broadcasted"}
        /\ SetStatus(copy, "broadcasted") = SetStatus(txs[id], "broadcasted")
    BY <1>8, Known DEF Settles
  <2>2. ~(req[r].op \in {"signTx", "rejectTx", "removePendingTx"} /\ req[r].id = id)
    BY <1>4, <1>8
  <2>3. Writes(req[r], id, txs[id], txs'[id])
    BY DEF WritesOnly
  <2>4. \/ txs'[id] = txs[id]
        \/ txs'[id] = SetStatus(txs[id], "broadcasted")
    BY <2>1, <2>2, <2>3 DEF Writes
  <2>5. CASE txs'[id] = SetStatus(txs[id], "broadcasted")
    <3>1. txs'[id] # NoTx /\ txs'[id].status = "broadcasted"
      BY <2>1, <2>5, SetStatusIs DEF Status
    <3>2. SetStatus(txs'[id], "broadcasted") = SetStatus(txs[id], "broadcasted")
      BY <2>1, <2>5 DEF SetStatus, Proposal
    <3> QED
      BY <2>1, <3>1, <3>2 DEF Settles
  <2> QED
    BY <1>8, <2>4, <2>5
<1>9. h.op = "broadcastTx" =>
        /\ Settles(h.txp, after)
        /\ h.pc = "storeTx" => h.txp.status = "broadcasted"
  <2> SUFFICES ASSUME h.op = "broadcastTx"
               PROVE  Settles(h.txp, after) /\ (h.pc = "storeTx" => h.txp.status = "broadcasted")
    OBVIOUS
  <2>1. Settles(h.txp, txs[h.id]) /\ (h.pc = "storeTx" => h.txp.status = "broadcasted")
    BY <1>1 DEF CopyFits
  <2>2. Rewrites(q, h.id)
    BY DEF Rewrites
  <2> QED
    BY <1>2, <1>8, <2>1, <2>2 DEF after
<1>10. \A id \in ProposalId : h.todo[id] # NoTx => Settles(h.todo[id], txs'[id])
  BY <1>1, <1>8 DEF CopyFits, Rewrites
<1>11. CopyFits(h, txs')
  <2>1. h.op = "publishTx" =>
          /\ after # NoTx /\ after.status = "temporary"
          /\ h.txp = IF h.pc = "storeTx" THEN SetStatus(after, "pending") ELSE after
    BY <1>1, <1>6 DEF CopyFits, before
  <2>2. h.op \in {"signTx", "rejectTx"} =>
          /\ after # NoTx /\ after.status = "pending"
          /\ \E p \in Pocketeer, type \in {"accept", "reject"} :
               h.txp = AddAction(after, p, type)
    BY <1>1, <1>7 DEF CopyFits, before
  <2> HIDE DEF h
  <2> QED
    BY <1>5, <1>9, <1>10, <2>1, <2>2 DEF CopyFits, after
<1>12. InputsReserved(h, txs')
  <2> SUFFICES ASSUME h.op = "publishTx" PROVE InputsReserved(h, txs')
    BY DEF InputsReserved
  <2>1. \A id \in ProposalId : Locks(txs'[id]) =>
          Locks(txs[id]) /\ txs'[id].inputs = txs[id].inputs
    BY <1>3, LocksBefore DEF LockedOps
  <2> HIDE DEF h
  <2> QED
    BY <1>1, <2>1 DEF InputsReserved
<1> QED
  BY <1>1, <1>11, <1>12 DEF Fits

\* No write makes two proposals lock one output.
LEMMA InputsStayLocked ==
  ASSUME PInv, NEW r \in Request, WritesOnly(r)
  PROVE  InputsLocked'
<1>1. \A i, j \in ProposalId : i # j /\ Locks(txs[i]) /\ Locks(txs[j])
        => txs[i].inputs \cap txs[j].inputs = {}
  BY DEF PInv, InputsLocked, Locks
<1>2. req[r].op = "publishTx" /\ req[r].pc = "storeTx" =>
        \A id \in ProposalId :
          Locks(txs[id]) => req[r].txp.inputs \cap txs[id].inputs = {}
  BY Known DEF Fits, InputsReserved
<1>3. \A id \in ProposalId : Locks(txs'[id]) =>
        \/ Locks(txs[id]) /\ txs'[id].inputs = txs[id].inputs
        \/ /\ req[r].op = "publishTx" /\ req[r].pc = "storeTx" /\ req[r].id = id
           /\ txs'[id].inputs = req[r].txp.inputs
  BY LocksBefore
<1>4. \A i, j \in ProposalId : i # j /\ Locks(txs'[i]) /\ Locks(txs'[j])
        => txs'[i].inputs \cap txs'[j].inputs = {}
  BY <1>1, <1>2, <1>3
<1> QED
  BY <1>4 DEF InputsLocked, Locks

\* A handler moves to a state in which its copy fits, writes only what it may
\* and takes the lock from nobody: the invariant stays.
LEMMA HandlerMoves ==
  ASSUME PInv, IInv', VotesAlone', NEW r \in Request, NEW h,
         req' = [req EXCEPT ![r] = h],
         WritesOnly(r),
         Fits(h, txs'),
         h.op \in LockedOps => lock' = r,
         lock \in Request \ {r} => lock' = lock
  PROVE  PInv'
<1>1. \A q \in Request : req'[q] = IF q = r THEN h ELSE req[q]
  BY Known
<1>2. AllFit'
  BY <1>1, OthersKeepFit DEF AllFit
<1>3. LockKept'
  BY <1>1 DEF LockKept, PInv
<1> QED
  BY <1>2, <1>3, InputsStayLocked DEF PInv

-----------------------------------------------------------------------------
(* The handlers.                                                            *)

\* Reading writes nothing.
LEMMA NothingWritten ==
  ASSUME txs' = txs, NEW r
  PROVE  WritesOnly(r)
BY DEF WritesOnly, Writes

\* An idle request has no copy.
LEMMA IdleFits ==
  /\ Idle.op \notin LockedOps
  /\ \A docs : Fits(Idle, docs)
BY DEF Idle, LockedOps, Fits, WaitsAt, CopyFits, InputsReserved, Nothing

\* A handler that answers releases the lock if it has it.
LEMMA ReturnMoves ==
  ASSUME PInv, IInv', VotesAlone', NEW r \in Request, Return(r), WritesOnly(r)
  PROVE  PInv'
BY IdleFits, HandlerMoves DEF Return, Release

\* What starting a handler says of its state (the copy may be any document).
LEMMA Started ==
  ASSUME NEW op, NEW pc, NEW id, NEW txp
  PROVE  LET h == Start(op, pc, id, txp) IN
         h.op = op /\ h.pc = pc /\ h.id = id /\ h.txp = txp /\ h.todo = Nothing
BY DEF Start, Idle

\* The lookups of nothing fit.
LEMMA NothingFits ==
  ASSUME NEW id \in ProposalId
  PROVE  Nothing[id] = NoTx
BY DEF Nothing

\* storage.storeTx writes the copy, as the change it is.
LEMMA StoreTxWrites ==
  ASSUME PInv, NEW r \in Request, StoreTx(r)
  PROVE  WritesOnly(r)
<1> DEFINE h == req[r]
           id == h.id
<1>1. /\ h.pc = "storeTx"
      /\ txs' = [txs EXCEPT ![id] = h.txp]
      /\ Return(r)
  BY DEF StoreTx
<1>2. /\ WaitsAt(h) /\ CopyFits(h, txs)
      /\ h.txp # NoTx /\ id \in ProposalId
      /\ h \in RequestState
  BY <1>1, Known DEF Fits, HandlerSound
<1>3. h.txp \in Proposal
  BY <1>2 DEF RequestState, Document
<1>4. txs \in [ProposalId -> Document]
  BY Known
<1>5. txs'[id] = h.txp /\ \A j \in ProposalId \ {id} : txs'[j] = txs[j]
  BY <1>1, <1>2, <1>4
<1> HIDE DEF h, id
<1>6. h.op = "broadcastTx" => h.txp = SetStatus(txs[id], "broadcasted")
  <2> SUFFICES ASSUME h.op = "broadcastTx"
               PROVE  h.txp = SetStatus(txs[id], "broadcasted")
    OBVIOUS
  <2>1. /\ SetStatus(h.txp, "broadcasted") = SetStatus(txs[id], "broadcasted")
        /\ h.txp.status = "broadcasted"
    BY <1>1, <1>2 DEF CopyFits, Settles, id
  <2>2. SetStatus(h.txp, "broadcasted") = h.txp
    BY <1>3, <2>1 DEF SetStatus, Proposal
  <2> QED
    BY <2>1, <2>2
<1>7. Writes(h, id, txs[id], txs'[id])
  <2>1. h.op \in {"createTx", "publishTx", "signTx", "rejectTx", "broadcastTx"}
    BY <1>1, <1>2 DEF WaitsAt
  <2>2. CASE h.op = "createTx"
    BY <1>2, <1>5, <2>2 DEF CopyFits, Writes, id
  <2>3. CASE h.op = "publishTx"
    BY <1>1, <1>2, <1>5, <2>3 DEF CopyFits, Writes, id
  <2>4. CASE h.op \in {"signTx", "rejectTx"}
    BY <1>2, <1>5, <2>4 DEF CopyFits, Writes, id
  <2>5. CASE h.op = "broadcastTx"
    BY <1>2, <1>5, <1>6, <2>5 DEF CopyFits, Settles, Writes, id
  <2> QED
    BY <2>1, <2>2, <2>3, <2>4, <2>5
<1> QED
  BY <1>5, <1>7 DEF WritesOnly, Writes, h

\* storage.removeTx.
LEMMA RemoveTxWrites ==
  ASSUME PInv, NEW r \in Request, RemoveTx(r)
  PROVE  WritesOnly(r)
<1>1. /\ req[r].pc = "removeTx"
      /\ txs' = [txs EXCEPT ![req[r].id] = NoTx]
      /\ Return(r)
  BY DEF RemoveTx
<1>2. req[r].op = "removePendingTx" /\ txs \in [ProposalId -> Document]
  BY <1>1, Known DEF Fits, WaitsAt
<1> QED
  BY <1>1, <1>2 DEF WritesOnly, Writes

\* _checkTxInBlockchain found an accepted proposal: what it stores is at most
\* the mark.
LEMMA MarkWrites ==
  ASSUME PInv, NEW r \in Request, NEW id \in ProposalId, MarkBroadcasted(r, id)
  PROVE  /\ WritesOnly(r)
         /\ txs'[id] = SetStatus(txs[id], "broadcasted")
         /\ \A j \in ProposalId \ {id} : txs'[j] = txs[j]
<1>1. /\ req[r].todo[id] # NoTx
      /\ txs' = [txs EXCEPT ![id] = SetStatus(req[r].todo[id], "broadcasted")]
  BY DEF MarkBroadcasted
<1>2. Settles(req[r].todo[id], txs[id]) /\ txs \in [ProposalId -> Document]
  BY <1>1, Known DEF Fits, CopyFits
<1>3. /\ txs'[id] = SetStatus(txs[id], "broadcasted")
      /\ \A j \in ProposalId \ {id} : txs'[j] = txs[j]
  BY <1>1, <1>2 DEF Settles
<1> QED
  BY <1>1, <1>2, <1>3 DEF WritesOnly, Writes, Settles

\* The handlers that start without the lock.
LEMMA UnlockedCallMoves ==
  ASSUME PInv, IInv', VotesAlone', NEW r \in Request,
         \/ GetPendingTxs(r)
         \/ \E id \in ProposalId : BroadcastTx(r, id)
         \/ \E id \in ProposalId, p \in Pocketeer : SignTx(r, p, id) \/ RejectTx(r, p, id)
  PROVE  PInv'
<1>1. txs' = txs /\ lock' = lock
  BY DEF GetPendingTxs, BroadcastTx, SignTx, RejectTx, Vote
<1>2. WritesOnly(r)
  BY <1>1, NothingWritten
<1>3. CASE GetPendingTxs(r)
  <2> DEFINE h == Start("getPendingTxs", "getPendingTxs", NoId, NoTx)
  <2>1. h.op = "getPendingTxs" /\ h.pc = "getPendingTxs" /\ h.todo = Nothing
    BY Started
  <2>2. req' = [req EXCEPT ![r] = h]
    BY <1>3 DEF GetPendingTxs
  <2> HIDE DEF h
  <2>3. Fits(h, txs')
    BY <2>1, NothingFits DEF Fits, WaitsAt, CopyFits, InputsReserved
  <2> QED
    BY <1>1, <1>2, <2>1, <2>2, <2>3, HandlerMoves DEF LockedOps
<1>4. ASSUME NEW id \in ProposalId, BroadcastTx(r, id) PROVE PInv'
  <2> DEFINE h == Start("broadcastTx", "broadcast", id, txs[id])
  <2>1. /\ h.op = "broadcastTx" /\ h.pc = "broadcast" /\ h.id = id
        /\ h.txp = txs[id] /\ h.todo = Nothing
    BY Started
  <2>2. /\ req' = [req EXCEPT ![r] = h]
        /\ txs[id] # NoTx /\ txs[id].status = "accepted"
    BY <1>4 DEF BroadcastTx
  <2> HIDE DEF h
  <2>3. Fits(h, txs')
    BY <1>1, <2>1, <2>2, NothingFits DEF Fits, WaitsAt, CopyFits, Settles, InputsReserved
  <2> QED
    BY <1>1, <1>2, <2>1, <2>2, <2>3, HandlerMoves DEF LockedOps
<1>5. ASSUME NEW id \in ProposalId, NEW p \in Pocketeer,
             SignTx(r, p, id) \/ RejectTx(r, p, id)
      PROVE  PInv'
  <2>1. PICK op \in {"signTx", "rejectTx"}, type \in {"accept", "reject"} :
          /\ Vote(r, op, p, id, type)
          /\ \/ IsPending(txs[id]) /\ TakesSignature(txs[id])
             \/ txs[id].status = "pending"
    BY <1>5 DEF SignTx, RejectTx
  <2>2. txs[id] # NoTx /\ txs[id] \in Proposal /\ WellVoted(txs[id])
    BY <2>1, Known DEF Vote
  <2>3. txs[id].status = "pending"
    <3>1. CASE IsPending(txs[id]) /\ TakesSignature(txs[id])
      <4>1. txs[id].status \in {"pending", "accepted"}
        BY <2>2, <3>1 DEF IsPending, Proposal, Status
      <4>2. txs[id].status = "accepted" =>
              Cardinality(Votes(txs[id], "accept")) = RequiredSignatures
        BY <2>2 DEF WellVoted, StatusMatchesVotes
      <4>3. RequiredSignatures \in Int
        BY TxProposalAssumption
      <4> QED
        BY <3>1, <4>1, <4>2, <4>3 DEF TakesSignature
    <3> QED
      BY <2>1, <3>1
  <2> DEFINE h == Start(op, "storeTx", id, AddAction(txs[id], p, type))
  <2>4. /\ h.op = op /\ h.pc = "storeTx" /\ h.id = id
        /\ h.txp = AddAction(txs[id], p, type) /\ h.todo = Nothing
    BY Started
  <2>5. req' = [req EXCEPT ![r] = h]
    BY <2>1 DEF Vote
  <2> HIDE DEF h
  <2>6. CopyFits(h, txs')
    BY <1>1, <2>2, <2>3, <2>4, NothingFits DEF CopyFits
  <2>7. Fits(h, txs')
    BY <2>4, <2>6 DEF Fits, WaitsAt, InputsReserved
  <2> QED
    BY <1>1, <1>2, <2>4, <2>5, <2>7, HandlerMoves DEF LockedOps
<1> QED
  BY <1>3, <1>4, <1>5

\* The handlers that start by taking the lock.
LEMMA LockedCallMoves ==
  ASSUME PInv, IInv', VotesAlone', NEW r \in Request, NEW id \in ProposalId,
         \/ PublishTx(r, id)
         \/ \E p \in Pocketeer : CreateTx(r, p, id) \/ RemovePendingTx(r, p, id)
  PROVE  PInv'
<1>1. txs' = txs /\ lock = NoRequest /\ lock' = r
  BY DEF PublishTx, CreateTx, RemovePendingTx, Acquire
<1>2. WritesOnly(r) /\ lock \notin Request
  BY <1>1, NothingWritten, TxServiceAssumption
<1>3. CASE PublishTx(r, id)
  <2> DEFINE h == Start("publishTx", "getUtxos", id, txs[id])
  <2>1. /\ h.op = "publishTx" /\ h.pc = "getUtxos" /\ h.id = id
        /\ h.txp = txs[id] /\ h.todo = Nothing
    BY Started
  <2>2. /\ req' = [req EXCEPT ![r] = h]
        /\ txs[id] # NoTx /\ txs[id].status = "temporary"
    BY <1>3 DEF PublishTx
  <2> HIDE DEF h
  <2>3. Fits(h, txs')
    BY <1>1, <2>1, <2>2, NothingFits DEF Fits, WaitsAt, CopyFits, InputsReserved
  <2> QED
    BY <1>1, <1>2, <2>2, <2>3, HandlerMoves
<1>4. ASSUME NEW p \in Pocketeer, CreateTx(r, p, id) PROVE PInv'
  <2>1. PICK pc \in {"storeTx", "getUtxos"}, inputs \in SUBSET Utxo :
          /\ req' = [req EXCEPT ![r] = Start("createTx", pc, id, Create(p, inputs))]
          /\ txs[id] = NoTx
    BY <1>4 DEF CreateTx
  <2> DEFINE h == Start("createTx", pc, id, Create(p, inputs))
  <2>2. /\ h.op = "createTx" /\ h.pc = pc /\ h.id = id
        /\ h.txp = Create(p, inputs) /\ h.todo = Nothing
    BY Started
  <2>3. h.txp.status = "temporary"
    BY <2>2 DEF Create
  <2>4. req' = [req EXCEPT ![r] = h]
    BY <2>1
  <2> HIDE DEF h
  <2>5. Fits(h, txs')
    BY <1>1, <2>1, <2>2, <2>3, NothingFits DEF Fits, WaitsAt, CopyFits, InputsReserved
  <2> QED
    BY <1>1, <1>2, <2>4, <2>5, HandlerMoves
<1>5. ASSUME NEW p \in Pocketeer, RemovePendingTx(r, p, id) PROVE PInv'
  <2> DEFINE h == Start("removePendingTx", "removeTx", id, NoTx)
  <2>1. /\ h.op = "removePendingTx" /\ h.pc = "removeTx" /\ h.id = id
        /\ h.todo = Nothing
    BY Started
  <2>2. req' = [req EXCEPT ![r] = h]
    BY <1>5 DEF RemovePendingTx
  <2> HIDE DEF h
  <2>3. Fits(h, txs')
    BY <2>1, NothingFits DEF Fits, WaitsAt, CopyFits, InputsReserved
  <2> QED
    BY <1>1, <1>2, <2>2, <2>3, HandlerMoves
<1> QED
  BY <1>3, <1>4, <1>5

\* The part of broadcastTx on the network, and the mark on the copy.
LEMMA BroadcastMoves ==
  ASSUME PInv, IInv', VotesAlone', NEW r \in Request,
         BroadcastSucceeds(r) \/ BroadcastErrs(r) \/ CheckTxFinds(r)
  PROVE  PInv'
<1>1. /\ txs' = txs /\ lock' = lock
      /\ req[r].pc \in {"broadcast", "checkTx"}
  BY DEF BroadcastSucceeds, BroadcastErrs, CheckTxFinds
<1>2. WritesOnly(r)
  BY <1>1, NothingWritten
<1>3. /\ req[r] \in RequestState /\ req \in [Request -> RequestState]
      /\ WaitsAt(req[r]) /\ CopyFits(req[r], txs) /\ HandlerSound(req[r], chain)
  BY Known DEF Fits
<1>4. req[r].op = "broadcastTx" /\ req[r].id \in ProposalId
  BY <1>1, <1>3 DEF WaitsAt
<1>5. req[r].txp \in Proposal
  BY <1>1, <1>3 DEF HandlerSound, RequestState, Document
<1>6. PICK pc \in {"storeTx", "checkTx"}, copy \in Proposal :
        /\ req' = [req EXCEPT ![r].pc = pc, ![r].txp = copy]
        /\ copy = IF pc = "storeTx" THEN SetStatus(req[r].txp, "broadcasted")
                                    ELSE req[r].txp
  <2>1. CASE BroadcastSucceeds(r) \/ CheckTxFinds(r)
    <3>1. req' = [req EXCEPT ![r].pc = "storeTx",
                             ![r].txp = SetStatus(req[r].txp, "broadcasted")]
      BY <1>3, <2>1 DEF BroadcastSucceeds, CheckTxFinds, Mark
    <3>2. SetStatus(req[r].txp, "broadcasted") \in Proposal
      BY <1>5, SetStatusIs DEF Status
    <3> QED
      BY <3>1, <3>2
  <2>2. CASE BroadcastErrs(r)
    <3>1. req' = [req EXCEPT ![r].pc = "checkTx"]
      BY <2>2 DEF BroadcastErrs
    <3>2. req' = [req EXCEPT ![r].pc = "checkTx", ![r].txp = req[r].txp]
      BY <1>3, <3>1 DEF RequestState
    <3> QED
      BY <1>5, <3>2
  <2> QED
    BY <2>1, <2>2
<1> DEFINE h == [req[r] EXCEPT !.pc = pc, !.txp = copy]
<1>7. /\ h.pc = pc /\ h.txp = copy /\ h.op = "broadcastTx"
      /\ h.id = req[r].id /\ h.todo = req[r].todo
  BY <1>3, <1>4 DEF RequestState
<1>8. req' = [req EXCEPT ![r] = h]
  BY <1>3, <1>6
<1> HIDE DEF h
<1>9. /\ SetStatus(copy, "broadcasted") = SetStatus(req[r].txp, "broadcasted")
      /\ pc = "storeTx" => copy.status = "broadcasted"
  BY <1>5, <1>6 DEF SetStatus, Proposal
<1>10. CopyFits(h, txs')
  BY <1>1, <1>3, <1>4, <1>7, <1>9 DEF CopyFits, Settles
<1>11. Fits(h, txs')
  BY <1>4, <1>7, <1>10 DEF Fits, WaitsAt, InputsReserved
<1> QED
  BY <1>1, <1>2, <1>7, <1>8, <1>11, HandlerMoves DEF LockedOps

\* A handler that only moves its own lookups on: _getUtxosForCurrentWallet.
LEMMA LookupMoves ==
  ASSUME PInv, IInv', VotesAlone', NEW r \in Request,
         req[r].pc \in {"getUtxos", "getPendingTxs", "checkTxs"},
         NEW pc \in {"getPendingTxs", "checkTxs"}, NEW utxos, NEW todo,
         req' = [req EXCEPT ![r].pc = pc, ![r].utxos = utxos, ![r].todo = todo],
         lock' = lock,
         WritesOnly(r),
         \A id \in ProposalId : todo[id] # NoTx => Settles(todo[id], txs'[id]),
         req[r].op \in {"createTx", "publishTx"} => txs'[req[r].id] = txs[req[r].id],
         pc = "checkTxs" /\ req[r].op = "publishTx" =>
           \A id \in ProposalId :
             Locks(txs'[id]) => \/ todo[id] # NoTx
                                \/ utxos \cap txs'[id].inputs = {}
  PROVE  PInv'
<1>1. /\ req[r] \in RequestState /\ req \in [Request -> RequestState]
      /\ WaitsAt(req[r]) /\ CopyFits(req[r], txs)
  BY Known DEF Fits
<1> DEFINE h == [req[r] EXCEPT !.pc = pc, !.utxos = utxos, !.todo = todo]
<1>2. /\ h.pc = pc /\ h.utxos = utxos /\ h.todo = todo
      /\ h.op = req[r].op /\ h.id = req[r].id /\ h.txp = req[r].txp
  BY <1>1 DEF RequestState
<1>3. req' = [req EXCEPT ![r] = h]
  BY <1>1
<1> HIDE DEF h
<1>4. req[r].op \in {"createTx", "publishTx", "getPendingTxs"}
  BY <1>1 DEF WaitsAt
<1>5. WaitsAt(h)
  BY <1>1, <1>2, <1>4 DEF WaitsAt
<1>6. CopyFits(h, txs')
  BY <1>1, <1>2, <1>4 DEF CopyFits
<1>7. InputsReserved(h, txs')
  BY <1>2 DEF InputsReserved
<1>8. h.op \in LockedOps => lock' = r
  BY <1>2 DEF PInv, LockKept
<1> QED
  BY <1>3, <1>5, <1>6, <1>7, <1>8, HandlerMoves DEF Fits

\* The UTXOs are listed, and what pending proposals lock is taken out.
LEMMA ReadMoves ==
  ASSUME PInv, IInv', VotesAlone', NEW r \in Request,
         GetUtxos(r) \/ FetchPendingTxs(r)
  PROVE  PInv'
<1>1. txs' = txs /\ lock' = lock
  BY DEF GetUtxos, FetchPendingTxs
<1>2. WritesOnly(r)
  BY <1>1, NothingWritten
<1>3. /\ req[r] \in RequestState /\ req \in [Request -> RequestState]
      /\ CopyFits(req[r], txs)
  BY Known DEF Fits
<1>4. CASE GetUtxos(r)
  <2>1. PICK utxos :
          /\ req[r].pc = "getUtxos"
          /\ req' = [req EXCEPT ![r].pc = "getPendingTxs", ![r].utxos = utxos]
    BY <1>4 DEF GetUtxos
  <2>2. req' = [req EXCEPT ![r].pc = "getPendingTxs", ![r].utxos = utxos,
                           ![r].todo = req[r].todo]
    BY <1>3, <2>1 DEF RequestState
  <2>3. \A id \in ProposalId : req[r].todo[id] # NoTx => Settles(req[r].todo[id], txs'[id])
    BY <1>1, <1>3 DEF CopyFits
  <2> QED
    BY <1>1, <1>2, <2>1, <2>2, <2>3, LookupMoves
<1>5. CASE FetchPendingTxs(r)
  <2> DEFINE utxos == req[r].utxos \ InputsOf(Stored("pending"))
             todo == [id \in ProposalId |->
                        IF txs[id] \in Stored("accepted") THEN txs[id] ELSE NoTx]
  <2>1. /\ req[r].pc = "getPendingTxs"
        /\ req' = [req EXCEPT ![r].pc = "checkTxs", ![r].utxos = utxos, ![r].todo = todo]
    BY <1>3, <1>5 DEF FetchPendingTxs
  <2>2. \A id \in ProposalId : todo[id] # NoTx => Settles(todo[id], txs'[id])
    BY <1>1 DEF Stored, Settles
  <2>3. ASSUME NEW id \in ProposalId, Locks(txs'[id])
        PROVE  todo[id] # NoTx \/ utxos \cap txs'[id].inputs = {}
    <3>1. txs[id] # NoTx /\ txs[id] \in Proposal /\ IsPending(txs[id])
      BY <1>1, <2>3, Known DEF Locks
    <3>2. CASE txs[id].status = "pending"
      <4>1. txs[id] \in Stored("pending") \ {NoTx}
        BY <3>1, <3>2 DEF Stored
      <4>2. txs[id].inputs \subseteq InputsOf(Stored("pending"))
        BY <4>1 DEF InputsOf
      <4> QED
        BY <1>1, <4>2
    <3>3. CASE txs[id].status = "accepted"
      BY <3>1, <3>3 DEF Stored
    <3> QED
      BY <3>1, <3>2, <3>3 DEF IsPending, Proposal, Status
  <2> HIDE DEF utxos, todo
  <2> QED
    BY <1>1, <1>2, <2>1, <2>2, <2>3, LookupMoves
<1> QED
  BY <1>4, <1>5

\* The lookups of the accepted proposals on the network.
LEMMA CheckTxsMoves ==
  ASSUME PInv, IInv', VotesAlone', NEW r \in Request, NEW id \in ProposalId,
         MarkBroadcasted(r, id) \/ NotOnNetwork(r, id) \/ LookupFails(r, id)
  PROVE  PInv'
<1>1. req[r].pc = "checkTxs" /\ req[r].todo[id] # NoTx
  BY DEF MarkBroadcasted, NotOnNetwork, LookupFails
<1>2. /\ req[r] \in RequestState /\ req \in [Request -> RequestState]
      /\ CopyFits(req[r], txs) /\ InputsReserved(req[r], txs) /\ WaitsAt(req[r])
  BY Known DEF Fits
<1>3. /\ txs[id] \in Proposal /\ txs[id] # NoTx
      /\ txs[id].status \in {"accepted", "broadcasted"}
      /\ SetStatus(req[r].todo[id], "broadcasted") = SetStatus(txs[id], "broadcasted")
  BY <1>1, <1>2, Known DEF CopyFits, Settles
<1>4. req[r].todo \in [ProposalId -> Document] /\ req[r].todo[id] \in Proposal
  BY <1>1, <1>2 DEF RequestState, Document
<1> DEFINE todo == [req[r].todo EXCEPT ![id] = NoTx]
<1>5. todo[id] = NoTx /\ \A j \in ProposalId \ {id} : todo[j] = req[r].todo[j]
  BY <1>4
<1> HIDE DEF todo
<1>6. \A j \in ProposalId : todo[j] # NoTx => Settles(todo[j], txs[j])
  BY <1>2, <1>5 DEF CopyFits
<1>7. CASE MarkBroadcasted(r, id)
  <2>1. req' = [req EXCEPT ![r].todo[id] = NoTx] /\ lock' = lock
    BY <1>7 DEF MarkBroadcasted
  <2>2. /\ txs'[id] = SetStatus(txs[id], "broadcasted")
        /\ \A j \in ProposalId \ {id} : txs'[j] = txs[j]
    BY <1>7, MarkWrites
  <2>3. req' = [req EXCEPT ![r].pc = "checkTxs", ![r].utxos = req[r].utxos, ![r].todo = todo]
    BY <1>1, <1>2, <2>1 DEF RequestState, todo
  <2>4. WritesOnly(r)
    BY <1>7, MarkWrites
  <2>5. \A j \in ProposalId : todo[j] # NoTx => Settles(todo[j], txs'[j])
    BY <1>5, <1>6, <2>2
  <2>6. req[r].op \in {"createTx", "publishTx"} => txs'[req[r].id] = txs[req[r].id]
    <3>1. req[r].op = "createTx" => txs[req[r].id] = NoTx
      BY <1>2 DEF CopyFits
    <3>2. req[r].op = "publishTx" => txs[req[r].id].status = "temporary"
      BY <1>2 DEF CopyFits
    <3> QED
      BY <1>2, <1>3, <2>2, <3>1, <3>2 DEF WaitsAt
  <2>7. txs'[id].status = "broadcasted"
    BY <1>3, <2>2, SetStatusIs DEF Status
  <2>8. req[r].op = "publishTx" =>
          \A j \in ProposalId :
            Locks(txs'[j]) => todo[j] # NoTx \/ req[r].utxos \cap txs'[j].inputs = {}
    BY <1>1, <1>2, <1>5, <2>2, <2>7 DEF InputsReserved, Locks, IsPending
  <2> QED
    BY <1>1, <2>1, <2>3, <2>4, <2>5, <2>6, <2>8, LookupMoves
<1>8. CASE NotOnNetwork(r, id)
  <2> DEFINE utxos == req[r].utxos \ req[r].todo[id].inputs
  <2>1. txs' = txs /\ lock' = lock
    BY <1>8 DEF NotOnNetwork
  <2>2. req' = [req EXCEPT ![r].pc = "checkTxs", ![r].utxos = utxos, ![r].todo = todo]
    BY <1>1, <1>2, <1>8 DEF NotOnNetwork, RequestState, todo
  <2>3. req[r].todo[id].inputs = txs[id].inputs
    <3>1. SetStatus(req[r].todo[id], "broadcasted").inputs = req[r].todo[id].inputs
      BY <1>4, SetStatusIs DEF Status
    <3>2. SetStatus(txs[id], "broadcasted").inputs = txs[id].inputs
      BY <1>3, SetStatusIs DEF Status
    <3> QED
      BY <1>3, <3>1, <3>2
  <2>4. req[r].op = "publishTx" =>
          \A j \in ProposalId :
            Locks(txs'[j]) => todo[j] # NoTx \/ utxos \cap txs'[j].inputs = {}
    BY <1>1, <1>2, <1>5, <2>1, <2>3 DEF InputsReserved
  <2> HIDE DEF utxos
  <2> QED
    BY <1>1, <1>6, <2>1, <2>2, <2>4, NothingWritten, LookupMoves
<1>9. CASE LookupFails(r, id)
  <2> DEFINE h == [Start("getPendingTxs", "checkTxs", NoId, NoTx) EXCEPT !.todo = todo]
  <2>1. h.op = "getPendingTxs" /\ h.pc = "checkTxs" /\ h.todo = todo
    BY DEF Start, Idle
  <2>2. req' = [req EXCEPT ![r] = h] /\ Release(r) /\ txs' = txs
    BY <1>9 DEF LookupFails, todo
  <2> HIDE DEF h
  <2>3. Fits(h, txs')
    BY <1>6, <2>1, <2>2 DEF Fits, WaitsAt, CopyFits, InputsReserved
  <2>4. WritesOnly(r)
    BY <2>2, NothingWritten
  <2>5. lock \in Request \ {r} => lock' = lock
    BY <2>2 DEF Release
  <2> QED
    BY <2>1, <2>2, <2>3, <2>4, <2>5, HandlerMoves DEF LockedOps
<1> QED
  BY <1>7, <1>8, <1>9

\* createTx with its inputs selected, publishTx with its inputs checked.
LEMMA ChosenMoves ==
  ASSUME PInv, IInv', VotesAlone', NEW r \in Request,
         SelectInputs(r) \/ CheckInputs(r)
  PROVE  PInv'
<1>1. txs' = txs
  BY DEF SelectInputs, CheckInputs
<1>2. WritesOnly(r)
  BY <1>1, NothingWritten
<1>3. /\ req[r] \in RequestState /\ WaitsAt(req[r])
      /\ CopyFits(req[r], txs) /\ InputsReserved(req[r], txs)
      /\ HandlerSound(req[r], chain)
  BY Known DEF Fits
<1>4. req[r].pc = "checkTxs" /\ req[r].todo = Nothing
      /\ req[r].op \in {"createTx", "publishTx"}
  BY DEF SelectInputs, CheckInputs, UtxosKnown
<1>5. req[r].txp \in Proposal /\ req[r].id \in ProposalId /\ lock = r
  BY <1>3, <1>4 DEF HandlerSound, RequestState, Document, PInv, LockKept, LockedOps
<1>6. CASE SelectInputs(r)
  <2>1. PICK inputs :
          req' = [req EXCEPT ![r] = Start("createTx", "storeTx", req[r].id,
                                          [req[r].txp EXCEPT !.inputs = inputs])]
    BY <1>6 DEF SelectInputs
  <2>2. req[r].op = "createTx" /\ lock' = lock
    BY <1>6 DEF SelectInputs, UtxosKnown
  <2> DEFINE copy == [req[r].txp EXCEPT !.inputs = inputs]
             h == Start("createTx", "storeTx", req[r].id, copy)
  <2>3. /\ h.op = "createTx" /\ h.pc = "storeTx" /\ h.id = req[r].id
        /\ h.txp = copy /\ h.todo = Nothing
    BY Started
  <2>4. copy.status = "temporary"
    BY <1>3, <1>5, <2>2 DEF CopyFits, Proposal
  <2>5. req' = [req EXCEPT ![r] = h]
    BY <2>1
  <2> HIDE DEF h, copy
  <2>6. CopyFits(h, txs')
    BY <1>1, <1>3, <2>2, <2>3, <2>4, NothingFits DEF CopyFits
  <2>7. Fits(h, txs')
    BY <1>5, <2>3, <2>6 DEF Fits, WaitsAt, InputsReserved
  <2> QED
    BY <1>2, <1>5, <2>2, <2>5, <2>7, HandlerMoves
<1>7. CASE CheckInputs(r) /\ Return(r)
  BY <1>2, <1>7, ReturnMoves
<1>8. CASE CheckInputs(r) /\ ~Return(r)
  <2> DEFINE copy == SetStatus(req[r].txp, "pending")
             h == Start("publishTx", "storeTx", req[r].id, copy)
  <2>1. /\ req[r].txp.inputs \subseteq Available(r)
        /\ req' = [req EXCEPT ![r] = h] /\ lock' = lock
        /\ req[r].op = "publishTx"
    BY <1>8 DEF CheckInputs, UtxosKnown
  <2>2. /\ h.op = "publishTx" /\ h.pc = "storeTx" /\ h.id = req[r].id
        /\ h.txp = copy /\ h.todo = Nothing
    BY Started
  <2>3. /\ txs[req[r].id] # NoTx /\ txs[req[r].id].status = "temporary"
        /\ req[r].txp = txs[req[r].id]
    BY <1>3, <1>4, <2>1 DEF CopyFits
  <2>4. copy.inputs = req[r].txp.inputs
    BY <1>5, SetStatusIs DEF Status
  <2>5. copy = SetStatus(txs[req[r].id], "pending")
    BY <2>3
  <2> HIDE DEF h, copy
  <2>6. \A j \in ProposalId : Locks(txs[j]) => req[r].utxos \cap txs[j].inputs = {}
    BY <1>3, <1>4, <2>1, NothingFits DEF InputsReserved
  <2>7. req[r].txp.inputs \subseteq req[r].utxos
    BY <2>1 DEF Available
  <2>8. CopyFits(h, txs')
    BY <1>1, <2>2, <2>3, <2>5, NothingFits DEF CopyFits
  <2>9. InputsReserved(h, txs')
    BY <1>1, <2>2, <2>4, <2>6, <2>7 DEF InputsReserved
  <2>10. Fits(h, txs')
    BY <1>5, <2>2, <2>8, <2>9 DEF Fits, WaitsAt
  <2> QED
    BY <1>2, <1>5, <2>1, <2>10, HandlerMoves
<1> QED
  BY <1>6, <1>7, <1>8

-----------------------------------------------------------------------------
(* The theorems.                                                            *)

\* The starting state of these behaviours.
LEMMA PoliteInit == Init => PInv
<1> SUFFICES ASSUME Init PROVE PInv
  OBVIOUS
<1>1. \A r \in Request : req[r] = Idle
  BY DEF Init
<1>2. AllFit /\ LockKept
  BY <1>1, IdleFits DEF AllFit, LockKept
<1>3. VotesAlone
  BY <1>1 DEF VotesAlone, Idle
<1>4. \A id \in ProposalId : txs[id] = NoTx
  BY DEF Init, Nothing
<1>5. InputsLocked
  BY <1>4 DEF InputsLocked
<1> QED
  BY <1>2, <1>3, <1>5, InitIInv DEF PInv

\* A step without a lock lost is a step.
LEMMA PromptIsNext == PromptNext => Next
BY DEF PromptNext, Next

\* The invariant is inductive.
LEMMA PoliteNext == PInv /\ [PromptNext /\ VotesAlone']_vars => PInv'
<1> SUFFICES ASSUME PInv, [PromptNext /\ VotesAlone']_vars PROVE PInv'
  OBVIOUS
<1>1. IInv'
  BY NextIInv, PromptIsNext DEF PInv
<1>2. CASE UNCHANGED vars
  BY <1>1, <1>2 DEF vars, PInv, VotesAlone, Rewrites, AllFit, LockKept, InputsLocked
<1>3. ASSUME VotesAlone', NEW r \in Request, Call(r) PROVE PInv'
  BY <1>1, <1>3, UnlockedCallMoves, LockedCallMoves DEF Call
<1>4. ASSUME VotesAlone', NEW r \in Request, Handler(r) PROVE PInv'
  <2>1. CASE ReturnPendingTxs(r) \/ Fail(r)
    <3>1. Return(r) /\ txs' = txs
      BY <2>1 DEF ReturnPendingTxs, Fail
    <3> QED
      BY <1>1, <1>4, <3>1, NothingWritten, ReturnMoves
  <2>2. CASE StoreTx(r) \/ RemoveTx(r)
    <3>1. Return(r)
      BY <2>2 DEF StoreTx, RemoveTx
    <3> QED
      BY <1>1, <1>4, <2>2, <3>1, StoreTxWrites, RemoveTxWrites, ReturnMoves
  <2> QED
    BY <1>1, <1>4, <2>1, <2>2, BroadcastMoves, ReadMoves, CheckTxsMoves, ChosenMoves
       DEF Handler
<1>5. ASSUME VotesAlone', NEW id \in ProposalId, ThirdPartyBroadcast(id) PROVE PInv'
  <2>1. UNCHANGED <<txs, req, lock>>
    BY <1>5 DEF ThirdPartyBroadcast
  <2> QED
    BY <1>1, <1>5, <2>1 DEF PInv, AllFit, LockKept, InputsLocked
<1> QED
  BY <1>2, <1>3, <1>4, <1>5 DEF PromptNext

\* The copies of the handlers stay fit, and what publishTx reserved is its own.
THEOREM CopiesStayFit == PoliteSpec => []PInv
BY PoliteInit, PoliteNext, PTL DEF PoliteSpec

\* No output is spent by two proposals that wait for votes or their broadcast:
\* the inputs publishTx found available are so until it has stored the proposal.
THEOREM InputsStayApart == PoliteSpec => []InputsLocked
<1>1. PInv => InputsLocked
  BY DEF PInv
<1> QED
  BY <1>1, CopiesStayFit, PTL

\* Every step writes as one handler may, or writes no proposal.
LEMMA StepWrites ==
  ASSUME PInv, PromptNext
  PROVE  txs' = txs \/ \E r \in Request : WritesOnly(r)
<1>1. ASSUME NEW r \in Request, Call(r) PROVE txs' = txs
  BY <1>1 DEF Call, GetPendingTxs, PublishTx, BroadcastTx, CreateTx, RemovePendingTx,
              SignTx, RejectTx, Vote
<1>2. ASSUME NEW r \in Request, Handler(r) PROVE txs' = txs \/ WritesOnly(r)
  <2>1. \/ StoreTx(r) \/ RemoveTx(r)
        \/ \E id \in ProposalId : MarkBroadcasted(r, id)
        \/ txs' = txs
    BY <1>2 DEF Handler, BroadcastSucceeds, BroadcastErrs, CheckTxFinds, GetUtxos,
                FetchPendingTxs, ReturnPendingTxs, NotOnNetwork, LookupFails,
                SelectInputs, CheckInputs, Fail
  <2> QED
    BY <2>1, StoreTxWrites, RemoveTxWrites, MarkWrites
<1>3. ASSUME NEW id \in ProposalId, ThirdPartyBroadcast(id) PROVE txs' = txs
  BY <1>3 DEF ThirdPartyBroadcast
<1> QED
  BY <1>1, <1>2, <1>3 DEF PromptNext

\* A sequence is a prefix of itself and of itself with one element more.
LEMMA PrefixOfAppend ==
  ASSUME NEW S, NEW s \in Seq(S), NEW e \in S
  PROVE  IsPrefix(s, s) /\ IsPrefix(s, Append(s, e))
<1>1. Len(Append(s, e)) = Len(s) + 1 /\ Len(s) \in Nat
  OBVIOUS
<1>2. SubSeq(s, 1, Len(s)) = SubSeq(Append(s, e), 1, Len(s))
  OBVIOUS
<1> QED
  BY <1>1, <1>2 DEF IsPrefix

\* What a handler may write keeps the votes, and moves the status forward.
LEMMA WritesKeepVotes ==
  ASSUME NEW h, NEW id, NEW before \in Proposal, NEW after,
         Writes(h, id, before, after), after # NoTx, before # NoTx
  PROVE  /\ IsPrefix(before.actions, after.actions)
         /\ before.status # after.status
              => /\ Rank[before.status] < Rank[after.status]
                 /\ after.status = "rejected" => before.status = "pending"
                 /\ after.status = "broadcasted" => before.status = "accepted"
<1>0. before.actions \in Seq(Action) /\ IsPrefix(before.actions, before.actions)
  <2>1. before.actions \in Seq(Action)
    BY DEF Proposal
  <2>2. [pocketeerId |-> before.creatorId, type |-> "accept"] \in Action
    BY DEF Action, Proposal
  <2> QED
    BY <2>1, <2>2, PrefixOfAppend
<1>1. CASE after = before
  BY <1>0, <1>1
<1>2. CASE before.status = "temporary" /\ after = SetStatus(before, "pending")
  <2>1. after.status = "pending" /\ after.actions = before.actions
    BY <1>2, SetStatusIs DEF Status
  <2> QED
    BY <1>0, <1>2, <2>1 DEF Rank
<1>3. ASSUME before.status = "pending",
             NEW p \in Pocketeer, NEW type \in {"accept", "reject"},
             after = AddAction(before, p, type)
      PROVE  /\ IsPrefix(before.actions, after.actions)
             /\ before.status # after.status
                  => /\ Rank[before.status] < Rank[after.status]
                     /\ after.status = "rejected" => before.status = "pending"
                     /\ after.status = "broadcasted" => before.status = "accepted"
  <2>1. /\ after.status \in {"pending", "accepted", "rejected"}
        /\ after.actions = Append(before.actions, [pocketeerId |-> p, type |-> type])
    BY <1>3, AddActionIs
  <2>2. [pocketeerId |-> p, type |-> type] \in Action
    BY DEF Action
  <2>3. IsPrefix(before.actions, after.actions)
    BY <1>0, <2>1, <2>2, PrefixOfAppend
  <2> QED
    BY <1>3, <2>1, <2>3 DEF Rank
<1>4. CASE /\ before.status \in {"accepted", "broadcasted"}
           /\ after = SetStatus(before, "broadcasted")
  <2>1. after.status = "broadcasted" /\ after.actions = before.actions
    BY <1>4, SetStatusIs DEF Status
  <2> QED
    BY <1>0, <1>4, <2>1 DEF Rank
<1> QED
  BY <1>1, <1>2, <1>3, <1>4 DEF Writes

\* No store of signTx, rejectTx, broadcastTx, publishTx or getPendingTxs takes
\* back a vote a pocketeer was told is recorded, or reopens a proposal.
THEOREM VotesStay == PoliteSpec => VotesKept
<1> DEFINE Kept(id) ==
      txs[id] # NoTx /\ txs'[id] # NoTx
        => /\ IsPrefix(txs[id].actions, txs'[id].actions)
           /\ txs[id].status # txs'[id].status
                => /\ Rank[txs[id].status] < Rank[txs'[id].status]
                   /\ txs'[id].status = "rejected" => txs[id].status = "pending"
                   /\ txs'[id].status = "broadcasted" => txs[id].status = "accepted"
<1>1. ASSUME PInv, PromptNext, NEW id \in ProposalId PROVE Kept(id)
  <2> SUFFICES ASSUME txs[id] # NoTx, txs'[id] # NoTx PROVE Kept(id)
    OBVIOUS
  <2>1. txs[id] \in Proposal
    BY <1>1, Known
  <2>2. \E h : Writes(h, id, txs[id], txs'[id])
    BY <1>1, StepWrites DEF WritesOnly, Writes
  <2> QED
    BY <2>1, <2>2, WritesKeepVotes
<1>2. PInv /\ [PromptNext /\ VotesAlone']_vars => [\A id \in ProposalId : Kept(id)]_vars
  BY <1>1
<1> QED
  BY <1>2, CopiesStayFit, PTL DEF PoliteSpec, VotesKept
=============================================================================

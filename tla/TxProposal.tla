----------------------------- MODULE TxProposal -----------------------------
(***************************************************************************)
(* The transaction proposal document of lib/model/txproposal.js: what its  *)
(* votes are, and how a vote moves its status.  Operators only; the        *)
(* handlers that read and write proposals are in TxService.                *)
(*                                                                         *)
(* Outputs, fees, signatures and scripts are left out: of the transaction  *)
(* a proposal describes only the inputs it spends and the pocketeers whose *)
(* signatures it carries matter to the properties.                         *)
(***************************************************************************)
EXTENDS Naturals, Sequences, FiniteSets

CONSTANTS
  Pocketeer,           \* the n pocketeers of the wallet (walletN of them)
  RequiredSignatures,  \* walletM
  Utxo,                \* the wallet's unspent outputs
  ProposalId           \* ids a proposal may get

ASSUME TxProposalAssumption ==
  /\ IsFiniteSet(Pocketeer)
  /\ RequiredSignatures \in 1..Cardinality(Pocketeer)

Status == {"temporary", "pending", "accepted", "rejected", "broadcasted"}

Action == [pocketeerId: Pocketeer, type: {"accept", "reject"}]

Proposal == [creatorId: Pocketeer,
             inputs: SUBSET Utxo,
             status: Status,
             actions: Seq(Action)]

\* Mistake: as many rejections as signatures.
RejectionsAsSignatures == RequiredSignatures

\* Math.min(walletM, walletN - walletM + 1)
RequiredRejections ==
  LET spare == (Cardinality(Pocketeer) - RequiredSignatures) + 1
  IN  IF RequiredSignatures <= spare THEN RequiredSignatures ELSE spare

\* TxProposal.create: a proposal nobody but its creator can see yet.
Create(creator, inputs) ==
  [creatorId |-> creator, inputs |-> inputs,
   status |-> "temporary", actions |-> << >>]

Votes(txp, type) ==
  {i \in DOMAIN txp.actions : txp.actions[i].type = type}

GetActors(txp) == {txp.actions[i].pocketeerId : i \in DOMAIN txp.actions}

GetApprovers(txp) ==
  {txp.actions[i].pocketeerId : i \in Votes(txp, "accept")}

\* Mistake: every vote counts.
AnyVotesAccept(txp) == Len(txp.actions) >= RequiredSignatures

IsAccepted(txp) == Cardinality(Votes(txp, "accept")) >= RequiredSignatures

IsRejected(txp) == Cardinality(Votes(txp, "reject")) >= RequiredRejections

\* An accepted proposal still counts as pending, until it is broadcast.
IsPending(txp) == txp.status \notin {"temporary", "broadcasted", "rejected"}

\* _updateStatus, called only on a pending proposal here: rejection is
\* looked at before acceptance.
StatusAfterVote(txp) ==
  IF txp.status # "pending" THEN txp.status
  ELSE IF IsRejected(txp) THEN "rejected"
  ELSE IF IsAccepted(txp) THEN "accepted"
  ELSE "pending"

\* Mistake: the vote replaces those there are.
LastVoteOnly(txp, pocketeer, type) ==
  LET voted == [txp EXCEPT
                  !.actions = <<[pocketeerId |-> pocketeer, type |-> type]>>]
  IN  [voted EXCEPT !.status = StatusAfterVote(voted)]

\* addAction: push the vote, then _updateStatus.
AddAction(txp, pocketeer, type) ==
  LET voted == [txp EXCEPT
                  !.actions = Append(@, [pocketeerId |-> pocketeer,
                                         type |-> type])]
  IN  [voted EXCEPT !.status = StatusAfterVote(voted)]

\* bitcore refuses a signature for an input that has all those it needs, and
\* sign() then returns false.
TakesSignature(txp) ==
  Cardinality(Votes(txp, "accept")) < RequiredSignatures

SetStatus(txp, status) == [txp EXCEPT !.status = status]

\* The id of the signed transaction covers what it spends and its signatures.
Txid(id, txp) ==
  [id |-> id, inputs |-> txp.inputs, signers |-> GetApprovers(txp)]

TxidType ==
  [id: ProposalId, inputs: SUBSET Utxo, signers: SUBSET Pocketeer]

-----------------------------------------------------------------------------
(* What a proposal looks like if its votes were cast one at a time.         *)

OneVoteEach(txp) ==
  \A i, j \in DOMAIN txp.actions :
    txp.actions[i].pocketeerId = txp.actions[j].pocketeerId => i = j

StatusMatchesVotes(txp) ==
  LET accepts == Cardinality(Votes(txp, "accept"))
      rejects == Cardinality(Votes(txp, "reject"))
  IN  /\ txp.status = "temporary" => txp.actions = << >>
      /\ txp.status = "pending" => /\ accepts < RequiredSignatures
                                   /\ rejects < RequiredRejections
      /\ txp.status = "rejected" => /\ accepts < RequiredSignatures
                                    /\ rejects = RequiredRejections
      /\ txp.status \in {"accepted", "broadcasted"} =>
                                   /\ accepts = RequiredSignatures
                                   /\ rejects < RequiredRejections

WellVoted(txp) == OneVoteEach(txp) /\ StatusMatchesVotes(txp)

=============================================================================

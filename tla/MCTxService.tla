---------------------------- MODULE MCTxService -----------------------------
(***************************************************************************)
(* TxService on small instances, and the scenarios its runs check.         *)
(***************************************************************************)
EXTENDS TxService, TLC

Symmetry == Permutations(Pocketeer) \cup Permutations(Request)
            \cup Permutations(ProposalId)

=============================================================================

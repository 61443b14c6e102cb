-------------------------- MODULE MCWalletRegistry --------------------------
(***************************************************************************)
(* WalletRegistry on small instances.                                      *)
(***************************************************************************)
EXTENDS WalletRegistry, TLC

Symmetry == Permutations(WalletId) \cup Permutations(Pocketeer)
            \cup Permutations(Key) \cup Permutations(Request)

=============================================================================

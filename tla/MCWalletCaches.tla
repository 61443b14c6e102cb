--------------------------- MODULE MCWalletCaches ---------------------------
(* Two calls at a time of one wallet: of getTxHistory on three transactions, *)
(* with scans that keep out of their way or not; of getBalance on two        *)
(* addresses; of _getBlockchainHeight on two blocks.                         *)
EXTENDS WalletCaches

Orderly == {{}}

ScanOverlaps == {{"scanOverlaps"}}

\* The three kinds of calls have the same slots.
Symmetry == Permutations(Request) \cup Permutations(WalletAddress)

=============================================================================

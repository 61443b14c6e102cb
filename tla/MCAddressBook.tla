--------------------------- MODULE MCAddressBook ----------------------------
(***************************************************************************)
(* AddressBook on small instances.                                         *)
(***************************************************************************)
EXTENDS AddressBook

MCMaxIndex == [main |-> 3, change |-> 1]

Symmetry == Permutations(Request)

=============================================================================

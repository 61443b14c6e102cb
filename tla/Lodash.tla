------------------------------- MODULE Lodash -------------------------------
(***************************************************************************)
(* The functions of lodash that lib/server.js takes its pages and its      *)
(* latest addresses with.  Filter is a recursive function, where SelectSeq *)
(* would do, so that proofs can unfold it.                                 *)
(***************************************************************************)
EXTENDS SequencesExt

\* _.filter: the elements of a sequence that are in a set, in the same order.
Filter(s, keep) ==
  LET kept[n \in 0..Len(s)] ==
        IF n = 0 THEN << >>
        ELSE IF s[n] \in keep THEN Append(kept[n - 1], s[n]) ELSE kept[n - 1]
  IN  kept[Len(s)]

\* _.takeRight: the last n elements, or all of them.
TakeRight(seq, n) ==
  IF Len(seq) <= n THEN seq ELSE SubSeq(seq, (Len(seq) - n) + 1, Len(seq))

=============================================================================

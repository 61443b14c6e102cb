------------------------------- MODULE Lease --------------------------------
(***************************************************************************)
(* What lib/lock.js promises the handlers that call runLocked on a token:  *)
(* a lease that one task has at a time, and once.  A lease ends when its   *)
(* task releases it or when its time is over, whichever is first, and then *)
(* passes in the same step to a task that waits, if there is one.  A task  *)
(* may be refused while it waits, and never after.                         *)
(***************************************************************************)
CONSTANT Task

VARIABLE state  \* of each task: "new", "waits", "refused", "holds" or "over"

States == {"new", "waits", "refused", "holds", "over"}

In(s) == {t \in Task : state[t] = s}

LeaseInit == state = [t \in Task |-> "new"]

\* A free lease is given to the task that asks at once.
Ask(t) ==
  /\ state[t] = "new"
  /\ state' = [state EXCEPT ![t] = IF In("holds") = {} THEN "holds" ELSE "waits"]

Refuse(t) ==
  /\ state[t] = "waits"
  /\ state' = [state EXCEPT ![t] = "refused"]

GiveUp(t) ==
  /\ state[t] = "holds"
  /\ IF In("waits") = {}
     THEN state' = [state EXCEPT ![t] = "over"]
     ELSE \E next \in In("waits") :
            state' = [state EXCEPT ![t] = "over", ![next] = "holds"]

LeaseNext == \E t \in Task : Ask(t) \/ Refuse(t) \/ GiveUp(t)

LeaseSpec == LeaseInit /\ [][LeaseNext]_state

=============================================================================

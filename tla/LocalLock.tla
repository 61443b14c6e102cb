----------------------------- MODULE LocalLock ------------------------------
(***************************************************************************)
(* lib/locallock.js: the in-process lock behind lib/lock.js.  Per token it *)
(* keeps the queue of tasks that hold or wait for the token.  A task may   *)
(* give up waiting (its wait timer), and it is released when its time is   *)
(* over (its max timer) although its body is still at work.                *)
(*                                                                         *)
(* One node process runs all of this, so locked(), a timer and a release   *)
(* are each one step, together with the _runOne they end with.  A body     *)
(* that releases synchronously is one whose next step is its release.      *)
(***************************************************************************)
EXTENDS Naturals, Sequences

CONSTANTS
  Task,     \* one for every call of locked()
  Token

VARIABLES
  args,      \* the token of each call, and whether it has a wait and a max time
  tasks,     \* tasks[token]: the queue of the token
  running,   \* the tasks whose `running' is true
  called,    \* what the fn of each task was called with
  finished   \* the tasks whose body is over

vars == <<args, tasks, running, called, finished>>

Init ==
  /\ args \in [Task -> [token: Token, wait: BOOLEAN, max: BOOLEAN]]
  /\ tasks = [k \in Token |-> << >>]
  /\ running = {}
  /\ called = [t \in Task |-> "no"]
  /\ finished = {}

InQueue(t, queue) == \E i \in DOMAIN queue : queue[i] = t

Queued(t) == InQueue(t, tasks[args[t].token])

\* _.without(queue, t), of a queue that has t at most once.
Without(queue, t) ==
  IF ~InQueue(t, queue) THEN queue
  ELSE LET i == CHOOSE i \in DOMAIN queue : queue[i] = t
       IN  SubSeq(queue, 1, i - 1) \o SubSeq(queue, i + 1, Len(queue))

\* _runOne(k), with a queue and a set of running tasks the step has changed:
\* unless a task of the queue runs, the first one starts and its fn is called.
RunOne(k, queue, ran) ==
  LET starts == IF queue = << >> \/ \E i \in DOMAIN queue : queue[i] \in ran
                THEN {} ELSE {Head(queue)}
  IN  /\ tasks' = [tasks EXCEPT ![k] = queue]
      /\ running' = ran \cup starts
      /\ called' = [t \in Task |-> IF t \in starts THEN "lock" ELSE called[t]]

\* Mistake: the first task is released, whoever asks.
ReleaseHead(t) ==
  LET k == args[t].token IN
  IF tasks[k] # << >>
  THEN RunOne(k, Tail(tasks[k]), running \ {Head(tasks[k])})
  ELSE UNCHANGED <<tasks, running, called>>

\* Mistake: the released task stays in the queue.
ReleaseInPlace(t) ==
  LET k == args[t].token IN
  IF t \in running
  THEN RunOne(k, tasks[k], running \ {t})
  ELSE UNCHANGED <<tasks, running, called>>

\* Mistake: nobody is started.
ReleaseOnly(t) ==
  LET k == args[t].token IN
  /\ tasks' = [tasks EXCEPT ![k] = Without(@, t)]
  /\ running' = running \ {t}
  /\ UNCHANGED called

\* _release(k, t): nothing when the task does not run any more.
ReleaseTask(t) ==
  LET k == args[t].token IN
  IF t \in running
  THEN RunOne(k, Without(tasks[k], t), running \ {t})
  ELSE UNCHANGED <<tasks, running, called>>

Locked(t) ==
  /\ called[t] = "no" /\ ~Queued(t)
  /\ RunOne(args[t].token, Append(tasks[args[t].token], t), running)
  /\ UNCHANGED <<args, finished>>

\* Mistake: the wait timer does not mind whether the task runs.
WaitTimeoutAlways(t) ==
  /\ args[t].wait
  /\ Queued(t)
  /\ tasks' = [tasks EXCEPT ![args[t].token] = Without(@, t)]
  /\ called' = [called EXCEPT ![t] = "error"]
  /\ UNCHANGED <<args, running, finished>>

\* The wait timer of a task that still waits: it leaves the queue and its fn
\* is called with an error.  For a task that runs or has run it does nothing.
WaitTimeout(t) ==
  /\ args[t].wait
  /\ Queued(t) /\ t \notin running
  /\ tasks' = [tasks EXCEPT ![args[t].token] = Without(@, t)]
  /\ called' = [called EXCEPT ![t] = "error"]
  /\ UNCHANGED <<args, running, finished>>

\* Mistake: the max timer frees the token for nobody.
MaxTimeoutDrops(t) ==
  /\ args[t].max
  /\ t \in running
  /\ tasks' = [tasks EXCEPT ![args[t].token] = Without(@, t)]
  /\ running' = running \ {t}
  /\ UNCHANGED <<args, called, finished>>

\* The max timer, set when the task started.
MaxTimeout(t) ==
  /\ args[t].max
  /\ t \in running
  /\ ReleaseTask(t)
  /\ UNCHANGED <<args, finished>>

AtWork(t) == called[t] = "lock" /\ t \notin finished

\* The body calls the release function it was given.
BodyReleases(t) ==
  /\ AtWork(t)
  /\ finished' = finished \cup {t}
  /\ ReleaseTask(t)
  /\ UNCHANGED args

\* The body ends without that call, as when the callback that runLocked wraps
\* throws.
BodyThrows(t) ==
  /\ AtWork(t)
  /\ finished' = finished \cup {t}
  /\ UNCHANGED <<args, tasks, running, called>>

Next ==
  \E t \in Task :
    \/ Locked(t) \/ WaitTimeout(t) \/ MaxTimeout(t)
    \/ BodyReleases(t) \/ BodyThrows(t)

\* Timers fire; of the bodies nothing is sure.
Timers == \A t \in Task : WF_vars(WaitTimeout(t)) /\ WF_vars(MaxTimeout(t))

Spec == Init /\ [][Next]_vars
FairSpec == Spec /\ Timers

-----------------------------------------------------------------------------

TypeOK ==
  /\ args \in [Task -> [token: Token, wait: BOOLEAN, max: BOOLEAN]]
  /\ tasks \in [Token -> Seq(Task)]
  /\ running \subseteq {t \in Task : Queued(t)}
  /\ called \in [Task -> {"no", "lock", "error"}]
  /\ finished \subseteq Task

\* No token idles while tasks wait for it, and the task that runs is the one
\* that came first: whatever mix of releases and timeouts empties the queue,
\* _runOne is called whenever the head may start, and never twice.
HeadRuns ==
  \A k \in Token : \A i \in DOMAIN tasks[k] :
    tasks[k][i] \in running <=> i = 1

\* Two bodies of one token are at work together only when all but the newest
\* were released by their max timer: a late release of an expired task never
\* takes the token from the task that has it now.
OverlapOnlyExpired ==
  \A s, t \in Task :
    /\ s # t /\ args[s].token = args[t].token
    /\ AtWork(s) /\ AtWork(t)
    => (s \notin running /\ args[s].max) \/ (t \notin running /\ args[t].max)

\* A task is answered once: with the lock, and then never with an error when its
\* wait timer fires later, nor the other way round.
AnsweredOnce ==
  [][\A t \in Task : called[t] # "no" => called'[t] = called[t]]_vars

\* The lease that token k is; calls for another token never ask for it.
LeaseState(k) ==
  [t \in Task |->
     IF args[t].token # k THEN "new"
     ELSE IF called[t] = "error" THEN "refused"
     ELSE IF t \in running THEN "holds"
     ELSE IF called[t] = "lock" THEN "over"
     ELSE IF Queued(t) THEN "waits"
     ELSE "new"]

L(k) == INSTANCE Lease WITH state <- LeaseState(k)

\* The lock implements a lease on every token: a task has it once and alone,
\* and a release, an expiry or a refusal leaves nobody waiting for a free token.
IsLease ==
  /\ \A k \in Token : L(k)!LeaseInit
  /\ [][\A k \in Token : [L(k)!LeaseNext]_(LeaseState(k))]_vars

\* Every call is answered when it has a wait time or all calls before it give
\* the token back in time, even when a body hangs or throws.
EveryCallAnswered ==
  \A t \in Task :
    (Queued(t) /\ (args[t].wait \/ \A s \in Task : args[s].max))
      ~> called[t] # "no"

=============================================================================

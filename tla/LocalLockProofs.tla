-------------------------- MODULE LocalLockProofs --------------------------
(***************************************************************************)
(* The safety of the in-process lock, for any number of calls and tokens   *)
(* and any mix of releases, timers and bodies that throw, and that it      *)
(* implements a Lease on every token.                                      *)
(*                                                                         *)
(* What is inductive is what holds of the queues: a queue has a task once, *)
(* and only tasks of its token; the task that runs was called with the     *)
(* lock and the others with nothing yet; and a body that is at work        *)
(* without running lost the token to its max timer.                        *)
(***************************************************************************)
EXTENDS LocalLock, SequenceTheorems, TLAPS

Distinct(queue) == \A i, j \in DOMAIN queue : queue[i] = queue[j] => i = j

QueuesFit ==
  \A k \in Token :
    /\ Distinct(tasks[k])
    /\ \A i \in DOMAIN tasks[k] : args[tasks[k][i]].token = k

CallsFit ==
  \A t \in Task :
    /\ t \in running => called[t] = "lock"
    /\ Queued(t) /\ t \notin running => called[t] = "no"

ExpiredOnly ==
  \A t \in Task : AtWork(t) /\ t \notin running => args[t].max

IInv ==
  /\ TypeOK
  /\ HeadRuns
  /\ QueuesFit
  /\ CallsFit
  /\ ExpiredOnly

-----------------------------------------------------------------------------
(* Queues: what _.without and push leave of a queue.                        *)

\* Without removes one element and keeps the order of the others.
LEMMA WithoutIs ==
  ASSUME NEW queue \in Seq(Task), Distinct(queue), NEW t, NEW i \in DOMAIN queue,
         queue[i] = t
  PROVE  /\ Without(queue, t) \in Seq(Task)
         /\ Len(Without(queue, t)) = Len(queue) - 1
         /\ \A j \in 1 .. Len(queue) - 1 :
              Without(queue, t)[j] = IF j < i THEN queue[j] ELSE queue[j + 1]
<1>1. InQueue(t, queue) /\ i \in 1 .. Len(queue) /\ Len(queue) \in Nat
  BY DEF InQueue
<1>2. (CHOOSE n \in DOMAIN queue : queue[n] = t) = i
  BY DEF Distinct
<1> DEFINE before == SubSeq(queue, 1, i - 1)
           after == SubSeq(queue, i + 1, Len(queue))
           rest == before \o after
<1>3. Without(queue, t) = rest
  BY <1>1, <1>2 DEF Without
<1>4. /\ before \in Seq(Task) /\ Len(before) = i - 1
      /\ \A j \in 1 .. i - 1 : before[j] = queue[j]
  BY <1>1, SubSeqProperties
<1>5. /\ after \in Seq(Task) /\ Len(after) = Len(queue) - i
      /\ \A j \in 1 .. Len(queue) - i : after[j] = queue[i + j]
  <2>1. \A j \in i + 1 .. Len(queue) : queue[j] \in Task
    BY <1>1
  <2>2. /\ after \in Seq(Task)
        /\ Len(after) = IF i + 1 <= Len(queue) THEN Len(queue) - (i + 1) + 1 ELSE 0
        /\ \A j \in 1 .. Len(queue) - (i + 1) + 1 : after[j] = queue[(i + 1) + j - 1]
    BY <1>1, <2>1, SubSeqProperties
  <2>3. QED
    BY <1>1, <2>2
<1>6. /\ rest \in Seq(Task) /\ Len(rest) = Len(before) + Len(after)
      /\ \A j \in 1 .. Len(before) + Len(after) :
           rest[j] = IF j <= Len(before) THEN before[j]
                                 ELSE after[j - Len(before)]
  BY <1>4, <1>5, ConcatProperties
<1> HIDE DEF before, after, rest
<1>7. ASSUME NEW j \in 1 .. Len(queue) - 1
      PROVE  rest[j] = IF j < i THEN queue[j] ELSE queue[j + 1]
  <2>1. CASE j < i
    BY <1>1, <1>4, <1>5, <1>6, <2>1
  <2>2. CASE j >= i
    <3>1. rest[j] = after[j - (i - 1)]
      <4>1. /\ j \in 1 .. Len(before) + Len(after)
            /\ ~(j <= Len(before)) /\ j - Len(before) = j - (i - 1)
        BY <1>1, <1>4, <1>5, <2>2
      <4>2. QED
        BY <1>6, <4>1
    <3>2. after[j - (i - 1)] = queue[i + (j - (i - 1))]
      BY <1>1, <1>5, <2>2
    <3>3. QED
      BY <1>1, <2>2, <3>1, <3>2
  <2>3. QED
    BY <1>1, <2>1, <2>2
<1>8. QED
  BY <1>1, <1>3, <1>4, <1>5, <1>6, <1>7

\* Without keeps a queue a queue, without the task it removes.
LEMMA WithoutFits ==
  ASSUME NEW queue \in Seq(Task), Distinct(queue), NEW t, InQueue(t, queue)
  PROVE  /\ Without(queue, t) \in Seq(Task)
         /\ Distinct(Without(queue, t))
         /\ \A s : InQueue(s, Without(queue, t)) <=> InQueue(s, queue) /\ s # t
         /\ queue[1] # t => /\ Without(queue, t) # << >>
                            /\ Without(queue, t)[1] = queue[1]
<1>1. PICK i \in DOMAIN queue : queue[i] = t
  BY DEF InQueue
<1> DEFINE w == Without(queue, t)
<1>2. /\ w \in Seq(Task) /\ Len(w) = Len(queue) - 1
      /\ \A j \in 1 .. Len(queue) - 1 : w[j] = IF j < i THEN queue[j] ELSE queue[j + 1]
  BY <1>1, WithoutIs
<1>3. /\ DOMAIN queue = 1 .. Len(queue) /\ Len(queue) \in Nat /\ i \in 1 .. Len(queue)
      /\ DOMAIN w = 1 .. Len(queue) - 1
  BY <1>2
<1> HIDE DEF w
<1>4. Distinct(w)
  <2> SUFFICES ASSUME NEW a \in DOMAIN w, NEW b \in DOMAIN w, w[a] = w[b]
               PROVE  a = b
    BY DEF Distinct
  <2> DEFINE old(n) == IF n < i THEN n ELSE n + 1
  <2>1. /\ old(a) \in DOMAIN queue /\ w[a] = queue[old(a)]
        /\ old(b) \in DOMAIN queue /\ w[b] = queue[old(b)]
    BY <1>2, <1>3
  <2>2. old(a) = old(b)
    BY <2>1 DEF Distinct
  <2>3. QED
    BY <1>3, <2>2
<1>5. ASSUME NEW s
      PROVE  InQueue(s, w) <=> InQueue(s, queue) /\ s # t
  <2>1. ASSUME NEW j \in DOMAIN w, w[j] = s
        PROVE  InQueue(s, queue) /\ s # t
    BY <1>1, <1>2, <1>3, <2>1 DEF InQueue, Distinct
  <2>2. ASSUME NEW j \in DOMAIN queue, queue[j] = s, s # t
        PROVE  InQueue(s, w)
    <3>1. CASE j < i
      BY <1>2, <1>3, <2>2, <3>1 DEF InQueue
    <3>2. CASE j > i
      <4>1. j - 1 \in DOMAIN w /\ w[j - 1] = s
        BY <1>2, <1>3, <2>2, <3>2
      <4>2. QED
        BY <4>1 DEF InQueue
    <3>3. QED
      BY <1>1, <1>3, <2>2, <3>1, <3>2
  <2>3. QED
    BY <2>1, <2>2 DEF InQueue
<1>6. ASSUME queue[1] # t
      PROVE  w # << >> /\ w[1] = queue[1]
  BY <1>1, <1>2, <1>3, <1>6
<1>7. QED
  BY <1>2, <1>4, <1>5, <1>6 DEF w

\* A task that is not queued keeps a queue distinct when it is appended.
LEMMA AppendFits ==
  ASSUME NEW queue \in Seq(Task), Distinct(queue), NEW t \in Task, ~InQueue(t, queue)
  PROVE  /\ Append(queue, t) \in Seq(Task)
         /\ Distinct(Append(queue, t))
         /\ \A s : InQueue(s, Append(queue, t)) <=> InQueue(s, queue) \/ s = t
         /\ Append(queue, t) # << >>
         /\ queue # << >> => Append(queue, t)[1] = queue[1]
         /\ queue = << >> => Append(queue, t)[1] = t
<1> DEFINE longer == Append(queue, t)
<1>1. /\ longer \in Seq(Task) /\ longer # << >> /\ Len(longer) = Len(queue) + 1
      /\ \A i \in 1 .. Len(queue) : longer[i] = queue[i]
      /\ longer[Len(queue) + 1] = t
      /\ DOMAIN queue = 1 .. Len(queue) /\ Len(queue) \in Nat
      /\ DOMAIN longer = 1 .. Len(queue) + 1
  BY AppendProperties
<1>2. queue # << >> => Len(queue) # 0
  OBVIOUS
<1>3. queue = << >> => Len(queue) = 0
  OBVIOUS
<1> HIDE DEF longer
<1>4. Distinct(longer)
  BY <1>1 DEF Distinct, InQueue
<1>5. ASSUME NEW s
      PROVE  InQueue(s, longer) <=> InQueue(s, queue) \/ s = t
  BY <1>1 DEF InQueue
<1>6. QED
  BY <1>1, <1>2, <1>3, <1>4, <1>5 DEF longer

-----------------------------------------------------------------------------
(* The steps.                                                               *)

\* The first states satisfy the invariant.
LEMMA InitHolds == Init => IInv
<1> SUFFICES ASSUME Init PROVE IInv
  OBVIOUS
<1>1. TypeOK
  BY EmptySeq DEF Init, TypeOK, Queued, InQueue
<1>2. HeadRuns /\ QueuesFit
  BY DEF Init, HeadRuns, QueuesFit, Distinct
<1>3. CallsFit /\ ExpiredOnly
  BY DEF Init, CallsFit, Queued, InQueue, ExpiredOnly, AtWork
<1>4. QED
  BY <1>1, <1>2, <1>3 DEF IInv

(* _runOne, after a step has made queue of the queue and ran of the running  *)
(* tasks: the one that runs is the first, and whoever stopped was released   *)
(* by its max timer or is done.                                              *)
LEMMA RunOneStep ==
  ASSUME IInv, NEW k \in Token, NEW queue \in Seq(Task), NEW ran \in SUBSET Task,
         RunOne(k, queue, ran), args' = args, finished' \in SUBSET Task,
         Distinct(queue),
         \A s \in Task : InQueue(s, queue) => args[s].token = k,
         \A s \in Task : args[s].token # k => (s \in ran <=> s \in running),
         \A s \in ran : args[s].token = k =>
           queue # << >> /\ s = queue[1] /\ called[s] = "lock",
         \A s \in Task : InQueue(s, queue) /\ s \notin ran => called[s] = "no",
         \A s \in Task : called[s] = "lock" /\ s \notin finished' /\ s \notin ran
           => args[s].max
  PROVE  /\ IInv'
         /\ \A s \in Task : args[s].token = k =>
              (s \in running' <=> queue # << >> /\ s = queue[1])
         /\ \A s \in Task : called'[s] = IF s \in running' \ ran THEN "lock" ELSE called[s]
<1> DEFINE starts == IF queue = << >> \/ \E i \in DOMAIN queue : queue[i] \in ran
                     THEN {} ELSE {Head(queue)}
<1>1. /\ tasks' = [tasks EXCEPT ![k] = queue]
      /\ running' = ran \cup starts
      /\ called' = [t \in Task |-> IF t \in starts THEN "lock" ELSE called[t]]
  BY DEF RunOne
<1>2. /\ tasks \in [Token -> Seq(Task)] /\ called \in [Task -> {"no", "lock", "error"}]
      /\ args \in [Task -> [token: Token, wait: BOOLEAN, max: BOOLEAN]]
      /\ tasks'[k] = queue /\ \A m \in Token \ {k} : tasks'[m] = tasks[m]
      /\ tasks' \in [Token -> Seq(Task)]
  BY <1>1 DEF IInv, TypeOK
<1>3. queue # << >> => 1 \in DOMAIN queue /\ queue[1] \in Task /\ Head(queue) = queue[1]
  OBVIOUS
<1>4. \A s \in starts : queue # << >> /\ s = queue[1] /\ s \notin ran
                       /\ args[s].token = k
  BY <1>3 DEF InQueue
<1>5. ASSUME NEW s \in Task, args[s].token = k
      PROVE  s \in running' <=> queue # << >> /\ s = queue[1]
  <2>1. s \in running' => queue # << >> /\ s = queue[1]
    BY <1>1, <1>4, <1>5
  <2>2. ASSUME queue # << >>, s = queue[1]
        PROVE  s \in running'
    <3>1. CASE \E i \in DOMAIN queue : queue[i] \in ran
      <4>1. PICK i \in DOMAIN queue : queue[i] \in ran
        BY <3>1
      <4>2. args[queue[i]].token = k
        BY DEF InQueue
      <4>3. QED
        BY <1>1, <2>2, <4>1, <4>2
    <3>2. CASE \A i \in DOMAIN queue : queue[i] \notin ran
      BY <1>1, <1>3, <2>2, <3>2
    <3>3. QED
      BY <3>1, <3>2
  <2>3. QED
    BY <2>1, <2>2
<1>6. ASSUME NEW s \in Task, args[s].token # k
      PROVE  s \in running' <=> s \in running
  BY <1>1, <1>4, <1>6
<1>7. running' \ ran = starts /\ running' \in SUBSET Task
  BY <1>1, <1>3, <1>4
<1>8. \A s \in Task : called'[s] = IF s \in running' \ ran THEN "lock" ELSE called[s]
  BY <1>1, <1>7
<1>9. \A s \in Task : args[s].token # k => (Queued(s)' <=> Queued(s))
  BY <1>2 DEF Queued
<1>10. \A s \in Task : args[s].token = k => (Queued(s)' <=> InQueue(s, queue))
  BY <1>2 DEF Queued
<1> HIDE DEF starts
<1>11. TypeOK'
  <2>1. \A s \in running' : Queued(s)'
    <3> SUFFICES ASSUME NEW s \in running' PROVE Queued(s)'
      OBVIOUS
    <3>1. s \in Task
      BY <1>7
    <3>2. CASE args[s].token = k
      <4>1. queue # << >> /\ s = queue[1]
        BY <1>5, <3>1, <3>2
      <4>2. QED
        BY <1>3, <1>10, <3>1, <3>2, <4>1 DEF InQueue
    <3>3. CASE args[s].token # k
      BY <1>6, <1>9, <3>1, <3>3 DEF IInv, TypeOK
    <3>4. QED
      BY <3>2, <3>3
  <2>2. called' \in [Task -> {"no", "lock", "error"}]
    BY <1>1, <1>2
  <2>3. QED
    BY <1>2, <1>7, <2>1, <2>2 DEF TypeOK
<1>12. QueuesFit'
  <2> SUFFICES ASSUME NEW m \in Token
               PROVE  /\ Distinct(tasks'[m])
                      /\ \A i \in DOMAIN tasks'[m] : args[tasks'[m][i]].token = m
    BY DEF QueuesFit
  <2>1. CASE m = k
    BY <1>2, <2>1 DEF InQueue
  <2>2. CASE m # k
    BY <1>2, <2>2 DEF IInv, QueuesFit
  <2>3. QED
    BY <2>1, <2>2
<1>13. HeadRuns'
  <2> SUFFICES ASSUME NEW m \in Token, NEW i \in DOMAIN tasks'[m]
               PROVE  tasks'[m][i] \in running' <=> i = 1
    BY DEF HeadRuns
  <2>1. tasks'[m][i] \in Task /\ args[tasks'[m][i]].token = m
    BY <1>2, <1>12 DEF QueuesFit
  <2>2. CASE m = k
    <3>1. queue # << >> /\ i \in DOMAIN queue
      BY <1>2, <2>2
    <3>2. queue[i] = queue[1] <=> i = 1
      BY <1>3, <3>1 DEF Distinct
    <3>3. QED
      BY <1>2, <1>5, <2>1, <2>2, <3>1, <3>2
  <2>3. CASE m # k
    <3>1. tasks[m][i] \in running <=> i = 1
      BY <1>2, <2>3 DEF IInv, HeadRuns
    <3>2. QED
      BY <1>2, <1>6, <2>1, <2>3, <3>1
  <2>4. QED
    BY <2>2, <2>3
<1>14. CallsFit'
  <2> SUFFICES ASSUME NEW s \in Task
               PROVE  /\ s \in running' => called'[s] = "lock"
                      /\ Queued(s)' /\ s \notin running' => called'[s] = "no"
    BY DEF CallsFit
  <2>1. CASE args[s].token = k
    <3>1. s \in running' => called'[s] = "lock"
      BY <1>8, <2>1
    <3>2. s \notin running' => s \notin ran /\ called'[s] = called[s]
      BY <1>1, <1>8
    <3>3. QED
      BY <1>10, <2>1, <3>1, <3>2
  <2>2. CASE args[s].token # k
    <3>1. called'[s] = called[s]
      BY <1>6, <1>8, <2>2
    <3>2. QED
      BY <1>6, <1>9, <2>2, <3>1 DEF IInv, CallsFit
  <2>3. QED
    BY <2>1, <2>2
<1>15. ExpiredOnly'
  <2> SUFFICES ASSUME NEW s \in Task, called'[s] = "lock", s \notin finished',
                      s \notin running'
               PROVE  args[s].max
    BY DEF ExpiredOnly, AtWork
  <2>1. s \notin ran /\ called[s] = "lock"
    BY <1>1, <1>8
  <2>2. QED
    BY <2>1
<1>16. QED
  BY <1>5, <1>8, <1>11, <1>12, <1>13, <1>14, <1>15 DEF IInv

(* _release of the task that runs, by its body or its max timer.             *)
LEMMA ReleaseStep ==
  ASSUME IInv, NEW t \in running, ReleaseTask(t), args' = args,
         finished' \in SUBSET Task, finished \subseteq finished',
         args[t].max \/ t \in finished',
         NEW k, k = args[t].token, NEW queue, queue = Without(tasks[k], t)
  PROVE  /\ IInv'
         /\ queue \in Seq(Task)
         /\ \A s \in Task : InQueue(s, queue) <=> InQueue(s, tasks[k]) /\ s # t
         /\ \A s \in Task : args[s].token = k =>
              (s \in running' <=> queue # << >> /\ s = queue[1])
         /\ \A s \in Task : args[s].token # k => (s \in running' <=> s \in running)
         /\ tasks' = [tasks EXCEPT ![k] = queue]
         /\ \A s \in Task : called'[s] = IF s \in running' \ running THEN "lock" ELSE called[s]
<1>1. /\ t \in Task /\ k \in Token /\ tasks[k] \in Seq(Task) /\ Distinct(tasks[k])
      /\ InQueue(t, tasks[k]) /\ called[t] = "lock"
  BY DEF IInv, TypeOK, Queued, QueuesFit, CallsFit
<1>2. /\ queue \in Seq(Task) /\ Distinct(queue)
      /\ \A s : InQueue(s, queue) <=> InQueue(s, tasks[k]) /\ s # t
  BY <1>1, WithoutFits
<1>3. tasks[k][1] = t
  BY <1>1 DEF IInv, HeadRuns, InQueue
<1> DEFINE ran == running \ {t}
<1>4. RunOne(k, queue, ran)
  BY DEF ReleaseTask
<1>5. \A s \in Task : InQueue(s, queue) => args[s].token = k
  BY <1>1, <1>2 DEF IInv, QueuesFit, InQueue
<1>6. \A s \in Task : args[s].token = k => s \notin ran
  <2> SUFFICES ASSUME NEW s \in Task, args[s].token = k, s \in running
               PROVE  s = t
    OBVIOUS
  <2>1. PICK i \in DOMAIN tasks[k] : tasks[k][i] = s
    BY DEF IInv, TypeOK, Queued, InQueue
  <2>2. i = 1
    BY <1>1, <2>1 DEF IInv, HeadRuns
  <2>3. QED
    BY <1>3, <2>1, <2>2
<1>7. \A s \in Task : InQueue(s, queue) /\ s \notin ran => called[s] = "no"
  BY <1>1, <1>2, <1>5 DEF IInv, CallsFit, Queued
<1>8. \A s \in Task : called[s] = "lock" /\ s \notin finished' /\ s \notin ran => args[s].max
  BY DEF IInv, ExpiredOnly, AtWork
<1>9. /\ ran \in SUBSET Task
      /\ \A s \in Task : args[s].token # k => (s \in ran <=> s \in running)
  BY DEF IInv, TypeOK
<1> HIDE DEF ran
<1>10. /\ IInv'
       /\ \A s \in Task : args[s].token = k =>
            (s \in running' <=> queue # << >> /\ s = queue[1])
       /\ \A s \in Task : called'[s] = IF s \in running' \ ran THEN "lock" ELSE called[s]
  BY <1>1, <1>2, <1>4, <1>5, <1>6, <1>7, <1>8, <1>9, RunOneStep
<1>11. \A s \in Task : args[s].token # k => (s \in running' <=> s \in running)
  <2>1. \A s \in running' : s \in ran \/ (queue # << >> /\ s = queue[1])
    BY <1>2, <1>4 DEF RunOne
  <2>2. queue # << >> => queue[1] \in Task /\ InQueue(queue[1], queue)
    BY <1>2 DEF InQueue
  <2>3. ran \subseteq running'
    BY <1>4 DEF RunOne
  <2>4. QED
    BY <1>5, <1>9, <2>1, <2>2, <2>3
<1>12. tasks' = [tasks EXCEPT ![k] = queue]
  BY <1>4 DEF RunOne
<1>13. \A s \in Task : called'[s] = IF s \in running' \ running THEN "lock" ELSE called[s]
  BY <1>1, <1>10 DEF ran
<1>14. QED
  BY <1>2, <1>10, <1>11, <1>12, <1>13

\* A request that is queued, or runs at once (locked).
LEMMA LockedStep ==
  ASSUME IInv, NEW t \in Task, Locked(t), NEW k, k = args[t].token
  PROVE  /\ IInv'
         /\ called[t] = "no" /\ ~InQueue(t, tasks[k])
         /\ tasks' = [tasks EXCEPT ![k] = Append(tasks[k], t)]
         /\ \A s \in Task : InQueue(s, Append(tasks[k], t)) <=> InQueue(s, tasks[k]) \/ s = t
         /\ tasks[k] = << >> => running' = running \cup {t}
         /\ tasks[k] # << >> => running' = running
         /\ \A s \in Task : called'[s] = IF s \in running' \ running THEN "lock" ELSE called[s]
<1> DEFINE queue == Append(tasks[k], t)
<1>1. /\ k \in Token /\ tasks[k] \in Seq(Task) /\ Distinct(tasks[k])
      /\ ~InQueue(t, tasks[k]) /\ called[t] = "no"
  BY DEF IInv, TypeOK, Queued, QueuesFit, Locked
<1>2. /\ queue \in Seq(Task) /\ Distinct(queue) /\ queue # << >>
      /\ \A s : InQueue(s, queue) <=> InQueue(s, tasks[k]) \/ s = t
      /\ queue[1] = IF tasks[k] = << >> THEN t ELSE tasks[k][1]
  BY <1>1, AppendFits
<1>3. RunOne(k, queue, running) /\ args' = args /\ finished' = finished
  BY DEF Locked
<1>4. \A s \in Task : InQueue(s, queue) => args[s].token = k
  BY <1>1, <1>2 DEF IInv, QueuesFit, InQueue
<1>5. \A s \in Task : s \in running /\ args[s].token = k
        => tasks[k] # << >> /\ s = tasks[k][1] /\ called[s] = "lock"
  <2> SUFFICES ASSUME NEW s \in Task, args[s].token = k, s \in running
               PROVE  tasks[k] # << >> /\ s = tasks[k][1] /\ called[s] = "lock"
    OBVIOUS
  <2>1. PICK i \in DOMAIN tasks[k] : tasks[k][i] = s
    BY DEF IInv, TypeOK, Queued, InQueue
  <2>2. i = 1
    BY <1>1, <2>1 DEF IInv, HeadRuns
  <2>3. QED
    BY <1>1, <2>1, <2>2 DEF IInv, CallsFit
<1>6. \A s \in Task : InQueue(s, queue) /\ s \notin running => called[s] = "no"
  BY <1>1, <1>2, <1>4 DEF IInv, CallsFit, Queued
<1>7. \A s \in Task : called[s] = "lock" /\ s \notin finished' /\ s \notin running
        => args[s].max
  BY <1>3 DEF IInv, ExpiredOnly, AtWork
<1>8. running \in SUBSET Task /\ finished' \in SUBSET Task
  BY <1>3 DEF IInv, TypeOK
<1> HIDE DEF queue
<1>9. /\ IInv'
      /\ \A s \in Task : called'[s] = IF s \in running' \ running THEN "lock" ELSE called[s]
  BY <1>1, <1>2, <1>3, <1>4, <1>5, <1>6, <1>7, <1>8, RunOneStep
<1>10. Head(queue) = queue[1]
  BY <1>2
<1>11. ASSUME tasks[k] = << >>
       PROVE  running' = running \cup {t}
  <2>1. \A i \in DOMAIN queue : queue[i] \notin running
    <3> SUFFICES ASSUME NEW i \in DOMAIN queue, queue[i] \in running
                 PROVE  FALSE
      OBVIOUS
    <3>1. queue[i] \in Task /\ InQueue(queue[i], queue)
      BY <1>2 DEF InQueue
    <3>2. QED
      BY <1>4, <1>5, <1>11, <3>1
  <2>2. QED
    BY <1>2, <1>3, <1>10, <1>11, <2>1 DEF RunOne
<1>12. ASSUME tasks[k] # << >>
       PROVE  running' = running
  <2>1. 1 \in DOMAIN tasks[k] /\ 1 \in DOMAIN queue /\ queue[1] = tasks[k][1]
    BY <1>1, <1>2, <1>12
  <2>2. tasks[k][1] \in running
    BY <1>1, <2>1 DEF IInv, HeadRuns
  <2>3. QED
    BY <1>2, <1>3, <2>1, <2>2 DEF RunOne
<1>13. QED
  BY <1>1, <1>2, <1>3, <1>9, <1>11, <1>12, Zenon DEF RunOne, queue

\* A waiting request that is told so and leaves the queue.
LEMMA WaitTimeoutStep ==
  ASSUME IInv, NEW t \in Task, WaitTimeout(t)
  PROVE  IInv'
<1> DEFINE k == args[t].token
           queue == Without(tasks[k], t)
<1>1. /\ k \in Token /\ tasks[k] \in Seq(Task) /\ Distinct(tasks[k])
      /\ InQueue(t, tasks[k]) /\ t \notin running
  BY DEF IInv, TypeOK, Queued, QueuesFit, WaitTimeout
<1>2. /\ tasks' = [tasks EXCEPT ![k] = queue] /\ called' = [called EXCEPT ![t] = "error"]
      /\ args' = args /\ running' = running /\ finished' = finished
  BY DEF WaitTimeout
<1>3. tasks[k] # << >> /\ tasks[k][1] # t
  BY <1>1 DEF IInv, HeadRuns, InQueue
<1>4. /\ queue \in Seq(Task) /\ Distinct(queue)
      /\ \A s : InQueue(s, queue) <=> InQueue(s, tasks[k]) /\ s # t
      /\ queue # << >> /\ queue[1] = tasks[k][1]
  BY <1>1, <1>3, WithoutFits
<1>5. /\ tasks' \in [Token -> Seq(Task)] /\ tasks'[k] = queue
      /\ \A m \in Token \ {k} : tasks'[m] = tasks[m]
  BY <1>1, <1>2, <1>4 DEF IInv, TypeOK
<1>6. \A s \in Task : Queued(s)' <=> Queued(s) /\ s # t
  BY <1>1, <1>2, <1>4, <1>5 DEF IInv, TypeOK, Queued
<1>7. TypeOK'
  BY <1>1, <1>2, <1>5, <1>6 DEF IInv, TypeOK
<1>8. QueuesFit'
  <2> SUFFICES ASSUME NEW m \in Token
               PROVE  /\ Distinct(tasks'[m])
                      /\ \A i \in DOMAIN tasks'[m] : args[tasks'[m][i]].token = m
    BY <1>2 DEF QueuesFit
  <2>1. CASE m = k
    <3>1. \A s : InQueue(s, tasks[k]) => args[s].token = k
      BY <1>1 DEF IInv, QueuesFit, InQueue
    <3>2. \A i \in DOMAIN queue : InQueue(queue[i], queue)
      BY DEF InQueue
    <3> HIDE DEF queue
    <3>3. QED
      BY <1>4, <1>5, <2>1, <3>1, <3>2
  <2>2. CASE m # k
    BY <1>5, <2>2 DEF IInv, QueuesFit
  <2>3. QED
    BY <2>1, <2>2
<1>9. HeadRuns'
  <2> SUFFICES ASSUME NEW m \in Token, NEW i \in DOMAIN tasks'[m]
               PROVE  tasks'[m][i] \in running <=> i = 1
    BY <1>2 DEF HeadRuns
  <2>1. CASE m = k
    <3>1. PICK j \in DOMAIN tasks[k] : tasks[k][j] = queue[i]
      BY <1>4, <1>5, <2>1 DEF InQueue
    <3>2. queue[i] \in running <=> j = 1
      BY <1>1, <3>1 DEF IInv, HeadRuns
    <3>3. queue[i] = queue[1] <=> i = 1
      BY <1>4, <1>5, <2>1 DEF Distinct
    <3>4. queue[i] = tasks[k][1] <=> j = 1
      BY <1>1, <1>3, <3>1 DEF Distinct
    <3>5. QED
      BY <1>4, <1>5, <2>1, <3>2, <3>3, <3>4
  <2>2. CASE m # k
    BY <1>5, <2>2 DEF IInv, HeadRuns
  <2>3. QED
    BY <2>1, <2>2
<1>10. CallsFit' /\ ExpiredOnly'
  BY <1>1, <1>2, <1>6 DEF IInv, TypeOK, CallsFit, ExpiredOnly, AtWork
<1>11. QED
  BY <1>7, <1>8, <1>9, <1>10 DEF IInv

\* A callback that throws, or that releases what it no longer holds.
LEMMA BodyStep ==
  ASSUME IInv, NEW t \in Task, BodyThrows(t) \/ (BodyReleases(t) /\ t \notin running)
  PROVE  IInv' /\ UNCHANGED <<args, tasks, running, called>>
<1>1. UNCHANGED <<args, tasks, running, called>> /\ finished' = finished \cup {t}
  BY DEF BodyThrows, BodyReleases, ReleaseTask
<1>2. QED
  BY <1>1 DEF IInv, TypeOK, Queued, HeadRuns, QueuesFit, CallsFit, ExpiredOnly, AtWork

(* MaxTimeout, and BodyReleases of the task that runs.                       *)
LEMMA GivesUp ==
  ASSUME IInv, NEW t \in Task, t \in running, MaxTimeout(t) \/ BodyReleases(t)
  PROVE  /\ ReleaseTask(t) /\ args' = args
         /\ finished' \in SUBSET Task /\ finished \subseteq finished'
         /\ args[t].max \/ t \in finished'
BY DEF IInv, TypeOK, MaxTimeout, BodyReleases

\* Every step preserves the invariant.
LEMMA NextHolds == IInv /\ [Next]_vars => IInv'
<1> SUFFICES ASSUME IInv, [Next]_vars PROVE IInv'
  OBVIOUS
<1>1. CASE UNCHANGED vars
  BY <1>1 DEF vars, IInv, TypeOK, Queued, HeadRuns, QueuesFit, CallsFit, ExpiredOnly, AtWork
<1>2. ASSUME NEW t \in Task, Locked(t)
      PROVE  IInv'
  BY <1>2, LockedStep
<1>3. ASSUME NEW t \in Task, WaitTimeout(t)
      PROVE  IInv'
  BY <1>3, WaitTimeoutStep
<1>4. ASSUME NEW t \in Task, t \in running, MaxTimeout(t) \/ BodyReleases(t)
      PROVE  IInv'
  BY <1>4, GivesUp, ReleaseStep
<1>5. ASSUME NEW t \in Task, BodyThrows(t) \/ (BodyReleases(t) /\ t \notin running)
      PROVE  IInv'
  BY <1>5, BodyStep
<1>6. QED
  BY <1>1, <1>2, <1>3, <1>4, <1>5 DEF Next, MaxTimeout

\* The inductive invariant, of every behaviour of lib/locallock.js.
THEOREM Invariance == Spec => []IInv
<1>1. QED
  BY InitHolds, NextHolds, PTL DEF Spec

\* The types of the queues, the running tasks and the answers.
THEOREM TypeCorrect == Spec => []TypeOK
<1>1. IInv => TypeOK
  BY DEF IInv
<1>2. QED
  BY <1>1, Invariance, PTL

\* On every token the task that came first runs, and no other.
THEOREM FirstRuns == Spec => []HeadRuns
<1>1. IInv => HeadRuns
  BY DEF IInv
<1>2. QED
  BY <1>1, Invariance, PTL

\* Of two bodies at work on one token, one was released by its max timer.
THEOREM OverlapNeedsExpiry == Spec => []OverlapOnlyExpired
<1>1. ASSUME IInv
      PROVE  OverlapOnlyExpired
  <2> SUFFICES ASSUME NEW s \in Task, NEW t \in Task,
                      s # t, args[s].token = args[t].token, AtWork(s), AtWork(t)
               PROVE  (s \notin running /\ args[s].max) \/ (t \notin running /\ args[t].max)
    BY DEF OverlapOnlyExpired
  <2>1. ~(s \in running /\ t \in running)
    <3> SUFFICES ASSUME s \in running, t \in running PROVE FALSE
      OBVIOUS
    <3> DEFINE k == args[s].token
    <3>1. k \in Token /\ tasks[k] \in Seq(Task)
      BY <1>1 DEF IInv, TypeOK
    <3>2. PICK i \in DOMAIN tasks[k] : tasks[k][i] = s
      BY <1>1 DEF IInv, TypeOK, Queued, InQueue
    <3>3. PICK j \in DOMAIN tasks[k] : tasks[k][j] = t
      BY <1>1 DEF IInv, TypeOK, Queued, InQueue
    <3>4. i = 1 /\ j = 1
      BY <1>1, <3>1, <3>2, <3>3 DEF IInv, HeadRuns
    <3>5. QED
      BY <3>2, <3>3, <3>4
  <2>2. QED
    BY <1>1, <2>1 DEF IInv, ExpiredOnly
<1>2. QED
  BY <1>1, Invariance, PTL

\* No call is answered twice, or in two ways: neither a late wait timer nor a
\* _runOne takes back or repeats what the caller was told.
THEOREM AnswersStand == Spec => AnsweredOnce
<1>1. ASSUME IInv, [Next]_vars, NEW t \in Task, called[t] # "no"
      PROVE  called'[t] = called[t]
  <2>1. CASE UNCHANGED vars
    BY <2>1 DEF vars
  <2>2. ASSUME NEW s \in Task, Locked(s)
        PROVE  called'[t] = called[t]
    <3> DEFINE k == args[s].token
    <3>1. /\ called'[t] = IF t \in running' \ running THEN "lock" ELSE called[t]
          /\ running' \subseteq running \cup {s} /\ called[s] = "no"
      BY <1>1, <2>2, LockedStep
    <3>2. QED
      BY <1>1, <3>1
  <2>3. ASSUME NEW s \in Task, WaitTimeout(s)
        PROVE  called'[t] = called[t]
    <3>1. called[s] = "no" /\ called' = [called EXCEPT ![s] = "error"]
      BY <1>1, <2>3 DEF WaitTimeout, IInv, CallsFit
    <3>2. QED
      BY <1>1, <3>1 DEF IInv, TypeOK
  <2>4. ASSUME NEW s \in Task, s \in running, MaxTimeout(s) \/ BodyReleases(s)
        PROVE  called'[t] = called[t]
    <3> DEFINE k == args[s].token
               queue == Without(tasks[k], s)
    <3>1. /\ queue \in Seq(Task)
          /\ \A u \in Task : InQueue(u, queue) <=> InQueue(u, tasks[k]) /\ u # s
          /\ \A u \in Task : args[u].token = k =>
               (u \in running' <=> queue # << >> /\ u = queue[1])
          /\ \A u \in Task : args[u].token # k => (u \in running' <=> u \in running)
          /\ \A u \in Task : called'[u] = IF u \in running' \ running THEN "lock" ELSE called[u]
      BY <1>1, <2>4, GivesUp, ReleaseStep
    <3> HIDE DEF queue
    <3>2. t \in running' \ running => called[t] = "no"
      <4> SUFFICES ASSUME t \in running', t \notin running PROVE called[t] = "no"
        OBVIOUS
      <4>1. args[t].token = k /\ queue # << >> /\ t = queue[1]
        BY <3>1
      <4>2. InQueue(t, tasks[k])
        BY <3>1, <4>1 DEF InQueue
      <4>3. QED
        BY <1>1, <4>1, <4>2 DEF IInv, CallsFit, Queued
    <3>3. QED
      BY <1>1, <3>1, <3>2
  <2>5. ASSUME NEW s \in Task, BodyThrows(s) \/ (BodyReleases(s) /\ s \notin running)
        PROVE  called'[t] = called[t]
    BY <1>1, <2>5, BodyStep
  <2>6. QED
    BY <1>1, <2>1, <2>2, <2>3, <2>4, <2>5 DEF Next, MaxTimeout
<1>2. IInv /\ [Next]_vars => [\A t \in Task : called[t] # "no" => called'[t] = called[t]]_vars
  BY <1>1
<1>3. QED
  BY <1>2, Invariance, PTL DEF Spec, AnsweredOnce

-----------------------------------------------------------------------------
(* The lock implements a lease on every token.                              *)

\* The lease of a token looks only at the tasks of that token.
LEMMA StateStays ==
  ASSUME NEW k, args' = args,
         \A s \in Task : args[s].token = k =>
           /\ called'[s] = called[s]
           /\ s \in running' <=> s \in running
           /\ Queued(s)' <=> Queued(s)
  PROVE  LeaseState(k)' = LeaseState(k)
BY DEF LeaseState

\* The lease of a token in terms of its queue and of who runs.
LEMMA StateOf ==
  ASSUME IInv, NEW k \in Token
  PROVE  /\ LeaseState(k) \in [Task -> {"new", "waits", "refused", "holds", "over"}]
         /\ L(k)!In("holds") = {} <=> tasks[k] = << >>
         /\ \A s \in Task : s \in L(k)!In("holds") <=> args[s].token = k /\ s \in running
         /\ \A s \in Task : s \in L(k)!In("waits") <=>
              InQueue(s, tasks[k]) /\ args[s].token = k /\ s \notin running
<1>1. LeaseState(k) \in [Task -> {"new", "waits", "refused", "holds", "over"}]
  BY DEF LeaseState
<1>2. \A s \in Task : s \in L(k)!In("holds") <=> args[s].token = k /\ s \in running
  BY DEF L!In, LeaseState, IInv, CallsFit
<1>3. \A s \in Task : s \in L(k)!In("waits") <=>
        InQueue(s, tasks[k]) /\ args[s].token = k /\ s \notin running
  BY DEF L!In, LeaseState, IInv, CallsFit, Queued
<1>4. ASSUME tasks[k] # << >>
      PROVE  L(k)!In("holds") # {}
  <2>1. tasks[k] \in Seq(Task) /\ 1 \in DOMAIN tasks[k]
    BY <1>4 DEF IInv, TypeOK
  <2>2. tasks[k][1] \in Task /\ tasks[k][1] \in running /\ args[tasks[k][1]].token = k
    BY <2>1 DEF IInv, HeadRuns, QueuesFit
  <2>3. QED
    BY <1>2, <2>2
<1>5. ASSUME tasks[k] = << >>
      PROVE  L(k)!In("holds") = {}
  <2>1. L(k)!In("holds") \subseteq Task
    BY DEF L!In
  <2>2. \A s \in Task : ~(args[s].token = k /\ s \in running)
    BY <1>5 DEF IInv, TypeOK, Queued, InQueue
  <2>3. QED
    BY <1>2, <2>1, <2>2
<1>6. QED
  BY <1>1, <1>2, <1>3, <1>4, <1>5

\* Asking for a lock is asking for the lease, and taking it if nobody has it.
LEMMA AskStep ==
  ASSUME IInv, NEW t \in Task, Locked(t), NEW k \in Token
  PROVE  [L(k)!LeaseNext]_(LeaseState(k))
<1> DEFINE m == args[t].token
<1>1. /\ called[t] = "no" /\ ~InQueue(t, tasks[m])
      /\ tasks' = [tasks EXCEPT ![m] = Append(tasks[m], t)]
      /\ \A s \in Task : InQueue(s, Append(tasks[m], t)) <=> InQueue(s, tasks[m]) \/ s = t
      /\ tasks[m] = << >> => running' = running \cup {t}
      /\ tasks[m] # << >> => running' = running
      /\ \A s \in Task : called'[s] = IF s \in running' \ running THEN "lock" ELSE called[s]
      /\ args' = args
  BY LockedStep DEF Locked
<1>2. t \notin running
  BY <1>1 DEF IInv, CallsFit
<1>3. \A s \in Task \ {t} : /\ called'[s] = called[s]
                            /\ s \in running' <=> s \in running
                            /\ Queued(s)' <=> Queued(s)
  BY <1>1 DEF Queued, IInv, TypeOK
<1>4. CASE m # k
  <2>1. LeaseState(k)' = LeaseState(k)
    BY <1>1, <1>3, <1>4, StateStays
  <2>2. QED
    BY <2>1
<1>5. CASE m = k
  <2> DEFINE to == IF L(k)!In("holds") = {} THEN "holds" ELSE "waits"
  <2>1. LeaseState(k)[t] = "new"
    BY <1>1, <1>2, <1>5 DEF LeaseState, Queued
  <2>2. Queued(t)'
    BY <1>1 DEF Queued, IInv, TypeOK
  <2>3. t \in running' <=> L(k)!In("holds") = {}
    BY <1>1, <1>2, <1>5, StateOf
  <2>4. LeaseState(k)'[t] = to
    BY <1>1, <1>2, <1>5, <2>2, <2>3 DEF LeaseState
  <2>5. \A s \in Task \ {t} : LeaseState(k)'[s] = LeaseState(k)[s]
    BY <1>1, <1>3 DEF LeaseState
  <2>6. LeaseState(k)' = [LeaseState(k) EXCEPT ![t] = to]
    <3>1. LeaseState(k)' \in [Task -> {LeaseState(k)'[s] : s \in Task}]
      BY DEF LeaseState
    <3>2. QED
      BY <2>4, <2>5, <3>1, StateOf
  <2>7. QED
    BY <2>1, <2>6 DEF L!LeaseNext, L!Ask
<1>6. QED
  BY <1>4, <1>5

\* A time-out while waiting is a refusal.
LEMMA RefuseStep ==
  ASSUME IInv, NEW t \in Task, WaitTimeout(t), NEW k \in Token
  PROVE  [L(k)!LeaseNext]_(LeaseState(k))
<1> DEFINE m == args[t].token
           queue == Without(tasks[m], t)
<1>1. /\ m \in Token /\ tasks[m] \in Seq(Task) /\ Distinct(tasks[m])
      /\ InQueue(t, tasks[m]) /\ t \notin running /\ called[t] = "no"
  BY DEF IInv, TypeOK, Queued, QueuesFit, CallsFit, WaitTimeout
<1>2. /\ tasks' = [tasks EXCEPT ![m] = queue] /\ called' = [called EXCEPT ![t] = "error"]
      /\ args' = args /\ running' = running
  BY DEF WaitTimeout
<1>3. \A s \in Task : InQueue(s, queue) <=> InQueue(s, tasks[m]) /\ s # t
  BY <1>1, WithoutFits
<1>4. \A s \in Task \ {t} : /\ called'[s] = called[s]
                            /\ Queued(s)' <=> Queued(s)
  BY <1>1, <1>2, <1>3 DEF IInv, TypeOK, Queued
<1>5. CASE m # k
  <2>1. LeaseState(k)' = LeaseState(k)
    BY <1>2, <1>4, <1>5, StateStays
  <2>2. QED
    BY <2>1
<1>6. CASE m = k
  <2>1. LeaseState(k)[t] = "waits"
    BY <1>1, <1>6 DEF LeaseState, Queued
  <2>2. LeaseState(k)'[t] = "refused"
    BY <1>2, <1>6 DEF LeaseState, IInv, TypeOK
  <2>3. \A s \in Task \ {t} : LeaseState(k)'[s] = LeaseState(k)[s]
    BY <1>2, <1>4 DEF LeaseState
  <2>4. LeaseState(k)' = [LeaseState(k) EXCEPT ![t] = "refused"]
    <3>1. LeaseState(k)' \in [Task -> {LeaseState(k)'[s] : s \in Task}]
      BY DEF LeaseState
    <3>2. QED
      BY <2>2, <2>3, <3>1, StateOf
  <2>5. QED
    BY <2>1, <2>4 DEF L!LeaseNext, L!Refuse
<1>7. QED
  BY <1>5, <1>6

\* Whoever runs hands the lease over, by releasing it or by letting it expire.
LEMMA GiveUpStep ==
  ASSUME IInv, NEW t \in Task, t \in running, MaxTimeout(t) \/ BodyReleases(t),
         NEW k \in Token
  PROVE  [L(k)!LeaseNext]_(LeaseState(k))
<1> DEFINE m == args[t].token
           queue == Without(tasks[m], t)
<1>1. /\ queue \in Seq(Task)
      /\ \A s \in Task : InQueue(s, queue) <=> InQueue(s, tasks[m]) /\ s # t
      /\ \A s \in Task : args[s].token = m =>
           (s \in running' <=> queue # << >> /\ s = queue[1])
      /\ \A s \in Task : args[s].token # m => (s \in running' <=> s \in running)
      /\ tasks' = [tasks EXCEPT ![m] = queue]
      /\ \A s \in Task : called'[s] = IF s \in running' \ running THEN "lock" ELSE called[s]
      /\ args' = args
  BY GivesUp, ReleaseStep
<1>2. /\ m \in Token /\ tasks[m] \in Seq(Task) /\ InQueue(t, tasks[m]) /\ called[t] = "lock"
      /\ tasks'[m] = queue /\ \A n \in Token \ {m} : tasks'[n] = tasks[n]
  BY <1>1 DEF IInv, TypeOK, Queued, CallsFit
<1> HIDE DEF queue
<1>3. CASE m # k
  <2>1. \A s \in Task : args[s].token = k => (Queued(s)' <=> Queued(s))
    BY <1>1, <1>2, <1>3 DEF Queued
  <2>2. LeaseState(k)' = LeaseState(k)
    BY <1>1, <1>3, <2>1, StateStays
  <2>3. QED
    BY <2>2
<1>4. CASE m = k
  <2>1. LeaseState(k)[t] = "holds"
    BY <1>2, <1>4 DEF LeaseState
  <2>2. \A s \in Task : s \in running /\ args[s].token = k => s = t
    <3> SUFFICES ASSUME NEW s \in Task, s \in running, args[s].token = k
                 PROVE  s = t
      OBVIOUS
    <3>1. PICK i \in DOMAIN tasks[k] : tasks[k][i] = s
      BY DEF IInv, TypeOK, Queued, InQueue
    <3>2. PICK j \in DOMAIN tasks[k] : tasks[k][j] = t
      BY <1>4 DEF IInv, TypeOK, Queued, InQueue
    <3>3. i = 1 /\ j = 1
      BY <3>1, <3>2 DEF IInv, HeadRuns
    <3>4. QED
      BY <3>1, <3>2, <3>3
  <2>3. t \notin running'
    BY <1>1, <1>2 DEF InQueue
  <2>4. \A s \in Task : InQueue(s, queue) => args[s].token = k /\ s \notin running /\ s # t
    BY <1>1, <1>2, <1>4, <2>2 DEF IInv, QueuesFit, InQueue
  <2>5. L(k)!In("waits") = {s \in Task : InQueue(s, queue)}
    <3>1. L(k)!In("waits") \subseteq Task
      BY DEF L!In
    <3>2. QED
      BY <1>1, <1>4, <2>4, <3>1, StateOf
  <2>6. \A s \in Task : args[s].token = k => (Queued(s)' <=> InQueue(s, queue))
    BY <1>1, <1>2, <1>4 DEF Queued
  <2>7. \A s \in Task : s # t /\ s \notin running' => LeaseState(k)'[s] = LeaseState(k)[s]
    BY <1>1, <1>2, <1>4, <2>2, <2>6 DEF LeaseState, Queued
  <2>8. LeaseState(k)'[t] = "over"
    BY <1>1, <1>2, <1>4, <2>3 DEF LeaseState
  <2>9. LeaseState(k)' \in [Task -> {LeaseState(k)'[s] : s \in Task}]
    BY DEF LeaseState
  <2>10. CASE queue = << >>
    <3>1. L(k)!In("waits") = {}
      BY <2>5, <2>10 DEF InQueue
    <3>2. \A s \in Task : args[s].token = k => s \notin running'
      BY <1>1, <1>4, <2>10
    <3>3. \A s \in Task : s # t => LeaseState(k)'[s] = LeaseState(k)[s]
      BY <1>1, <2>7, <3>2 DEF LeaseState
    <3>4. LeaseState(k)' = [LeaseState(k) EXCEPT ![t] = "over"]
      BY <2>8, <2>9, <3>3, StateOf
    <3>5. QED
      BY <2>1, <3>1, <3>4 DEF L!LeaseNext, L!GiveUp
  <2>11. CASE queue # << >>
    <3> DEFINE next == queue[1]
    <3>1. next \in Task /\ InQueue(next, queue)
      BY <1>1, <2>11 DEF InQueue
    <3>2. next \in L(k)!In("waits") /\ next # t
      BY <2>4, <2>5, <3>1
    <3>3. next \in running' /\ called'[next] = "lock" /\ args[next].token = k
      BY <1>1, <1>4, <2>4, <2>11, <3>1
    <3>4. LeaseState(k)'[next] = "holds"
      BY <1>1, <3>1, <3>3 DEF LeaseState
    <3>5. \A s \in Task : s # t /\ s # next => LeaseState(k)'[s] = LeaseState(k)[s]
      BY <1>1, <1>4, <2>7 DEF LeaseState
    <3>6. LeaseState(k)' = [LeaseState(k) EXCEPT ![t] = "over", ![next] = "holds"]
      BY <2>8, <2>9, <3>1, <3>2, <3>4, <3>5, StateOf
    <3>7. QED
      BY <2>1, <3>2, <3>6 DEF L!LeaseNext, L!GiveUp
  <2>12. QED
    BY <2>10, <2>11
<1>5. QED
  BY <1>3, <1>4

\* On every token the lock is a lease: each step of the lock is a step of the
\* lease or leaves it as it is, whatever bodies and timers do.
THEOREM ImplementsLease == Spec => IsLease
<1>1. Init => \A k \in Token : L(k)!LeaseInit
  BY DEF Init, L!LeaseInit, LeaseState, Queued, InQueue
<1>2. IInv /\ [Next]_vars => [\A k \in Token : [L(k)!LeaseNext]_(LeaseState(k))]_vars
  <2> SUFFICES ASSUME IInv, Next, NEW k \in Token
               PROVE  [L(k)!LeaseNext]_(LeaseState(k))
    OBVIOUS
  <2>1. ASSUME NEW t \in Task, BodyThrows(t) \/ (BodyReleases(t) /\ t \notin running)
        PROVE  [L(k)!LeaseNext]_(LeaseState(k))
    <3>1. LeaseState(k)' = LeaseState(k)
      BY <2>1, BodyStep, StateStays DEF Queued
    <3>2. QED
      BY <3>1
  <2>2. QED
    BY <2>1, AskStep, RefuseStep, GiveUpStep DEF Next, MaxTimeout
<1>3. QED
  BY <1>1, <1>2, Invariance, PTL DEF Spec, IsLease

=============================================================================

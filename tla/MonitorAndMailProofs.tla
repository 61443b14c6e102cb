------------------------ MODULE MonitorAndMailProofs -------------------------
(***************************************************************************)
(* Proofs about MonitorAndMail: the types, and the safety properties of    *)
(* the email service, of the push service, of the feed and of the monitor, *)
(* each from an inductive invariant of its component (TLC checks these as  *)
(* invariants of MCMonitorAndMail, too).                                   *)
(*                                                                         *)
(*   Typed      the types, and what the jobs, the pushes and the requests  *)
(*              of a client are about (Invariance).                        *)
(*   FeedInv    what a client was given so far, and has still to be given. *)
(*   MailInv    who holds the lock of a notification, and what whoever     *)
(*              stores or sends may rely on while holding it.              *)
(*   MailedInv  as long as nothing failed, whoever is done leaves somebody *)
(*              who works, or the mails.                                   *)
(*   ThirdInv   how far a thread got that takes our transaction for one of *)
(*              somebody else, before and after we broadcast.              *)
(*   PushInv    what of a push is done, and what is still to do.           *)
(*   TellInv    what was told of payments and confirmations, and what is   *)
(*              still to be told.                                          *)
(*                                                                         *)
(* A component's steps leave what the others keep: a notification that was *)
(* sent stays (SentKept), and that is enough for their jobs.               *)
(***************************************************************************)
EXTENDS MonitorAndMail, DataLemmas, SequenceTheorems, FiniteSetTheorems

-----------------------------------------------------------------------------
(* The types.                                                               *)

\* Notifications are few, and all but those of a new block are of a wallet.
NotesFit ==
  /\ Len(sent) <= MaxSent
  /\ \A i \in DOMAIN sent : sent[i].type # "NewBlock" => sent[i].walletId \in Wallet

\* A job is about a notification that was sent, and sends to somebody.
JobFits(x, i) ==
  /\ x.pc # "idle" => i \in DOMAIN sent
  /\ x.pc \in {"fetch", "store", "drop", "send"} =>
       ShouldMail(sent[i]) /\ Recipients(sent[i]) # {}
  /\ x.pc \in {"store", "drop"} => x.todo # {}
  /\ x.pc = "send" => x.todo \cup x.toMark # {}
  /\ x.toMark # {} => x.pc = "send"

\* So do all jobs.
JobsFit == \A p \in Process, i \in 1..MaxSent : JobFits(job[p][i], i)

\* The positions of the members a notification is for.
MembersFor(n) == {k \in DOMAIN Members[n.walletId] : PushedTo(n, Members[n.walletId][k])}

\* A push is about a notification that was sent and is pushed, and its requests
\* are for its recipients.
PushFits(x, i, notes) ==
  /\ x.pc # "idle" => i \in DOMAIN notes
  /\ x.pc \in {"recipients", "devices", "send"} => ShouldSend(notes[i])
  /\ x.pc \in {"devices", "send"} =>
       /\ DOMAIN x.recipients = MembersFor(notes[i])
       /\ \A k \in MembersFor(notes[i]) :
            x.recipients[k].pocketeerId = Members[notes[i].walletId][k]
  /\ x.pc = "send" =>
       \A d \in x.todo : \E k \in DOMAIN x.recipients : x.recipients[k].pocketeerId = d[1]
  /\ x.pc # "send" => x.todo = {}

\* So do all pushes.
PushesFit == \A p \in Process, i \in 1..MaxSent : PushFits(push[p][i], i, sent)

\* What a client is given is among what was made.
FeedFits ==
  /\ Len(made) <= MaxMade
  /\ asking.found \subseteq DOMAIN made
  /\ \A i \in DOMAIN received : received[i] \in DOMAIN made

\* The types and what fits with them: the invariant of all steps.
Typed == TypeOK /\ NotesFit /\ JobsFit /\ PushesFit /\ FeedFits

-----------------------------------------------------------------------------
(* Numbers.                                                                 *)

\* Of a set of numbers up to N there is a largest one.
LEMMA LargestExists ==
  ASSUME NEW N \in Nat, NEW S \in SUBSET (1..N), S # {}
  PROVE  \E m \in S : \A n \in S : m >= n
<1> DEFINE T == {N - n : n \in S}
<1>1. T \in SUBSET Nat /\ T # {}
  <2>1. \A n \in S : n \in 1..N
    OBVIOUS
  <2>2. \A n \in S : N - n \in Nat
    BY <2>1
  <2> QED
    BY <2>2
<1>2. PICK k \in T : \A l \in T : k <= l
  BY <1>1, LeastExists
<1>3. PICK m \in S : k = N - m
  OBVIOUS
<1> QED
  BY <1>2, <1>3

-----------------------------------------------------------------------------
(* What a step may do to the notifications sent.                            *)

\* All that is ever read of a notification, but for its age.
SameNote(n, m) ==
  /\ n.id = m.id /\ n.type = m.type /\ n.walletId = m.walletId
  /\ n.creatorId = m.creatorId /\ n.about = m.about
  /\ n.stored = m.stored /\ n.told = m.told

\* What a step that sends makes of notifications.
NewNote(n) ==
  /\ n \in Notification
  /\ n.type # "NewBlock" => n.walletId \in Wallet

\* A notification is appended.
SentStep(n) == Len(sent) < MaxSent /\ sent' = Append(sent, n) /\ NewNote(n)

\* The old ones stay.
SentKept == \A i \in DOMAIN sent : i \in DOMAIN sent' /\ SameNote(sent'[i], sent[i])

\* Storing and telling of a notification appends it.
LEMMA StoreAndBroadcastStep ==
  ASSUME NotificationsTypeOK, NotesFit, NEW n \in Notification, StoreAndBroadcast(n),
         n.type # "NewBlock" => n.walletId \in Wallet
  PROVE  /\ NotificationsTypeOK' /\ NotesFit'
         /\ trouble => trouble'
         /\ \E m : /\ SentStep(m)
                   /\ m.id = n.id /\ m.type = n.type /\ m.walletId = n.walletId
                   /\ m.creatorId = n.creatorId /\ m.about = n.about /\ m.recent = n.recent
                   /\ ~trouble' => m.stored /\ (listening = "mail" => m.told # {})
<1>1. PICK stored \in BOOLEAN, told \in SUBSET Process :
        /\ sent' = Append(sent, [n EXCEPT !.stored = stored, !.told = told])
        /\ trouble' = (trouble \/ ~stored \/ (listening = "mail" /\ told = {}))
        /\ UNCHANGED <<listening, clock>>
  <2> DEFINE Audiences == CASE listening = "mail" -> {{}, Process}
                            [] listening = "push" -> {{p} : p \in Process}
                            [] OTHER -> {{}}
  <2>1. PICK stored \in IF listening # "none" THEN {TRUE} ELSE BOOLEAN, told \in Audiences :
          /\ sent' = Append(sent, [n EXCEPT !.stored = stored, !.told = told])
          /\ trouble' = (trouble \/ ~stored \/ (listening = "mail" /\ told = {}))
          /\ UNCHANGED <<listening, clock>>
    BY DEF StoreAndBroadcast
  <2>2. stored \in BOOLEAN
    BY <2>1
  <2>3. told \in SUBSET Process
    <3>1. CASE listening = "mail"
      BY <2>1, <3>1
    <3>2. CASE listening = "push"
      BY <2>1, <3>2
    <3>3. CASE listening \notin {"mail", "push"}
      BY <2>1, <3>3
    <3> QED
      BY <3>1, <3>2, <3>3
  <2> QED
    BY <2>1, <2>2, <2>3
<1> DEFINE m == [n EXCEPT !.stored = stored, !.told = told]
<1>2. /\ m \in Notification
      /\ m.id = n.id /\ m.type = n.type /\ m.walletId = n.walletId
      /\ m.creatorId = n.creatorId /\ m.about = n.about /\ m.recent = n.recent
      /\ m.stored = stored /\ m.told = told
  BY DEF Notification
<1>3. sent' = Append(sent, m)
  BY <1>1
<1> HIDE DEF m
<1>4. /\ sent \in Seq(Notification) /\ sent' \in Seq(Notification)
      /\ Len(sent') = Len(sent) + 1 /\ DOMAIN sent' = 1..(Len(sent) + 1)
      /\ sent'[Len(sent) + 1] = m
      /\ \A i \in DOMAIN sent : sent'[i] = sent[i]
  BY <1>2, <1>3 DEF NotificationsTypeOK
<1>5. Len(sent) < MaxSent
  BY DEF StoreAndBroadcast
<1>6. SentStep(m)
  BY <1>2, <1>3, <1>5 DEF SentStep, NewNote
<1>7. NotificationsTypeOK'
  BY <1>1, <1>4 DEF NotificationsTypeOK
<1>8. NotesFit'
  <2>1. Len(sent') <= MaxSent
    BY <1>4, <1>5, NotificationsAssumption
  <2>2. ASSUME NEW i \in DOMAIN sent', sent'[i].type # "NewBlock"
        PROVE  sent'[i].walletId \in Wallet
    BY <1>2, <1>4, <2>2 DEF NotesFit
  <2> QED
    BY <2>1, <2>2 DEF NotesFit
<1> QED
  BY <1>1, <1>2, <1>6, <1>7, <1>8

\* What an appended notification leaves as it is.
LEMMA SentStepKeeps ==
  ASSUME sent \in Seq(Notification), NEW n, SentStep(n)
  PROVE  /\ SentKept
         /\ sent' \in Seq(Notification)
         /\ DOMAIN sent' = DOMAIN sent \cup {Len(sent) + 1}
         /\ Len(sent') = Len(sent) + 1
         /\ Len(sent) + 1 \notin DOMAIN sent
         /\ sent'[Len(sent) + 1] = n
         /\ \A i \in DOMAIN sent : sent'[i] = sent[i]
<1>1. n \in Notification /\ sent' = Append(sent, n)
  BY DEF SentStep, NewNote
<1>2. /\ sent' \in Seq(Notification)
      /\ Len(sent') = Len(sent) + 1 /\ DOMAIN sent' = 1..(Len(sent) + 1)
      /\ DOMAIN sent = 1..Len(sent) /\ Len(sent) \in Nat
      /\ sent'[Len(sent) + 1] = n
      /\ \A i \in DOMAIN sent : sent'[i] = sent[i]
  BY <1>1
<1> QED
  BY <1>2 DEF SentKept, SameNote

\* A day that passes changes the age of all.
LEMMA DayPassesStep ==
  ASSUME NotificationsTypeOK, NotesFit, DayPasses
  PROVE  /\ NotificationsTypeOK' /\ NotesFit' /\ SentKept
         /\ DOMAIN sent' = DOMAIN sent /\ Len(sent') = Len(sent)
         /\ \A i \in DOMAIN sent : ~sent'[i].recent
<1>1. /\ sent \in Seq(Notification)
      /\ sent' = [i \in DOMAIN sent |-> [sent[i] EXCEPT !.recent = FALSE]]
      /\ UNCHANGED <<listening, clock, trouble>>
  BY DEF DayPasses, NotificationsTypeOK
<1>2. ASSUME NEW n \in Notification
      PROVE  LET m == [n EXCEPT !.recent = FALSE] IN
             m \in Notification /\ SameNote(m, n) /\ ~m.recent
  BY DEF Notification, SameNote
<1>3. \A i \in DOMAIN sent : sent[i] \in Notification
  BY <1>1
<1>4. \A i \in DOMAIN sent :
        sent'[i] \in Notification /\ SameNote(sent'[i], sent[i]) /\ ~sent'[i].recent
  BY <1>1, <1>2, <1>3
<1>5. DOMAIN sent' = DOMAIN sent /\ DOMAIN sent = 1..Len(sent) /\ Len(sent) \in Nat
  BY <1>1
<1>6. sent' \in [1..Len(sent) -> Notification]
  BY <1>1, <1>4, <1>5
<1>7. sent' \in Seq(Notification) /\ Len(sent') = Len(sent)
  BY <1>5, <1>6
<1>8. NotificationsTypeOK'
  BY <1>1, <1>7 DEF NotificationsTypeOK
<1>9. NotesFit'
  BY <1>4, <1>5, <1>7 DEF NotesFit, SameNote
<1> QED
  BY <1>4, <1>5, <1>7, <1>8, <1>9 DEF SentKept

-----------------------------------------------------------------------------
(* The types of the monitor.                                                *)

\* The part of TypeOK that is about the monitor.
MonitorTyped ==
  /\ due \in [{"tx", "block", "subscribe"} -> Nat]
  /\ work \in [Event -> EventState]
  /\ docs \in Seq({"accepted", "broadcasted"})
  /\ ours \in {"no", "sent", "stored"}
  /\ subs \in [Pocketeers -> {"none", "active", "inactive"}]
  /\ asked \in [Pocketeers -> Nat]

\* The outputs of the transaction pay wallets, and are finitely many.
LEMMA OutsFit ==
  /\ DOMAIN Outs \subseteq Nat
  /\ IsFiniteSet(DOMAIN Outs)
  /\ \A o \in DOMAIN Outs : Outs[o].walletId \in Wallet
<1> DEFINE Out == [walletId: Wallet, isChange: BOOLEAN]
<1>0. \A out \in Out : out.walletId \in Wallet
  OBVIOUS
<1> HIDE DEF Out
<1>1. Outs \in Seq(Out)
  BY MonitorAssumption DEF Out
<1>2. Len(Outs) \in Nat /\ DOMAIN Outs = 1..Len(Outs)
  BY <1>1
<1>3. \A o \in DOMAIN Outs : Outs[o] \in Out
  BY <1>1, <1>2
<1>4. IsFiniteSet(DOMAIN Outs)
  BY <1>2, FS_Interval
<1> QED
  BY <1>0, <1>2, <1>3, <1>4

\* A subscriber has a wallet.
LEMMA WalletOfFits == \A p \in Pocketeers : WalletOf(p) \in Wallet
BY DEF Pocketeers, WalletOf

\* One event's threads change.
LEMMA WorkStep ==
  ASSUME work \in [Event -> EventState], NEW e \in Event, NEW x \in EventState,
         work' = [work EXCEPT ![e] = x]
  PROVE  /\ work' \in [Event -> EventState]
         /\ work'[e] = x
         /\ \A f \in Event : f # e => work'[f] = work[f]
OBVIOUS

\* The threads of an event, changed one at a time.
LEMMA PayThread ==
  ASSUME NEW x \in EventState, NEW o \in DOMAIN Outs,
         NEW v \in {"none", "lookup", "store"}, NEW t \in 0..MaxClock
  PROVE  LET y == [x EXCEPT !.pay[o] = v, !.made[o] = t]
         IN  /\ y \in EventState
             /\ y.pay = [x.pay EXCEPT ![o] = v]
             /\ y.kind = x.kind /\ y.third = x.third /\ y.block = x.block
             /\ y.newBlock = x.newBlock /\ y.active = x.active /\ y.confirm = x.confirm
BY DEF EventState

\* A thread of the payments ends.
LEMMA PayEnds ==
  ASSUME NEW x \in EventState, NEW o \in DOMAIN Outs
  PROVE  LET y == [x EXCEPT !.pay[o] = "none"]
         IN  /\ y \in EventState
             /\ y.pay = [x.pay EXCEPT ![o] = "none"]
             /\ y.kind = x.kind /\ y.third = x.third /\ y.block = x.block
             /\ y.newBlock = x.newBlock /\ y.active = x.active /\ y.confirm = x.confirm
BY DEF EventState

\* The thread that looks for broadcasts by others goes on.
LEMMA ThirdThread ==
  ASSUME NEW x \in EventState, NEW v \in {"none", "fetch", "wait", "store", "tell"}
  PROVE  LET y == [x EXCEPT !.third = v]
         IN  /\ y \in EventState /\ y.third = v
             /\ y.kind = x.kind /\ y.pay = x.pay /\ y.block = x.block
             /\ y.newBlock = x.newBlock /\ y.active = x.active /\ y.confirm = x.confirm
BY DEF EventState

\* The thread that reads a block goes on.
LEMMA BlockThread ==
  ASSUME NEW x \in EventState, NEW v \in {"none", "txids", "subs"}
  PROVE  LET y == [x EXCEPT !.block = v]
         IN  /\ y \in EventState /\ y.block = v
             /\ y.kind = x.kind /\ y.pay = x.pay /\ y.third = x.third
             /\ y.newBlock = x.newBlock /\ y.active = x.active /\ y.confirm = x.confirm
BY DEF EventState

\* The thread that tells of a new block ends.
LEMMA NewBlockThread ==
  ASSUME NEW x \in EventState
  PROVE  LET y == [x EXCEPT !.newBlock = "none"]
         IN  /\ y \in EventState /\ y.newBlock = "none"
             /\ y.kind = x.kind /\ y.pay = x.pay /\ y.third = x.third
             /\ y.block = x.block /\ y.active = x.active /\ y.confirm = x.confirm
BY DEF EventState

\* The thread of a subscription goes on.
LEMMA ConfirmThread ==
  ASSUME NEW x \in EventState, NEW p \in Pocketeers, NEW v \in {"none", "store", "tell"}
  PROVE  LET y == [x EXCEPT !.confirm[p] = v]
         IN  /\ y \in EventState
             /\ y.confirm = [x.confirm EXCEPT ![p] = v]
             /\ y.kind = x.kind /\ y.pay = x.pay /\ y.third = x.third
             /\ y.block = x.block /\ y.newBlock = x.newBlock /\ y.active = x.active
BY DEF EventState

\* A block becomes a thread for a subscription that was read.
LEMMA SubsThread ==
  ASSUME NEW x \in EventState, NEW p \in Pocketeers, NEW read \in SUBSET Pocketeers
  PROVE  LET y == [x EXCEPT !.block = "none", !.active = read, !.confirm[p] = "store"]
         IN  /\ y \in EventState
             /\ y.confirm = [x.confirm EXCEPT ![p] = "store"]
             /\ y.block = "none" /\ y.active = read
             /\ y.kind = x.kind /\ y.pay = x.pay /\ y.third = x.third
             /\ y.newBlock = x.newBlock
BY DEF EventState

\* TypeOK, component by component.
LEMMA TypedSplit ==
  TypeOK <=> /\ NotificationsTypeOK /\ EmailTypeOK /\ PushTypeOK /\ FeedTypeOK
             /\ MonitorTyped
BY DEF TypeOK, MonitorTyped

\* Of the threads of the events, only these of this event change.
Touches(e, threads) ==
  /\ \A f \in Event : f # e => work'[f] = work[f]
  /\ "kind" \notin threads => work'[e].kind = work[e].kind
  /\ "pay" \notin threads => work'[e].pay = work[e].pay
  /\ "third" \notin threads => work'[e].third = work[e].third
  /\ "block" \notin threads => work'[e].block = work[e].block
  /\ "newBlock" \notin threads => work'[e].newBlock = work[e].newBlock
  /\ "active" \notin threads => work'[e].active = work[e].active
  /\ "confirm" \notin threads => work'[e].confirm = work[e].confirm

\* What the steps of the monitor do to the threads.
LEMMA IncomingTxDoes ==
  ASSUME MonitorTyped, NEW e \in Event, IncomingTx(e)
  PROVE  /\ MonitorTyped'
         /\ Touches(e, {"kind", "pay", "third"})
         /\ work'[e].kind = "tx" /\ work'[e].third = "fetch"
         /\ \A o \in DOMAIN Outs :
              work'[e].pay[o] = IF Outs[o].isChange THEN "none" ELSE "lookup"
<1> DEFINE pay == [o \in DOMAIN Outs |-> IF Outs[o].isChange THEN "none" ELSE "lookup"]
           x == [work[e] EXCEPT !.kind = "tx", !.pay = pay, !.third = "fetch"]
<1>1. work[e] \in EventState /\ pay \in [DOMAIN Outs -> {"none", "lookup", "store"}]
  BY DEF MonitorTyped
<1>2. \A o \in DOMAIN Outs : pay[o] = IF Outs[o].isChange THEN "none" ELSE "lookup"
  OBVIOUS
<1>3. work' = [work EXCEPT ![e] = x]
  BY DEF IncomingTx
<1> HIDE DEF pay
<1>4. /\ x \in EventState /\ x.kind = "tx" /\ x.third = "fetch" /\ x.pay = pay
      /\ x.block = work[e].block /\ x.newBlock = work[e].newBlock
      /\ x.active = work[e].active /\ x.confirm = work[e].confirm
  BY <1>1 DEF EventState
<1> HIDE DEF x
<1>5. due' \in [{"tx", "block", "subscribe"} -> Nat]
  BY DEF IncomingTx, Begins, MonitorTyped
<1>6. /\ work' \in [Event -> EventState] /\ work'[e] = x
      /\ \A f \in Event : f # e => work'[f] = work[f]
  BY <1>3, <1>4, WorkStep DEF MonitorTyped
<1> QED
  BY <1>2, <1>4, <1>5, <1>6 DEF IncomingTx, MonitorTyped, Touches

\* A payment is looked up: it is told of already, or not.
LEMMA LookupDoes ==
  ASSUME MonitorTyped, NotificationsTypeOK, NEW e \in Event, NEW o \in DOMAIN Outs,
         LookupNotified(e, o)
  PROVE  /\ MonitorTyped'
         /\ Touches(e, {"pay"})
         /\ work[e].pay[o] = "lookup"
         /\ \E v \in {"none", "store"} :
              /\ work'[e].pay = [work[e].pay EXCEPT ![o] = v]
              /\ v = "none" <=> \E n \in FetchNotifications(Outs[o].walletId) :
                                   n.type = "NewIncomingTx"
<1> DEFINE told == \E n \in FetchNotifications(Outs[o].walletId) : n.type = "NewIncomingTx"
           x == IF told THEN [work[e] EXCEPT !.pay[o] = "none"]
                ELSE [work[e] EXCEPT !.pay[o] = "store", !.made[o] = clock]
           v == IF told THEN "none" ELSE "store"
<1>1. work[e] \in EventState /\ clock \in 0..MaxClock
  BY DEF MonitorTyped, NotificationsTypeOK
<1>2. work' = [work EXCEPT ![e] = x]
  BY DEF LookupNotified
<1> HIDE DEF told
<1>3. /\ x \in EventState
      /\ x.pay = [work[e].pay EXCEPT ![o] = v]
      /\ x.kind = work[e].kind /\ x.third = work[e].third /\ x.block = work[e].block
      /\ x.newBlock = work[e].newBlock /\ x.active = work[e].active
      /\ x.confirm = work[e].confirm
  <2>1. CASE told
    BY <1>1, <2>1 DEF EventState
  <2>2. CASE ~told
    BY <1>1, <2>2 DEF EventState
  <2> QED
    BY <2>1, <2>2
<1>4. v \in {"none", "store"} /\ (v = "none" <=> told)
  OBVIOUS
<1> HIDE DEF x, v
<1>5. /\ work' \in [Event -> EventState] /\ work'[e] = x
      /\ \A f \in Event : f # e => work'[f] = work[f]
  BY <1>2, <1>3, WorkStep DEF MonitorTyped
<1>6. MonitorTyped' /\ Touches(e, {"pay"}) /\ work[e].pay[o] = "lookup"
  BY <1>3, <1>5 DEF LookupNotified, MonitorTyped, Touches
<1> QED
  BY <1>3, <1>4, <1>5, <1>6 DEF told

\* A payment is told of, which ends its thread.
LEMMA TellPaymentDoes ==
  ASSUME MonitorTyped, NotificationsTypeOK, NotesFit,
         NEW e \in Event, NEW o \in DOMAIN Outs, TellPayment(e, o)
  PROVE  /\ MonitorTyped' /\ NotificationsTypeOK' /\ NotesFit'
         /\ Touches(e, {"pay"})
         /\ work[e].pay[o] = "store"
         /\ work'[e].pay = [work[e].pay EXCEPT ![o] = "none"]
         /\ trouble => trouble'
         /\ \E m : /\ SentStep(m)
                   /\ m.type = "NewIncomingTx" /\ m.walletId = Outs[o].walletId
                   /\ m.creatorId = NoPocketeer /\ m.about = o /\ m.recent
                   /\ ~trouble' => m.stored /\ (listening = "mail" => m.told # {})
<1> DEFINE n == [CreateNotification("NewIncomingTx", Outs[o].walletId, NoPocketeer, o)
                   EXCEPT !.id = work[e].made[o]]
           x == [work[e] EXCEPT !.pay[o] = "none", !.made[o] = 0]
<1>1. work[e] \in EventState /\ work[e].made[o] \in 0..MaxClock /\ 0 \in 0..MaxClock
  BY NotificationsAssumption DEF MonitorTyped, EventState
<1>2. /\ n \in Notification /\ n.type = "NewIncomingTx" /\ n.walletId = Outs[o].walletId
      /\ n.creatorId = NoPocketeer /\ n.about = o /\ n.recent
  BY <1>1, OutsFit DEF CreateNotification, Notification, Type
<1>3. work' = [work EXCEPT ![e] = x]
  BY <1>1 DEF TellPayment, MonitorTyped
<1>4. StoreAndBroadcast(n)
  BY DEF TellPayment
<1> HIDE DEF n
<1>5. /\ NotificationsTypeOK' /\ NotesFit' /\ (trouble => trouble')
      /\ \E m : /\ SentStep(m)
                /\ m.type = "NewIncomingTx" /\ m.walletId = Outs[o].walletId
                /\ m.creatorId = NoPocketeer /\ m.about = o /\ m.recent
                /\ ~trouble' => m.stored /\ (listening = "mail" => m.told # {})
  BY <1>2, <1>4, OutsFit, StoreAndBroadcastStep
<1>6. /\ x \in EventState
      /\ x.pay = [work[e].pay EXCEPT ![o] = "none"]
      /\ x.kind = work[e].kind /\ x.third = work[e].third /\ x.block = work[e].block
      /\ x.newBlock = work[e].newBlock /\ x.active = work[e].active
      /\ x.confirm = work[e].confirm
  BY <1>1 DEF EventState
<1> HIDE DEF x
<1>7. /\ work' \in [Event -> EventState] /\ work'[e] = x
      /\ \A f \in Event : f # e => work'[f] = work[f]
  BY <1>3, <1>6, WorkStep DEF MonitorTyped
<1>8. /\ MonitorTyped' /\ Touches(e, {"pay"}) /\ work[e].pay[o] = "store"
      /\ work'[e].pay = [work[e].pay EXCEPT ![o] = "none"]
  BY <1>6, <1>7 DEF TellPayment, MonitorTyped, Touches
<1> QED
  BY <1>5, <1>8

\* The transaction is looked up: not ours, or wait for who broadcasts it.
LEMMA FetchTxDoes ==
  ASSUME MonitorTyped, NEW e \in Event, FetchTx(e)
  PROVE  /\ MonitorTyped'
         /\ Touches(e, {"third"})
         /\ work[e].third = "fetch"
         /\ work'[e].third \in {"none", "wait"}
<1>1. work[e] \in EventState
  BY DEF MonitorTyped
<1>2. PICK v \in {"none", "wait"} : work' = [work EXCEPT ![e].third = v]
  BY DEF FetchTx
<1> DEFINE x == [work[e] EXCEPT !.third = v]
<1>3. work' = [work EXCEPT ![e] = x]
  BY <1>2
<1>4. /\ x \in EventState /\ x.third = v
      /\ x.kind = work[e].kind /\ x.pay = work[e].pay /\ x.block = work[e].block
      /\ x.newBlock = work[e].newBlock /\ x.active = work[e].active
      /\ x.confirm = work[e].confirm
  BY <1>1 DEF EventState
<1> HIDE DEF x
<1>5. /\ work' \in [Event -> EventState] /\ work'[e] = x
      /\ \A f \in Event : f # e => work'[f] = work[f]
  BY <1>3, <1>4, WorkStep DEF MonitorTyped
<1> QED
  BY <1>4, <1>5 DEF FetchTx, MonitorTyped, Touches

\* It is looked up again, after the wait.
LEMMA FetchTxAgainDoes ==
  ASSUME MonitorTyped, NEW e \in Event, FetchTxAgain(e)
  PROVE  /\ MonitorTyped'
         /\ Touches(e, {"third"})
         /\ work[e].third = "wait"
         /\ work'[e].third \in {"none", "store"}
         /\ work'[e].third = "store" => \E d \in DOMAIN docs : docs[d] = "accepted"
<1>1. work[e] \in EventState
  BY DEF MonitorTyped
<1>2. PICK d \in DOMAIN docs :
        work' = [work EXCEPT ![e].third = IF docs[d] = "accepted" THEN "store" ELSE "none"]
  BY DEF FetchTxAgain
<1> DEFINE v == IF docs[d] = "accepted" THEN "store" ELSE "none"
           x == [work[e] EXCEPT !.third = v]
<1>3. work' = [work EXCEPT ![e] = x]
  BY <1>2
<1>4. /\ x \in EventState /\ x.third = v
      /\ x.kind = work[e].kind /\ x.pay = work[e].pay /\ x.block = work[e].block
      /\ x.newBlock = work[e].newBlock /\ x.active = work[e].active
      /\ x.confirm = work[e].confirm
  BY <1>1 DEF EventState
<1> HIDE DEF x
<1>5. /\ work' \in [Event -> EventState] /\ work'[e] = x
      /\ \A f \in Event : f # e => work'[f] = work[f]
  BY <1>3, <1>4, WorkStep DEF MonitorTyped
<1> QED
  BY <1>4, <1>5 DEF FetchTxAgain, MonitorTyped, Touches

\* The document is stored as broadcasted.
LEMMA StoreBroadcastedDoes ==
  ASSUME MonitorTyped, NEW e \in Event, StoreBroadcasted(e)
  PROVE  /\ MonitorTyped'
         /\ Touches(e, {"third"})
         /\ work[e].third = "store" /\ work'[e].third = "tell"
         /\ docs' # <<"accepted">>
<1> DEFINE x == [work[e] EXCEPT !.third = "tell"]
<1>1. work[e] \in EventState
  BY DEF MonitorTyped
<1>2. work' = [work EXCEPT ![e] = x]
  BY DEF StoreBroadcasted
<1>3. /\ x \in EventState /\ x.third = "tell"
      /\ x.kind = work[e].kind /\ x.pay = work[e].pay /\ x.block = work[e].block
      /\ x.newBlock = work[e].newBlock /\ x.active = work[e].active
      /\ x.confirm = work[e].confirm
  BY <1>1 DEF EventState
<1> HIDE DEF x
<1>4. /\ work' \in [Event -> EventState] /\ work'[e] = x
      /\ \A f \in Event : f # e => work'[f] = work[f]
  BY <1>2, <1>3, WorkStep DEF MonitorTyped
<1>5. /\ docs' \in Seq({"accepted", "broadcasted"})
      /\ Len(docs') = Len(docs) + 1 /\ docs'[Len(docs) + 1] = "broadcasted"
  BY DEF StoreBroadcasted, MonitorTyped
<1>6. docs' # <<"accepted">>
  <2> SUFFICES ASSUME docs' = <<"accepted">> PROVE FALSE
    OBVIOUS
  <2>1. Len(docs') = 1 /\ docs'[1] = "accepted"
    OBVIOUS
  <2>2. Len(docs) \in Nat
    BY DEF MonitorTyped
  <2> QED
    BY <1>5, <2>1, <2>2
<1> QED
  BY <1>3, <1>4, <1>5, <1>6 DEF StoreBroadcasted, MonitorTyped, Touches

\* The broadcast is told as one by somebody else, which ends its thread.
LEMMA TellThirdPartyDoes ==
  ASSUME MonitorTyped, NotificationsTypeOK, NotesFit, NEW e \in Event, TellThirdParty(e)
  PROVE  /\ MonitorTyped' /\ NotificationsTypeOK' /\ NotesFit'
         /\ Touches(e, {"third"})
         /\ work[e].third = "tell" /\ work'[e].third = "none"
         /\ trouble => trouble'
         /\ \E m : /\ SentStep(m)
                   /\ m.type = "NewOutgoingTxByThirdParty" /\ m.recent
                   /\ ~trouble' => m.stored /\ (listening = "mail" => m.told # {})
<1> DEFINE n == CreateNotification("NewOutgoingTxByThirdParty", Proposer, NoPocketeer, 0)
           x == [work[e] EXCEPT !.third = "none"]
<1>1. work[e] \in EventState
  BY DEF MonitorTyped
<1>2. n \in Notification /\ n.type = "NewOutgoingTxByThirdParty" /\ n.walletId \in Wallet /\ n.recent
  BY MonitorAssumption DEF CreateNotification, Notification, Type, NotificationsTypeOK
<1>3. work' = [work EXCEPT ![e] = x] /\ StoreAndBroadcast(n)
  BY DEF TellThirdParty
<1> HIDE DEF n
<1>4. /\ NotificationsTypeOK' /\ NotesFit' /\ (trouble => trouble')
      /\ \E m : /\ SentStep(m)
                /\ m.type = "NewOutgoingTxByThirdParty" /\ m.recent
                /\ ~trouble' => m.stored /\ (listening = "mail" => m.told # {})
  BY <1>2, <1>3, StoreAndBroadcastStep
<1>5. /\ x \in EventState /\ x.third = "none"
      /\ x.kind = work[e].kind /\ x.pay = work[e].pay /\ x.block = work[e].block
      /\ x.newBlock = work[e].newBlock /\ x.active = work[e].active
      /\ x.confirm = work[e].confirm
  BY <1>1 DEF EventState
<1> HIDE DEF x
<1>6. /\ work' \in [Event -> EventState] /\ work'[e] = x
      /\ \A f \in Event : f # e => work'[f] = work[f]
  BY <1>3, <1>5, WorkStep DEF MonitorTyped
<1>7. /\ MonitorTyped' /\ Touches(e, {"third"})
      /\ work[e].third = "tell" /\ work'[e].third = "none"
  BY <1>5, <1>6 DEF TellThirdParty, MonitorTyped, Touches
<1> QED
  BY <1>4, <1>7

\* A block starts its two threads.
LEMMA NewBlockDoes ==
  ASSUME MonitorTyped, NEW e \in Event, NewBlock(e)
  PROVE  /\ MonitorTyped'
         /\ Touches(e, {"kind", "block", "newBlock"})
         /\ work'[e].kind = "block" /\ work'[e].block = "txids"
<1> DEFINE x == [work[e] EXCEPT !.kind = "block", !.newBlock = "tell", !.block = "txids"]
<1>1. work[e] \in EventState
  BY DEF MonitorTyped
<1>2. work' = [work EXCEPT ![e] = x]
  BY DEF NewBlock
<1>3. /\ x \in EventState /\ x.kind = "block" /\ x.block = "txids"
      /\ x.pay = work[e].pay /\ x.third = work[e].third
      /\ x.active = work[e].active /\ x.confirm = work[e].confirm
  BY <1>1 DEF EventState
<1> HIDE DEF x
<1>4. due' \in [{"tx", "block", "subscribe"} -> Nat]
  BY DEF NewBlock, Begins, MonitorTyped
<1>5. /\ work' \in [Event -> EventState] /\ work'[e] = x
      /\ \A f \in Event : f # e => work'[f] = work[f]
  BY <1>2, <1>3, WorkStep DEF MonitorTyped
<1> QED
  BY <1>3, <1>4, <1>5 DEF NewBlock, MonitorTyped, Touches

\* The new block is told of, which ends its thread.
LEMMA NotifyNewBlockDoes ==
  ASSUME MonitorTyped, NotificationsTypeOK, NotesFit, NEW e \in Event, NotifyNewBlock(e)
  PROVE  /\ MonitorTyped' /\ NotificationsTypeOK' /\ NotesFit'
         /\ Touches(e, {"newBlock"})
         /\ work[e].newBlock = "tell" /\ work'[e].newBlock = "none"
         /\ trouble => trouble'
         /\ \E m : /\ SentStep(m)
                   /\ m.type = "NewBlock" /\ m.recent
                   /\ ~trouble' => m.stored /\ (listening = "mail" => m.told # {})
<1> DEFINE n == CreateNotification("NewBlock", Network, NoPocketeer, 0)
           x == [work[e] EXCEPT !.newBlock = "none"]
<1>1. work[e] \in EventState
  BY DEF MonitorTyped
<1>2. n \in Notification /\ n.type = "NewBlock" /\ n.recent
  BY DEF CreateNotification, Notification, Type, NotificationsTypeOK
<1>3. work' = [work EXCEPT ![e] = x] /\ StoreAndBroadcast(n)
  BY DEF NotifyNewBlock
<1> HIDE DEF n
<1>4. /\ NotificationsTypeOK' /\ NotesFit' /\ (trouble => trouble')
      /\ \E m : /\ SentStep(m)
                /\ m.type = "NewBlock" /\ m.recent
                /\ ~trouble' => m.stored /\ (listening = "mail" => m.told # {})
  BY <1>2, <1>3, StoreAndBroadcastStep
<1>5. /\ x \in EventState /\ x.newBlock = "none"
      /\ x.kind = work[e].kind /\ x.pay = work[e].pay /\ x.block = work[e].block
      /\ x.third = work[e].third /\ x.active = work[e].active
      /\ x.confirm = work[e].confirm
  BY <1>1 DEF EventState
<1> HIDE DEF x
<1>6. /\ work' \in [Event -> EventState] /\ work'[e] = x
      /\ \A f \in Event : f # e => work'[f] = work[f]
  BY <1>3, <1>5, WorkStep DEF MonitorTyped
<1>7. /\ MonitorTyped' /\ Touches(e, {"newBlock"})
      /\ work[e].newBlock = "tell" /\ work'[e].newBlock = "none"
  BY <1>5, <1>6 DEF NotifyNewBlock, MonitorTyped, Touches
<1> QED
  BY <1>4, <1>7

\* The transactions of the block are read.
LEMMA GetTxidsInBlockDoes ==
  ASSUME MonitorTyped, NEW e \in Event, GetTxidsInBlock(e)
  PROVE  /\ MonitorTyped'
         /\ Touches(e, {"block"})
         /\ work[e].block = "txids" /\ work'[e].block = "subs"
<1> DEFINE x == [work[e] EXCEPT !.block = "subs"]
<1>1. work[e] \in EventState
  BY DEF MonitorTyped
<1>2. work' = [work EXCEPT ![e] = x]
  BY DEF GetTxidsInBlock
<1>3. /\ x \in EventState /\ x.block = "subs"
      /\ x.kind = work[e].kind /\ x.pay = work[e].pay /\ x.third = work[e].third
      /\ x.newBlock = work[e].newBlock /\ x.active = work[e].active
      /\ x.confirm = work[e].confirm
  BY <1>1 DEF EventState
<1> HIDE DEF x
<1>4. /\ work' \in [Event -> EventState] /\ work'[e] = x
      /\ \A f \in Event : f # e => work'[f] = work[f]
  BY <1>2, <1>3, WorkStep DEF MonitorTyped
<1> QED
  BY <1>3, <1>4 DEF GetTxidsInBlock, MonitorTyped, Touches

\* The active subscriptions are read; with none the thread ends.
LEMMA FetchSubsDoes ==
  ASSUME MonitorTyped, NEW e \in Event, FetchSubs(e)
  PROVE  /\ MonitorTyped'
         /\ Touches(e, {"block", "active", "confirm"})
         /\ work[e].block = "subs" /\ work'[e].block = "none"
         /\ \/ /\ Active = {} /\ work'[e].active = work[e].active
               /\ work'[e].confirm = work[e].confirm
            \/ \E p \in Active :
                 /\ work'[e].active = Active
                 /\ work'[e].confirm = [work[e].confirm EXCEPT ![p] = "store"]
<1>1. work[e] \in EventState /\ Active \in SUBSET Pocketeers
  BY DEF MonitorTyped, Active
<1>2. ASSUME NEW x \in EventState, work' = [work EXCEPT ![e] = x]
      PROVE  /\ work' \in [Event -> EventState] /\ work'[e] = x
             /\ \A f \in Event : f # e => work'[f] = work[f]
  BY <1>2, WorkStep DEF MonitorTyped
<1>3. CASE Active = {} /\ work' = [work EXCEPT ![e].block = "none"]
  <2> DEFINE x == [work[e] EXCEPT !.block = "none"]
  <2>1. /\ x \in EventState /\ x.block = "none"
        /\ x.kind = work[e].kind /\ x.pay = work[e].pay /\ x.third = work[e].third
        /\ x.newBlock = work[e].newBlock /\ x.active = work[e].active
        /\ x.confirm = work[e].confirm
    BY <1>1 DEF EventState
  <2>2. work' = [work EXCEPT ![e] = x]
    BY <1>3
  <2> HIDE DEF x
  <2> QED
    BY <1>2, <1>3, <2>1, <2>2 DEF FetchSubs, MonitorTyped, Touches
<1>4. ASSUME NEW p \in Active,
             work' = [work EXCEPT ![e].block = "none", ![e].active = Active,
                                  ![e].confirm[p] = "store"]
      PROVE  /\ MonitorTyped'
             /\ Touches(e, {"block", "active", "confirm"})
             /\ work[e].block = "subs" /\ work'[e].block = "none"
             /\ work'[e].active = Active
             /\ work'[e].confirm = [work[e].confirm EXCEPT ![p] = "store"]
  <2> DEFINE x == [work[e] EXCEPT !.block = "none", !.active = Active, !.confirm[p] = "store"]
  <2>1. /\ x \in EventState /\ x.block = "none" /\ x.active = Active
        /\ x.confirm = [work[e].confirm EXCEPT ![p] = "store"]
        /\ x.kind = work[e].kind /\ x.pay = work[e].pay /\ x.third = work[e].third
        /\ x.newBlock = work[e].newBlock
    BY <1>1 DEF EventState
  <2>2. work' = [work EXCEPT ![e] = x]
    BY <1>4, Zenon DEF MonitorTyped
  <2> HIDE DEF x
  <2> QED
    BY <1>2, <2>1, <2>2 DEF FetchSubs, MonitorTyped, Touches
<1> QED
  BY <1>3, <1>4 DEF FetchSubs

\* A subscription is stored as inactive.
LEMMA StoreSubDoes ==
  ASSUME MonitorTyped, NEW e \in Event, NEW p \in Pocketeers, StoreSub(e, p)
  PROVE  /\ MonitorTyped'
         /\ Touches(e, {"confirm"})
         /\ work[e].confirm[p] = "store"
         /\ work'[e].confirm = [work[e].confirm EXCEPT ![p] = "tell"]
<1> DEFINE x == [work[e] EXCEPT !.confirm[p] = "tell"]
<1>1. work[e] \in EventState
  BY DEF MonitorTyped
<1>2. work' = [work EXCEPT ![e] = x]
  BY DEF StoreSub
<1>3. /\ x \in EventState /\ x.confirm = [work[e].confirm EXCEPT ![p] = "tell"]
      /\ x.kind = work[e].kind /\ x.pay = work[e].pay /\ x.third = work[e].third
      /\ x.newBlock = work[e].newBlock /\ x.active = work[e].active
      /\ x.block = work[e].block
  BY <1>1 DEF EventState
<1> HIDE DEF x
<1>4. /\ work' \in [Event -> EventState] /\ work'[e] = x
      /\ \A f \in Event : f # e => work'[f] = work[f]
  BY <1>2, <1>3, WorkStep DEF MonitorTyped
<1> QED
  BY <1>3, <1>4 DEF StoreSub, MonitorTyped, Touches

\* A confirmation is told of, which ends its thread.
LEMMA TellConfirmationDoes ==
  ASSUME MonitorTyped, NotificationsTypeOK, NotesFit,
         NEW e \in Event, NEW p \in Pocketeers, TellConfirmation(e, p)
  PROVE  /\ MonitorTyped' /\ NotificationsTypeOK' /\ NotesFit'
         /\ Touches(e, {"confirm"})
         /\ work[e].confirm[p] = "tell"
         /\ work'[e].confirm = [work[e].confirm EXCEPT ![p] = "none"]
         /\ trouble => trouble'
         /\ \E m : /\ SentStep(m)
                   /\ m.type = "TxConfirmation" /\ m.creatorId = p /\ m.recent
                   /\ ~trouble' => m.stored /\ (listening = "mail" => m.told # {})
<1> DEFINE n == CreateNotification("TxConfirmation", WalletOf(p), p, 0)
           x == [work[e] EXCEPT !.confirm[p] = "none"]
<1>1. work[e] \in EventState /\ WalletOf(p) \in Wallet /\ p \in Pocketeer
  BY WalletOfFits, MonitorAssumption DEF MonitorTyped, Pocketeers
<1>2. /\ n \in Notification /\ n.type = "TxConfirmation" /\ n.walletId \in Wallet
      /\ n.creatorId = p /\ n.recent
  BY <1>1 DEF CreateNotification, Notification, Type, NotificationsTypeOK
<1>3. work' = [work EXCEPT ![e] = x] /\ StoreAndBroadcast(n)
  BY DEF TellConfirmation
<1> HIDE DEF n
<1>4. /\ NotificationsTypeOK' /\ NotesFit' /\ (trouble => trouble')
      /\ \E m : /\ SentStep(m)
                /\ m.type = "TxConfirmation" /\ m.creatorId = p /\ m.recent
                /\ ~trouble' => m.stored /\ (listening = "mail" => m.told # {})
  BY <1>2, <1>3, StoreAndBroadcastStep
<1>5. /\ x \in EventState /\ x.confirm = [work[e].confirm EXCEPT ![p] = "none"]
      /\ x.kind = work[e].kind /\ x.pay = work[e].pay /\ x.third = work[e].third
      /\ x.newBlock = work[e].newBlock /\ x.active = work[e].active
      /\ x.block = work[e].block
  BY <1>1 DEF EventState
<1> HIDE DEF x
<1>6. /\ work' \in [Event -> EventState] /\ work'[e] = x
      /\ \A f \in Event : f # e => work'[f] = work[f]
  BY <1>3, <1>5, WorkStep DEF MonitorTyped
<1>7. /\ MonitorTyped' /\ Touches(e, {"confirm"})
      /\ work[e].confirm[p] = "tell"
      /\ work'[e].confirm = [work[e].confirm EXCEPT ![p] = "none"]
  BY <1>5, <1>6 DEF TellConfirmation, MonitorTyped, Touches
<1> QED
  BY <1>4, <1>7

\* A failure only ends threads.
LEMMA MonitorFailsDoes ==
  ASSUME MonitorTyped, NEW e \in Event, MonitorFails(e)
  PROVE  /\ MonitorTyped'
         /\ trouble' /\ UNCHANGED <<listening, clock, sent, due, docs, ours, subs, asked>>
         /\ \A f \in Event :
              /\ work'[f].kind = work[f].kind /\ work'[f].active = work[f].active
              /\ work'[f].third \in {work[f].third, "none"}
              /\ work'[f].block \in {work[f].block, "none"}
              /\ work'[f].newBlock \in {work[f].newBlock, "none"}
              /\ \A o \in DOMAIN Outs : work'[f].pay[o] \in {work[f].pay[o], "none"}
              /\ \A p \in Pocketeers : work'[f].confirm[p] \in {work[f].confirm[p], "none"}
<1> DEFINE Ended(x, y) ==
      /\ y \in EventState /\ y.kind = x.kind /\ y.active = x.active
      /\ y.third \in {x.third, "none"} /\ y.block \in {x.block, "none"}
      /\ y.newBlock \in {x.newBlock, "none"}
      /\ \A o \in DOMAIN Outs : y.pay[o] \in {x.pay[o], "none"}
      /\ \A p \in Pocketeers : y.confirm[p] \in {x.confirm[p], "none"}
<1>1. work \in [Event -> EventState]
  BY DEF MonitorTyped
<1>2. ASSUME NEW x \in EventState, NEW o \in DOMAIN Outs
      PROVE  Ended(x, [x EXCEPT !.pay[o] = "none"])
  BY DEF EventState
<1>3. ASSUME NEW x \in EventState
      PROVE  Ended(x, [x EXCEPT !.third = "none"])
  BY DEF EventState
<1>4. ASSUME NEW x \in EventState
      PROVE  Ended(x, [x EXCEPT !.block = "none"])
  BY DEF EventState
<1>5. ASSUME NEW x \in EventState, NEW p \in Pocketeers
      PROVE  Ended(x, [x EXCEPT !.confirm[p] = "none"])
  BY DEF EventState
<1>6. ASSUME NEW x \in EventState
      PROVE  Ended(x, [NoEvent EXCEPT !.kind = x.kind, !.active = x.active]) /\ Ended(x, x)
  <2> DEFINE y == [NoEvent EXCEPT !.kind = x.kind, !.active = x.active]
           n == NoEvent
  <2>1. [o \in DOMAIN Outs |-> "none"] \in [DOMAIN Outs -> {"none", "lookup", "store"}]
    OBVIOUS
  <2>2. [o \in DOMAIN Outs |-> 0] \in [DOMAIN Outs -> 0..MaxClock]
    BY NotificationsAssumption
  <2>3. [p \in Pocketeers |-> "none"] \in [Pocketeers -> {"none", "store", "tell"}]
    OBVIOUS
  <2>4. /\ n \in EventState /\ n.third = "none" /\ n.block = "none" /\ n.newBlock = "none"
        /\ \A o \in DOMAIN Outs : n.pay[o] = "none"
        /\ \A p \in Pocketeers : n.confirm[p] = "none"
    BY <2>1, <2>2, <2>3 DEF EventState, NoEvent
  <2> HIDE DEF n
  <2>5. Ended(x, [n EXCEPT !.kind = x.kind, !.active = x.active])
    BY <2>4 DEF EventState
  <2>6. Ended(x, x)
    BY DEF EventState
  <2> QED
    BY <2>5, <2>6 DEF n
<1> HIDE DEF Ended
<1>7. ASSUME NEW y, work' = [work EXCEPT ![e] = y], Ended(work[e], y)
      PROVE  /\ \A f \in Event : Ended(work[f], work'[f])
             /\ work' = [f \in Event |-> work'[f]]
  <2>1. \A f \in Event : work'[f] = IF f = e THEN y ELSE work[f]
    BY <1>1, <1>7
  <2>2. \A f \in Event : work[f] \in EventState
    BY <1>1
  <2>3. work' = [f \in Event |-> work'[f]]
    BY <1>1, <1>7
  <2> QED
    BY <1>6, <1>7, <2>1, <2>2, <2>3
<1>8. /\ \A f \in Event : Ended(work[f], work'[f])
      /\ work' = [f \in Event |-> work'[f]]
  <2>1. work[e] \in EventState
    BY <1>1
  <2>2. ASSUME NEW o \in DOMAIN Outs, work' = [work EXCEPT ![e].pay[o] = "none"]
        PROVE  work' = [work EXCEPT ![e] = [work[e] EXCEPT !.pay[o] = "none"]]
    BY <2>2
  <2>3. CASE work' = [work EXCEPT ![e].third = "none"]
    <3>1. work' = [work EXCEPT ![e] = [work[e] EXCEPT !.third = "none"]]
      BY <2>3
    <3> QED
      BY <1>3, <1>7, <2>1, <3>1
  <2>4. CASE work' = [work EXCEPT ![e].block = "none"]
    <3>1. work' = [work EXCEPT ![e] = [work[e] EXCEPT !.block = "none"]]
      BY <2>4
    <3> QED
      BY <1>4, <1>7, <2>1, <3>1
  <2>5. ASSUME NEW p \in Pocketeers, work' = [work EXCEPT ![e].confirm[p] = "none"]
        PROVE  work' = [work EXCEPT ![e] = [work[e] EXCEPT !.confirm[p] = "none"]]
    BY <2>5
  <2>6. CASE work' = [f \in Event |->
                        [NoEvent EXCEPT !.kind = work[f].kind, !.active = work[f].active]]
    <3>1. \A f \in Event : work'[f] =
            [NoEvent EXCEPT !.kind = work[f].kind, !.active = work[f].active]
      BY <2>6
    <3>2. work' = [f \in Event |-> work'[f]]
      BY <2>6
    <3>3. ASSUME NEW f \in Event PROVE Ended(work[f], work'[f])
      <4>1. work[f] \in EventState
        BY <1>1
      <4>2. Ended(work[f], [NoEvent EXCEPT !.kind = work[f].kind, !.active = work[f].active])
        BY <1>6, <4>1
      <4> QED
        BY <3>1, <4>2
    <3> QED
      BY <3>2, <3>3
  <2>7. CASE \E o \in DOMAIN Outs : work' = [work EXCEPT ![e].pay[o] = "none"]
    <3>1. PICK o \in DOMAIN Outs : work' = [work EXCEPT ![e].pay[o] = "none"]
      BY <2>7
    <3> DEFINE y == [work[e] EXCEPT !.pay[o] = "none"]
    <3>2. Ended(work[e], y) /\ work' = [work EXCEPT ![e] = y]
      BY <1>2, <2>1, <2>2, <3>1
    <3> HIDE DEF y
    <3> QED
      BY <1>7, <3>2
  <2>8. CASE \E p \in Pocketeers : work' = [work EXCEPT ![e].confirm[p] = "none"]
    <3>1. PICK p \in Pocketeers : work' = [work EXCEPT ![e].confirm[p] = "none"]
      BY <2>8
    <3> DEFINE y == [work[e] EXCEPT !.confirm[p] = "none"]
    <3>2. Ended(work[e], y) /\ work' = [work EXCEPT ![e] = y]
      BY <1>5, <2>1, <2>5, <3>1
    <3> HIDE DEF y
    <3> QED
      BY <1>7, <3>2
  <2> QED
    BY <2>3, <2>4, <2>6, <2>7, <2>8, Zenon DEF MonitorFails
<1>9. \A f \in Event : work'[f] \in EventState
  BY <1>8 DEF Ended
<1>10. work' \in [Event -> EventState]
  BY <1>8, <1>9
<1> QED
  BY <1>8, <1>10, Zenon DEF Ended, MonitorFails, MonitorTyped

\* What WalletService and its clients do to the transaction's documents.
LEMMA ServiceDoes ==
  ASSUME MonitorTyped, NEW p,
         \/ BroadcastTx \/ ProcessBroadcast
         \/ p \in Pocketeers /\ (TxConfirmationSubscribe(p) \/ TxConfirmationUnsubscribe(p))
  PROVE  MonitorTyped' /\ UNCHANGED <<notificationVars, work>>
<1>1. CASE BroadcastTx
  BY <1>1 DEF BroadcastTx, MonitorTyped
<1>2. CASE ProcessBroadcast
  <2>1. PICK d \in DOMAIN docs : docs' = [docs EXCEPT ![d] = "broadcasted"]
    BY <1>2 DEF ProcessBroadcast
  <2>2. docs' \in Seq({"accepted", "broadcasted"})
    BY <2>1, ExceptSeq DEF MonitorTyped
  <2> QED
    BY <1>2, <2>2 DEF ProcessBroadcast, MonitorTyped
<1>3. CASE p \in Pocketeers /\ TxConfirmationSubscribe(p)
  BY <1>3 DEF TxConfirmationSubscribe, MonitorTyped
<1>4. CASE p \in Pocketeers /\ TxConfirmationUnsubscribe(p)
  BY <1>4 DEF TxConfirmationUnsubscribe, MonitorTyped
<1> QED
  BY <1>1, <1>2, <1>3, <1>4

\* Every step of the monitor keeps its types and the notifications.
LEMMA MonitorTypes ==
  ASSUME MonitorTyped, NotificationsTypeOK, NotesFit, MonitorNext
  PROVE  /\ MonitorTyped' /\ NotificationsTypeOK' /\ NotesFit' /\ SentKept
         /\ trouble => trouble'
         /\ UNCHANGED <<listening, clock>>
<1>0. sent \in Seq(Notification)
  BY DEF NotificationsTypeOK
<1>1. UNCHANGED notificationVars =>
        /\ NotificationsTypeOK' /\ NotesFit' /\ SentKept /\ (trouble => trouble')
        /\ UNCHANGED <<listening, clock>>
  BY DEF notificationVars, NotificationsTypeOK, NotesFit, SentKept, SameNote
<1>2. CASE NextDay
  BY <1>2, DayPassesStep DEF NextDay, DayPasses, MonitorTyped, monitorVars
<1>3. ASSUME NEW p,
             \/ BroadcastTx \/ ProcessBroadcast
             \/ p \in Pocketeers /\ (TxConfirmationSubscribe(p) \/ TxConfirmationUnsubscribe(p))
      PROVE  MonitorTyped' /\ UNCHANGED notificationVars
  BY <1>3, ServiceDoes
<1>4. ASSUME NEW e \in Event, NEW o \in DOMAIN Outs, TellPayment(e, o)
      PROVE  /\ MonitorTyped' /\ NotificationsTypeOK' /\ NotesFit' /\ SentKept
             /\ trouble => trouble'
             /\ UNCHANGED <<listening, clock>>
  BY <1>0, <1>4, TellPaymentDoes, SentStepKeeps DEF TellPayment, StoreAndBroadcast
<1>5. ASSUME NEW e \in Event, TellThirdParty(e)
      PROVE  /\ MonitorTyped' /\ NotificationsTypeOK' /\ NotesFit' /\ SentKept
             /\ trouble => trouble'
             /\ UNCHANGED <<listening, clock>>
  BY <1>0, <1>5, TellThirdPartyDoes, SentStepKeeps DEF TellThirdParty, StoreAndBroadcast
<1>6. ASSUME NEW e \in Event, NotifyNewBlock(e)
      PROVE  /\ MonitorTyped' /\ NotificationsTypeOK' /\ NotesFit' /\ SentKept
             /\ trouble => trouble'
             /\ UNCHANGED <<listening, clock>>
  BY <1>0, <1>6, NotifyNewBlockDoes, SentStepKeeps DEF NotifyNewBlock, StoreAndBroadcast
<1>7. ASSUME NEW e \in Event, NEW p \in Pocketeers, TellConfirmation(e, p)
      PROVE  /\ MonitorTyped' /\ NotificationsTypeOK' /\ NotesFit' /\ SentKept
             /\ trouble => trouble'
             /\ UNCHANGED <<listening, clock>>
  BY <1>0, <1>7, TellConfirmationDoes, SentStepKeeps DEF TellConfirmation, StoreAndBroadcast
<1>8. ASSUME NEW e \in Event,
             \/ IncomingTx(e) \/ FetchTx(e) \/ FetchTxAgain(e) \/ StoreBroadcasted(e)
             \/ NewBlock(e) \/ GetTxidsInBlock(e) \/ FetchSubs(e)
      PROVE  MonitorTyped' /\ UNCHANGED notificationVars
  <2>1. MonitorTyped'
    BY <1>8, IncomingTxDoes, FetchTxDoes, FetchTxAgainDoes, StoreBroadcastedDoes,
       NewBlockDoes, GetTxidsInBlockDoes, FetchSubsDoes
  <2>2. UNCHANGED notificationVars
    BY <1>8 DEF IncomingTx, FetchTx, FetchTxAgain, StoreBroadcasted, NewBlock,
                GetTxidsInBlock, FetchSubs
  <2> QED
    BY <2>1, <2>2
<1>9. ASSUME NEW e \in Event, NEW o \in DOMAIN Outs, LookupNotified(e, o)
      PROVE  MonitorTyped' /\ UNCHANGED notificationVars
  BY <1>9, LookupDoes DEF LookupNotified
<1>10. ASSUME NEW e \in Event, NEW p \in Pocketeers, StoreSub(e, p)
       PROVE  MonitorTyped' /\ UNCHANGED notificationVars
  BY <1>10, StoreSubDoes DEF StoreSub
<1>11. ASSUME NEW e \in Event, MonitorFails(e)
       PROVE  /\ MonitorTyped' /\ NotificationsTypeOK' /\ NotesFit' /\ SentKept
              /\ trouble => trouble'
              /\ UNCHANGED <<listening, clock>>
  BY <1>11, MonitorFailsDoes DEF NotificationsTypeOK, NotesFit, SentKept, SameNote
<1> QED
  BY <1>1, <1>2, <1>3, <1>4, <1>5, <1>6, <1>7, <1>8, <1>9, <1>10, <1>11 DEF MonitorNext

-----------------------------------------------------------------------------
(* The jobs of the email service.                                           *)

\* Mails go to addresses.
LEMMA RecipientsFit ==
  ASSUME NEW n, n.walletId \in Wallet
  PROVE  Recipients(n) \subseteq Address
<1> DEFINE prefs == Preferences[n.walletId]
<1>1. ASSUME NEW k \in DOMAIN prefs PROVE prefs[k].email \in Address
  BY DEF Address
<1> QED
  BY <1>1 DEF Recipients

\* One job changes.
OneJob(p, i, x) ==
  /\ x \in JobState
  /\ job' \in [Process -> [1..MaxSent -> JobState]]
  /\ job'[p][i] = x
  /\ \A q \in Process, j \in 1..MaxSent : <<q, j>> # <<p, i>> => job'[q][j] = job[q][j]

\* It gives its locks back.
Releases(p, i) ==
  \A id \in 0..MaxClock : lock'[id] = IF lock[id] = <<p, i>> THEN NoJob ELSE lock[id]

\* A job is changed by EXCEPT.
LEMMA JobStep ==
  ASSUME EmailTypeOK, NEW p \in Process, NEW i \in 1..MaxSent, NEW x \in JobState,
         job' = [job EXCEPT ![p][i] = x]
  PROVE  OneJob(p, i, x)
BY DEF EmailTypeOK, OneJob

\* If what it becomes fits, all jobs do.
LEMMA JobsFitStep ==
  ASSUME JobsFit, NEW p \in Process, NEW i \in 1..MaxSent, NEW x, OneJob(p, i, x),
         JobFits(x, i), UNCHANGED sent
  PROVE  JobsFit'
<1>1. ASSUME NEW y, NEW j, JobFits(y, j) PROVE JobFits(y, j)'
  BY <1>1 DEF JobFits
<1>2. ASSUME NEW q \in Process, NEW j \in 1..MaxSent
      PROVE  JobFits(job'[q][j], j)
  BY DEF OneJob, JobsFit
<1> QED
  BY <1>1, <1>2 DEF JobsFit, JobFits

\* What a step leaves of the notifications is enough for the jobs.
LEMMA JobsStay ==
  ASSUME JobsFit, SentKept, UNCHANGED job
  PROVE  JobsFit'
<1>1. ASSUME NEW i \in DOMAIN sent PROVE Recipients(sent'[i]) = Recipients(sent[i])
  BY DEF SentKept, SameNote, Recipients, NotifyAs
<1>2. \A i \in DOMAIN sent : i \in DOMAIN sent' /\ (ShouldMail(sent[i]) => ShouldMail(sent'[i]))
  BY DEF SentKept, SameNote, ShouldMail
<1>3. ASSUME NEW x, NEW i, JobFits(x, i) PROVE JobFits(x, i)'
  BY <1>1, <1>2, <1>3 DEF JobFits
<1> QED
  BY <1>3 DEF JobsFit, JobFits

\* Released gives a lock table without the locks of the job.
LEMMA ReleasedFits ==
  ASSUME EmailTypeOK, NEW p \in Process, NEW i \in 1..MaxSent, lock' = Released(p, i)
  PROVE  lock' \in [0..MaxClock -> Job \cup {NoJob}] /\ Releases(p, i)
BY DEF EmailTypeOK, Released, Releases

\* A job that is over fits any notification.
LEMMA OverFits == Over \in JobState /\ (\A i \in DOMAIN sent : JobFits(Over, i))
BY DEF Over, JobState, JobFits

-----------------------------------------------------------------------------
(* What the steps of the email service do.                                  *)

\* What the steps of the email service need to know.
EmailContext == EmailTypeOK /\ NotificationsTypeOK /\ NotesFit /\ JobsFit

\* A job takes the lock of its notification, or is over.
LEMMA SendEmailDoes ==
  ASSUME EmailContext, NEW p \in Process, NEW i \in 1..MaxSent, SendEmail(p, i)
  PROVE  /\ EmailTypeOK' /\ JobsFit'
         /\ i \in DOMAIN sent /\ job[p][i].pc = "idle"
         /\ UNCHANGED <<notificationVars, emails, mails>>
         /\ \/ /\ OneJob(p, i, job'[p][i]) /\ job'[p][i].pc = "fetch"
               /\ lock[sent[i].id] = NoJob
               /\ lock' = [lock EXCEPT ![sent[i].id] = <<p, i>>]
            \/ /\ OneJob(p, i, Over) /\ UNCHANGED lock
               /\ \/ ~ShouldMail(sent[i]) \/ Recipients(sent[i]) = {}
                  \/ lock[sent[i].id] # NoJob
<1> DEFINE id == sent[i].id
           wanted == ShouldMail(sent[i]) /\ Recipients(sent[i]) # {}
<1>1. /\ i \in DOMAIN sent /\ job[p][i].pc = "idle"
      /\ UNCHANGED <<notificationVars, emails, mails>>
  BY DEF SendEmail
<1>2. id \in 0..MaxClock /\ <<p, i>> \in Job /\ job[p][i] \in JobState
  <2>1. sent[i] \in Notification
    BY <1>1 DEF EmailContext, NotificationsTypeOK
  <2>2. sent[i].id \in 0..MaxClock
    BY <2>1 DEF Notification
  <2> QED
    BY <2>2 DEF EmailContext, Job, EmailTypeOK
<1>3. CASE wanted /\ lock[id] = NoJob
  <2> DEFINE x == [job[p][i] EXCEPT !.pc = "fetch"]
  <2>1. job' = [job EXCEPT ![p][i] = x]
    BY <1>3 DEF SendEmail
  <2>2. x \in JobState /\ x.pc = "fetch" /\ x.toMark = job[p][i].toMark
    BY <1>2 DEF JobState
  <2> HIDE DEF x
  <2>3. OneJob(p, i, x)
    BY <2>1, <2>2, JobStep DEF EmailContext
  <2>4. JobFits(job[p][i], i)
    BY DEF EmailContext, JobsFit
  <2>5. JobFits(x, i)
    BY <1>1, <1>3, <2>2, <2>4 DEF JobFits
  <2>6. JobsFit'
    BY <1>1, <2>3, <2>5, JobsFitStep DEF EmailContext, notificationVars
  <2>7. lock' = [lock EXCEPT ![id] = <<p, i>>]
    BY <1>3 DEF SendEmail
  <2>8. EmailTypeOK'
    BY <1>1, <1>2, <2>3, <2>7 DEF EmailContext, EmailTypeOK, OneJob
  <2>9. x = job'[p][i]
    BY <2>3 DEF OneJob
  <2> QED
    BY <1>1, <1>3, <2>2, <2>3, <2>6, <2>7, <2>8, <2>9
<1>4. CASE ~(wanted /\ lock[id] = NoJob)
  <2>1. job' = [job EXCEPT ![p][i] = Over] /\ UNCHANGED lock
    BY <1>4 DEF SendEmail
  <2>2. OneJob(p, i, Over)
    BY <2>1, OverFits, JobStep DEF EmailContext
  <2>3. JobsFit'
    BY <1>1, <2>2, OverFits, JobsFitStep DEF EmailContext, notificationVars
  <2>4. EmailTypeOK'
    BY <1>1, <2>1, <2>2 DEF EmailContext, EmailTypeOK, OneJob
  <2> QED
    BY <1>1, <1>4, <2>1, <2>2, <2>3, <2>4
<1> QED
  BY <1>3, <1>4

\* It sees whether the notification is queued: over, to store, or to drop.
LEMMA FetchEmailDoes ==
  ASSUME EmailContext, NEW p \in Process, NEW i \in 1..MaxSent, FetchEmail(p, i)
  PROVE  /\ EmailTypeOK' /\ JobsFit'
         /\ i \in DOMAIN sent /\ job[p][i].pc = "fetch"
         /\ UNCHANGED <<notificationVars, emails, mails>>
         /\ \/ /\ OneJob(p, i, Over) /\ Releases(p, i)
               /\ \E e \in emails : e.notificationId = sent[i].id
            \/ /\ OneJob(p, i, job'[p][i]) /\ job'[p][i].pc = "store"
               /\ job'[p][i].todo = Recipients(sent[i])
               /\ \A e \in emails : e.notificationId # sent[i].id
               /\ UNCHANGED lock
<1>1. /\ job[p][i].pc = "fetch" /\ UNCHANGED <<notificationVars, emails, mails>>
  BY DEF FetchEmail
<1>2. JobFits(job[p][i], i) /\ job[p][i] \in JobState
  BY DEF EmailContext, EmailTypeOK, JobsFit
<1>3. /\ i \in DOMAIN sent /\ ShouldMail(sent[i]) /\ Recipients(sent[i]) # {}
      /\ job[p][i].toMark = {}
  BY <1>1, <1>2 DEF JobFits
<1>4. Recipients(sent[i]) \subseteq Address
  <2>1. sent[i].type # "NewBlock"
    BY <1>3 DEF ShouldMail, EmailTypes, PocketeerType
  <2> QED
    BY <1>3, <2>1, RecipientsFit DEF EmailContext, NotesFit
<1>5. CASE \E e \in emails : e.notificationId = sent[i].id
  <2>1. job' = [job EXCEPT ![p][i] = Over] /\ lock' = Released(p, i)
    BY <1>5 DEF FetchEmail, Finish
  <2>2. OneJob(p, i, Over) /\ Releases(p, i) /\ lock' \in [0..MaxClock -> Job \cup {NoJob}]
    BY <2>1, OverFits, JobStep, ReleasedFits DEF EmailContext
  <2>3. JobsFit'
    BY <1>1, <1>3, <2>2, OverFits, JobsFitStep DEF EmailContext, notificationVars
  <2>4. EmailTypeOK'
    BY <1>1, <2>2 DEF EmailContext, EmailTypeOK, OneJob
  <2> QED
    BY <1>1, <1>3, <1>5, <2>2, <2>3, <2>4
<1>6. CASE \A e \in emails : e.notificationId # sent[i].id
  <2> DEFINE x == [job[p][i] EXCEPT !.pc = "store", !.todo = Recipients(sent[i])]
  <2>1. job' = [job EXCEPT ![p][i] = x] /\ UNCHANGED lock
    BY <1>6 DEF FetchEmail
  <2>2. /\ x \in JobState /\ x.pc = "store" /\ x.todo = Recipients(sent[i])
        /\ x.toMark = {}
    BY <1>2, <1>3, <1>4 DEF JobState
  <2> HIDE DEF x
  <2>3. OneJob(p, i, x)
    BY <2>1, <2>2, JobStep DEF EmailContext
  <2>4. JobFits(x, i)
    BY <1>3, <2>2 DEF JobFits
  <2>5. JobsFit'
    BY <1>1, <2>3, <2>4, JobsFitStep DEF EmailContext, notificationVars
  <2>6. EmailTypeOK'
    BY <1>1, <2>1, <2>3 DEF EmailContext, EmailTypeOK, OneJob
  <2>7. x = job'[p][i]
    BY <2>3 DEF OneJob
  <2> QED
    BY <1>1, <1>3, <1>6, <2>1, <2>2, <2>3, <2>5, <2>6, <2>7
<1> QED
  BY <1>5, <1>6

\* It stores a document; with the last one it starts to send.
LEMMA StoreEmailDoes ==
  ASSUME EmailContext, NEW p \in Process, NEW i \in 1..MaxSent, NEW to \in Address,
         StoreEmail(p, i, to)
  PROVE  /\ EmailTypeOK' /\ JobsFit'
         /\ i \in DOMAIN sent
         /\ UNCHANGED <<notificationVars, lock, mails>>
         /\ \E e : /\ emails' = emails \cup {e}
                   /\ e.notificationId = sent[i].id /\ e.job = <<p, i>> /\ e.to = to
         /\ OneJob(p, i, job'[p][i])
         /\ \/ job[p][i].pc \in {"store", "drop"} /\ job'[p][i].pc = job[p][i].pc
            \/ job[p][i].pc = "drop" /\ job'[p][i] = Over
            \/ /\ job[p][i].pc = "store" /\ job'[p][i].pc = "send"
               /\ job'[p][i].todo = Recipients(sent[i])
<1> DEFINE todo == job[p][i].todo \ {to}
           x == IF todo # {} THEN [job[p][i] EXCEPT !.todo = todo]
                ELSE IF job[p][i].pc = "drop" THEN Over
                ELSE [job[p][i] EXCEPT !.pc = "send", !.todo = Recipients(sent[i])]
           e == [notificationId |-> sent[i].id, job |-> <<p, i>>, to |-> to, status |-> "pending"]
<1>1. /\ job[p][i].pc \in {"store", "drop"} /\ to \in job[p][i].todo
      /\ emails' = emails \cup {e} /\ UNCHANGED <<notificationVars, lock, mails>>
      /\ job' = [job EXCEPT ![p][i] = x]
  BY DEF StoreEmail
<1>2. JobFits(job[p][i], i) /\ job[p][i] \in JobState
  BY DEF EmailContext, EmailTypeOK, JobsFit
<1>3. /\ i \in DOMAIN sent /\ ShouldMail(sent[i]) /\ Recipients(sent[i]) # {}
      /\ job[p][i].toMark = {}
  BY <1>1, <1>2 DEF JobFits
<1>4. Recipients(sent[i]) \subseteq Address
  <2>1. sent[i].type # "NewBlock"
    BY <1>3 DEF ShouldMail, EmailTypes, PocketeerType
  <2> QED
    BY <1>3, <2>1, RecipientsFit DEF EmailContext, NotesFit
<1>5. e \in Email
  <2>1. sent[i] \in Notification
    BY <1>3 DEF EmailContext, NotificationsTypeOK
  <2>2. sent[i].id \in 0..MaxClock /\ <<p, i>> \in Job
    BY <2>1 DEF Notification, Job
  <2> QED
    BY <2>2 DEF Email
<1>6. /\ x \in JobState /\ x.toMark = {} /\ JobFits(x, i)
      /\ \/ x.pc = job[p][i].pc
         \/ job[p][i].pc = "drop" /\ x = Over
         \/ job[p][i].pc = "store" /\ x.pc = "send" /\ x.todo = Recipients(sent[i])
  <2>1. CASE todo # {}
    <3> DEFINE y == [job[p][i] EXCEPT !.todo = todo]
    <3>1. y \in JobState /\ y.pc = job[p][i].pc /\ y.todo = todo /\ y.toMark = {}
      BY <1>2, <1>3 DEF JobState
    <3>2. x = y
      BY <2>1
    <3> HIDE DEF x, y
    <3> QED
      BY <1>1, <1>3, <2>1, <3>1, <3>2 DEF JobFits
  <2>2. CASE todo = {} /\ job[p][i].pc = "drop"
    <3>1. x = Over
      BY <2>2
    <3> HIDE DEF x
    <3> QED
      BY <1>3, <2>2, <3>1, OverFits DEF Over
  <2>3. CASE todo = {} /\ job[p][i].pc = "store"
    <3> DEFINE y == [job[p][i] EXCEPT !.pc = "send", !.todo = Recipients(sent[i])]
    <3>1. y \in JobState /\ y.pc = "send" /\ y.todo = Recipients(sent[i]) /\ y.toMark = {}
      BY <1>2, <1>3, <1>4 DEF JobState
    <3>2. x = y
      BY <2>3
    <3> HIDE DEF x, y
    <3> QED
      BY <1>3, <2>3, <3>1, <3>2 DEF JobFits
  <2> QED
    BY <1>1, <2>1, <2>2, <2>3
<1>7. /\ emails' = emails \cup {e}
      /\ e.notificationId = sent[i].id /\ e.job = <<p, i>> /\ e.to = to
  BY <1>1
<1> HIDE DEF x, e
<1>8. OneJob(p, i, x) /\ x = job'[p][i]
  <2>1. OneJob(p, i, x)
    BY <1>1, <1>6, JobStep DEF EmailContext
  <2> QED
    BY <2>1 DEF OneJob
<1>9. JobsFit'
  BY <1>1, <1>6, <1>8, JobsFitStep DEF EmailContext, notificationVars
<1>10. EmailTypeOK'
  BY <1>1, <1>5, <1>8 DEF EmailContext, EmailTypeOK, OneJob
<1>11. \/ job[p][i].pc \in {"store", "drop"} /\ job'[p][i].pc = job[p][i].pc
       \/ job[p][i].pc = "drop" /\ job'[p][i] = Over
       \/ /\ job[p][i].pc = "store" /\ job'[p][i].pc = "send"
          /\ job'[p][i].todo = Recipients(sent[i])
  BY <1>1, <1>6, <1>8
<1> QED
  BY <1>1, <1>3, <1>7, <1>8, <1>9, <1>10, <1>11

\* It cannot store: what it stored is in the queue for ever.
LEMMA StoreFailsDoes ==
  ASSUME EmailContext, NEW p \in Process, NEW i \in 1..MaxSent, NEW to \in Address,
         StoreFails(p, i, to)
  PROVE  /\ EmailTypeOK' /\ JobsFit'
         /\ i \in DOMAIN sent
         /\ UNCHANGED <<listening, clock, sent, emails, mails>> /\ trouble'
         /\ Releases(p, i)
         /\ job[p][i].pc \in {"store", "drop"}
         /\ OneJob(p, i, job'[p][i])
         /\ job'[p][i].pc \in {"over", "drop"}
<1> DEFINE todo == job[p][i].todo \ {to}
           x == IF todo = {} THEN Over ELSE [job[p][i] EXCEPT !.pc = "drop", !.todo = todo]
<1>1. /\ job[p][i].pc \in {"store", "drop"} /\ to \in job[p][i].todo
      /\ UNCHANGED <<listening, clock, sent, emails, mails>> /\ trouble'
      /\ job' = [job EXCEPT ![p][i] = x]
      /\ lock' = Released(p, i)
  BY DEF StoreFails
<1>2. JobFits(job[p][i], i) /\ job[p][i] \in JobState
  BY DEF EmailContext, EmailTypeOK, JobsFit
<1>3. /\ i \in DOMAIN sent /\ ShouldMail(sent[i]) /\ Recipients(sent[i]) # {}
      /\ job[p][i].toMark = {}
  BY <1>1, <1>2 DEF JobFits
<1>4. x \in JobState /\ x.pc \in {"over", "drop"} /\ JobFits(x, i)
  <2>1. CASE todo # {}
    <3> DEFINE y == [job[p][i] EXCEPT !.pc = "drop", !.todo = todo]
    <3>1. y \in JobState /\ y.pc = "drop" /\ y.todo = todo /\ y.toMark = {}
      BY <1>2, <1>3 DEF JobState
    <3>2. x = y
      BY <2>1
    <3> HIDE DEF x, y
    <3> QED
      BY <1>1, <1>3, <2>1, <3>1, <3>2 DEF JobFits
  <2>2. CASE todo = {}
    <3>1. x = Over
      BY <2>2
    <3> HIDE DEF x
    <3> QED
      BY <1>3, <3>1, OverFits DEF Over
  <2> QED
    BY <2>1, <2>2
<1> HIDE DEF x
<1>5. OneJob(p, i, x) /\ x = job'[p][i]
  <2>1. OneJob(p, i, x)
    BY <1>1, <1>4, JobStep DEF EmailContext
  <2> QED
    BY <2>1 DEF OneJob
<1>6. JobsFit'
  BY <1>1, <1>4, <1>5, JobsFitStep DEF EmailContext
<1>7. Releases(p, i) /\ lock' \in [0..MaxClock -> Job \cup {NoJob}]
  BY <1>1, ReleasedFits DEF EmailContext
<1>8. EmailTypeOK'
  BY <1>1, <1>5, <1>7 DEF EmailContext, EmailTypeOK, OneJob
<1> QED
  BY <1>1, <1>3, <1>4, <1>5, <1>6, <1>7, <1>8

\* It sends a mail, or fails to.
LEMMA SendDoes ==
  ASSUME EmailContext, NEW p \in Process, NEW i \in 1..MaxSent, NEW to \in Address,
         Send(p, i, to)
  PROVE  /\ EmailTypeOK' /\ JobsFit'
         /\ i \in DOMAIN sent
         /\ UNCHANGED <<listening, clock, sent, lock, emails>>
         /\ job[p][i].pc = "send" /\ to \in job[p][i].todo
         /\ OneJob(p, i, job'[p][i])
         /\ job'[p][i].pc = "send"
         /\ job'[p][i].todo = job[p][i].todo \ {to}
         /\ job'[p][i].toMark = job[p][i].toMark \cup {to}
         /\ \/ UNCHANGED trouble /\ mails' = [mails EXCEPT ![i][to] = mails[i][to] + 1]
            \/ trouble' /\ UNCHANGED mails
<1> DEFINE x == [job[p][i] EXCEPT !.todo = job[p][i].todo \ {to},
                                  !.toMark = job[p][i].toMark \cup {to}]
<1>1. /\ job[p][i].pc = "send" /\ to \in job[p][i].todo
      /\ UNCHANGED <<listening, clock, sent, lock, emails>>
      /\ \/ UNCHANGED trouble /\ mails' = [mails EXCEPT ![i][to] = mails[i][to] + 1]
         \/ trouble' /\ UNCHANGED mails
  BY DEF Send
<1>2. JobFits(job[p][i], i) /\ job[p][i] \in JobState
  BY DEF EmailContext, EmailTypeOK, JobsFit
<1>3. job' = [job EXCEPT ![p][i] = x]
  BY DEF Send, EmailContext, EmailTypeOK, JobState
<1>4. i \in DOMAIN sent /\ ShouldMail(sent[i]) /\ Recipients(sent[i]) # {}
  BY <1>1, <1>2 DEF JobFits
<1>5. /\ x \in JobState /\ x.pc = "send" /\ x.todo = job[p][i].todo \ {to}
      /\ x.toMark = job[p][i].toMark \cup {to}
  BY <1>1, <1>2 DEF JobState
<1> HIDE DEF x
<1>6. JobFits(x, i)
  BY <1>4, <1>5 DEF JobFits
<1>7. OneJob(p, i, x) /\ x = job'[p][i]
  <2>1. OneJob(p, i, x)
    BY <1>3, <1>5, JobStep DEF EmailContext
  <2> QED
    BY <2>1 DEF OneJob
<1>8. JobsFit'
  BY <1>1, <1>6, <1>7, JobsFitStep DEF EmailContext
<1>9. mails' \in [1..MaxSent -> [Address -> Nat]]
  <2>1. mails \in [1..MaxSent -> [Address -> Nat]]
    BY DEF EmailContext, EmailTypeOK
  <2>2. mails[i][to] + 1 \in Nat
    BY <2>1
  <2> QED
    BY <1>1, <2>1, <2>2
<1>10. EmailTypeOK'
  BY <1>1, <1>7, <1>9 DEF EmailContext, EmailTypeOK, OneJob
<1> QED
  BY <1>1, <1>4, <1>5, <1>7, <1>8, <1>10

\* Documents change their status only.
EmailsStay ==
  /\ \A e \in emails' : \E d \in emails :
       e.notificationId = d.notificationId /\ e.job = d.job /\ e.to = d.to
  /\ \A d \in emails : \E e \in emails' :
       e.notificationId = d.notificationId /\ e.job = d.job /\ e.to = d.to

\* Marking documents leaves them the documents of their jobs.
LEMMA MarkedStay ==
  ASSUME emails \subseteq Email, NEW marked \in SUBSET emails, NEW status \in {"sent", "fail"},
         emails' = (emails \ marked) \cup {[e EXCEPT !.status = status] : e \in marked}
  PROVE  emails' \subseteq Email /\ EmailsStay
<1>1. ASSUME NEW e \in Email
      PROVE  LET d == [e EXCEPT !.status = status] IN
             /\ d \in Email
             /\ d.notificationId = e.notificationId /\ d.job = e.job /\ d.to = e.to
  BY DEF Email
<1>2. ASSUME NEW e \in emails'
      PROVE  e \in Email /\ \E d \in emails :
               e.notificationId = d.notificationId /\ e.job = d.job /\ e.to = d.to
  <2>1. CASE e \in emails \ marked
    BY <2>1
  <2>2. CASE e \in {[d EXCEPT !.status = status] : d \in marked}
    <3>1. PICK d \in marked : e = [d EXCEPT !.status = status]
      BY <2>2
    <3> QED
      BY <1>1, <3>1
  <2> QED
    BY <2>1, <2>2
<1>3. ASSUME NEW d \in emails
      PROVE  \E e \in emails' :
               e.notificationId = d.notificationId /\ e.job = d.job /\ e.to = d.to
  <2>1. CASE d \in marked
    <3> DEFINE e == [d EXCEPT !.status = status]
    <3>1. e \in emails'
      BY <2>1
    <3>2. e.notificationId = d.notificationId /\ e.job = d.job /\ e.to = d.to
      BY <1>1
    <3> HIDE DEF e
    <3> QED
      BY <3>1, <3>2
  <2>2. CASE d \notin marked
    BY <2>2
  <2> QED
    BY <2>1, <2>2
<1> QED
  BY <1>2, <1>3 DEF EmailsStay

\* It marks documents as sent; with the last one it is over.
LEMMA MarkSentDoes ==
  ASSUME EmailContext, NEW p \in Process, NEW i \in 1..MaxSent, NEW to \in Address,
         MarkSent(p, i, to)
  PROVE  /\ EmailTypeOK' /\ JobsFit'
         /\ i \in DOMAIN sent
         /\ UNCHANGED <<listening, clock, sent, mails>>
         /\ EmailsStay
         /\ job[p][i].pc = "send"
         /\ OneJob(p, i, job'[p][i])
         /\ \/ /\ job'[p][i] = Over
               /\ job[p][i].todo = {} /\ job[p][i].toMark = {to}
               /\ Releases(p, i) /\ (trouble => trouble')
            \/ /\ job'[p][i].pc = "send" /\ job'[p][i].todo = job[p][i].todo
               /\ job'[p][i].toMark = job[p][i].toMark \ {to}
               /\ \/ UNCHANGED <<lock, trouble>>
                  \/ Releases(p, i) /\ trouble'
<1> DEFINE marked == {e \in emails : e.job = <<p, i>> /\ e.to = to}
           last == job[p][i].todo = {} /\ job[p][i].toMark = {to}
           status == IF mails[i][to] > 0 THEN "sent" ELSE "fail"
           x == IF last THEN Over
                ELSE [job[p][i] EXCEPT !.toMark = job[p][i].toMark \ {to}]
<1>1. /\ to \in job[p][i].toMark
      /\ UNCHANGED <<listening, clock, sent, mails>>
      /\ job' = [job EXCEPT ![p][i] = x]
      /\ \/ /\ emails' = (emails \ marked) \cup {[e EXCEPT !.status = status] : e \in marked}
            /\ lock' = IF last THEN Released(p, i) ELSE lock
            /\ UNCHANGED trouble
         \/ trouble' /\ lock' = Released(p, i) /\ UNCHANGED emails
  BY DEF MarkSent
<1>2. JobFits(job[p][i], i) /\ job[p][i] \in JobState
  BY DEF EmailContext, EmailTypeOK, JobsFit
<1>3. job[p][i].pc = "send" /\ i \in DOMAIN sent
  BY <1>1, <1>2 DEF JobFits
<1>4. ShouldMail(sent[i]) /\ Recipients(sent[i]) # {}
  BY <1>2, <1>3 DEF JobFits
<1>5. emails' \subseteq Email /\ EmailsStay
  <2>1. emails \subseteq Email
    BY DEF EmailContext, EmailTypeOK
  <2>2. CASE UNCHANGED emails
    BY <2>1, <2>2 DEF EmailsStay
  <2>3. CASE emails' = (emails \ marked) \cup {[e EXCEPT !.status = status] : e \in marked}
    <3>1. marked \in SUBSET emails /\ status \in {"sent", "fail"}
      OBVIOUS
    <3> HIDE DEF marked, status
    <3> QED
      BY <2>1, <2>3, <3>1, MarkedStay
  <2> QED
    BY <1>1, <2>2, <2>3
<1>6. x \in JobState /\ JobFits(x, i)
      /\ \/ last /\ x = Over
         \/ /\ ~last /\ x.pc = "send" /\ x.todo = job[p][i].todo
            /\ x.toMark = job[p][i].toMark \ {to}
  <2>1. CASE last
    <3>1. x = Over
      BY <2>1
    <3> HIDE DEF x
    <3> QED
      BY <1>3, <2>1, <3>1, OverFits
  <2>2. CASE ~last
    <3> DEFINE y == [job[p][i] EXCEPT !.toMark = job[p][i].toMark \ {to}]
    <3>1. /\ y \in JobState /\ y.pc = "send" /\ y.todo = job[p][i].todo
          /\ y.toMark = job[p][i].toMark \ {to}
      BY <1>2, <1>3 DEF JobState
    <3>2. x = y
      BY <2>2
    <3>3. y.todo \cup y.toMark # {}
      BY <1>1, <2>2, <3>1
    <3> HIDE DEF x, y
    <3> QED
      BY <1>3, <1>4, <2>2, <3>1, <3>2, <3>3 DEF JobFits
  <2> QED
    BY <2>1, <2>2
<1>7. /\ lock' = Released(p, i) => Releases(p, i)
      /\ lock' \in [0..MaxClock -> Job \cup {NoJob}]
  BY <1>1, ReleasedFits DEF EmailContext, EmailTypeOK
<1> HIDE DEF x
<1>8. OneJob(p, i, x)
  BY <1>1, <1>6, JobStep DEF EmailContext
<1>9. x = job'[p][i]
  BY <1>8 DEF OneJob
<1>10. JobsFit'
  BY <1>1, <1>6, <1>8, JobsFitStep DEF EmailContext
<1>11. EmailTypeOK'
  BY <1>1, <1>5, <1>7, <1>8 DEF EmailContext, EmailTypeOK, OneJob
<1>12. \/ /\ job'[p][i] = Over
          /\ job[p][i].todo = {} /\ job[p][i].toMark = {to}
          /\ Releases(p, i) /\ (trouble => trouble')
       \/ /\ job'[p][i].pc = "send" /\ job'[p][i].todo = job[p][i].todo
          /\ job'[p][i].toMark = job[p][i].toMark \ {to}
          /\ \/ UNCHANGED <<lock, trouble>>
             \/ Releases(p, i) /\ trouble'
  <2>1. CASE last
    BY <1>1, <1>6, <1>7, <1>9, <2>1
  <2>2. CASE ~last
    BY <1>1, <1>6, <1>7, <1>9, <2>2
  <2> QED
    BY <2>1, <2>2
<1> QED
  BY <1>1, <1>3, <1>5, <1>8, <1>9, <1>10, <1>11, <1>12

\* It fails before it stores anything.
LEMMA EmailFailsDoes ==
  ASSUME EmailContext, NEW p \in Process, NEW i \in 1..MaxSent, EmailFails(p, i)
  PROVE  /\ EmailTypeOK' /\ JobsFit'
         /\ i \in DOMAIN sent /\ job[p][i].pc \in {"idle", "fetch"}
         /\ UNCHANGED <<listening, clock, sent, emails, mails>> /\ trouble'
         /\ OneJob(p, i, Over) /\ Releases(p, i)
<1>1. /\ i \in DOMAIN sent /\ job[p][i].pc \in {"idle", "fetch"}
      /\ UNCHANGED <<listening, clock, sent, emails, mails>> /\ trouble'
      /\ job' = [job EXCEPT ![p][i] = Over] /\ lock' = Released(p, i)
  BY DEF EmailFails, Finish
<1>2. OneJob(p, i, Over)
  BY <1>1, OverFits, JobStep DEF EmailContext
<1>3. Releases(p, i) /\ lock' \in [0..MaxClock -> Job \cup {NoJob}]
  BY <1>1, ReleasedFits DEF EmailContext
<1>4. JobsFit'
  BY <1>1, <1>2, OverFits, JobsFitStep DEF EmailContext
<1>5. EmailTypeOK'
  BY <1>1, <1>2, <1>3 DEF EmailContext, EmailTypeOK, OneJob
<1> QED
  BY <1>1, <1>2, <1>3, <1>4, <1>5

\* A process stops: its jobs are over.
LEMMA CrashDoes ==
  ASSUME EmailContext, NEW p \in Process, Crash(p)
  PROVE  /\ EmailTypeOK' /\ JobsFit'
         /\ UNCHANGED <<listening, clock, sent, lock, emails, mails>> /\ trouble'
         /\ \A q \in Process, j \in 1..MaxSent :
              job'[q][j] = IF q = p /\ j \in DOMAIN sent THEN Over ELSE job[q][j]
<1>1. /\ UNCHANGED <<listening, clock, sent, lock, emails, mails>> /\ trouble'
      /\ job' = [job EXCEPT ![p] = [i \in 1..MaxSent |->
                   IF i \in DOMAIN sent THEN Over ELSE job[p][i]]]
  BY DEF Crash
<1>2. Over \in JobState /\ \A i \in DOMAIN sent : JobFits(Over, i)
  BY OverFits
<1>3. job \in [Process -> [1..MaxSent -> JobState]]
  BY DEF EmailContext, EmailTypeOK
<1>4. \A q \in Process, j \in 1..MaxSent :
        job'[q][j] = IF q = p /\ j \in DOMAIN sent THEN Over ELSE job[q][j]
  BY <1>1, <1>3
<1>5. job' \in [Process -> [1..MaxSent -> JobState]]
  BY <1>1, <1>2, <1>3
<1>6. EmailTypeOK'
  BY <1>1, <1>5 DEF EmailContext, EmailTypeOK
<1>7. ASSUME NEW x, NEW j, JobFits(x, j) PROVE JobFits(x, j)'
  BY <1>1, <1>7 DEF JobFits
<1>8. ASSUME NEW q \in Process, NEW j \in 1..MaxSent
      PROVE  JobFits(job'[q][j], j)
  BY <1>2, <1>4 DEF EmailContext, JobsFit
<1>9. JobsFit'
  BY <1>7, <1>8 DEF JobsFit, JobFits
<1> QED
  BY <1>1, <1>4, <1>6, <1>9

\* A lock expires.
LEMMA LockExpiresDoes ==
  ASSUME EmailContext, NEW id \in 0..MaxClock, LockExpires(id)
  PROVE  /\ EmailTypeOK' /\ JobsFit'
         /\ UNCHANGED <<notificationVars, job, emails, mails>>
         /\ lock' = [lock EXCEPT ![id] = NoJob]
         /\ Prompt => \E q \in Process, j \in 1..MaxSent :
                        lock[id] = <<q, j>> /\ job[q][j].pc = "over"
<1>1. /\ lock[id] # NoJob /\ (Prompt => job[lock[id][1]][lock[id][2]].pc = "over")
      /\ UNCHANGED <<notificationVars, job, emails, mails>>
      /\ lock' = [lock EXCEPT ![id] = NoJob]
  BY DEF LockExpires
<1>2. lock[id] \in Job
  BY <1>1 DEF EmailContext, EmailTypeOK
<1>3. PICK q \in Process, j \in 1..MaxSent : lock[id] = <<q, j>>
  BY <1>2 DEF Job
<1>4. EmailTypeOK'
  BY <1>1 DEF EmailContext, EmailTypeOK
<1>5. JobsFit'
  BY <1>1 DEF EmailContext, JobsFit, JobFits, notificationVars
<1> QED
  BY <1>1, <1>3, <1>4, <1>5

\* Every step of the email service keeps its types, and the notifications.
LEMMA EmailStepFits ==
  ASSUME EmailContext, EmailNext
  PROVE  EmailTypeOK' /\ JobsFit' /\ UNCHANGED <<listening, clock, sent>>
<1>1. ASSUME NEW p \in Process, NEW i \in 1..MaxSent,
             SendEmail(p, i) \/ FetchEmail(p, i) \/ EmailFails(p, i)
      PROVE  EmailTypeOK' /\ JobsFit' /\ UNCHANGED <<listening, clock, sent>>
  BY <1>1, SendEmailDoes, FetchEmailDoes, EmailFailsDoes DEF notificationVars
<1>2. ASSUME NEW p \in Process, NEW i \in 1..MaxSent, NEW to \in Address,
             StoreEmail(p, i, to) \/ StoreFails(p, i, to) \/ Send(p, i, to) \/ MarkSent(p, i, to)
      PROVE  EmailTypeOK' /\ JobsFit' /\ UNCHANGED <<listening, clock, sent>>
  BY <1>2, StoreEmailDoes, StoreFailsDoes, SendDoes, MarkSentDoes DEF notificationVars
<1>3. ASSUME NEW p \in Process, Crash(p)
      PROVE  EmailTypeOK' /\ JobsFit' /\ UNCHANGED <<listening, clock, sent>>
  BY <1>3, CrashDoes
<1>4. ASSUME NEW id \in 0..MaxClock, LockExpires(id)
      PROVE  EmailTypeOK' /\ JobsFit' /\ UNCHANGED <<listening, clock, sent>>
  BY <1>4, LockExpiresDoes DEF notificationVars
<1> QED
  BY <1>1, <1>2, <1>3, <1>4 DEF EmailNext

-----------------------------------------------------------------------------
(* The pushes.                                                              *)

\* One push changes.
OnePush(p, i, x) ==
  /\ x \in PushState
  /\ push' \in [Process -> [1..MaxSent -> PushState]]
  /\ push'[p][i] = x
  /\ \A q \in Process, j \in 1..MaxSent : <<q, j>> # <<p, i>> => push'[q][j] = push[q][j]

\* A push is changed by EXCEPT.
LEMMA PushStep ==
  ASSUME PushTypeOK, NEW p \in Process, NEW i \in 1..MaxSent, NEW x \in PushState,
         push' = [push EXCEPT ![p][i] = x]
  PROVE  OnePush(p, i, x)
BY DEF PushTypeOK, OnePush

\* If what it becomes fits, all pushes do.
LEMMA PushesFitStep ==
  ASSUME PushesFit, NEW p \in Process, NEW i \in 1..MaxSent, NEW x, OnePush(p, i, x),
         PushFits(x, i, sent), UNCHANGED sent
  PROVE  PushesFit'
BY DEF OnePush, PushesFit

\* What a step leaves of the notifications is enough for the pushes.
LEMMA PushesStay ==
  ASSUME PushesFit, SentKept, UNCHANGED push
  PROVE  PushesFit'
<1>1. ASSUME NEW i \in DOMAIN sent
      PROVE  /\ i \in DOMAIN sent'
             /\ sent'[i].walletId = sent[i].walletId
             /\ ShouldSend(sent'[i]) = ShouldSend(sent[i])
             /\ MembersFor(sent'[i]) = MembersFor(sent[i])
  BY DEF SentKept, SameNote, ShouldSend, MembersFor, PushedTo
<1>2. ASSUME NEW x, NEW i, PushFits(x, i, sent) PROVE PushFits(x, i, sent')
  BY <1>1, <1>2 DEF PushFits
<1> QED
  BY <1>2 DEF PushesFit

\* The members of a wallet are pocketeers.
LEMMA MembersFit ==
  ASSUME NEW w \in Wallet
  PROVE  /\ Members[w] \in Seq(Pocketeer)
         /\ DOMAIN Members[w] = 1..Len(Members[w]) /\ Len(Members[w]) \in Nat
         /\ \A k \in DOMAIN Members[w] : Members[w][k] \in Pocketeer
<1>1. Members[w] \in Seq(Pocketeer)
  BY PushAssumption
<1> QED
  BY <1>1

\* A recipient is made of a preference or of what stands in for it.
LEMMA RecipientOfFits ==
  ASSUME NEW w \in Wallet, NEW q \in Pocketeer, NEW preference \in Preference
  PROVE  RecipientOf(w, q, preference) \in Recipient /\ RecipientOf(w, q, preference).pocketeerId = q
BY PushAssumption DEF RecipientOf, Recipient, Preference, OrDefault

\* What the steps of the push service need to know.
PushContext == PushTypeOK /\ NotificationsTypeOK /\ NotesFit /\ PushesFit

\* A pocketeer does something that others are told of.
LEMMA NotifyDoes ==
  ASSUME PushContext, NEW type \in ActType, NEW w \in Wallet, NEW q \in Pocketeer,
         Notify(type, w, q)
  PROVE  /\ PushTypeOK' /\ NotificationsTypeOK' /\ NotesFit'
         /\ UNCHANGED <<listening, clock, preferenceOf, devices, edits, push, pushed, touched>>
         /\ trouble => trouble'
         /\ \E m : SentStep(m) /\ m.type \in PocketeerType
<1> DEFINE n == CreateNotification(type, w, q, 0)
<1>1. n \in Notification /\ n.type = type /\ n.walletId = w
  BY PushAssumption DEF CreateNotification, Notification, Type, NotificationsTypeOK, PushContext
<1>2. StoreAndBroadcast(n)
  BY DEF Notify
<1>3. UNCHANGED <<listening, clock>>
  BY <1>2 DEF StoreAndBroadcast
<1> HIDE DEF n
<1>4. /\ NotificationsTypeOK' /\ NotesFit' /\ (trouble => trouble')
      /\ \E m : SentStep(m) /\ m.type = type
  BY <1>1, <1>2, StoreAndBroadcastStep DEF PushContext
<1>5. PushTypeOK'
  BY DEF Notify, PushContext, PushTypeOK
<1> QED
  BY <1>3, <1>4, <1>5, PushAssumption DEF Notify

\* What pocketeers change is theirs.
LEMMA EditDoes ==
  ASSUME PushContext, NEW q \in Pocketeer, NEW token, NEW opts,
         \/ token \in Token /\ PushNotificationsSubscribe(q, token)
         \/ token \in Token /\ PushNotificationsUnsubscribe(q, token)
         \/ opts \in SavablePreference /\ SavePreferences(q, opts)
  PROVE  /\ PushTypeOK'
         /\ UNCHANGED <<notificationVars, push, pushed>>
         /\ touched' = IF sent = << >> THEN touched ELSE touched \cup {q}
         /\ \A r \in Pocketeer : r # q => preferenceOf'[r] = preferenceOf[r]
         /\ \A d : d[1] # q => (d \in devices' <=> d \in devices)
<1>1. /\ UNCHANGED <<notificationVars, push, pushed, acts>>
      /\ touched' = IF sent = << >> THEN touched ELSE touched \cup {q}
      /\ edits < MaxEdits /\ edits' = edits + 1
  BY DEF PushNotificationsSubscribe, PushNotificationsUnsubscribe, SavePreferences, Touch
<1>2. preferenceOf' \in [Pocketeer -> Preference] /\ devices' \subseteq Pocketeer \X Token
  <2>0. preferenceOf \in [Pocketeer -> Preference] /\ devices \subseteq Pocketeer \X Token
    BY DEF PushContext, PushTypeOK
  <2>1. CASE token \in Token /\ PushNotificationsSubscribe(q, token)
    BY <2>0, <2>1 DEF PushNotificationsSubscribe
  <2>2. CASE token \in Token /\ PushNotificationsUnsubscribe(q, token)
    BY <2>0, <2>2 DEF PushNotificationsUnsubscribe
  <2>3. CASE opts \in SavablePreference /\ SavePreferences(q, opts)
    <3> DEFINE pref == [language |-> OrDefault(opts.language, preferenceOf[q].language),
                        unit |-> OrDefault(opts.unit, preferenceOf[q].unit)]
    <3>1. preferenceOf[q] \in Preference
      BY <2>0
    <3>2. pref \in Preference
      BY <2>3, <3>1, PushAssumption DEF Preference, SavablePreference, OrDefault
    <3>3. preferenceOf' = [preferenceOf EXCEPT ![q] = pref] /\ UNCHANGED devices
      BY <2>3 DEF SavePreferences
    <3> HIDE DEF pref
    <3> QED
      BY <2>0, <3>2, <3>3
  <2> QED
    BY <2>1, <2>2, <2>3
<1>3. /\ \A r \in Pocketeer : r # q => preferenceOf'[r] = preferenceOf[r]
      /\ \A d : d[1] # q => (d \in devices' <=> d \in devices)
  BY DEF PushNotificationsSubscribe, PushNotificationsUnsubscribe, SavePreferences,
         PushContext, PushTypeOK
<1>4. edits' \in 0..MaxEdits /\ touched' \subseteq Pocketeer
  BY <1>1, PushAssumption DEF PushContext, PushTypeOK
<1> QED
  BY <1>1, <1>2, <1>3, <1>4 DEF PushContext, PushTypeOK

\* A push goes on to its recipients, or is over.
LEMMA SendPushNotificationsDoes ==
  ASSUME PushContext, NEW p \in Process, NEW i \in 1..MaxSent, SendPushNotifications(p, i)
  PROVE  /\ PushTypeOK' /\ PushesFit'
         /\ UNCHANGED <<notificationVars, preferenceOf, devices, edits, acts, pushed, touched>>
         /\ i \in DOMAIN sent /\ push[p][i].pc = "idle"
         /\ OnePush(p, i, push'[p][i])
         /\ push'[p][i].pc = IF ShouldSend(sent[i]) THEN "recipients" ELSE "over"
<1> DEFINE pc == IF ShouldSend(sent[i]) THEN "recipients" ELSE "over"
           x == [push[p][i] EXCEPT !.pc = pc]
<1>1. /\ UNCHANGED <<notificationVars, preferenceOf, devices, edits, acts, pushed, touched>>
      /\ i \in DOMAIN sent /\ push[p][i].pc = "idle"
      /\ push' = [push EXCEPT ![p][i] = x]
  BY DEF SendPushNotifications
<1>2. push[p][i] \in PushState /\ PushFits(push[p][i], i, sent)
  BY DEF PushContext, PushTypeOK, PushesFit
<1>3. pc \in {"recipients", "over"} /\ (pc = "recipients" => ShouldSend(sent[i]))
  OBVIOUS
<1> HIDE DEF pc
<1>4. x \in PushState /\ x.pc = pc /\ x.todo = push[p][i].todo
  BY <1>2, <1>3 DEF PushState
<1> HIDE DEF x
<1>5. PushFits(x, i, sent)
  BY <1>1, <1>2, <1>3, <1>4 DEF PushFits
<1>6. OnePush(p, i, x)
  BY <1>1, <1>4, PushStep DEF PushContext
<1>7. x = push'[p][i]
  BY <1>6 DEF OnePush
<1>8. PushesFit'
  <2>1. UNCHANGED sent /\ PushesFit
    BY <1>1 DEF PushContext, notificationVars
  <2> QED
    BY <1>5, <1>6, <2>1, PushesFitStep
<1>9. PushTypeOK'
  BY <1>1, <1>6, SMTT(30) DEF PushContext, PushTypeOK, OnePush
<1> QED
  BY <1>1, <1>4, <1>6, <1>7, <1>8, <1>9 DEF pc

\* Its recipients are those the notification is for.
LEMMA GetRecipientsDoes ==
  ASSUME PushContext, NEW p \in Process, NEW i \in 1..MaxSent, GetRecipients(p, i)
  PROVE  /\ PushTypeOK' /\ PushesFit'
         /\ UNCHANGED <<listening, clock, sent, preferenceOf, devices, edits, acts, pushed, touched>>
         /\ i \in DOMAIN sent /\ push[p][i].pc = "recipients"
         /\ OnePush(p, i, push'[p][i])
         /\ push'[p][i].pc = "devices"
         /\ trouble => trouble'
         /\ ~trouble' => \A k \in MembersFor(sent[i]) :
              LET w == sent[i].walletId
              IN  push'[p][i].recipients[k] =
                    RecipientOf(w, Members[w][k], preferenceOf[Members[w][k]])
<1> DEFINE w == sent[i].walletId
           members == MembersFor(sent[i])
           none == [language |-> Unset, unit |-> Unset]
<1>1. /\ UNCHANGED <<listening, clock, sent, preferenceOf, devices, edits, acts, pushed, touched>>
      /\ push[p][i].pc = "recipients"
  BY DEF GetRecipients
<1>2. PICK fails \in BOOLEAN :
        /\ push' = [push EXCEPT ![p][i] =
             [@ EXCEPT !.pc = "devices",
                       !.recipients = [k \in members |->
                          RecipientOf(w, Members[w][k],
                            IF fails THEN none ELSE preferenceOf[Members[w][k]])]]]
        /\ trouble' = (trouble \/ fails)
  BY Zenon DEF GetRecipients, MembersFor
<1> DEFINE recipients == [k \in members |->
             RecipientOf(w, Members[w][k],
               IF fails THEN none ELSE preferenceOf[Members[w][k]])]
           x == [push[p][i] EXCEPT !.pc = "devices", !.recipients = recipients]
<1>3. push[p][i] \in PushState /\ PushFits(push[p][i], i, sent)
  BY DEF PushContext, PushTypeOK, PushesFit
<1>4. i \in DOMAIN sent /\ ShouldSend(sent[i]) /\ w \in Wallet
  <2>1. i \in DOMAIN sent /\ ShouldSend(sent[i])
    BY <1>1, <1>3 DEF PushFits
  <2>2. sent[i].type # "NewBlock"
    BY <2>1 DEF ShouldSend, PushTypes, PocketeerType
  <2> QED
    BY <2>1, <2>2 DEF PushContext, NotesFit
<1>5. members \subseteq DOMAIN Members[w] /\ \A k \in members : Members[w][k] \in Pocketeer
  BY <1>4, MembersFit DEF MembersFor
<1>6. ASSUME NEW k \in members
      PROVE  /\ recipients[k] \in Recipient /\ recipients[k].pocketeerId = Members[w][k]
             /\ ~fails => recipients[k] = RecipientOf(w, Members[w][k], preferenceOf[Members[w][k]])
  <2> DEFINE pref == IF fails THEN none ELSE preferenceOf[Members[w][k]]
  <2>1. pref \in Preference
    BY <1>5 DEF Preference, PushContext, PushTypeOK
  <2>2. recipients[k] = RecipientOf(w, Members[w][k], pref)
    OBVIOUS
  <2>3. ~fails => pref = preferenceOf[Members[w][k]]
    OBVIOUS
  <2> HIDE DEF pref, recipients
  <2> QED
    BY <1>4, <1>5, <2>1, <2>2, <2>3, RecipientOfFits
<1>7. DOMAIN recipients = members /\ recipients \in [members -> Recipient]
  <2>1. recipients = [k \in members |-> recipients[k]]
    OBVIOUS
  <2> HIDE DEF recipients
  <2> QED
    BY <1>6, <2>1
<1>8. push' = [push EXCEPT ![p][i] = x]
  BY <1>2
<1> HIDE DEF recipients
<1>9. recipients \in RecipientsList
  BY <1>4, <1>5, <1>7 DEF RecipientsList
<1>10. /\ x \in PushState /\ x.pc = "devices" /\ x.recipients = recipients
       /\ x.todo = push[p][i].todo
  BY <1>3, <1>9 DEF PushState
<1> HIDE DEF x
<1>11. PushFits(x, i, sent)
  BY <1>1, <1>3, <1>4, <1>6, <1>7, <1>10 DEF PushFits
<1>12. OnePush(p, i, x)
  BY <1>8, <1>10, PushStep DEF PushContext
<1>13. x = push'[p][i]
  BY <1>12 DEF OnePush
<1>14. PushesFit'
  <2>1. UNCHANGED sent /\ PushesFit
    BY <1>1 DEF PushContext
  <2> QED
    BY <1>11, <1>12, <2>1, PushesFitStep
<1>15. PushTypeOK'
  BY <1>1, <1>12, SMTT(30) DEF PushContext, PushTypeOK, OnePush
<1>16. ~trouble' => \A k \in members : push'[p][i].recipients[k] =
                      RecipientOf(w, Members[w][k], preferenceOf[Members[w][k]])
  BY <1>2, <1>6, <1>10, <1>13
<1> QED
  BY <1>1, <1>2, <1>4, <1>10, <1>12, <1>13, <1>14, <1>15, <1>16

\* Its requests are for the devices of its recipients.
LEMMA FetchDevicesDoes ==
  ASSUME PushContext, NEW p \in Process, NEW i \in 1..MaxSent, FetchDevices(p, i)
  PROVE  /\ PushTypeOK' /\ PushesFit'
         /\ UNCHANGED <<notificationVars, preferenceOf, devices, edits, acts, pushed, touched>>
         /\ i \in DOMAIN sent /\ push[p][i].pc = "devices"
         /\ OnePush(p, i, push'[p][i])
         /\ push'[p][i].pc = "send" /\ push'[p][i].recipients = push[p][i].recipients
         /\ push'[p][i].todo =
              {d \in devices : \E k \in DOMAIN push[p][i].recipients :
                                 push[p][i].recipients[k].pocketeerId = d[1]}
<1> DEFINE todo == {d \in devices : \E k \in DOMAIN push[p][i].recipients :
                                      push[p][i].recipients[k].pocketeerId = d[1]}
           x == [push[p][i] EXCEPT !.pc = "send", !.todo = todo]
<1>1. /\ UNCHANGED <<notificationVars, preferenceOf, devices, edits, acts, pushed, touched>>
      /\ push[p][i].pc = "devices"
      /\ push' = [push EXCEPT ![p][i] = x]
  BY DEF FetchDevices
<1>2. push[p][i] \in PushState /\ PushFits(push[p][i], i, sent)
  BY DEF PushContext, PushTypeOK, PushesFit
<1>3. todo \in SUBSET (Pocketeer \X Token)
  BY DEF PushContext, PushTypeOK
<1>4. \A d \in todo : \E k \in DOMAIN push[p][i].recipients :
                        push[p][i].recipients[k].pocketeerId = d[1]
  OBVIOUS
<1>5. todo = {d \in devices : \E k \in DOMAIN push[p][i].recipients :
                                push[p][i].recipients[k].pocketeerId = d[1]}
  OBVIOUS
<1> HIDE DEF todo
<1>6. /\ x \in PushState /\ x.pc = "send" /\ x.recipients = push[p][i].recipients
      /\ x.todo = todo
  BY <1>2, <1>3 DEF PushState
<1> HIDE DEF x
<1>7. PushFits(x, i, sent)
  BY <1>1, <1>2, <1>4, <1>6 DEF PushFits
<1>8. OnePush(p, i, x)
  BY <1>1, <1>6, PushStep DEF PushContext
<1>9. x = push'[p][i]
  BY <1>8 DEF OnePush
<1>10. PushesFit'
  <2>1. UNCHANGED sent /\ PushesFit
    BY <1>1 DEF PushContext, notificationVars
  <2> QED
    BY <1>7, <1>8, <2>1, PushesFitStep
<1>11. PushTypeOK'
  BY <1>1, <1>8 DEF PushContext, PushTypeOK, OnePush
<1>12. i \in DOMAIN sent
  BY <1>1, <1>2, SMTT(30) DEF PushFits
<1> QED
  BY <1>1, <1>5, <1>6, <1>8, <1>9, <1>10, <1>11, <1>12

\* A request carries the language of its recipient, and the unit of one with
\* the same language.
LEMMA MakeRequestDoes ==
  ASSUME PushContext, NEW p \in Process, NEW i \in 1..MaxSent, NEW d \in push[p][i].todo,
         MakeRequest(p, i, d)
  PROVE  /\ PushTypeOK' /\ PushesFit'
         /\ UNCHANGED <<listening, clock, sent, preferenceOf, devices, edits, acts, touched>>
         /\ i \in DOMAIN sent /\ push[p][i].pc = "send"
         /\ OnePush(p, i, push'[p][i])
         /\ push'[p][i].pc = "send" /\ push'[p][i].recipients = push[p][i].recipients
         /\ push'[p][i].todo = push[p][i].todo \ {d}
         /\ \/ /\ UNCHANGED trouble
               /\ \E r \in [by: Process, about: 1..MaxSent, pocketeerId: Pocketeer, to: Token,
                            language: Language, unit: Unit],
                     k, l \in MembersFor(sent[i]) :
                    /\ pushed' = pushed \cup {r}
                    /\ r.by = p /\ r.about = i /\ r.pocketeerId = d[1] /\ r.to = d[2]
                    /\ push[p][i].recipients[k].pocketeerId = d[1]
                    /\ r.language = push[p][i].recipients[k].language
                    /\ push[p][i].recipients[l].language = r.language
                    /\ r.unit = push[p][i].recipients[l].unit
            \/ trouble' /\ UNCHANGED pushed
<1> DEFINE recipients == push[p][i].recipients
           k == CHOOSE j \in DOMAIN recipients : recipients[j].pocketeerId = d[1]
           language == recipients[k].language
           same == {j \in DOMAIN recipients : recipients[j].language = language}
           x == [push[p][i] EXCEPT !.todo = push[p][i].todo \ {d}]
           r == [by |-> p, about |-> i, pocketeerId |-> d[1], to |-> d[2],
                 language |-> language, unit |-> ContentUnit(recipients, language)]
<1>1. /\ UNCHANGED <<listening, clock, sent, preferenceOf, devices, edits, acts, touched>>
      /\ push[p][i].pc = "send"
      /\ \/ pushed' = pushed \cup {r} /\ UNCHANGED trouble
         \/ trouble' /\ UNCHANGED pushed
  BY Zenon DEF MakeRequest
<1>2. push[p][i] \in PushState /\ PushFits(push[p][i], i, sent)
  BY DEF PushContext, PushTypeOK, PushesFit
<1>3. push' = [push EXCEPT ![p][i] = x]
  BY Zenon DEF MakeRequest, PushContext, PushTypeOK, PushState
<1>4. i \in DOMAIN sent /\ ShouldSend(sent[i]) /\ sent[i].walletId \in Wallet
  <2>1. i \in DOMAIN sent /\ ShouldSend(sent[i])
    BY <1>1, <1>2, Zenon DEF PushFits
  <2>2. sent[i].type # "NewBlock"
    BY <2>1 DEF ShouldSend, PushTypes, PocketeerType
  <2> QED
    BY <2>1, <2>2 DEF PushContext, NotesFit
<1>5. /\ DOMAIN recipients = MembersFor(sent[i])
      /\ \A j \in DOMAIN recipients : recipients[j] \in Recipient
      /\ \E j \in DOMAIN recipients : recipients[j].pocketeerId = d[1]
  <2>1. DOMAIN recipients = MembersFor(sent[i])
    BY <1>1, <1>2, Zenon DEF PushFits
  <2>2. recipients \in RecipientsList
    BY <1>2 DEF PushState
  <2>3. \A j \in DOMAIN recipients : recipients[j] \in Recipient
    BY <2>2 DEF RecipientsList
  <2>4. \E j \in DOMAIN recipients : recipients[j].pocketeerId = d[1]
    BY <1>1, <1>2, Zenon DEF PushFits
  <2> QED
    BY <2>1, <2>3, <2>4
<1> HIDE DEF recipients
<1>6. k \in DOMAIN recipients /\ recipients[k].pocketeerId = d[1]
  BY <1>5
<1> HIDE DEF k
<1>7. k \in same /\ same \subseteq DOMAIN recipients
  BY <1>6
<1>8. same \in SUBSET (1..Len(Members[sent[i].walletId])) /\ Len(Members[sent[i].walletId]) \in Nat
  BY <1>4, <1>5, <1>7, MembersFit DEF MembersFor
<1>9. \E m \in same : \A n \in same : m >= n
  BY <1>7, <1>8, LargestExists
<1>10. Max(same) \in same
  BY <1>9 DEF Max
<1> DEFINE l == Max(same)
<1>11. /\ l \in DOMAIN recipients /\ recipients[l].language = language
       /\ ContentUnit(recipients, language) = recipients[l].unit
  BY <1>10 DEF ContentUnit
<1> HIDE DEF l, same
<1>12. d \in Pocketeer \X Token
  BY <1>2 DEF PushState
<1>13. /\ r \in [by: Process, about: 1..MaxSent, pocketeerId: Pocketeer, to: Token,
                 language: Language, unit: Unit]
       /\ r.by = p /\ r.about = i /\ r.pocketeerId = d[1] /\ r.to = d[2]
       /\ r.language = recipients[k].language /\ recipients[l].language = r.language
       /\ r.unit = recipients[l].unit
  <2>1. language \in Language /\ recipients[l].unit \in Unit
    BY <1>5, <1>6, <1>11 DEF Recipient
  <2>2. d[1] \in Pocketeer /\ d[2] \in Token
    BY <1>12
  <2> QED
    BY <1>11, <2>1, <2>2
<1>14. /\ x \in PushState /\ x.pc = "send" /\ x.recipients = push[p][i].recipients
       /\ x.todo = push[p][i].todo \ {d}
  BY <1>1, <1>2 DEF PushState
<1> HIDE DEF x, r
<1>15. PushFits(x, i, sent)
  BY <1>1, <1>2, <1>14 DEF PushFits
<1>16. OnePush(p, i, x)
  BY <1>3, <1>14, PushStep DEF PushContext
<1>17. x = push'[p][i]
  BY <1>16 DEF OnePush
<1>18. PushesFit'
  BY <1>1, <1>15, <1>16, PushesFitStep DEF PushContext
<1>19. PushTypeOK'
  BY <1>1, <1>13, <1>16 DEF PushContext, PushTypeOK, OnePush
<1>20. \/ /\ UNCHANGED trouble
          /\ \E y \in [by: Process, about: 1..MaxSent, pocketeerId: Pocketeer, to: Token,
                       language: Language, unit: Unit],
                g, h \in MembersFor(sent[i]) :
               /\ pushed' = pushed \cup {y}
               /\ y.by = p /\ y.about = i /\ y.pocketeerId = d[1] /\ y.to = d[2]
               /\ recipients[g].pocketeerId = d[1]
               /\ y.language = recipients[g].language
               /\ recipients[h].language = y.language
               /\ y.unit = recipients[h].unit
       \/ trouble' /\ UNCHANGED pushed
  <2>1. k \in MembersFor(sent[i]) /\ l \in MembersFor(sent[i])
    BY <1>5, <1>6, <1>11
  <2> QED
    BY <1>1, <1>6, <1>13, <2>1
<1> QED
  BY <1>1, <1>4, <1>14, <1>16, <1>17, <1>18, <1>19, <1>20 DEF recipients

\* A push without requests left is over.
LEMMA PushDoneDoes ==
  ASSUME PushContext, NEW p \in Process, NEW i \in 1..MaxSent, PushDone(p, i)
  PROVE  /\ PushTypeOK' /\ PushesFit'
         /\ UNCHANGED <<notificationVars, preferenceOf, devices, edits, acts, pushed, touched>>
         /\ i \in DOMAIN sent /\ push[p][i].pc = "send" /\ push[p][i].todo = {}
         /\ OnePush(p, i, push'[p][i])
         /\ push'[p][i].pc = "over"
<1> DEFINE x == [push[p][i] EXCEPT !.pc = "over", !.recipients = << >>]
<1>1. /\ UNCHANGED <<notificationVars, preferenceOf, devices, edits, acts, pushed, touched>>
      /\ push[p][i].pc = "send" /\ push[p][i].todo = {}
      /\ push' = [push EXCEPT ![p][i] = x]
  BY DEF PushDone
<1>2. push[p][i] \in PushState /\ PushFits(push[p][i], i, sent)
  BY DEF PushContext, PushTypeOK, PushesFit
<1>3. << >> \in RecipientsList
  <2>1. << >> \in [{} -> Recipient]
    OBVIOUS
  <2> QED
    BY <2>1 DEF RecipientsList
<1>4. x \in PushState /\ x.pc = "over" /\ x.todo = {}
  BY <1>1, <1>2, <1>3 DEF PushState
<1> HIDE DEF x
<1>5. PushFits(x, i, sent) /\ i \in DOMAIN sent
  BY <1>1, <1>2, <1>4 DEF PushFits
<1>6. OnePush(p, i, x)
  BY <1>1, <1>4, PushStep DEF PushContext
<1>7. x = push'[p][i]
  BY <1>6 DEF OnePush
<1>8. PushesFit'
  <2>1. UNCHANGED sent /\ PushesFit
    BY <1>1 DEF PushContext, notificationVars
  <2> QED
    BY <1>5, <1>6, <2>1, PushesFitStep
<1>9. PushTypeOK'
  BY <1>1, <1>6 DEF PushContext, PushTypeOK, OnePush
<1> QED
  BY <1>1, <1>4, <1>5, <1>6, <1>7, <1>8, <1>9

\* A push fails, and is over.
LEMMA PushFailsDoes ==
  ASSUME PushContext, NEW p \in Process, NEW i \in 1..MaxSent, PushFails(p, i)
  PROVE  /\ PushTypeOK' /\ PushesFit'
         /\ UNCHANGED <<listening, clock, sent, preferenceOf, devices, edits, acts, pushed, touched>>
         /\ trouble'
<1> DEFINE x == [pc |-> "over", recipients |-> << >>, todo |-> {}]
<1>1. /\ UNCHANGED <<listening, clock, sent, preferenceOf, devices, edits, acts, pushed, touched>>
      /\ push[p][i].pc # "idle" /\ trouble'
      /\ push' = [push EXCEPT ![p][i] = x]
  BY DEF PushFails
<1>2. PushFits(push[p][i], i, sent)
  BY DEF PushContext, PushesFit
<1>3. << >> \in RecipientsList
  <2>1. << >> \in [{} -> Recipient]
    OBVIOUS
  <2> QED
    BY <2>1 DEF RecipientsList
<1>4. x \in PushState /\ x.pc = "over" /\ x.todo = {}
  BY <1>3 DEF PushState
<1> HIDE DEF x
<1>5. PushFits(x, i, sent)
  BY <1>1, <1>2, <1>4 DEF PushFits
<1>6. OnePush(p, i, x)
  BY <1>1, <1>4, PushStep DEF PushContext
<1>7. PushesFit'
  BY <1>1, <1>5, <1>6, PushesFitStep DEF PushContext
<1>8. PushTypeOK'
  BY <1>1, <1>6 DEF PushContext, PushTypeOK, OnePush
<1> QED
  BY <1>1, <1>7, <1>8

\* Every step of the push service keeps its types, and the notifications.
LEMMA PushStepFits ==
  ASSUME PushContext, PushNext
  PROVE  /\ PushTypeOK' /\ PushesFit' /\ NotificationsTypeOK' /\ NotesFit' /\ SentKept
         /\ trouble => trouble'
         /\ UNCHANGED <<listening, clock>>
<1>0. /\ sent \in Seq(Notification)
      /\ UNCHANGED <<listening, clock, sent>> /\ trouble' \in BOOLEAN =>
           NotificationsTypeOK' /\ NotesFit' /\ SentKept
  BY DEF PushContext, NotificationsTypeOK, NotesFit, SentKept, SameNote
<1>00. UNCHANGED notificationVars =>
         UNCHANGED <<listening, clock, sent, trouble>> /\ trouble' \in BOOLEAN
  BY DEF notificationVars, PushContext, NotificationsTypeOK
<1>1. ASSUME NEW type \in ActType, NEW w \in Wallet, NEW q \in Pocketeer, Notify(type, w, q)
      PROVE  /\ PushTypeOK' /\ PushesFit' /\ NotificationsTypeOK' /\ NotesFit' /\ SentKept
             /\ trouble => trouble'
             /\ UNCHANGED <<listening, clock>>
  <2>1. PICK m : SentStep(m)
    BY <1>1, NotifyDoes
  <2>2. SentKept
    BY <1>0, <2>1, SentStepKeeps
  <2>3. PushesFit'
    BY <1>1, <2>2, NotifyDoes, PushesStay DEF PushContext
  <2> QED
    BY <1>1, <2>2, <2>3, NotifyDoes
<1>2. ASSUME NEW q \in Pocketeer, NEW token \in Token,
             PushNotificationsSubscribe(q, token) \/ PushNotificationsUnsubscribe(q, token)
      PROVE  PushTypeOK' /\ UNCHANGED <<notificationVars, push>>
  BY <1>2, EditDoes
<1>3. ASSUME NEW q \in Pocketeer, NEW opts \in SavablePreference, SavePreferences(q, opts)
      PROVE  PushTypeOK' /\ UNCHANGED <<notificationVars, push>>
  BY <1>3, EditDoes
<1>4. UNCHANGED <<notificationVars, push>> =>
        PushesFit' /\ NotificationsTypeOK' /\ NotesFit' /\ SentKept /\ UNCHANGED trouble
        /\ UNCHANGED <<listening, clock>>
  <2>1. UNCHANGED <<sent, push>> => PushesFit'
    BY DEF PushesFit, PushContext
  <2> QED
    BY <1>0, <1>00, <2>1 DEF notificationVars
<1>5. ASSUME NEW p \in Process, NEW i \in 1..MaxSent,
             SendPushNotifications(p, i) \/ FetchDevices(p, i) \/ PushDone(p, i)
      PROVE  PushTypeOK' /\ PushesFit' /\ UNCHANGED notificationVars
  BY <1>5, SendPushNotificationsDoes, FetchDevicesDoes, PushDoneDoes
<1>6. ASSUME NEW p \in Process, NEW i \in 1..MaxSent,
             \/ GetRecipients(p, i) \/ PushFails(p, i)
             \/ \E d \in push[p][i].todo : MakeRequest(p, i, d)
      PROVE  /\ PushTypeOK' /\ PushesFit' /\ UNCHANGED <<listening, clock, sent>>
             /\ (trouble => trouble') /\ trouble' \in BOOLEAN
  <2>1. CASE GetRecipients(p, i)
    BY <2>1, GetRecipientsDoes, Zenon DEF GetRecipients, PushContext, NotificationsTypeOK
  <2>2. CASE PushFails(p, i)
    BY <2>2, PushFailsDoes
  <2>3. CASE \E d \in push[p][i].todo : MakeRequest(p, i, d)
    <3>1. PICK d \in push[p][i].todo : MakeRequest(p, i, d)
      BY <2>3
    <3>2. trouble' \in BOOLEAN /\ (trouble => trouble')
      BY <3>1, Zenon DEF MakeRequest, PushContext, NotificationsTypeOK
    <3> QED
      BY <3>1, <3>2, MakeRequestDoes
  <2> QED
    BY <1>6, <2>1, <2>2, <2>3
<1>7. ASSUME UNCHANGED notificationVars PROVE NotificationsTypeOK' /\ NotesFit' /\ SentKept
  BY <1>0, <1>00, <1>7
<1>8. CASE \E type \in ActType, w \in Wallet, q \in Pocketeer : Notify(type, w, q)
  BY <1>1, <1>8
<1>9. CASE \/ \E q \in Pocketeer, token \in Token :
                PushNotificationsSubscribe(q, token) \/ PushNotificationsUnsubscribe(q, token)
           \/ \E q \in Pocketeer, opts \in SavablePreference : SavePreferences(q, opts)
  BY <1>2, <1>3, <1>4, <1>9
<1>10. CASE \E p \in Process, i \in 1..MaxSent :
              SendPushNotifications(p, i) \/ FetchDevices(p, i) \/ PushDone(p, i)
  BY <1>5, <1>7, <1>10 DEF notificationVars
<1>11. CASE \E p \in Process, i \in 1..MaxSent :
              \/ GetRecipients(p, i) \/ PushFails(p, i)
              \/ \E d \in push[p][i].todo : MakeRequest(p, i, d)
  BY <1>0, <1>6, <1>11
<1> QED
  BY <1>8, <1>9, <1>10, <1>11 DEF PushNext

-----------------------------------------------------------------------------
(* What the steps of a client that polls do.                                *)

\* What the steps of a client that polls need to know.
FeedContext == FeedTypeOK /\ clock \in 0..MaxClock /\ FeedFits

\* An id is made of the time and the ticker; the new notification is not stored.
LEMMA MakeNotificationDoes ==
  ASSUME FeedContext, NEW w \in Collections, NEW ticker \in 0..1, MakeNotification(w, ticker)
  PROVE  /\ FeedTypeOK' /\ FeedFits' /\ UNCHANGED <<asking, cursor, received>>
         /\ DOMAIN made \subseteq DOMAIN made'
         /\ \A k \in DOMAIN made : made'[k] = made[k]
         /\ \A k \in DOMAIN made' : k \notin DOMAIN made => ~made'[k].stored
<1> DEFINE n == [id |-> IdOf(clock, ticker), walletId |-> w, stored |-> FALSE, late |-> FALSE]
<1>1. n \in Draft /\ ~n.stored
  <2>1. IdOf(clock, ticker) \in Ids
    BY NotificationsAssumption DEF IdOf, Ids, FeedContext
  <2> QED
    BY <2>1 DEF Draft
<1>2. /\ made \in Seq(Draft) /\ Len(made) < MaxMade /\ made' = Append(made, n)
      /\ UNCHANGED <<asking, cursor, received>>
  BY DEF FeedContext, FeedTypeOK, MakeNotification
<1> HIDE DEF n
<1>3. /\ made' \in Seq(Draft) /\ Len(made') = Len(made) + 1 /\ Len(made) \in Nat
      /\ DOMAIN made = 1..Len(made) /\ DOMAIN made' = 1..(Len(made) + 1)
      /\ made'[Len(made) + 1] = n
      /\ \A k \in DOMAIN made : made'[k] = made[k]
  BY <1>1, <1>2
<1>4. FeedTypeOK'
  BY <1>2, <1>3 DEF FeedContext, FeedTypeOK
<1>5. FeedFits'
  BY <1>2, <1>3, FeedAssumption DEF FeedContext, FeedFits
<1> QED
  BY <1>1, <1>2, <1>3, <1>4, <1>5

\* Storing marks the notification, and tells whether it comes too late.
LEMMA StoreNotificationDoes ==
  ASSUME FeedContext, NEW k \in DOMAIN made, StoreNotification(k)
  PROVE  /\ FeedTypeOK' /\ FeedFits' /\ UNCHANGED <<asking, cursor, received>>
         /\ DOMAIN made' = DOMAIN made
         /\ \A l \in DOMAIN made : l # k => made'[l] = made[l]
         /\ made'[k].id = made[k].id /\ made'[k].walletId = made[k].walletId
         /\ made'[k].stored /\ ~made[k].stored
         /\ made'[k].late <=> \/ made[k].id <= cursor
                              \/ asking.on /\ made[k].walletId \notin asking.unread
<1> DEFINE late == \/ made[k].id <= cursor
                   \/ asking.on /\ made[k].walletId \notin asking.unread
           n == [made[k] EXCEPT !.stored = TRUE, !.late = late]
<1>0. late \in BOOLEAN /\ (late <=> \/ made[k].id <= cursor
                                    \/ asking.on /\ made[k].walletId \notin asking.unread)
  OBVIOUS
<1>1. /\ made \in Seq(Draft) /\ made' = [made EXCEPT ![k] = n] /\ ~made[k].stored
      /\ UNCHANGED <<asking, cursor, received>>
  BY DEF FeedContext, FeedTypeOK, StoreNotification
<1>2. made[k] \in Draft
  BY <1>1
<1> HIDE DEF late
<1>3. /\ n \in Draft /\ n.id = made[k].id /\ n.walletId = made[k].walletId /\ n.stored
      /\ n.late = late
  BY <1>0, <1>2 DEF Draft
<1> HIDE DEF n
<1>4. made' \in Seq(Draft) /\ Len(made') = Len(made)
  BY <1>1, <1>3, ExceptSeq
<1>5. /\ DOMAIN made' = DOMAIN made /\ made'[k] = n
      /\ \A l \in DOMAIN made : l # k => made'[l] = made[l]
  BY <1>1
<1>6. FeedTypeOK' /\ FeedFits'
  BY <1>1, <1>4, <1>5 DEF FeedContext, FeedTypeOK, FeedFits
<1> QED
  BY <1>0, <1>1, <1>3, <1>5, <1>6

\* A client asks for what came after its cursor.
LEMMA GetNotificationsDoes ==
  ASSUME FeedContext, GetNotifications
  PROVE  /\ FeedTypeOK' /\ FeedFits' /\ UNCHANGED <<made, cursor, received>>
         /\ asking'.on /\ asking'.since = cursor
         /\ asking'.unread = Collections /\ asking'.found = {}
BY DEF FeedContext, FeedTypeOK, FeedFits, GetNotifications

\* One collection is read.
LEMMA FetchNewerDoes ==
  ASSUME FeedContext, NEW w \in Collections, FetchNewer(w)
  PROVE  /\ FeedTypeOK' /\ FeedFits' /\ UNCHANGED <<made, cursor, received>>
         /\ w \in asking.unread
         /\ asking'.on = asking.on /\ asking'.since = asking.since
         /\ asking'.unread = asking.unread \ {w}
         /\ asking'.found = asking.found \cup
              {k \in DOMAIN made : /\ made[k].stored /\ made[k].walletId = w
                                   /\ made[k].id > asking.since}
<1> DEFINE newer == {k \in DOMAIN made : /\ made[k].stored /\ made[k].walletId = w
                                         /\ made[k].id > asking.since}
           x == [asking EXCEPT !.unread = asking.unread \ {w},
                               !.found = asking.found \cup newer]
<1>1. newer \subseteq DOMAIN made /\ newer \subseteq 1..MaxMade
  <2>1. made \in Seq(Draft) /\ Len(made) <= MaxMade
    BY DEF FeedContext, FeedTypeOK, FeedFits
  <2>2. DOMAIN made \subseteq 1..MaxMade
    BY <2>1, FeedAssumption
  <2> QED
    BY <2>2
<1>2. /\ w \in asking.unread /\ asking' = x
      /\ UNCHANGED <<made, cursor, received>>
  BY DEF FetchNewer
<1> HIDE DEF newer
<1>3. /\ asking' \in [on: BOOLEAN, since: Ids \cup {NoId}, unread: SUBSET Collections,
                      found: SUBSET (1..MaxMade)]
      /\ asking'.on = asking.on /\ asking'.since = asking.since
      /\ asking'.unread = asking.unread \ {w} /\ asking'.found = asking.found \cup newer
  BY <1>1, <1>2 DEF FeedContext, FeedTypeOK
<1>4. FeedTypeOK' /\ FeedFits'
  BY <1>1, <1>2, <1>3 DEF FeedContext, FeedTypeOK, FeedFits
<1> QED
  BY <1>2, <1>3, <1>4, Zenon DEF newer

\* A sorting of a finite set of notifications lists it, and its last is its
\* greatest.
LEMMA SortingsList ==
  ASSUME NEW found \in SUBSET (1..MaxMade), NEW s \in Sortings(found)
  PROVE  /\ s \in Seq(found)
         /\ \A k \in found : \E i \in DOMAIN s : s[i] = k
         /\ \A i, j \in DOMAIN s : i < j => s[i] # s[j] /\ made[s[i]].id <= made[s[j]].id
<1>1. Cardinality(found) \in Nat
  <2>1. IsFiniteSet(1..MaxMade)
    BY FS_Interval, FeedAssumption
  <2>2. IsFiniteSet(found)
    BY <2>1, FS_Subset
  <2> QED
    BY <2>2, FS_CardinalityType
<1>2. /\ s \in [1..Cardinality(found) -> found] /\ Range(s) = found
      /\ \A i, j \in DOMAIN s : i < j => s[i] # s[j] /\ made[s[i]].id <= made[s[j]].id
  BY DEF Sortings
<1>3. s \in Seq(found)
  BY <1>1, <1>2
<1> QED
  BY <1>2, <1>3 DEF Range

\* The answer goes to the end of what the client has; it will name the last.
LEMMA AnswerNotificationsDoes ==
  ASSUME FeedContext, AnswerNotifications
  PROVE  /\ FeedTypeOK' /\ FeedFits' /\ UNCHANGED made
         /\ asking.on /\ asking.unread = {} /\ ~asking'.on
         /\ \E s \in Seq(asking.found) :
              /\ received' = received \o s
              /\ \A k \in asking.found : \E i \in DOMAIN s : s[i] = k
              /\ \A i, j \in DOMAIN s :
                   i < j => s[i] # s[j] /\ made[s[i]].id <= made[s[j]].id
              /\ cursor' = IF s = << >> THEN cursor ELSE made[s[Len(s)]].id
<1>1. PICK s \in Sortings(asking.found) :
        /\ received' = received \o s
        /\ cursor' = IF s = << >> THEN cursor ELSE made[s[Len(s)]].id
  BY DEF AnswerNotifications, ById
<1>2. /\ asking.found \in SUBSET (1..MaxMade) /\ asking.found \subseteq DOMAIN made
      /\ made \in Seq(Draft) /\ received \in Seq(1..MaxMade) /\ cursor \in Ids \cup {NoId}
      /\ \A i \in DOMAIN received : received[i] \in DOMAIN made
  BY DEF FeedContext, FeedTypeOK, FeedFits
<1>3. /\ s \in Seq(asking.found)
      /\ \A k \in asking.found : \E i \in DOMAIN s : s[i] = k
      /\ \A i, j \in DOMAIN s : i < j => s[i] # s[j] /\ made[s[i]].id <= made[s[j]].id
  BY <1>2, SortingsList
<1>4. /\ s \in Seq(1..MaxMade) /\ Len(s) \in Nat /\ DOMAIN s = 1..Len(s)
      /\ \A i \in DOMAIN s : s[i] \in DOMAIN made
  <2> DEFINE found == asking.found
  <2>1. s \in Seq(found) /\ found \subseteq 1..MaxMade /\ found \subseteq DOMAIN made
    BY <1>2, <1>3
  <2> HIDE DEF found
  <2>2. /\ Len(s) \in Nat /\ DOMAIN s = 1..Len(s) /\ s \in [1..Len(s) -> found]
        /\ \A i \in DOMAIN s : s[i] \in found
    BY <2>1
  <2>3. \A i \in DOMAIN s : s[i] \in DOMAIN made /\ s[i] \in 1..MaxMade
    BY <2>1, <2>2
  <2> DEFINE all == 1..MaxMade
  <2>4. s \in [1..Len(s) -> all]
    BY <2>2, <2>3
  <2> HIDE DEF all
  <2>5. s \in Seq(all)
    BY <2>2, <2>4
  <2> QED
    BY <2>2, <2>3, <2>5 DEF all
<1>5. cursor' \in Ids \cup {NoId}
  <2>1. CASE s = << >>
    BY <1>1, <1>2, <2>1
  <2>2. CASE s # << >>
    <3>1. Len(s) \in DOMAIN s
      BY <1>4, <2>2
    <3>2. made[s[Len(s)]] \in Draft
      BY <1>2, <1>4, <3>1
    <3> QED
      BY <1>1, <2>2, <3>2 DEF Draft
  <2> QED
    BY <2>1, <2>2
<1>6. /\ received' \in Seq(1..MaxMade)
      /\ DOMAIN received' = 1..(Len(received) + Len(s))
      /\ Len(received) \in Nat /\ DOMAIN received = 1..Len(received)
      /\ \A i \in DOMAIN received' :
           received'[i] = IF i <= Len(received) THEN received[i] ELSE s[i - Len(received)]
  BY <1>1, <1>2, <1>4
<1>7. \A i \in DOMAIN received' : received'[i] \in DOMAIN made
  <2>1. ASSUME NEW i \in DOMAIN received', i <= Len(received)
        PROVE  received'[i] \in DOMAIN made
    BY <1>2, <1>6, <2>1
  <2>2. ASSUME NEW i \in DOMAIN received', ~(i <= Len(received))
        PROVE  received'[i] \in DOMAIN made
    <3>1. i - Len(received) \in DOMAIN s
      BY <1>4, <1>6, <2>2
    <3> QED
      BY <1>4, <1>6, <2>2, <3>1
  <2> QED
    BY <2>1, <2>2
<1>8. /\ asking' = NotAsking /\ UNCHANGED made /\ asking.on /\ asking.unread = {}
  BY DEF AnswerNotifications
<1>9. FeedTypeOK' /\ FeedFits' /\ ~asking'.on
  BY <1>5, <1>6, <1>7, <1>8 DEF FeedContext, FeedTypeOK, FeedFits, NotAsking
<1> QED
  BY <1>1, <1>3, <1>8, <1>9

\* A request fails, and gives nothing.
LEMMA AskingFailsDoes ==
  ASSUME FeedContext, AskingFails
  PROVE  FeedTypeOK' /\ FeedFits' /\ UNCHANGED <<made, cursor, received>> /\ ~asking'.on
BY DEF FeedContext, FeedTypeOK, FeedFits, AskingFails, NotAsking

\* Every step of the feed keeps its types.
LEMMA FeedStepFits ==
  ASSUME FeedContext, FeedNext
  PROVE  FeedTypeOK' /\ FeedFits' /\ UNCHANGED notificationVars
BY MakeNotificationDoes, StoreNotificationDoes, GetNotificationsDoes, FetchNewerDoes,
   AnswerNotificationsDoes, AskingFailsDoes DEF FeedNext

-----------------------------------------------------------------------------
(* The types hold.                                                          *)

\* No step of the email service takes back that something failed.
LEMMA EmailTrouble ==
  ASSUME EmailNext
  PROVE  UNCHANGED trouble \/ trouble' = TRUE
<1>1. ASSUME NEW p \in Process, NEW i \in 1..MaxSent,
             SendEmail(p, i) \/ FetchEmail(p, i) \/ EmailFails(p, i)
      PROVE  UNCHANGED trouble \/ trouble' = TRUE
  BY <1>1 DEF SendEmail, FetchEmail, EmailFails, notificationVars
<1>2. ASSUME NEW p \in Process, NEW i \in 1..MaxSent, NEW to \in Address,
             StoreEmail(p, i, to) \/ StoreFails(p, i, to) \/ Send(p, i, to) \/ MarkSent(p, i, to)
      PROVE  UNCHANGED trouble \/ trouble' = TRUE
  BY <1>2 DEF StoreEmail, StoreFails, Send, MarkSent, notificationVars
<1>4. ASSUME NEW id \in 0..MaxClock, LockExpires(id)
      PROVE  UNCHANGED trouble
  BY <1>4 DEF LockExpires, notificationVars
<1>5. ASSUME NEW p \in Process, Crash(p) PROVE trouble' = TRUE
  BY <1>5 DEF Crash
<1> QED
  BY <1>1, <1>2, <1>4, <1>5 DEF EmailNext

\* Typed holds at first ...
LEMMA InitTyped == Init => Typed
<1> SUFFICES ASSUME Init PROVE Typed
  OBVIOUS
<1>1. PICK story \in Stories :
        /\ listening = story.listening /\ clock = story.clock
        /\ MonitorInit(story.due, story.docs) /\ PushInit(story.acts) /\ FeedInit
  BY DEF Init
<1>2. sent = << >> /\ trouble = FALSE
  BY DEF Init, NotificationsInit
<1>3. NotificationsTypeOK /\ NotesFit
  <2>1. /\ sent \in Seq(Notification) /\ Len(sent) = 0
        /\ \A i \in DOMAIN sent : sent[i].type # "NewBlock" => sent[i].walletId \in Wallet
    BY <1>2
  <2>2. listening \in {"mail", "push", "poll", "none"} /\ clock \in 0..MaxClock
    BY <1>1, StoriesAssumption
  <2>3. NotificationsTypeOK
    BY <1>2, <2>1, <2>2 DEF NotificationsTypeOK
  <2>4. NotesFit
    BY <2>1, NotificationsAssumption DEF NotesFit
  <2> QED
    BY <2>3, <2>4
<1>4. EmailTypeOK /\ JobsFit
  <2>1. \A p \in Process, i \in 1..MaxSent :
          job[p][i] = [pc |-> "idle", todo |-> {}, toMark |-> {}]
    BY DEF Init, EmailInit
  <2>2. JobsFit
    BY <2>1 DEF JobsFit, JobFits
  <2>3. [pc |-> "idle", todo |-> {}, toMark |-> {}] \in JobState
    BY DEF JobState
  <2>4. EmailTypeOK
    BY <2>3 DEF Init, EmailInit, EmailTypeOK
  <2> QED
    BY <2>2, <2>4
<1>5. PushTypeOK /\ PushesFit
  <2> DEFINE idle == [pc |-> "idle", recipients |-> << >>, todo |-> {}]
  <2>1. \A p \in Process, i \in 1..MaxSent : push[p][i] = idle
    BY <1>1 DEF PushInit
  <2>2. PushesFit
    BY <2>1 DEF PushesFit, PushFits
  <2>3. << >> \in RecipientsList
    <3>1. << >> \in [{} -> Recipient]
      OBVIOUS
    <3>2. {} \in SUBSET UNION {DOMAIN Members[w] : w \in Wallet}
      OBVIOUS
    <3> QED
      BY <3>1, <3>2 DEF RecipientsList
  <2>4. idle \in PushState
    BY <2>3 DEF PushState
  <2> HIDE DEF idle
  <2>5. push \in [Process -> [1..MaxSent -> PushState]]
    BY <1>1, <2>4 DEF PushInit, idle
  <2>6. PushTypeOK
    BY <1>1, <2>5, StoriesAssumption, PushAssumption, InitialAssumption DEF PushInit, PushTypeOK
  <2> QED
    BY <2>2, <2>6
<1>6. FeedTypeOK /\ FeedFits
  BY <1>1, FeedAssumption DEF FeedInit, FeedTypeOK, FeedFits, NotAsking
<1>7. MonitorTyped
  <2>1. NoEvent \in EventState
    <3>1. [o \in DOMAIN Outs |-> "none"] \in [DOMAIN Outs -> {"none", "lookup", "store"}]
      OBVIOUS
    <3>2. [o \in DOMAIN Outs |-> 0] \in [DOMAIN Outs -> 0..MaxClock]
      BY NotificationsAssumption
    <3>3. [p \in Pocketeers |-> "none"] \in [Pocketeers -> {"none", "store", "tell"}]
      OBVIOUS
    <3> QED
      BY <3>1, <3>2, <3>3 DEF EventState, NoEvent
  <2> QED
    BY <1>1, <2>1, StoriesAssumption DEF MonitorInit, MonitorTyped
<1> QED
  BY <1>3, <1>4, <1>5, <1>6, <1>7, TypedSplit DEF Typed

\* ... and after every step.
LEMMA NextTyped == Typed /\ [Next]_vars => Typed'
<1> SUFFICES ASSUME Typed, [Next]_vars PROVE Typed'
  OBVIOUS
<1>0. /\ NotificationsTypeOK /\ EmailTypeOK /\ PushTypeOK /\ FeedTypeOK /\ MonitorTyped
      /\ NotesFit /\ JobsFit /\ PushesFit /\ FeedFits
      /\ EmailContext /\ PushContext /\ FeedContext
  BY TypedSplit DEF Typed, EmailContext, PushContext, FeedContext, NotificationsTypeOK
<1>1. UNCHANGED emailVars => EmailTypeOK' /\ UNCHANGED job
  BY <1>0 DEF emailVars, EmailTypeOK
<1>2. UNCHANGED pushVars => PushTypeOK' /\ UNCHANGED push
  BY <1>0 DEF pushVars, PushTypeOK
<1>3. UNCHANGED feedVars => FeedTypeOK' /\ FeedFits'
  BY <1>0 DEF feedVars, FeedTypeOK, FeedFits
<1>4. UNCHANGED monitorVars => MonitorTyped'
  BY <1>0 DEF monitorVars, MonitorTyped
<1>5. UNCHANGED sent => SentKept
  BY DEF SentKept, SameNote
<1>6. SentKept => (UNCHANGED job => JobsFit') /\ (UNCHANGED push => PushesFit')
  BY <1>0, JobsStay, PushesStay
<1>7. /\ NotificationsTypeOK' /\ EmailTypeOK' /\ PushTypeOK' /\ FeedTypeOK' /\ MonitorTyped'
      /\ NotesFit' /\ JobsFit' /\ PushesFit' /\ FeedFits'
  <2>1. CASE MonitorNext /\ UNCHANGED <<emailVars, pushVars, feedVars>>
    BY <1>0, <1>1, <1>2, <1>3, <1>6, <2>1, MonitorTypes
  <2>2. CASE EmailNext /\ UNCHANGED <<pushVars, feedVars, monitorVars>>
    <3>1. EmailTypeOK' /\ JobsFit' /\ UNCHANGED <<listening, clock, sent>>
      BY <1>0, <2>2, EmailStepFits
    <3>2. trouble' \in BOOLEAN
      BY <1>0, <2>2, EmailTrouble DEF NotificationsTypeOK
    <3>3. NotificationsTypeOK' /\ NotesFit'
      BY <1>0, <3>1, <3>2 DEF NotificationsTypeOK, NotesFit
    <3> QED
      BY <1>2, <1>3, <1>4, <1>5, <1>6, <2>2, <3>1, <3>3
  <2>3. CASE PushNext /\ UNCHANGED <<emailVars, feedVars, monitorVars>>
    BY <1>0, <1>1, <1>3, <1>4, <1>6, <2>3, PushStepFits
  <2>4. CASE FeedNext /\ UNCHANGED <<emailVars, pushVars, monitorVars>>
    <3>1. FeedTypeOK' /\ FeedFits' /\ UNCHANGED notificationVars
      BY <1>0, <2>4, FeedStepFits
    <3>2. NotificationsTypeOK' /\ NotesFit' /\ UNCHANGED sent
      BY <1>0, <3>1 DEF NotificationsTypeOK, NotesFit, notificationVars
    <3> QED
      BY <1>1, <1>2, <1>4, <1>5, <1>6, <2>4, <3>1, <3>2
  <2>5. CASE TimePasses /\ UNCHANGED <<emailVars, pushVars, feedVars, monitorVars>>
    <3>1. NotificationsTypeOK' /\ NotesFit' /\ UNCHANGED sent
      BY <1>0, <2>5, NotificationsAssumption DEF NotificationsTypeOK, NotesFit, TimePasses
    <3> QED
      BY <1>1, <1>2, <1>3, <1>4, <1>5, <1>6, <2>5, <3>1
  <2>6. CASE UNCHANGED vars
    <3>1. NotificationsTypeOK' /\ NotesFit' /\ UNCHANGED sent
      BY <1>0, <2>6 DEF NotificationsTypeOK, NotesFit, vars, notificationVars
    <3>2. UNCHANGED <<emailVars, pushVars, feedVars, monitorVars>>
      BY <2>6 DEF vars
    <3> QED
      BY <1>1, <1>2, <1>3, <1>4, <1>5, <1>6, <3>1, <3>2
  <2> QED
    BY <2>1, <2>2, <2>3, <2>4, <2>5, <2>6 DEF Next
<1>8. TypeOK'
  BY <1>7 DEF TypeOK, MonitorTyped
<1> QED
  BY <1>7, <1>8 DEF Typed

\* The jobs, pushes and answers are always about notifications there are.
THEOREM Invariance == Spec => []Typed
BY InitTyped, NextTyped, PTL DEF Spec

\* The types of the notifications, jobs, mails, pushes, threads and documents.
THEOREM TypeCorrect == Spec => []TypeOK
<1>1. Typed => TypeOK
  BY DEF Typed
<1> QED
  BY <1>1, Invariance, PTL

-----------------------------------------------------------------------------
(* What a client that polls has.                                            *)

\* What the client is about to be given was stored and comes after what it has;
\* and whatever came in time to a collection that was read is in it.
FeedInv ==
  /\ asking.on =>
       /\ asking.since = cursor
       /\ \A k \in asking.found : made[k].stored /\ made[k].id > cursor
       /\ \A k \in DOMAIN made :
            /\ made[k].stored /\ ~made[k].late /\ made[k].id > cursor
            /\ made[k].walletId \notin asking.unread
            => k \in asking.found
  /\ \A i \in DOMAIN received : made[received[i]].id <= cursor
  /\ FeedComplete

\* Every step of the feed keeps it.
LEMMA FeedStepKeeps ==
  ASSUME FeedContext, FeedInv, FeedNext
  PROVE  FeedInv'
<1>0. /\ \A k \in DOMAIN made : made[k].id \in Int
      /\ cursor \in Int
      /\ asking.found \subseteq DOMAIN made
      /\ \A i \in DOMAIN received : received[i] \in DOMAIN made
      /\ \A k : k \in Range(received) <=> \E i \in DOMAIN received : received[i] = k
  <2>1. \A n \in Draft : n.id \in Int
    BY NotificationsAssumption DEF Draft, Ids
  <2>2. made \in Seq(Draft)
    BY DEF FeedContext, FeedTypeOK
  <2>3. \A k \in DOMAIN made : made[k] \in Draft
    BY <2>2
  <2>4. cursor \in Int
    BY NotificationsAssumption DEF FeedContext, FeedTypeOK, Ids, NoId
  <2> QED
    BY <2>1, <2>3, <2>4 DEF FeedContext, FeedFits, Range
<1>1. ASSUME NEW w \in Collections, NEW ticker \in 0..1, MakeNotification(w, ticker)
      PROVE  FeedInv'
  BY <1>0, <1>1, MakeNotificationDoes DEF FeedInv, FeedComplete
<1>2. ASSUME NEW k \in DOMAIN made, StoreNotification(k)
      PROVE  FeedInv'
  BY <1>0, <1>2, StoreNotificationDoes DEF FeedInv, FeedComplete
<1>3. CASE GetNotifications
  <2>1. \A k \in DOMAIN made : made[k].walletId \in Collections
    <3>1. \A n \in Draft : n.walletId \in Collections
      BY DEF Draft
    <3>2. made \in Seq(Draft)
      BY DEF FeedContext, FeedTypeOK
    <3> QED
      BY <3>1, <3>2
  <2> QED
    BY <1>0, <1>3, <2>1, GetNotificationsDoes DEF FeedInv, FeedComplete
<1>4. ASSUME NEW w \in Collections, FetchNewer(w)
      PROVE  FeedInv'
  <2>1. /\ UNCHANGED <<made, cursor, received>>
        /\ w \in asking.unread
        /\ asking'.on = asking.on /\ asking'.since = asking.since
        /\ asking'.unread = asking.unread \ {w}
        /\ asking'.found = asking.found \cup
             {k \in DOMAIN made : /\ made[k].stored /\ made[k].walletId = w
                                  /\ made[k].id > asking.since}
    BY <1>4, FetchNewerDoes
  <2>2. FeedComplete' /\ (\A i \in DOMAIN received' : made'[received'[i]].id <= cursor')
    BY <2>1 DEF FeedInv, FeedComplete
  <2>3. ASSUME asking.on
        PROVE  /\ \A k \in asking'.found : made[k].stored /\ made[k].id > cursor
               /\ \A k \in DOMAIN made :
                    /\ made[k].stored /\ ~made[k].late /\ made[k].id > cursor
                    /\ made[k].walletId \notin asking'.unread
                    => k \in asking'.found
    BY <2>1, <2>3 DEF FeedInv
  <2> QED
    BY <2>1, <2>2, <2>3 DEF FeedInv
<1>5. CASE AnswerNotifications
  <2>1. /\ UNCHANGED made /\ asking.on /\ asking.unread = {} /\ ~asking'.on
        /\ \E s \in Seq(asking.found) :
             /\ received' = received \o s
             /\ \A k \in asking.found : \E i \in DOMAIN s : s[i] = k
             /\ \A i, j \in DOMAIN s :
                  i < j => s[i] # s[j] /\ made[s[i]].id <= made[s[j]].id
             /\ cursor' = IF s = << >> THEN cursor ELSE made[s[Len(s)]].id
    BY <1>5, AnswerNotificationsDoes
  <2>2. PICK s \in Seq(asking.found) :
             /\ received' = received \o s
             /\ \A k \in asking.found : \E i \in DOMAIN s : s[i] = k
             /\ \A i, j \in DOMAIN s :
                  i < j => s[i] # s[j] /\ made[s[i]].id <= made[s[j]].id
             /\ cursor' = IF s = << >> THEN cursor ELSE made[s[Len(s)]].id
    BY <2>1
  <2>3. /\ Len(s) \in Nat /\ DOMAIN s = 1..Len(s)
        /\ \A i \in DOMAIN s : s[i] \in asking.found
    BY <2>2
  <2>4. /\ Len(received) \in Nat /\ DOMAIN received = 1..Len(received)
        /\ DOMAIN received' = 1..(Len(received) + Len(s))
        /\ \A i \in DOMAIN received : received'[i] = received[i]
        /\ \A i \in DOMAIN s : received'[Len(received) + i] = s[i]
    <3>1. received \in Seq(1..MaxMade)
      BY DEF FeedContext, FeedTypeOK
    <3> QED
      BY <2>2, <2>3, <3>1
  <2>5. ASSUME NEW i \in DOMAIN received', i \notin DOMAIN received
        PROVE  \E j \in DOMAIN s : i = Len(received) + j /\ received'[i] = s[j]
    <3>1. i - Len(received) \in DOMAIN s /\ i = Len(received) + (i - Len(received))
      BY <2>3, <2>4, <2>5
    <3> QED
      BY <2>4, <3>1
  <2>6. /\ \A j \in DOMAIN s : made[s[j]].id > cursor /\ made[s[j]].id <= cursor'
        /\ cursor <= cursor' /\ cursor' \in Int
    <3>1. CASE s = << >>
      BY <1>0, <2>2, <3>1
    <3>2. CASE s # << >>
      <4>1. Len(s) \in DOMAIN s /\ cursor' = made[s[Len(s)]].id
        BY <2>2, <2>3, <3>2
      <4>2. ASSUME NEW j \in DOMAIN s
            PROVE  made[s[j]].id > cursor /\ made[s[j]].id \in Int
        BY <1>0, <2>1, <2>3 DEF FeedInv
      <4>3. ASSUME NEW j \in DOMAIN s
            PROVE  made[s[j]].id <= cursor'
        <5>1. CASE j = Len(s)
          BY <4>1, <4>2, <5>1
        <5>2. CASE j # Len(s)
          <6>1. j < Len(s)
            BY <2>3, <5>2
          <6> QED
            BY <2>2, <4>1, <6>1
        <5> QED
          BY <5>1, <5>2
      <4> QED
        BY <1>0, <4>1, <4>2, <4>3
    <3> QED
      BY <3>1, <3>2
  <2>7. \A i \in DOMAIN received' : made[received'[i]].id <= cursor'
    <3>1. ASSUME NEW i \in DOMAIN received PROVE made[received'[i]].id <= cursor'
      <4>1. made[received[i]].id <= cursor /\ made[received[i]].id \in Int
        BY <1>0 DEF FeedInv
      <4> QED
        BY <1>0, <2>4, <2>6, <4>1
    <3> QED
      BY <2>5, <2>6, <3>1
  <2>8. ASSUME NEW i \in DOMAIN received', NEW j \in DOMAIN received', i < j
        PROVE  /\ received'[i] # received'[j]
               /\ made[received'[i]].id <= made[received'[j]].id
    <3>1. CASE j \in DOMAIN received
      <4>1. i \in DOMAIN received
        BY <2>4, <2>8, <3>1
      <4> QED
        BY <2>4, <2>8, <3>1, <4>1 DEF FeedInv, FeedComplete
    <3>2. CASE j \notin DOMAIN received
      <4>1. PICK l \in DOMAIN s : j = Len(received) + l /\ received'[j] = s[l]
        BY <2>5, <3>2
      <4>2. CASE i \in DOMAIN received
        <5>1. made[received[i]].id <= cursor /\ made[received[i]].id \in Int
          BY <1>0, <4>2 DEF FeedInv
        <5>2. made[s[l]].id > cursor /\ made[s[l]].id \in Int
          BY <1>0, <2>3, <2>6
        <5> QED
          BY <1>0, <2>4, <4>1, <4>2, <5>1, <5>2
      <4>3. CASE i \notin DOMAIN received
        <5>1. PICK k \in DOMAIN s : i = Len(received) + k /\ received'[i] = s[k]
          BY <2>5, <4>3
        <5>2. k < l
          BY <2>3, <2>4, <2>8, <4>1, <5>1
        <5> QED
          BY <2>2, <4>1, <5>1, <5>2
      <4> QED
        BY <4>2, <4>3
    <3> QED
      BY <3>1, <3>2
  <2>9. ASSUME NEW k \in DOMAIN made, made[k].stored, ~made[k].late, made[k].id <= cursor'
        PROVE  \E i \in DOMAIN received' : received'[i] = k
    <3>1. CASE made[k].id <= cursor
      <4>1. PICK i \in DOMAIN received : received[i] = k
        BY <1>0, <2>9, <3>1 DEF FeedInv, FeedComplete
      <4>2. i \in DOMAIN received' /\ received'[i] = k
        BY <2>3, <2>4, <4>1
      <4> QED
        BY <4>2
    <3>2. CASE ~(made[k].id <= cursor)
      <4>1. made[k].id > cursor
        BY <1>0, <3>2
      <4>2. k \in asking.found
        BY <2>1, <2>9, <4>1 DEF FeedInv
      <4>3. PICK j \in DOMAIN s : s[j] = k
        BY <2>2, <4>2
      <4>4. Len(received) + j \in DOMAIN received' /\ received'[Len(received) + j] = k
        BY <2>3, <2>4, <4>3
      <4> QED
        BY <4>4
    <3> QED
      BY <3>1, <3>2
  <2>10. FeedComplete'
    <3>1. \A k : (\E i \in DOMAIN received' : received'[i] = k) => k \in Range(received')
      BY DEF Range
    <3>2. \A k \in DOMAIN made : made[k].stored /\ ~made[k].late /\ made[k].id <= cursor'
                                => k \in Range(received')
      BY <2>9, <3>1
    <3>3. made' = made
      BY <2>1
    <3> QED
      BY <2>8, <3>2, <3>3 DEF FeedComplete
  <2> QED
    BY <2>1, <2>7, <2>10 DEF FeedInv
<1>6. CASE AskingFails
  BY <1>0, <1>6, AskingFailsDoes DEF FeedInv, FeedComplete
<1> QED
  BY <1>1, <1>2, <1>3, <1>4, <1>5, <1>6 DEF FeedNext

\* A client that polls gets each notification once and in order, and misses
\* none that was stored in time: FeedComplete is an invariant.
THEOREM FeedMissesNone == Spec => []FeedComplete
<1>1. Init => FeedInv
  BY DEF Init, FeedInit, FeedInv, FeedComplete, NotAsking
<1>2. Typed /\ FeedInv /\ [Next]_vars => FeedInv'
  <2> SUFFICES ASSUME Typed, FeedInv, [Next]_vars PROVE FeedInv'
    OBVIOUS
  <2>1. CASE FeedNext
    <3>1. FeedContext
      BY TypedSplit DEF Typed, FeedContext, NotificationsTypeOK
    <3> QED
      BY <2>1, <3>1, FeedStepKeeps
  <2>2. CASE UNCHANGED feedVars
    BY <2>2 DEF feedVars, FeedInv, FeedComplete
  <2> QED
    BY <2>1, <2>2 DEF Next, vars
<1>3. FeedInv => FeedComplete
  BY DEF FeedInv
<1> QED
  BY <1>1, <1>2, <1>3, Invariance, PTL DEF Spec

-----------------------------------------------------------------------------
(* Nobody gets a mail twice.                                                *)

\* Two notifications with the same id, so with the same lock and queue.
SameId(i, j) == i \in DOMAIN sent /\ j \in DOMAIN sent /\ sent[i].id = sent[j].id

\* It has a document in the queue.
Queued(i) == \E e \in emails : e.notificationId = sent[i].id

\* Whoever fetches or stores holds the lock.
LockHeld ==
  \A p \in Process, i \in 1..MaxSent :
    job[p][i].pc \in {"fetch", "store"} => lock[sent[i].id] = <<p, i>>

\* Whoever stores found that nobody stored before, let alone sends or sent.
FirstToStore ==
  \A p \in Process, i \in 1..MaxSent :
    job[p][i].pc = "store" =>
      \A j \in 1..MaxSent : SameId(i, j) =>
        /\ \A a \in Address : mails[j][a] = 0
        /\ \A q \in Process : job[q][j].pc # "send"

\* Whoever sends is the only one, and has stored; to whom it has still to send
\* nobody has sent.
OnlySender ==
  \A p \in Process, i \in 1..MaxSent :
    job[p][i].pc = "send" =>
      /\ Queued(i)
      /\ \A a \in job[p][i].todo : mails[i][a] = 0
      /\ \A q \in Process, j \in 1..MaxSent :
           SameId(i, j) /\ job[q][j].pc = "send" => <<q, j>> = <<p, i>>

\* What was mailed has documents in the queue.
MailsQueued ==
  \A i \in 1..MaxSent, a \in Address : mails[i][a] > 0 => i \in DOMAIN sent /\ Queued(i)

\* The inductive invariant of OneMailEach.
MailInv == LockHeld /\ FirstToStore /\ OnlySender /\ MailsQueued /\ OneMailEach

\* Notifications and their jobs, by their positions.
LEMMA EmailFacts ==
  ASSUME EmailContext
  PROVE  /\ DOMAIN sent \subseteq 1..MaxSent
         /\ \A i \in DOMAIN sent : /\ sent[i].id \in 0..MaxClock
                                   /\ sent[i].type # "NewBlock" => sent[i].walletId \in Wallet
         /\ \A p \in Process, i \in 1..MaxSent :
              /\ job[p][i] \in JobState
              /\ job[p][i].pc # "idle" => i \in DOMAIN sent
         /\ \A i \in 1..MaxSent, a \in Address : mails[i][a] \in Nat
<1>1. sent \in Seq(Notification) /\ Len(sent) <= MaxSent
  BY DEF EmailContext, NotificationsTypeOK, NotesFit
<1>2. DOMAIN sent \subseteq 1..MaxSent
  BY <1>1, NotificationsAssumption
<1>3. \A n \in Notification : n.id \in 0..MaxClock
  BY DEF Notification
<1>4. \A i \in DOMAIN sent : sent[i] \in Notification
  BY <1>1
<1>5. \A p \in Process, i \in 1..MaxSent :
        /\ job[p][i] \in JobState
        /\ job[p][i].pc # "idle" => i \in DOMAIN sent
  BY DEF EmailContext, EmailTypeOK, JobsFit, JobFits
<1>6. \A i \in 1..MaxSent, a \in Address : mails[i][a] \in Nat
  BY DEF EmailContext, EmailTypeOK
<1> QED
  BY <1>2, <1>3, <1>4, <1>5, <1>6 DEF EmailContext, NotesFit

\* What others do to the notifications leaves the mails as they are.
LEMMA MailStays ==
  ASSUME EmailContext, MailInv, SentKept, UNCHANGED emailVars
  PROVE  MailInv'
<1>1. /\ \A i \in DOMAIN sent : i \in DOMAIN sent' /\ sent'[i].id = sent[i].id
      /\ UNCHANGED <<job, lock, emails, mails>>
  BY DEF SentKept, SameNote, emailVars
<1>2. \A p \in Process, i \in 1..MaxSent : job[p][i].pc # "idle" => i \in DOMAIN sent
  BY EmailFacts
<1>3. \A i \in DOMAIN sent : Queued(i)' <=> Queued(i)
  BY <1>1 DEF Queued
<1>4. \A i, j \in DOMAIN sent : SameId(i, j)' <=> SameId(i, j)
  BY <1>1 DEF SameId
<1>5. \A i \in 1..MaxSent, a \in Address : mails[i][a] \in Nat /\ (mails[i][a] > 0 => i \in DOMAIN sent)
  BY EmailFacts DEF MailInv, MailsQueued
<1>6. LockHeld'
  BY <1>1, <1>2 DEF MailInv, LockHeld
<1>7. FirstToStore'
  <2> SUFFICES ASSUME NEW p \in Process, NEW i \in 1..MaxSent, job[p][i].pc = "store",
                      NEW j \in 1..MaxSent, SameId(i, j)'
               PROVE  /\ \A a \in Address : mails[j][a] = 0
                      /\ \A q \in Process : job[q][j].pc # "send"
    BY <1>1 DEF FirstToStore
  <2>1. CASE j \in DOMAIN sent
    BY <1>2, <1>4, <2>1 DEF MailInv, FirstToStore
  <2>2. CASE j \notin DOMAIN sent
    BY <1>2, <1>5, <2>2
  <2> QED
    BY <2>1, <2>2
<1>8. OnlySender'
  <2> SUFFICES ASSUME NEW p \in Process, NEW i \in 1..MaxSent, job[p][i].pc = "send"
               PROVE  /\ Queued(i)'
                      /\ \A a \in job[p][i].todo : mails[i][a] = 0
                      /\ \A q \in Process, j \in 1..MaxSent :
                           SameId(i, j)' /\ job[q][j].pc = "send" => <<q, j>> = <<p, i>>
    BY <1>1 DEF OnlySender
  <2> QED
    BY <1>2, <1>3, <1>4 DEF MailInv, OnlySender
<1>9. MailsQueued' /\ OneMailEach'
  BY <1>1, <1>3 DEF MailInv, MailsQueued, OneMailEach
<1> QED
  BY <1>6, <1>7, <1>8, <1>9 DEF MailInv

\* Most steps send nothing, and make nobody store or send who did not.
MailCalm ==
  /\ UNCHANGED <<sent, mails>>
  /\ \A d \in emails : \E e \in emails' : e.notificationId = d.notificationId
  /\ \A q \in Process, j \in 1..MaxSent :
       /\ job'[q][j].pc = "store" => job[q][j].pc = "store"
       /\ job'[q][j].pc = "send" => job[q][j].pc = "send" /\ job'[q][j].todo = job[q][j].todo

\* They keep the invariant, if whoever works still holds the lock.
LEMMA MailCalmKeeps ==
  ASSUME MailInv, MailCalm, LockHeld'
  PROVE  MailInv'
<1>1. \A i : Queued(i) => Queued(i)'
  BY DEF MailCalm, Queued
<1>2. \A i, j : SameId(i, j)' <=> SameId(i, j)
  BY DEF MailCalm, SameId
<1>3. FirstToStore'
  <2> SUFFICES ASSUME NEW p \in Process, NEW i \in 1..MaxSent, job'[p][i].pc = "store",
                      NEW j \in 1..MaxSent, SameId(i, j)
               PROVE  /\ \A a \in Address : mails'[j][a] = 0
                      /\ \A q \in Process : job'[q][j].pc # "send"
    BY <1>2 DEF FirstToStore
  <2>1. job[p][i].pc = "store" /\ UNCHANGED mails
    BY DEF MailCalm
  <2> QED
    BY <2>1 DEF MailInv, FirstToStore, MailCalm
<1>4. OnlySender'
  <2> SUFFICES ASSUME NEW p \in Process, NEW i \in 1..MaxSent, job'[p][i].pc = "send"
               PROVE  /\ Queued(i)'
                      /\ \A a \in job'[p][i].todo : mails'[i][a] = 0
                      /\ \A q \in Process, j \in 1..MaxSent :
                           SameId(i, j) /\ job'[q][j].pc = "send" => <<q, j>> = <<p, i>>
    BY <1>2 DEF OnlySender
  <2>1. job[p][i].pc = "send" /\ job'[p][i].todo = job[p][i].todo /\ UNCHANGED mails
    BY DEF MailCalm
  <2> QED
    BY <1>1, <2>1 DEF MailInv, OnlySender, MailCalm
<1>5. MailsQueued' /\ OneMailEach'
  BY <1>1 DEF MailInv, MailsQueued, OneMailEach, MailCalm
<1> QED
  BY <1>3, <1>4, <1>5 DEF MailInv

\* A job that neither fetches nor stores any more may give its locks back.
LEMMA LockStaysHeld ==
  ASSUME EmailContext, LockHeld, NEW p \in Process, NEW i \in 1..MaxSent, NEW x,
         OneJob(p, i, x), UNCHANGED sent,
         \/ UNCHANGED lock /\ (x.pc \in {"fetch", "store"} => job[p][i].pc \in {"fetch", "store"})
         \/ Releases(p, i) /\ x.pc \notin {"fetch", "store"}
  PROVE  LockHeld'
<1> SUFFICES ASSUME NEW q \in Process, NEW j \in 1..MaxSent,
                    job'[q][j].pc \in {"fetch", "store"}
             PROVE  lock'[sent[j].id] = <<q, j>>
  BY DEF LockHeld
<1>1. CASE <<q, j>> = <<p, i>>
  BY <1>1 DEF OneJob, LockHeld
<1>2. CASE <<q, j>> # <<p, i>>
  <2>1. job[q][j].pc \in {"fetch", "store"}
    BY <1>2 DEF OneJob
  <2>2. lock[sent[j].id] = <<q, j>> /\ sent[j].id \in 0..MaxClock
    BY <2>1, EmailFacts DEF LockHeld
  <2> QED
    BY <1>2, <2>2 DEF Releases
<1> QED
  BY <1>1, <1>2

\* Every step of the email service keeps it, as long as locks outlive their jobs.
LEMMA MailStepKeeps ==
  ASSUME EmailContext, MailInv, Prompt, EmailNext
  PROVE  MailInv'
<1>0. LockHeld /\ FirstToStore /\ OnlySender /\ MailsQueued /\ OneMailEach
  BY DEF MailInv
<1>1. ASSUME NEW p \in Process, NEW i \in 1..MaxSent, SendEmail(p, i) PROVE MailInv'
  <2>1. /\ i \in DOMAIN sent /\ job[p][i].pc = "idle"
        /\ UNCHANGED <<notificationVars, emails, mails>>
        /\ \/ /\ OneJob(p, i, job'[p][i]) /\ job'[p][i].pc = "fetch"
              /\ lock[sent[i].id] = NoJob
              /\ lock' = [lock EXCEPT ![sent[i].id] = <<p, i>>]
           \/ /\ OneJob(p, i, Over) /\ UNCHANGED lock
    BY <1>1, SendEmailDoes
  <2>2. UNCHANGED <<sent, mails, emails>>
    BY <2>1 DEF notificationVars
  <2>3. CASE /\ OneJob(p, i, job'[p][i]) /\ job'[p][i].pc = "fetch"
             /\ lock[sent[i].id] = NoJob
             /\ lock' = [lock EXCEPT ![sent[i].id] = <<p, i>>]
    <3>1. MailCalm
      BY <2>2, <2>3 DEF MailCalm, OneJob
    <3>2. LockHeld'
      <4> SUFFICES ASSUME NEW q \in Process, NEW j \in 1..MaxSent,
                          job'[q][j].pc \in {"fetch", "store"}
                   PROVE  lock'[sent[j].id] = <<q, j>>
        BY <2>2 DEF LockHeld
      <4>1. lock \in [0..MaxClock -> Job \cup {NoJob}] /\ sent[i].id \in 0..MaxClock
        BY <2>1, EmailFacts DEF EmailContext, EmailTypeOK
      <4>2. CASE <<q, j>> = <<p, i>>
        BY <2>3, <4>1, <4>2
      <4>3. CASE <<q, j>> # <<p, i>>
        <5>1. job[q][j].pc \in {"fetch", "store"}
          BY <2>3, <4>3 DEF OneJob
        <5>2. lock[sent[j].id] = <<q, j>> /\ sent[j].id \in 0..MaxClock /\ <<q, j>> # NoJob
          BY <1>0, <5>1, EmailFacts, EmailAssumption DEF LockHeld, Job
        <5> QED
          BY <2>3, <4>1, <5>2
      <4> QED
        BY <4>2, <4>3
    <3> QED
      BY <3>1, <3>2, MailCalmKeeps
  <2>4. CASE OneJob(p, i, Over) /\ UNCHANGED lock
    <3>1. MailCalm
      BY <2>2, <2>4 DEF MailCalm, OneJob, Over
    <3>2. LockHeld'
      BY <1>0, <2>2, <2>4, LockStaysHeld DEF Over
    <3> QED
      BY <3>1, <3>2, MailCalmKeeps
  <2> QED
    BY <2>1, <2>3, <2>4
<1>2. ASSUME NEW p \in Process, NEW i \in 1..MaxSent, FetchEmail(p, i) PROVE MailInv'
  <2>1. /\ i \in DOMAIN sent /\ job[p][i].pc = "fetch"
        /\ UNCHANGED <<notificationVars, emails, mails>>
        /\ \/ OneJob(p, i, Over) /\ Releases(p, i)
           \/ /\ OneJob(p, i, job'[p][i]) /\ job'[p][i].pc = "store"
              /\ \A e \in emails : e.notificationId # sent[i].id
              /\ UNCHANGED lock
    BY <1>2, FetchEmailDoes
  <2>2. UNCHANGED <<sent, mails, emails>>
    BY <2>1 DEF notificationVars
  <2>3. CASE OneJob(p, i, Over) /\ Releases(p, i)
    <3>1. MailCalm
      BY <2>2, <2>3 DEF MailCalm, OneJob, Over
    <3>2. LockHeld'
      BY <1>0, <2>2, <2>3, LockStaysHeld DEF Over
    <3> QED
      BY <3>1, <3>2, MailCalmKeeps
  <2>4. CASE /\ OneJob(p, i, job'[p][i]) /\ job'[p][i].pc = "store"
             /\ \A e \in emails : e.notificationId # sent[i].id
             /\ UNCHANGED lock
    <3>1. LockHeld'
      <4> DEFINE x == job'[p][i]
      <4>1. OneJob(p, i, x) /\ UNCHANGED sent /\ UNCHANGED lock /\ job[p][i].pc \in {"fetch", "store"}
        BY <2>1, <2>2, <2>4
      <4> HIDE DEF x
      <4> QED
        BY <1>0, <4>1, LockStaysHeld
    <3>2. ~Queued(i)
      BY <2>4 DEF Queued
    <3>3. \A j \in 1..MaxSent : SameId(i, j) => ~Queued(j)
      BY <3>2 DEF SameId, Queued
    <3>4. /\ \A k : Queued(k)' <=> Queued(k)
          /\ \A k, l : SameId(k, l)' <=> SameId(k, l)
      BY <2>2 DEF Queued, SameId
    <3>5. FirstToStore'
      <4> SUFFICES ASSUME NEW q \in Process, NEW k \in 1..MaxSent, job'[q][k].pc = "store",
                          NEW j \in 1..MaxSent, SameId(k, j)
                   PROVE  /\ \A a \in Address : mails[j][a] = 0
                          /\ \A r \in Process : job'[r][j].pc # "send"
        BY <2>2, <3>4 DEF FirstToStore
      <4>1. \A r \in Process, l \in 1..MaxSent : job'[r][l].pc = "send" => job[r][l].pc = "send"
        BY <2>4 DEF OneJob
      <4>2. CASE <<q, k>> = <<p, i>>
        <5>1. ~Queued(j)
          BY <3>3, <4>2
        <5>2. \A a \in Address : mails[j][a] = 0
          BY <1>0, <5>1, EmailFacts DEF MailsQueued
        <5>3. \A r \in Process : job[r][j].pc # "send"
          BY <1>0, <5>1 DEF OnlySender
        <5> QED
          BY <4>1, <5>2, <5>3
      <4>3. CASE <<q, k>> # <<p, i>>
        <5>1. job[q][k].pc = "store"
          BY <2>4, <4>3 DEF OneJob
        <5> QED
          BY <1>0, <4>1, <5>1 DEF FirstToStore
      <4> QED
        BY <4>2, <4>3
    <3>6. OnlySender'
      <4>1. \A r \in Process, l \in 1..MaxSent :
              job'[r][l].pc = "send" => job[r][l].pc = "send" /\ job'[r][l].todo = job[r][l].todo
        BY <2>4 DEF OneJob
      <4> QED
        BY <1>0, <2>2, <3>4, <4>1 DEF OnlySender
    <3>7. MailsQueued' /\ OneMailEach'
      BY <1>0, <2>2, <3>4 DEF MailsQueued, OneMailEach
    <3> QED
      BY <3>1, <3>5, <3>6, <3>7 DEF MailInv
  <2> QED
    BY <2>1, <2>3, <2>4
<1>3. ASSUME NEW p \in Process, NEW i \in 1..MaxSent, NEW to \in Address, StoreEmail(p, i, to)
      PROVE  MailInv'
  <2>1. /\ i \in DOMAIN sent
        /\ UNCHANGED <<notificationVars, lock, mails>>
        /\ \E e : emails' = emails \cup {e} /\ e.notificationId = sent[i].id
        /\ OneJob(p, i, job'[p][i])
        /\ \/ job[p][i].pc \in {"store", "drop"} /\ job'[p][i].pc = job[p][i].pc
           \/ job[p][i].pc = "drop" /\ job'[p][i] = Over
           \/ job[p][i].pc = "store" /\ job'[p][i].pc = "send"
    BY <1>3, StoreEmailDoes
  <2>2. /\ UNCHANGED <<sent, mails, lock>> /\ Queued(i)'
        /\ \A d \in emails : \E e \in emails' : e.notificationId = d.notificationId
    BY <2>1 DEF notificationVars, Queued
  <2>3. CASE job'[p][i].pc # "send"
    <3>1. MailCalm
      BY <2>1, <2>2, <2>3 DEF MailCalm, OneJob, Over
    <3>2. LockHeld'
      <4> DEFINE x == job'[p][i]
      <4>1. /\ OneJob(p, i, x) /\ UNCHANGED sent /\ UNCHANGED lock
            /\ x.pc \in {"fetch", "store"} => job[p][i].pc \in {"fetch", "store"}
        BY <2>1, <2>2, <2>3 DEF Over
      <4> HIDE DEF x
      <4> QED
        BY <1>0, <4>1, LockStaysHeld
    <3> QED
      BY <3>1, <3>2, MailCalmKeeps
  <2>4. CASE job'[p][i].pc = "send"
    <3>1. job[p][i].pc = "store"
      BY <2>1, <2>4 DEF Over
    <3>2. LockHeld'
      <4> DEFINE x == job'[p][i]
      <4>1. OneJob(p, i, x) /\ UNCHANGED sent /\ UNCHANGED lock /\ x.pc = "send"
        BY <2>1, <2>2, <2>4
      <4> HIDE DEF x
      <4> QED
        BY <1>0, <4>1, LockStaysHeld
    <3>3. /\ \A k : Queued(k) => Queued(k)'
          /\ \A k, l : SameId(k, l)' <=> SameId(k, l)
      BY <2>2 DEF Queued, SameId
    <3>4. /\ \A a \in Address : mails[i][a] = 0
          /\ \A j \in 1..MaxSent, q \in Process : SameId(i, j) => job[q][j].pc # "send"
      <4>1. SameId(i, i)
        BY <2>1 DEF SameId
      <4> QED
        BY <1>0, <3>1, <4>1 DEF FirstToStore
    <3>5. FirstToStore'
      <4> SUFFICES ASSUME NEW q \in Process, NEW k \in 1..MaxSent, job'[q][k].pc = "store",
                          NEW j \in 1..MaxSent, SameId(k, j)
                   PROVE  /\ \A a \in Address : mails[j][a] = 0
                          /\ \A r \in Process : job'[r][j].pc # "send"
        BY <2>2, <3>3 DEF FirstToStore
      <4>1. <<q, k>> # <<p, i>> /\ job[q][k].pc = "store"
        BY <2>1, <2>4 DEF OneJob
      <4>2. ~SameId(k, i)
        BY <1>0, <3>1, <4>1 DEF LockHeld, SameId
      <4>3. j # i
        BY <4>2
      <4> QED
        BY <1>0, <2>1, <4>1, <4>3 DEF FirstToStore, OneJob
    <3>6. OnlySender'
      <4> SUFFICES ASSUME NEW q \in Process, NEW k \in 1..MaxSent, job'[q][k].pc = "send"
                   PROVE  /\ Queued(k)'
                          /\ \A a \in job'[q][k].todo : mails[k][a] = 0
                          /\ \A r \in Process, j \in 1..MaxSent :
                               SameId(k, j) /\ job'[r][j].pc = "send" => <<r, j>> = <<q, k>>
        BY <2>2, <3>3 DEF OnlySender
      <4>1. \A r \in Process, j \in 1..MaxSent :
              <<r, j>> # <<p, i>> => job'[r][j] = job[r][j]
        BY <2>1 DEF OneJob
      <4>2. CASE <<q, k>> = <<p, i>>
        <5>1. \A a \in job'[q][k].todo : mails[k][a] = 0
          <6>1. job'[p][i].todo \subseteq Address
            BY <2>1 DEF OneJob, JobState
          <6> QED
            BY <3>4, <4>2, <6>1
        <5> QED
          BY <2>2, <3>4, <4>1, <4>2, <5>1
      <4>3. CASE <<q, k>> # <<p, i>>
        <5>1. job[q][k].pc = "send" /\ job'[q][k] = job[q][k]
          BY <4>1, <4>3
        <5>2. ~SameId(k, i)
          BY <3>4, <5>1 DEF SameId
        <5> QED
          BY <1>0, <3>3, <4>1, <5>1, <5>2 DEF OnlySender
      <4> QED
        BY <4>2, <4>3
    <3>7. MailsQueued' /\ OneMailEach'
      BY <1>0, <2>2, <3>3 DEF MailsQueued, OneMailEach
    <3> QED
      BY <3>2, <3>5, <3>6, <3>7 DEF MailInv
  <2> QED
    BY <2>3, <2>4
<1>4. ASSUME NEW p \in Process, NEW i \in 1..MaxSent, NEW to \in Address, StoreFails(p, i, to)
      PROVE  MailInv'
  <2> DEFINE x == job'[p][i]
  <2>1. /\ UNCHANGED <<sent, emails, mails>>
        /\ Releases(p, i) /\ OneJob(p, i, x) /\ x.pc \in {"over", "drop"}
    BY <1>4, StoreFailsDoes
  <2> HIDE DEF x
  <2>2. MailCalm
    BY <2>1 DEF MailCalm, OneJob
  <2>3. LockHeld'
    BY <1>0, <2>1, LockStaysHeld
  <2> QED
    BY <2>2, <2>3, MailCalmKeeps
<1>5. ASSUME NEW p \in Process, NEW i \in 1..MaxSent, NEW to \in Address, Send(p, i, to)
      PROVE  MailInv'
  <2> DEFINE x == job'[p][i]
  <2>1. /\ i \in DOMAIN sent /\ UNCHANGED <<sent, lock, emails>>
        /\ job[p][i].pc = "send" /\ to \in job[p][i].todo
        /\ OneJob(p, i, x) /\ x.pc = "send" /\ x.todo = job[p][i].todo \ {to}
        /\ \/ mails' = [mails EXCEPT ![i][to] = mails[i][to] + 1]
           \/ UNCHANGED mails
    BY <1>5, SendDoes
  <2> HIDE DEF x
  <2>2. LockHeld'
    BY <1>0, <2>1, LockStaysHeld
  <2>3. /\ \A k : Queued(k)' <=> Queued(k)
        /\ \A k, l : SameId(k, l)' <=> SameId(k, l)
    BY <2>1 DEF Queued, SameId
  <2>4. /\ Queued(i) /\ mails[i][to] = 0 /\ SameId(i, i)
        /\ \A q \in Process, j \in 1..MaxSent :
             SameId(i, j) /\ job[q][j].pc = "send" => <<q, j>> = <<p, i>>
    BY <1>0, <2>1 DEF OnlySender, SameId
  <2>5. \A j \in 1..MaxSent, a \in Address :
          /\ <<j, a>> # <<i, to>> => mails'[j][a] = mails[j][a]
          /\ mails'[i][to] \in 0..1
    <3>1. mails \in [1..MaxSent -> [Address -> Nat]]
      BY DEF EmailContext, EmailTypeOK
    <3>2. CASE UNCHANGED mails
      BY <2>4, <3>2
    <3>3. CASE mails' = [mails EXCEPT ![i][to] = mails[i][to] + 1]
      <4>1. mails'[i] = [mails[i] EXCEPT ![to] = mails[i][to] + 1]
        BY <3>1, <3>3
      <4>2. \A j \in 1..MaxSent : j # i => mails'[j] = mails[j]
        BY <3>1, <3>3
      <4>3. mails[i] \in [Address -> Nat]
        BY <3>1
      <4>4. mails'[i][to] = 1 /\ \A a \in Address : a # to => mails'[i][a] = mails[i][a]
        BY <2>4, <4>1, <4>3
      <4> QED
        BY <4>2, <4>4
    <3> QED
      BY <2>1, <3>2, <3>3
  <2>6. FirstToStore'
    <3> SUFFICES ASSUME NEW q \in Process, NEW k \in 1..MaxSent, job'[q][k].pc = "store",
                        NEW j \in 1..MaxSent, SameId(k, j)
                 PROVE  /\ \A a \in Address : mails'[j][a] = 0
                        /\ \A r \in Process : job'[r][j].pc # "send"
      BY <2>3 DEF FirstToStore
    <3>1. job[q][k].pc = "store"
      BY <2>1 DEF OneJob
    <3>2. j # i
      BY <1>0, <2>1, <3>1 DEF FirstToStore
    <3> QED
      BY <1>0, <2>1, <2>5, <3>1, <3>2 DEF FirstToStore, OneJob
  <2>7. OnlySender'
    <3> SUFFICES ASSUME NEW q \in Process, NEW k \in 1..MaxSent, job'[q][k].pc = "send"
                 PROVE  /\ Queued(k)
                        /\ \A a \in job'[q][k].todo : mails'[k][a] = 0
                        /\ \A r \in Process, j \in 1..MaxSent :
                             SameId(k, j) /\ job'[r][j].pc = "send" => <<r, j>> = <<q, k>>
      BY <2>3 DEF OnlySender
    <3>1. \A r \in Process, j \in 1..MaxSent : job'[r][j].pc = "send" => job[r][j].pc = "send"
      BY <2>1 DEF OneJob
    <3>2. \A a \in job'[q][k].todo : mails'[k][a] = 0
      <4>1. job'[q][k].todo \subseteq job[q][k].todo /\ job[q][k].todo \subseteq Address
        BY <2>1, EmailFacts DEF OneJob, JobState
      <4>2. \A a \in job[q][k].todo : mails[k][a] = 0
        BY <1>0, <3>1 DEF OnlySender
      <4>3. CASE <<q, k>> = <<p, i>>
        BY <2>1, <2>5, <4>1, <4>2, <4>3 DEF OneJob
      <4>4. CASE <<q, k>> # <<p, i>>
        <5>1. k # i
          BY <2>4, <3>1, <4>4
        <5> QED
          BY <2>5, <4>1, <4>2, <5>1
      <4> QED
        BY <4>3, <4>4
    <3> QED
      BY <1>0, <3>1, <3>2 DEF OnlySender
  <2>8. MailsQueued'
    BY <1>0, <2>1, <2>3, <2>4, <2>5 DEF MailsQueued
  <2>9. OneMailEach'
    BY <1>0, <2>5 DEF OneMailEach
  <2> QED
    BY <2>2, <2>6, <2>7, <2>8, <2>9 DEF MailInv
<1>6. ASSUME NEW p \in Process, NEW i \in 1..MaxSent, NEW to \in Address, MarkSent(p, i, to)
      PROVE  MailInv'
  <2> DEFINE x == job'[p][i]
  <2>1. /\ UNCHANGED <<sent, mails>> /\ EmailsStay /\ job[p][i].pc = "send"
        /\ OneJob(p, i, x)
        /\ \/ x = Over
           \/ x.pc = "send" /\ x.todo = job[p][i].todo
        /\ UNCHANGED lock \/ Releases(p, i)
    BY <1>6, MarkSentDoes
  <2> HIDE DEF x
  <2>2. MailCalm
    BY <2>1 DEF MailCalm, OneJob, EmailsStay, Over
  <2>3. LockHeld'
    BY <1>0, <2>1, LockStaysHeld DEF Over
  <2> QED
    BY <2>2, <2>3, MailCalmKeeps
<1>7. ASSUME NEW p \in Process, NEW i \in 1..MaxSent, EmailFails(p, i) PROVE MailInv'
  <2>1. UNCHANGED <<sent, emails, mails>> /\ OneJob(p, i, Over) /\ Releases(p, i)
    BY <1>7, EmailFailsDoes
  <2>2. MailCalm
    BY <2>1 DEF MailCalm, OneJob, Over
  <2>3. LockHeld'
    BY <1>0, <2>1, LockStaysHeld DEF Over
  <2> QED
    BY <2>2, <2>3, MailCalmKeeps
<1>8. ASSUME NEW p \in Process, Crash(p) PROVE MailInv'
  <2>1. /\ UNCHANGED <<sent, lock, emails, mails>>
        /\ \A q \in Process, j \in 1..MaxSent :
             job'[q][j] = IF q = p /\ j \in DOMAIN sent THEN Over ELSE job[q][j]
    BY <1>8, CrashDoes
  <2>2. MailCalm
    BY <2>1 DEF MailCalm, Over
  <2>3. LockHeld'
    BY <1>0, <2>1 DEF LockHeld, Over
  <2> QED
    BY <2>2, <2>3, MailCalmKeeps
<1>9. ASSUME NEW id \in 0..MaxClock, LockExpires(id) PROVE MailInv'
  <2>1. /\ UNCHANGED <<sent, job, emails, mails>>
        /\ lock' = [lock EXCEPT ![id] = NoJob]
        /\ \E q \in Process, j \in 1..MaxSent : lock[id] = <<q, j>> /\ job[q][j].pc = "over"
    BY <1>9, LockExpiresDoes DEF notificationVars
  <2>2. MailCalm
    BY <2>1 DEF MailCalm
  <2>3. LockHeld'
    <3>1. lock \in [0..MaxClock -> Job \cup {NoJob}]
      BY DEF EmailContext, EmailTypeOK
    <3> QED
      BY <1>0, <2>1, <3>1, EmailFacts DEF LockHeld
  <2> QED
    BY <2>2, <2>3, MailCalmKeeps
<1> QED
  BY <1>1, <1>2, <1>3, <1>4, <1>5, <1>6, <1>7, <1>8, <1>9 DEF EmailNext

\* Whatever the monitor, those that push, the pollers and the clock do, it keeps
\* the notifications.
LEMMA OthersKeepSent ==
  ASSUME Typed, Next, ~EmailNext
  PROVE  SentKept /\ UNCHANGED emailVars /\ (trouble => trouble')
<1>0. /\ NotificationsTypeOK /\ MonitorTyped /\ NotesFit /\ PushContext
  BY TypedSplit DEF Typed, PushContext
<1>1. UNCHANGED notificationVars => SentKept /\ (trouble => trouble')
  BY DEF SentKept, SameNote, notificationVars
<1>2. CASE MonitorNext /\ UNCHANGED <<emailVars, pushVars, feedVars>>
  BY <1>0, <1>2, MonitorTypes
<1>3. CASE PushNext /\ UNCHANGED <<emailVars, feedVars, monitorVars>>
  BY <1>0, <1>3, PushStepFits
<1>4. CASE FeedNext /\ UNCHANGED <<emailVars, pushVars, monitorVars>>
  BY <1>1, <1>4 DEF FeedNext
<1>5. CASE TimePasses /\ UNCHANGED <<emailVars, pushVars, feedVars, monitorVars>>
  BY <1>5 DEF TimePasses, SentKept, SameNote
<1> QED
  BY <1>2, <1>3, <1>4, <1>5 DEF Next

\* However many processes are told and whatever fails or stops: if no job
\* outlives its lock, nobody gets a notification twice (OneMailEach).
THEOREM NobodyTwice == ASSUME Prompt PROVE Spec => []OneMailEach
<1>1. Init => MailInv
  <2> SUFFICES ASSUME Init PROVE MailInv
    OBVIOUS
  <2>1. /\ \A p \in Process, i \in 1..MaxSent : job[p][i].pc = "idle"
        /\ \A i \in 1..MaxSent, a \in Address : mails[i][a] = 0
    BY DEF Init, EmailInit
  <2> QED
    BY <2>1 DEF MailInv, LockHeld, FirstToStore, OnlySender, MailsQueued, OneMailEach
<1>2. Typed /\ MailInv /\ [Next]_vars => MailInv'
  <2> SUFFICES ASSUME Typed, MailInv, [Next]_vars PROVE MailInv'
    OBVIOUS
  <2>1. EmailContext
    BY TypedSplit DEF Typed, EmailContext
  <2>2. CASE EmailNext
    BY <2>1, <2>2, MailStepKeeps
  <2>3. CASE Next /\ ~EmailNext
    BY <2>1, <2>3, OthersKeepSent, MailStays
  <2>4. CASE UNCHANGED vars
    <3>1. SentKept /\ UNCHANGED emailVars
      BY <2>4 DEF vars, SentKept, SameNote, notificationVars
    <3> QED
      BY <2>1, <3>1, MailStays
  <2> QED
    BY <2>2, <2>3, <2>4
<1>3. MailInv => OneMailEach
  BY DEF MailInv
<1> QED
  BY <1>1, <1>2, <1>3, Invariance, PTL DEF Spec

-----------------------------------------------------------------------------
(* Everybody gets the mail.                                                 *)

\* A job that is neither waiting nor over.
Working(p, i) == job[p][i].pc \in {"fetch", "store", "send"}

\* Everybody was mailed, once.
Mailed(i) == \A a \in Recipients(sent[i]) : mails[i][a] = 1

\* It is to be mailed, and no other notification has its id.
Alone(i) ==
  /\ ShouldMail(sent[i])
  /\ \A j \in DOMAIN sent : sent[j].id = sent[i].id => j = i

\* As long as nothing fails: whoever works on a notification holds its lock,
\* and nobody else holds one.
WorkersHold ==
  \A p \in Process, i \in 1..MaxSent :
    job[p][i].pc # "drop" /\ (Working(p, i) => lock[sent[i].id] = <<p, i>>)

\* Only those who work hold a lock.
HoldersWork ==
  \A id \in 0..MaxClock : lock[id] # NoJob =>
    \E q \in Process, j \in DOMAIN sent :
      lock[id] = <<q, j>> /\ sent[j].id = id /\ Working(q, j)

\* Whoever sends has still to send a mail, or has sent it.
TodoOrMailed ==
  \A p \in Process, i \in 1..MaxSent : job[p][i].pc = "send" =>
    \A a \in Recipients(sent[i]) : a \in job[p][i].todo \/ mails[i][a] = 1

\* A document in the queue is of a job that is at it, or that mailed everybody.
QueuedByWorkers ==
  \A e \in emails : \E q \in Process, j \in DOMAIN sent :
    /\ e.job = <<q, j>> /\ sent[j].id = e.notificationId
    /\ \/ job[q][j].pc \in {"store", "send"}
       \/ job[q][j].pc = "over" /\ Mailed(j)

\* So whoever is done leaves somebody who works, or the mails.
OverIsMailed ==
  \A p \in Process, i \in DOMAIN sent :
    job[p][i].pc = "over" /\ Alone(i) => (\E q \in Process : Working(q, i)) \/ Mailed(i)

\* The inductive invariant of AllMailed, until something fails.
MailedInv ==
  ~trouble => WorkersHold /\ HoldersWork /\ TodoOrMailed /\ QueuedByWorkers /\ OverIsMailed

\* A notification that stays has the same recipients.
LEMMA RecipientsKept ==
  ASSUME SentKept, NEW i \in DOMAIN sent
  PROVE  Recipients(sent'[i]) = Recipients(sent[i])
BY DEF SentKept, SameNote, Recipients, NotifyAs

\* What others do to the notifications leaves that as it is.
LEMMA MailedStays ==
  ASSUME EmailContext, NotesFit', NotificationsTypeOK', MailedInv, SentKept,
         UNCHANGED emailVars, trouble => trouble'
  PROVE  MailedInv'
<1> SUFFICES ASSUME ~trouble
             PROVE  (WorkersHold /\ HoldersWork /\ TodoOrMailed /\ QueuedByWorkers /\ OverIsMailed)'
  BY DEF MailedInv
<1>0. WorkersHold /\ HoldersWork /\ TodoOrMailed /\ QueuedByWorkers /\ OverIsMailed
  BY DEF MailedInv
<1>1. /\ \A i \in DOMAIN sent : /\ i \in DOMAIN sent' /\ sent'[i].id = sent[i].id
                                /\ sent'[i].type = sent[i].type
                                /\ sent'[i].walletId = sent[i].walletId
                                /\ Recipients(sent'[i]) = Recipients(sent[i])
      /\ UNCHANGED <<job, lock, emails, mails>>
  BY RecipientsKept DEF SentKept, SameNote, emailVars
<1>2. \A p \in Process, i \in 1..MaxSent : job[p][i].pc # "idle" => i \in DOMAIN sent
  BY EmailFacts
<1>3. \A i \in DOMAIN sent : (Mailed(i)' <=> Mailed(i)) /\ (Alone(i)' => Alone(i))
  BY <1>1 DEF Mailed, Alone, ShouldMail
<1>4. \A p \in Process : \A i : Working(p, i)' <=> Working(p, i)
  BY <1>1 DEF Working
<1>5. DOMAIN sent \subseteq 1..MaxSent
  BY EmailFacts
<1>6. WorkersHold'
  BY <1>0, <1>1, <1>2, <1>4 DEF WorkersHold, Working
<1>7. HoldersWork'
  BY <1>0, <1>1, <1>4, <1>5 DEF HoldersWork
<1>8. TodoOrMailed'
  BY <1>0, <1>1, <1>2 DEF TodoOrMailed
<1>9. QueuedByWorkers'
  BY <1>0, <1>1, <1>3 DEF QueuedByWorkers
<1>10. OverIsMailed'
  <2> SUFFICES ASSUME NEW p \in Process, NEW i \in DOMAIN sent', job[p][i].pc = "over", Alone(i)'
               PROVE  (\E q \in Process : Working(q, i)) \/ Mailed(i)'
    BY <1>1, <1>4 DEF OverIsMailed
  <2>1. CASE i \in DOMAIN sent
    BY <1>0, <1>3, <2>1 DEF OverIsMailed
  <2>2. CASE i \notin DOMAIN sent
    <3>1. i \in 1..MaxSent
      <4>1. sent' \in Seq(Notification) /\ Len(sent') <= MaxSent
        BY DEF NotesFit, NotificationsTypeOK
      <4> QED
        BY <4>1, NotificationsAssumption
    <3> QED
      BY <1>2, <2>2, <3>1
  <2> QED
    BY <2>1, <2>2
<1> QED
  BY <1>6, <1>7, <1>8, <1>9, <1>10

\* Somebody goes on working.
LEMMA WorkGoesOn ==
  ASSUME EmailContext, NEW p \in Process, NEW i \in 1..MaxSent, NEW x, OneJob(p, i, x),
         Working(p, i), x.pc \in {"fetch", "store", "send"}, UNCHANGED <<sent, lock>>,
         \A j \in DOMAIN sent : Mailed(j) => Mailed(j)',
         WorkersHold, HoldersWork, OverIsMailed
  PROVE  WorkersHold' /\ HoldersWork' /\ OverIsMailed'
<1>1. \A q \in Process, j \in 1..MaxSent : Working(q, j)' <=> Working(q, j)
  BY DEF OneJob, Working
<1>2. \A q \in Process, j \in 1..MaxSent :
        /\ job'[q][j].pc = "over" => job[q][j].pc = "over"
        /\ job'[q][j].pc = "drop" => job[q][j].pc = "drop"
  BY DEF OneJob
<1>3. \A j : Alone(j)' <=> Alone(j)
  BY DEF Alone
<1>4. DOMAIN sent \subseteq 1..MaxSent
  BY EmailFacts
<1>5. WorkersHold'
  BY <1>1, <1>2 DEF WorkersHold
<1>6. HoldersWork'
  BY <1>1, <1>4 DEF HoldersWork
<1>7. OverIsMailed'
  BY <1>1, <1>2, <1>3, <1>4 DEF OverIsMailed
<1> QED
  BY <1>5, <1>6, <1>7

\* Somebody is done, and leaves another who works, or the mails.
LEMMA WorkEnds ==
  ASSUME EmailContext, NEW p \in Process, NEW i \in DOMAIN sent, OneJob(p, i, Over),
         Working(p, i), Releases(p, i), UNCHANGED <<sent, mails>>,
         Alone(i) => (\E q \in Process : q # p /\ Working(q, i)) \/ Mailed(i),
         WorkersHold, HoldersWork, TodoOrMailed, OverIsMailed
  PROVE  WorkersHold' /\ HoldersWork' /\ TodoOrMailed' /\ OverIsMailed'
<1>1. DOMAIN sent \subseteq 1..MaxSent /\ \A j \in DOMAIN sent : sent[j].id \in 0..MaxClock
  BY EmailFacts
<1>2. /\ job'[p][i] = Over
      /\ \A q \in Process, j \in 1..MaxSent : <<q, j>> # <<p, i>> => job'[q][j] = job[q][j]
  BY <1>1 DEF OneJob
<1>3. \A q \in Process, j \in 1..MaxSent :
        Working(q, j)' <=> Working(q, j) /\ <<q, j>> # <<p, i>>
  BY <1>2 DEF Working, Over
<1>4. \A j : (Alone(j)' <=> Alone(j)) /\ (Mailed(j)' <=> Mailed(j))
  BY DEF Alone, Mailed
<1>5. WorkersHold'
  <2> SUFFICES ASSUME NEW q \in Process, NEW j \in 1..MaxSent
               PROVE  job'[q][j].pc # "drop" /\ (Working(q, j)' => lock'[sent[j].id] = <<q, j>>)
    BY DEF WorkersHold
  <2>1. job'[q][j].pc # "drop"
    BY <1>2 DEF WorkersHold, Over
  <2>2. ASSUME Working(q, j)'
        PROVE  lock'[sent[j].id] = <<q, j>>
    <3>1. Working(q, j) /\ <<q, j>> # <<p, i>>
      BY <1>3, <2>2
    <3>2. lock[sent[j].id] = <<q, j>> /\ sent[j].id \in 0..MaxClock
      BY <3>1, EmailFacts DEF WorkersHold, Working
    <3> QED
      BY <3>1, <3>2 DEF Releases
  <2> QED
    BY <2>1, <2>2
<1>6. HoldersWork'
  <2> SUFFICES ASSUME NEW id \in 0..MaxClock, lock'[id] # NoJob
               PROVE  \E q \in Process, j \in DOMAIN sent :
                        lock'[id] = <<q, j>> /\ sent[j].id = id /\ Working(q, j)'
    BY DEF HoldersWork
  <2>1. lock[id] # <<p, i>> /\ lock'[id] = lock[id]
    BY DEF Releases
  <2>2. PICK q \in Process, j \in DOMAIN sent :
          lock[id] = <<q, j>> /\ sent[j].id = id /\ Working(q, j)
    BY <2>1 DEF HoldersWork
  <2> QED
    BY <1>1, <1>3, <2>1, <2>2
<1>7. TodoOrMailed'
  BY <1>2 DEF TodoOrMailed, Over
<1>8. OverIsMailed'
  <2> SUFFICES ASSUME NEW q \in Process, NEW j \in DOMAIN sent, job'[q][j].pc = "over", Alone(j)
               PROVE  (\E r \in Process : Working(r, j)') \/ Mailed(j)
    BY <1>4 DEF OverIsMailed
  <2>1. CASE j = i
    BY <1>1, <1>3, <2>1
  <2>2. CASE j # i
    <3>1. job[q][j].pc = "over"
      BY <1>1, <1>2, <2>2
    <3> QED
      BY <1>1, <1>3, <2>2, <3>1 DEF OverIsMailed
  <2> QED
    BY <2>1, <2>2
<1> QED
  BY <1>5, <1>6, <1>7, <1>8

\* Every step of the email service keeps it.
LEMMA MailedStepKeeps ==
  ASSUME EmailContext, MailInv, MailedInv, Prompt, EmailNext
  PROVE  MailedInv'
<1> DEFINE Kept == WorkersHold /\ HoldersWork /\ TodoOrMailed /\ QueuedByWorkers /\ OverIsMailed
<1> SUFFICES ASSUME ~trouble' PROVE Kept'
  BY DEF MailedInv
<1>0. ~trouble /\ WorkersHold /\ HoldersWork /\ TodoOrMailed /\ QueuedByWorkers /\ OverIsMailed
  <2>1. UNCHANGED trouble \/ trouble' = TRUE
    BY EmailTrouble
  <2>2. ~trouble
    BY <2>1
  <2> QED
    BY <2>2 DEF MailedInv
<1>e. DOMAIN sent \subseteq 1..MaxSent /\ \A j \in DOMAIN sent : sent[j].id \in 0..MaxClock
  BY EmailFacts
<1>1. ASSUME NEW p \in Process, NEW i \in 1..MaxSent, SendEmail(p, i) PROVE Kept'
  <2>1. /\ i \in DOMAIN sent /\ job[p][i].pc = "idle"
        /\ UNCHANGED <<notificationVars, emails, mails>>
        /\ \/ /\ OneJob(p, i, job'[p][i]) /\ job'[p][i].pc = "fetch"
              /\ lock[sent[i].id] = NoJob
              /\ lock' = [lock EXCEPT ![sent[i].id] = <<p, i>>]
           \/ /\ OneJob(p, i, Over) /\ UNCHANGED lock
              /\ \/ ~ShouldMail(sent[i]) \/ Recipients(sent[i]) = {}
                 \/ lock[sent[i].id] # NoJob
    BY <1>1, SendEmailDoes
  <2>2. UNCHANGED <<sent, mails, emails>>
    BY <2>1 DEF notificationVars
  <2>3. /\ \A q \in Process, j \in 1..MaxSent : <<q, j>> # <<p, i>> => job'[q][j] = job[q][j]
        /\ \A q \in Process, j \in 1..MaxSent : Working(q, j) => Working(q, j)'
        /\ job'[p][i].pc \in {"fetch", "over"}
    BY <2>1 DEF OneJob, Working, Over
  <2>4. \A j : (Alone(j)' <=> Alone(j)) /\ (Mailed(j)' <=> Mailed(j))
    BY <2>2 DEF Alone, Mailed
  <2>5. TodoOrMailed'
    BY <1>0, <2>2, <2>3 DEF TodoOrMailed
  <2>6. QueuedByWorkers'
    <3> SUFFICES ASSUME NEW e \in emails
                 PROVE  \E q \in Process, j \in DOMAIN sent :
                          /\ e.job = <<q, j>> /\ sent[j].id = e.notificationId
                          /\ \/ job'[q][j].pc \in {"store", "send"}
                             \/ job'[q][j].pc = "over" /\ Mailed(j)
      BY <2>2, <2>4 DEF QueuedByWorkers
    <3>1. PICK q \in Process, j \in DOMAIN sent :
            /\ e.job = <<q, j>> /\ sent[j].id = e.notificationId
            /\ \/ job[q][j].pc \in {"store", "send"}
               \/ job[q][j].pc = "over" /\ Mailed(j)
      BY <1>0 DEF QueuedByWorkers
    <3>2. <<q, j>> # <<p, i>>
      BY <2>1, <3>1
    <3> QED
      BY <1>e, <2>3, <3>1, <3>2
  <2>7. CASE /\ OneJob(p, i, job'[p][i]) /\ job'[p][i].pc = "fetch"
             /\ lock[sent[i].id] = NoJob
             /\ lock' = [lock EXCEPT ![sent[i].id] = <<p, i>>]
    <3>1. \A id \in 0..MaxClock :
            lock'[id] = IF id = sent[i].id THEN <<p, i>> ELSE lock[id]
      BY <2>7 DEF EmailContext, EmailTypeOK
    <3>2. WorkersHold'
      <4> SUFFICES ASSUME NEW q \in Process, NEW j \in 1..MaxSent
                   PROVE  /\ job'[q][j].pc # "drop"
                          /\ Working(q, j)' => lock'[sent[j].id] = <<q, j>>
        BY <2>2 DEF WorkersHold
      <4>1. CASE <<q, j>> = <<p, i>>
        BY <1>e, <2>1, <2>7, <3>1, <4>1
      <4>2. CASE <<q, j>> # <<p, i>>
        <5>1. job'[q][j] = job[q][j] /\ job[q][j].pc # "drop"
          BY <1>0, <2>3, <4>2 DEF WorkersHold
        <5>2. ASSUME Working(q, j)
              PROVE  lock'[sent[j].id] = <<q, j>>
          <6>1. lock[sent[j].id] = <<q, j>> /\ sent[j].id \in 0..MaxClock /\ <<q, j>> # NoJob
            BY <1>0, <5>2, EmailFacts, EmailAssumption DEF WorkersHold, Working, Job
          <6> QED
            BY <2>7, <3>1, <6>1
        <5> QED
          BY <5>1, <5>2 DEF Working
      <4> QED
        BY <4>1, <4>2
    <3>3. HoldersWork'
      <4> SUFFICES ASSUME NEW id \in 0..MaxClock, lock'[id] # NoJob
                   PROVE  \E q \in Process, j \in DOMAIN sent :
                            lock'[id] = <<q, j>> /\ sent[j].id = id /\ Working(q, j)'
        BY <2>2 DEF HoldersWork
      <4>1. CASE id = sent[i].id
        BY <2>1, <2>7, <3>1, <4>1 DEF Working
      <4>2. CASE id # sent[i].id
        <5>1. PICK q \in Process, j \in DOMAIN sent :
                lock[id] = <<q, j>> /\ sent[j].id = id /\ Working(q, j)
          BY <1>0, <3>1, <4>2 DEF HoldersWork
        <5> QED
          BY <1>e, <2>3, <3>1, <4>2, <5>1
      <4> QED
        BY <4>1, <4>2
    <3>4. OverIsMailed'
      <4>1. \A q \in Process, j \in DOMAIN sent : job'[q][j].pc = "over" => job[q][j].pc = "over"
        BY <1>e, <2>3, <2>7
      <4> QED
        BY <1>0, <1>e, <2>2, <2>3, <2>4, <4>1 DEF OverIsMailed
    <3> QED
      BY <2>5, <2>6, <3>2, <3>3, <3>4
  <2>8. CASE /\ OneJob(p, i, Over) /\ UNCHANGED lock
             /\ \/ ~ShouldMail(sent[i]) \/ Recipients(sent[i]) = {}
                \/ lock[sent[i].id] # NoJob
    <3>1. job'[p][i] = Over /\ \A q \in Process, j \in 1..MaxSent : Working(q, j)' <=> Working(q, j)
      BY <2>1, <2>3, <2>8 DEF OneJob, Working, Over
    <3>2. WorkersHold'
      <4>1. WorkersHold /\ UNCHANGED lock
        BY <1>0, <2>8
      <4> QED
        BY <2>2, <2>3, <3>1, <4>1 DEF WorkersHold
    <3>3. HoldersWork'
      BY <1>0, <1>e, <2>2, <2>8, <3>1 DEF HoldersWork
    <3>4. Alone(i) => (\E q \in Process : Working(q, i)) \/ Mailed(i)
      <4>1. CASE ~ShouldMail(sent[i]) \/ Recipients(sent[i]) = {}
        BY <4>1 DEF Alone, Mailed
      <4>2. CASE lock[sent[i].id] # NoJob
        <5>1. PICK q \in Process, j \in DOMAIN sent : sent[j].id = sent[i].id /\ Working(q, j)
          BY <1>0, <1>e, <2>1, <4>2 DEF HoldersWork
        <5> QED
          BY <5>1 DEF Alone
      <4> QED
        BY <2>8, <4>1, <4>2
    <3>5. OverIsMailed'
      <4> SUFFICES ASSUME NEW q \in Process, NEW j \in DOMAIN sent, job'[q][j].pc = "over", Alone(j)
                   PROVE  (\E r \in Process : Working(r, j)) \/ Mailed(j)
        BY <1>e, <2>2, <2>4, <3>1 DEF OverIsMailed
      <4>1. CASE <<q, j>> = <<p, i>>
        BY <3>4, <4>1
      <4>2. CASE <<q, j>> # <<p, i>>
        <5>1. job[q][j].pc = "over"
          BY <1>e, <2>3, <4>2
        <5> QED
          BY <1>0, <5>1 DEF OverIsMailed
      <4> QED
        BY <4>1, <4>2
    <3> QED
      BY <2>5, <2>6, <3>2, <3>3, <3>5
  <2> QED
    BY <2>1, <2>7, <2>8
<1>2. ASSUME NEW p \in Process, NEW i \in 1..MaxSent, FetchEmail(p, i) PROVE Kept'
  <2>1. /\ i \in DOMAIN sent /\ job[p][i].pc = "fetch"
        /\ UNCHANGED <<notificationVars, emails, mails>>
        /\ \/ /\ OneJob(p, i, Over) /\ Releases(p, i)
              /\ \E e \in emails : e.notificationId = sent[i].id
           \/ /\ OneJob(p, i, job'[p][i]) /\ job'[p][i].pc = "store"
              /\ UNCHANGED lock
    BY <1>2, FetchEmailDoes
  <2>2. UNCHANGED <<sent, mails, emails>> /\ Working(p, i)
    BY <2>1 DEF notificationVars, Working
  <2>3. \A q \in Process, j \in 1..MaxSent : <<q, j>> # <<p, i>> => job'[q][j] = job[q][j]
    BY <2>1 DEF OneJob
  <2>4. \A j : Mailed(j)' <=> Mailed(j)
    BY <2>2 DEF Mailed
  <2>5. QueuedByWorkers'
    <3> SUFFICES ASSUME NEW e \in emails
                 PROVE  \E q \in Process, j \in DOMAIN sent :
                          /\ e.job = <<q, j>> /\ sent[j].id = e.notificationId
                          /\ \/ job'[q][j].pc \in {"store", "send"}
                             \/ job'[q][j].pc = "over" /\ Mailed(j)
      BY <2>2, <2>4 DEF QueuedByWorkers
    <3>1. PICK q \in Process, j \in DOMAIN sent :
            /\ e.job = <<q, j>> /\ sent[j].id = e.notificationId
            /\ \/ job[q][j].pc \in {"store", "send"}
               \/ job[q][j].pc = "over" /\ Mailed(j)
      BY <1>0 DEF QueuedByWorkers
    <3>2. <<q, j>> # <<p, i>>
      BY <2>1, <3>1
    <3> QED
      BY <1>e, <2>3, <3>1, <3>2
  <2>6. CASE /\ OneJob(p, i, Over) /\ Releases(p, i)
             /\ \E e \in emails : e.notificationId = sent[i].id
    <3>1. Alone(i) => (\E q \in Process : q # p /\ Working(q, i)) \/ Mailed(i)
      <4> SUFFICES ASSUME Alone(i)
                   PROVE  (\E q \in Process : q # p /\ Working(q, i)) \/ Mailed(i)
        OBVIOUS
      <4>1. PICK e \in emails : e.notificationId = sent[i].id
        BY <2>6
      <4>2. PICK q \in Process, j \in DOMAIN sent :
              /\ e.job = <<q, j>> /\ sent[j].id = e.notificationId
              /\ \/ job[q][j].pc \in {"store", "send"}
                 \/ job[q][j].pc = "over" /\ Mailed(j)
        BY <1>0 DEF QueuedByWorkers
      <4>3. j = i
        BY <4>1, <4>2 DEF Alone
      <4> QED
        BY <2>1, <4>2, <4>3 DEF Working
    <3> QED
      BY <1>0, <2>1, <2>2, <2>5, <2>6, <3>1, WorkEnds
  <2>7. CASE OneJob(p, i, job'[p][i]) /\ job'[p][i].pc = "store" /\ UNCHANGED lock
    <3> DEFINE x == job'[p][i]
    <3>1. OneJob(p, i, x) /\ x.pc \in {"fetch", "store", "send"} /\ UNCHANGED <<sent, lock>>
      BY <2>2, <2>7
    <3> HIDE DEF x
    <3>2. WorkersHold' /\ HoldersWork' /\ OverIsMailed'
      BY <1>0, <2>2, <2>4, <3>1, WorkGoesOn
    <3>3. TodoOrMailed'
      BY <1>0, <2>2, <2>3, <2>7 DEF TodoOrMailed
    <3> QED
      BY <2>5, <3>2, <3>3
  <2> QED
    BY <2>1, <2>6, <2>7
<1>3. ASSUME NEW p \in Process, NEW i \in 1..MaxSent, NEW to \in Address, StoreEmail(p, i, to)
      PROVE  Kept'
  <2> DEFINE x == job'[p][i]
  <2>1. /\ i \in DOMAIN sent
        /\ UNCHANGED <<notificationVars, lock, mails>>
        /\ \E e : emails' = emails \cup {e} /\ e.notificationId = sent[i].id /\ e.job = <<p, i>>
        /\ OneJob(p, i, x)
        /\ \/ job[p][i].pc \in {"store", "drop"} /\ x.pc = job[p][i].pc
           \/ job[p][i].pc = "drop" /\ x = Over
           \/ job[p][i].pc = "store" /\ x.pc = "send" /\ x.todo = Recipients(sent[i])
    BY <1>3, StoreEmailDoes
  <2>2. /\ job[p][i].pc = "store" /\ Working(p, i)
        /\ \/ x.pc = "store"
           \/ x.pc = "send" /\ x.todo = Recipients(sent[i])
    BY <1>0, <2>1 DEF WorkersHold, Working
  <2>3. UNCHANGED <<sent, lock, mails>>
    BY <2>1 DEF notificationVars
  <2>4. /\ x = job'[p][i]
        /\ \A q \in Process, j \in 1..MaxSent : <<q, j>> # <<p, i>> => job'[q][j] = job[q][j]
    BY <2>1 DEF OneJob
  <2> HIDE DEF x
  <2>5. \A j : Mailed(j)' <=> Mailed(j)
    BY <2>3 DEF Mailed
  <2>6. WorkersHold' /\ HoldersWork' /\ OverIsMailed'
    BY <1>0, <2>1, <2>2, <2>3, <2>5, WorkGoesOn
  <2>7. TodoOrMailed'
    BY <1>0, <2>2, <2>3, <2>4 DEF TodoOrMailed
  <2>8. QueuedByWorkers'
    <3> SUFFICES ASSUME NEW e \in emails'
                 PROVE  \E q \in Process, j \in DOMAIN sent :
                          /\ e.job = <<q, j>> /\ sent[j].id = e.notificationId
                          /\ \/ job'[q][j].pc \in {"store", "send"}
                             \/ job'[q][j].pc = "over" /\ Mailed(j)
      BY <2>3, <2>5 DEF QueuedByWorkers
    <3>1. CASE e \in emails
      <4>1. PICK q \in Process, j \in DOMAIN sent :
              /\ e.job = <<q, j>> /\ sent[j].id = e.notificationId
              /\ \/ job[q][j].pc \in {"store", "send"}
                 \/ job[q][j].pc = "over" /\ Mailed(j)
        BY <1>0, <3>1 DEF QueuedByWorkers
      <4>2. CASE <<q, j>> = <<p, i>>
        BY <2>2, <2>4, <4>1, <4>2
      <4>3. CASE <<q, j>> # <<p, i>>
        BY <1>e, <2>4, <4>1, <4>3
      <4> QED
        BY <4>2, <4>3
    <3>2. CASE e \notin emails
      BY <2>1, <2>2, <2>4, <3>2
    <3> QED
      BY <3>1, <3>2
  <2> QED
    BY <2>6, <2>7, <2>8
<1>4. ASSUME NEW p \in Process, NEW i \in 1..MaxSent, NEW to \in Address, StoreFails(p, i, to)
      PROVE  Kept'
  BY <1>4, StoreFailsDoes
<1>5. ASSUME NEW p \in Process, NEW i \in 1..MaxSent, NEW to \in Address, Send(p, i, to)
      PROVE  Kept'
  <2> DEFINE x == job'[p][i]
  <2>1. /\ i \in DOMAIN sent /\ UNCHANGED <<sent, lock, emails>>
        /\ job[p][i].pc = "send" /\ to \in job[p][i].todo
        /\ OneJob(p, i, x) /\ x.pc = "send" /\ x.todo = job[p][i].todo \ {to}
        /\ mails' = [mails EXCEPT ![i][to] = mails[i][to] + 1]
    BY <1>5, SendDoes
  <2>2. /\ x = job'[p][i] /\ Working(p, i)
        /\ \A q \in Process, j \in 1..MaxSent : <<q, j>> # <<p, i>> => job'[q][j] = job[q][j]
    BY <2>1 DEF OneJob, Working
  <2> HIDE DEF x
  <2>3. mails[i][to] = 0
    BY <2>1 DEF MailInv, OnlySender
  <2>4. /\ mails'[i][to] = 1
        /\ \A j \in 1..MaxSent, a \in Address : mails[j][a] = 1 => mails'[j][a] = 1
    <3>1. mails \in [1..MaxSent -> [Address -> Nat]]
      BY DEF EmailContext, EmailTypeOK
    <3>2. mails'[i] = [mails[i] EXCEPT ![to] = 1] /\ mails[i] \in [Address -> Nat]
      BY <2>1, <2>3, <3>1
    <3>3. \A j \in 1..MaxSent : j # i => mails'[j] = mails[j]
      BY <2>1, <3>1
    <3>4. mails'[i][to] = 1 /\ \A a \in Address : a # to => mails'[i][a] = mails[i][a]
      BY <3>2
    <3> QED
      BY <2>3, <3>3, <3>4
  <2>5. \A j \in DOMAIN sent : Mailed(j) => Mailed(j)'
    <3>1. Recipients(sent[i]) \subseteq Address
      <4>1. ShouldMail(sent[i])
        BY <2>1 DEF EmailContext, JobsFit, JobFits
      <4>2. sent[i].walletId \in Wallet
        BY <2>1, <4>1, EmailFacts DEF ShouldMail, EmailTypes, PocketeerType
      <4> QED
        BY <4>2, RecipientsFit
    <3>2. Mailed(i) => Mailed(i)'
      BY <1>e, <2>1, <2>4, <3>1 DEF Mailed
    <3>3. \A j \in DOMAIN sent : j # i => (Mailed(j) => Mailed(j)')
      <4>1. \A j \in 1..MaxSent : j # i => mails'[j] = mails[j]
        BY <2>1 DEF EmailContext, EmailTypeOK
      <4> QED
        BY <1>e, <2>1, <4>1 DEF Mailed
    <3> QED
      BY <3>2, <3>3
  <2>6. WorkersHold' /\ HoldersWork' /\ OverIsMailed'
    BY <1>0, <2>1, <2>2, <2>5, WorkGoesOn
  <2>7. TodoOrMailed'
    <3> SUFFICES ASSUME NEW q \in Process, NEW j \in 1..MaxSent, job'[q][j].pc = "send",
                        NEW a \in Recipients(sent[j])
                 PROVE  a \in job'[q][j].todo \/ mails'[j][a] = 1
      BY <2>1 DEF TodoOrMailed
    <3>1. job[q][j].pc = "send"
      BY <2>1, <2>2
    <3>2. a \in job[q][j].todo \/ mails[j][a] = 1
      BY <1>0, <3>1 DEF TodoOrMailed
    <3>3. a \in Address
      <4>1. ShouldMail(sent[j]) /\ j \in DOMAIN sent
        BY <3>1 DEF EmailContext, JobsFit, JobFits
      <4>2. sent[j].walletId \in Wallet
        BY <4>1, EmailFacts DEF ShouldMail, EmailTypes, PocketeerType
      <4> QED
        BY <4>2, RecipientsFit
    <3>4. CASE <<q, j>> = <<p, i>>
      BY <2>1, <2>2, <2>4, <3>2, <3>3, <3>4
    <3>5. CASE <<q, j>> # <<p, i>>
      BY <2>2, <2>4, <3>2, <3>3, <3>5
    <3> QED
      BY <3>4, <3>5
  <2>8. QueuedByWorkers'
    <3> SUFFICES ASSUME NEW e \in emails
                 PROVE  \E q \in Process, j \in DOMAIN sent :
                          /\ e.job = <<q, j>> /\ sent[j].id = e.notificationId
                          /\ \/ job'[q][j].pc \in {"store", "send"}
                             \/ job'[q][j].pc = "over" /\ Mailed(j)'
      BY <2>1 DEF QueuedByWorkers
    <3>1. PICK q \in Process, j \in DOMAIN sent :
            /\ e.job = <<q, j>> /\ sent[j].id = e.notificationId
            /\ \/ job[q][j].pc \in {"store", "send"}
               \/ job[q][j].pc = "over" /\ Mailed(j)
      BY <1>0 DEF QueuedByWorkers
    <3>2. job'[q][j].pc = job[q][j].pc
      BY <1>e, <2>1, <2>2, <3>1
    <3> QED
      BY <2>5, <3>1, <3>2
  <2> QED
    BY <2>6, <2>7, <2>8
<1>6. ASSUME NEW p \in Process, NEW i \in 1..MaxSent, NEW to \in Address, MarkSent(p, i, to)
      PROVE  Kept'
  <2> DEFINE x == job'[p][i]
  <2>1. /\ i \in DOMAIN sent /\ UNCHANGED <<sent, mails>> /\ EmailsStay /\ job[p][i].pc = "send"
        /\ OneJob(p, i, x)
        /\ \/ x = Over /\ job[p][i].todo = {} /\ Releases(p, i)
           \/ x.pc = "send" /\ x.todo = job[p][i].todo /\ UNCHANGED lock
    BY <1>6, MarkSentDoes
  <2>2. /\ x = job'[p][i] /\ Working(p, i)
        /\ \A q \in Process, j \in 1..MaxSent : <<q, j>> # <<p, i>> => job'[q][j] = job[q][j]
    BY <2>1 DEF OneJob, Working
  <2> HIDE DEF x
  <2>3. \A j : Mailed(j)' <=> Mailed(j)
    BY <2>1 DEF Mailed
  <2>4. x = Over => Mailed(i)
    <3>1. x = Over => job[p][i].todo = {}
      BY <2>1 DEF Over
    <3> QED
      BY <1>0, <2>1, <3>1 DEF TodoOrMailed, Mailed
  <2>5. QueuedByWorkers'
    <3> SUFFICES ASSUME NEW e \in emails'
                 PROVE  \E q \in Process, j \in DOMAIN sent :
                          /\ e.job = <<q, j>> /\ sent[j].id = e.notificationId
                          /\ \/ job'[q][j].pc \in {"store", "send"}
                             \/ job'[q][j].pc = "over" /\ Mailed(j)
      BY <2>1, <2>3 DEF QueuedByWorkers
    <3>1. PICK d \in emails : e.notificationId = d.notificationId /\ e.job = d.job
      BY <2>1 DEF EmailsStay
    <3>2. PICK q \in Process, j \in DOMAIN sent :
            /\ d.job = <<q, j>> /\ sent[j].id = d.notificationId
            /\ \/ job[q][j].pc \in {"store", "send"}
               \/ job[q][j].pc = "over" /\ Mailed(j)
      BY <1>0 DEF QueuedByWorkers
    <3>3. CASE <<q, j>> = <<p, i>>
      BY <2>1, <2>2, <2>4, <3>1, <3>2, <3>3 DEF Over
    <3>4. CASE <<q, j>> # <<p, i>>
      BY <1>e, <2>2, <3>1, <3>2, <3>4
    <3> QED
      BY <3>3, <3>4
  <2>6. CASE x = Over /\ Releases(p, i)
    BY <1>0, <2>1, <2>2, <2>4, <2>5, <2>6, WorkEnds
  <2>7. CASE x.pc = "send" /\ x.todo = job[p][i].todo /\ UNCHANGED lock
    <3>1. WorkersHold' /\ HoldersWork' /\ OverIsMailed'
      BY <1>0, <2>1, <2>2, <2>3, <2>7, WorkGoesOn
    <3>2. TodoOrMailed'
      BY <1>0, <2>1, <2>2, <2>7 DEF TodoOrMailed
    <3> QED
      BY <2>5, <3>1, <3>2
  <2> QED
    BY <2>1, <2>6, <2>7
<1>7. ASSUME NEW p \in Process, NEW i \in 1..MaxSent, EmailFails(p, i) PROVE Kept'
  BY <1>7, EmailFailsDoes
<1>8. ASSUME NEW p \in Process, Crash(p) PROVE Kept'
  BY <1>8, CrashDoes
<1>9. ASSUME NEW id \in 0..MaxClock, LockExpires(id) PROVE Kept'
  <2>1. /\ lock[id] # NoJob
        /\ \E q \in Process, j \in 1..MaxSent : lock[id] = <<q, j>> /\ job[q][j].pc = "over"
    BY <1>9, LockExpiresDoes DEF LockExpires
  <2>2. PICK q \in Process, j \in DOMAIN sent : lock[id] = <<q, j>> /\ Working(q, j)
    BY <1>0, <2>1 DEF HoldersWork
  <2> QED
    BY <2>1, <2>2 DEF Working
<1> QED
  BY <1>1, <1>2, <1>3, <1>4, <1>5, <1>6, <1>7, <1>8, <1>9 DEF EmailNext

\* Who is interested is a recipient: whoever of those that share an address
\* comes first stands for all, which makes no difference where all are told.
LEMMA InterestedAreRecipients ==
  ASSUME NEW i \in DOMAIN sent, Distinct(i), sent[i].walletId \in Wallet
  PROVE  Interested(sent[i]) \subseteq Recipients(sent[i])
<1> DEFINE n == sent[i]
           prefs == Preferences[n.walletId]
           First(k) == \A l \in 1..(k - 1) : prefs[l].email # prefs[k].email
<1>1. Len(prefs) \in Nat /\ DOMAIN prefs = 1..Len(prefs)
  BY EmailAssumption
<1> SUFFICES ASSUME NEW k \in DOMAIN prefs, NotifyAs(n, prefs[k].pocketeerId)
             PROVE  prefs[k].email \in Recipients(n)
  BY DEF Interested
<1> DEFINE Same == {l \in DOMAIN prefs : prefs[l].email = prefs[k].email}
<1>2. PICK m \in Same : \A l \in Same : m <= l
  <2>1. Same \in SUBSET Nat /\ k \in Same
    BY <1>1
  <2> HIDE DEF Same
  <2> QED
    BY <2>1, LeastExists
<1>3. m \in DOMAIN prefs /\ prefs[m].email = prefs[k].email
  OBVIOUS
<1>4. First(m)
  <2> SUFFICES ASSUME NEW l \in 1..(m - 1), prefs[l].email = prefs[m].email PROVE FALSE
    OBVIOUS
  <2>1. l \in DOMAIN prefs /\ ~(m <= l)
    BY <1>1, <1>3
  <2> QED
    BY <1>2, <1>3, <2>1
<1>5. NotifyAs(n, prefs[m].pocketeerId)
  <2>1. CASE NotifyDoer(n.type) /\ NotifyOthers(n.type)
    BY <2>1 DEF NotifyAs
  <2>2. CASE \A a, b \in DOMAIN prefs : prefs[a].email = prefs[b].email => a = b
    BY <1>3, <2>2
  <2> QED
    BY <2>1, <2>2 DEF Distinct
<1> HIDE DEF n, Same
<1>6. prefs[m].email \in {prefs[l].email : l \in {h \in DOMAIN prefs :
                            First(h) /\ NotifyAs(n, prefs[h].pocketeerId)}}
  BY <1>3, <1>4, <1>5
<1> QED
  BY <1>3, <1>6 DEF Recipients

\* If no job outlives its lock and nothing fails, everybody who asked for it
\* gets the mail (AllMailed).
THEOREM EverybodyMailed == ASSUME Prompt PROVE Spec => []AllMailed
<1>1. Init => MailInv /\ MailedInv
  <2> SUFFICES ASSUME Init PROVE MailInv /\ MailedInv
    OBVIOUS
  <2>1. /\ \A p \in Process, i \in 1..MaxSent : job[p][i].pc = "idle"
        /\ \A i \in 1..MaxSent, a \in Address : mails[i][a] = 0
        /\ \A id \in 0..MaxClock : lock[id] = NoJob
        /\ emails = {} /\ DOMAIN sent = {}
    BY DEF Init, EmailInit, NotificationsInit
  <2>2. MailInv
    BY <2>1 DEF MailInv, LockHeld, FirstToStore, OnlySender, MailsQueued, OneMailEach
  <2>3. MailedInv
    BY <2>1 DEF MailedInv, WorkersHold, HoldersWork, TodoOrMailed, QueuedByWorkers,
                OverIsMailed, Working
  <2> QED
    BY <2>2, <2>3
<1>2. Typed /\ Typed' /\ MailInv /\ MailedInv /\ [Next]_vars => MailInv' /\ MailedInv'
  <2> SUFFICES ASSUME Typed, Typed', MailInv, MailedInv, [Next]_vars
               PROVE  MailInv' /\ MailedInv'
    OBVIOUS
  <2>1. EmailContext /\ NotesFit' /\ NotificationsTypeOK'
    BY TypedSplit DEF Typed, EmailContext, TypeOK
  <2>2. CASE EmailNext
    BY <2>1, <2>2, MailStepKeeps, MailedStepKeeps
  <2>3. CASE Next /\ ~EmailNext
    BY <2>1, <2>3, OthersKeepSent, MailStays, MailedStays
  <2>4. CASE UNCHANGED vars
    <3>1. SentKept /\ UNCHANGED emailVars /\ (trouble => trouble')
      BY <2>4 DEF vars, SentKept, SameNote, notificationVars
    <3> QED
      BY <2>1, <3>1, MailStays, MailedStays
  <2> QED
    BY <2>2, <2>3, <2>4
<1>3. Typed /\ MailedInv => AllMailed
  <2> SUFFICES ASSUME Typed, MailedInv, NEW i \in DOMAIN sent, ~trouble,
                      ShouldMail(sent[i]), Distinct(i),
                      \A p \in Process : job[p][i].pc = "over",
                      NEW a \in Interested(sent[i])
               PROVE  mails[i][a] = 1
    BY DEF AllMailed
  <2>1. PICK p \in Process : TRUE
    BY NotificationsAssumption
  <2>2. Alone(i) /\ OverIsMailed
    BY DEF Alone, Distinct, MailedInv
  <2>3. Mailed(i)
    BY <2>1, <2>2 DEF OverIsMailed, Working
  <2>4. sent[i].walletId \in Wallet
    BY DEF Typed, NotesFit, ShouldMail, EmailTypes, PocketeerType
  <2>5. a \in Recipients(sent[i])
    BY <2>4, InterestedAreRecipients
  <2> QED
    BY <2>3, <2>5 DEF Mailed
<1> QED
  BY <1>1, <1>2, <1>3, Invariance, PTL DEF Spec

-----------------------------------------------------------------------------
(* What is our own is never told as somebody else's.                        *)

\* Nobody was told that somebody else broadcast the transaction.
NoThirdNote == \A i \in DOMAIN sent : sent[i].type # "NewOutgoingTxByThirdParty"

\* And nobody is about to be.
NoThirdParty == NoThirdNote /\ \A e \in Event : work[e].third \notin {"store", "tell"}

\* Nobody was told as long as the one document is the accepted one; and once we
\* send, no thread gets past its second look.
ThirdInv ==
  /\ docs = <<"accepted">> => NoThirdNote /\ \A e \in Event : work[e].third # "tell"
  /\ ours = "sent" => docs = <<"accepted">> /\ NoThirdParty
  /\ ours = "stored" => docs = <<"broadcasted">> /\ NoThirdParty

\* Most steps neither take a thread past its second look nor tell of a
\* broadcast by somebody else.
ThirdCalm ==
  /\ UNCHANGED <<docs, ours>>
  /\ NoThirdNote => NoThirdNote'
  /\ \A e \in Event :
       work'[e].third \in {"store", "tell"} => work'[e].third = work[e].third

\* They keep the invariant.
LEMMA ThirdCalmKeeps ==
  ASSUME ThirdInv, ThirdCalm
  PROVE  ThirdInv'
<1>1. NoThirdParty => NoThirdParty'
  BY DEF ThirdCalm, NoThirdParty
<1> QED
  BY <1>1 DEF ThirdCalm, ThirdInv

\* Other notifications make no difference.
LEMMA OtherNote ==
  ASSUME NotificationsTypeOK, NEW m, SentStep(m), m.type # "NewOutgoingTxByThirdParty"
  PROVE  NoThirdNote => NoThirdNote'
BY SentStepKeeps DEF NoThirdNote, NotificationsTypeOK

\* What changes only other threads leaves this one.
LEMMA OtherThread ==
  ASSUME NEW e \in Event, NEW threads, Touches(e, threads), "third" \notin threads
  PROVE  \A f \in Event : work'[f].third = work[f].third
BY DEF Touches

\* Every step of the monitor and of WalletService keeps it.
LEMMA ThirdStepKeeps ==
  ASSUME MonitorTyped, NotificationsTypeOK, NotesFit, Apart, ThirdInv, MonitorNext
  PROVE  ThirdInv'
<1>1. UNCHANGED sent => (NoThirdNote => NoThirdNote')
  BY DEF NoThirdNote
<1>2. CASE NextDay
  <2>1. SentKept /\ DOMAIN sent' = DOMAIN sent
    BY <1>2, DayPassesStep DEF NextDay
  <2>2. NoThirdNote => NoThirdNote'
    BY <2>1 DEF NoThirdNote, SentKept, SameNote
  <2>3. UNCHANGED monitorVars
    BY <1>2 DEF NextDay
  <2> QED
    BY <2>2, <2>3, ThirdCalmKeeps DEF ThirdCalm, monitorVars
<1>3. CASE BroadcastTx
  <2>1. docs = <<"accepted">> /\ \A e \in Event : work[e].third = "none"
    BY <1>3 DEF BroadcastTx, AllQuiet, Quiet
  <2>2. UNCHANGED <<sent, docs, work>> /\ ours' = "sent"
    BY <1>3 DEF BroadcastTx, notificationVars
  <2> QED
    BY <1>1, <2>1, <2>2 DEF ThirdInv, NoThirdParty
<1>4. CASE ProcessBroadcast
  <2>1. docs = <<"accepted">> /\ NoThirdParty
    BY <1>4 DEF ProcessBroadcast, ThirdInv
  <2>2. PICK d \in DOMAIN docs : docs' = [docs EXCEPT ![d] = "broadcasted"]
    BY <1>4 DEF ProcessBroadcast
  <2>3. docs' = <<"broadcasted">>
    BY <2>1, <2>2
  <2>4. UNCHANGED <<sent, work>> /\ ours' = "stored"
    BY <1>4 DEF ProcessBroadcast, notificationVars
  <2> QED
    BY <1>1, <2>1, <2>3, <2>4 DEF ThirdInv, NoThirdParty
<1>5. ASSUME NEW p \in Pocketeers, TxConfirmationSubscribe(p) \/ TxConfirmationUnsubscribe(p)
      PROVE  ThirdInv'
  <2>1. UNCHANGED <<sent, work, docs, ours>>
    BY <1>5 DEF TxConfirmationSubscribe, TxConfirmationUnsubscribe, notificationVars
  <2> QED
    BY <1>1, <2>1, ThirdCalmKeeps DEF ThirdCalm
<1>6. ASSUME NEW e \in Event, IncomingTx(e) \/ FetchTx(e)
      PROVE  ThirdInv'
  <2>1. UNCHANGED <<sent, docs, ours>>
    BY <1>6 DEF IncomingTx, FetchTx, notificationVars
  <2>2. /\ \A f \in Event : f # e => work'[f] = work[f]
        /\ work'[e].third \in {"none", "wait", "fetch"}
    BY <1>6, IncomingTxDoes, FetchTxDoes DEF Touches
  <2> QED
    BY <1>1, <2>1, <2>2, ThirdCalmKeeps DEF ThirdCalm
<1>7. ASSUME NEW e \in Event, NEW o \in DOMAIN Outs, LookupNotified(e, o)
      PROVE  ThirdInv'
  <2>1. UNCHANGED <<sent, docs, ours>>
    BY <1>7 DEF LookupNotified, notificationVars
  <2>2. \A f \in Event : work'[f].third = work[f].third
    BY <1>7, LookupDoes, OtherThread
  <2> QED
    BY <1>1, <2>1, <2>2, ThirdCalmKeeps DEF ThirdCalm
<1>8. ASSUME NEW e \in Event, NEW o \in DOMAIN Outs, TellPayment(e, o)
      PROVE  ThirdInv'
  <2>1. UNCHANGED <<docs, ours>>
    BY <1>8 DEF TellPayment
  <2>2. \A f \in Event : work'[f].third = work[f].third
    BY <1>8, TellPaymentDoes, OtherThread, Zenon
  <2>3. NoThirdNote => NoThirdNote'
    BY <1>8, TellPaymentDoes, OtherNote
  <2> QED
    BY <2>1, <2>2, <2>3, ThirdCalmKeeps DEF ThirdCalm
<1>9. ASSUME NEW e \in Event, FetchTxAgain(e)
      PROVE  ThirdInv'
  <2>1. UNCHANGED <<sent, docs, ours>> /\ ours # "sent"
    BY <1>9 DEF FetchTxAgain, notificationVars
  <2>2. /\ \A f \in Event : f # e => work'[f] = work[f]
        /\ work'[e].third \in {"none", "store"}
        /\ work'[e].third = "store" => \E d \in DOMAIN docs : docs[d] = "accepted"
    BY <1>9, FetchTxAgainDoes DEF Touches
  <2>3. docs = <<"broadcasted">> => work'[e].third = "none"
    BY <2>2
  <2> QED
    BY <1>1, <2>1, <2>2, <2>3 DEF ThirdInv, NoThirdParty
<1>10. ASSUME NEW e \in Event, StoreBroadcasted(e)
       PROVE  ThirdInv'
  <2>1. work[e].third = "store" /\ docs' # <<"accepted">> /\ UNCHANGED ours
    BY <1>10, StoreBroadcastedDoes DEF StoreBroadcasted
  <2>2. ours \notin {"sent", "stored"}
    BY <2>1 DEF ThirdInv, NoThirdParty
  <2> QED
    BY <2>1, <2>2 DEF ThirdInv
<1>11. ASSUME NEW e \in Event, TellThirdParty(e)
       PROVE  ThirdInv'
  <2>1. work[e].third = "tell" /\ UNCHANGED <<docs, ours>>
    BY <1>11, TellThirdPartyDoes DEF TellThirdParty
  <2>2. ours \notin {"sent", "stored"} /\ docs # <<"accepted">>
    BY <2>1 DEF ThirdInv, NoThirdParty
  <2> QED
    BY <2>1, <2>2 DEF ThirdInv
<1>12. ASSUME NEW e \in Event, NewBlock(e) \/ GetTxidsInBlock(e) \/ FetchSubs(e)
       PROVE  ThirdInv'
  <2>1. UNCHANGED <<sent, docs, ours>>
    BY <1>12 DEF NewBlock, GetTxidsInBlock, FetchSubs, notificationVars
  <2>2. \A f \in Event : work'[f].third = work[f].third
    BY <1>12, NewBlockDoes, GetTxidsInBlockDoes, FetchSubsDoes, OtherThread
  <2> QED
    BY <1>1, <2>1, <2>2, ThirdCalmKeeps DEF ThirdCalm
<1>13. ASSUME NEW e \in Event, NotifyNewBlock(e)
       PROVE  ThirdInv'
  <2>1. UNCHANGED <<docs, ours>>
    BY <1>13 DEF NotifyNewBlock
  <2>2. \A f \in Event : work'[f].third = work[f].third
    BY <1>13, NotifyNewBlockDoes, OtherThread
  <2>3. NoThirdNote => NoThirdNote'
    BY <1>13, NotifyNewBlockDoes, OtherNote
  <2> QED
    BY <2>1, <2>2, <2>3, ThirdCalmKeeps DEF ThirdCalm
<1>14. ASSUME NEW e \in Event, NEW p \in Pocketeers, StoreSub(e, p)
       PROVE  ThirdInv'
  <2>1. UNCHANGED <<sent, docs, ours>>
    BY <1>14 DEF StoreSub, notificationVars
  <2>2. \A f \in Event : work'[f].third = work[f].third
    BY <1>14, StoreSubDoes, OtherThread
  <2> QED
    BY <1>1, <2>1, <2>2, ThirdCalmKeeps DEF ThirdCalm
<1>15. ASSUME NEW e \in Event, NEW p \in Pocketeers, TellConfirmation(e, p)
       PROVE  ThirdInv'
  <2>1. UNCHANGED <<docs, ours>>
    BY <1>15 DEF TellConfirmation
  <2>2. \A f \in Event : work'[f].third = work[f].third
    BY <1>15, TellConfirmationDoes, OtherThread
  <2>3. NoThirdNote => NoThirdNote'
    BY <1>15, TellConfirmationDoes, OtherNote
  <2> QED
    BY <2>1, <2>2, <2>3, ThirdCalmKeeps DEF ThirdCalm
<1>16. ASSUME NEW e \in Event, MonitorFails(e)
       PROVE  ThirdInv'
  <2>1. /\ UNCHANGED <<sent, docs, ours>>
        /\ \A f \in Event : work'[f].third \in {work[f].third, "none"}
    BY <1>16, MonitorFailsDoes
  <2> QED
    BY <1>1, <2>1, ThirdCalmKeeps DEF ThirdCalm
<1> QED
  BY <1>2, <1>3, <1>4, <1>5, <1>6, <1>7, <1>8, <1>9, <1>10, <1>11, <1>12, <1>13, <1>14,
     <1>15, <1>16 DEF MonitorNext

\* Pocketeers make only notifications of their own types.
LEMMA PushNotes ==
  ASSUME PushContext, PushNext
  PROVE  NoThirdNote => NoThirdNote'
<1>1. ASSUME NEW type \in ActType, NEW w \in Wallet, NEW q \in Pocketeer, Notify(type, w, q)
      PROVE  NoThirdNote => NoThirdNote'
  <2>1. PICK m : SentStep(m) /\ m.type \in PocketeerType
    BY <1>1, NotifyDoes
  <2>2. m.type # "NewOutgoingTxByThirdParty"
    BY <2>1 DEF PocketeerType
  <2> QED
    BY <2>1, <2>2, OtherNote DEF PushContext
<1>2. UNCHANGED sent => (NoThirdNote => NoThirdNote')
  BY DEF NoThirdNote
<1>3. ASSUME NEW p \in Process, NEW i \in 1..MaxSent,
             \/ SendPushNotifications(p, i) \/ GetRecipients(p, i) \/ FetchDevices(p, i)
             \/ \E d \in push[p][i].todo : MakeRequest(p, i, d)
             \/ PushDone(p, i) \/ PushFails(p, i)
      PROVE  UNCHANGED sent
  BY <1>3, Zenon DEF SendPushNotifications, GetRecipients, FetchDevices, MakeRequest, PushDone,
              PushFails, notificationVars
<1>4. ASSUME NEW q \in Pocketeer, NEW token \in Token,
             PushNotificationsSubscribe(q, token) \/ PushNotificationsUnsubscribe(q, token)
      PROVE  UNCHANGED sent
  BY <1>4 DEF PushNotificationsSubscribe, PushNotificationsUnsubscribe, notificationVars
<1>5. ASSUME NEW q \in Pocketeer, NEW opts \in SavablePreference, SavePreferences(q, opts)
      PROVE  UNCHANGED sent
  BY <1>5 DEF SavePreferences, notificationVars
<1> QED
  BY <1>1, <1>2, <1>3, <1>4, <1>5 DEF PushNext

\* If events do not come too soon, what broadcastTx sent is not told as somebody
\* else's, however the explorer's event, the proposal's documents and the
\* monitor's two looks at them interleave (OursNotThirdParty).
THEOREM OursStaysOurs == ASSUME Apart PROVE Spec => []OursNotThirdParty
<1>1. Init => ThirdInv
  <2> SUFFICES ASSUME Init PROVE ThirdInv
    OBVIOUS
  <2>1. ours = "no" /\ DOMAIN sent = {} /\ \A e \in Event : work[e].third = "none"
    BY DEF Init, NotificationsInit, MonitorInit, NoEvent
  <2> QED
    BY <2>1 DEF ThirdInv, NoThirdNote
<1>2. Typed /\ ThirdInv /\ [Next]_vars => ThirdInv'
  <2> SUFFICES ASSUME Typed, ThirdInv, [Next]_vars PROVE ThirdInv'
    OBVIOUS
  <2>1. MonitorTyped /\ NotificationsTypeOK /\ NotesFit /\ PushContext /\ EmailContext
    BY TypedSplit DEF Typed, PushContext, EmailContext
  <2>2. UNCHANGED sent => (NoThirdNote => NoThirdNote')
    BY DEF NoThirdNote
  <2>3. UNCHANGED monitorVars /\ (NoThirdNote => NoThirdNote') => ThirdInv'
    BY ThirdCalmKeeps DEF ThirdCalm, monitorVars
  <2>4. CASE MonitorNext
    BY <2>1, <2>4, ThirdStepKeeps
  <2>5. CASE EmailNext /\ UNCHANGED monitorVars
    BY <2>1, <2>2, <2>3, <2>5, EmailStepFits
  <2>6. CASE PushNext /\ UNCHANGED monitorVars
    BY <2>1, <2>2, <2>3, <2>6, PushNotes
  <2>7. CASE (FeedNext \/ TimePasses \/ UNCHANGED vars) /\ UNCHANGED monitorVars
    BY <2>2, <2>3, <2>7 DEF FeedNext, TimePasses, notificationVars, vars
  <2> QED
    BY <2>4, <2>5, <2>6, <2>7 DEF Next, vars
<1>3. Typed /\ ThirdInv => OursNotThirdParty
  BY TypedSplit DEF Typed, MonitorTyped, ThirdInv, NoThirdParty, NoThirdNote, OursNotThirdParty
<1> QED
  BY <1>1, <1>2, <1>3, Invariance, PTL DEF Spec

-----------------------------------------------------------------------------
(* What is pushed.                                                          *)

\* The requests of a push.
Mine(p, i) == {x \in pushed : x.by = p /\ x.about = i}

\* Before the requests are made there are none.
NothingYet(p, i) == push[p][i].pc \in {"idle", "recipients", "devices"} => Mine(p, i) = {}

\* The recipients have what those who changed nothing prefer.
AsPreferred(p, i) ==
  push[p][i].pc \in {"devices", "send"} =>
    \A k \in MembersFor(sent[i]) :
      Members[sent[i].walletId][k] \notin touched =>
        push[p][i].recipients[k] = Wanted(sent[i].walletId, Members[sent[i].walletId][k])

\* The requests of a push are made, or are being made.
Pushing(p, i) == push[p][i].pc \in {"send", "over"} /\ sent[i].type \in PushTypes

\* Who is pushed to belongs to those the notification is for ...
RightPeople(p, i) == Pushing(p, i) => \A x \in Mine(p, i) : x.pocketeerId \in Audience(sent[i])

\* ... and each of their devices is still to do, or a request was made for it ...
RightDevices(p, i) ==
  Pushing(p, i) =>
    \A d \in Pocketeer \X Token :
      d[1] \in Audience(sent[i]) /\ d[1] \notin touched =>
        (d \in devices <=> \/ d \in push[p][i].todo
                           \/ \E x \in Mine(p, i) : d = <<x.pocketeerId, x.to>>)

\* ... in the language of each, and the unit of one of those who have it.
RightTexts(p, i) ==
  Pushing(p, i) /\ Audience(sent[i]) \cap touched = {} =>
    \A x \in Mine(p, i) :
      /\ x.language = Wanted(sent[i].walletId, x.pocketeerId).language
      /\ \E q \in Audience(sent[i]) :
           /\ Wanted(sent[i].walletId, q).language = x.language
           /\ Wanted(sent[i].walletId, q).unit = x.unit

\* All of this about one push.
PushedRight(p, i) ==
  AsPreferred(p, i) /\ RightPeople(p, i) /\ RightDevices(p, i) /\ RightTexts(p, i)

\* The inductive invariant of PushedAsPreferred, until something fails.
PushInv ==
  ~trouble => /\ \A p \in Process, i \in 1..MaxSent : NothingYet(p, i)
              /\ \A p \in Process, i \in DOMAIN sent : PushedRight(p, i)

\* Positions, wallets and audiences.
LEMMA PushFacts ==
  ASSUME PushContext
  PROVE  /\ DOMAIN sent \subseteq 1..MaxSent
         /\ \A p \in Process, i \in 1..MaxSent :
              push[p][i].pc # "idle" => i \in DOMAIN sent
         /\ \A i \in DOMAIN sent : sent[i].type \in PushTypes =>
              sent[i].walletId \in Wallet /\ Audience(sent[i]) \subseteq Pocketeer
         /\ \A p \in Process, i \in 1..MaxSent :
              push[p][i].pc \in {"devices", "send"} =>
                sent[i].type \in PushTypes /\ sent[i].walletId \in Wallet
<1>1. sent \in Seq(Notification) /\ Len(sent) <= MaxSent
  BY DEF PushContext, NotificationsTypeOK, NotesFit
<1>2. DOMAIN sent \subseteq 1..MaxSent
  BY <1>1, NotificationsAssumption
<1>3. ASSUME NEW i \in DOMAIN sent, sent[i].type \in PushTypes
      PROVE  sent[i].walletId \in Wallet /\ Audience(sent[i]) \subseteq Pocketeer
  <2>1. sent[i].walletId \in Wallet
    BY <1>3 DEF PushContext, NotesFit, PushTypes, PocketeerType
  <2> QED
    BY <2>1, MembersFit DEF Audience, Range
<1>4. \A p \in Process, i \in 1..MaxSent : push[p][i].pc # "idle" => i \in DOMAIN sent
  BY DEF PushContext, PushesFit, PushFits
<1>5. ASSUME NEW p \in Process, NEW i \in 1..MaxSent, push[p][i].pc \in {"devices", "send"}
      PROVE  sent[i].type \in PushTypes
  BY <1>5 DEF PushContext, PushesFit, PushFits, ShouldSend
<1> QED
  BY <1>2, <1>3, <1>4, <1>5

\* Whom a notification is for, when it is pushed.
LEMMA AudienceMembers ==
  ASSUME NEW n, n.walletId \in Wallet, ShouldSend(n)
  PROVE  Audience(n) = {Members[n.walletId][k] : k \in MembersFor(n)}
<1>1. \A k \in DOMAIN Members[n.walletId] :
        PushedTo(n, Members[n.walletId][k]) <=> Members[n.walletId][k] \in Audience(n)
  BY DEF ShouldSend, PushedTo, NotifyCreatorOnly, Audience, Range
<1>2. \A q \in Audience(n) : \E k \in DOMAIN Members[n.walletId] : q = Members[n.walletId][k]
  BY DEF Audience, Range
<1> QED
  BY <1>1, <1>2 DEF MembersFor

\* What others do to the notifications leaves that as it is.
LEMMA PushedStays ==
  ASSUME PushContext, NotesFit', NotificationsTypeOK', PushInv, SentKept, trouble => trouble',
         UNCHANGED <<preferenceOf, devices, push, pushed, touched>>
  PROVE  PushInv'
<1> SUFFICES ASSUME ~trouble
             PROVE  /\ \A p \in Process, i \in 1..MaxSent : NothingYet(p, i)'
                    /\ \A p \in Process, i \in DOMAIN sent' : PushedRight(p, i)'
  BY DEF PushInv
<1>0. /\ \A p \in Process, i \in 1..MaxSent : NothingYet(p, i)
      /\ \A p \in Process, i \in DOMAIN sent : PushedRight(p, i)
  BY DEF PushInv
<1>1. \A p, i : Mine(p, i)' = Mine(p, i)
  BY DEF Mine
<1>2. \A p \in Process, i \in 1..MaxSent : NothingYet(p, i)'
  BY <1>0, <1>1 DEF NothingYet
<1>3. ASSUME NEW p \in Process, NEW i \in DOMAIN sent
      PROVE  PushedRight(p, i)'
  <2>1. /\ sent'[i].walletId = sent[i].walletId /\ sent'[i].type = sent[i].type
        /\ MembersFor(sent'[i]) = MembersFor(sent[i])
        /\ Audience(sent'[i]) = Audience(sent[i])
    BY DEF SentKept, SameNote, MembersFor, PushedTo, Audience
  <2>2. \A w, q : Wanted(w, q)' = Wanted(w, q)
    BY DEF Wanted
  <2>3. PushedRight(p, i)
    BY <1>0
  <2>4. AsPreferred(p, i)'
    BY <2>1, <2>2, <2>3 DEF PushedRight, AsPreferred
  <2>5. Pushing(p, i)' <=> Pushing(p, i)
    BY <2>1 DEF Pushing
  <2>6. RightPeople(p, i)'
    BY <1>1, <2>1, <2>3, <2>5 DEF PushedRight, RightPeople
  <2>7. RightDevices(p, i)'
    BY <1>1, <2>1, <2>3, <2>5 DEF PushedRight, RightDevices
  <2>8. RightTexts(p, i)'
    BY <1>1, <2>1, <2>2, <2>3, <2>5 DEF PushedRight, RightTexts
  <2> QED
    BY <2>4, <2>6, <2>7, <2>8 DEF PushedRight
<1>4. ASSUME NEW p \in Process, NEW i \in DOMAIN sent', i \notin DOMAIN sent
      PROVE  PushedRight(p, i)'
  <2>1. i \in 1..MaxSent
    <3>1. sent' \in Seq(Notification) /\ Len(sent') <= MaxSent
      BY DEF NotesFit, NotificationsTypeOK
    <3> QED
      BY <3>1, NotificationsAssumption
  <2>2. push'[p][i].pc = "idle"
    BY <1>4, <2>1, PushFacts
  <2> QED
    BY <2>2 DEF PushedRight, AsPreferred, RightPeople, RightDevices, RightTexts, Pushing
<1> QED
  BY <1>2, <1>3, <1>4

\* Who changes something is counted out, and for the others nothing changes.
LEMMA PushedSurvivesEdits ==
  ASSUME PushContext, PushInv, NEW q \in Pocketeer,
         UNCHANGED <<sent, trouble, push, pushed>>,
         touched' = IF sent = << >> THEN touched ELSE touched \cup {q},
         \A r \in Pocketeer : r # q => preferenceOf'[r] = preferenceOf[r],
         \A d : d[1] # q => (d \in devices' <=> d \in devices)
  PROVE  PushInv'
<1> SUFFICES ASSUME ~trouble
             PROVE  /\ \A p \in Process, i \in 1..MaxSent : NothingYet(p, i)'
                    /\ \A p \in Process, i \in DOMAIN sent : PushedRight(p, i)'
  BY DEF PushInv
<1>0. /\ \A p \in Process, i \in 1..MaxSent : NothingYet(p, i)
      /\ \A p \in Process, i \in DOMAIN sent : PushedRight(p, i)
  BY DEF PushInv
<1>1. \A p, i : Mine(p, i)' = Mine(p, i)
  BY DEF Mine
<1>2. \A p \in Process, i \in 1..MaxSent : NothingYet(p, i)'
  BY <1>0, <1>1 DEF NothingYet
<1>3. ASSUME NEW p \in Process, NEW i \in DOMAIN sent
      PROVE  PushedRight(p, i)'
  <2>0. touched' = touched \cup {q}
    BY <1>3
  <2>1. \A w : \A r \in Pocketeer : r \notin touched' => Wanted(w, r)' = Wanted(w, r)
    BY <2>0 DEF Wanted
  <2>2. Pushing(p, i)' <=> Pushing(p, i)
    BY DEF Pushing
  <2>3. PushedRight(p, i) /\ i \in 1..MaxSent
    BY <1>0, PushFacts
  <2>4. Pushing(p, i) => Audience(sent[i]) \subseteq Pocketeer
    BY PushFacts DEF Pushing
  <2>5. AsPreferred(p, i)'
    <3> SUFFICES ASSUME push[p][i].pc \in {"devices", "send"}, NEW k \in MembersFor(sent[i]),
                        Members[sent[i].walletId][k] \notin touched'
                 PROVE  push[p][i].recipients[k]
                          = Wanted(sent[i].walletId, Members[sent[i].walletId][k])'
      BY DEF AsPreferred
    <3>1. Members[sent[i].walletId][k] \in Pocketeer
      <4>1. sent[i].walletId \in Wallet
        BY <2>3, PushFacts
      <4> QED
        BY <4>1, MembersFit DEF MembersFor
    <3> QED
      BY <2>0, <2>1, <2>3, <3>1 DEF PushedRight, AsPreferred
  <2>6. RightPeople(p, i)'
    BY <1>1, <2>2, <2>3 DEF PushedRight, RightPeople
  <2>7. RightDevices(p, i)'
    <3> SUFFICES ASSUME Pushing(p, i), NEW d \in Pocketeer \X Token,
                        d[1] \in Audience(sent[i]), d[1] \notin touched'
                 PROVE  d \in devices' <=> \/ d \in push[p][i].todo
                                           \/ \E x \in Mine(p, i) : d = <<x.pocketeerId, x.to>>
      BY <1>1, <2>2 DEF RightDevices
    <3>1. d[1] # q /\ d[1] \notin touched
      BY <2>0
    <3> QED
      BY <2>3, <3>1 DEF PushedRight, RightDevices
  <2>8. RightTexts(p, i)'
    <3> SUFFICES ASSUME Pushing(p, i), Audience(sent[i]) \cap touched' = {}, NEW x \in Mine(p, i)
                 PROVE  /\ x.language = Wanted(sent[i].walletId, x.pocketeerId)'.language
                        /\ \E r \in Audience(sent[i]) :
                             /\ Wanted(sent[i].walletId, r)'.language = x.language
                             /\ Wanted(sent[i].walletId, r)'.unit = x.unit
      BY <1>1, <2>2 DEF RightTexts
    <3>1. \A r \in Audience(sent[i]) : Wanted(sent[i].walletId, r)' = Wanted(sent[i].walletId, r)
      BY <2>1, <2>4
    <3>2. x.pocketeerId \in Audience(sent[i])
      BY <2>3 DEF PushedRight, RightPeople
    <3>3. Audience(sent[i]) \cap touched = {}
      BY <2>0
    <3> QED
      BY <2>3, <3>1, <3>2, <3>3 DEF PushedRight, RightTexts
  <2> QED
    BY <2>5, <2>6, <2>7, <2>8 DEF PushedRight
<1> QED
  BY <1>2, <1>3

\* A step of one push is about that push.
LEMMA PushedElsewhere ==
  ASSUME PushContext, PushInv, NEW p \in Process, NEW i \in DOMAIN sent, NEW x, OnePush(p, i, x),
         trouble => trouble',
         UNCHANGED <<sent, preferenceOf, devices, touched>>,
         \A q \in Process, j \in 1..MaxSent : <<q, j>> # <<p, i>> => Mine(q, j)' = Mine(q, j),
         ~trouble' => NothingYet(p, i)' /\ PushedRight(p, i)'
  PROVE  PushInv'
<1> SUFFICES ASSUME ~trouble'
             PROVE  /\ \A q \in Process, j \in 1..MaxSent : NothingYet(q, j)'
                    /\ \A q \in Process, j \in DOMAIN sent : PushedRight(q, j)'
  BY DEF PushInv
<1>0. /\ \A q \in Process, j \in 1..MaxSent : NothingYet(q, j)
      /\ \A q \in Process, j \in DOMAIN sent : PushedRight(q, j)
  BY DEF PushInv
<1>1. DOMAIN sent \subseteq 1..MaxSent
  BY PushFacts
<1>2. ASSUME NEW q \in Process, NEW j \in 1..MaxSent, <<q, j>> # <<p, i>>
      PROVE  /\ NothingYet(q, j)'
             /\ j \in DOMAIN sent => PushedRight(q, j)'
  <2>1. push'[q][j] = push[q][j] /\ Mine(q, j)' = Mine(q, j)
    BY <1>1, <1>2 DEF OnePush
  <2>2. NothingYet(q, j)'
    BY <1>0, <2>1 DEF NothingYet
  <2>3. \A w, r : Wanted(w, r)' = Wanted(w, r)
    BY DEF Wanted
  <2>4. Pushing(q, j)' <=> Pushing(q, j)
    BY <2>1 DEF Pushing
  <2>5. ASSUME j \in DOMAIN sent
        PROVE  PushedRight(q, j)'
    <3>1. PushedRight(q, j)
      BY <1>0, <2>5
    <3>2. AsPreferred(q, j)' /\ RightPeople(q, j)'
      BY <2>1, <2>3, <2>4, <3>1 DEF PushedRight, AsPreferred, RightPeople
    <3>3. RightDevices(q, j)'
      BY <2>1, <2>4, <3>1 DEF PushedRight, RightDevices
    <3>4. RightTexts(q, j)'
      BY <2>1, <2>3, <2>4, <3>1 DEF PushedRight, RightTexts
    <3> QED
      BY <3>2, <3>3, <3>4 DEF PushedRight
  <2> QED
    BY <2>2, <2>5
<1>3. NothingYet(p, i)' /\ PushedRight(p, i)'
  OBVIOUS
<1> QED
  BY <1>1, <1>2, <1>3

\* A message is pushed, or it is not to be pushed and is for nobody.
LEMMA SendPushNotificationsRight ==
  ASSUME PushContext, PushInv, NEW p \in Process, NEW i \in 1..MaxSent,
         SendPushNotifications(p, i)
  PROVE  PushInv'
<1> DEFINE x == push'[p][i]
<1>1. /\ PushesFit'
      /\ UNCHANGED <<notificationVars, preferenceOf, devices, edits, acts, pushed, touched>>
      /\ i \in DOMAIN sent /\ push[p][i].pc = "idle"
      /\ OnePush(p, i, x)
      /\ x.pc = IF ShouldSend(sent[i]) THEN "recipients" ELSE "over"
  BY SendPushNotificationsDoes
<1>2. x = push'[p][i] /\ PushFits(x, i, sent')
  BY <1>1 DEF PushesFit
<1> HIDE DEF x
<1>3. \A q, j : Mine(q, j)' = Mine(q, j)
  BY <1>1 DEF Mine
<1>4. ASSUME ~trouble'
      PROVE  NothingYet(p, i)' /\ PushedRight(p, i)'
  <2>1. Mine(p, i)' = {}
    BY <1>1, <1>3, <1>4 DEF PushInv, NothingYet, notificationVars
  <2>2. CASE ShouldSend(sent[i])
    BY <1>1, <1>2, <2>1, <2>2 DEF NothingYet, PushedRight, AsPreferred, RightPeople,
       RightDevices, RightTexts, Pushing
  <2>3. CASE ~ShouldSend(sent[i])
    <3>1. UNCHANGED sent /\ push'[p][i].pc = "over"
      BY <1>1, <1>2, <2>3 DEF notificationVars
    <3>2. sent[i].type \in PushTypes => Audience(sent[i]) = {}
      BY <2>3 DEF ShouldSend, Audience
    <3> QED
      BY <2>1, <3>1, <3>2 DEF NothingYet, PushedRight, AsPreferred, RightPeople,
         RightDevices, RightTexts, Pushing
  <2> QED
    BY <2>2, <2>3
<1>5. UNCHANGED <<sent, preferenceOf, devices, touched, trouble>>
  BY <1>1 DEF notificationVars
<1> QED
  BY <1>1, <1>3, <1>4, <1>5, PushedElsewhere

\* The recipients get what is stored of their preferences now.
LEMMA GetRecipientsRight ==
  ASSUME PushContext, PushInv, NEW p \in Process, NEW i \in 1..MaxSent, GetRecipients(p, i)
  PROVE  PushInv'
<1> DEFINE x == push'[p][i]
<1>1. /\ UNCHANGED <<listening, clock, sent, preferenceOf, devices, edits, acts, pushed, touched>>
      /\ i \in DOMAIN sent /\ push[p][i].pc = "recipients"
      /\ OnePush(p, i, x) /\ x.pc = "devices"
      /\ trouble => trouble'
      /\ ~trouble' => \A k \in MembersFor(sent[i]) :
           x.recipients[k] = RecipientOf(sent[i].walletId, Members[sent[i].walletId][k],
                               preferenceOf[Members[sent[i].walletId][k]])
  BY GetRecipientsDoes
<1>2. x = push'[p][i]
  OBVIOUS
<1> HIDE DEF x
<1>3. \A q, j : Mine(q, j)' = Mine(q, j)
  BY <1>1 DEF Mine
<1>4. ASSUME ~trouble'
      PROVE  NothingYet(p, i)' /\ PushedRight(p, i)'
  <2>1. NothingYet(p, i)'
    BY <1>1, <1>3, <1>4 DEF PushInv, NothingYet
  <2>2. AsPreferred(p, i)'
    BY <1>1, <1>2, <1>4 DEF AsPreferred, Wanted
  <2>3. ~Pushing(p, i)'
    BY <1>1, <1>2 DEF Pushing
  <2> QED
    BY <2>1, <2>2, <2>3 DEF PushedRight, RightPeople, RightDevices, RightTexts
<1> QED
  BY <1>1, <1>3, <1>4, PushedElsewhere

\* The devices are those of the recipients.
LEMMA FetchDevicesRight ==
  ASSUME PushContext, PushInv, NEW p \in Process, NEW i \in 1..MaxSent, FetchDevices(p, i)
  PROVE  PushInv'
<1> DEFINE x == push'[p][i]
           old == push[p][i]
<1>1. /\ UNCHANGED <<notificationVars, preferenceOf, devices, edits, acts, pushed, touched>>
      /\ i \in DOMAIN sent /\ old.pc = "devices"
      /\ OnePush(p, i, x)
      /\ x.pc = "send" /\ x.recipients = old.recipients
      /\ x.todo = {d \in devices : \E k \in DOMAIN old.recipients :
                                     old.recipients[k].pocketeerId = d[1]}
  BY FetchDevicesDoes
<1>2. UNCHANGED <<sent, preferenceOf, devices, touched, trouble>>
  BY <1>1 DEF notificationVars
<1>3. \A q, j : Mine(q, j)' = Mine(q, j)
  BY <1>1 DEF Mine
<1>4. /\ ShouldSend(sent[i]) /\ DOMAIN old.recipients = MembersFor(sent[i])
      /\ \A k \in MembersFor(sent[i]) :
           old.recipients[k].pocketeerId = Members[sent[i].walletId][k]
  BY <1>1 DEF PushContext, PushesFit, PushFits
<1>5. Audience(sent[i]) = {Members[sent[i].walletId][k] : k \in MembersFor(sent[i])}
  <2>1. sent[i].walletId \in Wallet
    BY <1>1, PushFacts
  <2> QED
    BY <1>4, <2>1, AudienceMembers
<1>6. x = push'[p][i] /\ old = push[p][i]
  OBVIOUS
<1> HIDE DEF x, old
<1>7. \A d \in devices : d \in x.todo <=> d[1] \in Audience(sent[i])
  BY <1>1, <1>4, <1>5
<1>8. ASSUME ~trouble'
      PROVE  NothingYet(p, i)' /\ PushedRight(p, i)'
  <2>1. NothingYet(p, i) /\ PushedRight(p, i)
    BY <1>1, <1>2, <1>8 DEF PushInv
  <2>2. Mine(p, i)' = {}
    BY <1>1, <1>3, <1>6, <2>1 DEF NothingYet
  <2>3. AsPreferred(p, i)'
    <3>1. \A w, q : Wanted(w, q)' = Wanted(w, q)
      BY <1>2 DEF Wanted
    <3> QED
      BY <1>1, <1>2, <1>6, <2>1, <3>1 DEF PushedRight, AsPreferred
  <2>4. RightDevices(p, i)'
    <3> SUFFICES ASSUME NEW d \in Pocketeer \X Token, d[1] \in Audience(sent[i])
                 PROVE  d \in devices <=> d \in x.todo
      BY <1>2, <1>6, <2>2 DEF RightDevices
    <3>1. x.todo \subseteq devices
      BY <1>1
    <3> QED
      BY <1>7, <3>1
  <2> QED
    BY <2>2, <2>3, <2>4 DEF NothingYet, PushedRight, RightPeople, RightTexts
<1> QED
  BY <1>1, <1>2, <1>3, <1>6, <1>8, PushedElsewhere

\* A request is for a device of a recipient, in the language and the unit that
\* the contents of that language are in.
LEMMA MakeRequestRight ==
  ASSUME PushContext, PushInv, NEW p \in Process, NEW i \in 1..MaxSent, NEW d \in push[p][i].todo,
         MakeRequest(p, i, d)
  PROVE  PushInv'
<1> DEFINE x == push'[p][i]
           old == push[p][i]
           w == sent[i].walletId
           n == sent[i]
<1>1. /\ UNCHANGED <<sent, preferenceOf, devices, touched>>
      /\ i \in DOMAIN sent /\ old.pc = "send"
      /\ OnePush(p, i, x)
      /\ x.pc = "send" /\ x.recipients = old.recipients /\ x.todo = old.todo \ {d}
      /\ \/ /\ UNCHANGED trouble
            /\ \E r \in [by: Process, about: 1..MaxSent, pocketeerId: Pocketeer, to: Token,
                         language: Language, unit: Unit],
                  k, l \in MembersFor(n) :
                 /\ pushed' = pushed \cup {r}
                 /\ r.by = p /\ r.about = i /\ r.pocketeerId = d[1] /\ r.to = d[2]
                 /\ old.recipients[k].pocketeerId = d[1]
                 /\ r.language = old.recipients[k].language
                 /\ old.recipients[l].language = r.language
                 /\ r.unit = old.recipients[l].unit
         \/ trouble' /\ UNCHANGED pushed
  BY MakeRequestDoes, SMTT(30)
<1>2. /\ ShouldSend(n) /\ DOMAIN old.recipients = MembersFor(n)
      /\ \A k \in MembersFor(n) : old.recipients[k].pocketeerId = Members[w][k]
  BY <1>1 DEF PushContext, PushesFit, PushFits
<1>3. n.type \in PushTypes /\ w \in Wallet
  BY <1>1, PushFacts
<1>4. Audience(n) = {Members[w][k] : k \in MembersFor(n)}
  BY <1>2, <1>3, AudienceMembers
<1>5. d \in Pocketeer \X Token
  <2>1. old \in PushState
    BY DEF PushContext, PushTypeOK
  <2> QED
    BY <2>1 DEF PushState
<1>6. x = push'[p][i] /\ old = push[p][i] /\ n = sent[i] /\ n = sent'[i] /\ w = n.walletId
  BY <1>1
<1> HIDE DEF x, old, n, w
<1>7. CASE trouble' /\ UNCHANGED pushed
  <2>1. \A q, j : Mine(q, j)' = Mine(q, j)
    BY <1>7, SMTT(30) DEF Mine
  <2> QED
    BY <1>7 DEF PushInv
<1>8. ASSUME UNCHANGED trouble,
             NEW r \in [by: Process, about: 1..MaxSent, pocketeerId: Pocketeer, to: Token,
                        language: Language, unit: Unit],
             NEW k \in MembersFor(n), NEW l \in MembersFor(n),
             pushed' = pushed \cup {r},
             r.by = p /\ r.about = i /\ r.pocketeerId = d[1] /\ r.to = d[2],
             old.recipients[k].pocketeerId = d[1],
             r.language = old.recipients[k].language,
             old.recipients[l].language = r.language,
             r.unit = old.recipients[l].unit
      PROVE  PushInv'
  <2>1. /\ Mine(p, i)' = Mine(p, i) \cup {r}
        /\ \A q \in Process, j \in 1..MaxSent : <<q, j>> # <<p, i>> => Mine(q, j)' = Mine(q, j)
    BY <1>8 DEF Mine
  <2>2. d = <<r.pocketeerId, r.to>> /\ Members[w][k] = d[1]
    BY <1>2, <1>5, <1>8
  <2>3. r.pocketeerId \in Audience(n) /\ Members[w][l] \in Audience(n)
    BY <1>4, <1>8, <2>2
  <2>4. ASSUME ~trouble'
        PROVE  NothingYet(p, i)' /\ PushedRight(p, i)'
    <3>1. PushedRight(p, i) /\ Pushing(p, i) /\ Pushing(p, i)'
      BY <1>1, <1>3, <1>6, <1>8, <2>4 DEF PushInv, Pushing
    <3>2. NothingYet(p, i)'
      BY <1>1, <1>6 DEF NothingYet
    <3>3. \A v, q : Wanted(v, q)' = Wanted(v, q)
      BY <1>1 DEF Wanted
    <3>4. AsPreferred(p, i)'
      BY <1>1, <1>6, <3>1, <3>3 DEF PushedRight, AsPreferred
    <3>5. RightPeople(p, i)'
      BY <1>6, <2>1, <2>3, <3>1 DEF PushedRight, RightPeople
    <3>6. RightDevices(p, i)'
      <4> SUFFICES ASSUME NEW e \in Pocketeer \X Token, e[1] \in Audience(n), e[1] \notin touched
                   PROVE  e \in devices <=> \/ e \in x.todo
                                            \/ \E y \in Mine(p, i) \cup {r} : e = <<y.pocketeerId, y.to>>
        BY <1>1, <1>6, <2>1 DEF RightDevices
      <4>1. e \in devices <=> \/ e \in old.todo
                              \/ \E y \in Mine(p, i) : e = <<y.pocketeerId, y.to>>
        BY <1>6, <3>1 DEF PushedRight, RightDevices
      <4>2. d \in old.todo /\ x.todo = old.todo \ {d}
        BY <1>1, <1>6
      <4> QED
        BY <2>2, <4>1, <4>2
    <3>7. RightTexts(p, i)'
      <4> SUFFICES ASSUME Audience(n) \cap touched = {}, NEW y \in Mine(p, i) \cup {r}
                   PROVE  /\ y.language = Wanted(w, y.pocketeerId).language
                          /\ \E q \in Audience(n) : /\ Wanted(w, q).language = y.language
                                                    /\ Wanted(w, q).unit = y.unit
        BY <1>1, <1>6, <2>1, <3>3 DEF RightTexts
      <4>1. CASE y \in Mine(p, i)
        BY <1>6, <3>1, <4>1 DEF PushedRight, RightTexts
      <4>2. CASE y = r
        <5>1. /\ old.recipients[k] = Wanted(w, Members[w][k])
              /\ old.recipients[l] = Wanted(w, Members[w][l])
          <6>1. Members[w][k] \notin touched /\ Members[w][l] \notin touched
            BY <2>2, <2>3, <1>8
          <6> QED
            BY <1>1, <1>6, <1>8, <3>1, <6>1 DEF PushedRight, AsPreferred
        <5> QED
          BY <1>8, <2>2, <2>3, <4>2, <5>1, SMTT(30)
      <4> QED
        BY <4>1, <4>2
    <3> QED
      BY <3>2, <3>4, <3>5, <3>6, <3>7, SMTT(30) DEF PushedRight
  <2> QED
    BY <1>1, <1>6, <1>8, <2>1, <2>4, PushedElsewhere
<1> QED
  BY <1>1, <1>7, <1>8

\* Nothing is left to do.
LEMMA PushDoneRight ==
  ASSUME PushContext, PushInv, NEW p \in Process, NEW i \in 1..MaxSent, PushDone(p, i)
  PROVE  PushInv'
<1> DEFINE x == push'[p][i]
<1>1. /\ PushesFit'
      /\ UNCHANGED <<notificationVars, preferenceOf, devices, edits, acts, pushed, touched>>
      /\ i \in DOMAIN sent /\ push[p][i].pc = "send" /\ push[p][i].todo = {}
      /\ OnePush(p, i, x) /\ x.pc = "over"
  BY PushDoneDoes
<1>2. UNCHANGED <<sent, preferenceOf, devices, touched, trouble>>
  BY <1>1 DEF notificationVars
<1>3. \A q, j : Mine(q, j)' = Mine(q, j)
  BY <1>1 DEF Mine
<1>4. x = push'[p][i] /\ x.todo = {}
  BY <1>1 DEF PushesFit, PushFits
<1> HIDE DEF x
<1>5. ASSUME ~trouble'
      PROVE  NothingYet(p, i)' /\ PushedRight(p, i)'
  <2>1. PushedRight(p, i)
    BY <1>1, <1>2, <1>5 DEF PushInv
  <2>2. NothingYet(p, i)' /\ AsPreferred(p, i)'
    BY <1>1, <1>4 DEF NothingYet, AsPreferred
  <2>3. Pushing(p, i)' => Pushing(p, i)
    BY <1>1, <1>2 DEF Pushing
  <2>4. \A w, q : Wanted(w, q)' = Wanted(w, q)
    BY <1>2 DEF Wanted
  <2>5. RightPeople(p, i)' /\ RightTexts(p, i)'
    BY <1>2, <1>3, <2>1, <2>3, <2>4 DEF PushedRight, RightPeople, RightTexts
  <2>6. RightDevices(p, i)'
    BY <1>1, <1>2, <1>3, <1>4, <2>1, <2>3 DEF PushedRight, RightDevices
  <2> QED
    BY <2>2, <2>5, <2>6 DEF PushedRight
<1> QED
  BY <1>1, <1>2, <1>3, <1>5, PushedElsewhere

\* Every step of the push service keeps it.
LEMMA PushStepRight ==
  ASSUME PushContext, PushInv, PushNext
  PROVE  PushInv'
<1>1. ASSUME NEW type \in ActType, NEW w \in Wallet, NEW q \in Pocketeer, Notify(type, w, q)
      PROVE  PushInv'
  <2>1. /\ NotificationsTypeOK' /\ NotesFit' /\ (trouble => trouble')
        /\ UNCHANGED <<preferenceOf, devices, push, pushed, touched>>
        /\ \E m : SentStep(m)
    BY <1>1, NotifyDoes
  <2>2. SentKept
    BY <2>1, SentStepKeeps DEF PushContext, NotificationsTypeOK
  <2> QED
    BY <2>1, <2>2, PushedStays
<1>2. ASSUME NEW q \in Pocketeer, NEW token, NEW opts,
             \/ token \in Token /\ PushNotificationsSubscribe(q, token)
             \/ token \in Token /\ PushNotificationsUnsubscribe(q, token)
             \/ opts \in SavablePreference /\ SavePreferences(q, opts)
      PROVE  PushInv'
  <2>1. /\ UNCHANGED <<sent, trouble, push, pushed>>
        /\ touched' = IF sent = << >> THEN touched ELSE touched \cup {q}
        /\ \A r \in Pocketeer : r # q => preferenceOf'[r] = preferenceOf[r]
        /\ \A d : d[1] # q => (d \in devices' <=> d \in devices)
    BY <1>2, EditDoes DEF notificationVars
  <2> QED
    BY <2>1, PushedSurvivesEdits
<1>3. ASSUME NEW p \in Process, NEW i \in 1..MaxSent, PushFails(p, i)
      PROVE  PushInv'
  BY <1>3, PushFailsDoes DEF PushInv
<1> QED
  BY <1>1, <1>2, <1>3, SendPushNotificationsRight, GetRecipientsRight, FetchDevicesRight,
     MakeRequestRight, PushDoneRight DEF PushNext

\* A notification is pushed to all devices of all it is for and to no others, in
\* their languages and units, if nothing fails and they change nothing meanwhile
\* (PushedAsPreferred).
THEOREM PushesAreRight == Spec => []PushedAsPreferred
<1>1. Init => PushInv
  <2> SUFFICES ASSUME Init PROVE PushInv
    OBVIOUS
  <2>1. pushed = {} /\ DOMAIN sent = {}
    BY DEF Init, NotificationsInit, PushInit
  <2> QED
    BY <2>1 DEF PushInv, NothingYet, Mine
<1>2. Typed /\ Typed' /\ PushInv /\ [Next]_vars => PushInv'
  <2> SUFFICES ASSUME Typed, Typed', PushInv, [Next]_vars PROVE PushInv'
    OBVIOUS
  <2>1. PushContext /\ EmailContext /\ NotesFit' /\ NotificationsTypeOK'
    BY TypedSplit DEF Typed, PushContext, EmailContext, TypeOK
  <2>2. UNCHANGED sent => SentKept
    BY DEF SentKept, SameNote
  <2>3. UNCHANGED pushVars /\ SentKept /\ (trouble => trouble') => PushInv'
    BY <2>1, PushedStays DEF pushVars
  <2>4. CASE MonitorNext /\ UNCHANGED pushVars
    BY <2>3, <2>4, MonitorTypes, TypedSplit DEF Typed
  <2>5. CASE EmailNext /\ UNCHANGED pushVars
    <3>1. UNCHANGED sent /\ (trouble => trouble')
      <4>1. UNCHANGED trouble \/ trouble' = TRUE
        BY <2>5, EmailTrouble
      <4> QED
        BY <2>1, <2>5, <4>1, EmailStepFits
    <3> QED
      BY <2>2, <2>3, <2>5, <3>1
  <2>6. CASE PushNext
    BY <2>1, <2>6, PushStepRight
  <2>7. CASE (FeedNext \/ TimePasses \/ UNCHANGED vars) /\ UNCHANGED pushVars
    BY <2>2, <2>3, <2>7 DEF FeedNext, TimePasses, notificationVars, vars
  <2> QED
    BY <2>4, <2>5, <2>6, <2>7 DEF Next, vars
<1>3. Typed /\ PushInv => PushedAsPreferred
  <2> SUFFICES ASSUME Typed, PushInv, ~trouble, NEW i \in DOMAIN sent, NEW p \in Process,
                      push[p][i].pc = "over", sent[i].type \in PushTypes,
                      Audience(sent[i]) \cap touched = {}
               PROVE  LET w == sent[i].walletId
                          audience == Audience(sent[i])
                          mine == {x \in pushed : x.by = p /\ x.about = i}
                          uniform == \A q, r \in audience :
                                       Wanted(w, q).language = Wanted(w, r).language
                                         => Wanted(w, q).unit = Wanted(w, r).unit
                      IN  /\ {<<x.pocketeerId, x.to>> : x \in mine}
                               = {d \in devices : d[1] \in audience}
                          /\ \A x \in mine :
                               /\ x.language = Wanted(w, x.pocketeerId).language
                               /\ uniform => x.unit = Wanted(w, x.pocketeerId).unit
    BY DEF PushedAsPreferred
  <2>1. PushContext
    BY TypedSplit DEF Typed, PushContext
  <2>2. PushedRight(p, i) /\ Pushing(p, i)
    BY DEF PushInv, Pushing
  <2>3. push[p][i].todo = {} /\ Mine(p, i) = {x \in pushed : x.by = p /\ x.about = i}
    <3>1. i \in 1..MaxSent
      BY <2>1, PushFacts
    <3> QED
      BY <2>1, <3>1 DEF PushContext, PushesFit, PushFits, Mine
  <2>4. /\ devices \subseteq Pocketeer \X Token
        /\ \A x \in Mine(p, i) : <<x.pocketeerId, x.to>> \in Pocketeer \X Token
    <3>1. /\ devices \subseteq Pocketeer \X Token
          /\ pushed \subseteq [by: Process, about: 1..MaxSent, pocketeerId: Pocketeer,
                               to: Token, language: Language, unit: Unit]
      BY <2>1 DEF PushContext, PushTypeOK
    <3> QED
      BY <3>1 DEF Mine
  <2>5. {<<x.pocketeerId, x.to>> : x \in Mine(p, i)} = {d \in devices : d[1] \in Audience(sent[i])}
    <3>1. \A x \in Mine(p, i) : x.pocketeerId \in Audience(sent[i])
      BY <2>2 DEF PushedRight, RightPeople
    <3>2. \A d \in Pocketeer \X Token :
            d[1] \in Audience(sent[i]) =>
              (d \in devices <=> \E x \in Mine(p, i) : d = <<x.pocketeerId, x.to>>)
      BY <2>2, <2>3 DEF PushedRight, RightDevices
    <3> QED
      BY <2>4, <3>1, <3>2
  <2>6. \A x \in Mine(p, i) :
          /\ x.language = Wanted(sent[i].walletId, x.pocketeerId).language
          /\ x.pocketeerId \in Audience(sent[i])
          /\ \E q \in Audience(sent[i]) :
               /\ Wanted(sent[i].walletId, q).language = x.language
               /\ Wanted(sent[i].walletId, q).unit = x.unit
    BY <2>2 DEF PushedRight, RightTexts, RightPeople
  <2> QED
    BY <2>3, <2>5, <2>6
<1> QED
  BY <1>1, <1>2, <1>3, Invariance, PTL DEF Spec

-----------------------------------------------------------------------------
(* What the monitor tells of payments and confirmations.                    *)

\* Events that come one after the other: all but one are quiet.
OneAtATime == \A e, f \in Event : e # f => Quiet(e) \/ Quiet(f)

\* Nothing failed, and no day passed since something was sent.
Fresh == ~trouble /\ \A i \in DOMAIN sent : sent[i].recent

\* A notification of a payment is stored, and of an output that is no change.
PaysOut(n) ==
  /\ n.stored
  /\ n.about \in DOMAIN Outs /\ n.walletId = Outs[n.about].walletId
  /\ ~Outs[n.about].isChange

\* Of an output nobody is told twice; a thread that is to tell of one is the
\* first; and who is paid by a transaction that came is told of it, or will be.
PaymentInv ==
  Fresh =>
    /\ \A i \in DOMAIN sent : sent[i].type = "NewIncomingTx" => PaysOut(sent[i])
    /\ \A i, j \in DOMAIN sent :
         sent[i].type = "NewIncomingTx" /\ sent[j].type = "NewIncomingTx" /\ i # j
           => sent[i].about # sent[j].about
    /\ \A e \in Event, o \in DOMAIN Outs :
         /\ work[e].pay[o] # "none" => ~Outs[o].isChange
         /\ work[e].pay[o] = "store" =>
              \A i \in DOMAIN sent : sent[i].type = "NewIncomingTx" => sent[i].about # o
    /\ \A e \in Event, o \in DOMAIN Outs :
         work[e].kind = "tx" /\ ~Outs[o].isChange =>
           \/ \E i \in DOMAIN sent :
                sent[i].type = "NewIncomingTx" /\ sent[i].walletId = Outs[o].walletId
           \/ \E f \in Event, q \in DOMAIN Outs :
                /\ Outs[q].walletId = Outs[o].walletId /\ work[f].pay[q] # "none"

\* How far a confirmation for a pocketeer is.
Stage(p) ==
  IF \E e \in Event : work[e].confirm[p] = "store" THEN "store"
  ELSE IF \E e \in Event : work[e].confirm[p] = "tell" THEN "tell" ELSE "none"

\* Told n times so far, a pocketeer with this subscription will be told at most
\* as often as it asked, and at least as often as it was the only one to tell.
AtMostAsked(n, stage, sub, times) ==
  n + (IF stage # "none" THEN 1 ELSE 0)
    + (IF sub = "active" /\ stage # "store" THEN 1 ELSE 0) <= times
AtLeastAlone(n, stage, times) ==
  times <= n + (IF stage # "none" THEN 1 ELSE 0)

\* The events for which it was the only one.
AloneFor(p) == {e \in Event : work[e].active = {p}}

\* A block that is still to read subscriptions has told nobody.
ConfirmInv ==
  /\ \A e \in Event :
       work[e].block # "none" => \A p \in Pocketeers : work[e].confirm[p] = "none"
  /\ \A p \in Pocketeers :
       AtMostAsked(Confirmations(p), Stage(p), subs[p], asked[p])
  /\ ~trouble => \A p \in Pocketeers :
       AtLeastAlone(Confirmations(p), Stage(p), Cardinality(AloneFor(p)))

TellInv == OneAtATime /\ PaymentInv /\ ConfirmInv

-----------------------------------------------------------------------------
(* One event at a time.                                                     *)

\* The event that moves is the one that is not quiet, or the first.
LEMMA OthersQuiet ==
  ASSUME OneAtATime, NEW e \in Event, ~Quiet(e) \/ AllQuiet,
         \A f \in Event : f # e => work'[f] = work[f]
  PROVE  /\ \A f \in Event : f # e => Quiet(f) /\ Quiet(f)'
         /\ OneAtATime'
<1>1. \A f \in Event : f # e => Quiet(f)
  BY DEF OneAtATime, AllQuiet
<1>2. \A f \in Event : f # e => Quiet(f)'
  BY <1>1 DEF Quiet
<1> QED
  BY <1>1, <1>2 DEF OneAtATime

\* The steps of an event's threads.
EventStep(e) ==
  \/ IncomingTx(e)
  \/ \E o \in DOMAIN Outs : LookupNotified(e, o) \/ TellPayment(e, o)
  \/ FetchTx(e) \/ FetchTxAgain(e) \/ StoreBroadcasted(e) \/ TellThirdParty(e)
  \/ NewBlock(e) \/ NotifyNewBlock(e) \/ GetTxidsInBlock(e) \/ FetchSubs(e)
  \/ \E p \in Pocketeers : StoreSub(e, p) \/ TellConfirmation(e, p)

\* They leave the threads of other events, and these are quiet.
LEMMA EventStepAlone ==
  ASSUME MonitorTyped, NotificationsTypeOK, NotesFit, Apart, OneAtATime,
         NEW e \in Event, EventStep(e)
  PROVE  /\ \A f \in Event : f # e => work'[f] = work[f] /\ Quiet(f) /\ Quiet(f)'
         /\ OneAtATime'
         /\ IncomingTx(e) \/ NewBlock(e) => Quiet(e)
<1>1. CASE IncomingTx(e) \/ NewBlock(e)
  <2>1. AllQuiet
    BY <1>1 DEF IncomingTx, NewBlock, Begins
  <2>2. \A f \in Event : f # e => work'[f] = work[f]
    BY <1>1, IncomingTxDoes, NewBlockDoes DEF Touches
  <2> QED
    BY <2>1, <2>2, OthersQuiet DEF AllQuiet
<1>2. ASSUME NEW o \in DOMAIN Outs, LookupNotified(e, o) \/ TellPayment(e, o)
      PROVE  ~Quiet(e) /\ \A f \in Event : f # e => work'[f] = work[f]
  <2>1. work[e].pay[o] # "none"
    BY <1>2 DEF LookupNotified, TellPayment
  <2>2. \A f \in Event : f # e => work'[f] = work[f]
    BY <1>2, LookupDoes, TellPaymentDoes DEF Touches
  <2> QED
    BY <2>1, <2>2 DEF Quiet
<1>3. ASSUME FetchTx(e) \/ FetchTxAgain(e) \/ StoreBroadcasted(e) \/ TellThirdParty(e)
      PROVE  ~Quiet(e) /\ \A f \in Event : f # e => work'[f] = work[f]
  <2>1. work[e].third # "none"
    BY <1>3 DEF FetchTx, FetchTxAgain, StoreBroadcasted, TellThirdParty
  <2>2. \A f \in Event : f # e => work'[f] = work[f]
    BY <1>3, FetchTxDoes, FetchTxAgainDoes, StoreBroadcastedDoes, TellThirdPartyDoes DEF Touches
  <2> QED
    BY <2>1, <2>2 DEF Quiet
<1>4. ASSUME NotifyNewBlock(e) \/ GetTxidsInBlock(e) \/ FetchSubs(e)
      PROVE  ~Quiet(e) /\ \A f \in Event : f # e => work'[f] = work[f]
  <2>1. work[e].newBlock # "none" \/ work[e].block # "none"
    BY <1>4 DEF NotifyNewBlock, GetTxidsInBlock, FetchSubs
  <2>2. \A f \in Event : f # e => work'[f] = work[f]
    BY <1>4, NotifyNewBlockDoes, GetTxidsInBlockDoes, FetchSubsDoes DEF Touches
  <2> QED
    BY <2>1, <2>2 DEF Quiet
<1>5. ASSUME NEW p \in Pocketeers, StoreSub(e, p) \/ TellConfirmation(e, p)
      PROVE  ~Quiet(e) /\ \A f \in Event : f # e => work'[f] = work[f]
  <2>1. work[e].confirm[p] # "none"
    BY <1>5 DEF StoreSub, TellConfirmation
  <2>2. \A f \in Event : f # e => work'[f] = work[f]
    BY <1>5, StoreSubDoes, TellConfirmationDoes DEF Touches
  <2> QED
    BY <2>1, <2>2 DEF Quiet
<1>6. CASE ~(IncomingTx(e) \/ NewBlock(e))
  <2>1. ~Quiet(e) /\ \A f \in Event : f # e => work'[f] = work[f]
    BY <1>2, <1>3, <1>4, <1>5, <1>6 DEF EventStep
  <2> QED
    BY <1>6, <2>1, OthersQuiet
<1> QED
  BY <1>1, <1>6

\* A failure leaves no thread where there was none.
LEMMA FailingQuiets ==
  ASSUME MonitorTyped, OneAtATime, NEW e \in Event, MonitorFails(e)
  PROVE  OneAtATime'
<1>1. \A f \in Event :
        /\ work'[f].third \in {work[f].third, "none"}
        /\ work'[f].block \in {work[f].block, "none"}
        /\ work'[f].newBlock \in {work[f].newBlock, "none"}
        /\ \A o \in DOMAIN Outs : work'[f].pay[o] \in {work[f].pay[o], "none"}
        /\ \A p \in Pocketeers : work'[f].confirm[p] \in {work[f].confirm[p], "none"}
  BY MonitorFailsDoes
<1>2. ASSUME NEW f \in Event, Quiet(f) PROVE Quiet(f)'
  BY <1>1, <1>2 DEF Quiet
<1> QED
  BY <1>2 DEF OneAtATime

-----------------------------------------------------------------------------
(* Confirmations.                                                           *)

\* Who was told of a confirmation, among the first notifications.
LEMMA ConfirmationsFinite ==
  ASSUME NotificationsTypeOK, NEW p
  PROVE  /\ IsFiniteSet({i \in DOMAIN sent : sent[i].type = "TxConfirmation"
                                               /\ sent[i].creatorId = p})
         /\ Confirmations(p) \in Nat
<1> DEFINE S == {i \in DOMAIN sent : sent[i].type = "TxConfirmation" /\ sent[i].creatorId = p}
<1>1. Len(sent) \in Nat /\ DOMAIN sent = 1..Len(sent)
  BY DEF NotificationsTypeOK
<1>2. IsFiniteSet(1..Len(sent))
  BY <1>1, FS_Interval
<1>3. S \in SUBSET (1..Len(sent))
  BY <1>1
<1>4. IsFiniteSet(S)
  BY <1>2, <1>3, FS_Subset
<1>5. Cardinality(S) \in Nat
  BY <1>4, FS_CardinalityType
<1> QED
  BY <1>4, <1>5 DEF Confirmations

\* Another notification, or a day that passes, is no confirmation.
LEMMA ConfirmationsKept ==
  ASSUME NotificationsTypeOK, NEW m,
         \/ UNCHANGED sent
         \/ SentKept /\ DOMAIN sent' = DOMAIN sent
         \/ SentStep(m) /\ m.type # "TxConfirmation"
  PROVE  \A p : Confirmations(p)' = Confirmations(p)
<1> SUFFICES ASSUME NEW p PROVE Confirmations(p)' = Confirmations(p)
  OBVIOUS
<1> DEFINE S == {i \in DOMAIN sent : sent[i].type = "TxConfirmation" /\ sent[i].creatorId = p}
<1>0. sent \in Seq(Notification)
  BY DEF NotificationsTypeOK
<1>1. CASE UNCHANGED sent
  BY <1>1 DEF Confirmations
<1>2. CASE SentKept /\ DOMAIN sent' = DOMAIN sent
  <2>1. S' = S
    BY <1>2 DEF SentKept, SameNote
  <2> QED
    BY <2>1 DEF Confirmations
<1>3. CASE SentStep(m) /\ m.type # "TxConfirmation"
  <2>1. /\ DOMAIN sent' = DOMAIN sent \cup {Len(sent) + 1}
        /\ sent'[Len(sent) + 1] = m
        /\ \A i \in DOMAIN sent : sent'[i] = sent[i]
    BY <1>0, <1>3, SentStepKeeps
  <2>2. S' = S
    BY <1>3, <2>1
  <2> QED
    BY <2>2 DEF Confirmations
<1> QED
  BY <1>1, <1>2, <1>3

\* A confirmation that is told counts for one.
LEMMA ConfirmationTold ==
  ASSUME NotificationsTypeOK, NEW m, SentStep(m), m.type = "TxConfirmation"
  PROVE  \A p : Confirmations(p)' = Confirmations(p) + (IF p = m.creatorId THEN 1 ELSE 0)
<1> SUFFICES ASSUME NEW p
             PROVE  Confirmations(p)' = Confirmations(p) + (IF p = m.creatorId THEN 1 ELSE 0)
  OBVIOUS
<1> DEFINE S == {i \in DOMAIN sent : sent[i].type = "TxConfirmation" /\ sent[i].creatorId = p}
           next == Len(sent) + 1
<1>1. /\ DOMAIN sent' = DOMAIN sent \cup {next}
      /\ sent'[next] = m /\ next \notin DOMAIN sent
      /\ \A i \in DOMAIN sent : sent'[i] = sent[i]
  BY SentStepKeeps DEF NotificationsTypeOK
<1> HIDE DEF next
<1>2. IsFiniteSet(S) /\ Cardinality(S) \in Nat
  BY ConfirmationsFinite DEF Confirmations
<1>3. CASE p = m.creatorId
  <2>1. S' = S \cup {next} /\ next \notin S
    BY <1>1, <1>3
  <2> HIDE DEF S
  <2>2. Cardinality(S \cup {next}) = Cardinality(S) + 1
    BY <1>2, <2>1, FS_AddElement
  <2> QED
    BY <1>3, <2>1, <2>2 DEF S, Confirmations
<1>4. CASE p # m.creatorId
  <2>1. S' = S
    BY <1>1, <1>4
  <2>2. Confirmations(p)' = Confirmations(p)
    BY <2>1 DEF Confirmations
  <2>3. Confirmations(p) \in Nat
    BY <1>2 DEF Confirmations
  <2> QED
    BY <1>4, <2>2, <2>3
<1> QED
  BY <1>3, <1>4

\* With all other events quiet, the stage is that of this one's thread.
LEMMA StageIs ==
  ASSUME MonitorTyped, MonitorTyped', NEW e \in Event,
         \A f \in Event : f # e => Quiet(f) /\ Quiet(f)'
  PROVE  \A p \in Pocketeers :
           Stage(p) = work[e].confirm[p] /\ Stage(p)' = work'[e].confirm[p]
<1> SUFFICES ASSUME NEW p \in Pocketeers
             PROVE  Stage(p) = work[e].confirm[p] /\ Stage(p)' = work'[e].confirm[p]
  OBVIOUS
<1>1. /\ work[e].confirm[p] \in {"none", "store", "tell"}
      /\ work'[e].confirm[p] \in {"none", "store", "tell"}
  BY DEF MonitorTyped, EventState
<1>2. \A f \in Event :
        f # e => work[f].confirm[p] = "none" /\ work'[f].confirm[p] = "none"
  BY DEF Quiet
<1>3. Stage(p) = work[e].confirm[p]
  BY <1>1, <1>2 DEF Stage
<1>4. Stage(p)' = work'[e].confirm[p]
  BY <1>1, <1>2 DEF Stage
<1> QED
  BY <1>3, <1>4

\* The events a pocketeer was alone for are finitely many.
LEMMA AloneFinite == \A p : IsFiniteSet(AloneFor(p)) /\ Cardinality(AloneFor(p)) \in Nat
<1> SUFFICES ASSUME NEW p PROVE IsFiniteSet(AloneFor(p)) /\ Cardinality(AloneFor(p)) \in Nat
  OBVIOUS
<1>1. IsFiniteSet(Event) /\ AloneFor(p) \in SUBSET Event
  BY MonitorAssumption DEF AloneFor
<1> QED
  BY <1>1, FS_Subset, FS_CardinalityType

\* Most steps tell of no confirmation, and start none.
ConfirmCalm ==
  /\ \A p : Confirmations(p)' = Confirmations(p)
  /\ UNCHANGED <<subs, asked>>
  /\ \A e \in Event :
       /\ work'[e].confirm = work[e].confirm /\ work'[e].active = work[e].active
       /\ work'[e].block # "none" =>
            work[e].block # "none" \/ \A p \in Pocketeers : work[e].confirm[p] = "none"
  /\ trouble => trouble'

\* They keep the invariant.
LEMMA ConfirmCalmKeeps ==
  ASSUME ConfirmInv, ConfirmCalm
  PROVE  ConfirmInv'
<1>1. \A p : Stage(p)' = Stage(p) /\ AloneFor(p)' = AloneFor(p)
  BY DEF ConfirmCalm, Stage, AloneFor
<1>2. \A e \in Event :
        work'[e].block # "none" => \A p \in Pocketeers : work'[e].confirm[p] = "none"
  BY DEF ConfirmCalm, ConfirmInv
<1>3. \A p \in Pocketeers : AtMostAsked(Confirmations(p)', Stage(p)', subs'[p], asked'[p])
  BY <1>1 DEF ConfirmCalm, ConfirmInv
<1>4. ~trouble' => \A p \in Pocketeers :
        AtLeastAlone(Confirmations(p)', Stage(p)', Cardinality(AloneFor(p)'))
  BY <1>1 DEF ConfirmCalm, ConfirmInv
<1> QED
  BY <1>2, <1>3, <1>4 DEF ConfirmInv

\* Pocketeers subscribe and unsubscribe.
LEMMA SubscribeTells ==
  ASSUME MonitorTyped, NotificationsTypeOK, ConfirmInv, NEW p \in Pocketeers,
         TxConfirmationSubscribe(p) \/ TxConfirmationUnsubscribe(p)
  PROVE  ConfirmInv'
<1>1. UNCHANGED <<sent, work, trouble>>
  BY DEF TxConfirmationSubscribe, TxConfirmationUnsubscribe, notificationVars
<1>2. /\ subs' \in [Pocketeers -> {"none", "active", "inactive"}]
      /\ asked \in [Pocketeers -> Nat] /\ asked' \in [Pocketeers -> Nat]
      /\ subs \in [Pocketeers -> {"none", "active", "inactive"}]
  BY DEF TxConfirmationSubscribe, TxConfirmationUnsubscribe, MonitorTyped
<1>3. \A q : /\ Confirmations(q)' = Confirmations(q) /\ Confirmations(q) \in Nat
             /\ Stage(q)' = Stage(q) /\ AloneFor(q)' = AloneFor(q)
  BY <1>1, ConfirmationsFinite DEF Confirmations, Stage, AloneFor
<1>4. ASSUME NEW q \in Pocketeers
      PROVE  AtMostAsked(Confirmations(q)', Stage(q)', subs'[q], asked'[q])
  <2>1. AtMostAsked(Confirmations(q), Stage(q), subs[q], asked[q])
    BY DEF ConfirmInv
  <2>2. \/ subs'[q] = subs[q] /\ asked'[q] = asked[q]
        \/ subs'[q] = "active" /\ asked'[q] = asked[q] + 1
        \/ subs'[q] = "none" /\ asked'[q] = asked[q]
    BY <1>2 DEF TxConfirmationSubscribe, TxConfirmationUnsubscribe
  <2>3. asked[q] \in Nat /\ Confirmations(q) \in Nat
    BY <1>2, <1>3
  <2> QED
    BY <1>3, <2>1, <2>2, <2>3 DEF AtMostAsked
<1>5. \A e \in Event :
        work'[e].block # "none" => \A q \in Pocketeers : work'[e].confirm[q] = "none"
  BY <1>1 DEF ConfirmInv
<1>6. ~trouble' => \A q \in Pocketeers :
        AtLeastAlone(Confirmations(q)', Stage(q)', Cardinality(AloneFor(q)'))
  BY <1>1, <1>3 DEF ConfirmInv
<1> QED
  BY <1>4, <1>5, <1>6 DEF ConfirmInv

\* The subscriptions are read, and one of them is to be told.
LEMMA FetchSubsTells ==
  ASSUME MonitorTyped, NotificationsTypeOK, ConfirmInv, NEW e \in Event, FetchSubs(e),
         \A f \in Event : f # e => work'[f] = work[f] /\ Quiet(f) /\ Quiet(f)'
  PROVE  ConfirmInv'
<1>1. /\ MonitorTyped' /\ Touches(e, {"block", "active", "confirm"})
      /\ work[e].block = "subs" /\ work'[e].block = "none"
  BY FetchSubsDoes
<1>2. UNCHANGED <<sent, trouble, subs, asked>>
  BY DEF FetchSubs, notificationVars
<1>3. \A q : Confirmations(q)' = Confirmations(q) /\ Confirmations(q) \in Nat
  BY <1>2, ConfirmationsFinite DEF Confirmations
<1>4. CASE work'[e].active = work[e].active /\ work'[e].confirm = work[e].confirm
  <2>1. \A f \in Event : /\ work'[f].confirm = work[f].confirm
                         /\ work'[f].active = work[f].active
                         /\ work'[f].block # "none" => work[f].block # "none"
    BY <1>1, <1>4
  <2> QED
    BY <1>2, <1>3, <2>1, ConfirmCalmKeeps DEF ConfirmCalm
<1>5. ASSUME NEW p \in Active, work'[e].active = Active,
             work'[e].confirm = [work[e].confirm EXCEPT ![p] = "store"]
      PROVE  ConfirmInv'
  <2>1. p \in Pocketeers /\ subs[p] = "active"
    BY DEF Active
  <2>2. work[e].confirm \in [Pocketeers -> {"none", "store", "tell"}]
        /\ \A q \in Pocketeers : work[e].confirm[q] = "none"
    BY <1>1 DEF MonitorTyped, EventState, ConfirmInv
  <2>3. \A q \in Pocketeers : work'[e].confirm[q] = IF q = p THEN "store" ELSE "none"
    BY <1>5, <2>2
  <2>4. \A q \in Pocketeers : Stage(q) = "none"
    BY <1>1, <2>2, StageIs
  <2>5. \A q \in Pocketeers : Stage(q)' = IF q = p THEN "store" ELSE "none"
    <3>1. \A f \in Event, q \in Pocketeers : f # e => work'[f].confirm[q] = "none"
      BY DEF Quiet
    <3> QED
      BY <2>3, <3>1 DEF Stage
  <2>6. ASSUME NEW q \in Pocketeers
        PROVE  AtMostAsked(Confirmations(q)', Stage(q)', subs'[q], asked'[q])
    <3>1. AtMostAsked(Confirmations(q), Stage(q), subs[q], asked[q])
      BY DEF ConfirmInv
    <3>2. asked[q] \in Nat
      BY DEF MonitorTyped
    <3>3. Confirmations(q) \in Nat /\ Confirmations(q)' = Confirmations(q)
      BY <1>3
    <3>4. Stage(q) = "none" /\ Stage(q)' = IF q = p THEN "store" ELSE "none"
      BY <2>4, <2>5
    <3>5. asked'[q] = asked[q] /\ subs'[q] = subs[q]
      BY <1>2
    <3> QED
      BY <2>1, <3>1, <3>2, <3>3, <3>4, <3>5 DEF AtMostAsked
  <2>7. ASSUME ~trouble', NEW q \in Pocketeers
        PROVE  AtLeastAlone(Confirmations(q)', Stage(q)', Cardinality(AloneFor(q)'))
    <3>1. AtLeastAlone(Confirmations(q), Stage(q), Cardinality(AloneFor(q)))
      BY <1>2, <2>7 DEF ConfirmInv
    <3>2. \A f \in Event : f # e => work'[f].active = work[f].active
      OBVIOUS
    <3>3. IsFiniteSet(AloneFor(q)) /\ Cardinality(AloneFor(q)) \in Nat
      BY AloneFinite
    <3>4. Confirmations(q) \in Nat /\ Confirmations(q)' = Confirmations(q)
      BY <1>3
    <3>5. CASE q = p
      <4>1. AloneFor(q)' \in SUBSET (AloneFor(q) \cup {e})
        BY <3>2 DEF AloneFor
      <4>2. /\ IsFiniteSet(AloneFor(q) \cup {e})
            /\ Cardinality(AloneFor(q) \cup {e}) \in Nat
            /\ Cardinality(AloneFor(q) \cup {e}) <= Cardinality(AloneFor(q)) + 1
        <5> DEFINE A == AloneFor(q)
        <5>1. IsFiniteSet(A) /\ Cardinality(A) \in Nat
          BY <3>3
        <5> HIDE DEF A
        <5>2. /\ IsFiniteSet(A \cup {e})
              /\ Cardinality(A \cup {e}) = IF e \in A THEN Cardinality(A) ELSE Cardinality(A) + 1
          BY <5>1, FS_AddElement
        <5> QED
          BY <5>1, <5>2 DEF A
      <4>3. Cardinality(AloneFor(q)') <= Cardinality(AloneFor(q) \cup {e})
            /\ Cardinality(AloneFor(q)') \in Nat
        BY <4>1, <4>2, FS_Subset, FS_CardinalityType
      <4>4. Stage(q) = "none" /\ Stage(q)' = "store"
        BY <2>4, <2>5, <3>5
      <4> QED
        BY <3>1, <3>3, <3>4, <4>2, <4>3, <4>4 DEF AtLeastAlone
    <3>6. CASE q # p
      <4>1. AloneFor(q)' \in SUBSET AloneFor(q)
        BY <1>5, <3>2, <3>6 DEF AloneFor
      <4>2. Cardinality(AloneFor(q)') <= Cardinality(AloneFor(q))
            /\ Cardinality(AloneFor(q)') \in Nat
        BY <3>3, <4>1, FS_Subset, FS_CardinalityType
      <4>3. Stage(q) = "none" /\ Stage(q)' = "none"
        BY <2>4, <2>5, <3>6
      <4> QED
        BY <3>1, <3>3, <3>4, <4>2, <4>3 DEF AtLeastAlone
    <3> QED
      BY <3>5, <3>6
  <2>8. \A f \in Event :
          work'[f].block # "none" => \A q \in Pocketeers : work'[f].confirm[q] = "none"
    BY <1>1, Zenon DEF ConfirmInv
  <2> QED
    BY <2>6, <2>7, <2>8 DEF ConfirmInv
<1> QED
  BY <1>4, <1>5, FetchSubsDoes

\* A subscription is stored as inactive.
LEMMA StoreSubTells ==
  ASSUME MonitorTyped, NotificationsTypeOK, ConfirmInv, NEW e \in Event,
         NEW p \in Pocketeers, StoreSub(e, p),
         \A f \in Event : f # e => work'[f] = work[f] /\ Quiet(f) /\ Quiet(f)'
  PROVE  ConfirmInv'
<1>1. /\ MonitorTyped' /\ Touches(e, {"confirm"})
      /\ work[e].confirm[p] = "store"
      /\ work'[e].confirm = [work[e].confirm EXCEPT ![p] = "tell"]
  BY StoreSubDoes
<1>2. UNCHANGED <<sent, trouble, asked>> /\ subs' = [subs EXCEPT ![p] = "inactive"]
  BY DEF StoreSub, notificationVars
<1>3. \A q : /\ Confirmations(q)' = Confirmations(q) /\ Confirmations(q) \in Nat
             /\ AloneFor(q)' = AloneFor(q)
  BY <1>1, <1>2, ConfirmationsFinite DEF Confirmations, AloneFor, Touches
<1>4. \A q \in Pocketeers :
        Stage(q) = work[e].confirm[q] /\ Stage(q)' = work'[e].confirm[q]
  BY <1>1, StageIs
<1>5. work[e].confirm \in [Pocketeers -> {"none", "store", "tell"}]
  BY DEF MonitorTyped, EventState
<1>6. \A q \in Pocketeers :
        IF q = p THEN Stage(q) = "store" /\ Stage(q)' = "tell" /\ subs'[q] = "inactive"
        ELSE Stage(q)' = Stage(q) /\ subs'[q] = subs[q]
  BY <1>1, <1>2, <1>4, <1>5 DEF MonitorTyped
<1>7. ASSUME NEW q \in Pocketeers
      PROVE  AtMostAsked(Confirmations(q)', Stage(q)', subs'[q], asked'[q])
  <2>1. AtMostAsked(Confirmations(q), Stage(q), subs[q], asked[q])
    BY DEF ConfirmInv
  <2>2. asked[q] \in Nat /\ asked'[q] = asked[q]
    BY <1>2 DEF MonitorTyped
  <2> QED
    BY <1>3, <1>6, <2>1, <2>2 DEF AtMostAsked
<1>8. ASSUME ~trouble', NEW q \in Pocketeers
      PROVE  AtLeastAlone(Confirmations(q)', Stage(q)', Cardinality(AloneFor(q)'))
  <2>1. AtLeastAlone(Confirmations(q), Stage(q), Cardinality(AloneFor(q)))
    BY <1>2, <1>8 DEF ConfirmInv
  <2> QED
    BY <1>3, <1>6, <2>1 DEF AtLeastAlone
<1>9. ASSUME NEW f \in Event, work'[f].block # "none", NEW q \in Pocketeers
      PROVE  work'[f].confirm[q] = "none"
  BY <1>1, <1>9 DEF ConfirmInv, Touches
<1> QED
  BY <1>7, <1>8, <1>9 DEF ConfirmInv

\* A confirmation is told of.
LEMMA TellConfirmationTells ==
  ASSUME MonitorTyped, NotificationsTypeOK, NotesFit, ConfirmInv, NEW e \in Event,
         NEW p \in Pocketeers, TellConfirmation(e, p),
         \A f \in Event : f # e => work'[f] = work[f] /\ Quiet(f) /\ Quiet(f)'
  PROVE  ConfirmInv'
<1>1. /\ MonitorTyped' /\ Touches(e, {"confirm"})
      /\ work[e].confirm[p] = "tell"
      /\ work'[e].confirm = [work[e].confirm EXCEPT ![p] = "none"]
      /\ trouble => trouble'
  BY TellConfirmationDoes
<1> \E m : /\ SentStep(m)
           /\ m.type = "TxConfirmation" /\ m.creatorId = p /\ m.recent
           /\ ~trouble' => m.stored /\ (listening = "mail" => m.told # {})
  BY TellConfirmationDoes
<1>2. PICK m : SentStep(m) /\ m.type = "TxConfirmation" /\ m.creatorId = p
  OBVIOUS
<1>3. UNCHANGED <<asked, subs>>
  BY DEF TellConfirmation
<1>4. \A q : /\ Confirmations(q)' = Confirmations(q) + (IF q = p THEN 1 ELSE 0)
             /\ Confirmations(q) \in Nat /\ AloneFor(q)' = AloneFor(q)
  <2>1. \A q : Confirmations(q)' = Confirmations(q) + (IF q = p THEN 1 ELSE 0)
    BY <1>2, ConfirmationTold
  <2>2. \A q : AloneFor(q)' = AloneFor(q)
    BY <1>1 DEF AloneFor, Touches
  <2>3. \A q : Confirmations(q) \in Nat
    BY ConfirmationsFinite
  <2> QED
    BY <2>1, <2>2, <2>3
<1>5. \A q \in Pocketeers :
        Stage(q) = work[e].confirm[q] /\ Stage(q)' = work'[e].confirm[q]
  BY <1>1, StageIs
<1>6. work[e].confirm \in [Pocketeers -> {"none", "store", "tell"}]
  BY DEF MonitorTyped, EventState
<1>7. \A q \in Pocketeers :
        IF q = p THEN Stage(q) = "tell" /\ Stage(q)' = "none" ELSE Stage(q)' = Stage(q)
  BY <1>1, <1>5, <1>6
<1>8. ASSUME NEW q \in Pocketeers
      PROVE  AtMostAsked(Confirmations(q)', Stage(q)', subs'[q], asked'[q])
  <2>1. AtMostAsked(Confirmations(q), Stage(q), subs[q], asked[q])
    BY DEF ConfirmInv
  <2>2. asked[q] \in Nat /\ asked'[q] = asked[q] /\ subs'[q] = subs[q]
    BY <1>3 DEF MonitorTyped
  <2> QED
    BY <1>4, <1>7, <2>1, <2>2 DEF AtMostAsked
<1>9. ASSUME ~trouble', NEW q \in Pocketeers
      PROVE  AtLeastAlone(Confirmations(q)', Stage(q)', Cardinality(AloneFor(q)'))
  <2>1. AtLeastAlone(Confirmations(q), Stage(q), Cardinality(AloneFor(q)))
    BY <1>1, <1>9 DEF ConfirmInv
  <2>2. Cardinality(AloneFor(q)) \in Nat
    BY AloneFinite
  <2> QED
    BY <1>4, <1>7, <2>1, <2>2 DEF AtLeastAlone
<1>10. ASSUME NEW f \in Event, work'[f].block # "none", NEW q \in Pocketeers
       PROVE  work'[f].confirm[q] = "none"
  BY <1>1, <1>6, <1>10 DEF ConfirmInv, Touches
<1> QED
  BY <1>8, <1>9, <1>10 DEF ConfirmInv

\* A thread that fails tells less.
LEMMA FailureTells ==
  ASSUME MonitorTyped, NotificationsTypeOK, ConfirmInv, OneAtATime, NEW e \in Event,
         MonitorFails(e)
  PROVE  ConfirmInv'
<1>1. /\ trouble' /\ UNCHANGED <<sent, subs, asked>>
      /\ \A f \in Event : work'[f].block \in {work[f].block, "none"}
      /\ \A f \in Event, q \in Pocketeers :
           work'[f].confirm[q] \in {work[f].confirm[q], "none"}
  BY MonitorFailsDoes
<1>2. \A q : Confirmations(q)' = Confirmations(q) /\ Confirmations(q) \in Nat
  BY <1>1, ConfirmationsFinite DEF Confirmations
<1>3. ASSUME NEW q \in Pocketeers PROVE Stage(q)' \in {Stage(q), "none"}
  <2>1. \A f, g \in Event :
          work[f].confirm[q] # "none" /\ work[g].confirm[q] # "none" => f = g
    BY DEF OneAtATime, Quiet
  <2> QED
    BY <1>1, <2>1 DEF Stage
<1>4. ASSUME NEW q \in Pocketeers
      PROVE  AtMostAsked(Confirmations(q)', Stage(q)', subs'[q], asked'[q])
  <2>1. AtMostAsked(Confirmations(q), Stage(q), subs[q], asked[q])
    BY DEF ConfirmInv
  <2>2. asked[q] \in Nat
    BY DEF MonitorTyped
  <2> QED
    BY <1>1, <1>2, <1>3, <2>1, <2>2 DEF AtMostAsked
<1>5. ASSUME NEW f \in Event, work'[f].block # "none", NEW q \in Pocketeers
      PROVE  work'[f].confirm[q] = "none"
  <2>1. work[f].block # "none"
    BY <1>1, <1>5
  <2>2. work[f].confirm[q] = "none"
    BY <2>1 DEF ConfirmInv
  <2> QED
    BY <1>1, <2>2
<1> QED
  BY <1>1, <1>4, <1>5 DEF ConfirmInv

\* Every step of the monitor keeps it.
LEMMA ConfirmStepKeeps ==
  ASSUME MonitorTyped, NotificationsTypeOK, NotesFit, Apart, OneAtATime, ConfirmInv,
         MonitorNext
  PROVE  OneAtATime' /\ ConfirmInv'
<1>1. UNCHANGED work => OneAtATime'
  BY DEF OneAtATime, Quiet
<1>2. UNCHANGED notificationVars =>
        (trouble => trouble') /\ \A p : Confirmations(p)' = Confirmations(p)
  BY DEF notificationVars, Confirmations
<1>3. CASE NextDay
  <2>1. SentKept /\ DOMAIN sent' = DOMAIN sent
    BY <1>3, DayPassesStep DEF NextDay
  <2>2. \A p : Confirmations(p)' = Confirmations(p)
    BY <2>1, ConfirmationsKept
  <2>3. UNCHANGED <<work, subs, asked, trouble>>
    BY <1>3 DEF NextDay, DayPasses, monitorVars
  <2>4. ConfirmCalm
    BY <2>2, <2>3 DEF ConfirmCalm
  <2> QED
    BY <1>1, <2>3, <2>4, ConfirmCalmKeeps
<1>4. CASE BroadcastTx \/ ProcessBroadcast
  <2>1. UNCHANGED notificationVars /\ UNCHANGED <<work, subs, asked>>
    BY <1>4 DEF BroadcastTx, ProcessBroadcast
  <2>2. ConfirmCalm
    BY <1>2, <2>1 DEF ConfirmCalm
  <2> QED
    BY <1>1, <2>1, <2>2, ConfirmCalmKeeps
<1>5. ASSUME NEW p \in Pocketeers, TxConfirmationSubscribe(p) \/ TxConfirmationUnsubscribe(p)
      PROVE  OneAtATime' /\ ConfirmInv'
  <2>1. UNCHANGED work
    BY <1>5 DEF TxConfirmationSubscribe, TxConfirmationUnsubscribe
  <2> QED
    BY <1>1, <1>5, <2>1, SubscribeTells
<1>6. ASSUME NEW e \in Event, EventStep(e)
      PROVE  OneAtATime' /\ ConfirmInv'
  <2>1. /\ \A f \in Event : f # e => work'[f] = work[f] /\ Quiet(f) /\ Quiet(f)'
        /\ OneAtATime'
        /\ IncomingTx(e) \/ NewBlock(e) => Quiet(e)
    BY <1>6, EventStepAlone
  <2> DEFINE Calm ==
        /\ \A p : Confirmations(p)' = Confirmations(p)
        /\ UNCHANGED <<subs, asked>>
        /\ trouble => trouble'
        /\ work'[e].confirm = work[e].confirm /\ work'[e].active = work[e].active
        /\ work'[e].block # "none" =>
             work[e].block # "none" \/ \A p \in Pocketeers : work[e].confirm[p] = "none"
  <2>2. Calm => ConfirmInv'
    <3>1. Calm => ConfirmCalm
      BY <2>1 DEF ConfirmCalm
    <3> QED
      BY <3>1, ConfirmCalmKeeps
  <2>3. CASE \/ IncomingTx(e) \/ FetchTx(e) \/ FetchTxAgain(e) \/ StoreBroadcasted(e)
             \/ NewBlock(e) \/ GetTxidsInBlock(e)
    <3>1. UNCHANGED notificationVars /\ UNCHANGED <<subs, asked>>
      BY <2>3 DEF IncomingTx, FetchTx, FetchTxAgain, StoreBroadcasted, NewBlock, GetTxidsInBlock
    <3>2. work'[e].confirm = work[e].confirm /\ work'[e].active = work[e].active
      BY <2>3, IncomingTxDoes, FetchTxDoes, FetchTxAgainDoes, StoreBroadcastedDoes,
         NewBlockDoes, GetTxidsInBlockDoes DEF Touches
    <3>3. \/ work'[e].block = work[e].block
          \/ NewBlock(e)
          \/ GetTxidsInBlock(e) /\ work[e].block # "none"
      BY <2>3, IncomingTxDoes, FetchTxDoes, FetchTxAgainDoes, StoreBroadcastedDoes,
         GetTxidsInBlockDoes DEF Touches
    <3>4. NewBlock(e) => \A p \in Pocketeers : work[e].confirm[p] = "none"
      BY <2>1 DEF Quiet
    <3>5. work'[e].block # "none" =>
            work[e].block # "none" \/ \A p \in Pocketeers : work[e].confirm[p] = "none"
      BY <3>3, <3>4
    <3>6. (trouble => trouble') /\ \A p : Confirmations(p)' = Confirmations(p)
      BY <1>2, <3>1
    <3>7. Calm
      BY <3>1, <3>2, <3>5, <3>6
    <3> QED
      BY <2>1, <2>2, <3>7
  <2>4. ASSUME NEW o \in DOMAIN Outs, LookupNotified(e, o)
        PROVE  ConfirmInv'
    <3>1. UNCHANGED notificationVars /\ UNCHANGED <<subs, asked>>
      BY <2>4 DEF LookupNotified
    <3>2. /\ work'[e].confirm = work[e].confirm /\ work'[e].active = work[e].active
          /\ work'[e].block = work[e].block
      BY <2>4, LookupDoes DEF Touches
    <3>3. Calm
      BY <1>2, <3>1, <3>2
    <3> QED
      BY <2>2, <3>3
  <2>5. ASSUME NEW o \in DOMAIN Outs, TellPayment(e, o)
        PROVE  ConfirmInv'
    <3>1. UNCHANGED <<subs, asked>>
      BY <2>5 DEF TellPayment
    <3>2. PICK m : SentStep(m) /\ m.type = "NewIncomingTx"
      BY <2>5, TellPaymentDoes
    <3>3. \A p : Confirmations(p)' = Confirmations(p)
      BY <3>2, ConfirmationsKept
    <3>4. /\ work'[e].confirm = work[e].confirm /\ work'[e].active = work[e].active
          /\ work'[e].block = work[e].block /\ (trouble => trouble')
      BY <2>5, TellPaymentDoes DEF Touches
    <3>5. Calm
      BY <3>1, <3>3, <3>4
    <3> QED
      BY <2>1, <2>2, <3>5
  <2>6. CASE TellThirdParty(e)
    <3>1. UNCHANGED <<subs, asked>>
      BY <2>6 DEF TellThirdParty
    <3>2. PICK m : SentStep(m) /\ m.type = "NewOutgoingTxByThirdParty"
      BY <2>6, TellThirdPartyDoes
    <3>3. \A p : Confirmations(p)' = Confirmations(p)
      BY <3>2, ConfirmationsKept
    <3>4. /\ work'[e].confirm = work[e].confirm /\ work'[e].active = work[e].active
          /\ work'[e].block = work[e].block /\ (trouble => trouble')
      BY <2>6, TellThirdPartyDoes DEF Touches
    <3>5. Calm
      BY <3>1, <3>3, <3>4
    <3> QED
      BY <2>1, <2>2, <3>5
  <2>7. CASE NotifyNewBlock(e)
    <3>1. UNCHANGED <<subs, asked>>
      BY <2>7 DEF NotifyNewBlock
    <3>2. PICK m : SentStep(m) /\ m.type = "NewBlock"
      BY <2>7, NotifyNewBlockDoes
    <3>3. \A p : Confirmations(p)' = Confirmations(p)
      BY <3>2, ConfirmationsKept
    <3>4. /\ work'[e].confirm = work[e].confirm /\ work'[e].active = work[e].active
          /\ work'[e].block = work[e].block /\ (trouble => trouble')
      BY <2>7, NotifyNewBlockDoes DEF Touches
    <3>5. Calm
      BY <3>1, <3>3, <3>4
    <3> QED
      BY <2>1, <2>2, <3>5
  <2> QED
    BY <1>6, <2>1, <2>3, <2>4, <2>5, <2>6, <2>7, FetchSubsTells, StoreSubTells,
       TellConfirmationTells DEF EventStep
<1>7. ASSUME NEW e \in Event, MonitorFails(e)
      PROVE  OneAtATime' /\ ConfirmInv'
  BY <1>7, FailingQuiets, FailureTells
<1> QED
  BY <1>3, <1>4, <1>5, <1>6, <1>7 DEF MonitorNext, EventStep

-----------------------------------------------------------------------------
(* Payments.                                                                *)

\* Most steps neither tell of a payment nor touch the threads that do.
PaymentCalm ==
  /\ trouble => trouble'
  /\ \A i \in DOMAIN sent : i \in DOMAIN sent' /\ sent'[i] = sent[i]
  /\ \A i \in DOMAIN sent' :
       sent'[i].type = "NewIncomingTx" => i \in DOMAIN sent
  /\ \A e \in Event :
       work'[e].pay = work[e].pay /\ (work'[e].kind = "tx" => work[e].kind = "tx")

\* They keep the invariant.
LEMMA PaymentCalmKeeps ==
  ASSUME PaymentInv, PaymentCalm
  PROVE  PaymentInv'
<1> SUFFICES ASSUME Fresh'
             PROVE  PaymentInv'
  BY DEF PaymentInv
<1>1. Fresh
  BY DEF PaymentCalm, Fresh
<1>2. /\ \A i \in DOMAIN sent' :
           sent'[i].type = "NewIncomingTx" => i \in DOMAIN sent /\ sent'[i] = sent[i]
      /\ \A i \in DOMAIN sent : i \in DOMAIN sent' /\ sent'[i] = sent[i]
      /\ \A e \in Event : work'[e].pay = work[e].pay
      /\ \A e \in Event : work'[e].kind = "tx" => work[e].kind = "tx"
  BY DEF PaymentCalm
<1>3. \A i \in DOMAIN sent' : sent'[i].type = "NewIncomingTx" => PaysOut(sent'[i])
  BY <1>1, <1>2 DEF PaymentInv
<1>4. \A i, j \in DOMAIN sent' :
        sent'[i].type = "NewIncomingTx" /\ sent'[j].type = "NewIncomingTx" /\ i # j
          => sent'[i].about # sent'[j].about
  BY <1>1, <1>2 DEF PaymentInv
<1>5. \A e \in Event, o \in DOMAIN Outs :
        /\ work'[e].pay[o] # "none" => ~Outs[o].isChange
        /\ work'[e].pay[o] = "store" =>
             \A i \in DOMAIN sent' : sent'[i].type = "NewIncomingTx" => sent'[i].about # o
  BY <1>1, <1>2 DEF PaymentInv
<1>6. \A e \in Event, o \in DOMAIN Outs :
        work'[e].kind = "tx" /\ ~Outs[o].isChange =>
          \/ \E i \in DOMAIN sent' :
               sent'[i].type = "NewIncomingTx" /\ sent'[i].walletId = Outs[o].walletId
          \/ \E f \in Event, q \in DOMAIN Outs :
               /\ Outs[q].walletId = Outs[o].walletId /\ work'[f].pay[q] # "none"
  BY <1>1, <1>2 DEF PaymentInv
<1> QED
  BY <1>3, <1>4, <1>5, <1>6 DEF PaymentInv, PaysOut

\* Another notification tells of no payment.
LEMMA OtherNotice ==
  ASSUME NotificationsTypeOK, NEW m, SentStep(m), m.type # "NewIncomingTx"
  PROVE  /\ \A i \in DOMAIN sent : i \in DOMAIN sent' /\ sent'[i] = sent[i]
         /\ \A i \in DOMAIN sent' : sent'[i].type = "NewIncomingTx" => i \in DOMAIN sent
BY SentStepKeeps DEF NotificationsTypeOK

\* All outputs of a transaction that comes are looked up.
LEMMA IncomingTxPays ==
  ASSUME MonitorTyped, PaymentInv, NEW e \in Event, IncomingTx(e)
  PROVE  PaymentInv'
<1>1. /\ Touches(e, {"kind", "pay", "third"})
      /\ \A o \in DOMAIN Outs :
           work'[e].pay[o] = IF Outs[o].isChange THEN "none" ELSE "lookup"
  BY IncomingTxDoes
<1>2. UNCHANGED <<sent, trouble>> /\ work[e].kind = "none"
  BY DEF IncomingTx, Begins, notificationVars
<1> SUFFICES ASSUME Fresh'
             PROVE  PaymentInv'
  BY DEF PaymentInv
<1>3. Fresh
  BY <1>2 DEF Fresh
<1>4. \A f \in Event : f # e => work'[f] = work[f]
  BY <1>1 DEF Touches
<1>5. \A f \in Event, o \in DOMAIN Outs :
        /\ work'[f].pay[o] # "none" => ~Outs[o].isChange
        /\ work'[f].pay[o] = "store" =>
             \A i \in DOMAIN sent : sent[i].type = "NewIncomingTx" => sent[i].about # o
  BY <1>1, <1>3, <1>4 DEF PaymentInv
<1>6. ASSUME NEW f \in Event, NEW o \in DOMAIN Outs,
             work'[f].kind = "tx" /\ ~Outs[o].isChange
      PROVE  \/ \E i \in DOMAIN sent :
                  sent[i].type = "NewIncomingTx" /\ sent[i].walletId = Outs[o].walletId
             \/ \E g \in Event, q \in DOMAIN Outs :
                  /\ Outs[q].walletId = Outs[o].walletId /\ work'[g].pay[q] # "none"
  BY <1>1, <1>6
<1>7. sent' = sent
  BY <1>2
<1>8. \A i \in DOMAIN sent' : sent'[i].type = "NewIncomingTx" => PaysOut(sent'[i])
  BY <1>7, <1>3 DEF PaymentInv
<1>9. \A i, j \in DOMAIN sent' :
        sent'[i].type = "NewIncomingTx" /\ sent'[j].type = "NewIncomingTx" /\ i # j
          => sent'[i].about # sent'[j].about
  BY <1>7, <1>3 DEF PaymentInv
<1> QED
  BY <1>5, <1>6, <1>7, <1>8, <1>9 DEF PaymentInv, PaysOut

\* A payment is looked up.
LEMMA LookupPays ==
  ASSUME MonitorTyped, NotificationsTypeOK, PaymentInv, NEW e \in Event,
         NEW o \in DOMAIN Outs, LookupNotified(e, o)
  PROVE  PaymentInv'
<1>1. Touches(e, {"pay"}) /\ work[e].pay[o] = "lookup"
  BY LookupDoes
<1>2. PICK v \in {"none", "store"} :
        /\ work'[e].pay = [work[e].pay EXCEPT ![o] = v]
        /\ v = "none" <=> \E n \in FetchNotifications(Outs[o].walletId) :
                             n.type = "NewIncomingTx"
  BY LookupDoes
<1>3. UNCHANGED <<sent, trouble>>
  BY DEF LookupNotified, notificationVars
<1> SUFFICES ASSUME Fresh'
             PROVE  PaymentInv'
  BY DEF PaymentInv
<1>4. Fresh
  BY <1>3 DEF Fresh
<1>5. work[e].pay \in [DOMAIN Outs -> {"none", "lookup", "store"}]
  BY DEF MonitorTyped, EventState
<1>6. /\ \A f \in Event : f # e => work'[f] = work[f]
      /\ work'[e].kind = work[e].kind
      /\ \A q \in DOMAIN Outs : work'[e].pay[q] = IF q = o THEN v ELSE work[e].pay[q]
  BY <1>1, <1>2, <1>5 DEF Touches
<1>7. ~Outs[o].isChange
  BY <1>1, <1>4 DEF PaymentInv
<1>8. v = "none" <=> \E i \in DOMAIN sent :
        sent[i].type = "NewIncomingTx" /\ sent[i].walletId = Outs[o].walletId
  BY <1>2, <1>4 DEF FetchNotifications, PaymentInv, PaysOut, Fresh
<1>9. ASSUME NEW f \in Event, NEW q \in DOMAIN Outs
      PROVE  /\ work'[f].pay[q] # "none" => ~Outs[q].isChange
             /\ work'[f].pay[q] = "store" =>
                  \A i \in DOMAIN sent : sent[i].type = "NewIncomingTx" => sent[i].about # q
  <2>1. CASE f = e /\ q = o
    BY <1>4, <1>6, <1>7, <1>8, <2>1 DEF PaymentInv, PaysOut
  <2>2. CASE f # e \/ q # o
    <3>1. work'[f].pay[q] = work[f].pay[q]
      BY <1>6, <2>2
    <3> QED
      BY <1>4, <3>1 DEF PaymentInv
  <2> QED
    BY <2>1, <2>2
<1>10. ASSUME NEW f \in Event, NEW q \in DOMAIN Outs,
              work'[f].kind = "tx" /\ ~Outs[q].isChange
       PROVE  \/ \E i \in DOMAIN sent :
                   sent[i].type = "NewIncomingTx" /\ sent[i].walletId = Outs[q].walletId
              \/ \E g \in Event, r \in DOMAIN Outs :
                   /\ Outs[r].walletId = Outs[q].walletId /\ work'[g].pay[r] # "none"
  <2>1. work[f].kind = "tx"
    BY <1>6, <1>10
  <2>2. CASE \E i \in DOMAIN sent :
               sent[i].type = "NewIncomingTx" /\ sent[i].walletId = Outs[q].walletId
    BY <2>2
  <2>3. ASSUME NEW g \in Event, NEW r \in DOMAIN Outs,
               Outs[r].walletId = Outs[q].walletId, work[g].pay[r] # "none"
        PROVE  \/ \E i \in DOMAIN sent :
                    sent[i].type = "NewIncomingTx" /\ sent[i].walletId = Outs[q].walletId
               \/ work'[g].pay[r] # "none"
    BY <1>6, <1>8, <2>3
  <2> QED
    BY <1>4, <1>10, <2>1, <2>2, <2>3 DEF PaymentInv
<1>11. sent' = sent
  BY <1>3
<1>12. \A i \in DOMAIN sent' : sent'[i].type = "NewIncomingTx" => PaysOut(sent'[i])
  BY <1>11, <1>4 DEF PaymentInv
<1>13. \A i, j \in DOMAIN sent' :
         sent'[i].type = "NewIncomingTx" /\ sent'[j].type = "NewIncomingTx" /\ i # j
           => sent'[i].about # sent'[j].about
  BY <1>11, <1>4 DEF PaymentInv
<1> QED
  BY <1>9, <1>10, <1>11, <1>12, <1>13 DEF PaymentInv, PaysOut

\* The notification of a payment.
LEMMA PaymentNotice ==
  ASSUME MonitorTyped, NotificationsTypeOK, NotesFit, NEW e \in Event,
         NEW o \in DOMAIN Outs, TellPayment(e, o)
  PROVE  \E m : /\ SentStep(m)
                /\ m.type = "NewIncomingTx" /\ m.walletId = Outs[o].walletId
                /\ m.creatorId = NoPocketeer /\ m.about = o /\ m.recent
                /\ ~trouble' => m.stored /\ (listening = "mail" => m.told # {})
BY TellPaymentDoes

\* A payment is told of.
LEMMA TellPays ==
  ASSUME MonitorTyped, NotificationsTypeOK, NotesFit, PaymentInv, NEW e \in Event,
         NEW o \in DOMAIN Outs, TellPayment(e, o),
         \A f \in Event : f # e => work'[f] = work[f] /\ Quiet(f)
  PROVE  PaymentInv'
<1>1. /\ Touches(e, {"pay"}) /\ work[e].pay[o] = "store"
      /\ work'[e].pay = [work[e].pay EXCEPT ![o] = "none"]
      /\ trouble => trouble'
  BY TellPaymentDoes
<1>2. PICK m : /\ SentStep(m)
               /\ m.type = "NewIncomingTx" /\ m.walletId = Outs[o].walletId
               /\ m.creatorId = NoPocketeer /\ m.about = o /\ m.recent
               /\ ~trouble' => m.stored /\ (listening = "mail" => m.told # {})
  BY PaymentNotice
<1> DEFINE next == Len(sent) + 1
<1>3. /\ DOMAIN sent' = DOMAIN sent \cup {next}
      /\ sent'[next] = m /\ next \notin DOMAIN sent
      /\ \A i \in DOMAIN sent : sent'[i] = sent[i]
  BY <1>2, SentStepKeeps DEF NotificationsTypeOK
<1> HIDE DEF next
<1> SUFFICES ASSUME Fresh'
             PROVE  PaymentInv'
  BY DEF PaymentInv
<1>4. Fresh /\ ~trouble'
  BY <1>1, <1>3 DEF Fresh
<1>5. work[e].pay \in [DOMAIN Outs -> {"none", "lookup", "store"}]
  BY DEF MonitorTyped, EventState
<1>6. /\ \A q \in DOMAIN Outs : work'[e].pay[q] = IF q = o THEN "none" ELSE work[e].pay[q]
      /\ \A f \in Event : work'[f].kind = work[f].kind
      /\ \A f \in Event, q \in DOMAIN Outs : f # e => work'[f].pay[q] = "none"
  BY <1>1, <1>5 DEF Touches, Quiet
<1>7. ~Outs[o].isChange
      /\ \A i \in DOMAIN sent : sent[i].type = "NewIncomingTx" => sent[i].about # o
  BY <1>1, <1>4 DEF PaymentInv
<1>8. ASSUME NEW i \in DOMAIN sent', sent'[i].type = "NewIncomingTx"
      PROVE  PaysOut(sent'[i])
  <2>1. CASE i = next
    BY <1>2, <1>3, <1>4, <1>7, <2>1 DEF PaysOut
  <2>2. CASE i \in DOMAIN sent
    BY <1>3, <1>4, <1>8, <2>2 DEF PaymentInv
  <2> QED
    BY <1>3, <2>1, <2>2
<1>9. ASSUME NEW i \in DOMAIN sent', NEW j \in DOMAIN sent', i # j,
             sent'[i].type = "NewIncomingTx", sent'[j].type = "NewIncomingTx"
      PROVE  sent'[i].about # sent'[j].about
  <2>1. CASE i \in DOMAIN sent /\ j \in DOMAIN sent
    <3>1. sent'[i] = sent[i] /\ sent'[j] = sent[j]
      BY <1>3, <2>1
    <3>2. sent[i].about # sent[j].about
      BY <1>4, <1>9, <2>1, <3>1 DEF PaymentInv
    <3> QED
      BY <3>1, <3>2
  <2>2. CASE i = next \/ j = next
    BY <1>2, <1>3, <1>7, <1>9, <2>2
  <2> QED
    BY <1>3, <2>1, <2>2
<1>10. ASSUME NEW f \in Event, NEW q \in DOMAIN Outs
       PROVE  /\ work'[f].pay[q] # "none" => ~Outs[q].isChange
              /\ work'[f].pay[q] = "store" =>
                   \A i \in DOMAIN sent' : sent'[i].type = "NewIncomingTx" => sent'[i].about # q
  <2> SUFFICES ASSUME work'[f].pay[q] # "none"
               PROVE  /\ ~Outs[q].isChange
                      /\ work'[f].pay[q] = "store" =>
                           \A i \in DOMAIN sent' :
                             sent'[i].type = "NewIncomingTx" => sent'[i].about # q
    OBVIOUS
  <2>1. f = e /\ q # o /\ work'[e].pay[q] = work[e].pay[q]
    BY <1>6
  <2>2. /\ ~Outs[q].isChange
        /\ work[e].pay[q] = "store" =>
             \A i \in DOMAIN sent : sent[i].type = "NewIncomingTx" => sent[i].about # q
    BY <1>4, <2>1 DEF PaymentInv
  <2> QED
    BY <1>2, <1>3, <2>1, <2>2
<1>11. ASSUME NEW f \in Event, NEW q \in DOMAIN Outs,
              work'[f].kind = "tx" /\ ~Outs[q].isChange
       PROVE  \/ \E i \in DOMAIN sent' :
                   sent'[i].type = "NewIncomingTx" /\ sent'[i].walletId = Outs[q].walletId
              \/ \E g \in Event, r \in DOMAIN Outs :
                   /\ Outs[r].walletId = Outs[q].walletId /\ work'[g].pay[r] # "none"
  <2>1. CASE \E i \in DOMAIN sent :
               sent[i].type = "NewIncomingTx" /\ sent[i].walletId = Outs[q].walletId
    BY <1>3, <2>1
  <2>2. ASSUME NEW g \in Event, NEW r \in DOMAIN Outs,
               Outs[r].walletId = Outs[q].walletId, work[g].pay[r] # "none"
        PROVE  \/ \E i \in DOMAIN sent' :
                    sent'[i].type = "NewIncomingTx" /\ sent'[i].walletId = Outs[q].walletId
               \/ work'[g].pay[r] # "none"
    <3>1. g = e
      BY <2>2 DEF Quiet
    <3>2. CASE r = o
      BY <1>2, <1>3, <2>2, <3>2
    <3>3. CASE r # o
      BY <1>6, <2>2, <3>1, <3>3
    <3> QED
      BY <3>2, <3>3
  <2> QED
    BY <1>4, <1>6, <1>11, <2>1, <2>2 DEF PaymentInv
<1> QED
  BY <1>8, <1>9, <1>10, <1>11 DEF PaymentInv, PaysOut

\* Every step of the monitor keeps it.
LEMMA PaymentStepKeeps ==
  ASSUME MonitorTyped, NotificationsTypeOK, NotesFit, Apart, OneAtATime, PaymentInv,
         MonitorNext
  PROVE  PaymentInv'
<1>1. UNCHANGED notificationVars =>
        /\ trouble => trouble'
        /\ \A i \in DOMAIN sent : i \in DOMAIN sent' /\ sent'[i] = sent[i]
        /\ \A i \in DOMAIN sent' : sent'[i].type = "NewIncomingTx" => i \in DOMAIN sent
  BY DEF notificationVars
<1>2. CASE NextDay
  <2>1. ~Fresh'
    BY <1>2, DayPassesStep DEF NextDay, DayPasses, Fresh
  <2> QED
    BY <2>1 DEF PaymentInv
<1>3. CASE BroadcastTx \/ ProcessBroadcast
  <2>1. UNCHANGED notificationVars /\ UNCHANGED work
    BY <1>3 DEF BroadcastTx, ProcessBroadcast
  <2>2. PaymentCalm
    BY <1>1, <2>1 DEF PaymentCalm
  <2> QED
    BY <2>2, PaymentCalmKeeps
<1>4. ASSUME NEW p \in Pocketeers, TxConfirmationSubscribe(p) \/ TxConfirmationUnsubscribe(p)
      PROVE  PaymentInv'
  <2>1. UNCHANGED notificationVars /\ UNCHANGED work
    BY <1>4 DEF TxConfirmationSubscribe, TxConfirmationUnsubscribe
  <2>2. PaymentCalm
    BY <1>1, <2>1 DEF PaymentCalm
  <2> QED
    BY <2>2, PaymentCalmKeeps
<1>5. ASSUME NEW e \in Event, EventStep(e)
      PROVE  PaymentInv'
  <2>1. \A f \in Event : f # e => work'[f] = work[f] /\ Quiet(f)
    BY <1>5, EventStepAlone
  <2>2. ASSUME trouble => trouble',
               \A i \in DOMAIN sent : i \in DOMAIN sent' /\ sent'[i] = sent[i],
               \A i \in DOMAIN sent' : sent'[i].type = "NewIncomingTx" => i \in DOMAIN sent,
               work'[e].pay = work[e].pay, work'[e].kind = "tx" => work[e].kind = "tx"
        PROVE  PaymentInv'
    <3>1. PaymentCalm
      BY <2>1, <2>2 DEF PaymentCalm
    <3> QED
      BY <3>1, PaymentCalmKeeps
  <2>3. CASE \/ FetchTx(e) \/ FetchTxAgain(e) \/ StoreBroadcasted(e)
             \/ NewBlock(e) \/ GetTxidsInBlock(e) \/ FetchSubs(e)
    <3>1. UNCHANGED notificationVars
      BY <2>3 DEF FetchTx, FetchTxAgain, StoreBroadcasted, NewBlock, GetTxidsInBlock, FetchSubs
    <3>2. work'[e].pay = work[e].pay /\ (work'[e].kind = "tx" => work[e].kind = "tx")
      BY <2>3, FetchTxDoes, FetchTxAgainDoes, StoreBroadcastedDoes, NewBlockDoes,
         GetTxidsInBlockDoes, FetchSubsDoes DEF Touches
    <3> QED
      BY <1>1, <2>2, <3>1, <3>2
  <2>4. ASSUME NEW p \in Pocketeers, StoreSub(e, p)
        PROVE  PaymentInv'
    <3>1. UNCHANGED notificationVars
      BY <2>4 DEF StoreSub
    <3>2. work'[e].pay = work[e].pay /\ (work'[e].kind = "tx" => work[e].kind = "tx")
      BY <2>4, StoreSubDoes DEF Touches
    <3> QED
      BY <1>1, <2>2, <3>1, <3>2
  <2>5. ASSUME NEW p \in Pocketeers, TellConfirmation(e, p)
        PROVE  PaymentInv'
    <3>1. PICK m : SentStep(m) /\ m.type = "TxConfirmation"
      BY <2>5, TellConfirmationDoes
    <3>2. /\ trouble => trouble'
          /\ work'[e].pay = work[e].pay /\ (work'[e].kind = "tx" => work[e].kind = "tx")
      BY <2>5, TellConfirmationDoes DEF Touches
    <3> QED
      BY <2>2, <3>1, <3>2, OtherNotice
  <2>6. CASE TellThirdParty(e)
    <3>1. PICK m : SentStep(m) /\ m.type = "NewOutgoingTxByThirdParty"
      BY <2>6, TellThirdPartyDoes
    <3>2. /\ trouble => trouble'
          /\ work'[e].pay = work[e].pay /\ (work'[e].kind = "tx" => work[e].kind = "tx")
      BY <2>6, TellThirdPartyDoes DEF Touches
    <3> QED
      BY <2>2, <3>1, <3>2, OtherNotice
  <2>7. CASE NotifyNewBlock(e)
    <3>1. PICK m : SentStep(m) /\ m.type = "NewBlock"
      BY <2>7, NotifyNewBlockDoes
    <3>2. /\ trouble => trouble'
          /\ work'[e].pay = work[e].pay /\ (work'[e].kind = "tx" => work[e].kind = "tx")
      BY <2>7, NotifyNewBlockDoes DEF Touches
    <3> QED
      BY <2>2, <3>1, <3>2, OtherNotice
  <2> QED
    BY <1>5, <2>1, <2>3, <2>4, <2>5, <2>6, <2>7, IncomingTxPays, LookupPays, TellPays
       DEF EventStep
<1>6. ASSUME NEW e \in Event, MonitorFails(e)
      PROVE  PaymentInv'
  BY <1>6, MonitorFailsDoes DEF PaymentInv, Fresh
<1> QED
  BY <1>2, <1>3, <1>4, <1>5, <1>6 DEF MonitorNext, EventStep

-----------------------------------------------------------------------------
(* Who is told.                                                             *)

\* Pocketeers tell of neither payments nor confirmations.
LEMMA PushTells ==
  ASSUME PushContext, PushNext
  PROVE  \/ UNCHANGED sent
         \/ \E m : SentStep(m) /\ m.type \notin {"NewIncomingTx", "TxConfirmation"}
<1>1. ASSUME NEW type \in ActType, NEW w \in Wallet, NEW q \in Pocketeer, Notify(type, w, q)
      PROVE  \E m : SentStep(m) /\ m.type \notin {"NewIncomingTx", "TxConfirmation"}
  <2>1. PICK m : SentStep(m) /\ m.type \in PocketeerType
    BY <1>1, NotifyDoes
  <2> QED
    BY <2>1 DEF PocketeerType
<1>2. ASSUME NEW p \in Process, NEW i \in 1..MaxSent,
             \/ SendPushNotifications(p, i) \/ GetRecipients(p, i) \/ FetchDevices(p, i)
             \/ \E d \in push[p][i].todo : MakeRequest(p, i, d)
             \/ PushDone(p, i) \/ PushFails(p, i)
      PROVE  UNCHANGED sent
  BY <1>2, Zenon DEF SendPushNotifications, GetRecipients, FetchDevices, MakeRequest, PushDone,
              PushFails, notificationVars
<1>3. ASSUME NEW q \in Pocketeer, NEW token \in Token,
             PushNotificationsSubscribe(q, token) \/ PushNotificationsUnsubscribe(q, token)
      PROVE  UNCHANGED sent
  BY <1>3 DEF PushNotificationsSubscribe, PushNotificationsUnsubscribe, notificationVars
<1>4. ASSUME NEW q \in Pocketeer, NEW opts \in SavablePreference, SavePreferences(q, opts)
      PROVE  UNCHANGED sent
  BY <1>4 DEF SavePreferences, notificationVars
<1> QED
  BY <1>1, <1>2, <1>3, <1>4 DEF PushNext

\* What happens outside the monitor keeps it, too.
LEMMA ElsewhereTells ==
  ASSUME NotificationsTypeOK, TellInv, UNCHANGED monitorVars, trouble => trouble', NEW m,
         \/ UNCHANGED sent
         \/ SentStep(m) /\ m.type \notin {"NewIncomingTx", "TxConfirmation"}
  PROVE  TellInv'
<1>1. UNCHANGED <<work, subs, asked>>
  BY DEF monitorVars
<1>2. OneAtATime'
  BY <1>1 DEF TellInv, OneAtATime, Quiet
<1>3. \A p : Confirmations(p)' = Confirmations(p)
  BY ConfirmationsKept
<1>4. ConfirmCalm
  BY <1>1, <1>3 DEF ConfirmCalm
<1>5. /\ \A i \in DOMAIN sent : i \in DOMAIN sent' /\ sent'[i] = sent[i]
      /\ \A i \in DOMAIN sent' : sent'[i].type = "NewIncomingTx" => i \in DOMAIN sent
  <2>1. CASE UNCHANGED sent
    BY <2>1
  <2>2. CASE SentStep(m) /\ m.type \notin {"NewIncomingTx", "TxConfirmation"}
    BY <2>2, OtherNotice
  <2> QED
    BY <2>1, <2>2
<1>6. PaymentCalm
  BY <1>1, <1>5 DEF PaymentCalm
<1> QED
  BY <1>2, <1>4, <1>6, ConfirmCalmKeeps, PaymentCalmKeeps DEF TellInv

\* Nobody is to be told of anything at first.
LEMMA InitTells == Init => TellInv
<1> SUFFICES ASSUME Init PROVE TellInv
  OBVIOUS
<1>1. /\ work = [e \in Event |-> NoEvent] /\ DOMAIN sent = {}
      /\ asked = [p \in Pocketeers |-> 0] /\ subs = [p \in Pocketeers |-> "none"]
  BY DEF Init, NotificationsInit, MonitorInit
<1>2. \A e \in Event :
        /\ work[e].kind = "none" /\ work[e].block = "none" /\ work[e].active = {}
        /\ work[e].third = "none" /\ work[e].newBlock = "none"
        /\ \A o \in DOMAIN Outs : work[e].pay[o] = "none"
        /\ \A p \in Pocketeers : work[e].confirm[p] = "none"
  BY <1>1 DEF NoEvent
<1>3. OneAtATime
  BY <1>2 DEF OneAtATime, Quiet
<1>4. PaymentInv
  BY <1>1, <1>2 DEF PaymentInv
<1>5. \A p : Confirmations(p) = 0
  BY <1>1, FS_EmptySet DEF Confirmations
<1>6. \A p \in Pocketeers : Stage(p) = "none" /\ AloneFor(p) = {}
  BY <1>2 DEF Stage, AloneFor
<1>7. \A p \in Pocketeers : AtMostAsked(Confirmations(p), Stage(p), subs[p], asked[p])
  BY <1>1, <1>5, <1>6 DEF AtMostAsked
<1>8. \A p \in Pocketeers :
        AtLeastAlone(Confirmations(p), Stage(p), Cardinality(AloneFor(p)))
  BY <1>5, <1>6, FS_EmptySet DEF AtLeastAlone
<1>9. ConfirmInv
  BY <1>2, <1>7, <1>8 DEF ConfirmInv
<1> QED
  BY <1>3, <1>4, <1>9 DEF TellInv

\* It holds in all behaviours whose events come one after the other.
LEMMA AllTell == ASSUME Apart PROVE Spec => []TellInv
<1>1. Typed /\ TellInv /\ [Next]_vars => TellInv'
  <2> SUFFICES ASSUME Typed, TellInv, [Next]_vars PROVE TellInv'
    OBVIOUS
  <2>1. MonitorTyped /\ NotificationsTypeOK /\ NotesFit /\ PushContext /\ EmailContext
    BY TypedSplit DEF Typed, PushContext, EmailContext
  <2>2. CASE MonitorNext
    BY <2>1, <2>2, ConfirmStepKeeps, PaymentStepKeeps DEF TellInv
  <2>3. CASE EmailNext /\ UNCHANGED monitorVars
    <3>1. UNCHANGED sent
      BY <2>1, <2>3, EmailStepFits
    <3>2. trouble => trouble'
      BY <2>3, EmailTrouble, Zenon
    <3> QED
      BY <2>1, <2>3, <3>1, <3>2, ElsewhereTells
  <2>4. CASE PushNext /\ UNCHANGED monitorVars
    <3>1. trouble => trouble'
      BY <2>1, <2>4, PushStepFits
    <3>2. \/ UNCHANGED sent
          \/ \E m : SentStep(m) /\ m.type \notin {"NewIncomingTx", "TxConfirmation"}
      BY <2>1, <2>4, PushTells
    <3> QED
      BY <2>1, <2>4, <3>1, <3>2, ElsewhereTells
  <2>5. CASE (FeedNext \/ TimePasses \/ UNCHANGED vars) /\ UNCHANGED monitorVars
    <3>1. UNCHANGED <<sent, trouble>>
      BY <2>5 DEF FeedNext, TimePasses, notificationVars, vars
    <3> QED
      BY <2>1, <2>5, <3>1, ElsewhereTells
  <2> QED
    BY <2>2, <2>3, <2>4, <2>5 DEF Next, vars
<1> QED
  BY <1>1, InitTells, Invariance, PTL DEF Spec

\* If events come one after the other, a pocketeer is told of a confirmation at
\* most as often as it subscribed, and if nothing fails, of every block that found
\* only this subscription (ConfirmationsTold).
THEOREM ConfirmationsAreTold == ASSUME Apart PROVE Spec => []ConfirmationsTold
<1>1. Typed /\ TellInv => ConfirmationsTold
  <2> SUFFICES ASSUME Typed, TellInv, NEW p \in Pocketeers
               PROVE  /\ Confirmations(p) <= asked[p]
                      /\ ~trouble /\ AllQuiet =>
                           Confirmations(p) >= Cardinality(AloneFor(p))
    BY DEF ConfirmationsTold, AloneFor
  <2>1. NotificationsTypeOK /\ asked[p] \in Nat /\ Confirmations(p) \in Nat
    BY TypedSplit, ConfirmationsFinite DEF Typed, MonitorTyped
  <2>2. Confirmations(p) <= asked[p]
    BY <2>1 DEF TellInv, ConfirmInv, AtMostAsked
  <2>3. ASSUME ~trouble, AllQuiet
        PROVE  Confirmations(p) >= Cardinality(AloneFor(p))
    <3>1. Stage(p) = "none"
      BY <2>3 DEF AllQuiet, Quiet, Stage
    <3>2. AtLeastAlone(Confirmations(p), Stage(p), Cardinality(AloneFor(p)))
      BY <2>3 DEF TellInv, ConfirmInv
    <3>3. Cardinality(AloneFor(p)) \in Nat
      BY AloneFinite
    <3> QED
      BY <2>1, <3>1, <3>2, <3>3 DEF AtLeastAlone
  <2> QED
    BY <2>2, <2>3
<1> QED
  BY <1>1, AllTell, Invariance, PTL

\* If events come one after the other and nothing fails, every wallet that the
\* transaction pays is told of it when its events are handled, and at most once for
\* each output, though an event is repeated (PaymentsTold).
THEOREM PaymentsAreTold == ASSUME Apart PROVE Spec => []PaymentsTold
<1>1. Typed /\ TellInv => PaymentsTold
  <2> SUFFICES ASSUME Typed, TellInv, ~trouble, AllQuiet,
                      NEW e \in Event, work[e].kind = "tx",
                      \A i \in DOMAIN sent : sent[i].recent,
                      NEW w \in Wallet
               PROVE  /\ Cardinality(Told("NewIncomingTx", w)) <= Cardinality(PayingOuts(w))
                      /\ PayingOuts(w) # {} => Cardinality(Told("NewIncomingTx", w)) >= 1
    BY DEF PaymentsTold
  <2> DEFINE told == Told("NewIncomingTx", w)
             outs == PayingOuts(w)
             about == [i \in told |-> sent[i].about]
  <2>1. /\ \A i \in told : PaysOut(sent[i]) /\ sent[i].walletId = w
        /\ \A i, j \in told : i # j => sent[i].about # sent[j].about
    BY DEF Told, TellInv, PaymentInv, Fresh
  <2>2. about \in Injection(told, outs)
    <3>1. about \in [told -> outs]
      BY <2>1 DEF PaysOut, PayingOuts
    <3> QED
      BY <2>1, <3>1 DEF Injection, IsInjective
  <2>3. IsFiniteSet(outs)
    BY OutsFit, FS_Subset DEF PayingOuts
  <2>4. ASSUME outs # {} PROVE told # {}
    <3>1. PICK o \in DOMAIN Outs : Outs[o].walletId = w /\ ~Outs[o].isChange
      BY <2>4 DEF PayingOuts
    <3>2. \A f \in Event, q \in DOMAIN Outs : work[f].pay[q] = "none"
      BY DEF AllQuiet, Quiet
    <3>3. \E i \in DOMAIN sent : sent[i].type = "NewIncomingTx" /\ sent[i].walletId = w
      BY <3>1, <3>2 DEF TellInv, PaymentInv, Fresh
    <3> QED
      BY <3>3 DEF Told
  <2> HIDE DEF told, outs, about
  <2>5. IsFiniteSet(told) /\ Cardinality(told) <= Cardinality(outs)
    BY <2>2, <2>3, FS_Injection
  <2>6. outs # {} => Cardinality(told) >= 1
    BY <2>4, <2>5, FS_EmptySet, FS_CardinalityType
  <2> QED
    BY <2>5, <2>6 DEF told, outs
<1> QED
  BY <1>1, AllTell, Invariance, PTL

=============================================================================

--------------------------- MODULE MonitorAndMail ---------------------------
(***************************************************************************)
(* The blockchain monitor, which makes notifications, the processes that   *)
(* mail or push them, and the clients that ask for them.                   *)
(***************************************************************************)
EXTENDS BlockchainMonitor, EmailService, PushService, NotificationFeed

\* What may happen: how many events and subscriptions come, the statuses of the
\* proposal's documents, whether processes listen, and the time at first.
CONSTANT Stories

\* Where nobody listens the time is over, as it does not matter.
ASSUME StoriesAssumption ==
  \A story \in Stories :
    /\ story.due \in [{"tx", "block", "subscribe"} -> Nat]
    /\ story.docs \in Seq({"accepted", "broadcasted"})
    /\ story.acts \in Nat
    /\ story.listening \in {"mail", "push", "poll", "none"}
    /\ story.clock \in 0..MaxClock

vars == <<notificationVars, emailVars, pushVars, feedVars, monitorVars>>

Init ==
  /\ NotificationsInit
  /\ EmailInit
  /\ \E story \in Stories :
       /\ listening = story.listening
       /\ clock = story.clock
       /\ MonitorInit(story.due, story.docs)
       /\ PushInit(story.acts)
       /\ FeedInit

Next ==
  \/ MonitorNext /\ UNCHANGED <<emailVars, pushVars, feedVars>>
  \/ listening = "mail" /\ EmailNext /\ UNCHANGED <<pushVars, feedVars, monitorVars>>
  \/ listening = "push" /\ PushNext /\ UNCHANGED <<emailVars, feedVars, monitorVars>>
  \/ listening = "poll" /\ FeedNext /\ UNCHANGED <<emailVars, pushVars, monitorVars>>
  \/ TimePasses /\ UNCHANGED <<emailVars, pushVars, feedVars, monitorVars>>

Spec == Init /\ [][Next]_vars

-----------------------------------------------------------------------------

\* The types of the variables of all the modules it extends.
TypeOK ==
  /\ NotificationsTypeOK
  /\ EmailTypeOK
  /\ PushTypeOK
  /\ FeedTypeOK
  /\ due \in [{"tx", "block", "subscribe"} -> Nat]
  /\ work \in [Event -> EventState]
  /\ docs \in Seq({"accepted", "broadcasted"})
  /\ ours \in {"no", "sent", "stored"}
  /\ subs \in [Pocketeers -> {"none", "active", "inactive"}]
  /\ asked \in [Pocketeers -> Nat]

Told(type, walletId) ==
  {i \in DOMAIN sent : sent[i].type = type /\ sent[i].walletId = walletId}

PayingOuts(w) == {o \in DOMAIN Outs : Outs[o].walletId = w /\ ~Outs[o].isChange}

\* Once the events of a transaction are handled, every wallet that it pays
\* was told of it, and not again for a repeated event of the same day
\* (_handleIncomingPayments), if nothing fails and events do not overlap
\* (Apart).
PaymentsTold ==
  /\ ~trouble /\ AllQuiet
  /\ \E e \in Event : work[e].kind = "tx"
  /\ \A i \in DOMAIN sent : sent[i].recent
  => \A w \in Wallet :
       LET told == Cardinality(Told("NewIncomingTx", w))
       IN  /\ told <= Cardinality(PayingOuts(w))
           /\ PayingOuts(w) # {} => told >= 1

\* What broadcastTx sends is never told as somebody else's, though the
\* explorer's event comes before the proposal is marked: the 20 seconds are
\* for that (_handleThirdPartyBroadcasts), if they are enough (Apart).
OursNotThirdParty ==
  ours # "no" =>
    \A i \in DOMAIN sent : sent[i].type # "NewOutgoingTxByThirdParty"

Confirmations(p) ==
  Cardinality({i \in DOMAIN sent : sent[i].type = "TxConfirmation" /\ sent[i].creatorId = p})

\* A pocketeer is told of a confirmation at most once for each time of
\* subscribing, whatever fails; and if nothing fails at least once for each
\* block that found only this subscription (_handleTxConfirmations).
ConfirmationsTold ==
  \A p \in Pocketeers :
    /\ Confirmations(p) <= asked[p]
    /\ ~trouble /\ AllQuiet =>
         Confirmations(p) >= Cardinality({e \in Event : work[e].active = {p}})

=============================================================================

-------------------------- MODULE NotificationFeed --------------------------
(***************************************************************************)
(* A client that asks for the notifications of its wallet: getNotifications *)
(* of lib/server.js.  It names the last one it has, and gets those of the  *)
(* wallet and of its network with a greater id.  Instances of              *)
(* WalletService and the monitor make ids from their clocks and tickers,   *)
(* and store the notifications some time later, in any order.              *)
(***************************************************************************)
EXTENDS Notifications

CONSTANTS
  FeedWallet,   \* the client's wallet
  MaxMade       \* bound: notifications made

ASSUME FeedAssumption ==
  /\ FeedWallet \in Wallet
  /\ MaxMade \in Nat

VARIABLES
  made,      \* the notifications, by the order they were made in
  asking,    \* the getNotifications call
  cursor,    \* the id the client names
  received   \* the notifications the client has, in the order they came

feedVars == <<made, asking, cursor, received>>

\* An id sorts by the time, and then by the ticker.  Bound: tickers 0 and 1.
Ids == 0..(2 * MaxClock + 1)
IdOf(time, ticker) == 2 * time + ticker
NoId == -1

Collections == {FeedWallet, Network}

\* late: stored when the client had gone past it, or was about to.
Draft == [id: Ids, walletId: Collections, stored: BOOLEAN, late: BOOLEAN]

NotAsking == [on |-> FALSE, since |-> NoId, unread |-> {}, found |-> {}]

FeedInit ==
  /\ made = << >>
  /\ asking = NotAsking
  /\ cursor = NoId
  /\ received = << >>

-----------------------------------------------------------------------------

\* Notification.create, in WalletService's _notify or in the monitor.
MakeNotification(w, ticker) ==
  /\ Len(made) < MaxMade
  /\ made' = Append(made, [id |-> IdOf(clock, ticker), walletId |-> w,
                           stored |-> FALSE, late |-> FALSE])
  /\ UNCHANGED <<asking, cursor, received>>

StoreNotification(k) ==
  /\ ~made[k].stored
  /\ made' = [made EXCEPT ![k] =
       [@ EXCEPT !.stored = TRUE,
                 !.late = \/ made[k].id <= cursor
                          \/ asking.on /\ made[k].walletId \notin asking.unread]]
  /\ UNCHANGED <<asking, cursor, received>>

GetNotifications ==
  /\ ~asking.on
  /\ asking' = [on |-> TRUE, since |-> cursor, unread |-> Collections, found |-> {}]
  /\ UNCHANGED <<made, cursor, received>>

\* fetchNotifications of the wallet and of its network, at the same time.
FetchNewer(w) ==
  /\ w \in asking.unread
  /\ asking' = [asking EXCEPT !.unread = @ \ {w},
       !.found = @ \cup {k \in DOMAIN made :
                           made[k].stored /\ made[k].walletId = w /\ made[k].id > asking.since}]
  /\ UNCHANGED <<made, cursor, received>>

\* In the order of their ids; those with the same id come in any order, as the
\* queries of the collections find them.
Sortings(found) ==
  {s \in [1..Cardinality(found) -> found] :
     /\ Range(s) = found
     /\ \A i, j \in DOMAIN s : i < j => s[i] # s[j] /\ made[s[i]].id <= made[s[j]].id}

\* Mistake: the network's follow the wallet's.
Concatenated(found) ==
  LET Of(w) == Sortings({k \in found : made[k].walletId = w})
  IN  {s \o t : s \in Of(FeedWallet), t \in Of(Network)}

ById(found) == Sortings(found)

\* The client takes them as they come; it will name the last one.
AnswerNotifications ==
  /\ asking.on /\ asking.unread = {}
  /\ \E answer \in ById(asking.found) :
       /\ received' = received \o answer
       /\ cursor' = IF answer = << >> THEN cursor ELSE made[answer[Len(answer)]].id
  /\ asking' = NotAsking
  /\ UNCHANGED made

\* An error of the storage, or no answer.
AskingFails ==
  /\ asking.on
  /\ asking' = NotAsking
  /\ UNCHANGED <<made, cursor, received>>

FeedNext ==
  /\ \/ \E w \in Collections, ticker \in 0..1 : MakeNotification(w, ticker)
     \/ \E k \in DOMAIN made : StoreNotification(k)
     \/ GetNotifications
     \/ \E w \in Collections : FetchNewer(w)
     \/ AnswerNotifications
     \/ AskingFails
  /\ UNCHANGED notificationVars

-----------------------------------------------------------------------------

FeedTypeOK ==
  /\ made \in Seq(Draft)
  /\ asking \in [on: BOOLEAN, since: Ids \cup {NoId}, unread: SUBSET Collections,
                 found: SUBSET (1..MaxMade)]
  /\ cursor \in Ids \cup {NoId}
  /\ received \in Seq(1..MaxMade)

\* A client that goes on from the last notification it has gets each one once
\* and in the order of their ids, and misses one only if that was stored when
\* the client had been given, or was about to be given, one with an id as
\* great (getNotifications, fetchNotifications): also when several instances
\* make ids in the same millisecond, and calls fail.
FeedComplete ==
  /\ \A i, j \in DOMAIN received :
       i < j => /\ received[i] # received[j]
                /\ made[received[i]].id <= made[received[j]].id
  /\ \A k \in DOMAIN made :
       made[k].stored /\ ~made[k].late /\ made[k].id <= cursor
         => k \in Range(received)

=============================================================================

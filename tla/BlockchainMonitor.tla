------------------------- MODULE BlockchainMonitor --------------------------
(***************************************************************************)
(* lib/blockchainmonitor.js: what it does when the explorer tells of a     *)
(* transaction and of a block that confirms it.  One transaction is        *)
(* followed: its outputs pay several wallets, it may be the transaction of *)
(* an accepted proposal, and pocketeers may have subscribed to it.  The    *)
(* explorer tells of it more than once: by reconnecting, for each of the   *)
(* monitor's sockets, or when a block is replaced.                         *)
(*                                                                         *)
(* An event starts threads of callbacks that share nothing but the         *)
(* database.  The resets of the history cache are in HistoryCache; what it *)
(* does to the active addresses is in BalanceCache.                        *)
(***************************************************************************)
EXTENDS Notifications

CONSTANTS
  Event,       \* slots for the events of the explorer
  Outs,        \* the outputs that pay stored addresses: records with the
               \* fields walletId and isChange
  Proposer,    \* the wallet of the proposal
  Subscriber,  \* of each wallet: the pocketeers that may subscribe
  Apart        \* whether events come one after the other, and not too soon

ASSUME MonitorAssumption ==
  /\ IsFiniteSet(Event)
  /\ Outs \in Seq([walletId: Wallet, isChange: BOOLEAN])
  /\ Proposer \in Wallet
  /\ Subscriber \in [Wallet -> SUBSET Pocketeer]
  /\ Apart \in BOOLEAN

VARIABLES
  due,       \* bound: how many of each kind are still to come
  work,      \* of each event: its threads
  docs,      \* the proposal's documents in the txs collection: their statuses
  ours,      \* where broadcastTx of WalletService is with the transaction
  subs,      \* the tx_confirmation_subs collection, for the transaction
  asked      \* history: how often a pocketeer subscribed

monitorVars == <<due, work, docs, ours, subs, asked>>

Pocketeers == UNION {Subscriber[w] : w \in Wallet}

WalletOf(p) == CHOOSE w \in Wallet : p \in Subscriber[w]

EventState ==
  [kind: {"none", "tx", "block"},
   pay: [DOMAIN Outs -> {"none", "lookup", "store"}],
   made: [DOMAIN Outs -> 0..MaxClock],        \* when the notification was made
   third: {"none", "fetch", "wait", "store", "tell"},
   block: {"none", "txids", "subs"},
   newBlock: {"none", "tell"},
   active: SUBSET Pocketeers,                 \* history: the subscriptions read
   confirm: [Pocketeers -> {"none", "store", "tell"}]]

NoEvent ==
  [kind |-> "none", pay |-> [o \in DOMAIN Outs |-> "none"],
   made |-> [o \in DOMAIN Outs |-> 0], third |-> "none", block |-> "none",
   newBlock |-> "none", active |-> {}, confirm |-> [p \in Pocketeers |-> "none"]]

Quiet(e) ==
  /\ \A o \in DOMAIN Outs : work[e].pay[o] = "none"
  /\ work[e].third = "none" /\ work[e].block = "none" /\ work[e].newBlock = "none"
  /\ \A p \in Pocketeers : work[e].confirm[p] = "none"

AllQuiet == \A e \in Event : Quiet(e)

\* A transaction of an accepted proposal, or of nobody's here.
MonitorInit(events, documents) ==
  /\ due = events
  /\ work = [e \in Event |-> NoEvent]
  /\ docs = documents
  /\ ours = "no"
  /\ subs = [p \in Pocketeers |-> "none"]
  /\ asked = [p \in Pocketeers |-> 0]

-----------------------------------------------------------------------------
(* WalletService and its clients.                                           *)

\* broadcastTx sends the transaction of an accepted proposal ...
BroadcastTx ==
  /\ docs = <<"accepted">>
  /\ ours = "no"
  /\ Apart => AllQuiet
  /\ ours' = "sent"
  /\ UNCHANGED <<notificationVars, due, work, docs, subs, asked>>

\* ... and _processBroadcast stores it; storeTx updates one document.
ProcessBroadcast ==
  /\ ours = "sent"
  /\ \E d \in DOMAIN docs : docs' = [docs EXCEPT ![d] = "broadcasted"]
  /\ ours' = "stored"
  /\ UNCHANGED <<notificationVars, due, work, subs, asked>>

TxConfirmationSubscribe(p) ==
  /\ due["subscribe"] > 0
  /\ due' = [due EXCEPT !["subscribe"] = @ - 1]
  /\ subs' = [subs EXCEPT ![p] = "active"]
  /\ asked' = [asked EXCEPT ![p] = @ + 1]
  /\ UNCHANGED <<notificationVars, work, docs, ours>>

TxConfirmationUnsubscribe(p) ==
  /\ subs[p] # "none"
  /\ subs' = [subs EXCEPT ![p] = "none"]
  /\ UNCHANGED <<notificationVars, due, work, docs, ours, asked>>

-----------------------------------------------------------------------------
(* _handleIncomingTx.                                                       *)

Begins(e, kind) ==
  /\ work[e].kind = "none"
  /\ due[kind] > 0
  /\ Apart => AllQuiet
  /\ due' = [due EXCEPT ![kind] = @ - 1]

\* A payment to a change address tells nobody.
IncomingTx(e) ==
  /\ Begins(e, "tx")
  /\ work' = [work EXCEPT ![e] =
       [@ EXCEPT !.kind = "tx",
                 !.pay = [o \in DOMAIN Outs |->
                            IF Outs[o].isChange THEN "none" ELSE "lookup"],
                 !.third = "fetch"]]
  /\ UNCHANGED <<notificationVars, docs, ours, subs, asked>>

\* Mistake: the wallet's notifications are not looked up.
NotifyAnyway(e, o) ==
  /\ work[e].pay[o] = "lookup"
  /\ work' = [work EXCEPT ![e].pay[o] = "store", ![e].made[o] = clock]
  /\ UNCHANGED <<notificationVars, due, docs, ours, subs, asked>>

\* Has the wallet been told of the transaction during the last day?  The
\* notification is made now, and stored after two other calls.
LookupNotified(e, o) ==
  /\ work[e].pay[o] = "lookup"
  /\ work' = [work EXCEPT ![e] =
       IF \E n \in FetchNotifications(Outs[o].walletId) : n.type = "NewIncomingTx"
       THEN [@ EXCEPT !.pay[o] = "none"]
       ELSE [@ EXCEPT !.pay[o] = "store", !.made[o] = clock]]
  /\ UNCHANGED <<notificationVars, due, docs, ours, subs, asked>>

TellPayment(e, o) ==
  /\ work[e].pay[o] = "store"
  /\ StoreAndBroadcast(
       [CreateNotification("NewIncomingTx", Outs[o].walletId, NoPocketeer, o)
          EXCEPT !.id = work[e].made[o]])
  /\ work' = [work EXCEPT ![e].pay[o] = "none", ![e].made[o] = 0]
  /\ UNCHANGED <<due, docs, ours, subs, asked>>

\* Mistake: the proposal is not looked up again after 20 seconds.
FetchTxOnce(e) ==
  /\ work[e].third = "fetch"
  /\ \/ docs = << >> /\ work' = [work EXCEPT ![e].third = "none"]
     \/ \E d \in DOMAIN docs :
          work' = [work EXCEPT ![e].third =
                     IF docs[d] = "accepted" THEN "store" ELSE "none"]
  /\ UNCHANGED <<notificationVars, due, docs, ours, subs, asked>>

\* fetchTxByHash: one document of the proposal, if there is one.
FetchTx(e) ==
  /\ work[e].third = "fetch"
  /\ \/ docs = << >> /\ work' = [work EXCEPT ![e].third = "none"]
     \/ \E d \in DOMAIN docs :
          work' = [work EXCEPT ![e].third =
                     IF docs[d] = "accepted" THEN "wait" ELSE "none"]
  /\ UNCHANGED <<notificationVars, due, docs, ours, subs, asked>>

\* 20 seconds later: time enough for a broadcastTx to be over.
FetchTxAgain(e) ==
  /\ work[e].third = "wait"
  /\ Apart => ours # "sent"
  /\ \E d \in DOMAIN docs :
       work' = [work EXCEPT ![e].third =
                  IF docs[d] = "accepted" THEN "store" ELSE "none"]
  /\ UNCHANGED <<notificationVars, due, docs, ours, subs, asked>>

\* Mistake: a status no proposal has.
StoreMisspelt(e) ==
  /\ work[e].third = "store"
  /\ docs' = Append(docs, "broadcast")
  /\ work' = [work EXCEPT ![e].third = "tell"]
  /\ UNCHANGED <<notificationVars, due, ours, subs, asked>>

\* The monitor has no walletId: the query asks for null, matches no document,
\* and the upsert inserts another one.
StoreBroadcasted(e) ==
  /\ work[e].third = "store"
  /\ docs' = Append(docs, "broadcasted")
  /\ work' = [work EXCEPT ![e].third = "tell"]
  /\ UNCHANGED <<notificationVars, due, ours, subs, asked>>

TellThirdParty(e) ==
  /\ work[e].third = "tell"
  /\ StoreAndBroadcast(
       CreateNotification("NewOutgoingTxByThirdParty", Proposer, NoPocketeer, 0))
  /\ work' = [work EXCEPT ![e].third = "none"]
  /\ UNCHANGED <<due, docs, ours, subs, asked>>

-----------------------------------------------------------------------------
(* _handleNewBlock.                                                         *)

NewBlock(e) ==
  /\ Begins(e, "block")
  /\ work' = [work EXCEPT ![e] =
       [@ EXCEPT !.kind = "block", !.newBlock = "tell", !.block = "txids"]]
  /\ UNCHANGED <<notificationVars, docs, ours, subs, asked>>

\* _notifyNewBlock.
NotifyNewBlock(e) ==
  /\ work[e].newBlock = "tell"
  /\ StoreAndBroadcast(CreateNotification("NewBlock", Network, NoPocketeer, 0))
  /\ work' = [work EXCEPT ![e].newBlock = "none"]
  /\ UNCHANGED <<due, docs, ours, subs, asked>>

GetTxidsInBlock(e) ==
  /\ work[e].block = "txids"
  /\ work' = [work EXCEPT ![e].block = "subs"]
  /\ UNCHANGED <<notificationVars, due, docs, ours, subs, asked>>

Active == {p \in Pocketeers : subs[p] = "active"}

\* indexBy keeps one of the transaction's subscriptions.
FetchSubs(e) ==
  /\ work[e].block = "subs"
  /\ \/ /\ Active = {}
        /\ work' = [work EXCEPT ![e].block = "none"]
     \/ \E p \in Active :
          work' = [work EXCEPT ![e].block = "none", ![e].active = Active,
                               ![e].confirm[p] = "store"]
  /\ UNCHANGED <<notificationVars, due, docs, ours, subs, asked>>

\* Mistake: the subscription stays active.
KeepSub(e, p) ==
  /\ work[e].confirm[p] = "store"
  /\ work' = [work EXCEPT ![e].confirm[p] = "tell"]
  /\ UNCHANGED <<notificationVars, due, docs, ours, subs, asked>>

\* Stored by an upsert, whatever became of the subscription meanwhile.
StoreSub(e, p) ==
  /\ work[e].confirm[p] = "store"
  /\ subs' = [subs EXCEPT ![p] = "inactive"]
  /\ work' = [work EXCEPT ![e].confirm[p] = "tell"]
  /\ UNCHANGED <<notificationVars, due, docs, ours, asked>>

TellConfirmation(e, p) ==
  /\ work[e].confirm[p] = "tell"
  /\ StoreAndBroadcast(CreateNotification("TxConfirmation", WalletOf(p), p, 0))
  /\ work' = [work EXCEPT ![e].confirm[p] = "none"]
  /\ UNCHANGED <<due, docs, ours, subs, asked>>

\* A storage or explorer call fails and ends its thread, or the monitor
\* stops, which ends all of them.
MonitorFails(e) ==
  /\ ~Quiet(e)
  /\ \/ \E o \in DOMAIN Outs : work' = [work EXCEPT ![e].pay[o] = "none"]
     \/ work' = [work EXCEPT ![e].third = "none"]
     \/ work' = [work EXCEPT ![e].block = "none"]
     \/ \E p \in Pocketeers : work' = [work EXCEPT ![e].confirm[p] = "none"]
     \/ work' = [f \in Event |->
                   [NoEvent EXCEPT !.kind = work[f].kind, !.active = work[f].active]]
  /\ work' # work
  /\ trouble' = TRUE
  /\ UNCHANGED <<listening, clock, sent, due, docs, ours, subs, asked>>

\* A day passes before the next event.
NextDay ==
  /\ due["tx"] > 0
  /\ DayPasses
  /\ UNCHANGED monitorVars

MonitorNext ==
  \/ NextDay
  \/ BroadcastTx
  \/ ProcessBroadcast
  \/ \E p \in Pocketeers : TxConfirmationSubscribe(p) \/ TxConfirmationUnsubscribe(p)
  \/ \E e \in Event :
       \/ IncomingTx(e)
       \/ \E o \in DOMAIN Outs : LookupNotified(e, o) \/ TellPayment(e, o)
       \/ FetchTx(e) \/ FetchTxAgain(e) \/ StoreBroadcasted(e) \/ TellThirdParty(e)
       \/ NewBlock(e) \/ NotifyNewBlock(e) \/ GetTxidsInBlock(e) \/ FetchSubs(e)
       \/ \E p \in Pocketeers : StoreSub(e, p) \/ TellConfirmation(e, p)
       \/ MonitorFails(e)

=============================================================================

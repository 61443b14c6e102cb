--------------------------- MODULE Notifications ----------------------------
(***************************************************************************)
(* Notifications: Notification.create of lib/model/notification.js, their  *)
(* collection (lib/storage.js), and the message broker, which tells every  *)
(* process of every notification that is sent.                             *)
(***************************************************************************)
EXTENDS SequencesExt

CONSTANTS
  Process,        \* the processes that listen to the broker
  Wallet,
  Pocketeer,
  Quorum,         \* of each wallet: m
  NoPocketeer,    \* the creator of a notification that nobody's act made
  MaxClock,       \* bound: milliseconds that pass
  MaxSent         \* bound: notifications sent

ASSUME NotificationsAssumption ==
  /\ MaxClock \in Nat
  /\ MaxSent \in Nat
  /\ Process # {}
  /\ NoPocketeer \notin Pocketeer
  /\ "network" \notin Wallet

VARIABLES
  listening,  \* which service the processes run, "mail" or "push", or "none";
              \* or whether a client polls ("poll")
  clock,      \* the time, in milliseconds
  sent,       \* the notifications in the order they were stored and sent
  trouble     \* history: something failed, was lost or stopped

notificationVars == <<listening, clock, sent, trouble>>

\* The types of the monitor, and those of WalletService that a pocketeer makes
\* and that are mailed or pushed.
PocketeerType == {"NewPocketeer", "WalletComplete", "NewTxProposal", "NewOutgoingTx",
                  "TxProposalFinallyRejected"}
Type == {"NewIncomingTx", "NewOutgoingTxByThirdParty", "TxConfirmation", "NewBlock"}
        \cup PocketeerType

\* The network's name stands in for the wallet of a global notification.
Network == "network"

\* stored, recent (less than a day old) and told are set when it is sent.
Notification ==
  [id: 0..MaxClock, type: Type, walletId: Wallet \cup {Network},
   creatorId: Pocketeer \cup {NoPocketeer}, about: Nat,
   stored: BOOLEAN, recent: BOOLEAN, told: SUBSET Process]

\* The id is the time, and the ticker, which only WalletService counts.
\* "about" stands for the data of the notification.
CreateNotification(type, walletId, creatorId, about) ==
  [id |-> clock, type |-> type, walletId |-> walletId, creatorId |-> creatorId,
   about |-> about, stored |-> TRUE, recent |-> TRUE, told |-> Process]

\* The message goes out whether the document was stored or not; processes
\* that are not connected to the broker miss it.  Bounds: where processes
\* listen every document is stored, which matters only to the next event, and
\* one process pushes, since those that push share nothing.
StoreAndBroadcast(n) ==
  /\ Len(sent) < MaxSent
  /\ \E stored \in IF listening # "none" THEN {TRUE} ELSE BOOLEAN,
        told \in CASE listening = "mail" -> {{}, Process}
                   [] listening = "push" -> {{p} : p \in Process}
                   [] OTHER -> {{}} :
       /\ sent' = Append(sent, [n EXCEPT !.stored = stored, !.told = told])
       /\ trouble' = (trouble \/ ~stored \/ (listening = "mail" /\ told = {}))
  /\ UNCHANGED <<listening, clock>>

\* fetchNotifications of the last day.
FetchNotifications(walletId) ==
  {sent[i] : i \in {j \in DOMAIN sent :
                      sent[j].walletId = walletId /\ sent[j].stored /\ sent[j].recent}}

TimePasses ==
  /\ listening # "none" /\ clock < MaxClock
  /\ clock' = clock + 1
  /\ UNCHANGED <<listening, sent, trouble>>

DayPasses ==
  /\ \E i \in DOMAIN sent : sent[i].recent
  /\ sent' = [i \in DOMAIN sent |-> [sent[i] EXCEPT !.recent = FALSE]]
  /\ UNCHANGED <<listening, clock, trouble>>

NotificationsInit ==
  /\ sent = << >>
  /\ trouble = FALSE

NotificationsTypeOK ==
  /\ listening \in {"mail", "push", "poll", "none"}
  /\ clock \in 0..MaxClock
  /\ sent \in Seq(Notification)
  /\ trouble \in BOOLEAN

=============================================================================

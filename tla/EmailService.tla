---------------------------- MODULE EmailService ----------------------------
(***************************************************************************)
(* lib/emailservice.js: every process is told of every notification, and   *)
(* under the lock 'email-<id>' the first one mails it to the wallet's      *)
(* pocketeers; the documents in the email queue tell the others that it is *)
(* done.                                                                   *)
(***************************************************************************)
EXTENDS Notifications

CONSTANTS
  Preferences,  \* of each wallet: its preference documents in their order,
                \* records with the fields pocketeerId and email
  Prompt,       \* whether no job keeps a lock for five minutes
  NoJob

Address == UNION {{Preferences[w][k].email : k \in DOMAIN Preferences[w]} : w \in Wallet}

Job == Process \X (1..MaxSent)

ASSUME EmailAssumption ==
  /\ Preferences \in [Wallet -> Seq([pocketeerId: Pocketeer, email: Address])]
  /\ Prompt \in BOOLEAN
  /\ NoJob \notin Job

VARIABLES
  job,       \* of each process: sendEmail for each notification
  lock,      \* the holder of the lock of each notification id
  emails,    \* the email_queue collection
  mails      \* history: how often a notification was mailed to an address

emailVars == <<job, lock, emails, mails>>

JobState ==
  [pc: {"idle", "fetch", "store", "drop", "send", "over"},
   todo: SUBSET Address,      \* the addresses to store or to send to
   toMark: SUBSET Address]    \* those whose result is not stored yet

Email == [notificationId: 0..MaxClock, job: Job, to: Address,
          status: {"pending", "sent", "fail"}]

\* EMAIL_TYPES.
EmailTypes == PocketeerType \cup {"NewIncomingTx", "TxConfirmation"}

\* A new proposal is not mailed where one signature is enough.
ShouldMail(n) ==
  n.type \in EmailTypes /\ (n.type = "NewTxProposal" => Quorum[n.walletId] > 1)

NotifyDoer(type) ==
  type \in {"WalletComplete", "NewOutgoingTx", "NewIncomingTx", "TxConfirmation"}
NotifyOthers(type) == type # "TxConfirmation"

NotifyAs(n, pocketeerId) ==
  IF n.creatorId = pocketeerId THEN NotifyDoer(n.type) ELSE NotifyOthers(n.type)

\* Mistake: who did it is not told, whatever the type.
OthersOnly(n) ==
  {Preferences[n.walletId][k].email :
     k \in {l \in DOMAIN Preferences[n.walletId] :
              n.creatorId # Preferences[n.walletId][l].pocketeerId}}

\* _getRecipientsList: the first pocketeer with an address stands for all
\* who have it, interested or not.
Recipients(n) ==
  LET prefs == Preferences[n.walletId]
      First(k) == \A l \in 1..(k - 1) : prefs[l].email # prefs[k].email
  IN  {prefs[k].email : k \in {l \in DOMAIN prefs :
                                 First(l) /\ NotifyAs(n, prefs[l].pocketeerId)}}

EmailInit ==
  /\ job = [p \in Process |-> [i \in 1..MaxSent |->
              [pc |-> "idle", todo |-> {}, toMark |-> {}]]]
  /\ lock = [id \in 0..MaxClock |-> NoJob]
  /\ emails = {}
  /\ mails = [i \in 1..MaxSent |-> [a \in Address |-> 0]]

-----------------------------------------------------------------------------

Over == [pc |-> "over", todo |-> {}, toMark |-> {}]

Released(p, i) == [id \in DOMAIN lock |-> IF lock[id] = <<p, i>> THEN NoJob ELSE lock[id]]

\* The callback of runLocked releases the lock, if it is still the job's.
Finish(p, i) ==
  /\ job' = [job EXCEPT ![p][i] = Over]
  /\ lock' = Released(p, i)

\* A message arrives: sendEmail of a type that is mailed, to somebody, takes
\* the lock; whoever waits for it for five seconds gives up.
SendEmail(p, i) ==
  LET id == sent[i].id
      wanted == ShouldMail(sent[i]) /\ Recipients(sent[i]) # {}
  IN  /\ i \in DOMAIN sent
      /\ p \in sent[i].told
      /\ job[p][i].pc = "idle"
      /\ IF wanted /\ lock[id] = NoJob
         THEN /\ lock' = [lock EXCEPT ![id] = <<p, i>>]
              /\ job' = [job EXCEPT ![p][i].pc = "fetch"]
         ELSE /\ job' = [job EXCEPT ![p][i] = Over]
              /\ UNCHANGED lock
      /\ UNCHANGED <<notificationVars, emails, mails>>

\* Mistake: only mails that were sent keep others from sending.
FetchSentEmail(p, i) ==
  /\ job[p][i].pc = "fetch"
  /\ IF \E e \in emails : e.notificationId = sent[i].id /\ e.status = "sent"
     THEN Finish(p, i)
     ELSE /\ job' = [job EXCEPT ![p][i] =
               [@ EXCEPT !.pc = "store", !.todo = Recipients(sent[i])]]
          /\ UNCHANGED lock
  /\ UNCHANGED <<notificationVars, emails, mails>>

\* fetchEmailByNotification finds the documents of whoever was here before.
\* The templates are read and applied before anything is stored.
FetchEmail(p, i) ==
  /\ job[p][i].pc = "fetch"
  /\ IF \E e \in emails : e.notificationId = sent[i].id
     THEN Finish(p, i)
     ELSE /\ job' = [job EXCEPT ![p][i] =
               [@ EXCEPT !.pc = "store", !.todo = Recipients(sent[i])]]
          /\ UNCHANGED lock
  /\ UNCHANGED <<notificationVars, emails, mails>>

\* storeEmail of all recipients at once; sending starts after the last.
StoreEmail(p, i, to) ==
  LET todo == job[p][i].todo \ {to}
  IN  /\ job[p][i].pc \in {"store", "drop"}
      /\ to \in job[p][i].todo
      /\ emails' = emails \cup {[notificationId |-> sent[i].id, job |-> <<p, i>>,
                                 to |-> to, status |-> "pending"]}
      /\ job' = [job EXCEPT ![p][i] =
           IF todo # {} THEN [@ EXCEPT !.todo = todo]
           ELSE IF job[p][i].pc = "drop" THEN Over
           ELSE [@ EXCEPT !.pc = "send", !.todo = Recipients(sent[i])]]
      /\ UNCHANGED <<notificationVars, lock, mails>>

\* One of them fails: the lock is released and nothing will be sent, while
\* the other stores go on.
StoreFails(p, i, to) ==
  LET todo == job[p][i].todo \ {to}
  IN  /\ job[p][i].pc \in {"store", "drop"}
      /\ to \in job[p][i].todo
      /\ job' = [job EXCEPT ![p][i] =
           IF todo = {} THEN Over ELSE [@ EXCEPT !.pc = "drop", !.todo = todo]]
      /\ lock' = Released(p, i)
      /\ trouble' = TRUE
      /\ UNCHANGED <<listening, clock, sent, emails, mails>>

\* The mailer takes the mail or answers with an error.
Send(p, i, to) ==
  /\ job[p][i].pc = "send"
  /\ to \in job[p][i].todo
  /\ \/ mails' = [mails EXCEPT ![i][to] = @ + 1] /\ UNCHANGED trouble
     \/ trouble' = TRUE /\ UNCHANGED mails
  /\ job' = [job EXCEPT ![p][i].todo = @ \ {to}, ![p][i].toMark = @ \cup {to}]
  /\ UNCHANGED <<listening, clock, sent, lock, emails>>

\* setSent or setFail, stored.  The lock is released after the last one, or
\* when one of these stores fails, while the others go on.
MarkSent(p, i, to) ==
  LET marked == {e \in emails : e.job = <<p, i>> /\ e.to = to}
      last == job[p][i].todo = {} /\ job[p][i].toMark = {to}
  IN  /\ to \in job[p][i].toMark
      /\ \/ /\ emails' = (emails \ marked) \cup
                 {[e EXCEPT !.status = IF mails[i][to] > 0 THEN "sent" ELSE "fail"] :
                    e \in marked}
            /\ lock' = IF last THEN Released(p, i) ELSE lock
            /\ UNCHANGED trouble
         \/ /\ trouble' = TRUE
            /\ lock' = Released(p, i)
            /\ UNCHANGED emails
      /\ job' = [job EXCEPT ![p][i] =
                   IF last THEN Over ELSE [@ EXCEPT !.toMark = job[p][i].toMark \ {to}]]
      /\ UNCHANGED <<listening, clock, sent, mails>>

\* A storage call or a template fails before the first store, before or after
\* the lock is taken.
EmailFails(p, i) ==
  /\ i \in DOMAIN sent
  /\ \/ job[p][i].pc = "idle" /\ p \in sent[i].told
     \/ job[p][i].pc = "fetch"
  /\ Finish(p, i)
  /\ trouble' = TRUE
  /\ UNCHANGED <<listening, clock, sent, emails, mails>>

\* The process stops, with all its jobs and unread messages; its locks stay.
Crash(p) ==
  /\ \E i \in DOMAIN sent : job[p][i].pc # "over"
  /\ job' = [job EXCEPT ![p] = [i \in 1..MaxSent |->
               IF i \in DOMAIN sent THEN Over ELSE @[i]]]
  /\ trouble' = TRUE
  /\ UNCHANGED <<listening, clock, sent, lock, emails, mails>>

\* Five minutes.
LockExpires(id) ==
  /\ lock[id] # NoJob
  /\ Prompt => job[lock[id][1]][lock[id][2]].pc = "over"
  /\ lock' = [lock EXCEPT ![id] = NoJob]
  /\ UNCHANGED <<notificationVars, job, emails, mails>>

EmailNext ==
  \/ \E p \in Process, i \in 1..MaxSent :
       \/ SendEmail(p, i)
       \/ FetchEmail(p, i)
       \/ \E to \in Address :
            \/ StoreEmail(p, i, to)
            \/ StoreFails(p, i, to)
            \/ Send(p, i, to)
            \/ MarkSent(p, i, to)
       \/ EmailFails(p, i)
  \/ \E p \in Process : Crash(p)
  \/ \E id \in 0..MaxClock : LockExpires(id)

-----------------------------------------------------------------------------

EmailTypeOK ==
  /\ job \in [Process -> [1..MaxSent -> JobState]]
  /\ lock \in [0..MaxClock -> Job \cup {NoJob}]
  /\ emails \subseteq Email
  /\ mails \in [1..MaxSent -> [Address -> Nat]]

\* However many processes are told, whatever fails and whoever stops, no
\* address gets a notification twice (sendEmail), if no job outlives its lock
\* (Prompt).
OneMailEach ==
  \A i \in 1..MaxSent, a \in Address : mails[i][a] <= 1

\* Everybody whose preferences ask for a notification of that kind.
Interested(n) ==
  {Preferences[n.walletId][k].email :
     k \in {l \in DOMAIN Preferences[n.walletId] :
              NotifyAs(n, Preferences[n.walletId][l].pocketeerId)}}

\* No other notification has its id, and where not everybody is told nobody
\* has an address that is also another's.
Distinct(i) ==
  /\ \A j \in DOMAIN sent : sent[j].id = sent[i].id => j = i
  /\ \/ NotifyDoer(sent[i].type) /\ NotifyOthers(sent[i].type)
     \/ \A k, l \in DOMAIN Preferences[sent[i].walletId] :
          Preferences[sent[i].walletId][k].email = Preferences[sent[i].walletId][l].email
            => k = l

\* When all processes are done with a notification and nothing failed, every
\* interested address has it, once; also when processes gave up waiting for
\* the lock.
AllMailed ==
  \A i \in DOMAIN sent :
    /\ ~trouble
    /\ ShouldMail(sent[i])
    /\ Distinct(i)
    /\ \A p \in Process : job[p][i].pc = "over"
    => \A a \in Interested(sent[i]) : mails[i][a] = 1

=============================================================================

----------------------------- MODULE PushService ----------------------------
(***************************************************************************)
(* lib/pushnotificationsservice.js: every process that runs it pushes a    *)
(* notification to the devices of the pocketeers it is for, each with the  *)
(* text in the pocketeer's language and the amounts in his unit.  It takes *)
(* no lock and stores nothing.                                             *)
(***************************************************************************)
EXTENDS Notifications

CONSTANTS
  Members,        \* of each wallet: its pocketeers, in their order
  CoinUnit,       \* of each wallet: its coin, if it is not btc, or Unset
  Token,          \* the devices
  Language,       \* the languages of the preferences and of the templates
  Unit,
  DefaultLanguage, DefaultUnit, Unset,
  InitialPreferences, InitialDevices,
  MaxEdits,       \* bound: subscriptions and preferences that change
  ActType         \* the types of what pocketeers do

ASSUME PushAssumption ==
  /\ Members \in [Wallet -> Seq(Pocketeer)]
  /\ \A w \in Wallet : \A k, l \in DOMAIN Members[w] :
       Members[w][k] = Members[w][l] => k = l
  /\ CoinUnit \in [Wallet -> Unit \cup {Unset}]
  /\ MaxEdits \in Nat
  /\ ActType \subseteq PocketeerType
  /\ Unset \notin Language \cup Unit
  /\ DefaultLanguage \in Language
  /\ DefaultUnit \in Unit
  /\ {"btc", "bit"} \subseteq Unit

Preference == [language: Language \cup {Unset}, unit: Unit \cup {Unset}]

ASSUME InitialAssumption ==
  /\ InitialPreferences \in [Pocketeer -> Preference]
  /\ InitialDevices \subseteq Pocketeer \X Token

VARIABLES
  preferenceOf,  \* the preferences collection: language and unit of a pocketeer
  devices,       \* the push_notification_subs collection
  edits,
  acts,          \* bound: what pocketeers still do
  push,          \* of each process: _sendPushNotifications for each notification
  pushed,        \* history: the requests that the push server took
  touched        \* history: who subscribed, unsubscribed or saved since the
                 \* first notification was sent

pushVars == <<preferenceOf, devices, edits, acts, push, pushed, touched>>

\* _getRecipientsList makes these of the preferences.
Recipient == [pocketeerId: Pocketeer, language: Language, unit: Unit]

\* A list of recipients keeps the positions of the wallet's pocketeers.
RecipientsList == UNION {[K -> Recipient] : K \in SUBSET UNION {DOMAIN Members[w] : w \in Wallet}}

PushState ==
  [pc: {"idle", "recipients", "devices", "send", "over"},
   recipients: RecipientsList,
   todo: SUBSET (Pocketeer \X Token)]    \* the requests to make

PushInit(deeds) ==
  /\ acts = deeds
  /\ preferenceOf = InitialPreferences
  /\ devices = InitialDevices
  /\ edits = 0
  /\ push = [p \in Process |-> [i \in 1..MaxSent |->
               [pc |-> "idle", recipients |-> << >>, todo |-> {}]]]
  /\ pushed = {}
  /\ touched = {}

-----------------------------------------------------------------------------
(* WalletService.                                                           *)

\* _notify, for what a pocketeer did; the ticker of its instance is zero.
Notify(type, w, q) ==
  /\ acts > 0
  /\ acts' = acts - 1
  /\ q \in Range(Members[w])
  /\ StoreAndBroadcast(CreateNotification(type, w, q, 0))
  /\ UNCHANGED <<preferenceOf, devices, edits, push, pushed, touched>>

OrDefault(value, default) == IF value = Unset THEN default ELSE value

Touch(q) ==
  /\ edits < MaxEdits
  /\ edits' = edits + 1
  /\ touched' = IF sent = << >> THEN touched ELSE touched \cup {q}

PushNotificationsSubscribe(q, token) ==
  /\ Touch(q)
  /\ devices' = devices \cup {<<q, token>>}
  /\ UNCHANGED <<notificationVars, preferenceOf, acts, push, pushed>>

PushNotificationsUnsubscribe(q, token) ==
  /\ Touch(q)
  /\ <<q, token>> \in devices
  /\ devices' = devices \ {<<q, token>>}
  /\ UNCHANGED <<notificationVars, preferenceOf, acts, push, pushed>>

\* savePreferences takes these units; the coin of another chain is none.
SavablePreference == [language: Language \cup {Unset}, unit: {"btc", "bit", Unset}]

\* savePreferences, under the wallet's lock: what is not given stays.
SavePreferences(q, opts) ==
  /\ Touch(q)
  /\ preferenceOf' = [preferenceOf EXCEPT ![q] =
       [language |-> OrDefault(opts.language, preferenceOf[q].language),
        unit |-> OrDefault(opts.unit, preferenceOf[q].unit)]]
  /\ UNCHANGED <<notificationVars, devices, acts, push, pushed>>

-----------------------------------------------------------------------------
(* _sendPushNotifications.                                                  *)

PushTypes == (PocketeerType \cup {"NewIncomingTx", "TxConfirmation"})
NotifyCreatorOnly(type) == type = "TxConfirmation"

\* A new proposal is not pushed where one signature is enough.
ShouldSend(n) ==
  n.type \in PushTypes /\ (n.type = "NewTxProposal" => Quorum[n.walletId] > 1)

\* Mistake: whoever made the notification gets it, too.
PushedToAll(n, q) == NotifyCreatorOnly(n.type) => q = n.creatorId

PushedTo(n, q) == (q = n.creatorId) <=> NotifyCreatorOnly(n.type)

RecipientOf(w, q, preference) ==
  [pocketeerId |-> q,
   language |-> OrDefault(preference.language, DefaultLanguage),
   unit |-> OrDefault(CoinUnit[w], OrDefault(preference.unit, DefaultUnit))]

\* A message arrives.
SendPushNotifications(p, i) ==
  /\ i \in DOMAIN sent
  /\ p \in sent[i].told
  /\ push[p][i].pc = "idle"
  /\ push' = [push EXCEPT ![p][i].pc = IF ShouldSend(sent[i]) THEN "recipients" ELSE "over"]
  /\ UNCHANGED <<notificationVars, preferenceOf, devices, edits, acts, pushed, touched>>

\* _getRecipientsList: when the preferences cannot be read, all are unset.
GetRecipients(p, i) ==
  LET w == sent[i].walletId
      members == {k \in DOMAIN Members[w] : PushedTo(sent[i], Members[w][k])}
      none == [language |-> Unset, unit |-> Unset]
  IN  /\ push[p][i].pc = "recipients"
      /\ \E fails \in BOOLEAN :
           /\ push' = [push EXCEPT ![p][i] =
                [@ EXCEPT !.pc = "devices",
                          !.recipients = [k \in members |->
                             RecipientOf(w, Members[w][k],
                               IF fails THEN none ELSE preferenceOf[Members[w][k]])]]]
           /\ trouble' = (trouble \/ fails)
      /\ UNCHANGED <<listening, clock, sent, preferenceOf, devices, edits, acts, pushed, touched>>

\* The contents are made for each recipient and filed by language: those of
\* the last recipient with a language are for all of them.
ContentUnit(recipients, language) ==
  recipients[Max({k \in DOMAIN recipients : recipients[k].language = language})].unit

\* fetchPushNotificationSubs of all recipients, which are sent at once.
FetchDevices(p, i) ==
  /\ push[p][i].pc = "devices"
  /\ push' = [push EXCEPT ![p][i] =
       [@ EXCEPT !.pc = "send",
                 !.todo = {d \in devices :
                             \E k \in DOMAIN push[p][i].recipients :
                               push[p][i].recipients[k].pocketeerId = d[1]}]]
  /\ UNCHANGED <<notificationVars, preferenceOf, devices, edits, acts, pushed, touched>>

\* _makeRequest for all of them at once; an error is only logged.
MakeRequest(p, i, d) ==
  LET recipients == push[p][i].recipients
      language == recipients[CHOOSE k \in DOMAIN recipients :
                               recipients[k].pocketeerId = d[1]].language
  IN  /\ push[p][i].pc = "send"
      /\ \/ /\ pushed' = pushed \cup
                 {[by |-> p, about |-> i, pocketeerId |-> d[1], to |-> d[2],
                   language |-> language, unit |-> ContentUnit(recipients, language)]}
            /\ UNCHANGED trouble
         \/ trouble' = TRUE /\ UNCHANGED pushed
      /\ push' = [push EXCEPT ![p][i].todo = @ \ {d}]
      /\ UNCHANGED <<listening, clock, sent, preferenceOf, devices, edits, acts, touched>>

PushDone(p, i) ==
  /\ push[p][i].pc = "send"
  /\ push[p][i].todo = {}
  /\ push' = [push EXCEPT ![p][i] = [@ EXCEPT !.pc = "over", !.recipients = << >>]]
  /\ UNCHANGED <<notificationVars, preferenceOf, devices, edits, acts, pushed, touched>>

\* A storage call or a template fails, or the process stops.
PushFails(p, i) ==
  /\ push[p][i].pc \notin {"idle", "over"}
  /\ push' = [push EXCEPT ![p][i] = [pc |-> "over", recipients |-> << >>, todo |-> {}]]
  /\ trouble' = TRUE
  /\ UNCHANGED <<listening, clock, sent, preferenceOf, devices, edits, acts, pushed, touched>>

PushNext ==
  \/ \E type \in ActType, w \in Wallet, q \in Pocketeer : Notify(type, w, q)
  \/ \E q \in Pocketeer, token \in Token :
       PushNotificationsSubscribe(q, token) \/ PushNotificationsUnsubscribe(q, token)
  \/ \E q \in Pocketeer, opts \in SavablePreference : SavePreferences(q, opts)
  \/ \E p \in Process, i \in 1..MaxSent :
       \/ SendPushNotifications(p, i)
       \/ GetRecipients(p, i)
       \/ FetchDevices(p, i)
       \/ \E d \in push[p][i].todo : MakeRequest(p, i, d)
       \/ PushDone(p, i)
       \/ PushFails(p, i)

-----------------------------------------------------------------------------

PushTypeOK ==
  /\ preferenceOf \in [Pocketeer -> Preference]
  /\ devices \subseteq Pocketeer \X Token
  /\ edits \in 0..MaxEdits
  /\ acts \in Nat
  /\ push \in [Process -> [1..MaxSent -> PushState]]
  /\ pushed \subseteq [by: Process, about: 1..MaxSent, pocketeerId: Pocketeer,
                       to: Token, language: Language, unit: Unit]
  /\ touched \subseteq Pocketeer

\* The pocketeers a notification is for, by the types and the wallet's size.
Audience(n) ==
  {q \in Range(Members[n.walletId]) :
     /\ n.type = "TxConfirmation" => q = n.creatorId
     /\ n.type # "TxConfirmation" => q # n.creatorId
     /\ n.type = "NewTxProposal" => Quorum[n.walletId] > 1}

Wanted(w, q) == RecipientOf(w, q, preferenceOf[q])

\* When a process is done with a notification and nothing failed, it was
\* pushed to all devices of all it is for, and to no others, in the language
\* and the unit of each (_getRecipientsList, _readAndApplyTemplates): as long
\* as these pocketeers change nothing meanwhile, and those who share a
\* language share the unit too.
PushedAsPreferred ==
  \A i \in DOMAIN sent, p \in Process :
    LET n == sent[i]
        w == n.walletId
        audience == Audience(n)
        mine == {x \in pushed : x.by = p /\ x.about = i}
        uniform == \A q, r \in audience :
                     Wanted(w, q).language = Wanted(w, r).language
                       => Wanted(w, q).unit = Wanted(w, r).unit
    IN  ~trouble /\ listening = "push" /\ push[p][i].pc = "over" /\ n.type \in PushTypes
          /\ audience \cap touched = {}
        => /\ {<<x.pocketeerId, x.to>> : x \in mine}
                = {d \in devices : d[1] \in audience}
           /\ \A x \in mine :
                /\ x.language = Wanted(w, x.pocketeerId).language
                /\ uniform => x.unit = Wanted(w, x.pocketeerId).unit

=============================================================================

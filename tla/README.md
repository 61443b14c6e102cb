# apocket-api in TLA+

Specifications of the server in this repository (a multi-signature wallet
service forked from Bitcore Wallet Service), checked with TLC; the properties of
the runs that hold are proved with TLAPS, too, but for the two that are liveness. Source lines of every definition are in `PROJECT.json`
("map"); hazards, runs, mutants and theorems are listed there too.

## 1. The system

Several node processes run the same code and share one MongoDB, one locker
server (`locker/`), one message broker (`messagebroker/`) and the Insight
explorers. A single-process set-up uses `lib/locallock.js` and an in-process
broker. A request is a chain of callbacks; between two of them any other request
may run, in the same process or another one. MongoDB has no transactions here:
almost every write replaces a whole document that the handler read before.

| Component | State | Operations | Talks to |
|---|---|---|---|
| Transaction proposals (`lib/server.js`, `lib/model/txproposal.js`) | `txs` collection | createTx, publishTx, signTx, rejectTx, broadcastTx, removePendingTx, getPendingTxs | lock, explorer, addresses, notifications, history cache |
| Wallet lock (`lib/lock.js`, `lib/locallock.js`) | a queue for each token | locked, release, two timers | every locked handler, the email service |
| Wallets and pocketeers | `wallets`, `pocketeers_lookup` | createWallet, joinWallet, addAccess, removeWallet | lock, notifications |
| Addresses and scan | `addresses`, the address manager and `scanStatus` in the wallet document | createAddress, change addresses, scan, startScan | lock, explorer |
| Blockchain monitor (`lib/blockchainmonitor.js`) | none of its own | transaction and block events | `txs`, notifications, caches |
| Notifications and broker | `notifications`, an instance's `notifyTicker` | _notify, getNotifications, send | email and push services, clients |
| Email service | `email_queue` | sendEmail | lock, mailer |
| Push service | `push_notification_subs`, `preferences` | _sendPushNotifications, subscribe, savePreferences | push server |
| Input selection and fees | none; reads the explorer and `txs` | createTx's options, getFeeLevels, getSendMaxInfo, _selectTxInputs, _canCreateTx | explorer, bitcore |
| History, balance and height caches | `cache`, process memory | getTxHistory, getBalance, _getBlockchainHeight, resets | explorer |
| Sessions, notes, fiat rates, statistics, REST front end | one collection each, or none | single upserts and reads | |

Locked handlers: joinWallet, savePreferences, createAddress (its gap check is
before the lock), createTx, publishTx, editTxNote, removeWallet, removePendingTx,
scan. **Not locked**: createWallet, addAccess, signTx, rejectTx, broadcastTx,
getPendingTxs, startScan, the subscriptions and the monitor.

What is hard, and what must be right:

* Proposals: votes and broadcasts are read-modify-write without a lock; a store
  may come after the proposal was rejected, broadcast, or removed. Statuses must
  be justified by votes, a proposal marked broadcasted must be on the network,
  nothing may go out short of signatures, and pending proposals must not share
  an output.
* Lock: two timers race with the release; one task at a time, nobody overtakes,
  nobody is forgotten.
* Wallets: two collections are written one after the other, with crashes between,
  locks that expire and removals that outlive the request; memberships and keys must
  not be taken back, a pocketeer is in one wallet.
* Addresses: insert, then store the index; the gap limit is checked before the
  lock; a scan rewinds indices, and may take longer than the lock lasts. No address twice for two purposes, none lost.
* Money: whatever the estimates and the client's options, the inputs must pay for
  amounts and fee, and nobody who can pay may be refused.
* Monitor, notifications, mails, pushes: once each, although several processes and
  events are told of the same thing; a client that polls must miss none silently.
* Caches: read, replaced and cleared by overlapping calls without a lock. No stale
  page, height or balance may be taken for good.

## 2. Modules

| Module | What it is |
|---|---|
| `TxProposal` | the proposal document: votes, `_updateStatus`, `requiredRejections` (operators only) |
| `TxService` | the proposal handlers over `txs`, `lock`, `chain` and the handlers under way, `req` |
| `TxServiceProofs` | their theorems and proofs |
| `Lodash` | what the models take from lodash: `_.filter`, `_.takeRight` |
| `DataLemmas` | facts about numbers, induction and filtered sequences that several proofs cite |
| `Lease` | abstract: what `runLocked` promises for one token |
| `LocalLock`, `LocalLockProofs` | `lib/locallock.js`; refines `Lease` for every token |
| `WalletRegistry`, `WalletRegistryProofs` | wallets, pocketeers, lookup entries and their keys |
| `AddressBook`, `AddressBookProofs` | addresses, indices, the gap limit, change addresses, scan |
| `HistoryCache` | the pages of getTxHistory and their cache |
| `BalanceCache` | getBalance in one step or two, and the active addresses |
| `HeightCache` | the height of the blockchain that a process remembers |
| `WalletCaches`, `WalletCachesProofs` | the three caches, composed |
| `Notifications` | the notifications that are stored and sent to every process |
| `BlockchainMonitor` | what the explorer's events start, for one transaction |
| `EmailService` | the processes that mail the notifications |
| `PushService` | the processes that push them, the devices and the preferences |
| `NotificationFeed` | a client that polls getNotifications |
| `MonitorAndMail`, `MonitorAndMailProofs` | these four, composed over `Notifications` |
| `FeeLevels` | getFeeLevels from the explorer's estimates (operators only) |
| `UtxoSelection` | _selectTxInputs, getSendMaxInfo, _checkTx (operators only) |
| `TxFunding`, `TxFundingProofs` | how a request for a proposal gets amount, fee and inputs |
| `MC...` | instances and the scenarios of the runs |

### TxService

`txs[id]` is the stored document, or `NoTx`. `req[r]` is a handler: where it waits
(`pc`), what it does (`op`), the copy of the document it holds (`txp`), the UTXOs
it has read (`utxos`) and the accepted proposals it has yet to look up (`todo`). One
action is the code from one callback to the next storage or explorer call:

* `SignTx`, `RejectTx`: fetchTx, the checks, the vote on the copy; `StoreTx` is the
  `storeTx` at the end. In between anything may happen.
* `BroadcastTx`, then `BroadcastSucceeds` or `BroadcastErrs` (with or without the
  transaction having gone out), then `CheckTxFinds`; `Mark` is `setBroadcasted`.
* `GetUtxos`, `FetchPendingTxs`, `MarkBroadcasted` / `NotOnNetwork` /
  `LookupFails` for each accepted proposal in any order, and `Available` are
  `_getUtxosForCurrentWallet` with the `getPendingTxs` it calls. `LookupFails`
  keeps what `async.each` does: the request is answered and its lock released,
  the other lookups go on.
* `CreateTx`, `SelectInputs`; `PublishTx`, `CheckInputs`; `RemovePendingTx`,
  `RemoveTx` run between `Acquire` and `Return`.
* `Fail`: a call answers with an error or the process stops. `LockExpires`: the
  locker gives the lock on after five minutes while the handler goes on.
* `chain` is the network: it refuses double spends (`Conflicts`). The explorer may
  lag behind it (`GetUtxos` sees any part of it; `NotOnNetwork` may be wrong).
  `ThirdPartyBroadcast` is anybody else sending the signed transaction.

Abstracted: amounts, fees, scripts, which inputs are selected (any non-empty set of
available ones), signature bytes (a signature is an accept vote; bitcore refuses one
too many), txids (what is spent and who signed). A BIP32/ECDSA check that fails
changes nothing and is not an action. The wallet is complete and is not removed.
`Available` takes all broadcasted proposals; the code fetches the last hundred of one
day (`lib/server.js:1173`), and relies on the explorer for older ones. No property is
about outputs that were spent longer ago than that.

### LocalLock and Lease

`tasks[token]` is the queue, `running` the tasks with `running: true`; `called` and
`finished` say what became of each call. `locked()`, a timer and a release are one
step each, with the `_runOne` they end in, since node runs them without a break.
`BodyThrows` is the callback that throws before `release()`. The refinement mapping
`LeaseState(k)` reads the state of the lease of token `k` off these; `IsLease` says
that every step of the lock is a step of each token's lease or leaves it alone.

### WalletRegistry

`storeWalletAndUpdatePocketeersLookup` is three actions: `RemoveLookups`,
`InsertLookups`, `StoreWallet`. `Fail` between them leaves the half-done state in the
database. `RemoveFrom` is `storage.removeWallet`, whose parts run in parallel;
`RemovalErrs` is one of them that answers with an error, and so ends the request and
gives the lock back, while those that are `left` run on. `LockExpires` gives the lock
on after five minutes (`lib/lock.js:33`); its holder goes on, and its release is then
without effect. `late`, a history variable, marks these: requests that go on without
the lock they had. The uncaught exceptions of addAccess are `Fail`. Every wallet has
the same n; a dry run changes nothing and is left out; so are notifications.

### AddressBook

`wallet` holds the next index of each branch, `singleAddress` and `scanStatus`;
`addresses` is ordered as `fetchAddresses` orders it. `active` is what the explorer
knows of activity: any addresses to begin with (a wallet restored with its keys), and
later those given out (`given`, a history variable). `ScanBranch` is one step
although it asks the explorer for one address after another: payments only go to
given addresses, which lie behind the index it scans from (but where handlers overlap
without the lock; there only `AddressesStored` is claimed, which is about any end of
the scan). `LockExpires` and `late` are as in `WalletRegistry`: a scan that asks for
many addresses is the handler most likely to outlive its lock. `ScanEnd` reads the wallet
again, as the code does. BIP45 pocketeer branches are not modelled. The proposal that
createTx stores after its change address is in `TxService`.

### HistoryCache

`items` are the `historyCache` documents (position from the oldest transaction ->
transaction) and `status` is `totalItems` of the status document. `req[r]` is one
getTxHistory: it reads the status, then the items, or asks the explorer, stores the
items one by one in any order and then the status. Payments, deepening
confirmations, the resets that follow payments and broadcasts, and a scan run
beside it. The transactions that only the scan's addresses have are `"found"` in
the `ledger`. `mishaps` records which of the things in `Mishap` happened; `Modes`
is the set of those that a run lets happen together. A transaction is its
position in the ledger: classification, notes and amounts are left out. A store that
`async.each` leaves running after another one failed (`lib/storage.js:746`) is a store
before `Return` here, so a request counts as over when its stores are; next to a scan
that makes a difference, and the runs that hold do not let these overlap. `covered`,
a history variable, is how much of the ledger the cache must know: what was told of
before the last reset, or nothing once a page fetched before a reset is marked up to
date after it.

### BalanceCache, HeightCache, WalletCaches

A balance is the set of addresses it counts. `active` is the keys of the
`activeAddresses` documents, with `NullKey` for the one that marks an empty cache as
there, and `Letter` for the characters that `_updateActiveAddresses` stores (it
passes a string where a list belongs, `lib/blockchainmonitor.js:214`, so the address
that was paid is not cached). `balance[c]` is one getBalance: the cache, then all
addresses, then the explorer; the answer, and 1 ms later the whole again, whose
result replaces the cache (`CleanRemove`, `CleanInsert`, one `StoreActive` for each
address) and goes out as a notification if it differs. `stray` are upserts that
outlive a call that failed. The outputs that pending proposals lock, which are part
of a balance, are in `TxService`.

`heightCall[r]` is one `_getBlockchainHeight`: cached, or asked with the time it
began, which is the age the answer gets whenever it comes (`HeightComes`). The
notification of a block clears the cache (`HearBlock`) unless it is lost.

`WalletCaches` composes the three; they share no state, so a behaviour follows one
(`story`), which keeps the state space a sum and not a product.

### Notifications, BlockchainMonitor, EmailService, PushService, NotificationFeed, MonitorAndMail

`sent` is the sequence of notifications; `stored`, `recent` and `told` are set when
one is sent (`StoreAndBroadcast` sends it whether the store succeeded or not, as
the callback without an error argument does). An id is the clock's millisecond:
the monitor gives no ticker, so two notifications can have one id.

`work[e]` are the threads of callbacks that event `e` started: one for each paid
output (`pay`), the third-party check with its 20 seconds (`third`), the block's
notification and its confirmations. They share nothing but the database: `sent`,
`docs` (the proposal's documents: there can be two, since the monitor's `storeTx`
has no wallet id), `subs`. `BroadcastTx` and `ProcessBroadcast` are our own
broadcastTx, which the explorer's event races with.

`job[p][i]` is `sendEmail` of process p for notification i: the lock
`email-<id>`, the look at `emails`, all stores in parallel, all sends in parallel,
each with its mark. `ShouldMail` is `_checkShouldSendEmail` (no story mails a
NewTxProposal; some push it). `StoreFails` and a failed `MarkSent` release the lock while the
other stores and sends go on, as `async.map` and `async.each` do. `Crash` ends all
jobs of a process; its locks stay until `LockExpires`.

`push[p][i]` is `_sendPushNotifications` of process p for notification i: the
recipients with the languages and units of their preferences, the contents by
language (`ContentUnit`: of two recipients with one language the last one's unit is
for both, `lib/pushnotificationsservice.js:276`), the devices, one request for each.
Subscriptions and preferences change beside it.

`NotificationFeed` has drafts: `made` have their id, and are stored later, in any
order. Ids sort by the clock and then the ticker, and may be equal, since instances
have tickers of their own. `asking` is one getNotifications, which reads the wallet's
and the network's notifications at the same time.

`trouble` is a history variable: something failed, stopped, or was not heard. What
must happen is claimed without it, what must not happen (`OneMailEach`, the first
half of `ConfirmationsTold`, `OursNotThirdParty`, `FeedComplete`) with it. `Stories`
are the initial states: repeated events and lost documents without anybody
`listening`, one event whose notifications are mailed or pushed, a pocketeer's deed
that is pushed, a client that polls. That splits the state space; nothing is read by
two of them but `sent`.

### FeeLevels, UtxoSelection, TxFunding

`TxService` takes any available inputs; these modules say which. `Funds` are the
outputs a wallet may have, `Request` the requests that may come. `opts` is what the
client asked for, as the handler completes it; `req` goes through `Validate`,
`SendMax` (getSendMaxInfo, which sets amount and inputs), `ValidateOutputs`,
`CanCreateTx` (the backoff), `GetFeePerKb` and `SelectInputs`. Between two of them the
explorer's `estimates` may change, and `SendMax` and `GetFeePerKb` read them
separately. `TellSendMaxInfo` and `CreateAsTold` are a client that asks for
getSendMaxInfo (which has checks of its own for the fee options) and then names inputs
and fee itself. `Descending` is any sequence of the outputs sorted by value: of equal
values the code's order depends on the order the explorer lists them in. Fees inside the selection are
thousandths of a satoshi, so that the fractions the code computes with are exact.
Not modelled: `validateOutputs: false` (`lib/server.js:2028`), with which a client may
ask for amounts that are refused elsewhere. sendMax without any output throws in the
code (`lib/server.js:2011`) and is refused with the other invalid options here.
bitcore's part (`ChangeOf`, the errors `CheckTx` looks for) is external.

The properties compare with definitions over all subsets of the outputs, and so say
where the code's heuristics stop. What they leave out, because the code does not do
it: a wallet may be told TX_MAX_SIZE_EXCEEDED although one big output would pay (the
small ones reach the amount with the very input that is too many, so that select
does not fall back on it); createTx with sendMax and a fee level other than `normal` fails
when that level costs something else, since getSendMaxInfo is called without it
(`lib/server.js:2016`); the same for a 1-of-1 wallet with P2SH addresses, since
getSendMaxInfo's proposal has no address type. `SendMaxIsMax` allows for the 2 per
cent that the estimate adds to the inputs after they were chosen.

## 3. Runs

| Run | Instance | Shows |
|---|---|---|
| `tx_races` | 2-of-3, 1 output, 1 proposal, 2 requests; all interleavings, failures, lock expiry | `TypeOK`, `StoredWellVoted`, `InFlight`, `BroadcastedIsOnNetwork`, `NetworkHasQuorum` |
| `tx_polite` | 2-of-2, 2 outputs, 2 proposals, 2 requests, `PoliteSpec` | `InputsLocked`, `AllVotesDecide`, `VotesKept` |
| `tx_noticed` | 1-of-2, 1 output, 1 proposal, 2 requests, `FairSpec` | `BroadcastNoticed` |
| `tx_doublelock` | 2-of-3, 1 output, 2 proposals | **violated**: `InputsLocked` |
| `local_lock` | 3 calls, 2 tokens, every mix of timers | `HeadRuns`, `OverlapOnlyExpired`, `AnsweredOnce`, the refinement `IsLease`, the liveness `EveryCallAnswered` |
| `wallets_polite` | 2 wallets of 2, 3 pocketeers, 2 keys, MAX_KEYS 1, 2 requests; failures, lock expiry, removals that run on; `PoliteSpec` | `TypeOK` (with what makes a wallet well-formed), `MembersKept`, `LookupsSettled` |
| `wallets_twice` | 2 wallets, 1 pocketeer | **violated**: `OneWalletEach` |
| `addresses` | gap 1, scan gap 2, 3 main and 1 change address, 4 documents, 2 requests; failures, lock expiry; `PoliteSpec` | `AddressesStored`, `GivenBehindIndex`, `GapBounded`, `ScanFindsAll` |
| `history` | one story at a time: 3 transactions, pages of 2, 2 getTxHistory; 2 addresses, 1 movement of funds, 2 getBalance; 2 blocks, 4 minutes, 2 questions | `TypeOK`, `ItemsInPlace`, `PageCoversResets`, `BalanceSettles`, `PartialCovers`, `HeightFresh` |
| `history_scan` | the same with a scan that overlaps the requests | **violated**: `PageOfReadAddresses` |
| `monitor_mail` | 2 wallets, 4 pocketeers, 3 outputs, 2 events, 2 processes, 4 notifications, 2 milliseconds; `Apart`, `Prompt` | `TypeOK`, `OneMailEach`, `AllMailed`, `PaymentsTold`, `OursNotThirdParty`, `ConfirmationsTold`, `PushedAsPreferred`, `FeedComplete` |
| `funding` | every wallet of 3 outputs with values of 5 kinds, 13 requests, 3 sets of estimates | `WellFunded`, `RefusedOnlyIfPoor`, `ConfirmedFirst`, `SendMaxIsMax`, `SendMaxCreates` |

Why the bounds are enough: each hazard here is a race of two handlers over one or two
documents; a third request only repeats a role. 2-of-3 is the smallest wallet with
votes left after the quorum and with both outcomes open. Two proposals and two
outputs are what it takes for one to lock, and the other to take, an output. Three
tasks are what it takes for a late release to hit the successor while another waits.
A gap of 1 and a scan gap of 2 make "reached", "exceeded" and "a hole in the activity"
all happen within three addresses. Three transactions and pages of two make full,
clipped and empty pages, before and behind the cached ones. Two events are what it
takes for the second to find what the first left; two processes for one to find
the other's lock or mails. Two addresses, of which one
exists at first, and a threshold of two are the least with which a balance changes
from one step to two and a cache is partial; two calls, for one to replace what the
other reads. Three minutes with a cache time of one are what it takes for an answer
to be late by more than its age; two blocks, for two heights to come out of order.
Three drafts are what it takes for one to be stored behind two others. Three outputs
are the least with a small one, a better one and a big one; the largest size is cut
to 700 bytes and the values to five, so that every break of the selection happens.
The proofs of section 5 remove these bounds for
the properties they are about. Symmetry is used over interchangeable identities, and never with liveness.
`MaxResets` is one: a second reset under way would do what the first does, and a page
that it overtakes exists with one. The bounds on indices and documents (`MaxIndex`, `MaxAddresses`) only end behaviours;
`local_lock` stops when every call was made, hence no deadlock check there.

`PoliteSpec` restricts *clients*, and is the scenario a wallet's users are in as a rule:
in `TxService`, while somebody's vote or removal of a proposal is under way nobody
else's handler rewrites that proposal, and no handler keeps the lock for five minutes;
in `WalletRegistry` and `AddressBook` a handler without the lock has its wallet for
itself (`AloneIfUnlocked`): one that takes none (createWallet, addAccess), one whose five
minutes are over, and a removeWallet that answered with an error while its other
removals run on. Such a handler goes on to its end, and what it leaves is judged; the next
one comes after it. Locked handlers, failures and broadcasts interleave freely. Without
the restriction the same properties are false:

* `MembersKept`, `LookupsSettled`: a join that outlived its lock stores its old copy over a
  member who joined meanwhile; a removal of lookup entries that is still under way lands
  between the entries that a later join inserts and the wallet it stores.
* `GivenBehindIndex`, `ScanFindsAll`: a createAddress that outlived its lock
  stores an older index, and an address that was given is derived again; one that
  overlaps with a late scan takes the index back before the scan reports success. In
  the code nothing prevents this: a scan has no bound on its time. (Of `GapBounded` TLC
  has found no such counterexample; its proof counts on one handler at a time.) The types of
  `WalletRegistry` and `AddressesStored` hold all the same, and are proved for
  `Spec`.

* `tx_doublelock`: a vote is read, the proposal is rejected by the others, a second
  proposal is published on the freed output, then the vote is stored: both pending.
  `VotesKept` fails in the same way (one vote overwrites another, or a stale store
  takes a status back).
* `history_scan`: a scan clears the cache and then stores the addresses it found. A
  getTxHistory that read the addresses before and stores its page after leaves
  items under positions counted without them, marked up to date. The items outlive
  every later reset, which drops only the status. `ItemsInPlace` and
  `PageCoversResets` hold as long as scans and requests do not overlap.
* `wallets_twice` needs no unlocked handler: two joins hold two different locks.

`monitor_mail` assumes `Apart` (events of one transaction come one after the other,
and a broadcastTx ends within the monitor's 20 seconds) and `Prompt` (no job keeps a
lock for five minutes). Without them a wallet is told once for each overlapping
event, our own transaction is told as a third party's, and an address may get a
mail twice. The bound in `PaymentsTold` is one notification for each output and
not one for each wallet: two outputs that pay one wallet are looked up before either
is stored. `AllMailed` is claimed for notifications that share their id with no
other, and where nobody told alone shares an address with somebody else:
`_getRecipientsList` marks an address as used before it looks at who is interested.
`ConfirmationsTold` promises a notification only where a block finds a single
subscription (`indexBy` drops the others).

`PushedAsPreferred` is claimed for recipients who change nothing while a notification
is pushed, and its unit only where those who share a language share the unit. One
process pushes; the service takes no lock, so each process that ran it would push
again. `FeedComplete` says which notifications a client misses: those stored after it
has, or is about to get, one with an id as great. `PartialCovers` is claimed outside
the replacement of the cache; within it a partial balance may lack addresses, and
`BalanceSettles` says that the second step makes up for it.
`HeightFresh` counts a block from when its notification came while no question was
open: an answer that was asked for earlier fills the cache again, but with its age.

The types of `LocalLock`, `AddressBook` and `TxFunding` are definitions that no run
lists; they are parts of inductive invariants (that of `TxFunding` without the names of
the fee levels, which the prover cannot show to be strings).

Mutants: for each property, `PROJECT.json` names a plausible mistake (marked
`Mistake:` in the modules, beside the definition it replaces) that makes the run fail.

## 4. Fairness

`TxService!FairSpec`: every handler under way takes its next step (weak fairness of
`Handler`; an error is such a step, so nothing is said about success), clients keep
polling (strong fairness of `GetPendingTxs`: clients do so for as long as a wallet is
open, and again when it is opened), and of the polls that could, some succeed (strong
fairness of the fetch and of `MarkBroadcasted`: the explorer does not answer each
lookup with an error or stale data for ever). Nobody is assumed to vote, publish, or
broadcast.

`LocalLock!FairSpec`: timers fire (weak fairness). Nothing is assumed of the bodies,
so `EveryCallAnswered` is claimed only where a wait timer, or a max timer on every
call, is there; `lib/lock.js` always sets both.

## 5. Proofs

The proofs hold for every value of the constants that the named assumptions allow:
any number of requests, calls, processes, proposals, outputs, addresses, blocks and
notifications, and every interleaving, failure, crash and expiry that the models have.
The assumptions say little more than that the identities are distinct, the bounds
natural numbers, and the sets finite where something is counted or summed (the requests
of `AddressBook`, the outputs of `TxFunding`). `SelectionAssumption` and
`FundingAssumption` say of the constants of `lib/common/defaults.js` what their values
have: the smallest output is not zero nor below bitcore's dust, the factor for big
inputs is not zero, there is a `normal` fee level; and of a request, that its options
and its wallet are well-typed. Where a property needs one of the scenarios of section 3, the theorem
is about that behaviour (`PoliteSpec`) or assumes that constant (`Prompt`, `Apart`):
without it TLC shows the property false.

| Module | Theorem | States |
|---|---|---|
| `TxServiceProofs` | `VotesStayWell`, `EveryVoteCastDecides` | the operators of a proposal |
| | `TypeCorrect`, `VotesJustifyStatus`, `CopiesFit`, `BroadcastedWasSent`, `SignedByQuorum`, `NoTie` | `Spec`: `TypeOK`, `StoredWellVoted`, `InFlight`, `BroadcastedIsOnNetwork`, `NetworkHasQuorum`, `AllVotesDecide` |
| | `InputsStayApart`, `VotesStay` | `PoliteSpec`: `InputsLocked`, `VotesKept` |
| `LocalLockProofs` | `TypeCorrect`, `FirstRuns`, `OverlapNeedsExpiry`, `AnswersStand`, `ImplementsLease` | `Spec`: `TypeOK`, `HeadRuns`, `OverlapOnlyExpired`, `AnsweredOnce`, `IsLease` |
| `WalletRegistryProofs` | `TypeCorrect` | `Spec`: `TypeOK` |
| | `MembersStay`, `LookupsAreSettled` | `PoliteSpec`: `MembersKept`, `LookupsSettled` |
| `AddressBookProofs` | `AllStored` | `Spec`: `AddressesStored` |
| | `GivenStayBehind`, `ScansFindAll`, `GapStaysBounded` | `PoliteSpec`: `GivenBehindIndex`, `ScanFindsAll`, `GapBounded` |
| `WalletCachesProofs` | `TypesHold`, `ItemsStayInPlace`, `PagesCoverResets`, `HeightsAreFresh`, `BalancesSettle`, `PartialsCover` | `Spec`: `TypeOK`, `ItemsInPlace`, `PageCoversResets`, `HeightFresh`, `BalanceSettles`, `PartialCovers` |
| `MonitorAndMailProofs` | `TypeCorrect`, `FeedMissesNone`, `PushesAreRight` | `Spec`: `TypeOK`, `FeedComplete`, `PushedAsPreferred` |
| | `NobodyTwice`, `EverybodyMailed` | with `Prompt`: `OneMailEach`, `AllMailed` |
| | `OursStaysOurs`, `PaymentsAreTold`, `ConfirmationsAreTold` | with `Apart`: `OursNotThirdParty`, `PaymentsTold`, `ConfirmationsTold` |
| `TxFundingProofs` | `FundingIsWhole`, `RefusalsAreRight`, `ConfirmedGoFirst`, `NobodyGetsMore`, `AllOfItGoes` | `Spec`: `WellFunded`, `RefusedOnlyIfPoor`, `ConfirmedFirst`, `SendMaxIsMax`, `SendMaxCreates` |

### The inductive invariants, and why they are needed

Almost every handler replaces a whole document by a copy it read some callbacks ago.
So none of the properties of the documents is inductive alone: each needs what the
copies are worth at the moment they are stored.

* `TxServiceProofs` (`IInv`): `TypeOK`, `StoredWellVoted`, `InFlight`,
  `BroadcastedIsOnNetwork`, `NetworkHasQuorum`. `InFlight` says what every held copy
  satisfies *by itself*, whatever happened to the document since it was read. That is
  why unlocked handlers are harmless to these properties.
* The same module, for `PoliteSpec` (`PInv`): `InputsLocked` relates two documents, and `VotesKept`
  a document to its past, so a copy that is sound by itself is not enough. `CopyFits`
  relates each copy to the document stored now; `Writes` says from it what a store can
  change; `LockKept` says that whoever found inputs available holds the lock until
  its proposal is stored. `VotesAlone` is the scenario.
* `LocalLockProofs` (`IInv`): a queue has a task once and only tasks of its token
  (`_.without` removes all equal ones), who runs was called with the lock and who
  waits with nothing, and a body at work that does not run lost its token to a max
  timer. `ImplementsLease` maps each step, of whichever token, to a step of the
  lease or to a stutter.
* `WalletRegistryProofs`: `IInv` says that stored documents and copies are sound, and that
  who took a lock and is not `late` holds it (`LockHeld`); with `AloneIfUnlocked`, who works
  on a wallet is then alone on it. `PInv` says from this that the copy is the document with
  the handler's own change, and which lookup entries have been removed or inserted so far.
* `AddressBookProofs`: for `AddressesStored` it is enough that what a copy counts is
  stored or will be before the copy is, because no address is ever removed (`IInv`).
  For the others the copy must not be *behind* the document, which needs that one
  handler at a time changes it, with the lock or after it (`PInv`: `LockKept`, `Fits`), and of a scan, what it
  has found active so far on each branch. Without the lock the steps cannot be
  proved, and TLC has the counterexample (the mutant `CreateUnlocked`).
  `GapBounded` is a property of the end of the address list that several handlers
  push together, and no handler can know the others. `GInv` counts: for every index
  behind the activity, the unused addresses given from there on, and the handlers that
  passed the gap check or would pass it now, are together at most the limit plus the
  number of requests less one. A handler that inserts moves from the second count to
  the first. It needs that the documents of a branch are stored in the order of their
  indices and that the next one given is the one inserted last.
* `WalletCachesProofs`: `HistoryInv` says of each getTxHistory that the positions it reads,
  or the page it answers, are the page's at some total since the last reset it knows
  of, and that every item it is about to store is in its place; of the cache, that its
  items are, and its status counts from the last reset; and that a scan has the cache for
  itself and empties it before it stores addresses. `HeightInv` carries the heights at which minutes began, which rise,
  and for each question the minute it was asked in and the blocks it may miss.
  `BalanceInv` says of each call what it read, what of the cache it has replaced and
  what can still change its answer.
* `MonitorAndMailProofs`: `Typed` says what jobs, pushes and answers are *about*; no step
  takes back a notification that was sent (`SentKept`), so each component's invariant
  survives the others' steps. `MailInv`: who fetches or stores holds the lock, who
  stores found nothing stored before, who sends is the only one for its id (ids can
  coincide, and then two notifications share lock and queue). `MailedInv`: as long as
  nothing failed, a lock is held only by who works, and whoever is over left somebody who
  works or the mails. `ThirdInv`: once we sent, no thread is past its second look at
  the proposal. `PushInv`: of each device of a recipient, the request is made or is still
  to do. `FeedInv`: what a client has, and what its open request has still to give it.
  `TellInv`: one event at a time; of an output nobody is told twice, a thread about to tell is
  the first to, and for each wallet that a transaction pays there is a notification or a
  thread that has yet to tell; and for each pocketeer, the confirmations told, one that is
  under way and a subscription that is stored are together at most the times it subscribed.
* `TxFundingProofs` has most of its weight in the operators. A sum over a set is proved to be
  an element and the sum of the rest, whichever is taken first; sequences sorted by
  value exist, and the first k outputs of one are worth as much as any k. From that: if any
  set of outputs pays, so do as many of the largest, every prefix up to them leaves
  more, and so the breaks of `select` (too small, too expensive, a fee share) come too
  late to refuse it (`Filled`). For getSendMaxInfo, one more input that pays for itself
  raises what is left, so the largest that fit are the best but for the 2 per cent and the
  roundings, which `Margin` bounds. `FInv` is about the request: what it carries of
  getSendMaxInfo is a result for its outputs (`InfoHolds`), its amount and inputs are
  that result's (`AllSent`) at that rate (`FoundAt`), its outputs are above the dust
  threshold when there is a proposal, and the proposal has the wallet's and the
  client's numbers (`Proposed`).

TLC checked each of these invariants on the instance of the component's run before it
was proved.

### Only model-checked

* `BroadcastNoticed` and `EveryCallAnswered`: liveness is out of the prover's reach.
* The types of `AddressBook` and `TxFunding` in full; see section 3.
* The three runs that expect a violation are counterexamples on one instance.

`Filter`, the sums, the fee levels and the sorted sequences are recursive functions or
folds over `CHOOSE`. The library's induction theorems take an operator and cannot be used
here; `DataLemmas!Induction` takes a *set* of numbers instead, closed under successors,
which its proof gets from the least number outside of it, and `SubsetInduction` the same
for the subsets of a finite set. With them a recursive function is first shown to exist,
and so to satisfy its equation.

The proofs corrected the models where they could not go through. `ValidateOutputs` is
decided by the first invalid output; `TellSendMaxInfo` refuses options that
getSendMaxInfo refuses; a client that names what it was told does not ask for sendMax as
well; and `SendMaxCreates` leaves out a transaction that is too big *with* its output and
the 2 per cent, which getSendMaxInfo does not count, or whose fee is more than bitcore
takes: such inputs are found and then refused.

To be provable, the models name intermediate sets and records rather than nest an `@` in
an `EXCEPT` of an `EXCEPT` (tlapm 1.4.5 reads a nested `@` as the outer one), and keep
the positions of a list where the code compacts it (`RecipientsList`).

## 6. Plan

Done: the modules of section 2 and the proofs of section 5; every safety property of a
run that holds is a theorem. Left, in this order:

1. Sessions (two logins that overlap), and `RequestList`'s fail-over to the next explorer.
2. editTxNote, and the notes that a proposal's broadcast stores.
3. A single specification of `TxService` with `TxFunding` in the place of its free choice of
   inputs, and the proof that it implements `TxService`.
4. The fallback of `select` for transactions that are too big (section 2, `TxFunding`): a
   property that says exactly who is told TX_MAX_SIZE_EXCEEDED.

## 7. Not modelled

* Cryptography, scripts, addresses of outputs, BIP45 pocketeer branches.
* Templates, wording, the time span of getNotifications, notes of transactions, how
  getTxHistory classifies transactions.
* Sessions: one document for each pocketeer; two logins that overlap leave one of
  two clients without a session.
* Statistics (reads), fiat rates, the REST routing, the bitcored service wrapper, the
  explorer client and the broker's and locker's servers: the models take any answer,
  delay or loss they can cause.

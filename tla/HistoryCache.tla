---------------------------- MODULE HistoryCache ----------------------------
(***************************************************************************)
(* The cached transaction history of one wallet: getTxHistory of           *)
(* lib/server.js over the documents 'historyCache' and                     *)
(* 'historyCacheStatus' of lib/storage.js.                                 *)
(*                                                                         *)
(* A page fetched from the explorer is stored item by item, each under its *)
(* position from the oldest transaction, and then the status document with *)
(* the total.  A page is answered from the cache when the status is there  *)
(* and every item of the page is.  Payments and broadcasts drop the        *)
(* status, and a scan drops the items too, before it stores the addresses  *)
(* it found; getTxHistory takes no lock.                                   *)
(***************************************************************************)
EXTENDS Lodash

CONSTANTS
  MaxTx,        \* bound: transactions of the wallet
  MaxResets,    \* bound: resets under way
  PageSize,     \* the limits clients ask for
  Modes,        \* the sets of mishaps to consider
  Request       \* slots for the getTxHistory calls under way

\* What may go wrong: a scan overlaps a getTxHistory, the removal at the start
\* of a scan fails, or createAddress gives out an address that
\* was used before (a wallet made again from its keys, and not scanned).
Mishap == {"scanOverlaps", "clearFails", "usedAddress"}

ASSUME HistoryCacheAssumption ==
  /\ MaxTx \in Nat
  /\ MaxResets \in Nat
  /\ PageSize \subseteq Nat \ {0}
  /\ Modes \subseteq SUBSET Mishap

VARIABLES
  ledger,   \* the wallet's transactions by age: whether the address is stored
            \* from the start ("listed") or found by a scan ("found")
  deep,     \* how many have CONFIRMATIONS_TO_START_CACHING confirmations
  found,    \* whether the found address is stored
  resets,   \* the resets that events of the network still have to make
  items,    \* the historyCache documents: position -> transaction
  status,   \* totalItems of the historyCacheStatus document, or NoStatus
  scan,     \* where the scan is
  covered,  \* history: the total at the last reset, or 0 when a page fetched
            \* before that reset was stored after it
  req,
  mishaps

historyVars == <<ledger, deep, found, resets, items, status, scan, covered, req, mishaps>>

NoStatus == -1

\* The history the explorer gives for the stored addresses, oldest first; a
\* transaction is its index in the ledger.
HistoryOf(withFound) ==
  Filter([i \in DOMAIN ledger |-> i],
         {i \in DOMAIN ledger : withFound \/ ledger[i] = "listed"})

History == HistoryOf(found)

\* The items from .. to - 1 of a history, counted from the newest.
PageOf(history, from, to) ==
  LET n == Len(history)
      first == IF n < to THEN 1 ELSE (n - to) + 1
  IN  Reverse(SubSeq(history, first, n - from))

RequestState ==
  [pc: {"idle", "readStatus", "readItems", "fetch", "store", "answer"},
   from: Nat, to: Nat,
   withFound: BOOLEAN,        \* the addresses it read
   low: Nat, high: Nat,       \* the positions to read from the cache
   total: Nat,                \* totalItems of the explorer
   todo: SUBSET ((0..(MaxTx - 1)) \X (1..MaxTx)),   \* positions and items to store
   txs: Seq(1..MaxTx),        \* the page, when it is from the cache
   covered: Nat]              \* history: covered when it read the status, or
                              \* fetched the page

Idle == [pc |-> "idle", from |-> 0, to |-> 0, withFound |-> FALSE, low |-> 0,
         high |-> 0, total |-> 0, todo |-> {}, txs |-> << >>, covered |-> 0]

AllIdle == \A r \in Request : req[r].pc = "idle"

HistoryInit ==
  /\ ledger = << >>
  /\ deep = 0
  /\ found = FALSE
  /\ resets = 0
  /\ items = [p \in {} |-> 0]
  /\ status = NoStatus
  /\ scan = "idle"
  /\ covered = 0
  /\ req = [r \in Request |-> Idle]
  /\ mishaps \in Modes

world == <<ledger, deep, found, resets>>

-----------------------------------------------------------------------------
(* The network and the handlers of its events.                              *)

\* A payment or a spending; when the monitor or broadcastTx knows of it, a
\* reset follows.  A transaction to a change address only, or one that is no
\* proposal's, makes none.
NewTx(kind, noticed) ==
  /\ Len(ledger) < MaxTx
  /\ noticed => resets < MaxResets
  /\ ledger' = Append(ledger, kind)
  /\ resets' = IF noticed THEN resets + 1 ELSE resets
  /\ UNCHANGED <<deep, found, items, status, scan, covered, req, mishaps>>

\* The oldest transaction not deep yet becomes so.  softResetAllTxHistoryCache
\* replaces the documents of many wallets, which a MongoDB server refuses.
NewBlock ==
  /\ deep < Len(ledger)
  /\ deep' = deep + 1
  /\ status' \in {status, NoStatus}
  /\ UNCHANGED <<ledger, found, resets, items, scan, covered, req, mishaps>>

\* Mistake: the status is only marked, and getTxHistoryCache reads the total.
KeepStatus ==
  /\ resets > 0
  /\ resets' = resets - 1
  /\ covered' = Len(History)
  /\ UNCHANGED <<ledger, deep, found, items, status, scan, req, mishaps>>

\* softResetTxHistoryCache replaces the status document by one with no
\* walletId, type or key, that no later query finds.
SoftReset ==
  /\ resets > 0
  /\ resets' = resets - 1
  /\ status' = NoStatus
  /\ covered' = Len(History)
  /\ UNCHANGED <<ledger, deep, found, items, scan, req, mishaps>>

-----------------------------------------------------------------------------
(* scan, under the wallet's lock, and createAddress.                        *)

\* clearTxHistoryCache removes the items, then the status; its error is
\* ignored and the scan goes on.
ScanClearItems ==
  /\ scan = "idle"
  /\ "scanOverlaps" \in mishaps \/ AllIdle
  /\ items' \in {[p \in {} |-> 0]} \cup (IF "clearFails" \in mishaps THEN {items} ELSE {})
  /\ scan' = "clearStatus"
  /\ UNCHANGED <<world, status, covered, req, mishaps>>

ScanClearStatus ==
  /\ scan = "clearStatus"
  /\ status' \in {NoStatus} \cup (IF "clearFails" \in mishaps THEN {status} ELSE {})
  /\ scan' = "derive"
  /\ UNCHANGED <<world, items, covered, req, mishaps>>

\* storeAddressAndWallet at the end of a scan, if the explorer gave no error;
\* createAddress stores an address too, and leaves the cache alone.
StoreAddresses ==
  /\ scan = "derive" \/ "usedAddress" \in mishaps
  /\ found' \in {TRUE, found}
  /\ scan' = IF scan = "derive" THEN "idle" ELSE scan
  /\ UNCHANGED <<ledger, deep, resets, items, status, covered, req, mishaps>>

-----------------------------------------------------------------------------
(* getTxHistory.                                                            *)

GetTxHistory(r, from, limit) ==
  /\ req[r].pc = "idle"
  /\ "scanOverlaps" \in mishaps \/ scan = "idle"
  /\ req' = [req EXCEPT ![r] = [Idle EXCEPT !.pc = "readStatus", !.from = from,
                                            !.to = from + limit,
                                            !.withFound = found]]
  /\ UNCHANGED <<world, items, status, scan, covered, mishaps>>

\* Mistake: the first position is not clipped.
NoClip(n) == n

\* Reverse indexes: position 0 is the oldest.
Clip(n) == IF n < 0 THEN 0 ELSE n

\* The first document read by getTxHistoryCache.
ReadStatus(r) ==
  /\ req[r].pc = "readStatus"
  /\ LET end == status - req[r].from
     IN  req' = [req EXCEPT ![r] =
           IF status = NoStatus \/ end <= 0
           THEN [@ EXCEPT !.pc = "fetch"]
           ELSE [@ EXCEPT !.pc = "readItems", !.low = Clip(status - req[r].to),
                          !.high = end, !.covered = covered]]
  /\ UNCHANGED <<world, items, status, scan, covered, mishaps>>

\* The second: the page, unless some items are not yet there.
ReadItems(r) ==
  /\ req[r].pc = "readItems"
  /\ LET low == req[r].low
         high == req[r].high
     IN  req' = [req EXCEPT ![r] =
           IF \E p \in low..(high - 1) : p \notin DOMAIN items
           THEN [@ EXCEPT !.pc = "fetch", !.low = 0, !.high = 0, !.covered = 0]
           ELSE [@ EXCEPT !.pc = "answer",
                          !.txs = [i \in 1..(high - low) |-> items[high - i]]]]
  /\ UNCHANGED <<world, items, status, scan, covered, mishaps>>

\* Mistake: the page goes into the cache as the explorer gave it.
PositionsAsGiven(page, first) ==
  LET old == Filter(page, 1..deep)
  IN  {<<first + i - 1, old[i]>> : i \in DOMAIN old}

\* The items to cache and their positions: the page's deep transactions,
\* oldest first, from the page's first position.
Positions(page, first) ==
  LET old == Reverse(Filter(page, 1..deep))
  IN  {<<first + i - 1, old[i]>> : i \in DOMAIN old}

\* The explorer's getTransactions answers the page, which goes to the client
\* in the end, and the total.
GetTransactions(r) ==
  LET total == Len(HistoryOf(req[r].withFound))
      page == PageOf(HistoryOf(req[r].withFound), req[r].from, req[r].to)
      todo == Positions(page, Clip(total - req[r].to))
  IN  /\ req[r].pc = "fetch"
      /\ req' = [req EXCEPT ![r] =
           IF todo = {}
           THEN Idle
           ELSE [Idle EXCEPT !.pc = "store", !.total = total, !.todo = todo,
                             !.covered = covered]]
      /\ UNCHANGED <<world, items, status, scan, covered, mishaps>>

\* storeTxHistoryCache upserts the items all at once, in any order, ...
StoreItem(r, item) ==
  /\ req[r].pc = "store"
  /\ items' = [p \in DOMAIN items \cup {item[1]} |->
                 IF p = item[1] THEN item[2] ELSE items[p]]
  /\ req' = [req EXCEPT ![r].todo = @ \ {item}]
  /\ UNCHANGED <<world, status, scan, covered, mishaps>>

\* ... and then the status.
StoreStatus(r) ==
  /\ req[r].pc = "store"
  /\ req[r].todo = {}
  /\ status' = req[r].total
  /\ covered' = IF covered = req[r].covered THEN covered ELSE 0
  /\ req' = [req EXCEPT ![r] = Idle]
  /\ UNCHANGED <<world, items, scan, mishaps>>

\* The cached page goes to the client, with the proposals and notes of its
\* transactions; or a storage or explorer call fails, or the process stops.
\* The stores that async.each leaves running after the first error are stores
\* before the return here: a call is over when they are.
Return(r) ==
  /\ req[r].pc # "idle"
  /\ req' = [req EXCEPT ![r] = Idle]
  /\ UNCHANGED <<world, items, status, scan, covered, mishaps>>

Handler(r) ==
  \/ \E from \in 0..(MaxTx - 1), limit \in PageSize : GetTxHistory(r, from, limit)
  \/ ReadStatus(r)
  \/ ReadItems(r)
  \/ GetTransactions(r)
  \/ \E item \in req[r].todo : StoreItem(r, item)
  \/ StoreStatus(r)
  \/ Return(r)

HistoryNext ==
  \/ \E kind \in {"listed", "found"}, noticed \in BOOLEAN : NewTx(kind, noticed)
  \/ NewBlock
  \/ SoftReset
  \/ ScanClearItems
  \/ ScanClearStatus
  \/ StoreAddresses
  \/ \E r \in Request : Handler(r)

-----------------------------------------------------------------------------

\* The types of the variables; in particular no position is negative.
HistoryTypeOK ==
  /\ ledger \in Seq({"listed", "found"}) /\ Len(ledger) <= MaxTx
  /\ deep \in 0..Len(ledger)
  /\ found \in BOOLEAN
  /\ resets \in 0..MaxTx
  /\ DOMAIN items \subseteq 0..(MaxTx - 1)
  /\ \A p \in DOMAIN items : items[p] \in 1..Len(ledger)
  /\ status \in 0..MaxTx \cup {NoStatus}
  /\ scan \in {"idle", "clearStatus", "derive"}
  /\ covered \in 0..MaxTx
  /\ req \in [Request -> RequestState]
  /\ mishaps \in Modes

\* Every cached item is the transaction of its position in the wallet's
\* history, however the pages, resets and payments interleave (getTxHistory,
\* storeTxHistoryCache), as long as scans keep out of their way, clear the
\* cache, and are what brings in addresses used before.
ItemsInPlace ==
  mishaps = {} =>
    \A p \in DOMAIN items : p < Len(History) /\ items[p] = History[p + 1]

\* A page answered from the cache is that page of the history as it was at
\* some total: no item is skipped, repeated or out of order, though the status
\* and the items are read, and were stored, at different times.  The total is
\* one since the last reset, so no transaction is missed that the monitor or
\* broadcastTx had told of, unless a page fetched before the reset was stored
\* after it.
PageCoversResets ==
  mishaps = {} =>
    \A r \in Request :
      req[r].pc = "answer" =>
        \E n \in req[r].covered..Len(History) :
          req[r].txs = PageOf(SubSeq(History, 1, n), req[r].from, req[r].to)

\* "Retrieves all transactions (incoming & outgoing)", newest first
\* (getTxHistory): whatever scans do, a page answered from the cache is that
\* page of the history, at some total, of the addresses the call read.
PageOfReadAddresses ==
  \A r \in Request :
    req[r].pc = "answer" =>
      LET history == HistoryOf(req[r].withFound)
      IN  \E n \in 0..Len(history) :
            req[r].txs = PageOf(SubSeq(history, 1, n), req[r].from, req[r].to)

=============================================================================

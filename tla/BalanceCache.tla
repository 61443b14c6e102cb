---------------------------- MODULE BalanceCache ----------------------------
(***************************************************************************)
(* The balance of one wallet: getBalance of lib/server.js, in one step or  *)
(* in two, and the cache of active addresses of lib/storage.js.            *)
(*                                                                         *)
(* A wallet with many addresses gets a partial balance first, of the       *)
(* addresses in the cache and of those made within a day; the balance of   *)
(* all addresses is computed behind the client's back, replaces the cache, *)
(* and is sent as a notification where it differs.  Nothing takes a lock.  *)
(***************************************************************************)
EXTENDS FiniteSetsExt

CONSTANTS
  WalletAddress,
  TwoStepThreshold,   \* TWO_STEP_BALANCE_THRESHOLD
  MaxChanges,         \* bound: payments and spendings
  BalanceCall,        \* slots for the getBalance calls under way
  NullKey, Letter     \* keys in the cache that are no addresses

ASSUME BalanceCacheAssumption ==
  /\ TwoStepThreshold \in Nat
  /\ MaxChanges \in Nat
  /\ {NullKey, Letter} \cap WalletAddress = {}

VARIABLES
  born,       \* when an address was made: "no", "today" or "before"
  funded,     \* the addresses with outputs, at the explorer
  changes,    \* how often that changed
  told,       \* whether the monitor still has to note a payment
  active,     \* the keys of the activeAddresses documents
  stray,      \* the upserts of calls that ended with an error
  balance,    \* the getBalance calls
  shown,      \* the balance the client has, as the addresses it counts
  unsettled,  \* history: a payment, spending or failure since the calls began
  holds       \* history: the balance that last cleaned the cache, or Nothing

balanceVars == <<born, funded, changes, told, active, stray, balance, shown,
                 unsettled, holds>>

chain == <<born, funded, changes, told>>

Nothing == {NullKey}

Known == {a \in WalletAddress : born[a] # "no"}

BalanceState ==
  [pc: {"idle", "active", "recent", "partial", "all", "utxos", "remove", "insert",
        "store", "answer"},
   answered: BOOLEAN,                     \* with a partial balance
   addresses: SUBSET WalletAddress,       \* that the explorer is asked for
   must: SUBSET WalletAddress,            \* history: what the cache held
   partial: SUBSET WalletAddress,
   full: SUBSET WalletAddress,
   todo: SUBSET WalletAddress]            \* to be stored in the cache

NoCall == [pc |-> "idle", answered |-> FALSE, addresses |-> {}, must |-> {},
           partial |-> {}, full |-> {}, todo |-> {}]

AllAnswered == \A c \in BalanceCall : balance[c].pc = "idle"

\* Bound: the wallet has one address at first.
BalanceInit ==
  /\ \E a \in WalletAddress :
       born = [b \in WalletAddress |-> IF b = a THEN "before" ELSE "no"]
  /\ funded \in SUBSET Known
  /\ changes = 0
  /\ told = FALSE
  /\ active = {}
  /\ stray = {}
  /\ balance = [c \in BalanceCall |-> NoCall]
  /\ shown = {}
  /\ unsettled = TRUE
  /\ holds = Nothing

-----------------------------------------------------------------------------
(* The wallet, the network and the blockchain monitor.                      *)

CreateAddress(a) ==
  /\ born[a] = "no"
  /\ born' = [born EXCEPT ![a] = "today"]
  /\ UNCHANGED <<funded, changes, told, active, stray, balance, shown, unsettled, holds>>

DayEnds ==
  /\ \E a \in WalletAddress : born[a] = "today"
  /\ born' = [a \in WalletAddress |-> IF born[a] = "today" THEN "before" ELSE born[a]]
  /\ UNCHANGED <<funded, changes, told, active, stray, balance, shown, unsettled, holds>>

\* A payment to an address, or the spending of its outputs; the monitor may
\* learn of a payment.
FundsChange(a) ==
  /\ a \in Known /\ changes < MaxChanges
  /\ funded' = SymDiff(funded, {a})
  /\ changes' = changes + 1
  /\ told' \in IF a \in funded THEN {told} ELSE {told, TRUE}
  /\ unsettled' = TRUE
  /\ UNCHANGED <<born, active, stray, balance, shown, holds>>

\* _updateActiveAddresses gives storeActiveAddresses a string instead of a
\* list: async.each stores each of its characters as a key.
UpdateActiveAddresses ==
  /\ told
  /\ told' = FALSE
  /\ active' \in {active, active \cup {Letter}}
  /\ UNCHANGED <<born, funded, changes, stray, balance, shown, unsettled, holds>>

-----------------------------------------------------------------------------
(* getBalance.                                                              *)

\* It counts the wallet's addresses when it may answer in two steps.
GetBalance(c, twoStep) ==
  /\ balance[c].pc = "idle"
  /\ balance' = [balance EXCEPT ![c] = [NoCall EXCEPT !.pc =
       IF twoStep /\ Cardinality(Known) >= TwoStepThreshold THEN "active" ELSE "all"]]
  /\ unsettled' = (unsettled /\ ~AllAnswered)
  /\ UNCHANGED <<chain, active, stray, shown, holds>>

\* Whether the cache has all that the call that cleaned it wanted to store.
Complete ==
  /\ stray = {}
  /\ \A c \in BalanceCall : balance[c].pc \notin {"insert", "store"}

\* fetchActiveAddresses: no documents, or an error, and it is one step after all.
FetchActive(c) ==
  /\ balance[c].pc = "active"
  /\ \/ balance' = [balance EXCEPT ![c].pc = "all"]
     \/ /\ active # {}
        /\ balance' = [balance EXCEPT ![c] =
             [@ EXCEPT !.pc = "recent", !.addresses = active \cap WalletAddress,
                       !.must = IF Complete THEN holds \ Nothing ELSE {}]]
  /\ UNCHANGED <<chain, active, stray, shown, unsettled, holds>>

\* _getActiveAddresses: the cached and the recent ones, of all addresses.
FetchRecent(c) ==
  /\ balance[c].pc = "recent"
  /\ balance' = [balance EXCEPT ![c] =
       [@ EXCEPT !.pc = "partial",
                 !.addresses = balance[c].addresses
                                 \cup {a \in WalletAddress : born[a] = "today"}]]
  /\ UNCHANGED <<chain, active, stray, shown, unsettled, holds>>

\* The balance of those addresses is the answer; 1 ms later it starts again.
AnswerPartial(c) ==
  /\ balance[c].pc = "partial"
  /\ balance' = [balance EXCEPT ![c] =
       [NoCall EXCEPT !.pc = "all", !.answered = TRUE,
                      !.partial = funded \cap balance[c].addresses]]
  /\ shown' = funded \cap balance[c].addresses
  /\ UNCHANGED <<chain, active, stray, unsettled, holds>>

\* _getBalanceOneStep.
FetchAddresses(c) ==
  /\ balance[c].pc = "all"
  /\ balance' = [balance EXCEPT ![c].pc = "utxos", ![c].addresses = Known]
  /\ UNCHANGED <<chain, active, stray, shown, unsettled, holds>>

GetFullBalance(c) ==
  /\ balance[c].pc = "utxos"
  /\ balance' = [balance EXCEPT ![c] =
       [@ EXCEPT !.pc = "remove", !.addresses = {}, !.full = funded \cap balance[c].addresses]]
  /\ UNCHANGED <<chain, active, stray, shown, unsettled, holds>>

\* Mistake: what is in the cache stays, and is taken to be all there is.
KeepWhenCached(c) ==
  /\ balance[c].pc = "remove"
  /\ active' = active
  /\ holds' = balance[c].full
  /\ balance' = [balance EXCEPT ![c].pc = IF active = {} THEN "insert" ELSE "answer"]
  /\ UNCHANGED <<chain, stray, shown, unsettled>>

\* cleanActiveAddresses: remove all documents, ...
CleanRemove(c) ==
  /\ balance[c].pc = "remove"
  /\ active' = {}
  /\ holds' = balance[c].full
  /\ balance' = [balance EXCEPT ![c].pc = "insert"]
  /\ UNCHANGED <<chain, stray, shown, unsettled>>

\* ... and insert one that has no address.
CleanInsert(c) ==
  /\ balance[c].pc = "insert"
  /\ active' = active \cup {NullKey}
  /\ balance' = [balance EXCEPT ![c].pc = IF balance[c].full = {} THEN "answer" ELSE "store",
                                ![c].todo = balance[c].full]
  /\ UNCHANGED <<chain, stray, shown, unsettled, holds>>

\* storeActiveAddresses, all at once.
StoreActive(c, a) ==
  /\ balance[c].pc = "store"
  /\ a \in balance[c].todo
  /\ active' = active \cup {a}
  /\ balance' = [balance EXCEPT ![c].todo = @ \ {a},
                                ![c].pc = IF balance[c].todo = {a} THEN "answer" ELSE @]
  /\ UNCHANGED <<chain, stray, shown, unsettled, holds>>

\* One of these calls fails, which is only logged; the upserts still under
\* way go on by themselves.
CacheFails(c, a) ==
  /\ balance[c].pc \in {"remove", "insert", "store"}
  /\ balance[c].pc = "store" => a \in balance[c].todo
  /\ balance' = [balance EXCEPT ![c].pc = "answer", ![c].todo = {}]
  /\ stray' = stray \cup (balance[c].todo \ {a})
  /\ holds' = Nothing
  /\ UNCHANGED <<chain, active, shown, unsettled>>

StrayStore(a) ==
  /\ a \in stray
  /\ stray' = stray \ {a}
  /\ active' \in {active, active \cup {a}}
  /\ UNCHANGED <<chain, balance, shown, unsettled, holds>>

\* Mistake: the notification is sent where nothing differs.
AnswerEqual(c) ==
  /\ balance[c].pc = "answer"
  /\ shown' = IF balance[c].answered /\ balance[c].partial # balance[c].full
              THEN shown ELSE balance[c].full
  /\ balance' = [balance EXCEPT ![c] = NoCall]
  /\ UNCHANGED <<chain, active, stray, unsettled, holds>>

\* The balance is the answer, or goes to the client as the notification
\* BalanceUpdated if it differs from the partial one.
Answer(c) ==
  /\ balance[c].pc = "answer"
  /\ shown' = IF balance[c].answered /\ balance[c].partial = balance[c].full
              THEN shown ELSE balance[c].full
  /\ balance' = [balance EXCEPT ![c] = NoCall]
  /\ UNCHANGED <<chain, active, stray, unsettled, holds>>

\* A call of the storage or the explorer fails, or the notification is not
\* stored; an error is an answer only before a partial one.
BalanceFails(c) ==
  /\ balance[c].pc \in {"active", "recent", "partial", "all", "utxos", "answer"}
  /\ balance' = [balance EXCEPT ![c] = NoCall]
  /\ unsettled' = TRUE
  /\ UNCHANGED <<chain, active, stray, shown, holds>>

BalanceNext ==
  \/ \E a \in WalletAddress : CreateAddress(a) \/ FundsChange(a) \/ StrayStore(a)
  \/ DayEnds
  \/ UpdateActiveAddresses
  \/ \E c \in BalanceCall :
       \/ \E twoStep \in BOOLEAN : GetBalance(c, twoStep)
       \/ FetchActive(c)
       \/ FetchRecent(c)
       \/ AnswerPartial(c)
       \/ FetchAddresses(c)
       \/ GetFullBalance(c)
       \/ CleanRemove(c)
       \/ CleanInsert(c)
       \/ \E a \in WalletAddress : StoreActive(c, a) \/ CacheFails(c, a)
       \/ Answer(c)
       \/ BalanceFails(c)

-----------------------------------------------------------------------------

BalanceTypeOK ==
  /\ born \in [WalletAddress -> {"no", "today", "before"}]
  /\ funded \subseteq Known
  /\ changes \in 0..MaxChanges
  /\ told \in BOOLEAN
  /\ active \subseteq WalletAddress \cup {NullKey, Letter}
  /\ stray \subseteq WalletAddress
  /\ balance \in [BalanceCall -> BalanceState]
  /\ shown \subseteq WalletAddress
  /\ unsettled \in BOOLEAN
  /\ holds \subseteq WalletAddress \cup Nothing

\* When all calls are over, whatever overlaps, and whatever the cache held,
\* lost or could not store, the client has the balance of all addresses, as
\* long as the calls themselves did not fail and the funds did not move
\* (getBalance): a partial balance that is not the whole is corrected.
BalanceSettles ==
  AllAnswered /\ ~unsettled => shown = funded

\* A partial balance counts at least the addresses that the balance which
\* last replaced the cache had found (_getActiveAddresses), if it is read
\* when nobody is half way through replacing it and no store of it failed.
PartialCovers ==
  \A c \in BalanceCall : balance[c].pc = "partial" => balance[c].must \subseteq balance[c].addresses

=============================================================================

---------------------------- MODULE AddressBook -----------------------------
(***************************************************************************)
(* The addresses of one complete wallet: createAddress with its gap check, *)
(* the change addresses of createTx, and scan, of lib/server.js, over the  *)
(* wallet document (whose address manager holds the next index of each     *)
(* branch) and the addresses collection of lib/storage.js.                 *)
(*                                                                         *)
(* createAddress checks the gap before it takes the wallet's lock.  A new  *)
(* address is first inserted, then the whole wallet document is stored     *)
(* with the index moved on; addAccess stores the whole document too, and   *)
(* without the lock.  The lock is given on after 5 minutes whether or not  *)
(* its holder is done, which a scan may well not be.                       *)
(***************************************************************************)
EXTENDS Lodash

CONSTANTS
  MaxGap,         \* Defaults.MAX_MAIN_ADDRESS_GAP
  ScanGap,        \* Defaults.SCAN_ADDRESS_GAP
  IgnoreMaxGap,   \* whether clients may ask for that (opts.ignoreMaxGap)
  MaxIndex,       \* bound: neither branch is derived further
  MaxAddresses,   \* bound: the collection grows no further
  Request,        \* slots for the handlers under way
  NoRequest

ASSUME AddressBookAssumption ==
  /\ MaxGap \in Nat \ {0}
  /\ ScanGap \in Nat \ {0}
  /\ MaxIndex \in [{"main", "change"} -> Nat]
  /\ MaxAddresses \in Nat
  /\ IgnoreMaxGap \in BOOLEAN
  /\ NoRequest \notin Request
  /\ IsFiniteSet(Request)

VARIABLES
  wallet,     \* the stored document: the next index of each branch, scanStatus
  addresses,  \* the addresses collection, by creation
  active,     \* the paths whose address has activity on the blockchain
  given,      \* history: the paths whose address a client was given
  lock,
  req

vars == <<wallet, addresses, active, given, lock, req>>

Branch == {"main", "change"}

Path == UNION {[branch: {b}, index: 0..(MaxIndex[b] - 1)] : b \in Branch}

Wallet == [singleAddress: BOOLEAN,
           index: [Branch -> Nat],
           scanStatus: {"none", "running", "success", "error"}]

Address == [path: Path, hasActivity: BOOLEAN]

NewAddress(branch, index) ==
  [path |-> [branch |-> branch, index |-> index], hasActivity |-> FALSE]

RequestState ==
  [pc: {"idle", "checkActivity", "waitLock", "insertAddress", "insertNamed",
        "storeWallet", "scanStart", "scanBranch", "scanStore", "scanEnd"},
   op: {"none", "createAddress", "createTx", "scan", "addAccess"},
   wallet: Wallet,              \* the copy it read
   new: Seq(Address),           \* the addresses to insert
   latest: Seq(Path),           \* the addresses to check for activity
   branch: Branch,              \* the branch to scan
   failed: BOOLEAN,             \* the scan met an error
   late: BOOLEAN]               \* it goes on, without the lock it had

NewWallet(single) ==
  [singleAddress |-> single, index |-> [b \in Branch |-> 0], scanStatus |-> "none"]

Idle == [pc |-> "idle", op |-> "none", wallet |-> NewWallet(FALSE), new |-> << >>,
         latest |-> << >>, branch |-> "main", failed |-> FALSE, late |-> FALSE]

Start(op, pc) == [Idle EXCEPT !.op = op, !.pc = pc]

\* With the wallet document read.
Read(op, pc) == [Start(op, pc) EXCEPT !.wallet = wallet]

\* A wallet whose addresses were used before, with this service or another.
Init ==
  /\ \E single \in BOOLEAN : wallet = NewWallet(single)
  /\ addresses = << >>
  /\ active \in SUBSET Path
  /\ given = {}
  /\ lock = NoRequest
  /\ req = [r \in Request |-> Idle]

-----------------------------------------------------------------------------

Acquire(r) == lock = NoRequest /\ lock' = r

\* release() after the 5 minutes does nothing: the lock is not r's any more.
Return(r) ==
  /\ req' = [req EXCEPT ![r] = Idle]
  /\ lock' = IF lock = r THEN NoRequest ELSE lock

\* After 5 minutes the lock is given on, and the handler that had it goes on.
LockExpires ==
  /\ lock # NoRequest
  /\ req' = [req EXCEPT ![lock].late = TRUE]
  /\ lock' = NoRequest
  /\ UNCHANGED <<wallet, addresses, active, given>>

\* A storage or explorer call answers with an error, or the process stops.
\* The error of a scan's explorer call is ScanFails.
Fail(r) ==
  /\ req[r].pc # "idle"
  /\ Return(r)
  /\ UNCHANGED <<wallet, addresses, active, given>>

\* Somebody pays an address that was given to a client.
Activity(path) ==
  /\ path \in given
  /\ active' = active \cup {path}
  /\ UNCHANGED <<wallet, addresses, given, lock, req>>

-----------------------------------------------------------------------------
(* createAddress.                                                           *)

\* Mistake: change addresses count for the gap.
LatestOfAny == TakeRight(addresses, MaxGap)

Latest ==
  TakeRight(Filter(addresses, {a \in Address : a.path.branch = "main"}), MaxGap)

\* _canCreateAddress: the latest main addresses are few, or one of them is
\* known to have activity; otherwise the explorer is asked.
CreateAddress(r) ==
  /\ req[r].pc = "idle"
  /\ \/ /\ \/ IgnoreMaxGap
           \/ Len(Latest) < MaxGap
           \/ \E i \in DOMAIN Latest : Latest[i].hasActivity
        /\ req' = [req EXCEPT ![r] = Start("createAddress", "waitLock")]
     \/ /\ Len(Latest) >= MaxGap
        /\ \A i \in DOMAIN Latest : ~Latest[i].hasActivity
        /\ req' = [req EXCEPT ![r] =
             [Start("createAddress", "checkActivity") EXCEPT
                !.latest = [i \in DOMAIN Latest |-> Latest[i].path]]]
  /\ UNCHANGED <<wallet, addresses, active, given, lock>>

\* storeAddress: hasActivity is kept with the first document of the address.
SetActivity(path) ==
  LET i == SelectInSeq(addresses, LAMBDA a : a.path = path)
  IN  [addresses EXCEPT ![i].hasActivity = TRUE]

\* The latest address with activity is remembered; MAIN_ADDRESS_GAP_REACHED
\* when none has any.
CheckActivity(r) ==
  LET latest == req[r].latest
      found == SelectLastInSeq(latest, LAMBDA path : path \in active)
  IN  /\ req[r].pc = "checkActivity"
      /\ IF found = 0
         THEN Return(r) /\ UNCHANGED addresses
         ELSE /\ addresses' = SetActivity(latest[found])
              /\ req' = [req EXCEPT ![r] = Start("createAddress", "waitLock")]
              /\ UNCHANGED lock
      /\ UNCHANGED <<wallet, active, given>>

\* wallet.createAddress on a copy of the document: the next path of the branch.
Derive(w, branch) ==
  [w EXCEPT !.index[branch] = @ + 1]

NextAddress(w, branch) == NewAddress(branch, w.index[branch])

\* Mistake: the lock is not taken.
CreateUnlocked(r) ==
  /\ req[r].pc = "waitLock"
  /\ IF wallet.singleAddress /\ addresses # << >>
     THEN /\ given' = given \cup {Head(addresses).path}
          /\ Return(r)
     ELSE /\ wallet.index["main"] < MaxIndex["main"]
          /\ req' = [req EXCEPT ![r] =
               [Read("createAddress", "insertAddress") EXCEPT
                  !.wallet = Derive(wallet, "main"),
                  !.new = <<NextAddress(wallet, "main")>>]]
          /\ UNCHANGED <<given, lock>>
  /\ UNCHANGED <<wallet, addresses, active>>

\* Under the lock the document is read and the address derived.  A wallet with
\* a single address answers with the first one it has.
CreateLocked(r) ==
  /\ req[r].pc = "waitLock"
  /\ IF wallet.singleAddress /\ addresses # << >>
     THEN /\ lock = NoRequest
          /\ given' = given \cup {Head(addresses).path}
          /\ Return(r)
     ELSE /\ Acquire(r)
          /\ wallet.index["main"] < MaxIndex["main"]
          /\ req' = [req EXCEPT ![r] =
               [Read("createAddress", "insertAddress") EXCEPT
                  !.wallet = Derive(wallet, "main"),
                  !.new = <<NextAddress(wallet, "main")>>]]
          /\ UNCHANGED given
  /\ UNCHANGED <<wallet, addresses, active>>

-----------------------------------------------------------------------------
(* The change address of createTx, and how addresses are stored.            *)

\* The change goes to a new address, or to one the client names (of those it was
\* given), which is then inserted again.  With a single address nothing is
\* stored.
CreateTx(r) ==
  /\ req[r].pc = "idle"
  /\ Acquire(r)
  /\ ~wallet.singleAddress
  /\ \/ /\ wallet.index["change"] < MaxIndex["change"]
        /\ req' = [req EXCEPT ![r] =
             [Read("createTx", "insertAddress") EXCEPT
                !.wallet = Derive(wallet, "change"),
                !.new = <<NextAddress(wallet, "change")>>]]
     \/ \E i \in DOMAIN addresses :
          /\ addresses[i].path \in given
          /\ req' = [req EXCEPT ![r] =
               [Read("createTx", "insertNamed") EXCEPT !.new = <<addresses[i]>>]]
  /\ UNCHANGED <<wallet, addresses, active, given>>

\* storeAddressAndWallet, first half.
InsertAddress(r) ==
  /\ req[r].pc = "insertAddress"
  /\ Len(addresses) + Len(req[r].new) <= MaxAddresses
  /\ addresses' = addresses \o req[r].new
  /\ req' = [req EXCEPT ![r].pc = IF req[r].op = "scan" THEN "scanStore" ELSE "storeWallet"]
  /\ UNCHANGED <<wallet, active, given, lock>>

\* A copy of an address keeps its creation time, and sorts next to it.
InsertNamed(r) ==
  LET copy == Head(req[r].new)
      i == SelectLastInSeq(addresses, LAMBDA a : a.path = copy.path)
  IN  /\ req[r].pc = "insertNamed"
      /\ Len(addresses) < MaxAddresses
      /\ addresses' = InsertAt(addresses, i + 1, copy)
      /\ req' = [req EXCEPT ![r].pc = "storeWallet"]
      /\ UNCHANGED <<wallet, active, given, lock>>

\* Second half, and addAccess: the handler answers with what it derived.
StoreWallet(r) ==
  /\ req[r].pc = "storeWallet"
  /\ wallet' = req[r].wallet
  /\ given' = given \cup {req[r].new[i].path : i \in DOMAIN req[r].new}
  /\ Return(r)
  /\ UNCHANGED <<addresses, active>>

\* addAccess on this wallet: the document as it was read is stored again.
AddAccess(r) ==
  /\ req[r].pc = "idle"
  /\ req' = [req EXCEPT ![r] = Read("addAccess", "storeWallet")]
  /\ UNCHANGED <<wallet, addresses, active, given, lock>>

-----------------------------------------------------------------------------
(* scan.                                                                    *)

Scan(r) ==
  /\ req[r].pc = "idle"
  /\ Acquire(r)
  /\ req' = [req EXCEPT ![r] =
       [Read("scan", "scanStart") EXCEPT !.wallet.scanStatus = "running"]]
  /\ UNCHANGED <<wallet, addresses, active, given>>

ScanStart(r) ==
  /\ req[r].pc = "scanStart"
  /\ wallet' = req[r].wallet
  /\ req' = [req EXCEPT ![r].pc = "scanBranch"]
  /\ UNCHANGED <<addresses, active, given, lock>>

\* scanBranch derives until ScanGap addresses in a row have no activity, and
\* then drops those: the index stops where the first such gap starts.
GapAt(branch, n) ==
  \A i \in n..(n + ScanGap - 1) : [branch |-> branch, index |-> i] \notin active

EndOf(branch, n) ==
  CHOOSE m \in n..MaxIndex[branch] :
    GapAt(branch, m) /\ \A k \in n..(m - 1) : ~GapAt(branch, k)

\* Mistake: the change addresses are not scanned.
MainBranchOnly(r) == req' = [req EXCEPT ![r].pc = "scanEnd"]

NextBranch(r) ==
  IF req[r].branch = "main"
  THEN req' = [req EXCEPT ![r].pc = "scanBranch", ![r].branch = "change"]
  ELSE req' = [req EXCEPT ![r].pc = "scanEnd"]

\* Mistake: the index is not taken back over the gap.
ScanNoRewind(r) ==
  LET b == req[r].branch
      from == req[r].wallet.index[b]
      end == EndOf(b, from)
  IN  /\ req[r].pc = "scanBranch"
      /\ IF end = from
         THEN NextBranch(r)
         ELSE req' = [req EXCEPT
                ![r].pc = "insertAddress",
                ![r].wallet.index[b] = end + ScanGap,
                ![r].new = [i \in 1..(end - from) |-> NewAddress(b, from + i - 1)]]
      /\ UNCHANGED <<wallet, addresses, active, given, lock>>

ScanBranch(r) ==
  LET b == req[r].branch
      from == req[r].wallet.index[b]
      end == EndOf(b, from)
  IN  /\ req[r].pc = "scanBranch"
      /\ IF end = from
         THEN NextBranch(r)
         ELSE req' = [req EXCEPT
                ![r].pc = "insertAddress",
                ![r].wallet.index[b] = end,
                ![r].new = [i \in 1..(end - from) |-> NewAddress(b, from + i - 1)]]
      /\ UNCHANGED <<wallet, addresses, active, given, lock>>

ScanStore(r) ==
  /\ req[r].pc = "scanStore"
  /\ wallet' = req[r].wallet
  /\ NextBranch(r)
  /\ UNCHANGED <<addresses, active, given, lock>>

\* An explorer or storage error ends the branches.
ScanFails(r) ==
  /\ req[r].op = "scan"
  /\ req[r].pc \in {"scanBranch", "insertAddress", "scanStore"}
  /\ req' = [req EXCEPT ![r].pc = "scanEnd", ![r].failed = TRUE]
  /\ UNCHANGED <<wallet, addresses, active, given, lock>>

\* The document is read again and stored with the result.
ScanEnd(r) ==
  /\ req[r].pc = "scanEnd"
  /\ req' = [req EXCEPT ![r] =
       [Read("scan", "storeWallet") EXCEPT
          !.wallet.scanStatus = IF req[r].failed THEN "error" ELSE "success",
          !.late = req[r].late]]
  /\ UNCHANGED <<wallet, addresses, active, given, lock>>

Next ==
  \/ \E path \in Path : Activity(path)
  \/ \E r \in Request :
       \/ CreateAddress(r) \/ CheckActivity(r) \/ CreateLocked(r)
       \/ CreateTx(r) \/ InsertAddress(r) \/ InsertNamed(r) \/ StoreWallet(r) \/ AddAccess(r)
       \/ Scan(r) \/ ScanStart(r) \/ ScanBranch(r) \/ ScanStore(r)
       \/ ScanFails(r) \/ ScanEnd(r)
       \/ Fail(r)
  \/ LockExpires

Spec == Init /\ [][Next]_vars

\* addAccess, which takes no lock, and a handler that outlived its lock have the
\* wallet for themselves.
AloneIfUnlocked ==
  \A r, q \in Request :
    r # q /\ (req[r].op = "addAccess" \/ req[r].late)
      => req[q].pc \in {"idle", "checkActivity", "waitLock"}

PoliteSpec == Init /\ [][Next /\ AloneIfUnlocked']_vars

-----------------------------------------------------------------------------

TypeOK ==
  /\ wallet \in Wallet
  /\ addresses \in Seq(Address)
  /\ active \subseteq Path
  /\ given \subseteq Path
  /\ lock \in Request \cup {NoRequest}
  /\ req \in [Request -> RequestState]

\* The index never moves past an address that is not stored, however requests
\* fail between the two writes, a scan gives up or handlers outlive the lock:
\* what is derived from the index downwards is all in the collection, so its
\* funds are seen.
AddressesStored ==
  \A b \in Branch : \A i \in 0..(wallet.index[b] - 1) :
    \E k \in DOMAIN addresses :
      addresses[k].path = [branch |-> b, index |-> i]

\* An address a client was given is behind the index, so that it is never
\* derived for another client, or another payment, again.  (A wallet with a
\* single address gives the first one again and again.)
GivenBehindIndex ==
  ~wallet.singleAddress =>
    \A path \in given : path.index < wallet.index[path.branch]

\* The main addresses given out after the last one with activity.
Unused ==
  {path \in given :
     /\ path.branch = "main"
     /\ \A paid \in active : paid.branch = "main" => paid.index < path.index}

\* The gap of unused addresses stays within the limit, but for one address more
\* for every other request that passed the check before the lock.
GapBounded ==
  ~IgnoreMaxGap /\ ~wallet.singleAddress
    => Cardinality(Unused) <= MaxGap + Cardinality(Request) - 1

\* A scan that reports success left no address with activity within ScanGap of
\* the index, on either branch.
ScanFindsAll ==
  [][/\ ~wallet.singleAddress
     /\ wallet.scanStatus # "success" /\ wallet'.scanStatus = "success"
     => \A b \in Branch : GapAt(b, wallet'.index[b])]_vars

=============================================================================

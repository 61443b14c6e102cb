------------------------- MODULE AddressBookProofs --------------------------
(***************************************************************************)
(* Proofs about AddressBook.  Of every behaviour: the wallet's index never *)
(* moves past an address that is not in the collection.  Of those in which *)
(* addAccess, and a handler that outlived its lock, have the wallet for    *)
(* themselves: addresses given to clients stay behind the index, a scan    *)
(* that reports success left no activity within its gap, and createAddress *)
(* keeps the gap of unused addresses bounded.                              *)
(*                                                                         *)
(* Both arguments are about the copy of the wallet document a handler      *)
(* carries from the read to the store.  For the first it is enough that    *)
(* what a copy counts is stored, or will be before the copy is, since no   *)
(* address is ever removed.  For the others the copy must not be behind    *)
(* the document, which needs that one handler at a time changes it.  The   *)
(* gap is about counting: for every index n that activity has not reached, *)
(* the unused addresses from n on and the handlers that passed the check,  *)
(* or would if what is before n were used, are together within the limit.  *)
(***************************************************************************)
EXTENDS AddressBook, DataLemmas, SequenceTheorems, FiniteSetTheorems

-----------------------------------------------------------------------------
(* The inductive invariants.                                                *)

At(branch, index) == [branch |-> branch, index |-> index]

PathsOf(seq) == {seq[k].path : k \in DOMAIN seq}

\* Every address derived so far, by the index, is among the paths.
Covered(index, paths) ==
  \A b \in Branch : \A i \in 0..(index[b] - 1) : At(b, i) \in paths

IndexBounded(w) == \A b \in Branch : w.index[b] <= MaxIndex[b]

\* The type of a handler's state, but for the addresses it checks.
HandlerType(h) ==
  h \in [pc: {"idle", "checkActivity", "waitLock", "insertAddress", "insertNamed",
              "storeWallet", "scanStart", "scanBranch", "scanStore", "scanEnd"},
         op: {"none", "createAddress", "createTx", "scan", "addAccess"},
         wallet: Wallet, new: Seq(Address), latest: {h.latest},
         branch: Branch, failed: BOOLEAN, late: BOOLEAN]

\* It may still store its copy.
HasCopy(h) ==
  h.pc \in {"insertAddress", "insertNamed", "storeWallet",
            "scanStart", "scanBranch", "scanStore"}

\* What the copy counts is stored, or will be before the copy is.
CopyCovered(h, paths) ==
  /\ HasCopy(h) =>
       /\ IndexBounded(h.wallet)
       /\ Covered(h.wallet.index, IF h.pc = "insertAddress"
                                  THEN paths \cup PathsOf(h.new) ELSE paths)
  /\ h.pc = "insertNamed" => h.new # << >>

Typed ==
  /\ wallet \in Wallet
  /\ addresses \in Seq(Address)
  /\ active \subseteq Path
  /\ given \subseteq Path
  /\ lock \in Request \cup {NoRequest}
  /\ req = [r \in Request |-> req[r]]
  /\ \A r \in Request : HandlerType(req[r])

IInv ==
  /\ Typed
  /\ IndexBounded(wallet)
  /\ Covered(wallet.index, PathsOf(addresses))
  /\ \A r \in Request : CopyCovered(req[r], PathsOf(addresses))

\* It is between its read of the document and its answer.
Busy(h) == h.pc \notin {"idle", "checkActivity", "waitLock"}

WaitsAt(h) ==
  /\ h.pc \in {"checkActivity", "waitLock"} => h.op = "createAddress"
  /\ h.pc = "insertNamed" => h.op = "createTx"
  /\ h.pc \in {"scanStart", "scanBranch", "scanStore", "scanEnd"} => h.op = "scan"
  /\ h.pc = "scanStart" => h.branch = "main"
  /\ h.op = "addAccess" => h.pc = "storeWallet"

\* The copy is not behind the document, and what it gives is behind the copy.
CopyAhead(h, w) ==
  /\ HasCopy(h) =>
       /\ h.wallet.singleAddress = w.singleAddress
       /\ \A b \in Branch : w.index[b] <= h.wallet.index[b]
       /\ h.op # "scan" => h.wallet.scanStatus = w.scanStatus
  /\ h.pc \in {"insertAddress", "insertNamed", "storeWallet"} =>
       w.singleAddress \/ \A path \in PathsOf(h.new) :
                            path.index < h.wallet.index[path.branch]

\* GapAt, of given paths with activity.
GapIn(paid, b, n) == \A i \in n..(n + ScanGap - 1) : At(b, i) \notin paid

\* How far the scan got.
ScanSound(h, w, paid) ==
  h.op = "scan" =>
    /\ HasCopy(h) /\ h.pc # "storeWallet" => h.wallet.scanStatus # "success"
    /\ h.pc \in {"scanStart", "scanBranch", "storeWallet"} => h.wallet.index = w.index
    /\ h.pc \in {"insertAddress", "scanStore"} =>
         /\ GapIn(paid, h.branch, h.wallet.index[h.branch])
         /\ \A b \in Branch \ {h.branch} : h.wallet.index[b] = w.index[b]
    /\ h.pc \in {"scanBranch", "insertAddress", "scanStore"} /\ h.branch = "change" =>
         GapIn(paid, "main", w.index["main"])
    /\ \/ h.pc = "scanEnd" /\ ~h.failed
       \/ h.pc = "storeWallet" /\ h.wallet.scanStatus = "success"
       => \A b \in Branch : GapIn(paid, b, w.index[b])

Fits(h, w, paid) ==
  WaitsAt(h) /\ CopyAhead(h, w) /\ (~w.singleAddress => ScanSound(h, w, paid))

\* It works under the lock, and did not outlive it.
Holds(h) == Busy(h) /\ h.op # "addAccess" /\ ~h.late

LockKept == \A r \in Request : Holds(req[r]) => lock = r

PInv ==
  /\ IInv /\ AloneIfUnlocked /\ LockKept /\ GivenBehindIndex
  /\ \A r \in Request : Fits(req[r], wallet, active)

-----------------------------------------------------------------------------
(* Numbers and paths.                                                       *)

\* Of a set of numbers up to N there is a largest one.
LEMMA LargestExists ==
  ASSUME NEW N \in Nat, NEW S \in SUBSET (1..N), S # {}
  PROVE  \E m \in S : \A n \in S : m >= n
<1> DEFINE T == {N - n : n \in S}
<1>1. T \in SUBSET Nat /\ T # {}
  <2>1. \A n \in S : n \in 1..N
    OBVIOUS
  <2>2. \A n \in S : N - n \in Nat
    BY <2>1
  <2> QED
    BY <2>2
<1>2. PICK k \in T : \A l \in T : k <= l
  BY <1>1, LeastExists
<1>3. PICK m \in S : k = N - m
  OBVIOUS
<1> QED
  BY <1>2, <1>3

\* The last of some positions, or 0.
LEMMA LastPosition ==
  ASSUME NEW N \in Nat, NEW I \in SUBSET (1..N)
  PROVE  (IF I # {} THEN Max(I) ELSE 0) \in 0..N
<1> DEFINE m == Max(I)
<1>1. I # {} => \E k \in I : \A n \in I : k >= n
  BY LargestExists
<1>2. I # {} => m \in I
  BY <1>1 DEF Max
<1>3. \A k \in I : k \in 0..N
  OBVIOUS
<1> HIDE DEF m
<1>4. CASE I = {}
  BY <1>4
<1>5. CASE I # {}
  <2>1. m \in 0..N
    BY <1>2, <1>3, <1>5
  <2> QED
    BY <1>5, <2>1 DEF m
<1> QED
  BY <1>4, <1>5

\* What a path is.
LEMMA PathIs ==
  ASSUME NEW b \in Branch, NEW i
  PROVE  /\ At(b, i) \in Path <=> i \in 0..(MaxIndex[b] - 1)
         /\ At(b, i).branch = b /\ At(b, i).index = i
BY DEF At, Path

\* The branch and the index of a path.
LEMMA PathParts ==
  ASSUME NEW path \in Path
  PROVE  /\ path.branch \in Branch
         /\ path.index \in 0..(MaxIndex[path.branch] - 1)
         /\ path.index \in Nat
         /\ path = At(path.branch, path.index)
<1>1. PICK b \in Branch : path \in [branch: {b}, index: 0..(MaxIndex[b] - 1)]
  BY DEF Path
<1>2. MaxIndex[b] \in Nat
  BY AddressBookAssumption DEF Branch
<1>3. path.branch = b /\ path.index \in 0..(MaxIndex[b] - 1) /\ path = At(b, path.index)
  BY <1>1 DEF At
<1> QED
  BY <1>2, <1>3

\* The address a branch gives next.
LEMMA NextAddressIs ==
  ASSUME NEW b \in Branch, NEW i \in Nat, i < MaxIndex[b]
  PROVE  NewAddress(b, i) \in Address /\ NewAddress(b, i).path = At(b, i)
<1>1. MaxIndex[b] \in Nat
  BY AddressBookAssumption DEF Branch
<1>2. At(b, i) \in Path
  BY <1>1, PathIs
<1> QED
  BY <1>2 DEF NewAddress, Address, At

\* scanBranch ends, at an index behind which there is no activity: at the end
\* of the branch at the latest.
LEMMA EndOfIs ==
  ASSUME active \subseteq Path, NEW b \in Branch, NEW n \in Nat, n <= MaxIndex[b]
  PROVE  EndOf(b, n) \in n..MaxIndex[b] /\ GapAt(b, EndOf(b, n))
<1>1. MaxIndex[b] \in Nat /\ ScanGap \in Nat \ {0}
  BY AddressBookAssumption DEF Branch
<1>2. GapAt(b, MaxIndex[b])
  <2> SUFFICES ASSUME NEW i \in MaxIndex[b]..(MaxIndex[b] + ScanGap - 1)
               PROVE  At(b, i) \notin Path
    BY DEF GapAt, At
  <2> QED
    BY <1>1, PathIs
<1> DEFINE S == {m \in n..MaxIndex[b] : GapAt(b, m)}
<1>3. S \in SUBSET Nat /\ S # {}
  BY <1>1, <1>2
<1>4. PICK m \in S : \A k \in S : m <= k
  BY <1>3, LeastExists
<1>5. /\ m \in n..MaxIndex[b] /\ GapAt(b, m)
      /\ \A k \in n..(m - 1) : ~GapAt(b, k)
  BY <1>1, <1>4
<1> QED
  BY <1>5 DEF EndOf

-----------------------------------------------------------------------------
(* The addresses of sequences.                                              *)

\* Appending addresses adds their paths.
LEMMA PathsOfConcat ==
  ASSUME NEW s \in Seq(Address), NEW t \in Seq(Address)
  PROVE  s \o t \in Seq(Address) /\ PathsOf(s \o t) = PathsOf(s) \cup PathsOf(t)
<1>1. /\ s \o t \in Seq(Address)
      /\ Len(s \o t) = Len(s) + Len(t)
      /\ \A i \in 1..Len(s) + Len(t) :
           (s \o t)[i] = IF i <= Len(s) THEN s[i] ELSE t[i - Len(s)]
  BY ConcatProperties
<1> DEFINE st == s \o t
<1> HIDE DEF st
<1>2. DOMAIN st = 1..(Len(s) + Len(t)) /\ DOMAIN s = 1..Len(s) /\ DOMAIN t = 1..Len(t)
      /\ Len(s) \in Nat /\ Len(t) \in Nat
  BY <1>1 DEF st
<1>3. \A i \in DOMAIN s : i \in DOMAIN st /\ st[i] = s[i]
  BY <1>1, <1>2 DEF st
<1>4. \A i \in DOMAIN t : i + Len(s) \in DOMAIN st /\ st[i + Len(s)] = t[i]
  BY <1>1, <1>2 DEF st
<1>5. \A i \in DOMAIN st : \/ i \in DOMAIN s /\ st[i] = s[i]
                           \/ i - Len(s) \in DOMAIN t /\ st[i] = t[i - Len(s)]
  BY <1>1, <1>2 DEF st
<1>6. PathsOf(st) = PathsOf(s) \cup PathsOf(t)
  BY <1>3, <1>4, <1>5 DEF PathsOf
<1> QED
  BY <1>1, <1>6 DEF st

\* Putting an address in between adds its path.
LEMMA PathsOfInsertAt ==
  ASSUME NEW s \in Seq(Address), NEW i \in 1..(Len(s) + 1), NEW a \in Address
  PROVE  /\ InsertAt(s, i, a) \in Seq(Address)
         /\ PathsOf(InsertAt(s, i, a)) = PathsOf(s) \cup {a.path}
<1>1. Len(s) \in Nat /\ DOMAIN s = 1..Len(s) /\ \A k \in 1..Len(s) : s[k] \in Address
  OBVIOUS
<1> DEFINE front == SubSeq(s, 1, i - 1)
           back == SubSeq(s, i, Len(s))
<1>2. /\ front \in Seq(Address) /\ Len(front) = i - 1
      /\ \A k \in 1..(i - 1) : front[k] = s[k]
  <2>1. 1 \in 1..(Len(s) + 1) /\ i - 1 \in 0..Len(s)
    BY <1>1
  <2> QED
    BY <1>1, <2>1, SubSeqProperties
<1>3. /\ back \in Seq(Address) /\ Len(back) = Len(s) - i + 1
      /\ \A k \in 1..(Len(s) - i + 1) : back[k] = s[i + k - 1]
  <2>1. i \in 1..(Len(s) + 1) /\ Len(s) \in (i - 1)..Len(s)
    BY <1>1
  <2> QED
    BY <1>1, <2>1, SubSeqProperties
<1> HIDE DEF front, back
<1>4. DOMAIN front = 1..(i - 1) /\ DOMAIN back = 1..(Len(s) - i + 1)
  BY <1>2, <1>3
<1>5. PathsOf(front) \cup PathsOf(back) = PathsOf(s)
  <2>1. \A k \in DOMAIN s : \/ k \in DOMAIN front /\ front[k] = s[k]
                            \/ k - i + 1 \in DOMAIN back /\ back[k - i + 1] = s[k]
    <3> SUFFICES ASSUME NEW k \in DOMAIN s
                 PROVE  \/ k \in DOMAIN front /\ front[k] = s[k]
                        \/ k - i + 1 \in DOMAIN back /\ back[k - i + 1] = s[k]
      OBVIOUS
    <3>1. CASE k < i
      BY <1>1, <1>2, <1>4, <3>1
    <3>2. CASE k >= i
      <4>1. k - i + 1 \in 1..(Len(s) - i + 1)
        BY <1>1, <3>2
      <4>2. back[k - i + 1] = s[i + (k - i + 1) - 1]
        BY <1>3, <4>1
      <4>3. i + (k - i + 1) - 1 = k
        BY <1>1
      <4> QED
        BY <1>4, <4>1, <4>2, <4>3
    <3> QED
      BY <1>1, <3>1, <3>2
  <2>2. \A k \in DOMAIN front : k \in DOMAIN s /\ s[k] = front[k]
    BY <1>1, <1>2, <1>4
  <2>3. \A k \in DOMAIN back : i + k - 1 \in DOMAIN s /\ s[i + k - 1] = back[k]
    BY <1>1, <1>3, <1>4
  <2> QED
    BY <2>1, <2>2, <2>3 DEF PathsOf
<1>6. <<a>> \in Seq(Address) /\ PathsOf(<<a>>) = {a.path}
  BY DEF PathsOf
<1>7. /\ front \o <<a>> \in Seq(Address)
      /\ PathsOf(front \o <<a>>) = PathsOf(front) \cup {a.path}
  BY <1>2, <1>6, PathsOfConcat
<1>8. /\ (front \o <<a>>) \o back \in Seq(Address)
      /\ PathsOf((front \o <<a>>) \o back) = PathsOf(front) \cup {a.path} \cup PathsOf(back)
  BY <1>3, <1>7, PathsOfConcat
<1>9. InsertAt(s, i, a) = (front \o <<a>>) \o back
  BY DEF InsertAt, front, back
<1> QED
  BY <1>5, <1>8, <1>9

\* storeAddress keeps the path of what it marks.
LEMMA PathsOfSetActivity ==
  ASSUME addresses \in Seq(Address), NEW path
  PROVE  /\ SetActivity(path) \in Seq(Address)
         /\ PathsOf(SetActivity(path)) = PathsOf(addresses)
<1> DEFINE i == SelectInSeq(addresses, LAMBDA a : a.path = path)
           after == [addresses EXCEPT ![i].hasActivity = TRUE]
<1>1. SetActivity(path) = after
  BY DEF SetActivity
<1> HIDE DEF i
<1>2. \A k \in DOMAIN addresses : addresses[k] \in Address
  OBVIOUS
<1>3. /\ DOMAIN after = DOMAIN addresses
      /\ \A k \in DOMAIN addresses : after[k] \in Address /\ after[k].path = addresses[k].path
  BY <1>2 DEF Address
<1>4. Len(addresses) \in Nat /\ DOMAIN after = 1..Len(addresses)
  BY <1>3
<1>5. after = [k \in 1..Len(addresses) |-> after[k]]
  BY <1>4
<1>6. after \in Seq(Address)
  <2> HIDE DEF after
  <2> QED
    BY <1>3, <1>4, <1>5, IsASeq
<1> HIDE DEF after
<1> QED
  BY <1>1, <1>3, <1>6 DEF PathsOf

-----------------------------------------------------------------------------
(* Every behaviour.                                                         *)

\* More paths cover what fewer do.
LEMMA CoveredByMore ==
  ASSUME NEW index, NEW fewer, NEW more, fewer \subseteq more, Covered(index, fewer)
  PROVE  Covered(index, more)
BY DEF Covered

\* A copy stays covered as addresses are added.
LEMMA CopyStaysCovered ==
  ASSUME NEW h, NEW fewer, NEW more, fewer \subseteq more, CopyCovered(h, fewer)
  PROVE  CopyCovered(h, more)
<1>1. CASE h.pc = "insertAddress"
  <2>1. fewer \cup PathsOf(h.new) \subseteq more \cup PathsOf(h.new)
    OBVIOUS
  <2> QED
    BY <1>1, <2>1, CoveredByMore DEF CopyCovered
<1>2. CASE h.pc # "insertAddress"
  BY <1>2, CoveredByMore DEF CopyCovered
<1> QED
  BY <1>1, <1>2

\* A request that waits, or is idle, has no copy.
LEMMA StartTyped ==
  ASSUME NEW op \in {"none", "createAddress", "createTx", "scan", "addAccess"},
         NEW pc \in {"idle", "checkActivity", "waitLock"}
  PROVE  /\ HandlerType(Start(op, pc))
         /\ \A paths : CopyCovered(Start(op, pc), paths)
         /\ Start(op, pc).pc = pc /\ Start(op, pc).op = op
<1> DEFINE h == Start(op, pc)
<1>1. NewWallet(FALSE) \in Wallet
  BY DEF NewWallet, Wallet
<1>2. << >> \in Seq(Address)
  OBVIOUS
<1>3. HandlerType(h)
  BY <1>1, <1>2 DEF HandlerType, Start, Idle, Branch
<1>4. h.pc = pc /\ h.op = op
  BY DEF Start, Idle
<1> HIDE DEF h
<1>5. \A paths : CopyCovered(h, paths)
  BY <1>4 DEF CopyCovered, HasCopy
<1> QED
  BY <1>3, <1>4, <1>5 DEF h

\* So it is with an idle request.
LEMMA IdleTyped ==
  /\ HandlerType(Idle)
  /\ \A paths : CopyCovered(Idle, paths)
  /\ Idle.pc = "idle" /\ Idle.op = "none"
<1>1. NewWallet(FALSE) \in Wallet
  BY DEF NewWallet, Wallet
<1>2. << >> \in Seq(Address)
  OBVIOUS
<1>3. HandlerType(Idle)
  BY <1>1, <1>2 DEF HandlerType, Idle, Branch
<1>4. Idle.pc = "idle" /\ Idle.op = "none"
  BY DEF Idle
<1> QED
  BY <1>3, <1>4 DEF CopyCovered, HasCopy

\* What a handler that read the document knows.
LEMMA ReadIs ==
  ASSUME wallet \in Wallet,
         NEW op \in {"none", "createAddress", "createTx", "scan", "addAccess"},
         NEW pc \in {"idle", "checkActivity", "waitLock", "insertAddress", "insertNamed",
                     "storeWallet", "scanStart", "scanBranch", "scanStore", "scanEnd"},
         NEW copy \in Wallet, NEW new \in Seq(Address)
  PROVE  LET h == [Read(op, pc) EXCEPT !.wallet = copy, !.new = new] IN
         /\ HandlerType(h)
         /\ h.op = op /\ h.pc = pc /\ h.wallet = copy /\ h.new = new
         /\ h.branch = "main" /\ ~h.failed
<1> DEFINE h == [Read(op, pc) EXCEPT !.wallet = copy, !.new = new]
<1>1. HandlerType(h)
  BY DEF Read, Start, Idle, HandlerType, Branch
<1>2. /\ h.op = op /\ h.pc = pc /\ h.wallet = copy /\ h.new = new
      /\ h.branch = "main" /\ ~h.failed
  BY DEF Read, Start, Idle
<1> QED
  BY <1>1, <1>2

\* The starting state.
LEMMA InitHolds == Init => IInv
<1> SUFFICES ASSUME Init PROVE IInv
  OBVIOUS
<1>1. PICK single \in BOOLEAN : wallet = NewWallet(single)
  BY DEF Init
<1>2. \A r \in Request : req[r] = Idle
  BY DEF Init
<1>3. wallet \in Wallet /\ \A b \in Branch : wallet.index[b] = 0
  BY <1>1 DEF NewWallet, Wallet
<1>4. Typed
  BY <1>2, <1>3, IdleTyped DEF Init, Typed
<1>5. \A b \in Branch : MaxIndex[b] \in Nat
  BY AddressBookAssumption DEF Branch
<1>6. IndexBounded(wallet)
  BY <1>3, <1>5 DEF IndexBounded
<1>7. Covered(wallet.index, PathsOf(addresses))
  BY <1>3 DEF Covered
<1> QED
  BY <1>2, <1>4, <1>6, <1>7, IdleTyped DEF IInv

\* A handler moves, to a state whose copy is covered, and no path is lost.
LEMMA Moves ==
  ASSUME IInv, NEW r \in Request, NEW h,
         req' = [req EXCEPT ![r] = h],
         HandlerType(h), CopyCovered(h, PathsOf(addresses')),
         wallet' \in Wallet, IndexBounded(wallet'),
         Covered(wallet'.index, PathsOf(addresses')),
         addresses' \in Seq(Address),
         PathsOf(addresses) \subseteq PathsOf(addresses'),
         active' \subseteq Path, given' \subseteq Path,
         lock' \in Request \cup {NoRequest}
  PROVE  IInv'
<1>1. req = [q \in Request |-> req[q]]
  BY DEF IInv, Typed
<1>2. /\ req' = [q \in Request |-> req'[q]]
      /\ \A q \in Request : req'[q] = IF q = r THEN h ELSE req[q]
  BY <1>1
<1>3. Typed'
  <2>1. \A q \in Request : HandlerType(req'[q])
    BY <1>2 DEF IInv, Typed
  <2> QED
    BY <1>2, <2>1 DEF Typed, HandlerType
<1>4. \A q \in Request : CopyCovered(req'[q], PathsOf(addresses'))
  <2> SUFFICES ASSUME NEW q \in Request
               PROVE  CopyCovered(req'[q], PathsOf(addresses'))
    OBVIOUS
  <2>1. CASE q = r
    BY <1>2, <2>1
  <2>2. CASE q # r
    BY <1>2, <2>2, CopyStaysCovered DEF IInv
  <2> QED
    BY <2>1, <2>2
<1> QED
  BY <1>3, <1>4 DEF IInv, IndexBounded, Covered, PathsOf, CopyCovered, HasCopy

\* A handler moves and stores nothing.
LEMMA OnlyHandlerMoves ==
  ASSUME IInv, NEW r \in Request, NEW h,
         req' = [req EXCEPT ![r] = h],
         HandlerType(h), CopyCovered(h, PathsOf(addresses)),
         UNCHANGED <<wallet, addresses, active>>,
         given' \subseteq Path,
         lock' \in Request \cup {NoRequest}
  PROVE  IInv'
<1>1. /\ wallet' \in Wallet /\ IndexBounded(wallet')
      /\ Covered(wallet'.index, PathsOf(addresses'))
      /\ addresses' \in Seq(Address)
      /\ PathsOf(addresses) \subseteq PathsOf(addresses')
      /\ active' \subseteq Path
      /\ CopyCovered(h, PathsOf(addresses'))
  BY DEF IInv, Typed
<1> QED
  BY <1>1, Moves

\* The lock is somebody's or nobody's.
LEMMA LockTyped ==
  ASSUME IInv, NEW r \in Request
  PROVE  /\ Acquire(r) => lock' \in Request \cup {NoRequest}
         /\ Return(r) => lock' \in Request \cup {NoRequest}
         /\ UNCHANGED lock => lock' \in Request \cup {NoRequest}
BY DEF IInv, Typed, Acquire, Return

\* The form in which createTx holds what it read and its change address.
LEMMA NamedForm ==
  ASSUME wallet \in Wallet, NEW a \in Address
  PROVE  LET h == [Read("createTx", "insertNamed") EXCEPT !.new = <<a>>] IN
         HandlerType(h) /\ h.pc = "insertNamed" /\ h.wallet = wallet /\ h.new = <<a>>
<1> DEFINE h == [Read("createTx", "insertNamed") EXCEPT !.new = <<a>>]
<1> <<a>> \in Seq(Address)
  OBVIOUS
<1>1. HandlerType(h)
  BY DEF Read, Start, Idle, HandlerType, Branch
<1>2. h.pc = "insertNamed" /\ h.wallet = wallet /\ h.new = <<a>>
  BY DEF Read, Start, Idle
<1> QED
  BY <1>1, <1>2

\* The other forms in which a handler holds what it read.
LEMMA ReadForms ==
  ASSUME wallet \in Wallet,
         NEW op \in {"createTx", "scan", "addAccess"},
         NEW pc \in {"insertNamed", "storeWallet", "scanStart"}
  PROVE  /\ LET h == Read(op, pc) IN
            /\ HandlerType(h)
            /\ h.op = op /\ h.pc = pc /\ h.wallet = wallet /\ h.new = << >>
         /\ \A status \in {"running", "success", "error"} :
              LET h == [Read(op, pc) EXCEPT !.wallet.scanStatus = status] IN
              /\ HandlerType(h)
              /\ h.op = op /\ h.pc = pc /\ h.new = << >>
              /\ h.wallet = [wallet EXCEPT !.scanStatus = status]
<1>1. LET h == Read(op, pc) IN
      /\ HandlerType(h)
      /\ h.op = op /\ h.pc = pc /\ h.wallet = wallet /\ h.new = << >>
  <2> << >> \in Seq(Address)
    OBVIOUS
  <2>1. HandlerType(Read(op, pc))
    BY DEF Read, Start, Idle, HandlerType, Branch
  <2> QED
    BY <2>1 DEF Read, Start, Idle
<1>2. ASSUME NEW status \in {"running", "success", "error"}
      PROVE  LET h == [Read(op, pc) EXCEPT !.wallet.scanStatus = status] IN
             /\ HandlerType(h)
             /\ h.op = op /\ h.pc = pc /\ h.new = << >>
             /\ h.wallet = [wallet EXCEPT !.scanStatus = status]
  <2> DEFINE h == [Read(op, pc) EXCEPT !.wallet.scanStatus = status]
  <2>1. [wallet EXCEPT !.scanStatus = status] \in Wallet
    BY DEF Wallet
  <2>2. /\ h.op = op /\ h.pc = pc /\ h.new = << >>
        /\ h.wallet = [wallet EXCEPT !.scanStatus = status]
    BY DEF Read, Start, Idle
  <2> << >> \in Seq(Address)
    OBVIOUS
  <2>3. HandlerType(h)
    BY <2>1 DEF Read, Start, Idle, HandlerType, Branch
  <2> QED
    BY <2>2, <2>3
<1> QED
  BY <1>1, <1>2

\* wallet.createAddress moves one index on.
LEMMA DeriveIs ==
  ASSUME NEW w \in Wallet, NEW b \in Branch
  PROVE  /\ Derive(w, b) \in Wallet
         /\ Derive(w, b).index[b] = w.index[b] + 1
         /\ \A c \in Branch \ {b} : Derive(w, b).index[c] = w.index[c]
         /\ Derive(w, b).singleAddress = w.singleAddress
         /\ Derive(w, b).scanStatus = w.scanStatus
<1>1. w.index \in [Branch -> Nat]
  BY DEF Wallet
<1> QED
  BY <1>1 DEF Derive, Wallet

\* What the invariant says of the document and of one handler.
LEMMA Known ==
  ASSUME IInv
  PROVE  /\ wallet \in Wallet /\ addresses \in Seq(Address)
         /\ active \subseteq Path /\ given \subseteq Path
         /\ IndexBounded(wallet) /\ Covered(wallet.index, PathsOf(addresses))
         /\ req = [r \in Request |-> req[r]]
         /\ \A r \in Request : /\ HandlerType(req[r])
                               /\ CopyCovered(req[r], PathsOf(addresses))
         /\ \A b \in Branch : wallet.index[b] \in Nat /\ MaxIndex[b] \in Nat
BY AddressBookAssumption DEF IInv, Typed, Wallet, Branch

\* A derived address and the copy that counts it fit together.
LEMMA DerivedCovered ==
  ASSUME IInv, NEW b \in Branch, wallet.index[b] < MaxIndex[b]
  PROVE  /\ <<NextAddress(wallet, b)>> \in Seq(Address)
         /\ PathsOf(<<NextAddress(wallet, b)>>) = {At(b, wallet.index[b])}
         /\ IndexBounded(Derive(wallet, b))
         /\ Covered(Derive(wallet, b).index,
                    PathsOf(addresses) \cup PathsOf(<<NextAddress(wallet, b)>>))
<1> DEFINE a == NextAddress(wallet, b)
           copy == Derive(wallet, b)
<1>1. a \in Address /\ a.path = At(b, wallet.index[b])
  BY Known, NextAddressIs DEF NextAddress
<1>2. /\ copy.index[b] = wallet.index[b] + 1
      /\ \A c \in Branch \ {b} : copy.index[c] = wallet.index[c]
  BY Known, DeriveIs
<1> HIDE DEF a, copy
<1>3. <<a>> \in Seq(Address) /\ PathsOf(<<a>>) = {At(b, wallet.index[b])}
  BY <1>1 DEF PathsOf
<1>4. IndexBounded(copy)
  BY <1>2, Known DEF IndexBounded
<1>5. Covered(copy.index, PathsOf(addresses) \cup PathsOf(<<a>>))
  <2> SUFFICES ASSUME NEW c \in Branch, NEW i \in 0..(copy.index[c] - 1)
               PROVE  At(c, i) \in PathsOf(addresses) \cup {At(b, wallet.index[b])}
    BY <1>3 DEF Covered
  <2>1. CASE i < wallet.index[c]
    BY <2>1, Known DEF Covered
  <2>2. CASE i >= wallet.index[c]
    <3>1. c = b /\ i = wallet.index[b]
      BY <1>2, <2>2, Known
    <3> QED
      BY <3>1
  <2> QED
    BY <2>1, <2>2, Known
<1> QED
  BY <1>3, <1>4, <1>5 DEF a, copy

\* A request that answers.
LEMMA Returns ==
  ASSUME IInv, NEW r \in Request, Return(r),
         wallet' \in Wallet, IndexBounded(wallet'),
         Covered(wallet'.index, PathsOf(addresses')),
         addresses' = addresses, active' = active, given' \subseteq Path
  PROVE  IInv'
<1>1. req' = [req EXCEPT ![r] = Idle]
  BY DEF Return
<1>2. lock' \in Request \cup {NoRequest}
  BY LockTyped
<1> QED
  BY <1>1, <1>2, IdleTyped, Known, Moves

\* createAddress before the lock: the checks of the gap.
LEMMA GapSteps ==
  ASSUME IInv, NEW r \in Request, CreateAddress(r) \/ CheckActivity(r)
  PROVE  IInv'
<1>1. CASE CreateAddress(r)
  <2>1. PICK h : /\ HandlerType(h) /\ CopyCovered(h, PathsOf(addresses))
                 /\ req' = [req EXCEPT ![r] = h]
    <3>1. CASE req' = [req EXCEPT ![r] = Start("createAddress", "waitLock")]
      BY <3>1, StartTyped
    <3>2. CASE req' # [req EXCEPT ![r] = Start("createAddress", "waitLock")]
      <4> DEFINE h == [Start("createAddress", "checkActivity") EXCEPT
                         !.latest = [i \in DOMAIN Latest |-> Latest[i].path]]
      <4>1. req' = [req EXCEPT ![r] = h]
        BY <1>1, <3>2 DEF CreateAddress
      <4>2. HandlerType(h) /\ h.pc = "checkActivity"
        BY StartTyped DEF HandlerType
      <4> HIDE DEF h
      <4>3. CopyCovered(h, PathsOf(addresses))
        BY <4>2 DEF CopyCovered, HasCopy
      <4> QED
        BY <4>1, <4>2, <4>3
    <3> QED
      BY <3>1, <3>2
  <2>2. UNCHANGED <<wallet, addresses, active, given, lock>>
    BY <1>1 DEF CreateAddress
  <2> QED
    BY <2>1, <2>2, Known, LockTyped, OnlyHandlerMoves
<1>2. CASE CheckActivity(r)
  <2>1. UNCHANGED <<wallet, active, given>>
    BY <1>2 DEF CheckActivity
  <2>2. CASE Return(r) /\ addresses' = addresses
    BY <2>1, <2>2, Known, Returns
  <2>3. CASE ~(Return(r) /\ addresses' = addresses)
    <3>1. PICK path :
            /\ addresses' = SetActivity(path)
            /\ req' = [req EXCEPT ![r] = Start("createAddress", "waitLock")]
            /\ lock' = lock
      BY <1>2, <2>3 DEF CheckActivity
    <3>2. addresses' \in Seq(Address) /\ PathsOf(addresses') = PathsOf(addresses)
      BY <3>1, Known, PathsOfSetActivity
    <3> QED
      BY <2>1, <3>1, <3>2, StartTyped, Known, LockTyped, Moves
  <2> QED
    BY <2>2, <2>3
<1> QED
  BY <1>1, <1>2

\* A handler has derived an address, on its copy.
LEMMA Derives ==
  ASSUME IInv, NEW r \in Request,
         NEW op \in {"createAddress", "createTx"}, NEW b \in Branch,
         wallet.index[b] < MaxIndex[b],
         req' = [req EXCEPT ![r] = [Read(op, "insertAddress") EXCEPT
                                      !.wallet = Derive(wallet, b),
                                      !.new = <<NextAddress(wallet, b)>>]],
         Acquire(r), UNCHANGED <<wallet, addresses, active, given>>
  PROVE  IInv'
<1> DEFINE copy == Derive(wallet, b)
           new == <<NextAddress(wallet, b)>>
           h == [Read(op, "insertAddress") EXCEPT !.wallet = copy, !.new = new]
<1>1. /\ new \in Seq(Address) /\ IndexBounded(copy)
      /\ Covered(copy.index, PathsOf(addresses) \cup PathsOf(new))
      /\ copy \in Wallet
  BY Known, DerivedCovered, DeriveIs
<1>2. req' = [req EXCEPT ![r] = h]
  OBVIOUS
<1> HIDE DEF copy, new
<1>3. HandlerType(h) /\ h.pc = "insertAddress" /\ h.wallet = copy /\ h.new = new
  <2>1. wallet \in Wallet
    BY Known
  <2>2. /\ op \in {"none", "createAddress", "createTx", "scan", "addAccess"}
        /\ copy \in Wallet /\ new \in Seq(Address)
    BY <1>1
  <2>3. HandlerType(h)
    BY <2>1, <2>2 DEF Read, Start, Idle, HandlerType, Branch
  <2>4. h.pc = "insertAddress" /\ h.wallet = copy /\ h.new = new
    BY DEF Read, Start, Idle
  <2> QED
    BY <2>3, <2>4
<1> HIDE DEF h
<1>4. CopyCovered(h, PathsOf(addresses))
  BY <1>1, <1>3 DEF CopyCovered, HasCopy
<1> QED
  BY <1>2, <1>3, <1>4, Known, LockTyped, OnlyHandlerMoves

\* createAddress under the lock, and createTx with its change address.
LEMMA DeriveSteps ==
  ASSUME IInv, NEW r \in Request, CreateLocked(r) \/ CreateTx(r)
  PROVE  IInv'
<1>1. CASE CreateLocked(r)
  <2>1. UNCHANGED <<wallet, addresses, active>>
    BY <1>1 DEF CreateLocked
  <2>2. CASE wallet.singleAddress /\ addresses # << >>
    <3>1. given' = given \cup {Head(addresses).path} /\ Return(r)
      BY <1>1, <2>2 DEF CreateLocked
    <3>2. Head(addresses) \in Address
      BY <2>2, Known, HeadTailProperties
    <3>3. given' \subseteq Path
      BY <3>1, <3>2, Known DEF Address
    <3> QED
      BY <2>1, <3>1, <3>3, Known, Returns
  <2>3. CASE ~(wallet.singleAddress /\ addresses # << >>)
    BY <1>1, <2>3, Derives DEF CreateLocked, Branch
  <2> QED
    BY <2>2, <2>3
<1>2. CASE CreateTx(r)
  <2>1. UNCHANGED <<wallet, addresses, active, given>> /\ Acquire(r)
    BY <1>2 DEF CreateTx
  <2>2. CASE /\ wallet.index["change"] < MaxIndex["change"]
             /\ req' = [req EXCEPT ![r] = [Read("createTx", "insertAddress") EXCEPT
                          !.wallet = Derive(wallet, "change"),
                          !.new = <<NextAddress(wallet, "change")>>]]
    BY <2>1, <2>2, Derives DEF Branch
  <2>3. ASSUME NEW i \in DOMAIN addresses,
               req' = [req EXCEPT ![r] = [Read("createTx", "insertNamed") EXCEPT
                                            !.new = <<addresses[i]>>]]
        PROVE  IInv'
    <3> DEFINE a == addresses[i]
               h == [Read("createTx", "insertNamed") EXCEPT !.new = <<a>>]
    <3>1. a \in Address
      BY Known, ElementOfSeq
    <3>2. req' = [req EXCEPT ![r] = h]
      BY <2>3
    <3> HIDE DEF a
    <3>3. HandlerType(h) /\ h.pc = "insertNamed" /\ h.wallet = wallet /\ h.new = <<a>>
      <4>1. wallet \in Wallet
        BY Known
      <4> QED
        BY <3>1, <4>1, NamedForm
    <3> HIDE DEF h
    <3>4. CopyCovered(h, PathsOf(addresses))
      BY <3>3, Known DEF CopyCovered, HasCopy
    <3> QED
      BY <2>1, <3>2, <3>3, <3>4, Known, LockTyped, OnlyHandlerMoves
  <2> QED
    BY <1>2, <2>2, <2>3 DEF CreateTx
<1> QED
  BY <1>1, <1>2

\* A handler's fields.
LEMMA HandlerFields ==
  ASSUME NEW h, HandlerType(h)
  PROVE  /\ h.wallet \in Wallet /\ h.new \in Seq(Address) /\ h.branch \in Branch
         /\ h.failed \in BOOLEAN /\ h.late \in BOOLEAN
         /\ PathsOf(h.new) \subseteq Path
         /\ \A b \in Branch : h.wallet.index[b] \in Nat
         /\ DOMAIN h = {"pc", "op", "wallet", "new", "latest", "branch", "failed", "late"}
<1>1. /\ h.wallet \in Wallet /\ h.new \in Seq(Address) /\ h.branch \in Branch
      /\ h.failed \in BOOLEAN /\ h.late \in BOOLEAN
      /\ DOMAIN h = {"pc", "op", "wallet", "new", "latest", "branch", "failed", "late"}
  BY DEF HandlerType
<1>2. PathsOf(h.new) \subseteq Path
  <2>1. \A k \in DOMAIN h.new : h.new[k] \in Address
    BY <1>1, ElementOfSeq
  <2> QED
    BY <2>1 DEF PathsOf, Address
<1>3. \A b \in Branch : h.wallet.index[b] \in Nat
  BY <1>1 DEF Wallet
<1> QED
  BY <1>1, <1>2, <1>3

\* A handler goes on to another place with the same copy.
LEMMA GoesOn ==
  ASSUME NEW h, HandlerType(h),
         NEW pc \in {"idle", "checkActivity", "waitLock", "insertAddress", "insertNamed",
                     "storeWallet", "scanStart", "scanBranch", "scanStore", "scanEnd"}
  PROVE  LET g == [h EXCEPT !.pc = pc] IN
         /\ HandlerType(g)
         /\ g.pc = pc /\ g.op = h.op /\ g.wallet = h.wallet /\ g.new = h.new
         /\ g.branch = h.branch /\ g.failed = h.failed /\ g.late = h.late
<1> DEFINE g == [h EXCEPT !.pc = pc]
<1>1. /\ g.pc = pc /\ g.op = h.op /\ g.wallet = h.wallet /\ g.new = h.new
      /\ g.branch = h.branch /\ g.failed = h.failed /\ g.late = h.late
  BY DEF HandlerType
<1>2. HandlerType(g)
  BY DEF HandlerType
<1> QED
  BY <1>1, <1>2

\* The addresses it derived are inserted.
LEMMA InsertAddressStep ==
  ASSUME IInv, NEW r \in Request, InsertAddress(r)
  PROVE  IInv'
<1> DEFINE h == req[r]
           pc == IF h.op = "scan" THEN "scanStore" ELSE "storeWallet"
           g == [h EXCEPT !.pc = pc]
<1>1. HandlerType(h) /\ CopyCovered(h, PathsOf(addresses)) /\ h.new \in Seq(Address)
  BY Known, HandlerFields
<1>2. /\ addresses' = addresses \o h.new
      /\ req' = [req EXCEPT ![r] = g]
      /\ UNCHANGED <<wallet, active, given, lock>>
      /\ h.pc = "insertAddress"
  BY DEF InsertAddress
<1>3. pc \in {"scanStore", "storeWallet"}
  OBVIOUS
<1> HIDE DEF h, pc
<1>4. /\ HandlerType(g) /\ g.pc = pc /\ g.wallet = h.wallet
  BY <1>1, <1>3 DEF HandlerType
<1>5. /\ addresses' \in Seq(Address)
      /\ PathsOf(addresses') = PathsOf(addresses) \cup PathsOf(h.new)
  <2>1. addresses \in Seq(Address)
    BY Known
  <2>2. /\ addresses \o h.new \in Seq(Address)
        /\ PathsOf(addresses \o h.new) = PathsOf(addresses) \cup PathsOf(h.new)
    BY <2>1, <1>1, PathsOfConcat
  <2> QED
    BY <1>2, <2>2
<1> HIDE DEF g
<1>6. CopyCovered(g, PathsOf(addresses'))
  <2>1. /\ IndexBounded(h.wallet)
        /\ Covered(h.wallet.index, PathsOf(addresses) \cup PathsOf(h.new))
    BY <1>1, <1>2 DEF CopyCovered, HasCopy
  <2> QED
    BY <2>1, <1>3, <1>4, <1>5 DEF CopyCovered
<1>7. Covered(wallet'.index, PathsOf(addresses')) /\ IndexBounded(wallet')
  BY <1>2, <1>5, Known, CoveredByMore
<1> QED
  BY <1>2, <1>4, <1>5, <1>6, <1>7, Known, LockTyped, Moves

\* The named address is inserted next to itself.
LEMMA InsertNamedStep ==
  ASSUME IInv, NEW r \in Request, InsertNamed(r)
  PROVE  IInv'
<1> DEFINE h == req[r]
           copy == Head(h.new)
           i == SelectLastInSeq(addresses, LAMBDA a : a.path = copy.path)
           g == [h EXCEPT !.pc = "storeWallet"]
<1>1. HandlerType(h) /\ CopyCovered(h, PathsOf(addresses)) /\ h.new \in Seq(Address)
  BY Known, HandlerFields
<1>2. /\ addresses' = InsertAt(addresses, i + 1, copy)
      /\ req' = [req EXCEPT ![r] = g]
      /\ UNCHANGED <<wallet, active, given, lock>>
      /\ h.pc = "insertNamed"
  BY DEF InsertNamed
<1> HIDE DEF h
<1>3. copy \in Address
  <2>1. h.new # << >>
    BY <1>1, <1>2 DEF CopyCovered
  <2> QED
    BY <2>1, <1>1, HeadTailProperties
<1>4. addresses \in Seq(Address) /\ Len(addresses) \in Nat
  BY Known
<1>5. i \in 0..Len(addresses)
  <2> DEFINE I == {k \in 1..Len(addresses) : addresses[k].path = copy.path}
  <2>1. i = IF I # {} THEN Max(I) ELSE 0
    BY DEF SelectLastInSeq
  <2>2. I \in SUBSET (1..Len(addresses))
    OBVIOUS
  <2> HIDE DEF I, i
  <2> QED
    BY <1>4, <2>1, <2>2, LastPosition
<1> HIDE DEF copy, i
<1>6. /\ addresses' \in Seq(Address)
      /\ PathsOf(addresses') = PathsOf(addresses) \cup {copy.path}
  <2>1. i + 1 \in 1..(Len(addresses) + 1)
    BY <1>4, <1>5
  <2>2. /\ InsertAt(addresses, i + 1, copy) \in Seq(Address)
        /\ PathsOf(InsertAt(addresses, i + 1, copy)) = PathsOf(addresses) \cup {copy.path}
    BY <1>3, <1>4, <2>1, PathsOfInsertAt
  <2> QED
    BY <1>2, <2>2
<1>7. HandlerType(g) /\ g.pc = "storeWallet" /\ g.wallet = h.wallet
  BY <1>1, GoesOn
<1> HIDE DEF g
<1>8. CopyCovered(g, PathsOf(addresses'))
  <2>1. IndexBounded(h.wallet) /\ Covered(h.wallet.index, PathsOf(addresses))
    BY <1>1, <1>2 DEF CopyCovered, HasCopy
  <2> QED
    BY <2>1, <1>6, <1>7, CoveredByMore DEF CopyCovered
<1>9. Covered(wallet'.index, PathsOf(addresses')) /\ IndexBounded(wallet')
  BY <1>2, <1>6, Known, CoveredByMore
<1> QED
  BY <1>2, <1>6, <1>7, <1>8, <1>9, Known, LockTyped, Moves

\* The copy is stored, and the handler answers.
LEMMA StoreWalletStep ==
  ASSUME IInv, NEW r \in Request, StoreWallet(r)
  PROVE  IInv'
<1>1. /\ wallet' = req[r].wallet /\ Return(r) /\ req[r].pc = "storeWallet"
      /\ given' = given \cup PathsOf(req[r].new)
      /\ UNCHANGED <<addresses, active>>
  BY DEF StoreWallet, PathsOf
<1>2. HandlerType(req[r]) /\ CopyCovered(req[r], PathsOf(addresses))
  BY Known
<1>3. wallet' \in Wallet /\ given' \subseteq Path
  BY <1>1, <1>2, Known, HandlerFields
<1>4. IndexBounded(wallet') /\ Covered(wallet'.index, PathsOf(addresses'))
  BY <1>1, <1>2 DEF CopyCovered, HasCopy
<1> QED
  BY <1>1, <1>3, <1>4, Returns

\* addAccess, scan's start and its end read the document.
LEMMA ReadSteps ==
  ASSUME IInv, NEW r \in Request, AddAccess(r) \/ Scan(r) \/ ScanEnd(r)
  PROVE  IInv'
<1>1. UNCHANGED <<wallet, addresses, active, given>> /\ lock' \in Request \cup {NoRequest}
  BY LockTyped DEF AddAccess, Scan, ScanEnd
<1>2. PICK h : /\ req' = [req EXCEPT ![r] = h]
               /\ HandlerType(h) /\ h.wallet.index = wallet.index /\ h.pc # "insertAddress"
               /\ h.pc # "insertNamed"
  <2>1. wallet \in Wallet
    BY Known
  <2>2. CASE AddAccess(r)
    <3> DEFINE h == Read("addAccess", "storeWallet")
    <3>1. HandlerType(h) /\ h.pc = "storeWallet" /\ h.wallet = wallet
      BY <2>1, ReadForms
    <3>2. req' = [req EXCEPT ![r] = h]
      BY <2>2 DEF AddAccess
    <3> HIDE DEF h
    <3> QED
      BY <3>1, <3>2, Zenon
  <2>3. ASSUME NEW pc \in {"scanStart", "storeWallet"},
               NEW status \in {"running", "success", "error"}, NEW late \in BOOLEAN,
               req' = [req EXCEPT ![r] = [Read("scan", pc) EXCEPT
                                            !.wallet.scanStatus = status, !.late = late]]
        PROVE  \E h : /\ req' = [req EXCEPT ![r] = h]
                      /\ HandlerType(h) /\ h.wallet.index = wallet.index
                      /\ h.pc # "insertAddress" /\ h.pc # "insertNamed"
    <3> DEFINE h == [Read("scan", pc) EXCEPT !.wallet.scanStatus = status, !.late = late]
    <3>1. /\ HandlerType(h) /\ h.pc = pc
          /\ h.wallet = [wallet EXCEPT !.scanStatus = status]
      <4>1. [wallet EXCEPT !.scanStatus = status] \in Wallet
        BY <2>1 DEF Wallet
      <4>2. h.pc = pc /\ h.wallet = [wallet EXCEPT !.scanStatus = status]
        BY DEF Read, Start, Idle
      <4>3. << >> \in Seq(Address)
        OBVIOUS
      <4>4. HandlerType(h)
        BY <2>1, <4>1, <4>3 DEF Read, Start, Idle, HandlerType, Branch
      <4> QED
        BY <4>2, <4>4
    <3>2. req' = [req EXCEPT ![r] = h]
      BY <2>3
    <3>3. [wallet EXCEPT !.scanStatus = status].index = wallet.index
      BY <2>1 DEF Wallet
    <3> HIDE DEF h
    <3> QED
      BY <3>1, <3>2, <3>3
  <2>4. CASE Scan(r)
    <3> DEFINE h == [Read("scan", "scanStart") EXCEPT !.wallet.scanStatus = "running"]
    <3>1. HandlerType(h)
      BY <2>1, ReadForms
    <3>2. ~h.late
      BY DEF Read, Start, Idle
    <3>3. [h EXCEPT !.late = FALSE] =
            [Read("scan", "scanStart") EXCEPT !.wallet.scanStatus = "running", !.late = FALSE]
      OBVIOUS
    <3>4. req' = [req EXCEPT ![r] = h]
      BY <2>4 DEF Scan
    <3> HIDE DEF h
    <3>5. [h EXCEPT !.late = FALSE] = h
      BY <3>1, <3>2 DEF HandlerType
    <3> QED
      BY <2>3, <3>3, <3>4, <3>5
  <2>5. CASE ScanEnd(r)
    <3>0. req[r].late \in BOOLEAN
      BY Known, HandlerFields
    <3>1. CASE req[r].failed
      BY <2>5, <3>0, <3>1, <2>3 DEF ScanEnd
    <3>2. CASE ~req[r].failed
      BY <2>5, <3>0, <3>2, <2>3 DEF ScanEnd
    <3> QED
      BY <3>1, <3>2
  <2> QED
    BY <2>2, <2>4, <2>5
<1>3. IndexBounded(h.wallet) /\ Covered(h.wallet.index, PathsOf(addresses))
  BY <1>2, Known DEF IndexBounded
<1>4. CopyCovered(h, PathsOf(addresses))
  BY <1>2, <1>3 DEF CopyCovered
<1> QED
  BY <1>1, <1>2, <1>4, Known, OnlyHandlerMoves

\* The scan's start stores the document as running.
LEMMA ScanStartStep ==
  ASSUME IInv, NEW r \in Request, ScanStart(r)
  PROVE  IInv'
<1> DEFINE h == req[r]
           g == [h EXCEPT !.pc = "scanBranch"]
<1>1. HandlerType(h) /\ CopyCovered(h, PathsOf(addresses))
  BY Known
<1>2. /\ wallet' = h.wallet /\ req' = [req EXCEPT ![r] = g]
      /\ UNCHANGED <<addresses, active, given, lock>>
      /\ h.pc = "scanStart"
  BY DEF ScanStart
<1> HIDE DEF h
<1>3. HandlerType(g) /\ g.pc = "scanBranch" /\ g.wallet = h.wallet
  BY <1>1, GoesOn
<1>4. h.wallet \in Wallet /\ IndexBounded(h.wallet)
      /\ Covered(h.wallet.index, PathsOf(addresses))
  BY <1>1, <1>2, HandlerFields DEF CopyCovered, HasCopy
<1> HIDE DEF g
<1>5. CopyCovered(g, PathsOf(addresses'))
  BY <1>2, <1>3, <1>4 DEF CopyCovered
<1> QED
  BY <1>2, <1>3, <1>4, <1>5, Known, LockTyped, Moves

\* What the scan goes on with, its copy as it is, when a branch is done.
LEMMA NextBranchIs ==
  ASSUME NEW r \in Request, HandlerType(req[r]), NextBranch(r),
         req = [q \in Request |-> req[q]]
  PROVE  \E g : /\ req' = [req EXCEPT ![r] = g]
                /\ HandlerType(g) /\ g.wallet = req[r].wallet
                /\ g.op = req[r].op /\ g.new = req[r].new /\ g.failed = req[r].failed
                /\ g.late = req[r].late
                /\ \/ /\ req[r].branch = "main" /\ g.pc = "scanBranch"
                      /\ g.branch = "change"
                   \/ /\ req[r].branch = "change" /\ g.pc = "scanEnd"
                      /\ g.branch = "change"
<1> DEFINE h == req[r]
<1>1. HandlerType(h) /\ h.branch \in Branch
  BY HandlerFields
<1>2. CASE h.branch = "main"
  <2> DEFINE g == [h EXCEPT !.pc = "scanBranch", !.branch = "change"]
  <2>1. req' = [req EXCEPT ![r].pc = "scanBranch", ![r].branch = "change"]
    BY <1>2 DEF NextBranch
  <2>2. req' = [req EXCEPT ![r] = g]
    BY <2>1
  <2> HIDE DEF h
  <2>3. /\ HandlerType(g) /\ g.wallet = h.wallet /\ g.pc = "scanBranch"
        /\ g.op = h.op /\ g.new = h.new /\ g.failed = h.failed /\ g.branch = "change"
        /\ g.late = h.late
    BY <1>1 DEF HandlerType, Branch
  <2> HIDE DEF g
  <2> QED
    BY <1>2, <2>2, <2>3 DEF h
<1>3. CASE h.branch = "change"
  <2> DEFINE g == [h EXCEPT !.pc = "scanEnd"]
  <2>1. req' = [req EXCEPT ![r] = g]
    BY <1>3 DEF NextBranch
  <2> HIDE DEF h
  <2>2. /\ HandlerType(g) /\ g.wallet = h.wallet /\ g.pc = "scanEnd"
        /\ g.op = h.op /\ g.new = h.new /\ g.failed = h.failed /\ g.branch = "change"
        /\ g.late = h.late
    BY <1>1, <1>3 DEF HandlerType
  <2> HIDE DEF g
  <2> QED
    BY <1>3, <2>1, <2>2 DEF h
<1> QED
  BY <1>1, <1>2, <1>3 DEF Branch

\* scanBranch's result: the addresses up to the end, and the copy's index there.
LEMMA ScannedIs ==
  ASSUME active \subseteq Path, NEW h, HandlerType(h), IndexBounded(h.wallet),
         EndOf(h.branch, h.wallet.index[h.branch]) # h.wallet.index[h.branch]
  PROVE  LET b == h.branch
             from == h.wallet.index[b]
             end == EndOf(b, from)
             new == [i \in 1..(end - from) |-> NewAddress(b, from + i - 1)]
             g == [h EXCEPT !.pc = "insertAddress", !.wallet.index[b] = end, !.new = new]
         IN  /\ HandlerType(g)
             /\ g.pc = "insertAddress" /\ g.op = h.op /\ g.branch = b
             /\ g.failed = h.failed /\ g.late = h.late /\ g.new = new
             /\ PathsOf(new) = {At(b, i) : i \in from..(end - 1)}
             /\ g.wallet.index[b] = end
             /\ \A c \in Branch \ {b} : g.wallet.index[c] = h.wallet.index[c]
             /\ g.wallet.singleAddress = h.wallet.singleAddress
             /\ g.wallet.scanStatus = h.wallet.scanStatus
             /\ end \in (from + 1)..MaxIndex[b] /\ GapAt(b, end)
<1> DEFINE b == h.branch
           from == h.wallet.index[b]
           end == EndOf(b, from)
           new == [i \in 1..(end - from) |-> NewAddress(b, from + i - 1)]
           copy == [h.wallet EXCEPT !.index[b] = end]
           g == [h EXCEPT !.pc = "insertAddress", !.wallet.index[b] = end, !.new = new]
<1>1. /\ b \in Branch /\ from \in Nat /\ MaxIndex[b] \in Nat /\ from <= MaxIndex[b]
      /\ h.wallet \in Wallet
  BY HandlerFields, AddressBookAssumption DEF IndexBounded, Branch
<1>2. end \in (from + 1)..MaxIndex[b] /\ GapAt(b, end)
  <2> HIDE DEF b, from
  <2>1. EndOf(b, from) \in from..MaxIndex[b] /\ GapAt(b, EndOf(b, from))
    BY <1>1, EndOfIs
  <2>2. EndOf(b, from) # from
    BY DEF b, from
  <2> QED
    BY <1>1, <2>1, <2>2
<1> HIDE DEF from, end
<1>3. \A i \in 1..(end - from) :
        /\ NewAddress(b, from + i - 1) \in Address
        /\ NewAddress(b, from + i - 1).path = At(b, from + i - 1)
  <2> SUFFICES ASSUME NEW i \in 1..(end - from)
               PROVE  /\ NewAddress(b, from + i - 1) \in Address
                      /\ NewAddress(b, from + i - 1).path = At(b, from + i - 1)
    OBVIOUS
  <2>1. from + i - 1 \in Nat /\ from + i - 1 < MaxIndex[b]
    BY <1>1, <1>2
  <2> QED
    BY <1>1, <2>1, NextAddressIs
<1>4. end - from \in Nat /\ end \in Nat
  BY <1>1, <1>2
<1>5. new \in Seq(Address)
  BY <1>3, <1>4, IsASeq
<1>6. PathsOf(new) = {At(b, i) : i \in from..(end - 1)}
  <2>1. DOMAIN new = 1..(end - from)
    OBVIOUS
  <2>2. \A i \in 1..(end - from) : new[i].path = At(b, from + i - 1)
    BY <1>3
  <2> HIDE DEF new, b
  <2>3. \A i \in from..(end - 1) : /\ i - from + 1 \in 1..(end - from)
                                   /\ from + (i - from + 1) - 1 = i
    BY <1>1, <1>4
  <2>4. \A i \in 1..(end - from) : from + i - 1 \in from..(end - 1)
    BY <1>1, <1>4
  <2>5. PathsOf(new) = {new[i].path : i \in 1..(end - from)}
    BY <2>1 DEF PathsOf
  <2>6. \A x \in PathsOf(new) : \E i \in from..(end - 1) : x = At(b, i)
    BY <2>2, <2>4, <2>5
  <2>7. \A i \in from..(end - 1) : At(b, i) \in PathsOf(new)
    BY <2>2, <2>3, <2>5
  <2> QED
    BY <2>6, <2>7
<1> HIDE DEF new
<1>7. /\ copy \in Wallet /\ copy.index[b] = end
      /\ \A c \in Branch \ {b} : copy.index[c] = h.wallet.index[c]
      /\ copy.singleAddress = h.wallet.singleAddress
      /\ copy.scanStatus = h.wallet.scanStatus
  BY <1>1, <1>4 DEF Wallet
<1>8. /\ HandlerType(g) /\ g.wallet = copy /\ g.pc = "insertAddress" /\ g.op = h.op
      /\ g.branch = b /\ g.failed = h.failed /\ g.late = h.late /\ g.new = new
  <2>1. /\ g.wallet = copy /\ g.pc = "insertAddress" /\ g.op = h.op
        /\ g.branch = b /\ g.failed = h.failed /\ g.late = h.late /\ g.new = new
    BY DEF HandlerType
  <2>2. g = [h EXCEPT !.pc = "insertAddress", !.wallet = copy, !.new = new]
    OBVIOUS
  <2> HIDE DEF copy, g, b
  <2>3. HandlerType(g)
    BY <1>5, <1>7, <2>2 DEF HandlerType
  <2> QED
    BY <2>1, <2>3
<1> QED
  <2> HIDE DEF copy, g
  <2> QED
    BY <1>2, <1>6, <1>7, <1>8, Zenon DEF g, new, end, from, b

\* scan, branch by branch.
LEMMA ScanBranchStep ==
  ASSUME IInv, NEW r \in Request, ScanBranch(r)
  PROVE  IInv'
<1> DEFINE h == req[r]
           b == h.branch
           from == h.wallet.index[b]
           end == EndOf(b, from)
           new == [i \in 1..(end - from) |-> NewAddress(b, from + i - 1)]
           g == [h EXCEPT !.pc = "insertAddress", !.wallet.index[b] = end, !.new = new]
<1>1. /\ HandlerType(h) /\ CopyCovered(h, PathsOf(addresses))
      /\ h.pc = "scanBranch" /\ active \subseteq Path
      /\ UNCHANGED <<wallet, addresses, active, given, lock>>
  BY Known DEF ScanBranch
<1>2. IndexBounded(h.wallet) /\ Covered(h.wallet.index, PathsOf(addresses))
  BY <1>1 DEF CopyCovered, HasCopy
<1>3. CASE end = from
  <2>1. NextBranch(r)
    BY <1>3 DEF ScanBranch
  <2>2. req = [q \in Request |-> req[q]]
    BY Known
  <2>3. PICK k : /\ req' = [req EXCEPT ![r] = k] /\ HandlerType(k)
                 /\ k.wallet = h.wallet /\ k.pc \in {"scanBranch", "scanEnd"}
    BY <1>1, <2>1, <2>2, NextBranchIs
  <2> HIDE DEF h
  <2>4. CopyCovered(k, PathsOf(addresses))
    BY <1>2, <2>3 DEF CopyCovered
  <2> QED
    BY <1>1, <2>3, <2>4, Known, LockTyped, OnlyHandlerMoves
<1>4. CASE end # from
  <2>1. req' = [req EXCEPT ![r] = g]
    BY <1>4 DEF ScanBranch
  <2>2. /\ HandlerType(g) /\ g.pc = "insertAddress" /\ g.new = new
        /\ PathsOf(new) = {At(b, i) : i \in from..(end - 1)}
        /\ g.wallet.index[b] = end
        /\ \A c \in Branch \ {b} : g.wallet.index[c] = h.wallet.index[c]
        /\ end \in (from + 1)..MaxIndex[b]
    <3> HIDE DEF h
    <3> QED
      BY <1>1, <1>2, <1>4, ScannedIs, Zenon
  <2>3. b \in Branch /\ from \in Nat /\ MaxIndex[b] \in Nat
    BY <1>1, HandlerFields, AddressBookAssumption DEF Branch
  <2> HIDE DEF g, new, end
  <2>4. IndexBounded(g.wallet)
    BY <1>2, <2>2, <2>3 DEF IndexBounded
  <2>5. Covered(g.wallet.index, PathsOf(addresses) \cup PathsOf(g.new))
    <3> SUFFICES ASSUME NEW c \in Branch, NEW i \in 0..(g.wallet.index[c] - 1)
                 PROVE  At(c, i) \in PathsOf(addresses) \cup PathsOf(new)
      BY <2>2 DEF Covered
    <3>1. CASE c # b
      <4>1. i \in 0..(h.wallet.index[c] - 1)
        BY <2>2, <3>1
      <4> QED
        BY <1>2, <4>1 DEF Covered
    <3>2. CASE c = b /\ i < from
      <4>1. i \in 0..(h.wallet.index[c] - 1)
        BY <2>2, <2>3, <3>2
      <4> QED
        BY <1>2, <4>1 DEF Covered
    <3>3. CASE c = b /\ ~(i < from)
      <4>1. i \in from..(end - 1)
        BY <2>2, <2>3, <3>3
      <4> QED
        BY <2>2, <3>3, <4>1
    <3> QED
      BY <3>1, <3>2, <3>3
  <2>6. CopyCovered(g, PathsOf(addresses))
    BY <2>2, <2>4, <2>5 DEF CopyCovered
  <2> QED
    BY <1>1, <2>1, <2>2, <2>6, Known, LockTyped, OnlyHandlerMoves, Zenon
<1> QED
  BY <1>3, <1>4

\* What it derived is stored with the addresses in place.
LEMMA ScanStoreStep ==
  ASSUME IInv, NEW r \in Request, ScanStore(r)
  PROVE  IInv'
<1>1. /\ wallet' = req[r].wallet /\ NextBranch(r) /\ req[r].pc = "scanStore"
      /\ UNCHANGED <<addresses, active, given, lock>>
  BY DEF ScanStore
<1>2. HandlerType(req[r]) /\ CopyCovered(req[r], PathsOf(addresses))
      /\ req = [q \in Request |-> req[q]]
  BY Known
<1>3. PICK g : /\ req' = [req EXCEPT ![r] = g] /\ HandlerType(g)
               /\ g.wallet = req[r].wallet /\ g.pc \in {"scanBranch", "scanEnd"}
  BY <1>1, <1>2, NextBranchIs
<1>4. /\ req[r].wallet \in Wallet /\ IndexBounded(req[r].wallet)
      /\ Covered(req[r].wallet.index, PathsOf(addresses))
  BY <1>1, <1>2, HandlerFields DEF CopyCovered, HasCopy
<1>5. CopyCovered(g, PathsOf(addresses'))
  BY <1>1, <1>3, <1>4 DEF CopyCovered
<1> QED
  BY <1>1, <1>3, <1>4, <1>5, Known, LockTyped, Moves

\* What it goes on with after an error.
LEMMA FailedIs ==
  ASSUME NEW h, HandlerType(h)
  PROVE  LET g == [h EXCEPT !.pc = "scanEnd", !.failed = TRUE] IN
         HandlerType(g) /\ g.pc = "scanEnd" /\ g.failed /\ g.op = h.op /\ g.late = h.late
BY DEF HandlerType

\* What a handler is that goes on without the lock it had.
LEMMA LateIs ==
  ASSUME NEW h, HandlerType(h)
  PROVE  LET g == [h EXCEPT !.late = TRUE] IN
         /\ HandlerType(g) /\ g.late
         /\ g.pc = h.pc /\ g.op = h.op /\ g.wallet = h.wallet /\ g.new = h.new
         /\ g.latest = h.latest /\ g.branch = h.branch /\ g.failed = h.failed
BY DEF HandlerType

\* An error of the scan, and of any request.
LEMMA FailSteps ==
  ASSUME IInv, NEW r \in Request, ScanFails(r) \/ Fail(r)
  PROVE  IInv'
<1>1. CASE ScanFails(r)
  <2> DEFINE h == req[r]
             g == [h EXCEPT !.pc = "scanEnd", !.failed = TRUE]
  <2>1. /\ req' = [req EXCEPT ![r] = g]
        /\ UNCHANGED <<wallet, addresses, active, given, lock>>
    BY <1>1 DEF ScanFails
  <2>2. HandlerType(h)
    BY Known
  <2> HIDE DEF h
  <2>3. HandlerType(g) /\ g.pc = "scanEnd"
    BY <2>2, FailedIs
  <2> HIDE DEF g
  <2>4. CopyCovered(g, PathsOf(addresses))
    BY <2>3 DEF CopyCovered, HasCopy
  <2> QED
    BY <2>1, <2>3, <2>4, Known, LockTyped, OnlyHandlerMoves
<1>2. CASE Fail(r)
  BY <1>2, Known, Returns DEF Fail
<1> QED
  BY <1>1, <1>2

\* The lock is given on, and its holder goes on.
LEMMA ExpiryStep ==
  ASSUME IInv, LockExpires
  PROVE  IInv'
<1> DEFINE r == lock
           h == req[r]
           g == [h EXCEPT !.late = TRUE]
<1>1. /\ req' = [req EXCEPT ![r] = g] /\ lock' = NoRequest
      /\ UNCHANGED <<wallet, addresses, active, given>>
  BY DEF LockExpires
<1>2. r \in Request
  BY DEF IInv, Typed, LockExpires
<1>3. HandlerType(h) /\ CopyCovered(h, PathsOf(addresses)) /\ given \subseteq Path
  BY <1>2, Known
<1> HIDE DEF h, r
<1>4. HandlerType(g) /\ g.pc = h.pc /\ g.wallet = h.wallet /\ g.new = h.new
  BY <1>3, LateIs
<1> HIDE DEF g
<1>5. CopyCovered(g, PathsOf(addresses))
  BY <1>3, <1>4 DEF CopyCovered, HasCopy
<1> QED
  BY <1>1, <1>2, <1>3, <1>4, <1>5, OnlyHandlerMoves

\* Nothing moves, or somebody pays.
LEMMA OthersStay ==
  ASSUME IInv, active' \subseteq Path, UNCHANGED <<wallet, addresses, given, lock, req>>
  PROVE  IInv'
BY DEF IInv, Typed, HandlerType, IndexBounded, Covered, PathsOf, CopyCovered, HasCopy

\* Every step.
LEMMA NextHolds == IInv /\ [Next]_vars => IInv'
<1> SUFFICES ASSUME IInv, [Next]_vars PROVE IInv'
  OBVIOUS
<1>1. ASSUME NEW path \in Path, Activity(path)
      PROVE  IInv'
  BY <1>1, Known, OthersStay DEF Activity
<1>2. ASSUME NEW r \in Request, CreateAddress(r) \/ CheckActivity(r)
      PROVE  IInv'
  BY <1>2, GapSteps
<1>3. ASSUME NEW r \in Request, CreateLocked(r) \/ CreateTx(r)
      PROVE  IInv'
  BY <1>3, DeriveSteps
<1>4. ASSUME NEW r \in Request, InsertAddress(r) \/ InsertNamed(r) \/ StoreWallet(r)
      PROVE  IInv'
  BY <1>4, InsertAddressStep, InsertNamedStep, StoreWalletStep
<1>5. ASSUME NEW r \in Request, AddAccess(r) \/ Scan(r) \/ ScanEnd(r)
      PROVE  IInv'
  BY <1>5, ReadSteps
<1>6. ASSUME NEW r \in Request, ScanStart(r) \/ ScanBranch(r) \/ ScanStore(r)
      PROVE  IInv'
  BY <1>6, ScanStartStep, ScanBranchStep, ScanStoreStep
<1>7. ASSUME NEW r \in Request, ScanFails(r) \/ Fail(r)
      PROVE  IInv'
  BY <1>7, FailSteps
<1>8. CASE UNCHANGED vars
  BY <1>8, Known, OthersStay DEF vars
<1>9. CASE LockExpires
  BY <1>9, ExpiryStep
<1> QED
  BY <1>1, <1>2, <1>3, <1>4, <1>5, <1>6, <1>7, <1>8, <1>9 DEF Next

\* The inductive invariant of every behaviour of AddressBook.
THEOREM Invariance == Spec => []IInv
BY InitHolds, NextHolds, PTL DEF Spec

\* However requests interleave, fail, stop and outlive the lock, createAddress,
\* createTx, scan and addAccess leave no index past an address that is not stored.
THEOREM AllStored == Spec => []AddressesStored
<1>1. IInv => AddressesStored
  BY DEF IInv, Covered, PathsOf, At, AddressesStored
<1> QED
  BY <1>1, Invariance, PTL

-----------------------------------------------------------------------------
(* When a handler without the lock has the wallet for itself.               *)

\* The gap of the module is the one of its set of paths.
LEMMA GapIs == \A b, n : GapAt(b, n) <=> GapIn(active, b, n)
BY DEF GapAt, GapIn, At

\* A request that waits, or is idle, fits any document.
LEMMA WaitingFits ==
  ASSUME NEW h, NEW w, NEW paid, WaitsAt(h), ~Busy(h)
  PROVE  Fits(h, w, paid)
BY DEF Fits, Busy, CopyAhead, ScanSound, HasCopy

\* One request at a time is busy.
LEMMA OneBusy ==
  ASSUME LockKept, AloneIfUnlocked, NEW r \in Request, NEW q \in Request, r # q, Busy(req[r])
  PROVE  ~Busy(req[q])
BY SMTT(30) DEF LockKept, Holds, AloneIfUnlocked, Busy

\* A request moves; if it stores the document it is the busy one.
LEMMA PoliteMoves ==
  ASSUME PInv, IInv', AloneIfUnlocked', GivenBehindIndex',
         NEW r \in Request, NEW h, req' = [req EXCEPT ![r] = h],
         Fits(h, wallet', active'), active' = active,
         wallet' = wallet \/ Busy(req[r]),
         Holds(h) => lock' = r,
         \/ Acquire(r) \/ UNCHANGED lock
         \/ lock' = IF lock = r THEN NoRequest ELSE lock
  PROVE  PInv'
<1>1. \A q \in Request : req'[q] = IF q = r THEN h ELSE req[q]
  <2>1. req = [q \in Request |-> req[q]]
    BY Known DEF PInv
  <2> QED
    BY <2>1
<1>2. LockKept'
  <2> SUFFICES ASSUME NEW q \in Request, Holds(req'[q])
               PROVE  lock' = q
    BY DEF LockKept, Holds, Busy
  <2>1. CASE q = r
    BY <2>1, <1>1
  <2>2. CASE q # r
    <3>1. lock = q
      BY <1>1, <2>2 DEF PInv, LockKept
    <3> QED
      BY <2>2, <3>1, AddressBookAssumption DEF Acquire
  <2> QED
    BY <2>1, <2>2
<1>3. \A q \in Request : Fits(req'[q], wallet', active')
  <2> SUFFICES ASSUME NEW q \in Request
               PROVE  Fits(req'[q], wallet', active')
    OBVIOUS
  <2>1. CASE q = r
    BY <1>1, <2>1
  <2>2. CASE q # r /\ wallet' = wallet
    BY <1>1, <2>2 DEF PInv
  <2>3. CASE q # r /\ Busy(req[r])
    <3>1. ~Busy(req[q])
      BY <2>3, OneBusy DEF PInv
    <3>2. WaitsAt(req[q])
      BY DEF PInv, Fits
    <3> QED
      BY <1>1, <2>3, <3>1, <3>2, WaitingFits
  <2> QED
    BY <2>1, <2>2, <2>3
<1> QED
  BY <1>2, <1>3 DEF PInv, Fits, WaitsAt, CopyAhead, ScanSound, HasCopy, PathsOf, GapIn, At

\* What the polite invariant says of a request.
LEMMA PoliteKnown ==
  ASSUME PInv, NEW r \in Request
  PROVE  /\ IInv /\ GivenBehindIndex
         /\ HandlerType(req[r]) /\ Fits(req[r], wallet, active)
         /\ Holds(req[r]) => lock = r
         /\ req = [q \in Request |-> req[q]]
BY Known DEF PInv, LockKept

\* A busy handler that goes on under the lock still holds it.
LEMMA StillHolds ==
  ASSUME PInv, NEW r \in Request, Busy(req[r]), UNCHANGED lock,
         NEW g, g.op = req[r].op, g.late = req[r].late
  PROVE  Holds(g) => lock' = r
BY PoliteKnown DEF Holds

\* The starting state.
LEMMA PoliteInit == Init => PInv
<1> SUFFICES ASSUME Init PROVE PInv
  OBVIOUS
<1>1. \A r \in Request : req[r] = Idle
  BY DEF Init
<1>2. \A r \in Request : /\ WaitsAt(req[r]) /\ ~Busy(req[r]) /\ req[r].op # "addAccess"
                         /\ ~req[r].late
  BY <1>1, IdleTyped DEF WaitsAt, Busy, Idle
<1>3. \A r \in Request : Fits(req[r], wallet, active)
  BY <1>2, WaitingFits
<1>4. GivenBehindIndex
  BY DEF Init, GivenBehindIndex
<1>5. AloneIfUnlocked /\ LockKept
  BY <1>2 DEF AloneIfUnlocked, LockKept, Holds
<1> QED
  BY <1>3, <1>4, <1>5, InitHolds DEF PInv

\* Nothing is given, and the document stays.
LEMMA GivenStays ==
  ASSUME GivenBehindIndex, UNCHANGED <<wallet, given>>
  PROVE  GivenBehindIndex'
BY DEF GivenBehindIndex

\* A request goes on to wait, or answers, and the document stays.
LEMMA WaitsOn ==
  ASSUME PInv, IInv', AloneIfUnlocked', GivenBehindIndex', NEW r \in Request,
         NEW h, req' = [req EXCEPT ![r] = h],
         WaitsAt(h), ~Busy(h), UNCHANGED active,
         wallet' = wallet \/ Busy(req[r]),
         UNCHANGED lock \/ lock' = IF lock = r THEN NoRequest ELSE lock
  PROVE  PInv'
BY WaitingFits, PoliteMoves DEF Holds

\* An answered request is idle.
LEMMA IdleWaits == WaitsAt(Idle) /\ ~Busy(Idle)
BY IdleTyped DEF WaitsAt, Busy

\* The checks of the gap.
LEMMA PoliteGap ==
  ASSUME PInv, IInv', AloneIfUnlocked', NEW r \in Request, CreateAddress(r) \/ CheckActivity(r)
  PROVE  PInv'
<1>1. UNCHANGED <<wallet, active, given>>
  BY DEF CreateAddress, CheckActivity
<1>2. GivenBehindIndex'
  BY <1>1, PoliteKnown, GivenStays
<1>3. CASE Return(r)
  BY <1>1, <1>2, <1>3, IdleWaits, WaitsOn DEF Return
<1>4. CASE ~Return(r)
  <2>1. UNCHANGED lock
    BY <1>4 DEF CreateAddress, CheckActivity
  <2>2. CASE req' = [req EXCEPT ![r] = Start("createAddress", "waitLock")]
    <3>1. LET h == Start("createAddress", "waitLock") IN WaitsAt(h) /\ ~Busy(h)
      BY StartTyped DEF WaitsAt, Busy
    <3> QED
      BY <1>1, <1>2, <2>1, <2>2, <3>1, WaitsOn
  <2>3. CASE req' # [req EXCEPT ![r] = Start("createAddress", "waitLock")]
    <3> DEFINE h == [Start("createAddress", "checkActivity") EXCEPT
                       !.latest = [i \in DOMAIN Latest |-> Latest[i].path]]
    <3>1. req' = [req EXCEPT ![r] = h]
      BY <1>4, <2>3 DEF CreateAddress, CheckActivity
    <3>2. h.pc = "checkActivity" /\ h.op = "createAddress"
      BY DEF Start, Idle
    <3> HIDE DEF h
    <3>3. WaitsAt(h) /\ ~Busy(h)
      BY <3>2 DEF WaitsAt, Busy
    <3> QED
      BY <1>1, <1>2, <2>1, <3>1, <3>3, WaitsOn
  <2> QED
    BY <2>2, <2>3
<1> QED
  BY <1>3, <1>4

\* An address derived on a copy.
LEMMA PoliteDerives ==
  ASSUME PInv, IInv', AloneIfUnlocked', NEW r \in Request,
         NEW op \in {"createAddress", "createTx"}, NEW b \in Branch,
         wallet.index[b] < MaxIndex[b],
         req' = [req EXCEPT ![r] = [Read(op, "insertAddress") EXCEPT
                                      !.wallet = Derive(wallet, b),
                                      !.new = <<NextAddress(wallet, b)>>]],
         Acquire(r), UNCHANGED <<wallet, addresses, active, given>>
  PROVE  PInv'
<1> DEFINE copy == Derive(wallet, b)
           new == <<NextAddress(wallet, b)>>
           h == [Read(op, "insertAddress") EXCEPT !.wallet = copy, !.new = new]
<1>1. IInv /\ wallet \in Wallet /\ \A c \in Branch : wallet.index[c] \in Nat
  BY PoliteKnown, Known
<1>2. /\ PathsOf(new) = {At(b, wallet.index[b])}
      /\ copy.index[b] = wallet.index[b] + 1
      /\ \A c \in Branch \ {b} : copy.index[c] = wallet.index[c]
      /\ copy.singleAddress = wallet.singleAddress
      /\ copy.scanStatus = wallet.scanStatus
  BY <1>1, DerivedCovered, DeriveIs
<1>3. req' = [req EXCEPT ![r] = h]
  OBVIOUS
<1> HIDE DEF copy, new
<1>4. h.pc = "insertAddress" /\ h.wallet = copy /\ h.new = new /\ h.op = op
  BY DEF Read, Start, Idle
<1> HIDE DEF h
<1>5. CopyAhead(h, wallet)
  <2>1. \A c \in Branch : wallet.index[c] <= copy.index[c]
    BY <1>1, <1>2
  <2>2. \A path \in PathsOf(new) : path.index < copy.index[path.branch]
    BY <1>1, <1>2 DEF At
  <2> QED
    BY <1>2, <1>4, <2>1, <2>2 DEF CopyAhead
<1>6. Fits(h, wallet', active')
  BY <1>4, <1>5 DEF Fits, WaitsAt, ScanSound
<1>7. GivenBehindIndex' /\ lock' = r
  BY PoliteKnown, GivenStays DEF Acquire
<1> QED
  BY <1>3, <1>6, <1>7, PoliteMoves

\* createAddress under the lock, and createTx.
LEMMA PoliteCreates ==
  ASSUME PInv, IInv', AloneIfUnlocked', NEW r \in Request, CreateLocked(r) \/ CreateTx(r)
  PROVE  PInv'
<1>1. CASE CreateLocked(r)
  <2>1. UNCHANGED <<wallet, addresses, active>>
    BY <1>1 DEF CreateLocked
  <2>2. CASE wallet.singleAddress /\ addresses # << >>
    <3>1. Return(r)
      BY <1>1, <2>2 DEF CreateLocked
    <3>2. GivenBehindIndex'
      BY <2>1, <2>2 DEF GivenBehindIndex
    <3> QED
      BY <2>1, <3>1, <3>2, IdleWaits, WaitsOn DEF Return
  <2>3. CASE ~(wallet.singleAddress /\ addresses # << >>)
    BY <1>1, <2>3, PoliteDerives DEF CreateLocked, Branch
  <2> QED
    BY <2>2, <2>3
<1>2. CASE CreateTx(r)
  <2>1. /\ UNCHANGED <<wallet, addresses, active, given>> /\ Acquire(r)
        /\ ~wallet.singleAddress
    BY <1>2 DEF CreateTx
  <2>2. CASE /\ wallet.index["change"] < MaxIndex["change"]
             /\ req' = [req EXCEPT ![r] = [Read("createTx", "insertAddress") EXCEPT
                          !.wallet = Derive(wallet, "change"),
                          !.new = <<NextAddress(wallet, "change")>>]]
    BY <2>1, <2>2, PoliteDerives DEF Branch
  <2>3. ASSUME NEW i \in DOMAIN addresses, addresses[i].path \in given,
               req' = [req EXCEPT ![r] = [Read("createTx", "insertNamed") EXCEPT
                                            !.new = <<addresses[i]>>]]
        PROVE  PInv'
    <3> DEFINE a == addresses[i]
               h == [Read("createTx", "insertNamed") EXCEPT !.new = <<a>>]
    <3>1. a.path.index < wallet.index[a.path.branch]
      BY <2>1, <2>3, PoliteKnown DEF GivenBehindIndex
    <3>2. req' = [req EXCEPT ![r] = h]
      BY <2>3
    <3>3. \A b \in Branch : wallet.index[b] \in Nat
      BY Known, PoliteKnown
    <3> HIDE DEF a
    <3>4. h.pc = "insertNamed" /\ h.op = "createTx" /\ h.wallet = wallet /\ h.new = <<a>>
      BY DEF Read, Start, Idle
    <3> HIDE DEF h
    <3>5. PathsOf(h.new) = {a.path}
      BY <3>4 DEF PathsOf
    <3>6. CopyAhead(h, wallet)
      BY <3>1, <3>3, <3>4, <3>5 DEF CopyAhead
    <3>7. Fits(h, wallet', active')
      BY <2>1, <3>4, <3>6 DEF Fits, WaitsAt, ScanSound
    <3>8. GivenBehindIndex' /\ lock' = r
      BY <2>1, PoliteKnown, GivenStays DEF Acquire
    <3> QED
      BY <2>1, <3>2, <3>7, <3>8, PoliteMoves
  <2> QED
    BY <1>2, <2>2, <2>3 DEF CreateTx
<1> QED
  BY <1>1, <1>2

\* The addresses of a copy are inserted.
LEMMA PoliteInserts ==
  ASSUME PInv, IInv', AloneIfUnlocked', NEW r \in Request, InsertAddress(r) \/ InsertNamed(r)
  PROVE  PInv'
<1> DEFINE h == req[r]
           pc == IF h.op = "scan" THEN "scanStore" ELSE "storeWallet"
           g == [h EXCEPT !.pc = pc]
<1>1. HandlerType(h) /\ Fits(h, wallet, active)
  BY PoliteKnown
<1>2. /\ UNCHANGED <<wallet, active, given, lock>>
      /\ h.pc \in {"insertAddress", "insertNamed"}
  BY DEF InsertAddress, InsertNamed
<1>3. Busy(h) /\ (Holds(h) => lock = r)
  BY <1>2, PoliteKnown DEF Busy
<1>4. req' = [req EXCEPT ![r] = g]
  <2>1. CASE InsertAddress(r)
    BY <2>1 DEF InsertAddress
  <2>2. CASE InsertNamed(r)
    <3>1. h.op = "createTx"
      BY <1>1, <2>2 DEF InsertNamed, Fits, WaitsAt
    <3> QED
      BY <2>2, <3>1 DEF InsertNamed
  <2> QED
    BY <2>1, <2>2
<1>5. pc = IF h.op = "scan" THEN "scanStore" ELSE "storeWallet"
  OBVIOUS
<1> HIDE DEF h, pc
<1>6. /\ g.pc = pc /\ g.op = h.op /\ g.wallet = h.wallet /\ g.new = h.new
      /\ g.branch = h.branch /\ g.failed = h.failed /\ g.late = h.late
  BY <1>1 DEF HandlerType
<1> HIDE DEF g
<1>7. WaitsAt(g) /\ CopyAhead(g, wallet)
  BY <1>1, <1>2, <1>5, <1>6 DEF Fits, WaitsAt, CopyAhead, HasCopy
<1>8. ~wallet.singleAddress => ScanSound(g, wallet, active)
  BY <1>1, <1>2, <1>5, <1>6 DEF Fits, WaitsAt, ScanSound, HasCopy
<1>9. Fits(g, wallet', active')
  BY <1>2, <1>7, <1>8 DEF Fits
<1>10. GivenBehindIndex'
  BY <1>2, PoliteKnown, GivenStays
<1>11. Holds(g) => lock' = r
  BY <1>2, <1>3, <1>6 DEF Holds
<1> QED
  BY <1>2, <1>4, <1>9, <1>10, <1>11, PoliteMoves

\* What a client was given is behind the index of the copy that is stored.
LEMMA GivenBehindCopy ==
  ASSUME PInv, NEW r \in Request, HasCopy(req[r]), wallet' = req[r].wallet,
         \/ given' = given
         \/ req[r].pc = "storeWallet" /\ given' = given \cup PathsOf(req[r].new)
  PROVE  GivenBehindIndex'
<1> DEFINE h == req[r]
<1>1. /\ h.wallet.singleAddress = wallet.singleAddress
      /\ \A b \in Branch : wallet.index[b] <= h.wallet.index[b]
      /\ h.pc = "storeWallet" /\ ~wallet.singleAddress =>
           \A path \in PathsOf(h.new) : path.index < h.wallet.index[path.branch]
  BY PoliteKnown DEF Fits, CopyAhead
<1>2. /\ \A b \in Branch : wallet.index[b] \in Nat /\ h.wallet.index[b] \in Nat
      /\ given \subseteq Path
  BY PoliteKnown, Known, HandlerFields
<1>3. ~wallet.singleAddress => \A path \in given : path.index < wallet.index[path.branch]
  BY PoliteKnown DEF GivenBehindIndex
<1> SUFFICES ASSUME ~h.wallet.singleAddress, NEW path \in given'
             PROVE  path.index < h.wallet.index[path.branch]
  BY DEF GivenBehindIndex
<1>4. CASE path \in given
  <2>1. path.branch \in Branch /\ path.index \in Nat
    BY <1>2, <1>4, PathParts
  <2> QED
    BY <1>1, <1>2, <1>3, <1>4, <2>1
<1>5. CASE path \notin given
  BY <1>1, <1>5
<1> QED
  BY <1>4, <1>5

\* The copy is stored, and the handler answers.
LEMMA PoliteStores ==
  ASSUME PInv, IInv', AloneIfUnlocked', NEW r \in Request, StoreWallet(r)
  PROVE  PInv'
<1>1. /\ wallet' = req[r].wallet /\ Return(r) /\ req[r].pc = "storeWallet"
      /\ given' = given \cup PathsOf(req[r].new)
      /\ UNCHANGED <<addresses, active>>
  BY DEF StoreWallet, PathsOf
<1>2. HasCopy(req[r]) /\ Busy(req[r])
  BY <1>1 DEF HasCopy, Busy
<1>3. GivenBehindIndex'
  BY <1>1, <1>2, GivenBehindCopy
<1> QED
  BY <1>1, <1>2, <1>3, IdleWaits, WaitsOn DEF Return

\* addAccess and the scan read the document.
LEMMA PoliteReads ==
  ASSUME PInv, IInv', AloneIfUnlocked', NEW r \in Request, AddAccess(r) \/ Scan(r) \/ ScanEnd(r)
  PROVE  PInv'
<1>1. UNCHANGED <<wallet, addresses, active, given>> /\ GivenBehindIndex'
  BY PoliteKnown, GivenStays DEF AddAccess, Scan, ScanEnd
<1>2. IInv /\ wallet \in Wallet /\ \A b \in Branch : wallet.index[b] \in Nat
  BY PoliteKnown, Known
<1>3. PathsOf(<< >>) = {}
  BY DEF PathsOf
<1>4. CASE AddAccess(r)
  <2> DEFINE h == Read("addAccess", "storeWallet")
  <2>1. req' = [req EXCEPT ![r] = h] /\ UNCHANGED lock
    BY <1>4 DEF AddAccess
  <2>2. h.pc = "storeWallet" /\ h.op = "addAccess" /\ h.wallet = wallet /\ h.new = << >>
    BY DEF Read, Start, Idle
  <2> HIDE DEF h
  <2>3. CopyAhead(h, wallet)
    BY <1>2, <1>3, <2>2 DEF CopyAhead
  <2>4. Fits(h, wallet', active')
    BY <1>1, <2>2, <2>3 DEF Fits, WaitsAt, ScanSound
  <2> QED
    BY <1>1, <2>1, <2>2, <2>4, PoliteMoves DEF Holds
<1>5. ASSUME NEW status \in {"running", "success", "error"}
      PROVE  LET copy == [wallet EXCEPT !.scanStatus = status] IN
             /\ copy.scanStatus = status /\ copy.index = wallet.index
             /\ copy.singleAddress = wallet.singleAddress
  BY <1>2 DEF Wallet
<1>6. CASE Scan(r)
  <2> DEFINE copy == [wallet EXCEPT !.scanStatus = "running"]
             h == [Read("scan", "scanStart") EXCEPT !.wallet.scanStatus = "running"]
  <2>1. req' = [req EXCEPT ![r] = h] /\ Acquire(r)
    BY <1>6 DEF Scan
  <2>2. h.pc = "scanStart" /\ h.op = "scan" /\ h.wallet = copy /\ h.branch = "main"
    BY DEF Read, Start, Idle
  <2>3. /\ copy.scanStatus = "running" /\ copy.index = wallet.index
        /\ copy.singleAddress = wallet.singleAddress
    BY <1>5
  <2> HIDE DEF h, copy
  <2>4. CopyAhead(h, wallet)
    BY <1>2, <2>2, <2>3 DEF CopyAhead
  <2>5. ScanSound(h, wallet, active)
    BY <2>2, <2>3 DEF ScanSound
  <2>6. Fits(h, wallet', active') /\ lock' = r
    BY <1>1, <2>1, <2>2, <2>4, <2>5 DEF Fits, WaitsAt, Acquire
  <2> QED
    BY <1>1, <2>1, <2>6, PoliteMoves
<1>7. CASE ScanEnd(r)
  <2> DEFINE status == IF req[r].failed THEN "error" ELSE "success"
             copy == [wallet EXCEPT !.scanStatus = status]
             h == [Read("scan", "storeWallet") EXCEPT !.wallet.scanStatus = status,
                                                      !.late = req[r].late]
  <2>1. req' = [req EXCEPT ![r] = h] /\ UNCHANGED lock /\ req[r].pc = "scanEnd"
    BY <1>7 DEF ScanEnd
  <2>2. /\ h.pc = "storeWallet" /\ h.op = "scan" /\ h.wallet = copy /\ h.new = << >>
        /\ h.late = req[r].late
    BY DEF Read, Start, Idle
  <2>3. /\ copy.scanStatus = status /\ copy.index = wallet.index
        /\ copy.singleAddress = wallet.singleAddress
    BY <1>5
  <2>4. status = "success" => ~req[r].failed
    OBVIOUS
  <2> HIDE DEF h, copy, status
  <2>5. Fits(req[r], wallet, active) /\ req[r].op = "scan" /\ Busy(req[r])
    BY <2>1, PoliteKnown DEF Fits, WaitsAt, Busy
  <2>6. CopyAhead(h, wallet)
    BY <1>2, <1>3, <2>2, <2>3 DEF CopyAhead
  <2>7. ~wallet.singleAddress => ScanSound(h, wallet, active)
    BY <2>1, <2>2, <2>3, <2>4, <2>5 DEF Fits, ScanSound
  <2>8. Fits(h, wallet', active')
    BY <1>1, <2>2, <2>6, <2>7 DEF Fits, WaitsAt
  <2>9. Holds(h) => lock' = r
    BY <2>1, <2>2, <2>5, StillHolds
  <2> QED
    BY <1>1, <2>1, <2>8, <2>9, PoliteMoves
<1> QED
  BY <1>4, <1>6, <1>7

\* A handler that carries the very document fits it, as far as the copy goes.
LEMMA OwnCopyAhead ==
  ASSUME NEW h, HandlerType(h),
         h.pc \in {"scanStart", "scanBranch", "scanStore", "scanEnd"}, h.op = "scan"
  PROVE  CopyAhead(h, h.wallet)
<1>1. \A b \in Branch : h.wallet.index[b] <= h.wallet.index[b]
  BY HandlerFields
<1> QED
  BY <1>1 DEF CopyAhead

\* The scan's start is stored.
LEMMA PoliteScanStart ==
  ASSUME PInv, IInv', AloneIfUnlocked', NEW r \in Request, ScanStart(r)
  PROVE  PInv'
<1> DEFINE h == req[r]
           g == [h EXCEPT !.pc = "scanBranch"]
<1>1. /\ wallet' = h.wallet /\ req' = [req EXCEPT ![r] = g]
      /\ UNCHANGED <<addresses, active, given, lock>> /\ h.pc = "scanStart"
  BY DEF ScanStart
<1>2. HandlerType(h) /\ Fits(h, wallet, active) /\ HasCopy(h) /\ Busy(h)
  BY <1>1, PoliteKnown DEF HasCopy, Busy
<1>3. h.op = "scan" /\ h.branch = "main"
  BY <1>1, <1>2 DEF Fits, WaitsAt
<1>4. GivenBehindIndex'
  BY <1>1, <1>2, GivenBehindCopy
<1> HIDE DEF h
<1>5. /\ HandlerType(g) /\ g.pc = "scanBranch" /\ g.wallet = h.wallet
      /\ g.op = "scan" /\ g.branch = "main" /\ g.late = h.late
  BY <1>2, <1>3, GoesOn, Zenon
<1> HIDE DEF g
<1>6. CopyAhead(g, wallet')
  BY <1>1, <1>5, OwnCopyAhead
<1>7. ~h.wallet.singleAddress => h.wallet.scanStatus # "success"
  BY <1>1, <1>2, <1>3 DEF Fits, CopyAhead, ScanSound
<1>8. ~wallet'.singleAddress => ScanSound(g, wallet', active')
  BY <1>1, <1>5, <1>7 DEF ScanSound
<1>9. Fits(g, wallet', active')
  BY <1>5, <1>6, <1>8 DEF Fits, WaitsAt
<1>10. Holds(g) => lock' = r
  BY <1>1, <1>2, <1>3, <1>5, StillHolds DEF h
<1> QED
  BY <1>1, <1>2, <1>4, <1>9, <1>10, PoliteMoves DEF h

\* A branch is scanned.
LEMMA PoliteScanBranch ==
  ASSUME PInv, IInv', AloneIfUnlocked', NEW r \in Request, ScanBranch(r)
  PROVE  PInv'
<1> DEFINE h == req[r]
           b == h.branch
           from == h.wallet.index[b]
           end == EndOf(b, from)
           new == [i \in 1..(end - from) |-> NewAddress(b, from + i - 1)]
           g == [h EXCEPT !.pc = "insertAddress", !.wallet.index[b] = end, !.new = new]
<1>1. /\ h.pc = "scanBranch" /\ active \subseteq Path
      /\ UNCHANGED <<wallet, addresses, active, given, lock>>
  BY PoliteKnown, Known DEF ScanBranch
<1>2. /\ HandlerType(h) /\ Fits(h, wallet, active) /\ HasCopy(h) /\ Busy(h)
      /\ CopyCovered(h, PathsOf(addresses))
      /\ req = [q \in Request |-> req[q]]
  BY <1>1, PoliteKnown, Known DEF HasCopy, Busy
<1>3. h.op = "scan" /\ IndexBounded(h.wallet)
  BY <1>1, <1>2 DEF Fits, WaitsAt, CopyCovered
<1>4. /\ h.wallet.singleAddress = wallet.singleAddress
      /\ \A c \in Branch : wallet.index[c] <= h.wallet.index[c]
  BY <1>2 DEF Fits, CopyAhead
<1>5. ~wallet.singleAddress =>
        /\ h.wallet.scanStatus # "success" /\ h.wallet.index = wallet.index
        /\ h.branch = "change" => GapIn(active, "main", wallet.index["main"])
  BY <1>1, <1>2, <1>3 DEF Fits, ScanSound
<1>6. /\ b \in Branch /\ from \in Nat
      /\ \A c \in Branch : wallet.index[c] \in Nat /\ h.wallet.index[c] \in Nat
  BY <1>2, HandlerFields, PoliteKnown, Known
<1>7. /\ GivenBehindIndex'
      /\ \A g1 : g1.op = "scan" /\ g1.late = h.late /\ Holds(g1) => lock' = r
  <2>1. GivenBehindIndex'
    BY <1>1, PoliteKnown, GivenStays
  <2> QED
    BY <1>1, <1>2, <1>3, <2>1, StillHolds
<1>8. CASE end = from
  <2>1. NextBranch(r)
    BY <1>8 DEF ScanBranch
  <2>2. PICK k : /\ req' = [req EXCEPT ![r] = k]
                 /\ k.wallet = h.wallet /\ k.op = "scan" /\ k.late = h.late
                 /\ \/ h.branch = "main" /\ k.pc = "scanBranch" /\ k.branch = "change"
                    \/ h.branch = "change" /\ k.pc = "scanEnd" /\ k.branch = "change"
    BY <1>2, <1>3, <2>1, NextBranchIs
  <2>3. GapIn(active, b, from)
    <3> HIDE DEF from, b
    <3>1. from <= MaxIndex[b]
      BY <1>3, <1>6 DEF IndexBounded, from, b
    <3>2. GapAt(b, EndOf(b, from))
      BY <1>1, <1>6, <3>1, EndOfIs
    <3> QED
      BY <1>8, <3>2, GapIs DEF end
  <2> HIDE DEF h
  <2>4. CopyAhead(k, wallet)
    BY <1>4, <2>2 DEF CopyAhead
  <2>5. ~wallet.singleAddress => ScanSound(k, wallet, active)
    <3> SUFFICES ASSUME ~wallet.singleAddress PROVE ScanSound(k, wallet, active)
      OBVIOUS
    <3>1. h.branch = "main" => GapIn(active, "main", wallet.index["main"])
      BY <1>5, <2>3
    <3>2. h.branch = "change" => \A c \in Branch : GapIn(active, c, wallet.index[c])
      BY <1>5, <2>3 DEF Branch
    <3> QED
      BY <1>5, <2>2, <3>1, <3>2 DEF ScanSound
  <2>6. Fits(k, wallet', active')
    BY <1>1, <2>2, <2>4, <2>5 DEF Fits, WaitsAt
  <2> QED
    BY <1>1, <1>7, <2>2, <2>6, PoliteMoves DEF h
<1>9. CASE end # from
  <2>1. req' = [req EXCEPT ![r] = g]
    BY <1>9 DEF ScanBranch
  <2>2. /\ g.pc = "insertAddress" /\ g.op = "scan" /\ g.branch = b /\ g.new = new
        /\ g.late = h.late
        /\ PathsOf(new) = {At(b, i) : i \in from..(end - 1)}
        /\ g.wallet.index[b] = end
        /\ \A c \in Branch \ {b} : g.wallet.index[c] = h.wallet.index[c]
        /\ g.wallet.singleAddress = h.wallet.singleAddress
        /\ g.wallet.scanStatus = h.wallet.scanStatus
        /\ end \in (from + 1)..MaxIndex[b] /\ GapAt(b, end)
    <3> HIDE DEF h
    <3> QED
      BY <1>1, <1>2, <1>3, <1>9, ScannedIs, Zenon
  <2>3. MaxIndex[b] \in Nat
    BY <1>6, AddressBookAssumption DEF Branch
  <2>4. from = h.wallet.index[b] /\ b = h.branch
    OBVIOUS
  <2> HIDE DEF g, new, end, from, b, h
  <2>5. CopyAhead(g, wallet)
    <3>1. \A c \in Branch : wallet.index[c] <= g.wallet.index[c]
      <4> SUFFICES ASSUME NEW c \in Branch PROVE wallet.index[c] <= g.wallet.index[c]
        OBVIOUS
      <4>1. CASE c # b
        BY <1>4, <2>2, <4>1
      <4>2. CASE c = b
        BY <1>4, <1>6, <2>2, <2>3, <2>4, <4>2
      <4> QED
        BY <4>1, <4>2
    <3>2. \A path \in PathsOf(g.new) : path.index < g.wallet.index[path.branch]
      <4> SUFFICES ASSUME NEW i \in from..(end - 1)
                   PROVE  At(b, i).index < g.wallet.index[At(b, i).branch]
        BY <2>2
      <4>1. At(b, i).index = i /\ At(b, i).branch = b
        BY DEF At
      <4>2. i < end
        BY <1>6, <2>2, <2>3
      <4> QED
        BY <2>2, <4>1, <4>2
    <3> QED
      BY <1>4, <2>2, <3>1, <3>2 DEF CopyAhead
  <2>6. ~wallet.singleAddress => ScanSound(g, wallet, active)
    <3> SUFFICES ASSUME ~wallet.singleAddress PROVE ScanSound(g, wallet, active)
      OBVIOUS
    <3>1. GapIn(active, g.branch, g.wallet.index[g.branch])
      BY <2>2, GapIs
    <3>2. \A c \in Branch \ {g.branch} : g.wallet.index[c] = wallet.index[c]
      BY <1>5, <2>2
    <3>3. g.branch = "change" => GapIn(active, "main", wallet.index["main"])
      BY <1>5, <2>2, <2>4
    <3> QED
      BY <1>5, <2>2, <3>1, <3>2, <3>3 DEF ScanSound
  <2>7. Fits(g, wallet', active')
    BY <1>1, <2>2, <2>5, <2>6 DEF Fits, WaitsAt
  <2>8. GivenBehindIndex' /\ (Holds(g) => lock' = r)
    BY <1>7, <2>2
  <2> QED
    BY <1>1, <2>1, <2>7, <2>8, PoliteMoves, Zenon
<1> QED
  BY <1>8, <1>9, SMTT(30)

\* What it derived is stored.
LEMMA PoliteScanStore ==
  ASSUME PInv, IInv', AloneIfUnlocked', NEW r \in Request, ScanStore(r)
  PROVE  PInv'
<1> DEFINE h == req[r]
<1>1. /\ wallet' = h.wallet /\ NextBranch(r) /\ h.pc = "scanStore"
      /\ UNCHANGED <<addresses, active, given, lock>>
  BY DEF ScanStore
<1>2. /\ HandlerType(h) /\ Fits(h, wallet, active) /\ HasCopy(h) /\ Busy(h)
      /\ req = [q \in Request |-> req[q]]
  BY <1>1, PoliteKnown DEF HasCopy, Busy
<1>3. h.op = "scan" /\ h.wallet.singleAddress = wallet.singleAddress
  BY <1>1, <1>2 DEF Fits, WaitsAt, CopyAhead
<1>4. ~wallet.singleAddress =>
        /\ h.wallet.scanStatus # "success"
        /\ GapIn(active, h.branch, h.wallet.index[h.branch])
        /\ \A b \in Branch \ {h.branch} : h.wallet.index[b] = wallet.index[b]
        /\ h.branch = "change" => GapIn(active, "main", wallet.index["main"])
  BY <1>1, <1>2, <1>3 DEF Fits, ScanSound
<1>5. GivenBehindIndex'
  BY <1>1, <1>2, GivenBehindCopy
<1>6. PICK g : /\ req' = [req EXCEPT ![r] = g] /\ HandlerType(g)
               /\ g.wallet = h.wallet /\ g.op = "scan" /\ g.late = h.late
               /\ \/ h.branch = "main" /\ g.pc = "scanBranch" /\ g.branch = "change"
                  \/ h.branch = "change" /\ g.pc = "scanEnd" /\ g.branch = "change"
  BY <1>1, <1>2, <1>3, NextBranchIs
<1> HIDE DEF h
<1>7. CopyAhead(g, wallet')
  BY <1>1, <1>6, OwnCopyAhead
<1>8. ~wallet'.singleAddress => ScanSound(g, wallet', active')
  <2> SUFFICES ASSUME ~wallet.singleAddress PROVE ScanSound(g, h.wallet, active)
    BY <1>1, <1>3
  <2>1. GapIn(active, "main", h.wallet.index["main"])
    BY <1>4, <1>6 DEF Branch
  <2>2. h.branch = "change" => \A b \in Branch : GapIn(active, b, h.wallet.index[b])
    BY <1>4, <2>1 DEF Branch
  <2> QED
    BY <1>4, <1>6, <2>1, <2>2 DEF ScanSound
<1>9. Fits(g, wallet', active')
  BY <1>6, <1>7, <1>8 DEF Fits, WaitsAt
<1>10. Holds(g) => lock' = r
  BY <1>1, <1>2, <1>3, <1>6, StillHolds DEF h
<1> QED
  BY <1>1, <1>2, <1>5, <1>6, <1>9, <1>10, PoliteMoves DEF h

\* An error of the scan, and of any request.
LEMMA PoliteFails ==
  ASSUME PInv, IInv', AloneIfUnlocked', NEW r \in Request, ScanFails(r) \/ Fail(r)
  PROVE  PInv'
<1>1. UNCHANGED <<wallet, addresses, active, given>> /\ GivenBehindIndex'
  BY PoliteKnown, GivenStays DEF ScanFails, Fail
<1>2. CASE ScanFails(r)
  <2> DEFINE h == req[r]
             g == [h EXCEPT !.pc = "scanEnd", !.failed = TRUE]
  <2>1. /\ req' = [req EXCEPT ![r] = g] /\ UNCHANGED lock
        /\ h.op = "scan" /\ h.pc \in {"scanBranch", "insertAddress", "scanStore"}
    BY <1>2 DEF ScanFails
  <2>2. HandlerType(h) /\ Busy(h)
    BY <2>1, PoliteKnown DEF Busy
  <2> HIDE DEF h
  <2>3. /\ HandlerType(g) /\ g.pc = "scanEnd" /\ g.failed /\ g.op = "scan"
        /\ g.late = h.late
    BY <2>1, <2>2, FailedIs
  <2> HIDE DEF g
  <2>4. Fits(g, wallet', active')
    BY <2>3 DEF Fits, WaitsAt, CopyAhead, ScanSound, HasCopy
  <2>5. Holds(g) => lock' = r
    BY <2>1, <2>2, <2>3, StillHolds DEF h
  <2> QED
    BY <1>1, <2>1, <2>4, <2>5, PoliteMoves
<1>3. CASE Fail(r)
  BY <1>1, <1>3, IdleWaits, WaitsOn DEF Fail, Return
<1> QED
  BY <1>2, <1>3

\* The lock is given on: nobody's copy changes.
LEMMA PoliteExpiry ==
  ASSUME PInv, IInv', AloneIfUnlocked', LockExpires
  PROVE  PInv'
<1> DEFINE r == lock
           h == req[r]
           g == [h EXCEPT !.late = TRUE]
<1>1. /\ req' = [req EXCEPT ![r] = g] /\ lock' = NoRequest
      /\ UNCHANGED <<wallet, addresses, active, given>>
  BY DEF LockExpires
<1>2. r \in Request
  BY DEF PInv, IInv, Typed, LockExpires
<1>3. GivenBehindIndex' /\ lock' = IF lock = r THEN NoRequest ELSE lock
  BY <1>1, <1>2, PoliteKnown, GivenStays
<1>4. HandlerType(h) /\ Fits(h, wallet, active)
  BY <1>2, PoliteKnown
<1> HIDE DEF h, r
<1>5. /\ g.late /\ g.pc = h.pc /\ g.op = h.op /\ g.wallet = h.wallet
      /\ g.new = h.new /\ g.branch = h.branch /\ g.failed = h.failed
  BY <1>4, LateIs
<1> HIDE DEF g
<1>6. WaitsAt(g) /\ CopyAhead(g, wallet)
  BY <1>4, <1>5 DEF Fits, WaitsAt, CopyAhead, HasCopy
<1>7. ~wallet.singleAddress => ScanSound(g, wallet, active)
  BY <1>4, <1>5 DEF Fits, ScanSound, HasCopy
<1>8. Fits(g, wallet', active') /\ ~Holds(g)
  BY <1>1, <1>5, <1>6, <1>7 DEF Fits, Holds
<1> QED
  BY <1>1, <1>2, <1>3, <1>8, PoliteMoves

\* Somebody pays an address: it is behind the index, and behind every gap.
LEMMA PoliteActivity ==
  ASSUME PInv, IInv', AloneIfUnlocked', NEW path \in Path, Activity(path)
  PROVE  PInv'
<1>1. /\ path \in given /\ active' = active \cup {path}
      /\ UNCHANGED <<wallet, addresses, given, lock, req>>
  BY DEF Activity
<1>2. IInv /\ GivenBehindIndex /\ LockKept
  BY DEF PInv
<1>3. \A b \in Branch : wallet.index[b] \in Nat
  BY <1>2, Known
<1>4. path.branch \in Branch /\ path.index \in Nat /\ path = At(path.branch, path.index)
  BY PathParts
<1>5. ~wallet.singleAddress =>
        \A b \in Branch : \A n \in Nat :
          wallet.index[b] <= n /\ GapIn(active, b, n) => GapIn(active', b, n)
  <2> SUFFICES ASSUME ~wallet.singleAddress, NEW b \in Branch, NEW n \in Nat,
                      wallet.index[b] <= n, GapIn(active, b, n),
                      NEW i \in n..(n + ScanGap - 1)
               PROVE  At(b, i) # path
    BY <1>1 DEF GapIn
  <2>1. path.index < wallet.index[path.branch]
    BY <1>1, <1>2 DEF GivenBehindIndex
  <2>2. ScanGap \in Nat
    BY AddressBookAssumption
  <2>3. i >= wallet.index[b]
    BY <1>3, <2>2
  <2>4. At(b, i).branch = b /\ At(b, i).index = i
    BY DEF At
  <2>5. CASE b = path.branch
    BY <1>3, <1>4, <2>1, <2>2, <2>3, <2>4, <2>5
  <2>6. CASE b # path.branch
    BY <2>4, <2>6
  <2> QED
    BY <2>5, <2>6
<1>6. ASSUME NEW r \in Request
      PROVE  Fits(req[r], wallet, active')
  <2> DEFINE h == req[r]
  <2>1. Fits(h, wallet, active) /\ HandlerType(h)
    BY PoliteKnown
  <2>2. h.branch \in Branch /\ \A b \in Branch : h.wallet.index[b] \in Nat
    BY <2>1, HandlerFields
  <2> HIDE DEF h
  <2>3. ASSUME ~wallet.singleAddress, h.op = "scan"
        PROVE  ScanSound(h, wallet, active')
    <3>1. ScanSound(h, wallet, active)
      BY <2>1, <2>3 DEF Fits
    <3>2. h.pc \in {"insertAddress", "scanStore"} =>
            GapIn(active', h.branch, h.wallet.index[h.branch])
      <4> SUFFICES ASSUME h.pc \in {"insertAddress", "scanStore"}
                   PROVE  GapIn(active', h.branch, h.wallet.index[h.branch])
        OBVIOUS
      <4>1. GapIn(active, h.branch, h.wallet.index[h.branch])
        BY <2>3, <3>1 DEF ScanSound
      <4>2. wallet.index[h.branch] <= h.wallet.index[h.branch]
        BY <2>1, <2>2 DEF Fits, CopyAhead, HasCopy
      <4> QED
        BY <1>5, <2>2, <2>3, <4>1, <4>2
    <3>3. \A b \in Branch : GapIn(active, b, wallet.index[b])
                              => GapIn(active', b, wallet.index[b])
      BY <1>3, <1>5, <2>3
    <3>4. "main" \in Branch
      BY DEF Branch
    <3> QED
      BY <2>3, <3>1, <3>2, <3>3, <3>4 DEF ScanSound
  <2> QED
    BY <2>1, <2>3 DEF Fits, ScanSound, h
<1>7. \A r \in Request : Fits(req'[r], wallet', active')
  BY <1>1, <1>6
<1>8. GivenBehindIndex' /\ LockKept'
  BY <1>1, <1>2 DEF GivenBehindIndex, LockKept, Holds, Busy
<1> QED
  BY <1>7, <1>8 DEF PInv, Fits, WaitsAt, CopyAhead, ScanSound, HasCopy, PathsOf, GapIn, At

\* Every step.
LEMMA PoliteNextHolds == PInv /\ [Next /\ AloneIfUnlocked']_vars => PInv'
<1> SUFFICES ASSUME PInv, [Next /\ AloneIfUnlocked']_vars PROVE PInv'
  OBVIOUS
<1>1. IInv'
  BY NextHolds DEF PInv
<1>2. CASE UNCHANGED vars
  <2>1. UNCHANGED <<wallet, addresses, active, given, lock, req>>
    BY <1>2 DEF vars
  <2> QED
    BY <1>1, <2>1 DEF PInv, AloneIfUnlocked, LockKept, Holds, Busy, GivenBehindIndex, Fits, WaitsAt,
                      CopyAhead, ScanSound, HasCopy, PathsOf, GapIn, At
<1>3. CASE Next /\ AloneIfUnlocked'
  <2>1. ASSUME NEW path \in Path, Activity(path)
        PROVE  PInv'
    BY <1>1, <1>3, <2>1, PoliteActivity
  <2>2. ASSUME NEW r \in Request,
               \/ CreateAddress(r) \/ CheckActivity(r) \/ CreateLocked(r) \/ CreateTx(r)
               \/ InsertAddress(r) \/ InsertNamed(r) \/ StoreWallet(r)
        PROVE  PInv'
    BY <1>1, <1>3, <2>2, PoliteGap, PoliteCreates, PoliteInserts, PoliteStores
  <2>3. ASSUME NEW r \in Request,
               \/ AddAccess(r) \/ Scan(r) \/ ScanEnd(r) \/ ScanStart(r)
               \/ ScanBranch(r) \/ ScanStore(r) \/ ScanFails(r) \/ Fail(r)
        PROVE  PInv'
    BY <1>1, <1>3, <2>3, PoliteReads, PoliteScanStart, PoliteScanBranch, PoliteScanStore,
       PoliteFails
  <2>4. CASE LockExpires
    BY <1>1, <1>3, <2>4, PoliteExpiry
  <2> QED
    BY <1>3, <2>1, <2>2, <2>3, <2>4 DEF Next
<1> QED
  BY <1>2, <1>3

\* The inductive invariant of the behaviours in which addAccess, and a handler
\* that outlived its lock, have the wallet for themselves.
THEOREM CopiesStayAhead == PoliteSpec => []PInv
BY PoliteInit, PoliteNextHolds, PTL DEF PoliteSpec

\* There, no address a client was given is derived again by createAddress, createTx
\* or scan.
THEOREM GivenStayBehind == PoliteSpec => []GivenBehindIndex
<1>1. PInv => GivenBehindIndex
  BY DEF PInv
<1> QED
  BY <1>1, CopiesStayAhead, PTL

\* The document is stored by three of the steps.
LEMMA WhoStores ==
  ASSUME [Next]_vars, wallet' # wallet
  PROVE  \E r \in Request : StoreWallet(r) \/ ScanStart(r) \/ ScanStore(r)
BY Zenon DEF Next, vars, Activity, CreateAddress, CheckActivity, CreateLocked, CreateTx,
       InsertAddress, InsertNamed, AddAccess, Scan, ScanBranch, ScanFails, ScanEnd, Fail,
       LockExpires

\* And a scan that reports success left no activity within ScanGap of the index.
THEOREM ScansFindAll == PoliteSpec => ScanFindsAll
<1>1. ASSUME PInv, [Next /\ AloneIfUnlocked']_vars,
             ~wallet.singleAddress,
             wallet.scanStatus # "success", wallet'.scanStatus = "success"
      PROVE  \A b \in Branch : GapAt(b, wallet'.index[b])
  <2>1. PICK r \in Request : StoreWallet(r) \/ ScanStart(r) \/ ScanStore(r)
    BY <1>1, WhoStores
  <2>2. /\ wallet' = req[r].wallet
        /\ req[r].pc \in {"storeWallet", "scanStart", "scanStore"}
    BY <2>1 DEF StoreWallet, ScanStart, ScanStore
  <2>3. WaitsAt(req[r]) /\ CopyAhead(req[r], wallet) /\ ScanSound(req[r], wallet, active)
    BY <1>1, PoliteKnown DEF Fits
  <2>4. HasCopy(req[r])
    BY <2>2 DEF HasCopy
  <2>5. req[r].op = "scan"
    BY <1>1, <2>2, <2>3, <2>4 DEF CopyAhead
  <2>6. req[r].pc = "storeWallet"
    BY <1>1, <2>2, <2>3, <2>4, <2>5 DEF ScanSound
  <2>7. /\ req[r].wallet.index = wallet.index
        /\ \A b \in Branch : GapIn(active, b, wallet.index[b])
    BY <1>1, <2>2, <2>3, <2>5, <2>6 DEF ScanSound
  <2> QED
    BY <2>2, <2>7, GapIs
<1>2. /\ PInv /\ [Next /\ AloneIfUnlocked']_vars
      => [/\ ~wallet.singleAddress
          /\ wallet.scanStatus # "success" /\ wallet'.scanStatus = "success"
          => \A b \in Branch : GapAt(b, wallet'.index[b])]_vars
  BY <1>1
<1> QED
  BY <1>2, CopiesStayAhead, PTL DEF PoliteSpec, ScanFindsAll

-----------------------------------------------------------------------------
(* The gap of unused addresses, in the same behaviours.                     *)

\* Documents that say so have activity.
Paid(docs, paid) == \A k \in DOMAIN docs : docs[k].hasActivity => docs[k].path \in paid

\* The main addresses that come before a path come before a document of it.
Behind(path, docs) ==
  \E k \in DOMAIN docs :
    /\ docs[k].path = path
    /\ \A j \in DOMAIN docs :
         docs[j].path.branch = "main" /\ docs[j].path.index < path.index => j < k

InOrder == \A path \in given : path.branch = "main" => Behind(path, addresses)

\* What is derived is not behind the index; what is inserted last is given next,
\* if it was not given before.
NewFits(h, w, docs, out) ==
  /\ h.pc = "insertAddress" =>
       /\ \A path \in PathsOf(h.new) : w.index[path.branch] <= path.index
       /\ h.op # "scan" =>
            \E a \in Address : /\ h.new = <<a>>
                               /\ a.path.branch = "main" => h.op = "createAddress"
  /\ h.pc = "insertNamed" => PathsOf(h.new) \subseteq out
  /\ h.pc = "storeWallet" =>
       \A path \in PathsOf(h.new) : path.branch = "main" /\ path \notin out =>
         /\ h.op = "createAddress"
         /\ docs # << >> /\ docs[Len(docs)].path = path

\* The addresses it asks the explorer about.
LatestFits(h) ==
  h.pc = "checkActivity" => h.latest \in Seq({path \in Path : path.branch = "main"})

CopyPaid(h, paid) == h.pc \in {"insertAddress", "insertNamed"} => Paid(h.new, paid)

\* All main addresses with activity have a smaller index.
Above(n) == \A paid \in active : paid.branch = "main" => paid.index < n

\* The addresses that are unused, should n be the first index past the activity.
Beyond(n) == {path \in given : path.branch = "main" /\ path.index >= n}

\* It is past the check, or will be, should its latest addresses be used.
Passes(h, n) ==
  \/ h.op = "createAddress" /\ h.pc \in {"waitLock", "insertAddress", "storeWallet"}
  \/ h.pc = "checkActivity" /\ \E i \in DOMAIN h.latest : h.latest[i].index < n

Passing(n) == {r \in Request : Passes(req[r], n)}

GapKeptAt(n) ==
  Cardinality(Beyond(n)) + Cardinality(Passing(n)) <= MaxGap + Cardinality(Request) - 1

GapKept == \A n \in 0..MaxIndex["main"] : Above(n) => GapKeptAt(n)

GInv ==
  /\ PInv
  /\ Paid(addresses, active)
  /\ \A r \in Request : LatestFits(req[r]) /\ CopyPaid(req[r], active)
  /\ ~wallet.singleAddress =>
       /\ InOrder
       /\ \A r \in Request : NewFits(req[r], wallet, addresses, given)
       /\ ~IgnoreMaxGap => GapKept

\* Where the elements go when one is put in between.
LEMMA InsertAtIs ==
  ASSUME NEW s \in Seq(Address), NEW i \in 1..(Len(s) + 1), NEW a \in Address
  PROVE  LET t == InsertAt(s, i, a) IN
         /\ t \in Seq(Address) /\ Len(t) = Len(s) + 1
         /\ \A k \in 1..(i - 1) : t[k] = s[k]
         /\ t[i] = a
         /\ \A k \in (i + 1)..(Len(s) + 1) : t[k] = s[k - 1]
<1>1. Len(s) \in Nat /\ i \in Nat /\ i >= 1 /\ i <= Len(s) + 1
  OBVIOUS
<1> DEFINE front == SubSeq(s, 1, i - 1)
           back == SubSeq(s, i, Len(s))
           more == front \o <<a>>
           t == more \o back
<1>2. /\ front \in Seq(Address) /\ Len(front) = i - 1
      /\ \A k \in 1..(i - 1) : front[k] = s[k]
  <2>1. 1 \in 1..(Len(s) + 1) /\ i - 1 \in 0..Len(s)
    BY <1>1
  <2> QED
    BY <1>1, <2>1, SubSeqProperties
<1>3. /\ back \in Seq(Address) /\ Len(back) = Len(s) - i + 1
      /\ \A k \in 1..(Len(s) - i + 1) : back[k] = s[i + k - 1]
  <2>1. i \in 1..(Len(s) + 1) /\ Len(s) \in (i - 1)..Len(s)
    BY <1>1
  <2> QED
    BY <1>1, <2>1, SubSeqProperties
<1> HIDE DEF front, back
<1>4. /\ more \in Seq(Address) /\ Len(more) = i
      /\ \A k \in 1..(i - 1) : more[k] = s[k]
      /\ more[i] = a
  <2>1. <<a>> \in Seq(Address) /\ Len(<<a>>) = 1 /\ <<a>>[1] = a
    OBVIOUS
  <2>2. /\ more \in Seq(Address) /\ Len(more) = Len(front) + Len(<<a>>)
        /\ \A k \in 1..(Len(front) + Len(<<a>>)) :
             more[k] = IF k <= Len(front) THEN front[k] ELSE <<a>>[k - Len(front)]
    BY <1>2, <2>1, ConcatProperties
  <2> QED
    BY <1>1, <1>2, <2>1, <2>2
<1> HIDE DEF more
<1>5. /\ t \in Seq(Address) /\ Len(t) = Len(s) + 1
      /\ \A k \in 1..(Len(s) + 1) : t[k] = IF k <= i THEN more[k] ELSE back[k - i]
  <2>1. /\ t \in Seq(Address) /\ Len(t) = Len(more) + Len(back)
        /\ \A k \in 1..(Len(more) + Len(back)) :
             t[k] = IF k <= Len(more) THEN more[k] ELSE back[k - Len(more)]
    BY <1>3, <1>4, ConcatProperties
  <2>2. Len(more) + Len(back) = Len(s) + 1
    BY <1>1, <1>3, <1>4
  <2> QED
    BY <1>4, <2>1, <2>2
<1>6. InsertAt(s, i, a) = t
  BY DEF InsertAt, front, back, more
<1> HIDE DEF t
<1>7. \A k \in 1..(i - 1) : t[k] = s[k]
  BY <1>1, <1>4, <1>5
<1>8. t[i] = a
  BY <1>1, <1>4, <1>5
<1>9. ASSUME NEW k \in (i + 1)..(Len(s) + 1)
      PROVE  t[k] = s[k - 1]
  <2>1. k - i \in 1..(Len(s) - i + 1) /\ k \in 1..(Len(s) + 1) /\ ~(k <= i)
    BY <1>1
  <2>2. t[k] = back[k - i] /\ back[k - i] = s[i + (k - i) - 1]
    BY <1>3, <1>5, <2>1
  <2>3. i + (k - i) - 1 = k - 1
    BY <1>1
  <2> QED
    BY <2>2, <2>3
<1> QED
  BY <1>5, <1>6, <1>7, <1>8, <1>9

\* The document of an address that is marked.
LEMMA SetActivityIs ==
  ASSUME addresses \in Seq(Address), NEW path
  PROVE  /\ Len(SetActivity(path)) = Len(addresses)
         /\ DOMAIN SetActivity(path) = DOMAIN addresses
         /\ \A k \in DOMAIN addresses :
              /\ SetActivity(path)[k].path = addresses[k].path
              /\ SetActivity(path)[k].hasActivity =>
                   addresses[k].hasActivity \/ addresses[k].path = path
<1> DEFINE I == {k \in 1..Len(addresses) : addresses[k].path = path}
           i == SelectInSeq(addresses, LAMBDA a : a.path = path)
           after == [addresses EXCEPT ![i].hasActivity = TRUE]
<1>1. SetActivity(path) = after
  BY DEF SetActivity
<1>2. i = IF I # {} THEN Min(I) ELSE 0
  BY DEF SelectInSeq
<1>3. Len(addresses) \in Nat /\ DOMAIN addresses = 1..Len(addresses)
      /\ \A k \in DOMAIN addresses : addresses[k] \in Address
  OBVIOUS
<1>4. i \in DOMAIN addresses => addresses[i].path = path
  <2>1. I # {} => \E k \in I : \A l \in I : k <= l
    <3>1. I \in SUBSET Nat
      BY <1>3
    <3> HIDE DEF I
    <3> QED
      BY <3>1, LeastExists
  <2>2. I # {} => Min(I) \in I
    <3> HIDE DEF I
    <3> QED
      BY <2>1 DEF Min
  <2>3. 0 \notin DOMAIN addresses
    BY <1>3
  <2> HIDE DEF i
  <2> QED
    BY <1>2, <2>2, <2>3
<1> HIDE DEF i, I
<1>5. DOMAIN after = DOMAIN addresses
  OBVIOUS
<1>6. \A k \in DOMAIN addresses :
        /\ after[k].path = addresses[k].path
        /\ k # i => after[k].hasActivity = addresses[k].hasActivity
  BY <1>3 DEF Address
<1>7. Len(after) = Len(addresses)
  BY <1>3, <1>5
<1> HIDE DEF after
<1> QED
  BY <1>1, <1>4, <1>5, <1>6, <1>7

\* A path stays behind the main addresses before it, as others are appended.
LEMMA BehindAppend ==
  ASSUME NEW s \in Seq(Address), NEW t \in Seq(Address), NEW path \in Path,
         Behind(path, s),
         \A p \in PathsOf(t) : p.branch = "main" => path.index <= p.index
  PROVE  Behind(path, s \o t)
<1>1. PICK k \in DOMAIN s :
        /\ s[k].path = path
        /\ \A j \in DOMAIN s : s[j].path.branch = "main" /\ s[j].path.index < path.index
                                 => j < k
  BY DEF Behind
<1>2. /\ Len(s \o t) = Len(s) + Len(t)
      /\ \A i \in 1..(Len(s) + Len(t)) :
           (s \o t)[i] = IF i <= Len(s) THEN s[i] ELSE t[i - Len(s)]
      /\ s \o t \in Seq(Address)
  BY ConcatProperties
<1> DEFINE st == s \o t
<1>3. /\ DOMAIN st = 1..(Len(s) + Len(t)) /\ DOMAIN s = 1..Len(s) /\ DOMAIN t = 1..Len(t)
      /\ Len(s) \in Nat /\ Len(t) \in Nat
  BY <1>2
<1> HIDE DEF st
<1>4. /\ \A i \in DOMAIN s : i \in DOMAIN st /\ st[i] = s[i]
      /\ \A i \in DOMAIN st \ DOMAIN s : i - Len(s) \in DOMAIN t /\ st[i] = t[i - Len(s)]
  <2>1. ASSUME NEW i \in DOMAIN s PROVE i \in DOMAIN st /\ st[i] = s[i]
    BY <1>2, <1>3 DEF st
  <2>2. ASSUME NEW i \in DOMAIN st \ DOMAIN s
        PROVE  i - Len(s) \in DOMAIN t /\ st[i] = t[i - Len(s)]
    <3>1. i \in 1..(Len(s) + Len(t)) /\ ~(i <= Len(s))
      BY <1>3
    <3> QED
      BY <1>2, <1>3, <3>1 DEF st
  <2> QED
    BY <2>1, <2>2
<1>5. \A i \in DOMAIN t : t[i].path \in PathsOf(t) /\ t[i].path \in Path
  <2>1. \A i \in DOMAIN t : t[i] \in Address
    OBVIOUS
  <2> QED
    BY <2>1 DEF PathsOf, Address
<1>6. path.index \in Nat /\ \A p \in Path : p.index \in Nat
  BY PathParts
<1>7. ASSUME NEW j \in DOMAIN st, st[j].path.branch = "main", st[j].path.index < path.index
      PROVE  j < k
  <2>1. j \in DOMAIN s
    <3> SUFFICES ASSUME j \notin DOMAIN s PROVE FALSE
      OBVIOUS
    <3>1. j - Len(s) \in DOMAIN t /\ st[j].path = t[j - Len(s)].path
      BY <1>4
    <3>2. path.index <= st[j].path.index /\ st[j].path.index \in Nat
      BY <1>5, <1>6, <1>7, <3>1
    <3> QED
      BY <1>6, <1>7, <3>2
  <2> QED
    BY <1>1, <1>4, <1>7, <2>1
<1>8. k \in DOMAIN st /\ st[k].path = path
  BY <1>1, <1>4
<1> QED
  BY <1>7, <1>8 DEF Behind, st

\* And as a copy of an address is put next to it.
LEMMA BehindInsert ==
  ASSUME NEW s \in Seq(Address), NEW i \in 1..Len(s), NEW a \in Address,
         s[i].path = a.path, NEW path, Behind(path, s)
  PROVE  Behind(path, InsertAt(s, i + 1, a))
<1> DEFINE t == InsertAt(s, i + 1, a)
<1>1. PICK k \in DOMAIN s :
        /\ s[k].path = path
        /\ \A j \in DOMAIN s : s[j].path.branch = "main" /\ s[j].path.index < path.index
                                 => j < k
  BY DEF Behind
<1>2. Len(s) \in Nat /\ DOMAIN s = 1..Len(s) /\ i \in Nat /\ i \in DOMAIN s /\ k \in Nat
  OBVIOUS
<1>3. /\ t \in Seq(Address) /\ Len(t) = Len(s) + 1
      /\ \A j \in 1..((i + 1) - 1) : t[j] = s[j]
      /\ t[i + 1] = a
      /\ \A j \in ((i + 1) + 1)..(Len(s) + 1) : t[j] = s[j - 1]
  <2>1. i + 1 \in 1..(Len(s) + 1)
    BY <1>2
  <2> QED
    BY <2>1, InsertAtIs
<1> HIDE DEF t
<1>4. DOMAIN t = 1..(Len(s) + 1)
  BY <1>3
<1> DEFINE l == IF k <= i THEN k ELSE k + 1
<1>5. l \in DOMAIN t /\ t[l].path = path
  <2>1. CASE k <= i
    <3>1. k \in 1..((i + 1) - 1) /\ l = k /\ k \in DOMAIN t
      BY <1>2, <1>4, <2>1
    <3> QED
      BY <1>1, <1>3, <3>1
  <2>2. CASE ~(k <= i)
    <3>1. k + 1 \in ((i + 1) + 1)..(Len(s) + 1) /\ l = k + 1 /\ k + 1 \in DOMAIN t
          /\ (k + 1) - 1 = k
      BY <1>2, <1>4, <2>2
    <3> QED
      BY <1>1, <1>3, <3>1
  <2> QED
    BY <2>1, <2>2
<1>6. ASSUME NEW j \in DOMAIN t, t[j].path.branch = "main", t[j].path.index < path.index
      PROVE  j < l
  <2>1. j \in Nat
    BY <1>4
  <2>2. CASE j <= i
    <3>1. j \in 1..((i + 1) - 1) /\ j \in DOMAIN s
      BY <1>2, <1>4, <2>2
    <3>2. j < k
      BY <1>1, <1>3, <1>6, <3>1
    <3> QED
      BY <1>2, <2>1, <3>2
  <2>3. CASE j = i + 1
    <3>1. i < k
      BY <1>1, <1>2, <1>3, <1>6, <2>3
    <3> QED
      BY <1>2, <2>3, <3>1
  <2>4. CASE j > i + 1
    <3>1. j \in ((i + 1) + 1)..(Len(s) + 1) /\ j - 1 \in DOMAIN s
      BY <1>2, <1>4, <2>4
    <3>2. j - 1 < k
      BY <1>1, <1>3, <1>6, <3>1
    <3> QED
      BY <1>2, <2>1, <2>4, <3>2
  <2> QED
    BY <1>2, <2>1, <2>2, <2>3, <2>4
<1> HIDE DEF l
<1> QED
  BY <1>5, <1>6 DEF Behind, t

\* Sets whose members are found among places m + 1 to N are no larger.
LEMMA AtMostPlaces ==
  ASSUME NEW S, NEW N \in Nat, NEW m \in 0..N, NEW F,
         \A x \in S : \E g \in (m + 1)..N : F[g] = x
  PROVE  IsFiniteSet(S) /\ Cardinality(S) <= N - m
<1> DEFINE T == (m + 1)..N
           f == [x \in S |-> CHOOSE g \in T : F[g] = x]
<1>1. \A x \in S : f[x] \in T /\ F[f[x]] = x
  OBVIOUS
<1>2. f \in Injection(S, T)
  BY <1>1 DEF Injection, IsInjective
<1>3. IsFiniteSet(T) /\ Cardinality(T) = N - m
  <2>1. m + 1 \in Int /\ N \in Int /\ (IF m + 1 > N THEN 0 ELSE N - (m + 1) + 1) = N - m
    OBVIOUS
  <2> QED
    BY <2>1, FS_Interval
<1> HIDE DEF T, f
<1> QED
  BY <1>2, <1>3, FS_Injection

\* The places of the main addresses; the latest of these are the last ones.
MainPlaces(p) ==
  /\ p \in Seq(1..Len(addresses))
  /\ \A g, l \in 1..Len(p) : g < l => p[g] < p[l]
  /\ \A k \in 1..Len(addresses) :
       addresses[k].path.branch = "main" => \E g \in 1..Len(p) : p[g] = k
  /\ \A g \in 1..Len(p) : addresses[p[g]].path.branch = "main"

LEMMA LatestPlaces ==
  ASSUME addresses \in Seq(Address)
  PROVE  \E p : /\ MainPlaces(p)
                /\ Len(Latest) = IF Len(p) <= MaxGap THEN Len(p) ELSE MaxGap
                /\ DOMAIN Latest = 1..Len(Latest)
                /\ \A i \in 1..Len(Latest) :
                     Latest[i] = addresses[p[Len(p) - Len(Latest) + i]]
<1> DEFINE main == {a \in Address : a.path.branch = "main"}
           F == Filter(addresses, main)
<1>1. Len(addresses) \in Nat /\ \A k \in 1..Len(addresses) : addresses[k] \in Address
  OBVIOUS
<1>2. PICK p : /\ PlacesOf(p, addresses, main, Len(addresses))
               /\ F = [i \in 1..Len(p) |-> addresses[p[i]]]
  <2> DEFINE s == addresses
  <2> HIDE DEF main
  <2>1. Len(s) \in Nat
    BY <1>1
  <2> HIDE DEF s
  <2>2. \E p : /\ PlacesOf(p, s, main, Len(s))
               /\ Filter(s, main) = [i \in 1..Len(p) |-> s[p[i]]]
    BY <2>1, FilterPlaces
  <2> QED
    BY <2>2 DEF s
<1>3. \A k \in 1..Len(addresses) :
        addresses[k] \in main <=> addresses[k].path.branch = "main"
  BY <1>1
<1>4. p \in Seq(1..Len(addresses)) /\ Len(p) \in Nat /\ DOMAIN p = 1..Len(p)
      /\ \A g \in 1..Len(p) : p[g] \in 1..Len(addresses)
  BY <1>2 DEF PlacesOf
<1>5. MainPlaces(p)
  BY <1>2, <1>3, <1>4 DEF MainPlaces, PlacesOf
<1>6. MaxGap \in Nat /\ MaxGap >= 1
  BY AddressBookAssumption
<1>7. Latest = TakeRight(F, MaxGap)
  BY DEF Latest
<1> HIDE DEF F, main
<1>8. /\ Len(F) = Len(p) /\ DOMAIN F = 1..Len(p)
      /\ \A g \in 1..Len(p) : F[g] = addresses[p[g]] /\ F[g] \in Address
      /\ F \in Seq(Address)
  BY <1>1, <1>2, <1>4
<1>9. CASE Len(p) <= MaxGap
  <2>1. Latest = F
    BY <1>7, <1>8, <1>9 DEF TakeRight
  <2>2. \A i \in 1..Len(p) : Len(p) - Len(p) + i = i
    BY <1>4
  <2> QED
    BY <1>5, <1>8, <1>9, <2>1, <2>2
<1>10. CASE ~(Len(p) <= MaxGap)
  <2> DEFINE m == (Len(p) - MaxGap) + 1
  <2>1. Latest = SubSeq(F, m, Len(p))
    BY <1>7, <1>8, <1>10 DEF TakeRight
  <2>2. m \in 1..(Len(p) + 1) /\ Len(p) \in (m - 1)..Len(p) /\ Len(p) - m + 1 = MaxGap
    BY <1>4, <1>6, <1>10
  <2>3. /\ Latest \in Seq(Address) /\ Len(Latest) = Len(p) - m + 1
        /\ \A i \in 1..(Len(p) - m + 1) : Latest[i] = F[m + i - 1]
    <3> HIDE DEF m
    <3> QED
      BY <1>8, <2>1, <2>2, SubSeqProperties
  <2>4. \A i \in 1..MaxGap : /\ m + i - 1 = Len(p) - MaxGap + i
                             /\ m + i - 1 \in 1..Len(p)
    BY <1>4, <1>6, <1>10
  <2> HIDE DEF m
  <2>5. Len(Latest) = MaxGap /\ DOMAIN Latest = 1..MaxGap
    BY <2>2, <2>3
  <2>6. \A i \in 1..MaxGap : Latest[i] = addresses[p[Len(p) - MaxGap + i]]
    BY <1>8, <2>2, <2>3, <2>4
  <2> QED
    BY <1>5, <1>10, <2>5, <2>6
<1> QED
  BY <1>9, <1>10

\* Fewer than MaxGap unused addresses come after one of the latest, or when there
\* are fewer latest ones.
LEMMA FewBeyond ==
  ASSUME IInv, InOrder, NEW n \in Nat,
         Len(Latest) < MaxGap \/ \E i \in DOMAIN Latest : Latest[i].path.index < n
  PROVE  IsFiniteSet(Beyond(n)) /\ Cardinality(Beyond(n)) <= MaxGap - 1
<1>1. addresses \in Seq(Address) /\ given \subseteq Path
  BY Known
<1>2. MaxGap \in Nat /\ MaxGap >= 1
  BY AddressBookAssumption
<1>3. PICK p :
        /\ MainPlaces(p)
        /\ Len(Latest) = IF Len(p) <= MaxGap THEN Len(p) ELSE MaxGap
        /\ DOMAIN Latest = 1..Len(Latest)
        /\ \A i \in 1..Len(Latest) :
             Latest[i] = addresses[p[Len(p) - Len(Latest) + i]]
  BY <1>1, LatestPlaces
<1>4. /\ Len(p) \in Nat /\ DOMAIN addresses = 1..Len(addresses)
      /\ \A g \in 1..Len(p) : p[g] \in 1..Len(addresses) /\ p[g] \in Nat
  BY <1>1, <1>3 DEF MainPlaces
<1> DEFINE F == [g \in 1..Len(p) |-> addresses[p[g]].path]
<1>5. ASSUME NEW m \in 0..Len(p), Len(p) - m <= MaxGap - 1,
             m = 0 \/ addresses[p[m]].path.index < n
      PROVE  IsFiniteSet(Beyond(n)) /\ Cardinality(Beyond(n)) <= MaxGap - 1
  <2>1. ASSUME NEW path \in Beyond(n)
        PROVE  \E g \in (m + 1)..Len(p) : F[g] = path
    <3>1. /\ path \in given /\ path.branch = "main" /\ path.index >= n
          /\ path \in Path /\ path.index \in Nat
      BY <1>1, PathParts DEF Beyond
    <3>2. PICK k \in DOMAIN addresses :
            /\ addresses[k].path = path
            /\ \A j \in DOMAIN addresses :
                 addresses[j].path.branch = "main" /\ addresses[j].path.index < path.index
                   => j < k
      BY <3>1 DEF InOrder, Behind
    <3>3. PICK g \in 1..Len(p) : p[g] = k
      BY <1>3, <1>4, <3>1, <3>2 DEF MainPlaces
    <3>4. F[g] = path
      BY <3>2, <3>3
    <3>5. g > m
      <4> SUFFICES ASSUME g <= m PROVE FALSE
        BY <1>4
      <4>1. m \in 1..Len(p) /\ m # 0
        BY <1>4
      <4>2. p[m] \in DOMAIN addresses /\ addresses[p[m]].path.branch = "main"
        BY <1>3, <1>4, <4>1 DEF MainPlaces
      <4>3. addresses[p[m]].path.index < n
        BY <1>5, <4>1
      <4>4. addresses[p[m]].path.index \in Nat
        <5>1. addresses[p[m]] \in Address
          BY <1>1, <4>2, ElementOfSeq
        <5> QED
          BY <5>1, PathParts DEF Address
      <4>5. p[m] < k
        BY <3>1, <3>2, <4>2, <4>3, <4>4
      <4>6. g = m \/ p[g] < p[m]
        BY <1>3, <4>1 DEF MainPlaces
      <4> QED
        BY <1>4, <3>3, <4>1, <4>5, <4>6
    <3> QED
      BY <1>4, <3>4, <3>5
  <2> HIDE DEF F
  <2>2. IsFiniteSet(Beyond(n)) /\ Cardinality(Beyond(n)) <= Len(p) - m
    BY <1>4, <2>1, AtMostPlaces
  <2>3. Cardinality(Beyond(n)) \in Nat
    BY <2>2, FS_CardinalityType
  <2> QED
    BY <1>2, <1>4, <1>5, <2>2, <2>3
<1>6. CASE Len(Latest) < MaxGap
  <2>1. Len(p) < MaxGap
    BY <1>2, <1>3, <1>4, <1>6
  <2>2. 0 \in 0..Len(p) /\ Len(p) - 0 <= MaxGap - 1
    BY <1>2, <1>4, <2>1
  <2> QED
    BY <1>5, <2>2
<1>7. CASE \E i \in DOMAIN Latest : Latest[i].path.index < n
  <2>1. PICK i \in 1..Len(Latest) : Latest[i].path.index < n
    BY <1>3, <1>7
  <2> DEFINE m == Len(p) - Len(Latest) + i
  <2>2. Len(Latest) \in Nat /\ Len(Latest) <= MaxGap /\ Len(Latest) <= Len(p)
    BY <1>2, <1>3, <1>4
  <2>3. m \in 0..Len(p) /\ Len(p) - m <= MaxGap - 1
    BY <1>2, <1>4, <2>1, <2>2
  <2>4. addresses[p[m]].path.index < n
    BY <1>3, <2>1
  <2> HIDE DEF m
  <2> QED
    BY <1>5, <2>3, <2>4
<1> QED
  BY <1>6, <1>7

\* The unused addresses are finitely many.
LEMMA BeyondFinite ==
  ASSUME given \subseteq Path, NEW n
  PROVE  IsFiniteSet(Beyond(n)) /\ Cardinality(Beyond(n)) \in Nat
<1> DEFINE N == MaxIndex["main"]
           F == [g \in 1..N |-> At("main", g - 1)]
<1>1. N \in Nat
  BY AddressBookAssumption
<1>2. ASSUME NEW path \in Beyond(n)
      PROVE  \E g \in (0 + 1)..N : F[g] = path
  <2>1. path \in Path /\ path.branch = "main"
    BY DEF Beyond
  <2>2. path.index \in 0..(N - 1) /\ path = At("main", path.index)
    BY <2>1, PathParts
  <2>3. path.index + 1 \in 1..N /\ (path.index + 1) - 1 = path.index
    BY <1>1, <2>2
  <2>4. F[path.index + 1] = path
    BY <2>2, <2>3
  <2> QED
    BY <2>3, <2>4
<1> HIDE DEF F, N
<1>3. IsFiniteSet(Beyond(n))
  BY <1>1, <1>2, AtMostPlaces
<1> QED
  BY <1>3, FS_CardinalityType

\* So are the handlers.
LEMMA PassingFinite ==
  ASSUME NEW n
  PROVE  /\ IsFiniteSet(Passing(n)) /\ Cardinality(Passing(n)) \in Nat
         /\ Cardinality(Request) \in Nat /\ Cardinality(Passing(n)) <= Cardinality(Request)
<1>1. IsFiniteSet(Request) /\ Passing(n) \in SUBSET Request
  BY AddressBookAssumption DEF Passing
<1> QED
  BY <1>1, FS_Subset, FS_CardinalityType

\* The bound is kept when a handler passes that did already, or that finds few
\* unused addresses.
LEMMA GapKeeps ==
  ASSUME IInv, GapKept, NEW r \in Request, NEW h, req' = [req EXCEPT ![r] = h],
         active' = active, \A n \in Nat : Beyond(n)' = Beyond(n),
         \A n \in Nat : Above(n) /\ Passes(h, n)
           => Passes(req[r], n) \/ Cardinality(Beyond(n)) <= MaxGap - 1
  PROVE  GapKept'
<1>1. /\ given \subseteq Path /\ MaxIndex["main"] \in Nat /\ MaxGap \in Nat
      /\ \A q \in Request : req'[q] = IF q = r THEN h ELSE req[q]
  <2>1. req = [q \in Request |-> req[q]] /\ given \subseteq Path
    BY Known
  <2> QED
    BY <2>1, AddressBookAssumption
<1> SUFFICES ASSUME NEW n \in 0..MaxIndex["main"], Above(n)'
             PROVE  GapKeptAt(n)'
  BY DEF GapKept
<1>2. n \in Nat /\ Above(n) /\ GapKeptAt(n)
  BY <1>1 DEF Above, GapKept
<1> DEFINE P == Passing(n)
           Q == Passing(n)'
           B == Cardinality(Beyond(n))
<1>3. Q \in SUBSET Request /\ IsFiniteSet(Request)
  BY AddressBookAssumption DEF Passing
<1>4. /\ IsFiniteSet(P) /\ Cardinality(P) \in Nat
      /\ Cardinality(Request) \in Nat /\ Cardinality(Q) \in Nat
      /\ Cardinality(Q) <= Cardinality(Request)
      /\ B \in Nat /\ Cardinality(Beyond(n)') = B
  BY <1>1, <1>2, <1>3, PassingFinite, BeyondFinite, FS_Subset, FS_CardinalityType
<1>5. B + Cardinality(P) <= MaxGap + Cardinality(Request) - 1
  BY <1>2 DEF GapKeptAt
<1>6. B + Cardinality(Q) <= MaxGap + Cardinality(Request) - 1
  <2>1. CASE Passes(h, n) => Passes(req[r], n)
    <3>1. Q \in SUBSET P
      BY <1>1, <2>1 DEF Passing, Passes
    <3> HIDE DEF P, Q, B
    <3>2. Cardinality(Q) <= Cardinality(P)
      BY <1>4, <3>1, FS_Subset
    <3> QED
      BY <1>1, <1>4, <1>5, <3>2
  <2>2. CASE ~(Passes(h, n) => Passes(req[r], n))
    <3>1. B <= MaxGap - 1
      BY <1>2, <2>2
    <3> HIDE DEF P, Q, B
    <3> QED
      BY <1>1, <1>4, <3>1
  <2> QED
    BY <2>1, <2>2
<1> QED
  BY <1>4, <1>6 DEF GapKeptAt

\* As many documents, of the same addresses.
SamePaths(s, t) ==
  /\ Len(t) = Len(s) /\ (s # << >> => t # << >>)
  /\ \A k \in DOMAIN s : t[k].path = s[k].path

\* What holds of a request that waits.
LEMMA WaitingNew ==
  ASSUME NEW h, ~Busy(h)
  PROVE  /\ \A w, docs, out : NewFits(h, w, docs, out)
         /\ \A paid : CopyPaid(h, paid)
BY DEF Busy, NewFits, CopyPaid

\* A request moves; if it stores anything but marks it is the busy one.
LEMMA GapMoves ==
  ASSUME GInv, PInv', NEW r \in Request, NEW h, req' = [req EXCEPT ![r] = h],
         LatestFits(h), CopyPaid(h, active), active' = active, Paid(addresses', active),
         wallet'.singleAddress = wallet.singleAddress,
         \/ Busy(req[r])
         \/ UNCHANGED <<wallet, given>> /\ SamePaths(addresses, addresses'),
         ~wallet.singleAddress => /\ InOrder'
                                  /\ NewFits(h, wallet', addresses', given')
                                  /\ ~IgnoreMaxGap => GapKept'
  PROVE  GInv'
<1>1. PInv /\ LockKept /\ AloneIfUnlocked /\ IInv
  BY DEF GInv, PInv
<1>2. req = [q \in Request |-> req[q]] /\ addresses \in Seq(Address)
  BY <1>1, Known
<1>3. \A q \in Request : req'[q] = IF q = r THEN h ELSE req[q]
  BY <1>2
<1>4. ASSUME ~wallet.singleAddress, NEW q \in Request
      PROVE  NewFits(req'[q], wallet', addresses', given')
  <2>1. CASE q = r
    BY <1>3, <1>4, <2>1
  <2>2. CASE q # r /\ Busy(req[r])
    <3>1. ~Busy(req[q])
      BY <1>1, <2>2, OneBusy
    <3> QED
      BY <1>3, <2>2, <3>1, WaitingNew
  <2>3. CASE q # r /\ UNCHANGED <<wallet, given>> /\ SamePaths(addresses, addresses')
    <3>1. req'[q] = req[q] /\ NewFits(req[q], wallet, addresses, given)
      BY <1>3, <1>4, <2>3 DEF GInv
    <3>2. addresses # << >> => Len(addresses) \in DOMAIN addresses
      BY <1>2
    <3>3. addresses # << >> =>
            /\ addresses' # << >>
            /\ addresses'[Len(addresses')].path = addresses[Len(addresses)].path
      BY <2>3, <3>2 DEF SamePaths
    <3> QED
      BY <2>3, <3>1, <3>3 DEF NewFits
  <2> QED
    BY <2>1, <2>2, <2>3
<1>5. \A q \in Request : LatestFits(req'[q]) /\ CopyPaid(req'[q], active')
  BY <1>3 DEF GInv
<1>6. ~wallet'.singleAddress =>
        /\ InOrder'
        /\ \A q \in Request : NewFits(req'[q], wallet', addresses', given')
        /\ ~IgnoreMaxGap => GapKept'
  BY <1>4
<1>7. Paid(addresses', active')
  OBVIOUS
<1> QED
  BY <1>5, <1>6, <1>7 DEF GInv, LatestFits, CopyPaid, Paid, NewFits, PathsOf

\* A request goes on, passing no check; if it stores the document it is the busy one.
LEMMA GapGoesOn ==
  ASSUME GInv, PInv', NEW r \in Request, NEW h, req' = [req EXCEPT ![r] = h],
         LatestFits(h), CopyPaid(h, active), UNCHANGED <<active, given, addresses>>,
         wallet'.singleAddress = wallet.singleAddress,
         wallet' = wallet \/ Busy(req[r]),
         ~wallet.singleAddress => NewFits(h, wallet', addresses, given),
         \A n \in Nat : Passes(h, n) => Passes(req[r], n)
  PROVE  GInv'
<1>1. SamePaths(addresses, addresses') /\ Paid(addresses', active)
  BY DEF SamePaths, GInv
<1>2. IInv
  BY DEF GInv, PInv
<1>3. ASSUME ~wallet.singleAddress
      PROVE  InOrder' /\ (~IgnoreMaxGap => GapKept')
  <2>1. InOrder'
    BY <1>3 DEF GInv, InOrder, Behind
  <2>2. \A n \in Nat : Beyond(n)' = Beyond(n)
    BY DEF Beyond
  <2>3. ~IgnoreMaxGap => GapKept'
    BY <1>2, <1>3, <2>2, GapKeeps DEF GInv
  <2> QED
    BY <2>1, <2>3
<1>4. /\ \/ Busy(req[r])
         \/ UNCHANGED <<wallet, given>> /\ SamePaths(addresses, addresses')
      /\ ~wallet.singleAddress => /\ InOrder'
                                  /\ NewFits(h, wallet', addresses', given')
                                  /\ ~IgnoreMaxGap => GapKept'
  BY <1>1, <1>3
<1> QED
  BY <1>1, <1>4, GapMoves

\* A request answers, and nothing is given.
LEMMA GapReturns ==
  ASSUME GInv, PInv', NEW r \in Request, Return(r),
         UNCHANGED <<wallet, active, given, addresses>>
  PROVE  GInv'
<1>1. ~Busy(Idle) /\ Idle.pc = "idle"
  BY IdleWaits, IdleTyped
<1>2. LatestFits(Idle) /\ \A n \in Nat : ~Passes(Idle, n)
  BY <1>1 DEF LatestFits, Passes
<1>3. req' = [req EXCEPT ![r] = Idle]
  BY DEF Return
<1> QED
  BY <1>1, <1>2, <1>3, WaitingNew, GapGoesOn

\* What the invariant says of a request.
LEMMA GapKnown ==
  ASSUME GInv, NEW r \in Request
  PROVE  /\ PInv /\ IInv /\ Paid(addresses, active)
         /\ LatestFits(req[r]) /\ CopyPaid(req[r], active)
         /\ HandlerType(req[r]) /\ Fits(req[r], wallet, active)
         /\ Holds(req[r]) => lock = r
         /\ req = [q \in Request |-> req[q]]
         /\ ~wallet.singleAddress => /\ InOrder /\ GivenBehindIndex
                                     /\ NewFits(req[r], wallet, addresses, given)
                                     /\ ~IgnoreMaxGap => GapKept
BY PoliteKnown DEF GInv

\* The starting state.
LEMMA GapInit == Init => GInv
<1> SUFFICES ASSUME Init PROVE GInv
  OBVIOUS
<1>1. \A r \in Request : req[r] = Idle
  BY DEF Init
<1>2. ~Busy(Idle) /\ Idle.pc = "idle"
  BY IdleWaits, IdleTyped
<1>3. \A r \in Request : /\ LatestFits(req[r]) /\ CopyPaid(req[r], active)
                         /\ NewFits(req[r], wallet, addresses, given)
  BY <1>1, <1>2, WaitingNew DEF LatestFits
<1>4. Paid(addresses, active) /\ InOrder
  BY DEF Init, Paid, InOrder
<1>5. ASSUME NEW n \in Nat PROVE GapKeptAt(n)
  <2>1. Beyond(n) = {} /\ Passing(n) = {}
    BY <1>1, <1>2 DEF Init, Beyond, Passing, Passes
  <2>2. Cardinality(Request) \in Nat /\ MaxGap \in Nat /\ MaxGap >= 1
    BY AddressBookAssumption, FS_CardinalityType
  <2> QED
    BY <2>1, <2>2, FS_EmptySet DEF GapKeptAt
<1>6. GapKept
  <2>1. MaxIndex["main"] \in Nat
    BY AddressBookAssumption
  <2> QED
    BY <1>5, <2>1 DEF GapKept
<1> QED
  BY <1>3, <1>4, <1>6, PoliteInit DEF GInv

\* Somebody pays an address.
LEMMA GapActivity ==
  ASSUME GInv, PInv', NEW path \in Path, Activity(path)
  PROVE  GInv'
<1>1. active \subseteq active' /\ UNCHANGED <<wallet, addresses, given, lock, req>>
  BY DEF Activity
<1>2. Paid(addresses', active') /\ \A r \in Request : /\ LatestFits(req'[r])
                                                      /\ CopyPaid(req'[r], active')
  BY <1>1 DEF GInv, Paid, CopyPaid
<1>3. ASSUME ~wallet'.singleAddress
      PROVE  /\ InOrder'
             /\ \A r \in Request : NewFits(req'[r], wallet', addresses', given')
  BY <1>1, <1>3 DEF GInv, InOrder
<1>4. ASSUME ~wallet'.singleAddress, ~IgnoreMaxGap
      PROVE  GapKept'
  <2>1. GapKept
    BY <1>1, <1>4 DEF GInv
  <2>2. \A n : Above(n)' => Above(n)
    BY <1>1 DEF Above
  <2>3. \A n : GapKeptAt(n)' <=> GapKeptAt(n)
    BY <1>1 DEF GapKeptAt, Beyond, Passing
  <2> QED
    BY <2>1, <2>2, <2>3 DEF GapKept
<1> QED
  BY <1>2, <1>3, <1>4 DEF GInv, LatestFits, CopyPaid, Paid, NewFits, PathsOf

\* The latest main addresses.
LEMMA LatestAre ==
  ASSUME IInv, NEW i \in DOMAIN Latest
  PROVE  /\ Latest[i].path \in Path /\ Latest[i].path.branch = "main"
         /\ Latest[i].path.index \in Nat
         /\ \E k \in DOMAIN addresses : Latest[i] = addresses[k]
<1>1. addresses \in Seq(Address)
  BY Known
<1>2. PICK p :
        /\ MainPlaces(p)
        /\ Len(Latest) = IF Len(p) <= MaxGap THEN Len(p) ELSE MaxGap
        /\ DOMAIN Latest = 1..Len(Latest)
        /\ \A l \in 1..Len(Latest) :
             Latest[l] = addresses[p[Len(p) - Len(Latest) + l]]
  BY <1>1, LatestPlaces
<1>3. Len(p) \in Nat /\ MaxGap \in Nat
  BY <1>2, AddressBookAssumption DEF MainPlaces
<1> DEFINE g == Len(p) - Len(Latest) + i
<1>4. g \in 1..Len(p) /\ Latest[i] = addresses[p[g]]
  <2>1. i \in 1..Len(Latest) /\ Len(Latest) \in Nat /\ Len(Latest) <= Len(p)
    BY <1>2, <1>3
  <2>2. Latest[i] = addresses[p[g]]
    BY <1>2, <2>1
  <2> QED
    BY <1>3, <2>1, <2>2
<1> HIDE DEF g
<1>5. p[g] \in DOMAIN addresses /\ addresses[p[g]].path.branch = "main"
  BY <1>1, <1>2, <1>4 DEF MainPlaces
<1>6. addresses[p[g]] \in Address
  BY <1>1, <1>5, ElementOfSeq
<1>7. addresses[p[g]].path \in Path
  BY <1>6 DEF Address
<1> QED
  BY <1>4, <1>5, <1>7, PathParts

\* createAddress passes, or asks about the latest addresses.
LEMMA GapCreateAddress ==
  ASSUME GInv, PInv', NEW r \in Request, CreateAddress(r)
  PROVE  GInv'
<1>1. /\ UNCHANGED <<wallet, addresses, active, given, lock>> /\ PInv /\ IInv
      /\ Paid(addresses, active)
  BY GapKnown DEF CreateAddress
<1>2. SamePaths(addresses, addresses')
  BY <1>1 DEF SamePaths
<1>3. ASSUME NEW h, ~Busy(h), LatestFits(h), req' = [req EXCEPT ![r] = h],
             \A n \in Nat : Above(n) /\ Passes(h, n) =>
               \/ IgnoreMaxGap \/ Len(Latest) < MaxGap
               \/ \E i \in DOMAIN Latest : Latest[i].path.index < n
      PROVE  GInv'
  <2>1. ASSUME ~wallet.singleAddress
        PROVE  InOrder' /\ (~IgnoreMaxGap => GapKept')
    <3>1. InOrder /\ InOrder'
      BY <1>1, <2>1 DEF GInv, InOrder
    <3>2. ASSUME ~IgnoreMaxGap PROVE GapKept'
      <4>1. \A n \in Nat : Beyond(n)' = Beyond(n)
        BY <1>1 DEF Beyond
      <4>2. \A n \in Nat : Above(n) /\ Passes(h, n)
                             => Cardinality(Beyond(n)) <= MaxGap - 1
        BY <1>1, <1>3, <3>1, <3>2, FewBeyond
      <4> QED
        BY <1>1, <1>3, <2>1, <3>2, <4>1, <4>2, GapKeeps DEF GInv
    <3> QED
      BY <3>1, <3>2
  <2> QED
    BY <1>1, <1>2, <1>3, <2>1, WaitingNew, GapMoves
<1>4. CASE req' = [req EXCEPT ![r] = Start("createAddress", "waitLock")]
  <2> DEFINE h == Start("createAddress", "waitLock")
  <2>1. h.pc = "waitLock"
    BY StartTyped
  <2>2. CASE IgnoreMaxGap \/ Len(Latest) < MaxGap
    BY <1>3, <1>4, <2>1, <2>2 DEF Busy, LatestFits
  <2>3. ASSUME NEW i \in DOMAIN Latest, Latest[i].hasActivity
        PROVE  GInv'
    <3>1. Latest[i].path \in active /\ Latest[i].path.branch = "main"
      BY <1>1, <2>3, LatestAre DEF Paid
    <3>2. \A n \in Nat : Above(n) => Latest[i].path.index < n
      BY <3>1 DEF Above
    <3> QED
      BY <1>3, <1>4, <2>1, <2>3, <3>2 DEF Busy, LatestFits
  <2>4. \/ IgnoreMaxGap \/ Len(Latest) < MaxGap
        \/ \E i \in DOMAIN Latest : Latest[i].hasActivity
    <3> SUFFICES ASSUME ~(\/ IgnoreMaxGap \/ Len(Latest) < MaxGap
                          \/ \E i \in DOMAIN Latest : Latest[i].hasActivity)
                 PROVE  FALSE
      OBVIOUS
    <3>1. req' = [req EXCEPT ![r] =
             [Start("createAddress", "checkActivity") EXCEPT
                !.latest = [i \in DOMAIN Latest |-> Latest[i].path]]]
      BY DEF CreateAddress
    <3>2. req'[r].pc = "checkActivity"
      <4>1. req = [q \in Request |-> req[q]]
        BY <1>1, Known
      <4>2. [Start("createAddress", "checkActivity") EXCEPT
                !.latest = [i \in DOMAIN Latest |-> Latest[i].path]].pc = "checkActivity"
        BY DEF Start, Idle
      <4> QED
        BY <3>1, <4>1, <4>2
    <3>3. req'[r] = h
      <4>1. req = [q \in Request |-> req[q]]
        BY <1>1, Known
      <4> QED
        BY <1>4, <4>1
    <3> QED
      BY <2>1, <3>2, <3>3
  <2> QED
    BY <2>2, <2>3, <2>4
<1>5. CASE req' # [req EXCEPT ![r] = Start("createAddress", "waitLock")]
  <2> DEFINE latest == [i \in DOMAIN Latest |-> Latest[i].path]
             h == [Start("createAddress", "checkActivity") EXCEPT !.latest = latest]
  <2>1. req' = [req EXCEPT ![r] = h]
    BY <1>5 DEF CreateAddress
  <2>2. DOMAIN Latest = 1..Len(Latest) /\ Len(Latest) \in Nat
    <3>1. addresses \in Seq(Address)
      BY <1>1, Known
    <3>2. PICK p : /\ MainPlaces(p)
                   /\ Len(Latest) = IF Len(p) <= MaxGap THEN Len(p) ELSE MaxGap
                   /\ DOMAIN Latest = 1..Len(Latest)
      BY <3>1, LatestPlaces
    <3> QED
      BY <3>2, AddressBookAssumption DEF MainPlaces
  <2>3. latest \in Seq({path \in Path : path.branch = "main"})
    <3>1. latest = [i \in 1..Len(Latest) |-> latest[i]]
      BY <2>2
    <3>2. \A i \in 1..Len(Latest) : latest[i] \in {path \in Path : path.branch = "main"}
      BY <1>1, <2>2, LatestAre
    <3> HIDE DEF latest
    <3> QED
      BY <2>2, <3>1, <3>2, IsASeq
  <2>4. \A n \in Nat : (\E i \in DOMAIN latest : latest[i].index < n)
                         => \E i \in DOMAIN Latest : Latest[i].path.index < n
    OBVIOUS
  <2> HIDE DEF latest
  <2>5. h.pc = "checkActivity" /\ h.latest = latest
    BY DEF Start, Idle
  <2> HIDE DEF h
  <2>6. ~Busy(h) /\ LatestFits(h)
    BY <2>3, <2>5 DEF Busy, LatestFits
  <2>7. \A n \in Nat : Passes(h, n) => \E i \in DOMAIN Latest : Latest[i].path.index < n
    BY <2>4, <2>5 DEF Passes
  <2> QED
    BY <1>3, <2>1, <2>6, <2>7
<1> QED
  BY <1>4, <1>5

\* It is told that one of them is used, or none.
LEMMA GapCheckActivity ==
  ASSUME GInv, PInv', NEW r \in Request, CheckActivity(r)
  PROVE  GInv'
<1> DEFINE latest == req[r].latest
           I == {i \in 1..Len(latest) : latest[i] \in active}
           found == SelectLastInSeq(latest, LAMBDA path : path \in active)
           h == Start("createAddress", "waitLock")
<1>1. /\ UNCHANGED <<wallet, active, given>> /\ PInv /\ IInv /\ req[r].pc = "checkActivity"
      /\ Paid(addresses, active) /\ addresses \in Seq(Address)
  BY GapKnown, Known DEF CheckActivity
<1>2. latest \in Seq({path \in Path : path.branch = "main"})
  BY <1>1, GapKnown DEF LatestFits
<1>3. CASE found = 0
  BY <1>1, <1>3, GapReturns DEF CheckActivity
<1>4. CASE found # 0
  <2>1. /\ addresses' = SetActivity(latest[found])
        /\ req' = [req EXCEPT ![r] = h]
    BY <1>4 DEF CheckActivity
  <2>2. found = IF I # {} THEN Max(I) ELSE 0
    BY DEF SelectLastInSeq
  <2>3. found \in I
    <3>1. I \in SUBSET (1..Len(latest)) /\ Len(latest) \in Nat
      BY <1>2
    <3> HIDE DEF I
    <3>2. I # {} => \E m \in I : \A n \in I : m >= n
      BY <3>1, LargestExists
    <3>3. I # {} => Max(I) \in I
      BY <3>2 DEF Max
    <3> HIDE DEF found
    <3> QED
      BY <1>4, <2>2, <3>3
  <2>4. /\ found \in DOMAIN latest /\ latest[found] \in active
        /\ latest[found] \in {path \in Path : path.branch = "main"}
    <3> HIDE DEF found
    <3> QED
      BY <1>2, <2>3
  <2> DEFINE path == latest[found]
  <2>5. h.pc = "waitLock" /\ h.op = "createAddress"
    BY StartTyped
  <2>6. /\ Len(addresses') = Len(addresses) /\ DOMAIN addresses' = DOMAIN addresses
        /\ \A k \in DOMAIN addresses :
             /\ addresses'[k].path = addresses[k].path
             /\ addresses'[k].hasActivity => addresses[k].hasActivity \/ addresses[k].path = path
    <3> HIDE DEF found
    <3> QED
      BY <1>1, <2>1, SetActivityIs
  <2>7. \A n \in Nat : Above(n) => \E i \in DOMAIN latest : latest[i].index < n
    <3> HIDE DEF found, latest
    <3> QED
      BY <2>4 DEF Above
  <2>8. \A n \in Nat : Above(n) => Passes(req[r], n)
    <3> HIDE DEF found
    <3> QED
      BY <1>1, <2>7 DEF Passes
  <2>9. path \in active
    BY <2>4
  <2> HIDE DEF h, path, latest, found
  <2>10. Paid(addresses', active)
    BY <1>1, <2>6, <2>9 DEF Paid
  <2>11. SamePaths(addresses, addresses')
    <3>1. addresses # << >> => addresses' # << >>
      <4>1. addresses # << >> => 1 \in DOMAIN addresses
        BY <1>1
      <4> QED
        BY <2>6, <4>1
    <3> QED
      BY <2>6, <3>1 DEF SamePaths
  <2>12. ASSUME ~wallet.singleAddress
         PROVE  InOrder' /\ (~IgnoreMaxGap => GapKept')
    <3>1. InOrder'
      <4>1. InOrder
        BY <2>12 DEF GInv
      <4>2. \A p : Behind(p, addresses) => Behind(p, addresses')
        BY <2>6 DEF Behind
      <4> QED
        BY <1>1, <4>1, <4>2 DEF InOrder
    <3>2. \A n \in Nat : Beyond(n)' = Beyond(n)
      BY <1>1 DEF Beyond
    <3>3. ~IgnoreMaxGap => GapKept'
      BY <1>1, <2>1, <2>8, <2>12, <3>2, GapKeeps DEF GInv
    <3> QED
      BY <3>1, <3>3
  <2>13. ~Busy(h) /\ LatestFits(h)
    BY <2>5 DEF Busy, LatestFits
  <2> QED
    BY <1>1, <2>1, <2>10, <2>11, <2>12, <2>13, WaitingNew, GapMoves
<1> QED
  BY <1>3, <1>4

\* A request that scans, or that only stores the document.
LEMMA NothingNew ==
  ASSUME NEW h,
         \/ h.pc \in {"scanStart", "scanBranch", "scanStore", "scanEnd"}
         \/ h.pc = "storeWallet" /\ h.op # "createAddress" /\ h.new = << >>
  PROVE  /\ LatestFits(h) /\ \A paid : CopyPaid(h, paid)
         /\ \A w, docs, out : NewFits(h, w, docs, out)
         /\ \A n \in Nat : ~Passes(h, n)
<1>1. PathsOf(<< >>) = {}
  BY DEF PathsOf
<1> QED
  BY <1>1 DEF LatestFits, CopyPaid, NewFits, Passes

\* An address is derived, by a handler that passed the check if it is a main one.
LEMMA GapDerives ==
  ASSUME GInv, PInv', NEW r \in Request,
         NEW op \in {"createAddress", "createTx"}, NEW b \in Branch,
         b = "main" => op = "createAddress",
         op = "createAddress" => req[r].pc = "waitLock",
         wallet.index[b] < MaxIndex[b],
         req' = [req EXCEPT ![r] = [Read(op, "insertAddress") EXCEPT
                                      !.wallet = Derive(wallet, b),
                                      !.new = <<NextAddress(wallet, b)>>]],
         UNCHANGED <<wallet, addresses, active, given>>
  PROVE  GInv'
<1> DEFINE a == NextAddress(wallet, b)
           copy == Derive(wallet, b)
           h == [Read(op, "insertAddress") EXCEPT !.wallet = copy, !.new = <<a>>]
<1>1. IInv /\ wallet.index[b] \in Nat /\ Fits(req[r], wallet, active)
  BY GapKnown, Known
<1>2. a \in Address /\ a.path = At(b, wallet.index[b]) /\ ~a.hasActivity
  BY <1>1, NextAddressIs DEF NextAddress, NewAddress
<1>3. a.path.branch = b /\ a.path.index = wallet.index[b]
  BY <1>2 DEF At
<1>4. req' = [req EXCEPT ![r] = h]
  OBVIOUS
<1> HIDE DEF a, copy
<1>5. h.pc = "insertAddress" /\ h.new = <<a>> /\ h.op = op
  BY DEF Read, Start, Idle
<1> HIDE DEF h
<1>6. LatestFits(h) /\ CopyPaid(h, active)
  <2>1. \A k \in DOMAIN <<a>> : ~<<a>>[k].hasActivity
    BY <1>2
  <2> QED
    BY <1>5, <2>1 DEF LatestFits, CopyPaid, Paid
<1>7. PathsOf(h.new) = {a.path}
  BY <1>5 DEF PathsOf
<1>8. NewFits(h, wallet', addresses, given)
  BY <1>1, <1>2, <1>3, <1>5, <1>7 DEF NewFits
<1>9. ASSUME NEW n \in Nat, Passes(h, n) PROVE Passes(req[r], n)
  <2>1. op = "createAddress"
    BY <1>5, <1>9 DEF Passes
  <2>2. req[r].pc = "waitLock" /\ req[r].op = "createAddress"
    BY <1>1, <2>1 DEF Fits, WaitsAt
  <2> QED
    BY <2>2 DEF Passes
<1> QED
  BY <1>4, <1>6, <1>8, <1>9, GapGoesOn

\* createAddress under the lock, and createTx.
LEMMA GapCreates ==
  ASSUME GInv, PInv', NEW r \in Request, CreateLocked(r) \/ CreateTx(r)
  PROVE  GInv'
<1>1. CASE CreateLocked(r)
  <2>1. UNCHANGED <<wallet, addresses, active>> /\ req[r].pc = "waitLock"
    BY <1>1 DEF CreateLocked
  <2>2. CASE wallet.singleAddress /\ addresses # << >>
    <3>1. req' = [req EXCEPT ![r] = Idle] /\ Paid(addresses', active)
      BY <1>1, <2>1, <2>2, GapKnown DEF CreateLocked, Return
    <3>2. req = [q \in Request |-> req[q]]
      BY GapKnown
    <3>3. LatestFits(Idle) /\ CopyPaid(Idle, active)
      BY IdleTyped DEF LatestFits, CopyPaid
    <3>4. \A q \in Request : LatestFits(req'[q]) /\ CopyPaid(req'[q], active)
      BY <3>1, <3>2, <3>3 DEF GInv
    <3> QED
      BY <2>1, <2>2, <3>1, <3>4 DEF GInv, LatestFits, CopyPaid, Paid
  <2>3. CASE ~(wallet.singleAddress /\ addresses # << >>)
    BY <1>1, <2>1, <2>3, GapDerives DEF CreateLocked, Branch
  <2> QED
    BY <2>2, <2>3
<1>2. CASE CreateTx(r)
  <2>1. UNCHANGED <<wallet, addresses, active, given>> /\ ~wallet.singleAddress
    BY <1>2 DEF CreateTx
  <2>2. CASE /\ wallet.index["change"] < MaxIndex["change"]
             /\ req' = [req EXCEPT ![r] = [Read("createTx", "insertAddress") EXCEPT
                          !.wallet = Derive(wallet, "change"),
                          !.new = <<NextAddress(wallet, "change")>>]]
    BY <2>1, <2>2, GapDerives DEF Branch
  <2>3. ASSUME NEW i \in DOMAIN addresses, addresses[i].path \in given,
               req' = [req EXCEPT ![r] = [Read("createTx", "insertNamed") EXCEPT
                                            !.new = <<addresses[i]>>]]
        PROVE  GInv'
    <3> DEFINE a == addresses[i]
               h == [Read("createTx", "insertNamed") EXCEPT !.new = <<a>>]
    <3>1. a.hasActivity => a.path \in active
      BY GapKnown DEF Paid
    <3>2. req' = [req EXCEPT ![r] = h] /\ a.path \in given
      BY <2>3
    <3> HIDE DEF a
    <3>3. h.pc = "insertNamed" /\ h.op = "createTx" /\ h.new = <<a>>
      BY DEF Read, Start, Idle
    <3> HIDE DEF h
    <3>4. LatestFits(h) /\ CopyPaid(h, active)
      <4>1. Paid(<<a>>, active)
        BY <3>1 DEF Paid
      <4> QED
        BY <3>3, <4>1 DEF LatestFits, CopyPaid
    <3>5. PathsOf(h.new) = {a.path}
      BY <3>3 DEF PathsOf
    <3>6. NewFits(h, wallet', addresses, given)
      BY <3>2, <3>3, <3>5 DEF NewFits
    <3>7. \A n \in Nat : ~Passes(h, n)
      BY <3>3 DEF Passes
    <3> QED
      BY <2>1, <3>2, <3>4, <3>6, <3>7, GapGoesOn
  <2> QED
    BY <1>2, <2>2, <2>3 DEF CreateTx
<1> QED
  BY <1>1, <1>2

\* What it derived is inserted, last.
LEMMA GapInsertAddress ==
  ASSUME GInv, PInv', NEW r \in Request, InsertAddress(r)
  PROVE  GInv'
<1> DEFINE h == req[r]
           pc == IF h.op = "scan" THEN "scanStore" ELSE "storeWallet"
           g == [h EXCEPT !.pc = pc]
<1>1. /\ addresses' = addresses \o h.new /\ req' = [req EXCEPT ![r] = g]
      /\ UNCHANGED <<wallet, active, given, lock>> /\ h.pc = "insertAddress"
  BY DEF InsertAddress
<1>2. /\ HandlerType(h) /\ CopyPaid(h, active) /\ Paid(addresses, active) /\ IInv
      /\ h.new \in Seq(Address) /\ addresses \in Seq(Address)
      /\ given \subseteq Path
  BY GapKnown, HandlerFields, Known
<1>3. ~wallet.singleAddress => /\ InOrder /\ GivenBehindIndex
                               /\ NewFits(h, wallet, addresses, given)
                               /\ ~IgnoreMaxGap => GapKept
  BY GapKnown
<1>4. pc = IF h.op = "scan" THEN "scanStore" ELSE "storeWallet"
  OBVIOUS
<1>5. Busy(req[r])
  BY <1>1 DEF Busy
<1>6. \A n \in Nat : Passes(g, n) => Passes(req[r], n)
  <2>1. g.pc = pc /\ g.op = h.op
    BY <1>2 DEF HandlerType
  <2> HIDE DEF g, pc
  <2> QED
    BY <1>1, <1>4, <2>1 DEF Passes
<1>7. g.pc = pc /\ g.op = h.op /\ g.new = h.new
  BY <1>2 DEF HandlerType
<1> HIDE DEF h, g, pc
<1>8. Paid(addresses', active)
  <2>1. /\ Len(addresses') = Len(addresses) + Len(h.new)
        /\ \A i \in 1..(Len(addresses) + Len(h.new)) :
             addresses'[i] = IF i <= Len(addresses) THEN addresses[i]
                                                    ELSE h.new[i - Len(addresses)]
        /\ addresses' \in Seq(Address)
    BY <1>1, <1>2, ConcatProperties
  <2>2. Paid(h.new, active)
    BY <1>1, <1>2 DEF CopyPaid
  <2> SUFFICES ASSUME NEW k \in DOMAIN addresses', addresses'[k].hasActivity
               PROVE  addresses'[k].path \in active
    BY DEF Paid
  <2>3. /\ k \in 1..(Len(addresses) + Len(h.new)) /\ DOMAIN addresses = 1..Len(addresses)
        /\ DOMAIN h.new = 1..Len(h.new) /\ Len(addresses) \in Nat /\ Len(h.new) \in Nat
    BY <1>2, <2>1
  <2>4. CASE k <= Len(addresses)
    BY <1>2, <2>1, <2>3, <2>4 DEF Paid
  <2>5. CASE ~(k <= Len(addresses))
    <3>1. k - Len(addresses) \in DOMAIN h.new
      BY <2>3, <2>5
    <3> QED
      BY <2>1, <2>2, <2>3, <2>5, <3>1 DEF Paid
  <2> QED
    BY <2>4, <2>5
<1>9. LatestFits(g) /\ CopyPaid(g, active)
  BY <1>4, <1>7 DEF LatestFits, CopyPaid
<1>10. ASSUME ~wallet.singleAddress
       PROVE  InOrder'
  <2> SUFFICES ASSUME NEW path \in given, path.branch = "main"
               PROVE  Behind(path, addresses \o h.new)
    BY <1>1 DEF InOrder
  <2>1. path \in Path /\ Behind(path, addresses) /\ path.index \in Nat
    BY <1>2, <1>3, <1>10, PathParts DEF InOrder
  <2>2. path.index < wallet.index["main"] /\ wallet.index["main"] \in Nat
    BY <1>2, <1>3, <1>10, Known DEF GivenBehindIndex, Branch
  <2>3. ASSUME NEW p \in PathsOf(h.new), p.branch = "main"
        PROVE  path.index <= p.index
    <3>1. p \in Path
      BY <1>2, HandlerFields
    <3>2. p.index \in Nat /\ wallet.index["main"] <= p.index
      BY <1>1, <1>3, <1>10, <2>3, <3>1, PathParts DEF NewFits
    <3> QED
      BY <2>1, <2>2, <3>2
  <2> QED
    BY <1>2, <2>1, <2>3, BehindAppend
<1>11. ASSUME ~wallet.singleAddress
       PROVE  NewFits(g, wallet', addresses', given')
  <2>1. CASE h.op = "scan"
    BY <1>4, <1>7, <2>1 DEF NewFits
  <2>2. CASE h.op # "scan"
    <3>1. PICK a \in Address : /\ h.new = <<a>>
                               /\ a.path.branch = "main" => h.op = "createAddress"
      BY <1>1, <1>3, <1>11, <2>2 DEF NewFits
    <3>2. addresses' # << >> /\ addresses'[Len(addresses')] = a
      <4>1. addresses' = Append(addresses, a)
        BY <1>1, <1>2, <3>1
      <4> QED
        BY <1>2, <3>1, <4>1
    <3>3. PathsOf(g.new) = {a.path}
      BY <1>7, <3>1 DEF PathsOf
    <3>4. g.pc = "storeWallet" /\ (a.path.branch = "main" => g.op = "createAddress")
      BY <1>4, <1>7, <2>2, <3>1
    <3> QED
      BY <3>2, <3>3, <3>4 DEF NewFits
  <2> QED
    BY <2>1, <2>2
<1>12. ASSUME ~wallet.singleAddress, ~IgnoreMaxGap
       PROVE  GapKept'
  <2>1. \A n \in Nat : Beyond(n)' = Beyond(n)
    BY <1>1 DEF Beyond
  <2> QED
    BY <1>1, <1>2, <1>3, <1>6, <1>12, <2>1, GapKeeps
<1> QED
  BY <1>1, <1>5, <1>8, <1>9, <1>10, <1>11, <1>12, GapMoves

\* A copy is put next to the address.
LEMMA GapInsertNamed ==
  ASSUME GInv, PInv', NEW r \in Request, InsertNamed(r)
  PROVE  GInv'
<1> DEFINE h == req[r]
           copy == Head(h.new)
           I == {k \in 1..Len(addresses) : addresses[k].path = copy.path}
           i == SelectLastInSeq(addresses, LAMBDA a : a.path = copy.path)
           g == [h EXCEPT !.pc = "storeWallet"]
<1>1. /\ addresses' = InsertAt(addresses, i + 1, copy) /\ req' = [req EXCEPT ![r] = g]
      /\ UNCHANGED <<wallet, active, given, lock>> /\ h.pc = "insertNamed"
  BY DEF InsertNamed
<1>2. /\ HandlerType(h) /\ CopyPaid(h, active) /\ Paid(addresses, active) /\ IInv
      /\ h.new \in Seq(Address) /\ addresses \in Seq(Address)
      /\ given \subseteq Path /\ Fits(h, wallet, active)
      /\ CopyCovered(h, PathsOf(addresses))
  BY GapKnown, HandlerFields, Known
<1>3. ~wallet.singleAddress => /\ InOrder /\ GivenBehindIndex
                               /\ NewFits(h, wallet, addresses, given)
                               /\ ~IgnoreMaxGap => GapKept
  BY GapKnown
<1>4. Busy(req[r]) /\ h.op = "createTx" /\ h.new # << >>
  BY <1>1, <1>2 DEF Busy, Fits, WaitsAt, CopyCovered
<1>5. copy \in Address /\ 1 \in DOMAIN h.new /\ copy = h.new[1]
  BY <1>2, <1>4
<1>6. g.pc = "storeWallet" /\ g.op = h.op /\ g.new = h.new
  BY <1>2 DEF HandlerType
<1>7. i \in 0..Len(addresses) /\ (I # {} => i \in I)
  <2>1. i = IF I # {} THEN Max(I) ELSE 0
    BY DEF SelectLastInSeq
  <2>2. I \in SUBSET (1..Len(addresses)) /\ Len(addresses) \in Nat
    BY <1>2
  <2> HIDE DEF I, i
  <2>3. I # {} => \E m \in I : \A n \in I : m >= n
    BY <2>2, LargestExists
  <2>4. I # {} => Max(I) \in I
    BY <2>3 DEF Max
  <2> QED
    BY <2>1, <2>2, <2>4, LastPosition
<1>8. (\E k \in DOMAIN addresses : addresses[k].path = copy.path)
        => i \in 1..Len(addresses) /\ addresses[i].path = copy.path
  <2>1. DOMAIN addresses = 1..Len(addresses)
    BY <1>2
  <2> HIDE DEF i, copy
  <2> QED
    BY <1>7, <2>1
<1> HIDE DEF h, copy, I, i, g
<1>9. /\ Len(addresses') = Len(addresses) + 1 /\ addresses' \in Seq(Address)
      /\ \A k \in 1..((i + 1) - 1) : addresses'[k] = addresses[k]
      /\ addresses'[i + 1] = copy
      /\ \A k \in ((i + 1) + 1)..(Len(addresses) + 1) : addresses'[k] = addresses[k - 1]
  <2>1. i + 1 \in 1..(Len(addresses) + 1)
    BY <1>2, <1>7
  <2> QED
    BY <1>1, <1>2, <1>5, <2>1, InsertAtIs
<1>10. copy.hasActivity => copy.path \in active
  BY <1>1, <1>2, <1>5 DEF CopyPaid, Paid
<1>11. Paid(addresses', active)
  <2> SUFFICES ASSUME NEW k \in DOMAIN addresses', addresses'[k].hasActivity
               PROVE  addresses'[k].path \in active
    BY DEF Paid
  <2>1. k \in 1..(Len(addresses) + 1) /\ Len(addresses) \in Nat
        /\ DOMAIN addresses = 1..Len(addresses) /\ i \in Nat
    BY <1>2, <1>7, <1>9
  <2>2. CASE k <= i
    <3>1. k \in 1..((i + 1) - 1) /\ k \in DOMAIN addresses
      BY <1>7, <2>1, <2>2
    <3> QED
      BY <1>2, <1>9, <3>1 DEF Paid
  <2>3. CASE k = i + 1
    BY <1>9, <1>10, <2>3
  <2>4. CASE k > i + 1
    <3>1. k \in ((i + 1) + 1)..(Len(addresses) + 1) /\ k - 1 \in DOMAIN addresses
      BY <1>7, <2>1, <2>4
    <3> QED
      BY <1>2, <1>9, <3>1 DEF Paid
  <2> QED
    BY <2>1, <2>2, <2>3, <2>4
<1>12. LatestFits(g) /\ CopyPaid(g, active) /\ \A n \in Nat : ~Passes(g, n)
  BY <1>4, <1>6 DEF LatestFits, CopyPaid, Passes
<1>13. ASSUME ~wallet.singleAddress
       PROVE  InOrder' /\ NewFits(g, wallet', addresses', given')
  <2>1. PathsOf(h.new) \subseteq given
    BY <1>1, <1>3, <1>13 DEF NewFits
  <2>2. copy.path \in given
    BY <1>5, <2>1 DEF PathsOf
  <2>3. copy.path \in PathsOf(addresses)
    <3>1. /\ copy.path \in Path /\ copy.path.branch \in Branch
          /\ copy.path.index \in Nat /\ copy.path = At(copy.path.branch, copy.path.index)
      BY <1>5, PathParts DEF Address
    <3>2. copy.path.index < wallet.index[copy.path.branch]
          /\ wallet.index[copy.path.branch] \in Nat
          /\ Covered(wallet.index, PathsOf(addresses))
      BY <1>2, <1>3, <1>13, <2>2, <3>1, Known DEF GivenBehindIndex
    <3>3. copy.path.index \in 0..(wallet.index[copy.path.branch] - 1)
      BY <3>1, <3>2
    <3> QED
      BY <3>1, <3>2, <3>3 DEF Covered
  <2>4. i \in 1..Len(addresses) /\ addresses[i].path = copy.path
    BY <1>8, <2>3 DEF PathsOf
  <2>5. InOrder'
    BY <1>1, <1>2, <1>3, <1>5, <1>13, <2>4, BehindInsert DEF InOrder
  <2>6. NewFits(g, wallet', addresses', given')
    BY <1>1, <1>6, <2>1 DEF NewFits
  <2> QED
    BY <2>5, <2>6
<1>14. ASSUME ~wallet.singleAddress, ~IgnoreMaxGap
       PROVE  GapKept'
  <2>1. \A n \in Nat : Beyond(n)' = Beyond(n)
    BY <1>1 DEF Beyond
  <2> QED
    BY <1>1, <1>2, <1>3, <1>12, <1>14, <2>1, GapKeeps
<1> QED
  BY <1>1, <1>4, <1>11, <1>12, <1>13, <1>14, GapMoves

\* The copy is stored, and the handler answers with at most one main address that
\* was not given before.
LEMMA GapStores ==
  ASSUME GInv, PInv', NEW r \in Request, StoreWallet(r)
  PROVE  GInv'
<1> DEFINE h == req[r]
           New == {path \in PathsOf(h.new) : path.branch = "main" /\ path \notin given}
<1>1. /\ wallet' = h.wallet /\ req' = [req EXCEPT ![r] = Idle] /\ h.pc = "storeWallet"
      /\ given' = given \cup PathsOf(h.new)
      /\ UNCHANGED <<addresses, active>>
  BY DEF StoreWallet, Return, PathsOf
<1>2. /\ HandlerType(h) /\ Fits(h, wallet, active) /\ IInv /\ Paid(addresses, active)
      /\ addresses \in Seq(Address) /\ given \subseteq Path
      /\ req = [q \in Request |-> req[q]]
  BY GapKnown, Known
<1>3. ~wallet.singleAddress => /\ InOrder
                               /\ NewFits(h, wallet, addresses, given)
                               /\ ~IgnoreMaxGap => GapKept
  BY GapKnown
<1>4. Busy(req[r]) /\ wallet'.singleAddress = wallet.singleAddress
  BY <1>1, <1>2 DEF Busy, Fits, CopyAhead, HasCopy
<1>5. /\ ~Busy(Idle) /\ LatestFits(Idle) /\ \A n \in Nat : ~Passes(Idle, n)
      /\ CopyPaid(Idle, active) /\ \A w, docs, out : NewFits(Idle, w, docs, out)
  <2>1. Idle.pc = "idle" /\ ~Busy(Idle)
    BY IdleTyped, IdleWaits
  <2> QED
    BY <2>1, WaitingNew DEF LatestFits, Passes
<1> HIDE DEF h
<1>6. ASSUME ~wallet.singleAddress, NEW path \in New
      PROVE  /\ h.op = "createAddress" /\ addresses # << >>
             /\ addresses[Len(addresses)].path = path
  BY <1>1, <1>3, <1>6 DEF NewFits
<1>7. ASSUME ~wallet.singleAddress
      PROVE  InOrder'
  <2> SUFFICES ASSUME NEW path \in given', path.branch = "main"
               PROVE  Behind(path, addresses)
    BY <1>1 DEF InOrder
  <2>1. CASE path \in given
    BY <1>3, <1>7, <2>1 DEF InOrder
  <2>2. CASE path \notin given
    <3>1. path \in New
      BY <1>1, <2>2
    <3>2. addresses # << >> /\ addresses[Len(addresses)].path = path
      BY <1>6, <1>7, <3>1
    <3>3. /\ Len(addresses) \in DOMAIN addresses /\ Len(addresses) \in Nat
          /\ DOMAIN addresses = 1..Len(addresses)
          /\ addresses[Len(addresses)] \in Address
      BY <1>2, <3>2
    <3>4. path.index \in Nat
      BY <3>2, <3>3, PathParts DEF Address
    <3>5. ASSUME NEW j \in DOMAIN addresses, addresses[j].path.index < path.index
          PROVE  j < Len(addresses)
      <4>1. j # Len(addresses)
        BY <3>2, <3>4, <3>5
      <4> QED
        BY <3>3, <4>1
    <3> QED
      BY <3>2, <3>3, <3>5 DEF Behind
  <2> QED
    BY <2>1, <2>2
<1>8. ASSUME ~wallet.singleAddress, ~IgnoreMaxGap
      PROVE  GapKept'
  <2>1. CASE New = {}
    <3>1. \A n \in Nat : Beyond(n)' = Beyond(n)
      BY <1>1, <2>1 DEF Beyond
    <3> QED
      BY <1>1, <1>2, <1>3, <1>5, <1>8, <3>1, GapKeeps
  <2>2. ASSUME NEW path \in New
        PROVE  GapKept'
    <3>1. New = {path} /\ h.op = "createAddress"
      <4>1. h.op = "createAddress" /\ \A p \in New : p = addresses[Len(addresses)].path
        BY <1>6, <1>8
      <4> QED
        BY <2>2, <4>1
    <3> SUFFICES ASSUME NEW n \in 0..MaxIndex["main"], Above(n)'
                 PROVE  GapKeptAt(n)'
      BY DEF GapKept
    <3>2. n \in Nat /\ GapKeptAt(n) /\ MaxGap \in Nat
      <4>1. MaxIndex["main"] \in Nat /\ MaxGap \in Nat
        BY AddressBookAssumption
      <4> QED
        BY <1>1, <1>3, <1>8, <4>1 DEF Above, GapKept
    <3> DEFINE P == Passing(n)
               Q == Passing(n)'
               B == Beyond(n)
               C == Beyond(n)'
    <3>3. C \in SUBSET (B \cup {path})
      BY <1>1, <3>1 DEF Beyond
    <3>4. Q \in SUBSET (P \ {r}) /\ r \in P
      <4>1. \A q \in Request : req'[q] = IF q = r THEN Idle ELSE req[q]
        BY <1>1, <1>2
      <4>2. Passes(req[r], n)
        BY <1>1, <3>1 DEF Passes, h
      <4>3. \A q \in Request : Passes(req'[q], n) => q # r /\ Passes(req[q], n)
        BY <1>5, <3>2, <4>1
      <4>4. Q = {q \in Request : Passes(req'[q], n)}
        BY DEF Passing, Passes
      <4> QED
        BY <4>2, <4>3, <4>4 DEF Passing
    <3>5. /\ IsFiniteSet(P) /\ Cardinality(P) \in Nat /\ Cardinality(Request) \in Nat
          /\ IsFiniteSet(B) /\ Cardinality(B) \in Nat
      BY <1>2, PassingFinite, BeyondFinite
    <3>6. Cardinality(B) + Cardinality(P) <= MaxGap + Cardinality(Request) - 1
      BY <3>2 DEF GapKeptAt
    <3> HIDE DEF P, Q, B, C
    <3>7. Cardinality(C) <= Cardinality(B) + 1 /\ Cardinality(C) \in Nat
      <4>1. /\ IsFiniteSet(B \cup {path})
            /\ Cardinality(B \cup {path}) \in {Cardinality(B), Cardinality(B) + 1}
        BY <3>5, FS_AddElement
      <4>2. IsFiniteSet(C) /\ Cardinality(C) <= Cardinality(B \cup {path})
        BY <3>3, <4>1, FS_Subset
      <4>3. Cardinality(C) \in Nat
        BY <4>2, FS_CardinalityType
      <4> QED
        BY <3>5, <4>1, <4>2, <4>3
    <3>8. Cardinality(Q) <= Cardinality(P) - 1 /\ Cardinality(Q) \in Nat
      <4>1. IsFiniteSet(P \ {r}) /\ Cardinality(P \ {r}) = Cardinality(P) - 1
        BY <3>4, <3>5, FS_RemoveElement
      <4>2. IsFiniteSet(Q) /\ Cardinality(Q) <= Cardinality(P \ {r})
        BY <3>4, <4>1, FS_Subset
      <4> QED
        BY <4>1, <4>2, FS_CardinalityType
    <3>9. Cardinality(C) + Cardinality(Q) <= MaxGap + Cardinality(Request) - 1
      BY <3>2, <3>5, <3>6, <3>7, <3>8
    <3> QED
      BY <3>9 DEF GapKeptAt, C, Q
  <2> QED
    BY <2>1, <2>2
<1>9. Paid(addresses', active)
  BY <1>1, <1>2
<1> QED
  BY <1>1, <1>4, <1>5, <1>7, <1>8, <1>9, GapMoves

\* addAccess and the scan, which give nothing.
LEMMA GapReads ==
  ASSUME GInv, PInv', NEW r \in Request, AddAccess(r) \/ Scan(r) \/ ScanEnd(r)
  PROVE  GInv'
<1>1. UNCHANGED <<wallet, addresses, active, given>>
  BY DEF AddAccess, Scan, ScanEnd
<1>2. PICK h : /\ req' = [req EXCEPT ![r] = h]
               /\ \/ h.pc = "scanStart"
                  \/ h.pc = "storeWallet" /\ h.op # "createAddress" /\ h.new = << >>
  <2>1. CASE AddAccess(r)
    <3> DEFINE h == Read("addAccess", "storeWallet")
    <3>1. h.pc = "storeWallet" /\ h.op = "addAccess" /\ h.new = << >>
      BY DEF Read, Start, Idle
    <3>2. req' = [req EXCEPT ![r] = h]
      BY <2>1 DEF AddAccess
    <3> HIDE DEF h
    <3> QED
      BY <3>1, <3>2
  <2>2. CASE Scan(r)
    <3> DEFINE h == [Read("scan", "scanStart") EXCEPT !.wallet.scanStatus = "running"]
    <3>1. h.pc = "scanStart"
      BY DEF Read, Start, Idle
    <3>2. req' = [req EXCEPT ![r] = h]
      BY <2>2 DEF Scan
    <3> HIDE DEF h
    <3> QED
      BY <3>1, <3>2
  <2>3. CASE ScanEnd(r)
    <3> DEFINE status == IF req[r].failed THEN "error" ELSE "success"
               h == [Read("scan", "storeWallet") EXCEPT !.wallet.scanStatus = status,
                                                        !.late = req[r].late]
    <3>1. h.pc = "storeWallet" /\ h.op = "scan" /\ h.new = << >>
      BY DEF Read, Start, Idle
    <3>2. req' = [req EXCEPT ![r] = h]
      BY <2>3 DEF ScanEnd
    <3> HIDE DEF h
    <3> QED
      BY <3>1, <3>2
  <2> QED
    BY <2>1, <2>2, <2>3
<1>3. /\ LatestFits(h) /\ CopyPaid(h, active) /\ NewFits(h, wallet', addresses, given)
      /\ \A n \in Nat : ~Passes(h, n)
  BY <1>2, NothingNew
<1> QED
  BY <1>1, <1>2, <1>3, GapGoesOn

\* The scan derives addresses from the index on, and stores the document.
LEMMA GapScans ==
  ASSUME GInv, PInv', NEW r \in Request, ScanStart(r) \/ ScanBranch(r) \/ ScanStore(r)
  PROVE  GInv'
<1> DEFINE h == req[r]
<1>1. /\ h.pc \in {"scanStart", "scanBranch", "scanStore"}
      /\ UNCHANGED <<addresses, active, given, lock>>
      /\ wallet' = wallet \/ wallet' = h.wallet
  BY DEF ScanStart, ScanBranch, ScanStore
<1>2. /\ HandlerType(h) /\ Fits(h, wallet, active) /\ IInv /\ Busy(req[r])
      /\ req = [q \in Request |-> req[q]] /\ active \subseteq Path
      /\ CopyCovered(h, PathsOf(addresses))
  BY <1>1, GapKnown, Known DEF Busy
<1>3. h.op = "scan" /\ wallet'.singleAddress = wallet.singleAddress
  BY <1>1, <1>2 DEF Fits, WaitsAt, CopyAhead, HasCopy
<1>4. ASSUME NEW g, req' = [req EXCEPT ![r] = g],
             g.pc \in {"scanStart", "scanBranch", "scanStore", "scanEnd"}
      PROVE  GInv'
  BY <1>1, <1>2, <1>3, <1>4, NothingNew, GapGoesOn
<1>5. CASE ScanStart(r)
  <2> DEFINE g == [h EXCEPT !.pc = "scanBranch"]
  <2>1. req' = [req EXCEPT ![r] = g]
    BY <1>5 DEF ScanStart
  <2>2. g.pc = "scanBranch"
    BY <1>2 DEF HandlerType
  <2> HIDE DEF g, h
  <2> QED
    BY <1>4, <2>1, <2>2
<1>6. CASE NextBranch(r)
  <2>1. PICK g : req' = [req EXCEPT ![r] = g] /\ g.pc \in {"scanBranch", "scanEnd"}
    BY <1>2, <1>6, NextBranchIs
  <2> QED
    BY <1>4, <2>1
<1>7. CASE ScanBranch(r) /\ ~NextBranch(r)
  <2> DEFINE b == h.branch
             from == h.wallet.index[b]
             end == EndOf(b, from)
             new == [i \in 1..(end - from) |-> NewAddress(b, from + i - 1)]
             g == [h EXCEPT !.pc = "insertAddress", !.wallet.index[b] = end, !.new = new]
  <2>1. end # from /\ req' = [req EXCEPT ![r] = g] /\ h.pc = "scanBranch"
        /\ wallet' = wallet
    BY <1>7 DEF ScanBranch
  <2>2. IndexBounded(h.wallet)
    BY <1>2, <2>1 DEF CopyCovered, HasCopy
  <2>3. /\ g.pc = "insertAddress" /\ g.op = h.op /\ g.new = new
        /\ PathsOf(new) = {At(b, i) : i \in from..(end - 1)}
        /\ end \in (from + 1)..MaxIndex[b]
    <3> HIDE DEF h
    <3> QED
      BY <1>2, <2>1, <2>2, ScannedIs, Zenon
  <2>4. b \in Branch /\ from \in Nat
    BY <1>2, HandlerFields
  <2>5. ~wallet.singleAddress => from = wallet.index[b]
    BY <1>2, <1>3, <2>1 DEF Fits, ScanSound
  <2>6. \A k \in DOMAIN new : ~new[k].hasActivity
    BY DEF NewAddress
  <2> HIDE DEF g, new, end, from, b, h
  <2>7. \A i \in from..(end - 1) : At(b, i).branch = b /\ At(b, i).index = i /\ from <= i
    <3>1. MaxIndex[b] \in Nat
      BY <2>4, AddressBookAssumption DEF Branch
    <3> QED
      BY <2>3, <2>4, <3>1 DEF At
  <2>8. LatestFits(g) /\ CopyPaid(g, active)
    BY <2>3, <2>6 DEF LatestFits, CopyPaid, Paid
  <2>9. ~wallet.singleAddress => NewFits(g, wallet', addresses, given)
    <3> SUFFICES ASSUME ~wallet.singleAddress PROVE NewFits(g, wallet, addresses, given)
      BY <2>1
    <3>1. \A path \in PathsOf(g.new) : wallet.index[path.branch] <= path.index
      BY <2>3, <2>5, <2>7
    <3> QED
      BY <1>3, <2>3, <3>1 DEF NewFits
  <2>10. \A n \in Nat : ~Passes(g, n)
    BY <1>3, <2>3 DEF Passes
  <2> QED
    BY <1>1, <2>1, <2>8, <2>9, <2>10, GapGoesOn
<1> QED
  BY <1>5, <1>6, <1>7 DEF ScanStore

\* An error of the scan, and of any request.
LEMMA GapFails ==
  ASSUME GInv, PInv', NEW r \in Request, ScanFails(r) \/ Fail(r)
  PROVE  GInv'
<1>1. UNCHANGED <<wallet, addresses, active, given>>
  BY DEF ScanFails, Fail
<1>2. CASE ScanFails(r)
  <2> DEFINE h == req[r]
             g == [h EXCEPT !.pc = "scanEnd", !.failed = TRUE]
  <2>1. req' = [req EXCEPT ![r] = g] /\ HandlerType(h)
    BY <1>2, GapKnown DEF ScanFails
  <2> HIDE DEF h
  <2>2. g.pc = "scanEnd"
    BY <2>1, FailedIs
  <2> HIDE DEF g
  <2> QED
    BY <1>1, <2>1, <2>2, NothingNew, GapGoesOn
<1>3. CASE Fail(r)
  BY <1>1, <1>3, GapReturns DEF Fail
<1> QED
  BY <1>2, <1>3

\* The lock is given on: nothing passes that did not.
LEMMA GapExpiry ==
  ASSUME GInv, PInv', LockExpires
  PROVE  GInv'
<1> DEFINE r == lock
           h == req[r]
           g == [h EXCEPT !.late = TRUE]
<1>1. /\ req' = [req EXCEPT ![r] = g]
      /\ UNCHANGED <<wallet, addresses, active, given>>
  BY DEF LockExpires
<1>2. r \in Request
  BY DEF GInv, PInv, IInv, Typed, LockExpires
<1>3. /\ HandlerType(h) /\ LatestFits(h) /\ CopyPaid(h, active)
      /\ ~wallet.singleAddress => NewFits(h, wallet, addresses, given)
  BY <1>2, GapKnown
<1> HIDE DEF h
<1>4. g.pc = h.pc /\ g.op = h.op /\ g.new = h.new /\ g.latest = h.latest
  BY <1>3, LateIs
<1> HIDE DEF g
<1>5. LatestFits(g) /\ CopyPaid(g, active) /\ \A n \in Nat : Passes(g, n) => Passes(h, n)
  BY <1>3, <1>4 DEF LatestFits, CopyPaid, Passes
<1>6. ~wallet.singleAddress => NewFits(g, wallet', addresses, given)
  BY <1>1, <1>3, <1>4 DEF NewFits
<1> HIDE DEF r
<1> QED
  BY <1>1, <1>2, <1>5, <1>6, GapGoesOn DEF h

\* Every step.
LEMMA GapNextHolds == GInv /\ [Next /\ AloneIfUnlocked']_vars => GInv'
<1> SUFFICES ASSUME GInv, [Next /\ AloneIfUnlocked']_vars PROVE GInv'
  OBVIOUS
<1>1. PInv'
  BY PoliteNextHolds DEF GInv
<1>2. CASE UNCHANGED vars
  <2>1. UNCHANGED <<wallet, addresses, active, given, req>>
    BY <1>2 DEF vars
  <2>2. \A n : (Above(n)' <=> Above(n)) /\ (GapKeptAt(n)' <=> GapKeptAt(n))
    BY <2>1 DEF Above, GapKeptAt, Beyond, Passing
  <2>3. InOrder' <=> InOrder
    BY <2>1 DEF InOrder
  <2>4. GapKept' <=> GapKept
    BY <2>2 DEF GapKept
  <2> QED
    BY <1>1, <2>1, <2>3, <2>4 DEF GInv, LatestFits, CopyPaid, Paid, NewFits, PathsOf
<1>3. CASE Next /\ AloneIfUnlocked'
  <2>1. ASSUME NEW path \in Path, Activity(path)
        PROVE  GInv'
    BY <1>1, <2>1, GapActivity
  <2>2. ASSUME NEW r \in Request,
               \/ CreateAddress(r) \/ CheckActivity(r) \/ CreateLocked(r) \/ CreateTx(r)
               \/ InsertAddress(r) \/ InsertNamed(r) \/ StoreWallet(r)
        PROVE  GInv'
    BY <1>1, <2>2, GapCreateAddress, GapCheckActivity, GapCreates, GapInsertAddress,
       GapInsertNamed, GapStores
  <2>3. ASSUME NEW r \in Request,
               \/ AddAccess(r) \/ Scan(r) \/ ScanEnd(r) \/ ScanStart(r)
               \/ ScanBranch(r) \/ ScanStore(r) \/ ScanFails(r) \/ Fail(r)
        PROVE  GInv'
    BY <1>1, <2>3, GapReads, GapScans, GapFails
  <2>4. CASE LockExpires
    BY <1>1, <2>4, GapExpiry
  <2> QED
    BY <1>3, <2>1, <2>2, <2>3, <2>4 DEF Next
<1> QED
  BY <1>2, <1>3

\* Of finitely many numbers up to N, one more than the largest is above them all.
LEMMA FirstAbove ==
  ASSUME active \subseteq Path, given \subseteq Path
  PROVE  \E n \in 0..MaxIndex["main"] : Above(n) /\ Beyond(n) = Unused
<1> DEFINE N == MaxIndex["main"]
           S == {n \in 0..N : Above(n)}
<1>1. N \in Nat
  BY AddressBookAssumption
<1>2. N \in S
  <2>1. ASSUME NEW paid \in active, paid.branch = "main"
        PROVE  paid.index < N
    <3>1. paid \in Path
      OBVIOUS
    <3>2. paid.index \in 0..(N - 1)
      BY <2>1, <3>1, PathParts
    <3> QED
      BY <1>1, <3>2
  <2> QED
    BY <1>1, <2>1 DEF Above
<1>3. PICK n \in S : \A m \in S : n <= m
  <2>1. S \in SUBSET Nat /\ S # {}
    BY <1>1, <1>2
  <2> HIDE DEF S
  <2> QED
    BY <2>1, LeastExists
<1>4. n \in Nat /\ Above(n) /\ n \in 0..N
  BY <1>1, <1>3
<1>5. n = 0 \/ \E paid \in active : paid.branch = "main" /\ paid.index = n - 1
  <2> SUFFICES ASSUME n # 0, \A paid \in active : paid.branch = "main" => paid.index # n - 1
               PROVE  FALSE
    OBVIOUS
  <2>1. ASSUME NEW paid \in active, paid.branch = "main"
        PROVE  paid.index < n - 1
    <3>1. paid.index \in Nat /\ paid.index < n /\ paid.index # n - 1
      BY <1>4, <2>1, PathParts DEF Above
    <3> QED
      BY <1>4, <3>1
  <2>2. n - 1 \in S
    BY <1>1, <1>4, <2>1 DEF Above
  <2> QED
    BY <1>3, <1>4, <2>2
<1> HIDE DEF S, N
<1>6. ASSUME NEW path \in given, path.branch = "main", path \in Path
      PROVE  path.index >= n <=> \A paid \in active : paid.branch = "main"
                                                        => paid.index < path.index
  <2>1. path.index \in Nat /\ \A paid \in active : paid.index \in Nat
    BY <1>6, PathParts
  <2>2. CASE n = 0
    BY <1>4, <2>1, <2>2 DEF Above
  <2>3. ASSUME NEW paid \in active, paid.branch = "main", paid.index = n - 1
        PROVE  path.index >= n <=> \A p \in active : p.branch = "main"
                                                       => p.index < path.index
    BY <1>4, <2>1, <2>3 DEF Above
  <2> QED
    BY <1>5, <2>2, <2>3
<1>7. Beyond(n) = Unused
  BY <1>6 DEF Beyond, Unused
<1> QED
  BY <1>4, <1>7 DEF N

\* When addAccess has the wallet for itself, createAddress keeps the unused main
\* addresses within the limit, but for one more for every other request: with any
\* limit, any number of requests, scans, named change addresses, and failures.
THEOREM GapStaysBounded == PoliteSpec => []GapBounded
<1>1. GInv => GapBounded
  <2> SUFFICES ASSUME GInv, ~IgnoreMaxGap, ~wallet.singleAddress
               PROVE  Cardinality(Unused) <= MaxGap + Cardinality(Request) - 1
    BY DEF GapBounded
  <2>1. IInv /\ GapKept /\ active \subseteq Path /\ given \subseteq Path
    BY Known DEF GInv, PInv
  <2>2. PICK n \in 0..MaxIndex["main"] : Above(n) /\ Beyond(n) = Unused
    BY <2>1, FirstAbove
  <2>3. GapKeptAt(n)
    BY <2>1, <2>2 DEF GapKept
  <2>4. /\ Cardinality(Beyond(n)) \in Nat /\ Cardinality(Passing(n)) \in Nat
        /\ Cardinality(Request) \in Nat /\ MaxGap \in Nat
    BY <2>1, BeyondFinite, PassingFinite, AddressBookAssumption
  <2> QED
    BY <2>2, <2>3, <2>4 DEF GapKeptAt
<1> QED
  BY <1>1, GapInit, GapNextHolds, PTL DEF PoliteSpec

=============================================================================

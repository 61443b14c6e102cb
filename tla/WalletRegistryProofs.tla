------------------------ MODULE WalletRegistryProofs ------------------------
(***************************************************************************)
(* Proofs about WalletRegistry: its types for every behaviour, and, of the *)
(* behaviours in which a handler that takes no lock or outlived its lock   *)
(* has its wallet for itself, that no whole-document store takes a         *)
(* pocketeer or an access back and that it leaves exactly the wallet's     *)
(* lookup entries.                                                         *)
(*                                                                         *)
(* The argument rests on the copy of the wallet a handler carries from the *)
(* read to the store: while it is under way nobody else changes the        *)
(* document or the entries of its wallet, so the copy stays the document   *)
(* with the handler's own change (CopyFits).                               *)
(***************************************************************************)
EXTENDS WalletRegistry, FiniteSetTheorems, TLAPS

-----------------------------------------------------------------------------
(* The inductive invariants.                                                *)

\* A document the code can have written: only pocketeers of the wallet have
\* keys, and the wallet is complete with the n-th pocketeer.
WalletSound(wallet) ==
  /\ wallet \in Wallet
  /\ IsFiniteSet(wallet.pocketeers)
  /\ Cardinality(wallet.pocketeers) <= WalletN
  /\ wallet.status = "complete" <=> Cardinality(wallet.pocketeers) = WalletN
  /\ \A p \in Pocketeer \ wallet.pocketeers : wallet.keys[p] = {}

StoredSound ==
  \A w \in WalletId : wallets[w] # NoWallet => WalletSound(wallets[w])

\* A handler between its check and its storeWallet call.
Storing(h) == h.pc \in {"removeLookups", "insertLookups", "storeWallet"}

HandlerSound(h) ==
  /\ h.pc = "idle" => h.op = "none"
  /\ h.pc = "storeNewWallet" => h.op = "createWallet"
  /\ h.pc = "fetchPocketeerLookup" => h.op = "joinWallet"
  /\ h.pc = "fetchWallet" => h.op = "addAccess"
  /\ h.pc = "removeWallet" => h.op = "removeWallet"
  /\ Storing(h) => h.op \in {"joinWallet", "addAccess"}
  /\ h.pc # "idle" => h.w \in WalletId
  /\ h.pc \in {"fetchPocketeerLookup", "fetchWallet"} \/ Storing(h)
       => h.p \in Pocketeer /\ h.key \in Key
  /\ h.pc = "fetchPocketeerLookup" \/ Storing(h) => WalletSound(h.wallet)
  /\ h.pc = "fetchPocketeerLookup" =>
       /\ h.p \notin h.wallet.pocketeers
       /\ Cardinality(h.wallet.pocketeers) # WalletN

HandlersSound == \A r \in Request : HandlerSound(req[r])

\* joinWallet and removeWallet hold the lock of their wallet unless they
\* outlived it.
LockHeld ==
  \A r \in Request :
    req[r].op \in {"joinWallet", "removeWallet"} /\ ~req[r].late => lock[req[r].w] = r

Typed ==
  /\ wallets \in [WalletId -> Wallet \cup {NoWallet}]
  /\ lookups \subseteq Lookup
  /\ lock \in [WalletId -> Request \cup {NoRequest}]
  /\ req \in [Request -> RequestState]

IInv == Typed /\ StoredSound /\ HandlersSound /\ LockHeld

\* The copy is the document with the handler's own change.
Changed(h, doc) ==
  \/ /\ h.op = "joinWallet"
     /\ h.p \notin doc.pocketeers
     /\ Cardinality(doc.pocketeers) # WalletN
     /\ h.wallet = AddPocketeer(doc, h.p, h.key)
  \/ /\ h.op = "addAccess"
     /\ h.p \in doc.pocketeers
     /\ h.wallet = [doc EXCEPT !.keys[h.p] = @ \cup {h.key}]

CopyFits(h, doc, entries) ==
  /\ h.pc = "storeNewWallet" => doc = NoWallet
  /\ h.pc = "fetchPocketeerLookup" => h.wallet = doc
  /\ Storing(h) => WalletSound(doc) /\ Changed(h, doc)
  /\ h.pc = "insertLookups" => entries = {}
  /\ h.pc = "storeWallet" => entries = Entries(h.w, h.wallet)

CopiesFit ==
  \A r \in Request : CopyFits(req[r], wallets[req[r].w], EntriesOf(req[r].w))

PInv == IInv /\ AloneIfUnlocked /\ CopiesFit

-----------------------------------------------------------------------------
(* The documents the handlers build.                                        *)

\* The document of createWallet is sound.
LEMMA NewWalletSound == WalletSound(NewWallet)
<1>1. IsFiniteSet({}) /\ Cardinality({}) = 0
  BY FS_EmptySet
<1>2. NewWallet \in Wallet
  BY DEF NewWallet, Wallet
<1> QED
  BY <1>1, <1>2, WalletRegistryAssumption DEF WalletSound, NewWallet

\* Wallet.addPocketeer keeps a document sound, keeps its pocketeers and their
\* keys, and applies only to a wallet that is not complete.
LEMMA AddPocketeerSound ==
  ASSUME NEW wallet, WalletSound(wallet),
         NEW p \in Pocketeer \ wallet.pocketeers, NEW key \in Key,
         Cardinality(wallet.pocketeers) # WalletN
  PROVE  /\ WalletSound(AddPocketeer(wallet, p, key))
         /\ wallet.status # "complete"
         /\ wallet.pocketeers \subseteq AddPocketeer(wallet, p, key).pocketeers
         /\ \A q \in Pocketeer :
              wallet.keys[q] \subseteq AddPocketeer(wallet, p, key).keys[q]
<1> DEFINE joined == wallet.pocketeers \cup {p}
           new == AddPocketeer(wallet, p, key)
<1>1. wallet \in Wallet /\ IsFiniteSet(wallet.pocketeers)
  BY DEF WalletSound
<1>2. /\ IsFiniteSet(joined)
      /\ Cardinality(joined) = Cardinality(wallet.pocketeers) + 1
  BY <1>1, FS_AddElement
<1>3. Cardinality(wallet.pocketeers) \in Nat
  BY <1>1, FS_CardinalityType
<1>4. wallet.status = "pending"
  BY <1>1 DEF WalletSound, Wallet
<1>5. /\ new.pocketeers = joined
      /\ new.status = IF Cardinality(joined) < WalletN THEN "pending" ELSE "complete"
      /\ new.keys = [wallet.keys EXCEPT ![p] = {key}]
  BY <1>4 DEF AddPocketeer
<1>6. wallet.keys \in [Pocketeer -> SUBSET Key] /\ wallet.keys[p] = {}
  BY <1>1 DEF WalletSound, Wallet
<1>7. new \in Wallet
  <2>1. joined \in SUBSET Pocketeer
    BY <1>1 DEF Wallet
  <2>2. [wallet.keys EXCEPT ![p] = {key}] \in [Pocketeer -> SUBSET Key]
    BY <1>6
  <2> QED
    BY <1>4, <2>1, <2>2 DEF AddPocketeer, Wallet
<1>8. Cardinality(joined) <= WalletN
  BY <1>2, <1>3, WalletRegistryAssumption DEF WalletSound
<1>9. new.status = "complete" <=> Cardinality(new.pocketeers) = WalletN
  BY <1>2, <1>3, <1>5, <1>8, WalletRegistryAssumption
<1>10. \A q \in Pocketeer \ joined : new.keys[q] = {}
  BY <1>5, <1>6 DEF WalletSound
<1>11. WalletSound(new)
  <2> HIDE DEF new, joined
  <2> QED
    BY <1>2, <1>5, <1>7, <1>8, <1>9, <1>10 DEF WalletSound
<1> QED
  BY <1>4, <1>5, <1>6, <1>11

\* addPocketeerRequestKey keeps a document sound and keeps everybody's keys.
LEMMA AddKeySound ==
  ASSUME NEW wallet, WalletSound(wallet),
         NEW p \in wallet.pocketeers, NEW key \in Key
  PROVE  LET new == [wallet EXCEPT !.keys[p] = @ \cup {key}] IN
         /\ WalletSound(new)
         /\ new.pocketeers = wallet.pocketeers
         /\ \A q \in Pocketeer : wallet.keys[q] \subseteq new.keys[q]
<1> DEFINE new == [wallet EXCEPT !.keys[p] = @ \cup {key}]
<1>1. wallet \in Wallet /\ p \in Pocketeer
  BY DEF WalletSound, Wallet
<1>2. /\ new.pocketeers = wallet.pocketeers
      /\ new.status = wallet.status
      /\ new.keys = [wallet.keys EXCEPT ![p] = @ \cup {key}]
  BY <1>1 DEF Wallet
<1>3. wallet.keys \in [Pocketeer -> SUBSET Key]
  BY <1>1 DEF Wallet
<1>4. new \in Wallet
  BY <1>1, <1>3 DEF Wallet
<1>5. \A q \in Pocketeer \ wallet.pocketeers : new.keys[q] = {}
  BY <1>2, <1>3 DEF WalletSound
<1>6. WalletSound(new)
  <2> HIDE DEF new
  <2> QED
    BY <1>2, <1>4, <1>5 DEF WalletSound
<1> QED
  BY <1>2, <1>3, <1>6

-----------------------------------------------------------------------------
(* Every behaviour.                                                         *)

\* The starting state.
LEMMA InitHolds == Init => IInv
<1> SUFFICES ASSUME Init PROVE IInv
  OBVIOUS
<1>1. Idle \in RequestState
  BY DEF Idle, RequestState, PC
<1>2. HandlerSound(Idle)
  BY DEF Idle, HandlerSound, Storing
<1>3. \A r \in Request : req[r] = Idle
  BY DEF Init
<1>4. Typed
  BY <1>1 DEF Init, Typed
<1>5. StoredSound /\ HandlersSound
  BY <1>2, <1>3 DEF Init, StoredSound, HandlersSound
<1>6. LockHeld
  BY <1>3 DEF LockHeld, Idle
<1> QED
  BY <1>4, <1>5, <1>6 DEF IInv

\* A step of handler r to the state h that stores only sound documents and
\* takes no lock from another keeps the invariant.
LEMMA Moves ==
  ASSUME IInv, NEW r \in Request, NEW h \in RequestState,
         req' = [req EXCEPT ![r] = h],
         HandlerSound(h),
         wallets' \in [WalletId -> Wallet \cup {NoWallet}],
         StoredSound',
         lookups' \subseteq Lookup,
         lock' \in [WalletId -> Request \cup {NoRequest}],
         \A w \in WalletId : lock[w] \in Request \ {r} => lock'[w] = lock[w],
         h.op \in {"joinWallet", "removeWallet"} /\ ~h.late => lock'[h.w] = r
  PROVE  IInv'
<1>1. req \in [Request -> RequestState]
  BY DEF IInv, Typed
<1>2. \A q \in Request : req'[q] = IF q = r THEN h ELSE req[q]
  BY <1>1
<1>3. Typed'
  BY <1>1 DEF Typed
<1>4. HandlersSound'
  BY <1>2 DEF IInv, HandlersSound
<1>5. LockHeld'
  <2> SUFFICES ASSUME NEW q \in Request \ {r},
                      req[q].op \in {"joinWallet", "removeWallet"}, ~req[q].late
               PROVE  lock'[req[q].w] = q
    BY <1>2 DEF LockHeld
  <2>1. req[q].pc # "idle"
    BY DEF IInv, HandlersSound, HandlerSound
  <2>2. req[q].w \in WalletId
    BY <2>1 DEF IInv, HandlersSound, HandlerSound
  <2> QED
    BY <2>2 DEF IInv, LockHeld
<1> QED
  BY <1>3, <1>4, <1>5 DEF IInv

\* A handler that answers: with an error, or after its last storage call.
LEMMA Returns ==
  ASSUME IInv, NEW r \in Request, Return(r),
         wallets' \in [WalletId -> Wallet \cup {NoWallet}],
         StoredSound',
         lookups' \subseteq Lookup
  PROVE  IInv'
<1>1. Idle \in RequestState /\ HandlerSound(Idle) /\ Idle.op = "none"
  BY DEF Idle, RequestState, PC, HandlerSound, Storing
<1>2. /\ req' = [req EXCEPT ![r] = Idle]
      /\ lock' = [w \in WalletId |-> IF lock[w] = r THEN NoRequest ELSE lock[w]]
  BY DEF Return, Release
<1>3. lock \in [WalletId -> Request \cup {NoRequest}]
  BY DEF IInv, Typed
<1>4. lock' \in [WalletId -> Request \cup {NoRequest}]
  BY <1>2, <1>3
<1>5. \A w \in WalletId : lock[w] \in Request \ {r} => lock'[w] = lock[w]
  BY <1>2
<1> QED
  BY <1>1, <1>2, <1>4, <1>5, Moves

\* What the invariant says of the state when the collections stay.
LEMMA SameCollections ==
  ASSUME IInv, UNCHANGED <<wallets, lookups>>
  PROVE  /\ wallets' \in [WalletId -> Wallet \cup {NoWallet}]
         /\ StoredSound'
         /\ lookups' \subseteq Lookup
BY DEF IInv, Typed, StoredSound

\* Taking a free lock takes it from nobody.
LEMMA Acquired ==
  ASSUME IInv, NEW r \in Request, NEW w \in WalletId, Acquire(r, w)
  PROVE  /\ lock' \in [WalletId -> Request \cup {NoRequest}]
         /\ \A v \in WalletId : lock[v] \in Request \ {r} => lock'[v] = lock[v]
         /\ lock'[w] = r
BY WalletRegistryAssumption DEF IInv, Typed, Acquire

\* Every entry of a wallet's document is a lookup entry.
LEMMA EntriesTyped ==
  ASSUME NEW w \in WalletId, NEW wallet \in Wallet
  PROVE  Entries(w, wallet) \subseteq Lookup
BY DEF Entries, Lookup, Wallet

\* createWallet and its store.
LEMMA CreateStep ==
  ASSUME IInv, NEW r \in Request,
         (\E w \in WalletId : CreateWallet(r, w)) \/ StoreNewWallet(r)
  PROVE  IInv'
<1>1. ASSUME NEW w \in WalletId, CreateWallet(r, w) PROVE IInv'
  <2> DEFINE h == [Idle EXCEPT !.pc = "storeNewWallet", !.op = "createWallet", !.w = w]
  <2>1. h \in RequestState /\ HandlerSound(h) /\ h.op = "createWallet"
    BY DEF Idle, RequestState, PC, HandlerSound, Storing
  <2>2. req' = [req EXCEPT ![r] = h] /\ UNCHANGED <<wallets, lookups, lock>>
    BY <1>1 DEF CreateWallet
  <2>3. lock' \in [WalletId -> Request \cup {NoRequest}]
    BY <2>2 DEF IInv, Typed
  <2> HIDE DEF h
  <2> QED
    BY <2>1, <2>2, <2>3, Moves, SameCollections
<1>2. ASSUME StoreNewWallet(r) PROVE IInv'
  <2>1. /\ wallets' = [wallets EXCEPT ![req[r].w] = NewWallet]
        /\ Return(r) /\ lookups' = lookups
    BY <1>2 DEF StoreNewWallet
  <2>2. wallets' \in [WalletId -> Wallet \cup {NoWallet}]
    BY <2>1, NewWalletSound DEF IInv, Typed, WalletSound
  <2>3. StoredSound'
    BY <2>1, NewWalletSound DEF IInv, Typed, StoredSound
  <2>4. lookups' \subseteq Lookup
    BY <2>1 DEF IInv, Typed
  <2> QED
    BY <2>1, <2>2, <2>3, <2>4, Returns
<1> QED
  BY <1>1, <1>2

\* joinWallet: the check of the wallet and of the pocketeer's entry.
LEMMA JoinStep ==
  ASSUME IInv, NEW r \in Request,
         \/ \E w \in WalletId, p \in Pocketeer, key \in Key : JoinWallet(r, w, p, key)
         \/ FetchPocketeerLookup(r)
  PROVE  IInv'
<1>1. ASSUME NEW w \in WalletId, NEW p \in Pocketeer, NEW key \in Key,
             JoinWallet(r, w, p, key)
      PROVE  IInv'
  <2> DEFINE h == [Idle EXCEPT !.pc = "fetchPocketeerLookup", !.op = "joinWallet",
                               !.w = w, !.p = p, !.key = key, !.wallet = wallets[w]]
  <2>1. WalletSound(wallets[w]) /\ wallets[w] \in Wallet
    BY <1>1 DEF JoinWallet, IInv, StoredSound, WalletSound
  <2>2. /\ h.pc = "fetchPocketeerLookup" /\ h.op = "joinWallet" /\ h.w = w
        /\ h.p = p /\ h.key = key /\ h.wallet = wallets[w]
    BY DEF Idle
  <2>3. h \in RequestState
    BY <2>1 DEF Idle, RequestState, PC
  <2>4. /\ p \notin wallets[w].pocketeers
        /\ Cardinality(wallets[w].pocketeers) # WalletN
        /\ Acquire(r, w)
        /\ req' = [req EXCEPT ![r] = h] /\ UNCHANGED <<wallets, lookups>>
    BY <1>1 DEF JoinWallet
  <2> HIDE DEF h
  <2>5. HandlerSound(h)
    BY <2>1, <2>2, <2>4 DEF HandlerSound, Storing
  <2> QED
    <3>1. /\ wallets' \in [WalletId -> Wallet \cup {NoWallet}]
          /\ StoredSound' /\ lookups' \subseteq Lookup
      BY <2>4, SameCollections
    <3>2. /\ lock' \in [WalletId -> Request \cup {NoRequest}]
          /\ \A v \in WalletId : lock[v] \in Request \ {r} => lock'[v] = lock[v]
          /\ lock'[h.w] = r
      BY <2>2, <2>4, Acquired
    <3> QED
      BY <2>3, <2>4, <2>5, <3>1, <3>2, Moves
<1>2. ASSUME FetchPocketeerLookup(r) PROVE IInv'
  <2>0. UNCHANGED <<wallets, lookups>>
    BY <1>2 DEF FetchPocketeerLookup
  <2>1. CASE Return(r)
    BY <2>0, <2>1, Returns, SameCollections
  <2>2. CASE ~ Return(r)
    <3> DEFINE new == AddPocketeer(req[r].wallet, req[r].p, req[r].key)
               h == [req[r] EXCEPT !.pc = "removeLookups", !.wallet = new]
    <3>1. /\ req[r].pc = "fetchPocketeerLookup"
          /\ req' = [req EXCEPT ![r].pc = "removeLookups", ![r].wallet = new]
          /\ lock' = lock
      BY <1>2, <2>2 DEF FetchPocketeerLookup
    <3>2. req[r] \in RequestState /\ req \in [Request -> RequestState]
      BY DEF IInv, Typed
    <3>3. /\ WalletSound(req[r].wallet)
          /\ req[r].p \in Pocketeer \ req[r].wallet.pocketeers
          /\ req[r].key \in Key
          /\ Cardinality(req[r].wallet.pocketeers) # WalletN
          /\ req[r].op = "joinWallet" /\ req[r].w \in WalletId
      BY <3>1 DEF IInv, HandlersSound, HandlerSound
    <3>4. WalletSound(new)
      BY <3>3, AddPocketeerSound
    <3> HIDE DEF new
    <3>5. /\ h.pc = "removeLookups" /\ h.wallet = new /\ h.op = "joinWallet"
          /\ h.w = req[r].w /\ h.p = req[r].p /\ h.key = req[r].key
          /\ h.late = req[r].late
      BY <3>2, <3>3 DEF RequestState
    <3>6. h \in RequestState
      BY <3>2, <3>4 DEF RequestState, PC, WalletSound
    <3>7. req' = [req EXCEPT ![r] = h]
      BY <3>1, <3>2
    <3> HIDE DEF h
    <3>8. HandlerSound(h)
      BY <3>3, <3>4, <3>5 DEF HandlerSound, Storing
    <3>9. /\ lock' \in [WalletId -> Request \cup {NoRequest}]
          /\ ~h.late => lock'[h.w] = r
      BY <3>1, <3>3, <3>5 DEF IInv, Typed, LockHeld
    <3> QED
      BY <2>0, <3>1, <3>5, <3>6, <3>7, <3>8, <3>9, Moves, SameCollections
  <2> QED
    BY <2>1, <2>2
<1> QED
  BY <1>1, <1>2

\* addAccess: the pocketeer's entry, and the wallet that gets the key.
LEMMA AccessStep ==
  ASSUME IInv, NEW r \in Request,
         \/ \E p \in Pocketeer, key \in Key : AddAccess(r, p, key)
         \/ FetchWallet(r)
  PROVE  IInv'
<1>0. UNCHANGED <<wallets, lookups, lock>>
  BY Zenon DEF AddAccess, FetchWallet
<1>1. lock' \in [WalletId -> Request \cup {NoRequest}]
  BY <1>0 DEF IInv, Typed
<1>2. ASSUME NEW p \in Pocketeer, NEW key \in Key, AddAccess(r, p, key)
      PROVE  IInv'
  <2>1. PICK l \in LookupsOf(p) :
          req' = [req EXCEPT ![r] =
                    [Idle EXCEPT !.pc = "fetchWallet", !.op = "addAccess",
                                 !.w = l.walletId, !.p = p, !.key = key]]
    BY <1>2 DEF AddAccess
  <2> DEFINE h == [Idle EXCEPT !.pc = "fetchWallet", !.op = "addAccess",
                               !.w = l.walletId, !.p = p, !.key = key]
  <2>2. l.walletId \in WalletId
    BY DEF LookupsOf, IInv, Typed, Lookup
  <2>3. h \in RequestState /\ HandlerSound(h) /\ h.op = "addAccess"
    BY <2>2 DEF Idle, RequestState, PC, HandlerSound, Storing
  <2> HIDE DEF h
  <2>4. req' = [req EXCEPT ![r] = h]
    BY <2>1 DEF h
  <2> QED
    BY <1>0, <1>1, <2>3, <2>4, Moves, SameCollections
<1>3. ASSUME FetchWallet(r) PROVE IInv'
  <2> DEFINE doc == wallets[req[r].w]
             new == [doc EXCEPT !.keys[req[r].p] = @ \cup {req[r].key}]
             h == [req[r] EXCEPT !.pc = "removeLookups", !.wallet = new]
  <2>1. /\ req[r].pc = "fetchWallet"
        /\ doc # NoWallet
        /\ req[r].p \in doc.pocketeers
        /\ req' = [req EXCEPT ![r].pc = "removeLookups", ![r].wallet = new]
    BY <1>3 DEF FetchWallet
  <2>2. req[r] \in RequestState /\ req \in [Request -> RequestState]
    BY DEF IInv, Typed
  <2>3. /\ req[r].w \in WalletId /\ req[r].p \in Pocketeer /\ req[r].key \in Key
        /\ req[r].op = "addAccess"
    BY <2>1 DEF IInv, HandlersSound, HandlerSound
  <2>4. WalletSound(doc)
    BY <2>1, <2>3 DEF IInv, StoredSound
  <2> HIDE DEF doc
  <2>5. WalletSound(new)
    BY <2>1, <2>3, <2>4, AddKeySound
  <2> HIDE DEF new
  <2>6. /\ h.pc = "removeLookups" /\ h.wallet = new /\ h.op = "addAccess"
        /\ h.w = req[r].w /\ h.p = req[r].p /\ h.key = req[r].key
    BY <2>2, <2>3 DEF RequestState
  <2>7. h \in RequestState
    BY <2>2, <2>5 DEF RequestState, PC, WalletSound
  <2>8. req' = [req EXCEPT ![r] = h]
    BY <2>1, <2>2
  <2> HIDE DEF h
  <2>9. HandlerSound(h)
    BY <2>3, <2>5, <2>6 DEF HandlerSound, Storing
  <2> QED
    BY <1>0, <1>1, <2>6, <2>7, <2>8, <2>9, Moves, SameCollections
<1> QED
  BY <1>2, <1>3

\* What a handler between its check and its storeWallet call knows.
LEMMA StoringKnows ==
  ASSUME IInv, NEW r \in Request, Storing(req[r])
  PROVE  /\ req[r].op \in {"joinWallet", "addAccess"}
         /\ req[r].w \in WalletId
         /\ req[r].p \in Pocketeer /\ req[r].key \in Key
         /\ WalletSound(req[r].wallet)
         /\ req[r].wallet \in Wallet
BY DEF IInv, HandlersSound, HandlerSound, Storing, WalletSound

\* storeWalletAndUpdatePocketeersLookup up to the store of the wallet.
LEMMA LookupStep ==
  ASSUME IInv, NEW r \in Request, RemoveLookups(r) \/ InsertLookups(r)
  PROVE  IInv'
<1>1. Storing(req[r]) /\ wallets' = wallets /\ lock' = lock
  BY DEF Storing, RemoveLookups, InsertLookups
<1>2. req[r] \in RequestState /\ req \in [Request -> RequestState]
  BY DEF IInv, Typed
<1>3. ASSUME NEW pc \in {"insertLookups", "storeWallet"},
             req' = [req EXCEPT ![r].pc = pc],
             lookups' \subseteq Lookup
      PROVE  IInv'
  <2> DEFINE h == [req[r] EXCEPT !.pc = pc]
  <2>1. /\ h.pc = pc /\ h.wallet = req[r].wallet /\ h.op = req[r].op
        /\ h.w = req[r].w /\ h.p = req[r].p /\ h.key = req[r].key
        /\ h.late = req[r].late
    BY <1>2 DEF RequestState
  <2>2. h \in RequestState
    BY <1>2 DEF RequestState, PC
  <2>3. req' = [req EXCEPT ![r] = h]
    BY <1>2, <1>3
  <2> HIDE DEF h
  <2>4. HandlerSound(h)
    BY <1>1, <2>1, StoringKnows DEF HandlerSound, Storing
  <2>5. lock' \in [WalletId -> Request \cup {NoRequest}]
    BY <1>1 DEF IInv, Typed
  <2>6. h.op \in {"joinWallet", "removeWallet"} /\ ~h.late => lock'[h.w] = r
    BY <1>1, <2>1 DEF IInv, LockHeld
  <2>7. wallets' \in [WalletId -> Wallet \cup {NoWallet}] /\ StoredSound'
    BY <1>1 DEF IInv, Typed, StoredSound
  <2> QED
    BY <1>1, <1>3, <2>2, <2>3, <2>4, <2>5, <2>6, <2>7, Moves
<1>4. CASE RemoveLookups(r)
  <2>1. lookups' \subseteq Lookup
    BY <1>4 DEF RemoveLookups, IInv, Typed
  <2> QED
    BY <1>3, <1>4, <2>1 DEF RemoveLookups
<1>5. CASE InsertLookups(r)
  <2>1. lookups' \subseteq Lookup
    BY <1>1, <1>5, StoringKnows, EntriesTyped DEF InsertLookups, IInv, Typed
  <2> QED
    BY <1>3, <1>5, <2>1 DEF InsertLookups
<1> QED
  BY <1>4, <1>5

\* The store of the whole wallet document.
LEMMA StoreStep ==
  ASSUME IInv, NEW r \in Request, StoreWallet(r)
  PROVE  IInv'
<1>1. /\ Storing(req[r])
      /\ wallets' = [wallets EXCEPT ![req[r].w] = req[r].wallet]
      /\ Return(r) /\ lookups' = lookups
  BY DEF Storing, StoreWallet
<1>2. /\ wallets' \in [WalletId -> Wallet \cup {NoWallet}]
      /\ lookups' \subseteq Lookup
  BY <1>1, StoringKnows DEF IInv, Typed
<1>3. StoredSound'
  BY <1>1, StoringKnows DEF IInv, Typed, StoredSound
<1> QED
  BY <1>1, <1>2, <1>3, Returns

\* A removal that goes on keeps the handler where it is.
LEMMA RemovalGoesOn ==
  ASSUME IInv, NEW r \in Request, NEW collection \in Collection, NEW late \in BOOLEAN,
         req[r].pc = "removeWallet",
         req' = [req EXCEPT ![r] = [req[r] EXCEPT !.left = @ \ {collection}, !.late = late]],
         wallets' \in [WalletId -> Wallet \cup {NoWallet}],
         StoredSound',
         lookups' \subseteq Lookup,
         lock' \in [WalletId -> Request \cup {NoRequest}],
         \A w \in WalletId : lock[w] \in Request \ {r} => lock'[w] = lock[w],
         ~late => lock' = lock /\ ~req[r].late
  PROVE  IInv'
<1> DEFINE h == [req[r] EXCEPT !.left = @ \ {collection}, !.late = late]
<1>1. req[r] \in RequestState /\ req \in [Request -> RequestState]
  BY DEF IInv, Typed
<1>2. req[r].op = "removeWallet" /\ req[r].w \in WalletId
  BY DEF IInv, HandlersSound, HandlerSound
<1>3. /\ h.pc = "removeWallet" /\ h.op = "removeWallet" /\ h.w = req[r].w
      /\ h.late = late
  BY <1>1, <1>2 DEF RequestState
<1>4. h \in RequestState
  BY <1>1 DEF RequestState
<1>5. req' = [req EXCEPT ![r] = h]
  OBVIOUS
<1> HIDE DEF h
<1>6. HandlerSound(h)
  BY <1>2, <1>3 DEF HandlerSound, Storing
<1>7. ~h.late => lock'[h.w] = r
  BY <1>2, <1>3 DEF IInv, LockHeld
<1> QED
  BY <1>4, <1>5, <1>6, <1>7, Moves

\* removeWallet, its removals, and those that answer with an error.
LEMMA RemoveStep ==
  ASSUME IInv, NEW r \in Request,
         \/ \E w \in WalletId : RemoveWallet(r, w)
         \/ \E collection \in Collection :
              RemoveFrom(r, collection) \/ RemovalErrs(r, collection)
  PROVE  IInv'
<1>0. req[r] \in RequestState /\ req \in [Request -> RequestState]
  BY DEF IInv, Typed
<1>1. ASSUME NEW w \in WalletId, RemoveWallet(r, w) PROVE IInv'
  <2> DEFINE h == [Idle EXCEPT !.pc = "removeWallet", !.op = "removeWallet",
                               !.w = w, !.left = Collection]
  <2>1. /\ h \in RequestState /\ HandlerSound(h)
        /\ h.op = "removeWallet" /\ h.w = w
    BY DEF Idle, RequestState, PC, HandlerSound, Storing
  <2>2. /\ req' = [req EXCEPT ![r] = h]
        /\ Acquire(r, w) /\ UNCHANGED <<wallets, lookups>>
    BY <1>1 DEF RemoveWallet
  <2> HIDE DEF h
  <2> QED
    BY <2>1, <2>2, Moves, SameCollections, Acquired
<1>2. ASSUME NEW collection \in Collection, RemoveFrom(r, collection)
      PROVE  IInv'
  <2>1. /\ wallets' \in [WalletId -> Wallet \cup {NoWallet}]
        /\ lookups' \subseteq Lookup
    BY <1>2 DEF RemoveFrom, IInv, Typed
  <2>2. StoredSound'
    BY <1>2 DEF RemoveFrom, IInv, Typed, StoredSound
  <2>3. CASE Return(r)
    BY <2>1, <2>2, <2>3, Returns
  <2>4. CASE ~ Return(r)
    <3>1. /\ req[r].pc = "removeWallet" /\ lock' = lock
          /\ req' = [req EXCEPT ![r].left = @ \ {collection}]
      BY <1>2, <2>4 DEF RemoveFrom, Removing
    <3>2. req[r].late \in BOOLEAN
      BY <1>0 DEF RequestState
    <3>3. [req[r] EXCEPT !.left = @ \ {collection}, !.late = req[r].late]
            = [req[r] EXCEPT !.left = @ \ {collection}]
      BY <1>0 DEF RequestState
    <3>4. req' = [req EXCEPT ![r] =
                    [req[r] EXCEPT !.left = @ \ {collection}, !.late = req[r].late]]
      BY <1>0, <3>1, <3>3
    <3>5. lock' \in [WalletId -> Request \cup {NoRequest}]
      BY <3>1 DEF IInv, Typed
    <3> QED
      BY <2>1, <2>2, <3>1, <3>2, <3>4, <3>5, RemovalGoesOn
  <2> QED
    BY <2>3, <2>4
<1>3. ASSUME NEW collection \in Collection, RemovalErrs(r, collection)
      PROVE  IInv'
  <2>1. req[r].pc = "removeWallet" /\ Release(r) /\ UNCHANGED <<wallets, lookups>>
    BY <1>3 DEF RemovalErrs, Removing
  <2>2. CASE req[r].left = {collection}
    <3>1. Return(r)
      BY <1>3, <2>1, <2>2 DEF RemovalErrs, Return
    <3> QED
      BY <2>1, <3>1, Returns, SameCollections
  <2>3. CASE req[r].left # {collection}
    <3>1. req' = [req EXCEPT ![r] = [req[r] EXCEPT !.left = @ \ {collection}, !.late = TRUE]]
      BY <1>3, <2>3 DEF RemovalErrs
    <3>2. /\ lock' \in [WalletId -> Request \cup {NoRequest}]
          /\ \A w \in WalletId : lock[w] \in Request \ {r} => lock'[w] = lock[w]
      BY <2>1 DEF Release, IInv, Typed
    <3>3. /\ wallets' \in [WalletId -> Wallet \cup {NoWallet}]
          /\ StoredSound' /\ lookups' \subseteq Lookup
      BY <2>1, SameCollections
    <3> QED
      BY <2>1, <3>1, <3>2, <3>3, RemovalGoesOn
  <2> QED
    BY <2>2, <2>3
<1> QED
  BY <1>1, <1>2, <1>3

\* The lock that is given on: its holder goes on, as one that outlived it.
LEMMA ExpiryStep ==
  ASSUME IInv, NEW w \in WalletId, LockExpires(w)
  PROVE  IInv'
<1> DEFINE r == lock[w]
           h == [req[r] EXCEPT !.late = TRUE]
<1>1. /\ r # NoRequest
      /\ req' = [req EXCEPT ![r].late = TRUE]
      /\ lock' = [lock EXCEPT ![w] = NoRequest]
      /\ UNCHANGED <<wallets, lookups>>
  BY DEF LockExpires
<1>2. /\ req \in [Request -> RequestState]
      /\ lock \in [WalletId -> Request \cup {NoRequest}]
  BY DEF IInv, Typed
<1>3. r \in Request /\ req[r] \in RequestState
  BY <1>1, <1>2
<1>4. h \in RequestState
  BY <1>3 DEF RequestState
<1>5. /\ h.pc = req[r].pc /\ h.op = req[r].op /\ h.w = req[r].w /\ h.p = req[r].p
      /\ h.key = req[r].key /\ h.wallet = req[r].wallet /\ h.late
  BY <1>3 DEF RequestState
<1>6. req' = [req EXCEPT ![r] = h]
  BY <1>1, <1>2
<1>7. /\ lock' \in [WalletId -> Request \cup {NoRequest}]
      /\ \A v \in WalletId : lock[v] \in Request \ {r} => lock'[v] = lock[v]
  BY <1>1, <1>2
<1>8. HandlerSound(req[r])
  BY <1>3 DEF IInv, HandlersSound
<1> HIDE DEF h, r
<1>9. HandlerSound(h)
  BY <1>5, <1>8 DEF HandlerSound, Storing
<1> QED
  BY <1>1, <1>3, <1>4, <1>5, <1>6, <1>7, <1>9, Moves, SameCollections

\* The invariant is inductive.
LEMMA NextHolds == IInv /\ [Next]_vars => IInv'
<1> SUFFICES ASSUME IInv, [Next]_vars PROVE IInv'
  OBVIOUS
<1>1. CASE UNCHANGED vars
  BY <1>1 DEF vars, IInv, Typed, StoredSound, HandlersSound, LockHeld
<1>2. CASE \E w \in WalletId : LockExpires(w)
  BY <1>2, ExpiryStep
<1>3. CASE Handlers
  <2> PICK r \in Request :
    \/ \E w \in WalletId :
         \/ CreateWallet(r, w) \/ RemoveWallet(r, w)
         \/ \E p \in Pocketeer, key \in Key : JoinWallet(r, w, p, key)
    \/ \E p \in Pocketeer, key \in Key : AddAccess(r, p, key)
    \/ StoreNewWallet(r) \/ FetchPocketeerLookup(r) \/ FetchWallet(r)
    \/ RemoveLookups(r) \/ InsertLookups(r) \/ StoreWallet(r)
    \/ \E collection \in Collection :
         RemoveFrom(r, collection) \/ RemovalErrs(r, collection)
    \/ Fail(r)
    BY <1>3 DEF Handlers
  <2>1. CASE Fail(r)
    BY <2>1, Returns, SameCollections DEF Fail
  <2> QED
    BY <2>1, CreateStep, JoinStep, AccessStep, LookupStep, StoreStep, RemoveStep
<1> QED
  BY <1>1, <1>2, <1>3 DEF Next

\* The inductive invariant, of every behaviour: whatever handlers overlap and
\* fail, a stored document and the copies of it are sound.
THEOREM Invariance == Spec => []IInv
BY InitHolds, NextHolds, PTL DEF Spec

\* The types of the collections, the locks and the handlers, of every behaviour,
\* also with locks that expire and removals that outlive their answer; in
\* particular no wallet is stored with more than n pocketeers, and it is complete
\* exactly with the n-th.
THEOREM TypeCorrect == Spec => []TypeOK
<1>1. IInv => TypeOK
  BY DEF IInv, Typed, StoredSound, WalletSound, TypeOK
<1> QED
  BY <1>1, Invariance, PTL

-----------------------------------------------------------------------------
(* Behaviours in which a handler without a lock is alone.                   *)

\* Two handlers under way are about two wallets: the lock keeps joinWallet and
\* removeWallet apart, and the others are alone by assumption.
LEMMA OneHandlerPerWallet ==
  ASSUME IInv, AloneIfUnlocked, NEW r \in Request, NEW q \in Request, r # q,
         req[r].pc # "idle", req[q].pc # "idle"
  PROVE  req[q].w # req[r].w
<1>1. \A x \in Request : req[x] \in RequestState /\ HandlerSound(req[x])
  BY DEF IInv, Typed, HandlersSound
<1>2. \A x \in Request : req[x].pc # "idle" =>
        req[x].op \in {"createWallet", "joinWallet", "addAccess", "removeWallet"}
  BY <1>1 DEF HandlerSound, Storing, RequestState, PC
<1>3. CASE \E x \in {r, q} : req[x].op \in {"createWallet", "addAccess"} \/ req[x].late
  BY <1>3 DEF AloneIfUnlocked
<1>4. CASE \A x \in {r, q} : req[x].op \in {"joinWallet", "removeWallet"} /\ ~req[x].late
  BY <1>4 DEF IInv, LockHeld
<1> QED
  BY <1>2, <1>3, <1>4

\* A step of handler r changes the collections for its own wallet only: the
\* copies of the others still fit.
LEMMA OthersFit ==
  ASSUME PInv, NEW r \in Request, NEW h,
         req' = [req EXCEPT ![r] = h],
         \A w \in WalletId :
           \/ wallets'[w] = wallets[w] /\ EntriesOf(w)' = EntriesOf(w)
           \/ req[r].pc # "idle" /\ w = req[r].w,
         CopyFits(h, wallets'[h.w], {l \in lookups' : l.walletId = h.w})
  PROVE  CopiesFit'
<1>1. req \in [Request -> RequestState]
  BY DEF PInv, IInv, Typed
<1>2. \A q \in Request : req'[q] = IF q = r THEN h ELSE req[q]
  BY <1>1
<1> SUFFICES ASSUME NEW q \in Request
             PROVE  CopyFits(req'[q], wallets'[req'[q].w],
                             {l \in lookups' : l.walletId = req'[q].w})
  BY DEF CopiesFit, EntriesOf
<1>3. CASE q = r
  BY <1>2, <1>3
<1>4. CASE q # r /\ req[q].pc = "idle"
  <2>1. req'[q].pc = "idle"
    BY <1>2, <1>4
  <2> QED
    BY <2>1 DEF CopyFits, Storing
<1>5. CASE q # r /\ req[q].pc # "idle"
  <2>1. req'[q] = req[q]
    BY <1>2, <1>5
  <2>2. req[q].w \in WalletId
    BY <1>5 DEF PInv, IInv, HandlersSound, HandlerSound
  <2>3. req[r].pc # "idle" => req[q].w # req[r].w
    BY <1>5, OneHandlerPerWallet DEF PInv
  <2>4. /\ wallets'[req[q].w] = wallets[req[q].w]
        /\ {l \in lookups' : l.walletId = req[q].w} = EntriesOf(req[q].w)
    BY <2>2, <2>3 DEF EntriesOf
  <2>5. CopyFits(req[q], wallets[req[q].w], EntriesOf(req[q].w))
    BY DEF PInv, CopiesFit
  <2> QED
    BY <2>1, <2>4, <2>5
<1> QED
  BY <1>3, <1>4, <1>5

\* An answered handler has no copy.
LEMMA IdleFits ==
  \A doc, entries : CopyFits(Idle, doc, entries)
BY DEF CopyFits, Idle, Storing

\* The steps by which a handler starts.
LEMMA StartFits ==
  ASSUME PInv, NEW r \in Request,
         \/ \E w \in WalletId :
              \/ CreateWallet(r, w) \/ RemoveWallet(r, w)
              \/ \E p \in Pocketeer, key \in Key : JoinWallet(r, w, p, key)
         \/ \E p \in Pocketeer, key \in Key : AddAccess(r, p, key)
  PROVE  CopiesFit'
<1>1. \A w : wallets' = wallets /\ EntriesOf(w)' = EntriesOf(w)
  BY Zenon DEF CreateWallet, RemoveWallet, JoinWallet, AddAccess, EntriesOf
<1>2. ASSUME NEW w \in WalletId, CreateWallet(r, w) PROVE CopiesFit'
  <2> DEFINE h == [Idle EXCEPT !.pc = "storeNewWallet", !.op = "createWallet", !.w = w]
  <2>1. req' = [req EXCEPT ![r] = h] /\ wallets[w] = NoWallet
    BY <1>2 DEF CreateWallet
  <2>2. h.pc = "storeNewWallet" /\ h.w = w
    BY DEF Idle
  <2> HIDE DEF h
  <2>3. CopyFits(h, wallets'[h.w], {l \in lookups' : l.walletId = h.w})
    BY <1>1, <2>1, <2>2 DEF CopyFits, Storing
  <2> QED
    BY <1>1, <2>1, <2>3, OthersFit
<1>3. ASSUME NEW w \in WalletId, RemoveWallet(r, w) PROVE CopiesFit'
  <2> DEFINE h == [Idle EXCEPT !.pc = "removeWallet", !.op = "removeWallet",
                               !.w = w, !.left = Collection]
  <2>1. req' = [req EXCEPT ![r] = h]
    BY <1>3 DEF RemoveWallet
  <2>2. h.pc = "removeWallet"
    BY DEF Idle
  <2> HIDE DEF h
  <2>3. CopyFits(h, wallets'[h.w], {l \in lookups' : l.walletId = h.w})
    BY <2>2 DEF CopyFits, Storing
  <2> QED
    BY <1>1, <2>1, <2>3, OthersFit
<1>4. ASSUME NEW w \in WalletId, NEW p \in Pocketeer, NEW key \in Key,
             JoinWallet(r, w, p, key)
      PROVE  CopiesFit'
  <2> DEFINE h == [Idle EXCEPT !.pc = "fetchPocketeerLookup", !.op = "joinWallet",
                               !.w = w, !.p = p, !.key = key, !.wallet = wallets[w]]
  <2>1. req' = [req EXCEPT ![r] = h]
    BY <1>4 DEF JoinWallet
  <2>2. h.pc = "fetchPocketeerLookup" /\ h.w = w /\ h.wallet = wallets[w]
    BY DEF Idle
  <2> HIDE DEF h
  <2>3. CopyFits(h, wallets'[h.w], {l \in lookups' : l.walletId = h.w})
    BY <1>1, <2>2 DEF CopyFits, Storing
  <2> QED
    BY <1>1, <2>1, <2>3, OthersFit
<1>5. ASSUME NEW p \in Pocketeer, NEW key \in Key, AddAccess(r, p, key)
      PROVE  CopiesFit'
  <2> PICK l \in LookupsOf(p) :
        req' = [req EXCEPT ![r] =
                  [Idle EXCEPT !.pc = "fetchWallet", !.op = "addAccess",
                               !.w = l.walletId, !.p = p, !.key = key]]
    BY <1>5 DEF AddAccess
  <2> DEFINE h == [Idle EXCEPT !.pc = "fetchWallet", !.op = "addAccess",
                               !.w = l.walletId, !.p = p, !.key = key]
  <2>1. req' = [req EXCEPT ![r] = h]
    OBVIOUS
  <2>2. h.pc = "fetchWallet"
    BY DEF Idle
  <2> HIDE DEF h
  <2>3. CopyFits(h, wallets'[h.w], {m \in lookups' : m.walletId = h.w})
    BY <2>2 DEF CopyFits, Storing
  <2> QED
    BY <1>1, <2>1, <2>3, OthersFit
<1> QED
  BY <1>2, <1>3, <1>4, <1>5

\* The two checks after which a handler carries a changed copy.
LEMMA CheckFits ==
  ASSUME PInv, NEW r \in Request, FetchPocketeerLookup(r) \/ FetchWallet(r)
  PROVE  CopiesFit'
<1>1. \A w : wallets' = wallets /\ EntriesOf(w)' = EntriesOf(w)
  BY DEF FetchPocketeerLookup, FetchWallet, EntriesOf
<1>2. req[r] \in RequestState /\ req \in [Request -> RequestState]
  BY DEF PInv, IInv, Typed
<1> DEFINE doc == wallets[req[r].w]
<1>3. CopyFits(req[r], doc, EntriesOf(req[r].w)) /\ HandlerSound(req[r])
  BY DEF PInv, IInv, HandlersSound, CopiesFit
<1> HIDE DEF doc
<1>4. ASSUME NEW new,
             req' = [req EXCEPT ![r].pc = "removeLookups", ![r].wallet = new],
             WalletSound(doc),
             Changed([req[r] EXCEPT !.pc = "removeLookups", !.wallet = new], doc)
      PROVE  CopiesFit'
  <2> DEFINE h == [req[r] EXCEPT !.pc = "removeLookups", !.wallet = new]
  <2>1. req' = [req EXCEPT ![r] = h]
    BY <1>2, <1>4
  <2>2. h.pc = "removeLookups" /\ h.w = req[r].w
    BY <1>2 DEF RequestState
  <2>3. Changed(h, doc)
    BY <1>4
  <2> HIDE DEF h
  <2>4. wallets'[h.w] = doc
    BY <1>1, <2>2 DEF doc
  <2>5. CopyFits(h, wallets'[h.w], {l \in lookups' : l.walletId = h.w})
    BY <1>4, <2>2, <2>3, <2>4 DEF CopyFits, Storing
  <2> QED
    BY <1>1, <2>1, <2>5, OthersFit
<1>5. CASE FetchPocketeerLookup(r)
  <2>1. CASE Return(r)
    <3>1. req' = [req EXCEPT ![r] = Idle]
      BY <2>1 DEF Return
    <3>2. CopyFits(Idle, wallets'[Idle.w], {l \in lookups' : l.walletId = Idle.w})
      BY IdleFits
    <3> QED
      BY <1>1, <3>1, <3>2, OthersFit
  <2>2. CASE ~ Return(r)
    <3> DEFINE new == AddPocketeer(req[r].wallet, req[r].p, req[r].key)
               h == [req[r] EXCEPT !.pc = "removeLookups", !.wallet = new]
    <3>1. /\ req[r].pc = "fetchPocketeerLookup"
          /\ req' = [req EXCEPT ![r].pc = "removeLookups", ![r].wallet = new]
      BY <1>5, <2>2 DEF FetchPocketeerLookup
    <3>2. /\ req[r].wallet = doc /\ WalletSound(doc)
          /\ req[r].p \notin doc.pocketeers
          /\ Cardinality(doc.pocketeers) # WalletN
          /\ req[r].op = "joinWallet"
      BY <1>3, <3>1 DEF CopyFits, HandlerSound
    <3>3. /\ h.op = "joinWallet" /\ h.p = req[r].p /\ h.key = req[r].key
          /\ h.wallet = AddPocketeer(doc, req[r].p, req[r].key)
      BY <1>2, <3>2 DEF RequestState
    <3>4. Changed(h, doc)
      <4> HIDE DEF h
      <4> QED
        BY <3>2, <3>3 DEF Changed
    <3> HIDE DEF new
    <3> QED
      BY <1>4, <3>1, <3>2, <3>4
  <2> QED
    BY <2>1, <2>2
<1>6. CASE FetchWallet(r)
  <2> DEFINE new == [doc EXCEPT !.keys[req[r].p] = @ \cup {req[r].key}]
             h == [req[r] EXCEPT !.pc = "removeLookups", !.wallet = new]
  <2>1. /\ req[r].pc = "fetchWallet"
        /\ doc # NoWallet
        /\ req[r].p \in doc.pocketeers
        /\ req' = [req EXCEPT ![r].pc = "removeLookups", ![r].wallet = new]
    BY <1>6 DEF FetchWallet, doc
  <2>2. req[r].op = "addAccess" /\ req[r].w \in WalletId
    BY <1>3, <2>1 DEF HandlerSound
  <2>3. WalletSound(doc)
    BY <2>1, <2>2 DEF PInv, IInv, StoredSound, doc
  <2>4. /\ h.op = "addAccess" /\ h.p = req[r].p /\ h.key = req[r].key
        /\ h.wallet = [doc EXCEPT !.keys[req[r].p] = @ \cup {req[r].key}]
    BY <1>2, <2>2 DEF RequestState
  <2>5. Changed(h, doc)
    <3> HIDE DEF h
    <3> QED
      BY <2>1, <2>4 DEF Changed
  <2> HIDE DEF new
  <2> QED
    BY <1>4, <2>1, <2>3, <2>5
<1> QED
  BY <1>5, <1>6

\* The entries go, and come back as those of the copy.
LEMMA LookupFits ==
  ASSUME PInv, NEW r \in Request, RemoveLookups(r) \/ InsertLookups(r)
  PROVE  CopiesFit'
<1>1. /\ Storing(req[r]) /\ req[r].pc # "idle" /\ wallets' = wallets
      /\ req[r].pc \in {"removeLookups", "insertLookups"}
  BY DEF Storing, RemoveLookups, InsertLookups
<1>2. req[r] \in RequestState /\ req \in [Request -> RequestState]
  BY DEF PInv, IInv, Typed
<1>3. CopyFits(req[r], wallets[req[r].w], EntriesOf(req[r].w))
  BY DEF PInv, CopiesFit
<1>4. ASSUME NEW pc \in {"insertLookups", "storeWallet"},
             req' = [req EXCEPT ![r].pc = pc],
             \A w \in WalletId \ {req[r].w} : EntriesOf(w)' = EntriesOf(w),
             {l \in lookups' : l.walletId = req[r].w} =
               IF pc = "insertLookups" THEN {} ELSE Entries(req[r].w, req[r].wallet)
      PROVE  CopiesFit'
  <2> DEFINE h == [req[r] EXCEPT !.pc = pc]
  <2>1. req' = [req EXCEPT ![r] = h]
    BY <1>2, <1>4
  <2>2. /\ h.pc = pc /\ h.wallet = req[r].wallet /\ h.op = req[r].op
        /\ h.w = req[r].w /\ h.p = req[r].p /\ h.key = req[r].key
    BY <1>2 DEF RequestState
  <2> HIDE DEF h
  <2>3. WalletSound(wallets'[h.w]) /\ Changed(h, wallets'[h.w])
    BY <1>1, <1>3, <2>2 DEF CopyFits, Changed
  <2>4. CopyFits(h, wallets'[h.w], {l \in lookups' : l.walletId = h.w})
    BY <1>4, <2>2, <2>3 DEF CopyFits
  <2>5. \A w \in WalletId :
          \/ wallets'[w] = wallets[w] /\ EntriesOf(w)' = EntriesOf(w)
          \/ req[r].pc # "idle" /\ w = req[r].w
    BY <1>1, <1>4
  <2> QED
    BY <2>1, <2>4, <2>5, OthersFit
<1>5. CASE RemoveLookups(r)
  <2>1. /\ lookups' = lookups \ EntriesOf(req[r].w)
        /\ req' = [req EXCEPT ![r].pc = "insertLookups"]
    BY <1>5 DEF RemoveLookups
  <2>2. {l \in lookups' : l.walletId = req[r].w} = {}
    BY <2>1 DEF EntriesOf
  <2>3. \A w \in WalletId \ {req[r].w} : EntriesOf(w)' = EntriesOf(w)
    BY <2>1 DEF EntriesOf
  <2> QED
    BY <1>4, <2>1, <2>2, <2>3
<1>6. CASE InsertLookups(r)
  <2>1. /\ lookups' = lookups \cup Entries(req[r].w, req[r].wallet)
        /\ req' = [req EXCEPT ![r].pc = "storeWallet"]
        /\ EntriesOf(req[r].w) = {}
    BY <1>3, <1>6 DEF InsertLookups, CopyFits
  <2>2. \A l \in Entries(req[r].w, req[r].wallet) : l.walletId = req[r].w
    BY DEF Entries
  <2> QED
    BY <1>4, <2>1, <2>2 DEF EntriesOf
<1> QED
  BY <1>5, <1>6

\* The last steps of a handler and the removals: the handler has no copy after.
LEMMA EndFits ==
  ASSUME PInv, NEW r \in Request,
         \/ StoreNewWallet(r) \/ StoreWallet(r) \/ Fail(r)
         \/ \E collection \in Collection :
              RemoveFrom(r, collection) \/ RemovalErrs(r, collection)
  PROVE  CopiesFit'
<1>1. req \in [Request -> RequestState] /\ wallets \in [WalletId -> Wallet \cup {NoWallet}]
  BY DEF PInv, IInv, Typed
<1>2. req[r].pc # "idle"
  BY DEF StoreNewWallet, StoreWallet, Fail, RemoveFrom, RemovalErrs, Removing
<1>3. \A w \in WalletId \ {req[r].w} :
        wallets'[w] = wallets[w] /\ EntriesOf(w)' = EntriesOf(w)
  BY <1>1 DEF StoreNewWallet, StoreWallet, Fail, RemoveFrom, RemovalErrs, EntriesOf
<1>4. CASE Return(r)
  <2>1. req' = [req EXCEPT ![r] = Idle]
    BY <1>4 DEF Return
  <2>2. CopyFits(Idle, wallets'[Idle.w], {l \in lookups' : l.walletId = Idle.w})
    BY IdleFits
  <2> QED
    BY <1>2, <1>3, <2>1, <2>2, OthersFit
<1>5. CASE ~ Return(r)
  <2>1. PICK collection \in Collection :
          RemoveFrom(r, collection) \/ RemovalErrs(r, collection)
    BY <1>5 DEF StoreNewWallet, StoreWallet, Fail
  <2> DEFINE on == [req[r] EXCEPT !.left = @ \ {collection}]
             late == [req[r] EXCEPT !.left = @ \ {collection}, !.late = TRUE]
  <2>2. req[r].pc = "removeWallet" /\ req[r] \in RequestState
    BY <1>1, <2>1 DEF RemoveFrom, RemovalErrs, Removing
  <2>3. on.pc = "removeWallet" /\ late.pc = "removeWallet"
    BY <2>2 DEF RequestState
  <2>4. req' = [req EXCEPT ![r] = on] \/ req' = [req EXCEPT ![r] = late]
    BY <1>1, <1>5, <2>1 DEF RemoveFrom, RemovalErrs, Return
  <2> HIDE DEF on, late
  <2>5. PICK h \in {on, late} : req' = [req EXCEPT ![r] = h]
    BY <2>4
  <2>6. CopyFits(h, wallets'[h.w], {l \in lookups' : l.walletId = h.w})
    BY <2>3 DEF CopyFits, Storing
  <2> QED
    BY <1>2, <1>3, <2>5, <2>6, OthersFit
<1> QED
  BY <1>4, <1>5

\* A lock that is given on changes no copy.
LEMMA ExpiryFits ==
  ASSUME PInv, NEW w \in WalletId, LockExpires(w)
  PROVE  CopiesFit'
<1> DEFINE r == lock[w]
           h == [req[r] EXCEPT !.late = TRUE]
<1>1. /\ req \in [Request -> RequestState]
      /\ lock \in [WalletId -> Request \cup {NoRequest}]
  BY DEF PInv, IInv, Typed
<1>2. r \in Request /\ req[r] \in RequestState
  BY <1>1 DEF LockExpires
<1>3. req' = [req EXCEPT ![r] = h] /\ wallets' = wallets /\ lookups' = lookups
  BY <1>1 DEF LockExpires
<1>4. /\ h.pc = req[r].pc /\ h.op = req[r].op /\ h.w = req[r].w /\ h.p = req[r].p
      /\ h.key = req[r].key /\ h.wallet = req[r].wallet
  BY <1>2 DEF RequestState
<1>5. CopyFits(req[r], wallets[req[r].w], EntriesOf(req[r].w))
  BY <1>2 DEF PInv, CopiesFit
<1> HIDE DEF h, r
<1>6. CopyFits(h, wallets'[h.w], {l \in lookups' : l.walletId = h.w})
  BY <1>3, <1>4, <1>5 DEF CopyFits, Storing, Changed, EntriesOf
<1>7. \A v \in WalletId : wallets'[v] = wallets[v] /\ EntriesOf(v)' = EntriesOf(v)
  BY <1>3 DEF EntriesOf
<1> QED
  BY <1>2, <1>3, <1>6, <1>7, OthersFit

\* The starting state of these behaviours.
LEMMA PoliteInit == Init => PInv
<1> SUFFICES ASSUME Init PROVE PInv
  OBVIOUS
<1>1. \A r \in Request : req[r] = Idle
  BY DEF Init
<1>2. AloneIfUnlocked
  BY <1>1 DEF AloneIfUnlocked, Idle
<1>3. CopiesFit
  BY <1>1, IdleFits DEF CopiesFit
<1> QED
  BY <1>2, <1>3, InitHolds DEF PInv

\* Their invariant is inductive.
LEMMA PoliteNext == PInv /\ [Next /\ AloneIfUnlocked']_vars => PInv'
<1> SUFFICES ASSUME PInv, [Next /\ AloneIfUnlocked']_vars PROVE PInv'
  OBVIOUS
<1>1. IInv'
  BY NextHolds DEF PInv
<1>2. CASE UNCHANGED vars
  BY <1>1, <1>2 DEF vars, PInv, AloneIfUnlocked, CopiesFit, EntriesOf
<1>3. CASE AloneIfUnlocked' /\ \E w \in WalletId : LockExpires(w)
  BY <1>1, <1>3, ExpiryFits DEF PInv
<1>4. CASE AloneIfUnlocked' /\ Handlers
  <2> PICK r \in Request :
    \/ \E w \in WalletId :
         \/ CreateWallet(r, w) \/ RemoveWallet(r, w)
         \/ \E p \in Pocketeer, key \in Key : JoinWallet(r, w, p, key)
    \/ \E p \in Pocketeer, key \in Key : AddAccess(r, p, key)
    \/ StoreNewWallet(r) \/ FetchPocketeerLookup(r) \/ FetchWallet(r)
    \/ RemoveLookups(r) \/ InsertLookups(r) \/ StoreWallet(r)
    \/ \E collection \in Collection :
         RemoveFrom(r, collection) \/ RemovalErrs(r, collection)
    \/ Fail(r)
    BY <1>4 DEF Handlers
  <2>1. CopiesFit'
    BY StartFits, CheckFits, LookupFits, EndFits
  <2> QED
    BY <1>1, <1>4, <2>1 DEF PInv
<1> QED
  BY <1>2, <1>3, <1>4 DEF Next

\* The copies of the wallets stay what they must be.
THEOREM CopiesStayFit == PoliteSpec => []PInv
BY PoliteInit, PoliteNext, PTL DEF PoliteSpec

-----------------------------------------------------------------------------
(* What a store does to the document it replaces.                           *)

\* Only the two stores and removeWallet touch the wallets collection, and a
\* wallet that was there and still is was replaced by StoreWallet.
LEMMA OnlyStoreWallet ==
  ASSUME PInv, Next, NEW w \in WalletId,
         wallets[w] # NoWallet, wallets'[w] # NoWallet, wallets'[w] # wallets[w]
  PROVE  \E r \in Request : StoreWallet(r) /\ req[r].w = w
<1>1. PICK r \in Request :
        \/ StoreNewWallet(r) \/ StoreWallet(r)
        \/ \E collection \in Collection : RemoveFrom(r, collection)
  BY Zenon DEF Next, Handlers, LockExpires, CreateWallet, RemoveWallet, JoinWallet,
         AddAccess, FetchPocketeerLookup, FetchWallet, RemoveLookups, InsertLookups,
         RemovalErrs, Fail
<1>2. wallets \in [WalletId -> Wallet \cup {NoWallet}]
  BY DEF PInv, IInv, Typed
<1>3. ~ \E collection \in Collection : RemoveFrom(r, collection)
  BY <1>2 DEF RemoveFrom
<1>4. ~ StoreNewWallet(r)
  <2> SUFFICES ASSUME StoreNewWallet(r) PROVE FALSE
    OBVIOUS
  <2>1. /\ req[r].pc = "storeNewWallet"
        /\ wallets' = [wallets EXCEPT ![req[r].w] = NewWallet]
    BY DEF StoreNewWallet
  <2>2. wallets[req[r].w] = NoWallet
    BY <2>1 DEF PInv, CopiesFit, CopyFits
  <2> QED
    BY <1>2, <2>1, <2>2
<1>5. StoreWallet(r) /\ req[r].w = w
  BY <1>1, <1>2, <1>3, <1>4 DEF StoreWallet
<1> QED
  BY <1>5

\* The document StoreWallet writes is the one it replaces with the handler's
\* change, and the lookup entries are its entries.
LEMMA StoredFits ==
  ASSUME PInv, NEW r \in Request, StoreWallet(r), NEW w, w = req[r].w
  PROVE  /\ w \in WalletId
         /\ wallets'[w] = req[r].wallet
         /\ WalletSound(wallets[w])
         /\ Changed(req[r], wallets[w])
         /\ EntriesOf(w)' = Entries(w, req[r].wallet)
         /\ req[r].p \in Pocketeer /\ req[r].key \in Key
<1>1. /\ req[r].pc = "storeWallet" /\ Storing(req[r])
      /\ wallets' = [wallets EXCEPT ![w] = req[r].wallet]
      /\ lookups' = lookups
      /\ wallets \in [WalletId -> Wallet \cup {NoWallet}]
  BY DEF StoreWallet, Storing, PInv, IInv, Typed
<1>2. w \in WalletId /\ req[r].p \in Pocketeer /\ req[r].key \in Key
  BY <1>1, StoringKnows DEF PInv
<1>3. CopyFits(req[r], wallets[w], EntriesOf(w))
  BY DEF PInv, CopiesFit
<1>4. /\ WalletSound(wallets[w])
      /\ Changed(req[r], wallets[w])
      /\ EntriesOf(w) = Entries(w, req[r].wallet)
  BY <1>1, <1>3 DEF CopyFits
<1> QED
  BY <1>1, <1>2, <1>4 DEF EntriesOf

\* Nobody's membership or access is taken back by another handler's store: of
\* joinWallet, addAccess, createWallet and removeWallet, provided a handler
\* that takes no lock, or that outlived its lock, has its wallet for itself.
THEOREM MembersStay == PoliteSpec => MembersKept
<1> DEFINE Kept(w) ==
      wallets[w] # NoWallet /\ wallets'[w] # NoWallet =>
        /\ wallets[w].pocketeers \subseteq wallets'[w].pocketeers
        /\ wallets[w].status = "complete" => wallets'[w].pocketeers = wallets[w].pocketeers
        /\ \A p \in Pocketeer : wallets[w].keys[p] \subseteq wallets'[w].keys[p]
<1>1. ASSUME PInv, Next, NEW w \in WalletId PROVE Kept(w)
  <2> SUFFICES ASSUME wallets[w] # NoWallet, wallets'[w] # NoWallet,
                      wallets'[w] # wallets[w]
               PROVE  Kept(w)
    OBVIOUS
  <2>1. PICK r \in Request : StoreWallet(r) /\ req[r].w = w
    BY <1>1, OnlyStoreWallet
  <2>2. /\ wallets'[w] = req[r].wallet
        /\ WalletSound(wallets[w])
        /\ Changed(req[r], wallets[w])
        /\ req[r].p \in Pocketeer /\ req[r].key \in Key
    BY <1>1, <2>1, StoredFits
  <2>3. CASE /\ req[r].p \notin wallets[w].pocketeers
             /\ Cardinality(wallets[w].pocketeers) # WalletN
             /\ wallets'[w] = AddPocketeer(wallets[w], req[r].p, req[r].key)
    BY <2>2, <2>3, AddPocketeerSound
  <2>4. CASE /\ req[r].p \in wallets[w].pocketeers
             /\ wallets'[w] = [wallets[w] EXCEPT !.keys[req[r].p] = @ \cup {req[r].key}]
    BY <2>2, <2>4, AddKeySound
  <2> QED
    BY <2>2, <2>3, <2>4 DEF Changed
<1>2. PInv /\ [Next /\ AloneIfUnlocked']_vars => [\A w \in WalletId : Kept(w)]_vars
  BY <1>1
<1> QED
  BY <1>2, CopiesStayFit, PTL DEF PoliteSpec, MembersKept

\* Of storeWalletAndUpdatePocketeersLookup: the entries left are those of the
\* document stored, whatever earlier attempts left half done; under the same
\* proviso, which also keeps the removals that run on after removeWallet
\* answered with an error apart from the next handler of the wallet.
THEOREM LookupsAreSettled == PoliteSpec => LookupsSettled
<1> DEFINE Settled(w) ==
      /\ wallets[w] # NoWallet /\ wallets'[w] # NoWallet
      /\ wallets'[w] # wallets[w]
      => EntriesOf(w)' = Entries(w, wallets'[w])
<1>1. ASSUME PInv, Next, NEW w \in WalletId PROVE Settled(w)
  <2> SUFFICES ASSUME wallets[w] # NoWallet, wallets'[w] # NoWallet,
                      wallets'[w] # wallets[w]
               PROVE  EntriesOf(w)' = Entries(w, wallets'[w])
    OBVIOUS
  <2>1. PICK r \in Request : StoreWallet(r) /\ req[r].w = w
    BY <1>1, OnlyStoreWallet
  <2> QED
    BY <1>1, <2>1, StoredFits
<1>2. PInv /\ [Next /\ AloneIfUnlocked']_vars => [\A w \in WalletId : Settled(w)]_vars
  BY <1>1
<1> QED
  BY <1>2, CopiesStayFit, PTL DEF PoliteSpec, LookupsSettled
=============================================================================

--------------------------- MODULE WalletRegistry ---------------------------
(***************************************************************************)
(* Who belongs to which wallet: createWallet, joinWallet, addAccess and    *)
(* removeWallet of lib/server.js on the two collections lib/storage.js     *)
(* keeps for that, the wallets and the pocketeers' lookup entries, which   *)
(* say which wallet and which request keys a pocketeer logs in with.       *)
(*                                                                         *)
(* There is no transaction over the two collections: a handler that changes*)
(* a wallet's pocketeers removes the wallet's lookup entries, inserts the  *)
(* new ones and then stores the whole wallet document it read before.      *)
(* joinWallet and removeWallet run under the wallet's lock, createWallet   *)
(* and addAccess do not.  The lock is given on after 5 minutes whether or  *)
(* not its holder is done, and removeWallet answers with the first error   *)
(* of its removals while the others run on: a handler can outlive its lock.*)
(***************************************************************************)
EXTENDS Naturals, FiniteSets

CONSTANTS
  WalletId,
  Pocketeer,
  Key,         \* request keys
  WalletN,     \* the number of pocketeers of every wallet
  MaxKeys,     \* Defaults.MAX_KEYS
  Request,     \* slots for the handlers under way
  NoRequest,
  NoWallet     \* no document

ASSUME WalletRegistryAssumption ==
  /\ WalletN \in Nat \ {0}
  /\ MaxKeys \in Nat
  /\ NoRequest \notin Request

VARIABLES
  wallets,   \* the wallets collection: the document of each id
  lookups,   \* the pocketeers_lookup collection
  lock,      \* who holds the lock of each wallet
  req        \* the handlers under way

vars == <<wallets, lookups, lock, req>>

\* keys[p] is meant for the pocketeers of the wallet only.
Wallet == [pocketeers: SUBSET Pocketeer,
           status: {"pending", "complete"},
           keys: [Pocketeer -> SUBSET Key]]

Lookup == [pocketeerId: Pocketeer, walletId: WalletId, keys: SUBSET Key]

NewWallet == [pocketeers |-> {}, status |-> "pending",
              keys |-> [p \in Pocketeer |-> {}]]

PC == {"idle",
       "storeNewWallet",                                 \* createWallet
       "fetchPocketeerLookup",                           \* joinWallet
       "fetchWallet",                                    \* addAccess
       "removeLookups", "insertLookups", "storeWallet",  \* both of these
       "removeWallet"}

\* What storage.removeWallet cleans; "others" are the collections that say
\* nothing of who belongs to a wallet.
Collection == {"wallets", "lookups", "others"}

RequestState ==
  [pc: PC,
   op: {"none", "createWallet", "joinWallet", "addAccess", "removeWallet"},
   w: WalletId \cup {NoWallet},
   p: Pocketeer \cup {NoWallet},
   key: Key \cup {NoWallet},
   wallet: Wallet \cup {NoWallet},          \* the copy the handler read
   left: SUBSET Collection,                 \* what removeWallet has to remove
   late: BOOLEAN]                           \* it goes on, without the lock it had

Idle == [pc |-> "idle", op |-> "none", w |-> NoWallet, p |-> NoWallet, key |-> NoWallet,
         wallet |-> NoWallet, left |-> {}, late |-> FALSE]

Init ==
  /\ wallets = [w \in WalletId |-> NoWallet]
  /\ lookups = {}
  /\ lock = [w \in WalletId |-> NoRequest]
  /\ req = [r \in Request |-> Idle]

-----------------------------------------------------------------------------

Acquire(r, w) ==
  lock[w] = NoRequest /\ lock' = [lock EXCEPT ![w] = r]

\* release() after the 5 minutes does nothing: the lock is not r's any more.
Release(r) ==
  lock' = [w \in WalletId |-> IF lock[w] = r THEN NoRequest ELSE lock[w]]

Return(r) ==
  /\ req' = [req EXCEPT ![r] = Idle]
  /\ Release(r)

\* After 5 minutes the lock is given on, and the handler that had it goes on.
LockExpires(w) ==
  /\ lock[w] # NoRequest
  /\ req' = [req EXCEPT ![lock[w]].late = TRUE]
  /\ lock' = [lock EXCEPT ![w] = NoRequest]
  /\ UNCHANGED <<wallets, lookups>>

\* A storage call answers with an error, or the process stops.
Fail(r) ==
  /\ req[r].pc # "idle"
  /\ Return(r)
  /\ UNCHANGED <<wallets, lookups>>

\* createWallet with the id the client chose: no document has it when it looks.
CreateWallet(r, w) ==
  /\ req[r].pc = "idle"
  /\ wallets[w] = NoWallet
  /\ req' = [req EXCEPT ![r] = 
               [Idle EXCEPT !.pc = "storeNewWallet", !.op = "createWallet", !.w = w]]
  /\ UNCHANGED <<wallets, lookups, lock>>

StoreNewWallet(r) ==
  /\ req[r].pc = "storeNewWallet"
  /\ wallets' = [wallets EXCEPT ![req[r].w] = NewWallet]
  /\ Return(r)
  /\ UNCHANGED lookups

\* Mistake: the lock is not taken.
JoinUnlocked(r, w, p, key) ==
  /\ req[r].pc = "idle"
  /\ wallets[w] # NoWallet
  /\ p \notin wallets[w].pocketeers
  /\ Cardinality(wallets[w].pocketeers) # WalletN
  /\ req' = [req EXCEPT ![r] =
               [Idle EXCEPT !.pc = "fetchPocketeerLookup", !.op = "joinWallet",
                            !.w = w, !.p = p, !.key = key,
                            !.wallet = wallets[w]]]
  /\ UNCHANGED <<wallets, lookups, lock>>

\* Mistake: a complete wallet takes one pocketeer more.
JoinComplete(r, w, p, key) ==
  /\ req[r].pc = "idle"
  /\ Acquire(r, w)
  /\ wallets[w] # NoWallet
  /\ p \notin wallets[w].pocketeers
  /\ req' = [req EXCEPT ![r] =
               [Idle EXCEPT !.pc = "fetchPocketeerLookup", !.op = "joinWallet",
                            !.w = w, !.p = p, !.key = key,
                            !.wallet = wallets[w]]]
  /\ UNCHANGED <<wallets, lookups>>

JoinWallet(r, w, p, key) ==
  /\ req[r].pc = "idle"
  /\ Acquire(r, w)
  /\ wallets[w] # NoWallet
  /\ p \notin wallets[w].pocketeers
  /\ Cardinality(wallets[w].pocketeers) # WalletN
  /\ req' = [req EXCEPT ![r] =
               [Idle EXCEPT !.pc = "fetchPocketeerLookup", !.op = "joinWallet",
                            !.w = w, !.p = p, !.key = key,
                            !.wallet = wallets[w]]]
  /\ UNCHANGED <<wallets, lookups>>

LookupsOf(p) == {l \in lookups : l.pocketeerId = p}

\* Wallet.addPocketeer: the wallet is complete with its n-th pocketeer.
AddPocketeer(wallet, p, key) ==
  LET joined == wallet.pocketeers \cup {p} IN
  [pocketeers |-> joined,
   status |-> IF Cardinality(joined) < WalletN THEN wallet.status ELSE "complete",
   keys |-> [wallet.keys EXCEPT ![p] = {key}]]

\* A pocketeer that has an entry is POCKETEER_REGISTERED.
FetchPocketeerLookup(r) ==
  /\ req[r].pc = "fetchPocketeerLookup"
  /\ \/ /\ LookupsOf(req[r].p) # {}
        /\ Return(r)
     \/ /\ LookupsOf(req[r].p) = {}
        /\ req' = [req EXCEPT
             ![r].pc = "removeLookups",
             ![r].wallet = AddPocketeer(req[r].wallet, req[r].p, req[r].key)]
        /\ UNCHANGED lock
  /\ UNCHANGED <<wallets, lookups>>

\* addAccess finds one of the pocketeer's entries; too many keys are refused.
\* Bound: a key the pocketeer has is not added a second time.
AddAccess(r, p, key) ==
  /\ req[r].pc = "idle"
  /\ \E l \in LookupsOf(p) :
       /\ Cardinality(l.keys) <= MaxKeys
       /\ key \notin l.keys
       /\ req' = [req EXCEPT ![r] =
                    [Idle EXCEPT !.pc = "fetchWallet", !.op = "addAccess",
                                 !.w = l.walletId, !.p = p, !.key = key]]
  /\ UNCHANGED <<wallets, lookups, lock>>

\* addPocketeerRequestKey, on a complete wallet; on another it throws, which
\* stops the process.
FetchWallet(r) ==
  LET wallet == wallets[req[r].w]
      p == req[r].p
  IN  /\ req[r].pc = "fetchWallet"
      /\ wallet # NoWallet
      /\ p \in wallet.pocketeers
      /\ Cardinality(wallet.pocketeers) = WalletN
      /\ req' = [req EXCEPT
           ![r].pc = "removeLookups",
           ![r].wallet = [wallet EXCEPT !.keys[p] = wallet.keys[p] \cup {req[r].key}]]
      /\ UNCHANGED <<wallets, lookups, lock>>

-----------------------------------------------------------------------------
(* storeWalletAndUpdatePocketeersLookup.                                    *)

Entries(w, wallet) ==
  {[pocketeerId |-> p, walletId |-> w, keys |-> wallet.keys[p]] :
     p \in wallet.pocketeers}

EntriesOf(w) == {l \in lookups : l.walletId = w}

\* Mistake: the old entries stay.
KeepLookups(r) ==
  /\ req[r].pc = "removeLookups"
  /\ req' = [req EXCEPT ![r].pc = "insertLookups"]
  /\ UNCHANGED <<wallets, lookups, lock>>

RemoveLookups(r) ==
  /\ req[r].pc = "removeLookups"
  /\ lookups' = lookups \ EntriesOf(req[r].w)
  /\ req' = [req EXCEPT ![r].pc = "insertLookups"]
  /\ UNCHANGED <<wallets, lock>>

InsertLookups(r) ==
  /\ req[r].pc = "insertLookups"
  /\ lookups' = lookups \cup Entries(req[r].w, req[r].wallet)
  /\ req' = [req EXCEPT ![r].pc = "storeWallet"]
  /\ UNCHANGED <<wallets, lock>>

StoreWallet(r) ==
  /\ req[r].pc = "storeWallet"
  /\ wallets' = [wallets EXCEPT ![req[r].w] = req[r].wallet]
  /\ Return(r)
  /\ UNCHANGED lookups

-----------------------------------------------------------------------------
(* removeWallet: the collections are cleaned in parallel.                   *)

RemoveWallet(r, w) ==
  /\ req[r].pc = "idle"
  /\ Acquire(r, w)
  /\ req' = [req EXCEPT ![r] =
               [Idle EXCEPT !.pc = "removeWallet", !.op = "removeWallet",
                            !.w = w, !.left = Collection]]
  /\ UNCHANGED <<wallets, lookups>>

Removing(r, collection) ==
  req[r].pc = "removeWallet" /\ collection \in req[r].left

RemoveFrom(r, collection) ==
  /\ Removing(r, collection)
  /\ wallets' = IF collection = "wallets"
                THEN [wallets EXCEPT ![req[r].w] = NoWallet] ELSE wallets
  /\ lookups' = IF collection = "lookups"
                THEN lookups \ EntriesOf(req[r].w) ELSE lookups
  /\ IF req[r].left = {collection}
     THEN Return(r)
     ELSE req' = [req EXCEPT ![r].left = @ \ {collection}] /\ UNCHANGED lock

\* A removal answers with an error: so does removeWallet, which releases the
\* lock, but the removals that are left run on.
RemovalErrs(r, collection) ==
  /\ Removing(r, collection)
  /\ Release(r)
  /\ req' = [req EXCEPT ![r] =
       IF req[r].left = {collection} THEN Idle
       ELSE [req[r] EXCEPT !.left = @ \ {collection}, !.late = TRUE]]
  /\ UNCHANGED <<wallets, lookups>>

Handlers ==
  \E r \in Request :
    \/ \E w \in WalletId :
         \/ CreateWallet(r, w) \/ RemoveWallet(r, w)
         \/ \E p \in Pocketeer, key \in Key : JoinWallet(r, w, p, key)
    \/ \E p \in Pocketeer, key \in Key : AddAccess(r, p, key)
    \/ StoreNewWallet(r) \/ FetchPocketeerLookup(r) \/ FetchWallet(r)
    \/ RemoveLookups(r) \/ InsertLookups(r) \/ StoreWallet(r)
    \/ \E collection \in Collection :
         RemoveFrom(r, collection) \/ RemovalErrs(r, collection)
    \/ Fail(r)

Next == Handlers \/ \E w \in WalletId : LockExpires(w)

Spec == Init /\ [][Next]_vars

\* A handler that takes no lock, or that outlived its lock, has its wallet for
\* itself.
AloneIfUnlocked ==
  \A r, q \in Request :
    /\ r # q
    /\ req[r].op \in {"createWallet", "addAccess"} \/ req[r].late
    => req[q].w # req[r].w

PoliteSpec == Init /\ [][Next /\ AloneIfUnlocked']_vars

-----------------------------------------------------------------------------

\* The types of the variables; in particular a stored wallet has at most n
\* pocketeers, and is complete exactly with the n-th.
TypeOK ==
  /\ wallets \in [WalletId -> Wallet \cup {NoWallet}]
  /\ \A w \in WalletId : wallets[w] # NoWallet =>
       /\ Cardinality(wallets[w].pocketeers) <= WalletN
       /\ wallets[w].status = "complete" <=> Cardinality(wallets[w].pocketeers) = WalletN
  /\ lookups \subseteq Lookup
  /\ lock \in [WalletId -> Request \cup {NoRequest}]
  /\ req \in [Request -> RequestState]

\* Whoever was told to have joined a wallet stays in it, and whoever was given
\* an access keeps it, until the wallet is removed: the whole-document stores
\* of other handlers take nothing back, even if handlers fail half way.  For a
\* complete wallet this keeps the key ring its addresses are derived from.
MembersKept ==
  [][\A w \in WalletId :
       wallets[w] # NoWallet /\ wallets'[w] # NoWallet =>
         /\ wallets[w].pocketeers \subseteq wallets'[w].pocketeers
         /\ wallets[w].status = "complete" => wallets'[w].pocketeers = wallets[w].pocketeers
         /\ \A p \in Pocketeer : wallets[w].keys[p] \subseteq wallets'[w].keys[p]]_vars

\* A join or a new access that succeeds leaves exactly the lookup entries of
\* the wallet it stored, whatever failed attempts left there before.
LookupsSettled ==
  [][\A w \in WalletId :
       /\ wallets[w] # NoWallet /\ wallets'[w] # NoWallet
       /\ wallets'[w] # wallets[w]
       => EntriesOf(w)' = Entries(w, wallets'[w])]_vars

\* "should fail to join two wallets with same xPubKey".
OneWalletEach ==
  \A v, w \in WalletId :
    v # w /\ wallets[v] # NoWallet /\ wallets[w] # NoWallet
      => wallets[v].pocketeers \cap wallets[w].pocketeers = {}

=============================================================================

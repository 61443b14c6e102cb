------------------------- MODULE WalletCachesProofs -------------------------
(***************************************************************************)
(* Proofs about the caches of WalletCaches.  The cached height was the     *)
(* explorer's not long ago, and counts the blocks the process was told of. *)
(* When all getBalance calls are over, and nothing moved or failed since   *)
(* they began, the client has the balance of all addresses; and a partial  *)
(* balance counts what the cache was last known to hold.  The items of the *)
(* history cache are in their places, and a page answered from it is that  *)
(* page of the history at a time since the last reset.                     *)
(***************************************************************************)
EXTENDS WalletCaches, DataLemmas, SequenceTheorems, TLAPS

\* The greater of two numbers.
LEMMA MaxOfTwo ==
  ASSUME NEW a \in Int, NEW b \in Int
  PROVE  Max({a, b}) = IF a >= b THEN a ELSE b
<1> DEFINE m == IF a >= b THEN a ELSE b
<1>1. m \in {a, b} /\ \A y \in {a, b} : m >= y
  OBVIOUS
<1>2. \A x \in {a, b} : (\A y \in {a, b} : x >= y) => x = m
  OBVIOUS
<1> QED
  BY <1>1, <1>2 DEF Max

-----------------------------------------------------------------------------
(* The height of the blockchain.                                            *)

\* The heights at which minutes began rise to the height.
MinutesRise ==
  /\ \A m \in 0..minute : heightAt[m] <= height
  /\ \A m, n \in 0..minute : m <= n => heightAt[m] <= heightAt[n]

\* What is cached was so when the explorer was asked, and later than floor.
CacheSound ==
  cachedHeight.current # NoHeight =>
    /\ cachedHeight.current >= floor
    /\ cachedHeight.current >= heightAt[cachedHeight.updatedOn]

HeightCallSound(c) ==
  /\ c.now <= minute
  /\ c.pc = "asked" => c.from >= floor /\ c.from >= heightAt[c.now]
  /\ c.pc = "cached" => c.answer >= heightAt[Max({0, c.now - BlockheightCacheTime})]

HeightInv ==
  /\ HeightTypeOK
  /\ messages \subseteq 1..height
  /\ floor <= height
  /\ cachedHeight.updatedOn <= minute
  /\ MinutesRise
  /\ CacheSound
  /\ \A r \in HeightCall : HeightCallSound(heightCall[r])

\* When caching is that old, the minute it counts from.
LEMMA GoodSince ==
  ASSUME NEW n \in Nat
  PROVE  LET since == Max({0, n - BlockheightCacheTime})
         IN  since \in 0..n /\ \A m \in Nat : n - m <= BlockheightCacheTime => since <= m
<1>1. BlockheightCacheTime \in Nat
  BY HeightCacheAssumption
<1>2. Max({0, n - BlockheightCacheTime})
        = IF 0 >= n - BlockheightCacheTime THEN 0 ELSE n - BlockheightCacheTime
  BY <1>1, MaxOfTwo
<1> QED
  BY <1>1, <1>2

\* The starting state.
LEMMA HeightStarts == HeightInit => HeightInv
<1> SUFFICES ASSUME HeightInit PROVE HeightInv
  OBVIOUS
<1>1. MaxHeight \in Nat /\ MaxTime \in Nat
  BY HeightCacheAssumption
<1>2. HeightTypeOK
  BY <1>1 DEF HeightInit, HeightTypeOK, HeightCallState, NoHeightCall, NoHeight
<1>3. \A r \in HeightCall : heightCall[r] = NoHeightCall
  BY DEF HeightInit
<1>4. \A r \in HeightCall : HeightCallSound(heightCall[r])
  BY <1>3 DEF HeightCallSound, NoHeightCall, HeightInit
<1> QED
  BY <1>1, <1>2, <1>4 DEF HeightInit, HeightInv, MinutesRise, CacheSound, NoHeight

\* What the invariant says of the numbers.
LEMMA HeightKnown ==
  ASSUME HeightInv
  PROVE  /\ MaxHeight \in Nat /\ MaxTime \in Nat /\ BlockheightCacheTime \in Nat
         /\ height \in 0..MaxHeight /\ minute \in 0..MaxTime /\ floor \in 0..MaxHeight
         /\ height \in Nat /\ minute \in Nat /\ floor \in Nat
         /\ \A m \in 0..minute : heightAt[m] \in Nat
         /\ cachedHeight.updatedOn \in Nat
         /\ cachedHeight.current \in Nat \cup {NoHeight}
         /\ \A r \in HeightCall :
              /\ heightCall[r] \in HeightCallState
              /\ heightCall[r].now \in Nat /\ heightCall[r].from \in Nat
              /\ heightCall[r].answer \in Nat \cup {NoHeight}
BY HeightCacheAssumption DEF HeightInv, HeightTypeOK, HeightCallState

\* A block is found.
LEMMA BlockFoundStep == HeightInv /\ BlockFound => HeightInv'
<1> SUFFICES ASSUME HeightInv, BlockFound PROVE HeightInv'
  OBVIOUS
<1>1. /\ height' = height + 1 /\ height < MaxHeight
      /\ messages' = messages \cup {height + 1}
      /\ UNCHANGED <<minute, heightAt, cachedHeight, heightCall, floor>>
  BY DEF BlockFound
<1>2. height' \in 1..MaxHeight /\ messages' \subseteq 1..height'
  <2>1. height' \in 1..MaxHeight
    BY <1>1, HeightKnown
  <2>2. \A m \in messages : m \in 1..height
    BY DEF HeightInv
  <2> QED
    BY <1>1, <2>1, <2>2, HeightKnown
<1>3. HeightTypeOK'
  BY <1>1, <1>2, HeightKnown DEF HeightInv, HeightTypeOK
<1>4. MinutesRise' /\ floor' <= height'
  BY <1>1, HeightKnown DEF HeightInv, MinutesRise
<1> QED
  BY <1>1, <1>2, <1>3, <1>4 DEF HeightInv, CacheSound, HeightCallSound

\* A minute passes.
LEMMA MinutePassesStep == HeightInv /\ MinutePasses => HeightInv'
<1> SUFFICES ASSUME HeightInv, MinutePasses PROVE HeightInv'
  OBVIOUS
<1>1. /\ minute < MaxTime /\ minute' = minute + 1
      /\ heightAt' = [heightAt EXCEPT ![minute + 1] = height]
      /\ UNCHANGED <<height, messages, cachedHeight, heightCall, floor>>
  BY DEF MinutePasses
<1>2. minute' \in 0..MaxTime /\ heightAt \in [0..MaxTime -> 0..MaxHeight]
  BY <1>1, HeightKnown DEF HeightInv, HeightTypeOK
<1>3. HeightTypeOK'
  BY <1>1, <1>2, HeightKnown DEF HeightInv, HeightTypeOK
<1>4. heightAt'[minute + 1] = height /\ \A m \in 0..minute : heightAt'[m] = heightAt[m]
  BY <1>1, <1>2, HeightKnown
<1>5. MinutesRise'
  <2>1. \A m \in 0..(minute + 1) : m = minute + 1 \/ m \in 0..minute
    BY HeightKnown
  <2>2. \A m \in 0..minute : heightAt[m] <= height
    BY DEF HeightInv, MinutesRise
  <2>3. ASSUME NEW m \in 0..(minute + 1), NEW n \in 0..(minute + 1), m <= n
        PROVE  heightAt'[m] <= heightAt'[n]
    <3>1. CASE n = minute + 1
      BY <1>4, <2>1, <2>2, <3>1, HeightKnown
    <3>2. CASE n # minute + 1
      <4>1. m \in 0..minute /\ n \in 0..minute
        BY <2>1, <2>3, <3>2, HeightKnown
      <4> QED
        BY <1>4, <2>3, <4>1 DEF HeightInv, MinutesRise
    <3> QED
      BY <3>1, <3>2
  <2>4. ASSUME NEW m \in 0..(minute + 1)
        PROVE  heightAt'[m] <= height
    BY <1>4, <2>1, <2>2, HeightKnown
  <2> QED
    BY <1>1, <2>3, <2>4 DEF MinutesRise
<1>6. \A r \in HeightCall : HeightCallSound(heightCall[r])'
  <2> SUFFICES ASSUME NEW r \in HeightCall PROVE HeightCallSound(heightCall[r])'
    OBVIOUS
  <2> DEFINE c == heightCall[r]
  <2>1. HeightCallSound(c) /\ c.now \in Nat /\ c.now <= minute
    BY HeightKnown DEF HeightInv, HeightCallSound
  <2>2. Max({0, c.now - BlockheightCacheTime}) \in 0..minute
    <3> HIDE DEF c
    <3>1. Max({0, c.now - BlockheightCacheTime}) \in 0..c.now
      BY <2>1, GoodSince
    <3> QED
      BY <2>1, <3>1, HeightKnown
  <2>3. heightAt'[c.now] = heightAt[c.now]
    BY <1>4, <2>1, HeightKnown
  <2>4. heightAt'[Max({0, c.now - BlockheightCacheTime})]
          = heightAt[Max({0, c.now - BlockheightCacheTime})]
    BY <1>4, <2>2
  <2>5. c.now <= minute'
    BY <1>1, <2>1, HeightKnown
  <2> QED
    BY <1>1, <2>1, <2>3, <2>4, <2>5 DEF HeightCallSound
<1>7. CacheSound' /\ cachedHeight'.updatedOn <= minute'
  <2>1. cachedHeight.updatedOn \in 0..minute
    BY HeightKnown DEF HeightInv
  <2> QED
    BY <1>1, <1>4, <2>1, HeightKnown DEF HeightInv, CacheSound
<1> QED
  BY <1>1, <1>3, <1>5, <1>6, <1>7 DEF HeightInv

\* The process hears of a block, or does not.
LEMMA BlockToldStep ==
  ASSUME HeightInv, NEW h \in 1..MaxHeight, HearBlock(h) \/ LoseBlock(h)
  PROVE  HeightInv'
<1>1. /\ h \in messages /\ messages' = messages \ {h} /\ h <= height /\ h \in Nat
      /\ UNCHANGED <<height, minute, heightAt, heightCall>>
  BY HeightKnown DEF HearBlock, LoseBlock, HeightInv
<1>2. CASE LoseBlock(h)
  BY <1>1, <1>2 DEF LoseBlock, HeightInv, HeightTypeOK, MinutesRise, CacheSound,
                    HeightCallSound
<1>3. CASE HearBlock(h)
  <2>1. /\ cachedHeight' = [cachedHeight EXCEPT !.current = NoHeight]
        /\ \/ floor' = floor
           \/ /\ floor' = Max({floor, h})
              /\ \A r \in HeightCall : heightCall[r].pc # "asked"
    BY <1>3 DEF HearBlock
  <2>2. Max({floor, h}) = IF floor >= h THEN floor ELSE h
    BY <1>1, HeightKnown, MaxOfTwo
  <2>3. floor' \in 0..MaxHeight /\ floor' <= height
    BY <1>1, <2>1, <2>2, HeightKnown DEF HeightInv
  <2>4. /\ cachedHeight'.current = NoHeight
        /\ cachedHeight'.updatedOn = cachedHeight.updatedOn
        /\ cachedHeight' \in [current: 0..MaxHeight \cup {NoHeight},
                              last: 0..MaxHeight \cup {NoHeight}, updatedOn: 0..MaxTime]
    BY <2>1 DEF HeightInv, HeightTypeOK
  <2>5. HeightTypeOK'
    BY <1>1, <2>3, <2>4 DEF HeightInv, HeightTypeOK
  <2>6. \A r \in HeightCall : HeightCallSound(heightCall[r])'
    BY <1>1, <2>1 DEF HeightInv, HeightCallSound
  <2> QED
    BY <1>1, <2>3, <2>4, <2>5, <2>6 DEF HeightInv, MinutesRise, CacheSound
<1> QED
  BY <1>2, <1>3

\* A call moves on, and the cache stays.
LEMMA HeightCallMoves ==
  ASSUME HeightInv, NEW r \in HeightCall, NEW c \in HeightCallState, HeightCallSound(c),
         heightCall' = [heightCall EXCEPT ![r] = c],
         UNCHANGED <<height, minute, heightAt, messages, floor>>,
         cachedHeight' \in [current: 0..MaxHeight \cup {NoHeight},
                            last: 0..MaxHeight \cup {NoHeight}, updatedOn: 0..MaxTime],
         cachedHeight'.updatedOn <= minute, CacheSound'
  PROVE  HeightInv'
<1>1. heightCall \in [HeightCall -> HeightCallState]
  BY DEF HeightInv, HeightTypeOK
<1>2. /\ heightCall' \in [HeightCall -> HeightCallState]
      /\ \A q \in HeightCall : heightCall'[q] = IF q = r THEN c ELSE heightCall[q]
  BY <1>1
<1>3. HeightTypeOK'
  BY <1>2 DEF HeightInv, HeightTypeOK
<1>4. \A q \in HeightCall : HeightCallSound(heightCall'[q])
  BY <1>2 DEF HeightInv
<1>5. \A q \in HeightCall : HeightCallSound(heightCall[q])'
  BY <1>4 DEF HeightCallSound
<1> QED
  BY <1>3, <1>5 DEF HeightInv, MinutesRise

\* A call begins.
LEMMA GetBlockchainHeightStep ==
  ASSUME HeightInv, NEW r \in HeightCall, GetBlockchainHeight(r)
  PROVE  HeightInv'
<1> DEFINE c == heightCall[r]
           asked == [c EXCEPT !.pc = "asked", !.now = minute, !.from = height]
           cached == [c EXCEPT !.pc = "cached", !.now = minute,
                               !.answer = cachedHeight.current]
<1>1. /\ UNCHANGED <<height, minute, heightAt, messages, cachedHeight, floor>>
      /\ \/ heightCall' = [heightCall EXCEPT ![r] = asked]
         \/ /\ heightCall' = [heightCall EXCEPT ![r] = cached]
            /\ cachedHeight.current # NoHeight
            /\ minute - cachedHeight.updatedOn <= BlockheightCacheTime
  <2> DEFINE new == \/ cachedHeight.current \in {NoHeight, 0}
                    \/ minute - cachedHeight.updatedOn > BlockheightCacheTime
  <2>1. /\ UNCHANGED <<height, minute, heightAt, messages, cachedHeight, floor>>
        /\ heightCall' = [heightCall EXCEPT ![r] = IF new THEN asked ELSE cached]
    BY DEF GetBlockchainHeight
  <2>2. ~new => /\ cachedHeight.current # NoHeight
                /\ minute - cachedHeight.updatedOn <= BlockheightCacheTime
    BY HeightKnown
  <2> HIDE DEF new, asked, cached
  <2> QED
    BY <2>1, <2>2
<1>2. /\ c \in HeightCallState
      /\ cachedHeight \in [current: 0..MaxHeight \cup {NoHeight},
                           last: 0..MaxHeight \cup {NoHeight}, updatedOn: 0..MaxTime]
      /\ cachedHeight.updatedOn <= minute /\ CacheSound'
  BY <1>1, HeightKnown DEF HeightInv, HeightTypeOK, CacheSound
<1> HIDE DEF c
<1>3. CASE heightCall' = [heightCall EXCEPT ![r] = asked]
  <2>1. asked \in HeightCallState
    BY <1>2, HeightKnown DEF HeightCallState
  <2>2. asked.pc = "asked" /\ asked.now = minute /\ asked.from = height
    BY <1>2 DEF HeightCallState
  <2> HIDE DEF asked
  <2>3. HeightCallSound(asked)
    BY <2>2, HeightKnown DEF HeightCallSound, HeightInv, MinutesRise
  <2> QED
    BY <1>1, <1>2, <1>3, <2>1, <2>3, HeightCallMoves
<1>4. CASE /\ heightCall' = [heightCall EXCEPT ![r] = cached]
           /\ cachedHeight.current # NoHeight
           /\ minute - cachedHeight.updatedOn <= BlockheightCacheTime
  <2> DEFINE since == Max({0, minute - BlockheightCacheTime})
             on == cachedHeight.updatedOn
  <2>1. cached \in HeightCallState
    BY <1>2, HeightKnown DEF HeightCallState
  <2>2. cached.pc = "cached" /\ cached.now = minute /\ cached.answer = cachedHeight.current
    BY <1>2 DEF HeightCallState
  <2> HIDE DEF cached
  <2>3. since \in 0..minute /\ since <= on /\ on \in 0..minute
    <3>1. minute \in Nat /\ on \in 0..minute /\ minute - on <= BlockheightCacheTime
      BY <1>2, <1>4, HeightKnown
    <3>2. since \in 0..minute
          /\ \A m \in Nat : minute - m <= BlockheightCacheTime => since <= m
      BY <3>1, GoodSince, Zenon
    <3> HIDE DEF on, since
    <3> QED
      BY <3>1, <3>2
  <2>4. cachedHeight.current >= heightAt[on] /\ cachedHeight.current \in Nat
    BY <1>4, HeightKnown DEF HeightInv, CacheSound
  <2> HIDE DEF on, since
  <2>5. heightAt[since] <= heightAt[on] /\ heightAt[since] \in Nat /\ heightAt[on] \in Nat
    BY <2>3, HeightKnown DEF HeightInv, MinutesRise
  <2>6. cachedHeight.current >= heightAt[since]
    BY <2>4, <2>5
  <2>7. HeightCallSound(cached)
    BY <2>2, <2>6, HeightKnown DEF HeightCallSound, since
  <2> QED
    BY <1>1, <1>2, <1>4, <2>1, <2>7, HeightCallMoves
<1> QED
  BY <1>1, <1>3, <1>4

\* A call ends.
LEMMA HeightEnds ==
  ASSUME HeightInv, NEW r \in HeightCall, HeightComes(r) \/ HeightReturn(r)
  PROVE  HeightInv'
<1>1. /\ UNCHANGED <<height, minute, heightAt, messages, floor>>
      /\ heightCall' = [heightCall EXCEPT ![r] = NoHeightCall]
  BY DEF HeightComes, HeightReturn
<1>2. NoHeightCall \in HeightCallState /\ HeightCallSound(NoHeightCall)
  BY HeightKnown DEF NoHeightCall, HeightCallState, HeightCallSound, NoHeight
<1>3. /\ cachedHeight' \in [current: 0..MaxHeight \cup {NoHeight},
                            last: 0..MaxHeight \cup {NoHeight}, updatedOn: 0..MaxTime]
      /\ cachedHeight'.updatedOn <= minute /\ CacheSound'
  <2>1. CASE cachedHeight' = cachedHeight
    BY <1>1, <2>1 DEF HeightInv, HeightTypeOK, CacheSound
  <2>2. CASE cachedHeight' # cachedHeight
    <3> DEFINE c == heightCall[r]
    <3>1. PICK h \in c.from..height :
            cachedHeight' = [current |-> h, last |-> h, updatedOn |-> c.now]
      BY <2>2 DEF HeightComes, HeightReturn
    <3>2. c.pc = "asked"
      BY <2>2 DEF HeightComes, HeightReturn
    <3>3. c \in HeightCallState /\ HeightCallSound(c) /\ c.now \in Nat /\ c.from \in Nat
      BY HeightKnown DEF HeightInv
    <3> HIDE DEF c
    <3>4. c.now \in 0..minute /\ c.from >= floor /\ c.from >= heightAt[c.now]
      BY <3>2, <3>3, HeightKnown DEF HeightCallSound
    <3>5. h \in 0..MaxHeight /\ h >= floor /\ h >= heightAt[c.now] /\ h \in Nat
      BY <3>3, <3>4, HeightKnown
    <3>6. cachedHeight'.current = h /\ cachedHeight'.updatedOn = c.now
      BY <3>1
    <3>7. c.now \in 0..MaxTime
      BY <3>4, HeightKnown
    <3> QED
      BY <1>1, <3>1, <3>4, <3>5, <3>6, <3>7 DEF CacheSound
  <2> QED
    BY <2>1, <2>2
<1> QED
  BY <1>1, <1>2, <1>3, HeightCallMoves

\* Every step of the calls, the clock and the network.
LEMMA HeightNextHolds == HeightInv /\ (HeightNext \/ UNCHANGED heightVars) => HeightInv'
<1> SUFFICES ASSUME HeightInv, HeightNext \/ UNCHANGED heightVars PROVE HeightInv'
  OBVIOUS
<1>1. CASE UNCHANGED heightVars
  BY <1>1 DEF heightVars, HeightInv, HeightTypeOK, MinutesRise, CacheSound, HeightCallSound
<1>2. ASSUME NEW h \in 1..MaxHeight, HearBlock(h) \/ LoseBlock(h)
      PROVE  HeightInv'
  BY <1>2, BlockToldStep
<1>3. ASSUME NEW r \in HeightCall,
             GetBlockchainHeight(r) \/ HeightComes(r) \/ HeightReturn(r)
      PROVE  HeightInv'
  BY <1>3, GetBlockchainHeightStep, HeightEnds
<1> QED
  BY <1>1, <1>2, <1>3, BlockFoundStep, MinutePassesStep DEF HeightNext

-----------------------------------------------------------------------------
(* The balance.                                                             *)

\* Of a call when the addresses in whole have the funds: what it counts, if
\* nothing moved or failed, and what it may leave out of a partial balance.
CallSound(b, whole, settled) ==
  /\ b.pc \in {"active", "recent", "partial"} => ~b.answered
  /\ b.pc \in {"recent", "partial"} => b.must \subseteq b.addresses
  /\ settled =>
       /\ b.pc = "utxos" => whole \subseteq b.addresses
       /\ b.pc \in {"remove", "insert", "store", "answer"} => b.full = whole

\* The call will show the client the whole balance.
SettlesLater(b, whole) == b.pc # "idle" /\ (b.answered => b.partial # whole)

ShownSettles ==
  ~unsettled =>
    shown = funded \/ \E c \in BalanceCall : SettlesLater(balance[c], funded)

\* The call has still to store an address it cleaned the cache for.
Storing(b, a) ==
  \/ b.pc = "insert" /\ a \in b.full
  \/ b.pc = "store" /\ a \in b.todo

HoldsStored ==
  \A a \in holds \ Nothing :
    a \in active \/ \E c \in BalanceCall : Storing(balance[c], a)

BalanceInv ==
  /\ BalanceTypeOK
  /\ \A c \in BalanceCall : CallSound(balance[c], funded, ~unsettled)
  /\ ShownSettles
  /\ HoldsStored

\* The fields of a call.
LEMMA BalanceKnown ==
  ASSUME BalanceInv, NEW c \in BalanceCall
  PROVE  /\ balance[c] \in BalanceState
         /\ CallSound(balance[c], funded, ~unsettled)
         /\ balance[c].addresses \subseteq WalletAddress
         /\ balance[c].partial \subseteq WalletAddress
         /\ balance[c].full \subseteq WalletAddress
         /\ balance[c].todo \subseteq WalletAddress
         /\ funded \subseteq Known /\ Known \subseteq WalletAddress
         /\ unsettled \in BOOLEAN
<1>1. balance[c] \in BalanceState
  BY DEF BalanceInv, BalanceTypeOK
<1>2. /\ balance[c].addresses \subseteq WalletAddress
      /\ balance[c].partial \subseteq WalletAddress
      /\ balance[c].full \subseteq WalletAddress
      /\ balance[c].todo \subseteq WalletAddress
  BY <1>1 DEF BalanceState
<1> QED
  BY <1>1, <1>2 DEF BalanceInv, BalanceTypeOK, Known

\* The starting state.
LEMMA BalanceStarts == BalanceInit => BalanceInv
<1> SUFFICES ASSUME BalanceInit PROVE BalanceInv
  OBVIOUS
<1>1. NoCall \in BalanceState
  BY DEF NoCall, BalanceState
<1>2. /\ balance \in [BalanceCall -> BalanceState]
      /\ \A c \in BalanceCall : balance[c].pc = "idle"
  BY <1>1 DEF BalanceInit, NoCall
<1>3. MaxChanges \in Nat
  BY BalanceCacheAssumption
<1>4. born \in [WalletAddress -> {"no", "today", "before"}]
  BY DEF BalanceInit
<1>5. BalanceTypeOK
  <2>1. funded \subseteq Known /\ told \in BOOLEAN /\ unsettled \in BOOLEAN
    BY DEF BalanceInit
  <2>2. changes \in 0..MaxChanges
    BY <1>3 DEF BalanceInit
  <2>3. /\ active \subseteq WalletAddress \cup {NullKey, Letter}
        /\ stray \subseteq WalletAddress /\ shown \subseteq WalletAddress
        /\ holds \subseteq WalletAddress \cup Nothing
    BY DEF BalanceInit
  <2> QED
    BY <1>2, <1>4, <2>1, <2>2, <2>3 DEF BalanceTypeOK
<1>6. \A c \in BalanceCall : CallSound(balance[c], funded, ~unsettled)
  BY <1>2 DEF CallSound
<1> QED
  BY <1>5, <1>6 DEF BalanceInit, BalanceInv, ShownSettles, HoldsStored

\* A call moves.
LEMMA BalanceMoves ==
  ASSUME BalanceInv, NEW c \in BalanceCall, NEW b \in BalanceState,
         balance' = [balance EXCEPT ![c] = b],
         UNCHANGED <<born, funded, changes, told>>,
         active' \subseteq WalletAddress \cup {NullKey, Letter},
         stray' \subseteq WalletAddress, shown' \subseteq WalletAddress,
         unsettled' \in BOOLEAN, holds' \subseteq WalletAddress \cup Nothing,
         CallSound(b, funded, ~unsettled'),
         unsettled' \/ ~unsettled \/ AllAnswered,
         ~unsettled' =>
           shown' = funded \/ \E d \in BalanceCall : SettlesLater(balance'[d], funded),
         \A a \in holds' \ Nothing :
           a \in active' \/ \E d \in BalanceCall : Storing(balance'[d], a)
  PROVE  BalanceInv'
<1>1. balance \in [BalanceCall -> BalanceState]
  BY DEF BalanceInv, BalanceTypeOK
<1>2. /\ balance' \in [BalanceCall -> BalanceState]
      /\ \A d \in BalanceCall : balance'[d] = IF d = c THEN b ELSE balance[d]
  BY <1>1
<1>3. BalanceTypeOK'
  BY <1>2 DEF BalanceInv, BalanceTypeOK, Known, Nothing
<1>4. \A d \in BalanceCall : CallSound(balance'[d], funded, ~unsettled')
  <2> SUFFICES ASSUME NEW d \in BalanceCall
               PROVE  CallSound(balance'[d], funded, ~unsettled')
    OBVIOUS
  <2>1. CASE d = c
    BY <1>2, <2>1
  <2>2. CASE d # c
    <3>1. CallSound(balance[d], funded, ~unsettled) /\ balance'[d] = balance[d]
      BY <1>2, <2>2 DEF BalanceInv
    <3>2. CASE unsettled'
      BY <3>1, <3>2 DEF CallSound
    <3>3. CASE ~unsettled' /\ ~unsettled
      BY <3>1, <3>3 DEF CallSound
    <3>4. CASE AllAnswered
      BY <3>1, <3>4 DEF CallSound, AllAnswered
    <3> QED
      BY <3>2, <3>3, <3>4
  <2> QED
    BY <2>1, <2>2
<1> QED
  BY <1>3, <1>4 DEF BalanceInv, CallSound, ShownSettles, SettlesLater, HoldsStored, Storing,
                    Nothing

\* A call moves and leaves the cache and the client alone.
LEMMA BalanceGoesOn ==
  ASSUME BalanceInv, NEW c \in BalanceCall, NEW b \in BalanceState,
         balance' = [balance EXCEPT ![c] = b],
         UNCHANGED <<born, funded, changes, told, active, stray, shown, unsettled, holds>>,
         CallSound(b, funded, ~unsettled),
         SettlesLater(balance[c], funded) => SettlesLater(b, funded),
         balance[c].pc \notin {"insert", "store"}
  PROVE  BalanceInv'
<1>1. balance \in [BalanceCall -> BalanceState]
  BY DEF BalanceInv, BalanceTypeOK
<1>2. \A d \in BalanceCall : balance'[d] = IF d = c THEN b ELSE balance[d]
  BY <1>1
<1>3. ~unsettled' =>
        shown' = funded \/ \E d \in BalanceCall : SettlesLater(balance'[d], funded)
  BY <1>2 DEF BalanceInv, ShownSettles
<1>4. \A a \in holds' \ Nothing :
        a \in active' \/ \E d \in BalanceCall : Storing(balance'[d], a)
  <2>1. \A d \in BalanceCall : \A a : Storing(balance[d], a) => d # c
    BY DEF Storing
  <2> QED
    BY <1>2, <2>1 DEF BalanceInv, HoldsStored
<1>5. /\ active' \subseteq WalletAddress \cup {NullKey, Letter}
      /\ stray' \subseteq WalletAddress /\ shown' \subseteq WalletAddress
      /\ unsettled' \in BOOLEAN /\ holds' \subseteq WalletAddress \cup Nothing
      /\ CallSound(b, funded, ~unsettled')
      /\ unsettled' \/ ~unsettled \/ AllAnswered
  BY DEF BalanceInv, BalanceTypeOK
<1> QED
  BY <1>3, <1>4, <1>5, BalanceMoves

\* What the network and the wallet do.
LEMMA ChainSteps ==
  ASSUME BalanceInv,
         \/ \E a \in WalletAddress : CreateAddress(a) \/ FundsChange(a) \/ StrayStore(a)
         \/ DayEnds \/ UpdateActiveAddresses
  PROVE  BalanceInv'
<1> USE DEF Nothing
<1>1. ASSUME NEW a \in WalletAddress, CreateAddress(a)
      PROVE  BalanceInv'
  <2>1. /\ born' = [born EXCEPT ![a] = "today"]
        /\ UNCHANGED <<funded, changes, told, active, stray, balance, shown, unsettled, holds>>
    BY <1>1 DEF CreateAddress
  <2>2. born' \in [WalletAddress -> {"no", "today", "before"}] /\ Known \subseteq Known'
    BY <2>1 DEF BalanceInv, BalanceTypeOK, Known
  <2>3. BalanceTypeOK'
    BY <2>1, <2>2 DEF BalanceInv, BalanceTypeOK
  <2> QED
    BY <2>1, <2>3 DEF BalanceInv, CallSound, ShownSettles, SettlesLater, HoldsStored, Storing
<1>2. ASSUME NEW a \in WalletAddress, FundsChange(a)
      PROVE  BalanceInv'
  <2>1. /\ funded' = SymDiff(funded, {a}) /\ a \in Known
        /\ changes < MaxChanges /\ changes' = changes + 1
        /\ told' \in {told, TRUE} /\ unsettled' = TRUE
        /\ UNCHANGED <<born, active, stray, balance, shown, holds>>
    BY <1>2 DEF FundsChange
  <2>2. funded' \subseteq Known
    BY <2>1 DEF BalanceInv, BalanceTypeOK, SymDiff
  <2>3. changes' \in 0..MaxChanges
    BY <2>1, BalanceCacheAssumption DEF BalanceInv, BalanceTypeOK
  <2>4. BalanceTypeOK'
    BY <2>1, <2>2, <2>3 DEF BalanceInv, BalanceTypeOK, Known
  <2> QED
    BY <2>1, <2>4 DEF BalanceInv, CallSound, ShownSettles, SettlesLater, HoldsStored, Storing
<1>3. ASSUME NEW a \in WalletAddress, StrayStore(a)
      PROVE  BalanceInv'
  <2>1. /\ stray' = stray \ {a} /\ active' \in {active, active \cup {a}}
        /\ UNCHANGED <<born, funded, changes, told, balance, shown, unsettled, holds>>
    BY <1>3 DEF StrayStore, chain
  <2>2. BalanceTypeOK'
    BY <2>1 DEF BalanceInv, BalanceTypeOK, Known
  <2> QED
    BY <2>1, <2>2 DEF BalanceInv, CallSound, ShownSettles, SettlesLater, HoldsStored, Storing
<1>4. CASE DayEnds
  <2>1. /\ born' = [a \in WalletAddress |-> IF born[a] = "today" THEN "before" ELSE born[a]]
        /\ UNCHANGED <<funded, changes, told, active, stray, balance, shown, unsettled, holds>>
    BY <1>4 DEF DayEnds
  <2>2. born' \in [WalletAddress -> {"no", "today", "before"}] /\ Known' = Known
    BY <2>1 DEF BalanceInv, BalanceTypeOK, Known
  <2>3. BalanceTypeOK'
    BY <2>1, <2>2 DEF BalanceInv, BalanceTypeOK
  <2> QED
    BY <2>1, <2>3 DEF BalanceInv, CallSound, ShownSettles, SettlesLater, HoldsStored, Storing
<1>5. CASE UpdateActiveAddresses
  <2>1. /\ told' = FALSE /\ active' \in {active, active \cup {Letter}}
        /\ UNCHANGED <<born, funded, changes, stray, balance, shown, unsettled, holds>>
    BY <1>5 DEF UpdateActiveAddresses
  <2>2. BalanceTypeOK'
    BY <2>1 DEF BalanceInv, BalanceTypeOK, Known
  <2> QED
    BY <2>1, <2>2 DEF BalanceInv, CallSound, ShownSettles, SettlesLater, HoldsStored, Storing
<1> QED
  BY <1>1, <1>2, <1>3, <1>4, <1>5

\* A getBalance call begins.
LEMMA GetBalanceStep ==
  ASSUME BalanceInv, NEW c \in BalanceCall, NEW twoStep \in BOOLEAN, GetBalance(c, twoStep)
  PROVE  BalanceInv'
<1> DEFINE pc == IF twoStep /\ Cardinality(Known) >= TwoStepThreshold
                 THEN "active" ELSE "all"
           b == [NoCall EXCEPT !.pc = pc]
<1>1. /\ balance' = [balance EXCEPT ![c] = b]
      /\ unsettled' = (unsettled /\ ~AllAnswered)
      /\ UNCHANGED <<born, funded, changes, told, active, stray, shown, holds>>
      /\ balance[c].pc = "idle"
  BY DEF GetBalance, chain
<1>2. pc \in {"active", "all"}
  OBVIOUS
<1> HIDE DEF pc
<1>3. b \in BalanceState /\ b.pc = pc /\ b.answered = FALSE
  BY <1>2 DEF NoCall, BalanceState
<1> HIDE DEF b
<1>4. /\ CallSound(b, funded, ~unsettled') /\ SettlesLater(b, funded)
      /\ \A a : ~Storing(b, a)
  BY <1>2, <1>3 DEF CallSound, SettlesLater, Storing
<1>5. balance \in [BalanceCall -> BalanceState] /\ unsettled \in BOOLEAN
  BY DEF BalanceInv, BalanceTypeOK
<1>6. \A d \in BalanceCall : balance'[d] = IF d = c THEN b ELSE balance[d]
  BY <1>1, <1>5
<1>7. \E d \in BalanceCall : SettlesLater(balance'[d], funded)
  BY <1>4, <1>6
<1>8. \A a \in holds' \ Nothing :
        a \in active' \/ \E d \in BalanceCall : Storing(balance'[d], a)
  <2>1. \A a : ~Storing(balance[c], a)
    BY <1>1 DEF Storing
  <2> QED
    BY <1>1, <1>6, <2>1 DEF BalanceInv, HoldsStored
<1>9. /\ active' \subseteq WalletAddress \cup {NullKey, Letter}
      /\ stray' \subseteq WalletAddress /\ shown' \subseteq WalletAddress
      /\ unsettled' \in BOOLEAN /\ holds' \subseteq WalletAddress \cup Nothing
      /\ unsettled' \/ ~unsettled \/ AllAnswered
  BY <1>1, <1>5 DEF BalanceInv, BalanceTypeOK
<1> QED
  BY <1>1, <1>3, <1>4, <1>7, <1>8, <1>9, BalanceMoves

\* The steps that read: the cache, the addresses, the explorer.
LEMMA ReadingSteps ==
  ASSUME BalanceInv, NEW c \in BalanceCall,
         FetchActive(c) \/ FetchRecent(c) \/ FetchAddresses(c) \/ GetFullBalance(c)
  PROVE  BalanceInv'
<1> DEFINE was == balance[c]
<1>1. UNCHANGED <<born, funded, changes, told, active, stray, shown, unsettled, holds>>
  BY DEF FetchActive, FetchRecent, FetchAddresses, GetFullBalance, chain
<1>2. /\ was \in BalanceState /\ CallSound(was, funded, ~unsettled)
      /\ was.addresses \subseteq WalletAddress
      /\ funded \subseteq Known /\ Known \subseteq WalletAddress
  BY BalanceKnown
<1>3. CASE balance' = [balance EXCEPT ![c].pc = "all"] /\ FetchActive(c)
  <2> DEFINE b == [was EXCEPT !.pc = "all"]
  <2>1. balance' = [balance EXCEPT ![c] = b] /\ was.pc = "active"
    BY <1>3 DEF FetchActive
  <2> HIDE DEF was
  <2>2. /\ b \in BalanceState /\ b.pc = "all" /\ b.answered = was.answered
        /\ b.partial = was.partial
    BY <1>2 DEF BalanceState
  <2> HIDE DEF b
  <2>3. CallSound(b, funded, ~unsettled)
    BY <2>2 DEF CallSound
  <2>4. SettlesLater(was, funded) => SettlesLater(b, funded)
    BY <2>2 DEF SettlesLater
  <2> QED
    BY <1>1, <2>1, <2>2, <2>3, <2>4, BalanceGoesOn DEF was
<1>4. CASE balance' # [balance EXCEPT ![c].pc = "all"] /\ FetchActive(c)
  <2> DEFINE must == IF Complete THEN holds \ Nothing ELSE {}
             b == [was EXCEPT !.pc = "recent", !.addresses = active \cap WalletAddress,
                              !.must = must]
  <2>1. balance' = [balance EXCEPT ![c] = b] /\ was.pc = "active"
    BY <1>4 DEF FetchActive
  <2>2. must \subseteq active \cap WalletAddress
    <3>1. holds \ Nothing \subseteq WalletAddress
      BY DEF BalanceInv, BalanceTypeOK
    <3>2. Complete => holds \ Nothing \subseteq active
      BY DEF BalanceInv, HoldsStored, Storing, Complete
    <3> QED
      BY <3>1, <3>2, SMT
  <2> HIDE DEF was, must
  <2>3. /\ b \in BalanceState /\ b.pc = "recent" /\ b.answered = was.answered
        /\ b.partial = was.partial /\ b.must = must
        /\ b.addresses = active \cap WalletAddress
    <3>1. must \subseteq WalletAddress
      BY <2>2
    <3> QED
      BY <1>2, <3>1 DEF BalanceState
  <2> HIDE DEF b
  <2>4. CallSound(b, funded, ~unsettled)
    BY <1>2, <2>1, <2>2, <2>3 DEF CallSound, was
  <2>5. SettlesLater(was, funded) => SettlesLater(b, funded)
    BY <2>3 DEF SettlesLater
  <2> QED
    BY <1>1, <2>1, <2>3, <2>4, <2>5, BalanceGoesOn DEF was
<1>5. CASE FetchRecent(c)
  <2> DEFINE recent == {a \in WalletAddress : born[a] = "today"}
             b == [was EXCEPT !.pc = "partial", !.addresses = was.addresses \cup recent]
  <2>1. balance' = [balance EXCEPT ![c] = b] /\ was.pc = "recent"
    BY <1>5 DEF FetchRecent
  <2>2. recent \subseteq WalletAddress
    OBVIOUS
  <2> HIDE DEF was, recent
  <2>3. /\ b \in BalanceState /\ b.pc = "partial" /\ b.answered = was.answered
        /\ b.partial = was.partial /\ b.must = was.must
        /\ b.addresses = was.addresses \cup recent
    BY <1>2, <2>2 DEF BalanceState
  <2> HIDE DEF b
  <2>4. CallSound(b, funded, ~unsettled)
    BY <1>2, <2>1, <2>3 DEF CallSound
  <2>5. SettlesLater(was, funded) => SettlesLater(b, funded)
    BY <2>3 DEF SettlesLater
  <2> QED
    BY <1>1, <2>1, <2>3, <2>4, <2>5, BalanceGoesOn DEF was
<1>6. CASE FetchAddresses(c)
  <2> DEFINE b == [was EXCEPT !.pc = "utxos", !.addresses = Known]
  <2>1. balance' = [balance EXCEPT ![c] = b] /\ was.pc = "all"
    BY <1>6 DEF FetchAddresses
  <2> HIDE DEF was
  <2>2. /\ b \in BalanceState /\ b.pc = "utxos" /\ b.answered = was.answered
        /\ b.partial = was.partial /\ b.addresses = Known
    BY <1>2 DEF BalanceState
  <2> HIDE DEF b
  <2>3. CallSound(b, funded, ~unsettled)
    BY <1>2, <2>2 DEF CallSound
  <2>4. SettlesLater(was, funded) => SettlesLater(b, funded)
    BY <2>2 DEF SettlesLater
  <2> QED
    BY <1>1, <2>1, <2>2, <2>3, <2>4, BalanceGoesOn DEF was
<1>7. CASE GetFullBalance(c)
  <2> DEFINE full == funded \cap was.addresses
             b == [was EXCEPT !.pc = "remove", !.addresses = {}, !.full = full]
  <2>1. balance' = [balance EXCEPT ![c] = b] /\ was.pc = "utxos"
    BY <1>7 DEF GetFullBalance
  <2>2. full \subseteq WalletAddress /\ (~unsettled => full = funded)
    BY <1>2, <2>1 DEF CallSound
  <2> HIDE DEF was, full
  <2>3. /\ b \in BalanceState /\ b.pc = "remove" /\ b.answered = was.answered
        /\ b.partial = was.partial /\ b.full = full
    BY <1>2, <2>2 DEF BalanceState
  <2> HIDE DEF b
  <2>4. CallSound(b, funded, ~unsettled)
    BY <2>2, <2>3 DEF CallSound
  <2>5. SettlesLater(was, funded) => SettlesLater(b, funded)
    BY <2>3 DEF SettlesLater
  <2> QED
    BY <1>1, <2>1, <2>3, <2>4, <2>5, BalanceGoesOn DEF was
<1> QED
  BY <1>3, <1>4, <1>5, <1>6, <1>7

\* The partial balance is the answer.
LEMMA AnswerPartialStep ==
  ASSUME BalanceInv, NEW c \in BalanceCall, AnswerPartial(c)
  PROVE  BalanceInv'
<1> DEFINE was == balance[c]
           partial == funded \cap was.addresses
           b == [NoCall EXCEPT !.pc = "all", !.answered = TRUE, !.partial = partial]
<1>1. /\ balance' = [balance EXCEPT ![c] = b] /\ shown' = partial /\ was.pc = "partial"
      /\ UNCHANGED <<born, funded, changes, told, active, stray, unsettled, holds>>
  BY DEF AnswerPartial, chain
<1>2. /\ was \in BalanceState /\ CallSound(was, funded, ~unsettled)
      /\ partial \subseteq WalletAddress
  BY BalanceKnown
<1>3. balance \in [BalanceCall -> BalanceState]
  BY DEF BalanceInv, BalanceTypeOK
<1> HIDE DEF was, partial
<1>4. b \in BalanceState /\ b.pc = "all" /\ b.answered /\ b.partial = partial
  BY <1>2 DEF NoCall, BalanceState
<1> HIDE DEF b
<1>5. \A d \in BalanceCall : balance'[d] = IF d = c THEN b ELSE balance[d]
  BY <1>1, <1>3
<1>6. CallSound(b, funded, ~unsettled')
  BY <1>4 DEF CallSound
<1>7. shown' = funded \/ \E d \in BalanceCall : SettlesLater(balance'[d], funded)
  BY <1>1, <1>4, <1>5 DEF SettlesLater
<1>8. \A a \in holds' \ Nothing :
        a \in active' \/ \E d \in BalanceCall : Storing(balance'[d], a)
  <2>1. \A a : ~Storing(balance[c], a)
    BY <1>1 DEF Storing, was
  <2> QED
    BY <1>1, <1>5, <2>1 DEF BalanceInv, HoldsStored
<1>9. /\ active' \subseteq WalletAddress \cup {NullKey, Letter}
      /\ stray' \subseteq WalletAddress /\ shown' \subseteq WalletAddress
      /\ unsettled' \in BOOLEAN /\ holds' \subseteq WalletAddress \cup Nothing
      /\ unsettled' \/ ~unsettled \/ AllAnswered
  BY <1>1, <1>2 DEF BalanceInv, BalanceTypeOK
<1> QED
  BY <1>1, <1>4, <1>6, <1>7, <1>8, <1>9, BalanceMoves

\* A call that has its balance moves on in the cache.
LEMMA CacheMoves ==
  ASSUME BalanceInv, NEW c \in BalanceCall, NEW b \in BalanceState,
         balance' = [balance EXCEPT ![c] = b],
         UNCHANGED <<born, funded, changes, told, shown, unsettled>>,
         active' \subseteq WalletAddress \cup {NullKey, Letter},
         stray' \subseteq WalletAddress, holds' \subseteq WalletAddress \cup Nothing,
         balance[c].pc \in {"remove", "insert", "store"},
         b.pc \in {"remove", "insert", "store", "answer"},
         b.full = balance[c].full, b.answered = balance[c].answered,
         b.partial = balance[c].partial,
         \A a \in holds' \ Nothing :
           a \in active' \/ \E d \in BalanceCall : Storing(balance'[d], a)
  PROVE  BalanceInv'
<1>1. balance \in [BalanceCall -> BalanceState] /\ CallSound(balance[c], funded, ~unsettled)
  BY DEF BalanceInv, BalanceTypeOK
<1>2. \A d \in BalanceCall : balance'[d] = IF d = c THEN b ELSE balance[d]
  BY <1>1
<1>3. CallSound(b, funded, ~unsettled')
  BY <1>1 DEF CallSound
<1>4. SettlesLater(balance[c], funded) => SettlesLater(b, funded)
  BY DEF SettlesLater
<1>5. ~unsettled' =>
        shown' = funded \/ \E d \in BalanceCall : SettlesLater(balance'[d], funded)
  BY <1>2, <1>4 DEF BalanceInv, ShownSettles
<1>6. /\ shown' \subseteq WalletAddress /\ unsettled' \in BOOLEAN
      /\ unsettled' \/ ~unsettled \/ AllAnswered
  BY DEF BalanceInv, BalanceTypeOK
<1> QED
  BY <1>3, <1>5, <1>6, BalanceMoves

\* The cache is cleaned and filled, or one of these calls fails.
LEMMA CacheSteps ==
  ASSUME BalanceInv, NEW c \in BalanceCall,
         \/ CleanRemove(c) \/ CleanInsert(c)
         \/ \E a \in WalletAddress : StoreActive(c, a) \/ CacheFails(c, a)
  PROVE  BalanceInv'
<1> DEFINE was == balance[c]
<1>1. UNCHANGED <<born, funded, changes, told, shown, unsettled>>
  BY DEF CleanRemove, CleanInsert, StoreActive, CacheFails, chain
<1>2. /\ was \in BalanceState /\ CallSound(was, funded, ~unsettled)
      /\ was.full \subseteq WalletAddress /\ was.todo \subseteq WalletAddress
  BY BalanceKnown
<1>3. /\ balance \in [BalanceCall -> BalanceState]
      /\ active \subseteq WalletAddress \cup {NullKey, Letter}
      /\ stray \subseteq WalletAddress /\ holds \subseteq WalletAddress \cup Nothing
      /\ HoldsStored
  BY DEF BalanceInv, BalanceTypeOK
<1>4. CASE CleanRemove(c)
  <2> DEFINE b == [was EXCEPT !.pc = "insert"]
  <2>1. /\ balance' = [balance EXCEPT ![c] = b] /\ was.pc = "remove"
        /\ active' = {} /\ holds' = was.full /\ stray' = stray
    BY <1>4 DEF CleanRemove
  <2> HIDE DEF was
  <2>2. /\ b \in BalanceState /\ b.pc = "insert" /\ b.full = was.full
        /\ b.answered = was.answered /\ b.partial = was.partial
    BY <1>2 DEF BalanceState
  <2> HIDE DEF b
  <2>3. balance'[c] = b
    BY <1>3, <2>1
  <2>4. \A a \in holds' \ Nothing : Storing(balance'[c], a)
    BY <2>1, <2>2, <2>3 DEF Storing
  <2> QED
    BY <1>1, <1>2, <1>3, <2>1, <2>2, <2>4, CacheMoves DEF was
<1>5. CASE CleanInsert(c)
  <2> DEFINE pc == IF was.full = {} THEN "answer" ELSE "store"
             b == [was EXCEPT !.pc = pc, !.todo = was.full]
  <2>1. /\ balance' = [balance EXCEPT ![c] = b] /\ was.pc = "insert"
        /\ active' = active \cup {NullKey} /\ holds' = holds /\ stray' = stray
    BY <1>5 DEF CleanInsert
  <2>2. pc \in {"answer", "store"} /\ (was.full # {} => pc = "store")
    OBVIOUS
  <2> HIDE DEF was, pc
  <2>3. /\ b \in BalanceState /\ b.pc = pc /\ b.full = was.full /\ b.todo = was.full
        /\ b.answered = was.answered /\ b.partial = was.partial
    BY <1>2, <2>2 DEF BalanceState
  <2> HIDE DEF b
  <2>4. \A d \in BalanceCall : balance'[d] = IF d = c THEN b ELSE balance[d]
    BY <1>3, <2>1
  <2>5. \A a : Storing(was, a) => Storing(b, a)
    BY <2>1, <2>2, <2>3 DEF Storing
  <2>6. \A a \in holds' \ Nothing :
          a \in active' \/ \E d \in BalanceCall : Storing(balance'[d], a)
    BY <1>3, <2>1, <2>4, <2>5 DEF HoldsStored, was
  <2>7. active' \subseteq WalletAddress \cup {NullKey, Letter}
    BY <1>3, <2>1
  <2>8. b.pc \in {"remove", "insert", "store", "answer"}
    BY <2>2, <2>3
  <2> QED
    BY <1>1, <1>3, <2>1, <2>3, <2>6, <2>7, <2>8, CacheMoves DEF was
<1>6. ASSUME NEW a \in WalletAddress, StoreActive(c, a)
      PROVE  BalanceInv'
  <2> DEFINE pc == IF was.todo = {a} THEN "answer" ELSE was.pc
             b == [was EXCEPT !.todo = was.todo \ {a}, !.pc = pc]
  <2>1. /\ balance' = [balance EXCEPT ![c] = b] /\ was.pc = "store" /\ a \in was.todo
        /\ active' = active \cup {a} /\ holds' = holds /\ stray' = stray
    BY <1>2, <1>3, <1>6, Zenon DEF StoreActive, BalanceState
  <2>2. pc \in {"answer", "store"} /\ (was.todo # {a} => pc = "store")
    BY <2>1
  <2> HIDE DEF was, pc
  <2>3. /\ b \in BalanceState /\ b.pc = pc /\ b.full = was.full /\ b.todo = was.todo \ {a}
        /\ b.answered = was.answered /\ b.partial = was.partial
    BY <1>2, <2>2 DEF BalanceState
  <2> HIDE DEF b
  <2>4. \A d \in BalanceCall : balance'[d] = IF d = c THEN b ELSE balance[d]
    BY <1>3, <2>1
  <2>5. \A x : Storing(was, x) => x = a \/ Storing(b, x)
    BY <2>1, <2>2, <2>3 DEF Storing
  <2>6. \A x \in holds' \ Nothing :
          x \in active' \/ \E d \in BalanceCall : Storing(balance'[d], x)
    BY <1>3, <2>1, <2>4, <2>5 DEF HoldsStored, was
  <2>7. active' \subseteq WalletAddress \cup {NullKey, Letter}
    BY <1>3, <2>1
  <2>8. b.pc \in {"remove", "insert", "store", "answer"}
    BY <2>2, <2>3
  <2> QED
    BY <1>1, <1>3, <2>1, <2>3, <2>6, <2>7, <2>8, CacheMoves DEF was
<1>7. ASSUME NEW a \in WalletAddress, CacheFails(c, a)
      PROVE  BalanceInv'
  <2> DEFINE b == [was EXCEPT !.pc = "answer", !.todo = {}]
  <2>1. /\ balance' = [balance EXCEPT ![c] = b] /\ was.pc \in {"remove", "insert", "store"}
        /\ active' = active /\ holds' = Nothing /\ stray' = stray \cup (was.todo \ {a})
    BY <1>7 DEF CacheFails
  <2> HIDE DEF was
  <2>2. /\ b \in BalanceState /\ b.pc = "answer" /\ b.full = was.full
        /\ b.answered = was.answered /\ b.partial = was.partial
    BY <1>2 DEF BalanceState
  <2> HIDE DEF b
  <2>3. stray' \subseteq WalletAddress
    BY <1>2, <1>3, <2>1
  <2> QED
    BY <1>1, <1>3, <2>1, <2>2, <2>3, CacheMoves DEF was
<1> QED
  BY <1>4, <1>5, <1>6, <1>7

\* A call ends.
LEMMA BalanceEnds ==
  ASSUME BalanceInv, NEW c \in BalanceCall, Answer(c) \/ BalanceFails(c)
  PROVE  BalanceInv'
<1> DEFINE was == balance[c]
<1>1. /\ balance' = [balance EXCEPT ![c] = NoCall]
      /\ UNCHANGED <<born, funded, changes, told, active, stray, holds>>
      /\ was.pc \notin {"insert", "store"}
  BY DEF Answer, BalanceFails, chain
<1>2. NoCall \in BalanceState /\ NoCall.pc = "idle"
  BY DEF NoCall, BalanceState
<1>3. balance \in [BalanceCall -> BalanceState]
  BY DEF BalanceInv, BalanceTypeOK
<1>4. \A d \in BalanceCall : balance'[d] = IF d = c THEN NoCall ELSE balance[d]
  BY <1>1, <1>3
<1>5. /\ was \in BalanceState /\ CallSound(was, funded, ~unsettled)
      /\ was.full \subseteq WalletAddress
  BY BalanceKnown
<1>6. \A a \in holds' \ Nothing :
        a \in active' \/ \E d \in BalanceCall : Storing(balance'[d], a)
  <2>1. \A a : ~Storing(was, a)
    BY <1>1 DEF Storing
  <2> QED
    BY <1>1, <1>4, <2>1 DEF BalanceInv, HoldsStored
<1>7. /\ shown' \subseteq WalletAddress /\ unsettled' \in BOOLEAN
      /\ unsettled' \/ unsettled' = unsettled
      /\ ~unsettled' =>
           shown' = funded \/ \E d \in BalanceCall : SettlesLater(balance'[d], funded)
  <2>1. CASE Answer(c)
    <3>1. /\ shown' = IF was.answered /\ was.partial = was.full THEN shown ELSE was.full
          /\ was.pc = "answer" /\ unsettled' = unsettled
      BY <2>1 DEF Answer
    <3>2. shown \subseteq WalletAddress /\ unsettled \in BOOLEAN
      BY DEF BalanceInv, BalanceTypeOK
    <3>3. ASSUME ~unsettled
          PROVE  shown' = funded \/ \E d \in BalanceCall : SettlesLater(balance'[d], funded)
      <4>1. was.full = funded
        BY <1>5, <3>1, <3>3 DEF CallSound
      <4>2. CASE was.answered /\ was.partial = was.full
        <5>1. ~SettlesLater(was, funded)
          BY <4>1, <4>2 DEF SettlesLater
        <5>2. shown' = shown
          BY <3>1, <4>2
        <5> QED
          BY <1>4, <3>3, <5>1, <5>2 DEF BalanceInv, ShownSettles
      <4>3. CASE ~(was.answered /\ was.partial = was.full)
        BY <3>1, <4>1, <4>3
      <4> QED
        BY <4>2, <4>3
    <3> QED
      BY <1>5, <3>1, <3>2, <3>3
  <2>2. CASE BalanceFails(c)
    BY <2>2 DEF BalanceFails, BalanceInv, BalanceTypeOK
  <2> QED
    BY <2>1, <2>2
<1>8. CallSound(NoCall, funded, ~unsettled')
  BY <1>2 DEF CallSound
<1>9. /\ active' \subseteq WalletAddress \cup {NullKey, Letter}
      /\ stray' \subseteq WalletAddress /\ holds' \subseteq WalletAddress \cup Nothing
      /\ unsettled' \/ ~unsettled \/ AllAnswered
  BY <1>1, <1>7 DEF BalanceInv, BalanceTypeOK
<1> QED
  BY <1>1, <1>2, <1>6, <1>7, <1>8, <1>9, BalanceMoves

\* Every step of the calls, the wallet and the network.
LEMMA BalanceNextHolds == BalanceInv /\ (BalanceNext \/ UNCHANGED balanceVars) => BalanceInv'
<1> SUFFICES ASSUME BalanceInv, BalanceNext \/ UNCHANGED balanceVars PROVE BalanceInv'
  OBVIOUS
<1>1. CASE UNCHANGED balanceVars
  BY <1>1 DEF balanceVars, BalanceInv, BalanceTypeOK, Known, Nothing, CallSound, ShownSettles,
              SettlesLater, HoldsStored, Storing
<1>2. ASSUME NEW c \in BalanceCall,
             \/ \E twoStep \in BOOLEAN : GetBalance(c, twoStep)
             \/ FetchActive(c) \/ FetchRecent(c) \/ FetchAddresses(c) \/ GetFullBalance(c)
             \/ AnswerPartial(c) \/ CleanRemove(c) \/ CleanInsert(c)
             \/ \E a \in WalletAddress : StoreActive(c, a) \/ CacheFails(c, a)
             \/ Answer(c) \/ BalanceFails(c)
      PROVE  BalanceInv'
  BY <1>2, GetBalanceStep, ReadingSteps, AnswerPartialStep, CacheSteps, BalanceEnds
<1> QED
  BY <1>1, <1>2, ChainSteps DEF BalanceNext

-----------------------------------------------------------------------------
(* The history.                                                             *)

\* A call asks for a page, and what it is about to store are some of the n
\* transactions there are.
PageCallSound(q, n) ==
  /\ q.pc \in {"readStatus", "readItems", "fetch", "answer"} => q.from < q.to
  /\ q.pc # "store" => q.todo = {}
  /\ q.total <= n
  /\ \A item \in q.todo : item[2] <= n

\* An item is the transaction of its position in a history.
InPlace(p, i, history) == p < Len(history) /\ i = history[p + 1]

\* The cache holds items of a history, and its total at some time since the
\* last reset.
CacheInOrder(cached, total, since, history) ==
  /\ \A p \in DOMAIN cached : InPlace(p, cached[p], history)
  /\ total # NoStatus => since <= total /\ total <= Len(history)

\* The positions to read are those of the call's page when the total was n.
PageAt(q, n) == q.high = n - q.from /\ q.low = Clip(n - q.to)

\* A call took the addresses that are stored, and what it read of the cache or
\* fetched counts from the last reset it knows of.
PageCallInOrder(q, history, stored) ==
  /\ q.pc \in {"readStatus", "readItems", "fetch"} => q.withFound = stored
  /\ q.pc = "readItems" => \E n \in q.covered..Len(history) : PageAt(q, n)
  /\ q.pc = "store" => q.covered <= q.total /\ q.total <= Len(history)
  /\ \A item \in q.todo : InPlace(item[1], item[2], history)
  /\ q.pc = "answer" =>
       \E n \in q.covered..Len(history) :
         q.txs = PageOf(SubSeq(history, 1, n), q.from, q.to)

\* When nothing goes wrong, scans have the cache for themselves, and empty it
\* before they store addresses.
InOrder ==
  /\ CacheInOrder(items, status, covered, History)
  /\ scan # "idle" => AllIdle /\ DOMAIN items = {}
  /\ scan = "derive" => status = NoStatus
  /\ \A r \in Request : PageCallInOrder(req[r], History, found)

HistoryInv ==
  /\ HistoryTypeOK
  /\ resets <= Len(ledger)
  /\ covered <= Len(History)
  /\ \A r \in Request : PageCallSound(req[r], Len(ledger))
  /\ mishaps = {} => InOrder

\* Calls under way, by what they hold.
LEMMA PageCallType ==
  ASSUME NEW q
  PROVE  q \in RequestState <=>
           /\ q = [pc |-> q.pc, from |-> q.from, to |-> q.to, withFound |-> q.withFound,
                   low |-> q.low, high |-> q.high, total |-> q.total, todo |-> q.todo,
                   txs |-> q.txs, covered |-> q.covered]
           /\ q.pc \in {"idle", "readStatus", "readItems", "fetch", "store", "answer"}
           /\ q.from \in Nat /\ q.to \in Nat /\ q.withFound \in BOOLEAN
           /\ q.low \in Nat /\ q.high \in Nat /\ q.total \in Nat
           /\ q.todo \in SUBSET ((0..(MaxTx - 1)) \X (1..MaxTx))
           /\ q.txs \in Seq(1..MaxTx) /\ q.covered \in Nat
  BY DEF RequestState

\* Places in a sequence that rise are no more than the places there are.
LEMMA PlacesFit ==
  ASSUME NEW m \in Nat, NEW p \in Seq(1..m), \A i, j \in DOMAIN p : i < j => p[i] < p[j]
  PROVE  Len(p) <= m
<1> DEFINE S == {i \in 0..Len(p) : i # 0 => i <= p[i]}
<1>1. Len(p) \in Nat /\ DOMAIN p = 1..Len(p) /\ \A i \in 1..Len(p) : p[i] \in 1..m
  OBVIOUS
<1>2. ASSUME NEW n \in 0..Len(p), n + 1 \in 0..Len(p), n \in S
      PROVE  n + 1 \in S
  <2>1. n + 1 \in 1..Len(p) /\ p[n + 1] \in 1..m
    BY <1>1, <1>2
  <2>2. CASE n = 0
    BY <1>2, <2>1, <2>2
  <2>3. CASE n # 0
    <3>1. n \in 1..Len(p) /\ n <= p[n] /\ n < n + 1
      BY <1>1, <1>2, <2>3
    <3>2. p[n] < p[n + 1] /\ p[n] \in Int
      BY <1>1, <2>1, <3>1
    <3> QED
      BY <1>2, <2>1, <3>1, <3>2
  <2> QED
    BY <2>2, <2>3
<1>3. 0..Len(p) \subseteq S
  <2>1. 0 \in S
    BY <1>1
  <2> HIDE DEF S
  <2> QED
    BY <1>1, <1>2, <2>1, Induction
<1>4. Len(p) # 0 => Len(p) <= p[Len(p)] /\ p[Len(p)] \in 1..m
  <2>1. Len(p) \in S
    BY <1>1, <1>3
  <2> QED
    BY <1>1, <2>1
<1> QED
  BY <1>1, <1>4

\* The history of a ledger: HistoryOf at any time.
HistoryIn(l, w) ==
  Filter([i \in DOMAIN l |-> i], {i \in DOMAIN l : w \/ l[i] = "listed"})

\* A history is a part of the ledger, in its order.
LEMMA HistoryRises ==
  ASSUME NEW T, NEW l \in Seq(T), NEW w
  PROVE  /\ HistoryIn(l, w) \in Seq(1..Len(l))
         /\ Len(HistoryIn(l, w)) <= Len(l)
         /\ \A i, j \in 1..Len(HistoryIn(l, w)) :
              i < j => HistoryIn(l, w)[i] < HistoryIn(l, w)[j]
<1> DEFINE s == [i \in DOMAIN l |-> i]
           keep == {i \in DOMAIN l : w \/ l[i] = "listed"}
           N == Len(l)
<1>1. N \in Nat /\ Len(s) = N /\ \A i \in 1..N : s[i] = i
  OBVIOUS
<1> HIDE DEF s, keep
<1>2. PICK p : PlacesOf(p, s, keep, N) /\ Filter(s, keep) = [i \in 1..Len(p) |-> s[p[i]]]
  BY <1>1, FilterPlaces
<1>3. p \in Seq(1..N) /\ \A i, j \in DOMAIN p : i < j => p[i] < p[j]
  BY <1>2 DEF PlacesOf
<1>4. Filter(s, keep) = p
  BY <1>1, <1>2, <1>3
<1>5. HistoryIn(l, w) = p
  BY <1>4 DEF HistoryIn, s, keep
<1>6. Len(p) <= N
  BY <1>1, <1>3, PlacesFit
<1> QED
  BY <1>3, <1>5, <1>6

\* With the found address stored, it is all of the ledger.
LEMMA HistoryOfAll ==
  ASSUME NEW T, NEW l \in Seq(T)
  PROVE  HistoryIn(l, TRUE) = [i \in 1..Len(l) |-> i]
<1> DEFINE s == [i \in DOMAIN l |-> i]
           keep == {i \in DOMAIN l : TRUE \/ l[i] = "listed"}
           N == Len(l)
<1>1. N \in Nat /\ s \in Seq(Nat) /\ Len(s) = N /\ \A i \in 1..N : s[i] = i /\ s[i] \in keep
  OBVIOUS
<1> HIDE DEF s, keep
<1>2. Filter(s, keep) = [i \in 1..(N - 0) |-> s[0 + i]]
  <2>1. EndKept(s, keep, N, 0)
    BY <1>1 DEF EndKept
  <2> QED
    BY <2>1, FilterEnd
<1>3. HistoryIn(l, TRUE) = Filter(s, keep)
  BY DEF HistoryIn, s, keep
<1>4. [i \in 1..(N - 0) |-> s[0 + i]] = [i \in 1..N |-> i]
  <2>1. 1..(N - 0) = 1..N /\ \A i \in 1..N : s[0 + i] = i
    BY <1>1
  <2> QED
    BY <2>1
<1> QED
  BY <1>2, <1>3, <1>4

\* A new transaction is the last of the history, or is not in it.
LEMMA HistoryGrows ==
  ASSUME NEW T, NEW l \in Seq(T), NEW x \in T, NEW w
  PROVE  HistoryIn(Append(l, x), w) \in {HistoryIn(l, w), Append(HistoryIn(l, w), Len(l) + 1)}
<1> DEFINE longer == Append(l, x)
           s == [i \in DOMAIN l |-> i]
           keep == {i \in DOMAIN l : w \/ l[i] = "listed"}
           t == [i \in DOMAIN longer |-> i]
           hold == {i \in DOMAIN longer : w \/ longer[i] = "listed"}
           N == Len(l)
<1>1. /\ N \in Nat /\ Len(s) = N /\ Len(t) = N + 1 /\ t[N + 1] = N + 1
      /\ DOMAIN longer = 1..(N + 1) /\ \A i \in 1..N : longer[i] = l[i]
  OBVIOUS
<1>2. \A n \in 1..N : s[n] = t[n] /\ (s[n] \in keep <=> t[n] \in hold)
  BY <1>1
<1> HIDE DEF s, t, keep, hold, N
<1>4. Filter(t, hold) = IF t[N + 1] \in hold THEN Append(Filter(s, keep), t[N + 1])
                                             ELSE Filter(s, keep)
  BY <1>1, <1>2, FilterLonger
<1>5. HistoryIn(l, w) = Filter(s, keep)
  BY DEF HistoryIn, s, keep
<1>6. HistoryIn(longer, w) = Filter(t, hold)
  BY DEF HistoryIn, t, hold
<1> QED
  BY <1>1, <1>4, <1>5, <1>6 DEF N

\* A page has its items from the newest on.
LEMMA PageItems ==
  ASSUME NEW S, NEW h \in Seq(S), NEW from \in Nat, NEW to \in Nat, from < to
  PROVE  LET low == Clip(Len(h) - to)
             last == Len(h) - from
         IN  /\ low \in Nat /\ last \in Int /\ last <= Len(h)
             /\ PageOf(h, from, to) = [i \in 1..(last - low) |-> h[(last - i) + 1]]
<1> DEFINE low == Clip(Len(h) - to)
           last == Len(h) - from
           first == IF Len(h) < to THEN 1 ELSE (Len(h) - to) + 1
           m == SubSeq(h, first, last)
<1>1. Len(h) \in Nat /\ low \in Nat /\ last \in Int /\ last <= Len(h)
  BY DEF Clip
<1>2. first = low + 1 /\ first \in Int
  BY <1>1 DEF Clip
<1>3. \A i \in first..last : h[i] \in S
  BY <1>1, <1>2
<1>9. PageOf(h, from, to) = Reverse(m)
  BY DEF PageOf
<1> HIDE DEF first, low, last
<1>4. /\ m \in Seq(S)
      /\ Len(m) = IF first <= last THEN last - first + 1 ELSE 0
      /\ \A i \in 1..(last - first + 1) : m[i] = h[first + i - 1]
  BY <1>1, <1>2, <1>3, SubSeqProperties
<1> HIDE DEF m
<1>6. 1..Len(m) = 1..(last - low)
  BY <1>1, <1>2, <1>4
<1>7. \A i \in 1..(last - low) : m[(Len(m) - i) + 1] = h[(last - i) + 1]
  <2> SUFFICES ASSUME NEW i \in 1..(last - low)
               PROVE  m[(Len(m) - i) + 1] = h[(last - i) + 1]
    OBVIOUS
  <2>1. i \in Int /\ 1 <= i /\ i <= last - low
    BY <1>1
  <2>2. first <= last /\ last - first + 1 = last - low
    BY <1>1, <1>2, <2>1
  <2> DEFINE z == Len(m)
             k == (z - i) + 1
  <2>3. z = last - low
    BY <1>4, <2>2
  <2> HIDE DEF z
  <2>4. k \in 1..(last - first + 1) /\ first + k - 1 = (last - i) + 1
    BY <1>1, <1>2, <2>1, <2>2, <2>3
  <2>5. m[k] = h[first + k - 1]
    BY <1>4, <2>4
  <2> QED
    BY <2>4, <2>5 DEF z
<1>8. Reverse(m) = [i \in 1..Len(m) |-> m[(Len(m) - i) + 1]]
  BY DEF Reverse
<1> QED
  BY <1>1, <1>9, <1>6, <1>7, <1>8 DEF low, last

\* What a page gives to the cache are its oldest transactions, each with its
\* position.
LEMMA PositionsOf ==
  ASSUME NEW N \in Nat, NEW h \in Seq(1..N), deep \in Nat,
         \A i, j \in 1..Len(h) : i < j => h[i] < h[j],
         NEW from \in Nat, NEW to \in Nat, from < to
  PROVE  \A item \in Positions(PageOf(h, from, to), Clip(Len(h) - to)) :
           \E p \in 0..(Len(h) - 1) : item = <<p, h[p + 1]>>
<1> DEFINE low == Clip(Len(h) - to)
           last == Len(h) - from
           page == PageOf(h, from, to)
           L == last - low
<1>1. /\ low \in Nat /\ last \in Int /\ last <= Len(h) /\ Len(h) \in Nat
      /\ L \in Int /\ last = low + L
      /\ page = [i \in 1..L |-> h[(last - i) + 1]]
  <2>1. /\ low \in Nat /\ last \in Int /\ last <= Len(h)
        /\ PageOf(h, from, to) = [i \in 1..(last - low) |-> h[(last - i) + 1]]
    BY PageItems
  <2> HIDE DEF low, last
  <2> QED
    BY <2>1
<1>2. \A i \in 1..Len(h) : h[i] \in 1..N
  OBVIOUS
<1> HIDE DEF low, last, page, L
<1>3. CASE L <= 0
  <2>1. page = << >>
    BY <1>1, <1>3
  <2>2. Filter(page, 1..deep) = << >>
    <3>1. EndKept(page, 1..deep, 0, 0)
      BY <2>1 DEF EndKept
    <3>2. Filter(page, 1..deep) = [i \in 1..(0 - 0) |-> page[0 + i]]
      BY <3>1, FilterEnd
    <3> QED
      BY <3>2
  <2>3. Positions(page, low) = {}
    BY <2>2 DEF Positions, Reverse
  <2> QED
    BY <2>3 DEF page, low
<1>4. CASE L > 0
  <2>1. /\ page \in Seq(1..N) /\ Len(page) = L /\ L \in Nat
        /\ \A i \in 1..L : /\ (last - i) + 1 \in 1..Len(h)
                          /\ page[i] = h[(last - i) + 1] /\ page[i] \in 1..N
    <3>1. \A i \in 1..L : (last - i) + 1 \in 1..Len(h)
      BY <1>1
    <3>2. \A i \in 1..L : page[i] = h[(last - i) + 1] /\ page[i] \in 1..N
      BY <1>1, <1>2, <3>1
    <3>3. page \in [1..L -> 1..N] /\ L \in Nat
      BY <1>1, <1>4, <3>2
    <3> QED
      BY <3>1, <3>2, <3>3
  <2>2. \A i, j \in 1..L : i < j => page[j] < page[i]
    <3> SUFFICES ASSUME NEW i \in 1..L, NEW j \in 1..L, i < j PROVE page[j] < page[i]
      OBVIOUS
    <3>1. (last - j) + 1 < (last - i) + 1
      BY <1>1, <2>1
    <3> QED
      BY <2>1, <3>1
  <2>3. PICK m \in 0..L : /\ \A i \in 1..m : page[i] \notin 1..deep
                          /\ \A i \in (m + 1)..L : page[i] \in 1..deep
    <3> DEFINE T == {i \in 1..L : page[i] \in 1..deep}
    <3>1. CASE T = {}
      <4>1. \A i \in 1..L : page[i] \notin 1..deep
        BY <3>1
      <4>2. L \in 0..L /\ \A i \in (L + 1)..L : page[i] \in 1..deep
        BY <2>1
      <4> QED
        BY <4>1, <4>2
    <3>2. CASE T # {}
      <4>1. PICK k \in T : \A i \in T : k <= i
        <5>1. T \in SUBSET Nat
          BY <2>1
        <5> HIDE DEF T
        <5> QED
          BY <3>2, <5>1, LeastExists
      <4>2. k \in 1..L /\ page[k] \in 1..deep /\ k - 1 \in 0..L /\ (k - 1) + 1 = k
        BY <2>1, <4>1
      <4>3. \A i \in 1..(k - 1) : page[i] \notin 1..deep
        BY <2>1, <4>1, <4>2
      <4>4. \A i \in k..L : page[i] \in 1..deep
        <5> SUFFICES ASSUME NEW i \in k..L PROVE page[i] \in 1..deep
          OBVIOUS
        <5>1. i \in 1..L /\ page[i] \in 1..N /\ page[k] \in 1..N
          <6>1. i \in 1..L /\ k \in 1..L
            BY <2>1, <4>2
          <6> QED
            BY <2>1, <6>1
        <5>2. i = k \/ page[i] < page[k]
          BY <2>2, <4>2, <5>1
        <5> QED
          BY <4>2, <5>1, <5>2
      <4> QED
        BY <4>2, <4>3, <4>4
    <3> QED
      BY <3>1, <3>2
  <2> DEFINE f == Filter(page, 1..deep)
             old == Reverse(f)
             M == L - m
  <2>4. EndKept(page, 1..deep, L, m)
    BY <2>1, <2>3 DEF EndKept
  <2>5. /\ M \in Nat /\ m \in Nat /\ L = m + M
        /\ Len(f) = M /\ \A i \in 1..M : f[i] = page[m + i]
    <3>1. M \in Nat /\ m \in Nat /\ L = m + M
      BY <2>1, <2>3
    <3>2. Len(f) = L - m /\ \A i \in 1..(L - m) : f[i] = page[m + i]
      BY <2>4, FilterEnd
    <3> QED
      BY <3>1, <3>2
  <2> HIDE DEF f, M
  <2>6. old = [i \in 1..M |-> f[(M - i) + 1]]
    BY <2>5 DEF Reverse
  <2>7. ASSUME NEW i \in 1..M
        PROVE  old[i] = h[(low + i - 1) + 1] /\ low + i - 1 \in 0..(Len(h) - 1)
    <3> DEFINE j == (M - i) + 1
               k == m + j
    <3>1. j \in 1..M /\ k \in 1..L /\ (last - k) + 1 = (low + i - 1) + 1
      BY <1>1, <2>5
    <3>2. old[i] = page[k]
      BY <2>5, <2>6, <3>1
    <3>3. page[k] = h[(last - k) + 1]
      BY <2>1, <3>1
    <3>4. old[i] = h[(low + i - 1) + 1]
      BY <3>1, <3>2, <3>3
    <3>5. low + i - 1 \in 0..(Len(h) - 1)
      BY <1>1, <2>5
    <3> QED
      BY <3>4, <3>5
  <2>8. DOMAIN old = 1..M
    BY <2>6
  <2>9. Positions(page, low) = {<<low + i - 1, old[i]>> : i \in 1..M}
    BY <2>8 DEF Positions, f
  <2> HIDE DEF old
  <2> QED
    BY <2>7, <2>9 DEF page, low
<1> QED
  BY <1>1, <1>3, <1>4

-----------------------------------------------------------------------------
(* The steps of the history.                                                *)

\* The histories, however the network and the requests stand.
LEMMA HistoryKnown ==
  ASSUME HistoryInv
  PROVE  /\ MaxTx \in Nat /\ Len(ledger) \in 0..MaxTx
         /\ ledger \in Seq({"listed", "found"}) /\ deep \in 0..Len(ledger)
         /\ \A w : /\ HistoryOf(w) \in Seq(1..Len(ledger))
                   /\ Len(HistoryOf(w)) \in 0..Len(ledger)
                   /\ \A i, j \in 1..Len(HistoryOf(w)) :
                        i < j => HistoryOf(w)[i] < HistoryOf(w)[j]
<1>1. MaxTx \in Nat
  BY HistoryCacheAssumption
<1>2. /\ ledger \in Seq({"listed", "found"}) /\ Len(ledger) <= MaxTx
      /\ deep \in 0..Len(ledger)
  BY DEF HistoryInv, HistoryTypeOK
<1>3. Len(ledger) \in 0..MaxTx
  BY <1>1, <1>2
<1>4. ASSUME NEW w
      PROVE  /\ HistoryOf(w) \in Seq(1..Len(ledger))
             /\ Len(HistoryOf(w)) \in 0..Len(ledger)
             /\ \A i, j \in 1..Len(HistoryOf(w)) :
                  i < j => HistoryOf(w)[i] < HistoryOf(w)[j]
  <2>1. /\ HistoryOf(w) \in Seq(1..Len(ledger))
        /\ Len(HistoryOf(w)) <= Len(ledger)
        /\ \A i, j \in 1..Len(HistoryOf(w)) :
             i < j => HistoryOf(w)[i] < HistoryOf(w)[j]
    BY <1>2, HistoryRises DEF HistoryOf, HistoryIn
  <2>2. Len(HistoryOf(w)) \in Nat
    BY <2>1
  <2> QED
    BY <1>3, <2>1, <2>2
<1> QED
  BY <1>1, <1>2, <1>3, <1>4

LEMMA HistoryStarts == HistoryInit => HistoryInv
<1> SUFFICES ASSUME HistoryInit PROVE HistoryInv
  OBVIOUS
<1>1. MaxTx \in Nat /\ MaxResets \in Nat
  BY HistoryCacheAssumption
<1>2. /\ ledger = << >> /\ deep = 0 /\ found = FALSE /\ resets = 0
      /\ DOMAIN items = {} /\ status = NoStatus /\ scan = "idle" /\ covered = 0
      /\ req = [r \in Request |-> Idle] /\ mishaps \in Modes
  BY DEF HistoryInit
<1>3. Idle \in RequestState
  BY <1>1 DEF RequestState, Idle
<1>4. HistoryTypeOK
  <2>1. ledger \in Seq({"listed", "found"}) /\ Len(ledger) = 0 /\ deep \in 0..0
    BY <1>2
  <2>2. req \in [Request -> RequestState]
    BY <1>2, <1>3
  <2>3. Len(ledger) <= MaxTx /\ deep \in 0..Len(ledger)
    BY <1>1, <2>1
  <2>4. resets \in 0..MaxTx /\ covered \in 0..MaxTx
    BY <1>1, <1>2
  <2>7. found \in BOOLEAN
    BY <1>2, Zenon
  <2>5. DOMAIN items \subseteq 0..(MaxTx - 1) /\ \A p \in DOMAIN items : items[p] \in 1..Len(ledger)
    BY <1>2
  <2>6. status \in 0..MaxTx \cup {NoStatus} /\ scan \in {"idle", "clearStatus", "derive"}
    BY <1>2
  <2> QED
    BY <1>2, <2>1, <2>2, <2>3, <2>4, <2>5, <2>6, <2>7, Zenon DEF HistoryTypeOK
<1>5. Len(History) \in Nat /\ covered <= Len(History)
  <2>1. ledger \in Seq({"listed", "found"})
    BY <1>2
  <2>2. History \in Seq(1..Len(ledger))
    BY <2>1, HistoryRises DEF History, HistoryOf, HistoryIn
  <2> QED
    BY <1>2, <2>2
<1>6. \A r \in Request : PageCallSound(req[r], Len(ledger))
  BY <1>2 DEF PageCallSound, Idle
<1>7. InOrder
  BY <1>2, <1>5 DEF InOrder, CacheInOrder, PageCallInOrder, Idle
<1> QED
  BY <1>2, <1>4, <1>5, <1>6, <1>7 DEF HistoryInv

\* One history continues another.
Continues(long, short) ==
  Len(short) <= Len(long) /\ \A i \in 1..Len(short) : long[i] = short[i]

\* What was in order for a history is so for one that continues it.
LEMMA OrderLasts ==
  ASSUME NEW S, NEW short \in Seq(S), NEW long \in Seq(S), Continues(long, short),
         NEW q \in RequestState, NEW stored, PageCallInOrder(q, short, stored)
  PROVE  PageCallInOrder(q, long, stored)
<1>1. /\ Len(short) \in Nat /\ Len(long) \in Nat /\ Len(short) <= Len(long)
      /\ \A i \in 1..Len(short) : long[i] = short[i] /\ short[i] \in S
  BY DEF Continues
<1>2. q.covered \in Nat /\ q.todo \subseteq (0..(MaxTx - 1)) \X (1..MaxTx) /\ q.total \in Nat
  BY PageCallType
<1>3. ASSUME NEW item \in q.todo PROVE InPlace(item[1], item[2], long)
  <2>1. InPlace(item[1], item[2], short) /\ item[1] \in Nat
    BY <1>2 DEF PageCallInOrder
  <2> QED
    BY <1>1, <2>1 DEF InPlace
<1>4. ASSUME NEW n \in 0..Len(short)
      PROVE  SubSeq(long, 1, n) = SubSeq(short, 1, n)
  <2>1. \A i \in 1..n : long[i] = short[i] /\ long[i] \in S
    BY <1>1
  <2>2. SubSeq(long, 1, n) = [i \in 1..n |-> long[i]]
    BY <1>1
  <2>3. SubSeq(short, 1, n) = [i \in 1..n |-> short[i]]
    BY <1>1
  <2> QED
    BY <2>1, <2>2, <2>3
<1>5. \A n \in q.covered..Len(short) : n \in 0..Len(short) /\ n \in q.covered..Len(long)
  BY <1>1, <1>2
<1>6. q.pc = "readItems" => \E n \in q.covered..Len(long) : PageAt(q, n)
  BY <1>5 DEF PageCallInOrder
<1>7. q.pc = "answer" =>
        \E n \in q.covered..Len(long) : q.txs = PageOf(SubSeq(long, 1, n), q.from, q.to)
  BY <1>4, <1>5 DEF PageCallInOrder
<1>8. q.pc = "store" => q.covered <= q.total /\ q.total <= Len(long)
  BY <1>1, <1>2 DEF PageCallInOrder
<1> QED
  BY <1>3, <1>6, <1>7, <1>8 DEF PageCallInOrder

LEMMA CacheLasts ==
  ASSUME NEW S, NEW short \in Seq(S), NEW long \in Seq(S), Continues(long, short),
         NEW cached, DOMAIN cached \subseteq Nat, NEW total \in Nat \cup {NoStatus},
         NEW since, CacheInOrder(cached, total, since, short)
  PROVE  CacheInOrder(cached, total, since, long)
<1>1. /\ Len(short) \in Nat /\ Len(long) \in Nat /\ Len(short) <= Len(long)
      /\ \A i \in 1..Len(short) : long[i] = short[i]
  BY DEF Continues
<1>2. ASSUME NEW p \in DOMAIN cached PROVE InPlace(p, cached[p], long)
  <2>1. InPlace(p, cached[p], short) /\ p \in Nat
    BY DEF CacheInOrder
  <2> QED
    BY <1>1, <2>1 DEF InPlace
<1>3. total # NoStatus => since <= total /\ total <= Len(long)
  BY <1>1 DEF CacheInOrder
<1> QED
  BY <1>2, <1>3 DEF CacheInOrder

\* The types of what a handler changes.
CacheTyped(cached, total, since, n) ==
  /\ DOMAIN cached \subseteq 0..(MaxTx - 1)
  /\ \A p \in DOMAIN cached : cached[p] \in 1..n
  /\ total \in 0..MaxTx \cup {NoStatus}
  /\ since \in 0..MaxTx

\* A handler that goes on as it should, and leaves the cache as it should be,
\* keeps the invariant.
LEMMA HandlerGoesOn ==
  ASSUME HistoryInv, NEW r \in Request, NEW q \in RequestState,
         PageCallSound(q, Len(ledger)),
         mishaps = {} => scan = "idle" /\ PageCallInOrder(q, History, found),
         req' = [req EXCEPT ![r] = q],
         UNCHANGED <<world, scan, mishaps>>,
         CacheTyped(items', status', covered', Len(ledger)),
         covered' <= Len(History),
         mishaps = {} => CacheInOrder(items', status', covered', History)
  PROVE  HistoryInv'
<1>1. /\ ledger' = ledger /\ deep' = deep /\ found' = found /\ resets' = resets
      /\ scan' = scan /\ mishaps' = mishaps /\ History' = History
  BY DEF world, History, HistoryOf
<1>2. /\ req \in [Request -> RequestState] /\ HistoryTypeOK
  BY DEF HistoryInv, HistoryTypeOK
<1>3. /\ req' \in [Request -> RequestState] /\ req'[r] = q
      /\ \A s \in Request : s # r => req'[s] = req[s]
  BY <1>2
<1>4. HistoryTypeOK'
  BY <1>1, <1>2, <1>3, Zenon DEF HistoryTypeOK, CacheTyped
<1>5. \A s \in Request : PageCallSound(req'[s], Len(ledger'))
  <2> SUFFICES ASSUME NEW s \in Request PROVE PageCallSound(req'[s], Len(ledger'))
    OBVIOUS
  <2>1. PageCallSound(req[s], Len(ledger))
    BY DEF HistoryInv
  <2> QED
    BY <1>1, <1>3, <2>1, Zenon
<1>6. ASSUME mishaps = {} PROVE InOrder'
  <2>1. CacheInOrder(items', status', covered', History')
    BY <1>1, <1>6
  <2>2. scan' = "idle"
    BY <1>1, <1>6
  <2>3. \A s \in Request : PageCallInOrder(req'[s], History', found')
    <3> SUFFICES ASSUME NEW s \in Request PROVE PageCallInOrder(req'[s], History', found')
      OBVIOUS
    <3>1. PageCallInOrder(req[s], History, found) /\ PageCallInOrder(q, History, found)
      BY <1>6 DEF HistoryInv, InOrder
    <3> QED
      BY <1>1, <1>3, <3>1, Zenon
  <2> QED
    BY <2>1, <2>2, <2>3 DEF InOrder
<1>7. resets' <= Len(ledger') /\ covered' <= Len(History')
  BY <1>1 DEF HistoryInv
<1> QED
  BY <1>1, <1>4, <1>5, <1>6, <1>7, Zenon DEF HistoryInv

\* What stays, stays as it should be.
LEMMA CacheKept ==
  ASSUME HistoryInv
  PROVE  /\ CacheTyped(items, status, covered, Len(ledger))
         /\ covered <= Len(History)
         /\ mishaps = {} => CacheInOrder(items, status, covered, History)
  BY DEF HistoryInv, HistoryTypeOK, CacheTyped, InOrder

\* A call under way keeps scans away.
LEMMA ScanWaits ==
  ASSUME HistoryInv, mishaps = {}, NEW r \in Request, req[r].pc # "idle"
  PROVE  scan = "idle"
  BY DEF HistoryInv, InOrder, AllIdle

\* The call's own part of the invariant.
LEMMA PageCallKnown ==
  ASSUME HistoryInv, NEW r \in Request
  PROVE  /\ req[r] \in RequestState
         /\ PageCallSound(req[r], Len(ledger))
         /\ mishaps = {} => PageCallInOrder(req[r], History, found)
  BY DEF HistoryInv, HistoryTypeOK, InOrder

LEMMA IdleIsFine ==
  ASSUME HistoryInv, NEW stored
  PROVE  /\ Idle \in RequestState
         /\ PageCallSound(Idle, Len(ledger))
         /\ PageCallInOrder(Idle, History, stored)
<1>1. MaxTx \in Nat /\ Len(ledger) \in 0..MaxTx
  BY HistoryKnown
<1>2. Idle \in RequestState
  BY <1>1 DEF Idle, RequestState
<1>3. PageCallSound(Idle, Len(ledger))
  BY <1>1 DEF Idle, PageCallSound
<1>4. PageCallInOrder(Idle, History, stored)
  BY DEF Idle, PageCallInOrder
<1> QED
  BY <1>2, <1>3, <1>4

LEMMA ReturnStep ==
  ASSUME HistoryInv, NEW r \in Request, Return(r)
  PROVE  HistoryInv'
<1>1. /\ req[r].pc # "idle" /\ req' = [req EXCEPT ![r] = Idle]
      /\ UNCHANGED <<world, items, status, scan, covered, mishaps>>
  BY DEF Return
<1>2. mishaps = {} => scan = "idle"
  BY <1>1, ScanWaits
<1> QED
  BY <1>1, <1>2, IdleIsFine, CacheKept, HandlerGoesOn

LEMMA GetTxHistoryStep ==
  ASSUME HistoryInv, NEW r \in Request, NEW from \in 0..(MaxTx - 1), NEW limit \in PageSize,
         GetTxHistory(r, from, limit)
  PROVE  HistoryInv'
<1> DEFINE q == [Idle EXCEPT !.pc = "readStatus", !.from = from, !.to = from + limit,
                             !.withFound = found]
<1>1. /\ "scanOverlaps" \in mishaps \/ scan = "idle"
      /\ req' = [req EXCEPT ![r] = q]
      /\ UNCHANGED <<world, items, status, scan, covered, mishaps>>
  BY DEF GetTxHistory
<1>2. MaxTx \in Nat /\ from \in Nat /\ limit \in Nat /\ limit > 0 /\ found \in BOOLEAN
  BY HistoryKnown, HistoryCacheAssumption DEF HistoryInv, HistoryTypeOK
<1>3. q.pc = "readStatus" /\ q.from = from /\ q.to = from + limit /\ q.withFound = found
      /\ q.total = 0 /\ q.todo = {}
  BY DEF Idle
<1>4. q \in RequestState
  <2>1. from + limit \in Nat
    BY <1>2
  <2>2. Idle \in RequestState
    BY IdleIsFine
  <2> QED
    BY <1>2, <2>1, <2>2 DEF RequestState
<1> HIDE DEF q
<1>5. PageCallSound(q, Len(ledger))
  BY <1>2, <1>3, HistoryKnown DEF PageCallSound
<1>6. PageCallInOrder(q, History, found)
  BY <1>3 DEF PageCallInOrder
<1>7. mishaps = {} => scan = "idle"
  BY <1>1
<1> QED
  BY <1>1, <1>4, <1>5, <1>6, <1>7, CacheKept, HandlerGoesOn

LEMMA ReadStatusStep ==
  ASSUME HistoryInv, NEW r \in Request, ReadStatus(r)
  PROVE  HistoryInv'
<1> DEFINE end == status - req[r].from
           q == IF status = NoStatus \/ end <= 0
                THEN [req[r] EXCEPT !.pc = "fetch"]
                ELSE [req[r] EXCEPT !.pc = "readItems", !.low = Clip(status - req[r].to),
                                    !.high = end, !.covered = covered]
<1>1. /\ req[r].pc = "readStatus" /\ req' = [req EXCEPT ![r] = q]
      /\ UNCHANGED <<world, items, status, scan, covered, mishaps>>
  BY DEF ReadStatus
<1>2. /\ req[r] \in RequestState /\ PageCallSound(req[r], Len(ledger))
      /\ mishaps = {} => PageCallInOrder(req[r], History, found)
  BY PageCallKnown
<1>3. /\ req[r].from \in Nat /\ req[r].to \in Nat /\ req[r].from < req[r].to
      /\ req[r].todo = {} /\ req[r].total <= Len(ledger)
  BY <1>1, <1>2 DEF RequestState, PageCallSound
<1>4. /\ status \in 0..MaxTx \cup {NoStatus} /\ covered \in Nat /\ MaxTx \in Nat
  BY HistoryKnown DEF HistoryInv, HistoryTypeOK
<1>5. mishaps = {} => scan = "idle"
  BY <1>1, ScanWaits
<1>6. CASE status = NoStatus \/ end <= 0
  <2> DEFINE f == [req[r] EXCEPT !.pc = "fetch"]
  <2>1. f \in RequestState
    BY <1>2 DEF RequestState
  <2>2. /\ f.pc = "fetch" /\ f.from = req[r].from /\ f.to = req[r].to /\ f.todo = req[r].todo
        /\ f.total = req[r].total /\ f.withFound = req[r].withFound
    BY <1>2 DEF RequestState
  <2> HIDE DEF f
  <2>3. PageCallSound(f, Len(ledger))
    BY <1>3, <2>2 DEF PageCallSound
  <2>4. mishaps = {} => PageCallInOrder(f, History, found)
    BY <1>1, <1>2, <1>3, <2>2 DEF PageCallInOrder
  <2>5. req' = [req EXCEPT ![r] = f]
    BY <1>1, <1>6 DEF f
  <2> QED
    BY <1>1, <1>5, <2>1, <2>3, <2>4, <2>5, CacheKept, HandlerGoesOn
<1>7. CASE ~(status = NoStatus \/ end <= 0)
  <2> DEFINE low == Clip(status - req[r].to)
             f == [req[r] EXCEPT !.pc = "readItems", !.low = low, !.high = end,
                                 !.covered = covered]
  <2>1. status \in 0..MaxTx /\ end \in Nat /\ low \in Nat
    BY <1>3, <1>4, <1>7 DEF Clip
  <2>2. end = status - req[r].from /\ low = Clip(status - req[r].to)
    OBVIOUS
  <2>3. req' = [req EXCEPT ![r] = f]
    BY <1>1, <1>7
  <2> HIDE DEF low, end
  <2>4. f \in RequestState
    BY <1>2, <1>4, <2>1 DEF RequestState
  <2>5. /\ f.pc = "readItems" /\ f.from = req[r].from /\ f.to = req[r].to
        /\ f.todo = req[r].todo /\ f.total = req[r].total /\ f.withFound = req[r].withFound
        /\ f.low = low /\ f.high = end /\ f.covered = covered
    BY <1>2 DEF RequestState
  <2> HIDE DEF f
  <2>6. PageCallSound(f, Len(ledger))
    BY <1>3, <2>5 DEF PageCallSound
  <2>7. ASSUME mishaps = {} PROVE PageCallInOrder(f, History, found)
    <3>1. f.withFound = found
      BY <1>1, <1>2, <2>5, <2>7 DEF PageCallInOrder
    <3>2. covered <= status /\ status <= Len(History)
      BY <1>7, <2>7 DEF HistoryInv, InOrder, CacheInOrder
    <3>3. status \in covered..Len(History)
      <4>1. Len(History) \in Int
        BY HistoryKnown DEF History
      <4> QED
        BY <1>4, <2>1, <3>2, <4>1
    <3>4. PageAt(f, status)
      BY <2>2, <2>5 DEF PageAt
    <3> QED
      BY <1>3, <2>5, <3>1, <3>3, <3>4 DEF PageCallInOrder
  <2> QED
    BY <1>1, <1>5, <2>3, <2>4, <2>6, <2>7, CacheKept, HandlerGoesOn
<1> QED
  BY <1>6, <1>7

LEMMA ReadItemsStep ==
  ASSUME HistoryInv, NEW r \in Request, ReadItems(r)
  PROVE  HistoryInv'
<1> DEFINE low == req[r].low
           high == req[r].high
           missing == \E p \in low..(high - 1) : p \notin DOMAIN items
           txs == [i \in 1..(high - low) |-> items[high - i]]
<1>1. /\ req[r].pc = "readItems"
      /\ missing => req' = [req EXCEPT ![r] = [@ EXCEPT !.pc = "fetch", !.low = 0, !.high = 0,
                                                        !.covered = 0]]
      /\ ~missing => req' = [req EXCEPT ![r] = [@ EXCEPT !.pc = "answer", !.txs = txs]]
      /\ UNCHANGED <<world, items, status, scan, covered, mishaps>>
  BY DEF ReadItems
<1>2. /\ req[r] \in RequestState /\ PageCallSound(req[r], Len(ledger))
      /\ mishaps = {} => PageCallInOrder(req[r], History, found)
  BY PageCallKnown
<1>3. /\ req[r].from \in Nat /\ req[r].to \in Nat /\ req[r].from < req[r].to
      /\ req[r].todo = {} /\ req[r].total <= Len(ledger)
      /\ low \in Nat /\ high \in Nat /\ req[r].covered \in Nat
  BY <1>1, <1>2 DEF RequestState, PageCallSound
<1>5. mishaps = {} => scan = "idle"
  BY <1>1, ScanWaits
<1>8. req \in [Request -> RequestState]
  BY DEF HistoryInv, HistoryTypeOK
<1>6. CASE missing
  <2> DEFINE f == [req[r] EXCEPT !.pc = "fetch", !.low = 0, !.high = 0, !.covered = 0]
  <2>1. f \in RequestState
    BY <1>2 DEF RequestState
  <2>2. /\ f.pc = "fetch" /\ f.from = req[r].from /\ f.to = req[r].to /\ f.todo = req[r].todo
        /\ f.total = req[r].total /\ f.withFound = req[r].withFound
    BY <1>2 DEF RequestState
  <2>5. req' = [req EXCEPT ![r] = f]
    BY <1>1, <1>6, <1>8
  <2> HIDE DEF f
  <2>3. PageCallSound(f, Len(ledger))
    BY <1>3, <2>2 DEF PageCallSound
  <2>4. mishaps = {} => PageCallInOrder(f, History, found)
    BY <1>1, <1>2, <1>3, <2>2 DEF PageCallInOrder
  <2> QED
    BY <1>1, <1>5, <2>1, <2>3, <2>4, <2>5, CacheKept, HandlerGoesOn
<1>7. CASE ~missing
  <2> DEFINE f == [req[r] EXCEPT !.pc = "answer", !.txs = txs]
  <2>1. /\ MaxTx \in Nat /\ Len(ledger) \in 0..MaxTx
        /\ \A p \in DOMAIN items : items[p] \in 1..Len(ledger)
    BY HistoryKnown DEF HistoryInv, HistoryTypeOK
  <2>2. \A i \in 1..(high - low) : high - i \in DOMAIN items
    <3>1. \A p \in low..(high - 1) : p \in DOMAIN items
      BY <1>7
    <3> HIDE DEF low, high
    <3>2. \A i \in 1..(high - low) : high - i \in low..(high - 1)
      BY <1>3
    <3> QED
      BY <3>1, <3>2
  <2>3. txs \in Seq(1..MaxTx)
    <3> HIDE DEF low, high
    <3>1. \A i \in 1..(high - low) : items[high - i] \in 1..MaxTx
      <4>1. 1..Len(ledger) \subseteq 1..MaxTx
        BY <2>1
      <4> QED
        BY <2>1, <2>2, <4>1
    <3>2. high - low \in Int
      BY <1>3
    <3> DEFINE d == IF high >= low THEN high - low ELSE 0
    <3>3. d \in Nat /\ 1..(high - low) = 1..d
      BY <1>3
    <3> HIDE DEF d
    <3>4. txs \in [1..d -> 1..MaxTx]
      BY <3>1, <3>3
    <3> HIDE DEF txs
    <3>5. \A S : [1..d -> S] \subseteq Seq(S)
      BY <3>3
    <3> QED
      BY <3>4, <3>5
  <2>4. req' = [req EXCEPT ![r] = f]
    BY <1>1, <1>7, <1>8
  <2>8. txs = [i \in 1..(high - low) |-> items[high - i]]
    OBVIOUS
  <2> HIDE DEF txs
  <2>5. f \in RequestState
    BY <1>2, <2>3 DEF RequestState
  <2>6. /\ f.pc = "answer" /\ f.from = req[r].from /\ f.to = req[r].to
        /\ f.todo = req[r].todo /\ f.total = req[r].total /\ f.covered = req[r].covered
        /\ f.txs = txs
    BY <1>2 DEF RequestState
  <2> HIDE DEF f
  <2>7. PageCallSound(f, Len(ledger))
    BY <1>3, <2>6 DEF PageCallSound
  <2>9. ASSUME mishaps = {} PROVE PageCallInOrder(f, History, found)
    <3>1. PICK n \in req[r].covered..Len(History) : PageAt(req[r], n)
      BY <1>1, <1>2, <2>9 DEF PageCallInOrder
    <3> DEFINE short == SubSeq(History, 1, n)
               last == Len(short) - f.from
               start == Clip(Len(short) - f.to)
    <3>2. History \in Seq(1..Len(ledger)) /\ Len(History) \in Nat
      BY HistoryKnown DEF History
    <3>3. /\ n \in Nat /\ n <= Len(History)
          /\ high = n - req[r].from /\ low = Clip(n - req[r].to)
      BY <1>3, <3>1, <3>2 DEF PageAt
    <3>4. /\ short \in Seq(1..Len(ledger)) /\ Len(short) = n
          /\ \A i \in 1..n : short[i] = History[i]
      BY <3>2, <3>3
    <3> HIDE DEF short
    <3>5. start = low /\ last = high
      <4>1. Len(short) = n /\ f.from = req[r].from /\ f.to = req[r].to
        BY <2>6, <3>4
      <4> QED
        BY <3>3, <4>1, Zenon
    <3>9. n \in Nat /\ low \in Nat /\ high \in Nat /\ high <= n
      <4> DEFINE from == req[r].from
      <4>1. /\ high = n - from /\ from \in Nat /\ n \in Nat
            /\ low \in Nat /\ high \in Nat
        BY <1>3, <3>3
      <4> HIDE DEF low, high, from
      <4>2. n - from <= n
        BY <4>1
      <4> QED
        BY <4>1, <4>2
    <3>6. PageOf(short, f.from, f.to) = [i \in 1..(last - start) |-> short[(last - i) + 1]]
      <4>1. f.from \in Nat /\ f.to \in Nat /\ f.from < f.to
        BY <1>3, <2>6
      <4> QED
        BY <3>4, <4>1, PageItems
    <3> HIDE DEF low, high, last, start
    <3>7. \A i \in 1..(high - low) : items[high - i] = short[(high - i) + 1]
      <4> SUFFICES ASSUME NEW i \in 1..(high - low)
                   PROVE  items[high - i] = short[(high - i) + 1]
        OBVIOUS
      <4>1. high - i \in DOMAIN items
        BY <2>2
      <4>2. items[high - i] = History[(high - i) + 1]
        BY <2>9, <4>1 DEF HistoryInv, InOrder, CacheInOrder, InPlace
      <4>3. high <= n /\ (high - i) + 1 \in 1..n
        BY <3>9
      <4> QED
        BY <3>4, <4>2, <4>3
    <3>8. f.txs = PageOf(short, f.from, f.to)
      BY <2>6, <2>8, <3>5, <3>6, <3>7
    <3> QED
      BY <1>3, <2>6, <3>1, <3>8 DEF PageCallInOrder, short
  <2> QED
    BY <1>1, <1>5, <2>4, <2>5, <2>7, <2>9, CacheKept, HandlerGoesOn
<1> QED
  BY <1>6, <1>7

LEMMA GetTransactionsStep ==
  ASSUME HistoryInv, NEW r \in Request, GetTransactions(r)
  PROVE  HistoryInv'
<1> DEFINE history == HistoryOf(req[r].withFound)
           total == Len(history)
           todo == Positions(PageOf(history, req[r].from, req[r].to), Clip(total - req[r].to))
           f == [Idle EXCEPT !.pc = "store", !.total = total, !.todo = todo,
                             !.covered = covered]
<1>1. /\ req[r].pc = "fetch"
      /\ req' = [req EXCEPT ![r] = IF todo = {} THEN Idle ELSE f]
      /\ UNCHANGED <<world, items, status, scan, covered, mishaps>>
  BY DEF GetTransactions
<1>2. /\ req[r] \in RequestState /\ PageCallSound(req[r], Len(ledger))
      /\ mishaps = {} => PageCallInOrder(req[r], History, found)
  BY PageCallKnown
<1>3. req[r].from \in Nat /\ req[r].to \in Nat /\ req[r].from < req[r].to
  BY <1>1, <1>2 DEF RequestState, PageCallSound
<1>4. mishaps = {} => scan = "idle"
  BY <1>1, ScanWaits
<1>5. /\ MaxTx \in Nat /\ Len(ledger) \in 0..MaxTx /\ deep \in Nat
      /\ history \in Seq(1..Len(ledger)) /\ total \in 0..Len(ledger)
      /\ \A i, j \in 1..Len(history) : i < j => history[i] < history[j]
  BY HistoryKnown
<1>6. \A item \in todo : \E p \in 0..(total - 1) : item = <<p, history[p + 1]>>
  <2>1. Len(ledger) \in Nat
    BY <1>5
  <2> HIDE DEF history
  <2> QED
    BY <1>3, <1>5, <2>1, PositionsOf
<1>7. covered \in Nat /\ covered <= Len(History)
  BY DEF HistoryInv, HistoryTypeOK
<1>8. mishaps = {} => history = History
  BY <1>1, <1>2 DEF PageCallInOrder, History
<1> HIDE DEF history, total, todo
<1>9. \A item \in todo :
        /\ item \in (0..(MaxTx - 1)) \X (1..MaxTx)
        /\ item[2] <= Len(ledger)
        /\ InPlace(item[1], item[2], history)
  <2> SUFFICES ASSUME NEW item \in todo
               PROVE  /\ item \in (0..(MaxTx - 1)) \X (1..MaxTx)
                      /\ item[2] <= Len(ledger)
                      /\ InPlace(item[1], item[2], history)
    OBVIOUS
  <2>1. PICK p \in 0..(total - 1) : item = <<p, history[p + 1]>>
    BY <1>6
  <2>2. total = Len(history)
    BY DEF total
  <2>3. p + 1 \in 1..Len(history) /\ p < Len(history) /\ p \in 0..(MaxTx - 1)
    BY <1>5, <2>1, <2>2
  <2>4. history[p + 1] \in 1..Len(ledger)
    BY <1>5, <2>3
  <2>5. history[p + 1] \in 1..MaxTx /\ history[p + 1] <= Len(ledger)
    BY <1>5, <2>4
  <2> QED
    BY <2>1, <2>3, <2>5 DEF InPlace
<1>10. CASE todo = {}
  BY <1>1, <1>4, <1>10, IdleIsFine, CacheKept, HandlerGoesOn
<1>11. CASE todo # {}
  <2>1. f \in RequestState
    <3>1. Idle \in RequestState
      BY IdleIsFine
    <3>2. todo \in SUBSET ((0..(MaxTx - 1)) \X (1..MaxTx)) /\ total \in Nat
      BY <1>5, <1>9
    <3> QED
      BY <1>7, <3>1, <3>2 DEF RequestState
  <2>2. f.pc = "store" /\ f.total = total /\ f.todo = todo /\ f.covered = covered
    BY DEF Idle
  <2>3. req' = [req EXCEPT ![r] = f]
    BY <1>1, <1>11
  <2> HIDE DEF f
  <2>4. PageCallSound(f, Len(ledger))
    BY <1>5, <1>9, <2>2 DEF PageCallSound
  <2>5. mishaps = {} => PageCallInOrder(f, History, found)
    <3> SUFFICES ASSUME mishaps = {} PROVE PageCallInOrder(f, History, found)
      OBVIOUS
    <3>1. \A item \in f.todo : InPlace(item[1], item[2], History)
      BY <1>8, <1>9, <2>2
    <3>2. f.total = Len(History)
      BY <1>8, <2>2 DEF total
    <3>3. f.covered <= f.total /\ f.total <= Len(History)
      BY <1>5, <1>7, <1>8, <2>2, <3>2
    <3> QED
      BY <2>2, <3>1, <3>3 DEF PageCallInOrder
  <2> QED
    BY <1>1, <1>4, <2>1, <2>3, <2>4, <2>5, CacheKept, HandlerGoesOn
<1> QED
  BY <1>10, <1>11

LEMMA StoreItemStep ==
  ASSUME HistoryInv, NEW r \in Request, NEW item \in req[r].todo, StoreItem(r, item)
  PROVE  HistoryInv'
<1> DEFINE f == [req[r] EXCEPT !.todo = @ \ {item}]
<1>1. /\ req[r].pc = "store"
      /\ items' = [p \in DOMAIN items \cup {item[1]} |->
                     IF p = item[1] THEN item[2] ELSE items[p]]
      /\ req' = [req EXCEPT ![r].todo = @ \ {item}]
      /\ UNCHANGED <<world, status, scan, covered, mishaps>>
  BY DEF StoreItem
<1>2. /\ req[r] \in RequestState /\ PageCallSound(req[r], Len(ledger))
      /\ mishaps = {} => PageCallInOrder(req[r], History, found)
  BY PageCallKnown
<1>3. mishaps = {} => scan = "idle"
  BY <1>1, ScanWaits
<1>4. f \in RequestState
  BY <1>2 DEF RequestState
<1>5. /\ f.pc = "store" /\ f.total = req[r].total /\ f.todo = req[r].todo \ {item}
      /\ f.covered = req[r].covered
  BY <1>1, <1>2 DEF RequestState
<1>6. req' = [req EXCEPT ![r] = f]
  BY <1>1, <1>2 DEF RequestState
<1> HIDE DEF f
<1>7. PageCallSound(f, Len(ledger))
  BY <1>2, <1>5 DEF PageCallSound
<1>8. mishaps = {} => PageCallInOrder(f, History, found)
  BY <1>1, <1>2, <1>5 DEF PageCallInOrder
<1>9. /\ item[1] \in 0..(MaxTx - 1) /\ item[2] \in 1..MaxTx /\ item[2] <= Len(ledger)
      /\ mishaps = {} => InPlace(item[1], item[2], History)
  BY <1>2 DEF RequestState, PageCallSound, PageCallInOrder
<1>10. /\ DOMAIN items' = {item[1]} \cup DOMAIN items
       /\ \A p \in DOMAIN items' : items'[p] = IF p = item[1] THEN item[2] ELSE items[p]
  BY <1>1
<1>11. CacheTyped(items, status, covered, Len(ledger)) /\ covered <= Len(History)
  BY CacheKept
<1>12. CacheTyped(items', status', covered', Len(ledger))
  <2>1. item[2] \in 1..Len(ledger)
    BY <1>9, HistoryKnown
  <2>2. \A p \in DOMAIN items' : items'[p] \in 1..Len(ledger)
    BY <1>10, <1>11, <2>1 DEF CacheTyped
  <2>3. DOMAIN items' \subseteq 0..(MaxTx - 1)
    BY <1>9, <1>10, <1>11 DEF CacheTyped
  <2> QED
    BY <1>1, <1>11, <2>2, <2>3 DEF CacheTyped
<1>13. mishaps = {} => CacheInOrder(items', status', covered', History)
  <2> SUFFICES ASSUME mishaps = {} PROVE CacheInOrder(items', status', covered', History)
    OBVIOUS
  <2>1. CacheInOrder(items, status, covered, History)
    BY CacheKept
  <2>2. \A p \in DOMAIN items' : InPlace(p, items'[p], History)
    BY <1>9, <1>10, <2>1 DEF CacheInOrder
  <2> QED
    BY <1>1, <2>1, <2>2 DEF CacheInOrder
<1> QED
  BY <1>1, <1>3, <1>4, <1>6, <1>7, <1>8, <1>11, <1>12, <1>13, HandlerGoesOn

LEMMA StoreStatusStep ==
  ASSUME HistoryInv, NEW r \in Request, StoreStatus(r)
  PROVE  HistoryInv'
<1>1. /\ req[r].pc = "store"
      /\ status' = req[r].total
      /\ covered' = IF covered = req[r].covered THEN covered ELSE 0
      /\ req' = [req EXCEPT ![r] = Idle]
      /\ UNCHANGED <<world, items, scan, mishaps>>
  BY DEF StoreStatus
<1>2. /\ req[r] \in RequestState /\ PageCallSound(req[r], Len(ledger))
      /\ mishaps = {} => PageCallInOrder(req[r], History, found)
  BY PageCallKnown
<1>3. mishaps = {} => scan = "idle"
  BY <1>1, ScanWaits
<1>4. /\ CacheTyped(items, status, covered, Len(ledger)) /\ covered <= Len(History)
      /\ mishaps = {} => CacheInOrder(items, status, covered, History)
  BY CacheKept
<1>5. /\ MaxTx \in Nat /\ Len(ledger) \in 0..MaxTx /\ Len(History) \in Nat
      /\ req[r].total \in Nat /\ req[r].total <= Len(ledger)
  BY <1>2, HistoryKnown DEF RequestState, PageCallSound, History
<1>6. CacheTyped(items', status', covered', Len(ledger))
  BY <1>1, <1>4, <1>5 DEF CacheTyped
<1>7. covered' <= Len(History)
  BY <1>1, <1>4, <1>5
<1>8. ASSUME mishaps = {} PROVE CacheInOrder(items', status', covered', History)
  <2>1. req[r].covered <= req[r].total /\ req[r].total <= Len(History)
    BY <1>1, <1>2, <1>8 DEF PageCallInOrder
  <2>2. covered' <= status' /\ status' <= Len(History)
    BY <1>1, <1>5, <2>1
  <2> QED
    BY <1>1, <1>4, <1>8, <2>2 DEF CacheInOrder
<1> QED
  BY <1>1, <1>3, <1>6, <1>7, <1>8, IdleIsFine, HandlerGoesOn

\* The network and the events move the ledger on, and the cache only by dropping
\* the status.
LEMMA WorldMoves ==
  ASSUME HistoryInv,
         ledger' \in Seq({"listed", "found"}),
         Len(ledger) <= Len(ledger'), Len(ledger') <= MaxTx,
         Continues(History', History),
         deep' \in 0..Len(ledger'), resets' \in Nat, resets' <= Len(ledger'),
         \/ status' \in {status, NoStatus} /\ covered' = covered
         \/ status' = NoStatus /\ covered' = Len(History),
         UNCHANGED <<found, items, scan, req, mishaps>>
  PROVE  HistoryInv'
<1>1. /\ MaxTx \in Nat /\ Len(ledger) \in 0..MaxTx
      /\ History \in Seq(1..Len(ledger)) /\ Len(History) \in 0..Len(ledger)
  BY HistoryKnown DEF History
<1>2. Len(ledger') \in 0..MaxTx
  BY <1>1
<1>3. History' \in Seq(1..Len(ledger')) /\ Len(History') <= Len(ledger')
  <2>1. History' = HistoryIn(ledger', found')
    BY DEF History, HistoryOf, HistoryIn
  <2> QED
    BY <2>1, HistoryRises
<1>4. /\ Len(History) <= Len(History') /\ Len(History') \in 0..MaxTx
      /\ History \in Seq(1..MaxTx) /\ History' \in Seq(1..MaxTx)
  <2>1. Len(History) <= Len(History') /\ Len(History') \in Nat
    BY <1>3 DEF Continues
  <2>2. 1..Len(ledger) \subseteq 1..MaxTx /\ 1..Len(ledger') \subseteq 1..MaxTx
    BY <1>1, <1>2
  <2>3. \A S, T : S \subseteq T => Seq(S) \subseteq Seq(T)
    OBVIOUS
  <2> QED
    BY <1>1, <1>2, <1>3, <2>1, <2>2, <2>3
<1>5. /\ req \in [Request -> RequestState] /\ covered \in 0..MaxTx /\ covered <= Len(History)
      /\ status \in 0..MaxTx \cup {NoStatus}
      /\ DOMAIN items \subseteq 0..(MaxTx - 1)
      /\ \A p \in DOMAIN items : items[p] \in 1..Len(ledger)
      /\ scan \in {"idle", "clearStatus", "derive"} /\ found \in BOOLEAN /\ mishaps \in Modes
  BY DEF HistoryInv, HistoryTypeOK
<1>6. covered' \in 0..MaxTx /\ covered' <= Len(History') /\ status' \in 0..MaxTx \cup {NoStatus}
  <2>1. covered' \in {covered, Len(History)} /\ status' \in {status, NoStatus}
    OBVIOUS
  <2> QED
    BY <1>1, <1>4, <1>5, <2>1
<1>7. HistoryTypeOK'
  <2>1. resets' \in 0..MaxTx
    BY <1>1, <1>2
  <2>2. \A p \in DOMAIN items' : items'[p] \in 1..Len(ledger')
    BY <1>1, <1>2, <1>5
  <2>3. DOMAIN items' \subseteq 0..(MaxTx - 1)
    BY <1>5
  <2>4. req' \in [Request -> RequestState]
    BY <1>5
  <2>5. found' \in BOOLEAN /\ mishaps' \in Modes /\ scan' \in {"idle", "clearStatus", "derive"}
    BY <1>5, Zenon
  <2> QED
    BY <1>6, <2>1, <2>2, <2>3, <2>4, <2>5, Zenon DEF HistoryTypeOK
<1>8. \A r \in Request : PageCallSound(req'[r], Len(ledger'))
  <2> SUFFICES ASSUME NEW r \in Request PROVE PageCallSound(req[r], Len(ledger'))
    OBVIOUS
  <2>1. PageCallSound(req[r], Len(ledger)) /\ req[r] \in RequestState
    BY <1>5 DEF HistoryInv
  <2>2. /\ req[r].total \in Nat
        /\ \A item \in req[r].todo : item[2] \in Int
    BY <2>1 DEF RequestState
  <2> QED
    BY <1>1, <1>2, <2>1, <2>2 DEF PageCallSound
<1>9. ASSUME mishaps = {} PROVE InOrder'
  <2>1. InOrder
    BY <1>9 DEF HistoryInv
  <2>2. CacheInOrder(items', status', covered', History')
    <3>1. CacheInOrder(items, status, covered, History)
      BY <2>1 DEF InOrder
    <3>2. DOMAIN items \subseteq Nat /\ status \in Nat \cup {NoStatus}
      BY <1>5
    <3>3. CacheInOrder(items, status, covered, History')
      BY <1>4, <3>1, <3>2, CacheLasts
    <3> QED
      BY <3>3 DEF CacheInOrder
  <2>3. \A r \in Request : PageCallInOrder(req'[r], History', found')
    <3> SUFFICES ASSUME NEW r \in Request PROVE PageCallInOrder(req[r], History', found)
      BY Zenon
    <3>1. PageCallInOrder(req[r], History, found) /\ req[r] \in RequestState
      BY <1>5, <2>1 DEF InOrder
    <3> QED
      BY <1>4, <3>1, OrderLasts
  <2>4. scan' # "idle" => AllIdle' /\ DOMAIN items' = {}
    BY <2>1 DEF InOrder, AllIdle
  <2>5. scan' = "derive" => status' = NoStatus
    BY <2>1 DEF InOrder
  <2> QED
    BY <2>2, <2>3, <2>4, <2>5, Zenon DEF InOrder
<1> QED
  BY <1>6, <1>7, <1>8, <1>9, Zenon DEF HistoryInv

LEMMA NewTxStep ==
  ASSUME HistoryInv, NEW kind \in {"listed", "found"}, NEW noticed \in BOOLEAN,
         NewTx(kind, noticed)
  PROVE  HistoryInv'
<1>1. /\ Len(ledger) < MaxTx /\ ledger' = Append(ledger, kind)
      /\ resets' = IF noticed THEN resets + 1 ELSE resets
      /\ UNCHANGED <<deep, found, items, status, scan, covered, req, mishaps>>
  BY DEF NewTx
<1>2. /\ MaxTx \in Nat /\ Len(ledger) \in 0..MaxTx /\ ledger \in Seq({"listed", "found"})
      /\ deep \in 0..Len(ledger) /\ History \in Seq(1..Len(ledger)) /\ Len(History) \in Nat
      /\ resets \in Nat /\ resets <= Len(ledger)
  BY HistoryKnown DEF History, HistoryInv, HistoryTypeOK
<1>3. /\ ledger' \in Seq({"listed", "found"}) /\ Len(ledger') = Len(ledger) + 1
  BY <1>1, <1>2
<1>4. Continues(History', History)
  <2>1. History = HistoryIn(ledger, found) /\ History' = HistoryIn(ledger', found)
    BY <1>1 DEF History, HistoryOf, HistoryIn
  <2>2. History' \in {History, Append(History, Len(ledger) + 1)}
    BY <1>1, <1>2, <2>1, HistoryGrows
  <2>3. CASE History' = History
    BY <1>2, <2>3 DEF Continues
  <2>4. CASE History' = Append(History, Len(ledger) + 1)
    <3>1. History \in Seq(Nat) /\ Len(ledger) + 1 \in Nat
      <4>1. 1..Len(ledger) \subseteq Nat
        BY <1>2
      <4>2. \A S, T : S \subseteq T => Seq(S) \subseteq Seq(T)
        OBVIOUS
      <4> QED
        BY <1>2, <4>1, <4>2
    <3> DEFINE h == History
               x == Len(ledger) + 1
    <3> HIDE DEF h, x
    <3>2. ASSUME h \in Seq(Nat), x \in Nat
          PROVE  Len(Append(h, x)) = Len(h) + 1 /\ Len(h) \in Nat
                 /\ \A i \in 1..Len(h) : Append(h, x)[i] = h[i]
      BY <3>2
    <3> QED
      BY <2>4, <3>1, <3>2 DEF Continues, h, x
  <2> QED
    BY <2>2, <2>3, <2>4
<1>5. deep' \in 0..Len(ledger') /\ resets' \in Nat /\ resets' <= Len(ledger')
  BY <1>1, <1>2, <1>3
<1>6. Len(ledger) <= Len(ledger') /\ Len(ledger') <= MaxTx
  BY <1>1, <1>2, <1>3
<1> QED
  BY <1>1, <1>3, <1>4, <1>5, <1>6, WorldMoves

LEMMA NewBlockStep ==
  ASSUME HistoryInv, NewBlock
  PROVE  HistoryInv'
<1>1. /\ deep < Len(ledger) /\ deep' = deep + 1 /\ status' \in {status, NoStatus}
      /\ UNCHANGED <<ledger, found, resets, items, scan, covered, req, mishaps>>
  BY DEF NewBlock
<1>2. /\ MaxTx \in Nat /\ Len(ledger) \in 0..MaxTx /\ ledger \in Seq({"listed", "found"})
      /\ deep \in 0..Len(ledger) /\ Len(History) \in Nat
      /\ resets \in Nat /\ resets <= Len(ledger)
  BY HistoryKnown DEF History, HistoryInv, HistoryTypeOK
<1>3. Continues(History', History)
  <2>1. History' = History
    BY <1>1 DEF History, HistoryOf
  <2> QED
    BY <1>2, <2>1 DEF Continues
<1>4. deep' \in 0..Len(ledger') /\ Len(ledger) <= Len(ledger') /\ Len(ledger') <= MaxTx
  BY <1>1, <1>2
<1> QED
  BY <1>1, <1>2, <1>3, <1>4, WorldMoves

LEMMA SoftResetStep ==
  ASSUME HistoryInv, SoftReset
  PROVE  HistoryInv'
<1>1. /\ resets > 0 /\ resets' = resets - 1 /\ status' = NoStatus /\ covered' = Len(History)
      /\ UNCHANGED <<ledger, deep, found, items, scan, req, mishaps>>
  BY DEF SoftReset
<1>2. /\ MaxTx \in Nat /\ Len(ledger) \in 0..MaxTx /\ ledger \in Seq({"listed", "found"})
      /\ deep \in 0..Len(ledger) /\ Len(History) \in Nat
      /\ resets \in Nat /\ resets <= Len(ledger)
  BY HistoryKnown DEF History, HistoryInv, HistoryTypeOK
<1>3. Continues(History', History)
  <2>1. History' = History
    BY <1>1 DEF History, HistoryOf
  <2> QED
    BY <1>2, <2>1 DEF Continues
<1>4. /\ resets' \in Nat /\ resets' <= Len(ledger') /\ deep' \in 0..Len(ledger')
      /\ Len(ledger) <= Len(ledger') /\ Len(ledger') <= MaxTx
  BY <1>1, <1>2
<1> QED
  BY <1>1, <1>2, <1>3, <1>4, WorldMoves

\* A scan moves the cache and the addresses only when there is no call, if
\* nothing goes wrong.
LEMMA ScanMoves ==
  ASSUME HistoryInv,
         UNCHANGED <<ledger, deep, resets, covered, req, mishaps>>,
         found' \in {TRUE, found},
         items' = items \/ DOMAIN items' = {},
         status' \in {status, NoStatus},
         scan' \in {"idle", "clearStatus", "derive"},
         mishaps = {} =>
           /\ AllIdle /\ DOMAIN items' = {}
           /\ scan' = "derive" => status' = NoStatus
           /\ found' # found => status' = NoStatus
  PROVE  HistoryInv'
<1>1. /\ MaxTx \in Nat /\ Len(ledger) \in 0..MaxTx /\ ledger \in Seq({"listed", "found"})
      /\ Len(History) \in 0..Len(ledger)
  BY HistoryKnown DEF History
<1>2. /\ req \in [Request -> RequestState] /\ covered \in 0..MaxTx /\ covered <= Len(History)
      /\ status \in 0..MaxTx \cup {NoStatus}
      /\ DOMAIN items \subseteq 0..(MaxTx - 1)
      /\ \A p \in DOMAIN items : items[p] \in 1..Len(ledger)
      /\ found \in BOOLEAN /\ mishaps \in Modes
      /\ ledger \in Seq({"listed", "found"}) /\ Len(ledger) <= MaxTx
      /\ deep \in 0..Len(ledger) /\ resets \in 0..MaxTx /\ resets <= Len(ledger)
      /\ \A r \in Request : PageCallSound(req[r], Len(ledger))
  BY DEF HistoryInv, HistoryTypeOK
<1>3. History' = HistoryOf(found')
  BY DEF History, HistoryOf
<1>4. Len(History) <= Len(History') /\ Len(History') \in Nat
  <2>1. CASE found' = found
    BY <1>1, <1>3, <2>1 DEF History
  <2>2. CASE found' = TRUE
    <3>1. HistoryOf(TRUE) = HistoryIn(ledger, TRUE)
      BY DEF HistoryOf, HistoryIn
    <3>2. HistoryOf(TRUE) = [i \in 1..Len(ledger) |-> i]
      BY <1>1, <3>1, HistoryOfAll
    <3> DEFINE n == Len(ledger)
               all == [i \in 1..n |-> i]
    <3>3. n \in Nat /\ \A S : [1..n -> S] \subseteq Seq(S)
      BY <1>1
    <3>4. all \in [1..n -> 1..n] /\ DOMAIN all = 1..n
      OBVIOUS
    <3>5. History' = all
      BY <1>3, <2>2, <3>2
    <3> HIDE DEF n, all
    <3>6. Len(all) \in Nat /\ DOMAIN all = 1..Len(all)
      BY <3>3, <3>4
    <3>7. Len(all) = n
      BY <3>3, <3>4, <3>6
    <3>8. Len(History) <= n
      BY <1>1 DEF n
    <3> QED
      BY <3>3, <3>5, <3>7, <3>8
  <2> QED
    BY <2>1, <2>2
<1>5. HistoryTypeOK'
  <2>1. found' \in BOOLEAN
    BY <1>2, Zenon
  <2>2. DOMAIN items' \subseteq 0..(MaxTx - 1) /\ \A p \in DOMAIN items' : items'[p] \in 1..Len(ledger')
    BY <1>2
  <2>3. status' \in 0..MaxTx \cup {NoStatus}
    BY <1>2
  <2> QED
    BY <1>2, <2>1, <2>2, <2>3, Zenon DEF HistoryTypeOK
<1>6. ASSUME mishaps = {} PROVE InOrder'
  <2>1. AllIdle' /\ DOMAIN items' = {}
    BY <1>6 DEF AllIdle
  <2>2. CacheInOrder(items', status', covered', History')
    <3>1. status # NoStatus => covered <= status /\ status <= Len(History)
      BY <1>6 DEF HistoryInv, InOrder, CacheInOrder
    <3>2. status' # NoStatus => covered <= status' /\ status' <= Len(History')
      <4> SUFFICES ASSUME status' # NoStatus
                   PROVE  covered <= status' /\ status' <= Len(History')
        OBVIOUS
      <4>1. status' = status /\ found' = found
        BY <1>6, Zenon
      <4>2. History' = History
        BY <1>3, <4>1 DEF History
      <4> QED
        BY <3>1, <4>1, <4>2
    <3> QED
      BY <2>1, <3>2 DEF CacheInOrder
  <2>3. ASSUME NEW r \in Request PROVE PageCallInOrder(req'[r], History', found')
    <3>1. req'[r] = req[r] /\ req[r].pc = "idle" /\ req[r].todo = {}
      BY <1>2, <1>6 DEF AllIdle, PageCallSound
    <3> QED
      BY <3>1 DEF PageCallInOrder
  <2>4. scan' = "derive" => status' = NoStatus
    BY <1>6
  <2> QED
    BY <2>1, <2>2, <2>3, <2>4, Zenon DEF InOrder
<1>7. covered' <= Len(History')
  BY <1>1, <1>2, <1>4
<1>8. resets' <= Len(ledger') /\ \A r \in Request : PageCallSound(req'[r], Len(ledger'))
  BY <1>2
<1> QED
  BY <1>5, <1>6, <1>7, <1>8, Zenon DEF HistoryInv

LEMMA ScanSteps ==
  ASSUME HistoryInv, ScanClearItems \/ ScanClearStatus \/ StoreAddresses
  PROVE  HistoryInv'
<1>0. scan \in {"idle", "clearStatus", "derive"}
  BY DEF HistoryInv, HistoryTypeOK
<1>1. mishaps = {} => InOrder
  BY DEF HistoryInv
<1>2. CASE ScanClearItems
  <2>1. /\ "scanOverlaps" \in mishaps \/ AllIdle
        /\ items' \in {[p \in {} |-> 0]} \cup (IF "clearFails" \in mishaps THEN {items} ELSE {})
        /\ scan' = "clearStatus"
        /\ UNCHANGED <<ledger, deep, found, resets, status, covered, req, mishaps>>
    BY <1>2 DEF ScanClearItems, world
  <2>2. items' = items \/ items' = [p \in {} |-> 0]
    BY <2>1
  <2>3. DOMAIN [p \in {} |-> 0] = {}
    OBVIOUS
  <2>4. mishaps = {} => AllIdle /\ items' = [p \in {} |-> 0]
    BY <2>1
  <2>5. items' = items \/ DOMAIN items' = {}
    BY <2>2, <2>3
  <2>6. mishaps = {} => AllIdle /\ DOMAIN items' = {} /\ scan' # "derive" /\ found' = found
    BY <2>1, <2>3, <2>4
  <2> HIDE <2>2, <2>3, <2>4
  <2> QED
    BY <2>1, <2>5, <2>6, ScanMoves
<1>3. CASE ScanClearStatus
  <2>1. /\ scan = "clearStatus" /\ scan' = "derive"
        /\ status' \in {NoStatus} \cup (IF "clearFails" \in mishaps THEN {status} ELSE {})
        /\ UNCHANGED <<ledger, deep, found, resets, items, covered, req, mishaps>>
    BY <1>3 DEF ScanClearStatus, world
  <2>2. status' \in {status, NoStatus} /\ found' \in {TRUE, found}
    BY <2>1
  <2>3. mishaps = {} => AllIdle /\ DOMAIN items' = {} /\ status' = NoStatus /\ found' = found
    BY <1>1, <2>1 DEF InOrder
  <2> QED
    BY <2>1, <2>2, <2>3, ScanMoves
<1>4. CASE StoreAddresses
  <2>1. /\ scan = "derive" \/ "usedAddress" \in mishaps
        /\ found' \in {TRUE, found}
        /\ scan' = IF scan = "derive" THEN "idle" ELSE scan
        /\ UNCHANGED <<ledger, deep, resets, items, status, covered, req, mishaps>>
    BY <1>4 DEF StoreAddresses
  <2>2. scan' \in {"idle", "clearStatus", "derive"} /\ (scan = "derive" => scan' = "idle")
    BY <1>0, <2>1
  <2>3. mishaps = {} => AllIdle /\ DOMAIN items' = {} /\ scan' = "idle" /\ status' = NoStatus
    BY <1>1, <2>1, <2>2, Zenon DEF InOrder
  <2> QED
    BY <2>1, <2>2, <2>3, ScanMoves
<1> QED
  BY <1>2, <1>3, <1>4

LEMMA HistoryNextHolds == HistoryInv /\ (HistoryNext \/ UNCHANGED historyVars) => HistoryInv'
<1> SUFFICES ASSUME HistoryInv, HistoryNext \/ UNCHANGED historyVars
             PROVE  HistoryInv'
  OBVIOUS
<1>1. CASE \E kind \in {"listed", "found"}, noticed \in BOOLEAN : NewTx(kind, noticed)
  BY <1>1, NewTxStep
<1>2. CASE NewBlock
  BY <1>2, NewBlockStep
<1>3. CASE SoftReset
  BY <1>3, SoftResetStep
<1>4. CASE ScanClearItems \/ ScanClearStatus \/ StoreAddresses
  BY <1>4, ScanSteps
<1>5. ASSUME NEW r \in Request, Handler(r)
      PROVE  HistoryInv'
  <2>1. CASE \E from \in 0..(MaxTx - 1), limit \in PageSize : GetTxHistory(r, from, limit)
    BY <2>1, GetTxHistoryStep
  <2>2. CASE ReadStatus(r)
    BY <2>2, ReadStatusStep
  <2>3. CASE ReadItems(r)
    BY <2>3, ReadItemsStep
  <2>4. CASE GetTransactions(r)
    BY <2>4, GetTransactionsStep
  <2>5. CASE \E item \in req[r].todo : StoreItem(r, item)
    BY <2>5, StoreItemStep
  <2>6. CASE StoreStatus(r)
    BY <2>6, StoreStatusStep
  <2>7. CASE Return(r)
    BY <2>7, ReturnStep
  <2> QED
    BY <1>5, <2>1, <2>2, <2>3, <2>4, <2>5, <2>6, <2>7 DEF Handler
<1>6. CASE UNCHANGED historyVars
  <2>1. /\ ledger' = ledger /\ deep' = deep /\ found' = found /\ resets' = resets
        /\ items' = items /\ status' = status /\ scan' = scan /\ covered' = covered
        /\ req' = req /\ mishaps' = mishaps
    BY <1>6 DEF historyVars
  <2> QED
    BY <2>1 DEF HistoryInv, HistoryTypeOK, InOrder, AllIdle, History, HistoryOf
<1> QED
  BY <1>1, <1>2, <1>3, <1>4, <1>5, <1>6 DEF HistoryNext

-----------------------------------------------------------------------------
(* The behaviours.                                                          *)

\* The inductive invariants of the caches together.
CachesInv == HistoryInv /\ HeightInv /\ BalanceInv /\ story \in Stories

\* They hold in WalletCaches' behaviours, whichever cache one is about.
THEOREM Invariance == Spec => []CachesInv
<1>1. Init => CachesInv
  BY HistoryStarts, HeightStarts, BalanceStarts DEF Init, CachesInv
<1>2. CachesInv /\ [Next]_vars => CachesInv'
  <2>1. [Next]_vars => /\ HistoryNext \/ UNCHANGED historyVars
                       /\ HeightNext \/ UNCHANGED heightVars
                       /\ BalanceNext \/ UNCHANGED balanceVars
                       /\ story' = story
    BY DEF Next, vars
  <2> QED
    BY <2>1, HistoryNextHolds, HeightNextHolds, BalanceNextHolds DEF CachesInv
<1> QED
  BY <1>1, <1>2, PTL DEF Spec

\* The variables of the three caches have their types: no position of the
\* history is negative, and no item is cached that is not of the wallet.
THEOREM TypesHold == Spec => []TypeOK
<1>1. CachesInv => TypeOK
  BY DEF CachesInv, HistoryInv, HeightInv, BalanceInv, TypeOK
<1> QED
  BY <1>1, Invariance, PTL

\* _getBlockchainHeight answers a height the explorer had not long ago, and one
\* that counts the blocks the process was told of.
THEOREM HeightsAreFresh == Spec => []HeightFresh
<1>1. CachesInv => HeightFresh
  BY DEF CachesInv, HeightInv, CacheSound, HeightCallSound, HeightFresh
<1> QED
  BY <1>1, Invariance, PTL

\* getBalance: when all calls are over and nothing moved or failed, the client has
\* the whole balance.
THEOREM BalancesSettle == Spec => []BalanceSettles
<1>1. CachesInv => BalanceSettles
  BY DEF CachesInv, BalanceInv, ShownSettles, SettlesLater, AllAnswered, BalanceSettles
<1> QED
  BY <1>1, Invariance, PTL

\* _getActiveAddresses: a partial balance counts what the cache was last filled with.
THEOREM PartialsCover == Spec => []PartialCovers
<1>1. CachesInv => PartialCovers
  BY DEF CachesInv, BalanceInv, CallSound, PartialCovers
<1> QED
  BY <1>1, Invariance, PTL

\* getTxHistory, storeTxHistoryCache: every cached item is the transaction of its
\* position, however pages, resets and payments interleave, when nothing goes wrong.
THEOREM ItemsStayInPlace == Spec => []ItemsInPlace
<1>1. CachesInv => ItemsInPlace
  BY DEF CachesInv, HistoryInv, InOrder, CacheInOrder, InPlace, ItemsInPlace
<1> QED
  BY <1>1, Invariance, PTL

\* getTxHistory: a page answered from the cache is that page of the history at
\* some total since the last reset the call knows of, when nothing goes wrong.
THEOREM PagesCoverResets == Spec => []PageCoversResets
<1>1. CachesInv => PageCoversResets
  BY DEF CachesInv, HistoryInv, InOrder, PageCallInOrder, PageCoversResets
<1> QED
  BY <1>1, Invariance, PTL

=============================================================================

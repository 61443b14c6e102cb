---------------------------- MODULE HeightCache -----------------------------
(***************************************************************************)
(* The cached height of one blockchain, which every process that serves    *)
(* requests keeps for itself: _getBlockchainHeight of lib/server.js.       *)
(*                                                                         *)
(* getTxHistory counts the confirmations of cached transactions by it.     *)
(* The notification of a new block clears it, and it is good for           *)
(* BLOCKHEIGHT_CACHE_TIME after the explorer was asked; an answer is       *)
(* stored also if the cache was cleared since the question.                *)
(***************************************************************************)
EXTENDS FiniteSetsExt, Integers

CONSTANTS
  BlockheightCacheTime,   \* BLOCKHEIGHT_CACHE_TIME
  MaxHeight, MaxTime,     \* bounds: blocks, and the time that passes
  HeightCall              \* slots for the calls under way

ASSUME HeightCacheAssumption ==
  /\ BlockheightCacheTime \in Nat
  /\ MaxHeight \in Nat
  /\ MaxTime \in Nat

VARIABLES
  height,        \* the height at the explorer
  minute,        \* the time
  heightAt,      \* history: the height when a minute began
  messages,      \* the blocks whose notification is still to come
  cachedHeight,  \* _cachedBlockheight[coin][network]
  heightCall,
  floor          \* history: the last block told while nobody asked

heightVars == <<height, minute, heightAt, messages, cachedHeight, heightCall, floor>>

NoHeight == -1

HeightCallState ==
  [pc: {"idle", "asked", "cached"},
   now: 0..MaxTime,                       \* when it began
   from: 0..MaxHeight,                    \* history: the height then
   answer: 0..MaxHeight \cup {NoHeight}]

NoHeightCall == [pc |-> "idle", now |-> 0, from |-> 0, answer |-> NoHeight]

HeightInit ==
  /\ height = 0
  /\ minute = 0
  /\ heightAt = [m \in 0..MaxTime |-> 0]
  /\ messages = {}
  /\ cachedHeight = [current |-> NoHeight, last |-> NoHeight, updatedOn |-> 0]
  /\ heightCall = [r \in HeightCall |-> NoHeightCall]
  /\ floor = 0

-----------------------------------------------------------------------------

BlockFound ==
  /\ height < MaxHeight
  /\ height' = height + 1
  /\ messages' = messages \cup {height + 1}
  /\ UNCHANGED <<minute, heightAt, cachedHeight, heightCall, floor>>

MinutePasses ==
  /\ minute < MaxTime
  /\ minute' = minute + 1
  /\ heightAt' = [heightAt EXCEPT ![minute + 1] = height]
  /\ UNCHANGED <<height, messages, cachedHeight, heightCall, floor>>

\* handleIncomingNotification and _clearBlockchainHeightCache.
HearBlock(h) ==
  /\ h \in messages
  /\ messages' = messages \ {h}
  /\ cachedHeight' = [cachedHeight EXCEPT !.current = NoHeight]
  /\ floor' = IF \A r \in HeightCall : heightCall[r].pc # "asked" THEN Max({floor, h}) ELSE floor
  /\ UNCHANGED <<height, minute, heightAt, heightCall>>

\* The process was not connected to the broker.
LoseBlock(h) ==
  /\ h \in messages
  /\ messages' = messages \ {h}
  /\ UNCHANGED <<height, minute, heightAt, cachedHeight, heightCall, floor>>

\* _getBlockchainHeight.  A height of zero counts as none.
GetBlockchainHeight(r) ==
  LET old == minute - cachedHeight.updatedOn > BlockheightCacheTime
  IN  /\ heightCall[r].pc = "idle"
      /\ heightCall' = [heightCall EXCEPT ![r] =
           IF cachedHeight.current \in {NoHeight, 0} \/ old
           THEN [@ EXCEPT !.pc = "asked", !.now = minute, !.from = height]
           ELSE [@ EXCEPT !.pc = "cached", !.now = minute, !.answer = cachedHeight.current]]
      /\ UNCHANGED <<height, minute, heightAt, messages, cachedHeight, floor>>

\* Mistake: the answer counts from when it came.
HeightComesNow(r) ==
  /\ heightCall[r].pc = "asked"
  /\ \E h \in heightCall[r].from..height :
       /\ h > 0
       /\ cachedHeight' = [current |-> h, last |-> h, updatedOn |-> minute]
  /\ heightCall' = [heightCall EXCEPT ![r] = NoHeightCall]
  /\ UNCHANGED <<height, minute, heightAt, messages, floor>>

\* The explorer answers the height it had at some time since it was asked.
HeightComes(r) ==
  /\ heightCall[r].pc = "asked"
  /\ \E h \in heightCall[r].from..height :
       /\ h > 0
       /\ cachedHeight' = [current |-> h, last |-> h, updatedOn |-> heightCall[r].now]
  /\ heightCall' = [heightCall EXCEPT ![r] = NoHeightCall]
  /\ UNCHANGED <<height, minute, heightAt, messages, floor>>

\* The end of a call: the cached answer, or, when the explorer failed, "last".
HeightReturn(r) ==
  /\ heightCall[r].pc # "idle"
  /\ heightCall' = [heightCall EXCEPT ![r] = NoHeightCall]
  /\ UNCHANGED <<height, minute, heightAt, messages, cachedHeight, floor>>

HeightNext ==
  \/ BlockFound
  \/ MinutePasses
  \/ \E h \in 1..MaxHeight : HearBlock(h) \/ LoseBlock(h)
  \/ \E r \in HeightCall : GetBlockchainHeight(r) \/ HeightComes(r) \/ HeightReturn(r)

-----------------------------------------------------------------------------

HeightTypeOK ==
  /\ height \in 0..MaxHeight
  /\ minute \in 0..MaxTime
  /\ heightAt \in [0..MaxTime -> 0..MaxHeight]
  /\ messages \subseteq 1..MaxHeight
  /\ cachedHeight \in [current: 0..MaxHeight \cup {NoHeight},
                       last: 0..MaxHeight \cup {NoHeight}, updatedOn: 0..MaxTime]
  /\ heightCall \in [HeightCall -> HeightCallState]
  /\ floor \in 0..MaxHeight

\* The height that _getBlockchainHeight answers from the cache was the
\* explorer's at most BLOCKHEIGHT_CACHE_TIME ago, though explorer's answers
\* come late and out of order and notifications are lost; and it counts every
\* block the process was told of while none of its questions was open.
HeightFresh ==
  /\ cachedHeight.current # NoHeight => cachedHeight.current >= floor
  /\ \A r \in HeightCall :
       heightCall[r].pc = "cached" =>
         heightCall[r].answer >= heightAt[Max({0, heightCall[r].now - BlockheightCacheTime})]

=============================================================================

---------------------------- MODULE WalletCaches ----------------------------
(***************************************************************************)
(* What WalletService keeps so that it need not ask the explorer for all   *)
(* of it: the history and the active addresses of a wallet, in the         *)
(* database, and the height of the blockchain, in the process.  They share *)
(* no state; a behaviour is about one of them.                             *)
(***************************************************************************)
EXTENDS HistoryCache, BalanceCache, HeightCache

CONSTANT Stories    \* the caches to consider: "history", "balance", "height"

VARIABLE story

vars == <<historyVars, balanceVars, heightVars, story>>

Init ==
  /\ story \in Stories
  /\ HistoryInit
  /\ BalanceInit
  /\ story # "balance" => funded = {}
  /\ story # "history" => mishaps = CHOOSE m \in Modes : TRUE
  /\ HeightInit

Next ==
  \/ story = "history" /\ HistoryNext /\ UNCHANGED <<balanceVars, heightVars, story>>
  \/ story = "balance" /\ BalanceNext /\ UNCHANGED <<historyVars, heightVars, story>>
  \/ story = "height" /\ HeightNext /\ UNCHANGED <<historyVars, balanceVars, story>>

Spec == Init /\ [][Next]_vars

\* The types of the variables of the three modules.
TypeOK ==
  /\ HistoryTypeOK
  /\ BalanceTypeOK
  /\ HeightTypeOK
  /\ story \in Stories

=============================================================================

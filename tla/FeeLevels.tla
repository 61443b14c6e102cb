----------------------------- MODULE FeeLevels ------------------------------
(***************************************************************************)
(* getFeeLevels of lib/server.js: what each fee level costs for a kB, from *)
(* the explorer's estimates.                                               *)
(*                                                                         *)
(* An estimate is a fee for each number of blocks the code asks for, or    *)
(* Failed for those the explorer answers with less than 0; NoAnswer stands *)
(* for a request that failed as a whole.  Fees are satoshis for a kB.      *)
(***************************************************************************)
EXTENDS Integers, Sequences, FiniteSetsExt

CONSTANTS
  FEE_LEVELS,           \* Defaults.FEE_LEVELS of the wallet's coin
  FEE_LEVELS_FALLBACK   \* Defaults.FEE_LEVELS_FALLBACK

Failed == -1
NoAnswer == <<>>
NoBlocks == 0           \* nbBlocks: null

\* tenths is ten times the level's multiplier.
Level == [name: STRING, nbBlocks: Nat \ {0}, tenths: Nat, defaultValue: Nat]

ASSUME FeeLevelsAssumption ==
  /\ FEE_LEVELS_FALLBACK \in Nat
  /\ FEE_LEVELS \in Seq(Level)

Asked(level) == level.nbBlocks .. level.nbBlocks + FEE_LEVELS_FALLBACK

SamplePoints == UNION {Asked(FEE_LEVELS[i]) : i \in DOMAIN FEE_LEVELS}

\* The first point at or after the level's own that has an estimate.
GetFeeLevel(feeSamples, level) ==
  LET answered == {n \in Asked(level) : feeSamples[n] >= 0}
  IN  IF answered = {}
        THEN [feePerKb |-> level.defaultValue, nbBlocks |-> NoBlocks]
        ELSE [feePerKb |-> feeSamples[Min(answered)], nbBlocks |-> Min(answered)]

\* The multiplier applies to a default of one level, not when the whole
\* request failed.
LevelValue(feeSamples, level) ==
  IF feeSamples = NoAnswer
    THEN level.defaultValue
    ELSE (GetFeeLevel(feeSamples, level).feePerKb * level.tenths + 5) \div 10

\* "Ensure monotonically decreasing values".
GetFeeLevels(feeSamples) ==
  LET feePerKb[i \in DOMAIN FEE_LEVELS] ==
        LET own == LevelValue(feeSamples, FEE_LEVELS[i])
        IN  IF i = 1 THEN own ELSE Min({own, feePerKb[i - 1]})
  IN  feePerKb

IsLevel(name) == \E i \in DOMAIN FEE_LEVELS : FEE_LEVELS[i].name = name

FeeOf(feeSamples, name) ==
  LET i == Min({j \in DOMAIN FEE_LEVELS : FEE_LEVELS[j].name = name})
  IN  GetFeeLevels(feeSamples)[i]

=============================================================================

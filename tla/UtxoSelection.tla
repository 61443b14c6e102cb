--------------------------- MODULE UtxoSelection ----------------------------
(***************************************************************************)
(* Which outputs pay for a proposal, and what the sender of everything     *)
(* gets: _selectTxInputs and getSendMaxInfo of lib/server.js with the      *)
(* estimates of lib/model/txproposal.js.                                   *)
(*                                                                         *)
(* utxos is a function from the wallet's unspent outputs to what the code  *)
(* looks at: satoshis, confirmations and locked.  A txp is the record of   *)
(* the proposal's fields that count here.  The code computes fees with     *)
(* fractions of a satoshi; here the unit of a Fee is a thousandth of one,  *)
(* so that size * feePerKb is exact.  bitcore's part is external.          *)
(***************************************************************************)
EXTENDS Integers, Sequences, SequencesExt

\* The constants of lib/common/defaults.js, in satoshis, bytes and per cents.
CONSTANTS
  MAX_TX_SIZE,                 \* Defaults.MAX_TX_SIZE_IN_KB, in bytes
  MAX_TX_FEE,
  MIN_OUTPUT_AMOUNT,
  DUST_AMOUNT,                 \* of bitcore's Transaction
  MAX_SINGLE_UTXO_FACTOR,
  MIN_TX_AMOUNT_VS_UTXO,       \* Defaults.UTXO_SELECTION_..., in per cent
  MAX_FEE_VS_TX_AMOUNT,        \* in per cent
  MAX_FEE_VS_SINGLE_UTXO_FEE

ASSUME SelectionAssumption ==
  /\ {MAX_TX_SIZE, MAX_TX_FEE, MIN_OUTPUT_AMOUNT, DUST_AMOUNT, MAX_SINGLE_UTXO_FACTOR,
      MIN_TX_AMOUNT_VS_UTXO, MAX_FEE_VS_TX_AMOUNT, MAX_FEE_VS_SINGLE_UTXO_FEE} \subseteq Nat
  /\ DUST_AMOUNT <= MIN_OUTPUT_AMOUNT
  /\ MIN_OUTPUT_AMOUNT > 0
  /\ MAX_SINGLE_UTXO_FACTOR > 0

NoFee == -1      \* undefined or null

DustThreshold == Max({MIN_OUTPUT_AMOUNT, DUST_AMOUNT})

ToSatoshi(fee) == (fee + 500) \div 1000

Satoshis(utxos) == [o \in DOMAIN utxos |-> utxos[o].satoshis]

Sum(utxos, inputs) == SumFunctionOnSet(Satoshis(utxos), inputs)

-----------------------------------------------------------------------------
(* lib/model/txproposal.js.                                                *)

GetTotalAmount(txp) == FoldSeq(+, 0, txp.outputs)

GetEstimatedSizeForSingleInput(txp) ==
  IF txp.addressType = "P2PKH" THEN 147 ELSE txp.m * 72 + txp.n * 36 + 44

\* The size with n inputs, 2 per cent more to be safe.
GetEstimatedSize(txp, n) ==
  LET size == 26 + n * GetEstimatedSizeForSingleInput(txp)
              + 34 * (Max({1, Len(txp.outputs)}) + 1)
  IN  (size * 102 + 50) \div 100

GetEstimatedFee(txp, n) == ToSatoshi(txp.feePerKb * GetEstimatedSize(txp, n))

BaseFee(txp) == GetEstimatedSize(txp, 0) * txp.feePerKb
FeePerInput(txp) == GetEstimatedSizeForSingleInput(txp) * txp.feePerKb

\* What select and getSendMaxInfo count for n inputs: without the 2 per cent
\* on the inputs.
SizeWith(txp, n) == GetEstimatedSize(txp, 0) + n * GetEstimatedSizeForSingleInput(txp)
FeeWith(txp, n) == BaseFee(txp) + n * FeePerInput(txp)

PaysForItself(txp, utxo) == utxo.satoshis * 1000 > FeePerInput(txp)

-----------------------------------------------------------------------------
(* select.                                                                 *)

Selected(inputs, fee) == [error |-> "none", inputs |-> inputs, fee |-> fee]
NotSelected(error) == [error |-> error, inputs |-> {}, fee |-> NoFee]

\* Mistake: the smallest first.
Ascending(utxos, S) ==
  CHOOSE s \in SetToSeqs(S) :
    \A i, j \in DOMAIN s : i < j => utxos[s[i]].satoshis <= utxos[s[j]].satoshis

\* _.sortBy of -satoshis; which of two equal ones comes first does not matter.
Descending(utxos, S) ==
  CHOOSE s \in SetToSeqs(S) :
    \A i, j \in DOMAIN s : i < j => utxos[s[i]].satoshis >= utxos[s[j]].satoshis

IsBig(txp, utxo) ==
  utxo.satoshis * 1000 > GetTotalAmount(txp) * MAX_SINGLE_UTXO_FACTOR * 1000 + FeeWith(txp, 1)

Fee(txp, k) == ToSatoshi(FeeWith(txp, k))

Net(txp, utxos, S) == Sum(utxos, S) * 1000 - FeeWith(txp, Cardinality(S))

Covers(txp, utxos, S) == Net(txp, utxos, S) >= GetTotalAmount(txp) * 1000

\* The loop over the small inputs, the largest first, after k of them.
Taken(small, k) == {small[i] : i \in 1..k}

TooSmall(txp, utxo) ==
  utxo.satoshis * 1000 - FeePerInput(txp) < GetTotalAmount(txp) * 10 * MIN_TX_AMOUNT_VS_UTXO

TooExpensive(txp, k) ==
  /\ Fee(txp, k) * 100 > GetTotalAmount(txp) * MAX_FEE_VS_TX_AMOUNT
  /\ Fee(txp, k) * 1000 > FeeWith(txp, 1) * MAX_FEE_VS_SINGLE_UTXO_FEE

\* It stops with an input that makes the transaction too big and, if there is a
\* big one to fall back on, with one that adds too little or costs too much.
Breaks(txp, utxos, big, small, k) ==
  \/ SizeWith(txp, k) > MAX_TX_SIZE
  \/ big # {} /\ (TooSmall(txp, utxos[small[k]]) \/ TooExpensive(txp, k))

\* Or with the one that reaches the amount.
LastTaken(txp, utxos, big, small) ==
  Min({k \in DOMAIN small : \/ Breaks(txp, utxos, big, small, k)
                            \/ Covers(txp, utxos, Taken(small, k))} \cup {Len(small)})

\* A small change goes to the fee, unless the loop stopped before it looked.
FeeAndDust(fee, change, stopped) ==
  IF ~stopped /\ change \in 1..DustThreshold THEN fee + change ELSE fee

\* What is selected when the loop ends after last inputs.
Outcome(txp, utxos, big, small, last) ==
  CASE Covers(txp, utxos, Taken(small, last)) ->
         Selected(Taken(small, last),
                  FeeAndDust(Fee(txp, last),
                             Sum(utxos, Taken(small, last)) - GetTotalAmount(txp) - Fee(txp, last),
                             Breaks(txp, utxos, big, small, last)))
    [] ~Covers(txp, utxos, Taken(small, last)) /\ big # {} ->
         Selected({CHOOSE o \in big : \A p \in big : utxos[o].satoshis <= utxos[p].satoshis},
                  Fee(txp, 1))
    [] OTHER -> NotSelected("TX_MAX_SIZE_EXCEEDED")

SelectFrom(txp, utxos, big, small) ==
  Outcome(txp, utxos, big, small, LastTaken(txp, utxos, big, small))

Select(txp, utxos, candidates) ==
  LET big == {o \in candidates : IsBig(txp, utxos[o])}
  IN  IF Sum(utxos, candidates) < GetTotalAmount(txp)
        THEN NotSelected("INSUFFICIENT_FUNDS")
      ELSE IF ~Covers(txp, utxos, candidates)
        THEN NotSelected("INSUFFICIENT_FUNDS_FOR_FEE")
      ELSE SelectFrom(txp, utxos, big, Descending(utxos, candidates \ big))

-----------------------------------------------------------------------------
(* _selectTxInputs without inputs of the client's own.                     *)

\* Mistake: as many confirmations as there may be come last.
GroupsReversed(txp) == IF txp.excludeUnconfirmedUtxos THEN <<1, 6>> ELSE <<0, 1, 6>>

\* Mistake: unconfirmed outputs only if they are not excluded.
GroupsConfirmed(txp) == IF txp.excludeUnconfirmedUtxos THEN <<6, 1, 0>> ELSE <<6, 1>>

Available(txp, utxos) ==
  {o \in DOMAIN utxos :
     /\ ~utxos[o].locked
     /\ txp.excludeUnconfirmedUtxos => utxos[o].confirmations > 0}

\* sanitizeUtxos.
Usable(txp, utxos, utxosToExclude) ==
  {o \in Available(txp, utxos) \ utxosToExclude : PaysForItself(txp, utxos[o])}

Groups(txp) == IF txp.excludeUnconfirmedUtxos THEN <<6, 1>> ELSE <<6, 1, 0>>

\* What the first group that pays for the proposal gives, or else the last.
FirstFit(found) ==
  found[Min({i \in DOMAIN found : found[i].error = "none"} \cup {Len(found)})]

\* That the code does not try the same outputs twice changes nothing.
SelectTxInputs(txp, utxos, utxosToExclude) ==
  LET counted == {o \in DOMAIN utxos :
                    txp.excludeUnconfirmedUtxos => utxos[o].confirmations > 0}
      candidates(group) == {o \in Usable(txp, utxos, utxosToExclude) :
                              utxos[o].confirmations >= group}
  IN  IF Sum(utxos, counted) < GetTotalAmount(txp)
        THEN NotSelected("INSUFFICIENT_FUNDS")
      ELSE IF Sum(utxos, Available(txp, utxos)) < GetTotalAmount(txp)
        THEN NotSelected("LOCKED_FUNDS")
      ELSE FirstFit([i \in DOMAIN Groups(txp) |->
                       Select(txp, utxos, candidates(Groups(txp)[i]))])

-----------------------------------------------------------------------------
(* _checkTx: the transaction bitcore builds, and what it says of it.       *)

ChangeOf(txp, total) ==
  IF txp.hasChangeAddress THEN Max({0, total - GetTotalAmount(txp) - txp.fee}) ELSE 0

CheckTx(txp, utxos) ==
  LET total == Sum(utxos, txp.inputs)
      change == ChangeOf(txp, total)
      paid == total - GetTotalAmount(txp) - change
  IN  CASE GetEstimatedSize(txp, Cardinality(txp.inputs)) > MAX_TX_SIZE ->
             "TX_MAX_SIZE_EXCEEDED"
        [] OTHER ->
             IF paid < 0 \/ paid > MAX_TX_FEE THEN "EXCEPTION"
             ELSE IF paid # txp.fee THEN "INSUFFICIENT_FUNDS_FOR_FEE"
             ELSE IF change \in 1..(DUST_AMOUNT - 1) THEN "DUST_AMOUNT"
             ELSE "none"

-----------------------------------------------------------------------------
(* getSendMaxInfo.                                                         *)

Nothing(feePerKb) == [amount |-> 0, fee |-> 0, inputs |-> {}, feePerKb |-> feePerKb]

\* How many of the inputs, the largest first, fit.
Fitting(txp, sorted) ==
  Cardinality({k \in DOMAIN sorted : SizeWith(txp, k) <= MAX_TX_SIZE})

AllOf(feePerKb, total, fee, inputs) ==
  IF inputs = {} \/ total - fee < MIN_OUTPUT_AMOUNT
    THEN Nothing(feePerKb)
    ELSE [amount |-> total - fee, fee |-> fee, inputs |-> inputs, feePerKb |-> feePerKb]

InfoFrom(txp, utxos, inputs) ==
  AllOf(txp.feePerKb, Sum(utxos, inputs),
        GetEstimatedFee(txp, Cardinality(inputs)), inputs)

\* txp is the empty proposal it estimates with.  The largest inputs that fit
\* and pay for themselves, all but the fee.
GetSendMaxInfo(txp, utxos) ==
  LET largestFitting(sorted) == Taken(sorted, Fitting(txp, sorted))
  IN  IF Available(txp, utxos) = {}
        THEN Nothing(0)
        ELSE InfoFrom(txp, utxos, largestFitting(Descending(utxos, Usable(txp, utxos, {}))))

=============================================================================

---------------------------- MODULE MCTxFunding -----------------------------
(***************************************************************************)
(* TxFunding on wallets of a few outputs.                                  *)
(***************************************************************************)
EXTENDS TxFunding

\* Defaults.FEE_LEVELS of btc, with a tenth of the values.
MCLevels ==
  <<[name |-> "urgent", nbBlocks |-> 2, tenths |-> 15, defaultValue |-> 15000],
    [name |-> "priority", nbBlocks |-> 2, tenths |-> 10, defaultValue |-> 10000],
    [name |-> "normal", nbBlocks |-> 3, tenths |-> 10, defaultValue |-> 8000]>>

\* The explorer fails, has only estimates for later blocks, none at all, and a
\* normal level dearer than the urgent one.
MCEstimate ==
  {NoAnswer,
   [n \in SamplePoints |-> IF n >= 5 THEN 6000 ELSE Failed],
   [n \in SamplePoints |-> IF n = 2 THEN 5000 ELSE 9000]}

Single == [m |-> 1, n |-> 1, addressType |-> "P2PKH"]
OldSingle == [Single EXCEPT !.addressType = "P2SH"]
Shared == [m |-> 2, n |-> 3, addressType |-> "P2SH"]

Plain(amounts) ==
  [outputs |-> amounts, sendMax |-> FALSE, feeLevel |-> "none", feePerKb |-> NoFee,
   fee |-> NoFee, inputs |-> {}, utxosToExclude |-> {}, excludeUnconfirmedUtxos |-> FALSE]

SendAll == [Plain(<<NoAmount>>) EXCEPT !.sendMax = TRUE]

Values == {2500, 6100, 9000, 14000, 60000}

\* The outputs in order of their value, since nothing depends on which is
\* which; one at most is locked, or not confirmed as often as the others.
MCFunds ==
  {u \in [Output -> [satoshis : Values, confirmations : {0, 3, 6}, locked : BOOLEAN]] :
     /\ \A o, p \in Output : o < p => u[o].satoshis <= u[p].satoshis
     /\ \E c \in {0, 6}, q \in Output : \A o \in Output \ {q} :
          u[o].confirmations = c /\ ~u[o].locked}

\* Requests at a rate of their own, and at the rate of a level.
Rated ==
  {[Plain(<<20000>>) EXCEPT !.feePerKb = 10000, !.excludeUnconfirmedUtxos = TRUE],
   [Plain(<<12000>>) EXCEPT !.feePerKb = 0, !.utxosToExclude = {1}],
   [Plain(<<4000>>) EXCEPT !.feePerKb = 0],
   [Plain(<<12000>>) EXCEPT !.feePerKb = 10000, !.inputs = {1, 2}],
   [Plain(<<12000>>) EXCEPT !.inputs = {1, 2}, !.fee = 3000],
   [SendAll EXCEPT !.feePerKb = 10000, !.excludeUnconfirmedUtxos = TRUE]}

Leveled ==
  {Plain(<<5000>>), Plain(<<6000, 6000>>), [Plain(<<12000>>) EXCEPT !.feeLevel = "urgent"],
   SendAll, [SendAll EXCEPT !.feeLevel = "urgent"]}

Told ==
  {Plain(<<>>), [Plain(<<>>) EXCEPT !.feeLevel = "urgent"],
   [Plain(<<>>) EXCEPT !.feeLevel = "superEconomy"]}

NoRejections == [rejections |-> 0, waited |-> FALSE]
Rejected == [rejections : {BACKOFF_OFFSET, BACKOFF_OFFSET + 1}, waited : BOOLEAN]

Comes(w, c, e, o, pc) ==
  [wallet |-> w, creator |-> c, estimates |-> e, opts |-> o, pc |-> pc]

MCRequest ==
  UNION {
    {Comes(Shared, NoRejections, NoAnswer, o, "validate") : o \in Rated},
    {Comes(w, NoRejections, e, o, "validate") :
       w \in {Single, Shared}, e \in MCEstimate, o \in Leveled},
    {Comes(OldSingle, NoRejections, e, o, "getSendMaxInfo") : e \in MCEstimate, o \in Told},
    {Comes(Single, c, NoAnswer, Plain(<<5000>>), "validate") : c \in Rejected}}

=============================================================================

----------------------------- MODULE TxFunding ------------------------------
(***************************************************************************)
(* How a request for a proposal gets its inputs and its fee: the part of   *)
(* createTx of lib/server.js that TxService leaves out.  The client's      *)
(* options are checked, sendMax turns them into an amount and inputs, the  *)
(* fee for a kB is looked up, and the inputs are selected and checked.     *)
(* What the request finds does not change the wallet's outputs; the        *)
(* explorer's fee estimates may change while it runs, and a request with   *)
(* sendMax reads them twice.  A client may also ask for getSendMaxInfo and *)
(* name the inputs and the fee it was told itself.                         *)
(***************************************************************************)
EXTENDS FeeLevels, UtxoSelection

CONSTANTS
  Output,             \* the wallet's unspent outputs
  Estimate,           \* what the explorer may answer to an estimateFee request
  Funds,              \* the outputs a request may find
  Request,            \* the requests that come, each with what else it finds
  MAX_FEE_PER_KB,     \* Defaults
  BACKOFF_OFFSET

VARIABLES
  wallet,      \* its m, n and addressType
  utxos,       \* its unspent outputs
  creator,     \* the creator's latest rejected proposals, and if the backoff is over
  estimates,   \* what the explorer answers now
  steady,      \* no estimate has changed since the request came (history)
  opts,        \* the client's options, as the handler changes them
  req,         \* the request: pc, error, and what getSendMaxInfo found
  txp          \* the proposal, when its options are complete

vars == <<wallet, utxos, creator, estimates, steady, opts, req, txp>>

NoAmount == -1

Wallet == [m: Nat \ {0}, n: Nat \ {0}, addressType: {"P2PKH", "P2SH"}]
Utxo == [satoshis: Nat, confirmations: Nat, locked: BOOLEAN]
Options == [outputs: Seq(Nat \cup {NoAmount}), sendMax: BOOLEAN, feeLevel: STRING,
            feePerKb: Nat \cup {NoFee}, fee: Nat \cup {NoFee}, inputs: SUBSET Output,
            utxosToExclude: SUBSET Output, excludeUnconfirmedUtxos: BOOLEAN]

ASSUME FundingAssumption ==
  /\ MAX_FEE_PER_KB \in Nat
  /\ BACKOFF_OFFSET \in Nat
  /\ IsFiniteSet(Output)
  /\ \A e \in Estimate : e = NoAnswer \/ e \in [SamplePoints -> Nat \cup {Failed}]
  /\ IsLevel("normal")
  /\ \A u \in Funds : u \in [Output -> Utxo]
  /\ \A r \in Request :
       /\ r.wallet \in Wallet
       /\ r.creator \in [rejections: Nat, waited: BOOLEAN]
       /\ r.estimates \in Estimate
       /\ r.opts \in Options
       /\ r.pc \in {"validate", "getSendMaxInfo"}

PC == {"getSendMaxInfo", "told",
       "validate", "sendMax", "validateOutputs", "canCreateTx",
       "getFeePerKb", "selectTxInputs", "created", "refused"}

Txp(feePerKb, hasChangeAddress) ==
  [m |-> wallet.m, n |-> wallet.n, addressType |-> wallet.addressType,
   outputs |-> opts.outputs, feePerKb |-> feePerKb,
   inputs |-> opts.inputs, fee |-> opts.fee, hasChangeAddress |-> hasChangeAddress,
   excludeUnconfirmedUtxos |-> opts.excludeUnconfirmedUtxos]

\* Mistake: an output too many.
TwoOutputsTxp(feePerKb) ==
  [Txp(feePerKb, FALSE) EXCEPT !.outputs = <<0, 0>>, !.inputs = {},
     !.addressType = IF wallet.n > 1 THEN "P2SH" ELSE "P2PKH"]

\* The one getSendMaxInfo estimates with: without outputs or the wallet's
\* address type.
EmptyTxp(feePerKb) ==
  [Txp(feePerKb, FALSE) EXCEPT !.outputs = <<>>, !.inputs = {},
     !.addressType = IF wallet.n > 1 THEN "P2SH" ELSE "P2PKH"]

NoTxp == [inputs |-> {}]

Goto(pc) == req' = [req EXCEPT !.pc = pc]
Refuse(error) == req' = [req EXCEPT !.pc = "refused", !.error = error]

-----------------------------------------------------------------------------
FeeArgs(o) == Cardinality({a \in {"feeLevel", "feePerKb", "fee"} :
                             CASE a = "feeLevel" -> o.feeLevel # "none"
                               [] a = "feePerKb" -> o.feePerKb # NoFee
                               [] a = "fee"      -> o.fee # NoFee})

FeeArgsValid ==
  /\ FeeArgs(opts) <= 1
  /\ opts.feeLevel # "none" => IsLevel(opts.feeLevel)
  /\ opts.feePerKb <= MAX_FEE_PER_KB
  /\ opts.fee # NoFee => opts.inputs # {}

\* The code throws if there is no output at all, and creates nothing either.
SendMaxValid ==
  opts.sendMax => /\ Len(opts.outputs) = 1
                  /\ opts.outputs[1] = NoAmount
                  /\ opts.fee = NoFee

\* _validateAndSanitizeTxOpts up to getSendMaxInfo.
Validate ==
  /\ req.pc = "validate"
  /\ IF FeeArgsValid /\ SendMaxValid
       THEN /\ Goto(IF opts.sendMax THEN "sendMax" ELSE "validateOutputs")
            /\ opts' = IF FeeArgs(opts) = 0 THEN [opts EXCEPT !.feeLevel = "normal"]
                                            ELSE opts
       ELSE /\ Refuse("INVALID_OPTIONS")
            /\ UNCHANGED opts
  /\ UNCHANGED <<wallet, utxos, creator, estimates, steady, txp>>

\* _getFeePerKb.
FeePerKb(level, feePerKb) ==
  IF feePerKb # NoFee THEN feePerKb ELSE FeeOf(estimates, level)

\* getSendMaxInfo is called with the client's feePerKb and without the fee
\* level.
SendMax ==
  /\ req.pc = "sendMax"
  /\ \E info \in {GetSendMaxInfo(EmptyTxp(FeePerKb("normal", opts.feePerKb)), utxos)} :
         /\ opts' = [opts EXCEPT !.outputs = <<info.amount>>, !.inputs = info.inputs]
         /\ req' = [req EXCEPT !.pc = "validateOutputs", !.info = info]
  /\ UNCHANGED <<wallet, utxos, creator, estimates, steady, txp>>

\* The first output that is not valid, if there is one, decides.  Bound: no
\* client turns the check off (opts.validateOutputs).
ValidateOutputs ==
  /\ req.pc = "validateOutputs"
  /\ LET invalid == {i \in DOMAIN opts.outputs : opts.outputs[i] < DustThreshold}
     IN  CASE opts.outputs = <<>> -> Refuse("INVALID_AMOUNT")
           [] opts.outputs # <<>> /\ invalid = {} -> Goto("canCreateTx")
           [] OTHER -> Refuse(IF opts.outputs[Min(invalid)] <= 0 THEN "INVALID_AMOUNT"
                                                                ELSE "DUST_AMOUNT")
  /\ UNCHANGED <<wallet, utxos, creator, estimates, steady, opts, txp>>

\* The backoff after too many rejections in a row.
CanCreateTx ==
  /\ req.pc = "canCreateTx"
  /\ IF creator.rejections <= BACKOFF_OFFSET \/ creator.waited
       THEN Goto("getFeePerKb")
       ELSE Refuse("TX_CANNOT_CREATE")
  /\ UNCHANGED <<wallet, utxos, creator, estimates, steady, opts, txp>>

\* The fee for a kB, and TxProposal.create.  A proposal with a fee of its own
\* has none.
GetFeePerKb ==
  /\ req.pc = "getFeePerKb"
  /\ txp' = Txp(IF opts.fee # NoFee /\ opts.inputs # {}
                  THEN NoFee ELSE FeePerKb(opts.feeLevel, opts.feePerKb),
                ~opts.sendMax)
  /\ Goto("selectTxInputs")
  /\ UNCHANGED <<wallet, utxos, creator, estimates, steady, opts>>

\* Mistake: utxosToExclude is not passed on.
FundedByAny ==
  IF txp.inputs # {}
    THEN [error |-> "none", inputs |-> txp.inputs,
          fee |-> IF txp.fee = NoFee THEN GetEstimatedFee(txp, Cardinality(txp.inputs))
                                     ELSE txp.fee]
    ELSE SelectTxInputs(txp, utxos, {})

\* With inputs the fee is estimated if there is none, and nothing else is
\* looked at ("todo: check inputs are ours and have enough value").
Funded ==
  IF txp.inputs # {}
    THEN [error |-> "none", inputs |-> txp.inputs,
          fee |-> IF txp.fee = NoFee THEN GetEstimatedFee(txp, Cardinality(txp.inputs))
                                     ELSE txp.fee]
    ELSE SelectTxInputs(txp, utxos, opts.utxosToExclude)

Fill(filled, error) ==
  /\ txp' = filled
  /\ IF error = "none" THEN Goto("created") ELSE Refuse(error)

SelectInputs ==
  /\ req.pc = "selectTxInputs"
  /\ \E funded \in {Funded} :
       LET filled == [txp EXCEPT !.inputs = funded.inputs, !.fee = funded.fee]
       IN  Fill(filled, IF funded.error = "none" THEN CheckTx(filled, utxos) ELSE funded.error)
  /\ UNCHANGED <<wallet, utxos, creator, estimates, steady, opts>>

-----------------------------------------------------------------------------
(* A request for getSendMaxInfo itself, which takes a fee level.           *)

InfoArgsValid ==
  /\ opts.feeLevel = "none" \/ opts.feePerKb = NoFee
  /\ opts.feeLevel # "none" => IsLevel(opts.feeLevel)
  /\ opts.feePerKb <= MAX_FEE_PER_KB

InfoLevel == IF opts.feeLevel = "none" THEN "normal" ELSE opts.feeLevel

TellSendMaxInfo ==
  /\ req.pc = "getSendMaxInfo"
  /\ IF InfoArgsValid
       THEN req' = [req EXCEPT
              !.pc = "told",
              !.info = GetSendMaxInfo(EmptyTxp(FeePerKb(InfoLevel, opts.feePerKb)), utxos)]
       ELSE Refuse("INVALID_OPTIONS")
  /\ UNCHANGED <<wallet, utxos, creator, estimates, steady, opts, txp>>

\* The client spends what it was told of.
CreateAsTold ==
  /\ req.pc = "told"
  /\ req.info.inputs # {}
  /\ opts' = [opts EXCEPT !.outputs = <<req.info.amount>>, !.inputs = req.info.inputs,
                          !.fee = req.info.fee, !.feeLevel = "none", !.feePerKb = NoFee,
                          !.sendMax = FALSE]
  /\ Goto("validate")
  /\ UNCHANGED <<wallet, utxos, creator, estimates, steady, txp>>

\* Seen by requests that look the rate up.
EstimatesChange ==
  /\ steady
  /\ opts.feePerKb = NoFee
  /\ req.pc \notin {"created", "refused"}
  /\ \E e \in Estimate \ {estimates} : estimates' = e
  /\ steady' = FALSE
  /\ UNCHANGED <<wallet, utxos, creator, opts, req, txp>>

Next ==
  \/ Validate
  \/ SendMax
  \/ ValidateOutputs
  \/ CanCreateTx
  \/ GetFeePerKb
  \/ SelectInputs
  \/ TellSendMaxInfo
  \/ CreateAsTold
  \/ EstimatesChange

\* Any of the requests comes.
Init ==
  \E u \in Funds, r \in Request :
    /\ wallet = r.wallet
    /\ utxos = u
    /\ creator = r.creator
    /\ estimates = r.estimates
    /\ steady = TRUE
    /\ opts = r.opts
    /\ req = [pc |-> r.pc, error |-> "none", info |-> Nothing(0)]
    /\ txp = NoTxp

Spec == Init /\ [][Next]_vars

-----------------------------------------------------------------------------
TypeOK ==
  /\ wallet \in Wallet
  /\ utxos \in [Output -> Utxo]
  /\ estimates \in Estimate
  /\ opts \in Options
  /\ req.pc \in PC
  /\ (req.error # "none") <=> (req.pc = "refused")
  /\ req.info.amount \in Nat /\ req.info.fee \in Nat /\ req.info.inputs \subseteq Output
  /\ txp.inputs \subseteq Output

\* Did the server select the inputs?
Selecting == txp # NoTxp /\ opts.inputs = {}

\* Can these inputs pay for the proposal and its fee in one transaction?
PayFor(S) ==
  /\ SizeWith(txp, Cardinality(S)) <= MAX_TX_SIZE
  /\ Sum(utxos, S) * 1000 - FeeWith(txp, Cardinality(S)) >= GetTotalAmount(txp) * 1000

\* What a created proposal spends: usable outputs only, and all of it: the
\* amounts, a change that is not dust, and a fee of at least its rate and at
\* most a dust change above it (the thresholds and breaks of select).
WellFunded ==
  Selecting /\ req.pc = "created" =>
    LET change == Sum(utxos, txp.inputs) - GetTotalAmount(txp) - txp.fee
        rate == ToSatoshi(FeeWith(txp, Cardinality(txp.inputs)))
    IN  /\ txp.inputs # {}
        /\ txp.inputs \subseteq Usable(txp, utxos, opts.utxosToExclude)
        /\ change = 0 \/ change >= DUST_AMOUNT
        /\ txp.fee \in rate .. rate + DustThreshold

\* Whoever is told that the funds do not suffice has no outputs that would:
\* the heuristics of select (big inputs, breaks, groups) refuse nobody who can
\* pay.
RefusedOnlyIfPoor ==
  /\ Selecting
  /\ req.error \in {"INSUFFICIENT_FUNDS", "INSUFFICIENT_FUNDS_FOR_FEE", "LOCKED_FUNDS"}
  => \A S \in SUBSET Usable(txp, utxos, opts.utxosToExclude) : ~PayFor(S)

\* Less confirmed outputs are spent only if the better confirmed ones cannot
\* pay.
ConfirmedFirst ==
  Selecting /\ req.pc = "created" =>
    LET least == Min({utxos[o].confirmations : o \in txp.inputs})
    IN  \A g \in {6, 1} : least < g =>
          \A S \in SUBSET {o \in Usable(txp, utxos, opts.utxosToExclude) :
                             utxos[o].confirmations >= g} : ~PayFor(S)

\* No choice of outputs leaves the receiver of everything more than the amount
\* getSendMaxInfo finds, but for the 2 per cent its estimate adds to the inputs
\* after it chose them; and it finds an amount if there is one worth sending.
SendMaxIsMax ==
  LET t == [EmptyTxp(req.info.feePerKb) EXCEPT !.feePerKb = req.info.feePerKb]
      gain(S) == Sum(utxos, S) - GetEstimatedFee(t, Cardinality(S))
      margin == ToSatoshi((Cardinality(Output) * FeePerInput(t)) \div 50) + 1
  IN  req.pc \in {"told", "validateOutputs"} /\ req.info.feePerKb > 0 =>
        \A S \in SUBSET Available(t, utxos) :
          SizeWith(t, Cardinality(S)) <= MAX_TX_SIZE
          => gain(S) <= Max({req.info.amount, MIN_OUTPUT_AMOUNT - 1}) + margin

\* What getSendMaxInfo finds can be sent, and nothing stays: by a createTx with
\* sendMax at the rate getSendMaxInfo used (a feePerKb or the normal level, the
\* address type it assumes, the same estimates), and by a client that names
\* inputs and fee itself whatever the estimates do, unless the transaction is
\* then too big or its fee more than bitcore takes.
SendMaxCreates ==
  LET sameRate == /\ opts.feePerKb # NoFee \/ (opts.feeLevel = "normal" /\ steady)
                  /\ wallet.addressType = EmptyTxp(0).addressType
      fits == /\ GetEstimatedSize(txp, Cardinality(req.info.inputs)) <= MAX_TX_SIZE
              /\ req.info.fee <= MAX_TX_FEE
  IN  /\ req.info.inputs # {}
      /\ req.pc \in {"created", "refused"}
      /\ (opts.sendMax /\ sameRate) \/ opts.fee # NoFee
      /\ txp # NoTxp => fits
      => /\ req.error \in {"none", "TX_CANNOT_CREATE"}
         /\ req.pc = "created" => txp.fee = Sum(utxos, txp.inputs) - GetTotalAmount(txp)

=============================================================================

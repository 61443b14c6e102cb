\* Events that come one after the other, told to processes whose mails meet
\* failures, stops and expired locks.
CONSTANTS
  w1 = w1
  w2 = w2
  a = a
  b = b
  c = c
  d = d
  x = x
  y = y
  Process = {m1, m2}
  Wallet = {w1, w2}
  Pocketeer = {a, b, c, d}
  NoPocketeer = NoPocketeer
  MaxClock = 1
  Preferences <- MCPreferences
  MaxSent = 4
  Prompt = TRUE
  NoJob = NoJob
  Event = {e1, e2}
  Outs <- MCOuts
  Proposer = w1
  Subscriber <- MCSubscriber
  Apart = TRUE
  Members <- MCMembers
  Quorum <- MCQuorum
  CoinUnit <- MCCoinUnit
  Token = {"t1", "t2"}
  Language = {"en", "es"}
  Unit = {"btc", "bit", "bch"}
  DefaultLanguage = "en"
  DefaultUnit = "btc"
  Unset = "unset"
  InitialPreferences <- MCInitialPreferences
  InitialDevices <- MCInitialDevices
  MaxEdits = 1
  ActType = {"NewTxProposal", "NewOutgoingTx"}
  FeedWallet = w1
  MaxMade = 3
  Stories <- MCStories
SYMMETRY Symmetry
SPECIFICATION Spec
INVARIANTS
  TypeOK
  OneMailEach
  AllMailed
  PaymentsTold
  OursNotThirdParty
  ConfirmationsTold
  PushedAsPreferred
  FeedComplete
CHECK_DEADLOCK FALSE

SPECIFICATION Spec
CONSTANTS
  WalletId = {w1, w2}
  Pocketeer = {p1}
  Key = {k1}
  WalletN = 2
  MaxKeys = 1
  Request = {r1, r2}
  NoRequest = NoRequest
  NoWallet = NoWallet
SYMMETRY Symmetry
INVARIANTS
  OneWalletEach

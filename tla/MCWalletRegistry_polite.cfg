SPECIFICATION PoliteSpec
CONSTANTS
  WalletId = {w1, w2}
  Pocketeer = {p1, p2, p3}
  Key = {k1, k2}
  WalletN = 2
  MaxKeys = 1
  Request = {r1, r2}
  NoRequest = NoRequest
  NoWallet = NoWallet
SYMMETRY Symmetry
INVARIANTS
  TypeOK
PROPERTIES
  MembersKept
  LookupsSettled

SPECIFICATION PoliteSpec
CONSTANTS
  Pocketeer = {p1, p2}
  RequiredSignatures = 2
  Utxo = {u1, u2}
  ProposalId = {t1, t2}
  Request = {r1, r2}
  NoRequest = NoRequest
  NoTx = NoTx
  NoId = NoId
SYMMETRY Symmetry
INVARIANTS
  InputsLocked
  AllVotesDecide
PROPERTIES
  VotesKept

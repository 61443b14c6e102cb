SPECIFICATION PromptSpec
CONSTANTS
  Pocketeer = {p1, p2, p3}
  RequiredSignatures = 2
  Utxo = {u1}
  ProposalId = {t1, t2}
  Request = {r1, r2}
  NoRequest = NoRequest
  NoTx = NoTx
  NoId = NoId
SYMMETRY Symmetry
INVARIANTS
  InputsLocked

SPECIFICATION FairSpec
CONSTANTS
  Pocketeer = {p1, p2}
  RequiredSignatures = 1
  Utxo = {u1}
  ProposalId = {t1}
  Request = {r1, r2}
  NoRequest = NoRequest
  NoTx = NoTx
  NoId = NoId

PROPERTIES
  BroadcastNoticed

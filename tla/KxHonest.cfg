SPECIFICATION HonestSpec
CONSTANTS
  dA = dA
  dB = dB
  idA = idA
  idB = idB
  e1 = e1
  e2 = e2
  e3 = e3
  e4 = e4
  i1 = i1
  i2 = i2
  b1 = b1
  b2 = b2
  Initiators = {i1, i2}
  Responders = {b1, b2}
  Statics <- MCStatics
  IdentityPoint = IdentityPoint
  Ids <- MCIds
  LongIds = {}
  KLens = {16}
  KdfMax = 64
  Ephs <- MCEphs
  BadPoint = BadPoint
  Degenerate = {}
  InitiatorParams <- MCInitiatorParams
  ResponderParams <- MCResponderParams
  None = None
  Honest <- MCHonest
  HonestA <- MCHonestA
  HonestB <- MCHonestB
PROPERTY
  HonestCompletes
CHECK_DEADLOCK FALSE

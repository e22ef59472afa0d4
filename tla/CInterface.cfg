SPECIFICATION InterfaceSpec
CONSTANTS
  dA = dA
  dB = dB
  idA = idA
  idB = idB
  e1 = e1
  e2 = e2
  e3 = e3
  i1 = i1
  i2 = i2
  b1 = b1
  b2 = b2
  Initiators = {i1, i2}
  Responders = {b1, b2}
  Statics <- MCStatics
  IdentityPoint = IdentityPoint
  Ids <- MCIds
  LongIds = {}
  KLens = {0, 16}
  KdfMax = 64
  Ephs <- MCEphs
  BadPoint = BadPoint
  Degenerate <- MCDegenerate
  InitiatorParams <- MCInitiatorParams
  ResponderParams <- MCResponderParams
  None = None
  MaxHandles = 2
  MaxLen = 2
SYMMETRY Symmetry
INVARIANTS
  OwnershipAgrees
  StateMatches
  AllOrNothing
  RoomTold
  HandlesAgree
PROPERTIES
  InFlightUndisturbed
  HandlesKeepPromise
CHECK_DEADLOCK FALSE

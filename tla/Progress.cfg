SPECIFICATION ProgressSpec
CONSTANTS
  None = None
  p1 = p1
  p2 = p2
  carA = carA
  carB = carB
  a1 = a1
  a2 = a2
  b1 = b1
  k1 = k1
  x1 = x1
  x2 = x2
  x3 = x3
  Peer = {p1}
  CarId = {carA, carB}
  Code = {a1, b1}
  CarOf <- OneSeatEach
  ClaimId = {k1}
  Access = {x1}
  Loop = {l1, l2}
  Request = {}
  Slot = {s1, s2}
  LateErrors = FALSE
  Ask = {q1, q2}
  Chunks = 1
  Room = 1
  MaxLinks = 2
  MaxMishaps = 1
INVARIANTS
  BindingsOfActiveCar
  BridgeTypeOK
  AnswersAreTrue
PROPERTIES
  LoopsWindDown
  RequestsEnd
CHECK_DEADLOCK FALSE

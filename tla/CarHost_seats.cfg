SPECIFICATION Spec
CONSTANTS
  None = None
  p1 = p1
  p2 = p2
  carA = carA
  carB = carB
  a1 = a1
  a2 = a2
  b1 = b1
  k1 = k1
  x1 = x1
  x2 = x2
  x3 = x3
  Peer = {p1, p2}
  CarId = {carA}
  Code = {a1, a2}
  CarOf <- OneCar
  ClaimId = {k1}
  Access = {x1, x2, x3}
  Loop = {l1, l2}
  Request = {r1}
  Slot = {s1}
  LateErrors = TRUE
SYMMETRY Symmetry
INVARIANTS
  TypeOK
  JoinedSeatIsBound
  NothingOfTheDeparted
  CrashIsRecoverable
PROPERTIES
  SeatIsReleasedFirst
  KeepsLeases

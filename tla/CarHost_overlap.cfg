SPECIFICATION Spec
CONSTANTS
  None = None
  p1 = p1
  p2 = p2
  carA = carA
  carB = carB
  a1 = a1
  a2 = a2
  b1 = b1
  k1 = k1
  x1 = x1
  x2 = x2
  x3 = x3
  Peer = {p1}
  CarId = {carA, carB}
  Code = {a1, b1}
  CarOf <- OneSeatEach
  ClaimId = {k1}
  Access = {x1, x2}
  Loop = {l1, l2}
  Request = {r1}
  Slot = {s1, s2}
  LateErrors = FALSE
SYMMETRY Symmetry
INVARIANT
  CrashIsRecoverable

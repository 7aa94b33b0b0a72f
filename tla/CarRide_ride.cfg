SPECIFICATION RideSpec
CONSTANTS
  None = None
  p1 = p1
  p2 = p2
  carA = carA
  a1 = a1
  k1 = k1
  k2 = k2
  x1 = x1
  x2 = x2
  Peer = {p1, p2}
  CarId = {carA}
  Code = {a1}
  CarOf <- OneSeat
  ClaimId = {k1, k2}
  Access = {x1, x2}
  Loop = {l1}
  Request = {}
  Slot = {s1}
  LateErrors = TRUE
  BoxLimit = 2
  PollLimit = 1
  Drives = 2
SYMMETRY Symmetry
INVARIANT
  RideTypeOK
PROPERTIES
  DepartedStaysOut
  RiderKeepsSeat

SPECIFICATION LinkSpec
CONSTANTS
  Rider = {r1}
  HostLimit = 1
  MaxRides = 2
  MaxDials = 3
  MaxLosses = 2
PROPERTY
  HealthyLinkIsKept
CHECK_DEADLOCK FALSE

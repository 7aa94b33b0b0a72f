SPECIFICATION ToolSpec
CONSTANTS
  Releases = 2
  Broken = {}
  Launch = {}
  MaxToolMishaps = 1
PROPERTY
  FailedUpdateKeepsTool
CHECK_DEADLOCK FALSE

SPECIFICATION Spec
CONSTANTS
  f1 = f1
  f2 = f2
  MaxCameras = 3
  MaxNodes = 3
  Numbers = {0, 1, 2, 3}
  HostNumbers = {0}
  Requests <- SomeRequests
  Formats <- TwoFormats
INVARIANT AllDevicesFreed
CHECK_DEADLOCK FALSE

CONSTANTS
  r1 = r1
  r2 = r2
  a = a
  b = b
  Requests <- TwoRequests
  Devices <- TwoDevices
  Approved <- OneDevice
  Contents <- TwoContents
  Limits <- OneAndTwo
  Budget <- Races
SYMMETRY Symmetry
SPECIFICATION Spec
INVARIANT UploadsWait
CHECK_DEADLOCK FALSE

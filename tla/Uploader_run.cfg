CONSTANTS
  i1 = i1
  a = a
  b = b
  big = big
  none = none
  Instances <- OneFile
  Contents <- ContentAndOversize
  Oversize <- OnlyBig
  None = none
  BaseDelay = 1
  MaxDelay = 2
  MaxRetryAfter = 3
  Budget <- Writes
SPECIFICATION FairSpec
INVARIANT NothingLost
PROPERTY WaitKept
PROPERTY PendingSettles
CHECK_DEADLOCK FALSE

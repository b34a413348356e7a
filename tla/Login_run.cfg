CONSTANTS
  poller = poller
  uploader = uploader
  Callers <- TwoCallers
  Periodic <- OnlyPoller
  Grants <- TwoGrants
  Budgets <- Events
SPECIFICATION FairSpec
INVARIANT TokensSafe
PROPERTY EndedByServer
PROPERTY CallsSettle
CHECK_DEADLOCK FALSE

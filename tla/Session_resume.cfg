CONSTANTS
  s1 = s1
  s2 = s2
  Servers <- OneServer
  Logins <- OneLoginName
  Budgets <- Race
SPECIFICATION FairSpec
PROPERTY UploadsResume
CHECK_DEADLOCK FALSE

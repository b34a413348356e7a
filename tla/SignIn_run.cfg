CONSTANTS
  u1 = u1
  u2 = u2
  b1 = b1
  b2 = b2
  t1 = t1
  t2 = t2
  t3 = t3
  r1 = r1
  r2 = r2
  a1 = a1
  a2 = a2
  NoUser = NoUser
  NoToken = NoToken
  Users <- TwoUsers
  Browsers <- TwoBrowsers
  Providers <- OneProvider
  Accounts <- TwoAccounts
  Tokens <- ThreeTokens
  Requests <- TwoRequests
  MaxSends = 4
  MaxFlows = 2
  MaxOthers = 1
SPECIFICATION Spec
SYMMETRY Symmetry
INVARIANT OwnUser
PROPERTY NeverMerged
PROPERTY LifeSpec
CHECK_DEADLOCK FALSE

CONSTANTS
  u1 = u1
  u2 = u2
  i1 = i1
  i2 = i2
  r1 = r1
  r2 = r2
  g1 = g1
  g2 = g2
  d1 = d1
  d2 = d2
  t1 = t1
  t2 = t2
  t3 = t3
  NoUser = NoUser
  NoId = NoId
  Users <- OneUser
  GrantIds <- TwoGrants
  Devices <- TwoDevices
  Tokens <- ThreeTokens
  Interactions <- TwoInteractions
  Requests <- TwoRequests
  MaxSends = 5
  MaxOthers = 2
SPECIFICATION Spec
SYMMETRY Symmetry
PROPERTY RevokedRefused
INVARIANT BridgeGrantHasDevice
INVARIANT OwnResource
CHECK_DEADLOCK FALSE

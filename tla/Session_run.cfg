CONSTANTS
  s1 = s1
  s2 = s2
  Servers <- TwoServers
  Logins <- TwoLogins
  Budgets <- Stories
SPECIFICATION StorySpec
INVARIANT Tracked
PROPERTY LoginShown
CHECK_DEADLOCK FALSE

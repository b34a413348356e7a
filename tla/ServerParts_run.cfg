CONSTANTS
  a = a
  b = b
  ask1 = ask1
  ask2 = ask2
  NoFile = NoFile
  Containers <- TwoContainers
  Requests <- TwoRequests
  Deploys <- FewDeploys
  Budget <- Some
  MaxDepth = 2
  MaxValues = 5
  MaxBytes = 90
  Limits <- MCLimits
  Tables <- MCTables
  Words <- MCWords
  Inputs <- MCInputs
  Bodies <- MCBodies
SPECIFICATION PartsSpec
INVARIANT MigrationSafe
INVARIANT AnswerIsOfTheWait
PROPERTY MigrateEnds
INVARIANT LuaFaithful
INVARIANT SaveShown
INVARIANT GearHonest
INVARIANT StateTrue
INVARIANT TrimKeepsMost
INVARIANT FilesStripped
INVARIANT StoredWhole
INVARIANT EventOfAnswer
PROPERTY RequestAnswered
CHECK_DEADLOCK FALSE

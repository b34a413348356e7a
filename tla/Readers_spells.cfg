SPECIFICATION ReadersSpec
CONSTANTS
  MaxDepth = 2
  MaxValues = 5
  MaxBytes = 90
  Limits <- MCLimits
  Tables <- MCTables
  Words <- MCWords
  Inputs <- MCSpellInputs
  Bodies <- MCBodies
INVARIANT SpellsReadOnce
CHECK_DEADLOCK FALSE

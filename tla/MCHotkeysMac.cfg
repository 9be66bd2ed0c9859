SPECIFICATION Spec
CONSTANTS
  Keys <- MCKeys
  Combinations <- MCCombinations
  Code <- MacCode
  EscWindow = 4
  CtrlCWindow = 3
  MaxTime = 7
  MaxPresses = 5
INVARIANTS TypeOK ListsRemember
PROPERTY CheckIsExact
CHECK_DEADLOCK FALSE

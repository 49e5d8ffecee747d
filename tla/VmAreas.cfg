SPECIFICATION Spec
CONSTANTS
  MaxNodes = 3
  MaxId = 1
  MaxAddr = 3
  MaxFree = 2
  MaxAmiss = 2
INVARIANTS ListWhole 
PROPERTIES LookupFinds FreeKept
CHECK_DEADLOCK FALSE

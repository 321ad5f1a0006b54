CONSTANTS
  YEAR = 8
  TICKS = 2
  UINT64 = 1048576
  LONG_MAX = 543
  MAX_YEAR = 30827
  NEVER = NEVER
  HERE = HERE
  LocalRules <- SystemZone
  Names <- Asked
  NOT_MAPPED = NOT_MAPPED
  NO_ALIAS = NO_ALIAS
  Registry <- Zones
  UNREADABLE = UNREADABLE
  FIRST_ENTRY = FIRST_ENTRY
  LAST_ENTRY = LAST_ENTRY
  EMPTY = EMPTY
  TEXT = TEXT
  TOO_LONG = TOO_LONG
  YEARS_ARRAY_SEED = 2
  MaxLookups = 2
  Representations <- Dates
  Clocks <- Today
SPECIFICATION Spec
CHECK_DEADLOCK FALSE
INVARIANT NowIsNow

CONSTANTS
  SECSPERMIN = 2
  MINSPERHOUR = 2
  HOURSPERDAY = 3
  INT_MAX = 40000
  TZ_MAX_TIMES = 824
  TZ_MAX_TYPES = 4
  TZ_MAX_CHARS = 20
  TZ_MAX_LEAPS = 2
  OUTSIDE = OUTSIDE
  UNSET = UNSET
  NONE = NONE
  UNCLOSED = UNCLOSED
  length <- NameLength
  Threads <- TwoThreads
  Thread1 = Thread1
  Thread2 = Thread2
  Times <- Readings
  GMT = GMT
  TZDEFRULES = TZDEFRULES
  TZDEFAULT = TZDEFAULT
  NULL = NULL
  FAST = FAST
  Names <- Requests
  FileSystems <- Systems
  Moments <- Switches
SPECIFICATION Spec
INVARIANT ZoneAssumed
INVARIANT CompleteUnlessFast
INVARIANT AfterTheTable
INVARIANT RulesObserved
INVARIANT WallTimeKept
PROPERTY GmtRightUnlessLoading

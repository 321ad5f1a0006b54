CONSTANTS
  SECSPERMIN = 2
  MINSPERHOUR = 2
  HOURSPERDAY = 3
  INT_MAX = 40000
  USHRT_MAX = 255
  TIME_T_MAX = 536870911
  NULL = NULL
  NO_STATE = NO_STATE
  NanoSeconds = {7}
  SystemZone <- European
  Zones <- PlainZones
  Instants <- Moments
  Edits <- FieldEdits
  Hints <- AllHints
  PosixEdits <- TmEdits
  UNKNOWN = UNKNOWN
SPECIFICATION PosixSpec
INVARIANT ExistingConverted
INVARIANT SkippedIsError
INVARIANT BackAndForth
INVARIANT ValidSinceReform
INVARIANT ZonesReleased
INVARIANT LocalAnswered

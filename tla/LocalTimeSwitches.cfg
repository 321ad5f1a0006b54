CONSTANTS
  SECSPERMIN = 2
  MINSPERHOUR = 2
  HOURSPERDAY = 3
  INT_MAX = 40000
  TIME_T_MAX = 536870911
  Zones <- PlainZones
  Instants <- PlainMoments
  Edits <- AFewDaysOn
  Hints <- AllHints
SPECIFICATION Spec
INVARIANT ExistingTimeFound
INVARIANT FoundIsRight
INVARIANT HintMeansOffset
INVARIANT Bracketed
PROPERTY SearchNarrows

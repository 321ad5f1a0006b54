CONSTANTS
  SECSPERMIN = 2
  MINSPERHOUR = 2
  HOURSPERDAY = 3
  INT_MAX = 40000
  TIME_T_MAX = 268435455
  Zones <- OddZones
  Instants <- OddMoments
  Edits <- Arithmetic
  Hints <- AllHints
SPECIFICATION Spec
INVARIANT ClockRight
INVARIANT RefusedIsExtreme
INVARIANT RoundTrip

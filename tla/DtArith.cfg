CONSTANTS
  t1 = t1
  t2 = t2
  i1 = i1
  i2 = i2
  o1 = o1
  c1 = c1
  p1 = p1
  NULL = NULL
  Undefined = Undefined
  LONG_MAX = 1
  NANO = 2
  TS <- Timestamps2
  IV <- Intervals2
  OFF <- Offsets1
  CMP <- Compares1
  PX <- Posix1
  Words <- AllWords
  OffsetInputs <- AllOffsets
  ClockReadings <- Readings
  Multipliers <- Factors
  NanoPointers <- PosixOrNull
SPECIFICATION MCSpec
VIEW Observed
CHECK_DEADLOCK FALSE
INVARIANT TypeOK
INVARIANT RoundTrip
INVARIANT Undo
PROPERTY ImplementsTimeline
 

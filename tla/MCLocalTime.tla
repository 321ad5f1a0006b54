---------------------------- MODULE MCLocalTime ----------------------------
(***************************************************************************)
(* Instants and requests for TLC.                                          *)
(***************************************************************************)
EXTENDS LocalTime, MCZones

(* What the theorems about found times ask for is so in these zones.       *)
ASSUME OrderlyAssumption == WideInts /\ \A z \in PlainZones \cup {Repeating} : Orderly(z)

PlainMoments ==
  Near(European, Hour + 1) \cup Near(American, Hour + 1) \cup Around(0, 3)
  \cup Around(2 * Year - 6, 3) \cup {-71 * 4383, -300 * 4383}

LeapMoments == Around(181 * SECSPERDAY, 4) \cup Around(365 * SECSPERDAY, 5)
  \cup Around(500 * SECSPERDAY, 4) \cup {-7, -1, 0, 1}

OddZones    == {Leaping, Repeating}
CyclicMoments ==
  UNION {Around(First(Repeating) + k * SECSPERREPEAT, 3) : k \in -2 .. 2}
  \cup UNION {Around(Last(Repeating) + k * SECSPERREPEAT, 3) : k \in {-1, 0, 1}}
Extremes ==
  {TIME_T_MIN, TIME_T_MAX} \cup UNION {Around((INT_MAX - EPOCH_YEAR + k) * Year, 2) : k \in -2 .. 2}
  \cup UNION {Around((INT_MIN + TM_YEAR_BASE - EPOCH_YEAR + k) * Year, 2) : k \in -2 .. 2}
OddMoments == LeapMoments \cup CyclicMoments \cup Extremes

AnHourOn   == {NoEdit, Edit(0, 0, 0, 1, 0, 0), Edit(0, 0, 0, -1, 0, 0)}
AFewDaysOn == AnHourOn \cup
  {Edit(0, 0, 0, 0, 0, 5), Edit(0, 14, 0, -40, 0, 0), Edit(0, -13, -40, 0, 0, -9)}
Arithmetic == AFewDaysOn \cup
  {Edit(0, 0, 0, 0, -7, 0), Edit(1, 0, 800, 0, 0, 0),
   Edit(INT_MAX - 200, 0, 0, 0, 0, 0), Edit(0, 0, INT_MAX - 40, 120, 0, 0)}
AllHints   == {-1, 0, 1, 2}
=============================================================================

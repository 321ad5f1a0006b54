---------------------------- MODULE MCConversion ----------------------------
(***************************************************************************)
(* Timestamps and edits for TLC, in the zones and units of MCZones.        *)
(***************************************************************************)
EXTENDS Conversion, MCZones

Day(n) == Around(n * SECSPERDAY, 2)

(* Days since the epoch: 1 January of the years 0 and 1, the end of        *)
(* February 1500, 4 to 15 October 1582, the ends of February 1900 and 2000.  *)
Historic ==
  UNION {Day(n) : n \in {-719528, -719162, -171605, -171604, -141438, -141430, -141427,
                         -25509, -25508, 11015, 11016, 11017}}

Moments == Historic \cup Near(European, 5) \cup Around(0, 5)

Recent == Near(European, 5) \cup Around(0, 5)

FieldEdits ==
  {NoEdit, Edit(0, 0, 0, 1, 0, 0), Edit(0, 0, -1, 2, 0, 0), Edit(-1, 11, 31, 0, 1, 0)}

(* A day or an hour too late, the month before the first, an hour that is  *)
(* no unsigned short.                                                      *)
TmEdits ==
  {NoEdit, Edit(0, 0, 1, 0, 0, 0), Edit(0, 0, 30, 0, 0, 0), Edit(0, 0, 0, 1, 0, 0),
   Edit(0, -12, 0, 0, 0, 0), Edit(0, 0, 0, USHRT_MAX + 1, 0, 0)}
AllHints == {-1, 0, 1}
=============================================================================

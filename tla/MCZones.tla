------------------------------ MODULE MCZones ------------------------------
(***************************************************************************)
(* Zones for TLC: an hour has 4 units, a day 12, a year 4380 or 4392.      *)
(***************************************************************************)
EXTENDS LibTzClock

Hour == SECSPERHOUR
Year == SECSPERREPEAT \div YEARSPERREPEAT

Std(h) == ttinfo(h * Hour, 0)
Dst(h) == ttinfo(h * Hour, 1)

(* Forward in spring and back in autumn, for two years.                    *)
Summer   == 90 * SECSPERDAY
Autumn   == 300 * SECSPERDAY
European ==
  Zone(<<Summer, Autumn, Year + Summer, Year + Autumn>>, <<2, 1, 2, 1>>,
       <<Std(1), Dst(2)>>, FALSE, FALSE, <<>>)

(* West of Greenwich, daylight saving time first in the table of types, a  *)
(* standard time given up, clocks put back and forward at other times.     *)
American ==
  Zone(<<-Summer, Summer, Autumn, Autumn + 5 * SECSPERDAY>>, <<2, 1, 2, 3>>,
       <<Dst(-1), Std(-2), Std(-1)>>, FALSE, FALSE, <<>>)

(* No transition at all.                                                   *)
Fixed == Zone(<<>>, <<>>, <<Std(0)>>, FALSE, FALSE, <<>>)

(* Two leap seconds of one unit, one that is two units long, and one that  *)
(* is left out.                                                            *)
Leaping ==
  Zone(<<>>, <<>>, <<Std(1)>>, FALSE, FALSE,
       <<lsinfo(181 * SECSPERDAY, 1), lsinfo(365 * SECSPERDAY + 1, 2),
         lsinfo(365 * SECSPERDAY + 2, 3), lsinfo(500 * SECSPERDAY + 2, 2)>>)

(* A table that repeats itself.                                            *)
Repeating ==
  Zone(<<Summer, Autumn, SECSPERREPEAT + Summer, SECSPERREPEAT + Autumn>>, <<2, 1, 2, 1>>,
       <<Std(0), Dst(1)>>, TRUE, TRUE, <<>>)

Around(x, n) == (x - n) .. (x + n)
Near(z, n)   == UNION {Around(z.ats[i], n) : i \in 1 .. Len(z.ats)}

PlainZones  == {European, American, Fixed}

Edit(y, mo, d, h, mi, s) ==
  [year |-> y, mon |-> mo, mday |-> d, hour |-> h, min |-> mi, sec |-> s]

NoEdit     == Edit(0, 0, 0, 0, 0, 0)
=============================================================================

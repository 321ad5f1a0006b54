---------------------------- MODULE MCDtCalendar ----------------------------
(* Walks of DtCalendar for TLC, one around each place where the calendar   *)
(* does something.                                                         *)
EXTENDS DtCalendarDays

At(y, m, d) == [year |-> y, month |-> m, day |-> d, hour |-> 0]

Walk(first, last) == [first |-> first, last |-> last]

(* The last day before Christ and the first after, the first leap day, the *)
(* last Julian century leap day, the passage to the Gregorian calendar,    *)
(* leap and common centuries.                                              *)
Turns ==
  {Walk(At(-1, 12, 28), At(1, 1, 4)),     Walk(At(4, 2, 26), At(4, 3, 3)),
   Walk(At(1500, 2, 26), At(1500, 3, 3)), Walk(At(1582, 9, 28), At(1583, 1, 4)),
   Walk(At(1699, 12, 28), At(1700, 3, 3)), Walk(At(1999, 12, 28), At(2000, 3, 3)),
   Walk(At(2012, 12, 28), At(2013, 3, 3)), Walk(At(2016, 12, 28), At(2017, 3, 3))}

OneDecade  == {Walk(At(2017, 2, 20), At(2017, 3, 10))}

EndOfHour  == {[minute |-> 59, second |-> 59, nano_second |-> MAX_NANOSECONDS]}
GoodAndBad == EndOfHour \cup
  {[minute |-> 60, second |-> 0, nano_second |-> 0],
   [minute |-> 0, second |-> 60, nano_second |-> 0],
   [minute |-> 0, second |-> 0, nano_second |-> MAX_NANOSECONDS + 1]}
=============================================================================

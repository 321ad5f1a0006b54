----------------------------- MODULE MCWinZones -----------------------------
(***************************************************************************)
(* A registry for TLC.  A year has 8 seconds, and a long reaches from 1902 *)
(* to 2037, as 32 bits do.                                                 *)
(***************************************************************************)
EXTENDS WinZones

Central == TimeZoneInformation(-1, -1, 2, 6)
Chile   == TimeZoneInformation(2, -1, 6, 2)
Russian == TimeZoneInformation(-2, 0, NEVER, NEVER)

Zone(complete, tzi, dynamic, values) ==
  [complete |-> complete, TZI |-> tzi, dynamic |-> dynamic, values |-> values,
   rules |-> [year \in 2007 .. 2012 |-> Central]]

Zones ==
  [zone \in {"Central", "Chile", "Russian", "Empty", "NoRules", "NoNames", "Denied"} |->
     CASE zone = "Central" -> Zone(TRUE, Central, "readable", <<TEXT, FIRST_ENTRY, 2007, LAST_ENTRY, 2008>>)
       [] zone = "Chile"   -> Zone(TRUE, Chile, "missing", <<>>)
       [] zone = "Russian" -> Zone(TRUE, Russian, "readable", <<2012, TOO_LONG, 2010, TEXT, 2011, EMPTY>>)
       [] zone = "Empty"   -> Zone(TRUE, Central, "readable", <<LAST_ENTRY>>)
       [] zone = "NoRules" -> Zone(TRUE, UNREADABLE, "missing", <<>>)
       [] zone = "NoNames" -> Zone(FALSE, Central, "missing", <<>>)
       [] zone = "Denied"  -> Zone(TRUE, Central, "denied", <<>>)]

Asked == DOMAIN Zones \cup {NOT_MAPPED, NO_ALIAS}

(* Without daylight saving time.                                           *)
SystemZone == Russian

(* Years near the ends of the range and of wYear, and the seconds of them. *)
Dates ==
  {Representation(y, second) :
     y \in {-1, 1, 1600, 1601, 1602, 1901, 1902, 1903, 1969, 1970, 1971, 2010, 2037, 2038, 30827, 30828,
            65535, 65536 + 1970},
     second \in 0 .. YEAR - 1}

Today == {((2013 - FIRST_YEAR) * YEAR + 3) * TICKS + 1}

ASSUME WindowsAssumption == WideTicks /\ UsualRules
=============================================================================

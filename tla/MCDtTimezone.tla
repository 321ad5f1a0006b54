---------------------------- MODULE MCDtTimezone ----------------------------
(* Two objects and a small windowsZones.xml: a Windows zone with a default *)
(* and two territories, one of its zones met twice and one (Etc/GMT+10)    *)
(* whose name will do when its file is missing; and a zone with a list of  *)
(* Olsen names.  The last row is beyond the size the generator writes.     *)
EXTENDS TzLifetime

CONSTANTS tz1, tz2

Element(other, territory, types) ==
  [other |-> other, territory |-> territory, types |-> types]

Resource ==
  <<Element("Hawaiian", "001", <<"Honolulu">>), Element("Hawaiian", "PF", <<"Tahiti">>),
    Element("Hawaiian", "US", <<"Honolulu">>), Element("Hawaiian", "ZZ", <<"Etc/GMT+10">>),
    Element("Russian", "RU", <<"Moscow", "Samara">>), Element("UTC", "001", <<"GMT">>)>>

Objects   == {tz1, tz2}
Asked     == {"Hawaiian", "Tahiti", "Etc/GMT+10", "Samara", "UTC"}
Zones     == {"Tahiti", "Etc/GMT+10"}
Posix     == {"Etc/GMT+10"}

ASSUME ResourceAssumption == OneWindowsName
=============================================================================

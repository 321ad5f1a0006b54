CONSTANTS
  tz1 = tz1
  tz2 = tz2
  None = None
  NULL = NULL
  GMT = GMT
  MaxLookups = 2
  TZ <- Objects
  MapZones <- Resource
  tz_unicode_map <- GeneratedMap
  tz_unicode_map_size <- GeneratedSize
  Queries <- Asked
  ZoneFiles <- Zones
  PosixNames <- Posix
SPECIFICATION Spec
INVARIANT EveryZoneFound

# libdt in TLA+

libdt is a C library for dates and times: timestamps and intervals with
nano-seconds, a calendar, time zones of the Olsen database and of Windows,
conversions between them, formatting and parsing. This directory holds its
formal models, the TLC configurations that check them, and machine-checked
proofs. `dt.c` and `tzmapping.c` are in `src/src/`, `dt_unix.c` in `src/src/unix/`,
`libtz.c` in `src/src/unix/libtz/`, `dt_win32.c` in `src/src/win32/`, and the headers
`dt*.h` in `src/include/libdt/`.

- [1 The system](#1-the-system)
- [2 The modules](#2-the-modules)
- [3 The runs](#3-the-runs)
- [4 Fairness](#4-fairness)
- [5 The proofs](#5-the-proofs)
- [6 Divergences from the documentation](#6-divergences-from-the-documentation)
- [7 What is not modelled](#7-what-is-not-modelled)
- [8 Running it](#8-running-it)

## 1 The system

The library keeps no threads and hardly any state of its own. Its state is what
its clients hold (structs of numbers, time-zone objects) and the structures it
allocates for them; the one exception is the state for GMT, which is static. What
is hard in it is therefore, with that exception, not concurrency but numeric
edges, long calculations made of many small cases, a search over a function that
is not monotonic, lists that grow while they are read, objects that several
attempts fill one after the other, memory on error paths, and layers with
different ideas of a calendar.

```
 dt_posix.h   localtime_tz, mktime_tz                        dt.c:512-585
                |            |
 dt_convert.h dt_timestamp_to_representation,                dt_unix.c:71-138
              dt_representation_to_timestamp
                |            |            \
 dt.h         timezone     calendar,      timestamp and interval
              lookup       validation     arithmetic; formats
              dt_unix.c:140-183  dt.c:381-510   dt.c:53-352, 617-857
                |      \
 internal     tzmap_*   libtz: tz_alloc (tzload, tzparse), tz_localtime_r, tz_mktime
              tzmapping.c       unix/libtz/libtz.c
                |
              timezones_map.h, generated by src/scripts/transform.py
```

On Windows `dt_win32.c` takes the place of `dt_unix.c` and libtz: the same functions
of `dt.h` and `dt_convert.h` on top of the registry and of the Windows API.

| Component | State | Operations | What is hard | What makes it correct |
|---|---|---|---|---|
| Timestamp, interval and offset arithmetic (`dt.c`, `dt_unix.c`) | the client's structs: seconds in a `long` or `unsigned long`, nano-seconds in an `unsigned long` that need not be below 10^9 | compare, difference, apply, init, sum, sub, mul, to and from POSIX times, `dt_now` | signed and unsigned words that wrap; carry and borrow next to overflow; results that alias operands; an early store before an error | it computes what exact arithmetic computes, or reports an overflow and changes nothing |
| Calendar (`dt.c`) | none (representations, `struct tm`) | validate, leap year, day of week, day of year, to and from `struct tm` | Julian and Gregorian rules, the ten dropped days, no year zero, truncating division | no hour lost or offered twice; days counted right |
| Time-zone names (`tzmapping.c`, `transform.py`) | a linked list of aliases, an iterator | `tzmap_map`, `tzmap_iterate`, `tzmap_free`; generation of the table | the loop appends to the list its iterator walks; the order of the list decides which zone is taken | the collection is closed, without duplicates, and complete; the loop ends |
| Time-zone objects (`dt_unix.c`) | `dt_timezone_t.state`, malloc'ed `struct state` | `dt_timezone_lookup`, `dt_timezone_cleanup` | several steps of which each may fail; files under TZDIR come and go; no memory | every state has one owner; failures change nothing; the zone is the one asked for |
| libtz, instants to clocks (`libtz.c:1216-1570`) | the tables of a zone | `tz_localtime_r` (`localsub`, `timesub`) | 400-year cycles beyond the table, leap seconds, years that are no int | the clock stands for the instant |
| libtz, clocks to instants (`libtz.c:1600-1997`) | locals of `time1`, `time2`, `time2sub` | `tz_mktime` | binary search over local time, which goes back in autumn; retries with changed input; saved seconds; `tm_isdst` | an instant that exists is found; one that does not is refused |
| Conversions (`dt_unix.c:71-138`) | the client's structs | the two conversions | -1 is an instant and an error; proleptic days in one layer, Julian ones in the other | there and back again |
| POSIX-style API (`dt.c:512-585`) | a time-zone object for the length of a call | `localtime_tz`, `mktime_tz` | early returns between lookup and cleanup; ints cut to unsigned shorts | each path cleans up; what the one makes the other takes back |
| Formatting, parsing (`dt.c:617-857`) | two buffers, positions in them | `dt_to_string`, `dt_from_string` | four writes to a buffer with a room test each; an automaton that tells `%3f` from `%%3f` | never out of the buffer; what is printed is parsed back |
| tzload, tzparse, tz_alloc (`libtz.c:215-1204`) | `struct state` while it is filled; the files under TZDIR | `tz_alloc`, `tz_free` | sizes, types and order from a file; a footer appended to a table; rules that name days in three ways; an object filled by up to three attempts | a zone the conversions can rely on, that observes the rules of its source, and nothing in it left undefined |
| GMT state, legacy API (`libtz.c:1343-1401`) | static `gmt_is_set`, `gmtptr` | `gmtsub`, by any number of threads | a flag set before its data, without a lock | wrong times only while GMT is being loaded |
| Windows backend (`dt_win32.c`) | `dtzi` and `reg_tz_data` of a zone object, the array of years, memory, the registry | `dt_now`, conversions, lookup, cleanup | two epochs, words of 16, 32 and 64 bits, an enumeration that ends on one error only, an array passed by value, memory on every path | instants that show the representation; lookups that end; memory given back |
| Windows strptime (`win32/strptime`) | none | `strptime` | third-party code | external, see section 7 |
| Status texts, export macros, build files, tests | none | | | read as references only |

Order of work, the most important behaviour first: the arithmetic (everything
else computes with it), libtz (the most intricate algorithm), the conversions
which compose it with the calendar, the zone lookup, the formats, then the
sources of zones, which turn what libtz assumes of a zone into a property, and
Windows.

## 2 The modules

Specifications hold state and actions; the properties of each are in a module
of their own that extends it; `MC...` modules give the constants values for TLC.
A definition with a name such as `Narrow_Stuck` next to a definition `Narrow` is
a *slip*: the same step with a plausible mistake. Specifications never use
slips; they are there to try the properties, each of which is violated when some
slip takes the place of the definition it belongs to.

| Component | Specification | Reference, properties | TLC | Proofs |
|---|---|---|---|---|
| Arithmetic | `DtWords`, `DtArith` | `Timeline` (abstract), `DtArithTimeline` | `MCDtArith` | `DtArith_proofs` |
| Calendar | `DtDates`, `CInts`, `DtCalendar` | `DtCalendarDays` | `MCDtCalendar` | `DtCalendar_proofs` |
| Names | `TzMapping` | with the next | with the next | with the next |
| Zone objects | `DtTimezone` (on `TzMapping`) | `TzLifetime` | `MCDtTimezone` | `TzLifetime_proofs` |
| libtz | `LibTzClock`, `LibTzMktime` | `CivilTime` (on the first), `LocalTime` | `MCZones`, `MCLocalTime` | `CivilTime_proofs`, and in the next |
| Conversions, POSIX API | `DtConversion` (on `LibTzMktime`, `DtDates`), `PosixTz` | `Conversion` | `MCConversion` | `Conversion_proofs` (on `CivilTime_proofs`) |
| Formats | `DtFormat` | `DtFormats` | `MCDtFormat` | `DtFormats_proofs` |
| Files, TZ strings, GMT | `TzFile`, `TzString`, `GmtState`, `TzAlloc` (each on the one before, the first on `LibTzClock`) | `PosixRules`, `ZoneSources` | `MCZoneSources` | `ZoneSources_proofs` |
| Windows | `WinTime`, `WinTimezone` | `WinZones` | `MCWinZones` | `WinZones_proofs` |

**DtWords, DtArith.** `LONG_MAX` and `NANO` (10^9 in the code) are constants; the
casts wrap as C words do. The client has variables of each type (`ts`, `iv`,
`off`, `cmp`, `px`) and calls any function with any of them, or NULL, as operand
and result: aliasing is two equal registers. Each function is one action:
validation first, then the calculation, then the store. `dt_mul_interval` keeps its order
(seconds stored before the overflow is decided) and its undefined casts (any
value). Its doubles are exact fractions here; rounding of doubles is left out.
`Timeline` says the same without words, carries or borrows: instants and lengths
are numbers, results that are not on the line are `DT_OVERFLOW`, and nothing
changes then; only for a difference of intervals that would be negative it leaves open
whether that is so or the result is a zero interval (section 6). `ImplementsTimeline`
is the refinement, with the mapping seconds * NANO + nano-seconds.

**DtDates, DtCalendar.** The validation is written as the code has it. The client
walks: it offers every combination of month 0 to 13, day 0 to 32 and hour 0 to
`LastHour` in order, keeps what is accepted, and asks for the day of the week, of
the year and the `struct tm`. The reference, `DayNumber`, counts days.

**TzMapping.** A list is a sequence, an iterator a position; one row of
the table is read in one step, so the list grows visibly under the iterator.
`TzLifetime` has the generator of the table, whose size is the number of XML
elements and not of rows.

**DtTimezone, TzLifetime.** The lookup runs over `TzMapping` as the code does:
map, iterate, allocate. `heap` has the zone in each block, `heads` and `nodes`
count the list memory that is not freed; files change at any step; `malloc` may
fail in `tz_alloc`. `tz_alloc` is modelled here by its outcome: the zone of the
file, a name that is a POSIX TZ string, or GMT; `TzAlloc` has its steps.

**LibTzClock, LibTzMktime.** `localsub` and `timesub` are operators. They take a zone (`struct
state` as `tz_alloc` makes it, predicate `IsZone`) and give a `struct tm` or NULL.
`tz_mktime` is a state machine: `time1` (types two by two), `time2` (seconds
saved, then normalised), `time2sub` (one probe of the binary search per step:
`Probe`, then `Narrow`, `Match` or `Hunt`, then `label`). Seconds per minute,
minutes per hour, hours per day, and the limits of `int` and `time_t` are
constants. The reference, `CivilTime`, is a formula for days and the set of all
instants at which a clock shows a date.

**DtConversion, PosixTz, Conversion.** The two conversions are actions on top of
`tz_localtime_r` and `tz_mktime`; the C library's, used without a zone, is
external and may give an answer or none. `PosixTz` adds `localtime_tz` and
`mktime_tz`, which hold a zone (`held`) from lookup to cleanup: `mktime_tz` is the
lookup, which may not find the name, `MktimeTzConverts` the conversion, which refuses
fields that are no date and cleans up, and `MktimeTzReturns` what follows `tz_mktime`.

**DtFormat, DtFormats.** The automaton, both loops, and each place that writes to
the buffer, char by char where the place matters. Only the year and the
nano-seconds are printed; the C library's `strftime` and `strptime` are external
and know `%Y`, `%%`, literals, and `%p`, which prints nothing as in many locales.

**TzFile, TzString.** Reading is pure: operators take a file or a TZ string, what
the default rules hold and the object as it was found, and give the object as it
is left, with or without success. A file is one or two blocks of tables and a
footer; what is spelled in bytes or characters is a number or a part, and a part
spelled wrong has no number. All checks of `tzload` are there (counts, types,
flags, abbreviations, the order of transitions), and the footer, which is parsed
by `tzparse` into a second object and appended; so is the test whether a table
repeats itself. `tzparse` has its three forms of rule, the years it makes them
into, the default rules it falls back on, and the loop that moves the
transitions of those. Memory nobody has written is `UNSET`.

**GmtState, TzAlloc, ZoneSources.** `tz_alloc` is a state machine: a file, a string
and GMT are tried one after the other on one object, each file being readable or
not at each attempt (`tzsetwall` for no name, the fast way for an empty one).
`gmtsub` is one per thread, in steps: test, flag, header, table, conversion. The
reference for rules, `PosixRules`, names days by their numbers and by sets of
days, where the program has congruences, loops and tables; the properties
compare what `localsub` of `LibTzClock` shows in the zone that was made with what the
rules say.

**WinTime, WinTimezone, WinZones.** Words wrap as those of Windows do: ticks in 64
bits, seconds in a `long`, years in 16. The Windows API is external and modelled
by what its documentation and the code here expect of it; what it may answer for
a local time that comes twice or is skipped is a set. A lookup goes step by step
through `GetTimeZoneInformationByName`, the opening of the key with the rules of
single years, the enumeration of its values, and the reading of the years, with
a count of the blocks of each kind; the key may be deleted meanwhile. The name of a
value may be a year, a text (for which the year before it is taken again,
`lastYear`), or one of those the code knows. The mapping
of names that comes first is that of `TzMapping` and not repeated.

## 3 The runs

Nine runs pass; in three TLC finds the violation that is named in section 6.

| Run | Question | Distinct states |
|---|---|---|
| `DtArith` | Is the arithmetic of timestamps, offsets and intervals exact, and are offsets undone by their inverse? | 14 172 |
| `DtCalendarWalk` | Is any hour lost or counted twice, at any turn of the calendar? | 503 522 |
| `DtTimezoneLifetime` | Do lookups find the right zone, return, and own what they allocate? | 31 696 |
| `LocalTimeSwitches` | Does `tz_mktime` find what exists around every switch? | 647 133 |
| `LocalTimeCycles` | Is the clock right beyond the table, at leap seconds, at the ends of int? | 995 438 |
| `Conversions` | Do the layers agree, and do the POSIX functions clean up? | 244 456 |
| `DtFormat` | Is anything written beyond a buffer, and is what is printed parsed back? | 75 866 |
| `ZoneFiles` | Is what `tz_alloc` makes of files and strings a zone, and the right one? Is GMT right? | 7 204 |
| `WinZones` | Do lookups on Windows leave no more than they do, do they end, are the rules those of the zone, and what do conversions make of them? | 929 |
| `DtTimezoneLostZones`, `WinNow`, `WinYears` | Does the code keep what `dt.h` says? | violated |

What the bounds are, and why they are enough:

- **Arithmetic.** `LONG_MAX = 1`, `NANO = 2`: a `long` has 4 values and a second two
  units. Every value of every word is an input, so that each
  carry, borrow and overflow meets each other one. The proofs show that the size
  of the words does not matter. A behaviour of `MCDtArith` is one of three kinds
  (`kind`): with timestamps and offsets, with timestamps and POSIX times, or with
  intervals. The calls of one kind read no variable that those of another write, but
  for the timestamps, so nothing is lost but products of values that never
  meet. `VIEW Observed` leaves out `fn` and `status` of the last call:
  no action reads them, except whether the process is alive, which is in the
  view. All these properties are about single states
  without `fn` and `status`, or about single steps, which are all generated. The
  process dies of a NULL `nano_second`, so there is no check for deadlock.
- **Calendar.** Real units and real years. A walk starts a few days before a turn
  and ends a few days after: BC to AD, the first leap day, the last Julian
  century leap day, October 1582, a leap and two common centuries, an ordinary
  year and a leap year. Hours go to 25, so 24, which the code accepts, and 25 are
  both offered; clocks are the last nano-second of an hour and three invalid
  ones. A walk ends, so there is no check for deadlock.
- **Zone objects.** Two objects, two lookups that allocate (`MaxLookups`), a table
  of seven rows made by the generator from six elements: a zone that appears for two territories, a Windows
  name with three zones, an element with two Olsen names, a name that is a POSIX
  TZ string. Files come and go at each step.
- **libtz.** A minute has 2 seconds, an hour 2 minutes, a day 3 hours; months, leap
  years and cycles are the real ones. So a day has 12 units, and all units around a
  switch can be tried. The zones: two types with two years of switches; three
  types, west of Greenwich, where the standard offset changes as well; none;
  leap seconds, one after the other, two at once and one left out; a table of 400
  years that repeats. `INT_MAX` is 40000, because `timesub` estimates a year
  from the days, as an int: with a smaller one, the estimate would be refused where
  it never is with 32 bits (`WideInts`). `TIME_T_MAX` reaches beyond all those years, as
  64 bits do, so that probes of a search are refused; it has some 30. That the zones without leap seconds are
  `Orderly`, which theorems of section 5 ask for, is an `ASSUME` of `MCLocalTime`.
- **Conversions.** The same zones and units, timestamps in years 0 and 1, 1500,
  October 1582, 1900, 2000 and around the switches and the epoch; unsigned
  shorts up to 255; edits that move by an hour, a day or a month, to dates that do not
  exist, and out of an unsigned short.
- **Formats.** Every sequence of up to three of nine items, buffers of twelve
  sizes from 1 char to enough for the longest, two representations, and seven
  strings that were not printed. `FMT_BUFFER` is 8 instead of 255, so that
  formats that are too long exist.

- **Files and strings.** A minute has 2 seconds, an hour 2 minutes, a day 3 hours.
  `TZ_MAX_TIMES` is 824: enough for the two switches of each of the 400 years of a
  cycle and of some before and after it, as the code's own 1200 is, so that tables repeat
  themselves when they should. `TZ_MAX_TYPES` is 4: a zone and a footer fill it,
  and one type more has no room; `TZ_MAX_LEAPS` and `TZ_MAX_CHARS` are as tight. There
  are some twenty files: complete ones, and one for each check that may refuse or
  cut them; six TZ strings that are right and eight that are wrong; default rules
  that are American, repeat for ever, or are not there. A zone is looked at one
  second before, at and after its switches, in years near and 800 years away.
  Two threads are as many as the race needs (the theorem has any number).
- **Windows.** A year has 8 seconds and no months, a second 2 ticks; a `long` reaches
  from 1902 to 2037, as 32 bits do, and years wrap at 65536. The registry has seven
  zones: summer in the north and in the south, no summer, rules of single years
  or not, names, rules or permissions that are missing, and values that are no
  years, texts among them. The zone of the system has no daylight saving time: with
  it `dt_win32.c:249` and `:308` refuse every conversion (section 6). `MaxLookups` is 2 for each of the four outcomes. When they are used up the
  client stops, and a deleted key leaves the lookup in its loop: there is no
  check for deadlock.

What the properties say is at each of them. The ones that carry most:

- `ImplementsTimeline` (arithmetic): exact or `DT_OVERFLOW`, and then unchanged.
- `NoDayLost` (calendar): of two hours accepted with nothing accepted in between,
  the second follows the first.
- `CollectionRight` (names): the collection is the closure of the name asked for,
  without duplicates, although the iterator is not started again. `RightZone`: the
  order of the list leads to the zone asked for.
- `ExistingTimeFound`, `FoundIsRight`, `Bracketed`, `SearchNarrows`, `HintMeansOffset` (libtz): the
  binary search does not lose the instants it looks for, ends, and respects
  `tm_isdst`.
- `ClockRight`, `RefusedIsExtreme`, `RoundTrip` (libtz): right beyond
  the table and up to the last year of an int.
- `ValidSinceReform`, `BackAndForth`, `ExistingConverted`, `SkippedIsError` (conversions): two
  calendars and two error conventions that agree where they should.
- `WithinBuffer`, `PrintedRight`, `BackAgain` (formats).
- `ZoneAssumed`, `CompleteUnlessFast` (sources): whatever fails, conversions get what
  they rely on, with the exceptions the code has. `AfterTheTable`, `RulesObserved`,
  `WallTimeKept`: decades after the last transition of a file, the rules of the
  footer hold.
- `GmtRightUnlessLoading`: what the race over GMT can do, and what it cannot.
- `NothingMoreLeaks`, `LookupEnds`, `RulesOfTheZone`, `InstantRightIfAny` (Windows): what a
  lookup may leave at most, when it ends, and what is right in the zone it gives.

Some of these claim what the documentation does only where the code keeps it
(`WeekdayRightEarlyInCentury`, `WallTimeKept`, `NothingMoreLeaks`, `RulesOfTheZone`,
`InstantRightIfAny`, `GmtRightUnlessLoading`). Nothing is claimed of the rest: a
change of the code for the better satisfies them as well. Section 6 lists what they
leave out.

## 4 Fairness

`DtTimezone` and `WinTimezone` state fairness: weak fairness of the steps of a
lookup. A lookup is a function that runs in the caller's thread and waits for
nothing; it goes on unless the process ends. The client, the files and the
registry have none. Under it `LookupReturns` says that a lookup comes to its end,
whatever the files do meanwhile, and with it the loop over a list that grows;
and `LookupEnds` that one on Windows does, unless the key it enumerates is
deleted: then it goes round for ever.

That `tz_mktime` ends needs no fairness as it is stated: `SearchNarrows` is a
decreasing measure, checked on every step. `GmtState` and `TzAlloc` have only
safety properties.

## 5 The proofs

The provers check these theorems for all values of the constants that the named
assumptions allow.

| Theorem | Says | Assumes |
|---|---|---|
| `TypeCorrect` (`DtArith_proofs`) | every register keeps its C type | `WordAssumption` |
| `RoundTripCorrect` | an offset between two timestamps leads from the one to the other | `WordAssumption` |
| `UndoCorrect` | an accepted offset can be taken back | `WordAssumption` |
| `TimelineImplemented` | `DtArith` implements `Timeline` | `WordAssumption`, `UndefinedAssumption` |
| `WalkInvariant` (`DtCalendar_proofs`) | the inductive invariant of the walk | `WalkAssumption` |
| `NoDayIsLost` | `NoDayLost` for every walk in every year | `WalkAssumption` |
| `WeekdayIsRight` | `WeekdayRightEarlyInCentury`: the day of the week in the first 17 years of every century | `WalkAssumption` |
| `DayOfYearIsCounted` | `DayOfYearCounts`: the day of the year in every year, and the ten days of 1582 | `WalkAssumption` |
| `StatesAreOwnedOnce` (`TzLifetime_proofs`) | `OwnedOnce`: no state leaked, shared or dangling | `TimezoneAssumption` |
| `CollectionsAreRelated` | `NoDuplicates` and `Related`, two of the three parts of `CollectionRight`, for every table | `TimezoneAssumption`, `TableAssumption` |
| `CollectionsAreRight` | `CollectionRight`, for every table in which no name leads to two Windows names | `TimezoneAssumption`, `TableAssumption`, `OneWindowsName` |
| `ZonesAreRight` | `RightZone` for every table and whatever files come and go | `TimezoneAssumption`, `TableAssumption` |
| `ClockIsRight` (`Conversion_proofs`) | `ClockRight` in every zone, for every instant | `UnitAssumption`, `SearchAssumption`, `SoundLeapsAssumption` |
| `FoundOnTheClock` | `FoundIsRight` in every zone, for every request but those below | the same |
| `SearchEnds` | `SearchNarrows` for a `time_t` of every width | `SearchAssumption` |
| `SearchIsBracketed` | `Bracketed`, unless the clock passes over what is searched for | the same |
| `ExistingIsFound` | `ExistingTimeFound`, the same | the same |
| `UnskippedIsRight` | `FoundIsRight`, the same, with all of `time1` and `time2` | the same |
| `ReadingsComeBack` | `RoundTrip`, the same | the same |
| `OnlyExtremesAreRefused` | `RefusedIsExtreme`, in every zone that is `Modest` | the same, `WideInts` |
| `OrderlyTimesAreFound` | `ExistingTimeFound`, in every zone that is `Orderly`, for every regular request | the same, `WideInts` |
| `OrderlyTimesAreRight` | `FoundIsRight`, there | the same, `WideInts` |
| `OrderlyReadingsComeBack` | `RoundTrip`, there | the same, `WideInts` |
| `HintsMeanOffsets` | `HintMeansOffset`, in every zone that is `Modest` and has no leap seconds, for every request three years and more from the extreme ones (`Roomy`) | the same, `WideInts` |
| `EveryPathCleansUp` | `ZonesReleased` | none |
| `SkippedTimesAreErrors` | `SkippedIsError`, when the seconds fit in a minute | those of `ClockIsRight`, `ConversionAssumption`, `PosixAssumption` |
| `ConvertsBackAndForth` | `BackAndForth` | the same |
| `ReadingsAreValid` | `ValidSinceReform`, but for leap seconds | the same |
| `AnswersAreOnTheClock` | the half of `LocalAnswered` that says an answer is right, also if the clock passes over the time | the same |
| `ExistingAreConverted` | `ExistingConverted`, unless the clock passes over it | the same |
| `LocalTimesAreAnswered` | `LocalAnswered`, the same | the same |
| `OrderlyTimesAreConverted` | `ExistingConverted`, in every zone that is `Orderly`, for every regular request | the same, `WideInts` |
| `OrderlyTimesAreAnswered` | `LocalAnswered`, there | the same, `WideInts` |
| `NothingIsWrittenBeyond` (`DtFormats_proofs`) | `WithinBuffer` for every format, representation and buffer | `CharsAssumption`, `FormatAssumption` |
| `GmtOnceLoaded` (`ZoneSources_proofs`) | `GmtRightUnlessLoading` for any number of threads | `UnitAssumption`, `NoneAssumption`, `GmtAssumption`, `FilesAssumption` |
| `ZonesAreAssumed` | `ZoneAssumed` for all files, strings and names | `SoundSources`, `UnitAssumption`, `SizeAssumption`, `NoneAssumption`, `GmtAssumption`, `FilesAssumption`, `RequestAssumption` |
| `ZonesAreComplete` | `CompleteUnlessFast`, the same | the same, and that `UNSET` is like no number, truth value or sequence |
| `WallTimesAreKept` | `WallTimeKept`, the same | those of `ZonesAreAssumed` |
| `RulesAreObserved` | `RulesObserved` for all strings, at integer instants | those of `ZonesAreAssumed`, `WideInts`, `TZ_MAX_TIMES` from 2 to `INT_MAX` |
| `FootersTakeOver` | `AfterTheTable` for all files, at integer instants up to the last year of an int | those of `ZonesAreAssumed`, `ExtensibleSources`, `MomentsInTime`, `WideInts`, `TZ_MAX_TIMES` up to `INT_MAX` |
| `LookupsLeakNoMore` (`WinZones_proofs`) | `NothingMoreLeaks` for every registry | `RegistryAssumption` |
| `RulesAreOfTheZone` | `RulesOfTheZone` for every registry | `RegistryAssumption` |
| `InstantsAreRight` | `InstantRightIfAny` for every registry and rules | `RegistryAssumption`, `WinAssumption`, `WideTicks`, `UsualRules` |

`WordAssumption` asks that two nano-second parts can be added in an unsigned long
and that a second has at least two units: with 64 bits as with 32.

*Arithmetic.* `TypeOK` is inductive as it stands: one step per call
(`TypeStep`). The calculations are lemmas about exact quantities: `QuantityOrder`
(the order of pairs is the order of numbers), `QuantityAdd`, `CarryLemma`,
`BorrowExact`; from them `OffsetBetweenExact`, `ForwardExact`, `BackwardExact`,
`SumIntervalsExact`, `SubIntervalsExact`. `RoundTrip` and `Undo` follow with
`InstantInjective`: two valid timestamps at the same place are the same.
`TimelineImplemented` maps the initial state and each call (`...Refined`), using
`TypeOK` before the step.

*Calendar.* `NoDayLost` is about two accepted candidates and does not follow from
the state before the step. `WalkInv` adds what happened in between: everything
between the representation held and the candidate would be refused. It is
inductive because the candidates are consecutive (`CandidatesInOrder`). Then
`TomorrowValid`, `TomorrowNext` and `TomorrowCounts` show that the next valid
date is the next day on the scale. `WeekdayLemma` computes the congruence of the
code, with C's truncating division, for every Gregorian year. `DaysBeforeIs` unrolls
the loop over the months, and `DayOfYearLemma` compares what it sums with the scale:
from one 1 January to the next there are the leap days of the one rule or the other
(`LeapYearCounts`), and within 1582 ten days less than the code counts.

*Zone objects.* Ownership: a block beyond those handed out is free, and a lookup in
progress writes to an object that owns nothing (`BlockInv`, `OwnerInv`, `PcInv`);
without these `OwnedOnce` does not follow from the state before the step. The
list: every insertion extends it with aliases of one row (`InsertAlias`,
`InsertMapping`), an extension of a list without duplicates has none, and what a row
adds is related to what the iterator stands at (`ListInv`). The first alias of
a list that leads to a zone is one of the name asked for (`FirstInv`), and a block
keeps the zone it was filled with (`ZoneInv`). That the collection is closed when
`tzmap_map` returns is not a matter of each step, because the iterator may stop before
its end and is never started again. `CompletionInv` says why it is: whatever
row of the Windows name comes first in the table, the loop over that name takes all of
its rows, and a list without any row of the name asked for stays empty. `KinInv` adds
that no other name of the collection leads anywhere else. Both need a table in which no
name leads to two Windows names (`OneWindowsName`): in `windowsZones.xml` none of the
435 elements breaks this, and TLC checks it of the table of the runs. With a name that
belongs to two Windows names, the code would return the one half of the collection.

*The calendar of libtz.* `CivilTime_proofs` is about the operators only. The
recursive functions of `LibTzClock` are the loops of the code. `RecursionSolved`
shows that a function defined by recursion on a measure is what its definition
says, and `WalkArrives` that a loop which gets closer to its end with every round
comes to it and keeps what every round keeps. Both rest on the least element of a
set of numbers and not on the library's induction theorems, which take a predicate
as a parameter. Upon these stand: leap years before a year (`LeapsBetween`), days
before a month (`MonthStartTable`), the year of a day in any number of guesses
(`FindYearRight`), in single steps (`StepYearRight`), the fields of an
instant (`TimesubRight`), 400 years as a whole number of weeks with the same
calendar (`SameInEveryCycle`, `CyclesBackRight`), the leap seconds that the
backward search counts, and how often second 60 is hit (`LeapsRight`,
`HitsRight`). Together they give `LocalsubRight`: whatever `localsub` answers is a
`struct tm` that counts the instant. `ClockIsRight` says so of every state after
`tz_localtime_r`.

`SoundLeapsAssumption` is a hypothesis on zones, and TLC checks that the zones of
the runs satisfy it: leap seconds come one by one, one that is inserted stands at
the end of a minute of the local clock, and tables that repeat have none. A zone
file may hold anything else (`tzload` does not look), and then the clock is wrong:
with an inserted second in the middle of a minute `timesub` shows a second 60 next
to a minute that is not over, and in a table that repeats, `localsub` takes the
leap seconds of the year it moved the instant to.

*What tz_mktime finds.* That `Narrow`, `Match` and `Hunt` leave the loop with a
right instant does not follow from the state before the step. `MktimeInv` keeps
what the search knows: what was asked for, normalised or not (`NormalizedRight`:
months, days, hours and minutes that are carried are the same civil time), which
seconds are saved (`SavedRight`), that the clock at the instant under comparison
is what `localsub` said, and that a match shows it (`Shows`). The theorem excludes
two kinds of answers (`Unguessed`). One is those of `time1`'s guesses, which it
makes when the search for the type asked for has found nothing: `FoundIsRight`
then says that there was nothing to find, and that is completeness (see below);
what a guess means is `HintMeansOffset` (below). The other is a second try with seconds
out of the minute: when the `localsub` of `label` fails after the seconds are
added, `tm_year` and `tm_isdst` are overwritten already, and the second try looks
for another date. For all others, an instant that is answered is one at which the
clock shows what was asked for. The proof found that `FoundIsRight` must take the
seconds saved from the fields after normalisation: with a year before 1970 in its
unnormalised form the code saves others.

*What a guess means.* `HintInv` says what is in `tm` at each step: the request, or the
request moved by the difference of the pair of types `time1` tries (`InWork`). That
there is never more than one such move takes that a guess that fails is undone before
the next (`GuessIsUndone`), and with the fields put back in the order they were
changed. An answer shows the request in work on a clock of a type of its kind
(`OnAClock`); with two types, that is the one the guess moved the time to, and its
offset takes the move back. In a modest zone each move is less than two years, so
that a request that is `Roomy` keeps away from the years where `label` refuses.

*The search.* The interval is not empty and the middle lies in it, although the
halves are rounded before they are added (`MiddleInside`); what the clock shows
there does not matter.

*Whatever exists is found.* The clock is not monotonic, and a binary search needs
no less: each probe keeps one end of the interval on the early side of the time
looked for and the other on the late side (`Ends`, in `RunInv`), and between an
instant that is too early and one that is too late there is one that is neither,
or two neighbours where the clock passes over the time (`Crossing`). That
`tmcomp` orders normal dates as they follow each other is `ComparedRight`; that the
two ends of `time_t` are early and late at the start, with instants refused by
`localsub` counted as the code counts them (`libtz.c:1794`), is in `RunInv` too. So if the clock does
not pass over the time (`~Skips`), the interval holds one of its instants until the
search stands on it. `SureInv` goes on from there: the first attempt finds what
exists, or the hunt for the other `tm_isdst` does, which goes through the types of
the zone from the instant found to one of the right kind (`OtherType`).
The hypotheses of `ExistingIsFound` (`Unskipped`) are that the seconds are in the
minute, that the fields fit ints when they are normalised, that the clock does not
pass over the time, and that a zone has no leap seconds when `tm_isdst` is given
(the hunt adds the difference of two offsets and does not look at them). A clock passes
over times that do not exist, in spring; over one that does, only when
it is put forward and back within less time than it is put back.

*Which zones.* `~Skips` is a condition on what `localsub` answers at every instant,
and one would rather have one on the table. `Orderly` is: no leap seconds; offsets
shorter than a year, and a table that repeats ends in years an int holds (`Modest`);
the clock is not changed again before the difference of any two offsets has gone by
(`Apart`); and a table that repeats has, 400 years before its last transition, one to
the same offset, and 400 years after its first one too (`Recurs`, which is what
`tzload` sets `goback` and `goahead` for, `libtz.c:568`). The tables of the tz database
that have no leap seconds are of that kind. `OrderlyIsSettled` shows that the offset
then is, for as long as two offsets differ, the same before each change and the same
after it (`Settled`), also where one 400-year cycle follows another, before the table
and after it (`SettledAhead`, `SettledBack`). From that, `ShownIsNotSkipped`: a time
the clock passes over at one instant it shows at none. So the theorems about `Orderly`
zones say no word about the search: what exists is found. `Regular` remains, of the
request: seconds in the minute, fields that fit ints when they are normalised, and not
the first or last two years of an int.

*What is refused.* For that, `localsub` must answer at every instant of those years,
and `RefusedIsExtreme` says the same to the client. `FindYearAnswers` follows
`timesub`'s loop over the years: its estimates start at the epoch and never go past the
year of the day (`OnTheWay`), so that none overflows; `StepYearAnswers` does so for single years,
`TimesubAnswers` for the whole, and `LocalsubAnswers` for the instants outside of the
table, whose year is counted within it and moved back by whole cycles
(`MovedInTable`). Each bounds a product by its factors, and the linear arithmetic is
left to the solver. `WideInts` asks for `INT_MAX` of at least 40000: the first year of
an int `tm_year` is `INT_MAX` + 71 years before the epoch, and that the first estimate,
which divides the days by 366, still is an int takes somewhat more than C's 32767; a
32-bit int is far beyond.

*POSIX functions.* A zone is held from its lookup to the answer, through the refusal of
fields that are no date or the return of `tz_mktime`, and it is the one cleanup is
given (`HeldInv`); a name that is not found leaves none (`UnknownUnanswered`). The other theorems about them carry
the invariants of `tz_mktime` over to `PosixSpec` (`MktimeStaysPosix`: the search
neither knows nor changes who asked) and add `ConvInv`: which zone, request and
representation belong to the call in progress, up to the answer.
`ConvertsBackAndForth` then follows from the soundness of the search and
`SameReading`: two instants at which a clock shows a civil time are shown as the
same fields. `ExistingAreConverted` and `LocalTimesAreAnswered` take the
invariants of the search as well (`WholeInv`); `Showable` is `Unskipped` for what the
two functions ask of `tz_mktime`, and `OrderlyRep` is `OrderlyRequest`. `UsualClock` in `ReadingsAreValid` asks for minutes and hours that
are at most those of `dt.c`, and that no leap second is shown:
`dt_validate_representation` refuses second 60 (`dt.c:388`), which libtz produces.

*Formats.* `WithinBuffer` alone is not inductive. While `dt_to_string` prints, what is
in the buffer up to the position `eos` are characters of the text, `eos` leaves room
for the 0, and each part of the text that has been written put a 0 behind it
(`PrintInv`). The automaton finds a placeholder only within the rest of the format,
with all of its characters, which is an induction over the places it can be at in each
state (`PlaceholdersInside`); so what is before it is a part of the format, and what
`strftime` makes of that has no 0 in it (`TextsAreTexts`), like the digits
(`FractionsAreTexts`). `CharsAssumption` says that formats have none either: the 0 ends
them in C. Each of the four writes is then one of `PutInside`.

*Files and strings.* `AllocInv` says what one attempt of `tz_alloc` leaves to the next:
an object in which some fields may be unset, others may be what a file wrote that was
refused later. It must leave nothing the next attempt relies on, and a reader that
succeeds must set every field (`AttemptKeeps`, `AttemptsKeep`). For each reader there
is a lemma about what it makes (`BlockMakes`, `FileMakes`, `StringMakes`, `GmtMakes`).
The loops over a block are functions on its indices; that the transitions that are kept
are in order, by a test that compares only neighbours, is `KeptInOrder`, and that it
misses the last pair is the exception in the property. A table that repeats itself spans
400 years (`RepeatsSpans`). The footer's transitions come after those of the table
(`FollowingComes`, `ExtendedMakes`). In a string with two rules the transitions of one
year and of the next are in order although times and offsets move them (`ApartIsInTurn`,
`ByRulesMakes`), because rules that `getrule` and `getoffset` accept move them by at most
three weeks together (`AtMostAWeek`). Without rules, the transitions of `TZDEFRULES` are
moved by offsets and stay in order as well (`BorrowedMakes`).

That they are moved to the right time of day, `WallTimeKept`, compares two tables with
the same indices (`MadeFrom`; `MadeInv` keeps which string and which files a zone is
from). The offset the code takes as the one in force is that of the standard type
before, `StandardBefore`, and the last standard type before a transition is the same in
both tables. So a clock is changed at the wall time of the default rules if it is
standard time that ends there, or if both zones save the same (`WallTimes`).

That the rules of a string mean what `PosixRules` says, `RulesObserved`, begins with one
day: the numbers of days by formula and by table are the same (`DayNumberIs`), Zeller's
congruence finds the day of the week of a first of a month (`ZellerRight`), the n-th
such day from there is the n-th of the set of those of the month, or the last one
(`NthCalled`, with `EverySeventh`), and `Jn` never counts February 29 (`CommonDay`). So
`tzparse` computes the events that the rules name (`DayNamedIs`, `EventsNamed`); they come
in the order of their years (`EventsInOrder`), whichever of the two is first in a year,
and the table of a zone holds exactly those of its years (`Observes`, `ByRulesObserves`).
The type `localsub` takes is that of the last event by the instant (`TypeOfEvent`), and
that event tells whether daylight saving time has begun and not ended
(`EventsWindow`, `DstByEvent`). What remains is that the fields of a `struct tm` make the
instant and the offset again (`ClockIs`, `CountedByDay`), for which `localsub` must
answer: the table ends in years an int holds (`TableModerate`), if it has no more
entries than an int counts.

That a zone goes on as the footer of its file says, `AfterTheTable`, joins two tables
(`Behind`, `BehindComes`; `FileInv` keeps which file a zone is from). Among the
transitions of the footer the type is that of the last event (`RuledWithin`). Before
the first of them it is that of the file's last transition, and the last event is the
same one as there, because the footer's table would otherwise have begun earlier
(`BetweenThem`, `RuledBetween`): so if the file ends as its footer goes on, there is
no gap. For the time after it, and before it if the file has no transitions, the
calendar repeats itself after 400 years, days of the week included (`RuleDaysAgain`), hence
so do the events and which of them is the last (`EventsAgain`, `LastAgain`), and the
table holds 401 of the footer's years. So `tzload` finds that it repeats itself
(`RulesAgain`, `RepeatsThere`), and the instant that `localsub` looks up in place of a
later or an earlier one is whole cycles away (`SeenEarlier`, `SeenLater`) and sees the
same event (`RuledAfter`, `RuledBefore`).

`ExtensibleSources` is what that takes of a file whose footer has rules, and TLC checks
it of the files of the run: a table without leap seconds, with offsets shorter than a
year, that ends in 1972 or later, leaves room for 803 entries and ends 403 years before the
last that `tzparse` makes. With the 1200 entries of the program (`tzfile.h:121`) that is a
table of at most 397 transitions that ends before 2167. A file with fewer free entries is
read without an error and need not be found to
repeat itself. `MomentsInTime` says that instants are integers before the last
year of an int.

`SoundSources` is the hypothesis on files and strings. It holds what neither `tzload`
nor `tzparse` looks at: that no two neighbouring transitions are equal; that leap seconds
come in order, the first an inserted one; that rules are more than three weeks apart; that the
transitions of `TZDEFRULES` are more than two weeks apart and its offsets shorter than one.
Files of the tz database and strings in use are like that, and TLC checks it of all
files and strings of the run. Missing, refused and truncated files are not
excluded, nor are tables in the wrong order, nor types, counts, abbreviations and
footers that are wrong.

*GMT.* Once the flag is set and nobody is loading, the state is complete
(`GmtInv`): each thread that begins to load ends with the whole table, and two
that load at once write the same. That GMT has a table of leap seconds at all,
whichever of its files is missing or refused, is `GmtHasLeaps`; it needs that the
string `GMT` parses (`LastDitchHolds`).

*Windows.* What a lookup holds at each of its steps (`HeapInv`), and that the object
has no table of years (`NoTable`), because the array is passed by value. For the
instants, `UtcOf` and `UnixTimeIs` show that the 64-bit tick counts do not overflow and
that the casts lose nothing, `ShownIs` and `ReadBack` that a representation made from a
local time is read as that local time, and `AnswersAreRight` that of all instants the
system may answer, each shows it. `WideTicks` says that a `long` of 32 bits lies
within the ticks and years of Windows, and `UsualRules` that the end of a `long` does
not cut in two an hour that comes twice: then the answer could be the one outside.

Not proved, only model-checked, and why:

- Liveness: `LookupReturns`, `LookupEnds` (ENABLED and fairness are beyond the provers
  used here).
- What formats mean (`PrintedRight`, `BackAgain`), a case distinction over the whole
  of a format, which the run enumerates.

## 6 Divergences from the documentation

Three have a run that shows them.

- `DtTimezoneLostZones`: the generated table size is too small, and the rows at
  the end are never read (`src/scripts/transform.py:61`).
- `WinNow`: `dt_now` of Windows counts from 1601 and not from 1970, and cuts that to
  a `long` (`dt_win32.c:185`).
- `WinYears`: the rules that the registry has for single years are never used, because
  the array of years is passed by value (`dt_win32.c:630`). `posixcase.cpp:94`
  expects other offsets of Moscow in January 2009 than in January 2013.

For others there is a property that claims nothing where the code does not do what is
promised:

- The day of the week, "1-7, 1 is Sunday" by `dt.h:250`, is wrong from year 17 of each century on (`dt.c:442`;
  `WeekdayRightEarlyInCentury`), and before the year 0 it may be outside of 1 to 7.
- `tzload` does not look at the order of the last pair of transitions
  (`libtz.c:435`), and `tzparse` leaves `goback` and `goahead` as the default rules set
  them (`libtz.c:940`): `ZoneAssumed`.
- `tz_alloc` for an empty name leaves `goback`, `goahead` and `charcnt` as `malloc` does, and
  conversions read them (`libtz.c:1182`): `CompleteUnlessFast`.
- With default rules, daylight saving time that is not one hour ends at the wrong
  time: the loop never updates `isdst` (`libtz.c:1095`), which its comment
  (`libtz.c:1081`) relies on: `WallTimeKept`.
- `gmtime_r`, "re-entrant" by its comment (`libtz.c:1392`), may show a wrong time
  while another thread loads GMT: `GmtRightUnlessLoading`.
- `dt_sub_intervals` of a lesser and a greater interval returns `DT_OVERFLOW`, as
  `dt_case.cpp:588` has it; `dt.h:160` says "Zero interval is returned":
  `Timeline`, and with it `ImplementsTimeline`, allows either.
- On Windows every lookup leaks a path (`dt_win32.c:697`) or a table and the years
  (`:706`), which no cleanup frees as `dt.h:209` and `:218` say: `NothingMoreLeaks`
  is a bound.
- There a key that is deleted hangs a lookup (`dt_win32.c:638`): `LookupEnds`. The rules of
  UTC are taken for rules that cannot be read (`:400`): `RulesOfTheZone`. The zone of the
  system, which NULL stands for by `dt.h:228` and `:239`, is refused if it has daylight saving time
  (`:249`, `:308`), where `dt_case.cpp:682` expects `DT_OK`: `InstantRightIfAny`.

The models show more, for which no property is kept:

- A name without a file is answered with `DT_OK` and the rules of GMT
  (`libtz.c:1193`).
- `dt_to_string` copies a format raw when what it prints does not fit but the format
  does (`dt.c:708`).
- `dt_mul_interval` reports `DT_OVERFLOW` for every product under one second
  (`dt.c:373`), having changed the result, where `dt_types.h:45` speaks of
  overflow.
- Timestamps before the epoch are converted to POSIX times, which
  `dt_convert.h:55-56` excludes, and a NULL `nano_second`, which `dt_convert.h:59`
  allows, is written through (`dt.c:594`).
- Hour 24 of every day is valid (`dt.c:388`); `dt_types.h:94` has hours to 23.
- The year 0, which is no valid year, is converted to (`dt.c:502`).
- The instant -1 cannot be converted back (`dt_unix.c:131`), nor passed to
  `localtime_tz` (`dt.c:522`).
- `mktime_tz` refuses fields that are out of their ranges instead of normalising
  them as `mktime` does, cuts them to unsigned shorts first, and ignores `tm_isdst`.
- A lookup leaves the head of its collection, and the whole of it when memory
  runs out (`dt_unix.c:163`).
- A part of a format that prints nothing, such as `%p` in some locales, is taken
  for a failure of `strftime`; an empty format leaves the buffer as it was.
- A zone made of a TZ string has no daylight saving time before 1970, nor beyond the
  years its table has room for. `ats[timecnt - 1]` is read for a table without
  transitions (`libtz.c:493`), where `goback` and `goahead` happen to be, both zero by then.
- On Windows a year is cut to 16 bits, an instant to a `long` of 32 bits, both with
  `DT_OK`; the second timestamp of an ambiguous time is never set; a name whose
  aliases have no Windows name ends with `DT_NO_MORE_ITEMS`; and `dtzi` is left
  dangling after a failure and after cleanup.

## 7 What is not modelled

- **Windows strptime** (`win32/strptime`): a copy of NetBSD's, third-party code. It
  is external to `DtFormat`, as that of the C library is.
- **Legacy API of libtz**: `offtime`, `ctime`, `asctime` and the functions that share one
  static `struct tm`, and the names of zones that `tzset` exports. libdt calls none
  of them. `posix2time` and `time2posix` are compiled out.
- **dt_strerror** (`dt.c:74-103`), a table of texts; `export.h`, build files, tests.
- **Data below what the properties tell apart**: bytes of a zone file, spelling of
  TZ strings, names of months, abbreviations of zones but for their number and
  whether they fit; locales; what doubles round.
- **Ends of int** in `dt.c:473` and `:502`, which are undefined behaviour no run
  enters; a first leap second whose correction is not the usual one, with which
  `libtz.c:1457` reads before its table.
- **Failures that are left out**: `malloc` in the Windows backend and in the mapping of
  names, strings that are too long for Windows' buffers, clients that clean up a
  zone twice, and NULL arguments where the model says so.
- **Files that are there for one thread and not for another** in `GmtState`: they are the
  same for all threads of a behaviour, and differ between behaviours.
- `typecnt`, which the fast way of `tz_alloc` leaves at 0 (`libtz.c:1188`) with one type set:
  conversions take the first type without looking at it.
- The calendar of Windows has no months in `WinTime`; dates of changes are those of
  one rule.

## 8 Running it

```
tlasany DtArith.tla
tlc -workers 2 -config LocalTimeSwitches.cfg MCLocalTime.tla
tlapm DtArith_proofs.tla
```

The longest run takes about two minutes, the longest proof (`Conversion_proofs`)
about ten.
`PROJECT.json` lists the components, runs, findings, hazards and theorems, the
source lines of every definition (`map`), and for every property the slip that
violates it (`mutants`).

-------------------------- MODULE ZoneSources_proofs --------------------------
(***************************************************************************)
(* Proofs about GmtState and TzAlloc, for any number of threads and        *)
(* whatever the zone files hold: gmtime_r is wrong while GMT is being      *)
(* loaded, and never after; and of sound files and strings tz_alloc makes  *)
(* zones that conversions can rely on, whichever of them are missing or    *)
(* refused, but for the exceptions that ZoneAssumed names; a zone that     *)
(* follows the default rules does so on its own clock, and one made of a   *)
(* string with rules of its own shows what POSIX has them mean; and where  *)
(* the transitions of a file end, the rules of its footer take over.       *)
(***************************************************************************)
EXTENDS ZoneSources, CivilTime_proofs, SequenceTheorems

Leaps == Seq([trans : Int, corr : Int])

-----------------------------------------------------------------------------
(***************************************************************************)
(* Whether the files of GMT and of the default rules are there, refused or *)
(* missing, GMT has a table of leap seconds.                               *)
(***************************************************************************)
HasLeaps(file) == file = NoFile \/ file.blocks[Len(file.blocks)].lsis \in Leaps

(***************************************************************************)
(* A file that is accepted gives its own.                                  *)
(***************************************************************************)
LEMMA TablesHaveLeaps ==
  ASSUME NEW file, NEW start, HasLeaps(file), ReadTables(file, start).ok
  PROVE  ReadTables(file, start).sp.lsis \in Leaps
BY DEF ReadTables, Outcome, FromBlock, HasLeaps

(***************************************************************************)
(* What is done to a zone afterwards leaves its leap seconds alone.        *)
(***************************************************************************)
LEMMA RepeatsKeepsLeaps ==
  ASSUME NEW start
  PROVE  Repeats(start).lsis = start.lsis
BY DEF Repeats

(***************************************************************************)
(* Neither does a footer add to them.                                      *)
(***************************************************************************)
LEMMA FooterKeepsLeaps ==
  ASSUME NEW start, NEW footer, NEW parsed
  PROVE  WithFooter(start, footer, parsed).lsis = start.lsis
BY DEF WithFooter, Extended

(***************************************************************************)
(* The default rules give theirs, or none.                                 *)
(***************************************************************************)
LEMMA DefaultHasLeaps ==
  ASSUME NEW default, HasLeaps(default), NEW start, "lsis" \in DOMAIN start
  PROVE  WithDefault(default, start).sp.lsis \in Leaps
<1> DEFINE loaded == ReadTables(default, start)
<1>1. CASE loaded.ok
  BY <1>1, TablesHaveLeaps, RepeatsKeepsLeaps DEF WithDefault, DefaultTables, Outcome
<1>2. CASE ~loaded.ok
  <2>1. "lsis" \in DOMAIN loaded.sp
    BY <1>2 DEF ReadTables, Outcome, Memory
  <2>2. <<>> \in Leaps
    BY DEF Leaps
  <2> QED
    BY <1>2, <2>1, <2>2 DEF WithDefault, DefaultTables, Outcome
<1> QED
  BY <1>1, <1>2

(***************************************************************************)
(* "GMT" is a TZ string: the last ditch holds.                             *)
(***************************************************************************)
LEMMA LastDitchHolds ==
  ASSUME NEW default, NEW start
  PROVE  tzparse(LastDitch(GMT), default, start).sp
           = [OneType(WithDefault(default, start).sp, LastDitch(GMT), 0) EXCEPT !.charcnt = length(GMT) + 1 + 0]
<1>1. getsecs(<<0>>) = 0
  <2> DEFINE ranges == <<0 .. HOURSPERDAY * DAYSPERWEEK - 1, 0 .. MINSPERHOUR - 1, 0 .. SECSPERMIN>>
             units  == <<SECSPERHOUR, SECSPERMIN, 1>>
  <2>1. Len(<<0>>) = 1 /\ <<0>>[1] = 0 /\ ranges[1] = 0 .. HOURSPERDAY * DAYSPERWEEK - 1
    OBVIOUS
  <2>2. 0 \in ranges[1]
    BY <2>1, UnitAssumption DEF DAYSPERWEEK
  <2>3. Within(<<0>>, ranges)
    <3> HIDE DEF ranges
    <3>1. 1 .. Len(<<0>>) = {1} /\ <<0>> # <<>>
      BY <2>1
    <3> QED
      BY <2>1, <2>2, <3>1 DEF Within
  <2>4. units[1] = SECSPERHOUR /\ SECSPERHOUR \in Int
    BY UnitAssumption DEF SECSPERHOUR
  <2> QED
    BY <2>1, <2>3, <2>4 DEF getsecs
<1>2. getoffset(Offset(FALSE, <<0>>)) = 0
  BY <1>1, NoneAssumption DEF getoffset, Offset
<1> DEFINE tz == LastDitch(GMT)
<1>3. tz.std = GMT /\ tz.off = Offset(FALSE, <<0>>) /\ tz.dst = NONE
  BY DEF LastDitch, TzText
<1> HIDE DEF tz
<1>4. tzparse(tz, default, start)
        = Named(Outcome(TRUE, OneType(WithDefault(default, start).sp, tz, 0)), tz)
  <2>1. getoffset(tz.off) = 0
    BY <1>2, <1>3
  <2>2. 0 # NONE
    BY NoneAssumption
  <2>3. tz.std # UNCLOSED
    BY <1>3, GmtAssumption
  <2> QED
    BY <1>3, <2>1, <2>2, <2>3 DEF tzparse
<1>5. tzparse(tz, default, start).sp
        = [OneType(WithDefault(default, start).sp, tz, 0) EXCEPT !.charcnt = length(GMT) + 1 + 0]
  BY <1>3, <1>4 DEF Named, Outcome
<1> QED
  BY <1>5 DEF tz

(***************************************************************************)
(* So GMT has leap seconds, whatever becomes of its file.                  *)
(***************************************************************************)
LEMMA GmtHasLeaps ==
  ASSUME files \in FileSystems
  PROVE  GmtLeaps \in Leaps
<1> DEFINE file    == files[GMT]
           default == files[TZDEFRULES]
           loaded  == tzload(file, default, Memory)
           tables  == ReadTables(file, Memory)
<1>1. HasLeaps(file) /\ HasLeaps(default)
  BY FilesAssumption DEF HasLeaps, Leaps
<1>2. GmtLeaps = OrLastDitch(loaded, default).lsis
  BY DEF GmtLeaps, gmtload
<1>3. CASE tables.ok
  <2>1. loaded.ok /\ loaded.sp.lsis = tables.sp.lsis
    BY <1>3, RepeatsKeepsLeaps, FooterKeepsLeaps DEF tzload, AfterTables, Outcome
  <2> QED
    BY <1>1, <1>2, <1>3, <2>1, TablesHaveLeaps DEF OrLastDitch
<1>4. CASE ~tables.ok
  <2>1. loaded = tables
    BY <1>4 DEF tzload, AfterTables
  <2>2. "lsis" \in DOMAIN tables.sp
    BY <1>4 DEF ReadTables, Outcome, Memory
  <2>3. GmtLeaps = tzparse(LastDitch(GMT), default, tables.sp).sp.lsis
    BY <1>2, <1>4, <2>1 DEF OrLastDitch
  <2>4. GmtLeaps = WithDefault(default, tables.sp).sp.lsis
    <3> DEFINE z   == OneType(WithDefault(default, tables.sp).sp, LastDitch(GMT), 0)
               all == length(GMT) + 1 + 0
    <3>1. GmtLeaps = [z EXCEPT !.charcnt = all].lsis
      BY <2>3, LastDitchHolds
    <3>2. [z EXCEPT !.charcnt = all].lsis = z.lsis
      <4> HIDE DEF z, all
      <4> QED
        OBVIOUS
    <3>3. z.lsis = WithDefault(default, tables.sp).sp.lsis
      BY DEF OneType
    <3> QED
      BY <3>1, <3>2, <3>3
  <2> QED
    BY <1>1, <2>2, <2>4, DefaultHasLeaps
<1> QED
  BY <1>3, <1>4

-----------------------------------------------------------------------------
(***************************************************************************)
(* The flag is set before any thread goes past it.  Once it is and nobody  *)
(* is loading, the state is complete: every thread that begins to load     *)
(* ends with the whole table, and what another one has written meanwhile   *)
(* is the same.                                                            *)
(***************************************************************************)
GmtInv ==
  /\ files \in FileSystems
  /\ DOMAIN at = Threads /\ DOMAIN seen = Threads
  /\ (\E t \in Threads : at[t] \notin {"out", "set"}) => gmt_is_set
  /\ gmt_is_set /\ (\A t \in Threads : at[t] \notin {"load", "leaps"})
       => gmtmem = [leapcnt |-> Len(GmtLeaps), lsis |-> GmtLeaps]

(***************************************************************************)
(* Nobody is past the flag at first.                                       *)
(***************************************************************************)
LEMMA GmtInitially == Init => GmtInv
BY DEF Init, GmtInit, GmtInv

(***************************************************************************)
(* A thread that loads leaves a complete state, whoever else is loading,   *)
(* and one that does not load leaves the state as it is.                   *)
(***************************************************************************)
LEMMA ThreadKeepsGmt ==
  ASSUME GmtInv, NEW t \in Threads, GmtStep(t) \/ \E x \in Times : gmtsub(t, x),
         UNCHANGED files
  PROVE  GmtInv'
<1>1. GmtLeaps' = GmtLeaps
  BY DEF GmtLeaps
<1> HIDE DEF GmtLeaps
<1>2. CASE SetFlag(t) \/ LoadCount(t)
  BY <1>1, <1>2 DEF GmtInv, SetFlag, LoadCount, Goes
<1>3. CASE LoadTable(t)
  BY <1>1, <1>3 DEF GmtInv, LoadTable, Goes
<1>4. CASE Convert(t) \/ Return(t)
  BY <1>1, <1>4 DEF GmtInv, Convert, Return, Goes
<1>5. CASE \E x \in Times : gmtsub(t, x)
  BY <1>1, <1>5 DEF GmtInv, gmtsub, Goes
<1> QED
  BY <1>2, <1>3, <1>4, <1>5 DEF GmtStep

(***************************************************************************)
(* tz_alloc does not touch the state of GMT.                               *)
(***************************************************************************)
LEMMA GmtStays ==
  ASSUME GmtInv, [Next]_vars
  PROVE  GmtInv'
<1>1. CASE /\ \E t \in Threads : GmtStep(t) \/ \E x \in Times : gmtsub(t, x)
           /\ UNCHANGED files
  BY <1>1, ThreadKeepsGmt
<1>2. CASE UNCHANGED <<files, gmt_vars>>
  BY <1>2 DEF GmtInv, gmt_vars, GmtLeaps
<1> QED
  BY <1>1, <1>2 DEF Next, vars, tz_alloc, Load, tzsetwall, Parse, LoadGmt, Attempt, Free

-----------------------------------------------------------------------------
(***************************************************************************)
(* gmtime_r shows a wrong time only to a thread that finds the flag set    *)
(* while another one is loading (libtz.c:1351): afterwards it is right, in *)
(* every thread, however many have loaded at once.                         *)
(***************************************************************************)
THEOREM GmtOnceLoaded == Spec => GmtRightUnlessLoading
<1> DEFINE Right(t) ==
             \/ \E u \in Threads \ {t} : at[u] \in {"load", "leaps"}
             \/ timesub(timep[t], 0, [lsis |-> seen'[t]], NoTm)
                  = timesub(timep[t], 0, [lsis |-> GmtLeaps], NoTm)
<1>1. GmtInv => \A t \in Threads : Convert(t) => Right(t)
  <2> SUFFICES ASSUME GmtInv, NEW t \in Threads, Convert(t),
                      \A u \in Threads \ {t} : at[u] \notin {"load", "leaps"}
               PROVE  seen'[t] = GmtLeaps
    OBVIOUS
  <2>1. at[t] = "convert" /\ seen'[t] = InMemory
    BY DEF Convert, Goes, GmtInv
  <2>2. gmtmem = [leapcnt |-> Len(GmtLeaps), lsis |-> GmtLeaps]
    BY <2>1 DEF GmtInv
  <2>3. GmtLeaps \in Leaps
    BY GmtHasLeaps DEF GmtInv
  <2> HIDE DEF GmtLeaps
  <2>4. InMemory = [i \in 1 .. Len(GmtLeaps) |-> GmtLeaps[i]]
    BY <2>2 DEF InMemory
  <2> QED
    BY <2>1, <2>3, <2>4 DEF Leaps
<1>2. GmtInv => [\A t \in Threads : Convert(t) => Right(t)]_vars
  BY <1>1
<1> QED
  BY <1>2, GmtInitially, GmtStays, PTL DEF Spec, GmtRightUnlessLoading

-----------------------------------------------------------------------------
(***************************************************************************)
(* A set of natural numbers has a least one.                               *)
(***************************************************************************)
LEMMA LeastOne ==
  ASSUME NEW S \in SUBSET Nat, S # {}
  PROVE  Min(S) \in S /\ \A m \in S : Min(S) <= m
<1>1. \A x, y \in Nat : <<y, x>> \in OpToRel(<, Nat) <=> y < x
  BY DEF OpToRel
<1>2. \E R : IsWellFoundedOn(R, Nat) /\ \A x, y \in Nat : <<y, x>> \in R <=> y < x
  BY <1>1, NatLessThanWellFounded, Zenon
<1>3. PICK R : IsWellFoundedOn(R, Nat) /\ \A x, y \in Nat : <<y, x>> \in R <=> y < x
  BY <1>2
<1>4. PICK n \in S : \A m \in S : ~(<<m, n>> \in R)
  <2>1. IsWellFoundedOn(R, S)
    BY <1>3, IsWellFoundedOnSubset
  <2> QED BY <2>1, WFMin
<1>5. \A m \in S : n <= m
  <2> SUFFICES ASSUME NEW m \in S PROVE n <= m
    OBVIOUS
  <2>1. m \in Nat /\ n \in Nat /\ ~(m < n)
    BY <1>3, <1>4
  <2> QED BY <2>1
<1> QED BY <1>4, <1>5 DEF Min

(***************************************************************************)
(* Numbers of which each is less than the next: a later one is not less.   *)
(***************************************************************************)
LEMMA Climbing ==
  ASSUME NEW n \in Nat, NEW v, \A i \in 1 .. n : v[i] \in Int, \A i \in 1 .. n - 1 : v[i] < v[i + 1],
         NEW i \in 1 .. n, NEW j \in i .. n
  PROVE  v[i] <= v[j]
<1> DEFINE Bad == {k \in i .. n : v[k] < v[i]}
           k   == Min(Bad)
<1> SUFFICES ASSUME Bad # {} PROVE FALSE
  OBVIOUS
<1>1. k \in Bad /\ \A m \in Bad : k <= m
  <2>1. Bad \in SUBSET Nat
    OBVIOUS
  <2> HIDE DEF Bad
  <2> QED BY <2>1, LeastOne
<1> HIDE DEF k
<1>2. k \in i + 1 .. n /\ v[k] < v[i]
  BY <1>1
<1>3. k - 1 \in i .. n - 1 /\ k - 1 \in 1 .. n /\ k - 1 + 1 = k
  BY <1>2
<1>4. ~(v[k - 1] < v[i])
  BY <1>1, <1>3
<1>5. v[k - 1] < v[k] /\ v[k - 1] \in Int /\ v[k] \in Int /\ v[i] \in Int
  BY <1>2, <1>3
<1> QED BY <1>2, <1>4, <1>5

-----------------------------------------------------------------------------
Fields == {"ats", "types", "ttis", "goback", "goahead", "lsis", "charcnt"}

(* A table of leap seconds as timesub takes it.                            *)
LeapsInTurn(lsis) ==
  /\ lsis \in Leaps
  /\ \A i \in 1 .. Len(lsis) : i = 1 => lsis[i].corr > 0
  /\ \A i \in 1 .. Len(lsis) - 1 : lsis[i].trans < lsis[i + 1].trans

(* A struct state of which the transitions and types may be missing.       *)
Half(z) ==
  /\ DOMAIN z = Fields
  /\ LeapsInTurn(z.lsis)
  /\ z.goback \in BOOLEAN /\ z.goahead \in BOOLEAN

(* These are there, though maybe not in order.                             *)
Tables(z) ==
  /\ z.ats \in Seq(Int) /\ z.types \in Seq(Nat) /\ Len(z.types) = Len(z.ats)
  /\ IsSeq(z.ttis) /\ Len(z.ttis) \in Nat \ {0}
  /\ \A i \in 1 .. Len(z.ats) : z.types[i] \in 1 .. Len(z.ttis)
  /\ \A i \in 1 .. Len(z.ttis) : z.ttis[i].gmtoff \in Int /\ z.ttis[i].isdst \in {0, 1}

Whole(z) == Half(z) /\ Tables(z) /\ z.charcnt \in Int

Spans(z) ==
  z.goback \/ z.goahead => z.ats # <<>> /\ z.ats[Len(z.ats)] - z.ats[1] >= SECSPERREPEAT

(***************************************************************************)
(* What is left to know.                                                   *)
(***************************************************************************)
LEMMA WholeIsZone ==
  ASSUME NEW z, Whole(z), Sorted(z.ats), Spans(z)
  PROVE  IsZone(z)
<1>1. Len(z.ats) \in Nat /\ \A i \in 1 .. Len(z.ats) : z.ats[i] \in Int
  BY DEF Whole, Half, Tables
<1> DEFINE l == z.lsis
<1>2. Len(l) \in Nat /\ \A i \in 1 .. Len(l) : l[i] \in [trans : Int, corr : Int]
  <2> DEFINE S == [trans : Int, corr : Int]
  <2>1. l \in Seq(S)
    BY DEF Whole, Half, Tables, LeapsInTurn, Leaps
  <2> HIDE DEF l, S
  <2>2. Len(l) \in Nat /\ \A i \in 1 .. Len(l) : l[i] \in S
    BY <2>1
  <2> QED BY <2>2 DEF S
<1>3. \A i \in 1 .. Len(l) : l[i].trans \in Int /\ l[i].corr \in Int
  BY <1>2
<1>4. /\ \A i \in 1 .. Len(l) : i = 1 => l[i].corr > 0
      /\ \A i \in 1 .. Len(l) - 1 : l[i].trans < l[i + 1].trans
  BY DEF Whole, Half, Tables, LeapsInTurn
<1>5. /\ Len(z.types) = Len(z.ats) /\ Len(z.ttis) \in Nat \ {0}
      /\ \A i \in 1 .. Len(z.ats) : z.types[i] \in 1 .. Len(z.ttis)
      /\ \A i \in 1 .. Len(z.ttis) : z.ttis[i].gmtoff \in Int /\ z.ttis[i].isdst \in {0, 1}
  BY DEF Whole, Half, Tables
<1> QED BY <1>1, <1>2, <1>3, <1>4, <1>5, Zenon DEF Spans, IsZone

(***************************************************************************)
(* A table that repeats itself spans 400 years.                            *)
(***************************************************************************)
LEMMA RepeatsSpans ==
  ASSUME NEW z, Whole(z), Sorted(z.ats)
  PROVE  Spans(Repeats(z))
<1> DEFINE n == Len(z.ats)
           v == z.ats
           r == Repeats(z)
<1>1. n \in Nat /\ (\A i \in 1 .. n : v[i] \in Int) /\ (\A i \in 1 .. n - 1 : v[i] < v[i + 1])
  <2>1. v \in Seq(Int) /\ Sorted(v)
    BY DEF Whole, Tables
  <2> HIDE DEF v
  <2>2. n \in Nat /\ \A i \in 1 .. n : v[i] \in Int
    BY <2>1, LenProperties, ElementOfSeq DEF v
  <2> QED BY <2>1, <2>2 DEF Sorted, v
<1>2. r.ats = v /\ r.goback = (\E i \in 2 .. n : v[i] - v[1] = SECSPERREPEAT /\ typesequiv(z, z.types[1], z.types[i]))
      /\ r.goahead = (\E i \in 1 .. n - 1 : v[n] - v[i] = SECSPERREPEAT /\ typesequiv(z, z.types[i], z.types[n]))
  BY DEF Repeats, differ_by_repeat, Whole, Fields
<1>3. ASSUME NEW i \in 1 .. n, NEW j \in i .. n, v[j] - v[i] = SECSPERREPEAT
      PROVE  v # <<>> /\ v[n] - v[1] >= SECSPERREPEAT
  <2>1. v[1] <= v[i] /\ v[j] <= v[n]
    <3>1. 1 \in 1 .. n /\ i \in 1 .. n /\ j \in 1 .. n /\ n \in j .. n
      BY <1>1
    <3> HIDE DEF n, v
    <3> QED BY <1>1, <3>1, Climbing
  <2>2. v[1] \in Int /\ v[i] \in Int /\ v[j] \in Int /\ v[n] \in Int /\ n # 0
    BY <1>1
  <2>3. SECSPERREPEAT = v[j] - v[i]
    BY <1>3
  <2> HIDE DEF v, n
  <2>4. v[n] - v[1] >= v[j] - v[i]
    BY <2>1, <2>2
  <2> QED BY <2>2, <2>3, <2>4 DEF v, n
<1>4. ASSUME r.goback \/ r.goahead
      PROVE  \E i \in 1 .. n : \E j \in i .. n : v[j] - v[i] = SECSPERREPEAT
  <2>1. CASE r.goback
    <3>1. PICK i \in 2 .. n : v[i] - v[1] = SECSPERREPEAT
      BY <1>2, <2>1
    <3>2. 1 \in 1 .. n /\ i \in 1 .. n
      BY <1>1
    <3> QED BY <3>1, <3>2
  <2>2. CASE r.goahead
    <3>1. PICK i \in 1 .. n - 1 : v[n] - v[i] = SECSPERREPEAT
      BY <1>2, <2>2
    <3>2. i \in 1 .. n /\ n \in i .. n
      BY <1>1
    <3> QED BY <3>1, <3>2
  <2> QED BY <1>4, <2>1, <2>2
<1> HIDE DEF r
<1> QED BY <1>2, <1>3, <1>4 DEF Spans, r

(***************************************************************************)
(* Repeats sets the two flags.                                             *)
(***************************************************************************)
LEMMA RepeatsWhole ==
  ASSUME NEW z, Whole(z)
  PROVE  Whole(Repeats(z)) /\ Repeats(z).ats = z.ats
<1> DEFINE r == Repeats(z)
<1>1. /\ DOMAIN r = Fields /\ \A f \in Fields \ {"goback", "goahead"} : r[f] = z[f]
      /\ r.goback \in BOOLEAN /\ r.goahead \in BOOLEAN
  BY DEF Repeats, Whole, Half, Fields
<1> HIDE DEF r
<1>2. r.ats = z.ats /\ r.types = z.types /\ r.ttis = z.ttis /\ r.lsis = z.lsis /\ r.charcnt = z.charcnt
  BY <1>1 DEF Fields
<1> QED BY <1>1, <1>2 DEF Whole, Half, Tables, r

(***************************************************************************)
(* The transitions tzload keeps are there, and in order but for the last   *)
(* pair.                                                                   *)
(***************************************************************************)
LEMMA KeptInOrder ==
  ASSUME NEW v \in Seq(Int), \A i \in 1 .. Len(v) - 1 : v[i] # v[i + 1]
  PROVE  /\ InOrder(v) \in 0 .. Len(v)
         /\ ~(Len(v) > 1 /\ v[Len(v) - 1] > v[Len(v)]) => \A i \in 1 .. InOrder(v) - 1 : v[i] < v[i + 1]
<1> DEFINE drops == {i \in 1 .. Len(v) - 2 : v[i] > v[i + 1]}
           n     == InOrder(v)
<1>1. n = IF drops = {} THEN Len(v) ELSE Min(drops)
  BY DEF InOrder
<1>2. Len(v) \in Nat /\ \A i \in 1 .. Len(v) : v[i] \in Int
  OBVIOUS
<1>3. drops # {} => n \in drops /\ \A m \in drops : n <= m
  <2>1. drops \in SUBSET Nat
    OBVIOUS
  <2> HIDE DEF drops, n
  <2> QED BY <1>1, <2>1, LeastOne
<1> HIDE DEF n
<1>4. n \in 0 .. Len(v)
  <2>1. CASE drops = {}
    BY <1>1, <1>2, <2>1
  <2>2. CASE drops # {}
    <3>1. n \in drops
      BY <1>3, <2>2
    <3> QED BY <1>2, <3>1
  <2> QED BY <2>1, <2>2
<1>5. ASSUME ~(Len(v) > 1 /\ v[Len(v) - 1] > v[Len(v)]), NEW i \in 1 .. n - 1
      PROVE  v[i] < v[i + 1]
  <2>1. i \in 1 .. Len(v) - 1 /\ i \in 1 .. Len(v) /\ i + 1 \in 1 .. Len(v) /\ i < n
    BY <1>2, <1>4
  <2>2. v[i] \in Int /\ v[i + 1] \in Int /\ v[i] # v[i + 1]
    BY <1>2, <2>1
  <2>3. ~(v[i] > v[i + 1])
    <3>1. CASE i = Len(v) - 1
      BY <1>2, <1>5, <2>1, <3>1
    <3>2. CASE i # Len(v) - 1
      <4>1. i \in 1 .. Len(v) - 2
        BY <1>2, <2>1, <3>2
      <4>2. i \notin drops
        <5>1. i \in Int /\ n \in Int /\ i < n
          BY <1>4
        <5>2. CASE drops = {}
          BY <5>2
        <5>3. CASE drops # {}
          <6> HIDE DEF drops
          <6> QED BY <1>3, <5>1, <5>3
        <5> QED BY <5>2, <5>3
      <4> QED BY <4>1, <4>2
    <3> QED BY <3>1, <3>2
  <2> QED BY <2>2, <2>3
<1> QED BY <1>4, <1>5 DEF n

(***************************************************************************)
(* Values without a name of their own are those of a sequence.             *)
(***************************************************************************)
LEMMA SequenceOf ==
  ASSUME NEW n \in Nat, NEW s, s = [i \in 1 .. n |-> s[i]]
  PROVE  IsSeq(s) /\ Len(s) = n /\ DOMAIN s = 1 .. n
<1> DEFINE S == {s[i] : i \in DOMAIN s}
<1>1. DOMAIN s = 1 .. n
  OBVIOUS
<1>2. s \in [1 .. n -> S]
  BY <1>1
<1> HIDE DEF S
<1>3. s \in Seq(S)
  BY <1>2, SeqDef
<1>4. Len(s) = n
  <2>1. DOMAIN s = 1 .. Len(s) /\ Len(s) \in Nat
    BY <1>3, LenProperties
  <2> QED BY <1>1, <2>1
<1> QED BY <1>1, <1>3, <1>4 DEF IsSeq, S

(***************************************************************************)
(* A block that passes the checks makes a whole zone.                      *)
(***************************************************************************)
LEMMA BlockMakes ==
  ASSUME NEW b, IsBlock(b), CountsFit(b), ValuesFit(b)
  PROVE  /\ Whole(FromBlock(b)) /\ ~FromBlock(b).goback /\ ~FromBlock(b).goahead
         /\ ~(Len(b.ats) > 1 /\ b.ats[Len(b.ats) - 1] > b.ats[Len(b.ats)]) => Sorted(FromBlock(b).ats)
<1> DEFINE z == FromBlock(b)
           n == InOrder(b.ats)
           m == Len(b.ttis)
<1>1. b.ats \in Seq(Int) /\ b.types \in Seq(Nat \ {0}) /\ Len(b.types) = Len(b.ats)
      /\ \A i \in 1 .. Len(b.ats) - 1 : b.ats[i] # b.ats[i + 1]
  BY DEF IsBlock
<1>2. /\ n \in 0 .. Len(b.ats)
      /\ ~(Len(b.ats) > 1 /\ b.ats[Len(b.ats) - 1] > b.ats[Len(b.ats)])
            => \A i \in 1 .. n - 1 : b.ats[i] < b.ats[i + 1]
  BY <1>1, KeptInOrder
<1>3. m \in Nat \ {0}
  <2>1. b.ttis \in Seq({b.ttis[i] : i \in DOMAIN b.ttis}) /\ b.ttis # <<>>
    BY DEF IsBlock, CountsFit, IsSeq
  <2> QED BY <2>1, LenProperties, EmptySeq
<1>4. /\ DOMAIN z = Fields /\ z.ats = SubSeq(b.ats, 1, n) /\ z.types = SubSeq(b.types, 1, n)
      /\ z.ttis = [i \in 1 .. m |-> TypeInfo(b.ttis[i].gmtoff, b.ttis[i].isdst, b.ttis[i].abbr,
                                             Flag(b.stds, i), Flag(b.gmts, i))]
      /\ z.goback = FALSE /\ z.goahead = FALSE /\ z.lsis = b.lsis /\ z.charcnt = b.charcnt
  BY DEF FromBlock, Fields
<1> HIDE DEF z, n
<1>5. Len(b.ats) \in Nat /\ \A i \in 1 .. n : b.ats[i] \in Int /\ b.types[i] \in Nat \ {0} /\ b.types[i] <= m
  <2>1. Len(b.ats) \in Nat /\ \A i \in 1 .. n : i \in 1 .. Len(b.ats) /\ i \in 1 .. Len(b.types)
    BY <1>1, <1>2
  <2>2. \A i \in 1 .. Len(b.types) : b.types[i] <= m
    BY DEF ValuesFit
  <2> HIDE DEF m
  <2> QED BY <1>1, <2>1, <2>2, ElementOfSeq
<1>6. /\ z.ats \in Seq(Int) /\ Len(z.ats) = n /\ \A i \in 1 .. n : z.ats[i] = b.ats[i]
  <2>1. /\ SubSeq(b.ats, 1, n) \in Seq(Int) /\ Len(SubSeq(b.ats, 1, n)) = IF 1 <= n THEN n - 1 + 1 ELSE 0
        /\ \A i \in 1 .. n - 1 + 1 : SubSeq(b.ats, 1, n)[i] = b.ats[1 + i - 1]
    <3>1. n \in Int
      BY <1>2, <1>5
    <3> QED BY <1>5, <3>1, SubSeqProperties
  <2> QED BY <1>2, <1>4, <1>5, <2>1
<1>7. /\ z.types \in Seq(Nat) /\ Len(z.types) = n /\ \A i \in 1 .. n : z.types[i] = b.types[i]
  <2>1. /\ SubSeq(b.types, 1, n) \in Seq(Nat) /\ Len(SubSeq(b.types, 1, n)) = IF 1 <= n THEN n - 1 + 1 ELSE 0
        /\ \A i \in 1 .. n - 1 + 1 : SubSeq(b.types, 1, n)[i] = b.types[1 + i - 1]
    <3>1. n \in Int /\ \A i \in 1 .. n : b.types[i] \in Nat
      BY <1>2, <1>5
    <3> QED BY <3>1, SubSeqProperties
  <2> QED BY <1>2, <1>4, <1>5, <2>1
<1>8. IsSeq(z.ttis) /\ Len(z.ttis) = m
  <2>1. z.ttis = [i \in 1 .. m |-> z.ttis[i]]
    BY <1>4
  <2> HIDE DEF m
  <2> QED BY <1>3, <2>1, SequenceOf
<1>9. \A i \in 1 .. m : z.ttis[i].gmtoff \in Int /\ z.ttis[i].isdst \in {0, 1}
  <2> SUFFICES ASSUME NEW i \in 1 .. m PROVE z.ttis[i].gmtoff \in Int /\ z.ttis[i].isdst \in {0, 1}
    OBVIOUS
  <2>1. z.ttis[i].gmtoff = b.ttis[i].gmtoff /\ z.ttis[i].isdst = b.ttis[i].isdst
    BY <1>4 DEF TypeInfo
  <2> QED BY <2>1 DEF IsBlock, ValuesFit
<1>10. LeapsInTurn(z.lsis)
  BY <1>4 DEF IsBlock, LeapsInTurn, Leaps
<1>11. \A i \in 1 .. n : z.types[i] \in 1 .. m
  <2> HIDE DEF m
  <2> QED BY <1>3, <1>5, <1>7
<1>12. Whole(z)
  <2>1. z.charcnt \in Int /\ z.goback \in BOOLEAN /\ z.goahead \in BOOLEAN
    <3>1. b.charcnt \in Nat
      BY DEF IsBlock
    <3>2. z.charcnt \in Int
      BY <1>4, <3>1
    <3>3. z.goback \in BOOLEAN /\ z.goahead \in BOOLEAN
      BY <1>4, Zenon
    <3> QED BY <3>2, <3>3
  <2> HIDE DEF m
  <2> QED BY <1>3, <1>4, <1>6, <1>7, <1>8, <1>9, <1>10, <1>11, <2>1, Zenon DEF Whole, Half, Tables
<1>13. (\A i \in 1 .. n - 1 : b.ats[i] < b.ats[i + 1]) => Sorted(z.ats)
  <2> SUFFICES ASSUME \A i \in 1 .. n - 1 : b.ats[i] < b.ats[i + 1], NEW i \in 1 .. Len(z.ats) - 1
               PROVE  z.ats[i] < z.ats[i + 1]
    BY DEF Sorted
  <2>1. i \in 1 .. n - 1 /\ i \in 1 .. n /\ i + 1 \in 1 .. n
    BY <1>2, <1>5, <1>6
  <2> QED BY <1>6, <2>1
<1> QED BY <1>2, <1>4, <1>12, <1>13 DEF z

-----------------------------------------------------------------------------
(***************************************************************************)
(* tzload, without the footer.                                             *)
(***************************************************************************)
LEMMA TablesMake ==
  ASSUME NEW file, IsFile(file), NEW start
  PROVE  LET r == ReadTables(file, start)
         IN  /\ r.ok => /\ file # NoFile /\ r.sp = FromBlock(TableOf(file))
                        /\ IsBlock(TableOf(file)) /\ CountsFit(TableOf(file)) /\ ValuesFit(TableOf(file))
                        /\ Whole(r.sp) /\ ~r.sp.goback /\ ~r.sp.goahead
                        /\ ~LastPairWrong(file) => Sorted(r.sp.ats)
             /\ ~r.ok /\ DOMAIN start = Fields =>
                  DOMAIN r.sp = Fields /\ r.sp.goback = FALSE /\ r.sp.goahead = FALSE
<1> DEFINE r == ReadTables(file, start)
           b == TableOf(file)
<1>1. ASSUME r.ok
      PROVE  /\ file # NoFile /\ r.sp = FromBlock(b)
             /\ IsBlock(b) /\ CountsFit(b) /\ ValuesFit(b)
  <2>1. file # NoFile /\ r.sp = FromBlock(b)
        /\ \A i \in 1 .. Len(file.blocks) : CountsFit(file.blocks[i]) /\ ValuesFit(file.blocks[i])
    BY <1>1 DEF ReadTables, Outcome, TableOf
  <2>2. IsSeq(file.blocks) /\ file.blocks # <<>> /\ \A i \in 1 .. Len(file.blocks) : IsBlock(file.blocks[i])
    BY <2>1 DEF IsFile
  <2>3. Len(file.blocks) \in 1 .. Len(file.blocks)
    <3>1. file.blocks \in Seq({file.blocks[i] : i \in DOMAIN file.blocks}) /\ file.blocks # <<>>
      BY <2>2 DEF IsSeq
    <3>2. Len(file.blocks) \in Nat /\ Len(file.blocks) # 0
      BY <3>1, LenProperties, EmptySeq
    <3> QED BY <3>2
  <2> QED BY <2>1, <2>2, <2>3 DEF TableOf
<1>2. ASSUME ~r.ok, DOMAIN start = Fields
      PROVE  DOMAIN r.sp = Fields /\ r.sp.goback = FALSE /\ r.sp.goahead = FALSE
  <2>1. r = Outcome(FALSE, [start EXCEPT !.goback = FALSE, !.goahead = FALSE])
        \/ r = Outcome(FALSE, [Memory EXCEPT !.goback = FALSE, !.goahead = FALSE])
    BY <1>2 DEF ReadTables, Outcome
  <2>2. DOMAIN Memory = Fields
    BY DEF Memory, Fields
  <2>3. ASSUME NEW z, DOMAIN z = Fields
        PROVE  LET w == [z EXCEPT !.goback = FALSE, !.goahead = FALSE]
               IN  DOMAIN w = Fields /\ w.goback = FALSE /\ w.goahead = FALSE
    BY <2>3 DEF Fields
  <2>4. \E z : DOMAIN z = Fields /\ r.sp = [z EXCEPT !.goback = FALSE, !.goahead = FALSE]
    <3>1. CASE r = Outcome(FALSE, [start EXCEPT !.goback = FALSE, !.goahead = FALSE])
      <4>1. r.sp = [start EXCEPT !.goback = FALSE, !.goahead = FALSE]
        BY <3>1 DEF Outcome
      <4> HIDE DEF r
      <4> QED BY <1>2, <4>1, Zenon
    <3>2. CASE r = Outcome(FALSE, [Memory EXCEPT !.goback = FALSE, !.goahead = FALSE])
      <4>1. r.sp = [Memory EXCEPT !.goback = FALSE, !.goahead = FALSE]
        BY <3>2 DEF Outcome
      <4> HIDE DEF r
      <4> QED BY <2>2, <4>1, Zenon
    <3> QED BY <2>1, <3>1, <3>2
  <2> HIDE DEF r
  <2> QED BY <2>3, <2>4
<1>3. ASSUME r.ok
      PROVE  /\ Whole(r.sp) /\ ~r.sp.goback /\ ~r.sp.goahead
             /\ ~LastPairWrong(file) => Sorted(r.sp.ats)
  <2> HIDE DEF r, b
  <2> QED BY <1>1, <1>3, BlockMakes DEF LastPairWrong, b
<1> QED BY <1>1, <1>2, <1>3

(***************************************************************************)
(* The file of the default rules, read into what tzparse fills.            *)
(***************************************************************************)
LEMMA DefaultMakes ==
  ASSUME NEW default, IsFile(default), NEW start, DOMAIN start = Fields
  PROVE  LET d == WithDefault(default, start)
         IN  /\ Half(d.sp)
             /\ d.ok => /\ default # NoFile /\ Whole(d.sp)
                        /\ d.sp = Repeats(FromBlock(TableOf(default)))
                        /\ IsBlock(TableOf(default)) /\ CountsFit(TableOf(default))
             /\ ~GoesOn(default) => ~d.sp.goback /\ ~d.sp.goahead
<1> DEFINE r == ReadTables(default, start)
           d == WithDefault(default, start)
           m == WithDefault(default, Memory)
<1>1. d = Outcome(r.ok, IF r.ok THEN Repeats(r.sp) ELSE [r.sp EXCEPT !.lsis = <<>>])
  BY DEF WithDefault, DefaultTables
<1>2. CASE r.ok
  <2>1. d.ok /\ d.sp = Repeats(r.sp)
    BY <1>1, <1>2 DEF Outcome
  <2>2. /\ default # NoFile /\ r.sp = FromBlock(TableOf(default)) /\ Whole(r.sp)
        /\ IsBlock(TableOf(default)) /\ CountsFit(TableOf(default))
    BY <1>2, TablesMake
  <2>3. Whole(d.sp)
    BY <2>1, <2>2, RepeatsWhole
  <2>4. m = d
    BY <1>2 DEF WithDefault, DefaultTables, ReadTables, Outcome
  <2> HIDE DEF r, d, m
  <2>5. Half(d.sp)
    BY <2>3 DEF Whole
  <2>6. ~GoesOn(default) => ~d.sp.goback /\ ~d.sp.goahead
    BY <2>1, <2>4 DEF GoesOn, m
  <2> QED BY <2>1, <2>2, <2>3, <2>5, <2>6 DEF d
<1>3. CASE ~r.ok
  <2>1. ~d.ok /\ d.sp = [r.sp EXCEPT !.lsis = <<>>]
    BY <1>1, <1>3 DEF Outcome
  <2>2. DOMAIN r.sp = Fields /\ r.sp.goback = FALSE /\ r.sp.goahead = FALSE
    BY <1>3, TablesMake
  <2> HIDE DEF r
  <2>3. DOMAIN d.sp = Fields /\ d.sp.goback = FALSE /\ d.sp.goahead = FALSE /\ d.sp.lsis = <<>>
    BY <2>1, <2>2 DEF Fields
  <2> HIDE DEF d
  <2>4. LeapsInTurn(<<>>)
    <3>1. <<>> \in Leaps /\ Len(<<>>) = 0
      BY EmptySeq DEF Leaps
    <3> QED BY <3>1 DEF LeapsInTurn
  <2>5. d.sp.goback \in BOOLEAN /\ d.sp.goahead \in BOOLEAN /\ ~d.sp.goback /\ ~d.sp.goahead
    BY <2>3, Zenon
  <2> QED BY <2>1, <2>3, <2>4, <2>5 DEF Half, d
<1> QED BY <1>2, <1>3

-----------------------------------------------------------------------------
(***************************************************************************)
(* Products, for the provers.                                              *)
(***************************************************************************)
LEMMA Times3 ==
  ASSUME NEW a \in Int, NEW b \in Int, NEW c \in Int
  PROVE  /\ a * b \in Int /\ (a + b) * c = a * c + b * c /\ (a - b) * c = a * c - b * c
         /\ (a * b) * c = a * (b * c) /\ a * b = b * a
         /\ a >= 0 /\ c >= 0 => a * c >= 0
         /\ a <= b /\ c >= 0 => a * c <= b * c
BY SMT

(***************************************************************************)
(* The units.                                                              *)
(***************************************************************************)
LEMMA WeekIs ==
  /\ SECSPERMIN \in Nat \ {0} /\ SECSPERHOUR \in Nat \ {0} /\ SECSPERDAY \in Nat \ {0}
  /\ MINSPERHOUR \in Nat \ {0} /\ HOURSPERDAY \in Nat \ {0}
  /\ SECSPERHOUR = SECSPERMIN * MINSPERHOUR
  /\ WEEK = 7 * SECSPERDAY /\ WEEK \in Nat \ {0}
  /\ WEEK = (HOURSPERDAY * DAYSPERWEEK) * SECSPERHOUR
<1>1. SECSPERMIN \in Nat \ {0} /\ MINSPERHOUR \in Nat \ {0} /\ HOURSPERDAY \in Nat \ {0}
  BY UnitAssumption
<1>2. ASSUME NEW a \in Nat \ {0}, NEW b \in Nat \ {0} PROVE a * b \in Nat \ {0}
  BY SMT
<1>3. SECSPERHOUR \in Nat \ {0}
  BY <1>1, <1>2 DEF SECSPERHOUR
<1>4. SECSPERDAY \in Nat \ {0}
  BY <1>1, <1>2, <1>3 DEF SECSPERDAY
<1>5. WEEK = 7 * SECSPERDAY
  BY DEF WEEK, DAYSPERWEEK
<1>6. WEEK \in Nat \ {0}
  BY <1>4, <1>5
<1>7. ASSUME NEW a \in Int, NEW b \in Int PROVE 7 * (a * b) = (b * 7) * a
  BY SMT
<1>8. WEEK = (HOURSPERDAY * DAYSPERWEEK) * SECSPERHOUR
  BY <1>1, <1>3, <1>5, <1>7 DEF SECSPERDAY, DAYSPERWEEK
<1> QED BY <1>1, <1>3, <1>4, <1>5, <1>6, <1>8 DEF SECSPERHOUR

(***************************************************************************)
(* A time of a TZ string is at most a week.                                *)
(***************************************************************************)
LEMMA AtMostAWeek ==
  ASSUME NEW hms, IsClock(hms), getsecs(hms) # NONE
  PROVE  getsecs(hms) \in 0 .. WEEK
<1> DEFINE H == HOURSPERDAY * DAYSPERWEEK - 1
           ranges == <<0 .. H, 0 .. MINSPERHOUR - 1, 0 .. SECSPERMIN>>
           units  == <<SECSPERHOUR, SECSPERMIN, 1>>
           Part(i) == IF i <= Len(hms) THEN hms[i] * units[i] ELSE 0
<1>1. Within(hms, ranges) /\ getsecs(hms) = Part(1) + Part(2) + Part(3)
  BY DEF getsecs
<1>2. hms \in Seq(Int) /\ Len(hms) \in 0 .. 3
  <2>1. hms \in Seq(Int) /\ Len(hms) <= 3
    BY DEF IsClock
  <2>2. Len(hms) \in Nat
    BY <2>1, LenProperties
  <2>3. Len(hms) \in 0 .. 3
    <3> DEFINE n == Len(hms)
    <3>1. n \in Nat /\ n <= 3
      BY <2>1, <2>2
    <3> HIDE DEF n
    <3>2. n \in 0 .. 3
      BY <3>1
    <3> QED BY <3>2 DEF n
  <2> QED BY <2>1, <2>3
<1>3. \A i \in 1 .. Len(hms) : hms[i] \in Int /\ hms[i] \in ranges[i]
  BY <1>1, <1>2, ElementOfSeq DEF Within
<1>4. ranges[1] = 0 .. H /\ ranges[2] = 0 .. MINSPERHOUR - 1 /\ ranges[3] = 0 .. SECSPERMIN
      /\ units[1] = SECSPERHOUR /\ units[2] = SECSPERMIN /\ units[3] = 1
  OBVIOUS
<1>5. H \in Nat /\ MINSPERHOUR - 1 \in Nat
  BY WeekIs DEF DAYSPERWEEK
<1>6. ASSUME NEW a \in Nat, NEW u \in Nat, NEW x \in 0 .. a
      PROVE  x * u \in Nat /\ x * u <= a * u /\ 0 <= a * u /\ a * u \in Nat
  BY SMT
<1> HIDE DEF H
<1>7. Part(1) \in 0 .. H * SECSPERHOUR
  <2>1. CASE 1 <= Len(hms)
    <3>1. hms[1] \in 0 .. H
      <4>1. 1 \in 1 .. Len(hms)
        BY <1>2, <2>1
      <4> HIDE DEF ranges, units
      <4> QED BY <1>3, <1>4, <4>1
    <3> HIDE DEF ranges
    <3>2. Part(1) = hms[1] * SECSPERHOUR
      BY <1>4, <2>1
    <3> HIDE DEF Part
    <3>3. SECSPERHOUR \in Nat
      BY WeekIs
    <3>4. hms[1] * SECSPERHOUR \in Nat /\ hms[1] * SECSPERHOUR <= H * SECSPERHOUR /\ H * SECSPERHOUR \in Nat
      BY <1>5, <1>6, <3>1, <3>3
    <3> QED BY <3>2, <3>4
  <2>2. CASE ~(1 <= Len(hms))
    BY <1>5, <1>6, <2>2, WeekIs
  <2> QED BY <2>1, <2>2
<1>8. Part(2) \in 0 .. (MINSPERHOUR - 1) * SECSPERMIN
  <2>1. CASE 2 <= Len(hms)
    <3>1. hms[2] \in 0 .. MINSPERHOUR - 1
      <4>1. 2 \in 1 .. Len(hms)
        BY <1>2, <2>1
      <4> HIDE DEF ranges, units
      <4> QED BY <1>3, <1>4, <4>1
    <3> HIDE DEF ranges
    <3>2. Part(2) = hms[2] * SECSPERMIN
      BY <1>4, <2>1
    <3> HIDE DEF Part
    <3>3. SECSPERMIN \in Nat
      BY WeekIs
    <3>4. /\ hms[2] * SECSPERMIN \in Nat /\ hms[2] * SECSPERMIN <= (MINSPERHOUR - 1) * SECSPERMIN
          /\ (MINSPERHOUR - 1) * SECSPERMIN \in Nat
      BY <1>5, <1>6, <3>1, <3>3
    <3> QED BY <3>2, <3>4
  <2>2. CASE ~(2 <= Len(hms))
    BY <1>5, <1>6, <2>2, WeekIs
  <2> QED BY <2>1, <2>2
<1>9. Part(3) \in 0 .. SECSPERMIN
  <2>1. CASE 3 <= Len(hms)
    <3>1. hms[3] \in 0 .. SECSPERMIN
      <4>1. 3 \in 1 .. Len(hms)
        BY <1>2, <2>1
      <4> HIDE DEF ranges, units
      <4> QED BY <1>3, <1>4, <4>1
    <3> HIDE DEF ranges
    <3>2. Part(3) = hms[3] * 1
      BY <1>4, <2>1
    <3> QED BY <3>1, <3>2, WeekIs
  <2>2. CASE ~(3 <= Len(hms))
    BY <2>2, WeekIs
  <2> QED BY <2>1, <2>2
<1> HIDE DEF Part
<1>10. (MINSPERHOUR - 1) * SECSPERMIN + SECSPERMIN = SECSPERHOUR
  <2>1. ASSUME NEW a \in Int, NEW b \in Int PROVE (a - 1) * b + b = b * a
    BY SMT
  <2> QED BY <2>1, WeekIs
<1>11. H * SECSPERHOUR + SECSPERHOUR = WEEK
  <2>1. ASSUME NEW a \in Int, NEW b \in Int PROVE (a - 1) * b + b = a * b
    BY SMT
  <2>2. HOURSPERDAY * DAYSPERWEEK \in Int
    BY WeekIs DEF DAYSPERWEEK
  <2> QED BY <2>1, <2>2, WeekIs DEF H
<1> DEFINE p == H * SECSPERHOUR
           q == (MINSPERHOUR - 1) * SECSPERMIN
<1>12. p \in Int /\ q \in Int /\ SECSPERHOUR \in Int /\ SECSPERMIN \in Int
  BY <1>5, WeekIs, Times3
<1> HIDE DEF p, q
<1>13. Part(1) \in 0 .. p /\ Part(2) \in 0 .. q /\ q + SECSPERMIN = SECSPERHOUR /\ p + SECSPERHOUR = WEEK
  BY <1>7, <1>8, <1>10, <1>11 DEF p, q
<1> QED BY <1>1, <1>9, <1>12, <1>13

(***************************************************************************)
(* An offset is one at most, east or west.                                 *)
(***************************************************************************)
LEMMA AtMostAWeekOff ==
  ASSUME NEW offset, IsOffset(offset), getoffset(offset) # NONE
  PROVE  getoffset(offset) \in -WEEK .. WEEK
<1>1. offset # NONE /\ getsecs(offset.hms) # NONE
  BY DEF getoffset
<1>2. getsecs(offset.hms) \in 0 .. WEEK
  BY <1>1, AtMostAWeek DEF IsOffset
<1>3. getoffset(offset) = IF offset.neg THEN -getsecs(offset.hms) ELSE getsecs(offset.hms)
  BY <1>1 DEF getoffset
<1> QED BY <1>2, <1>3, WeekIs

-----------------------------------------------------------------------------
(***************************************************************************)
(* The greatest of a set is known by its place.                            *)
(***************************************************************************)
LEMMA GreatestIs ==
  ASSUME NEW S \in SUBSET Int, NEW m \in S, \A s \in S : s <= m
  PROVE  Max(S) = m
<1>1. \A y \in S : m >= y
  OBVIOUS
<1>2. \A x \in S : (\A y \in S : x >= y) => x = m
  OBVIOUS
<1> QED BY <1>1, <1>2 DEF Max

(***************************************************************************)
(* A set of numbers up to n has a greatest one, which is it.               *)
(***************************************************************************)
LEMMA GreatestOne ==
  ASSUME NEW n \in Nat, NEW S \in SUBSET (1 .. n), S # {}
  PROVE  Max(S) \in S /\ \A s \in S : s <= Max(S)
<1> DEFINE T == {k \in 0 .. n : n - k \in S}
           k == Min(T)
<1>1. k \in T /\ \A m \in T : k <= m
  <2>1. T \in SUBSET Nat
    OBVIOUS
  <2>2. T # {}
    <3>1. PICK s \in S : TRUE
      OBVIOUS
    <3>2. n - s \in 0 .. n /\ n - (n - s) = s
      OBVIOUS
    <3> QED BY <3>1, <3>2
  <2> HIDE DEF T
  <2> QED BY <2>1, <2>2, LeastOne
<1> HIDE DEF k
<1>2. n - k \in S /\ k \in Nat
  BY <1>1
<1>3. ASSUME NEW s \in S PROVE s <= n - k
  <2>1. n - s \in 0 .. n /\ n - (n - s) = s /\ s \in Int
    OBVIOUS
  <2>2. k <= n - s
    BY <1>1, <2>1
  <2> QED BY <1>2, <2>1, <2>2
<1>4. S \in SUBSET Int
  OBVIOUS
<1>5. Max(S) = n - k
  <2> DEFINE m == n - k
  <2>1. m \in S /\ \A s \in S : s <= m
    BY <1>2, <1>3
  <2> HIDE DEF m
  <2>2. Max(S) = m
    BY <1>4, <2>1, GreatestIs
  <2> QED BY <2>2 DEF m
<1> QED BY <1>2, <1>3, <1>5

(* n transitions between two types.                                        *)
TwoTypes(z, n) ==
  /\ n \in Nat
  /\ z.ats = [i \in 1 .. n |-> z.ats[i]] /\ z.types = [i \in 1 .. n |-> z.types[i]]
  /\ \A i \in 1 .. n : z.ats[i] \in Int /\ z.types[i] \in {1, 2}
  /\ \E a, b \in Int, p, q \in {0, 1} : \E s, t :
       z.ttis = <<TypeInfo(a, p, s, 0, 0), TypeInfo(b, q, t, 0, 0)>>

(***************************************************************************)
(* These are tables.                                                       *)
(***************************************************************************)
LEMMA TwoTypesAreTables ==
  ASSUME NEW z, NEW n, TwoTypes(z, n)
  PROVE  Tables(z) /\ Len(z.ats) = n
<1> DEFINE v == z.ats
           u == z.types
<1>1. n \in Nat /\ v = [i \in 1 .. n |-> v[i]] /\ u = [i \in 1 .. n |-> u[i]]
      /\ \A i \in 1 .. n : v[i] \in Int /\ u[i] \in {1, 2}
  BY DEF TwoTypes
<1>2. PICK a \in Int, b \in Int, p \in {0, 1}, q \in {0, 1} :
             \E s, t : z.ttis = <<TypeInfo(a, p, s, 0, 0), TypeInfo(b, q, t, 0, 0)>>
  BY DEF TwoTypes
<1>3. PICK s, t : z.ttis = <<TypeInfo(a, p, s, 0, 0), TypeInfo(b, q, t, 0, 0)>>
  BY <1>2
<1> HIDE DEF v, u
<1>4. v \in Seq(Int) /\ Len(v) = n
  <2>1. v \in [1 .. n -> Int]
    BY <1>1, Zenon
  <2>2. v \in Seq(Int)
    BY <1>1, <2>1, SeqDef
  <2> QED BY <1>1, <2>2, SequenceOf
<1>5. u \in Seq(Nat) /\ Len(u) = n
  <2>1. \A i \in 1 .. n : u[i] \in Nat
    BY <1>1
  <2>2. u \in [1 .. n -> Nat]
    BY <1>1, <2>1, Zenon
  <2>3. u \in Seq(Nat)
    BY <1>1, <2>2, SeqDef
  <2> QED BY <1>1, <2>3, SequenceOf
<1>6. Len(z.ttis) = 2 /\ z.ttis[1] = TypeInfo(a, p, s, 0, 0) /\ z.ttis[2] = TypeInfo(b, q, t, 0, 0)
      /\ z.ttis = [i \in 1 .. 2 |-> z.ttis[i]]
  BY <1>3
<1>7. IsSeq(z.ttis)
  BY <1>6, SequenceOf
<1>8. \A i \in 1 .. 2 : z.ttis[i].gmtoff \in Int /\ z.ttis[i].isdst \in {0, 1}
  <2>1. z.ttis[1].gmtoff = a /\ z.ttis[1].isdst = p /\ z.ttis[2].gmtoff = b /\ z.ttis[2].isdst = q
    BY <1>6 DEF TypeInfo
  <2>2. \A i \in 1 .. 2 : i = 1 \/ i = 2
    OBVIOUS
  <2> QED BY <2>1, <2>2, Zenon
<1>9. \A i \in 1 .. n : u[i] \in 1 .. 2
  BY <1>1
<1>10. 2 \in Nat \ {0}
  OBVIOUS
<1> QED BY <1>4, <1>5, <1>6, <1>7, <1>8, <1>9, <1>10 DEF Tables, v, u

-----------------------------------------------------------------------------
(***************************************************************************)
(* What a zone observed before a transition is an offset it has.           *)
(***************************************************************************)
LEMMA BeforeIsOffset ==
  ASSUME NEW z, Tables(z), \A i \in 1 .. Len(z.ttis) : z.ttis[i].gmtoff \in -WEEK .. WEEK,
         NEW i \in 1 .. Len(z.ats)
  PROVE  StandardBefore(z, i) \in -WEEK .. WEEK
<1> DEFINE n == Len(z.ats)
           standard == {k \in 1 .. n : z.ttis[z.types[k]].isdst = 0}
           before   == {k \in standard : k < i}
           k        == IF before # {} THEN Max(before) ELSE Min(standard)
<1>1. n \in Nat
  BY LenProperties DEF Tables
<1>2. WEEK \in Nat
  BY WeekIs
<1>3. StandardBefore(z, i) = IF standard = {} THEN 0 ELSE -z.ttis[z.types[k]].gmtoff
  BY DEF StandardBefore
<1>4. CASE standard = {}
  <2>1. StandardBefore(z, i) = 0
    BY <1>3, <1>4, Zenon
  <2> QED BY <1>2, <2>1
<1>5. CASE standard # {}
  <2>1. before \in SUBSET (1 .. n) /\ standard \in SUBSET Nat /\ before \subseteq standard /\ standard \subseteq 1 .. n
    BY <1>1
  <2> HIDE DEF standard, before
  <2>2. k \in standard
    BY <1>1, <1>5, <2>1, GreatestOne, LeastOne
  <2>3. k \in 1 .. n
    BY <2>1, <2>2
  <2> HIDE DEF k
  <2>4. z.types[k] \in 1 .. Len(z.ttis)
    BY <2>3 DEF Tables
  <2>5. z.ttis[z.types[k]].gmtoff \in -WEEK .. WEEK
    BY <2>4
  <2> QED BY <1>2, <1>3, <1>5, <2>5 DEF k
<1> QED BY <1>4, <1>5

(***************************************************************************)
(* Default rules that are far apart are in order wherever they are moved.  *)
(***************************************************************************)
LEMMA BorrowedMakes ==
  ASSUME NEW z, Half(z), Tables(z), NEW tz, NEW std \in -WEEK .. WEEK, NEW dst \in Int,
         \A i \in 1 .. Len(z.ttis) : z.ttis[i].gmtoff \in -WEEK .. WEEK,
         \A i \in 1 .. Len(z.ats) - 1 : z.ats[i + 1] - z.ats[i] > 2 * WEEK
  PROVE  LET w == Borrowed(z, tz, std, dst)
         IN  /\ Half(w) /\ Tables(w) /\ Sorted(w.ats)
             /\ w.goback = z.goback /\ w.goahead = z.goahead
<1> DEFINE w == Borrowed(z, tz, std, dst)
           n == Len(z.ats)
<1>1. n \in Nat /\ WEEK \in Nat /\ \A i \in 1 .. n : z.ats[i] \in Int
  BY LenProperties, ElementOfSeq, WeekIs DEF Tables
<1>2. /\ DOMAIN w = Fields /\ w.lsis = z.lsis /\ w.goback = z.goback /\ w.goahead = z.goahead
      /\ w.ats = [i \in 1 .. n |-> Moved(z, i, std)]
      /\ w.types = [i \in 1 .. n |-> 1 + z.ttis[z.types[i]].isdst]
      /\ w.ttis = <<TypeInfo(-std, 0, tz.std, 0, 0), TypeInfo(-dst, 1, tz.dst, 0, 0)>>
  BY DEF Borrowed, Half, Fields
<1>3. ASSUME NEW i \in 1 .. n
      PROVE  \E s \in -WEEK .. WEEK :
               w.ats[i] = z.ats[i] \/ w.ats[i] = z.ats[i] + (std - s)
  <2> DEFINE s == StandardBefore(z, i)
  <2>1. s \in -WEEK .. WEEK
    BY BeforeIsOffset
  <2>2. w.ats[i] = z.ats[i] \/ w.ats[i] = z.ats[i] + std - s
    BY <1>2 DEF Moved
  <2> HIDE DEF s
  <2>3. z.ats[i] \in Int /\ std \in Int /\ s \in Int
    BY <1>1, <2>1
  <2> DEFINE x == z.ats[i]
  <2>4. x + std - s = x + (std - s)
    <3> HIDE DEF x, w
    <3> QED BY <2>3 DEF x
  <2> QED BY <2>1, <2>2, <2>4
<1> HIDE DEF w
<1>4. \A i \in 1 .. n : w.ats[i] \in Int
  <2> SUFFICES ASSUME NEW i \in 1 .. n PROVE w.ats[i] \in Int
    OBVIOUS
  <2> DEFINE x == z.ats[i]
             p == w.ats[i]
  <2>1. PICK s \in -WEEK .. WEEK : p = x \/ p = x + (std - s)
    BY <1>3
  <2>2. x \in Int
    BY <1>1
  <2> HIDE DEF x, p
  <2>3. p \in Int
    BY <1>1, <2>1, <2>2
  <2> QED BY <2>3 DEF p
<1>5. \A i \in 1 .. n : w.types[i] \in {1, 2}
  <2> SUFFICES ASSUME NEW i \in 1 .. n PROVE w.types[i] \in {1, 2}
    OBVIOUS
  <2>1. z.ttis[z.types[i]].isdst \in {0, 1}
    BY DEF Tables
  <2> QED BY <1>2, <2>1
<1>6. Tables(w) /\ Len(w.ats) = n
  <2>1. w.ats = [i \in 1 .. n |-> w.ats[i]] /\ w.types = [i \in 1 .. n |-> w.types[i]]
    BY <1>2
  <2>2. -std \in Int /\ -dst \in Int
    BY <1>1
  <2>3. \A i \in 1 .. n : w.ats[i] \in Int /\ w.types[i] \in {1, 2}
    BY <1>4, <1>5
  <2>4. \E a, b \in Int, p, q \in {0, 1} : \E k, l :
          w.ttis = <<TypeInfo(a, p, k, 0, 0), TypeInfo(b, q, l, 0, 0)>>
    <3>1. 0 \in {0, 1} /\ 1 \in {0, 1}
      OBVIOUS
    <3> DEFINE a == -std
               b == -dst
    <3>2. a \in Int /\ b \in Int
      BY <2>2
    <3>3. w.ttis = <<TypeInfo(a, 0, tz.std, 0, 0), TypeInfo(b, 1, tz.dst, 0, 0)>>
      BY <1>2
    <3> HIDE DEF a, b
    <3> QED BY <3>1, <3>2, <3>3
  <2> HIDE DEF n
  <2>5. TwoTypes(w, n)
    BY <1>1, <2>1, <2>3, <2>4, Zenon DEF TwoTypes
  <2> QED BY <2>5, TwoTypesAreTables
<1>7. Sorted(w.ats)
  <2> SUFFICES ASSUME NEW i \in 1 .. n - 1 PROVE w.ats[i] < w.ats[i + 1]
    BY <1>6 DEF Sorted
  <2> DEFINE x == z.ats[i]
             y == z.ats[i + 1]
             p == w.ats[i]
             q == w.ats[i + 1]
  <2>1. i \in 1 .. n /\ i + 1 \in 1 .. n
    BY <1>1
  <2>2. x \in Int /\ y \in Int /\ y - x > 2 * WEEK
    BY <1>1, <2>1
  <2>3. PICK s \in -WEEK .. WEEK : p = x \/ p = x + (std - s)
    BY <1>3, <2>1
  <2>4. PICK r \in -WEEK .. WEEK : q = y \/ q = y + (std - r)
    BY <1>3, <2>1
  <2> HIDE DEF x, y, p, q
  <2>5. p < q
    BY <1>1, <2>2, <2>3, <2>4
  <2> QED BY <2>5 DEF p, q
<1> QED BY <1>2, <1>6, <1>7, Zenon DEF Half, w

(***************************************************************************)
(* A string without daylight saving time.                                  *)
(***************************************************************************)
LEMMA OneTypeMakes ==
  ASSUME NEW z, Half(z), NEW tz, NEW std \in Int
  PROVE  LET w == OneType(z, tz, std)
         IN  /\ Half(w) /\ Tables(w) /\ Sorted(w.ats)
             /\ w.goback = z.goback /\ w.goahead = z.goahead
<1> DEFINE w == OneType(z, tz, std)
<1>1. /\ DOMAIN w = Fields /\ w.lsis = z.lsis /\ w.goback = z.goback /\ w.goahead = z.goahead
      /\ w.ats = <<>> /\ w.types = <<>> /\ w.ttis = <<TypeInfo(-std, 0, tz.std, 0, 0)>>
  BY DEF OneType, Half, Fields
<1> HIDE DEF w
<1>2. <<>> \in Seq(Int) /\ <<>> \in Seq(Nat) /\ Len(<<>>) = 0
  BY EmptySeq
<1>3. Len(w.ttis) = 1 /\ w.ttis[1] = TypeInfo(-std, 0, tz.std, 0, 0) /\ w.ttis = [i \in 1 .. 1 |-> w.ttis[i]]
  BY <1>1
<1>4. IsSeq(w.ttis)
  BY <1>3, SequenceOf
<1>5. \A i \in 1 .. 1 : w.ttis[i].gmtoff \in Int /\ w.ttis[i].isdst \in {0, 1}
  BY <1>3 DEF TypeInfo
<1>6. Tables(w)
  BY <1>1, <1>2, <1>3, <1>4, <1>5 DEF Tables
<1>7. Sorted(w.ats)
  <2>1. 1 .. Len(w.ats) - 1 = {}
    BY <1>1, <1>2
  <2> QED BY <2>1 DEF Sorted
<1> QED BY <1>1, <1>6, <1>7, Zenon DEF Half, w

-----------------------------------------------------------------------------
(***************************************************************************)
(* A year is as long as it is.                                             *)
(***************************************************************************)
LEMMA YearsFollow ==
  ASSUME NEW y \in Int
  PROVE  /\ YearStart(y) \in Int /\ YearStart(y + 1) = YearStart(y) + 365 + (IF isleap(y) THEN 1 ELSE 0)
         /\ FirstOfJanuary(y) = SECSPERDAY * YearStart(y)
<1>1. /\ leaps_thru_end_of(y) \in Int /\ leaps_thru_end_of(y - 1) \in Int /\ leaps_thru_end_of(1969) \in Int
      /\ leaps_thru_end_of(y) - leaps_thru_end_of(y - 1) = IF isleap(y) THEN 1 ELSE 0
  BY LeapsStep
<1>2. y + 1 - 1 = y
  OBVIOUS
<1>3. YearStart(y) \in Int /\ YearStart(y + 1) = YearStart(y) + 365 + (IF isleap(y) THEN 1 ELSE 0)
  BY <1>1, <1>2 DEF YearStart
<1>4. EPOCH_YEAR - 1 = 1969
  BY DEF EPOCH_YEAR
<1> QED BY <1>3, <1>4 DEF YearStart, FirstOfJanuary, DAYSPERNYEAR, EPOCH_YEAR

(* The numbers of a rule that getrule accepts.                             *)
Numbered(rule) ==
  \/ rule.form = JULIAN_DAY /\ rule.nums[1] \in 1 .. 365
  \/ rule.form = DAY_OF_YEAR /\ rule.nums[1] \in 0 .. 365
  \/ rule.form = MONTH_NTH_DAY_OF_WEEK /\ rule.nums[1] \in 1 .. 12 /\ rule.nums[2] \in 1 .. 5
       /\ rule.nums[3] \in 0 .. 6

(***************************************************************************)
(* A day of the week is found in its month.                                *)
(***************************************************************************)
LEMMA NthInMonth ==
  ASSUME NEW y \in Int, NEW mon \in 1 .. 12, NEW week \in 1 .. 5, NEW day \in 0 .. 6
  PROVE  NthDayOfWeek(y, mon, week, day) \in 0 .. mon_lengths(y)[mon] - 1
<1> DEFINE F     == FirstDayOfWeek(y, mon)
           first == (day - F) % DAYSPERWEEK
           len   == mon_lengths(y)[mon]
           more  == (len - 1 - first) \div DAYSPERWEEK
           least == Min({week - 1, more})
<1>1. F \in Int
  <2>1. \A a \in Int : CDiv(a, 100) \in Int /\ CMod(a, 100) \in Int /\ CDiv(a, 4) \in Int
    BY DEF CDiv, CMod
  <2> DEFINE yy0 == IF mon <= 2 THEN y - 1 ELSE y
             m1  == ((mon + 9) % 12) + 1
             a   == CDiv(yy0, 100)
             b   == CMod(yy0, 100)
  <2>2. yy0 \in Int /\ m1 \in Int
    OBVIOUS
  <2>3. a \in Int /\ b \in Int /\ CDiv(a, 4) \in Int /\ CDiv(b, 4) \in Int
    <3> HIDE DEF yy0
    <3> QED BY <2>1, <2>2
  <2>4. F = ((26 * m1 - 2) \div 10 + 1 + b + CDiv(b, 4) + CDiv(a, 4) - 2 * a) % DAYSPERWEEK
    BY DEF FirstDayOfWeek
  <2> HIDE DEF a, b, m1, F
  <2> QED BY <2>2, <2>3, <2>4 DEF DAYSPERWEEK
<1> HIDE DEF F
<1>2. first \in 0 .. 6
  BY <1>1 DEF DAYSPERWEEK
<1>3. len \in 28 .. 31
  BY DEF mon_lengths
<1> HIDE DEF first, len
<1>4. more \in Nat /\ 7 * more <= len - 1 - first
  BY <1>2, <1>3 DEF DAYSPERWEEK
<1> HIDE DEF more
<1>5. least \in Nat /\ least <= more
  <2>1. {week - 1, more} \in SUBSET Nat /\ {week - 1, more} # {}
    BY <1>4
  <2>2. least \in {week - 1, more} /\ \A m \in {week - 1, more} : least <= m
    BY <2>1, LeastOne
  <2> HIDE DEF least
  <2> QED BY <2>1, <2>2
<1> HIDE DEF least
<1>6. NthDayOfWeek(y, mon, week, day) = first + 7 * least
  BY DEF NthDayOfWeek, first, more, least, F, len, DAYSPERWEEK
<1> QED BY <1>2, <1>3, <1>4, <1>5, <1>6 DEF len

(***************************************************************************)
(* The day of a rule of months lies in its month.                          *)
(***************************************************************************)
LEMMA DayInMonth ==
  ASSUME NEW y \in Int, NEW rule, Numbered(rule), rule.form = MONTH_NTH_DAY_OF_WEEK
  PROVE  DayOfRule(y, rule) \in MonthTable(y, rule.nums[1] - 1) .. MonthTable(y, rule.nums[1]) - 1
<1> DEFINE m == rule.nums[1]
<1>1. m \in 1 .. 12 /\ rule.nums[2] \in 1 .. 5 /\ rule.nums[3] \in 0 .. 6
  BY DEF Numbered, JULIAN_DAY, DAY_OF_YEAR, MONTH_NTH_DAY_OF_WEEK
<1>2. DayOfRule(y, rule) = MonthStart[<<y, m - 1>>] + NthDayOfWeek(y, m, rule.nums[2], rule.nums[3])
  BY DEF DayOfRule, JULIAN_DAY, DAY_OF_YEAR, MONTH_NTH_DAY_OF_WEEK
<1> HIDE DEF m
<1>3. MonthStart[<<y, m - 1>>] = MonthTable(y, m - 1)
  <2>1. m - 1 \in 0 .. 12
    BY <1>1
  <2> QED BY <2>1, MonthStartTable
<1>4. NthDayOfWeek(y, m, rule.nums[2], rule.nums[3]) \in 0 .. mon_lengths(y)[m] - 1
  BY <1>1, NthInMonth
<1>5. MonthTable(y, m) = MonthTable(y, m - 1) + mon_lengths(y)[m] /\ MonthTable(y, m - 1) \in Int
      /\ mon_lengths(y)[m] \in Int
  BY <1>1 DEF MonthTable, mon_lengths
<1> QED BY <1>2, <1>3, <1>4, <1>5 DEF m

(***************************************************************************)
(* A rule names a day of the year, not more than a month earlier than a    *)
(* year before.                                                            *)
(***************************************************************************)
LEMMA DayInYear ==
  ASSUME NEW y \in Int, NEW rule, Numbered(rule)
  PROVE  DayOfRule(y, rule) \in 0 .. 365 /\ DayOfRule(y, rule) - DayOfRule(y + 1, rule) < 40
<1>1. CASE rule.form = JULIAN_DAY
  <2> DEFINE n == rule.nums[1]
  <2>1. n \in 1 .. 365
    BY <1>1 DEF Numbered, JULIAN_DAY, DAY_OF_YEAR, MONTH_NTH_DAY_OF_WEEK
  <2>2. \A year \in Int : DayOfRule(year, rule) = n - 1 + IF isleap(year) /\ n >= 60 THEN 1 ELSE 0
    BY <1>1 DEF DayOfRule, JULIAN_DAY, DAY_OF_YEAR, MONTH_NTH_DAY_OF_WEEK
  <2> HIDE DEF n
  <2>3. y + 1 \in Int
    OBVIOUS
  <2> QED BY <2>1, <2>2, <2>3
<1>2. CASE rule.form = DAY_OF_YEAR
  BY <1>2 DEF Numbered, DayOfRule, JULIAN_DAY, DAY_OF_YEAR, MONTH_NTH_DAY_OF_WEEK
<1>3. CASE rule.form = MONTH_NTH_DAY_OF_WEEK
  <2> DEFINE m == rule.nums[1]
             d == DayOfRule(y, rule)
             e == DayOfRule(y + 1, rule)
  <2>1. m \in 1 .. 12
    BY <1>3 DEF Numbered, JULIAN_DAY, DAY_OF_YEAR, MONTH_NTH_DAY_OF_WEEK
  <2>2. d \in MonthTable(y, m - 1) .. MonthTable(y, m) - 1
        /\ e \in MonthTable(y + 1, m - 1) .. MonthTable(y + 1, m) - 1
    BY <1>3, DayInMonth
  <2> HIDE DEF m, d, e
  <2>3. /\ MonthTable(y, m - 1) \in Nat /\ MonthTable(y, m) \in 0 .. 366
        /\ MonthTable(y + 1, m - 1) \in Int /\ MonthTable(y, m) - MonthTable(y + 1, m - 1) < 40
    BY <2>1 DEF MonthTable
  <2> QED BY <2>2, <2>3 DEF d, e
<1> QED BY <1>1, <1>2, <1>3 DEF Numbered

-----------------------------------------------------------------------------
(***************************************************************************)
(* A rule that getrule accepts.                                            *)
(***************************************************************************)
LEMMA AcceptedRule ==
  ASSUME NEW rule, IsRule(rule), getrule(rule) # NONE
  PROVE  /\ Numbered(rule)
         /\ getrule(rule).time \in 0 .. WEEK
         /\ \A y : DayOfRule(y, getrule(rule)) = DayOfRule(y, rule)
<1> DEFINE ranges == CASE rule.form = JULIAN_DAY  -> <<1 .. DAYSPERNYEAR>>
                       [] rule.form = DAY_OF_YEAR -> <<0 .. DAYSPERLYEAR - 1>>
                       [] rule.form = MONTH_NTH_DAY_OF_WEEK -> <<1 .. 12, 1 .. 5, 0 .. DAYSPERWEEK - 1>>
           time == IF rule.time = NONE THEN 2 * SECSPERHOUR ELSE getsecs(rule.time)
<1>1. /\ Len(rule.nums) = Len(ranges) /\ Within(rule.nums, ranges) /\ time # NONE
      /\ getrule(rule) = [rule EXCEPT !.time = time]
  BY DEF getrule
<1> HIDE DEF time
<1>2. Numbered(rule)
  <2>1. \A i \in 1 .. Len(rule.nums) : rule.nums[i] \in ranges[i]
    BY <1>1 DEF Within
  <2>2. CASE rule.form = JULIAN_DAY
    <3>1. ranges = <<1 .. 365>>
      BY <2>2 DEF DAYSPERNYEAR, JULIAN_DAY, DAY_OF_YEAR, MONTH_NTH_DAY_OF_WEEK
    <3> HIDE DEF ranges
    <3> QED BY <1>1, <2>1, <2>2, <3>1 DEF Numbered
  <2>3. CASE rule.form = DAY_OF_YEAR
    <3>1. ranges = <<0 .. 365>>
      BY <2>3 DEF DAYSPERLYEAR, JULIAN_DAY, DAY_OF_YEAR, MONTH_NTH_DAY_OF_WEEK
    <3> HIDE DEF ranges
    <3> QED BY <1>1, <2>1, <2>3, <3>1 DEF Numbered
  <2>4. CASE rule.form = MONTH_NTH_DAY_OF_WEEK
    <3>1. ranges = <<1 .. 12, 1 .. 5, 0 .. 6>>
      BY <2>4 DEF DAYSPERWEEK, JULIAN_DAY, DAY_OF_YEAR, MONTH_NTH_DAY_OF_WEEK
    <3> HIDE DEF ranges
    <3>2. Len(rule.nums) = 3 /\ ranges[1] = 1 .. 12 /\ ranges[2] = 1 .. 5 /\ ranges[3] = 0 .. 6
      BY <1>1, <3>1
    <3> QED BY <2>1, <2>4, <3>2 DEF Numbered
  <2> QED BY <2>2, <2>3, <2>4 DEF IsRule
<1>3. time \in 0 .. WEEK
  <2>1. CASE rule.time = NONE
    <3>1. time = 2 * SECSPERHOUR
      BY <2>1 DEF time
    <3>2. ASSUME NEW a \in Nat \ {0}, NEW h \in Nat \ {0} PROVE 2 * a <= 7 * (a * h) /\ 2 * a >= 0
      <4>1. a <= a * h /\ a * h \in Nat
        BY SMT
      <4> QED BY <4>1
    <3>3. 2 * SECSPERHOUR <= 7 * (SECSPERHOUR * HOURSPERDAY) /\ 2 * SECSPERHOUR >= 0
      BY <3>2, WeekIs
    <3>4. 2 * SECSPERHOUR \in Nat
      BY WeekIs
    <3> QED BY <3>1, <3>3, <3>4, WeekIs DEF SECSPERDAY
  <2>2. CASE rule.time # NONE
    <3>1. time = getsecs(rule.time) /\ IsClock(rule.time) /\ getsecs(rule.time) # NONE
      BY <1>1, <2>2 DEF time, IsRule
    <3> QED BY <3>1, AtMostAWeek
  <2> QED BY <2>1, <2>2
<1>4. getrule(rule).form = rule.form /\ getrule(rule).nums = rule.nums
  BY <1>1
<1>5. getrule(rule).time = time
  <2>1. "time" \in DOMAIN rule
    BY DEF IsRule, Rule
  <2> QED BY <1>1, <2>1
<1> QED BY <1>2, <1>3, <1>4, <1>5 DEF DayOfRule

-----------------------------------------------------------------------------
(* The day of a rule, counted from 1970.                                   *)
RuleDay(y, rule) == YearStart(y) + DayOfRule(y, rule)

(***************************************************************************)
(* No rule names a later day than any rule does a year later.              *)
(***************************************************************************)
LEMMA YearLater ==
  ASSUME NEW y \in Int, NEW a, Numbered(a), NEW b, Numbered(b)
  PROVE  /\ RuleDay(y, a) \in Int /\ Midnight(y, a) = SECSPERDAY * RuleDay(y, a)
         /\ RuleDay(y, a) <= RuleDay(y + 1, b)
         /\ RuleDay(y, a) < RuleDay(y + 1, a)
<1> DEFINE s == YearStart(y)
           t == YearStart(y + 1)
           d == DayOfRule(y, a)
           e == DayOfRule(y + 1, b)
           f == DayOfRule(y + 1, a)
<1>1. y + 1 \in Int
  OBVIOUS
<1>2. s \in Int /\ t \in Int /\ t >= s + 365
  BY <1>1, YearsFollow
<1>3. d \in 0 .. 365 /\ e \in 0 .. 365 /\ f \in 0 .. 365 /\ d - f < 40
  BY <1>1, DayInYear
<1>4. RuleDay(y, a) = s + d /\ RuleDay(y + 1, b) = t + e /\ RuleDay(y + 1, a) = t + f
  BY DEF RuleDay
<1>5. Midnight(y, a) = SECSPERDAY * s + d * SECSPERDAY
  BY YearsFollow DEF Midnight
<1> HIDE DEF s, t, d, e, f
<1>6. SECSPERDAY * s + d * SECSPERDAY = SECSPERDAY * (s + d)
  <2>1. ASSUME NEW u \in Int, NEW p \in Int, NEW q \in Int PROVE u * p + q * u = u * (p + q)
    BY SMT
  <2> QED BY <1>2, <1>3, <2>1, WeekIs
<1> QED BY <1>2, <1>3, <1>4, <1>5, <1>6

(***************************************************************************)
(* The same by the clock.                                                  *)
(***************************************************************************)
LEMMA YearLaterMidnight ==
  ASSUME NEW y \in Int, NEW a, Numbered(a), NEW b, Numbered(b)
  PROVE  /\ Midnight(y, a) \in Int
         /\ Midnight(y, a) <= Midnight(y + 1, b) /\ Midnight(y, a) < Midnight(y + 1, a)
<1>1. ASSUME NEW u \in Nat \ {0}, NEW p \in Int, NEW q \in Int
      PROVE  u * p \in Int /\ (p <= q => u * p <= u * q) /\ (p < q => u * p < u * q)
  BY SMT
<1>2. y + 1 \in Int
  OBVIOUS
<1>3. /\ RuleDay(y, a) \in Int /\ RuleDay(y + 1, a) \in Int /\ RuleDay(y + 1, b) \in Int
      /\ Midnight(y, a) = SECSPERDAY * RuleDay(y, a)
      /\ Midnight(y + 1, a) = SECSPERDAY * RuleDay(y + 1, a)
      /\ Midnight(y + 1, b) = SECSPERDAY * RuleDay(y + 1, b)
      /\ RuleDay(y, a) <= RuleDay(y + 1, b) /\ RuleDay(y, a) < RuleDay(y + 1, a)
  BY <1>2, YearLater
<1> QED BY <1>1, <1>3, WeekIs

(* Rules that follow one another, year after year.                         *)
InTurn(start, end, std, dst, y) ==
  LET this == YearOfRules(y, start, end, std, dst)
      next == YearOfRules(y + 1, start, end, std, dst)
  IN  /\ this[1][1] \in Int /\ this[2][1] \in Int
      /\ this[1][2] \in {1, 2} /\ this[2][2] \in {1, 2}
      /\ this[1][1] < this[2][1] /\ this[2][1] < next[1][1]

(***************************************************************************)
(* If they are apart, they do.                                             *)
(***************************************************************************)
LEMMA ApartIsInTurn ==
  ASSUME NEW start, IsRule(start), getrule(start) # NONE, NEW end, IsRule(end), getrule(end) # NONE,
         RulesApart(start, end), NEW std \in Int, NEW dst \in Int, std - dst \in -(2 * WEEK) .. 2 * WEEK,
         NEW y \in EPOCH_YEAR .. EPOCH_YEAR + TZ_MAX_TIMES \div 2 - 1
  PROVE  InTurn(getrule(start), getrule(end), std, dst, y)
<1> DEFINE s(z) == transtime(FirstOfJanuary(z), z, getrule(start), std)
           e(z) == transtime(FirstOfJanuary(z), z, getrule(end), dst)
           m(z) == Midnight(z, start)
           n(z) == Midnight(z, end)
           p == getrule(start).time
           q == getrule(end).time
<1>1. /\ Numbered(start) /\ Numbered(end) /\ p \in 0 .. WEEK /\ q \in 0 .. WEEK
      /\ \A z : DayOfRule(z, getrule(start)) = DayOfRule(z, start)
      /\ \A z : DayOfRule(z, getrule(end)) = DayOfRule(z, end)
  BY AcceptedRule
<1>2. \A z : s(z) = m(z) + p + std /\ e(z) = n(z) + q + dst
  BY <1>1 DEF transtime, Midnight
<1>3. TZ_MAX_TIMES \div 2 \in Int /\ y \in Int /\ y + 1 \in Int /\ EPOCH_YEAR \in Int
  BY SizeAssumption DEF EPOCH_YEAR
<1>4. /\ y \in EPOCH_YEAR - 1 .. EPOCH_YEAR + TZ_MAX_TIMES \div 2
      /\ y + 1 \in EPOCH_YEAR - 1 .. EPOCH_YEAR + TZ_MAX_TIMES \div 2
      /\ y \in y - 1 .. y + 1 /\ y + 1 \in y - 1 .. y + 1 /\ y \in y + 1 - 1 .. y + 1 + 1
  BY <1>3
<1>5. /\ m(y) \in Int /\ n(y) \in Int /\ m(y + 1) \in Int /\ n(y + 1) \in Int
      /\ m(y) <= n(y + 1) /\ n(y) <= m(y + 1) /\ m(y) < m(y + 1) /\ n(y) < n(y + 1)
  BY <1>1, <1>3, YearLaterMidnight
<1>6. /\ m(y) - n(y) > 3 * WEEK \/ n(y) - m(y) > 3 * WEEK
      /\ m(y) - n(y + 1) > 3 * WEEK \/ n(y + 1) - m(y) > 3 * WEEK
      /\ m(y + 1) - n(y) > 3 * WEEK \/ n(y) - m(y + 1) > 3 * WEEK
  BY <1>4 DEF RulesApart
<1> DEFINE a == s(y)
           b == e(y)
           c == s(y + 1)
           d == e(y + 1)
<1>7. /\ a \in Int /\ b \in Int /\ c \in Int /\ d \in Int
      /\ a # b /\ a < c /\ a < d /\ b < c /\ b < d
  <2> DEFINE my == m(y)
             ny == n(y)
             mz == m(y + 1)
             nz == n(y + 1)
             w  == WEEK
  <2>1. a = my + p + std /\ b = ny + q + dst /\ c = mz + p + std /\ d = nz + q + dst
    BY <1>2
  <2>2. /\ my \in Int /\ ny \in Int /\ mz \in Int /\ nz \in Int
        /\ my <= nz /\ ny <= mz /\ my < mz /\ ny < nz
    BY <1>5
  <2>3. /\ my - ny > 3 * w \/ ny - my > 3 * w
        /\ my - nz > 3 * w \/ nz - my > 3 * w
        /\ mz - ny > 3 * w \/ ny - mz > 3 * w
    BY <1>6
  <2>4. w \in Nat /\ p \in 0 .. w /\ q \in 0 .. w /\ std - dst <= 2 * w /\ std - dst >= -(2 * w)
    BY <1>1, WeekIs
  <2> HIDE DEF my, ny, mz, nz, w, p, q, a, b, c, d
  <2> QED BY <2>1, <2>2, <2>3, <2>4
<1>8. /\ YearOfRules(y, getrule(start), getrule(end), std, dst) = InOrderOfTime(a, b)
      /\ YearOfRules(y + 1, getrule(start), getrule(end), std, dst) = InOrderOfTime(c, d)
  BY DEF YearOfRules
<1> HIDE DEF a, b, c, d
<1>9. LET this == InOrderOfTime(a, b)
          next == InOrderOfTime(c, d)
      IN  /\ this[1][1] \in Int /\ this[2][1] \in Int
          /\ this[1][2] \in {1, 2} /\ this[2][2] \in {1, 2}
          /\ this[1][1] < this[2][1] /\ this[2][1] < next[1][1]
  BY <1>7 DEF InOrderOfTime
<1> QED BY <1>8, <1>9 DEF InTurn

(***************************************************************************)
(* Then the transitions tzparse makes of the rules of a string are in      *)
(* order.                                                                  *)
(***************************************************************************)
LEMMA ByRulesMakes ==
  ASSUME NEW z, Half(z), NEW tz, NEW start, NEW end, NEW std \in Int, NEW dst \in Int,
         \A y \in EPOCH_YEAR .. EPOCH_YEAR + TZ_MAX_TIMES \div 2 - 1 : InTurn(start, end, std, dst, y)
  PROVE  LET w == ByRules(z, tz, start, end, std, dst)
         IN  /\ Half(w) /\ Tables(w) /\ Sorted(w.ats)
             /\ w.goback = z.goback /\ w.goahead = z.goahead
<1> DEFINE w     == ByRules(z, tz, start, end, std, dst)
           years == TZ_MAX_TIMES \div 2
           n     == 2 * years
           pairs == [k \in 1 .. years |-> YearOfRules(EPOCH_YEAR + k - 1, start, end, std, dst)]
           both  == [i \in 1 .. n |-> pairs[(i + 1) \div 2][IF i % 2 = 1 THEN 1 ELSE 2]]
<1>1. years \in Nat /\ n \in Nat
  BY SizeAssumption
<1>2. /\ DOMAIN w = Fields /\ w.lsis = z.lsis /\ w.goback = z.goback /\ w.goahead = z.goahead
      /\ w.ats = [i \in 1 .. n |-> both[i][1]] /\ w.types = [i \in 1 .. n |-> both[i][2]]
      /\ w.ttis = <<TypeInfo(-dst, 1, tz.dst, 0, 0), TypeInfo(-std, 0, tz.std, 0, 0)>>
  BY DEF ByRules, RuleTypes, Half, Fields
<1> HIDE DEF w
<1>3. ASSUME NEW k \in 1 .. years
      PROVE  /\ pairs[k][1][1] \in Int /\ pairs[k][2][1] \in Int
             /\ pairs[k][1][2] \in {1, 2} /\ pairs[k][2][2] \in {1, 2}
             /\ pairs[k][1][1] < pairs[k][2][1]
             /\ k + 1 \in 1 .. years => pairs[k][2][1] < pairs[k + 1][1][1]
  <2> DEFINE y == EPOCH_YEAR + k - 1
  <2>1. y \in EPOCH_YEAR .. EPOCH_YEAR + TZ_MAX_TIMES \div 2 - 1 /\ EPOCH_YEAR + (k + 1) - 1 = y + 1
    BY <1>1 DEF EPOCH_YEAR
  <2>2. InTurn(start, end, std, dst, y)
    BY <2>1
  <2>3. pairs[k] = YearOfRules(y, start, end, std, dst)
        /\ (k + 1 \in 1 .. years => pairs[k + 1] = YearOfRules(y + 1, start, end, std, dst))
    BY <2>1
  <2> HIDE DEF pairs, y, years
  <2> QED BY <2>2, <2>3 DEF InTurn
<1> HIDE DEF pairs
<1>4. ASSUME NEW i \in 1 .. n
      PROVE  \E k \in 1 .. years :
               \/ i = 2 * k - 1 /\ both[i] = pairs[k][1]
               \/ i = 2 * k /\ both[i] = pairs[k][2]
  <2> DEFINE k == (i + 1) \div 2
  <2>1. k \in 1 .. years /\ (i % 2 = 1 => i = 2 * k - 1) /\ (i % 2 # 1 => i = 2 * k)
    BY <1>1
  <2>2. both[i] = pairs[k][IF i % 2 = 1 THEN 1 ELSE 2]
    OBVIOUS
  <2> HIDE DEF k, both
  <2> QED BY <2>1, <2>2
<1>5. \A i \in 1 .. n : w.ats[i] = both[i][1] /\ w.types[i] = both[i][2]
  BY <1>2
<1> HIDE DEF both
<1>6. ASSUME NEW i \in 1 .. n PROVE w.ats[i] \in Int /\ w.types[i] \in {1, 2}
  <2>1. PICK k \in 1 .. years : both[i] = pairs[k][1] \/ both[i] = pairs[k][2]
    BY <1>4
  <2> HIDE DEF years, n
  <2> QED BY <1>3, <1>5, <2>1
<1>7. ASSUME NEW i \in 1 .. n - 1 PROVE w.ats[i] < w.ats[i + 1]
  <2>1. i \in 1 .. n /\ i + 1 \in 1 .. n
    BY <1>1
  <2>2. PICK k \in 1 .. years : \/ i = 2 * k - 1 /\ both[i] = pairs[k][1]
                                \/ i = 2 * k /\ both[i] = pairs[k][2]
    BY <1>4, <2>1
  <2>3. PICK l \in 1 .. years : \/ i + 1 = 2 * l - 1 /\ both[i + 1] = pairs[l][1]
                                \/ i + 1 = 2 * l /\ both[i + 1] = pairs[l][2]
    BY <1>4, <2>1
  <2>4. CASE i = 2 * k - 1
    <3>1. l = k /\ both[i] = pairs[k][1] /\ both[i + 1] = pairs[k][2]
      BY <2>1, <2>2, <2>3, <2>4
    <3> HIDE DEF years, n
    <3> QED BY <1>3, <1>5, <2>1, <3>1
  <2>5. CASE i = 2 * k
    <3>1. l = k + 1 /\ both[i] = pairs[k][2] /\ both[i + 1] = pairs[k + 1][1]
      BY <2>1, <2>2, <2>3, <2>5
    <3> HIDE DEF years, n
    <3> QED BY <1>3, <1>5, <2>1, <3>1
  <2> QED BY <2>2, <2>4, <2>5
<1>8. Tables(w) /\ Len(w.ats) = n
  <2>1. w.ats = [i \in 1 .. n |-> w.ats[i]] /\ w.types = [i \in 1 .. n |-> w.types[i]]
    BY <1>2
  <2>2. -std \in Int /\ -dst \in Int
    OBVIOUS
  <2>3. \E a, b \in Int, p, q \in {0, 1} : \E s, t :
          w.ttis = <<TypeInfo(a, p, s, 0, 0), TypeInfo(b, q, t, 0, 0)>>
    <3> DEFINE a == -dst
               b == -std
    <3>1. a \in Int /\ b \in Int /\ 0 \in {0, 1} /\ 1 \in {0, 1}
      BY <2>2
    <3>2. w.ttis = <<TypeInfo(a, 1, tz.dst, 0, 0), TypeInfo(b, 0, tz.std, 0, 0)>>
      BY <1>2
    <3> HIDE DEF a, b
    <3> QED BY <3>1, <3>2
  <2> HIDE DEF n
  <2>4. TwoTypes(w, n)
    BY <1>1, <1>6, <2>1, <2>3, Zenon DEF TwoTypes
  <2> QED BY <2>4, TwoTypesAreTables
<1>9. Sorted(w.ats)
  BY <1>7, <1>8 DEF Sorted
<1> QED BY <1>2, <1>8, <1>9, Zenon DEF Half, w

-----------------------------------------------------------------------------
(***************************************************************************)
(* The rules of TZDEFRULESTRING, in April and in October, are apart.       *)
(***************************************************************************)
LEMMA DefaultRulesApart ==
  /\ Len(TZDEFRULESTRING) = 2 /\ TZDEFRULESTRING # <<>>
  /\ IsRule(TZDEFRULESTRING[1]) /\ IsRule(TZDEFRULESTRING[2])
  /\ RulesApart(TZDEFRULESTRING[1], TZDEFRULESTRING[2])
<1> DEFINE a == TZDEFRULESTRING[1]
           b == TZDEFRULESTRING[2]
<1>1. /\ Len(TZDEFRULESTRING) = 2 /\ TZDEFRULESTRING # <<>>
      /\ a = Rule(MONTH_NTH_DAY_OF_WEEK, <<4, 1, 0>>, NONE) /\ b = Rule(MONTH_NTH_DAY_OF_WEEK, <<10, 5, 0>>, NONE)
  BY DEF TZDEFRULESTRING
<1> HIDE DEF a, b
<1>2. /\ a.form = MONTH_NTH_DAY_OF_WEEK /\ a.nums = <<4, 1, 0>> /\ a.time = NONE
      /\ b.form = MONTH_NTH_DAY_OF_WEEK /\ b.nums = <<10, 5, 0>> /\ b.time = NONE
  BY <1>1 DEF Rule
<1>3. IsRule(a) /\ IsRule(b)
  <2>1. a = Rule(a.form, a.nums, a.time) /\ b = Rule(b.form, b.nums, b.time)
    BY <1>1, <1>2
  <2>2. <<4, 1, 0>> \in Seq(Int) /\ <<10, 5, 0>> \in Seq(Int)
    OBVIOUS
  <2> QED BY <1>2, <2>1, <2>2 DEF IsRule
<1>4. Numbered(a) /\ Numbered(b)
  <2>1. <<4, 1, 0>>[1] = 4 /\ <<4, 1, 0>>[2] = 1 /\ <<4, 1, 0>>[3] = 0
        /\ <<10, 5, 0>>[1] = 10 /\ <<10, 5, 0>>[2] = 5 /\ <<10, 5, 0>>[3] = 0
    OBVIOUS
  <2>2. 4 \in 1 .. 12 /\ 10 \in 1 .. 12 /\ 1 \in 1 .. 5 /\ 5 \in 1 .. 5 /\ 0 \in 0 .. 6
    OBVIOUS
  <2> QED BY <1>2, <2>1, <2>2 DEF Numbered
<1>5. ASSUME NEW y \in Int PROVE DayOfRule(y, a) \in 90 .. 120 /\ DayOfRule(y, b) \in 273 .. 304
  <2>1. /\ DayOfRule(y, a) \in MonthTable(y, a.nums[1] - 1) .. MonthTable(y, a.nums[1]) - 1
        /\ DayOfRule(y, b) \in MonthTable(y, b.nums[1] - 1) .. MonthTable(y, b.nums[1]) - 1
    BY <1>2, <1>4, DayInMonth
  <2>2. a.nums[1] = 4 /\ b.nums[1] = 10
    BY <1>2
  <2>3. /\ DayOfRule(y, a) \in MonthTable(y, 3) .. MonthTable(y, 4) - 1
        /\ DayOfRule(y, b) \in MonthTable(y, 9) .. MonthTable(y, 10) - 1
    BY <2>1, <2>2
  <2>4. /\ MonthTable(y, 3) >= 90 /\ MonthTable(y, 4) <= 121 /\ MonthTable(y, 9) >= 273 /\ MonthTable(y, 10) <= 305
        /\ MonthTable(y, 3) \in Int /\ MonthTable(y, 4) \in Int /\ MonthTable(y, 9) \in Int /\ MonthTable(y, 10) \in Int
    BY DEF MonthTable
  <2> QED BY <2>3, <2>4
<1>6. ASSUME NEW y \in Int, NEW next \in y - 1 .. y + 1
      PROVE  RuleDay(y, a) - RuleDay(next, b) > 21 \/ RuleDay(next, b) - RuleDay(y, a) > 21
  <2>1. next \in Int /\ (next = y - 1 \/ next = y \/ next = y + 1) /\ y - 1 \in Int /\ y - 1 + 1 = y
    OBVIOUS
  <2>2. DayOfRule(y, a) \in 90 .. 120 /\ DayOfRule(next, b) \in 273 .. 304
    BY <1>5, <2>1
  <2>3. YearStart(y) \in Int /\ YearStart(y + 1) >= YearStart(y) + 365 /\ YearStart(y + 1) \in Int
    BY YearsFollow
  <2>4. YearStart(y - 1) \in Int /\ YearStart(y) >= YearStart(y - 1) + 365
    BY <2>1, YearsFollow
  <2>5. YearStart(next) = YearStart(y) \/ YearStart(next) >= YearStart(y) + 365 \/ YearStart(next) + 365 <= YearStart(y)
    BY <2>1, <2>3, <2>4
  <2>6. YearStart(next) \in Int
    BY <2>1, YearsFollow
  <2> QED BY <2>2, <2>3, <2>5, <2>6 DEF RuleDay
<1>7. ASSUME NEW y \in Int, NEW next \in y - 1 .. y + 1
      PROVE  \/ Midnight(y, a) - Midnight(next, b) > 3 * WEEK
             \/ Midnight(next, b) - Midnight(y, a) > 3 * WEEK
  <2>1. next \in Int
    OBVIOUS
  <2>2. /\ RuleDay(y, a) \in Int /\ Midnight(y, a) = SECSPERDAY * RuleDay(y, a)
        /\ RuleDay(next, b) \in Int /\ Midnight(next, b) = SECSPERDAY * RuleDay(next, b)
    BY <1>4, <2>1, YearLater
  <2>3. ASSUME NEW u \in Nat \ {0}, NEW p \in Int, NEW q \in Int, p - q > 21
        PROVE  u * p - u * q > 3 * (7 * u)
    <3>1. u * p - u * q = u * (p - q)
      BY SMT
    <3>2. ASSUME NEW d \in Int, d > 21 PROVE u * d > 21 * u /\ u * d \in Int
      BY <3>2, SMT
    <3>3. p - q \in Int
      OBVIOUS
    <3>4. u * (p - q) > 21 * u
      <4> DEFINE d == p - q
      <4>1. d \in Int /\ d > 21
        BY <2>3
      <4> HIDE DEF d
      <4>2. u * d > 21 * u
        BY <3>2, <4>1
      <4> QED BY <4>2 DEF d
    <3> QED BY <3>1, <3>4
  <2>4. SECSPERDAY \in Nat \ {0} /\ WEEK = 7 * SECSPERDAY
    BY WeekIs
  <2> DEFINE p == RuleDay(y, a)
             q == RuleDay(next, b)
  <2>5. p \in Int /\ q \in Int /\ (p - q > 21 \/ q - p > 21)
    BY <1>6, <2>2
  <2> HIDE DEF p, q
  <2>6. SECSPERDAY * p - SECSPERDAY * q > 3 * WEEK \/ SECSPERDAY * q - SECSPERDAY * p > 3 * WEEK
    BY <2>3, <2>4, <2>5
  <2> QED BY <2>2, <2>6 DEF p, q
<1>8. RulesApart(a, b)
  <2>1. \A y \in EPOCH_YEAR - 1 .. EPOCH_YEAR + TZ_MAX_TIMES \div 2 : y \in Int
    BY SizeAssumption DEF EPOCH_YEAR
  <2> QED BY <1>7, <2>1 DEF RulesApart
<1> QED BY <1>1, <1>3, <1>8 DEF a, b

-----------------------------------------------------------------------------
(***************************************************************************)
(* What a zone has from its block.                                         *)
(***************************************************************************)
LEMMA BlockKeeps ==
  ASSUME NEW b, IsBlock(b), CountsFit(b)
  PROVE  LET z == FromBlock(b)
         IN  /\ Len(z.ttis) = Len(b.ttis) /\ \A i \in 1 .. Len(b.ttis) : z.ttis[i].gmtoff = b.ttis[i].gmtoff
             /\ Len(z.ats) \in 0 .. Len(b.ats) /\ Len(b.ats) \in Nat
             /\ \A i \in 1 .. Len(z.ats) : z.ats[i] = b.ats[i]
<1> DEFINE z == FromBlock(b)
           n == InOrder(b.ats)
           m == Len(b.ttis)
<1>1. b.ats \in Seq(Int) /\ \A i \in 1 .. Len(b.ats) - 1 : b.ats[i] # b.ats[i + 1]
  BY DEF IsBlock
<1>2. n \in 0 .. Len(b.ats) /\ Len(b.ats) \in Nat
  BY <1>1, KeptInOrder, LenProperties
<1>3. m \in Nat
  <2>1. b.ttis \in Seq({b.ttis[i] : i \in DOMAIN b.ttis})
    BY DEF IsBlock, IsSeq
  <2> QED BY <2>1, LenProperties
<1>4. z.ats = SubSeq(b.ats, 1, n)
      /\ z.ttis = [i \in 1 .. m |-> TypeInfo(b.ttis[i].gmtoff, b.ttis[i].isdst, b.ttis[i].abbr,
                                             Flag(b.stds, i), Flag(b.gmts, i))]
  BY DEF FromBlock
<1> HIDE DEF z, n
<1>5. Len(z.ats) = n /\ \A i \in 1 .. n : z.ats[i] = b.ats[i]
  <2>1. \A i \in 1 .. n : b.ats[i] \in Int
    <3>1. \A i \in 1 .. n : i \in 1 .. Len(b.ats)
      BY <1>2
    <3> QED BY <1>1, <3>1, ElementOfSeq
  <2>2. n \in Int
    BY <1>2
  <2>3. /\ Len(SubSeq(b.ats, 1, n)) = IF 1 <= n THEN n - 1 + 1 ELSE 0
        /\ \A i \in 1 .. n - 1 + 1 : SubSeq(b.ats, 1, n)[i] = b.ats[1 + i - 1]
    BY <2>1, <2>2, SubSeqProperties
  <2> QED BY <1>2, <1>4, <2>3
<1>6. Len(z.ttis) = m
  <2>1. z.ttis = [i \in 1 .. m |-> z.ttis[i]]
    BY <1>4
  <2> HIDE DEF m
  <2> QED BY <1>3, <2>1, SequenceOf
<1>7. \A i \in 1 .. m : z.ttis[i].gmtoff = b.ttis[i].gmtoff
  <2> SUFFICES ASSUME NEW i \in 1 .. m PROVE z.ttis[i].gmtoff = b.ttis[i].gmtoff
    OBVIOUS
  <2> QED BY <1>4 DEF TypeInfo
<1> QED BY <1>2, <1>5, <1>6, <1>7 DEF z

(***************************************************************************)
(* The default rules, as tzparse finds them, cannot be moved past each     *)
(* other.                                                                  *)
(***************************************************************************)
LEMMA DefaultStays ==
  ASSUME NEW default, IsFile(default), Immovable(default), NEW start, DOMAIN start = Fields,
         WithDefault(default, start).ok
  PROVE  LET z == WithDefault(default, start).sp
         IN  /\ \A i \in 1 .. Len(z.ttis) : z.ttis[i].gmtoff \in -WEEK .. WEEK
             /\ \A i \in 1 .. Len(z.ats) - 1 : z.ats[i + 1] - z.ats[i] > 2 * WEEK
<1> DEFINE z == WithDefault(default, start).sp
           b == TableOf(default)
           y == FromBlock(b)
<1>1. default # NoFile /\ z = Repeats(y) /\ IsBlock(b) /\ CountsFit(b)
  BY DefaultMakes
<1>2. /\ \A i \in 1 .. Len(b.ttis) : b.ttis[i].gmtoff \in -WEEK .. WEEK
      /\ \A i \in 1 .. Len(b.ats) - 1 : b.ats[i + 1] - b.ats[i] > 2 * WEEK
  BY <1>1 DEF Immovable
<1>3. /\ Len(y.ttis) = Len(b.ttis) /\ \A i \in 1 .. Len(b.ttis) : y.ttis[i].gmtoff = b.ttis[i].gmtoff
      /\ Len(y.ats) \in 0 .. Len(b.ats) /\ Len(b.ats) \in Nat
      /\ \A i \in 1 .. Len(y.ats) : y.ats[i] = b.ats[i]
  <2> HIDE DEF b
  <2> QED BY <1>1, BlockKeeps
<1>4. Repeats(y).ats = y.ats /\ Repeats(y).ttis = y.ttis
  BY DEF Repeats, FromBlock
<1>5. z.ats = y.ats /\ z.ttis = y.ttis
  BY <1>1, <1>4
<1> HIDE DEF z, b, y
<1>6. \A i \in 1 .. Len(z.ats) - 1 : z.ats[i + 1] - z.ats[i] > 2 * WEEK
  <2> SUFFICES ASSUME NEW i \in 1 .. Len(z.ats) - 1 PROVE z.ats[i + 1] - z.ats[i] > 2 * WEEK
    OBVIOUS
  <2>1. i \in 1 .. Len(y.ats) /\ i + 1 \in 1 .. Len(y.ats) /\ i \in 1 .. Len(b.ats) - 1
    BY <1>3, <1>5
  <2>2. z.ats[i] = b.ats[i] /\ z.ats[i + 1] = b.ats[i + 1]
    BY <1>3, <1>5, <2>1
  <2> QED BY <1>2, <2>1, <2>2
<1> QED BY <1>2, <1>3, <1>5, <1>6 DEF z

-----------------------------------------------------------------------------
(* Tables in order, with the flags of a zone they are made from.           *)
Tidy(w, z) == Half(w) /\ Tables(w) /\ Sorted(w.ats) /\ w.goback = z.goback /\ w.goahead = z.goahead

(***************************************************************************)
(* A string with daylight saving time.                                     *)
(***************************************************************************)
LEMMA WithDstMakes ==
  ASSUME NEW tz, IsText(tz), NEW default, IsFile(default), Immovable(default),
         NEW start, DOMAIN start = Fields, NEW std \in -WEEK .. WEEK
  PROVE  LET d == WithDefault(default, start)
             r == WithDst(d, tz, std)
         IN  DOMAIN r.sp = Fields /\ (r.ok => Tidy(r.sp, d.sp))
<1> DEFINE d     == WithDefault(default, start)
           r     == WithDst(d, tz, std)
           dst   == IF tz.dstoff = NONE THEN std - SECSPERHOUR ELSE getoffset(tz.dstoff)
           rules == IF tz.rules = <<>> /\ ~d.ok THEN TZDEFRULESTRING ELSE tz.rules
<1>1. Half(d.sp) /\ (d.ok => Tables(d.sp))
  <2>1. Half(d.sp) /\ (d.ok => Whole(d.sp))
    BY DefaultMakes
  <2> QED BY <2>1 DEF Whole
<1>2. DOMAIN d.sp = Fields
  BY <1>1 DEF Half
<1>3. \/ r = Outcome(FALSE, d.sp)
      \/ dst # NONE /\ rules = <<>> /\ r = Outcome(TRUE, Borrowed(d.sp, tz, std, dst))
      \/ /\ dst # NONE /\ Len(rules) = 2 /\ getrule(rules[1]) # NONE /\ getrule(rules[2]) # NONE
         /\ r = Outcome(TRUE, ByRules(d.sp, tz, getrule(rules[1]), getrule(rules[2]), std, dst))
  BY DEF WithDst
<1>4. dst # NONE => dst \in Int /\ std - dst \in -(2 * WEEK) .. 2 * WEEK
  <2>1. WEEK \in Nat /\ SECSPERHOUR \in Nat /\ SECSPERHOUR <= WEEK
    <3>1. ASSUME NEW a \in Nat \ {0}, NEW h \in Nat \ {0} PROVE a <= 7 * (a * h)
      <4>1. a <= a * h /\ a * h \in Nat
        BY SMT
      <4> QED BY <4>1
    <3> QED BY <3>1, WeekIs DEF SECSPERDAY
  <2>2. CASE tz.dstoff = NONE
    BY <2>1, <2>2
  <2>3. CASE tz.dstoff # NONE
    <3>1. dst = getoffset(tz.dstoff) /\ IsOffset(tz.dstoff)
      BY <2>3 DEF IsText
    <3> HIDE DEF dst
    <3>2. dst # NONE => dst \in -WEEK .. WEEK
      BY <3>1, AtMostAWeekOff
    <3> QED BY <2>1, <3>2
  <2> QED BY <2>2, <2>3
<1> HIDE DEF d, dst
<1>5. CASE r = Outcome(FALSE, d.sp)
  <2>1. r.sp = d.sp /\ ~r.ok
    BY <1>5 DEF Outcome
  <2> HIDE DEF r
  <2> QED BY <1>2, <2>1 DEF r, d
<1>6. CASE dst # NONE /\ rules = <<>> /\ r = Outcome(TRUE, Borrowed(d.sp, tz, std, dst))
  <2>1. d.ok
    BY <1>6, DefaultRulesApart
  <2>2. /\ \A i \in 1 .. Len(d.sp.ttis) : d.sp.ttis[i].gmtoff \in -WEEK .. WEEK
        /\ \A i \in 1 .. Len(d.sp.ats) - 1 : d.sp.ats[i + 1] - d.sp.ats[i] > 2 * WEEK
    BY <2>1, DefaultStays DEF d
  <2>3. Tidy(Borrowed(d.sp, tz, std, dst), d.sp)
    <3> DEFINE z == d.sp
    <3>1. /\ Half(z) /\ Tables(z) /\ dst \in Int
          /\ \A i \in 1 .. Len(z.ttis) : z.ttis[i].gmtoff \in -WEEK .. WEEK
          /\ \A i \in 1 .. Len(z.ats) - 1 : z.ats[i + 1] - z.ats[i] > 2 * WEEK
      BY <1>1, <1>4, <1>6, <2>1, <2>2
    <3> HIDE DEF z
    <3>2. Tidy(Borrowed(z, tz, std, dst), z)
      BY <3>1, BorrowedMakes DEF Tidy
    <3> QED BY <3>2 DEF z
  <2>4. r.sp = Borrowed(d.sp, tz, std, dst)
    BY <1>6 DEF Outcome
  <2> HIDE DEF r
  <2> QED BY <2>3, <2>4 DEF Tidy, Half, r, d
<1>7. CASE /\ dst # NONE /\ Len(rules) = 2 /\ getrule(rules[1]) # NONE /\ getrule(rules[2]) # NONE
           /\ r = Outcome(TRUE, ByRules(d.sp, tz, getrule(rules[1]), getrule(rules[2]), std, dst))
  <2> DEFINE a == rules[1]
             b == rules[2]
  <2>1. IsRule(a) /\ IsRule(b) /\ RulesApart(a, b)
    <3>1. CASE rules = TZDEFRULESTRING
      BY <3>1, DefaultRulesApart
    <3>2. CASE rules = tz.rules
      <4>1. Len(tz.rules) = 2 /\ getrule(tz.rules[1]) # NONE /\ getrule(tz.rules[2]) # NONE
        BY <1>7, <3>2
      <4>2. 1 \in 1 .. Len(tz.rules) /\ 2 \in 1 .. Len(tz.rules) /\ \A i \in 1 .. 2 : i = 1 \/ i = 2
        BY <4>1
      <4>3. \A i \in 1 .. 2 : getrule(tz.rules[i]) # NONE
        BY <4>1, <4>2
      <4> QED BY <3>2, <4>1, <4>2, <4>3 DEF IsText
    <3> QED BY <3>1, <3>2
  <2>2. getrule(a) # NONE /\ getrule(b) # NONE
    BY <1>7
  <2> HIDE DEF rules, a, b
  <2>3. dst \in Int /\ std - dst \in -(2 * WEEK) .. 2 * WEEK /\ std \in Int
    BY <1>4, <1>7, WeekIs
  <2>4. \A y \in EPOCH_YEAR .. EPOCH_YEAR + TZ_MAX_TIMES \div 2 - 1 : InTurn(getrule(a), getrule(b), std, dst, y)
    BY <2>1, <2>2, <2>3, ApartIsInTurn
  <2>5. Tidy(ByRules(d.sp, tz, getrule(a), getrule(b), std, dst), d.sp)
    <3> DEFINE z == d.sp
               start1 == getrule(a)
               end1   == getrule(b)
    <3>1. Half(z) /\ \A y \in EPOCH_YEAR .. EPOCH_YEAR + TZ_MAX_TIMES \div 2 - 1 : InTurn(start1, end1, std, dst, y)
      BY <1>1, <2>4
    <3> HIDE DEF z, start1, end1
    <3>2. Tidy(ByRules(z, tz, start1, end1, std, dst), z)
      BY <2>3, <3>1, ByRulesMakes DEF Tidy
    <3> QED BY <3>2 DEF z, start1, end1
  <2>6. r.sp = ByRules(d.sp, tz, getrule(a), getrule(b), std, dst)
    BY <1>7 DEF Outcome, a, b
  <2> HIDE DEF r
  <2> QED BY <2>5, <2>6 DEF Tidy, Half, r, d
<1> QED BY <1>3, <1>5, <1>6, <1>7 DEF d

-----------------------------------------------------------------------------
(***************************************************************************)
(* Their names take room.                                                  *)
(***************************************************************************)
LEMMA NamedMakes ==
  ASSUME NEW o, DOMAIN o.sp = Fields, NEW tz, IsText(tz)
  PROVE  LET r == Named(o, tz)
         IN  /\ DOMAIN r.sp = Fields
             /\ r.ok => o.ok
             /\ \A z : Tidy(o.sp, z) =>
                  Whole(r.sp) /\ Sorted(r.sp.ats) /\ r.sp.goback = z.goback /\ r.sp.goahead = z.goahead
<1> DEFINE r       == Named(o, tz)
           charcnt == length(tz.std) + 1 + IF tz.dst = NONE THEN 0 ELSE length(tz.dst) + 1
           w       == r.sp
<1>1. charcnt \in Int
  <2>1. length(tz.std) \in Nat /\ (tz.dst # NONE => length(tz.dst) \in Nat)
    BY DEF IsText
  <2> QED BY <2>1
<1>2. w = [o.sp EXCEPT !.charcnt = charcnt] /\ (r.ok => o.ok)
  BY DEF Named
<1> HIDE DEF charcnt, r
<1>3. /\ DOMAIN w = Fields /\ w.charcnt = charcnt
      /\ w.ats = o.sp.ats /\ w.types = o.sp.types /\ w.ttis = o.sp.ttis
      /\ w.goback = o.sp.goback /\ w.goahead = o.sp.goahead /\ w.lsis = o.sp.lsis
  BY <1>2 DEF Fields
<1> HIDE DEF w
<1>4. ASSUME NEW z, Tidy(o.sp, z)
      PROVE  Whole(w) /\ Sorted(w.ats) /\ w.goback = z.goback /\ w.goahead = z.goahead
  <2>1. Half(o.sp) /\ Tables(o.sp) /\ Sorted(o.sp.ats) /\ o.sp.goback = z.goback /\ o.sp.goahead = z.goahead
    BY <1>4 DEF Tidy
  <2>2. Half(w)
    BY <1>3, <2>1, Zenon DEF Half
  <2>3. Tables(w)
    BY <1>3, <2>1, Zenon DEF Tables
  <2>4. w.charcnt \in Int
    BY <1>1, <1>3
  <2>5. Whole(w)
    BY <2>2, <2>3, <2>4 DEF Whole
  <2> QED BY <1>3, <2>1, <2>5
<1> QED BY <1>2, <1>3, <1>4 DEF r, w

(***************************************************************************)
(* What tzparse makes of a string: tables in order, with the flags of the  *)
(* default rules.                                                          *)
(***************************************************************************)
LEMMA StringMakes ==
  ASSUME NEW tz, IsText(tz), NEW default, IsFile(default), Immovable(default),
         NEW start, DOMAIN start = Fields
  PROVE  LET r == tzparse(tz, default, start)
         IN  /\ DOMAIN r.sp = Fields
             /\ r.ok => /\ Whole(r.sp) /\ Sorted(r.sp.ats)
                        /\ ~GoesOn(default) => ~r.sp.goback /\ ~r.sp.goahead
<1> DEFINE r   == tzparse(tz, default, start)
           d   == WithDefault(default, start)
           std == getoffset(tz.off)
           w   == WithDst(d, tz, std)
           one == Outcome(TRUE, OneType(d.sp, tz, std))
<1>1. Half(d.sp) /\ (~GoesOn(default) => ~d.sp.goback /\ ~d.sp.goahead)
  BY DefaultMakes
<1>2. std # NONE => std \in -WEEK .. WEEK /\ std \in Int
  <2>1. IsOffset(tz.off)
    BY DEF IsText
  <2>2. std # NONE => std \in -WEEK .. WEEK
    BY <2>1, AtMostAWeekOff
  <2> HIDE DEF std
  <2> QED BY <2>2, WeekIs
<1>3. \/ r = Outcome(FALSE, start)
      \/ std # NONE /\ r = Named(w, tz)
      \/ std # NONE /\ r = Named(one, tz)
  BY DEF tzparse
<1>4. CASE r = Outcome(FALSE, start)
  <2>1. r.sp = start /\ ~r.ok
    BY <1>4 DEF Outcome
  <2> HIDE DEF r
  <2> QED BY <2>1 DEF r
<1>5. std # NONE => DOMAIN w.sp = Fields /\ (w.ok => Tidy(w.sp, d.sp))
  BY <1>2, WithDstMakes
<1>6. std # NONE => DOMAIN one.sp = Fields /\ Tidy(one.sp, d.sp)
  <2> DEFINE z == d.sp
  <2> HIDE DEF z, std
  <2>1. std # NONE => Tidy(OneType(z, tz, std), z)
    BY <1>1, <1>2, OneTypeMakes DEF Tidy, z
  <2>2. one.sp = OneType(z, tz, std)
    BY DEF Outcome, z
  <2> QED BY <2>1, <2>2 DEF Tidy, Half, z
<1>7. ASSUME NEW o, r = Named(o, tz), DOMAIN o.sp = Fields, o.ok => Tidy(o.sp, d.sp)
      PROVE  /\ DOMAIN r.sp = Fields
             /\ r.ok => /\ Whole(r.sp) /\ Sorted(r.sp.ats)
                        /\ ~GoesOn(default) => ~r.sp.goback /\ ~r.sp.goahead
  <2> HIDE DEF d, r
  <2>1. DOMAIN r.sp = Fields /\ (r.ok => o.ok)
    BY <1>7, NamedMakes
  <2>2. ASSUME o.ok
        PROVE  Whole(r.sp) /\ Sorted(r.sp.ats) /\ r.sp.goback = d.sp.goback /\ r.sp.goahead = d.sp.goahead
    <3> DEFINE z == d.sp
    <3>1. Tidy(o.sp, z)
      BY <1>7, <2>2
    <3> HIDE DEF z
    <3>2. Whole(r.sp) /\ Sorted(r.sp.ats) /\ r.sp.goback = z.goback /\ r.sp.goahead = z.goahead
      BY <1>7, <3>1, NamedMakes
    <3> QED BY <3>2 DEF z
  <2> QED BY <1>1, <2>1, <2>2
<1>8. CASE std # NONE /\ r = Named(w, tz)
  <2> HIDE DEF w, std, d
  <2>1. /\ DOMAIN r.sp = Fields
        /\ r.ok => /\ Whole(r.sp) /\ Sorted(r.sp.ats)
                   /\ ~GoesOn(default) => ~r.sp.goback /\ ~r.sp.goahead
    <3> HIDE DEF r
    <3> QED BY <1>5, <1>7, <1>8
  <2> QED BY <2>1
<1>9. CASE std # NONE /\ r = Named(one, tz)
  <2> HIDE DEF one, std, d
  <2>1. /\ DOMAIN r.sp = Fields
        /\ r.ok => /\ Whole(r.sp) /\ Sorted(r.sp.ats)
                   /\ ~GoesOn(default) => ~r.sp.goback /\ ~r.sp.goahead
    <3> HIDE DEF r
    <3> QED BY <1>6, <1>7, <1>9
  <2> QED BY <2>1
<1> HIDE DEF r, w, one, std, d
<1>10. /\ DOMAIN r.sp = Fields
       /\ r.ok => /\ Whole(r.sp) /\ Sorted(r.sp.ats)
                  /\ ~GoesOn(default) => ~r.sp.goback /\ ~r.sp.goahead
  BY <1>3, <1>4, <1>8, <1>9 DEF r
<1> QED BY <1>10 DEF r

-----------------------------------------------------------------------------
(***************************************************************************)
(* Two sequences of whatever values.                                       *)
(***************************************************************************)
LEMMA Joined ==
  ASSUME NEW s, IsSeq(s), NEW t, IsSeq(t)
  PROVE  /\ IsSeq(s \o t) /\ Len(s \o t) = Len(s) + Len(t) /\ Len(s) \in Nat /\ Len(t) \in Nat
         /\ \A i \in 1 .. Len(s) + Len(t) : (s \o t)[i] = IF i <= Len(s) THEN s[i] ELSE t[i - Len(s)]
<1> DEFINE A == {s[i] : i \in DOMAIN s}
           B == {t[i] : i \in DOMAIN t}
           C == A \cup B
           u == s \o t
<1>1. s \in Seq(A) /\ t \in Seq(B)
  BY DEF IsSeq
<1> HIDE DEF A, B
<1>2. s \in Seq(C) /\ t \in Seq(C)
  <2>1. A \subseteq C /\ B \subseteq C
    OBVIOUS
  <2> HIDE DEF C
  <2> QED BY <1>1, <2>1, SeqMonotonic
<1> HIDE DEF C
<1>3. /\ u \in Seq(C) /\ Len(u) = Len(s) + Len(t) /\ Len(s) \in Nat /\ Len(t) \in Nat
      /\ \A i \in 1 .. Len(s) + Len(t) : u[i] = IF i <= Len(s) THEN s[i] ELSE t[i - Len(s)]
  BY <1>2, ConcatProperties, LenProperties
<1> HIDE DEF u
<1>4. IsSeq(u)
  <2>1. u \in [1 .. Len(u) -> C] /\ Len(u) \in Nat
    BY <1>3, LenProperties
  <2>2. u = [i \in 1 .. Len(u) |-> u[i]]
    BY <2>1
  <2> QED BY <2>1, <2>2, SequenceOf
<1> QED BY <1>3, <1>4 DEF u

(***************************************************************************)
(* The transitions of the footer that are appended are some of its own,    *)
(* and all of them come after the table.                                   *)
(***************************************************************************)
LEMMA FollowingComes ==
  ASSUME NEW z, Whole(z), NEW ts, Whole(ts), Sorted(ts.ats), Len(z.ats) <= TZ_MAX_TIMES
  PROVE  LET from  == Following(ts, z)
             count == Min({Len(ts.ats) - from + 1, TZ_MAX_TIMES - Len(z.ats)})
         IN  /\ from \in 1 .. Len(ts.ats) + 1 /\ count \in 0 .. Len(ts.ats) - from + 1
             /\ \A i \in from .. from + count - 1 : i \in 1 .. Len(ts.ats) /\ ts.ats[i] > LastAt(z)
<1> DEFINE n     == Len(ts.ats)
           m     == Len(z.ats)
           late  == {i \in 1 .. n : ts.ats[i] > LastAt(z)}
           from  == Following(ts, z)
           room  == {n - from + 1, TZ_MAX_TIMES - m}
           count == Min(room)
<1>1. n \in Nat /\ m \in Nat /\ (\A i \in 1 .. n : ts.ats[i] \in Int) /\ (\A i \in 1 .. m : z.ats[i] \in Int)
  <2>1. ts.ats \in Seq(Int) /\ z.ats \in Seq(Int)
    BY DEF Whole, Tables
  <2> QED BY <2>1, LenProperties, ElementOfSeq
<1>2. from \in late \cup {n + 1}
  <2>1. late \cup {n + 1} \in SUBSET Nat /\ late \cup {n + 1} # {}
    BY <1>1
  <2>2. from = Min(late \cup {n + 1})
    BY DEF Following
  <2> HIDE DEF late, from
  <2> QED BY <2>1, <2>2, LeastOne
<1>3. from \in 1 .. n + 1
  BY <1>1, <1>2
<1>4. from \in 1 .. n => ts.ats[from] > LastAt(z)
  <2> HIDE DEF from
  <2> QED BY <1>1, <1>2
<1> HIDE DEF from
<1>5. count \in 0 .. n - from + 1
  <2>1. room \in SUBSET Nat /\ room # {}
    BY <1>1, <1>3, SizeAssumption
  <2>2. count \in room /\ \A k \in room : count <= k
    BY <2>1, LeastOne
  <2> HIDE DEF count
  <2>3. n - from + 1 \in room /\ count \in Nat
    BY <2>1, <2>2
  <2>4. count <= n - from + 1
    <3> HIDE DEF room
    <3> QED BY <2>2, <2>3
  <2> QED BY <1>1, <1>3, <2>3, <2>4
<1> HIDE DEF count
<1>6. LastAt(z) \in Int
  <2>1. CASE z.ats = <<>>
    BY <2>1 DEF LastAt
  <2>2. CASE z.ats # <<>>
    <3>1. LastAt(z) = z.ats[m]
      BY <2>2 DEF LastAt, Last
    <3>2. m \in 1 .. m
      <4>1. z.ats \in Seq(Int)
        BY DEF Whole, Tables
      <4>2. m \in Nat \ {0}
        BY <2>2, <4>1, EmptySeq
      <4> QED BY <4>2
    <3> QED BY <1>1, <3>1, <3>2
  <2> QED BY <2>1, <2>2
<1>7. ASSUME NEW i \in from .. from + count - 1
      PROVE  i \in 1 .. n /\ ts.ats[i] > LastAt(z)
  <2> DEFINE v == ts.ats
  <2>1. i \in 1 .. n /\ from \in 1 .. n /\ i \in from .. n
    BY <1>1, <1>3, <1>5
  <2>2. \A k \in 1 .. n - 1 : v[k] < v[k + 1]
    BY DEF Sorted
  <2>3. v[from] <= v[i]
    <3>1. \A k \in 1 .. n : v[k] \in Int
      BY <1>1
    <3> HIDE DEF n, v
    <3> QED BY <1>1, <2>1, <2>2, <3>1, Climbing DEF n
  <2>4. v[from] > LastAt(z) /\ v[from] \in Int /\ v[i] \in Int
    BY <1>1, <1>4, <2>1
  <2> HIDE DEF v
  <2>5. v[i] > LastAt(z)
    BY <1>6, <2>3, <2>4
  <2> QED BY <2>1, <2>5 DEF v
<1>8. /\ from \in 1 .. n + 1 /\ count \in 0 .. n - from + 1
      /\ \A i \in from .. from + count - 1 : i \in 1 .. n /\ ts.ats[i] > LastAt(z)
  BY <1>3, <1>5, <1>7
<1> QED BY <1>8 DEF from, count

-----------------------------------------------------------------------------
(***************************************************************************)
(* The transitions that are appended are those from the first that comes   *)
(* after the table.                                                        *)
(***************************************************************************)
LEMMA AppendedAts ==
  ASSUME NEW z, Whole(z), NEW ts, Whole(ts), Sorted(ts.ats), Len(z.ats) <= TZ_MAX_TIMES
  PROVE  LET from  == Following(ts, z)
             count == Min({Len(ts.ats) - from + 1, TZ_MAX_TIMES - Len(z.ats)})
             ats   == SubSeq(ts.ats, from, from + count - 1)
         IN  ats \in Seq(Int) /\ Len(ats) = count /\ \A i \in 1 .. count : ats[i] = ts.ats[from + i - 1]
<1> DEFINE from  == Following(ts, z)
           count == Min({Len(ts.ats) - from + 1, TZ_MAX_TIMES - Len(z.ats)})
           ats   == SubSeq(ts.ats, from, from + count - 1)
           m     == Len(ts.ats)
<1>1. /\ from \in 1 .. m + 1 /\ count \in 0 .. m - from + 1
      /\ \A i \in from .. from + count - 1 : i \in 1 .. m /\ ts.ats[i] > LastAt(z)
  BY FollowingComes, Zenon
<1>2. ts.ats \in Seq(Int) /\ m \in Nat
  BY LenProperties DEF Whole, Tables
<1> HIDE DEF from, count
<1>3. from \in Int /\ from + count - 1 \in Int /\ count \in Nat
      /\ (from + count - 1) - from + 1 = count
      /\ (from <= from + count - 1 <=> count # 0)
  BY <1>1, <1>2
<1>4. \A i \in from .. from + count - 1 : ts.ats[i] \in Int
  BY <1>1, <1>2, ElementOfSeq
<1>5. /\ ats \in Seq(Int)
      /\ Len(ats) = IF from <= from + count - 1 THEN (from + count - 1) - from + 1 ELSE 0
      /\ \A i \in 1 .. (from + count - 1) - from + 1 : ats[i] = ts.ats[from + i - 1]
  BY <1>3, <1>4, SubSeqProperties
<1> HIDE DEF ats
<1>6. ats \in Seq(Int) /\ Len(ats) = count /\ \A i \in 1 .. count : ats[i] = ts.ats[from + i - 1]
  BY <1>3, <1>5
<1> QED BY <1>6 DEF ats, from, count

(***************************************************************************)
(* The table of a zone with that of its footer behind it.                  *)
(***************************************************************************)
LEMMA ExtendedIs ==
  ASSUME NEW z, Whole(z), NEW ts, Whole(ts), Sorted(ts.ats), Len(z.ats) <= TZ_MAX_TIMES
  PROVE  LET w     == Extended(z, ts)
             from  == Following(ts, z)
             count == Min({Len(ts.ats) - from + 1, TZ_MAX_TIMES - Len(z.ats)})
             ats   == SubSeq(ts.ats, from, from + count - 1)
             new   == SubSeq(ts.types, from, from + count - 1)
             types == [i \in 1 .. count |-> TypeBehind(z, new[i])]
             n     == Len(z.ats)
             m     == Len(ts.ats)
             k     == Len(z.ttis)
             l     == Len(ts.ttis)
         IN  /\ from \in 1 .. m + 1 /\ count \in 0 .. m - from + 1
             /\ \A i \in from .. from + count - 1 : i \in 1 .. m /\ ts.ats[i] > LastAt(z)
             /\ DOMAIN w = Fields /\ w.charcnt = z.charcnt + ts.charcnt /\ w.lsis = z.lsis
             /\ w.goback = z.goback /\ w.goahead = z.goahead
             /\ \A i \in 1 .. count :
                  types[i] = k + ts.types[from + i - 1] /\ types[i] \in k + 1 .. k + l /\ types[i] \in Nat
             /\ w.ats \in Seq(Int) /\ Len(w.ats) = n + count
             /\ \A i \in 1 .. n + count : w.ats[i] = IF i <= n THEN z.ats[i] ELSE ats[i - n]
             /\ w.types \in Seq(Nat) /\ Len(w.types) = n + count
             /\ \A i \in 1 .. n + count : w.types[i] = IF i <= n THEN z.types[i] ELSE types[i - n]
             /\ IsSeq(w.ttis) /\ Len(w.ttis) = k + l
             /\ \A i \in 1 .. k + l : w.ttis[i] = IF i <= k THEN z.ttis[i] ELSE ts.ttis[i - k]
<1> DEFINE w     == Extended(z, ts)
           from  == Following(ts, z)
           count == Min({Len(ts.ats) - from + 1, TZ_MAX_TIMES - Len(z.ats)})
           ats   == SubSeq(ts.ats, from, from + count - 1)
           new   == SubSeq(ts.types, from, from + count - 1)
           types == [i \in 1 .. count |-> TypeBehind(z, new[i])]
           n     == Len(z.ats)
           m     == Len(ts.ats)
           k     == Len(z.ttis)
           l     == Len(ts.ttis)
<1>1. /\ from \in 1 .. m + 1 /\ count \in 0 .. m - from + 1
      /\ \A i \in from .. from + count - 1 : i \in 1 .. m /\ ts.ats[i] > LastAt(z)
  BY FollowingComes
<1>2. /\ DOMAIN w = Fields /\ w.ats = z.ats \o ats /\ w.types = z.types \o types /\ w.ttis = z.ttis \o ts.ttis
      /\ w.charcnt = z.charcnt + ts.charcnt /\ w.lsis = z.lsis /\ w.goback = z.goback /\ w.goahead = z.goahead
  <2>1. DOMAIN z = Fields
    BY DEF Whole, Half
  <2>2. w = [z EXCEPT !.ats = @ \o ats, !.types = @ \o types, !.ttis = @ \o ts.ttis, !.charcnt = @ + ts.charcnt]
    BY DEF Extended
  <2> HIDE DEF w, ats, types
  <2> QED BY <2>1, <2>2 DEF Fields
<1> HIDE DEF w, from, count
<1>3. /\ z.ats \in Seq(Int) /\ z.types \in Seq(Nat) /\ Len(z.types) = n /\ n \in Nat
      /\ IsSeq(z.ttis) /\ k \in Nat \ {0}
      /\ \A i \in 1 .. n : z.types[i] \in 1 .. k
      /\ \A i \in 1 .. k : z.ttis[i].gmtoff \in Int /\ z.ttis[i].isdst \in {0, 1}
  BY LenProperties DEF Whole, Tables
<1>4. /\ ts.ats \in Seq(Int) /\ ts.types \in Seq(Nat) /\ Len(ts.types) = m /\ m \in Nat
      /\ IsSeq(ts.ttis) /\ l \in Nat \ {0}
      /\ \A i \in 1 .. m : ts.types[i] \in 1 .. l
      /\ \A i \in 1 .. l : ts.ttis[i].gmtoff \in Int /\ ts.ttis[i].isdst \in {0, 1}
  BY LenProperties DEF Whole, Tables
<1>5. from \in Int /\ from + count - 1 \in Int /\ count \in Nat
      /\ (from + count - 1) - from + 1 = count
      /\ (from <= from + count - 1 <=> count # 0)
  BY <1>1, <1>4
<1>6. ats \in Seq(Int) /\ Len(ats) = count /\ \A i \in 1 .. count : ats[i] = ts.ats[from + i - 1]
  BY AppendedAts, Zenon DEF from, count
<1>7. Len(new) = count /\ \A i \in 1 .. count : new[i] = ts.types[from + i - 1]
  <2>1. \A i \in from .. from + count - 1 : ts.types[i] \in Nat
    BY <1>1, <1>4, ElementOfSeq
  <2>2. /\ Len(new) = IF from <= from + count - 1 THEN (from + count - 1) - from + 1 ELSE 0
        /\ \A i \in 1 .. (from + count - 1) - from + 1 : new[i] = ts.types[from + i - 1]
    BY <1>5, <2>1, SubSeqProperties
  <2> HIDE DEF new
  <2> QED BY <1>5, <2>2
<1> HIDE DEF ats, new
<1>8. \A i \in 1 .. count : from + i - 1 \in 1 .. m /\ ts.ats[from + i - 1] > LastAt(z)
  <2> SUFFICES ASSUME NEW i \in 1 .. count PROVE from + i - 1 \in 1 .. m /\ ts.ats[from + i - 1] > LastAt(z)
    OBVIOUS
  <2>1. from + i - 1 \in from .. from + count - 1
    BY <1>5
  <2> QED BY <1>1, <2>1
<1>9. \A i \in 1 .. count :
        types[i] = k + ts.types[from + i - 1] /\ types[i] \in k + 1 .. k + l /\ types[i] \in Nat
  <2> SUFFICES ASSUME NEW i \in 1 .. count
               PROVE  types[i] = k + ts.types[from + i - 1] /\ types[i] \in k + 1 .. k + l /\ types[i] \in Nat
    OBVIOUS
  <2>1. new[i] \in 1 .. l
    BY <1>4, <1>7, <1>8
  <2>2. types[i] = k + new[i]
    BY DEF TypeBehind
  <2>3. new[i] = ts.types[from + i - 1]
    BY <1>7
  <2>4. k \in Nat /\ l \in Nat
    BY <1>3, <1>4
  <2> DEFINE a == types[i]
             b == ts.types[from + i - 1]
             c == new[i]
  <2>5. c \in 1 .. l /\ a = k + c /\ c = b
    BY <2>1, <2>2, <2>3
  <2> HIDE DEF types, k, l, a, b, c
  <2>6. a = k + b /\ a \in k + 1 .. k + l /\ a \in Nat
    BY <2>4, <2>5
  <2> QED BY <2>6 DEF a, b
<1>10. types \in Seq(Nat) /\ Len(types) = count
  <2>1. types = [i \in 1 .. count |-> types[i]]
    OBVIOUS
  <2> HIDE DEF types
  <2>2. types \in [1 .. count -> Nat]
    BY <1>9, <2>1
  <2>3. types \in Seq(Nat)
    BY <1>5, <2>2, SeqDef
  <2> QED BY <1>5, <2>1, <2>3, SequenceOf
<1> HIDE DEF types
<1>11. /\ w.ats \in Seq(Int) /\ Len(w.ats) = n + count
       /\ \A i \in 1 .. n + count : w.ats[i] = IF i <= n THEN z.ats[i] ELSE ats[i - n]
  <2> DEFINE a == z.ats
             b == w.ats
  <2>1. a \in Seq(Int) /\ Len(a) = n /\ b = a \o ats
    BY <1>2, <1>3
  <2> HIDE DEF a, b, n
  <2>2. /\ b \in Seq(Int) /\ Len(b) = Len(a) + Len(ats)
        /\ \A i \in 1 .. Len(a) + Len(ats) : b[i] = IF i <= Len(a) THEN a[i] ELSE ats[i - Len(a)]
    BY <1>6, <2>1, ConcatProperties
  <2>3. /\ b \in Seq(Int) /\ Len(b) = n + count
        /\ \A i \in 1 .. n + count : b[i] = IF i <= n THEN a[i] ELSE ats[i - n]
    BY <1>6, <2>1, <2>2
  <2> QED BY <2>3 DEF a, b
<1>12. /\ w.types \in Seq(Nat) /\ Len(w.types) = n + count
       /\ \A i \in 1 .. n + count : w.types[i] = IF i <= n THEN z.types[i] ELSE types[i - n]
  <2> DEFINE a == z.types
             b == w.types
  <2>1. a \in Seq(Nat) /\ Len(a) = n /\ b = a \o types
    BY <1>2, <1>3
  <2> HIDE DEF a, b, n
  <2>2. /\ b \in Seq(Nat) /\ Len(b) = Len(a) + Len(types)
        /\ \A i \in 1 .. Len(a) + Len(types) : b[i] = IF i <= Len(a) THEN a[i] ELSE types[i - Len(a)]
    BY <1>10, <2>1, ConcatProperties
  <2>3. /\ b \in Seq(Nat) /\ Len(b) = n + count
        /\ \A i \in 1 .. n + count : b[i] = IF i <= n THEN a[i] ELSE types[i - n]
    BY <1>10, <2>1, <2>2
  <2> QED BY <2>3 DEF a, b
<1>13. /\ IsSeq(w.ttis) /\ Len(w.ttis) = k + l
       /\ \A i \in 1 .. k + l : w.ttis[i] = IF i <= k THEN z.ttis[i] ELSE ts.ttis[i - k]
  <2> DEFINE a == z.ttis
             b == ts.ttis
             c == w.ttis
  <2>1. IsSeq(a) /\ IsSeq(b) /\ c = a \o b /\ k = Len(a) /\ l = Len(b)
    BY <1>2, <1>3, <1>4
  <2> HIDE DEF a, b, c, k, l
  <2>2. /\ IsSeq(c) /\ Len(c) = Len(a) + Len(b)
        /\ \A i \in 1 .. Len(a) + Len(b) : c[i] = IF i <= Len(a) THEN a[i] ELSE b[i - Len(a)]
    BY <2>1, Joined
  <2>3. /\ IsSeq(c) /\ Len(c) = k + l
        /\ \A i \in 1 .. k + l : c[i] = IF i <= k THEN a[i] ELSE b[i - k]
    BY <2>1, <2>2
  <2> QED BY <2>3 DEF a, b, c
<1> HIDE DEF n, m, k, l
<1> QED BY <1>1, <1>2, <1>9, <1>11, <1>12, <1>13, Zenon DEF w, from, count, ats, new, types, n, m, k, l

(***************************************************************************)
(* It is a table, in order if the zone's is.                               *)
(***************************************************************************)
LEMMA ExtendedMakes ==
  ASSUME NEW z, Whole(z), NEW ts, Whole(ts), Sorted(ts.ats), Len(z.ats) <= TZ_MAX_TIMES
  PROVE  LET w == Extended(z, ts)
         IN  Whole(w) /\ (Sorted(z.ats) => Sorted(w.ats))
<1> DEFINE w     == Extended(z, ts)
           from  == Following(ts, z)
           count == Min({Len(ts.ats) - from + 1, TZ_MAX_TIMES - Len(z.ats)})
           ats   == SubSeq(ts.ats, from, from + count - 1)
           new   == SubSeq(ts.types, from, from + count - 1)
           types == [i \in 1 .. count |-> TypeBehind(z, new[i])]
           n     == Len(z.ats)
           m     == Len(ts.ats)
           k     == Len(z.ttis)
           l     == Len(ts.ttis)
<1>1. /\ from \in 1 .. m + 1 /\ count \in 0 .. m - from + 1
      /\ \A i \in from .. from + count - 1 : i \in 1 .. m /\ ts.ats[i] > LastAt(z)
  BY ExtendedIs, ZenonT(90)
<1>2. /\ DOMAIN w = Fields /\ w.charcnt = z.charcnt + ts.charcnt /\ w.lsis = z.lsis
      /\ w.goback = z.goback /\ w.goahead = z.goahead
  BY ExtendedIs, ZenonT(90)
<1>6. ats \in Seq(Int) /\ Len(ats) = count /\ \A i \in 1 .. count : ats[i] = ts.ats[from + i - 1]
  BY AppendedAts, Zenon
<1>9. \A i \in 1 .. count : types[i] \in k + 1 .. k + l /\ types[i] \in Nat
  BY ExtendedIs, ZenonT(90)
<1>11. /\ w.ats \in Seq(Int) /\ Len(w.ats) = n + count
       /\ \A i \in 1 .. n + count : w.ats[i] = IF i <= n THEN z.ats[i] ELSE ats[i - n]
  BY ExtendedIs, ZenonT(90)
<1>12. /\ w.types \in Seq(Nat) /\ Len(w.types) = n + count
       /\ \A i \in 1 .. n + count : w.types[i] = IF i <= n THEN z.types[i] ELSE types[i - n]
  BY ExtendedIs, ZenonT(90)
<1>13. /\ IsSeq(w.ttis) /\ Len(w.ttis) = k + l
       /\ \A i \in 1 .. k + l : w.ttis[i] = IF i <= k THEN z.ttis[i] ELSE ts.ttis[i - k]
  BY ExtendedIs, ZenonT(90)
<1> HIDE DEF w, from, count, ats, new, types
<1>3. /\ z.ats \in Seq(Int) /\ z.types \in Seq(Nat) /\ Len(z.types) = n /\ n \in Nat
      /\ IsSeq(z.ttis) /\ k \in Nat \ {0}
      /\ \A i \in 1 .. n : z.types[i] \in 1 .. k
      /\ \A i \in 1 .. k : z.ttis[i].gmtoff \in Int /\ z.ttis[i].isdst \in {0, 1}
  BY LenProperties DEF Whole, Tables
<1>4. /\ ts.ats \in Seq(Int) /\ ts.types \in Seq(Nat) /\ Len(ts.types) = m /\ m \in Nat
      /\ IsSeq(ts.ttis) /\ l \in Nat \ {0}
      /\ \A i \in 1 .. m : ts.types[i] \in 1 .. l
      /\ \A i \in 1 .. l : ts.ttis[i].gmtoff \in Int /\ ts.ttis[i].isdst \in {0, 1}
  BY LenProperties DEF Whole, Tables
<1>5. from \in Int /\ from + count - 1 \in Int /\ count \in Nat
      /\ (from + count - 1) - from + 1 = count
      /\ (from <= from + count - 1 <=> count # 0)
  BY <1>1, <1>4
<1>8. \A i \in 1 .. count : from + i - 1 \in 1 .. m /\ ts.ats[from + i - 1] > LastAt(z)
  <2> SUFFICES ASSUME NEW i \in 1 .. count PROVE from + i - 1 \in 1 .. m /\ ts.ats[from + i - 1] > LastAt(z)
    OBVIOUS
  <2>1. from + i - 1 \in from .. from + count - 1
    BY <1>5
  <2> QED BY <1>1, <2>1
<1> HIDE DEF n, m, k, l
<1>14. \A i \in 1 .. n + count : w.types[i] \in 1 .. k + l
  <2> SUFFICES ASSUME NEW i \in 1 .. n + count PROVE w.types[i] \in 1 .. k + l
    OBVIOUS
  <2>1. CASE i <= n
    <3>1. w.types[i] = z.types[i] /\ i \in 1 .. n
      BY <1>3, <1>5, <1>12, <2>1
    <3> QED BY <1>3, <1>4, <3>1
  <2>2. CASE ~(i <= n)
    <3>1. i - n \in 1 .. count
      BY <1>3, <1>5, <2>2
    <3>2. w.types[i] \in k + 1 .. k + l
      BY <1>9, <1>12, <2>2, <3>1
    <3> QED BY <1>3, <1>4, <3>2
  <2> QED BY <2>1, <2>2
<1>15. \A i \in 1 .. k + l : w.ttis[i].gmtoff \in Int /\ w.ttis[i].isdst \in {0, 1}
  <2> SUFFICES ASSUME NEW i \in 1 .. k + l PROVE w.ttis[i].gmtoff \in Int /\ w.ttis[i].isdst \in {0, 1}
    OBVIOUS
  <2>1. CASE i <= k
    <3>1. i \in 1 .. k /\ w.ttis[i] = z.ttis[i]
      BY <1>3, <1>4, <1>13, <2>1
    <3> QED BY <1>3, <3>1
  <2>2. CASE ~(i <= k)
    <3>1. i - k \in 1 .. l /\ w.ttis[i] = ts.ttis[i - k]
      BY <1>3, <1>4, <1>13, <2>2
    <3> QED BY <1>4, <3>1
  <2> QED BY <2>1, <2>2
<1>16. Whole(w)
  <2>1. w.charcnt \in Int
    <3>1. z.charcnt \in Int /\ ts.charcnt \in Int
      BY DEF Whole
    <3> QED BY <1>2, <3>1
  <2>2. Half(w)
    <3>1. Half(z)
      BY DEF Whole
    <3> QED BY <1>2, <3>1, Zenon DEF Half
  <2>3. k + l \in Nat \ {0}
    BY <1>3, <1>4
  <2>4. Tables(w)
    BY <1>11, <1>12, <1>13, <1>14, <1>15, <2>3 DEF Tables
  <2> QED BY <2>1, <2>2, <2>4 DEF Whole
<1>17. ASSUME NEW p \in 1 .. n + count, p > n, NEW q, q = p - n
       PROVE  w.ats[p] = ats[q]
  <2>1. ~(p <= n)
    BY <1>3, <1>5, <1>17
  <2> QED BY <1>11, <1>17, <2>1
<1>18. ASSUME Sorted(z.ats), NEW i \in 1 .. Len(w.ats) - 1
       PROVE  w.ats[i] < w.ats[i + 1]
  <2>1. /\ i \in 1 .. n + count /\ i + 1 \in 1 .. n + count
        /\ w.ats[i] \in Int /\ w.ats[i + 1] \in Int
    <3>1. i \in 1 .. n + count /\ i + 1 \in 1 .. n + count
      BY <1>3, <1>5, <1>11
    <3> QED BY <1>11, <3>1, ElementOfSeq
  <2>2. CASE i + 1 <= n
    <3>1. i \in 1 .. n - 1 /\ w.ats[i] = z.ats[i] /\ w.ats[i + 1] = z.ats[i + 1]
      BY <1>3, <1>5, <1>11, <2>1, <2>2
    <3> QED BY <1>18, <3>1 DEF Sorted, n
  <2>3. CASE i = n
    <3>1. w.ats[i] = z.ats[n] /\ w.ats[i + 1] = ats[1]
      <4>1. i <= n /\ ~(i + 1 <= n) /\ i + 1 - n = 1
        BY <1>3, <2>3
      <4>2. w.ats[i] = z.ats[i]
        BY <1>11, <2>1, <4>1
      <4>3. w.ats[i + 1] = ats[i + 1 - n]
        <5> DEFINE p == i + 1
                   q == i + 1 - n
        <5>1. p \in 1 .. n + count /\ p > n /\ q = p - n
          BY <1>3, <1>5, <2>1, <2>3
        <5> HIDE DEF p, q
        <5>2. w.ats[p] = ats[q]
          BY <1>17, <5>1
        <5> QED BY <5>2 DEF p, q
      <4> QED BY <2>3, <4>1, <4>2, <4>3
    <3>2. 1 \in 1 .. count
      BY <1>3, <1>5, <2>1, <2>3
    <3>3. ats[1] > LastAt(z)
      BY <1>5, <1>6, <1>8, <3>2
    <3>4. LastAt(z) = z.ats[n]
      <4>1. z.ats # <<>>
        BY <1>3, <2>1, <2>3, EmptySeq DEF n
      <4> QED BY <4>1 DEF LastAt, Last, n
    <3>5. z.ats[n] \in Int /\ ats[1] \in Int
      BY <2>1, <3>1
    <3> QED BY <3>1, <3>3, <3>4, <3>5
  <2>4. CASE i > n
    <3> DEFINE j == i - n
               p == from + j - 1
    <3>1. w.ats[i] = ats[j] /\ w.ats[i + 1] = ats[j + 1] /\ j \in 1 .. count /\ j + 1 \in 1 .. count
      <4>1. i + 1 - n = j + 1 /\ j \in 1 .. count /\ j + 1 \in 1 .. count /\ ~(i <= n) /\ ~(i + 1 <= n)
        BY <1>3, <1>5, <2>1, <2>4
      <4> DEFINE r == i + 1
                 q == j + 1
      <4>2. r \in 1 .. n + count /\ r > n /\ q = r - n /\ i > n /\ j = i - n
        BY <1>3, <1>5, <2>1, <2>4
      <4> HIDE DEF r, q, j
      <4>3. w.ats[i] = ats[j] /\ w.ats[r] = ats[q]
        BY <1>17, <2>1, <4>2
      <4> QED BY <4>1, <4>3 DEF r, q
    <3>2. ats[j] = ts.ats[p] /\ ats[j + 1] = ts.ats[p + 1] /\ p \in 1 .. m /\ p + 1 \in 1 .. m
      <4>1. from + (j + 1) - 1 = p + 1
        BY <1>5, <3>1
      <4> QED BY <1>6, <1>8, <3>1, <4>1
    <3>3. p \in 1 .. m - 1
      BY <1>4, <3>2
    <3>4. ts.ats[p] < ts.ats[p + 1]
      <4> HIDE DEF p
      <4> QED BY <3>3 DEF Sorted, m
    <3> QED BY <3>1, <3>2, <3>4
  <2> QED BY <1>3, <2>1, <2>2, <2>3, <2>4
<1>19. Sorted(z.ats) => Sorted(w.ats)
  BY <1>18 DEF Sorted
<1> QED BY <1>16, <1>19 DEF w

-----------------------------------------------------------------------------
(***************************************************************************)
(* What tzload makes of a file.                                            *)
(***************************************************************************)
LEMMA FileMakes ==
  ASSUME NEW file, IsFile(file), NEW default, IsFile(default), Immovable(default),
         NEW start, DOMAIN start = Fields
  PROVE  LET r == tzload(file, default, start)
         IN  /\ DOMAIN r.sp = Fields
             /\ r.ok => file # NoFile /\ Whole(r.sp) /\ (~LastPairWrong(file) => IsZone(r.sp))
<1> DEFINE t == ReadTables(file, start)
           p == tzparse(file.footer, default, Memory)
           w == WithFooter(t.sp, file.footer, p)
           r == tzload(file, default, start)
<1>1. r = IF t.ok THEN Outcome(TRUE, Repeats(w)) ELSE t
  BY DEF tzload, AfterTables
<1>2. CASE ~t.ok
  <2>1. DOMAIN t.sp = Fields
    BY <1>2, TablesMake
  <2> HIDE DEF t
  <2>2. r = t
    BY <1>1, <1>2
  <2> HIDE DEF r
  <2> QED BY <1>2, <2>1, <2>2 DEF r
<1>3. CASE t.ok
  <2>1. /\ file # NoFile /\ t.sp = FromBlock(TableOf(file)) /\ IsBlock(TableOf(file)) /\ CountsFit(TableOf(file))
        /\ Whole(t.sp) /\ (~LastPairWrong(file) => Sorted(t.sp.ats))
    BY <1>3, TablesMake
  <2>2. Len(t.sp.ats) <= TZ_MAX_TIMES
    <3> DEFINE b == TableOf(file)
               n == Len(FromBlock(b).ats)
    <3>1. n \in 0 .. Len(b.ats) /\ Len(b.ats) \in Nat
      <4> HIDE DEF b
      <4>1. IsBlock(b) /\ CountsFit(b)
        BY <2>1 DEF b
      <4> QED BY <4>1, BlockKeeps
    <3>2. Len(b.ats) <= TZ_MAX_TIMES
      BY <2>1 DEF CountsFit
    <3>3. n <= TZ_MAX_TIMES
      <4> HIDE DEF n
      <4> QED BY <3>1, <3>2, SizeAssumption
    <3> QED BY <2>1, <3>3
  <2>3. file.footer # NoFooter /\ p.ok => Whole(p.sp) /\ Sorted(p.sp.ats)
    <3>1. DOMAIN Memory = Fields
      BY DEF Memory, Fields
    <3>2. file.footer = NoFooter \/ IsText(file.footer)
      BY <2>1 DEF IsFile
    <3> QED BY <3>1, <3>2, StringMakes
  <2>4. w = t.sp \/ (file.footer # NoFooter /\ p.ok /\ w = Extended(t.sp, p.sp))
    BY DEF WithFooter
  <2>5. Whole(w) /\ (Sorted(t.sp.ats) => Sorted(w.ats))
    <3> DEFINE z  == t.sp
               ts == p.sp
    <3>1. Whole(z) /\ Len(z.ats) <= TZ_MAX_TIMES
      BY <2>1, <2>2
    <3> HIDE DEF t, p, w, z, ts
    <3>2. CASE w = z
      BY <3>1, <3>2 DEF z
    <3>3. CASE file.footer # NoFooter /\ p.ok /\ w = Extended(z, ts)
      <4>1. Whole(ts) /\ Sorted(ts.ats)
        BY <2>3, <3>3 DEF ts
      <4>2. Whole(w) /\ (Sorted(z.ats) => Sorted(w.ats))
        BY <3>1, <3>3, <4>1, ExtendedMakes
      <4> QED BY <4>2 DEF z
    <3> QED BY <2>4, <3>2, <3>3 DEF z, ts
  <2> HIDE DEF w, t
  <2>6. r.ok /\ r.sp = Repeats(w)
    BY <1>1, <1>3 DEF Outcome
  <2>7. Whole(r.sp) /\ r.sp.ats = w.ats
    BY <2>5, <2>6, RepeatsWhole
  <2>8. ~LastPairWrong(file) => IsZone(r.sp)
    <3> SUFFICES ASSUME ~LastPairWrong(file) PROVE IsZone(r.sp)
      OBVIOUS
    <3>1. Sorted(w.ats) /\ Sorted(r.sp.ats)
      BY <2>1, <2>5, <2>7
    <3>2. Spans(r.sp)
      BY <2>5, <2>6, <3>1, RepeatsSpans
    <3> HIDE DEF r
    <3> QED BY <2>7, <3>1, <3>2, WholeIsZone
  <2>9. DOMAIN r.sp = Fields
    BY <2>7 DEF Whole, Half
  <2> HIDE DEF r
  <2> QED BY <2>1, <2>7, <2>8, <2>9 DEF r
<1> QED BY <1>2, <1>3

(***************************************************************************)
(* The last ditch is a text.                                               *)
(***************************************************************************)
LEMMA LastDitchIsText ==
  ASSUME length(GMT) \in Nat
  PROVE  IsText(LastDitch(GMT))
<1> DEFINE tz == LastDitch(GMT)
<1>1. tz.std = GMT /\ tz.off = Offset(FALSE, <<0>>) /\ tz.dst = NONE /\ tz.dstoff = NONE /\ tz.rules = <<>>
  BY DEF LastDitch, TzText
<1> HIDE DEF tz
<1>2. IsOffset(tz.off) /\ IsOffset(tz.dstoff)
  <2>1. Offset(FALSE, <<0>>).neg = FALSE /\ Offset(FALSE, <<0>>).hms = <<0>>
    BY DEF Offset
  <2>2. <<0>> \in Seq(Int) /\ Len(<<0>>) <= 3
    OBVIOUS
  <2>3. IsClock(<<0>>) /\ FALSE \in BOOLEAN
    BY <2>2, Zenon DEF IsClock
  <2>4. IsClock(tz.off.hms) /\ tz.off.neg \in BOOLEAN
    BY <1>1, <2>1, <2>3, Zenon
  <2> QED BY <1>1, <2>4 DEF IsOffset
<1>3. IsSeq(tz.rules) /\ Len(tz.rules) = 0
  BY <1>1, EmptySeq DEF IsSeq
<1>4. \A i \in 1 .. Len(tz.rules) : IsRule(tz.rules[i])
  BY <1>3
<1>5. length(tz.std) \in Nat /\ tz.dst = NONE /\ Len(tz.rules) # 2
  BY <1>1, <1>3
<1>6. IsText(tz)
  BY <1>2, <1>3, <1>4, <1>5 DEF IsText
<1> QED BY <1>6 DEF tz

(***************************************************************************)
(* What gmtload makes, whatever becomes of the file of GMT.                *)
(***************************************************************************)
LEMMA GmtMakes ==
  ASSUME NEW file, IsFile(file), NEW default, IsFile(default), Immovable(default),
         NEW start, DOMAIN start = Fields, length(GMT) \in Nat
  PROVE  LET z == gmtload(file, default, start)
         IN  /\ Whole(z)
             /\ \/ IsZone(z)
                \/ file # NoFile /\ LastPairWrong(file)
                \/ GoesOn(default)
<1> DEFINE r == tzload(file, default, start)
           p == tzparse(LastDitch(GMT), default, r.sp)
           z == gmtload(file, default, start)
<1>1. /\ DOMAIN r.sp = Fields
      /\ r.ok => file # NoFile /\ Whole(r.sp) /\ (~LastPairWrong(file) => IsZone(r.sp))
  BY FileMakes
<1>2. z = IF r.ok THEN r.sp ELSE p.sp
  BY DEF gmtload, OrLastDitch
<1>3. CASE r.ok
  <2> HIDE DEF r
  <2>1. z = r.sp
    BY <1>2, <1>3
  <2> HIDE DEF z
  <2> QED BY <1>1, <1>3, <2>1 DEF z
<1>4. CASE ~r.ok
  <2> HIDE DEF r
  <2> DEFINE s == r.sp
             one == OneType(WithDefault(default, s).sp, LastDitch(GMT), 0)
             c   == length(GMT) + 1 + 0
  <2>1. DOMAIN s = Fields /\ IsText(LastDitch(GMT))
    BY <1>1, LastDitchIsText
  <2> HIDE DEF s
  <2>2. p.sp = [one EXCEPT !.charcnt = c] /\ c \in Int
    BY LastDitchHolds DEF s
  <2>3. Half(WithDefault(default, s).sp)
        /\ (~GoesOn(default) => ~WithDefault(default, s).sp.goback /\ ~WithDefault(default, s).sp.goahead)
    BY <2>1, DefaultMakes
  <2>4. Half(one) /\ Tables(one) /\ Sorted(one.ats)
        /\ one.goback = WithDefault(default, s).sp.goback /\ one.goahead = WithDefault(default, s).sp.goahead
    <3> DEFINE y == WithDefault(default, s).sp
    <3> HIDE DEF y
    <3>1. Half(y) /\ 0 \in Int
      BY <2>3 DEF y
    <3> QED BY <3>1, OneTypeMakes DEF y
  <2> HIDE DEF one, c, p
  <2>5. /\ DOMAIN p.sp = Fields /\ p.sp.charcnt = c
        /\ p.sp.ats = one.ats /\ p.sp.types = one.types /\ p.sp.ttis = one.ttis
        /\ p.sp.goback = one.goback /\ p.sp.goahead = one.goahead /\ p.sp.lsis = one.lsis
    <3>1. DOMAIN one = Fields
      BY <2>4 DEF Half
    <3> QED BY <2>2, <3>1 DEF Fields
  <2>6. Whole(p.sp) /\ Sorted(p.sp.ats)
    <3>1. Half(p.sp)
      BY <2>4, <2>5, Zenon DEF Half
    <3>2. Tables(p.sp)
      BY <2>4, <2>5, Zenon DEF Tables
    <3>3. p.sp.charcnt \in Int
      BY <2>2, <2>5
    <3> QED BY <2>4, <2>5, <3>1, <3>2, <3>3 DEF Whole
  <2>7. ~GoesOn(default) => IsZone(p.sp)
    <3> SUFFICES ASSUME ~GoesOn(default) PROVE IsZone(p.sp)
      OBVIOUS
    <3>1. Spans(p.sp)
      BY <2>3, <2>4, <2>5 DEF Spans
    <3> DEFINE y == p.sp
    <3>2. Whole(y) /\ Sorted(y.ats) /\ Spans(y)
      BY <2>6, <3>1
    <3> HIDE DEF y
    <3>3. IsZone(y)
      BY <3>2, WholeIsZone
    <3> QED BY <3>3 DEF y
  <2>8. z = p.sp
    BY <1>2, <1>4 DEF r, p
  <2> HIDE DEF z
  <2> QED BY <2>6, <2>7, <2>8 DEF z
<1> QED BY <1>3, <1>4

-----------------------------------------------------------------------------
(***************************************************************************)
(* What the steps of tz_alloc hand on: an object with all of its fields,   *)
(* written or not, until the last of them leaves a whole one.              *)
(***************************************************************************)
AllocInv ==
  /\ files \in FileSystems
  /\ pc \in {"idle", "tzload", "tzsetwall", "tzparse", "gmtload", "done"}
  /\ pc \in {"tzload", "tzsetwall", "tzparse", "gmtload"} => DOMAIN sp = Fields /\ name # FAST
  /\ pc \in {"tzload", "tzparse"} => name \in Names \ {NULL, FAST}
  /\ pc = "done" /\ sp # NULL =>
       IF name = FAST THEN sp = RatherThanRight ELSE Whole(sp) /\ (IsZone(sp) \/ Excepted(source))

(***************************************************************************)
(* The files an attempt finds.                                             *)
(***************************************************************************)
LEMMA FilesAreSound ==
  ASSUME SoundSources, files \in FileSystems
  PROVE  /\ \A default \in Readable(TZDEFRULES) : IsFile(default) /\ Immovable(default)
         /\ \A file \in Readable(TZDEFAULT) \cup Readable(GMT) : IsFile(file)
         /\ \A n \in Names \ {NULL, FAST} : IsText(n.tz) /\ \A file \in Readable(n.file) : IsFile(file)
         /\ length(GMT) \in Nat
<1>1. IsFile(NoFile) /\ Immovable(NoFile)
  BY DEF IsFile, Immovable
<1>2. /\ IsFile(files[TZDEFRULES]) /\ Immovable(files[TZDEFRULES])
      /\ IsFile(files[TZDEFAULT]) /\ IsFile(files[GMT])
      /\ \A n \in Names \ {NULL, FAST} : IsText(n.tz) /\ IsFile(files[n.file])
      /\ length(GMT) \in Nat
  BY DEF SoundSources
<1> QED BY <1>1, <1>2 DEF Readable

(***************************************************************************)
(* An attempt that fails leaves the object to the next one.                *)
(***************************************************************************)
LEMMA AttemptKeeps ==
  ASSUME AllocInv, name # FAST, NEW o, NEW src, NEW next, Attempt(o, src, next),
         DOMAIN o.sp = Fields,
         o.ok => Whole(o.sp) /\ (IsZone(o.sp) \/ Excepted(src)),
         o.ok \/ next = "gmtload" \/ (next = "tzparse" /\ name \in Names \ {NULL, FAST})
  PROVE  AllocInv'
<1>1. files' = files /\ name' = name /\ sp' = o.sp
      /\ (o.ok => pc' = "done" /\ source' = src) /\ (~o.ok => pc' = next)
  BY DEF Attempt
<1>2. CASE o.ok
  <2>1. Whole(sp)' /\ (IsZone(sp) \/ Excepted(source))'
    <3>1. Whole(sp') /\ (IsZone(sp') \/ Excepted(source'))
      BY <1>1, <1>2
    <3> QED BY <3>1 DEF Whole, Half, Tables, IsZone, Excepted, GoesOn
  <2>2. pc' = "done" /\ ~(name' = FAST)
    BY <1>1, <1>2
  <2> QED BY <1>1, <2>1, <2>2 DEF AllocInv
<1>3. CASE ~o.ok
  <2>1. pc' = next /\ next \in {"gmtload", "tzparse"} /\ (next = "tzparse" => name \in Names \ {NULL, FAST})
    BY <1>1, <1>3
  <2> QED BY <1>1, <2>1 DEF AllocInv
<1> QED BY <1>2, <1>3

(***************************************************************************)
(* Nothing is asked for at first.                                          *)
(***************************************************************************)
LEMMA AllocInitially == Init => AllocInv
BY DEF Init, AllocInv

(***************************************************************************)
(* A call begins: the empty name is answered at once.                      *)
(***************************************************************************)
LEMMA RequestKeeps ==
  ASSUME AllocInv, NEW n \in Names, tz_alloc(n)
  PROVE  AllocInv'
<1>1. /\ files' = files /\ name' = n
      /\ \/ pc' = "done" /\ sp' = NULL
         \/ pc' = Calls(n) /\ sp' = IF n = FAST THEN RatherThanRight ELSE Memory
  BY DEF tz_alloc
<1>2. CASE pc' = "done" /\ sp' = NULL
  BY <1>1, <1>2 DEF AllocInv
<1>3. CASE n = FAST /\ pc' = Calls(n) /\ sp' = RatherThanRight
  <2>1. pc' = "done"
    BY <1>3, RequestAssumption DEF Calls
  <2> QED BY <1>1, <1>3, <2>1 DEF AllocInv, RatherThanRight
<1>4. CASE n # FAST /\ pc' = Calls(n) /\ sp' = Memory
  <2>1. DOMAIN Memory = Fields
    BY DEF Memory, Fields
  <2>2. pc' = IF n = NULL THEN "tzsetwall" ELSE "tzload"
    BY <1>4 DEF Calls
  <2> QED BY <1>1, <1>4, <2>1, <2>2 DEF AllocInv
<1> QED BY <1>1, <1>2, <1>3, <1>4

(***************************************************************************)
(* Files, strings and the last ditch, each in its turn.                    *)
(***************************************************************************)
LEMMA AttemptsKeep ==
  ASSUME SoundSources, AllocInv, NEW default \in Readable(TZDEFRULES),
         \/ pc = "tzload" /\ \E file \in Readable(name.file) : Load(file, default)
         \/ \E file \in Readable(TZDEFAULT) : tzsetwall(file, default)
         \/ Parse(default)
         \/ \E file \in Readable(GMT) : LoadGmt(file, default)
  PROVE  AllocInv'
<1>1. /\ IsFile(default) /\ Immovable(default) /\ length(GMT) \in Nat
      /\ \A file \in Readable(TZDEFAULT) \cup Readable(GMT) : IsFile(file)
      /\ \A n \in Names \ {NULL, FAST} : IsText(n.tz) /\ \A file \in Readable(n.file) : IsFile(file)
  BY FilesAreSound DEF AllocInv
<1>2. ASSUME NEW file, IsFile(file), DOMAIN sp = Fields
      PROVE  LET o == tzload(file, default, sp)
             IN  /\ DOMAIN o.sp = Fields
                 /\ o.ok => Whole(o.sp) /\ (IsZone(o.sp) \/ Excepted(Source("file", file, default)))
  <2> DEFINE o == tzload(file, default, sp)
  <2>1. /\ DOMAIN o.sp = Fields
        /\ o.ok => file # NoFile /\ Whole(o.sp) /\ (~LastPairWrong(file) => IsZone(o.sp))
    BY <1>1, <1>2, FileMakes
  <2> HIDE DEF o
  <2>2. LastPairWrong(file) /\ file # NoFile => Excepted(Source("file", file, default))
    BY DEF Excepted, Source
  <2>3. /\ DOMAIN o.sp = Fields
        /\ o.ok => Whole(o.sp) /\ (IsZone(o.sp) \/ Excepted(Source("file", file, default)))
    BY <2>1, <2>2
  <2> QED BY <2>3 DEF o
<1>3. CASE pc = "tzload" /\ \E file \in Readable(name.file) : Load(file, default)
  <2>1. PICK file \in Readable(name.file) : Load(file, default)
    BY <1>3
  <2> DEFINE o    == tzload(file, default, sp)
             src  == Source("file", file, default)
             next == IF name.colon THEN "gmtload" ELSE "tzparse"
  <2>2. Attempt(o, src, next)
    BY <2>1 DEF Load
  <2>3. name \in Names \ {NULL, FAST} /\ DOMAIN sp = Fields /\ name # FAST
    BY <1>3 DEF AllocInv
  <2>4. IsFile(file)
    BY <1>1, <2>3
  <2>5. DOMAIN o.sp = Fields /\ (o.ok => Whole(o.sp) /\ (IsZone(o.sp) \/ Excepted(src)))
    BY <1>2, <2>3, <2>4
  <2>6. next = "gmtload" \/ next = "tzparse"
    OBVIOUS
  <2> HIDE DEF o, src, next
  <2> QED BY <2>2, <2>3, <2>5, <2>6, AttemptKeeps
<1>4. CASE \E file \in Readable(TZDEFAULT) : tzsetwall(file, default)
  <2>1. PICK file \in Readable(TZDEFAULT) : tzsetwall(file, default)
    BY <1>4
  <2> DEFINE o    == tzload(file, default, sp)
             src  == Source("file", file, default)
  <2>2. Attempt(o, src, "gmtload") /\ pc = "tzsetwall"
    BY <2>1 DEF tzsetwall
  <2>3. DOMAIN sp = Fields /\ name # FAST
    BY <2>2 DEF AllocInv
  <2>4. IsFile(file)
    BY <1>1
  <2>5. DOMAIN o.sp = Fields /\ (o.ok => Whole(o.sp) /\ (IsZone(o.sp) \/ Excepted(src)))
    BY <1>2, <2>3, <2>4
  <2> HIDE DEF o, src
  <2> QED BY <2>2, <2>3, <2>5, AttemptKeeps
<1>5. CASE Parse(default)
  <2> DEFINE o    == tzparse(name.tz, default, sp)
             src  == Source("string", NoFile, default)
  <2>1. Attempt(o, src, "gmtload") /\ pc = "tzparse"
    BY <1>5 DEF Parse
  <2>2. DOMAIN sp = Fields /\ name \in Names \ {NULL, FAST} /\ name # FAST
    BY <2>1 DEF AllocInv
  <2>3. /\ DOMAIN o.sp = Fields
        /\ o.ok => /\ Whole(o.sp) /\ Sorted(o.sp.ats)
                   /\ ~GoesOn(default) => ~o.sp.goback /\ ~o.sp.goahead
    <3>1. IsText(name.tz)
      BY <1>1, <2>2
    <3> QED BY <1>1, <2>2, <3>1, StringMakes
  <2>4. GoesOn(default) => Excepted(src)
    BY DEF Excepted, Source
  <2> HIDE DEF o, src
  <2>5. o.ok => Whole(o.sp) /\ (IsZone(o.sp) \/ Excepted(src))
    <3> SUFFICES ASSUME o.ok, ~GoesOn(default) PROVE IsZone(o.sp)
      BY <2>3, <2>4
    <3> DEFINE z == o.sp
    <3>1. Whole(z) /\ Sorted(z.ats) /\ ~z.goback /\ ~z.goahead
      BY <2>3
    <3> HIDE DEF z
    <3>2. Spans(z)
      BY <3>1 DEF Spans
    <3>3. IsZone(z)
      BY <3>1, <3>2, WholeIsZone
    <3> QED BY <3>3 DEF z
  <2> QED BY <2>1, <2>2, <2>3, <2>5, AttemptKeeps
<1>6. CASE \E file \in Readable(GMT) : LoadGmt(file, default)
  <2>1. PICK file \in Readable(GMT) : LoadGmt(file, default)
    BY <1>6
  <2> DEFINE z    == gmtload(file, default, sp)
             o    == Outcome(TRUE, z)
             src  == Source("gmt", file, default)
  <2>2. Attempt(o, src, "done") /\ pc = "gmtload"
    BY <2>1 DEF LoadGmt
  <2>3. DOMAIN sp = Fields /\ name # FAST
    BY <2>2 DEF AllocInv
  <2>4. IsFile(file)
    BY <1>1
  <2>5. /\ Whole(z)
        /\ \/ IsZone(z)
           \/ file # NoFile /\ LastPairWrong(file)
           \/ GoesOn(default)
    BY <1>1, <2>3, <2>4, GmtMakes
  <2>6. file # NoFile /\ LastPairWrong(file) => Excepted(src)
    BY DEF Excepted, Source
  <2>7. GoesOn(default) => Excepted(src)
    BY DEF Excepted, Source
  <2> HIDE DEF z, src
  <2>8. o.ok /\ o.sp = z /\ DOMAIN z = Fields
    BY <2>5 DEF Outcome, Whole, Half
  <2> HIDE DEF o
  <2> DEFINE done == "done"
  <2> HIDE DEF done
  <2>9. Attempt(o, src, done)
    BY <2>2 DEF done
  <2> QED BY <2>3, <2>5, <2>6, <2>7, <2>8, <2>9, AttemptKeeps
<1> QED BY <1>3, <1>4, <1>5, <1>6

(***************************************************************************)
(* Every step of the program keeps the invariant.                          *)
(***************************************************************************)
LEMMA AllocStays ==
  ASSUME SoundSources, AllocInv, [Next]_vars
  PROVE  AllocInv'
<1>1. CASE \E n \in Names : tz_alloc(n)
  BY <1>1, RequestKeeps
<1>2. CASE \E default \in Readable(TZDEFRULES) :
             \/ pc = "tzload" /\ \E file \in Readable(name.file) : Load(file, default)
             \/ \E file \in Readable(TZDEFAULT) : tzsetwall(file, default)
             \/ Parse(default)
             \/ \E file \in Readable(GMT) : LoadGmt(file, default)
  BY <1>2, AttemptsKeep
<1>3. CASE Free
  BY <1>3 DEF Free, AllocInv
<1>4. CASE UNCHANGED <<files, alloc_vars>>
  BY <1>4 DEF alloc_vars, AllocInv, Whole, Half, Tables, IsZone, Excepted, GoesOn
<1> QED BY <1>1, <1>2, <1>3, <1>4 DEF Next, vars

(***************************************************************************)
(* Conversions get the zone they rely on.                                  *)
(***************************************************************************)
THEOREM ZonesAreAssumed == SoundSources => (Spec => []ZoneAssumed)
<1> SUFFICES ASSUME SoundSources PROVE Spec => []ZoneAssumed
  OBVIOUS
<1>1. Init => AllocInv
  BY AllocInitially
<1>2. AllocInv /\ [Next]_vars => AllocInv'
  BY AllocStays
<1>3. AllocInv => ZoneAssumed
  BY DEF AllocInv, ZoneAssumed, Made
<1> QED BY <1>1, <1>2, <1>3, PTL DEF Spec

(***************************************************************************)
(* Memory that nobody has written is left only by the fast way.            *)
(***************************************************************************)
THEOREM ZonesAreComplete ==
  SoundSources /\ UNSET \notin Int \cup BOOLEAN /\ (\A n \in Nat : DOMAIN UNSET # 1 .. n)
    => (Spec => []CompleteUnlessFast)
<1> SUFFICES ASSUME SoundSources, UNSET \notin Int \cup BOOLEAN, \A n \in Nat : DOMAIN UNSET # 1 .. n
             PROVE  Spec => []CompleteUnlessFast
  OBVIOUS
<1>1. Init => AllocInv
  BY AllocInitially
<1>2. AllocInv /\ [Next]_vars => AllocInv'
  BY AllocStays
<1>3. UNSET \in {RatherThanRight[f] : f \in DOMAIN RatherThanRight}
  <2>1. "goback" \in DOMAIN RatherThanRight /\ RatherThanRight["goback"] = UNSET
    BY DEF RatherThanRight, Memory
  <2> QED BY <2>1
<1>4. ASSUME NEW z, Whole(z)
      PROVE  UNSET \notin {z[f] : f \in DOMAIN z}
  <2>1. ASSUME NEW S, NEW s \in Seq(S) PROVE s # UNSET
    BY LenProperties
  <2>2. z.ats # UNSET /\ z.types # UNSET
    BY <1>4, <2>1 DEF Whole, Tables
  <2>3. z.ttis # UNSET
    BY <1>4, <2>1 DEF Whole, Tables, IsSeq
  <2>4. z.lsis # UNSET
    BY <1>4, <2>1 DEF Whole, Half, LeapsInTurn, Leaps
  <2>5. z.goback # UNSET /\ z.goahead # UNSET
    BY <1>4, Zenon DEF Whole, Half
  <2>6. z.charcnt # UNSET
    BY <1>4 DEF Whole
  <2>7. DOMAIN z = Fields
    BY <1>4 DEF Whole, Half
  <2> QED BY <2>2, <2>3, <2>4, <2>5, <2>6, <2>7 DEF Fields
<1>5. AllocInv => CompleteUnlessFast
  BY <1>3, <1>4 DEF AllocInv, CompleteUnlessFast, Made
<1> QED BY <1>1, <1>2, <1>5, PTL DEF Spec

-----------------------------------------------------------------------------
(* The tables of a zone z that tzparse makes of those of y.                *)
MadeFrom(z, y, std, dst) ==
  /\ Len(z.ats) = Len(y.ats)
  /\ \A i \in 1 .. Len(y.ats) : z.ats[i] = Moved(y, i, std) /\ z.types[i] = 1 + y.ttis[y.types[i]].isdst
  /\ Len(z.ttis) = 2
  /\ z.ttis[1].gmtoff = -std /\ z.ttis[1].isdst = 0 /\ z.ttis[2].gmtoff = -dst /\ z.ttis[2].isdst = 1

(***************************************************************************)
(* A zone begins with a standard type of it, if it has one.                *)
(***************************************************************************)
LEMMA FirstIsStandard ==
  ASSUME NEW z, Len(z.ttis) \in Nat, NEW k \in 1 .. Len(z.ttis), z.ttis[k].isdst = 0
  PROVE  FirstType(z) \in 1 .. Len(z.ttis) /\ z.ttis[FirstType(z)].isdst = 0
<1> DEFINE S == {i \in 1 .. Len(z.ttis) : z.ttis[i].isdst = 0}
<1>1. S \in SUBSET Nat /\ S # {}
  OBVIOUS
<1>2. FirstType(z) = CHOOSE i \in S : \A j \in S : i <= j
  BY <1>1 DEF FirstType
<1> HIDE DEF S
<1>3. Min(S) \in S /\ \A m \in S : Min(S) <= m
  BY <1>1, LeastOne
<1>4. FirstType(z) \in S
  BY <1>2, <1>3
<1> QED BY <1>4 DEF S

(***************************************************************************)
(* What the clock of one zone and that of the other are ahead, before a    *)
(* transition.                                                             *)
(***************************************************************************)
LEMMA BothAhead ==
  ASSUME NEW y, Tables(y), NEW z, NEW std \in Int, NEW dst \in Int, MadeFrom(z, y, std, dst),
         NEW s \in 1 .. Len(y.ats), ~IsDstType(y, s), NEW p \in 0 .. Len(y.ats)
  PROVE  /\ Ahead(y, p) \in Int /\ Ahead(z, p) \in Int
         /\ IsDstType(z, p) <=> IsDstType(y, p)
         /\ ~IsDstType(z, p) => Ahead(z, p) = -std
         /\ ~IsDstType(y, 0) /\ ~IsDstType(z, 0)
<1> DEFINE n == Len(y.ats)
           m == Len(y.ttis)
<1>1. n \in Nat /\ m \in Nat \ {0}
  BY LenProperties DEF Tables
<1>2. /\ \A i \in 1 .. n : y.types[i] \in 1 .. m
      /\ \A i \in 1 .. m : y.ttis[i].gmtoff \in Int /\ y.ttis[i].isdst \in {0, 1}
  BY DEF Tables
<1>3. y.types[s] \in 1 .. m /\ y.ttis[y.types[s]].isdst = 0
  <2>1. s # 0 /\ y.ttis[y.types[s]].isdst # 1
    BY <1>1 DEF IsDstType
  <2> QED BY <1>2, <2>1
<1>4. FirstType(y) \in 1 .. m /\ y.ttis[FirstType(y)].isdst = 0
  BY <1>1, <1>3, FirstIsStandard
<1>5. FirstType(z) = 1
  <2>1. Len(z.ttis) = 2 /\ z.ttis[1].isdst = 0 /\ z.ttis[2].isdst = 1
    BY DEF MadeFrom
  <2>2. Len(z.ttis) \in Nat /\ 1 \in 1 .. Len(z.ttis)
    BY <2>1
  <2>3. FirstType(z) \in 1 .. Len(z.ttis) /\ z.ttis[FirstType(z)].isdst = 0
    BY <2>1, <2>2, FirstIsStandard
  <2>4. FirstType(z) = 1 \/ FirstType(z) = 2
    BY <2>1, <2>3
  <2> QED BY <2>1, <2>3, <2>4
<1>6. z.ttis[1].gmtoff = -std /\ z.ttis[1].isdst = 0 /\ z.ttis[2].gmtoff = -dst /\ z.ttis[2].isdst = 1
  BY DEF MadeFrom
<1>7. ~IsDstType(y, 0) /\ ~IsDstType(z, 0) /\ Ahead(y, 0) \in Int /\ Ahead(z, 0) = -std
  BY <1>2, <1>4, <1>5, <1>6 DEF IsDstType, Ahead
<1>8. CASE p = 0
  BY <1>7, <1>8
<1>9. CASE p # 0
  <2> DEFINE u == y.types[p]
             v == z.types[p]
  <2>1. p \in 1 .. n
    BY <1>1, <1>9
  <2>2. u \in 1 .. m /\ v = 1 + y.ttis[u].isdst
    BY <1>2, <2>1 DEF MadeFrom
  <2>3. /\ Ahead(y, p) = y.ttis[u].gmtoff /\ (IsDstType(y, p) <=> y.ttis[u].isdst = 1)
        /\ Ahead(z, p) = z.ttis[v].gmtoff /\ (IsDstType(z, p) <=> z.ttis[v].isdst = 1)
    BY <1>9 DEF Ahead, IsDstType
  <2>4. y.ttis[u].gmtoff \in Int /\ y.ttis[u].isdst \in {0, 1}
    BY <1>2, <2>2
  <2> HIDE DEF u, v
  <2>5. CASE y.ttis[u].isdst = 0
    <3>1. v = 1
      BY <2>2, <2>5
    <3> QED BY <1>6, <1>7, <2>3, <2>4, <2>5, <3>1
  <2>6. CASE y.ttis[u].isdst = 1
    <3>1. v = 2
      BY <2>2, <2>6
    <3> QED BY <1>6, <1>7, <2>3, <2>4, <2>6, <3>1
  <2> QED BY <2>4, <2>5, <2>6
<1> QED BY <1>8, <1>9

(***************************************************************************)
(* The clocks are changed at the same wall time, or both save the same.    *)
(***************************************************************************)
LEMMA WallTimes ==
  ASSUME NEW y, Tables(y), NEW z, NEW std \in Int, NEW dst \in Int, MadeFrom(z, y, std, dst),
         NEW i \in 1 .. Len(y.ats), y.ttis[y.types[i]].ttisgmt = 0, StandardKnown(y, i)
  PROVE  Wall(z, i) = Wall(y, i) <=> ~IsDstType(y, i - 1) \/ Saving(z, i - 1) = Saving(y, i - 1)
<1> DEFINE n        == Len(y.ats)
           p        == i - 1
           standard == {k \in 1 .. n : ~IsDstType(y, k)}
           before   == {k \in standard : k < i}
           J(w)     == {j \in 0 .. p : ~IsDstType(w, j)}
<1>1. n \in Nat /\ p \in 0 .. n /\ i \in Int /\ p < i
  BY LenProperties DEF Tables
<1>2. standard # {} /\ (Min(standard) < i \/ Ahead(y, 0) = Ahead(y, Min(standard)))
  BY DEF StandardKnown
<1>3. PICK s \in 1 .. n : ~IsDstType(y, s)
  BY <1>2
<1>4. \A q \in 0 .. n : /\ Ahead(y, q) \in Int /\ Ahead(z, q) \in Int
                        /\ IsDstType(z, q) <=> IsDstType(y, q)
                        /\ ~IsDstType(z, q) => Ahead(z, q) = -std
  BY <1>3, BothAhead
<1>5. ~IsDstType(y, 0) /\ ~IsDstType(z, 0)
  BY <1>1, <1>3, BothAhead
<1>6. standard \in SUBSET Nat /\ standard \in SUBSET (1 .. n) /\ before \in SUBSET (1 .. n) /\ before \subseteq standard
  BY <1>1
<1>7. standard = {k \in 1 .. n : y.ttis[y.types[k]].isdst = 0}
  <2>1. \A k \in 1 .. n : IsDstType(y, k) <=> y.ttis[y.types[k]].isdst = 1
    BY <1>1 DEF IsDstType
  <2>2. \A k \in 1 .. n : y.ttis[y.types[k]].isdst \in {0, 1}
    BY DEF Tables
  <2>3. \A k \in 1 .. n : ~IsDstType(y, k) <=> y.ttis[y.types[k]].isdst = 0
    BY <2>1, <2>2
  <2> QED BY <2>3
<1>8. J(z) = J(y)
  <2>1. \A j \in 0 .. p : j \in 0 .. n
    BY <1>1
  <2> QED BY <1>4, <2>1
<1> DEFINE g == IF before # {} THEN Max(before) ELSE 0
<1>9. g \in J(y) /\ \A j \in J(y) : j <= g
  <2>1. CASE before # {}
    <3>1. g \in before /\ \A b \in before : b <= g
      BY <1>1, <1>6, <2>1, GreatestOne
    <3> HIDE DEF g
    <3>2. g \in 1 .. n /\ g \in 0 .. p /\ ~IsDstType(y, g)
      BY <1>1, <3>1
    <3>3. ASSUME NEW j \in J(y) PROVE j <= g
      <4>1. CASE j = 0
        BY <3>2, <4>1
      <4>2. CASE j # 0
        <5>1. j \in before
          BY <1>1, <4>2
        <5> QED BY <3>1, <5>1
      <4> QED BY <4>1, <4>2
    <3> QED BY <3>2, <3>3
  <2>2. CASE before = {}
    <3>1. g = 0 /\ 0 \in J(y)
      BY <1>1, <1>5, <2>2
    <3>2. ASSUME NEW j \in J(y) PROVE j = 0
      <4> SUFFICES ASSUME j # 0 PROVE FALSE
        OBVIOUS
      <4>1. j \in before
        BY <1>1
      <4> QED BY <2>2, <4>1
    <3> HIDE DEF g
    <3> QED BY <3>1, <3>2
  <2> QED BY <2>1, <2>2
<1>10. Max(J(y)) = g /\ g \in 0 .. n /\ ~IsDstType(y, g) /\ ~IsDstType(z, g)
  <2>1. J(y) \in SUBSET Int /\ \A j \in J(y) : j \in 0 .. n /\ ~IsDstType(y, j)
    BY <1>1
  <2> HIDE DEF g
  <2>2. g \in 0 .. n /\ ~IsDstType(y, g)
    BY <1>9, <2>1
  <2> HIDE DEF J
  <2> QED BY <1>4, <1>9, <2>1, <2>2, GreatestIs
<1>11. Saving(y, p) = Ahead(y, p) - Ahead(y, g) /\ Saving(z, p) = Ahead(z, p) - Ahead(z, g)
  BY <1>8, <1>10 DEF Saving
<1>12. StandardBefore(y, i) = -Ahead(y, g)
  <2>1. StandardBefore(y, i) = -y.ttis[y.types[IF before # {} THEN Max(before) ELSE Min(standard)]].gmtoff
    BY <1>2, <1>7 DEF StandardBefore
  <2>2. \A k \in 1 .. n : Ahead(y, k) = y.ttis[y.types[k]].gmtoff
    BY <1>1 DEF Ahead
  <2>3. CASE before # {}
    <3>1. Max(before) \in 1 .. n
      BY <1>1, <1>6, <2>3, GreatestOne
    <3> QED BY <2>1, <2>2, <2>3, <3>1
  <2>4. CASE before = {}
    <3> DEFINE least == Min(standard)
    <3> HIDE DEF standard, before
    <3>1. least \in standard
      BY <1>2, <1>6, LeastOne
    <3> HIDE DEF least
    <3>2. least \in 1 .. n
      BY <1>6, <3>1
    <3>3. ~(least < i)
      BY <2>4, <3>1 DEF before
    <3>4. Ahead(y, 0) = Ahead(y, least)
      BY <1>2, <3>3 DEF least
    <3>5. StandardBefore(y, i) = -Ahead(y, least)
      BY <2>1, <2>2, <2>4, <3>2 DEF least
    <3> QED BY <2>4, <3>4, <3>5
  <2> QED BY <2>3, <2>4
<1>13. /\ Wall(z, i) = y.ats[i] + std - StandardBefore(y, i) + Ahead(z, p)
       /\ Wall(y, i) = y.ats[i] + Ahead(y, p)
  <2>1. z.ats[i] = Moved(y, i, std)
    BY DEF MadeFrom
  <2>2. Moved(y, i, std) = y.ats[i] + std - StandardBefore(y, i)
    BY DEF Moved
  <2> QED BY <2>1, <2>2 DEF Wall
<1> DEFINE x  == y.ats[i]
           ap == Ahead(y, p)
           bp == Ahead(z, p)
           ag == Ahead(y, g)
           bg == Ahead(z, g)
<1>14. x \in Int /\ ap \in Int /\ bp \in Int /\ ag \in Int /\ bg = -std
  <2>1. x \in Int
    BY ElementOfSeq DEF Tables
  <2> HIDE DEF g
  <2> QED BY <1>1, <1>4, <1>10, <2>1
<1>15. ~IsDstType(y, p) => g = p /\ bp = -std
  <2>1. ~IsDstType(y, p) => p \in J(y)
    BY <1>1
  <2> HIDE DEF g
  <2>2. ~IsDstType(y, p) => p <= g
    BY <1>9, <2>1
  <2>3. g \in 0 .. p
    BY <1>9
  <2> QED BY <1>1, <1>4, <2>2, <2>3
<1>16. /\ Wall(z, i) = x + std - (-ag) + bp /\ Wall(y, i) = x + ap
       /\ Saving(y, p) = ap - ag /\ Saving(z, p) = bp - bg
  BY <1>11, <1>12, <1>13
<1>17. ~IsDstType(y, p) => ap = ag
  BY <1>15
<1> HIDE DEF x, ap, bp, ag, bg, g
<1>18. Wall(z, i) = Wall(y, i) <=> ~IsDstType(y, p) \/ Saving(z, p) = Saving(y, p)
  <2> DEFINE wz == Wall(z, i)
             wy == Wall(y, i)
             sz == Saving(z, p)
             sy == Saving(y, p)
  <2>1. wz = x + std - (-ag) + bp /\ wy = x + ap /\ sy = ap - ag /\ sz = bp - bg
    BY <1>16
  <2> HIDE DEF wz, wy, sz, sy
  <2>2. wz = wy <=> sz = sy
    BY <1>14, <2>1
  <2>3. ~IsDstType(y, p) => wz = wy
    BY <1>14, <1>15, <1>17, <2>1
  <2> QED BY <2>2, <2>3 DEF wz, wy, sz, sy
<1> QED BY <1>18

-----------------------------------------------------------------------------
(* What tzparse makes of a string in an object that has all of its fields. *)
StringMade(z, tz, default) ==
  \E start : DOMAIN start = Fields /\ tzparse(tz, default, start).ok /\ z = tzparse(tz, default, start).sp

(***************************************************************************)
(* Where a zone that is made of a string comes from.                       *)
(***************************************************************************)
MadeInv ==
  source.of = "string" =>
    /\ name \in Names \ {NULL, FAST}
    /\ IsFile(source.default) /\ Immovable(source.default)
    /\ StringMade(sp, name.tz, source.default)

(***************************************************************************)
(* There is none at first.                                                 *)
(***************************************************************************)
LEMMA MadeInitially == Init => MadeInv
BY DEF Init, MadeInv, NoSource

(***************************************************************************)
(* Only the attempt with the string makes one.                             *)
(***************************************************************************)
LEMMA MadeStays ==
  ASSUME SoundSources, AllocInv, MadeInv, [Next]_vars
  PROVE  MadeInv'
<1>1. CASE source'.of # "string"
  BY <1>1 DEF MadeInv
<1>2. CASE \E default \in Readable(TZDEFRULES) : Parse(default)
  <2>1. PICK default \in Readable(TZDEFRULES) : Parse(default)
    BY <1>2
  <2> DEFINE o == tzparse(name.tz, default, sp)
  <2>2. /\ sp' = o.sp /\ name' = name /\ pc = "tzparse"
        /\ source' = IF o.ok THEN Source("string", NoFile, default) ELSE NoSource
    BY <2>1 DEF Parse, Attempt
  <2>3. DOMAIN sp = Fields /\ name \in Names \ {NULL, FAST} /\ IsFile(default) /\ Immovable(default)
    BY <2>2, FilesAreSound DEF AllocInv
  <2>4. CASE ~o.ok
    BY <2>2, <2>4, <1>1 DEF NoSource
  <2>5. CASE o.ok
    <3>1. StringMade(o.sp, name.tz, default)
      BY <2>3, <2>5 DEF StringMade
    <3> HIDE DEF o
    <3>2. source'.default = default
      BY <2>2, <2>5 DEF Source
    <3>3. IsFile(source'.default) /\ Immovable(source'.default) /\ StringMade(sp', name'.tz, source'.default)
      BY <2>2, <2>3, <3>1, <3>2
    <3> QED BY <2>2, <2>3, <3>3 DEF MadeInv
  <2> QED BY <2>4, <2>5
<1>3. CASE UNCHANGED <<source, name, sp>>
  BY <1>3 DEF MadeInv
<1>4. ASSUME NEW default, NEW file, Load(file, default) \/ tzsetwall(file, default) \/ LoadGmt(file, default)
      PROVE  source'.of # "string"
  <2>1. ASSUME NEW o, NEW of, of # "string", NEW next, Attempt(o, Source(of, file, default), next)
        PROVE  source'.of # "string"
    BY <2>1 DEF Attempt, Source, NoSource
  <2> DEFINE zone == tzload(file, default, sp)
             gmt1 == Outcome(TRUE, gmtload(file, default, sp))
             next == IF name.colon THEN "gmtload" ELSE "tzparse"
  <2>2. \/ Attempt(zone, Source("file", file, default), next)
        \/ Attempt(zone, Source("file", file, default), "gmtload")
        \/ Attempt(gmt1, Source("gmt", file, default), "done")
    BY <1>4 DEF Load, tzsetwall, LoadGmt
  <2> HIDE DEF zone, gmt1, next
  <2>3. "file" # "string" /\ "gmt" # "string"
    OBVIOUS
  <2> QED BY <2>1, <2>2, <2>3
<1>5. ASSUME NEW n, tz_alloc(n)
      PROVE  source'.of # "string"
  BY <1>5 DEF tz_alloc, NoSource
<1>6. Free => source'.of # "string"
  BY DEF Free, NoSource
<1>7. UNCHANGED alloc_vars => UNCHANGED <<source, name, sp>>
  BY DEF alloc_vars
<1>8. UNCHANGED vars => UNCHANGED alloc_vars
  BY DEF vars
<1> QED BY <1>1, <1>2, <1>3, <1>4, <1>5, <1>6, <1>7, <1>8 DEF Next

(***************************************************************************)
(* A string with daylight saving time and without rules: its zone is made  *)
(* from the tables of the default rules.                                   *)
(***************************************************************************)
LEMMA StringBorrows ==
  ASSUME NEW tz, IsText(tz), tz.dst # NONE, tz.rules = <<>>,
         NEW default, IsFile(default), ReadTables(default, Memory).ok, NEW z, StringMade(z, tz, default)
  PROVE  LET y == FromBlock(TableOf(default))
         IN  Tables(y) /\ \E std, dst \in Int : MadeFrom(z, y, std, dst)
<1>1. PICK start : DOMAIN start = Fields /\ tzparse(tz, default, start).ok /\ z = tzparse(tz, default, start).sp
  BY DEF StringMade
<1> DEFINE y   == FromBlock(TableOf(default))
           r   == ReadTables(default, start)
           d   == WithDefault(default, start)
           std == getoffset(tz.off)
           dst == IF tz.dstoff = NONE THEN std - SECSPERHOUR ELSE getoffset(tz.dstoff)
           w   == WithDst(d, tz, std)
<1>2. r.ok
  BY DEF ReadTables, Outcome
<1>3. Whole(y) /\ r.sp = y
  BY <1>2, TablesMake
<1>4. d.ok /\ d.sp = Repeats(y)
  BY <1>2, <1>3 DEF WithDefault, DefaultTables, Outcome
<1>5. std # NONE /\ w.ok /\ z = Named(w, tz).sp
  <2> HIDE DEF d
  <2>1. tzparse(tz, default, start) = IF tz.std = UNCLOSED \/ std = NONE THEN Outcome(FALSE, start) ELSE Named(w, tz)
    BY DEF tzparse, d
  <2>2. tzparse(tz, default, start) = Named(w, tz) /\ std # NONE
    BY <1>1, <2>1 DEF Outcome
  <2>3. Named(w, tz).ok => w.ok
    BY DEF Named
  <2> QED BY <1>1, <2>2, <2>3
<1>6. dst # NONE /\ w.sp = Borrowed(d.sp, tz, std, dst)
  <2> HIDE DEF d, std
  <2>1. \/ w = Outcome(FALSE, d.sp)
        \/ dst # NONE /\ w = Outcome(TRUE, Borrowed(d.sp, tz, std, dst))
    BY <1>4 DEF WithDst
  <2>2. w # Outcome(FALSE, d.sp)
    BY <1>5 DEF Outcome
  <2> QED BY <2>1, <2>2 DEF Outcome
<1>7. std \in Int /\ dst \in Int
  <2>1. IsOffset(tz.off) /\ IsOffset(tz.dstoff)
    BY DEF IsText
  <2>2. std \in Int
    BY <1>5, <2>1, AtMostAWeekOff
  <2> QED BY <1>6, <2>1, <2>2, AtMostAWeekOff, WeekIs
<1> DEFINE q == Repeats(y)
<1>8. DOMAIN q = Fields /\ q.ats = y.ats /\ q.types = y.types /\ q.ttis = y.ttis
  BY <1>3 DEF Repeats, Whole, Half, Fields
<1> HIDE DEF q, std, dst, w, d, y
<1>9. w.sp = Borrowed(q, tz, std, dst) /\ Whole(y)
  BY <1>3, <1>4, <1>6 DEF q
<1> DEFINE b == Borrowed(q, tz, std, dst)
<1>10. /\ DOMAIN b = Fields
       /\ b.ats = [i \in 1 .. Len(y.ats) |-> Moved(q, i, std)]
       /\ b.types = [i \in 1 .. Len(y.ats) |-> 1 + y.ttis[y.types[i]].isdst]
       /\ b.ttis = <<TypeInfo(-std, 0, tz.std, 0, 0), TypeInfo(-dst, 1, tz.dst, 0, 0)>>
  BY <1>8 DEF Borrowed, Fields
<1>11. \A i : Moved(q, i, std) = Moved(y, i, std)
  BY <1>8 DEF Moved, StandardBefore
<1> HIDE DEF b
<1>12. z.ats = b.ats /\ z.types = b.types /\ z.ttis = b.ttis
  <2>1. \E c : z = [b EXCEPT !.charcnt = c]
    BY <1>5, <1>9 DEF Named, b
  <2> QED BY <1>10, <2>1 DEF Fields
<1>13. Tables(y) /\ Len(y.ats) \in Nat
  BY <1>9, LenProperties DEF Whole, Tables
<1> DEFINE n == Len(y.ats)
<1>14. Len(z.ats) = n
  <2>1. z.ats = [i \in 1 .. n |-> z.ats[i]]
    BY <1>10, <1>12
  <2> HIDE DEF n
  <2> QED BY <1>13, <2>1, SequenceOf DEF n
<1>15. \A i \in 1 .. n : z.ats[i] = Moved(y, i, std) /\ z.types[i] = 1 + y.ttis[y.types[i]].isdst
  BY <1>10, <1>11, <1>12
<1>16. /\ Len(z.ttis) = 2
       /\ z.ttis[1].gmtoff = -std /\ z.ttis[1].isdst = 0 /\ z.ttis[2].gmtoff = -dst /\ z.ttis[2].isdst = 1
  BY <1>10, <1>12 DEF TypeInfo
<1>17. MadeFrom(z, y, std, dst)
  BY <1>14, <1>15, <1>16 DEF MadeFrom
<1> QED BY <1>7, <1>13, <1>17 DEF y

(***************************************************************************)
(* The clocks are changed when they show what they show where the default  *)
(* rules come from, in standard time and if both zones save the same       *)
(* (libtz.c:1063-1101).                                                    *)
(***************************************************************************)
THEOREM WallTimesAreKept == SoundSources => (Spec => []WallTimeKept)
<1> SUFFICES ASSUME SoundSources PROVE Spec => []WallTimeKept
  OBVIOUS
<1>1. Init => AllocInv /\ MadeInv
  BY AllocInitially, MadeInitially
<1>2. AllocInv /\ MadeInv /\ [Next]_vars => (AllocInv /\ MadeInv)'
  BY AllocStays, MadeStays
<1>3. MadeInv => WallTimeKept
  <2> SUFFICES ASSUME MadeInv, source.of = "string", name.tz.dst # NONE, name.tz.rules = <<>>,
                      ReadTables(source.default, Memory).ok
               PROVE  LET y == FromBlock(TableOf(source.default))
                      IN  \A i \in 1 .. Len(sp.ats) :
                            y.ttis[y.types[i]].ttisgmt = 0 /\ StandardKnown(y, i) =>
                              (~IsDstType(y, i - 1) \/ Saving(sp, i - 1) = Saving(y, i - 1)
                                 => Wall(sp, i) = Wall(y, i))
    BY DEF WallTimeKept
  <2> DEFINE y == FromBlock(TableOf(source.default))
  <2>1. IsFile(source.default) /\ StringMade(sp, name.tz, source.default) /\ IsText(name.tz)
    BY DEF MadeInv, SoundSources
  <2>2. Tables(y) /\ \E std, dst \in Int : MadeFrom(sp, y, std, dst)
    BY <2>1, StringBorrows
  <2> HIDE DEF y
  <2>3. PICK std \in Int, dst \in Int : MadeFrom(sp, y, std, dst)
    BY <2>2
  <2>4. Len(sp.ats) = Len(y.ats)
    BY <2>3 DEF MadeFrom
  <2>5. \A i \in 1 .. Len(y.ats) :
          y.ttis[y.types[i]].ttisgmt = 0 /\ StandardKnown(y, i) =>
            (~IsDstType(y, i - 1) \/ Saving(sp, i - 1) = Saving(y, i - 1)
               => Wall(sp, i) = Wall(y, i))
    BY <2>2, <2>3, WallTimes
  <2> QED BY <2>4, <2>5 DEF y
<1> QED BY <1>1, <1>2, <1>3, PTL DEF Spec

-----------------------------------------------------------------------------
(***************************************************************************)
(* What a string spells, tzparse reads as the rules of POSIX have it: its  *)
(* times ...                                                               *)
(***************************************************************************)
LEMMA NumberRead ==
  ASSUME NEW hms, IsClock(hms), getsecs(hms) # NONE
  PROVE  Number(hms) = getsecs(hms)
<1> DEFINE ranges == <<0 .. HOURSPERDAY * DAYSPERWEEK - 1, 0 .. MINSPERHOUR - 1, 0 .. SECSPERMIN>>
           units  == <<SECSPERHOUR, SECSPERMIN, 1>>
           Part(i) == IF i <= Len(hms) THEN hms[i] * units[i] ELSE 0
           n == Len(hms)
<1>1. hms # <<>> /\ getsecs(hms) = Part(1) + Part(2) + Part(3)
  BY DEF getsecs, Within
<1>2. hms \in Seq(Int)
  BY DEF IsClock
<1>3. n \in Nat /\ n >= 1
  <2>1. n \in Nat /\ n # 0
    BY <1>1, <1>2, EmptySeq, LenProperties
  <2> HIDE DEF n
  <2> QED BY <2>1
<1>4. \A i \in 1 .. n : hms[i] \in Int
  BY <1>2, ElementOfSeq
<1>5. units[1] = SECSPERHOUR /\ units[2] = SECSPERMIN /\ units[3] = 1
  OBVIOUS
<1> HIDE DEF units
<1>6. Part(1) = hms[1] * SECSPERHOUR
  BY <1>3, <1>5
<1>7. Part(2) = IF n > 1 THEN hms[2] * SECSPERMIN ELSE 0
  <2>1. (2 <= n) = (n > 1)
    <3> HIDE DEF n
    <3> QED BY <1>3
  <2> QED BY <1>5, <2>1
<1>8. Part(3) = IF n > 2 THEN hms[3] ELSE 0
  <2>1. (3 <= n) = (n > 2)
    <3> HIDE DEF n
    <3> QED BY <1>3
  <2>2. n > 2 => hms[3] * 1 = hms[3]
    <3>1. n > 2 => hms[3] \in Int
      <4> HIDE DEF n
      <4> QED BY <1>3, <1>4
    <3> QED BY <3>1
  <2> QED BY <1>5, <2>1, <2>2
<1> QED BY <1>1, <1>6, <1>7, <1>8 DEF Number

(***************************************************************************)
(* ... its offsets ...                                                     *)
(***************************************************************************)
LEMMA WestRead ==
  ASSUME NEW offset, IsOffset(offset), getoffset(offset) # NONE
  PROVE  West(offset) = getoffset(offset)
<1>1. offset # NONE /\ getsecs(offset.hms) # NONE
  BY DEF getoffset
<1>2. Number(offset.hms) = getsecs(offset.hms)
  BY <1>1, NumberRead DEF IsOffset
<1> QED BY <1>1, <1>2 DEF West, getoffset

(***************************************************************************)
(* ... and the times of its rules.                                         *)
(***************************************************************************)
LEMMA TimeRead ==
  ASSUME NEW rule, IsRule(rule), getrule(rule) # NONE
  PROVE  TimeOfDay(rule) = getrule(rule).time
<1> DEFINE time == IF rule.time = NONE THEN 2 * SECSPERHOUR ELSE getsecs(rule.time)
<1>1. time # NONE /\ getrule(rule) = [rule EXCEPT !.time = time]
  BY DEF getrule
<1>2. "time" \in DOMAIN rule
  BY DEF IsRule, Rule
<1>3. getrule(rule).time = time
  <2> HIDE DEF time
  <2> QED BY <1>1, <1>2
<1>4. CASE rule.time = NONE
  BY <1>3, <1>4 DEF TimeOfDay
<1>5. CASE rule.time # NONE
  <2>1. IsClock(rule.time) /\ getsecs(rule.time) # NONE
    BY <1>1, <1>5 DEF IsRule
  <2>2. Number(rule.time) = getsecs(rule.time)
    BY <2>1, NumberRead
  <2> QED BY <1>3, <1>5, <2>2 DEF TimeOfDay
<1> QED BY <1>4, <1>5

-----------------------------------------------------------------------------
(***************************************************************************)
(* The number of a day, by the formula and by the tables of the program.   *)
(***************************************************************************)
LEMMA DayNumberIs ==
  ASSUME NEW y \in Int, NEW m \in 1 .. 12, NEW d \in Int
  PROVE  DayNumber(y, m, d) = YearStart(y) + MonthTable(y, m - 1) + d - 1 /\ DayNumber(y, m, d) \in Int
<1> DEFINE b == [year |-> y - TM_YEAR_BASE, mon |-> m - 1, mday |-> d]
<1>1. b.year = y - TM_YEAR_BASE /\ b.mon = m - 1 /\ b.mday = d
  OBVIOUS
<1>2. TM_YEAR_BASE + b.year + b.mon \div 12 = y /\ b.mon % 12 = m - 1
  BY DEF TM_YEAR_BASE
<1> HIDE DEF b
<1>3. Days(b) = DaysTo(y, m - 1, b.mday) /\ Days(b) \in Int
  <2> DEFINE k == m - 1
  <2>1. k \in 0 .. 11 /\ b.mday \in Int /\ b.mon = k
    BY <1>1
  <2> HIDE DEF k
  <2>2. Days(b) = DaysTo(y, k, b.mday) /\ Days(b) \in Int
    BY <1>1, <2>1, DaysOfDate
  <2> QED BY <2>2 DEF k
<1>4. MonthStart[<<y, m - 1>>] = MonthTable(y, m - 1)
  <2>1. m - 1 \in 0 .. 12
    OBVIOUS
  <2> QED BY <2>1, MonthStartTable
<1>5. DayNumber(y, m, d) = Days(b)
  <2> DEFINE p == (m + 9) % 12
             z == IF p >= 10 THEN y - 1 + m \div 13 ELSE y
             q == (m - 1 + 10) % 12
             w == IF m - 1 <= 1 THEN y - 1 ELSE y
  <2>1. p = q /\ w = z
    BY SMT
  <2>2. DayNumber(y, m, d) = 365 * z + z \div 4 - z \div 100 + z \div 400 + (153 * p + 2) \div 5 + d - 719469
    BY SMT DEF DayNumber
  <2>3. Days(b) = 365 * w + w \div 4 - w \div 100 + w \div 400 + (153 * q + 2) \div 5 + d - 719469
    <3> DEFINE k == m - 1
    <3>1. TM_YEAR_BASE + b.year + b.mon \div 12 = y /\ b.mon % 12 = k /\ b.mday = d
      BY <1>1, <1>2
    <3> HIDE DEF k
    <3>2. Days(b) = LET v == IF k <= 1 THEN y - 1 ELSE y
                    IN  365 * v + v \div 4 - v \div 100 + v \div 400 + (153 * ((k + 10) % 12) + 2) \div 5 + d - 719469
      BY <3>1, SMT DEF Days
    <3> QED BY <3>2, SMT DEF k
  <2> HIDE DEF p, z, q, w
  <2> QED BY <2>1, <2>2, <2>3, SMT
<1> QED BY <1>1, <1>3, <1>4, <1>5 DEF DaysTo

(***************************************************************************)
(* The thirteenth month is the first of the year after.                    *)
(***************************************************************************)
LEMMA NextMonth ==
  ASSUME NEW y \in Int, NEW m \in 1 .. 12
  PROVE  DayNumber(y, m + 1, 1) = DayNumber(y, m, 1) + mon_lengths(y)[m]
<1>1. DayNumber(y, m, 1) = YearStart(y) + MonthTable(y, m - 1)
  <2>1. YearStart(y) \in Int /\ MonthTable(y, m - 1) \in Int
    BY YearStarts DEF MonthTable
  <2>2. 1 \in Int
    OBVIOUS
  <2>3. DayNumber(y, m, 1) = YearStart(y) + MonthTable(y, m - 1) + 1 - 1
    BY <2>2, DayNumberIs
  <2> QED BY <2>1, <2>3
<1>2. MonthTable(y, m) = MonthTable(y, m - 1) + mon_lengths(y)[m] /\ MonthTable(y, m - 1) \in Int
      /\ mon_lengths(y)[m] \in Int
  BY DEF MonthTable, mon_lengths
<1>3. YearStart(y) \in Int
  BY YearStarts
<1>4. CASE m < 12
  <2> DEFINE k == m + 1
  <2>1. k \in 1 .. 12 /\ k - 1 = m /\ 1 \in Int
    BY <1>4
  <2> HIDE DEF k
  <2>2. DayNumber(y, k, 1) = YearStart(y) + MonthTable(y, k - 1) + 1 - 1
    BY <2>1, DayNumberIs
  <2> QED BY <1>1, <1>2, <1>3, <2>1, <2>2 DEF k
<1>5. CASE m = 12
  <2>1. DayNumber(y, 13, 1) = DayNumber(y + 1, 1, 1)
    BY SMT DEF DayNumber
  <2>2. DayNumber(y + 1, 1, 1) = YearStart(y + 1) + MonthTable(y + 1, 0) + 1 - 1
    <3> DEFINE w == y + 1
    <3>1. w \in Int /\ 1 \in 1 .. 12 /\ 1 - 1 = 0
      OBVIOUS
    <3> HIDE DEF w
    <3>2. DayNumber(w, 1, 1) = YearStart(w) + MonthTable(w, 1 - 1) + 1 - 1
      BY <3>1, DayNumberIs
    <3> QED BY <3>1, <3>2 DEF w
  <2>3. MonthTable(y + 1, 0) = 0 /\ MonthTable(y, 12) = year_lengths(y)
    BY DEF MonthTable, year_lengths, DAYSPERLYEAR, DAYSPERNYEAR
  <2>4. YearStart(y + 1) = YearStart(y) + year_lengths(y) /\ year_lengths(y) \in Int
    BY YearStarts
  <2>5. m + 1 = 13 /\ MonthTable(y, m) = year_lengths(y)
    BY <1>5, <2>3
  <2> QED BY <1>1, <1>2, <1>3, <2>1, <2>2, <2>3, <2>4, <2>5
<1> QED BY <1>4, <1>5

(***************************************************************************)
(* Zeller's congruence (tzparse's transtime) is right in the years AD.     *)
(***************************************************************************)
LEMMA ZellerRight ==
  ASSUME NEW y \in Nat \ {0}, NEW m \in 1 .. 12
  PROVE  FirstDayOfWeek(y, m) = DayOfTheWeek(DayNumber(y, m, 1)) /\ FirstDayOfWeek(y, m) \in 0 .. 6
<1> DEFINE p == (m + 9) % 12
           Y == IF m <= 2 THEN y - 1 ELSE y
           c == Y \div 100
           k == Y % 100
           e == k + k \div 4 + c \div 4 - 2 * c
           G == (153 * p + 2) \div 5 - 719464
           H == (26 * p + 24) \div 10 + 1
<1>1. Y \in Nat /\ p \in 0 .. 11 /\ Y = IF p >= 10 THEN y - 1 + m \div 13 ELSE y
  BY SMT
<1>2. DayNumber(y, m, 1) = 365 * Y + Y \div 4 - Y \div 100 + Y \div 400 + (153 * p + 2) \div 5 + 1 - 719469
  <2>1. DayNumber(y, m, 1) = LET v == IF p >= 10 THEN y - 1 + m \div 13 ELSE y
                             IN  365 * v + v \div 4 - v \div 100 + v \div 400 + (153 * p + 2) \div 5 + 1 - 719469
    BY SMT DEF DayNumber
  <2> HIDE DEF p, Y
  <2> QED BY <1>1, <2>1, SMT
<1>3. FirstDayOfWeek(y, m)
        = ((26 * (p + 1) - 2) \div 10 + 1 + CMod(Y, 100) + CDiv(CMod(Y, 100), 4) + CDiv(CDiv(Y, 100), 4)
             - 2 * CDiv(Y, 100)) % 7
  BY SMT DEF FirstDayOfWeek, DAYSPERWEEK
<1> HIDE DEF p, Y
<1>4. c \in Nat /\ k \in 0 .. 99 /\ Y = 100 * c + k
  BY <1>1, SMT
<1>5. CDiv(Y, 100) = c /\ CMod(Y, 100) = k
  BY <1>1, SMT DEF CDiv, CMod
<1>6. Y \div 4 = 25 * c + k \div 4 /\ Y \div 400 = c \div 4
  <2> HIDE DEF c, k
  <2> QED BY <1>4, SMT
<1>7. Y \div 100 = c
  OBVIOUS
<1> HIDE DEF c, k
<1>8. CDiv(k, 4) = k \div 4 /\ CDiv(c, 4) = c \div 4
  BY <1>4, SMT DEF CDiv
<1>9. e \in Int /\ DayNumber(y, m, 1) + 4 = e + G + 7 * (5218 * c + 52 * k)
  BY <1>1, <1>2, <1>4, <1>6, <1>7, SMT
<1>10. FirstDayOfWeek(y, m) = (e + H) % 7
  <2>1. (26 * (p + 1) - 2) \div 10 = (26 * p + 24) \div 10
    BY <1>1, SMT
  <2>2. (26 * p + 24) \div 10 \in Int
    BY <1>1, SMT
  <2> DEFINE h == (26 * p + 24) \div 10
  <2> HIDE DEF h
  <2>3. FirstDayOfWeek(y, m) = (h + 1 + k + k \div 4 + c \div 4 - 2 * c) % 7
    BY <1>3, <1>5, <1>8, <2>1, SMT DEF h
  <2>4. h + 1 + k + k \div 4 + c \div 4 - 2 * c = e + H
    BY <1>4, <2>2, SMT DEF h
  <2> HIDE DEF e, H
  <2> QED BY <2>3, <2>4
<1>11. G \in Int /\ H \in Int /\ \E t \in Int : G = H + 7 * t
  BY <1>1, SMT
<1>12. PICK t \in Int : G = H + 7 * t
  BY <1>11
<1> HIDE DEF e, G, H
<1>13. DayOfTheWeek(DayNumber(y, m, 1)) = (e + H + 7 * (t + 5218 * c + 52 * k)) % 7
  BY <1>4, <1>9, <1>11, <1>12, SMT DEF DayOfTheWeek, DAYSPERWEEK, EPOCH_WDAY
<1>14. (e + H + 7 * (t + 5218 * c + 52 * k)) % 7 = (e + H) % 7
  BY <1>4, <1>9, <1>11, SMT
<1>15. (e + H) % 7 \in 0 .. 6
  BY <1>9, <1>11, SMT
<1> QED BY <1>10, <1>13, <1>14, <1>15

-----------------------------------------------------------------------------
(***************************************************************************)
(* n days, each a week after the one before, are n days.                   *)
(***************************************************************************)
LEMMA EverySeventh ==
  ASSUME NEW g \in Int, NEW n \in Nat, NEW S,
         \A d \in S : \E i \in 1 .. n : d = g + 7 * (i - 1),
         \A i \in 1 .. n : g + 7 * (i - 1) \in S
  PROVE  Cardinality(S) = n
<1> DEFINE f == [i \in 1 .. n |-> g + 7 * (i - 1)]
<1>1. f \in [1 .. n -> S]
  OBVIOUS
<1>2. \A i, j \in 1 .. n : i # j => f[i] # f[j]
  OBVIOUS
<1>3. \A d \in S : \E i \in 1 .. n : f[i] = d
  OBVIOUS
<1>4. f \in Bijection(1 .. n, S)
  <2>1. IsInjective(f)
    <3>1. DOMAIN f = 1 .. n
      OBVIOUS
    <3> HIDE DEF f
    <3> QED BY <1>2, <3>1 DEF IsInjective
  <2> HIDE DEF f
  <2>2. f \in Surjection(1 .. n, S)
    BY <1>1, <1>3 DEF Surjection
  <2>3. f \in Injection(1 .. n, S)
    BY <1>1, <1>2 DEF Injection, IsInjective
  <2> QED BY <2>2, <2>3 DEF Bijection
<1>5. ExistsBijection(1 .. n, S)
  <2> HIDE DEF f
  <2> QED BY <1>4 DEF ExistsBijection
<1> QED BY <1>5, FS_CountingElements

(***************************************************************************)
(* The week-th such day of a month, or the last one, is where tzparse      *)
(* finds it.                                                               *)
(***************************************************************************)
LEMMA NthCalled ==
  ASSUME NEW y \in Nat \ {0}, NEW m \in 1 .. 12, NEW week \in 1 .. 5, NEW wday \in 0 .. 6
  PROVE  LET days == DaysCalled(y, m, wday)
         IN  (CHOOSE d \in days : Cardinality({e \in days : e <= d}) = Min({week, Cardinality(days)}))
               = DayNumber(y, m, 1) + NthDayOfWeek(y, m, week, wday)
<1> DEFINE days  == DaysCalled(y, m, wday)
           F     == DayNumber(y, m, 1)
           f     == FirstDayOfWeek(y, m)
           len   == mon_lengths(y)[m]
           first == (wday - f) % DAYSPERWEEK
           more  == (len - 1 - first) \div DAYSPERWEEK
           G     == F + first
           least == Min({week - 1, more})
<1>1. F \in Int /\ len \in 28 .. 31 /\ DayNumber(y, m + 1, 1) = F + len
  <2>1. y \in Int /\ 1 \in Int
    OBVIOUS
  <2>2. F \in Int /\ DayNumber(y, m + 1, 1) = F + len
    BY <2>1, DayNumberIs, NextMonth
  <2> QED BY <2>2 DEF mon_lengths
<1>2. f \in 0 .. 6 /\ f = (F + 4) % 7
  BY ZellerRight DEF DayOfTheWeek, DAYSPERWEEK, EPOCH_WDAY
<1>3. days = {d \in F .. F + len - 1 : (d + 4) % 7 = wday}
  BY <1>1 DEF DaysCalled, DayOfTheWeek, DAYSPERWEEK, EPOCH_WDAY
<1>4. NthDayOfWeek(y, m, week, wday) = first + 7 * least
  BY DEF NthDayOfWeek, DAYSPERWEEK
<1> HIDE DEF F, f, len, days
<1>5. first \in 0 .. 6 /\ (F + first + 4) % 7 = wday
  BY <1>1, <1>2, SMT DEF DAYSPERWEEK
<1> HIDE DEF first
<1>6. more \in Nat /\ 7 * more <= len - 1 - first /\ len - 1 - first < 7 * more + 7
  BY <1>1, <1>5, SMT DEF DAYSPERWEEK
<1> HIDE DEF more
<1>7. G \in Int /\ \A i \in 0 .. more : G + 7 * i \in days
  <2>1. ASSUME NEW i \in 0 .. more PROVE G + 7 * i \in F .. F + len - 1 /\ (G + 7 * i + 4) % 7 = wday
    BY <1>1, <1>5, <1>6, SMT
  <2> QED BY <1>1, <1>3, <1>5, <2>1
<1>8. ASSUME NEW d \in days PROVE d \in Int /\ \E i \in 0 .. more : d = G + 7 * i
  <2>1. d \in F .. F + len - 1 /\ (d + 4) % 7 = wday
    BY <1>3
  <2> DEFINE i == (d - G) \div 7
  <2>2. d \in Int /\ i \in Int /\ d = G + 7 * i
    BY <1>1, <1>5, <2>1, SMT
  <2> HIDE DEF i
  <2>3. i \in 0 .. more
    BY <1>1, <1>5, <1>6, <2>1, <2>2, SMT
  <2> QED BY <2>2, <2>3
<1> HIDE DEF G
<1>9. Cardinality(days) = more + 1
  <2> DEFINE n == more + 1
  <2>1. n \in Nat
    BY <1>6
  <2>2. \A d \in days : \E i \in 1 .. n : d = G + 7 * (i - 1)
    <3> SUFFICES ASSUME NEW d \in days PROVE \E i \in 1 .. n : d = G + 7 * (i - 1)
      OBVIOUS
    <3>1. PICK i \in 0 .. more : d = G + 7 * i
      BY <1>8
    <3>2. i + 1 \in 1 .. n /\ i + 1 - 1 = i
      BY <1>6
    <3> QED BY <3>1, <3>2
  <2>3. \A i \in 1 .. n : G + 7 * (i - 1) \in days
    <3> SUFFICES ASSUME NEW i \in 1 .. n PROVE G + 7 * (i - 1) \in days
      OBVIOUS
    <3>1. i - 1 \in 0 .. more
      BY <1>6
    <3> QED BY <1>7, <3>1
  <2> HIDE DEF n
  <2>4. Cardinality(days) = n
    BY <1>7, <2>1, <2>2, <2>3, EverySeventh
  <2> QED BY <2>4 DEF n
<1>10. ASSUME NEW k \in 0 .. more
       PROVE  Cardinality({e \in days : e <= G + 7 * k}) = k + 1
  <2> DEFINE n == k + 1
             S == {e \in days : e <= G + 7 * k}
  <2>1. n \in Nat
    OBVIOUS
  <2>2. \A d \in S : \E i \in 1 .. n : d = G + 7 * (i - 1)
    <3> SUFFICES ASSUME NEW d \in S PROVE \E i \in 1 .. n : d = G + 7 * (i - 1)
      OBVIOUS
    <3>1. d \in days /\ d <= G + 7 * k
      OBVIOUS
    <3>2. PICK i \in 0 .. more : d = G + 7 * i
      BY <1>8, <3>1
    <3>3. i <= k
      BY <1>7, <3>1, <3>2
    <3> DEFINE j == i + 1
    <3>4. j \in 1 .. n /\ j - 1 = i
      BY <3>3
    <3> HIDE DEF j, n, S
    <3> QED BY <3>2, <3>4
  <2>3. \A i \in 1 .. n : G + 7 * (i - 1) \in S
    <3> SUFFICES ASSUME NEW i \in 1 .. n PROVE G + 7 * (i - 1) \in S
      OBVIOUS
    <3>1. i - 1 \in 0 .. more /\ i - 1 <= k
      BY <1>6
    <3>2. G + 7 * (i - 1) \in days /\ G + 7 * (i - 1) <= G + 7 * k
      BY <1>7, <3>1
    <3> QED BY <3>2
  <2> HIDE DEF n, S
  <2>4. Cardinality(S) = n
    BY <1>7, <2>1, <2>2, <2>3, EverySeventh
  <2> QED BY <2>4 DEF n, S
<1>11. least \in 0 .. more /\ Min({week, more + 1}) = least + 1
  <2> DEFINE A == {week - 1, more}
             B == {week, more + 1}
  <2>1. A \in SUBSET Nat /\ A # {} /\ B \in SUBSET Nat /\ B # {}
    BY <1>6
  <2>2. Min(A) \in A /\ \A a \in A : Min(A) <= a
    BY <2>1, LeastOne
  <2>3. Min(B) \in B /\ \A b \in B : Min(B) <= b
    BY <2>1, LeastOne
  <2> DEFINE p == Min(A)
             q == Min(B)
  <2>4. (p = week - 1 \/ p = more) /\ p <= week - 1 /\ p <= more /\ (q = week \/ q = more + 1)
        /\ q <= week /\ q <= more + 1
    BY <2>2, <2>3
  <2> HIDE DEF p, q
  <2>5. p \in 0 .. more /\ q = p + 1
    BY <1>6, <2>4
  <2> QED BY <2>5 DEF p, q
<1> HIDE DEF least
<1>12. ASSUME NEW d \in days
       PROVE  Cardinality({e \in days : e <= d}) = least + 1 <=> d = G + 7 * least
  <2>1. PICK k \in 0 .. more : d = G + 7 * k
    BY <1>8
  <2>2. Cardinality({e \in days : e <= d}) = k + 1
    BY <1>10, <2>1
  <2>3. (k + 1 = least + 1) <=> k = least
    BY <1>6, <1>11
  <2>4. (d = G + 7 * least) <=> k = least
    BY <1>6, <1>7, <1>11, <2>1
  <2> QED BY <2>2, <2>3, <2>4
<1>13. G + 7 * least \in days
  BY <1>7, <1>11
<1> DEFINE chosen == CHOOSE d \in days : Cardinality({e \in days : e <= d}) = Min({week, Cardinality(days)})
<1>14. chosen = G + 7 * least
  <2>1. Min({week, Cardinality(days)}) = least + 1
    BY <1>9, <1>11
  <2> DEFINE N == Min({week, Cardinality(days)})
             w == G + 7 * least
             P(d) == Cardinality({e \in days : e <= d}) = N
  <2>2. w \in days /\ \A d \in days : P(d) <=> d = w
    BY <1>12, <1>13, <2>1
  <2>3. chosen = CHOOSE d \in days : P(d)
    OBVIOUS
  <2> HIDE DEF chosen, P, w, N
  <2> QED BY <2>2, <2>3 DEF w
<1>15. G + 7 * least = F + (first + 7 * least)
  <2>1. least \in Int
    BY <1>11
  <2> QED BY <1>1, <1>5, <2>1 DEF G
<1> QED BY <1>4, <1>14, <1>15 DEF chosen, days, F

(***************************************************************************)
(* A day without the 29th of February lies in the month that the days of   *)
(* 1970, which had none, say.                                              *)
(***************************************************************************)
LEMMA CommonDay ==
  ASSUME NEW y \in Int, NEW n \in 1 .. 365
  PROVE  DayNumber(y, InCommonYear(n)[1], InCommonYear(n)[2])
           = YearStart(y) + n - 1 + IF isleap(y) /\ n >= 60 THEN 1 ELSE 0
<1> DEFINE T(m) == <<0, 31, 59, 90, 120, 151, 181, 212, 243, 273, 304, 334, 365>>[m]
<1>1. ASSUME NEW m \in 1 .. 12 PROVE DayNumber(1970, m, 1) = T(m)
  <2>1. 1970 \in Int /\ 1 \in Int
    OBVIOUS
  <2>2. DayNumber(1970, m, 1) = YearStart(1970) + MonthTable(1970, m - 1) + 1 - 1
    <3> DEFINE w == 1970
               d == 1
    <3>1. w \in Int /\ d \in Int
      OBVIOUS
    <3> HIDE DEF w, d
    <3>2. DayNumber(w, m, d) = YearStart(w) + MonthTable(w, m - 1) + d - 1
      BY <3>1, DayNumberIs
    <3> QED BY <3>2 DEF w, d
  <2>3. YearStart(1970) = 0
    <3>1. leaps_thru_end_of(1969) \in Int
      BY LeapsStep
    <3>2. 1970 - 1 = 1969
      OBVIOUS
    <3> QED BY <3>1, <3>2 DEF YearStart
  <2>4. MonthTable(1970, m - 1) = T(m)
    <3>1. ~isleap(1970)
      BY SMT DEF isleap
    <3>2. m - 1 + 1 = m /\ T(m) \in Int
      BY SMT
    <3> HIDE DEF T
    <3>3. MonthTable(1970, m - 1) = T(m) + 0
      BY <3>1, <3>2 DEF MonthTable, T
    <3> QED BY <3>2, <3>3
  <2>5. T(m) \in Int
    BY SMT
  <2> HIDE DEF T
  <2> QED BY <2>2, <2>3, <2>4, <2>5
<1>2. PICK m \in 1 .. 12 : T(m) < n /\ n <= T(m + 1)
  BY SMT
<1> DEFINE S == {k \in 1 .. 12 : DayNumber(1970, k, 1) < n}
<1>3. \A k \in 1 .. 12 : T(k) < n => k <= m
  BY <1>2, SMT
<1>4. Max(S) = m
  <2>1. S \in SUBSET Int /\ m \in S /\ \A k \in S : k <= m
    <3> HIDE DEF T
    <3> QED BY <1>1, <1>2, <1>3
  <2> HIDE DEF S
  <2> QED BY <2>1, GreatestIs
<1>5. InCommonYear(n) = <<m, n - T(m)>>
  <2> HIDE DEF T
  <2>1. InCommonYear(n) = <<Max(S), n - DayNumber(1970, Max(S), 1)>>
    BY DEF InCommonYear
  <2> HIDE DEF S
  <2> QED BY <1>1, <1>4, <2>1
<1>6. T(m) \in Int /\ n - T(m) \in Int
  BY SMT
<1>7. DayNumber(y, m, n - T(m)) = YearStart(y) + MonthTable(y, m - 1) + (n - T(m)) - 1
  <2> DEFINE d == n - T(m)
  <2>1. d \in Int
    BY <1>6
  <2> HIDE DEF d
  <2>2. DayNumber(y, m, d) = YearStart(y) + MonthTable(y, m - 1) + d - 1
    BY <2>1, DayNumberIs
  <2> QED BY <2>2 DEF d
<1>8. MonthTable(y, m - 1) = T(m) + IF isleap(y) /\ n >= 60 THEN 1 ELSE 0
  <2>1. m - 1 + 1 = m /\ (m - 1 >= 2 <=> n >= 60)
    BY <1>2, SMT
  <2>2. MonthTable(y, m - 1) = T(m - 1 + 1) + (IF m - 1 >= 2 /\ isleap(y) THEN 1 ELSE 0)
    BY DEF MonthTable
  <2> HIDE DEF T
  <2> QED BY <2>1, <2>2
<1>9. YearStart(y) \in Int
  BY YearStarts
<1> HIDE DEF T
<1>10. InCommonYear(n)[1] = m /\ InCommonYear(n)[2] = n - T(m)
  BY <1>5
<1> QED BY <1>6, <1>7, <1>8, <1>9, <1>10

(***************************************************************************)
(* A rule names the day that tzparse finds.                                *)
(***************************************************************************)
LEMMA DayNamedIs ==
  ASSUME NEW y \in Nat \ {0}, NEW rule, Numbered(rule)
  PROVE  DayNamed(rule, y) = RuleDay(y, rule)
<1>1. y \in Int /\ YearStart(y) \in Int
  BY YearStarts
<1>2. CASE rule.form = JULIAN_DAY
  <2> DEFINE n == rule.nums[1]
  <2>1. n \in 1 .. 365
    BY <1>2 DEF Numbered, JULIAN_DAY, DAY_OF_YEAR, MONTH_NTH_DAY_OF_WEEK
  <2>2. DayNamed(rule, y) = DayNumber(y, InCommonYear(n)[1], InCommonYear(n)[2])
    BY <1>2 DEF DayNamed, JULIAN_DAY, DAY_OF_YEAR, MONTH_NTH_DAY_OF_WEEK
  <2>3. DayOfRule(y, rule) = n - 1 + IF isleap(y) /\ n >= 60 THEN 1 ELSE 0
    BY <1>2 DEF DayOfRule, JULIAN_DAY, DAY_OF_YEAR, MONTH_NTH_DAY_OF_WEEK
  <2> HIDE DEF n
  <2>4. DayNamed(rule, y) = YearStart(y) + n - 1 + IF isleap(y) /\ n >= 60 THEN 1 ELSE 0
    BY <1>1, <2>1, <2>2, CommonDay
  <2> QED BY <1>1, <2>1, <2>3, <2>4 DEF RuleDay
<1>3. CASE rule.form = DAY_OF_YEAR
  <2> DEFINE n == rule.nums[1]
  <2>1. n \in Int
    BY <1>3 DEF Numbered, JULIAN_DAY, DAY_OF_YEAR, MONTH_NTH_DAY_OF_WEEK
  <2>2. DayNamed(rule, y) = DayNumber(y, 1, 1) + n
    BY <1>3 DEF DayNamed, JULIAN_DAY, DAY_OF_YEAR, MONTH_NTH_DAY_OF_WEEK
  <2>3. DayOfRule(y, rule) = n
    BY <1>3 DEF DayOfRule, JULIAN_DAY, DAY_OF_YEAR, MONTH_NTH_DAY_OF_WEEK
  <2> HIDE DEF n
  <2>4. DayNumber(y, 1, 1) = YearStart(y)
    <3>1. 1 \in Int /\ 1 \in 1 .. 12
      OBVIOUS
    <3>2. DayNumber(y, 1, 1) = YearStart(y) + MonthTable(y, 1 - 1) + 1 - 1
      BY <1>1, <3>1, DayNumberIs
    <3>3. MonthTable(y, 1 - 1) = 0
      BY DEF MonthTable
    <3> QED BY <1>1, <3>2, <3>3
  <2> QED BY <2>2, <2>3, <2>4 DEF RuleDay
<1>4. CASE rule.form = MONTH_NTH_DAY_OF_WEEK
  <2> DEFINE m    == rule.nums[1]
             week == rule.nums[2]
             wday == rule.nums[3]
             nth  == NthDayOfWeek(y, m, week, wday)
  <2>1. m \in 1 .. 12 /\ week \in 1 .. 5 /\ wday \in 0 .. 6
    BY <1>4 DEF Numbered, JULIAN_DAY, DAY_OF_YEAR, MONTH_NTH_DAY_OF_WEEK
  <2>2. DayNamed(rule, y) = LET days == DaysCalled(y, m, wday)
                            IN  CHOOSE d \in days :
                                  Cardinality({e \in days : e <= d}) = Min({week, Cardinality(days)})
    BY <1>4 DEF DayNamed, JULIAN_DAY, DAY_OF_YEAR, MONTH_NTH_DAY_OF_WEEK
  <2>3. DayOfRule(y, rule) = MonthStart[<<y, m - 1>>] + nth
    BY <1>4 DEF DayOfRule, JULIAN_DAY, DAY_OF_YEAR, MONTH_NTH_DAY_OF_WEEK
  <2> HIDE DEF m, week, wday
  <2>4. DayNamed(rule, y) = DayNumber(y, m, 1) + nth
    BY <2>1, <2>2, NthCalled
  <2>5. nth \in Int
    <3>1. nth \in 0 .. mon_lengths(y)[m] - 1
      BY <1>1, <2>1, NthInMonth
    <3> QED BY <3>1
  <2> HIDE DEF nth
  <2>6. DayNumber(y, m, 1) = YearStart(y) + MonthTable(y, m - 1) + 1 - 1 /\ MonthTable(y, m - 1) \in Int
    <3>1. 1 \in Int
      OBVIOUS
    <3>2. DayNumber(y, m, 1) = YearStart(y) + MonthTable(y, m - 1) + 1 - 1
      BY <1>1, <2>1, <3>1, DayNumberIs
    <3> QED BY <2>1, <3>2 DEF MonthTable
  <2>7. MonthStart[<<y, m - 1>>] = MonthTable(y, m - 1)
    <3>1. m - 1 \in 0 .. 12
      BY <2>1
    <3> QED BY <1>1, <3>1, MonthStartTable
  <2> QED BY <1>1, <2>3, <2>4, <2>5, <2>6, <2>7 DEF RuleDay
<1> QED BY <1>2, <1>3, <1>4 DEF Numbered

-----------------------------------------------------------------------------
(* What tzparse reads of a string with two rules, and accepts.             *)
OffsetOf(tz, k) ==
  IF k = 1 THEN getoffset(tz.off)
  ELSE IF tz.dstoff = NONE THEN getoffset(tz.off) - SECSPERHOUR ELSE getoffset(tz.dstoff)

Ruled(tz) ==
  /\ IsText(tz) /\ Len(tz.rules) = 2
  /\ getrule(tz.rules[1]) # NONE /\ getrule(tz.rules[2]) # NONE
  /\ OffsetOf(tz, 1) # NONE /\ OffsetOf(tz, 2) # NONE

(* The beginning of daylight saving time, or its end, in a year.           *)
Event(tz, k, y) ==
  SECSPERDAY * RuleDay(y, tz.rules[k]) + getrule(tz.rules[k]).time + OffsetOf(tz, k)

(***************************************************************************)
(* The parts of such a string.                                             *)
(***************************************************************************)
LEMMA RuledParts ==
  ASSUME NEW tz, Ruled(tz)
  PROVE  /\ \A k \in {1, 2} : IsRule(tz.rules[k]) /\ getrule(tz.rules[k]) # NONE /\ Numbered(tz.rules[k])
         /\ \A k \in {1, 2} : getrule(tz.rules[k]).time \in 0 .. WEEK
         /\ \A k \in {1, 2} : OffsetOf(tz, k) \in -(8 * SECSPERDAY) .. WEEK
         /\ \A k, l \in {1, 2} : OffsetOf(tz, k) - OffsetOf(tz, l) \in -(2 * WEEK) .. 2 * WEEK
         /\ RulesApart(tz.rules[1], tz.rules[2])
<1>1. \A k \in {1, 2} : IsRule(tz.rules[k]) /\ getrule(tz.rules[k]) # NONE
  <2>1. 1 \in 1 .. Len(tz.rules) /\ 2 \in 1 .. Len(tz.rules)
    BY DEF Ruled
  <2> QED BY <2>1 DEF Ruled, IsText
<1>2. \A k \in {1, 2} : Numbered(tz.rules[k]) /\ getrule(tz.rules[k]).time \in 0 .. WEEK
  BY <1>1, AcceptedRule
<1>3. RulesApart(tz.rules[1], tz.rules[2])
  <2>1. \A i \in 1 .. 2 : getrule(tz.rules[i]) # NONE
    <3>1. \A i \in 1 .. 2 : i \in {1, 2}
      OBVIOUS
    <3> QED BY <1>1, <3>1
  <2> QED BY <2>1 DEF Ruled, IsText
<1> DEFINE std == OffsetOf(tz, 1)
           dst == OffsetOf(tz, 2)
<1>4. SECSPERHOUR \in Nat /\ SECSPERHOUR <= SECSPERDAY /\ SECSPERDAY \in Nat /\ WEEK = 7 * SECSPERDAY
  <2>1. ASSUME NEW a \in Nat \ {0}, NEW h \in Nat \ {0} PROVE a <= a * h
    BY SMT
  <2> QED BY <2>1, WeekIs DEF SECSPERDAY
<1>5. std \in -WEEK .. WEEK
  BY AtMostAWeekOff DEF OffsetOf, Ruled, IsText
<1>6. dst \in -WEEK .. WEEK \/ dst = std - SECSPERHOUR
  <2>1. CASE tz.dstoff = NONE
    BY <2>1 DEF OffsetOf
  <2>2. CASE tz.dstoff # NONE
    <3>1. dst = getoffset(tz.dstoff)
      BY <2>2 DEF OffsetOf
    <3>2. IsOffset(tz.dstoff) /\ dst # NONE
      BY DEF Ruled, IsText
    <3> HIDE DEF dst
    <3> QED BY <3>1, <3>2, AtMostAWeekOff
  <2> QED BY <2>1, <2>2
<1>7. /\ std \in -(8 * SECSPERDAY) .. WEEK /\ dst \in -(8 * SECSPERDAY) .. WEEK
      /\ std - std \in -(2 * WEEK) .. 2 * WEEK /\ std - dst \in -(2 * WEEK) .. 2 * WEEK
      /\ dst - std \in -(2 * WEEK) .. 2 * WEEK /\ dst - dst \in -(2 * WEEK) .. 2 * WEEK
  <2> HIDE DEF std, dst
  <2> QED BY <1>4, <1>5, <1>6
<1> QED BY <1>1, <1>2, <1>3, <1>7

(***************************************************************************)
(* tzparse finds the events.                                               *)
(***************************************************************************)
LEMMA EventFound ==
  ASSUME NEW tz, Ruled(tz), NEW k \in {1, 2}, NEW y \in Int
  PROVE  /\ Event(tz, k, y) \in Int
         /\ transtime(FirstOfJanuary(y), y, getrule(tz.rules[k]), OffsetOf(tz, k)) = Event(tz, k, y)
<1> DEFINE rule == tz.rules[k]
           t    == getrule(tz.rules[k]).time
           o    == OffsetOf(tz, k)
<1>1. IsRule(rule) /\ getrule(rule) # NONE /\ Numbered(rule) /\ t \in Int /\ o \in Int
  BY RuledParts, WeekIs
<1>2. DayOfRule(y, getrule(rule)) = DayOfRule(y, rule)
  BY <1>1, AcceptedRule
<1>3. Midnight(y, rule) = SECSPERDAY * RuleDay(y, rule) /\ Midnight(y, rule) \in Int
  BY <1>1, YearLater, YearLaterMidnight
<1>4. transtime(FirstOfJanuary(y), y, getrule(rule), o) = Midnight(y, rule) + t + o
  BY <1>2 DEF transtime, Midnight
<1> HIDE DEF rule, t, o
<1>5. Midnight(y, rule) + t + o \in Int
  BY <1>1, <1>3
<1> QED BY <1>3, <1>4, <1>5 DEF Event, rule, t, o

(***************************************************************************)
(* The offsets that tzparse reads are those of the rules.                  *)
(***************************************************************************)
LEMMA OffsetsNamed ==
  ASSUME NEW tz, Ruled(tz)
  PROVE  StdWest(tz) = OffsetOf(tz, 1) /\ DstWest(tz) = OffsetOf(tz, 2)
<1>1. StdWest(tz) = OffsetOf(tz, 1)
  BY WestRead DEF StdWest, Ruled, IsText, OffsetOf
<1>2. DstWest(tz) = OffsetOf(tz, 2)
  <2>1. CASE tz.dstoff = NONE
    BY <1>1, <2>1 DEF DstWest, OffsetOf
  <2>2. CASE tz.dstoff # NONE
    <3>1. OffsetOf(tz, 2) = getoffset(tz.dstoff)
      BY <2>2 DEF OffsetOf
    <3>2. getoffset(tz.dstoff) # NONE /\ IsOffset(tz.dstoff)
      BY <3>1 DEF Ruled, IsText
    <3> QED BY <2>2, <3>1, <3>2, WestRead DEF DstWest
  <2> QED BY <2>1, <2>2
<1> QED BY <1>1, <1>2

(***************************************************************************)
(* They are those of the rules.                                            *)
(***************************************************************************)
LEMMA EventsNamed ==
  ASSUME NEW tz, Ruled(tz), NEW y \in Nat \ {0}
  PROVE  Begins(tz, y) = Event(tz, 1, y) /\ Ends(tz, y) = Event(tz, 2, y)
<1>1. \A k \in {1, 2} : IsRule(tz.rules[k]) /\ getrule(tz.rules[k]) # NONE /\ Numbered(tz.rules[k])
  BY RuledParts
<1>2. \A k \in {1, 2} : DayNamed(tz.rules[k], y) = RuleDay(y, tz.rules[k])
  BY <1>1, DayNamedIs
<1>3. \A k \in {1, 2} : TimeOfDay(tz.rules[k]) = getrule(tz.rules[k]).time
  BY <1>1, TimeRead
<1>4. StdWest(tz) = OffsetOf(tz, 1) /\ DstWest(tz) = OffsetOf(tz, 2)
  BY OffsetsNamed
<1>5. \A k \in {1, 2} : RuleDay(y, tz.rules[k]) * SECSPERDAY = SECSPERDAY * RuleDay(y, tz.rules[k])
  <2> SUFFICES ASSUME NEW k \in {1, 2} PROVE RuleDay(y, tz.rules[k]) * SECSPERDAY = SECSPERDAY * RuleDay(y, tz.rules[k])
    OBVIOUS
  <2>1. y \in Int /\ RuleDay(y, tz.rules[k]) \in Int
    BY <1>1, YearLater
  <2> DEFINE d == RuleDay(y, tz.rules[k])
  <2> HIDE DEF d
  <2>2. d \in Int /\ SECSPERDAY \in Int
    BY <2>1, WeekIs DEF d
  <2>3. d * SECSPERDAY = SECSPERDAY * d
    BY <2>2, Products
  <2> QED BY <2>3 DEF d
<1> QED BY <1>2, <1>3, <1>4, <1>5 DEF Begins, Ends, Event

(* The years of the table that tzparse makes.                              *)
TableYears == EPOCH_YEAR .. EPOCH_YEAR + TZ_MAX_TIMES \div 2 - 1

(***************************************************************************)
(* An event comes within two weeks of its year.                            *)
(***************************************************************************)
LEMMA EventNear ==
  ASSUME NEW tz, Ruled(tz), NEW k \in {1, 2}, NEW y \in Int
  PROVE  /\ Event(tz, k, y) \in Int /\ YearStart(y) \in Int
         /\ SECSPERDAY * (YearStart(y) - 8) <= Event(tz, k, y)
         /\ Event(tz, k, y) <= SECSPERDAY * (YearStart(y) + 379)
<1> DEFINE rule == tz.rules[k]
           t == getrule(tz.rules[k]).time
           o == OffsetOf(tz, k)
           d == DayOfRule(y, rule)
           s == YearStart(y)
           u == SECSPERDAY
<1>1. Numbered(rule) /\ t \in 0 .. WEEK /\ o \in -(8 * u) .. WEEK
  BY RuledParts
<1>2. d \in 0 .. 365
  BY <1>1, DayInYear
<1>3. s \in Int /\ u \in Nat /\ WEEK = 7 * u
  BY YearStarts, WeekIs
<1>4. Event(tz, k, y) = u * (s + d) + t + o
  BY DEF Event, RuleDay
<1>5. Event(tz, k, y) \in Int
  BY EventFound
<1> HIDE DEF rule, t, o, d, s, u
<1>6. u * (s + d) = u * s + u * d /\ u * (s - 8) = u * s - 8 * u /\ u * (s + 379) = u * s + 379 * u
      /\ u * s \in Int
  <2>1. d \in Int
    BY <1>2
  <2>2. ASSUME NEW a \in Int, NEW b \in Int, NEW c \in Int
        PROVE  a * (b + c) = a * b + a * c /\ a * (b - 8) = a * b - 8 * a /\ a * (b + 379) = a * b + 379 * a
               /\ a * b \in Int
    BY SMT
  <2> QED BY <1>3, <2>1, <2>2
<1>7. u * d \in Int /\ 0 <= u * d /\ u * d <= 365 * u
  <2>1. ASSUME NEW a \in Nat, NEW c \in 0 .. 365 PROVE a * c \in Int /\ 0 <= a * c /\ a * c <= 365 * a
    BY SMT
  <2> QED BY <1>2, <1>3, <2>1
<1> DEFINE us == u * s
           ud == u * d
           all == u * (s + d)
<1>8. us \in Int /\ ud \in Int /\ 0 <= ud /\ ud <= 365 * u /\ all = us + ud
      /\ u * (s - 8) = us - 8 * u /\ u * (s + 379) = us + 379 * u
  BY <1>6, <1>7
<1>9. Event(tz, k, y) = all + t + o
  BY <1>4
<1> HIDE DEF us, ud, all
<1>10. us - 8 * u <= Event(tz, k, y) /\ Event(tz, k, y) <= us + 379 * u
  BY <1>1, <1>3, <1>8, <1>9
<1> QED BY <1>3, <1>5, <1>8, <1>10 DEF s, u

(***************************************************************************)
(* The days of rules are in the order of their years.                      *)
(***************************************************************************)
LEMMA RuleDaysInOrder ==
  ASSUME NEW y \in Int, NEW z \in Int, y < z, NEW a, Numbered(a), NEW b, Numbered(b)
  PROVE  /\ RuleDay(y, a) \in Int /\ RuleDay(z, b) \in Int
         /\ z = y + 1 \/ RuleDay(z, b) - RuleDay(y, a) > 21
         /\ RuleDay(y, a) <= RuleDay(z, b)
<1>1. y + 1 \in Int /\ RuleDay(y, a) \in Int /\ RuleDay(z, b) \in Int /\ RuleDay(y, a) <= RuleDay(y + 1, b)
  BY YearLater
<1>2. CASE z = y + 1
  BY <1>1, <1>2
<1>3. CASE z # y + 1
  <2>1. y + 1 < z
    BY <1>3
  <2>2. /\ YearStart(y) \in Int /\ YearStart(z) \in Int /\ YearStart(y + 1) \in Int
        /\ YearStart(y) + 365 <= YearStart(y + 1) /\ YearStart(y + 1) + 365 <= YearStart(z)
    <3>1. y < y + 1
      OBVIOUS
    <3>2. YearStart(y) + 365 <= YearStart(y + 1) /\ YearStart(y) \in Int /\ YearStart(y + 1) \in Int
      BY <1>1, <3>1, YearsInOrder
    <3>3. YearStart(y + 1) + 365 <= YearStart(z) /\ YearStart(z) \in Int
      BY <1>1, <2>1, YearsInOrder
    <3> QED BY <3>2, <3>3
  <2>3. DayOfRule(y, a) \in 0 .. 365 /\ DayOfRule(z, b) \in 0 .. 365
    BY DayInYear
  <2> QED BY <1>1, <2>2, <2>3 DEF RuleDay
<1> QED BY <1>2, <1>3

(***************************************************************************)
(* So are the events, of which those of a year are at different times.     *)
(***************************************************************************)
LEMMA EventsInOrder ==
  ASSUME NEW tz, Ruled(tz), NEW k \in {1, 2}, NEW l \in {1, 2}, NEW y \in Int, NEW z \in Int,
         y \in TableYears \/ z \in TableYears, y < z \/ (y = z /\ k # l)
  PROVE  /\ Event(tz, k, y) \in Int /\ Event(tz, l, z) \in Int
         /\ Event(tz, k, y) # Event(tz, l, z)
         /\ y < z => Event(tz, k, y) < Event(tz, l, z)
<1> DEFINE a == RuleDay(y, tz.rules[k])
           b == RuleDay(z, tz.rules[l])
           s == getrule(tz.rules[k]).time
           t == getrule(tz.rules[l]).time
           o == OffsetOf(tz, k)
           p == OffsetOf(tz, l)
           u == SECSPERDAY
<1>1. /\ Numbered(tz.rules[k]) /\ Numbered(tz.rules[l])
      /\ s \in 0 .. WEEK /\ t \in 0 .. WEEK /\ o - p \in -(2 * WEEK) .. 2 * WEEK /\ o \in Int /\ p \in Int
      /\ (k = l => s = t /\ o = p)
  BY RuledParts, WeekIs
<1>2. u \in Nat \ {0} /\ WEEK = 7 * u
  BY WeekIs
<1>3. /\ Event(tz, k, y) = u * a + s + o /\ Event(tz, l, z) = u * b + t + p
      /\ Event(tz, k, y) \in Int /\ Event(tz, l, z) \in Int
  BY EventFound DEF Event
<1>4. /\ a \in Int /\ b \in Int
      /\ Midnight(y, tz.rules[k]) = u * a /\ Midnight(z, tz.rules[l]) = u * b
  BY <1>1, YearLater
<1>5. y < z => a <= b /\ (z = y + 1 \/ b - a > 21) /\ (k = l => a < b)
  <2>1. CASE k # l
    BY <1>1, <2>1, RuleDaysInOrder
  <2>2. CASE k = l
    <3>1. RuleDay(y, tz.rules[k]) < RuleDay(y + 1, tz.rules[k])
      BY <1>1, YearLater
    <3>2. y < z => a <= b /\ (z = y + 1 \/ b - a > 21)
      BY <1>1, RuleDaysInOrder
    <3>3. z = y + 1 => a < b
      BY <2>2, <3>1
    <3> HIDE DEF a, b
    <3> QED BY <1>4, <3>2, <3>3
  <2> QED BY <2>1, <2>2
<1>6. k # l /\ (y = z \/ z = y + 1) => u * a - u * b > 3 * WEEK \/ u * b - u * a > 3 * WEEK
  <2> SUFFICES ASSUME k # l, y = z \/ z = y + 1
               PROVE  u * a - u * b > 3 * WEEK \/ u * b - u * a > 3 * WEEK
    OBVIOUS
  <2>1. RulesApart(tz.rules[1], tz.rules[2])
    BY RuledParts
  <2>2. /\ y \in EPOCH_YEAR - 1 .. EPOCH_YEAR + TZ_MAX_TIMES \div 2 /\ z \in EPOCH_YEAR - 1 .. EPOCH_YEAR + TZ_MAX_TIMES \div 2
        /\ y \in z - 1 .. z + 1 /\ z \in y - 1 .. y + 1
    BY SizeAssumption DEF TableYears, EPOCH_YEAR
  <2>3. CASE k = 1 /\ l = 2
    BY <1>4, <2>1, <2>2, <2>3 DEF RulesApart
  <2>4. CASE k = 2 /\ l = 1
    BY <1>4, <2>1, <2>2, <2>4 DEF RulesApart
  <2> QED BY <2>3, <2>4
<1> HIDE DEF a, b, s, t, o, p, u
<1>7. /\ u * a \in Int /\ u * b \in Int
      /\ (a <= b => u * a <= u * b) /\ (a < b => u * a < u * b)
      /\ (b - a > 21 => u * b - u * a > 3 * WEEK)
  <2>1. ASSUME NEW f \in Nat \ {0}, NEW g \in Int, NEW h \in Int
        PROVE  f * g \in Int /\ (g <= h => f * g <= f * h) /\ (g < h => f * g < f * h)
    BY SMT
  <2>2. ASSUME b - a > 21 PROVE u * b - u * a > 3 * WEEK
    <3>1. ASSUME NEW f \in Nat \ {0}, NEW g \in Int, NEW h \in Int PROVE f * (g - h) = f * g - f * h
      BY SMT
    <3>2. ASSUME NEW f \in Nat \ {0}, NEW g \in Int, g > 21 PROVE f * g \in Int /\ f * g > 21 * f
      BY <3>2, SMT
    <3>3. b - a \in Int
      BY <1>4
    <3>4. u * (b - a) = u * b - u * a
      BY <1>2, <1>4, <3>1
    <3> DEFINE d == b - a
    <3>5. d \in Int /\ d > 21
      BY <2>2, <3>3
    <3> HIDE DEF d
    <3>6. u * d > 21 * u
      BY <1>2, <3>2, <3>5
    <3> QED BY <1>2, <3>4, <3>6 DEF d
  <2> QED BY <1>2, <1>4, <2>1, <2>2
<1> DEFINE ua == u * a
           ub == u * b
           e  == Event(tz, k, y)
           f  == Event(tz, l, z)
           w  == WEEK
<1>8. ua \in Int /\ ub \in Int /\ e = ua + s + o /\ f = ub + t + p /\ w \in Nat
      /\ s \in 0 .. w /\ t \in 0 .. w /\ o - p <= 2 * w /\ o - p >= -(2 * w) /\ o \in Int /\ p \in Int
  BY <1>1, <1>2, <1>3, <1>7
<1>9. /\ y < z => ua <= ub /\ (z = y + 1 \/ ub - ua > 3 * w) /\ (k = l => ua < ub)
      /\ k # l /\ (y = z \/ z = y + 1) => ua - ub > 3 * w \/ ub - ua > 3 * w
      /\ k = l => s = t /\ o = p
  BY <1>1, <1>5, <1>6, <1>7
<1> HIDE DEF ua, ub, e, f, w
<1>10. y < z => e < f
  <2> SUFFICES ASSUME y < z PROVE e < f
    OBVIOUS
  <2>1. CASE k = l
    BY <1>8, <1>9, <2>1
  <2>2. CASE k # l
    <3>1. ub - ua > 3 * w
      BY <1>8, <1>9, <2>2
    <3> QED BY <1>8, <3>1
  <2> QED BY <2>1, <2>2
<1>11. e # f
  <2>1. CASE y < z
    BY <1>8, <1>10, <2>1
  <2>2. CASE y = z /\ k # l
    <3>1. ua - ub > 3 * w \/ ub - ua > 3 * w
      BY <1>9, <2>2
    <3> QED BY <1>8, <3>1
  <2> QED BY <2>1, <2>2
<1> QED BY <1>3, <1>10, <1>11 DEF e, f

-----------------------------------------------------------------------------
(* The year of a transition of that table.                                 *)
YearOf(i) == EPOCH_YEAR + (i + 1) \div 2 - 1

(* The table of the events, and the types that they lead to.               *)
Observes(z, tz) ==
  /\ Len(z.ats) = 2 * (TZ_MAX_TIMES \div 2)
  /\ \A i \in 1 .. Len(z.ats) :
       YearOf(i) \in TableYears /\ \E k \in {1, 2} : z.ats[i] = Event(tz, k, YearOf(i)) /\ z.types[i] = k
  /\ \A y \in TableYears, k \in {1, 2} : \E i \in 1 .. Len(z.ats) : z.ats[i] = Event(tz, k, y)
  /\ Len(z.ttis) = 2
  /\ z.ttis[1].gmtoff = -OffsetOf(tz, 2) /\ z.ttis[1].isdst = 1
  /\ z.ttis[2].gmtoff = -OffsetOf(tz, 1) /\ z.ttis[2].isdst = 0

(***************************************************************************)
(* The loop of tzparse makes it.                                           *)
(***************************************************************************)
LEMMA ByRulesObserves ==
  ASSUME NEW z, DOMAIN z = Fields, NEW tz, Ruled(tz)
  PROVE  LET w == ByRules(z, tz, getrule(tz.rules[1]), getrule(tz.rules[2]), OffsetOf(tz, 1), OffsetOf(tz, 2))
         IN  DOMAIN w = Fields /\ Observes(w, tz)
<1> DEFINE start == getrule(tz.rules[1])
           end   == getrule(tz.rules[2])
           std   == OffsetOf(tz, 1)
           dst   == OffsetOf(tz, 2)
           w     == ByRules(z, tz, start, end, std, dst)
           years == TZ_MAX_TIMES \div 2
           n     == 2 * years
           pairs == [k \in 1 .. years |-> YearOfRules(EPOCH_YEAR + k - 1, start, end, std, dst)]
           both  == [i \in 1 .. n |-> pairs[(i + 1) \div 2][IF i % 2 = 1 THEN 1 ELSE 2]]
           S(y)  == Event(tz, 1, y)
           E(y)  == Event(tz, 2, y)
<1>1. years \in Nat /\ n \in Nat
  BY SizeAssumption
<1>2. /\ DOMAIN w = Fields
      /\ w.ats = [i \in 1 .. n |-> both[i][1]] /\ w.types = [i \in 1 .. n |-> both[i][2]]
      /\ w.ttis = <<TypeInfo(-dst, 1, tz.dst, 0, 0), TypeInfo(-std, 0, tz.std, 0, 0)>>
  BY DEF ByRules, RuleTypes, Fields
<1>3. ASSUME NEW y \in Int
      PROVE  YearOfRules(y, start, end, std, dst) = InOrderOfTime(S(y), E(y))
  <2>1. transtime(FirstOfJanuary(y), y, start, std) = S(y) /\ transtime(FirstOfJanuary(y), y, end, dst) = E(y)
    BY EventFound
  <2> QED BY <2>1 DEF YearOfRules
<1> HIDE DEF w, start, end, std, dst, S, E
<1>4. ASSUME NEW k \in 1 .. years
      PROVE  LET y == EPOCH_YEAR + k - 1
             IN  \/ pairs[k][1] = <<E(y), 2>> /\ pairs[k][2] = <<S(y), 1>>
                 \/ pairs[k][1] = <<S(y), 1>> /\ pairs[k][2] = <<E(y), 2>>
  <2> DEFINE y == EPOCH_YEAR + k - 1
  <2>1. y \in Int
    BY DEF EPOCH_YEAR
  <2>2. pairs[k] = YearOfRules(y, start, end, std, dst)
    OBVIOUS
  <2> HIDE DEF y, pairs
  <2>3. pairs[k] = InOrderOfTime(S(y), E(y))
    BY <1>3, <2>1, <2>2
  <2>4. \/ pairs[k][1] = <<E(y), 2>> /\ pairs[k][2] = <<S(y), 1>>
        \/ pairs[k][1] = <<S(y), 1>> /\ pairs[k][2] = <<E(y), 2>>
    BY <2>3 DEF InOrderOfTime
  <2> QED BY <2>4 DEF y
<1> HIDE DEF pairs
<1>5. ASSUME NEW i \in 1 .. n
      PROVE  (i + 1) \div 2 \in 1 .. years /\ (i % 2 = 1 \/ i % 2 = 0)
             /\ both[i] = pairs[(i + 1) \div 2][IF i % 2 = 1 THEN 1 ELSE 2]
  BY <1>1
<1>6. ASSUME NEW k \in 1 .. years
      PROVE  /\ 2 * k - 1 \in 1 .. n /\ 2 * k \in 1 .. n
             /\ both[2 * k - 1] = pairs[k][1] /\ both[2 * k] = pairs[k][2]
  <2>1. /\ 2 * k - 1 \in 1 .. n /\ 2 * k \in 1 .. n
        /\ (2 * k - 1 + 1) \div 2 = k /\ (2 * k + 1) \div 2 = k /\ (2 * k - 1) % 2 = 1 /\ (2 * k) % 2 # 1
    BY <1>1
  <2> DEFINE p == 2 * k - 1
             q == 2 * k
  <2>2. p \in 1 .. n /\ q \in 1 .. n /\ (p + 1) \div 2 = k /\ (q + 1) \div 2 = k /\ p % 2 = 1 /\ q % 2 # 1
    BY <2>1
  <2> HIDE DEF p, q, both
  <2>3. both[p] = pairs[k][1] /\ both[q] = pairs[k][2]
    BY <1>5, <2>2
  <2> QED BY <2>2, <2>3 DEF p, q
<1>7. \A i \in 1 .. n : w.ats[i] = both[i][1] /\ w.types[i] = both[i][2]
  BY <1>2
<1> HIDE DEF both
<1>8. Len(w.ats) = n
  <2>1. w.ats = [i \in 1 .. n |-> w.ats[i]]
    BY <1>2
  <2> HIDE DEF n
  <2> QED BY <1>1, <2>1, SequenceOf
<1>9. ASSUME NEW i \in 1 .. n
      PROVE  YearOf(i) \in TableYears /\ \E k \in {1, 2} : w.ats[i] = Event(tz, k, YearOf(i)) /\ w.types[i] = k
  <2> DEFINE j == (i + 1) \div 2
             y == EPOCH_YEAR + j - 1
  <2>0. YearOf(i) = y
    BY DEF YearOf
  <2>1. j \in 1 .. years /\ (both[i] = pairs[j][1] \/ both[i] = pairs[j][2])
    BY <1>5
  <2>2. y \in TableYears
    BY <1>1, <2>1 DEF TableYears, EPOCH_YEAR
  <2> HIDE DEF j
  <2>3. \/ pairs[j][1] = <<E(y), 2>> /\ pairs[j][2] = <<S(y), 1>>
        \/ pairs[j][1] = <<S(y), 1>> /\ pairs[j][2] = <<E(y), 2>>
    BY <1>4, <2>1
  <2> HIDE DEF y, n
  <2>4. both[i] = <<E(y), 2>> \/ both[i] = <<S(y), 1>>
    BY <2>1, <2>3
  <2>5. w.ats[i] = both[i][1] /\ w.types[i] = both[i][2]
    BY <1>7
  <2>6. (w.ats[i] = E(y) /\ w.types[i] = 2) \/ (w.ats[i] = S(y) /\ w.types[i] = 1)
    BY <2>4, <2>5
  <2> QED BY <2>0, <2>2, <2>6 DEF S, E
<1>10. ASSUME NEW y \in TableYears, NEW k \in {1, 2}
       PROVE  \E i \in 1 .. n : w.ats[i] = Event(tz, k, y)
  <2> DEFINE j == y - EPOCH_YEAR + 1
             p == 2 * j - 1
             q == 2 * j
  <2>1. j \in 1 .. years /\ EPOCH_YEAR + j - 1 = y
    BY <1>1 DEF TableYears, EPOCH_YEAR
  <2> HIDE DEF j
  <2>2. p \in 1 .. n /\ q \in 1 .. n /\ both[p] = pairs[j][1] /\ both[q] = pairs[j][2]
    BY <1>6, <2>1
  <2>3. \/ pairs[j][1] = <<E(y), 2>> /\ pairs[j][2] = <<S(y), 1>>
        \/ pairs[j][1] = <<S(y), 1>> /\ pairs[j][2] = <<E(y), 2>>
    BY <1>4, <2>1
  <2> HIDE DEF p, q, n
  <2>4. w.ats[p] = both[p][1] /\ w.ats[q] = both[q][1]
    BY <1>7, <2>2
  <2>5. (w.ats[p] = E(y) /\ w.ats[q] = S(y)) \/ (w.ats[p] = S(y) /\ w.ats[q] = E(y))
    BY <2>2, <2>3, <2>4
  <2> QED BY <2>2, <2>5 DEF S, E
<1>11. /\ Len(w.ttis) = 2
       /\ w.ttis[1].gmtoff = -dst /\ w.ttis[1].isdst = 1 /\ w.ttis[2].gmtoff = -std /\ w.ttis[2].isdst = 0
  BY <1>2 DEF TypeInfo
<1>12. Observes(w, tz)
  <2> HIDE DEF n
  <2>1. \A i \in 1 .. Len(w.ats) :
          YearOf(i) \in TableYears /\ \E k \in {1, 2} : w.ats[i] = Event(tz, k, YearOf(i)) /\ w.types[i] = k
    BY <1>8, <1>9
  <2>2. \A y \in TableYears, k \in {1, 2} : \E i \in 1 .. Len(w.ats) : w.ats[i] = Event(tz, k, y)
    BY <1>8, <1>10
  <2>3. Len(w.ats) = 2 * (TZ_MAX_TIMES \div 2)
    BY <1>8 DEF n
  <2> QED BY <1>11, <2>1, <2>2, <2>3, Zenon DEF Observes, std, dst
<1> QED BY <1>2, <1>12 DEF w, start, end, std, dst

(***************************************************************************)
(* A string with two rules: they are accepted, and its zone has the table. *)
(***************************************************************************)
LEMMA StringObserves ==
  ASSUME NEW tz, IsText(tz), tz.dst # NONE, Len(tz.rules) = 2,
         NEW default, IsFile(default), NEW z, StringMade(z, tz, default)
  PROVE  Ruled(tz) /\ Observes(z, tz)
<1>1. PICK start : DOMAIN start = Fields /\ tzparse(tz, default, start).ok /\ z = tzparse(tz, default, start).sp
  BY DEF StringMade
<1> DEFINE d   == WithDefault(default, start)
           std == getoffset(tz.off)
           dst == IF tz.dstoff = NONE THEN std - SECSPERHOUR ELSE getoffset(tz.dstoff)
           w   == WithDst(d, tz, std)
<1>2. DOMAIN d.sp = Fields
  BY <1>1, DefaultMakes DEF Half
<1>3. std # NONE /\ w.ok /\ z = Named(w, tz).sp
  <2> HIDE DEF d
  <2>1. tzparse(tz, default, start) = IF tz.std = UNCLOSED \/ std = NONE THEN Outcome(FALSE, start) ELSE Named(w, tz)
    BY DEF tzparse, d
  <2>2. tzparse(tz, default, start) = Named(w, tz) /\ std # NONE
    BY <1>1, <2>1 DEF Outcome
  <2>3. Named(w, tz).ok => w.ok
    BY DEF Named
  <2> QED BY <1>1, <2>2, <2>3
<1>4. tz.rules # <<>>
  OBVIOUS
<1> DEFINE a == getrule(tz.rules[1])
           b == getrule(tz.rules[2])
<1>5. dst # NONE /\ a # NONE /\ b # NONE /\ w.sp = ByRules(d.sp, tz, a, b, std, dst)
  <2> HIDE DEF d, std
  <2>1. \/ w = Outcome(FALSE, d.sp)
        \/ dst # NONE /\ a # NONE /\ b # NONE /\ w = Outcome(TRUE, ByRules(d.sp, tz, a, b, std, dst))
    BY <1>4 DEF WithDst
  <2>2. w # Outcome(FALSE, d.sp)
    BY <1>3 DEF Outcome
  <2> QED BY <2>1, <2>2 DEF Outcome
<1>6. OffsetOf(tz, 1) = std /\ OffsetOf(tz, 2) = dst
  BY DEF OffsetOf
<1>7. Ruled(tz)
  BY <1>3, <1>5, <1>6 DEF Ruled
<1> DEFINE q == d.sp
           v == ByRules(q, tz, getrule(tz.rules[1]), getrule(tz.rules[2]), OffsetOf(tz, 1), OffsetOf(tz, 2))
<1>8. w.sp = v /\ DOMAIN q = Fields
  BY <1>2, <1>5, <1>6
<1> HIDE DEF q
<1>9. DOMAIN v = Fields /\ Observes(v, tz)
  BY <1>7, <1>8, ByRulesObserves
<1> HIDE DEF w, v
<1>10. z.ats = v.ats /\ z.types = v.types /\ z.ttis = v.ttis
  <2>1. \E c : z = [v EXCEPT !.charcnt = c]
    BY <1>3, <1>8 DEF Named
  <2> QED BY <1>9, <2>1 DEF Fields
<1>11. Observes(z, tz)
  <2>1. /\ Len(z.ats) = 2 * (TZ_MAX_TIMES \div 2) /\ Len(z.ats) = Len(v.ats) /\ Len(z.ttis) = 2
        /\ z.ttis[1].gmtoff = -OffsetOf(tz, 2) /\ z.ttis[1].isdst = 1
        /\ z.ttis[2].gmtoff = -OffsetOf(tz, 1) /\ z.ttis[2].isdst = 0
    BY <1>9, <1>10 DEF Observes
  <2>2. \A i \in 1 .. Len(v.ats) :
          YearOf(i) \in TableYears /\ \E k \in {1, 2} : v.ats[i] = Event(tz, k, YearOf(i)) /\ v.types[i] = k
    BY <1>9 DEF Observes
  <2>3. \A y \in TableYears, k \in {1, 2} : \E i \in 1 .. Len(v.ats) : v.ats[i] = Event(tz, k, y)
    BY <1>9 DEF Observes
  <2>4. \A i \in 1 .. Len(z.ats) :
          YearOf(i) \in TableYears /\ \E k \in {1, 2} : z.ats[i] = Event(tz, k, YearOf(i)) /\ z.types[i] = k
    BY <1>10, <2>2
  <2>5. \A y \in TableYears, k \in {1, 2} : \E i \in 1 .. Len(z.ats) : z.ats[i] = Event(tz, k, y)
    BY <1>10, <2>3
  <2> QED BY <2>1, <2>4, <2>5, Zenon DEF Observes
<1> QED BY <1>7, <1>11

-----------------------------------------------------------------------------
(* The last event by the instant x.                                        *)
LastEvent(tz, k, y, x) ==
  /\ Event(tz, k, y) <= x
  /\ \A w \in Nat \ {0}, l \in {1, 2} : Event(tz, l, w) <= x => Event(tz, l, w) <= Event(tz, k, y)

(***************************************************************************)
(* Within the table, the type is that of the last event.                   *)
(***************************************************************************)
LEMMA TypeOfEvent ==
  ASSUME NEW z, \A i \in 1 .. Len(z.ats) : z.ats[i] \in Int, Sorted(z.ats),
         NEW tz, Ruled(tz), Observes(z, tz), TZ_MAX_TIMES >= 2,
         NEW x \in Int, First(z) <= x, x <= Last(z)
  PROVE  \E k \in {1, 2}, y \in TableYears, p \in 1 .. Len(z.ats) :
           /\ TypeAt(z, x) = k /\ LastEvent(tz, k, y, x)
           /\ z.ats[p] = Event(tz, k, y) /\ z.types[p] = k
           /\ z.ats[p] <= x /\ (p = Len(z.ats) \/ x < z.ats[p + 1])
<1> DEFINE n == Len(z.ats)
           v == z.ats
           P == {i \in 1 .. n : v[i] <= x}
           p == Cardinality(P)
<1>1. n \in Nat /\ (\A i \in 1 .. n : v[i] \in Int) /\ (\A i \in 1 .. n - 1 : v[i] < v[i + 1])
  <2>1. n = 2 * (TZ_MAX_TIMES \div 2)
    BY DEF Observes
  <2>2. n \in Nat
    <3> HIDE DEF n
    <3> QED BY <2>1, SizeAssumption
  <2> QED BY <2>2 DEF Sorted
<1>2. /\ \A i \in 1 .. n : \E y \in TableYears, k \in {1, 2} : v[i] = Event(tz, k, y) /\ z.types[i] = k
      /\ \A y \in TableYears, k \in {1, 2} : \E i \in 1 .. n : v[i] = Event(tz, k, y)
  BY DEF Observes
<1>3. 1 \in 1 .. n /\ n \in 1 .. n /\ v[1] <= x /\ x <= v[n]
  <2>1. First(z) = v[1] /\ Last(z) = v[n]
    BY DEF First, Last
  <2>2. n >= 1
    <3>1. n = 2 * (TZ_MAX_TIMES \div 2)
      BY DEF Observes
    <3> HIDE DEF n
    <3> QED BY <1>1, <3>1, SizeAssumption
  <2> HIDE DEF n, v
  <2> QED BY <1>1, <2>1, <2>2
<1>4. TypeAt(z, x) = IF p = 0 THEN FirstType(z) ELSE z.types[p]
  BY DEF TypeAt
<1> HIDE DEF n, v
<1>5. \A i \in 1 .. n : \A j \in i .. n : v[i] <= v[j]
  BY <1>1, Climbing
<1>6. P = 1 .. p /\ p \in 0 .. n
  <2>1. P \in SUBSET (1 .. n)
    OBVIOUS
  <2>2. \A i \in P, j \in 1 .. n : j <= i => j \in P
    <3> SUFFICES ASSUME NEW i \in P, NEW j \in 1 .. n, j <= i PROVE j \in P
      OBVIOUS
    <3>1. i \in j .. n /\ i \in 1 .. n /\ v[i] <= x
      BY <1>1
    <3>2. v[j] <= v[i] /\ v[i] \in Int /\ v[j] \in Int
      BY <1>1, <1>5, <3>1
    <3> QED BY <3>1, <3>2
  <2> HIDE DEF P
  <2> QED BY <1>1, <2>1, <2>2, Prefix
<1>7. 1 \in P
  BY <1>3
<1> HIDE DEF p
<1>8. p \in 1 .. n /\ p \in P
  <2>1. p >= 1
    <3> HIDE DEF P
    <3> QED BY <1>6, <1>7
  <2> HIDE DEF P
  <2> QED BY <1>6, <2>1
<1>9. v[p] <= x
  BY <1>8
<1>10. PICK y \in TableYears, k \in {1, 2} : v[p] = Event(tz, k, y) /\ z.types[p] = k
  BY <1>2, <1>8
<1>11. TypeAt(z, x) = k
  BY <1>4, <1>8, <1>10
<1>12. TableYears \subseteq Int
  BY SizeAssumption DEF TableYears, EPOCH_YEAR
<1>13. Event(tz, k, y) \in Int /\ y \in Int
  BY <1>12, EventFound
<1>14. ASSUME NEW w \in Nat \ {0}, NEW l \in {1, 2}, Event(tz, l, w) <= x
       PROVE  Event(tz, l, w) <= Event(tz, k, y)
  <2>1. Event(tz, l, w) \in Int /\ w \in Int
    <3>1. w \in Int
      OBVIOUS
    <3> QED BY <3>1, EventFound
  <2>2. CASE w \in TableYears
    <3>1. PICK i \in 1 .. n : v[i] = Event(tz, l, w)
      BY <1>2, <2>2
    <3>2. i \in P
      BY <1>14, <3>1
    <3>3. p \in i .. n
      <4> HIDE DEF P
      <4> QED BY <1>1, <1>6, <1>8, <3>2
    <3>4. v[i] <= v[p]
      BY <1>5, <3>3
    <3> QED BY <1>10, <3>1, <3>4
  <2>3. CASE w < y
    <3>1. Event(tz, l, w) < Event(tz, k, y)
      BY <1>13, <2>3, EventsInOrder
    <3> QED BY <1>13, <2>1, <3>1
  <2>4. CASE w \notin TableYears /\ ~(w < y)
    <3>1. PICK y1 \in TableYears, k1 \in {1, 2} : v[n] = Event(tz, k1, y1)
      BY <1>2, <1>3
    <3>2. y1 < w /\ y1 \in Int
      BY <1>12, <2>4, SizeAssumption DEF TableYears, EPOCH_YEAR
    <3>3. Event(tz, k1, y1) < Event(tz, l, w) /\ Event(tz, k1, y1) \in Int
      BY <3>2, EventsInOrder
    <3> QED BY <1>3, <1>14, <2>1, <3>1, <3>3
  <2> QED BY <2>2, <2>3, <2>4
<1>15. LastEvent(tz, k, y, x)
  BY <1>9, <1>10, <1>14 DEF LastEvent
<1>16. p = n \/ x < v[p + 1]
  <2> SUFFICES ASSUME p # n PROVE x < v[p + 1]
    OBVIOUS
  <2>1. p + 1 \in 1 .. n /\ p + 1 \notin P
    <3> HIDE DEF P
    <3> QED BY <1>1, <1>6, <1>8
  <2>2. v[p + 1] \in Int /\ ~(v[p + 1] <= x)
    BY <1>1, <2>1
  <2> QED BY <2>2
<1>17. TypeAt(z, x) = k /\ LastEvent(tz, k, y, x) /\ v[p] = Event(tz, k, y) /\ z.types[p] = k
  BY <1>10, <1>11, <1>15
<1> QED BY <1>8, <1>9, <1>16, <1>17 DEF v, n

(* The events of a year are at different times, and none of another year   *)
(* is among them.                                                          *)
YearInOrder(tz, y) ==
  \A k, l \in {1, 2}, w \in Nat \ {0} :
    /\ w < y => Event(tz, k, w) < Event(tz, l, y)
    /\ y < w => Event(tz, k, y) < Event(tz, l, w)
    /\ k # l => Event(tz, k, y) # Event(tz, l, y)

(***************************************************************************)
(* So it is in a year of the table.                                        *)
(***************************************************************************)
LEMMA TableInOrder ==
  ASSUME NEW tz, Ruled(tz), NEW y \in TableYears
  PROVE  YearInOrder(tz, y) /\ y \in Nat \ {0} /\ y >= 1970
<1>1. y \in Nat \ {0} /\ y >= 1970 /\ y \in Int
  BY SizeAssumption DEF TableYears, EPOCH_YEAR
<1>2. ASSUME NEW k \in {1, 2}, NEW l \in {1, 2}, NEW w \in Nat \ {0}
      PROVE  /\ w < y => Event(tz, k, w) < Event(tz, l, y)
             /\ y < w => Event(tz, k, y) < Event(tz, l, w)
             /\ k # l => Event(tz, k, y) # Event(tz, l, y)
  <2>1. w \in Int
    OBVIOUS
  <2>2. w < y => Event(tz, k, w) < Event(tz, l, y)
    BY <1>1, <2>1, EventsInOrder
  <2>3. y < w => Event(tz, k, y) < Event(tz, l, w)
    BY <1>1, <2>1, EventsInOrder
  <2>4. k # l => Event(tz, k, y) # Event(tz, l, y)
    BY <1>1, EventsInOrder
  <2> QED BY <2>2, <2>3, <2>4
<1> QED BY <1>1, <1>2 DEF YearInOrder

(***************************************************************************)
(* Whether daylight saving time has begun or ended last.                   *)
(***************************************************************************)
LEMMA EventsWindow ==
  ASSUME NEW tz, Ruled(tz), NEW k \in {1, 2}, NEW y \in Nat \ {0}, YearInOrder(tz, y),
         NEW x \in Int, LastEvent(tz, k, y, x), y >= 1970 \/ x >= 0
  PROVE  y \in YearsAbout(x) /\ YearsAbout(x) \subseteq Nat \ {0}
<1> DEFINE D == x \div SECSPERDAY
           q == (D * YEARSPERREPEAT) \div (SECSPERREPEAT \div SECSPERDAY)
           u == SECSPERDAY
           e == Event(tz, k, y)
           f == Event(tz, k, y + 1)
           s == YearStart(y)
           t == YearStart(y + 1)
<1> DEFINE est == EPOCH_YEAR + q
<1>1. YearsAbout(x) = est - 2 .. est + 1
  BY Zenon DEF YearsAbout
<1>2. u \in Nat \ {0} /\ y \in Int /\ y + 1 \in Int
  BY WeekIs
<1>3. D \in Int /\ u * D <= x /\ x < u * (D + 1)
  <2>1. ASSUME NEW a \in Int, NEW b \in Nat \ {0}
        PROVE  a \div b \in Int /\ b * (a \div b) <= a /\ a < b * (a \div b + 1)
    <3> DEFINE c == a \div b
               r == a % b
    <3>1. c \in Int /\ r \in 0 .. b - 1 /\ a = b * c + r
      BY DivMod
    <3> HIDE DEF c, r
    <3>2. b * (c + 1) = b * c + b /\ b * c \in Int
      BY <3>1, SMT
    <3> QED BY <3>1, <3>2 DEF c
  <2> QED BY <1>2, <2>1
<1>4. SECSPERREPEAT \div SECSPERDAY = 146097
  <2>1. ASSUME NEW b \in Nat \ {0} PROVE (146097 * b) \div b = 146097
    <3>1. Divided(146097 * b, b, 146097, 0)
      BY SMT DEF Divided
    <3>2. 146097 * b \in Int
      BY SMT
    <3> QED BY <3>1, <3>2, DivModUnique
  <2> QED BY <1>2, <2>1 DEF SECSPERREPEAT
<1> HIDE DEF D, est
<1>5. q \in Int /\ 146097 * q <= 400 * D /\ 400 * D < 146097 * q + 146097
  <2>1. q = (D * 400) \div 146097
    BY <1>4 DEF YEARSPERREPEAT
  <2> HIDE DEF q
  <2> QED BY <1>3, <2>1, SMT
<1> HIDE DEF q
<1>6. /\ e \in Int /\ f \in Int /\ s \in Int /\ t \in Int
      /\ u * (s - 8) <= e /\ f <= u * (t + 379)
  BY <1>2, EventNear
<1>7. e <= x /\ x < f
  <2> DEFINE v == y + 1
  <2>0. v \in Nat \ {0} /\ y < v
    BY <1>2
  <2>1. e < f
    <3>1. Event(tz, k, y) < Event(tz, k, v)
      <4> HIDE DEF v
      <4> QED BY <2>0 DEF YearInOrder
    <3> QED BY <3>1
  <2>2. e <= x /\ (f <= x => f <= e)
    <3>1. Event(tz, k, v) <= x => Event(tz, k, v) <= e
      <4> HIDE DEF v
      <4> QED BY <2>0 DEF LastEvent
    <3>2. e <= x
      BY DEF LastEvent
    <3> QED BY <3>1, <3>2
  <2> HIDE DEF e, f
  <2> QED BY <1>6, <2>1, <2>2
<1>8. /\ 146097 * (y - 1970) - 600 <= 400 * s /\ 400 * t <= 146097 * (y + 1 - 1970) + 600
      /\ y >= 1970 => s >= 0
  <2>1. 146097 * (y - 1970) - 600 <= 400 * s
    BY <1>2, YearStartNear
  <2>2. 400 * t <= 146097 * (y + 1 - 1970) + 600
    BY <1>2, YearStartNear
  <2>3. y >= 1970 => s >= 0
    <3> SUFFICES ASSUME y >= 1970 PROVE s >= 0
      OBVIOUS
    <3>1. 1970 \in Int /\ YearStart(1970) = 0
      <4>1. leaps_thru_end_of(1969) \in Int /\ 1970 - 1 = 1969
        BY LeapsStep
      <4> QED BY <4>1 DEF YearStart
    <3> DEFINE w == 1970
    <3>2. w \in Int /\ YearStart(w) = 0 /\ w <= y
      BY <1>2, <3>1
    <3> HIDE DEF w
    <3> QED BY <1>2, <3>2, YearByStart
  <2> QED BY <2>1, <2>2, <2>3
<1> HIDE DEF e, f, s, t
<1>9. s - 8 <= D /\ D < t + 379
  <2>1. ASSUME NEW a \in Nat \ {0}, NEW b \in Int, NEW c \in Int, a * b < a * c PROVE b < c
    BY <2>1, SMT
  <2>2. u * (s - 8) \in Int /\ u * (D + 1) \in Int /\ u * D \in Int /\ u * (t + 379) \in Int
    <3>1. ASSUME NEW a \in Int, NEW b \in Int PROVE a * b \in Int
      BY SMT
    <3>2. s - 8 \in Int /\ D + 1 \in Int /\ t + 379 \in Int /\ u \in Int
      BY <1>2, <1>3, <1>6
    <3> QED BY <1>3, <3>1, <3>2
  <2>3. u * (s - 8) < u * (D + 1) /\ u * D < u * (t + 379)
    BY <1>3, <1>6, <1>7, <2>2
  <2>4. s - 8 < D + 1 /\ D < t + 379
    <3> DEFINE g == s - 8
               h == D + 1
               i == t + 379
    <3>1. g \in Int /\ h \in Int /\ i \in Int /\ D \in Int /\ u * g < u * h /\ u * D < u * i
      BY <1>3, <1>6, <2>3
    <3> HIDE DEF g, h, i
    <3>2. g < h /\ D < i
      BY <1>2, <2>1, <3>1
    <3> QED BY <3>2 DEF g, h, i
  <2> QED BY <1>3, <1>6, <2>4
<1>10. y - 1970 <= q + 1 /\ y - 1970 >= q - 2 /\ q >= -1
  <2>1. y - 1970 <= q + 1 /\ y - 1970 >= q - 2
    BY <1>2, <1>3, <1>5, <1>6, <1>8, <1>9, SMT
  <2>2. CASE y >= 1970
    BY <1>2, <1>3, <1>5, <1>6, <1>8, <1>9, <2>2, SMT
  <2>3. CASE x >= 0
    <3>1. D >= 0
      <4>1. ASSUME NEW a \in Nat \ {0}, NEW b \in Int, a * (b + 1) > 0 PROVE b >= 0
        BY <4>1, SMT
      <4>2. u * (D + 1) > 0
        <5>1. u * (D + 1) \in Int
          <6>1. ASSUME NEW a \in Int, NEW b \in Int PROVE a * (b + 1) \in Int
            BY SMT
          <6> QED BY <1>2, <1>3, <6>1
        <5> QED BY <1>3, <2>3, <5>1
      <4> QED BY <1>2, <1>3, <4>1, <4>2
    <3>2. q >= -1
      BY <1>3, <1>5, <3>1, SMT
    <3> QED BY <2>1, <3>2
  <2> QED BY <2>1, <2>2, <2>3
<1>11. y \in est - 2 .. est + 1 /\ est - 2 .. est + 1 \subseteq Nat \ {0}
  BY <1>2, <1>5, <1>10 DEF EPOCH_YEAR, est
<1> QED BY <1>1, <1>11

(***************************************************************************)
(* That is what the rules tell.                                            *)
(***************************************************************************)
LEMMA DstByEvent ==
  ASSUME NEW tz, Ruled(tz), NEW k \in {1, 2}, NEW y \in Nat \ {0}, YearInOrder(tz, y),
         NEW x \in Int, LastEvent(tz, k, y, x), y >= 1970 \/ x >= 0
  PROVE  DstAt(tz, x) <=> k = 1
<1> DEFINE W == YearsAbout(x)
<1>1. y \in W /\ W \subseteq Nat \ {0} /\ W \subseteq Int
  <2>1. y \in W /\ W \subseteq Nat \ {0}
    BY EventsWindow
  <2> HIDE DEF W
  <2> QED BY <2>1
<1>2. \A w \in W : Begins(tz, w) = Event(tz, 1, w) /\ Ends(tz, w) = Event(tz, 2, w)
  BY <1>1, EventsNamed
<1>3. \A w \in W : Event(tz, 1, w) \in Int /\ Event(tz, 2, w) \in Int
  BY <1>1, EventFound
<1>4. DstAt(tz, x) <=> \E w \in W : /\ Event(tz, 1, w) <= x
                                    /\ \A v \in W : ~(Event(tz, 1, w) < Event(tz, 2, v) /\ Event(tz, 2, v) <= x)
  BY <1>2 DEF DstAt
<1>5. /\ Event(tz, k, y) <= x
      /\ \A w \in W, l \in {1, 2} : Event(tz, l, w) <= x => Event(tz, l, w) <= Event(tz, k, y)
  BY <1>1 DEF LastEvent
<1> HIDE DEF W
<1>6. CASE k = 1
  <2>1. ASSUME NEW v \in W PROVE ~(Event(tz, 1, y) < Event(tz, 2, v) /\ Event(tz, 2, v) <= x)
    BY <1>1, <1>3, <1>5, <1>6
  <2> QED BY <1>1, <1>4, <1>5, <1>6, <2>1
<1>7. CASE k = 2
  <2>1. ASSUME NEW w \in W, Event(tz, 1, w) <= x
        PROVE  Event(tz, 1, w) < Event(tz, 2, y) /\ Event(tz, 2, y) <= x
    <3>1. Event(tz, 1, w) <= Event(tz, 2, y)
      BY <1>5, <1>7, <2>1
    <3>2. Event(tz, 1, w) # Event(tz, 2, y)
      <4>1. w \in Int /\ y \in Int /\ (w < y \/ w = y \/ y < w)
        BY <1>1
      <4>2. /\ w < y => Event(tz, 1, w) < Event(tz, 2, y)
            /\ y < w => Event(tz, 2, y) < Event(tz, 1, w)
            /\ Event(tz, 1, y) # Event(tz, 2, y)
        <5>1. w \in Nat \ {0} /\ 1 \in {1, 2} /\ 2 \in {1, 2} /\ 1 # 2
          BY <1>1
        <5> DEFINE a == 1
                   b == 2
        <5>2. w \in Nat \ {0} /\ a \in {1, 2} /\ b \in {1, 2} /\ a # b
          BY <5>1
        <5> HIDE DEF a, b
        <5>3. /\ w < y => Event(tz, a, w) < Event(tz, b, y)
              /\ y < w => Event(tz, b, y) < Event(tz, a, w)
              /\ Event(tz, a, y) # Event(tz, b, y)
          BY <5>2 DEF YearInOrder
        <5> QED BY <5>3 DEF a, b
      <4> QED BY <1>1, <1>3, <4>1, <4>2
    <3> QED BY <1>1, <1>3, <1>5, <1>7, <3>1, <3>2
  <2> QED BY <1>1, <1>4, <1>7, <2>1
<1> QED BY <1>6, <1>7

-----------------------------------------------------------------------------
(***************************************************************************)
(* The instants between two events of the table are moderate.              *)
(***************************************************************************)
LEMMA TableModerate ==
  ASSUME NEW tz, Ruled(tz), WideInts, TZ_MAX_TIMES <= INT_MAX,
         NEW k \in {1, 2}, NEW y \in TableYears, NEW l \in {1, 2}, NEW w \in TableYears,
         NEW x \in Int, Event(tz, k, y) <= x, x <= Event(tz, l, w)
  PROVE  Moderate(x)
<1> DEFINE low  == FIRST_YEAR + 1
           high == INT_MAX
           u == SECSPERDAY
           a == YearStart(low)
           b == YearStart(high)
           s == YearStart(y)
           t == YearStart(w)
           e == Event(tz, k, y)
           f == Event(tz, l, w)
<1>1. /\ low \in Int /\ high \in Int /\ a \in Int /\ b \in Int /\ 40000 <= high /\ low = 1901 - high - 1
      /\ low = INT_MIN + TM_YEAR_BASE + 1
  BY YearsOfInts DEF FIRST_YEAR
<1>2. y \in Int /\ w \in Int /\ y >= 1970 /\ w <= 1970 + high
  <2>1. TZ_MAX_TIMES \div 2 <= TZ_MAX_TIMES /\ TZ_MAX_TIMES \div 2 \in Nat /\ TZ_MAX_TIMES \in Nat
    BY SizeAssumption
  <2>2. y \in 1970 .. 1970 + TZ_MAX_TIMES \div 2 - 1 /\ w \in 1970 .. 1970 + TZ_MAX_TIMES \div 2 - 1
    BY DEF TableYears, EPOCH_YEAR
  <2> QED BY <1>1, <2>1, <2>2
<1>3. w + 2 < high
  <2>1. 2 * (TZ_MAX_TIMES \div 2) <= TZ_MAX_TIMES /\ TZ_MAX_TIMES \in Nat
    BY SizeAssumption
  <2>2. w <= 1970 + TZ_MAX_TIMES \div 2 - 1 /\ TZ_MAX_TIMES \div 2 \in Nat
    BY SizeAssumption DEF TableYears, EPOCH_YEAR
  <2> DEFINE h == TZ_MAX_TIMES \div 2
  <2>3. 2 * h <= high /\ w <= 1970 + h - 1 /\ h \in Nat
    BY <1>1, <2>1, <2>2
  <2> HIDE DEF h, high
  <2> QED BY <1>1, <1>2, <2>3
<1>4. u \in Nat \ {0}
  BY WeekIs
<1>5. e \in Int /\ f \in Int /\ u * (s - 8) <= e /\ f <= u * (t + 379) /\ s \in Int /\ t \in Int
  BY <1>2, EventNear
<1> HIDE DEF low, high
<1>6. a + 365 <= s
  BY <1>1, <1>2, YearsInOrder
<1>7. t + 730 <= b
  <2> DEFINE v == w + 1
  <2>1. v \in Int /\ w < v /\ v < high
    BY <1>1, <1>2, <1>3
  <2> HIDE DEF v
  <2>2. t + 365 <= YearStart(v) /\ YearStart(v) \in Int
    BY <1>2, <2>1, YearsInOrder
  <2>3. YearStart(v) + 365 <= b
    BY <1>1, <2>1, YearsInOrder
  <2> HIDE DEF t, b
  <2> QED BY <1>1, <1>5, <2>2, <2>3
<1> HIDE DEF a, b, s, t, e, f, u
<1>8. ASSUME NEW g \in Int, NEW h \in Int, g < h PROVE u * g \in Int /\ u * h \in Int /\ u * g < u * h
  <2>1. ASSUME NEW c \in Nat \ {0}, NEW d \in Int, NEW i \in Int, d < i PROVE c * d \in Int /\ c * i \in Int /\ c * d < c * i
    BY <2>1, SMT
  <2> QED BY <1>4, <1>8, <2>1
<1> DEFINE g == s - 8
           h == t + 379
<1>9. g \in Int /\ h \in Int /\ a < g /\ h < b
  BY <1>1, <1>5, <1>6, <1>7
<1>10. u * g <= e /\ f <= u * h
  BY <1>5
<1> HIDE DEF g, h
<1>11. u * a \in Int /\ u * g \in Int /\ u * a < u * g /\ u * h \in Int /\ u * b \in Int /\ u * h < u * b
  BY <1>1, <1>8, <1>9
<1>12. e <= x /\ x <= f
  BY DEF e, f
<1>13. u * a <= x /\ x < u * b
  BY <1>5, <1>10, <1>11, <1>12
<1>14. a = YearStart(INT_MIN + TM_YEAR_BASE + 1) /\ b = YearStart(INT_MAX) /\ u = SECSPERDAY
  BY <1>1 DEF a, b, high, u
<1> QED BY <1>13, <1>14 DEF Moderate

(***************************************************************************)
(* A struct tm that counts a second is that second of its day.             *)
(***************************************************************************)
LEMMA CountedByDay ==
  ASSUME NEW b, NEW x \in Int, Counted(b, x, 0)
  PROVE  LET minutes == DayNumber(b.year + TM_YEAR_BASE, b.mon + 1, b.mday) * SECSPERDAY
                          + b.hour * SECSPERHOUR + b.min * SECSPERMIN
         IN  minutes \in Int /\ b.sec \in Int /\ minutes + b.sec = x
<1> DEFINE y == b.year + TM_YEAR_BASE
           m == b.mon
           D == DayNumber(y, m + 1, b.mday)
<1>1. /\ b.year \in Int /\ b.mon \in 0 .. 11 /\ b.mday \in Int
      /\ b.hour \in Int /\ b.min \in Int /\ b.sec \in Int
      /\ Days(b) \in Int /\ LocalSeconds(b) = x
  <2>1. b \in StructTm /\ b.mon \in 0 .. 11 /\ Days(b) \in Int /\ LocalSeconds(b) = x + 0
    BY DEF Counted
  <2> QED BY <2>1 DEF StructTm
<1>2. y \in Int /\ m \in 0 .. 11 /\ b.year = y - TM_YEAR_BASE /\ m + 1 \in 1 .. 12 /\ m + 1 - 1 = m
  BY <1>1 DEF TM_YEAR_BASE
<1> HIDE DEF y
<1>3. Days(b) = DaysTo(y, m, b.mday)
  <2>1. b.mon = m
    OBVIOUS
  <2> HIDE DEF m
  <2> QED BY <1>1, <1>2, <2>1, DaysOfDate
<1>4. D = YearStart(y) + MonthTable(y, m) + b.mday - 1
  <2> DEFINE n == m + 1
             d == b.mday
  <2>1. n \in 1 .. 12 /\ n - 1 = m /\ d \in Int
    BY <1>1, <1>2
  <2> HIDE DEF n, d, m
  <2>2. DayNumber(y, n, d) = YearStart(y) + MonthTable(y, n - 1) + d - 1
    BY <1>2, <2>1, DayNumberIs
  <2> QED BY <2>1, <2>2 DEF n, d
<1>5. MonthStart[<<y, m>>] = MonthTable(y, m)
  <2>1. m \in 0 .. 12
    BY <1>2
  <2> HIDE DEF m
  <2> QED BY <1>2, <2>1, MonthStartTable
<1>6. D = Days(b)
  BY <1>3, <1>4, <1>5 DEF DaysTo
<1> DEFINE C == Days(b)
           hour == b.hour
           min == b.min
           sec == b.sec
<1>7. ((C * HOURSPERDAY + hour) * MINSPERHOUR + min) * SECSPERMIN + sec = x
  BY <1>1 DEF LocalSeconds
<1>8. C \in Int /\ hour \in Int /\ min \in Int /\ sec \in Int
  BY <1>1
<1> HIDE DEF C, hour, min, sec, D
<1>9. ((C * HOURSPERDAY + hour) * MINSPERHOUR + min) * SECSPERMIN + sec
        = C * SECSPERDAY + hour * SECSPERHOUR + min * SECSPERMIN + sec
  <2> DEFINE p == C * HOURSPERDAY
             M == MINSPERHOUR
             S == SECSPERMIN
  <2>1. /\ M \in Int /\ S \in Int /\ HOURSPERDAY \in Int /\ SECSPERHOUR = S * M /\ SECSPERHOUR \in Int
        /\ SECSPERDAY = SECSPERHOUR * HOURSPERDAY
    BY WeekIs DEF SECSPERDAY
  <2>2. p \in Int
    BY <1>8, <2>1, Products
  <2> HIDE DEF M, S
  <2>3. p * SECSPERHOUR = C * SECSPERDAY
    <3>1. p * SECSPERHOUR = C * (HOURSPERDAY * SECSPERHOUR)
      BY <1>8, <2>1, Products
    <3> QED BY <2>1, <3>1, Products
  <2> HIDE DEF p
  <2>4. ASSUME NEW c \in Int, NEW d \in Int, NEW e \in Int, NEW f \in Int, NEW g \in Int
        PROVE  ((c + d) * f + e) * g = c * (g * f) + d * (g * f) + e * g
    BY SMT
  <2>5. ((p + hour) * M + min) * S = p * (S * M) + hour * (S * M) + min * S
    BY <1>8, <2>1, <2>2, <2>4
  <2> QED BY <2>1, <2>3, <2>5 DEF M, S, p
<1>10. C * SECSPERDAY + hour * SECSPERHOUR + min * SECSPERMIN \in Int
  <2>1. C * SECSPERDAY \in Int /\ hour * SECSPERHOUR \in Int /\ min * SECSPERMIN \in Int
    BY <1>8, WeekIs, Times3
  <2> QED BY <2>1
<1> QED BY <1>6, <1>7, <1>8, <1>9, <1>10 DEF C, hour, min, sec, D, m, y

(***************************************************************************)
(* A clock shows the offset of the type, for the table as it is and        *)
(* without leap seconds.                                                   *)
(***************************************************************************)
LEMMA ClockIs ==
  ASSUME NEW z, IsZone(z), DOMAIN z = Fields, WideInts, NEW x \in Int, First(z) <= x, x <= Last(z), Moderate(x),
         \A i \in 1 .. Len(z.ttis) :
           -(SECSPERDAY * DAYSPERNYEAR) <= z.ttis[i].gmtoff /\ z.ttis[i].gmtoff <= SECSPERDAY * DAYSPERNYEAR
  PROVE  Clock([z EXCEPT !.lsis = <<>>], x)
           = [ahead |-> z.ttis[TypeAt(z, x)].gmtoff, isdst |-> z.ttis[TypeAt(z, x)].isdst]
<1> DEFINE z0 == [z EXCEPT !.lsis = <<>>]
           z1 == Zone(z.ats, z.types, z.ttis, FALSE, FALSE, <<>>)
<1>1. /\ z0.ats = z.ats /\ z0.types = z.types /\ z0.ttis = z.ttis /\ z0.lsis = <<>>
      /\ z0.goback = z.goback /\ z0.goahead = z.goahead
  BY DEF Fields
<1>2. /\ z1.ats = z.ats /\ z1.types = z.types /\ z1.ttis = z.ttis /\ z1.lsis = <<>>
      /\ z1.goback = FALSE /\ z1.goahead = FALSE
  BY DEF Zone
<1> HIDE DEF z0, z1
<1>3. Len(z1.lsis) = 0
  BY <1>2
<1>4. IsZone(z1)
  BY <1>2, <1>3 DEF IsZone, Sorted
<1>5. SoundLeaps(z1)
  BY <1>2, <1>3 DEF SoundLeaps
<1>6. Modest(z1)
  <2>1. Corrections(z1) = {0}
    BY <1>3 DEF Corrections
  <2>2. \A i \in 1 .. Len(z1.ttis) : z1.ttis[i].gmtoff \in Int
    BY <1>4 DEF IsZone
  <2> QED BY <1>2, <2>1, <2>2 DEF Modest
<1>7. TypeAt(z0, x) = TypeAt(z, x) /\ TypeAt(z1, x) = TypeAt(z, x)
  BY <1>1, <1>2 DEF TypeAt, FirstType
<1>8. Cycles(z0, x) = 0 /\ Cycles(z1, x) = 0
  <2>1. ~Beyond(z1, x)
    BY <1>2 DEF Beyond
  <2>2. First(z0) = First(z) /\ Last(z0) = Last(z)
    BY <1>1 DEF First, Last
  <2>3. (First(z) \in Int /\ Last(z) \in Int) \/ ~(z.goback \/ z.goahead)
    BY CycleInTable
  <2>4. ~Beyond(z0, x)
    BY <1>1, <2>2, <2>3 DEF Beyond
  <2> QED BY <2>1, <2>4 DEF Cycles
<1> DEFINE c == 0
           info == z.ttis[TypeAt(z, x)]
           newt == x + c * SECSPERREPEAT
<1>9. newt = x
  BY Units
<1>10. Correction(z0, x) = 0 /\ Hits(z0, x) = 0 /\ Correction(z1, x) = 0 /\ Hits(z1, x) = 0
  BY <1>1, <1>2, NoLeaps
<1>11. localsub(z0, x, NoTm) = CyclesBack(WithType(info, z0, x, NoTm), 0)
  <2>1. localsub(z0, x, NoTm) = AfterCycles(z0, newt, 0, NoTm)
    BY <1>8 DEF localsub
  <2> HIDE DEF newt
  <2> QED BY <1>1, <1>7, <1>9, <2>1 DEF AfterCycles
<1>12. localsub(z1, x, NoTm) = CyclesBack(WithType(info, z1, x, NoTm), 0)
  <2>1. localsub(z1, x, NoTm) = AfterCycles(z1, newt, 0, NoTm)
    BY <1>8 DEF localsub
  <2> HIDE DEF newt
  <2> QED BY <1>2, <1>7, <1>9, <2>1 DEF AfterCycles
<1>13. timesub(x, info.gmtoff, z0, NoTm) = timesub(x, info.gmtoff, z1, NoTm)
  BY <1>10, Zenon DEF timesub
<1>14. localsub(z0, x, NoTm) = localsub(z1, x, NoTm)
  BY <1>11, <1>12, <1>13 DEF WithType
<1> DEFINE b == localsub(z1, x, NoTm).tm
<1>15. b.isdst = info.isdst /\ Counted(b, x + info.gmtoff, 0) /\ info.gmtoff \in Int
  <2> DEFINE tmp == NoTm
  <2> HIDE DEF tmp
  <2>1. localsub(z1, x, tmp).ok
    BY <1>4, <1>5, <1>6, LocalsubAnswers
  <2>2. PICK i \in 1 .. Len(z1.ttis) :
          /\ localsub(z1, x, tmp).tm.isdst = z1.ttis[i].isdst
          /\ Counted(localsub(z1, x, tmp).tm, x + z1.ttis[i].gmtoff - Correction(z1, x), Hits(z1, x))
          /\ i = TypeAt(z1, x + Cycles(z1, x) * SECSPERREPEAT)
    BY <1>4, <1>5, <2>1, LocalsubRight
  <2>3. i = TypeAt(z, x)
    BY <1>7, <1>8, <1>9, <2>2
  <2>4. z1.ttis[i] = info /\ info.gmtoff \in Int
    BY <1>2, <1>4, <2>2, <2>3 DEF IsZone
  <2>5. x + z1.ttis[i].gmtoff - Correction(z1, x) = x + info.gmtoff
    BY <1>10, <2>4
  <2> QED BY <1>10, <2>2, <2>4, <2>5 DEF tmp
<1> HIDE DEF b, info
<1> DEFINE D == DayNumber(b.year + TM_YEAR_BASE, b.mon + 1, b.mday)
           s == x + info.gmtoff
           T == D * SECSPERDAY + b.hour * SECSPERHOUR + b.min * SECSPERMIN
<1>16. T \in Int /\ b.sec \in Int /\ T + b.sec = s
  <2>1. s \in Int /\ Counted(b, s, 0)
    BY <1>15
  <2> HIDE DEF s
  <2> QED BY <2>1, CountedByDay
<1>17. Clock(z0, x) = [ahead |-> T + (b.sec - x), isdst |-> b.isdst]
  BY <1>14, Zenon DEF Clock, b
<1> HIDE DEF T
<1>18. T + (b.sec - x) = info.gmtoff
  BY <1>15, <1>16
<1>19. Clock(z0, x) = [ahead |-> info.gmtoff, isdst |-> info.isdst]
  BY <1>15, <1>17, <1>18, Zenon
<1> QED BY <1>19 DEF info, z0

(***************************************************************************)
(* What the rules have a clock show.                                       *)
(***************************************************************************)
LEMMA ByRuleIs ==
  ASSUME NEW tz, Ruled(tz), NEW k \in {1, 2}, NEW x, DstAt(tz, x) <=> k = 1
  PROVE  ByRule(tz, x) = [ahead |-> IF k = 1 THEN -OffsetOf(tz, 2) ELSE -OffsetOf(tz, 1),
                          isdst |-> IF k = 1 THEN 1 ELSE 0]
<1>1. StdWest(tz) = OffsetOf(tz, 1) /\ DstWest(tz) = OffsetOf(tz, 2)
  BY OffsetsNamed
<1> QED BY <1>1 DEF ByRule

(***************************************************************************)
(* A table of the events has the clocks show it.                           *)
(***************************************************************************)
LEMMA ClockByRule ==
  ASSUME NEW z, IsZone(z), DOMAIN z = Fields, NEW tz, Ruled(tz), Observes(z, tz),
         WideInts, TZ_MAX_TIMES \in 2 .. INT_MAX,
         NEW x \in Int, First(z) <= x, x <= Last(z)
  PROVE  Clock([z EXCEPT !.lsis = <<>>], x) = ByRule(tz, x)
<1>1. TZ_MAX_TIMES >= 2 /\ TZ_MAX_TIMES <= INT_MAX
  BY UnitAssumption, SizeAssumption
<1>2. PICK k \in {1, 2}, y \in TableYears : TypeAt(z, x) = k /\ LastEvent(tz, k, y, x)
  <2>1. Sorted(z.ats) /\ \A i \in 1 .. Len(z.ats) : z.ats[i] \in Int
    BY DEF IsZone
  <2> QED BY <1>1, <2>1, TypeOfEvent
<1>3. DstAt(tz, x) <=> k = 1
  <2>1. YearInOrder(tz, y) /\ y \in Nat \ {0} /\ y >= 1970
    BY TableInOrder
  <2> QED BY <1>2, <2>1, DstByEvent
<1>4. PICK i \in {1, 2}, v \in TableYears, j \in {1, 2}, w \in TableYears :
        First(z) = Event(tz, i, v) /\ Last(z) = Event(tz, j, w)
  <2> DEFINE n == Len(z.ats)
  <2>1. 1 \in 1 .. n /\ n \in 1 .. n
    <3>1. n = 2 * (TZ_MAX_TIMES \div 2) /\ n \in Nat
      BY DEF Observes, IsZone
    <3> HIDE DEF n
    <3> QED BY <1>1, <3>1, SizeAssumption
  <2>2. \A i \in 1 .. n : \E y1 \in TableYears, k1 \in {1, 2} : z.ats[i] = Event(tz, k1, y1)
    BY DEF Observes
  <2> QED BY <2>1, <2>2 DEF First, Last
<1>5. Moderate(x)
  <2>1. Event(tz, i, v) <= x /\ x <= Event(tz, j, w)
    BY <1>4
  <2> QED BY <1>1, <2>1, TableModerate
<1>6. /\ Len(z.ttis) = 2
      /\ z.ttis[1].gmtoff = -OffsetOf(tz, 2) /\ z.ttis[1].isdst = 1
      /\ z.ttis[2].gmtoff = -OffsetOf(tz, 1) /\ z.ttis[2].isdst = 0
  BY DEF Observes
<1>7. \A m \in 1 .. Len(z.ttis) :
        -(SECSPERDAY * DAYSPERNYEAR) <= z.ttis[m].gmtoff /\ z.ttis[m].gmtoff <= SECSPERDAY * DAYSPERNYEAR
  <2>1. OffsetOf(tz, 1) \in -(8 * SECSPERDAY) .. WEEK /\ OffsetOf(tz, 2) \in -(8 * SECSPERDAY) .. WEEK
    BY RuledParts
  <2>2. SECSPERDAY \in Nat /\ WEEK = 7 * SECSPERDAY
    BY WeekIs
  <2> DEFINE o == OffsetOf(tz, 1)
             p == OffsetOf(tz, 2)
             u == SECSPERDAY
  <2>3. SECSPERDAY * DAYSPERNYEAR = 365 * u
    BY <2>2 DEF DAYSPERNYEAR
  <2>4. o \in -(8 * u) .. 7 * u /\ p \in -(8 * u) .. 7 * u /\ u \in Nat
    BY <2>1, <2>2
  <2> HIDE DEF o, p, u
  <2>5. -(365 * u) <= -o /\ -o <= 365 * u /\ -(365 * u) <= -p /\ -p <= 365 * u
    BY <2>4
  <2>6. \A m \in 1 .. Len(z.ttis) : z.ttis[m].gmtoff = -p \/ z.ttis[m].gmtoff = -o
    BY <1>6 DEF o, p
  <2> QED BY <2>3, <2>5, <2>6
<1>8. Clock([z EXCEPT !.lsis = <<>>], x) = [ahead |-> z.ttis[TypeAt(z, x)].gmtoff, isdst |-> z.ttis[TypeAt(z, x)].isdst]
  BY <1>5, <1>7, ClockIs
<1>9. ByRule(tz, x) = [ahead |-> IF k = 1 THEN -OffsetOf(tz, 2) ELSE -OffsetOf(tz, 1),
                       isdst |-> IF k = 1 THEN 1 ELSE 0]
  BY <1>3, ByRuleIs
<1>10. z.ttis[TypeAt(z, x)].gmtoff = (IF k = 1 THEN -OffsetOf(tz, 2) ELSE -OffsetOf(tz, 1))
       /\ z.ttis[TypeAt(z, x)].isdst = (IF k = 1 THEN 1 ELSE 0)
  BY <1>2, <1>6
<1> QED BY <1>8, <1>9, <1>10

(***************************************************************************)
(* A zone made of a TZ string with two rules shows, in all the years its   *)
(* table spans, the times that POSIX has the rules mean, for ints of more  *)
(* than 16 bits and a table with room for a year, and no more than an int  *)
(* counts.                                                                 *)
(***************************************************************************)
THEOREM RulesAreObserved ==
  SoundSources /\ (\A z : IsZone(z) => Moments(z) \subseteq Int) /\ WideInts /\ TZ_MAX_TIMES \in 2 .. INT_MAX
    => (Spec => []RulesObserved)
<1> SUFFICES ASSUME SoundSources, \A z : IsZone(z) => Moments(z) \subseteq Int, WideInts, TZ_MAX_TIMES \in 2 .. INT_MAX
             PROVE  Spec => []RulesObserved
  OBVIOUS
<1>1. Init => AllocInv /\ MadeInv
  BY AllocInitially, MadeInitially
<1>2. AllocInv /\ MadeInv /\ [Next]_vars => (AllocInv /\ MadeInv)'
  BY AllocStays, MadeStays
<1>3. MadeInv => RulesObserved
  <2> SUFFICES ASSUME MadeInv, source.of = "string", HasRules(name.tz), IsZone(sp),
                      NEW x \in Moments(sp), First(sp) <= x, x <= Last(sp)
               PROVE  Clock([sp EXCEPT !.lsis = <<>>], x) = ByRule(name.tz, x)
    BY DEF RulesObserved
  <2> DEFINE tz == name.tz
             default == source.default
  <2>1. /\ IsText(tz) /\ tz.dst # NONE /\ Len(tz.rules) = 2
        /\ IsFile(default) /\ Immovable(default) /\ StringMade(sp, tz, default) /\ x \in Int
    BY DEF MadeInv, SoundSources, HasRules
  <2> HIDE DEF tz, default
  <2>2. Ruled(tz) /\ Observes(sp, tz)
    BY <2>1, StringObserves
  <2>3. DOMAIN sp = Fields
    <3>1. PICK start : DOMAIN start = Fields /\ sp = tzparse(tz, default, start).sp
      BY <2>1 DEF StringMade
    <3> QED BY <2>1, <3>1, StringMakes
  <2>4. Clock([sp EXCEPT !.lsis = <<>>], x) = ByRule(tz, x)
    BY <2>1, <2>2, <2>3, ClockByRule
  <2> QED BY <2>4 DEF tz
<1> QED BY <1>1, <1>2, <1>3, PTL DEF Spec

-----------------------------------------------------------------------------
(***************************************************************************)
(* The calendar repeats itself every 400 years ...                         *)
(***************************************************************************)
LEMMA YearsAgain ==
  ASSUME NEW y \in Int, NEW j \in Int
  PROVE  /\ y + 400 * j \in Int
         /\ YearStart(y + 400 * j) = YearStart(y) + 146097 * j /\ YearStart(y) \in Int
         /\ isleap(y + 400 * j) <=> isleap(y)
<1> DEFINE n == y - 1
           w == y + 400 * j
           m == w - 1
<1>1. n \in Int /\ w \in Int /\ m \in Int /\ m = n + 400 * j
  OBVIOUS
<1>2. m \div 4 = n \div 4 + 100 * j /\ m \div 100 = n \div 100 + 4 * j /\ m \div 400 = n \div 400 + j
  <2> HIDE DEF n, m
  <2> QED BY <1>1, SMT
<1>3. w % 4 = y % 4 /\ w % 100 = y % 100 /\ w % 400 = y % 400
  BY SMT
<1>4. isleap(w) <=> isleap(y)
  BY <1>3 DEF isleap
<1> HIDE DEF n, m, w
<1>5. /\ leaps_thru_end_of(n) = n \div 4 - n \div 100 + n \div 400
      /\ leaps_thru_end_of(m) = m \div 4 - m \div 100 + m \div 400
  <2>1. n \in Int /\ m \in Int
    BY <1>1
  <2> QED BY <2>1, LeapsCount, Zenon
<1>6. leaps_thru_end_of(m) = leaps_thru_end_of(n) + 97 * j /\ leaps_thru_end_of(n) \in Int
  <2>1. n \div 4 \in Int /\ n \div 100 \in Int /\ n \div 400 \in Int
    BY <1>1, SMT
  <2> DEFINE a == n \div 4
             b == n \div 100
             c == n \div 400
  <2>2. a \in Int /\ b \in Int /\ c \in Int /\ leaps_thru_end_of(n) = a - b + c
        /\ leaps_thru_end_of(m) = (a + 100 * j) - (b + 4 * j) + (c + j)
    BY <1>2, <1>5, <2>1
  <2> HIDE DEF a, b, c
  <2> QED BY <2>2
<1>7. leaps_thru_end_of(1969) \in Int
  <2>1. 1969 \in Int
    OBVIOUS
  <2> QED BY <2>1, LeapsStep
<1>8. /\ YearStart(y) = 365 * (y - 1970) + leaps_thru_end_of(n) - leaps_thru_end_of(1969)
      /\ YearStart(w) = 365 * (w - 1970) + leaps_thru_end_of(m) - leaps_thru_end_of(1969)
  BY DEF YearStart, n, m
<1>9. YearStart(w) = YearStart(y) + 146097 * j /\ YearStart(y) \in Int
  <2> DEFINE f == leaps_thru_end_of(n)
             g == leaps_thru_end_of(m)
             h == leaps_thru_end_of(1969)
             s == YearStart(y)
             t == YearStart(w)
  <2>1. f \in Int /\ g = f + 97 * j /\ h \in Int
        /\ s = 365 * (y - 1970) + f - h /\ t = 365 * (w - 1970) + g - h /\ w = y + 400 * j
    BY <1>6, <1>7, <1>8 DEF w
  <2> HIDE DEF f, g, h, s, t
  <2>2. s \in Int /\ t = s + 146097 * j
    BY <2>1, SMT
  <2> QED BY <2>2 DEF s, t
<1> QED BY <1>1, <1>4, <1>9 DEF w

(***************************************************************************)
(* ... and its days of the week with it, so that a rule names the same     *)
(* days ...                                                                *)
(***************************************************************************)
LEMMA RuleDaysAgain ==
  ASSUME NEW y \in Nat \ {0}, NEW j \in Nat, NEW rule, Numbered(rule)
  PROVE  /\ y + 400 * j \in Nat \ {0}
         /\ DayOfRule(y + 400 * j, rule) = DayOfRule(y, rule)
         /\ RuleDay(y + 400 * j, rule) = RuleDay(y, rule) + 146097 * j
<1> DEFINE w == y + 400 * j
<1>1. w \in Nat \ {0} /\ w \in Int /\ y \in Int /\ j \in Int
  OBVIOUS
<1>2. (isleap(w) <=> isleap(y)) /\ YearStart(w) = YearStart(y) + 146097 * j /\ YearStart(y) \in Int
  BY <1>1, YearsAgain
<1> HIDE DEF w
<1> DEFINE L(v) == isleap(v)
<1>9. (L(w) /\ L(y)) \/ (~L(w) /\ ~L(y))
  BY <1>2
<1>3. rule.form = JULIAN_DAY => DayOfRule(w, rule) = DayOfRule(y, rule)
  <2> SUFFICES ASSUME rule.form = JULIAN_DAY PROVE DayOfRule(w, rule) = DayOfRule(y, rule)
    OBVIOUS
  <2>1. \A v : DayOfRule(v, rule) = rule.nums[1] - 1 + (IF isleap(v) /\ rule.nums[1] >= 60 THEN 1 ELSE 0)
    BY Zenon DEF DayOfRule, JULIAN_DAY, DAY_OF_YEAR, MONTH_NTH_DAY_OF_WEEK
  <2>2. CASE L(w) /\ L(y)
    BY <2>1, <2>2
  <2>3. CASE ~L(w) /\ ~L(y)
    BY <2>1, <2>3
  <2> QED BY <1>9, <2>2, <2>3
<1>4. rule.form = DAY_OF_YEAR => DayOfRule(w, rule) = DayOfRule(y, rule)
  BY Zenon DEF DayOfRule, JULIAN_DAY, DAY_OF_YEAR, MONTH_NTH_DAY_OF_WEEK
<1>5. ASSUME rule.form = MONTH_NTH_DAY_OF_WEEK PROVE DayOfRule(w, rule) = DayOfRule(y, rule)
  <2> DEFINE m == rule.nums[1]
  <2>1. m \in 1 .. 12 /\ m - 1 \in 0 .. 12 /\ m - 1 \in Int /\ 1 \in Int
    BY <1>5 DEF Numbered, JULIAN_DAY, DAY_OF_YEAR, MONTH_NTH_DAY_OF_WEEK
  <2> HIDE DEF m
  <2> DEFINE l == m - 1
             d == 1
  <2>2. MonthTable(w, l) = MonthTable(y, l)
    <3>1. CASE L(w) /\ L(y)
      BY <3>1 DEF MonthTable
    <3>2. CASE ~L(w) /\ ~L(y)
      BY <3>2 DEF MonthTable
    <3> QED BY <1>9, <3>1, <3>2
  <2>3. MonthStart[<<w, l>>] = MonthStart[<<y, l>>]
    <3>1. l \in 0 .. 12
      BY <2>1
    <3> HIDE DEF l
    <3> QED BY <1>1, <2>2, <3>1, MonthStartTable
  <2>4. mon_lengths(w) = mon_lengths(y)
    <3>1. CASE L(w) /\ L(y)
      BY <3>1, Zenon DEF mon_lengths
    <3>2. CASE ~L(w) /\ ~L(y)
      BY <3>2, Zenon DEF mon_lengths
    <3> QED BY <1>9, <3>1, <3>2
  <2>5. FirstDayOfWeek(w, m) = FirstDayOfWeek(y, m)
    <3> DEFINE D == DayNumber(y, m, d)
               E == DayNumber(w, m, d)
    <3>1. FirstDayOfWeek(w, m) = DayOfTheWeek(E) /\ FirstDayOfWeek(y, m) = DayOfTheWeek(D)
      BY <1>1, <2>1, ZellerRight
    <3>2. E = D + 146097 * j /\ D \in Int
      <4>1. d \in Int
        OBVIOUS
      <4> HIDE DEF d
      <4>2. /\ D = YearStart(y) + MonthTable(y, l) + d - 1 /\ D \in Int
            /\ E = YearStart(w) + MonthTable(w, l) + d - 1 /\ E \in Int
        BY <1>1, <2>1, <4>1, DayNumberIs
      <4> DEFINE t == MonthTable(y, l)
                 s == YearStart(y)
      <4>3. D = s + t + d - 1 /\ E = s + 146097 * j + t + d - 1 /\ D \in Int /\ E \in Int /\ s \in Int
        BY <1>2, <2>2, <4>2
      <4>4. t \in Int
        <5>1. l \in 0 .. 12
          BY <2>1
        <5> HIDE DEF l
        <5>2. isleap(y) \in BOOLEAN \/ TRUE
          OBVIOUS
        <5> QED BY <1>1, <5>1 DEF MonthTable
      <4> HIDE DEF t, s, D, E
      <4> QED BY <1>1, <4>1, <4>3, <4>4, SMT
    <3> HIDE DEF D, E
    <3>3. (E + 4) % 7 = (D + 4) % 7
      <4> DEFINE a == D + 4
                 b == 20871 * j
                 q == a \div 7
                 r == a % 7
      <4>1. a \in Int /\ b \in Int /\ E + 4 = a + 7 * b
        BY <1>1, <3>2, SMT
      <4> HIDE DEF b
      <4>2. (a + 7 * b) % 7 = a % 7
        <5> HIDE DEF a
        <5> QED BY <4>1, SMT
      <4> QED BY <4>1, <4>2
    <3> QED BY <3>1, <3>3 DEF DayOfTheWeek, EPOCH_WDAY, DAYSPERWEEK
  <2>6. DayOfRule(w, rule) = DayOfRule(y, rule)
    <3>1. \A v : DayOfRule(v, rule) = MonthStart[<<v, l>>] + NthDayOfWeek(v, m, rule.nums[2], rule.nums[3])
      BY <1>5 DEF DayOfRule, JULIAN_DAY, DAY_OF_YEAR, MONTH_NTH_DAY_OF_WEEK, m
    <3>2. \A p, q : NthDayOfWeek(w, m, p, q) = NthDayOfWeek(y, m, p, q)
      BY <2>4, <2>5, Zenon DEF NthDayOfWeek
    <3> QED BY <2>3, <3>1, <3>2
  <2> QED BY <2>6
<1>6. DayOfRule(w, rule) = DayOfRule(y, rule)
  BY <1>3, <1>4, <1>5 DEF Numbered
<1>7. RuleDay(w, rule) = RuleDay(y, rule) + 146097 * j
  <2>1. DayOfRule(y, rule) \in Int
    <3>1. DayOfRule(y, rule) \in 0 .. 365
      BY <1>1, DayInYear
    <3> QED BY <3>1
  <2> DEFINE s == YearStart(y)
             t == YearStart(w)
             d == DayOfRule(y, rule)
  <2>2. RuleDay(w, rule) = t + d /\ RuleDay(y, rule) = s + d /\ s \in Int /\ d \in Int /\ t = s + 146097 * j
    BY <1>2, <1>6, <2>1 DEF RuleDay
  <2> HIDE DEF s, t, d
  <2> QED BY <1>1, <2>2
<1> QED BY <1>1, <1>6, <1>7 DEF w

(* Some times 400 years, in years and in seconds.                          *)
Centuries(j) == 400 * j
Span(j) == SECSPERREPEAT * j

(***************************************************************************)
(* ... and events come again.                                              *)
(***************************************************************************)
LEMMA EventsAgain ==
  ASSUME NEW tz, Ruled(tz), NEW k \in {1, 2}, NEW y \in Nat \ {0}, NEW j \in Nat
  PROVE  Event(tz, k, y + Centuries(j)) = Event(tz, k, y) + Span(j)
<1> DEFINE a == RuleDay(y, tz.rules[k])
           b == RuleDay(y + 400 * j, tz.rules[k])
           t == getrule(tz.rules[k]).time
           o == OffsetOf(tz, k)
           u == SECSPERDAY
<1>1. Numbered(tz.rules[k]) /\ t \in Int /\ o \in Int /\ u \in Int
  BY RuledParts, WeekIs
<1>2. b = a + 146097 * j
  <2> DEFINE rule == tz.rules[k]
  <2>1. Numbered(rule)
    BY <1>1
  <2> HIDE DEF rule
  <2>2. RuleDay(y + 400 * j, rule) = RuleDay(y, rule) + 146097 * j
    BY <2>1, RuleDaysAgain
  <2> QED BY <2>2 DEF rule
<1>3. a \in Int
  <2>1. y \in Int
    OBVIOUS
  <2> QED BY <1>1, <2>1, YearLater
<1>4. Event(tz, k, y) = u * a + t + o /\ Event(tz, k, y + 400 * j) = u * b + t + o
  BY DEF Event
<1>5. SECSPERREPEAT * j = (146097 * u) * j
  BY DEF SECSPERREPEAT
<1> DEFINE e == Event(tz, k, y)
           f == Event(tz, k, y + 400 * j)
           r == SECSPERREPEAT * j
<1>6. e = u * a + t + o /\ f = u * b + t + o /\ r = (146097 * u) * j
  BY <1>4, <1>5
<1> HIDE DEF a, b, t, o, u, e, f, r
<1>7. ASSUME NEW c \in Int, NEW d \in Int, NEW g \in Int PROVE c * (d + 146097 * g) = c * d + (146097 * c) * g
  BY SMT
<1>8. u * b = u * a + r
  BY <1>1, <1>2, <1>3, <1>6, <1>7
<1>9. u * a \in Int /\ r \in Int
  <2>1. 146097 * u \in Int
    BY <1>1
  <2> QED BY <1>1, <1>3, <1>6, <2>1, Products
<1> DEFINE p == u * a
           q == u * b
<1>10. p \in Int /\ q = p + r /\ e = p + t + o /\ f = q + t + o
  BY <1>6, <1>8, <1>9
<1> HIDE DEF p, q
<1>11. f = e + r
  BY <1>1, <1>9, <1>10
<1> QED BY <1>11 DEF e, f, r, Centuries, Span

(***************************************************************************)
(* These are numbers.                                                      *)
(***************************************************************************)
LEMMA Spans400 ==
  ASSUME NEW j \in Nat
  PROVE  Centuries(j) \in Nat /\ Span(j) \in Nat /\ (j > 0 => Span(j) >= SECSPERREPEAT)
<1>1. SECSPERREPEAT \in Nat
  BY Units
<1>2. ASSUME NEW a \in Nat, NEW b \in Nat PROVE a * b \in Nat /\ (b > 0 => a * b >= a)
  BY SMT
<1>3. SECSPERREPEAT * j \in Nat /\ (j > 0 => SECSPERREPEAT * j >= SECSPERREPEAT)
  BY <1>1, <1>2
<1> QED BY <1>3 DEF Centuries, Span

(***************************************************************************)
(* Years that are not next to each other have their events in order.       *)
(***************************************************************************)
LEMMA FarInOrder ==
  ASSUME NEW tz, Ruled(tz), NEW k \in {1, 2}, NEW l \in {1, 2}, NEW y \in Int, NEW z \in Int, y + 1 < z
  PROVE  Event(tz, k, y) < Event(tz, l, z)
<1> DEFINE u == SECSPERDAY
           s == YearStart(y)
           t == YearStart(z)
           e == Event(tz, k, y)
           f == Event(tz, l, z)
           n == y + 1
           m == YearStart(n)
<1>1. /\ e \in Int /\ f \in Int /\ s \in Int /\ t \in Int
      /\ e <= u * (s + 379) /\ u * (t - 8) <= f
  BY EventNear
<1>2. n \in Int /\ y < n /\ n < z
  OBVIOUS
<1>3. s + 365 <= m /\ m + 365 <= t /\ m \in Int
  <2> HIDE DEF n
  <2> QED BY <1>2, YearsInOrder
<1>4. u \in Nat \ {0}
  BY WeekIs
<1> DEFINE g == s + 379
           h == t - 8
<1>5. g \in Int /\ h \in Int /\ g < h
  <2> HIDE DEF s, t, m
  <2> QED BY <1>1, <1>3
<1>6. ASSUME NEW a \in Nat \ {0}, NEW b \in Int, NEW c \in Int, b < c
      PROVE  a * b \in Int /\ a * c \in Int /\ a * b < a * c
  BY <1>6, SMT
<1>7. e <= u * g /\ u * h <= f
  BY <1>1
<1> HIDE DEF u, s, t, e, f, g, h
<1>8. u * g \in Int /\ u * h \in Int /\ u * g < u * h
  BY <1>4, <1>5, <1>6
<1>9. e < f
  BY <1>1, <1>7, <1>8
<1> QED BY <1>9 DEF e, f

(***************************************************************************)
(* Those that are have, since a table of 400 years has shown all of them.  *)
(***************************************************************************)
LEMMA NextInOrder ==
  ASSUME NEW tz, Ruled(tz), TZ_MAX_TIMES >= 804, NEW k \in {1, 2}, NEW l \in {1, 2},
         NEW y \in Nat \ {0}, NEW z \in Nat \ {0}, z = y + 1 \/ (z = y /\ k # l)
  PROVE  /\ Event(tz, k, y) \in Int /\ Event(tz, l, z) \in Int
         /\ Event(tz, k, y) # Event(tz, l, z)
         /\ y < z => Event(tz, k, y) < Event(tz, l, z)
<1> DEFINE e == Event(tz, k, y)
           f == Event(tz, l, z)
<1>1. e \in Int /\ f \in Int /\ y \in Int /\ z \in Int
  <2>1. y \in Int /\ z \in Int
    OBVIOUS
  <2> QED BY <2>1, EventFound
<1>2. SECSPERREPEAT \in Int
  BY Units
<1>3. \A v \in Int : 1970 <= v /\ v <= 2369 => v \in TableYears
  <2>1. TZ_MAX_TIMES \div 2 >= 402
    BY SizeAssumption
  <2> QED BY <2>1, SizeAssumption DEF TableYears, EPOCH_YEAR
<1>4. CASE y <= 2369
  <2> DEFINE j == (2369 - y) \div 400
             v == y + Centuries(j)
             w == z + Centuries(j)
             r == Span(j)
  <2>1. j \in Nat /\ v \in Int /\ w \in Int /\ 1970 <= v /\ v <= 2369 /\ (w = v + 1 \/ (w = v /\ k # l))
    BY <1>1, <1>4, SMT DEF Centuries
  <2> HIDE DEF j
  <2>2. Event(tz, k, v) = e + r /\ Event(tz, l, w) = f + r
    BY <2>1, EventsAgain
  <2>3. r \in Int
    BY <2>1, Spans400
  <2> HIDE DEF v, w, r
  <2>4. v \in TableYears /\ (v < w \/ (v = w /\ k # l))
    BY <1>3, <2>1
  <2>5. Event(tz, k, v) # Event(tz, l, w) /\ (v < w => Event(tz, k, v) < Event(tz, l, w))
    BY <2>1, <2>4, EventsInOrder
  <2>6. y < z => v < w
    <3>1. Centuries(j) \in Int
      BY <2>1, Spans400
    <3> QED BY <1>1, <3>1 DEF v, w
  <2> HIDE DEF e, f
  <2>7. e # f /\ (y < z => e < f)
    BY <1>1, <2>2, <2>3, <2>5, <2>6
  <2> QED BY <1>1, <2>7 DEF e, f
<1>5. CASE y > 2369
  <2> DEFINE j == (y - 1970) \div 400
             v == y - Centuries(j)
             w == z - Centuries(j)
             r == Span(j)
  <2>1. /\ j \in Nat /\ v \in Nat \ {0} /\ w \in Nat \ {0} /\ 1970 <= v /\ v <= 2369
        /\ w = v + 1 \/ (w = v /\ k # l)
        /\ y = v + Centuries(j) /\ z = w + Centuries(j)
    BY <1>1, <1>5, SMT DEF Centuries
  <2> HIDE DEF j, v, w
  <2>2. e = Event(tz, k, v) + r /\ f = Event(tz, l, w) + r
    <3>1. Event(tz, k, v + Centuries(j)) = Event(tz, k, v) + r /\ Event(tz, l, w + Centuries(j)) = Event(tz, l, w) + r
      BY <2>1, EventsAgain
    <3> QED BY <2>1, <3>1
  <2>3. r \in Int
    BY <2>1, Spans400
  <2> HIDE DEF r
  <2>4. v \in TableYears /\ (v < w \/ (v = w /\ k # l)) /\ v \in Int /\ w \in Int
    BY <1>3, <2>1
  <2>5. Event(tz, k, v) # Event(tz, l, w) /\ (v < w => Event(tz, k, v) < Event(tz, l, w))
        /\ Event(tz, k, v) \in Int /\ Event(tz, l, w) \in Int
    BY <2>4, EventsInOrder
  <2>6. y < z => v < w
    BY <1>1, <2>1
  <2> DEFINE g == Event(tz, k, v)
             h == Event(tz, l, w)
  <2>7. g \in Int /\ h \in Int /\ e = g + r /\ f = h + r /\ g # h /\ (v < w => g < h)
    BY <2>2, <2>5
  <2> HIDE DEF e, f, g, h
  <2>8. e # f /\ (y < z => e < f)
    BY <1>1, <2>3, <2>6, <2>7
  <2> QED BY <1>1, <2>8 DEF e, f
<1> QED BY <1>1, <1>4, <1>5

(***************************************************************************)
(* So every year is in order.                                              *)
(***************************************************************************)
LEMMA AllInOrder ==
  ASSUME NEW tz, Ruled(tz), TZ_MAX_TIMES >= 804, NEW y \in Nat \ {0}
  PROVE  YearInOrder(tz, y)
<1>1. ASSUME NEW k \in {1, 2}, NEW l \in {1, 2}, NEW v \in Nat \ {0}, NEW w \in Nat \ {0}, v < w
      PROVE  Event(tz, k, v) < Event(tz, l, w)
  <2>1. CASE w = v + 1
    BY <1>1, <2>1, NextInOrder
  <2>2. CASE w # v + 1
    <3>1. v \in Int /\ w \in Int /\ v + 1 < w
      BY <1>1, <2>2
    <3> QED BY <3>1, FarInOrder
  <2> QED BY <2>1, <2>2
<1>2. ASSUME NEW k \in {1, 2}, NEW l \in {1, 2}, k # l
      PROVE  Event(tz, k, y) # Event(tz, l, y)
  BY <1>2, NextInOrder
<1> QED BY <1>1, <1>2 DEF YearInOrder

-----------------------------------------------------------------------------
(***************************************************************************)
(* The last event by an instant comes again 400 years later.               *)
(***************************************************************************)
LEMMA LastAgain ==
  ASSUME NEW tz, Ruled(tz), TZ_MAX_TIMES >= 804, NEW k \in {1, 2}, NEW y \in Nat \ {0}, NEW x \in Int,
         NEW j \in Nat
  PROVE  LastEvent(tz, k, y, x) <=> LastEvent(tz, k, y + Centuries(j), x + Span(j))
<1> DEFINE r == Span(j)
           v == y + Centuries(j)
           e == Event(tz, k, y)
           f == Event(tz, k, v)
<1>1. r \in Int /\ v \in Nat \ {0} /\ v \in Int /\ y \in Int /\ Centuries(j) \in Nat
  BY Spans400
<1>2. f = e + r
  BY EventsAgain
<1>3. e \in Int /\ f \in Int
  BY <1>1, EventFound
<1>4. ASSUME NEW l \in {1, 2}, NEW w \in Nat \ {0}
      PROVE  Event(tz, l, w) \in Int /\ Event(tz, l, w + Centuries(j)) = Event(tz, l, w) + r
             /\ w + Centuries(j) \in Nat \ {0}
  <2>1. w \in Int /\ w + Centuries(j) \in Nat \ {0}
    BY <1>1
  <2>2. Event(tz, l, w + Centuries(j)) = Event(tz, l, w) + r
    BY EventsAgain
  <2>3. Event(tz, l, w) \in Int
    BY <2>1, EventFound
  <2> QED BY <2>1, <2>2, <2>3, Zenon
<1>5. YearInOrder(tz, v)
  <2> HIDE DEF v
  <2> QED BY <1>1, AllInOrder
<1>6. ASSUME LastEvent(tz, k, y, x)
      PROVE  LastEvent(tz, k, v, x + r)
  <2>1. f <= x + r
    <3>1. e <= x
      BY <1>6 DEF LastEvent
    <3> HIDE DEF e, f, r
    <3> QED BY <1>1, <1>2, <1>3, <3>1
  <2>2. ASSUME NEW l \in {1, 2}, NEW w \in Nat \ {0}, Event(tz, l, w) <= x + r
        PROVE  Event(tz, l, w) <= f
    <3>1. CASE w > Centuries(j)
      <4> DEFINE p == w - Centuries(j)
                 g == Event(tz, l, p)
      <4>1. p \in Nat \ {0} /\ p + Centuries(j) = w
        BY <1>1, <3>1
      <4> HIDE DEF p
      <4>2. g \in Int /\ Event(tz, l, w) = g + r
        BY <1>4, <4>1
      <4>3. g <= x
        <5> HIDE DEF g, r
        <5> QED BY <1>1, <2>2, <4>2
      <4>4. g <= e
        BY <1>6, <4>1, <4>3 DEF LastEvent
      <4> HIDE DEF g, r, e, f
      <4> QED BY <1>1, <1>2, <1>3, <4>2, <4>4
    <3>2. CASE ~(w > Centuries(j))
      <4>1. w < v
        BY <1>1, <3>2
      <4>2. Event(tz, l, w) < f
        <5> HIDE DEF v
        <5> QED BY <1>5, <4>1 DEF YearInOrder
      <4>3. Event(tz, l, w) \in Int
        BY <1>4
      <4> HIDE DEF f
      <4> QED BY <1>3, <4>2, <4>3
    <3> QED BY <3>1, <3>2
  <2> HIDE DEF v, r
  <2> QED BY <2>1, <2>2 DEF LastEvent
<1>7. ASSUME LastEvent(tz, k, v, x + r)
      PROVE  LastEvent(tz, k, y, x)
  <2> HIDE DEF v
  <2>1. f <= x + r /\ \A w \in Nat \ {0}, l \in {1, 2} : Event(tz, l, w) <= x + r => Event(tz, l, w) <= f
    BY <1>7 DEF LastEvent
  <2>2. e <= x
    <3> HIDE DEF e, f, r
    <3> QED BY <1>1, <1>2, <1>3, <2>1
  <2>3. ASSUME NEW l \in {1, 2}, NEW w \in Nat \ {0}, Event(tz, l, w) <= x
        PROVE  Event(tz, l, w) <= e
    <3> DEFINE p == w + Centuries(j)
               g == Event(tz, l, w)
               h == Event(tz, l, p)
    <3>1. g \in Int /\ h = g + r /\ p \in Nat \ {0} /\ g <= x
      BY <1>4, <2>3
    <3> HIDE DEF p
    <3>2. h <= x + r => h <= f
      BY <2>1, <3>1
    <3> HIDE DEF e, f, g, h, r
    <3>3. g <= e
      BY <1>1, <1>2, <1>3, <3>1, <3>2
    <3> QED BY <3>3 DEF g
  <2> QED BY <2>2, <2>3 DEF LastEvent
<1> QED BY <1>6, <1>7 DEF v, r

(* The transitions of the string from the one to the other are behind the  *)
(* table t.                                                                *)
Behind(z, t, ts, from, to) ==
  /\ to \in 1 .. Len(ts.ats) /\ from \in 1 .. to
  /\ Len(z.ats) = Len(t.ats) + (to - from + 1)
  /\ \A i \in 1 .. Len(t.ats) : z.ats[i] = t.ats[i] /\ z.types[i] = t.types[i]
  /\ \A i \in from .. to : /\ z.ats[Len(t.ats) + (i - from + 1)] = ts.ats[i]
                           /\ z.types[Len(t.ats) + (i - from + 1)] = Len(t.ttis) + ts.types[i]
  /\ \A i \in 1 .. Len(t.ttis) : z.ttis[i] = t.ttis[i]
  /\ \A k \in {1, 2} : z.ttis[Len(t.ttis) + k] = ts.ttis[k]
  /\ \A i \in 1 .. Len(ts.ats) : ts.ats[i] > LastAt(t) <=> i >= from

(* What Extensible asks of a table.                                        *)
Room(t) ==
  /\ t.ats # <<>> => Last(t) >= FirstOfJanuary(EPOCH_YEAR + 2)
  /\ LastAt(t) < FirstOfJanuary(EPOCH_YEAR + TZ_MAX_TIMES \div 2 - 403)
  /\ Len(t.ats) + 803 <= TZ_MAX_TIMES

(***************************************************************************)
(* The table ends in one of the years of the rules that tzparse knows, and *)
(* 402 before the last.                                                    *)
(***************************************************************************)
LEMMA RoomIs ==
  ASSUME NEW t, Whole(t), Room(t)
  PROVE  /\ LastAt(t) \in Int /\ 0 <= LastAt(t) /\ TZ_MAX_TIMES \div 2 >= 404
         /\ t.ats # <<>> => SECSPERDAY * 730 <= LastAt(t) /\ LastAt(t) = t.ats[Len(t.ats)]
         /\ t.ats = <<>> => LastAt(t) = 0
         /\ Len(t.ats) \in Nat /\ (t.ats # <<>> <=> Len(t.ats) > 0)
         /\ \A i \in 1 .. Len(t.ats) : t.ats[i] \in Int
<1> DEFINE u == SECSPERDAY
           h == TZ_MAX_TIMES \div 2
           n == Len(t.ats)
           a == LastAt(t)
           b == FirstOfJanuary(EPOCH_YEAR + h - 403)
<1>1. n \in Nat /\ (t.ats # <<>> <=> n > 0) /\ \A i \in 1 .. n : t.ats[i] \in Int
  <2>1. t.ats \in Seq(Int)
    BY DEF Whole, Tables
  <2> QED BY <2>1, LenProperties, ElementOfSeq, EmptySeq
<1>2. u \in Nat \ {0}
  BY Units
<1>3. FirstOfJanuary(EPOCH_YEAR + 2) = u * 730
  <2> DEFINE w == EPOCH_YEAR + 2
             v == 1970
  <2>1. w \in Int /\ v \in Int /\ w - 1 = 1971 /\ v - 1 = 1969
    BY DEF EPOCH_YEAR
  <2>2. FirstOfJanuary(w) = u * YearStart(w)
    <3> HIDE DEF w
    <3> QED BY <2>1, YearsFollow
  <2>3. YearStart(w) = 730
    <3>1. YearStart(v) = 0
      <4>1. leaps_thru_end_of(1969) \in Int /\ 1970 - 1 = 1969
        BY LeapsStep
      <4> QED BY <4>1 DEF YearStart
    <3> DEFINE y == 1971
    <3>2. y \in Int /\ v + 1 = y /\ y + 1 = w
      BY DEF EPOCH_YEAR
    <3>3. ~isleap(v) /\ ~isleap(y)
      BY SMT DEF isleap
    <3> HIDE DEF v, y, w
    <3>4. YearStart(v + 1) = YearStart(v) + 365 + (IF isleap(v) THEN 1 ELSE 0)
      BY <2>1, YearsFollow
    <3>5. YearStart(y + 1) = YearStart(y) + 365 + (IF isleap(y) THEN 1 ELSE 0)
      BY <3>2, YearsFollow
    <3> QED BY <3>1, <3>2, <3>3, <3>4, <3>5
  <2> QED BY <2>2, <2>3
<1>4. u * 730 \in Nat
  BY <1>2
<1>5. (t.ats # <<>> => a = t.ats[n] /\ u * 730 <= a) /\ (t.ats = <<>> => a = 0) /\ a \in Int /\ 0 <= a
  <2>1. CASE t.ats = <<>>
    BY <2>1 DEF LastAt
  <2>2. CASE t.ats # <<>>
    <3>1. a = t.ats[n] /\ a >= FirstOfJanuary(EPOCH_YEAR + 2)
      BY <2>2 DEF LastAt, Last, Room
    <3>2. n \in 1 .. n
      BY <1>1, <2>2
    <3>3. t.ats[n] \in Int
      BY <1>1, <3>2
    <3> HIDE DEF a, n
    <3> QED BY <1>3, <1>4, <2>2, <3>1, <3>3
  <2> QED BY <2>1, <2>2
<1>6. h >= 404
  <2> SUFFICES ASSUME ~(h >= 404) PROVE FALSE
    OBVIOUS
  <2> DEFINE w == EPOCH_YEAR + h - 403
             v == 1970
  <2>1. h \in Int
    BY SizeAssumption
  <2>2. w \in Int /\ v \in Int /\ w <= v
    BY <2>1 DEF EPOCH_YEAR
  <2>3. b = u * YearStart(w)
    <3>1. b = FirstOfJanuary(w)
      OBVIOUS
    <3> HIDE DEF w, b
    <3> QED BY <2>2, <3>1, YearsFollow
  <2>4. YearStart(v) = 0
    <3>1. leaps_thru_end_of(1969) \in Int /\ 1970 - 1 = 1969
      BY LeapsStep
    <3> QED BY <3>1 DEF YearStart
  <2>5. YearStart(w) <= 0 /\ YearStart(w) \in Int
    <3> HIDE DEF w, v
    <3> QED BY <2>2, <2>4, YearByStart
  <2>6. ASSUME NEW c \in Nat \ {0}, NEW d \in Int, d <= 0 PROVE c * d <= 0 /\ c * d \in Int
    BY <2>6, SMT
  <2> DEFINE s == YearStart(w)
  <2>7. s \in Int /\ s <= 0 /\ b = u * s
    BY <2>3, <2>5
  <2> HIDE DEF s, b, u
  <2>8. b <= 0 /\ b \in Int
    BY <1>2, <2>6, <2>7
  <2>9. a < b
    BY DEF Room, b
  <2> HIDE DEF a
  <2> QED BY <1>5, <2>8, <2>9
<1> QED BY <1>1, <1>5, <1>6

(***************************************************************************)
(* An event 402 years before the last ones comes after the table.          *)
(***************************************************************************)
LEMMA EventBehind ==
  ASSUME NEW t, Whole(t), Room(t), NEW tz, Ruled(tz), NEW k \in {1, 2}
  PROVE  Event(tz, k, EPOCH_YEAR + TZ_MAX_TIMES \div 2 - 402) > LastAt(t)
<1> DEFINE u == SECSPERDAY
           h == TZ_MAX_TIMES \div 2
           y == EPOCH_YEAR + h - 403
           w == EPOCH_YEAR + h - 402
           r == YearStart(y)
           s == YearStart(w)
           e == Event(tz, k, w)
           a == LastAt(t)
<1>1. h \in Int
  BY SizeAssumption
<1>2. y \in Int /\ w \in Int /\ y < w
  BY <1>1 DEF EPOCH_YEAR
<1>3. a \in Int /\ a < FirstOfJanuary(y)
  BY RoomIs DEF Room
<1>4. u \in Nat \ {0}
  BY Units
<1> HIDE DEF h, y, w
<1>5. FirstOfJanuary(y) = u * r
  BY <1>2, YearsFollow
<1>6. r \in Int /\ s \in Int /\ r + 365 <= s
  BY <1>2, YearsInOrder
<1>7. e \in Int /\ u * (s - 8) <= e
  BY <1>2, EventNear
<1> DEFINE g == s - 8
<1>8. g \in Int /\ r < g /\ u * g <= e /\ a < u * r
  BY <1>3, <1>5, <1>6, <1>7
<1>9. ASSUME NEW c \in Nat \ {0}, NEW d \in Int, NEW f \in Int, d < f
      PROVE  c * d \in Int /\ c * f \in Int /\ c * d < c * f
  BY <1>9, SMT
<1> HIDE DEF u, r, s, e, a, g
<1>10. u * r \in Int /\ u * g \in Int /\ u * r < u * g
  BY <1>4, <1>6, <1>8, <1>9
<1>11. e > a
  BY <1>3, <1>7, <1>8, <1>10
<1> QED BY <1>11 DEF e, a, w, h

(***************************************************************************)
(* So more than 400 years of the rules come behind the table.              *)
(***************************************************************************)
LEMMA BehindComes ==
  ASSUME NEW t, Whole(t), Room(t), NEW ts, Whole(ts), Sorted(ts.ats),
         NEW tz, Ruled(tz), Observes(ts, tz)
  PROVE  \E from \in Nat, to \in Nat : Behind(Extended(t, ts), t, ts, from, to) /\ from + 802 <= to
<1> DEFINE w     == Extended(t, ts)
           from  == Following(ts, t)
           count == Min({Len(ts.ats) - from + 1, TZ_MAX_TIMES - Len(t.ats)})
           n     == Len(t.ats)
           m     == Len(ts.ats)
           k     == Len(t.ttis)
           h     == TZ_MAX_TIMES \div 2
           to    == from + count - 1
           a     == LastAt(t)
           v     == ts.ats
<1>1. n \in Nat /\ n + 803 <= TZ_MAX_TIMES /\ TZ_MAX_TIMES \in Nat /\ h \in Nat /\ h >= 404 /\ a \in Int
  BY RoomIs, SizeAssumption DEF Room
<1>2. m = 2 * h /\ Len(ts.ttis) = 2
  BY DEF Observes
<1>3. /\ from \in 1 .. m + 1 /\ count \in 0 .. m - from + 1
      /\ \A i \in from .. to : i \in 1 .. m /\ ts.ats[i] > a
  <2>1. n <= TZ_MAX_TIMES
    BY <1>1
  <2> QED BY <2>1, FollowingComes, Zenon
<1>4. (\A i \in 1 .. m : v[i] \in Int) /\ (\A i \in 1 .. m - 1 : v[i] < v[i + 1]) /\ m \in Nat
  <2>1. ts.ats \in Seq(Int)
    BY DEF Whole, Tables
  <2>2. \A i \in 1 .. m : ts.ats[i] \in Int
    BY <2>1, ElementOfSeq
  <2> QED BY <2>1, <2>2, LenProperties DEF Sorted
<1> DEFINE late == {i \in 1 .. m : v[i] > a}
<1>5. from \in late \cup {m + 1} /\ \A i \in late : from <= i
  <2>1. late \cup {m + 1} \in SUBSET Nat /\ late \cup {m + 1} # {}
    BY <1>4
  <2>2. from = Min(late \cup {m + 1})
    BY DEF Following
  <2> HIDE DEF late, from
  <2>3. from \in late \cup {m + 1} /\ \A i \in late \cup {m + 1} : from <= i
    BY <2>1, <2>2, LeastOne
  <2> QED BY <2>3
<1> HIDE DEF v
<1>6. 2 * h - 802 \in late
  <2> DEFINE i == 2 * h - 802
  <2>1. i \in 1 .. m /\ YearOf(i) = EPOCH_YEAR + h - 402
    <3> HIDE DEF h
    <3>1. i \in 1 .. m
      BY <1>1, <1>2
    <3>2. (i + 1) \div 2 = h - 401
      BY <1>1, SMT
    <3> HIDE DEF i
    <3> QED BY <1>1, <3>1, <3>2 DEF YearOf, EPOCH_YEAR
  <2>2. PICK l \in {1, 2} : v[i] = Event(tz, l, YearOf(i))
    <3> HIDE DEF i
    <3> QED BY <2>1 DEF Observes, v
  <2>3. v[i] > a
    BY <2>1, <2>2, EventBehind
  <2> HIDE DEF i, v, a
  <2>4. i \in late
    BY <2>1, <2>3
  <2> QED BY <2>4 DEF i
<1>7. from <= 2 * h - 802
  <2> HIDE DEF late, h, from
  <2> QED BY <1>5, <1>6
<1>8. count >= 803
  <2> DEFINE room == {m - from + 1, TZ_MAX_TIMES - n}
  <2> HIDE DEF h
  <2>1. m - from + 1 >= 803 /\ TZ_MAX_TIMES - n >= 803 /\ m - from + 1 \in Nat /\ TZ_MAX_TIMES - n \in Nat
    <3> HIDE DEF from, m, n
    <3> QED BY <1>1, <1>2, <1>3, <1>7
  <2>2. room \in SUBSET Nat /\ room # {}
    BY <2>1
  <2>3. count \in room
    <3>1. count = Min(room)
      OBVIOUS
    <3> HIDE DEF count, room
    <3> QED BY <2>2, <3>1, LeastOne
  <2> HIDE DEF count, from, m, n
  <2> QED BY <2>1, <2>3
<1> DEFINE ats   == SubSeq(ts.ats, from, from + count - 1)
           new   == SubSeq(ts.types, from, from + count - 1)
           types == [i \in 1 .. count |-> TypeBehind(t, new[i])]
           l     == Len(ts.ttis)
<1>9. Len(t.ats) <= TZ_MAX_TIMES
  BY <1>1
<1>10. ats \in Seq(Int) /\ Len(ats) = count /\ \A i \in 1 .. count : ats[i] = ts.ats[from + i - 1]
  BY <1>9, AppendedAts, ZenonT(90)
<1>11. \A i \in 1 .. count :
         types[i] = k + ts.types[from + i - 1] /\ types[i] \in k + 1 .. k + l /\ types[i] \in Nat
  BY <1>9, ExtendedIs, ZenonT(90)
<1>12. Len(w.ats) = n + count /\ \A i \in 1 .. n + count : w.ats[i] = IF i <= n THEN t.ats[i] ELSE ats[i - n]
  BY <1>9, ExtendedIs, ZenonT(90)
<1>13. \A i \in 1 .. n + count : w.types[i] = IF i <= n THEN t.types[i] ELSE types[i - n]
  BY <1>9, ExtendedIs, ZenonT(90)
<1>14. \A i \in 1 .. k + l : w.ttis[i] = IF i <= k THEN t.ttis[i] ELSE ts.ttis[i - k]
  BY <1>9, ExtendedIs, ZenonT(90)
<1> HIDE DEF late, from, count
<1>15. from \in Nat /\ to \in Nat /\ from + 802 <= to /\ to \in 1 .. m /\ from \in 1 .. to /\ count = to - from + 1
  <2> HIDE DEF m
  <2> QED BY <1>3, <1>4, <1>8
<1>16. \A i \in 1 .. m : v[i] > a <=> i >= from
  <2> SUFFICES ASSUME NEW i \in 1 .. m PROVE v[i] > a <=> i >= from
    OBVIOUS
  <2>1. CASE i < from
    <3>1. i \notin late
      <4> HIDE DEF late
      <4>1. i \in late => from <= i
        BY <1>5
      <4> QED BY <1>3, <2>1, <4>1
    <3> QED BY <1>3, <2>1, <3>1 DEF late
  <2>2. CASE ~(i < from)
    <3>1. from \in 1 .. m /\ i \in from .. m
      BY <1>3, <1>4, <2>2
    <3>2. v[from] <= v[i] /\ v[from] \in Int /\ v[i] \in Int
      BY <1>4, <3>1, Climbing
    <3>3. v[from] > a
      BY <1>3, <1>15 DEF v
    <3>4. v[i] > a
      <4> HIDE DEF a
      <4> QED BY <1>1, <3>2, <3>3
    <3> QED BY <1>3, <2>2, <3>4
  <2> QED BY <2>1, <2>2
<1>17. k \in Nat
  BY DEF Whole, Tables
<1> HIDE DEF w, n, m, k, ats, types, to
<1>18. \A i \in 1 .. n : w.ats[i] = t.ats[i] /\ w.types[i] = t.types[i]
  <2> SUFFICES ASSUME NEW i \in 1 .. n PROVE w.ats[i] = t.ats[i] /\ w.types[i] = t.types[i]
    OBVIOUS
  <2>1. i \in 1 .. n + count /\ i <= n
    BY <1>1, <1>15, <1>3, <1>4
  <2> QED BY <1>12, <1>13, <2>1
<1>19. \A i \in from .. to : w.ats[n + (i - from + 1)] = ts.ats[i] /\ w.types[n + (i - from + 1)] = k + ts.types[i]
  <2> SUFFICES ASSUME NEW i \in from .. to
               PROVE  w.ats[n + (i - from + 1)] = ts.ats[i] /\ w.types[n + (i - from + 1)] = k + ts.types[i]
    OBVIOUS
  <2> DEFINE p == i - from + 1
             q == n + p
  <2>1. p \in 1 .. count /\ q \in 1 .. n + count /\ ~(q <= n) /\ q - n = p /\ from + p - 1 = i
    BY <1>1, <1>15
  <2> HIDE DEF p, q
  <2>2. w.ats[q] = ats[p] /\ w.types[q] = types[p]
    BY <1>12, <1>13, <2>1
  <2>3. ats[p] = ts.ats[i] /\ types[p] = k + ts.types[i]
    BY <1>10, <1>11, <2>1
  <2> QED BY <2>2, <2>3 DEF p, q
<1>20. \A i \in 1 .. k : w.ttis[i] = t.ttis[i]
  <2> SUFFICES ASSUME NEW i \in 1 .. k PROVE w.ttis[i] = t.ttis[i]
    OBVIOUS
  <2>1. i \in 1 .. k + l /\ i <= k
    BY <1>2, <1>17
  <2> QED BY <1>14, <2>1
<1>21. \A j \in {1, 2} : w.ttis[k + j] = ts.ttis[j]
  <2> SUFFICES ASSUME NEW j \in {1, 2} PROVE w.ttis[k + j] = ts.ttis[j]
    OBVIOUS
  <2> DEFINE q == k + j
  <2>1. q \in 1 .. k + l /\ ~(q <= k) /\ q - k = j
    BY <1>2, <1>17
  <2> HIDE DEF q, l
  <2>2. w.ttis[q] = ts.ttis[q - k]
    BY <1>14, <2>1
  <2> QED BY <2>1, <2>2 DEF q
<1>22. Behind(w, t, ts, from, to)
  <2>1. Len(w.ats) = n + (to - from + 1)
    BY <1>15, <1>12
  <2> QED BY <1>15, <1>16, <1>18, <1>19, <1>20, <1>21, <2>1, Zenon DEF Behind, n, m, k, v, a
<1> QED BY <1>15, <1>22 DEF w

(* Transitions in order.                                                   *)
Rising(z) == Len(z.ats) \in Nat /\ (\A i \in 1 .. Len(z.ats) : z.ats[i] \in Int) /\ Sorted(z.ats)

(* The last of the first n that is not after x.                            *)
LastBy(v, n, p, x) == v[p] <= x /\ (p = n \/ x < v[p + 1])

(***************************************************************************)
(* The type is that of the last transition.                                *)
(***************************************************************************)
LEMMA PastIs ==
  ASSUME NEW z, Rising(z), NEW x \in Int, NEW p \in 1 .. Len(z.ats), LastBy(z.ats, Len(z.ats), p, x)
  PROVE  TypeAt(z, x) = z.types[p]
<1> DEFINE n == Len(z.ats)
           v == z.ats
           P == {i \in 1 .. n : v[i] <= x}
<1>1. n \in Nat /\ (\A i \in 1 .. n : v[i] \in Int) /\ (\A i \in 1 .. n - 1 : v[i] < v[i + 1])
  BY DEF Rising, Sorted
<1>2. p \in 1 .. n /\ v[p] <= x /\ (p = n \/ x < v[p + 1])
  BY DEF LastBy
<1>3. TypeAt(z, x) = IF Cardinality(P) = 0 THEN FirstType(z) ELSE z.types[Cardinality(P)]
  BY DEF TypeAt
<1> HIDE DEF n, v
<1>4. \A i \in 1 .. n : \A j \in i .. n : v[i] <= v[j]
  BY <1>1, Climbing
<1>5. P = 1 .. p
  <2>1. ASSUME NEW i \in 1 .. n PROVE v[i] <= x <=> i <= p
    <3>1. CASE i <= p
      <4>1. v[i] <= v[p] /\ v[i] \in Int /\ v[p] \in Int
        BY <1>1, <1>2, <1>4, <3>1
      <4> QED BY <1>2, <3>1, <4>1
    <3>2. CASE ~(i <= p)
      <4>1. p + 1 \in 1 .. n /\ i \in p + 1 .. n /\ p # n
        BY <1>1, <1>2, <3>2
      <4>2. v[p + 1] <= v[i] /\ v[i] \in Int /\ v[p + 1] \in Int /\ x < v[p + 1]
        BY <1>1, <1>2, <1>4, <4>1
      <4> QED BY <3>2, <4>2
    <3> QED BY <3>1, <3>2
  <2>2. P = {i \in 1 .. n : i <= p}
    BY <2>1
  <2>3. {i \in 1 .. n : i <= p} = 1 .. p
    BY <1>1, <1>2
  <2> QED BY <2>2, <2>3
<1>6. Cardinality(P) = p
  <2>1. Cardinality(1 .. p) = p
    BY <1>1, <1>2, FS_Interval
  <2> QED BY <1>5, <2>1
<1> QED BY <1>1, <1>2, <1>3, <1>6

(***************************************************************************)
(* Strictly.                                                               *)
(***************************************************************************)
LEMMA ClimbingOn ==
  ASSUME NEW n \in Nat, NEW v, \A i \in 1 .. n : v[i] \in Int, \A i \in 1 .. n - 1 : v[i] < v[i + 1],
         NEW i \in 1 .. n, NEW j \in 1 .. n
  PROVE  /\ i <= j => v[i] <= v[j]
         /\ i < j => v[i] < v[j]
         /\ v[i] <= v[j] => i <= j
         /\ v[i] < v[j] => i < j
<1>1. \A k \in 1 .. n : \A l \in k .. n : v[k] <= v[l]
  BY Climbing
<1>2. ASSUME NEW k \in 1 .. n, NEW l \in 1 .. n, k < l
      PROVE  v[k] < v[l]
  <2>1. k + 1 \in 1 .. n /\ k \in 1 .. n - 1 /\ l \in k + 1 .. n
    BY <1>2
  <2>2. v[k] < v[k + 1] /\ v[k + 1] <= v[l]
    BY <1>1, <2>1
  <2>3. v[k] \in Int /\ v[k + 1] \in Int /\ v[l] \in Int
    BY <2>1
  <2> QED BY <2>2, <2>3
<1>3. v[i] \in Int /\ v[j] \in Int
  OBVIOUS
<1>4. i = j \/ i < j \/ j < i
  OBVIOUS
<1> QED BY <1>2, <1>3, <1>4

(***************************************************************************)
(* Behind the table it is that of a transition of the rules.               *)
(***************************************************************************)
LEMMA PastRules ==
  ASSUME NEW z, Rising(z),
         NEW t, Len(t.ats) \in Nat, NEW ts, NEW from \in Nat, NEW to \in Nat, Behind(z, t, ts, from, to),
         NEW x \in Int, NEW p \in from .. to, LastBy(ts.ats, to, p, x)
  PROVE  TypeAt(z, x) = Len(t.ttis) + ts.types[p]
<1> DEFINE n == Len(t.ats)
           q == n + (p - from + 1)
<1>1. from \in 1 .. to /\ Len(z.ats) = n + (to - from + 1) /\ ts.ats[p] <= x /\ (p = to \/ x < ts.ats[p + 1])
  BY DEF Behind, LastBy
<1>2. z.ats[q] = ts.ats[p] /\ z.types[q] = Len(t.ttis) + ts.types[p]
  BY DEF Behind
<1>3. q \in 1 .. Len(z.ats) /\ (p = to => q = Len(z.ats))
  <2> DEFINE m == Len(z.ats)
  <2>1. n \in Nat /\ m = n + (to - from + 1)
    BY <1>1
  <2> HIDE DEF n, m
  <2>2. q \in 1 .. m /\ (p = to => q = m)
    BY <1>1, <2>1
  <2> QED BY <2>2 DEF m
<1>4. p # to => z.ats[q + 1] = ts.ats[p + 1]
  <2> SUFFICES ASSUME p # to PROVE z.ats[q + 1] = ts.ats[p + 1]
    OBVIOUS
  <2> DEFINE i == p + 1
  <2>1. i \in from .. to /\ n + (i - from + 1) = q + 1
    <3>1. n \in Nat
      OBVIOUS
    <3> HIDE DEF n
    <3> QED BY <1>1, <3>1
  <2> HIDE DEF i, q
  <2>2. z.ats[n + (i - from + 1)] = ts.ats[i]
    BY <2>1 DEF Behind
  <2> QED BY <2>1, <2>2 DEF i
<1> HIDE DEF q
<1>5. LastBy(z.ats, Len(z.ats), q, x)
  BY <1>1, <1>2, <1>3, <1>4 DEF LastBy
<1>6. TypeAt(z, x) = z.types[q]
  BY <1>3, <1>5, PastIs
<1> QED BY <1>2, <1>6

(***************************************************************************)
(* From the first of them to the last, it is that of the last event.       *)
(***************************************************************************)
LEMMA WithinRules ==
  ASSUME NEW z, Rising(z),
         NEW t, Len(t.ats) \in Nat, NEW ts, Rising(ts),
         NEW from \in Nat, NEW to \in Nat, Behind(z, t, ts, from, to),
         NEW tz, Ruled(tz), Observes(ts, tz), TZ_MAX_TIMES >= 2,
         NEW x \in Int, ts.ats[from] <= x, x <= ts.ats[to]
  PROVE  \E k \in {1, 2}, y \in TableYears : TypeAt(z, x) = Len(t.ttis) + k /\ LastEvent(tz, k, y, x)
<1> DEFINE m == Len(ts.ats)
           v == ts.ats
<1>1. m \in Nat /\ (\A i \in 1 .. m : v[i] \in Int) /\ (\A i \in 1 .. m - 1 : v[i] < v[i + 1])
  BY DEF Rising, Sorted
<1>2. to \in 1 .. m /\ from \in 1 .. to /\ from \in 1 .. m /\ 1 \in 1 .. m /\ m \in 1 .. m
  <2>1. to \in 1 .. m /\ from \in 1 .. to
    BY DEF Behind
  <2> HIDE DEF m
  <2> QED BY <1>1, <2>1
<1>3. First(ts) = v[1] /\ Last(ts) = v[m]
  BY DEF First, Last
<1>4. v[from] <= x /\ x <= v[to]
  OBVIOUS
<1>5. First(ts) <= x /\ x <= Last(ts)
  <2> HIDE DEF m, v
  <2> DEFINE a == 1
  <2>1. a \in 1 .. m /\ a <= from
    BY <1>2
  <2> HIDE DEF a
  <2>2. v[a] <= v[from]
    BY <1>1, <1>2, <2>1, ClimbingOn
  <2>3. to <= m
    BY <1>2
  <2>4. v[to] <= v[m]
    BY <1>1, <1>2, <2>3, ClimbingOn
  <2>5. v[a] \in Int /\ v[from] \in Int /\ v[to] \in Int /\ v[m] \in Int
    BY <1>1, <1>2, <2>1
  <2>6. v[a] <= x /\ x <= v[m]
    BY <1>4, <2>2, <2>4, <2>5
  <2> QED BY <1>3, <2>6 DEF a
<1>6. PICK k \in {1, 2}, y \in TableYears, p \in 1 .. m :
        /\ TypeAt(ts, x) = k /\ LastEvent(tz, k, y, x)
        /\ v[p] = Event(tz, k, y) /\ ts.types[p] = k
        /\ v[p] <= x /\ (p = m \/ x < v[p + 1])
  BY <1>5, TypeOfEvent DEF Rising
<1> HIDE DEF m, v
<1>7. p >= from
  <2> SUFFICES ASSUME p < from PROVE FALSE
    BY <1>1, <1>2
  <2> DEFINE q == p + 1
  <2>1. q \in 1 .. m /\ q <= from /\ p # m
    BY <1>1, <1>2
  <2>2. x < v[q]
    BY <1>6, <2>1
  <2> HIDE DEF q
  <2>3. v[q] <= v[from] /\ v[q] \in Int /\ v[from] \in Int
    BY <1>1, <1>2, <2>1, ClimbingOn
  <2> QED BY <1>4, <2>2, <2>3
<1>8. p <= to
  <2> SUFFICES ASSUME to < p PROVE FALSE
    BY <1>1, <1>2
  <2>1. v[to] < v[p] /\ v[to] \in Int /\ v[p] \in Int
    BY <1>1, <1>2, <1>6, ClimbingOn
  <2> QED BY <1>4, <1>6, <2>1
<1>9. p \in from .. to /\ (p = to \/ x < v[p + 1])
  BY <1>1, <1>2, <1>6, <1>7, <1>8
<1>10. LastBy(ts.ats, to, p, x)
  BY <1>6, <1>9 DEF v, LastBy
<1>11. TypeAt(z, x) = Len(t.ttis) + ts.types[p]
  BY <1>9, <1>10, PastRules
<1> QED BY <1>6, <1>11

(***************************************************************************)
(* The rules begin in the first 379 days.                                  *)
(***************************************************************************)
LEMMA FirstEvent ==
  ASSUME NEW tz, Ruled(tz), NEW k \in {1, 2}
  PROVE  Event(tz, k, 1970) \in Int /\ Event(tz, k, 1970) <= SECSPERDAY * 379
<1> DEFINE y == 1970
           s == YearStart(y)
           e == Event(tz, k, y)
<1>1. s = 0 /\ y \in Int
  <2>1. leaps_thru_end_of(1969) \in Int /\ 1970 - 1 = 1969
    BY LeapsStep
  <2> QED BY <2>1 DEF YearStart
<1> HIDE DEF y
<1>2. e \in Int /\ e <= SECSPERDAY * (s + 379)
  BY <1>1, EventNear
<1> HIDE DEF s, e
<1>3. e \in Int /\ e <= SECSPERDAY * 379
  BY <1>1, <1>2
<1> QED BY <1>3 DEF e, y

(***************************************************************************)
(* Between the table and the first of them nothing happens: the type is    *)
(* that of the end of the table, and the last event is the same.           *)
(***************************************************************************)
LEMMA BetweenThem ==
  ASSUME NEW z, Rising(z), NEW t, Rising(t), Whole(t), Room(t), t.ats # <<>>, NEW ts, Rising(ts),
         NEW from \in Nat, NEW to \in Nat, Behind(z, t, ts, from, to),
         NEW tz, Ruled(tz), Observes(ts, tz), TZ_MAX_TIMES >= 2,
         NEW x \in Int, LastAt(t) <= x, x < ts.ats[from]
  PROVE  /\ TypeAt(z, x) = t.types[Len(t.ats)] /\ TypeAt(t, LastAt(t)) = t.types[Len(t.ats)]
         /\ \E k \in {1, 2}, y \in TableYears : LastEvent(tz, k, y, x) /\ LastEvent(tz, k, y, LastAt(t))
<1> DEFINE n == Len(t.ats)
           m == Len(ts.ats)
           v == ts.ats
           a == LastAt(t)
           u == SECSPERDAY
<1>1. m \in Nat /\ (\A i \in 1 .. m : v[i] \in Int) /\ (\A i \in 1 .. m - 1 : v[i] < v[i + 1])
  BY DEF Rising, Sorted
<1>2. to \in 1 .. m /\ from \in 1 .. to /\ from \in 1 .. m /\ 1 \in 1 .. m /\ m \in 1 .. m
  <2>1. to \in 1 .. m /\ from \in 1 .. to
    BY DEF Behind
  <2> HIDE DEF m
  <2> QED BY <1>1, <2>1
<1>3. First(ts) = v[1] /\ Last(ts) = v[m] /\ a <= x /\ x < v[from]
  BY DEF First, Last
<1>4. /\ a \in Int /\ 0 <= a /\ u * 730 <= a /\ a = t.ats[n]
      /\ n \in Nat /\ n > 0 /\ \A i \in 1 .. n : t.ats[i] \in Int
  BY RoomIs
<1>5. TypeAt(t, a) = t.types[n]
  <2>1. n \in 1 .. n /\ LastBy(t.ats, n, n, a)
    BY <1>4 DEF LastBy
  <2> HIDE DEF a
  <2> QED BY <1>4, <2>1, PastIs
<1>6. TypeAt(z, x) = t.types[n]
  <2>1. n \in 1 .. n
    BY <1>4
  <2>2. z.ats[n] = t.ats[n] /\ z.types[n] = t.types[n]
    BY <2>1 DEF Behind
  <2> DEFINE g == Len(z.ats)
  <2>3. g = n + (to - from + 1) /\ from \in from .. to
    BY <1>2 DEF Behind
  <2>4. z.ats[n + 1] = ts.ats[from]
    <3>1. z.ats[n + (from - from + 1)] = ts.ats[from]
      BY <2>3 DEF Behind
    <3>2. from - from + 1 = 1
      OBVIOUS
    <3> QED BY <3>1, <3>2
  <2>5. n \in 1 .. g
    <3> HIDE DEF n, g
    <3> QED BY <1>2, <1>4, <2>3
  <2>6. LastBy(z.ats, g, n, x)
    BY <1>3, <1>4, <2>2, <2>4 DEF LastBy
  <2>7. TypeAt(z, x) = z.types[n]
    <3> HIDE DEF n
    <3> QED BY <2>5, <2>6, PastIs
  <2> QED BY <2>2, <2>7
<1>7. First(ts) <= x /\ x <= Last(ts)
  <2> DEFINE b == 1
  <2>1. b \in 1 .. m
    BY <1>2
  <2>2. PICK k \in {1, 2} : v[b] = Event(tz, k, YearOf(b))
    <3> HIDE DEF b
    <3> QED BY <2>1 DEF Observes
  <2> DEFINE e == Event(tz, k, YearOf(b))
  <2>3. YearOf(b) = 1970
    BY SMT DEF YearOf, EPOCH_YEAR
  <2>5. e \in Int /\ e <= u * 379
    BY <2>3, FirstEvent
  <2>6. u \in Nat
    BY Units
  <2>7. v[b] <= a
    <3>1. u * 379 <= u * 730
      BY <2>6
    <3>2. v[b] = e
      BY <2>2
    <3>3. u * 379 \in Int /\ u * 730 \in Int
      BY <2>6
    <3> HIDE DEF e, u, a, v
    <3> QED BY <1>4, <2>5, <3>1, <3>2, <3>3
  <2> HIDE DEF m, v
  <2>8. v[from] <= v[m]
    <3>1. from <= m
      BY <1>2
    <3> QED BY <1>1, <1>2, <3>1, ClimbingOn
  <2>9. v[b] \in Int /\ v[from] \in Int /\ v[m] \in Int
    BY <1>1, <1>2, <2>1
  <2> HIDE DEF b, a
  <2>10. v[b] <= x /\ x <= v[m]
    BY <1>3, <1>4, <2>7, <2>8, <2>9
  <2> QED BY <1>3, <2>10 DEF b
<1>8. PICK k \in {1, 2}, y \in TableYears, p \in 1 .. m :
        /\ TypeAt(ts, x) = k /\ LastEvent(tz, k, y, x)
        /\ v[p] = Event(tz, k, y) /\ ts.types[p] = k
        /\ v[p] <= x /\ (p = m \/ x < v[p + 1])
  BY <1>7, TypeOfEvent DEF Rising
<1>9. v[p] <= a
  <2>1. v[p] > a <=> p >= from
    BY DEF Behind
  <2> HIDE DEF m, v
  <2>2. v[p] < v[from] /\ v[p] \in Int /\ v[from] \in Int
    BY <1>1, <1>2, <1>3, <1>8
  <2>3. p < from
    BY <1>1, <1>2, <1>8, <2>2, ClimbingOn
  <2> HIDE DEF a
  <2> QED BY <1>2, <1>4, <1>8, <2>1, <2>2, <2>3
<1>10. LastEvent(tz, k, y, a)
  <2>1. ASSUME NEW w \in Nat \ {0}, NEW l \in {1, 2}, Event(tz, l, w) <= a
        PROVE  Event(tz, l, w) <= Event(tz, k, y)
    <3>1. w \in Int
      OBVIOUS
    <3>2. Event(tz, l, w) \in Int
      BY <3>1, EventFound
    <3>3. Event(tz, l, w) <= x
      <4> HIDE DEF a
      <4> QED BY <1>3, <1>4, <2>1, <3>2
    <3> QED BY <1>8, <3>3 DEF LastEvent
  <2>2. Event(tz, k, y) <= a
    BY <1>8, <1>9
  <2> QED BY <2>1, <2>2 DEF LastEvent
<1> QED BY <1>5, <1>6, <1>8, <1>10

-----------------------------------------------------------------------------
(***************************************************************************)
(* The last transition comes 400 years after another one of its type, and  *)
(* so does one after the first.                                            *)
(***************************************************************************)
LEMMA RulesAgain ==
  ASSUME NEW z, NEW t, NEW ts, Rising(ts), NEW from \in Nat, NEW to \in Nat, Behind(z, t, ts, from, to),
         from + 802 <= to, NEW tz, Ruled(tz), Observes(ts, tz), TZ_MAX_TIMES >= 804
  PROVE  /\ \E j \in from .. to - 1 : ts.ats[to] - ts.ats[j] = SECSPERREPEAT /\ ts.types[j] = ts.types[to]
         /\ \E j \in from + 1 .. to : ts.ats[j] - ts.ats[from] = SECSPERREPEAT /\ ts.types[from] = ts.types[j]
<1> DEFINE m == Len(ts.ats)
           v == ts.ats
           R == SECSPERREPEAT
<1>1. m \in Nat /\ (\A i \in 1 .. m : v[i] \in Int) /\ (\A i \in 1 .. m - 1 : v[i] < v[i + 1])
  BY DEF Rising, Sorted
<1>2. to \in 1 .. m /\ from \in 1 .. to /\ from \in 1 .. m
  <2>1. to \in 1 .. m /\ from \in 1 .. to
    BY DEF Behind
  <2> HIDE DEF m
  <2> QED BY <1>1, <2>1
<1>3. /\ \A i \in 1 .. m :
           YearOf(i) \in TableYears /\ \E k \in {1, 2} : v[i] = Event(tz, k, YearOf(i)) /\ ts.types[i] = k
      /\ \A y \in TableYears, k \in {1, 2} : \E i \in 1 .. m : v[i] = Event(tz, k, y)
  BY DEF Observes
<1> HIDE DEF m
<1>4. YearOf(from) + 401 <= YearOf(to)
  BY <1>2, SMT DEF YearOf, EPOCH_YEAR
<1>5. \A y \in Int : YearOf(from) <= y /\ y <= YearOf(to) => y \in TableYears
  BY <1>2, <1>3, SizeAssumption DEF TableYears, EPOCH_YEAR
<1>6. \A y \in TableYears : y \in Nat \ {0} /\ y \in Int
  BY SizeAssumption DEF TableYears, EPOCH_YEAR
<1>7. Centuries(1) = 400 /\ Span(1) = R /\ R \in Nat \ {0}
  <2>1. R \in Nat \ {0}
    BY Units
  <2>2. R * 1 = R
    BY <2>1
  <2> QED BY <2>1, <2>2 DEF Centuries, Span
<1> HIDE DEF R
(* Where an event is.                                                      *)
<1>8. ASSUME NEW y \in TableYears, NEW k \in {1, 2}
      PROVE  \E i \in 1 .. m : v[i] = Event(tz, k, y) /\ ts.types[i] = k /\ v[i] \in Int
  <2>1. PICK i \in 1 .. m : v[i] = Event(tz, k, y)
    BY <1>3
  <2> DEFINE w == YearOf(i)
  <2>2. PICK l \in {1, 2} : w \in TableYears /\ v[i] = Event(tz, l, w) /\ ts.types[i] = l
    BY <1>3
  <2> HIDE DEF w
  <2>3. w \in Nat \ {0} /\ y \in Nat \ {0} /\ w \in Int /\ y \in Int
    BY <1>6, <2>2
  <2>4. Event(tz, k, y) \in Int /\ Event(tz, l, w) = Event(tz, k, y)
    <3>1. Event(tz, k, y) \in Int
      BY <2>3, EventFound
    <3> QED BY <2>1, <2>2, <3>1
  <2>5. YearInOrder(tz, y)
    BY <2>3, AllInOrder
  <2>6. (w < y => Event(tz, l, w) < Event(tz, k, y)) /\ (y < w => Event(tz, k, y) < Event(tz, l, w))
    BY <2>3, <2>5 DEF YearInOrder
  <2>7. w = y
    BY <2>3, <2>4, <2>6
  <2>8. k = l
    <3>1. k # l => Event(tz, k, y) # Event(tz, l, y)
      BY <2>3, <2>5 DEF YearInOrder
    <3> QED BY <2>4, <2>7, <3>1
  <2> QED BY <1>1, <2>1, <2>2, <2>8
(* The order of places is that of years.                                   *)
<1>9. ASSUME NEW i \in 1 .. m, NEW j \in 1 .. m, NEW y \in TableYears, NEW w \in TableYears, y < w,
             NEW k \in {1, 2}, NEW l \in {1, 2}, v[i] = Event(tz, k, y), v[j] = Event(tz, l, w)
      PROVE  i < j
  <2>1. y \in Nat \ {0} /\ w \in Nat \ {0}
    BY <1>6
  <2>2. YearInOrder(tz, y)
    BY <2>1, AllInOrder
  <2>3. v[i] < v[j]
    BY <1>9, <2>1, <2>2 DEF YearInOrder
  <2> HIDE DEF v
  <2> QED BY <1>1, <2>3, ClimbingOn
<1>10. PICK k \in {1, 2} : v[to] = Event(tz, k, YearOf(to)) /\ ts.types[to] = k
  BY <1>2, <1>3
<1>11. PICK l \in {1, 2} : v[from] = Event(tz, l, YearOf(from)) /\ ts.types[from] = l
  BY <1>2, <1>3
<1> DEFINE y == YearOf(from)
           w == YearOf(to)
<1>12. y \in TableYears /\ w \in TableYears /\ y \in Int /\ w \in Int /\ y \in Nat \ {0} /\ y + 401 <= w
  BY <1>2, <1>3, <1>4, <1>6
<1>13. \E j \in from .. to - 1 : v[to] - v[j] = R /\ ts.types[j] = ts.types[to]
  <2> DEFINE e == w - 400
  <2>1. e \in TableYears /\ e \in Nat \ {0} /\ y < e /\ e < w /\ e + 400 = w
    <3>1. e \in Int /\ y < e /\ e < w /\ e + 400 = w
      <4> HIDE DEF y, w
      <4> QED BY <1>12
    <3>2. e \in TableYears
      BY <1>5, <1>12, <3>1
    <3> QED BY <1>6, <3>1, <3>2
  <2> HIDE DEF e
  <2>2. PICK j \in 1 .. m : v[j] = Event(tz, k, e) /\ ts.types[j] = k /\ v[j] \in Int
    BY <1>8, <2>1
  <2> HIDE DEF y, w
  <2>3. Event(tz, k, w) = Event(tz, k, e) + R
    <3> DEFINE c == 1
    <3>1. c \in Nat /\ Centuries(c) = 400 /\ Span(c) = R
      BY <1>7
    <3> HIDE DEF c
    <3>2. Event(tz, k, e + Centuries(c)) = Event(tz, k, e) + Span(c)
      BY <2>1, <3>1, EventsAgain
    <3> QED BY <2>1, <3>1, <3>2
  <2>4. v[to] - v[j] = R
    <3>1. v[to] = v[j] + R
      BY <1>10, <2>2, <2>3 DEF w
    <3> HIDE DEF v
    <3> QED BY <1>7, <2>2, <3>1
  <2>5. from < j
    BY <1>2, <1>9, <1>11, <1>12, <2>1, <2>2 DEF y
  <2>6. j < to
    BY <1>2, <1>9, <1>10, <1>12, <2>1, <2>2 DEF w
  <2>7. j \in from .. to - 1
    BY <1>2, <2>5, <2>6
  <2> QED BY <1>10, <2>2, <2>4, <2>7
<1>14. \E j \in from + 1 .. to : v[j] - v[from] = R /\ ts.types[from] = ts.types[j]
  <2> DEFINE e == y + 400
  <2>1. e \in TableYears /\ e \in Nat \ {0} /\ y < e /\ e < w
    <3>1. e \in Int /\ y < e /\ e < w
      <4> HIDE DEF y, w
      <4> QED BY <1>12
    <3>2. e \in TableYears
      BY <1>5, <1>12, <3>1
    <3> QED BY <1>6, <3>1, <3>2
  <2>2. Event(tz, l, e) = Event(tz, l, y) + R
    <3> DEFINE c == 1
    <3>1. c \in Nat /\ Centuries(c) = 400 /\ Span(c) = R
      BY <1>7
    <3> HIDE DEF c, y
    <3>2. Event(tz, l, y + Centuries(c)) = Event(tz, l, y) + Span(c)
      BY <1>12, <3>1, EventsAgain
    <3> QED BY <3>1, <3>2
  <2> HIDE DEF e
  <2>3. PICK j \in 1 .. m : v[j] = Event(tz, l, e) /\ ts.types[j] = l /\ v[j] \in Int
    BY <1>8, <2>1
  <2>4. v[j] - v[from] = R
    <3>1. v[j] = v[from] + R /\ v[from] \in Int
      BY <1>1, <1>2, <1>11, <2>2, <2>3
    <3> HIDE DEF v
    <3> QED BY <1>7, <2>3, <3>1
  <2> HIDE DEF y, w
  <2>5. from < j
    BY <1>2, <1>9, <1>11, <1>12, <2>1, <2>3 DEF y
  <2>6. j < to
    BY <1>2, <1>9, <1>10, <1>12, <2>1, <2>3 DEF w
  <2>7. j \in from + 1 .. to
    BY <1>2, <2>5, <2>6
  <2> QED BY <1>11, <2>3, <2>4, <2>7
<1> QED BY <1>13, <1>14 DEF R

(* Where localsub looks an instant up.                                     *)
SeenAt(z, x) == x + Cycles(z, x) * SECSPERREPEAT

(* Offsets shorter than a year.                                            *)
ShortOffsets(z) ==
  \A i \in 1 .. Len(z.ttis) :
    -(SECSPERDAY * DAYSPERNYEAR) <= z.ttis[i].gmtoff /\ z.ttis[i].gmtoff <= SECSPERDAY * DAYSPERNYEAR

(* What a clock shows in the type i.                                       *)
ShownIn(z, i) == [ahead |-> z.ttis[i].gmtoff, isdst |-> z.ttis[i].isdst]

(***************************************************************************)
(* A clock shows the offset of the type there.                             *)
(***************************************************************************)
LEMMA ClockSeen ==
  ASSUME NEW z, IsZone(z), z.lsis = <<>>, ShortOffsets(z), WideInts, NEW x \in Int, Moderate(x), Moderate(SeenAt(z, x))
  PROVE  Clock(z, x) = ShownIn(z, TypeAt(z, SeenAt(z, x)))
<1> DEFINE info == z.ttis[TypeAt(z, SeenAt(z, x))]
           b == localsub(z, x, NoTm).tm
<1>1. Len(z.lsis) = 0
  OBVIOUS
<1>2. SoundLeaps(z)
  BY <1>1 DEF SoundLeaps
<1>3. ModestOffsets(z)
  <2>1. Corrections(z) = {0}
    BY <1>1 DEF Corrections
  <2>2. \A i \in 1 .. Len(z.ttis) : z.ttis[i].gmtoff \in Int
    BY DEF IsZone
  <2> QED BY <2>1, <2>2 DEF ModestOffsets, ShortOffsets
<1>4. Correction(z, x) = 0 /\ Hits(z, x) = 0
  BY NoLeaps
<1>5. b.isdst = info.isdst /\ Counted(b, x + info.gmtoff, 0) /\ info.gmtoff \in Int
  <2> DEFINE tmp == NoTm
  <2> HIDE DEF tmp
  <2>1. localsub(z, x, tmp).ok
    <3>1. Moderate(x + Cycles(z, x) * SECSPERREPEAT)
      BY DEF SeenAt
    <3> QED BY <1>2, <1>3, <3>1, LocalsubAnswersMoved
  <2>2. PICK i \in 1 .. Len(z.ttis) :
          /\ localsub(z, x, tmp).tm.isdst = z.ttis[i].isdst
          /\ Counted(localsub(z, x, tmp).tm, x + z.ttis[i].gmtoff - Correction(z, x), Hits(z, x))
          /\ i = TypeAt(z, x + Cycles(z, x) * SECSPERREPEAT)
    BY <1>2, <2>1, LocalsubRight
  <2>3. z.ttis[i] = info /\ info.gmtoff \in Int
    BY <2>2 DEF IsZone, SeenAt
  <2> HIDE DEF info
  <2>4. x + z.ttis[i].gmtoff - Correction(z, x) = x + info.gmtoff
    BY <1>4, <2>3
  <2> QED BY <1>4, <2>2, <2>3, <2>4 DEF tmp
<1> HIDE DEF b, info
<1> DEFINE D == DayNumber(b.year + TM_YEAR_BASE, b.mon + 1, b.mday)
           s == x + info.gmtoff
           T == D * SECSPERDAY + b.hour * SECSPERHOUR + b.min * SECSPERMIN
<1>6. T \in Int /\ b.sec \in Int /\ T + b.sec = s
  <2>1. s \in Int /\ Counted(b, s, 0)
    BY <1>5
  <2> HIDE DEF s
  <2> QED BY <2>1, CountedByDay
<1>7. Clock(z, x) = [ahead |-> T + (b.sec - x), isdst |-> b.isdst]
  BY Zenon DEF Clock, b
<1> HIDE DEF T
<1>8. T + (b.sec - x) = info.gmtoff
  BY <1>5, <1>6
<1>9. Clock(z, x) = [ahead |-> info.gmtoff, isdst |-> info.isdst]
  BY <1>5, <1>7, <1>8, Zenon
<1> QED BY <1>9 DEF info, ShownIn

-----------------------------------------------------------------------------
(***************************************************************************)
(* In the table nothing is moved.                                          *)
(***************************************************************************)
LEMMA SeenThere ==
  ASSUME NEW z, NEW x \in Int, ~Beyond(z, x)
  PROVE  SeenAt(z, x) = x
<1>1. Cycles(z, x) = 0
  BY DEF Cycles
<1>2. 0 * SECSPERREPEAT = 0
  BY Units
<1> HIDE DEF Cycles
<1> QED BY <1>1, <1>2 DEF SeenAt

(***************************************************************************)
(* What comes after it is seen in its last 400 years.                      *)
(***************************************************************************)
LEMMA SeenEarlier ==
  ASSUME NEW z, IsZone(z), z.goahead, NEW x \in Int, Last(z) < x
  PROVE  /\ Last(z) \in Int /\ SeenAt(z, x) \in Int
         /\ Last(z) - SECSPERREPEAT < SeenAt(z, x) /\ SeenAt(z, x) <= Last(z)
         /\ \E c \in Nat : x = SeenAt(z, x) + Span(c)
<1> DEFINE R == SECSPERREPEAT
           a == First(z)
           b == Last(z)
           s == x - b - 1
           q == s \div R
           r == s % R
           c == q + 1
<1>1. a \in Int /\ b \in Int /\ a + R <= b
  BY CycleInTable
<1>2. R \in Nat \ {0}
  BY Units
<1>3. b < x
  OBVIOUS
<1>4. Cycles(z, x) = -((x - b - 1) \div R + 1)
  <2>1. Beyond(z, x)
    BY DEF Beyond
  <2>2. ~(x < a)
    <3> HIDE DEF a, b, R
    <3> QED BY <1>1, <1>2, <1>3
  <2> QED BY <2>1, <2>2 DEF Cycles
<1> HIDE DEF R, a, b
<1>5. s \in Int /\ s >= 0
  BY <1>1, <1>3
<1>6. q \in Int /\ r \in 0 .. R - 1 /\ s = R * q + r
  <2> HIDE DEF s
  <2> QED BY <1>2, <1>5, DivMod
<1>7. q >= 0
  <2>1. ASSUME NEW d \in Int, NEW e \in Nat \ {0}, d < 0 PROVE e * d <= -e /\ e * d \in Int
    BY <2>1, SMT
  <2> SUFFICES ASSUME ~(q >= 0) PROVE FALSE
    OBVIOUS
  <2> HIDE DEF q, r, s
  <2>2. R * q <= -R /\ R * q \in Int
    BY <1>2, <1>6, <2>1
  <2> DEFINE p == R * q
  <2>3. p <= -R /\ p \in Int /\ s = p + r
    BY <1>6, <2>2
  <2> HIDE DEF p
  <2> QED BY <1>2, <1>5, <1>6, <2>3
<1> HIDE DEF q, r
<1>8. Cycles(z, x) = -c /\ c \in Nat
  BY <1>4, <1>6, <1>7 DEF q
<1>9. (-c) * R = -(R * c) /\ R * c = R * q + R /\ R * q \in Int
  <2>1. ASSUME NEW d \in Int, NEW e \in Int PROVE (-(d + 1)) * e = -(e * (d + 1)) /\ e * (d + 1) = e * d + e /\ e * d \in Int
    BY SMT
  <2> QED BY <1>2, <1>6, <2>1
<1> DEFINE p == R * q
           g == R * c
           y == SeenAt(z, x)
<1>10. y = x - g /\ g = p + R /\ p \in Int /\ g \in Int /\ s = p + r
  <2>1. y = x + (-c) * R
    BY <1>8 DEF SeenAt, R
  <2> HIDE DEF c, s, y
  <2>2. y = x + (-g)
    BY <1>9, <2>1
  <2>3. g = p + R /\ p \in Int /\ s = p + r
    BY <1>6, <1>9
  <2> HIDE DEF p, g
  <2>4. g \in Int
    BY <1>2, <2>3
  <2> QED BY <2>2, <2>3, <2>4
<1>11. Span(c) = g
  BY DEF Span, R
<1> HIDE DEF p, g, y, c
<1>12. y \in Int /\ b - R < y /\ y <= b /\ x = y + g
  BY <1>1, <1>2, <1>6, <1>10
<1> QED BY <1>1, <1>8, <1>11, <1>12 DEF y, b, R

(***************************************************************************)
(* What comes before it is seen in its first ones.                         *)
(***************************************************************************)
LEMMA SeenLater ==
  ASSUME NEW z, IsZone(z), z.goback, NEW x \in Int, x < First(z)
  PROVE  /\ First(z) \in Int /\ SeenAt(z, x) \in Int
         /\ First(z) <= SeenAt(z, x) /\ SeenAt(z, x) < First(z) + SECSPERREPEAT
         /\ \E c \in Nat : SeenAt(z, x) = x + Span(c)
<1> DEFINE R == SECSPERREPEAT
           a == First(z)
           s == a - x - 1
           q == s \div R
           r == s % R
           c == q + 1
<1>1. a \in Int
  BY CycleInTable
<1>2. R \in Nat \ {0}
  BY Units
<1>3. x < a
  OBVIOUS
<1>4. Cycles(z, x) = (a - x - 1) \div R + 1
  BY DEF Beyond, Cycles
<1> HIDE DEF R, a
<1>5. s \in Int /\ s >= 0
  BY <1>1, <1>3
<1>6. q \in Int /\ r \in 0 .. R - 1 /\ s = R * q + r
  <2> HIDE DEF s
  <2> QED BY <1>2, <1>5, DivMod
<1>7. q >= 0
  <2>1. ASSUME NEW d \in Int, NEW e \in Nat \ {0}, d < 0 PROVE e * d <= -e /\ e * d \in Int
    BY <2>1, SMT
  <2> SUFFICES ASSUME ~(q >= 0) PROVE FALSE
    OBVIOUS
  <2> HIDE DEF q, r, s
  <2>2. R * q <= -R /\ R * q \in Int
    BY <1>2, <1>6, <2>1
  <2> DEFINE p == R * q
  <2>3. p <= -R /\ p \in Int /\ s = p + r
    BY <1>6, <2>2
  <2> HIDE DEF p
  <2> QED BY <1>2, <1>5, <1>6, <2>3
<1> HIDE DEF q, r
<1>8. Cycles(z, x) = c /\ c \in Nat
  BY <1>4, <1>6, <1>7 DEF q
<1>9. c * R = R * c /\ R * c = R * q + R /\ R * q \in Int
  <2>1. ASSUME NEW d \in Int, NEW e \in Int PROVE (d + 1) * e = e * (d + 1) /\ e * (d + 1) = e * d + e /\ e * d \in Int
    BY SMT
  <2> QED BY <1>2, <1>6, <2>1
<1> DEFINE p == R * q
           g == R * c
           y == SeenAt(z, x)
<1>10. y = x + g /\ g = p + R /\ p \in Int /\ g \in Int /\ s = p + r
  <2>1. y = x + c * R
    BY <1>8 DEF SeenAt, R
  <2> HIDE DEF c, s, y
  <2>2. y = x + g
    BY <1>9, <2>1
  <2>3. g = p + R /\ p \in Int /\ s = p + r
    BY <1>6, <1>9
  <2> HIDE DEF p, g
  <2>4. g \in Int
    BY <1>2, <2>3
  <2> QED BY <2>2, <2>3, <2>4
<1>11. Span(c) = g
  BY DEF Span, R
<1> HIDE DEF p, g, y, c
<1>12. y \in Int /\ a <= y /\ y < a + R /\ y = x + g
  BY <1>1, <1>2, <1>6, <1>10
<1> QED BY <1>1, <1>8, <1>11, <1>12 DEF y, a, R

(* A zone that repeats the rules behind its table.                         *)
RulesBehind(z, t, ts, from, to, tz) ==
  /\ IsZone(z) /\ z.lsis = <<>> /\ ShortOffsets(z) /\ Rising(z)
  /\ Whole(t) /\ Room(t) /\ Rising(t)
  /\ Rising(ts) /\ Ruled(tz) /\ Observes(ts, tz)
  /\ Behind(z, t, ts, from, to) /\ from + 802 <= to
  /\ z.goahead /\ (t.ats = <<>> => z.goback)

(* Where the rules begin and end in it.                                    *)
BetweenEnds(z, t, ts, from, to) ==
  /\ TZ_MAX_TIMES >= 804 /\ LastAt(t) \in Int /\ 0 <= LastAt(t) /\ Len(t.ats) \in Nat
  /\ from \in 1 .. Len(ts.ats) /\ to \in 1 .. Len(ts.ats) /\ Len(ts.ats) \in Nat
  /\ ts.ats[from] \in Int /\ ts.ats[to] \in Int
  /\ LastAt(t) < ts.ats[from] /\ Last(z) = ts.ats[to]
  /\ t.ats = <<>> => First(z) = ts.ats[from]
  /\ t.ats # <<>> => First(z) \in Int /\ First(z) <= LastAt(t)

(* The rules have a type there, and it is that of their last event.        *)
RuledAt(z, t, tz, x) ==
  \E k \in {1, 2}, y \in TableYears : TypeAt(z, x) = Len(t.ttis) + k /\ LastEvent(tz, k, y, x)

(***************************************************************************)
(* They begin behind the table, and end the zone.                          *)
(***************************************************************************)
LEMMA BeginAndEnd ==
  ASSUME NEW z, NEW t, NEW ts, NEW from \in Nat, NEW to \in Nat, NEW tz, RulesBehind(z, t, ts, from, to, tz)
  PROVE  BetweenEnds(z, t, ts, from, to)
<1> DEFINE n == Len(t.ats)
           m == Len(ts.ats)
           h == TZ_MAX_TIMES \div 2
<1>1. /\ LastAt(t) \in Int /\ 0 <= LastAt(t) /\ h >= 404
      /\ (t.ats # <<>> => LastAt(t) = t.ats[n]) /\ n \in Nat /\ (t.ats # <<>> <=> n > 0)
  BY RoomIs DEF RulesBehind
<1>2. TZ_MAX_TIMES >= 804
  BY <1>1, SizeAssumption
<1>3. /\ m \in Nat /\ (\A i \in 1 .. m : ts.ats[i] \in Int) /\ (\A i \in 1 .. n : t.ats[i] \in Int)
      /\ (\A i \in 1 .. m - 1 : ts.ats[i] < ts.ats[i + 1]) /\ (\A i \in 1 .. n - 1 : t.ats[i] < t.ats[i + 1])
  BY DEF RulesBehind, Rising, Sorted
<1>4. /\ to \in 1 .. m /\ from \in 1 .. to /\ Len(z.ats) = n + (to - from + 1)
      /\ (\A i \in 1 .. n : z.ats[i] = t.ats[i])
      /\ (\A i \in from .. to : z.ats[n + (i - from + 1)] = ts.ats[i])
      /\ (\A i \in 1 .. m : ts.ats[i] > LastAt(t) <=> i >= from)
  BY DEF RulesBehind, Behind
<1> HIDE DEF n, m
<1>5. from \in 1 .. m /\ from \in from .. to /\ to \in from .. to /\ from - from + 1 = 1
  BY <1>3, <1>4
<1>6. ts.ats[from] \in Int /\ ts.ats[to] \in Int /\ LastAt(t) < ts.ats[from]
  BY <1>1, <1>3, <1>4, <1>5
<1>7. Last(z) = ts.ats[to]
  BY <1>4, <1>5 DEF Last
<1>8. t.ats = <<>> => First(z) = ts.ats[from]
  <2> SUFFICES ASSUME t.ats = <<>> PROVE z.ats[1] = ts.ats[from]
    BY DEF First
  <2>1. n = 0
    BY <1>1
  <2>2. n + (from - from + 1) = 1
    BY <1>5, <2>1
  <2> QED BY <1>4, <1>5, <2>2
<1>9. t.ats # <<>> => First(z) \in Int /\ First(z) <= LastAt(t)
  <2> SUFFICES ASSUME t.ats # <<>> PROVE First(z) \in Int /\ First(z) <= LastAt(t)
    OBVIOUS
  <2> DEFINE i == 1
  <2>1. i \in 1 .. n /\ n \in 1 .. n /\ i <= n
    BY <1>1
  <2>2. First(z) = t.ats[i] /\ t.ats[i] \in Int
    BY <1>3, <1>4, <2>1 DEF First
  <2> HIDE DEF i
  <2>3. t.ats[i] <= t.ats[n]
    <3> DEFINE v == t.ats
    <3>1. (\A k \in 1 .. n : v[k] \in Int) /\ (\A k \in 1 .. n - 1 : v[k] < v[k + 1])
      BY <1>3
    <3> HIDE DEF v
    <3>2. v[i] <= v[n]
      BY <1>1, <2>1, <3>1, ClimbingOn
    <3> QED BY <3>2 DEF v
  <2> QED BY <1>1, <2>2, <2>3
<1> QED BY <1>1, <1>2, <1>3, <1>4, <1>5, <1>6, <1>7, <1>8, <1>9 DEF n, m, BetweenEnds

(* The type that localsub finds is that of the last event.                 *)
SeenByRule(z, t, tz, x) ==
  \E k \in {1, 2}, y \in Nat \ {0} :
    TypeAt(z, SeenAt(z, x)) = Len(t.ttis) + k /\ LastEvent(tz, k, y, x)

(***************************************************************************)
(* A clock in the type of the last event shows what the rules have it      *)
(* show.                                                                   *)
(***************************************************************************)
LEMMA ShownByRule ==
  ASSUME NEW z, NEW t, NEW ts, NEW from \in Nat, NEW to \in Nat, NEW tz, RulesBehind(z, t, ts, from, to, tz),
         WideInts, NEW x \in Int, 0 <= x, Moderate(x), Moderate(SeenAt(z, x)), SeenByRule(z, t, tz, x)
  PROVE  Clock(z, x) = ByRule(tz, x)
<1> PICK k \in {1, 2}, y \in Nat \ {0} : TypeAt(z, SeenAt(z, x)) = Len(t.ttis) + k /\ LastEvent(tz, k, y, x)
  BY DEF SeenByRule
<1>1. Ruled(tz) /\ TZ_MAX_TIMES >= 804 /\ x >= 0
  BY BeginAndEnd DEF RulesBehind, BetweenEnds
<1>2. YearInOrder(tz, y)
  BY <1>1, AllInOrder
<1>3. DstAt(tz, x) <=> k = 1
  BY <1>1, <1>2, DstByEvent
<1>4. ByRule(tz, x) = [ahead |-> IF k = 1 THEN -OffsetOf(tz, 2) ELSE -OffsetOf(tz, 1),
                       isdst |-> IF k = 1 THEN 1 ELSE 0]
  BY <1>1, <1>3, ByRuleIs
<1>5. Clock(z, x) = ShownIn(z, Len(t.ttis) + k)
  <2>1. IsZone(z) /\ z.lsis = <<>> /\ ShortOffsets(z)
    BY DEF RulesBehind
  <2> QED BY <2>1, ClockSeen
<1>6. z.ttis[Len(t.ttis) + k] = ts.ttis[k]
  BY DEF RulesBehind, Behind
<1>7. /\ ts.ttis[1].gmtoff = -OffsetOf(tz, 2) /\ ts.ttis[1].isdst = 1
      /\ ts.ttis[2].gmtoff = -OffsetOf(tz, 1) /\ ts.ttis[2].isdst = 0
  BY DEF RulesBehind, Observes
<1>8. ts.ttis[k].gmtoff = (IF k = 1 THEN -OffsetOf(tz, 2) ELSE -OffsetOf(tz, 1))
      /\ ts.ttis[k].isdst = (IF k = 1 THEN 1 ELSE 0)
  BY <1>7
<1> QED BY <1>4, <1>5, <1>6, <1>8 DEF ShownIn

(***************************************************************************)
(* Among the transitions of the rules.                                     *)
(***************************************************************************)
LEMMA AmongThem ==
  ASSUME NEW z, NEW t, NEW ts, NEW from \in Nat, NEW to \in Nat, NEW tz, RulesBehind(z, t, ts, from, to, tz),
         WideInts, TZ_MAX_TIMES <= INT_MAX,
         NEW x \in Int, ts.ats[from] <= x, x <= ts.ats[to]
  PROVE  Moderate(x) /\ RuledAt(z, t, tz, x)
<1>1. /\ Rising(z) /\ Len(t.ats) \in Nat /\ Rising(ts) /\ Behind(z, t, ts, from, to) /\ Ruled(tz) /\ Observes(ts, tz)
      /\ TZ_MAX_TIMES >= 804 /\ from \in 1 .. Len(ts.ats) /\ to \in 1 .. Len(ts.ats)
  BY BeginAndEnd DEF RulesBehind, BetweenEnds
<1>2. TZ_MAX_TIMES >= 2
  BY <1>1, SizeAssumption
<1>3. \E k \in {1, 2}, y \in TableYears : TypeAt(z, x) = Len(t.ttis) + k /\ LastEvent(tz, k, y, x)
  BY <1>1, <1>2, WithinRules
<1>4. \A i \in 1 .. Len(ts.ats) : \E y1 \in TableYears, k1 \in {1, 2} : ts.ats[i] = Event(tz, k1, y1)
  BY <1>1 DEF Observes
<1>5. PICK y1 \in TableYears, k1 \in {1, 2} : ts.ats[from] = Event(tz, k1, y1)
  BY <1>1, <1>4
<1>6. PICK y2 \in TableYears, k2 \in {1, 2} : ts.ats[to] = Event(tz, k2, y2)
  BY <1>1, <1>4
<1>7. Event(tz, k1, y1) <= x /\ x <= Event(tz, k2, y2)
  BY <1>5, <1>6
<1>8. Moderate(x)
  BY <1>1, <1>7, TableModerate
<1> QED BY <1>3, <1>8 DEF RuledAt

(***************************************************************************)
(* A year of the table is one of the numbers the events are of.            *)
(***************************************************************************)
LEMMA TableYearIs ==
  ASSUME NEW y \in TableYears
  PROVE  y \in Nat \ {0} /\ y \in Int /\ y >= 1970
<1> DEFINE h == TZ_MAX_TIMES \div 2
<1>1. h \in Int
  BY SizeAssumption
<1> HIDE DEF h
<1>2. y \in EPOCH_YEAR .. EPOCH_YEAR + h - 1
  BY DEF TableYears, h
<1> QED BY <1>1, <1>2 DEF EPOCH_YEAR

(***************************************************************************)
(* While the transitions of the rules last.                                *)
(***************************************************************************)
LEMMA RuledWithin ==
  ASSUME NEW z, NEW t, NEW ts, NEW from \in Nat, NEW to \in Nat, NEW tz, RulesBehind(z, t, ts, from, to, tz),
         WideInts, TZ_MAX_TIMES <= INT_MAX,
         NEW x \in Int, ts.ats[from] <= x, x <= ts.ats[to]
  PROVE  Clock(z, x) = ByRule(tz, x)
<1>1. /\ LastAt(t) \in Int /\ 0 <= LastAt(t) /\ ts.ats[from] \in Int /\ ts.ats[to] \in Int
      /\ LastAt(t) < ts.ats[from] /\ Last(z) = ts.ats[to]
      /\ (t.ats = <<>> => First(z) = ts.ats[from]) /\ (t.ats # <<>> => First(z) \in Int /\ First(z) <= LastAt(t))
  <2>1. BetweenEnds(z, t, ts, from, to)
    BY BeginAndEnd
  <2> QED BY <2>1 DEF BetweenEnds
<1>2. Moderate(x)
  BY AmongThem
<1>3. PICK k \in {1, 2}, y \in TableYears : TypeAt(z, x) = Len(t.ttis) + k /\ LastEvent(tz, k, y, x)
  <2>1. RuledAt(z, t, tz, x)
    BY AmongThem
  <2> QED BY <2>1 DEF RuledAt
<1>4. ~Beyond(z, x) /\ 0 <= x
  <2> DEFINE a == ts.ats[from]
             b == ts.ats[to]
             g == LastAt(t)
             f == First(z)
             l == Last(z)
  <2>1. /\ g \in Int /\ 0 <= g /\ a \in Int /\ b \in Int /\ g < a /\ l = b /\ a <= x /\ x <= b
        /\ (f = a \/ (f \in Int /\ f <= g))
    BY <1>1
  <2> HIDE DEF a, b, g, f, l
  <2>2. ~(x < f) /\ ~(x > l) /\ 0 <= x
    BY <2>1
  <2> QED BY <2>2 DEF Beyond, f, l
<1>5. SeenAt(z, x) = x
  BY <1>4, SeenThere
<1>6. y \in Nat \ {0}
  BY TableYearIs
<1>7. Moderate(SeenAt(z, x)) /\ SeenByRule(z, t, tz, x)
  BY <1>2, <1>3, <1>5, <1>6 DEF SeenByRule
<1> QED BY <1>2, <1>4, <1>7, ShownByRule

(***************************************************************************)
(* After the last one.                                                     *)
(***************************************************************************)
LEMMA RuledAfter ==
  ASSUME NEW z, NEW t, NEW ts, NEW from \in Nat, NEW to \in Nat, NEW tz, RulesBehind(z, t, ts, from, to, tz),
         WideInts, TZ_MAX_TIMES <= INT_MAX,
         NEW x \in Int, ts.ats[to] < x, Moderate(x)
  PROVE  Clock(z, x) = ByRule(tz, x)
<1> DEFINE a == ts.ats[from]
           b == ts.ats[to]
           R == SECSPERREPEAT
           s == SeenAt(z, x)
           g == LastAt(t)
<1>1. /\ g \in Int /\ 0 <= g /\ a \in Int /\ b \in Int /\ g < a /\ Last(z) = b /\ TZ_MAX_TIMES >= 804
      /\ from \in 1 .. Len(ts.ats) /\ to \in 1 .. Len(ts.ats) /\ Len(ts.ats) \in Nat
  <2>1. BetweenEnds(z, t, ts, from, to)
    BY BeginAndEnd
  <2> QED BY <2>1 DEF BetweenEnds
<1>2. IsZone(z) /\ z.goahead /\ Rising(ts) /\ Ruled(tz) /\ Observes(ts, tz) /\ Behind(z, t, ts, from, to) /\ from + 802 <= to
  BY DEF RulesBehind
<1>3. /\ s \in Int /\ b - R < s /\ s <= b
      /\ \E c \in Nat : x = s + Span(c)
  <2>1. Last(z) < x
    BY <1>1
  <2> QED BY <1>1, <1>2, <2>1, SeenEarlier
<1>4. PICK c \in Nat : x = s + Span(c)
  BY <1>3
<1>5. \E j \in from .. to - 1 : b - ts.ats[j] = R
  BY <1>1, <1>2, RulesAgain
<1>6. a <= b - R /\ R \in Nat
  <2> DEFINE m == Len(ts.ats)
             v == ts.ats
  <2>1. PICK j \in from .. to - 1 : b - v[j] = R
    BY <1>5
  <2>2. /\ m \in Nat /\ (\A i \in 1 .. m : v[i] \in Int) /\ (\A i \in 1 .. m - 1 : v[i] < v[i + 1])
    BY <1>1, <1>2 DEF Rising, Sorted
  <2>3. from \in 1 .. m /\ j \in 1 .. m /\ from <= j
    BY <1>1, <2>1, <2>2
  <2> HIDE DEF m, v
  <2>4. v[from] <= v[j] /\ v[j] \in Int
    BY <2>2, <2>3, ClimbingOn
  <2>5. R \in Nat
    BY Units
  <2>6. a = v[from]
    BY DEF v
  <2> HIDE DEF a, b, R
  <2> QED BY <1>1, <2>1, <2>4, <2>5, <2>6
<1> HIDE DEF R
<1>7. a <= s /\ s <= b /\ 0 <= x
  <2>1. b < x
    OBVIOUS
  <2> HIDE DEF a, b, s, g
  <2> QED BY <1>1, <1>3, <1>6, <2>1
<1> HIDE DEF s
<1>8. Moderate(s)
  BY <1>3, <1>7, AmongThem
<1>9. PICK k \in {1, 2}, y \in TableYears : TypeAt(z, s) = Len(t.ttis) + k /\ LastEvent(tz, k, y, s)
  <2>1. RuledAt(z, t, tz, s)
    BY <1>3, <1>7, AmongThem
  <2> QED BY <2>1 DEF RuledAt
<1> DEFINE w == y + Centuries(c)
<1>10. y \in Nat \ {0}
  BY TableYearIs
<1>11. w \in Nat \ {0}
  BY <1>10, Spans400
<1>12. LastEvent(tz, k, w, x)
  BY <1>1, <1>2, <1>3, <1>4, <1>9, <1>10, LastAgain
<1> HIDE DEF w
<1>13. Moderate(SeenAt(z, x)) /\ SeenByRule(z, t, tz, x)
  BY <1>8, <1>9, <1>11, <1>12 DEF s, SeenByRule
<1> QED BY <1>7, <1>13, ShownByRule

(***************************************************************************)
(* There is no event in the first year, after the epoch.                   *)
(***************************************************************************)
LEMMA YearOneIsPast ==
  ASSUME NEW tz, Ruled(tz), NEW k \in {1, 2}
  PROVE  Event(tz, k, 1) \in Int /\ Event(tz, k, 1) < 0
<1> DEFINE u == SECSPERDAY
           y == 1
           s == YearStart(y)
           d == s + 379
           e == Event(tz, k, y)
<1>1. y \in Int
  OBVIOUS
<1>2. 400 * s <= 146097 * (y - 1970) + 600
  <2> HIDE DEF y
  <2> QED BY <1>1, YearStartNear
<1>3. e \in Int /\ s \in Int /\ e <= u * d
  <2> HIDE DEF y
  <2> QED BY <1>1, EventNear
<1>4. u \in Nat \ {0}
  BY Units
<1>5. d \in Int /\ d < 0
  <2>1. y - 1970 = -1969
    OBVIOUS
  <2> HIDE DEF s, y
  <2> QED BY <1>2, <1>3, <2>1
<1>6. ASSUME NEW p \in Nat \ {0}, NEW q \in Int, q < 0 PROVE p * q \in Int /\ p * q < 0
  BY <1>6, SMT
<1> HIDE DEF u, d, e
<1>7. u * d \in Int /\ u * d < 0
  BY <1>4, <1>5, <1>6
<1>8. e < 0
  BY <1>3, <1>7
<1> QED BY <1>3, <1>8 DEF e

(***************************************************************************)
(* The last event before an instant 400 years or more after the epoch.     *)
(***************************************************************************)
LEMMA YearsEnough ==
  ASSUME NEW tz, Ruled(tz), TZ_MAX_TIMES >= 804, NEW k \in {1, 2}, NEW y \in Nat \ {0},
         NEW x \in Int, 0 <= x, NEW c \in Nat, LastEvent(tz, k, y, x + Span(c))
  PROVE  \E w \in Nat \ {0} : y = w + Centuries(c)
<1> DEFINE g == Centuries(c)
           l == 1
           v == 1
           w == v + g
           e == Event(tz, l, v)
           f == Event(tz, l, w)
<1>1. g \in Nat /\ Span(c) \in Nat
  BY Spans400
<1>2. l \in {1, 2} /\ v \in Nat \ {0}
  OBVIOUS
<1>3. e \in Int /\ e < 0
  <2>1. Event(tz, l, 1) \in Int /\ Event(tz, l, 1) < 0
    <3> HIDE DEF l
    <3> QED BY <1>2, YearOneIsPast
  <2> QED BY <2>1
<1>4. f = e + Span(c)
  <2> HIDE DEF l, v
  <2> QED BY <1>2, EventsAgain
<1>5. w \in Nat \ {0} /\ y \in Int /\ w \in Int
  BY <1>1
<1>6. f <= x + Span(c)
  <2> HIDE DEF e, f
  <2> QED BY <1>1, <1>3, <1>4
<1> HIDE DEF e, l
<1>7. f <= Event(tz, k, y)
  <2> HIDE DEF w
  <2> QED BY <1>2, <1>5, <1>6 DEF LastEvent
<1>8. f \in Int /\ Event(tz, k, y) \in Int
  <2> HIDE DEF w
  <2> QED BY <1>2, <1>5, EventNear
<1>9. ~(y < w)
  <2> SUFFICES ASSUME y < w PROVE FALSE
    OBVIOUS
  <2> HIDE DEF w
  <2>1. Event(tz, k, y) < f
    <3>1. CASE y + 1 < w
      BY <1>2, <1>5, <3>1, FarInOrder
    <3>2. CASE w = y + 1
      BY <1>2, <1>5, <3>2, NextInOrder
    <3> QED BY <1>5, <3>1, <3>2
  <2> HIDE DEF f
  <2> QED BY <1>7, <1>8, <2>1
<1>10. y - g \in Nat \ {0} /\ y = (y - g) + g
  BY <1>1, <1>9
<1> QED BY <1>10

(* No transition, and so none before the rules.                            *)
Bare(t) == t.ats = <<>>

(***************************************************************************)
(* Before the first one, if there are no others before it.                 *)
(***************************************************************************)
LEMMA RuledBefore ==
  ASSUME NEW z, NEW t, NEW ts, NEW from \in Nat, NEW to \in Nat, NEW tz, RulesBehind(z, t, ts, from, to, tz),
         WideInts, TZ_MAX_TIMES <= INT_MAX, Bare(t),
         NEW x \in Int, 0 <= x, x < ts.ats[from], Moderate(x)
  PROVE  Clock(z, x) = ByRule(tz, x)
<1> DEFINE a == ts.ats[from]
           b == ts.ats[to]
           R == SECSPERREPEAT
           s == SeenAt(z, x)
<1>1. /\ a \in Int /\ b \in Int /\ First(z) = a /\ TZ_MAX_TIMES >= 804
      /\ from \in 1 .. Len(ts.ats) /\ to \in 1 .. Len(ts.ats) /\ Len(ts.ats) \in Nat
  <2>1. BetweenEnds(z, t, ts, from, to)
    BY BeginAndEnd
  <2> QED BY <2>1 DEF BetweenEnds, Bare
<1>2. /\ IsZone(z) /\ z.goback /\ Rising(ts) /\ Ruled(tz) /\ Observes(ts, tz)
      /\ Behind(z, t, ts, from, to) /\ from + 802 <= to
  BY DEF RulesBehind, Bare
<1>3. /\ s \in Int /\ a <= s /\ s < a + R
      /\ \E c \in Nat : s = x + Span(c)
  <2>1. x < First(z)
    BY <1>1
  <2> QED BY <1>1, <1>2, <2>1, SeenLater
<1>4. PICK c \in Nat : s = x + Span(c)
  BY <1>3
<1>5. \E j \in from + 1 .. to : ts.ats[j] - a = R
  BY <1>1, <1>2, RulesAgain
<1>6. a + R <= b /\ R \in Nat
  <2> DEFINE m == Len(ts.ats)
             v == ts.ats
  <2>1. PICK j \in from + 1 .. to : v[j] - a = R
    BY <1>5
  <2>2. /\ m \in Nat /\ (\A i \in 1 .. m : v[i] \in Int) /\ (\A i \in 1 .. m - 1 : v[i] < v[i + 1])
    BY <1>1, <1>2 DEF Rising, Sorted
  <2>3. to \in 1 .. m /\ j \in 1 .. m /\ j <= to
    BY <1>1, <2>1, <2>2
  <2> HIDE DEF m, v
  <2>4. v[j] <= v[to] /\ v[j] \in Int
    BY <2>2, <2>3, ClimbingOn
  <2>5. R \in Nat
    BY Units
  <2>6. b = v[to]
    BY DEF v
  <2> HIDE DEF a, b, R
  <2> QED BY <1>1, <2>1, <2>4, <2>5, <2>6
<1> HIDE DEF R
<1>7. a <= s /\ s <= b
  <2> HIDE DEF a, b, s
  <2> QED BY <1>1, <1>3, <1>6
<1> HIDE DEF s
<1>8. Moderate(s)
  BY <1>3, <1>7, AmongThem
<1>9. PICK k \in {1, 2}, y \in TableYears : TypeAt(z, s) = Len(t.ttis) + k /\ LastEvent(tz, k, y, s)
  <2>1. RuledAt(z, t, tz, s)
    BY <1>3, <1>7, AmongThem
  <2> QED BY <2>1 DEF RuledAt
<1>10. y \in Nat \ {0}
  BY TableYearIs
<1>11. LastEvent(tz, k, y, x + Span(c))
  BY <1>4, <1>9
<1>12. PICK w \in Nat \ {0} : y = w + Centuries(c)
  BY <1>1, <1>2, <1>10, <1>11, YearsEnough
<1>13. LastEvent(tz, k, w, x)
  <2>1. LastEvent(tz, k, w + Centuries(c), x + Span(c))
    BY <1>11, <1>12
  <2> QED BY <1>1, <1>2, <2>1, LastAgain
<1>14. Moderate(SeenAt(z, x)) /\ SeenByRule(z, t, tz, x)
  BY <1>8, <1>9, <1>13 DEF s, SeenByRule
<1> QED BY <1>14, ShownByRule

(***************************************************************************)
(* What the rules show depends on the last event only.                     *)
(***************************************************************************)
LEMMA SameByRule ==
  ASSUME NEW tz, Ruled(tz), TZ_MAX_TIMES >= 804, NEW k \in {1, 2}, NEW y \in TableYears,
         NEW x \in Int, LastEvent(tz, k, y, x), NEW a \in Int, LastEvent(tz, k, y, a)
  PROVE  ByRule(tz, x) = ByRule(tz, a)
<1>1. y \in Nat \ {0} /\ y >= 1970
  BY TableYearIs
<1>2. YearInOrder(tz, y)
  BY <1>1, AllInOrder
<1>3. (DstAt(tz, x) <=> k = 1) /\ (DstAt(tz, a) <=> k = 1)
  BY <1>1, <1>2, DstByEvent
<1> QED BY <1>3 DEF ByRule

(* The last transition of the table is what the rules have it be.          *)
EndsByRule(t, tz) == t.ats # <<>> => ShownIn(t, t.types[Len(t.ats)]) = ByRule(tz, LastAt(t))

(***************************************************************************)
(* Between the table and the rules.                                        *)
(***************************************************************************)
LEMMA RuledBetween ==
  ASSUME NEW z, NEW t, NEW ts, NEW from \in Nat, NEW to \in Nat, NEW tz, RulesBehind(z, t, ts, from, to, tz),
         WideInts, TZ_MAX_TIMES <= INT_MAX, t.ats # <<>>, EndsByRule(t, tz),
         NEW x \in Int, LastAt(t) <= x, x < ts.ats[from], Moderate(x)
  PROVE  Clock(z, x) = ByRule(tz, x)
<1> DEFINE n == Len(t.ats)
           i == t.types[n]
           a == LastAt(t)
<1>1. BetweenEnds(z, t, ts, from, to)
  BY BeginAndEnd
<1>2. /\ TZ_MAX_TIMES >= 804 /\ a \in Int /\ Last(z) = ts.ats[to]
      /\ First(z) \in Int /\ First(z) <= a /\ n \in Nat
      /\ ts.ats[from] \in Int /\ ts.ats[to] \in Int
      /\ from \in 1 .. Len(ts.ats) /\ to \in 1 .. Len(ts.ats) /\ Len(ts.ats) \in Nat
  BY <1>1 DEF BetweenEnds
<1>3. /\ IsZone(z) /\ z.lsis = <<>> /\ ShortOffsets(z) /\ Rising(z) /\ Rising(t) /\ Whole(t) /\ Room(t) /\ Rising(ts)
      /\ Behind(z, t, ts, from, to) /\ Ruled(tz) /\ Observes(ts, tz) /\ from + 802 <= to
  BY DEF RulesBehind
<1>4. TZ_MAX_TIMES >= 2
  BY <1>2, SizeAssumption
<1>5. TypeAt(z, x) = i
  BY <1>3, <1>4, BetweenThem
<1>6. PICK k \in {1, 2}, y \in TableYears : LastEvent(tz, k, y, x) /\ LastEvent(tz, k, y, a)
  BY <1>3, <1>4, BetweenThem
<1>7. ByRule(tz, x) = ByRule(tz, a)
  <2> HIDE DEF a
  <2> QED BY <1>2, <1>3, <1>6, SameByRule
<1>8. ts.ats[from] <= ts.ats[to]
  <2> DEFINE m == Len(ts.ats)
             v == ts.ats
  <2>1. /\ m \in Nat /\ (\A j \in 1 .. m : v[j] \in Int) /\ (\A j \in 1 .. m - 1 : v[j] < v[j + 1])
    BY <1>3 DEF Rising, Sorted
  <2>2. from \in 1 .. m /\ to \in 1 .. m /\ from <= to
    BY <1>2, <1>3
  <2> HIDE DEF m, v
  <2>3. v[from] <= v[to]
    BY <2>1, <2>2, ClimbingOn
  <2> QED BY <2>3 DEF v
<1>9. ~Beyond(z, x)
  <2> DEFINE b == ts.ats[from]
             c == ts.ats[to]
             f == First(z)
             l == Last(z)
  <2>1. /\ a \in Int /\ l = c /\ f \in Int /\ f <= a /\ b \in Int /\ c \in Int /\ b <= c /\ a <= x /\ x < b
    BY <1>2, <1>8
  <2> HIDE DEF a, b, c, f, l
  <2>2. ~(x < f) /\ ~(x > l)
    BY <2>1
  <2> QED BY <2>2 DEF Beyond, f, l
<1>10. SeenAt(z, x) = x
  BY <1>9, SeenThere
<1>11. Clock(z, x) = ShownIn(z, i)
  <2>1. Moderate(SeenAt(z, x)) /\ TypeAt(z, SeenAt(z, x)) = i
    BY <1>5, <1>10
  <2>2. Clock(z, x) = ShownIn(z, TypeAt(z, SeenAt(z, x)))
    BY <1>3, <2>1, ClockSeen
  <2> QED BY <2>1, <2>2
<1>12. i \in 1 .. Len(t.ttis)
  <2>1. n \in 1 .. n
    <3>1. n > 0
      BY <1>3, RoomIs
    <3> HIDE DEF n
    <3> QED BY <1>2, <3>1
  <2> QED BY <1>3, <2>1 DEF Whole, Tables
<1>13. z.ttis[i] = t.ttis[i]
  BY <1>3, <1>12 DEF Behind
<1>14. ShownIn(z, i) = ShownIn(t, i)
  BY <1>13 DEF ShownIn
<1> QED BY <1>7, <1>11, <1>14 DEF EndsByRule

(***************************************************************************)
(* From the end of the table on such a zone follows the rules.             *)
(***************************************************************************)
LEMMA FollowsRules ==
  ASSUME NEW z, NEW t, NEW ts, NEW from \in Nat, NEW to \in Nat, NEW tz, RulesBehind(z, t, ts, from, to, tz),
         WideInts, TZ_MAX_TIMES <= INT_MAX, EndsByRule(t, tz),
         NEW x \in Int, LastAt(t) <= x, Moderate(x)
  PROVE  Clock(z, x) = ByRule(tz, x)
<1> DEFINE a == LastAt(t)
           b == ts.ats[from]
           c == ts.ats[to]
<1>1. BetweenEnds(z, t, ts, from, to)
  BY BeginAndEnd
<1>2. a \in Int /\ 0 <= a /\ b \in Int /\ c \in Int
  BY <1>1 DEF BetweenEnds
<1>3. 0 <= x
  <2>1. a <= x
    OBVIOUS
  <2> HIDE DEF a
  <2> QED BY <1>2, <2>1
<1>4. ts.ats[from] <= x /\ x <= ts.ats[to] => Clock(z, x) = ByRule(tz, x)
  BY RuledWithin
<1>5. ts.ats[to] < x => Clock(z, x) = ByRule(tz, x)
  BY RuledAfter
<1>6. Bare(t) /\ x < ts.ats[from] => Clock(z, x) = ByRule(tz, x)
  BY <1>3, RuledBefore
<1>7. t.ats # <<>> /\ x < ts.ats[from] => Clock(z, x) = ByRule(tz, x)
  BY RuledBetween
<1>8. (b <= x /\ x <= c) \/ c < x \/ x < b
  <2> HIDE DEF b, c
  <2> QED BY <1>2
<1> QED BY <1>4, <1>5, <1>6, <1>7, <1>8 DEF Bare

(***************************************************************************)
(* More of something.                                                      *)
(***************************************************************************)
LEMMA Grows ==
  ASSUME NEW b \in Nat \ {0}, NEW c \in Int, NEW d \in Int, c < d
  PROVE  b * c \in Int /\ b * d \in Int /\ b * c < b * d
BY SMT

(***************************************************************************)
(* It does not depend on the flags.                                        *)
(***************************************************************************)
LEMMA BehindSame ==
  ASSUME NEW w, NEW t, NEW ts, NEW from, NEW to, Behind(w, t, ts, from, to),
         NEW z, z.ats = w.ats, z.types = w.types, z.ttis = w.ttis
  PROVE  Behind(z, t, ts, from, to)
<1>1. /\ to \in 1 .. Len(ts.ats) /\ from \in 1 .. to
      /\ \A i \in 1 .. Len(ts.ats) : ts.ats[i] > LastAt(t) <=> i >= from
  BY DEF Behind
<1>2. Len(z.ats) = Len(t.ats) + (to - from + 1)
  BY DEF Behind
<1>3. \A i \in 1 .. Len(t.ats) : z.ats[i] = t.ats[i] /\ z.types[i] = t.types[i]
  BY Zenon DEF Behind
<1>4. \A i \in from .. to : /\ z.ats[Len(t.ats) + (i - from + 1)] = ts.ats[i]
                           /\ z.types[Len(t.ats) + (i - from + 1)] = Len(t.ttis) + ts.types[i]
  <2> SUFFICES ASSUME NEW i \in from .. to
               PROVE  /\ w.ats[Len(t.ats) + (i - from + 1)] = ts.ats[i]
                      /\ w.types[Len(t.ats) + (i - from + 1)] = Len(t.ttis) + ts.types[i]
    BY Zenon
  <2> QED BY DEF Behind
<1>5. /\ \A i \in 1 .. Len(t.ttis) : z.ttis[i] = t.ttis[i]
      /\ \A k \in {1, 2} : z.ttis[Len(t.ttis) + k] = ts.ttis[k]
  BY DEF Behind
<1> QED BY <1>1, <1>2, <1>3, <1>4, <1>5, Zenon DEF Behind

(***************************************************************************)
(* tzload finds that such a table repeats itself.                          *)
(***************************************************************************)
LEMMA RepeatsThere ==
  ASSUME NEW w, DOMAIN w = Fields, NEW t, Len(t.ats) \in Nat, t.ats = <<>> => Len(t.ats) = 0,
         NEW ts, Rising(ts), NEW from \in Nat, NEW to \in Nat,
         Behind(w, t, ts, from, to), from + 802 <= to, NEW tz, Ruled(tz), Observes(ts, tz), TZ_MAX_TIMES >= 804
  PROVE  LET z == Repeats(w)
         IN  /\ z.goahead /\ (t.ats = <<>> => z.goback)
             /\ z.ats = w.ats /\ z.types = w.types /\ z.ttis = w.ttis /\ z.lsis = w.lsis
             /\ Behind(z, t, ts, from, to)
<1> DEFINE z == Repeats(w)
           n == Len(w.ats)
           m == Len(t.ats)
           Again(i, j) == w.ats[j] - w.ats[i] = SECSPERREPEAT /\ w.ttis[w.types[i]] = w.ttis[w.types[j]]
<1>1. /\ z.goback = (\E i \in 2 .. n : Again(1, i)) /\ z.goahead = (\E i \in 1 .. n - 1 : Again(i, n))
      /\ z.ats = w.ats /\ z.types = w.types /\ z.ttis = w.ttis /\ z.lsis = w.lsis
  BY DEF Repeats, Fields, differ_by_repeat, typesequiv
<1>2. Behind(z, t, ts, from, to)
  <2>1. z.ats = w.ats /\ z.types = w.types /\ z.ttis = w.ttis
    BY <1>1
  <2> HIDE DEF z
  <2> QED BY <2>1, BehindSame
<1>3. /\ from \in 1 .. to /\ n = m + (to - from + 1)
      /\ \A i \in from .. to : /\ w.ats[m + (i - from + 1)] = ts.ats[i]
                               /\ w.types[m + (i - from + 1)] = Len(t.ttis) + ts.types[i]
  BY DEF Behind
<1> HIDE DEF z, n, m
<1>4. m \in Nat /\ n \in Nat /\ from + 802 <= to /\ from \in Nat /\ to \in Nat
  <2>1. m \in Nat
    BY DEF m
  <2>2. from \in 1 .. to /\ n = m + (to - from + 1)
    BY <1>3
  <2>3. from + 802 <= to
    OBVIOUS
  <2> QED BY <2>1, <2>2, <2>3
<1>5. \E i \in 1 .. n - 1 : Again(i, n)
  <2>1. PICK j \in from .. to - 1 : ts.ats[to] - ts.ats[j] = SECSPERREPEAT /\ ts.types[j] = ts.types[to]
    BY RulesAgain
  <2> DEFINE i == m + (j - from + 1)
  <2>2. i \in 1 .. n - 1 /\ j \in from .. to /\ to \in from .. to
    BY <1>3, <1>4, <2>1
  <2>3. w.ats[i] = ts.ats[j] /\ w.types[i] = Len(t.ttis) + ts.types[j]
    BY <1>3, <2>2
  <2>4. w.ats[n] = ts.ats[to] /\ w.types[n] = Len(t.ttis) + ts.types[to]
    BY <1>3, <2>2
  <2> HIDE DEF i
  <2>5. Again(i, n)
    BY <2>1, <2>3, <2>4
  <2> QED BY <2>2, <2>5
<1>6. t.ats = <<>> => \E i \in 2 .. n : Again(1, i)
  <2> SUFFICES ASSUME t.ats = <<>> PROVE \E i \in 2 .. n : Again(1, i)
    OBVIOUS
  <2>1. PICK j \in from + 1 .. to : ts.ats[j] - ts.ats[from] = SECSPERREPEAT /\ ts.types[from] = ts.types[j]
    BY RulesAgain
  <2>2. m = 0
    BY DEF m
  <2> DEFINE i == m + (j - from + 1)
             h == m + (from - from + 1)
  <2>3. i \in 2 .. n /\ j \in from .. to /\ from \in from .. to /\ h = 1
    BY <1>3, <1>4, <2>1, <2>2
  <2>4. w.ats[i] = ts.ats[j] /\ w.types[i] = Len(t.ttis) + ts.types[j]
    BY <1>3, <2>3
  <2>5. w.ats[h] = ts.ats[from] /\ w.types[h] = Len(t.ttis) + ts.types[from]
    BY <1>3, <2>3
  <2> HIDE DEF i, h
  <2>6. Again(h, i)
    BY <2>1, <2>4, <2>5
  <2> QED BY <2>3, <2>6
<1> QED BY <1>1, <1>2, <1>5, <1>6 DEF z

(***************************************************************************)
(* The rules of tzparse end before the years are too many.                 *)
(***************************************************************************)
LEMMA RulesEnd ==
  ASSUME NEW ts, NEW tz, Ruled(tz), Observes(ts, tz), TZ_MAX_TIMES >= 804, NEW i \in 1 .. Len(ts.ats)
  PROVE  ts.ats[i] \in Int /\ ts.ats[i] < FirstOfJanuary(EPOCH_YEAR + TZ_MAX_TIMES)
<1> DEFINE u == SECSPERDAY
           h == TZ_MAX_TIMES \div 2
           w == EPOCH_YEAR + TZ_MAX_TIMES
<1>1. PICK y \in TableYears, k \in {1, 2} : ts.ats[i] = Event(tz, k, y)
  BY DEF Observes
<1> DEFINE r == YearStart(y)
           s == YearStart(w)
           e == Event(tz, k, y)
           d == r + 379
<1>2. y \in Int /\ y + 1 \in Int /\ w \in Int /\ y + 1 < w
  <2>1. h \in Int /\ TZ_MAX_TIMES \in Int /\ h + 1 < TZ_MAX_TIMES
    BY SizeAssumption
  <2> HIDE DEF h
  <2>2. y \in EPOCH_YEAR .. EPOCH_YEAR + h - 1
    BY DEF TableYears, h
  <2> QED BY <2>1, <2>2 DEF EPOCH_YEAR
<1>3. e \in Int /\ r \in Int /\ e <= u * d
  <2>1. Event(tz, k, y) \in Int /\ YearStart(y) \in Int /\ Event(tz, k, y) <= SECSPERDAY * (YearStart(y) + 379)
    BY <1>2, EventNear, ZenonT(60)
  <2> QED BY <2>1
<1>4. r + 365 <= YearStart(y + 1) /\ YearStart(y + 1) + 365 <= s /\ s \in Int /\ YearStart(y + 1) \in Int
  <2> DEFINE v == y + 1
  <2>1. v \in Int /\ y < v /\ v < w
    BY <1>2
  <2> HIDE DEF v, w
  <2>2. r + 365 <= YearStart(v) /\ YearStart(v) + 365 <= YearStart(w) /\ YearStart(w) \in Int /\ YearStart(v) \in Int
    BY <1>2, <2>1, YearsInOrder
  <2> QED BY <2>2 DEF v
<1>5. FirstOfJanuary(w) = u * s
  <2> HIDE DEF w
  <2> QED BY <1>2, YearsFollow
<1>6. u \in Nat \ {0}
  BY Units
<1>7. d \in Int /\ d < s
  <2> DEFINE q == YearStart(y + 1)
  <2>1. r + 365 <= q /\ q + 365 <= s /\ s \in Int /\ q \in Int /\ r \in Int
    BY <1>3, <1>4
  <2> HIDE DEF q, r, s
  <2> QED BY <2>1
<1>8. ASSUME NEW a \in Nat \ {0}, NEW b \in Int, NEW c \in Int, b < c
      PROVE  a * b \in Int /\ a * c \in Int /\ a * b < a * c
  BY <1>8, Grows
<1> DEFINE f == FirstOfJanuary(w)
<1> HIDE DEF d, s, u, e, w
<1>9. u * d \in Int /\ u * s \in Int /\ u * d < u * s
  BY <1>4, <1>6, <1>7, <1>8
<1>10. e < f /\ e \in Int
  BY <1>3, <1>5, <1>9
<1> QED BY <1>1, <1>10 DEF e, w

(***************************************************************************)
(* Neither the offsets of the table nor those of the rules are too long.   *)
(***************************************************************************)
LEMMA ShortOnes ==
  ASSUME NEW z, NEW t, Len(t.ttis) \in Nat, ShortOffsets(t), Len(z.ttis) = Len(t.ttis) + 2,
         NEW ts, NEW from \in Nat, NEW to \in Nat, Behind(z, t, ts, from, to), NEW tz, Ruled(tz), Observes(ts, tz)
  PROVE  ShortOffsets(z)
<1> DEFINE o == OffsetOf(tz, 1)
           p == OffsetOf(tz, 2)
           u == SECSPERDAY
           v == SECSPERDAY * DAYSPERNYEAR
           k == Len(t.ttis)
<1>1. -v <= -o /\ -o <= v /\ -v <= -p /\ -p <= v
  <2>1. o \in -(8 * u) .. WEEK /\ p \in -(8 * u) .. WEEK
    BY RuledParts
  <2>2. u \in Nat /\ WEEK = 7 * u
    BY WeekIs
  <2>3. v = 365 * u
    BY <2>2 DEF DAYSPERNYEAR
  <2> HIDE DEF o, p, u, v
  <2> QED BY <2>1, <2>2, <2>3
<1>2. ts.ttis[1].gmtoff = -p /\ ts.ttis[2].gmtoff = -o
  BY DEF Observes
<1>3. /\ \A i \in 1 .. k : z.ttis[i] = t.ttis[i]
      /\ \A l \in {1, 2} : z.ttis[k + l] = ts.ttis[l]
  BY DEF Behind
<1>4. \A i \in 1 .. k : -v <= t.ttis[i].gmtoff /\ t.ttis[i].gmtoff <= v
  BY DEF ShortOffsets
<1> SUFFICES ASSUME NEW i \in 1 .. Len(z.ttis) PROVE -v <= z.ttis[i].gmtoff /\ z.ttis[i].gmtoff <= v
  BY DEF ShortOffsets
<1> HIDE DEF o, p, v
<1>5. CASE i <= k
  BY <1>3, <1>4, <1>5
<1>6. CASE i > k
  <2>1. \E l \in {1, 2} : i = k + l
    BY <1>6
  <2> QED BY <1>1, <1>2, <1>3, <2>1
<1> QED BY <1>5, <1>6

(***************************************************************************)
(* Where a table ends, a clock shows the type of the last transition.      *)
(***************************************************************************)
LEMMA TableEnds ==
  ASSUME NEW t, Whole(t), Sorted(t.ats), Room(t), ~t.goback, ~t.goahead, t.lsis = <<>>, ShortOffsets(t), t.ats # <<>>,
         WideInts, TZ_MAX_TIMES <= INT_MAX
  PROVE  Clock(t, LastAt(t)) = ShownIn(t, t.types[Len(t.ats)])
<1> DEFINE a == LastAt(t)
           n == Len(t.ats)
           h == TZ_MAX_TIMES \div 2
<1>1. IsZone(t)
  <2>1. Spans(t)
    BY DEF Spans
  <2> QED BY <2>1, WholeIsZone
<1>2. /\ a \in Int /\ 0 <= a /\ h >= 404 /\ a = t.ats[n] /\ n \in Nat /\ n > 0
      /\ \A i \in 1 .. n : t.ats[i] \in Int
  BY RoomIs
<1>3. Moderate(a)
  <2> DEFINE y == EPOCH_YEAR + h - 403
             w == INT_MAX
             u == SECSPERDAY
             r == YearStart(FIRST_YEAR + 1)
             s == YearStart(y)
             v == YearStart(w)
  <2>1. r \in Int /\ r < 0 /\ w \in Int /\ 40000 <= w
    BY YearsOfInts
  <2>2. y \in Int /\ y < w
    <3>1. h \in Int /\ 2 * h <= TZ_MAX_TIMES /\ TZ_MAX_TIMES \in Int
      BY SizeAssumption
    <3> HIDE DEF h
    <3> QED BY <2>1, <3>1 DEF EPOCH_YEAR
  <2>3. a < FirstOfJanuary(y)
    BY DEF Room
  <2> HIDE DEF y, w
  <2>4. FirstOfJanuary(y) = u * s
    BY <2>2, YearsFollow
  <2>5. s \in Int /\ v \in Int /\ s < v
    <3>1. YearStart(y) + 365 <= YearStart(w) /\ YearStart(y) \in Int /\ YearStart(w) \in Int
      <4>1. y \in Int /\ w \in Int /\ y < w
        BY <2>1, <2>2
      <4> QED BY <4>1, YearsInOrder, ZenonT(60)
    <3> HIDE DEF s, v
    <3>2. s + 365 <= v /\ s \in Int /\ v \in Int
      BY <3>1, Zenon DEF s, v
    <3> QED BY <3>2
  <2>6. u \in Nat \ {0}
    BY Units
  <2>7. ASSUME NEW b \in Nat \ {0}, NEW c \in Int, NEW d \in Int, c < d
        PROVE  b * c \in Int /\ b * d \in Int /\ b * c < b * d
    BY <2>7, Grows
  <2>8. ASSUME NEW b \in Nat \ {0}, NEW c \in Int, c < 0
        PROVE  b * c \in Int /\ b * c < 0
    BY <2>8, SMT
  <2> HIDE DEF r, s, v, u
  <2>9. u * s \in Int /\ u * v \in Int /\ u * s < u * v
    BY <2>5, <2>6, <2>7
  <2>10. u * r \in Int /\ u * r < 0
    BY <2>1, <2>6, <2>8
  <2> HIDE DEF a
  <2>11. u * r <= a /\ a < u * v
    BY <1>2, <2>3, <2>4, <2>9, <2>10
  <2> QED BY <2>11 DEF Moderate, u, r, v, w, FIRST_YEAR
<1>4. SeenAt(t, a) = a
  <2>1. ~Beyond(t, a)
    BY DEF Beyond
  <2> HIDE DEF a
  <2> QED BY <1>2, <2>1, SeenThere
<1>5. TypeAt(t, a) = t.types[n]
  <2>1. Rising(t)
    BY <1>2 DEF Rising
  <2>2. n \in 1 .. n
    BY <1>2
  <2>3. LastBy(t.ats, n, n, a)
    <3> HIDE DEF n, a
    <3> QED BY <1>2 DEF LastBy
  <2> HIDE DEF a
  <2> QED BY <1>2, <2>1, <2>2, <2>3, PastIs
<1>6. Clock(t, a) = ShownIn(t, TypeAt(t, SeenAt(t, a)))
  <2> HIDE DEF a
  <2> QED BY <1>1, <1>2, <1>3, <1>4, ClockSeen
<1> QED BY <1>4, <1>5, <1>6

(* What tzload makes of a file in an object that has all of its fields.    *)
FileMade(z, file, default) ==
  \E start : DOMAIN start = Fields /\ tzload(file, default, start).ok /\ z = tzload(file, default, start).sp

(* Such a table, with rules that come before the years are too many.       *)
Ruling(z, t, tz) ==
  /\ IsZone(z) /\ TZ_MAX_TIMES >= 804
  /\ \E ts : \E from, to \in Nat : RulesBehind(z, t, ts, from, to, tz)
  /\ z.ats # <<>> => Last(z) < FirstOfJanuary(EPOCH_YEAR + TZ_MAX_TIMES)

(***************************************************************************)
(* What the table of an extensible file is like.                           *)
(***************************************************************************)
LEMMA ExtensibleTable ==
  ASSUME NEW file, IsFile(file), Extensible(file), HasRules(file.footer), ~LastPairWrong(file),
         NEW start, ReadTables(file, start).ok, NEW t, t = FromBlock(TableOf(file))
  PROVE  /\ ReadTables(file, start).sp = t
         /\ Whole(t) /\ Sorted(t.ats) /\ Rising(t) /\ Room(t) /\ ~t.goback /\ ~t.goahead
         /\ t.lsis = <<>> /\ ShortOffsets(t) /\ Len(t.ats) <= TZ_MAX_TIMES
         /\ Len(t.ats) \in Nat /\ Len(t.ttis) \in Nat /\ Len(t.ttis) = Len(TableOf(file).ttis)
         /\ t.ats = <<>> => Len(t.ats) = 0
         /\ IsText(file.footer)
<1> DEFINE r == ReadTables(file, start)
           b == TableOf(file)
<1>1. /\ file # NoFile /\ r.sp = FromBlock(b) /\ IsBlock(b)
      /\ Whole(r.sp) /\ ~r.sp.goback /\ ~r.sp.goahead /\ Sorted(r.sp.ats)
  BY TablesMake
<1>2. ReadTables(file, Memory).ok
  BY DEF ReadTables, Outcome
<1>3. Extensible(file) /\ HasRules(file.footer)
  OBVIOUS
<1> HIDE DEF r
<1> DEFINE v == SECSPERDAY * DAYSPERNYEAR
<1>4. /\ t.lsis = <<>>
      /\ \A i \in 1 .. Len(t.ttis) : t.ttis[i].gmtoff \in -v .. v
      /\ t.ats # <<>> => Last(t) >= FirstOfJanuary(EPOCH_YEAR + 2)
      /\ LastAt(t) < FirstOfJanuary(EPOCH_YEAR + TZ_MAX_TIMES \div 2 - 403)
      /\ Len(t.ats) + 803 <= TZ_MAX_TIMES
  BY <1>2, <1>3, Zenon DEF Extensible
<1>5. Whole(t) /\ Sorted(t.ats) /\ ~t.goback /\ ~t.goahead
  BY <1>1
<1>6. Len(t.ats) \in Nat /\ (t.ats = <<>> => Len(t.ats) = 0) /\ \A i \in 1 .. Len(t.ats) : t.ats[i] \in Int
  <2>1. t.ats \in Seq(Int)
    BY <1>5 DEF Whole, Tables
  <2> QED BY <2>1, LenProperties, ElementOfSeq, EmptySeq
<1>7. Len(t.ttis) \in Nat /\ \A i \in 1 .. Len(t.ttis) : t.ttis[i].gmtoff \in Int
  BY <1>5 DEF Whole, Tables
<1>8. Len(t.ttis) = Len(b.ttis)
  <2>1. Len(b.ttis) \in Nat
    BY <1>1, LenProperties DEF IsBlock, IsSeq
  <2>2. t.ttis = [i \in 1 .. Len(b.ttis) |-> TypeInfo(b.ttis[i].gmtoff, b.ttis[i].isdst, b.ttis[i].abbr,
                                                      Flag(b.stds, i), Flag(b.gmts, i))]
    BY DEF FromBlock
  <2>3. t.ttis = [i \in 1 .. Len(b.ttis) |-> t.ttis[i]]
    BY <2>2
  <2> DEFINE n == Len(b.ttis)
             q == t.ttis
  <2> HIDE DEF n, q
  <2>4. n \in Nat /\ q = [i \in 1 .. n |-> q[i]]
    BY <2>1, <2>3 DEF n, q
  <2>5. Len(q) = n
    BY <2>4, SequenceOf
  <2> QED BY <2>5 DEF n, q
<1>9. Rising(t)
  BY <1>5, <1>6 DEF Rising
<1>10. Room(t)
  BY <1>4 DEF Room
<1>11. ShortOffsets(t)
  <2>1. v \in Int
    <3>1. SECSPERDAY \in Nat
      BY Units
    <3> QED BY <3>1 DEF DAYSPERNYEAR
  <2>2. \A i \in 1 .. Len(t.ttis) : -v <= t.ttis[i].gmtoff /\ t.ttis[i].gmtoff <= v
    <3> HIDE DEF v
    <3> QED BY <1>4, <1>7, <2>1
  <2> QED BY <2>2 DEF ShortOffsets
<1>12. Len(t.ats) <= TZ_MAX_TIMES
  BY <1>4, <1>6, SizeAssumption
<1>13. IsText(file.footer)
  BY <1>1, <1>3 DEF IsFile, HasRules
<1> QED BY <1>1, <1>4, <1>5, <1>6, <1>7, <1>8, <1>9, <1>10, <1>11, <1>12, <1>13 DEF r

(***************************************************************************)
(* If the footer took effect, its rules come behind the table.             *)
(***************************************************************************)
LEMMA FileRules ==
  ASSUME NEW file, IsFile(file), Extensible(file), HasRules(file.footer), ~LastPairWrong(file),
         NEW default, IsFile(default), Immovable(default),
         NEW z, FileMade(z, file, default), Len(z.ttis) = Len(TableOf(file).ttis) + 2,
         NEW t, t = FromBlock(TableOf(file))
  PROVE  Ruling(z, t, file.footer)
<1> DEFINE tz == file.footer
<1>1. PICK start : DOMAIN start = Fields /\ tzload(file, default, start).ok /\ z = tzload(file, default, start).sp
  BY DEF FileMade
<1> DEFINE r  == ReadTables(file, start)
           p  == tzparse(tz, default, Memory)
           ts == p.sp
           w  == WithFooter(r.sp, tz, p)
           e  == Extended(t, ts)
<1>2. IsZone(z)
  BY <1>1, FileMakes
<1>3. r.ok /\ z = Repeats(w)
  <2>1. tzload(file, default, start) = IF r.ok THEN Outcome(TRUE, Repeats(w)) ELSE r
    BY DEF tzload, AfterTables
  <2> HIDE DEF r, w
  <2> QED BY <1>1, <2>1 DEF Outcome
<1>4. /\ r.sp = t
      /\ Whole(t) /\ Sorted(t.ats) /\ Rising(t) /\ Room(t) /\ ~t.goback /\ ~t.goahead
      /\ t.lsis = <<>> /\ ShortOffsets(t) /\ Len(t.ats) <= TZ_MAX_TIMES
      /\ Len(t.ats) \in Nat /\ Len(t.ttis) \in Nat /\ Len(t.ttis) = Len(TableOf(file).ttis)
      /\ t.ats = <<>> => Len(t.ats) = 0
      /\ IsText(tz)
  BY <1>3, ExtensibleTable
<1> HIDE DEF r
<1>5. w = e /\ p.ok
  <2>1. w = t \/ (p.ok /\ w = e)
    BY <1>4 DEF WithFooter
  <2>2. w # t
    <3> SUFFICES ASSUME w = t PROVE FALSE
      OBVIOUS
    <3> HIDE DEF w
    <3>1. z.ttis = t.ttis
      <4>1. z = Repeats(t)
        BY <1>3
      <4>2. DOMAIN t = Fields
        BY <1>4 DEF Whole, Half
      <4> QED BY <4>1, <4>2 DEF Repeats, Fields
    <3> QED BY <1>4, <3>1
  <2> QED BY <2>1, <2>2
<1>6. tz.dst # NONE /\ Len(tz.rules) = 2
  BY DEF HasRules
<1>7. DOMAIN Memory = Fields
  BY DEF Memory, Fields
<1> DEFINE blank == Memory
<1>8. StringMade(ts, tz, default)
  BY <1>5, <1>7 DEF StringMade
<1>9. Whole(ts) /\ Sorted(ts.ats)
  <2>1. tzparse(tz, default, blank).ok /\ DOMAIN blank = Fields
    BY <1>5, <1>7
  <2> HIDE DEF blank
  <2>2. Whole(tzparse(tz, default, blank).sp) /\ Sorted(tzparse(tz, default, blank).sp.ats)
    BY <1>4, <2>1, StringMakes
  <2> QED BY <2>2 DEF blank
<1> HIDE DEF ts, w, p, blank
<1>10. Ruled(tz) /\ Observes(ts, tz)
  <2> HIDE DEF tz
  <2> QED BY <1>4, <1>6, <1>8, StringObserves
<1> HIDE DEF tz
<1>11. Rising(ts)
  <2>1. ts.ats \in Seq(Int)
    BY <1>9 DEF Whole, Tables
  <2>2. Len(ts.ats) \in Nat /\ \A i \in 1 .. Len(ts.ats) : ts.ats[i] \in Int
    BY <2>1, LenProperties, ElementOfSeq
  <2> QED BY <1>9, <2>2 DEF Rising
<1>12. PICK from \in Nat, to \in Nat : Behind(e, t, ts, from, to) /\ from + 802 <= to
  BY <1>4, <1>9, <1>10, BehindComes
<1>13. DOMAIN e = Fields /\ e.lsis = t.lsis
  BY <1>4, <1>9, ExtendedIs, Zenon
<1>14. TZ_MAX_TIMES >= 804
  <2> DEFINE h == TZ_MAX_TIMES \div 2
  <2>1. h >= 404
    BY <1>4, RoomIs
  <2> QED BY <2>1, SizeAssumption
<1> HIDE DEF e
<1>15. /\ z.goahead /\ (t.ats = <<>> => z.goback) /\ z.lsis = e.lsis
       /\ Behind(z, t, ts, from, to)
  <2>1. z = Repeats(e)
    BY <1>3, <1>5
  <2> DEFINE q == Repeats(e)
  <2>2. q.goahead /\ (t.ats = <<>> => q.goback) /\ q.lsis = e.lsis /\ Behind(q, t, ts, from, to)
    BY <1>4, <1>10, <1>11, <1>12, <1>13, <1>14, RepeatsThere
  <2> QED BY <2>1, <2>2
<1>16. ShortOffsets(z)
  <2>1. Len(z.ttis) = Len(t.ttis) + 2
    BY <1>4
  <2> QED BY <1>4, <1>10, <1>15, <2>1, ShortOnes
<1>17. Rising(z)
  BY <1>2 DEF IsZone, Rising
<1>18. RulesBehind(z, t, ts, from, to, tz)
  BY <1>2, <1>4, <1>10, <1>11, <1>12, <1>13, <1>15, <1>16, <1>17 DEF RulesBehind
<1>19. Last(z) < FirstOfJanuary(EPOCH_YEAR + TZ_MAX_TIMES)
  <2>1. Last(z) = ts.ats[to] /\ to \in 1 .. Len(ts.ats)
    <3>1. BetweenEnds(z, t, ts, from, to)
      BY <1>18, BeginAndEnd
    <3> QED BY <3>1 DEF BetweenEnds
  <2>2. ts.ats[to] < FirstOfJanuary(EPOCH_YEAR + TZ_MAX_TIMES)
    BY <1>10, <1>14, <2>1, RulesEnd
  <2> QED BY <2>1, <2>2
<1>20. \E rules : \E first, last \in Nat : RulesBehind(z, t, rules, first, last, tz)
  BY <1>18, Zenon
<1>21. Ruling(z, t, tz)
  BY <1>2, <1>14, <1>19, <1>20, Zenon DEF Ruling
<1> QED BY <1>21 DEF tz

(***************************************************************************)
(* Instants from the epoch to the last year of an int are moderate.        *)
(***************************************************************************)
LEMMA NowIsModerate ==
  ASSUME WideInts, NEW x \in Int, 0 <= x, x < FirstOfJanuary(INT_MAX)
  PROVE  Moderate(x)
<1> DEFINE u == SECSPERDAY
           r == YearStart(FIRST_YEAR + 1)
           w == INT_MAX
           v == YearStart(w)
<1>1. r \in Int /\ r < 0 /\ w \in Int /\ v \in Int
  BY YearsOfInts
<1>2. FirstOfJanuary(w) = u * v
  <2> HIDE DEF w
  <2> QED BY <1>1, YearsFollow
<1>3. u \in Nat \ {0}
  BY Units
<1>4. ASSUME NEW b \in Nat \ {0}, NEW c \in Int, c < 0
      PROVE  b * c \in Int /\ b * c < 0
  BY <1>4, SMT
<1>5. x < FirstOfJanuary(w)
  OBVIOUS
<1> HIDE DEF u, r, v, w
<1>6. u * r \in Int /\ u * r < 0
  BY <1>1, <1>3, <1>4
<1>7. u * r <= x /\ x < u * v
  BY <1>2, <1>5, <1>6
<1> QED BY <1>7 DEF Moderate, u, r, v, w, FIRST_YEAR

(***************************************************************************)
(* A zone with a footer follows the rules of the footer.                   *)
(***************************************************************************)
LEMMA FooterFollows ==
  ASSUME NEW z, NEW t, NEW tz, Ruling(z, t, tz), EndsByRule(t, tz), WideInts, TZ_MAX_TIMES <= INT_MAX,
         NEW x \in Int, LastAt(t) <= x, x < FirstOfJanuary(INT_MAX)
  PROVE  Clock(z, x) = ByRule(tz, x)
<1>1. PICK ts : \E from, to \in Nat : RulesBehind(z, t, ts, from, to, tz)
  BY DEF Ruling
<1>2. PICK from \in Nat, to \in Nat : RulesBehind(z, t, ts, from, to, tz)
  BY <1>1
<1>3. BetweenEnds(z, t, ts, from, to)
  BY <1>2, BeginAndEnd
<1> DEFINE a == LastAt(t)
<1>4. a \in Int /\ 0 <= a /\ a <= x
  BY <1>3 DEF BetweenEnds
<1>5. 0 <= x
  <2> HIDE DEF a
  <2> QED BY <1>4
<1>6. Moderate(x)
  BY <1>5, NowIsModerate
<1> QED BY <1>2, <1>6, FollowsRules

(***************************************************************************)
(* The table of such a file ends as its footer goes on.                    *)
(***************************************************************************)
LEMMA TableGoesOver ==
  ASSUME NEW file, IsFile(file), Extensible(file), FollowsOn(file), NEW start, ReadTables(file, start).ok,
         WideInts, TZ_MAX_TIMES <= INT_MAX
  PROVE  EndsByRule(FromBlock(TableOf(file)), file.footer)
<1> DEFINE t  == FromBlock(TableOf(file))
           tz == file.footer
           t0 == [t EXCEPT !.lsis = <<>>]
<1>1. HasRules(tz) /\ ~LastPairWrong(file) /\ (t0.ats # <<>> => Clock(t0, Last(t0)) = ByRule(tz, Last(t0)))
  BY Zenon DEF FollowsOn
<1>2. /\ Whole(t) /\ Sorted(t.ats) /\ Rising(t) /\ Room(t) /\ ~t.goback /\ ~t.goahead
      /\ t.lsis = <<>> /\ ShortOffsets(t)
  <2> DEFINE u == t
  <2>1. u = FromBlock(TableOf(file))
    OBVIOUS
  <2> HIDE DEF u
  <2>2. /\ Whole(u) /\ Sorted(u.ats) /\ Rising(u) /\ Room(u) /\ ~u.goback /\ ~u.goahead
        /\ u.lsis = <<>> /\ ShortOffsets(u)
    BY <1>1, <2>1, ExtensibleTable
  <2> QED BY <2>2 DEF u
<1> HIDE DEF t, tz
<1>3. t0 = t
  <2>1. DOMAIN t = Fields /\ t = [f \in DOMAIN t |-> t[f]]
    BY <1>2 DEF Whole, Half, FromBlock, t, Fields
  <2> QED BY <1>2, <2>1 DEF Fields
<1> HIDE DEF t0
<1>4. t.ats # <<>> => Clock(t, LastAt(t)) = ByRule(tz, LastAt(t))
  BY <1>1, <1>3 DEF LastAt
<1>5. t.ats # <<>> => Clock(t, LastAt(t)) = ShownIn(t, t.types[Len(t.ats)])
  <2> SUFFICES ASSUME t.ats # <<>> PROVE Clock(t, LastAt(t)) = ShownIn(t, t.types[Len(t.ats)])
    OBVIOUS
  <2> QED BY <1>2, TableEnds
<1>6. EndsByRule(t, tz)
  BY <1>4, <1>5, Zenon DEF EndsByRule
<1> QED BY <1>6 DEF t, tz

-----------------------------------------------------------------------------
(***************************************************************************)
(* Where a zone that is made of a file comes from.                         *)
(***************************************************************************)
FileInv ==
  source.of = "file" =>
    /\ IsFile(source.file) /\ Extensible(source.file)
    /\ IsFile(source.default) /\ Immovable(source.default)
    /\ FileMade(sp, source.file, source.default)

(***************************************************************************)
(* There is none at first.                                                 *)
(***************************************************************************)
LEMMA FileInitially == Init => FileInv
BY DEF Init, FileInv, NoSource

(***************************************************************************)
(* The files that are read are extensible.                                 *)
(***************************************************************************)
LEMMA FilesExtend ==
  ASSUME ExtensibleSources, files \in FileSystems
  PROVE  /\ \A file \in Readable(TZDEFAULT) : Extensible(file)
         /\ \A n \in Names \ {NULL, FAST} : \A file \in Readable(n.file) : Extensible(file)
<1>1. Extensible(NoFile)
  BY DEF Extensible, ReadTables, Outcome
<1>2. Extensible(files[TZDEFAULT]) /\ \A n \in Names \ {NULL, FAST} : Extensible(files[n.file])
  BY DEF ExtensibleSources
<1> QED BY <1>1, <1>2 DEF Readable

(***************************************************************************)
(* An attempt with a file makes one, or none.                              *)
(***************************************************************************)
LEMMA FileKeeps ==
  ASSUME NEW file, IsFile(file), Extensible(file), NEW default, IsFile(default), Immovable(default),
         DOMAIN sp = Fields, NEW next, Attempt(tzload(file, default, sp), Source("file", file, default), next)
  PROVE  FileInv'
<1> DEFINE o == tzload(file, default, sp)
<1>1. sp' = o.sp /\ source' = IF o.ok THEN Source("file", file, default) ELSE NoSource
  BY DEF Attempt
<1>2. CASE ~o.ok
  <2>1. source'.of # "file"
    BY <1>1, <1>2 DEF NoSource
  <2> QED BY <2>1 DEF FileInv
<1>3. CASE o.ok
  <2>1. FileMade(o.sp, file, default)
    BY <1>3 DEF FileMade
  <2> HIDE DEF o
  <2>2. source'.file = file /\ source'.default = default
    BY <1>1, <1>3 DEF Source
  <2>3. /\ IsFile(source'.file) /\ Extensible(source'.file) /\ IsFile(source'.default) /\ Immovable(source'.default)
        /\ FileMade(sp', source'.file, source'.default)
    BY <1>1, <2>1, <2>2
  <2> QED BY <2>3 DEF FileInv
<1> QED BY <1>2, <1>3

(***************************************************************************)
(* The others make none.                                                   *)
(***************************************************************************)
LEMMA FileStays ==
  ASSUME SoundSources, ExtensibleSources, AllocInv, FileInv, [Next]_vars
  PROVE  FileInv'
<1>1. CASE source'.of # "file"
  BY <1>1 DEF FileInv
<1>2. CASE UNCHANGED <<source, name, sp>>
  BY <1>2 DEF FileInv
<1>3. /\ \A default \in Readable(TZDEFRULES) : IsFile(default) /\ Immovable(default)
      /\ \A file \in Readable(TZDEFAULT) : IsFile(file) /\ Extensible(file)
      /\ \A n \in Names \ {NULL, FAST} : \A file \in Readable(n.file) : IsFile(file) /\ Extensible(file)
  BY FilesAreSound, FilesExtend DEF AllocInv
<1>4. ASSUME NEW default \in Readable(TZDEFRULES), pc = "tzload", NEW file \in Readable(name.file), Load(file, default)
      PROVE  FileInv'
  <2> DEFINE next == IF name.colon THEN "gmtload" ELSE "tzparse"
  <2>1. Attempt(tzload(file, default, sp), Source("file", file, default), next)
    BY <1>4 DEF Load
  <2>2. name \in Names \ {NULL, FAST} /\ DOMAIN sp = Fields
    BY <1>4 DEF AllocInv
  <2>3. IsFile(file) /\ Extensible(file) /\ IsFile(default) /\ Immovable(default)
    BY <1>3, <2>2
  <2> HIDE DEF next
  <2> QED BY <2>1, <2>2, <2>3, FileKeeps
<1>5. ASSUME NEW default \in Readable(TZDEFRULES), NEW file \in Readable(TZDEFAULT), tzsetwall(file, default)
      PROVE  FileInv'
  <2> DEFINE next == "gmtload"
  <2>1. Attempt(tzload(file, default, sp), Source("file", file, default), next) /\ pc = "tzsetwall"
    BY <1>5 DEF tzsetwall
  <2>2. DOMAIN sp = Fields
    BY <2>1 DEF AllocInv
  <2>3. IsFile(file) /\ Extensible(file) /\ IsFile(default) /\ Immovable(default)
    BY <1>3
  <2> HIDE DEF next
  <2> QED BY <2>1, <2>2, <2>3, FileKeeps
<1>6. ASSUME NEW default, Parse(default) \/ \E file : LoadGmt(file, default)
      PROVE  source'.of # "file"
  <2>1. ASSUME NEW o, NEW of, of # "file", NEW file, NEW next, Attempt(o, Source(of, file, default), next)
        PROVE  source'.of # "file"
    BY <2>1 DEF Attempt, Source, NoSource
  <2>2. ASSUME Parse(default) PROVE source'.of # "file"
    <3> DEFINE zone == tzparse(name.tz, default, sp)
    <3>1. Attempt(zone, Source("string", NoFile, default), "gmtload")
      BY <2>2 DEF Parse
    <3> HIDE DEF zone
    <3>2. "string" # "file"
      OBVIOUS
    <3> QED BY <2>1, <3>1, <3>2
  <2>3. ASSUME NEW file, LoadGmt(file, default) PROVE source'.of # "file"
    <3> DEFINE gmt1 == Outcome(TRUE, gmtload(file, default, sp))
    <3>1. Attempt(gmt1, Source("gmt", file, default), "done")
      BY <2>3 DEF LoadGmt
    <3> HIDE DEF gmt1
    <3>2. "gmt" # "file"
      OBVIOUS
    <3> QED BY <2>1, <3>1, <3>2
  <2> QED BY <1>6, <2>2, <2>3
<1>7. ASSUME NEW n, tz_alloc(n)
      PROVE  source'.of # "file"
  BY <1>7 DEF tz_alloc, NoSource
<1>8. Free => source'.of # "file"
  BY DEF Free, NoSource
<1>9. UNCHANGED alloc_vars => UNCHANGED <<source, name, sp>>
  BY DEF alloc_vars
<1>10. UNCHANGED vars => UNCHANGED alloc_vars
  BY DEF vars
<1> QED BY <1>1, <1>2, <1>4, <1>5, <1>6, <1>7, <1>8, <1>9, <1>10 DEF Next

(* Zones that end while tzparse knows the years are looked at before ints  *)
(* run out of years.                                                       *)
MomentsInTime ==
  \A z : IsZone(z) /\ (z.ats # <<>> => Last(z) < FirstOfJanuary(EPOCH_YEAR + TZ_MAX_TIMES)) =>
    \A x \in Moments(z) : x \in Int /\ x < FirstOfJanuary(INT_MAX)

(***************************************************************************)
(* After the transitions of its file a zone follows the rules of the       *)
(* footer, without a gap where the ones end and the others begin, and for  *)
(* ever, or as long as an int can count the years: for files that leave    *)
(* the rules room to repeat themselves, and ints of more than 16 bits.     *)
(***************************************************************************)
THEOREM FootersTakeOver ==
  SoundSources /\ ExtensibleSources /\ MomentsInTime /\ WideInts /\ TZ_MAX_TIMES <= INT_MAX
    => (Spec => []AfterTheTable)
<1> SUFFICES ASSUME SoundSources, ExtensibleSources, MomentsInTime, WideInts, TZ_MAX_TIMES <= INT_MAX
             PROVE  Spec => []AfterTheTable
  OBVIOUS
<1>1. Init => AllocInv /\ FileInv
  BY AllocInitially, FileInitially
<1>2. AllocInv /\ FileInv /\ [Next]_vars => (AllocInv /\ FileInv)'
  BY AllocStays, FileStays
<1>3. FileInv => AfterTheTable
  <2> SUFFICES ASSUME FileInv, source.of = "file", FollowsOn(source.file),
                      NEW x \in Moments(sp), x >= LastAt(FromBlock(TableOf(source.file)))
               PROVE  Clock(sp, x) = ByRule(source.file.footer, x)
    BY DEF AfterTheTable
  <2> DEFINE file    == source.file
             default == source.default
             tz      == source.file.footer
             t       == FromBlock(TableOf(source.file))
             z       == sp
  <2>1. IsFile(file) /\ Extensible(file) /\ IsFile(default) /\ Immovable(default) /\ FileMade(z, file, default)
    BY DEF FileInv
  <2>2. HasRules(tz) /\ Len(z.ttis) = Len(TableOf(file).ttis) + 2 /\ ~LastPairWrong(file)
    BY Zenon DEF FollowsOn
  <2>3. t = FromBlock(TableOf(file)) /\ tz = file.footer /\ LastAt(t) <= x /\ x \in Moments(z) /\ FollowsOn(file)
    BY Zenon
  <2> HIDE DEF file, default, t, tz, z
  <2>4. Ruling(z, t, tz)
    BY <2>1, <2>2, <2>3, FileRules
  <2>5. EndsByRule(t, tz)
    <3>1. \E start : ReadTables(file, start).ok
      <4>1. PICK start : tzload(file, default, start).ok
        BY <2>1 DEF FileMade
      <4>2. ReadTables(file, start).ok
        BY <4>1 DEF tzload, AfterTables
      <4> QED BY <4>2
    <3> QED BY <2>1, <2>3, <3>1, TableGoesOver
  <2>6. x \in Int /\ x < FirstOfJanuary(INT_MAX)
    BY <2>3, <2>4 DEF Ruling, MomentsInTime
  <2>7. Clock(z, x) = ByRule(tz, x)
    BY <2>3, <2>4, <2>5, <2>6, FooterFollows
  <2> QED BY <2>7 DEF z, tz
<1> QED BY <1>1, <1>2, <1>3, PTL DEF Spec
=============================================================================

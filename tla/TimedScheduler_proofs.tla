------------------------ MODULE TimedScheduler_proofs ------------------------
(***************************************************************************)
(* What TimedScheduler promises, for every plan of rows, every zone that   *)
(* changes its offset once and every bound on its clock.  First the        *)
(* arithmetic of DailyWindow, then an invariant of the daemon, and last    *)
(* that the daemon with its clock forgotten is a DomainBot.                *)
(***************************************************************************)
EXTENDS TimedScheduler, FiniteSetTheorems, WellFoundedInduction, TLAPS

(* Days and offsets. *)

\* The day that a wall time belongs to.
LEMMA DayOf ==
  ASSUME NEW w \in Int
  PROVE  /\ w \div Day \in Int
         /\ (w \div Day) * Day \in Int
         /\ (w \div Day) * Day <= w
         /\ w < (w \div Day) * Day + Day
  BY DayAssumption

\* The time of day of a wall time.
LEMMA TimeOf ==
  ASSUME NEW k \in Int, NEW time \in 0..(Day - 1)
  PROVE  k * Day + time \in Int /\ (k * Day + time) % Day = time
  BY DayAssumption

LEMMA TheDayAfter ==
  ASSUME NEW k \in Int
  PROVE  k * Day \in Int /\ (k + 1) * Day = k * Day + Day
  BY DayAssumption

LEMMA ZoneType ==
  ASSUME NEW z, IsZone(z)
  PROVE  /\ z.at \in Int /\ z.before \in Int /\ z.after \in Int
         /\ z.before <= z.after + Day /\ z.after <= z.before + Day
         /\ -Day < z.before /\ z.before < Day
         /\ -Day < z.after /\ z.after < Day
  BY DayAssumption DEF IsZone

LEMMA LocalType ==
  ASSUME NEW z, IsZone(z), NEW t \in Int
  PROVE  Local(z, t) \in Int /\ Utc(z, t) \in Int
  BY ZoneType DEF Local, Utc

\* A wall time outside the hour that the zone skips or repeats is the local
\* time of one instant, and comes after the same local times.
LEMMA Unshifted ==
  ASSUME NEW z, IsZone(z), NEW w \in Int, w % Day \notin Shifted(z), NEW t \in Int
  PROVE  /\ Local(z, Utc(z, w)) = w
         /\ Utc(z, w) <= t <=> w <= Local(z, t)
<1>0. z.at \in Int /\ z.before \in Int /\ z.after \in Int
  BY ZoneType
<1>1. \A a, b \in { z.at + z.before, z.at + z.after } : w \notin a..(b - 1)
  <2> DEFINE change == { z.at + z.before, z.at + z.after }
             hours == { a..(b - 1) : a, b \in change }
  <2>1. Shifted(z) = { u % Day : u \in UNION hours }
    BY DEF Shifted
  <2>2. w \notin UNION hours
    <3> HIDE DEF hours
    <3> QED BY <2>1
  <2>3. \A a, b \in change : a..(b - 1) \in hours
    OBVIOUS
  <2> HIDE DEF hours
  <2> QED BY <2>2, <2>3
<1>2. /\ ~(z.at + z.before <= w /\ w < z.at + z.after)
      /\ ~(z.at + z.after <= w /\ w < z.at + z.before)
  BY <1>0, <1>1
<1> QED BY <1>0, <1>2 DEF Local, Utc

\* next_daily_window_start: the wall time is the first one after now.
LEMMA NextWall ==
  ASSUME NEW z, IsZone(z), NEW time \in 0..(Day - 1), NEW t \in Int
  PROVE  \E k \in Int :
           /\ NextDailyWindowStart(z, time, t) = Utc(z, k * Day + time)
           /\ Local(z, t) < k * Day + time
           /\ k * Day + time <= Local(z, t) + Day
<1> DEFINE w == Local(z, t)
           n == w \div Day
<1>1. /\ w \in Int /\ n \in Int /\ n * Day \in Int
      /\ n * Day <= w /\ w < n * Day + Day
  BY LocalType, DayOf
<1>2. Today(z, time, t) = n * Day + time
  BY DEF Today
<1>3. (n + 1) * Day = n * Day + Day
  BY <1>1, TheDayAfter
<1> HIDE DEF w, n
<1>4. CASE n * Day + time <= w
  <2>1. NextDailyWindowStart(z, time, t) = Utc(z, (n + 1) * Day + time)
    <3>1. NextDailyWindowStart(z, time, t) = Utc(z, (n * Day + time) + Day)
      BY <1>2, <1>4 DEF NextDailyWindowStart, w
    <3>2. (n * Day + time) + Day = (n + 1) * Day + time
      BY <1>1, <1>3, DayAssumption
    <3> QED BY <3>1, <3>2
  <2>2. w < (n + 1) * Day + time /\ (n + 1) * Day + time <= w + Day
    BY <1>1, <1>3, <1>4, DayAssumption
  <2> QED BY <1>1, <2>1, <2>2 DEF w
<1>5. CASE w < n * Day + time
  <2>1. NextDailyWindowStart(z, time, t) = Utc(z, n * Day + time)
    BY <1>1, <1>2, <1>5, DayAssumption DEF NextDailyWindowStart, w
  <2>2. n * Day + time <= w + Day
    BY <1>1, DayAssumption
  <2> QED BY <1>1, <1>5, <2>1, <2>2 DEF w
<1> QED BY <1>1, <1>4, <1>5, DayAssumption

\* ... so that the window lies ahead, and keeps its time of day.
LEMMA NextDaily ==
  ASSUME NEW z, IsZone(z), NEW time \in (0..(Day - 1)) \ Shifted(z), NEW t \in Int
  PROVE  /\ NextDailyWindowStart(z, time, t) \in Int
         /\ t < NextDailyWindowStart(z, time, t)
         /\ TimeOfDay(z, NextDailyWindowStart(z, time, t)) = time
<1>1. PICK k \in Int :
        /\ NextDailyWindowStart(z, time, t) = Utc(z, k * Day + time)
        /\ Local(z, t) < k * Day + time
  BY NextWall
<1>2. k * Day + time \in Int /\ (k * Day + time) % Day = time
  BY TimeOf
<1>3. /\ Utc(z, k * Day + time) \in Int
      /\ Local(z, Utc(z, k * Day + time)) = k * Day + time
      /\ Utc(z, k * Day + time) <= t <=> k * Day + time <= Local(z, t)
  BY <1>2, Unshifted, LocalType
<1>4. Local(z, t) \in Int
  BY LocalType
<1> QED BY <1>1, <1>2, <1>3, <1>4 DEF TimeOfDay

\* current_or_next_daily_window_start of a window of a day or longer: it is not
\* over, and has begun unless the zone repeats an hour.
LEMMA AllDayStart ==
  ASSUME NEW z, IsZone(z), NEW time \in 0..(Day - 1), NEW t \in Int,
         NEW duration \in Nat, Day <= duration
  PROVE  LET start == CurrentOrNextDailyWindowStart(z, time, duration, t)
         IN  /\ start \in Int
             /\ t < start + duration
             /\ start < t + Greater(1, Repeated(z))
<1> DEFINE w == Local(z, t)
           wall == Today(z, time, t)
           today == Utc(z, wall)
<1>1. w \in Int /\ wall \in Int /\ wall < w + Day /\ w < wall + Day
  <2>1. /\ w \in Int /\ w \div Day \in Int /\ (w \div Day) * Day \in Int
        /\ (w \div Day) * Day <= w /\ w < (w \div Day) * Day + Day
    BY LocalType, DayOf
  <2> HIDE DEF w
  <2>2. wall = (w \div Day) * Day + time
    BY DEF Today, w
  <2> QED BY <2>1, <2>2, DayAssumption
<1>2. /\ z.at \in Int /\ z.before \in Int /\ z.after \in Int
      /\ z.before <= z.after + Day /\ z.after <= z.before + Day
  BY ZoneType
<1>3. w = t + (IF t < z.at THEN z.before ELSE z.after)
  BY DEF Local
<1>4. /\ today \in Int
      /\ today = wall - z.before \/ today = wall - z.after
      /\ z.before < z.after =>
           today = wall - (IF wall < z.at + z.after THEN z.before ELSE z.after)
      /\ z.after <= z.before =>
           today = wall - (IF wall < z.at + z.before THEN z.before ELSE z.after)
  BY <1>1, <1>2 DEF Utc
<1> HIDE DEF w, wall, today
<1>5. /\ today < t + Day + Greater(1, Repeated(z))
      /\ t < today + Day + Day
  <2>1. Greater(1, Repeated(z)) \in Int /\ 1 <= Greater(1, Repeated(z))
        /\ z.before - z.after <= Greater(1, Repeated(z))
    BY <1>2 DEF Greater, Repeated
  <2>2. CASE z.before < z.after
    BY <1>1, <1>2, <1>3, <1>4, <2>1, <2>2, DayAssumption
  <2>3. CASE z.after <= z.before
    BY <1>1, <1>2, <1>3, <1>4, <2>1, <2>3, DayAssumption
  <2> QED BY <1>2, <2>2, <2>3
<1>6. Greater(1, Repeated(z)) \in Int /\ 1 <= Greater(1, Repeated(z))
  BY <1>2 DEF Greater, Repeated
<1>7. CurrentOrNextDailyWindowStart(z, time, duration, t) =
        IF today > t
          THEN IF today - Day + duration > t THEN today - Day ELSE today
          ELSE IF today + duration > t THEN today ELSE today + Day
  BY DEF CurrentOrNextDailyWindowStart, today, wall
<1> QED BY <1>4, <1>5, <1>6, <1>7, DayAssumption

-----------------------------------------------------------------------------
(* next_daily_window_start, against all the starts of a daily window. *)

LEMMA DayOrder ==
  ASSUME NEW i \in Int, NEW j \in Int, i * Day < j * Day
  PROVE  i < j
<1> SUFFICES ASSUME j <= i PROVE FALSE
  OBVIOUS
<1>1. \A a, b, c \in Int : a <= b /\ 0 < c => a * c <= b * c
  OBVIOUS
<1>2. j * Day <= i * Day
  BY <1>1, DayAssumption
<1> QED BY <1>2, DayAssumption

LEMMA LeastIs ==
  ASSUME NEW S \in SUBSET Int, NEW x \in S, \A y \in S : x <= y
  PROVE  Least(S) = x
<1>1. /\ Least(S) \in S
      /\ \A y \in S : Least(S) <= y
  BY DEF Least
<1>2. Least(S) \in Int /\ x \in Int /\ Least(S) <= x /\ x <= Least(S)
  BY <1>1
<1> QED BY <1>2

\* A nonempty set of times has a least one.
LEMMA LeastExists ==
  ASSUME NEW T \in SUBSET Nat, T # {}
  PROVE  Least(T) \in T /\ \A x \in T : Least(T) <= x
<1> DEFINE R == OpToRel(<, Nat)
<1>1. IsWellFoundedOn(R, Nat)
  BY NatLessThanWellFounded
<1> HIDE DEF R
<1>2. PICK x \in T : \A y \in T : ~(<< y, x >> \in R)
  BY <1>1, WFMin
<1>3. \A y \in T : x <= y
  <2> SUFFICES ASSUME NEW y \in T, y < x PROVE FALSE
    OBVIOUS
  <2>1. << y, x >> \in R
    BY DEF OpToRel, R
  <2> QED BY <1>2, <2>1
<1> QED BY <1>3 DEF Least

\* A start after now that is not the next one comes after it.
LEMMA LaterStarts ==
  ASSUME NEW z, IsZone(z), NEW time \in (0..(Day - 1)) \ Shifted(z), NEW t \in Int,
         NEW k \in Int,
         k * Day + time <= Local(z, t) + Day,
         NEW i \in Int, t < Utc(z, i * Day + time)
  PROVE  Utc(z, k * Day + time) <= Utc(z, i * Day + time)
<1> DEFINE v == k * Day + time
           w == i * Day + time
           s == Utc(z, w)
<1>1. /\ v \in Int /\ v % Day = time
      /\ w \in Int /\ w % Day = time
  BY TimeOf
<1>2. Local(z, t) \in Int /\ s \in Int
  BY <1>1, LocalType
<1>3. Local(z, t) < w
  BY <1>1, <1>2, Unshifted
<1>4. k * Day < (i + 1) * Day
  BY <1>2, <1>3, TheDayAfter, DayAssumption
<1>5. k <= i
  BY <1>4, DayOrder
<1>6. v <= w
  <2>1. \A a, b, c \in Int : a <= b /\ 0 < c => a * c <= b * c
    OBVIOUS
  <2> QED BY <1>5, <2>1, DayAssumption
<1>7. Local(z, s) = w
  BY <1>1, Unshifted
<1> QED BY <1>1, <1>2, <1>6, <1>7, Unshifted

LEMMA NextIsLeast ==
  ASSUME zone \in Zones, now \in 0..Horizon,
         NEW time \in (0..(Day - 1)) \ Shifted(zone)
  PROVE  NextDailyWindowStart(zone, time, now) = Least({ s \in Starts(time) : s > now })
<1> DEFINE last == (Horizon \div Day) + 2
           later == { s \in Starts(time) : s > now }
<1>0. IsZone(zone) /\ now \in Int
  BY ZonesAssumption
<1>1. PICK k \in Int :
        /\ NextDailyWindowStart(zone, time, now) = Utc(zone, k * Day + time)
        /\ Local(zone, now) < k * Day + time
        /\ k * Day + time <= Local(zone, now) + Day
  BY <1>0, NextWall
<1>2. Local(zone, now) \in Int /\ -Day < Local(zone, now)
      /\ Local(zone, now) < Horizon + Day
  <2>1. /\ zone.before \in Int /\ -Day < zone.before /\ zone.before < Day
        /\ zone.after \in Int /\ -Day < zone.after /\ zone.after < Day
    BY <1>0, ZoneType
  <2>2. Local(zone, now) = now + zone.before \/ Local(zone, now) = now + zone.after
    BY DEF Local
  <2> QED BY <2>1, <2>2, DayAssumption, TimesAssumption
<1>3. /\ last \in Int
      /\ Horizon < (last - 1) * Day
  BY DayAssumption, TimesAssumption
<1> HIDE DEF last
<1>4. k \in -1..last
  <2> DEFINE x == k * Day
             y == (last - 1) * Day
  <2>1. /\ x \in Int /\ y \in Int /\ Horizon < y
        /\ (-2) * Day = -Day - Day
        /\ (last + 1) * Day = y + Day + Day
        /\ Local(zone, now) < x + time /\ x + time <= Local(zone, now) + Day
    BY <1>1, <1>3, DayAssumption
  <2> HIDE DEF x, y
  <2>2. (-2) * Day < x
    BY <1>2, <2>1, DayAssumption
  <2>3. x < (last + 1) * Day
    BY <1>2, <2>1, DayAssumption, TimesAssumption
  <2> QED BY <1>3, <2>2, <2>3, DayOrder DEF x
<1>5. Starts(time) = { Utc(zone, i * Day + time) : i \in -1..last }
  BY DEF Starts, last
<1>6. later \in SUBSET Int
  <2>1. \A i \in Int : Utc(zone, i * Day + time) \in Int
    BY <1>0, TimeOf, LocalType
  <2> QED BY <1>3, <1>5, <2>1
<1>7. NextDailyWindowStart(zone, time, now) \in later
  BY <1>0, <1>1, <1>4, <1>5, NextDaily
<1>8. \A s \in later : NextDailyWindowStart(zone, time, now) <= s
  BY <1>0, <1>1, <1>3, <1>5, LaterStarts
<1> HIDE DEF later
<1>9. Least(later) = NextDailyWindowStart(zone, time, now)
  BY <1>6, <1>7, <1>8, LeastIs
<1> QED BY <1>9 DEF later

-----------------------------------------------------------------------------
(* The invariant of the daemon. *)

\* A row has been searched in this cycle, or is about to be.
Serving == { "search", "retry", "resched", "backoff" }
Working == Serving \cup { "start" }

TimedRow ==
  [ status : { "scheduled", "watching", "expired" },
    start : Int, end : Int, next : Int ]

Store ==
  /\ row \in [Rows -> TimedRow]
  /\ \A d \in Rows :
       /\ row[d].end = row[d].start + Plan[d].duration
       /\ row[d].status = "expired" <=> row[d].next = NoTime
  /\ aim \in [Rows -> { "none", "start", "now", "planned" }]
  /\ bypassed \in [Rows -> Nat]

Control ==
  /\ pc \in PCs
  /\ picked \in Rows \cup { NoRow }
  /\ pc \notin Working <=> picked = NoRow
  /\ cycle \in Int /\ previous \in Int
  /\ wait \in Nat /\ retries \in 0..Len(Delays)

Clock ==
  /\ now \in 0..Horizon /\ zone \in Zones
  /\ daily \in [Rows -> 0..(Day - 1)] /\ Steady
  /\ since \in Int /\ (pc = "down" <=> since = NoTime)
  /\ searched \in [Rows -> Int]

TypeInv == Store /\ Control /\ Clock

\* A window that is not far ahead, or is the first of a row given a date.
Begun(d, start) ==
  \/ start < now + Greater(1, Repeated(zone))
  \/ Plan[d].start = "date" /\ start = Plan[d].time

\* A row that is watched or scheduled is due within its window.  A row added
\* with a date that is past is not, until recover expires it.
InWindow(r) ==
  /\ 0 <= r.next /\ r.start <= r.next
  /\ r.next <= r.end \/ (pc \in { "down", "recover" } /\ r.end <= now)

\* Only a row watched once expires; a short daily window keeps its time of day,
\* and a longer one has begun, but for the hour the zone repeats, unless it is
\* the one of the date that was given.
InPlan(d, r) ==
  /\ r.status # "expired" => InWindow(r)
  /\ IsDaily(d) => r.status # "expired"
  /\ IsDaily(d) /\ ~AllDay(d) => TimeOfDay(zone, r.start) = daily[d]
  /\ AllDay(d) => Begun(d, r.start)

Windows == \A d \in Rows : InPlan(d, row[d])

\* The cycle works at the time of its reading of the clock, with a row that
\* was due then and was in its window.
InCycle ==
  /\ pc \in { "select", "start" } =>
       cycle = now /\ \A d \in Monitored : now < row[d].end
  /\ pc \in Working =>
       /\ picked \in Monitored
       /\ row[picked].next <= cycle /\ cycle < row[picked].end
  /\ pc \in Serving => searched[picked] = cycle

\* The daemon wakes before anything is due.
Asleep == pc = "sleep" => \A d \in Monitored : now + wait <= row[d].next

\* A check that a search has planned is not too early, or is not to happen.
Planned ==
  \A d \in Rows :
    aim[d] = "planned" /\ searched[d] # NoTime /\ ~(pc \in Serving /\ d = picked) =>
      row[d].next = row[d].end \/ searched[d] + MinSafe <= row[d].next

\* Rows that come after d, the one being searched included.
Ahead(d) ==
  { e \in Rows \ { d } : \/ e = picked
                        \/ row[e].status = "expired"
                        \/ row[d].next < row[e].next }

\* The rows that d has let pass come after it now.
InTurn ==
  \A d \in Rows :
    /\ bypassed[d] <= Cardinality(Ahead(d))
    /\ bypassed[d] # 0 /\ pc \in Working => d # picked /\ row[d].next <= cycle

Timely == Windows /\ InCycle /\ Asleep /\ Planned /\ InTurn

TimedInv == TypeInv /\ Timely

-----------------------------------------------------------------------------
(* The rows that the code stores. *)

\* A row of d, stored at the present time.
Fits(d, r) ==
  /\ r \in TimedRow
  /\ r.end = r.start + Plan[d].duration
  /\ r.status = "expired" <=> r.next = NoTime
  /\ r.status # "expired" => 0 <= r.next /\ r.start <= r.next /\ r.next <= r.end
  /\ IsDaily(d) => r.status # "expired"
  /\ IsDaily(d) /\ ~AllDay(d) => TimeOfDay(zone, r.start) = daily[d]
  /\ AllDay(d) => Begun(d, r.start)

LEMMA PlanType ==
  ASSUME NEW d \in Rows
  PROVE  /\ Plan[d].time \in Int /\ Plan[d].duration \in Nat /\ 0 < Plan[d].duration
         /\ Plan[d].interval \in Nat
         /\ Plan[d].start \in { "nothing", "time", "date" }
         /\ Plan[d].start = "time" => Plan[d].time \in 0..(Day - 1)
         /\ IsDaily(d) <=> Plan[d].type # "once"
         /\ AllDay(d) <=> IsDaily(d) /\ Day <= Plan[d].duration
         /\ d \in Nat /\ d # NoRow
  BY PlanAssumption, TimesAssumption, DayAssumption DEF IsDaily, AllDay, NoRow

LEMMA RowFacts ==
  ASSUME TypeInv, NEW d \in Rows
  PROVE  /\ row[d] \in TimedRow
         /\ row[d].start \in Int /\ row[d].end \in Int /\ row[d].next \in Int
         /\ row[d].end = row[d].start + Plan[d].duration
         /\ row[d].status = "expired" <=> row[d].next = NoTime
         /\ now \in Nat /\ now <= Horizon /\ zone \in Zones /\ IsZone(zone)
         /\ daily[d] \in 0..(Day - 1)
         /\ IsDaily(d) /\ ~AllDay(d) => daily[d] \notin Shifted(zone)
<1>1. /\ row[d] \in TimedRow
      /\ row[d].end = row[d].start + Plan[d].duration
      /\ row[d].status = "expired" <=> row[d].next = NoTime
  BY DEF TypeInv, Store
<1>2. row[d].start \in Int /\ row[d].end \in Int /\ row[d].next \in Int
  BY <1>1 DEF TimedRow
<1>3. now \in Nat /\ now <= Horizon /\ zone \in Zones /\ IsZone(zone)
  BY ZonesAssumption, TimesAssumption DEF TypeInv, Clock
<1>4. /\ daily[d] \in 0..(Day - 1)
      /\ IsDaily(d) /\ ~AllDay(d) => daily[d] \notin Shifted(zone)
  BY DEF TypeInv, Clock, Steady
<1> QED BY <1>1, <1>2, <1>3, <1>4

\* A window that is not over: _set_daily_window, and add.
LEMMA WindowedFits ==
  ASSUME NEW d \in Rows, NEW start \in Int, NEW t \in Nat, t < start + Plan[d].duration
  PROVE  LET r == Windowed(d, start, t)
         IN  /\ r \in TimedRow
             /\ r.start = start /\ r.end = start + Plan[d].duration
             /\ r.status # "expired" /\ r.next # NoTime
             /\ t <= r.next /\ start <= r.next /\ r.next <= r.end /\ t < r.end
<1>1. Plan[d].duration \in Nat /\ 0 < Plan[d].duration
  BY PlanType
<1> QED BY <1>1 DEF Windowed, TimedRow, NoTime

\* The start that _current_or_next_daily_start computes.
LEMMA DailyStartFits ==
  ASSUME TypeInv, Windows, NEW d \in Rows, IsDaily(d)
  PROVE  /\ DailyStart(d, now) \in Int
         /\ now < DailyStart(d, now) + Plan[d].duration
         /\ ~AllDay(d) => TimeOfDay(zone, DailyStart(d, now)) = daily[d]
         /\ AllDay(d) => DailyStart(d, now) < now + Greater(1, Repeated(zone))
<1>1. /\ now \in Nat /\ zone \in Zones /\ IsZone(zone)
      /\ daily[d] \in 0..(Day - 1)
      /\ ~AllDay(d) => daily[d] \notin Shifted(zone)
      /\ Plan[d].duration \in Nat /\ 0 < Plan[d].duration
      /\ AllDay(d) <=> Day <= Plan[d].duration
  BY RowFacts, PlanType
<1>2. CASE AllDay(d)
  BY <1>1, <1>2, AllDayStart DEF DailyStart
<1>3. CASE ~AllDay(d)
  <2>1. TimeOfDay(zone, row[d].start) = daily[d]
    BY <1>3 DEF Windows, InPlan
  <2>2. DailyStart(d, now) = NextDailyWindowStart(zone, daily[d], now)
    BY <1>3, <2>1 DEF DailyStart, NextDailyWindowAfter
  <2> QED BY <1>1, <1>3, <2>2, NextDaily
<1> QED BY <1>2, <1>3

LEMMA RolledFits ==
  ASSUME TypeInv, Windows, NEW d \in Rows
  PROVE  /\ Fits(d, Rolled(d, now))
         /\ Rolled(d, now).status # "expired" =>
              now < Rolled(d, now).end /\ now <= Rolled(d, now).next
<1>0. row[d] \in TimedRow /\ row[d].end = row[d].start + Plan[d].duration /\ now \in Nat
  BY RowFacts
<1>1. CASE IsDaily(d)
  <2> DEFINE start == DailyStart(d, now)
             r == Windowed(d, start, now)
  <2>1. Rolled(d, now) = r
    BY <1>1 DEF Rolled
  <2>2. /\ start \in Int /\ now < start + Plan[d].duration
        /\ ~AllDay(d) => TimeOfDay(zone, start) = daily[d]
        /\ AllDay(d) => Begun(d, start)
    BY <1>1, DailyStartFits DEF Begun
  <2> HIDE DEF start
  <2>3. /\ r \in TimedRow
        /\ r.start = start /\ r.end = start + Plan[d].duration
        /\ r.status # "expired" /\ r.next # NoTime
        /\ now <= r.next /\ start <= r.next /\ r.next <= r.end /\ now < r.end
    BY <1>0, <2>2, WindowedFits
  <2> HIDE DEF r
  <2>4. 0 <= r.next
    BY <1>0, <2>3 DEF TimedRow
  <2> QED BY <2>1, <2>2, <2>3, <2>4 DEF Fits
<1>2. CASE ~IsDaily(d)
  <2> DEFINE r == [row[d] EXCEPT !.status = "expired", !.next = NoTime]
  <2>1. Rolled(d, now) = r
    BY <1>2 DEF Rolled
  <2>2. /\ r \in TimedRow /\ r.status = "expired" /\ r.next = NoTime
        /\ r.start = row[d].start /\ r.end = row[d].end
    <3>1. NoTime \in Int
      BY DEF NoTime
    <3> QED BY <1>0, <3>1 DEF TimedRow
  <2>3. ~AllDay(d)
    BY <1>2 DEF AllDay
  <2> HIDE DEF r
  <2> QED BY <1>0, <1>2, <2>1, <2>2, <2>3 DEF Fits
<1> QED BY <1>1, <1>2

LEMMA AlignedFits ==
  ASSUME TypeInv, Windows, NEW d \in Rows
  PROVE  Fits(d, Aligned(d, now))
<1>0. /\ row[d] \in TimedRow /\ row[d].end = row[d].start + Plan[d].duration
      /\ row[d].status = "expired" <=> row[d].next = NoTime
      /\ Plan[d].duration \in Nat /\ 0 < Plan[d].duration
      /\ now \in Nat
  BY RowFacts, PlanType
<1>1. InPlan(d, row[d])
  BY DEF Windows
<1>2. CASE now >= row[d].end
  <2>1. Aligned(d, now) = Rolled(d, now)
    BY <1>0, <1>2 DEF Aligned, TimedRow
  <2> QED BY <2>1, RolledFits
<1>3. CASE now < row[d].start
  <2> DEFINE r == [row[d] EXCEPT !.status = "scheduled", !.next = row[d].start]
  <2>1. Aligned(d, now) = r
    BY <1>0, <1>3 DEF Aligned, TimedRow
  <2>2. /\ r \in TimedRow /\ r.status = "scheduled" /\ r.next = row[d].start
        /\ r.start = row[d].start /\ r.end = row[d].end
    BY <1>0 DEF TimedRow
  <2> HIDE DEF r
  <2> QED BY <1>0, <1>1, <1>3, <2>1, <2>2 DEF Fits, InPlan, TimedRow, NoTime
<1>4. CASE row[d].start <= now /\ now < row[d].end
  <2> DEFINE next == Greater(row[d].next, now)
             r == [row[d] EXCEPT !.status = "watching", !.next = next]
  <2>1. Aligned(d, now) = r
    BY <1>0, <1>4 DEF Aligned, TimedRow
  <2>2. next \in Int /\ 0 <= next /\ now <= next /\ next <= row[d].end
    BY <1>0, <1>1, <1>4 DEF Greater, InPlan, InWindow, TimedRow, NoTime
  <2> HIDE DEF next
  <2>3. /\ r \in TimedRow /\ r.status = "watching" /\ r.next = next
        /\ r.start = row[d].start /\ r.end = row[d].end
    BY <1>0, <2>2 DEF TimedRow
  <2> HIDE DEF r
  <2> QED BY <1>0, <1>1, <1>4, <2>1, <2>2, <2>3 DEF Fits, InPlan, TimedRow, NoTime
<1> QED BY <1>0, <1>2, <1>3, <1>4 DEF TimedRow

-----------------------------------------------------------------------------
(* Types. *)

LEMMA TypeInvTypeOK ==
  ASSUME TypeInv
  PROVE  TypeOK
<1>1. pc \in { "down", "recover", "loop", "select", "sleep" } <=> picked = NoRow
  BY DEF TypeInv, Control, PCs, Working, Serving
<1>2. \A d \in Rows :
        /\ row[d].status \in { "scheduled", "watching", "expired" }
        /\ row[d].end = row[d].start + Plan[d].duration
        /\ row[d].status = "expired" <=> row[d].next = NoTime
  BY RowFacts DEF TimedRow
<1>3. /\ now \in 0..Horizon /\ zone \in Zones
      /\ pc = "down" <=> since = NoTime
  BY DEF TypeInv, Clock
<1>4. /\ pc \in PCs /\ picked \in Rows \cup { NoRow }
      /\ wait \in Nat /\ retries \in 0..Len(Delays)
  BY DEF TypeInv, Control
<1>5. aim \in [Rows -> { "none", "start", "now", "planned" }]
  BY DEF TypeInv, Store
<1> QED BY <1>1, <1>2, <1>3, <1>4, <1>5 DEF TypeOK

LEMMA InitFits ==
  ASSUME Init, NEW d \in Rows
  PROVE  /\ row[d] \in TimedRow
         /\ row[d].end = row[d].start + Plan[d].duration
         /\ row[d].status # "expired" /\ row[d].next # NoTime
         /\ InPlan(d, row[d])
<1> DEFINE start == FirstStart(d)
           time == Plan[d].time
<1>1. /\ now \in Nat /\ zone \in Zones /\ IsZone(zone) /\ pc = "down"
      /\ time \in Int /\ Plan[d].duration \in Nat /\ 0 < Plan[d].duration
      /\ Plan[d].start \in { "nothing", "time", "date" }
      /\ Plan[d].start = "time" => time \in 0..(Day - 1)
      /\ AllDay(d) => Day <= Plan[d].duration
      /\ daily[d] = DailyTime(d)
      /\ IsDaily(d) /\ ~AllDay(d) => daily[d] \notin Shifted(zone)
      /\ 1 <= Greater(1, Repeated(zone))
  <2>1. /\ now \in Nat /\ zone \in Zones /\ IsZone(zone) /\ pc = "down"
        /\ daily[d] = DailyTime(d)
        /\ IsDaily(d) /\ ~AllDay(d) => daily[d] \notin Shifted(zone)
    BY ZonesAssumption, DayAssumption DEF Init, Steady
  <2>2. 1 <= Greater(1, Repeated(zone))
    BY <2>1, ZoneType DEF Greater, Repeated
  <2> QED BY <2>1, <2>2, PlanType
<1>2. /\ start \in Int
      /\ IsDaily(d) /\ ~AllDay(d) => TimeOfDay(zone, start) = daily[d]
      /\ AllDay(d) => Begun(d, start)
  <2>1. CASE Plan[d].start = "nothing"
    <3>1. start = now /\ daily[d] = TimeOfDay(zone, start)
      BY <1>1, <2>1 DEF FirstStart, DailyTime
    <3> HIDE DEF start
    <3> QED BY <1>1, <3>1, ZoneType DEF Begun, Greater, Repeated
  <2>2. CASE Plan[d].start = "date"
    <3>1. start = time /\ daily[d] = TimeOfDay(zone, start)
      BY <1>1, <2>2 DEF FirstStart, DailyTime
    <3> HIDE DEF start
    <3> QED BY <1>1, <2>2, <3>1 DEF Begun
  <2>3. CASE Plan[d].start = "time" /\ AllDay(d)
    <3>1. start = CurrentOrNextDailyWindowStart(zone, time, Plan[d].duration, now)
      BY <2>3 DEF FirstStart
    <3> HIDE DEF start
    <3> QED BY <1>1, <2>3, <3>1, AllDayStart DEF Begun
  <2>4. CASE Plan[d].start = "time" /\ ~AllDay(d)
    <3>1. start = NextDailyWindowStart(zone, time, now) /\ daily[d] = time
      BY <1>1, <2>4 DEF FirstStart, DailyTime
    <3>2. PICK k \in Int : start = Utc(zone, k * Day + time)
      BY <1>1, <2>4, <3>1, NextWall
    <3> HIDE DEF start
    <3>3. start \in Int
      BY <1>1, <2>4, <3>2, TimeOf, LocalType
    <3>4. IsDaily(d) => TimeOfDay(zone, start) = daily[d]
      BY <1>1, <2>4, <3>1, NextDaily
    <3> QED BY <2>4, <3>3, <3>4
  <2> QED BY <1>1, <2>1, <2>2, <2>3, <2>4
<1>3. row[d] = Added(d)
  BY DEF Init
<1> HIDE DEF start
<1>4. /\ row[d] \in TimedRow
      /\ row[d].start = start /\ row[d].end = start + Plan[d].duration
      /\ row[d].status # "expired"
      /\ row[d].next = IF start > now THEN start ELSE now
  BY <1>1, <1>2, <1>3 DEF Added, TimedRow, start
<1>5. InWindow(row[d])
  BY <1>1, <1>2, <1>4 DEF InWindow
<1> QED BY <1>1, <1>2, <1>4, <1>5 DEF InPlan, NoTime

LEMMA InitType ==
  ASSUME Init
  PROVE  TypeInv
<1>1. row \in [Rows -> TimedRow]
  BY InitFits DEF Init
<1>2. Store
  BY <1>1, InitFits DEF Init, Store
<1>3. Control
  BY DEF Init, Control, PCs, Working, Serving, NoTime
<1>4. daily \in [Rows -> 0..(Day - 1)]
  <2> SUFFICES ASSUME NEW d \in Rows PROVE DailyTime(d) \in 0..(Day - 1)
    BY DEF Init
  <2>1. CASE Plan[d].start = "time"
    BY <2>1, PlanType DEF DailyTime
  <2>2. CASE Plan[d].start # "time"
    <3>1. FirstStart(d) \in Int
      <4>1. row[d] = Added(d) /\ row[d].start \in Int
        BY InitFits DEF Init, TimedRow
      <4> QED BY <4>1 DEF Added
    <3>2. Local(zone, FirstStart(d)) \in Int
      BY <3>1, ZonesAssumption, LocalType DEF Init
    <3> QED BY <2>2, <3>2, DayAssumption DEF DailyTime, TimeOfDay
  <2> QED BY <2>1, <2>2
<1>5. Clock
  BY <1>4, TimesAssumption, DayAssumption DEF Init, Clock, NoTime
<1> QED BY <1>2, <1>3, <1>5 DEF TypeInv

\* Rows that fit are stored.
LEMMA CommitType ==
  ASSUME TypeInv, NEW moved \in SUBSET Rows, NEW new, Commit(moved, new, now),
         \A d \in moved : Fits(d, new[d])
  PROVE  Store'
<1>1. row' \in [Rows -> TimedRow]
  BY DEF Commit, Fits, TypeInv, Store
<1>2. \A d \in Rows :
        /\ row'[d].end = row'[d].start + Plan[d].duration
        /\ row'[d].status = "expired" <=> row'[d].next = NoTime
  BY DEF Commit, Fits, TypeInv, Store
<1>3. aim' \in [Rows -> { "none", "start", "now", "planned" }]
  BY DEF Commit, AimOf, TypeInv, Store
<1>4. bypassed' \in [Rows -> Nat]
  BY DEF Commit, TypeInv, Store
<1> QED BY <1>1, <1>2, <1>3, <1>4 DEF Store

LEMMA RecoverType ==
  ASSUME TypeInv, Windows, Recover
  PROVE  TypeInv'
<1> DEFINE new == [ d \in Rows |-> Aligned(d, now) ]
<1>1. Commit(Rows, new, now)
  BY DEF Recover
<1>2. \A d \in Rows : Fits(d, new[d])
  BY AlignedFits
<1>3. Store'
  BY <1>1, <1>2, CommitType
<1>4. Control' /\ Clock'
  BY DEF Recover, TypeInv, Control, Clock, Steady, IsDaily, AllDay, locals, PCs, Working, Serving
<1> QED BY <1>3, <1>4 DEF TypeInv

LEMMA ExpireType ==
  ASSUME TypeInv, Windows, ExpireDueWindows
  PROVE  TypeInv'
<1> DEFINE new == [ d \in Rows |-> Rolled(d, now) ]
           moved == { d \in Monitored : row[d].end <= now }
<1>1. Commit(moved, new, now)
  BY DEF ExpireDueWindows
<1>2. moved \in SUBSET Rows
  BY DEF Monitored
<1>3. \A d \in moved : Fits(d, new[d])
  BY <1>2, RolledFits
<1> HIDE DEF new, moved
<1>4. Store'
  BY <1>1, <1>2, <1>3, CommitType
<1>5. now \in Int
  BY TimesAssumption DEF TypeInv, Clock
<1>6. Control' /\ Clock'
  BY <1>5
     DEF ExpireDueWindows, TypeInv, Control, Clock, Steady, IsDaily, AllDay, PCs, Working, Serving
<1> QED BY <1>4, <1>6 DEF TypeInv

LEMMA SelectType ==
  ASSUME TypeInv, SelectDueDomain
  PROVE  TypeInv'
<1>1. PICK d \in Due :
        /\ picked' = d /\ previous' = row[d].next
        /\ bypassed' = [ e \in Rows |-> IF e \in Due \ { d } THEN bypassed[e] + 1
                                        ELSE 0 ]
  BY DEF SelectDueDomain
<1>2. d \in Rows /\ d # NoRow /\ row[d].next \in Int
  BY RowFacts, PlanType DEF Due, Monitored
<1>3. Store'
  BY <1>1 DEF SelectDueDomain, TypeInv, Store
<1>4. Control' /\ Clock'
  BY <1>1, <1>2
     DEF SelectDueDomain, TypeInv, Control, Clock, Steady, IsDaily, AllDay, PCs, Working, Serving
<1> QED BY <1>3, <1>4 DEF TypeInv

\* The daemon never sleeps longer than a row lets it.
LEMMA UntilNext ==
  ASSUME TypeInv, Windows
  PROVE  /\ SecondsUntilNextDue \in Nat
         /\ \A d \in Monitored : now < row[d].next =>
              now + SecondsUntilNextDue <= row[d].next
<1> DEFINE times == { row[d].next : d \in Rows } \ { NoTime }
<1>0. now \in Nat /\ MaxSleep \in Nat \ { 0 }
  BY TimesAssumption DEF TypeInv, Clock
<1>1. times \subseteq Nat
  <2> SUFFICES ASSUME NEW d \in Rows, row[d].next # NoTime
               PROVE  row[d].next \in Nat
    OBVIOUS
  <2>1. row[d].next \in Int /\ row[d].status # "expired"
    BY RowFacts
  <2> QED BY <2>1 DEF Windows, InPlan, InWindow
<1>2. \A d \in Monitored : row[d].next \in times
  <2>1. \A d \in Monitored : d \in Rows /\ row[d].next # NoTime
    BY RowFacts DEF Monitored
  <2> QED BY <2>1
<1> HIDE DEF times
<1>3. CASE times = {}
  BY <1>0, <1>2, <1>3 DEF SecondsUntilNextDue, times
<1>4. CASE times # {}
  <2>1. Least(times) \in times /\ \A x \in times : Least(times) <= x
    BY <1>1, <1>4, LeastExists
  <2>2. SecondsUntilNextDue = Smaller(MaxSleep, Greater(0, Least(times) - now))
    BY <1>4 DEF SecondsUntilNextDue, times
  <2>3. /\ Least(times) \in Nat
        /\ \A d \in Monitored : row[d].next \in Nat /\ Least(times) <= row[d].next
    BY <1>1, <1>2, <2>1
  <2> QED BY <1>0, <2>2, <2>3 DEF Smaller, Greater
<1> QED BY <1>3, <1>4

LEMMA NothingDueType ==
  ASSUME TypeInv, Windows, NothingDue
  PROVE  TypeInv'
<1>1. Store'
  BY DEF NothingDue, TypeInv, Store
<1>2. Control' /\ Clock'
  BY UntilNext
     DEF NothingDue, TypeInv, Control, Clock, Steady, IsDaily, AllDay, PCs, Working, Serving, NoTime
<1> QED BY <1>1, <1>2 DEF TypeInv

LEMMA WakeType ==
  ASSUME TypeInv, Wake
  PROVE  TypeInv'
<1>1. Store'
  BY DEF Wake, TypeInv, Store
<1>2. Control' /\ Clock'
  BY DEF Wake, locals, TypeInv, Control, Clock, Steady, IsDaily, AllDay, PCs, Working, Serving
<1> QED BY <1>1, <1>2 DEF TypeInv

LEMMA StatusSet ==
  ASSUME TypeInv, NEW d \in Monitored
  PROVE  LET r == [row[d] EXCEPT !.status = "watching"]
         IN  /\ r \in TimedRow /\ r.status = "watching"
             /\ r.start = row[d].start /\ r.end = row[d].end
             /\ r.next = row[d].next /\ r.next # NoTime
<1>1. d \in Rows /\ row[d] \in TimedRow /\ row[d].next # NoTime
  BY RowFacts DEF Monitored
<1> QED BY <1>1 DEF TimedRow

LEMMA StartCheckType ==
  ASSUME TypeInv, InCycle, StartCheck
  PROVE  TypeInv'
<1> DEFINE r == [row[picked] EXCEPT !.status = "watching"]
<1>1. picked \in Monitored /\ picked \in Rows /\ now \in Int
  BY TimesAssumption DEF InCycle, StartCheck, Working, Monitored, TypeInv, Clock
<1>2. row' = [row EXCEPT ![picked] = r]
  BY DEF StartCheck
<1>3. /\ r \in TimedRow /\ r.end = r.start + Plan[picked].duration
      /\ r.status # "expired" /\ r.next # NoTime
  BY <1>1, StatusSet, RowFacts
<1> HIDE DEF r
<1>4. Store'
  BY <1>1, <1>2, <1>3 DEF StartCheck, TypeInv, Store
<1>5. Control' /\ Clock'
  BY <1>1, TimesAssumption
     DEF StartCheck, TypeInv, Control, Clock, Steady, IsDaily, AllDay, PCs, Working, Serving
<1> QED BY <1>4, <1>5 DEF TypeInv

\* The search itself leaves the rows alone.
LEMMA SearchType ==
  ASSUME TypeInv, SearchReply \/ SearchRetry \/ SendAgain \/ SearchFails
  PROVE  TypeInv'
<1>1. Store' /\ Clock'
  BY DEF SearchReply, SearchRetry, SendAgain, SearchFails, TypeInv, Store,
         Clock, Steady, IsDaily, AllDay
<1>2. ASSUME SearchReply PROVE Control'
  BY <1>2 DEF SearchReply, TypeInv, Control, PCs, Working, Serving
<1>3. ASSUME SearchRetry PROVE Control'
  <2>1. Delays[retries + 1] \in Nat /\ retries + 1 \in 0..Len(Delays)
    BY <1>3, TimesAssumption DEF SearchRetry, TypeInv, Control
  <2> QED BY <1>3, <2>1 DEF SearchRetry, TypeInv, Control, PCs, Working, Serving
<1>4. ASSUME SendAgain PROVE Control'
  BY <1>4, TimesAssumption DEF SendAgain, TypeInv, Control, PCs, Working, Serving
<1>5. ASSUME SearchFails PROVE Control'
  BY <1>5 DEF SearchFails, TypeInv, Control, PCs, Working, Serving
<1>6. Control'
  BY <1>2, <1>3, <1>4, <1>5
<1> QED BY <1>1, <1>6 DEF TypeInv

\* The next check that a search plans.
LEMMA NextCheckFits ==
  ASSUME TypeInv, Windows, InCycle, pc \in Serving
  PROVE  /\ picked \in Rows /\ NextCheck(picked) \in Int
         /\ row[picked].next <= cycle /\ cycle < NextCheck(picked)
         /\ row[picked].status # "expired"
         /\ 0 <= cycle /\ row[picked].start <= cycle
         /\ NextCheck(picked) <= row[picked].end
         /\ \/ NextCheck(picked) = row[picked].end
            \/ cycle + MinSafe <= NextCheck(picked)
<1>1. /\ picked \in Rows /\ row[picked].status # "expired"
      /\ row[picked].next <= cycle /\ cycle < row[picked].end
  BY DEF InCycle, Working, Monitored
<1>2. /\ cycle \in Int /\ previous \in Int
      /\ row[picked].start \in Int /\ row[picked].next \in Int
      /\ row[picked].end \in Int /\ Plan[picked].interval \in Nat
      /\ MinSafe \in Nat /\ 0 < MinSafe
  BY <1>1, RowFacts, PlanType, TimesAssumption DEF TypeInv, Control
<1>3. 0 <= row[picked].next /\ row[picked].start <= row[picked].next
  BY <1>1 DEF Windows, InPlan, InWindow
<1>4. \/ NextCheck(picked) = row[picked].end
      \/ /\ NextCheck(picked) = Greater(previous + Plan[picked].interval, cycle + MinSafe)
         /\ NextCheck(picked) <= row[picked].end
  BY <1>2 DEF NextCheck, Smaller, Greater
<1>5. /\ Greater(previous + Plan[picked].interval, cycle + MinSafe) \in Int
      /\ cycle + MinSafe <= Greater(previous + Plan[picked].interval, cycle + MinSafe)
  BY <1>2 DEF Greater
<1> QED BY <1>1, <1>2, <1>3, <1>4, <1>5

\* The row that a search has planned anew.
LEMMA RescheduledRow ==
  ASSUME TypeInv, Windows, InCycle, Reschedule
  PROVE  LET r == [row[picked] EXCEPT !.next = NextCheck(picked), !.status = "watching"]
         IN  /\ row' = [row EXCEPT ![picked] = r]
             /\ r \in TimedRow /\ r.status = "watching" /\ r.next = NextCheck(picked)
             /\ r.start = row[picked].start /\ r.end = row[picked].end
             /\ r.next # NoTime
<1> DEFINE r == [row[picked] EXCEPT !.next = NextCheck(picked), !.status = "watching"]
<1>1. /\ picked \in Rows /\ NextCheck(picked) \in Int
      /\ cycle \in Int /\ 0 <= cycle /\ cycle < NextCheck(picked)
  BY NextCheckFits DEF Reschedule, Serving, TypeInv, Control
<1>2. row \in [Rows -> TimedRow] /\ row[picked] \in TimedRow
  BY <1>1 DEF TypeInv, Store
<1>3. row' = [row EXCEPT ![picked] = r]
  BY <1>1, <1>2 DEF Reschedule, TimedRow
<1>4. /\ r \in TimedRow /\ r.status = "watching" /\ r.next = NextCheck(picked)
      /\ r.start = row[picked].start /\ r.end = row[picked].end
  BY <1>1, <1>2 DEF TimedRow
<1>5. NextCheck(picked) # NoTime
  BY <1>1 DEF NoTime
<1> QED BY <1>3, <1>4, <1>5

LEMMA RescheduleType ==
  ASSUME TypeInv, Windows, InCycle, Reschedule
  PROVE  TypeInv'
<1> DEFINE r == [row[picked] EXCEPT !.next = NextCheck(picked), !.status = "watching"]
<1>1. /\ picked \in Rows
      /\ row' = [row EXCEPT ![picked] = r]
      /\ r \in TimedRow /\ r.status # "expired" /\ r.next # NoTime
      /\ r.end = r.start + Plan[picked].duration
  BY RescheduledRow, RowFacts DEF InCycle, Reschedule, Working, Serving, Monitored
<1> HIDE DEF r
<1>2. Store'
  BY <1>1, ZenonT(60) DEF Reschedule, TypeInv, Store
<1>3. Control' /\ Clock'
  BY DEF Reschedule, Forget, TypeInv, Control, Clock, Steady, IsDaily, AllDay, PCs,
         Working, Serving, NoTime
<1> QED BY <1>2, <1>3 DEF TypeInv

LEMMA EnvironmentType ==
  ASSUME TypeInv, Start \/ Crash \/ Tick
  PROVE  TypeInv'
<1>1. CASE Start
  <2>1. now \in Int /\ now # NoTime
    BY TimesAssumption DEF TypeInv, Clock, NoTime
  <2>2. Store' /\ Control'
    BY <1>1 DEF Start, locals, TypeInv, Store, Control, PCs, Working, Serving
  <2>3. Clock'
    BY <1>1, <2>1 DEF Start, TypeInv, Clock, Steady, IsDaily, AllDay
  <2> QED BY <2>2, <2>3 DEF TypeInv
<1>2. CASE Crash
  <2>1. Store'
    BY <1>2 DEF Crash, TypeInv, Store
  <2>2. Control'
    BY <1>2 DEF Crash, Forget, TypeInv, Control, PCs, Working, Serving, NoTime
  <2>3. Clock'
    BY <1>2 DEF Crash, TypeInv, Clock, Steady, IsDaily, AllDay, NoTime
  <2> QED BY <2>1, <2>2, <2>3 DEF TypeInv
<1>3. CASE Tick
  <2>1. Store'
    BY <1>3 DEF Tick, TypeInv, Store
  <2>2. Control'
    BY <1>3 DEF Tick, TypeInv, Control, PCs, Working, Serving
  <2>3. Clock'
    BY <1>3, TimesAssumption DEF Tick, TypeInv, Clock, Steady, IsDaily, AllDay
  <2> QED BY <2>1, <2>2, <2>3 DEF TypeInv
<1> QED BY <1>1, <1>2, <1>3

LEMMA StepType ==
  ASSUME TypeInv, Timely, Next
  PROVE  TypeInv'
<1>1. Windows /\ InCycle
  BY DEF Timely
<1> QED BY <1>1, RecoverType, ExpireType, SelectType, NothingDueType, WakeType,
           StartCheckType, SearchType, RescheduleType, EnvironmentType DEF Next

-----------------------------------------------------------------------------
(* Windows. *)

\* A row that fits keeps to its window and its plan.
LEMMA FitsInPlan ==
  ASSUME NEW d \in Rows, NEW r, Fits(d, r)
  PROVE  InPlan(d, r)
  BY DEF Fits, InPlan, InWindow

\* Time passes and no row changes.
LEMMA WindowsLast ==
  ASSUME TypeInv, Windows, UNCHANGED << zone, daily, row >>, now' \in Int, now <= now',
         pc \in { "down", "recover" } => pc' \in { "down", "recover" }
  PROVE  Windows'
<1> SUFFICES ASSUME NEW d \in Rows PROVE InPlan(d, row[d])'
  BY DEF Windows
<1>1. InPlan(d, row[d]) /\ row'[d] = row[d]
  BY DEF Windows
<1>2. row[d].end \in Int /\ row[d].start \in Int /\ now \in Int /\ IsZone(zone)
  BY RowFacts
<1>3. InWindow(row[d]) => InWindow(row[d])'
  BY <1>1, <1>2 DEF InWindow
<1>4. Greater(1, Repeated(zone)) \in Int /\ Repeated(zone)' = Repeated(zone)
  BY <1>2, ZoneType DEF Greater, Repeated
<1> HIDE DEF Windows
<1>5. /\ (row[d].status # "expired" => InWindow(row[d]))
      /\ (IsDaily(d) => row[d].status # "expired")
      /\ (IsDaily(d) /\ ~AllDay(d) => TimeOfDay(zone, row[d].start) = daily[d])
      /\ (AllDay(d) => Begun(d, row[d].start))
  BY <1>1 DEF InPlan
<1>6. AllDay(d) => Begun(d, row[d].start)'
  BY <1>1, <1>2, <1>4, <1>5 DEF Begun
<1> QED BY <1>1, <1>3, <1>5, <1>6 DEF InPlan, IsDaily, AllDay

\* The rows that are committed fit, and the others stay in their windows.
LEMMA CommitWindows ==
  ASSUME TypeInv, Windows, UNCHANGED << zone, daily, now >>,
         NEW moved \in SUBSET Rows, NEW new, Commit(moved, new, now),
         \A d \in moved : Fits(d, new[d]),
         pc \in { "down", "recover" } => moved = Rows
  PROVE  Windows'
<1> SUFFICES ASSUME NEW d \in Rows PROVE InPlan(d, row[d])'
  BY DEF Windows
<1>1. CASE d \in moved
  <2>1. row'[d] = new[d] /\ Fits(d, new[d])
    BY <1>1 DEF Commit
  <2> QED BY <2>1 DEF Fits, InPlan, InWindow, Begun, AllDay, IsDaily
<1>2. CASE d \notin moved
  <2>1. row'[d] = row[d] /\ pc \notin { "down", "recover" }
    BY <1>2 DEF Commit
  <2>2. InPlan(d, row[d])
    BY DEF Windows
  <2> QED BY <2>1, <2>2 DEF InPlan, InWindow, Begun, AllDay, IsDaily
<1> QED BY <1>1, <1>2

\* A search changes the status and the next check of its row.
LEMMA PickedWindows ==
  ASSUME TypeInv, Windows, InCycle, pc \in Working, UNCHANGED << zone, daily, now >>,
         NEW r, row' = [row EXCEPT ![picked] = r],
         r.start = row[picked].start, r.end = row[picked].end, r.status = "watching",
         0 <= r.next, r.start <= r.next, r.next <= r.end
  PROVE  Windows'
<1>0. picked \in Rows /\ picked \in Monitored
  BY DEF InCycle, Monitored
<1> SUFFICES ASSUME NEW d \in Rows PROVE InPlan(d, row[d])'
  BY DEF Windows
<1>1. InPlan(d, row[d])
  BY DEF Windows
<1>2. CASE d = picked
  <2>1. row'[d] = r
    BY <1>0, <1>2 DEF TypeInv, Store
  <2> QED BY <1>1, <1>2, <2>1 DEF InPlan, InWindow, Begun, AllDay, IsDaily
<1>3. CASE d # picked
  <2>1. row'[d] = row[d] /\ pc \notin { "down", "recover" }
    BY <1>3 DEF TypeInv, Store, Working, Serving
  <2> QED BY <1>1, <2>1 DEF InPlan, InWindow, Begun, AllDay, IsDaily
<1> QED BY <1>2, <1>3

LEMMA StepWindows ==
  ASSUME TypeInv, Timely, Next
  PROVE  Windows'
<1>0. Windows /\ InCycle /\ now \in Int
  BY TimesAssumption DEF Timely, TypeInv, Clock
<1>1. CASE Recover
  <2> DEFINE new == [ d \in Rows |-> Aligned(d, now) ]
  <2>1. Commit(Rows, new, now) /\ UNCHANGED << zone, daily, now >>
    BY <1>1 DEF Recover
  <2>2. \A d \in Rows : Fits(d, new[d])
    BY <1>0, AlignedFits
  <2> QED BY <1>0, <2>1, <2>2, CommitWindows
<1>2. CASE ExpireDueWindows
  <2> DEFINE new == [ d \in Rows |-> Rolled(d, now) ]
             moved == { d \in Monitored : row[d].end <= now }
  <2>1. Commit(moved, new, now) /\ UNCHANGED << zone, daily, now >> /\ pc = "loop"
    BY <1>2 DEF ExpireDueWindows
  <2>2. moved \in SUBSET Rows
    BY DEF Monitored
  <2>3. \A d \in moved : Fits(d, new[d])
    BY <1>0, <2>2, RolledFits
  <2> HIDE DEF new, moved
  <2> QED BY <1>0, <2>1, <2>2, <2>3, CommitWindows
<1>3. CASE StartCheck
  <2> DEFINE r == [row[picked] EXCEPT !.status = "watching"]
  <2>1. pc = "start" /\ row' = [row EXCEPT ![picked] = r] /\ UNCHANGED << zone, daily, now >>
    BY <1>3 DEF StartCheck
  <2>2. picked \in Monitored /\ InPlan(picked, row[picked])
    BY <1>0, <2>1 DEF InCycle, Working, Monitored, Windows
  <2>3. /\ r.start = row[picked].start /\ r.end = row[picked].end
        /\ r.next = row[picked].next /\ r.status = "watching"
    BY <2>2, StatusSet
  <2> HIDE DEF r
  <2>4. 0 <= r.next /\ r.start <= r.next /\ r.next <= r.end
    BY <2>1, <2>2, <2>3 DEF InPlan, InWindow, Monitored
  <2> QED BY <1>0, <2>1, <2>3, <2>4, PickedWindows DEF Working
<1>4. CASE Reschedule
  <2> DEFINE r == [row[picked] EXCEPT !.next = NextCheck(picked), !.status = "watching"]
  <2>1. /\ row' = [row EXCEPT ![picked] = r]
        /\ r.status = "watching" /\ r.next = NextCheck(picked)
        /\ r.start = row[picked].start /\ r.end = row[picked].end
    BY <1>0, <1>4, RescheduledRow
  <2>2. pc \in Serving /\ UNCHANGED << zone, daily, now >>
    BY <1>4 DEF Reschedule, Serving
  <2>3. /\ NextCheck(picked) \in Int /\ cycle < NextCheck(picked)
        /\ 0 <= cycle /\ row[picked].start <= cycle
        /\ NextCheck(picked) <= row[picked].end /\ cycle \in Int
        /\ row[picked].start \in Int
    BY <1>0, <2>2, NextCheckFits, RowFacts DEF TypeInv, Control
  <2> HIDE DEF r
  <2>4. 0 <= r.next /\ r.start <= r.next /\ r.next <= r.end
    BY <2>1, <2>3
  <2> QED BY <1>0, <2>1, <2>2, <2>4, PickedWindows DEF Working
<1>5. CASE \/ SelectDueDomain \/ NothingDue \/ Wake \/ SearchReply \/ SearchRetry
           \/ SendAgain \/ SearchFails \/ Start \/ Crash
  <2>1. /\ UNCHANGED << zone, daily, row, now >>
        /\ pc \in { "down", "recover" } => pc' \in { "down", "recover" }
    BY <1>5 DEF SelectDueDomain, NothingDue, Wake, SearchReply, SearchRetry, SendAgain,
                SearchFails, Start, Crash
  <2> QED BY <1>0, <2>1, WindowsLast
<1>6. CASE Tick
  <2>1. UNCHANGED << zone, daily, row, pc >> /\ now' = now + 1
    BY <1>6 DEF Tick
  <2> QED BY <1>0, <2>1, WindowsLast
<1> QED BY <1>1, <1>2, <1>3, <1>4, <1>5, <1>6 DEF Next

-----------------------------------------------------------------------------
(* The cycle. *)

\* A step within a search, or out of every cycle.
LEMMA CycleGoesOn ==
  ASSUME TypeInv, InCycle, pc' \notin { "select", "start" },
         pc' \in Working =>
           pc \in Serving /\ UNCHANGED << row, cycle, picked, searched >>
  PROVE  InCycle'
<1>1. pc' \in Serving => pc' \in Working
  BY DEF Working
<1>2. pc \in Serving => pc \in Working
  BY DEF Working
<1> QED BY <1>1, <1>2 DEF InCycle, Monitored

LEMMA StepInCycle ==
  ASSUME TypeInv, Timely, Next
  PROVE  InCycle'
<1>0. /\ Windows /\ InCycle /\ now \in Int /\ cycle \in Int
      /\ row \in [Rows -> TimedRow]
  BY TimesAssumption DEF Timely, TypeInv, Clock, Control, Store
<1>1. CASE ExpireDueWindows
  <2> DEFINE new == [ d \in Rows |-> Rolled(d, now) ]
             moved == { d \in Monitored : row[d].end <= now }
  <2>1. /\ Commit(moved, new, now) /\ UNCHANGED now
        /\ pc' = "select" /\ cycle' = now
    BY <1>1 DEF ExpireDueWindows
  <2>2. ASSUME NEW d \in Monitored' PROVE now < row'[d].end
    <3>1. d \in Rows /\ row'[d].status # "expired"
      BY <2>2 DEF Monitored
    <3>2. CASE d \in moved
      <4>1. row'[d] = Rolled(d, now)
        BY <2>1, <3>1, <3>2 DEF Commit
      <4> QED BY <1>0, <3>1, <4>1, RolledFits
    <3>3. CASE d \notin moved
      <4>1. row'[d] = row[d]
        BY <2>1, <3>1, <3>3 DEF Commit
      <4>2. d \in Monitored
        BY <2>2, <4>1 DEF Monitored
      <4> QED BY <1>0, <3>1, <3>3, <4>1, <4>2, RowFacts
    <3> QED BY <3>2, <3>3
  <2> QED BY <2>1, <2>2 DEF InCycle, Working, Serving
<1>2. CASE SelectDueDomain
  <2>1. PICK d \in Due : picked' = d
    BY <1>2 DEF SelectDueDomain
  <2>2. /\ pc = "select" /\ pc' = "start" /\ UNCHANGED << now, row, cycle >>
    BY <1>2 DEF SelectDueDomain
  <2>3. d \in Monitored /\ row[d].next <= cycle /\ Monitored' = Monitored
    BY <2>1, <2>2 DEF Due, Monitored
  <2> QED BY <1>0, <2>1, <2>2, <2>3 DEF InCycle, Serving
<1>3. CASE StartCheck
  <2> DEFINE r == [row[picked] EXCEPT !.status = "watching"]
  <2>1. /\ pc = "start" /\ pc' = "search" /\ UNCHANGED << cycle, picked >>
        /\ row' = [row EXCEPT ![picked] = r]
        /\ searched' = [searched EXCEPT ![picked] = now]
    BY <1>3 DEF StartCheck
  <2>2. /\ picked \in Monitored /\ picked \in Rows /\ cycle = now
        /\ row[picked].next <= cycle /\ cycle < row[picked].end
    BY <1>0, <2>1 DEF InCycle, Working, Monitored
  <2>3. r.end = row[picked].end /\ r.next = row[picked].next /\ r.status = "watching"
    BY <2>2, StatusSet
  <2> HIDE DEF r
  <2>4. row'[picked] = r /\ searched'[picked] = now
    BY <1>0, <2>1, <2>2 DEF TypeInv, Clock
  <2>5. picked \in Monitored'
    BY <2>2, <2>3, <2>4 DEF Monitored
  <2> QED BY <2>1, <2>2, <2>3, <2>4, <2>5 DEF InCycle
<1>4. CASE SearchReply \/ SearchRetry \/ SendAgain \/ SearchFails
  <2>1. /\ pc \in Serving /\ pc' \in Serving
        /\ UNCHANGED << row, cycle, picked, searched >>
    BY <1>4 DEF SearchReply, SearchRetry, SendAgain, SearchFails, Serving
  <2> QED BY <1>0, <2>1, CycleGoesOn DEF Serving
<1>5. CASE Recover \/ NothingDue \/ Wake \/ Reschedule \/ Start \/ Crash
  <2>1. pc' \in { "loop", "sleep", "recover", "down" }
    BY <1>5 DEF Recover, NothingDue, Wake, Reschedule, Start, Crash
  <2> QED BY <1>0, <2>1, CycleGoesOn DEF Working, Serving
<1>6. CASE Tick
  <2>1. /\ pc' = pc /\ UNCHANGED << row, cycle, picked, searched >>
        /\ pc \in { "down", "sleep", "search", "retry" }
    BY <1>6 DEF Tick
  <2> QED BY <1>0, <2>1, CycleGoesOn DEF Working, Serving
<1> QED BY <1>1, <1>2, <1>3, <1>4, <1>5, <1>6 DEF Next

LEMMA StepAsleep ==
  ASSUME TypeInv, Timely, Next
  PROVE  Asleep'
<1>0. Windows /\ InCycle /\ Asleep
  BY DEF Timely
<1>1. CASE NothingDue
  <2>1. /\ pc = "select" /\ Due = {} /\ wait' = SecondsUntilNextDue
        /\ UNCHANGED << now, row >>
    BY <1>1 DEF NothingDue
  <2>2. ASSUME NEW d \in Monitored PROVE now + wait' <= row[d].next
    <3>1. d \in Rows /\ row[d].next \in Int /\ row[d].next # NoTime /\ now \in Nat
      BY RowFacts DEF Monitored
    <3>2. ~(row[d].next <= now)
      BY <1>0, <2>1, <3>1 DEF Due, InCycle
    <3> QED BY <1>0, <2>1, <3>1, <3>2, UntilNext
  <2> QED BY <2>1, <2>2 DEF Asleep, Monitored
<1>2. CASE Tick
  <2>1. /\ pc' = pc /\ now' = now + 1 /\ row' = row
        /\ pc = "sleep" => wait > 0
        /\ wait' = IF wait > 0 THEN wait - 1 ELSE 0
    BY <1>2 DEF Tick
  <2>2. now \in Int /\ wait \in Nat
    BY DEF TypeInv, Clock, Control
  <2>3. pc = "sleep" => now' + wait' = now + wait
    BY <2>1, <2>2
  <2> QED BY <1>0, <2>1, <2>3 DEF Asleep, Monitored
<1>3. CASE ~NothingDue /\ ~Tick
  <2>1. pc' # "sleep"
    BY <1>3 DEF Next, Recover, ExpireDueWindows, SelectDueDomain, Wake, StartCheck,
                SearchReply, SearchRetry, SendAgain, SearchFails, Reschedule, Start, Crash
  <2> QED BY <2>1 DEF Asleep
<1> QED BY <1>1, <1>2, <1>3

-----------------------------------------------------------------------------
(* Planned checks. *)

\* A search goes on, or none is under way, and nothing is planned.
LEMMA PlannedLasts ==
  ASSUME TypeInv, Planned, UNCHANGED << row, aim, searched >>,
         pc \in Serving => pc' \in Serving /\ UNCHANGED picked
  PROVE  Planned'
  BY DEF Planned

LEMMA CommitPlanned ==
  ASSUME TypeInv, Planned, NEW moved \in SUBSET Rows, NEW new, NEW t,
         Commit(moved, new, t), UNCHANGED searched, pc \notin Serving
  PROVE  Planned'
<1> SUFFICES ASSUME NEW d \in Rows, aim'[d] = "planned", searched[d] # NoTime
             PROVE  \/ row'[d].next = row'[d].end
                    \/ searched[d] + MinSafe <= row'[d].next
  BY DEF Planned
<1>1. d \notin moved
  BY DEF Commit, AimOf
<1>2. row'[d] = row[d] /\ aim'[d] = aim[d]
  BY <1>1 DEF Commit
<1> QED BY <1>2 DEF Planned

LEMMA StepPlanned ==
  ASSUME TypeInv, Timely, Next
  PROVE  Planned'
<1>0. /\ Windows /\ InCycle /\ Planned /\ row \in [Rows -> TimedRow]
      /\ aim \in [Rows -> { "none", "start", "now", "planned" }]
      /\ searched \in [Rows -> Int]
  BY DEF Timely, TypeInv, Store, Clock
<1>1. CASE Recover
  <2> DEFINE new == [ d \in Rows |-> Aligned(d, now) ]
  <2>1. Commit(Rows, new, now) /\ UNCHANGED searched /\ pc \notin Serving
    BY <1>1 DEF Recover, Serving
  <2> QED BY <1>0, <2>1, CommitPlanned
<1>2. CASE ExpireDueWindows
  <2> DEFINE new == [ d \in Rows |-> Rolled(d, now) ]
             moved == { d \in Monitored : row[d].end <= now }
  <2>1. Commit(moved, new, now) /\ UNCHANGED searched /\ pc \notin Serving
    BY <1>2 DEF ExpireDueWindows, Serving
  <2>2. moved \in SUBSET Rows
    BY DEF Monitored
  <2> HIDE DEF new, moved
  <2> QED BY <1>0, <2>1, <2>2, CommitPlanned
<1>3. CASE StartCheck
  <2>1. /\ pc = "start" /\ pc' = "search" /\ UNCHANGED << picked, aim >>
        /\ \A d \in Rows : d # picked => row'[d] = row[d] /\ searched'[d] = searched[d]
    BY <1>0, <1>3 DEF StartCheck
  <2> QED BY <1>0, <2>1 DEF Planned, Serving
<1>4. CASE Reschedule
  <2> DEFINE r == [row[picked] EXCEPT !.next = NextCheck(picked), !.status = "watching"]
  <2>1. /\ pc \in Serving /\ pc' = "loop" /\ UNCHANGED searched
        /\ aim' = [aim EXCEPT ![picked] = "planned"]
    BY <1>4 DEF Reschedule, Serving
  <2>2. /\ row' = [row EXCEPT ![picked] = r]
        /\ r.next = NextCheck(picked) /\ r.end = row[picked].end
    BY <1>0, <1>4, RescheduledRow
  <2>3. /\ picked \in Rows /\ searched[picked] = cycle
        /\ \/ NextCheck(picked) = row[picked].end
           \/ cycle + MinSafe <= NextCheck(picked)
    BY <1>0, <2>1, NextCheckFits DEF InCycle
  <2> HIDE DEF r
  <2>4. row'[picked] = r
    BY <1>0, <2>2, <2>3
  <2>5. \A d \in Rows : d # picked => row'[d] = row[d] /\ aim'[d] = aim[d]
    BY <1>0, <2>1, <2>2
  <2> QED BY <1>0, <2>1, <2>2, <2>3, <2>4, <2>5 DEF Planned, Serving
<1>5. CASE Crash
  BY <1>5 DEF Crash, Planned
<1>6. CASE \/ SelectDueDomain \/ NothingDue \/ Wake \/ SearchReply \/ SearchRetry
           \/ SendAgain \/ SearchFails \/ Start \/ Tick
  <2>1. /\ UNCHANGED << row, aim, searched >>
        /\ pc \in Serving => pc' \in Serving /\ UNCHANGED picked
    BY <1>6 DEF SelectDueDomain, NothingDue, Wake, SearchReply, SearchRetry, SendAgain,
                SearchFails, Start, Tick, Serving
  <2> QED BY <1>0, <2>1, PlannedLasts
<1> QED BY <1>1, <1>2, <1>3, <1>4, <1>5, <1>6 DEF Next

-----------------------------------------------------------------------------
(* The order of the rows. *)

LEMMA AheadFinite ==
  ASSUME NEW d
  PROVE  IsFiniteSet(Ahead(d)) /\ Cardinality(Ahead(d)) \in Nat
<1>1. Ahead(d) \subseteq Rows
  BY DEF Ahead
<1> QED BY <1>1, TimesAssumption, FS_Subset, FS_CardinalityType

LEMMA AheadFinitePrime ==
  ASSUME NEW d
  PROVE  IsFiniteSet(Ahead(d)') /\ Cardinality(Ahead(d)') \in Nat
<1>1. Ahead(d)' \subseteq Rows
  BY DEF Ahead
<1> QED BY <1>1, TimesAssumption, FS_Subset, FS_CardinalityType

\* The rows ahead of d stay there.
LEMMA AheadGrows ==
  ASSUME NEW d, Ahead(d) \subseteq Ahead(d)'
  PROVE  Cardinality(Ahead(d)) <= Cardinality(Ahead(d)')
  BY AheadFinitePrime, FS_Subset

\* Nobody has been passed over.
LEMMA NoneBypassed ==
  ASSUME \A d \in Rows : bypassed'[d] = 0
  PROVE  InTurn'
<1> SUFFICES ASSUME NEW d \in Rows
             PROVE  bypassed'[d] <= Cardinality(Ahead(d)') /\ ~(bypassed'[d] # 0)
  BY DEF InTurn
<1>1. bypassed'[d] = 0
  OBVIOUS
<1> QED BY <1>1, AheadFinitePrime

\* The rows and the cycle stay as they are.
LEMMA TurnLasts ==
  ASSUME InTurn, UNCHANGED << row, bypassed, picked, cycle >>,
         pc' \in Working => pc \in Working
  PROVE  InTurn'
  BY DEF InTurn, Ahead

LEMMA StepInTurn ==
  ASSUME TypeInv, Timely, Next
  PROVE  InTurn'
<1>0. /\ Windows /\ InCycle /\ InTurn /\ row \in [Rows -> TimedRow]
      /\ bypassed \in [Rows -> Nat] /\ cycle \in Int /\ now \in Int
  BY TimesAssumption DEF Timely, TypeInv, Store, Control, Clock
<1>1. CASE Recover \/ NothingDue \/ Crash
  <2>1. \A d \in Rows : bypassed'[d] = 0
    BY <1>1 DEF Recover, Commit, NothingDue, Crash
  <2> QED BY <2>1, NoneBypassed
<1>2. CASE ExpireDueWindows
  <2> DEFINE new == [ d \in Rows |-> Rolled(d, now) ]
             moved == { d \in Monitored : row[d].end <= now }
  <2>1. /\ Commit(moved, new, now)
        /\ pc = "loop" /\ pc' = "select" /\ UNCHANGED << now, picked >>
    BY <1>2 DEF ExpireDueWindows
  <2>2. picked = NoRow /\ NoRow \notin Rows
    BY <2>1, PlanType DEF TypeInv, Control, Working, Serving
  <2> SUFFICES ASSUME NEW d \in Rows, bypassed'[d] # 0
               PROVE  bypassed'[d] <= Cardinality(Ahead(d)')
    <3>1. \A d \in Rows : Cardinality(Ahead(d)') \in Nat
      BY AheadFinitePrime
    <3> QED BY <2>1, <3>1 DEF InTurn, Working, Serving
  <2>3. d \notin moved /\ row'[d] = row[d] /\ bypassed'[d] = bypassed[d]
    BY <2>1 DEF Commit
  <2>4. ASSUME NEW e \in Ahead(d) PROVE e \in Ahead(d)'
    <3>1. /\ e \in Rows \ { d } /\ e # picked
          /\ row[e].status = "expired" \/ row[d].next < row[e].next
      BY <2>2 DEF Ahead
    <3>2. CASE e \notin moved
      <4>1. row'[e] = row[e]
        BY <2>1, <3>1, <3>2 DEF Commit
      <4> QED BY <2>3, <3>1, <4>1 DEF Ahead
    <3>3. CASE e \in moved
      <4>1. row'[e] = Rolled(e, now)
        BY <2>1, <3>1, <3>3 DEF Commit
      <4>2. row[e].status # "expired" /\ row[e].end <= now
        BY <3>3 DEF Monitored
      <4>3. row[e].next <= row[e].end /\ row[d].next < row[e].next
        BY <1>0, <2>1, <3>1, <4>2 DEF Windows, InPlan, InWindow
      <4>4. /\ row[e].next \in Int /\ row[e].end \in Int /\ row[d].next \in Int
        BY <3>1, RowFacts
      <4>5. CASE row'[e].status = "expired"
        BY <3>1, <4>5 DEF Ahead
      <4>6. CASE row'[e].status # "expired"
        <5>1. now <= row'[e].next /\ row'[e].next \in Int
          BY <1>0, <3>1, <4>1, <4>6, RolledFits DEF Fits, TimedRow
        <5>2. row'[d].next < row'[e].next
          BY <1>0, <2>3, <4>2, <4>3, <4>4, <5>1
        <5> QED BY <3>1, <5>2 DEF Ahead
      <4> QED BY <4>5, <4>6
    <3> QED BY <3>2, <3>3
  <2>5. Cardinality(Ahead(d)) <= Cardinality(Ahead(d)')
    BY <2>4, AheadGrows
  <2>6. bypassed[d] <= Cardinality(Ahead(d)) /\ bypassed[d] \in Nat
    BY <1>0 DEF InTurn
  <2> QED BY <2>3, <2>5, <2>6, AheadFinite, AheadFinitePrime
<1>3. CASE SelectDueDomain
  <2>1. PICK p \in Due :
          /\ \A e \in Due : Before(p, e)
          /\ picked' = p
          /\ bypassed' = [ e \in Rows |-> IF e \in Due \ { p } THEN bypassed[e] + 1
                                          ELSE 0 ]
    BY <1>3 DEF SelectDueDomain
  <2>2. pc = "select" /\ UNCHANGED << row, cycle >>
    BY <1>3 DEF SelectDueDomain
  <2>3. picked = NoRow /\ NoRow \notin Rows
    BY <2>2, PlanType DEF TypeInv, Control, Working, Serving
  <2> SUFFICES ASSUME NEW d \in Rows
               PROVE  /\ bypassed'[d] <= Cardinality(Ahead(d)')
                      /\ bypassed'[d] # 0 => d # picked' /\ row'[d].next <= cycle'
    BY DEF InTurn
  <2>4. CASE d \in Due \ { p }
    <3>1. bypassed'[d] = bypassed[d] + 1 /\ row[d].next <= cycle
      BY <2>1, <2>4 DEF Due
    <3>2. p \in Rows /\ d # p /\ row[p].status # "expired" /\ row[p].next <= row[d].next
      BY <2>1, <2>4, RowFacts DEF Due, Monitored, Before
    <3>3. p \notin Ahead(d)
      <4>1. row[p].next \in Int /\ row[d].next \in Int
        BY <3>2, RowFacts
      <4> QED BY <2>3, <3>2, <4>1 DEF Ahead
    <3>4. Ahead(d) \cup { p } \subseteq Ahead(d)'
      BY <2>1, <2>2, <2>3, <3>2 DEF Ahead
    <3>5. Cardinality(Ahead(d) \cup { p }) = Cardinality(Ahead(d)) + 1
      BY <3>3, AheadFinite, FS_AddElement
    <3>6. Cardinality(Ahead(d) \cup { p }) <= Cardinality(Ahead(d)')
      BY <3>4, AheadFinitePrime, FS_Subset
    <3>7. bypassed[d] <= Cardinality(Ahead(d)) /\ bypassed[d] \in Nat
      BY <1>0 DEF InTurn
    <3> QED BY <2>1, <2>2, <3>1, <3>2, <3>5, <3>6, <3>7, AheadFinite, AheadFinitePrime
  <2>5. CASE d \notin Due \ { p }
    <3>1. bypassed'[d] = 0
      BY <2>1, <2>5
    <3> QED BY <3>1, AheadFinitePrime
  <2> QED BY <2>4, <2>5
<1>4. CASE StartCheck
  <2> DEFINE r == [row[picked] EXCEPT !.status = "watching"]
  <2>1. /\ pc = "start" /\ UNCHANGED << picked, cycle, bypassed >>
        /\ row' = [row EXCEPT ![picked] = r]
    BY <1>4 DEF StartCheck
  <2>2. picked \in Monitored /\ picked \in Rows
    BY <1>0, <2>1 DEF InCycle, Working, Monitored
  <2>3. r.next = row[picked].next
    BY <2>2, StatusSet
  <2> HIDE DEF r
  <2>4. \A d \in Rows :
          row'[d].next = row[d].next /\ (d # picked => row'[d] = row[d])
    BY <1>0, <2>1, <2>2, <2>3
  <2>5. \A d \in Rows : d # picked => Ahead(d)' = Ahead(d)
    BY <2>1, <2>4 DEF Ahead
  <2>6. \A d \in Rows : bypassed[d] # 0 => d # picked /\ row[d].next <= cycle
    BY <1>0, <2>1 DEF InTurn, Working
  <2>7. \A d \in Rows : bypassed[d] <= Cardinality(Ahead(d)')
    <3> SUFFICES ASSUME NEW d \in Rows PROVE bypassed[d] <= Cardinality(Ahead(d)')
      OBVIOUS
    <3>1. CASE d = picked
      BY <2>6, <3>1, AheadFinitePrime
    <3>2. CASE d # picked
      BY <1>0, <2>5, <3>2 DEF InTurn
    <3> QED BY <3>1, <3>2
  <2> QED BY <2>1, <2>4, <2>6, <2>7 DEF InTurn
<1>5. CASE Reschedule
  <2> DEFINE r == [row[picked] EXCEPT !.next = NextCheck(picked), !.status = "watching"]
  <2>1. /\ pc \in Serving /\ pc \in Working /\ pc' = "loop" /\ UNCHANGED bypassed
    BY <1>5 DEF Reschedule, Working, Serving
  <2>2. row' = [row EXCEPT ![picked] = r] /\ r.next = NextCheck(picked)
    BY <1>0, <1>5, RescheduledRow
  <2>3. picked \in Rows /\ NextCheck(picked) \in Int /\ cycle < NextCheck(picked)
    BY <1>0, <2>1, NextCheckFits
  <2> HIDE DEF r
  <2> SUFFICES ASSUME NEW d \in Rows, bypassed[d] # 0
               PROVE  bypassed[d] <= Cardinality(Ahead(d)')
    <3>1. \A d \in Rows : Cardinality(Ahead(d)') \in Nat
      BY AheadFinitePrime
    <3> QED BY <2>1, <3>1 DEF InTurn, Working, Serving
  <2>4. d # picked /\ row[d].next <= cycle /\ row[d].next \in Int
    BY <1>0, <2>1, RowFacts DEF InTurn
  <2>5. /\ row'[d] = row[d] /\ row'[picked].next = NextCheck(picked)
        /\ \A e \in Rows : e # picked => row'[e] = row[e]
    BY <1>0, <2>2, <2>3, <2>4
  <2>6. Ahead(d) \subseteq Ahead(d)'
    <3>1. row'[d].next < row'[picked].next
      BY <1>0, <2>3, <2>4, <2>5
    <3> QED BY <2>3, <2>4, <2>5, <3>1 DEF Ahead
  <2>7. Cardinality(Ahead(d)) <= Cardinality(Ahead(d)')
    BY <2>6, AheadGrows
  <2>8. bypassed[d] <= Cardinality(Ahead(d)) /\ bypassed[d] \in Nat
    BY <1>0 DEF InTurn
  <2> QED BY <2>7, <2>8, AheadFinite, AheadFinitePrime
<1>6. CASE \/ Wake \/ SearchReply \/ SearchRetry \/ SendAgain \/ SearchFails
           \/ Start \/ Tick
  <2>1. /\ UNCHANGED << row, bypassed, picked, cycle >>
        /\ pc' \in Working => pc \in Working
    BY <1>6 DEF Wake, locals, SearchReply, SearchRetry, SendAgain, SearchFails, Start,
                Tick, Working, Serving
  <2> QED BY <1>0, <2>1, TurnLasts
<1> QED BY <1>1, <1>2, <1>3, <1>4, <1>5, <1>6 DEF Next

-----------------------------------------------------------------------------
(* The theorems. *)

LEMMA InitInv ==
  ASSUME Init
  PROVE  TimedInv
<1>1. TypeInv
  BY InitType
<1>2. Windows
  BY InitFits DEF Windows
<1>3. InCycle /\ Asleep /\ Planned
  BY DEF Init, InCycle, Asleep, Planned, Working, Serving
<1>4. InTurn
  <2>1. pc \notin Working /\ \A d \in Rows : bypassed[d] = 0
    BY DEF Init, Working, Serving
  <2>2. \A d \in Rows : Cardinality(Ahead(d)) \in Nat
    BY AheadFinite
  <2> QED BY <2>1, <2>2 DEF InTurn
<1> QED BY <1>1, <1>2, <1>3, <1>4 DEF TimedInv, Timely

LEMMA StepInv ==
  ASSUME TimedInv, [Next]_vars
  PROVE  TimedInv'
<1>0. TypeInv /\ Timely
  BY DEF TimedInv
<1>1. CASE Next
  BY <1>0, <1>1, StepType, StepWindows, StepInCycle, StepAsleep, StepPlanned, StepInTurn
     DEF TimedInv, Timely
<1>2. CASE UNCHANGED vars
  <2>1. /\ TypeInv'
        /\ Windows' /\ InCycle' /\ Asleep' /\ Planned' /\ InTurn'
    BY <1>0, <1>2
       DEF vars, locals, TypeInv, Store, Control, Clock, Timely, Windows, InPlan,
           InWindow, Begun, Steady, IsDaily, AllDay, InCycle, Asleep, Monitored,
           Planned, InTurn, Ahead
  <2> QED BY <2>1 DEF TimedInv, Timely
<1> QED BY <1>1, <1>2

LEMMA InvAlways == Spec => []TimedInv
<1>1. Init => TimedInv
  BY InitInv
<1>2. TimedInv /\ [Next]_vars => TimedInv'
  BY StepInv
<1> QED BY <1>1, <1>2, PTL DEF Spec

\* The rows, the clock and the daemon's place keep their types: the end of a
\* window is its start and its duration, and exactly the expired rows have no
\* next_check_at.
THEOREM TimedTypeCorrect == Spec => []TypeOK
<1>1. TimedInv => TypeOK
  BY TypeInvTypeOK DEF TimedInv
<1> QED BY <1>1, InvAlways, PTL

\* Every row that _select_due_domain passes over comes after the rows that were
\* served meanwhile, so that each of them overtakes it once in a window.
THEOREM ServedInTurn == Spec => []BypassedAtMostOnce
<1>1. TimedInv => BypassedAtMostOnce
  <2> SUFFICES ASSUME TimedInv, NEW d \in Rows
               PROVE  bypassed[d] < Cardinality(Rows)
    BY DEF BypassedAtMostOnce
  <2>1. bypassed[d] <= Cardinality(Ahead(d)) /\ bypassed[d] \in Nat
    BY DEF TimedInv, Timely, InTurn, TypeInv, Store
  <2>2. Ahead(d) \subseteq Rows \ { d }
    BY DEF Ahead
  <2>3. /\ IsFiniteSet(Rows \ { d }) /\ Cardinality(Rows) \in Nat
        /\ Cardinality(Rows \ { d }) = Cardinality(Rows) - 1
    BY TimesAssumption, FS_RemoveElement, FS_CardinalityType
  <2>4. Cardinality(Ahead(d)) <= Cardinality(Rows) - 1 /\ Cardinality(Ahead(d)) \in Nat
    BY <2>2, <2>3, FS_Subset, AheadFinite
  <2> QED BY <2>1, <2>3, <2>4
<1> QED BY <1>1, InvAlways, PTL

\* The sleep of run_forever ends before any row is due or any window is over.
THEOREM SleepsInTime == Spec => []NeverOversleeps
<1>1. TimedInv => NeverOversleeps
  <2> SUFFICES ASSUME TimedInv, pc = "sleep", NEW d \in Monitored
               PROVE  now + wait <= row[d].end /\ now + wait <= row[d].next
    BY DEF NeverOversleeps
  <2>1. /\ d \in Rows /\ row[d].status # "expired" /\ TypeInv /\ wait \in Nat
        /\ now + wait <= row[d].next
    BY DEF Monitored, TimedInv, Timely, Asleep, TypeInv, Control
  <2>2. row[d].next <= row[d].end
    BY <2>1 DEF TimedInv, Timely, Windows, InPlan, InWindow
  <2>3. now \in Nat /\ row[d].next \in Int /\ row[d].end \in Int
    BY <2>1, RowFacts
  <2> QED BY <2>1, <2>2, <2>3
<1> QED BY <1>1, InvAlways, PTL

\* A selected row is in its window: the comparisons run_once makes before the
\* search never send the row away.
THEOREM SelectionInWindow == Spec => []SelectedInWindow
<1>1. TimedInv => SelectedInWindow
  <2> SUFFICES ASSUME TimedInv, pc = "start"
               PROVE  row[picked].start <= cycle /\ cycle < row[picked].end
    BY DEF SelectedInWindow
  <2>1. /\ picked \in Rows /\ row[picked].status # "expired" /\ TypeInv
        /\ row[picked].next <= cycle /\ cycle < row[picked].end /\ cycle \in Int
    BY DEF TimedInv, Timely, InCycle, Working, Monitored, TypeInv, Control
  <2>2. row[picked].start <= row[picked].next
    BY <2>1 DEF TimedInv, Timely, Windows, InPlan, InWindow
  <2>3. row[picked].start \in Int /\ row[picked].next \in Int
    BY <2>1, RowFacts
  <2> QED BY <2>1, <2>2, <2>3
<1> QED BY <1>1, InvAlways, PTL

\* A window of a day or longer is open whenever the daemon looks for work once
\* the date it was given has come, on days of any length, but for less than the
\* hour that a zone repeats.
THEOREM AllDayCovered == Spec => []GapWithinRepeatedHour
<1>1. TimedInv => GapWithinRepeatedHour
  <2> SUFFICES ASSUME TimedInv, pc = "select", NEW d \in Rows, AllDay(d),
                      Offered(d, now)
               PROVE  /\ row[d].start < now + Greater(1, Repeated(zone))
                      /\ now < row[d].end
    BY DEF GapWithinRepeatedHour
  <2>1. InPlan(d, row[d]) /\ \A e \in Monitored : now < row[e].end
    BY DEF TimedInv, Timely, Windows, InCycle
  <2>2. row[d].status # "expired" /\ row[d] \in TimedRow
    BY <2>1, RowFacts DEF InPlan, AllDay, TimedInv
  <2>3. d \in Monitored
    BY <2>2 DEF Monitored, TimedRow
  <2>4. /\ now \in Int /\ IsZone(zone)
        /\ 1 <= Greater(1, Repeated(zone)) /\ Greater(1, Repeated(zone)) \in Int
    BY RowFacts, ZoneType DEF TimedInv, Greater, Repeated
  <2>5. Begun(d, row[d].start) /\ Plan[d].time \in Int
    BY <2>1, PlanType DEF InPlan
  <2>6. row[d].start < now + Greater(1, Repeated(zone))
    BY <2>4, <2>5 DEF Begun, Offered
  <2> QED BY <2>1, <2>3, <2>6
<1> QED BY <1>1, InvAlways, PTL

\* next_daily_window_start returns the next of the daily starts, across every
\* change of the offset, unless the start falls in the hour that is skipped or
\* repeated.
THEOREM NextWindowFirst == Spec => []NextWindowIsNext
<1>1. TimedInv => NextWindowIsNext
  BY NextIsLeast DEF NextWindowIsNext, TimedInv, TypeInv, Clock
<1> QED BY <1>1, InvAlways, PTL

\* A planned check begins at least the safe interval after the check before it
\* began, however late that one was: it was planned from the time of its cycle,
\* and a check moved up to the end of the window never takes place.
THEOREM ChecksSpaced == Spec => NoCatchUp
<1> DEFINE Spaced ==
      pc = "start" /\ pc' = "search"
        /\ searched[picked] # NoTime /\ aim[picked] = "planned"
      => now >= searched[picked] + MinSafe
<1>1. TimedInv /\ [Next]_vars => [Spaced]_vars
  <2> SUFFICES ASSUME TimedInv, pc = "start", searched[picked] # NoTime,
                      aim[picked] = "planned"
               PROVE  now >= searched[picked] + MinSafe
    OBVIOUS
  <2>0. TypeInv /\ InCycle /\ Planned /\ searched \in [Rows -> Int]
    BY DEF TimedInv, Timely, TypeInv, Clock
  <2>1. /\ picked \in Rows /\ cycle = now
        /\ row[picked].next <= cycle /\ cycle < row[picked].end
    BY <2>0 DEF InCycle, Working, Monitored
  <2>2. row[picked].next = row[picked].end \/ searched[picked] + MinSafe <= row[picked].next
    BY <2>0, <2>1 DEF Planned, Serving
  <2>3. /\ row[picked].next \in Int /\ row[picked].end \in Int /\ now \in Int
        /\ searched[picked] \in Int /\ MinSafe \in Int
    BY <2>0, <2>1, RowFacts, TimesAssumption
  <2> QED BY <2>1, <2>2, <2>3
<1>2. NoCatchUp <=> [][Spaced]_vars
  BY DEF NoCatchUp
<1> HIDE DEF Spaced
<1> QED BY <1>1, <1>2, InvAlways, PTL DEF Spec

-----------------------------------------------------------------------------
(* With the clock forgotten, the daemon is the one of DomainBot. *)

\* What next_check_at stands for, and what a status says of the window.
Meant ==
  /\ \A d \in Rows :
       /\ row[d].status = "expired" <=> aim[d] = "none"
       /\ row[d].status = "expired" => row[d].end <= now
       /\ row[d].status = "watching" => row[d].start <= now
       /\ aim[d] = "start" => row[d].next = row[d].start
  /\ pc \in Serving => row[picked].status = "watching"

\* The phase of the window of a row.
PhaseOf(r) ==
  IF now < r.start THEN "before" ELSE IF now < r.end THEN "open" ELSE "over"

\* A realigned row has the status its window asks for.
Aligns(r) ==
  /\ r.start \in Int /\ r.end \in Int /\ r.start < r.end
  /\ \/ r.status = "scheduled" /\ now < r.start /\ r.next = r.start
     \/ r.status = "watching" /\ r.start <= now /\ now < r.end
     \/ r.status = "expired" /\ r.end <= now

\* A window that is over makes way for one that lies ahead, or, of a day or
\* longer, for one that may be open; a row watched once expires.
LEMMA RolledAligns ==
  ASSUME TypeInv, Windows, NEW d \in Rows, row[d].end <= now
  PROVE  /\ Aligns(Rolled(d, now))
         /\ ~IsDaily(d) => Rolled(d, now).end <= now
         /\ IsDaily(d) => now < Rolled(d, now).end
         /\ IsDaily(d) /\ ~AllDay(d) => now < Rolled(d, now).start
<1>0. /\ row[d] \in TimedRow /\ row[d].start \in Int /\ row[d].end \in Int
      /\ row[d].end = row[d].start + Plan[d].duration /\ now \in Nat /\ IsZone(zone)
      /\ Plan[d].duration \in Nat /\ 0 < Plan[d].duration
      /\ daily[d] \in 0..(Day - 1)
      /\ IsDaily(d) /\ ~AllDay(d) => daily[d] \notin Shifted(zone)
      /\ AllDay(d) <=> IsDaily(d) /\ Day <= Plan[d].duration
      /\ zone \in Zones
  BY RowFacts, PlanType
<1>1. CASE IsDaily(d)
  <2> DEFINE start == DailyStart(d, now)
             r == Windowed(d, start, now)
  <2>1. Rolled(d, now) = r
    BY <1>1 DEF Rolled
  <2>2. start \in Int /\ now < start + Plan[d].duration
    BY <1>1, DailyStartFits
  <2>3. ~AllDay(d) => now < start
    <3> SUFFICES ASSUME ~AllDay(d) PROVE now < start
      OBVIOUS
    <3>1. TimeOfDay(zone, row[d].start) = daily[d]
      BY <1>1 DEF Windows, InPlan
    <3>2. start = NextDailyWindowStart(zone, daily[d], now)
      BY <3>1 DEF DailyStart, NextDailyWindowAfter
    <3> HIDE DEF start
    <3> QED BY <1>0, <1>1, <3>2, NextDaily
  <2> HIDE DEF start
  <2>4. /\ r.start = start /\ r.end = start + Plan[d].duration
        /\ r.status = IF start <= now THEN "watching" ELSE "scheduled"
        /\ r.next = IF start <= now THEN now ELSE start
    BY <1>0, <2>2 DEF Windowed
  <2> HIDE DEF r
  <2> QED BY <1>0, <1>1, <2>1, <2>2, <2>3, <2>4 DEF Aligns
<1>2. CASE ~IsDaily(d)
  <2> DEFINE r == [row[d] EXCEPT !.status = "expired", !.next = NoTime]
  <2>1. Rolled(d, now) = r
    BY <1>2 DEF Rolled
  <2>2. r.status = "expired" /\ r.start = row[d].start /\ r.end = row[d].end
    BY <1>0 DEF TimedRow
  <2> HIDE DEF r
  <2> QED BY <1>0, <1>2, <2>1, <2>2 DEF Aligns
<1> QED BY <1>1, <1>2

\* recover leaves a window that is not over where it is.
LEMMA AlignedAligns ==
  ASSUME TypeInv, Windows, NEW d \in Rows
  PROVE  /\ Aligns(Aligned(d, now))
         /\ row[d].end <= now => Aligned(d, now) = Rolled(d, now)
         /\ now < row[d].end => PhaseOf(Aligned(d, now)) = PhaseOf(row[d])
<1>0. /\ row[d] \in TimedRow /\ row[d].start \in Int /\ row[d].end \in Int
      /\ row[d].next \in Int
      /\ row[d].end = row[d].start + Plan[d].duration /\ now \in Nat
      /\ Plan[d].duration \in Nat /\ 0 < Plan[d].duration
  BY RowFacts, PlanType
<1>1. CASE row[d].end <= now
  <2>1. Aligned(d, now) = Rolled(d, now)
    BY <1>0, <1>1 DEF Aligned
  <2> QED BY <1>0, <1>1, <2>1, RolledAligns
<1>2. CASE now < row[d].start
  <2> DEFINE r == [row[d] EXCEPT !.status = "scheduled", !.next = row[d].start]
  <2>1. Aligned(d, now) = r
    BY <1>0, <1>2 DEF Aligned
  <2>2. /\ r.status = "scheduled" /\ r.next = row[d].start
        /\ r.start = row[d].start /\ r.end = row[d].end
    BY <1>0 DEF TimedRow
  <2> HIDE DEF r
  <2> QED BY <1>0, <1>2, <2>1, <2>2 DEF Aligns, PhaseOf
<1>3. CASE row[d].start <= now /\ now < row[d].end
  <2> DEFINE r == [row[d] EXCEPT !.status = "watching",
                                 !.next = Greater(row[d].next, now)]
  <2>1. Aligned(d, now) = r
    BY <1>0, <1>3 DEF Aligned
  <2>2. r.status = "watching" /\ r.start = row[d].start /\ r.end = row[d].end
    BY <1>0 DEF TimedRow
  <2> HIDE DEF r
  <2> QED BY <1>0, <1>3, <2>1, <2>2 DEF Aligns, PhaseOf
<1> QED BY <1>0, <1>1, <1>2, <1>3

LEMMA CommitMeant ==
  ASSUME TypeInv, Meant, UNCHANGED now, NEW moved \in SUBSET Rows, NEW new,
         Commit(moved, new, now), \A d \in moved : Aligns(new[d]),
         pc' \notin Serving
  PROVE  Meant'
<1>0. now \in Int
  BY TimesAssumption DEF TypeInv, Clock
<1> SUFFICES ASSUME NEW d \in Rows
             PROVE  /\ row'[d].status = "expired" <=> aim'[d] = "none"
                    /\ row'[d].status = "expired" => row'[d].end <= now
                    /\ row'[d].status = "watching" => row'[d].start <= now
                    /\ aim'[d] = "start" => row'[d].next = row'[d].start
  BY DEF Meant
<1>1. CASE d \in moved
  <2>1. row'[d] = new[d] /\ aim'[d] = AimOf(new[d], now) /\ Aligns(new[d])
    BY <1>1 DEF Commit
  <2> QED BY <1>0, <2>1 DEF Aligns, AimOf
<1>2. CASE d \notin moved
  BY <1>2 DEF Commit, Meant
<1> QED BY <1>1, <1>2

LEMMA StepMeant ==
  ASSUME TypeInv, Timely, Meant, [Next]_vars
  PROVE  Meant'
<1>0. Windows /\ InCycle /\ now \in Int /\ row \in [Rows -> TimedRow]
      /\ aim \in [Rows -> { "none", "start", "now", "planned" }]
  BY TimesAssumption DEF Timely, TypeInv, Clock, Store
<1>1. CASE Recover
  <2> DEFINE new == [ d \in Rows |-> Aligned(d, now) ]
  <2>1. Commit(Rows, new, now) /\ UNCHANGED now /\ pc' \notin Serving
    BY <1>1 DEF Recover, Serving
  <2>2. \A d \in Rows : Aligns(new[d])
    BY <1>0, AlignedAligns
  <2> QED BY <2>1, <2>2, CommitMeant
<1>2. CASE ExpireDueWindows
  <2> DEFINE new == [ d \in Rows |-> Rolled(d, now) ]
             moved == { d \in Monitored : row[d].end <= now }
  <2>1. Commit(moved, new, now) /\ UNCHANGED now /\ pc' \notin Serving
    BY <1>2 DEF ExpireDueWindows, Serving
  <2>2. moved \in SUBSET Rows /\ \A d \in moved : row[d].end <= now
    BY DEF Monitored
  <2>3. \A d \in moved : Aligns(new[d])
    BY <1>0, <2>2, RolledAligns
  <2> HIDE DEF new, moved
  <2> QED BY <2>1, <2>2, <2>3, CommitMeant
<1>3. CASE StartCheck
  <2>1. picked \in Rows /\ cycle = now /\ row[picked].start <= now
    BY <1>0, <1>3 DEF StartCheck, InCycle, Working, Monitored
  <2>2. \A d \in Rows :
          /\ row'[d] = IF d = picked THEN [row[d] EXCEPT !.status = "watching"]
                       ELSE row[d]
          /\ row[d] \in TimedRow
    BY <1>0, <1>3 DEF StartCheck
  <2>3. row[picked].status # "expired"
    BY <1>0, <1>3 DEF StartCheck, InCycle, Working, Monitored
  <2> QED BY <1>3, <2>1, <2>2, <2>3 DEF StartCheck, Meant, TimedRow
<1>4. CASE Reschedule
  <2>1. pc \in Serving /\ picked \in Rows
    BY <1>0, <1>4 DEF Reschedule, InCycle, Working, Serving, Monitored
  <2>2. \A d \in Rows :
          row'[d] = IF d = picked
                      THEN [row[d] EXCEPT !.next = NextCheck(d), !.status = "watching"]
                      ELSE row[d]
    BY <1>0, <1>4, <2>1 DEF Reschedule
  <2>3. \A d \in Rows : row'[d].start = row[d].start /\ row'[d].end = row[d].end
                        /\ row'[d].status = row[d].status
                        /\ (d # picked => row'[d].next = row[d].next)
    BY <1>0, <2>1, <2>2, ZenonT(60) DEF Meant, TimedRow
  <2>4. \A d \in Rows : aim'[d] = IF d = picked THEN "planned" ELSE aim[d]
    BY <1>0, <1>4 DEF Reschedule
  <2>5. row[picked].status = "watching" /\ UNCHANGED now /\ pc' \notin Serving
    BY <1>4, <2>1 DEF Reschedule, Meant, Serving
  <2> QED BY <2>1, <2>3, <2>4, <2>5 DEF Meant
<1>5. CASE \/ SelectDueDomain \/ NothingDue \/ Wake \/ SearchReply \/ SearchRetry
           \/ SendAgain \/ SearchFails \/ Start \/ Crash
  <2>1. /\ UNCHANGED << row, aim, now >>
        /\ pc' \in Serving => pc \in Serving /\ picked' = picked
    BY <1>5 DEF SelectDueDomain, NothingDue, Wake, SearchReply, SearchRetry, SendAgain,
                SearchFails, Start, Crash, Serving
  <2> QED BY <2>1 DEF Meant
<1>6. CASE Tick
  <2>1. UNCHANGED << row, aim, pc, picked >> /\ now' = now + 1
    BY <1>6 DEF Tick
  <2>2. \A d \in Rows : row[d].start \in Int /\ row[d].end \in Int
    BY <1>0 DEF TimedRow
  <2> QED BY <1>0, <2>1, <2>2 DEF Meant
<1>7. CASE UNCHANGED vars
  BY <1>7 DEF vars, locals, Meant
<1> QED BY <1>1, <1>2, <1>3, <1>4, <1>5, <1>6, <1>7 DEF Next


\* The rows of DomainBot that stand for rows of the timed daemon, and what a session makes of it.
BotRow ==
  [ status : { "scheduled", "watching", "expired" },
    next : { "none", "start", "soon" }, attempts : { 0 }, price : { "unknown" },
    simulated : BOOLEAN ]

LEMMA UntimedRowType ==
  ASSUME NEW r, r.status \in { "scheduled", "watching", "expired" },
         NEW a \in { "none", "start", "now", "planned" }
  PROVE  /\ UntimedRow(r, a) \in BotRow
         /\ UntimedRow(r, a).status = r.status
         /\ UntimedRow(r, a).next = IF a \in { "now", "planned" } THEN "soon" ELSE a
         /\ ~UntimedRow(r, a).simulated
  BY DEF UntimedRow, BotRow

LEMMA BotRowChange ==
  ASSUME NEW x \in BotRow, NEW y \in BotRow, ~x.simulated, ~y.simulated
  PROVE  /\ y.status = "watching" /\ y.next = x.next =>
              y = [x EXCEPT !.status = "watching"]
         /\ y.status = "watching" /\ y.next = "soon" =>
              y = [x EXCEPT !.next = "soon", !.status = "watching"]
<1>1. y.status = "watching" /\ y.next = x.next => y = [x EXCEPT !.status = "watching"]
  BY DEF BotRow
<1>2. y.status = "watching" /\ y.next = "soon" =>
        y = [x EXCEPT !.next = "soon", !.status = "watching"]
  BY DEF BotRow
<1> QED BY <1>1, <1>2

\* What the mapping makes of the rows and of the daemon.
LEMMA UntimedFacts ==
  ASSUME TypeInv, NEW d \in Rows
  PROVE  /\ UntimedRows[d] = UntimedRow(row[d], aim[d])
         /\ UntimedRows[d].status = row[d].status
         /\ UntimedRows[d] \in BotRow /\ ~UntimedRows[d].simulated
         /\ UntimedRows[d].next =
              IF aim[d] \in { "now", "planned" } THEN "soon" ELSE aim[d]
         /\ row[d].status \in { "scheduled", "watching", "expired" }
         /\ UntimedPhases[d] = PhaseOf(row[d])
         /\ UntimedPhases[d] = "over" <=> row[d].end <= now
         /\ UntimedPhases[d] = "before" <=> now < row[d].start
         /\ UntimedPhases[d] \in { "before", "open", "over" }
<1>1. row[d] \in TimedRow /\ row[d].start \in Int /\ row[d].end \in Int /\ now \in Nat
      /\ row[d].start < row[d].end
  BY RowFacts, PlanType
<1>2. UntimedPhases[d] = PhaseOf(row[d])
  BY DEF UntimedPhases, Phase, PhaseOf
<1>3. UntimedRows[d] = UntimedRow(row[d], aim[d])
  BY DEF UntimedRows
<1>4. /\ row[d].status \in { "scheduled", "watching", "expired" }
      /\ aim[d] \in { "none", "start", "now", "planned" }
  BY <1>1 DEF TypeInv, Store, TimedRow
<1>5. /\ UntimedRows[d] \in BotRow /\ ~UntimedRows[d].simulated
      /\ UntimedRows[d].status = row[d].status
      /\ UntimedRows[d].next = IF aim[d] \in { "now", "planned" } THEN "soon" ELSE aim[d]
  BY <1>3, <1>4, UntimedRowType
<1> QED BY <1>1, <1>2, <1>3, <1>4, <1>5 DEF PhaseOf

\* A realigned row is the one DomainBot realigns to the phase of its window.
LEMMA RealignedMaps ==
  ASSUME TypeInv, NEW d \in Rows, NEW r, Aligns(r)
  PROVE  UntimedRow(r, AimOf(r, now)) = Untimed!Realigned(d, PhaseOf(r))
<1>0. now \in Int
  BY TimesAssumption DEF TypeInv, Clock
<1>1. r.status = Untimed!PhaseStatus(PhaseOf(r))
  BY <1>0 DEF Aligns, PhaseOf, Untimed!PhaseStatus
<1>2. (IF AimOf(r, now) \in { "now", "planned" } THEN "soon" ELSE AimOf(r, now))
        = Untimed!PhaseNext(PhaseOf(r))
  BY <1>0 DEF Aligns, PhaseOf, AimOf, Untimed!PhaseNext
<1>3. /\ r.status \in { "scheduled", "watching", "expired" }
      /\ AimOf(r, now) \in { "none", "start", "now", "planned" }
  BY DEF Aligns, AimOf
<1> DEFINE x == UntimedRows[d]
           y == UntimedRow(r, AimOf(r, now))
           s == Untimed!PhaseStatus(PhaseOf(r))
           n == Untimed!PhaseNext(PhaseOf(r))
<1>4. x \in BotRow /\ ~x.simulated
  BY UntimedFacts
<1>5. y \in BotRow /\ ~y.simulated /\ y.status = s /\ y.next = n
  BY <1>1, <1>2, <1>3, UntimedRowType
<1>6. Untimed!Realigned(d, PhaseOf(r)) = [x EXCEPT !.status = s, !.next = n]
  BY DEF Untimed!Realigned
<1> HIDE DEF x, y, s, n
<1>7. [x EXCEPT !.status = s, !.next = n] = y
  BY <1>4, <1>5 DEF BotRow
<1> QED BY <1>6, <1>7 DEF y

\* The session of the rows moved is one of DomainBot.
LEMMA CommitMaps ==
  ASSUME TypeInv, UNCHANGED now, NEW moved \in SUBSET Rows, NEW new,
         Commit(moved, new, now), \A d \in moved : Aligns(new[d]),
         NEW rolled, \A d \in moved : rolled[d] = PhaseOf(new[d])
  PROVE  Untimed!Realign(moved, rolled)
<1>1. ASSUME NEW d \in Rows
      PROVE  /\ UntimedRow(row'[d], aim'[d]) =
                  IF d \in moved THEN Untimed!Realigned(d, rolled[d])
                  ELSE UntimedRows[d]
             /\ Phase(d)' = IF d \in moved THEN rolled[d] ELSE UntimedPhases[d]
  <2>1. CASE d \in moved
    <3>1. row'[d] = new[d] /\ aim'[d] = AimOf(new[d], now)
      BY <2>1 DEF Commit
    <3>2. UntimedRow(new[d], AimOf(new[d], now)) = Untimed!Realigned(d, PhaseOf(new[d]))
      BY <2>1, RealignedMaps
    <3> QED BY <2>1, <3>1, <3>2 DEF Phase, PhaseOf
  <2>2. CASE d \notin moved
    <3>1. row'[d] = row[d] /\ aim'[d] = aim[d]
      BY <2>2 DEF Commit
    <3> QED BY <2>2, <3>1 DEF Phase, UntimedRows, UntimedPhases
  <2> QED BY <2>1, <2>2
<1>2. UntimedRows' = [ d \in Rows |-> IF d \in moved THEN Untimed!Realigned(d, rolled[d])
                                      ELSE UntimedRows[d] ]
  BY <1>1 DEF UntimedRows
<1>3. UntimedPhases' = [ d \in Rows |-> IF d \in moved THEN rolled[d]
                                        ELSE UntimedPhases[d] ]
  BY <1>1 DEF UntimedPhases
<1> QED BY <1>2, <1>3 DEF Untimed!Realign

\* The phases that windows roll over to are among those DomainBot allows.
LEMMA RolledMaps ==
  ASSUME TypeInv, Windows, NEW d \in Rows, row[d].end <= now
  PROVE  PhaseOf(Rolled(d, now)) \in Untimed!RolledPhases(d)
<1>1. /\ Aligns(Rolled(d, now))
      /\ ~IsDaily(d) => Rolled(d, now).end <= now
      /\ IsDaily(d) => now < Rolled(d, now).end
      /\ IsDaily(d) /\ ~AllDay(d) => now < Rolled(d, now).start
  BY RolledAligns
<1>2. UntimedPhases[d] = "over" /\ now \in Nat
  BY UntimedFacts, RowFacts
<1>3. Plan[d].type \in { "once", "daily" }
  BY PlanAssumption
<1> QED BY <1>1, <1>2, <1>3
        DEF Untimed!RolledPhases, PhaseOf, Aligns, IsDaily, AllDay

\* The processes of DomainBot.
LEMMA UntimedProcesses ==
  /\ Untimed!Procs = { "daemon", "cli" }
  /\ "daemon" \in Untimed!Procs
  /\ UntimedPC["daemon"] = IF pc = "sleep" THEN "loop"
                           ELSE IF pc = "retry" THEN "search" ELSE pc
  /\ UntimedJob["daemon"].d = picked
  BY DEF Untimed!Procs, UntimedPC, UntimedJob

LEMMA GoesTo ==
  ASSUME NEW point, point = (IF pc' = "sleep" THEN "loop"
                             ELSE IF pc' = "retry" THEN "search" ELSE pc')
  PROVE  Untimed!Goto("daemon", point)
  BY DEF Untimed!Goto, UntimedPC

LEMMA Forgets ==
  ASSUME picked' = NoRow
  PROVE  Untimed!Forget("daemon", FALSE)
  BY DEF Untimed!Forget, Untimed!Idle, UntimedJob

LEMMA Returns ==
  ASSUME picked' = NoRow, pc' = "loop"
  PROVE  Untimed!Return("daemon")
<1>1. Untimed!Goto("daemon", "loop")
  BY GoesTo
<1>2. UntimedJob["daemon"].dry = FALSE
  BY DEF UntimedJob
<1> QED BY <1>1, <1>2, Forgets DEF Untimed!Return


-----------------------------------------------------------------------------
(* Every step is a step of DomainBot, or stutters there. *)

LEMMA RecoverMaps ==
  ASSUME TypeInv, Windows, Meant, Recover
  PROVE  Untimed!Recover("daemon")
<1> DEFINE new == [ d \in Rows |-> Aligned(d, now) ]
           rolled == [ d \in Rows |-> PhaseOf(Aligned(d, now)) ]
           aligned == { d \in Rows : ~Untimed!RecoverSkips(d) }
<1>1. /\ pc = "recover" /\ pc' = "loop" /\ Commit(Rows, new, now)
      /\ UNCHANGED now /\ picked' = picked
  BY DEF Recover, locals
<1>2. aligned = Rows /\ Untimed!Uncertain = {}
  BY UntimedFacts DEF Untimed!RecoverSkips, Untimed!Uncertain
<1>3. \A d \in Rows : Aligns(new[d])
  BY AlignedAligns
<1>4. ASSUME NEW d \in Rows
      PROVE  /\ rolled[d] \in Untimed!RolledPhases(d)
             /\ rolled[d] \in Untimed!Phases
             /\ Untimed!CanAlign(d, rolled[d])
  <2>1. rolled[d] \in Untimed!RolledPhases(d)
    <3>1. CASE row[d].end <= now
      BY <3>1, RolledMaps, AlignedAligns
    <3>2. CASE ~(row[d].end <= now)
      <4>1. now < row[d].end
        BY <3>2, RowFacts
      <4>2. rolled[d] = UntimedPhases[d] /\ UntimedPhases[d] # "over"
        BY <3>2, <4>1, AlignedAligns, UntimedFacts
      <4> QED BY <4>2 DEF Untimed!RolledPhases
    <3> QED BY <3>1, <3>2
  <2>2. rolled[d] \in Untimed!Phases
    BY DEF PhaseOf, Untimed!Phases
  <2>3. /\ UntimedRows[d].status = row[d].status
        /\ row[d].status \in { "scheduled", "watching", "expired" }
        /\ row[d].status = "expired" => UntimedPhases[d] = "over"
        /\ row[d].status = "watching" => UntimedPhases[d] # "before"
        /\ UntimedPhases[d] \in { "before", "open", "over" }
    <3>1. row[d].start \in Int /\ row[d].end \in Int /\ now \in Int
      BY RowFacts
    <3>2. /\ row[d].status = "expired" => row[d].end <= now
          /\ row[d].status = "watching" => row[d].start <= now
      BY DEF Meant
    <3> QED BY <3>1, <3>2, UntimedFacts
  <2>4. Untimed!CanAlign(d, rolled[d])
    <3>1. CASE UntimedPhases[d] = "over"
      BY <2>1, <2>3, <3>1
         DEF Untimed!CanAlign, Untimed!CanApply, Untimed!ValidTransition,
             Untimed!AlignFrom, Untimed!RolloverFrom, Untimed!RolledPhases,
             Untimed!PhaseStatus
    <3>2. CASE UntimedPhases[d] = "before"
      BY <2>1, <2>3, <3>2
         DEF Untimed!CanAlign, Untimed!CanApply, Untimed!ValidTransition,
             Untimed!RolledPhases, Untimed!PhaseStatus
    <3>3. CASE UntimedPhases[d] = "open"
      BY <2>1, <2>3, <3>3
         DEF Untimed!CanAlign, Untimed!CanApply, Untimed!ValidTransition,
             Untimed!AlignFrom, Untimed!RolledPhases, Untimed!PhaseStatus
    <3> QED BY <2>3, <3>1, <3>2, <3>3
  <2> QED BY <2>1, <2>2, <2>4
<1>5. rolled \in Untimed!Rollovers
  BY <1>4 DEF Untimed!Rollovers
<1>6. Untimed!Realign(Rows, rolled)
  BY <1>1, <1>3, CommitMaps
<1>7. Untimed!Return("daemon")
  <2>1. picked = NoRow
    BY <1>1 DEF TypeInv, Control, Working, Serving
  <2> QED BY <1>1, <2>1, Returns
<1>8. UntimedPC["daemon"] = "recover"
  BY <1>1, UntimedProcesses
<1> HIDE DEF rolled, new
<1> QED BY <1>2, <1>4, <1>5, <1>6, <1>7, <1>8
        DEF Untimed!Recover, Untimed!remote

LEMMA ExpireMaps ==
  ASSUME TypeInv, Windows, Meant, ExpireDueWindows
  PROVE  Untimed!ExpireDueWindows
<1> DEFINE moved == { d \in Monitored : row[d].end <= now }
           new == [ d \in Rows |-> Rolled(d, now) ]
           rolled == [ d \in Rows |-> IF d \in moved THEN PhaseOf(Rolled(d, now))
                                      ELSE CHOOSE ph \in Untimed!RolledPhases(d) : TRUE ]
           due == { d \in Rows : /\ UntimedPhases[d] = "over"
                                 /\ UntimedRows[d].status
                                      \in Untimed!ActiveMonitorStatuses
                                 /\ UntimedRows[d].status # "available" }
<1>1. /\ pc = "loop" /\ pc' = "select" /\ Commit(moved, new, now)
      /\ UNCHANGED now /\ picked' = picked
  BY DEF ExpireDueWindows
<1>2. moved \in SUBSET Rows /\ due = moved
  BY UntimedFacts DEF Monitored, Untimed!ActiveMonitorStatuses
<1>3. \A d \in moved : Aligns(new[d])
  BY <1>2, RolledAligns
<1>4. ASSUME NEW d \in Rows
      PROVE  /\ rolled[d] \in Untimed!RolledPhases(d)
             /\ rolled[d] \in Untimed!Phases
  <2>1. rolled[d] \in Untimed!RolledPhases(d)
    <3>1. CASE d \in moved
      BY <3>1, RolledMaps
    <3>2. CASE d \notin moved
      <4>1. Untimed!RolledPhases(d) # {}
        <5>1. Plan[d].type \in { "once", "daily" }
          BY PlanAssumption
        <5> QED BY <5>1 DEF Untimed!RolledPhases
      <4> QED BY <3>2, <4>1
    <3> QED BY <3>1, <3>2
  <2>2. UntimedPhases[d] \in { "before", "open", "over" }
    BY UntimedFacts
  <2>3. Untimed!RolledPhases(d) \subseteq { "before", "open", "over" }
    BY <2>2 DEF Untimed!RolledPhases
  <2> HIDE DEF rolled
  <2> QED BY <2>1, <2>3 DEF Untimed!Phases
<1>5. ASSUME NEW d \in moved
      PROVE  Untimed!CanExpire(d, rolled[d])
  <2>1. /\ UntimedRows[d].status = row[d].status
        /\ row[d].status \in { "scheduled", "watching" }
        /\ d \in Rows
    BY <1>2, UntimedFacts DEF Monitored
  <2> HIDE DEF rolled
  <2> QED BY <2>1
          DEF Untimed!CanExpire, Untimed!CanApply, Untimed!RolloverFrom
<1>6. \A d \in moved : rolled[d] = PhaseOf(new[d])
  BY <1>2
<1> HIDE DEF rolled, new
<1>7. rolled \in Untimed!Rollovers
  <2>1. rolled = [ d \in Rows |-> rolled[d] ]
    BY DEF rolled
  <2> QED BY <1>4, <2>1 DEF Untimed!Rollovers
<1>8. Untimed!Realign(moved, rolled)
  BY <1>1, <1>2, <1>3, <1>6, CommitMaps
<1>9. UntimedPC["daemon"] = "loop" /\ Untimed!Goto("daemon", "select")
      /\ UNCHANGED UntimedJob
  BY <1>1, UntimedProcesses, GoesTo DEF UntimedJob
<1> HIDE DEF moved
<1> QED BY <1>2, <1>5, <1>7, <1>8, <1>9
        DEF Untimed!ExpireDueWindows, Untimed!remote

\* The rows and their windows stay as they are.
LEMMA RowsStay ==
  ASSUME UNCHANGED << row, aim, now >>
  PROVE  UNCHANGED << UntimedRows, UntimedPhases >>
  BY DEF UntimedRows, UntimedPhases, Phase

LEMMA SelectMaps ==
  ASSUME TypeInv, Windows, InCycle, Meant, SelectDueDomain
  PROVE  \E d \in Rows : Untimed!SelectDueDomain(d)
<1>1. PICK d \in Due : picked' = d
  BY DEF SelectDueDomain
<1>2. /\ d \in Rows /\ d \in Monitored /\ row[d].next <= cycle
      /\ row[d].status \in { "scheduled", "watching" }
  BY <1>1 DEF Due, Monitored
<1>3. pc = "select" /\ pc' = "start" /\ cycle = now /\ UNCHANGED << row, aim, now >>
  BY DEF SelectDueDomain, InCycle
<1>4. Untimed!MayBeDue(d)
  <2>1. aim[d] \in { "start", "now", "planned" } /\ aim[d] # "none"
    BY <1>2 DEF Meant, TypeInv, Store
  <2>2. aim[d] = "start" => ~(now < row[d].start)
    BY <1>2, <1>3, RowFacts DEF Meant
  <2> QED BY <1>2, <2>1, <2>2, UntimedFacts
          DEF Untimed!MayBeDue, Untimed!ActiveMonitorStatuses
<1>5. Untimed!Goto("daemon", "start") /\ UNCHANGED << UntimedRows, UntimedPhases >>
  BY <1>3, GoesTo, RowsStay
<1>6. UntimedJob' = [UntimedJob EXCEPT !["daemon"].d = d]
  BY <1>1 DEF UntimedJob
<1>7. UntimedPC["daemon"] = "select" /\ UntimedRows[d].status # "available"
  BY <1>2, <1>3, UntimedProcesses, UntimedFacts
<1> QED BY <1>2, <1>4, <1>5, <1>6, <1>7 DEF Untimed!SelectDueDomain, Untimed!remote

LEMMA NothingDueMaps ==
  ASSUME TypeInv, InCycle, Meant, NothingDue
  PROVE  Untimed!NothingDue
<1>1. /\ pc = "select" /\ pc' = "sleep" /\ cycle = now /\ Due = {}
      /\ UNCHANGED << row, aim, now, picked >>
  BY DEF NothingDue, InCycle
<1>2. ASSUME NEW d \in Rows, Untimed!IsDue(d)
      PROVE  FALSE
  <2>1. /\ row[d].status \in { "scheduled", "watching" } /\ aim[d] = "start"
        /\ ~(now < row[d].start)
    BY <1>2, UntimedFacts
       DEF Untimed!IsDue, Untimed!MayBeDue, Untimed!ActiveMonitorStatuses
  <2>2. row[d].next <= cycle /\ row[d].next # NoTime
    BY <1>1, <2>1, RowFacts DEF Meant
  <2> QED BY <1>1, <2>1, <2>2 DEF Due, Monitored
<1>3. /\ Untimed!Goto("daemon", "loop") /\ UNCHANGED << UntimedRows, UntimedPhases >>
      /\ UNCHANGED UntimedJob /\ UntimedPC["daemon"] = "select"
  BY <1>1, GoesTo, RowsStay, UntimedProcesses DEF UntimedJob
<1> QED BY <1>2, <1>3 DEF Untimed!NothingDue, Untimed!remote

\* One row changes, and no window.
LEMMA OneRowMaps ==
  ASSUME UNCHANGED now, NEW p \in Rows, NEW y, UntimedRow(row'[p], aim'[p]) = y,
         \A d \in Rows : row'[d].start = row[d].start /\ row'[d].end = row[d].end,
         \A d \in Rows \ { p } : row'[d] = row[d] /\ aim'[d] = aim[d]
  PROVE  /\ UntimedRows' = [UntimedRows EXCEPT ![p] = y]
         /\ UNCHANGED UntimedPhases
<1>1. \A d \in Rows : UntimedRow(row'[d], aim'[d]) = IF d = p THEN y ELSE UntimedRows[d]
  BY DEF UntimedRows
<1>2. UntimedRows' = [ d \in Rows |-> UntimedRow(row'[d], aim'[d]) ]
  BY DEF UntimedRows, UntimedRow
<1>3. UNCHANGED UntimedPhases
  BY DEF UntimedPhases, Phase
<1>4. UntimedRows = [ d \in Rows |-> UntimedRows[d] ]
  BY DEF UntimedRows
<1> HIDE DEF UntimedRows
<1> QED BY <1>1, <1>2, <1>3, <1>4

LEMMA StartCheckMaps ==
  ASSUME TypeInv, InCycle, Meant, StartCheck
  PROVE  Untimed!StartCheck
<1>1. /\ pc = "start" /\ pc' = "search" /\ cycle = now /\ picked \in Monitored
      /\ row[picked].start <= now /\ now < row[picked].end
      /\ row' = [row EXCEPT ![picked].status = "watching"]
      /\ UNCHANGED << now, aim, picked >>
  BY DEF StartCheck, InCycle, Working
<1>2. picked \in Rows /\ row[picked].status \in { "scheduled", "watching" }
  BY <1>1 DEF Monitored
<1>3. ASSUME NEW d \in Rows
      PROVE  /\ row'[d] = IF d = picked THEN [row[d] EXCEPT !.status = "watching"]
                          ELSE row[d]
             /\ row[d] \in TimedRow
  BY <1>1 DEF TypeInv, Store
<1>4. UntimedRow(row'[picked], aim'[picked])
        = [UntimedRows[picked] EXCEPT !.status = "watching"]
  <2> DEFINE x == UntimedRows[picked]
             y == UntimedRow(row'[picked], aim'[picked])
  <2>1. row'[picked].status = "watching" /\ aim'[picked] = aim[picked]
        /\ aim[picked] \in { "none", "start", "now", "planned" }
    BY <1>1, <1>2, <1>3 DEF TypeInv, Store, TimedRow
  <2>2. y \in BotRow /\ ~y.simulated /\ y.status = "watching"
        /\ y.next = IF aim[picked] \in { "now", "planned" } THEN "soon" ELSE aim[picked]
    BY <2>1, UntimedRowType
  <2>3. x \in BotRow /\ ~x.simulated /\ y.next = x.next
    BY <1>2, <2>2, UntimedFacts
  <2> HIDE DEF x, y
  <2> QED BY <2>2, <2>3, BotRowChange DEF x, y
<1>5. /\ UntimedRows' = [UntimedRows EXCEPT
                           ![picked] = [UntimedRows[picked] EXCEPT !.status = "watching"]]
      /\ UNCHANGED UntimedPhases
  <2>1. \A d \in Rows : row'[d].start = row[d].start /\ row'[d].end = row[d].end
    BY <1>3 DEF TimedRow
  <2> QED BY <1>1, <1>2, <1>3, <1>4, <2>1, OneRowMaps
<1>6. UntimedPhases[picked] = "open" /\ UntimedRows[picked].status = row[picked].status
  <2>1. now \in Int /\ row[picked].start \in Int /\ row[picked].end \in Int
    BY <1>2, RowFacts
  <2> QED BY <1>1, <1>2, <2>1, UntimedFacts DEF PhaseOf
<1>7. Untimed!Goto("daemon", "search") /\ UNCHANGED UntimedJob
      /\ UntimedPC["daemon"] = "start" /\ UntimedJob["daemon"].d = picked
  BY <1>1, GoesTo, UntimedProcesses DEF UntimedJob
<1>8. Untimed!CanApply(UntimedRows[picked].status, "watching", {})
  BY <1>2, <1>6
     DEF Untimed!CanApply, Untimed!ValidTransition, Untimed!AllowedTransitions,
         Untimed!DomainStatuses
<1>9. UntimedRows[picked].status \notin Untimed!SkipStatuses
  BY <1>2, <1>6 DEF Untimed!SkipStatuses
<1> QED BY <1>5, <1>6, <1>7, <1>8, <1>9
        DEF Untimed!StartCheck, Untimed!Transition, Untimed!remote

LEMMA SearchReplyMaps ==
  ASSUME TypeInv, InCycle, SearchReply
  PROVE  Untimed!SearchReply("daemon")
<1>1. /\ pc = "search" /\ pc' = "resched" /\ picked \in Rows
      /\ UNCHANGED << row, aim, now, picked >>
  BY DEF SearchReply, InCycle, Working, Serving, Monitored
<1>2. /\ Untimed!Goto("daemon", "resched") /\ UNCHANGED UntimedJob
      /\ UNCHANGED << UntimedRows, UntimedPhases >>
      /\ UntimedPC["daemon"] = "search" /\ UntimedJob["daemon"].d = picked
  BY <1>1, GoesTo, RowsStay, UntimedProcesses DEF UntimedJob
<1>3. UntimedRows = [UntimedRows EXCEPT ![picked].simulated = FALSE,
                                        ![picked].price = @]
  BY <1>1 DEF UntimedRows, UntimedRow
<1> QED BY <1>1, <1>2, <1>3 DEF Untimed!SearchReply, Untimed!remote

LEMMA SearchFailsMaps ==
  ASSUME TypeInv, InCycle, SearchFails
  PROVE  Untimed!SearchFails("daemon")
<1>1. /\ pc = "search" /\ pc' = "backoff" /\ picked \in Rows
      /\ UNCHANGED << row, aim, now, picked >>
  BY DEF SearchFails, InCycle, Working, Serving, Monitored
<1>2. /\ Untimed!Goto("daemon", "backoff") /\ UNCHANGED UntimedJob
      /\ UNCHANGED << UntimedRows, UntimedPhases >>
      /\ UntimedPC["daemon"] = "search" /\ UntimedJob["daemon"].d = picked
  BY <1>1, GoesTo, RowsStay, UntimedProcesses DEF UntimedJob
<1>3. UntimedRows = [UntimedRows EXCEPT ![picked].simulated = @ /\ ~TRUE]
  BY <1>1 DEF UntimedRows, UntimedRow
<1> QED BY <1>1, <1>2, <1>3 DEF Untimed!SearchFails, Untimed!remote

LEMMA RescheduleMaps ==
  ASSUME TypeInv, InCycle, Meant, Reschedule
  PROVE  Untimed!ScheduleNextCheck \/ Untimed!ScheduleAfterFailure
<1>1. /\ pc \in { "resched", "backoff" } /\ pc' = "loop" /\ picked' = NoRow
      /\ picked \in Rows /\ row[picked].status = "watching"
      /\ row' = [row EXCEPT ![picked].next = NextCheck(picked),
                            ![picked].status = "watching"]
      /\ aim' = [aim EXCEPT ![picked] = "planned"]
      /\ UNCHANGED now
  BY DEF Reschedule, Forget, InCycle, Meant, Working, Serving, Monitored
<1>2. ASSUME NEW d \in Rows
      PROVE  /\ row'[d] = IF d = picked
                            THEN [row[d] EXCEPT !.next = NextCheck(picked),
                                                !.status = "watching"]
                            ELSE row[d]
             /\ aim'[d] = IF d = picked THEN "planned" ELSE aim[d]
             /\ row[d] \in TimedRow
  BY <1>1 DEF TypeInv, Store
<1>3. row'[picked].status = "watching" /\ aim'[picked] = "planned"
  <2>1. /\ row'[picked] = [row[picked] EXCEPT !.next = NextCheck(picked),
                                              !.status = "watching"]
        /\ row[picked] \in TimedRow /\ aim'[picked] = "planned"
    BY <1>1, <1>2
  <2> QED BY <2>1 DEF TimedRow
<1>4. UntimedRow(row'[picked], aim'[picked]) = Untimed!Rescheduled(picked)
  <2> DEFINE x == UntimedRows[picked]
             y == UntimedRow(row'[picked], aim'[picked])
  <2>1. y \in BotRow /\ ~y.simulated /\ y.status = "watching" /\ y.next = "soon"
    BY <1>3, UntimedRowType
  <2>2. x \in BotRow /\ ~x.simulated
    BY <1>1, UntimedFacts
  <2>3. Untimed!Rescheduled(picked) = [x EXCEPT !.next = "soon", !.status = "watching"]
    BY DEF Untimed!Rescheduled
  <2> HIDE DEF x, y
  <2> QED BY <2>1, <2>2, <2>3, BotRowChange DEF y
<1>5. /\ UntimedRows' = [UntimedRows EXCEPT ![picked] = Untimed!Rescheduled(picked)]
      /\ UNCHANGED UntimedPhases
  <2>1. \A d \in Rows : row'[d].start = row[d].start /\ row'[d].end = row[d].end
    BY <1>2 DEF TimedRow
  <2>2. \A d \in Rows \ { picked } : row'[d] = row[d] /\ aim'[d] = aim[d]
    BY <1>2
  <2> QED BY <1>1, <1>4, <2>1, <2>2, OneRowMaps
<1>6. Untimed!Rescheduled(picked)
        = [Untimed!Rescheduled(picked) EXCEPT !.simulated = FALSE]
  <2> DEFINE z == Untimed!Rescheduled(picked)
  <2>1. z \in BotRow /\ ~z.simulated
    BY <1>3, <1>4, UntimedRowType
  <2> HIDE DEF z
  <2>2. z = [z EXCEPT !.simulated = FALSE]
    BY <2>1 DEF BotRow
  <2> QED BY <2>2 DEF z
<1>7. Untimed!Return("daemon")
  BY <1>1, Returns
<1>8. UntimedPC["daemon"] = pc /\ UntimedJob["daemon"].d = picked
  BY <1>1, UntimedProcesses
<1>9. UntimedRows[picked].status \notin Untimed!SkipStatuses
  BY <1>1, UntimedFacts DEF Untimed!SkipStatuses
<1> QED BY <1>1, <1>5, <1>6, <1>7, <1>8, <1>9
        DEF Untimed!ScheduleNextCheck, Untimed!ScheduleAfterFailure, Untimed!remote

LEMMA StartMaps ==
  ASSUME TypeInv, Start
  PROVE  Untimed!Start
<1>1. pc = "down" /\ pc' = "recover" /\ picked' = picked /\ UNCHANGED << row, aim, now >>
  BY DEF Start, locals
<1>2. picked = NoRow
  BY <1>1 DEF TypeInv, Control, Working, Serving
<1>3. /\ Untimed!Goto("daemon", "recover") /\ Untimed!Forget("daemon", FALSE)
      /\ UNCHANGED << UntimedRows, UntimedPhases >> /\ UntimedPC["daemon"] = "down"
  BY <1>1, <1>2, GoesTo, Forgets, RowsStay, UntimedProcesses
<1> QED BY <1>3 DEF Untimed!Start, Untimed!remote

LEMMA CrashMaps ==
  ASSUME TypeInv, Crash
  PROVE  Untimed!Crash("daemon")
<1>1. pc # "down" /\ pc' = "down" /\ picked' = NoRow /\ UNCHANGED << row, aim, now >>
  BY DEF Crash, Forget
<1>2. UntimedPC["daemon"] \in { "recover", "loop", "select", "start", "search",
                                "resched", "backoff" }
  BY <1>1, UntimedProcesses DEF TypeInv, Control, PCs
<1>3. /\ Untimed!Goto("daemon", "down") /\ Untimed!Forget("daemon", FALSE)
      /\ UNCHANGED << UntimedRows, UntimedPhases >>
  BY <1>1, GoesTo, Forgets, RowsStay
<1> QED BY <1>2, <1>3 DEF Untimed!Crash, Untimed!remote

\* A window moves by one phase at a time: it lasts at least one instant.
LEMMA TickMaps ==
  ASSUME TypeInv, Tick
  PROVE  \/ \E moved \in (SUBSET Rows) \ { {} } : Untimed!Tick(moved)
         \/ UNCHANGED Untimed!vars
<1> DEFINE moved == { d \in Rows : Phase(d)' # UntimedPhases[d] }
<1>1. /\ UNCHANGED << row, aim, pc, picked >> /\ now' = now + 1
      /\ pc \in { "down", "sleep", "search", "retry" }
  BY DEF Tick
<1>2. ASSUME NEW d \in Rows
      PROVE  Phase(d)' = IF d \notin moved THEN UntimedPhases[d]
                         ELSE IF UntimedPhases[d] = "before" THEN "open" ELSE "over"
  <2>1. /\ row[d].start \in Int /\ row[d].end \in Int /\ now \in Int
        /\ row[d].start < row[d].end
    BY RowFacts, PlanType
  <2> QED BY <1>1, <2>1 DEF UntimedPhases, Phase
<1>3. \A d \in moved : UntimedPhases[d] # "over"
  <2> SUFFICES ASSUME NEW d \in moved PROVE UntimedPhases[d] # "over"
    OBVIOUS
  <2>1. /\ row[d].start \in Int /\ row[d].end \in Int /\ now \in Int
        /\ row[d].start < row[d].end
    BY RowFacts, PlanType
  <2> QED BY <1>1, <2>1 DEF UntimedPhases, Phase
<1>4. UntimedPhases' = [ d \in Rows |-> Phase(d)' ]
  BY DEF UntimedPhases
<1>5. /\ UNCHANGED << UntimedRows, UntimedPC, UntimedJob >>
      /\ UntimedPC["daemon"] \notin { "select", "start" }
  BY <1>1, UntimedProcesses DEF UntimedRows, UntimedPC, UntimedJob
<1>6. CASE moved = {}
  <2>1. UNCHANGED UntimedPhases
    BY <1>2, <1>4, <1>6 DEF UntimedPhases
  <2> QED BY <1>5, <2>1 DEF Untimed!vars
<1>7. CASE moved # {}
  <2>1. UntimedPhases' = [ d \in Rows |->
                             IF d \notin moved THEN UntimedPhases[d]
                             ELSE IF UntimedPhases[d] = "before" THEN "open" ELSE "over" ]
    BY <1>2, <1>4
  <2> HIDE DEF moved
  <2>2. Untimed!Tick(moved)
    BY <1>3, <1>5, <2>1 DEF Untimed!Tick, Untimed!remote
  <2> QED BY <1>7, <2>2 DEF moved
<1> QED BY <1>6, <1>7

LEMMA StepMaps ==
  ASSUME TimedInv, Meant, [Next]_vars
  PROVE  [Untimed!Next]_(Untimed!vars)
<1>0. TypeInv /\ Windows /\ InCycle
  BY DEF TimedInv, Timely
<1>1. CASE Recover
  BY <1>0, <1>1, RecoverMaps, UntimedProcesses DEF Untimed!Next, Untimed!Step
<1>2. CASE ExpireDueWindows
  BY <1>0, <1>2, ExpireMaps DEF Untimed!Next, Untimed!DaemonStep
<1>3. CASE SelectDueDomain
  BY <1>0, <1>3, SelectMaps DEF Untimed!Next, Untimed!DaemonStep
<1>4. CASE NothingDue
  BY <1>0, <1>4, NothingDueMaps DEF Untimed!Next, Untimed!DaemonStep
<1>5. CASE StartCheck
  BY <1>0, <1>5, StartCheckMaps DEF Untimed!Next, Untimed!DaemonStep
<1>6. CASE SearchReply
  BY <1>0, <1>6, SearchReplyMaps, UntimedProcesses DEF Untimed!Next, Untimed!Step
<1>7. CASE SearchFails
  BY <1>0, <1>7, SearchFailsMaps, UntimedProcesses DEF Untimed!Next, Untimed!Step
<1>8. CASE Reschedule
  BY <1>0, <1>8, RescheduleMaps DEF Untimed!Next, Untimed!DaemonStep
<1>9. CASE Start
  BY <1>0, <1>9, StartMaps DEF Untimed!Next, Untimed!Environment
<1>10. CASE Crash
  BY <1>0, <1>10, CrashMaps, UntimedProcesses DEF Untimed!Next, Untimed!Environment
<1>11. CASE Tick
  BY <1>0, <1>11, TickMaps DEF Untimed!Next, Untimed!Environment
<1>12. CASE Wake \/ SearchRetry \/ SendAgain \/ UNCHANGED vars
  <2>1. /\ UNCHANGED << row, aim, now, picked >>
        /\ \/ pc = "sleep" /\ pc' = "loop"
           \/ pc = "search" /\ pc' = "retry"
           \/ pc = "retry" /\ pc' = "search"
           \/ pc' = pc
    BY <1>12 DEF Wake, SearchRetry, SendAgain, vars, locals
  <2>2. UNCHANGED << UntimedPC, UntimedJob >>
    BY <2>1 DEF UntimedPC, UntimedJob
  <2> QED BY <2>1, <2>2, RowsStay DEF Untimed!vars
<1> QED BY <1>1, <1>2, <1>3, <1>4, <1>5, <1>6, <1>7, <1>8, <1>9, <1>10, <1>11, <1>12
        DEF Next

LEMMA InitMaps ==
  ASSUME Init
  PROVE  Meant /\ Untimed!Init
<1>0. TypeInv
  BY InitType
<1>1. ASSUME NEW d \in Rows
      PROVE  /\ row[d].status = IF now < row[d].start THEN "scheduled" ELSE "watching"
             /\ row[d].next = IF now < row[d].start THEN row[d].start ELSE now
             /\ aim[d] = IF now < row[d].start THEN "start" ELSE "now"
             /\ now \in Int /\ row[d].start \in Int
  <2>1. row[d] = Added(d) /\ aim[d] = IF row[d].status = "scheduled" THEN "start" ELSE "now"
    BY DEF Init
  <2>2. now \in Int /\ row[d].start \in Int
    BY <1>0, RowFacts
  <2> QED BY <2>1, <2>2 DEF Added
<1>2. Meant
  BY <1>1 DEF Meant, Init, Serving
<1>3. UntimedPhases \in [Rows -> Untimed!Phases]
  BY DEF UntimedPhases, Phase, Untimed!Phases
<1>4. UntimedRows =
        [ d \in Rows |->
            [ status |-> IF UntimedPhases[d] = "before" THEN "scheduled" ELSE "watching",
              next |-> IF UntimedPhases[d] = "before" THEN "start" ELSE "soon",
              attempts |-> 0, price |-> "unknown", simulated |-> FALSE ] ]
  BY <1>1 DEF UntimedRows, UntimedRow, UntimedPhases, Phase
<1>5. /\ UntimedPC = [ p \in Untimed!Procs |-> "down" ]
      /\ UntimedJob = [ p \in Untimed!Procs |-> Untimed!Idle(FALSE) ]
  BY DEF Init, UntimedPC, UntimedJob, Untimed!Procs, Untimed!Idle
<1> QED BY <1>2, <1>3, <1>4, <1>5 DEF Untimed!Init

\* With the clock forgotten, the daemon that reads it is the one of DomainBot:
\* run_once with its sessions, the rollover of windows and the sleep do with
\* numbers what DomainBot does with phases, for every plan of rows, every zone
\* and every horizon.
THEOREM DomainBotImplemented == Spec => ImplementsDomainBot
<1>1. Init => Meant /\ Untimed!Init
  BY InitMaps
<1>2. TimedInv /\ Meant /\ [Next]_vars => Meant'
  BY StepMeant DEF TimedInv
<1>3. TimedInv /\ Meant /\ [Next]_vars => [Untimed!Next]_(Untimed!vars)
  BY StepMaps
<1> QED BY <1>1, <1>2, <1>3, InvAlways, PTL DEF Spec, ImplementsDomainBot, Untimed!Spec
=============================================================================

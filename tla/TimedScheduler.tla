--------------------------- MODULE TimedScheduler ---------------------------
(***************************************************************************)
(* The daemon with its clock: DomainScheduler of src/domainbot/scheduler.py *)
(* where next_check_at, the windows and now are numbers, together with the *)
(* retries of check_domain (services/availability.py), while nobody drops  *)
(* a watched name.  It decides what DomainBot leaves open, which row is    *)
(* due and how long the daemon sleeps, and implements DomainBot.           *)
(*                                                                         *)
(* Sessions take no time.  Time passes while the daemon sleeps, waits for  *)
(* a reply or a retry, or is down.                                         *)
(***************************************************************************)
EXTENDS DailyWindow, Sequences, FiniteSets

CONSTANTS
  Rows,         \* ids of the rows, the order of a tie
  Plan,         \* what add was given for each row
  Zones,        \* local clocks
  MinSafe,      \* settings.dynadot_min_safe_interval_seconds
  Delays,       \* search_retry_delays
  ReplyWithin,  \* longest time a search request takes
  MaxSleep,     \* longest sleep of run_forever
  Horizon       \* bound on the clock

ASSUME TimesAssumption ==
  /\ Rows \subseteq Nat \ {0} /\ IsFiniteSet(Rows)
  /\ MinSafe \in Nat \ {0} /\ ReplyWithin \in Nat
  /\ MaxSleep \in Nat \ {0} /\ Horizon \in Nat /\ Day <= Horizon
  /\ Delays \in Seq(Nat)

\* start is what --start gave: nothing, a time of day or a date, whose instant
\* is time, past or to come.
\* interval is effective_interval_seconds: effective_interval keeps it safe.
ASSUME PlanAssumption ==
  \A d \in Rows :
    /\ Plan[d].type \in { "once", "daily" }
    /\ Plan[d].start \in { "nothing", "time", "date" }
    /\ Plan[d].time \in Int /\ Plan[d].duration \in Nat \ {0}
    /\ Plan[d].start = "time" => Plan[d].time \in 0..(Day - 1)
    /\ Plan[d].interval \in Nat /\ Plan[d].interval >= MinSafe

ASSUME ZonesAssumption == \A z \in Zones : IsZone(z)

\* The hour of the day that a zone skips or repeats.
Shifted(z) ==
  LET change == { z.at + z.before, z.at + z.after }
  IN  { t % Day : t \in UNION { a..(b - 1) : a, b \in change } }

NoTime == -1
NoRow == 0

VARIABLES
  now,       \* the clock
  zone,      \* the local clock of every row
  daily,     \* daily_start_time of each row
  row,       \* status, start_at, window_end, next_check_at
  pc,        \* where the daemon is
  cycle,     \* the reading of the clock run_once works with
  picked,    \* the row of the cycle
  previous,  \* its next_check_at when it was selected
  wait,      \* what is left of a sleep, or of the time a reply may take
  retries,   \* retries of the search so far
  aim,       \* history: what next_check_at is
  since,     \* history: when the daemon was started
  searched,  \* history: the last check of each row since then
  bypassed   \* history: rows served since a row was due with its next_check_at

vars == << now, zone, daily, row, pc, cycle, picked, previous, wait, retries,
           aim, since, searched, bypassed >>
locals == << cycle, picked, previous, wait, retries >>

\* "retry" and "sleep" are points of the search and of the loop of DomainBot.
PCs == { "down", "recover", "loop", "select", "start", "search", "retry",
         "resched", "backoff", "sleep" }

Forget ==
  /\ cycle' = NoTime /\ picked' = NoRow /\ previous' = NoTime
  /\ wait' = 0 /\ retries' = 0

Least(S) == CHOOSE x \in S : \A y \in S : x <= y
Greater(a, b) == IF a < b THEN b ELSE a
Smaller(a, b) == IF a < b THEN a ELSE b

-----------------------------------------------------------------------------
(* Windows. *)

IsDaily(d) == Plan[d].type = "daily"
AllDay(d) == IsDaily(d) /\ Plan[d].duration >= Day

\* _current_or_next_daily_start: a short window follows the local time of the
\* one before it.
DailyStart(d, t) ==
  IF AllDay(d)
    THEN CurrentOrNextDailyWindowStart(zone, daily[d], Plan[d].duration, t)
    ELSE NextDailyWindowAfter(zone, row[d].start, t)

\* Mutant: a window to come is not given its first check.
WindowedUnplanned(d, start, t) ==
  LET end == start + Plan[d].duration
      active == start <= t /\ t < end
  IN  [ status |-> IF active THEN "watching" ELSE "scheduled",
        start |-> start, end |-> end, next |-> IF active THEN t ELSE NoTime ]

\* A row whose window starts at start, at time t: status, next_check_at, aim.
Windowed(d, start, t) ==
  LET end == start + Plan[d].duration
      active == start <= t /\ t < end
  IN  [ status |-> IF active THEN "watching" ELSE "scheduled",
        start |-> start, end |-> end, next |-> IF active THEN t ELSE start ]

\* _expire_or_rollover of a row whose window is over at t.
Rolled(d, t) ==
  IF IsDaily(d) THEN Windowed(d, DailyStart(d, t), t)
  ELSE [row[d] EXCEPT !.status = "expired", !.next = NoTime]

\* _align_domain_schedule.
Aligned(d, t) ==
  CASE t >= row[d].end -> Rolled(d, t)
    [] t < row[d].start ->
         [row[d] EXCEPT !.status = "scheduled", !.next = row[d].start]
    [] OTHER -> [row[d] EXCEPT !.status = "watching", !.next = Greater(@, t)]

\* What next_check_at of a realigned row is: NULL, the start of its window or
\* the time of the realignment; a search makes it "planned".
AimOf(r, t) ==
  IF r.status = "expired" THEN "none"
  ELSE IF t < r.start THEN "start" ELSE "now"

\* Commits the rows of moved as new has them at time t.
Commit(moved, new, t) ==
  /\ row' = [ d \in Rows |-> IF d \in moved THEN new[d] ELSE row[d] ]
  /\ aim' = [ d \in Rows |-> IF d \in moved THEN AimOf(new[d], t) ELSE aim[d] ]
  /\ bypassed' = [ d \in Rows |-> IF d \in moved THEN 0 ELSE bypassed[d] ]

-----------------------------------------------------------------------------
(* The daemon. *)

Recover ==
  /\ pc = "recover"
  /\ Commit(Rows, [ d \in Rows |-> Aligned(d, now) ], now)
  /\ pc' = "loop"
  /\ UNCHANGED << now, zone, daily, locals, since, searched >>

Monitored == { d \in Rows : row[d].status \in { "scheduled", "watching" } }

\* Mutant: a window that ends now is not over.
ExpireEndedWindows ==
  /\ pc = "loop"
  /\ cycle' = now
  /\ Commit({ d \in Monitored : row[d].end < now },
            [ d \in Rows |-> Rolled(d, now) ], now)
  /\ pc' = "select"
  /\ UNCHANGED << now, zone, daily, picked, previous, wait, retries, since,
                  searched >>

\* run_once reads the clock and expires what is over.
ExpireDueWindows ==
  /\ pc = "loop"
  /\ cycle' = now
  /\ Commit({ d \in Monitored : row[d].end <= now },
            [ d \in Rows |-> Rolled(d, now) ], now)
  /\ pc' = "select"
  /\ UNCHANGED << now, zone, daily, picked, previous, wait, retries, since,
                  searched >>

Due == { d \in Monitored : row[d].next # NoTime /\ row[d].next <= cycle }

\* Mutant: the row with the least id goes first.
ById(d, e) == d <= e

\* ORDER BY next_check_at, id.
Before(d, e) ==
  \/ row[d].next < row[e].next
  \/ row[d].next = row[e].next /\ d <= e

SelectDueDomain ==
  /\ pc = "select"
  /\ \E d \in Due :
       /\ \A e \in Due : Before(d, e)
       /\ picked' = d
       /\ previous' = row[d].next
       /\ bypassed' = [ e \in Rows |-> IF e \in Due \ { d } THEN bypassed[e] + 1
                                       ELSE 0 ]
  /\ pc' = "start"
  /\ UNCHANGED << now, zone, daily, row, cycle, wait, retries, aim, since,
                  searched >>

\* Mutant: the last row is waited for.
UntilLastDue ==
  LET times == { row[d].next : d \in Rows } \ { NoTime }
  IN  IF times = {} THEN 1
      ELSE Smaller(MaxSleep, Greater(0, (CHOOSE x \in times :
                                           \A y \in times : y <= x) - now))

\* seconds_until_next_due looks at every row, whatever its status.
SecondsUntilNextDue ==
  LET times == { row[d].next : d \in Rows } \ { NoTime }
  IN  IF times = {} THEN 1
      ELSE Smaller(MaxSleep, Greater(0, Least(times) - now))

NothingDue ==
  /\ pc = "select"
  /\ Due = {}
  /\ pc' = "sleep"
  /\ wait' = SecondsUntilNextDue
  /\ cycle' = NoTime
  /\ bypassed' = [ d \in Rows |-> 0 ]
  /\ UNCHANGED << now, zone, daily, row, picked, previous, retries, aim, since,
                  searched >>

Wake ==
  /\ pc = "sleep"
  /\ wait = 0
  /\ pc' = "loop"
  /\ UNCHANGED << now, zone, daily, row, locals, aim, since, searched,
                  bypassed >>

\* The session before the search, in the cycle of the selection: nothing has
\* changed the row, and it is in its window (SelectedInWindow).
StartCheck ==
  /\ pc = "start"
  /\ row[picked].start <= cycle /\ cycle < row[picked].end
  /\ row' = [row EXCEPT ![picked].status = "watching"]
  /\ searched' = [searched EXCEPT ![picked] = now]
  /\ pc' = "search"
  /\ wait' = ReplyWithin
  /\ UNCHANGED << now, zone, daily, cycle, picked, previous, retries, aim,
                  since, bypassed >>

SearchReply ==
  /\ pc = "search"
  /\ pc' = "resched"
  /\ wait' = 0
  /\ UNCHANGED << now, zone, daily, row, cycle, picked, previous, retries, aim,
                  since, searched, bypassed >>

\* A network error is retried after a delay, as often as there are delays.
SearchRetry ==
  /\ pc = "search"
  /\ retries < Len(Delays)
  /\ retries' = retries + 1
  /\ wait' = Delays[retries + 1]
  /\ pc' = "retry"
  /\ UNCHANGED << now, zone, daily, row, cycle, picked, previous, aim, since,
                  searched, bypassed >>

SendAgain ==
  /\ pc = "retry"
  /\ wait = 0
  /\ wait' = ReplyWithin
  /\ pc' = "search"
  /\ UNCHANGED << now, zone, daily, row, cycle, picked, previous, retries, aim,
                  since, searched, bypassed >>

\* The last retry fails, or Dynadot answers with an error, which is not
\* retried.
SearchFails ==
  /\ pc = "search"
  /\ pc' = "backoff"
  /\ wait' = 0
  /\ UNCHANGED << now, zone, daily, row, cycle, picked, previous, retries, aim,
                  since, searched, bypassed >>

\* Mutant: missed checks are made up for.
NextCheckCatchingUp(d) == Smaller(previous + Plan[d].interval, row[d].end)

\* Mutant: the end of the window is ignored.
NextCheckPastEnd(d) == Greater(previous + Plan[d].interval, cycle + MinSafe)

NextCheck(d) ==
  Smaller(Greater(previous + Plan[d].interval, cycle + MinSafe), row[d].end)

\* _schedule_next_check and _schedule_after_failure: both count from the
\* beginning of the cycle.
Reschedule ==
  /\ pc \in { "resched", "backoff" }
  /\ row' = [row EXCEPT ![picked].next = NextCheck(picked),
                        ![picked].status = "watching"]
  /\ aim' = [aim EXCEPT ![picked] = "planned"]
  /\ pc' = "loop"
  /\ Forget
  /\ UNCHANGED << now, zone, daily, since, searched, bypassed >>

-----------------------------------------------------------------------------
(* The environment. *)

Start ==
  /\ pc = "down"
  /\ pc' = "recover"
  /\ since' = now
  /\ UNCHANGED << now, zone, daily, row, locals, aim, searched, bypassed >>

Crash ==
  /\ pc # "down"
  /\ pc' = "down"
  /\ Forget
  /\ since' = NoTime
  /\ searched' = [ d \in Rows |-> NoTime ]
  /\ bypassed' = [ d \in Rows |-> 0 ]
  /\ UNCHANGED << now, zone, daily, row, aim >>

Tick ==
  /\ now < Horizon
  /\ \/ pc = "down"
     \/ pc \in { "sleep", "search", "retry" } /\ wait > 0
  /\ now' = now + 1
  /\ wait' = IF wait > 0 THEN wait - 1 ELSE 0
  /\ UNCHANGED << zone, daily, row, pc, cycle, picked, previous, retries, aim,
                  since, searched, bypassed >>

-----------------------------------------------------------------------------
\* _parse_start: when the first window begins.
FirstStart(d) ==
  CASE Plan[d].start = "nothing" -> now
    [] Plan[d].start = "date" -> Plan[d].time
    [] OTHER ->
         IF AllDay(d)
           THEN CurrentOrNextDailyWindowStart(zone, Plan[d].time, Plan[d].duration, now)
           ELSE NextDailyWindowStart(zone, Plan[d].time, now)

\* _parse_start: the local time of the daily windows.  Nothing reads the one of a
\* row watched once.
DailyTime(d) ==
  IF Plan[d].start = "time" THEN Plan[d].time ELSE TimeOfDay(zone, FirstStart(d))

\* The hour that the zone skips or repeats has no short daily windows: their
\* wall time is not restored when it is computed from the window before.
Steady ==
  \A d \in Rows : IsDaily(d) /\ ~AllDay(d) => daily[d] \notin Shifted(zone)

Added(d) ==
  LET start == FirstStart(d)
  IN  [ status |-> IF start > now THEN "scheduled" ELSE "watching",
        start |-> start, end |-> start + Plan[d].duration,
        next |-> IF start > now THEN start ELSE now ]

\* The rows are added at some time of the first day.
Init ==
  /\ now \in 0..(Day - 1)
  /\ zone \in Zones
  /\ daily = [ d \in Rows |-> DailyTime(d) ] /\ Steady
  /\ row = [ d \in Rows |-> Added(d) ]
  /\ pc = "down"
  /\ cycle = NoTime /\ picked = NoRow /\ previous = NoTime
  /\ wait = 0 /\ retries = 0
  /\ aim = [ d \in Rows |-> IF row[d].status = "scheduled" THEN "start" ELSE "now" ]
  /\ since = NoTime
  /\ searched = [ d \in Rows |-> NoTime ]
  /\ bypassed = [ d \in Rows |-> 0 ]

Next ==
  \/ Recover \/ ExpireDueWindows \/ SelectDueDomain \/ NothingDue \/ Wake
  \/ StartCheck \/ SearchReply \/ SearchRetry \/ SendAgain \/ SearchFails
  \/ Reschedule \/ Start \/ Crash \/ Tick

Spec == Init /\ [][Next]_vars

-----------------------------------------------------------------------------
(* Properties. *)

TypeOK ==
  /\ now \in 0..Horizon /\ zone \in Zones
  /\ \A d \in Rows :
       /\ row[d].status \in { "scheduled", "watching", "expired" }
       /\ row[d].end = row[d].start + Plan[d].duration
       /\ row[d].status = "expired" <=> row[d].next = NoTime
  /\ pc \in PCs
  /\ picked \in Rows \cup { NoRow }
  /\ pc \in { "down", "recover", "loop", "select", "sleep" } <=> picked = NoRow
  /\ wait \in Nat /\ retries \in 0..Len(Delays)
  /\ aim \in [Rows -> { "none", "start", "now", "planned" }]
  /\ pc = "down" <=> since = NoTime

\* A row that is due is passed over at most once for each other row while its
\* window lasts: the order by next_check_at (_select_due_domain), with
\* next_check_at moving ahead of every row served, is what the fairness of
\* DomainBot says of the selection.
BypassedAtMostOnce ==
  \A d \in Rows : bypassed[d] < Cardinality(Rows)

\* The daemon never sleeps past the next check of a row nor past the end of
\* its window (seconds_until_next_due and the cap of _schedule_next_check).
NeverOversleeps ==
  pc = "sleep" => \A d \in Monitored :
                     now + wait <= row[d].end /\ now + wait <= row[d].next

\* The row a cycle has selected is in its window when the cycle searches it:
\* the expiry at the beginning of the cycle and the cap at window_end leave
\* nothing to the second comparison of run_once.
SelectedInWindow ==
  pc = "start" => row[picked].start <= cycle /\ cycle < row[picked].end

\* The daily starts of d that are not before the date it was given.
Offered(d, s) == Plan[d].start = "date" => Plan[d].time <= s

\* A row of a day or longer, once the date it was given has come, is in its
\* window whenever the daemon looks for work, on days of any length
\* (_current_or_next_daily_start), but for one gap: the window before the one
\* of a day that repeats an hour is taken to begin 24 hours earlier, which is
\* less than that hour too late.
GapWithinRepeatedHour ==
  pc = "select" => \A d \in Rows : AllDay(d) /\ Offered(d, now) =>
                      /\ row[d].start < now + Greater(1, Repeated(zone))
                      /\ now < row[d].end

\* The first n delays together.
TotalDelay[n \in 0..Len(Delays)] ==
  IF n = 0 THEN 0 ELSE TotalDelay[n - 1] + Delays[n]

\* The longest a check takes, with all its retries.
LongestCheck == (Len(Delays) + 1) * ReplyWithin + TotalDelay[Len(Delays)]

\* The window is long enough for every row to be served first, and is over early
\* enough to be rolled over before the next one begins, on a day that lost an
\* hour: a window is rolled over to one that begins later than now.
Watchable(d) ==
  /\ IsDaily(d) /\ ~AllDay(d)
  /\ Plan[d].duration >= Cardinality(Rows) * LongestCheck
  /\ Plan[d].duration + Greater(1, LongestCheck)
       <= Day - Greater(0, zone.after - zone.before)

\* The instants at which the daily window of d should start.
Starts(time) == { Utc(zone, k * Day + time) : k \in -1..((Horizon \div Day) + 2) }

\* Every daily window that begins while the daemon is up, from the date the row
\* was given on, is searched before it ends, whatever the other rows need and
\* whether the day has lost or gained an hour.
EveryWindowWatched ==
  since # NoTime =>
    \A d \in Rows : Watchable(d) =>
      \A s \in Starts(daily[d]) :
        Offered(d, s) /\ since < s /\ s + Plan[d].duration <= now
          => searched[d] >= s

\* next_daily_window_start is the first of the daily starts after now.
NextWindowIsNext ==
  \A time \in 0..(Day - 1) : time \notin Shifted(zone) =>
    NextDailyWindowStart(zone, time, now) =
      Least({ s \in Starts(time) : s > now })

\* Checks that were missed are not made up for: a check that was planned by the
\* one before it begins at least the safe interval after that one began, however
\* late that was (_schedule_next_check and _schedule_after_failure).
NoCatchUp ==
  [][ pc = "start" /\ pc' = "search"
        /\ searched[picked] # NoTime /\ aim[picked] = "planned"
      => now >= searched[picked] + MinSafe ]_vars

\* After an unavailable result the next check is planned for at least the safe
\* interval after the completion of this one, or for the end of the window: as
\* DESIGN.md has it.  _schedule_next_check is given the beginning of the cycle.
SpacedFromCompletion ==
  [][ pc = "resched" /\ pc' = "loop" =>
        row'[picked].next >= Smaller(now + MinSafe, row[picked].end) ]_vars

-----------------------------------------------------------------------------
(* With the clock forgotten, the daemon is the one of DomainBot. *)

Phase(d) ==
  IF now < row[d].start THEN "before"
  ELSE IF now < row[d].end THEN "open" ELSE "over"

\* Nobody drops a name, so a row has no price and no attempts.
UntimedRow(r, a) ==
  [ status |-> r.status, next |-> IF a \in { "now", "planned" } THEN "soon" ELSE a,
    attempts |-> 0, price |-> "unknown", simulated |-> FALSE ]
UntimedRows == [ d \in Rows |-> UntimedRow(row[d], aim[d]) ]

UntimedPhases == [ d \in Rows |-> Phase(d) ]

UntimedPC ==
  [ p \in { "daemon", "cli" } |->
      IF p = "cli" THEN "down"
      ELSE IF pc = "sleep" THEN "loop" ELSE IF pc = "retry" THEN "search" ELSE pc ]

UntimedJob ==
  [ p \in { "daemon", "cli" } |->
      [ d |-> IF p = "daemon" THEN picked ELSE NoRow, quote |-> "unknown",
        answer |-> "none", seen |-> 0, todo |-> {}, dry |-> FALSE ] ]

Untimed == INSTANCE DomainBot
  WITH Domains <- Rows, NoDomain <- NoRow,
       Schedule <- [ d \in Rows |-> IF AllDay(d) THEN "always" ELSE Plan[d].type ],
       MaxAttempts <- 1, Prices <- { "unknown" }, Commands <- {},
       DryRuns <- { FALSE }, Faults <- { "search_failure" },
       CrashPoints <- { "recover", "loop", "select", "start", "search",
                        "resched", "backoff" },
       row <- UntimedRows, phase <- UntimedPhases,
       reg <- [ d \in Rows |-> "other" ], late <- {},
       sent <- [ d \in Rows |-> 0 ],
       pc <- UntimedPC, job <- UntimedJob

\* The phases, the choice of a due row and the sleep of DomainBot stand for
\* numbers that behave like them.
ImplementsDomainBot == Untimed!Spec
=============================================================================

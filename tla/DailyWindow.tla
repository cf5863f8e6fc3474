----------------------------- MODULE DailyWindow ----------------------------
(***************************************************************************)
(* The daily windows of src/domainbot/utils/time.py.  Instants are UTC;    *)
(* wall times are local.  A zone changes its offset once, from before to   *)
(* after, at the instant at.  Python compares two local times of one zone  *)
(* by their wall times, and resolves a wall time that happens twice, or    *)
(* never, with the offset before the change (fold=0).                      *)
(***************************************************************************)
EXTENDS Integers

CONSTANT Day  \* length of a day

ASSUME DayAssumption == Day \in Nat \ {0}

\* Python's offsets are shorter than a day; no zone has moved by more than one.
IsZone(zone) ==
  /\ zone.at \in Int
  /\ {zone.before, zone.after} \subseteq (1 - Day)..(Day - 1)
  /\ zone.after - zone.before \in -Day..Day

\* The length of the hour that the zone repeats: 0 if it skips one.
Repeated(zone) ==
  IF zone.before > zone.after THEN zone.before - zone.after ELSE 0

\* astimezone, from and to UTC.
Local(zone, t) == t + (IF t < zone.at THEN zone.before ELSE zone.after)

Utc(zone, wall) ==
  LET change == zone.at + (IF zone.before < zone.after THEN zone.after
                                                       ELSE zone.before)
  IN  wall - (IF wall < change THEN zone.before ELSE zone.after)

TimeOfDay(zone, t) == Local(zone, t) % Day

\* combine: the wall time that is time on the local date of now.
Today(zone, time, now) == (Local(zone, now) \div Day) * Day + time

\* Mutant: a window that starts now is the next one.
NextDailyOrNow(zone, time, now) ==
  LET today == Today(zone, time, now)
  IN  Utc(zone, IF today < Local(zone, now) THEN today + Day ELSE today)

NextDailyWindowStart(zone, time, now) ==
  LET today == Today(zone, time, now)
  IN  Utc(zone, IF today <= Local(zone, now) THEN today + Day ELSE today)

NextDailyWindowAfter(zone, previous, now) ==
  NextDailyWindowStart(zone, TimeOfDay(zone, previous), now)

\* Mutant: yesterday's window is forgotten.
CurrentDailyToday(zone, time, duration, now) ==
  LET today == Utc(zone, Today(zone, time, now))
  IN  IF today > now \/ today + duration > now THEN today ELSE today + Day

\* The window that contains now, or else the next one; the days before and
\* after are a fixed Day away.
CurrentOrNextDailyWindowStart(zone, time, duration, now) ==
  LET today == Utc(zone, Today(zone, time, now))
  IN  IF today > now
        THEN IF today - Day + duration > now THEN today - Day ELSE today
        ELSE IF today + duration > now THEN today ELSE today + Day
=============================================================================

-------------------------- MODULE MCTimedScheduler --------------------------
(***************************************************************************)
(* Small instances of TimedScheduler for TLC.  A day has nine hours.       *)
(***************************************************************************)
EXTENDS TimedScheduler, TLC

Entry(type, start, time, duration, interval) ==
  [ type |-> type, start |-> start, time |-> time, duration |-> duration,
    interval |-> interval ]

\* A row watched all day from a date on that lies ahead of most, in the hour
\* that one zone skips and another repeats on the next day, a row watched daily
\* from a time of day on, and one watched once from a date on, past or to come.
ThreeRows ==
  1 :> Entry("daily", "date", 8, 9, 2) @@ 2 :> Entry("daily", "time", 4, 6, 3)
    @@ 3 :> Entry("once", "date", 2, 4, 2)

\* No change of the offset, an hour lost, and one or two hours gained on the
\* second day.
FourZones ==
  { [ at |-> 0, before |-> 0, after |-> 0 ],
    [ at |-> 18, before |-> -1, after |-> 0 ],
    [ at |-> 17, before |-> 1, after |-> 0 ],
    [ at |-> 14, before |-> 2, after |-> 0 ] }

\* A retry follows at once.
OneDelay == << 0 >>
=============================================================================

\* The daemon with its clock over two days, one of them an hour shorter or
\* longer, with slow searches, retries and restarts.
SPECIFICATION Spec
CONSTANTS
  Day = 9
  Rows = {1, 2, 3}
  Plan <- ThreeRows
  Zones <- FourZones
  MinSafe = 2
  Delays <- OneDelay
  ReplyWithin = 1
  MaxSleep = 3
  Horizon = 21
INVARIANTS TypeOK BypassedAtMostOnce NeverOversleeps SelectedInWindow GapWithinRepeatedHour EveryWindowWatched NextWindowIsNext
PROPERTIES NoCatchUp ImplementsDomainBot

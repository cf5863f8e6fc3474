\* A search that takes its time.
SPECIFICATION Spec
CONSTANTS
  Day = 9
  Rows = {1, 2, 3}
  Plan <- ThreeRows
  Zones <- FourZones
  MinSafe = 2
  Delays <- OneDelay
  ReplyWithin = 1
  MaxSleep = 3
  Horizon = 21
PROPERTY SpacedFromCompletion

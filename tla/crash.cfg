\* The daemon is killed while it waits for Register.
SPECIFICATION Spec
CONSTANTS
  d1 = d1
  d2 = d2
  NoDomain = NoDomain
  Domains = {d1}
  Schedule <- OneOnce
  MaxAttempts = 2
  Prices = {"within"}
  Commands = {}
  DryRuns = {FALSE}
  Faults = {}
  CrashPoints = {"registering"}
INVARIANT NoUnhandledError

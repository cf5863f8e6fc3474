\* The operator runs a row while its Register is under way.
SPECIFICATION Spec
CONSTANTS
  d1 = d1
  d2 = d2
  NoDomain = NoDomain
  Domains = {d1}
  Schedule <- OneOnce
  MaxAttempts = 2
  Prices = {"within"}
  Commands = {"run"}
  DryRuns = {FALSE}
  Faults = {}
  CrashPoints = {}
PROPERTY SecondRequestExits

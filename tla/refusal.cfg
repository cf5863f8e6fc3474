\* Confirmation commands are answered with an error code.
SPECIFICATION Spec
CONSTANTS
  d1 = d1
  d2 = d2
  NoDomain = NoDomain
  Domains = {d1}
  Schedule <- OneOnce
  MaxAttempts = 2
  Prices = {"within"}
  Commands = {}
  DryRuns = {FALSE}
  Faults = {"timeout", "refusal"}
  CrashPoints = {}
PROPERTY PendingLeftOnlyByVerdict

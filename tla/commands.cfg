\* The daemon and the operator's commands over one row, with every fault but
\* those the properties exclude: an unreadable answer to Register and a name
\* that contains another.
SPECIFICATION Spec
CONSTANTS
  d1 = d1
  d2 = d2
  NoDomain = NoDomain
  Domains = {d1}
  Schedule <- OneAlways
  MaxAttempts = 1
  Prices = {"within", "over", "unknown"}
  Commands = {"pause", "resume", "run", "run_dry"}
  DryRuns = {TRUE, FALSE}
  Faults = {"search_failure", "rejected", "timeout", "late", "garbage", "neterr", "refusal"}
  CrashPoints <- UnlockedPoints
INVARIANTS LockHasOwner RegisteredIsOurs DryRunSendsNothing

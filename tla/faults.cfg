\* Every fault, a process killed at any point, and every command that does
\* not register.
SPECIFICATION Spec
CONSTANTS
  d1 = d1
  d2 = d2
  NoDomain = NoDomain
  Domains = {d1}
  Schedule <- OneDaily
  MaxAttempts = 2
  Prices = {"within", "over", "unknown"}
  Commands = {"pause", "resume", "run_dry"}
  DryRuns = {TRUE, FALSE}
  Faults = {"search_failure", "rejected", "timeout", "late", "garbled", "garbage", "neterr", "refusal", "lookalike"}
  CrashPoints <- AllPoints
INVARIANTS RegisterBudget

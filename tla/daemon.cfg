\* The daemon on its own: two rows, restarts once recover has run, failing
\* searches, Register requests that time out and confirmations that fail.
SPECIFICATION FairSpec
CONSTANTS
  d1 = d1
  d2 = d2
  NoDomain = NoDomain
  Domains = {d1, d2}
  Schedule <- OnceAndAlways
  MaxAttempts = 2
  Prices = {"within", "over"}
  Commands = {}
  DryRuns = {FALSE}
  Faults = {"search_failure", "rejected", "timeout", "garbage", "neterr"}
  CrashPoints <- RestartPoints
INVARIANTS TypeOK NoForgottenPurchase NoDuplicatePurchase NoUnhandledError
PROPERTIES PendingLeftOnlyByVerdict TerminalIsFinal SuccessIsRecorded ImplementsAcquisition WindowCloses OpenWindowIsSearched LockReleased

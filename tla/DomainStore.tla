---------------------------- MODULE DomainStore -----------------------------
(***************************************************************************)
(* What the parts of the program share: the domains table, the clock seen  *)
(* from each domain's window, Dynadot's register of names, and the program *)
(* counters and locals of the two processes that run coroutines over them: *)
(* the daemon (domainbot daemon) and one operator command at a time        *)
(* (domainbot pause / resume / run).                                       *)
(*                                                                         *)
(* One action is one database session, or the arrival of one API answer.   *)
(* The session that takes the registration lock is the exception: its      *)
(* SELECT and its COMMIT are two actions, since nothing holds a database   *)
(* lock between them.                                                      *)
(***************************************************************************)
EXTENDS Integers, DomainStatus

CONSTANTS
  Domains,       \* rows of the domains table
  NoDomain,      \* the process works on no domain
  Schedule,      \* schedule of each row: "once", "daily" (a window shorter
                 \* than a day) or "always" (daily, a day or longer)
  MaxAttempts,   \* settings.register_max_attempts
  Prices,        \* what a search may quote, compared with the row's max_price
  Commands,      \* operator commands that may be entered
  DryRuns,       \* values of the daemon's --dry-run flag
  Faults,        \* what may go wrong outside the program
  CrashPoints    \* program points at which a process may be killed

Procs == { "daemon", "cli" }

\* Points of the coroutines at which a process is waiting for an answer, for
\* a session or to be started.  "down" is a stopped process, "failed" a daemon
\* that left by an unhandled exception.
PCs ==
  { "down", "failed", "recover", "confirm", "confirmed", "loop", "select",
    "start", "previous", "search", "resched", "backoff", "mark", "available",
    "lock", "commit", "register", "registering", "finish", "uncertain" }

\* From the commit that takes the registration lock to the session that
\* releases it.
LockPoints == { "register", "registering", "finish", "uncertain" }

AllCommands == { "pause", "resume", "run", "run_dry" }

AllFaults ==
  { "search_failure",  \* a search that fails after its retries
    "rejected",        \* Register refused for a reason of the account
    "timeout",         \* network error: Register processed or lost
    "late",            \* network error: Register processed some time later
    "garbled",         \* Register answered with something that is not JSON
    "garbage",         \* a confirmation command answered with such a reply
    "neterr",          \* network error of a confirmation command
    "refusal",         \* a confirmation command answered with an error code
    "lookalike" }      \* an owned name contains the confirmed one

ASSUME DomainsAssumption == NoDomain \notin Domains
ASSUME ScheduleAssumption ==
  Schedule \in [Domains -> { "once", "daily", "always" }]
ASSUME MaxAttemptsAssumption == MaxAttempts \in Nat
ASSUME PricesAssumption == Prices \subseteq { "within", "over", "unknown" }
ASSUME EnvironmentAssumption ==
  /\ Commands \subseteq AllCommands
  /\ DryRuns \subseteq BOOLEAN
  /\ Faults \subseteq AllFaults
  /\ CrashPoints \subseteq PCs \ { "down", "failed" }

VARIABLES
  row,     \* the domains table
  phase,   \* now against the row's start_at and window_end
  reg,     \* who holds the name at the registry
  late,    \* names with an abandoned Register that may still be processed
  sent,    \* history: Register requests sent for each name
  pc,      \* program counter of each process
  job      \* locals of each process

vars == << row, phase, reg, late, sent, pc, job >>
remote == << reg, late, sent >>

Phases == { "before", "open", "over" }
Holders == { "free", "ours", "other" }

\* next is next_check_at: NULL, the start of a window that has not begun, or
\* a time that may already have come.  price is last_observed_price against
\* max_price; simulated says that last_error begins with "dry-run".
Row ==
  [ status : DomainStatuses, next : { "none", "start", "soon" },
    attempts : 0..MaxAttempts, price : { "within", "over", "unknown" },
    simulated : BOOLEAN ]

Answers == { "none", "success", "refused", "rejected",
             "registered", "not_found", "unknown" }

\* quote is the price passed to handle_available, answer the last reply of the
\* API, seen the attempt count read under the lock, todo the uncertain
\* registrations still to be confirmed, dry the --dry-run flag.
Job ==
  [ d : Domains \cup { NoDomain }, quote : { "within", "over", "unknown" },
    answer : Answers, seen : 0..MaxAttempts, todo : SUBSET Domains,
    dry : BOOLEAN ]

Idle(dry) ==
  [ d |-> NoDomain, quote |-> "unknown", answer |-> "none", seen |-> 0,
    todo |-> {}, dry |-> dry ]

-----------------------------------------------------------------------------
(* Control flow shared by the coroutines. *)

Goto(p, point) == pc' = [pc EXCEPT ![p] = point]

Forget(p, dry) == job' = [job EXCEPT ![p] = Idle(dry)]

\* The coroutine returns: the daemon goes round its loop, a command exits.
Return(p) ==
  IF p = "daemon"
    THEN Goto(p, "loop") /\ Forget(p, job[p].dry)
    ELSE Goto(p, "down") /\ Forget(p, FALSE)

\* An exception leaves the coroutine: the open session is rolled back and the
\* process ends.
Raise(p) ==
  /\ Goto(p, IF p = "daemon" THEN "failed" ELSE "down")
  /\ Forget(p, FALSE)
  /\ UNCHANGED << row, phase, remote >>

\* The session of p on its domain moves it to target and commits changed as
\* the new row, or raises InvalidTransition.
Transition(p, target, changed, Continue) ==
  IF CanApply(row[job[p].d].status, target, {})
    THEN /\ row' = [row EXCEPT ![job[p].d] = [changed EXCEPT !.status = target]]
         /\ Continue
         /\ UNCHANGED << phase, remote >>
    ELSE Raise(p)
=============================================================================

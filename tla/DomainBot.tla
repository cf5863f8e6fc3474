----------------------------- MODULE DomainBot ------------------------------
(***************************************************************************)
(* The program: the daemon and the operator's commands over one database,  *)
(* in an environment where windows open and close, names are dropped and   *)
(* taken, and processes are killed and restarted.                          *)
(***************************************************************************)
EXTENDS DomainScheduler, RegistrationService

(* The operator's commands (src/domainbot/cli.py). *)

Pause(d) ==
  /\ "pause" \in Commands
  /\ pc["cli"] = "down"
  /\ row' = [row EXCEPT ![d].status = "paused", ![d].next = "none"]
  /\ UNCHANGED << phase, remote, pc, job >>

\* resume commits its own row, then recovers every row of the database in
\* its own process.
Resume(d) ==
  /\ "resume" \in Commands
  /\ pc["cli"] = "down"
  /\ row' = [row EXCEPT ![d].status = "pending", ![d].next = "none"]
  /\ Goto("cli", "recover")
  /\ UNCHANGED << phase, remote, job >>

\* run watches the row at once, in a new window if its own is over.
Run(d, dry) ==
  /\ (IF dry THEN "run_dry" ELSE "run") \in Commands
  /\ pc["cli"] = "down"
  /\ row' = [row EXCEPT ![d].status = "watching", ![d].next = "soon"]
  /\ phase' = [phase EXCEPT ![d] = IF @ = "over" THEN "open" ELSE @]
  /\ Goto("cli", "search")
  /\ job' = [job EXCEPT !["cli"] = [Idle(dry) EXCEPT !.d = d]]
  /\ UNCHANGED remote

\* run found its name available.
RunMarksAvailable ==
  /\ pc["cli"] = "mark"
  /\ row' = [row EXCEPT ![job["cli"].d].status = "available",
                        ![job["cli"].d].next = "none"]
  /\ Goto("cli", "available")
  /\ UNCHANGED << phase, remote, job >>

-----------------------------------------------------------------------------
(* The environment. *)

\* The daemon is started: by the operator, or by systemd after a failure.
Start ==
  /\ pc["daemon"] \in { "down", "failed" }
  /\ Goto("daemon", "recover")
  /\ \E dry \in DryRuns : Forget("daemon", dry)
  /\ UNCHANGED << row, phase, remote >>

\* A process is stopped or killed.  A request it waited for has its own fate;
\* one that was only queued is sent all the same when the process closes its
\* queue on the way out, and is not when the process is killed.
Crash(p) ==
  LET d == job[p].d
  IN  /\ pc[p] \in CrashPoints
      /\ Goto(p, "down")
      /\ Forget(p, FALSE)
      /\ \/ UNCHANGED remote
         \/ /\ pc[p] = "register"
            /\ sent' = [sent EXCEPT ![d] = @ + 1]
            /\ RegisterOutcome(d)
         \/ /\ pc[p] = "registering"
            /\ RegisterOutcome(d)
            /\ UNCHANGED sent
      /\ UNCHANGED << row, phase >>

\* Time passes: the windows of the rows moved open or end.
Tick(moved) ==
  /\ pc["daemon"] \notin { "select", "start" }
  /\ \A d \in moved : phase[d] # "over"
  /\ phase' = [ d \in Domains |->
                  IF d \notin moved THEN phase[d]
                  ELSE IF phase[d] = "before" THEN "open" ELSE "over" ]
  /\ UNCHANGED << row, remote, pc, job >>

\* The name is dropped by its holder, or registered by somebody else.
Drop(d) ==
  /\ reg[d] = "other"
  /\ reg' = [reg EXCEPT ![d] = "free"]
  /\ UNCHANGED << row, phase, late, sent, pc, job >>

Snipe(d) ==
  /\ reg[d] = "free"
  /\ reg' = [reg EXCEPT ![d] = "other"]
  /\ UNCHANGED << row, phase, late, sent, pc, job >>

\* Dynadot processes a request nobody waits for any more.
LateRegister(d) ==
  /\ d \in late
  /\ late' = late \ { d }
  /\ Grant(d)
  /\ UNCHANGED << row, phase, sent, pc, job >>

-----------------------------------------------------------------------------
(* domainbot add accepts a window that has not begun, that has, or, given a  *)
(* date that is past, that is over: the row is watched unless its window has *)
(* yet to begin.                                                             *)
Init ==
  /\ phase \in [Domains -> Phases]
  /\ row = [ d \in Domains |->
               [ status |-> IF phase[d] = "before" THEN "scheduled" ELSE "watching",
                 next |-> IF phase[d] = "before" THEN "start" ELSE "soon",
                 attempts |-> 0, price |-> "unknown", simulated |-> FALSE ] ]
  /\ reg \in [Domains -> { "free", "other" }]
  /\ late = {}
  /\ sent = [ d \in Domains |-> 0 ]
  /\ pc = [ p \in Procs |-> "down" ]
  /\ job = [ p \in Procs |-> Idle(FALSE) ]

\* A coroutine goes on.
Step(p) ==
  \/ Recover(p) \/ SearchReply(p) \/ SearchFails(p)
  \/ CheckPrice(p) \/ MarkSimulated(p)
  \/ LoadForRegister(p) \/ CommitLock(p)
  \/ SendRegister(p) \/ RegisterReply(p) \/ RegisterTimesOut(p)
  \/ RegisterGarbled(p) \/ FinishRegistration(p)
  \/ MarkPendingConfirmation(p) \/ ConfirmReply(p) \/ FinishConfirmation(p)

DaemonStep ==
  \/ ExpireDueWindows \/ NothingDue \/ StartCheck
  \/ \E d \in Domains : SelectDueDomain(d)
  \/ RegisterPreviouslyAvailable \/ ScheduleNextCheck
  \/ ScheduleAfterFailure \/ MarkAvailable

Environment ==
  \/ Start
  \/ \E p \in Procs : Crash(p)
  \/ \E moved \in (SUBSET Domains) \ { {} } : Tick(moved)
  \/ \E d \in Domains : Drop(d) \/ Snipe(d) \/ LateRegister(d)

Operator ==
  \/ \E d \in Domains : Pause(d) \/ Resume(d) \/ \E dry \in BOOLEAN : Run(d, dry)
  \/ RunMarksAvailable

Next == DaemonStep \/ (\E p \in Procs : Step(p)) \/ Operator \/ Environment

Spec == Init /\ [][Next]_vars

-----------------------------------------------------------------------------
TypeOK ==
  /\ row \in [Domains -> Row]
  /\ phase \in [Domains -> Phases]
  /\ reg \in [Domains -> Holders]
  /\ late \subseteq Domains
  /\ sent \in [Domains -> Nat]
  /\ pc \in [Procs -> PCs]
  /\ job \in [Procs -> Job]

(* Safety.  Which of these hold depends on what the environment may do: each *)
(* one names the faults and commands it survives.                            *)

\* Every Register request was counted by a registration attempt before it was
\* sent (_begin_registration), so that REGISTER_MAX_ATTEMPTS bounds the
\* requests.  Whatever fails, as long as no run command registers.
RegisterBudget == \A d \in Domains : sent[d] <= row[d].attempts

\* A row is registered only if the account holds the name, in every
\* interleaving of the daemon with the operator's commands
\* (_finish_registration and _finish_confirmation, the only writers).
RegisteredIsOurs ==
  \A d \in Domains : row[d].status = "registered" => reg[d] = "ours"

\* A row that is registering is being registered by a process that will move
\* it on: the lock of _begin_registration never outlives its holder.
LockHasOwner ==
  \A d \in Domains : row[d].status = "registering" =>
    \E p \in Procs : pc[p] \in LockPoints /\ job[p].d = d

\* --dry-run: a process started with it never holds the lock nor sends a
\* Register, whatever the other process does to the row it works on.
DryRunSendsNothing == \A p \in Procs : job[p].dry => pc[p] \notin LockPoints

\* A name the account has come to hold is never dropped from the table's
\* knowledge: its row is registered, or is still finding out.
OwnedStatuses ==
  { "registering", "registration_pending_confirmation", "registered" }
NoForgottenPurchase ==
  \A d \in Domains : reg[d] = "ours" => row[d].status \in OwnedStatuses

\* No Register is about to be sent for a name the account holds already.
NoDuplicatePurchase ==
  \A p \in Procs : pc[p] = "register" => reg[job[p].d] # "ours"

\* A command's request to register a row that the daemon has a Register under way
\* for exits at the lock (_begin_registration).
SecondRequestExits ==
  [][ pc["daemon"] \in { "register", "registering" }
        /\ job["cli"].d = job["daemon"].d /\ pc["cli"] = "lock"
      => pc'["cli"] # "commit" ]_vars

\* No InvalidTransition and no API error reaches the top of the daemon:
\* recover, the expiry session and every transition are total over the rows
\* it can meet.
NoUnhandledError == pc["daemon"] # "failed"

\* A watched row has a next_check_at when the daemon looks for work.
WatchedIsScheduled ==
  pc["daemon"] = "loop" =>
    \A d \in Domains : row[d].status = "watching" => row[d].next # "none"

(* Action properties. *)

\* An uncertain registration is settled only as registered, or as watching
\* when the account does not hold the name.
PendingLeftOnlyByVerdict ==
  [][ \A d \in Domains :
        row[d].status = "registration_pending_confirmation" =>
          \/ row'[d].status \in
               { "registration_pending_confirmation", "registered" }
          \/ row'[d].status = "watching" /\ reg[d] # "ours" ]_vars

\* A Register that Dynadot granted is recorded by the session that follows,
\* before its process does anything else.
SuccessIsRecorded ==
  [][ \A p \in Procs :
        pc[p] = "finish" /\ job[p].answer = "success" /\ pc'[p] # "finish" =>
          row'[job[p].d].status = "registered" ]_vars

\* The daemon never leaves a registered or a price_exceeded row.
TerminalIsFinal ==
  [][ \A d \in Domains :
        row[d].status \in { "registered", "price_exceeded" } =>
          row'[d].status = row[d].status ]_vars

-----------------------------------------------------------------------------
(* Liveness.  Every await of a process ends: sessions commit, the httpx     *)
(* timeout bounds an API call and systemd restarts the daemon.  A row that   *)
(* stays due is selected, for its next_check_at stays the same while that   *)
(* of every row selected before it moves ahead.  Nothing is assumed of the  *)
(* operator, of the windows or of the registry.                             *)
Fairness ==
  /\ WF_vars(Start)
  /\ WF_vars(DaemonStep \/ Step("daemon"))
  /\ \A d \in Domains : SF_vars(SelectDueDomain(d))
  /\ WF_vars(RunMarksAvailable \/ Step("cli"))

FairSpec == Spec /\ Fairness

\* A row whose window is over does not stay monitored: it expires, or its
\* window rolls over.  An available row is left alone by _expire_due_windows.
Overdue(d) ==
  /\ phase[d] = "over"
  /\ row[d].status \in ActiveMonitorStatuses \ { "available" }
WindowCloses == \A d \in Domains : Overdue(d) ~> ~Overdue(d)

\* A row has its turn to come: it is scheduled, or watched with a next_check_at.
Expected(d) ==
  \/ row[d].status = "scheduled"
  \/ row[d].status = "watching" /\ row[d].next # "none"

\* A row that keeps its turn while its window stays open and the daemon up is
\* searched again and again, although other rows are always due
\* (_select_due_domain, and the next_check_at of a window that was still to come).
OpenWindowIsSearched ==
  \A d \in Domains :
    <>[](phase[d] = "open" /\ Expected(d) /\ pc["daemon"] # "down")
      => []<>(pc["daemon"] = "search" /\ job["daemon"].d = d)

\* The registration lock is released.
LockReleased ==
  \A d \in Domains : row[d].status = "registering" ~> row[d].status # "registering"

-----------------------------------------------------------------------------
\* The statuses, read as what the program knows of its attempt on the name.
Stance(status) ==
  CASE status = "registering" -> "trying"
    [] status = "registration_pending_confirmation" -> "unsure"
    [] status = "registered" -> "owned"
    [] OTHER -> "idle"

Abstract == INSTANCE Acquisition
  WITH stance <- [ d \in Domains |-> Stance(row[d].status) ], holder <- reg

\* The daemon implements the abstract specification, through restarts at
\* every point outside the registration lock.
ImplementsAcquisition == Abstract!Spec
=============================================================================

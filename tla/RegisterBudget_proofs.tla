----------------------- MODULE RegisterBudget_proofs -----------------------
(***************************************************************************)
(* The attempt counter bounds the Register requests, whatever fails and    *)
(* whoever is killed, as long as only the daemon registers.                *)
(***************************************************************************)
EXTENDS DomainBot_proofs

\* Where a command can be that does not register.
DryPoints == { "search", "mark", "available" }
CliPoints == { "down", "recover", "confirm", "confirmed" } \cup DryPoints

\* A command never comes to the lock.
OneRegistrar ==
  pc["cli"] \in CliPoints /\ (pc["cli"] \in DryPoints => job["cli"].dry)

\* The count the daemon read is the count in the row.
SeenIsCurrent ==
  pc["daemon"] = "commit" => job["daemon"].seen = row[job["daemon"].d].attempts

\* The request that is counted and not yet sent.
Unsent(d) == IF pc["daemon"] = "register" /\ job["daemon"].d = d THEN 1 ELSE 0

Counted == \A d \in Domains : sent[d] + Unsent(d) <= row[d].attempts

BudgetInv == TypeInv /\ OneRegistrar /\ SeenIsCurrent /\ Counted

-----------------------------------------------------------------------------
(* A command stays away from the lock. *)

LEMMA CliStep ==
  ASSUME TypeInv, OneRegistrar, Step("cli")
  PROVE  OneRegistrar'
<1> USE DEF TypeInv, TypeOK, OneRegistrar, CliPoints, DryPoints, Goto, Forget,
            Return, Raise, Procs
<1>1. CASE Recover("cli")
  BY <1>1 DEF Recover
<1>2. CASE SearchReply("cli")
  <2>1. PICK quote \in Prices :
          \/ Goto("cli", "mark") /\ job' = [job EXCEPT !["cli"].quote = quote]
          \/ Return("cli")
    BY <1>2 DEF SearchReply
  <2>2. job["cli"] \in Job /\ job["cli"].dry
    BY <1>2 DEF SearchReply
  <2>3. [job["cli"] EXCEPT !.quote = quote].dry = job["cli"].dry
    BY <2>2 DEF Job
  <2>4. CASE job' = [job EXCEPT !["cli"].quote = quote] /\ Goto("cli", "mark")
    <3>1. job'["cli"] = [job["cli"] EXCEPT !.quote = quote] /\ pc'["cli"] = "mark"
      BY <2>4
    <3> QED BY <2>2, <2>3, <3>1
  <2> QED BY <2>1, <2>4
<1>6. CASE SearchFails("cli")
  BY <1>6 DEF SearchFails
<1>3. CASE CheckPrice("cli") \/ MarkSimulated("cli")
  BY <1>3 DEF CheckPrice, MarkSimulated, Transition
<1>4. CASE ConfirmReply("cli") \/ FinishConfirmation("cli")
  BY <1>4 DEF ConfirmReply, FinishConfirmation, ConfirmNext, Transition
<1>5. CASE \/ LoadForRegister("cli") \/ CommitLock("cli") \/ SendRegister("cli")
           \/ RegisterReply("cli") \/ RegisterTimesOut("cli")
           \/ RegisterGarbled("cli") \/ FinishRegistration("cli")
           \/ MarkPendingConfirmation("cli")
  BY <1>5 DEF LoadForRegister, CommitLock, SendRegister, RegisterReply,
              RegisterTimesOut, RegisterGarbled, FinishRegistration,
              MarkPendingConfirmation
<1> QED BY <1>1, <1>2, <1>3, <1>4, <1>5, <1>6 DEF Step

LEMMA OneRegistrarStep ==
  ASSUME TypeInv, OneRegistrar, [Next]_vars, "run" \notin Commands
  PROVE  OneRegistrar'
<1>1. CASE Step("cli")
  BY <1>1, CliStep
<1>2. CASE Step("daemon")
  BY <1>2, StepOthers DEF OneRegistrar, Procs
<1>3. CASE DaemonStep
  BY <1>3, DaemonOthers DEF OneRegistrar
<1>4. CASE Operator
  <2>1. CASE \E d \in Domains : Pause(d) \/ Resume(d)
    BY <2>1 DEF Pause, Resume, Goto, OneRegistrar, CliPoints, DryPoints,
                TypeInv, TypeOK, Procs
  <2>2. CASE \E d \in Domains, dry \in BOOLEAN : Run(d, dry)
    BY <2>2 DEF Run, Idle, Goto, OneRegistrar, CliPoints, DryPoints, TypeInv,
                TypeOK, Procs
  <2>3. CASE RunMarksAvailable
    BY <2>3 DEF RunMarksAvailable, Goto, OneRegistrar, CliPoints, DryPoints,
                TypeInv, TypeOK, Procs
  <2> QED BY <1>4, <2>1, <2>2, <2>3 DEF Operator
<1>5. CASE Environment
  BY <1>5 DEF Environment, Start, Crash, Tick, Drop, Snipe, LateRegister, Goto,
              Forget, OneRegistrar, CliPoints, DryPoints, TypeInv, TypeOK, Procs
<1>6. CASE UNCHANGED vars
  BY <1>6 DEF vars, OneRegistrar
<1> QED BY <1>1, <1>2, <1>3, <1>4, <1>5, <1>6 DEF Next, Procs

-----------------------------------------------------------------------------
(* Only CommitLock counts an attempt. *)

\* What an assignment to a column leaves in the attempt counter.
LEMMA AttemptsFields ==
  ASSUME NEW r \in Row, NEW v
  PROVE  /\ [r EXCEPT !.status = v].attempts = r.attempts
         /\ [r EXCEPT !.next = v].attempts = r.attempts
         /\ [r EXCEPT !.price = v].attempts = r.attempts
         /\ [r EXCEPT !.simulated = v].attempts = r.attempts
  BY DEF Row

LEMMA RealignAttempts ==
  ASSUME TypeInv, NEW moved \in SUBSET Domains, NEW rolled \in Rollovers,
         Realign(moved, rolled), NEW d \in Domains
  PROVE  row'[d].attempts = row[d].attempts
  BY RowType DEF Realign, Realigned, Row

\* A row that changes in the columns of r only.
LEMMA AssignAttempts ==
  ASSUME TypeInv, NEW e, NEW r, r.attempts = row[e].attempts,
         row' = [row EXCEPT ![e] = r], NEW d \in Domains
  PROVE  row'[d].attempts = row[d].attempts
<1>1. row'[d] = IF d = e THEN r ELSE row[d]
  BY DEF TypeInv, TypeOK
<1> QED BY <1>1

\* A transition of a row, and a raw assignment to two of its columns.
LEMMA TransitionAttempts ==
  ASSUME TypeInv, NEW e, NEW target, NEW changed \in Row,
         changed.attempts = row[e].attempts,
         row' = [row EXCEPT ![e] = [changed EXCEPT !.status = target]],
         NEW d \in Domains
  PROVE  row'[d].attempts = row[d].attempts
<1> DEFINE r == [changed EXCEPT !.status = target]
<1>1. r.attempts = row[e].attempts /\ row' = [row EXCEPT ![e] = r]
  BY AttemptsFields
<1> HIDE DEF r
<1> QED BY <1>1, AssignAttempts

LEMMA RawAttempts ==
  ASSUME TypeInv, NEW e \in Domains, NEW s \in DomainStatuses, NEW n,
         row' = [row EXCEPT ![e].status = s, ![e].next = n], NEW d \in Domains
  PROVE  row'[d].attempts = row[d].attempts
<1> DEFINE a == [row[e] EXCEPT !.status = s]
           r == [a EXCEPT !.next = n]
<1>1. a \in Row /\ a.attempts = row[e].attempts
  BY RowType, RowFields, AttemptsFields
<1> HIDE DEF a
<1>2. r.attempts = row[e].attempts
  BY <1>1, AttemptsFields
<1>3. row' = [row EXCEPT ![e] = r]
  BY DEF a, TypeInv, TypeOK
<1> HIDE DEF r
<1> QED BY <1>2, <1>3, AssignAttempts

LEMMA StepAttempts ==
  ASSUME TypeInv, NEW p \in Procs, Step(p), ~CommitLock(p), NEW d \in Domains
  PROVE  row'[d].attempts = row[d].attempts
<1>0. row \in [Domains -> Row] /\ row[d] \in Row
  BY DEF TypeInv, TypeOK
<1>1. CASE Recover(p)
  <2>1. PICK moved \in SUBSET Domains, rolled \in Rollovers :
          Realign(moved, rolled) \/ Raise(p)
    BY <1>1 DEF Recover
  <2> QED BY <2>1, RealignAttempts DEF Raise
<1>2. CASE SearchReply(p) \/ SearchFails(p)
  <2> DEFINE e == job[p].d
             b == [row[e] EXCEPT !.simulated = FALSE]
  <2>1. row[e] \in Row
    BY <1>2, RowType DEF SearchReply, SearchFails, TypeInv, Working, WorkingPoints
  <2>2. b \in Row /\ b.attempts = row[e].attempts
    BY <2>1, RowFields, AttemptsFields
  <2>3. CASE SearchReply(p)
    <3>1. PICK price : row' = [row EXCEPT ![e] = [b EXCEPT !.price = price]]
      BY <1>0, <2>3, ZenonT(60) DEF SearchReply
    <3> HIDE DEF b
    <3>2. [b EXCEPT !.price = price].attempts = row[e].attempts
      BY <2>2, AttemptsFields
    <3> QED BY <3>1, <3>2, AssignAttempts
  <2>4. CASE SearchFails(p)
    <3>1. PICK simulated :
            row' = [row EXCEPT ![e] = [row[e] EXCEPT !.simulated = simulated]]
      BY <1>0, <2>4 DEF SearchFails
    <3>2. [row[e] EXCEPT !.simulated = simulated].attempts = row[e].attempts
      BY <2>1, AttemptsFields
    <3> QED BY <3>1, <3>2, AssignAttempts
  <2> QED BY <1>2, <2>3, <2>4
<1>3. CASE CheckPrice(p) \/ MarkSimulated(p)
  <2> DEFINE e == job[p].d
             b == [row[e] EXCEPT !.next = "none", !.simulated = FALSE]
             a == [row[e] EXCEPT !.status = "available"]
             c == [a EXCEPT !.next = "none"]
             f == [c EXCEPT !.simulated = TRUE]
  <2>1. row[e] \in Row
    BY <1>3, RowType DEF CheckPrice, MarkSimulated, TypeInv, Working, WorkingPoints
  <2>2. CASE CheckPrice(p)
    <3>1. b \in Row /\ b.attempts = row[e].attempts
      BY <2>1 DEF Row
    <3>2. \/ row' = row
          \/ row' = [row EXCEPT ![e] = [b EXCEPT !.status = "price_exceeded"]]
      BY <2>2 DEF CheckPrice, Transition, Raise
    <3> HIDE DEF b, e
    <3> QED BY <3>1, <3>2, TransitionAttempts
  <2>3. CASE MarkSimulated(p)
    <3>1. a \in Row /\ a.attempts = row[e].attempts
      BY <2>1, RowFields, AttemptsFields DEF DomainStatuses
    <3>3. row' = [row EXCEPT ![e] = f]
      BY <1>0, <2>1, <2>3 DEF MarkSimulated, Row
    <3> HIDE DEF a
    <3>2. c \in Row /\ c.attempts = row[e].attempts
      BY <3>1, RowFields, AttemptsFields
    <3> HIDE DEF c
    <3>4. f.attempts = row[e].attempts
      BY <3>2, AttemptsFields
    <3> HIDE DEF f
    <3> QED BY <3>3, <3>4, AssignAttempts
  <2> QED BY <1>3, <2>2, <2>3
<1>4. CASE LoadForRegister(p) \/ SendRegister(p)
  BY <1>4 DEF LoadForRegister, SendRegister, Raise
<1>5. CASE RegisterReply(p) \/ RegisterTimesOut(p) \/ RegisterGarbled(p)
  BY <1>5 DEF RegisterReply, RegisterTimesOut, RegisterGarbled
<1>6. CASE FinishRegistration(p) \/ MarkPendingConfirmation(p)
  <2> DEFINE e == job[p].d
             r == [row[e] EXCEPT !.simulated = FALSE]
             closed == [r EXCEPT !.next = "none"]
  <2>1. row[e] \in Row
    BY <1>6, RowType DEF FinishRegistration, MarkPendingConfirmation, TypeInv,
                         Working, WorkingPoints, LockPoints
  <2>2. r \in Row /\ r.attempts = row[e].attempts
    BY <2>1, RowFields, AttemptsFields
  <2>3. closed \in Row /\ closed.attempts = row[e].attempts
    BY <2>2, RowFields, AttemptsFields
  <2>4. \/ row' = row
        \/ \E changed \in { r, closed }, s \in DomainStatuses :
             row' = [row EXCEPT ![e] = [changed EXCEPT !.status = s]]
    BY <1>6 DEF FinishRegistration, MarkPendingConfirmation, Transition, Raise,
                DomainStatuses
  <2> HIDE DEF r, closed, e
  <2>5. ASSUME NEW changed \in { r, closed }, NEW s \in DomainStatuses,
               row' = [row EXCEPT ![e] = [changed EXCEPT !.status = s]]
        PROVE  row'[d].attempts = row[d].attempts
    <3>1. changed \in Row /\ changed.attempts = row[e].attempts
      BY <2>2, <2>3
    <3> QED BY <2>5, <3>1, TransitionAttempts
  <2> QED BY <2>4, <2>5
<1>7. CASE FinishConfirmation(p)
  <2> DEFINE e == job[p].d
             r == [row[e] EXCEPT !.simulated = FALSE]
             closed == [r EXCEPT !.next = "none"]
  <2>1. row[e] \in Row
    BY <1>7, RowType DEF FinishConfirmation, TypeInv, Working, WorkingPoints
  <2>2. r \in Row /\ r.attempts = row[e].attempts
    BY <2>1, RowFields, AttemptsFields
  <2>3. closed \in Row /\ closed.attempts = row[e].attempts
    BY <2>2, RowFields, AttemptsFields
  <2>4. \/ row' = row
        \/ \E changed \in { r, closed }, s \in DomainStatuses :
             row' = [row EXCEPT ![e] = [changed EXCEPT !.status = s]]
    BY <1>7 DEF FinishConfirmation, Transition, Raise, DomainStatuses
  <2> HIDE DEF r, closed, e
  <2>5. ASSUME NEW changed \in { r, closed }, NEW s \in DomainStatuses,
               row' = [row EXCEPT ![e] = [changed EXCEPT !.status = s]]
        PROVE  row'[d].attempts = row[d].attempts
    <3>1. changed \in Row /\ changed.attempts = row[e].attempts
      BY <2>2, <2>3
    <3> QED BY <2>5, <3>1, TransitionAttempts
  <2> QED BY <2>4, <2>5
<1>8. CASE ConfirmReply(p)
  BY <1>8 DEF ConfirmReply
<1> QED BY <1>1, <1>2, <1>3, <1>4, <1>5, <1>6, <1>7, <1>8 DEF Step

LEMMA DaemonAttempts ==
  ASSUME TypeInv, DaemonStep, NEW d \in Domains
  PROVE  row'[d].attempts = row[d].attempts
<1>0. row \in [Domains -> Row] /\ row[d] \in Row
  BY DEF TypeInv, TypeOK
<1>1. CASE ExpireDueWindows
  <2>1. PICK moved \in SUBSET Domains, rolled \in Rollovers :
          Realign(moved, rolled) \/ Raise("daemon")
    BY <1>1 DEF ExpireDueWindows
  <2> QED BY <2>1, RealignAttempts DEF Raise
<1>2. CASE StartCheck
  <2>1. CASE \E rolled \in Rollovers : Realign({job["daemon"].d}, rolled)
    <3>1. job["daemon"].d \in Domains
      BY <1>2 DEF StartCheck, TypeInv, Working, WorkingPoints, Procs
    <3> QED BY <2>1, <3>1, RealignAttempts
  <2>2. CASE \A rolled \in Rollovers : ~Realign({job["daemon"].d}, rolled)
    <3> DEFINE e == job["daemon"].d
    <3>1. row[e] \in Row
      BY <1>2, RowType DEF StartCheck, TypeInv, Working, WorkingPoints, Procs
    <3>2. \/ row' = row
          \/ row' = [row EXCEPT ![e] = [row[e] EXCEPT !.next = "start"]]
          \/ row' = [row EXCEPT ![e] = [row[e] EXCEPT !.status = "watching"]]
      BY <1>0, <1>2, <2>2 DEF StartCheck, Transition, Raise
    <3>3. /\ [row[e] EXCEPT !.next = "start"].attempts = row[e].attempts
          /\ [row[e] EXCEPT !.status = "watching"].attempts = row[e].attempts
      BY <3>1, AttemptsFields
    <3> HIDE DEF e
    <3> QED BY <3>2, <3>3, AssignAttempts
  <2> QED BY <2>1, <2>2
<1>3. CASE ScheduleNextCheck \/ ScheduleAfterFailure
  <2> DEFINE e == job["daemon"].d
             r == Rescheduled(e)
             f == [r EXCEPT !.simulated = FALSE]
  <2>1. row[e] \in Row
    BY <1>3, RowType DEF ScheduleNextCheck, ScheduleAfterFailure, TypeInv,
                         Working, WorkingPoints, Procs
  <2>2. r \in Row /\ r.attempts = row[e].attempts
    BY <2>1 DEF Rescheduled, Row, DomainStatuses
  <2>3. \/ row' = row
        \/ row' = [row EXCEPT ![e] = r]
        \/ row' = [row EXCEPT ![e] = f]
    BY <1>3 DEF ScheduleNextCheck, ScheduleAfterFailure
  <2> HIDE DEF r
  <2>4. f.attempts = row[e].attempts
    BY <2>2, AttemptsFields
  <2> HIDE DEF f, e
  <2> QED BY <2>2, <2>3, <2>4, AssignAttempts
<1>5. CASE MarkAvailable
  <2> DEFINE e == job["daemon"].d
             s == IF row[e].status = "watching" THEN "available" ELSE row[e].status
             b == [row[e] EXCEPT !.status = s]
             c == [b EXCEPT !.next = "none"]
  <2>1. row[e] \in Row
    BY <1>5, RowType DEF MarkAvailable, TypeInv, Working, WorkingPoints, Procs
  <2>2. s \in DomainStatuses
    BY <2>1 DEF Row, DomainStatuses
  <2>3. PICK price : row' = [row EXCEPT ![e] = [c EXCEPT !.price = price]]
    BY <1>0, <1>5, <2>1, ZenonT(60) DEF MarkAvailable, Row
  <2> HIDE DEF s
  <2>4. b \in Row /\ b.attempts = row[e].attempts
    BY <2>1, <2>2, RowFields, AttemptsFields
  <2> HIDE DEF b
  <2>5. c \in Row /\ c.attempts = row[e].attempts
    BY <2>4, RowFields, AttemptsFields
  <2> HIDE DEF c
  <2>6. [c EXCEPT !.price = price].attempts = row[e].attempts
    BY <2>5, AttemptsFields
  <2> HIDE DEF e
  <2> QED BY <2>3, <2>6, AssignAttempts
<1>4. CASE \/ NothingDue \/ RegisterPreviouslyAvailable
           \/ \E e \in Domains : SelectDueDomain(e)
  BY <1>4 DEF NothingDue, RegisterPreviouslyAvailable, SelectDueDomain
<1> QED BY <1>1, <1>2, <1>3, <1>4, <1>5 DEF DaemonStep

LEMMA OutsideAttempts ==
  ASSUME TypeInv, Operator \/ Environment, NEW d \in Domains
  PROVE  row'[d].attempts = row[d].attempts
<1>0. row \in [Domains -> Row] /\ row[d] \in Row
  BY DEF TypeInv, TypeOK
<1>1. CASE Operator
  <2>1. CASE RunMarksAvailable
    <3>1. job["cli"].d \in Domains
      BY <2>1 DEF RunMarksAvailable, TypeInv, Working, WorkingPoints, Procs
    <3> QED BY <2>1, <3>1, RawAttempts DEF RunMarksAvailable, DomainStatuses
  <2>2. CASE \E e \in Domains : \/ Pause(e) \/ Resume(e)
                               \/ \E dry \in BOOLEAN : Run(e, dry)
    BY <2>2, RawAttempts, ZenonT(60) DEF Pause, Resume, Run, DomainStatuses
  <2> QED BY <1>1, <2>1, <2>2 DEF Operator
<1>2. CASE Environment
  BY <1>2 DEF Environment, Start, Crash, Tick, Drop, Snipe, LateRegister
<1> QED BY <1>1, <1>2
-----------------------------------------------------------------------------
(* The budget. *)

\* A step of the daemon that neither reads the count, nor writes it, nor
\* sends a request.
LEMMA DaemonElsewhere ==
  ASSUME TypeInv, Step("daemon"), ~LoadForRegister("daemon"),
         ~CommitLock("daemon"), ~SendRegister("daemon")
  PROVE  sent' = sent /\ pc'["daemon"] \notin { "register", "commit" }
<1> USE DEF TypeInv, TypeOK, Goto, Forget, Return, Raise, remote, Procs
<1>1. CASE Recover("daemon")
  BY <1>1 DEF Recover
<1>2. CASE SearchReply("daemon") \/ SearchFails("daemon")
  BY <1>2 DEF SearchReply, SearchFails
<1>3. CASE CheckPrice("daemon") \/ MarkSimulated("daemon")
  BY <1>3 DEF CheckPrice, MarkSimulated, Transition
<1>4. CASE \/ RegisterReply("daemon") \/ RegisterTimesOut("daemon")
           \/ RegisterGarbled("daemon")
  BY <1>4 DEF RegisterReply, RegisterTimesOut, RegisterGarbled
<1>5. CASE FinishRegistration("daemon") \/ MarkPendingConfirmation("daemon")
  BY <1>5 DEF FinishRegistration, MarkPendingConfirmation, Transition
<1>6. CASE ConfirmReply("daemon") \/ FinishConfirmation("daemon")
  BY <1>6 DEF ConfirmReply, FinishConfirmation, ConfirmNext, Transition
<1> QED BY <1>1, <1>2, <1>3, <1>4, <1>5, <1>6 DEF Step

\* The request is sent by a daemon that is on its way out.
SentOnExit ==
  /\ pc["daemon"] = "register" /\ pc'["daemon"] = "down"
  /\ sent' = [sent EXCEPT ![job["daemon"].d] = @ + 1]

\* Nor does any other action, but for a daemon on its way out, and none but
\* the daemon's own moves the daemon to a point at which the count matters.
LEMMA OtherElsewhere ==
  ASSUME TypeInv, OneRegistrar,
         DaemonStep \/ Step("cli") \/ Operator \/ Environment \/ UNCHANGED vars
  PROVE  /\ sent' = sent \/ SentOnExit
         /\ \/ pc'["daemon"] \notin { "register", "commit" }
            \/ pc'["daemon"] = pc["daemon"] /\ job'["daemon"] = job["daemon"]
<1>1. CASE DaemonStep
  BY <1>1 DEF DaemonStep, ExpireDueWindows, NothingDue, StartCheck,
              SelectDueDomain, RegisterPreviouslyAvailable, ScheduleNextCheck,
              ScheduleAfterFailure, MarkAvailable, Transition, Goto, Return,
              Raise, TypeInv, TypeOK, Procs, remote
<1>2. CASE Step("cli")
  <2>1. ~SendRegister("cli")
    BY DEF SendRegister, OneRegistrar, CliPoints, DryPoints
  <2>2. sent' = sent
    BY <1>2, <2>1 DEF Step, Recover, SearchReply, SearchFails, CheckPrice,
         MarkSimulated, LoadForRegister, CommitLock, RegisterReply,
         RegisterTimesOut, RegisterGarbled, FinishRegistration,
         MarkPendingConfirmation, ConfirmReply, FinishConfirmation, Transition,
         Raise, remote
  <2> QED BY <1>2, <2>2, StepOthers DEF Procs
<1>3. CASE Operator
  <2>1. sent' = sent
    BY <1>3 DEF Operator, Pause, Resume, Run, RunMarksAvailable, remote
  <2> QED BY <1>3, <2>1, OperatorOthers
<1>4. CASE Environment
  <2>1. CASE \E p \in Procs : Crash(p)
    <3>1. PICK p \in Procs : Crash(p)
      BY <2>1
    <3>2. /\ pc' = [pc EXCEPT ![p] = "down"]
          /\ job' = [job EXCEPT ![p] = Idle(FALSE)]
      BY <3>1 DEF Crash, Goto, Forget
    <3>3. sent' = sent \/ SentOnExit
      BY <3>1, <3>2 DEF Crash, remote, SentOnExit, OneRegistrar, CliPoints,
         DryPoints, Procs, TypeInv, TypeOK
    <3> QED BY <3>2, <3>3 DEF TypeInv, TypeOK, Procs
  <2>2. CASE ~\E p \in Procs : Crash(p)
    BY <1>4, <2>2 DEF Environment, Start, Tick, Drop, Snipe, LateRegister, Goto,
                TypeInv, TypeOK, Procs, remote, Forget
  <2> QED BY <2>1, <2>2
<1>5. CASE UNCHANGED vars
  BY <1>5 DEF vars
<1> QED BY <1>1, <1>2, <1>3, <1>4, <1>5

\* The three actions of the daemon that the count is about.
LEMMA CountingStep ==
  ASSUME BudgetInv,
         \/ LoadForRegister("daemon") \/ CommitLock("daemon")
         \/ SendRegister("daemon")
  PROVE  SeenIsCurrent' /\ Counted'
<1> DEFINE e == job["daemon"].d
<1>0. /\ TypeInv /\ row \in [Domains -> Row] /\ sent \in [Domains -> Nat]
      /\ pc \in [Procs -> PCs] /\ job \in [Procs -> Job] /\ "daemon" \in Procs
      /\ e \in Domains /\ row[e] \in Row /\ job["daemon"] \in Job
  BY DEF BudgetInv, TypeInv, TypeOK, Working, WorkingPoints, LockPoints, Procs,
         LoadForRegister, CommitLock, SendRegister
<1>a. \A d \in Domains : row[d].attempts \in Nat /\ sent[d] \in Nat
  BY <1>0, MaxAttemptsAssumption DEF Row
<1>1. CASE LoadForRegister("daemon")
  <2>1. row' = row /\ sent' = sent /\ pc["daemon"] = "lock"
    BY <1>1 DEF LoadForRegister, Raise, remote
  <2>2. \/ pc'["daemon"] \notin { "register", "commit" }
        \/ /\ pc'["daemon"] = "commit"
           /\ job' = [job EXCEPT !["daemon"].seen = row[e].attempts]
    BY <1>0, <1>1 DEF LoadForRegister, Return, Raise, Goto
  <2>3. [job["daemon"] EXCEPT !.seen = row[e].attempts].d = e
    BY <1>0 DEF Job
  <2>4. [job["daemon"] EXCEPT !.seen = row[e].attempts].seen = row[e].attempts
    BY <1>0 DEF Job
  <2>5. SeenIsCurrent'
    BY <1>0, <2>1, <2>2, <2>3, <2>4 DEF SeenIsCurrent
  <2>6. Counted'
    BY <2>1, <2>2 DEF BudgetInv, Counted, Unsent
  <2> QED BY <2>5, <2>6
<1>2. CASE CommitLock("daemon")
  <2>1. /\ sent' = sent /\ pc["daemon"] = "commit"
        /\ job["daemon"].seen = row[e].attempts
    BY <1>2 DEF CommitLock, remote, BudgetInv, SeenIsCurrent
  <2>2. \A d \in Domains : sent[d] <= row[d].attempts
    BY <1>a, <2>1 DEF BudgetInv, Counted, Unsent
  <2>3. CASE row[e].attempts >= MaxAttempts
    <3>1. row' = [row EXCEPT ![e].status = "error", ![e].simulated = FALSE]
      BY <1>0, <1>2, <1>a, <2>1, <2>3, MaxAttemptsAssumption DEF CommitLock
    <3>2. \A d \in Domains : row'[d].attempts = row[d].attempts
      BY <1>0, <3>1 DEF Row
    <3>3. pc'["daemon"] \notin { "register", "commit" }
      BY <1>0, <1>2, <1>a, <2>1, <2>3, MaxAttemptsAssumption
         DEF CommitLock, Return, Goto
    <3> QED BY <2>1, <2>2, <3>2, <3>3, <1>a DEF SeenIsCurrent, Counted, Unsent
  <2>4. CASE ~(row[e].attempts >= MaxAttempts)
    <3>1. /\ row' = [row EXCEPT ![e].status = "registering",
                                ![e].attempts = row[e].attempts + 1]
          /\ pc'["daemon"] = "register" /\ job' = job
      BY <1>0, <1>2, <2>1, <2>4 DEF CommitLock, Goto
    <3>2. row'[e].attempts = row[e].attempts + 1
      BY <1>0, <3>1 DEF Row
    <3>3. \A d \in Domains : d # e => row'[d].attempts = row[d].attempts
      BY <1>0, <3>1
    <3>4. ASSUME NEW d \in Domains
          PROVE  sent'[d] + Unsent(d)' <= row'[d].attempts
      <4>1. CASE d = e
        <5>1. Unsent(d)' = 1
          BY <3>1, <4>1 DEF Unsent
        <5> QED BY <1>0, <1>a, <2>1, <2>2, <3>2, <4>1, <5>1
      <4>2. CASE d # e
        <5>1. Unsent(d)' = 0
          BY <3>1, <4>2 DEF Unsent
        <5> QED BY <1>a, <2>1, <2>2, <3>3, <4>2, <5>1
      <4> QED BY <4>1, <4>2
    <3> QED BY <3>1, <3>4 DEF SeenIsCurrent, Counted
  <2> QED BY <2>3, <2>4
<1>3. CASE SendRegister("daemon")
  <2>1. /\ row' = row /\ job' = job /\ pc["daemon"] = "register"
        /\ pc'["daemon"] = "registering" /\ sent' = [sent EXCEPT ![e] = @ + 1]
    BY <1>0, <1>3 DEF SendRegister, Goto
  <2>2. ASSUME NEW d \in Domains
        PROVE  sent'[d] + Unsent(d)' <= row'[d].attempts
    <3>1. Unsent(d)' = 0 /\ sent'[d] = sent[d] + Unsent(d)
      BY <1>0, <1>a, <2>1 DEF Unsent
    <3> QED BY <1>a, <2>1, <3>1 DEF BudgetInv, Counted, Unsent
  <2> QED BY <2>1, <2>2 DEF SeenIsCurrent, Counted
<1> QED BY <1>1, <1>2, <1>3

\* Any other step leaves the counts alone.
LEMMA IdleStep ==
  ASSUME BudgetInv, sent' = sent,
         \A d \in Domains : row'[d].attempts = row[d].attempts,
         \/ pc'["daemon"] \notin { "register", "commit" }
         \/ pc'["daemon"] = pc["daemon"] /\ job'["daemon"] = job["daemon"]
  PROVE  SeenIsCurrent' /\ Counted'
<1>0. \A d \in Domains : row[d].attempts \in Nat /\ sent[d] \in Nat
  BY MaxAttemptsAssumption DEF BudgetInv, TypeInv, TypeOK, Row
<1>1. pc["daemon"] = "commit" => job["daemon"].d \in Domains
  BY DEF BudgetInv, TypeInv, Working, WorkingPoints, Procs
<1>2. SeenIsCurrent'
  BY <1>1 DEF BudgetInv, SeenIsCurrent
<1>3. Counted'
  BY <1>0 DEF BudgetInv, Counted, Unsent
<1> QED BY <1>2, <1>3

\* A request sent on the way out was counted like any other.
LEMMA ExitStep ==
  ASSUME BudgetInv, SentOnExit,
         \A d \in Domains : row'[d].attempts = row[d].attempts
  PROVE  SeenIsCurrent' /\ Counted'
<1>0. /\ \A d \in Domains : row[d].attempts \in Nat /\ sent[d] \in Nat
      /\ sent \in [Domains -> Nat] /\ job["daemon"].d \in Domains
  BY MaxAttemptsAssumption
     DEF BudgetInv, TypeInv, TypeOK, Row, SentOnExit, Working, WorkingPoints,
         LockPoints, Procs
<1>1. ASSUME NEW d \in Domains
      PROVE  sent'[d] + Unsent(d)' <= row'[d].attempts
  <2>1. Unsent(d)' = 0 /\ sent'[d] = sent[d] + Unsent(d)
    BY <1>0 DEF SentOnExit, Unsent
  <2> QED BY <1>0, <2>1 DEF BudgetInv, Counted, Unsent
<1> QED BY <1>1 DEF SentOnExit, SeenIsCurrent, Counted

LEMMA BudgetStep ==
  ASSUME BudgetInv, [Next]_vars, "run" \notin Commands
  PROVE  BudgetInv'
<1>0. TypeInv /\ OneRegistrar /\ TypeInv' /\ OneRegistrar'
  BY NextType, OneRegistrarStep DEF BudgetInv
<1>1. SeenIsCurrent' /\ Counted'
  <2>1. CASE \/ LoadForRegister("daemon") \/ CommitLock("daemon")
             \/ SendRegister("daemon")
    BY <2>1, CountingStep
  <2>2. CASE /\ Step("daemon") /\ ~LoadForRegister("daemon")
             /\ ~CommitLock("daemon") /\ ~SendRegister("daemon")
    <3>1. \A d \in Domains : row'[d].attempts = row[d].attempts
      BY <1>0, <2>2, StepAttempts DEF Procs
    <3> QED BY <1>0, <2>2, <3>1, DaemonElsewhere, IdleStep
  <2>3. CASE DaemonStep \/ Step("cli") \/ Operator \/ Environment \/ UNCHANGED vars
    <3>1. ~CommitLock("cli")
      BY <1>0 DEF CommitLock, OneRegistrar, CliPoints, DryPoints
    <3>2. \A d \in Domains : row'[d].attempts = row[d].attempts
      BY <1>0, <2>3, <3>1, StepAttempts, DaemonAttempts, OutsideAttempts
         DEF Procs, vars
    <3> QED BY <1>0, <2>3, <3>2, OtherElsewhere, IdleStep, ExitStep
  <2> QED BY <2>1, <2>2, <2>3 DEF Next, Procs
<1> QED BY <1>0, <1>1 DEF BudgetInv

\* No more Register requests are sent for a name than attempts are counted,
\* through every fault and every crash, while no run command registers.
THEOREM BudgetKept ==
  ASSUME "run" \notin Commands
  PROVE  Spec => []RegisterBudget
<1>1. Init => BudgetInv
  <2> SUFFICES ASSUME Init PROVE BudgetInv
    OBVIOUS
  <2>1. TypeInv
    BY InitType
  <2>2. OneRegistrar /\ SeenIsCurrent
    BY DEF Init, OneRegistrar, CliPoints, DryPoints, SeenIsCurrent, Procs
  <2>3. Counted
    BY DEF Init, Counted, Unsent, Procs
  <2> QED BY <2>1, <2>2, <2>3 DEF BudgetInv
<1>2. BudgetInv /\ [Next]_vars => BudgetInv'
  BY BudgetStep
<1>3. BudgetInv => RegisterBudget
  <2>1. ASSUME BudgetInv, NEW d \in Domains PROVE sent[d] <= row[d].attempts
    <3>1. row[d].attempts \in Nat /\ sent[d] \in Nat
      BY <2>1, MaxAttemptsAssumption DEF BudgetInv, TypeInv, TypeOK, Row
    <3> QED BY <2>1, <3>1 DEF BudgetInv, Counted, Unsent
  <2> QED BY <2>1 DEF RegisterBudget
<1> QED BY <1>1, <1>2, <1>3, PTL DEF Spec
=============================================================================

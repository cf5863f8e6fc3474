-------------------------- MODULE DomainBot_proofs --------------------------
(***************************************************************************)
(* Invariants of DomainBot, for every set of domains, every schedule, every *)
(* number of attempts and every choice of commands, faults and crash points *)
(* a theorem does not exclude.                                              *)
(***************************************************************************)
EXTENDS DomainBot, TLAPS

\* Points at which a process works on a row.
WorkingPoints ==
  { "start", "previous", "search", "resched", "backoff", "mark", "available",
    "lock", "commit", "confirmed" } \cup LockPoints

\* The row a process works on is in the table.
Working == \A p \in Procs : pc[p] \in WorkingPoints => job[p].d \in Domains

\* TypeOK alone is not inductive: an action that copies a field of the row
\* into the locals needs the row to exist.
TypeInv == TypeOK /\ Working

(* The helpers every action is made of keep the types. *)

LEMMA IdleType == \A dry \in BOOLEAN : Idle(dry) \in Job
  BY MaxAttemptsAssumption DEF Idle, Job, Answers

\* The locals stay, and the next point finds the row it needs.
LEMMA GotoType ==
  ASSUME TypeInv, NEW p \in Procs, NEW point \in PCs, Goto(p, point),
         UNCHANGED job, point \in WorkingPoints => job[p].d \in Domains
  PROVE  pc' \in [Procs -> PCs] /\ job' \in [Procs -> Job] /\ Working'
  BY DEF Goto, TypeInv, TypeOK, Working

\* The locals change to a well-typed value.
LEMMA AssignType ==
  ASSUME TypeInv, NEW p \in Procs, NEW point \in PCs, Goto(p, point),
         NEW j \in Job, job' = [job EXCEPT ![p] = j],
         point \in WorkingPoints => j.d \in Domains
  PROVE  pc' \in [Procs -> PCs] /\ job' \in [Procs -> Job] /\ Working'
  BY DEF Goto, TypeInv, TypeOK, Working

LEMMA ReturnType ==
  ASSUME TypeInv, NEW p \in Procs, Return(p)
  PROVE  pc' \in [Procs -> PCs] /\ job' \in [Procs -> Job] /\ Working'
<1>1. job[p].dry \in BOOLEAN
  BY DEF TypeInv, TypeOK, Job
<1>2. CASE p = "daemon"
  BY <1>1, <1>2, IdleType, AssignType
     DEF Return, Forget, PCs, WorkingPoints, LockPoints
<1>3. CASE p # "daemon"
  BY <1>3, IdleType, AssignType
     DEF Return, Forget, PCs, WorkingPoints, LockPoints
<1> QED BY <1>2, <1>3

\* What a process does on leaving by an exception or by being killed.
LEMMA LeaveType ==
  ASSUME TypeInv, NEW p \in Procs, Forget(p, FALSE),
         NEW point \in { "down", "failed" }, Goto(p, point)
  PROVE  pc' \in [Procs -> PCs] /\ job' \in [Procs -> Job] /\ Working'
  BY IdleType, AssignType DEF Forget, PCs, WorkingPoints, LockPoints

LEMMA RaiseType ==
  ASSUME TypeInv, NEW p \in Procs, Raise(p)
  PROVE  TypeInv'
<1>1. pc' \in [Procs -> PCs] /\ job' \in [Procs -> Job] /\ Working'
  BY LeaveType DEF Raise
<1> QED BY <1>1 DEF Raise, remote, TypeInv, TypeOK

\* Realigned rows are rows.
LEMMA RealignType ==
  ASSUME TypeInv, NEW moved \in SUBSET Domains, NEW rolled \in Rollovers,
         Realign(moved, rolled)
  PROVE  /\ row' \in [Domains -> Row]
         /\ phase' \in [Domains -> Phases]
<1>1. \A d \in Domains : rolled[d] \in Phases
  BY DEF Rollovers
<1>2. \A d \in Domains : Realigned(d, rolled[d]) \in Row
  <2>1. \A ph \in Phases : /\ PhaseStatus(ph) \in DomainStatuses
                           /\ PhaseNext(ph) \in { "none", "start", "soon" }
    BY DEF Phases, PhaseStatus, PhaseNext, DomainStatuses
  <2> QED BY <1>1, <2>1 DEF TypeInv, TypeOK, Realigned, Row
<1> QED BY <1>1, <1>2 DEF Realign, TypeInv, TypeOK

\* What the code assigns to the columns of a row.
LEMMA RowFields ==
  ASSUME NEW r \in Row
  PROVE  /\ \A s \in DomainStatuses : [r EXCEPT !.status = s] \in Row
         /\ \A n \in { "none", "start", "soon" } : [r EXCEPT !.next = n] \in Row
         /\ \A a \in 0..MaxAttempts : [r EXCEPT !.attempts = a] \in Row
         /\ \A q \in { "within", "over", "unknown" } : [r EXCEPT !.price = q] \in Row
         /\ \A b \in BOOLEAN : [r EXCEPT !.simulated = b] \in Row
  BY DEF Row

LEMMA RowType ==
  ASSUME TypeInv, NEW d \in Domains
  PROVE  row[d] \in Row
  BY DEF TypeInv, TypeOK

LEMMA RowUpdateType ==
  ASSUME TypeInv, NEW d \in Domains, NEW r \in Row, row' = [row EXCEPT ![d] = r]
  PROVE  row' \in [Domains -> Row]
  BY DEF TypeInv, TypeOK

-----------------------------------------------------------------------------
(* DomainScheduler. *)

LEMMA RecoverType ==
  ASSUME TypeInv, NEW p \in Procs, Recover(p)
  PROVE  TypeInv'
<1> DEFINE aligned == { d \in Domains : ~RecoverSkips(d) }
<1>1. CASE Raise(p)
  BY <1>1, RaiseType
<1>2. CASE ~Raise(p)
  <2>1. PICK rolled \in Rollovers :
        /\ Realign(aligned, rolled)
        /\ \/ Return(p)
           \/ Goto(p, "confirm") /\ job' = [job EXCEPT ![p].todo = Uncertain]
        /\ UNCHANGED remote
    BY <1>2 DEF Recover
  <2>2. row' \in [Domains -> Row] /\ phase' \in [Domains -> Phases]
    BY <2>1, RealignType
  <2>3. ASSUME Goto(p, "confirm"), job' = [job EXCEPT ![p].todo = Uncertain]
        PROVE  pc' \in [Procs -> PCs] /\ job' \in [Procs -> Job] /\ Working'
    <3>1. [job[p] EXCEPT !.todo = Uncertain] \in Job
      BY DEF TypeInv, TypeOK, Job, Uncertain
    <3>2. job' = [job EXCEPT ![p] = [job[p] EXCEPT !.todo = Uncertain]]
      BY <2>3 DEF TypeInv, TypeOK
    <3> QED BY <2>3, <3>1, <3>2, AssignType DEF PCs, WorkingPoints, LockPoints
  <2>4. pc' \in [Procs -> PCs] /\ job' \in [Procs -> Job] /\ Working'
    BY <2>1, <2>3, ReturnType
  <2> QED BY <2>1, <2>2, <2>4 DEF remote, TypeInv, TypeOK
<1> QED BY <1>1, <1>2

LEMMA ExpireDueWindowsType ==
  ASSUME TypeInv, ExpireDueWindows
  PROVE  TypeInv'
<1>0. "daemon" \in Procs
  BY DEF Procs
<1>1. CASE Raise("daemon")
  BY <1>0, <1>1, RaiseType
<1>2. CASE ~Raise("daemon")
  <2>1. PICK due \in SUBSET Domains, rolled \in Rollovers :
          /\ Realign(due, rolled)
          /\ Goto("daemon", "select") /\ UNCHANGED << remote, job >>
    BY <1>2 DEF ExpireDueWindows
  <2>2. row' \in [Domains -> Row] /\ phase' \in [Domains -> Phases]
    BY <2>1, RealignType
  <2>3. pc' \in [Procs -> PCs] /\ job' \in [Procs -> Job] /\ Working'
    BY <1>0, <2>1, GotoType DEF PCs, WorkingPoints, LockPoints
  <2> QED BY <2>1, <2>2, <2>3 DEF remote, TypeInv, TypeOK
<1> QED BY <1>1, <1>2

LEMMA SelectDueDomainType ==
  ASSUME TypeInv, NEW d \in Domains, SelectDueDomain(d)
  PROVE  TypeInv'
<1> DEFINE point == IF row[d].status = "available" THEN "previous" ELSE "start"
<1>1. "daemon" \in Procs /\ point \in PCs /\ Goto("daemon", point)
  BY DEF Procs, PCs, SelectDueDomain
<1>2. [job["daemon"] EXCEPT !.d = d] \in Job
  BY <1>1 DEF TypeInv, TypeOK, Job
<1>3. job' = [job EXCEPT !["daemon"] = [job["daemon"] EXCEPT !.d = d]]
  BY DEF SelectDueDomain
<1>4. [job["daemon"] EXCEPT !.d = d].d = d
  BY <1>1 DEF TypeInv, TypeOK, Job
<1>5. pc' \in [Procs -> PCs] /\ job' \in [Procs -> Job] /\ Working'
  BY <1>1, <1>2, <1>3, <1>4, AssignType
<1> QED BY <1>5 DEF SelectDueDomain, remote, TypeInv, TypeOK

LEMMA NothingDueType ==
  ASSUME TypeInv, NothingDue
  PROVE  TypeInv'
<1>1. pc' \in [Procs -> PCs] /\ job' \in [Procs -> Job] /\ Working'
  BY GotoType DEF NothingDue, Procs, PCs, WorkingPoints, LockPoints
<1> QED BY <1>1 DEF NothingDue, remote, TypeInv, TypeOK

LEMMA StartCheckType ==
  ASSUME TypeInv, StartCheck
  PROVE  TypeInv'
<1> DEFINE d == job["daemon"].d
<1>1. "daemon" \in Procs /\ d \in Domains /\ pc["daemon"] = "start"
  BY DEF Procs, StartCheck, TypeInv, Working, WorkingPoints
<1>2. CASE Raise("daemon")
  BY <1>1, <1>2, RaiseType
<1>3. CASE Return("daemon") /\ UNCHANGED << row, phase, remote >>
  <2>1. pc' \in [Procs -> PCs] /\ job' \in [Procs -> Job] /\ Working'
    BY <1>1, <1>3, ReturnType
  <2> QED BY <1>3, <2>1 DEF remote, TypeInv, TypeOK
<1>4. CASE /\ row' = [row EXCEPT ![d].next = "start"]
           /\ Return("daemon")
           /\ UNCHANGED << phase, remote >>
  <2>1. pc' \in [Procs -> PCs] /\ job' \in [Procs -> Job] /\ Working'
    BY <1>1, <1>4, ReturnType
  <2>2. row' \in [Domains -> Row]
    BY <1>1, <1>4 DEF TypeInv, TypeOK, Row
  <2> QED BY <1>4, <2>1, <2>2 DEF remote, TypeInv, TypeOK
<1>5. ASSUME NEW rolled \in Rollovers, Realign({d}, rolled),
             Return("daemon"), UNCHANGED remote
      PROVE  TypeInv'
  <2>1. pc' \in [Procs -> PCs] /\ job' \in [Procs -> Job] /\ Working'
    BY <1>1, <1>5, ReturnType
  <2>2. row' \in [Domains -> Row] /\ phase' \in [Domains -> Phases]
    BY <1>1, <1>5, RealignType
  <2> QED BY <1>5, <2>1, <2>2 DEF remote, TypeInv, TypeOK
<1>6. CASE /\ row' = [row EXCEPT ![d] = [row[d] EXCEPT !.status = "watching"]]
           /\ Goto("daemon", "search") /\ UNCHANGED job
           /\ UNCHANGED << phase, remote >>
  <2>1. pc' \in [Procs -> PCs] /\ job' \in [Procs -> Job] /\ Working'
    BY <1>1, <1>6, GotoType DEF PCs
  <2>2. [row[d] EXCEPT !.status = "watching"] \in Row
    BY <1>1, RowType, RowFields DEF DomainStatuses
  <2>3. row' \in [Domains -> Row]
    BY <1>1, <1>6, <2>2, RowUpdateType
  <2> QED BY <1>6, <2>1, <2>3 DEF remote, TypeInv, TypeOK
<1> QED BY <1>2, <1>3, <1>4, <1>5, <1>6 DEF StartCheck, Transition

LEMMA RegisterPreviouslyAvailableType ==
  ASSUME TypeInv, RegisterPreviouslyAvailable
  PROVE  TypeInv'
<1> DEFINE d == job["daemon"].d
           j == [job["daemon"] EXCEPT !.quote = row[d].price]
<1>1. "daemon" \in Procs /\ d \in Domains
  BY DEF Procs, RegisterPreviouslyAvailable, TypeInv, Working, WorkingPoints
<1>2. j \in Job /\ j.d = d
  BY <1>1 DEF TypeInv, TypeOK, Job, Row
<1>3. job' = [job EXCEPT !["daemon"] = j] /\ Goto("daemon", "available")
  BY DEF RegisterPreviouslyAvailable
<1>4. pc' \in [Procs -> PCs] /\ job' \in [Procs -> Job] /\ Working'
  BY <1>1, <1>2, <1>3, AssignType DEF PCs
<1> QED BY <1>4 DEF RegisterPreviouslyAvailable, remote, TypeInv, TypeOK

LEMMA SearchReplyType ==
  ASSUME TypeInv, NEW p \in Procs, SearchReply(p)
  PROVE  TypeInv'
<1> DEFINE d == job[p].d
<1>1. PICK quote \in Prices :
        /\ row' = [row EXCEPT ![d].simulated = FALSE,
                              ![d].price = IF quote = "unknown" THEN @ ELSE quote]
        /\ \/ Goto(p, "mark") /\ job' = [job EXCEPT ![p].quote = quote]
           \/ Goto(p, "resched") /\ UNCHANGED job
           \/ Return(p)
  BY DEF SearchReply
<1>2. d \in Domains /\ quote \in { "within", "over", "unknown" }
  BY PricesAssumption DEF SearchReply, TypeInv, Working, WorkingPoints
<1>3. row' \in [Domains -> Row]
  <2> DEFINE price == IF quote = "unknown" THEN row[d].price ELSE quote
             r == [[row[d] EXCEPT !.simulated = FALSE] EXCEPT !.price = price]
  <2>1. row[d] \in Row /\ price \in { "within", "over", "unknown" }
    BY <1>2, RowType DEF Row
  <2>2. r \in Row
    BY <2>1, RowFields
  <2>3. row' = [row EXCEPT ![d] = r]
    BY <1>1, <1>2, <2>1 DEF TypeInv, TypeOK, Row
  <2> QED BY <1>2, <2>2, <2>3, RowUpdateType
<1>4. ASSUME Goto(p, "mark"), job' = [job EXCEPT ![p].quote = quote]
      PROVE  pc' \in [Procs -> PCs] /\ job' \in [Procs -> Job] /\ Working'
  <2> DEFINE j == [job[p] EXCEPT !.quote = quote]
  <2>1. j \in Job /\ j.d = d
    BY <1>2 DEF TypeInv, TypeOK, Job
  <2>2. job' = [job EXCEPT ![p] = j]
    BY <1>4
  <2> QED BY <1>2, <1>4, <2>1, <2>2, AssignType DEF PCs
<1>5. pc' \in [Procs -> PCs] /\ job' \in [Procs -> Job] /\ Working'
  BY <1>1, <1>2, <1>4, GotoType, ReturnType DEF PCs
<1> QED BY <1>3, <1>5 DEF SearchReply, remote, TypeInv, TypeOK

LEMMA SearchFailsType ==
  ASSUME TypeInv, NEW p \in Procs, SearchFails(p)
  PROVE  TypeInv'
<1> DEFINE d == job[p].d
<1>1. d \in Domains
  BY DEF SearchFails, TypeInv, Working, WorkingPoints
<1>2. PICK recorded \in BOOLEAN :
        row' = [row EXCEPT ![d].simulated = @ /\ ~recorded]
  BY DEF SearchFails
<1> DEFINE r == [row[d] EXCEPT !.simulated = @ /\ ~recorded]
<1>3. r \in Row
  BY <1>1, RowType, RowFields
<1>4. row' \in [Domains -> Row]
  <2>1. row' = [row EXCEPT ![d] = r]
    BY <1>2
  <2> QED BY <1>1, <1>3, <2>1, RowUpdateType
<1>5. pc' \in [Procs -> PCs] /\ job' \in [Procs -> Job] /\ Working'
  BY <1>1, GotoType, ReturnType DEF SearchFails, PCs
<1> QED BY <1>4, <1>5 DEF SearchFails, remote, TypeInv, TypeOK

LEMMA ScheduleType ==
  ASSUME TypeInv, ScheduleNextCheck \/ ScheduleAfterFailure
  PROVE  TypeInv'
<1> DEFINE d == job["daemon"].d
<1>1. "daemon" \in Procs /\ d \in Domains
  BY DEF Procs, ScheduleNextCheck, ScheduleAfterFailure, TypeInv, Working, WorkingPoints
<1>2. Rescheduled(d) \in Row /\ [Rescheduled(d) EXCEPT !.simulated = FALSE] \in Row
  BY <1>1, RowType, RowFields DEF Rescheduled, DomainStatuses
<1>3. row' \in [Domains -> Row]
  BY <1>1, <1>2 DEF ScheduleNextCheck, ScheduleAfterFailure, TypeInv, TypeOK
<1>4. pc' \in [Procs -> PCs] /\ job' \in [Procs -> Job] /\ Working'
  BY <1>1, ReturnType DEF ScheduleNextCheck, ScheduleAfterFailure
<1> QED BY <1>3, <1>4
        DEF ScheduleNextCheck, ScheduleAfterFailure, remote, TypeInv, TypeOK

LEMMA MarkAvailableType ==
  ASSUME TypeInv, MarkAvailable
  PROVE  TypeInv'
<1> DEFINE d == job["daemon"].d
<1>1. "daemon" \in Procs /\ d \in Domains
  BY DEF Procs, MarkAvailable, TypeInv, Working, WorkingPoints
<1>2. job["daemon"].quote \in { "within", "over", "unknown" }
  BY <1>1 DEF TypeInv, TypeOK, Job
<1>3. row' \in [Domains -> Row]
  <2> DEFINE r == row[d]
             marked == [r EXCEPT
                          !.status = IF @ = "watching" THEN "available" ELSE @,
                          !.next = "none",
                          !.price = IF job["daemon"].quote = "unknown"
                                      THEN @ ELSE job["daemon"].quote]
  <2>1. row \in [Domains -> Row] /\ r \in Row
    BY <1>1 DEF TypeInv, TypeOK
  <2>2. row' = [row EXCEPT ![d] = marked]
    BY <1>1, <2>1 DEF MarkAvailable
  <2> HIDE DEF r
  <2>3. marked \in Row
    BY <1>2, <2>1 DEF Row, DomainStatuses
  <2> QED BY <1>1, <2>1, <2>2, <2>3
<1>4. pc' \in [Procs -> PCs] /\ job' \in [Procs -> Job] /\ Working'
  BY <1>1, GotoType DEF MarkAvailable, PCs
<1> QED BY <1>3, <1>4 DEF MarkAvailable, remote, TypeInv, TypeOK

-----------------------------------------------------------------------------
(* RegistrationService. *)

\* A transition that is made.
LEMMA TransitionType ==
  ASSUME TypeInv, NEW p \in Procs, job[p].d \in Domains,
         NEW target \in DomainStatuses, NEW changed \in Row,
         row' = [row EXCEPT ![job[p].d] = [changed EXCEPT !.status = target]]
  PROVE  row' \in [Domains -> Row]
  BY RowFields, RowUpdateType

LEMMA CheckPriceType ==
  ASSUME TypeInv, NEW p \in Procs, CheckPrice(p)
  PROVE  TypeInv'
<1> DEFINE d == job[p].d
           r == [[row[d] EXCEPT !.next = "none"] EXCEPT !.simulated = FALSE]
<1>1. d \in Domains
  BY DEF CheckPrice, TypeInv, Working, WorkingPoints
<1>2. CASE Raise(p)
  BY <1>2, RaiseType
<1>3. CASE /\ row' = [row EXCEPT ![d] = [r EXCEPT !.status = "price_exceeded"]]
           /\ Return(p)
           /\ UNCHANGED << phase, remote >>
  <2>1. r \in Row
    BY <1>1, RowType, RowFields
  <2>2. row' \in [Domains -> Row]
    BY <1>1, <1>3, <2>1, TransitionType DEF DomainStatuses
  <2>3. pc' \in [Procs -> PCs] /\ job' \in [Procs -> Job] /\ Working'
    BY <1>3, ReturnType
  <2> QED BY <1>3, <2>2, <2>3 DEF remote, TypeInv, TypeOK
<1>4. CASE Goto(p, "lock") /\ UNCHANGED << row, phase, remote, job >>
  <2>1. pc' \in [Procs -> PCs] /\ job' \in [Procs -> Job] /\ Working'
    BY <1>1, <1>4, GotoType DEF PCs
  <2> QED BY <1>4, <2>1 DEF remote, TypeInv, TypeOK
<1> QED BY <1>2, <1>3, <1>4 DEF CheckPrice, Transition

LEMMA MarkSimulatedType ==
  ASSUME TypeInv, NEW p \in Procs, MarkSimulated(p)
  PROVE  TypeInv'
<1> DEFINE d == job[p].d
           r == [[[row[d] EXCEPT !.status = "available"]
                    EXCEPT !.next = "none"] EXCEPT !.simulated = TRUE]
<1>1. d \in Domains
  BY DEF MarkSimulated, TypeInv, Working, WorkingPoints
<1>2. r \in Row
  BY <1>1, RowType, RowFields DEF DomainStatuses
<1>3. row' = [row EXCEPT ![d] = r]
  BY <1>1 DEF MarkSimulated, TypeInv, TypeOK, Row
<1>4. row' \in [Domains -> Row]
  BY <1>1, <1>2, <1>3, RowUpdateType
<1>5. pc' \in [Procs -> PCs] /\ job' \in [Procs -> Job] /\ Working'
  BY ReturnType DEF MarkSimulated
<1> QED BY <1>4, <1>5 DEF MarkSimulated, remote, TypeInv, TypeOK

LEMMA LoadForRegisterType ==
  ASSUME TypeInv, NEW p \in Procs, LoadForRegister(p)
  PROVE  TypeInv'
<1> DEFINE d == job[p].d
           j == [job[p] EXCEPT !.seen = row[d].attempts]
<1>1. d \in Domains
  BY DEF LoadForRegister, TypeInv, Working, WorkingPoints
<1>2. CASE Raise(p)
  BY <1>2, RaiseType
<1>3. CASE Return(p) /\ UNCHANGED << row, phase, remote >>
  <2>1. pc' \in [Procs -> PCs] /\ job' \in [Procs -> Job] /\ Working'
    BY <1>3, ReturnType
  <2> QED BY <1>3, <2>1 DEF remote, TypeInv, TypeOK
<1>4. CASE /\ Goto(p, "commit")
           /\ job' = [job EXCEPT ![p] = j]
           /\ UNCHANGED << row, phase, remote >>
  <2>1. row[d].attempts \in 0..MaxAttempts
    BY <1>1, RowType DEF Row
  <2>2. j \in Job /\ j.d = d
    BY <2>1 DEF TypeInv, TypeOK, Job
  <2>3. pc' \in [Procs -> PCs] /\ job' \in [Procs -> Job] /\ Working'
    BY <1>1, <1>4, <2>2, AssignType DEF PCs
  <2> QED BY <1>4, <2>3 DEF remote, TypeInv, TypeOK
<1> QED BY <1>2, <1>3, <1>4 DEF LoadForRegister

LEMMA CommitLockType ==
  ASSUME TypeInv, NEW p \in Procs, CommitLock(p)
  PROVE  TypeInv'
<1> DEFINE d == job[p].d
<1>1. d \in Domains /\ job[p].seen \in 0..MaxAttempts
  BY DEF CommitLock, TypeInv, TypeOK, Job, Working, WorkingPoints
<1>2. CASE /\ row' = [row EXCEPT ![d].status = "error", ![d].simulated = FALSE]
           /\ Return(p)
  <2> DEFINE r == [[row[d] EXCEPT !.status = "error"] EXCEPT !.simulated = FALSE]
  <2>1. r \in Row
    BY <1>1, RowType, RowFields DEF DomainStatuses
  <2>2. row' = [row EXCEPT ![d] = r]
    BY <1>1, <1>2 DEF TypeInv, TypeOK, Row
  <2>3. row' \in [Domains -> Row]
    BY <1>1, <2>1, <2>2, RowUpdateType
  <2>4. pc' \in [Procs -> PCs] /\ job' \in [Procs -> Job] /\ Working'
    BY <1>2, ReturnType
  <2> QED BY <2>3, <2>4 DEF CommitLock, remote, TypeInv, TypeOK
<1>3. CASE /\ job[p].seen < MaxAttempts
           /\ row' = [row EXCEPT ![d].status = "registering",
                                 ![d].attempts = job[p].seen + 1]
           /\ Goto(p, "register")
           /\ UNCHANGED job
  <2> DEFINE r == [[row[d] EXCEPT !.status = "registering"]
                     EXCEPT !.attempts = job[p].seen + 1]
  <2>1. job[p].seen + 1 \in 0..MaxAttempts
    BY <1>1, <1>3, MaxAttemptsAssumption
  <2>2. r \in Row
    BY <1>1, <2>1, RowType, RowFields DEF DomainStatuses
  <2>3. row' = [row EXCEPT ![d] = r]
    BY <1>1, <1>3 DEF TypeInv, TypeOK, Row
  <2>4. row' \in [Domains -> Row]
    BY <1>1, <2>2, <2>3, RowUpdateType
  <2>5. pc' \in [Procs -> PCs] /\ job' \in [Procs -> Job] /\ Working'
    BY <1>1, <1>3, GotoType DEF PCs
  <2> QED BY <2>4, <2>5 DEF CommitLock, remote, TypeInv, TypeOK
<1> QED BY <1>2, <1>3 DEF CommitLock

LEMMA SendRegisterType ==
  ASSUME TypeInv, NEW p \in Procs, SendRegister(p)
  PROVE  TypeInv'
<1>1. job[p].d \in Domains
  BY DEF SendRegister, TypeInv, Working, WorkingPoints, LockPoints
<1>2. sent' \in [Domains -> Nat]
  BY <1>1 DEF SendRegister, TypeInv, TypeOK
<1>3. pc' \in [Procs -> PCs] /\ job' \in [Procs -> Job] /\ Working'
  BY <1>1, GotoType DEF SendRegister, PCs
<1> QED BY <1>2, <1>3 DEF SendRegister, TypeInv, TypeOK

LEMMA GrantType ==
  ASSUME TypeInv, NEW d, Grant(d)
  PROVE  reg' \in [Domains -> Holders]
  BY DEF Grant, TypeInv, TypeOK, Holders

LEMMA RegisterOutcomeType ==
  ASSUME TypeInv, NEW d \in Domains, RegisterOutcome(d)
  PROVE  reg' \in [Domains -> Holders] /\ late' \subseteq Domains
  BY GrantType DEF RegisterOutcome, TypeInv, TypeOK

LEMMA RegisterReplyType ==
  ASSUME TypeInv, NEW p \in Procs, RegisterReply(p)
  PROVE  TypeInv'
<1>1. job[p].d \in Domains
  BY DEF RegisterReply, TypeInv, Working, WorkingPoints, LockPoints
<1>2. PICK answer \in { "success", "refused", "rejected" } :
        job' = [job EXCEPT ![p].answer = answer]
  BY DEF RegisterReply
<1> DEFINE j == [job[p] EXCEPT !.answer = answer]
<1>3. j \in Job /\ j.d = job[p].d
  BY DEF TypeInv, TypeOK, Job, Answers
<1>4. job' = [job EXCEPT ![p] = j]
  BY <1>2
<1>5. pc' \in [Procs -> PCs] /\ job' \in [Procs -> Job] /\ Working'
  BY <1>1, <1>3, <1>4, AssignType DEF RegisterReply, PCs
<1>6. reg' \in [Domains -> Holders]
  BY GrantType DEF RegisterReply, TypeInv, TypeOK
<1> QED BY <1>5, <1>6 DEF RegisterReply, TypeInv, TypeOK

LEMMA RegisterTimesOutType ==
  ASSUME TypeInv, NEW p \in Procs, RegisterTimesOut(p)
  PROVE  TypeInv'
<1>1. job[p].d \in Domains
  BY DEF RegisterTimesOut, TypeInv, Working, WorkingPoints, LockPoints
<1>2. pc' \in [Procs -> PCs] /\ job' \in [Procs -> Job] /\ Working'
  BY <1>1, GotoType DEF RegisterTimesOut, PCs
<1> QED BY <1>1, <1>2, RegisterOutcomeType DEF RegisterTimesOut, TypeInv, TypeOK

LEMMA RegisterGarbledType ==
  ASSUME TypeInv, NEW p \in Procs, RegisterGarbled(p)
  PROVE  TypeInv'
<1>1. job[p].d \in Domains
  BY DEF RegisterGarbled, TypeInv, Working, WorkingPoints, LockPoints
<1>2. pc' \in [Procs -> PCs] /\ job' \in [Procs -> Job] /\ Working'
  BY LeaveType DEF RegisterGarbled
<1> QED BY <1>1, <1>2, RegisterOutcomeType DEF RegisterGarbled, TypeInv, TypeOK

LEMMA FinishRegistrationType ==
  ASSUME TypeInv, NEW p \in Procs, FinishRegistration(p)
  PROVE  TypeInv'
<1> DEFINE d == job[p].d
           r == [row[d] EXCEPT !.simulated = FALSE]
           closed == [r EXCEPT !.next = "none"]
<1>1. d \in Domains
  BY DEF FinishRegistration, TypeInv, Working, WorkingPoints, LockPoints
<1>2. r \in Row /\ closed \in Row
  BY <1>1, RowType, RowFields
<1>3. CASE Raise(p)
  BY <1>3, RaiseType
<1>4. CASE ~Raise(p)
  <2>1. PICK target \in DomainStatuses, changed \in { r, closed } :
          /\ row' = [row EXCEPT ![d] = [changed EXCEPT !.status = target]]
          /\ Return(p)
          /\ UNCHANGED << phase, remote >>
    BY <1>4 DEF FinishRegistration, Transition, DomainStatuses
  <2>2. row' \in [Domains -> Row]
    BY <1>1, <1>2, <2>1, TransitionType
  <2>3. pc' \in [Procs -> PCs] /\ job' \in [Procs -> Job] /\ Working'
    BY <2>1, ReturnType
  <2> QED BY <2>1, <2>2, <2>3 DEF remote, TypeInv, TypeOK
<1> QED BY <1>3, <1>4

LEMMA MarkPendingConfirmationType ==
  ASSUME TypeInv, NEW p \in Procs, MarkPendingConfirmation(p)
  PROVE  TypeInv'
<1> DEFINE d == job[p].d
           r == [row[d] EXCEPT !.simulated = FALSE]
           j == [job[p] EXCEPT !.todo = { d }]
<1>1. d \in Domains
  BY DEF MarkPendingConfirmation, TypeInv, Working, WorkingPoints, LockPoints
<1>2. CASE Raise(p)
  BY <1>2, RaiseType
<1>3. CASE /\ row' = [row EXCEPT ![d] =
                       [r EXCEPT !.status = "registration_pending_confirmation"]]
           /\ Goto(p, "confirm")
           /\ job' = [job EXCEPT ![p] = j]
           /\ UNCHANGED << phase, remote >>
  <2>1. r \in Row
    BY <1>1, RowType, RowFields
  <2>2. row' \in [Domains -> Row]
    BY <1>1, <1>3, <2>1, TransitionType DEF DomainStatuses
  <2>3. j \in Job
    BY <1>1 DEF TypeInv, TypeOK, Job
  <2>4. pc' \in [Procs -> PCs] /\ job' \in [Procs -> Job] /\ Working'
    BY <1>3, <2>3, AssignType DEF PCs, WorkingPoints, LockPoints
  <2> QED BY <1>3, <2>2, <2>4 DEF remote, TypeInv, TypeOK
<1> QED BY <1>2, <1>3 DEF MarkPendingConfirmation, Transition

LEMMA VerdictType ==
  \A replies, owned : ConfirmVerdict(replies, owned) \in
                        { "registered", "unknown", "not_found" }
  BY DEF ConfirmVerdict

LEMMA ConfirmReplyType ==
  ASSUME TypeInv, NEW p \in Procs, ConfirmReply(p)
  PROVE  TypeInv'
<1>1. PICK d \in job[p].todo, replies \in [1..3 -> ReplyKinds] :
        job' = [job EXCEPT ![p].d = d, ![p].todo = @ \ { d },
                           ![p].answer = ConfirmVerdict(replies, reg[d] = "ours")]
  BY DEF ConfirmReply
<1> DEFINE verdict == ConfirmVerdict(replies, reg[d] = "ours")
           j == [job[p] EXCEPT !.d = d, !.todo = @ \ { d }, !.answer = verdict]
<1>2. d \in Domains /\ verdict \in Answers
  BY VerdictType DEF TypeInv, TypeOK, Job, Answers
<1> HIDE DEF verdict
<1>3. j \in Job /\ j.d = d
  BY <1>2 DEF TypeInv, TypeOK, Job
<1>4. job' = [job EXCEPT ![p] = j]
  BY <1>1 DEF verdict, TypeInv, TypeOK, Job
<1>5. pc' \in [Procs -> PCs] /\ job' \in [Procs -> Job] /\ Working'
  <2> HIDE DEF j
  <2>1. Goto(p, "confirmed") /\ "confirmed" \in PCs
    BY DEF ConfirmReply, PCs
  <2> QED BY <1>2, <1>3, <1>4, <2>1, AssignType
<1> QED BY <1>5 DEF ConfirmReply, remote, TypeInv, TypeOK

LEMMA ConfirmNextType ==
  ASSUME TypeInv, NEW p \in Procs, ConfirmNext(p)
  PROVE  pc' \in [Procs -> PCs] /\ job' \in [Procs -> Job] /\ Working'
  BY ReturnType, GotoType DEF ConfirmNext, PCs, WorkingPoints, LockPoints

LEMMA FinishConfirmationType ==
  ASSUME TypeInv, NEW p \in Procs, FinishConfirmation(p)
  PROVE  TypeInv'
<1> DEFINE d == job[p].d
           r == [row[d] EXCEPT !.simulated = FALSE]
           closed == [r EXCEPT !.next = "none"]
<1>1. d \in Domains
  BY DEF FinishConfirmation, TypeInv, Working, WorkingPoints
<1>2. r \in Row /\ closed \in Row
  BY <1>1, RowType, RowFields
<1>3. CASE Raise(p)
  BY <1>3, RaiseType
<1>4. CASE ~Raise(p)
  <2>1. PICK target \in DomainStatuses, changed \in { r, closed } :
          /\ row' = [row EXCEPT ![d] = [changed EXCEPT !.status = target]]
          /\ ConfirmNext(p)
          /\ UNCHANGED << phase, remote >>
    BY <1>4 DEF FinishConfirmation, Transition, DomainStatuses
  <2>2. row' \in [Domains -> Row]
    BY <1>1, <1>2, <2>1, TransitionType
  <2>3. pc' \in [Procs -> PCs] /\ job' \in [Procs -> Job] /\ Working'
    BY <2>1, ConfirmNextType
  <2> QED BY <2>1, <2>2, <2>3 DEF remote, TypeInv, TypeOK
<1> QED BY <1>3, <1>4

-----------------------------------------------------------------------------
(* The operator's commands and the environment. *)

\* A raw assignment of a status and of next_check_at.
LEMMA RawUpdateType ==
  ASSUME TypeInv, NEW d \in Domains, NEW s \in DomainStatuses,
         NEW n \in { "none", "start", "soon" },
         row' = [row EXCEPT ![d].status = s, ![d].next = n]
  PROVE  row' \in [Domains -> Row]
<1>1. [[row[d] EXCEPT !.status = s] EXCEPT !.next = n] \in Row
  BY RowType, RowFields
<1>2. row' = [row EXCEPT ![d] = [[row[d] EXCEPT !.status = s] EXCEPT !.next = n]]
  BY DEF TypeInv, TypeOK, Row
<1> QED BY <1>1, <1>2, RowUpdateType

LEMMA OperatorType ==
  ASSUME TypeInv, Operator
  PROVE  TypeInv'
<1>0. "cli" \in Procs
  BY DEF Procs
<1>1. CASE \E d \in Domains : Pause(d)
  <2>1. row' \in [Domains -> Row]
    BY <1>1, RawUpdateType DEF Pause, DomainStatuses
  <2> QED BY <1>1, <2>1 DEF Pause, remote, TypeInv, TypeOK, Working
<1>2. CASE \E d \in Domains : Resume(d)
  <2>1. row' \in [Domains -> Row]
    BY <1>2, RawUpdateType DEF Resume, DomainStatuses
  <2>2. pc' \in [Procs -> PCs] /\ job' \in [Procs -> Job] /\ Working'
    BY <1>0, <1>2, GotoType DEF Resume, PCs, WorkingPoints, LockPoints
  <2> QED BY <1>2, <2>1, <2>2 DEF Resume, remote, TypeInv, TypeOK
<1>3. CASE \E d \in Domains, dry \in BOOLEAN : Run(d, dry)
  <2>1. PICK d \in Domains, dry \in BOOLEAN : Run(d, dry)
    BY <1>3
  <2>2. row' \in [Domains -> Row]
    BY <2>1, RawUpdateType DEF Run, DomainStatuses
  <2>3. phase' \in [Domains -> Phases]
    BY <2>1 DEF Run, TypeInv, TypeOK, Phases
  <2>4. [Idle(dry) EXCEPT !.d = d] \in Job /\ [Idle(dry) EXCEPT !.d = d].d = d
    BY MaxAttemptsAssumption DEF Idle, Job, Answers
  <2>5. pc' \in [Procs -> PCs] /\ job' \in [Procs -> Job] /\ Working'
    BY <1>0, <2>1, <2>4, AssignType DEF Run, PCs
  <2> QED BY <2>1, <2>2, <2>3, <2>5 DEF Run, remote, TypeInv, TypeOK
<1>4. CASE RunMarksAvailable
  <2>1. job["cli"].d \in Domains
    BY <1>0, <1>4 DEF RunMarksAvailable, TypeInv, Working, WorkingPoints
  <2>2. row' \in [Domains -> Row]
    BY <1>4, <2>1, RawUpdateType DEF RunMarksAvailable, DomainStatuses
  <2>3. pc' \in [Procs -> PCs] /\ job' \in [Procs -> Job] /\ Working'
    BY <1>0, <1>4, <2>1, GotoType DEF RunMarksAvailable, PCs
  <2> QED BY <1>4, <2>2, <2>3 DEF RunMarksAvailable, remote, TypeInv, TypeOK
<1> QED BY <1>1, <1>2, <1>3, <1>4 DEF Operator

LEMMA EnvironmentType ==
  ASSUME TypeInv, Environment
  PROVE  TypeInv'
<1>1. CASE Start
  <2>1. PICK dry \in DryRuns : Forget("daemon", dry)
    BY <1>1 DEF Start
  <2>2. "daemon" \in Procs /\ dry \in BOOLEAN
    BY EnvironmentAssumption DEF Procs
  <2>3. pc' \in [Procs -> PCs] /\ job' \in [Procs -> Job] /\ Working'
    BY <1>1, <2>1, <2>2, IdleType, AssignType
       DEF Start, Forget, PCs, WorkingPoints, LockPoints
  <2> QED BY <1>1, <2>3 DEF Start, remote, TypeInv, TypeOK
<1>2. CASE \E p \in Procs : Crash(p)
  <2>1. PICK p \in Procs : Crash(p)
    BY <1>2
  <2>2. pc' \in [Procs -> PCs] /\ job' \in [Procs -> Job] /\ Working'
    BY <2>1, LeaveType DEF Crash
  <2>3. /\ reg' \in [Domains -> Holders] /\ late' \subseteq Domains
        /\ sent' \in [Domains -> Nat]
    <3>1. CASE UNCHANGED remote
      BY <3>1 DEF remote, TypeInv, TypeOK
    <3>2. CASE /\ pc[p] \in { "register", "registering" }
               /\ RegisterOutcome(job[p].d)
      <4>1. reg' \in [Domains -> Holders] /\ late' \subseteq Domains
        BY <3>2, RegisterOutcomeType
           DEF TypeInv, Working, WorkingPoints, LockPoints
      <4>2. sent' = sent \/ sent' = [sent EXCEPT ![job[p].d] = @ + 1]
        BY <2>1 DEF Crash, remote
      <4> QED BY <4>1, <4>2 DEF TypeInv, TypeOK
    <3> QED BY <2>1, <3>1, <3>2 DEF Crash
  <2> QED BY <2>1, <2>2, <2>3 DEF Crash, TypeInv, TypeOK
<1>3. CASE \E moved \in (SUBSET Domains) \ { {} } : Tick(moved)
  <2>1. PICK moved \in SUBSET Domains : Tick(moved)
    BY <1>3
  <2>2. phase' \in [Domains -> Phases]
    BY <2>1 DEF Tick, TypeInv, TypeOK, Phases
  <2> QED BY <2>1, <2>2 DEF Tick, remote, TypeInv, TypeOK, Working
<1>4. CASE \E d \in Domains : Drop(d) \/ Snipe(d)
  BY <1>4 DEF Drop, Snipe, TypeInv, TypeOK, Working, Holders
<1>5. CASE \E d \in Domains : LateRegister(d)
  BY <1>5, GrantType DEF LateRegister, TypeInv, TypeOK, Working
<1> QED BY <1>1, <1>2, <1>3, <1>4, <1>5 DEF Environment

-----------------------------------------------------------------------------
LEMMA InitType == Init => TypeInv
<1> SUFFICES ASSUME Init PROVE TypeInv
  OBVIOUS
<1>1. row \in [Domains -> Row]
  <2>1. 0 \in 0..MaxAttempts
    BY MaxAttemptsAssumption
  <2> QED BY <2>1 DEF Init, Row, DomainStatuses
<1>2. job \in [Procs -> Job]
  BY IdleType DEF Init
<1> QED BY <1>1, <1>2
        DEF Init, TypeInv, TypeOK, Phases, Holders, PCs, Working,
            WorkingPoints, LockPoints

LEMMA NextType == TypeInv /\ [Next]_vars => TypeInv'
<1> SUFFICES ASSUME TypeInv, [Next]_vars PROVE TypeInv'
  OBVIOUS
<1>1. CASE DaemonStep
  BY <1>1, ExpireDueWindowsType, SelectDueDomainType, NothingDueType,
     StartCheckType, RegisterPreviouslyAvailableType, ScheduleType,
     MarkAvailableType
     DEF DaemonStep
<1>2. CASE \E p \in Procs : Step(p)
  BY <1>2, RecoverType, SearchReplyType, SearchFailsType, CheckPriceType,
     MarkSimulatedType, LoadForRegisterType, CommitLockType,
     SendRegisterType, RegisterReplyType, RegisterTimesOutType,
     RegisterGarbledType, FinishRegistrationType,
     MarkPendingConfirmationType, ConfirmReplyType, FinishConfirmationType
     DEF Step
<1>3. CASE Operator
  BY <1>3, OperatorType
<1>4. CASE Environment
  BY <1>4, EnvironmentType
<1>5. CASE UNCHANGED vars
  BY <1>5 DEF vars, TypeInv, TypeOK, Working
<1> QED BY <1>1, <1>2, <1>3, <1>4, <1>5 DEF Next

\* Every variable keeps its type, whatever fails and whatever is entered.
THEOREM TypeCorrect == Spec => [](TypeOK /\ Working)
  BY InitType, NextType, PTL DEF Spec, TypeInv

-----------------------------------------------------------------------------
(* The registration lock.  Only CommitLock makes a row registering, and the *)
(* process that does so owns the row until its session has moved it on.     *)

\* A process moves only itself.
LEMMA StepOthers ==
  ASSUME TypeInv, NEW p \in Procs, Step(p), NEW q \in Procs, q # p
  PROVE  pc'[q] = pc[q] /\ job'[q] = job[q]
<1> USE DEF TypeInv, TypeOK, Goto, Forget, Return, Raise
<1>1. CASE Recover(p)
  BY <1>1 DEF Recover
<1>2. CASE SearchReply(p) \/ SearchFails(p)
  BY <1>2 DEF SearchReply, SearchFails
<1>3. CASE CheckPrice(p) \/ MarkSimulated(p)
  BY <1>3 DEF CheckPrice, MarkSimulated, Transition
<1>4. CASE LoadForRegister(p) \/ CommitLock(p) \/ SendRegister(p)
  BY <1>4 DEF LoadForRegister, CommitLock, SendRegister
<1>5. CASE RegisterReply(p) \/ RegisterTimesOut(p) \/ RegisterGarbled(p)
  BY <1>5 DEF RegisterReply, RegisterTimesOut, RegisterGarbled
<1>6. CASE FinishRegistration(p) \/ MarkPendingConfirmation(p)
  BY <1>6 DEF FinishRegistration, MarkPendingConfirmation, Transition
<1>7. CASE ConfirmReply(p) \/ FinishConfirmation(p)
  BY <1>7 DEF ConfirmReply, FinishConfirmation, ConfirmNext, Transition
<1> QED BY <1>1, <1>2, <1>3, <1>4, <1>5, <1>6, <1>7 DEF Step

LEMMA DaemonOthers ==
  ASSUME TypeInv, DaemonStep
  PROVE  /\ pc'["cli"] = pc["cli"] /\ job'["cli"] = job["cli"]
         /\ pc["daemon"] \notin LockPoints
  BY DEF DaemonStep, ExpireDueWindows, NothingDue, StartCheck, SelectDueDomain,
         RegisterPreviouslyAvailable, ScheduleNextCheck, ScheduleAfterFailure,
         MarkAvailable, Transition, Goto, Forget, Return, Raise, TypeInv, TypeOK,
         Procs, LockPoints

LEMMA OperatorOthers ==
  ASSUME TypeInv, Operator
  PROVE  /\ pc'["daemon"] = pc["daemon"] /\ job'["daemon"] = job["daemon"]
         /\ pc["cli"] \in LockPoints =>
              pc'["cli"] = pc["cli"] /\ job'["cli"] = job["cli"]
  BY DEF Operator, Pause, Resume, Run, RunMarksAvailable, Goto, TypeInv, TypeOK,
         Procs, LockPoints

\* Statuses that few actions give a row.
Earned == { "registering", "registered" }

\* The statuses the windows give are not among them.
LEMMA RealignStatus ==
  ASSUME TypeInv, NEW st \in Earned, NEW moved \in SUBSET Domains,
         NEW rolled \in Rollovers, Realign(moved, rolled),
         NEW d \in Domains, row'[d].status = st
  PROVE  row[d].status = st
<1>1. CASE d \in moved
  <2>1. row'[d].status = PhaseStatus(rolled[d])
    BY <1>1, RowType DEF Realign, Realigned, Row
  <2>2. rolled[d] \in Phases
    BY DEF Rollovers
  <2> QED BY <2>1, <2>2 DEF PhaseStatus, Phases, Earned
<1>2. CASE d \notin moved
  BY <1>2 DEF Realign
<1> QED BY <1>1, <1>2

\* What an assignment to a column leaves in the status.
LEMMA StatusFields ==
  ASSUME NEW r \in Row, NEW v
  PROVE  /\ [r EXCEPT !.status = v].status = v
         /\ [r EXCEPT !.next = v].status = r.status
         /\ [r EXCEPT !.price = v].status = r.status
         /\ [r EXCEPT !.simulated = v].status = r.status
  BY DEF Row

\* A transition gives a row its target, and no other row a new status.
LEMMA TransitionStatus ==
  ASSUME TypeInv, NEW st, NEW e, NEW target, target # st, NEW changed \in Row,
         row' = [row EXCEPT ![e] = [changed EXCEPT !.status = target]],
         NEW d \in Domains, row'[d].status = st
  PROVE  row[d].status = st
<1>1. [changed EXCEPT !.status = target].status = target
  BY StatusFields
<1> DEFINE r == [changed EXCEPT !.status = target]
<1>2. row' = [row EXCEPT ![e] = r] /\ r.status = target
  BY <1>1
<1> HIDE DEF r
<1>3. row'[d] = IF d = e THEN r ELSE row[d]
  BY <1>2 DEF TypeInv, TypeOK
<1> QED BY <1>2, <1>3

\* A raw assignment of the status and of next_check_at.
LEMMA RawStatus ==
  ASSUME TypeInv, NEW st, NEW e \in Domains, NEW s \in DomainStatuses, s # st,
         NEW n, row' = [row EXCEPT ![e].status = s, ![e].next = n],
         NEW d \in Domains, row'[d].status = st
  PROVE  row[d].status = st
<1>1. CASE d = e
  <2>1. row'[d] = [[row[d] EXCEPT !.status = s] EXCEPT !.next = n]
    BY <1>1, RowType DEF TypeInv, TypeOK
  <2>2. [row[d] EXCEPT !.status = s] \in Row
    BY RowType, RowFields
  <2>3. [row[d] EXCEPT !.status = s].status = s
    BY RowType, StatusFields
  <2> DEFINE a == [row[d] EXCEPT !.status = s]
  <2>4. a \in Row /\ a.status = s /\ row'[d] = [a EXCEPT !.next = n]
    BY <2>1, <2>2, <2>3
  <2> HIDE DEF a
  <2>5. [a EXCEPT !.next = n].status = a.status
    BY <2>4, StatusFields
  <2> QED BY <1>1, <2>4, <2>5
<1>2. CASE d # e
  BY <1>2 DEF TypeInv, TypeOK
<1> QED BY <1>1, <1>2

\* Only CommitLock makes a row registering, and only the two sessions that
\* record an outcome make it registered.
LEMMA StepStatus ==
  ASSUME TypeInv, NEW st \in Earned, NEW p \in Procs, Step(p), ~CommitLock(p),
         st = "registered" => ~FinishRegistration(p) /\ ~FinishConfirmation(p),
         NEW d \in Domains, row'[d].status = st
  PROVE  row[d].status = st
<1>0. row \in [Domains -> Row] /\ row[d] \in Row
  BY DEF TypeInv, TypeOK
<1>1. CASE Recover(p)
  <2>1. PICK moved \in SUBSET Domains, rolled \in Rollovers :
          Realign(moved, rolled) \/ Raise(p)
    BY <1>1 DEF Recover
  <2> QED BY <2>1, RealignStatus DEF Raise
<1>2. CASE SearchReply(p) \/ SearchFails(p)
  <2>1. CASE d = job[p].d
    <3>1. CASE SearchReply(p)
      <4>1. PICK price :
              row'[d] = [[row[d] EXCEPT !.simulated = FALSE] EXCEPT !.price = price]
        BY <1>0, <2>1, <3>1 DEF SearchReply
      <4>2. [row[d] EXCEPT !.simulated = FALSE] \in Row
        BY <1>0, RowFields
      <4> QED BY <1>0, <4>1, <4>2, StatusFields
    <3>2. CASE SearchFails(p)
      BY <1>0, <2>1, <3>2, StatusFields DEF SearchFails
    <3> QED BY <1>2, <3>1, <3>2
  <2>2. CASE d # job[p].d
    BY <1>0, <1>2, <2>2 DEF SearchReply, SearchFails
  <2> QED BY <2>1, <2>2
<1>3. CASE CheckPrice(p) \/ MarkSimulated(p)
  <2>1. CASE CheckPrice(p)
    <3> DEFINE r == [row[job[p].d] EXCEPT !.next = "none", !.simulated = FALSE]
    <3>1. \/ row' = row
          \/ row' = [row EXCEPT ![job[p].d] = [r EXCEPT !.status = "price_exceeded"]]
      BY <2>1 DEF CheckPrice, Transition, Raise
    <3>2. row[job[p].d] \in Row
      BY <2>1, RowType DEF CheckPrice, TypeInv, Working, WorkingPoints
    <3>3. r \in Row
      BY <3>2 DEF Row
    <3>4. "price_exceeded" # st
      BY DEF Earned
    <3>5. CASE row' = row
      BY <3>5
    <3>6. CASE row' = [row EXCEPT ![job[p].d] = [r EXCEPT !.status = "price_exceeded"]]
      <4> HIDE DEF r
      <4> QED BY <3>3, <3>4, <3>6, TransitionStatus
    <3> QED BY <3>1, <3>5, <3>6
  <2>2. CASE MarkSimulated(p)
    <3>2. CASE d = job[p].d
      <4>1. [row[d] EXCEPT !.status = "available"] \in Row
        BY <1>0, RowFields DEF DomainStatuses
      <4>2. [row[d] EXCEPT !.status = "available"].status = "available"
        BY <1>0, StatusFields
      <4> DEFINE a == [[row[d] EXCEPT !.status = "available"] EXCEPT !.next = "none"]
      <4>3. a \in Row /\ a.status = "available"
        BY <4>1, <4>2, RowFields, StatusFields
      <4>4. row'[d] = [a EXCEPT !.simulated = TRUE]
        BY <1>0, <2>2, <3>2 DEF MarkSimulated, Row
      <4> HIDE DEF a
      <4> QED BY <4>3, <4>4, StatusFields DEF Earned
    <3>3. CASE d # job[p].d
      BY <1>0, <2>2, <3>3 DEF MarkSimulated
    <3> QED BY <3>2, <3>3
  <2> QED BY <1>3, <2>1, <2>2
<1>4. CASE LoadForRegister(p) \/ SendRegister(p)
  BY <1>4 DEF LoadForRegister, SendRegister, Raise
<1>5. CASE RegisterReply(p) \/ RegisterTimesOut(p) \/ RegisterGarbled(p)
  BY <1>5 DEF RegisterReply, RegisterTimesOut, RegisterGarbled
<1>6. CASE FinishRegistration(p) \/ MarkPendingConfirmation(p)
  <2> DEFINE r == [row[job[p].d] EXCEPT !.simulated = FALSE]
             closed == [r EXCEPT !.next = "none"]
  <2>1. row[job[p].d] \in Row
    BY <1>6, RowType DEF FinishRegistration, MarkPendingConfirmation, TypeInv,
                         Working, WorkingPoints, LockPoints
  <2>2. r \in Row /\ closed \in Row
    BY <2>1, RowFields
  <2>3. \/ row' = row
        \/ \E changed \in { r, closed }, s \in DomainStatuses \ { st } :
             row' = [row EXCEPT ![job[p].d] = [changed EXCEPT !.status = s]]
    BY <1>6 DEF FinishRegistration, MarkPendingConfirmation, Transition, Raise,
                Earned, DomainStatuses
  <2> HIDE DEF r, closed
  <2>4. CASE row' = row
    BY <2>4
  <2>5. ASSUME NEW changed \in { r, closed },
               NEW s \in DomainStatuses \ { st },
               row' = [row EXCEPT ![job[p].d] = [changed EXCEPT !.status = s]]
        PROVE  row[d].status = st
    <3>1. changed \in Row /\ s # st
      BY <2>2, <2>5 DEF Earned
    <3> QED BY <2>5, <3>1, TransitionStatus
  <2> QED BY <2>3, <2>4, <2>5
<1>7. CASE ConfirmReply(p) \/ FinishConfirmation(p)
  <2>1. CASE d = job[p].d
    BY <1>0, <1>7, <2>1, ZenonT(60)
       DEF ConfirmReply, FinishConfirmation, Transition, Raise, Row, Earned
  <2>2. CASE d # job[p].d
    BY <1>0, <1>7, <2>2 DEF ConfirmReply, FinishConfirmation, Transition, Raise
  <2> QED BY <2>1, <2>2
<1> QED BY <1>1, <1>2, <1>3, <1>4, <1>5, <1>6, <1>7 DEF Step

LEMMA DaemonStatus ==
  ASSUME TypeInv, NEW st \in Earned, DaemonStep, NEW d \in Domains, row'[d].status = st
  PROVE  row[d].status = st
<1>0. row \in [Domains -> Row] /\ row[d] \in Row
  BY DEF TypeInv, TypeOK
<1>1. CASE ExpireDueWindows
  <2>1. PICK moved \in SUBSET Domains, rolled \in Rollovers :
          Realign(moved, rolled) \/ Raise("daemon")
    BY <1>1 DEF ExpireDueWindows
  <2> QED BY <2>1, RealignStatus DEF Raise
<1>2. CASE StartCheck
  <2>1. CASE \E rolled \in Rollovers : Realign({job["daemon"].d}, rolled)
    <3>1. job["daemon"].d \in Domains
      BY <1>2 DEF StartCheck, TypeInv, Working, WorkingPoints, Procs
    <3> QED BY <2>1, <3>1, RealignStatus
  <2>2. CASE \A rolled \in Rollovers : ~Realign({job["daemon"].d}, rolled)
    <3>1. CASE d = job["daemon"].d
      <4>1. row'[d] \in { row[d], [row[d] EXCEPT !.next = "start"],
                          [row[d] EXCEPT !.status = "watching"] }
        BY <1>0, <1>2, <2>2, <3>1 DEF StartCheck, Transition, Raise
      <4>2. /\ [row[d] EXCEPT !.next = "start"].status = row[d].status
            /\ [row[d] EXCEPT !.status = "watching"].status = "watching"
        BY <1>0, StatusFields
      <4>3. "watching" # st
        BY DEF Earned
      <4> QED BY <4>1, <4>2, <4>3
    <3>2. CASE d # job["daemon"].d
      BY <1>0, <1>2, <2>2, <3>2 DEF StartCheck, Transition, Raise
    <3> QED BY <3>1, <3>2
  <2> QED BY <2>1, <2>2
<1>3. CASE ScheduleNextCheck \/ ScheduleAfterFailure \/ MarkAvailable
  <2>1. CASE d = job["daemon"].d
    <3>1. CASE ScheduleNextCheck \/ ScheduleAfterFailure
      <4> DEFINE r == Rescheduled(d)
                 f == [r EXCEPT !.simulated = FALSE]
      <4>1. r \in Row /\ r.status = "watching"
        BY <1>0 DEF Rescheduled, Row, DomainStatuses
      <4>2. row'[d] \in { row[d], r, f }
        BY <1>0, <2>1, <3>1 DEF ScheduleNextCheck, ScheduleAfterFailure
      <4> HIDE DEF r
      <4>3. f.status = "watching"
        BY <4>1, StatusFields
      <4> HIDE DEF f
      <4>4. "watching" # st
        BY DEF Earned
      <4> QED BY <4>1, <4>2, <4>3, <4>4
    <3>2. CASE MarkAvailable
      <4> DEFINE s == IF row[d].status = "watching" THEN "available"
                      ELSE row[d].status
                 a == [[row[d] EXCEPT !.status = s] EXCEPT !.next = "none"]
      <4>1. s \in DomainStatuses
        BY <1>0 DEF Row, DomainStatuses
      <4>2. a \in Row /\ a.status = s
        <5>1. [row[d] EXCEPT !.status = s] \in Row
          BY <1>0, <4>1, RowFields
        <5>2. [row[d] EXCEPT !.status = s].status = s
          BY <1>0, StatusFields
        <5> HIDE DEF s
        <5> QED BY <5>1, <5>2, RowFields, StatusFields
      <4>3. PICK price : row'[d] = [a EXCEPT !.price = price]
        BY <1>0, <2>1, <3>2 DEF MarkAvailable, Row
      <4>4. row'[d].status = s
        BY <4>2, <4>3, StatusFields
      <4> QED BY <4>4 DEF Earned
    <3> QED BY <1>3, <3>1, <3>2
  <2>2. CASE d # job["daemon"].d
    BY <1>0, <1>3, <2>2
       DEF ScheduleNextCheck, ScheduleAfterFailure, MarkAvailable
  <2> QED BY <2>1, <2>2
<1>4. CASE \/ NothingDue \/ RegisterPreviouslyAvailable
           \/ \E e \in Domains : SelectDueDomain(e)
  BY <1>4 DEF NothingDue, RegisterPreviouslyAvailable, SelectDueDomain
<1> QED BY <1>1, <1>2, <1>3, <1>4 DEF DaemonStep

LEMMA OutsideStatus ==
  ASSUME TypeInv, NEW st \in Earned, Operator \/ Environment,
         NEW d \in Domains, row'[d].status = st
  PROVE  row[d].status = st
<1>0. row \in [Domains -> Row] /\ row[d] \in Row
  BY DEF TypeInv, TypeOK
<1>1. CASE Operator
  <2>1. job["cli"].d \in Domains \/ ~RunMarksAvailable
    BY DEF RunMarksAvailable, TypeInv, Working, WorkingPoints, Procs
  <2>2. PICK e \in Domains, s \in { "paused", "pending", "watching", "available" },
             n \in { "none", "soon" } :
          row' = [row EXCEPT ![e].status = s, ![e].next = n]
    BY <1>1, <2>1 DEF Operator, Pause, Resume, Run, RunMarksAvailable
  <2>3. s # st /\ s \in DomainStatuses
    BY DEF Earned, DomainStatuses
  <2> QED BY <2>2, <2>3, RawStatus
<1>2. CASE Environment
  BY <1>2 DEF Environment, Start, Crash, Tick, Drop, Snipe, LateRegister
<1> QED BY <1>1, <1>2

\* The process that takes the lock owns it.
LEMMA CommitOwns ==
  ASSUME TypeInv, NEW p \in Procs, CommitLock(p),
         NEW d \in Domains, row'[d].status = "registering"
  PROVE  \/ row[d].status = "registering"
         \/ pc'[p] \in LockPoints /\ job'[p].d = d
<1>0. /\ row \in [Domains -> Row] /\ row[d] \in Row
      /\ job[p].seen \in 0..MaxAttempts
  BY DEF TypeInv, TypeOK, Job
<1>1. CASE d # job[p].d
  BY <1>0, <1>1 DEF CommitLock
<1>2. CASE d = job[p].d /\ job[p].seen >= MaxAttempts
  BY <1>0, <1>2, MaxAttemptsAssumption DEF CommitLock, Row
<1>3. CASE d = job[p].d /\ ~(job[p].seen >= MaxAttempts)
  BY <1>3 DEF CommitLock, Goto, LockPoints, TypeInv, TypeOK
<1> QED BY <1>1, <1>2, <1>3

\* An owner keeps the lock or moves the row on.
LEMMA OwnerStep ==
  ASSUME TypeInv, NEW p \in Procs, Step(p), "garbled" \notin Faults,
         pc[p] \in LockPoints, row[job[p].d].status = "registering"
  PROVE  \/ pc'[p] \in LockPoints /\ job'[p].d = job[p].d
         \/ row'[job[p].d].status # "registering"
<1> DEFINE d == job[p].d
<1>0. d \in Domains /\ row \in [Domains -> Row] /\ row[d] \in Row
  BY DEF TypeInv, TypeOK, Working, WorkingPoints
<1>1. CASE SendRegister(p) \/ RegisterTimesOut(p) \/ RegisterReply(p)
  BY <1>1 DEF SendRegister, RegisterTimesOut, RegisterReply, Goto, LockPoints,
              TypeInv, TypeOK, Job
<1>2. CASE FinishRegistration(p) \/ MarkPendingConfirmation(p)
  <2>1. \A s \in { "registered", "watching", "error",
                   "registration_pending_confirmation" } :
          CanApply(row[d].status, s, {})
    BY DEF CanApply, ValidTransition, AllowedTransitions, DomainStatuses
  <2> QED BY <1>0, <1>2, <2>1, ZenonT(60)
          DEF FinishRegistration, MarkPendingConfirmation, Transition, Row
<1>3. CASE ~(\/ SendRegister(p) \/ RegisterTimesOut(p) \/ RegisterReply(p)
             \/ FinishRegistration(p) \/ MarkPendingConfirmation(p))
  BY <1>3 DEF Step, Recover, SearchReply, SearchFails, CheckPrice,
              MarkSimulated, LoadForRegister, CommitLock, RegisterGarbled,
              ConfirmReply, FinishConfirmation, LockPoints
<1> QED BY <1>1, <1>2, <1>3

\* No process with a lock is killed.
LEMMA EnvironmentOthers ==
  ASSUME TypeInv, Environment, CrashPoints \cap LockPoints = {},
         NEW q \in Procs, pc[q] \in LockPoints
  PROVE  pc'[q] = pc[q] /\ job'[q] = job[q]
  BY DEF Environment, Start, Crash, Tick, Drop, Snipe, LateRegister, Goto,
         Forget, LockPoints, TypeInv, TypeOK

LEMMA LockStep ==
  ASSUME TypeInv, LockHasOwner, [Next]_vars,
         "garbled" \notin Faults, CrashPoints \cap LockPoints = {}
  PROVE  LockHasOwner'
<1> SUFFICES ASSUME NEW d \in Domains, row'[d].status = "registering"
             PROVE  \E p \in Procs : pc'[p] \in LockPoints /\ job'[p].d = d
  BY DEF LockHasOwner
<1>1. CASE row[d].status = "registering"
  <2>1. PICK q \in Procs : pc[q] \in LockPoints /\ job[q].d = d
    BY <1>1 DEF LockHasOwner
  <2>2. CASE Step(q)
    BY <1>1, <2>1, <2>2, OwnerStep
  <2>3. ASSUME NEW p \in Procs, Step(p), p # q
        PROVE  pc'[q] = pc[q] /\ job'[q] = job[q]
    BY <2>3, StepOthers
  <2>4. CASE DaemonStep
    BY <2>1, <2>4, DaemonOthers DEF Procs
  <2>5. CASE Operator
    BY <2>1, <2>5, OperatorOthers DEF Procs
  <2>6. CASE Environment
    BY <2>1, <2>6, EnvironmentOthers
  <2>7. CASE UNCHANGED vars
    BY <2>1, <2>7 DEF vars
  <2> QED BY <2>1, <2>2, <2>3, <2>4, <2>5, <2>6, <2>7 DEF Next
<1>2. CASE row[d].status # "registering"
  <2>1. PICK p \in Procs : CommitLock(p)
    BY <1>2, StepStatus, DaemonStatus, OutsideStatus DEF Next, vars, Earned
  <2> QED BY <1>2, <2>1, CommitOwns
<1> QED BY <1>1, <1>2

\* The registration lock never outlives its holder, as long as no process is
\* killed while it holds it and every answer to Register can be read: for any
\* interleaving of the daemon with pause, resume and run.
THEOREM LockOwned ==
  ASSUME "garbled" \notin Faults, CrashPoints \cap LockPoints = {}
  PROVE  Spec => []LockHasOwner
<1>1. Init => LockHasOwner
  <2>1. ASSUME Init, NEW d \in Domains PROVE row[d].status # "registering"
    BY <2>1 DEF Init
  <2> QED BY <2>1 DEF LockHasOwner
<1>2. TypeInv /\ LockHasOwner /\ [Next]_vars => LockHasOwner'
  BY LockStep
<1> QED BY <1>1, <1>2, InitType, NextType, PTL DEF Spec

-----------------------------------------------------------------------------
(* A dry run: the flag is looked at one session before the lock, and no     *)
(* action changes it in between.                                            *)

\* From the decision to register to the end of the registration.
RegisterPoints == { "lock", "commit" } \cup LockPoints

\* DryRunSendsNothing is not inductive: a dry process that had decided to
\* register would go on to take the lock.
DryInv == TypeInv /\ \A p \in Procs : job[p].dry => pc[p] \notin RegisterPoints

\* The assignments to the other locals leave the flag.
LEMMA DryFields ==
  ASSUME NEW j \in Job, NEW v
  PROVE  /\ [j EXCEPT !.seen = v].dry = j.dry
         /\ [j EXCEPT !.answer = v].dry = j.dry
  BY DEF Job

\* A process comes to a registration only from handle_available, which has
\* seen that it is no dry run.
LEMMA DryStep ==
  ASSUME TypeInv, NEW p \in Procs, Step(p), pc'[p] \in RegisterPoints
  PROVE  /\ job'[p].dry = job[p].dry
         /\ pc[p] \in RegisterPoints \/ ~job[p].dry
<1> USE DEF TypeInv, TypeOK, Goto, Forget, Return, Raise, RegisterPoints, LockPoints
<1>0. job[p] \in Job /\ job \in [Procs -> Job]
  OBVIOUS
<1>1. CASE Recover(p) \/ SearchReply(p) \/ SearchFails(p)
  BY <1>1, ZenonT(60) DEF Recover, SearchReply, SearchFails
<1>2. CASE CheckPrice(p) \/ MarkSimulated(p)
  BY <1>2, ZenonT(60) DEF CheckPrice, MarkSimulated, Transition
<1>3. CASE LoadForRegister(p)
  <2>1. pc[p] = "lock"
    BY <1>3 DEF LoadForRegister
  <2>2. PICK n : job' = [job EXCEPT ![p].seen = n]
    BY <1>3 DEF LoadForRegister
  <2>3. job'[p] = [job[p] EXCEPT !.seen = n]
    BY <1>0, <2>2
  <2> QED BY <1>0, <2>1, <2>3, DryFields
<1>4. CASE CommitLock(p) \/ SendRegister(p) \/ RegisterTimesOut(p)
  BY <1>4, ZenonT(60) DEF CommitLock, SendRegister, RegisterTimesOut
<1>5. CASE RegisterReply(p)
  <2>1. pc[p] = "registering"
    BY <1>5 DEF RegisterReply
  <2>2. PICK answer : job' = [job EXCEPT ![p].answer = answer]
    BY <1>5 DEF RegisterReply
  <2>3. job'[p] = [job[p] EXCEPT !.answer = answer]
    BY <1>0, <2>2
  <2> QED BY <1>0, <2>1, <2>3, DryFields
<1>6. CASE RegisterGarbled(p) \/ FinishRegistration(p) \/ MarkPendingConfirmation(p)
  BY <1>6 DEF RegisterGarbled, FinishRegistration, MarkPendingConfirmation, Transition
<1>7. CASE ConfirmReply(p) \/ FinishConfirmation(p)
  BY <1>7 DEF ConfirmReply, FinishConfirmation, ConfirmNext, Transition
<1> QED BY <1>1, <1>2, <1>3, <1>4, <1>5, <1>6, <1>7 DEF Step

\* The scheduling, the commands and the environment leave a registration to
\* its process.
LEMMA DryOthers ==
  ASSUME TypeInv, DaemonStep \/ Operator \/ Environment, NEW p \in Procs,
         pc'[p] \in RegisterPoints
  PROVE  pc'[p] = pc[p] /\ job'[p] = job[p]
<1>1. CASE DaemonStep
  <2>1. pc'["daemon"] \notin RegisterPoints
    BY <1>1 DEF DaemonStep, ExpireDueWindows, NothingDue, StartCheck,
                SelectDueDomain, RegisterPreviouslyAvailable, ScheduleNextCheck,
                ScheduleAfterFailure, MarkAvailable, Transition, Goto, Return,
                Raise, TypeInv, TypeOK, Procs, RegisterPoints, LockPoints
  <2> QED BY <1>1, <2>1, DaemonOthers DEF Procs
<1>2. CASE Operator
  <2>1. pc'["cli"] \notin RegisterPoints \/ UNCHANGED << pc, job >>
    BY <1>2 DEF Operator, Pause, Resume, Run, RunMarksAvailable, Goto, TypeInv,
                TypeOK, Procs, RegisterPoints, LockPoints
  <2> QED BY <1>2, <2>1, OperatorOthers DEF Procs
<1>3. CASE Environment
  BY <1>3 DEF Environment, Start, Crash, Tick, Drop, Snipe, LateRegister, Goto,
              Forget, TypeInv, TypeOK, Procs, RegisterPoints, LockPoints
<1> QED BY <1>1, <1>2, <1>3

\* A process started with --dry-run never holds the lock nor sends a Register:
\* for any interleaving, command, fault, crash and restart.
THEOREM DryRunKept == Spec => []DryRunSendsNothing
<1>1. Init => DryInv
  <2> SUFFICES ASSUME Init PROVE DryInv
    OBVIOUS
  <2>1. \A p \in Procs : pc[p] \notin RegisterPoints
    BY DEF Init, RegisterPoints, LockPoints
  <2> QED BY <2>1, InitType DEF DryInv
<1>2. DryInv /\ [Next]_vars => DryInv'
  <2> SUFFICES ASSUME DryInv, [Next]_vars, NEW p \in Procs,
                      pc'[p] \in RegisterPoints, job'[p].dry
               PROVE  FALSE
    BY NextType DEF DryInv
  <2>0. TypeInv /\ (job[p].dry => pc[p] \notin RegisterPoints)
    BY DEF DryInv
  <2>1. CASE Step(p)
    BY <2>0, <2>1, DryStep
  <2>2. CASE \E q \in Procs : q # p /\ Step(q)
    BY <2>0, <2>2, StepOthers
  <2>3. CASE DaemonStep \/ Operator \/ Environment
    BY <2>0, <2>3, DryOthers
  <2>4. CASE UNCHANGED vars
    BY <2>0, <2>4 DEF vars
  <2> QED BY <2>1, <2>2, <2>3, <2>4 DEF Next
<1>3. DryInv => DryRunSendsNothing
  BY DEF DryInv, DryRunSendsNothing, RegisterPoints
<1> QED BY <1>1, <1>2, <1>3, PTL DEF Spec
=============================================================================

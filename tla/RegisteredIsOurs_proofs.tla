---------------------- MODULE RegisteredIsOurs_proofs -----------------------
(***************************************************************************)
(* A registered row is a name of the account: every registration that is   *)
(* recorded rests on an answer read before the session that records it,    *)
(* and neither the registry nor the other process makes the answer stale.  *)
(***************************************************************************)
EXTENDS DomainBot_proofs

\* Where a process holds an answer that it has not recorded yet.
AnswerPoints == { "finish", "confirmed" }

\* The answer says that the account holds the name.
Affirmed(p) ==
  \/ pc[p] = "finish" /\ job[p].answer = "success"
  \/ pc[p] = "confirmed" /\ job[p].answer = "registered"

\* An answer that affirms is true when it is recorded.
Evidence == \A p \in Procs : Affirmed(p) => reg[job[p].d] = "ours"

OursInv == TypeInv /\ Evidence /\ RegisteredIsOurs

-----------------------------------------------------------------------------
(* The account never loses a name. *)

LEMMA GrantKeepsOurs ==
  ASSUME TypeInv, NEW e \in Domains, Grant(e), NEW d \in Domains, reg[d] = "ours"
  PROVE  reg'[d] = "ours"
  BY DEF Grant, TypeInv, TypeOK

LEMMA OutcomeKeepsOurs ==
  ASSUME TypeInv, NEW e \in Domains, RegisterOutcome(e),
         NEW d \in Domains, reg[d] = "ours"
  PROVE  reg'[d] = "ours"
  BY GrantKeepsOurs DEF RegisterOutcome

LEMMA StepKeepsOurs ==
  ASSUME TypeInv, NEW p \in Procs, Step(p), NEW d \in Domains, reg[d] = "ours"
  PROVE  reg'[d] = "ours"
<1>1. CASE RegisterReply(p) \/ RegisterTimesOut(p) \/ RegisterGarbled(p)
  <2>1. job[p].d \in Domains
    BY <1>1 DEF RegisterReply, RegisterTimesOut, RegisterGarbled, TypeInv,
                Working, WorkingPoints, LockPoints
  <2> QED BY <1>1, <2>1, GrantKeepsOurs, OutcomeKeepsOurs
          DEF RegisterReply, RegisterTimesOut, RegisterGarbled
<1>2. CASE \/ Recover(p) \/ SearchReply(p) \/ SearchFails(p)
           \/ CheckPrice(p) \/ MarkSimulated(p)
           \/ LoadForRegister(p) \/ CommitLock(p) \/ SendRegister(p)
           \/ FinishRegistration(p) \/ MarkPendingConfirmation(p)
           \/ ConfirmReply(p) \/ FinishConfirmation(p)
  <2>1. reg' = reg
    BY <1>2 DEF Recover, SearchReply, SearchFails, CheckPrice, MarkSimulated,
         LoadForRegister, CommitLock, SendRegister, FinishRegistration,
         MarkPendingConfirmation, ConfirmReply, FinishConfirmation, Transition,
         Raise, remote
  <2> QED BY <2>1
<1> QED BY <1>1, <1>2 DEF Step

LEMMA DaemonReg == DaemonStep => reg' = reg
  BY DEF DaemonStep, ExpireDueWindows, NothingDue, StartCheck, SelectDueDomain,
         RegisterPreviouslyAvailable, ScheduleNextCheck, ScheduleAfterFailure,
         MarkAvailable, Transition, Raise, remote

LEMMA OperatorReg == Operator => reg' = reg
  BY DEF Operator, Pause, Resume, Run, RunMarksAvailable, remote

LEMMA EnvironmentKeepsOurs ==
  ASSUME TypeInv, Environment, NEW d \in Domains, reg[d] = "ours"
  PROVE  reg'[d] = "ours"
<1>1. CASE \E p \in Procs : Crash(p)
  <2>1. PICK p \in Procs : Crash(p)
    BY <1>1
  <2>2. CASE /\ pc[p] \in { "register", "registering" }
             /\ RegisterOutcome(job[p].d)
    <3>1. job[p].d \in Domains
      BY <2>2 DEF TypeInv, Working, WorkingPoints, LockPoints
    <3> QED BY <2>2, <3>1, OutcomeKeepsOurs
  <2>3. CASE UNCHANGED remote
    BY <2>3 DEF remote
  <2> QED BY <2>1, <2>2, <2>3 DEF Crash
<1>2. CASE \E e \in Domains : LateRegister(e)
  BY <1>2, GrantKeepsOurs DEF LateRegister
<1>3. CASE \E e \in Domains : Drop(e) \/ Snipe(e)
  BY <1>3 DEF Drop, Snipe, TypeInv, TypeOK
<1>4. CASE Start \/ \E moved \in SUBSET Domains : Tick(moved)
  BY <1>4 DEF Start, Tick, remote
<1> QED BY <1>1, <1>2, <1>3, <1>4 DEF Environment

LEMMA OursStays ==
  ASSUME TypeInv, [Next]_vars, NEW d \in Domains, reg[d] = "ours"
  PROVE  reg'[d] = "ours"
<1>1. CASE UNCHANGED vars
  BY <1>1 DEF vars
<1> QED BY <1>1, StepKeepsOurs, DaemonReg, OperatorReg, EnvironmentKeepsOurs DEF Next

-----------------------------------------------------------------------------
(* An affirming answer is true when it arrives, and its process does        *)
(* nothing but record it.                                                   *)

\* Without a reply that shows another name, only the name itself is found.
LEMMA VerdictIsTrue ==
  ASSUME "lookalike" \notin Faults, NEW replies \in [1..3 -> ReplyKinds],
         NEW owned \in BOOLEAN, ConfirmVerdict(replies, owned) = "registered"
  PROVE  owned
<1>1. \A i \in 1..3 : replies[i] # "lookalike"
  BY DEF ReplyKinds
<1>2. ASSUME ~owned
      PROVE  { i \in 1..3 : \/ replies[i] = "answer" /\ owned
                            \/ replies[i] = "lookalike" } = {}
  BY <1>1, <1>2
<1> QED BY <1>2 DEF ConfirmVerdict

LEMMA RegisterReplyAffirms ==
  ASSUME TypeInv, NEW p \in Procs, RegisterReply(p), Affirmed(p)'
  PROVE  reg'[job'[p].d] = "ours"
<1> DEFINE d == job[p].d
<1>1. d \in Domains /\ job[p] \in Job /\ job \in [Procs -> Job]
      /\ reg \in [Domains -> Holders]
  BY DEF RegisterReply, TypeInv, TypeOK, Working, WorkingPoints, LockPoints
<1>2. pc'[p] = "finish"
  BY DEF RegisterReply, Goto, TypeInv, TypeOK
<1>3. PICK answer \in { "success", "refused", "rejected" } :
        /\ job' = [job EXCEPT ![p].answer = answer]
        /\ answer = "success" => reg[d] = "free" /\ Grant(d)
  BY DEF RegisterReply
<1>4. job'[p].answer = answer /\ job'[p].d = d
  BY <1>1, <1>3 DEF Job
<1>5. answer = "success"
  BY <1>2, <1>4 DEF Affirmed
<1> QED BY <1>1, <1>3, <1>4, <1>5 DEF Grant

LEMMA ConfirmReplyAffirms ==
  ASSUME "lookalike" \notin Faults, TypeInv, NEW p \in Procs, ConfirmReply(p),
         Affirmed(p)'
  PROVE  reg'[job'[p].d] = "ours"
<1>1. /\ job[p] \in Job /\ job \in [Procs -> Job] /\ pc'[p] = "confirmed"
      /\ reg' = reg
  BY DEF ConfirmReply, Goto, TypeInv, TypeOK, remote
<1>2. PICK d \in job[p].todo, replies \in [1..3 -> ReplyKinds] :
        job' = [job EXCEPT ![p].d = d, ![p].todo = @ \ { d },
                  ![p].answer = ConfirmVerdict(replies, reg[d] = "ours")]
  BY DEF ConfirmReply
<1> DEFINE owned == reg[d] = "ours"
           verdict == ConfirmVerdict(replies, owned)
<1>3. job'[p].answer = verdict /\ job'[p].d = d
  <2> HIDE DEF verdict
  <2>1. job' = [job EXCEPT ![p].d = d, ![p].todo = @ \ { d }, ![p].answer = verdict]
    BY <1>2 DEF verdict
  <2> QED BY <1>1, <2>1 DEF Job
<1>4. verdict = "registered"
  BY <1>1, <1>3 DEF Affirmed
<1>5. owned
  BY <1>4, VerdictIsTrue
<1> QED BY <1>1, <1>3, <1>5

\* No other step of a process leaves it with an answer.
LEMMA StepWithoutAnswer ==
  ASSUME TypeInv, NEW p \in Procs, Step(p), ~RegisterReply(p), ~ConfirmReply(p)
  PROVE  pc'[p] \notin AnswerPoints
<1> USE DEF TypeInv, TypeOK, Goto, Forget, Return, Raise, AnswerPoints
<1>1. CASE Recover(p)
  BY <1>1 DEF Recover
<1>2. CASE SearchReply(p) \/ SearchFails(p)
  BY <1>2 DEF SearchReply, SearchFails
<1>3. CASE CheckPrice(p) \/ MarkSimulated(p)
  BY <1>3, ZenonT(60) DEF CheckPrice, MarkSimulated, Transition
<1>4. CASE LoadForRegister(p) \/ CommitLock(p) \/ SendRegister(p)
  BY <1>4 DEF LoadForRegister, CommitLock, SendRegister
<1>5. CASE RegisterTimesOut(p) \/ RegisterGarbled(p)
  BY <1>5 DEF RegisterTimesOut, RegisterGarbled
<1>6. CASE FinishRegistration(p) \/ MarkPendingConfirmation(p)
  BY <1>6 DEF FinishRegistration, MarkPendingConfirmation, Transition
<1>7. CASE FinishConfirmation(p)
  BY <1>7 DEF FinishConfirmation, ConfirmNext, Transition
<1> QED BY <1>1, <1>2, <1>3, <1>4, <1>5, <1>6, <1>7 DEF Step

\* Nor does any other action give a process one.
LEMMA OtherWithoutAnswer ==
  ASSUME TypeInv, DaemonStep \/ Operator \/ Environment, NEW p \in Procs
  PROVE  \/ pc'[p] \notin AnswerPoints
         \/ pc'[p] = pc[p] /\ job'[p] = job[p]
<1>1. CASE DaemonStep
  <2>1. pc'["daemon"] \notin AnswerPoints
    BY <1>1 DEF DaemonStep, ExpireDueWindows, NothingDue, StartCheck,
                SelectDueDomain, RegisterPreviouslyAvailable, ScheduleNextCheck,
                ScheduleAfterFailure, MarkAvailable, Transition, Goto, Return,
                Raise, TypeInv, TypeOK, Procs, AnswerPoints
  <2> QED BY <1>1, <2>1, DaemonOthers DEF Procs
<1>2. CASE Operator
  <2>1. \/ pc'["cli"] \notin AnswerPoints
        \/ pc'["cli"] = pc["cli"] /\ job'["cli"] = job["cli"]
    BY <1>2 DEF Operator, Pause, Resume, Run, RunMarksAvailable, Goto, TypeInv,
                TypeOK, Procs, AnswerPoints
  <2> QED BY <1>2, <2>1, OperatorOthers DEF Procs
<1>3. CASE Environment
  BY <1>3 DEF Environment, Start, Crash, Tick, Drop, Snipe, LateRegister, Goto,
              Forget, TypeInv, TypeOK, Procs, AnswerPoints
<1> QED BY <1>1, <1>2, <1>3

LEMMA EvidenceStep ==
  ASSUME "lookalike" \notin Faults, TypeInv, Evidence, [Next]_vars
  PROVE  Evidence'
<1> SUFFICES ASSUME NEW p \in Procs, Affirmed(p)'
             PROVE  reg'[job'[p].d] = "ours"
  BY DEF Evidence
<1>1. pc'[p] \in AnswerPoints
  BY DEF Affirmed, AnswerPoints
<1>2. CASE pc'[p] = pc[p] /\ job'[p] = job[p]
  <2>1. reg[job[p].d] = "ours" /\ job[p].d \in Domains
    BY <1>1, <1>2 DEF Affirmed, Evidence, AnswerPoints, TypeInv, Working,
                      WorkingPoints, LockPoints
  <2> QED BY <1>2, <2>1, OursStays
<1>3. CASE RegisterReply(p) \/ ConfirmReply(p)
  BY <1>3, RegisterReplyAffirms, ConfirmReplyAffirms
<1>4. CASE Step(p) /\ ~RegisterReply(p) /\ ~ConfirmReply(p)
  BY <1>1, <1>4, StepWithoutAnswer
<1>5. CASE \E q \in Procs : q # p /\ Step(q)
  BY <1>2, <1>5, StepOthers
<1>6. CASE DaemonStep \/ Operator \/ Environment
  BY <1>1, <1>2, <1>6, OtherWithoutAnswer
<1>7. CASE UNCHANGED vars
  BY <1>2, <1>7 DEF vars
<1> QED BY <1>3, <1>4, <1>5, <1>6, <1>7 DEF Next

-----------------------------------------------------------------------------
(* Only an affirming answer makes a row registered. *)

LEMMA CommitRegisters ==
  ASSUME TypeInv, NEW p \in Procs, CommitLock(p),
         NEW d \in Domains, row'[d].status = "registered"
  PROVE  row[d].status = "registered"
<1>0. row \in [Domains -> Row] /\ row[d] \in Row
  BY DEF TypeInv, TypeOK
<1>1. CASE d = job[p].d
  BY <1>0, <1>1 DEF CommitLock, Row
<1>2. CASE d # job[p].d
  BY <1>0, <1>2 DEF CommitLock
<1> QED BY <1>1, <1>2

LEMMA OutcomeRegisters ==
  ASSUME TypeInv, NEW p \in Procs, FinishRegistration(p) \/ FinishConfirmation(p),
         NEW d \in Domains, row'[d].status = "registered"
  PROVE  row[d].status = "registered" \/ (job[p].d = d /\ Affirmed(p))
<1>1. CASE Affirmed(p)
  <2>1. CASE d = job[p].d
    BY <1>1, <2>1
  <2>2. CASE d # job[p].d
    BY <2>2 DEF FinishRegistration, FinishConfirmation, Transition, Raise, TypeInv,
                TypeOK
  <2> QED BY <2>1, <2>2
<1>2. CASE ~Affirmed(p)
  <2> DEFINE e == job[p].d
             r == [row[e] EXCEPT !.simulated = FALSE]
             closed == [r EXCEPT !.next = "none"]
  <2>1. row[e] \in Row
    BY RowType DEF FinishRegistration, FinishConfirmation, TypeInv, Working,
                   WorkingPoints, LockPoints
  <2>2. r \in Row /\ closed \in Row
    BY <2>1, RowFields
  <2>3. \/ row' = row
        \/ \E changed \in { r, closed }, s \in DomainStatuses \ { "registered" } :
             row' = [row EXCEPT ![e] = [changed EXCEPT !.status = s]]
    BY <1>2 DEF FinishRegistration, FinishConfirmation, Affirmed, Transition,
                Raise, DomainStatuses
  <2> HIDE DEF r, closed, e
  <2>4. ASSUME NEW changed \in { r, closed },
               NEW s \in DomainStatuses \ { "registered" },
               row' = [row EXCEPT ![e] = [changed EXCEPT !.status = s]]
        PROVE  row[d].status = "registered"
    <3>1. changed \in Row /\ s # "registered"
      BY <2>2, <2>4
    <3> QED BY <2>4, <3>1, TransitionStatus
  <2> QED BY <2>3, <2>4
<1> QED BY <1>1, <1>2

LEMMA RegisteredStep ==
  ASSUME TypeInv, Evidence, RegisteredIsOurs, [Next]_vars
  PROVE  RegisteredIsOurs'
<1> SUFFICES ASSUME NEW d \in Domains, row'[d].status = "registered"
             PROVE  reg'[d] = "ours"
  BY DEF RegisteredIsOurs
<1>1. CASE row[d].status = "registered"
  BY <1>1, OursStays DEF RegisteredIsOurs
<1>2. CASE \E p \in Procs : FinishRegistration(p) \/ FinishConfirmation(p)
  BY <1>1, <1>2, OutcomeRegisters, OursStays DEF Evidence
<1>3. CASE \E p \in Procs : CommitLock(p)
  BY <1>1, <1>3, CommitRegisters
<1>4. CASE \E p \in Procs : /\ Step(p) /\ ~CommitLock(p)
                            /\ ~FinishRegistration(p) /\ ~FinishConfirmation(p)
  BY <1>1, <1>4, StepStatus DEF Earned
<1>5. CASE DaemonStep \/ Operator \/ Environment
  BY <1>1, <1>5, DaemonStatus, OutsideStatus DEF Earned
<1>6. CASE UNCHANGED vars
  BY <1>1, <1>6 DEF vars
<1> QED BY <1>2, <1>3, <1>4, <1>5, <1>6 DEF Next

\* A row is registered only if the account holds the name
\* (_finish_registration, _finish_confirmation): for any interleaving of the
\* daemon with the commands, any restart and any fault but a reply about
\* another name that contains the row's.
THEOREM RegisteredOwned ==
  ASSUME "lookalike" \notin Faults
  PROVE  Spec => []RegisteredIsOurs
<1>1. Init => OursInv
  <2> SUFFICES ASSUME Init PROVE OursInv
    OBVIOUS
  <2>1. TypeInv
    BY InitType
  <2>2. Evidence
    BY DEF Init, Evidence, Affirmed, Procs
  <2>3. ASSUME NEW d \in Domains PROVE row[d].status # "registered"
    BY DEF Init
  <2> QED BY <2>1, <2>2, <2>3 DEF OursInv, RegisteredIsOurs
<1>2. OursInv /\ [Next]_vars => OursInv'
  BY NextType, EvidenceStep, RegisteredStep DEF OursInv
<1>3. OursInv => RegisteredIsOurs
  BY DEF OursInv
<1> QED BY <1>1, <1>2, <1>3, PTL DEF Spec
=============================================================================

--------------------------- MODULE Purchase_proofs ---------------------------
(***************************************************************************)
(* What becomes of a purchase when the daemon works alone: the daemon never *)
(* forgets a name it bought, never buys one twice, and implements           *)
(* Acquisition.  The proof reads every step of the program as one of a few  *)
(* kinds of step on the statuses of the rows and the holders of the names:  *)
(* what they tell of the statuses holds whatever fails.                     *)
(***************************************************************************)
EXTENDS RegisteredIsOurs_proofs

\* Where the daemon is, and the row it works on.
At == pc["daemon"]
Current == job["daemon"].d
Status == [ d \in Domains |-> row[d].status ]

\* What the row the daemon works on may be at each point.
Awaited(point) ==
  CASE point = "start" -> ActiveMonitorStatuses \ { "available" }
    [] point \in { "search", "resched", "backoff", "mark" } -> { "watching" }
    [] point \in { "previous", "available", "lock", "commit" } -> { "available" }
    [] point \in LockPoints -> { "registering" }
    [] point = "confirmed" -> { "registration_pending_confirmation" }

\* No command is running.
Alone == pc["cli"] = "down"

\* The row has not moved since the daemon looked at it.
RowAwaits == At \in WorkingPoints => Status[Current] \in Awaited(At)

\* Only the row the daemon works on is registering.
OneLock ==
  \A d \in Domains : Status[d] = "registering" => At \in LockPoints /\ Current = d

\* What the daemon knows of a name it does not hold.
Denied ==
  \/ At \in { "register", "registering" }
  \/ At = "finish" /\ job["daemon"].answer # "success"
  \/ At = "confirmed" /\ job["daemon"].answer = "not_found"
Denial == Denied => reg[Current] # "ours"

\* The registrations to be confirmed are uncertain still.
ToConfirm ==
  At \in { "confirm", "confirmed" } =>
    \A d \in job["daemon"].todo :
      /\ Status[d] = "registration_pending_confirmation"
      /\ At = "confirmed" => d # Current

NothingLate == late = {}

\* What holds of the statuses whatever fails, and wherever the daemon is killed.
StatusInv ==
  /\ TypeInv
  /\ Alone
  /\ RowAwaits
  /\ ToConfirm

\* What holds as long as no lock is left behind.
LockInv == StatusInv /\ OneLock

\* What holds of the purchases if the environment leaves the daemon alone.
PurchaseInv ==
  /\ LockInv
  /\ Denial
  /\ NothingLate
  /\ NoForgottenPurchase

-----------------------------------------------------------------------------
(* The kinds of step. *)

\* Rows in these statuses may be moved by sessions that know nothing of
\* registrations; a row that was left registering, by recover.
OpenStatuses == DomainStatuses \ (OwnedStatuses \cup { "price_exceeded" })
LooseStatuses == OpenStatuses \cup { "registering" }

\* The row d becomes s, and the others keep their status.
OnlyBecomes(d, s) ==
  \A e \in Domains : Status'[e] = IF e = d THEN s ELSE Status[e]

\* Loose rows may move, and the others keep their status.
OpenMoves ==
  \A d \in Domains :
    \/ Status'[d] = Status[d]
    \/ /\ Status[d] \in LooseStatuses
       /\ Status'[d] \in OpenStatuses \cup { "price_exceeded" }

\* Recovery, scheduling, searches, restarts, and registrations that end
\* before the lock is taken.
Browse ==
  /\ At \notin LockPoints
  /\ At' \notin LockPoints \cup { "confirmed" }
  /\ OpenMoves
  /\ At' \in WorkingPoints => Status'[Current'] \in Awaited(At')
  /\ At' = "confirm" => job'["daemon"].todo = Uncertain
  /\ UNCHANGED << reg, late >>

TakeLock ==
  /\ At = "commit" /\ At' = "register"
  /\ Current' = Current
  /\ OnlyBecomes(Current, "registering")
  /\ UNCHANGED << reg, late >>

Sending ==
  /\ At = "register" /\ At' = "registering"
  /\ UNCHANGED << row, reg, late, job >>

Answered ==
  /\ At = "registering" /\ At' \in { "finish", "uncertain" }
  /\ Current' = Current
  /\ UNCHANGED reg \/ Grant(Current)
  /\ reg[Current] # "ours" /\ At' = "finish" /\ job'["daemon"].answer # "success"
       => reg'[Current] # "ours"
  /\ "late" \notin Faults => UNCHANGED late
  /\ UNCHANGED row

\* The status a registration is recorded with.
Recorded ==
  /\ At = "finish" /\ At' = "loop"
  /\ \E s \in { "registered", "watching", "error" } :
       /\ s = "registered" <=> job["daemon"].answer = "success"
       /\ OnlyBecomes(Current, s)
  /\ UNCHANGED << reg, late >>

Doubted ==
  /\ At = "uncertain" /\ At' = "confirm"
  /\ job'["daemon"].todo = { Current }
  /\ OnlyBecomes(Current, "registration_pending_confirmation")
  /\ UNCHANGED << reg, late >>

Asked ==
  /\ At = "confirm" /\ At' = "confirmed"
  /\ Current' \in job["daemon"].todo
  /\ job'["daemon"].todo = job["daemon"].todo \ { Current' }
  /\ "refusal" \notin Faults /\ job'["daemon"].answer = "not_found"
       => reg[Current'] # "ours"
  /\ UNCHANGED << row, reg, late >>

Concluded ==
  /\ At = "confirmed" /\ At' \in { "confirm", "loop" }
  /\ At' = "confirm" => job'["daemon"].todo = job["daemon"].todo
  /\ \E s \in { "registered", "watching", "registration_pending_confirmation" } :
       /\ s = "registered" => job["daemon"].answer = "registered"
       /\ s = "watching" => job["daemon"].answer = "not_found"
       /\ OnlyBecomes(Current, s)
  /\ UNCHANGED << reg, late >>

Traded ==
  /\ \E d \in Domains :
       /\ reg[d] # "ours"
       /\ reg' = [reg EXCEPT ![d] = IF @ = "free" THEN "other" ELSE "free"]
  /\ UNCHANGED << row, late, pc, job >>

\* The daemon ends and leaves the lock on its row.
Killed ==
  /\ At \in LockPoints /\ At' \in { "down", "failed" }
  /\ At \in CrashPoints \/ (At = "registering" /\ "garbled" \in Faults)
  /\ "late" \notin Faults => UNCHANGED late
  /\ UNCHANGED row

\* A request that was given up is processed.
Belated == late # {} /\ UNCHANGED << row, pc, job >>

\* Only time passes.
Still == UNCHANGED << row, reg, late, pc, job >>

Kinds ==
  \/ Browse \/ TakeLock \/ Sending \/ Answered \/ Recorded
  \/ Doubted \/ Asked \/ Concluded \/ Killed \/ Traded \/ Belated \/ Still

-----------------------------------------------------------------------------
(* What the helpers of the actions do to the status of the rows and to the  *)
(* place of the daemon.                                                     *)

LEMMA TransitionBecomes ==
  ASSUME TypeInv, NEW e \in Domains, NEW changed \in Row, NEW s,
         row' = [row EXCEPT ![e] = [changed EXCEPT !.status = s]]
  PROVE  OnlyBecomes(e, s)
<1> DEFINE r == [changed EXCEPT !.status = s]
<1>1. r.status = s
  BY StatusFields
<1>2. row' = [row EXCEPT ![e] = r]
  OBVIOUS
<1> HIDE DEF r
<1> QED BY <1>1, <1>2 DEF OnlyBecomes, Status, TypeInv, TypeOK

\* A row replaced by one of the same status.
LEMMA SameStatus ==
  ASSUME TypeInv, NEW e, NEW r, r.status = row[e].status, row' = [row EXCEPT ![e] = r]
  PROVE  OpenMoves
  BY DEF OpenMoves, Status, TypeInv, TypeOK

\* A row that was open and becomes so, or too expensive.
LEMMA OpenBecomes ==
  ASSUME TypeInv, NEW e \in Domains, Status[e] \in OpenStatuses,
         NEW s \in OpenStatuses \cup { "price_exceeded" }, OnlyBecomes(e, s)
  PROVE  OpenMoves
  BY DEF OpenMoves, OnlyBecomes, LooseStatuses

LEMMA RealignMoves ==
  ASSUME TypeInv, NEW moved \in SUBSET Domains, NEW rolled \in Rollovers,
         Realign(moved, rolled),
         \A d \in moved : Status[d] \in LooseStatuses
  PROVE  OpenMoves
<1> SUFFICES ASSUME NEW d \in Domains
             PROVE  \/ Status'[d] = Status[d]
                    \/ Status[d] \in LooseStatuses /\ Status'[d] \in OpenStatuses
  BY DEF OpenMoves
<1>1. CASE d \in moved
  <2>1. rolled[d] \in Phases
    BY DEF Rollovers
  <2>2. Status'[d] = PhaseStatus(rolled[d])
    BY <1>1, RowType DEF Realign, Realigned, Row, Status
  <2> QED BY <1>1, <2>1, <2>2
          DEF PhaseStatus, Phases, OpenStatuses, DomainStatuses, OwnedStatuses
<1>2. CASE d \notin moved
  BY <1>2 DEF Realign, Status
<1> QED BY <1>1, <1>2

\* The daemon goes to a point outside registrations and confirmations.
LEMMA BrowseTo ==
  ASSUME TypeInv, NEW point \in PCs, Goto("daemon", point),
         At \notin LockPoints, point \notin LockPoints \cup { "confirm", "confirmed" },
         OpenMoves, UNCHANGED remote,
         point \in WorkingPoints => Status'[Current'] \in Awaited(point)
  PROVE  Browse
  BY DEF Browse, Goto, remote, TypeInv, TypeOK, At, Procs

LEMMA BrowseToLoop ==
  ASSUME TypeInv, Return("daemon"), At \notin LockPoints, OpenMoves, UNCHANGED remote
  PROVE  Browse
  BY BrowseTo DEF Return, PCs, LockPoints, WorkingPoints

LEMMA RaiseBrowses ==
  ASSUME TypeInv, Raise("daemon"), At \notin LockPoints
  PROVE  Browse
<1>1. OpenMoves
  BY DEF Raise, OpenMoves, Status
<1> QED BY <1>1, BrowseTo DEF Raise, PCs, LockPoints, WorkingPoints

-----------------------------------------------------------------------------
(* The daemon's scheduling. *)

LEMMA AwaitedAt ==
  /\ Awaited("start") = ActiveMonitorStatuses \ { "available" }
  /\ \A point \in { "search", "resched", "backoff", "mark" } :
       Awaited(point) = { "watching" }
  /\ \A point \in { "previous", "available", "lock", "commit" } :
       Awaited(point) = { "available" }
  /\ \A point \in LockPoints : Awaited(point) = { "registering" }
  /\ Awaited("confirmed") = { "registration_pending_confirmation" }
<1> USE DEF Awaited, LockPoints
<1>1. Awaited("start") = ActiveMonitorStatuses \ { "available" }
  OBVIOUS
<1>2. \A point \in { "search", "resched", "backoff", "mark" } :
        Awaited(point) = { "watching" }
  OBVIOUS
<1>3. \A point \in { "previous", "available", "lock", "commit" } :
        Awaited(point) = { "available" }
  OBVIOUS
<1>4. \A point \in LockPoints : Awaited(point) = { "registering" }
  OBVIOUS
<1>5. Awaited("confirmed") = { "registration_pending_confirmation" }
  OBVIOUS
<1> QED BY <1>1, <1>2, <1>3, <1>4, <1>5

\* Where the daemon works, there is a row, in one of the awaited statuses.
LEMMA WorkingRow ==
  ASSUME StatusInv, At \in WorkingPoints
  PROVE  /\ Current \in Domains /\ row[Current] \in Row
         /\ Status[Current] = row[Current].status
         /\ Status[Current] \in Awaited(At)
  BY DEF StatusInv, TypeInv, TypeOK, Working, RowAwaits, At, Current, Status, Procs

LEMMA RecoverBrowses ==
  ASSUME StatusInv, Recover("daemon")
  PROVE  Browse
<1> DEFINE aligned == { d \in Domains : ~RecoverSkips(d) }
<1>0. TypeInv /\ At = "recover" /\ At \notin LockPoints
  BY DEF StatusInv, Recover, At, LockPoints
<1>1. CASE Raise("daemon")
  BY <1>0, <1>1, RaiseBrowses
<1>2. CASE ~Raise("daemon")
  <2>1. PICK rolled \in Rollovers :
        /\ Realign(aligned, rolled) /\ UNCHANGED remote
        /\ \/ Return("daemon")
           \/ /\ Goto("daemon", "confirm")
              /\ job' = [job EXCEPT !["daemon"].todo = Uncertain]
    BY <1>2 DEF Recover
  <2>2. \A d \in aligned : Status[d] \in LooseStatuses
    <3>1. \A d \in Domains : Status[d] = row[d].status
      BY DEF Status
    <3> QED BY <1>0, <3>1, RowType
            DEF RecoverSkips, Uncertain, LooseStatuses, OpenStatuses, OwnedStatuses, Row
  <2>3. OpenMoves
    BY <1>0, <2>1, <2>2, RealignMoves
  <2>4. CASE Return("daemon")
    BY <1>0, <2>1, <2>3, <2>4, BrowseToLoop
  <2>5. CASE /\ Goto("daemon", "confirm")
             /\ job' = [job EXCEPT !["daemon"].todo = Uncertain]
    BY <1>0, <2>1, <2>3, <2>5
       DEF Browse, Goto, At, remote, LockPoints, WorkingPoints, TypeInv, TypeOK,
           Procs, Job
  <2> QED BY <2>1, <2>4, <2>5
<1> QED BY <1>1, <1>2

LEMMA ExpireBrowses ==
  ASSUME StatusInv, ExpireDueWindows
  PROVE  Browse
<1> DEFINE due == { d \in Domains : /\ phase[d] = "over"
                                    /\ row[d].status \in ActiveMonitorStatuses
                                    /\ row[d].status # "available" }
<1>0. TypeInv /\ At = "loop" /\ At \notin LockPoints
  BY DEF StatusInv, ExpireDueWindows, At, LockPoints
<1>1. CASE Raise("daemon")
  BY <1>0, <1>1, RaiseBrowses
<1>2. CASE ~Raise("daemon")
  <2>1. PICK rolled \in Rollovers :
          /\ Realign(due, rolled)
          /\ Goto("daemon", "select") /\ UNCHANGED << remote, job >>
    BY <1>2 DEF ExpireDueWindows
  <2>2. \A d \in due : Status[d] \in LooseStatuses
    BY DEF Status, ActiveMonitorStatuses, LooseStatuses, OpenStatuses, OwnedStatuses,
           DomainStatuses
  <2>3. OpenMoves
    BY <1>0, <2>1, <2>2, RealignMoves
  <2> QED BY <1>0, <2>1, <2>3, BrowseTo DEF PCs, LockPoints, WorkingPoints
<1> QED BY <1>1, <1>2

\* Selecting a row, and finding that there is none, changes no row.
LEMMA SelectBrowses ==
  ASSUME StatusInv, NothingDue \/ \E d \in Domains : SelectDueDomain(d)
  PROVE  Browse
<1>0. TypeInv /\ At = "select" /\ At \notin LockPoints
  BY DEF StatusInv, NothingDue, SelectDueDomain, At, LockPoints
<1>1. OpenMoves /\ UNCHANGED << row, remote >>
  BY DEF NothingDue, SelectDueDomain, OpenMoves, Status
<1>2. CASE NothingDue
  BY <1>0, <1>1, <1>2, BrowseTo DEF NothingDue, PCs, LockPoints, WorkingPoints
<1>3. ASSUME NEW d \in Domains, SelectDueDomain(d) PROVE Browse
  <2> DEFINE point == IF row[d].status = "available" THEN "previous" ELSE "start"
  <2>1. Goto("daemon", point) /\ job' = [job EXCEPT !["daemon"].d = d]
    BY <1>3 DEF SelectDueDomain
  <2>2. Current' = d
    BY <1>0, <2>1 DEF Current, TypeInv, TypeOK, Procs, Job
  <2>3. Status'[d] = row[d].status /\ row[d].status \in ActiveMonitorStatuses
    BY <1>1, <1>3 DEF Status, SelectDueDomain, MayBeDue
  <2>4. Status'[Current'] \in Awaited(point)
    BY <2>2, <2>3, AwaitedAt
  <2> QED BY <1>0, <1>1, <2>1, <2>4, BrowseTo DEF PCs, LockPoints
<1> QED BY <1>2, <1>3

LEMMA StartCheckBrowses ==
  ASSUME StatusInv, StartCheck
  PROVE  Browse
<1> DEFINE d == job["daemon"].d
<1>0. TypeInv /\ At = "start" /\ At \notin LockPoints /\ At \in WorkingPoints
  BY DEF StatusInv, StartCheck, At, LockPoints, WorkingPoints
<1>1. d \in Domains /\ row[d] \in Row /\ Status[d] \in OpenStatuses
  BY <1>0, WorkingRow, AwaitedAt DEF At, Current, ActiveMonitorStatuses, OpenStatuses,
                          OwnedStatuses, DomainStatuses
<1>2. CASE Raise("daemon")
  BY <1>0, <1>2, RaiseBrowses
<1>3. CASE Return("daemon") /\ UNCHANGED << row, phase, remote >>
  <2>1. OpenMoves
    BY <1>3 DEF OpenMoves, Status
  <2> QED BY <1>0, <1>3, <2>1, BrowseToLoop
<1>4. CASE /\ row' = [row EXCEPT ![d].next = "start"]
           /\ Return("daemon")
           /\ UNCHANGED << phase, remote >>
  <2> DEFINE r == [row[d] EXCEPT !.next = "start"]
  <2>1. r.status = row[d].status /\ row' = [row EXCEPT ![d] = r]
    BY <1>1, <1>4, StatusFields
  <2> HIDE DEF r
  <2>2. OpenMoves
    BY <1>0, <2>1, SameStatus
  <2> QED BY <1>0, <1>4, <2>2, BrowseToLoop
<1>5. ASSUME NEW rolled \in Rollovers, Realign({d}, rolled),
             Return("daemon"), UNCHANGED remote
      PROVE  Browse
  <2>1. OpenMoves
    BY <1>0, <1>1, <1>5, RealignMoves DEF LooseStatuses
  <2> QED BY <1>0, <1>5, <2>1, BrowseToLoop
<1>6. CASE /\ row' = [row EXCEPT ![d] = [row[d] EXCEPT !.status = "watching"]]
           /\ Goto("daemon", "search") /\ UNCHANGED job
           /\ UNCHANGED << phase, remote >>
  <2>1. OnlyBecomes(d, "watching")
    BY <1>0, <1>1, <1>6, TransitionBecomes
  <2>2. OpenMoves
    BY <1>0, <1>1, <2>1, OpenBecomes DEF OpenStatuses, DomainStatuses, OwnedStatuses
  <2>3. Status'[Current'] \in Awaited("search")
    BY <1>1, <1>6, <2>1, AwaitedAt DEF OnlyBecomes, Current
  <2>4. UNCHANGED remote /\ Goto("daemon", "search")
    BY <1>6
  <2>5. "search" \in PCs /\ "search" \notin LockPoints \cup { "confirm", "confirmed" }
    BY DEF PCs, LockPoints
  <2> QED BY <1>0, <2>2, <2>3, <2>4, <2>5, BrowseTo
<1> QED BY <1>2, <1>3, <1>4, <1>5, <1>6 DEF StartCheck, Transition

LEMMA PreviouslyBrowses ==
  ASSUME StatusInv, RegisterPreviouslyAvailable
  PROVE  Browse
<1>0. TypeInv /\ At = "previous" /\ At \notin LockPoints /\ At \in WorkingPoints
  BY DEF StatusInv, RegisterPreviouslyAvailable, At, LockPoints, WorkingPoints
<1>1. OpenMoves /\ Status' = Status
  BY DEF RegisterPreviouslyAvailable, OpenMoves, Status
<1>2. Current' = Current
  BY <1>0 DEF RegisterPreviouslyAvailable, Current, TypeInv, TypeOK, Procs, Job
<1>3. Status'[Current'] \in Awaited("available")
  BY <1>0, <1>1, <1>2, WorkingRow, AwaitedAt
<1>4. Goto("daemon", "available") /\ UNCHANGED remote
  BY DEF RegisterPreviouslyAvailable
<1>5. "available" \in PCs /\ "available" \notin LockPoints \cup { "confirm", "confirmed" }
  BY DEF PCs, LockPoints
<1> QED BY <1>0, <1>1, <1>3, <1>4, <1>5, BrowseTo

LEMMA ScheduleBrowses ==
  ASSUME StatusInv, ScheduleNextCheck \/ ScheduleAfterFailure
  PROVE  Browse
<1> DEFINE d == job["daemon"].d
           r == Rescheduled(d)
           f == [r EXCEPT !.simulated = FALSE]
<1>0. /\ TypeInv /\ At \in { "resched", "backoff" } /\ At \notin LockPoints
      /\ At \in WorkingPoints
  BY DEF StatusInv, ScheduleNextCheck, ScheduleAfterFailure, At, LockPoints,
         WorkingPoints
<1>1. d \in Domains /\ row[d] \in Row /\ row[d].status = "watching"
  BY <1>0, WorkingRow, AwaitedAt DEF Current
<1>2. r \in Row /\ r.status = "watching"
  BY <1>1 DEF Rescheduled, Row, DomainStatuses
<1>3. row' = [row EXCEPT ![d] = r] \/ row' = [row EXCEPT ![d] = f]
  BY <1>1 DEF ScheduleNextCheck, ScheduleAfterFailure, SkipStatuses
<1> HIDE DEF r
<1>4. f.status = "watching"
  BY <1>2, StatusFields
<1> HIDE DEF f
<1>5. OpenMoves
  BY <1>0, <1>1, <1>2, <1>3, <1>4, SameStatus
<1>6. Return("daemon") /\ UNCHANGED remote
  BY DEF ScheduleNextCheck, ScheduleAfterFailure
<1> QED BY <1>0, <1>5, <1>6, BrowseToLoop

LEMMA MarkBrowses ==
  ASSUME StatusInv, MarkAvailable
  PROVE  Browse
<1> DEFINE d == job["daemon"].d
           a == [[row[d] EXCEPT !.status = "available"] EXCEPT !.next = "none"]
<1>0. TypeInv /\ At = "mark" /\ At \notin LockPoints /\ At \in WorkingPoints
  BY DEF StatusInv, MarkAvailable, At, LockPoints, WorkingPoints
<1>1. /\ d \in Domains /\ row[d] \in Row /\ row[d].status = "watching"
      /\ Status[d] = row[d].status
  BY <1>0, WorkingRow, AwaitedAt DEF Current
<1>2. a \in Row /\ a.status = "available"
  <2>1. [row[d] EXCEPT !.status = "available"] \in Row
    BY <1>1, RowFields DEF DomainStatuses
  <2>2. [row[d] EXCEPT !.status = "available"].status = "available"
    BY <1>1, StatusFields
  <2> DEFINE b == [row[d] EXCEPT !.status = "available"]
  <2>3. b \in Row /\ b.status = "available" /\ a = [b EXCEPT !.next = "none"]
    BY <2>1, <2>2
  <2> HIDE DEF a, b
  <2> QED BY <2>3, RowFields, StatusFields
<1>3. PICK price : row' = [row EXCEPT ![d] = [a EXCEPT !.price = price]]
  BY <1>0, <1>1 DEF MarkAvailable, TypeInv, TypeOK, Row
<1> DEFINE r == [a EXCEPT !.price = price]
<1>4. r.status = "available" /\ row' = [row EXCEPT ![d] = r]
  BY <1>2, <1>3, StatusFields
<1> HIDE DEF a, r
<1>5. OnlyBecomes(d, "available")
  BY <1>0, <1>4 DEF OnlyBecomes, Status, TypeInv, TypeOK
<1>6. OpenMoves
  BY <1>0, <1>1, <1>5, OpenBecomes DEF OpenStatuses, DomainStatuses, OwnedStatuses
<1>7. Status'[Current'] \in Awaited("available")
  BY <1>1, <1>5, AwaitedAt DEF OnlyBecomes, Current, MarkAvailable
<1>8. Goto("daemon", "available") /\ UNCHANGED remote
  BY DEF MarkAvailable
<1>9. "available" \in PCs /\ "available" \notin LockPoints \cup { "confirm", "confirmed" }
  BY DEF PCs, LockPoints
<1> QED BY <1>0, <1>6, <1>7, <1>8, <1>9, BrowseTo

LEMMA SearchBrowses ==
  ASSUME StatusInv, SearchReply("daemon") \/ SearchFails("daemon")
  PROVE  Browse
<1> DEFINE d == job["daemon"].d
<1>0. TypeInv /\ At = "search" /\ At \notin LockPoints /\ At \in WorkingPoints
  BY DEF StatusInv, SearchReply, SearchFails, At, LockPoints, WorkingPoints
<1>1. d \in Domains /\ row[d] \in Row /\ row[d].status = "watching"
  BY <1>0, WorkingRow, AwaitedAt DEF Current
<1>2. PICK r : r.status = row[d].status /\ row' = [row EXCEPT ![d] = r]
  <2>1. CASE SearchReply("daemon")
    <3> DEFINE a == [row[d] EXCEPT !.simulated = FALSE]
    <3>1. a \in Row /\ a.status = row[d].status
      BY <1>1, RowFields, StatusFields
    <3>2. PICK price : row' = [row EXCEPT ![d] = [a EXCEPT !.price = price]]
      BY <1>0, <1>1, <2>1, ZenonT(60) DEF SearchReply, TypeInv, TypeOK, Row
    <3>3. [a EXCEPT !.price = price].status = row[d].status
      BY <3>1, StatusFields
    <3> QED BY <3>2, <3>3
  <2>2. CASE SearchFails("daemon")
    <3>1. PICK recorded \in BOOLEAN :
            row' = [row EXCEPT ![d] = [row[d] EXCEPT !.simulated = @ /\ ~recorded]]
      BY <2>2 DEF SearchFails
    <3> QED BY <1>1, <3>1, StatusFields
  <2> QED BY <2>1, <2>2
<1>3. OpenMoves /\ Status'[d] = "watching"
  BY <1>0, <1>1, <1>2, SameStatus DEF Status, TypeInv, TypeOK
<1>4. /\ UNCHANGED remote
      /\ \/ Goto("daemon", "mark") /\ Current' = d
         \/ Goto("daemon", "resched") /\ Current' = d
         \/ Goto("daemon", "backoff") /\ Current' = d
         \/ Return("daemon")
  <2>1. CASE SearchReply("daemon")
    <3>1. \A quote : job' = [job EXCEPT !["daemon"].quote = quote] => Current' = d
      BY <1>0 DEF Current, TypeInv, TypeOK, Job, Procs
    <3>2. UNCHANGED job => Current' = d
      BY DEF Current
    <3> QED BY <2>1, <3>1, <3>2 DEF SearchReply
  <2>2. CASE SearchFails("daemon")
    BY <2>2 DEF SearchFails, Current
  <2> QED BY <2>1, <2>2
<1>5. ASSUME NEW point \in { "mark", "resched", "backoff" },
             Goto("daemon", point), Current' = d
      PROVE  Browse
  <2>1. point \in PCs /\ point \notin LockPoints \cup { "confirm", "confirmed" }
    BY DEF PCs, LockPoints
  <2>2. Status'[Current'] \in Awaited(point)
    BY <1>3, <1>5, AwaitedAt
  <2> QED BY <1>0, <1>3, <1>4, <1>5, <2>1, <2>2, BrowseTo
<1> QED BY <1>0, <1>3, <1>4, <1>5, BrowseToLoop

-----------------------------------------------------------------------------
(* The registration service, before the request is sent. *)

LEMMA CheckPriceBrowses ==
  ASSUME StatusInv, CheckPrice("daemon")
  PROVE  Browse
<1> DEFINE d == job["daemon"].d
           r == [[row[d] EXCEPT !.next = "none"] EXCEPT !.simulated = FALSE]
<1>0. TypeInv /\ At = "available" /\ At \notin LockPoints /\ At \in WorkingPoints
  BY DEF StatusInv, CheckPrice, At, LockPoints, WorkingPoints
<1>1. d \in Domains /\ row[d] \in Row /\ Status[d] = "available"
  BY <1>0, WorkingRow, AwaitedAt DEF Current
<1>2. CASE Raise("daemon")
  BY <1>0, <1>2, RaiseBrowses
<1>3. CASE /\ row' = [row EXCEPT ![d] = [r EXCEPT !.status = "price_exceeded"]]
           /\ Return("daemon")
           /\ UNCHANGED << phase, remote >>
  <2>1. r \in Row
    BY <1>1, RowFields
  <2> HIDE DEF r
  <2>2. OnlyBecomes(d, "price_exceeded")
    BY <1>0, <1>1, <1>3, <2>1, TransitionBecomes
  <2>3. OpenMoves
    BY <1>0, <1>1, <2>2, OpenBecomes DEF OpenStatuses, DomainStatuses, OwnedStatuses
  <2> QED BY <1>0, <1>3, <2>3, BrowseToLoop
<1>4. CASE Goto("daemon", "lock") /\ UNCHANGED << row, phase, remote, job >>
  <2>1. OpenMoves /\ Status'[Current'] \in Awaited("lock")
    BY <1>1, <1>4, AwaitedAt DEF OpenMoves, Status, Current
  <2>2. "lock" \in PCs /\ "lock" \notin LockPoints \cup { "confirm", "confirmed" }
    BY DEF PCs, LockPoints
  <2>3. UNCHANGED remote
    BY <1>4
  <2> QED BY <1>0, <1>4, <2>1, <2>2, <2>3, BrowseTo
<1> QED BY <1>2, <1>3, <1>4 DEF CheckPrice, Transition

LEMMA SimulatedBrowses ==
  ASSUME StatusInv, MarkSimulated("daemon")
  PROVE  Browse
<1> DEFINE d == job["daemon"].d
           a == [row[d] EXCEPT !.status = "available"]
           b == [a EXCEPT !.next = "none"]
           r == [b EXCEPT !.simulated = TRUE]
<1>0. TypeInv /\ At = "available" /\ At \notin LockPoints /\ At \in WorkingPoints
  BY DEF StatusInv, MarkSimulated, At, LockPoints, WorkingPoints
<1>1. d \in Domains /\ row[d] \in Row /\ row[d].status = "available"
  BY <1>0, WorkingRow, AwaitedAt DEF Current
<1>2. row' = [row EXCEPT ![d] = r]
  BY <1>0, <1>1 DEF MarkSimulated, TypeInv, TypeOK, Row
<1>3. a \in Row /\ a.status = "available"
  BY <1>1, RowFields, StatusFields DEF DomainStatuses
<1> HIDE DEF a
<1>4. b \in Row /\ b.status = "available"
  BY <1>3, RowFields, StatusFields
<1> HIDE DEF b
<1>5. r.status = "available"
  BY <1>4, StatusFields
<1> HIDE DEF r
<1>6. OpenMoves
  BY <1>0, <1>1, <1>2, <1>5, SameStatus
<1> QED BY <1>0, <1>6, BrowseToLoop DEF MarkSimulated

LEMMA LoadBrowses ==
  ASSUME StatusInv, LoadForRegister("daemon")
  PROVE  Browse
<1> DEFINE d == job["daemon"].d
<1>0. TypeInv /\ At = "lock" /\ At \notin LockPoints /\ At \in WorkingPoints
  BY DEF StatusInv, LoadForRegister, At, LockPoints, WorkingPoints
<1>1. d \in Domains /\ row[d] \in Row /\ Status[d] = "available"
  BY <1>0, WorkingRow, AwaitedAt DEF Current
<1>2. CASE Raise("daemon")
  BY <1>0, <1>2, RaiseBrowses
<1>3. CASE Return("daemon") /\ UNCHANGED << row, phase, remote >>
  <2>1. OpenMoves
    BY <1>3 DEF OpenMoves, Status
  <2> QED BY <1>0, <1>3, <2>1, BrowseToLoop
<1>4. CASE /\ Goto("daemon", "commit")
           /\ job' = [job EXCEPT !["daemon"].seen = row[d].attempts]
           /\ UNCHANGED << row, phase, remote >>
  <2>1. Current' = d
    BY <1>0, <1>4 DEF Current, TypeInv, TypeOK, Job, Procs
  <2>2. OpenMoves /\ Status'[Current'] \in Awaited("commit")
    BY <1>1, <1>4, <2>1, AwaitedAt DEF OpenMoves, Status
  <2>3. "commit" \in PCs /\ "commit" \notin LockPoints \cup { "confirm", "confirmed" }
    BY DEF PCs, LockPoints
  <2>4. UNCHANGED remote
    BY <1>4
  <2> QED BY <1>0, <1>4, <2>2, <2>3, <2>4, BrowseTo
<1> QED BY <1>2, <1>3, <1>4 DEF LoadForRegister

\* The lock is taken, unless no attempts are left.
LEMMA CommitLocks ==
  ASSUME StatusInv, CommitLock("daemon")
  PROVE  Browse \/ TakeLock
<1> DEFINE d == job["daemon"].d
<1>0. /\ TypeInv /\ At = "commit" /\ At \notin LockPoints /\ At \in WorkingPoints
      /\ UNCHANGED remote
  BY DEF StatusInv, CommitLock, At, LockPoints, WorkingPoints
<1>1. d \in Domains /\ row[d] \in Row /\ Status[d] = "available"
  BY <1>0, WorkingRow, AwaitedAt DEF Current
<1>2. CASE /\ row' = [row EXCEPT ![d].status = "error", ![d].simulated = FALSE]
           /\ Return("daemon")
  <2>1. row' = [row EXCEPT ![d] =
                  [[row[d] EXCEPT !.simulated = FALSE] EXCEPT !.status = "error"]]
    BY <1>0, <1>1, <1>2 DEF TypeInv, TypeOK, Row
  <2>2. [row[d] EXCEPT !.simulated = FALSE] \in Row
    BY <1>1, RowFields
  <2>3. OnlyBecomes(d, "error")
    BY <1>0, <1>1, <2>1, <2>2, TransitionBecomes
  <2>4. OpenMoves
    BY <1>0, <1>1, <2>3, OpenBecomes DEF OpenStatuses, DomainStatuses, OwnedStatuses
  <2> QED BY <1>0, <1>2, <2>4, BrowseToLoop
<1>3. CASE /\ row' = [row EXCEPT ![d].status = "registering",
                                 ![d].attempts = job["daemon"].seen + 1]
           /\ job["daemon"].seen < MaxAttempts
           /\ Goto("daemon", "register")
           /\ UNCHANGED job
  <2> DEFINE a == [row[d] EXCEPT !.attempts = job["daemon"].seen + 1]
  <2>1. row' = [row EXCEPT ![d] = [a EXCEPT !.status = "registering"]]
    BY <1>0, <1>1, <1>3 DEF TypeInv, TypeOK, Row
  <2>2. a \in Row
    <3>1. job["daemon"].seen + 1 \in 0..MaxAttempts
      BY <1>0, <1>3, MaxAttemptsAssumption DEF TypeInv, TypeOK, Job, Procs
    <3> QED BY <1>1, <3>1, RowFields
  <2> HIDE DEF a
  <2>3. OnlyBecomes(d, "registering")
    BY <1>0, <1>1, <2>1, <2>2, TransitionBecomes
  <2> QED BY <1>0, <1>3, <2>3
          DEF TakeLock, Goto, At, Current, remote, TypeInv, TypeOK, Procs
<1> QED BY <1>2, <1>3 DEF CommitLock

-----------------------------------------------------------------------------
(* The request and its outcome. *)

LEMMA SendIsSending ==
  ASSUME StatusInv, SendRegister("daemon")
  PROVE  Sending
  BY DEF SendRegister, Sending, Goto, At, StatusInv, TypeInv, TypeOK, Procs

LEMMA ReplyAnswers ==
  ASSUME StatusInv, RegisterReply("daemon")
  PROVE  Answered
<1> DEFINE d == job["daemon"].d
<1>0. /\ TypeInv /\ At = "registering" /\ d \in Domains
      /\ UNCHANGED << row, late >>
  BY DEF StatusInv, RegisterReply, TypeInv, Working, WorkingPoints, LockPoints,
         At, Procs
<1>1. At' = "finish"
  BY <1>0 DEF RegisterReply, Goto, At, TypeInv, TypeOK, Procs
<1>2. PICK answer :
        /\ job' = [job EXCEPT !["daemon"].answer = answer]
        /\ \/ answer = "success" /\ Grant(d)
           \/ answer # "success" /\ UNCHANGED reg
  BY DEF RegisterReply
<1>3. Current' = d /\ job'["daemon"].answer = answer
  BY <1>0, <1>2 DEF Current, TypeInv, TypeOK, Job, Procs
<1> QED BY <1>0, <1>1, <1>2, <1>3 DEF Answered, Current

LEMMA TimeoutAnswers ==
  ASSUME StatusInv, RegisterTimesOut("daemon")
  PROVE  Answered
<1>1. At = "registering" /\ At' = "uncertain"
  BY DEF RegisterTimesOut, Goto, At, StatusInv, TypeInv, TypeOK, Procs
<1>2. Current' = Current /\ UNCHANGED row
  BY DEF RegisterTimesOut, Current
<1>3. /\ UNCHANGED reg \/ Grant(Current)
      /\ "late" \notin Faults => UNCHANGED late
  BY DEF RegisterTimesOut, RegisterOutcome, Current
<1> QED BY <1>1, <1>2, <1>3 DEF Answered

\* The lock holder's transitions are all allowed.
LEMMA LockedTransitions ==
  \A s \in { "registered", "watching", "error", "registration_pending_confirmation" } :
    CanApply("registering", s, {})
  BY DEF CanApply, ValidTransition, AllowedTransitions, DomainStatuses

\* A reply that cannot be read ends the daemon.
LEMMA GarbledKills ==
  ASSUME StatusInv, RegisterGarbled("daemon")
  PROVE  Killed
<1>1. /\ At = "registering" /\ At \in LockPoints /\ At' = "failed"
      /\ "garbled" \in Faults /\ UNCHANGED row
  BY DEF RegisterGarbled, LockPoints, Goto, At, StatusInv, TypeInv, TypeOK, Procs
<1>2. "late" \notin Faults => UNCHANGED late
  BY DEF RegisterGarbled, RegisterOutcome
<1> QED BY <1>1, <1>2 DEF Killed

LEMMA FinishRecords ==
  ASSUME StatusInv, FinishRegistration("daemon")
  PROVE  Recorded
<1> DEFINE d == job["daemon"].d
           r == [row[d] EXCEPT !.simulated = FALSE]
           closed == [r EXCEPT !.next = "none"]
<1>0. TypeInv /\ At = "finish" /\ At \in WorkingPoints /\ At \in LockPoints
  BY DEF StatusInv, FinishRegistration, At, LockPoints, WorkingPoints
<1>1. d \in Domains /\ row[d] \in Row /\ row[d].status = "registering"
  BY <1>0, WorkingRow, AwaitedAt DEF Current
<1>2. r \in Row /\ closed \in Row
  BY <1>1, RowFields
<1>3. PICK s \in { "registered", "watching", "error" }, changed \in { r, closed } :
        /\ s = "registered" <=> job["daemon"].answer = "success"
        /\ Transition("daemon", s, changed, Return("daemon"))
  BY DEF FinishRegistration
<1> HIDE DEF r, closed
<1>4. /\ row' = [row EXCEPT ![d] = [changed EXCEPT !.status = s]]
      /\ Return("daemon") /\ UNCHANGED remote
  BY <1>1, <1>3, LockedTransitions DEF Transition
<1>5. OnlyBecomes(d, s)
  BY <1>0, <1>1, <1>2, <1>4, TransitionBecomes
<1>6. At' = "loop"
  BY <1>0, <1>4 DEF Return, Goto, At, TypeInv, TypeOK, Procs
<1> QED BY <1>0, <1>3, <1>4, <1>5, <1>6 DEF Recorded, Current, remote

LEMMA PendingDoubts ==
  ASSUME StatusInv, MarkPendingConfirmation("daemon")
  PROVE  Doubted
<1> DEFINE d == job["daemon"].d
           r == [row[d] EXCEPT !.simulated = FALSE]
           s == "registration_pending_confirmation"
<1>0. TypeInv /\ At = "uncertain" /\ At \in WorkingPoints /\ At \in LockPoints
  BY DEF StatusInv, MarkPendingConfirmation, At, LockPoints, WorkingPoints
<1>1. d \in Domains /\ row[d] \in Row /\ row[d].status = "registering"
  BY <1>0, WorkingRow, AwaitedAt DEF Current
<1>2. r \in Row
  BY <1>1, RowFields
<1>3. /\ row' = [row EXCEPT ![d] = [r EXCEPT !.status = s]]
      /\ Goto("daemon", "confirm") /\ job' = [job EXCEPT !["daemon"].todo = { d }]
      /\ UNCHANGED remote
  BY <1>1, LockedTransitions DEF MarkPendingConfirmation, Transition
<1> HIDE DEF r
<1>4. OnlyBecomes(d, s)
  BY <1>0, <1>1, <1>2, <1>3, TransitionBecomes
<1>5. At' = "confirm" /\ job'["daemon"].todo = { d }
  BY <1>0, <1>3 DEF Goto, At, TypeInv, TypeOK, Procs, Job
<1> QED BY <1>0, <1>3, <1>4, <1>5 DEF Doubted, Current, remote

-----------------------------------------------------------------------------
(* The confirmation. *)

\* Without a reply that is an error, a name that is held is not "not found".
LEMMA DenialIsTrue ==
  ASSUME "refusal" \notin Faults, NEW replies \in [1..3 -> ReplyKinds],
         NEW owned \in BOOLEAN, ConfirmVerdict(replies, owned) = "not_found"
  PROVE  ~owned
<1> SUFFICES ASSUME owned PROVE FALSE
  OBVIOUS
<1> DEFINE found == { i \in 1..3 : \/ replies[i] = "answer" /\ owned
                                   \/ replies[i] = "lookalike" }
           broken == { i \in 1..3 : replies[i] = "neterr" }
<1>1. /\ broken = {} /\ ~ \A i \in 1..3 : replies[i] = "garbage"
      /\ ~ \E i \in found : \A j \in broken : i < j
  BY DEF ConfirmVerdict
<1>2. PICK i \in 1..3 : replies[i] # "garbage"
  BY <1>1
<1>3. replies[i] \in { "answer", "lookalike" }
  BY <1>1, <1>2 DEF ReplyKinds
<1> QED BY <1>1, <1>3

LEMMA ReplyAsks ==
  ASSUME StatusInv, ConfirmReply("daemon")
  PROVE  Asked
<1>0. /\ TypeInv /\ At = "confirm" /\ At' = "confirmed"
      /\ UNCHANGED << row, reg, late >>
  BY DEF StatusInv, ConfirmReply, Goto, At, TypeInv, TypeOK, Procs, remote
<1>1. PICK d \in job["daemon"].todo, replies \in [1..3 -> ReplyKinds] :
        job' = [job EXCEPT !["daemon"].d = d, !["daemon"].todo = @ \ { d },
                  !["daemon"].answer = ConfirmVerdict(replies, reg[d] = "ours")]
  BY DEF ConfirmReply
<1> DEFINE owned == reg[d] = "ours"
           verdict == ConfirmVerdict(replies, owned)
<1>2. /\ Current' = d /\ job'["daemon"].todo = job["daemon"].todo \ { d }
      /\ job'["daemon"].answer = verdict
  <2> HIDE DEF verdict
  <2>1. job' = [job EXCEPT !["daemon"].d = d, !["daemon"].todo = @ \ { d },
                           !["daemon"].answer = verdict]
    BY <1>1 DEF verdict
  <2> QED BY <1>0, <2>1 DEF Current, TypeInv, TypeOK, Job, Procs
<1>3. "refusal" \notin Faults /\ verdict = "not_found" => reg[d] # "ours"
  BY DenialIsTrue
<1> QED BY <1>0, <1>2, <1>3 DEF Asked

LEMMA FinishConcludes ==
  ASSUME StatusInv, FinishConfirmation("daemon")
  PROVE  Concluded
<1> DEFINE d == job["daemon"].d
           r == [row[d] EXCEPT !.simulated = FALSE]
           closed == [r EXCEPT !.next = "none"]
           pending == "registration_pending_confirmation"
<1>0. TypeInv /\ At = "confirmed" /\ At \in WorkingPoints
  BY DEF StatusInv, FinishConfirmation, At, WorkingPoints
<1>1. d \in Domains /\ row[d] \in Row /\ row[d].status = pending
  BY <1>0, WorkingRow, AwaitedAt DEF Current
<1>2. r \in Row /\ closed \in Row
  BY <1>1, RowFields
<1>3. CanApply(pending, "registered", {}) /\ CanApply(pending, "watching", {})
  BY DEF CanApply, ValidTransition, AllowedTransitions, DomainStatuses
<1>4. PICK s \in { "registered", "watching", pending }, changed \in { r, closed } :
        /\ s = "registered" => job["daemon"].answer = "registered"
        /\ s = "watching" => job["daemon"].answer = "not_found"
        /\ row' = [row EXCEPT ![d] = [changed EXCEPT !.status = s]]
        /\ ConfirmNext("daemon")
        /\ UNCHANGED remote
  BY <1>1, <1>3 DEF FinishConfirmation, Transition
<1> HIDE DEF r, closed
<1>5. OnlyBecomes(d, s)
  BY <1>0, <1>1, <1>2, <1>4, TransitionBecomes
<1>6. /\ At' \in { "confirm", "loop" }
      /\ At' = "confirm" => job'["daemon"].todo = job["daemon"].todo
  BY <1>0, <1>4 DEF ConfirmNext, Return, Goto, At, TypeInv, TypeOK, Procs
<1> QED BY <1>0, <1>4, <1>5, <1>6 DEF Concluded, Current, remote

-----------------------------------------------------------------------------
(* The environment, and every step. *)

\* No lock is left behind: a reply to Register can be read, and no process is
\* killed while it holds a lock.
LocksKept == "garbled" \notin Faults /\ CrashPoints \cap LockPoints = {}

\* An environment the daemon is made for: it works alone and leaves no lock
\* behind, and requests are processed when they are sent or never.
Undisturbed ==
  /\ Commands = {}
  /\ LocksKept
  /\ Faults \cap { "refusal", "late" } = {}

LEMMA EnvironmentKinds ==
  ASSUME StatusInv, Environment
  PROVE  Kinds
<1>0. TypeInv /\ pc["cli"] = "down" /\ "daemon" \in Procs
  BY DEF StatusInv, Alone, Procs
<1>1. ASSUME NEW point \in { "recover", "down" }, Goto("daemon", point),
             At \notin LockPoints, UNCHANGED << row, remote >>
      PROVE  Browse
  <2>1. OpenMoves
    BY <1>1 DEF OpenMoves, Status
  <2>2. /\ point \in PCs /\ point \notin LockPoints \cup { "confirm", "confirmed" }
        /\ point \notin WorkingPoints
    BY DEF PCs, LockPoints, WorkingPoints
  <2>3. UNCHANGED remote
    BY <1>1
  <2> QED BY <1>0, <1>1, <2>1, <2>2, <2>3, BrowseTo
<1>2. CASE Start
  <2>1. Goto("daemon", "recover") /\ At \notin LockPoints /\ UNCHANGED << row, remote >>
    BY <1>2 DEF Start, At, LockPoints
  <2> QED BY <1>1, <2>1 DEF Kinds
<1>3. CASE \E p \in Procs : Crash(p)
  <2>1. Crash("daemon") /\ At \in CrashPoints
    BY <1>0, <1>3, EnvironmentAssumption DEF Crash, Procs, At
  <2>2. Goto("daemon", "down") /\ UNCHANGED row
    BY <2>1 DEF Crash
  <2>3. CASE At \in LockPoints
    <3>1. At' = "down"
      BY <1>0, <2>2 DEF Goto, At, TypeInv, TypeOK
    <3>2. "late" \notin Faults => UNCHANGED late
      BY <2>1 DEF Crash, RegisterOutcome, remote
    <3> QED BY <2>1, <2>2, <2>3, <3>1, <3>2 DEF Killed, Kinds
  <2>4. CASE At \notin LockPoints
    <3>1. UNCHANGED remote
      BY <2>1, <2>4 DEF Crash, At, LockPoints
    <3> QED BY <1>1, <2>2, <2>4, <3>1 DEF Kinds
  <2> QED BY <2>3, <2>4
<1>4. CASE \E moved \in (SUBSET Domains) \ { {} } : Tick(moved)
  BY <1>4 DEF Tick, remote, Still, Kinds
<1>5. CASE \E d \in Domains : Drop(d) \/ Snipe(d)
  <2>1. PICK d \in Domains : Drop(d) \/ Snipe(d)
    BY <1>5
  <2>2. /\ reg[d] # "ours"
        /\ reg' = [reg EXCEPT ![d] = IF @ = "free" THEN "other" ELSE "free"]
        /\ UNCHANGED << row, late, pc, job >>
    BY <2>1 DEF Drop, Snipe
  <2> QED BY <2>2 DEF Traded, Kinds
<1>6. CASE \E d \in Domains : LateRegister(d)
  BY <1>6 DEF LateRegister, Belated, Kinds
<1> QED BY <1>2, <1>3, <1>4, <1>5, <1>6 DEF Environment

\* Every step of the daemon that works alone is of one of the kinds.
LEMMA StepKinds ==
  ASSUME StatusInv, Commands = {}, [Next]_vars
  PROVE  Kinds
<1>0. pc["cli"] = "down"
  BY DEF StatusInv, Alone
<1>1. CASE DaemonStep
  BY <1>1, ExpireBrowses, SelectBrowses, StartCheckBrowses, PreviouslyBrowses,
     ScheduleBrowses, MarkBrowses
     DEF DaemonStep, Kinds
<1>2. CASE Step("daemon")
  BY <1>2, RecoverBrowses, SearchBrowses, CheckPriceBrowses,
     SimulatedBrowses, LoadBrowses, CommitLocks, SendIsSending, ReplyAnswers,
     TimeoutAnswers, GarbledKills, FinishRecords, PendingDoubts, ReplyAsks,
     FinishConcludes
     DEF Step, Kinds
<1>3. ~Step("cli")
  BY <1>0 DEF Step, Recover, SearchReply, SearchFails, CheckPrice, MarkSimulated,
              LoadForRegister, CommitLock, SendRegister, RegisterReply,
              RegisterTimesOut, RegisterGarbled, FinishRegistration,
              MarkPendingConfirmation, ConfirmReply, FinishConfirmation
<1>4. ~Operator
  BY <1>0 DEF Operator, Pause, Resume, Run, RunMarksAvailable
<1>5. CASE Environment
  BY <1>5, EnvironmentKinds
<1>6. CASE UNCHANGED vars
  BY <1>6 DEF vars, Still, Kinds
<1> QED BY <1>1, <1>2, <1>3, <1>4, <1>5, <1>6 DEF Next, Procs

\* The kinds of step that an undisturbed daemon does not see.
LEMMA UndisturbedKinds ==
  ASSUME NothingLate, Undisturbed
  PROVE  /\ ~Killed /\ ~Belated
         /\ "refusal" \notin Faults /\ "late" \notin Faults
  BY DEF NothingLate, Undisturbed, LocksKept, Killed, Belated

-----------------------------------------------------------------------------
(* The invariants. *)

LEMMA AloneStep ==
  ASSUME StatusInv, Commands = {}, [Next]_vars
  PROVE  Alone'
<1>0. TypeInv /\ pc["cli"] = "down"
  BY DEF StatusInv, Alone
<1>1. CASE DaemonStep
  BY <1>0, <1>1, DaemonOthers DEF Alone
<1>2. CASE Step("daemon")
  BY <1>0, <1>2, StepOthers DEF Alone, Procs
<1>3. ~Step("cli")
  BY <1>0 DEF Step, Recover, SearchReply, SearchFails, CheckPrice, MarkSimulated,
              LoadForRegister, CommitLock, SendRegister, RegisterReply,
              RegisterTimesOut, RegisterGarbled, FinishRegistration,
              MarkPendingConfirmation, ConfirmReply, FinishConfirmation
<1>4. ~Operator
  BY <1>0 DEF Operator, Pause, Resume, Run, RunMarksAvailable
<1>5. CASE Environment
  BY <1>0, <1>5 DEF Environment, Start, Crash, Tick, Drop, Snipe, LateRegister,
                    Goto, TypeInv, TypeOK, Procs, Alone
<1>6. CASE UNCHANGED vars
  BY <1>0, <1>6 DEF vars, Alone
<1> QED BY <1>1, <1>2, <1>3, <1>4, <1>5, <1>6 DEF Next, Procs

LEMMA RowAwaitsStep ==
  ASSUME StatusInv, Kinds
  PROVE  RowAwaits'
<1> SUFFICES ASSUME At' \in WorkingPoints
             PROVE  Status'[Current'] \in Awaited(At')
  BY DEF RowAwaits
<1>1. CASE Browse
  BY <1>1 DEF Browse
<1>2. CASE TakeLock
  <2>1. Current \in Domains
    BY <1>2, WorkingRow DEF TakeLock, WorkingPoints
  <2> QED BY <1>2, <2>1, AwaitedAt DEF TakeLock, OnlyBecomes, LockPoints
<1>3. CASE Sending \/ Answered
  <2>1. Status[Current] \in { "registering" } /\ At' \in LockPoints
    BY <1>3, WorkingRow, AwaitedAt DEF Sending, Answered, WorkingPoints, LockPoints
  <2>2. Current' = Current /\ Status' = Status
    BY <1>3 DEF Sending, Answered, Current, Status
  <2> QED BY <2>1, <2>2, AwaitedAt
<1>4. CASE Recorded \/ Doubted \/ Concluded
  BY <1>4 DEF Recorded, Doubted, Concluded, WorkingPoints, LockPoints
<1>5. CASE Asked
  BY <1>5, AwaitedAt DEF Asked, StatusInv, ToConfirm, Status
<1>6. CASE Traded \/ Belated \/ Still
  <2>1. /\ Current' = Current /\ Status' = Status /\ At' = At
        /\ Awaited(At)' = Awaited(At)
    BY <1>6 DEF Traded, Belated, Still, Current, Status, At
  <2> QED BY <2>1 DEF StatusInv, RowAwaits
<1>7. CASE Killed
  BY <1>7 DEF Killed, WorkingPoints, LockPoints
<1> QED BY <1>1, <1>2, <1>3, <1>4, <1>5, <1>6, <1>7 DEF Kinds

LEMMA OneLockStep ==
  ASSUME LockInv, Kinds, LocksKept
  PROVE  OneLock'
<1> SUFFICES ASSUME NEW d \in Domains, Status'[d] = "registering"
             PROVE  At' \in LockPoints /\ Current' = d
  BY DEF OneLock
<1>0. Status[d] = "registering" => At \in LockPoints /\ Current = d
  BY DEF LockInv, OneLock
<1>1. CASE Browse
  BY <1>0, <1>1 DEF Browse, OpenMoves, OpenStatuses, OwnedStatuses
<1>2. CASE TakeLock
  BY <1>0, <1>2 DEF TakeLock, OnlyBecomes, LockPoints
<1>3. CASE Sending \/ Answered
  BY <1>0, <1>3 DEF Sending, Answered, LockPoints, Status, Current
<1>4. CASE Recorded \/ Doubted \/ Concluded
  BY <1>0, <1>4 DEF Recorded, Doubted, Concluded, OnlyBecomes, LockPoints
<1>5. CASE Asked
  BY <1>0, <1>5 DEF Asked, LockPoints, Status
<1>6. CASE Traded \/ Belated \/ Still
  BY <1>0, <1>6 DEF Traded, Belated, Still, Status, Current, At
<1>7. ~Killed
  BY DEF Killed, LocksKept
<1> QED BY <1>1, <1>2, <1>3, <1>4, <1>5, <1>6, <1>7 DEF Kinds

LEMMA DenialStep ==
  ASSUME PurchaseInv, Undisturbed, Kinds
  PROVE  Denial'
<1> SUFFICES ASSUME Denied' PROVE reg'[Current'] # "ours"
  BY DEF Denial
<1>0. At' \in { "register", "registering", "finish", "confirmed" }
  BY DEF Denied
<1> USE DEF PurchaseInv, LockInv
<1>9. /\ ~Killed /\ ~Belated
      /\ "refusal" \notin Faults /\ "late" \notin Faults
  BY UndisturbedKinds
<1>1. CASE Browse
  BY <1>0, <1>1 DEF Browse, LockPoints
<1>2. CASE TakeLock
  <2>1. Current \in Domains /\ Status[Current] = "available"
    BY <1>2, WorkingRow, AwaitedAt DEF TakeLock, WorkingPoints
  <2>2. reg[Current] # "ours"
    BY <2>1 DEF PurchaseInv, NoForgottenPurchase, Status, OwnedStatuses
  <2> QED BY <1>2, <2>2 DEF TakeLock
<1>3. CASE Sending
  <2>1. reg[Current] # "ours" /\ Current' = Current
    BY <1>3 DEF Sending, PurchaseInv, Denial, Denied, Current
  <2> QED BY <1>3, <2>1 DEF Sending
<1>4. CASE Answered
  BY <1>0, <1>4 DEF Answered, Denied, Denial
<1>5. CASE Recorded \/ Doubted \/ Concluded
  BY <1>0, <1>5 DEF Recorded, Doubted, Concluded
<1>6. CASE Asked
  BY <1>6, <1>9 DEF Asked, Denied
<1>7. CASE Still
  <2>1. Denied /\ Current' = Current
    BY <1>7 DEF Still, Denied, At, Current
  <2> QED BY <1>7, <2>1 DEF Still, PurchaseInv, Denial
<1>8. CASE Traded
  <2>1. Denied /\ Current' = Current
    BY <1>8 DEF Traded, Denied, At, Current
  <2>2. reg[Current] # "ours"
    BY <2>1 DEF PurchaseInv, Denial
  <2>3. \A x : reg[x] # "ours" => reg'[x] # "ours"
    BY <1>8 DEF Traded, PurchaseInv, StatusInv, TypeInv, TypeOK
  <2> QED BY <2>1, <2>2, <2>3
<1> QED BY <1>1, <1>2, <1>3, <1>4, <1>5, <1>6, <1>7, <1>8, <1>9 DEF Kinds

LEMMA ToConfirmStep ==
  ASSUME StatusInv, Kinds
  PROVE  ToConfirm'
<1> DEFINE pending == "registration_pending_confirmation"
<1> SUFFICES ASSUME At' \in { "confirm", "confirmed" }, NEW d \in job'["daemon"].todo
             PROVE  Status'[d] = pending /\ (At' = "confirmed" => d # Current')
  BY DEF ToConfirm
<1>1. CASE Browse
  <2>1. d \in Domains /\ Status[d] = pending
    BY <1>1 DEF Browse, Uncertain, Status
  <2> QED BY <1>1, <2>1 DEF Browse, OpenMoves, LooseStatuses, OpenStatuses,
                            OwnedStatuses
<1>2. CASE TakeLock \/ Sending \/ Answered \/ Recorded \/ Killed
  BY <1>2 DEF TakeLock, Sending, Answered, Recorded, Killed
<1>3. CASE Doubted
  <2>1. Current \in Domains
    BY <1>3, WorkingRow DEF Doubted, WorkingPoints, LockPoints
  <2> QED BY <1>3, <2>1 DEF Doubted, OnlyBecomes
<1>4. CASE Asked
  BY <1>4 DEF Asked, StatusInv, ToConfirm, Status
<1>5. CASE Concluded
  <2>1. d \in job["daemon"].todo /\ Status[d] = pending /\ d # Current
    BY <1>5 DEF Concluded, StatusInv, ToConfirm
  <2>2. d \in Domains
    BY <2>1 DEF StatusInv, TypeInv, TypeOK, Job, Procs
  <2> QED BY <1>5, <2>1, <2>2 DEF Concluded, OnlyBecomes
<1>6. CASE Traded \/ Belated \/ Still
  BY <1>6 DEF Traded, Belated, Still, StatusInv, ToConfirm, Status, At, Current
<1> QED BY <1>1, <1>2, <1>3, <1>4, <1>5, <1>6 DEF Kinds

LEMMA NotForgottenStep ==
  ASSUME PurchaseInv, Undisturbed, Kinds
  PROVE  NoForgottenPurchase'
<1> SUFFICES ASSUME NEW d \in Domains, reg'[d] = "ours"
             PROVE  Status'[d] \in OwnedStatuses
  BY DEF NoForgottenPurchase, Status
<1> USE DEF PurchaseInv, LockInv
<1>8. ~Killed /\ ~Belated
  BY UndisturbedKinds
<1>0. /\ reg[d] = "ours" => Status[d] \in OwnedStatuses
      /\ reg \in [Domains -> Holders]
  BY DEF PurchaseInv, NoForgottenPurchase, Status, StatusInv, TypeInv, TypeOK
<1>1. CASE Browse
  <2>1. Status[d] # "registering"
    BY <1>1 DEF Browse, OneLock
  <2> QED BY <1>0, <1>1, <2>1 DEF Browse, OpenMoves, LooseStatuses, OpenStatuses
<1>2. CASE TakeLock \/ Doubted
  BY <1>0, <1>2 DEF TakeLock, Doubted, OnlyBecomes, OwnedStatuses
<1>3. CASE Sending \/ Asked \/ Still
  BY <1>0, <1>3 DEF Sending, Asked, Still, Status
<1>4. CASE Answered
  <2>1. Current \in Domains /\ Status[Current] = "registering" /\ Status' = Status
    BY <1>4, WorkingRow, AwaitedAt DEF Answered, WorkingPoints, LockPoints, Status
  <2>2. d = Current \/ reg'[d] = reg[d]
    BY <1>0, <1>4 DEF Answered, Grant
  <2> QED BY <1>0, <2>1, <2>2 DEF OwnedStatuses
<1>5. CASE Recorded
  <2>1. job["daemon"].answer = "success" \/ reg[Current] # "ours"
    BY <1>5 DEF Recorded, PurchaseInv, Denial, Denied
  <2> QED BY <1>0, <1>5, <2>1 DEF Recorded, OnlyBecomes, OwnedStatuses
<1>6. CASE Concluded
  <2>1. job["daemon"].answer # "not_found" \/ reg[Current] # "ours"
    BY <1>6 DEF Concluded, PurchaseInv, Denial, Denied
  <2> QED BY <1>0, <1>6, <2>1 DEF Concluded, OnlyBecomes, OwnedStatuses
<1>7. CASE Traded
  BY <1>0, <1>7 DEF Traded, Status
<1> QED BY <1>1, <1>2, <1>3, <1>4, <1>5, <1>6, <1>7, <1>8 DEF Kinds

LEMMA PurchaseInit == Init => PurchaseInv
<1> SUFFICES ASSUME Init PROVE PurchaseInv
  OBVIOUS
<1>1. TypeInv
  BY InitType
<1>2. /\ At = "down" /\ At \notin WorkingPoints /\ At \notin LockPoints
      /\ pc["cli"] = "down"
  BY DEF Init, At, Procs, WorkingPoints, LockPoints
<1>3. Alone /\ RowAwaits /\ Denial /\ ToConfirm /\ NothingLate
  BY <1>2 DEF Init, Alone, RowAwaits, Denial, Denied, ToConfirm, NothingLate
<1>4. OneLock /\ NoForgottenPurchase
  BY DEF Init, OneLock, NoForgottenPurchase, Status
<1> QED BY <1>1, <1>3, <1>4 DEF PurchaseInv, LockInv, StatusInv

LEMMA StatusNext ==
  ASSUME Commands = {}, StatusInv, [Next]_vars
  PROVE  StatusInv'
<1>1. Kinds
  BY StepKinds
<1>2. TypeInv' /\ Alone'
  BY NextType, AloneStep DEF StatusInv
<1> QED BY <1>1, <1>2, RowAwaitsStep, ToConfirmStep DEF StatusInv

LEMMA LockNext ==
  ASSUME Commands = {}, LocksKept, LockInv, [Next]_vars
  PROVE  LockInv'
<1>1. StatusInv' /\ Kinds
  BY StatusNext, StepKinds DEF LockInv
<1> QED BY <1>1, OneLockStep DEF LockInv

\* Without requests that are processed late, none is left.
LEMMA NothingLateStep ==
  ASSUME NothingLate, Kinds, "late" \notin Faults
  PROVE  NothingLate'
  BY DEF Kinds, Browse, TakeLock, Sending, Answered, Recorded, Doubted, Asked,
         Concluded, Killed, Traded, Belated, Still, NothingLate

LEMMA PurchaseNext ==
  ASSUME Undisturbed, PurchaseInv, [Next]_vars
  PROVE  PurchaseInv'
<1>1. Kinds
  BY StepKinds DEF PurchaseInv, LockInv, Undisturbed
<1>2. LockInv'
  BY LockNext DEF PurchaseInv, Undisturbed
<1>3. NothingLate'
  BY <1>1, NothingLateStep, UndisturbedKinds DEF PurchaseInv
<1> QED BY <1>1, <1>2, <1>3, DenialStep, NotForgottenStep DEF PurchaseInv

-----------------------------------------------------------------------------
(* What follows for the purchases. *)

\* A name the account has come to hold stays known to its row, and no Register
\* is about to be sent for a name the account holds: whatever times out, is
\* rejected or is answered by a longer name, and wherever outside the lock the
\* daemon is killed and started again.
THEOREM PurchasesKept ==
  ASSUME Undisturbed
  PROVE  Spec => [](NoForgottenPurchase /\ NoDuplicatePurchase)
<1>1. Init => PurchaseInv
  BY PurchaseInit
<1>2. PurchaseInv /\ [Next]_vars => PurchaseInv'
  BY PurchaseNext
<1>3. PurchaseInv => NoForgottenPurchase /\ NoDuplicatePurchase
  <2> SUFFICES ASSUME PurchaseInv, NEW p \in Procs, pc[p] = "register"
               PROVE  reg[job[p].d] # "ours"
    BY DEF PurchaseInv, NoDuplicatePurchase
  <2>1. p = "daemon"
    BY DEF PurchaseInv, LockInv, StatusInv, Alone, Procs
  <2> QED BY <2>1 DEF PurchaseInv, Denial, Denied, At, Current
<1> QED BY <1>1, <1>2, <1>3, PTL DEF Spec

\* A confirmation that did not find the name is right.
Refutation ==
  At = "confirmed" /\ job["daemon"].answer = "not_found" => reg[Current] # "ours"

LEMMA RefutationStep ==
  ASSUME StatusInv, Refutation, NothingLate, Kinds, "refusal" \notin Faults
  PROVE  Refutation'
<1> SUFFICES ASSUME At' = "confirmed", job'["daemon"].answer = "not_found"
             PROVE  reg'[Current'] # "ours"
  BY DEF Refutation
<1>1. Asked \/ Traded \/ Still
  BY DEF Kinds, Browse, TakeLock, Sending, Answered, Recorded, Doubted,
         Concluded, Killed, Belated, NothingLate
<1>2. CASE Asked
  BY <1>2 DEF Asked
<1>3. CASE Traded \/ Still
  <2>1. reg[Current] # "ours" /\ Current' = Current
    BY <1>3 DEF Traded, Still, Refutation, At, Current
  <2>2. \A x : reg[x] # "ours" => reg'[x] # "ours"
    <3>1. CASE Traded
      BY <3>1 DEF Traded, StatusInv, TypeInv, TypeOK
    <3>2. CASE Still
      BY <3>2 DEF Still
    <3> QED BY <1>3, <3>1, <3>2
  <2> QED BY <2>1, <2>2
<1> QED BY <1>1, <1>2, <1>3

\* An uncertain registration is settled only by a verdict: as registered, or
\* as watching when the account does not hold the name
\* (_finish_confirmation), wherever the daemon is killed and whatever fails
\* but a confirmation refused with an error code or a request that is
\* processed after it was asked about.
THEOREM PendingKept ==
  ASSUME Commands = {}, Faults \cap { "refusal", "late" } = {}
  PROVE  Spec => PendingLeftOnlyByVerdict
<1> DEFINE pending == "registration_pending_confirmation"
           Verdict(d) == \/ row'[d].status \in { pending, "registered" }
                         \/ row'[d].status = "watching" /\ reg[d] # "ours"
           Inv == StatusInv /\ NothingLate /\ Refutation
<1>1. Init => Inv
  <2>1. Init => Refutation
    BY DEF Init, Refutation, At, Procs
  <2> QED BY <2>1, PurchaseInit DEF PurchaseInv, LockInv
<1>2. Inv /\ [Next]_vars => Inv'
  BY StatusNext, StepKinds, NothingLateStep, RefutationStep
<1>3. Inv /\ [Next]_vars
        => [ \A d \in Domains : row[d].status = pending => Verdict(d) ]_vars
  <2> SUFFICES ASSUME Inv, [Next]_vars, NEW d \in Domains,
                      row[d].status = pending
               PROVE  Verdict(d)
    OBVIOUS
  <2>1. /\ Kinds /\ Status[d] = pending /\ Status'[d] = row'[d].status
        /\ At \in WorkingPoints => Status[Current] \in Awaited(At)
    BY StepKinds, WorkingRow DEF Status
  <2> HIDE DEF Verdict
  <2>2. CASE Browse
    BY <2>1, <2>2 DEF Browse, OpenMoves, LooseStatuses, OpenStatuses, OwnedStatuses,
                      Verdict
  <2>3. CASE TakeLock \/ Recorded
    <3>1. d # Current
      BY <2>1, <2>3, AwaitedAt DEF TakeLock, Recorded, WorkingPoints, LockPoints
    <3> QED BY <2>1, <2>3, <3>1 DEF TakeLock, Recorded, OnlyBecomes, Verdict
  <2>4. CASE Doubted
    BY <2>1, <2>4 DEF Doubted, OnlyBecomes, Verdict
  <2>5. CASE Sending \/ Answered \/ Asked \/ Killed \/ Traded \/ Belated \/ Still
    BY <2>1, <2>5 DEF Sending, Answered, Asked, Killed, Traded, Belated, Still,
                      Status, Verdict
  <2>6. CASE Concluded
    <3>1. job["daemon"].answer = "not_found" => reg[Current] # "ours"
      BY <2>6 DEF Concluded, Refutation
    <3> QED BY <2>1, <2>6, <3>1 DEF Concluded, OnlyBecomes, Verdict
  <2> QED BY <2>1, <2>2, <2>3, <2>4, <2>5, <2>6 DEF Kinds
<1> QED BY <1>1, <1>2, <1>3, PTL DEF Spec, PendingLeftOnlyByVerdict

\* A Register that Dynadot granted is recorded by the session that follows,
\* if the daemon lives to run it: whatever failed before.
THEOREM SuccessKept ==
  ASSUME Commands = {}, "finish" \notin CrashPoints
  PROVE  Spec => SuccessIsRecorded
<1>1. StatusInv /\ [Next]_vars
        => [ \A p \in Procs :
               pc[p] = "finish" /\ job[p].answer = "success" /\ pc'[p] # "finish" =>
                 row'[job[p].d].status = "registered" ]_vars
  <2> SUFFICES ASSUME StatusInv, [Next]_vars, NEW p \in Procs, pc[p] = "finish",
                      job[p].answer = "success", pc'[p] # "finish"
               PROVE  row'[job[p].d].status = "registered"
    OBVIOUS
  <2>1. p = "daemon"
    BY DEF StatusInv, Alone, Procs
  <2>2. At = "finish" /\ At' # "finish" /\ At \in LockPoints /\ At \in WorkingPoints
    BY <2>1 DEF At, LockPoints, WorkingPoints
  <2>3. Recorded
    <3>1. ~Killed
      BY <2>2 DEF Killed
    <3> QED BY <2>2, <3>1, StepKinds
            DEF Kinds, Browse, TakeLock, Sending, Answered, Doubted, Asked,
                Concluded, Traded, Belated, Still, At
  <2>4. Current \in Domains
    BY <2>2, WorkingRow
  <2> QED BY <2>1, <2>3, <2>4 DEF Recorded, OnlyBecomes, Status, Current
<1>2. Init => StatusInv
  BY PurchaseInit DEF PurchaseInv, LockInv
<1>3. StatusInv /\ [Next]_vars => StatusInv'
  BY StatusNext
<1> QED BY <1>1, <1>2, <1>3, PTL DEF Spec, SuccessIsRecorded

\* The daemon never leaves a registered or a price_exceeded row, whatever
\* fails and wherever it is killed.
THEOREM TerminalKept ==
  ASSUME Commands = {}
  PROVE  Spec => TerminalIsFinal
<1>1. StatusInv /\ [Next]_vars
        => [ \A d \in Domains :
               row[d].status \in { "registered", "price_exceeded" } =>
                 row'[d].status = row[d].status ]_vars
  <2> SUFFICES ASSUME StatusInv, [Next]_vars, NEW d \in Domains,
                      Status[d] \in { "registered", "price_exceeded" }
               PROVE  Status'[d] = Status[d]
    BY DEF Status
  <2>1. Kinds /\ (At \in WorkingPoints => Status[Current] \in Awaited(At))
    BY StepKinds, WorkingRow
  <2>2. CASE Browse
    BY <2>2 DEF Browse, OpenMoves, LooseStatuses, OpenStatuses, OwnedStatuses
  <2>3. CASE TakeLock \/ Recorded \/ Doubted \/ Concluded
    <3>1. d # Current
      BY <2>1, <2>3, AwaitedAt DEF TakeLock, Recorded, Doubted, Concluded,
                                   WorkingPoints, LockPoints
    <3> QED BY <2>3, <3>1 DEF TakeLock, Recorded, Doubted, Concluded, OnlyBecomes
  <2>4. CASE Sending \/ Answered \/ Asked \/ Killed \/ Traded \/ Belated \/ Still
    BY <2>4 DEF Sending, Answered, Asked, Killed, Traded, Belated, Still, Status
  <2> QED BY <2>1, <2>2, <2>3, <2>4 DEF Kinds
<1>2. Init => StatusInv
  BY PurchaseInit DEF PurchaseInv, LockInv
<1>3. StatusInv /\ [Next]_vars => StatusInv'
  BY StatusNext
<1> QED BY <1>1, <1>2, <1>3, PTL DEF Spec, TerminalIsFinal

-----------------------------------------------------------------------------
(* The refinement of Acquisition. *)

LEMMA StanceAt ==
  /\ \A s \in OpenStatuses \cup { "price_exceeded" } : Stance(s) = "idle"
  /\ Stance("registering") = "trying"
  /\ Stance("registration_pending_confirmation") = "unsure"
  /\ Stance("registered") = "owned"
<1> USE DEF Stance
<1>1. \A s \in OpenStatuses \cup { "price_exceeded" } : Stance(s) = "idle"
  BY DEF OpenStatuses, OwnedStatuses, DomainStatuses
<1>2. Stance("registering") = "trying"
  OBVIOUS
<1>3. Stance("registration_pending_confirmation") = "unsure"
  OBVIOUS
<1>4. Stance("registered") = "owned"
  OBVIOUS
<1> QED BY <1>1, <1>2, <1>3, <1>4

\* The abstract variable, as the refinement maps it.
StanceBar == [ d \in Domains |-> Stance(row[d].status) ]

\* One row becomes s: its stance changes, and no other.
LEMMA StanceBecomes ==
  ASSUME NEW d \in Domains, NEW s, OnlyBecomes(d, s)
  PROVE  StanceBar' = [StanceBar EXCEPT ![d] = Stance(s)]
  BY DEF OnlyBecomes, StanceBar, Status

LEMMA StepRefines ==
  ASSUME PurchaseInv, Undisturbed, Evidence, Kinds
  PROVE  Abstract!Next \/ UNCHANGED << StanceBar, reg >>
<1> USE DEF PurchaseInv, LockInv
<1>9. ~Killed /\ ~Belated
  BY UndisturbedKinds
<1>0. At \in WorkingPoints =>
        /\ Current \in Domains /\ Status[Current] \in Awaited(At)
        /\ StanceBar[Current] = Stance(Status[Current])
  BY WorkingRow DEF StanceBar
<1>1. CASE Browse
  <2>1. \A d \in Domains : Status[d] # "registering"
    BY <1>1 DEF Browse, OneLock
  <2>2. \A d \in Domains : StanceBar'[d] = StanceBar[d]
    BY <1>1, <2>1, StanceAt DEF Browse, OpenMoves, LooseStatuses, StanceBar, Status
  <2> QED BY <1>1, <2>2 DEF Browse, StanceBar
<1>2. CASE TakeLock
  <2>1. Current \in Domains /\ Status[Current] = "available"
    BY <1>0, <1>2, AwaitedAt DEF TakeLock, WorkingPoints
  <2>2. StanceBar[Current] = "idle" /\ reg[Current] # "ours"
    BY <1>0, <1>2, <2>1, StanceAt
       DEF TakeLock, WorkingPoints, OpenStatuses, DomainStatuses, OwnedStatuses,
           PurchaseInv, NoForgottenPurchase, Status
  <2>3. StanceBar' = [StanceBar EXCEPT ![Current] = "trying"] /\ reg' = reg
    BY <1>2, <2>1, StanceBecomes, StanceAt DEF TakeLock
  <2>4. Abstract!Try(Current)
    BY <2>2, <2>3 DEF Abstract!Try, Abstract!Become, StanceBar
  <2> QED BY <2>1, <2>4 DEF Abstract!Next
<1>3. CASE Sending \/ Asked \/ Still
  BY <1>3 DEF Sending, Asked, Still, StanceBar
<1>4. CASE Answered
  <2>1. Current \in Domains /\ StanceBar[Current] = "trying" /\ StanceBar' = StanceBar
    BY <1>0, <1>4, AwaitedAt, StanceAt
       DEF Answered, WorkingPoints, LockPoints, StanceBar
  <2>2. CASE reg[Current] = "free" /\ Grant(Current)
    <3>1. Abstract!Buy(Current)
      BY <2>1, <2>2 DEF Grant, Abstract!Buy, StanceBar
    <3> QED BY <2>1, <3>1 DEF Abstract!Next
  <2>3. CASE ~(reg[Current] = "free" /\ Grant(Current))
    <3>1. reg' = reg
      BY <1>4, <2>3 DEF Answered, Grant, StatusInv, TypeInv, TypeOK
    <3> QED BY <2>1, <3>1
  <2> QED BY <2>2, <2>3
<1>5. CASE Recorded
  <2>1. Current \in Domains /\ StanceBar[Current] = "trying"
    BY <1>0, <1>5, AwaitedAt, StanceAt DEF Recorded, WorkingPoints, LockPoints
  <2>2. PICK s \in { "registered", "watching", "error" } :
          /\ s = "registered" <=> job["daemon"].answer = "success"
          /\ OnlyBecomes(Current, s)
    BY <1>5 DEF Recorded
  <2>3. StanceBar' = [StanceBar EXCEPT ![Current] = Stance(s)] /\ reg' = reg
    BY <1>5, <2>1, <2>2, StanceBecomes DEF Recorded
  <2>4. CASE s = "registered"
    <3>1. reg[Current] = "ours"
      BY <1>5, <2>2, <2>4 DEF Recorded, Evidence, Affirmed, At, Current, Procs
    <3>2. Abstract!Win(Current)
      BY <2>1, <2>3, <2>4, <3>1, StanceAt
         DEF Abstract!Win, Abstract!Become, StanceBar
    <3> QED BY <2>1, <3>2 DEF Abstract!Next
  <2>5. CASE s # "registered"
    <3>1. reg[Current] # "ours"
      BY <1>5, <2>2, <2>5 DEF Recorded, PurchaseInv, Denial, Denied
    <3>2. Stance(s) = "idle"
      BY <2>5, StanceAt DEF OpenStatuses, OwnedStatuses, DomainStatuses
    <3>3. Abstract!Lose(Current)
      BY <2>1, <2>3, <3>1, <3>2 DEF Abstract!Lose, Abstract!Become, StanceBar
    <3> QED BY <2>1, <3>3 DEF Abstract!Next
  <2> QED BY <2>4, <2>5
<1>6. CASE Doubted
  <2>1. Current \in Domains /\ StanceBar[Current] = "trying"
    BY <1>0, <1>6, AwaitedAt, StanceAt DEF Doubted, WorkingPoints, LockPoints
  <2>2. StanceBar' = [StanceBar EXCEPT ![Current] = "unsure"] /\ reg' = reg
    BY <1>6, <2>1, StanceBecomes, StanceAt DEF Doubted
  <2>3. Abstract!Doubt(Current)
    BY <2>1, <2>2 DEF Abstract!Doubt, Abstract!Become, StanceBar
  <2> QED BY <2>1, <2>3 DEF Abstract!Next
<1>7. CASE Concluded
  <2>1. Current \in Domains /\ StanceBar[Current] = "unsure"
    BY <1>0, <1>7, AwaitedAt, StanceAt DEF Concluded, WorkingPoints
  <2>2. PICK s \in { "registered", "watching", "registration_pending_confirmation" } :
          /\ s = "registered" => job["daemon"].answer = "registered"
          /\ s = "watching" => job["daemon"].answer = "not_found"
          /\ OnlyBecomes(Current, s)
    BY <1>7 DEF Concluded
  <2>3. StanceBar' = [StanceBar EXCEPT ![Current] = Stance(s)] /\ reg' = reg
    BY <1>7, <2>1, <2>2, StanceBecomes DEF Concluded
  <2>4. CASE s = "registered"
    <3>1. reg[Current] = "ours"
      BY <1>7, <2>2, <2>4 DEF Concluded, Evidence, Affirmed, At, Current, Procs
    <3>2. Abstract!Win(Current)
      BY <2>1, <2>3, <2>4, <3>1, StanceAt
         DEF Abstract!Win, Abstract!Become, StanceBar
    <3> QED BY <2>1, <3>2 DEF Abstract!Next
  <2>5. CASE s = "watching"
    <3>1. reg[Current] # "ours"
      BY <1>7, <2>2, <2>5 DEF Concluded, PurchaseInv, Denial, Denied
    <3>2. Stance(s) = "idle"
      BY <2>5, StanceAt DEF OpenStatuses, OwnedStatuses, DomainStatuses
    <3>3. Abstract!Lose(Current)
      BY <2>1, <2>3, <3>1, <3>2 DEF Abstract!Lose, Abstract!Become, StanceBar
    <3> QED BY <2>1, <3>3 DEF Abstract!Next
  <2>6. CASE s = "registration_pending_confirmation"
    BY <2>1, <2>3, <2>6, StanceAt DEF StanceBar
  <2> QED BY <2>2, <2>4, <2>5, <2>6
<1>8. CASE Traded
  <2>1. PICK d \in Domains :
          /\ reg[d] # "ours"
          /\ reg' = [reg EXCEPT ![d] = IF @ = "free" THEN "other" ELSE "free"]
    BY <1>8 DEF Traded
  <2>2. Abstract!Trade(d)
    BY <1>8, <2>1 DEF Traded, Abstract!Trade
  <2> QED BY <2>2 DEF Abstract!Next
<1> QED BY <1>1, <1>2, <1>3, <1>4, <1>5, <1>6, <1>7, <1>8, <1>9 DEF Kinds

\* The daemon implements Acquisition: a name is bought only while its row is
\* registering, and a row leaves its registration only with the knowledge of
\* whether the name was bought.
THEOREM AcquisitionImplemented ==
  ASSUME Undisturbed, "lookalike" \notin Faults
  PROVE  Spec => ImplementsAcquisition
<1>1. Init => Abstract!Init
  <2> SUFFICES ASSUME Init PROVE Abstract!Init
    OBVIOUS
  <2>1. \A d \in Domains : row[d].status \in { "scheduled", "watching" }
    BY DEF Init
  <2>2. \A d \in Domains : Stance(row[d].status) = "idle"
    BY <2>1, StanceAt DEF OpenStatuses, OwnedStatuses, DomainStatuses
  <2> QED BY <2>2 DEF Init, Abstract!Init
<1>2. Init => Evidence
  BY DEF Init, Evidence, Affirmed, Procs
<1>3. PurchaseInv /\ Evidence /\ [Next]_vars => Evidence'
  BY EvidenceStep DEF PurchaseInv, LockInv, StatusInv
<1>4. PurchaseInv /\ Evidence /\ [Next]_vars
        => [Abstract!Next]_<< StanceBar, reg >>
  BY StepKinds, StepRefines DEF PurchaseInv, LockInv, Undisturbed
<1> QED BY <1>1, <1>2, <1>3, <1>4, PurchaseInit, PurchaseNext, PTL
        DEF Spec, ImplementsAcquisition, Abstract!Spec, StanceBar
=============================================================================

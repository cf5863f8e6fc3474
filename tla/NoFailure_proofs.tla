--------------------------- MODULE NoFailure_proofs ---------------------------
(***************************************************************************)
(* The daemon that works alone meets only rows its transitions are defined *)
(* for: recover, the expiry of windows and the registration service never   *)
(* raise InvalidTransition.                                                 *)
(***************************************************************************)
EXTENDS Purchase_proofs

\* The points at which the daemon holds a row it has marked available.
InHand == { "available", "lock", "commit" }

\* What a row's status says of its window: a window to come is scheduled, only
\* a row that is watched once expires, and no row is left pending.
RowsInOrder ==
  \A d \in Domains :
    /\ phase[d] = "before" => Status[d] = "scheduled"
    /\ Status[d] = "expired" => phase[d] = "over" /\ Schedule[d] = "once"
    /\ Status[d] # "pending"

\* An available row is a simulated registration that nobody will look at
\* again, or is in the daemon's hands.
Simulation(r) == r.simulated /\ r.next = "none"
AvailableInHand ==
  \A d \in Domains :
    Status[d] = "available" => Simulation(row[d]) \/ (At \in InHand /\ Current = d)

\* The daemon has not failed, and selects no available row.
Unfailing == At \notin { "failed", "previous" }

Order == RowsInOrder /\ AvailableInHand /\ Unfailing

\* No process is killed while it has a row in its hands.
HandsKept == LocksKept /\ CrashPoints \cap InHand = {}

-----------------------------------------------------------------------------
(* Three kinds of step keep the order. *)

\* The row the daemon works on changes, and no other.
LEMMA OneRowMoves ==
  ASSUME TypeInv, Order, Current \in Domains, UNCHANGED phase,
         \A e \in Domains : e # Current => row'[e] = row[e],
         \/ Status'[Current] = Status[Current]
         \/ /\ phase[Current] # "before"
            /\ Status'[Current] \notin { "expired", "pending" },
         Status'[Current] = "available" =>
           Simulation(row'[Current]) \/ (At' \in InHand /\ Current' = Current),
         At' \notin { "failed", "previous" }
  PROVE  Order'
<1>1. \A e \in Domains : e # Current => Status'[e] = Status[e]
  BY DEF Status
<1>2. RowsInOrder'
  BY <1>1 DEF Order, RowsInOrder
<1>3. AvailableInHand'
  <2> SUFFICES ASSUME NEW e \in Domains, Status'[e] = "available", e # Current
               PROVE  Simulation(row'[e])
    BY DEF AvailableInHand
  <2>1. Simulation(row[e])
    BY <1>1 DEF Order, AvailableInHand
  <2> QED BY <2>1
<1> QED BY <1>2, <1>3 DEF Order, Unfailing

\* No row changes.
LEMMA NoRowMoves ==
  ASSUME Order, UNCHANGED << row, phase >>,
         At \in InHand => At' \in InHand /\ Current' = Current,
         At' \notin { "failed", "previous" }
  PROVE  Order'
<1>1. Status' = Status
  BY DEF Status
<1>2. RowsInOrder'
  BY <1>1 DEF Order, RowsInOrder
<1>3. AvailableInHand'
  BY <1>1 DEF Order, AvailableInHand
<1> QED BY <1>2, <1>3 DEF Order, Unfailing

\* What the phase of a window becomes, and the status of its row.
LEMMA RolledRow ==
  ASSUME TypeInv, NEW d \in Domains, NEW rolled \in Rollovers
  PROVE  /\ rolled[d] \in Phases
         /\ PhaseStatus("before") = "scheduled"
         /\ PhaseStatus("open") = "watching"
         /\ PhaseStatus("over") = "expired"
         /\ rolled[d] = "over" => phase[d] = "over" /\ Schedule[d] = "once"
<1>1. PhaseStatus("before") = "scheduled"
  BY DEF PhaseStatus
<1>2. PhaseStatus("open") = "watching"
  BY DEF PhaseStatus
<1>3. PhaseStatus("over") = "expired"
  BY DEF PhaseStatus
<1>4. /\ rolled[d] \in Phases
      /\ rolled[d] = "over" => phase[d] = "over" /\ Schedule[d] = "once"
  BY ScheduleAssumption DEF Rollovers, RolledPhases, Phases
<1> QED BY <1>1, <1>2, <1>3, <1>4

\* Rows are realigned to their windows.
LEMMA RealignedInOrder ==
  ASSUME TypeInv, Order, NEW moved \in SUBSET Domains, NEW rolled \in Rollovers,
         Realign(moved, rolled), At \notin InHand, At' \notin { "failed", "previous" }
  PROVE  Order'
<1>1. ASSUME NEW d \in moved
      PROVE  /\ phase'[d] = rolled[d]
             /\ Status'[d] = PhaseStatus(rolled[d])
  BY RowType DEF Realign, Realigned, Row, Status
<1>2. ASSUME NEW d \in Domains, d \notin moved
      PROVE  row'[d] = row[d] /\ phase'[d] = phase[d] /\ Status'[d] = Status[d]
  BY <1>2 DEF Realign, Status
<1>3. RowsInOrder'
  <2> SUFFICES ASSUME NEW d \in Domains
               PROVE  /\ phase'[d] = "before" => Status'[d] = "scheduled"
                      /\ Status'[d] = "expired" =>
                           phase'[d] = "over" /\ Schedule[d] = "once"
                      /\ Status'[d] # "pending"
    BY DEF RowsInOrder
  <2>1. CASE d \in moved
    BY <1>1, <2>1, RolledRow DEF Phases
  <2>2. CASE d \notin moved
    BY <1>2, <2>2 DEF Order, RowsInOrder
  <2> QED BY <2>1, <2>2
<1>4. AvailableInHand'
  <2> SUFFICES ASSUME NEW d \in Domains, Status'[d] = "available"
               PROVE  Simulation(row'[d])
    BY DEF AvailableInHand
  <2>1. d \notin moved
    BY <1>1, RolledRow DEF Phases
  <2> QED BY <1>2, <2>1 DEF Order, AvailableInHand
<1> QED BY <1>3, <1>4 DEF Order, Unfailing

-----------------------------------------------------------------------------
(* The transitions that recover and the expiry of windows make are allowed. *)

LEMMA RecoverCanAlign ==
  ASSUME LockInv, Order, NEW d \in Domains, At = "recover", ~RecoverSkips(d),
         NEW rolled \in Rollovers
  PROVE  CanAlign(d, rolled[d])
<1>0. /\ TypeInv /\ row[d] \in Row /\ Status[d] = row[d].status
      /\ Schedule[d] \in { "once", "daily", "always" }
  BY RowType, ScheduleAssumption DEF LockInv, StatusInv, Status
<1>1. row[d].status \in { "scheduled", "watching", "taken", "expired", "error" }
  <2>1. row[d].status \notin { "pending", "registering" }
    BY <1>0 DEF LockInv, StatusInv, OneLock, Order, RowsInOrder, LockPoints
  <2>2. row[d].status # "available"
    BY <1>0 DEF Order, AvailableInHand, Simulation, InHand, RecoverSkips
  <2> QED BY <1>0, <2>1, <2>2
          DEF RecoverSkips, Uncertain, Row, DomainStatuses
<1>2. phase[d] \in Phases
  BY <1>0 DEF TypeInv, TypeOK
<1>3. CASE phase[d] = "over" /\ Schedule[d] # "once"
  <2>1. AlignFrom(d) = RolloverFrom
    BY <1>3 DEF AlignFrom
  <2> QED BY <1>1, <2>1 DEF CanAlign, CanApply, RolloverFrom
<1>4. CASE phase[d] = "over" /\ Schedule[d] = "once"
  <2>1. AlignFrom(d) = { "pending", "scheduled", "watching", "error", "taken" }
    BY <1>4 DEF AlignFrom
  <2>2. PhaseStatus(rolled[d]) = "expired"
    BY <1>4 DEF Rollovers, RolledPhases, PhaseStatus
  <2> QED BY <1>1, <2>1, <2>2 DEF CanAlign, CanApply, ValidTransition
<1>5. CASE phase[d] = "before"
  <2>1. row[d].status = "scheduled"
    BY <1>0, <1>5 DEF Order, RowsInOrder
  <2>2. PhaseStatus(rolled[d]) = "scheduled"
    BY <1>5 DEF Rollovers, RolledPhases, PhaseStatus
  <2> QED BY <2>1, <2>2 DEF CanAlign, CanApply, ValidTransition
<1>6. CASE phase[d] = "open"
  <2>1. row[d].status # "expired"
    BY <1>0, <1>6 DEF Order, RowsInOrder
  <2>2. PhaseStatus(rolled[d]) = "watching"
    BY <1>6 DEF Rollovers, RolledPhases, PhaseStatus
  <2>3. AlignFrom(d) = { "pending", "scheduled", "error", "taken", "available" }
    BY <1>6 DEF AlignFrom
  <2> QED BY <1>1, <2>1, <2>2, <2>3 DEF CanAlign, CanApply, ValidTransition
<1> QED BY <1>2, <1>3, <1>4, <1>5, <1>6 DEF Phases

LEMMA OverCanExpire ==
  ASSUME TypeInv, Order, NEW d \in Domains, phase[d] = "over",
         row[d].status \in ActiveMonitorStatuses \ { "available" }, NEW ph
  PROVE  CanExpire(d, ph)
<1>1. row[d].status \in { "scheduled", "watching", "error" }
  BY DEF Order, RowsInOrder, ActiveMonitorStatuses, Status
<1>2. CASE Schedule[d] = "once"
  BY <1>1, <1>2 DEF CanExpire, CanApply
<1>3. CASE Schedule[d] # "once"
  BY <1>1, <1>3 DEF CanExpire, CanApply, RolloverFrom
<1> QED BY <1>2, <1>3

-----------------------------------------------------------------------------
(* The daemon's scheduling. *)

\* Where the daemon goes and what it works on.
LEMMA Goes ==
  ASSUME TypeInv, NEW point, Goto("daemon", point)
  PROVE  At' = point
  BY DEF Goto, At, TypeInv, TypeOK, Procs

LEMMA Returns ==
  ASSUME TypeInv, Return("daemon")
  PROVE  At' = "loop"
  BY Goes DEF Return

LEMMA RecoverInOrder ==
  ASSUME LockInv, Order, Recover("daemon")
  PROVE  Order'
<1> DEFINE aligned == { d \in Domains : ~RecoverSkips(d) }
<1>0. TypeInv /\ At = "recover"
  BY DEF LockInv, StatusInv, Recover, At
<1>1. \A rolled \in Rollovers : \A d \in aligned : CanAlign(d, rolled[d])
  BY <1>0, RecoverCanAlign
<1>2. PICK rolled \in Rollovers :
        Realign(aligned, rolled) /\ (Return("daemon") \/ Goto("daemon", "confirm"))
  BY <1>1 DEF Recover
<1>3. At' \in { "loop", "confirm" }
  BY <1>0, <1>2, Goes, Returns
<1> QED BY <1>0, <1>2, <1>3, RealignedInOrder DEF InHand

LEMMA ExpireInOrder ==
  ASSUME StatusInv, Order, ExpireDueWindows
  PROVE  Order'
<1> DEFINE due == { d \in Domains : /\ phase[d] = "over"
                                    /\ row[d].status \in ActiveMonitorStatuses
                                    /\ row[d].status # "available" }
<1>0. TypeInv /\ At = "loop"
  BY DEF StatusInv, ExpireDueWindows, At
<1>1. \A rolled \in Rollovers : \A d \in due : CanExpire(d, rolled[d])
  BY <1>0, OverCanExpire
<1>2. PICK rolled \in Rollovers :
        Realign(due, rolled) /\ Goto("daemon", "select")
  BY <1>1 DEF ExpireDueWindows
<1>3. At' = "select"
  BY <1>0, <1>2, Goes
<1> QED BY <1>0, <1>2, <1>3, RealignedInOrder DEF InHand

LEMMA SelectInOrder ==
  ASSUME StatusInv, Order, NothingDue \/ \E d \in Domains : SelectDueDomain(d)
  PROVE  Order'
<1>0. TypeInv /\ At = "select" /\ UNCHANGED << row, phase >>
  BY DEF StatusInv, NothingDue, SelectDueDomain, At
<1>1. ASSUME NEW d \in Domains, SelectDueDomain(d)
      PROVE  At' = "start"
  <2>1. row[d].next # "none"
    BY <1>1 DEF SelectDueDomain, MayBeDue
  <2>2. row[d].status # "available"
    BY <1>0, <2>1 DEF Order, AvailableInHand, Simulation, InHand, Status
  <2> QED BY <1>0, <1>1, <2>2, Goes DEF SelectDueDomain
<1>2. At' \in { "loop", "start" }
  BY <1>0, <1>1, Goes DEF NothingDue
<1> QED BY <1>0, <1>2, NoRowMoves DEF InHand

LEMMA StartCheckInOrder ==
  ASSUME StatusInv, Order, StartCheck
  PROVE  Order'
<1> DEFINE d == job["daemon"].d
<1>0. /\ TypeInv /\ At = "start" /\ At \in WorkingPoints /\ At \notin InHand
  BY DEF StatusInv, StartCheck, At, WorkingPoints, InHand
<1>1. /\ d \in Domains /\ row[d] \in Row /\ Status[d] = row[d].status
      /\ row[d].status \in ActiveMonitorStatuses \ { "available" }
  BY <1>0, WorkingRow, AwaitedAt DEF Current
<1>2. /\ row[d].status \in { "scheduled", "watching", "error" }
      /\ phase[d] \in Phases
  BY <1>0, <1>1 DEF Order, RowsInOrder, ActiveMonitorStatuses, TypeInv, TypeOK
<1>3. row[d].status \notin SkipStatuses
  BY <1>2 DEF SkipStatuses
<1>4. CASE phase[d] = "before"
  <2> DEFINE r == [row[d] EXCEPT !.next = "start"]
  <2>1. row' = [row EXCEPT ![d] = r] /\ Return("daemon") /\ UNCHANGED phase
    BY <1>1, <1>3, <1>4 DEF StartCheck
  <2>2. r.status = row[d].status
    BY <1>1, StatusFields
  <2> HIDE DEF r
  <2>3. Status'[d] = Status[d] /\ \A e \in Domains : e # d => row'[e] = row[e]
    BY <1>0, <1>1, <2>1, <2>2 DEF Status, TypeInv, TypeOK
  <2>4. At' = "loop"
    BY <1>0, <2>1, Returns
  <2> QED BY <1>0, <1>1, <2>1, <2>3, <2>4, OneRowMoves DEF Current
<1>5. CASE phase[d] = "over"
  <2>1. \A rolled \in Rollovers : CanExpire(d, rolled[d])
    BY <1>0, <1>1, <1>5, OverCanExpire
  <2>2. PICK rolled \in Rollovers : Realign({ d }, rolled) /\ Return("daemon")
    BY <1>3, <1>5, <2>1 DEF StartCheck
  <2>3. At' = "loop"
    BY <1>0, <2>2, Returns
  <2> QED BY <1>0, <1>1, <2>2, <2>3, RealignedInOrder
<1>6. CASE phase[d] = "open"
  <2>1. CanApply(row[d].status, "watching", {})
    BY <1>2 DEF CanApply, ValidTransition, AllowedTransitions, DomainStatuses
  <2>2. /\ row' = [row EXCEPT ![d] = [row[d] EXCEPT !.status = "watching"]]
        /\ Goto("daemon", "search") /\ UNCHANGED phase
    BY <1>3, <1>6, <2>1 DEF StartCheck, Transition
  <2>3. OnlyBecomes(d, "watching")
    BY <1>0, <1>1, <2>2, TransitionBecomes
  <2>4. Status'[d] = "watching"
    BY <1>1, <2>3 DEF OnlyBecomes
  <2>5. \A e \in Domains : e # d => row'[e] = row[e]
    BY <1>0, <2>2 DEF TypeInv, TypeOK
  <2>6. At' = "search"
    BY <1>0, <2>2, Goes
  <2> QED BY <1>0, <1>1, <1>6, <2>2, <2>4, <2>5, <2>6, OneRowMoves DEF Current
<1> QED BY <1>2, <1>4, <1>5, <1>6 DEF Phases

LEMMA ScheduleInOrder ==
  ASSUME StatusInv, Order, ScheduleNextCheck \/ ScheduleAfterFailure
  PROVE  Order'
<1> DEFINE d == job["daemon"].d
           r == Rescheduled(d)
           f == [r EXCEPT !.simulated = FALSE]
<1>0. /\ TypeInv /\ At \in { "resched", "backoff" } /\ At \in WorkingPoints
      /\ UNCHANGED phase /\ Return("daemon")
  BY DEF StatusInv, ScheduleNextCheck, ScheduleAfterFailure, At, WorkingPoints
<1>1. d \in Domains /\ row[d] \in Row /\ row[d].status = "watching"
  BY <1>0, WorkingRow, AwaitedAt DEF Current
<1>2. r \in Row /\ r.status = "watching"
  BY <1>1 DEF Rescheduled, Row, DomainStatuses
<1>3. row' = [row EXCEPT ![d] = r] \/ row' = [row EXCEPT ![d] = f]
  BY <1>1 DEF ScheduleNextCheck, ScheduleAfterFailure, SkipStatuses
<1> HIDE DEF r
<1>4. f.status = "watching"
  BY <1>2, StatusFields
<1> HIDE DEF f
<1>5. Status'[d] = Status[d] /\ \A e \in Domains : e # d => row'[e] = row[e]
  BY <1>0, <1>1, <1>2, <1>3, <1>4 DEF Status, TypeInv, TypeOK
<1>6. At' = "loop"
  BY <1>0, Returns
<1>7. Status'[d] # "available"
  BY <1>1, <1>5 DEF Status
<1> QED BY <1>0, <1>1, <1>5, <1>6, <1>7, OneRowMoves DEF Current

LEMMA MarkInOrder ==
  ASSUME StatusInv, Order, MarkAvailable
  PROVE  Order'
<1>0. /\ TypeInv /\ At = "mark" /\ At \in WorkingPoints /\ UNCHANGED << phase, job >>
      /\ Goto("daemon", "available")
  BY DEF StatusInv, MarkAvailable, At, WorkingPoints
<1>1. Current \in Domains /\ Status[Current] = "watching"
  BY <1>0, WorkingRow, AwaitedAt
<1>2. At' = "available" /\ Current' = Current
  BY <1>0, Goes DEF Current
<1>3. Status'[Current] = "available"
  BY <1>0, <1>1, <1>2, MarkBrowses, AwaitedAt DEF Browse, WorkingPoints
<1>4. \A e \in Domains : e # Current => row'[e] = row[e]
  BY <1>0 DEF MarkAvailable, Current, TypeInv, TypeOK
<1>5. phase[Current] # "before"
  BY <1>1 DEF Order, RowsInOrder
<1> QED BY <1>0, <1>1, <1>2, <1>3, <1>4, <1>5, OneRowMoves DEF InHand

\* A search leaves the status of its row as it was.
LEMMA SearchInOrder ==
  ASSUME StatusInv, Order, SearchReply("daemon") \/ SearchFails("daemon")
  PROVE  Order'
<1> DEFINE d == job["daemon"].d
<1>0. /\ TypeInv /\ At = "search" /\ At \in WorkingPoints /\ UNCHANGED phase
  BY DEF StatusInv, SearchReply, SearchFails, At, WorkingPoints
<1>1. d \in Domains /\ row[d] \in Row /\ row[d].status = "watching"
  BY <1>0, WorkingRow, AwaitedAt DEF Current
<1>2. PICK r : r.status = row[d].status /\ row' = [row EXCEPT ![d] = r]
  <2>1. CASE SearchReply("daemon")
    <3> DEFINE a == [row[d] EXCEPT !.simulated = FALSE]
    <3>1. a \in Row /\ a.status = row[d].status
      BY <1>1, RowFields, StatusFields
    <3>2. PICK price : row' = [row EXCEPT ![d] = [a EXCEPT !.price = price]]
      <4>1. row \in [Domains -> Row]
        BY <1>0 DEF TypeInv, TypeOK
      <4> QED BY <1>1, <2>1, <4>1, ZenonT(60) DEF SearchReply, Row
    <3>3. [a EXCEPT !.price = price].status = row[d].status
      BY <3>1, StatusFields
    <3> QED BY <3>2, <3>3
  <2>2. CASE SearchFails("daemon")
    <3>1. PICK recorded \in BOOLEAN :
            row' = [row EXCEPT ![d] = [row[d] EXCEPT !.simulated = @ /\ ~recorded]]
      BY <2>2 DEF SearchFails
    <3> QED BY <1>1, <3>1, StatusFields
  <2> QED BY <2>1, <2>2
<1>3. Status'[d] = "watching" /\ \A e \in Domains : e # d => row'[e] = row[e]
  BY <1>0, <1>1, <1>2 DEF Status, TypeInv, TypeOK
<1>4. At' \in { "mark", "resched", "backoff" }
  BY <1>0, Goes DEF SearchReply, SearchFails
<1>5. Status[d] = Status'[d]
  BY <1>1, <1>3 DEF Status
<1> QED BY <1>0, <1>1, <1>3, <1>4, <1>5, OneRowMoves DEF Current

-----------------------------------------------------------------------------
(* The registration service. *)

LEMMA CheckPriceInOrder ==
  ASSUME StatusInv, Order, CheckPrice("daemon")
  PROVE  Order'
<1> DEFINE d == job["daemon"].d
           r == [[row[d] EXCEPT !.next = "none"] EXCEPT !.simulated = FALSE]
<1>0. TypeInv /\ At = "available" /\ At \in WorkingPoints
  BY DEF StatusInv, CheckPrice, At, WorkingPoints
<1>1. d \in Domains /\ row[d] \in Row /\ row[d].status = "available"
      /\ phase[d] # "before"
  BY <1>0, WorkingRow, AwaitedAt DEF Current, Order, RowsInOrder
<1>2. CASE job["daemon"].quote = "over"
  <2>1. CanApply("available", "price_exceeded", {})
    BY DEF CanApply, ValidTransition, AllowedTransitions, DomainStatuses
  <2>2. /\ row' = [row EXCEPT ![d] = [r EXCEPT !.status = "price_exceeded"]]
        /\ Return("daemon") /\ UNCHANGED phase
    BY <1>1, <1>2, <2>1 DEF CheckPrice, Transition
  <2>3. r \in Row
    BY <1>1, RowFields
  <2> HIDE DEF r
  <2>4. OnlyBecomes(d, "price_exceeded")
    BY <1>0, <1>1, <2>2, <2>3, TransitionBecomes
  <2>5. Status'[d] = "price_exceeded"
    BY <1>1, <2>4 DEF OnlyBecomes
  <2>6. \A e \in Domains : e # d => row'[e] = row[e]
    BY <1>0, <2>2 DEF TypeInv, TypeOK
  <2>7. At' = "loop"
    BY <1>0, <2>2, Returns
  <2> QED BY <1>0, <1>1, <2>2, <2>5, <2>6, <2>7, OneRowMoves DEF Current
<1>3. CASE job["daemon"].quote # "over"
  <2>1. Goto("daemon", "lock") /\ UNCHANGED << row, phase, job >>
    BY <1>3 DEF CheckPrice
  <2>2. At' = "lock" /\ Current' = Current
    BY <1>0, <2>1, Goes DEF Current
  <2> QED BY <2>1, <2>2, NoRowMoves DEF InHand
<1> QED BY <1>2, <1>3

LEMMA SimulatedInOrder ==
  ASSUME StatusInv, Order, MarkSimulated("daemon")
  PROVE  Order'
<1> DEFINE d == job["daemon"].d
           a == [row[d] EXCEPT !.status = "available"]
           b == [a EXCEPT !.next = "none"]
           r == [b EXCEPT !.simulated = TRUE]
<1>0. TypeInv /\ At = "available" /\ At \in WorkingPoints
      /\ Return("daemon") /\ UNCHANGED phase
  BY DEF StatusInv, MarkSimulated, At, WorkingPoints
<1>1. d \in Domains /\ row[d] \in Row /\ row[d].status = "available"
  BY <1>0, WorkingRow, AwaitedAt DEF Current
<1>2. row' = [row EXCEPT ![d] = r]
  BY <1>0, <1>1 DEF MarkSimulated, TypeInv, TypeOK, Row
<1>3. a \in Row /\ a.status = "available"
  BY <1>1, RowFields, StatusFields DEF DomainStatuses
<1> HIDE DEF a
<1>4. b \in Row /\ b.status = "available" /\ b.next = "none"
  BY <1>3 DEF Row
<1> HIDE DEF b
<1>5. r.status = "available" /\ Simulation(r)
  BY <1>4 DEF Simulation, Row
<1> HIDE DEF r
<1>6. row'[d] = r /\ \A e \in Domains : e # d => row'[e] = row[e]
  BY <1>0, <1>1, <1>2 DEF TypeInv, TypeOK
<1>7. Status'[d] = Status[d] /\ Simulation(row'[d])
  BY <1>1, <1>5, <1>6 DEF Status
<1>8. At' = "loop"
  BY <1>0, Returns
<1> QED BY <1>0, <1>1, <1>6, <1>7, <1>8, OneRowMoves DEF Current

LEMMA LoadInOrder ==
  ASSUME StatusInv, Order, LoadForRegister("daemon")
  PROVE  Order'
<1> DEFINE d == job["daemon"].d
<1>0. TypeInv /\ At = "lock" /\ At \in WorkingPoints
  BY DEF StatusInv, LoadForRegister, At, WorkingPoints
<1>1. row[d].status = "available"
  BY <1>0, WorkingRow, AwaitedAt DEF Current
<1>2. CanApply("available", "registering", {})
  BY DEF CanApply, ValidTransition, AllowedTransitions, DomainStatuses
<1>3. /\ Goto("daemon", "commit") /\ UNCHANGED << row, phase >>
      /\ job' = [job EXCEPT !["daemon"].seen = row[d].attempts]
  BY <1>1, <1>2 DEF LoadForRegister, LockedOut
<1>4. At' = "commit" /\ Current' = Current
  BY <1>0, <1>3, Goes DEF Current, TypeInv, TypeOK, Job, Procs
<1> QED BY <1>3, <1>4, NoRowMoves DEF InHand

LEMMA CommitInOrder ==
  ASSUME StatusInv, Order, CommitLock("daemon")
  PROVE  Order'
<1> DEFINE d == job["daemon"].d
<1>0. TypeInv /\ At = "commit" /\ At \in WorkingPoints /\ UNCHANGED phase
  BY DEF StatusInv, CommitLock, At, WorkingPoints
<1>1. d \in Domains /\ row[d] \in Row /\ row[d].status = "available"
      /\ phase[d] # "before"
  BY <1>0, WorkingRow, AwaitedAt DEF Current, Order, RowsInOrder
<1>2. Status'[d] \in { "error", "registering" }
  <2>1. row' = [row EXCEPT ![d].status = "error", ![d].simulated = FALSE]
        \/ row' = [row EXCEPT ![d].status = "registering",
                              ![d].attempts = job["daemon"].seen + 1]
    BY DEF CommitLock
  <2> QED BY <1>0, <1>1, <2>1 DEF Status, TypeInv, TypeOK, Row
<1>3. \A e \in Domains : e # d => row'[e] = row[e]
  BY <1>0 DEF CommitLock, TypeInv, TypeOK
<1>4. At' \in { "loop", "register" }
  BY <1>0, Goes, Returns DEF CommitLock
<1> QED BY <1>0, <1>1, <1>2, <1>3, <1>4, OneRowMoves DEF Current

\* Sessions under the lock and after it: the row they record is available
\* neither before nor after them.
LEMMA RecordInOrder ==
  ASSUME StatusInv, Order, Recorded \/ Doubted \/ Concluded,
         \/ FinishRegistration("daemon") \/ MarkPendingConfirmation("daemon")
         \/ FinishConfirmation("daemon")
  PROVE  Order'
<1>0. /\ TypeInv /\ At \in { "finish", "uncertain", "confirmed" }
      /\ At \in WorkingPoints
  BY DEF StatusInv, Recorded, Doubted, Concluded, WorkingPoints, LockPoints
<1>1. /\ Current \in Domains
      /\ Status[Current] \in { "registering", "registration_pending_confirmation" }
  BY <1>0, WorkingRow, AwaitedAt DEF LockPoints
<1>2. Status'[Current] \in { "registered", "watching", "error",
                             "registration_pending_confirmation" }
  BY <1>1 DEF Recorded, Doubted, Concluded, OnlyBecomes
<1>3. \A e \in Domains : e # Current => row'[e] = row[e]
  BY <1>0 DEF FinishRegistration, MarkPendingConfirmation, FinishConfirmation,
              Transition, Raise, Current, TypeInv, TypeOK
<1>4. UNCHANGED phase
  BY DEF FinishRegistration, MarkPendingConfirmation, FinishConfirmation,
         Transition, Raise
<1>5. At' \in { "loop", "confirm" }
  BY DEF Recorded, Doubted, Concluded
<1>6. phase[Current] # "before"
  BY <1>1 DEF Order, RowsInOrder
<1> QED BY <1>0, <1>1, <1>2, <1>3, <1>4, <1>5, <1>6, OneRowMoves

-----------------------------------------------------------------------------
(* The environment, and every step. *)

LEMMA EnvironmentInOrder ==
  ASSUME StatusInv, Order, HandsKept, Environment
  PROVE  Order'
<1>0. TypeInv /\ pc["cli"] = "down"
  BY DEF StatusInv, Alone
<1>1. CASE Start
  BY <1>0, <1>1, Goes, NoRowMoves DEF Start, At, InHand
<1>2. CASE \E p \in Procs : Crash(p)
  <2>1. Crash("daemon") /\ At \in CrashPoints
    BY <1>0, <1>2, EnvironmentAssumption DEF Crash, Procs, At
  <2>2. At \notin InHand /\ UNCHANGED << row, phase >> /\ Goto("daemon", "down")
    BY <2>1 DEF HandsKept, Crash
  <2>3. At' = "down"
    BY <1>0, <2>2, Goes
  <2> QED BY <2>2, <2>3, NoRowMoves
<1>3. ASSUME NEW moved \in SUBSET Domains, Tick(moved)
      PROVE  Order'
  <2>1. UNCHANGED << row, pc, job >>
    BY <1>3 DEF Tick
  <2>2. Status' = Status /\ At' = At /\ Current' = Current
    BY <2>1 DEF Status, At, Current
  <2>3. \A d \in Domains : /\ phase'[d] = "before" => phase[d] = "before"
                           /\ phase[d] = "over" => phase'[d] = "over"
    BY <1>3 DEF Tick
  <2>4. RowsInOrder'
    BY <2>2, <2>3 DEF Order, RowsInOrder
  <2>5. AvailableInHand'
    BY <2>1, <2>2 DEF Order, AvailableInHand
  <2> QED BY <2>2, <2>4, <2>5 DEF Order, Unfailing
<1>4. CASE \E d \in Domains : Drop(d) \/ Snipe(d) \/ LateRegister(d)
  <2>1. UNCHANGED << row, phase, pc, job >>
    BY <1>4 DEF Drop, Snipe, LateRegister
  <2>2. At' = At /\ Current' = Current
    BY <2>1 DEF At, Current
  <2> QED BY <2>1, <2>2, NoRowMoves DEF Order, Unfailing
<1> QED BY <1>1, <1>2, <1>3, <1>4 DEF Environment

\* What is sent, answered and asked changes no row.
LEMMA RequestInOrder ==
  ASSUME StatusInv, Order,
         \/ SendRegister("daemon") \/ RegisterReply("daemon")
         \/ RegisterTimesOut("daemon") \/ ConfirmReply("daemon")
  PROVE  Order'
<1>1. /\ At \in { "register", "registering", "confirm" } /\ UNCHANGED << row, phase >>
      /\ \E point \in { "registering", "finish", "uncertain", "confirmed" } :
           Goto("daemon", point)
  BY DEF SendRegister, RegisterReply, RegisterTimesOut, ConfirmReply, At
<1>2. At' \in { "registering", "finish", "uncertain", "confirmed" }
  BY <1>1, Goes DEF StatusInv
<1> QED BY <1>1, <1>2, NoRowMoves DEF InHand

LEMMA OrderNext ==
  ASSUME Commands = {}, HandsKept, LockInv, Order, [Next]_vars
  PROVE  Order'
<1>0. pc["cli"] = "down" /\ StatusInv /\ "garbled" \notin Faults
  BY DEF LockInv, StatusInv, Alone, HandsKept, LocksKept
<1>1. CASE DaemonStep
  <2>1. ~RegisterPreviouslyAvailable
    BY DEF RegisterPreviouslyAvailable, Order, Unfailing, At
  <2> QED BY <1>0, <1>1, <2>1, ExpireInOrder, SelectInOrder, StartCheckInOrder,
          ScheduleInOrder, MarkInOrder DEF DaemonStep
<1>2. CASE Step("daemon")
  <2>1. ~RegisterGarbled("daemon")
    BY <1>0 DEF RegisterGarbled
  <2> QED BY <1>0, <1>2, <2>1, RecoverInOrder, SearchInOrder, CheckPriceInOrder,
          SimulatedInOrder, LoadInOrder, CommitInOrder, RequestInOrder,
          RecordInOrder, FinishRecords, PendingDoubts, FinishConcludes DEF Step
<1>3. ~Step("cli")
  BY <1>0 DEF Step, Recover, SearchReply, SearchFails, CheckPrice, MarkSimulated,
              LoadForRegister, CommitLock, SendRegister, RegisterReply,
              RegisterTimesOut, RegisterGarbled, FinishRegistration,
              MarkPendingConfirmation, ConfirmReply, FinishConfirmation
<1>4. ~Operator
  BY <1>0 DEF Operator, Pause, Resume, Run, RunMarksAvailable
<1>5. CASE Environment
  BY <1>0, <1>5, EnvironmentInOrder
<1>6. CASE UNCHANGED vars
  BY <1>6, NoRowMoves DEF vars, At, Current, Order, Unfailing
<1> QED BY <1>1, <1>2, <1>3, <1>4, <1>5, <1>6 DEF Next, Procs

LEMMA OrderInit == Init => Order
<1> SUFFICES ASSUME Init PROVE Order
  OBVIOUS
<1>1. \A d \in Domains :
        Status[d] = IF phase[d] = "before" THEN "scheduled" ELSE "watching"
  BY DEF Init, Status
<1>2. At = "down"
  BY DEF Init, At, Procs
<1> QED BY <1>1, <1>2 DEF Order, RowsInOrder, AvailableInHand, Unfailing

\* No InvalidTransition and no API error reaches the top of the daemon that
\* works alone, whatever fails but the reading of a reply to Register, and
\* however often it is killed and started again with no row in its hands:
\* recover, _expire_or_rollover and the registration service are total over
\* the rows it meets.
THEOREM NothingUnhandled ==
  ASSUME Commands = {}, HandsKept
  PROVE  Spec => []NoUnhandledError
<1>1. Init => LockInv /\ Order
  BY PurchaseInit, OrderInit DEF PurchaseInv
<1>2. LockInv /\ Order /\ [Next]_vars => (LockInv /\ Order)'
  BY LockNext, OrderNext DEF HandsKept
<1>3. Order => NoUnhandledError
  BY DEF Order, Unfailing, At, NoUnhandledError
<1> QED BY <1>1, <1>2, <1>3, PTL DEF Spec
=============================================================================

-------------------------- MODULE DomainScheduler ---------------------------
(***************************************************************************)
(* DomainScheduler (src/domainbot/scheduler.py) and the search it waits    *)
(* for (services/availability.py).  The daemon runs recover and then       *)
(* run_once for ever; a resume command runs recover, a run command the     *)
(* search.  run_once reads the clock once, before it selects a row: the    *)
(* environment therefore moves no window while the daemon is at "select"   *)
(* or "start".                                                             *)
(***************************************************************************)
EXTENDS DomainStore

(* The window of a row, as _align_domain_schedule and _expire_or_rollover  *)
(* leave it at the present phase.                                          *)

\* The new window of a daily row whose window is over: the next one, except
\* that a window of a day or longer is open again already, unless the day has
\* repeated an hour and the next one begins within it.
RolledPhases(d) ==
  CASE phase[d] = "over" /\ Schedule[d] = "daily" -> { "before" }
    [] phase[d] = "over" /\ Schedule[d] = "always" -> { "open", "before" }
    [] OTHER -> { phase[d] }

Rollovers ==
  { rolled \in [Domains -> Phases] :
      \A d \in Domains : rolled[d] \in RolledPhases(d) }

PhaseStatus(ph) ==
  CASE ph = "before" -> "scheduled"
    [] ph = "open" -> "watching"
    [] ph = "over" -> "expired"

\* Mutant: a window to come is not given its first check.
NextForgotten(ph) == IF ph = "open" THEN "soon" ELSE "none"

PhaseNext(ph) ==
  CASE ph = "before" -> "start" [] ph = "open" -> "soon" [] ph = "over" -> "none"

\* d is rolled over, scheduled, watched or expired according to its window ph.
Realigned(d, ph) ==
  [row[d] EXCEPT !.status = PhaseStatus(ph), !.next = PhaseNext(ph)]

\* Mutant: a watched row is left out.
RolloverFromUnwatched == { "pending", "scheduled", "expired", "error", "taken" }

RolloverFrom ==
  { "pending", "scheduled", "watching", "expired", "error", "taken" }

\* allowed_from_any of the transition _align_domain_schedule makes.
AlignFrom(d) ==
  CASE phase[d] = "over" /\ Schedule[d] # "once" -> RolloverFrom
    [] phase[d] = "before" -> { "pending", "error", "taken" }
    [] phase[d] = "open" ->
         { "pending", "scheduled", "error", "taken", "available" }
    [] OTHER -> { "pending", "scheduled", "watching", "error", "taken" }

CanAlign(d, ph) == CanApply(row[d].status, PhaseStatus(ph), AlignFrom(d))

\* _expire_or_rollover does not raise for a row whose window is over.
CanExpire(d, ph) ==
  CanApply(row[d].status, PhaseStatus(ph),
           IF Schedule[d] = "once"
             THEN { "watching", "scheduled", "error", "taken" }
             ELSE RolloverFrom)

\* Commits the realigned rows of the set moved, whose windows roll over.
Realign(moved, rolled) ==
  /\ row' = [d \in Domains |->
               IF d \in moved THEN Realigned(d, rolled[d]) ELSE row[d]]
  /\ phase' = [d \in Domains |-> IF d \in moved THEN rolled[d] ELSE phase[d]]

-----------------------------------------------------------------------------
(* recover: one session over every row, then one confirmation for each     *)
(* registration whose outcome is unknown.                                  *)

\* Mutant: registered rows are confirmed as well.
UncertainOrRegistered ==
  { d \in Domains :
      row[d].status \in { "registration_pending_confirmation", "registered" } }

Uncertain ==
  { d \in Domains : row[d].status = "registration_pending_confirmation" }

\* Mutant: an uncertain registration is aligned like any other row.
RecoverSkipsSettled(d) ==
  \/ row[d].status \in { "registered", "paused", "disabled", "price_exceeded" }
  \/ row[d].status = "available" /\ row[d].simulated

RecoverSkips(d) ==
  \/ row[d].status \in { "registered", "paused", "disabled", "price_exceeded" }
  \/ d \in Uncertain
  \/ row[d].status = "available" /\ row[d].simulated

Recover(p) ==
  LET aligned == { d \in Domains : ~RecoverSkips(d) }
  IN  /\ pc[p] = "recover"
      /\ \E rolled \in Rollovers :
           IF \A d \in aligned : CanAlign(d, rolled[d])
             THEN /\ Realign(aligned, rolled)
                  /\ IF Uncertain = {}
                       THEN Return(p)
                       ELSE /\ Goto(p, "confirm")
                            /\ job' = [job EXCEPT ![p].todo = Uncertain]
                  /\ UNCHANGED remote
             ELSE Raise(p)

-----------------------------------------------------------------------------
(* run_once of the daemon. *)

\* Mutant: rows in error are left out.
ExpireDueWindowsExceptErrors ==
  LET due == { d \in Domains : /\ phase[d] = "over"
                               /\ row[d].status \in { "watching", "scheduled" } }
  IN  /\ pc["daemon"] = "loop"
      /\ \E rolled \in Rollovers : Realign(due, rolled)
      /\ Goto("daemon", "select")
      /\ UNCHANGED << remote, job >>

\* Rows whose window ended are expired or rolled over in one session; an
\* available row is left as it is.
ExpireDueWindows ==
  LET due == { d \in Domains : /\ phase[d] = "over"
                               /\ row[d].status \in ActiveMonitorStatuses
                               /\ row[d].status # "available" }
  IN  /\ pc["daemon"] = "loop"
      /\ \E rolled \in Rollovers :
           IF \A d \in due : CanExpire(d, rolled[d])
             THEN /\ Realign(due, rolled)
                  /\ Goto("daemon", "select")
                  /\ UNCHANGED << remote, job >>
             ELSE Raise("daemon")

\* next_check_at may have come, and has certainly come.
MayBeDue(d) ==
  /\ row[d].status \in ActiveMonitorStatuses
  /\ \/ row[d].next = "soon"
     \/ row[d].next = "start" /\ phase[d] # "before"

IsDue(d) == MayBeDue(d) /\ row[d].next = "start"

\* Any row that may be due can be the earliest one.
SelectDueDomain(d) ==
  /\ pc["daemon"] = "select"
  /\ MayBeDue(d)
  /\ Goto("daemon", IF row[d].status = "available" THEN "previous" ELSE "start")
  /\ job' = [job EXCEPT !["daemon"].d = d]
  /\ UNCHANGED << row, phase, remote >>

\* Nothing is due: the daemon sleeps and starts the next cycle.
NothingDue ==
  /\ pc["daemon"] = "select"
  /\ \A d \in Domains : ~IsDue(d)
  /\ Goto("daemon", "loop")
  /\ UNCHANGED << row, phase, remote, job >>

\* The session before the search reloads the row that was selected.
StartCheck ==
  LET d == job["daemon"].d
  IN  /\ pc["daemon"] = "start"
      /\ IF row[d].status \in SkipStatuses
           THEN Return("daemon") /\ UNCHANGED << row, phase, remote >>
         ELSE IF phase[d] = "before"
           THEN /\ row' = [row EXCEPT ![d].next = "start"]
                /\ Return("daemon")
                /\ UNCHANGED << phase, remote >>
         ELSE IF phase[d] = "over"
           THEN \E rolled \in Rollovers :
                  IF CanExpire(d, rolled[d])
                    THEN /\ Realign({d}, rolled)
                         /\ Return("daemon")
                         /\ UNCHANGED remote
                    ELSE Raise("daemon")
         ELSE Transition("daemon", "watching", row[d],
                         Goto("daemon", "search") /\ UNCHANGED job)

\* An available row that is due again is registered at the price last seen.
RegisterPreviouslyAvailable ==
  /\ pc["daemon"] = "previous"
  /\ Goto("daemon", "available")
  /\ job' = [job EXCEPT !["daemon"].quote = row[job["daemon"].d].price]
  /\ UNCHANGED << row, phase, remote >>

-----------------------------------------------------------------------------
(* check_domain, run by the daemon and by the run command. *)

\* The registry's answer arrives and _record_result stores it.
SearchReply(p) ==
  LET d == job[p].d
  IN  /\ pc[p] = "search"
      /\ \E quote \in Prices :
           /\ row' = [row EXCEPT ![d].simulated = FALSE,
                                 ![d].price = IF quote = "unknown" THEN @ ELSE quote]
           /\ \/ /\ reg[d] = "free"
                 /\ Goto(p, "mark")
                 /\ job' = [job EXCEPT ![p].quote = quote]
              \/ /\ reg[d] # "free"
                 /\ p = "daemon"
                 /\ Goto(p, "resched")
                 /\ UNCHANGED job
              \/ /\ reg[d] # "free"
                 /\ p = "cli"
                 /\ Return(p)
      /\ UNCHANGED << phase, remote >>

\* The last retry fails and _record_failure stores why, or Dynadot answers
\* something that is not JSON and nothing is stored.
SearchFails(p) ==
  LET d == job[p].d
  IN  /\ pc[p] = "search"
      /\ "search_failure" \in Faults
      /\ \E recorded \in BOOLEAN :
           row' = [row EXCEPT ![d].simulated = @ /\ ~recorded]
      /\ IF p = "daemon" THEN Goto(p, "backoff") /\ UNCHANGED job ELSE Return(p)
      /\ UNCHANGED << phase, remote >>

\* The next search is planned, at the latest for the end of the window.
Rescheduled(d) == [row[d] EXCEPT !.next = "soon", !.status = "watching"]

ScheduleNextCheck ==
  LET d == job["daemon"].d
  IN  /\ pc["daemon"] = "resched"
      /\ row' = IF row[d].status \in SkipStatuses THEN row
                ELSE [row EXCEPT ![d] = Rescheduled(d)]
      /\ Return("daemon")
      /\ UNCHANGED << phase, remote >>

ScheduleAfterFailure ==
  LET d == job["daemon"].d
  IN  /\ pc["daemon"] = "backoff"
      /\ row' = IF row[d].status \in SkipStatuses THEN row
                ELSE [row EXCEPT ![d] = [Rescheduled(d) EXCEPT !.simulated = FALSE]]
      /\ Return("daemon")
      /\ UNCHANGED << phase, remote >>

\* The daemon moves a watched row to available, and clears next_check_at of
\* the row whatever its status.
MarkAvailable ==
  LET d == job["daemon"].d
  IN  /\ pc["daemon"] = "mark"
      /\ row' = [row EXCEPT
                   ![d].status = IF @ = "watching" THEN "available" ELSE @,
                   ![d].next = "none",
                   ![d].price = IF job["daemon"].quote = "unknown"
                                  THEN @ ELSE job["daemon"].quote]
      /\ Goto("daemon", "available")
      /\ UNCHANGED << phase, remote, job >>
=============================================================================

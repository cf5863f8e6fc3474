------------------------ MODULE RegistrationService -------------------------
(***************************************************************************)
(* RegistrationService (src/domainbot/services/registration.py) with the   *)
(* calls of DynadotClient it makes: the price check, the registration      *)
(* lock, the Register request, and the confirmation of a request whose     *)
(* outcome is unknown.  Run by the daemon and by the run command; resume   *)
(* runs the confirmations.                                                 *)
(***************************************************************************)
EXTENDS DomainStore

(* handle_available, up to the request. *)

\* Mutant: the dry run is forgotten.
CheckPriceOnly(p) ==
  /\ pc[p] = "available"
  /\ job[p].quote # "over"
  /\ Goto(p, "lock")
  /\ UNCHANGED << row, phase, remote, job >>

\* The quote of the search decides; the row it is charged to may have moved.
CheckPrice(p) ==
  /\ pc[p] = "available"
  /\ IF job[p].quote = "over"
       THEN Transition(p, "price_exceeded",
                       [row[job[p].d] EXCEPT !.next = "none", !.simulated = FALSE],
                       Return(p))
       ELSE /\ ~job[p].dry
            /\ Goto(p, "lock")
            /\ UNCHANGED << row, phase, remote, job >>

\* --dry-run records a simulated registration instead of sending one.
MarkSimulated(p) ==
  /\ pc[p] = "available"
  /\ job[p].quote # "over"
  /\ job[p].dry
  /\ row' = [row EXCEPT ![job[p].d].status = "available",
                        ![job[p].d].next = "none",
                        ![job[p].d].simulated = TRUE]
  /\ Return(p)
  /\ UNCHANGED << phase, remote >>

\* Statuses in which _begin_registration exits without a lock.
LockedOut ==
  { "registered", "registering", "registration_pending_confirmation",
    "price_exceeded", "paused", "disabled" }

\* _begin_registration has read the row.  A watched row passes through
\* available on its way to registering.
LoadForRegister(p) ==
  LET r == row[job[p].d]
      from == IF r.status = "watching" THEN "available" ELSE r.status
  IN  /\ pc[p] = "lock"
      /\ IF r.status \in LockedOut
           THEN Return(p) /\ UNCHANGED << row, phase, remote >>
         ELSE IF r.attempts >= MaxAttempts \/ CanApply(from, "registering", {})
           THEN /\ Goto(p, "commit")
                /\ job' = [job EXCEPT ![p].seen = r.attempts]
                /\ UNCHANGED << row, phase, remote >>
         ELSE Raise(p)

\* Mutants: one attempt too many; the attempt is not counted; the request is
\* sent from an available row.
CommitLockTooLate(p) ==
  /\ pc[p] = "commit"
  /\ row' = [row EXCEPT ![job[p].d].status = "registering",
                        ![job[p].d].attempts = job[p].seen + 1]
  /\ Goto(p, "register")
  /\ UNCHANGED << phase, remote, job >>

CommitLockUncounted(p) ==
  /\ pc[p] = "commit"
  /\ row' = [row EXCEPT ![job[p].d].status = "registering"]
  /\ Goto(p, "register")
  /\ UNCHANGED << phase, remote, job >>

CommitLockUnmarked(p) ==
  /\ pc[p] = "commit"
  /\ job[p].seen < MaxAttempts
  /\ row' = [row EXCEPT ![job[p].d].attempts = job[p].seen + 1]
  /\ Goto(p, "register")
  /\ UNCHANGED << phase, remote, job >>

\* _begin_registration commits what it decided on the row it had read: no
\* attempts are left, or the lock is taken and the attempt counted.
CommitLock(p) ==
  LET d == job[p].d
  IN  /\ pc[p] = "commit"
      /\ \/ /\ job[p].seen >= MaxAttempts
            /\ row' = [row EXCEPT ![d].status = "error", ![d].simulated = FALSE]
            /\ Return(p)
         \/ /\ job[p].seen < MaxAttempts
            /\ row' = [row EXCEPT ![d].status = "registering",
                                  ![d].attempts = job[p].seen + 1]
            /\ Goto(p, "register")
            /\ UNCHANGED job
      /\ UNCHANGED << phase, remote >>

-----------------------------------------------------------------------------
(* The Register request.  Dynadot grants a free name and refuses any other. *)

SendRegister(p) ==
  /\ pc[p] = "register"
  /\ sent' = [sent EXCEPT ![job[p].d] = @ + 1]
  /\ Goto(p, "registering")
  /\ UNCHANGED << row, phase, reg, late, job >>

Grant(d) == reg' = [reg EXCEPT ![d] = IF @ = "free" THEN "ours" ELSE @]

RegisterReply(p) ==
  LET d == job[p].d
      Reply(answer) == job' = [job EXCEPT ![p].answer = answer]
  IN  /\ pc[p] = "registering"
      /\ \/ reg[d] = "free" /\ Grant(d) /\ Reply("success")
         \/ reg[d] # "free" /\ Reply("refused") /\ UNCHANGED reg
         \/ "rejected" \in Faults /\ Reply("rejected") /\ UNCHANGED reg
      /\ Goto(p, "finish")
      /\ UNCHANGED << row, phase, late, sent >>

\* What may have become of a request whose reply never arrived or could not
\* be read: processed, lost, or still on its way.
RegisterOutcome(d) ==
  \/ Grant(d) /\ UNCHANGED late
  \/ UNCHANGED << reg, late >>
  \/ "late" \in Faults /\ late' = late \cup { d } /\ UNCHANGED reg

\* Mutants: Register is retried at once; the timeout is only logged.
RegisterRetried(p) ==
  /\ pc[p] = "registering"
  /\ RegisterOutcome(job[p].d)
  /\ Goto(p, "register")
  /\ UNCHANGED << row, phase, sent, job >>

RegisterTimeoutLogged(p) ==
  /\ pc[p] = "registering"
  /\ RegisterOutcome(job[p].d)
  /\ Return(p)
  /\ UNCHANGED << row, phase, sent >>

\* DynadotNetworkError, the only exception handle_available catches.
RegisterTimesOut(p) ==
  /\ pc[p] = "registering"
  /\ Faults \cap { "timeout", "late" } # {}
  /\ RegisterOutcome(job[p].d)
  /\ Goto(p, "uncertain")
  /\ UNCHANGED << row, phase, sent, job >>

\* DynadotAPIError: nothing catches it before the process ends.
RegisterGarbled(p) ==
  /\ pc[p] = "registering"
  /\ "garbled" \in Faults
  /\ RegisterOutcome(job[p].d)
  /\ Goto(p, IF p = "daemon" THEN "failed" ELSE "down")
  /\ Forget(p, FALSE)
  /\ UNCHANGED << row, phase, sent >>

\* Mutant: a success is left to be confirmed.
FinishUnsure(p) ==
  /\ pc[p] = "finish"
  /\ Transition(p, "registration_pending_confirmation", row[job[p].d], Return(p))

FinishRegistration(p) ==
  LET r == [row[job[p].d] EXCEPT !.simulated = FALSE]
  IN  /\ pc[p] = "finish"
      /\ \/ /\ job[p].answer = "success"
            /\ Transition(p, "registered", [r EXCEPT !.next = "none"], Return(p))
         \/ /\ job[p].answer = "refused"
            /\ Transition(p, "watching", r, Return(p))
         \/ /\ job[p].answer = "rejected"
            /\ Transition(p, "error", [r EXCEPT !.next = "none"], Return(p))

MarkPendingConfirmation(p) ==
  /\ pc[p] = "uncertain"
  /\ Transition(p, "registration_pending_confirmation",
                [row[job[p].d] EXCEPT !.simulated = FALSE],
                /\ Goto(p, "confirm")
                /\ job' = [job EXCEPT ![p].todo = { job[p].d }])

-----------------------------------------------------------------------------
(* confirm_uncertain_registration. *)

\* What one command of confirm_registration meets.  An "answer" tells the
\* truth about the account.
ReplyKinds ==
  { "answer" } \cup (Faults \cap { "garbage", "neterr", "refusal", "lookalike" })

\* Mutants: an error that names the domain counts as finding it; a network
\* error counts as not finding it.
VerdictWithoutCode(replies, owned) ==
  IF \E i \in 1..3 : replies[i] \in { "answer", "refusal" } /\ (owned \/ replies[i] = "refusal")
    THEN "registered" ELSE "not_found"

VerdictDespiteError(replies, owned) ==
  IF owned /\ \E i \in 1..3 : replies[i] = "answer"
    THEN "registered" ELSE "not_found"

\* domain_info, list_domain, order_list, in this order: the first one that
\* shows the name ends the search and so does a network error; a reply that
\* is not JSON is skipped; any other reply counts as "not here".
ConfirmVerdict(replies, owned) ==
  LET found == { i \in 1..3 : \/ replies[i] = "answer" /\ owned
                              \/ replies[i] = "lookalike" }
      broken == { i \in 1..3 : replies[i] = "neterr" }
  IN  IF \E i \in found : \A j \in broken : i < j THEN "registered"
      ELSE IF broken # {} \/ \A i \in 1..3 : replies[i] = "garbage" THEN "unknown"
      ELSE "not_found"

\* One registration of those to be confirmed is asked about.
ConfirmReply(p) ==
  /\ pc[p] = "confirm"
  /\ \E d \in job[p].todo, replies \in [1..3 -> ReplyKinds] :
       job' = [job EXCEPT ![p].d = d, ![p].todo = @ \ { d },
                          ![p].answer = ConfirmVerdict(replies, reg[d] = "ours")]
  /\ Goto(p, "confirmed")
  /\ UNCHANGED << row, phase, remote >>

ConfirmNext(p) ==
  IF job[p].todo = {} THEN Return(p) ELSE Goto(p, "confirm") /\ UNCHANGED job

\* A verdict moves the row through the state machine; without one the row is
\* set to registration_pending_confirmation whatever it had become.
FinishConfirmation(p) ==
  LET d == job[p].d
      r == [row[d] EXCEPT !.simulated = FALSE]
  IN  /\ pc[p] = "confirmed"
      /\ \/ /\ job[p].answer = "registered"
            /\ Transition(p, "registered", [r EXCEPT !.next = "none"], ConfirmNext(p))
         \/ /\ job[p].answer = "not_found"
            /\ Transition(p, "watching", r, ConfirmNext(p))
         \/ /\ job[p].answer = "unknown"
            /\ row' = [row EXCEPT ![d] =
                         [r EXCEPT !.status = "registration_pending_confirmation"]]
            /\ ConfirmNext(p)
            /\ UNCHANGED << phase, remote >>
=============================================================================

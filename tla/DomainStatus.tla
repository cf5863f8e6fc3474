---------------------------- MODULE DomainStatus ----------------------------
(***************************************************************************)
(* The status of a watched domain and the transitions between statuses:    *)
(* src/domainbot/state_machine.py.  Constant operators only; every other   *)
(* module goes through CanApply where the code calls apply_transition and  *)
(* assigns a status directly where the code bypasses it.                   *)
(***************************************************************************)

DomainStatuses ==
  { "pending", "scheduled", "watching", "available", "registering",
    "registration_pending_confirmation", "registered", "taken", "paused",
    "expired", "price_exceeded", "error", "disabled" }

\* Rows a scheduling step leaves alone.
SkipStatuses ==
  { "registered", "paused", "disabled", "expired", "price_exceeded" }

\* Rows the scheduler may select for a search.
ActiveMonitorStatuses ==
  { "pending", "scheduled", "watching", "available", "error" }

\* The targets the table allows from each status.
AllowedTransitions ==
  [ s \in DomainStatuses |->
      CASE s = "pending" ->
             { "scheduled", "watching", "paused", "disabled", "error" }
        [] s = "scheduled" ->
             { "watching", "paused", "expired", "disabled", "error" }
        [] s = "watching" ->
             { "available", "price_exceeded", "paused", "expired", "taken",
               "disabled", "error", "watching" }
        [] s = "available" ->
             { "registering", "paused", "expired", "price_exceeded", "error" }
        [] s = "registering" ->
             { "registered", "registration_pending_confirmation", "watching",
               "error", "price_exceeded" }
        [] s = "registration_pending_confirmation" ->
             { "registered", "watching", "error", "paused" }
        [] s = "taken" ->
             { "watching", "scheduled", "paused", "expired", "disabled" }
        [] s = "paused" -> { "scheduled", "watching", "disabled" }
        [] s = "expired" -> { "scheduled", "disabled" }
        [] s = "price_exceeded" -> { "paused", "disabled" }
        [] s = "error" ->
             { "watching", "scheduled", "paused", "disabled",
               "registration_pending_confirmation" }
        [] s \in { "registered", "disabled" } -> {} ]

\* validate_transition does not raise.
ValidTransition(current, target) ==
  current = target \/ target \in AllowedTransitions[current]

\* apply_transition(obj, target, allowed_from_any) does not raise
\* InvalidTransition for an object whose status is current.
CanApply(current, target, allowedFrom) ==
  current \in allowedFrom \/ ValidTransition(current, target)
=============================================================================

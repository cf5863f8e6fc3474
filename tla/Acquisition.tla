---------------------------- MODULE Acquisition -----------------------------
(***************************************************************************)
(* What the program promises about buying a name, without schedules,       *)
(* sessions or API calls: a name is bought only while a registration of it *)
(* is under way, and the program stops following a registration only when  *)
(* it knows whether the name was bought.                                   *)
(***************************************************************************)
CONSTANT Domains

VARIABLES
  stance,  \* what the program knows of its attempt on each name
  holder   \* who holds each name

Stances == { "idle", "trying", "unsure", "owned" }

Init ==
  /\ stance = [ d \in Domains |-> "idle" ]
  /\ holder \in [Domains -> { "free", "other" }]

Become(d, to) == stance' = [stance EXCEPT ![d] = to] /\ UNCHANGED holder

\* A registration begins for a name that is not ours.
Try(d) == stance[d] = "idle" /\ holder[d] # "ours" /\ Become(d, "trying")

\* The registry sells the name.
Buy(d) ==
  /\ stance[d] = "trying"
  /\ holder[d] = "free"
  /\ holder' = [holder EXCEPT ![d] = "ours"]
  /\ UNCHANGED stance

\* The outcome becomes known, or is known to be unknown.
Win(d) ==
  stance[d] \in { "trying", "unsure" } /\ holder[d] = "ours" /\ Become(d, "owned")

Lose(d) ==
  stance[d] \in { "trying", "unsure" } /\ holder[d] # "ours" /\ Become(d, "idle")

Doubt(d) == stance[d] = "trying" /\ Become(d, "unsure")

\* Other people drop and register names.
Trade(d) ==
  /\ holder[d] # "ours"
  /\ holder' = [holder EXCEPT ![d] = IF @ = "free" THEN "other" ELSE "free"]
  /\ UNCHANGED stance

Next ==
  \E d \in Domains :
    Try(d) \/ Buy(d) \/ Win(d) \/ Lose(d) \/ Doubt(d) \/ Trade(d)

Spec == Init /\ [][Next]_<< stance, holder >>
=============================================================================

----------------------------- MODULE MCAPIQueue -----------------------------
(***************************************************************************)
(* A small instance of APIQueue for TLC: a Register and two searches, with *)
(* their priorities in APIPriority (src/domainbot/dynadot/schemas.py).     *)
(***************************************************************************)
EXTENDS APIQueue, TLC

CONSTANTS register, search1, search2, w1, w2

RegisterAndSearches == register :> 0 @@ search1 :> 10 @@ search2 :> 10
=============================================================================

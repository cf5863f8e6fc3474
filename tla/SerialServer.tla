---------------------------- MODULE SerialServer ----------------------------
(***************************************************************************)
(* What the API queue promises the services that call it: a call that is   *)
(* submitted is sent at most once, nothing is sent that was not submitted, *)
(* and one request is under way at a time.  DomainBot relies on it when it *)
(* counts one Register for each registration it submits.  APIQueue         *)
(* implements it.                                                          *)
(***************************************************************************)
CONSTANTS Calls, NoCall

VARIABLES
  pending,  \* calls submitted and not sent
  sent      \* the call under way

vars == << pending, sent >>

Submit(c) ==
  /\ c \notin pending /\ c # sent
  /\ pending' = pending \cup { c }
  /\ UNCHANGED sent

\* A request ends, if one is under way, and another is sent, if one is pending.
Turn ==
  \/ /\ sent' = NoCall
     /\ UNCHANGED pending
  \/ \E c \in pending :
       /\ sent' = c
       /\ pending' = pending \ { c }

Init == pending = {} /\ sent = NoCall

Next == Turn \/ \E c \in Calls : Submit(c)

Spec == Init /\ [][Next]_vars
=============================================================================

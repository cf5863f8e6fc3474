---------------------------- MODULE MCDomainBot -----------------------------
(***************************************************************************)
(* Small instances of DomainBot for TLC.                                   *)
(***************************************************************************)
EXTENDS DomainBot, TLC

CONSTANTS d1, d2

OneOnce == d1 :> "once"
OneDaily == d1 :> "daily"
OneAlways == d1 :> "always"
OnceAndAlways == d1 :> "once" @@ d2 :> "always"

AllPoints == PCs \ { "down", "failed" }

\* A process may be killed anywhere except while it holds the lock.
UnlockedPoints == AllPoints \ LockPoints

\* ... nor while it works on a row it has marked available, nor again and again
\* before recover has run.
RestartPoints == UnlockedPoints \ { "available", "lock", "commit", "recover" }
=============================================================================

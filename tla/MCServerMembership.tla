--------------------------- MODULE MCServerMembership ---------------------------
(***************************************************************************)
(* ServerMembership with two clients and room for both (the configuration  *)
(* of the run), with room for one, and with one client that sends requests *)
(* twice, too early or invalid to a server without a world.  The situation *)
(* is chosen initially and never changes.                                  *)
(***************************************************************************)
EXTENDS ServerMembership

CONSTANTS p1, p2,
          Situations    \* the situations the run covers

VARIABLE situation      \* the situation of this behaviour

Full == INSTANCE ServerMembership WITH MaxClients <- 1, LastEntity <- 1

Alien == INSTANCE ServerMembership
    WITH Foreign <- {p1}, Synthetic <- TRUE, LastEntity <- 1, MaxQueued <- 2

SituationInit ==
    /\ situation \in Situations
    /\ \/ situation = "both" /\ Init
       \/ situation = "full" /\ Full!Init
       \/ situation = "alien" /\ Alien!Init

\* With alien requests only one client connects, a bound of the run.
SituationNext ==
    /\ \/ situation = "both" /\ Next
       \/ situation = "full" /\ Full!Next
       \/ situation = "alien" /\ Alien!Next /\ phase'[p2] = "unknown"
    /\ UNCHANGED situation

SituationSpec == SituationInit /\ [][SituationNext]_<<vars, situation>>

FairSituationSpec == SituationSpec /\ Fairness
=============================================================================

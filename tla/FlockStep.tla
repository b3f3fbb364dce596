------------------------------ MODULE FlockStep ------------------------------
(***************************************************************************)
(* What one authoritative tick promises: every boid moves at once, from    *)
(* the boids before the tick and the player after it has moved, whichever  *)
(* worker computes which boid and when; or the tick fails and no boid      *)
(* moves at all.                                                           *)
(***************************************************************************)
EXTENDS Naturals

CONSTANTS
    Rows,              \* flock rows
    Poses,             \* states of a boid
    PlayerPoses,       \* states of a player's body
    NoPlayer,
    Inputs,            \* a player's latest inputs
    Moved(_, _),       \* a player's pose after a tick with an input
    Evaluate(_, _, _, _), \* a row's next pose from the boids, the player and the tick
    IsFinite(_),       \* a computed pose passes validation
    Influence          \* players lure or frighten boids

VARIABLES boids, player, ticks, failed

vars == <<boids, player, ticks, failed>>

Init ==
    /\ boids \in [Rows -> {pose \in Poses : IsFinite(pose)}]
    /\ player = NoPlayer
    /\ ticks = 0
    /\ failed = FALSE

\* The player of a connected client appears, or leaves with it.
ChangePlayer ==
    /\ ~failed
    /\ player' \in PlayerPoses \cup {NoPlayer}
    /\ UNCHANGED <<boids, ticks, failed>>

\* Where the player is after a tick; a pose out of range is not taken over.
After(input) ==
    IF player = NoPlayer \/ ~IsFinite(Moved(player, input)) THEN player
    ELSE Moved(player, input)

Tick ==
    /\ ~failed
    /\ \E input \in Inputs :
        /\ player' = After(input)
        /\ boids' = [r \in Rows |-> Evaluate(boids, IF Influence THEN After(input) ELSE NoPlayer, ticks, r)]
    /\ \A r \in Rows : IsFinite(boids'[r])
    /\ ticks' = ticks + 1
    /\ UNCHANGED failed

Fail ==
    /\ ~failed
    /\ \E input \in Inputs : player' = After(input)
    /\ failed' = TRUE
    /\ UNCHANGED <<boids, ticks>>

Next == ChangePlayer \/ Tick \/ Fail

Spec == Init /\ [][Next]_vars
=============================================================================

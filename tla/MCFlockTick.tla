----------------------------- MODULE MCFlockTick -----------------------------
(***************************************************************************)
(* FlockTick with three boids whose next pose depends on every boid, the   *)
(* player and the tick.                                                    *)
(***************************************************************************)
EXTENDS FlockTick

CONSTANT Broken     \* the pose that fails validation, as a range overflow does

ASSUME Broken \in Poses

MCIsFinite(pose) == pose # Broken

MCMoved(pose, direction) == (pose + direction) % Cardinality(PlayerPoses)

MCEvaluate(boids, source, tick, row) ==
    (boids[row] + 2 * MapThenSumSet(LAMBDA r : IF r = row THEN 0 ELSE boids[r], Rows)
      + (IF source = NoPlayer THEN 0 ELSE source) + tick) % Cardinality(Poses)

=============================================================================

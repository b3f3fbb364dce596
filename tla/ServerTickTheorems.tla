--------------------------- MODULE ServerTickTheorems --------------------------
(***************************************************************************)
(* What a tick of the server does is whole and in order. The flock: a tick *)
(* is one step of FlockStep, and the inspection and the report are those   *)
(* of the last tick, for every flock, every number of workers and every    *)
(* way to share the rows out to them. The entities: the index, the rows    *)
(* and the extraction follow them through every order of appends, spawns   *)
(* and deletes (AuthoritativeIndex). The schedule of the records of a      *)
(* peer: none waits longer than the documentation says, for every number   *)
(* of records, every cap and every interval (LevelOfDetailSchedule).       *)
(***************************************************************************)
EXTENDS MCServerTick, SequenceTheorems, FiniteSetTheorems, WellFoundedInduction, TLAPS

CONSTANTS Populations, Self, MediumInterval, FarInterval, SendInterval, Incremental,
          MaxEntities, MixedId, Cycle, Bands, MayFail

\* The schedule of any population at any rate.
Schedule == INSTANCE LevelOfDetailSchedule

Ticking == phase # "idle"

\* A tick has captured the boids, or the last one did.
Captured == phase # "capture"

\* The row's result of this tick.
Result(row) == Evaluate(current, sources, evaluationTick, row)

-----------------------------------------------------------------------------
(* The inductive invariant, in parts. *)

\* A tick begins with a finite state that has not failed, and the player moves first.
BegunInv ==
    /\ phase = "idle" \/ ~failed
    /\ Ticking => completed < MaxTicks
    /\ before.boids \in [Rows -> Poses] /\ before.player \in PlayerPoses \cup {NoPlayer}
    /\ Ticking => player = IF before.player = NoPlayer \/ ~IsFinite(Moved(before.player, input))
                           THEN before.player ELSE Moved(before.player, input)

\* The capture is of the boids before the tick and of the player after it has moved.
CaptureInv ==
    /\ Captured => current = before.boids
    /\ Captured /\ Ticking => /\ sources = IF Influence THEN player ELSE NoPlayer
                              /\ evaluationTick = completed

\* What is written is the result of the row, and what is committed was written; between
\* ticks the world is all of one tick, or none of it.
WorldInv ==
    /\ phase \in {"capture", "grid", "compute"} => world = before.boids
    /\ phase \in {"compute", "commit"} => \A row \in written : next[row] = Result(row)
    /\ phase = "commit" /\ phaseValid => written = Rows /\ \A row \in Rows : IsFinite(next[row])
    /\ phase = "commit" =>
        world = [row \in Rows |-> IF phaseValid /\ row \in committed THEN next[row]
                                  ELSE before.boids[row]]
    /\ phase = "idle" /\ phaseValid => \A row \in Rows : world[row] = Result(row)

\* Every boid written was counted by one worker.
CountInv ==
    /\ phase = "grid" => written = {} /\ workers = [w \in Workers |-> IdleWorker]
    /\ phase \in {"grid", "compute", "commit"} =>
        /\ IsFiniteSet(Processed)
        /\ Cardinality(Processed) = Cardinality(written)
    /\ phase = "commit" => merged = Cardinality(written)

\* At most the worker with the selected row holds a result, and it is that of this tick.
InspectionInv ==
    /\ phase \in {"grid", "compute"} =>
        /\ selectedDebug = NoSelection
        /\ \A w \in Workers : workers[w].selected # NoSelection =>
                /\ selectedId \in written
                /\ workers[w].selected = DebugOf(selectedId)
                /\ \A v \in Workers : workers[v].selected # NoSelection => v = w
    /\ phase \in {"commit", "idle"} /\ selectedDebug # NoSelection =>
        selectedId \in Rows /\ selectedDebug = DebugOf(selectedId)

Inv == TypeOK /\ BegunInv /\ CaptureInv /\ WorldInv /\ CountInv /\ InspectionInv

-----------------------------------------------------------------------------
(* Lemmas about the operators. *)

\* What Evaluate gives for a captured row is a pose, and so its inspection is a debug.
LEMMA DebugType ==
    ASSUME TypeOK, NEW row \in Rows
    PROVE  Result(row) \in Poses /\ DebugOf(row) \in Debugs /\ DebugOf(row) # NoSelection
<1>1. Result(row) \in Poses
    BY TickAssumption DEF TypeOK, Result
<1>2. DebugOf(row) = [row |-> row, pose |-> current[row], outcome |-> Result(row)]
    BY DEF DebugOf, Result
<1>3. current[row] \in Poses
    BY DEF TypeOK
<1>4. DebugOf(row) \in [row : Rows, pose : Poses, outcome : Poses]
    BY <1>1, <1>2, <1>3
<1> QED BY <1>1, <1>4, TickAssumption DEF Debugs

\* Where the player may be after it has moved.
LEMMA MovedType ==
    ASSUME TypeOK
    PROVE  (IF player = NoPlayer \/ ~IsFinite(Moved(player, input)) THEN player
            ELSE Moved(player, input)) \in PlayerPoses \cup {NoPlayer}
<1>1. CASE player \in PlayerPoses
    <2>1. Moved(player, input) \in PlayerPoses
        BY <1>1, TickAssumption DEF TypeOK
    <2> QED BY <1>1, <2>1
<1>2. CASE player = NoPlayer
    BY <1>2
<1> QED BY <1>1, <1>2 DEF TypeOK

\* The count of a worker never exceeds the boids: what it counted is part of all counted.
LEMMA CountBounded ==
    ASSUME NEW counts \in [Workers -> Nat], NEW w \in Workers,
           NEW S, S = UNION {{v} \X (1..counts[v]) : v \in Workers}, IsFiniteSet(S)
    PROVE  counts[w] <= Cardinality(S)
<1> DEFINE mine == {w} \X (1..counts[w])
           f == [i \in 1..counts[w] |-> <<w, i>>]
<1>1. mine \subseteq S
    OBVIOUS
<1>2. IsFiniteSet(mine) /\ Cardinality(mine) <= Cardinality(S)
    BY <1>1, FS_Subset
<1>3. f \in Bijection(1..counts[w], mine)
    <2>1. f \in [1..counts[w] -> mine]
        OBVIOUS
    <2>2. \A i, j \in 1..counts[w] : f[i] = f[j] => i = j
        OBVIOUS
    <2>3. \A p \in mine : \E i \in 1..counts[w] : f[i] = p
        OBVIOUS
    <2> QED BY <2>1, <2>2, <2>3 DEF Bijection, Injection, Surjection, IsInjective
<1>4. Cardinality(mine) = counts[w]
    <2>1. IsFiniteSet(1..counts[w]) /\ Cardinality(1..counts[w]) = counts[w]
        <3>1. counts[w] \in Nat
            OBVIOUS
        <3>2. Cardinality(1..counts[w]) = IF 1 <= counts[w] THEN counts[w] - 1 + 1 ELSE 0
            BY <3>1, FS_Interval
        <3> QED BY <3>1, <3>2, FS_Interval
    <2>2. ExistsBijection(1..counts[w], mine)
        BY <1>3 DEF ExistsBijection
    <2> QED BY <2>1, <2>2, <1>2, FS_Bijection
<1> QED BY <1>2, <1>4

\* One more boid of a worker is one more boid counted.
LEMMA CountGrows ==
    ASSUME NEW counts \in [Workers -> Nat], NEW w \in Workers,
           NEW more, more = [counts EXCEPT ![w] = @ + 1],
           NEW S, S = UNION {{v} \X (1..counts[v]) : v \in Workers}, IsFiniteSet(S),
           NEW T, T = UNION {{v} \X (1..more[v]) : v \in Workers}
    PROVE  IsFiniteSet(T) /\ Cardinality(T) = Cardinality(S) + 1
<1> DEFINE new == <<w, counts[w] + 1>>
<1>1. T = S \cup {new}
    <2>1. ASSUME NEW p \in T PROVE p \in S \cup {new}
        <3>1. PICK v \in Workers : p \in {v} \X (1..more[v])
            BY <2>1
        <3>2. PICK i \in 1..more[v] : p = <<v, i>>
            BY <3>1
        <3>3. CASE v = w /\ i = counts[w] + 1
            BY <3>2, <3>3
        <3>4. CASE ~(v = w /\ i = counts[w] + 1)
            <4>1. i \in 1..counts[v]
                BY <3>2, <3>4
            <4> QED BY <3>2, <4>1
        <3> QED BY <3>3, <3>4
    <2>2. ASSUME NEW p \in S \cup {new} PROVE p \in T
        <3>1. CASE p = new
            <4>1. counts[w] + 1 \in 1..more[w]
                OBVIOUS
            <4> QED BY <3>1, <4>1
        <3>2. CASE p \in S
            <4>1. PICK v \in Workers : p \in {v} \X (1..counts[v])
                BY <3>2
            <4>2. PICK i \in 1..counts[v] : p = <<v, i>>
                BY <4>1
            <4>3. i \in 1..more[v]
                BY <4>2
            <4> QED BY <4>2, <4>3
        <3> QED BY <3>1, <3>2
    <2> QED BY <2>1, <2>2
<1>2. new \notin S
    <2> SUFFICES ASSUME new \in S PROVE FALSE
        OBVIOUS
    <2>1. PICK v \in Workers : new \in {v} \X (1..counts[v])
        OBVIOUS
    <2>2. counts[w] + 1 \in 1..counts[w]
        BY <2>1
    <2> QED BY <2>2
<1> HIDE DEF new
<1>3. IsFiniteSet(S \cup {new}) /\ Cardinality(S \cup {new}) = Cardinality(S) + 1
    BY <1>2, FS_AddElement
<1> QED BY <1>1, <1>3

\* A row that is computed is counted once, and no worker counts more than all boids.
LEMMA ComputeCounts ==
    ASSUME Inv, NEW worker \in Workers, NEW row \in Rows, FlockCompute(worker, row)
    PROVE  /\ IsFiniteSet(Processed') /\ Cardinality(Processed') = Cardinality(written')
           /\ workers[worker].processed + 1 \in 0..Cardinality(Rows)
<1> DEFINE counts == [w \in Workers |-> workers[w].processed]
           more == [counts EXCEPT ![worker] = @ + 1]
           after == UNION {{v} \X (1..more[v]) : v \in Workers}
<1>1. counts \in [Workers -> Nat] /\ more \in [Workers -> Nat]
    BY DEF Inv, TypeOK
<1>2. Processed = UNION {{v} \X (1..counts[v]) : v \in Workers}
    BY DEF Processed
<1>3. Processed' = after
    <2>1. \A w \in Workers : workers'[w].processed = more[w]
        BY DEF FlockCompute, Inv, TypeOK
    <2>2. Processed' = UNION {{v} \X (1..workers'[v].processed) : v \in Workers}
        BY DEF Processed
    <2> HIDE DEF more
    <2> QED BY <2>1, <2>2
<1>4. IsFiniteSet(Processed) /\ Cardinality(Processed) = Cardinality(written)
    BY DEF FlockCompute, Inv, CountInv
<1> HIDE DEF counts
<1>5. IsFiniteSet(after) /\ Cardinality(after) = Cardinality(written) + 1
    <2>1. PICK m : m = [counts EXCEPT ![worker] = @ + 1]
        OBVIOUS
    <2>2. PICK a : a = UNION {{v} \X (1..m[v]) : v \in Workers}
        OBVIOUS
    <2>3. IsFiniteSet(a) /\ Cardinality(a) = Cardinality(Processed) + 1
        BY <1>1, <1>2, <1>4, <2>1, <2>2, CountGrows
    <2>4. a = after
        BY <2>1, <2>2
    <2> QED BY <1>4, <2>3, <2>4
<1>6. written' = written \cup {row} /\ row \notin written /\ written' \subseteq Rows
    BY DEF FlockCompute, Inv, TypeOK
<1>7. IsFiniteSet(written) /\ IsFiniteSet(written')
    <2>1. written \subseteq Rows
        BY DEF Inv, TypeOK
    <2> QED BY <1>6, <2>1, TickAssumption, FS_Subset
<1>8. Cardinality(written') = Cardinality(written) + 1
    BY <1>6, <1>7, FS_AddElement
<1>9. Cardinality(written') <= Cardinality(Rows) /\ Cardinality(Rows) \in Nat
    BY <1>6, TickAssumption, FS_Subset, FS_CardinalityType
<1>10. more[worker] <= Cardinality(after)
    <2> HIDE DEF more
    <2> QED BY <1>1, <1>5, CountBounded
<1>11. more[worker] = workers[worker].processed + 1 /\ more[worker] \in Nat
    BY <1>1 DEF counts
<1>12. Cardinality(after) = Cardinality(written') /\ Cardinality(after) \in Nat
    BY <1>5, <1>8, FS_CardinalityType
<1> HIDE DEF more, after
<1>13. more[worker] <= Cardinality(Rows)
    BY <1>9, <1>10, <1>11, <1>12
<1> QED BY <1>3, <1>5, <1>8, <1>9, <1>11, <1>13

\* The inspection that is merged is that of the one worker that has it.
LEMMA OneInspection ==
    ASSUME Inv, phase = "compute", NEW w \in Workers, workers[w].selected # NoSelection
    PROVE  Max({v \in Workers : workers[v].selected # NoSelection}) = w
<1> DEFINE found == {v \in Workers : workers[v].selected # NoSelection}
<1>1. found = {w}
    BY DEF Inv, InspectionInv
<1>2. w \in Nat /\ w >= w
    BY TickAssumption
<1> QED BY <1>1, <1>2 DEF Max

-----------------------------------------------------------------------------
(* The invariant is inductive: one lemma per part, and in it one step per action. *)

\* Every step keeps the types.
LEMMA TypeStep ==
    ASSUME Inv, [Next]_vars
    PROVE  TypeOK'
<1> USE DEF Inv, TypeOK, captured, selection
<1>1. CASE ChangePlayer
    BY <1>1 DEF ChangePlayer, Idle
<1>2. ASSUME NEW id \in Rows \cup {NoSelection, PlayerId}, SelectBoid(id) PROVE TypeOK'
    <2>1. selectedDebug' \in Debugs
        BY <1>2, DebugType DEF SelectBoid, Debugs
    <2> QED BY <1>2, <2>1 DEF SelectBoid, Idle
<1>3. CASE PlayerMovement
    <2>1. player' \in PlayerPoses \cup {NoPlayer}
        BY <1>3, MovedType DEF PlayerMovement
    <2> QED BY <1>3, <2>1 DEF PlayerMovement, Idle
<1>4. CASE FlockCapture
    <2>1. IdleWorker \in [processed : 0..Cardinality(Rows), selected : Debugs]
        <3>1. Cardinality(Rows) \in Nat
            BY TickAssumption, FS_CardinalityType
        <3>2. 0 \in 0..Cardinality(Rows)
            BY <3>1
        <3> QED BY <3>2 DEF IdleWorker, Debugs
    <2>2. workers' \in [Workers -> [processed : 0..Cardinality(Rows), selected : Debugs]]
        BY <1>4, <2>1 DEF FlockCapture, ResetWorkers
    <2>3. NoSelection \in Debugs /\ merged' \in 0..Cardinality(Rows)
        BY <1>4, TickAssumption, FS_CardinalityType DEF FlockCapture, Debugs
    <2>4. sources' \in PlayerPoses \cup {NoPlayer}
        BY <1>4 DEF FlockCapture
    <2>5. evaluationTick' \in 0..MaxTicks /\ lastDelta' \in 0..1
        BY <1>4 DEF FlockCapture
    <2> QED BY <1>4, <2>2, <2>3, <2>4, <2>5 DEF FlockCapture
<1>5. CASE FlockGridBuild
    BY <1>5 DEF FlockGridBuild
<1>6. ASSUME NEW worker \in Workers, NEW row \in Rows, FlockCompute(worker, row) PROVE TypeOK'
    <2>1. Result(row) \in Poses /\ DebugOf(row) \in Debugs
        BY DebugType
    <2>2. workers[worker].processed + 1 \in 0..Cardinality(Rows)
        BY <1>6, ComputeCounts
    <2>3. workers' \in [Workers -> [processed : 0..Cardinality(Rows), selected : Debugs]]
        <3> DEFINE new == [workers[worker] EXCEPT !.processed = @ + 1,
                              !.selected = IF selectedId = row THEN DebugOf(row) ELSE @]
        <3>1. workers[worker] \in [processed : 0..Cardinality(Rows), selected : Debugs]
            OBVIOUS
        <3>2. (IF selectedId = row THEN DebugOf(row) ELSE workers[worker].selected) \in Debugs
            BY <2>1, <3>1
        <3>3. new \in [processed : 0..Cardinality(Rows), selected : Debugs]
            BY <2>2, <3>1, <3>2
        <3>4. workers' = [workers EXCEPT ![worker] = new]
            BY <1>6 DEF FlockCompute
        <3> QED BY <3>3, <3>4
    <2>4. next' \in [Rows -> Poses] /\ current' = current
        BY <1>6, <2>1 DEF FlockCompute, Computed, Result
    <2> QED BY <1>6, <2>3, <2>4 DEF FlockCompute
<1>7. CASE FlockValidate
    <2>1. merged' \in 0..Cardinality(Rows)
        <3>1. Cardinality(Processed) = Cardinality(written)
            BY <1>7 DEF FlockValidate, CountInv
        <3>2. Cardinality(written) \in Nat /\ Cardinality(Rows) \in Nat
            /\ Cardinality(written) <= Cardinality(Rows)
            BY TickAssumption, FS_Subset, FS_CardinalityType
        <3> QED BY <1>7, <3>1, <3>2 DEF FlockValidate
    <2>2. selectedDebug' \in Debugs
        <3>1. CASE \A w \in Workers : workers[w].selected = NoSelection
            BY <1>7, <3>1 DEF FlockValidate
        <3>2. CASE \E w \in Workers : workers[w].selected # NoSelection
            <4>1. PICK w \in Workers : workers[w].selected # NoSelection
                BY <3>2
            <4>2. Max({v \in Workers : workers[v].selected # NoSelection}) = w
                BY <1>7, <4>1, OneInspection DEF FlockValidate
            <4>3. selectedDebug' = workers[w].selected
                BY <1>7, <4>1, <4>2 DEF FlockValidate
            <4> QED BY <4>3
        <3> QED BY <3>1, <3>2
    <2>3. phaseValid' \in BOOLEAN
        BY <1>7 DEF FlockValidate
    <2> QED BY <1>7, <2>1, <2>2, <2>3 DEF FlockValidate
<1>8. ASSUME NEW row \in Rows, FlockCommit(row) PROVE TypeOK'
    BY <1>8 DEF FlockCommit
<1>9. CASE FlockReport
    <2>1. completed' \in 0..MaxTicks
        BY <1>9, TickAssumption DEF FlockReport, BegunInv, Ticking
    <2> QED BY <1>9, <2>1 DEF FlockReport
<1>10. CASE UNCHANGED vars
    BY <1>10 DEF vars
<1> QED BY <1>1, <1>2, <1>3, <1>4, <1>5, <1>6, <1>7, <1>8, <1>9, <1>10 DEF Next

\* Every step keeps what a tick begins with (prepare_server_game_runtime).
LEMMA BegunStep ==
    ASSUME Inv, [Next]_vars
    PROVE  BegunInv'
<1> USE DEF Inv, TypeOK, BegunInv, Ticking, captured, selection
<1>1. CASE ChangePlayer
    BY <1>1 DEF ChangePlayer, Idle
<1>2. ASSUME NEW id \in Rows \cup {NoSelection, PlayerId}, SelectBoid(id) PROVE BegunInv'
    BY <1>2 DEF SelectBoid, Idle
<1>3. CASE PlayerMovement
    BY <1>3 DEF PlayerMovement, Idle
<1>4. CASE FlockCapture
    BY <1>4 DEF FlockCapture
<1>5. CASE FlockGridBuild
    BY <1>5 DEF FlockGridBuild
<1>6. ASSUME NEW worker \in Workers, NEW row \in Rows, FlockCompute(worker, row) PROVE BegunInv'
    BY <1>6 DEF FlockCompute
<1>7. CASE FlockValidate
    BY <1>7 DEF FlockValidate
<1>8. ASSUME NEW row \in Rows, FlockCommit(row) PROVE BegunInv'
    BY <1>8 DEF FlockCommit
<1>9. CASE FlockReport
    BY <1>9 DEF FlockReport
<1>10. CASE UNCHANGED vars
    BY <1>10 DEF vars
<1> QED BY <1>1, <1>2, <1>3, <1>4, <1>5, <1>6, <1>7, <1>8, <1>9, <1>10 DEF Next

\* Every step keeps what the tick captured (FlockCapture).
LEMMA CaptureStep ==
    ASSUME Inv, [Next]_vars
    PROVE  CaptureInv'
<1> USE DEF Inv, TypeOK, CaptureInv, Captured, Ticking, captured, selection
<1>1. CASE ChangePlayer
    BY <1>1 DEF ChangePlayer, Idle
<1>2. ASSUME NEW id \in Rows \cup {NoSelection, PlayerId}, SelectBoid(id) PROVE CaptureInv'
    BY <1>2 DEF SelectBoid, Idle
<1>3. CASE PlayerMovement
    BY <1>3 DEF PlayerMovement, Idle
<1>4. CASE FlockCapture
    BY <1>4 DEF FlockCapture, WorldInv
<1>5. CASE FlockGridBuild
    BY <1>5 DEF FlockGridBuild
<1>6. ASSUME NEW worker \in Workers, NEW row \in Rows, FlockCompute(worker, row) PROVE CaptureInv'
    BY <1>6 DEF FlockCompute, Computed
<1>7. CASE FlockValidate
    BY <1>7 DEF FlockValidate
<1>8. ASSUME NEW row \in Rows, FlockCommit(row) PROVE CaptureInv'
    BY <1>8 DEF FlockCommit
<1>9. CASE FlockReport
    BY <1>9 DEF FlockReport
<1>10. CASE UNCHANGED vars
    BY <1>10 DEF vars
<1> QED BY <1>1, <1>2, <1>3, <1>4, <1>5, <1>6, <1>7, <1>8, <1>9, <1>10 DEF Next

\* Every step keeps the world in step with the results (FlockCompute, FlockCommit).
LEMMA WorldStep ==
    ASSUME Inv, [Next]_vars
    PROVE  WorldInv'
<1> USE DEF Inv, TypeOK, CaptureInv, Captured, Ticking, WorldInv, captured, selection
<1>1. CASE ChangePlayer
    BY <1>1 DEF ChangePlayer, Idle, Result
<1>2. ASSUME NEW id \in Rows \cup {NoSelection, PlayerId}, SelectBoid(id) PROVE WorldInv'
    BY <1>2 DEF SelectBoid, Idle, Result
<1>3. CASE PlayerMovement
    BY <1>3 DEF PlayerMovement, Idle
<1>4. CASE FlockCapture
    BY <1>4 DEF FlockCapture, Result
<1>5. CASE FlockGridBuild
    BY <1>5 DEF FlockGridBuild, CountInv, Result
<1>6. ASSUME NEW worker \in Workers, NEW row \in Rows, FlockCompute(worker, row) PROVE WorldInv'
    BY <1>6 DEF FlockCompute, Computed, Result
<1>7. CASE FlockValidate
    BY <1>7 DEF FlockValidate, NextStateValid, Result
<1>8. ASSUME NEW row \in Rows, FlockCommit(row) PROVE WorldInv'
    BY <1>8 DEF FlockCommit, Commits, Result
<1>9. CASE FlockReport
    BY <1>9 DEF FlockReport, Result
<1>10. CASE UNCHANGED vars
    BY <1>10 DEF vars, Result
<1> QED BY <1>1, <1>2, <1>3, <1>4, <1>5, <1>6, <1>7, <1>8, <1>9, <1>10 DEF Next

\* Every step keeps the counts of the workers and of the report (WorkerScratch).
LEMMA CountStep ==
    ASSUME Inv, [Next]_vars
    PROVE  CountInv'
<1> USE DEF Inv, TypeOK, CountInv, captured, selection
<1>1. CASE ChangePlayer
    BY <1>1 DEF ChangePlayer, Idle
<1>2. ASSUME NEW id \in Rows \cup {NoSelection, PlayerId}, SelectBoid(id) PROVE CountInv'
    BY <1>2 DEF SelectBoid, Idle
<1>3. CASE PlayerMovement
    BY <1>3 DEF PlayerMovement, Idle
<1>4. CASE FlockCapture
    <2>1. \A w \in Workers : workers'[w].processed = 0
        BY <1>4 DEF FlockCapture, ResetWorkers, IdleWorker
    <2>2. Processed' = {}
        BY <2>1 DEF Processed
    <2>3. IsFiniteSet({}) /\ Cardinality({}) = 0
        BY FS_EmptySet
    <2> QED BY <1>4, <2>2, <2>3 DEF FlockCapture, ResetWorkers
<1>5. CASE FlockGridBuild
    <2>1. Processed' = Processed
        BY <1>5 DEF FlockGridBuild, Processed
    <2> QED BY <1>5, <2>1 DEF FlockGridBuild
<1>6. ASSUME NEW worker \in Workers, NEW row \in Rows, FlockCompute(worker, row) PROVE CountInv'
    BY <1>6, ComputeCounts DEF FlockCompute
<1>7. CASE FlockValidate
    <2>1. Processed' = Processed
        BY <1>7 DEF FlockValidate, Processed
    <2> QED BY <1>7, <2>1 DEF FlockValidate
<1>8. ASSUME NEW row \in Rows, FlockCommit(row) PROVE CountInv'
    <2>1. Processed' = Processed
        BY <1>8 DEF FlockCommit, Processed
    <2> QED BY <1>8, <2>1 DEF FlockCommit
<1>9. CASE FlockReport
    BY <1>9 DEF FlockReport
<1>10. CASE UNCHANGED vars
    <2>1. Processed' = Processed
        BY <1>10 DEF vars, Processed
    <2> QED BY <1>10, <2>1 DEF vars
<1> QED BY <1>1, <1>2, <1>3, <1>4, <1>5, <1>6, <1>7, <1>8, <1>9, <1>10 DEF Next

\* Every step keeps the inspection that of the tick (compute_boid_row, inspect_boid).
LEMMA InspectionStep ==
    ASSUME Inv, [Next]_vars
    PROVE  InspectionInv'
<1> USE DEF Inv, TypeOK, InspectionInv, captured, selection
<1>1. CASE ChangePlayer
    <2>1. \A boid : DebugOf(boid)' = DebugOf(boid)
        BY <1>1 DEF ChangePlayer, Idle, DebugOf
    <2> HIDE DEF DebugOf
    <2> QED BY <1>1, <2>1 DEF ChangePlayer, Idle
<1>2. ASSUME NEW id \in Rows \cup {NoSelection, PlayerId}, SelectBoid(id) PROVE InspectionInv'
    <2>1. \A boid : DebugOf(boid)' = DebugOf(boid)
        BY <1>2 DEF SelectBoid, Idle, DebugOf
    <2> HIDE DEF DebugOf
    <2> QED BY <1>2, <2>1 DEF SelectBoid, Idle
<1>3. CASE PlayerMovement
    BY <1>3 DEF PlayerMovement, Idle
<1>4. CASE FlockCapture
    <2>1. \A w \in Workers : workers'[w].selected = NoSelection
        BY <1>4 DEF FlockCapture, ResetWorkers, IdleWorker
    <2> QED BY <1>4, <2>1 DEF FlockCapture
<1>5. CASE FlockGridBuild
    <2>1. \A boid : DebugOf(boid)' = DebugOf(boid)
        BY <1>5 DEF FlockGridBuild, DebugOf
    <2> HIDE DEF DebugOf
    <2> QED BY <1>5, <2>1 DEF FlockGridBuild
<1>6. ASSUME NEW worker \in Workers, NEW row \in Rows, FlockCompute(worker, row) PROVE InspectionInv'
    <2>1. \A boid : DebugOf(boid)' = DebugOf(boid)
        BY <1>6 DEF FlockCompute, Computed, DebugOf
    <2>2. \A w \in Workers : workers'[w].selected =
            IF w = worker /\ selectedId = row THEN DebugOf(row) ELSE workers[w].selected
        BY <1>6 DEF FlockCompute
    <2>3. written' = written \cup {row} /\ row \notin written /\ selectedId' = selectedId
          /\ selectedDebug' = selectedDebug /\ phase = "compute" /\ phase' = "compute"
        BY <1>6 DEF FlockCompute
    <2>4. CASE selectedId = row
        <3>1. \A w \in Workers : workers[w].selected = NoSelection
            BY <2>3, <2>4
        <3> QED BY <2>1, <2>2, <2>3, <2>4, <3>1
    <2>5. CASE selectedId # row
        BY <2>1, <2>2, <2>3, <2>5
    <2> QED BY <2>4, <2>5
<1>7. CASE FlockValidate
    <2>1. \A boid : DebugOf(boid)' = DebugOf(boid)
        BY <1>7 DEF FlockValidate, DebugOf
    <2>2. CASE \A w \in Workers : workers[w].selected = NoSelection
        BY <1>7, <2>1, <2>2 DEF FlockValidate
    <2>3. CASE \E w \in Workers : workers[w].selected # NoSelection
        <3>1. PICK w \in Workers : workers[w].selected # NoSelection
            BY <2>3
        <3>2. Max({v \in Workers : workers[v].selected # NoSelection}) = w
            BY <1>7, <3>1, OneInspection DEF FlockValidate
        <3>3. selectedDebug' = workers[w].selected
            BY <1>7, <3>1, <3>2 DEF FlockValidate
        <3>4. workers[w].selected = DebugOf(selectedId) /\ selectedId \in Rows
            BY <1>7, <3>1 DEF FlockValidate
        <3> QED BY <1>7, <2>1, <3>3, <3>4 DEF FlockValidate
    <2> QED BY <2>2, <2>3
<1>8. ASSUME NEW row \in Rows, FlockCommit(row) PROVE InspectionInv'
    <2>1. \A boid : DebugOf(boid)' = DebugOf(boid)
        BY <1>8 DEF FlockCommit, DebugOf
    <2> HIDE DEF DebugOf
    <2> QED BY <1>8, <2>1 DEF FlockCommit
<1>9. CASE FlockReport
    <2>1. \A boid : DebugOf(boid)' = DebugOf(boid)
        BY <1>9 DEF FlockReport, DebugOf
    <2> HIDE DEF DebugOf
    <2> QED BY <1>9, <2>1 DEF FlockReport
<1>10. CASE UNCHANGED vars
    <2>1. \A boid : DebugOf(boid)' = DebugOf(boid)
        BY <1>10 DEF vars, DebugOf
    <2> HIDE DEF DebugOf
    <2> QED BY <1>10, <2>1 DEF vars
<1> QED BY <1>1, <1>2, <1>3, <1>4, <1>5, <1>6, <1>7, <1>8, <1>9, <1>10 DEF Next

\* Init establishes the invariant.
LEMMA InitInv == Init => Inv
<1> SUFFICES ASSUME Init PROVE Inv
    OBVIOUS
<1>1. IdleWorker \in [processed : 0..Cardinality(Rows), selected : Debugs]
    <2>1. 0 \in 0..Cardinality(Rows)
        BY TickAssumption, FS_CardinalityType
    <2> QED BY <2>1 DEF IdleWorker, Debugs
<1>2. TypeOK
    <2>1. world \in [Rows -> Poses]
        BY DEF Init
    <2>2. 0 \in 0..MaxTicks /\ 0 \in 0..Cardinality(Rows)
        BY TickAssumption, FS_CardinalityType
    <2>3. workers \in [Workers -> [processed : 0..Cardinality(Rows), selected : Debugs]]
        BY <1>1 DEF Init
    <2>4. NoSelection \in Debugs /\ input \in Inputs /\ NoPlayer \in PlayerPoses \cup {NoPlayer}
        BY DEF Init, Debugs
    <2>5. /\ current = world /\ next = world /\ player = NoPlayer /\ sources = NoPlayer
          /\ written = {} /\ committed = {} /\ phase = "idle" /\ phaseValid = FALSE
          /\ failed = FALSE
        BY DEF Init
    <2>6. /\ selectedId = NoSelection /\ selectedDebug = NoSelection /\ lastDelta = 0
          /\ completed = 0 /\ evaluationTick = 0 /\ merged = 0
        BY DEF Init
    <2>7. /\ selectedId \in Rows \cup {NoSelection, PlayerId} /\ selectedDebug \in Debugs
          /\ lastDelta \in 0..1 /\ completed \in 0..MaxTicks /\ evaluationTick \in 0..MaxTicks
          /\ merged \in 0..Cardinality(Rows)
        BY <2>2, <2>4, <2>6
    <2>8. /\ current \in [Rows -> Poses] /\ next \in [Rows -> Poses]
          /\ player \in PlayerPoses \cup {NoPlayer} /\ sources \in PlayerPoses \cup {NoPlayer}
          /\ written \subseteq Rows /\ committed \subseteq Rows
          /\ phaseValid \in BOOLEAN /\ failed \in BOOLEAN
        BY <2>1, <2>4, <2>5
    <2>9. phase \in {"idle", "capture", "grid", "compute", "commit"}
        BY <2>5
    <2> QED BY <2>1, <2>3, <2>4, <2>7, <2>8, <2>9 DEF TypeOK
<1>3. BegunInv /\ CaptureInv /\ WorldInv
    BY <1>2 DEF Init, TypeOK, BegunInv, CaptureInv, WorldInv, Ticking
<1>4. CountInv /\ InspectionInv
    BY DEF Init, CountInv, InspectionInv
<1> QED BY <1>2, <1>3, <1>4 DEF Inv

\* The invariant holds throughout, for every flock and every number of workers.
THEOREM TickInvariant == Spec => []Inv
<1>1. Init => Inv
    BY InitInv
<1>2. Inv /\ [Next]_vars => Inv'
    <2> SUFFICES ASSUME Inv, [Next]_vars PROVE Inv'
        OBVIOUS
    <2>1. TypeOK' /\ BegunInv' /\ CaptureInv'
        BY TypeStep, BegunStep, CaptureStep
    <2>2. WorldInv' /\ CountInv' /\ InspectionInv'
        BY WorldStep, CountStep, InspectionStep
    <2> QED BY <2>1, <2>2 DEF Inv
<1> QED BY <1>1, <1>2, PTL DEF Spec

-----------------------------------------------------------------------------
(* What follows from the invariant. *)

\* Between ticks the inspection is that of the selected boid in the last tick, and the
\* report of a validated tick counts every boid once (inspect_boid, validate_flock).
THEOREM InspectionIsKept == Spec => []InspectionKept
<1>1. Inv => InspectionKept
    <2> SUFFICES ASSUME Inv PROVE InspectionKept
        OBVIOUS
    <2>1. InspectionIsOfLastTick
        BY DEF Inv, InspectionIsOfLastTick, InspectionInv, CaptureInv, Captured, WorldInv, Result,
               DebugOf
    <2>2. MergedCountsEachBoid
        BY DEF Inv, MergedCountsEachBoid, CountInv, WorldInv
    <2> QED BY <2>1, <2>2 DEF Inv, InspectionKept
<1> QED BY <1>1, TickInvariant, PTL

\* A step of a tick is a step of FlockStep or none: only the report's shows, as Tick when the
\* tick was validated and as Fail when it was not.
LEMMA StepRefines ==
    ASSUME Inv, Inv', [Next]_vars
    PROVE  [Step!Next]_(Step!vars)
<1> DEFINE boids == IF phase = "idle" THEN world ELSE before.boids
           body == IF phase = "idle" THEN player ELSE before.player
<1> SUFFICES \/ Step!Next
             \/ boids' = boids /\ body' = body /\ completed' = completed /\ failed' = failed
    BY DEF Step!vars
<1>1. CASE ChangePlayer
    BY <1>1 DEF ChangePlayer, Idle, Step!Next, Step!ChangePlayer
<1>2. ASSUME NEW id \in Rows \cup {NoSelection, PlayerId}, SelectBoid(id)
      PROVE  boids' = boids /\ body' = body /\ completed' = completed /\ failed' = failed
    BY <1>2 DEF SelectBoid
<1>3. CASE PlayerMovement
    BY <1>3 DEF PlayerMovement, Idle
<1>4. CASE FlockCapture
    BY <1>4 DEF FlockCapture
<1>5. CASE FlockGridBuild
    BY <1>5 DEF FlockGridBuild
<1>6. ASSUME NEW worker \in Workers, NEW row \in Rows, FlockCompute(worker, row)
      PROVE  boids' = boids /\ body' = body /\ completed' = completed /\ failed' = failed
    BY <1>6 DEF FlockCompute
<1>7. CASE FlockValidate
    BY <1>7 DEF FlockValidate
<1>8. ASSUME NEW row \in Rows, FlockCommit(row)
      PROVE  boids' = boids /\ body' = body /\ completed' = completed /\ failed' = failed
    BY <1>8 DEF FlockCommit
<1>9. CASE FlockReport
    <2>1. /\ phase = "commit" /\ phase' = "idle" /\ committed = Rows
          /\ world' = world /\ player' = player /\ input \in Inputs /\ ~failed
        BY <1>9 DEF FlockReport, Inv, BegunInv, TypeOK
    <2>2. player = Step!After(input)
        BY <2>1 DEF Step!After, Inv, BegunInv, Ticking
    <2>3. CASE phaseValid
        <3>1. world = next
            BY <2>1, <2>3 DEF Inv, WorldInv, TypeOK
        <3>2. \A row \in Rows : next[row] = Result(row) /\ IsFinite(next[row])
            BY <2>1, <2>3 DEF Inv, WorldInv
        <3>3. /\ current = before.boids /\ evaluationTick = completed
              /\ sources = IF Influence THEN player ELSE NoPlayer
            BY <2>1 DEF Inv, CaptureInv, Captured, Ticking
        <3>4. world' = [row \in Rows |-> Evaluate(before.boids,
                            IF Influence THEN Step!After(input) ELSE NoPlayer, completed, row)]
            BY <2>1, <2>2, <3>1, <3>2, <3>3 DEF Result, Inv, TypeOK
        <3>5. \A row \in Rows : IsFinite(world'[row])
            BY <2>1, <3>1, <3>2
        <3>6. completed' = completed + 1 /\ failed' = FALSE /\ failed = FALSE
            BY <1>9, <2>1, <2>3 DEF FlockReport, Inv, TypeOK
        <3>7. Step!Tick
            BY <2>1, <2>2, <3>4, <3>5, <3>6 DEF Step!Tick
        <3> QED BY <3>7 DEF Step!Next
    <2>4. CASE ~phaseValid
        <3>1. world' = before.boids
            BY <2>1, <2>4 DEF Inv, WorldInv, BegunInv
        <3>2. completed' = completed /\ failed' = TRUE
            BY <1>9, <2>4 DEF FlockReport
        <3>3. Step!Fail
            BY <2>1, <2>2, <3>1, <3>2 DEF Step!Fail
        <3> QED BY <3>3 DEF Step!Next
    <2> QED BY <2>3, <2>4
<1>10. CASE UNCHANGED vars
    BY <1>10 DEF vars
<1> QED BY <1>1, <1>2, <1>3, <1>4, <1>5, <1>6, <1>7, <1>8, <1>9, <1>10 DEF Next

\* A tick is atomic: whichever worker computes which boid and when, every boid moves from
\* the state before the tick and the player after its move, or none does.
THEOREM ImplementsFlockStep == Spec => TickIsAtomic
<1>1. Init => Step!Init
    BY DEF Init, Step!Init
<1>2. Inv /\ Inv' /\ [Next]_vars => [Step!Next]_(Step!vars)
    BY StepRefines
<1> QED BY <1>1, <1>2, TickInvariant, PTL DEF Spec, TickIsAtomic, Step!Spec

-----------------------------------------------------------------------------
(* Sorted sequences. *)

\* The index counts as this module does.
LEMMA SameCardinality ==
    ASSUME NEW S
    PROVE  Index!Cardinality(S) = Cardinality(S)
BY DEF Index!Cardinality, Cardinality, Index!IsFiniteSet, IsFiniteSet

\* A nonempty set of natural numbers has a least element.
LEMMA LeastNumber ==
    ASSUME NEW S \in SUBSET Nat, S # {}
    PROVE  \E x \in S : \A y \in S : x <= y
<1>1. IsWellFoundedOn(OpToRel(<, Nat), Nat)
    BY NatLessThanWellFounded
<1>2. PICK x \in S : \A y \in S : ~(<<y, x>> \in OpToRel(<, Nat))
    BY <1>1, WFMin
<1>3. \A y \in S : ~(y < x)
    BY <1>2 DEF OpToRel
<1> QED BY <1>3

\* Every later number is larger.
Rising(seq) == \A i, j \in 1..Len(seq) : i < j => seq[i] < seq[j]

\* A sequence whose neighbours ascend rises throughout.
LEMMA AscendingRises ==
    ASSUME NEW s \in Seq(Nat), Index!Ascending(s)
    PROVE  Rising(s)
<1> SUFFICES ASSUME NEW i \in 1..Len(s), NEW k \in 1..Len(s), i < k, ~(s[i] < s[k]) PROVE FALSE
    BY DEF Rising
<1> DEFINE bad == {j \in 1..Len(s) : i < j /\ ~(s[i] < s[j])}
<1>1. k \in bad /\ bad \in SUBSET Nat
    OBVIOUS
<1>2. PICK j \in bad : \A other \in bad : j <= other
    BY <1>1, LeastNumber
<1>3. j \in 1..Len(s) /\ i < j /\ ~(s[i] < s[j]) /\ Len(s) \in Nat
    BY <1>2
<1>4. j - 1 \in 1..Len(s) - 1 /\ (j - 1) + 1 = j
    BY <1>3
<1>5. s[j - 1] < s[j]
    BY <1>4 DEF Index!Ascending
<1>6. s[i] \in Nat /\ s[j] \in Nat /\ s[j - 1] \in Nat
    <2>1. \A n \in 1..Len(s) : s[n] \in Nat
        OBVIOUS
    <2>2. j - 1 \in 1..Len(s)
        BY <1>3, <1>4
    <2> QED BY <1>3, <2>1, <2>2
<1>7. j - 1 \notin bad
    BY <1>2, <1>3
<1>8. j - 1 = i \/ s[i] < s[j - 1]
    BY <1>3, <1>4, <1>7
<1> QED BY <1>3, <1>5, <1>6, <1>8

\* The number of lesser elements is the place before which they all stand.
LEMMA LesserStandBefore ==
    ASSUME NEW s \in Seq(Nat), Rising(s), NEW x \in Nat
    PROVE  LET place == Cardinality({i \in DOMAIN s : s[i] < x}) + 1
           IN  /\ place \in 1..(Len(s) + 1)
               /\ \A i \in 1..Len(s) : s[i] < x <=> i < place
<1> DEFINE lesser == {i \in DOMAIN s : s[i] < x}
           others == {i \in 1..(Len(s) + 1) : i = Len(s) + 1 \/ ~(s[i] < x)}
<1>1. Len(s) \in Nat /\ DOMAIN s = 1..Len(s) /\ \A i \in 1..Len(s) : s[i] \in Nat
    OBVIOUS
<1>2. Len(s) + 1 \in others /\ others \in SUBSET Nat
    BY <1>1
<1>3. PICK k \in others : \A other \in others : k <= other
    BY <1>2, LeastNumber
<1>4. k \in 1..(Len(s) + 1) /\ (k = Len(s) + 1 \/ ~(s[k] < x))
    BY <1>3
<1>5. ASSUME NEW i \in 1..Len(s) PROVE s[i] < x <=> i < k
    <2>1. i < k => s[i] < x
        BY <1>1, <1>3
    <2>2. ASSUME s[i] < x, ~(i < k) PROVE FALSE
        <3>1. k \in 1..Len(s) /\ ~(s[k] < x)
            BY <1>1, <1>4, <2>2
        <3>2. k = i \/ s[k] < s[i]
            BY <1>1, <2>2, <3>1 DEF Rising
        <3> QED BY <1>1, <2>2, <3>1, <3>2
    <2> QED BY <2>1, <2>2
<1>6. lesser = 1..(k - 1)
    BY <1>1, <1>4, <1>5
<1>7. Cardinality(lesser) = k - 1
    <2>1. PICK m \in Int : m = k - 1
        BY <1>4
    <2>2. Cardinality(1..m) = IF 1 > m THEN 0 ELSE m - 1 + 1
        BY FS_Interval
    <2>3. m >= 0 /\ (IF 1 > m THEN 0 ELSE m - 1 + 1) = m
        BY <1>4, <2>1
    <2> HIDE DEF lesser
    <2> QED BY <1>6, <2>1, <2>2, <2>3
<1> HIDE DEF lesser
<1>8. Cardinality(lesser) + 1 = k
    BY <1>4, <1>7
<1> QED BY <1>4, <1>5, <1>8 DEF lesser

\* What is inserted stands at its place, and what was from there on one place later.
LEMMA Inserted ==
    ASSUME NEW S, NEW s \in Seq(S), NEW p \in 1..(Len(s) + 1), NEW e \in S
    PROVE  LET longer == Index!InsertAt(s, p, e)
           IN  /\ longer \in Seq(S) /\ Len(longer) = Len(s) + 1
               /\ \A i \in 1..Len(longer) :
                    longer[i] = IF i < p THEN s[i] ELSE IF i = p THEN e ELSE s[i - 1]
<1> DEFINE front == SubSeq(s, 1, p - 1)
           back == SubSeq(s, p, Len(s))
           longer == Index!InsertAt(s, p, e)
<1>1. Len(s) \in Nat /\ p \in Nat
    OBVIOUS
<1>2. front \in Seq(S) /\ Len(front) = p - 1 /\ \A i \in 1..(p - 1) : front[i] = s[i]
    <2>1. \A i \in 1..(p - 1) : i \in 1..Len(s)
        BY <1>1
    <2> QED BY <1>1, <2>1, SubSeqProperties
<1>3. /\ back \in Seq(S) /\ Len(back) = Len(s) - p + 1
      /\ \A i \in 1..(Len(s) - p + 1) : back[i] = s[p + i - 1]
    <2>1. \A i \in p..Len(s) : i \in 1..Len(s)
        BY <1>1
    <2> QED BY <1>1, <2>1, SubSeqProperties
<1> HIDE DEF front, back
<1>4. longer = (front \o <<e>>) \o back
    BY DEF Index!InsertAt, front, back
<1>5. /\ front \o <<e>> \in Seq(S) /\ Len(front \o <<e>>) = p
      /\ \A i \in 1..p : (front \o <<e>>)[i] = IF i < p THEN s[i] ELSE e
    <2>1. <<e>> \in Seq(S) /\ Len(<<e>>) = 1 /\ <<e>>[1] = e
        OBVIOUS
    <2>2. /\ front \o <<e>> \in Seq(S) /\ Len(front \o <<e>>) = p
          /\ \A i \in 1..p : (front \o <<e>>)[i] = IF i <= Len(front) THEN front[i]
                                                   ELSE <<e>>[i - Len(front)]
        BY <1>1, <1>2, <2>1, ConcatProperties
    <2>3. \A i \in 1..p : IF i < p THEN i \in 1..(p - 1) /\ i <= Len(front)
                          ELSE i - Len(front) = 1 /\ ~(i <= Len(front))
        BY <1>1, <1>2
    <2> QED BY <1>2, <2>1, <2>2, <2>3
<1>6. /\ longer \in Seq(S) /\ Len(longer) = Len(s) + 1
      /\ \A i \in 1..(Len(s) + 1) :
            longer[i] = IF i <= p THEN (front \o <<e>>)[i] ELSE back[i - p]
    <2> DEFINE start == front \o <<e>>
    <2>1. start \in Seq(S) /\ back \in Seq(S) /\ Len(start) = p
        BY <1>3, <1>5
    <2>2. longer = start \o back
        BY <1>4
    <2> HIDE DEF start, longer
    <2>3. /\ start \o back \in Seq(S) /\ Len(start \o back) = Len(start) + Len(back)
          /\ \A i \in 1..(Len(start) + Len(back)) :
                (start \o back)[i] = IF i <= Len(start) THEN start[i] ELSE back[i - Len(start)]
        BY <2>1, ConcatProperties
    <2>4. Len(start) + Len(back) = Len(s) + 1
        BY <1>1, <1>3, <2>1
    <2> QED BY <2>1, <2>2, <2>3, <2>4 DEF start
<1>7. ASSUME NEW i \in 1..(Len(s) + 1)
      PROVE  longer[i] = IF i < p THEN s[i] ELSE IF i = p THEN e ELSE s[i - 1]
    <2>1. CASE i <= p
        BY <1>1, <1>5, <1>6, <2>1
    <2>2. CASE i > p
        <3>1. i - p \in 1..(Len(s) - p + 1) /\ p + (i - p) - 1 = i - 1
            BY <1>1, <2>2
        <3>2. back[i - p] = s[i - 1]
            BY <1>3, <3>1
        <3>3. ~(i <= p) /\ ~(i < p) /\ i # p
            BY <1>1, <2>2
        <3>4. longer[i] = back[i - p]
            BY <1>6, <3>3
        <3> HIDE DEF longer, back
        <3> QED BY <3>2, <3>3, <3>4
    <2> QED BY <1>1, <2>1, <2>2
<1> QED BY <1>6, <1>7

\* Without an element those behind it stand one place earlier.
LEMMA Removed ==
    ASSUME NEW S, NEW s \in Seq(S), NEW p \in 1..Len(s)
    PROVE  LET shorter == Index!RemoveAt(s, p)
           IN  /\ shorter \in Seq(S) /\ Len(shorter) = Len(s) - 1
               /\ \A i \in 1..Len(shorter) : shorter[i] = IF i < p THEN s[i] ELSE s[i + 1]
<1> DEFINE front == SubSeq(s, 1, p - 1)
           back == SubSeq(s, p + 1, Len(s))
           shorter == Index!RemoveAt(s, p)
<1>1. Len(s) \in Nat /\ p \in Nat
    OBVIOUS
<1>2. front \in Seq(S) /\ Len(front) = p - 1 /\ \A i \in 1..(p - 1) : front[i] = s[i]
    <2>1. \A i \in 1..(p - 1) : i \in 1..Len(s)
        BY <1>1
    <2> QED BY <1>1, <2>1, SubSeqProperties
<1>3. /\ back \in Seq(S) /\ Len(back) = Len(s) - p
      /\ \A i \in 1..(Len(s) - p) : back[i] = s[p + i]
    <2>1. \A i \in (p + 1)..Len(s) : i \in 1..Len(s)
        BY <1>1
    <2>2. p + 1 \in 1..(Len(s) + 1) /\ Len(s) \in p..Len(s)
        BY <1>1
    <2>3. /\ back \in Seq(S)
          /\ Len(back) = IF p + 1 <= Len(s) THEN Len(s) - (p + 1) + 1 ELSE 0
          /\ \A i \in 1..(Len(s) - (p + 1) + 1) : back[i] = s[p + 1 + i - 1]
        BY <1>1, <2>1, <2>2, SubSeqProperties
    <2>4. \A i \in 1..(Len(s) - p) : p + 1 + i - 1 = p + i /\ i \in 1..(Len(s) - (p + 1) + 1)
        BY <1>1
    <2> QED BY <1>1, <2>3, <2>4
<1> HIDE DEF front, back
<1>4. shorter = front \o back
    BY DEF Index!RemoveAt, front, back
<1>5. /\ shorter \in Seq(S) /\ Len(shorter) = Len(s) - 1
      /\ \A i \in 1..(Len(s) - 1) :
            shorter[i] = IF i <= p - 1 THEN front[i] ELSE back[i - (p - 1)]
    <2>1. /\ front \o back \in Seq(S) /\ Len(front \o back) = Len(front) + Len(back)
          /\ \A i \in 1..(Len(front) + Len(back)) :
                (front \o back)[i] = IF i <= Len(front) THEN front[i] ELSE back[i - Len(front)]
        BY <1>2, <1>3, ConcatProperties
    <2>2. Len(front) = p - 1 /\ Len(front) + Len(back) = Len(s) - 1
        BY <1>1, <1>2, <1>3
    <2> QED BY <1>4, <2>1, <2>2
<1>6. ASSUME NEW i \in 1..(Len(s) - 1)
      PROVE  shorter[i] = IF i < p THEN s[i] ELSE s[i + 1]
    <2>1. CASE i < p
        BY <1>1, <1>2, <1>5, <2>1
    <2>2. CASE ~(i < p)
        <3>1. i - (p - 1) \in 1..(Len(s) - p) /\ p + (i - (p - 1)) = i + 1 /\ ~(i <= p - 1)
            BY <1>1, <2>2
        <3> QED BY <1>1, <1>3, <1>5, <2>2, <3>1
    <2> QED BY <2>1, <2>2
<1> QED BY <1>5, <1>6
-----------------------------------------------------------------------------
(* The invariant of the index, in parts. *)

EntityRecords == [id : 1..LastId, kind : Index!Kinds, row : Nat, input : Index!Steerings]

\* What the variables hold.
IndexTypes ==
    /\ lastHandle \in Nat
    /\ entities \in [DOMAIN entities -> EntityRecords] /\ DOMAIN entities \subseteq 1..lastHandle
    /\ ids \in Seq(1..LastId) /\ handles \in Seq(Nat) /\ Len(handles) = Len(ids)
    /\ tables \in [Index!Kinds -> Seq(Nat)]
    /\ boidCount \in Nat /\ nextId \in 0..LastId
    /\ issued \in SUBSET (1..LastId) /\ revived \in BOOLEAN

\* The index lists the live entities by their identifiers, all of which differ.
EntitiesListed ==
    /\ Rising(ids)
    /\ \A i \in 1..Len(ids) : handles[i] \in DOMAIN entities /\ entities[handles[i]].id = ids[i]
    /\ \A h \in DOMAIN entities : \E i \in 1..Len(ids) : handles[i] = h

Boids == {h \in DOMAIN entities : entities[h].kind = "boid"}

RowsAscend(h, g) ==
    /\ entities[h].row = entities[g].row => h = g
    /\ entities[h].row < entities[g].row => entities[h].id < entities[g].id

\* Every row has its boid, and rows ascend with the identifiers.
BoidsInRows ==
    /\ \A h \in Boids : entities[h].row < boidCount
    /\ \A r \in 0..(boidCount - 1) : \E h \in Boids : entities[h].row = r
    /\ \A h, g \in Boids : RowsAscend(h, g)

\* The table of a kind holds the entities of the kind, each once.
StoredOnce(kind) ==
    /\ \A i \in 1..Len(tables[kind]) :
         tables[kind][i] \in DOMAIN entities /\ entities[tables[kind][i]].kind = kind
    /\ \A h \in DOMAIN entities :
         entities[h].kind = kind => \E i \in 1..Len(tables[kind]) : tables[kind][i] = h
    /\ \A i, j \in 1..Len(tables[kind]) : tables[kind][i] = tables[kind][j] => i = j

\* An identifier that was in use and may come again is that of a boid, and boids stay.
IssuedBehind ==
    ~revived /\ nextId # 0 =>
        \A x \in issued : x < nextId \/ \E h \in Boids : entities[h].id = x

\* The inductive invariant of the index.
IndexInv ==
    /\ IndexTypes
    /\ EntitiesListed
    /\ BoidsInRows
    /\ \A kind \in Index!Kinds : StoredOnce(kind)
    /\ IssuedBehind

\* The position of an identifier is where it stands, or where it belongs.
LEMMA PositionOf ==
    ASSUME Index!IndexAssumption, IndexTypes, Rising(ids), NEW x \in 1..LastId
    PROVE  /\ Index!Position(x) \in 1..(Len(ids) + 1)
           /\ \A i \in 1..Len(ids) : ids[i] < x <=> i < Index!Position(x)
           /\ Index!Has(x) => Index!Position(x) \in 1..Len(ids) /\ ids[Index!Position(x)] = x
<1> DEFINE p == Index!Position(x)
<1>1. ids \in Seq(Nat) /\ x \in Nat /\ DOMAIN ids = 1..Len(ids) /\ Len(ids) \in Nat
    BY DEF IndexTypes, Index!IndexAssumption
<1>2. p \in 1..(Len(ids) + 1) /\ \A i \in 1..Len(ids) : ids[i] < x <=> i < p
    <2> DEFINE place == Cardinality({i \in DOMAIN ids : ids[i] < x}) + 1
    <2>1. place \in 1..(Len(ids) + 1) /\ \A i \in 1..Len(ids) : ids[i] < x <=> i < place
        BY <1>1, LesserStandBefore
    <2>2. p = place
        BY SameCardinality DEF Index!Position
    <2> HIDE DEF place, p
    <2> QED BY <2>1, <2>2
<1> HIDE DEF p
<1>3. ASSUME Index!Has(x) PROVE p \in 1..Len(ids) /\ ids[p] = x
    <2>1. PICK i \in 1..Len(ids) : ids[i] = x
        BY <1>1, <1>3 DEF Index!Has
    <2>2. ~(i < p) /\ p \in 1..Len(ids)
        BY <1>1, <1>2, <2>1
    <2>3. ids[p] \in Nat /\ ~(ids[p] < x)
        BY <1>1, <1>2, <2>2
    <2>4. p < i => ids[p] < ids[i]
        BY <2>1, <2>2 DEF Rising
    <2>5. p = i
        BY <1>1, <1>2, <2>1, <2>2, <2>3, <2>4
    <2> QED BY <2>1, <2>2, <2>5
<1> QED BY <1>2, <1>3 DEF p

\* A free identifier is one from the next on that no entity has.
LEMMA FreeIdIsNew ==
    ASSUME Index!IndexAssumption, IndexTypes, Index!FreeId # 0
    PROVE  /\ nextId # 0 /\ Index!FreeId \in nextId..LastId /\ Index!FreeId \in 1..LastId
           /\ ~Index!Has(Index!FreeId)
<1> DEFINE free == {x \in nextId..LastId : ~Index!Has(x)}
<1>1. nextId \in 0..LastId /\ LastId \in Nat
    BY DEF IndexTypes, Index!IndexAssumption
<1>2. /\ nextId # 0 /\ free # {}
      /\ Index!FreeId = CHOOSE x \in free : \A other \in free : x <= other
    BY DEF Index!FreeId
<1>3. \E x \in free : \A other \in free : x <= other
    BY <1>1, <1>2, LeastNumber
<1>4. Index!FreeId \in free
    BY <1>2, <1>3
<1> QED BY <1>1, <1>2, <1>4

\* Two places of the index do not share an entity.
LEMMA HandlesDiffer ==
    ASSUME IndexTypes, EntitiesListed, Index!IndexAssumption
    PROVE  \A i, j \in 1..Len(ids) : handles[i] = handles[j] => i = j
<1> SUFFICES ASSUME NEW i \in 1..Len(ids), NEW j \in 1..Len(ids), handles[i] = handles[j], i < j
             PROVE  FALSE
    BY DEF IndexTypes
<1>1. ids[i] = ids[j]
    BY DEF EntitiesListed
<1>2. ids[i] < ids[j]
    BY DEF EntitiesListed, Rising
<1>3. ids[i] \in Nat
    <2>1. PICK S : S = 1..LastId
        OBVIOUS
    <2>2. ids \in Seq(S)
        BY <2>1 DEF IndexTypes
    <2>3. ids[i] \in S
        BY <2>2
    <2> QED BY <2>1, <2>3
<1> QED BY <1>1, <1>2, <1>3

-----------------------------------------------------------------------------
(* Each operation keeps it. *)

\* A player that is spawned is listed at its place.
LEMMA SpawnStep ==
    ASSUME Index!IndexAssumption, IndexInv, Index!SpawnAuthoritativePlayer
    PROVE  IndexInv'
<1> DEFINE x == Index!FreeId
           handle == lastHandle + 1
           p == Index!Position(x)
           new == [id |-> x, kind |-> "player", row |-> 0, input |-> "idle"]
<1>1. /\ x # 0
      /\ entities' = [h \in DOMAIN entities \cup {handle} |->
                          IF h = handle THEN new ELSE entities[h]]
      /\ tables' = [tables EXCEPT !["player"] = Append(@, handle)]
      /\ lastHandle' = handle
      /\ ids' = Index!InsertAt(ids, p, x) /\ handles' = Index!InsertAt(handles, p, handle)
      /\ nextId' = Index!NextEntityId(x) /\ issued' = issued \cup {x}
      /\ boidCount' = boidCount /\ revived' = revived
    BY DEF Index!SpawnAuthoritativePlayer
<1>2. IndexTypes /\ EntitiesListed /\ BoidsInRows /\ IssuedBehind
      /\ \A kind \in Index!Kinds : StoredOnce(kind)
    BY DEF IndexInv
<1>3. nextId # 0 /\ x \in nextId..LastId /\ x \in 1..LastId /\ ~Index!Has(x)
    BY <1>1, <1>2, FreeIdIsNew
<1>4. p \in 1..(Len(ids) + 1) /\ \A i \in 1..Len(ids) : ids[i] < x <=> i < p
    BY <1>2, <1>3, PositionOf DEF EntitiesListed
<1> HIDE DEF x, p
<1>5. /\ Len(ids) \in Nat /\ lastHandle \in Nat /\ handle \in Nat /\ handle \notin DOMAIN entities
      /\ ids \in Seq(1..LastId) /\ handles \in Seq(Nat) /\ Len(handles) = Len(ids) /\ LastId \in Nat
      /\ \A i \in 1..Len(ids) : ids[i] \in Nat
    BY <1>2 DEF IndexTypes, Index!IndexAssumption
<1>6. /\ ids' \in Seq(1..LastId) /\ Len(ids') = Len(ids) + 1
      /\ \A i \in 1..(Len(ids) + 1) :
            ids'[i] = IF i < p THEN ids[i] ELSE IF i = p THEN x ELSE ids[i - 1]
    <2>1. x \in 1..LastId /\ ids \in Seq(1..LastId) /\ p \in 1..(Len(ids) + 1)
        BY <1>3, <1>4, <1>5
    <2> DEFINE longer == Index!InsertAt(ids, p, x)
    <2>2. /\ longer \in Seq(1..LastId) /\ Len(longer) = Len(ids) + 1
          /\ \A i \in 1..Len(longer) :
                longer[i] = IF i < p THEN ids[i] ELSE IF i = p THEN x ELSE ids[i - 1]
        <3>1. PICK S : S = 1..LastId
            OBVIOUS
        <3>2. x \in S /\ ids \in Seq(S) /\ p \in 1..(Len(ids) + 1)
            BY <2>1, <3>1
        <3>3. /\ longer \in Seq(S) /\ Len(longer) = Len(ids) + 1
              /\ \A i \in 1..Len(longer) :
                    longer[i] = IF i < p THEN ids[i] ELSE IF i = p THEN x ELSE ids[i - 1]
            BY ONLY <3>2, Inserted
        <3> HIDE DEF longer
        <3> QED BY <3>1, <3>3
    <2>3. ids' = longer
        BY <1>1
    <2> HIDE DEF longer
    <2> QED BY <2>2, <2>3
<1>7. /\ handles' \in Seq(Nat) /\ Len(handles') = Len(ids) + 1
      /\ \A i \in 1..(Len(ids) + 1) :
            handles'[i] = IF i < p THEN handles[i] ELSE IF i = p THEN handle ELSE handles[i - 1]
    <2>1. handle \in Nat /\ handles \in Seq(Nat) /\ p \in 1..(Len(handles) + 1)
        BY <1>4, <1>5
    <2> DEFINE longer == Index!InsertAt(handles, p, handle)
    <2>2. handles' = longer
        BY <1>1
    <2> HIDE DEF handle
    <2>3. /\ longer \in Seq(Nat) /\ Len(longer) = Len(handles) + 1
          /\ \A i \in 1..Len(longer) :
                longer[i] = IF i < p THEN handles[i] ELSE IF i = p THEN handle ELSE handles[i - 1]
        BY <2>1, Inserted
    <2> HIDE DEF longer
    <2> QED BY <1>5, <2>2, <2>3
<1>8. /\ DOMAIN entities' = DOMAIN entities \cup {handle} /\ entities'[handle] = new
      /\ \A h \in DOMAIN entities : h # handle /\ entities'[h] = entities[h]
    BY <1>1, <1>5
<1>9. new \in EntityRecords /\ new.id = x /\ new.kind = "player"
    BY <1>3 DEF EntityRecords, Index!Kinds, Index!Steerings
<1>10. "player" \in Index!Kinds /\ "boid" \in Index!Kinds
    BY DEF Index!Kinds
<1> DEFINE table == tables["player"]
<1>11. /\ tables' \in [Index!Kinds -> Seq(Nat)] /\ tables'["player"] = Append(table, handle)
       /\ \A kind \in Index!Kinds : kind # "player" => tables'[kind] = tables[kind]
       /\ table \in Seq(Nat)
    <2>1. tables \in [Index!Kinds -> Seq(Nat)]
        BY <1>2 DEF IndexTypes
    <2>2. table \in Seq(Nat) /\ Append(table, handle) \in Seq(Nat)
        BY <1>5, <1>10, <2>1
    <2> QED BY <1>1, <1>10, <2>1, <2>2
<1> HIDE DEF new, handle
<1>12. IndexTypes'
    <2>1. entities' \in [DOMAIN entities' -> EntityRecords]
        BY <1>1, <1>2, <1>8, <1>9 DEF IndexTypes
    <2>2. DOMAIN entities' \subseteq 1..lastHandle'
        BY <1>1, <1>2, <1>5, <1>8 DEF IndexTypes, handle
    <2>3. nextId' \in 0..LastId
        BY <1>1, <1>3, <1>5 DEF Index!NextEntityId
    <2>4. issued' \in SUBSET (1..LastId) /\ lastHandle' \in Nat
        BY <1>1, <1>2, <1>3, <1>5 DEF IndexTypes
    <2> QED BY <1>1, <1>2, <1>5, <1>6, <1>7, <1>11, <2>1, <2>2, <2>3, <2>4 DEF IndexTypes
<1>13. EntitiesListed'
    <2>1. ASSUME NEW i \in 1..(Len(ids) + 1)
          PROVE  \/ i < p /\ i \in 1..Len(ids)
                 \/ i = p
                 \/ i > p /\ i - 1 \in 1..Len(ids) /\ ~(i - 1 < p)
        BY <1>4, <1>5
    <2>2. ASSUME NEW i \in 1..(Len(ids) + 1)
          PROVE  /\ i < p => ids'[i] = ids[i] /\ handles'[i] = handles[i]
                 /\ i = p => ids'[i] = x /\ handles'[i] = handle
                 /\ i > p => ids'[i] = ids[i - 1] /\ handles'[i] = handles[i - 1]
        BY <1>4, <1>6, <1>7
    <2>3. ASSUME NEW i \in 1..Len(ids)
          PROVE  ids[i] \in Nat /\ x \in Nat /\ (i < p => ids[i] < x) /\ (~(i < p) => x < ids[i])
        <3>1. ids[i] # x
            <4>1. i \in DOMAIN ids
                BY <1>5
            <4> QED BY <1>3, <4>1 DEF Index!Has
        <3> QED BY <1>3, <1>4, <1>5, <3>1
    <2>4. \A k, l \in 1..Len(ids) : k < l => ids[k] < ids[l]
        BY <1>2 DEF EntitiesListed, Rising
    <2>5. ASSUME NEW i \in 1..(Len(ids) + 1), NEW j \in 1..(Len(ids) + 1), i < j
          PROVE  ids'[i] < ids'[j]
        <3>1. CASE i < p /\ j < p
            BY <2>1, <2>2, <2>4, <2>5, <3>1
        <3>2. CASE i < p /\ j = p
            BY <2>1, <2>2, <2>3, <3>2
        <3>3. CASE i < p /\ j > p
            <4>1. ids'[i] = ids[i] /\ ids'[j] = ids[j - 1] /\ i \in 1..Len(ids) /\ j - 1 \in 1..Len(ids)
                BY <1>4, <2>1, <2>2, <3>3
            <4>2. i < j - 1
                BY <1>4, <3>3
            <4> QED BY <2>4, <4>1, <4>2
        <3>4. CASE i = p
            <4>1. j > p
                BY <2>5, <3>4
            <4>2. j - 1 \in 1..Len(ids) /\ ~(j - 1 < p) /\ ids'[i] = x /\ ids'[j] = ids[j - 1]
                BY <1>4, <2>1, <2>2, <3>4, <4>1
            <4> QED BY <2>3, <4>2
        <3>5. CASE i > p
            <4>1. i - 1 \in 1..Len(ids) /\ ids'[i] = ids[i - 1]
                BY <1>4, <2>1, <2>2, <3>5
            <4>2. j > p
                BY <1>4, <2>5, <3>5
            <4>3. j - 1 \in 1..Len(ids) /\ ids'[j] = ids[j - 1] /\ i - 1 < j - 1
                BY <1>4, <2>1, <2>2, <2>5, <4>2
            <4> QED BY <2>4, <4>1, <4>3
        <3> QED BY <1>4, <3>1, <3>2, <3>3, <3>4, <3>5
    <2>6. ASSUME NEW i \in 1..(Len(ids) + 1)
          PROVE  handles'[i] \in DOMAIN entities' /\ entities'[handles'[i]].id = ids'[i]
        <3>1. \A k \in 1..Len(ids) : handles[k] \in DOMAIN entities /\ entities[handles[k]].id = ids[k]
            BY <1>2 DEF EntitiesListed
        <3>2. CASE i < p /\ i \in 1..Len(ids)
            BY <1>8, <2>2, <3>1, <3>2
        <3>3. CASE i = p
            BY <1>8, <1>9, <2>2, <3>3
        <3>4. CASE i > p /\ i - 1 \in 1..Len(ids)
            BY <1>8, <2>2, <3>1, <3>4
        <3> QED BY <2>1, <3>2, <3>3, <3>4
    <2>7. ASSUME NEW h \in DOMAIN entities'
          PROVE  \E i \in 1..(Len(ids) + 1) : handles'[i] = h
        <3>1. CASE h = handle
            BY <1>4, <2>2, <3>1
        <3>2. CASE h \in DOMAIN entities
            <4>1. PICK i \in 1..Len(ids) : handles[i] = h
                BY <1>2, <3>2 DEF EntitiesListed
            <4>2. CASE i < p
                <5>1. i \in 1..(Len(ids) + 1)
                    BY <1>5
                <5> QED BY <2>2, <4>1, <4>2, <5>1
            <4>3. CASE ~(i < p)
                <5>1. i + 1 \in 1..(Len(ids) + 1) /\ i + 1 > p /\ (i + 1) - 1 = i
                    BY <1>4, <1>5, <4>3
                <5>2. handles'[i + 1] = handles[(i + 1) - 1]
                    BY <2>2, <5>1
                <5> QED BY <4>1, <5>1, <5>2
            <4> QED BY <4>2, <4>3
        <3> QED BY <1>8, <3>1, <3>2
    <2> QED BY <1>6, <2>5, <2>6, <2>7 DEF EntitiesListed, Rising
<1>14. Boids' = Boids /\ \A h \in Boids : entities'[h] = entities[h]
    BY <1>8, <1>9 DEF Boids
<1>15. BoidsInRows'
    <2>1. boidCount' = boidCount
        BY <1>1
    <2> QED BY <1>2, <1>14, <2>1 DEF BoidsInRows, RowsAscend
<1>16. ASSUME NEW kind \in Index!Kinds PROVE StoredOnce(kind)'
    <2>1. StoredOnce(kind)
        BY <1>2
    <2>2. CASE kind # "player"
        <3>1. tables'[kind] = tables[kind]
            BY <1>11, <2>2
        <3>2. \A h \in DOMAIN entities' : entities'[h].kind = kind => h \in DOMAIN entities
            BY <1>8, <1>9, <2>2
        <3> QED BY <1>8, <2>1, <3>1, <3>2 DEF StoredOnce
    <2>3. CASE kind = "player"
        <3>1. /\ Len(table) \in Nat /\ Len(tables'[kind]) = Len(table) + 1
              /\ tables'[kind][Len(table) + 1] = handle
              /\ \A i \in 1..Len(table) : tables'[kind][i] = table[i]
            <4>1. table \in Seq(Nat) /\ handle \in Nat /\ tables'[kind] = Append(table, handle)
                BY <1>5, <1>11, <2>3
            <4> HIDE DEF table
            <4> QED BY <4>1, AppendProperties
        <3>2. \A i \in 1..Len(table) : table[i] \in DOMAIN entities /\ entities[table[i]].kind = kind
            BY <2>1, <2>3 DEF StoredOnce
        <3>3. \A i \in 1..(Len(table) + 1) : i \in 1..Len(table) \/ i = Len(table) + 1
            BY <3>1
        <3> HIDE DEF table
        <3>4. \A i \in 1..(Len(table) + 1) :
                tables'[kind][i] \in DOMAIN entities' /\ entities'[tables'[kind][i]].kind = kind
            BY <1>8, <1>9, <2>3, <3>1, <3>2, <3>3
        <3>5. ASSUME NEW h \in DOMAIN entities', entities'[h].kind = kind
              PROVE  \E i \in 1..(Len(table) + 1) : tables'[kind][i] = h
            <4>1. CASE h = handle
                BY <3>1, <4>1
            <4>2. CASE h \in DOMAIN entities
                <5>1. PICK i \in 1..Len(table) : table[i] = h
                    BY <1>8, <2>1, <2>3, <3>5, <4>2 DEF StoredOnce, table
                <5> QED BY <3>1, <5>1
            <4> QED BY <1>8, <4>1, <4>2
        <3>6. \A i, j \in 1..Len(table) : table[i] = table[j] => i = j
            BY <2>1, <2>3 DEF StoredOnce, table
        <3>7. \A i, j \in 1..(Len(table) + 1) : tables'[kind][i] = tables'[kind][j] => i = j
            BY <1>5, <3>1, <3>2, <3>3, <3>6
        <3> QED BY <3>1, <3>4, <3>5, <3>7 DEF StoredOnce
    <2> QED BY <2>2, <2>3
<1>17. IssuedBehind'
    <2>4. revived' = revived /\ Boids' = Boids /\ \A h \in Boids : entities'[h].id = entities[h].id
        BY <1>1, <1>14
    <2> SUFFICES ASSUME ~revived, nextId' # 0, NEW y \in issued'
                 PROVE  y < nextId' \/ \E h \in Boids : entities[h].id = y
        BY <2>4 DEF IssuedBehind
    <2>1. nextId' = x + 1 /\ x \in Nat /\ nextId <= x
        BY <1>1, <1>3, <1>5 DEF Index!NextEntityId
    <2>2. CASE y = x
        BY <2>1, <2>2
    <2>3. CASE y \in issued
        <3>1. y < nextId \/ \E h \in Boids : entities[h].id = y
            BY <1>2, <1>3, <2>3 DEF IssuedBehind
        <3>2. y \in Nat /\ nextId \in Nat
            BY <1>2, <1>5, <2>3 DEF IndexTypes
        <3> QED BY <2>1, <3>1, <3>2
    <2> QED BY <1>1, <2>2, <2>3
<1> QED BY <1>12, <1>13, <1>15, <1>16, <1>17 DEF IndexInv

\* A player of the index stands at its position.
LEMMA PlayerStands ==
    ASSUME Index!IndexAssumption, IndexInv, NEW x \in 1..LastId, Index!IsPlayer(x)
    PROVE  /\ Index!Position(x) \in 1..Len(ids) /\ ids[Index!Position(x)] = x
           /\ Index!HandleOf(x) = handles[Index!Position(x)]
           /\ Index!HandleOf(x) \in DOMAIN entities
           /\ entities[Index!HandleOf(x)].kind = "player" /\ entities[Index!HandleOf(x)].id = x
<1>1. /\ Index!Has(x) /\ Index!HandleOf(x) \in DOMAIN entities
      /\ entities[Index!HandleOf(x)].kind = "player"
    BY DEF Index!IsPlayer
<1>2. Index!Position(x) \in 1..Len(ids) /\ ids[Index!Position(x)] = x
    BY <1>1, PositionOf DEF IndexInv, EntitiesListed
<1>3. Index!HandleOf(x) = handles[Index!Position(x)]
    BY DEF Index!HandleOf
<1>4. entities[handles[Index!Position(x)]].id = x
    BY <1>2 DEF IndexInv, EntitiesListed
<1> QED BY <1>1, <1>2, <1>3, <1>4

\* The shorter sequence has the elements of the other except the given one, each once.
LosesOnly(shorter, table, handle) ==
    /\ shorter \in Seq(Nat)
    /\ \A i \in 1..Len(shorter) : /\ shorter[i] # handle
                                /\ \E j \in 1..Len(table) : shorter[i] = table[j]
    /\ \A j \in 1..Len(table) :
         table[j] # handle => \E i \in 1..Len(shorter) : shorter[i] = table[j]
    /\ \A i, j \in 1..Len(shorter) : shorter[i] = shorter[j] => i = j

\* The last entity of a table moves to the place of the one that is removed.
LEMMA RemovedFromTable ==
    ASSUME NEW table \in Seq(Nat), NEW handle, NEW k \in 1..Len(table), table[k] = handle,
           \A i, j \in 1..Len(table) : table[i] = table[j] => i = j
    PROVE  LosesOnly(Index!WithoutHandle(table, handle), table, handle)
<1> DEFINE n == Len(table)
           shorter == Index!WithoutHandle(table, handle)
<1>1. n \in Nat \ {0} /\ \A i \in 1..n : table[i] \in Nat
    OBVIOUS
<1>2. shorter = [i \in 1..(n - 1) |-> IF table[i] = handle THEN table[n] ELSE table[i]]
    BY DEF Index!WithoutHandle, Index!Last
<1>3. n - 1 \in Nat /\ n \in 1..n /\ \A i \in 1..(n - 1) : i \in 1..n /\ i # n
    BY <1>1
<1> HIDE DEF n, shorter
<1>4. shorter \in [1..(n - 1) -> Nat]
    BY <1>1, <1>2, <1>3
<1>5. shorter \in Seq(Nat) /\ Len(shorter) = n - 1
    <2>1. PICK m \in Nat : m = n - 1
        BY <1>3
    <2>2. shorter \in [1..m -> Nat]
        BY <1>4, <2>1
    <2> QED BY <2>1, <2>2
<1>6. \A i \in 1..(n - 1) : shorter[i] = IF i = k THEN table[n] ELSE table[i]
    BY <1>2, <1>3 DEF n
<1>7. ASSUME NEW i \in 1..(n - 1)
      PROVE  shorter[i] # handle /\ \E j \in 1..n : shorter[i] = table[j]
    <2>1. CASE i = k
        <3>1. n # k
            BY <1>3, <2>1
        <3> QED BY <1>3, <1>6, <2>1, <3>1 DEF n
    <2>2. CASE i # k
        BY <1>3, <1>6, <2>2 DEF n
    <2> QED BY <2>1, <2>2
<1>8. ASSUME NEW j \in 1..n, table[j] # handle
      PROVE  \E i \in 1..(n - 1) : shorter[i] = table[j]
    <2>1. j # k
        BY <1>8
    <2>2. CASE j = n
        <3>1. k \in 1..(n - 1)
            BY <1>1, <2>1, <2>2 DEF n
        <3> QED BY <1>6, <2>2, <3>1
    <2>3. CASE j # n
        <3>1. j \in 1..(n - 1)
            BY <1>1, <2>3
        <3> QED BY <1>6, <2>1, <3>1
    <2> QED BY <2>2, <2>3
<1>9. ASSUME NEW i \in 1..(n - 1), NEW j \in 1..(n - 1), shorter[i] = shorter[j] PROVE i = j
    BY <1>3, <1>6, <1>9 DEF n
<1> QED BY <1>5, <1>7, <1>8, <1>9 DEF n, shorter, LosesOnly

\* A player that is deleted leaves the index, its table and nothing else.
LEMMA DeleteStep ==
    ASSUME Index!IndexAssumption, IndexInv,
           NEW x \in 1..LastId, Index!DeleteAuthoritativePlayer(x)
    PROVE  IndexInv'
<1> DEFINE handle == Index!HandleOf(x)
           p == Index!Position(x)
           n == Len(ids)
<1>1. Index!IsPlayer(x)
    BY DEF Index!DeleteAuthoritativePlayer
<1>2. /\ entities' = Index!Restrict(entities, DOMAIN entities \ {handle})
      /\ tables' = [tables EXCEPT !["player"] = Index!WithoutHandle(@, handle)]
      /\ ids' = Index!RemoveAt(ids, p) /\ handles' = Index!RemoveAt(handles, p)
      /\ UNCHANGED <<lastHandle, boidCount, nextId, issued, revived>>
    BY DEF Index!DeleteAuthoritativePlayer, Index!EraseIndexEntry
<1>3. /\ p \in 1..n /\ ids[p] = x /\ handle = handles[p] /\ handle \in DOMAIN entities
      /\ entities[handle].kind = "player"
    BY <1>1, PlayerStands
<1>4. IndexTypes /\ EntitiesListed /\ BoidsInRows /\ IssuedBehind
      /\ \A kind \in Index!Kinds : StoredOnce(kind)
    BY DEF IndexInv
<1>5. /\ n \in Nat /\ ids \in Seq(1..LastId) /\ handles \in Seq(Nat) /\ Len(handles) = n
      /\ \A i, j \in 1..n : handles[i] = handles[j] => i = j
    BY <1>4, HandlesDiffer DEF IndexTypes
<1> HIDE DEF handle, p
<1>6. /\ DOMAIN entities' = DOMAIN entities \ {handle}
      /\ \A h \in DOMAIN entities' : entities'[h] = entities[h]
      /\ entities' \in [DOMAIN entities' -> EntityRecords]
    BY <1>2, <1>4 DEF Index!Restrict, IndexTypes
<1>7. /\ ids' \in Seq(1..LastId) /\ Len(ids') = n - 1
      /\ \A i \in 1..(n - 1) : ids'[i] = IF i < p THEN ids[i] ELSE ids[i + 1]
    <2> DEFINE shorter == Index!RemoveAt(ids, p)
    <2>1. PICK S : S = 1..LastId
        OBVIOUS
    <2>2. ids \in Seq(S) /\ p \in 1..Len(ids)
        BY <1>3, <1>5, <2>1
    <2>3. /\ shorter \in Seq(S) /\ Len(shorter) = Len(ids) - 1
          /\ \A i \in 1..Len(shorter) : shorter[i] = IF i < p THEN ids[i] ELSE ids[i + 1]
        BY ONLY <2>2, Removed
    <2>4. ids' = shorter
        BY <1>2
    <2> HIDE DEF shorter
    <2> QED BY <2>1, <2>3, <2>4
<1>8. /\ handles' \in Seq(Nat) /\ Len(handles') = n - 1
      /\ \A i \in 1..(n - 1) : handles'[i] = IF i < p THEN handles[i] ELSE handles[i + 1]
    <2> DEFINE shorter == Index!RemoveAt(handles, p)
    <2>1. handles \in Seq(Nat) /\ p \in 1..Len(handles)
        BY <1>3, <1>5
    <2>2. /\ shorter \in Seq(Nat) /\ Len(shorter) = Len(handles) - 1
          /\ \A i \in 1..Len(shorter) : shorter[i] = IF i < p THEN handles[i] ELSE handles[i + 1]
        BY ONLY <2>1, Removed
    <2>3. handles' = shorter
        BY <1>2
    <2> HIDE DEF shorter
    <2> QED BY <1>5, <2>2, <2>3
<1> DEFINE old(i) == IF i < p THEN i ELSE i + 1
<1>9. ASSUME NEW i \in 1..(n - 1)
      PROVE  old(i) \in 1..n /\ old(i) # p /\ ids'[i] = ids[old(i)] /\ handles'[i] = handles[old(i)]
    <2>1. i \in Nat /\ p \in Nat /\ i \in 1..n /\ i + 1 \in 1..n
        BY <1>3, <1>5
    <2>2. ids'[i] = (IF i < p THEN ids[i] ELSE ids[i + 1])
          /\ handles'[i] = (IF i < p THEN handles[i] ELSE handles[i + 1])
        BY <1>7, <1>8
    <2> HIDE DEF n
    <2>3. CASE i < p
        BY <2>1, <2>2, <2>3
    <2>4. CASE ~(i < p)
        BY <2>1, <2>2, <2>4
    <2> QED BY <2>3, <2>4
<1>10. \A i, j \in 1..(n - 1) : i < j => old(i) < old(j)
    BY <1>3, <1>5
<1> DEFINE table == tables["player"]
<1>11. table \in Seq(Nat) /\ tables \in [Index!Kinds -> Seq(Nat)]
       /\ "player" \in Index!Kinds /\ "boid" \in Index!Kinds
    BY <1>4 DEF IndexTypes, Index!Kinds
<1>12. /\ \A i \in 1..Len(table) : table[i] \in DOMAIN entities /\ entities[table[i]].kind = "player"
       /\ \A h \in DOMAIN entities :
            entities[h].kind = "player" => \E i \in 1..Len(table) : table[i] = h
       /\ \A i, j \in 1..Len(table) : table[i] = table[j] => i = j
    BY <1>4, <1>11 DEF StoredOnce
<1> DEFINE shorterTable == Index!WithoutHandle(table, handle)
<1>13. LosesOnly(shorterTable, table, handle)
    <2>1. PICK k \in 1..Len(table) : table[k] = handle
        BY <1>3, <1>12
    <2> HIDE DEF table
    <2> QED BY <1>11, <1>12, <2>1, RemovedFromTable
<1>14. /\ tables' \in [Index!Kinds -> Seq(Nat)] /\ tables'["player"] = shorterTable
       /\ \A kind \in Index!Kinds : kind # "player" => tables'[kind] = tables[kind]
    BY <1>2, <1>11, <1>13 DEF LosesOnly
<1> HIDE DEF table, shorterTable
<1>15. IndexTypes'
    BY <1>2, <1>4, <1>6, <1>7, <1>8, <1>14 DEF IndexTypes
<1>16. EntitiesListed'
    <2>1. ASSUME NEW i \in 1..(n - 1), NEW j \in 1..(n - 1), i < j PROVE ids'[i] < ids'[j]
        <3>1. old(i) \in 1..n /\ old(j) \in 1..n /\ old(i) < old(j)
            BY <1>9, <1>10, <2>1
        <3> HIDE DEF old
        <3>2. ids[old(i)] < ids[old(j)]
            BY <1>4, <3>1 DEF EntitiesListed, Rising
        <3> QED BY <1>9, <3>2
    <2>2. ASSUME NEW i \in 1..(n - 1)
          PROVE  handles'[i] \in DOMAIN entities' /\ entities'[handles'[i]].id = ids'[i]
        <3>1. old(i) \in 1..n /\ old(i) # p /\ ids'[i] = ids[old(i)] /\ handles'[i] = handles[old(i)]
            BY <1>9
        <3> HIDE DEF old
        <3>2. handles[old(i)] \in DOMAIN entities /\ entities[handles[old(i)]].id = ids[old(i)]
            BY <1>4, <3>1 DEF EntitiesListed
        <3>3. handles[old(i)] # handle
            BY <1>3, <1>5, <3>1
        <3> QED BY <1>6, <3>1, <3>2, <3>3
    <2>3. ASSUME NEW h \in DOMAIN entities'
          PROVE  \E i \in 1..(n - 1) : handles'[i] = h
        <3>1. PICK k \in 1..n : handles[k] = h
            BY <1>4, <1>6 DEF EntitiesListed
        <3>2. k # p
            BY <1>3, <1>6, <3>1
        <3> DEFINE i == IF k < p THEN k ELSE k - 1
        <3>3. i \in 1..(n - 1) /\ old(i) = k
            BY <1>3, <1>5, <3>2
        <3> HIDE DEF i
        <3> QED BY <1>9, <3>1, <3>3
    <2> QED BY <1>7, <2>1, <2>2, <2>3 DEF EntitiesListed, Rising
<1>17. Boids' = Boids /\ \A h \in Boids : entities'[h] = entities[h]
    BY <1>3, <1>6 DEF Boids
<1>18. BoidsInRows'
    <2>1. boidCount' = boidCount
        BY <1>2
    <2> QED BY <1>4, <1>17, <2>1 DEF BoidsInRows, RowsAscend
<1>19. ASSUME NEW kind \in Index!Kinds PROVE StoredOnce(kind)'
    <2>1. CASE kind # "player"
        <3>1. tables'[kind] = tables[kind] /\ StoredOnce(kind)
            BY <1>4, <1>14, <2>1
        <3>2. \A h \in DOMAIN entities : entities[h].kind = kind => h \in DOMAIN entities'
            BY <1>3, <1>6, <2>1
        <3> QED BY <1>6, <3>1, <3>2 DEF StoredOnce
    <2>2. CASE kind = "player"
        <3>1. tables'[kind] = shorterTable
            BY <1>14, <2>2
        <3>2. \A i \in 1..Len(shorterTable) :
                shorterTable[i] \in DOMAIN entities' /\ entities'[shorterTable[i]].kind = kind
            BY <1>6, <1>12, <1>13, <2>2 DEF LosesOnly
        <3>3. \A h \in DOMAIN entities' :
                entities'[h].kind = kind => \E i \in 1..Len(shorterTable) : shorterTable[i] = h
            <4> SUFFICES ASSUME NEW h \in DOMAIN entities', entities'[h].kind = kind
                         PROVE  \E i \in 1..Len(shorterTable) : shorterTable[i] = h
                OBVIOUS
            <4>1. h \in DOMAIN entities /\ h # handle /\ entities[h].kind = "player"
                BY <1>6, <2>2
            <4>2. PICK j \in 1..Len(table) : table[j] = h
                BY <1>12, <4>1
            <4> QED BY <1>13, <4>1, <4>2 DEF LosesOnly
        <3> QED BY <1>13, <3>1, <3>2, <3>3 DEF StoredOnce, LosesOnly
    <2> QED BY <2>1, <2>2
<1>20. IssuedBehind'
    BY <1>2, <1>4, <1>17 DEF IssuedBehind
<1> QED BY <1>15, <1>16, <1>18, <1>19, <1>20 DEF IndexInv

\* The input of a player is not part of the index.
LEMMA InputStep ==
    ASSUME Index!IndexAssumption, IndexInv, NEW x \in 1..LastId, NEW steering \in Index!Steerings,
           Index!SetAuthoritativePlayerInput(x, steering)
    PROVE  IndexInv'
<1> DEFINE handle == Index!HandleOf(x)
<1>1. /\ Index!IsPlayer(x) /\ entities' = [entities EXCEPT ![handle].input = steering]
      /\ UNCHANGED <<tables, lastHandle, ids, handles, boidCount, nextId, issued, revived>>
    BY DEF Index!SetAuthoritativePlayerInput, Index!indexVars
<1>2. handle \in DOMAIN entities /\ entities \in [DOMAIN entities -> EntityRecords]
    BY <1>1, PlayerStands DEF IndexInv, IndexTypes
<1> HIDE DEF handle
<1>3. PICK record : record = [entities[handle] EXCEPT !.input = steering]
    OBVIOUS
<1>4. entities' = [entities EXCEPT ![handle] = record]
    BY <1>1, <1>3
<1>5. /\ record \in EntityRecords /\ record.id = entities[handle].id
      /\ record.kind = entities[handle].kind /\ record.row = entities[handle].row
    BY <1>2, <1>3 DEF EntityRecords
<1>6. /\ DOMAIN entities' = DOMAIN entities /\ entities' \in [DOMAIN entities -> EntityRecords]
      /\ \A h \in DOMAIN entities : /\ entities'[h].id = entities[h].id
                                    /\ entities'[h].kind = entities[h].kind
                                    /\ entities'[h].row = entities[h].row
    BY <1>2, <1>4, <1>5
<1>7. Boids' = Boids /\ Boids \subseteq DOMAIN entities
    BY <1>6 DEF Boids
<1>8. IndexTypes' /\ EntitiesListed'
    <2>1. IndexTypes'
        BY <1>1, <1>6 DEF IndexInv, IndexTypes
    <2>2. /\ \A i \in 1..Len(ids) : handles[i] \in DOMAIN entities /\ entities[handles[i]].id = ids[i]
          /\ \A h \in DOMAIN entities : \E i \in 1..Len(ids) : handles[i] = h
          /\ Rising(ids)
        BY DEF IndexInv, EntitiesListed
    <2>3. \A i \in 1..Len(ids) : handles[i] \in DOMAIN entities' /\ entities'[handles[i]].id = ids[i]
        BY <1>6, <2>2
    <2>4. EntitiesListed'
        BY <1>1, <1>6, <2>2, <2>3 DEF EntitiesListed, Rising
    <2> QED BY <2>1, <2>4
<1>9. BoidsInRows' /\ IssuedBehind'
    BY <1>1, <1>6, <1>7 DEF IndexInv, BoidsInRows, RowsAscend, IssuedBehind
<1>10. ASSUME NEW kind \in Index!Kinds PROVE StoredOnce(kind)'
    BY <1>1, <1>6 DEF IndexInv, StoredOnce
<1> QED BY <1>8, <1>9, <1>10 DEF IndexInv

\* One sequence behind another, by position.
Follows(s, t) ==
    /\ Len(s \o t) = Len(s) + Len(t)
    /\ \A i \in 1..Len(s) : i \in 1..(Len(s) + Len(t)) /\ (s \o t)[i] = s[i]
    /\ \A i \in 1..Len(t) : Len(s) + i \in 1..(Len(s) + Len(t)) /\ (s \o t)[Len(s) + i] = t[i]
    /\ \A i \in 1..(Len(s) + Len(t)) : i \in 1..Len(s) \/ \E k \in 1..Len(t) : i = Len(s) + k

\* The positions of a concatenation are those of its parts.
LEMMA Followed ==
    ASSUME NEW S, NEW s \in Seq(S), NEW t \in Seq(S)
    PROVE  s \o t \in Seq(S) /\ Follows(s, t)
<1>1. Len(s) \in Nat /\ Len(t) \in Nat
    OBVIOUS
<1>2. /\ s \o t \in Seq(S) /\ Len(s \o t) = Len(s) + Len(t)
      /\ \A i \in 1..(Len(s) + Len(t)) :
            (s \o t)[i] = IF i <= Len(s) THEN s[i] ELSE t[i - Len(s)]
    BY ConcatProperties
<1>3. ASSUME NEW i \in 1..Len(s)
      PROVE  i \in 1..(Len(s) + Len(t)) /\ (s \o t)[i] = s[i]
    BY <1>1, <1>2
<1>4. ASSUME NEW i \in 1..Len(t)
      PROVE  Len(s) + i \in 1..(Len(s) + Len(t)) /\ (s \o t)[Len(s) + i] = t[i]
    <2>1. Len(s) + i \in 1..(Len(s) + Len(t)) /\ ~(Len(s) + i <= Len(s)) /\ Len(s) + i - Len(s) = i
        BY <1>1
    <2> QED BY <1>2, <2>1
<1>5. ASSUME NEW i \in 1..(Len(s) + Len(t)), ~(i \in 1..Len(s))
      PROVE  \E k \in 1..Len(t) : i = Len(s) + k
    <2>1. i - Len(s) \in 1..Len(t) /\ i = Len(s) + (i - Len(s))
        BY <1>1, <1>5
    <2> QED BY <2>1
<1> QED BY <1>2, <1>3, <1>4, <1>5 DEF Follows

\* A function on the numbers up to its length is a sequence.
LEMMA FunctionIsSequence ==
    ASSUME NEW S, NEW k \in Nat, NEW f \in [1..k -> S]
    PROVE  f \in Seq(S) /\ Len(f) = k /\ DOMAIN f = 1..k
OBVIOUS

\* A batch that is accepted is listed behind all entities, in the rows behind all boids.
LEMMA AppendStep ==
    ASSUME Index!IndexAssumption, IndexInv,
           NEW batch \in Index!BoundedSeq(0..LastId, MaxAppended),
           Index!AppendAuthoritativeBoids(batch)
    PROVE  IndexInv'
<1> DEFINE n == Len(ids)
           m == Len(batch)
           made == [i \in DOMAIN batch |-> lastHandle + i]
           boid(i) == [id |-> batch[i], kind |-> "boid", row |-> boidCount + i - 1, input |-> "idle"]
<1>1. /\ batch # << >> /\ Index!Ascending(batch)
      /\ \A i \in DOMAIN batch : batch[i] # 0 /\ \A j \in DOMAIN ids : ids[j] < batch[i]
      /\ entities' = [h \in DOMAIN entities \cup Index!ToSet(made) |->
                        IF h \in DOMAIN entities THEN entities[h] ELSE boid(h - lastHandle)]
      /\ tables' = [tables EXCEPT !["boid"] = @ \o made]
      /\ lastHandle' = lastHandle + m /\ ids' = ids \o batch /\ handles' = handles \o made
      /\ boidCount' = boidCount + m /\ nextId' = Index!NextIdAfter(Index!Last(batch))
      /\ issued' = issued \cup Index!ToSet(batch) /\ revived' = (revived \/ nextId = 0)
    BY DEF Index!AppendAuthoritativeBoids, Index!Accepts, Index!RowOf
<1>2. IndexTypes /\ EntitiesListed /\ BoidsInRows /\ IssuedBehind
      /\ \A kind \in Index!Kinds : StoredOnce(kind)
    BY DEF IndexInv
<1>3. LastId \in Nat \ {0} /\ MaxAppended \in Nat
    BY DEF Index!IndexAssumption
<1>4. batch \in Seq(0..LastId) /\ m \in Nat /\ DOMAIN batch = 1..m
    <2>1. PICK k \in 0..MaxAppended : batch \in [1..k -> 0..LastId]
        BY DEF Index!BoundedSeq, Index!SeqOf
    <2>2. k \in Nat
        BY <1>3, <2>1
    <2>3. PICK S : S = 0..LastId
        OBVIOUS
    <2>4. batch \in [1..k -> S]
        BY <2>1, <2>3
    <2>5. batch \in Seq(S) /\ Len(batch) = k /\ DOMAIN batch = 1..k
        BY ONLY <2>2, <2>4, FunctionIsSequence
    <2> QED BY <2>2, <2>3, <2>5
<1>5. m \in Nat \ {0}
    BY <1>1, <1>4
<1>6. /\ n \in Nat /\ DOMAIN ids = 1..n /\ lastHandle \in Nat /\ boidCount \in Nat
      /\ ids \in Seq(1..LastId) /\ handles \in Seq(Nat) /\ Len(handles) = n
      /\ DOMAIN entities \subseteq 1..lastHandle
      /\ entities \in [DOMAIN entities -> EntityRecords]
    BY <1>2 DEF IndexTypes
<1>7. \A i \in 1..m : batch[i] \in 1..LastId /\ \A j \in 1..n : ids[j] < batch[i]
    <2>1. \A i \in 1..m : batch[i] \in 0..LastId
        <3>1. PICK S : S = 0..LastId
            OBVIOUS
        <3>2. batch \in Seq(S)
            BY <1>4, <3>1
        <3>3. \A i \in 1..Len(batch) : batch[i] \in S
            BY ONLY <3>2
        <3> QED BY <3>1, <3>3
    <2>2. \A i \in 1..m : batch[i] # 0 /\ \A j \in 1..n : ids[j] < batch[i]
        BY <1>1, <1>4, <1>6
    <2> HIDE DEF m, n
    <2> QED BY <1>3, <2>1, <2>2
<1>8. \A i, j \in 1..m : i < j => batch[i] < batch[j]
    <2>1. batch \in Seq(Nat)
        BY <1>3, <1>4
    <2> QED BY <1>1, <2>1, AscendingRises DEF Rising
<1>9. batch \in Seq(1..LastId)
    <2>1. PICK S : S = 1..LastId
        OBVIOUS
    <2>2. m \in Nat /\ batch = [i \in 1..m |-> batch[i]] /\ \A i \in 1..m : batch[i] \in S
        BY <1>4, <1>7, <2>1
    <2> HIDE DEF m
    <2>3. batch \in [1..m -> S]
        BY <2>2
    <2>4. batch \in Seq(S)
        BY ONLY <2>2, <2>3, FunctionIsSequence
    <2> QED BY <2>1, <2>4
<1>10. made \in Seq(Nat) /\ Len(made) = m /\ \A i \in 1..m : made[i] = lastHandle + i
    <2>1. made = [i \in 1..m |-> lastHandle + i]
        BY <1>4
    <2> HIDE DEF m
    <2>2. made \in [1..m -> Nat]
        BY <1>6, <2>1
    <2> QED BY <1>4, <2>1, <2>2
<1> HIDE DEF made
<1>11. /\ \A i \in 1..m : made[i] \notin DOMAIN entities /\ made[i] \in 1..(lastHandle + m)
       /\ \A i, j \in 1..m : made[i] = made[j] => i = j
       /\ \A i \in 1..m : made[i] - lastHandle = i
    BY <1>4, <1>6, <1>10
<1>12. Index!ToSet(made) = {made[i] : i \in 1..m}
    BY <1>10 DEF Index!ToSet
<1>13. \A i \in 1..m : boid(i) \in EntityRecords
    <2>1. \A i \in 1..m : boidCount + i - 1 \in Nat
        BY <1>4, <1>6
    <2> QED BY <1>7, <2>1 DEF EntityRecords, Index!Kinds, Index!Steerings
<1>14. /\ DOMAIN entities' = DOMAIN entities \cup {made[i] : i \in 1..m}
       /\ \A h \in DOMAIN entities : entities'[h] = entities[h]
       /\ \A i \in 1..m : made[i] \in DOMAIN entities' /\ entities'[made[i]] = boid(i)
    BY <1>1, <1>11, <1>12
<1>15. ASSUME NEW h \in DOMAIN entities', h \notin DOMAIN entities
       PROVE  \E i \in 1..m : h = made[i]
    BY <1>14, <1>15
<1>16. \A i \in 1..m : /\ boid(i).id = batch[i] /\ boid(i).kind = "boid"
                       /\ boid(i).row = boidCount + i - 1
    OBVIOUS
<1> HIDE DEF boid
<1>17. /\ ids' \in Seq(1..LastId) /\ Len(ids') = n + m
       /\ \A i \in 1..n : i \in 1..(n + m) /\ ids'[i] = ids[i]
       /\ \A i \in 1..m : n + i \in 1..(n + m) /\ ids'[n + i] = batch[i]
       /\ \A i \in 1..(n + m) : i \in 1..n \/ \E k \in 1..m : i = n + k
    <2>1. PICK S : S = 1..LastId
        OBVIOUS
    <2>2. ids \in Seq(S) /\ batch \in Seq(S)
        BY <1>6, <1>9, <2>1
    <2>3. /\ ids \o batch \in Seq(S) /\ Len(ids \o batch) = n + m
          /\ \A i \in 1..n : i \in 1..(n + m) /\ (ids \o batch)[i] = ids[i]
          /\ \A i \in 1..m : n + i \in 1..(n + m) /\ (ids \o batch)[n + i] = batch[i]
          /\ \A i \in 1..(n + m) : i \in 1..n \/ \E k \in 1..m : i = n + k
        BY <2>2, Followed DEF Follows
    <2> QED BY <1>1, <2>1, <2>3
<1>18. /\ handles' \in Seq(Nat) /\ Len(handles') = n + m
       /\ \A i \in 1..n : handles'[i] = handles[i]
       /\ \A i \in 1..m : handles'[n + i] = made[i]
    <2>1. /\ handles \o made \in Seq(Nat) /\ Len(handles \o made) = Len(handles) + Len(made)
          /\ \A i \in 1..Len(handles) : (handles \o made)[i] = handles[i]
          /\ \A i \in 1..Len(made) : (handles \o made)[Len(handles) + i] = made[i]
        <3>1. PICK S, t : S = Nat /\ t = made
            OBVIOUS
        <3>2. handles \in Seq(S) /\ t \in Seq(S)
            BY <1>6, <1>10, <3>1
        <3>3. /\ handles \o t \in Seq(S) /\ Len(handles \o t) = Len(handles) + Len(t)
              /\ \A i \in 1..Len(handles) : (handles \o t)[i] = handles[i]
              /\ \A i \in 1..Len(t) : (handles \o t)[Len(handles) + i] = t[i]
            <4>1. handles \o t \in Seq(S) /\ Follows(handles, t)
                BY ONLY <3>2, Followed
            <4> QED BY <4>1 DEF Follows
        <3> QED BY ONLY <3>1, <3>3
    <2> QED BY <1>1, <1>6, <1>10, <2>1
<1>19. "boid" \in Index!Kinds
    BY DEF Index!Kinds
<1> DEFINE table == tables["boid"]
<1>20. /\ table \in Seq(Nat) /\ table \o made \in Seq(Nat)
       /\ tables' \in [Index!Kinds -> Seq(Nat)] /\ tables'["boid"] = table \o made
       /\ \A kind \in Index!Kinds : kind # "boid" => tables'[kind] = tables[kind]
    <2>1. tables \in [Index!Kinds -> Seq(Nat)]
        BY <1>2 DEF IndexTypes
    <2>2. table \in Seq(Nat) /\ table \o made \in Seq(Nat)
        BY <1>10, <1>19, <2>1, ConcatProperties
    <2> QED BY <1>1, <1>19, <2>1, <2>2
<1> HIDE DEF table, n, m
<1>21. IndexTypes'
    <2>1. entities' \in [DOMAIN entities' -> EntityRecords]
        <3>1. \A h \in DOMAIN entities' : entities'[h] \in EntityRecords
            BY <1>6, <1>13, <1>14, <1>15
        <3>2. entities' = [h \in DOMAIN entities' |-> entities'[h]]
            BY <1>1, <1>12, <1>14
        <3> QED BY <3>1, <3>2
    <2>2. DOMAIN entities' \subseteq 1..(lastHandle + m)
        <3>1. \A h \in DOMAIN entities : h \in 1..(lastHandle + m)
            BY <1>4, <1>6
        <3> QED BY <1>11, <1>14, <3>1
    <2>3. nextId' \in 0..LastId
        <3>1. Index!Last(batch) \in 1..LastId
            BY <1>5, <1>7 DEF Index!Last, m
        <3>2. Index!NextEntityId(Index!Last(batch)) \in 0..LastId
            BY <1>3, <3>1 DEF Index!NextEntityId
        <3> QED BY <1>1, <1>2, <3>2 DEF Index!NextIdAfter, IndexTypes
    <2>4. issued' \in SUBSET (1..LastId) /\ revived' \in BOOLEAN
        BY <1>1, <1>2, <1>4, <1>7 DEF IndexTypes, Index!ToSet
    <2>5. lastHandle' \in Nat /\ boidCount' \in Nat /\ lastHandle' = lastHandle + m
        BY <1>1, <1>4, <1>6 DEF m
    <2> QED BY <1>17, <1>18, <1>20, <2>1, <2>2, <2>3, <2>4, <2>5 DEF IndexTypes
<1>22. EntitiesListed'
    <2>1. \A i, j \in 1..n : i < j => ids[i] < ids[j]
        BY <1>2 DEF EntitiesListed, Rising, n
    <2>2. ASSUME NEW i \in 1..(n + m), NEW j \in 1..(n + m), i < j PROVE ids'[i] < ids'[j]
        <3>1. CASE i \in 1..n /\ j \in 1..n
            BY <1>17, <2>1, <2>2, <3>1
        <3>2. ASSUME i \in 1..n, NEW k \in 1..m, j = n + k PROVE ids'[i] < ids'[j]
            BY <1>7, <1>17, <3>2
        <3>3. ASSUME NEW k \in 1..m, i = n + k, NEW l \in 1..m, j = n + l PROVE ids'[i] < ids'[j]
            <4>1. k < l
                BY <1>4, <1>6, <2>2, <3>3
            <4> QED BY <1>8, <1>17, <3>3, <4>1
        <3>4. ASSUME NEW k \in 1..m, i = n + k, j \in 1..n PROVE FALSE
            BY <1>4, <1>6, <2>2, <3>4
        <3> QED BY <1>17, <3>1, <3>2, <3>3, <3>4
    <2>3. \A i \in 1..n : handles[i] \in DOMAIN entities /\ entities[handles[i]].id = ids[i]
        BY <1>2 DEF EntitiesListed, n
    <2>4. ASSUME NEW i \in 1..(n + m)
          PROVE  handles'[i] \in DOMAIN entities' /\ entities'[handles'[i]].id = ids'[i]
        <3>1. CASE i \in 1..n
            BY <1>14, <1>17, <1>18, <2>3, <3>1
        <3>2. ASSUME NEW k \in 1..m, i = n + k
              PROVE  handles'[i] \in DOMAIN entities' /\ entities'[handles'[i]].id = ids'[i]
            <4>1. handles'[i] = made[k] /\ ids'[i] = batch[k]
                BY <1>17, <1>18, <3>2
            <4>2. made[k] \in DOMAIN entities' /\ entities'[made[k]] = boid(k) /\ boid(k).id = batch[k]
                BY <1>14, <1>16, <3>2
            <4> QED BY <4>1, <4>2
        <3> QED BY <1>17, <3>1, <3>2
    <2>5. ASSUME NEW h \in DOMAIN entities' PROVE \E i \in 1..(n + m) : handles'[i] = h
        <3>1. CASE h \in DOMAIN entities
            <4>1. PICK i \in 1..n : handles[i] = h
                BY <1>2, <3>1 DEF EntitiesListed, n
            <4> QED BY <1>17, <1>18, <4>1
        <3>2. CASE h \notin DOMAIN entities
            <4>1. PICK i \in 1..m : h = made[i]
                BY <1>15, <3>2
            <4> QED BY <1>17, <1>18, <4>1
        <3> QED BY <3>1, <3>2
    <2> QED BY <1>17, <2>2, <2>4, <2>5 DEF EntitiesListed, Rising
<1>23. /\ \A h \in Boids : h \in Boids' /\ h \in DOMAIN entities /\ entities'[h] = entities[h]
       /\ \A i \in 1..m : made[i] \in Boids'
       /\ \A h \in Boids' : h \in Boids \/ \E i \in 1..m : h = made[i]
    BY <1>14, <1>15, <1>16 DEF Boids
<1>24. BoidsInRows'
    <2>1. \A i \in 1..m : entities'[made[i]].row = boidCount + i - 1 /\ entities'[made[i]].id = batch[i]
        BY <1>14, <1>16
    <2>2. \A h \in Boids : entities[h].row \in Nat /\ entities[h].row < boidCount
        BY <1>2, <1>6, <1>23 DEF BoidsInRows, EntityRecords
    <2>3. ASSUME NEW h \in Boids, NEW i \in 1..m PROVE entities[h].id < batch[i]
        <3>1. PICK j \in 1..n : handles[j] = h
            BY <1>2, <1>23 DEF EntitiesListed, n
        <3>2. entities[h].id = ids[j]
            BY <1>2, <3>1 DEF EntitiesListed, n
        <3> QED BY <1>7, <3>1, <3>2
    <2>4. boidCount' = boidCount + m
        BY <1>1 DEF m
    <2>5. ASSUME NEW h \in Boids' PROVE entities'[h].row < boidCount + m
        <3>1. CASE h \in Boids
            BY <1>4, <1>6, <1>23, <2>2, <3>1
        <3>2. ASSUME NEW i \in 1..m, h = made[i] PROVE entities'[h].row < boidCount + m
            BY <1>4, <1>6, <2>1, <3>2
        <3> QED BY <1>23, <3>1, <3>2
    <2>6. ASSUME NEW r \in 0..(boidCount + m - 1) PROVE \E h \in Boids' : entities'[h].row = r
        <3>1. CASE r < boidCount
            <4>1. r \in 0..(boidCount - 1)
                BY <1>6, <3>1
            <4>2. PICK h \in Boids : entities[h].row = r
                BY <1>2, <4>1 DEF BoidsInRows
            <4> QED BY <1>23, <4>2
        <3>2. CASE ~(r < boidCount)
            <4>1. r - boidCount + 1 \in 1..m /\ boidCount + (r - boidCount + 1) - 1 = r
                BY <1>4, <1>6, <3>2
            <4>2. PICK i \in 1..m : boidCount + i - 1 = r
                BY <4>1
            <4> QED BY <1>23, <2>1, <4>2
        <3> QED BY <3>1, <3>2
    <2>7. \A h, g \in Boids : RowsAscend(h, g)
        BY <1>2 DEF BoidsInRows
    <2>8. ASSUME NEW h \in Boids', NEW g \in Boids'
          PROVE  /\ entities'[h].row = entities'[g].row => h = g
                 /\ entities'[h].row < entities'[g].row => entities'[h].id < entities'[g].id
        <3>1. CASE h \in Boids /\ g \in Boids
            <4>1. entities'[h] = entities[h] /\ entities'[g] = entities[g]
                BY <1>23, <3>1
            <4>2. RowsAscend(h, g)
                BY <2>7, <3>1
            <4> QED BY <4>1, <4>2 DEF RowsAscend
        <3>2. ASSUME h \in Boids, NEW i \in 1..m, g = made[i]
              PROVE  /\ entities'[h].row # entities'[g].row
                     /\ entities'[h].id < entities'[g].id
            <4>1. entities'[h] = entities[h] /\ entities'[g].row = boidCount + i - 1 /\ entities'[g].id = batch[i]
                BY <1>23, <2>1, <3>2
            <4>2. entities[h].row # boidCount + i - 1
                BY <1>4, <1>6, <2>2, <3>2
            <4> QED BY <2>3, <3>2, <4>1, <4>2
        <3>3. ASSUME NEW i \in 1..m, h = made[i], g \in Boids
              PROVE  entities'[h].row # entities'[g].row /\ ~(entities'[h].row < entities'[g].row)
            <4>1. entities'[g] = entities[g] /\ entities'[h].row = boidCount + i - 1
                BY <1>23, <2>1, <3>3
            <4>2. entities[g].row \in Nat /\ entities[g].row < boidCount
                BY <2>2, <3>3
            <4>3. boidCount + i - 1 # entities[g].row /\ ~(boidCount + i - 1 < entities[g].row)
                BY <1>4, <1>6, <4>2
            <4> QED BY <4>1, <4>3
        <3>4. ASSUME NEW i \in 1..m, h = made[i], NEW k \in 1..m, g = made[k]
              PROVE  /\ entities'[h].row = entities'[g].row => h = g
                     /\ entities'[h].row < entities'[g].row => entities'[h].id < entities'[g].id
            <4>1. /\ entities'[h].row = boidCount + i - 1 /\ entities'[g].row = boidCount + k - 1
                  /\ entities'[h].id = batch[i] /\ entities'[g].id = batch[k]
                BY <2>1, <3>4
            <4>2. boidCount + i - 1 = boidCount + k - 1 => i = k
                BY <1>4, <1>6
            <4>3. boidCount + i - 1 < boidCount + k - 1 => i < k
                BY <1>4, <1>6
            <4> QED BY <1>8, <3>4, <4>1, <4>2, <4>3
        <3> QED BY <1>23, <3>1, <3>2, <3>3, <3>4
    <2>9. \A r \in 0..(boidCount' - 1) : \E h \in Boids' : entities'[h].row = r
        <3> SUFFICES ASSUME NEW r \in 0..(boidCount' - 1)
                     PROVE  \E h \in Boids' : entities'[h].row = r
            OBVIOUS
        <3>1. r \in 0..(boidCount + m - 1)
            BY <1>4, <1>6, <2>4
        <3> QED BY <2>6, <3>1
    <2>10. \A h \in Boids' : entities'[h].row < boidCount'
        BY <2>4, <2>5
    <2> QED BY <2>8, <2>9, <2>10 DEF BoidsInRows, RowsAscend
<1>25. ASSUME NEW kind \in Index!Kinds PROVE StoredOnce(kind)'
    <2>1. CASE kind # "boid"
        <3>1. tables'[kind] = tables[kind] /\ StoredOnce(kind)
            BY <1>2, <1>20, <2>1
        <3>2. \A h \in DOMAIN entities' : entities'[h].kind = kind => h \in DOMAIN entities
            BY <1>14, <1>15, <1>16, <2>1
        <3> QED BY <1>14, <3>1, <3>2 DEF StoredOnce
    <2>2. CASE kind = "boid"
        <3> DEFINE c == Len(table)
                   longer == table \o made
        <3>1. /\ c \in Nat /\ longer \in Seq(Nat) /\ Len(longer) = c + m
              /\ \A i \in 1..c : i \in 1..(c + m) /\ longer[i] = table[i]
              /\ \A i \in 1..m : c + i \in 1..(c + m) /\ longer[c + i] = made[i]
              /\ \A i \in 1..(c + m) : i \in 1..c \/ \E k \in 1..m : i = c + k
            <4>1. table \in Seq(Nat) /\ made \in Seq(Nat)
                BY <1>10, <1>20
            <4>2. /\ Len(table) \in Nat
                  /\ (table \o made) \in Seq(Nat) /\ Len(table \o made) = Len(table) + Len(made)
                  /\ \A i \in 1..Len(table) :
                        i \in 1..(Len(table) + Len(made)) /\ (table \o made)[i] = table[i]
                  /\ \A i \in 1..Len(made) : /\ Len(table) + i \in 1..(Len(table) + Len(made))
                                               /\ (table \o made)[Len(table) + i] = made[i]
                  /\ \A i \in 1..(Len(table) + Len(made)) :
                        i \in 1..Len(table) \/ \E k \in 1..Len(made) : i = Len(table) + k
                BY ONLY <4>1, Followed DEF Follows
            <4> QED BY <1>10, <4>2
        <3>2. tables'[kind] = longer
            BY <1>20, <2>2
        <3> HIDE DEF longer, c
        <3>3. /\ \A i \in 1..c : table[i] \in DOMAIN entities /\ entities[table[i]].kind = kind
              /\ \A h \in DOMAIN entities :
                    entities[h].kind = kind => \E i \in 1..c : table[i] = h
              /\ \A i, j \in 1..c : table[i] = table[j] => i = j
            BY <1>2, <1>19, <2>2 DEF StoredOnce, table, c
        <3>4. ASSUME NEW i \in 1..(c + m)
              PROVE  longer[i] \in DOMAIN entities' /\ entities'[longer[i]].kind = kind
            <4>1. CASE i \in 1..c
                <5>1. longer[i] = table[i] /\ table[i] \in DOMAIN entities /\ entities[table[i]].kind = kind
                    BY <3>1, <3>3, <4>1
                <5> QED BY <1>14, <5>1
            <4>2. ASSUME NEW k \in 1..m, i = c + k
                  PROVE  longer[i] \in DOMAIN entities' /\ entities'[longer[i]].kind = kind
                <5>1. longer[i] = made[k]
                    BY <3>1, <4>2
                <5>2. made[k] \in DOMAIN entities' /\ entities'[made[k]] = boid(k) /\ boid(k).kind = "boid"
                    BY <1>14, <1>16, <4>2
                <5> QED BY <2>2, <5>1, <5>2
            <4> QED BY <3>1, <4>1, <4>2
        <3>5. ASSUME NEW h \in DOMAIN entities', entities'[h].kind = kind
              PROVE  \E i \in 1..(c + m) : longer[i] = h
            <4>1. CASE h \in DOMAIN entities
                <5>1. PICK i \in 1..c : table[i] = h
                    BY <1>14, <3>3, <3>5, <4>1
                <5> QED BY <3>1, <5>1
            <4>2. CASE h \notin DOMAIN entities
                <5>1. PICK i \in 1..m : h = made[i]
                    BY <1>15, <4>2
                <5> QED BY <3>1, <5>1
            <4> QED BY <4>1, <4>2
        <3>6. ASSUME NEW i \in 1..(c + m), NEW j \in 1..(c + m), longer[i] = longer[j]
              PROVE  i = j
            <4>1. CASE i \in 1..c /\ j \in 1..c
                BY <3>1, <3>3, <3>6, <4>1
            <4>2. ASSUME i \in 1..c, NEW k \in 1..m, j = c + k PROVE FALSE
                BY <1>11, <3>1, <3>3, <3>6, <4>2
            <4>3. ASSUME NEW k \in 1..m, i = c + k, j \in 1..c PROVE FALSE
                BY <1>11, <3>1, <3>3, <3>6, <4>3
            <4>4. ASSUME NEW k \in 1..m, i = c + k, NEW l \in 1..m, j = c + l PROVE i = j
                BY <1>11, <3>1, <3>6, <4>4
            <4> QED BY <3>1, <4>1, <4>2, <4>3, <4>4
        <3> QED BY <3>1, <3>2, <3>4, <3>5, <3>6 DEF StoredOnce
    <2> QED BY <2>1, <2>2
<1>26. IssuedBehind'
    <2> SUFFICES ASSUME ~revived, nextId # 0, NEW y \in issued'
                 PROVE  y < nextId' \/ \E h \in Boids' : entities'[h].id = y
        BY <1>1 DEF IssuedBehind
    <2>1. CASE y \in issued
        <3>1. CASE \E h \in Boids : entities[h].id = y
            BY <1>23, <3>1
        <3>2. CASE y < nextId
            <4>1. Index!Last(batch) \in 1..LastId
                BY <1>5, <1>7 DEF Index!Last, m
            <4>2. nextId <= nextId' /\ nextId \in Nat /\ nextId' \in Nat /\ y \in Nat
                BY <1>1, <1>2, <1>3, <2>1, <4>1 DEF Index!NextIdAfter, Index!NextEntityId, IndexTypes
            <4> QED BY <3>2, <4>2
        <3> QED BY <1>2, <2>1, <3>1, <3>2 DEF IssuedBehind
    <2>2. CASE y \in Index!ToSet(batch)
        <3>1. PICK i \in 1..m : y = batch[i]
            BY <1>4, <2>2 DEF Index!ToSet
        <3> QED BY <1>14, <1>16, <1>23, <3>1
    <2> QED BY <1>1, <2>1, <2>2
<1> QED BY <1>21, <1>22, <1>24, <1>25, <1>26 DEF IndexInv

-----------------------------------------------------------------------------
(* The invariant holds from the start, and says what the index promises. *)

\* The index starts out empty.
LEMMA IndexInit ==
    ASSUME Index!IndexAssumption, Index!Init
    PROVE  IndexInv
<1>1. /\ entities = << >> /\ tables = [kind \in Index!Kinds |-> << >>] /\ lastHandle = 0
      /\ ids = << >> /\ handles = << >> /\ boidCount = 0 /\ nextId = 1 /\ issued = {} /\ revived = FALSE
    BY DEF Index!Init
<1>2. LastId \in Nat \ {0}
    BY DEF Index!IndexAssumption
<1>3. DOMAIN entities = {} /\ entities = [h \in {} |-> entities[h]] /\ Len(ids) = 0
      /\ Len(handles) = 0 /\ Boids = {}
    BY <1>1 DEF Boids
<1>4. ASSUME NEW S PROVE << >> \in Seq(S)
    OBVIOUS
<1>5. IndexTypes
    <2>1. entities \in [DOMAIN entities -> EntityRecords] /\ DOMAIN entities \subseteq 1..lastHandle
        BY <1>3
    <2>2. tables \in [Index!Kinds -> Seq(Nat)]
        BY <1>1, <1>4
    <2>3. ids \in Seq(1..LastId) /\ handles \in Seq(Nat)
        BY <1>1, <1>4
    <2>4. lastHandle \in Nat /\ boidCount \in Nat /\ Len(handles) = Len(ids)
        BY <1>1, <1>3
    <2>5. 1 \in 0..LastId /\ {} \in SUBSET (1..LastId)
        BY <1>2
    <2>6. revived \in BOOLEAN
        BY <1>1
    <2>7. nextId \in 0..LastId /\ issued \in SUBSET (1..LastId)
        BY <1>1, <2>5
    <2> QED BY <2>1, <2>2, <2>3, <2>4, <2>6, <2>7 DEF IndexTypes
<1>6. EntitiesListed
    BY <1>3 DEF EntitiesListed, Rising
<1>7. BoidsInRows
    BY <1>1, <1>3 DEF BoidsInRows
<1>8. ASSUME NEW kind \in Index!Kinds PROVE StoredOnce(kind)
    <2>1. Len(tables[kind]) = 0
        BY <1>1
    <2> QED BY <1>3, <2>1 DEF StoredOnce
<1>9. IssuedBehind
    BY <1>1 DEF IssuedBehind
<1> QED BY <1>5, <1>6, <1>7, <1>8, <1>9 DEF IndexInv

\* As many boids as rows, and no more entities than the index lists.
LEMMA BoidsCounted ==
    ASSUME Index!IndexAssumption, IndexInv
    PROVE  /\ Cardinality(Boids) = boidCount /\ boidCount <= Len(ids)
           /\ Cardinality(DOMAIN entities) = Len(ids)
<1>1. /\ boidCount \in Nat /\ Len(ids) \in Nat
      /\ entities \in [DOMAIN entities -> EntityRecords]
    BY DEF IndexInv, IndexTypes
<1>2. /\ IsFiniteSet(0..(boidCount - 1)) /\ Cardinality(0..(boidCount - 1)) = boidCount
      /\ IsFiniteSet(1..Len(ids)) /\ Cardinality(1..Len(ids)) = Len(ids)
    <2>1. 0 \in Int /\ boidCount - 1 \in Int /\ 1 \in Int /\ Len(ids) \in Int
        BY <1>1
    <2>2. /\ IsFiniteSet(0..(boidCount - 1))
          /\ Cardinality(0..(boidCount - 1)) = IF 0 > boidCount - 1 THEN 0 ELSE boidCount - 1 - 0 + 1
        BY ONLY <2>1, FS_Interval
    <2>3. /\ IsFiniteSet(1..Len(ids))
          /\ Cardinality(1..Len(ids)) = IF 1 > Len(ids) THEN 0 ELSE Len(ids) - 1 + 1
        BY ONLY <2>1, FS_Interval
    <2> QED BY <1>1, <2>2, <2>3
<1>3. IsFiniteSet(DOMAIN entities) /\ Cardinality(DOMAIN entities) = Len(ids)
    <2> DEFINE listed == [i \in 1..Len(ids) |-> handles[i]]
    <2>1. listed \in [1..Len(ids) -> DOMAIN entities]
        BY DEF IndexInv, EntitiesListed
    <2>2. \A i, j \in 1..Len(ids) : listed[i] = listed[j] => i = j
        BY HandlesDiffer DEF IndexInv
    <2>3. \A h \in DOMAIN entities : \E i \in 1..Len(ids) : listed[i] = h
        BY DEF IndexInv, EntitiesListed
    <2> HIDE DEF listed
    <2>4. listed \in Bijection(1..Len(ids), DOMAIN entities)
        BY <2>1, <2>2, <2>3 DEF Bijection, Injection, Surjection, IsInjective
    <2>5. ExistsBijection(1..Len(ids), DOMAIN entities)
        BY <2>4 DEF ExistsBijection
    <2> QED BY <1>2, <2>5, FS_Bijection
<1>4. Cardinality(Boids) = boidCount
    <2>1. PICK R : R = 0..(boidCount - 1)
        OBVIOUS
    <2> DEFINE boidAt == [r \in R |-> CHOOSE h \in Boids : entities[h].row = r]
    <2>2. \A r \in R : boidAt[r] \in Boids /\ entities[boidAt[r]].row = r
        <3>1. \A r \in R : \E h \in Boids : entities[h].row = r
            BY <2>1 DEF IndexInv, BoidsInRows
        <3> QED BY <3>1
    <2>3. ASSUME NEW h \in Boids PROVE \E r \in R : boidAt[r] = h
        <3>1. entities[h].row \in Nat /\ entities[h].row < boidCount
            BY <1>1 DEF IndexInv, BoidsInRows, Boids, EntityRecords
        <3>2. PICK r \in R : r = entities[h].row
            BY <1>1, <2>1, <3>1
        <3>3. boidAt[r] \in Boids /\ entities[boidAt[r]].row = entities[h].row
            BY <2>2, <3>2
        <3>4. RowsAscend(boidAt[r], h)
            BY <3>3 DEF IndexInv, BoidsInRows
        <3> QED BY <3>3, <3>4 DEF RowsAscend
    <2>4. boidAt \in [R -> Boids]
        BY <2>2
    <2> HIDE DEF boidAt
    <2>5. boidAt \in Bijection(R, Boids)
        BY <2>2, <2>3, <2>4 DEF Bijection, Injection, Surjection, IsInjective
    <2>6. ExistsBijection(R, Boids)
        BY <2>5 DEF ExistsBijection
    <2>7. IsFiniteSet(R) /\ Cardinality(R) = boidCount
        BY <1>2, <2>1
    <2> QED BY ONLY <2>6, <2>7, FS_Bijection
<1>5. Cardinality(Boids) <= Cardinality(DOMAIN entities)
    <2>1. Boids \in SUBSET (DOMAIN entities)
        BY DEF Boids
    <2> QED BY <1>3, <2>1, FS_Subset
<1> QED BY <1>3, <1>4, <1>5

\* What the state holds.
LEMMA IndexTypesHold ==
    ASSUME Index!IndexAssumption, IndexInv
    PROVE  Index!TypeOK
<1>1. boidCount \in 0..Len(ids)
    BY BoidsCounted DEF IndexInv, IndexTypes
<1>2. \A h \in DOMAIN entities : entities[h] \in EntityRecords
    BY DEF IndexInv, IndexTypes
<1> QED BY <1>1, <1>2 DEF IndexInv, IndexTypes, EntityRecords, Index!TypeOK

\* The index lists exactly the live entities.
LEMMA IndexMatches ==
    ASSUME Index!IndexAssumption, IndexInv
    PROVE  Index!IndexMatchesWorld
<1>1. /\ handles \in Seq(Nat) /\ Len(handles) = Len(ids) /\ ids \in Seq(1..LastId)
      /\ DOMAIN handles = 1..Len(ids) /\ DOMAIN ids = 1..Len(ids) /\ Len(ids) \in Nat
    BY DEF IndexInv, IndexTypes
<1>2. Index!ToSet(handles) = DOMAIN entities
    BY <1>1 DEF IndexInv, EntitiesListed, Index!ToSet
<1>3. Index!Ascending(ids)
    <2>1. \A i \in 1..(Len(ids) - 1) : i \in 1..Len(ids) /\ i + 1 \in 1..Len(ids) /\ i < i + 1
        BY <1>1
    <2> QED BY <2>1 DEF IndexInv, EntitiesListed, Rising, Index!Ascending
<1> QED BY <1>1, <1>2, <1>3 DEF IndexInv, EntitiesListed, Index!IndexMatchesWorld

\* The capture of the next tick succeeds.
LEMMA CaptureSucceeds ==
    ASSUME Index!IndexAssumption, IndexInv
    PROVE  Index!CaptureAccepts
<1>1. /\ handles \in Seq(Nat) /\ Len(handles) = Len(ids) /\ DOMAIN handles = 1..Len(ids)
      /\ entities \in [DOMAIN entities -> EntityRecords] /\ boidCount \in Nat /\ LastId \in Nat
    BY DEF IndexInv, IndexTypes, Index!IndexAssumption
<1> DEFINE boids == {h \in DOMAIN entities : entities[h].kind = "boid"}
           rows == {entities[h].row : h \in boids}
<1>2. boids = Boids
    BY DEF Boids
<1>3. rows = 0..(boidCount - 1)
    <2>1. \A h \in Boids : entities[h].row \in Nat /\ entities[h].row < boidCount
        BY <1>1 DEF IndexInv, BoidsInRows, Boids, EntityRecords
    <2>2. \A h \in Boids : entities[h].row \in 0..(boidCount - 1)
        BY <1>1, <2>1
    <2>3. \A r \in 0..(boidCount - 1) : \E h \in Boids : entities[h].row = r
        BY DEF IndexInv, BoidsInRows
    <2> HIDE DEF boids
    <2> QED BY <1>2, <2>2, <2>3
<1>4. Index!Cardinality(boids) = boidCount
    BY <1>2, BoidsCounted, SameCardinality
<1>5. ASSUME NEW h \in boids, NEW g \in boids, entities[h].row < entities[g].row
      PROVE  entities[h].id <= entities[g].id
    <2>1. RowsAscend(h, g)
        BY <1>2 DEF IndexInv, BoidsInRows
    <2>2. entities[h].id \in Nat /\ entities[g].id \in Nat
        BY <1>1 DEF EntityRecords
    <2> QED BY <1>5, <2>1, <2>2 DEF RowsAscend
<1>6. \A i \in DOMAIN handles : handles[i] \in DOMAIN entities /\ entities[handles[i]].id = ids[i]
    BY <1>1 DEF IndexInv, EntitiesListed
<1> QED BY <1>3, <1>4, <1>5, <1>6 DEF Index!CaptureAccepts, Index!CaptureValid

\* As many entities as places before its own have lesser identifiers.
LEMMA RankIsPlace ==
    ASSUME Index!IndexAssumption, IndexInv, NEW i \in 1..Len(ids)
    PROVE  Cardinality({other \in DOMAIN entities : Index!ById(other, handles[i])}) + 1 = i
<1> DEFINE lesser == {other \in DOMAIN entities : Index!ById(other, handles[i])}
           before_i == [j \in 1..(i - 1) |-> handles[j]]
<1>1. Len(ids) \in Nat /\ i \in Nat /\ i - 1 \in Nat /\ \A j \in 1..Len(ids) : ids[j] \in Nat
    <2>1. ids \in Seq(1..LastId) /\ LastId \in Nat
        BY DEF IndexInv, IndexTypes, Index!IndexAssumption
    <2>2. Len(ids) \in Nat /\ \A j \in 1..Len(ids) : ids[j] \in 1..LastId
        BY <2>1
    <2> QED BY <2>1, <2>2
<1>2. \A j \in 1..Len(ids) : handles[j] \in DOMAIN entities /\ entities[handles[j]].id = ids[j]
    BY DEF IndexInv, EntitiesListed
<1>3. \A j \in 1..(i - 1) : j \in 1..Len(ids) /\ j < i
    BY <1>1
<1>4. \A j \in 1..(i - 1) : handles[j] \in lesser
    BY <1>2, <1>3 DEF IndexInv, EntitiesListed, Rising, Index!ById
<1>5. ASSUME NEW h \in lesser PROVE \E j \in 1..(i - 1) : handles[j] = h
    <2>1. PICK j \in 1..Len(ids) : handles[j] = h
        BY DEF IndexInv, EntitiesListed
    <2>2. ids[j] < ids[i]
        BY <1>2, <1>5, <2>1 DEF Index!ById
    <2>3. i < j => ids[i] < ids[j]
        BY DEF IndexInv, EntitiesListed, Rising
    <2>4. j < i
        BY <1>1, <2>2, <2>3
    <2> QED BY <1>1, <2>1, <2>4
<1>6. \A j, k \in 1..(i - 1) : handles[j] = handles[k] => j = k
    BY <1>3, HandlesDiffer DEF IndexInv
<1> HIDE DEF lesser
<1>7. before_i \in [1..(i - 1) -> lesser] /\ \A j \in 1..(i - 1) : before_i[j] = handles[j]
    BY <1>4
<1> HIDE DEF before_i
<1>8. before_i \in Bijection(1..(i - 1), lesser)
    BY <1>5, <1>6, <1>7 DEF Bijection, Injection, Surjection, IsInjective
<1>9. ExistsBijection(1..(i - 1), lesser)
    BY <1>8 DEF ExistsBijection
<1>10. IsFiniteSet(1..(i - 1)) /\ Cardinality(1..(i - 1)) = i - 1
    <2>1. 1 \in Int /\ i - 1 \in Int
        BY <1>1
    <2>2. /\ IsFiniteSet(1..(i - 1))
          /\ Cardinality(1..(i - 1)) = IF 1 > i - 1 THEN 0 ELSE i - 1 - 1 + 1
        BY ONLY <2>1, FS_Interval
    <2> QED BY <1>1, <2>2
<1>11. Cardinality(lesser) = i - 1
    BY <1>9, <1>10, FS_Bijection
<1> QED BY <1>1, <1>11 DEF lesser

\* The two tables together hold every entity.
LEMMA TablesHoldAll ==
    ASSUME IndexInv, NEW first \in Index!Kinds, NEW second \in Index!Kinds, first # second
    PROVE  Index!ToSet(tables[first] \o tables[second]) = DOMAIN entities
<1>1. /\ tables[first] \in Seq(Nat) /\ tables[second] \in Seq(Nat)
      /\ \A h \in DOMAIN entities : entities[h].kind = first \/ entities[h].kind = second
    <2>1. \A kind \in Index!Kinds : kind = first \/ kind = second
        BY DEF Index!Kinds
    <2>2. \A h \in DOMAIN entities : entities[h].kind \in Index!Kinds
        BY DEF IndexInv, IndexTypes, EntityRecords
    <2> QED BY <2>1, <2>2 DEF IndexInv, IndexTypes
<1>2. PICK s \in Seq(Nat), t \in Seq(Nat) : s = tables[first] /\ t = tables[second]
    BY <1>1
<1>3. /\ (s \o t) \in Seq(Nat) /\ Len(s \o t) = Len(s) + Len(t)
      /\ \A i \in 1..Len(s) : i \in 1..(Len(s) + Len(t)) /\ (s \o t)[i] = s[i]
      /\ \A i \in 1..Len(t) : /\ Len(s) + i \in 1..(Len(s) + Len(t))
                              /\ (s \o t)[Len(s) + i] = t[i]
      /\ \A i \in 1..(Len(s) + Len(t)) :
            i \in 1..Len(s) \/ \E k \in 1..Len(t) : i = Len(s) + k
    BY Followed DEF Follows
<1>4. /\ \A i \in 1..Len(s) : s[i] \in DOMAIN entities
      /\ \A i \in 1..Len(t) : t[i] \in DOMAIN entities
      /\ \A h \in DOMAIN entities : (\E i \in 1..Len(s) : s[i] = h) \/ (\E i \in 1..Len(t) : t[i] = h)
    BY <1>1, <1>2 DEF IndexInv, StoredOnce
<1> DEFINE whole == s \o t
<1>5. DOMAIN whole = 1..(Len(s) + Len(t))
    BY <1>3
<1> HIDE DEF whole
<1>6. Index!ToSet(whole) = {whole[i] : i \in 1..(Len(s) + Len(t))}
    BY <1>5 DEF Index!ToSet
<1>7. ASSUME NEW i \in 1..(Len(s) + Len(t)) PROVE whole[i] \in DOMAIN entities
    BY <1>3, <1>4 DEF whole
<1>8. ASSUME NEW h \in DOMAIN entities PROVE \E i \in 1..(Len(s) + Len(t)) : whole[i] = h
    BY <1>3, <1>4 DEF whole
<1>9. Index!ToSet(whole) = DOMAIN entities
    BY <1>6, <1>7, <1>8
<1> QED BY <1>2, <1>9 DEF whole

\* Sorted by their identifiers, the entities stand as the index lists them.
LEMMA SortedAsListed ==
    ASSUME Index!IndexAssumption, IndexInv, NEW scratch, Index!ToSet(scratch) = DOMAIN entities
    PROVE  Index!SortedScratch(scratch) = handles
<1> DEFINE rank(h) == Index!Cardinality({other \in DOMAIN entities : Index!ById(other, h)}) + 1
<1>1. /\ handles \in Seq(Nat) /\ Len(handles) = Len(ids) /\ Len(ids) \in Nat
    BY DEF IndexInv, IndexTypes
<1>2. handles = [i \in 1..Len(ids) |-> handles[i]]
    BY <1>1
<1>3. \A i \in 1..Len(ids) : rank(handles[i]) = i
    BY RankIsPlace, SameCardinality
<1>4. Index!Cardinality(DOMAIN entities) = Len(ids)
    BY BoidsCounted, SameCardinality
<1>5. Index!SortedScratch(scratch)
        = [i \in 1..Len(ids) |-> CHOOSE h \in DOMAIN entities : rank(h) = i]
    BY <1>4 DEF Index!SortedScratch
<1> HIDE DEF rank
<1>6. ASSUME NEW i \in 1..Len(ids)
      PROVE  (CHOOSE h \in DOMAIN entities : rank(h) = i) = handles[i]
    <2>1. handles[i] \in DOMAIN entities /\ rank(handles[i]) = i
        BY <1>3 DEF IndexInv, EntitiesListed
    <2>2. ASSUME NEW h \in DOMAIN entities, rank(h) = i PROVE h = handles[i]
        <3>1. PICK j \in 1..Len(ids) : handles[j] = h
            BY DEF IndexInv, EntitiesListed
        <3> QED BY <1>3, <2>2, <3>1
    <2> QED BY <2>1, <2>2
<1> QED BY <1>2, <1>5, <1>6

\* Extraction succeeds, whichever table is iterated first.
LEMMA ExtractionSucceeds ==
    ASSUME Index!IndexAssumption, IndexInv
    PROVE  Index!ExtractionExact
<1> SUFFICES ASSUME NEW order \in {<<"boid", "player">>, <<"player", "boid">>}
             PROVE  Index!ExtractWorldSnapshot(order) =
                        [valid |-> TRUE,
                         entities |-> [i \in DOMAIN ids |-> <<ids[i], entities[handles[i]].kind>>]]
    BY DEF Index!ExtractionExact
<1>1. /\ DOMAIN handles = 1..Len(ids) /\ DOMAIN ids = 1..Len(ids) /\ Len(handles) = Len(ids)
    BY DEF IndexInv, IndexTypes
<1>2. Index!ToSet(tables[order[1]] \o tables[order[2]]) = DOMAIN entities
    <2>1. order[1] \in Index!Kinds /\ order[2] \in Index!Kinds /\ order[1] # order[2]
        BY DEF Index!Kinds
    <2> QED BY <2>1, TablesHoldAll
<1>3. Index!SortedScratch(tables[order[1]] \o tables[order[2]]) = handles
    BY <1>2, SortedAsListed
<1>4. \A i \in 1..Len(ids) : entities[handles[i]].id = ids[i]
    BY DEF IndexInv, EntitiesListed
<1> QED BY <1>1, <1>3, <1>4 DEF Index!ExtractWorldSnapshot

\* A player gets an identifier that was never in use.
LEMMA NewPlayerIsNew ==
    ASSUME Index!IndexAssumption, IndexInv, Index!Next, ~revived,
           NEW h \in DOMAIN entities' \ DOMAIN entities, entities'[h].kind = "player"
    PROVE  entities'[h].id \notin issued
<1>1. CASE Index!SpawnAuthoritativePlayer
    <2> DEFINE x == Index!FreeId
    <2>1. /\ x # 0
          /\ entities' = [g \in DOMAIN entities \cup {lastHandle + 1} |->
                IF g = lastHandle + 1 THEN [id |-> x, kind |-> "player", row |-> 0, input |-> "idle"]
                ELSE entities[g]]
        BY <1>1 DEF Index!SpawnAuthoritativePlayer
    <2>2. nextId # 0 /\ x \in nextId..LastId /\ ~Index!Has(x)
        BY <2>1, FreeIdIsNew DEF IndexInv
    <2> HIDE DEF x
    <2>3. entities'[h].id = x
        BY <2>1
    <2>4. ASSUME x \in issued PROVE FALSE
        <3>1. nextId \in Nat /\ LastId \in Nat
            BY DEF IndexInv, IndexTypes, Index!IndexAssumption
        <3>2. ~(x < nextId)
            BY <2>2, <3>1
        <3>3. PICK g \in Boids : entities[g].id = x
            BY <2>2, <2>4, <3>2 DEF IndexInv, IssuedBehind
        <3>4. PICK i \in 1..Len(ids) : handles[i] = g
            BY <3>3 DEF IndexInv, EntitiesListed, Boids
        <3>5. ids[i] = x
            BY <3>3, <3>4 DEF IndexInv, EntitiesListed
        <3>6. i \in DOMAIN ids
            BY <3>4 DEF IndexInv, IndexTypes
        <3> QED BY <2>2, <3>5, <3>6 DEF Index!Has
    <2> QED BY <2>3, <2>4
<1>2. ASSUME NEW x \in 1..LastId, Index!DeleteAuthoritativePlayer(x) PROVE FALSE
    BY <1>2 DEF Index!DeleteAuthoritativePlayer, Index!Restrict
<1>3. ASSUME NEW x \in 1..LastId, NEW i \in Index!Steerings, Index!SetAuthoritativePlayerInput(x, i)
      PROVE  FALSE
    BY <1>3 DEF Index!SetAuthoritativePlayerInput
<1>4. ASSUME NEW batch \in Index!BoundedSeq(0..LastId, MaxAppended),
             Index!AppendAuthoritativeBoids(batch)
      PROVE  FALSE
    BY <1>4 DEF Index!AppendAuthoritativeBoids
<1> QED BY <1>1, <1>2, <1>3, <1>4 DEF Index!Next

\* The index, the rows and the extraction follow the live entities through every order of
\* appends, spawns and deletes, of any number of entities, and a player's identifier is new
\* unless boids came after the identifiers were spent (IndexConsistent).
THEOREM IndexFollows ==
    ASSUME Index!IndexAssumption
    PROVE  Index!Spec => IndexConsistent
<1> DEFINE NewPlayers == ~revived => \A h \in DOMAIN entities' \ DOMAIN entities :
                            entities'[h].kind = "player" => entities'[h].id \notin issued
<1>1. Index!Init => IndexInv
    BY IndexInit
<1>2. IndexInv /\ [Index!Next]_(Index!vars) => IndexInv'
    <2> SUFFICES ASSUME IndexInv, [Index!Next]_(Index!vars) PROVE IndexInv'
        OBVIOUS
    <2>1. CASE Index!SpawnAuthoritativePlayer
        BY <2>1, SpawnStep
    <2>2. ASSUME NEW x \in 1..LastId, Index!DeleteAuthoritativePlayer(x) PROVE IndexInv'
        BY <2>2, DeleteStep
    <2>3. ASSUME NEW x \in 1..LastId, NEW i \in Index!Steerings,
                 Index!SetAuthoritativePlayerInput(x, i)
          PROVE  IndexInv'
        BY <2>3, InputStep
    <2>4. ASSUME NEW batch \in Index!BoundedSeq(0..LastId, MaxAppended),
                 Index!AppendAuthoritativeBoids(batch)
          PROVE  IndexInv'
        BY <2>4, AppendStep
    <2>5. CASE UNCHANGED Index!vars
        BY <2>5 DEF Index!vars, Index!indexVars, IndexInv, IndexTypes, EntitiesListed, Boids,
                    BoidsInRows, RowsAscend, StoredOnce, IssuedBehind
    <2> QED BY <2>1, <2>2, <2>3, <2>4, <2>5 DEF Index!Next
<1>3. IndexInv => Index!TypeOK /\ Index!IndexMatchesWorld /\ Index!CaptureAccepts
                  /\ Index!ExtractionExact
    BY IndexTypesHold, IndexMatches, CaptureSucceeds, ExtractionSucceeds
<1>4. IndexInv /\ [Index!Next]_(Index!vars) => [NewPlayers]_(Index!vars)
    BY NewPlayerIsNew
<1> QED BY <1>1, <1>2, <1>3, <1>4, PTL
        DEF IndexConsistent, Index!Spec, Index!IndexConsistent, Index!SpawnIssuesNewIds
-----------------------------------------------------------------------------
(* Remainders. *)

\* The remainder is what is left of whole divisors.
LEMMA Remainder ==
    ASSUME NEW x \in Nat, NEW n \in Nat \ {0}, NEW q \in Int, NEW r \in 0..(n - 1), x = q * n + r
    PROVE  x % n = r
OBVIOUS

\* A number is its whole divisors and the remainder.
LEMMA Division ==
    ASSUME NEW x \in Nat, NEW n \in Nat \ {0}
    PROVE  /\ (x % n) \in 0..(n - 1) /\ (x \div n) \in Nat
           /\ x = (x \div n) * n + (x % n)
OBVIOUS

\* So many whole divisors as fit.
LEMMA DivisorsFit ==
    ASSUME NEW x \in Nat, NEW n \in Nat \ {0}, NEW q \in Nat, q * n <= x
    PROVE  q <= x \div n
OBVIOUS

\* The remainder of the next number is the next one, or 0.
LEMMA NextRemainder ==
    ASSUME NEW x \in Nat, NEW n \in Nat \ {0}
    PROVE  (x + 1) % n = IF x % n = n - 1 THEN 0 ELSE (x % n) + 1
<1>1. PICK q \in Nat, r \in 0..(n - 1) : x = q * n + r /\ x % n = r
    BY Division
<1>2. CASE r = n - 1
    <2>1. x + 1 = (q + 1) * n + 0
        BY <1>1, <1>2
    <2> QED BY <1>1, <1>2, <2>1, Remainder
<1>3. CASE r # n - 1
    <2>1. x + 1 = q * n + (r + 1) /\ r + 1 \in 0..(n - 1)
        BY <1>1, <1>3
    <2>2. (x + 1) % n = r + 1
        BY <1>1, <2>1, Remainder
    <2> QED BY <1>1, <1>3, <2>2
<1> QED BY <1>2, <1>3

\* The next tick modulo a cycle, and where it lies in an interval.
GoesRound(cycle, n, t) ==
    /\ ((t + 1) % cycle) \in 0..(cycle - 1)
    /\ ((t + 1) % cycle) % n = IF t % n = n - 1 THEN 0 ELSE (t % n) + 1

\* Ticks kept modulo a multiple of an interval go through the interval.
LEMMA TicksGoRound ==
    ASSUME NEW cycle \in Nat \ {0}, NEW n \in Nat \ {0}, cycle % n = 0, NEW t \in 0..(cycle - 1)
    PROVE  GoesRound(cycle, n, t)
<1>1. (t + 1) % n = IF t % n = n - 1 THEN 0 ELSE (t % n) + 1
    <2>1. t \in Nat
        OBVIOUS
    <2> QED BY ONLY <2>1, n \in Nat \ {0}, NextRemainder
<1>2. CASE t + 1 = cycle
    <2>1. t + 1 = 1 * cycle + 0
        BY <1>2
    <2>2. (t + 1) % cycle = 0
        BY <2>1, Remainder
    <2>3. 0 % n = 0
        BY Remainder
    <2> QED BY <1>1, <1>2, <2>2, <2>3 DEF GoesRound
<1>3. CASE t + 1 # cycle
    <2>1. t + 1 = 0 * cycle + (t + 1) /\ t + 1 \in 0..(cycle - 1)
        BY <1>3
    <2>2. (t + 1) % cycle = t + 1
        BY <2>1, Remainder
    <2> QED BY <1>1, <2>1, <2>2 DEF GoesRound
<1> QED BY <1>2, <1>3

-----------------------------------------------------------------------------
(* The places of the scan. *)

\* The schedule counts as this module does.
LEMMA ScheduleCounts ==
    ASSUME NEW S
    PROVE  /\ Schedule!Cardinality(S) = Cardinality(S)
           /\ Schedule!IsFiniteSet(S) <=> IsFiniteSet(S)
BY DEF Schedule!Cardinality, Cardinality, Schedule!IsFiniteSet, IsFiniteSet

\* The index of a record in its population, and its place behind a cursor.
Rank(P, x) == Cardinality({other \in P : other < x})
Around(P, x, cursor) ==
    IF Rank(P, x) >= cursor THEN Rank(P, x) - cursor ELSE Rank(P, x) + Cardinality(P) - cursor

\* Indices of different records differ, and each is less than the population.
LEMMA RanksDiffer ==
    ASSUME NEW P \in SUBSET Nat, IsFiniteSet(P)
    PROVE  /\ Cardinality(P) \in Nat
           /\ \A x \in P : Rank(P, x) \in 0..(Cardinality(P) - 1)
           /\ \A x, y \in P : Rank(P, x) = Rank(P, y) => x = y
<1> DEFINE less(x) == {other \in P : other < x}
<1>1. \A x : less(x) \in SUBSET P
    OBVIOUS
<1>2. Cardinality(P) \in Nat
    BY FS_CardinalityType
<1>3. ASSUME NEW x \in P PROVE IsFiniteSet(less(x)) /\ Rank(P, x) \in Nat
    <2>1. IsFiniteSet(less(x))
        BY <1>1, FS_Subset
    <2> HIDE DEF less
    <2>2. Cardinality(less(x)) \in Nat
        BY <2>1, FS_CardinalityType
    <2> QED BY <2>1, <2>2 DEF Rank, less
<1>4. ASSUME NEW x \in P PROVE Rank(P, x) < Cardinality(P)
    <2>1. less(x) # P /\ less(x) \in SUBSET P
        OBVIOUS
    <2> HIDE DEF less
    <2>2. Cardinality(less(x)) <= Cardinality(P) /\ Cardinality(P) # Cardinality(less(x))
        BY <2>1, FS_Subset
    <2>3. Rank(P, x) = Cardinality(less(x))
        BY DEF Rank, less
    <2> QED BY <1>2, <1>3, <2>2, <2>3
<1>5. ASSUME NEW x \in P, NEW y \in P, x < y PROVE Rank(P, x) < Rank(P, y)
    <2>1. less(x) \in SUBSET less(y) /\ less(x) # less(y)
        <3>1. x \in less(y) /\ x \notin less(x)
            BY <1>5
        <3>2. \A other \in less(x) : other \in less(y)
            BY <1>5
        <3> QED BY <3>1, <3>2
    <2>2. IsFiniteSet(less(y)) /\ Rank(P, x) \in Nat /\ Rank(P, y) \in Nat
        BY <1>3
    <2> HIDE DEF less
    <2>3. /\ Cardinality(less(x)) <= Cardinality(less(y))
          /\ Cardinality(less(y)) # Cardinality(less(x))
        BY <2>1, <2>2, FS_Subset
    <2>4. Rank(P, x) = Cardinality(less(x)) /\ Rank(P, y) = Cardinality(less(y))
        BY DEF Rank, less
    <2> QED BY <2>2, <2>3, <2>4
<1>6. ASSUME NEW x \in P, NEW y \in P, Rank(P, x) = Rank(P, y) PROVE x = y
    <2>1. x \in Nat /\ y \in Nat /\ Rank(P, x) \in Nat
        BY <1>3
    <2>2. ~(x < y) /\ ~(y < x)
        BY <1>5, <1>6, <2>1
    <2> QED BY <2>1, <2>2
<1>7. \A x \in P : Rank(P, x) \in 0..(Cardinality(P) - 1)
    <2> SUFFICES ASSUME NEW x \in P PROVE Rank(P, x) \in 0..(Cardinality(P) - 1)
        OBVIOUS
    <2>1. Rank(P, x) \in Nat /\ Rank(P, x) < Cardinality(P)
        BY <1>3, <1>4
    <2> QED BY <1>2, <2>1
<1>8. \A x, y \in P : Rank(P, x) = Rank(P, y) => x = y
    BY <1>6
<1> QED BY <1>2, <1>7, <1>8

\* Places of different records differ; behind the last one scanned, a record that lies
\* further has its place reduced by all that were passed.
LEMMA PlacesRotate ==
    ASSUME NEW P \in SUBSET Nat, IsFiniteSet(P), NEW cursor \in 0..(Cardinality(P) - 1)
    PROVE  /\ \A x \in P : Around(P, x, cursor) \in 0..(Cardinality(P) - 1)
           /\ \A x, y \in P : Around(P, x, cursor) = Around(P, y, cursor) => x = y
           /\ \A last \in P :
                LET behind == (Rank(P, last) + 1) % Cardinality(P)
                IN  /\ behind \in 0..(Cardinality(P) - 1)
                    /\ \A x \in P : Around(P, last, cursor) < Around(P, x, cursor) =>
                          Around(P, x, behind) = Around(P, x, cursor) - Around(P, last, cursor) - 1
<1> DEFINE N == Cardinality(P)
<1>1. /\ N \in Nat /\ \A x \in P : Rank(P, x) \in 0..(N - 1)
      /\ \A x, y \in P : Rank(P, x) = Rank(P, y) => x = y
    BY RanksDiffer
<1> HIDE DEF N
<1>2. N \in Nat \ {0} /\ cursor \in 0..(N - 1)
    BY <1>1 DEF N
<1>3. \A x \in P : Around(P, x, cursor) \in 0..(N - 1)
    BY <1>1, <1>2 DEF Around, N
<1>4. ASSUME NEW x \in P, NEW y \in P, Around(P, x, cursor) = Around(P, y, cursor) PROVE x = y
    <2>1. Rank(P, x) \in 0..(N - 1) /\ Rank(P, y) \in 0..(N - 1)
        BY <1>1
    <2>2. PICK a \in 0..(N - 1), b \in 0..(N - 1) : a = Rank(P, x) /\ b = Rank(P, y)
        BY <2>1
    <2>3. (IF a >= cursor THEN a - cursor ELSE a + N - cursor)
            = (IF b >= cursor THEN b - cursor ELSE b + N - cursor)
        BY <1>4, <2>2 DEF Around, N
    <2>4. a = b
        BY <1>2, <2>3
    <2> QED BY <1>1, <2>2, <2>4
<1>5. ASSUME NEW last \in P
      PROVE  LET behind == (Rank(P, last) + 1) % N
             IN  /\ behind \in 0..(N - 1)
                 /\ \A x \in P : Around(P, last, cursor) < Around(P, x, cursor) =>
                       Around(P, x, behind) = Around(P, x, cursor) - Around(P, last, cursor) - 1
    <2> DEFINE behind == (Rank(P, last) + 1) % N
    <2>1. Rank(P, last) \in 0..(N - 1) /\ Rank(P, last) + 1 \in Nat
        BY <1>1
    <2>2. behind = IF Rank(P, last) = N - 1 THEN 0 ELSE Rank(P, last) + 1
        <3>1. CASE Rank(P, last) = N - 1
            <4>1. Rank(P, last) + 1 = 1 * N + 0 /\ 0 \in 0..(N - 1)
                BY <1>2, <3>1
            <4>2. behind = 0
                BY <1>2, <2>1, <4>1, Remainder
            <4> QED BY <3>1, <4>2
        <3>2. CASE Rank(P, last) # N - 1
            <4>1. Rank(P, last) + 1 = 0 * N + (Rank(P, last) + 1) /\ Rank(P, last) + 1 \in 0..(N - 1)
                BY <1>2, <2>1, <3>2
            <4>2. behind = Rank(P, last) + 1
                BY <1>2, <2>1, <4>1, Remainder
            <4> QED BY <3>2, <4>2
        <3> QED BY <3>1, <3>2
    <2> HIDE DEF behind
    <2>3. ASSUME NEW x \in P, Around(P, last, cursor) < Around(P, x, cursor)
          PROVE  Around(P, x, behind) = Around(P, x, cursor) - Around(P, last, cursor) - 1
        <3>1. Rank(P, x) \in 0..(N - 1)
            BY <1>1
        <3> QED BY <1>2, <2>1, <2>2, <2>3, <3>1 DEF Around, N
    <2>4. behind \in 0..(N - 1)
        BY <1>2, <2>1, <2>2
    <2> QED BY <2>3, <2>4 DEF behind
<1> QED BY <1>3, <1>4, <1>5 DEF N

\* Place is the place behind the cursor.
LEMMA PlaceIsAround ==
    ASSUME NEW P \in SUBSET Nat, IsFiniteSet(P), incremental_cursor \in 0..(Cardinality(P) - 1),
           NEW schedule, DOMAIN schedule = P, NEW x \in P
    PROVE  /\ Schedule!IndexOf(schedule, x) = Rank(P, x)
           /\ Schedule!Place(schedule, x) = Around(P, x, incremental_cursor)
<1> DEFINE N == Cardinality(P)
           r == Rank(P, x)
<1>1. N \in Nat /\ r \in 0..(N - 1)
    BY RanksDiffer
<1>2. Schedule!IndexOf(schedule, x) = r
    BY ScheduleCounts DEF Schedule!IndexOf, Rank
<1>3. Schedule!Cardinality(DOMAIN schedule) = N
    BY ScheduleCounts
<1> HIDE DEF N, r
<1>4. N \in Nat \ {0} /\ incremental_cursor \in 0..(N - 1)
    BY <1>1 DEF N
<1>5. incremental_cursor % N = incremental_cursor
    <2>1. incremental_cursor = 0 * N + incremental_cursor /\ incremental_cursor \in Nat
        BY <1>4
    <2> QED BY <1>4, <2>1, Remainder
<1>6. Schedule!Place(schedule, x) = (r + N - incremental_cursor) % N
    BY <1>2, <1>3, <1>5 DEF Schedule!Place
<1>7. r + N - incremental_cursor \in Nat
    BY <1>1, <1>4
<1>8. CASE r >= incremental_cursor
    <2>1. r + N - incremental_cursor = 1 * N + (r - incremental_cursor) /\ r - incremental_cursor \in 0..(N - 1)
        BY <1>1, <1>4, <1>8
    <2>2. (r + N - incremental_cursor) % N = r - incremental_cursor
        BY <1>4, <1>7, <2>1, Remainder
    <2> QED BY <1>2, <1>6, <1>8, <2>2 DEF Around, r, N
<1>9. CASE ~(r >= incremental_cursor)
    <2>1. /\ r + N - incremental_cursor = 0 * N + (r + N - incremental_cursor)
          /\ r + N - incremental_cursor \in 0..(N - 1)
        BY <1>1, <1>4, <1>9
    <2>2. (r + N - incremental_cursor) % N = r + N - incremental_cursor
        BY <1>4, <1>7, <2>1, Remainder
    <2> QED BY <1>2, <1>6, <1>9, <2>2 DEF Around, r, N
<1> QED BY <1>8, <1>9

\* A pending record that is left out: at least as many as an emission takes lie before it,
\* and the cursor moves past them.
LEMMA LeftOutMovesUp ==
    ASSUME Incremental, MaxEntities \in Nat \ {0},
           NEW P \in SUBSET Nat, IsFiniteSet(P), incremental_cursor \in 0..(Cardinality(P) - 1),
           NEW schedule, DOMAIN schedule = P,
           NEW x \in P, x # Self, schedule[x].pending_due, x \notin Schedule!Ordinary(schedule)
    PROVE  /\ Schedule!CursorAfter(schedule) \in 0..(Cardinality(P) - 1)
           /\ Around(P, x, Schedule!CursorAfter(schedule)) + MaxEntities
                <= Around(P, x, incremental_cursor)
<1> DEFINE N == Cardinality(P)
           place(y) == Around(P, y, incremental_cursor)
           pending == {y \in P \ {Self} : schedule[y].pending_due}
           nearer(y) == {other \in pending : place(other) < place(y)}
           ordinary == Schedule!Ordinary(schedule)
<1>1. /\ N \in Nat /\ \A y \in P : place(y) \in 0..(N - 1)
      /\ \A y, z \in P : place(y) = place(z) => y = z
    BY RanksDiffer, PlacesRotate
<1>2. \A y \in P : Schedule!Place(schedule, y) = place(y) /\ Schedule!IndexOf(schedule, y) = Rank(P, y)
    BY PlaceIsAround
<1> HIDE DEF place, N
<1>3. pending \in SUBSET P /\ x \in pending
    OBVIOUS
<1>4. ordinary = {y \in pending : Cardinality(nearer(y)) < MaxEntities}
    <2>1. \A y \in pending : {other \in pending :
                Schedule!Place(schedule, other) < Schedule!Place(schedule, y)} = nearer(y)
        BY <1>2
    <2>2. ordinary = {y \in pending : Schedule!Cardinality({other \in pending :
                Schedule!Place(schedule, other) < Schedule!Place(schedule, y)}) < MaxEntities}
        BY DEF Schedule!Ordinary
    <2> HIDE DEF pending, nearer, ordinary
    <2> QED BY <2>1, <2>2, ScheduleCounts
<1>5. \A y \in pending : nearer(y) \in SUBSET pending /\ IsFiniteSet(nearer(y))
                         /\ Cardinality(nearer(y)) \in Nat
    <2> SUFFICES ASSUME NEW y \in pending
                 PROVE  nearer(y) \in SUBSET pending /\ IsFiniteSet(nearer(y))
                        /\ Cardinality(nearer(y)) \in Nat
        OBVIOUS
    <2>1. nearer(y) \in SUBSET pending /\ nearer(y) \in SUBSET P
        OBVIOUS
    <2> HIDE DEF nearer
    <2>2. IsFiniteSet(nearer(y))
        BY <2>1, FS_Subset
    <2> QED BY <2>1, <2>2, FS_CardinalityType
<1> DEFINE isNearer(other, y) == other \in pending /\ place(other) < place(y)
<1>6. \A y, other : other \in nearer(y) <=> isNearer(other, y)
    OBVIOUS
<1> HIDE DEF pending, nearer, ordinary

\* The first record that is left out.
<1>7. PICK f \in pending : f \notin ordinary /\ \A y \in pending \ ordinary : place(f) <= place(y)
    <2> DEFINE places == {place(y) : y \in pending \ ordinary}
    <2>1. places \in SUBSET Nat /\ places # {}
        BY <1>1, <1>3 DEF ordinary
    <2>2. PICK least \in places : \A other \in places : least <= other
        BY <2>1, LeastNumber
    <2> QED BY <2>2
<1>8. Cardinality(nearer(f)) >= MaxEntities
    BY <1>4, <1>5, <1>7
<1>9. \A y \in nearer(f) : y \in ordinary
    <2> SUFFICES ASSUME NEW y \in nearer(f), y \notin ordinary PROVE FALSE
        OBVIOUS
    <2>1. y \in pending /\ place(y) < place(f) /\ place(f) <= place(y)
        BY <1>6, <1>7
    <2> QED BY <1>1, <1>3, <1>7, <2>1
<1>10. nearer(f) # {}
    <2>1. Cardinality({}) = 0
        BY FS_EmptySet
    <2> QED BY <1>8, <2>1
<1>11. ordinary # {} /\ ordinary \in SUBSET pending
    BY <1>4, <1>9, <1>10
\* The last record that is selected.
<1> DEFINE last == CHOOSE y \in ordinary : \A other \in ordinary :
                      Schedule!Place(schedule, other) <= Schedule!Place(schedule, y)
<1>12. last \in ordinary /\ \A other \in ordinary : place(other) <= place(last)
    <2> DEFINE spare == {N - 1 - place(y) : y \in ordinary}
    <2>1. spare \in SUBSET Nat /\ spare # {}
        <3>1. \A y \in ordinary : place(y) \in 0..(N - 1)
            BY <1>1, <1>3, <1>11
        <3>2. \A y \in ordinary : N - 1 - place(y) \in Nat
            BY <1>1, <3>1
        <3> QED BY <1>11, <3>2
    <2>2. PICK least \in spare : \A other \in spare : least <= other
        BY <2>1, LeastNumber
    <2>3. PICK y \in ordinary : least = N - 1 - place(y)
        BY <2>2
    <2>4. ASSUME NEW other \in ordinary PROVE place(other) <= place(y)
        <3>1. N - 1 - place(y) <= N - 1 - place(other)
            BY <2>2, <2>3
        <3>2. place(y) \in 0..(N - 1) /\ place(other) \in 0..(N - 1)
            BY <1>1, <1>3, <1>11
        <3> QED BY <1>1, <3>1, <3>2
    <2>5. \E z \in ordinary : \A other \in ordinary :
                Schedule!Place(schedule, other) <= Schedule!Place(schedule, z)
        BY <1>2, <1>3, <1>11, <2>4
    <2>6. last \in ordinary /\ \A other \in ordinary :
                Schedule!Place(schedule, other) <= Schedule!Place(schedule, last)
        BY <2>5
    <2> QED BY <1>2, <1>3, <1>11, <2>6
<1>13. Schedule!CursorAfter(schedule) = (Rank(P, last) + 1) % N
    <2>1. Schedule!CursorAfter(schedule)
            = (Schedule!IndexOf(schedule, last) + 1) % Schedule!Cardinality(DOMAIN schedule)
        BY <1>11 DEF Schedule!CursorAfter, ordinary
    <2>2. last \in P
        BY <1>3, <1>11, <1>12
    <2> HIDE DEF last
    <2> QED BY <1>2, <2>1, <2>2, ScheduleCounts DEF N
<1> HIDE DEF last
<1>14. last \in P /\ last \in pending /\ place(last) \in 0..(N - 1) /\ place(f) \in 0..(N - 1)
       /\ place(x) \in 0..(N - 1)
    BY <1>1, <1>3, <1>7, <1>11, <1>12
<1>15. MaxEntities <= place(last) + 1
    <2> DEFINE sent == [y \in nearer(f) |-> place(y)]
    <2>1. \A y \in nearer(f) : y \in P /\ place(y) \in 0..place(last)
        <3> SUFFICES ASSUME NEW y \in nearer(f) PROVE y \in P /\ place(y) \in 0..place(last)
            OBVIOUS
        <3>1. y \in P /\ y \in ordinary
            BY <1>3, <1>9, <1>11
        <3> QED BY <1>1, <1>12, <1>14, <3>1
    <2>2. sent \in Injection(nearer(f), 0..place(last))
        BY <1>1, <2>1 DEF Injection, IsInjective
    <2> HIDE DEF sent
    <2>3. IsFiniteSet(0..place(last)) /\ Cardinality(0..place(last)) = place(last) + 1
        <3>1. 0 \in Int /\ place(last) \in Int
            BY <1>14
        <3>2. /\ IsFiniteSet(0..place(last))
              /\ Cardinality(0..place(last)) = IF 0 > place(last) THEN 0 ELSE place(last) - 0 + 1
            BY ONLY <3>1, FS_Interval
        <3> QED BY <1>14, <3>2
    <2>4. Cardinality(nearer(f)) <= Cardinality(0..place(last))
        BY <2>2, <2>3, FS_Injection
    <2> QED BY <1>5, <1>7, <1>8, <1>14, <2>3, <2>4
<1>16. place(last) < place(f)
    <2> SUFFICES ASSUME place(f) <= place(last) PROVE FALSE
        BY <1>14
    <2>1. nearer(f) \in SUBSET nearer(last)
        <3> SUFFICES ASSUME NEW y \in nearer(f) PROVE y \in nearer(last)
            OBVIOUS
        <3>1. y \in pending /\ place(y) < place(f)
            BY <1>6
        <3>2. place(y) \in 0..(N - 1)
            BY <1>1, <1>3, <3>1
        <3>3. place(y) < place(last)
            BY <1>1, <1>14, <3>1, <3>2
        <3> QED BY <1>6, <3>1, <3>3
    <2>2. Cardinality(nearer(f)) <= Cardinality(nearer(last))
        BY <1>5, <1>14, <2>1, FS_Subset
    <2>3. Cardinality(nearer(last)) < MaxEntities
        BY <1>4, <1>12
    <2> QED BY <1>5, <1>7, <1>8, <1>14, <2>2, <2>3
<1>17. place(f) <= place(x)
    BY <1>3, <1>7 DEF ordinary
<1>18. LET behind == (Rank(P, last) + 1) % N
       IN  /\ behind \in 0..(N - 1)
           /\ place(last) < place(x) => Around(P, x, behind) = place(x) - place(last) - 1
    <2>1. LET behind == (Rank(P, last) + 1) % Cardinality(P)
          IN  /\ behind \in 0..(Cardinality(P) - 1)
              /\ \A y \in P : Around(P, last, incremental_cursor) < Around(P, y, incremental_cursor) =>
                    Around(P, y, behind)
                      = Around(P, y, incremental_cursor) - Around(P, last, incremental_cursor) - 1
        BY <1>14, PlacesRotate
    <2> QED BY <2>1 DEF N, place
<1>19. place(last) < place(x)
    BY <1>1, <1>14, <1>16, <1>17
<1>20. Around(P, x, Schedule!CursorAfter(schedule)) = place(x) - place(last) - 1
    BY <1>13, <1>18, <1>19
<1>21. Schedule!CursorAfter(schedule) \in 0..(N - 1)
    BY <1>13, <1>18
<1>22. place(x) - place(last) - 1 + MaxEntities <= place(x)
    BY <1>1, <1>14, <1>15
<1> QED BY <1>20, <1>21, <1>22 DEF place, N

-----------------------------------------------------------------------------
(* The invariant of the schedule, of a population that stays. *)

Entries == [next_due : 0..FarInterval, pending_due : BOOLEAN, band : Bands]

\* The schedule is of the whole population, once it was emitted.
ScheduleTypes(P) ==
    /\ tick \in 0..(Cycle - 1)
    /\ incremental_cursor \in Nat /\ (P # {} => incremental_cursor \in 0..(Cardinality(P) - 1))
    /\ level_of_detail_seeded \in BOOLEAN
    /\ \/ /\ level_of_detail_schedule = << >> /\ age = << >> /\ promised = << >> /\ waited = << >>
          /\ ~level_of_detail_seeded
       \/ /\ level_of_detail_schedule \in [P -> Entries] /\ age \in [P -> Nat]
          /\ promised \in [P -> Nat] /\ waited \in [P -> Nat]
          /\ level_of_detail_seeded

\* A record that waits has come nearer to the cursor by a whole emission every time.
WaitingInv(P) ==
    \A x \in DOMAIN level_of_detail_schedule :
        IF level_of_detail_schedule[x].pending_due
        THEN /\ Incremental /\ x # Self
             /\ waited[x] \in Nat \ {0}
             /\ waited[x] * MaxEntities + Around(P, x, incremental_cursor) <= Cardinality(P) - 1
        ELSE waited[x] = 0

\* Ticks since the last tick that emits.
SinceEmission == IF tick % SendInterval = 0 THEN SendInterval ELSE tick % SendInterval

\* A record is no older than its due tick allows, and then than its emissions.
AgeInv ==
    \A x \in DOMAIN level_of_detail_schedule :
        LET entry == level_of_detail_schedule[x] IN
        IF entry.pending_due
        THEN age[x] <= promised[x] + waited[x] * SendInterval + SinceEmission - 1
        ELSE IF entry.next_due = 0 THEN age[x] <= promised[x] + SinceEmission - 1
        ELSE age[x] + entry.next_due <= promised[x]

\* The inductive invariant of the schedule.
ScheduleInv(P) == ScheduleTypes(P) /\ WaitingInv(P) /\ (~MayFail => AgeInv)

\* The constants, one by one.
LEMMA ScheduleConstants ==
    ASSUME Schedule!ScheduleAssumption, NEW P, Populations = {P}
    PROVE  /\ P \in SUBSET (Nat \ {0}) /\ P \in SUBSET Nat /\ IsFiniteSet(P) /\ Cardinality(P) \in Nat
           /\ P # {} => Cardinality(P) \in Nat \ {0}
           /\ Schedule!Ids = P
           /\ MediumInterval \in Nat \ {0} /\ FarInterval \in Nat \ {0} /\ SendInterval \in Nat \ {0}
           /\ MaxEntities \in Nat \ {0} /\ Cycle \in Nat \ {0}
           /\ 2 <= MediumInterval /\ MediumInterval < FarInterval
           /\ Cycle % SendInterval = 0 /\ Incremental \in BOOLEAN /\ MayFail \in BOOLEAN
           /\ Bands \subseteq 1..3 /\ MixedId \in [P -> Nat]
<1>1. Schedule!Ids = P
    BY DEF Schedule!Ids
<1>2. P \in SUBSET (Nat \ {0}) /\ IsFiniteSet(P)
    BY ScheduleCounts DEF Schedule!ScheduleAssumption
<1>3. Cardinality(P) \in Nat
    BY <1>2, FS_CardinalityType
<1>4. ASSUME P # {} PROVE Cardinality(P) \in Nat \ {0}
    BY <1>2, <1>3, <1>4, FS_EmptySet
<1>5. /\ MediumInterval \in Nat \ {0} /\ FarInterval \in Nat \ {0} /\ SendInterval \in Nat \ {0}
      /\ MaxEntities \in Nat \ {0} /\ Cycle \in Nat \ {0}
    BY DEF Schedule!ScheduleAssumption
<1>6. /\ 2 <= MediumInterval /\ MediumInterval < FarInterval
      /\ Cycle % SendInterval = 0 /\ Bands \subseteq 1..3
    BY DEF Schedule!ScheduleAssumption
<1>7. Incremental \in BOOLEAN /\ MayFail \in BOOLEAN
    BY DEF Schedule!ScheduleAssumption
<1>8. MixedId \in [P -> Nat]
    BY <1>1 DEF Schedule!ScheduleAssumption
<1> QED BY <1>1, <1>2, <1>3, <1>4, <1>5, <1>6, <1>7, <1>8

\* An interval is at most the farthest, and the next due tick within it.
LEMMA DueWithinInterval ==
    ASSUME Schedule!ScheduleAssumption, NEW P, Populations = {P}, tick \in Nat,
           NEW band \in Bands, NEW x \in P
    PROVE  /\ Schedule!Interval(band) \in 1..FarInterval
           /\ Schedule!NextDue(x, Schedule!Interval(band)) \in 1..Schedule!Interval(band)
<1>1. /\ MediumInterval \in Nat \ {0} /\ FarInterval \in Nat \ {0} /\ MediumInterval < FarInterval
      /\ band \in 1..3 /\ MixedId[x] \in Nat
    BY ScheduleConstants
<1>2. Schedule!Interval(band) \in 1..FarInterval
    BY <1>1 DEF Schedule!Interval, Schedule!Near, Schedule!Medium, Schedule!Far
<1>3. PICK n \in Nat \ {0} : n = Schedule!Interval(band)
    BY <1>1, <1>2
<1> DEFINE delta == ((MixedId[x] % n) + n - (tick % n)) % n
<1>4. delta \in 0..(n - 1)
    <2>1. (MixedId[x] % n) \in 0..(n - 1) /\ (tick % n) \in 0..(n - 1)
        BY <1>1, <1>3, Division
    <2>2. PICK d \in Nat : d = (MixedId[x] % n) + n - (tick % n)
        BY <1>3, <2>1
    <2>3. d % n \in 0..(n - 1)
        BY <1>3, <2>2, Division
    <2> QED BY <2>2, <2>3
<1>5. Schedule!NextDue(x, n) = IF delta = 0 THEN n ELSE delta
    BY DEF Schedule!NextDue
<1> HIDE DEF delta
<1> QED BY <1>2, <1>3, <1>4, <1>5

\* The smaller of two numbers.
LEMMA SmallerOfTwo ==
    ASSUME NEW a \in Nat, NEW b \in Nat
    PROVE  Schedule!Min({a, b}) = IF a <= b THEN a ELSE b
BY DEF Schedule!Min

\* One tick later.
LEMMA TickPasses ==
    ASSUME Schedule!ScheduleAssumption, NEW P, Populations = {P}, tick \in 0..(Cycle - 1),
           Schedule!NextTick
    PROVE  /\ tick' \in 0..(Cycle - 1)
           /\ SinceEmission \in 1..SendInterval /\ SinceEmission' \in 1..SendInterval
           /\ tick % SendInterval = 0 => SinceEmission = SendInterval /\ SinceEmission' = 1
           /\ tick % SendInterval # 0 => SinceEmission' = SinceEmission + 1
<1>1. SendInterval \in Nat \ {0} /\ Cycle \in Nat \ {0} /\ Cycle % SendInterval = 0
    BY ScheduleConstants
<1>2. tick' = (tick + 1) % Cycle
    BY DEF Schedule!NextTick
<1>3. /\ tick' \in 0..(Cycle - 1)
      /\ tick' % SendInterval = IF tick % SendInterval = SendInterval - 1 THEN 0
                                ELSE (tick % SendInterval) + 1
    <2>1. PICK c \in Nat \ {0}, n \in Nat \ {0}, t \in 0..(Cycle - 1) :
             c = Cycle /\ n = SendInterval /\ t = tick
        BY <1>1
    <2>2. t \in 0..(c - 1) /\ c % n = 0
        BY <1>1, <2>1
    <2>3. /\ ((t + 1) % c) \in 0..(c - 1)
          /\ ((t + 1) % c) % n = IF t % n = n - 1 THEN 0 ELSE (t % n) + 1
        <3>1. c \in Nat \ {0} /\ n \in Nat \ {0}
            OBVIOUS
        <3>2. GoesRound(c, n, t)
            BY ONLY <2>2, <3>1, TicksGoRound
        <3> QED BY <3>2 DEF GoesRound
    <2>4. tick' = (t + 1) % c
        BY <1>2, <2>1
    <2> QED BY <2>1, <2>3, <2>4
<1>4. tick \in Nat
    BY <1>1
<1>5. (tick % SendInterval) \in 0..(SendInterval - 1)
    BY <1>1, <1>4, Division
<1>6. PICK r \in 0..(SendInterval - 1) : r = tick % SendInterval
    BY <1>5
<1>7. SinceEmission = IF r = 0 THEN SendInterval ELSE r
    BY <1>6 DEF SinceEmission
<1>8. SinceEmission' = IF r = SendInterval - 1 THEN SendInterval ELSE r + 1
    <2>1. tick' % SendInterval = IF r = SendInterval - 1 THEN 0 ELSE r + 1
        BY <1>3, <1>6
    <2>2. SinceEmission' = IF tick' % SendInterval = 0 THEN SendInterval ELSE tick' % SendInterval
        BY DEF SinceEmission
    <2> QED BY <1>1, <1>6, <2>1, <2>2
<1> QED BY <1>1, <1>3, <1>6, <1>7, <1>8

-----------------------------------------------------------------------------
(* Each tick keeps it. *)

\* The histories are of the whole population, or there are none yet.
Histories(P) ==
    \/ age = << >> /\ promised = << >> /\ waited = << >>
    \/ age \in [P -> Nat] /\ promised \in [P -> Nat] /\ waited \in [P -> Nat]

\* Records are serviced or left as they are.
Services(P, schedule, serviced, selected) ==
    /\ \A x \in selected : /\ ~serviced[x].pending_due
                           /\ serviced[x].next_due \in 1..Schedule!Interval(schedule[x].band)
    /\ \A x \in P \ selected : serviced[x] = schedule[x]

\* The records of a committed emission, one tick later.
Committed(P, schedule, selected, cursor) ==
    /\ level_of_detail_schedule' \in [P -> Entries] /\ age' \in [P -> Nat]
    /\ promised' \in [P -> Nat] /\ waited' \in [P -> Nat]
    /\ level_of_detail_seeded' = TRUE /\ incremental_cursor' = cursor
    /\ \A x \in selected :
         /\ ~level_of_detail_schedule'[x].pending_due /\ waited'[x] = 0
         /\ age'[x] + level_of_detail_schedule'[x].next_due <= promised'[x]
    /\ \A x \in P \ selected :
         /\ level_of_detail_schedule'[x].pending_due = schedule[x].pending_due
         /\ level_of_detail_schedule'[x].next_due
              = IF schedule[x].next_due = 0 THEN 0 ELSE schedule[x].next_due - 1
         /\ x \in DOMAIN age =>
              /\ age'[x] <= age[x] + 1
              /\ promised'[x] = promised[x]
              /\ waited'[x] = IF ~schedule[x].pending_due THEN 0
                              ELSE IF waited[x] <= Cardinality(P) THEN waited[x] + 1
                              ELSE Cardinality(P) + 1

\* What a committed emission makes of the records.
LEMMA CommitByRecord ==
    ASSUME Schedule!ScheduleAssumption, NEW P, Populations = {P}, Histories(P),
           NEW schedule \in [P -> Entries], NEW serviced \in [P -> Entries],
           NEW selected \in SUBSET P, NEW cursor,
           Services(P, schedule, serviced, selected),
           Schedule!Commit(schedule, serviced, selected, cursor)
    PROVE  Committed(P, schedule, selected, cursor)
<1>15. \/ age = << >> /\ promised = << >> /\ waited = << >>
       \/ age \in [P -> Nat] /\ promised \in [P -> Nat] /\ waited \in [P -> Nat]
    BY DEF Histories
<1>0. /\ \A x \in selected : /\ ~serviced[x].pending_due
                              /\ serviced[x].next_due \in 1..Schedule!Interval(schedule[x].band)
      /\ \A x \in P \ selected : serviced[x] = schedule[x]
    BY DEF Services
<1>1. /\ Cardinality(P) \in Nat /\ Schedule!Ids = P /\ FarInterval \in Nat \ {0}
      /\ SendInterval \in Nat \ {0} /\ Bands \subseteq 1..3
    BY ScheduleConstants
<1> DEFINE largest == FarInterval + Cardinality(P) * SendInterval + 1
           aged == [x \in P |-> IF x \in selected \/ x \notin DOMAIN age THEN 0 ELSE age[x]]
<1>2. /\ level_of_detail_schedule' = Schedule!Elapsed(serviced)
      /\ incremental_cursor' = cursor /\ level_of_detail_seeded' = TRUE
      /\ age' = Schedule!Older(aged)
      /\ promised' = [x \in P |-> IF x \in selected \/ x \notin DOMAIN promised
                                  THEN Schedule!Interval(schedule[x].band) ELSE promised[x]]
      /\ waited' = [x \in P |-> IF ~serviced[x].pending_due THEN 0
                                ELSE IF x \in DOMAIN waited
                                THEN Schedule!Min({waited[x] + 1, Cardinality(P) + 1}) ELSE 1]
    BY <1>1, ScheduleCounts DEF Schedule!Commit
<1>3. largest \in Nat /\ largest >= 1
    BY <1>1
<1>4. age' = [x \in P |-> Schedule!Min({aged[x] + 1, largest})]
    BY <1>1, <1>2, ScheduleCounts DEF Schedule!Older
<1>5. \A x \in P : aged[x] \in Nat
    BY <1>15
<1> HIDE DEF largest
<1>6. \A x \in P : age'[x] = IF aged[x] + 1 <= largest THEN aged[x] + 1 ELSE largest
    <2> SUFFICES ASSUME NEW x \in P
                 PROVE  age'[x] = IF aged[x] + 1 <= largest THEN aged[x] + 1 ELSE largest
        OBVIOUS
    <2>1. aged[x] + 1 \in Nat
        BY <1>5
    <2> HIDE DEF aged
    <2>2. Schedule!Min({aged[x] + 1, largest}) = IF aged[x] + 1 <= largest THEN aged[x] + 1 ELSE largest
        BY <1>3, <2>1, SmallerOfTwo
    <2> QED BY <1>4, <2>2
<1>7. age' \in [P -> Nat]
    <2>1. \A x \in P : age'[x] \in Nat
        BY <1>3, <1>5, <1>6
    <2> HIDE DEF aged
    <2>2. age' = [x \in P |-> age'[x]]
        BY <1>4
    <2> QED BY <2>1, <2>2
<1>8. /\ level_of_detail_schedule' = [x \in P |-> level_of_detail_schedule'[x]]
      /\ \A x \in P : /\ level_of_detail_schedule'[x].pending_due = serviced[x].pending_due
                      /\ level_of_detail_schedule'[x].next_due
                           = IF serviced[x].next_due = 0 THEN 0 ELSE serviced[x].next_due - 1
                      /\ level_of_detail_schedule'[x] \in Entries
    <2>1. level_of_detail_schedule' = [x \in P |-> [serviced[x] EXCEPT !.next_due =
                                                        IF @ = 0 THEN 0 ELSE @ - 1]]
        BY <1>2 DEF Schedule!Elapsed
    <2>2. ASSUME NEW x \in P
          PROVE  LET entry == [serviced[x] EXCEPT !.next_due = IF @ = 0 THEN 0 ELSE @ - 1]
                 IN  /\ entry.pending_due = serviced[x].pending_due
                     /\ entry.next_due = IF serviced[x].next_due = 0 THEN 0
                                         ELSE serviced[x].next_due - 1
                     /\ entry \in Entries
        <3> DEFINE due == IF serviced[x].next_due = 0 THEN 0 ELSE serviced[x].next_due - 1
        <3>1. PICK e \in Entries : e = serviced[x]
            OBVIOUS
        <3>2. due \in 0..FarInterval
            <4>1. e.next_due \in 0..FarInterval
                BY DEF Entries
            <4>2. PICK d \in 0..FarInterval : d = serviced[x].next_due
                BY <3>1, <4>1
            <4>3. due = IF d = 0 THEN 0 ELSE d - 1
                BY <4>2
            <4> QED BY <1>1, <4>3
        <3> HIDE DEF due
        <3>3. [e EXCEPT !.next_due = due] \in Entries
            BY <3>2 DEF Entries
        <3>4. /\ [e EXCEPT !.next_due = due].pending_due = e.pending_due
              /\ [e EXCEPT !.next_due = due].next_due = due
            BY DEF Entries
        <3> QED BY <3>1, <3>3, <3>4 DEF due
    <2> QED BY <2>1, <2>2
<1>9. \A x \in P : Schedule!Interval(schedule[x].band) \in Nat \ {0}
    <2>1. \A x \in P : schedule[x].band \in 1..3
        BY <1>1 DEF Entries
    <2>2. MediumInterval \in Nat \ {0}
        BY ScheduleConstants
    <2> QED BY <1>1, <2>1, <2>2 DEF Schedule!Interval, Schedule!Near, Schedule!Medium, Schedule!Far
<1>10. promised' \in [P -> Nat]
    BY <1>2, <1>9, <1>15
<1>11. ASSUME NEW x \in P, x \in DOMAIN waited
       PROVE  /\ waited[x] \in Nat
              /\ Schedule!Min({waited[x] + 1, Cardinality(P) + 1})
                   = IF waited[x] <= Cardinality(P) THEN waited[x] + 1 ELSE Cardinality(P) + 1
    <2>1. waited[x] \in Nat
        BY <1>15, <1>11
    <2>2. PICK a \in Nat, b \in Nat : a = waited[x] + 1 /\ b = Cardinality(P) + 1
        BY <1>1, <2>1
    <2>3. Schedule!Min({a, b}) = IF a <= b THEN a ELSE b
        BY SmallerOfTwo
    <2>4. a <= b <=> waited[x] <= Cardinality(P)
        BY <1>1, <2>1, <2>2
    <2> QED BY <2>1, <2>2, <2>3, <2>4
<1>12. waited' \in [P -> Nat]
    <2>1. ASSUME NEW x \in P PROVE waited'[x] \in Nat
        <3>1. waited'[x] = 0 \/ waited'[x] = 1 \/ (x \in DOMAIN waited /\
                waited'[x] = Schedule!Min({waited[x] + 1, Cardinality(P) + 1}))
            BY <1>2
        <3>2. ASSUME x \in DOMAIN waited
              PROVE  Schedule!Min({waited[x] + 1, Cardinality(P) + 1}) \in Nat
            <4> DEFINE longer == IF waited[x] <= Cardinality(P) THEN waited[x] + 1 ELSE Cardinality(P) + 1
            <4>1. waited[x] \in Nat /\ Schedule!Min({waited[x] + 1, Cardinality(P) + 1}) = longer
                BY <1>11, <3>2
            <4>2. longer \in Nat
                BY <1>1, <4>1
            <4> HIDE DEF longer
            <4> QED BY <4>1, <4>2
        <3> QED BY <3>1, <3>2
    <2>2. waited' = [x \in P |-> waited'[x]]
        BY <1>2
    <2> QED BY <2>1, <2>2
<1>13. ASSUME NEW x \in selected
       PROVE  /\ ~level_of_detail_schedule'[x].pending_due /\ waited'[x] = 0
              /\ age'[x] + level_of_detail_schedule'[x].next_due <= promised'[x]
    <2>1. x \in P /\ ~serviced[x].pending_due
          /\ serviced[x].next_due \in 1..Schedule!Interval(schedule[x].band)
          /\ Schedule!Interval(schedule[x].band) \in Nat
        BY <1>0, <1>9, <1>13
    <2>2. age'[x] <= 1
        <3>1. aged[x] = 0
            BY <2>1, <1>13
        <3> HIDE DEF aged
        <3> QED BY <1>3, <1>6, <2>1, <3>1
    <2>3. promised'[x] = Schedule!Interval(schedule[x].band)
        BY <1>2, <1>13, <2>1
    <2>4. level_of_detail_schedule'[x].next_due = serviced[x].next_due - 1
        BY <1>8, <2>1
    <2>5. waited'[x] = 0 /\ ~level_of_detail_schedule'[x].pending_due
        BY <1>2, <1>8, <2>1
    <2>6. age'[x] \in Nat
        BY <1>7, <2>1
    <2>7. age'[x] + level_of_detail_schedule'[x].next_due <= promised'[x]
        BY <2>1, <2>2, <2>3, <2>4, <2>6
    <2> QED BY <2>5, <2>7
<1>14. ASSUME NEW x \in P \ selected
       PROVE  /\ level_of_detail_schedule'[x].pending_due = schedule[x].pending_due
              /\ level_of_detail_schedule'[x].next_due
                   = IF schedule[x].next_due = 0 THEN 0 ELSE schedule[x].next_due - 1
              /\ x \in DOMAIN age =>
                   /\ age'[x] <= age[x] + 1
                   /\ promised'[x] = promised[x]
                   /\ waited'[x] = IF ~schedule[x].pending_due THEN 0
                                   ELSE IF waited[x] <= Cardinality(P) THEN waited[x] + 1
                                   ELSE Cardinality(P) + 1
    <2>1. serviced[x] = schedule[x]
        BY <1>0, <1>14
    <2>2. ASSUME x \in DOMAIN age PROVE age'[x] <= age[x] + 1
        <3>1. aged[x] = age[x] /\ age[x] \in Nat
            BY <1>15, <1>14, <2>2
        <3> HIDE DEF aged
        <3> QED BY <1>3, <1>6, <3>1
    <2>3. ASSUME x \in DOMAIN age PROVE promised'[x] = promised[x]
        BY <1>15, <1>2, <1>14, <2>3
    <2>4. ASSUME x \in DOMAIN age
          PROVE  waited'[x] = IF ~schedule[x].pending_due THEN 0
                              ELSE IF waited[x] <= Cardinality(P) THEN waited[x] + 1
                              ELSE Cardinality(P) + 1
        <3>1. x \in DOMAIN waited /\ waited[x] \in Nat
            BY <1>15, <1>14, <2>4
        <3>2. Schedule!Min({waited[x] + 1, Cardinality(P) + 1})
                = IF waited[x] <= Cardinality(P) THEN waited[x] + 1 ELSE Cardinality(P) + 1
            BY <1>11, <3>1
        <3> QED BY <1>2, <2>1, <3>1, <3>2
    <2>5. /\ level_of_detail_schedule'[x].pending_due = schedule[x].pending_due
          /\ level_of_detail_schedule'[x].next_due
               = IF schedule[x].next_due = 0 THEN 0 ELSE schedule[x].next_due - 1
        BY <1>8, <2>1
    <2> QED BY <2>2, <2>3, <2>4, <2>5
<1> HIDE DEF aged
<1> QED BY <1>2, <1>7, <1>8, <1>10, <1>12, <1>13, <1>14 DEF Committed

\* The records an emission serviced, and those it left out.
LEMMA ServicedByRecord ==
    ASSUME Schedule!ScheduleAssumption, NEW P, Populations = {P}, tick \in Nat,
           NEW schedule \in [P -> Entries], NEW selected \in SUBSET P
    PROVE  LET serviced == Schedule!Serviced(schedule, selected)
           IN  /\ serviced \in [P -> Entries]
               /\ \A x \in selected : /\ ~serviced[x].pending_due
                                      /\ serviced[x].next_due \in 1..Schedule!Interval(schedule[x].band)
               /\ \A x \in P \ selected : serviced[x] = schedule[x]
<1> DEFINE serviced == Schedule!Serviced(schedule, selected)
           due(x) == Schedule!NextDue(x, Schedule!Interval(schedule[x].band))
           entry(x) == [schedule[x] EXCEPT !.pending_due = FALSE, !.next_due = due(x)]
<1>1. serviced = [x \in P |-> IF x \notin selected THEN schedule[x] ELSE entry(x)]
    BY DEF Schedule!Serviced
<1>2. ASSUME NEW x \in P
      PROVE  /\ entry(x) \in Entries /\ ~entry(x).pending_due
             /\ entry(x).next_due \in 1..Schedule!Interval(schedule[x].band)
    <2>1. PICK e \in Entries : e = schedule[x]
        OBVIOUS
    <2>2. e.band \in Bands
        BY DEF Entries
    <2>3. /\ Schedule!Interval(e.band) \in 1..FarInterval
          /\ Schedule!NextDue(x, Schedule!Interval(e.band)) \in 1..Schedule!Interval(e.band)
        BY <2>2, DueWithinInterval
    <2>4. PICK d : d = due(x)
        OBVIOUS
    <2>5. d \in 1..Schedule!Interval(e.band) /\ d \in 0..FarInterval
        <3>1. FarInterval \in Nat
            BY ScheduleConstants
        <3> QED BY <2>1, <2>3, <2>4, <3>1
    <2>6. [e EXCEPT !.pending_due = FALSE, !.next_due = d] \in Entries
        BY <2>5 DEF Entries
    <2>7. /\ [e EXCEPT !.pending_due = FALSE, !.next_due = d].pending_due = FALSE
          /\ [e EXCEPT !.pending_due = FALSE, !.next_due = d].next_due = d
        BY DEF Entries
    <2>8. entry(x) = [e EXCEPT !.pending_due = FALSE, !.next_due = d]
        BY <2>1, <2>4
    <2> HIDE DEF entry
    <2> QED BY <2>1, <2>5, <2>6, <2>7, <2>8
<1> HIDE DEF entry, serviced
<1> QED BY <1>1, <1>2 DEF serviced

\* What reconciling makes of the records.
LEMMA ReconciledByRecord ==
    ASSUME Schedule!ScheduleAssumption, NEW P, Populations = {P},
           level_of_detail_schedule = << >> \/ level_of_detail_schedule \in [P -> Entries],
           NEW bands \in Schedule!Classifications(P)
    PROVE  LET schedule == Schedule!ReconcileSchedule(P, bands)
           IN  /\ schedule \in [P -> Entries]
               /\ \A x \in P : x \in DOMAIN level_of_detail_schedule =>
                    /\ schedule[x].next_due = level_of_detail_schedule[x].next_due
                    /\ schedule[x].pending_due <=>
                         \/ level_of_detail_schedule[x].pending_due
                         \/ bands[x] < level_of_detail_schedule[x].band
                         \/ level_of_detail_schedule[x].next_due = 0
<1> DEFINE schedule == Schedule!ReconcileSchedule(P, bands)
           entry(x) == Schedule!Reconciled(level_of_detail_schedule, x, bands[x])
<1>1. schedule = [x \in P |-> entry(x)]
    BY DEF Schedule!ReconcileSchedule
<1>2. bands \in [P -> Bands] /\ FarInterval \in Nat
    BY ScheduleConstants DEF Schedule!Classifications
<1>3. ASSUME NEW x \in P, x \notin DOMAIN level_of_detail_schedule PROVE entry(x) \in Entries
    BY <1>2, <1>3 DEF Schedule!Reconciled, Entries
<1>4. ASSUME NEW x \in P, x \in DOMAIN level_of_detail_schedule
      PROVE  /\ entry(x) \in Entries
             /\ entry(x).next_due = level_of_detail_schedule[x].next_due
             /\ entry(x).pending_due <=>
                  \/ level_of_detail_schedule[x].pending_due
                  \/ bands[x] < level_of_detail_schedule[x].band
                  \/ level_of_detail_schedule[x].next_due = 0
    <2>1. level_of_detail_schedule[x] \in Entries
        BY <1>4
    <2>2. PICK due \in 0..FarInterval, b \in Bands :
             due = level_of_detail_schedule[x].next_due /\ b = bands[x]
        BY <1>2, <2>1 DEF Entries
    <2> DEFINE now == \/ level_of_detail_schedule[x].pending_due
                      \/ bands[x] < level_of_detail_schedule[x].band
                      \/ level_of_detail_schedule[x].next_due = 0
    <2>3. entry(x) = [next_due |-> due, pending_due |-> now, band |-> b]
        BY <1>4, <2>2 DEF Schedule!Reconciled
    <2>4. now \in BOOLEAN
        OBVIOUS
    <2> HIDE DEF now, entry
    <2>5. entry(x) \in Entries /\ entry(x).next_due = due /\ entry(x).pending_due = now
        BY <2>3, <2>4 DEF Entries
    <2> QED BY <2>2, <2>5 DEF now
<1> HIDE DEF entry, schedule
<1> QED BY <1>1, <1>3, <1>4 DEF schedule

\* The cursor stays within the population.
LEMMA CursorStays ==
    ASSUME NEW P \in SUBSET Nat, IsFiniteSet(P), P # {}, incremental_cursor \in 0..(Cardinality(P) - 1),
           NEW schedule, DOMAIN schedule = P
    PROVE  Schedule!CursorAfter(schedule) \in 0..(Cardinality(P) - 1)
<1>1. Cardinality(P) \in Nat \ {0}
    <2>1. Cardinality(P) \in Nat /\ Cardinality(P) # 0
        BY FS_CardinalityType, FS_EmptySet
    <2> QED BY <2>1
<1>2. ASSUME NEW x PROVE Schedule!IndexOf(schedule, x) \in Nat
    <2> DEFINE less == {other \in P : other < x}
    <2>1. less \in SUBSET P
        OBVIOUS
    <2>2. Schedule!IndexOf(schedule, x) = Cardinality(less)
        BY ScheduleCounts DEF Schedule!IndexOf
    <2> HIDE DEF less
    <2> QED BY <2>1, <2>2, FS_Subset, FS_CardinalityType
<1>3. ASSUME NEW x PROVE ((Schedule!IndexOf(schedule, x) + 1) % Cardinality(P)) \in 0..(Cardinality(P) - 1)
    <2>1. PICK i \in Nat : i = Schedule!IndexOf(schedule, x) + 1
        BY <1>2
    <2>2. (i % Cardinality(P)) \in 0..(Cardinality(P) - 1)
        BY <1>1, Division
    <2> QED BY <2>1, <2>2
<1>4. \/ Schedule!CursorAfter(schedule) = incremental_cursor
      \/ \E x : Schedule!CursorAfter(schedule)
                    = (Schedule!IndexOf(schedule, x) + 1) % Cardinality(P)
    BY ScheduleCounts DEF Schedule!CursorAfter
<1> QED BY <1>3, <1>4

\* An emission that is committed keeps the invariant.
LEMMA EmissionKeeps ==
    ASSUME Schedule!ScheduleAssumption, NEW P, Populations = {P}, ScheduleInv(P),
           tick % SendInterval = 0, Schedule!NextTick,
           NEW force_full_replace \in BOOLEAN, NEW bands \in Schedule!Classifications(P),
           Schedule!Emission(force_full_replace, P, bands)
    PROVE  ScheduleInv(P)'
<1> DEFINE schedule == Schedule!ReconcileSchedule(P, bands)
           N == Cardinality(P)
<1>1. /\ P \in SUBSET Nat /\ IsFiniteSet(P) /\ N \in Nat /\ (P # {} => N \in Nat \ {0})
      /\ SendInterval \in Nat \ {0} /\ MaxEntities \in Nat \ {0} /\ MayFail \in BOOLEAN
    BY ScheduleConstants
<1>2. /\ tick \in 0..(Cycle - 1) /\ tick \in Nat /\ incremental_cursor \in Nat
      /\ (P # {} => incremental_cursor \in 0..(N - 1))
    <2>1. Cycle \in Nat
        BY ScheduleConstants
    <2> QED BY <2>1 DEF ScheduleInv, ScheduleTypes
<1>3. level_of_detail_schedule = << >> \/ level_of_detail_schedule \in [P -> Entries]
    BY DEF ScheduleInv, ScheduleTypes
<1>4. Histories(P)
    BY DEF ScheduleInv, ScheduleTypes, Histories
<1>5. /\ schedule \in [P -> Entries]
      /\ \A x \in P : x \in DOMAIN level_of_detail_schedule =>
           /\ schedule[x].next_due = level_of_detail_schedule[x].next_due
           /\ schedule[x].pending_due <=>
                \/ level_of_detail_schedule[x].pending_due
                \/ bands[x] < level_of_detail_schedule[x].band
                \/ level_of_detail_schedule[x].next_due = 0
    BY <1>3, ReconciledByRecord
<1>6. /\ tick' \in 0..(Cycle - 1) /\ SinceEmission = SendInterval /\ SinceEmission' = 1
    BY <1>2, TickPasses
<1>7. \/ Schedule!Commit(schedule, Schedule!ServiceFullReplace(schedule), P, incremental_cursor)
      \/ /\ level_of_detail_seeded
         /\ Schedule!Commit(schedule, Schedule!Serviced(schedule, Schedule!Selected(schedule)),
                            Schedule!Selected(schedule), Schedule!CursorAfter(schedule))
    BY DEF Schedule!Emission
<1> HIDE DEF schedule, N
<1>8. CASE Schedule!Commit(schedule, Schedule!ServiceFullReplace(schedule), P, incremental_cursor)
    <2> DEFINE ready == [x \in P |-> [schedule[x] EXCEPT !.pending_due = TRUE]]
               serviced == Schedule!Serviced(ready, P)
    <2>1. Schedule!ServiceFullReplace(schedule) = serviced
        BY <1>5 DEF Schedule!ServiceFullReplace
    <2>2. ready \in [P -> Entries] /\ \A x \in P : ready[x].band = schedule[x].band
        BY <1>5 DEF Entries
    <2> HIDE DEF ready
    <2>3. serviced \in [P -> Entries] /\ Services(P, ready, serviced, P)
        BY <1>2, <2>2, ServicedByRecord DEF Services
    <2> HIDE DEF serviced
    <2>4. /\ level_of_detail_schedule' \in [P -> Entries] /\ age' \in [P -> Nat]
          /\ promised' \in [P -> Nat] /\ waited' \in [P -> Nat]
          /\ level_of_detail_seeded' = TRUE /\ incremental_cursor' = incremental_cursor
          /\ \A x \in P :
                /\ ~level_of_detail_schedule'[x].pending_due /\ waited'[x] = 0
                /\ age'[x] + level_of_detail_schedule'[x].next_due <= promised'[x]
        <3>1. PICK s \in [P -> Entries], v \in [P -> Entries] :
                 s = schedule /\ v = serviced
            BY <1>5, <2>3
        <3> PICK c : c = incremental_cursor
            OBVIOUS
        <3>2. Schedule!Commit(s, v, P, c)
            BY <1>8, <2>1, <3>1 DEF Schedule!Commit
        <3>3. Services(P, s, v, P)
            BY <2>2, <2>3, <3>1 DEF Services
        <3>4. P \in SUBSET P
            OBVIOUS
        <3>5. Committed(P, s, P, c)
            BY <1>4, <3>2, <3>3, <3>4, CommitByRecord
        <3> QED BY <3>5 DEF Committed
    <2>5. ScheduleTypes(P)'
        BY <1>2, <1>6, <2>4 DEF ScheduleTypes, N
    <2>6. WaitingInv(P)'
        BY <2>4 DEF WaitingInv
    <2>7. AgeInv'
        <3> SUFFICES ASSUME NEW x \in P
                     PROVE  IF level_of_detail_schedule'[x].next_due = 0
                            THEN age'[x] <= promised'[x] + SinceEmission' - 1
                            ELSE age'[x] + level_of_detail_schedule'[x].next_due <= promised'[x]
            BY <2>4 DEF AgeInv
        <3>1. age'[x] \in Nat /\ promised'[x] \in Nat
            BY <2>4
        <3> QED BY <1>6, <2>4, <3>1
    <2> QED BY <2>5, <2>6, <2>7 DEF ScheduleInv
<1>9. ASSUME level_of_detail_seeded,
             Schedule!Commit(schedule, Schedule!Serviced(schedule, Schedule!Selected(schedule)),
                             Schedule!Selected(schedule), Schedule!CursorAfter(schedule))
      PROVE  ScheduleInv(P)'
    <2> DEFINE selected == Schedule!Selected(schedule)
               serviced == Schedule!Serviced(schedule, selected)
               cursor == Schedule!CursorAfter(schedule)
    <2>1. /\ level_of_detail_schedule \in [P -> Entries] /\ age \in [P -> Nat]
          /\ promised \in [P -> Nat] /\ waited \in [P -> Nat]
        BY <1>9 DEF ScheduleInv, ScheduleTypes
    <2>2. DOMAIN schedule = P
        BY <1>5
    <2>3. selected \in SUBSET P
        BY <2>2 DEF Schedule!Selected, Schedule!Ordinary
    <2>4. \A x \in P \ selected : schedule[x].pending_due =>
             /\ x # Self /\ Incremental /\ x \notin Schedule!Ordinary(schedule)
        BY <2>2 DEF Schedule!Selected, Schedule!Ordinary
    <2>5. P # {} => cursor \in 0..(N - 1)
        BY <1>1, <1>2, <2>2, CursorStays DEF N
    <2>6. P = {} => cursor = incremental_cursor
        BY <2>2 DEF Schedule!CursorAfter, Schedule!Ordinary
    <2> HIDE DEF selected
    <2>7. serviced \in [P -> Entries] /\ Services(P, schedule, serviced, selected)
        BY <1>2, <1>5, <2>3, ServicedByRecord DEF Services
    <2> HIDE DEF serviced, cursor
    <2>8. /\ level_of_detail_schedule' \in [P -> Entries] /\ age' \in [P -> Nat]
          /\ promised' \in [P -> Nat] /\ waited' \in [P -> Nat]
          /\ level_of_detail_seeded' = TRUE /\ incremental_cursor' = cursor
          /\ \A x \in selected :
                /\ ~level_of_detail_schedule'[x].pending_due /\ waited'[x] = 0
                /\ age'[x] + level_of_detail_schedule'[x].next_due <= promised'[x]
          /\ \A x \in P \ selected :
                /\ level_of_detail_schedule'[x].pending_due = schedule[x].pending_due
                /\ level_of_detail_schedule'[x].next_due
                     = IF schedule[x].next_due = 0 THEN 0 ELSE schedule[x].next_due - 1
                /\ x \in DOMAIN age =>
                     /\ age'[x] <= age[x] + 1
                     /\ promised'[x] = promised[x]
                     /\ waited'[x] = IF ~schedule[x].pending_due THEN 0
                                     ELSE IF waited[x] <= N THEN waited[x] + 1 ELSE N + 1
        <3>1. PICK s \in [P -> Entries], v \in [P -> Entries], sel \in SUBSET P :
                 s = schedule /\ v = serviced /\ sel = selected
            BY <1>5, <2>3, <2>7
        <3> PICK c : c = cursor
            OBVIOUS
        <3>2. Schedule!Commit(s, v, sel, c)
            BY <1>9, <3>1 DEF Schedule!Commit, selected, serviced, cursor
        <3>3. Services(P, s, v, sel)
            BY <2>7, <3>1
        <3>4. Committed(P, s, sel, c)
            BY <1>4, <3>2, <3>3, CommitByRecord
        <3> QED BY <2>1, <3>1, <3>4 DEF Committed, N
    <2>9. ScheduleTypes(P)'
        BY <1>2, <1>6, <2>5, <2>6, <2>8 DEF ScheduleTypes, N
    \* A record that waits came nearer to the cursor.
    <2>10. ASSUME NEW x \in P \ selected, schedule[x].pending_due
           PROVE  /\ Incremental /\ x # Self /\ waited'[x] = waited[x] + 1
                  /\ (waited[x] + 1) * MaxEntities + Around(P, x, incremental_cursor') <= N - 1
        <3>1. Incremental /\ x # Self /\ x \notin Schedule!Ordinary(schedule) /\ x \in P /\ P # {}
            BY <2>4, <2>10
        <3>2. incremental_cursor \in 0..(N - 1) /\ N \in Nat \ {0} /\ cursor \in 0..(N - 1)
            BY <1>1, <1>2, <2>5, <3>1
        <3>3. Around(P, x, cursor) + MaxEntities <= Around(P, x, incremental_cursor)
            BY <1>1, <2>2, <2>10, <3>1, <3>2, LeftOutMovesUp DEF cursor, N
        <3>4. Around(P, x, incremental_cursor) \in 0..(N - 1) /\ Around(P, x, cursor) \in 0..(N - 1)
            BY <1>1, <3>1, <3>2, PlacesRotate DEF N
        <3>5. waited[x] \in Nat /\ waited[x] * MaxEntities + Around(P, x, incremental_cursor) <= N - 1
            <4>1. waited[x] \in Nat
                BY <2>1
            <4>2. CASE level_of_detail_schedule[x].pending_due
                BY <2>1, <4>1, <4>2 DEF ScheduleInv, WaitingInv, N
            <4>3. CASE ~level_of_detail_schedule[x].pending_due
                <5>1. waited[x] = 0
                    BY <2>1, <4>3 DEF ScheduleInv, WaitingInv
                <5> QED BY <1>1, <3>2, <3>4, <4>1, <5>1
            <4> QED BY <4>2, <4>3
        <3>6. PICK w \in Nat, k \in Nat \ {0} : w = waited[x] /\ k = MaxEntities
            BY <1>1, <3>5
        <3>7. PICK b \in Nat, a \in Nat : b = Around(P, x, incremental_cursor) /\ a = Around(P, x, cursor)
            BY <3>4
        <3>8. w * k + b <= N - 1 /\ a + k <= b
            BY <3>3, <3>5, <3>6, <3>7
        <3>9. w <= w * k
            BY <3>6
        <3>10. w <= N
            BY <1>1, <3>6, <3>7, <3>8, <3>9
        <3>11. (w + 1) * k = w * k + k
            BY <3>6
        <3>12. (w + 1) * k + a <= N - 1
            BY <1>1, <3>6, <3>7, <3>8, <3>11
        <3>13. waited'[x] = waited[x] + 1
            BY <2>1, <2>8, <2>10, <3>6, <3>10
        <3> QED BY <2>8, <3>1, <3>6, <3>7, <3>12, <3>13
    <2>11. WaitingInv(P)'
        <3> SUFFICES ASSUME NEW x \in P
                     PROVE  IF level_of_detail_schedule'[x].pending_due
                            THEN /\ Incremental /\ x # Self /\ waited'[x] \in Nat \ {0}
                                 /\ waited'[x] * MaxEntities + Around(P, x, incremental_cursor') <= N - 1
                            ELSE waited'[x] = 0
            BY <2>8 DEF WaitingInv, N
        <3>1. CASE x \in selected
            BY <2>8, <3>1
        <3>2. CASE x \notin selected /\ ~schedule[x].pending_due
            BY <2>1, <2>8, <3>2
        <3>3. CASE x \notin selected /\ schedule[x].pending_due
            <4>1. waited[x] \in Nat
                BY <2>1
            <4>2. waited'[x] \in Nat \ {0}
                BY <2>10, <3>3, <4>1
            <4> QED BY <2>8, <2>10, <3>3, <4>2
        <3> QED BY <3>1, <3>2, <3>3
    <2>12. ASSUME ~MayFail PROVE AgeInv'
        <3> SUFFICES ASSUME NEW x \in P
                     PROVE  IF level_of_detail_schedule'[x].pending_due
                            THEN age'[x] <= promised'[x] + waited'[x] * SendInterval
                            ELSE age'[x] + level_of_detail_schedule'[x].next_due <= promised'[x]
            <4>1. \A x \in P : /\ age'[x] \in Nat /\ promised'[x] \in Nat
                               /\ waited'[x] * SendInterval \in Nat
                BY <1>1, <2>8
            <4> QED BY <1>6, <2>8, <4>1 DEF AgeInv
        <3>1. /\ age[x] \in Nat /\ promised[x] \in Nat /\ waited[x] \in Nat
              /\ age'[x] \in Nat /\ promised'[x] \in Nat
            BY <2>1, <2>8
        <3>2. level_of_detail_schedule[x].next_due \in Nat
            <4>1. FarInterval \in Nat
                BY ScheduleConstants
            <4> QED BY <2>1, <4>1 DEF Entries
        <3>3. CASE x \in selected
            BY <2>8, <3>3
        <3>4. CASE x \notin selected /\ ~schedule[x].pending_due
            <4>1. /\ ~level_of_detail_schedule[x].pending_due /\ level_of_detail_schedule[x].next_due # 0
                  /\ schedule[x].next_due = level_of_detail_schedule[x].next_due
                BY <1>5, <2>1, <3>4
            <4>2. age[x] + level_of_detail_schedule[x].next_due <= promised[x]
                BY <2>1, <2>12, <4>1 DEF ScheduleInv, AgeInv
            <4>3. /\ ~level_of_detail_schedule'[x].pending_due
                  /\ level_of_detail_schedule'[x].next_due = level_of_detail_schedule[x].next_due - 1
                  /\ age'[x] <= age[x] + 1 /\ promised'[x] = promised[x]
                BY <2>1, <2>8, <3>4, <4>1
            <4> QED BY <3>1, <3>2, <4>2, <4>3
        <3>5. CASE x \notin selected /\ schedule[x].pending_due
            <4>1. /\ level_of_detail_schedule'[x].pending_due
                  /\ age'[x] <= age[x] + 1 /\ promised'[x] = promised[x]
                BY <2>1, <2>8, <3>5
            <4>2. waited'[x] = waited[x] + 1
                BY <2>10, <3>5
            <4>3. age[x] <= promised[x] + waited[x] * SendInterval + SendInterval - 1
                <5>1. PICK product \in Nat : product = waited[x] * SendInterval
                    BY <1>1, <3>1
                <5>2. CASE level_of_detail_schedule[x].pending_due
                    BY <1>6, <2>1, <2>12, <5>2 DEF ScheduleInv, AgeInv
                <5>3. CASE ~level_of_detail_schedule[x].pending_due
                    <6>1. \/ age[x] <= promised[x] + SendInterval - 1
                          \/ age[x] + level_of_detail_schedule[x].next_due <= promised[x]
                        BY <1>6, <2>1, <2>12, <5>3 DEF ScheduleInv, AgeInv
                    <6>2. age[x] <= promised[x] + product + SendInterval - 1
                        BY <1>1, <3>1, <3>2, <5>1, <6>1
                    <6> QED BY <5>1, <6>2
                <5> QED BY <5>2, <5>3
            <4>4. (waited[x] + 1) * SendInterval = waited[x] * SendInterval + SendInterval
                BY <1>1, <3>1
            <4>5. PICK p \in Nat : p = waited[x] * SendInterval
                BY <1>1, <3>1
            <4>6. age'[x] <= promised'[x] + (p + SendInterval)
                BY <1>1, <3>1, <4>1, <4>3, <4>5
            <4> QED BY <4>1, <4>2, <4>4, <4>5, <4>6
        <3> QED BY <3>3, <3>4, <3>5
    <2> QED BY <2>9, <2>11, <2>12 DEF ScheduleInv
<1> QED BY <1>7, <1>8, <1>9

\* A tick that commits no emission, where every tick is one that emits or emissions may fail.
LEMMA DropKeeps ==
    ASSUME Schedule!ScheduleAssumption, NEW P, Populations = {P}, ScheduleInv(P),
           Schedule!Drop, Schedule!NextTick, MayFail \/ tick % SendInterval # 0
    PROVE  ScheduleInv(P)'
<1>1. /\ P \in SUBSET Nat /\ Schedule!Ids = P /\ Cardinality(P) \in Nat /\ FarInterval \in Nat \ {0}
      /\ SendInterval \in Nat \ {0} /\ MaxEntities \in Nat \ {0} /\ Cycle \in Nat \ {0}
      /\ MayFail \in BOOLEAN
    BY ScheduleConstants
<1>2. /\ incremental_cursor' = incremental_cursor /\ level_of_detail_seeded' = level_of_detail_seeded
      /\ promised' = promised /\ waited' = waited
      /\ level_of_detail_schedule' = Schedule!Elapsed(level_of_detail_schedule)
      /\ age' = Schedule!Older(age)
    BY DEF Schedule!Drop
<1>3. tick \in 0..(Cycle - 1)
    BY DEF ScheduleInv, ScheduleTypes
<1>4. /\ tick' \in 0..(Cycle - 1) /\ SinceEmission \in 1..SendInterval
      /\ (tick % SendInterval # 0 => SinceEmission' = SinceEmission + 1)
    BY <1>3, TickPasses
<1>5. /\ incremental_cursor \in Nat /\ (P # {} => incremental_cursor \in 0..(Cardinality(P) - 1))
      /\ level_of_detail_seeded \in BOOLEAN
    BY DEF ScheduleInv, ScheduleTypes
<1>6. CASE /\ level_of_detail_schedule = << >> /\ age = << >> /\ promised = << >> /\ waited = << >>
           /\ ~level_of_detail_seeded
    <2>1. level_of_detail_schedule' = << >> /\ age' = << >>
        <3>1. Schedule!Elapsed(level_of_detail_schedule) = << >>
            BY <1>6 DEF Schedule!Elapsed
        <3>2. Schedule!Older(age) = << >>
            BY <1>6 DEF Schedule!Older
        <3> QED BY <1>2, <3>1, <3>2
    <2>2. ScheduleTypes(P)'
        BY <1>2, <1>4, <1>5, <1>6, <2>1 DEF ScheduleTypes
    <2>3. DOMAIN level_of_detail_schedule' = {}
        BY <2>1
    <2>4. WaitingInv(P)' /\ AgeInv'
        BY <2>3 DEF WaitingInv, AgeInv
    <2> QED BY <2>2, <2>4 DEF ScheduleInv
<1>7. CASE /\ level_of_detail_schedule \in [P -> Entries] /\ age \in [P -> Nat]
           /\ promised \in [P -> Nat] /\ waited \in [P -> Nat]
           /\ level_of_detail_seeded
    <2>1. /\ level_of_detail_schedule' = [x \in P |-> level_of_detail_schedule'[x]]
          /\ \A x \in P :
               /\ level_of_detail_schedule'[x].pending_due = level_of_detail_schedule[x].pending_due
               /\ level_of_detail_schedule'[x].next_due
                    = IF level_of_detail_schedule[x].next_due = 0 THEN 0
                      ELSE level_of_detail_schedule[x].next_due - 1
               /\ level_of_detail_schedule'[x] \in Entries
        <3>1. level_of_detail_schedule' = [x \in P |->
                 [level_of_detail_schedule[x] EXCEPT !.next_due = IF @ = 0 THEN 0 ELSE @ - 1]]
            BY <1>2, <1>7 DEF Schedule!Elapsed
        <3>2. ASSUME NEW x \in P
              PROVE  LET entry == [level_of_detail_schedule[x] EXCEPT !.next_due =
                                       IF @ = 0 THEN 0 ELSE @ - 1]
                     IN  /\ entry.pending_due = level_of_detail_schedule[x].pending_due
                         /\ entry.next_due = IF level_of_detail_schedule[x].next_due = 0 THEN 0
                                             ELSE level_of_detail_schedule[x].next_due - 1
                         /\ entry \in Entries
            <4>1. PICK e \in Entries : e = level_of_detail_schedule[x]
                BY <1>7
            <4>2. PICK d \in 0..FarInterval : d = e.next_due
                BY DEF Entries
            <4>3. PICK due : due = IF d = 0 THEN 0 ELSE d - 1
                OBVIOUS
            <4>4. due \in 0..FarInterval
                BY <1>1, <4>3
            <4>5. [e EXCEPT !.next_due = due] \in Entries
                BY <4>4 DEF Entries
            <4>6. /\ [e EXCEPT !.next_due = due].pending_due = e.pending_due
                  /\ [e EXCEPT !.next_due = due].next_due = due
                BY DEF Entries
            <4> QED BY <4>1, <4>2, <4>3, <4>5, <4>6
        <3> QED BY <3>1, <3>2
    <2>2. age' \in [P -> Nat] /\ \A x \in P : age'[x] <= age[x] + 1
        <3> DEFINE largest == FarInterval + Cardinality(P) * SendInterval + 1
        <3>1. largest \in Nat
            BY <1>1
        <3>2. age' = [x \in P |-> Schedule!Min({age[x] + 1, largest})]
            BY <1>1, <1>2, <1>7, ScheduleCounts DEF Schedule!Older
        <3> HIDE DEF largest
        <3>3. ASSUME NEW x \in P
              PROVE  /\ Schedule!Min({age[x] + 1, largest}) \in Nat
                     /\ Schedule!Min({age[x] + 1, largest}) <= age[x] + 1
            <4>1. PICK older \in Nat : older = age[x] + 1
                BY <1>7
            <4>2. Schedule!Min({older, largest}) = IF older <= largest THEN older ELSE largest
                BY <3>1, SmallerOfTwo
            <4> QED BY <3>1, <4>1, <4>2
        <3> QED BY <3>2, <3>3
    <2>3. level_of_detail_schedule' \in [P -> Entries]
        BY <2>1
    <2>4. ScheduleTypes(P)'
        BY <1>2, <1>4, <1>5, <1>7, <2>2, <2>3 DEF ScheduleTypes
    <2>5. WaitingInv(P)'
        BY <1>2, <1>7, <2>1, <2>3 DEF ScheduleInv, WaitingInv
    <2>6. ASSUME ~MayFail PROVE AgeInv'
        <3>1. SinceEmission' = SinceEmission + 1
            BY <1>4, <2>6
        <3> SUFFICES ASSUME NEW x \in P
                     PROVE  IF level_of_detail_schedule'[x].pending_due
                            THEN age'[x] <= promised'[x] + waited'[x] * SendInterval + SinceEmission' - 1
                            ELSE IF level_of_detail_schedule'[x].next_due = 0
                            THEN age'[x] <= promised'[x] + SinceEmission' - 1
                            ELSE age'[x] + level_of_detail_schedule'[x].next_due <= promised'[x]
            BY <2>3 DEF AgeInv
        <3>2. PICK product \in Nat : product = waited[x] * SendInterval
            BY <1>1, <1>7
        <3>3. age[x] \in Nat /\ promised[x] \in Nat /\ age'[x] \in Nat /\ age'[x] <= age[x] + 1
            BY <1>7, <2>2
        <3>4. level_of_detail_schedule[x].next_due \in Nat
            <4>1. level_of_detail_schedule[x] \in Entries
                BY <1>7
            <4> QED BY <1>1, <4>1 DEF Entries
        <3>5. CASE level_of_detail_schedule[x].pending_due
            <4>1. age[x] <= promised[x] + product + SinceEmission - 1
                BY <1>7, <2>6, <3>2, <3>5 DEF ScheduleInv, AgeInv
            <4>2. age'[x] <= promised[x] + product + (SinceEmission + 1) - 1
                BY <1>1, <1>4, <3>3, <4>1
            <4> QED BY <1>2, <2>1, <3>1, <3>2, <3>5, <4>2
        <3>6. CASE ~level_of_detail_schedule[x].pending_due /\ level_of_detail_schedule[x].next_due = 0
            <4>1. age[x] <= promised[x] + SinceEmission - 1
                BY <1>7, <2>6, <3>6 DEF ScheduleInv, AgeInv
            <4>2. age'[x] <= promised[x] + (SinceEmission + 1) - 1
                BY <1>1, <1>4, <3>3, <4>1
            <4> QED BY <1>2, <2>1, <3>1, <3>6, <4>2
        <3>7. CASE ~level_of_detail_schedule[x].pending_due /\ level_of_detail_schedule[x].next_due # 0
            <4>1. age[x] + level_of_detail_schedule[x].next_due <= promised[x]
                BY <1>7, <2>6, <3>7 DEF ScheduleInv, AgeInv
            <4>2. /\ level_of_detail_schedule'[x].next_due = level_of_detail_schedule[x].next_due - 1
                  /\ ~level_of_detail_schedule'[x].pending_due
                BY <2>1, <3>7
            <4>3. age'[x] + level_of_detail_schedule'[x].next_due <= promised[x]
                BY <3>3, <3>4, <4>1, <4>2
            <4>4. age'[x] <= promised[x] + (SinceEmission + 1) - 1
                BY <1>1, <1>4, <3>3, <3>4, <3>7, <4>1
            <4> QED BY <1>2, <3>1, <4>2, <4>3, <4>4
        <3> QED BY <3>5, <3>6, <3>7
    <2> QED BY <2>4, <2>5, <2>6 DEF ScheduleInv
<1> QED BY <1>6, <1>7 DEF ScheduleInv, ScheduleTypes

\* The invariant holds at the start and every step keeps it.
LEMMA ScheduleStarts ==
    ASSUME Schedule!ScheduleAssumption, NEW P, Populations = {P}, Schedule!Init
    PROVE  ScheduleInv(P)
<1>1. /\ Cycle \in Nat \ {0} /\ Cardinality(P) \in Nat /\ (P # {} => Cardinality(P) \in Nat \ {0})
    BY ScheduleConstants
<1>2. tick \in 0..(Cycle - 1) /\ incremental_cursor \in Nat
      /\ (P # {} => incremental_cursor \in 0..(Cardinality(P) - 1))
    BY <1>1 DEF Schedule!Init
<1>3. ScheduleTypes(P)
    BY <1>2 DEF Schedule!Init, ScheduleTypes
<1>4. DOMAIN level_of_detail_schedule = {}
    BY DEF Schedule!Init
<1>5. WaitingInv(P) /\ AgeInv
    BY <1>4 DEF WaitingInv, AgeInv
<1> QED BY <1>3, <1>5 DEF ScheduleInv

\* The same for every step.
LEMMA ScheduleSteps ==
    ASSUME Schedule!ScheduleAssumption, NEW P, Populations = {P}, ScheduleInv(P),
           [Schedule!Next]_(Schedule!vars)
    PROVE  ScheduleInv(P)'
<1>1. CASE Schedule!Emit
    <2>1. tick % SendInterval = 0 /\ Schedule!NextTick
        BY <1>1 DEF Schedule!Emit
    <2>2. \/ \E force_full_replace \in BOOLEAN : \E bands \in Schedule!Classifications(P) :
                Schedule!Emission(force_full_replace, P, bands)
          \/ MayFail /\ Schedule!Drop
        BY <1>1 DEF Schedule!Emit
    <2>3. CASE \E force_full_replace \in BOOLEAN : \E bands \in Schedule!Classifications(P) :
                Schedule!Emission(force_full_replace, P, bands)
        BY <2>1, <2>3, EmissionKeeps
    <2>4. CASE MayFail /\ Schedule!Drop
        BY <2>1, <2>4, DropKeeps
    <2> QED BY <2>2, <2>3, <2>4
<1>2. CASE Schedule!Skip
    <2>1. tick % SendInterval # 0 /\ Schedule!Drop /\ Schedule!NextTick
        BY <1>2 DEF Schedule!Skip
    <2> QED BY <2>1, DropKeeps
<1>3. CASE UNCHANGED Schedule!vars
    <2>1. /\ tick' = tick /\ level_of_detail_schedule' = level_of_detail_schedule
          /\ incremental_cursor' = incremental_cursor
          /\ level_of_detail_seeded' = level_of_detail_seeded
          /\ age' = age /\ promised' = promised /\ waited' = waited
        BY <1>3 DEF Schedule!vars
    <2>2. ScheduleTypes(P)' /\ WaitingInv(P)'
        BY <2>1 DEF ScheduleInv, ScheduleTypes, WaitingInv
    <2>3. ~MayFail => AgeInv'
        <3>1. SinceEmission' = SinceEmission
            BY <2>1 DEF SinceEmission
        <3> QED BY <2>1, <3>1 DEF ScheduleInv, AgeInv
    <2> QED BY <2>2, <2>3 DEF ScheduleInv
<1> QED BY <1>1, <1>2, <1>3 DEF Schedule!Next

\* What a record may wait for is within the documented bounds.
LEMMA ScheduleBounds ==
    ASSUME Schedule!ScheduleAssumption, NEW P, Populations = {P}, ScheduleInv(P)
    PROVE  Schedule!ScheduleKept
<1> DEFINE N == Cardinality(P)
           bound == Schedule!ServiceBound(level_of_detail_schedule)
<1>1. /\ P \in SUBSET Nat /\ IsFiniteSet(P) /\ N \in Nat /\ (P # {} => N \in Nat \ {0})
      /\ SendInterval \in Nat \ {0} /\ MaxEntities \in Nat \ {0} /\ FarInterval \in Nat \ {0}
      /\ MayFail \in BOOLEAN
    BY ScheduleConstants
<1>2. incremental_cursor \in Nat /\ (P # {} => incremental_cursor \in 0..(N - 1))
    BY DEF ScheduleInv, ScheduleTypes
<1>3. Schedule!TypeOK
    <2>1. tick \in 0..(Cycle - 1) /\ incremental_cursor \in Nat
        BY DEF ScheduleInv, ScheduleTypes
    <2>2. /\ level_of_detail_schedule = << >> \/ DOMAIN level_of_detail_schedule \in Populations
          /\ level_of_detail_schedule # << >> => level_of_detail_seeded
        BY DEF ScheduleInv, ScheduleTypes
    <2>3. \A x \in DOMAIN level_of_detail_schedule : level_of_detail_schedule[x] \in Entries
        BY DEF ScheduleInv, ScheduleTypes
    <2>4. \A x \in DOMAIN level_of_detail_schedule :
             /\ level_of_detail_schedule[x].band \in Bands
             /\ level_of_detail_schedule[x].pending_due \in BOOLEAN
             /\ level_of_detail_schedule[x].next_due \in 0..FarInterval
        BY <2>3 DEF Entries
    <2> QED BY <2>1, <2>2, <2>4 DEF Schedule!TypeOK
<1>4. CASE /\ level_of_detail_schedule = << >> /\ age = << >> /\ promised = << >> /\ waited = << >>
    <2>1. DOMAIN age = {} /\ DOMAIN waited = {}
        BY <1>4
    <2> QED BY <1>3, <2>1 DEF Schedule!ScheduleKept, Schedule!DueWorkServiced, Schedule!AgeBounded
<1>5. CASE /\ level_of_detail_schedule \in [P -> Entries] /\ age \in [P -> Nat]
           /\ promised \in [P -> Nat] /\ waited \in [P -> Nat]
    <2>1. bound = IF Incremental THEN (N + MaxEntities - 1) \div MaxEntities ELSE 1
        BY <1>5, ScheduleCounts DEF Schedule!ServiceBound
    <2> HIDE DEF bound, N
    <2>2. ASSUME NEW x \in P
          PROVE  bound \in Nat /\ waited[x] + 1 <= bound
        <3>1. waited[x] \in Nat /\ N \in Nat \ {0}
            BY <1>1, <1>5
        <3>2. CASE ~Incremental
            <4>1. waited[x] = 0
                BY <1>5, <3>2 DEF ScheduleInv, WaitingInv
            <4> QED BY <2>1, <3>2, <4>1
        <3>3. CASE Incremental
            <4>1. waited[x] * MaxEntities <= N - 1
                <5>1. CASE level_of_detail_schedule[x].pending_due
                    <6>1. waited[x] * MaxEntities + Around(P, x, incremental_cursor) <= N - 1
                        BY <1>5, <5>1 DEF ScheduleInv, WaitingInv, N
                    <6>2. Around(P, x, incremental_cursor) \in 0..(N - 1)
                        BY <1>1, <1>2, PlacesRotate DEF N
                    <6>3. waited[x] * MaxEntities \in Nat
                        BY <1>1, <3>1
                    <6> QED BY <3>1, <6>1, <6>2, <6>3
                <5>2. CASE ~level_of_detail_schedule[x].pending_due
                    <6>1. waited[x] = 0
                        BY <1>5, <5>2 DEF ScheduleInv, WaitingInv
                    <6>2. waited[x] * MaxEntities = 0
                        BY <1>1, <6>1
                    <6> QED BY <3>1, <6>2
                <5> QED BY <5>1, <5>2
            <4>2. PICK w \in Nat, k \in Nat \ {0} : w = waited[x] /\ k = MaxEntities
                BY <1>1, <3>1
            <4>3. (w + 1) * k <= N + k - 1
                <5>1. (w + 1) * k = w * k + k
                    BY <4>2
                <5>2. PICK product \in Nat : product = w * k
                    BY <4>2
                <5> QED BY <3>1, <4>1, <4>2, <5>1, <5>2
            <4>4. PICK room \in Nat : room = N + k - 1
                BY <3>1, <4>2
            <4>5. w + 1 <= room \div k
                <5>1. w + 1 \in Nat
                    BY <4>2
                <5> QED BY <4>2, <4>3, <4>4, <5>1, DivisorsFit
            <4>6. (room \div k) \in Nat
                BY <4>2, <4>4, Division
            <4>7. bound = room \div k
                BY <2>1, <3>3, <4>2, <4>4
            <4> QED BY <4>2, <4>5, <4>6, <4>7
        <3> QED BY <3>2, <3>3 DEF Schedule!ScheduleAssumption
    <2>3. Schedule!DueWorkServiced
        <3>1. \A x \in P : waited[x] < bound
            <4> SUFFICES ASSUME NEW x \in P PROVE waited[x] < bound
                OBVIOUS
            <4>1. waited[x] \in Nat
                BY <1>5
            <4> QED BY <2>2, <4>1
        <3> QED BY <1>5, <3>1 DEF Schedule!DueWorkServiced, bound
    <2>4. ASSUME ~MayFail PROVE Schedule!AgeBounded
        <3>1. SinceEmission \in 1..SendInterval
            <4>1. tick \in Nat
                <5>1. Cycle \in Nat
                    BY ScheduleConstants
                <5> QED BY <5>1 DEF ScheduleInv, ScheduleTypes
            <4>2. (tick % SendInterval) \in 0..(SendInterval - 1)
                BY <1>1, <4>1, Division
            <4> QED BY <1>1, <4>2 DEF SinceEmission
        <3>2. ASSUME NEW x \in P
              PROVE  age[x] <= promised[x] + bound * SendInterval
            <4>1. /\ age[x] \in Nat /\ promised[x] \in Nat /\ waited[x] \in Nat
                  /\ bound \in Nat /\ waited[x] + 1 <= bound
                BY <1>5, <2>2
            <4>2. level_of_detail_schedule[x].next_due \in Nat
                <5>1. level_of_detail_schedule[x] \in Entries
                    BY <1>5
                <5> QED BY <1>1, <5>1 DEF Entries
            <4>3. PICK w \in Nat, s \in Nat \ {0}, b \in Nat :
                     w = waited[x] /\ s = SendInterval /\ b = bound
                BY <1>1, <4>1
            <4>4. (w + 1) * s <= b * s /\ (w + 1) * s = w * s + s /\ w * s \in Nat /\ b * s \in Nat
                BY <4>1, <4>3
            <4>5. \/ age[x] <= promised[x] + w * s + SinceEmission - 1
                  \/ age[x] <= promised[x] + SinceEmission - 1
                  \/ age[x] + level_of_detail_schedule[x].next_due <= promised[x]
                BY <1>5, <2>4, <4>3 DEF ScheduleInv, AgeInv
            <4>6. PICK p \in Nat, q \in Nat : p = w * s /\ q = b * s
                BY <4>4
            <4>7. p + s <= q
                BY <4>4, <4>6
            <4>8. age[x] <= promised[x] + q
                BY <3>1, <4>1, <4>2, <4>3, <4>5, <4>6, <4>7
            <4> QED BY <4>3, <4>6, <4>8
        <3> QED BY <1>5, <3>2 DEF Schedule!AgeBounded, Schedule!AgeBound, bound
    <2> QED BY <1>3, <2>3, <2>4 DEF Schedule!ScheduleKept
<1> QED BY <1>4, <1>5 DEF ScheduleInv, ScheduleTypes

\* Due records are serviced within the documented number of committed emissions and, while
\* every emission is committed, no record grows older than the documented bound, for any
\* number of records, intervals and cap: the Incremental cursor passes everything it leaves
\* pending, however distances change and FullReplaces come between. The population stays.
THEOREM ScheduleIsKept ==
    ASSUME Schedule!ScheduleAssumption, NEW CONSTANT P, Populations = {P}
    PROVE  Schedule!Spec => []Schedule!ScheduleKept
<1>1. Schedule!Init => ScheduleInv(P)
    BY ScheduleStarts
<1>2. ScheduleInv(P) /\ [Schedule!Next]_(Schedule!vars) => ScheduleInv(P)'
    BY ScheduleSteps
<1>3. ScheduleInv(P) => Schedule!ScheduleKept
    BY ScheduleBounds
<1> QED BY <1>1, <1>2, <1>3, PTL DEF Schedule!Spec
=============================================================================

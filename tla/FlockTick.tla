------------------------------ MODULE FlockTick ------------------------------
(***************************************************************************)
(* One tick of the authoritative world as the Flecs phases of game_server  *)
(* run it: player movement, capture, grid, compute on several workers,     *)
(* validation, commit on several workers, report; and between ticks the    *)
(* viewer's inspection of one boid.                                        *)
(***************************************************************************)
EXTENDS Naturals, FiniteSets, FiniteSetsExt

CONSTANTS
    Rows, Poses, PlayerPoses, NoPlayer, Inputs, Workers,
    Influence,            \* players lure or frighten boids
    NoSelection,
    PlayerId,             \* the network identifier of a player
    Moved(_, _), Evaluate(_, _, _, _), IsFinite(_),
    MaxTicks              \* model bound

ASSUME TickAssumption ==
    /\ Influence \in BOOLEAN
    /\ MaxTicks \in Nat
    /\ {NoSelection, PlayerId} \cap Rows = {}
    /\ NoPlayer \notin PlayerPoses /\ NoSelection \notin [row : Rows, pose : Poses, outcome : Poses]
    /\ IsFiniteSet(Rows) /\ Workers \subseteq Nat
    /\ \A pose \in PlayerPoses, i \in Inputs : Moved(pose, i) \in PlayerPoses
    /\ \A boids \in [Rows -> Poses], source \in PlayerPoses \cup {NoPlayer},
          tick \in 0..MaxTicks, row \in Rows : Evaluate(boids, source, tick, row) \in Poses

VARIABLES
    phase,        \* the Flecs phase that runs next; "idle" between ticks
    world,        \* row -> pose, the Flecs components
    player, input,
    \* ServerGameRuntime::Impl
    current, sources, next, written, workers, selectedId, selectedDebug,
    phaseValid, lastDelta, evaluationTick, completed,
    merged,       \* what validation merged into the report: boids processed
    committed,    \* rows the commit phase has visited
    failed,       \* run_tick ended with FatalError
    before        \* history: boids and player when the tick began

captured == <<current, sources, evaluationTick, lastDelta>>
selection == <<selectedId, selectedDebug>>
vars == <<phase, world, player, input, captured, next, written, workers, selection,
          phaseValid, completed, merged, committed, failed, before>>

IdleWorker == [processed |-> 0, selected |-> NoSelection]

Init ==
    /\ phase = "idle"
    /\ world \in [Rows -> {pose \in Poses : IsFinite(pose)}]
    /\ player = NoPlayer
    /\ input \in Inputs
    /\ current = world
    /\ sources = NoPlayer
    /\ next = world
    /\ written = {}
    /\ workers = [w \in Workers |-> IdleWorker]
    /\ selectedId = NoSelection
    /\ selectedDebug = NoSelection
    /\ phaseValid = FALSE
    /\ lastDelta = 0
    /\ evaluationTick = 0
    /\ completed = 0
    /\ merged = 0
    /\ committed = {}
    /\ failed = FALSE
    /\ before = [boids |-> world, player |-> player]

-----------------------------------------------------------------------------
(* Between ticks. *)

Idle == phase = "idle" /\ ~failed

\* A client's player is spawned or deleted, or its latest input replaced.
ChangePlayer ==
    /\ Idle
    /\ player' \in PlayerPoses \cup {NoPlayer}
    /\ input' \in Inputs
    /\ UNCHANGED <<phase, world, captured, next, written, workers, selection, phaseValid,
                   completed, merged, committed, failed, before>>

\* Faulty variant: the inspection starts from the live components.
DebugOfWorld(row) ==
    [row |-> row, pose |-> world[row],
     outcome |-> Evaluate(world, sources, evaluationTick, row)]

\* make_selected_debug of a row of the last capture.
DebugOf(row) ==
    [row |-> row, pose |-> current[row],
     outcome |-> Evaluate(current, sources, evaluationTick, row)]

\* select_boid: one that is not a boid of the capture selects without a result.
SelectBoid(id) ==
    /\ Idle
    /\ ~(selectedId = id /\ selectedDebug # NoSelection)
    /\ selectedId' = id
    /\ selectedDebug' = IF id \in Rows /\ phaseValid /\ lastDelta > 0
                        THEN DebugOf(id) ELSE NoSelection
    /\ UNCHANGED <<phase, world, player, input, captured, next, written, workers,
                   phaseValid, completed, merged, committed, failed, before>>

-----------------------------------------------------------------------------
(* A tick. *)

\* prepare_server_game_runtime, and the PlayerMovement system; a pose out of range is
\* not taken over.
PlayerMovement ==
    /\ Idle
    /\ completed < MaxTicks
    /\ before' = [boids |-> world, player |-> player]
    /\ player' = IF player = NoPlayer \/ ~IsFinite(Moved(player, input))
                 THEN player ELSE Moved(player, input)
    /\ phase' = "capture"
    /\ UNCHANGED <<world, input, captured, next, written, workers, selection, phaseValid,
                   completed, merged, committed, failed>>

ResetWorkers == [w \in Workers |-> IdleWorker]

FlockCapture ==
    /\ phase = "capture"
    /\ current' = world
    /\ sources' = IF Influence THEN player ELSE NoPlayer
    /\ evaluationTick' = completed
    /\ lastDelta' = 1
    /\ written' = {}
    /\ workers' = ResetWorkers
    /\ selectedDebug' = NoSelection
    /\ phaseValid' = TRUE
    /\ merged' = 0
    /\ phase' = "grid"
    /\ UNCHANGED <<world, player, input, next, selectedId, completed, committed, failed,
                   before>>

\* The build may throw, for want of memory.
FlockGridBuild ==
    /\ phase = "grid"
    /\ phaseValid' \in {phaseValid, FALSE}
    /\ phase' = "compute"
    /\ UNCHANGED <<world, player, input, captured, next, written, workers, selection,
                   completed, merged, committed, failed, before>>

\* Faulty variant: the next state is written over the captured one.
ComputedInPlace(row, pose) ==
    /\ next' = [next EXCEPT ![row] = pose]
    /\ current' = [current EXCEPT ![row] = pose]

Computed(row, pose) ==
    /\ next' = [next EXCEPT ![row] = pose]
    /\ UNCHANGED current

\* compute_boid_row on the worker Flecs gave the row to. Rows are disjoint, and a
\* worker touches only its own scratch and its rows, so that one row is one step.
FlockCompute(worker, row) ==
    /\ phase = "compute"
    /\ phaseValid
    /\ row \notin written
    /\ Computed(row, Evaluate(current, sources, evaluationTick, row))
    /\ written' = written \cup {row}
    /\ workers' = [workers EXCEPT
            ![worker].processed = @ + 1,
            ![worker].selected = IF selectedId = row THEN DebugOf(row) ELSE @]
    /\ UNCHANGED <<phase, world, player, input, sources, evaluationTick, lastDelta,
                   selection, phaseValid, completed, merged, committed, failed, before>>

NextStateValid == written = Rows /\ \A row \in Rows : IsFinite(next[row])

\* What the workers' counters add up to, as the size of a disjoint union.
Processed == UNION {{w} \X (1..workers[w].processed) : w \in Workers}

\* The last worker in order with a selected boid wins; the merge is of every tick.
FlockValidate ==
    /\ phase = "compute"
    /\ ~phaseValid \/ written = Rows
    /\ phaseValid' = (phaseValid /\ NextStateValid)
    /\ merged' = Cardinality(Processed)
    /\ LET found == {w \in Workers : workers[w].selected # NoSelection} IN
       selectedDebug' = IF found = {} THEN selectedDebug ELSE workers[Max(found)].selected
    /\ committed' = {}
    /\ phase' = "commit"
    /\ UNCHANGED <<world, player, input, captured, next, written, workers, selectedId,
                   completed, failed, before>>

Commits == phaseValid

FlockCommit(row) ==
    /\ phase = "commit"
    /\ row \notin committed
    /\ world' = IF Commits THEN [world EXCEPT ![row] = next[row]] ELSE world
    /\ committed' = committed \cup {row}
    /\ UNCHANGED <<phase, player, input, captured, next, written, workers, selection,
                   phaseValid, completed, merged, failed, before>>

\* FlockReport, and run_tick's verdict on the report.
FlockReport ==
    /\ phase = "commit"
    /\ committed = Rows
    /\ completed' = IF phaseValid THEN completed + 1 ELSE completed
    /\ failed' = ~phaseValid
    /\ phase' = "idle"
    /\ UNCHANGED <<world, player, input, captured, next, written, workers, selection,
                   phaseValid, merged, committed, before>>

Next ==
    \/ ChangePlayer
    \/ \E id \in Rows \cup {NoSelection, PlayerId} : SelectBoid(id)
    \/ PlayerMovement
    \/ FlockCapture
    \/ FlockGridBuild
    \/ \E worker \in Workers, row \in Rows : FlockCompute(worker, row)
    \/ FlockValidate
    \/ \E row \in Rows : FlockCommit(row)
    \/ FlockReport

Spec == Init /\ [][Next]_vars
-----------------------------------------------------------------------------
(* Properties. *)

Debugs == [row : Rows, pose : Poses, outcome : Poses] \cup {NoSelection}

TypeOK ==
    /\ phase \in {"idle", "capture", "grid", "compute", "commit"}
    /\ world \in [Rows -> Poses] /\ current \in [Rows -> Poses] /\ next \in [Rows -> Poses]
    /\ player \in PlayerPoses \cup {NoPlayer} /\ sources \in PlayerPoses \cup {NoPlayer}
    /\ input \in Inputs
    /\ written \subseteq Rows /\ committed \subseteq Rows
    /\ workers \in [Workers -> [processed : 0..Cardinality(Rows), selected : Debugs]]
    /\ selectedId \in Rows \cup {NoSelection, PlayerId} /\ selectedDebug \in Debugs
    /\ phaseValid \in BOOLEAN /\ failed \in BOOLEAN
    /\ lastDelta \in 0..1
    /\ completed \in 0..MaxTicks /\ evaluationTick \in 0..MaxTicks
    /\ merged \in 0..Cardinality(Rows)

\* A validated tick's report counts every boid once, however the rows were shared out.
MergedCountsEachBoid == phase = "commit" /\ phaseValid => merged = Cardinality(Rows)

\* Between ticks the inspection shows the selected boid as the last tick evaluated it,
\* never a result of an earlier tick or of another boid.
InspectionIsOfLastTick ==
    phase = "idle" /\ selectedDebug # NoSelection =>
        /\ selectedDebug.row = selectedId
        /\ selectedDebug.pose = before.boids[selectedId]
        /\ phaseValid => selectedDebug.outcome = world[selectedId]

\* Between ticks the inspection shows the selected boid as the last tick left it, and the
\* report of a validated tick counts every boid once (validate_flock, inspect_boid).
InspectionKept == TypeOK /\ InspectionIsOfLastTick /\ MergedCountsEachBoid

\* Every tick, however workers interleave, is one step of FlockStep: all boids from the
\* state before it and the moved player, or none of them.
Step == INSTANCE FlockStep WITH
    boids <- IF phase = "idle" THEN world ELSE before.boids,
    player <- IF phase = "idle" THEN player ELSE before.player,
    ticks <- completed

TickIsAtomic == Step!Spec
=============================================================================

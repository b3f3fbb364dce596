----------------------------- MODULE MCServerTick -----------------------------
(***************************************************************************)
(* What a tick of the server computes, in parts that are checked apart:    *)
(* the flock (MCFlockTick), the entities and their index                   *)
(* (AuthoritativeIndex), the grid with its queries (FlockNeighbors) and    *)
(* the level-of-detail schedule (LevelOfDetailSchedule) in two situations. *)
(* A behaviour is of one part, and the others stay in an initial state.    *)
(***************************************************************************)
EXTENDS MCFlockTick, Functions, Sequences

CONSTANTS
    \* AuthoritativeIndex
    LastId, MaxAppended, MaxHandles,
    \* FlockNeighbors
    Sources, CoordinatesX, CoordinatesY, ExtentX, ExtentY, CellSizes, MaxDenseCells,
    WorkerCount, MaxNeighbors, Radii

VARIABLES
    part,
    entities, tables, lastHandle, ids, handles, boidCount, nextId, issued, revived,
    positions, rowIds, cellSize, entries, cells, shards, built, begun,
    tick, level_of_detail_schedule, incremental_cursor, level_of_detail_seeded, age, promised, waited

indexVars == <<entities, tables, lastHandle, ids, handles, boidCount, nextId, issued, revived>>
gridVars == <<positions, rowIds, cellSize, entries, cells, shards, built, begun>>
scheduleVars == <<tick, level_of_detail_schedule, incremental_cursor, level_of_detail_seeded,
                  age, promised, waited>>

Index == INSTANCE AuthoritativeIndex WITH world <- entities

Grid == INSTANCE FlockNeighbors WITH ids <- rowIds

\* A player and three other records, near or far, of which two fit an emission, and
\* emissions that fail.
Rotation == INSTANCE LevelOfDetailSchedule
    WITH Populations <- {1..4}, Self <- 1, MediumInterval <- 2, FarInterval <- 3,
         SendInterval <- 1, Incremental <- TRUE, MaxEntities <- 2, Cycle <- 6,
         Bands <- {1, 3}, MixedId <- <<3, 5, 1, 4>>, MayFail <- TRUE

\* Three records and an emission every second tick.
Aging == INSTANCE LevelOfDetailSchedule
    WITH Populations <- {1..3}, Self <- 0, MediumInterval <- 2, FarInterval <- 8,
         SendInterval <- 2, Incremental <- TRUE, MaxEntities <- 2, Cycle <- 8,
         Bands <- 1..3, MixedId <- <<3, 5, 1>>, MayFail <- FALSE

ASSUME PartsConfigured ==
    /\ Index!IndexAssumption
    /\ Grid!GridAssumption /\ Grid!NeighborAssumption
    /\ Rotation!ScheduleAssumption /\ Aging!ScheduleAssumption

\* Identifiers in the order of the rows, in another, and one that stands twice.
GridIds == {<<1, 2, 3>>, <<3, 1, 2>>, <<2, 2, 1>>}

\* Only the part that runs starts anywhere it may.
PartInit ==
    /\ part \in {"flock", "index", "grid", "rotation", "aging"}
    /\ Init /\ Index!Init /\ Grid!Init /\ Rotation!Init
    /\ part # "flock" => input = 0 /\ world = [row \in Rows |-> 0]
    /\ part = "grid" => rowIds \in GridIds
    /\ part # "grid" =>
           /\ positions = [s \in Sources |-> <<0, 0>>]
           /\ rowIds = [s \in Sources |-> s]
           /\ cellSize = 1

PartNext ==
    /\ UNCHANGED part
    /\ \/ part = "flock" /\ Next /\ UNCHANGED <<indexVars, gridVars, scheduleVars>>
       \/ part = "index" /\ Index!Next /\ UNCHANGED <<vars, gridVars, scheduleVars>>
       \/ part = "grid" /\ Grid!Next /\ UNCHANGED <<vars, indexVars, scheduleVars>>
       \/ /\ \/ part = "rotation" /\ Rotation!Next
             \/ part = "aging" /\ Aging!Next
          /\ UNCHANGED <<vars, indexVars, gridVars>>

PartSpec == PartInit /\ [][PartNext]_<<part, vars, indexVars, gridVars, scheduleVars>>
-----------------------------------------------------------------------------
(* Properties that combine those of the parts. *)

\* The index, the rows and the extraction agree with the Flecs world after any order of
\* appends, spawns and deletes, and players get new identifiers.
IndexConsistent == Index!IndexConsistent

\* Every way to build the grid commits the same entries; its queries are exact and the
\* neighbours a boid keeps the nearest (finish_spatial_grid_build, keep_neighbor).
GridAnswers ==
    /\ Grid!TypeOK /\ Grid!GridIsOrdered /\ Grid!StrategiesAgree
    /\ Grid!QueriesExact /\ Grid!NeighborsAreBest

\* Pending records are serviced within the documented number of emissions, and none is
\* older than the documented age (select_pending_indices, reconcile_schedule).
ScheduleKept ==
    /\ part = "rotation" => Rotation!ScheduleKept
    /\ part = "aging" => Aging!ScheduleKept
=============================================================================

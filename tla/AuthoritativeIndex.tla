-------------------------- MODULE AuthoritativeIndex --------------------------
(***************************************************************************)
(* The lifecycle of authoritative entities: boids appended in batches,     *)
(* players spawned and deleted with their sessions, and the index of       *)
(* network identifiers kept in step with the Flecs world they live in.     *)
(* Flecs is external: it keeps the entities of one kind in a table, adds   *)
(* at its end, and fills the place of a deleted entity with the last one.  *)
(***************************************************************************)
EXTENDS Naturals, Sequences, FiniteSets, Functions, SequencesExt

CONSTANTS LastId,     \* the largest EntityNetId
          MaxAppended, \* model bound on the boids of one batch
          MaxHandles  \* model bound on the Flecs entities ever made

IndexAssumption ==
    /\ LastId \in Nat \ {0}
    /\ MaxAppended \in Nat
    /\ MaxHandles \in Nat

VARIABLES
    world,      \* live entities: handle -> [id, kind, row, input]
    tables,     \* kind -> handles in the order Flecs stores them
    lastHandle, \* handles made so far
    \* AuthoritativeReplicationIndex
    ids, handles, boidCount, nextId,
    \* histories
    issued,     \* identifiers that were ever in use
    revived     \* boids were appended after the identifiers were spent

indexVars == <<ids, handles, boidCount, nextId>>
vars == <<world, tables, lastHandle, indexVars, issued, revived>>

Kinds == {"boid", "player"}
Steerings == {"idle", "steering"}

Init ==
    /\ world = << >>
    /\ tables = [kind \in Kinds |-> << >>]
    /\ lastHandle = 0
    /\ ids = << >>
    /\ handles = << >>
    /\ boidCount = 0
    /\ nextId = 1
    /\ issued = {}
    /\ revived = FALSE

NextEntityId(id) == IF id = LastId THEN 0 ELSE id + 1

\* find_index: where id is, or belongs.
Position(id) == Cardinality({i \in DOMAIN ids : ids[i] < id}) + 1

Has(id) == \E i \in DOMAIN ids : ids[i] = id
HandleOf(id) == handles[Position(id)]

-----------------------------------------------------------------------------
(* Players. *)

\* The first identifier from nextId on that the index does not hold; 0 if there is none.
FreeId ==
    LET free == {id \in nextId..LastId : ~Has(id)}
    IN IF nextId = 0 \/ free = {} THEN 0 ELSE CHOOSE id \in free : \A other \in free : id <= other

\* spawn_authoritative_player returns 0, and changes nothing, without an identifier.
SpawnAuthoritativePlayer ==
    LET id == FreeId
        handle == lastHandle + 1
    IN
    /\ id # 0
    /\ handle <= MaxHandles
    /\ world' = [h \in DOMAIN world \cup {handle} |->
                    IF h = handle THEN [id |-> id, kind |-> "player", row |-> 0, input |-> "idle"]
                    ELSE world[h]]
    /\ tables' = [tables EXCEPT !["player"] = Append(@, handle)]
    /\ lastHandle' = handle
    /\ ids' = InsertAt(ids, Position(id), id)
    /\ handles' = InsertAt(handles, Position(id), handle)
    /\ nextId' = NextEntityId(id)
    /\ issued' = issued \cup {id}
    /\ UNCHANGED <<boidCount, revived>>

IsPlayer(id) == Has(id) /\ HandleOf(id) \in DOMAIN world /\ world[HandleOf(id)].kind = "player"

\* set_authoritative_player_input of a live player.
SetAuthoritativePlayerInput(id, input) ==
    /\ IsPlayer(id)
    /\ world' = [world EXCEPT ![HandleOf(id)].input = input]
    /\ UNCHANGED <<tables, lastHandle, indexVars, issued, revived>>

\* Flecs moves the last entity of the table into the place of the one removed.
WithoutHandle(table, handle) ==
    [i \in 1..Len(table) - 1 |-> IF table[i] = handle THEN Last(table) ELSE table[i]]

\* Faulty variant: the parallel arrays are not erased at the same place.
EraseShifted(id) ==
    /\ ids' = RemoveAt(ids, Position(id))
    /\ handles' = Front(handles)

EraseIndexEntry(id) ==
    /\ ids' = RemoveAt(ids, Position(id))
    /\ handles' = RemoveAt(handles, Position(id))

DeleteAuthoritativePlayer(id) ==
    /\ IsPlayer(id)
    /\ LET handle == HandleOf(id) IN
       /\ world' = Restrict(world, DOMAIN world \ {handle})
       /\ tables' = [tables EXCEPT !["player"] = WithoutHandle(@, handle)]
    /\ EraseIndexEntry(id)
    /\ UNCHANGED <<lastHandle, boidCount, nextId, issued, revived>>

-----------------------------------------------------------------------------
(* Boids. *)

Ascending(seq) == \A i \in 1..Len(seq) - 1 : seq[i] < seq[i + 1]

\* The checks of append_authoritative_boids; a refused batch changes nothing.
Accepts(batch) ==
    /\ Ascending(batch)
    /\ \A i \in DOMAIN batch : batch[i] # 0 /\ \A j \in DOMAIN ids : ids[j] < batch[i]

RowOf(offset) == boidCount + offset - 1

NextIdAfter(maximum) == IF nextId > NextEntityId(maximum) THEN nextId ELSE NextEntityId(maximum)

AppendAuthoritativeBoids(batch) ==
    LET made == [i \in DOMAIN batch |-> lastHandle + i]
        entity(h) == [id |-> batch[h - lastHandle], kind |-> "boid",
                      row |-> RowOf(h - lastHandle), input |-> "idle"]
    IN
    /\ batch # << >>
    /\ lastHandle + Len(batch) <= MaxHandles
    /\ Accepts(batch)
    /\ world' = [h \in DOMAIN world \cup ToSet(made) |->
                    IF h \in DOMAIN world THEN world[h] ELSE entity(h)]
    /\ tables' = [tables EXCEPT !["boid"] = @ \o made]
    /\ lastHandle' = lastHandle + Len(batch)
    /\ ids' = ids \o batch
    /\ handles' = handles \o made
    /\ boidCount' = boidCount + Len(batch)
    /\ nextId' = NextIdAfter(Last(batch))
    /\ issued' = issued \cup ToSet(batch)
    /\ revived' = (revived \/ nextId = 0)

-----------------------------------------------------------------------------
(* Readers. *)

ById(h, other) == world[h].id < world[other].id

\* Each entity at the place of its rank.
SortedScratch(scratch) ==
    LET entries == ToSet(scratch)
        rank(h) == Cardinality({other \in entries : ById(other, h)}) + 1
    IN [i \in 1..Cardinality(entries) |-> CHOOSE h \in entries : rank(h) = i]

\* extract_world_snapshot with the tables iterated in the given order; a failure leaves
\* the output snapshot empty.
ExtractWorldSnapshot(order) ==
    LET scratch == SortedScratch(tables[order[1]] \o tables[order[2]])
        valid == /\ Len(scratch) = Len(ids)
                 /\ \A i \in DOMAIN scratch :
                        world[scratch[i]].id = ids[i] /\ scratch[i] = handles[i]
    IN [valid |-> valid,
        entities |-> IF valid
                     THEN [i \in DOMAIN scratch |-> <<world[scratch[i]].id, world[scratch[i]].kind>>]
                     ELSE << >>]

\* The checks of the flock capture, of the boids by their rows and of the players by
\* their index entries, after prepare_server_game_runtime sized it for boidCount rows.
CaptureValid ==
    LET boids == {h \in DOMAIN world : world[h].kind = "boid"}
        rows == {world[h].row : h \in boids}
    IN /\ rows = 0..boidCount - 1
       /\ Cardinality(boids) = boidCount
       /\ \A h, g \in boids : world[h].row < world[g].row => world[h].id <= world[g].id
       /\ \A i \in DOMAIN handles :
            /\ handles[i] \in DOMAIN world
            /\ world[handles[i]].kind = "player" => world[handles[i]].id = ids[i]

-----------------------------------------------------------------------------
Next ==
    \/ SpawnAuthoritativePlayer
    \/ \E id \in 1..LastId :
        \/ DeleteAuthoritativePlayer(id)
        \/ \E input \in Steerings : SetAuthoritativePlayerInput(id, input)
    \/ \E batch \in BoundedSeq(0..LastId, MaxAppended) : AppendAuthoritativeBoids(batch)

Spec == Init /\ [][Next]_vars
-----------------------------------------------------------------------------
(* Properties. *)

TypeOK ==
    /\ DOMAIN world \subseteq 1..lastHandle
    /\ \A h \in DOMAIN world :
        world[h] \in [id : 1..LastId, kind : Kinds, row : Nat, input : Steerings]
    /\ Len(handles) = Len(ids) /\ boidCount \in 0..Len(ids)
    /\ nextId \in 0..LastId
    /\ issued \subseteq 1..LastId

\* The index lists every live entity once, with its own identifier, in ascending order,
\* after any order of appends, spawns and deletes.
IndexMatchesWorld ==
    /\ ToSet(handles) = DOMAIN world
    /\ \A i \in DOMAIN ids : world[handles[i]].id = ids[i]
    /\ Ascending(ids)

\* The next tick's capture accepts the world: players between and above the boids shift
\* no row, and rows ascend with identifiers.
CaptureAccepts == CaptureValid

\* Extraction succeeds and yields exactly the live entities in ascending order, although
\* Flecs reorders a table when an entity in it is deleted.
ExtractionExact ==
    \A order \in {<<"boid", "player">>, <<"player", "boid">>} :
        ExtractWorldSnapshot(order) =
            [valid |-> TRUE,
             entities |-> [i \in DOMAIN ids |-> <<ids[i], world[handles[i]].kind>>]]

\* A player's identifier was never in use before, so that no client mistakes it for an
\* entity it has seen, unless boids are appended when the identifiers were spent.
SpawnIssuesNewIds ==
    [][~revived => \A h \in DOMAIN world' \ DOMAIN world :
            world'[h].kind = "player" => world'[h].id \notin issued]_vars

\* The index, the rows and the extraction agree with the Flecs world after any order of
\* appends, spawns and deletes, and players get new identifiers.
IndexConsistent ==
    /\ [](TypeOK /\ IndexMatchesWorld /\ CaptureAccepts /\ ExtractionExact)
    /\ SpawnIssuesNewIds
=============================================================================

---------------------------- MODULE FlockNeighbors ----------------------------
(***************************************************************************)
(* The neighbours a boid steers by: evaluate_boid_row takes the candidates *)
(* of the grid query as they come and keeps the best of them in a heap.    *)
(* With the properties of the grid they come from.                         *)
(***************************************************************************)
EXTENDS SpatialGrid

CONSTANTS MaxNeighbors, Radii

NeighborAssumption == MaxNeighbors \in Nat \ {0} /\ Radii \subseteq Nat

Distance(row, other) == Squared(positions[row], positions[other])

\* neighbor_better
NeighborBetter(row, a, b) ==
    \/ Distance(row, a) < Distance(row, b)
    \/ Distance(row, a) = Distance(row, b) /\ ids[a] < ids[b]

\* keep_neighbor: at the limit a better candidate replaces the worst, the heap's front.
KeepNeighbor(row, kept, candidate) ==
    LET front == CHOOSE k \in kept : \A other \in kept : ~NeighborBetter(row, k, other)
    IN IF candidate = row THEN kept
       ELSE IF Cardinality(kept) < MaxNeighbors THEN kept \cup {candidate}
       ELSE IF NeighborBetter(row, candidate, front) THEN (kept \ {front}) \cup {candidate}
       ELSE kept

Neighbors(row, radius) ==
    FoldLeft(LAMBDA kept, candidate : KeepNeighbor(row, kept, candidate), {},
             QueryRadius(positions[row], radius))

-----------------------------------------------------------------------------
(* Properties. *)

TypeOK ==
    /\ positions \in [Sources -> Places] /\ ids \in [Sources -> Sources]
    /\ \A i \in DOMAIN entries : entries[i] \in CellKeys \X Sources
    /\ \A n \in DOMAIN cells :
        cells[n] \in [key : CellKeys, begin : 1..Len(entries), count : 1..Len(entries)]
    /\ DOMAIN shards = GridWorkers
    /\ begun \in BOOLEAN

Committed == built # "none"

\* Whatever shards were built, overlapping ones too, a committed grid has its entries in
\* strict order, no source twice, and its ranges are the runs of equal keys.
GridIsOrdered ==
    Committed =>
        /\ \A i \in 2..Len(entries) : Before(entries[i - 1], entries[i], built = "ids")
        /\ \A i, j \in DOMAIN entries : entries[i][2] = entries[j][2] => i = j
        /\ \A n \in 2..Len(cells) : cells[n - 1].key < cells[n].key
        /\ \A n \in DOMAIN cells :
            {i \in DOMAIN entries : entries[i][1] = cells[n].key} =
                cells[n].begin..cells[n].begin + cells[n].count - 1
        /\ {cells[n].key : n \in DOMAIN cells} = {entries[i][1] : i \in DOMAIN entries}

Complete == {entries[i][2] : i \in DOMAIN entries} = Sources

\* Both strategies, and shards of any workers in any order, commit the same entries once
\* they cover every position.
StrategiesAgree ==
    Committed /\ Complete =>
        entries = SortCellEntries([s \in Sources |-> <<KeyFor(positions[s]), s>>], built = "ids")

\* Radius and box queries that reach the bounds call back every source inside them, on
\* the border too, exactly once, also for positions clamped into the outermost cells.
QueriesExact ==
    Committed /\ Complete =>
        \A p \in Places :
            /\ \A r \in Radii :
                LET found == QueryRadius(p, r) IN
                Intersects(<<p[1] - r, p[2] - r>>, <<p[1] + r, p[2] + r>>) =>
                    /\ ToSet(found) = {s \in Sources : Squared(positions[s], p) <= r * r}
                    /\ Len(found) = Cardinality(ToSet(found))
            /\ \A q \in {q \in Places : q[1] >= p[1] /\ q[2] >= p[2]} :
                LET found == QueryAabb(p, q) IN
                Intersects(p, q) =>
                    /\ ToSet(found) = {s \in Sources : InBox(positions[s], p, q)}
                    /\ Len(found) = Cardinality(ToSet(found))

Nearer(row, a, b) ==
    \/ Squared(positions[row], positions[a]) < Squared(positions[row], positions[b])
    \/ /\ Squared(positions[row], positions[a]) = Squared(positions[row], positions[b])
       /\ ids[a] < ids[b]

\* With distinct identifiers the neighbours kept are the nearest, the lower identifier
\* first among equals, in whatever order the grid yields the candidates.
NeighborsAreBest ==
    Committed /\ Complete /\ IsInjective(ids) =>
        \A row \in Sources, r \in Radii :
            LET near == {s \in Sources \ {row} : Squared(positions[row], positions[s]) <= r * r}
                kept == Neighbors(row, r)
            IN InBox(positions[row], <<0, 0>>, <<ExtentX, ExtentY>>) =>
                /\ kept \subseteq near
                /\ Cardinality(kept) = Min({MaxNeighbors, Cardinality(near)})
                /\ \A a \in kept, b \in near \ kept : Nearer(row, a, b)
=============================================================================

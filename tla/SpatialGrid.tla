----------------------------- MODULE SpatialGrid -----------------------------
(***************************************************************************)
(* The bounded uniform grid over positions that simulation, interest and   *)
(* viewer query: built densely by counting, by a comparison sort when      *)
(* there are too many cells, or in phases from the shards of workers; and  *)
(* the radius and box queries over what was committed. Positions have two  *)
(* of their three axes and integer coordinates; the bounds begin at zero.  *)
(***************************************************************************)
EXTENDS Integers, Sequences, FiniteSets, FiniteSetsExt, SequencesExt

CONSTANTS
    Sources,      \* 1..N, the indices of the positions
    CoordinatesX, CoordinatesY, \* the coordinates a position may have
    ExtentX, ExtentY,
    CellSizes,    \* the cell sizes a grid may be resized to
    MaxDenseCells,
    WorkerCount

GridAssumption ==
    /\ Sources = 1..Cardinality(Sources)
    /\ {ExtentX, ExtentY, WorkerCount} \cup CellSizes \subseteq Nat \ {0}
    /\ MaxDenseCells \in Nat

VARIABLES
    positions,    \* the caller's positions
    ids,          \* the caller's identifiers of the same rows
    cellSize,     \* grid.settings.cell_size
    entries,      \* grid.entries: <<key, source>>
    cells,        \* grid.occupied_cells: [key, begin, count]
    shards,       \* scratch.workers: entries of each worker
    built,        \* what orders the entries of a committed grid: "ids" or "sources"
    begun         \* a phased build has begun

vars == <<positions, ids, cellSize, entries, cells, shards, built, begun>>

GridWorkers == 1..WorkerCount
EmptyShards == [w \in GridWorkers |-> << >>]

-----------------------------------------------------------------------------
(* Cells. *)

\* dimension_for_axis
Dimension(extent) == (extent + cellSize - 1) \div cellSize
DimX == Dimension(ExtentX)
DimY == Dimension(ExtentY)

\* clamp_cell_axis
ClampCellAxis(value, dimension) ==
    IF value \div cellSize <= 0 THEN 0
    ELSE IF value \div cellSize >= dimension - 1 THEN dimension - 1
    ELSE value \div cellSize

CellCoord(position) ==
    <<ClampCellAxis(position[1], DimX), ClampCellAxis(position[2], DimY)>>

CellKey(coord) == coord[1] + coord[2] * DimX
KeyFor(position) == CellKey(CellCoord(position))
CellKeys == 0..DimX * DimY - 1

-----------------------------------------------------------------------------
(* Building. *)

\* The order of sort_cell_entries; without identifiers sources decide.
Before(e, f, byId) ==
    \/ e[1] < f[1]
    \/ /\ e[1] = f[1]
       /\ \/ byId /\ ids[e[2]] < ids[f[2]]
          \/ (~byId \/ ids[e[2]] = ids[f[2]]) /\ e[2] < f[2]

SortCellEntries(seq, byId) == SortSeq(seq, LAMBDA e, f : Before(e, f, byId))

\* compact_cell_entries: one range for every run of equal keys.
CompactCellEntries(seq) ==
    LET starts == {i \in DOMAIN seq : i = 1 \/ seq[i - 1][1] # seq[i][1]}
        range(i) == [key |-> seq[i][1], begin |-> i,
                     count |-> Cardinality({j \in DOMAIN seq : seq[j][1] = seq[i][1]})]
    IN [n \in 1..Cardinality(starts) |-> range(SetToSortSeq(starts, <)[n])]

\* compact_bounded_cell_entries: the ranges from the counts.
Counts == [key \in CellKeys |-> Cardinality({s \in Sources : KeyFor(positions[s]) = key})]

Offset(key) == MapThenSumSet(LAMBDA k : Counts[k], {k \in CellKeys : k < key})

CompactBoundedCellEntries ==
    LET occupied == SetToSortSeq({key \in CellKeys : Counts[key] # 0}, <)
    IN [n \in DOMAIN occupied |->
            [key |-> occupied[n], begin |-> Offset(occupied[n]) + 1, count |-> Counts[occupied[n]]]]

\* fill_bounded_cell_entries: every source at the next place of its cell.
FillBoundedCellEntries ==
    LET place(s) == Offset(KeyFor(positions[s]))
                    + Cardinality({t \in 1..s : KeyFor(positions[t]) = KeyFor(positions[s])})
    IN [i \in Sources |-> LET s == CHOOSE s \in Sources : place(s) = i
                          IN <<KeyFor(positions[s]), s>>]

SortedIds == \A s \in Sources : \A t \in Sources : s < t => ids[s] <= ids[t]

\* order_bounded_cell_entries: cells are put in order unless the identifiers already are.
OrderBoundedCellEntries(filled) ==
    IF SortedIds THEN filled
    ELSE FlattenSeq([n \in 1..DimX * DimY |->
            SortCellEntries(SubSeq(filled, Offset(n - 1) + 1, Offset(n - 1) + Counts[n - 1]), TRUE)])

Commit(newEntries, newCells, byId) ==
    /\ entries' = newEntries
    /\ cells' = newCells
    /\ built' = IF byId THEN "ids" ELSE "sources"

\* build_spatial_grid_serial with identifiers.
BuildSerial ==
    /\ ~begun
    /\ LET comparison == SortCellEntries([s \in Sources |-> <<KeyFor(positions[s]), s>>], TRUE)
       IN IF DimX * DimY > MaxDenseCells
          THEN Commit(comparison, CompactCellEntries(comparison), TRUE)
          ELSE Commit(OrderBoundedCellEntries(FillBoundedCellEntries),
                      CompactBoundedCellEntries, TRUE)
    /\ UNCHANGED <<positions, ids, cellSize, shards, begun>>

\* resize_spatial_grid, between builds.
ResizeSpatialGrid(size) ==
    /\ ~begun
    /\ cellSize' = size
    /\ entries' = << >>
    /\ cells' = << >>
    /\ built' = "none"
    /\ UNCHANGED <<positions, ids, shards, begun>>

BeginSpatialGridBuild ==
    /\ begun' = TRUE
    /\ shards' = EmptyShards
    /\ entries' = << >>
    /\ cells' = << >>
    /\ built' = "none"
    /\ UNCHANGED <<positions, ids, cellSize>>

\* build_spatial_grid_worker_entries for the sources from first to last, once a build.
BuildWorkerEntries(w, first, last) ==
    /\ begun
    /\ shards[w] = << >>
    /\ first <= last
    /\ shards' = [shards EXCEPT ![w] =
            [i \in 1..last - first + 1 |-> <<KeyFor(positions[first + i - 1]), first + i - 1>>]]
    /\ UNCHANGED <<positions, ids, cellSize, entries, cells, built, begun>>

\* validate_unique_worker_entries
UniqueWorkerEntries(seq) == \A i \in 2..Len(seq) : seq[i - 1] # seq[i]

\* finish_spatial_grid_build; overlapping shards throw, and the grid stays empty. What is
\* left in the shards is dropped here: the next build clears them before it reads them.
FinishSpatialGridBuild ==
    /\ begun
    /\ LET merged == SortCellEntries(FlattenSeq(shards), FALSE)
       IN IF UniqueWorkerEntries(merged)
          THEN Commit(merged, CompactCellEntries(merged), FALSE)
          ELSE UNCHANGED <<entries, cells, built>>
    /\ begun' = FALSE
    /\ shards' = EmptyShards
    /\ UNCHANGED <<positions, ids, cellSize>>

-----------------------------------------------------------------------------
(* Queries of the committed grid. *)

Squared(p, q) == (p[1] - q[1]) * (p[1] - q[1]) + (p[2] - q[2]) * (p[2] - q[2])

InBox(p, low, high) == p[1] \in low[1]..high[1] /\ p[2] \in low[2]..high[2]

Intersects(low, high) ==
    /\ low[1] <= ExtentX /\ high[1] >= 0
    /\ low[2] <= ExtentY /\ high[2] >= 0

\* Faulty variant: only the cells that lie inside the box.
InnerCells(low, high) ==
    ((CellCoord(low)[1] + 1)..CellCoord(high)[1]) \X (CellCoord(low)[2]..CellCoord(high)[2])

QueriedCells(low, high) ==
    (CellCoord(low)[1]..CellCoord(high)[1]) \X (CellCoord(low)[2]..CellCoord(high)[2])

\* The entries of the occupied cells in the box, in the order of the callbacks.
Visited(low, high) ==
    LET keys == {CellKey(c) : c \in QueriedCells(low, high)}
        queried == SelectSeq(cells, LAMBDA cell : cell.key \in keys)
    IN IF ~Intersects(low, high) THEN << >>
       ELSE FlattenSeq([n \in DOMAIN queried |->
                SubSeq(entries, queried[n].begin, queried[n].begin + queried[n].count - 1)])

SourcesOf(seq) == [i \in DOMAIN seq |-> seq[i][2]]

QueryRadius(center, radius) ==
    SelectSeq(SourcesOf(Visited(<<center[1] - radius, center[2] - radius>>,
                                <<center[1] + radius, center[2] + radius>>)),
              LAMBDA s : Squared(positions[s], center) <= radius * radius)

QueryAabb(low, high) ==
    SelectSeq(SourcesOf(Visited(low, high)), LAMBDA s : InBox(positions[s], low, high))

-----------------------------------------------------------------------------
Places == CoordinatesX \X CoordinatesY

Init ==
    /\ positions \in [Sources -> Places]
    /\ ids \in [Sources -> Sources]
    /\ cellSize \in CellSizes
    /\ entries = << >>
    /\ cells = << >>
    /\ shards = EmptyShards
    /\ built = "none"
    /\ begun = FALSE

Next ==
    \/ BuildSerial
    \/ \E size \in CellSizes : ResizeSpatialGrid(size)
    \/ BeginSpatialGridBuild
    \/ \E w \in GridWorkers, first, last \in Sources : BuildWorkerEntries(w, first, last)
    \/ FinishSpatialGridBuild

Spec == Init /\ [][Next]_vars
=============================================================================

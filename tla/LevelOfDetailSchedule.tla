------------------------- MODULE LevelOfDetailSchedule -------------------------
(***************************************************************************)
(* The schedule of distance-band level of detail for one peer: which of    *)
(* the records in its area of interest are due, how the Incremental cap    *)
(* and its cursor rotate through those that are pending, and when each is  *)
(* due again. Distances are bands that change at will; delta selection,    *)
(* recovery upserts and deletes come after it and do not touch it.         *)
(*                                                                         *)
(* Ticks run on for ever: a due tick is how far ahead it is, 0 once        *)
(* reached, and the present tick is kept modulo Cycle, a multiple of all   *)
(* intervals.                                                              *)
(***************************************************************************)
EXTENDS Integers, FiniteSets, FiniteSetsExt

CONSTANTS
    Populations,       \* populations that the area of interest may retain
    Self,              \* interest_source.source_entity_id, 0 for an observer
    MediumInterval,    \* medium_interval_ticks
    FarInterval,       \* far_interval_ticks
    SendInterval,      \* send_interval.interval_ticks, 1 without that technique
    Incremental,       \* PipelineTechniqueFlags::Incremental
    MaxEntities,       \* incremental.max_entities_per_update
    MixedId,           \* mixed_entity_id
    Cycle,             \* a multiple of the intervals
    Bands,             \* the bands that records may be in
    MayFail            \* whether an emission may fail to be committed

Ids == UNION Populations

ScheduleAssumption ==
    /\ \A population \in Populations : population \subseteq Nat \ {0} /\ IsFiniteSet(population)
    /\ Self # 0 => \A population \in Populations : Self \in population
    /\ {MediumInterval, FarInterval, SendInterval, MaxEntities, Cycle} \subseteq Nat \ {0}
    /\ 2 <= MediumInterval /\ MediumInterval < FarInterval  \* require_level_of_detail_settings
    /\ \A interval \in {MediumInterval, FarInterval, SendInterval} : Cycle % interval = 0
    /\ Incremental \in BOOLEAN
    /\ Bands \subseteq 1..3 /\ 1 \in Bands
    /\ MixedId \in [Ids -> Nat]
    /\ MayFail \in BOOLEAN

VARIABLES
    tick,                      \* the present tick, modulo Cycle
    level_of_detail_schedule,  \* schedule entries by identifier
    incremental_cursor,
    level_of_detail_seeded,
    \* histories, by identifier
    age,                       \* ticks since the record was last serviced
    promised,                  \* the interval it was given then
    waited                     \* committed emissions it was left out of while pending

vars == <<tick, level_of_detail_schedule, incremental_cursor, level_of_detail_seeded,
          age, promised, waited>>

Near == 1
Medium == 2
Far == 3

Init ==
    /\ tick = 0
    /\ level_of_detail_schedule = << >>
    /\ incremental_cursor = 0
    /\ level_of_detail_seeded = FALSE
    /\ age = << >> /\ promised = << >> /\ waited = << >>

-----------------------------------------------------------------------------
(* The schedule. *)

\* interval_ticks
Interval(band) ==
    CASE band = Near -> 1 [] band = Medium -> MediumInterval [] band = Far -> FarInterval

\* next_due_tick, counted from the tick that is serviced.
NextDue(id, interval) ==
    LET delta == ((MixedId[id] % interval) + interval - (tick % interval)) % interval
    IN  IF delta = 0 THEN interval ELSE delta

\* classify lets distance decide, except for the player's own entity.
Classifications(population) ==
    {bands \in [population -> Bands] : Self \in population => bands[Self] = Near}

\* Faulty variant: moving to a farther band takes pending work back.
ReconciledAgain(schedule, id, band) ==
    IF id \notin DOMAIN schedule THEN [next_due |-> 0, pending_due |-> TRUE, band |-> band]
    ELSE [next_due    |-> schedule[id].next_due,
          pending_due |-> \/ schedule[id].pending_due /\ band <= schedule[id].band
                          \/ band < schedule[id].band
                          \/ schedule[id].next_due = 0 /\ band <= schedule[id].band,
          band        |-> band]

\* reconcile_schedule: new records are due at once, records that came nearer as well, and
\* what is due stays pending.
Reconciled(schedule, id, band) ==
    IF id \notin DOMAIN schedule THEN [next_due |-> 0, pending_due |-> TRUE, band |-> band]
    ELSE [next_due    |-> schedule[id].next_due,
          pending_due |-> \/ schedule[id].pending_due
                          \/ band < schedule[id].band
                          \/ schedule[id].next_due = 0,
          band        |-> band]

ReconcileSchedule(population, bands) ==
    [id \in population |-> Reconciled(level_of_detail_schedule, id, bands[id])]

-----------------------------------------------------------------------------
(* Selection. *)

\* The index of a record in the present population.
IndexOf(schedule, id) == Cardinality({other \in DOMAIN schedule : other < id})

\* The place of a record in the scan, which starts at the cursor and goes around.
Place(schedule, id) ==
    LET size == Cardinality(DOMAIN schedule)
    IN  (IndexOf(schedule, id) + size - (incremental_cursor % size)) % size

\* select_pending_indices without the player's own entity.
Ordinary(schedule) ==
    LET pending == {id \in DOMAIN schedule \ {Self} : schedule[id].pending_due}
        Before(id) == {other \in pending : Place(schedule, other) < Place(schedule, id)}
    IN  IF Incremental THEN {id \in pending : Cardinality(Before(id)) < MaxEntities}
        ELSE pending

Selected(schedule) == Ordinary(schedule) \cup ({Self} \cap DOMAIN schedule)

\* The index behind the last one selected.
CursorAfter(schedule) ==
    LET ordinary == Ordinary(schedule)
        last == CHOOSE id \in ordinary :
                    \A other \in ordinary : Place(schedule, other) <= Place(schedule, id)
    IN  IF ~Incremental \/ ordinary = {} THEN incremental_cursor
        ELSE (IndexOf(schedule, last) + 1) % Cardinality(DOMAIN schedule)

\* service_selected_indices
Serviced(schedule, selected) ==
    [id \in DOMAIN schedule |->
        IF id \notin selected THEN schedule[id]
        ELSE [schedule[id] EXCEPT !.pending_due = FALSE,
                                  !.next_due = NextDue(id, Interval(schedule[id].band))]]

\* service_full_replace: every record was due and is serviced.
ServiceFullReplace(schedule) ==
    Serviced([id \in DOMAIN schedule |-> [schedule[id] EXCEPT !.pending_due = TRUE]],
             DOMAIN schedule)

-----------------------------------------------------------------------------
(* Ticks. *)

\* The bounds of the documentation for a schedule.
ServiceBound(schedule) ==
    IF Incremental THEN (Cardinality(DOMAIN schedule) + MaxEntities - 1) \div MaxEntities ELSE 1

AgeBound(schedule, interval) == interval + ServiceBound(schedule) * SendInterval

\* One tick passes. Ages are counted up to one past the largest bound.
Elapsed(schedule) ==
    [id \in DOMAIN schedule |-> [schedule[id] EXCEPT !.next_due = IF @ = 0 THEN 0 ELSE @ - 1]]

Older(ages) ==
    LET largest == FarInterval + Cardinality(Ids) * SendInterval + 1
    IN  [id \in DOMAIN ages |-> Min({ages[id] + 1, largest})]

\* An emission that was committed: the records it serviced and the cursor behind them.
Commit(schedule, serviced, selected, cursor) ==
    /\ level_of_detail_schedule' = Elapsed(serviced)
    /\ incremental_cursor' = cursor
    /\ level_of_detail_seeded' = TRUE
    /\ age' = Older([id \in DOMAIN schedule |->
                  IF id \in selected \/ id \notin DOMAIN age THEN 0 ELSE age[id]])
    /\ promised' = [id \in DOMAIN schedule |->
                       IF id \in selected \/ id \notin DOMAIN promised
                       THEN Interval(schedule[id].band) ELSE promised[id]]
    /\ waited' = [id \in DOMAIN schedule |->
                     IF ~serviced[id].pending_due THEN 0
                     ELSE IF id \in DOMAIN waited
                     THEN Min({waited[id] + 1, Cardinality(Ids) + 1}) ELSE 1]

\* The encoder worked on a copy of the state, which is dropped.
Drop ==
    /\ level_of_detail_schedule' = Elapsed(level_of_detail_schedule)
    /\ age' = Older(age)
    /\ UNCHANGED <<incremental_cursor, level_of_detail_seeded, promised, waited>>

NextTick == tick' = (tick + 1) % Cycle

\* Without a first FullReplace, or forced to recover, the whole population is emitted.
Emission(force_full_replace, population, bands) ==
    LET schedule == ReconcileSchedule(population, bands)
    IN  IF force_full_replace \/ ~level_of_detail_seeded
        THEN Commit(schedule, ServiceFullReplace(schedule), population, incremental_cursor)
        ELSE Commit(schedule, Serviced(schedule, Selected(schedule)), Selected(schedule),
                    CursorAfter(schedule))

\* encode_snapshot_unchecked of a tick that emits.
Emit ==
    /\ tick % SendInterval = 0
    /\ \/ \E force_full_replace \in BOOLEAN, population \in Populations :
            \E bands \in Classifications(population) : Emission(force_full_replace, population, bands)
       \/ MayFail /\ Drop
    /\ NextTick

\* should_emit_snapshot says no.
Skip ==
    /\ tick % SendInterval # 0
    /\ Drop
    /\ NextTick

Next == Emit \/ Skip

Spec == Init /\ [][Next]_vars
-----------------------------------------------------------------------------
(* Properties. *)

\* The schedule has the records of the population and nothing else, and nothing lies further
\* ahead than the interval of a band.
TypeOK ==
    /\ tick \in 0..(Cycle - 1)
    /\ level_of_detail_schedule = << >> \/ DOMAIN level_of_detail_schedule \in Populations
    /\ \A id \in DOMAIN level_of_detail_schedule :
        LET entry == level_of_detail_schedule[id] IN
        /\ entry.band \in Bands
        /\ entry.pending_due \in BOOLEAN
        /\ entry.next_due \in 0..FarInterval
    /\ incremental_cursor \in Nat
    /\ level_of_detail_schedule # << >> => level_of_detail_seeded

\* src/src/pipeline/README.md:92: due work is serviced within ceil(N / K) committed emissions,
\* however bands oscillate, emissions fail and FullReplaces come between: a record was left
\* out of fewer.
DueWorkServiced ==
    \A id \in DOMAIN waited : waited[id] < ServiceBound(level_of_detail_schedule)

\* The scheduling-age bound stated there, of a schedule whose emissions are committed: the
\* interval of the band in which the record was last serviced and the emissions it may wait
\* for, also when it has come nearer or moved away since.
AgeBounded ==
    \A id \in DOMAIN age : age[id] <= AgeBound(level_of_detail_schedule, promised[id])

\* The documented bounds on emissions and, unless emissions fail, on age.
ScheduleKept == TypeOK /\ DueWorkServiced /\ (MayFail \/ AgeBounded)
=============================================================================

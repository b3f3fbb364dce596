---------------------- MODULE SnapshotReplicationTheorems ----------------------
(***************************************************************************)
(* Snapshot replication to one peer is safe for every technique, delivery  *)
(* mode, bound and population: the types, what the client holds, what the  *)
(* server believes the client holds, and ReplicaStream.                    *)
(***************************************************************************)
EXTENDS SnapshotReplication, SequenceTheorems, FiniteSetTheorems, WellFoundedInduction, TLAPS

-----------------------------------------------------------------------------
(* Snapshots: the operators stay within Snapshots and Updates, capacities   *)
(* are natural numbers, and an update over its own baseline reconstructs    *)
(* the snapshot it was made from.                                           *)

\* The snapshot of no entity is a snapshot.
LEMMA EmptySnapshotType == EmptySnapshot \in Snapshots
<1>1. EmptySnapshot \in [{} -> States]
  BY DEF EmptySnapshot
<1> QED
  BY <1>1 DEF Snapshots

\* A snapshot holds finitely many entities, each of them in some state.
LEMMA SnapshotDomain ==
  ASSUME NEW s \in Snapshots
  PROVE  /\ DOMAIN s \subseteq Entities
         /\ s \in [DOMAIN s -> States]
         /\ IsFiniteSet(DOMAIN s)
         /\ Cardinality(DOMAIN s) \in Nat
<1>1. PICK population \in SUBSET Entities : s \in [population -> States]
  BY DEF Snapshots
<1>2. DOMAIN s \subseteq Entities /\ s \in [DOMAIN s -> States]
  BY <1>1
<1>3. IsFiniteSet(DOMAIN s)
  BY <1>2, FS_Subset, EntitiesAssumption
<1>4. Cardinality(DOMAIN s) \in Nat
  BY <1>3, FS_CardinalityType
<1> QED
  BY <1>2, <1>3, <1>4

\* Any function from some of the entities to states is a snapshot.
LEMMA SnapshotIntro ==
  ASSUME NEW population \in SUBSET Entities, NEW s \in [population -> States]
  PROVE  s \in Snapshots
BY DEF Snapshots

\* Selecting records by identifier yields a snapshot.
LEMMA RestrictedType ==
  ASSUME NEW s \in Snapshots, NEW ids
  PROVE  Restricted(s, ids) \in Snapshots
<1>1. DOMAIN s \cap ids \subseteq Entities
  BY SnapshotDomain
<1>2. Restricted(s, ids) \in [DOMAIN s \cap ids -> States]
  BY SnapshotDomain DEF Restricted
<1> QED
  BY <1>1, <1>2, SnapshotIntro

\* Patching a snapshot yields a snapshot, and so does reconstruction.
LEMMA ReconstructType ==
  ASSUME NEW baseline \in Snapshots, NEW update \in Updates
  PROVE  /\ PatchedSnapshot(baseline, update) \in Snapshots
         /\ Reconstruct(baseline, update) \in Snapshots
         /\ AppliedToWorld(baseline, update) \in Snapshots
<1>1. update.upserts \in Snapshots
  BY DEF Updates
<1> DEFINE population == (DOMAIN baseline \ update.deletes) \cup DOMAIN update.upserts
<1>2. population \subseteq Entities
  BY <1>1, SnapshotDomain
<1>3. PatchedSnapshot(baseline, update) \in [population -> States]
  BY <1>1, SnapshotDomain DEF PatchedSnapshot
<1>4. PatchedSnapshot(baseline, update) \in Snapshots
  BY <1>2, <1>3, SnapshotIntro
<1> QED
  BY <1>1, <1>4 DEF Reconstruct, AppliedToWorld

\* A reconstruction reserves a natural number of records.
LEMMA ReconstructionCapacityType ==
  ASSUME NEW baseline \in Snapshots, NEW update \in Updates
  PROVE  ReconstructionCapacity(baseline, update) \in Nat
<1>1. update.upserts \in Snapshots
  BY DEF Updates
<1>2. Cardinality(DOMAIN update.upserts) \in Nat /\ Cardinality(DOMAIN baseline) \in Nat
  BY <1>1, SnapshotDomain
<1> QED
  BY <1>2 DEF ReconstructionCapacity

\* A FullReplace is an update; every client reconstructs its snapshot from it,
\* whatever it held, and applying it leaves the world holding that snapshot.
LEMMA FullReplaceFacts ==
  ASSUME NEW s \in Snapshots, NEW baseline
  PROVE  /\ FullReplaceOf(s) \in Updates
         /\ Reconstruct(baseline, FullReplaceOf(s)) = s
         /\ AppliedToWorld(baseline, FullReplaceOf(s)) = s
BY DEF FullReplaceOf, Updates, Kinds, Reconstruct, AppliedToWorld

\* A scheduled Patch is an update.
LEMMA ScheduledPatchType ==
  ASSUME NEW current \in Snapshots, NEW baseline \in Snapshots,
         NEW scheduled, NEW changedOnly
  PROVE  ScheduledPatch(current, baseline, scheduled, changedOnly) \in Updates
<1>1. RemovedIds(current, baseline) \in SUBSET Entities
  BY SnapshotDomain DEF RemovedIds
<1>2. /\ Restricted(current, scheduled \cap ChangedIds(current, baseline)) \in Snapshots
      /\ Restricted(current, scheduled) \in Snapshots
  BY RestrictedType
<1> QED
  BY <1>1, <1>2 DEF ScheduledPatch, Updates, Kinds

\* Delta filtering loses nothing (encode_snapshot_unchecked, select_delta_records):
\* when every record is scheduled, the Patch that carries only the changed ones
\* and the removed identifiers reconstructs the current snapshot exactly.
THEOREM DeltaRoundTrip ==
  ASSUME NEW current \in Snapshots, NEW baseline \in Snapshots
  PROVE  Reconstruct(baseline, ScheduledPatch(current, baseline, DOMAIN current, TRUE))
           = current
<1> DEFINE patch == ScheduledPatch(current, baseline, DOMAIN current, TRUE)
           result == PatchedSnapshot(baseline, patch)
<1>1. /\ DOMAIN patch.upserts = ChangedIds(current, baseline)
      /\ patch.deletes = RemovedIds(current, baseline)
      /\ \A e \in DOMAIN patch.upserts : patch.upserts[e] = current[e]
  BY DEF ScheduledPatch, Restricted, ChangedIds
<1>2. DOMAIN result = DOMAIN current
  BY <1>1 DEF PatchedSnapshot, ChangedIds, RemovedIds
<1>3. \A e \in DOMAIN current : result[e] = current[e]
  BY <1>1 DEF PatchedSnapshot, ChangedIds, RemovedIds
<1>4. current \in [DOMAIN current -> States]
  BY SnapshotDomain
<1>5. result = [e \in DOMAIN current |-> result[e]]
  BY <1>2 DEF PatchedSnapshot
<1>6. result = current
  BY <1>3, <1>4, <1>5
<1> QED
  BY <1>6 DEF Reconstruct, ScheduledPatch

-----------------------------------------------------------------------------
(* The operations on SnapshotDeliveryState, for every value of its bounds. *)

\* Min picks a least element of a nonempty set of natural numbers.
LEMMA MinIn ==
  ASSUME NEW S \in SUBSET Nat, S # {}
  PROVE  Min(S) \in S /\ \A y \in S : Min(S) <= y
<1>1. \E x \in S : \A y \in S : x <= y
  <2>1. IsWellFoundedOn(OpToRel(<, Nat), Nat)
    BY NatLessThanWellFounded
  <2>2. PICK x \in S : \A y \in S : ~ (<<y, x>> \in OpToRel(<, Nat))
    BY <2>1, WFMin
  <2>3. \A y \in S : ~ (y < x)
    BY <2>2 DEF OpToRel
  <2> QED
    BY <2>3
<1> QED
  BY <1>1 DEF Min

\* What the elements of a sequence of results are.
LEMMA ResultsElements ==
  ASSUME NEW results \in Seq(Results)
  PROVE  /\ Len(results) \in Nat
         /\ \A n \in 1..Len(results) :
               /\ results[n] \in Results
               /\ results[n].capacity_bytes \in Nat
<1>1. Len(results) \in Nat /\ \A n \in 1..Len(results) : results[n] \in Results
  OBVIOUS
<1>2. \A r \in Results : r.capacity_bytes \in Nat
  BY DEF Results
<1> QED
  BY <1>1, <1>2

\* The running totals of capacities, the recursion of CapacityOf.
Totals(results, g) ==
    g = [n \in 0..Len(results) |->
            IF n = 0 THEN 0 ELSE g[n - 1] + results[n].capacity_bytes]

\* g holds the first k running totals.
PartialTotals(results, k, g) ==
    /\ g \in [0..k -> Nat]
    /\ \A n \in 0..k : g[n] = IF n = 0 THEN 0 ELSE g[n - 1] + results[n].capacity_bytes

\* Running totals can be extended by one result.
LEMMA TotalsExtend ==
  ASSUME NEW results \in Seq(Results), NEW k \in 1..Len(results),
         NEW g, PartialTotals(results, k - 1, g)
  PROVE  \E h : PartialTotals(results, k, h)
<1> DEFINE h == [n \in 0..k |-> IF n = k THEN g[k - 1] + results[k].capacity_bytes ELSE g[n]]
<1>1. k \in Nat /\ k > 0 /\ results[k].capacity_bytes \in Nat
  BY ResultsElements
<1>2. g \in [0..(k - 1) -> Nat]
  BY DEF PartialTotals
<1>3. h \in [0..k -> Nat]
  BY <1>1, <1>2
<1>4. \A n \in 0..k : h[n] = IF n = 0 THEN 0 ELSE h[n - 1] + results[n].capacity_bytes
  BY <1>1, <1>2 DEF PartialTotals
<1> QED
  BY <1>3, <1>4 DEF PartialTotals

\* Running totals exist for every sequence of results.
LEMMA TotalsExist ==
  ASSUME NEW results \in Seq(Results)
  PROVE  \E g : Totals(results, g)
<1> DEFINE Missing == {k \in 0..Len(results) : ~ \E g : PartialTotals(results, k, g)}
<1>1. Len(results) \in Nat
  OBVIOUS
<1>2. Missing = {}
  <2> SUFFICES ASSUME Missing # {} PROVE FALSE
    OBVIOUS
  <2>1. Missing \in SUBSET Nat
    BY <1>1
  <2> DEFINE k == Min(Missing)
  <2>2. k \in Missing /\ \A y \in Missing : k <= y
    BY <2>1, MinIn
  <2> HIDE DEF k
  <2>3. CASE k = 0
    <3>1. PartialTotals(results, 0, [n \in 0..0 |-> 0])
      BY DEF PartialTotals
    <3> QED
      BY <2>2, <2>3, <3>1
  <2>4. CASE k # 0
    <3>1. k - 1 \in 0..Len(results) /\ k \in 1..Len(results) /\ ~ (k <= k - 1)
      BY <1>1, <2>2, <2>4
    <3>2. \E g : PartialTotals(results, k - 1, g)
      BY <2>2, <3>1
    <3> QED
      BY <2>2, <3>1, <3>2, TotalsExtend
  <2> QED
    BY <2>3, <2>4
<1>3. Len(results) \in 0..Len(results)
  BY <1>1
<1>4. PICK g : PartialTotals(results, Len(results), g)
  BY <1>2, <1>3
<1>5. g = [n \in 0..Len(results) |->
              IF n = 0 THEN 0 ELSE g[n - 1] + results[n].capacity_bytes]
  BY <1>4 DEF PartialTotals
<1> QED
  BY <1>5 DEF Totals

\* Running totals are natural numbers, each the one before it and a capacity.
LEMMA TotalsType ==
  ASSUME NEW results \in Seq(Results), NEW g, Totals(results, g)
  PROVE  /\ \A n \in 0..Len(results) : g[n] \in Nat
         /\ g[0] = 0
         /\ \A n \in 1..Len(results) : g[n] = g[n - 1] + results[n].capacity_bytes
<1> DEFINE Bad == {n \in 0..Len(results) : g[n] \notin Nat}
<1>1. Len(results) \in Nat /\ \A n \in 1..Len(results) : results[n].capacity_bytes \in Nat
  BY ResultsElements
<1>2. Bad = {}
  <2> SUFFICES ASSUME Bad # {} PROVE FALSE
    OBVIOUS
  <2>1. Bad \in SUBSET Nat
    BY <1>1
  <2>2. PICK n \in Bad : \A y \in Bad : n <= y
    BY <2>1, MinIn
  <2>3. g[n] = IF n = 0 THEN 0 ELSE g[n - 1] + results[n].capacity_bytes
    BY <2>2 DEF Totals
  <2>4. n # 0 => n - 1 \in 0..Len(results) /\ n - 1 \notin Bad
    BY <1>1, <2>2
  <2> QED
    BY <1>1, <2>2, <2>3, <2>4
<1>3. g[0] = 0 /\ \A n \in 1..Len(results) : g[n] = g[n - 1] + results[n].capacity_bytes
  BY <1>1 DEF Totals
<1> QED
  BY <1>1, <1>2, <1>3

\* The capacity of a sequence is the last of some running totals of it.
LEMMA CapacityIsTotal ==
  ASSUME NEW results \in Seq(Results)
  PROVE  \E g : Totals(results, g) /\ CapacityOf(results) = g[Len(results)]
<1>1. Totals(results, CHOOSE g : Totals(results, g))
  BY TotalsExist
<1>2. CapacityOf(results) = (CHOOSE g : Totals(results, g))[Len(results)]
  BY DEF CapacityOf, Totals
<1> QED
  BY <1>1, <1>2

\* The capacity of a sequence of results is a natural number.
LEMMA CapacityOfType ==
  ASSUME NEW results \in Seq(Results)
  PROVE  CapacityOf(results) \in Nat
<1>1. Len(results) \in 0..Len(results)
  OBVIOUS
<1> QED
  BY <1>1, CapacityIsTotal, TotalsType

\* The whole sequence has the part after its first results.
HasPart(whole, part, first) ==
    /\ first \in Nat /\ first + Len(part) <= Len(whole)
    /\ \A i \in 1..Len(part) : part[i] = whole[i + first]

\* Where two sequences have the same results, the running totals grow by the same.
LEMMA TotalsShift ==
  ASSUME NEW whole \in Seq(Results), NEW part \in Seq(Results), NEW first, HasPart(whole, part, first),
         NEW g, Totals(whole, g), NEW h, Totals(part, h)
  PROVE  h[Len(part)] = g[first + Len(part)] - g[first]
<1> DEFINE Bad == {n \in 0..Len(part) : h[n] # g[first + n] - g[first]}
<1>1. Len(part) \in Nat /\ Len(whole) \in Nat
  OBVIOUS
<1> USE DEF HasPart
<1>2. /\ \A n \in 0..Len(part) : h[n] \in Nat
      /\ h[0] = 0
      /\ \A n \in 1..Len(part) : h[n] = h[n - 1] + part[n].capacity_bytes
  BY TotalsType
<1>3. /\ \A n \in 0..Len(whole) : g[n] \in Nat
      /\ \A n \in 1..Len(whole) : g[n] = g[n - 1] + whole[n].capacity_bytes
  BY TotalsType
<1>4. Bad = {}
  <2> SUFFICES ASSUME Bad # {} PROVE FALSE
    OBVIOUS
  <2>1. Bad \in SUBSET Nat
    BY <1>1
  <2>2. PICK n \in Bad : \A y \in Bad : n <= y
    BY <2>1, MinIn
  <2>3. n \in 0..Len(part) /\ first + n \in 0..Len(whole) /\ first \in 0..Len(whole)
    BY <1>1, <2>2
  <2>4. CASE n = 0
    BY <1>2, <1>3, <2>2, <2>3, <2>4
  <2>5. CASE n # 0
    <3>1. n \in 1..Len(part) /\ n - 1 \in 0..Len(part) /\ n - 1 \notin Bad
      BY <1>1, <2>2, <2>3, <2>5
    <3>2. h[n - 1] = g[first + (n - 1)] - g[first]
      BY <3>1
    <3>3. first + n \in 1..Len(whole) /\ first + (n - 1) \in 0..Len(whole)
          /\ (first + n) - 1 = first + (n - 1) /\ n + first = first + n
      BY <1>1, <2>3, <3>1
    <3>4. g[first + n] = g[first + (n - 1)] + part[n].capacity_bytes
      BY <1>3, <3>1, <3>3
    <3>5. h[n] = h[n - 1] + part[n].capacity_bytes
      BY <1>2, <3>1
    <3>6. part[n].capacity_bytes \in Nat
      BY <3>1, ResultsElements
    <3> HIDE DEF Bad
    <3>7. h[n] = g[first + n] - g[first]
      <4>1. h[n - 1] \in Nat /\ g[first + (n - 1)] \in Nat /\ g[first] \in Nat
        BY <1>2, <1>3, <2>3, <3>1, <3>3
      <4>2. PICK before, at, base, added, sum, later :
              /\ before = h[n - 1] /\ at = g[first + (n - 1)] /\ base = g[first]
              /\ added = part[n].capacity_bytes /\ sum = h[n] /\ later = g[first + n]
        OBVIOUS
      <4>3. /\ before \in Nat /\ at \in Nat /\ base \in Nat /\ added \in Nat
            /\ before = at - base /\ sum = before + added /\ later = at + added
        BY ONLY <3>2, <3>4, <3>5, <3>6, <4>1, <4>2
      <4>4. sum = later - base
        BY ONLY <4>3
      <4> QED
        BY ONLY <4>2, <4>4
    <3> QED
      BY <2>2, <3>7 DEF Bad
  <2> QED
    BY <2>4, <2>5
<1> QED
  BY <1>1, <1>4

-----------------------------------------------------------------------------
(* The queue of results. *)

\* Evicting from the front leaves the rest of the queue, in order; both parts
\* are sequences of what the queue was a sequence of.
LEMMA WithoutFirstFacts ==
  ASSUME NEW T, NEW queue \in Seq(T), NEW n \in 0..Len(queue)
  PROVE  /\ WithoutFirst(queue, n) \in Seq(T)
         /\ Len(WithoutFirst(queue, n)) = Len(queue) - n
         /\ \A i \in 1..(Len(queue) - n) : WithoutFirst(queue, n)[i] = queue[i + n]
         /\ SubSeq(queue, 1, n) \in Seq(T)
<1>1. Len(queue) \in Nat /\ n \in Nat /\ n <= Len(queue)
  OBVIOUS
<1>2. \A i \in 1..Len(queue) : queue[i] \in T
  OBVIOUS
<1>3. SubSeq(queue, n + 1, Len(queue)) \in Seq(T)
  BY <1>1, <1>2, SubSeqProperties
<1>4. /\ Len(SubSeq(queue, n + 1, Len(queue))) = Len(queue) - n
      /\ \A i \in 1..(Len(queue) - n) :
            SubSeq(queue, n + 1, Len(queue))[i] = queue[i + n]
  BY <1>1, <1>2, SubSeqProperties
<1>5. SubSeq(queue, 1, n) \in Seq(T)
  BY <1>1, <1>2, SubSeqProperties
<1> QED
  BY <1>3, <1>4, <1>5 DEF WithoutFirst

\* The capacities of the results before and after a place add up to that of all.
LEMMA CapacitySplit ==
  ASSUME NEW results \in Seq(Results), NEW n \in 0..Len(results)
  PROVE  /\ CapacityOf(SubSeq(results, 1, n)) + CapacityOf(WithoutFirst(results, n)) = CapacityOf(results)
         /\ n # 0 => results[n].capacity_bytes <= CapacityOf(SubSeq(results, 1, n))
<1> DEFINE front == SubSeq(results, 1, n)
           back  == WithoutFirst(results, n)
<1>1. Len(results) \in Nat /\ n \in Nat /\ n <= Len(results)
  OBVIOUS
<1>2. back \in Seq(Results) /\ Len(back) = Len(results) - n
      /\ \A i \in 1..Len(back) : back[i] = results[i + n]
  BY <1>1, WithoutFirstFacts
<1>3. front \in Seq(Results) /\ Len(front) = n /\ \A i \in 1..Len(front) : front[i] = results[i + 0]
  BY <1>1, SubSeqProperties
<1> HIDE DEF front, back
<1>4. PICK g : Totals(results, g) /\ CapacityOf(results) = g[Len(results)]
  BY CapacityIsTotal
<1>5. PICK h : Totals(front, h) /\ CapacityOf(front) = h[Len(front)]
  BY <1>3, CapacityIsTotal
<1>6. PICK k : Totals(back, k) /\ CapacityOf(back) = k[Len(back)]
  BY <1>2, CapacityIsTotal
<1>7. h[Len(front)] = g[0 + Len(front)] - g[0]
  <2>1. HasPart(results, front, 0)
    BY <1>1, <1>3 DEF HasPart
  <2> QED
    BY <1>3, <1>4, <1>5, <2>1, TotalsShift
<1>8. k[Len(back)] = g[n + Len(back)] - g[n]
  <2>1. HasPart(results, back, n)
    BY <1>1, <1>2 DEF HasPart
  <2> QED
    <3>1. results \in Seq(Results)
      OBVIOUS
    <3>2. /\ back \in Seq(Results) /\ HasPart(results, back, n)
          /\ Totals(results, g) /\ Totals(back, k)
      BY ONLY <1>2, <1>4, <1>6, <2>1
    <3> QED
      BY ONLY <3>1, <3>2, TotalsShift
<1>9. /\ g[0] = 0 /\ g[n] \in Nat /\ g[Len(results)] \in Nat
      /\ n # 0 => g[n] = g[n - 1] + results[n].capacity_bytes /\ g[n - 1] \in Nat
  BY <1>1, <1>4, TotalsType
<1>10. 0 + Len(front) = n /\ n + Len(back) = Len(results)
  BY <1>1, <1>2, <1>3
<1>11. n # 0 => results[n].capacity_bytes \in Nat
  BY <1>1, ResultsElements
<1>12. CapacityOf(front) = g[n] /\ CapacityOf(back) = g[Len(results)] - g[n]
  BY <1>5, <1>6, <1>7, <1>8, <1>9, <1>10
<1>13. n # 0 => results[n].capacity_bytes <= g[n]
  BY <1>9, <1>11
<1> QED
  BY <1>4, <1>9, <1>12, <1>13 DEF front, back

\* One more result adds its capacity.
LEMMA CapacityAppend ==
  ASSUME NEW results \in Seq(Results), NEW result \in Results
  PROVE  CapacityOf(Append(results, result)) = CapacityOf(results) + result.capacity_bytes
<1> DEFINE more == Append(results, result)
           n == Len(results)
<1>1. /\ more \in Seq(Results) /\ n \in Nat /\ Len(more) = n + 1 /\ more[n + 1] = result
      /\ \A i \in 1..n : results[i] = more[i + 0]
  OBVIOUS
<1>2. result.capacity_bytes \in Nat
  BY DEF Results
<1>3. PICK g : Totals(more, g) /\ CapacityOf(more) = g[Len(more)]
  BY <1>1, CapacityIsTotal
<1>4. PICK h : Totals(results, h) /\ CapacityOf(results) = h[n]
  BY CapacityIsTotal
<1> HIDE DEF more
<1>5. h[n] = g[0 + n] - g[0]
  <2>1. HasPart(more, results, 0)
    BY <1>1 DEF HasPart
  <2> QED
    BY <1>1, <1>3, <1>4, <2>1, TotalsShift
<1>6. g[0] = 0 /\ g[n] \in Nat /\ g[n + 1] = g[(n + 1) - 1] + more[n + 1].capacity_bytes
  BY <1>1, <1>3, TotalsType
<1>7. 0 + n = n /\ (n + 1) - 1 = n
  BY <1>1
<1> QED
  BY <1>1, <1>2, <1>3, <1>4, <1>5, <1>6, <1>7 DEF more

\* Nothing takes no capacity.
LEMMA CapacityOfNone == CapacityOf(<< >>) = 0
<1>1. << >> \in Seq(Results) /\ Len(<< >>) = 0
  OBVIOUS
<1>2. PICK g : Totals(<< >>, g) /\ CapacityOf(<< >>) = g[Len(<< >>)]
  BY <1>1, CapacityIsTotal
<1> QED
  BY <1>1, <1>2, TotalsType

\* The results a delivery state holds: queued ones and the acknowledged one.
HeldResults(d) ==
    {d.submitted[i] : i \in 1..Len(d.submitted)}
      \cup (IF HasResult(d.acknowledged) THEN {d.acknowledged} ELSE {})

\* What a delivery state and the results it holds are.
LEMMA DeliveryFields ==
  ASSUME NEW d \in DeliveryStates
  PROVE  /\ d.submitted \in Seq(Results) /\ d.acknowledged \in Results
         /\ d.recovery_upserts \in Snapshots
         /\ d.retained_capacity_bytes \in Int
         /\ d.latest_submitted_sequence \in Nat
         /\ d.latest_acknowledged_sequence \in Nat
         /\ d.submissions_since_ack_progress \in Nat
         /\ d.recovery_active \in BOOLEAN /\ d.recovery_reason \in RecoveryReasons
         /\ Len(d.submitted) \in Nat
         /\ \A i \in 1..Len(d.submitted) : d.submitted[i] \in Results
         /\ HeldResults(d) \subseteq Results
<1>1. d.submitted \in Seq(Results) /\ d.acknowledged \in Results
  BY DEF DeliveryStates
<1>2. Len(d.submitted) \in Nat /\ \A i \in 1..Len(d.submitted) : d.submitted[i] \in Results
  BY <1>1
<1>3. HeldResults(d) \subseteq Results
  BY <1>1, <1>2 DEF HeldResults
<1> QED
  BY <1>1, <1>2, <1>3 DEF DeliveryStates

\* What a result's fields are.
LEMMA ResultFields ==
  ASSUME NEW r \in Results
  PROVE  /\ r.sequence \in Nat /\ r.snapshot \in Snapshots /\ r.kind \in Kinds
         /\ r.submitted_at \in Nat /\ r.capacity_bytes \in Nat
BY DEF Results

\* The empty optional is a result.
LEMMA NoResultType == NoResult \in Results /\ ~HasResult(NoResult)
BY EmptySnapshotType DEF NoResult, Results, Kinds, HasResult

\* The initial delivery state, which holds nothing.
LEMMA InitialDeliveryFacts ==
  /\ InitialDelivery \in DeliveryStates
  /\ HeldResults(InitialDelivery) = {}
<1>1. InitialDelivery \in DeliveryStates
  BY EmptySnapshotType, NoResultType DEF InitialDelivery, DeliveryStates, RecoveryReasons
<1>2. InitialDelivery.submitted = << >> /\ ~HasResult(InitialDelivery.acknowledged)
  BY NoResultType DEF InitialDelivery
<1> QED
  BY <1>1, <1>2 DEF HeldResults

-----------------------------------------------------------------------------
(* The operations: each keeps the type and holds on to nothing but what was  *)
(* held before and, for a commit, the submitted result.                      *)

\* Entering recovery only sets the flag and the reason.
LEMMA EnterSnapshotRecoveryFacts ==
  ASSUME NEW d \in DeliveryStates, NEW reason \in RecoveryReasons
  PROVE  LET e == EnterSnapshotRecovery(d, reason)
         IN  /\ e \in DeliveryStates
             /\ HeldResults(e) = HeldResults(d)
             /\ e.submitted = d.submitted /\ e.acknowledged = d.acknowledged
             /\ e.latest_submitted_sequence = d.latest_submitted_sequence
             /\ e.latest_acknowledged_sequence = d.latest_acknowledged_sequence
             /\ e.recovery_active
<1> DEFINE e == EnterSnapshotRecovery(d, reason)
<1>1. /\ e.submitted = d.submitted /\ e.acknowledged = d.acknowledged
      /\ e.latest_submitted_sequence = d.latest_submitted_sequence
      /\ e.latest_acknowledged_sequence = d.latest_acknowledged_sequence
      /\ e.recovery_active
  BY DEF EnterSnapshotRecovery, DeliveryStates
<1>2. e \in DeliveryStates
  BY DEF EnterSnapshotRecovery, DeliveryStates
<1>3. HeldResults(e) = HeldResults(d)
  BY <1>1 DEF HeldResults
<1> QED
  BY <1>1, <1>2, <1>3

\* Discarding drops the acknowledged result and enters recovery.
LEMMA DiscardAcknowledgedReplicaFacts ==
  ASSUME NEW d \in DeliveryStates, NEW reason \in RecoveryReasons
  PROVE  LET e == DiscardAcknowledgedReplica(d, reason)
         IN  /\ e \in DeliveryStates
             /\ HeldResults(e) \subseteq HeldResults(d)
             /\ e.submitted = d.submitted /\ e.acknowledged = NoResult
             /\ e.latest_submitted_sequence = d.latest_submitted_sequence
             /\ e.latest_acknowledged_sequence = d.latest_acknowledged_sequence
             /\ e.recovery_active
<1> DEFINE b == [d EXCEPT !.acknowledged = NoResult,
                          !.retained_capacity_bytes = @ - d.acknowledged.capacity_bytes,
                          !.recovery_upserts = EmptySnapshot]
           e == DiscardAcknowledgedReplica(d, reason)
<1>1. d.retained_capacity_bytes - d.acknowledged.capacity_bytes \in Int
  BY DeliveryFields, ResultFields
<1>2. b \in DeliveryStates
  BY <1>1, EmptySnapshotType, NoResultType DEF DeliveryStates
<1>3. /\ b.submitted = d.submitted /\ b.acknowledged = NoResult
      /\ b.latest_submitted_sequence = d.latest_submitted_sequence
      /\ b.latest_acknowledged_sequence = d.latest_acknowledged_sequence
  BY DEF DeliveryStates
<1>4. e = EnterSnapshotRecovery(b, reason)
  BY DEF DiscardAcknowledgedReplica
<1>5. HeldResults(b) \subseteq HeldResults(d)
  BY <1>3, NoResultType DEF HeldResults
<1> HIDE DEF b, e
<1>6. /\ e \in DeliveryStates /\ HeldResults(e) = HeldResults(b)
      /\ e.submitted = b.submitted /\ e.acknowledged = b.acknowledged
      /\ e.latest_submitted_sequence = b.latest_submitted_sequence
      /\ e.latest_acknowledged_sequence = b.latest_acknowledged_sequence
      /\ e.recovery_active
  BY <1>2, <1>4, EnterSnapshotRecoveryFacts
<1> QED
  BY <1>3, <1>5, <1>6 DEF e

\* A retention plan evicts at most the whole queue; a valid one leaves room.
LEMMA PlanSnapshotRetentionFacts ==
  ASSUME NEW d \in DeliveryStates, NEW capacity \in Nat
  PROVE  LET plan == PlanSnapshotRetention(d, capacity)
         IN  /\ plan.evict_count \in 0..Len(d.submitted)
             /\ plan.valid => RoomAfterEvicting(d, capacity, plan.evict_count)
<1> DEFINE sufficient == {n \in 0..Len(d.submitted) : RoomAfterEvicting(d, capacity, n)}
<1>1. Len(d.submitted) \in Nat
  BY DeliveryFields
<1>2. sufficient \in SUBSET Nat
  BY <1>1
<1>3. sufficient # {} => Min(sufficient) \in sufficient
  BY <1>2, MinIn
<1>4. sufficient # {} => /\ Min(sufficient) \in 0..Len(d.submitted)
                         /\ RoomAfterEvicting(d, capacity, Min(sufficient))
  BY <1>3
<1> QED
  BY <1>1, <1>4 DEF PlanSnapshotRetention

\* Merging recovery upserts touches neither the results nor the sequences.
LEMMA MergeRecoveryUpsertsFacts ==
  ASSUME NEW d \in DeliveryStates, NEW update \in Updates
  PROVE  LET e == MergeRecoveryUpserts(d, update)
         IN  /\ e \in DeliveryStates
             /\ e.submitted = d.submitted /\ e.acknowledged = d.acknowledged
             /\ e.latest_submitted_sequence = d.latest_submitted_sequence
             /\ e.latest_acknowledged_sequence = d.latest_acknowledged_sequence
             /\ d.recovery_active => e.recovery_active
<1> DEFINE population == DOMAIN d.recovery_upserts \cup DOMAIN update.upserts
           merged == [e \in population |->
                        IF e \in DOMAIN update.upserts THEN update.upserts[e]
                                                       ELSE d.recovery_upserts[e]]
           cleared == [d EXCEPT !.recovery_upserts = EmptySnapshot]
<1>1. d.recovery_upserts \in Snapshots /\ update.upserts \in Snapshots
  BY DeliveryFields DEF Updates
<1>2. population \subseteq Entities /\ merged \in [population -> States]
  BY <1>1, SnapshotDomain
<1>3. merged \in Snapshots
  BY <1>2, SnapshotIntro
<1> HIDE DEF merged
<1>4. [d EXCEPT !.recovery_upserts = merged] \in DeliveryStates
  BY <1>3 DEF DeliveryStates
<1>5. /\ cleared \in DeliveryStates
      /\ cleared.submitted = d.submitted /\ cleared.acknowledged = d.acknowledged
      /\ cleared.latest_submitted_sequence = d.latest_submitted_sequence
      /\ cleared.latest_acknowledged_sequence = d.latest_acknowledged_sequence
  BY EmptySnapshotType DEF DeliveryStates
<1> HIDE DEF cleared
<1> DEFINE overflowed == EnterSnapshotRecovery(cleared, "RetentionPressure")
<1>6. /\ overflowed \in DeliveryStates
      /\ overflowed.submitted = d.submitted /\ overflowed.acknowledged = d.acknowledged
      /\ overflowed.latest_submitted_sequence = d.latest_submitted_sequence
      /\ overflowed.latest_acknowledged_sequence = d.latest_acknowledged_sequence
      /\ overflowed.recovery_active
  BY <1>5, EnterSnapshotRecoveryFacts DEF RecoveryReasons
<1>7. MergeRecoveryUpserts(d, update) =
        IF Cardinality(DOMAIN merged) > MaximumRecoveryUpserts
        THEN overflowed ELSE [d EXCEPT !.recovery_upserts = merged]
  BY DEF MergeRecoveryUpserts, merged, cleared
<1> HIDE DEF overflowed
<1> QED
  BY <1>4, <1>6, <1>7 DEF DeliveryStates

\* A commit queues the result; the acknowledged result is not touched.
LEMMA CommitSubmittedSnapshotFacts ==
  ASSUME NEW d \in DeliveryStates, NEW result \in Results,
         NEW plan, plan.evict_count \in 0..Len(d.submitted)
  PROVE  LET e == CommitSubmittedSnapshot(d, result, plan)
         IN  /\ e \in DeliveryStates
             /\ HeldResults(e) \subseteq HeldResults(d) \cup {result}
             /\ e.acknowledged = d.acknowledged
             /\ e.latest_submitted_sequence = result.sequence
             /\ e.latest_acknowledged_sequence = d.latest_acknowledged_sequence
             /\ e.recovery_active = d.recovery_active
<1> DEFINE n == plan.evict_count
           queue == WithoutFirst(d.submitted, n)
           capacity == d.retained_capacity_bytes - CapacityOf(SubSeq(d.submitted, 1, n))
                         + result.capacity_bytes
           count == d.submissions_since_ack_progress + 1
           e == CommitSubmittedSnapshot(d, result, plan)
<1>1. /\ d.submitted \in Seq(Results) /\ d.retained_capacity_bytes \in Int
      /\ d.submissions_since_ack_progress \in Nat /\ Len(d.submitted) \in Nat
  BY DeliveryFields
<1>2. /\ queue \in Seq(Results) /\ Len(queue) = Len(d.submitted) - n
      /\ \A i \in 1..(Len(d.submitted) - n) : queue[i] = d.submitted[i + n]
      /\ CapacityOf(SubSeq(d.submitted, 1, n)) \in Nat
  BY <1>1, WithoutFirstFacts, CapacityOfType
<1>3. capacity \in Int /\ result.sequence \in Nat /\ count \in Nat
  BY <1>1, <1>2, ResultFields
<1>4. /\ Append(queue, result) \in Seq(Results)
      /\ Len(Append(queue, result)) = Len(queue) + 1
      /\ \A i \in 1..Len(queue) : Append(queue, result)[i] = queue[i]
      /\ Append(queue, result)[Len(queue) + 1] = result
  BY <1>2
<1> HIDE DEF queue, capacity, count
<1>5. e = [d EXCEPT !.submitted = Append(queue, result),
                    !.retained_capacity_bytes = capacity,
                    !.latest_submitted_sequence = result.sequence,
                    !.submissions_since_ack_progress = count]
  BY DEF CommitSubmittedSnapshot, DeliveryStates, queue, capacity, count
<1> HIDE DEF e
<1>6. e \in DeliveryStates
  BY <1>1, <1>3, <1>4, <1>5 DEF DeliveryStates
<1>7. /\ e.submitted = Append(queue, result)
      /\ e.acknowledged = d.acknowledged
      /\ e.latest_submitted_sequence = result.sequence
      /\ e.latest_acknowledged_sequence = d.latest_acknowledged_sequence
      /\ e.recovery_active = d.recovery_active
  BY <1>5 DEF DeliveryStates
<1>8. \A i \in 1..Len(e.submitted) :
         e.submitted[i] \in {d.submitted[j] : j \in 1..Len(d.submitted)} \cup {result}
  <2> TAKE i \in 1..Len(e.submitted)
  <2>1. CASE i <= Len(queue)
    <3>1. i \in 1..Len(queue) /\ i + n \in 1..Len(d.submitted)
      BY <1>1, <1>2, <2>1
    <3>2. e.submitted[i] = queue[i] /\ queue[i] = d.submitted[i + n]
      BY <1>1, <1>2, <1>4, <1>7, <3>1
    <3> QED
      BY <3>1, <3>2
  <2>2. CASE ~ (i <= Len(queue))
    <3>1. i = Len(queue) + 1
      BY <1>2, <1>4, <1>7, <2>2
    <3> QED
      BY <1>4, <1>7, <3>1
  <2> QED
    BY <2>1, <2>2
<1>9. HeldResults(e) \subseteq HeldResults(d) \cup {result}
  BY <1>7, <1>8 DEF HeldResults
<1> QED
  BY <1>6, <1>7, <1>9 DEF e

\* Promotion turns the result at index into the acknowledged one.
LEMMA PromotedDeliveryFacts ==
  ASSUME NEW d \in DeliveryStates, NEW index \in 1..Len(d.submitted)
  PROVE  LET e == PromotedDelivery(d, index)
         IN  /\ e \in DeliveryStates
             /\ HeldResults(e) \subseteq HeldResults(d)
             /\ e.acknowledged = d.submitted[index]
             /\ e.latest_submitted_sequence = d.latest_submitted_sequence
             /\ e.latest_acknowledged_sequence = d.submitted[index].sequence
             /\ d.recovery_active /\ ~e.recovery_active
                  => d.submitted[index].kind = "FullReplace"
<1> DEFINE promoted == d.submitted[index]
           remaining == WithoutFirst(d.submitted, index)
           recovered == ~d.recovery_active \/ promoted.kind = "FullReplace"
           capacity == d.retained_capacity_bytes - CapacityOf(SubSeq(d.submitted, 1, index))
                         - d.acknowledged.capacity_bytes + promoted.capacity_bytes
           upserts == IF remaining = << >> THEN EmptySnapshot
                      ELSE OutstandingRecoveryUpserts(d.recovery_upserts,
                                                      Last(remaining).snapshot,
                                                      promoted.snapshot)
           reason == IF recovered THEN "None" ELSE d.recovery_reason
           e == PromotedDelivery(d, index)
<1>1. /\ d.submitted \in Seq(Results) /\ d.retained_capacity_bytes \in Int
      /\ d.acknowledged \in Results /\ promoted \in Results
      /\ d.recovery_reason \in RecoveryReasons /\ d.recovery_active \in BOOLEAN
  BY DeliveryFields
<1>2. /\ promoted.sequence \in Nat /\ promoted.capacity_bytes \in Nat
      /\ d.acknowledged.capacity_bytes \in Nat
  BY <1>1, ResultFields
<1>3. /\ remaining \in Seq(Results) /\ Len(remaining) = Len(d.submitted) - index
      /\ \A i \in 1..(Len(d.submitted) - index) : remaining[i] = d.submitted[i + index]
      /\ CapacityOf(SubSeq(d.submitted, 1, index)) \in Nat
  <2>1. Len(d.submitted) \in Nat
    BY <1>1
  <2>2. index \in 0..Len(d.submitted)
    BY <2>1
  <2> QED
    BY <1>1, <2>2, WithoutFirstFacts, CapacityOfType
<1>4. capacity \in Int
  <2> DEFINE freed == CapacityOf(SubSeq(d.submitted, 1, index))
             before == d.retained_capacity_bytes
             old == d.acknowledged.capacity_bytes
             added == promoted.capacity_bytes
  <2>1. freed \in Nat /\ before \in Int /\ old \in Nat /\ added \in Nat
    BY <1>1, <1>2, <1>3
  <2>2. capacity = before - freed - old + added
    OBVIOUS
  <2> HIDE DEF freed, before, old, added, capacity
  <2> QED
    BY <2>1, <2>2
<1>5. upserts \in Snapshots
  <2>1. CASE remaining = << >>
    BY <2>1, EmptySnapshotType
  <2>2. CASE remaining # << >>
    <3>1. Last(remaining) \in Results
      BY <1>3, <2>2 DEF Last
    <3>2. Last(remaining).snapshot \in Snapshots
      BY <3>1, ResultFields
    <3> QED
      BY <2>2, <3>2, RestrictedType DEF OutstandingRecoveryUpserts
  <2> QED
    BY <2>1, <2>2
<1>6. reason \in RecoveryReasons /\ (~recovered) \in BOOLEAN
  <2>1. "None" \in RecoveryReasons
    BY DEF RecoveryReasons
  <2>2. reason \in RecoveryReasons
    BY <1>1, <2>1
  <2>3. (~recovered) \in BOOLEAN
    OBVIOUS
  <2> QED
    BY <2>2, <2>3
<1> HIDE DEF capacity, upserts, reason, remaining
<1>7. e = [d EXCEPT !.submitted = remaining,
                    !.acknowledged = promoted,
                    !.latest_acknowledged_sequence = promoted.sequence,
                    !.retained_capacity_bytes = capacity,
                    !.submissions_since_ack_progress = 0,
                    !.recovery_upserts = upserts,
                    !.recovery_active = ~recovered,
                    !.recovery_reason = reason]
  BY DEF PromotedDelivery, DeliveryStates, capacity, upserts, reason, remaining
<1> HIDE DEF e
<1>8. e \in DeliveryStates
  <2> HIDE DEF promoted, recovered
  <2> QED
    BY <1>1, <1>2, <1>3, <1>4, <1>5, <1>6, <1>7 DEF DeliveryStates
<1>9. /\ e.submitted = remaining
      /\ e.acknowledged = promoted
      /\ e.latest_submitted_sequence = d.latest_submitted_sequence
      /\ e.latest_acknowledged_sequence = promoted.sequence
      /\ e.recovery_active = ~recovered
  BY <1>7 DEF DeliveryStates
<1>10. \A i \in 1..Len(remaining) :
          remaining[i] \in {d.submitted[j] : j \in 1..Len(d.submitted)}
  <2> TAKE i \in 1..Len(remaining)
  <2>1. i + index \in 1..Len(d.submitted) /\ remaining[i] = d.submitted[i + index]
    BY <1>1, <1>3
  <2> QED
    BY <2>1
<1>11. HeldResults(e) \subseteq HeldResults(d)
  BY <1>9, <1>10 DEF HeldResults
<1> QED
  BY <1>1, <1>8, <1>9, <1>11 DEF e

\* What an acknowledgement can do: nothing, force recovery, or make a newer held
\* result with exactly that sequence the acknowledged one.
LEMMA PromoteSnapshotAckFacts ==
  ASSUME NEW d \in DeliveryStates, NEW sequence \in Nat
  PROVE  LET e == PromoteSnapshotAck(d, sequence)
         IN  /\ e \in DeliveryStates
             /\ HeldResults(e) \subseteq HeldResults(d)
             /\ e.latest_submitted_sequence = d.latest_submitted_sequence
             /\ \/ /\ e.acknowledged = d.acknowledged
                   /\ e.latest_acknowledged_sequence = d.latest_acknowledged_sequence
                   /\ d.recovery_active => e.recovery_active
                \/ /\ e.acknowledged.sequence = sequence
                   /\ e.latest_acknowledged_sequence = sequence
                   /\ sequence > d.latest_acknowledged_sequence
                   /\ d.recovery_active /\ ~e.recovery_active
                        => e.acknowledged.kind = "FullReplace"
<1> DEFINE positions == {i \in 1..Len(d.submitted) : d.submitted[i].sequence = sequence}
           e == PromoteSnapshotAck(d, sequence)
<1>1. Len(d.submitted) \in Nat /\ d.latest_acknowledged_sequence \in Nat
      /\ d.latest_submitted_sequence \in Nat
  BY DeliveryFields
<1>2. CASE sequence <= d.latest_acknowledged_sequence \/ sequence > d.latest_submitted_sequence
  <2>1. e = d
    BY <1>2 DEF PromoteSnapshotAck
  <2> QED
    BY <2>1
<1>3. CASE /\ ~ (sequence <= d.latest_acknowledged_sequence)
           /\ ~ (sequence > d.latest_submitted_sequence)
           /\ positions = {}
  <2>1. e = EnterSnapshotRecovery(d, "MissingRetainedResult")
    BY <1>3 DEF PromoteSnapshotAck
  <2>2. "MissingRetainedResult" \in RecoveryReasons
    BY DEF RecoveryReasons
  <2> QED
    BY <2>1, <2>2, EnterSnapshotRecoveryFacts
<1>4. CASE /\ ~ (sequence <= d.latest_acknowledged_sequence)
           /\ ~ (sequence > d.latest_submitted_sequence)
           /\ positions # {}
  <2>1. e = PromotedDelivery(d, Min(positions))
    BY <1>4 DEF PromoteSnapshotAck
  <2>2. positions \in SUBSET Nat
    BY <1>1
  <2>3. Min(positions) \in positions
    BY <1>4, <2>2, MinIn
  <2>4. /\ Min(positions) \in 1..Len(d.submitted)
        /\ d.submitted[Min(positions)].sequence = sequence
    BY <2>3
  <2> HIDE DEF positions, e
  <2>5. /\ e \in DeliveryStates
        /\ HeldResults(e) \subseteq HeldResults(d)
        /\ e.acknowledged = d.submitted[Min(positions)]
        /\ e.latest_submitted_sequence = d.latest_submitted_sequence
        /\ e.latest_acknowledged_sequence = d.submitted[Min(positions)].sequence
        /\ d.recovery_active /\ ~e.recovery_active
             => d.submitted[Min(positions)].kind = "FullReplace"
    BY <2>1, <2>4, PromotedDeliveryFacts
  <2>6. sequence > d.latest_acknowledged_sequence
    BY <1>1, <1>4
  <2> QED
    BY <2>4, <2>5, <2>6 DEF e
<1> QED
  BY <1>2, <1>3, <1>4
\* Expiry drops results from the front of the queue, and the acknowledged one.
LEMMA ExpireRetainedSnapshotsFacts ==
  ASSUME NEW d \in DeliveryStates, NEW time \in Nat
  PROVE  LET e == ExpireRetainedSnapshots(d, time)
         IN  /\ e \in DeliveryStates
             /\ HeldResults(e) \subseteq HeldResults(d)
             /\ e.acknowledged \in {d.acknowledged, NoResult}
             /\ e.latest_submitted_sequence = d.latest_submitted_sequence
             /\ e.latest_acknowledged_sequence = d.latest_acknowledged_sequence
             /\ d.recovery_active => e.recovery_active
<1> DEFINE stops == {n \in 0..Len(d.submitted) :
                        n < Len(d.submitted) => ~Expired(d.submitted[n + 1], time)}
           first == Min(stops)
           queue == WithoutFirst(d.submitted, first)
           capacity == d.retained_capacity_bytes
                         - CapacityOf(SubSeq(d.submitted, 1, first))
           trimmed == [d EXCEPT !.submitted = queue, !.retained_capacity_bytes = capacity]
           e == ExpireRetainedSnapshots(d, time)
<1>1. /\ d.submitted \in Seq(Results) /\ d.retained_capacity_bytes \in Int
      /\ Len(d.submitted) \in Nat
  BY DeliveryFields
<1>2. first \in 0..Len(d.submitted)
  <2>1. stops \in SUBSET Nat /\ Len(d.submitted) \in stops
    BY <1>1
  <2> HIDE DEF stops
  <2>2. Min(stops) \in stops
    BY <2>1, MinIn
  <2> QED
    BY <2>2 DEF stops
<1> HIDE DEF first
<1>3. /\ queue \in Seq(Results) /\ Len(queue) = Len(d.submitted) - first
      /\ \A i \in 1..(Len(d.submitted) - first) : queue[i] = d.submitted[i + first]
      /\ CapacityOf(SubSeq(d.submitted, 1, first)) \in Nat
  BY <1>1, <1>2, WithoutFirstFacts, CapacityOfType
<1>4. capacity \in Int
  BY <1>1, <1>3
<1>5. e = IF HasResult(d.acknowledged) /\ Expired(d.acknowledged, time)
          THEN DiscardAcknowledgedReplica(trimmed, "BaselineExpired") ELSE trimmed
  BY DEF ExpireRetainedSnapshots, DeliveryStates, first
<1> HIDE DEF queue, capacity
<1>6. trimmed \in DeliveryStates
  BY <1>3, <1>4 DEF DeliveryStates
<1>7. /\ trimmed.submitted = queue
      /\ trimmed.acknowledged = d.acknowledged
      /\ trimmed.latest_submitted_sequence = d.latest_submitted_sequence
      /\ trimmed.latest_acknowledged_sequence = d.latest_acknowledged_sequence
      /\ trimmed.recovery_active = d.recovery_active
  BY DEF DeliveryStates
<1>8. \A i \in 1..Len(queue) : queue[i] \in {d.submitted[j] : j \in 1..Len(d.submitted)}
  <2> TAKE i \in 1..Len(queue)
  <2>1. i + first \in 1..Len(d.submitted) /\ queue[i] = d.submitted[i + first]
    BY <1>1, <1>2, <1>3
  <2> QED
    BY <2>1
<1>9. HeldResults(trimmed) \subseteq HeldResults(d)
  <2> HIDE DEF trimmed
  <2> QED
    BY <1>7, <1>8 DEF HeldResults
<1> HIDE DEF trimmed
<1> DEFINE discarded == DiscardAcknowledgedReplica(trimmed, "BaselineExpired")
<1>10. /\ discarded \in DeliveryStates
       /\ HeldResults(discarded) \subseteq HeldResults(trimmed)
       /\ discarded.acknowledged = NoResult
       /\ discarded.latest_submitted_sequence = trimmed.latest_submitted_sequence
       /\ discarded.latest_acknowledged_sequence = trimmed.latest_acknowledged_sequence
       /\ discarded.recovery_active
  <2>1. "BaselineExpired" \in RecoveryReasons
    BY DEF RecoveryReasons
  <2> QED
    BY <1>6, <2>1, DiscardAcknowledgedReplicaFacts
<1> HIDE DEF discarded, e
<1> QED
  BY <1>5, <1>6, <1>7, <1>9, <1>10 DEF discarded, e

-----------------------------------------------------------------------------
(* The encoder. *)

\* The encoder is handed results and a snapshot.
Encodable(input) ==
    input.snapshot \in Snapshots /\ input.baseline \in Results /\ input.replica \in Results

\* The result a Patch is relative to is a result.
LEMMA PatchBaseType ==
  ASSUME NEW p, NEW input, Encodable(input)
  PROVE  PatchBase(p, input) \in Results
BY DEF PatchBase, Encodable

\* What the encoder emits is well typed.
LEMMA EncodedUpdateType ==
  ASSUME NEW p, NEW input, Encodable(input), NEW due
  PROVE  EncodedUpdate(p, input, due) \in Updates
<1>1. input.snapshot \in Snapshots /\ PatchBase(p, input).snapshot \in Snapshots
  BY PatchBaseType, ResultFields DEF Encodable
<1>2. CASE EmitPatch(p, input)
  BY <1>1, <1>2, ScheduledPatchType DEF EncodedUpdate
<1>3. CASE ~EmitPatch(p, input)
  BY <1>1, <1>3, FullReplaceFacts DEF EncodedUpdate
<1> QED
  BY <1>2, <1>3

\* The result the encoder names is exactly what a client gets that has the base:
\* from the upserts of a FullReplace, or by patching the base of a Patch.
LEMMA EncodedFacts ==
  ASSUME NEW p \in PipelineStates, NEW input, Encodable(input), NEW due
  PROVE  LET e == Encoded(p, input, due)
         IN  /\ e.sequence = p.next_sequence
             /\ e.update \in Updates
             /\ e.baseline_sequence \in Nat
             /\ e.resulting_snapshot \in Snapshots
             /\ e.capacity_bytes \in Nat
             /\ ~EmitPatch(p, input) =>
                   /\ e.update.kind = "FullReplace" /\ e.baseline_sequence = 0
                   /\ e.resulting_snapshot = e.update.upserts
             /\ EmitPatch(p, input) =>
                   /\ e.update.kind = "Patch"
                   /\ e.baseline_sequence = PatchBase(p, input).sequence
                   /\ e.resulting_snapshot
                        = PatchedSnapshot(PatchBase(p, input).snapshot, e.update)
<1> DEFINE update == EncodedUpdate(p, input, due)
           base == IF EmitPatch(p, input) THEN PatchBase(p, input) ELSE NoResult
           e == Encoded(p, input, due)
<1>1. update \in Updates
  BY EncodedUpdateType
<1>2. base \in Results
  BY PatchBaseType, NoResultType
<1>3. EmitPatch(p, input) => update.kind = "Patch"
  BY DEF EncodedUpdate, ScheduledPatch
<1>4. ~EmitPatch(p, input) => update.kind = "FullReplace" /\ base.sequence = 0
  BY DEF EncodedUpdate, FullReplaceOf, NoResult
<1>5. EmitPatch(p, input) => base = PatchBase(p, input)
  OBVIOUS
<1> HIDE DEF update, base
<1>6. /\ e.sequence = p.next_sequence /\ e.update = update
      /\ e.baseline_sequence = base.sequence
      /\ e.resulting_snapshot = Reconstruct(base.snapshot, update)
      /\ e.capacity_bytes = ReconstructionCapacity(base.snapshot, update)
  BY DEF Encoded, update, base
<1>7. base.sequence \in Nat /\ base.snapshot \in Snapshots
  BY <1>2, ResultFields
<1>8. /\ Reconstruct(base.snapshot, update) \in Snapshots
      /\ ReconstructionCapacity(base.snapshot, update) \in Nat
  BY <1>1, <1>7, ReconstructType, ReconstructionCapacityType
<1>9. /\ update.kind = "FullReplace" => Reconstruct(base.snapshot, update) = update.upserts
      /\ update.kind = "Patch" =>
            Reconstruct(base.snapshot, update) = PatchedSnapshot(base.snapshot, update)
  BY DEF Reconstruct
<1> HIDE DEF e
<1> QED
  BY <1>1, <1>3, <1>4, <1>5, <1>6, <1>7, <1>8, <1>9 DEF e

\* The encoder accepts no Patch without the result it is relative to.
LEMMA PatchBaseHeld ==
  ASSUME NEW p, NEW input, ~EncodeRejects(p, input), EmitPatch(p, input)
  PROVE  HasResult(PatchBase(p, input))
<1>1. CASE ScheduleLevelOfDetail(p, input)
  BY <1>1 DEF EncodeRejects, PatchBase
<1>2. CASE EmitDelta(p, input)
  BY <1>2 DEF EmitDelta, PatchBase
<1>3. CASE ~ScheduleLevelOfDetail(p, input) /\ ~EmitDelta(p, input)
  <2>1. ScheduleIncremental(p, input) /\ ReplicaIncremental
    BY <1>3 DEF EmitPatch, ScheduleIncremental, ReplicaIncremental
  <2>2. HasResult(input.replica)
    BY <2>1 DEF EncodeRejects
  <2> QED
    BY <1>3, <2>2 DEF PatchBase
<1> QED
  BY <1>1, <1>2, <1>3

\* The round-robin cursor stays a natural number.
LEMMA NextIncrementalCursorType ==
  ASSUME NEW snapshot \in Snapshots, NEW cursor \in Nat
  PROVE  NextIncrementalCursor(snapshot, cursor) \in Nat
<1>1. Population(snapshot) \in Nat
  BY SnapshotDomain DEF Population
<1>2. SliceSize(snapshot) \in Nat
  BY <1>1, PipelineAssumption DEF SliceSize
<1>3. CASE Population(snapshot) = 0
  BY <1>3 DEF NextIncrementalCursor
<1>4. CASE Population(snapshot) # 0
  <2> DEFINE n == Population(snapshot)
             m == cursor + SliceSize(snapshot)
  <2>1. n \in Nat \ {0} /\ m \in Nat
    BY <1>1, <1>2, <1>4
  <2> HIDE DEF n, m
  <2>2. m % n \in Nat
    BY <2>1
  <2> QED
    BY <1>4, <2>2 DEF NextIncrementalCursor, n, m
<1> QED
  BY <1>3, <1>4

\* A successful encode moves the pipeline state to the next sequence.
LEMMA AdvancedPipelineType ==
  ASSUME NEW p \in PipelineStates, NEW input, Encodable(input)
  PROVE  /\ AdvancedPipeline(p, input) \in PipelineStates
         /\ AdvancedPipeline(p, input).next_sequence = p.next_sequence + 1
<1> DEFINE cursor == IF ScheduleIncremental(p, input) /\ ~LevelOfDetail
                     THEN NextIncrementalCursor(input.snapshot, p.incremental_cursor)
                     ELSE p.incremental_cursor
           next == p.next_sequence + 1
           seededIncremental == p.incremental_seeded \/ (Incremental /\ ~EmitPatch(p, input))
           seededDetail ==
               p.level_of_detail_seeded \/ (LevelOfDetail /\ ~EmitPatch(p, input))
<1>1. p.next_sequence \in Nat \ {0} /\ p.incremental_cursor \in Nat
  BY DEF PipelineStates
<1>2. next \in Nat \ {0}
  BY <1>1
<1>3. cursor \in Nat
  BY <1>1, NextIncrementalCursorType DEF Encodable
<1>4. seededIncremental \in BOOLEAN /\ seededDetail \in BOOLEAN
  OBVIOUS
<1>5. AdvancedPipeline(p, input) =
        [next_sequence |-> next, incremental_cursor |-> cursor,
         incremental_seeded |-> seededIncremental, level_of_detail_seeded |-> seededDetail]
  BY DEF AdvancedPipeline
<1> HIDE DEF next, cursor, seededIncremental, seededDetail
<1> QED
  BY <1>2, <1>3, <1>4, <1>5 DEF PipelineStates, next

-----------------------------------------------------------------------------
(* The delivery state of a tick. *)

\* Looking for a reason to recover keeps every result.
LEMMA RecoveryCheckedFacts ==
  ASSUME NEW d \in DeliveryStates
  PROVE  LET e == RecoveryChecked(d)
         IN  /\ e \in DeliveryStates
             /\ HeldResults(e) = HeldResults(d)
             /\ e.acknowledged = d.acknowledged
             /\ e.latest_submitted_sequence = d.latest_submitted_sequence
             /\ e.latest_acknowledged_sequence = d.latest_acknowledged_sequence
             /\ d.recovery_active => e.recovery_active
<1> DEFINE e == RecoveryChecked(d)
<1>1. \E reason \in RecoveryReasons : e = d \/ e = EnterSnapshotRecovery(d, reason)
  <2>1. {"NoAcknowledgedBaseline", "AckStalled"} \subseteq RecoveryReasons
    BY DEF RecoveryReasons
  <2>2. CASE ~d.recovery_active /\ ~HasResult(d.acknowledged)
    BY <2>1, <2>2 DEF RecoveryChecked
  <2>3. CASE ~d.recovery_active /\ HasResult(d.acknowledged) /\ Stalled(d)
    BY <2>1, <2>3 DEF RecoveryChecked
  <2>4. CASE d.recovery_active \/ (HasResult(d.acknowledged) /\ ~Stalled(d))
    BY <2>1, <2>4 DEF RecoveryChecked
  <2> QED
    BY <2>2, <2>3, <2>4
<1> HIDE DEF e
<1> QED
  BY <1>1, EnterSnapshotRecoveryFacts DEF e

\* Before it encodes, a tick only drops results, or recovers.
LEMMA PreparedDeliveryFacts ==
  ASSUME delivery \in DeliveryStates, now \in Nat
  PROVE  /\ PreparedDelivery \in DeliveryStates
         /\ HeldResults(PreparedDelivery) \subseteq HeldResults(delivery)
         /\ PreparedDelivery.acknowledged \in {delivery.acknowledged, NoResult}
         /\ PreparedDelivery.latest_submitted_sequence = delivery.latest_submitted_sequence
         /\ PreparedDelivery.latest_acknowledged_sequence
              = delivery.latest_acknowledged_sequence
         /\ delivery.recovery_active => PreparedDelivery.recovery_active
<1> DEFINE a == ExpireRetainedSnapshots(delivery, now)
           b == RecoveryChecked(a)
           c == EnterSnapshotRecovery(b, "MissingRetainedResult")
<1>1. /\ a \in DeliveryStates
      /\ HeldResults(a) \subseteq HeldResults(delivery)
      /\ a.acknowledged \in {delivery.acknowledged, NoResult}
      /\ a.latest_submitted_sequence = delivery.latest_submitted_sequence
      /\ a.latest_acknowledged_sequence = delivery.latest_acknowledged_sequence
      /\ delivery.recovery_active => a.recovery_active
  BY ExpireRetainedSnapshotsFacts
<1> HIDE DEF a
<1>2. /\ b \in DeliveryStates
      /\ HeldResults(b) = HeldResults(a)
      /\ b.acknowledged = a.acknowledged
      /\ b.latest_submitted_sequence = a.latest_submitted_sequence
      /\ b.latest_acknowledged_sequence = a.latest_acknowledged_sequence
      /\ a.recovery_active => b.recovery_active
  BY <1>1, RecoveryCheckedFacts
<1> HIDE DEF b
<1>3. /\ c \in DeliveryStates
      /\ HeldResults(c) = HeldResults(b)
      /\ c.acknowledged = b.acknowledged
      /\ c.latest_submitted_sequence = b.latest_submitted_sequence
      /\ c.latest_acknowledged_sequence = b.latest_acknowledged_sequence
      /\ c.recovery_active
  BY <1>2, EnterSnapshotRecoveryFacts DEF RecoveryReasons
<1> HIDE DEF c
<1>4. PreparedDelivery = b \/ PreparedDelivery = c
  BY DEF PreparedDelivery, a, b, c
<1> QED
  BY <1>1, <1>2, <1>3, <1>4

\* The replica of the partial techniques is a held result, or none.
LEMMA LatestReplicaFacts ==
  ASSUME NEW d \in DeliveryStates
  PROVE  /\ LatestReplica(d) \in Results
         /\ HasResult(LatestReplica(d)) => LatestReplica(d) \in HeldResults(d)
<1>1. d.acknowledged \in Results /\ d.submitted \in Seq(Results)
  BY DeliveryFields
<1>2. CASE Reliable /\ d.submitted # << >>
  <2>1. Len(d.submitted) \in 1..Len(d.submitted)
    BY <1>1, <1>2
  <2>2. LatestReplica(d) = d.submitted[Len(d.submitted)]
    BY <1>2 DEF LatestReplica, Last
  <2>3. d.submitted[Len(d.submitted)] \in Results
    BY <1>1, <2>1
  <2> QED
    BY <2>1, <2>2, <2>3 DEF HeldResults
<1>3. CASE ~(Reliable /\ d.submitted # << >>)
  <2>1. LatestReplica(d) = d.acknowledged
    BY <1>3 DEF LatestReplica
  <2> QED
    BY <1>1, <2>1 DEF HeldResults
<1> QED
  BY <1>2, <1>3

\* The baseline and the replica handed to the encoder are held results, or none.
LEMMA EncodeInputFacts ==
  ASSUME NEW d \in DeliveryStates, NEW source \in Snapshots
  PROVE  LET input == EncodeInput(d, source)
         IN  /\ Encodable(input)
             /\ HasResult(input.baseline) => input.baseline \in HeldResults(d)
             /\ HasResult(input.replica) => input.replica \in HeldResults(d)
<1> DEFINE input == EncodeInput(d, source)
<1>1. /\ LatestReplica(d) \in Results /\ d.acknowledged \in Results
      /\ HasResult(LatestReplica(d)) => LatestReplica(d) \in HeldResults(d)
      /\ HasResult(d.acknowledged) => d.acknowledged \in HeldResults(d)
  BY LatestReplicaFacts, DeliveryFields DEF HeldResults
<1>2. DeltaBaseline(d) \in {NoResult, LatestReplica(d), d.acknowledged}
  <2>1. CASE d.recovery_active
    BY <2>1 DEF DeltaBaseline
  <2>2. CASE ~d.recovery_active /\ LevelOfDetail
    BY <2>2 DEF DeltaBaseline
  <2>3. CASE ~d.recovery_active /\ ~LevelOfDetail /\ Delta
    BY <2>3 DEF DeltaBaseline
  <2>4. CASE ~d.recovery_active /\ ~LevelOfDetail /\ ~Delta
    BY <2>4 DEF DeltaBaseline
  <2> QED
    BY <2>1, <2>2, <2>3, <2>4
<1>3. /\ input.snapshot = source /\ input.baseline = DeltaBaseline(d)
      /\ input.replica \in {NoResult, LatestReplica(d)}
  BY DEF EncodeInput
<1> HIDE DEF input
<1> QED
  BY <1>1, <1>2, <1>3, NoResultType DEF Encodable, input

\* Committing an emission queues its result and keeps the acknowledged one.
LEMMA CommittedDeliveryFacts ==
  ASSUME NEW d \in DeliveryStates, NEW encoded, encoded.update \in Updates,
         SubmittedResult(encoded) \in Results,
         NEW plan, plan.evict_count \in 0..Len(d.submitted)
  PROVE  LET e == CommittedDelivery(d, encoded, plan)
         IN  /\ e \in DeliveryStates
             /\ HeldResults(e) \subseteq HeldResults(d) \cup {SubmittedResult(encoded)}
             /\ e.acknowledged = d.acknowledged
             /\ e.latest_acknowledged_sequence = d.latest_acknowledged_sequence
             /\ d.recovery_active => e.recovery_active
<1> DEFINE result == SubmittedResult(encoded)
           a == IF TracksUpserts(encoded) THEN MergeRecoveryUpserts(d, encoded.update) ELSE d
           b == CommitSubmittedSnapshot(a, result, plan)
           c == EnterSnapshotRecovery(b, "AckStalled")
           e == CommittedDelivery(d, encoded, plan)
<1> HIDE DEF result
<1>1. /\ a \in DeliveryStates
      /\ a.submitted = d.submitted /\ a.acknowledged = d.acknowledged
      /\ a.latest_acknowledged_sequence = d.latest_acknowledged_sequence
      /\ d.recovery_active => a.recovery_active
  BY MergeRecoveryUpsertsFacts
<1>2. HeldResults(a) = HeldResults(d)
  BY <1>1 DEF HeldResults
<1> HIDE DEF a
<1>3. /\ b \in DeliveryStates
      /\ HeldResults(b) \subseteq HeldResults(a) \cup {result}
      /\ b.acknowledged = a.acknowledged
      /\ b.latest_acknowledged_sequence = a.latest_acknowledged_sequence
      /\ b.recovery_active = a.recovery_active
  BY <1>1, CommitSubmittedSnapshotFacts DEF result
<1> HIDE DEF b
<1>4. /\ c \in DeliveryStates
      /\ HeldResults(c) = HeldResults(b)
      /\ c.acknowledged = b.acknowledged
      /\ c.latest_acknowledged_sequence = b.latest_acknowledged_sequence
      /\ c.recovery_active
  BY <1>3, EnterSnapshotRecoveryFacts DEF RecoveryReasons
<1> HIDE DEF c
<1>5. e = b \/ e = c
  BY DEF CommittedDelivery, a, b, c, result
<1> HIDE DEF e
<1> QED
  BY <1>1, <1>2, <1>3, <1>4, <1>5 DEF e, result

-----------------------------------------------------------------------------
(* The inductive invariant.  ReplicaAgreement and WorldMatchesEmission are   *)
(* not inductive alone: they rest on what is still in flight (every update   *)
(* in the snapshot lane leads from one committed result to another), on the  *)
(* client's history ending with what it applied last, and AcknowledgedIs-    *)
(* Proven rests on the acknowledgements that have not arrived yet.           *)

\* Among the emissions, the snapshot is the result of the sequence.
CommittedAs(emissions, sequence, snapshot) ==
    sequence \in DOMAIN emissions /\ snapshot = emissions[sequence].snapshot

\* The update leads to the result committed for its sequence.
Faithful(emissions, m) ==
    \/ /\ m.update.kind = "FullReplace"
       /\ CommittedAs(emissions, m.sequence, m.update.upserts)
    \/ /\ m.update.kind = "Patch"
       /\ m.baseline_sequence \in DOMAIN emissions
       /\ CommittedAs(emissions, m.sequence,
                      PatchedSnapshot(emissions[m.baseline_sequence].snapshot, m.update))

EmissionsNumbered == pipeline.next_sequence = Len(emitted) + 1

HeldResultsCommitted == \A r \in HeldResults(delivery) : CommittedAs(emitted, r.sequence, r.snapshot)

LaneFaithful == \A i \in 1..Len(snapshot_lane) : Faithful(emitted, snapshot_lane[i])

HistoryEndsWithLatest ==
    snapshot_history # << >> => Last(snapshot_history).sequence = latest_applied_sequence

AcknowledgementsTruthful ==
    \A i \in 1..Len(input_lane) :
        input_lane[i].type = "SnapshotAck" => input_lane[i].sequence \in applied

AcknowledgedApplied ==
    HasResult(delivery.acknowledged) => delivery.acknowledged.sequence \in applied

Inv ==
    /\ TypeOK
    /\ EmissionsNumbered
    /\ HeldResultsCommitted
    /\ LaneFaithful
    /\ ReplicaAgreement
    /\ HistoryEndsWithLatest
    /\ WorldMatchesEmission
    /\ AcknowledgementsTruthful
    /\ AcknowledgedApplied

\* The invariant holds of a freshly joined peer.
LEMMA InitInv == Init => Inv
<1> SUFFICES ASSUME Init PROVE Inv
  OBVIOUS
<1>1. TypeOK
  <2>1. InitialPipeline \in PipelineStates
    BY DEF InitialPipeline, PipelineStates
  <2> QED
    BY <2>1, InitialDeliveryFacts, EmptySnapshotType DEF Init, TypeOK
<1>2. EmissionsNumbered /\ LaneFaithful /\ ReplicaAgreement /\ HistoryEndsWithLatest
      /\ WorldMatchesEmission /\ AcknowledgementsTruthful
  BY DEF Init, EmissionsNumbered, LaneFaithful, ReplicaAgreement, HistoryEndsWithLatest,
         WorldMatchesEmission, AcknowledgementsTruthful, InitialPipeline
<1>3. HeldResultsCommitted /\ AcknowledgedApplied
  BY InitialDeliveryFacts, NoResultType
     DEF Init, HeldResultsCommitted, AcknowledgedApplied, InitialDelivery
<1> QED
  BY <1>1, <1>2, <1>3 DEF Inv

-----------------------------------------------------------------------------
(* The server's tick. *)

\* The invariant's consequences for the results a tick encodes from.
LEMMA TickFacts ==
  ASSUME Inv, NEW source \in SourceSnapshots, NEW due
  PROVE  LET d       == PreparedDelivery
             input   == EncodeInput(d, source)
             encoded == Encoded(pipeline, input, due)
         IN  /\ d \in DeliveryStates
             /\ \A r \in HeldResults(d) : CommittedAs(emitted, r.sequence, r.snapshot)
             /\ HasResult(d.acknowledged) => d.acknowledged.sequence \in applied
             /\ Encodable(input)
             /\ HasResult(input.baseline) => input.baseline \in HeldResults(d)
             /\ HasResult(input.replica) => input.replica \in HeldResults(d)
             /\ encoded.update \in Updates /\ SubmittedResult(encoded) \in Results
             /\ encoded.sequence = Len(emitted) + 1
             /\ encoded.baseline_sequence \in Nat /\ encoded.capacity_bytes \in Nat
             /\ encoded.resulting_snapshot \in Snapshots
<1> DEFINE d == PreparedDelivery
           input == EncodeInput(d, source)
           encoded == Encoded(pipeline, input, due)
<1>1. delivery \in DeliveryStates /\ now \in Nat /\ pipeline \in PipelineStates
      /\ source \in Snapshots
  BY ReplicationAssumption DEF Inv, TypeOK
<1>2. /\ d \in DeliveryStates
      /\ HeldResults(d) \subseteq HeldResults(delivery)
      /\ d.acknowledged \in {delivery.acknowledged, NoResult}
  BY <1>1, PreparedDeliveryFacts
<1>3. \A r \in HeldResults(d) : CommittedAs(emitted, r.sequence, r.snapshot)
  BY <1>2 DEF Inv, HeldResultsCommitted
<1>4. HasResult(d.acknowledged) => d.acknowledged.sequence \in applied
  BY <1>2, NoResultType DEF Inv, AcknowledgedApplied
<1> HIDE DEF d
<1>5. /\ Encodable(input)
      /\ HasResult(input.baseline) => input.baseline \in HeldResults(d)
      /\ HasResult(input.replica) => input.replica \in HeldResults(d)
  BY <1>1, <1>2, EncodeInputFacts
<1> HIDE DEF input
<1>6. /\ encoded.sequence = pipeline.next_sequence
      /\ encoded.update \in Updates /\ encoded.baseline_sequence \in Nat
      /\ encoded.resulting_snapshot \in Snapshots /\ encoded.capacity_bytes \in Nat
  BY <1>1, <1>5, EncodedFacts
<1> HIDE DEF encoded
<1>7. encoded.sequence = Len(emitted) + 1 /\ encoded.sequence \in Nat
      /\ encoded.update.kind \in Kinds
  BY <1>1, <1>6 DEF Inv, EmissionsNumbered, PipelineStates, Updates
<1>8. SubmittedResult(encoded) \in Results
  BY <1>1, <1>6, <1>7 DEF SubmittedResult, Results
<1> QED
  BY <1>2, <1>3, <1>4, <1>5, <1>6, <1>7, <1>8 DEF d, input, encoded

\* A new emission leaves every earlier one where it was.
LEMMA EmittedGrows ==
  ASSUME emitted \in Seq(Emissions), NEW emission \in Emissions,
         emitted' = Append(emitted, emission)
  PROVE  /\ emitted' \in Seq(Emissions)
         /\ Len(emitted') = Len(emitted) + 1
         /\ emitted'[Len(emitted) + 1] = emission
         /\ Len(emitted) + 1 \in DOMAIN emitted'
         /\ \A i \in DOMAIN emitted : i \in DOMAIN emitted' /\ emitted'[i] = emitted[i]
<1>1. emitted' \in Seq(Emissions) /\ Len(emitted') = Len(emitted) + 1
  OBVIOUS
<1>2. DOMAIN emitted = 1..Len(emitted) /\ DOMAIN emitted' = 1..Len(emitted')
      /\ Len(emitted) \in Nat
  BY <1>1
<1>3. \A i \in 1..Len(emitted) : emitted'[i] = emitted[i]
  OBVIOUS
<1>4. emitted'[Len(emitted) + 1] = emission
  OBVIOUS
<1> QED
  BY <1>1, <1>2, <1>3, <1>4

\* The update of an accepted encode leads from a committed result to the result
\* the server is about to commit.
LEMMA EncodedFaithful ==
  ASSUME Inv, NEW source \in SourceSnapshots, NEW due,
         ~EncodeRejects(pipeline, EncodeInput(PreparedDelivery, source))
  PROVE  LET encoded == Encoded(pipeline, EncodeInput(PreparedDelivery, source), due)
         IN  \/ /\ encoded.update.kind = "FullReplace"
                /\ encoded.resulting_snapshot = encoded.update.upserts
             \/ /\ encoded.update.kind = "Patch"
                /\ encoded.baseline_sequence \in DOMAIN emitted
                /\ encoded.resulting_snapshot
                     = PatchedSnapshot(emitted[encoded.baseline_sequence].snapshot,
                                       encoded.update)
<1> DEFINE d       == PreparedDelivery
           input   == EncodeInput(d, source)
           encoded == Encoded(pipeline, input, due)
           base    == PatchBase(pipeline, input)
<1>1. /\ \A r \in HeldResults(d) : CommittedAs(emitted, r.sequence, r.snapshot)
      /\ Encodable(input)
      /\ HasResult(input.baseline) => input.baseline \in HeldResults(d)
      /\ HasResult(input.replica) => input.replica \in HeldResults(d)
  BY TickFacts
<1>2. pipeline \in PipelineStates
  BY DEF Inv, TypeOK
<1>3. base \in {input.baseline, input.replica}
  BY DEF PatchBase
<1>4. EmitPatch(pipeline, input) => HasResult(base)
  BY PatchBaseHeld
<1> HIDE DEF d, base
<1>5. EmitPatch(pipeline, input) => CommittedAs(emitted, base.sequence, base.snapshot)
  BY <1>1, <1>3, <1>4
<1> HIDE DEF input
<1>6. /\ ~EmitPatch(pipeline, input) =>
            /\ encoded.update.kind = "FullReplace"
            /\ encoded.resulting_snapshot = encoded.update.upserts
      /\ EmitPatch(pipeline, input) =>
            /\ encoded.update.kind = "Patch"
            /\ encoded.baseline_sequence = base.sequence
            /\ encoded.resulting_snapshot = PatchedSnapshot(base.snapshot, encoded.update)
  BY <1>1, <1>2, EncodedFacts DEF base
<1> HIDE DEF encoded
<1> QED
  BY <1>5, <1>6 DEF CommittedAs, d, input, encoded

\* What the history keeps of an emission is well typed.
LEMMA EncodedEmission ==
  ASSUME NEW encoded, encoded.update \in Updates, encoded.baseline_sequence \in Nat,
         encoded.resulting_snapshot \in Snapshots
  PROVE  Emission(encoded) \in Emissions
<1>1. encoded.update.kind \in Kinds /\ DOMAIN encoded.update.upserts \subseteq Entities
  BY SnapshotDomain DEF Updates
<1> QED
  BY <1>1 DEF Emission, Emissions

\* A committed emission preserves the invariant.
LEMMA CommitEmissionPreserves ==
  ASSUME Inv, NEW source \in SourceSnapshots, NEW due,
         ~EncodeRejects(pipeline, EncodeInput(PreparedDelivery, source)),
         CommitEmission(PreparedDelivery,
                        Encoded(pipeline, EncodeInput(PreparedDelivery, source), due)),
         pipeline' = AdvancedPipeline(pipeline, EncodeInput(PreparedDelivery, source)),
         UNCHANGED <<now, input_lane, clientVars>>
  PROVE  Inv'
<1> DEFINE d       == PreparedDelivery
           input   == EncodeInput(d, source)
           encoded == Encoded(pipeline, input, due)
           plan    == PlanSnapshotRetention(d, encoded.capacity_bytes)
           m       == [sequence          |-> encoded.sequence,
                       baseline_sequence |-> encoded.baseline_sequence,
                       update            |-> encoded.update]
<1>1. /\ d \in DeliveryStates
      /\ \A r \in HeldResults(d) : CommittedAs(emitted, r.sequence, r.snapshot)
      /\ HasResult(d.acknowledged) => d.acknowledged.sequence \in applied
      /\ Encodable(input)
      /\ encoded.update \in Updates /\ SubmittedResult(encoded) \in Results
      /\ encoded.sequence = Len(emitted) + 1
      /\ encoded.baseline_sequence \in Nat /\ encoded.capacity_bytes \in Nat
      /\ encoded.resulting_snapshot \in Snapshots
  BY TickFacts
<1>2. \/ /\ encoded.update.kind = "FullReplace"
         /\ encoded.resulting_snapshot = encoded.update.upserts
      \/ /\ encoded.update.kind = "Patch"
         /\ encoded.baseline_sequence \in DOMAIN emitted
         /\ encoded.resulting_snapshot
              = PatchedSnapshot(emitted[encoded.baseline_sequence].snapshot, encoded.update)
  BY EncodedFaithful
<1>3. /\ delivery' = CommittedDelivery(d, encoded, plan)
      /\ snapshot_lane' = Append(snapshot_lane, m)
      /\ emitted' = Append(emitted, Emission(encoded))
      /\ session' = session
      /\ pipeline' = AdvancedPipeline(pipeline, input)
      /\ UNCHANGED <<now, input_lane, clientVars>>
  BY DEF CommitEmission
<1>4. pipeline' \in PipelineStates /\ pipeline'.next_sequence = pipeline.next_sequence + 1
  BY <1>1, <1>3, AdvancedPipelineType DEF Inv, TypeOK
<1> HIDE DEF d, input
<1>5. plan.evict_count \in 0..Len(d.submitted)
  BY <1>1, PlanSnapshotRetentionFacts
<1> HIDE DEF encoded, plan
<1>6. /\ delivery' \in DeliveryStates
      /\ HeldResults(delivery') \subseteq HeldResults(d) \cup {SubmittedResult(encoded)}
      /\ delivery'.acknowledged = d.acknowledged
  BY <1>1, <1>3, <1>5, CommittedDeliveryFacts
<1>7. /\ SubmittedResult(encoded).sequence = Len(emitted) + 1
      /\ SubmittedResult(encoded).snapshot = encoded.resulting_snapshot
      /\ Emission(encoded).snapshot = encoded.resulting_snapshot
  BY <1>1 DEF SubmittedResult, Emission
<1>8. Emission(encoded) \in Emissions
  BY <1>1, EncodedEmission
<1>9. emitted \in Seq(Emissions) /\ snapshot_lane \in Seq(Messages)
  BY DEF Inv, TypeOK
<1>10. /\ emitted' \in Seq(Emissions)
       /\ Len(emitted') = Len(emitted) + 1
       /\ emitted'[Len(emitted) + 1].snapshot = encoded.resulting_snapshot
       /\ Len(emitted) + 1 \in DOMAIN emitted'
       /\ \A i \in DOMAIN emitted : i \in DOMAIN emitted' /\ emitted'[i] = emitted[i]
  BY <1>3, <1>7, <1>8, <1>9, EmittedGrows
<1>11. m \in Messages
  <2>1. Len(emitted) + 1 \in Nat
    BY <1>9
  <2> QED
    BY <1>1, <2>1 DEF Messages
<1>12. Faithful(emitted', m)
  BY <1>1, <1>2, <1>10 DEF Faithful, CommittedAs
<1> HIDE DEF m
<1>13. TypeOK'
  BY <1>3, <1>4, <1>6, <1>9, <1>10, <1>11 DEF Inv, TypeOK, clientVars
<1>14. EmissionsNumbered'
  BY <1>4, <1>10 DEF Inv, EmissionsNumbered
<1>15. HeldResultsCommitted'
  BY <1>1, <1>6, <1>7, <1>10 DEF HeldResultsCommitted, CommittedAs
<1>16. LaneFaithful'
  <2>1. \A i \in 1..Len(snapshot_lane) : Faithful(emitted', snapshot_lane[i])
    BY <1>3, <1>9, <1>10 DEF Inv, LaneFaithful, Faithful, CommittedAs
  <2>2. \A i \in 1..Len(snapshot_lane') :
           \/ i \in 1..Len(snapshot_lane) /\ snapshot_lane'[i] = snapshot_lane[i]
           \/ snapshot_lane'[i] = m
    BY <1>3, <1>9
  <2> QED
    BY <1>12, <2>1, <2>2 DEF LaneFaithful
<1>17. ReplicaAgreement' /\ WorldMatchesEmission'
  BY <1>3, <1>10 DEF Inv, ReplicaAgreement, WorldMatchesEmission, clientVars
<1>18. HistoryEndsWithLatest' /\ AcknowledgementsTruthful' /\ AcknowledgedApplied'
  BY <1>1, <1>3, <1>6
     DEF Inv, HistoryEndsWithLatest, AcknowledgementsTruthful, AcknowledgedApplied, clientVars
<1> QED
  BY <1>13, <1>14, <1>15, <1>16, <1>17, <1>18 DEF Inv

\* A server step that sends nothing and holds on to no new result.
LEMMA ServerStepPreserves ==
  ASSUME Inv,
         delivery' \in DeliveryStates,
         HeldResults(delivery') \subseteq HeldResults(delivery),
         AcknowledgedApplied', AcknowledgementsTruthful',
         now' \in Nat,
         session' \in {"joined", "dropped", "closed", "failed"},
         input_lane' \in Seq(InputMessages),
         UNCHANGED <<pipeline, emitted, snapshot_lane, clientVars>>
  PROVE  Inv'
<1>1. TypeOK'
  BY DEF Inv, TypeOK, clientVars
<1>2. HeldResultsCommitted'
  BY DEF Inv, HeldResultsCommitted
<1>3. EmissionsNumbered' /\ LaneFaithful' /\ ReplicaAgreement' /\ HistoryEndsWithLatest'
      /\ WorldMatchesEmission'
  BY DEF Inv, EmissionsNumbered, LaneFaithful, ReplicaAgreement, HistoryEndsWithLatest,
         WorldMatchesEmission, clientVars
<1> QED
  BY <1>1, <1>2, <1>3 DEF Inv

\* A tick that emits nothing preserves the invariant.
LEMMA SilentTickPreserves ==
  ASSUME Inv, UNCHANGED <<now, input_lane, clientVars>>,
         NEW source, NEW due,
         LET encoded == Encoded(pipeline, EncodeInput(PreparedDelivery, source), due)
         IN  \/ AbandonEmission(PreparedDelivery, encoded)
             \/ DropOversized(PreparedDelivery, encoded)
             \/ DropOnSendFailure(PreparedDelivery, encoded)
  PROVE  Inv'
<1> DEFINE d == PreparedDelivery
           discarded == DiscardAcknowledgedReplica(d, "RetentionPressure")
<1>1. delivery \in DeliveryStates /\ now \in Nat
  BY DEF Inv, TypeOK
<1>2. /\ d \in DeliveryStates
      /\ HeldResults(d) \subseteq HeldResults(delivery)
      /\ d.acknowledged \in {delivery.acknowledged, NoResult}
  BY <1>1, PreparedDeliveryFacts
<1>3. /\ delivery' = d \/ delivery' = discarded
      /\ session' = session \/ session' = "dropped"
      /\ UNCHANGED <<pipeline, snapshot_lane, emitted>>
  BY DEF AbandonEmission, DropOversized, DropOnSendFailure
<1> HIDE DEF d
<1>4. /\ discarded \in DeliveryStates
      /\ HeldResults(discarded) \subseteq HeldResults(d)
      /\ discarded.acknowledged = NoResult
  BY <1>2, DiscardAcknowledgedReplicaFacts DEF RecoveryReasons
<1> HIDE DEF discarded
<1>5. /\ delivery' \in DeliveryStates
      /\ HeldResults(delivery') \subseteq HeldResults(delivery)
      /\ delivery'.acknowledged \in {delivery.acknowledged, NoResult}
  BY <1>2, <1>3, <1>4
<1>6. AcknowledgedApplied' /\ AcknowledgementsTruthful'
  BY <1>5, NoResultType DEF Inv, AcknowledgedApplied, AcknowledgementsTruthful, clientVars
<1> QED
  BY <1>3, <1>5, <1>6, ServerStepPreserves DEF Inv, TypeOK

\* The server's cadence tick preserves the invariant.
LEMMA ReplicatePeerPreserves ==
  ASSUME Inv, NEW source \in SourceSnapshots, NEW due, ReplicatePeer(source, due)
  PROVE  Inv'
<1> DEFINE input   == EncodeInput(PreparedDelivery, source)
           encoded == Encoded(pipeline, input, due)
<1>1. ~EncodeRejects(pipeline, input) /\ UNCHANGED <<now, input_lane, clientVars>>
  BY DEF ReplicatePeer
<1>2. CASE /\ CommitEmission(PreparedDelivery, encoded)
           /\ pipeline' = AdvancedPipeline(pipeline, input)
  BY <1>1, <1>2, CommitEmissionPreserves
<1>3. CASE \/ AbandonEmission(PreparedDelivery, encoded)
           \/ DropOversized(PreparedDelivery, encoded)
           \/ DropOnSendFailure(PreparedDelivery, encoded)
  BY <1>1, <1>3, SilentTickPreserves
<1> QED
  BY <1>2, <1>3 DEF ReplicatePeer

-----------------------------------------------------------------------------
(* The server's input lane. *)

\* Reading a message leaves the messages behind it.
LEMMA InputRead ==
  ASSUME Inv, input_lane # << >>, input_lane' = Tail(input_lane), applied' = applied
  PROVE  /\ Head(input_lane) \in InputMessages
         /\ input_lane' \in Seq(InputMessages)
         /\ AcknowledgementsTruthful'
         /\ Head(input_lane).type = "SnapshotAck" => Head(input_lane).sequence \in applied
<1>1. input_lane \in Seq(InputMessages)
  BY DEF Inv, TypeOK
<1>2. /\ Head(input_lane) = input_lane[1] /\ 1 \in 1..Len(input_lane)
      /\ Head(input_lane) \in InputMessages
      /\ input_lane' \in Seq(InputMessages)
      /\ \A i \in 1..Len(input_lane') :
            i + 1 \in 1..Len(input_lane) /\ input_lane'[i] = input_lane[i + 1]
  BY <1>1
<1> QED
  BY <1>2 DEF Inv, AcknowledgementsTruthful

\* What an accepted acknowledgement does to the delivery state.
LEMMA AcceptedAckFacts ==
  ASSUME Inv, NEW m \in InputMessages, m.type = "SnapshotAck", m.sequence \in applied
  PROVE  LET e == AcceptedAck(delivery, m)
         IN  /\ e \in DeliveryStates
             /\ HeldResults(e) \subseteq HeldResults(delivery)
             /\ HasResult(e.acknowledged) => e.acknowledged.sequence \in applied
             /\ \/ e.latest_acknowledged_sequence = delivery.latest_acknowledged_sequence
                \/ /\ e.latest_acknowledged_sequence = m.sequence
                   /\ m.sequence > delivery.latest_acknowledged_sequence
             /\ delivery.recovery_active /\ ~e.recovery_active =>
                   /\ e.acknowledged.sequence \in applied
                   /\ e.acknowledged.kind = "FullReplace"
<1> DEFINE e == AcceptedAck(delivery, m)
           p == PromoteSnapshotAck(delivery, m.sequence)
<1>1. delivery \in DeliveryStates /\ applied \in SUBSET Nat
  BY DEF Inv, TypeOK
<1>2. m.sequence \in Nat
  BY <1>1
<1>3. /\ p \in DeliveryStates
      /\ HeldResults(p) \subseteq HeldResults(delivery)
      /\ \/ /\ p.acknowledged = delivery.acknowledged
            /\ p.latest_acknowledged_sequence = delivery.latest_acknowledged_sequence
            /\ delivery.recovery_active => p.recovery_active
         \/ /\ p.acknowledged.sequence = m.sequence
            /\ p.latest_acknowledged_sequence = m.sequence
            /\ m.sequence > delivery.latest_acknowledged_sequence
            /\ delivery.recovery_active /\ ~p.recovery_active
                 => p.acknowledged.kind = "FullReplace"
  BY <1>1, <1>2, PromoteSnapshotAckFacts
<1>4. e = p \/ e = delivery
  BY DEF AcceptedAck
<1>5. HasResult(delivery.acknowledged) => delivery.acknowledged.sequence \in applied
  BY DEF Inv, AcknowledgedApplied
<1> HIDE DEF e, p
<1> QED
  BY <1>1, <1>3, <1>4, <1>5 DEF e

\* An acknowledgement preserves the invariant.
LEMMA ServerReceiveAckPreserves ==
  ASSUME Inv, ServerReceiveAck
  PROVE  Inv'
<1>1. /\ input_lane # << >> /\ Head(input_lane).type = "SnapshotAck"
      /\ delivery' = AcceptedAck(delivery, Head(input_lane))
      /\ input_lane' = Tail(input_lane)
      /\ UNCHANGED <<now, session, pipeline, emitted, snapshot_lane, clientVars>>
  BY DEF ServerReceiveAck
<1>2. applied' = applied
  BY <1>1 DEF clientVars
<1>3. /\ Head(input_lane) \in InputMessages
      /\ input_lane' \in Seq(InputMessages)
      /\ AcknowledgementsTruthful'
      /\ Head(input_lane).sequence \in applied
  BY <1>1, <1>2, InputRead
<1>4. /\ delivery' \in DeliveryStates
      /\ HeldResults(delivery') \subseteq HeldResults(delivery)
      /\ HasResult(delivery'.acknowledged) => delivery'.acknowledged.sequence \in applied
  BY <1>1, <1>3, AcceptedAckFacts
<1>5. AcknowledgedApplied'
  BY <1>2, <1>4 DEF AcknowledgedApplied
<1> QED
  BY <1>1, <1>3, <1>4, <1>5, ServerStepPreserves DEF Inv, TypeOK

\* A recovery request changes the delivery state only by entering recovery.
LEMMA AcceptedRecoveryRequestFacts ==
  ASSUME Inv, NEW m
  PROVE  LET e == AcceptedRecoveryRequest(delivery, m)
         IN  /\ e \in DeliveryStates
             /\ HeldResults(e) = HeldResults(delivery)
             /\ e.acknowledged = delivery.acknowledged
             /\ e.latest_acknowledged_sequence = delivery.latest_acknowledged_sequence
             /\ delivery.recovery_active => e.recovery_active
<1>1. delivery \in DeliveryStates
  BY DEF Inv, TypeOK
<1>2. "ClientRequest" \in RecoveryReasons
  BY DEF RecoveryReasons
<1>3. \/ AcceptedRecoveryRequest(delivery, m) = delivery
      \/ AcceptedRecoveryRequest(delivery, m)
           = EnterSnapshotRecovery(delivery, "ClientRequest")
  BY DEF AcceptedRecoveryRequest
<1> QED
  BY <1>1, <1>2, <1>3, EnterSnapshotRecoveryFacts

\* A recovery request preserves the invariant.
LEMMA ServerReceiveRecoveryRequestPreserves ==
  ASSUME Inv, ServerReceiveRecoveryRequest
  PROVE  Inv'
<1>1. /\ input_lane # << >>
      /\ delivery' = AcceptedRecoveryRequest(delivery, Head(input_lane))
      /\ input_lane' = Tail(input_lane)
      /\ UNCHANGED <<now, session, pipeline, emitted, snapshot_lane, clientVars>>
  BY DEF ServerReceiveRecoveryRequest
<1>2. applied' = applied
  BY <1>1 DEF clientVars
<1>3. input_lane' \in Seq(InputMessages) /\ AcknowledgementsTruthful'
  BY <1>1, <1>2, InputRead
<1>4. /\ delivery' \in DeliveryStates
      /\ HeldResults(delivery') = HeldResults(delivery)
      /\ delivery'.acknowledged = delivery.acknowledged
  BY <1>1, AcceptedRecoveryRequestFacts
<1>5. AcknowledgedApplied'
  BY <1>2, <1>4 DEF Inv, AcknowledgedApplied
<1> QED
  BY <1>1, <1>3, <1>4, <1>5, ServerStepPreserves DEF Inv, TypeOK

-----------------------------------------------------------------------------
(* The client. *)

\* The history ends with the retained entry; before it, only what it held.
LEMMA RetainSnapshotFacts ==
  ASSUME NEW history \in Seq(Retained), NEW entry \in Retained
  PROVE  LET h == RetainSnapshot(history, entry)
         IN  /\ h \in Seq(Retained)
             /\ h # << >> /\ Last(h) = entry
             /\ \A i \in 1..Len(h) :
                   h[i] = entry \/ \E j \in 1..Len(history) : h[i] = history[j]
<1> DEFINE fits(n) == /\ Len(history) - n < RetainedSnapshotLimit
                      /\ CapacityOf(WithoutFirst(history, n)) + entry.capacity_bytes
                           <= MaximumRetainedCapacity
           stops == {n \in 0..Len(history) : n = Len(history) \/ fits(n)}
           first == Min(stops)
           kept  == WithoutFirst(history, first)
           h     == RetainSnapshot(history, entry)
<1>1. first \in 0..Len(history)
  <2>1. stops \in SUBSET Nat /\ Len(history) \in stops
    OBVIOUS
  <2> HIDE DEF stops
  <2>2. Min(stops) \in stops
    BY <2>1, MinIn
  <2> QED
    BY <2>2 DEF stops
<1>2. h = Append(kept, entry)
  BY DEF RetainSnapshot
<1> HIDE DEF first, h
<1>3. /\ kept \in Seq(Retained) /\ Len(kept) = Len(history) - first
      /\ \A i \in 1..(Len(history) - first) : kept[i] = history[i + first]
  BY <1>1, WithoutFirstFacts
<1>4. \A i \in 1..Len(kept) : \E j \in 1..Len(history) : kept[i] = history[j]
  <2> TAKE i \in 1..Len(kept)
  <2>1. i + first \in 1..Len(history) /\ kept[i] = history[i + first]
    BY <1>1, <1>3
  <2> QED
    BY <2>1
<1> HIDE DEF kept
<1>5. /\ h \in Seq(Retained) /\ h # << >> /\ Len(h) = Len(kept) + 1
      /\ h[Len(kept) + 1] = entry
      /\ \A i \in 1..Len(kept) : h[i] = kept[i]
  BY <1>2, <1>3
<1>6. Last(h) = entry
  BY <1>5 DEF Last
<1>7. \A i \in 1..Len(h) : h[i] = entry \/ i \in 1..Len(kept)
  BY <1>3, <1>5
<1> QED
  BY <1>4, <1>5, <1>6, <1>7 DEF h

\* The retained baseline of a Patch is the result the server committed for it.
LEMMA ClientBaselineFacts ==
  ASSUME Inv, NEW m \in Messages, ~MissingBaseline(m)
  PROVE  /\ ClientBaseline(m) \in Snapshots
         /\ m.baseline_sequence # 0 =>
               CommittedAs(emitted, m.baseline_sequence, ClientBaseline(m))
<1>1. CASE m.baseline_sequence = 0
  BY <1>1, EmptySnapshotType DEF ClientBaseline
<1>2. CASE m.baseline_sequence # 0
  <2> DEFINE b == m.baseline_sequence
             i == CHOOSE k \in DOMAIN snapshot_history : snapshot_history[k].sequence = b
  <2>1. i \in DOMAIN snapshot_history /\ snapshot_history[i].sequence = b
    BY <1>2 DEF MissingBaseline, RetainedSequences
  <2>2. ClientBaseline(m) = snapshot_history[i].snapshot
    BY <1>2 DEF ClientBaseline, RetainedSnapshot
  <2> HIDE DEF i
  <2>3. CommittedAs(emitted, b, snapshot_history[i].snapshot)
    BY <2>1 DEF Inv, ReplicaAgreement, CommittedAs
  <2>4. snapshot_history[i] \in Retained
    BY <2>1 DEF Inv, TypeOK
  <2>5. snapshot_history[i].snapshot \in Snapshots
    BY <2>4 DEF Retained
  <2> QED
    BY <2>2, <2>3, <2>5
<1> QED
  BY <1>1, <1>2

\* What the client reconstructs for an update it accepts, and what its world
\* then holds, is the result the server committed.
LEMMA ReconstructedIsCommitted ==
  ASSUME Inv, NEW m \in Messages, Faithful(emitted, m),
         ~MalformedHeader(m), ~MissingBaseline(m)
  PROVE  LET reconstructed == Reconstruct(ClientBaseline(m), m.update)
         IN  /\ reconstructed \in Snapshots
             /\ CommittedAs(emitted, m.sequence, reconstructed)
             /\ AppliedToWorld(client_world, UpdateToApply(m, reconstructed)) = reconstructed
<1> DEFINE reconstructed == Reconstruct(ClientBaseline(m), m.update)
           base == emitted[m.baseline_sequence].snapshot
<1>1. m.update \in Updates /\ m.baseline_sequence \in Nat
  BY DEF Messages
<1>2. /\ ClientBaseline(m) \in Snapshots
      /\ m.baseline_sequence # 0 => ClientBaseline(m) = base
  BY ClientBaselineFacts DEF CommittedAs
<1>3. reconstructed \in Snapshots
  BY <1>1, <1>2, ReconstructType
<1>4. CASE m.update.kind = "FullReplace"
  <2>1. reconstructed = m.update.upserts
    BY <1>4 DEF Reconstruct
  <2>2. UpdateToApply(m, reconstructed) = m.update
    BY <1>4 DEF UpdateToApply
  <2>3. AppliedToWorld(client_world, m.update) = m.update.upserts
    BY <1>4 DEF AppliedToWorld
  <2> QED
    BY <1>3, <1>4, <2>1, <2>2, <2>3 DEF Faithful
<1>5. CASE m.update.kind # "FullReplace"
  <2>1. m.update.kind = "Patch"
    BY <1>1, <1>5 DEF Updates, Kinds
  <2>2. m.baseline_sequence # 0
    BY <1>5 DEF MalformedHeader
  <2>3. reconstructed = PatchedSnapshot(base, m.update)
    BY <1>2, <1>5, <2>2 DEF Reconstruct
  <2>4. CommittedAs(emitted, m.sequence, reconstructed)
    BY <1>5, <2>3 DEF Faithful
  <2> HIDE DEF reconstructed
  <2>5. CASE /\ snapshot_history # << >>
             /\ Last(snapshot_history).sequence = m.baseline_sequence
    <3>1. UpdateToApply(m, reconstructed) = m.update
      BY <2>5 DEF UpdateToApply
    <3>2. client_world = base
      BY <2>2, <2>5 DEF Inv, HistoryEndsWithLatest, WorldMatchesEmission
    <3>3. AppliedToWorld(client_world, m.update) = PatchedSnapshot(client_world, m.update)
      BY <1>5 DEF AppliedToWorld
    <3> QED
      BY <1>3, <2>3, <2>4, <3>1, <3>2, <3>3 DEF reconstructed
  <2>6. CASE ~(/\ snapshot_history # << >>
               /\ Last(snapshot_history).sequence = m.baseline_sequence)
    <3>1. UpdateToApply(m, reconstructed) = FullReplaceOf(reconstructed)
      BY <2>1, <2>6 DEF UpdateToApply
    <3>2. AppliedToWorld(client_world, FullReplaceOf(reconstructed)) = reconstructed
      BY <1>3, FullReplaceFacts DEF reconstructed
    <3> QED
      BY <1>3, <2>4, <3>1, <3>2 DEF reconstructed
  <2> QED
    BY <2>5, <2>6
<1> QED
  BY <1>4, <1>5

\* Taking the oldest update out of the lane, whether it is read or lost.
LEMMA LaneRead ==
  ASSUME Inv, snapshot_lane # << >>, snapshot_lane' = Tail(snapshot_lane),
         emitted' = emitted
  PROVE  /\ Head(snapshot_lane) \in Messages
         /\ Faithful(emitted, Head(snapshot_lane))
         /\ snapshot_lane' \in Seq(Messages)
         /\ LaneFaithful'
<1>1. snapshot_lane \in Seq(Messages)
  BY DEF Inv, TypeOK
<1>2. /\ Head(snapshot_lane) = snapshot_lane[1] /\ 1 \in 1..Len(snapshot_lane)
      /\ Head(snapshot_lane) \in Messages
      /\ snapshot_lane' \in Seq(Messages)
      /\ \A i \in 1..Len(snapshot_lane') :
            i + 1 \in 1..Len(snapshot_lane) /\ snapshot_lane'[i] = snapshot_lane[i + 1]
  BY <1>1
<1> QED
  BY <1>2 DEF Inv, LaneFaithful

\* A message to the server is queued behind the others, or ends the client's run.
LEMMA SendToServerFacts ==
  ASSUME Inv, NEW message \in InputMessages, SendToServer(message),
         applied \subseteq applied',
         message.type = "SnapshotAck" => message.sequence \in applied'
  PROVE  /\ input_lane' \in Seq(InputMessages)
         /\ session' \in {"joined", "dropped", "closed", "failed"}
         /\ AcknowledgementsTruthful'
<1>1. input_lane \in Seq(InputMessages) /\ session \in {"joined", "dropped", "closed", "failed"}
  BY DEF Inv, TypeOK
<1>2. CASE input_lane' = Append(input_lane, message) /\ UNCHANGED session
  <2>1. /\ input_lane' \in Seq(InputMessages)
        /\ \A i \in 1..Len(input_lane') :
              \/ i \in 1..Len(input_lane) /\ input_lane'[i] = input_lane[i]
              \/ input_lane'[i] = message
    BY <1>1, <1>2
  <2> QED
    BY <1>1, <1>2, <2>1 DEF Inv, AcknowledgementsTruthful
<1>3. CASE session' = "closed" /\ UNCHANGED input_lane
  BY <1>1, <1>3 DEF Inv, AcknowledgementsTruthful
<1> QED
  BY <1>2, <1>3 DEF SendToServer

\* A client step that applies nothing: the update is stale, rejected or fatal.
LEMMA ClientStepPreserves ==
  ASSUME Inv, LaneFaithful', AcknowledgementsTruthful',
         snapshot_lane' \in Seq(Messages),
         input_lane' \in Seq(InputMessages),
         session' \in {"joined", "dropped", "closed", "failed"},
         requested_missing_baseline' \in Nat,
         UNCHANGED <<now, serverVars, latest_applied_sequence, snapshot_history,
                     client_world, applied>>
  PROVE  Inv'
<1>1. TypeOK'
  BY DEF Inv, TypeOK, serverVars
<1>2. EmissionsNumbered' /\ HeldResultsCommitted' /\ ReplicaAgreement'
      /\ HistoryEndsWithLatest' /\ WorldMatchesEmission' /\ AcknowledgedApplied'
  BY DEF Inv, EmissionsNumbered, HeldResultsCommitted, ReplicaAgreement,
         HistoryEndsWithLatest, WorldMatchesEmission, AcknowledgedApplied, serverVars
<1> QED
  BY <1>1, <1>2 DEF Inv

\* Applying an update preserves the invariant.
LEMMA ApplyUpdatePreserves ==
  ASSUME Inv, LaneFaithful', snapshot_lane' \in Seq(Messages),
         NEW m \in Messages, Faithful(emitted, m),
         ~MalformedHeader(m), ~MissingBaseline(m), ApplyUpdate(m),
         UNCHANGED <<now, serverVars>>
  PROVE  Inv'
<1> DEFINE reconstructed == Reconstruct(ClientBaseline(m), m.update)
           capacity == ReconstructionCapacity(ClientBaseline(m), m.update)
           entry == [sequence |-> m.sequence, snapshot |-> reconstructed,
                     capacity_bytes |-> capacity]
           ack == [type |-> "SnapshotAck", sequence |-> m.sequence]
<1>1. m.sequence \in Nat /\ m.update \in Updates
  BY DEF Messages
<1>2. /\ reconstructed \in Snapshots
      /\ CommittedAs(emitted, m.sequence, reconstructed)
      /\ AppliedToWorld(client_world, UpdateToApply(m, reconstructed)) = reconstructed
  BY ReconstructedIsCommitted
<1>3. capacity \in Nat
  BY <1>1, ClientBaselineFacts, ReconstructionCapacityType
<1>4. /\ client_world' = reconstructed
      /\ latest_applied_sequence' = m.sequence
      /\ snapshot_history' = RetainSnapshot(snapshot_history, entry)
      /\ requested_missing_baseline' = 0
      /\ applied' = applied \cup {m.sequence}
      /\ SendToServer(ack)
      /\ UNCHANGED <<now, serverVars>>
  BY <1>2 DEF ApplyUpdate
<1> HIDE DEF reconstructed, capacity
<1>5. entry \in Retained
  BY <1>1, <1>2, <1>3 DEF Retained
<1>6. entry.sequence = m.sequence /\ entry.snapshot = reconstructed
  OBVIOUS
<1> HIDE DEF entry
<1>7. /\ snapshot_history' \in Seq(Retained)
      /\ snapshot_history' # << >> /\ Last(snapshot_history') = entry
      /\ \A i \in 1..Len(snapshot_history') :
            \/ snapshot_history'[i] = entry
            \/ \E j \in 1..Len(snapshot_history) :
                  snapshot_history'[i] = snapshot_history[j]
  BY <1>4, <1>5, RetainSnapshotFacts DEF Inv, TypeOK
<1>8. ack \in InputMessages /\ ack.sequence = m.sequence
  BY <1>1 DEF InputMessages
<1> HIDE DEF ack
<1>9. /\ input_lane' \in Seq(InputMessages)
      /\ session' \in {"joined", "dropped", "closed", "failed"}
      /\ AcknowledgementsTruthful'
  BY <1>4, <1>8, SendToServerFacts
<1>10. TypeOK'
  BY <1>1, <1>2, <1>4, <1>7, <1>9 DEF Inv, TypeOK, serverVars
<1>11. ReplicaAgreement'
  <2>1. \A i \in 1..Len(snapshot_history) :
           CommittedAs(emitted, snapshot_history[i].sequence, snapshot_history[i].snapshot)
    BY DEF Inv, TypeOK, ReplicaAgreement, CommittedAs
  <2>2. CommittedAs(emitted, entry.sequence, entry.snapshot)
    BY <1>2, <1>6
  <2>3. \A i \in 1..Len(snapshot_history') :
           CommittedAs(emitted, snapshot_history'[i].sequence, snapshot_history'[i].snapshot)
    BY <1>7, <2>1, <2>2
  <2>4. DOMAIN snapshot_history' = 1..Len(snapshot_history')
    BY <1>7
  <2> QED
    BY <1>4, <2>3, <2>4 DEF ReplicaAgreement, CommittedAs, serverVars
<1>12. HistoryEndsWithLatest' /\ WorldMatchesEmission'
  BY <1>2, <1>4, <1>6, <1>7
     DEF HistoryEndsWithLatest, WorldMatchesEmission, CommittedAs, serverVars
<1>13. EmissionsNumbered' /\ HeldResultsCommitted' /\ AcknowledgedApplied'
  BY <1>4 DEF Inv, EmissionsNumbered, HeldResultsCommitted, AcknowledgedApplied, serverVars
<1> QED
  BY <1>9, <1>10, <1>11, <1>12, <1>13 DEF Inv

\* Rejecting a Patch whose baseline is missing preserves the invariant.
LEMMA RejectPatchPreserves ==
  ASSUME Inv, LaneFaithful', snapshot_lane' \in Seq(Messages),
         NEW m \in Messages, RejectPatch(m), UNCHANGED <<now, serverVars>>
  PROVE  Inv'
<1> DEFINE request == [type     |-> "SnapshotRecoveryRequest",
                       rejected |-> m.sequence,
                       missing  |-> m.baseline_sequence]
<1>1. m.sequence \in Nat /\ m.baseline_sequence \in Nat
      /\ requested_missing_baseline \in Nat
  BY DEF Messages, Inv, TypeOK
<1>2. request \in InputMessages /\ request.type # "SnapshotAck"
  BY <1>1 DEF InputMessages
<1>3. UNCHANGED <<latest_applied_sequence, snapshot_history, client_world, applied>>
  BY DEF RejectPatch
<1>4. CASE requested_missing_baseline = m.baseline_sequence
  <2>1. UNCHANGED <<session, input_lane, requested_missing_baseline>>
    BY <1>4 DEF RejectPatch
  <2>2. AcknowledgementsTruthful'
    BY <1>3, <2>1 DEF Inv, AcknowledgementsTruthful
  <2> QED
    BY <1>1, <1>3, <2>1, <2>2, ClientStepPreserves DEF Inv, TypeOK
<1>5. CASE requested_missing_baseline # m.baseline_sequence
  <2>1. /\ SendToServer(request)
        /\ requested_missing_baseline'
             = IF session' = "closed" THEN requested_missing_baseline ELSE m.baseline_sequence
    BY <1>5 DEF RejectPatch
  <2> HIDE DEF request
  <2>2. /\ input_lane' \in Seq(InputMessages)
        /\ session' \in {"joined", "dropped", "closed", "failed"}
        /\ AcknowledgementsTruthful'
    BY <1>2, <1>3, <2>1, SendToServerFacts
  <2>3. requested_missing_baseline' \in Nat
    BY <1>1, <2>1
  <2> QED
    BY <1>3, <2>2, <2>3, ClientStepPreserves
<1> QED
  BY <1>4, <1>5

\* A received update preserves the invariant.
LEMMA ClientReceiveSnapshotPreserves ==
  ASSUME Inv, ClientReceiveSnapshot
  PROVE  Inv'
<1> DEFINE m == Head(snapshot_lane)
<1>1. /\ snapshot_lane # << >> /\ snapshot_lane' = Tail(snapshot_lane)
      /\ UNCHANGED <<now, serverVars>>
  BY DEF ClientReceiveSnapshot
<1>2. emitted' = emitted
  BY <1>1 DEF serverVars
<1>3. m \in Messages /\ Faithful(emitted, m)
      /\ snapshot_lane' \in Seq(Messages) /\ LaneFaithful'
  BY <1>1, <1>2, LaneRead
<1>4. \/ UNCHANGED <<session, input_lane, clientVars>>
      \/ FailClient
      \/ RejectPatch(m)
      \/ ~MalformedHeader(m) /\ ~MissingBaseline(m) /\ ApplyUpdate(m)
  BY DEF ClientReceiveSnapshot
<1> HIDE DEF m
<1>5. CASE UNCHANGED <<session, input_lane, clientVars>> \/ FailClient
  <2>1. /\ UNCHANGED <<input_lane, clientVars>>
        /\ session' \in {"joined", "dropped", "closed", "failed"}
    BY <1>5 DEF FailClient, Inv, TypeOK
  <2>2. AcknowledgementsTruthful'
    BY <2>1 DEF Inv, AcknowledgementsTruthful, clientVars
  <2> QED
    BY <1>1, <1>3, <2>1, <2>2, ClientStepPreserves DEF Inv, TypeOK, clientVars
<1>6. CASE RejectPatch(m)
  BY <1>1, <1>3, <1>6, RejectPatchPreserves
<1>7. CASE ~MalformedHeader(m) /\ ~MissingBaseline(m) /\ ApplyUpdate(m)
  BY <1>1, <1>3, <1>7, ApplyUpdatePreserves
<1> QED
  BY <1>4, <1>5, <1>6, <1>7

-----------------------------------------------------------------------------
(* The environment, and the invariance theorems. *)

\* Losing an update, closing the connection and time preserve the invariant.
LEMMA EnvironmentPreserves ==
  ASSUME Inv, LoseSnapshot \/ CloseConnection \/ Wait
  PROVE  Inv'
<1>1. UNCHANGED <<session, serverVars, input_lane, clientVars>>
  BY DEF LoseSnapshot, CloseConnection, Wait
<1>2. AcknowledgementsTruthful'
  BY <1>1 DEF Inv, AcknowledgementsTruthful, clientVars
<1>3. emitted' = emitted
  BY <1>1 DEF serverVars
<1>4. CASE LoseSnapshot
  <2>1. snapshot_lane' \in Seq(Messages) /\ LaneFaithful' /\ now' = now
    BY <1>3, <1>4, LaneRead DEF LoseSnapshot
  <2> QED
    BY <1>1, <1>2, <2>1, ClientStepPreserves DEF Inv, TypeOK, clientVars
<1>5. CASE CloseConnection
  <2>1. snapshot_lane' \in Seq(Messages) /\ LaneFaithful' /\ now' = now
    BY <1>5 DEF CloseConnection, LaneFaithful
  <2> QED
    BY <1>1, <1>2, <2>1, ClientStepPreserves DEF Inv, TypeOK, clientVars
<1>6. CASE Wait
  <2>1. now' \in Nat /\ snapshot_lane' = snapshot_lane
    BY <1>6 DEF Wait, Inv, TypeOK
  <2>2. AcknowledgedApplied'
    BY <1>1 DEF Inv, AcknowledgedApplied, serverVars, clientVars
  <2> QED
    BY <1>1, <1>2, <2>1, <2>2, ServerStepPreserves DEF Inv, TypeOK, serverVars
<1> QED
  BY <1>4, <1>5, <1>6

\* A step that changes nothing preserves the invariant.
LEMMA StutterPreserves ==
  ASSUME Inv, UNCHANGED vars
  PROVE  Inv'
<1>1. UNCHANGED <<now, session, delivery, pipeline, emitted, snapshot_lane, input_lane, clientVars>>
  BY DEF vars, serverVars
<1>2. AcknowledgedApplied' /\ AcknowledgementsTruthful'
  BY <1>1 DEF Inv, AcknowledgedApplied, AcknowledgementsTruthful, clientVars
<1> QED
  BY <1>1, <1>2, ServerStepPreserves DEF Inv, TypeOK

\* Every step preserves the invariant.
LEMMA NextPreserves == Inv /\ [Next]_vars => Inv'
<1> SUFFICES ASSUME Inv, [Next]_vars PROVE Inv'
  OBVIOUS
<1>1. ASSUME NEW source \in SourceSnapshots, NEW due, ReplicatePeer(source, due)
      PROVE  Inv'
  BY <1>1, ReplicatePeerPreserves
<1>2. CASE ServerReceiveAck
  BY <1>2, ServerReceiveAckPreserves
<1>3. CASE ServerReceiveRecoveryRequest
  BY <1>3, ServerReceiveRecoveryRequestPreserves
<1>4. CASE ClientReceiveSnapshot
  BY <1>4, ClientReceiveSnapshotPreserves
<1>5. CASE LoseSnapshot \/ CloseConnection \/ Wait
  BY <1>5, EnvironmentPreserves
<1>6. CASE UNCHANGED vars
  BY <1>6, StutterPreserves
<1> QED
  BY <1>1, <1>2, <1>3, <1>4, <1>5, <1>6 DEF Next

\* The inductive invariant of replication to one peer.
THEOREM InvariantHolds == Spec => []Inv
<1>1. Init => Inv
  BY InitInv
<1>2. Inv /\ [Next]_vars => Inv'
  BY NextPreserves
<1> QED
  BY <1>1, <1>2, PTL DEF Spec

\* Every variable keeps its type, for every technique, delivery mode and bound.
THEOREM TypeCorrect == Spec => []TypeOK
<1>1. Inv => TypeOK
  BY DEF Inv
<1> QED
  BY <1>1, InvariantHolds, PTL

\* Whatever the client reconstructs and retains for a sequence (apply_packet) is
\* the result the server committed for it (commit_submitted_snapshot).
THEOREM ReplicasAgree == Spec => []ReplicaAgreement
<1>1. Inv => ReplicaAgreement
  BY DEF Inv
<1> QED
  BY <1>1, InvariantHolds, PTL

\* The client's world, changed record by record, is the result the server
\* committed for the newest applied sequence (apply_client_snapshot_patch).
THEOREM WorldIsCommitted == Spec => []WorldMatchesEmission
<1>1. Inv => WorldMatchesEmission
  BY DEF Inv
<1> QED
  BY <1>1, InvariantHolds, PTL

\* The acknowledged result the server builds on was applied by the client and is
\* the one it committed under that sequence (promote_snapshot_ack).
THEOREM AcknowledgedResultProven == Spec => []AcknowledgedIsProven
<1>1. Inv => AcknowledgedIsProven
  <2> SUFFICES ASSUME Inv, HasResult(delivery.acknowledged)
               PROVE  /\ delivery.acknowledged.sequence \in applied
                      /\ delivery.acknowledged.snapshot
                           = emitted[delivery.acknowledged.sequence].snapshot
    BY DEF AcknowledgedIsProven
  <2>1. delivery.acknowledged \in HeldResults(delivery)
    BY DEF HeldResults
  <2> QED
    BY <2>1 DEF Inv, AcknowledgedApplied, HeldResultsCommitted, CommittedAs
<1> QED
  BY <1>1, InvariantHolds, PTL

-----------------------------------------------------------------------------
(* What a step does to the delivery state, and the end of recovery. *)

\* A tick never ends recovery and never moves the acknowledged sequence; it
\* either commits one emission or commits none.
LEMMA TickDelivery ==
  ASSUME Inv, NEW source \in SourceSnapshots, NEW due, ReplicatePeer(source, due)
  PROVE  /\ delivery.recovery_active => delivery'.recovery_active
         /\ delivery'.latest_acknowledged_sequence = delivery.latest_acknowledged_sequence
         /\ \/ emitted' = emitted
            \/ emitted' = Append(emitted, Emission(Encoded(pipeline,
                                    EncodeInput(PreparedDelivery, source), due)))
<1> DEFINE d       == PreparedDelivery
           input   == EncodeInput(d, source)
           encoded == Encoded(pipeline, input, due)
           plan    == PlanSnapshotRetention(d, encoded.capacity_bytes)
           discarded == DiscardAcknowledgedReplica(d, "RetentionPressure")
           committed == CommittedDelivery(d, encoded, plan)
<1>1. delivery \in DeliveryStates /\ now \in Nat
  BY DEF Inv, TypeOK
<1>2. /\ d.latest_acknowledged_sequence = delivery.latest_acknowledged_sequence
      /\ delivery.recovery_active => d.recovery_active
  BY <1>1, PreparedDeliveryFacts
<1>3. /\ d \in DeliveryStates
      /\ encoded.update \in Updates /\ SubmittedResult(encoded) \in Results
      /\ encoded.capacity_bytes \in Nat
  BY TickFacts
<1>4. \/ delivery' = committed /\ emitted' = Append(emitted, Emission(encoded))
      \/ (delivery' = discarded \/ delivery' = d) /\ emitted' = emitted
  BY DEF ReplicatePeer, CommitEmission, AbandonEmission, DropOversized, DropOnSendFailure
<1> HIDE DEF d
<1>5. /\ discarded.latest_acknowledged_sequence = d.latest_acknowledged_sequence
      /\ discarded.recovery_active
  BY <1>3, DiscardAcknowledgedReplicaFacts DEF RecoveryReasons
<1> HIDE DEF discarded, encoded
<1>6. plan.evict_count \in 0..Len(d.submitted)
  BY <1>3, PlanSnapshotRetentionFacts
<1> HIDE DEF plan
<1>7. /\ committed.latest_acknowledged_sequence = d.latest_acknowledged_sequence
      /\ d.recovery_active => committed.recovery_active
  BY <1>3, <1>6, CommittedDeliveryFacts
<1> HIDE DEF committed
<1> QED
  BY <1>2, <1>4, <1>5, <1>7 DEF encoded, input, d

\* An acknowledgement read by the server.
LEMMA AckDelivery ==
  ASSUME Inv, ServerReceiveAck
  PROVE  /\ delivery.recovery_active /\ ~delivery'.recovery_active =>
               /\ delivery'.acknowledged.sequence \in applied
               /\ delivery'.acknowledged.kind = "FullReplace"
         /\ \/ delivery'.latest_acknowledged_sequence = delivery.latest_acknowledged_sequence
            \/ /\ delivery'.latest_acknowledged_sequence \in applied
               /\ delivery'.latest_acknowledged_sequence
                    > delivery.latest_acknowledged_sequence
<1>1. /\ input_lane # << >> /\ Head(input_lane).type = "SnapshotAck"
      /\ delivery' = AcceptedAck(delivery, Head(input_lane))
      /\ input_lane' = Tail(input_lane) /\ applied' = applied
  BY DEF ServerReceiveAck, clientVars
<1>2. Head(input_lane) \in InputMessages /\ Head(input_lane).sequence \in applied
  BY <1>1, InputRead
<1> QED
  BY <1>1, <1>2, AcceptedAckFacts

\* Only an acknowledged FullReplace, which the client did apply, ends recovery
\* (promote_snapshot_ack).
THEOREM RecoveryEndsProven == Spec => RecoveryEndsWithProvenFullReplace
<1> DEFINE Step == delivery.recovery_active /\ ~delivery'.recovery_active =>
                     /\ delivery'.acknowledged.sequence \in applied
                     /\ delivery'.acknowledged.kind = "FullReplace"
<1>1. Inv /\ [Next]_vars => [Step]_vars
  <2> SUFFICES ASSUME Inv, Next PROVE Step
    OBVIOUS
  <2>1. ASSUME NEW source \in SourceSnapshots, NEW due, ReplicatePeer(source, due)
        PROVE  Step
    BY <2>1, TickDelivery
  <2>2. CASE ServerReceiveAck
    BY <2>2, AckDelivery
  <2>3. CASE ServerReceiveRecoveryRequest
    <3>1. delivery' = AcceptedRecoveryRequest(delivery, Head(input_lane))
      BY <2>3 DEF ServerReceiveRecoveryRequest
    <3> QED
      BY <3>1, AcceptedRecoveryRequestFacts
  <2>4. CASE ClientReceiveSnapshot \/ LoseSnapshot \/ CloseConnection \/ Wait
    <3>1. delivery' = delivery
      BY <2>4 DEF ClientReceiveSnapshot, LoseSnapshot, CloseConnection, Wait, serverVars
    <3> QED
      BY <3>1
  <2> QED
    BY <2>1, <2>2, <2>3, <2>4 DEF Next
<1> QED
  BY <1>1, InvariantHolds, PTL DEF Spec, RecoveryEndsWithProvenFullReplace

-----------------------------------------------------------------------------
(* Replication implements ReplicaStream. *)

\* The stream's published views, as the refinement mapping has them.
Published == [i \in DOMAIN emitted |-> emitted[i].snapshot]

\* A step that neither commits, applies nor confirms is a stutter of the stream.
LEMMA StreamStutter ==
  ASSUME UNCHANGED <<emitted, latest_applied_sequence, client_world, applied>>,
         delivery'.latest_acknowledged_sequence = delivery.latest_acknowledged_sequence
  PROVE  UNCHANGED Stream!vars
BY DEF Stream!vars

\* A tick publishes the result it commits, or is a stutter of the stream.
LEMMA TickPublishes ==
  ASSUME Inv, NEW source \in SourceSnapshots, NEW due, ReplicatePeer(source, due)
  PROVE  Stream!Publish \/ UNCHANGED Stream!vars
<1> DEFINE encoded == Encoded(pipeline, EncodeInput(PreparedDelivery, source), due)
           v       == encoded.resulting_snapshot
<1>1. UNCHANGED <<latest_applied_sequence, client_world, applied>>
  BY DEF ReplicatePeer, clientVars
<1>2. /\ delivery'.latest_acknowledged_sequence = delivery.latest_acknowledged_sequence
      /\ \/ emitted' = emitted
         \/ emitted' = Append(emitted, Emission(encoded))
  BY TickDelivery
<1>3. v \in Snapshots
  BY TickFacts
<1>4. Emission(encoded).snapshot = v
  BY DEF Emission
<1> HIDE DEF encoded, v
<1>5. CASE emitted' = emitted
  BY <1>1, <1>2, <1>5, StreamStutter
<1>6. CASE emitted' = Append(emitted, Emission(encoded))
  <2>1. emitted \in Seq(Emissions)
    BY DEF Inv, TypeOK
  <2>2. DOMAIN emitted = 1..Len(emitted) /\ Len(emitted) \in Nat
    BY <2>1
  <2>3. /\ DOMAIN emitted' = 1..(Len(emitted) + 1)
        /\ emitted'[Len(emitted) + 1].snapshot = v
        /\ \A i \in 1..Len(emitted) : emitted'[i].snapshot = emitted[i].snapshot
    BY <1>4, <1>6, <2>1
  <2>4. emitted' \in Seq(Emissions)
    <3>1. Emission(encoded) \in Emissions
      BY TickFacts, EncodedEmission DEF encoded
    <3> QED
      BY <1>6, <2>1, <3>1
  <2>5. /\ Published \in Seq(Snapshots) /\ Len(Published) = Len(emitted)
        /\ Published' \in Seq(Snapshots) /\ Len(Published') = Len(emitted) + 1
    <3>1. \A e \in Emissions : e.snapshot \in Snapshots
      BY DEF Emissions
    <3>2. \A i \in 1..Len(emitted) : emitted[i].snapshot \in Snapshots
      BY <2>1, <3>1
    <3>3. \A i \in 1..(Len(emitted) + 1) : emitted'[i].snapshot \in Snapshots
      BY <2>2, <2>3, <2>4, <3>1
    <3>4. Published \in Seq(Snapshots) /\ Len(Published) = Len(emitted)
      BY <2>2, <3>2 DEF Published
    <3>5. Published' \in Seq(Snapshots) /\ Len(Published') = Len(emitted) + 1
      BY <2>2, <2>3, <3>3 DEF Published
    <3> QED
      BY <3>4, <3>5
  <2>6. /\ Append(Published, v) \in Seq(Snapshots)
        /\ Len(Append(Published, v)) = Len(emitted) + 1
        /\ \A i \in 1..(Len(emitted) + 1) : Append(Published, v)[i] = Published'[i]
    BY <1>3, <2>2, <2>3, <2>5 DEF Published
  <2>7. Published' = Append(Published, v)
    BY <2>5, <2>6, SeqEqual
  <2> QED
    BY <1>1, <1>2, <1>3, <2>7 DEF Stream!Publish, Published
<1> QED
  BY <1>2, <1>5, <1>6

\* An update the client applies advances the stream; any other is a stutter.
LEMMA ReceiveAdvances ==
  ASSUME Inv, ClientReceiveSnapshot
  PROVE  Stream!Advance \/ UNCHANGED Stream!vars
<1> DEFINE m == Head(snapshot_lane)
           reconstructed == Reconstruct(ClientBaseline(m), m.update)
<1>1. /\ snapshot_lane # << >> /\ snapshot_lane' = Tail(snapshot_lane)
      /\ UNCHANGED serverVars
  BY DEF ClientReceiveSnapshot
<1>2. emitted' = emitted /\ delivery' = delivery
  BY <1>1 DEF serverVars
<1>3. m \in Messages /\ Faithful(emitted, m)
  BY <1>1, <1>2, LaneRead
<1>4. \/ UNCHANGED clientVars
      \/ FailClient
      \/ RejectPatch(m)
      \/ /\ ~(m.sequence <= latest_applied_sequence)
         /\ ~MalformedHeader(m) /\ ~MissingBaseline(m) /\ ApplyUpdate(m)
  BY DEF ClientReceiveSnapshot
<1> HIDE DEF m
<1>5. CASE UNCHANGED clientVars \/ FailClient \/ RejectPatch(m)
  <2>1. UNCHANGED <<latest_applied_sequence, client_world, applied>>
    BY <1>5 DEF FailClient, RejectPatch, clientVars
  <2> QED
    BY <1>2, <2>1, StreamStutter
<1>6. CASE /\ ~(m.sequence <= latest_applied_sequence)
           /\ ~MalformedHeader(m) /\ ~MissingBaseline(m) /\ ApplyUpdate(m)
  <2>1. /\ CommittedAs(emitted, m.sequence, reconstructed)
        /\ AppliedToWorld(client_world, UpdateToApply(m, reconstructed)) = reconstructed
    BY <1>3, <1>6, ReconstructedIsCommitted
  <2>2. /\ client_world' = reconstructed
        /\ latest_applied_sequence' = m.sequence
        /\ applied' = applied \cup {m.sequence}
    BY <1>6, <2>1 DEF ApplyUpdate
  <2>3. m.sequence \in Nat /\ latest_applied_sequence \in Nat
        /\ emitted \in Seq(Emissions)
    BY <1>3 DEF Messages, Inv, TypeOK
  <2>4. DOMAIN emitted = 1..Len(emitted) /\ Len(emitted) \in Nat
    BY <2>3
  <2>5. Len(Published) = Len(emitted)
    BY <2>4 DEF Published
  <2>6. m.sequence \in (latest_applied_sequence + 1)..Len(Published)
    BY <1>6, <2>1, <2>3, <2>4, <2>5 DEF CommittedAs
  <2>7. client_world' = Published'[m.sequence] /\ Published' = Published
    BY <1>2, <2>1, <2>2 DEF CommittedAs, Published
  <2> QED
    BY <1>2, <2>2, <2>6, <2>7 DEF Stream!Advance, Published
<1> QED
  BY <1>4, <1>5, <1>6

\* Replication of the world to a peer implements ReplicaStream, whatever the
\* technique: the client's world moves forward through the results the server
\* committed, and the server confirms, in order, only what the client applied.
THEOREM ImplementsReplicaStream == Spec => StreamSpec
<1>1. Init => Stream!Init
  BY DEF Init, Stream!Init, InitialDelivery
<1>2. Inv /\ [Next]_vars => [Stream!Next]_(Stream!vars)
  <2> SUFFICES ASSUME Inv, [Next]_vars
               PROVE  Stream!Next \/ UNCHANGED Stream!vars
    OBVIOUS
  <2>1. ASSUME NEW source \in SourceSnapshots, NEW due, ReplicatePeer(source, due)
        PROVE  Stream!Next \/ UNCHANGED Stream!vars
    BY <2>1, TickPublishes DEF Stream!Next
  <2>2. CASE ServerReceiveAck
    <3>1. UNCHANGED <<emitted, latest_applied_sequence, client_world, applied>>
      BY <2>2 DEF ServerReceiveAck, clientVars
    <3>2. CASE delivery'.latest_acknowledged_sequence
                 = delivery.latest_acknowledged_sequence
      BY <3>1, <3>2, StreamStutter
    <3>3. CASE /\ delivery'.latest_acknowledged_sequence \in applied
               /\ delivery'.latest_acknowledged_sequence
                    > delivery.latest_acknowledged_sequence
      BY <3>1, <3>3 DEF Stream!Next, Stream!Confirm
    <3> QED
      BY <2>2, <3>2, <3>3, AckDelivery
  <2>3. CASE ServerReceiveRecoveryRequest
    <3>1. /\ delivery' = AcceptedRecoveryRequest(delivery, Head(input_lane))
          /\ UNCHANGED <<emitted, latest_applied_sequence, client_world, applied>>
      BY <2>3 DEF ServerReceiveRecoveryRequest, clientVars
    <3> QED
      BY <3>1, AcceptedRecoveryRequestFacts, StreamStutter
  <2>4. CASE ClientReceiveSnapshot
    BY <2>4, ReceiveAdvances DEF Stream!Next
  <2>5. CASE LoseSnapshot \/ CloseConnection \/ Wait \/ UNCHANGED vars
    <3>1. /\ UNCHANGED <<emitted, latest_applied_sequence, client_world, applied>>
          /\ delivery' = delivery
      BY <2>5 DEF LoseSnapshot, CloseConnection, Wait, vars, serverVars, clientVars
    <3> QED
      BY <3>1, StreamStutter
  <2> QED
    BY <2>1, <2>2, <2>3, <2>4, <2>5 DEF Next
<1> QED
  BY <1>1, <1>2, InvariantHolds, PTL DEF Spec, StreamSpec, Stream!Spec
=============================================================================

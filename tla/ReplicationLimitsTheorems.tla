----------------------- MODULE ReplicationLimitsTheorems -----------------------
(***************************************************************************)
(* What snapshot replication to one peer never runs into, for every        *)
(* technique, delivery mode, bound and population: a capacity account that *)
(* drifts, a combination the encoder throws on, an update the client must  *)
(* refuse, a Patch over an aged baseline, a recovery request that is news  *)
(* to the server, a broken chain under reliable delivery.                  *)
(*                                                                         *)
(* SnapshotReplicationTheorems proves what is held and committed (Inv);    *)
(* the invariants here are inductive given Inv.                            *)
(***************************************************************************)
EXTENDS SnapshotReplicationTheorems

-----------------------------------------------------------------------------
(* The delivery state: its account and the order of its results. *)

\* The account of a delivery state: RetentionAccounted, of any delivery state.
Accounted(d) ==
    /\ d.retained_capacity_bytes = CapacityOf(d.submitted) + d.acknowledged.capacity_bytes
    /\ d.retained_capacity_bytes <= MaximumRetainedCapacity
    /\ Len(d.submitted) <= MaximumRetainedResults

\* The queue is in submission order behind the acknowledged result, and the newest
\* held result is the latest submitted one.
Ordered(d, time) ==
    /\ \A i \in 1..Len(d.submitted) : d.submitted[i].submitted_at <= time
    /\ \A i, j \in 1..Len(d.submitted) :
          i <= j => d.submitted[i].submitted_at <= d.submitted[j].submitted_at
    /\ HasResult(d.acknowledged) =>
          /\ d.acknowledged.submitted_at <= time
          /\ \A i \in 1..Len(d.submitted) :
                d.acknowledged.submitted_at <= d.submitted[i].submitted_at
    /\ Len(d.submitted) # 0 =>
          d.submitted[Len(d.submitted)].sequence = d.latest_submitted_sequence
    /\ Len(d.submitted) = 0 /\ HasResult(d.acknowledged) =>
          d.acknowledged.sequence = d.latest_submitted_sequence

\* No new record is queued to be sent again.
UpsertsKept(d, e) == DOMAIN e.recovery_upserts \subseteq DOMAIN d.recovery_upserts

\* Entering recovery touches neither the results nor the account.
LEMMA EnterKeeps ==
  ASSUME NEW d \in DeliveryStates, NEW reason
  PROVE  LET e == EnterSnapshotRecovery(d, reason)
         IN  /\ e.submitted = d.submitted /\ e.acknowledged = d.acknowledged
             /\ e.retained_capacity_bytes = d.retained_capacity_bytes
             /\ e.latest_submitted_sequence = d.latest_submitted_sequence
             /\ e.recovery_upserts = d.recovery_upserts
             /\ Accounted(d) => Accounted(e)
             /\ \A time : Ordered(d, time) => Ordered(e, time)
<1> DEFINE e == EnterSnapshotRecovery(d, reason)
<1>1. /\ e.submitted = d.submitted /\ e.acknowledged = d.acknowledged
      /\ e.retained_capacity_bytes = d.retained_capacity_bytes
      /\ e.latest_submitted_sequence = d.latest_submitted_sequence
      /\ e.recovery_upserts = d.recovery_upserts
  BY DEF EnterSnapshotRecovery, DeliveryStates
<1> HIDE DEF e
<1> QED
  BY <1>1 DEF Accounted, Ordered, e

\* Discarding the acknowledged replica takes exactly its capacity off the account.
LEMMA DiscardKeeps ==
  ASSUME NEW d \in DeliveryStates, NEW reason
  PROVE  LET e == DiscardAcknowledgedReplica(d, reason)
         IN  /\ UpsertsKept(d, e)
             /\ Accounted(d) => Accounted(e)
             /\ \A time : Ordered(d, time) => Ordered(e, time)
<1> DEFINE e == DiscardAcknowledgedReplica(d, reason)
<1>1. /\ e.submitted = d.submitted /\ e.acknowledged = NoResult
      /\ e.retained_capacity_bytes
           = d.retained_capacity_bytes - d.acknowledged.capacity_bytes
      /\ e.latest_submitted_sequence = d.latest_submitted_sequence
      /\ e.recovery_upserts = EmptySnapshot
  BY DEF DiscardAcknowledgedReplica, EnterSnapshotRecovery, DeliveryStates
<1>2. NoResult.capacity_bytes = 0 /\ ~HasResult(NoResult) /\ DOMAIN EmptySnapshot = {}
  BY NoResultType DEF NoResult, EmptySnapshot
<1>3. /\ d.acknowledged.capacity_bytes \in Nat /\ d.retained_capacity_bytes \in Int
      /\ CapacityOf(d.submitted) \in Nat
  BY DeliveryFields, ResultFields, CapacityOfType
<1> HIDE DEF e
<1>4. Accounted(d) => Accounted(e)
  BY <1>1, <1>2, <1>3, DeliveryBoundsAssumption DEF Accounted
<1>5. UpsertsKept(d, e)
  BY <1>1, <1>2 DEF UpsertsKept
<1>6. \A time : Ordered(d, time) => Ordered(e, time)
  BY <1>1, <1>2 DEF Ordered
<1> QED
  BY <1>4, <1>5, <1>6 DEF e

\* Remembering upserts touches neither the results nor the account.
LEMMA MergeKeeps ==
  ASSUME NEW d \in DeliveryStates, NEW update
  PROVE  LET e == MergeRecoveryUpserts(d, update)
         IN  /\ Accounted(d) => Accounted(e)
             /\ \A time : Ordered(d, time) => Ordered(e, time)
<1> DEFINE e == MergeRecoveryUpserts(d, update)
<1>1. /\ e.submitted = d.submitted /\ e.acknowledged = d.acknowledged
      /\ e.retained_capacity_bytes = d.retained_capacity_bytes
      /\ e.latest_submitted_sequence = d.latest_submitted_sequence
  BY DEF MergeRecoveryUpserts, EnterSnapshotRecovery, DeliveryStates
<1> HIDE DEF e
<1> QED
  BY <1>1 DEF Accounted, Ordered, e

\* The fields of the delivery state after a result is queued.
LEMMA CommitFields ==
  ASSUME NEW d \in DeliveryStates, NEW result \in Results,
         NEW plan, plan.evict_count \in 0..Len(d.submitted)
  PROVE  LET e == CommitSubmittedSnapshot(d, result, plan)
         IN  /\ e.submitted = Append(WithoutFirst(d.submitted, plan.evict_count), result)
             /\ e.acknowledged = d.acknowledged
             /\ e.retained_capacity_bytes
                  = d.retained_capacity_bytes
                      - CapacityOf(SubSeq(d.submitted, 1, plan.evict_count))
                      + result.capacity_bytes
             /\ e.latest_submitted_sequence = result.sequence
BY DEF CommitSubmittedSnapshot, DeliveryStates

\* A queued result the plan has room for is accounted.
LEMMA CommitAccounted ==
  ASSUME NEW d \in DeliveryStates, Accounted(d), NEW result \in Results,
         NEW plan, plan.evict_count \in 0..Len(d.submitted),
         RoomAfterEvicting(d, result.capacity_bytes, plan.evict_count)
  PROVE  Accounted(CommitSubmittedSnapshot(d, result, plan))
<1> DEFINE n == plan.evict_count
           e == CommitSubmittedSnapshot(d, result, plan)
           queue == WithoutFirst(d.submitted, n)
           freed == CapacityOf(SubSeq(d.submitted, 1, n))
<1>1. /\ e.submitted = Append(queue, result)
      /\ e.acknowledged = d.acknowledged
      /\ e.retained_capacity_bytes
           = d.retained_capacity_bytes - freed + result.capacity_bytes
  BY CommitFields
<1>2. /\ d.submitted \in Seq(Results) /\ Len(d.submitted) \in Nat
      /\ d.retained_capacity_bytes \in Int
      /\ d.acknowledged.capacity_bytes \in Nat /\ result.capacity_bytes \in Nat
  BY DeliveryFields, ResultFields
<1>3. /\ queue \in Seq(Results) /\ Len(queue) = Len(d.submitted) - n
      /\ freed + CapacityOf(queue) = CapacityOf(d.submitted)
  BY <1>2, WithoutFirstFacts, CapacitySplit
<1>4. freed \in Nat /\ CapacityOf(queue) \in Nat
  BY <1>2, <1>3, WithoutFirstFacts, CapacityOfType
<1>5. /\ CapacityOf(Append(queue, result)) = CapacityOf(queue) + result.capacity_bytes
      /\ Len(Append(queue, result)) = Len(queue) + 1
  BY <1>3, CapacityAppend
<1>6. /\ Len(d.submitted) - n < MaximumRetainedResults
      /\ d.retained_capacity_bytes - freed + result.capacity_bytes <= MaximumRetainedCapacity
  BY DEF RoomAfterEvicting
<1>7. d.retained_capacity_bytes = CapacityOf(d.submitted) + d.acknowledged.capacity_bytes
  BY DEF Accounted
<1>8. n \in Nat
  BY <1>2
<1> HIDE DEF e, queue, freed, n
<1>9. e.retained_capacity_bytes = CapacityOf(e.submitted) + e.acknowledged.capacity_bytes
  <2>1. CapacityOf(e.submitted) = CapacityOf(queue) + result.capacity_bytes
    BY <1>1, <1>5
  <2>2. PICK total, held, left, gone, added :
          /\ total = d.retained_capacity_bytes /\ held = d.acknowledged.capacity_bytes
          /\ left = CapacityOf(queue) /\ gone = freed /\ added = result.capacity_bytes
    OBVIOUS
  <2>3. /\ held \in Nat /\ left \in Nat /\ gone \in Nat /\ added \in Nat
        /\ total = gone + left + held
    BY ONLY <1>2, <1>3, <1>4, <1>7, <2>2
  <2>4. total - gone + added = left + added + held
    BY ONLY <2>3
  <2> QED
    BY ONLY <1>1, <2>1, <2>2, <2>4
<1>10. e.retained_capacity_bytes <= MaximumRetainedCapacity
  BY <1>1, <1>6
<1>11. Len(e.submitted) <= MaximumRetainedResults
  <2>1. Len(e.submitted) = Len(d.submitted) - n + 1
    BY <1>1, <1>3, <1>5
  <2> QED
    BY <1>2, <1>6, <1>8, <2>1, DeliveryBoundsAssumption
<1> QED
  BY <1>9, <1>10, <1>11 DEF Accounted, e

\* A result queued now is the newest.
LEMMA CommitOrdered ==
  ASSUME NEW d \in DeliveryStates, NEW time \in Nat, Ordered(d, time),
         NEW result \in Results, result.submitted_at = time,
         NEW plan, plan.evict_count \in 0..Len(d.submitted)
  PROVE  Ordered(CommitSubmittedSnapshot(d, result, plan), time)
<1> DEFINE n == plan.evict_count
           e == CommitSubmittedSnapshot(d, result, plan)
           queue == WithoutFirst(d.submitted, n)
<1>1. /\ e.submitted = Append(queue, result)
      /\ e.acknowledged = d.acknowledged
      /\ e.latest_submitted_sequence = result.sequence
  BY CommitFields
<1>2. d.submitted \in Seq(Results) /\ Len(d.submitted) \in Nat /\ n \in Nat
  BY DeliveryFields
<1>3. /\ queue \in Seq(Results) /\ Len(queue) = Len(d.submitted) - n
      /\ \A i \in 1..(Len(d.submitted) - n) : queue[i] = d.submitted[i + n]
  BY <1>2, WithoutFirstFacts
<1>4. /\ Len(e.submitted) = Len(queue) + 1
      /\ \A i \in 1..Len(queue) : e.submitted[i] = queue[i]
      /\ e.submitted[Len(queue) + 1] = result
  BY <1>1, <1>3
<1> HIDE DEF e, queue, n
<1>5. \A i \in 1..Len(e.submitted) :
         \/ /\ i <= Len(queue) /\ i + n \in 1..Len(d.submitted)
            /\ e.submitted[i] = d.submitted[i + n]
         \/ i = Len(queue) + 1 /\ e.submitted[i] = result
  <2> TAKE i \in 1..Len(e.submitted)
  <2>1. CASE i <= Len(queue)
    <3>1. i \in 1..Len(queue) /\ i + n \in 1..Len(d.submitted)
      BY <1>2, <1>3, <2>1
    <3>2. queue[i] = d.submitted[i + n]
      BY <1>3, <3>1
    <3> QED
      BY <1>4, <2>1, <3>1, <3>2
  <2>2. CASE ~(i <= Len(queue))
    <3>1. Len(queue) \in Nat /\ i \in Nat /\ i <= Len(queue) + 1
      BY <1>3, <1>4
    <3>2. i = Len(queue) + 1
      BY <2>2, <3>1
    <3> QED
      BY <1>4, <3>2
  <2> QED
    BY <2>1, <2>2
<1>6. \A i \in 1..Len(e.submitted) : e.submitted[i].submitted_at <= time
  BY <1>5 DEF Ordered
<1>7. \A i, j \in 1..Len(e.submitted) :
         i <= j => e.submitted[i].submitted_at <= e.submitted[j].submitted_at
  <2> SUFFICES ASSUME NEW i \in 1..Len(e.submitted), NEW j \in 1..Len(e.submitted), i <= j
               PROVE  e.submitted[i].submitted_at <= e.submitted[j].submitted_at
    OBVIOUS
  <2>1. CASE j = Len(queue) + 1
    BY <1>4, <1>6, <2>1
  <2>2. CASE j # Len(queue) + 1
    <3>1. /\ j + n \in 1..Len(d.submitted) /\ e.submitted[j] = d.submitted[j + n]
          /\ i + n \in 1..Len(d.submitted) /\ e.submitted[i] = d.submitted[i + n]
      BY <1>3, <1>4, <1>5, <2>2
    <3>2. i + n <= j + n
      BY <1>2, <1>4
    <3> QED
      BY <3>1, <3>2 DEF Ordered
  <2> QED
    BY <2>1, <2>2
<1>8. HasResult(e.acknowledged) =>
         /\ e.acknowledged.submitted_at <= time
         /\ \A i \in 1..Len(e.submitted) :
               e.acknowledged.submitted_at <= e.submitted[i].submitted_at
  BY <1>1, <1>5 DEF Ordered
<1>9. Len(e.submitted) # 0
      /\ e.submitted[Len(e.submitted)].sequence = e.latest_submitted_sequence
  BY <1>1, <1>3, <1>4
<1> QED
  BY <1>6, <1>7, <1>8, <1>9 DEF Ordered, e

\* Committing an emission that the plan has room for keeps account and order.
LEMMA CommittedKeeps ==
  ASSUME NEW d \in DeliveryStates, NEW encoded, encoded.update \in Updates, now \in Nat,
         SubmittedResult(encoded) \in Results,
         NEW plan, plan.evict_count \in 0..Len(d.submitted),
         RoomAfterEvicting(d, encoded.capacity_bytes, plan.evict_count)
  PROVE  LET e == CommittedDelivery(d, encoded, plan)
         IN  /\ e.latest_submitted_sequence = encoded.sequence
             /\ Accounted(d) => Accounted(e)
             /\ Ordered(d, now) => Ordered(e, now)
<1> DEFINE result == SubmittedResult(encoded)
           a == IF TracksUpserts(encoded) THEN MergeRecoveryUpserts(d, encoded.update) ELSE d
           b == CommitSubmittedSnapshot(a, result, plan)
           c == EnterSnapshotRecovery(b, "AckStalled")
           e == CommittedDelivery(d, encoded, plan)
<1>1. /\ result.capacity_bytes = encoded.capacity_bytes
      /\ result.submitted_at = now /\ result.sequence = encoded.sequence
  BY DEF SubmittedResult
<1> HIDE DEF result
<1>2. /\ a \in DeliveryStates /\ a.submitted = d.submitted
      /\ Accounted(d) => Accounted(a)
      /\ Ordered(d, now) => Ordered(a, now)
  BY MergeKeeps, MergeRecoveryUpsertsFacts
<1>3. a.retained_capacity_bytes = d.retained_capacity_bytes
  BY DEF MergeRecoveryUpserts, EnterSnapshotRecovery, DeliveryStates
<1> HIDE DEF a
<1>4. RoomAfterEvicting(a, result.capacity_bytes, plan.evict_count)
  BY <1>1, <1>2, <1>3 DEF RoomAfterEvicting
<1>5. /\ b \in DeliveryStates
      /\ b.latest_submitted_sequence = result.sequence
      /\ Accounted(a) => Accounted(b)
      /\ Ordered(a, now) => Ordered(b, now)
  BY <1>1, <1>2, <1>4, CommitSubmittedSnapshotFacts, CommitAccounted, CommitOrdered DEF result
<1> HIDE DEF b
<1>6. /\ c.latest_submitted_sequence = b.latest_submitted_sequence
      /\ Accounted(b) => Accounted(c)
      /\ Ordered(b, now) => Ordered(c, now)
  BY <1>5, EnterKeeps
<1> HIDE DEF c
<1>7. e = b \/ e = c
  BY DEF CommittedDelivery, a, b, c, result
<1> HIDE DEF e
<1> QED
  BY <1>1, <1>2, <1>5, <1>6, <1>7 DEF e

\* The fields of the delivery state after a promotion.
LEMMA PromotedFields ==
  ASSUME NEW d \in DeliveryStates, NEW index \in 1..Len(d.submitted)
  PROVE  LET e == PromotedDelivery(d, index)
         IN  /\ e.submitted = WithoutFirst(d.submitted, index)
             /\ e.acknowledged = d.submitted[index]
             /\ e.retained_capacity_bytes
                  = d.retained_capacity_bytes - CapacityOf(SubSeq(d.submitted, 1, index))
                      - d.acknowledged.capacity_bytes + d.submitted[index].capacity_bytes
             /\ e.latest_submitted_sequence = d.latest_submitted_sequence
             /\ UpsertsKept(d, e)
<1> DEFINE e == PromotedDelivery(d, index)
           remaining == WithoutFirst(d.submitted, index)
<1>1. /\ e.submitted = remaining
      /\ e.acknowledged = d.submitted[index]
      /\ e.retained_capacity_bytes
           = d.retained_capacity_bytes - CapacityOf(SubSeq(d.submitted, 1, index))
               - d.acknowledged.capacity_bytes + d.submitted[index].capacity_bytes
      /\ e.latest_submitted_sequence = d.latest_submitted_sequence
      /\ e.recovery_upserts
           = IF remaining = << >> THEN EmptySnapshot
             ELSE OutstandingRecoveryUpserts(d.recovery_upserts, Last(remaining).snapshot,
                                             d.submitted[index].snapshot)
  BY DEF PromotedDelivery, DeliveryStates
<1>2. DOMAIN EmptySnapshot = {}
  BY DEF EmptySnapshot
<1> HIDE DEF e, remaining
<1>3. UpsertsKept(d, e)
  BY <1>1, <1>2 DEF UpsertsKept, OutstandingRecoveryUpserts, Restricted
<1> QED
  BY <1>1, <1>3 DEF e, remaining

\* A promotion frees what leaves the queue and the old acknowledged result.
LEMMA PromotedAccounted ==
  ASSUME NEW d \in DeliveryStates, Accounted(d), NEW index \in 1..Len(d.submitted)
  PROVE  Accounted(PromotedDelivery(d, index))
<1> DEFINE e == PromotedDelivery(d, index)
           remaining == WithoutFirst(d.submitted, index)
           freed == CapacityOf(SubSeq(d.submitted, 1, index))
           promoted == d.submitted[index]
<1>1. /\ e.submitted = remaining /\ e.acknowledged = promoted
      /\ e.retained_capacity_bytes = d.retained_capacity_bytes - freed
           - d.acknowledged.capacity_bytes + promoted.capacity_bytes
  BY PromotedFields
<1>2. /\ d.submitted \in Seq(Results) /\ Len(d.submitted) \in Nat
      /\ d.retained_capacity_bytes \in Int
      /\ d.acknowledged.capacity_bytes \in Nat /\ promoted.capacity_bytes \in Nat
  BY DeliveryFields, ResultFields
<1>3. index \in 0..Len(d.submitted) /\ index # 0 /\ index \in Nat
  BY <1>2
<1>4. /\ remaining \in Seq(Results) /\ Len(remaining) = Len(d.submitted) - index
      /\ freed + CapacityOf(remaining) = CapacityOf(d.submitted)
      /\ promoted.capacity_bytes <= freed
  BY <1>2, <1>3, WithoutFirstFacts, CapacitySplit
<1>5. freed \in Nat /\ CapacityOf(remaining) \in Nat
  BY <1>2, <1>3, <1>4, WithoutFirstFacts, CapacityOfType
<1>6. /\ d.retained_capacity_bytes = CapacityOf(d.submitted) + d.acknowledged.capacity_bytes
      /\ d.retained_capacity_bytes <= MaximumRetainedCapacity
      /\ Len(d.submitted) <= MaximumRetainedResults
  BY DEF Accounted
<1> HIDE DEF e, remaining, freed, promoted
<1>7. e.retained_capacity_bytes = CapacityOf(e.submitted) + e.acknowledged.capacity_bytes
  <2>1. \A f, rest, old, added \in Nat : (f + rest) + old - f - old + added = rest + added
    OBVIOUS
  <2>2. d.retained_capacity_bytes = (freed + CapacityOf(remaining)) + d.acknowledged.capacity_bytes
    BY <1>4, <1>6
  <2>3. e.retained_capacity_bytes = CapacityOf(remaining) + promoted.capacity_bytes
    BY ONLY <1>1, <1>2, <1>5, <2>1, <2>2
  <2> QED
    BY <1>1, <2>3
<1>8. e.retained_capacity_bytes <= MaximumRetainedCapacity
  <2>1. \A before, limit \in Int : \A f, old, added \in Nat :
           added <= f /\ before <= limit => before - f - old + added <= limit
    OBVIOUS
  <2>2. MaximumRetainedCapacity \in Int
    BY DeliveryBoundsAssumption
  <2>3. d.retained_capacity_bytes - freed - d.acknowledged.capacity_bytes + promoted.capacity_bytes
          <= MaximumRetainedCapacity
    BY ONLY <1>2, <1>4, <1>5, <1>6, <2>1, <2>2
  <2> QED
    BY ONLY <1>1, <2>3
<1>9. Len(e.submitted) <= MaximumRetainedResults
  BY <1>1, <1>2, <1>3, <1>4, <1>6, DeliveryBoundsAssumption
<1> QED
  BY <1>7, <1>8, <1>9 DEF Accounted, e

\* A promotion keeps the order: what leaves the queue is older than what stays.
LEMMA PromotedOrdered ==
  ASSUME NEW d \in DeliveryStates, NEW time, Ordered(d, time),
         NEW index \in 1..Len(d.submitted)
  PROVE  Ordered(PromotedDelivery(d, index), time)
<1> DEFINE e == PromotedDelivery(d, index)
           remaining == WithoutFirst(d.submitted, index)
<1>1. /\ e.submitted = remaining /\ e.acknowledged = d.submitted[index]
      /\ e.latest_submitted_sequence = d.latest_submitted_sequence
  BY PromotedFields
<1>2. d.submitted \in Seq(Results) /\ Len(d.submitted) \in Nat
      /\ index \in 0..Len(d.submitted) /\ index \in Nat
  BY DeliveryFields
<1>3. /\ remaining \in Seq(Results) /\ Len(remaining) = Len(d.submitted) - index
      /\ \A i \in 1..(Len(d.submitted) - index) : remaining[i] = d.submitted[i + index]
  BY <1>2, WithoutFirstFacts
<1> HIDE DEF e, remaining
<1>4. /\ Len(e.submitted) = Len(d.submitted) - index
      /\ \A i \in 1..Len(e.submitted) :
            i + index \in 1..Len(d.submitted) /\ e.submitted[i] = d.submitted[i + index]
  BY <1>1, <1>2, <1>3
<1>5. \A i, j \in 1..Len(e.submitted) : i <= j => i + index <= j + index
  BY <1>2, <1>4
<1>6. \A i \in 1..Len(e.submitted) : index <= i + index
  BY <1>2, <1>4
<1>7. Len(e.submitted) # 0 =>
         e.submitted[Len(e.submitted)] = d.submitted[Len(d.submitted)]
  <2>1. Len(e.submitted) \in Nat /\ Len(e.submitted) + index = Len(d.submitted)
    BY <1>1, <1>2, <1>3, <1>4
  <2>2. Len(e.submitted) # 0 => Len(e.submitted) \in 1..Len(e.submitted)
    BY <2>1
  <2> QED
    BY <1>4, <2>1, <2>2
<1>8. Len(e.submitted) = 0 => e.acknowledged = d.submitted[Len(d.submitted)]
  BY <1>1, <1>2, <1>4
<1>9. Len(d.submitted) # 0
  BY <1>2
<1> QED
  BY <1>1, <1>4, <1>5, <1>6, <1>7, <1>8, <1>9 DEF Ordered, e

\* An acknowledgement keeps account and order.
LEMMA PromoteKeeps ==
  ASSUME NEW d \in DeliveryStates, NEW sequence \in Nat
  PROVE  LET e == PromoteSnapshotAck(d, sequence)
         IN  /\ UpsertsKept(d, e)
             /\ Accounted(d) => Accounted(e)
             /\ \A time : Ordered(d, time) => Ordered(e, time)
             /\ sequence <= d.latest_submitted_sequence =>
                   e.recovery_active \/ e.latest_acknowledged_sequence >= sequence
<1> DEFINE positions == {i \in 1..Len(d.submitted) : d.submitted[i].sequence = sequence}
           e == PromoteSnapshotAck(d, sequence)
<1>1. Len(d.submitted) \in Nat /\ d.latest_acknowledged_sequence \in Nat
      /\ d.latest_submitted_sequence \in Nat
  BY DeliveryFields
<1>2. CASE sequence <= d.latest_acknowledged_sequence \/ sequence > d.latest_submitted_sequence
  <2>1. e = d
    BY <1>2 DEF PromoteSnapshotAck
  <2>2. sequence <= d.latest_submitted_sequence => d.latest_acknowledged_sequence >= sequence
    BY <1>1, <1>2
  <2> QED
    BY <2>1, <2>2 DEF UpsertsKept
<1>3. CASE /\ ~(sequence <= d.latest_acknowledged_sequence)
           /\ ~(sequence > d.latest_submitted_sequence)
           /\ positions = {}
  <2> DEFINE f == EnterSnapshotRecovery(d, "MissingRetainedResult")
  <2>1. e = f
    BY <1>3 DEF PromoteSnapshotAck
  <2>2. f.recovery_active
    BY EnterSnapshotRecoveryFacts DEF RecoveryReasons
  <2>3. /\ f.recovery_upserts = d.recovery_upserts
        /\ Accounted(d) => Accounted(f)
        /\ \A time : Ordered(d, time) => Ordered(f, time)
    BY EnterKeeps
  <2> HIDE DEF e, f
  <2> QED
    BY <2>1, <2>2, <2>3 DEF UpsertsKept, e
<1>4. CASE /\ ~(sequence <= d.latest_acknowledged_sequence)
           /\ ~(sequence > d.latest_submitted_sequence)
           /\ positions # {}
  <2> DEFINE index == Min(positions)
             f == PromotedDelivery(d, index)
  <2>1. e = f
    BY <1>4 DEF PromoteSnapshotAck
  <2>2. positions \in SUBSET Nat
    BY <1>1
  <2>3. Min(positions) \in positions
    BY <1>4, <2>2, MinIn
  <2>4. index \in 1..Len(d.submitted) /\ d.submitted[index].sequence = sequence
    BY <2>3
  <2> HIDE DEF index
  <2>5. /\ f.latest_acknowledged_sequence = sequence
        /\ UpsertsKept(d, f)
        /\ Accounted(d) => Accounted(f)
        /\ \A time : Ordered(d, time) => Ordered(f, time)
    BY <2>4, PromotedDeliveryFacts, PromotedFields, PromotedAccounted, PromotedOrdered
  <2> HIDE DEF e, f
  <2> QED
    BY <2>1, <2>5 DEF e
<1> QED
  BY <1>2, <1>3, <1>4

\* Expiry frees what it drops, keeps the order and leaves no expired result held.
LEMMA ExpireKeeps ==
  ASSUME NEW d \in DeliveryStates, NEW time \in Nat
  PROVE  LET e == ExpireRetainedSnapshots(d, time)
         IN  /\ UpsertsKept(d, e)
             /\ Accounted(d) => Accounted(e)
             /\ Ordered(d, time) =>
                   /\ Ordered(e, time)
                   /\ \A r \in HeldResults(e) : ~Expired(r, time)
<1> DEFINE stops == {n \in 0..Len(d.submitted) :
                        n < Len(d.submitted) => ~Expired(d.submitted[n + 1], time)}
           first == Min(stops)
           queue == WithoutFirst(d.submitted, first)
           freed == CapacityOf(SubSeq(d.submitted, 1, first))
           trimmed == [d EXCEPT !.submitted = queue,
                                !.retained_capacity_bytes = d.retained_capacity_bytes - freed]
           discarded == DiscardAcknowledgedReplica(trimmed, "BaselineExpired")
           e == ExpireRetainedSnapshots(d, time)
<1>1. /\ d.submitted \in Seq(Results) /\ d.retained_capacity_bytes \in Int
      /\ Len(d.submitted) \in Nat
      /\ d.acknowledged \in Results /\ d.acknowledged.capacity_bytes \in Nat
      /\ d.acknowledged.submitted_at \in Nat
      /\ \A i \in 1..Len(d.submitted) : d.submitted[i].submitted_at \in Nat
  BY DeliveryFields, ResultFields
<1>2. stops \in SUBSET Nat /\ Len(d.submitted) \in stops
  BY <1>1
<1>3. /\ first \in 0..Len(d.submitted)
      /\ first < Len(d.submitted) => ~Expired(d.submitted[first + 1], time)
      /\ \A n \in stops : first <= n
  <2> HIDE DEF stops
  <2>1. Min(stops) \in stops /\ \A n \in stops : Min(stops) <= n
    BY <1>2, MinIn
  <2> QED
    BY <2>1 DEF stops
<1>4. \A i \in 1..first : Expired(d.submitted[i], time)
  <2> HIDE DEF first
  <2> TAKE i \in 1..first
  <2>1. i - 1 \in 0..Len(d.submitted) /\ i - 1 < Len(d.submitted) /\ (i - 1) + 1 = i
        /\ ~(first <= i - 1)
    BY <1>1, <1>3
  <2>2. i - 1 \notin stops
    BY <1>3, <2>1
  <2> QED
    BY <2>1, <2>2
<1> HIDE DEF first, stops
<1>5. first \in Nat
  BY <1>1, <1>3
<1>6. /\ queue \in Seq(Results) /\ Len(queue) = Len(d.submitted) - first
      /\ \A i \in 1..(Len(d.submitted) - first) : queue[i] = d.submitted[i + first]
      /\ freed + CapacityOf(queue) = CapacityOf(d.submitted)
  BY <1>1, <1>3, WithoutFirstFacts, CapacitySplit
<1>7. freed \in Nat /\ CapacityOf(queue) \in Nat /\ CapacityOf(d.submitted) \in Nat
  BY <1>1, <1>3, <1>6, WithoutFirstFacts, CapacityOfType
<1>8. e = IF HasResult(d.acknowledged) /\ Expired(d.acknowledged, time)
          THEN discarded ELSE trimmed
  BY DEF ExpireRetainedSnapshots, DeliveryStates, first, stops
<1> HIDE DEF queue, freed
<1>9. trimmed \in DeliveryStates
  <2>1. d.retained_capacity_bytes - freed \in Int
    BY <1>1, <1>7
  <2> QED
    BY <1>6, <2>1 DEF DeliveryStates
<1>10. /\ trimmed.submitted = queue /\ trimmed.acknowledged = d.acknowledged
       /\ trimmed.retained_capacity_bytes = d.retained_capacity_bytes - freed
       /\ trimmed.latest_submitted_sequence = d.latest_submitted_sequence
       /\ trimmed.recovery_upserts = d.recovery_upserts
  BY DEF DeliveryStates
<1> HIDE DEF trimmed
<1>11. ASSUME Accounted(d) PROVE Accounted(trimmed)
  <2>1. /\ d.retained_capacity_bytes = CapacityOf(d.submitted) + d.acknowledged.capacity_bytes
        /\ d.retained_capacity_bytes <= MaximumRetainedCapacity
        /\ Len(d.submitted) <= MaximumRetainedResults
    BY <1>11 DEF Accounted
  <2>2. trimmed.retained_capacity_bytes
          = CapacityOf(trimmed.submitted) + trimmed.acknowledged.capacity_bytes
    BY <1>1, <1>6, <1>7, <1>10, <2>1
  <2>3. trimmed.retained_capacity_bytes <= MaximumRetainedCapacity
    BY <1>1, <1>7, <1>10, <2>1, DeliveryBoundsAssumption
  <2>4. Len(trimmed.submitted) <= MaximumRetainedResults
    BY <1>1, <1>5, <1>6, <1>10, <2>1, DeliveryBoundsAssumption
  <2> QED
    BY <2>2, <2>3, <2>4 DEF Accounted
<1>12. /\ UpsertsKept(trimmed, discarded)
       /\ Accounted(trimmed) => Accounted(discarded)
       /\ discarded.submitted = trimmed.submitted /\ discarded.acknowledged = NoResult
       /\ discarded.latest_submitted_sequence = trimmed.latest_submitted_sequence
  BY <1>9, DiscardKeeps, DiscardAcknowledgedReplicaFacts DEF RecoveryReasons
<1> HIDE DEF discarded
<1>13. /\ e.submitted = queue
       /\ e.latest_submitted_sequence = d.latest_submitted_sequence
       /\ \/ /\ e.acknowledged = d.acknowledged
             /\ HasResult(d.acknowledged) => ~Expired(d.acknowledged, time)
          \/ e.acknowledged = NoResult
  BY <1>8, <1>10, <1>12
<1>14. /\ UpsertsKept(d, e)
       /\ Accounted(d) => Accounted(e)
  BY <1>8, <1>10, <1>11, <1>12 DEF UpsertsKept
<1> HIDE DEF e
<1>15. ASSUME Ordered(d, time)
       PROVE  Ordered(e, time) /\ \A r \in HeldResults(e) : ~Expired(r, time)
  <2>1. /\ Len(e.submitted) = Len(d.submitted) - first
        /\ \A i \in 1..Len(e.submitted) :
              i + first \in 1..Len(d.submitted) /\ e.submitted[i] = d.submitted[i + first]
    BY <1>1, <1>5, <1>6, <1>13
  <2>2. \A i, j \in 1..Len(e.submitted) : i <= j => i + first <= j + first
    BY <1>1, <1>5, <2>1
  <2>3. ~HasResult(NoResult)
    BY NoResultType
  <2>4. Len(e.submitted) # 0 => e.submitted[Len(e.submitted)] = d.submitted[Len(d.submitted)]
    <3>1. Len(e.submitted) \in Nat /\ Len(e.submitted) + first = Len(d.submitted)
      BY <1>1, <1>3, <1>5, <2>1
    <3>2. Len(e.submitted) # 0 => Len(e.submitted) \in 1..Len(e.submitted)
      BY <3>1
    <3> QED
      BY <2>1, <3>1, <3>2
  <2>5. Len(e.submitted) = 0 /\ Len(d.submitted) # 0 => ~HasResult(e.acknowledged)
    <3> SUFFICES ASSUME Len(e.submitted) = 0, Len(d.submitted) # 0,
                        HasResult(e.acknowledged)
                 PROVE  FALSE
      OBVIOUS
    <3>1. /\ e.acknowledged = d.acknowledged /\ HasResult(d.acknowledged)
          /\ ~Expired(d.acknowledged, time)
      BY <1>13, <2>3
    <3>2. Len(d.submitted) \in 1..first /\ Len(d.submitted) \in 1..Len(d.submitted)
      BY <1>1, <1>5, <2>1
    <3>3. /\ Expired(d.submitted[Len(d.submitted)], time)
          /\ d.acknowledged.submitted_at <= d.submitted[Len(d.submitted)].submitted_at
      BY <1>4, <1>15, <3>1, <3>2 DEF Ordered
    <3>4. d.submitted[Len(d.submitted)].submitted_at \in Nat
      BY <1>1, <3>2
    <3> QED
      BY <1>1, <3>1, <3>3, <3>4, DeliveryBoundsAssumption DEF Expired
  <2>6. Ordered(e, time)
    <3>1. /\ \A i \in 1..Len(e.submitted) : e.submitted[i].submitted_at <= time
          /\ \A i, j \in 1..Len(e.submitted) :
                i <= j => e.submitted[i].submitted_at <= e.submitted[j].submitted_at
      BY <1>15, <2>1, <2>2 DEF Ordered
    <3>2. HasResult(e.acknowledged) =>
             /\ e.acknowledged.submitted_at <= time
             /\ \A i \in 1..Len(e.submitted) :
                   e.acknowledged.submitted_at <= e.submitted[i].submitted_at
      BY <1>13, <1>15, <2>1, <2>3 DEF Ordered
    <3>3. Len(e.submitted) # 0 =>
             e.submitted[Len(e.submitted)].sequence = e.latest_submitted_sequence
      <4>1. Len(e.submitted) # 0 => Len(d.submitted) # 0
        BY <1>1, <1>5, <2>1
      <4> QED
        BY <1>13, <1>15, <2>4, <4>1 DEF Ordered
    <3>4. Len(e.submitted) = 0 /\ HasResult(e.acknowledged) =>
             e.acknowledged.sequence = e.latest_submitted_sequence
      BY <1>13, <1>15, <2>3, <2>5 DEF Ordered
    <3> QED
      BY <3>1, <3>2, <3>3, <3>4 DEF Ordered
  <2>7. \A i \in 1..Len(e.submitted) : ~Expired(e.submitted[i], time)
    <3> TAKE i \in 1..Len(e.submitted)
    <3>1. /\ i + first \in 1..Len(d.submitted) /\ e.submitted[i] = d.submitted[i + first]
          /\ first + 1 \in 1..Len(d.submitted) /\ first + 1 <= i + first
          /\ first < Len(d.submitted)
      BY <1>1, <1>5, <2>1
    <3>2. /\ ~Expired(d.submitted[first + 1], time)
          /\ d.submitted[first + 1].submitted_at <= d.submitted[i + first].submitted_at
      BY <1>3, <1>15, <3>1 DEF Ordered
    <3>3. d.submitted[first + 1].submitted_at \in Nat /\ d.submitted[i + first].submitted_at \in Nat
      BY <1>1, <3>1
    <3>4. \A older, newer \in Nat :
             older <= newer /\ ~(time - older > MaximumResultAge)
                => ~(time - newer > MaximumResultAge)
      BY DeliveryBoundsAssumption
    <3>5. ~(time - d.submitted[i + first].submitted_at > MaximumResultAge)
      BY <3>2, <3>3, <3>4 DEF Expired
    <3> QED
      BY <3>1, <3>5 DEF Expired
  <2>8. HasResult(e.acknowledged) => ~Expired(e.acknowledged, time)
    BY <1>13, <2>3
  <2> QED
    BY <2>6, <2>7, <2>8 DEF HeldResults
<1> QED
  BY <1>14, <1>15 DEF e

\* Before it encodes, a tick keeps account and order, holds no expired result, and
\* outside recovery has an acknowledged result and the replica a partial Patch needs.
LEMMA PreparedKeeps ==
  ASSUME delivery \in DeliveryStates, now \in Nat
  PROVE  LET d == PreparedDelivery
         IN  /\ UpsertsKept(delivery, d)
             /\ Accounted(delivery) => Accounted(d)
             /\ Ordered(delivery, now) =>
                   Ordered(d, now) /\ \A r \in HeldResults(d) : ~Expired(r, now)
             /\ ~d.recovery_active =>
                   /\ HasResult(d.acknowledged)
                   /\ PatchesReplica(pipeline, d) => HasResult(LatestReplica(d))
<1> DEFINE a == ExpireRetainedSnapshots(delivery, now)
           b == RecoveryChecked(a)
           c == EnterSnapshotRecovery(b, "MissingRetainedResult")
           d == PreparedDelivery
<1>1. /\ a \in DeliveryStates
      /\ UpsertsKept(delivery, a)
      /\ Accounted(delivery) => Accounted(a)
      /\ Ordered(delivery, now) =>
            Ordered(a, now) /\ \A r \in HeldResults(a) : ~Expired(r, now)
  BY ExpireRetainedSnapshotsFacts, ExpireKeeps
<1> HIDE DEF a
<1>2. /\ b \in DeliveryStates
      /\ HeldResults(b) = HeldResults(a)
      /\ b.acknowledged = a.acknowledged
  BY <1>1, RecoveryCheckedFacts
<1>3. \E reason : b = a \/ b = EnterSnapshotRecovery(a, reason)
  <2>1. CASE ~a.recovery_active /\ ~HasResult(a.acknowledged)
    BY <2>1 DEF RecoveryChecked
  <2>2. CASE ~a.recovery_active /\ HasResult(a.acknowledged) /\ Stalled(a)
    BY <2>2 DEF RecoveryChecked
  <2>3. CASE a.recovery_active \/ (HasResult(a.acknowledged) /\ ~Stalled(a))
    BY <2>3 DEF RecoveryChecked
  <2> QED
    BY <2>1, <2>2, <2>3
<1>4. /\ UpsertsKept(a, b)
      /\ Accounted(a) => Accounted(b)
      /\ Ordered(a, now) => Ordered(b, now)
  BY <1>1, <1>3, EnterKeeps DEF UpsertsKept
<1>5. ~b.recovery_active => HasResult(b.acknowledged)
  <2>1. CASE ~a.recovery_active /\ ~HasResult(a.acknowledged)
    <3>1. b = EnterSnapshotRecovery(a, "NoAcknowledgedBaseline")
      BY <2>1 DEF RecoveryChecked
    <3> QED
      BY <1>1, <3>1, EnterSnapshotRecoveryFacts DEF RecoveryReasons
  <2>2. CASE a.recovery_active
    BY <1>1, <2>2, RecoveryCheckedFacts
  <2>3. CASE HasResult(a.acknowledged)
    BY <1>2, <2>3
  <2> QED
    BY <2>1, <2>2, <2>3
<1> HIDE DEF b
<1>6. /\ HeldResults(c) = HeldResults(b) /\ c.recovery_active
      /\ UpsertsKept(b, c)
      /\ Accounted(b) => Accounted(c)
      /\ Ordered(b, now) => Ordered(c, now)
  BY <1>2, EnterKeeps, EnterSnapshotRecoveryFacts DEF RecoveryReasons, UpsertsKept
<1> HIDE DEF c
<1>7. d = IF PatchesReplica(pipeline, b) /\ ~HasResult(LatestReplica(b)) THEN c ELSE b
  BY DEF PreparedDelivery, a, b, c
<1> HIDE DEF d
<1>8. /\ UpsertsKept(delivery, d)
      /\ Accounted(delivery) => Accounted(d)
      /\ Ordered(delivery, now) =>
            Ordered(d, now) /\ \A r \in HeldResults(d) : ~Expired(r, now)
  BY <1>1, <1>2, <1>4, <1>6, <1>7 DEF UpsertsKept
<1>9. ~d.recovery_active => HasResult(d.acknowledged)
  BY <1>5, <1>6, <1>7
<1>10. ~d.recovery_active =>
          (PatchesReplica(pipeline, d) => HasResult(LatestReplica(d)))
  BY <1>6, <1>7
<1> QED
  BY <1>8, <1>9, <1>10 DEF d

-----------------------------------------------------------------------------
(* The invariant of the delivery state.  RetentionAccounted is inductive     *)
(* with the types; NextEncodeAccepted and PatchBaselineFresh rest on the     *)
(* order of the held results, on the submitted sequence following the        *)
(* emissions and on a partial technique being seeded by the first emission.  *)

\* After the first emission a partial technique has sent its first FullReplace.
Seeded ==
    emitted # << >> =>
       /\ LevelOfDetail => pipeline.level_of_detail_seeded
       /\ ReplicaIncremental => pipeline.incremental_seeded

DeliveryKept ==
    /\ Accounted(delivery)
    /\ Ordered(delivery, now)
    /\ delivery.latest_submitted_sequence = Len(emitted)
    /\ DOMAIN delivery.recovery_upserts # {} => emitted # << >>
    /\ Seeded

\* A freshly joined peer's delivery state.
LEMMA InitDeliveryKept == Init => DeliveryKept
<1> SUFFICES ASSUME Init PROVE DeliveryKept
  OBVIOUS
<1>1. /\ delivery.submitted = << >> /\ delivery.acknowledged = NoResult
      /\ delivery.retained_capacity_bytes = 0
      /\ delivery.latest_submitted_sequence = 0
      /\ delivery.recovery_upserts = EmptySnapshot
      /\ emitted = << >>
  BY DEF Init, InitialDelivery
<1>2. CapacityOf(<< >>) = 0 /\ NoResult.capacity_bytes = 0 /\ ~HasResult(NoResult)
      /\ DOMAIN EmptySnapshot = {}
  BY CapacityOfNone, NoResultType DEF NoResult, EmptySnapshot
<1>3. Accounted(delivery)
  BY <1>1, <1>2, DeliveryBoundsAssumption DEF Accounted
<1>4. Ordered(delivery, now)
  BY <1>1, <1>2 DEF Ordered
<1> QED
  BY <1>1, <1>2, <1>3, <1>4 DEF DeliveryKept, Seeded

\* A partial technique that is not seeded yet encodes no Patch.
LEMMA UnseededEncodesNoPatch ==
  ASSUME NEW input, ~EncodeRejects(pipeline, input)
  PROVE  /\ LevelOfDetail /\ ~pipeline.level_of_detail_seeded => ~EmitPatch(pipeline, input)
         /\ ReplicaIncremental /\ ~pipeline.incremental_seeded => ~EmitPatch(pipeline, input)
<1>1. LevelOfDetail /\ ~pipeline.level_of_detail_seeded => ~HasResult(input.baseline)
  BY DEF EncodeRejects
<1>2. LevelOfDetail /\ ~pipeline.level_of_detail_seeded => ~EmitPatch(pipeline, input)
  BY <1>1 DEF EmitPatch, EmitDelta, ScheduleIncremental, ScheduleLevelOfDetail
<1>3. ReplicaIncremental /\ ~pipeline.incremental_seeded => ~EmitPatch(pipeline, input)
  BY DEF EmitPatch, EmitDelta, ScheduleIncremental, ScheduleLevelOfDetail, SeedIncremental,
         ReplicaIncremental
<1> QED
  BY <1>2, <1>3

\* A committed emission seeds the partial techniques.
LEMMA CommitSeeds ==
  ASSUME Seeded, NEW input, ~EncodeRejects(pipeline, input),
         pipeline' = AdvancedPipeline(pipeline, input)
  PROVE  /\ LevelOfDetail => pipeline'.level_of_detail_seeded
         /\ ReplicaIncremental => pipeline'.incremental_seeded
<1>1. /\ pipeline'.incremental_seeded
           = (pipeline.incremental_seeded \/ (Incremental /\ ~EmitPatch(pipeline, input)))
      /\ pipeline'.level_of_detail_seeded
           = (pipeline.level_of_detail_seeded \/ (LevelOfDetail /\ ~EmitPatch(pipeline, input)))
  BY DEF AdvancedPipeline
<1>2. ReplicaIncremental => Incremental
  BY DEF ReplicaIncremental
<1> QED
  BY <1>1, <1>2, UnseededEncodesNoPatch

\* A server step that emits nothing.
LEMMA ServerStepKeeps ==
  ASSUME DeliveryKept,
         Accounted(delivery) => Accounted(delivery'),
         Ordered(delivery, now) => Ordered(delivery', now),
         UpsertsKept(delivery, delivery'),
         delivery'.latest_submitted_sequence = delivery.latest_submitted_sequence,
         UNCHANGED <<now, pipeline, emitted>>
  PROVE  DeliveryKept'
<1>1. DOMAIN delivery'.recovery_upserts # {} => DOMAIN delivery.recovery_upserts # {}
  BY DEF UpsertsKept
<1>2. Accounted(delivery)' /\ Ordered(delivery, now)' /\ Seeded'
  BY DEF DeliveryKept, Accounted, Ordered, Seeded
<1> QED
  BY <1>1, <1>2 DEF DeliveryKept

\* A committed emission keeps the delivery state.
LEMMA CommitEmissionKeeps ==
  ASSUME Inv, DeliveryKept, NEW source \in SourceSnapshots, NEW due,
         ~EncodeRejects(pipeline, EncodeInput(PreparedDelivery, source)),
         CommitEmission(PreparedDelivery,
                        Encoded(pipeline, EncodeInput(PreparedDelivery, source), due)),
         pipeline' = AdvancedPipeline(pipeline, EncodeInput(PreparedDelivery, source)),
         now' = now
  PROVE  DeliveryKept'
<1> DEFINE d       == PreparedDelivery
           input   == EncodeInput(d, source)
           encoded == Encoded(pipeline, input, due)
           plan    == PlanSnapshotRetention(d, encoded.capacity_bytes)
           e       == CommittedDelivery(d, encoded, plan)
<1>1. /\ d \in DeliveryStates
      /\ encoded.update \in Updates /\ SubmittedResult(encoded) \in Results
      /\ encoded.sequence = Len(emitted) + 1
      /\ encoded.capacity_bytes \in Nat
  BY TickFacts
<1>2. delivery \in DeliveryStates /\ now \in Nat /\ emitted \in Seq(Emissions)
  BY DEF Inv, TypeOK
<1>3. /\ plan.valid
      /\ delivery' = e
      /\ emitted' = Append(emitted, Emission(encoded))
      /\ pipeline' = AdvancedPipeline(pipeline, input)
  BY DEF CommitEmission
<1>4. Accounted(d) /\ Ordered(d, now)
  BY <1>2, PreparedKeeps DEF DeliveryKept
<1>5. /\ LevelOfDetail => pipeline'.level_of_detail_seeded
      /\ ReplicaIncremental => pipeline'.incremental_seeded
  BY <1>3, CommitSeeds DEF DeliveryKept
<1> HIDE DEF d, input, encoded
<1>6. /\ plan.evict_count \in 0..Len(d.submitted)
      /\ RoomAfterEvicting(d, encoded.capacity_bytes, plan.evict_count)
  BY <1>1, <1>3, PlanSnapshotRetentionFacts
<1> HIDE DEF plan
<1>7. e.latest_submitted_sequence = encoded.sequence /\ Accounted(e) /\ Ordered(e, now)
  BY <1>1, <1>2, <1>4, <1>6, CommittedKeeps
<1> HIDE DEF e
<1>8. Len(emitted') = Len(emitted) + 1 /\ emitted' # << >>
  BY <1>2, <1>3
<1>9. Accounted(delivery)' /\ Ordered(delivery, now)'
  BY <1>3, <1>7 DEF Accounted, Ordered
<1> QED
  BY <1>1, <1>3, <1>5, <1>7, <1>8, <1>9 DEF DeliveryKept, Seeded

\* The server's tick keeps the delivery state.
LEMMA ReplicatePeerKeeps ==
  ASSUME Inv, DeliveryKept, NEW source \in SourceSnapshots, NEW due,
         ReplicatePeer(source, due)
  PROVE  DeliveryKept'
<1> DEFINE d       == PreparedDelivery
           input   == EncodeInput(d, source)
           encoded == Encoded(pipeline, input, due)
           discarded == DiscardAcknowledgedReplica(d, "RetentionPressure")
<1>1. ~EncodeRejects(pipeline, input) /\ now' = now
  BY DEF ReplicatePeer
<1>2. CASE CommitEmission(d, encoded) /\ pipeline' = AdvancedPipeline(pipeline, input)
  BY <1>1, <1>2, CommitEmissionKeeps
<1>3. CASE \/ AbandonEmission(d, encoded)
           \/ DropOversized(d, encoded)
           \/ DropOnSendFailure(d, encoded)
  <2>1. /\ delivery' = d \/ delivery' = discarded
        /\ UNCHANGED <<pipeline, emitted>>
    BY <1>3 DEF AbandonEmission, DropOversized, DropOnSendFailure
  <2>2. delivery \in DeliveryStates /\ now \in Nat
    BY DEF Inv, TypeOK
  <2>3. /\ d \in DeliveryStates
        /\ d.latest_submitted_sequence = delivery.latest_submitted_sequence
        /\ UpsertsKept(delivery, d)
        /\ Accounted(delivery) => Accounted(d)
        /\ Ordered(delivery, now) => Ordered(d, now)
    BY <2>2, PreparedDeliveryFacts, PreparedKeeps
  <2> HIDE DEF d
  <2>4. /\ discarded.latest_submitted_sequence = d.latest_submitted_sequence
        /\ UpsertsKept(d, discarded)
        /\ Accounted(d) => Accounted(discarded)
        /\ Ordered(d, now) => Ordered(discarded, now)
    BY <2>3, DiscardKeeps, DiscardAcknowledgedReplicaFacts DEF RecoveryReasons
  <2> HIDE DEF discarded
  <2>5. /\ delivery'.latest_submitted_sequence = delivery.latest_submitted_sequence
        /\ UpsertsKept(delivery, delivery')
        /\ Accounted(delivery) => Accounted(delivery')
        /\ Ordered(delivery, now) => Ordered(delivery', now)
    BY <2>1, <2>3, <2>4 DEF UpsertsKept
  <2> QED
    BY <1>1, <2>1, <2>5, ServerStepKeeps
<1> QED
  BY <1>2, <1>3 DEF ReplicatePeer

\* The invariant of the delivery state is preserved by every step.
LEMMA DeliveryKeptStep == Inv /\ DeliveryKept /\ [Next]_vars => DeliveryKept'
<1> SUFFICES ASSUME Inv, DeliveryKept, [Next]_vars PROVE DeliveryKept'
  OBVIOUS
<1>1. delivery \in DeliveryStates /\ input_lane \in Seq(InputMessages)
  BY DEF Inv, TypeOK
<1>2. ASSUME NEW source \in SourceSnapshots, NEW due, ReplicatePeer(source, due)
      PROVE  DeliveryKept'
  BY <1>2, ReplicatePeerKeeps
<1>3. CASE ServerReceiveAck
  <2> DEFINE m == Head(input_lane)
             p == PromoteSnapshotAck(delivery, m.sequence)
  <2>1. /\ m \in InputMessages /\ m.type = "SnapshotAck"
        /\ delivery' = AcceptedAck(delivery, m)
        /\ UNCHANGED <<now, pipeline, emitted>>
    BY <1>1, <1>3 DEF ServerReceiveAck
  <2>2. m.sequence \in Nat
    BY <2>1 DEF InputMessages
  <2>3. delivery' = delivery \/ delivery' = p
    BY <2>1 DEF AcceptedAck
  <2> HIDE DEF m
  <2>4. /\ p.latest_submitted_sequence = delivery.latest_submitted_sequence
        /\ UpsertsKept(delivery, p)
        /\ Accounted(delivery) => Accounted(p)
        /\ Ordered(delivery, now) => Ordered(p, now)
    BY <1>1, <2>2, PromoteKeeps, PromoteSnapshotAckFacts
  <2> HIDE DEF p
  <2> QED
    BY <2>1, <2>3, <2>4, ServerStepKeeps DEF UpsertsKept
<1>4. CASE ServerReceiveRecoveryRequest
  <2> DEFINE e == EnterSnapshotRecovery(delivery, "ClientRequest")
  <2>1. /\ delivery' = delivery \/ delivery' = e
        /\ UNCHANGED <<now, pipeline, emitted>>
    BY <1>4 DEF ServerReceiveRecoveryRequest, AcceptedRecoveryRequest
  <2>2. /\ e.latest_submitted_sequence = delivery.latest_submitted_sequence
        /\ UpsertsKept(delivery, e)
        /\ Accounted(delivery) => Accounted(e)
        /\ Ordered(delivery, now) => Ordered(e, now)
    BY <1>1, EnterKeeps DEF UpsertsKept
  <2> HIDE DEF e
  <2> QED
    BY <2>1, <2>2, ServerStepKeeps DEF UpsertsKept
<1>5. CASE ClientReceiveSnapshot \/ LoseSnapshot \/ CloseConnection \/ UNCHANGED vars
  <2>1. UNCHANGED <<now, delivery, pipeline, emitted>>
    BY <1>5 DEF ClientReceiveSnapshot, LoseSnapshot, CloseConnection, vars, serverVars
  <2> QED
    BY <2>1, ServerStepKeeps DEF UpsertsKept
<1>6. CASE Wait
  <2>1. now' = now + 1 /\ UNCHANGED <<delivery, pipeline, emitted>>
    BY <1>6 DEF Wait, serverVars
  <2>2. /\ now \in Nat
        /\ \A i \in 1..Len(delivery.submitted) : delivery.submitted[i].submitted_at \in Nat
        /\ delivery.acknowledged.submitted_at \in Nat
    BY <1>1, DeliveryFields, ResultFields DEF Inv, TypeOK
  <2>3. Ordered(delivery, now)'
    BY <2>1, <2>2 DEF Ordered, DeliveryKept
  <2>4. Accounted(delivery)'
    BY <2>1 DEF Accounted, DeliveryKept
  <2> QED
    BY <2>1, <2>3, <2>4 DEF DeliveryKept, Seeded
<1> QED
  BY <1>2, <1>3, <1>4, <1>5, <1>6 DEF Next

\* The invariant of the delivery state.
THEOREM DeliveryKeptHolds == Spec => []DeliveryKept
<1>1. Init => DeliveryKept
  BY InitDeliveryKept
<1>2. Inv /\ DeliveryKept /\ [Next]_vars => DeliveryKept'
  BY DeliveryKeptStep
<1> QED
  BY <1>1, <1>2, InvariantHolds, PTL DEF Spec

\* The capacity account of the retained results, kept by additions and subtractions
\* in commit_submitted_snapshot, promote_snapshot_ack, expire_retained_snapshots and
\* discard_acknowledged_replica, is what is retained and stays within the budget.
THEOREM RetentionIsAccounted == Spec => []RetentionAccounted
<1>1. DeliveryKept => RetentionAccounted
  BY DEF DeliveryKept, Accounted, RetentionAccounted
<1> QED
  BY <1>1, DeliveryKeptHolds, PTL

-----------------------------------------------------------------------------
(* What a tick hands to the encoder. *)

\* The input of a tick by the way the technique uses it.
LEMMA TickInput ==
  ASSUME Inv, DeliveryKept, NEW source \in SourceSnapshots
  PROVE  LET d     == PreparedDelivery
             input == EncodeInput(d, source)
         IN  /\ HasResult(input.baseline) => Delta \/ LevelOfDetail
             /\ HasResult(input.replica) => ReplicaIncremental
             /\ d.recovery_active => /\ ~HasResult(input.baseline)
                                     /\ ~HasResult(input.replica)
                                     /\ input.recovery_upsert_ids = {}
             /\ ~d.recovery_active /\ LevelOfDetail /\ pipeline.level_of_detail_seeded =>
                   HasResult(input.baseline)
             /\ ~d.recovery_active /\ ~LevelOfDetail /\ Delta => HasResult(input.baseline)
             /\ ~d.recovery_active /\ ReplicaIncremental /\ pipeline.incremental_seeded =>
                   HasResult(input.replica)
             /\ input.recovery_upsert_ids # {} => PartialSelection /\ emitted # << >>
             /\ input.force_full_replace = d.recovery_active
<1> DEFINE d     == PreparedDelivery
           input == EncodeInput(d, source)
<1>1. delivery \in DeliveryStates /\ now \in Nat
  BY DEF Inv, TypeOK
<1>2. /\ UpsertsKept(delivery, d)
      /\ ~d.recovery_active =>
            /\ HasResult(d.acknowledged)
            /\ PatchesReplica(pipeline, d) => HasResult(LatestReplica(d))
  BY <1>1, PreparedKeeps
<1> HIDE DEF d
<1>3. /\ input.baseline = DeltaBaseline(d)
      /\ input.replica = IF ReplicaIncremental /\ PatchesReplica(pipeline, d)
                         THEN LatestReplica(d) ELSE NoResult
      /\ input.recovery_upsert_ids = IF PartialSelection /\ ~Reliable /\ ~d.recovery_active
                                     THEN DOMAIN d.recovery_upserts ELSE {}
      /\ input.force_full_replace = d.recovery_active
  BY DEF EncodeInput
<1>4. ~HasResult(NoResult)
  BY NoResultType
<1>5. /\ d.recovery_active => DeltaBaseline(d) = NoResult
      /\ ~d.recovery_active /\ LevelOfDetail => DeltaBaseline(d) = LatestReplica(d)
      /\ ~d.recovery_active /\ ~LevelOfDetail /\ Delta => DeltaBaseline(d) = d.acknowledged
      /\ ~LevelOfDetail /\ ~Delta => DeltaBaseline(d) = NoResult
  <2>1. CASE d.recovery_active
    BY <2>1 DEF DeltaBaseline
  <2>2. CASE ~d.recovery_active /\ LevelOfDetail
    BY <2>2 DEF DeltaBaseline
  <2>3. CASE ~d.recovery_active /\ ~LevelOfDetail /\ Delta
    BY <2>3 DEF DeltaBaseline
  <2>4. CASE ~d.recovery_active /\ ~LevelOfDetail /\ ~Delta
    BY <2>4 DEF DeltaBaseline
  <2> QED
    BY <2>1, <2>2, <2>3, <2>4
<1>6. /\ PatchesReplica(pipeline, d) => ~d.recovery_active
      /\ ~d.recovery_active /\ LevelOfDetail /\ pipeline.level_of_detail_seeded =>
            PatchesReplica(pipeline, d)
      /\ ~d.recovery_active /\ ReplicaIncremental /\ pipeline.incremental_seeded =>
            PatchesReplica(pipeline, d)
  BY DEF PatchesReplica
<1>7. input.recovery_upsert_ids # {} => PartialSelection /\ emitted # << >>
  BY <1>2, <1>3 DEF UpsertsKept, DeliveryKept
<1> HIDE DEF input
<1> QED
  BY <1>2, <1>3, <1>4, <1>5, <1>6, <1>7 DEF input, d

\* The results a tick hands to the encoder are of sequences already emitted.
LEMMA TickInputOlder ==
  ASSUME Inv, NEW source \in SourceSnapshots
  PROVE  LET input == EncodeInput(PreparedDelivery, source)
         IN  /\ input.baseline.sequence < pipeline.next_sequence
             /\ input.replica.sequence < pipeline.next_sequence
             /\ HasResult(input.baseline) => emitted # << >>
<1> DEFINE d     == PreparedDelivery
           input == EncodeInput(d, source)
<1>1. /\ \A r \in HeldResults(d) : CommittedAs(emitted, r.sequence, r.snapshot)
      /\ HasResult(input.baseline) => input.baseline \in HeldResults(d)
      /\ HasResult(input.replica) => input.replica \in HeldResults(d)
  BY TickFacts
<1>2. emitted \in Seq(Emissions) /\ pipeline.next_sequence = Len(emitted) + 1
  BY DEF Inv, TypeOK, EmissionsNumbered
<1> HIDE DEF d, input
<1>3. \A r : HasResult(r) /\ r \in HeldResults(d) =>
         r.sequence < pipeline.next_sequence /\ emitted # << >>
  BY <1>1, <1>2 DEF CommittedAs
<1>4. \A r : ~HasResult(r) => r.sequence < pipeline.next_sequence
  BY <1>2 DEF HasResult
<1> QED
  BY <1>1, <1>3, <1>4 DEF d, input

\* No combination the encoder throws on is ever handed to it.
LEMMA TickAccepted == Inv /\ DeliveryKept => NextEncodeAccepted
<1> SUFFICES ASSUME Inv, DeliveryKept, NEW source \in SourceSnapshots
             PROVE  ~EncodeRejects(pipeline, EncodeInput(PreparedDelivery, source))
  BY DEF NextEncodeAccepted
<1> DEFINE d     == PreparedDelivery
           input == EncodeInput(d, source)
<1>1. /\ HasResult(input.baseline) => Delta \/ LevelOfDetail
      /\ HasResult(input.replica) => ReplicaIncremental
      /\ d.recovery_active => /\ ~HasResult(input.baseline)
                              /\ ~HasResult(input.replica)
                              /\ input.recovery_upsert_ids = {}
      /\ ~d.recovery_active /\ LevelOfDetail /\ pipeline.level_of_detail_seeded =>
            HasResult(input.baseline)
      /\ ~d.recovery_active /\ ~LevelOfDetail /\ Delta => HasResult(input.baseline)
      /\ ~d.recovery_active /\ ReplicaIncremental /\ pipeline.incremental_seeded =>
            HasResult(input.replica)
      /\ input.recovery_upsert_ids # {} => PartialSelection /\ emitted # << >>
      /\ input.force_full_replace = d.recovery_active
  BY TickInput
<1>2. /\ ~(input.baseline.sequence >= pipeline.next_sequence)
      /\ ~(input.replica.sequence >= pipeline.next_sequence)
      /\ HasResult(input.baseline) => emitted # << >>
  <2>1. /\ input.baseline.sequence < pipeline.next_sequence
        /\ input.replica.sequence < pipeline.next_sequence
        /\ HasResult(input.baseline) => emitted # << >>
    BY TickInputOlder
  <2>2. Encodable(input) /\ pipeline \in PipelineStates
    BY TickFacts DEF Inv, TypeOK
  <2>3. input.baseline.sequence \in Nat /\ input.replica.sequence \in Nat
        /\ pipeline.next_sequence \in Nat
    BY <2>2, ResultFields DEF Encodable, PipelineStates
  <2> HIDE DEF input
  <2> QED
    BY <2>1, <2>3
<1>3. emitted # << >> =>
         /\ LevelOfDetail => pipeline.level_of_detail_seeded
         /\ ReplicaIncremental => pipeline.incremental_seeded
  BY DEF DeliveryKept, Seeded
<1> HIDE DEF d, input
<1>4. ~(LevelOfDetail /\ ~pipeline.level_of_detail_seeded /\ HasResult(input.baseline))
  BY <1>2, <1>3
<1>5. ~(ScheduleLevelOfDetail(pipeline, input) /\ ~HasResult(input.baseline))
  BY <1>1 DEF ScheduleLevelOfDetail
<1>6. ~(ScheduleIncremental(pipeline, input) /\ ReplicaIncremental /\ ~HasResult(input.replica))
  <2> SUFFICES ASSUME ScheduleIncremental(pipeline, input), ReplicaIncremental
               PROVE  HasResult(input.replica)
    OBVIOUS
  <2>1. ~ScheduleLevelOfDetail(pipeline, input)
    BY DEF ScheduleLevelOfDetail, ReplicaIncremental
  <2>2. ~input.force_full_replace /\ ~SeedIncremental(pipeline, input)
    BY <2>1 DEF ScheduleIncremental
  <2>3. pipeline.incremental_seeded
    BY <2>2 DEF SeedIncremental
  <2> QED
    BY <1>1, <2>2, <2>3
<1>7. ~(input.recovery_upsert_ids # {} /\ ~EmitPatch(pipeline, input))
  <2> SUFFICES ASSUME input.recovery_upsert_ids # {} PROVE EmitPatch(pipeline, input)
    OBVIOUS
  <2>1. PartialSelection /\ emitted # << >> /\ ~d.recovery_active
    BY <1>1
  <2>2. CASE LevelOfDetail
    BY <1>1, <1>3, <2>1, <2>2 DEF EmitPatch, ScheduleLevelOfDetail
  <2>3. CASE ~LevelOfDetail /\ Delta
    BY <1>1, <2>1, <2>3 DEF EmitPatch, EmitDelta
  <2>4. CASE ~LevelOfDetail /\ ~Delta
    <3>1. Incremental /\ ReplicaIncremental
      BY <2>1, <2>4 DEF PartialSelection, ReplicaIncremental
    <3>2. ScheduleIncremental(pipeline, input)
      BY <1>1, <1>3, <2>1, <2>4, <3>1 DEF ScheduleIncremental, SeedIncremental
    <3> QED
      BY <3>2 DEF EmitPatch
  <2> QED
    BY <2>2, <2>3, <2>4
<1> QED
  BY <1>1, <1>2, <1>4, <1>5, <1>6, <1>7 DEF EncodeRejects, d, input

\* The encoder (encode_snapshot_unchecked) is never called with a combination it
\* throws on, whatever acknowledgements, requests and expiries came before the tick.
THEOREM EncoderNeverThrows == Spec => []NextEncodeAccepted
BY TickAccepted, InvariantHolds, DeliveryKeptHolds, PTL

\* A Patch never builds on a result older than the retention age: replicate_peer
\* expires (expire_retained_snapshots) before it chooses the baseline.
THEOREM PatchesBuildOnFresh == Spec => PatchBaselineFresh
<1> DEFINE Fresh(i) == emitted'[i].kind = "Patch" =>
              \E r \in {delivery.acknowledged} \cup ToSet(delivery.submitted) :
                 /\ r.sequence = emitted'[i].baseline_sequence
                 /\ ~Expired(r, now)
           Step == \A i \in DOMAIN emitted' \ DOMAIN emitted : Fresh(i)
<1>1. Inv /\ DeliveryKept /\ [Next]_vars => [Step]_vars
  <2> SUFFICES ASSUME Inv, DeliveryKept, Next PROVE Step
    OBVIOUS
  <2>1. ASSUME NEW source \in SourceSnapshots, NEW due, ReplicatePeer(source, due)
        PROVE  Step
    <3> DEFINE d       == PreparedDelivery
               input   == EncodeInput(d, source)
               encoded == Encoded(pipeline, input, due)
               base    == PatchBase(pipeline, input)
    <3>1. emitted' = emitted \/ emitted' = Append(emitted, Emission(encoded))
      BY <2>1, TickDelivery
    <3>2. /\ delivery \in DeliveryStates /\ now \in Nat /\ emitted \in Seq(Emissions)
          /\ pipeline \in PipelineStates
      BY DEF Inv, TypeOK
    <3>3. /\ Encodable(input)
          /\ HasResult(input.baseline) => input.baseline \in HeldResults(d)
          /\ HasResult(input.replica) => input.replica \in HeldResults(d)
      BY TickFacts
    <3>4. /\ HeldResults(d) \subseteq HeldResults(delivery)
          /\ \A r \in HeldResults(d) : ~Expired(r, now)
      BY <3>2, PreparedDeliveryFacts, PreparedKeeps DEF DeliveryKept
    <3>5. ~EncodeRejects(pipeline, input)
      BY <2>1 DEF ReplicatePeer
    <3>6. EmitPatch(pipeline, input) => HasResult(base)
      BY <3>5, PatchBaseHeld
    <3>7. base \in {input.baseline, input.replica}
      BY DEF PatchBase
    <3>8. /\ ~EmitPatch(pipeline, input) => encoded.update.kind = "FullReplace"
          /\ EmitPatch(pipeline, input) => encoded.baseline_sequence = base.sequence
      BY <3>2, <3>3, EncodedFacts
    <3>9. /\ Emission(encoded).kind = encoded.update.kind
          /\ Emission(encoded).baseline_sequence = encoded.baseline_sequence
      BY DEF Emission
    <3> HIDE DEF d, input, encoded, base
    <3>10. Emission(encoded).kind = "Patch" =>
              /\ Emission(encoded).baseline_sequence = base.sequence
              /\ base \in HeldResults(delivery) /\ ~Expired(base, now)
      BY <3>3, <3>4, <3>6, <3>7, <3>8, <3>9
    <3>11. HeldResults(delivery)
             \subseteq {delivery.acknowledged} \cup ToSet(delivery.submitted)
      <4>1. delivery.submitted \in Seq(Results)
        BY <3>2, DeliveryFields
      <4>2. DOMAIN delivery.submitted = 1..Len(delivery.submitted)
        BY <4>1
      <4> QED
        BY <4>2 DEF HeldResults, ToSet
    <3>12. \A i \in DOMAIN emitted' \ DOMAIN emitted : emitted'[i] = Emission(encoded)
      BY <3>1, <3>2
    <3> QED
      BY <3>10, <3>11, <3>12
  <2>2. CASE \/ ServerReceiveAck \/ ServerReceiveRecoveryRequest \/ ClientReceiveSnapshot
             \/ LoseSnapshot \/ CloseConnection \/ Wait
    <3>1. emitted' = emitted
      BY <2>2 DEF ServerReceiveAck, ServerReceiveRecoveryRequest, ClientReceiveSnapshot,
                  LoseSnapshot, CloseConnection, Wait, serverVars
    <3> QED
      BY <3>1
  <2> QED
    BY <2>1, <2>2 DEF Next
<1> QED
  BY <1>1, InvariantHolds, DeliveryKeptHolds, PTL DEF Spec, PatchBaselineFresh

-----------------------------------------------------------------------------
(* What the client is sent.  ClientNeverFails rests on every update in       *)
(* flight: its header is well formed and the reconstruction fits the client, *)
(* because the server retains the same reconstruction under the same bound.  *)

\* The client accepts the update, if it still has the baseline.
Acceptable(emissions, m) ==
    /\ m.update.kind = "FullReplace" => m.baseline_sequence = 0
    /\ m.update.kind = "Patch" =>
          /\ m.baseline_sequence \in DOMAIN emissions
          /\ m.baseline_sequence < m.sequence
    /\ ReconstructionCapacity(IF m.baseline_sequence = 0 THEN EmptySnapshot
                              ELSE emissions[m.baseline_sequence].snapshot, m.update)
         <= MaximumRetainedCapacity

LaneAcceptable == \A i \in 1..Len(snapshot_lane) : Acceptable(emitted, snapshot_lane[i])

\* What the client has applied, and that it retains the newest of it.
AppliedBounded ==
    /\ applied \subseteq 1..latest_applied_sequence
    /\ latest_applied_sequence # 0 => snapshot_history # << >>

ClientKept == LaneAcceptable /\ AppliedBounded /\ session # "failed"

\* The message of a committed emission.
MessageOf(encoded) == [sequence          |-> encoded.sequence,
                       baseline_sequence |-> encoded.baseline_sequence,
                       update            |-> encoded.update]

\* The reconstruction of a committed emission fits the client, whose bound is the
\* server's.
LEMMA CommittedAcceptable ==
  ASSUME Inv, NEW source \in SourceSnapshots, NEW due,
         ~EncodeRejects(pipeline, EncodeInput(PreparedDelivery, source)),
         CommitEmission(PreparedDelivery,
                        Encoded(pipeline, EncodeInput(PreparedDelivery, source), due))
  PROVE  Acceptable(emitted,
                    MessageOf(Encoded(pipeline, EncodeInput(PreparedDelivery, source), due)))
<1> DEFINE d       == PreparedDelivery
           input   == EncodeInput(d, source)
           encoded == Encoded(pipeline, input, due)
           base    == PatchBase(pipeline, input)
           m       == MessageOf(encoded)
<1>1. /\ \A r \in HeldResults(d) : CommittedAs(emitted, r.sequence, r.snapshot)
      /\ Encodable(input)
      /\ HasResult(input.baseline) => input.baseline \in HeldResults(d)
      /\ HasResult(input.replica) => input.replica \in HeldResults(d)
      /\ encoded.sequence = Len(emitted) + 1
      /\ encoded.update \in Updates
      /\ encoded.capacity_bytes \in Nat
  BY TickFacts
<1>2. pipeline \in PipelineStates /\ emitted \in Seq(Emissions)
  BY DEF Inv, TypeOK
<1>3. base \in {input.baseline, input.replica}
  BY DEF PatchBase
<1>4. EmitPatch(pipeline, input) => HasResult(base)
  BY PatchBaseHeld
<1>5. encoded.capacity_bytes
        = ReconstructionCapacity(IF EmitPatch(pipeline, input) THEN base.snapshot
                                 ELSE EmptySnapshot, encoded.update)
  BY DEF Encoded, NoResult
<1>6. PlanSnapshotRetention(d, encoded.capacity_bytes).valid
  BY DEF CommitEmission
<1> HIDE DEF base
<1>7. /\ ~EmitPatch(pipeline, input) =>
            encoded.update.kind = "FullReplace" /\ encoded.baseline_sequence = 0
      /\ EmitPatch(pipeline, input) =>
            encoded.update.kind = "Patch" /\ encoded.baseline_sequence = base.sequence
  BY <1>1, <1>2, EncodedFacts DEF base
<1>8. m.update = encoded.update /\ m.sequence = encoded.sequence
      /\ m.baseline_sequence = encoded.baseline_sequence
  BY DEF MessageOf
<1> HIDE DEF d, input, encoded, m
<1>9. encoded.capacity_bytes <= MaximumRetainedCapacity
  <2>1. ~(encoded.capacity_bytes > MaximumRetainedCapacity)
    BY <1>6 DEF PlanSnapshotRetention
  <2> QED
    BY <1>1, <2>1, DeliveryBoundsAssumption
<1>10. EmitPatch(pipeline, input) =>
          /\ base.sequence \in DOMAIN emitted /\ base.sequence # 0
          /\ base.snapshot = emitted[base.sequence].snapshot
  BY <1>1, <1>3, <1>4 DEF CommittedAs, HasResult
<1>11. CASE EmitPatch(pipeline, input)
  <2>1. m.baseline_sequence = base.sequence /\ m.update.kind = "Patch"
    BY <1>7, <1>8, <1>11
  <2>2. base.sequence < m.sequence
    BY <1>1, <1>2, <1>8, <1>10, <1>11
  <2> QED
    BY <1>5, <1>8, <1>9, <1>10, <1>11, <2>1, <2>2 DEF Acceptable, m, encoded, input, d
<1>12. CASE ~EmitPatch(pipeline, input)
  <2>1. m.baseline_sequence = 0 /\ m.update.kind = "FullReplace"
    BY <1>7, <1>8, <1>12
  <2> QED
    BY <1>5, <1>8, <1>9, <1>12, <2>1 DEF Acceptable, m, encoded, input, d
<1> QED
  BY <1>11, <1>12

\* An update in flight stays acceptable when more is emitted.
LEMMA AcceptableStays ==
  ASSUME NEW m \in Messages, NEW before, NEW after, Acceptable(before, m),
         \A i \in DOMAIN before : i \in DOMAIN after /\ after[i] = before[i]
  PROVE  Acceptable(after, m)
<1>1. m.update.kind \in {"FullReplace", "Patch"}
  BY DEF Messages, Updates, Kinds
<1> QED
  BY <1>1 DEF Acceptable

\* Taking the oldest update out of the lane.
LEMMA LaneTail ==
  ASSUME NEW lane \in Seq(Messages), lane # << >>
  PROVE  /\ Head(lane) = lane[1] /\ 1 \in 1..Len(lane)
         /\ Tail(lane) \in Seq(Messages) /\ Len(Tail(lane)) = Len(lane) - 1
         /\ \A i \in 1..Len(Tail(lane)) :
               i + 1 \in 1..Len(lane) /\ Tail(lane)[i] = lane[i + 1]
OBVIOUS

\* The client accepts the oldest update in flight.
LEMMA HeadAccepted ==
  ASSUME Inv, LaneAcceptable, snapshot_lane # << >>
  PROVE  LET m == Head(snapshot_lane)
         IN  /\ ~MalformedHeader(m)
             /\ ~MissingBaseline(m) => ~OversizedReconstruction(m)
<1> DEFINE m == Head(snapshot_lane)
<1>1. m \in Messages /\ Acceptable(emitted, m)
  <2>1. snapshot_lane \in Seq(Messages)
    BY DEF Inv, TypeOK
  <2> QED
    BY <2>1, LaneTail DEF LaneAcceptable
<1> HIDE DEF m
<1>2. /\ m.sequence \in Nat /\ m.baseline_sequence \in Nat /\ m.update \in Updates
      /\ m.update.kind \in {"FullReplace", "Patch"} /\ emitted \in Seq(Emissions)
  BY <1>1 DEF Messages, Updates, Kinds, Inv, TypeOK
<1>3. ~MalformedHeader(m)
  <2>1. m.update.kind = "Patch" => m.baseline_sequence # 0
    BY <1>1, <1>2 DEF Acceptable
  <2>2. m.update.kind = "Patch" => ~(m.baseline_sequence >= m.sequence)
    BY <1>1, <1>2 DEF Acceptable
  <2> QED
    BY <1>1, <1>2, <2>1, <2>2 DEF MalformedHeader, Acceptable
<1>4. ASSUME ~MissingBaseline(m)
      PROVE  ~OversizedReconstruction(m)
  <2> DEFINE base == IF m.baseline_sequence = 0 THEN EmptySnapshot
                     ELSE emitted[m.baseline_sequence].snapshot
  <2>1. ClientBaseline(m) = base /\ ClientBaseline(m) \in Snapshots
    BY <1>1, <1>4, ClientBaselineFacts DEF CommittedAs, ClientBaseline
  <2>2. ReconstructionCapacity(base, m.update) <= MaximumRetainedCapacity
    BY <1>1 DEF Acceptable
  <2>3. ReconstructionCapacity(base, m.update) \in Nat
    BY <1>2, <2>1, ReconstructionCapacityType
  <2> HIDE DEF base
  <2>4. ~(ReconstructionCapacity(base, m.update) > MaximumRetainedCapacity)
    BY <2>2, <2>3, DeliveryBoundsAssumption
  <2> QED
    BY <2>1, <2>4 DEF OversizedReconstruction
<1> QED
  BY <1>3, <1>4 DEF m

\* A received update is stale, rejected for its missing baseline, or applied.
LEMMA ReceiveCases ==
  ASSUME Inv, LaneAcceptable, ClientReceiveSnapshot
  PROVE  LET m == Head(snapshot_lane)
         IN  \/ /\ m.sequence <= latest_applied_sequence
                /\ UNCHANGED <<session, input_lane, clientVars>>
             \/ /\ m.sequence > latest_applied_sequence
                /\ MissingBaseline(m) /\ RejectPatch(m)
             \/ /\ m.sequence > latest_applied_sequence
                /\ ~MissingBaseline(m) /\ ApplyUpdate(m)
<1> DEFINE m == Head(snapshot_lane)
<1>1. snapshot_lane # << >>
  BY DEF ClientReceiveSnapshot
<1>2. ~MalformedHeader(m) /\ (~MissingBaseline(m) => ~OversizedReconstruction(m))
  BY <1>1, HeadAccepted
<1>3. m.sequence \in Nat /\ latest_applied_sequence \in Nat
  <2>1. snapshot_lane \in Seq(Messages) /\ latest_applied_sequence \in Nat
    BY DEF Inv, TypeOK
  <2>2. m \in Messages
    BY <1>1, <2>1
  <2> QED
    BY <2>1, <2>2 DEF Messages
<1>4. ~(m.sequence <= latest_applied_sequence) => m.sequence > latest_applied_sequence
  BY <1>3
<1> QED
  BY <1>2, <1>4 DEF ClientReceiveSnapshot

\* Applying an update retains it.
LEMMA AppliedIsRetained ==
  ASSUME Inv, NEW m \in Messages, ~MissingBaseline(m), ApplyUpdate(m)
  PROVE  snapshot_history' # << >>
<1> DEFINE reconstructed == Reconstruct(ClientBaseline(m), m.update)
           capacity == ReconstructionCapacity(ClientBaseline(m), m.update)
           entry == [sequence |-> m.sequence, snapshot |-> reconstructed,
                     capacity_bytes |-> capacity]
<1>1. m.sequence \in Nat /\ m.update \in Updates /\ ClientBaseline(m) \in Snapshots
  BY ClientBaselineFacts DEF Messages
<1>2. reconstructed \in Snapshots /\ capacity \in Nat
  BY <1>1, ReconstructType, ReconstructionCapacityType
<1>3. snapshot_history' = RetainSnapshot(snapshot_history, entry)
  BY DEF ApplyUpdate
<1> HIDE DEF reconstructed, capacity
<1>4. entry \in Retained /\ snapshot_history \in Seq(Retained)
  BY <1>1, <1>2 DEF Retained, Inv, TypeOK
<1> HIDE DEF entry
<1> QED
  BY <1>3, <1>4, RetainSnapshotFacts

\* Nothing the client has, holds or has still to read is touched, or only read.
LEMMA LaneStepKeeps ==
  ASSUME Inv, ClientKept, session' # "failed",
         UNCHANGED <<emitted, clientVars>>,
         \/ snapshot_lane' = snapshot_lane
         \/ snapshot_lane # << >> /\ snapshot_lane' = Tail(snapshot_lane)
         \/ snapshot_lane' = << >>
  PROVE  ClientKept'
<1>1. snapshot_lane \in Seq(Messages)
  BY DEF Inv, TypeOK
<1>2. LaneAcceptable'
  <2>1. CASE snapshot_lane' = snapshot_lane
    BY <2>1 DEF LaneAcceptable, ClientKept
  <2>2. CASE snapshot_lane # << >> /\ snapshot_lane' = Tail(snapshot_lane)
    BY <1>1, <2>2, LaneTail DEF LaneAcceptable, ClientKept
  <2>3. CASE snapshot_lane' = << >>
    BY <2>3 DEF LaneAcceptable
  <2> QED
    BY <2>1, <2>2, <2>3
<1>3. AppliedBounded'
  BY DEF AppliedBounded, ClientKept, clientVars
<1> QED
  BY <1>2, <1>3 DEF ClientKept

\* A committed emission puts an acceptable update behind the others.
LEMMA CommitKeepsClient ==
  ASSUME Inv, ClientKept, NEW source \in SourceSnapshots, NEW due,
         ~EncodeRejects(pipeline, EncodeInput(PreparedDelivery, source)),
         CommitEmission(PreparedDelivery,
                        Encoded(pipeline, EncodeInput(PreparedDelivery, source), due)),
         UNCHANGED clientVars
  PROVE  ClientKept'
<1> DEFINE encoded == Encoded(pipeline, EncodeInput(PreparedDelivery, source), due)
           m       == MessageOf(encoded)
<1>1. Acceptable(emitted, m)
  BY CommittedAcceptable
<1>2. /\ snapshot_lane' = Append(snapshot_lane, m)
      /\ emitted' = Append(emitted, Emission(encoded))
      /\ session' = session
  BY DEF CommitEmission, MessageOf
<1>3. /\ encoded.sequence = Len(emitted) + 1
      /\ encoded.baseline_sequence \in Nat /\ encoded.update \in Updates
      /\ encoded.resulting_snapshot \in Snapshots
  BY TickFacts
<1> HIDE DEF encoded
<1>4. /\ emitted \in Seq(Emissions) /\ snapshot_lane \in Seq(Messages)
      /\ Emission(encoded) \in Emissions
  BY <1>3, EncodedEmission DEF Inv, TypeOK
<1>5. \A i \in DOMAIN emitted : i \in DOMAIN emitted' /\ emitted'[i] = emitted[i]
  BY <1>2, <1>4, EmittedGrows
<1>6. m \in Messages
  <2>1. Len(emitted) + 1 \in Nat
    BY <1>4
  <2> QED
    BY <1>3, <2>1 DEF Messages, MessageOf
<1> HIDE DEF m
<1>7. \A i \in 1..Len(snapshot_lane') :
         \/ i \in 1..Len(snapshot_lane) /\ snapshot_lane'[i] = snapshot_lane[i]
         \/ snapshot_lane'[i] = m
  BY <1>2, <1>4, <1>6
<1>8. \A i \in 1..Len(snapshot_lane) : snapshot_lane[i] \in Messages
  BY <1>4
<1>9. \A i \in 1..Len(snapshot_lane) : Acceptable(emitted', snapshot_lane[i])
  BY <1>5, <1>8, AcceptableStays DEF ClientKept, LaneAcceptable
<1>10. Acceptable(emitted', m)
  BY <1>1, <1>5, <1>6, AcceptableStays
<1>11. LaneAcceptable'
  BY <1>7, <1>9, <1>10 DEF LaneAcceptable
<1>12. AppliedBounded' /\ session' # "failed"
  BY <1>2 DEF AppliedBounded, ClientKept, clientVars
<1> QED
  BY <1>11, <1>12 DEF ClientKept

\* The client keeps running, whatever it receives.
LEMMA ClientKeptStep == Inv /\ ClientKept /\ [Next]_vars => ClientKept'
<1> SUFFICES ASSUME Inv, ClientKept, [Next]_vars PROVE ClientKept'
  OBVIOUS
<1>1. ASSUME NEW source \in SourceSnapshots, NEW due, ReplicatePeer(source, due)
      PROVE  ClientKept'
  <2> DEFINE input   == EncodeInput(PreparedDelivery, source)
             encoded == Encoded(pipeline, input, due)
  <2>1. ~EncodeRejects(pipeline, input) /\ UNCHANGED clientVars
    BY <1>1 DEF ReplicatePeer
  <2>2. CASE CommitEmission(PreparedDelivery, encoded)
    BY <2>1, <2>2, CommitKeepsClient
  <2>3. CASE \/ AbandonEmission(PreparedDelivery, encoded)
             \/ DropOversized(PreparedDelivery, encoded)
             \/ DropOnSendFailure(PreparedDelivery, encoded)
    <3>1. /\ session' \in {session, "dropped"}
          /\ UNCHANGED <<snapshot_lane, emitted>>
      BY <2>3 DEF AbandonEmission, DropOversized, DropOnSendFailure
    <3> QED
      BY <2>1, <3>1, LaneStepKeeps DEF ClientKept
  <2> QED
    BY <1>1, <2>2, <2>3 DEF ReplicatePeer
<1>2. CASE ClientReceiveSnapshot
  <2> DEFINE m == Head(snapshot_lane)
  <2>1. /\ snapshot_lane # << >> /\ snapshot_lane' = Tail(snapshot_lane)
        /\ emitted' = emitted
    BY <1>2 DEF ClientReceiveSnapshot, serverVars
  <2>2. snapshot_lane \in Seq(Messages) /\ latest_applied_sequence \in Nat
    BY DEF Inv, TypeOK
  <2>3. m \in Messages
    BY <2>1, <2>2
  <2>4. \/ UNCHANGED <<session, input_lane, clientVars>>
        \/ RejectPatch(m)
        \/ /\ m.sequence > latest_applied_sequence
           /\ ~MissingBaseline(m) /\ ApplyUpdate(m)
    BY <1>2, ReceiveCases DEF ClientKept
  <2> HIDE DEF m
  <2>5. CASE UNCHANGED <<session, input_lane, clientVars>>
    BY <2>1, <2>5, LaneStepKeeps DEF ClientKept
  <2>6. LaneAcceptable'
    BY <2>1, <2>2, LaneTail DEF LaneAcceptable, ClientKept
  <2>7. CASE RejectPatch(m)
    <3>1. session' # "failed"
      BY <2>7 DEF RejectPatch, SendToServer, ClientKept
    <3>2. AppliedBounded'
      BY <2>7 DEF RejectPatch, AppliedBounded, ClientKept
    <3> QED
      BY <2>6, <3>1, <3>2 DEF ClientKept
  <2>8. CASE /\ m.sequence > latest_applied_sequence
             /\ ~MissingBaseline(m) /\ ApplyUpdate(m)
    <3>1. session' # "failed"
      BY <2>8 DEF ApplyUpdate, SendToServer, ClientKept
    <3>2. latest_applied_sequence' = m.sequence /\ applied' = applied \cup {m.sequence}
      BY <2>8 DEF ApplyUpdate
    <3>3. m.sequence \in Nat
      BY <2>3 DEF Messages
    <3>4. applied' \subseteq 1..latest_applied_sequence'
      <4>1. /\ 1..latest_applied_sequence \subseteq 1..m.sequence
            /\ m.sequence \in 1..m.sequence
        BY <2>2, <2>8, <3>3
      <4> QED
        BY <3>2, <4>1 DEF ClientKept, AppliedBounded
    <3>5. snapshot_history' # << >>
      BY <2>3, <2>8, AppliedIsRetained
    <3> QED
      BY <2>6, <3>1, <3>4, <3>5 DEF ClientKept, AppliedBounded
  <2> QED
    BY <2>4, <2>5, <2>7, <2>8
<1>3. CASE ServerReceiveAck \/ ServerReceiveRecoveryRequest \/ Wait \/ UNCHANGED vars
  <2>1. UNCHANGED <<session, snapshot_lane, emitted, clientVars>>
    BY <1>3 DEF ServerReceiveAck, ServerReceiveRecoveryRequest, Wait, vars, serverVars
  <2> QED
    BY <2>1, LaneStepKeeps DEF ClientKept
<1>4. CASE LoseSnapshot \/ CloseConnection
  <2>1. /\ UNCHANGED <<session, emitted, clientVars>>
        /\ \/ snapshot_lane # << >> /\ snapshot_lane' = Tail(snapshot_lane)
           \/ snapshot_lane' = << >>
    BY <1>4 DEF LoseSnapshot, CloseConnection, serverVars
  <2> QED
    BY <2>1, LaneStepKeeps DEF ClientKept
<1> QED
  BY <1>1, <1>2, <1>3, <1>4 DEF Next

\* The invariant of what the client is sent and has applied.
THEOREM ClientKeptHolds == Spec => []ClientKept
<1>1. Init => ClientKept
  BY DEF Init, ClientKept, LaneAcceptable, AppliedBounded
<1>2. Inv /\ ClientKept /\ [Next]_vars => ClientKept'
  BY ClientKeptStep
<1> QED
  BY <1>1, <1>2, InvariantHolds, PTL DEF Spec

\* No sequence of legal deliveries makes apply_packet end the client's session: what
\* the server retains for an update fits the client, and its header is well formed.
THEOREM ClientsNeverFail == Spec => []ClientNeverFails
<1>1. ClientKept => ClientNeverFails
  BY DEF ClientKept, ClientNeverFails
<1> QED
  BY <1>1, ClientKeptHolds, PTL

-----------------------------------------------------------------------------
(* Reliable delivery of the partial techniques: every Patch is relative to   *)
(* the update before it, and what is in flight continues what was applied.   *)

\* The deliveries for which replicate_peer chains its updates.
Chained == Reliable /\ (LevelOfDetail \/ ReplicaIncremental)

\* What is in flight continues what was applied, up to the newest emission.
ChainKept ==
    Chained =>
       /\ \A i \in 1..Len(snapshot_lane) :
             /\ snapshot_lane[i].sequence = latest_applied_sequence + i
             /\ snapshot_lane[i].update.kind = "Patch" =>
                   snapshot_lane[i].baseline_sequence = latest_applied_sequence + i - 1
       /\ session = "joined" => latest_applied_sequence + Len(snapshot_lane) = Len(emitted)
       /\ requested_missing_baseline = 0

\* The replica of a chained technique is the newest emission.
LEMMA ChainedBase ==
  ASSUME Inv, DeliveryKept, Chained, NEW source \in SourceSnapshots,
         ~EncodeRejects(pipeline, EncodeInput(PreparedDelivery, source)),
         EmitPatch(pipeline, EncodeInput(PreparedDelivery, source))
  PROVE  PatchBase(pipeline, EncodeInput(PreparedDelivery, source)).sequence = Len(emitted)
<1> DEFINE d     == PreparedDelivery
           input == EncodeInput(d, source)
           base  == PatchBase(pipeline, input)
<1>1. delivery \in DeliveryStates /\ now \in Nat
  BY DEF Inv, TypeOK
<1>2. /\ d \in DeliveryStates /\ Ordered(d, now)
      /\ d.latest_submitted_sequence = Len(emitted)
  BY <1>1, PreparedDeliveryFacts, PreparedKeeps DEF DeliveryKept
<1>3. HasResult(base)
  BY PatchBaseHeld
<1>4. base \in {input.baseline, input.replica}
  BY DEF PatchBase
<1> HIDE DEF d, base
<1>5. input.baseline \in {NoResult, LatestReplica(d)}
  <2>1. input.baseline = DeltaBaseline(d)
    BY DEF EncodeInput
  <2>2. CASE LevelOfDetail
    <3>1. CASE d.recovery_active
      BY <2>1, <3>1 DEF DeltaBaseline
    <3>2. CASE ~d.recovery_active
      BY <2>1, <2>2, <3>2 DEF DeltaBaseline
    <3> QED
      BY <3>1, <3>2
  <2>3. CASE ~LevelOfDetail
    <3>1. ~Delta
      BY <2>3 DEF Chained, ReplicaIncremental
    <3>2. CASE d.recovery_active
      BY <2>1, <3>2 DEF DeltaBaseline
    <3>3. CASE ~d.recovery_active
      BY <2>1, <2>3, <3>1, <3>3 DEF DeltaBaseline
    <3> QED
      BY <3>2, <3>3
  <2> QED
    BY <2>2, <2>3
<1>6. input.replica \in {NoResult, LatestReplica(d)}
  BY DEF EncodeInput
<1> HIDE DEF input
<1>7. base = LatestReplica(d)
  BY <1>3, <1>4, <1>5, <1>6, NoResultType
<1>8. d.submitted \in Seq(Results) /\ Reliable
  BY <1>2, DeliveryFields DEF Chained
<1>9. CASE d.submitted # << >>
  <2>1. base = d.submitted[Len(d.submitted)] /\ Len(d.submitted) # 0
    BY <1>7, <1>8, <1>9 DEF LatestReplica, Last
  <2> QED
    BY <1>2, <2>1 DEF Ordered, base, input, d
<1>10. CASE d.submitted = << >>
  <2>1. base = d.acknowledged /\ Len(d.submitted) = 0
    BY <1>7, <1>10 DEF LatestReplica
  <2> QED
    BY <1>2, <1>3, <2>1 DEF Ordered, base, input, d
<1> QED
  BY <1>9, <1>10

\* A committed emission continues the chain.
LEMMA CommitKeepsChain ==
  ASSUME Inv, DeliveryKept, ChainKept, session = "joined",
         NEW source \in SourceSnapshots, NEW due,
         ~EncodeRejects(pipeline, EncodeInput(PreparedDelivery, source)),
         CommitEmission(PreparedDelivery,
                        Encoded(pipeline, EncodeInput(PreparedDelivery, source), due)),
         UNCHANGED clientVars
  PROVE  ChainKept'
<1> SUFFICES ASSUME Chained
             PROVE  ChainKept'
  BY DEF ChainKept, Chained
<1> DEFINE input   == EncodeInput(PreparedDelivery, source)
           encoded == Encoded(pipeline, input, due)
           m       == MessageOf(encoded)
           n       == Len(snapshot_lane)
<1>1. EmitPatch(pipeline, input) => PatchBase(pipeline, input).sequence = Len(emitted)
  BY ChainedBase
<1>2. /\ snapshot_lane' = Append(snapshot_lane, m)
      /\ emitted' = Append(emitted, Emission(encoded))
      /\ session' = session
  BY DEF CommitEmission, MessageOf
<1>3. /\ Encodable(input)
      /\ encoded.sequence = Len(emitted) + 1
      /\ encoded.baseline_sequence \in Nat /\ encoded.update \in Updates
  BY TickFacts
<1>4. /\ pipeline \in PipelineStates /\ snapshot_lane \in Seq(Messages)
      /\ emitted \in Seq(Emissions) /\ latest_applied_sequence \in Nat
  BY DEF Inv, TypeOK
<1>5. /\ ~EmitPatch(pipeline, input) => encoded.update.kind = "FullReplace"
      /\ EmitPatch(pipeline, input) =>
            encoded.baseline_sequence = PatchBase(pipeline, input).sequence
  BY <1>3, <1>4, EncodedFacts
<1>6. latest_applied_sequence + n = Len(emitted)
  BY DEF ChainKept
<1>7. m.sequence = latest_applied_sequence + (n + 1)
      /\ (m.update.kind = "Patch" => m.baseline_sequence = latest_applied_sequence + (n + 1) - 1)
  <2> HIDE DEF encoded, input
  <2>1. n \in Nat /\ Len(emitted) \in Nat
    BY <1>4
  <2>2. /\ m.sequence = encoded.sequence /\ m.update = encoded.update
        /\ m.baseline_sequence = encoded.baseline_sequence
    BY DEF MessageOf
  <2> HIDE DEF n, m
  <2>3. m.sequence = latest_applied_sequence + (n + 1)
    BY <1>3, <1>4, <1>6, <2>1, <2>2
  <2>4. m.update.kind = "Patch" => m.baseline_sequence = Len(emitted)
    BY <1>1, <1>5, <2>2
  <2>5. Len(emitted) = latest_applied_sequence + (n + 1) - 1
    BY <1>4, <1>6, <2>1
  <2> QED
    BY <2>3, <2>4, <2>5
<1> HIDE DEF encoded, input, m
<1>8. /\ Len(snapshot_lane') = n + 1
      /\ \A i \in 1..Len(snapshot_lane') :
            \/ i \in 1..n /\ snapshot_lane'[i] = snapshot_lane[i]
            \/ i = n + 1 /\ snapshot_lane'[i] = m
  <2>1. m \in Messages
    <3>1. Len(emitted) + 1 \in Nat
      BY <1>4
    <3> QED
      BY <1>3, <3>1 DEF Messages, MessageOf, m
  <2> QED
    BY <1>2, <1>4, <2>1
<1>9. Len(emitted') = Len(emitted) + 1
  BY <1>2, <1>4
<1>10. latest_applied_sequence' + Len(snapshot_lane') = Len(emitted')
  BY <1>4, <1>6, <1>8, <1>9 DEF clientVars
<1>11. latest_applied_sequence' = latest_applied_sequence /\ requested_missing_baseline' = 0
  BY DEF clientVars, ChainKept
<1>12. \A i \in 1..Len(snapshot_lane') :
             /\ snapshot_lane'[i].sequence = latest_applied_sequence + i
             /\ snapshot_lane'[i].update.kind = "Patch" =>
                   snapshot_lane'[i].baseline_sequence = latest_applied_sequence + i - 1
  BY <1>7, <1>8 DEF ChainKept
<1> QED
  BY <1>10, <1>11, <1>12 DEF ChainKept, Chained

\* The newest applied update is retained.
LEMMA LatestIsRetained ==
  ASSUME Inv, ClientKept, latest_applied_sequence # 0
  PROVE  latest_applied_sequence \in RetainedSequences
<1>1. snapshot_history \in Seq(Retained)
  BY DEF Inv, TypeOK
<1>2. snapshot_history # << >> /\ Last(snapshot_history).sequence = latest_applied_sequence
  BY DEF ClientKept, AppliedBounded, Inv, HistoryEndsWithLatest
<1>3. Len(snapshot_history) \in DOMAIN snapshot_history
  BY <1>1, <1>2
<1> QED
  BY <1>2, <1>3 DEF RetainedSequences, Last

\* The client has the baseline of the oldest update of a chain in flight.
LEMMA ChainedBaselineHeld ==
  ASSUME Inv, ClientKept, ChainKept, Chained, snapshot_lane # << >>
  PROVE  /\ Head(snapshot_lane).sequence = latest_applied_sequence + 1
         /\ ~MissingBaseline(Head(snapshot_lane))
<1> DEFINE m == Head(snapshot_lane)
<1>1. /\ snapshot_lane \in Seq(Messages) /\ latest_applied_sequence \in Nat
      /\ snapshot_history \in Seq(Retained)
  BY DEF Inv, TypeOK
<1>2. m = snapshot_lane[1] /\ 1 \in 1..Len(snapshot_lane) /\ m \in Messages
  BY <1>1, LaneTail
<1>3. m.sequence = latest_applied_sequence + 1
      /\ (m.update.kind = "Patch" => m.baseline_sequence = latest_applied_sequence + 1 - 1)
  BY <1>2 DEF ChainKept
<1>4. m.update.kind = "FullReplace" => m.baseline_sequence = 0
  BY <1>2 DEF ClientKept, LaneAcceptable, Acceptable
<1>5. m.update.kind \in {"FullReplace", "Patch"}
  BY <1>2 DEF Messages, Updates, Kinds
<1>6. latest_applied_sequence # 0 => latest_applied_sequence \in RetainedSequences
  BY LatestIsRetained
<1> HIDE DEF m
<1>7. m.baseline_sequence # 0 => m.baseline_sequence = latest_applied_sequence
  BY <1>1, <1>3, <1>4, <1>5
<1> QED
  BY <1>3, <1>6, <1>7 DEF MissingBaseline, m

\* The chain is kept by every step.
LEMMA ChainKeptStep == Inv /\ DeliveryKept /\ ClientKept /\ ChainKept /\ [Next]_vars => ChainKept'
<1> SUFFICES ASSUME Inv, DeliveryKept, ClientKept, ChainKept, [Next]_vars, Chained
             PROVE  ChainKept'
  BY DEF ChainKept, Chained
<1>1. /\ snapshot_lane \in Seq(Messages) /\ latest_applied_sequence \in Nat
      /\ emitted \in Seq(Emissions)
  BY DEF Inv, TypeOK
<1>2. ASSUME NEW source \in SourceSnapshots, NEW due, ReplicatePeer(source, due)
      PROVE  ChainKept'
  <2> DEFINE input   == EncodeInput(PreparedDelivery, source)
             encoded == Encoded(pipeline, input, due)
  <2>1. ~EncodeRejects(pipeline, input) /\ UNCHANGED clientVars /\ session = "joined"
    BY <1>2 DEF ReplicatePeer
  <2>2. CASE CommitEmission(PreparedDelivery, encoded)
    BY <2>1, <2>2, CommitKeepsChain
  <2>3. CASE \/ AbandonEmission(PreparedDelivery, encoded)
             \/ DropOversized(PreparedDelivery, encoded)
             \/ DropOnSendFailure(PreparedDelivery, encoded)
    <3>1. /\ session' = session \/ session' = "dropped"
          /\ UNCHANGED <<snapshot_lane, emitted>>
      BY <2>3 DEF AbandonEmission, DropOversized, DropOnSendFailure
    <3> QED
      BY <2>1, <3>1 DEF ChainKept, Chained, clientVars
  <2> QED
    BY <1>2, <2>2, <2>3 DEF ReplicatePeer
<1>3. CASE ClientReceiveSnapshot
  <2> DEFINE m == Head(snapshot_lane)
  <2>1. /\ snapshot_lane # << >> /\ snapshot_lane' = Tail(snapshot_lane)
        /\ emitted' = emitted
    BY <1>3 DEF ClientReceiveSnapshot, serverVars
  <2>2. m.sequence = latest_applied_sequence + 1 /\ ~MissingBaseline(m)
    BY <2>1, ChainedBaselineHeld
  <2>3. ApplyUpdate(m)
    <3>1. ~(m.sequence <= latest_applied_sequence)
      BY <1>1, <2>2
    <3> QED
      BY <1>3, <2>2, <3>1, ReceiveCases DEF ClientKept
  <2>4. /\ latest_applied_sequence' = latest_applied_sequence + 1
        /\ requested_missing_baseline' = 0
        /\ session' = session \/ session' = "closed"
    BY <2>2, <2>3 DEF ApplyUpdate, SendToServer
  <2> HIDE DEF m
  <2>5. /\ Len(snapshot_lane') = Len(snapshot_lane) - 1
        /\ \A i \in 1..Len(snapshot_lane') :
              i + 1 \in 1..Len(snapshot_lane) /\ snapshot_lane'[i] = snapshot_lane[i + 1]
    BY <1>1, <2>1, LaneTail
  <2>6. Len(snapshot_lane) \in Nat /\ Len(snapshot_lane') \in Nat
    BY <1>1, <2>1
  <2>7. \A i \in 1..Len(snapshot_lane') :
             /\ snapshot_lane'[i].sequence = latest_applied_sequence' + i
             /\ snapshot_lane'[i].update.kind = "Patch" =>
                   snapshot_lane'[i].baseline_sequence = latest_applied_sequence' + i - 1
    <3> TAKE i \in 1..Len(snapshot_lane')
    <3>1. i + 1 \in 1..Len(snapshot_lane) /\ snapshot_lane'[i] = snapshot_lane[i + 1]
      BY <2>5
    <3>2. latest_applied_sequence + (i + 1) = latest_applied_sequence' + i
          /\ latest_applied_sequence + (i + 1) - 1 = latest_applied_sequence' + i - 1
      BY <1>1, <2>4, <2>6
    <3> QED
      BY <3>1, <3>2 DEF ChainKept
  <2>8. session' = "joined" =>
           latest_applied_sequence' + Len(snapshot_lane') = Len(emitted')
    <3>1. session' = "joined" => latest_applied_sequence + Len(snapshot_lane) = Len(emitted)
      BY <2>4 DEF ChainKept
    <3>2. latest_applied_sequence' + Len(snapshot_lane')
            = latest_applied_sequence + Len(snapshot_lane)
      BY <1>1, <2>4, <2>5, <2>6
    <3> QED
      BY <2>1, <3>1, <3>2
  <2> QED
    BY <2>4, <2>7, <2>8 DEF ChainKept
<1>4. CASE ServerReceiveAck \/ ServerReceiveRecoveryRequest \/ Wait \/ UNCHANGED vars
  <2>1. UNCHANGED <<session, snapshot_lane, emitted, clientVars>>
    BY <1>4 DEF ServerReceiveAck, ServerReceiveRecoveryRequest, Wait, vars, serverVars
  <2> QED
    BY <2>1 DEF ChainKept, Chained, clientVars
<1>5. CASE LoseSnapshot
  BY <1>5 DEF LoseSnapshot, Chained
<1>6. CASE CloseConnection
  <2>1. /\ snapshot_lane' = << >> /\ session' = "dropped"
        /\ UNCHANGED <<emitted, clientVars>>
    BY <1>6 DEF CloseConnection, serverVars
  <2> QED
    BY <2>1 DEF ChainKept, Chained, clientVars
<1> QED
  BY <1>2, <1>3, <1>4, <1>5, <1>6 DEF Next

\* The invariant of the chain.
THEOREM ChainKeptHolds == Spec => []ChainKept
<1>1. Init => ChainKept
  BY DEF Init, ChainKept
<1>2. Inv /\ DeliveryKept /\ ClientKept /\ ChainKept /\ [Next]_vars => ChainKept'
  BY ChainKeptStep
<1> QED
  BY <1>1, <1>2, InvariantHolds, DeliveryKeptHolds, ClientKeptHolds, PTL DEF Spec

\* With reliable ordered delivery, replicate_peer chains every partial Patch on the
\* latest submitted replica, so the client never asks for a missing baseline.
THEOREM ReliableChainsHold == Spec => []ReliableChainUnbroken
<1>1. ChainKept => ReliableChainUnbroken
  BY DEF ChainKept, ReliableChainUnbroken, Chained
<1> QED
  BY <1>1, ChainKeptHolds, PTL

-----------------------------------------------------------------------------
(* The input lane.  RequestComesLate rests on an account of every request in *)
(* flight: the acknowledgements before it move the server past the baseline  *)
(* it misses, or into a recovery that only a newer acknowledgement can end.  *)

IsAck(m) == m.type = "SnapshotAck"

\* The server is past the sequence, or will be after the first n messages, or is in
\* a recovery that no acknowledgement of that sequence or an older one can end.
CoveredBy(sequence, n) ==
    \/ delivery.latest_acknowledged_sequence > sequence
    \/ /\ delivery.recovery_active
       /\ \A i \in 1..Len(input_lane) :
             IsAck(input_lane[i]) => input_lane[i].sequence > sequence
    \/ \E i \in 1..n : IsAck(input_lane[i]) /\ input_lane[i].sequence > sequence

AcknowledgementsAscend ==
    \A i, j \in 1..Len(input_lane) :
       i < j /\ IsAck(input_lane[i]) /\ IsAck(input_lane[j]) =>
          input_lane[i].sequence < input_lane[j].sequence

\* Whatever is older than the newest applied update is covered by the whole lane.
OlderCovered ==
    \A b \in Nat : b < latest_applied_sequence => CoveredBy(b, Len(input_lane))

RequestsCovered ==
    \A i \in 1..Len(input_lane) :
       ~IsAck(input_lane[i]) =>
          /\ input_lane[i].missing < latest_applied_sequence
          /\ CoveredBy(input_lane[i].missing, i - 1)

\* Unless the updates are chained, a Patch in flight builds on what the client applied.
PatchesProven ==
    ~Chained => \A i \in 1..Len(snapshot_lane) :
                   snapshot_lane[i].update.kind = "Patch" =>
                      snapshot_lane[i].baseline_sequence \in applied

InputKept ==
    /\ PatchesProven
    /\ session = "joined" => AcknowledgementsAscend /\ OlderCovered /\ RequestsCovered

\* Unless the updates are chained, a Patch builds on the acknowledged result.
LEMMA UnchainedBase ==
  ASSUME Inv, ~Chained, NEW source \in SourceSnapshots,
         ~EncodeRejects(pipeline, EncodeInput(PreparedDelivery, source)),
         EmitPatch(pipeline, EncodeInput(PreparedDelivery, source))
  PROVE  PatchBase(pipeline, EncodeInput(PreparedDelivery, source)).sequence \in applied
<1> DEFINE d     == PreparedDelivery
           input == EncodeInput(d, source)
           base  == PatchBase(pipeline, input)
<1>1. HasResult(d.acknowledged) => d.acknowledged.sequence \in applied
  BY TickFacts
<1>2. HasResult(base)
  BY PatchBaseHeld
<1>3. base \in {input.baseline, input.replica}
  BY DEF PatchBase
<1> HIDE DEF d, base
<1>4. ~Reliable => LatestReplica(d) = d.acknowledged
  BY DEF LatestReplica
<1>5. input.baseline \in {NoResult, d.acknowledged}
  <2>1. input.baseline = DeltaBaseline(d)
    BY DEF EncodeInput
  <2>2. CASE d.recovery_active
    BY <2>1, <2>2 DEF DeltaBaseline
  <2>3. CASE ~d.recovery_active /\ LevelOfDetail
    BY <1>4, <2>1, <2>3 DEF DeltaBaseline, Chained
  <2>4. CASE ~d.recovery_active /\ ~LevelOfDetail /\ Delta
    BY <2>1, <2>4 DEF DeltaBaseline
  <2>5. CASE ~d.recovery_active /\ ~LevelOfDetail /\ ~Delta
    BY <2>1, <2>5 DEF DeltaBaseline
  <2> QED
    BY <2>2, <2>3, <2>4, <2>5
<1>6. input.replica \in {NoResult, d.acknowledged}
  BY <1>4 DEF EncodeInput, Chained
<1> HIDE DEF input
<1>7. base = d.acknowledged
  BY <1>2, <1>3, <1>5, <1>6, NoResultType
<1> QED
  BY <1>1, <1>2, <1>7 DEF base, input, d

\* A committed emission builds on what the client applied.
LEMMA CommitKeepsProven ==
  ASSUME Inv, PatchesProven, NEW source \in SourceSnapshots, NEW due,
         ~EncodeRejects(pipeline, EncodeInput(PreparedDelivery, source)),
         CommitEmission(PreparedDelivery,
                        Encoded(pipeline, EncodeInput(PreparedDelivery, source), due)),
         UNCHANGED clientVars
  PROVE  PatchesProven'
<1> SUFFICES ASSUME ~Chained PROVE PatchesProven'
  BY DEF PatchesProven, Chained
<1> DEFINE input   == EncodeInput(PreparedDelivery, source)
           encoded == Encoded(pipeline, input, due)
           m       == MessageOf(encoded)
<1>1. EmitPatch(pipeline, input) => PatchBase(pipeline, input).sequence \in applied
  BY UnchainedBase
<1>2. snapshot_lane' = Append(snapshot_lane, m)
  BY DEF CommitEmission, MessageOf
<1>3. Encodable(input)
  BY TickFacts
<1>4. pipeline \in PipelineStates /\ snapshot_lane \in Seq(Messages)
  BY DEF Inv, TypeOK
<1>5. /\ ~EmitPatch(pipeline, input) => encoded.update.kind = "FullReplace"
      /\ EmitPatch(pipeline, input) =>
            encoded.baseline_sequence = PatchBase(pipeline, input).sequence
  BY <1>3, <1>4, EncodedFacts
<1>6. m.baseline_sequence = encoded.baseline_sequence /\ m.update = encoded.update
  BY DEF MessageOf
<1> HIDE DEF encoded, input, m
<1>7. \A i \in 1..Len(snapshot_lane') :
         \/ i \in 1..Len(snapshot_lane) /\ snapshot_lane'[i] = snapshot_lane[i]
         \/ snapshot_lane'[i] = m
  BY <1>2, <1>4
<1>8. m.update.kind = "Patch" => m.baseline_sequence \in applied
  BY <1>1, <1>5, <1>6
<1>9. applied' = applied
  BY DEF clientVars
<1> QED
  BY <1>7, <1>8, <1>9 DEF PatchesProven

\* A server step that reads nothing and only enters recovery.
LEMMA QuietStepCovers ==
  ASSUME InputKept, PatchesProven',
         session' = "joined" => session = "joined",
         UNCHANGED <<input_lane, latest_applied_sequence>>,
         delivery'.latest_acknowledged_sequence = delivery.latest_acknowledged_sequence,
         delivery.recovery_active => delivery'.recovery_active
  PROVE  InputKept'
<1>1. \A b, n : CoveredBy(b, n) => CoveredBy(b, n)'
  BY DEF CoveredBy
<1> QED
  BY <1>1 DEF InputKept, AcknowledgementsAscend, OlderCovered, RequestsCovered

\* Reading a message of the input lane.
LEMMA InputTail ==
  ASSUME NEW lane \in Seq(InputMessages), lane # << >>
  PROVE  /\ Head(lane) = lane[1] /\ 1 \in 1..Len(lane) /\ Len(lane) \in Nat
         /\ Tail(lane) \in Seq(InputMessages) /\ Len(Tail(lane)) = Len(lane) - 1
         /\ \A i \in 1..Len(Tail(lane)) :
               i + 1 \in 1..Len(lane) /\ Tail(lane)[i] = lane[i + 1]
         /\ \A i \in 2..Len(lane) :
               i - 1 \in 1..Len(Tail(lane)) /\ Tail(lane)[i - 1] = lane[i]
<1>1. /\ Head(lane) = lane[1] /\ 1 \in 1..Len(lane) /\ Len(lane) \in Nat
      /\ Tail(lane) \in Seq(InputMessages) /\ Len(Tail(lane)) = Len(lane) - 1
      /\ \A i \in 1..Len(Tail(lane)) :
            i + 1 \in 1..Len(lane) /\ Tail(lane)[i] = lane[i + 1]
  OBVIOUS
<1>2. \A i \in 2..Len(lane) : i - 1 \in 1..Len(Tail(lane)) /\ (i - 1) + 1 = i
  BY <1>1
<1>3. \A i \in 2..Len(lane) : Tail(lane)[i - 1] = lane[i]
  BY <1>1, <1>2
<1> QED
  BY <1>1, <1>2, <1>3

\* An acknowledgement moves the acknowledged sequence up to it, or leaves the peer
\* in recovery.
LEMMA AckMovesOn ==
  ASSUME Inv, DeliveryKept, AppliedBounded, ServerReceiveAck
  PROVE  /\ delivery'.latest_acknowledged_sequence >= delivery.latest_acknowledged_sequence
         /\ \/ delivery'.recovery_active
            \/ delivery'.latest_acknowledged_sequence >= Head(input_lane).sequence
<1>1. /\ input_lane # << >> /\ Head(input_lane).type = "SnapshotAck"
      /\ delivery' = AcceptedAck(delivery, Head(input_lane))
      /\ input_lane' = Tail(input_lane) /\ applied' = applied
  BY DEF ServerReceiveAck, clientVars
<1>2. Head(input_lane).sequence \in applied
  BY <1>1, InputRead
<1>3. /\ delivery \in DeliveryStates /\ latest_applied_sequence \in Nat
      /\ emitted \in Seq(Emissions)
  BY DEF Inv, TypeOK
<1>4. PICK s \in applied : s = Head(input_lane).sequence
  BY <1>2
<1> DEFINE p == PromoteSnapshotAck(delivery, s)
<1>5. s \in 1..latest_applied_sequence
  BY <1>4 DEF AppliedBounded
<1>6. latest_applied_sequence \in DOMAIN emitted
  BY <1>3, <1>5 DEF Inv, WorldMatchesEmission
<1>7. delivery.latest_submitted_sequence = Len(emitted)
  BY DEF DeliveryKept
<1>8. s \in Nat /\ s # 0 /\ s <= delivery.latest_submitted_sequence
  BY <1>3, <1>5, <1>6, <1>7
<1>9. delivery' = p
  BY <1>1, <1>4, <1>8 DEF AcceptedAck
<1>10. p.recovery_active \/ p.latest_acknowledged_sequence >= s
  BY <1>3, <1>8, PromoteKeeps
<1>11. \/ p.latest_acknowledged_sequence = delivery.latest_acknowledged_sequence
       \/ /\ p.latest_acknowledged_sequence = s
          /\ s > delivery.latest_acknowledged_sequence
  BY <1>3, <1>8, PromoteSnapshotAckFacts
<1>12. delivery.latest_acknowledged_sequence \in Nat
  BY <1>3, DeliveryFields
<1> HIDE DEF p
<1>13. p.latest_acknowledged_sequence >= delivery.latest_acknowledged_sequence
  BY <1>8, <1>11, <1>12
<1> QED
  BY <1>4, <1>9, <1>10, <1>13

\* Reading the head of the input lane covers what the lane covered, one message
\* earlier.
LEMMA CoveredAfterRead ==
  ASSUME Inv, input_lane # << >>, input_lane' = Tail(input_lane),
         AcknowledgementsAscend, delivery' \in DeliveryStates,
         delivery'.latest_acknowledged_sequence >= delivery.latest_acknowledged_sequence,
         IF IsAck(Head(input_lane))
         THEN \/ delivery'.recovery_active
              \/ delivery'.latest_acknowledged_sequence >= Head(input_lane).sequence
         ELSE delivery.recovery_active => delivery'.recovery_active,
         NEW b \in Nat, NEW n \in 1..Len(input_lane), CoveredBy(b, n)
  PROVE  CoveredBy(b, n - 1)'
<1> DEFINE head == Head(input_lane)
           before == delivery.latest_acknowledged_sequence
           after  == delivery'.latest_acknowledged_sequence
<1>1. input_lane \in Seq(InputMessages) /\ delivery \in DeliveryStates
  BY DEF Inv, TypeOK
<1>2. /\ head = input_lane[1] /\ 1 \in 1..Len(input_lane) /\ Len(input_lane) \in Nat
      /\ Len(input_lane') = Len(input_lane) - 1
      /\ \A i \in 1..Len(input_lane') :
            i + 1 \in 1..Len(input_lane) /\ input_lane'[i] = input_lane[i + 1]
      /\ \A i \in 2..Len(input_lane) :
            i - 1 \in 1..Len(input_lane') /\ input_lane'[i - 1] = input_lane[i]
  BY <1>1, InputTail
<1>3. before \in Nat /\ after \in Nat /\ after >= before
  BY <1>1, DeliveryFields
<1>4. \A i \in 1..Len(input_lane) : IsAck(input_lane[i]) => input_lane[i].sequence \in Nat
  BY <1>1 DEF IsAck, InputMessages
<1> HIDE DEF before
<1>5. CoveredBy(b, n - 1)' <=>
         \/ after > b
         \/ /\ delivery'.recovery_active
            /\ \A i \in 1..Len(input_lane') :
                  IsAck(input_lane'[i]) => input_lane'[i].sequence > b
         \/ \E i \in 1..(n - 1) : IsAck(input_lane'[i]) /\ input_lane'[i].sequence > b
  BY DEF CoveredBy, IsAck
<1> HIDE DEF after, head
<1>6. ASSUME IsAck(head), head.sequence > b,
             \A i \in 2..Len(input_lane) : IsAck(input_lane[i]) => input_lane[i].sequence > b
      PROVE  CoveredBy(b, n - 1)'
  <2>1. delivery'.recovery_active \/ after >= head.sequence
    BY <1>6 DEF after, head
  <2>2. head.sequence \in Nat
    BY <1>2, <1>4, <1>6
  <2>3. CASE after >= head.sequence
    <3>1. after > b
      BY <1>3, <1>6, <2>2, <2>3
    <3> QED
      BY <1>5, <3>1
  <2>4. CASE delivery'.recovery_active
    <3>1. \A i \in 1..Len(input_lane') : i + 1 \in 2..Len(input_lane)
      BY <1>2
    <3>2. \A i \in 1..Len(input_lane') :
             IsAck(input_lane'[i]) => input_lane'[i].sequence > b
      BY <1>2, <1>6, <3>1
    <3> QED
      BY <1>5, <2>4, <3>2
  <2> QED
    BY <2>1, <2>3, <2>4
<1>7. CASE before > b
  <2>1. after > b
    BY <1>3, <1>7
  <2> QED
    BY <1>5, <2>1
<1>8. CASE /\ delivery.recovery_active
           /\ \A i \in 1..Len(input_lane) :
                 IsAck(input_lane[i]) => input_lane[i].sequence > b
  <2>1. \A i \in 2..Len(input_lane) : i \in 1..Len(input_lane)
    BY <1>2
  <2>2. CASE IsAck(head)
    BY <1>2, <1>6, <1>8, <2>1, <2>2
  <2>3. CASE ~IsAck(head)
    <3>1. delivery'.recovery_active
      BY <1>8, <2>3 DEF head
    <3>2. \A i \in 1..Len(input_lane') :
             IsAck(input_lane'[i]) => input_lane'[i].sequence > b
      BY <1>2, <1>8
    <3> QED
      BY <1>5, <3>1, <3>2
  <2> QED
    BY <2>2, <2>3
<1>9. CASE \E i \in 1..n : IsAck(input_lane[i]) /\ input_lane[i].sequence > b
  <2>1. PICK i \in 1..n : IsAck(input_lane[i]) /\ input_lane[i].sequence > b
    BY <1>9
  <2>2. CASE i = 1
    <3>1. \A j \in 2..Len(input_lane) : j \in 1..Len(input_lane) /\ 1 < j
      BY <1>2
    <3>2. \A j \in 2..Len(input_lane) :
             IsAck(input_lane[j]) => input_lane[1].sequence < input_lane[j].sequence
      BY <1>2, <2>1, <2>2, <3>1 DEF AcknowledgementsAscend
    <3>3. \A j \in 2..Len(input_lane) : IsAck(input_lane[j]) => input_lane[j].sequence > b
      BY <1>2, <1>4, <2>1, <2>2, <3>1, <3>2
    <3> QED
      BY <1>2, <1>6, <2>1, <2>2, <3>3
  <2>3. CASE i # 1
    <3>1. i \in 2..Len(input_lane) /\ i - 1 \in 1..(n - 1)
      BY <1>2, <2>3
    <3> QED
      BY <1>2, <1>5, <2>1, <3>1
  <2> QED
    BY <2>2, <2>3
<1> QED
  BY <1>7, <1>8, <1>9 DEF CoveredBy, before

\* Reading the head of the input lane keeps the account of the rest.
LEMMA ReadKeepsInput ==
  ASSUME Inv, InputKept, session = "joined",
         input_lane # << >>, input_lane' = Tail(input_lane),
         delivery' \in DeliveryStates,
         delivery'.latest_acknowledged_sequence >= delivery.latest_acknowledged_sequence,
         IF IsAck(Head(input_lane))
         THEN \/ delivery'.recovery_active
              \/ delivery'.latest_acknowledged_sequence >= Head(input_lane).sequence
         ELSE delivery.recovery_active => delivery'.recovery_active,
         UNCHANGED <<session, snapshot_lane, clientVars>>
  PROVE  InputKept'
<1>1. input_lane \in Seq(InputMessages) /\ latest_applied_sequence \in Nat
  BY DEF Inv, TypeOK
<1>2. /\ Len(input_lane) \in Nat /\ Len(input_lane) \in 1..Len(input_lane)
      /\ Len(input_lane') = Len(input_lane) - 1
      /\ \A i \in 1..Len(input_lane') :
            i + 1 \in 1..Len(input_lane) /\ input_lane'[i] = input_lane[i + 1]
  BY <1>1, InputTail
<1>3. AcknowledgementsAscend /\ OlderCovered /\ RequestsCovered
  BY DEF InputKept
<1>4. \A b \in Nat, n \in 1..Len(input_lane) : CoveredBy(b, n) => CoveredBy(b, n - 1)'
  BY <1>3, CoveredAfterRead
<1>5. PatchesProven'
  BY DEF InputKept, PatchesProven, Chained, clientVars
<1>6. AcknowledgementsAscend'
  <2>1. \A i, j \in 1..Len(input_lane') :
           i < j /\ IsAck(input_lane'[i]) /\ IsAck(input_lane'[j]) =>
              input_lane'[i].sequence < input_lane'[j].sequence
    <3> TAKE i, j \in 1..Len(input_lane')
    <3>1. i < j => i + 1 < j + 1
      BY <1>2
    <3> QED
      BY <1>2, <1>3, <3>1 DEF AcknowledgementsAscend
  <2> QED
    BY <2>1 DEF AcknowledgementsAscend, IsAck
<1>7. OlderCovered'
  <2>1. PICK n \in 1..Len(input_lane) : n = Len(input_lane)
    BY <1>2
  <2>2. \A b \in Nat : b < latest_applied_sequence => CoveredBy(b, n - 1)'
    BY <1>3, <1>4, <2>1 DEF OlderCovered
  <2>3. Len(input_lane') = n - 1 /\ latest_applied_sequence' = latest_applied_sequence
    BY <1>2, <2>1 DEF clientVars
  <2>4. \A b \in Nat : CoveredBy(b, n - 1)' => CoveredBy(b, Len(input_lane))'
    BY <2>3 DEF CoveredBy
  <2> QED
    BY <2>2, <2>3, <2>4 DEF OlderCovered
<1>8. RequestsCovered'
  <2> SUFFICES ASSUME NEW i \in 1..Len(input_lane'), ~IsAck(input_lane'[i])
               PROVE  /\ input_lane'[i].missing < latest_applied_sequence'
                      /\ CoveredBy(input_lane[i].missing, i - 1)'
    BY DEF RequestsCovered, IsAck
  <2>1. /\ i + 1 \in 1..Len(input_lane) /\ input_lane'[i] = input_lane[i + 1]
        /\ i \in 1..Len(input_lane) /\ (i + 1) - 1 = i
    BY <1>2
  <2>2. /\ input_lane[i + 1].missing < latest_applied_sequence
        /\ CoveredBy(input_lane[i + 1].missing, (i + 1) - 1)
    BY <1>3, <2>1 DEF RequestsCovered
  <2>3. PICK b \in Nat : b = input_lane[i + 1].missing
    BY <1>1, <2>1 DEF InputMessages, IsAck
  <2>4. CoveredBy(b, i)
    BY <2>1, <2>2, <2>3
  <2>5. CoveredBy(b, i - 1)'
    BY <1>4, <2>1, <2>4
  <2>6. CoveredBy(input_lane[i].missing, i - 1)'
    BY <2>1, <2>3, <2>5 DEF CoveredBy
  <2> QED
    BY <2>1, <2>2, <2>6 DEF clientVars
<1> QED
  BY <1>5, <1>6, <1>7, <1>8 DEF InputKept

\* An acknowledgement of a newer update, sent behind the others, covers all that the
\* client had applied before it.
LEMMA AckKeepsInput ==
  ASSUME Inv, ClientKept, InputKept, session = "joined", PatchesProven',
         NEW s \in Nat, s > latest_applied_sequence,
         input_lane' = Append(input_lane, [type |-> "SnapshotAck", sequence |-> s]),
         latest_applied_sequence' = s,
         UNCHANGED <<session, delivery>>
  PROVE  InputKept'
<1> DEFINE ack  == [type |-> "SnapshotAck", sequence |-> s]
           last == Len(input_lane) + 1
<1>1. input_lane \in Seq(InputMessages) /\ latest_applied_sequence \in Nat
      /\ delivery \in DeliveryStates
  BY DEF Inv, TypeOK
<1>2. /\ ack \in InputMessages /\ IsAck(ack) /\ ack.sequence = s
      /\ \A r \in InputMessages :
            IF IsAck(r) THEN r.sequence \in Nat ELSE r.missing \in Nat
  BY DEF InputMessages, IsAck
<1>3. input_lane' = Append(input_lane, ack)
  OBVIOUS
<1> HIDE DEF ack
<1>4. /\ Len(input_lane) \in Nat /\ last \in Nat
      /\ Len(input_lane') = last /\ input_lane'[last] = ack
      /\ \A i \in 1..last : i = last \/ i \in 1..Len(input_lane)
      /\ \A i \in 1..Len(input_lane) :
            /\ i \in 1..last /\ i < last /\ input_lane'[i] = input_lane[i]
            /\ input_lane[i] \in InputMessages
  BY <1>1, <1>2, <1>3
<1>5. AcknowledgementsAscend /\ OlderCovered /\ RequestsCovered
  BY DEF InputKept
<1>6. \A i \in 1..Len(input_lane) : IsAck(input_lane[i]) => input_lane[i].sequence < s
  <2> SUFFICES ASSUME NEW i \in 1..Len(input_lane), IsAck(input_lane[i])
               PROVE  input_lane[i].sequence < s
    OBVIOUS
  <2>1. input_lane[i].sequence \in 1..latest_applied_sequence
    BY DEF IsAck, Inv, AcknowledgementsTruthful, ClientKept, AppliedBounded
  <2> QED
    BY <1>1, <2>1
<1> HIDE DEF last
<1>7. AcknowledgementsAscend'
  <2> SUFFICES ASSUME NEW i \in 1..last, NEW j \in 1..last, i < j,
                      IsAck(input_lane'[i]), IsAck(input_lane'[j])
               PROVE  input_lane'[i].sequence < input_lane'[j].sequence
    BY <1>4 DEF AcknowledgementsAscend, IsAck
  <2>1. i \in 1..Len(input_lane)
    BY <1>4
  <2>2. CASE j = last
    BY <1>2, <1>4, <1>6, <2>1, <2>2
  <2>3. CASE j \in 1..Len(input_lane)
    BY <1>4, <1>5, <2>1, <2>3 DEF AcknowledgementsAscend
  <2> QED
    BY <1>4, <2>2, <2>3
\* What the lane covered stays covered, if it is older than the update.
<1>8. ASSUME NEW b \in Nat, b < s, NEW n \in 0..Len(input_lane), CoveredBy(b, n)
      PROVE  CoveredBy(b, n)'
  <2>1. \/ delivery'.latest_acknowledged_sequence > b
        \/ /\ delivery'.recovery_active
           /\ \A i \in 1..Len(input_lane) :
                 IsAck(input_lane'[i]) => input_lane'[i].sequence > b
        \/ \E i \in 1..n : IsAck(input_lane'[i]) /\ input_lane'[i].sequence > b
    BY <1>4, <1>8 DEF CoveredBy
  <2>2. IsAck(input_lane'[last]) /\ input_lane'[last].sequence > b
    BY <1>2, <1>4, <1>8
  <2>3. \/ delivery'.latest_acknowledged_sequence > b
        \/ /\ delivery'.recovery_active
           /\ \A i \in 1..Len(input_lane') :
                 IsAck(input_lane'[i]) => input_lane'[i].sequence > b
        \/ \E i \in 1..n : IsAck(input_lane'[i]) /\ input_lane'[i].sequence > b
    BY <1>4, <2>1, <2>2
  <2> QED
    BY <2>3 DEF CoveredBy, IsAck
<1>9. OlderCovered'
  <2> SUFFICES ASSUME NEW b \in Nat, b < s PROVE CoveredBy(b, Len(input_lane))'
    BY DEF OlderCovered
  <2>1. last \in 1..Len(input_lane') /\ IsAck(input_lane'[last])
        /\ input_lane'[last].sequence > b
    BY <1>2, <1>4
  <2> QED
    BY <2>1 DEF CoveredBy, IsAck
<1>10. RequestsCovered'
  <2> SUFFICES ASSUME NEW i \in 1..last, ~IsAck(input_lane'[i])
               PROVE  /\ input_lane'[i].missing < s
                      /\ CoveredBy(input_lane[i].missing, i - 1)'
    BY <1>4 DEF RequestsCovered, IsAck
  <2>1. i \in 1..Len(input_lane) /\ input_lane'[i] = input_lane[i]
        /\ i - 1 \in 0..Len(input_lane)
    BY <1>2, <1>4
  <2>2. PICK b \in Nat : b = input_lane[i].missing
    BY <1>2, <1>4, <2>1
  <2>3. b < latest_applied_sequence /\ CoveredBy(b, i - 1)
    BY <1>5, <2>1, <2>2 DEF RequestsCovered
  <2>4. b < s
    BY <1>1, <2>3
  <2>5. CoveredBy(b, i - 1)'
    BY <1>8, <2>1, <2>3, <2>4
  <2>6. CoveredBy(input_lane[i].missing, i - 1)'
    BY <2>1, <2>2, <2>5 DEF CoveredBy
  <2> QED
    BY <2>1, <2>2, <2>4, <2>6
<1> QED
  BY <1>7, <1>9, <1>10 DEF InputKept

\* A request for a baseline the client has moved past is covered by what was sent
\* before it.
LEMMA RequestKeepsInput ==
  ASSUME Inv, InputKept, session = "joined", PatchesProven',
         NEW request \in InputMessages, ~IsAck(request),
         request.missing < latest_applied_sequence,
         input_lane' = Append(input_lane, request),
         UNCHANGED <<session, delivery, latest_applied_sequence>>
  PROVE  InputKept'
<1> DEFINE last == Len(input_lane) + 1
<1>1. input_lane \in Seq(InputMessages) /\ latest_applied_sequence \in Nat
  BY DEF Inv, TypeOK
<1>2. /\ Len(input_lane) \in Nat /\ last \in Nat
      /\ Len(input_lane') = last /\ input_lane'[last] = request
      /\ \A i \in 1..last : i = last \/ i \in 1..Len(input_lane)
      /\ \A i \in 1..Len(input_lane) : i \in 1..last /\ input_lane'[i] = input_lane[i]
      /\ last - 1 = Len(input_lane)
  BY <1>1
<1>3. request.missing \in Nat
      /\ \A r \in InputMessages : ~IsAck(r) => r.missing \in Nat
  BY DEF InputMessages, IsAck
<1>4. AcknowledgementsAscend /\ OlderCovered /\ RequestsCovered
  BY DEF InputKept
<1> HIDE DEF last
<1>5. \A i \in 1..last : IsAck(input_lane'[i]) =>
         i \in 1..Len(input_lane) /\ input_lane'[i] = input_lane[i]
  BY <1>2
<1>6. AcknowledgementsAscend'
  BY <1>2, <1>4, <1>5 DEF AcknowledgementsAscend, IsAck
<1>7. \A b \in Nat, n \in 0..Len(input_lane) : CoveredBy(b, n) => CoveredBy(b, n)'
  <2> SUFFICES ASSUME NEW b \in Nat, NEW n \in 0..Len(input_lane), CoveredBy(b, n)
               PROVE  CoveredBy(b, n)'
    OBVIOUS
  <2>1. \A i \in 1..n : i \in 1..Len(input_lane)
    BY <1>2
  <2>2. \/ delivery'.latest_acknowledged_sequence > b
        \/ /\ delivery'.recovery_active
           /\ \A i \in 1..Len(input_lane') :
                 IsAck(input_lane'[i]) => input_lane'[i].sequence > b
        \/ \E i \in 1..n : IsAck(input_lane'[i]) /\ input_lane'[i].sequence > b
    BY <1>2, <1>5, <2>1 DEF CoveredBy
  <2> QED
    BY <2>2 DEF CoveredBy, IsAck
<1>8. PICK n \in 0..Len(input_lane) : n = Len(input_lane)
  BY <1>2
<1>9. \A b \in Nat : b < latest_applied_sequence => CoveredBy(b, n)'
  BY <1>4, <1>7, <1>8 DEF OlderCovered
<1>10. OlderCovered'
  <2>1. \A i \in 1..n : i \in 1..Len(input_lane')
    BY <1>2, <1>8
  <2>2. \A b \in Nat : CoveredBy(b, n)' => CoveredBy(b, Len(input_lane))'
    BY <2>1 DEF CoveredBy
  <2> QED
    BY <1>9, <2>2 DEF OlderCovered
<1>11. RequestsCovered'
  <2> SUFFICES ASSUME NEW i \in 1..last, ~IsAck(input_lane'[i])
               PROVE  /\ input_lane'[i].missing < latest_applied_sequence
                      /\ CoveredBy(input_lane[i].missing, i - 1)'
    BY <1>2 DEF RequestsCovered, IsAck
  <2>1. PICK b \in Nat : b = input_lane'[i].missing
    BY <1>1, <1>2, <1>3
  <2>2. b < latest_applied_sequence /\ CoveredBy(b, i - 1)'
    <3>1. CASE i = last
      <4>1. i - 1 = n /\ b = request.missing
        BY <1>2, <1>8, <2>1, <3>1
      <4> QED
        BY <1>9, <4>1
    <3>2. CASE i \in 1..Len(input_lane)
      <4>1. b < latest_applied_sequence /\ CoveredBy(b, i - 1)
        BY <1>2, <1>4, <2>1, <3>2 DEF RequestsCovered
      <4>2. i - 1 \in 0..Len(input_lane)
        BY <1>2, <3>2
      <4> QED
        BY <1>7, <4>1, <4>2
    <3> QED
      BY <1>2, <3>1, <3>2
  <2>3. CoveredBy(input_lane[i].missing, i - 1)'
    BY <2>1, <2>2 DEF CoveredBy
  <2> QED
    BY <2>1, <2>2, <2>3
<1> QED
  BY <1>6, <1>10, <1>11 DEF InputKept

\* A received update keeps the account of the input lane.
LEMMA ReceiveKeepsInput ==
  ASSUME Inv, ClientKept, ChainKept, InputKept, ClientReceiveSnapshot
  PROVE  InputKept'
<1> DEFINE m == Head(snapshot_lane)
<1>1. /\ snapshot_lane # << >> /\ snapshot_lane' = Tail(snapshot_lane)
      /\ delivery' = delivery
  BY DEF ClientReceiveSnapshot, serverVars
<1>2. /\ snapshot_lane \in Seq(Messages) /\ latest_applied_sequence \in Nat
      /\ applied \in SUBSET Nat
  BY DEF Inv, TypeOK
<1>3. m = snapshot_lane[1] /\ 1 \in 1..Len(snapshot_lane) /\ m \in Messages
  BY <1>1, <1>2, LaneTail
<1>4. /\ m.sequence \in Nat /\ m.baseline_sequence \in Nat
      /\ m.update.kind \in {"FullReplace", "Patch"}
  BY <1>3 DEF Messages, Updates, Kinds
<1>5. \/ UNCHANGED <<session, input_lane, clientVars>>
      \/ MissingBaseline(m) /\ RejectPatch(m)
      \/ m.sequence > latest_applied_sequence /\ ApplyUpdate(m)
  BY ReceiveCases DEF ClientKept
<1>6. m.update.kind = "FullReplace" => m.baseline_sequence = 0
  BY <1>3 DEF ClientKept, LaneAcceptable, Acceptable
<1>7. MissingBaseline(m) => ~Chained
  BY <1>1, ChainedBaselineHeld
<1>8. PatchesProven /\ (~Chained /\ m.update.kind = "Patch" => m.baseline_sequence \in applied)
  BY <1>3 DEF InputKept, PatchesProven
<1> HIDE DEF m
<1>9. applied \subseteq applied'
  BY <1>5 DEF clientVars, RejectPatch, ApplyUpdate
<1>10. PatchesProven'
  <2>1. \A i \in 1..Len(snapshot_lane') :
           i + 1 \in 1..Len(snapshot_lane) /\ snapshot_lane'[i] = snapshot_lane[i + 1]
    BY <1>1, <1>2, LaneTail
  <2> QED
    BY <1>8, <1>9, <2>1 DEF PatchesProven, Chained
<1>11. CASE UNCHANGED <<session, input_lane, clientVars>>
  BY <1>1, <1>10, <1>11, QuietStepCovers DEF clientVars
<1>12. CASE MissingBaseline(m) /\ RejectPatch(m)
  <2> DEFINE request == [type     |-> "SnapshotRecoveryRequest",
                         rejected |-> m.sequence,
                         missing  |-> m.baseline_sequence]
  <2>1. m.baseline_sequence \in applied /\ m.baseline_sequence < latest_applied_sequence
    <3>1. m.baseline_sequence \in applied
      BY <1>4, <1>6, <1>7, <1>8, <1>12 DEF MissingBaseline
    <3>2. m.baseline_sequence \in 1..latest_applied_sequence
      BY <3>1 DEF ClientKept, AppliedBounded
    <3>3. latest_applied_sequence \in RetainedSequences
      BY <1>2, <3>2, LatestIsRetained
    <3>4. m.baseline_sequence # latest_applied_sequence
      BY <1>12, <3>3 DEF MissingBaseline
    <3> QED
      BY <1>2, <3>1, <3>2, <3>4
  <2>2. request \in InputMessages /\ ~IsAck(request)
        /\ request.missing = m.baseline_sequence
    BY <1>4 DEF InputMessages, IsAck
  <2>3. UNCHANGED <<session, input_lane>> \/ SendToServer(request)
    BY <1>12 DEF RejectPatch
  <2>4. latest_applied_sequence' = latest_applied_sequence
    BY <1>12 DEF RejectPatch
  <2> HIDE DEF request
  <2>5. CASE session' # "joined" \/ UNCHANGED <<session, input_lane>>
    <3>1. CASE session' # "joined"
      BY <1>10, <3>1 DEF InputKept
    <3>2. CASE UNCHANGED <<session, input_lane>>
      BY <1>1, <1>10, <2>4, <3>2, QuietStepCovers
    <3> QED
      BY <2>5, <3>1, <3>2
  <2>6. CASE session' = "joined" /\ SendToServer(request)
    <3>1. input_lane' = Append(input_lane, request) /\ UNCHANGED session
      BY <2>6 DEF SendToServer
    <3> QED
      BY <1>1, <1>10, <2>1, <2>2, <2>4, <2>6, <3>1, RequestKeepsInput
  <2> QED
    BY <2>3, <2>5, <2>6
<1>13. CASE m.sequence > latest_applied_sequence /\ ApplyUpdate(m)
  <2>1. /\ SendToServer([type |-> "SnapshotAck", sequence |-> m.sequence])
        /\ latest_applied_sequence' = m.sequence
    BY <1>13 DEF ApplyUpdate
  <2>2. CASE session' # "joined"
    BY <1>10, <2>2 DEF InputKept
  <2>3. CASE session' = "joined"
    <3>1. input_lane' = Append(input_lane, [type |-> "SnapshotAck", sequence |-> m.sequence])
          /\ UNCHANGED session
      BY <2>1, <2>3 DEF SendToServer
    <3> QED
      BY <1>1, <1>4, <1>10, <1>13, <2>1, <2>3, <3>1, AckKeepsInput
  <2> QED
    BY <2>2, <2>3
<1> QED
  BY <1>5, <1>11, <1>12, <1>13

\* The account of the input lane is kept by every step.
LEMMA InputKeptStep ==
  Inv /\ DeliveryKept /\ ClientKept /\ ChainKept /\ InputKept /\ [Next]_vars => InputKept'
<1> SUFFICES ASSUME Inv, DeliveryKept, ClientKept, ChainKept, InputKept, [Next]_vars
             PROVE  InputKept'
  OBVIOUS
<1>1. delivery \in DeliveryStates /\ input_lane \in Seq(InputMessages)
  BY DEF Inv, TypeOK
<1>2. PatchesProven
  BY DEF InputKept
<1>3. ASSUME NEW source \in SourceSnapshots, NEW due, ReplicatePeer(source, due)
      PROVE  InputKept'
  <2> DEFINE encoded == Encoded(pipeline, EncodeInput(PreparedDelivery, source), due)
  <2>1. /\ delivery.recovery_active => delivery'.recovery_active
        /\ delivery'.latest_acknowledged_sequence = delivery.latest_acknowledged_sequence
    BY <1>3, TickDelivery
  <2>2. /\ session = "joined" /\ UNCHANGED <<input_lane, clientVars>>
        /\ ~EncodeRejects(pipeline, EncodeInput(PreparedDelivery, source))
    BY <1>3 DEF ReplicatePeer
  <2>3. PatchesProven'
    <3>1. CASE CommitEmission(PreparedDelivery, encoded)
      BY <1>2, <2>2, <3>1, CommitKeepsProven
    <3>2. CASE \/ AbandonEmission(PreparedDelivery, encoded)
               \/ DropOversized(PreparedDelivery, encoded)
               \/ DropOnSendFailure(PreparedDelivery, encoded)
      <4>1. snapshot_lane' = snapshot_lane
        BY <3>2 DEF AbandonEmission, DropOversized, DropOnSendFailure
      <4> QED
        BY <1>2, <2>2, <4>1 DEF PatchesProven, Chained, clientVars
    <3> QED
      BY <1>3, <3>1, <3>2 DEF ReplicatePeer
  <2> QED
    BY <2>1, <2>2, <2>3, QuietStepCovers DEF clientVars
<1>4. CASE ServerReceiveAck
  <2>1. /\ session = "joined" /\ input_lane # << >> /\ IsAck(Head(input_lane))
        /\ input_lane' = Tail(input_lane)
        /\ UNCHANGED <<session, snapshot_lane, clientVars>>
    BY <1>4 DEF ServerReceiveAck, IsAck
  <2>2. delivery' \in DeliveryStates
    BY <1>4, ServerReceiveAckPreserves DEF Inv, TypeOK
  <2> QED
    BY <1>4, <2>1, <2>2, AckMovesOn, ReadKeepsInput DEF ClientKept
<1>5. CASE ServerReceiveRecoveryRequest
  <2>1. /\ session = "joined" /\ input_lane # << >> /\ ~IsAck(Head(input_lane))
        /\ input_lane' = Tail(input_lane)
        /\ delivery' = AcceptedRecoveryRequest(delivery, Head(input_lane))
        /\ UNCHANGED <<session, snapshot_lane, clientVars>>
    BY <1>5 DEF ServerReceiveRecoveryRequest, IsAck
  <2>2. /\ delivery' \in DeliveryStates
        /\ delivery'.latest_acknowledged_sequence = delivery.latest_acknowledged_sequence
        /\ delivery.recovery_active => delivery'.recovery_active
    BY <2>1, AcceptedRecoveryRequestFacts
  <2>3. delivery'.latest_acknowledged_sequence >= delivery.latest_acknowledged_sequence
    BY <1>1, <2>2, DeliveryFields
  <2> QED
    BY <2>1, <2>2, <2>3, ReadKeepsInput
<1>6. CASE ClientReceiveSnapshot
  BY <1>6, ReceiveKeepsInput
<1>7. CASE LoseSnapshot \/ CloseConnection \/ Wait \/ UNCHANGED vars
  <2>1. /\ UNCHANGED <<session, delivery, input_lane, clientVars>>
        /\ \/ snapshot_lane' = snapshot_lane
           \/ snapshot_lane # << >> /\ snapshot_lane' = Tail(snapshot_lane)
           \/ snapshot_lane' = << >>
    BY <1>7 DEF LoseSnapshot, CloseConnection, Wait, vars, serverVars
  <2>2. snapshot_lane \in Seq(Messages)
    BY DEF Inv, TypeOK
  <2>3. PatchesProven'
    <3>1. CASE snapshot_lane' = snapshot_lane
      BY <1>2, <2>1, <3>1 DEF PatchesProven, Chained, clientVars
    <3>2. CASE snapshot_lane # << >> /\ snapshot_lane' = Tail(snapshot_lane)
      BY <1>2, <2>1, <2>2, <3>2, LaneTail DEF PatchesProven, Chained, clientVars
    <3>3. CASE snapshot_lane' = << >>
      BY <3>3 DEF PatchesProven
    <3> QED
      BY <2>1, <3>1, <3>2, <3>3
  <2> QED
    BY <2>1, <2>3, QuietStepCovers DEF clientVars
<1> QED
  BY <1>3, <1>4, <1>5, <1>6, <1>7 DEF Next

\* The invariant of the input lane.
THEOREM InputKeptHolds == Spec => []InputKept
<1>1. Init => InputKept
  <2> SUFFICES ASSUME Init PROVE InputKept
    OBVIOUS
  <2>1. /\ snapshot_lane = << >> /\ input_lane = << >> /\ latest_applied_sequence = 0
    BY DEF Init
  <2> QED
    BY <2>1 DEF InputKept, PatchesProven, AcknowledgementsAscend, OlderCovered,
                RequestsCovered
<1>2. Inv /\ DeliveryKept /\ ClientKept /\ ChainKept /\ InputKept /\ [Next]_vars => InputKept'
  BY InputKeptStep
<1> QED
  BY <1>1, <1>2, InvariantHolds, DeliveryKeptHolds, ClientKeptHolds, ChainKeptHolds, PTL
     DEF Spec

\* When poll_transport is about to read a request for a missing baseline, the
\* acknowledgements the client sent before it have already made the server recover,
\* or move past that baseline, whatever was evicted and expired meanwhile.
THEOREM RequestsAreOvertaken == Spec => []RequestComesLate
<1>1. Inv /\ InputKept => RequestComesLate
  <2> SUFFICES ASSUME Inv, InputKept, session = "joined", input_lane # << >>,
                      Head(input_lane).type = "SnapshotRecoveryRequest"
               PROVE  \/ delivery.recovery_active
                      \/ delivery.latest_acknowledged_sequence > Head(input_lane).missing
    BY DEF RequestComesLate
  <2>1. input_lane \in Seq(InputMessages)
    BY DEF Inv, TypeOK
  <2>2. Head(input_lane) = input_lane[1] /\ 1 \in 1..Len(input_lane)
    BY <2>1, InputTail
  <2>3. CoveredBy(input_lane[1].missing, 1 - 1)
    BY <2>2 DEF InputKept, RequestsCovered, IsAck
  <2> QED
    BY <2>2, <2>3 DEF CoveredBy
<1> QED
  BY <1>1, InvariantHolds, InputKeptHolds, PTL
=============================================================================

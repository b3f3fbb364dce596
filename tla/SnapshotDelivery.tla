--------------------------- MODULE SnapshotDelivery ---------------------------
(***************************************************************************)
(* The server's delivery state for one peer: which exact client results    *)
(* were submitted, which one the client proved it applied, how much of     *)
(* both is retained and whether the next emission must be a FullReplace.   *)
(* SnapshotDeliveryState is a record and every function of the source is   *)
(* an operator from a record to a record; the module that owns the record  *)
(* is SnapshotReplication.                                                 *)
(*                                                                         *)
(* A std::optional result is a result whose sequence is 0, the reserved    *)
(* sequence.  Counters that only feed diagnostics are left out.            *)
(***************************************************************************)
EXTENDS Snapshots, Integers, Sequences, SequencesExt

CONSTANTS MaximumRetainedResults,         \* maximum_retained_results
          MaximumRetainedCapacity,        \* maximum_retained_capacity_bytes, in entity records
          MaximumResultAge,               \* maximum_retained_result_age
          MaximumRecoveryUpserts          \* maximum_recovery_upserts

ASSUME DeliveryBoundsAssumption ==
    /\ MaximumRetainedResults \in Nat \ {0}
    /\ MaximumRetainedCapacity \in Nat
    /\ MaximumResultAge \in Nat
    /\ MaximumRecoveryUpserts \in Nat

RecoveryReasons == {"None", "NoAcknowledgedBaseline", "ClientRequest", "MissingRetainedResult",
                    "AckStalled", "RetentionPressure", "BaselineExpired"}

Results == [sequence       : Nat,
            snapshot       : Snapshots,
            kind           : Kinds,
            submitted_at   : Nat,
            capacity_bytes : Nat]

\* An empty std::optional<SubmittedSnapshotResult>.
NoResult == [sequence |-> 0, snapshot |-> EmptySnapshot, kind |-> "FullReplace",
             submitted_at |-> 0, capacity_bytes |-> 0]

DeliveryStates == [latest_submitted_sequence      : Nat,
                   latest_acknowledged_sequence   : Nat,
                   acknowledged                   : Results,
                   submitted                      : Seq(Results),
                   retained_capacity_bytes        : Int,
                   recovery_upserts               : Snapshots,
                   submissions_since_ack_progress : Nat,
                   recovery_active                : BOOLEAN,
                   recovery_reason                : RecoveryReasons]

InitialDelivery == [latest_submitted_sequence      |-> 0,
                    latest_acknowledged_sequence   |-> 0,
                    acknowledged                   |-> NoResult,
                    submitted                      |-> << >>,
                    retained_capacity_bytes        |-> 0,
                    recovery_upserts               |-> EmptySnapshot,
                    submissions_since_ack_progress |-> 0,
                    recovery_active                |-> TRUE,
                    recovery_reason                |-> "NoAcknowledgedBaseline"]

HasResult(result) == result.sequence # 0

\* The capacity of a sequence of results.
CapacityOf(results) ==
    LET total[n \in 0..Len(results)] ==
            IF n = 0 THEN 0 ELSE total[n - 1] + results[n].capacity_bytes
    IN  total[Len(results)]

\* The suffix left when the first n results are evicted or erased.
WithoutFirst(results, n) == SubSeq(results, n + 1, Len(results))

-----------------------------------------------------------------------------
EnterSnapshotRecovery(d, reason) ==
    [d EXCEPT !.recovery_active = TRUE, !.recovery_reason = reason]

AckProgressStalled(d, threshold) ==
    threshold # 0 /\ d.submissions_since_ack_progress >= threshold

\* Faulty variant: the discarded result stays in the capacity account.
DiscardKeepsCapacity(d, reason) ==
    EnterSnapshotRecovery([d EXCEPT !.acknowledged = NoResult,
                                    !.recovery_upserts = EmptySnapshot],
                          reason)

DiscardAcknowledgedReplica(d, reason) ==
    EnterSnapshotRecovery(
        [d EXCEPT !.acknowledged = NoResult,
                  !.retained_capacity_bytes = @ - d.acknowledged.capacity_bytes,
                  !.recovery_upserts = EmptySnapshot],
        reason)

\* Evicting the first n results leaves room for one more of the given capacity.
RoomAfterEvicting(d, capacity, n) ==
    /\ Len(d.submitted) - n < MaximumRetainedResults
    /\ d.retained_capacity_bytes - CapacityOf(SubSeq(d.submitted, 1, n)) + capacity
         <= MaximumRetainedCapacity

\* Faulty variant: only the number of results is bounded.
PlanByCount(d, capacity) ==
    [valid |-> TRUE,
     evict_count |-> Min({n \in 0..Len(d.submitted) :
                             Len(d.submitted) - n < MaximumRetainedResults})]

\* plan_snapshot_retention evicts from the front until the new result fits; the
\* acknowledged result is never evicted, so there may be no valid plan.
PlanSnapshotRetention(d, capacity) ==
    LET sufficient == {n \in 0..Len(d.submitted) : RoomAfterEvicting(d, capacity, n)}
    IN  IF capacity > MaximumRetainedCapacity \/ sufficient = {}
        THEN [valid |-> FALSE, evict_count |-> 0]
        ELSE [valid |-> TRUE, evict_count |-> Min(sufficient)]

\* merge_recovery_upserts remembers what a lossy Patch carried; more than the
\* bound clears the set and falls back to a FullReplace.
MergeRecoveryUpserts(d, update) ==
    LET merged == [e \in DOMAIN d.recovery_upserts \cup DOMAIN update.upserts |->
                      IF e \in DOMAIN update.upserts THEN update.upserts[e]
                                                     ELSE d.recovery_upserts[e]]
    IN  IF Cardinality(DOMAIN merged) > MaximumRecoveryUpserts
        THEN EnterSnapshotRecovery([d EXCEPT !.recovery_upserts = EmptySnapshot],
                                   "RetentionPressure")
        ELSE [d EXCEPT !.recovery_upserts = merged]

CommitSubmittedSnapshot(d, result, plan) ==
    [d EXCEPT !.submitted = Append(WithoutFirst(@, plan.evict_count), result),
              !.retained_capacity_bytes =
                  @ - CapacityOf(SubSeq(d.submitted, 1, plan.evict_count))
                    + result.capacity_bytes,
              !.latest_submitted_sequence = result.sequence,
              !.submissions_since_ack_progress = @ + 1]

\* Faulty variant: acknowledgement progress forgets every queued upsert.
ForgetUpserts(upserts, newest, acknowledged) == EmptySnapshot

\* Recovery upserts still needed once acknowledged is the client's proven
\* result: those whose newest submitted state is not the acknowledged one, at
\* that newest state.
OutstandingRecoveryUpserts(upserts, newest, acknowledged) ==
    Restricted(newest, DOMAIN upserts \cap ChangedIds(newest, acknowledged))

\* Faulty variant: any acknowledgement ends recovery.
PromotedByAnyKind(d, index) ==
    LET promoted  == d.submitted[index]
        remaining == WithoutFirst(d.submitted, index)
    IN  [d EXCEPT !.submitted = remaining,
                  !.acknowledged = promoted,
                  !.latest_acknowledged_sequence = promoted.sequence,
                  !.retained_capacity_bytes =
                      CapacityOf(remaining) + promoted.capacity_bytes,
                  !.submissions_since_ack_progress = 0,
                  !.recovery_upserts = EmptySnapshot,
                  !.recovery_active = FALSE,
                  !.recovery_reason = "None"]

\* Faulty variant: an acknowledgement proves the newest submitted result.
PromotedNewest(d, index) ==
    LET promoted == Last(d.submitted)
    IN  [d EXCEPT !.submitted = << >>,
                  !.acknowledged = promoted,
                  !.latest_acknowledged_sequence = promoted.sequence,
                  !.retained_capacity_bytes = promoted.capacity_bytes,
                  !.submissions_since_ack_progress = 0,
                  !.recovery_upserts = EmptySnapshot,
                  !.recovery_active = @ /\ promoted.kind = "Patch"]

\* The successful end of promote_snapshot_ack: the result at index becomes the
\* acknowledged one, it and everything older leave the submitted queue.
PromotedDelivery(d, index) ==
    LET promoted  == d.submitted[index]
        remaining == WithoutFirst(d.submitted, index)
        recovered == ~d.recovery_active \/ promoted.kind = "FullReplace"
    IN  [d EXCEPT !.submitted = remaining,
                  !.acknowledged = promoted,
                  !.latest_acknowledged_sequence = promoted.sequence,
                  !.retained_capacity_bytes =
                      @ - CapacityOf(SubSeq(d.submitted, 1, index))
                        - d.acknowledged.capacity_bytes + promoted.capacity_bytes,
                  !.submissions_since_ack_progress = 0,
                  !.recovery_upserts =
                      IF remaining = << >> THEN EmptySnapshot
                      ELSE OutstandingRecoveryUpserts(@, Last(remaining).snapshot,
                                                      promoted.snapshot),
                  !.recovery_active = ~recovered,
                  !.recovery_reason = IF recovered THEN "None" ELSE @]

\* Faulty variant: an acknowledgement of an evicted result is ignored.
IgnoreEvicted(d, sequence) ==
    LET positions == {i \in 1..Len(d.submitted) : d.submitted[i].sequence = sequence}
    IN  IF sequence <= d.latest_acknowledged_sequence \/ positions = {}
        THEN d ELSE PromotedDelivery(d, Min(positions))

\* promote_snapshot_ack.  Duplicate, stale and future acknowledgements change
\* nothing; one whose result is no longer retained forces recovery.
PromoteSnapshotAck(d, sequence) ==
    LET positions == {i \in 1..Len(d.submitted) : d.submitted[i].sequence = sequence}
    IN  CASE sequence <= d.latest_acknowledged_sequence
               \/ sequence > d.latest_submitted_sequence -> d
          [] OTHER -> IF positions = {}
                      THEN EnterSnapshotRecovery(d, "MissingRetainedResult")
                      ELSE PromotedDelivery(d, Min(positions))

Expired(result, now) == now - result.submitted_at > MaximumResultAge

\* Faulty variant: the acknowledged result is checked only while others are queued.
ExpireWithQueue(d, now) ==
    IF d.submitted # << >> /\ HasResult(d.acknowledged) /\ Expired(d.acknowledged, now)
    THEN DiscardAcknowledgedReplica(d, "BaselineExpired")
    ELSE d

\* expire_retained_snapshots drops expired results from the front of the queue
\* and then an expired acknowledged result.
ExpireRetainedSnapshots(d, now) ==
    LET stops == {n \in 0..Len(d.submitted) :
                     n < Len(d.submitted) => ~Expired(d.submitted[n + 1], now)}
        trimmed == [d EXCEPT !.submitted = WithoutFirst(@, Min(stops)),
                             !.retained_capacity_bytes =
                                 @ - CapacityOf(SubSeq(d.submitted, 1, Min(stops)))]
    IN  IF HasResult(d.acknowledged) /\ Expired(d.acknowledged, now)
        THEN DiscardAcknowledgedReplica(trimmed, "BaselineExpired")
        ELSE trimmed

\* valid_recovery_request
ValidRecoveryRequest(d, rejected, missing) ==
    /\ missing # 0
    /\ missing < rejected
    /\ missing >= d.latest_acknowledged_sequence
    /\ rejected > d.latest_acknowledged_sequence
    /\ rejected <= d.latest_submitted_sequence
=============================================================================

------------------------------ MODULE EvidenceCsv ------------------------------
(***************************************************************************)
(* The replication CSV writer of a server or a client: typed records are   *)
(* buffered, drained to an exclusively created file, and the run's         *)
(* evidence is valid only if close() says so.  A record is its             *)
(* record_order.  The stream is external: any write, flush or close of it  *)
(* may fail, after which it stays failed.  The application stops using the *)
(* writer at the first operation that fails and then closes it.            *)
(***************************************************************************)
EXTENDS Naturals, Sequences

CONSTANTS BufferCapacity,  \* replication_csv_buffer_capacity
          DrainThreshold,  \* replication_csv_drain_threshold
          MaxRecords       \* model bound on submitted records

EvidenceAssumption ==
    /\ DrainThreshold \in Nat \ {0}
    /\ BufferCapacity \in Nat /\ DrainThreshold <= BufferCapacity
    /\ MaxRecords \in Nat

VARIABLES requiresRole, \* the client's writer: its rows carry the accepted role
          buffer,       \* buffered records, oldest first
          submitted,    \* records taken so far, the next record_order
          roleAccepted, \* accepted_gameplay_role is set
          failure,      \* first cause of failure, or "none"
          closed,       \* the writer is closed
          rows,         \* records written to the stream, in order
          fileFailed,   \* the stream's sticky failure
          application   \* what the owning run loop does: "running", "failed", "ended"

vars == <<requiresRole, buffer, submitted, roleAccepted, failure, closed, rows, fileFailed,
          application>>

Init ==
    /\ requiresRole \in BOOLEAN
    /\ buffer = << >>
    /\ submitted = 0
    /\ roleAccepted = FALSE
    /\ failure = "none"
    /\ closed = FALSE
    /\ rows = << >>
    /\ fileFailed = FALSE
    /\ application = "running"

NeedsDrain == Len(buffer) >= DrainThreshold

RoleMissing == requiresRole /\ ~roleAccepted

\* ReplicationWriterState::reject and capture_file_failure: a cause that is
\* there already is kept.
FirstCause(cause) == IF failure = "none" THEN cause ELSE failure

-----------------------------------------------------------------------------
(* persist_rows: every buffered record is written, then the stream is       *)
(* flushed; the buffer is cleared only after that.  A failed stream writes  *)
(* nothing (EvidenceCsvFile::write_row).                                    *)

\* How many rows the stream may take: none once it failed.
Writable(count) == ~fileFailed \/ count = 0

\* The stream fails after count rows, or, with all of them written, at the flush.
PersistSome(count) ==
    /\ Writable(count)
    /\ rows' = rows \o SubSeq(buffer, 1, count)
    /\ fileFailed' = TRUE
    /\ failure' = FirstCause("file")
    /\ UNCHANGED buffer

\* Faulty variant: what was written stays buffered.
PersistKeeping ==
    /\ ~fileFailed
    /\ rows' = rows \o buffer
    /\ UNCHANGED <<buffer, failure, fileFailed>>

PersistAll ==
    /\ ~fileFailed
    /\ rows' = rows \o buffer
    /\ buffer' = << >>
    /\ UNCHANGED <<failure, fileFailed>>

-----------------------------------------------------------------------------
(* drain() of an open writer that has not failed, with records in it. *)

DrainSucceeds == ~RoleMissing /\ PersistAll

DrainFails ==
    \/ /\ RoleMissing
       /\ failure' = "role"
       /\ UNCHANGED <<buffer, rows, fileFailed>>
    \/ ~RoleMissing /\ \E count \in 0..Len(buffer) : PersistSome(count)

\* The run loop's explicit drain, once per frame when the writer asks for it.
Drain ==
    /\ application = "running"
    /\ NeedsDrain
    /\ \/ DrainSucceeds /\ UNCHANGED application
       \/ DrainFails /\ application' = "failed"
    /\ UNCHANGED <<requiresRole, submitted, roleAccepted, closed>>

-----------------------------------------------------------------------------
(* submit(): drains first when it must, then takes the record. *)

\* The record goes into the buffer the drain has just emptied.
TakeAfterDrain ==
    /\ ~RoleMissing
    /\ ~fileFailed
    /\ rows' = rows \o buffer
    /\ buffer' = <<submitted>>
    /\ submitted' = submitted + 1
    /\ UNCHANGED <<failure, fileFailed, application>>

\* A full buffer is an overflow; otherwise the record is appended.
SubmitBuffered ==
    IF Len(buffer) = BufferCapacity
    THEN /\ failure' = FirstCause("overflow")
         /\ application' = "failed"
         /\ UNCHANGED <<buffer, submitted, rows, fileFailed>>
    ELSE /\ buffer' = Append(buffer, submitted)
         /\ submitted' = submitted + 1
         /\ UNCHANGED <<failure, rows, fileFailed, application>>

TakeRecord ==
    IF NeedsDrain
    THEN \/ TakeAfterDrain
         \/ DrainFails /\ application' = "failed" /\ UNCHANGED submitted
    ELSE SubmitBuffered

Submit ==
    /\ application = "running"
    /\ submitted < MaxRecords
    /\ TakeRecord
    /\ UNCHANGED <<requiresRole, roleAccepted, closed>>

\* set_accepted_gameplay_role, when JoinAccepted arrives; a run has one role.
AcceptRole ==
    /\ application = "running"
    /\ requiresRole
    /\ failure = "none"
    /\ roleAccepted' = TRUE
    /\ UNCHANGED <<requiresRole, buffer, submitted, failure, closed, rows, fileFailed,
                   application>>

-----------------------------------------------------------------------------
(* close(): the rest is persisted and the stream closed, whatever happened  *)
(* before; a second close changes nothing.                                  *)

CloseWriter ==
    /\ \/ /\ buffer = << >> \/ RoleMissing
          /\ fileFailed' \in {fileFailed, TRUE}
          /\ UNCHANGED <<buffer, rows>>
       \/ /\ buffer # << >> /\ ~RoleMissing /\ ~fileFailed
          /\ fileFailed' \in BOOLEAN
          /\ rows' = rows \o buffer
          /\ buffer' = << >>
       \/ /\ buffer # << >> /\ ~RoleMissing
          /\ \E count \in 0..Len(buffer) : PersistSome(count)
    /\ failure' = IF buffer # << >> /\ RoleMissing THEN FirstCause("role")
                  ELSE IF fileFailed' THEN FirstCause("file") ELSE failure
    /\ closed' = TRUE

\* The end of the run loop, or the handler of the exception it threw.
Close ==
    /\ ~closed
    /\ CloseWriter
    /\ application' = "ended"
    /\ UNCHANGED <<requiresRole, submitted, roleAccepted>>

Next == Submit \/ Drain \/ AcceptRole \/ Close

Spec == Init /\ [][Next]_vars
-----------------------------------------------------------------------------
(* Properties. *)

TypeOK ==
    /\ requiresRole \in BOOLEAN
    /\ buffer \in Seq(Nat) /\ Len(buffer) <= BufferCapacity
    /\ submitted \in 0..MaxRecords
    /\ roleAccepted \in BOOLEAN
    /\ failure \in {"none", "role", "file", "overflow"}
    /\ closed \in BOOLEAN
    /\ rows \in Seq(Nat)
    /\ fileFailed \in BOOLEAN
    /\ application \in {"running", "failed", "ended"}

\* record_order defines file order: whatever fails, and however often the rest is
\* persisted again, the file holds the records 0, 1, 2, ... without gap or repetition.
FileInRecordOrder == \A i \in DOMAIN rows : rows[i] = i - 1

\* Until something fails every record taken is in the file or still buffered.
NothingLost ==
    failure = "none" =>
        /\ Len(rows) + Len(buffer) = submitted
        /\ \A i \in DOMAIN buffer : buffer[i] = Len(rows) + i - 1

\* A close that reports success (an empty failure) means that every record taken is
\* in the file.
CloseReportsLoss == closed /\ failure = "none" => Len(rows) = submitted

\* The reserved capacity is never exhausted, although a frame may submit more
\* records than it holds before the run loop drains.
BufferNeverOverflows == Len(buffer) <= DrainThreshold /\ failure # "overflow"

RowsKept == TypeOK /\ FileInRecordOrder /\ NothingLost /\ CloseReportsLoss /\ BufferNeverOverflows
=============================================================================

------------------------- MODULE ClientProcessTheorems -------------------------
(***************************************************************************)
(* What goes on in a client beside replication, for every setting: the     *)
(* rows of its evidence, or of the server's, are kept (EvidenceCsv), its   *)
(* run loop shows a world that runs forward and exits with a cause         *)
(* (ClientLoop), and its input never costs it its place (InputDelivery).   *)
(***************************************************************************)
EXTENDS MCClientProcess, SequenceTheorems, TLAPS

CONSTANTS Role, MinInterval, Heartbeat

\* The input of a client of any role, at any rate.
Input == INSTANCE InputDelivery WITH control <- joining, submitted <- submission

-----------------------------------------------------------------------------
(* Evidence. *)

\* Records from the given one on, in record order.
Consecutive(seq, first) == \A i \in 1..Len(seq) : seq[i] = first + i - 1

\* Appending the records that follow keeps the order.
LEMMA ConcatConsecutive ==
    ASSUME NEW s \in Seq(Nat), NEW t \in Seq(Nat),
           Consecutive(s, 0), Consecutive(t, Len(s))
    PROVE  s \o t \in Seq(Nat) /\ Len(s \o t) = Len(s) + Len(t) /\ Consecutive(s \o t, 0)
<1>1. s \o t \in Seq(Nat) /\ Len(s \o t) = Len(s) + Len(t)
    BY ConcatProperties
<1>2. ASSUME NEW i \in 1..Len(s \o t) PROVE (s \o t)[i] = 0 + i - 1
    <2>1. Len(s) \in Nat /\ Len(t) \in Nat /\ i \in Nat
        OBVIOUS
    <2>2. CASE i <= Len(s)
        <3>1. (s \o t)[i] = s[i]
            BY <1>1, <2>1, <2>2, ConcatProperties
        <3>2. i \in 1..Len(s)
            BY <2>1, <2>2
        <3> QED BY <3>1, <3>2 DEF Consecutive
    <2>3. CASE i > Len(s)
        <3>1. (s \o t)[i] = t[i - Len(s)]
            BY <1>1, <2>1, <2>3, ConcatProperties
        <3>2. i - Len(s) \in 1..Len(t)
            BY <1>1, <2>1, <2>3
        <3>3. t[i - Len(s)] = Len(s) + (i - Len(s)) - 1
            BY <3>2 DEF Consecutive
        <3> QED BY <2>1, <3>1, <3>3
    <2> QED BY <2>1, <2>2, <2>3
<1> QED BY <1>1, <1>2 DEF Consecutive

\* The first records of some in order are in order.
LEMMA SomeConsecutive ==
    ASSUME NEW s \in Seq(Nat), NEW first \in Nat, Consecutive(s, first), NEW count \in 0..Len(s)
    PROVE  SubSeq(s, 1, count) \in Seq(Nat) /\ Consecutive(SubSeq(s, 1, count), first)
<1>1. /\ SubSeq(s, 1, count) \in Seq(Nat) /\ Len(SubSeq(s, 1, count)) = count
      /\ \A i \in 1..count : SubSeq(s, 1, count)[i] = s[i]
    <2>1. \A i \in 1..count : i \in 1..Len(s)
        OBVIOUS
    <2> QED BY <2>1, SubSeqProperties
<1> QED BY <1>1 DEF Consecutive

\* As long as the stream takes rows the buffer continues the file; a record is lost only with
\* a failure, after which the application submits nothing; a close that succeeds left nothing.
CsvInv ==
    /\ Csv!TypeOK
    /\ Consecutive(written, 0)
    /\ ~fileFailed => Len(written) + Len(buffer) = taken /\ Consecutive(buffer, Len(written))
    /\ fileFailed => failure # "none"
    /\ application = "running" => failure = "none" /\ ~closed
    /\ closed /\ failure = "none" => buffer = << >>
    /\ Csv!BufferNeverOverflows

\* The writer starts with nothing.
LEMMA CsvInit ==
    ASSUME Csv!EvidenceAssumption, Csv!Init
    PROVE  CsvInv
<1>1. << >> \in Seq(Nat) /\ Len(<< >>) = 0
    BY EmptySeq
<1>2. 0 \in 0..MaxRecords /\ 0 <= DrainThreshold /\ 0 <= BufferCapacity
    BY DEF Csv!EvidenceAssumption
<1>3. Csv!TypeOK
    BY <1>1, <1>2 DEF Csv!Init, Csv!TypeOK
<1>4. Consecutive(<< >>, 0)
    BY <1>1 DEF Consecutive
<1>5. Csv!BufferNeverOverflows
    BY <1>1, <1>2 DEF Csv!Init, Csv!BufferNeverOverflows
<1>6. written = << >> /\ buffer = << >> /\ taken = 0 /\ failure = "none" /\ ~closed /\ ~fileFailed
    BY DEF Csv!Init
<1> QED BY <1>1, <1>3, <1>4, <1>5, <1>6 DEF CsvInv

\* What a stream that fails in the midst of the buffer has taken is in order.
LEMMA PersistSomeKeeps ==
    ASSUME CsvInv, NEW count \in 0..Len(buffer), Csv!PersistSome(count)
    PROVE  /\ written' \in Seq(Nat) /\ Consecutive(written', 0)
           /\ buffer' = buffer /\ fileFailed' = TRUE
           /\ failure' \in {"none", "role", "file", "overflow"} /\ failure' # "none"
           /\ failure # "overflow" => failure' # "overflow"
<1> DEFINE first == SubSeq(buffer, 1, count)
<1>1. written \in Seq(Nat) /\ buffer \in Seq(Nat) /\ Consecutive(written, 0)
    BY DEF CsvInv, Csv!TypeOK
<1>2. first \in Seq(Nat) /\ Consecutive(first, Len(written))
    <2>1. CASE ~fileFailed
        BY <1>1, <2>1, SomeConsecutive DEF CsvInv
    <2>2. CASE fileFailed
        <3>1. count = 0
            BY <2>2 DEF Csv!PersistSome, Csv!Writable
        <3>2. first = << >>
            BY <1>1, <3>1, SubSeqProperties
        <3> QED BY <3>2 DEF Consecutive
    <2> QED BY <2>1, <2>2 DEF CsvInv, Csv!TypeOK
<1>3. written' = written \o first
    BY DEF Csv!PersistSome
<1> HIDE DEF first
<1>4. written' \in Seq(Nat) /\ Consecutive(written', 0)
    BY <1>1, <1>2, <1>3, ConcatConsecutive
<1> QED BY <1>4 DEF Csv!PersistSome, Csv!FirstCause, CsvInv, Csv!TypeOK

\* What a stream that works takes is in order, and it takes all.
LEMMA PersistAllKeeps ==
    ASSUME CsvInv, ~fileFailed
    PROVE  /\ written \o buffer \in Seq(Nat) /\ Consecutive(written \o buffer, 0)
           /\ Len(written \o buffer) = taken
BY ConcatConsecutive DEF CsvInv, Csv!TypeOK

\* Of an open writer a drain that succeeds leaves an empty buffer and no failure; one that
\* fails leaves the buffer, and a cause.
LEMMA DrainKeeps ==
    ASSUME Csv!EvidenceAssumption, CsvInv, Csv!Drain
    PROVE  CsvInv'
<1>1. /\ failure = "none" /\ ~closed /\ application = "running" /\ failure # "overflow"
      /\ taken' = taken /\ closed' = closed /\ roleAccepted' = roleAccepted
      /\ requiresRole' = requiresRole
    BY DEF CsvInv, Csv!Drain
<1>2. CASE Csv!DrainSucceeds /\ application' = application
    <2>1. ~fileFailed /\ written' = written \o buffer /\ buffer' = << >> /\ failure' = failure
          /\ fileFailed' = fileFailed
        BY <1>2 DEF Csv!DrainSucceeds, Csv!PersistAll
    <2>2. written' \in Seq(Nat) /\ Consecutive(written', 0) /\ Len(written') = taken
        BY <2>1, PersistAllKeeps
    <2>3. buffer' \in Seq(Nat) /\ Len(buffer') = 0 /\ Consecutive(buffer', Len(written'))
        BY <2>1, EmptySeq DEF Consecutive
    <2>4. Csv!TypeOK'
        BY <1>1, <1>2, <2>1, <2>2, <2>3
        DEF CsvInv, Csv!TypeOK, Csv!EvidenceAssumption
    <2>5. Csv!BufferNeverOverflows'
        BY <1>1, <2>1, <2>3 DEF Csv!BufferNeverOverflows, Csv!EvidenceAssumption
    <2>6. Len(written') + Len(buffer') = taken'
        BY <1>1, <2>2, <2>3 DEF CsvInv, Csv!TypeOK
    <2> QED BY <1>1, <1>2, <2>1, <2>2, <2>3, <2>4, <2>5, <2>6 DEF CsvInv
<1>3. CASE Csv!DrainFails /\ application' = "failed"
    <2>1. CASE /\ failure' = "role" /\ buffer' = buffer /\ written' = written
               /\ fileFailed' = fileFailed
        BY <1>1, <1>3, <2>1 DEF CsvInv, Csv!TypeOK, Csv!BufferNeverOverflows
    <2>2. CASE \E count \in 0..Len(buffer) : Csv!PersistSome(count)
        <3>1. PICK count \in 0..Len(buffer) : Csv!PersistSome(count)
            BY <2>2
        <3>2. /\ written' \in Seq(Nat) /\ Consecutive(written', 0)
              /\ buffer' = buffer /\ fileFailed' = TRUE
              /\ failure' \in {"none", "role", "file", "overflow"} /\ failure' # "none"
              /\ failure' # "overflow"
            BY <1>1, <3>1, PersistSomeKeeps
        <3> QED BY <1>1, <1>3, <3>2 DEF CsvInv, Csv!TypeOK, Csv!BufferNeverOverflows
    <2> QED BY <1>3, <2>1, <2>2 DEF Csv!DrainFails
<1> QED BY <1>2, <1>3 DEF Csv!Drain

\* A record that is submitted follows those before it, in the buffer or behind the drain.
LEMMA SubmitKeeps ==
    ASSUME Csv!EvidenceAssumption, CsvInv, Csv!Submit
    PROVE  CsvInv'
<1>1. /\ failure = "none" /\ ~closed /\ application = "running" /\ taken < MaxRecords
      /\ closed' = closed /\ roleAccepted' = roleAccepted /\ taken \in Nat /\ MaxRecords \in Nat
      /\ requiresRole' = requiresRole
      /\ ~fileFailed
    BY DEF CsvInv, Csv!Submit, Csv!TypeOK, Csv!EvidenceAssumption
<1>2. CASE Csv!TakeAfterDrain
    <2>1. /\ written' = written \o buffer /\ buffer' = <<taken>> /\ taken' = taken + 1
          /\ failure' = failure /\ fileFailed' = fileFailed /\ application' = application
        BY <1>2 DEF Csv!TakeAfterDrain
    <2>2. written' \in Seq(Nat) /\ Consecutive(written', 0) /\ Len(written') = taken
        BY <1>1, <2>1, PersistAllKeeps
    <2>3. buffer' \in Seq(Nat) /\ Len(buffer') = 1 /\ buffer'[1] = taken
        BY <1>1, <2>1
    <2>4. Consecutive(buffer', Len(written'))
        BY <1>1, <2>2, <2>3 DEF Consecutive
    <2>5. Len(buffer') <= DrainThreshold /\ Len(buffer') <= BufferCapacity
        BY <2>3 DEF Csv!EvidenceAssumption
    <2>6. taken' \in 0..MaxRecords
        BY <1>1, <2>1
    <2>7. Csv!TypeOK' /\ Csv!BufferNeverOverflows'
        BY <1>1, <2>1, <2>2, <2>3, <2>5, <2>6 DEF CsvInv, Csv!TypeOK, Csv!BufferNeverOverflows
    <2>8. Len(written') + Len(buffer') = taken'
        BY <1>1, <2>1, <2>2, <2>3
    <2> QED BY <1>1, <2>1, <2>2, <2>4, <2>7, <2>8 DEF CsvInv
<1>3. CASE Csv!DrainFails /\ application' = "failed" /\ taken' = taken /\ Csv!NeedsDrain
    <2>1. Csv!Drain
        BY <1>1, <1>3 DEF Csv!Drain
    <2> QED BY <2>1, DrainKeeps
<1>4. CASE ~Csv!NeedsDrain /\ Csv!SubmitBuffered
    <2>1. /\ buffer \in Seq(Nat) /\ written \in Seq(Nat) /\ Len(buffer) < DrainThreshold
          /\ DrainThreshold \in Nat /\ BufferCapacity \in Nat /\ DrainThreshold <= BufferCapacity
        BY <1>4 DEF Csv!NeedsDrain, CsvInv, Csv!TypeOK, Csv!EvidenceAssumption
    <2>2. Len(buffer) # BufferCapacity
        BY <2>1
    <2>3. /\ buffer' = Append(buffer, taken) /\ taken' = taken + 1 /\ failure' = failure
          /\ written' = written /\ fileFailed' = fileFailed /\ application' = application
        BY <1>4, <2>2 DEF Csv!SubmitBuffered
    <2>4. /\ buffer' \in Seq(Nat) /\ Len(buffer') = Len(buffer) + 1
          /\ buffer'[Len(buffer) + 1] = taken
          /\ \A i \in 1..Len(buffer) : buffer'[i] = buffer[i]
        BY <1>1, <2>1, <2>3, AppendProperties
    <2>5. Len(written) + Len(buffer) = taken /\ Consecutive(buffer, Len(written))
        BY <1>1 DEF CsvInv
    <2>6. Len(written) \in Nat /\ Len(buffer) \in Nat
        BY <2>1
    <2>7. Consecutive(buffer', Len(written'))
        BY <2>3, <2>4, <2>5, <2>6 DEF Consecutive
    <2>8. Len(buffer') <= DrainThreshold /\ Len(buffer') <= BufferCapacity
        BY <2>1, <2>4, <2>6
    <2>9. taken' \in 0..MaxRecords /\ Len(written') + Len(buffer') = taken'
        BY <1>1, <2>3, <2>4, <2>5, <2>6
    <2>10. Csv!TypeOK' /\ Csv!BufferNeverOverflows'
        BY <1>1, <2>3, <2>4, <2>8, <2>9 DEF CsvInv, Csv!TypeOK, Csv!BufferNeverOverflows
    <2> QED BY <1>1, <2>3, <2>7, <2>9, <2>10 DEF CsvInv
<1> QED BY <1>2, <1>3, <1>4 DEF Csv!Submit, Csv!TakeRecord

\* A close writes the rest, or tells that it could not; then nothing changes any more.
LEMMA CloseKeeps ==
    ASSUME Csv!EvidenceAssumption, CsvInv, Csv!Close
    PROVE  CsvInv'
<1>1. /\ Csv!CloseWriter /\ application' = "ended" /\ taken' = taken /\ closed' = TRUE
      /\ roleAccepted' = roleAccepted /\ requiresRole' = requiresRole
    BY DEF Csv!Close, Csv!CloseWriter
<1>2. /\ failure' = IF buffer # << >> /\ Csv!RoleMissing THEN Csv!FirstCause("role")
                    ELSE IF fileFailed' THEN Csv!FirstCause("file") ELSE failure
    BY <1>1 DEF Csv!CloseWriter
<1>3. /\ failure' \in {"none", "role", "file", "overflow"} /\ failure' # "overflow"
      /\ (buffer # << >> /\ Csv!RoleMissing) \/ fileFailed' => failure' # "none"
    BY <1>2 DEF CsvInv, Csv!TypeOK, Csv!BufferNeverOverflows, Csv!FirstCause
<1>4. CASE /\ buffer = << >> \/ Csv!RoleMissing
           /\ fileFailed' \in {fileFailed, TRUE} /\ buffer' = buffer /\ written' = written
    <2>1. Csv!TypeOK' /\ Csv!BufferNeverOverflows'
        BY <1>1, <1>3, <1>4 DEF CsvInv, Csv!TypeOK, Csv!BufferNeverOverflows
    <2>2. fileFailed' = FALSE => fileFailed = FALSE
        BY <1>4 DEF CsvInv, Csv!TypeOK
    <2> QED BY <1>1, <1>3, <1>4, <2>1, <2>2 DEF CsvInv
<1>5. CASE /\ buffer # << >> /\ ~Csv!RoleMissing /\ ~fileFailed /\ fileFailed' \in BOOLEAN
           /\ written' = written \o buffer /\ buffer' = << >>
    <2>1. written' \in Seq(Nat) /\ Consecutive(written', 0) /\ Len(written') = taken
        BY <1>5, PersistAllKeeps
    <2>2. buffer' \in Seq(Nat) /\ Len(buffer') = 0 /\ Consecutive(buffer', Len(written'))
        BY <1>5, EmptySeq DEF Consecutive
    <2>3. 0 <= DrainThreshold /\ 0 <= BufferCapacity
        BY DEF Csv!EvidenceAssumption
    <2>4. Csv!TypeOK' /\ Csv!BufferNeverOverflows'
        BY <1>1, <1>3, <1>5, <2>1, <2>2, <2>3 DEF CsvInv, Csv!TypeOK, Csv!BufferNeverOverflows
    <2>5. Len(written') + Len(buffer') = taken'
        BY <1>1, <2>1, <2>2 DEF CsvInv, Csv!TypeOK
    <2> QED BY <1>1, <1>3, <1>5, <2>1, <2>2, <2>4, <2>5 DEF CsvInv
<1>6. CASE \E count \in 0..Len(buffer) : Csv!PersistSome(count)
    <2>1. PICK count \in 0..Len(buffer) : Csv!PersistSome(count)
        BY <1>6
    <2>2. /\ written' \in Seq(Nat) /\ Consecutive(written', 0)
          /\ buffer' = buffer /\ fileFailed' = TRUE
        BY <2>1, PersistSomeKeeps
    <2> QED BY <1>1, <1>3, <2>2 DEF CsvInv, Csv!TypeOK, Csv!BufferNeverOverflows
<1> QED BY <1>1, <1>4, <1>5, <1>6 DEF Csv!CloseWriter

\* The inductive invariant of the writer holds throughout.
LEMMA CsvInvariant ==
    ASSUME Csv!EvidenceAssumption
    PROVE  Csv!Spec => []CsvInv
<1>1. Csv!Init => CsvInv
    BY CsvInit
<1>2. CsvInv /\ [Csv!Next]_(Csv!vars) => CsvInv'
    <2> SUFFICES ASSUME CsvInv, [Csv!Next]_(Csv!vars) PROVE CsvInv'
        OBVIOUS
    <2>1. CASE Csv!Submit
        BY <2>1, SubmitKeeps
    <2>2. CASE Csv!Drain
        BY <2>2, DrainKeeps
    <2>3. CASE Csv!AcceptRole
        BY <2>3 DEF Csv!AcceptRole, CsvInv, Csv!TypeOK, Csv!BufferNeverOverflows
    <2>4. CASE Csv!Close
        BY <2>4, CloseKeeps
    <2>5. CASE UNCHANGED Csv!vars
        BY <2>5 DEF Csv!vars, CsvInv, Csv!TypeOK, Csv!BufferNeverOverflows
    <2> QED BY <2>1, <2>2, <2>3, <2>4, <2>5 DEF Csv!Next
<1> QED BY <1>1, <1>2, PTL DEF Csv!Spec

\* The file holds the records in order, none is lost while nothing failed, a close that
\* reports success has written all, and the buffer never fills: for every capacity,
\* threshold and number of records, with and without a role (ReplicationWriterState).
THEOREM EvidenceIsKept ==
    ASSUME Csv!EvidenceAssumption
    PROVE  Csv!Spec => []RowsKept
<1>1. CsvInv => RowsKept
    <2> SUFFICES ASSUME CsvInv PROVE Csv!RowsKept
        BY DEF RowsKept
    <2>1. /\ buffer \in Seq(Nat) /\ written \in Seq(Nat) /\ taken \in Nat
          /\ DOMAIN written = 1..Len(written) /\ DOMAIN buffer = 1..Len(buffer)
        BY DEF CsvInv, Csv!TypeOK
    <2>2. Csv!FileInRecordOrder
        BY <2>1 DEF CsvInv, Csv!FileInRecordOrder, Consecutive
    <2>3. Csv!NothingLost
        BY <2>1 DEF CsvInv, Csv!NothingLost, Consecutive
    <2>4. Csv!CloseReportsLoss
        <3> SUFFICES ASSUME closed, failure = "none" PROVE Len(written) = taken
            BY DEF Csv!CloseReportsLoss
        <3>1. buffer = << >> /\ Len(written) + Len(buffer) = taken
            BY DEF CsvInv
        <3>2. Len(buffer) = 0 /\ Len(written) \in Nat
            BY <2>1, <3>1
        <3> QED BY <3>1, <3>2
    <2> QED BY <2>2, <2>3, <2>4 DEF CsvInv, Csv!RowsKept
<1> QED BY <1>1, CsvInvariant, PTL

-----------------------------------------------------------------------------
(* The run loop. *)

Messages == {"JoinAccepted", "paused", "running"}

\* What a poll hands over.
Events ==
    [kind : {"PeerSessionReady", "TransportErrorEvent"}]
    \cup [kind : {"PeerDisconnected"}, code : {"None", "Timeout", "Other"}]
    \cup [kind : {"Control"}, message : Messages]
    \cup [kind : {"Snapshot"}, tick : Nat]

\* What the proofs need of the types beyond TypeOK.
LoopTypes ==
    /\ TypeOK
    /\ asked \in BOOLEAN /\ answered \in BOOLEAN /\ joined \in BOOLEAN
    /\ server \in [tick : Nat, paused : BOOLEAN, pauses : Nat]
    /\ control \in Seq(Messages) /\ snapshots \in Seq(Nat) /\ batch \in Seq(Events)
    /\ delta \in Nat /\ history \in Seq(Nat)
    /\ presentation \in [observed : Nat, elapsed : Nat]
    /\ shown \in [time : Nat, paused : BOOLEAN]

\* A run that goes on has no cause to stop, and a session that was ready has asked to join.
CauseInv ==
    /\ ~Stopped => cause = "None"
    /\ at = "poll" => ~Stopped
    /\ conn = "SessionReady" => asked \/ Stopped
    /\ ExitTellsCause

\* A frame showed nothing later than the snapshot it observed. While that is the newest, the
\* next frame shows the same interval; after it the older of the two is that one or later.
ShownInv ==
    /\ shown.time <= presentation.observed * TickTime
    /\ \/ presentation.observed = 0
       \/ history # << >> /\ presentation.observed = Last(history)
       \/ Len(history) = 2 /\ presentation.observed <= history[1]
    /\ Len(history) = 2 /\ presentation.observed = Last(history) /\ ~shown.paused =>
            shown.time <= history[1] * TickTime
                          + Passed(presentation.elapsed, history[2] - history[1])

\* Min is the smaller of two numbers.
LEMMA MinOfTwo ==
    ASSUME NEW a \in Nat, NEW b \in Nat
    PROVE  Min({a, b}) = IF a <= b THEN a ELSE b
<1>1. \A x \in {a, b} : (\A y \in {a, b} : x <= y) <=> x = IF a <= b THEN a ELSE b
    OBVIOUS
<1> QED BY <1>1 DEF Min

\* Removing one of some elements leaves elements.
LEMMA RemoveAtType ==
    ASSUME NEW S, NEW s \in Seq(S), NEW i \in 1..Len(s)
    PROVE  RemoveAt(s, i) \in Seq(S)
<1>1. SubSeq(s, 1, i - 1) \in Seq(S)
    <2>1. \A n \in 1..i - 1 : n \in 1..Len(s)
        OBVIOUS
    <2> QED BY <2>1, SubSeqProperties
<1>2. SubSeq(s, i + 1, Len(s)) \in Seq(S)
    <2>1. \A n \in i + 1..Len(s) : n \in 1..Len(s)
        OBVIOUS
    <2> QED BY <2>1, SubSeqProperties
<1> QED BY <1>1, <1>2, ConcatProperties DEF RemoveAt

LoopInv == LoopTypes /\ CauseInv /\ ShownInv

\* Every step keeps reason and cause in step (StopRequest, ClientStopCause).
LEMMA CauseStep ==
    ASSUME LoopInv, [Next]_vars
    PROVE  CauseInv'
<1> USE DEF LoopInv, LoopTypes, TypeOK, CauseInv, ExitTellsCause, Stopped, Failures, serverVars, clientVars, viewVars
<1>1. CASE AnswerJoin
    BY <1>1 DEF AnswerJoin
<1>2. CASE ChangePause
    BY <1>2 DEF ChangePause
<1>3. CASE SendSnapshot
    BY <1>3 DEF SendSnapshot
<1>4. CASE LoseSnapshot
    BY <1>4 DEF LoseSnapshot
<1>5. CASE PollEvent
    BY <1>5 DEF PollEvent
<1>6. CASE StopForSignal
    BY <1>6 DEF StopForSignal, Request
<1>7. CASE Frame
    BY <1>7 DEF Frame
<1>8. CASE EndPoll
    BY <1>8 DEF EndPoll, Request, Fail
<1>9. CASE HandleEvent
    <2> DEFINE event == Head(batch)
    <2>1. ~Stopped /\ at' = at /\ at # "poll"
        BY <1>9 DEF HandleEvent
    <2>2. CASE HandlePeerSessionReady
        BY <2>1, <2>2 DEF HandlePeerSessionReady, Fail, Request
    <2>3. ASSUME NEW code, HandlePeerDisconnected(code) PROVE CauseInv'
        BY <2>1, <2>3 DEF HandlePeerDisconnected, DisconnectCause, Request
    <2>4. ASSUME NEW message, HandleControl(message) PROVE CauseInv'
        BY <2>1, <2>4 DEF HandleControl, Fail, Request
    <2>5. ASSUME NEW ticks, HandleSnapshot(ticks) PROVE CauseInv'
        BY <2>1, <2>5 DEF HandleSnapshot, Fail, Request
    <2>6. CASE InvalidPacket
        BY <2>1, <2>6 DEF InvalidPacket, Fail, Request
    <2> QED BY <1>9, <2>2, <2>3, <2>4, <2>5, <2>6 DEF HandleEvent
<1>10. CASE Drain
    BY <1>10 DEF Drain, Request
<1>11. CASE Show
    BY <1>11 DEF Show
<1>12. CASE SkipView
    BY <1>12 DEF SkipView
<1>13. CASE Limits
    BY <1>13 DEF Limits, Request, Fail
<1>14. CASE UNCHANGED vars
    BY <1>14 DEF vars
<1> QED BY <1>1, <1>2, <1>3, <1>4, <1>5, <1>6, <1>7, <1>8, <1>9, <1>10, <1>11, <1>12, <1>13, <1>14 DEF Next, Loop

\* What a frame observes is a tick and a time.
LEMMA ObservedType ==
    ASSUME LoopTypes, history # << >>
    PROVE  /\ Observed \in [observed : Nat, elapsed : Nat]
           /\ Observed.observed = Last(history)
<1>1. Last(history) \in Nat
    BY DEF LoopTypes, Last
<1>2. /\ presentation \in [observed : Nat, elapsed : Nat] /\ delta \in Nat
      /\ presentation.elapsed + delta \in Nat
    BY DEF LoopTypes
<1>3. CASE presentation.observed # Last(history)
    BY <1>1, <1>3 DEF Observed
<1>4. CASE presentation.observed = Last(history) /\ Paused
    BY <1>2, <1>4 DEF Observed
<1>5. CASE presentation.observed = Last(history) /\ ~Paused
    <2>1. Observed = [presentation EXCEPT !.elapsed = presentation.elapsed + delta]
        BY <1>5 DEF Observed
    <2> QED BY <1>2, <1>5, <2>1
<1> QED BY <1>3, <1>4, <1>5

\* The history holds up to two snapshots in order.
LEMMA HistoryTypes ==
    ASSUME LoopTypes
    PROVE  /\ history \in Seq(Nat) /\ Len(history) \in Nat /\ Len(history) <= 2
           /\ history # << >> => Last(history) \in Nat /\ Last(history) = history[Len(history)]
           /\ Len(history) = 2 =>
                 /\ history[1] \in Nat /\ history[2] \in Nat /\ history[1] < history[2]
                 /\ Last(history) = history[2]
<1>1. history \in Seq(Nat) /\ Len(history) <= 2 /\ (Len(history) = 2 => history[1] < history[2])
    BY DEF LoopTypes, TypeOK
<1>2. Len(history) \in Nat /\ \A i \in 1..Len(history) : history[i] \in Nat
    BY <1>1
<1>3. Last(history) = history[Len(history)]
    BY DEF Last
<1>4. ASSUME history # << >> PROVE Last(history) \in Nat
    <2>1. Len(history) \in 1..Len(history)
        BY <1>1, <1>2, <1>4
    <2> QED BY <1>2, <1>3, <2>1
<1>5. ASSUME Len(history) = 2 PROVE history[1] \in Nat /\ history[2] \in Nat
    <2>1. 1 \in 1..2 /\ 2 \in 1..2
        OBVIOUS
    <2> QED BY <1>2, <1>5, <2>1
<1> QED BY <1>1, <1>2, <1>3, <1>4, <1>5

\* A frame shows the newest snapshot, or a time between the two it holds.
LEMMA ShownTimeBounds ==
    ASSUME LoopTypes, history # << >>, NEW state \in [observed : Nat, elapsed : Nat]
    PROVE  /\ ShownTime(state) \in Nat
           /\ ShownTime(state) <= Last(history) * TickTime
           /\ Len(history) = 2 => history[1] * TickTime <= ShownTime(state)
           /\ Len(history) < 2 => ShownTime(state) = Last(history) * TickTime
<1>1. Last(history) \in Nat /\ TickTime \in Nat /\ Last(history) = history[Len(history)]
    BY HistoryTypes, LoopAssumption
<1>2. Last(history) * TickTime \in Nat
    BY <1>1
<1>3. CASE Len(history) = 2
    <2>1. history[1] \in Nat /\ history[2] \in Nat /\ history[1] < history[2]
          /\ Last(history) = history[2]
        BY <1>3, HistoryTypes
    <2>2. PICK old, new, between, tick : /\ old = history[1] /\ new = history[2] /\ tick = TickTime
                                   /\ between = new - old
        OBVIOUS
    <2>3. /\ old \in Nat /\ new \in Nat /\ tick \in Nat /\ between \in Nat
          /\ between * tick \in Nat /\ old * tick \in Nat
          /\ new * tick = old * tick + between * tick
        <3>1. old \in Nat /\ new \in Nat /\ tick \in Nat /\ between \in Nat /\ new = old + between
            BY <1>1, <2>1, <2>2
        <3>2. new * tick = old * tick + between * tick
            BY ONLY <3>1
        <3>3. between * tick \in Nat /\ old * tick \in Nat
            BY ONLY <3>1
        <3> QED BY <3>1, <3>2, <3>3
    <2>4. PICK passed : passed = Passed(state.elapsed, between)
        OBVIOUS
    <2>5. passed \in Nat /\ passed <= between * tick
        <3>1. state.elapsed \in Nat
            OBVIOUS
        <3>2. passed = Min({state.elapsed, between * tick})
            BY <2>2, <2>4 DEF Passed
        <3>3. passed = IF state.elapsed <= between * tick THEN state.elapsed ELSE between * tick
            BY <2>3, <3>1, <3>2, MinOfTwo
        <3> QED BY <2>3, <3>1, <3>3
    <2>6. Paused => ShownTime(state) = new * tick
        BY <2>1, <2>2 DEF ShownTime
    <2>7. ~Paused => ShownTime(state) = old * tick + passed
        BY <1>3, <2>2, <2>4 DEF ShownTime
    <2>8. new * tick = Last(history) * TickTime /\ old * tick = history[1] * TickTime
        BY <2>1, <2>2
    <2>9. PICK a, b, p, t : /\ a = old * tick /\ b = between * tick /\ p = passed
                           /\ t = ShownTime(state)
        OBVIOUS
    <2>10. /\ a \in Nat /\ b \in Nat /\ p \in Nat /\ p <= b /\ (t = a + b \/ t = a + p)
        BY <2>3, <2>5, <2>6, <2>7, <2>9
    <2>11. t \in Nat /\ t <= a + b /\ a <= t
        BY ONLY <2>10
    <2> QED BY <1>3, <2>3, <2>8, <2>9, <2>11
<1>4. CASE Len(history) < 2
    BY <1>1, <1>2, <1>4 DEF ShownTime
<1>5. Len(history) = 2 \/ Len(history) < 2
    <2>1. Len(history) \in Nat /\ Len(history) <= 2
        BY DEF LoopTypes, TypeOK
    <2>2. \A n \in Nat : n <= 2 => n = 2 \/ n < 2
        OBVIOUS
    <2> QED BY ONLY <2>1, <2>2
<1> QED BY <1>2, <1>3, <1>4, <1>5

\* Every step keeps the types.
LEMMA LoopTypesStep ==
    ASSUME LoopInv, [Next]_vars
    PROVE  LoopTypes'
<1> USE DEF LoopInv, LoopTypes, TypeOK, serverVars, clientVars, viewVars
<1>1. CASE AnswerJoin
    <2>1. control' \in Seq(Messages)
        <3>1. <<"JoinAccepted", PauseMessage(server.paused)>> \in Seq(Messages)
            BY DEF PauseMessage, Messages
        <3> QED BY <1>1, <3>1, ConcatProperties DEF AnswerJoin
    <2> QED BY <1>1, <2>1 DEF AnswerJoin
<1>2. CASE ChangePause
    <2>1. control' \in Seq(Messages)
        <3>1. PauseMessage(~server.paused) \in Messages
            BY DEF PauseMessage, Messages
        <3> QED BY <1>2, <3>1 DEF ChangePause
    <2>2. server' \in [tick : Nat, paused : BOOLEAN, pauses : Nat]
        <3>1. server' = [server EXCEPT !.paused = ~server.paused, !.pauses = server.pauses + 1]
            BY <1>2 DEF ChangePause
        <3>2. server.pauses + 1 \in Nat /\ (~server.paused) \in BOOLEAN
            OBVIOUS
        <3> QED BY <3>1, <3>2
    <2> QED BY <1>2, <2>1, <2>2 DEF ChangePause
<1>3. CASE SendSnapshot
    <2>1. server' \in [tick : Nat, paused : BOOLEAN, pauses : Nat] /\ server.tick + 1 \in Nat
        <3>1. server' = [server EXCEPT !.tick = server.tick + 1] /\ server.tick + 1 \in Nat
            BY <1>3 DEF SendSnapshot
        <3> QED BY <3>1
    <2>2. snapshots' \in Seq(Nat)
        BY <1>3, <2>1 DEF SendSnapshot
    <2> QED BY <1>3, <2>1, <2>2 DEF SendSnapshot
<1>4. CASE LoseSnapshot
    <2>1. snapshots' \in Seq(Nat)
        BY <1>4, RemoveAtType DEF LoseSnapshot
    <2> QED BY <1>4, <2>1 DEF LoseSnapshot
<1>5. CASE PollEvent
    <2>1. snapshots' \in Seq(Nat)
        <3>1. snapshots' = snapshots \/ \E i \in DOMAIN snapshots : snapshots' = RemoveAt(snapshots, i)
            BY <1>5 DEF PollEvent
        <3>2. DOMAIN snapshots = 1..Len(snapshots)
            OBVIOUS
        <3> QED BY <3>1, <3>2, RemoveAtType
    <2>2. control' \in Seq(Messages)
        <3>1. control' = control \/ (control # << >> /\ control' = Tail(control))
            BY <1>5 DEF PollEvent
        <3>2. control # << >> => Tail(control) \in Seq(Messages)
            BY HeadTailProperties
        <3> QED BY <3>1, <3>2
    <2>3. \A event : Polled(event) /\ event \in Events
                => batch' \in Seq(Events) /\ Len(batch') <= MaxBatch
        <3> SUFFICES ASSUME NEW event, Polled(event), event \in Events
                     PROVE  batch' \in Seq(Events) /\ Len(batch') <= MaxBatch
            OBVIOUS
        <3>1. Len(batch) < MaxBatch /\ batch' = Append(batch, event) /\ Len(batch) \in Nat
            BY DEF Polled
        <3>2. Len(batch') = Len(batch) + 1 /\ batch' \in Seq(Events)
            BY <3>1
        <3> QED BY <3>1, <3>2, LoopAssumption
    <2>4. link' \in {"connecting", "ready", "gone"}
        BY <1>5 DEF PollEvent
    <2>5. batch' \in Seq(Events) /\ Len(batch') <= MaxBatch
        <3>1. [kind |-> "PeerSessionReady"] \in Events /\ [kind |-> "TransportErrorEvent"] \in Events
            BY DEF Events
        <3>2. \A code \in {"None", "Timeout", "Other"} :
                    [kind |-> "PeerDisconnected", code |-> code] \in Events
            BY DEF Events
        <3>3. control # << >> => [kind |-> "Control", message |-> Head(control)] \in Events
            <4>1. control # << >> => Head(control) \in Messages
                OBVIOUS
            <4> QED BY <4>1 DEF Events
        <3>4. \A i \in DOMAIN snapshots : [kind |-> "Snapshot", tick |-> snapshots[i]] \in Events
            BY DEF Events
        <3> QED BY <1>5, <2>3, <3>1, <3>2, <3>3, <3>4 DEF PollEvent
    <2> QED BY <1>5, <2>1, <2>2, <2>4, <2>5 DEF PollEvent
<1>6. CASE StopForSignal
    BY <1>6 DEF StopForSignal, Request
<1>7. CASE Frame
    BY <1>7, LoopAssumption DEF Frame
<1>8. CASE EndPoll
    BY <1>8 DEF EndPoll, Fail, Failures
<1>9. CASE HandleEvent
    <2> DEFINE event == Head(batch)
    <2>1. /\ event \in Events /\ batch' \in Seq(Events) /\ Len(batch') <= MaxBatch
          /\ UNCHANGED <<link, answered, control, snapshots, server, at, raw, delta, viewVars>>
        <3>1. batch # << >> /\ batch' = Tail(batch) /\ Len(batch) \in Nat
            BY <1>9 DEF HandleEvent
        <3>2. event \in Events /\ batch' \in Seq(Events) /\ Len(batch') = Len(batch) - 1
            BY <3>1
        <3> QED BY <1>9, <3>1, <3>2, LoopAssumption DEF HandleEvent
    <2>2. CASE HandlePeerSessionReady
        <3>1. /\ conn' = "SessionReady" /\ joined' = FALSE /\ rows' = rows /\ history' = history
              /\ asked' \in BOOLEAN /\ cause' \in Failures \cup {"None", "RemoteShutdown"}
            BY <2>2 DEF HandlePeerSessionReady, Fail, Failures
        <3> QED BY <2>1, <3>1
    <2>3. ASSUME NEW code, HandlePeerDisconnected(code) PROVE LoopTypes'
        BY <2>1, <2>3 DEF HandlePeerDisconnected, DisconnectCause, Failures
    <2>4. ASSUME NEW message, HandleControl(message) PROVE LoopTypes'
        <3>1. /\ asked' = asked /\ conn' = conn /\ rows' = rows /\ history' = history
              /\ joined' \in BOOLEAN /\ cause' \in Failures \cup {"None", "RemoteShutdown"}
            BY <2>4 DEF HandleControl, Fail, Failures
        <3> QED BY <2>1, <3>1 DEF Failures
    <2>5. ASSUME event.kind = "Snapshot", HandleSnapshot(event.tick) PROVE LoopTypes'
        <3>1. event.tick \in Nat
            BY <2>1, <2>5 DEF Events
        <3>2. history' \in Seq(Nat) /\ Len(history') <= 2
              /\ (Len(history') = 2 => history'[1] < history'[2])
            <4>1. CASE history' = history
                BY <4>1
            <4>2. CASE history = << >> /\ history' = <<event.tick>>
                BY <3>1, <4>2
            <4>3. CASE history # << >> /\ event.tick > Last(history)
                       /\ history' = <<Last(history), event.tick>>
                <5>1. Last(history) \in Nat
                    BY <4>3 DEF Last
                <5> QED BY <3>1, <4>3, <5>1
            <4> QED BY <2>5, <4>1, <4>2, <4>3 DEF HandleSnapshot, Applies
        <3>3. /\ asked' = asked /\ conn' = conn /\ joined' = joined
              /\ cause' \in Failures \cup {"None", "RemoteShutdown"}
            BY <2>5 DEF HandleSnapshot, Fail, Failures
        <3> QED BY <2>1, <3>2, <3>3
    <2>6. CASE InvalidPacket
        BY <2>1, <2>6 DEF InvalidPacket, Fail, Failures
    <2> QED BY <1>9, <2>2, <2>3, <2>4, <2>5, <2>6 DEF HandleEvent
<1>10. CASE Drain
    <2>1. batch' \in Seq(Events) /\ Len(batch') <= MaxBatch
        BY <1>10, LoopAssumption, EmptySeq DEF Drain
    <2> QED BY <1>10, <2>1 DEF Drain
<1>11. CASE Show
    <2>1. CASE history = << >>
        BY <1>11, <2>1 DEF Show, Failures
    <2>2. CASE history # << >>
        <3>1. presentation' \in [observed : Nat, elapsed : Nat]
            BY <1>11, <2>2, ObservedType DEF Show
        <3>2. shown' \in [time : Nat, paused : BOOLEAN]
            <4>1. ShownTime(Observed) \in Nat
                BY <2>2, ObservedType, ShownTimeBounds
            <4>2. shown' = [time |-> ShownTime(Observed), paused |-> Paused]
                BY <1>11, <2>2 DEF Show
            <4> QED BY <4>1, <4>2 DEF Paused
        <3> QED BY <1>11, <2>2, <3>1, <3>2 DEF Show, Failures
    <2> QED BY <2>1, <2>2
<1>12. CASE SkipView
    BY <1>12 DEF SkipView
<1>13. CASE Limits
    BY <1>13 DEF Limits, Fail, Failures
<1>14. CASE UNCHANGED vars
    BY <1>14 DEF vars
<1> QED BY <1>1, <1>2, <1>3, <1>4, <1>5, <1>6, <1>7, <1>8, <1>9, <1>10, <1>11, <1>12, <1>13, <1>14 DEF Next, Loop

\* Of two times the later tick has the later.
LEMMA TimesMonotone ==
    ASSUME NEW a \in Nat, NEW b \in Nat, NEW t \in Nat, a <= b
    PROVE  a * t <= b * t
<1>1. PICK d \in Nat : b = a + d
    <2>1. b - a \in Nat /\ b = a + (b - a)
        OBVIOUS
    <2> QED BY <2>1
<1>2. b * t = a * t + d * t
    BY <1>1
<1>3. a * t \in Nat /\ d * t \in Nat
    OBVIOUS
<1> QED BY ONLY <1>2, <1>3

\* A longer time reaches further into an interval.
LEMMA PassedMonotone ==
    ASSUME NEW e \in Nat, NEW f \in Nat, e <= f, NEW ticks \in Nat
    PROVE  Passed(e, ticks) <= Passed(f, ticks) /\ Passed(e, ticks) \in Nat
<1>1. PICK limit : limit = ticks * TickTime
    OBVIOUS
<1>2. limit \in Nat
    BY <1>1, LoopAssumption
<1>3. Passed(e, ticks) = Min({e, limit}) /\ Passed(f, ticks) = Min({f, limit})
    BY <1>1 DEF Passed
<1>4. /\ Passed(e, ticks) = IF e <= limit THEN e ELSE limit
      /\ Passed(f, ticks) = IF f <= limit THEN f ELSE limit
    BY <1>2, <1>3, MinOfTwo
<1> QED BY <1>2, <1>4

\* A frame shows a time no earlier than the last one did in the same pause state, and leaves
\* what ShownInv says (ClientPresentationState).
LEMMA FrameAdvances ==
    ASSUME LoopInv, history # << >>, history' = history,
           presentation' = Observed, shown' = [time |-> ShownTime(Observed), paused |-> Paused]
    PROVE  ShownInv' /\ (shown'.paused = shown.paused => shown'.time >= shown.time)
<1> DEFINE o == presentation.observed
           newest == Last(history)
<1>1. /\ Observed \in [observed : Nat, elapsed : Nat] /\ Observed.observed = newest
      /\ newest \in Nat /\ TickTime \in Nat /\ o \in Nat /\ shown.time \in Nat
      /\ presentation.elapsed \in Nat /\ delta \in Nat /\ Len(history) \in Nat /\ Len(history) <= 2
    <2>1. LoopTypes
        BY DEF LoopInv
    <2>2. Len(history) \in Nat /\ Len(history) <= 2 /\ newest \in Nat
        BY <2>1, HistoryTypes
    <2>3. Observed \in [observed : Nat, elapsed : Nat] /\ Observed.observed = newest
        BY <2>1, ObservedType
    <2>4. o \in Nat /\ presentation.elapsed \in Nat /\ delta \in Nat /\ shown.time \in Nat
        BY <2>1 DEF LoopTypes
    <2> QED BY <2>2, <2>3, <2>4, LoopAssumption
<1>2. /\ ShownTime(Observed) \in Nat
      /\ ShownTime(Observed) <= newest * TickTime
      /\ Len(history) = 2 => history[1] * TickTime <= ShownTime(Observed)
      /\ Len(history) < 2 => ShownTime(Observed) = newest * TickTime
    BY <1>1, ShownTimeBounds DEF LoopInv
<1>3. /\ shown.time <= o * TickTime
      /\ \/ o = 0
         \/ o = newest
         \/ Len(history) = 2 /\ o <= history[1]
      /\ Len(history) = 2 /\ o = newest /\ ~shown.paused =>
            shown.time <= history[1] * TickTime
                          + Passed(presentation.elapsed, history[2] - history[1])
    BY DEF LoopInv, ShownInv
<1>4. Len(history) = 2 => /\ history[1] \in Nat /\ history[2] \in Nat
                          /\ history[2] - history[1] \in Nat
    <2>1. Len(history) = 2 => /\ history[1] \in Nat /\ history[2] \in Nat
                              /\ history[1] < history[2]
        BY HistoryTypes DEF LoopInv
    <2> QED BY <2>1
<1>5. ~Paused /\ Len(history) = 2 =>
        ShownTime(Observed) = history[1] * TickTime + Passed(Observed.elapsed, history[2] - history[1])
    BY DEF ShownTime
<1> HIDE DEF o, newest
<1>6. ShownInv'
    <2>1. ShownTime(Observed) <= Observed.observed * TickTime
        BY <1>1, <1>2
    <2>3. Len(history) = 2 /\ ~Paused =>
            ShownTime(Observed) <= history[1] * TickTime
                + Passed(Observed.elapsed, history[2] - history[1])
        <3> SUFFICES ASSUME Len(history) = 2, ~Paused
                     PROVE  ShownTime(Observed) <= history[1] * TickTime
                                + Passed(Observed.elapsed, history[2] - history[1])
            OBVIOUS
        <3>1. PICK x : x = ShownTime(Observed)
            OBVIOUS
        <3>2. x \in Nat /\ x <= x
            BY <1>2, <3>1
        <3> QED BY <1>5, <3>1, <3>2
    <2>4. /\ presentation'.observed = newest /\ presentation'.elapsed = Observed.elapsed
          /\ shown'.time = ShownTime(Observed) /\ shown'.paused = Paused
        BY <1>1
    <2>5. Passed(Observed.elapsed, history[2] - history[1])
            = Passed(presentation'.elapsed, history'[2] - history'[1])
        BY <2>4
    <2> QED BY <1>1, <2>1, <2>3, <2>4, <2>5 DEF ShownInv, newest
<1>7. ASSUME Paused = shown.paused PROVE ShownTime(Observed) >= shown.time
    <2>1. CASE o = 0
        <3>1. o * TickTime = 0
            BY <1>1, <2>1
        <3> QED BY <1>1, <1>2, <1>3, <3>1
    <2>2. CASE o = newest /\ (Len(history) < 2 \/ Paused)
        <3>1. ShownTime(Observed) = newest * TickTime
            BY <1>2, <2>2 DEF ShownTime, newest
        <3>2. shown.time <= newest * TickTime
            BY <1>3, <2>2
        <3> QED BY <1>1, <1>2, <3>1, <3>2
    <2>3. CASE o = newest /\ Len(history) = 2 /\ ~Paused
        <3>1. Observed.elapsed = presentation.elapsed + delta
            BY <1>1, <2>3 DEF Observed, o, newest
        <3>2. Passed(presentation.elapsed, history[2] - history[1])
                <= Passed(Observed.elapsed, history[2] - history[1])
              /\ Passed(presentation.elapsed, history[2] - history[1]) \in Nat
              /\ Passed(Observed.elapsed, history[2] - history[1]) \in Nat
            <4>1. PICK e, f, ticks : /\ e = presentation.elapsed /\ f = Observed.elapsed
                                     /\ ticks = history[2] - history[1]
                OBVIOUS
            <4>2. e \in Nat /\ f \in Nat /\ ticks \in Nat /\ e <= f /\ f <= f
                BY <1>1, <1>4, <2>3, <3>1, <4>1
            <4>3. Passed(e, ticks) <= Passed(f, ticks) /\ Passed(e, ticks) \in Nat
                BY ONLY <4>2, PassedMonotone
            <4>4. Passed(f, ticks) \in Nat
                BY ONLY <4>2, PassedMonotone
            <4> QED BY <4>1, <4>3, <4>4
        <3>4. PICK old, p, q, x, y :
                /\ old = history[1] * TickTime
                /\ p = Passed(presentation.elapsed, history[2] - history[1])
                /\ q = Passed(Observed.elapsed, history[2] - history[1])
                /\ x = shown.time /\ y = ShownTime(Observed)
            OBVIOUS
        <3>5. x <= old + p
            BY <1>3, <1>7, <2>3, <3>4
        <3>6. y = old + q
            BY <1>5, <2>3, <3>4
        <3>7. p <= q /\ p \in Nat /\ q \in Nat
            BY <3>2, <3>4
        <3>8. old \in Nat /\ x \in Nat
            BY <1>1, <1>4, <2>3, <3>4
        <3>9. y >= x
            BY ONLY <3>5, <3>6, <3>7, <3>8
        <3> QED BY <3>4, <3>9
    <2>4. CASE Len(history) = 2 /\ o <= history[1]
        <3>1. o * TickTime <= history[1] * TickTime
            BY <1>1, <1>4, <2>4, TimesMonotone
        <3>2. PICK x, a, b, y : /\ x = shown.time /\ a = o * TickTime /\ b = history[1] * TickTime
                                /\ y = ShownTime(Observed)
            OBVIOUS
        <3>3. x <= a /\ a <= b /\ b <= y
            BY <1>2, <1>3, <2>4, <3>1, <3>2
        <3>5. x \in Nat /\ a \in Nat /\ b \in Nat /\ y \in Nat
            BY <1>1, <1>2, <1>4, <2>4, <3>2
        <3>4. y >= x
            BY ONLY <3>3, <3>5
        <3> QED BY <3>2, <3>4
    <2>5. Len(history) < 2 \/ Len(history) = 2
        <3>1. \A n \in Nat : n <= 2 => n < 2 \/ n = 2
            OBVIOUS
        <3> QED BY ONLY <1>1, <3>1
    <2> QED BY <1>3, <2>1, <2>2, <2>3, <2>4, <2>5
<1> QED BY <1>6, <1>7

\* A snapshot that is applied becomes the newest, and the one before it stays.
LEMMA SnapshotKeepsShown ==
    ASSUME LoopInv, NEW ticks \in Nat, Applies(ticks), UNCHANGED viewVars,
           history' = IF history = << >> THEN <<ticks>> ELSE <<Last(history), ticks>>
    PROVE  ShownInv'
<1>1. /\ presentation.observed \in Nat /\ Len(history) \in Nat
      /\ history # << >> => Last(history) \in Nat /\ Last(history) = history[Len(history)]
      /\ Len(history) = 2 => history[1] < history[2] /\ history[1] \in Nat
    <2>1. LoopTypes
        BY DEF LoopInv
    <2>2. presentation.observed \in Nat
        BY <2>1 DEF LoopTypes
    <2> QED BY <2>1, <2>2, HistoryTypes
<1>2. presentation' = presentation /\ shown' = shown
    BY DEF viewVars
<1>3. CASE history = << >>
    <2>1. Len(history') = 1 /\ Len(history) = 0
        BY <1>3
    <2>2. presentation.observed = 0
        BY <1>3, <2>1 DEF LoopInv, ShownInv
    <2> QED BY <1>2, <2>1, <2>2 DEF LoopInv, ShownInv
<1>4. CASE history # << >>
    <2>1. /\ Len(history') = 2 /\ history'[1] = Last(history) /\ history'[2] = ticks
          /\ Last(history') = ticks
        BY <1>4 DEF Last
    <2>2. ticks > Last(history) /\ Last(history) \in Nat
        BY <1>1, <1>4 DEF Applies
    <2>3. presentation.observed <= Last(history)
        <3>1. CASE presentation.observed = 0
            BY <2>2, <3>1
        <3>2. CASE presentation.observed = Last(history)
            BY <1>1, <3>2
        <3>3. CASE Len(history) = 2 /\ presentation.observed <= history[1]
            BY <1>1, <1>4, <3>3
        <3> QED BY <1>4, <3>1, <3>2, <3>3 DEF LoopInv, ShownInv
    <2>4. presentation.observed # ticks
        BY <1>1, <2>2, <2>3
    <2> QED BY <1>2, <2>1, <2>3, <2>4 DEF LoopInv, ShownInv
<1> QED BY <1>3, <1>4

\* Every step keeps what was shown (present_client_frame).
LEMMA ShownStep ==
    ASSUME LoopInv, [Next]_vars
    PROVE  ShownInv'
<1> USE DEF LoopInv, LoopTypes, serverVars, clientVars, viewVars
<1>1. CASE AnswerJoin
    BY <1>1 DEF AnswerJoin, ShownInv
<1>2. CASE ChangePause
    BY <1>2 DEF ChangePause, ShownInv
<1>3. CASE SendSnapshot
    BY <1>3 DEF SendSnapshot, ShownInv
<1>4. CASE LoseSnapshot
    BY <1>4 DEF LoseSnapshot, ShownInv
<1>5. CASE PollEvent
    BY <1>5 DEF PollEvent, ShownInv
<1>6. CASE StopForSignal
    BY <1>6 DEF StopForSignal, ShownInv
<1>7. CASE Frame
    BY <1>7 DEF Frame, ShownInv
<1>8. CASE EndPoll
    BY <1>8 DEF EndPoll, ShownInv
<1>9. CASE HandleEvent
    <2> DEFINE event == Head(batch)
    <2>1. event \in Events /\ UNCHANGED viewVars
        <3>1. batch # << >> /\ batch \in Seq(Events)
            BY <1>9 DEF HandleEvent
        <3> QED BY <1>9, <3>1, HeadTailProperties DEF HandleEvent
    <2>2. CASE history' = history
        BY <2>1, <2>2 DEF ShownInv
    <2>3. CASE history' # history
        <3>1. event.kind = "Snapshot" /\ HandleSnapshot(event.tick)
            BY <1>9, <2>3 DEF HandleEvent, HandlePeerSessionReady, HandlePeerDisconnected,
                              HandleControl, InvalidPacket
        <3>2. /\ Applies(event.tick)
              /\ history' = IF history = << >> THEN <<event.tick>> ELSE <<Last(history), event.tick>>
            BY <2>3, <3>1 DEF HandleSnapshot
        <3>3. event.tick \in Nat
            BY <2>1, <3>1 DEF Events
        <3> QED BY <2>1, <3>2, <3>3, SnapshotKeepsShown
    <2> QED BY <2>2, <2>3
<1>10. CASE Drain
    BY <1>10 DEF Drain, ShownInv
<1>11. CASE Show
    <2>1. CASE history = << >>
        BY <1>11, <2>1 DEF Show, ShownInv
    <2>2. CASE history # << >>
        BY <1>11, <2>2, FrameAdvances DEF Show
    <2> QED BY <2>1, <2>2
<1>12. CASE SkipView
    BY <1>12 DEF SkipView, ShownInv
<1>13. CASE Limits
    BY <1>13 DEF Limits, ShownInv
<1>14. CASE UNCHANGED vars
    BY <1>14 DEF vars, ShownInv
<1> QED BY <1>1, <1>2, <1>3, <1>4, <1>5, <1>6, <1>7, <1>8, <1>9, <1>10, <1>11, <1>12, <1>13, <1>14 DEF Next, Loop

\* The invariant of the run loop holds throughout.
LEMMA LoopInvariant == Spec => []LoopInv
<1>1. Init => LoopInv
    <2> SUFFICES ASSUME Init PROVE LoopInv
        OBVIOUS
    <2>1. << >> \in Seq(Nat) /\ << >> \in Seq(Messages) /\ << >> \in Seq(Events) /\ Len(<< >>) = 0
        BY EmptySeq
    <2>2. TypeOK
        BY <2>1, LoopAssumption DEF Init, TypeOK
    <2>3. LoopTypes
        BY <2>1, <2>2 DEF Init, LoopTypes
    <2>4. CauseInv
        BY DEF Init, CauseInv, ExitTellsCause, Stopped, Failures
    <2>5. ShownInv
        <3>1. 0 <= 0 * TickTime
            BY LoopAssumption
        <3> QED BY <2>1, <3>1 DEF Init, ShownInv
    <2> QED BY <2>3, <2>4, <2>5 DEF LoopInv
<1>2. LoopInv /\ [Next]_vars => LoopInv'
    BY LoopTypesStep, CauseStep, ShownStep DEF LoopInv
<1> QED BY <1>1, <1>2, PTL DEF Spec

\* The world a viewer shows never runs backwards between two frames in the same pause state,
\* however snapshots are delayed, lost and reordered, and whatever the frames take.
THEOREM WorldRunsForward == Spec => ShownForward
<1>1. LoopInv /\ [Next]_vars => [shown'.paused = shown.paused => shown'.time >= shown.time]_vars
    <2> SUFFICES ASSUME LoopInv, [Next]_vars
                 PROVE  shown'.paused = shown.paused => shown'.time >= shown.time
        OBVIOUS
    <2>1. CASE shown' = shown
        <3>1. shown.time \in Nat /\ shown.time >= shown.time
            BY DEF LoopInv, LoopTypes
        <3> QED BY <2>1, <3>1
    <2>2. CASE shown' # shown
        <3>1. Show /\ history # << >>
            BY <2>2 DEF Next, Loop, vars, AnswerJoin, ChangePause, SendSnapshot, LoseSnapshot,
                PollEvent, StopForSignal, Frame, EndPoll, HandleEvent, Drain, Show, SkipView,
                Limits, viewVars
        <3> QED BY <3>1, FrameAdvances DEF Show
    <2> QED BY <2>1, <2>2
<1> QED BY <1>1, LoopInvariant, PTL DEF Spec, ShownForward

\* The exit of a client tells why it stopped: a failure has its cause, and a good end by the
\* server is one of a session that was ready (StopRequest, ClientStopCause).
THEOREM ExitIsExplained == Spec => [](TypeOK /\ ExitTellsCause)
<1>1. LoopInv => TypeOK /\ ExitTellsCause
    BY DEF LoopInv, LoopTypes, CauseInv
<1> QED BY <1>1, LoopInvariant, PTL

-----------------------------------------------------------------------------
(* Input. *)

\* Only a client that knows it has joined sends input, and then its peer has joined.
HonestInv ==
    /\ network # << >> => accepted
    /\ accepted => peer = "joined"
    /\ joining = "answer" => peer = "joined"
    /\ Input!HonestClientStays

\* The server never rejects a client for input it sent in good faith, in either role and at
\* every rate, although packets overtake the control lane, bunch up, are lost and reordered.
THEOREM HonestClientsStay == Input!Spec => []Input!HonestClientStays
<1>1. Input!Init => HonestInv
    BY DEF Input!Init, HonestInv, Input!HonestClientStays
<1>2. HonestInv /\ [Input!Next]_(Input!vars) => HonestInv'
    <2> SUFFICES ASSUME HonestInv, [Input!Next]_(Input!vars) PROVE HonestInv'
        OBVIOUS
    <2> USE DEF HonestInv, Input!HonestClientStays, Input!clientVars, Input!serverVars
    <2>1. CASE Input!Tick
        BY <2>1 DEF Input!Tick
    <2>2. CASE Input!ClientJoined
        BY <2>2 DEF Input!ClientJoined
    <2>3. CASE Input!Lose
        BY <2>3 DEF Input!Lose
    <2>4. CASE Input!HandleJoinRequest
        BY <2>4 DEF Input!HandleJoinRequest
    <2>5. CASE Input!ReceiveInput
        BY <2>5 DEF Input!ReceiveInput, Input!HandleInput, Input!Reject,
                    Input!AcceptStationaryObserverInterest
    <2>6. ASSUME NEW aim \in Aims, Input!ClientFrame(aim) PROVE HonestInv'
        BY <2>6 DEF Input!ClientFrame, Input!Due
    <2>7. CASE UNCHANGED Input!vars
        BY <2>7 DEF Input!vars
    <2> QED BY <2>1, <2>2, <2>3, <2>4, <2>5, <2>6, <2>7 DEF Input!Next
<1>3. HonestInv => Input!HonestClientStays
    BY DEF HonestInv
<1> QED BY <1>1, <1>2, <1>3, PTL DEF Input!Spec

=============================================================================

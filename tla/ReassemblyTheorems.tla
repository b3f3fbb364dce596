--------------------------- MODULE ReassemblyTheorems ---------------------------
(***************************************************************************)
(* What the reassembler keeps and hands on, for every limit, every update  *)
(* and every foreign packet: its bounds, groups newer than what was        *)
(* applied, complete groups with exactly the bytes that were split, and    *)
(* what arrived of a group kept whatever else arrives.                     *)
(* And that every update that can travel arrives, through every mode of    *)
(* compression and at all limits (CompressionPath).                        *)
(***************************************************************************)
EXTENDS MCUpdatePath, FiniteSetTheorems, SequenceTheorems, TLAPS

-----------------------------------------------------------------------------
(* Arithmetic of chunks. *)

\* The lesser of two numbers.
LEMMA MinOfTwo ==
  ASSUME NEW a \in Int, NEW b \in Int
  PROVE  Min({a, b}) = IF a <= b THEN a ELSE b
<1> DEFINE m == IF a <= b THEN a ELSE b
<1>1. m \in {a, b} /\ \A y \in {a, b} : m <= y
  OBVIOUS
<1>2. Min({a, b}) \in {a, b} /\ \A y \in {a, b} : Min({a, b}) <= y
  BY <1>1 DEF Min
<1> QED
  BY <1>2

\* A sequence is the function of its positions.
LEMMA SequenceIsFunction ==
  ASSUME NEW S, NEW s \in Seq(S)
  PROVE  s = [i \in DOMAIN s |-> s[i]] /\ \A i \in DOMAIN s : s[i] \in S
<1>1. s \in [1..Len(s) -> S]
  OBVIOUS
<1> QED
  BY <1>1

\* A function of 1..n is a sequence.
LEMMA FunctionIsSequence ==
  ASSUME NEW S, NEW n \in Nat, NEW f \in [1..n -> S]
  PROVE  f \in Seq(S) /\ DOMAIN f = 1..n
OBVIOUS

\* The number of elements of an interval.
LEMMA IntervalSize ==
  ASSUME NEW n \in Nat
  PROVE  /\ IsFiniteSet(1..n) /\ Cardinality(1..n) = n
         /\ IsFiniteSet(0..(n - 1)) /\ Cardinality(0..(n - 1)) = n
<1>1. IsFiniteSet(1..n) /\ Cardinality(1..n) = IF 1 > n THEN 0 ELSE n - 1 + 1
  BY FS_Interval
<1>2. PICK m \in Int : m = n - 1
  OBVIOUS
<1>3. IsFiniteSet(0..m) /\ Cardinality(0..m) = IF 0 > m THEN 0 ELSE m - 0 + 1
  BY FS_Interval
<1>4. (IF 1 > n THEN 0 ELSE n - 1 + 1) = n /\ (IF 0 > m THEN 0 ELSE m - 0 + 1) = n
  BY <1>2
<1> QED
  BY <1>1, <1>2, <1>3, <1>4

\* The chunk that carries a byte.
ChunkOf(b) == (b - 1) \div Capacity

\* A byte lies in its chunk, which is one of the group's chunks.
LEMMA ByteInChunk ==
  ASSUME NEW n \in Nat, NEW b \in 1..n
  PROVE  /\ ChunkOf(b) \in 0..(ChunkCount(n) - 1)
         /\ b - ChunkOffset(ChunkOf(b)) \in 1..ChunkBytes(n, ChunkOf(b))
<1> DEFINE q == ChunkOf(b)
           c == Capacity
           last == (n + c - 1) \div c
<1> USE PacketizationAssumption
<1>1. c \in Nat /\ c > 0
  OBVIOUS
<1>2. q \in Nat /\ b - 1 = c * q + ((b - 1) % c) /\ (b - 1) % c \in 0..(c - 1)
  BY <1>1 DEF ChunkOf
<1>3. last \in Nat /\ n + c - 1 = c * last + ((n + c - 1) % c) /\ (n + c - 1) % c \in 0..(c - 1)
  BY <1>1
<1>4. q < last
  <2> HIDE DEF q, last, c
  <2>1. c * q < n /\ n <= c * last
    BY <1>1, <1>2, <1>3
  <2>2. SUFFICES ASSUME last <= q PROVE FALSE
    BY <1>2, <1>3
  <2>3. c * last <= c * q
    BY <1>1, <1>2, <1>3, <2>2
  <2>4. PICK x, y : x = c * q /\ y = c * last
    OBVIOUS
  <2>5. x \in Int /\ y \in Int
    BY <1>1, <1>2, <1>3, <2>4
  <2>6. x < n /\ n <= y /\ y <= x
    BY <2>1, <2>3, <2>4
  <2> QED
    BY <2>5, <2>6
<1>5. c * q = q * c
  BY <1>1, <1>2
<1>6. ChunkBytes(n, q) = IF c <= n - q * c THEN c ELSE n - q * c
  <2>1. PICK rest : rest = n - q * c
    OBVIOUS
  <2>2. rest \in Int /\ c \in Int
    BY <1>1, <1>2, <2>1
  <2>3. ChunkBytes(n, q) = Min({c, rest})
    BY <2>1 DEF ChunkBytes, ChunkOffset
  <2> HIDE DEF q, c
  <2>4. Min({c, rest}) = IF c <= rest THEN c ELSE rest
    BY ONLY <2>2, MinOfTwo
  <2> QED
    BY ONLY <2>1, <2>3, <2>4
<1> QED
  <2> HIDE DEF q, last, c
  <2>1. q * c \in Nat /\ b - q * c \in 1..c /\ b - q * c <= n - q * c
    BY <1>1, <1>2, <1>5
  <2>2. b - q * c \in 1..ChunkBytes(n, q)
    BY <1>1, <1>6, <2>1
  <2>3. q \in 0..(last - 1)
    BY <1>2, <1>3, <1>4
  <2> QED
    BY <2>2, <2>3 DEF ChunkOffset, ChunkCount, q, last, c

\* A group of a legal size has a legal number of chunks, each with at least a byte.
LEMMA ChunkCounted ==
  ASSUME NEW n \in Nat \ {0}
  PROVE  ChunkCount(n) \in Nat \ {0}
<1>1. ChunkOf(1) \in 0..(ChunkCount(n) - 1)
  BY ByteInChunk
<1>2. ChunkCount(n) \in Int
  BY PacketizationAssumption DEF ChunkCount
<1> QED
  BY <1>1, <1>2

-----------------------------------------------------------------------------
(* What is kept of a group. *)

PacketRecords == [group_id : Nat, chunk_index : Nat, chunk_count : Nat,
                  group_bytes : Nat, payload : Seq(Nat \X Nat)]

\* A packet of a prepared group, and of no other, is one of its chunks.
LEMMA PacketsTyped ==
  ASSUME NEW p \in Packets
  PROVE  /\ p \in PacketRecords
         /\ p.group_id \in IntactIds =>
              \E index \in 0..(ChunkCount(GroupSizes[p.group_id]) - 1) :
                  p = Chunk(p.group_id, index)
<1> USE PacketizationAssumption
<1>1. CASE p \in ForeignPackets
  BY <1>1 DEF PacketRecords, IntactIds
<1>2. ASSUME NEW g \in GroupIds, NEW index \in 0..(ChunkCount(GroupSizes[g]) - 1),
             p = Chunk(g, index)
      PROVE  p \in PacketRecords /\ p.group_id = g
  <2>1. GroupSizes[g] \in Nat \ {0} /\ g \in Nat
    BY DEF GroupIds
  <2>2. ChunkCount(GroupSizes[g]) \in Nat
    BY <2>1, ChunkCounted
  <2>3. index \in Nat /\ ChunkOffset(index) \in Nat
    BY <2>2 DEF ChunkOffset
  <2> DEFINE size == ChunkBytes(GroupSizes[g], index)
             offset == ChunkOffset(index)
  <2>4. /\ size = IF Capacity <= GroupSizes[g] - offset THEN Capacity ELSE GroupSizes[g] - offset
        /\ Capacity \in Nat /\ offset \in Nat /\ GroupSizes[g] \in Nat
    <3>1. Capacity \in Int /\ GroupSizes[g] - offset \in Int
      BY <2>1, <2>3
    <3> QED
      BY <2>1, <2>3, <3>1, MinOfTwo DEF ChunkBytes
  <2>5. size \in Int /\ \A k \in 1..size : offset + k \in 1..GroupSizes[g]
    <3>1. PICK N, o, c, x : N = GroupSizes[g] /\ o = offset /\ c = Capacity /\ x = size
      OBVIOUS
    <3>2. N \in Nat /\ o \in Nat /\ c \in Nat /\ x = IF c <= N - o THEN c ELSE N - o
      <4> HIDE DEF size, offset
      <4> QED
        BY <2>4, <3>1
    <3>3. x \in Int /\ \A k \in 1..x : o + k \in 1..N
      BY ONLY <3>2
    <3> HIDE DEF size, offset
    <3> QED
      BY <3>1, <3>3
  <2>6. \A k \in 1..size : Content(g)[ChunkOffset(index) + k] \in Nat \X Nat
    <3>1. \A b \in 1..GroupSizes[g] : Content(g)[b] = <<g, b>> /\ <<g, b>> \in Nat \X Nat
      <4>1. Content(g) = [b \in 1..GroupSizes[g] |-> <<g, b>>]
        BY DEF Content
      <4>2. \A b \in 1..GroupSizes[g] : b \in Nat
        BY ONLY <2>1
      <4> QED
        BY ONLY <2>1, <4>1, <4>2
    <3> QED
      BY <2>5, <3>1
  <2>7. p.payload \in Seq(Nat \X Nat)
    <3>1. p.payload = [k \in 1..size |-> Content(g)[ChunkOffset(index) + k]]
      BY <1>2 DEF Chunk
    <3> DEFINE n == IF size >= 0 THEN size ELSE 0
    <3>2. n \in Nat /\ 1..size = 1..n
      <4>3. size \in Int
        BY <2>5
      <4> HIDE DEF size
      <4>4. (size >= 0 => n = size) /\ (size < 0 => n = 0)
        BY <4>3
      <4> HIDE DEF n
      <4>1. CASE size >= 0
        BY <4>3, <4>1, <4>4
      <4>2. CASE size < 0
        <5>1. 1..size = {} /\ 1..0 = {} /\ n = 0
          BY <4>3, <4>2, <4>4
        <5> QED
          BY <5>1
      <4> QED
        BY <4>3, <4>1, <4>2
    <3> HIDE DEF size, n
    <3>3. p.payload \in [1..n -> Nat \X Nat]
      BY <2>6, <3>1, <3>2
    <3> QED
      BY <3>2, <3>3
  <2> QED
    BY <1>2, <2>1, <2>2, <2>3, <2>7 DEF Chunk, PacketRecords
<1>3. CASE \E g \in GroupIds : p \in ChunksOf(g)
  <2>1. PICK g \in GroupIds : p \in ChunksOf(g)
    BY <1>3
  <2>2. PICK index \in 0..(ChunkCount(GroupSizes[g]) - 1) : p = Chunk(g, index)
    BY <2>1 DEF ChunksOf
  <2> QED
    BY <1>2, <2>2
<1>4. p \in ForeignPackets \/ \E g \in GroupIds : p \in ChunksOf(g)
  BY DEF Packets
<1> QED
  BY <1>1, <1>3, <1>4

GroupRecords ==
    [group_bytes : 1..MaxGroupBytes, age : 0..(ReassemblyTimeout + 1),
     bytes : Seq(Nat \X Nat), received : SUBSET (0..(MaxChunksPerGroup - 1))]

\* A group has a byte for every position, and its chunks are those of its size.
Shaped(group) ==
    /\ group \in GroupRecords
    /\ DOMAIN group.bytes = 1..group.group_bytes
    /\ group.received \subseteq 0..(ChunkCount(group.group_bytes) - 1)

\* What was received of a group that only its own chunks are of is what was split.
Faithful(id, group) ==
    id \in IntactIds =>
        /\ group.group_bytes = GroupSizes[id]
        /\ \A b \in 1..GroupSizes[id] : ChunkOf(b) \in group.received => group.bytes[b] = <<id, b>>

\* What the receiver relies on of its incomplete groups.
Kept(groups) ==
    /\ DOMAIN groups \subseteq Nat \ {0}
    /\ IsFiniteSet(DOMAIN groups)
    /\ groups = [id \in DOMAIN groups |-> groups[id]]
    /\ \A id \in DOMAIN groups : Shaped(groups[id]) /\ Faithful(id, groups[id])
    /\ Cardinality(DOMAIN groups) <= MaxInFlightGroups
    /\ RetainedBytes(groups) <= MaxIncompleteBytes

\* The reserved bytes are finitely many.
LEMMA ReservedFinite ==
  ASSUME NEW groups, IsFiniteSet(DOMAIN groups)
  PROVE  IsFiniteSet(ReservedBytes(groups)) /\ RetainedBytes(groups) \in Nat
<1>1. MaxGroupBytes \in Nat
  BY PacketizationAssumption
<1>2. IsFiniteSet(1..MaxGroupBytes)
  BY <1>1, FS_Interval
<1>3. IsFiniteSet((DOMAIN groups) \X (1..MaxGroupBytes))
  BY <1>2, FS_Product
<1>4. ReservedBytes(groups) \in SUBSET ((DOMAIN groups) \X (1..MaxGroupBytes))
  BY DEF ReservedBytes
<1>5. IsFiniteSet(ReservedBytes(groups))
  BY <1>3, <1>4, FS_Subset
<1> QED
  BY <1>5, FS_CardinalityType DEF RetainedBytes

\* Erasing groups keeps the rest as it was (expire_incomplete_groups, erase_incomplete_group,
\* commit_reassembled_group).
LEMMA RestrictedKept ==
  ASSUME NEW groups, Kept(groups), NEW S \in SUBSET DOMAIN groups
  PROVE  /\ Kept(Restrict(groups, S))
         /\ DOMAIN Restrict(groups, S) = S
         /\ \A id \in S : Restrict(groups, S)[id] = groups[id]
<1> DEFINE rest == Restrict(groups, S)
<1>1. DOMAIN rest = S /\ (\A id \in S : rest[id] = groups[id]) /\ rest = [id \in S |-> rest[id]]
  BY DEF Restrict
<1> HIDE DEF rest
<1>2. IsFiniteSet(S) /\ Cardinality(S) <= Cardinality(DOMAIN groups)
  BY FS_Subset DEF Kept
<1>3. Cardinality(S) <= MaxInFlightGroups
  <2>1. Cardinality(S) \in Nat /\ Cardinality(DOMAIN groups) \in Nat
    BY <1>2, FS_CardinalityType DEF Kept
  <2>2. Cardinality(DOMAIN groups) <= MaxInFlightGroups /\ MaxInFlightGroups \in Nat
    BY PacketizationAssumption DEF Kept
  <2> QED
    BY <1>2, <2>1, <2>2
<1>4. RetainedBytes(rest) <= MaxIncompleteBytes
  <2>1. ReservedBytes(rest) \in SUBSET ReservedBytes(groups)
    BY <1>1 DEF ReservedBytes
  <2>2. IsFiniteSet(ReservedBytes(groups)) /\ RetainedBytes(groups) \in Nat
    BY ReservedFinite DEF Kept
  <2>3. RetainedBytes(rest) \in Nat
    BY <1>1, <1>2, ReservedFinite
  <2>4. RetainedBytes(rest) <= RetainedBytes(groups)
    BY <2>1, <2>2, FS_Subset DEF RetainedBytes
  <2>5. RetainedBytes(groups) <= MaxIncompleteBytes /\ MaxIncompleteBytes \in Nat
    BY PacketizationAssumption DEF Kept
  <2> QED
    BY <2>2, <2>3, <2>4, <2>5
<1>5. Kept(rest)
  BY <1>1, <1>2, <1>3, <1>4 DEF Kept
<1> QED
  BY <1>1, <1>5 DEF rest

\* A function that differs from kept groups in one group, of the same size, is kept within
\* the bounds.
LEMMA ReplacedKept ==
  ASSUME NEW groups, Kept(groups), NEW id \in DOMAIN groups,
         NEW group, Shaped(group), Faithful(id, group), group.group_bytes = groups[id].group_bytes
  PROVE  Kept([groups EXCEPT ![id] = group])
<1> DEFINE updated == [groups EXCEPT ![id] = group]
<1>1. /\ DOMAIN updated = DOMAIN groups
      /\ updated = [other \in DOMAIN updated |-> updated[other]]
      /\ updated[id] = group /\ \A other \in DOMAIN groups \ {id} : updated[other] = groups[other]
  BY DEF Kept
<1> HIDE DEF updated
<1>2. ReservedBytes(updated) = ReservedBytes(groups)
  <2>1. \A other \in DOMAIN groups : updated[other].group_bytes = groups[other].group_bytes
    BY <1>1
  <2> QED
    BY <1>1, <2>1 DEF ReservedBytes
<1>3. Kept(updated)
  BY <1>1, <1>2 DEF Kept, RetainedBytes
<1> QED
  BY <1>3 DEF updated

\* A group that is admitted is kept within the bounds (admit_incomplete_group).
LEMMA AdmittedKept ==
  ASSUME NEW groups, Kept(groups), NEW p \in Packets, WithinBounds(p), ConsistentGeometry(p),
         p.group_id \in DOMAIN groups \/ Admissible(groups, p)
  PROVE  /\ Kept(Admitted(groups, p))
         /\ DOMAIN Admitted(groups, p) = DOMAIN groups \cup {p.group_id}
<1> DEFINE id == p.group_id
           more == Admitted(groups, p)
<1> USE PacketizationAssumption
<1>1. /\ DOMAIN more = DOMAIN groups \cup {id} /\ more = [g \in DOMAIN more |-> more[g]]
      /\ \A g \in DOMAIN groups : more[g] = groups[g]
      /\ id \notin DOMAIN groups => more[id] = NewGroup(p)
  BY DEF Admitted
<1> HIDE DEF more
<1>2. /\ id \in Nat \ {0} /\ p.group_bytes \in 1..MaxGroupBytes /\ MaxGroupBytes \in Nat
      /\ ChunkCount(p.group_bytes) \in Nat
  <2>1. p \in PacketRecords
    BY PacketsTyped
  <2>2. p.group_bytes \in Nat \ {0}
    BY <2>1 DEF WithinBounds, PacketRecords
  <2>3. id \in Nat \ {0} /\ p.group_bytes <= MaxGroupBytes
    BY <2>1 DEF WithinBounds, PacketRecords
  <2>4. MaxGroupBytes \in Nat
    OBVIOUS
  <2>5. ChunkCount(p.group_bytes) \in Nat
    BY <2>2, ChunkCounted
  <2> QED
    BY ONLY <2>2, <2>3, <2>4, <2>5
<1>3. CASE id \in DOMAIN groups
  <2>1. more = groups
    <3>1. DOMAIN more = DOMAIN groups
      BY <1>1, <1>3
    <3>2. more = [g \in DOMAIN groups |-> groups[g]]
      BY <1>1, <3>1
    <3> QED
      BY <3>2 DEF Kept
  <2> QED
    BY <1>1, <2>1 DEF more
<1>4. CASE id \notin DOMAIN groups
  <2> DEFINE fresh == NewGroup(p)
             added == {id} \X (1..p.group_bytes)
  <2>1. Shaped(fresh)
    <3>1. fresh.bytes \in Seq(Nat \X Nat) /\ DOMAIN fresh.bytes = 1..p.group_bytes
      <4>1. fresh.bytes = [b \in 1..p.group_bytes |-> <<0, 0>>] /\ p.group_bytes \in Nat
        BY <1>2 DEF NewGroup
      <4>2. fresh.bytes \in [1..p.group_bytes -> Nat \X Nat]
        <5> HIDE DEF fresh
        <5> QED
          BY <4>1
      <4> HIDE DEF fresh
      <4> QED
        BY <4>1, <4>2, FunctionIsSequence
    <3>2. /\ fresh.group_bytes = p.group_bytes /\ fresh.age = 0 /\ fresh.received = {}
          /\ fresh = [group_bytes |-> p.group_bytes, age |-> 0, bytes |-> fresh.bytes, received |-> {}]
      BY DEF NewGroup
    <3>3. 0 \in 0..(ReassemblyTimeout + 1)
      OBVIOUS
    <3> HIDE DEF fresh
    <3> QED
      BY <1>2, <3>1, <3>2, <3>3 DEF Shaped, GroupRecords
  <2>2. Faithful(id, fresh)
    <3> SUFFICES ASSUME id \in IntactIds PROVE fresh.group_bytes = GroupSizes[id] /\ fresh.received = {}
      BY DEF Faithful
    <3>1. PICK index \in 0..(ChunkCount(GroupSizes[id]) - 1) : p = Chunk(id, index)
      BY PacketsTyped
    <3> QED
      BY <3>1 DEF Chunk, NewGroup
  <2>3. IsFiniteSet(DOMAIN more) /\ Cardinality(DOMAIN more) = Cardinality(DOMAIN groups) + 1
    <3>1. PICK ids : ids = DOMAIN groups
      OBVIOUS
    <3>2. IsFiniteSet(ids) /\ id \notin ids /\ DOMAIN more = ids \cup {id}
      BY <1>1, <1>4, <3>1 DEF Kept
    <3>3. IsFiniteSet(ids \cup {id}) /\ Cardinality(ids \cup {id}) = Cardinality(ids) + 1
      BY ONLY <3>2, FS_AddElement
    <3> QED
      BY ONLY <3>1, <3>2, <3>3
  <2>4. Cardinality(DOMAIN more) <= MaxInFlightGroups
    <3>1. Cardinality(DOMAIN groups) < MaxInFlightGroups /\ MaxInFlightGroups \in Nat
      BY <1>4 DEF Admissible
    <3>2. Cardinality(DOMAIN groups) \in Nat
      BY FS_CardinalityType DEF Kept
    <3> QED
      BY <2>3, <3>1, <3>2
  <2>5. ReservedBytes(more) = ReservedBytes(groups) \cup added
    <3>1. more[id].group_bytes = p.group_bytes
      BY <1>1, <1>4 DEF NewGroup
    <3>2. added \subseteq ReservedBytes(more)
      BY <1>1, <1>2, <3>1 DEF ReservedBytes
    <3>3. ReservedBytes(groups) \subseteq ReservedBytes(more)
      BY <1>1 DEF ReservedBytes
    <3>4. ASSUME NEW byte \in ReservedBytes(more), byte \notin added
          PROVE  byte \in ReservedBytes(groups)
      <4>1. PICK g \in DOMAIN more, b \in 1..MaxGroupBytes : byte = <<g, b>> /\ b <= more[g].group_bytes
        BY DEF ReservedBytes
      <4>2. g # id
        <5> SUFFICES ASSUME g = id PROVE FALSE
          OBVIOUS
        <5>1. b \in 1..p.group_bytes
          BY <1>2, <3>1, <4>1
        <5> QED
          BY <3>4, <4>1, <5>1
      <4> QED
        BY <1>1, <4>1, <4>2 DEF ReservedBytes
    <3> QED
      BY <3>2, <3>3, <3>4
  <2>6. IsFiniteSet(added) /\ Cardinality(added) = p.group_bytes
    <3>1. IsFiniteSet({id}) /\ Cardinality({id}) = 1
      BY FS_Singleton
    <3>2. IsFiniteSet(1..p.group_bytes) /\ Cardinality(1..p.group_bytes) = p.group_bytes
      <4>1. PICK size \in Nat : size = p.group_bytes
        BY <1>2
      <4>2. IsFiniteSet(1..size) /\ Cardinality(1..size) = size
        BY IntervalSize
      <4> HIDE DEF added
      <4> QED
        BY ONLY <4>1, <4>2
    <3>3. IsFiniteSet(added) /\ Cardinality(added) = 1 * p.group_bytes
      <4>1. PICK ids, places : ids = {id} /\ places = 1..p.group_bytes
        OBVIOUS
      <4>2. /\ IsFiniteSet(ids \X places)
            /\ Cardinality(ids \X places) = Cardinality(ids) * Cardinality(places)
        BY ONLY <3>1, <3>2, <4>1, FS_Product
      <4>3. added = ids \X places
        BY <4>1
      <4> HIDE DEF added
      <4> QED
        BY ONLY <3>1, <3>2, <4>1, <4>2, <4>3
    <3> QED
      BY <1>2, <3>3
  <2>7. RetainedBytes(more) = RetainedBytes(groups) + p.group_bytes
    <3>1. ReservedBytes(groups) \cap added = {}
      BY <1>4 DEF ReservedBytes
    <3>2. IsFiniteSet(ReservedBytes(groups)) /\ RetainedBytes(groups) \in Nat
      BY ReservedFinite DEF Kept
    <3> HIDE DEF added
    <3>3. Cardinality(ReservedBytes(groups) \cup added)
            = Cardinality(ReservedBytes(groups)) + Cardinality(added)
                - Cardinality(ReservedBytes(groups) \cap added)
      BY <2>6, <3>2, FS_Union
    <3>4. Cardinality(ReservedBytes(groups) \cap added) = 0
      BY <3>1, FS_EmptySet
    <3> QED
      BY <1>2, <2>5, <2>6, <3>2, <3>3, <3>4 DEF RetainedBytes
  <2>8. RetainedBytes(more) <= MaxIncompleteBytes
    BY <1>4, <2>7 DEF Admissible
  <2>9. ASSUME NEW g \in DOMAIN more PROVE Shaped(more[g]) /\ Faithful(g, more[g])
    BY <1>1, <1>4, <2>1, <2>2, <2>9 DEF Kept
  <2>10. Kept(more)
    BY <1>1, <1>2, <2>3, <2>4, <2>8, <2>9 DEF Kept
  <2> QED
    BY <1>1, <2>10 DEF more
<1> QED
  BY <1>3, <1>4

\* A chunk that is received is a part of its group (accept_validated_chunk).
LEMMA ChunkReceived ==
  ASSUME NEW group, Shaped(group), NEW p \in Packets, Faithful(p.group_id, group),
         WithinBounds(p), ConsistentGeometry(p), group.group_bytes = p.group_bytes
  PROVE  LET updated == WithChunk(group, p)
         IN  /\ Shaped(updated) /\ Faithful(p.group_id, updated)
             /\ updated.group_bytes = group.group_bytes
<1> DEFINE updated == WithChunk(group, p)
           offset == ChunkOffset(p.chunk_index)
           id == p.group_id
<1> USE PacketizationAssumption
<1>1. p \in PacketRecords /\ group \in GroupRecords /\ p.payload \in Seq(Nat \X Nat)
  BY PacketsTyped DEF Shaped, PacketRecords
<1>2. /\ p.chunk_index \in Nat /\ offset \in Nat /\ p.group_bytes \in Nat \ {0}
      /\ ChunkCount(p.group_bytes) \in Nat
  <2>1. p.chunk_index \in Nat /\ p.group_bytes \in Nat \ {0}
    BY <1>1 DEF PacketRecords, WithinBounds
  <2> QED
    BY <2>1, ChunkCounted DEF ChunkOffset
<1>3. updated = [group_bytes |-> group.group_bytes, age |-> group.age, bytes |-> updated.bytes,
                 received |-> group.received \cup {p.chunk_index}]
  <2>1. group = [group_bytes |-> group.group_bytes, age |-> group.age, bytes |-> group.bytes,
                 received |-> group.received]
    BY <1>1 DEF GroupRecords
  <2>2. PICK content : updated = [group EXCEPT !.bytes = content,
                                              !.received = group.received \cup {p.chunk_index}]
    BY <2>1 DEF WithChunk
  <2>3. updated.bytes = content
    BY <2>1, <2>2
  <2> HIDE DEF updated
  <2> QED
    BY <2>1, <2>2, <2>3
<1>4. updated.bytes = [b \in DOMAIN group.bytes |->
                          IF b - offset \in DOMAIN p.payload
                          THEN p.payload[b - offset] ELSE group.bytes[b]]
  BY <1>1 DEF WithChunk, GroupRecords
<1> HIDE DEF updated
<1>5. DOMAIN updated.bytes = 1..p.group_bytes /\ updated.bytes \in Seq(Nat \X Nat)
  <2>1. group.bytes \in Seq(Nat \X Nat) /\ DOMAIN group.bytes = 1..p.group_bytes
    BY <1>1 DEF Shaped, GroupRecords
  <2>2. \A b \in 1..p.group_bytes : group.bytes[b] \in Nat \X Nat
    BY <2>1, SequenceIsFunction
  <2>3. \A k \in DOMAIN p.payload : p.payload[k] \in Nat \X Nat
    BY <1>1
  <2>4. updated.bytes \in [1..p.group_bytes -> Nat \X Nat]
    BY <1>4, <2>1, <2>2, <2>3
  <2>5. p.group_bytes \in Nat
    BY <1>2
  <2> QED
    BY ONLY <2>4, <2>5, FunctionIsSequence
<1>6. p.chunk_index \in 0..(ChunkCount(p.group_bytes) - 1) /\ p.chunk_index \in 0..(MaxChunksPerGroup - 1)
  BY <1>1, <1>2 DEF WithinBounds, ConsistentGeometry, PacketRecords
<1>7. Shaped(updated)
  <2>1. group.received \subseteq 0..(MaxChunksPerGroup - 1) /\ group.age \in 0..(ReassemblyTimeout + 1)
        /\ group.group_bytes \in 1..MaxGroupBytes
    BY <1>1 DEF GroupRecords
  <2>2. group.received \subseteq 0..(ChunkCount(p.group_bytes) - 1)
    BY DEF Shaped
  <2>3. updated.received \subseteq 0..(MaxChunksPerGroup - 1)
        /\ updated.received \subseteq 0..(ChunkCount(p.group_bytes) - 1)
    BY <1>3, <1>6, <2>1, <2>2
  <2>4. /\ updated.group_bytes = group.group_bytes /\ updated.age = group.age
        /\ updated = [group_bytes |-> updated.group_bytes, age |-> updated.age,
                      bytes |-> updated.bytes, received |-> updated.received]
    BY <1>3
  <2>5. updated \in GroupRecords
    BY <1>5, <2>1, <2>3, <2>4 DEF GroupRecords
  <2> QED
    BY <1>5, <2>3, <2>4, <2>5 DEF Shaped
<1>8. Faithful(id, updated)
  <2> SUFFICES ASSUME id \in IntactIds
               PROVE  /\ updated.group_bytes = GroupSizes[id]
                      /\ \A b \in 1..GroupSizes[id] :
                            ChunkOf(b) \in updated.received => updated.bytes[b] = <<id, b>>
    BY DEF Faithful
  <2>1. PICK index \in 0..(ChunkCount(GroupSizes[id]) - 1) : p = Chunk(id, index)
    BY PacketsTyped
  <2> DEFINE size == GroupSizes[id]
             length == ChunkBytes(size, index)
  <2>2. /\ p.chunk_index = index /\ p.group_bytes = size
        /\ p.payload = [k \in 1..length |-> Content(id)[offset + k]]
    BY <2>1 DEF Chunk
  <2>3. updated.group_bytes = size
    BY <1>3, <2>2
  <2>4. DOMAIN group.bytes = 1..size
    BY <2>2 DEF Shaped
  <2>5. ASSUME NEW b \in 1..size, b - offset \in 1..length
        PROVE  updated.bytes[b] = <<id, b>>
    <3>1. updated.bytes[b] = Content(id)[offset + (b - offset)]
      BY <1>4, <2>2, <2>4, <2>5
    <3>2. offset + (b - offset) = b
      BY <1>2, <2>2
    <3> QED
      BY <3>1, <3>2 DEF Content
  <2>6. ASSUME NEW b \in 1..size, ChunkOf(b) \in updated.received, b - offset \notin 1..length
        PROVE  updated.bytes[b] = <<id, b>>
    <3>1. updated.bytes[b] = group.bytes[b]
      BY <1>4, <2>2, <2>4, <2>6
    <3>2. ChunkOf(b) # index
      BY <1>2, <2>2, <2>6, ByteInChunk
    <3>3. ChunkOf(b) \in group.received
      BY <1>3, <2>2, <2>6, <3>2
    <3> QED
      BY <3>1, <3>3 DEF Faithful
  <2> HIDE DEF length
  <2> QED
    BY <2>3, <2>5, <2>6
<1> QED
  BY <1>3, <1>7, <1>8 DEF updated

\* A complete group is what was split.
LEMMA CompleteIsContent ==
  ASSUME NEW group, Shaped(group), NEW id \in IntactIds, Faithful(id, group), IsComplete(group)
  PROVE  group.bytes = Content(id)
<1> DEFINE size == GroupSizes[id]
           count == ChunkCount(size)
<1> USE PacketizationAssumption
<1>1. group.group_bytes = size /\ DOMAIN group.bytes = 1..size /\ group.received \in SUBSET (0..(count - 1))
  BY DEF Shaped, Faithful
<1>2. size \in Nat \ {0} /\ count \in Nat \ {0}
  <2>1. group.group_bytes \in 1..MaxGroupBytes /\ MaxGroupBytes \in Nat
    BY DEF Shaped, GroupRecords
  <2>2. size \in Nat \ {0}
    BY <1>1, <2>1
  <2> QED
    BY <2>2, ChunkCounted
<1>3. group.received = 0..(count - 1)
  <2>1. Cardinality(group.received) = count
    BY <1>1 DEF IsComplete
  <2> HIDE DEF count
  <2>2. IsFiniteSet(0..(count - 1)) /\ Cardinality(0..(count - 1)) = count
    BY <1>2, IntervalSize
  <2> QED
    BY <1>1, <2>1, <2>2, FS_Subset
<1>4. \A b \in 1..size : ChunkOf(b) \in 0..(count - 1)
  BY <1>2, ByteInChunk
<1> HIDE DEF count
<1>5. \A b \in 1..size : group.bytes[b] = <<id, b>>
  BY <1>3, <1>4 DEF Faithful
<1>6. group.bytes \in Seq(Nat \X Nat)
  BY DEF Shaped, GroupRecords
<1>7. group.bytes = [b \in 1..size |-> group.bytes[b]]
  <2>1. PICK f : f = group.bytes
    OBVIOUS
  <2>2. f = [b \in DOMAIN f |-> f[b]] /\ DOMAIN f = 1..size
    BY <1>1, <1>6, <2>1, SequenceIsFunction
  <2>3. f = [b \in 1..size |-> f[b]]
    BY <2>2
  <2> QED
    BY <2>1, <2>3
<1> QED
  BY <1>5, <1>7 DEF Content

-----------------------------------------------------------------------------
(* The inductive invariant. *)

\* What the receiver keeps, and the group it handed on last.
Inv ==
    /\ latest_committed_group \in Nat
    /\ completed \in [group_id : Nat, bytes : Seq(Nat \X Nat)]
    /\ Kept(incomplete)
    /\ IncompleteAreNewer
    /\ CompletedIntact

\* Nothing is handed on when no group is completed.
LEMMA NothingCompleted ==
  ASSUME completed' = NoGroup
  PROVE  completed' \in [group_id : Nat, bytes : Seq(Nat \X Nat)] /\ CompletedIntact'
<1>1. NoGroup.group_id = 0 /\ NoGroup \in [group_id : Nat, bytes : Seq(Nat \X Nat)]
  <2>1. << >> \in Seq(Nat \X Nat)
    OBVIOUS
  <2> QED
    BY <2>1 DEF NoGroup
<1>2. 0 \notin IntactIds
  BY PacketizationAssumption DEF IntactIds, GroupIds
<1> QED
  BY <1>1, <1>2 DEF CompletedIntact

\* The receiver starts with nothing.
LEMMA InvInitial == Init => Inv
<1> SUFFICES ASSUME Init PROVE Inv
  OBVIOUS
<1> USE PacketizationAssumption DEF Init
<1>1. NoGroup.group_id = 0 /\ NoGroup \in [group_id : Nat, bytes : Seq(Nat \X Nat)]
  <2>1. << >> \in Seq(Nat \X Nat)
    OBVIOUS
  <2> QED
    BY <2>1 DEF NoGroup
<1>2. 0 \notin IntactIds
  BY DEF IntactIds, GroupIds
<1>3. DOMAIN incomplete = {}
  OBVIOUS
<1>4. IsFiniteSet(DOMAIN incomplete) /\ Cardinality(DOMAIN incomplete) = 0
  BY <1>3, FS_EmptySet
<1>5. RetainedBytes(incomplete) = 0
  <2>1. ReservedBytes(incomplete) = {}
    BY <1>3 DEF ReservedBytes
  <2> QED
    BY <2>1, FS_EmptySet DEF RetainedBytes
<1>6. incomplete = [id \in DOMAIN incomplete |-> incomplete[id]]
  <2>1. << >> \in Seq({0})
    OBVIOUS
  <2> QED
    BY <2>1, SequenceIsFunction
<1>7. MaxIncompleteBytes \in Nat /\ MaxInFlightGroups \in Nat
  OBVIOUS
<1>8. Kept(incomplete)
  BY <1>3, <1>4, <1>5, <1>6, <1>7 DEF Kept
<1> QED
  BY <1>1, <1>2, <1>3, <1>8 DEF Inv, IncompleteAreNewer, CompletedIntact

\* Fewer groups, as they were, over what was applied.
LEMMA FewerKept ==
  ASSUME Inv, NEW S \in SUBSET DOMAIN incomplete, incomplete' = Restrict(incomplete, S),
         completed' = NoGroup, UNCHANGED latest_committed_group
  PROVE  Inv'
<1>1. Kept(incomplete') /\ DOMAIN incomplete' = S
  BY RestrictedKept DEF Inv
<1>2. IncompleteAreNewer'
  BY <1>1 DEF Inv, IncompleteAreNewer
<1>3. Kept(incomplete)'
  BY <1>1
<1> QED
  BY <1>2, <1>3, NothingCompleted DEF Inv

\* The groups that have not expired, when a packet is looked at.
LEMMA LiveKept ==
  ASSUME Inv
  PROVE  /\ Kept(Unexpired(incomplete))
         /\ DOMAIN Unexpired(incomplete) \subseteq DOMAIN incomplete
         /\ \A id \in DOMAIN Unexpired(incomplete) :
               id > latest_committed_group /\ Unexpired(incomplete)[id] = incomplete[id]
<1> DEFINE S == {id \in DOMAIN incomplete : incomplete[id].age < ReassemblyTimeout}
<1>1. S \in SUBSET DOMAIN incomplete /\ Unexpired(incomplete) = Restrict(incomplete, S)
  BY DEF Unexpired
<1> HIDE DEF S
<1>2. Kept(Restrict(incomplete, S)) /\ DOMAIN Restrict(incomplete, S) = S
      /\ \A id \in S : Restrict(incomplete, S)[id] = incomplete[id]
  BY <1>1, RestrictedKept DEF Inv
<1> QED
  BY <1>1, <1>2 DEF Inv, IncompleteAreNewer

\* The cases of an accepted packet (accept_validated_chunk).
LEMMA AcceptedKept ==
  ASSUME Inv, NEW p \in Packets, NEW applied \in BOOLEAN,
         AcceptPacket(p, Unexpired(incomplete), applied)
  PROVE  Inv'
<1> DEFINE live == Unexpired(incomplete)
           id == p.group_id
           groups == Admitted(live, p)
           group == groups[id]
           updated == WithChunk(group, p)
<1>1. /\ Kept(live) /\ \A g \in DOMAIN live : g > latest_committed_group
      /\ IsCandidate(p) /\ (id \in DOMAIN live \/ Admissible(live, p))
      /\ group.group_bytes = p.group_bytes
  BY LiveKept DEF AcceptPacket
<1>2. WithinBounds(p) /\ ConsistentGeometry(p) /\ id \in Nat /\ id > latest_committed_group
  <2>1. p \in PacketRecords /\ latest_committed_group \in Nat
    BY PacketsTyped DEF Inv
  <2> QED
    BY <1>1, <2>1 DEF IsCandidate, IsStale, PacketRecords
<1>3. \/ incomplete' = live /\ completed' = NoGroup /\ UNCHANGED latest_committed_group
      \/ /\ incomplete' = [groups EXCEPT ![id] = updated]
         /\ completed' = NoGroup /\ UNCHANGED latest_committed_group
      \/ /\ IsComplete(updated)
         /\ completed' = [group_id |-> id, bytes |-> updated.bytes]
         /\ \/ /\ latest_committed_group' = id
               /\ incomplete' = NewerThan(WithoutGroup(groups, id), id)
            \/ /\ incomplete' = WithoutGroup(groups, id)
               /\ UNCHANGED latest_committed_group
  BY DEF AcceptPacket
<1> HIDE DEF live
<1>4. Kept(groups) /\ DOMAIN groups = DOMAIN live \cup {id}
  BY <1>1, <1>2, AdmittedKept
<1> HIDE DEF groups
<1>5. Shaped(group) /\ Faithful(id, group)
  BY <1>4 DEF Kept
<1>6. Shaped(updated) /\ Faithful(id, updated) /\ updated.group_bytes = group.group_bytes
  BY <1>1, <1>2, <1>5, ChunkReceived
<1> HIDE DEF updated
<1>7. CASE incomplete' = live /\ completed' = NoGroup /\ UNCHANGED latest_committed_group
  <2>1. Kept(incomplete)'
    BY <1>1, <1>7
  <2>2. IncompleteAreNewer'
    BY <1>1, <1>7 DEF IncompleteAreNewer
  <2> QED
    BY <1>7, <2>1, <2>2, NothingCompleted DEF Inv
<1>8. CASE /\ incomplete' = [groups EXCEPT ![id] = updated]
           /\ completed' = NoGroup /\ UNCHANGED latest_committed_group
  <2>1. Kept([groups EXCEPT ![id] = updated])
    BY <1>4, <1>6, ReplacedKept
  <2>2. Kept(incomplete)'
    BY <1>8, <2>1
  <2>3. DOMAIN incomplete' = DOMAIN live \cup {id}
    BY <1>4, <1>8
  <2>4. IncompleteAreNewer'
    BY <1>1, <1>2, <1>8, <2>3 DEF IncompleteAreNewer
  <2> QED
    BY <1>8, <2>2, <2>4, NothingCompleted DEF Inv
<1>9. CASE /\ IsComplete(updated)
           /\ completed' = [group_id |-> id, bytes |-> updated.bytes]
           /\ \/ /\ latest_committed_group' = id
                 /\ incomplete' = NewerThan(WithoutGroup(groups, id), id)
              \/ /\ incomplete' = WithoutGroup(groups, id)
                 /\ UNCHANGED latest_committed_group
  <2>1. /\ completed'.group_id = id /\ completed'.bytes = updated.bytes
        /\ completed' \in [group_id : Nat, bytes : Seq(Nat \X Nat)]
    <3>1. updated.bytes \in Seq(Nat \X Nat)
      BY <1>6 DEF Shaped, GroupRecords
    <3> QED
      BY <1>2, <1>9, <3>1
  <2>2. CompletedIntact'
    <3>1. id \in IntactIds => updated.bytes = Content(id)
      BY <1>6, <1>9, CompleteIsContent
    <3> QED
      BY <2>1, <3>1 DEF CompletedIntact
  <2> DEFINE rest == WithoutGroup(groups, id)
  <2>3. Kept(rest) /\ DOMAIN rest = DOMAIN groups \ {id}
    BY <1>4, RestrictedKept DEF WithoutGroup
  <2>4. \A g \in DOMAIN rest : g \in DOMAIN live /\ g # id
    BY <1>4, <2>3
  <2> HIDE DEF rest
  <2>5. ASSUME latest_committed_group' = id, incomplete' = NewerThan(rest, id)
        PROVE  Inv'
    <3> DEFINE S == {g \in DOMAIN rest : g >= id}
    <3>1. Kept(incomplete') /\ DOMAIN incomplete' = S
      BY <2>3, <2>5, RestrictedKept DEF NewerThan
    <3>2. \A g \in S : g > id
      <4>1. \A g \in DOMAIN rest : g \in Nat /\ g # id
        BY <2>3, <2>4 DEF Kept
      <4> QED
        BY <1>2, <4>1
    <3>3. IncompleteAreNewer'
      BY <2>5, <3>1, <3>2 DEF IncompleteAreNewer
    <3>4. Kept(incomplete)' /\ latest_committed_group' \in Nat
      BY <1>2, <2>5, <3>1
    <3> QED
      BY <2>1, <2>2, <3>3, <3>4 DEF Inv
  <2>6. ASSUME incomplete' = rest, UNCHANGED latest_committed_group
        PROVE  Inv'
    <3>1. Kept(incomplete)'
      BY <2>3, <2>6
    <3>2. IncompleteAreNewer'
      BY <1>1, <2>4, <2>6 DEF IncompleteAreNewer
    <3> QED
      BY <2>1, <2>2, <2>6, <3>1, <3>2 DEF Inv
  <2> QED
    BY <1>9, <2>5, <2>6 DEF rest
<1> QED
  BY <1>3, <1>7, <1>8, <1>9

\* receive_snapshot, whichever way the packet goes.
LEMMA ReceivedKept ==
  ASSUME Inv, NEW p \in Packets, NEW applied \in BOOLEAN, ReceiveSnapshot(p, applied)
  PROVE  Inv'
<1> DEFINE live == Unexpired(incomplete)
<1>1. CASE RejectPacket(p, live)
  <2>1. /\ incomplete' = WithoutGroup(live, p.group_id) /\ completed' = NoGroup
        /\ UNCHANGED latest_committed_group
    BY <1>1 DEF RejectPacket
  <2>2. Kept(live) /\ \A g \in DOMAIN live : g > latest_committed_group
    BY LiveKept
  <2> HIDE DEF live
  <2>3. Kept(incomplete') /\ DOMAIN incomplete' \subseteq DOMAIN live
    BY <2>1, <2>2, RestrictedKept DEF WithoutGroup
  <2>4. Kept(incomplete)' /\ IncompleteAreNewer'
    BY <2>1, <2>2, <2>3 DEF IncompleteAreNewer
  <2> QED
    BY <2>1, <2>4, NothingCompleted DEF Inv
<1>2. CASE IgnorePacket(p, live)
  <2>1. incomplete' = live /\ completed' = NoGroup /\ UNCHANGED latest_committed_group
    BY <1>2 DEF IgnorePacket
  <2>2. Kept(incomplete)' /\ IncompleteAreNewer'
    BY <2>1, LiveKept DEF IncompleteAreNewer
  <2> QED
    BY <2>1, <2>2, NothingCompleted DEF Inv
<1>3. CASE AcceptPacket(p, live, applied)
  BY <1>3, AcceptedKept
<1> QED
  BY <1>1, <1>2, <1>3 DEF ReceiveSnapshot

\* Every step keeps the invariant.
LEMMA StepKept ==
  ASSUME Inv, Next
  PROVE  Inv'
<1>1. ASSUME NEW p \in Packets, NEW applied \in BOOLEAN, ReceiveSnapshot(p, applied)
      PROVE  Inv'
  BY <1>1, ReceivedKept
<1>2. CASE Expire
  <2> DEFINE S == {id \in DOMAIN incomplete : incomplete[id].age < ReassemblyTimeout}
  <2>1. S \in SUBSET DOMAIN incomplete /\ incomplete' = Restrict(incomplete, S)
    BY <1>2 DEF Expire, Unexpired
  <2> HIDE DEF S
  <2> QED
    BY <1>2, <2>1, FewerKept DEF Expire
<1>3. CASE Elapse
  <2>1. /\ DOMAIN incomplete' = DOMAIN incomplete
        /\ incomplete' = [id \in DOMAIN incomplete |-> incomplete'[id]]
        /\ \A id \in DOMAIN incomplete :
              incomplete'[id] = [incomplete[id] EXCEPT
                                    !.age = IF @ > ReassemblyTimeout THEN @ ELSE @ + 1]
    BY <1>3 DEF Elapse
  <2>2. ASSUME NEW id \in DOMAIN incomplete
        PROVE  /\ Shaped(incomplete'[id]) /\ Faithful(id, incomplete'[id])
               /\ incomplete'[id].group_bytes = incomplete[id].group_bytes
    <3>1. PICK group : group = incomplete[id] /\ Shaped(group) /\ Faithful(id, group)
      BY DEF Inv, Kept
    <3>2. PICK older : older = [group EXCEPT !.age = IF @ > ReassemblyTimeout THEN @ ELSE @ + 1]
      OBVIOUS
    <3>3. /\ group \in GroupRecords /\ group.age \in 0..(ReassemblyTimeout + 1)
          /\ ReassemblyTimeout \in Nat
      BY <3>1, PacketizationAssumption DEF Shaped, GroupRecords
    <3>6. older = [group_bytes |-> group.group_bytes, bytes |-> group.bytes, received |-> group.received,
                   age |-> IF group.age > ReassemblyTimeout THEN group.age ELSE group.age + 1]
      BY <3>2, <3>3 DEF GroupRecords
    <3>7. (IF group.age > ReassemblyTimeout THEN group.age ELSE group.age + 1) \in 0..(ReassemblyTimeout + 1)
      BY <3>3
    <3>4. older \in GroupRecords /\ older.group_bytes = group.group_bytes
          /\ older.bytes = group.bytes /\ older.received = group.received
      BY <3>3, <3>6, <3>7 DEF GroupRecords
    <3>5. Shaped(older) /\ Faithful(id, older)
      BY <3>1, <3>4 DEF Shaped, Faithful
    <3> QED
      BY <2>1, <3>1, <3>2, <3>4, <3>5
  <2>3. ReservedBytes(incomplete') = ReservedBytes(incomplete)
    BY <2>1, <2>2 DEF ReservedBytes
  <2>4. Kept(incomplete')
    BY <2>1, <2>2, <2>3 DEF Inv, Kept, RetainedBytes
  <2>5. Kept(incomplete)' /\ IncompleteAreNewer'
    BY <1>3, <2>1, <2>4 DEF Inv, IncompleteAreNewer, Elapse
  <2> QED
    BY <1>3, <2>5, NothingCompleted DEF Inv, Elapse
<1>4. CASE ClearReassemblyState
  <2>1. Init'
    BY <1>4 DEF ClearReassemblyState, Init
  <2> QED
    BY <2>1, InvInitial, PTL
<1> QED
  BY <1>1, <1>2, <1>3, <1>4 DEF Next

\* The receiver always keeps the invariant.
THEOREM InvariantHolds == Spec => []Inv
<1>1. Inv /\ [Next]_vars => Inv'
  <2> SUFFICES ASSUME Inv, [Next]_vars PROVE Inv'
    OBVIOUS
  <2>1. CASE Next
    BY <2>1, StepKept
  <2>2. CASE UNCHANGED vars
    BY <2>2 DEF vars, Inv, IncompleteAreNewer, CompletedIntact
  <2> QED
    BY <2>1, <2>2
<1> QED
  BY InvInitial, <1>1, PTL DEF Spec

-----------------------------------------------------------------------------
(* What packets leave alone. *)

\* The number of chunks, without the division.
LEMMA ChunksCover ==
  ASSUME NEW n \in Nat \ {0}
  PROVE  Capacity * ChunkCount(n) <= n + Capacity - 1
<1> DEFINE c == Capacity
           count == (n + c - 1) \div c
<1>1. c \in Nat /\ c > 0
  BY PacketizationAssumption
<1>2. count \in Nat /\ n + c - 1 = c * count + ((n + c - 1) % c) /\ (n + c - 1) % c \in 0..(c - 1)
  BY <1>1
<1>3. c * count \in Int
  BY <1>1, <1>2
<1>4. PICK x, r : x = c * count /\ r = (n + c - 1) % c
  OBVIOUS
<1>5. x \in Int /\ r \in Nat /\ n + c - 1 = x + r
  BY <1>1, <1>2, <1>3, <1>4
<1>6. x <= n + c - 1
  <2> HIDE DEF c
  <2> QED
    BY <1>1, <1>5
<1> QED
  BY <1>4, <1>6 DEF ChunkCount

\* Multiples of the capacity are ordered as their factors.
LEMMA OffsetsOrdered ==
  ASSUME NEW a \in Nat, NEW b \in Nat, a < b
  PROVE  Capacity * a + Capacity <= Capacity * b
<1>1. Capacity \in Nat /\ Capacity > 0
  BY PacketizationAssumption
<1>2. PICK d \in Nat : b = a + 1 + d
  <2>1. b - a - 1 \in Nat /\ b = a + 1 + (b - a - 1)
    OBVIOUS
  <2> QED
    BY <2>1
<1>3. Capacity * b = Capacity * a + Capacity + Capacity * d
  BY <1>1, <1>2
<1>4. Capacity * d >= 0 /\ Capacity * d \in Int /\ Capacity * a \in Int
  BY <1>1
<1> QED
  BY <1>1, <1>3, <1>4

\* The bytes of a chunk, and that the chunk carries just those.
LEMMA ChunkBytesPlaced ==
  ASSUME NEW n \in Nat \ {0}, NEW index \in 0..(ChunkCount(n) - 1)
  PROVE  /\ index \in Nat /\ ChunkOffset(index) < n /\ ChunkBytes(n, index) \in Nat
         /\ \A k \in 1..ChunkBytes(n, index) :
               ChunkOffset(index) + k \in 1..n /\ ChunkOf(ChunkOffset(index) + k) = index
<1>1. Capacity \in Nat /\ Capacity > 0
  BY PacketizationAssumption
<1>2. ChunkCount(n) \in Nat \ {0} /\ Capacity * ChunkCount(n) <= n + Capacity - 1
  BY ChunkCounted, ChunksCover
<1>3. index \in Nat /\ index < ChunkCount(n)
  BY <1>2
<1>4. PICK o : o = Capacity * index
  OBVIOUS
<1>5. ChunkOffset(index) = o /\ o \in Nat
  BY <1>1, <1>3, <1>4 DEF ChunkOffset
<1>6. o + Capacity <= Capacity * ChunkCount(n)
  BY <1>2, <1>3, <1>4, OffsetsOrdered
<1>7. o < n
  <2>1. PICK x : x = Capacity * ChunkCount(n)
    OBVIOUS
  <2>2. x \in Int
    BY <1>1, <1>2, <2>1
  <2> QED
    BY <1>1, <1>2, <1>5, <1>6, <2>1, <2>2
<1>8. ChunkBytes(n, index) = IF Capacity <= n - o THEN Capacity ELSE n - o
  <2>1. Capacity \in Int /\ n - o \in Int
    BY <1>1, <1>5
  <2> QED
    BY <1>5, <2>1, MinOfTwo DEF ChunkBytes
<1>9. ASSUME NEW k \in 1..ChunkBytes(n, index)
      PROVE  o + k \in 1..n /\ ChunkOf(o + k) = index
  <2>1. k \in Nat /\ k >= 1 /\ k <= Capacity /\ o + k <= n
    BY <1>1, <1>5, <1>7, <1>8
  <2>2. PICK b \in 1..n : b = o + k
    BY <1>5, <2>1
  <2> DEFINE q == ChunkOf(b)
  <2>3. /\ q \in Nat /\ b - 1 = Capacity * q + ((b - 1) % Capacity)
        /\ (b - 1) % Capacity \in 0..(Capacity - 1)
    BY <1>1 DEF ChunkOf
  <2>4. PICK r : r = (b - 1) % Capacity
    OBVIOUS
  <2> HIDE DEF q
  <2>5. PICK x : x = Capacity * q
    OBVIOUS
  <2>6. x \in Int
    BY <1>1, <2>3, <2>5
  <2>7. ~(q < index)
    <3> SUFFICES ASSUME q < index PROVE FALSE
      OBVIOUS
    <3>1. x + Capacity <= o
      BY <1>3, <1>4, <2>3, <2>5, OffsetsOrdered
    <3> QED
      BY <1>1, <1>5, <2>1, <2>2, <2>3, <2>4, <2>5, <2>6, <3>1
  <2>8. ~(index < q)
    <3> SUFFICES ASSUME index < q PROVE FALSE
      OBVIOUS
    <3>1. o + Capacity <= x
      BY <1>3, <1>4, <2>3, <2>5, OffsetsOrdered
    <3> QED
      BY <1>1, <1>5, <2>1, <2>2, <2>3, <2>4, <2>5, <2>6, <3>1
  <2>9. q = index
    BY <1>3, <2>3, <2>7, <2>8
  <2>10. o + k \in 1..n
    BY <1>5, <2>1
  <2> QED
    BY <2>2, <2>9, <2>10 DEF q
<1> QED
  BY <1>1, <1>3, <1>5, <1>7, <1>8, <1>9

\* A chunk of a prepared group passes every check of its header.
LEMMA OwnChunkValid ==
  ASSUME NEW p \in Packets, p.group_id \in IntactIds
  PROVE  WithinBounds(p) /\ ConsistentGeometry(p)
<1> DEFINE id == p.group_id
           size == GroupSizes[id]
<1>1. PICK index \in 0..(ChunkCount(size) - 1) : p = Chunk(id, index)
  BY PacketsTyped
<1>2. /\ p.chunk_index = index /\ p.group_bytes = size /\ p.chunk_count = ChunkCount(size)
      /\ p.payload = [k \in 1..ChunkBytes(size, index) |-> Content(id)[ChunkOffset(index) + k]]
  BY <1>1 DEF Chunk
<1>3. id # 0 /\ size \in 1..MaxGroupBytes /\ MaxGroupBytes \in Nat /\ size \in Nat \ {0}
  BY PacketizationAssumption DEF IntactIds, GroupIds
<1> HIDE DEF size
<1>4. /\ index \in Nat /\ ChunkOffset(index) < size /\ ChunkBytes(size, index) \in Nat
      /\ ChunkCount(size) \in Nat \ {0}
  BY <1>3, ChunkBytesPlaced, ChunkCounted
<1>5. Len(p.payload) = ChunkBytes(size, index)
  <2>1. PICK n \in Nat : n = ChunkBytes(size, index)
    BY <1>4
  <2>2. DOMAIN p.payload = 1..n
    BY <1>2, <2>1
  <2>3. p.payload \in Seq(Nat \X Nat)
    BY PacketsTyped DEF PacketRecords
  <2> QED
    BY <2>1, <2>2, <2>3
<1>6. ChunkCount(size) <= MaxChunksPerGroup
  <2> SUFFICES ASSUME MaxChunksPerGroup < ChunkCount(size) PROVE FALSE
    BY <1>4, PacketizationAssumption
  <2>1. /\ Capacity \in Nat \ {0} /\ MaxChunksPerGroup \in Nat
        /\ MaxGroupBytes <= Capacity * MaxChunksPerGroup
    BY PacketizationAssumption
  <2>2. PICK x, y : x = Capacity * MaxChunksPerGroup /\ y = Capacity * ChunkCount(size)
    OBVIOUS
  <2>3. x \in Int /\ y \in Int
    BY <1>4, <2>1, <2>2
  <2>4. x + Capacity <= y
    BY <1>4, <2>1, <2>2, OffsetsOrdered
  <2>5. y <= size + Capacity - 1
    BY <1>3, <2>2, ChunksCover
  <2> QED
    BY <1>3, <2>1, <2>2, <2>3, <2>4, <2>5
<1>7. p.chunk_count \in 1..MaxChunksPerGroup /\ p.chunk_index < p.chunk_count
  BY <1>2, <1>4, <1>6, PacketizationAssumption
<1> QED
  BY <1>2, <1>3, <1>4, <1>5, <1>7 DEF WithinBounds, ConsistentGeometry

\* A chunk agrees with what was received of its group.
LEMMA OwnChunkAgrees ==
  ASSUME NEW p \in Packets, p.group_id \in IntactIds,
         NEW group, Shaped(group), Faithful(p.group_id, group)
  PROVE  /\ group.group_bytes = p.group_bytes
         /\ p.chunk_index \in group.received => PayloadMatches(group, p)
<1> DEFINE id == p.group_id
           size == GroupSizes[id]
<1>1. PICK index \in 0..(ChunkCount(size) - 1) : p = Chunk(id, index)
  BY PacketsTyped
<1>2. /\ p.chunk_index = index /\ p.group_bytes = size
      /\ p.payload = [k \in 1..ChunkBytes(size, index) |-> Content(id)[ChunkOffset(index) + k]]
  BY <1>1 DEF Chunk
<1>3. size \in Nat \ {0}
  BY PacketizationAssumption DEF IntactIds, GroupIds
<1>4. ASSUME index \in group.received, NEW k \in 1..ChunkBytes(size, index)
      PROVE  group.bytes[ChunkOffset(index) + k] = p.payload[k]
  <2>1. ChunkOffset(index) + k \in 1..size /\ ChunkOf(ChunkOffset(index) + k) = index
    BY <1>3, ChunkBytesPlaced
  <2>2. group.bytes[ChunkOffset(index) + k] = <<id, ChunkOffset(index) + k>>
    BY <1>4, <2>1 DEF Faithful
  <2>3. p.payload[k] = <<id, ChunkOffset(index) + k>>
    BY <1>2, <2>1 DEF Content
  <2> QED
    BY <2>2, <2>3
<1>5. group.group_bytes = p.group_bytes
  BY <1>2 DEF Faithful
<1> QED
  BY <1>2, <1>4, <1>5 DEF PayloadMatches

\* What a packet does to an intact group that has not expired.
LEMMA IntactGroupRemains ==
  ASSUME Inv, NEW p \in Packets, NEW applied \in BOOLEAN, ReceiveSnapshot(p, applied),
         NEW id \in IntactIds \cap DOMAIN incomplete, ~(incomplete[id].age >= ReassemblyTimeout)
  PROVE  Remains(id) \/ completed'.group_id = id \/ latest_committed_group' > id
<1> DEFINE live == Unexpired(incomplete)
           target == p.group_id
<1>1. /\ incomplete[id].age \in Nat /\ ReassemblyTimeout \in Nat /\ id \in Nat
      /\ latest_committed_group \in Nat /\ id > latest_committed_group
  <2>1. incomplete[id] \in GroupRecords /\ id \in Nat
    BY DEF Inv, Kept, Shaped
  <2> QED
    BY <2>1, PacketizationAssumption DEF Inv, IncompleteAreNewer, GroupRecords
<1>2. id \in DOMAIN live /\ live[id] = incomplete[id] /\ Kept(live)
  <2>1. id \in DOMAIN live
    BY <1>1 DEF Unexpired, Restrict
  <2> QED
    BY <2>1, LiveKept
<1>3. Shaped(live[id]) /\ Faithful(id, live[id]) /\ target \in Nat
  <2>1. p \in PacketRecords
    BY PacketsTyped
  <2> QED
    BY <1>2, <2>1 DEF Kept, PacketRecords
<1>4. target = id => /\ WithinBounds(p) /\ ConsistentGeometry(p)
                     /\ live[id].group_bytes = p.group_bytes
                     /\ p.chunk_index \in live[id].received => PayloadMatches(live[id], p)
  <2> SUFFICES ASSUME target = id
               PROVE  /\ WithinBounds(p) /\ ConsistentGeometry(p)
                      /\ live[id].group_bytes = p.group_bytes
                      /\ p.chunk_index \in live[id].received => PayloadMatches(live[id], p)
    OBVIOUS
  <2>1. p.group_id \in IntactIds /\ Faithful(p.group_id, live[id])
    BY <1>3
  <2> HIDE DEF live
  <2>2. WithinBounds(p) /\ ConsistentGeometry(p)
    BY <2>1, OwnChunkValid
  <2> QED
    BY <1>3, <2>1, <2>2, OwnChunkAgrees
<1>5. CASE RejectPacket(p, live)
  <2>1. target # id
    BY <1>4, <1>5 DEF RejectPacket
  <2>2. incomplete' = Restrict(live, DOMAIN live \ {target})
    BY <1>5 DEF RejectPacket, WithoutGroup
  <2>3. id \in DOMAIN incomplete' /\ incomplete'[id] = incomplete[id]
    BY <1>2, <2>1, <2>2 DEF Restrict
  <2> QED
    BY <2>3 DEF Remains
<1>6. CASE IgnorePacket(p, live)
  BY <1>2, <1>6 DEF IgnorePacket, Remains
<1>7. CASE AcceptPacket(p, live, applied)
  <2> DEFINE groups == Admitted(live, p)
             updated == WithChunk(groups[target], p)
             rest == WithoutGroup(groups, target)
  <2>1. \/ incomplete' = live
        \/ incomplete' = [groups EXCEPT ![target] = updated]
        \/ /\ completed' = [group_id |-> target, bytes |-> updated.bytes]
           /\ \/ latest_committed_group' = target /\ incomplete' = NewerThan(rest, target)
              \/ incomplete' = rest
    BY <1>7 DEF AcceptPacket
  <2>2. id \in DOMAIN groups /\ groups[id] = incomplete[id]
    BY <1>2 DEF Admitted
  <2>3. target = id => incomplete[id].received \subseteq updated.received
    <3>1. incomplete[id] \in GroupRecords
      BY <1>2, <1>3 DEF Shaped
    <3> HIDE DEF live
    <3> QED
      BY <2>2, <3>1 DEF WithChunk, GroupRecords
  <2> HIDE DEF live, groups, updated
  <2>4. CASE incomplete' = live
    BY <1>2, <2>4 DEF Remains
  <2>5. CASE incomplete' = [groups EXCEPT ![target] = updated]
    <3>1. id \in DOMAIN incomplete'
      BY <2>2, <2>5
    <3>2. incomplete'[id] = IF target = id THEN updated ELSE incomplete[id]
      BY <2>2, <2>5
    <3> QED
      BY <2>3, <3>1, <3>2 DEF Remains
  <2>6. CASE /\ completed' = [group_id |-> target, bytes |-> updated.bytes]
             /\ \/ latest_committed_group' = target /\ incomplete' = NewerThan(rest, target)
                \/ incomplete' = rest
    <3> SUFFICES ASSUME target # id, ~(latest_committed_group' > id) PROVE Remains(id)
      BY <2>6
    <3>1. id \in DOMAIN rest /\ rest[id] = incomplete[id]
      BY <2>2 DEF WithoutGroup, Restrict
    <3> HIDE DEF rest
    <3>2. CASE incomplete' = rest
      BY <3>1, <3>2 DEF Remains
    <3>3. CASE latest_committed_group' = target /\ incomplete' = NewerThan(rest, target)
      <4>1. id >= target
        BY <1>1, <1>3, <3>3
      <4>2. id \in DOMAIN incomplete' /\ incomplete'[id] = incomplete[id]
        BY <3>1, <3>3, <4>1 DEF NewerThan, Restrict
      <4> QED
        BY <4>2 DEF Remains
    <3> QED
      BY <2>6, <3>2, <3>3
  <2> QED
    BY <2>1, <2>4, <2>5, <2>6
<1> QED
  BY <1>5, <1>6, <1>7 DEF ReceiveSnapshot

-----------------------------------------------------------------------------
(* The results. *)

\* Whatever arrives, a receiver keeps only well-formed groups newer than what was applied,
\* within the in-flight count and the byte budget (ReceiverKept): each way of erasing groups
\* and each admission.
THEOREM ReceiverBounded == Spec => []ReceiverKept
<1>1. Inv => ReceiverKept
  <2> SUFFICES ASSUME Inv PROVE ReceiverKept
    OBVIOUS
  <2>1. TypeOK
    <3>1. \A id \in DOMAIN incomplete : incomplete[id] \in GroupRecords
      BY DEF Inv, Kept, Shaped
    <3>2. incomplete \in [DOMAIN incomplete -> GroupRecords]
      BY <3>1 DEF Inv, Kept
    <3> QED
      BY <3>2 DEF TypeOK, Inv, Kept, GroupRecords
  <2> QED
    BY <2>1 DEF ReceiverKept, WithinBudget, Inv, Kept
<1> QED
  BY <1>1, InvariantHolds, PTL

\* However its chunks were lost, repeated, reordered, expired and started again, a group is
\* handed on with exactly the bytes that were split (CompletedIntact).
THEOREM GroupsIntact == Spec => []CompletedIntact
<1>1. Inv => CompletedIntact
  BY DEF Inv
<1> QED
  BY <1>1, InvariantHolds, PTL

\* A step that loses what an intact group received completes it, supersedes it or finds it expired
\* (IntactGroupsStay): a packet of another group never reaches it, and its own are never rejected.
THEOREM IntactGroupsRemain == Spec => IntactGroupsStay
<1> DEFINE Stay == \A p \in Packets, applied \in BOOLEAN : ReceiveSnapshot(p, applied) =>
                      \A id \in IntactIds \cap DOMAIN incomplete :
                          \/ Remains(id)
                          \/ completed'.group_id = id
                          \/ latest_committed_group' > id
                          \/ incomplete[id].age >= ReassemblyTimeout
<1>1. Inv => Stay
  <2> SUFFICES ASSUME Inv, NEW p \in Packets, NEW applied \in BOOLEAN, ReceiveSnapshot(p, applied),
                      NEW id \in IntactIds \cap DOMAIN incomplete,
                      ~(incomplete[id].age >= ReassemblyTimeout)
               PROVE  \/ Remains(id)
                      \/ completed'.group_id = id
                      \/ latest_committed_group' > id
    OBVIOUS
  <2> QED
    BY IntactGroupRemains
<1>2. Inv /\ [Next]_vars => [Stay]_vars
  BY <1>1
<1> QED
  BY <1>2, InvariantHolds, PTL DEF Spec, IntactGroupsStay
-----------------------------------------------------------------------------
(* The sizes of an update through compression, packets and decompression. *)

\* Bytes that are not compressed, and payloads of packets: those bytes, or a frame of some.
Plains == [magic : {"plain"}, size : Int, of : Nat]

Payloads == Plains \cup {Path!Enveloped("Zstd", plain, frame) : plain \in Plains, frame \in Nat}

\* The packet brings the given bytes: it is them, or a frame of them that pays.
Carries(packet, plain) ==
    \/ packet = plain
    \/ /\ mode = "PerPacket"
       /\ \E frame \in Nat \ {0} :
            Path!Smaller(plain, frame) /\ packet = Path!Enveloped("Zstd", plain, frame)

\* The group that is sent holds the update: as it is, or in an envelope within the limit.
Wraps(bytes) ==
    IF mode # "WholeUpdate" THEN bytes = Path!Plain(update, 0)
    ELSE /\ update <= MaxGroup
         /\ \/ bytes = Path!Enveloped("Raw", Path!Plain(update, 0), update)
            \/ \E frame \in Nat \ {0} :
                 bytes = Path!Enveloped("Zstd", Path!Plain(update, 0), frame)

\* What is received and what is under way are the packets of the group, in their order.
Underway ==
    /\ sentGroup.size \in 1..MaxGroup /\ Wraps(sentGroup)
    /\ packets \in Seq(Payloads) /\ chunks \in Seq(Plains)
    /\ Len(chunks) + Len(packets) = Path!ChunkCount(sentGroup.size)
    /\ \A i \in 1..Len(chunks) : chunks[i] = Path!Packet(sentGroup.size, i)
    /\ \A i \in 1..Len(packets) :
           Carries(packets[i], Path!Packet(sentGroup.size, Len(chunks) + i))

\* The inductive invariant of the path.
PathInv ==
    /\ mode \in {"None", "WholeUpdate", "PerPacket"} /\ packetized \in BOOLEAN
    /\ stage \in {"encoded", "abandoned", "sent", "done"} /\ update \in Nat \ {0}
    /\ stage = "encoded" => packets = << >> /\ chunks = << >>
    /\ stage = "sent" => Underway
    /\ Path!UpdatesTravel

\* The packets of a group are typed, and none exceeds the payload limit.
LEMMA PacketBounded ==
  ASSUME Path!PathAssumption, packetized \in BOOLEAN, NEW n \in Nat, NEW i \in Nat
  PROVE  /\ Path!Packet(n, i) \in Plains
         /\ Path!Packet(n, i).size <= MaxPayload
<1> DEFINE c == Path!ChunkPayload
           rest == n - (i - 1) * c
           h == IF packetized THEN Header ELSE 0
<1>1. c \in Nat \ {0} /\ h \in Nat /\ h + c <= MaxPayload /\ MaxPayload \in Nat
  BY DEF Path!PathAssumption, Path!ChunkPayload
<1>2. rest \in Int
  BY <1>1
<1> HIDE DEF c, rest
<1>3. Min({c, rest}) = IF c <= rest THEN c ELSE rest
  BY <1>1, <1>2, MinOfTwo
<1>4. Path!Packet(n, i) = [magic |-> "plain", size |-> h + Min({c, rest}), of |-> i]
  BY DEF Path!Packet, Path!Plain, Path!Min, Min, c, rest
<1> HIDE DEF h
<1>5. h + Min({c, rest}) \in Int /\ h + Min({c, rest}) <= MaxPayload
  BY <1>1, <1>2, <1>3
<1> QED
  BY <1>4, <1>5 DEF Plains

\* A group has as many packets as its size takes.
LEMMA PacketsCounted ==
  ASSUME Path!PathAssumption, packetized \in BOOLEAN, NEW n \in Nat
  PROVE  Path!ChunkCount(n) \in Nat
<1> DEFINE c == Path!ChunkPayload
<1>1. c \in Nat \ {0}
  BY DEF Path!PathAssumption, Path!ChunkPayload
<1> HIDE DEF c
<1>2. PICK m \in Nat : m = n + c - 1
  BY <1>1
<1>3. m \div c \in Nat
  BY <1>1
<1> QED
  BY <1>2, <1>3 DEF Path!ChunkCount, c

\* What is made of a packet fits the payload limit and brings the packet.
LEMMA PacketCompressed ==
  ASSUME Path!PathAssumption, NEW plain \in Plains, plain.size <= MaxPayload,
         NEW frame \in Path!Frames(plain), mode = "PerPacket"
  PROVE  LET sent == Head(Path!CompressWhenSmaller(plain, frame, MaxPayload))
         IN  sent \in Payloads /\ Carries(sent, plain)
<1>1. MaxPayload \in Nat /\ plain.size \in Int /\ Overhead \in Nat
  BY DEF Path!PathAssumption, Plains
<1>2. frame \in Nat \ {0}
  BY <1>1 DEF Path!Frames
<1>3. CASE Path!Smaller(plain, frame)
  <2>1. Path!CompressWhenSmaller(plain, frame, MaxPayload) = <<Path!Enveloped("Zstd", plain, frame)>>
    BY <1>1, <1>3 DEF Path!CompressWhenSmaller
  <2> QED
    BY <1>2, <1>3, <2>1 DEF Payloads, Carries
<1>4. CASE ~Path!Smaller(plain, frame)
  <2>1. Path!CompressWhenSmaller(plain, frame, MaxPayload) = <<plain>>
    BY <1>1, <1>4 DEF Path!CompressWhenSmaller
  <2> QED
    BY <2>1 DEF Payloads, Carries
<1> QED
  BY <1>3, <1>4

\* What brings a packet that fits is itself within the limit.
LEMMA CarriedFits ==
  ASSUME Path!PathAssumption, NEW plain \in Plains, plain.size <= MaxPayload,
         NEW packet, Carries(packet, plain)
  PROVE  packet.size <= MaxPayload
<1>1. CASE packet = plain
  BY <1>1
<1>2. ASSUME NEW frame \in Nat \ {0}, Path!Smaller(plain, frame),
             packet = Path!Enveloped("Zstd", plain, frame)
      PROVE  packet.size <= MaxPayload
  BY <1>2 DEF Path!Enveloped, Path!Smaller, Path!PathAssumption, Plains
<1> QED
  BY <1>1, <1>2 DEF Carries

\* A group in its next state is under way when that state says so of unchanged packets.
LEMMA UnderwayNext ==
  ASSUME UNCHANGED <<mode, packetized, update>>,
         NEW bytes, sentGroup' = bytes, bytes.size \in 1..MaxGroup, Wraps(bytes),
         packets' \in Seq(Payloads), chunks' \in Seq(Plains),
         Len(chunks') + Len(packets') = Path!ChunkCount(bytes.size),
         \A i \in 1..Len(chunks') : chunks'[i] = Path!Packet(bytes.size, i),
         \A i \in 1..Len(packets') : Carries(packets'[i], Path!Packet(bytes.size, Len(chunks') + i))
  PROVE  Underway'
<1> DEFINE n == bytes.size
<1>1. Path!ChunkCount(sentGroup.size)' = Path!ChunkCount(n)
  BY DEF Path!ChunkCount, Path!ChunkPayload
<1>2. Wraps(sentGroup)'
  BY DEF Wraps
<1>3. ASSUME NEW i \in 1..Len(packets')
      PROVE  Carries(packets[i], Path!Packet(sentGroup.size, Len(chunks) + i))'
  <2>1. PICK plainPacket : plainPacket = Path!Packet(n, Len(chunks') + i)
    OBVIOUS
  <2>2. Path!Packet(sentGroup.size, Len(chunks) + i)' = plainPacket
    BY <2>1 DEF Path!Packet, Path!ChunkPayload
  <2>3. \/ packets'[i] = plainPacket
        \/ /\ mode' = "PerPacket"
           /\ \E frame \in Nat \ {0} :
                Path!Smaller(plainPacket, frame) /\ packets'[i] = Path!Enveloped("Zstd", plainPacket, frame)
    BY <2>1 DEF Carries
  <2> QED
    BY <2>2, <2>3 DEF Carries
<1>4. ASSUME NEW i \in 1..Len(chunks')
      PROVE  (chunks[i] = Path!Packet(sentGroup.size, i))'
  BY DEF Path!Packet, Path!ChunkPayload
<1> QED
  BY <1>1, <1>2, <1>3, <1>4 DEF Underway

\* A group that is sent is under way as a whole, and fits.
LEMMA GroupSent ==
  ASSUME Path!PathAssumption, PathInv, stage = "encoded", NEW bytes,
         bytes.size \in 1..MaxGroup, Wraps(bytes), Path!SendGroup(bytes),
         UNCHANGED <<mode, packetized, update, chunks, decoded>>
  PROVE  PathInv'
<1> DEFINE n == bytes.size
           count == Path!ChunkCount(n)
           plain == Path!PacketsOf(n)
<1>1. /\ mode \in {"None", "WholeUpdate", "PerPacket"} /\ packetized \in BOOLEAN
      /\ update \in Nat \ {0} /\ chunks = << >> /\ MaxGroup \in Nat
  BY DEF PathInv, Path!PathAssumption
<1>2. n \in Nat /\ count \in Nat
  <2>1. n \in Nat
    BY <1>1
  <2> HIDE DEF n
  <2> QED
    BY <1>1, <2>1, PacketsCounted
<1>3. /\ DOMAIN plain = 1..count
      /\ \A i \in 1..count : /\ plain[i] = Path!Packet(n, i)
                              /\ plain[i] \in Plains /\ plain[i].size <= MaxPayload
  BY <1>1, <1>2, PacketBounded DEF Path!PacketsOf
<1>4. sentGroup' = bytes /\ stage' = "sent"
  BY DEF Path!SendGroup
<1> HIDE DEF plain
<1>5. /\ packets' \in Seq(Payloads) /\ Len(packets') = count
      /\ \A i \in 1..count : Carries(packets'[i], plain[i])
  <2>1. CASE mode # "PerPacket"
    <3>1. packets' = plain
      BY <2>1 DEF Path!SendGroup, plain
    <3>2. packets' = [i \in 1..count |-> plain[i]]
      BY <1>2, <3>1 DEF Path!PacketsOf, plain
    <3>3. \A i \in 1..count : plain[i] \in Payloads
      BY <1>3 DEF Payloads
    <3> HIDE DEF count
    <3>4. packets' \in [1..count -> Payloads]
      BY <3>2, <3>3
    <3> QED
      BY <1>2, <3>1, <3>4 DEF Carries
  <2>2. CASE mode = "PerPacket"
    <3>1. PICK frames : /\ \A i \in DOMAIN plain : frames[i] \in Path!Frames(plain[i])
                        /\ packets' = [i \in DOMAIN plain |->
                              Head(Path!CompressWhenSmaller(plain[i], frames[i], MaxPayload))]
      BY <2>2 DEF Path!SendGroup, plain
    <3>2. \A i \in 1..count : packets'[i] \in Payloads /\ Carries(packets'[i], plain[i])
      BY <1>3, <2>2, <3>1, PacketCompressed
    <3>3. packets' = [i \in 1..count |-> packets'[i]]
      BY <1>3, <3>1
    <3> HIDE DEF count
    <3>4. packets' \in [1..count -> Payloads]
      BY <3>2, <3>3
    <3> QED
      BY <1>2, <3>2, <3>4
  <2> QED
    BY <2>1, <2>2
<1>6. \A i \in 1..count : packets'[i].size <= MaxPayload
  BY <1>3, <1>5, CarriedFits
<1>7. Path!PacketsFit'
  BY <1>2, <1>5, <1>6 DEF Path!PacketsFit
<1>8. /\ mode' = mode /\ packetized' = packetized /\ update' = update
      /\ chunks' = << >> /\ Len(chunks') = 0 /\ chunks' \in Seq(Plains)
  BY <1>1
<1>9. \A i \in 1..Len(packets') : Carries(packets'[i], Path!Packet(n, Len(chunks') + i))
  <2>1. \A i \in 1..count : Len(chunks') + i = i
    BY <1>2, <1>8
  <2>2. \A i \in 1..count : Carries(packets'[i], Path!Packet(n, i))
    BY <1>3, <1>5
  <2> QED
    BY <1>5, <2>1, <2>2
<1>10. Len(chunks') + Len(packets') = count /\ \A i \in 1..Len(chunks') : FALSE
  BY <1>2, <1>5, <1>8
<1>11. Underway'
  BY <1>4, <1>5, <1>8, <1>9, <1>10, UnderwayNext
<1> QED
  BY <1>1, <1>4, <1>7, <1>8, <1>11
  DEF PathInv, Path!UpdatesTravel, Path!SentArrives, Path!AbandonedAtTheBound

\* What of an update is submitted wraps it, and only what exceeds a limit is abandoned.
LEMMA SubmitStep ==
  ASSUME Path!PathAssumption, PathInv, Path!Submit
  PROVE  PathInv'
<1> DEFINE input == Path!Plain(update, 0)
<1>1. PICK frame \in Path!Frames(input) :
        LET compressed == IF mode = "WholeUpdate"
                          THEN Path!CompressAlways(input, frame, MaxGroup) ELSE <<input>>
        IN  IF compressed = << >> \/ ~Path!Prepared(Head(compressed).size) THEN Path!Abandon
            ELSE Path!SendGroup(Head(compressed))
  BY DEF Path!Submit
<1>2. /\ stage = "encoded" /\ UNCHANGED <<mode, packetized, update, chunks, decoded>>
      /\ mode \in {"None", "WholeUpdate", "PerPacket"} /\ packetized \in BOOLEAN
      /\ update \in Nat \ {0} /\ packets = << >> /\ Path!PacketsFit
  BY DEF Path!Submit, PathInv, Path!UpdatesTravel
<1>3. {MaxPayload, MaxGroup, Envelope, Overhead} \subseteq Nat
  BY DEF Path!PathAssumption
<1>4. input.size = update /\ frame \in Nat \ {0}
  BY <1>2, <1>3 DEF Path!Plain, Path!Frames
<1> DEFINE wrapped == IF frame < update THEN Path!Enveloped("Zstd", input, frame)
                      ELSE Path!Enveloped("Raw", input, update)
           limit == IF packetized \/ MaxGroup < MaxPayload THEN MaxGroup ELSE MaxPayload
<1>5. wrapped.size \in Nat /\ wrapped.size <= Envelope + update
  <2>1. wrapped.size = IF frame < update THEN Envelope + frame ELSE Envelope + update
    BY DEF Path!Enveloped
  <2>2. PICK size : size = wrapped.size
    OBVIOUS
  <2>3. Envelope \in Nat /\ update \in Nat /\ frame \in Nat
    BY <1>2, <1>3, <1>4
  <2>4. size = IF frame < update THEN Envelope + frame ELSE Envelope + update
    BY <2>1, <2>2
  <2>5. size \in Nat /\ size <= Envelope + update
    BY ONLY <2>3, <2>4
  <2> QED
    BY <2>2, <2>5
<1>6. ASSUME Path!Abandon,
             update + (IF mode = "WholeUpdate" THEN Envelope ELSE 0) > limit
      PROVE  PathInv'
  BY <1>2, <1>6
  DEF Path!Abandon, PathInv, Path!UpdatesTravel, Path!PacketsFit, Path!SentArrives,
      Path!AbandonedAtTheBound
<1>7. CASE mode = "WholeUpdate"
  <2>1. Path!CompressAlways(input, frame, MaxGroup) =
          IF update <= MaxGroup /\ wrapped.size <= MaxGroup THEN <<wrapped>> ELSE << >>
    BY <1>4 DEF Path!CompressAlways
  <2> HIDE DEF wrapped, input
  <2>2. CASE update <= MaxGroup /\ wrapped.size <= MaxGroup
    <3>1. IF ~Path!Prepared(wrapped.size) THEN Path!Abandon ELSE Path!SendGroup(wrapped)
      BY <1>1, <1>7, <2>1, <2>2
    <3>2. CASE Path!Prepared(wrapped.size)
      <4>1. wrapped.size \in 1..MaxGroup
        BY <3>2 DEF Path!Prepared
      <4>2. Wraps(wrapped)
        BY <1>4, <1>7, <2>2 DEF Wraps, wrapped, input
      <4> QED
        BY <1>2, <3>1, <3>2, <4>1, <4>2, GroupSent
    <3>3. CASE ~Path!Prepared(wrapped.size)
      <4>1. wrapped.size >= 1
        BY <1>2, <1>3, <1>4 DEF wrapped, Path!Enveloped
      <4>2. wrapped.size > limit
        BY <1>2, <1>3, <1>5, <2>2, <3>3, <4>1 DEF Path!Prepared
      <4> QED
        BY <1>2, <1>3, <1>5, <1>6, <1>7, <3>1, <3>3, <4>2
    <3> QED
      BY <3>2, <3>3
  <2>3. CASE ~(update <= MaxGroup /\ wrapped.size <= MaxGroup)
    <3>1. Path!Abandon
      BY <1>1, <1>7, <2>1, <2>3
    <3>2. update + Envelope > limit
      BY <1>2, <1>3, <1>5, <2>3
    <3> QED
      BY <1>6, <1>7, <3>1, <3>2
  <2> QED
    BY <2>2, <2>3
<1>8. CASE mode # "WholeUpdate"
  <2>1. IF ~Path!Prepared(input.size) THEN Path!Abandon ELSE Path!SendGroup(input)
    BY <1>1, <1>8
  <2>2. CASE Path!Prepared(input.size)
    <3>1. input.size \in 1..MaxGroup /\ Wraps(input)
      BY <1>8, <2>2 DEF Wraps, Path!Prepared
    <3> QED
      BY <1>2, <2>1, <2>2, <3>1, GroupSent
  <2>3. CASE ~Path!Prepared(input.size)
    <3>1. update > limit
      BY <1>2, <1>3, <1>4, <2>3 DEF Path!Prepared
    <3> QED
      BY <1>2, <1>3, <1>6, <1>8, <2>1, <2>3, <3>1
  <2> QED
    BY <2>2, <2>3
<1> QED
  BY <1>7, <1>8

\* The packet that is received brings the next packet of the group.
LEMMA ReceiveStep ==
  ASSUME Path!PathAssumption, PathInv, Path!ReceivePacket
  PROVE  PathInv'
<1> DEFINE n == sentGroup.size
           next == Len(chunks) + 1
           packet == Head(packets)
           plain == Path!Packet(n, next)
<1>1. /\ stage = "sent" /\ packets # << >> /\ packets' = Tail(packets)
      /\ UNCHANGED <<mode, packetized, stage, update, sentGroup, decoded>>
      /\ chunks' = IF mode # "PerPacket" \/ packet.magic # "SNCZ" THEN Append(chunks, packet)
                   ELSE IF /\ Path!Decompressible(packet, Path!PacketBound, ClientLimit)
                           /\ packet.encoding = "Zstd"
                        THEN Append(chunks, packet.content) ELSE chunks
  BY DEF Path!ReceivePacket
<1>2. /\ packets \in Seq(Payloads) /\ chunks \in Seq(Plains) /\ n \in 1..MaxGroup /\ Wraps(sentGroup)
      /\ Len(chunks) + Len(packets) = Path!ChunkCount(n)
      /\ \A i \in 1..Len(chunks) : chunks[i] = Path!Packet(n, i)
      /\ \A i \in 1..Len(packets) : Carries(packets[i], Path!Packet(n, Len(chunks) + i))
      /\ packetized \in BOOLEAN /\ MaxGroup \in Nat /\ n \in Nat
      /\ \A i \in DOMAIN packets : packets[i].size <= MaxPayload
  BY <1>1 DEF PathInv, Underway, Path!PathAssumption, Path!UpdatesTravel, Path!PacketsFit
<1>3. /\ Len(packets) \in Nat \ {0} /\ packet = packets[1] /\ packets' \in Seq(Payloads)
      /\ Len(packets') = Len(packets) - 1
      /\ \A i \in 1..Len(packets') : packets'[i] = packets[i + 1]
  BY <1>1, <1>2, HeadTailProperties
<1>4. Carries(packet, plain) /\ plain \in Plains /\ plain.size <= MaxPayload /\ next \in Nat
  BY <1>2, <1>3, PacketBounded
<1> HIDE DEF plain, packet
<1>5. chunks' = Append(chunks, plain)
  <2>1. CASE packet = plain
    <3>1. packet.magic # "SNCZ"
      BY <1>4, <2>1 DEF Plains
    <3> QED
      BY <1>1, <2>1, <3>1
  <2>2. ASSUME NEW frame \in Nat \ {0}, mode = "PerPacket", Path!Smaller(plain, frame),
               packet = Path!Enveloped("Zstd", plain, frame)
        PROVE  chunks' = Append(chunks, plain)
    <3>1. /\ packet.magic = "SNCZ" /\ packet.encoding = "Zstd" /\ packet.content = plain
          /\ packet.size = Envelope + frame /\ packet.payload_bytes = frame
          /\ packet.uncompressed_bytes = plain.size
      BY <2>2 DEF Path!Enveloped
    <3>2. /\ {MaxPayload, ClientLimit, Envelope} \subseteq Nat /\ MaxPayload <= ClientLimit
          /\ plain.size \in Int
      BY <1>4 DEF Path!PathAssumption, Plains
    <3>3. Envelope + frame < plain.size /\ plain.size <= MaxPayload
      BY <1>4, <2>2 DEF Path!Smaller
    <3>4. packet.size \in Envelope..ClientLimit
      BY <3>1, <3>2, <3>3
    <3>5. Path!EnvelopeSizesWithinBounds(packet, MaxPayload)
      BY <3>1, <3>2, <3>3 DEF Path!EnvelopeSizesWithinBounds
    <3>6. Path!EnvelopePayloadSizeMatches(packet, ClientLimit)
      BY <3>1, <3>2, <3>3 DEF Path!EnvelopePayloadSizeMatches
    <3>7. Path!Decompressible(packet, Path!PacketBound, ClientLimit)
      BY <3>1, <3>4, <3>5, <3>6 DEF Path!Decompressible, Path!PacketBound
    <3> QED
      BY <1>1, <2>2, <3>1, <3>7
  <2> QED
    BY <1>4, <2>1, <2>2 DEF Carries
<1>6. /\ chunks' \in Seq(Plains) /\ Len(chunks') = Len(chunks) + 1 /\ chunks'[next] = plain
      /\ \A i \in 1..Len(chunks) : chunks'[i] = chunks[i]
  BY <1>2, <1>4, <1>5, AppendProperties
<1>7. ASSUME NEW i \in 1..Len(chunks')
      PROVE  chunks'[i] = Path!Packet(n, i)
  <2>1. CASE i = next
    BY <1>6, <2>1 DEF plain
  <2>2. CASE i # next
    <3>1. i \in 1..Len(chunks)
      BY <1>2, <1>6, <2>2
    <3> QED
      BY <1>2, <1>6, <3>1
  <2> QED
    BY <2>1, <2>2
<1>8. ASSUME NEW i \in 1..Len(packets')
      PROVE  /\ Carries(packets'[i], Path!Packet(n, Len(chunks') + i))
             /\ packets'[i].size <= MaxPayload
  <2>1. i + 1 \in 1..Len(packets) /\ Len(chunks') + i = Len(chunks) + (i + 1)
    BY <1>2, <1>3, <1>6
  <2>2. DOMAIN packets = 1..Len(packets)
    BY <1>2
  <2>3. Carries(packets[i + 1], Path!Packet(n, Len(chunks) + (i + 1)))
    BY <1>2, <2>1
  <2>4. packets[i + 1].size <= MaxPayload
    BY <1>2, <2>1, <2>2
  <2> QED
    BY <1>3, <2>1, <2>3, <2>4
<1>9. Len(chunks') + Len(packets') = Path!ChunkCount(n)
  BY <1>2, <1>3, <1>6
<1>10. Underway'
  BY <1>1, <1>2, <1>3, <1>6, <1>7, <1>8, <1>9, UnderwayNext
<1>11. Path!PacketsFit'
  BY <1>3, <1>8 DEF Path!PacketsFit
<1> QED
  BY <1>1, <1>10, <1>11
  DEF PathInv, Path!UpdatesTravel, Path!SentArrives, Path!AbandonedAtTheBound

\* A group that is complete is the group that was sent, and the update comes out of it.
LEMMA CompleteStep ==
  ASSUME Path!PathAssumption, PathInv, Path!CompleteGroup
  PROVE  PathInv'
<1> DEFINE n == sentGroup.size
<1>1. /\ stage = "sent" /\ packets = << >> /\ stage' = "done"
      /\ decoded' = IF chunks # Path!PacketsOf(n) THEN Path!NoBytes
                    ELSE IF mode # "WholeUpdate" THEN sentGroup
                    ELSE IF Path!Decompressible(sentGroup, MaxGroup, MaxGroup)
                         THEN sentGroup.content ELSE Path!NoBytes
      /\ UNCHANGED <<mode, packetized, update, sentGroup, packets, chunks>>
  BY DEF Path!CompleteGroup
<1>2. /\ chunks \in Seq(Plains) /\ Wraps(sentGroup) /\ n \in 1..MaxGroup
      /\ Len(chunks) + Len(packets) = Path!ChunkCount(n) /\ update \in Nat \ {0}
      /\ \A i \in 1..Len(chunks) : chunks[i] = Path!Packet(n, i)
  BY <1>1 DEF PathInv, Underway
<1>3. chunks = Path!PacketsOf(n)
  <2>1. Len(chunks) = Path!ChunkCount(n) /\ Len(chunks) \in Nat
    BY <1>1, <1>2
  <2>2. chunks = [i \in 1..Len(chunks) |-> chunks[i]]
    BY <1>2
  <2> QED
    BY <1>2, <2>1, <2>2 DEF Path!PacketsOf
<1>4. decoded' = Path!Plain(update, 0)
  <2>1. CASE mode # "WholeUpdate"
    BY <1>1, <1>2, <1>3, <2>1 DEF Wraps
  <2>2. CASE mode = "WholeUpdate"
    <3>1. PICK frame \in Nat \ {0} :
            \/ sentGroup = Path!Enveloped("Raw", Path!Plain(update, 0), update) /\ frame = update
            \/ sentGroup = Path!Enveloped("Zstd", Path!Plain(update, 0), frame)
      BY <1>2, <2>2 DEF Wraps
    <3>2. /\ sentGroup.content = Path!Plain(update, 0) /\ sentGroup.content.size = update
          /\ sentGroup.uncompressed_bytes = update /\ sentGroup.payload_bytes = frame
          /\ n = Envelope + frame
          /\ sentGroup.encoding = "Raw" => frame = update
      BY <3>1 DEF Path!Enveloped, Path!Plain
    <3>3. Envelope \in Nat /\ MaxGroup \in Nat /\ update <= MaxGroup
      BY <1>2, <2>2 DEF Path!PathAssumption, Wraps
    <3>4. n \in Envelope..MaxGroup
      BY <1>2, <3>2, <3>3
    <3>5. Path!Decompressible(sentGroup, MaxGroup, MaxGroup)
      BY <1>2, <3>2, <3>3, <3>4
      DEF Path!Decompressible, Path!EnvelopeSizesWithinBounds, Path!EnvelopePayloadSizeMatches
    <3> QED
      BY <1>1, <1>3, <2>2, <3>2, <3>5
  <2> QED
    BY <2>1, <2>2
<1>5. Path!Plain(update, 0)' = Path!Plain(update, 0)
  BY <1>1 DEF Path!Plain
<1> QED
  BY <1>1, <1>4, <1>5
  DEF PathInv, Path!UpdatesTravel, Path!PacketsFit, Path!SentArrives, Path!AbandonedAtTheBound

\* Every payload fits the transport, every update that was sent is what the client decodes,
\* and only one that exceeds a limit is abandoned: for every size, every limit that
\* run_client accepts, every mode, and whatever size Zstd makes a frame.
THEOREM UpdatesArrive ==
  ASSUME Path!PathAssumption
  PROVE  Path!Spec => []UpdatesTravel
<1>1. Path!Init => PathInv
  <2> SUFFICES ASSUME Path!Init PROVE PathInv
    OBVIOUS
  <2>1. packets = << >> /\ chunks = << >> /\ stage = "encoded" /\ DOMAIN packets = {}
    BY DEF Path!Init
  <2> QED
    BY <2>1 DEF Path!Init, Path!PathAssumption, PathInv, Path!UpdatesTravel, Path!PacketsFit,
                Path!SentArrives, Path!AbandonedAtTheBound
<1>2. PathInv /\ [Path!Next]_(Path!vars) => PathInv'
  <2> SUFFICES ASSUME PathInv, [Path!Next]_(Path!vars) PROVE PathInv'
    OBVIOUS
  <2>1. CASE Path!Submit
    BY <2>1, SubmitStep
  <2>2. CASE Path!ReceivePacket
    BY <2>2, ReceiveStep
  <2>3. CASE Path!CompleteGroup
    BY <2>3, CompleteStep
  <2>4. CASE UNCHANGED Path!vars
    <3>1. /\ UNCHANGED <<mode, packetized, update>> /\ stage' = stage /\ packets' = packets
          /\ chunks' = chunks /\ sentGroup' = sentGroup /\ decoded' = decoded
      BY <2>4 DEF Path!vars
    <3>2. stage = "sent" => Underway'
      BY <3>1, UnderwayNext DEF PathInv, Underway
    <3> QED
      BY <3>1, <3>2
      DEF PathInv, Path!UpdatesTravel, Path!PacketsFit, Path!SentArrives, Path!AbandonedAtTheBound,
          Path!Plain
  <2> QED
    BY <2>1, <2>2, <2>3, <2>4 DEF Path!Next
<1>3. PathInv => UpdatesTravel
  BY DEF PathInv, UpdatesTravel
<1> QED
  BY <1>1, <1>2, <1>3, PTL DEF Path!Spec
=============================================================================

---------------------------- MODULE CompressionPath ----------------------------
(***************************************************************************)
(* An encoded update on its way from the server to a client: compressed as *)
(* a whole or packet by packet, packetized or not, and decompressed again. *)
(* Bytes are counted, not looked at; a frame is what Zstd makes of some    *)
(* bytes, of any size up to its bound. Packets arrive in order: what loss  *)
(* and reordering do to a group is the subject of Reassembly.              *)
(***************************************************************************)
EXTENDS Naturals, Sequences, FiniteSetsExt, SequencesExt

CONSTANTS
    MaxPayload,     \* packetization.max_payload_bytes, and the server's bound on a packet
    ClientLimit,    \* local.transport.max_payload_bytes of the client
    MaxGroup,       \* packetization.max_group_bytes
    Header,         \* packet_header_bytes
    Envelope,       \* compression_envelope_bytes
    Overhead,       \* by how much a frame may exceed the bytes in it
    Sizes           \* sizes of encoded updates

\* run_client refuses a configuration that does not meet it.
PathAssumption ==
    /\ {MaxPayload, ClientLimit, MaxGroup, Header, Envelope} \subseteq Nat \ {0}
    /\ Overhead \in Nat /\ Sizes \subseteq Nat \ {0}
    /\ Header < MaxPayload
    /\ MaxPayload <= ClientLimit

VARIABLES
    mode,           \* CompressionMode
    packetized,     \* packetization.enabled
    stage,          \* "encoded", "abandoned", "sent" or "done"
    update,         \* bytes of the encoded update
    group,          \* the byte group that is packetized, for the record
    packets,        \* payloads on their way
    chunks,         \* what the client got out of the packets
    applied         \* the bytes the client decodes; NoBytes before that

vars == <<mode, packetized, stage, update, group, packets, chunks, applied>>

\* Some bytes: how many, and which packet of a group they are (0: an encoded update).
Plain(size, of) == [magic |-> "plain", size |-> size, of |-> of]
NoBytes == Plain(0, 0)

Init ==
    /\ mode \in {"None", "WholeUpdate", "PerPacket"}
    /\ packetized \in BOOLEAN
    /\ stage = "encoded" /\ update \in Sizes
    /\ group = NoBytes /\ packets = << >>
    /\ chunks = << >> /\ applied = NoBytes

-----------------------------------------------------------------------------
(* compress_bytes. *)

\* write_compression_envelope
Enveloped(encoding, input, payload) ==
    [magic |-> "SNCZ", encoding |-> encoding, uncompressed_bytes |-> input.size,
     payload_bytes |-> payload, size |-> Envelope + payload, content |-> input]

\* OnlyWhenSmaller uses an envelope that pays.
Smaller(input, frame) == Envelope + frame < input.size

\* The result for a frame of the given size, within a bound on input and output.
CompressAlways(input, frame, bound) ==
    LET result == IF frame < input.size THEN Enveloped("Zstd", input, frame)
                  ELSE Enveloped("Raw", input, input.size)
    IN  IF input.size <= bound /\ result.size <= bound THEN <<result>> ELSE << >>

CompressWhenSmaller(input, frame, bound) ==
    IF input.size > bound THEN << >>
    ELSE IF Smaller(input, frame) THEN <<Enveloped("Zstd", input, frame)>>
    ELSE <<input>>

Frames(input) == 1..(input.size + Overhead)

-----------------------------------------------------------------------------
(* The server. *)

ChunkPayload == IF packetized THEN MaxPayload - Header ELSE MaxPayload

ChunkCount(bytes) == IF packetized THEN (bytes + ChunkPayload - 1) \div ChunkPayload ELSE 1

\* prepare_byte_group
Prepared(bytes) == bytes \in 1..MaxGroup /\ (packetized \/ bytes <= MaxPayload)

\* serialize_group_chunk: the packet of a chunk, all its bytes together.
Packet(bytes, index) ==
    LET rest == bytes - (index - 1) * ChunkPayload
    IN  Plain((IF packetized THEN Header ELSE 0) + Min({ChunkPayload, rest}), index)

PacketsOf(bytes) == [index \in 1..ChunkCount(bytes) |-> Packet(bytes, index)]

Abandon ==
    /\ stage' = "abandoned"
    /\ UNCHANGED <<group, packets>>

\* prepare_transport_group: each packet compressed on its own when that is the mode.
SendGroup(bytes) ==
    LET plain == PacketsOf(bytes.size) IN
    /\ group' = bytes
    /\ stage' = "sent"
    /\ IF mode # "PerPacket" THEN packets' = plain
       ELSE \E frames \in [DOMAIN plain -> Frames(Plain(MaxPayload, 0))] :
              /\ \A i \in DOMAIN plain : frames[i] \in Frames(plain[i])
              /\ packets' = [i \in DOMAIN plain |->
                                Head(CompressWhenSmaller(plain[i], frames[i], MaxPayload))]

Submit ==
    /\ stage = "encoded"
    /\ \E frame \in Frames(Plain(update, 0)) :
        LET input == Plain(update, 0)
            compressed == IF mode = "WholeUpdate" THEN CompressAlways(input, frame, MaxGroup)
                          ELSE <<input>>
        IN  IF compressed = << >> \/ ~Prepared(Head(compressed).size) THEN Abandon
            ELSE SendGroup(Head(compressed))
    /\ UNCHANGED <<mode, packetized, update, chunks, applied>>

-----------------------------------------------------------------------------
(* decompress_bytes. *)

EnvelopeSizesWithinBounds(m, uncompressed) ==
    m.uncompressed_bytes # 0 /\ m.payload_bytes # 0 /\ m.uncompressed_bytes <= uncompressed

EnvelopePayloadSizeMatches(m, output) ==
    Envelope + m.payload_bytes = m.size /\ Envelope + m.payload_bytes <= output

\* The frame is one that compress_bytes wrote, so Zstd finds it complete.
Decompressible(m, uncompressed, output) ==
    /\ m.size \in Envelope..output
    /\ EnvelopeSizesWithinBounds(m, uncompressed)
    /\ EnvelopePayloadSizeMatches(m, output)
    /\ IF m.encoding = "Raw" THEN m.payload_bytes = m.uncompressed_bytes
       ELSE m.content.size = m.uncompressed_bytes

-----------------------------------------------------------------------------
(* The client. *)

\* Faulty variant: the bound is that of a chunk without its header.
ChunkBound == MaxPayload - Header

PacketBound == MaxPayload

\* A packet is a compressed one when it begins like an envelope, and must then be a frame.
ReceivePacket ==
    /\ stage = "sent" /\ packets # << >>
    /\ packets' = Tail(packets)
    /\ LET packet == Head(packets) IN
       chunks' = IF mode # "PerPacket" \/ packet.magic # "SNCZ" THEN Append(chunks, packet)
                 ELSE IF /\ Decompressible(packet, PacketBound, ClientLimit)
                         /\ packet.encoding = "Zstd"
                      THEN Append(chunks, packet.content) ELSE chunks
    /\ UNCHANGED <<mode, packetized, stage, update, group, applied>>

\* The group is complete: the update is decompressed when it was as a whole, and applied.
\* A group that lacks a packet, or does not decompress, is not.
CompleteGroup ==
    /\ stage = "sent" /\ packets = << >>
    /\ stage' = "done"
    /\ applied' = IF chunks # PacketsOf(group.size) THEN NoBytes
                  ELSE IF mode # "WholeUpdate" THEN group
                  ELSE IF Decompressible(group, MaxGroup, MaxGroup) THEN group.content ELSE NoBytes
    /\ UNCHANGED <<mode, packetized, update, group, packets, chunks>>

Next == Submit \/ ReceivePacket \/ CompleteGroup

Spec == Init /\ [][Next]_vars
-----------------------------------------------------------------------------
(* Properties. *)

\* Every payload prepare_transport_group makes fits the transport, whatever compression made
\* of it: a packet that does not pay travels as it was.
PacketsFit == \A i \in DOMAIN packets : packets[i].size <= MaxPayload

\* What the server sent the client decodes, in every mode and at every bound: the limits the
\* client decompresses within cover all that the server's limits let through, and a packet
\* that was left as it was is not taken for a compressed one.
SentArrives == stage = "done" => applied = Plain(update, 0)

\* An update is abandoned only when its bytes cannot travel: they, and the envelope of a whole
\* update, exceed the group or the single payload. A frame that Zstd made larger is no reason.
AbandonedAtTheBound ==
    stage = "abandoned" =>
        update + (IF mode = "WholeUpdate" THEN Envelope ELSE 0)
            > IF packetized \/ MaxGroup < MaxPayload THEN MaxGroup ELSE MaxPayload

\* Every payload fits the transport, what was sent decodes at the client, and only what
\* cannot travel is abandoned, in every mode of compression (prepare_transport_group and
\* receive_snapshot).
UpdatesTravel == PacketsFit /\ SentArrives /\ AbandonedAtTheBound
=============================================================================

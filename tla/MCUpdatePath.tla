------------------------------ MODULE MCUpdatePath ------------------------------
(***************************************************************************)
(* The path of an encoded update, in two parts that are checked apart: its *)
(* chunks in any order (Reassembly), and its sizes through compression,    *)
(* packets and decompression (CompressionPath).  A behaviour is of one     *)
(* part, and the other stays in an initial state.                          *)
(*                                                                         *)
(* Four updates of one, two and three chunks of two bytes, the last chunk  *)
(* full or short, in three slots that the byte budget can close before the *)
(* slot count does; and packets that conflict with the second update.      *)
(***************************************************************************)
EXTENDS Reassembly

CONSTANTS MaxPayload, ClientLimit, MaxGroup, Header, Envelope, Overhead, Sizes

VARIABLES part, mode, packetized, stage, update, sentGroup, packets, chunks, decoded

pathVars == <<mode, packetized, stage, update, sentGroup, packets, chunks, decoded>>

Path == INSTANCE CompressionPath WITH group <- sentGroup, applied <- decoded

ASSUME PathConfigured == Path!PathAssumption

MCGroupSizes == <<3, 5, 2, 4>>

\* Out of bounds, inconsistent geometry, and another size and payload for group 2.
MCForeignPackets ==
    {[group_id |-> 2, chunk_index |-> 0, chunk_count |-> 4, group_bytes |-> 7,
      payload |-> <<<<0, 1>>, <<0, 2>>>>],
     [group_id |-> 2, chunk_index |-> 0, chunk_count |-> 1, group_bytes |-> 5,
      payload |-> <<<<0, 1>>, <<0, 2>>>>],
     [group_id |-> 2, chunk_index |-> 0, chunk_count |-> 2, group_bytes |-> 4,
      payload |-> <<<<0, 1>>, <<0, 2>>>>],
     [group_id |-> 2, chunk_index |-> 0, chunk_count |-> 3, group_bytes |-> 5,
      payload |-> <<<<0, 1>>, <<0, 2>>>>]}

PartInit ==
    /\ part \in {"chunks", "sizes"}
    /\ Init
    /\ Path!Init
    /\ part = "chunks" => mode = "None" /\ packetized /\ update = Min(Sizes)

Chunks(action) == part = "chunks" /\ action /\ UNCHANGED <<part, pathVars>>

PartNext ==
    \/ Chunks(Next)
    \/ part = "sizes" /\ Path!Next /\ UNCHANGED <<part, vars>>

\* The fairness of Reassembly: the client's loop and the clock, nothing of the network.
PartSpec ==
    /\ PartInit
    /\ [][PartNext]_<<part, vars, pathVars>>
    /\ WF_vars(Chunks(Expire))
    /\ WF_vars(Chunks(Elapse))
-----------------------------------------------------------------------------
(* A property of a part. *)

\* Every payload fits the transport, what was sent decodes at the client, and only what
\* cannot travel is abandoned, in every mode of compression (prepare_transport_group and
\* receive_snapshot).
UpdatesTravel == Path!UpdatesTravel
=============================================================================

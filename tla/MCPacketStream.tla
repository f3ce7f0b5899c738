--------------------------- MODULE MCPacketStream ---------------------------
(* Empty packets with and without padding, and two payloads, one of which   *)
(* starts like a header.                                                    *)
EXTENDS PacketStream

Commands == {11017}
Payloads == {<<>>, <<8, 93>>, <<0, 6, 0, 43>>}

=============================================================================

---------------------------- MODULE PacketStream ----------------------------
(***************************************************************************)
(* How the gate and the dispatch server find packets in a connection's     *)
(* byte stream (cheshire-server-core/src/packet.rs, split_from_after and   *)
(* new, driven by the handle_client of gate.rs and of dispatch.rs in       *)
(* cheshire-server-services).                                              *)
(*                                                                         *)
(* A frame is a two-byte length, a flag, a two-byte command, a two-byte id *)
(* and the payload.  The client announces an empty payload with length 6   *)
(* but sends only the 7 header bytes; a padding byte may follow at any     *)
(* later time, and the gate recognises it only by the packet after it.     *)
(* The dispatch server does not look for padding: its requests all have    *)
(* required fields, and none is empty.  TCP delivers the bytes in pieces   *)
(* of any size.  Bytes and lengths are the real ones.                      *)
(***************************************************************************)
EXTENDS Naturals, Sequences

CONSTANTS
    Cmd,        \* commands the client sends
    Payload,    \* payloads the client sends
    Padding,    \* values of the padding byte the client may send
    FirstIds,   \* ids of a connection's first packet; the next ones count up
    MaxPackets  \* bound: packets sent over the connection

Byte   == 0..255
IdMod  == 256 * 256
Header == 7             \* FRAME_HEADER_SIZE
MinCmd == 10000         \* the least command looks_like_next_packet expects
NoId   == IdMod         \* previous_packet_id = None

ASSUME BytesAssumption ==
    /\ Cmd \subseteq MinCmd..(IdMod - 1)
    /\ Padding \subseteq Byte
    /\ \A p \in Payload : p \in Seq(Byte) /\ Len(p) # 1 /\ Len(p) < IdMod - 6
    /\ FirstIds \subseteq 1..(IdMod - 1)
    /\ MaxPackets \in Nat

VARIABLES
    conn,       \* the server the connection is to, and its first id
    sent,       \* the packets the client has sent
    wire,       \* bytes sent and not read by the gate yet
    buffer,     \* bytes read and not consumed
    previous,   \* previous_packet_id
    parsed,     \* the packets the gate has found
    pc          \* where handle_client is: see TypeOK

vars == <<conn, sent, wire, buffer, previous, parsed, pc>>

U16(bytes, at) == bytes[at] * 256 + bytes[at + 1]
Bytes16(n)     == <<n \div 256, n % 256>>

Init ==
    /\ conn \in [server : {"gate", "dispatch"}, first : FirstIds]
    /\ sent = <<>> /\ wire = <<>>
    /\ buffer = <<>> /\ previous = NoId
    /\ parsed = <<>>
    /\ pc = "read"

-----------------------------------------------------------------------------
(* The client: a padding byte may follow an empty packet, but not the one     *)
(* with id 0, which the gate would not recognise (see the README).            *)

\* Protobuf messages are empty or at least two bytes long, so that a length of
\* 6 always announces an empty one.
ClientFrame(p) ==
    Bytes16(IF p.payload = <<>> THEN 6 ELSE 5 + Len(p.payload))
        \o <<0>> \o Bytes16(p.cmd) \o Bytes16(p.id) \o p.payload

Send(cmd, payload, padding) ==
    LET p == [cmd |-> cmd, id |-> (conn.first + Len(sent)) % IdMod, payload |-> payload]
    IN /\ Len(sent) < MaxPackets
       /\ conn.server = "dispatch" => payload # <<>>
       /\ padding # <<>> => payload = <<>> /\ p.id # 0
       /\ sent' = Append(sent, p)
       /\ wire' = wire \o ClientFrame(p) \o padding
       /\ UNCHANGED <<conn, buffer, previous, parsed, pc>>

-----------------------------------------------------------------------------
(* handle_client of either server *)

\* read() returns the next n bytes.
Read(n) ==
    /\ pc = "read"
    /\ n \in 1..Len(wire)
    /\ buffer' = buffer \o SubSeq(wire, 1, n)
    /\ wire' = SubSeq(wire, n + 1, Len(wire))
    /\ pc' = "split"
    /\ UNCHANGED <<conn, sent, previous, parsed>>

\* read() returns 0: the client is done and everything it sent was read.
EndOfStream ==
    /\ pc = "read"
    /\ wire = <<>> /\ Len(sent) = MaxPackets
    /\ pc' = "closed"
    /\ UNCHANGED <<conn, sent, wire, buffer, previous, parsed>>

\* read() fails, from the first one on: handle_client returns the error.
ReadFails ==
    /\ pc = "read"
    /\ pc' = "broken"
    /\ UNCHANGED <<conn, sent, wire, buffer, previous, parsed>>

\* looks_like_next_packet, at an offset counted from 0.
LooksLikeNext(bytes, offset) ==
    /\ Len(bytes) >= offset + Header
    /\ U16(bytes, offset + 1) >= 5
    /\ bytes[offset + 3] = 0
    /\ U16(bytes, offset + 4) >= MinCmd
    /\ U16(bytes, offset + 6) = (previous + 1) % IdMod

\* Mutant of DropPadding: the padding byte is left where it is.
DropNothing(bytes) == bytes

\* drop_padding_before_next_packet.
DropPadding(bytes) ==
    IF previous # NoId /\ ~LooksLikeNext(bytes, 0) /\ LooksLikeNext(bytes, 1)
    THEN Tail(bytes)
    ELSE bytes

\* Mutant of Total: a frame is as long as it says.
TotalAsAnnounced(bytes) == U16(bytes, 1) + 2

\* The bytes that split_from_after waits for and takes.
Total(bytes) == LET length == U16(bytes, 1) IN IF length = 6 THEN Header ELSE length + 2

Complete(bytes) == Len(bytes) >= 2 /\ Len(bytes) >= Total(bytes)

\* Packet::new takes frames of at least a header; the other checks it makes
\* cannot fail on what split_from_after cuts.
FrameOk(frame) == Len(frame) >= Header

Decode(frame) ==
    [cmd |-> U16(frame, 4), id |-> U16(frame, 6),
     payload |-> SubSeq(frame, Header + 1, Len(frame))]

\* Mutant of Split: `if let` instead of `while let`.
SplitOnce ==
    LET bytes == DropPadding(buffer)
        frame == SubSeq(bytes, 1, Total(bytes))
    IN /\ pc = "split"
       /\ \/ /\ ~Complete(bytes)
             /\ buffer' = bytes
             /\ UNCHANGED <<previous, parsed>>
          \/ /\ Complete(bytes)
             /\ buffer' = SubSeq(bytes, Total(bytes) + 1, Len(bytes))
             /\ parsed' = Append(parsed, Decode(frame))
             /\ previous' = IF conn.server = "gate" THEN Decode(frame).id ELSE NoId
       /\ pc' = "read"
       /\ UNCHANGED <<conn, sent, wire>>

\* What the gate remembers of a packet: an id of 0 is taken for none.  The
\* dispatch server calls split_from, without an id.
Remembered(id) == IF conn.server = "dispatch" \/ id = 0 THEN previous ELSE id

\* One round of the loop over split_from_after: nothing complete, a packet that
\* is handed to handle_packet, or a frame that is none.  When handle_packet
\* fails (it cannot in dispatch.rs) or a response cannot be written, the error
\* ends the connection, and what is left in the buffer is dropped with it.
Split ==
    LET bytes == DropPadding(buffer)
        frame == SubSeq(bytes, 1, Total(bytes))
    IN /\ pc = "split"
       /\ \/ /\ ~Complete(bytes)
             /\ buffer' = bytes
             /\ pc' = "read"
             /\ UNCHANGED <<previous, parsed>>
          \/ /\ Complete(bytes) /\ FrameOk(frame)
             /\ buffer' = SubSeq(bytes, Total(bytes) + 1, Len(bytes))
             /\ parsed' = Append(parsed, Decode(frame))
             /\ previous' = Remembered(Decode(frame).id)
             /\ pc' \in {"split", "broken"}
          \/ /\ Complete(bytes) /\ ~FrameOk(frame)
             /\ buffer' = SubSeq(bytes, Total(bytes) + 1, Len(bytes))
             /\ pc' = "failed"
             /\ UNCHANGED <<previous, parsed>>
       /\ UNCHANGED <<conn, sent, wire>>

-----------------------------------------------------------------------------
Paddings == {<<>>} \cup {<<b>> : b \in Padding}

Client ==
    \E cmd \in Cmd, payload \in Payload, padding \in Paddings :
        Send(cmd, payload, padding)

Server == EndOfStream \/ Split \/ \E n \in 1..Len(wire) : Read(n)

Over == pc \in {"closed", "broken", "failed"} /\ UNCHANGED vars

Next == Client \/ Server \/ ReadFails \/ Over

\* The task is polled whenever bytes have arrived; the client need not send, and
\* nothing makes a read, a handler or a write fail or succeed.
Spec == Init /\ [][Next]_vars /\ WF_vars(Server)

-----------------------------------------------------------------------------
(* Properties *)

Packet == [cmd : Cmd, id : 0..(IdMod - 1), payload : Payload]

\* Between two reads the buffer holds less than a frame (and a padding byte).
TypeOK ==
    /\ conn \in [server : {"gate", "dispatch"}, first : FirstIds]
    /\ sent \in Seq(Packet) /\ Len(sent) <= MaxPackets
    /\ wire \in Seq(Byte) /\ buffer \in Seq(Byte)
    /\ previous \in 0..IdMod
    /\ parsed \in Seq([cmd : 0..(IdMod - 1), id : 0..(IdMod - 1), payload : Seq(Byte)])
    /\ pc \in {"read", "split",
               "closed",    \* end of stream
               "broken",    \* a read, the handler or a write failed
               "failed"}    \* a frame was none
    /\ pc = "read" => ~Complete(buffer)

\* However the stream is cut and wherever padding bytes appear, and while ids
\* wrap around, either server finds the client's packets, each once and in
\* order, and no others; it never takes an orderly client's connection for
\* broken.
ParsedInOrder ==
    /\ pc # "failed"
    /\ Len(parsed) <= Len(sent)
    /\ parsed = SubSeq(sent, 1, Len(parsed))

\* Every packet the client sends is parsed in the end, though nothing follows it,
\* unless a read, the handling of a packet before it or a write of its response
\* fails: nothing else ends a connection with packets unparsed.
SentIsParsed ==
    \A k \in 1..MaxPackets : Len(sent) >= k ~> Len(parsed) >= k \/ pc = "broken"

=============================================================================

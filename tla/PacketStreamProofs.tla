------------------------- MODULE PacketStreamProofs -------------------------
(***************************************************************************)
(* Proofs about PacketStream, for any packets, cuts and paddings.          *)
(***************************************************************************)
EXTENDS PacketStream, SequenceTheorems, TLAPS

-----------------------------------------------------------------------------
(* The bytes of a frame *)

LEMMA Joined ==
    ASSUME NEW S, NEW s \in Seq(S), NEW t \in Seq(S)
    PROVE  /\ s \o t \in Seq(S) /\ Len(s \o t) = Len(s) + Len(t)
           /\ Len(s) \in Nat /\ Len(t) \in Nat
           /\ \A i \in 1..Len(s) : (s \o t)[i] = s[i]
           /\ \A j \in 1..Len(t) : (s \o t)[Len(s) + j] = t[j]
OBVIOUS

LEMMA Widths == /\ IdMod \in Nat /\ IdMod > 0 /\ MinCmd \in Nat
                /\ \A n \in Nat : n >= MinCmd => n \div 256 # 0
                /\ \A n \in Byte : n < MinCmd
<1>1. IdMod \in Nat /\ IdMod > 0
  BY DEF IdMod
<1>2. MinCmd \in Nat /\ MinCmd >= 256
  BY DEF MinCmd
<1> QED BY <1>1, <1>2 DEF Byte

LEMMA TwoBytes ==
    ASSUME NEW n \in 0..(IdMod - 1)
    PROVE  /\ n \div 256 \in Byte /\ n % 256 \in Byte
           /\ (n \div 256) * 256 + (n % 256) = n
<1>1. n \in Nat /\ n < 256 * 256
  <2>1. n \in Nat /\ n < IdMod
    BY Widths
  <2> QED BY <2>1 DEF IdMod
<1> HIDE DEF IdMod
<1>2. (n \div 256) * 256 + (n % 256) = n /\ n % 256 \in Byte
  BY <1>1 DEF Byte
<1>3. n \div 256 \in Byte
  BY <1>1 DEF Byte
<1> QED BY <1>2, <1>3

LEMMA PacketBytes ==
    ASSUME NEW p \in Packet
    PROVE  /\ p.payload \in Seq(Byte) /\ Len(p.payload) \in Nat \ {1} /\ Len(p.payload) < IdMod - 6
           /\ p.cmd \in 0..(IdMod - 1) /\ p.cmd >= MinCmd /\ p.id \in 0..(IdMod - 1)
<1>1. p.payload \in Payload /\ p.cmd \in Cmd /\ p.id \in 0..(IdMod - 1)
  BY DEF Packet
<1>2. p.payload \in Seq(Byte) /\ Len(p.payload) # 1 /\ Len(p.payload) < IdMod - 6
  BY <1>1, BytesAssumption
<1>3. p.cmd \in MinCmd..(IdMod - 1)
  BY <1>1, BytesAssumption
<1> HIDE DEF IdMod, MinCmd
<1> QED BY <1>1, <1>2, <1>3, Widths

Announced(payload) == IF payload = <<>> THEN 6 ELSE 5 + Len(payload)

LEMMA FrameBytes ==
    ASSUME NEW p \in Packet
    PROVE  LET frame == ClientFrame(p)
           IN  /\ frame \in Seq(Byte)
               /\ Len(frame) = 7 + Len(p.payload) /\ Len(p.payload) \in Nat
               /\ U16(frame, 1) = Announced(p.payload)
               /\ frame[3] = 0
               /\ frame[4] # 0 /\ U16(frame, 4) = p.cmd
               /\ U16(frame, 6) = p.id
               /\ \A j \in 1..Len(p.payload) : frame[7 + j] = p.payload[j]
<1> DEFINE length == Announced(p.payload)
           head == <<length \div 256, length % 256, 0, p.cmd \div 256, p.cmd % 256,
                     p.id \div 256, p.id % 256>>
<1>1. /\ p.payload \in Seq(Byte) /\ Len(p.payload) \in Nat \ {1} /\ Len(p.payload) < IdMod - 6
      /\ p.cmd \in 0..(IdMod - 1) /\ p.cmd >= MinCmd /\ p.id \in 0..(IdMod - 1)
  BY PacketBytes
<1>2. length \in 0..(IdMod - 1)
  BY <1>1, Widths DEF Announced
<1> HIDE DEF length
<1>3. /\ length \div 256 \in Byte /\ length % 256 \in Byte
      /\ (length \div 256) * 256 + (length % 256) = length
  BY <1>2, TwoBytes
<1>4. /\ p.cmd \div 256 \in Byte /\ p.cmd % 256 \in Byte /\ p.cmd \div 256 # 0
      /\ (p.cmd \div 256) * 256 + (p.cmd % 256) = p.cmd
  BY <1>1, TwoBytes, Widths
<1>5. /\ p.id \div 256 \in Byte /\ p.id % 256 \in Byte
      /\ (p.id \div 256) * 256 + (p.id % 256) = p.id
  BY <1>1, TwoBytes
<1>6. /\ ClientFrame(p) \in Seq(Byte) /\ Len(ClientFrame(p)) = 7 + Len(p.payload)
      /\ \A i \in 1..7 : ClientFrame(p)[i] = head[i]
      /\ \A j \in 1..Len(p.payload) : ClientFrame(p)[7 + j] = p.payload[j]
  <2> DEFINE one == Bytes16(length)
             two == one \o <<0>>
             three == two \o Bytes16(p.cmd)
             four == three \o Bytes16(p.id)
             payload == p.payload
  <2>1. ClientFrame(p) = four \o payload
    BY DEF ClientFrame, Announced, length
  <2>2. one \in Seq(Byte) /\ <<0>> \in Seq(Byte)
    BY <1>3 DEF Bytes16, Byte
  <2>3. Len(one) = 2 /\ one[1] = head[1] /\ one[2] = head[2]
    BY DEF Bytes16
  <2>4. Len(<<0>>) = 1 /\ <<0>>[1] = head[3] /\ head[3] = 0
    OBVIOUS
  <2>5. Bytes16(p.cmd) \in Seq(Byte) /\ Bytes16(p.id) \in Seq(Byte)
    BY <1>4, <1>5 DEF Bytes16
  <2>6. /\ Len(Bytes16(p.cmd)) = 2
        /\ Bytes16(p.cmd)[1] = head[4] /\ Bytes16(p.cmd)[2] = head[5]
    BY DEF Bytes16
  <2>7. /\ Len(Bytes16(p.id)) = 2
        /\ Bytes16(p.id)[1] = head[6] /\ Bytes16(p.id)[2] = head[7]
    BY DEF Bytes16
  <2>8. payload \in Seq(Byte) /\ Len(payload) \in Nat
    BY <1>1
  <2> HIDE DEF head, one, payload
  <2>a. two \in Seq(Byte)
    BY <2>2
  <2>9. /\ Len(two) = Len(one) + Len(<<0>>)
        /\ \A i \in 1..Len(one) : two[i] = one[i]
        /\ \A j \in 1..Len(<<0>>) : two[Len(one) + j] = <<0>>[j]
    BY <2>2, Joined
  <2> HIDE DEF two
  <2>b. three \in Seq(Byte)
    BY <2>a, <2>5
  <2>10. /\ Len(three) = Len(two) + Len(Bytes16(p.cmd))
         /\ \A i \in 1..Len(two) : three[i] = two[i]
         /\ \A j \in 1..Len(Bytes16(p.cmd)) : three[Len(two) + j] = Bytes16(p.cmd)[j]
    BY <2>a, <2>5, Joined
  <2> HIDE DEF three
  <2>c. four \in Seq(Byte)
    BY <2>b, <2>5
  <2>11. /\ Len(four) = Len(three) + Len(Bytes16(p.id))
         /\ \A i \in 1..Len(three) : four[i] = three[i]
         /\ \A j \in 1..Len(Bytes16(p.id)) : four[Len(three) + j] = Bytes16(p.id)[j]
    BY <2>b, <2>5, Joined
  <2> HIDE DEF four
  <2>12. /\ four \o payload \in Seq(Byte) /\ Len(four \o payload) = Len(four) + Len(payload)
         /\ \A i \in 1..Len(four) : (four \o payload)[i] = four[i]
         /\ \A j \in 1..Len(payload) : (four \o payload)[Len(four) + j] = payload[j]
    BY <2>8, <2>c, Joined
  <2>13. Len(two) = 3 /\ two[1] = head[1] /\ two[2] = head[2] /\ two[3] = head[3]
    BY <2>3, <2>4, <2>9
  <2>14. Len(three) = 5 /\ \A i \in 1..5 : three[i] = head[i]
    BY <2>6, <2>10, <2>13
  <2>15. Len(four) = 7 /\ \A i \in 1..7 : four[i] = head[i]
    BY <2>7, <2>11, <2>14
  <2> QED BY <2>1, <2>12, <2>15 DEF payload
<1>9. /\ U16(ClientFrame(p), 1) = length /\ ClientFrame(p)[3] = 0
      /\ ClientFrame(p)[4] # 0 /\ U16(ClientFrame(p), 4) = p.cmd
      /\ U16(ClientFrame(p), 6) = p.id
  BY <1>3, <1>4, <1>5, <1>6 DEF U16
<1> QED BY <1>1, <1>6, <1>9 DEF length

-----------------------------------------------------------------------------
(* The type invariant *)

\* U16 of two bytes that are there.
LEMMA U16Type ==
    ASSUME NEW bytes \in Seq(Byte), NEW i \in Nat \ {0}, i < Len(bytes)
    PROVE  U16(bytes, i) \in 0..(IdMod - 1)
<1>1. bytes[i] \in Byte /\ bytes[i + 1] \in Byte
  OBVIOUS
<1> DEFINE a == bytes[i]  b == bytes[i + 1]
<1>2. a * 256 + b \in 0..(IdMod - 1)
  <2> HIDE DEF a, b
  <2>1. a \in Byte /\ b \in Byte
    BY <1>1 DEF a, b
  <2>2. a \in Nat /\ b \in Nat /\ a <= 255 /\ b <= 255
    BY <2>1 DEF Byte
  <2>3. a * 256 + b < 256 * 256 /\ a * 256 + b \in Nat
    BY <2>2
  <2>4. a * 256 + b < IdMod
    BY <2>3 DEF IdMod
  <2> QED BY <2>3, <2>4, Widths
<1> QED BY <1>2 DEF U16

LEMMA DecodeType ==
    ASSUME NEW frame \in Seq(Byte), Len(frame) >= 7
    PROVE  Decode(frame) \in [cmd : 0..(IdMod - 1), id : 0..(IdMod - 1), payload : Seq(Byte)]
<1>1. SubSeq(frame, Header + 1, Len(frame)) \in Seq(Byte)
  BY DEF Header
<1>2. U16(frame, 4) \in 0..(IdMod - 1) /\ U16(frame, 6) \in 0..(IdMod - 1)
  BY U16Type
<1> QED BY <1>1, <1>2 DEF Decode

LEMMA DropType ==
    ASSUME NEW bytes \in Seq(Byte)
    PROVE  DropPadding(bytes) \in Seq(Byte)
<1>1. CASE DropPadding(bytes) = bytes
  BY <1>1
<1>2. CASE DropPadding(bytes) # bytes
  <2>1. DropPadding(bytes) = Tail(bytes) /\ Len(bytes) >= 1 + Header
    BY <1>2 DEF DropPadding, LooksLikeNext
  <2>2. bytes # <<>>
    BY <2>1 DEF Header
  <2> QED BY <2>1, <2>2
<1> QED BY <1>1, <1>2

LEMMA CutType ==
    ASSUME NEW bytes \in Seq(Byte), NEW i \in Nat, NEW j \in Nat, j <= Len(bytes)
    PROVE  SubSeq(bytes, i + 1, j) \in Seq(Byte)
OBVIOUS

LEMMA TotalType ==
    ASSUME NEW bytes \in Seq(Byte), Complete(bytes)
    PROVE  Total(bytes) \in Nat /\ Total(bytes) <= Len(bytes)
<1>1. U16(bytes, 1) \in Nat
  BY U16Type, Widths DEF Complete
<1> QED BY <1>1 DEF Complete, Total, Header

\* What the client sends.
LEMMA SentType ==
    ASSUME TypeOK, NEW cmd \in Cmd, NEW payload \in Payload, NEW padding \in Paddings
    PROVE  LET p == [cmd |-> cmd, id |-> (conn.first + Len(sent)) % IdMod, payload |-> payload]
           IN  p \in Packet /\ ClientFrame(p) \in Seq(Byte) /\ padding \in Seq(Byte)
<1> DEFINE id == (conn.first + Len(sent)) % IdMod
           p == [cmd |-> cmd, id |-> id, payload |-> payload]
<1>1. conn.first + Len(sent) \in Nat
  <2>1. conn.first \in FirstIds /\ Len(sent) \in Nat
    BY DEF TypeOK
  <2>2. conn.first \in 1..(IdMod - 1)
    BY <2>1, BytesAssumption
  <2> QED BY <2>1, <2>2, Widths
<1>2. id \in 0..(IdMod - 1)
  <2> DEFINE n == conn.first + Len(sent)
  <2>1. n \in Nat
    BY <1>1
  <2> HIDE DEF n
  <2> QED BY <2>1, Widths DEF n
<1> HIDE DEF id
<1>3. p \in Packet
  BY <1>2 DEF Packet
<1>4. ClientFrame(p) \in Seq(Byte)
  <2> HIDE DEF p
  <2> QED BY <1>3, FrameBytes
<1>5. padding \in Seq(Byte)
  <2>1. \A b \in Byte : <<b>> \in Seq(Byte)
    OBVIOUS
  <2>2. <<>> \in Seq(Byte) /\ Padding \subseteq Byte
    BY BytesAssumption
  <2> QED BY <2>1, <2>2 DEF Paddings
<1> QED BY <1>3, <1>4, <1>5 DEF id

LEMMA SplitType == TypeOK /\ Split => TypeOK'
<1> SUFFICES ASSUME TypeOK, Split PROVE TypeOK'
  OBVIOUS
<1> DEFINE bytes == DropPadding(buffer)
           frame == SubSeq(bytes, 1, Total(bytes))
<1>1. bytes \in Seq(Byte)
  BY DropType DEF TypeOK
<1>2. Complete(bytes) => /\ Total(bytes) \in Nat /\ Total(bytes) <= Len(bytes)
                         /\ frame \in Seq(Byte)
                         /\ SubSeq(bytes, Total(bytes) + 1, Len(bytes)) \in Seq(Byte)
  <2> SUFFICES ASSUME Complete(bytes)
               PROVE  /\ Total(bytes) \in Nat /\ Total(bytes) <= Len(bytes)
                      /\ frame \in Seq(Byte)
                      /\ SubSeq(bytes, Total(bytes) + 1, Len(bytes)) \in Seq(Byte)
    OBVIOUS
  <2> HIDE DEF bytes
  <2>1. Total(bytes) \in Nat /\ Total(bytes) <= Len(bytes) /\ Len(bytes) \in Nat
    BY <1>1, TotalType
  <2> DEFINE total == Total(bytes)
  <2> HIDE DEF total
  <2>2. total \in Nat /\ total <= Len(bytes) /\ Len(bytes) \in Nat
    BY <2>1 DEF total
  <2>3. SubSeq(bytes, 1, total) \in Seq(Byte) /\ SubSeq(bytes, total + 1, Len(bytes)) \in Seq(Byte)
    BY <1>1, <2>2
  <2> QED BY <2>1, <2>3 DEF total
<1>3. UNCHANGED <<conn, sent, wire>>
  BY DEF Split
<1>4. CASE ~Complete(bytes)
  <2>1. buffer' = bytes /\ pc' = "read" /\ UNCHANGED <<previous, parsed>>
    BY <1>4 DEF Split
  <2>2. ~Complete(buffer)'
    BY <1>4, <2>1 DEF Complete, Total, U16
  <2> HIDE DEF bytes
  <2> QED BY <1>1, <1>3, <2>1, <2>2 DEF TypeOK
<1>5. CASE Complete(bytes) /\ FrameOk(frame)
  <2>1. /\ buffer' = SubSeq(bytes, Total(bytes) + 1, Len(bytes))
        /\ parsed' = Append(parsed, Decode(frame))
        /\ previous' = Remembered(Decode(frame).id)
        /\ pc' \in {"split", "broken"}
    BY <1>5 DEF Split
  <2> HIDE DEF bytes, frame
  <2>2. Decode(frame) \in [cmd : 0..(IdMod - 1), id : 0..(IdMod - 1), payload : Seq(Byte)]
    BY <1>2, <1>5, DecodeType DEF FrameOk, Header
  <2>3. previous' \in 0..IdMod
    BY <2>1, <2>2, Widths DEF Remembered, TypeOK
  <2>4. parsed' \in Seq([cmd : 0..(IdMod - 1), id : 0..(IdMod - 1), payload : Seq(Byte)])
    BY <2>1, <2>2 DEF TypeOK
  <2> QED BY <1>2, <1>3, <1>5, <2>1, <2>3, <2>4 DEF TypeOK
<1>6. CASE Complete(bytes) /\ ~FrameOk(frame)
  BY <1>2, <1>3, <1>6 DEF Split, TypeOK
<1> QED BY <1>4, <1>5, <1>6

LEMMA InitType == Init => TypeOK
BY BytesAssumption, Widths DEF Init, TypeOK, NoId, Complete

LEMMA TypeStep == TypeOK /\ [Next]_vars => TypeOK'
<1> SUFFICES ASSUME TypeOK, [Next]_vars PROVE TypeOK'
  OBVIOUS
<1>1. ASSUME NEW cmd \in Cmd, NEW payload \in Payload, NEW padding \in Paddings,
             Send(cmd, payload, padding)
      PROVE  TypeOK'
  <2> DEFINE p == [cmd |-> cmd, id |-> (conn.first + Len(sent)) % IdMod, payload |-> payload]
  <2>1. p \in Packet /\ ClientFrame(p) \in Seq(Byte) /\ padding \in Seq(Byte)
    BY SentType
  <2>2. /\ sent' = Append(sent, p) /\ Len(sent) < MaxPackets
        /\ wire' = wire \o ClientFrame(p) \o padding
        /\ UNCHANGED <<conn, buffer, previous, parsed, pc>>
    BY <1>1 DEF Send
  <2> HIDE DEF p
  <2>3. sent' \in Seq(Packet) /\ Len(sent') <= MaxPackets
    BY <2>1, <2>2, BytesAssumption DEF TypeOK
  <2>4. wire' \in Seq(Byte)
    BY <2>1, <2>2 DEF TypeOK
  <2> QED BY <2>2, <2>3, <2>4 DEF TypeOK, Complete, Total, U16
<1>2. ASSUME NEW n \in 1..Len(wire), Read(n) PROVE TypeOK'
  <2>1. buffer' \in Seq(Byte) /\ wire' \in Seq(Byte)
    <3>1. SubSeq(wire, 1, n) \in Seq(Byte) /\ SubSeq(wire, n + 1, Len(wire)) \in Seq(Byte)
      BY DEF TypeOK
    <3> QED BY <1>2, <3>1 DEF Read, TypeOK
  <2> QED BY <1>2, <2>1 DEF Read, TypeOK
<1>3. CASE EndOfStream \/ ReadFails \/ Over \/ UNCHANGED vars
  BY <1>3 DEF EndOfStream, ReadFails, Over, vars, TypeOK, Complete, Total, U16
<1>4. CASE Split
  BY <1>4, SplitType
<1> QED BY <1>1, <1>2, <1>3, <1>4 DEF Next, Client, Server

\* The type invariant of PacketStream: whatever bytes a client sends, padding
\* that is taken for a length included, what is parsed is a packet.
THEOREM TypeCorrect == Spec => []TypeOK
BY InitType, TypeStep, PTL DEF Spec

-----------------------------------------------------------------------------
(* Where the frames are *)

Size(p) == Len(ClientFrame(p))

\* Only after such a packet the client may send padding.
Padded(p) == p.payload = <<>> /\ p.id # 0

\* at[k] is the place of the k-th frame among all bytes ever sent, and the last
\* entry that of the byte to come.
Laid(packets, at) ==
    /\ at \in [1..Len(packets) + 1 -> Nat \ {0}] /\ at[1] = 1
    /\ \A k \in 1..Len(packets) :
          \/ at[k + 1] = at[k] + Size(packets[k])
          \/ at[k + 1] = at[k] + Size(packets[k]) + 1 /\ Padded(packets[k])
    /\ \A j, k \in 1..Len(packets) + 1 :
          j < k => at[j] + Size(packets[j]) <= at[k]

\* The first o bytes are the first n frames and nothing of the next.
Between(packets, at, n, o) ==
    /\ o + 1 <= at[n + 1] /\ (n = 0 => o = 0)
    /\ n > 0 => at[n] + Size(packets[n]) <= o + 1

\* The bytes after them are the frames after the n-th, with padding.
Held(packets, at, bytes, n, o) ==
    /\ Between(packets, at, n, o)
    /\ at[Len(packets) + 1] = o + Len(bytes) + 1
    /\ \A k \in n + 1..Len(packets) :
          \A j \in 1..Size(packets[k]) :
             bytes[at[k] - o + j - 1] = ClientFrame(packets[k])[j]
    /\ \A k \in 1..Len(packets) :
          at[k] + Size(packets[k]) < at[k + 1] /\ o < at[k] + Size(packets[k]) =>
             bytes[at[k] + Size(packets[k]) - o] \in Padding

LEMMA SizeIs ==
    ASSUME NEW p \in Packet
    PROVE  Size(p) \in Nat /\ Size(p) = 7 + Len(p.payload) /\ Len(p.payload) \in Nat
BY FrameBytes DEF Size

LEMMA Places ==
    ASSUME NEW packets \in Seq(Packet), NEW at, Laid(packets, at)
    PROVE  /\ Len(packets) \in Nat
           /\ \A k \in 1..Len(packets) : Size(packets[k]) \in Nat
           /\ \A k \in 1..Len(packets) + 1 :
                 at[k] \in Nat \ {0} /\ at[k] <= at[Len(packets) + 1]
           /\ \A k \in 1..Len(packets) : at[k] + Size(packets[k]) <= at[Len(packets) + 1]
           /\ \A j, k \in 1..Len(packets) + 1 :
                 j < k => at[j] + Size(packets[j]) <= at[k] /\ at[j] <= at[k]
<1>1. Len(packets) \in Nat /\ \A k \in 1..Len(packets) : packets[k] \in Packet
  OBVIOUS
<1>2. \A k \in 1..Len(packets) : Size(packets[k]) \in Nat
  BY <1>1, SizeIs
<1>3. \A k \in 1..Len(packets) + 1 : at[k] \in Nat \ {0}
  BY DEF Laid
<1>4. \A j, k \in 1..Len(packets) + 1 : j < k => at[j] + Size(packets[j]) <= at[k]
  BY DEF Laid
<1> DEFINE m == Len(packets)
<1> HIDE DEF m
<1>5. m \in Nat /\ m + 1 \in 1..m + 1
  BY <1>1 DEF m
<1>6. \A j, k \in 1..m + 1 : j < k => j \in 1..m /\ at[j] <= at[k]
  BY <1>2, <1>3, <1>4, <1>5 DEF m
<1> QED BY SMTT(30), <1>1, <1>2, <1>3, <1>4, <1>5, <1>6 DEF m

\* Bytes are consumed up to a place between two frames.
LEMMA Consume ==
    ASSUME NEW packets \in Seq(Packet), NEW at, Laid(packets, at),
           NEW bytes \in Seq(Byte), NEW n \in Nat, NEW o \in Nat, Held(packets, at, bytes, n, o),
           NEW d \in 0..Len(bytes), NEW m \in {n, n + 1}, m \in 0..Len(packets),
           Between(packets, at, m, o + d)
    PROVE  Held(packets, at, SubSeq(bytes, d + 1, Len(bytes)), m, o + d)
<1> DEFINE rest == SubSeq(bytes, d + 1, Len(bytes))
           count == Len(packets)
           length == Len(bytes)
<1>1. count \in Nat /\ length \in Nat /\ m \in 0..count /\ d \in Nat /\ d <= length
  OBVIOUS
<1>2. rest \in Seq(Byte) /\ Len(rest) = length - d
      /\ \A i \in 1..length - d : rest[i] = bytes[i + d]
  OBVIOUS
<1>3. at[count + 1] = o + length + 1
  BY DEF Held
<1>4. o + d + 1 <= at[m + 1]
  BY DEF Between
<1> HIDE DEF rest, count, length
<1>5. ASSUME NEW k \in m + 1..count, NEW j \in 1..Size(packets[k])
      PROVE  rest[at[k] - (o + d) + j - 1] = ClientFrame(packets[k])[j]
  <2>1. k \in n + 1..count /\ k \in 1..count /\ m + 1 \in 1..count + 1
    BY <1>1
  <2>2. bytes[at[k] - o + j - 1] = ClientFrame(packets[k])[j]
    BY <2>1 DEF Held, count
  <2> DEFINE a == at[k]  s == Size(packets[k])  e == at[count + 1]
  <2>3. a \in Nat /\ s \in Nat /\ e \in Nat /\ a + s <= e /\ at[m + 1] <= a /\ at[m + 1] \in Nat
    <3>1. at[m + 1] <= a
      <4>1. CASE k = m + 1
        BY <4>1, <2>1, Places DEF count
      <4>2. CASE m + 1 < k
        BY SMTT(30), <4>2, <2>1, Places DEF count
      <4> QED BY <1>1, <4>1, <4>2
    <3> QED BY SMTT(30), <2>1, <3>1, Places DEF count
  <2> DEFINE i == a - (o + d) + j - 1
  <2>4. j \in 1..s /\ e = o + length + 1
    BY <1>3
  <2> HIDE DEF a, s, e
  <2>5. i \in 1..length - d /\ i + d = a - o + j - 1
    BY <1>1, <1>4, <2>3, <2>4
  <2> HIDE DEF i
  <2>6. rest[i] = bytes[i + d]
    BY <1>2, <2>5
  <2> QED BY <2>2, <2>5, <2>6 DEF i, a
<1>6. ASSUME NEW k \in 1..count, at[k] + Size(packets[k]) < at[k + 1],
             o + d < at[k] + Size(packets[k])
      PROVE  rest[at[k] + Size(packets[k]) - (o + d)] \in Padding
  <2> DEFINE a == at[k]  s == Size(packets[k])  e == at[count + 1]
  <2>1. a \in Nat /\ s \in Nat /\ e \in Nat /\ at[k + 1] \in Nat /\ at[k + 1] <= e
    <3>1. k + 1 \in 1..count + 1 /\ count + 1 \in 1..count + 1
      BY <1>1
    <3> QED BY SMTT(30), <1>1, <3>1, Places DEF count
  <2>2. a + s < at[k + 1] /\ o + d < a + s /\ e = o + length + 1
    BY <1>3, <1>6
  <2>3. o < a + s
    <3> HIDE DEF a, s
    <3> QED BY <1>1, <2>1, <2>2
  <2>4. bytes[a + s - o] \in Padding
    BY <2>2, <2>3 DEF Held, count
  <2> DEFINE i == a + s - (o + d)
  <2> HIDE DEF a, s, e
  <2>5. i \in 1..length - d /\ i + d = a + s - o
    BY <1>1, <2>1, <2>2
  <2> HIDE DEF i
  <2>6. rest[i] = bytes[i + d]
    BY <1>2, <2>5
  <2> QED BY <2>4, <2>5, <2>6 DEF i, a, s
<1>7. at[count + 1] = (o + d) + Len(rest) + 1
  BY <1>1, <1>2, <1>3
<1> QED BY <1>5, <1>6, <1>7 DEF Held, rest, count, length

\* Bytes are sent: another frame and perhaps a padding byte.
Extended(packets, at, p, padding) ==
    [k \in 1..Len(packets) + 2 |->
        IF k = Len(packets) + 2 THEN at[Len(packets) + 1] + Size(p) + Len(padding) ELSE at[k]]

LEMMA PaddingIs ==
    ASSUME NEW padding \in Paddings
    PROVE  /\ padding \in Seq(Byte)
           /\ Len(padding) = 0 \/ (Len(padding) = 1 /\ padding # <<>> /\ padding[1] \in Padding)
<1>1. Padding \subseteq Byte
  BY BytesAssumption
<1>2. \A b \in Byte : <<b>> \in Seq(Byte) /\ Len(<<b>>) = 1 /\ <<b>>[1] = b /\ <<b>> # <<>>
  OBVIOUS
<1>3. <<>> \in Seq(Byte) /\ Len(<<>>) = 0
  OBVIOUS
<1>4. CASE padding = <<>>
  BY <1>3, <1>4
<1>5. CASE padding # <<>>
  <2>1. PICK b \in Padding : padding = <<b>>
    BY <1>5 DEF Paddings
  <2> QED BY <1>1, <1>2, <2>1
<1> QED BY <1>4, <1>5

LEMMA Extend ==
    ASSUME NEW packets \in Seq(Packet), NEW at, Laid(packets, at),
           NEW bytes \in Seq(Byte), NEW n \in 0..Len(packets), NEW o \in Nat,
           Held(packets, at, bytes, n, o),
           NEW p \in Packet, NEW padding \in Paddings, padding = <<>> \/ Padded(p)
    PROVE  /\ Laid(Append(packets, p), Extended(packets, at, p, padding))
           /\ Held(Append(packets, p), Extended(packets, at, p, padding),
                  bytes \o ClientFrame(p) \o padding, n, o)
<1> DEFINE count == Len(packets)
           length == Len(bytes)
           new == Append(packets, p)
           to == Extended(packets, at, p, padding)
           frame == ClientFrame(p)
           s == Size(p)
           pad == Len(padding)
           all == bytes \o frame \o padding
           e == at[count + 1]
<1>1. count \in Nat /\ length \in Nat /\ n \in 0..count
  OBVIOUS
<1>2. /\ new \in Seq(Packet) /\ Len(new) = count + 1 /\ new[count + 1] = p
      /\ \A k \in 1..count : new[k] = packets[k]
  OBVIOUS
<1>3. frame \in Seq(Byte) /\ Len(frame) = s /\ s \in Nat /\ s > 0
  BY SizeIs, FrameBytes DEF Size
<1>4. padding \in Seq(Byte) /\ pad \in {0, 1}
      /\ (pad = 1 => padding[1] \in Padding /\ Padded(p))
  BY PaddingIs
<1>5. /\ all \in Seq(Byte) /\ Len(all) = length + s + pad
      /\ \A i \in 1..length : all[i] = bytes[i]
      /\ \A j \in 1..s : all[length + j] = frame[j]
      /\ pad = 1 => all[length + s + 1] = padding[1]
  <2> DEFINE most == bytes \o frame
  <2> HIDE DEF frame, s, pad
  <2>0. frame \in Seq(Byte)
    BY <1>3
  <2>1. most \in Seq(Byte)
    BY <2>0
  <2>2. /\ Len(most) = length + Len(frame)
        /\ \A i \in 1..length : most[i] = bytes[i]
        /\ \A j \in 1..Len(frame) : most[length + j] = frame[j]
    BY <2>0, Joined
  <2> HIDE DEF most
  <2>3. /\ most \o padding \in Seq(Byte) /\ Len(most \o padding) = Len(most) + Len(padding)
        /\ \A i \in 1..Len(most) : (most \o padding)[i] = most[i]
        /\ \A j \in 1..Len(padding) : (most \o padding)[Len(most) + j] = padding[j]
    BY <2>1, <1>4, Joined
  <2>4. all = most \o padding
    BY DEF most
  <2> HIDE DEF all, length
  <2>5. Len(all) = length + s + pad
    BY <1>3, <2>2, <2>3, <2>4 DEF pad
  <2>6. \A i \in 1..length : all[i] = bytes[i]
    BY <1>1, <1>3, <2>2, <2>3, <2>4
  <2>7. ASSUME NEW j \in 1..s PROVE all[length + j] = frame[j]
    <3>1. most[length + j] = frame[j]
      BY <1>3, <2>2
    <3>2. length + j \in 1..Len(most)
      <4> HIDE DEF frame, most
      <4> QED BY <1>1, <1>3, <2>2
    <3> QED BY <2>3, <2>4, <3>1, <3>2
  <2>8. pad = 1 => all[length + s + 1] = padding[1]
    BY <1>1, <1>3, <2>2, <2>3, <2>4 DEF pad
  <2> QED BY <2>3, <2>4, <2>5, <2>6, <2>7, <2>8
<1>6. e = o + length + 1 /\ e \in Nat \ {0}
  BY <1>1, Places DEF Held
<1>7. /\ to \in [1..count + 2 -> Nat \ {0}]
      /\ \A k \in 1..count + 1 : to[k] = at[k]
      /\ to[count + 2] = e + s + pad
  <2>1. \A k \in 1..count + 1 : at[k] \in Nat \ {0}
    BY Places
  <2> HIDE DEF e, s, pad
  <2>2. e + s + pad \in Nat \ {0}
    BY <1>3, <1>4, <1>6
  <2> DEFINE place(k) == IF k = count + 2 THEN e + s + pad ELSE at[k]
  <2>3. to = [k \in 1..count + 2 |-> place(k)]
    BY DEF Extended, e, s, pad
  <2> HIDE DEF to, count
  <2>4. ASSUME NEW k \in 1..count + 2 PROVE place(k) \in Nat \ {0}
    <3>1. k = count + 2 \/ k \in 1..count + 1
      BY <1>1
    <3> QED BY <2>1, <2>2, <3>1
  <2> QED BY SMTT(30), <1>1, <2>3, <2>4
<1> HIDE DEF count, length, new, to, frame, s, pad, all, e
<1>8. /\ \A k \in 1..count : Size(new[k]) = Size(packets[k]) /\ Size(packets[k]) \in Nat
      /\ Size(new[count + 1]) = s
  BY <1>2, Places DEF count, s
<1>9. Laid(new, to)
  <2>1. to[1] = 1
    BY <1>1, <1>7 DEF Laid
  <2>2. ASSUME NEW k \in 1..count + 1
        PROVE  \/ to[k + 1] = to[k] + Size(new[k])
               \/ to[k + 1] = to[k] + Size(new[k]) + 1 /\ Padded(new[k])
    <3>1. CASE k = count + 1
      <4>1. to[k] = e /\ to[k + 1] = e + s + pad /\ new[k] = p /\ Size(new[k]) = s
        BY <1>1, <1>2, <1>7, <1>8, <3>1 DEF e
      <4>2. pad = 0 \/ (pad = 1 /\ Padded(p))
        BY <1>4
      <4> QED BY <1>3, <1>6, <4>1, <4>2
    <3>2. CASE k # count + 1
      <4>1. k \in 1..count /\ k \in 1..count + 1 /\ k + 1 \in 1..count + 1
        BY <1>1, <3>2
      <4>2. \/ at[k + 1] = at[k] + Size(packets[k])
            \/ at[k + 1] = at[k] + Size(packets[k]) + 1 /\ Padded(packets[k])
        BY <4>1 DEF Laid, count
      <4> QED BY <1>2, <1>7, <1>8, <4>1, <4>2
    <3> QED BY <3>1, <3>2
  <2>3. ASSUME NEW j \in 1..count + 2, NEW k \in 1..count + 2, j < k
        PROVE  to[j] + Size(new[j]) <= to[k]
    <3>1. j \in 1..count + 1
      BY <1>1, <2>3
    <3>2. CASE k # count + 2
      <4>1. j \in 1..count /\ k \in 1..count + 1
        BY <1>1, <2>3, <3>2
      <4>2. at[j] + Size(packets[j]) <= at[k]
        BY <2>3, <3>1, <4>1 DEF Laid, count
      <4> QED BY <1>7, <1>8, <3>1, <4>1, <4>2
    <3>3. CASE k = count + 2
      <4>1. CASE j = count + 1
        BY <1>3, <1>4, <1>6, <1>7, <1>8, <3>1, <3>3, <4>1 DEF e
      <4>2. CASE j # count + 1
        <5>1. j \in 1..count
          BY <1>1, <3>1, <4>2
        <5>2. at[j] + Size(packets[j]) <= e /\ at[j] \in Nat
          BY <3>1, <5>1, Places DEF count, e
        <5>3. to[j] = at[j] /\ Size(new[j]) = Size(packets[j]) /\ Size(packets[j]) \in Nat
              /\ to[k] = e + s + pad
          BY <1>7, <1>8, <3>1, <3>3, <5>1
        <5>4. pad \in Nat
          BY <1>4
        <5> QED BY SMTT(30), <1>3, <1>6, <5>2, <5>3, <5>4
      <4> QED BY <4>1, <4>2
    <3> QED BY <3>2, <3>3
  <2>4. Len(new) + 1 = count + 2 /\ Len(new) = count + 1
    BY <1>1, <1>2
  <2> QED BY <1>7, <2>1, <2>2, <2>3, <2>4 DEF Laid
<1>10. Held(new, to, all, n, o)
  <2>1. Between(new, to, n, o)
    <3>1. n + 1 \in 1..count + 1 /\ (n > 0 => n \in 1..count /\ n \in 1..count + 1)
      BY <1>1
    <3>2. Between(packets, at, n, o)
      BY DEF Held
    <3>3. to[n + 1] = at[n + 1] /\ (n > 0 => to[n] = at[n] /\ Size(new[n]) = Size(packets[n]))
      BY <1>7, <1>8, <3>1
    <3> QED BY <3>2, <3>3 DEF Between
  <2>2. to[count + 2] = o + Len(all) + 1
    BY <1>1, <1>3, <1>4, <1>5, <1>6, <1>7
  <2>3. ASSUME NEW k \in n + 1..count + 1, NEW j \in 1..Size(new[k])
        PROVE  all[to[k] - o + j - 1] = ClientFrame(new[k])[j]
    <3>1. CASE k = count + 1
      <4>1. to[k] = o + length + 1 /\ new[k] = p /\ j \in 1..s
        BY <1>1, <1>2, <1>6, <1>7, <1>8, <3>1 DEF e
      <4>2. to[k] - o + j - 1 = length + j
        BY <1>1, <1>3, <4>1
      <4> QED BY <1>5, <4>1, <4>2 DEF frame
    <3>2. CASE k # count + 1
      <4>1. k \in 1..count /\ k \in n + 1..count /\ k \in 1..count + 1
        BY <1>1, <3>2
      <4>2. to[k] = at[k] /\ new[k] = packets[k] /\ j \in 1..Size(packets[k])
        BY <1>2, <1>7, <1>8, <4>1
      <4>3. bytes[at[k] - o + j - 1] = ClientFrame(packets[k])[j]
        BY <4>1, <4>2 DEF Held, count
      <4>4. at[k] >= o + 1
        <5>1. o + 1 <= at[n + 1] /\ n + 1 \in 1..count + 1
          BY SMTT(30), <1>1 DEF Held, Between
        <5>2. n + 1 = k \/ (n + 1 < k /\ at[n + 1] <= at[k])
          <6>1. n + 1 = k \/ n + 1 < k
            BY <1>1, <4>1
          <6> QED BY <4>1, <5>1, <6>1, Places DEF count
        <5>3. at[k] \in Nat /\ at[n + 1] \in Nat
          BY <4>1, <5>1, Places DEF count
        <5> QED BY <5>1, <5>2, <5>3
      <4>5. at[k] + Size(packets[k]) <= e /\ at[k] \in Nat /\ Size(packets[k]) \in Nat
        BY <4>1, Places DEF count, e
      <4> DEFINE i == at[k] - o + j - 1
      <4>6. i \in 1..length
        <5> DEFINE a == at[k]  z == Size(packets[k])
        <5>1. a \in Nat /\ z \in Nat /\ a >= o + 1 /\ a + z <= o + length + 1 /\ j \in 1..z
          BY <1>6, <4>2, <4>4, <4>5
        <5> HIDE DEF a, z
        <5>2. a - o + j - 1 \in 1..length
          BY <1>1, <5>1
        <5> QED BY <5>2 DEF a
      <4> HIDE DEF i
      <4>7. all[i] = bytes[i]
        BY <1>5, <4>6
      <4> QED BY <4>2, <4>3, <4>7 DEF i
    <3> QED BY <3>1, <3>2
  <2>4. ASSUME NEW k \in 1..count + 1, to[k] + Size(new[k]) < to[k + 1],
               o < to[k] + Size(new[k])
        PROVE  all[to[k] + Size(new[k]) - o] \in Padding
    <3>1. CASE k = count + 1
      <4>1. to[k] = e /\ Size(new[k]) = s /\ to[k + 1] = e + s + pad
        BY <1>1, <1>7, <1>8, <3>1 DEF e
      <4>2. pad = 1
        BY <1>3, <1>4, <1>6, <2>4, <4>1
      <4>3. to[k] + Size(new[k]) - o = length + s + 1
        BY <1>1, <1>3, <1>6, <4>1
      <4> QED BY <1>4, <1>5, <4>2, <4>3
    <3>2. CASE k # count + 1
      <4>1. k \in 1..count /\ k \in 1..count + 1 /\ k + 1 \in 1..count + 1
        BY <1>1, <3>2
      <4>2. to[k] = at[k] /\ Size(new[k]) = Size(packets[k]) /\ to[k + 1] = at[k + 1]
        BY <1>7, <1>8, <4>1
      <4>3. bytes[at[k] + Size(packets[k]) - o] \in Padding
        BY <2>4, <4>1, <4>2 DEF Held, count
      <4>4. at[k + 1] <= e /\ at[k] \in Nat /\ Size(packets[k]) \in Nat /\ at[k + 1] \in Nat
        BY <4>1, Places DEF count, e
      <4> DEFINE i == at[k] + Size(packets[k]) - o
      <4>5. i \in 1..length
        <5> DEFINE a == at[k]  z == Size(packets[k])  b == at[k + 1]
        <5>1. a \in Nat /\ z \in Nat /\ b \in Nat
              /\ o < a + z /\ a + z < b /\ b <= o + length + 1
          BY <1>6, <2>4, <4>2, <4>4
        <5> HIDE DEF a, z, b
        <5>2. a + z - o \in 1..length
          BY <1>1, <5>1
        <5> QED BY <5>2 DEF a, z
      <4> HIDE DEF i
      <4>6. all[i] = bytes[i]
        BY <1>5, <4>5
      <4> QED BY <4>2, <4>3, <4>6 DEF i
    <3> QED BY <3>1, <3>2
  <2>5. Len(new) = count + 1
    BY <1>2
  <2>6. count + 1 + 1 = count + 2
    BY <1>1
  <2> QED BY <2>1, <2>2, <2>3, <2>4, <2>5, <2>6 DEF Held
<1> QED BY <1>9, <1>10 DEF new, to, all, frame

-----------------------------------------------------------------------------
(* What the server finds at the front of its buffer *)

LEMMA Lead ==
    ASSUME NEW packets \in Seq(Packet), NEW at, Laid(packets, at),
           NEW bytes \in Seq(Byte), NEW n \in 0..Len(packets), NEW o \in Nat,
           Held(packets, at, bytes, n, o)
    PROVE  \/ at[n + 1] = o + 1
           \/ /\ n \in 1..Len(packets) /\ at[n + 1] = o + 2
              /\ Padded(packets[n]) /\ bytes[1] \in Padding
<1>1. Between(packets, at, n, o)
  BY DEF Held
<1>2. CASE n = 0
  BY <1>1, <1>2 DEF Between, Laid
<1>3. CASE n # 0
  <2>1. n \in 1..Len(packets) /\ n \in 1..Len(packets) + 1 /\ n + 1 \in 1..Len(packets) + 1
    BY <1>3
  <2> DEFINE a == at[n]  s == Size(packets[n])  b == at[n + 1]
  <2>2. a \in Nat /\ s \in Nat /\ b \in Nat
    BY <2>1, Places
  <2>3. b = a + s \/ (b = a + s + 1 /\ Padded(packets[n]))
    BY <2>1 DEF Laid
  <2>4. a + s <= o + 1 /\ o + 1 <= b
    BY <1>1, <1>3, <2>1 DEF Between
  <2>5. a + s < b /\ o < a + s => bytes[a + s - o] \in Padding
    BY <2>1 DEF Held
  <2> HIDE DEF a, s, b
  <2>6. b = o + 1 \/ (b = o + 2 /\ a + s = o + 1 /\ Padded(packets[n]))
    BY <2>2, <2>3, <2>4
  <2>7. b = o + 2 /\ a + s = o + 1 => bytes[1] \in Padding
    <3>1. a + s = o + 1 => a + s - o = 1 /\ o < a + s
      BY <2>2
    <3>2. b = o + 2 /\ a + s = o + 1 => a + s < b
      BY <2>2
    <3> QED BY <2>5, <3>1, <3>2
  <2> QED BY <2>1, <2>6, <2>7 DEF b
<1> QED BY <1>2, <1>3

\* The next frame follows the padding byte, if one is there.
LEMMA NextFrame ==
    ASSUME NEW packets \in Seq(Packet), NEW at, Laid(packets, at),
           NEW bytes \in Seq(Byte), NEW n \in 0..Len(packets), NEW o \in Nat,
           Held(packets, at, bytes, n, o), NEW d \in {0, 1}, at[n + 1] = o + 1 + d,
           Len(bytes) > d
    PROVE  /\ n + 1 \in 1..Len(packets) /\ packets[n + 1] \in Packet
           /\ \A j \in 1..Size(packets[n + 1]) : bytes[d + j] = ClientFrame(packets[n + 1])[j]
<1> DEFINE count == Len(packets)
           length == Len(bytes)
<1>1. count \in Nat /\ length \in Nat /\ n \in 0..count /\ length > d
  OBVIOUS
<1>2. at[count + 1] = o + length + 1
  BY DEF Held
<1> HIDE DEF count, length
<1>3. n # count
  BY <1>1, <1>2
<1>4. n + 1 \in n + 1..count /\ n + 1 \in 1..count
  BY <1>1, <1>3
<1>5. \A j \in 1..Size(packets[n + 1]) :
         bytes[at[n + 1] - o + j - 1] = ClientFrame(packets[n + 1])[j]
  BY <1>4 DEF Held, count
<1>6. Size(packets[n + 1]) \in Nat
  BY <1>4, Places DEF count
<1>7. \A j \in 1..Size(packets[n + 1]) : at[n + 1] - o + j - 1 = d + j
  BY <1>6
<1>8. packets[n + 1] \in Packet
  BY <1>4 DEF count
<1> QED BY <1>4, <1>5, <1>7, <1>8 DEF count

\* Frames that are in front are left alone.
LEMMA FrameStays ==
    ASSUME NEW bytes \in Seq(Byte), Len(bytes) >= 8 => bytes[4] # 0
    PROVE  DropPadding(bytes) = bytes
<1>1. ~ LooksLikeNext(bytes, 1)
  BY DEF LooksLikeNext, Header
<1> QED BY <1>1 DEF DropPadding

\* A padding byte is dropped as soon as the header after it is there.
LEMMA PaddingGoes ==
    ASSUME NEW bytes \in Seq(Byte), Len(bytes) >= 8, NEW p \in Packet,
           \A j \in 1..7 : bytes[1 + j] = ClientFrame(p)[j],
           previous \in 0..(IdMod - 1), p.id = (previous + 1) % IdMod
    PROVE  DropPadding(bytes) = Tail(bytes)
<1> DEFINE frame == ClientFrame(p)
<1>1. /\ bytes[2] = frame[1] /\ bytes[3] = frame[2] /\ bytes[4] = frame[3]
      /\ bytes[5] = frame[4] /\ bytes[6] = frame[5] /\ bytes[7] = frame[6] /\ bytes[8] = frame[7]
  <2>1. /\ bytes[1 + 1] = frame[1] /\ bytes[1 + 2] = frame[2] /\ bytes[1 + 3] = frame[3]
        /\ bytes[1 + 4] = frame[4] /\ bytes[1 + 5] = frame[5] /\ bytes[1 + 6] = frame[6]
        /\ bytes[1 + 7] = frame[7]
    OBVIOUS
  <2> QED BY <2>1
<1>2. /\ U16(frame, 1) = Announced(p.payload) /\ frame[3] = 0
      /\ U16(frame, 4) = p.cmd /\ U16(frame, 6) = p.id
  BY FrameBytes
<1>3. frame[4] \in Byte
  <2>1. frame \in Seq(Byte) /\ Len(frame) >= 7
    BY SMTT(30), FrameBytes
  <2> HIDE DEF frame
  <2> QED BY <2>1
<1>4. Announced(p.payload) >= 5 /\ p.cmd >= MinCmd
  BY PacketBytes DEF Announced
<1> HIDE DEF frame
<1>5. LooksLikeNext(bytes, 1)
  <2>1. U16(bytes, 2) = U16(frame, 1) /\ U16(bytes, 5) = U16(frame, 4) /\ U16(bytes, 7) = U16(frame, 6)
    BY <1>1 DEF U16
  <2>2. U16(bytes, 1 + 1) >= 5 /\ U16(bytes, 1 + 4) >= MinCmd
        /\ U16(bytes, 1 + 6) = (previous + 1) % IdMod
    BY <1>2, <1>4, <2>1
  <2>3. bytes[1 + 3] = 0 /\ Len(bytes) >= 1 + Header
    BY <1>1, <1>2 DEF Header
  <2> QED BY <2>2, <2>3 DEF LooksLikeNext
<1>6. ~ LooksLikeNext(bytes, 0)
  <2> DEFINE b == frame[4]
  <2>1. b \in Nat /\ b < MinCmd /\ MinCmd \in Nat
    <3>1. \A n \in Byte : n \in Nat
      BY DEF Byte
    <3> QED BY <1>3, <3>1, Widths
  <2>2. U16(bytes, 0 + 4) = bytes[4] * 256 + bytes[5] /\ bytes[4] = 0 /\ bytes[5] = b
    BY <1>1, <1>2 DEF U16
  <2> HIDE DEF b
  <2>3. U16(bytes, 0 + 4) = b
    <3>1. U16(bytes, 0 + 4) = 0 * 256 + b
      BY <2>2
    <3> QED BY <2>1, <3>1
  <2>4. ~ (U16(bytes, 0 + 4) >= MinCmd)
    BY <2>1, <2>3
  <2> QED BY <2>4 DEF LooksLikeNext
<1>7. previous # NoId
  BY Widths DEF NoId
<1> QED BY <1>5, <1>6, <1>7 DEF DropPadding

\* Until then it is taken for the start of a length that never comes.
LEMMA PaddingWaits ==
    ASSUME NEW bytes \in Seq(Byte), Len(bytes) < 8,
           Len(bytes) > 0 => bytes[1] \in Padding, 0 \notin Padding
    PROVE  DropPadding(bytes) = bytes /\ ~ Complete(bytes)
<1>1. ~ LooksLikeNext(bytes, 1)
  BY DEF LooksLikeNext, Header
<1>2. DropPadding(bytes) = bytes
  BY <1>1 DEF DropPadding
<1>3. ASSUME Complete(bytes) PROVE FALSE
  <2>1. bytes[1] \in Byte /\ bytes[2] \in Byte /\ bytes[1] # 0
    <3>1. Len(bytes) >= 2
      BY <1>3 DEF Complete
    <3> QED BY <3>1
  <2>2. U16(bytes, 1) >= 256 /\ U16(bytes, 1) \in Nat
    <3> DEFINE a == bytes[1]  b == bytes[2]
    <3>0. a \in Byte /\ b \in Byte /\ a # 0
      BY <2>1
    <3> HIDE DEF a, b
    <3>1. a \in Nat /\ b \in Nat /\ a >= 1
      BY <3>0 DEF Byte
    <3>2. a * 256 + b >= 256 /\ a * 256 + b \in Nat
      BY <3>1
    <3> QED BY <3>2 DEF U16, a, b
  <2>3. Total(bytes) = U16(bytes, 1) + 2
    BY <2>2 DEF Total
  <2> QED BY <1>3, <2>2, <2>3 DEF Complete
<1> QED BY <1>2, <1>3

\* A complete frame in front is cut and decoded as it was sent.
LEMMA FrameParsed ==
    ASSUME NEW bytes \in Seq(Byte), NEW p \in Packet, Complete(bytes),
           \A j \in 1..Size(p) : j <= Len(bytes) => bytes[j] = ClientFrame(p)[j]
    PROVE  /\ Total(bytes) = Size(p) /\ Size(p) \in 1..Len(bytes)
           /\ FrameOk(SubSeq(bytes, 1, Total(bytes)))
           /\ Decode(SubSeq(bytes, 1, Total(bytes))) = p
<1> DEFINE frame == ClientFrame(p)
           s == Size(p)
<1>1. /\ frame \in Seq(Byte) /\ Len(frame) = s /\ s = 7 + Len(p.payload) /\ Len(p.payload) \in Nat
      /\ U16(frame, 1) = Announced(p.payload)
      /\ U16(frame, 4) = p.cmd /\ U16(frame, 6) = p.id
      /\ \A j \in 1..Len(p.payload) : frame[7 + j] = p.payload[j]
  BY FrameBytes DEF Size
<1>2. Len(bytes) >= 2 /\ Len(bytes) \in Nat
  BY DEF Complete
<1>3. bytes[1] = frame[1] /\ bytes[2] = frame[2]
  <2>1. 1 \in 1..s /\ 2 \in 1..s
    BY <1>1
  <2> QED BY <1>2, <2>1
<1> HIDE DEF frame, s
<1>4. Total(bytes) = s
  <2>1. U16(bytes, 1) = Announced(p.payload)
    BY <1>1, <1>3 DEF U16
  <2>2. p.payload = <<>> => Len(p.payload) = 0
    OBVIOUS
  <2>3. p.payload # <<>> => Len(p.payload) >= 2
    <3> DEFINE payload == p.payload
    <3>1. payload \in Seq(Byte) /\ Len(payload) \in Nat \ {1}
      BY PacketBytes
    <3> HIDE DEF payload
    <3>2. payload # <<>> => Len(payload) # 0
      BY <3>1
    <3>3. \A n \in Nat \ {1} : n # 0 => n >= 2
      OBVIOUS
    <3>4. ASSUME payload # <<>> PROVE Len(payload) >= 2
      <4>1. Len(payload) \in Nat \ {1} /\ Len(payload) # 0
        BY <3>1, <3>2, <3>4
      <4> QED BY <3>3, <4>1
    <3> QED BY <3>4 DEF payload
  <2> QED BY <1>1, <2>1, <2>2, <2>3 DEF Total, Announced, Header
<1>5. s \in 1..Len(bytes)
  BY <1>1, <1>2, <1>4 DEF Complete
<1>6. SubSeq(bytes, 1, s) = frame
  <2>1. /\ SubSeq(bytes, 1, s) \in Seq(Byte) /\ Len(SubSeq(bytes, 1, s)) = s
        /\ \A j \in 1..s : SubSeq(bytes, 1, s)[j] = bytes[j]
    BY <1>5
  <2>2. \A j \in 1..s : bytes[j] = frame[j]
    BY <1>5 DEF frame, s
  <2> DEFINE cut == SubSeq(bytes, 1, s)
  <2> HIDE DEF cut
  <2>3. cut \in Seq(Byte) /\ Len(cut) = Len(frame) /\ \A j \in 1..Len(cut) : cut[j] = frame[j]
    BY <1>1, <2>1, <2>2 DEF cut
  <2>4. cut = frame
    BY <1>1, <2>3, SeqEqual
  <2> QED BY <2>4 DEF cut
<1>7. FrameOk(frame)
  BY <1>1 DEF FrameOk, Header
<1>8. Decode(frame) = p
  <2> DEFINE tail == SubSeq(frame, 8, Len(frame))
             payload == p.payload
  <2>1. payload \in Seq(Byte)
    BY PacketBytes
  <2>2. tail \in Seq(Byte) /\ Len(tail) = Len(payload)
        /\ \A j \in 1..Len(payload) : tail[j] = frame[7 + j]
    BY <1>1
  <2>3. \A j \in 1..Len(payload) : frame[7 + j] = payload[j]
    BY <1>1
  <2> HIDE DEF tail, payload
  <2>4. tail = payload
    <3>1. \A j \in 1..Len(tail) : tail[j] = payload[j]
      BY <2>2, <2>3
    <3> QED BY <2>1, <2>2, <3>1, SeqEqual
  <2>5. SubSeq(frame, Header + 1, Len(frame)) = payload
    BY <2>4 DEF tail, Header
  <2> QED BY <1>1, <2>5 DEF Decode, Packet, payload
<1> QED BY <1>4, <1>5, <1>6, <1>7, <1>8 DEF s


LEMMA Successor ==
    ASSUME NEW n \in Nat
    PROVE  (n + 1) % IdMod = ((n % IdMod) + 1) % IdMod /\ n % IdMod \in 0..(IdMod - 1)
<1>1. (n + 1) % (256 * 256) = ((n % (256 * 256)) + 1) % (256 * 256)
  OBVIOUS
<1>2. \A m \in Nat : m > 0 => n % m \in 0..(m - 1)
  OBVIOUS
<1>3. IdMod \in Nat /\ IdMod > 0
  BY Widths
<1> QED BY <1>1, <1>2, <1>3 DEF IdMod

-----------------------------------------------------------------------------
(* The inductive invariant *)

\* Ids count up, and what is sent to the dispatch server has a payload.
Numbering ==
    /\ \A k \in 1..Len(sent) : sent[k].id = (conn.first + (k - 1)) % IdMod
    /\ conn.server = "dispatch" => \A k \in 1..Len(sent) : sent[k].payload # <<>>

\* The gate knows the id of the last packet, unless it is 0.
Follows ==
    conn.server = "gate" /\ Len(parsed) > 0 /\ sent[Len(parsed)].id # 0 =>
        previous = sent[Len(parsed)].id

Prefix ==
    /\ pc # "failed"
    /\ Len(parsed) <= Len(sent)
    /\ \A i \in 1..Len(parsed) : parsed[i] = sent[i]

\* What was read and what is under way are the frames that are not parsed.
Pending ==
    \E at, o :
        o \in Nat /\ Laid(sent, at) /\ Held(sent, at, buffer \o wire, Len(parsed), o)

StreamInv == TypeOK /\ Numbering /\ Follows /\ Prefix /\ Pending

\* What drop_padding_before_next_packet leaves starts with a frame, or with a
\* padding byte behind which a header is still missing.
LEMMA Front ==
    ASSUME TypeOK, 0 \notin Padding, Numbering, Follows, Len(parsed) <= Len(sent),
           NEW at, NEW o \in Nat, Laid(sent, at),
           Held(sent, at, buffer \o wire, Len(parsed), o)
    PROVE  \E d \in 0..Len(buffer) :
              /\ DropPadding(buffer) = SubSeq(buffer, d + 1, Len(buffer))
              /\ Between(sent, at, Len(parsed), o + d)
              /\ Complete(DropPadding(buffer)) => at[Len(parsed) + 1] = o + d + 1
<1> DEFINE n == Len(parsed)
           all == buffer \o wire
           front == DropPadding(buffer)
<1>1. /\ sent \in Seq(Packet) /\ buffer \in Seq(Byte) /\ wire \in Seq(Byte)
      /\ n \in Nat /\ Len(sent) \in Nat /\ Len(buffer) \in Nat
  BY DEF TypeOK
<1>2. n \in 0..Len(sent)
  BY <1>1
<1>3. /\ all \in Seq(Byte) /\ Len(all) = Len(buffer) + Len(wire) /\ Len(wire) \in Nat
      /\ \A i \in 1..Len(buffer) : all[i] = buffer[i]
  BY <1>1, Joined
<1>4. Held(sent, at, all, n, o)
  OBVIOUS
<1>5. Between(sent, at, n, o)
  BY DEF Held
<1> HIDE DEF n, all, front
<1>5a. ASSUME NEW d \in {0, 1}, at[n + 1] = o + 1 + d, Len(all) > d
       PROVE  /\ n + 1 \in 1..Len(sent) /\ sent[n + 1] \in Packet
              /\ \A j \in 1..Size(sent[n + 1]) : all[d + j] = ClientFrame(sent[n + 1])[j]
  <2>1. sent \in Seq(Packet) /\ all \in Seq(Byte)
    BY <1>1, <1>3
  <2> QED BY <1>2, <1>4, <1>5a, <2>1, NextFrame
<1> USE DEF front
<1>6. \/ at[n + 1] = o + 1
      \/ n \in 1..Len(sent) /\ at[n + 1] = o + 2 /\ Padded(sent[n]) /\ all[1] \in Padding
  BY <1>1, <1>2, <1>3, <1>4, Lead
<1>7. buffer = SubSeq(buffer, 0 + 1, Len(buffer)) /\ o + 0 = o
  BY <1>1
<1> SUFFICES \E d \in 0..Len(buffer) :
                /\ front = SubSeq(buffer, d + 1, Len(buffer))
                /\ Between(sent, at, n, o + d)
                /\ Complete(front) => at[n + 1] = o + d + 1
  BY DEF n
<1>8. CASE at[n + 1] = o + 1
  <2>1. ASSUME Len(buffer) >= 8 PROVE buffer[4] # 0
    <3> PICK d \in {0, 1} : d = 0
      OBVIOUS
    <3>1. at[n + 1] = o + 1 + d /\ Len(all) > d
      BY <1>1, <1>3, <1>8, <2>1
    <3>2. /\ n + 1 \in 1..Len(sent) /\ sent[n + 1] \in Packet
          /\ \A j \in 1..Size(sent[n + 1]) : all[d + j] = ClientFrame(sent[n + 1])[j]
      BY <1>5a, <3>1
    <3>3. ClientFrame(sent[n + 1])[4] # 0 /\ 4 \in 1..Size(sent[n + 1])
      BY <3>2, FrameBytes, SizeIs
    <3>4. all[d + 4] = ClientFrame(sent[n + 1])[4]
      BY <3>2, <3>3
    <3>5. d + 4 = 4 /\ 4 \in 1..Len(buffer)
      BY <1>1, <2>1
    <3>6. all[4] = buffer[4]
      BY <1>3, <3>5
    <3> QED BY <3>3, <3>4, <3>5, <3>6
  <2>2. front = buffer
    BY <1>1, <2>1, FrameStays
  <2> HIDE DEF front
  <2> QED BY <1>1, <1>5, <1>7, <1>8, <2>2
<1>9. CASE n \in 1..Len(sent) /\ at[n + 1] = o + 2 /\ Padded(sent[n]) /\ all[1] \in Padding
  <2>1. CASE Len(buffer) < 8
    <3>1. Len(buffer) > 0 => buffer[1] \in Padding
      BY <1>1, <1>3, <1>9
    <3>2. front = buffer /\ ~ Complete(front)
      BY <1>1, <2>1, <3>1, PaddingWaits
    <3> HIDE DEF front
    <3> QED BY <1>1, <1>5, <1>7, <3>2
  <2>2. CASE Len(buffer) >= 8
    <3>1. at[n + 1] = o + 1 + 1 /\ Len(all) > 1
      BY <1>1, <1>3, <1>9, <2>2
    <3>2. /\ n + 1 \in 1..Len(sent) /\ sent[n + 1] \in Packet
          /\ \A j \in 1..Size(sent[n + 1]) : all[1 + j] = ClientFrame(sent[n + 1])[j]
      <4> PICK d \in {0, 1} : d = 1
        OBVIOUS
      <4>1. at[n + 1] = o + 1 + d /\ Len(all) > d
        BY <3>1
      <4>2. /\ n + 1 \in 1..Len(sent) /\ sent[n + 1] \in Packet
            /\ \A j \in 1..Size(sent[n + 1]) : all[d + j] = ClientFrame(sent[n + 1])[j]
        BY <1>5a, <4>1
      <4> QED BY <4>2
    <3>3. \A j \in 1..7 : buffer[1 + j] = ClientFrame(sent[n + 1])[j]
      <4>1. \A j \in 1..7 : j \in 1..Size(sent[n + 1])
        <5> DEFINE z == Size(sent[n + 1])
        <5>1. z \in Nat /\ z >= 7
          BY <3>2, SizeIs
        <5> HIDE DEF z
        <5>2. \A j \in 1..7 : j \in 1..z
          BY <5>1
        <5> QED BY <5>2 DEF z
      <4>2. \A j \in 1..7 : 1 + j \in 1..Len(buffer)
        BY <1>1, <2>2
      <4> QED BY <1>3, <3>2, <4>1, <4>2
    <3>4. conn.server = "gate" /\ conn.first \in Nat
      <4>1. conn.server \in {"gate", "dispatch"} /\ conn.first \in FirstIds
        BY DEF TypeOK
      <4>2. sent[n].payload = <<>>
        BY <1>9 DEF Padded
      <4>3. conn.first \in 1..(IdMod - 1)
        BY <4>1, BytesAssumption
      <4> QED BY SMTT(30), <1>9, <4>1, <4>2, <4>3, Widths DEF Numbering
    <3>5. previous = sent[n].id
      BY <1>9, <3>4 DEF Follows, Padded, n
    <3>6. sent[n].id = (conn.first + (n - 1)) % IdMod /\ sent[n + 1].id = (conn.first + n) % IdMod
      <4>1. (n + 1) - 1 = n
        BY <1>1
      <4> QED BY <1>9, <3>2, <4>1 DEF Numbering
    <3>7. previous \in 0..(IdMod - 1) /\ sent[n + 1].id = (previous + 1) % IdMod
      <4> DEFINE k == conn.first + (n - 1)
      <4>1. k \in Nat /\ k + 1 = conn.first + n
        BY <1>9, <3>4
      <4> HIDE DEF k
      <4>2. (k + 1) % IdMod = ((k % IdMod) + 1) % IdMod /\ k % IdMod \in 0..(IdMod - 1)
        BY <4>1, Successor
      <4>3. previous = k % IdMod /\ sent[n + 1].id = (k + 1) % IdMod
        BY <3>5, <3>6, <4>1 DEF k
      <4> QED BY <4>2, <4>3
    <3>8. front = Tail(buffer)
      BY <1>1, <2>2, <3>2, <3>3, <3>7, PaddingGoes
    <3>9. Tail(buffer) = SubSeq(buffer, 1 + 1, Len(buffer)) /\ 1 \in 0..Len(buffer)
      BY <1>1, <2>2
    <3>10. Between(sent, at, n, o + 1) /\ at[n + 1] = o + 1 + 1
      <4>1. n \in Nat /\ n > 0 /\ at[n] \in Nat /\ Size(sent[n]) \in Nat
        <5>1. n \in 1..Len(sent) + 1
          BY <1>9
        <5> QED BY <1>1, <1>9, <5>1, Places
      <4>2. at[n] + Size(sent[n]) <= o + 1
        BY <1>5, <4>1 DEF Between
      <4> DEFINE a == at[n]  s == Size(sent[n])
      <4>3. a + s <= o + 1 + 1
        <5>1. a \in Nat /\ s \in Nat /\ a + s <= o + 1
          BY <4>1, <4>2
        <5> HIDE DEF a, s
        <5> QED BY <5>1
      <4> HIDE DEF a, s
      <4>4. o + 1 + 1 <= at[n + 1] /\ at[n + 1] = o + 1 + 1
        BY <1>9
      <4> QED BY <4>1, <4>3, <4>4 DEF Between, a, s
    <3> HIDE DEF front
    <3> QED BY <3>8, <3>9, <3>10
  <2> QED BY <1>1, <2>1, <2>2
<1> QED BY <1>6, <1>8, <1>9


LEMMA CutJoined ==
    ASSUME NEW s \in Seq(Byte), NEW t \in Seq(Byte), NEW d \in 0..Len(s)
    PROVE  SubSeq(s \o t, d + 1, Len(s \o t)) = SubSeq(s, d + 1, Len(s)) \o t
<1> DEFINE all == s \o t
           rest == SubSeq(s, d + 1, Len(s))
           cut == SubSeq(all, d + 1, Len(all))
           m == Len(s)
           k == Len(t)
<1>1. /\ all \in Seq(Byte) /\ Len(all) = m + k /\ m \in Nat /\ k \in Nat /\ d \in 0..m
      /\ \A i \in 1..m : all[i] = s[i]
      /\ \A j \in 1..k : all[m + j] = t[j]
  BY Joined
<1>2. rest \in Seq(Byte) /\ Len(rest) = m - d /\ \A i \in 1..m - d : rest[i] = s[i + d]
  OBVIOUS
<1> HIDE DEF all, rest
<1>3. /\ rest \o t \in Seq(Byte) /\ Len(rest \o t) = Len(rest) + k
      /\ \A i \in 1..Len(rest) : (rest \o t)[i] = rest[i]
      /\ \A j \in 1..k : (rest \o t)[Len(rest) + j] = t[j]
  <2>1. rest \in Seq(Byte) /\ t \in Seq(Byte)
    BY <1>2
  <2> QED BY <2>1, Joined
<1>4. cut \in Seq(Byte) /\ Len(cut) = Len(all) - d /\ \A i \in 1..Len(all) - d : cut[i] = all[i + d]
  BY <1>1
<1> HIDE DEF cut, m, k
<1>5. Len(cut) = m + k - d /\ Len(rest \o t) = m + k - d
  BY <1>1, <1>2, <1>3, <1>4
<1>6. ASSUME NEW i \in 1..Len(cut) PROVE cut[i] = (rest \o t)[i]
  <2>1. i \in Nat \ {0} /\ i <= m + k - d /\ cut[i] = all[i + d]
    BY SMTT(30), <1>1, <1>4, <1>5
  <2>2. CASE i <= m - d
    <3>1. i \in 1..m - d /\ i + d \in 1..m /\ i \in 1..Len(rest)
      BY <1>1, <1>2, <2>1, <2>2
    <3> QED BY <1>1, <1>2, <1>3, <2>1, <3>1
  <2>3. CASE i > m - d
    <3> DEFINE j == i - (m - d)
    <3>1. j \in 1..k /\ i + d = m + j /\ i = Len(rest) + j
      BY <1>1, <1>2, <2>1, <2>3
    <3> HIDE DEF j
    <3> QED BY <1>1, <1>3, <2>1, <3>1
  <2>4. i <= m - d \/ i > m - d
    <3>1. i \in Nat /\ m \in Nat /\ d \in Nat
      BY <1>1, <2>1
    <3> HIDE DEF m
    <3> QED BY <3>1
  <2> QED BY <2>2, <2>3, <2>4
<1>7. cut = rest \o t
  BY <1>3, <1>4, <1>5, <1>6, SeqEqual
<1> QED BY <1>7 DEF cut, rest, all

LEMMA SplitInv ==
    ASSUME StreamInv, 0 \notin Padding, Split
    PROVE  Numbering' /\ Follows' /\ Prefix' /\ Pending'
<1> DEFINE n == Len(parsed)
           all == buffer \o wire
           bytes == DropPadding(buffer)
           frame == SubSeq(bytes, 1, Total(bytes))
<1>1. /\ sent \in Seq(Packet) /\ buffer \in Seq(Byte) /\ wire \in Seq(Byte)
      /\ n \in 0..Len(sent) /\ n \in Nat
  BY DEF StreamInv, TypeOK, Prefix
<1>2. UNCHANGED <<conn, sent, wire>>
  BY DEF Split
<1>3. Numbering'
  BY <1>2 DEF StreamInv, Numbering
<1>4. PICK at, o : o \in Nat /\ Laid(sent, at) /\ Held(sent, at, all, n, o)
  BY DEF StreamInv, Pending
<1>5. PICK d \in 0..Len(buffer) :
              /\ bytes = SubSeq(buffer, d + 1, Len(buffer))
              /\ Between(sent, at, n, o + d)
              /\ Complete(bytes) => at[n + 1] = o + d + 1
  <2> HIDE DEF bytes
  <2> QED BY <1>4, Front DEF StreamInv, Prefix, bytes
<1> HIDE DEF bytes
<1>6. /\ bytes \in Seq(Byte) /\ bytes \o wire \in Seq(Byte)
      /\ Held(sent, at, bytes \o wire, n, o + d)
  <2>1. bytes \in Seq(Byte) /\ bytes \o wire \in Seq(Byte)
    BY <1>1, <1>5
  <2>2. all \in Seq(Byte) /\ d \in 0..Len(all) /\ n \in {n, n + 1}
    BY <1>1, Joined
  <2>3. SubSeq(all, d + 1, Len(all)) = bytes \o wire
    BY <1>1, <1>5, CutJoined
  <2>4. Held(sent, at, SubSeq(all, d + 1, Len(all)), n, o + d)
    <3> HIDE DEF all, n
    <3> QED BY <1>1, <1>4, <1>5, <2>2, Consume
  <2> QED BY <2>1, <2>3, <2>4
<1>7. o + d \in Nat
  BY <1>4, <1>5
<1>8. CASE ~ Complete(bytes)
  <2>1. buffer' = bytes /\ pc' = "read" /\ UNCHANGED <<previous, parsed>>
    BY <1>8 DEF Split, bytes
  <2>2. Follows' /\ Prefix'
    BY <1>2, <2>1 DEF StreamInv, Follows, Prefix
  <2>3. Pending'
    BY <1>2, <1>4, <1>6, <1>7, <2>1 DEF Pending
  <2> QED BY <1>3, <2>2, <2>3
<1>9. CASE Complete(bytes)
  <2> DEFINE p == sent[n + 1]
             s == Size(p)
  <2>1. /\ n + 1 \in 1..Len(sent) /\ p \in Packet
        /\ \A j \in 1..s : (bytes \o wire)[j] = ClientFrame(p)[j]
    <3> PICK e \in {0, 1} : e = 0
      OBVIOUS
    <3> DEFINE c == o + d
               most == bytes \o wire
    <3>1. c \in Nat /\ at[n + 1] = c + 1 + e /\ Held(sent, at, most, n, c)
      BY <1>5, <1>6, <1>7, <1>9
    <3>2. most \in Seq(Byte) /\ Len(most) > e
      BY <1>1, <1>6, <1>9, Joined DEF Complete
    <3> HIDE DEF c, n, most
    <3>3. /\ n + 1 \in 1..Len(sent) /\ p \in Packet
          /\ \A j \in 1..s : most[e + j] = ClientFrame(p)[j]
      BY <1>1, <1>4, <3>1, <3>2, NextFrame
    <3>4. s \in Nat
      BY <3>3, SizeIs
    <3> HIDE DEF s
    <3>5. \A j \in 1..s : e + j = j
      BY <3>4
    <3> QED BY <3>3, <3>5 DEF most
  <2>2. /\ Total(bytes) = s /\ s \in 1..Len(bytes) /\ FrameOk(frame) /\ Decode(frame) = p
    <3>1. \A j \in 1..s : j <= Len(bytes) => bytes[j] = ClientFrame(p)[j]
      <4>1. \A j \in 1..Len(bytes) : (bytes \o wire)[j] = bytes[j]
        BY <1>1, <1>6, Joined
      <4>2. \A j \in 1..s : j <= Len(bytes) => j \in 1..Len(bytes)
        BY <1>6
      <4> QED BY <2>1, <4>1, <4>2
    <3> HIDE DEF p
    <3> QED BY <1>6, <1>9, <2>1, <3>1, FrameParsed
  <2>3. /\ buffer' = SubSeq(bytes, s + 1, Len(bytes))
        /\ parsed' = Append(parsed, p)
        /\ previous' = Remembered(p.id)
        /\ pc' \in {"split", "broken"}
    BY <1>9, <2>2 DEF Split, bytes
  <2> HIDE DEF p
  <2>4. /\ Len(parsed') = n + 1 /\ parsed'[n + 1] = p
        /\ \A i \in 1..n : parsed'[i] = parsed[i]
    <3>1. parsed \in Seq([cmd : 0..(IdMod - 1), id : 0..(IdMod - 1), payload : Seq(Byte)])
      BY DEF StreamInv, TypeOK
    <3> QED BY <2>3, <3>1
  <2>5. Follows'
    <3>1. conn'.server = "gate" /\ sent'[n + 1].id # 0 => previous' = sent'[n + 1].id
      BY <1>2, <2>3 DEF Remembered, p
    <3> QED BY <2>4, <3>1 DEF Follows
  <2>6. Prefix'
    <3>1. \A i \in 1..n + 1 : parsed'[i] = sent'[i]
      <4>1. \A i \in 1..n : parsed[i] = sent[i]
        BY DEF StreamInv, Prefix
      <4>2. \A i \in 1..n + 1 : i = n + 1 \/ i \in 1..n
        BY <1>1
      <4> QED BY <1>2, <2>4, <4>1, <4>2 DEF p
    <3>2. pc' # "failed" /\ n + 1 <= Len(sent')
      BY <1>1, <1>2, <2>1, <2>3 DEF StreamInv, Prefix
    <3> QED BY <2>4, <3>1, <3>2 DEF Prefix
  <2>7. Between(sent, at, n + 1, o + d + s)
    <3>1. /\ n + 1 \in 1..Len(sent) + 1 /\ n + 2 \in 1..Len(sent) + 1 /\ n + 1 < n + 2
          /\ n + 1 # 0 /\ n + 1 > 0 /\ n + 1 + 1 = n + 2
      BY <1>1, <2>1
    <3>2. at[n + 1] + s <= at[n + 2] /\ at[n + 2] \in Nat
      BY <1>1, <1>4, <3>1, Places DEF p
    <3>3. at[n + 1] = o + d + 1 /\ s \in Nat
      BY <1>5, <1>9, <2>2
    <3>4. o + d + s + 1 <= at[n + 2] /\ at[n + 1] + s <= o + d + s + 1
      BY <1>7, <3>2, <3>3
    <3> QED BY <3>1, <3>4 DEF Between, p
  <2>8. Held(sent, at, buffer' \o wire, n + 1, o + d + s) /\ o + d + s \in Nat
    <3> DEFINE most == bytes \o wire
    <3>1. most \in Seq(Byte) /\ s \in 0..Len(most)
      BY <1>1, <1>6, <2>2, Joined
    <3>2. SubSeq(most, s + 1, Len(most)) = buffer' \o wire
      <4>1. bytes \in Seq(Byte) /\ wire \in Seq(Byte) /\ s \in 0..Len(bytes)
        BY <1>1, <1>6, <2>2
      <4> HIDE DEF s
      <4>2. SubSeq(bytes \o wire, s + 1, Len(bytes \o wire)) = SubSeq(bytes, s + 1, Len(bytes)) \o wire
        BY <4>1, CutJoined
      <4> QED BY <2>3, <4>2 DEF s
    <3>3. n + 1 \in {n, n + 1} /\ n + 1 \in 0..Len(sent) /\ n \in Nat
      BY <1>1, <2>1
    <3>4. Held(sent, at, SubSeq(most, s + 1, Len(most)), n + 1, o + d + s)
      <4> HIDE DEF most, n, s
      <4> QED BY <1>1, <1>4, <1>6, <1>7, <2>7, <3>1, <3>3, Consume DEF most
    <3>5. o + d + s \in Nat
      BY <1>7, <2>2
    <3> HIDE DEF most, n, s
    <3> QED BY <3>2, <3>4, <3>5
  <2>9. Pending'
    BY <1>2, <1>4, <2>4, <2>8 DEF Pending
  <2> QED BY <1>3, <2>5, <2>6, <2>9
<1> QED BY <1>8, <1>9


LEMMA Associative ==
    ASSUME NEW s \in Seq(Byte), NEW t \in Seq(Byte), NEW u \in Seq(Byte)
    PROVE  s \o (t \o u) = (s \o t) \o u
BY SMTT(30), ConcatAssociative

LEMMA SendInv ==
    ASSUME StreamInv, NEW cmd \in Cmd, NEW payload \in Payload, NEW padding \in Paddings,
           Send(cmd, payload, padding)
    PROVE  Numbering' /\ Follows' /\ Prefix' /\ Pending'
<1> DEFINE m == Len(sent)
           n == Len(parsed)
           p == [cmd |-> cmd, id |-> (conn.first + m) % IdMod, payload |-> payload]
           all == buffer \o wire
<1>1. /\ sent \in Seq(Packet) /\ buffer \in Seq(Byte) /\ wire \in Seq(Byte)
      /\ m \in Nat /\ n \in Nat /\ n <= m /\ conn.server \in {"gate", "dispatch"}
  BY DEF StreamInv, TypeOK, Prefix
<1>2. p \in Packet /\ ClientFrame(p) \in Seq(Byte) /\ padding \in Seq(Byte)
  BY SentType DEF StreamInv
<1>3. /\ sent' = Append(sent, p) /\ wire' = wire \o ClientFrame(p) \o padding
      /\ UNCHANGED <<conn, buffer, previous, parsed, pc>>
      /\ conn.server = "dispatch" => p.payload # <<>>
      /\ padding # <<>> => Padded(p)
      /\ p.id = (conn.first + m) % IdMod
  BY DEF Send, Padded
<1> HIDE DEF p
<1>4. /\ Len(sent') = m + 1 /\ sent'[m + 1] = p
      /\ \A k \in 1..m : sent'[k] = sent[k]
  BY <1>1, <1>2, <1>3
<1>5. \A k \in 1..m + 1 : k = m + 1 \/ k \in 1..m
  BY <1>1
<1>6. Numbering'
  <2>1. \A k \in 1..m + 1 : sent'[k].id = (conn.first + (k - 1)) % IdMod
    <3>1. (m + 1) - 1 = m
      BY <1>1
    <3>2. sent'[m + 1].id = (conn.first + ((m + 1) - 1)) % IdMod
      BY <1>3, <1>4, <3>1
    <3>3. \A k \in 1..m : sent'[k].id = (conn.first + (k - 1)) % IdMod
      BY <1>4 DEF StreamInv, Numbering
    <3> QED BY <1>5, <3>2, <3>3
  <2>2. conn.server = "dispatch" => \A k \in 1..m + 1 : sent'[k].payload # <<>>
    <3>1. conn.server = "dispatch" => \A k \in 1..m : sent'[k].payload # <<>>
      BY <1>4 DEF StreamInv, Numbering
    <3> QED BY <1>3, <1>4, <1>5, <3>1
  <2> QED BY <1>3, <1>4, <2>1, <2>2 DEF Numbering
<1>7. \A i \in 1..n : i \in 1..m
  BY <1>1
<1>8. Follows'
  <2>1. n > 0 => n \in 1..m
    BY <1>1
  <2> QED BY <1>3, <1>4, <2>1 DEF StreamInv, Follows
<1>9. Prefix'
  <2>1. n <= m + 1
    BY <1>1
  <2> QED BY <1>3, <1>4, <1>7, <2>1 DEF StreamInv, Prefix
<1>10. Pending'
  <2>1. PICK at, o : o \in Nat /\ Laid(sent, at) /\ Held(sent, at, all, n, o)
    BY DEF StreamInv, Pending
  <2>2. all \in Seq(Byte) /\ n \in 0..Len(sent)
    BY <1>1
  <2>3. buffer \o wire' = all \o ClientFrame(p) \o padding
    <3> DEFINE frame == ClientFrame(p)
    <3>1. frame \in Seq(Byte) /\ wire \o frame \in Seq(Byte)
      BY <1>1, <1>2
    <3> HIDE DEF frame
    <3>2. buffer \o ((wire \o frame) \o padding) = (buffer \o (wire \o frame)) \o padding
      BY SMTT(30), <1>1, <1>2, <3>1, Associative
    <3>3. buffer \o (wire \o frame) = (buffer \o wire) \o frame
      BY <1>1, <3>1, Associative
    <3> QED BY <1>3, <3>2, <3>3 DEF frame
  <2> DEFINE to == Extended(sent, at, p, padding)
  <2>4. padding = <<>> \/ Padded(p)
    BY <1>3
  <2> HIDE DEF all, n
  <2>5. /\ Laid(Append(sent, p), to)
        /\ Held(Append(sent, p), to, all \o ClientFrame(p) \o padding, n, o)
    BY <1>1, <1>2, <2>1, <2>2, <2>4, Extend
  <2> HIDE DEF to
  <2>6. /\ o \in Nat /\ Laid(sent', to) /\ Held(sent', to, buffer' \o wire', Len(parsed'), o)
    BY <1>3, <2>1, <2>3, <2>5 DEF n
  <2> QED BY <2>6 DEF Pending
<1> QED BY <1>6, <1>8, <1>9, <1>10

LEMMA ReadInv ==
    ASSUME StreamInv, NEW n \in 1..Len(wire), Read(n)
    PROVE  Numbering' /\ Follows' /\ Prefix' /\ Pending'
<1>1. buffer \in Seq(Byte) /\ wire \in Seq(Byte)
  BY DEF StreamInv, TypeOK
<1>2. /\ buffer' = buffer \o SubSeq(wire, 1, n) /\ wire' = SubSeq(wire, n + 1, Len(wire))
      /\ pc' = "split" /\ UNCHANGED <<conn, sent, previous, parsed>>
  BY DEF Read
<1>3. buffer' \o wire' = buffer \o wire
  <2> DEFINE read == SubSeq(wire, 1, n)
             rest == SubSeq(wire, n + 1, Len(wire))
  <2>1. read \in Seq(Byte) /\ rest \in Seq(Byte)
    BY <1>1
  <2>2. read \o rest = wire
    BY <1>1
  <2>3. buffer \o (read \o rest) = (buffer \o read) \o rest
    <3> HIDE DEF read, rest
    <3> QED BY <1>1, <2>1, Associative
  <2> QED BY <1>2, <2>2, <2>3
<1> QED BY <1>2, <1>3 DEF StreamInv, Numbering, Follows, Prefix, Pending

LEMMA InitStream == Init => StreamInv
<1> SUFFICES ASSUME Init PROVE Numbering /\ Follows /\ Prefix /\ Pending
  BY InitType DEF StreamInv
<1>1. /\ sent = <<>> /\ wire = <<>> /\ buffer = <<>> /\ parsed = <<>> /\ pc = "read"
  BY DEF Init
<1>2. Len(sent) = 0 /\ Len(parsed) = 0 /\ buffer \o wire = <<>> /\ Len(buffer \o wire) = 0
  BY <1>1
<1>3. Numbering /\ Follows /\ Prefix
  BY <1>1, <1>2 DEF Numbering, Follows, Prefix
<1> DEFINE at == [k \in 1..0 + 1 |-> 1]
<1>4. at \in [1..0 + 1 -> Nat \ {0}] /\ at[1] = 1 /\ at[0 + 1] = 1
  OBVIOUS
<1> HIDE DEF at
<1>5. Laid(sent, at)
  <2>1. \A j, k \in 1..0 + 1 : ~ (j < k)
    OBVIOUS
  <2> QED BY <1>2, <1>4, <2>1 DEF Laid
<1>6. Held(sent, at, buffer \o wire, Len(parsed), 0)
  BY <1>2, <1>4 DEF Held, Between
<1>7. Pending
  BY <1>5, <1>6 DEF Pending
<1> QED BY <1>3, <1>7

LEMMA StreamStep ==
    ASSUME 0 \notin Padding
    PROVE  StreamInv /\ [Next]_vars => StreamInv'
<1> SUFFICES ASSUME StreamInv, [Next]_vars PROVE Numbering' /\ Follows' /\ Prefix' /\ Pending'
  BY TypeStep DEF StreamInv
<1>1. ASSUME NEW cmd \in Cmd, NEW payload \in Payload, NEW padding \in Paddings,
             Send(cmd, payload, padding)
      PROVE  Numbering' /\ Follows' /\ Prefix' /\ Pending'
  BY <1>1, SendInv
<1>2. ASSUME NEW n \in 1..Len(wire), Read(n)
      PROVE  Numbering' /\ Follows' /\ Prefix' /\ Pending'
  BY <1>2, ReadInv
<1>3. CASE Split
  BY <1>3, SplitInv
<1>4. CASE EndOfStream \/ ReadFails \/ Over \/ UNCHANGED vars
  BY <1>4 DEF EndOfStream, ReadFails, Over, vars, StreamInv, Numbering, Follows, Prefix, Pending
<1> QED BY <1>1, <1>2, <1>3, <1>4 DEF Next, Client, Server

LEMMA StreamOrder == StreamInv => ParsedInOrder
<1> SUFFICES ASSUME StreamInv PROVE ParsedInOrder
  OBVIOUS
<1> DEFINE n == Len(parsed)
           found == [cmd : 0..(IdMod - 1), id : 0..(IdMod - 1), payload : Seq(Byte)]
           first == SubSeq(sent, 1, n)
<1>1. sent \in Seq(Packet) /\ parsed \in Seq(found) /\ n \in Nat /\ n <= Len(sent)
      /\ \A i \in 1..n : parsed[i] = sent[i]
  BY DEF StreamInv, TypeOK, Prefix
<1>2. first \in Seq(Packet) /\ Len(first) = n /\ \A i \in 1..n : first[i] = sent[i]
  BY <1>1
<1> HIDE DEF first, found
<1>3. \A i \in 1..Len(parsed) : parsed[i] = first[i]
  BY <1>1, <1>2
<1>4. parsed = first
  BY <1>1, <1>2, <1>3, SeqEqual
<1> QED BY <1>1, <1>4 DEF ParsedInOrder, StreamInv, Prefix, first

\* However the bytes are cut on the way and wherever the client pads, and while
\* the ids wrap around, the server parses the packets that were sent, each once
\* and in order, provided that no padding byte is 0.
THEOREM ParsesInOrder ==
    ASSUME 0 \notin Padding
    PROVE  Spec => []ParsedInOrder
<1>1. StreamInv /\ [Next]_vars => StreamInv'
  BY StreamStep
<1> QED BY <1>1, InitStream, StreamOrder, PTL DEF Spec

====

--------------------------- MODULE Framing_proofs ----------------------------
(***************************************************************************)
(* Proofs about a connection from Client::new to Drop, for any packets and *)
(* any number of them.                                                     *)
(***************************************************************************)
EXTENDS Framing, SequenceTheorems, TLAPS

Packets == [n : Nat, data : Seq(Nat)]

(* The types the proofs need, with the parts of the header read so far.    *)
Typed ==
  /\ buf \in Seq(Nat) /\ wire \in Seq(Nat) /\ hdr \in Seq(Nat)
  /\ source \in Nat
  /\ sent \in Seq(Shapes)
  /\ dispatched \in Seq(Packets)
  /\ mode \in {"addr", "auto", "request"}
  /\ port_opened \in BOOLEAN
  /\ rstate \in {"discard", "ams"} => Len(hdr) = 2
  /\ rstate = "payload" => Len(hdr) = 5

LEMMA ElementNat ==
  ASSUME NEW s \in Seq(Nat), NEW k \in 1 .. Len(s)
  PROVE  s[k] \in Nat
OBVIOUS

(* What the units of a concatenation are.                                  *)
LEMMA ConcatNat ==
  ASSUME NEW s \in Seq(Nat), NEW t \in Seq(Nat)
  PROVE  /\ s \o t \in Seq(Nat)
         /\ Len(s \o t) = Len(s) + Len(t)
         /\ \A k \in 1 .. Len(s) + Len(t) :
              (s \o t)[k] = IF k <= Len(s) THEN s[k] ELSE t[k - Len(s)]
OBVIOUS

(* The same, for each part.                                                *)
LEMMA ConcatParts ==
  ASSUME NEW s \in Seq(Nat), NEW t \in Seq(Nat)
  PROVE  /\ s \o t \in Seq(Nat)
         /\ Len(s \o t) = Len(s) + Len(t)
         /\ \A k \in 1 .. Len(s) : (s \o t)[k] = s[k]
         /\ \A k \in 1 .. Len(t) : (s \o t)[Len(s) + k] = t[k]
OBVIOUS

LEMMA ConcatAssocNat ==
  ASSUME NEW s \in Seq(Nat), NEW t \in Seq(Nat), NEW u \in Seq(Nat)
  PROVE  (s \o t) \o u = s \o (t \o u)
BY SMTT(30)

(* read_exact takes the first n units of the buffer.                       *)
LEMMA ReadType ==
  ASSUME NEW n \in Nat, buf \in Seq(Nat), ReadExact(n)
  PROVE  /\ buf' \in Seq(Nat) /\ UNCHANGED wire
         /\ Len(buf') = Len(buf) - n
         /\ \A k \in 1 .. Len(buf') : buf'[k] = buf[n + k]
         /\ SubSeq(buf, 1, n) \in Seq(Nat) /\ Len(SubSeq(buf, 1, n)) = n
         /\ \A k \in 1 .. n : SubSeq(buf, 1, n)[k] = buf[k]
<1>1. /\ Len(buf) \in Nat /\ n <= Len(buf)
      /\ buf' = SubSeq(buf, n + 1, Len(buf)) /\ UNCHANGED wire
  BY DEF ReadExact
<1>2. /\ buf' \in Seq(Nat) /\ Len(buf') = Len(buf) - n
      /\ \A k \in 1 .. Len(buf') : buf'[k] = buf[n + k]
  BY <1>1
<1>3. /\ SubSeq(buf, 1, n) \in Seq(Nat) /\ Len(SubSeq(buf, 1, n)) = n
      /\ \A k \in 1 .. n : SubSeq(buf, 1, n)[k] = buf[k]
  BY <1>1
<1> QED
  BY <1>1, <1>2, <1>3

(* What the router may reply to the request for a port.                    *)
LEMMA ReplyFacts ==
  ASSUME NEW opened, NEW q \in RouterReplies(opened)
  PROVE  /\ q \in Seq(Nat) /\ Len(q) <= 4
         /\ q[1] = PortKind
         /\ q[2] = 2 <=> opened # {}
         /\ q[2] = 2 => q[4] = AskedPort
<1>1. AskedPort \in Nat /\ PortKind \in Nat
  BY FramingAssumption DEF PortKind
<1>2. CASE opened = {} /\ q = <<PortKind, 1, 0>>
  BY <1>1, <1>2
<1>3. CASE opened = {} /\ q = <<PortKind, 1, 0, 0>>
  BY <1>1, <1>3
<1>4. CASE opened # {} /\ q = <<PortKind, 2, 0, AskedPort>>
  BY <1>1, <1>4
<1> QED
  BY <1>2, <1>3, <1>4 DEF RouterReplies

(* The n-th packet, unit by unit.                                          *)
LEMMA BytesFacts ==
  ASSUME NEW s \in Shapes, NEW n \in Nat, source \in Nat
  PROVE  /\ Bytes(n, s) \in Seq(Nat)
         /\ Len(Bytes(n, s)) = s.len + 2
         /\ s.len \in Nat /\ s.kind \in Nat /\ s.dlen \in Nat
         /\ Bytes(n, s)[1] = s.kind /\ Bytes(n, s)[2] = s.len
         /\ s.len >= AmsLen =>
              /\ Bytes(n, s)[3] = IF s.us THEN source ELSE 0
              /\ Bytes(n, s)[4] = n
              /\ Bytes(n, s)[5] = s.dlen
              /\ \A k \in 6 .. s.len + 2 : Bytes(n, s)[k] = n
<1> DEFINE head == <<s.kind, s.len>>
<1> DEFINE junk == [k \in 1 .. s.len |-> 7]
<1> DEFINE ams == <<IF s.us THEN source ELSE 0, n, s.dlen>>
<1> DEFINE data == [k \in 1 .. s.len - AmsLen |-> n]
<1>1. s.len \in Nat /\ s.kind \in Nat /\ s.dlen \in Nat /\ AmsLen = 3
  BY FramingAssumption DEF AmsLen
<1>2. head \in Seq(Nat) /\ Len(head) = 2 /\ head[1] = s.kind /\ head[2] = s.len
  BY <1>1
<1>3. junk \in Seq(Nat) /\ Len(junk) = s.len
  BY <1>1
<1>4. /\ ams \in Seq(Nat) /\ Len(ams) = 3
      /\ ams[1] = (IF s.us THEN source ELSE 0) /\ ams[2] = n /\ ams[3] = s.dlen
  BY <1>1
<1>5. s.len >= 3 => /\ data \in Seq(Nat) /\ Len(data) = s.len - 3
                    /\ \A k \in 1 .. s.len - 3 : data[k] = n
  BY <1>1
<1>6. Bytes(n, s) = head \o IF s.len < AmsLen THEN junk ELSE ams \o data
  BY DEF Bytes
<1> HIDE DEF head, junk, ams, data
<1>7. CASE s.len < 3
  <2>1. Bytes(n, s) = head \o junk
    BY <1>1, <1>6, <1>7
  <2>2. /\ head \o junk \in Seq(Nat) /\ Len(head \o junk) = Len(head) + Len(junk)
        /\ \A k \in 1 .. Len(head) + Len(junk) :
             (head \o junk)[k] = IF k <= Len(head) THEN head[k] ELSE junk[k - Len(head)]
    BY <1>2, <1>3, ConcatNat
  <2>3. (head \o junk)[1] = head[1] /\ (head \o junk)[2] = head[2]
    BY <1>1, <1>2, <1>3, <2>2
  <2> QED
    BY <1>1, <1>2, <1>3, <1>7, <2>1, <2>2, <2>3
<1>8. CASE s.len >= 3
  <2> DEFINE rest == ams \o data
  <2>1. /\ rest \in Seq(Nat) /\ Len(rest) = Len(ams) + Len(data)
        /\ \A k \in 1 .. Len(ams) + Len(data) :
             rest[k] = IF k <= Len(ams) THEN ams[k] ELSE data[k - Len(ams)]
    BY <1>4, <1>5, <1>8, ConcatNat
  <2> HIDE DEF rest
  <2>2. /\ Len(rest) = s.len
        /\ rest[1] = ams[1] /\ rest[2] = ams[2] /\ rest[3] = ams[3]
        /\ \A k \in 4 .. s.len : rest[k] = n
    <3>1. Len(rest) = s.len
      BY <1>1, <1>4, <1>5, <1>8, <2>1, SMTT(30)
    <3>2. 1 \in 1 .. s.len /\ 2 \in 1 .. s.len /\ 3 \in 1 .. s.len
      BY <1>1, <1>8
    <3>3. \A k \in 1 .. s.len : rest[k] = IF k <= 3 THEN ams[k] ELSE data[k - 3]
      BY <1>4, <2>1, <3>1
    <3>4. ASSUME NEW k \in 4 .. s.len PROVE rest[k] = n
      <4>1. k \in 1 .. s.len /\ ~(k <= 3) /\ k - 3 \in 1 .. s.len - 3
        BY <1>1, <1>8
      <4> QED
        BY <1>5, <1>8, <3>3, <4>1
    <3> QED
      BY <3>1, <3>2, <3>3, <3>4
  <2>3. Bytes(n, s) = head \o rest
    BY <1>1, <1>6, <1>8 DEF rest
  <2>4. /\ Bytes(n, s) \in Seq(Nat) /\ Len(Bytes(n, s)) = s.len + 2
        /\ \A k \in 1 .. s.len + 2 :
             Bytes(n, s)[k] = IF k <= 2 THEN head[k] ELSE rest[k - 2]
    <3>1. /\ head \o rest \in Seq(Nat) /\ Len(head \o rest) = Len(head) + Len(rest)
          /\ \A k \in 1 .. Len(head) + Len(rest) :
               (head \o rest)[k] = IF k <= Len(head) THEN head[k] ELSE rest[k - Len(head)]
      BY <1>2, <2>1, ConcatNat
    <3> QED
      BY <1>1, <1>2, <2>2, <2>3, <3>1, SMTT(30)
  <2>5. /\ Bytes(n, s)[1] = head[1] /\ Bytes(n, s)[2] = head[2]
        /\ Bytes(n, s)[3] = rest[1] /\ Bytes(n, s)[4] = rest[2] /\ Bytes(n, s)[5] = rest[3]
        /\ \A k \in 6 .. s.len + 2 : Bytes(n, s)[k] = n
    <3>1. /\ 1 \in 1 .. s.len + 2 /\ 2 \in 1 .. s.len + 2 /\ 3 \in 1 .. s.len + 2
          /\ 4 \in 1 .. s.len + 2 /\ 5 \in 1 .. s.len + 2
      BY <1>1, <1>8
    <3>2. ASSUME NEW k \in 6 .. s.len + 2 PROVE Bytes(n, s)[k] = n
      <4>1. k \in 1 .. s.len + 2 /\ ~(k <= 2) /\ k - 2 \in 4 .. s.len
        BY <1>1, <1>8
      <4> QED
        BY <2>2, <2>4, <4>1
    <3> QED
      BY <2>4, <3>1, <3>2
  <2> QED
    BY <1>1, <1>2, <1>4, <2>2, <2>4, <2>5
<1> QED
  BY <1>1, <1>7, <1>8

LEMMA TypedInit == Init => Typed
<1> SUFFICES ASSUME Init PROVE Typed
  OBVIOUS
<1>1. <<>> \in Seq(Nat) /\ <<>> \in Seq(Shapes) /\ <<>> \in Seq(Packets)
  OBVIOUS
<1> QED
  BY <1>1 DEF Init, Typed

(* Connecting, reading, dropping and the peer keep types.                  *)
LEMMA TypedStep == Typed /\ [Next]_vars => Typed'
<1> SUFFICES ASSUME Typed, [Next]_vars PROVE Typed'
  OBVIOUS
<1> USE DEF connVars, streamVars, readerVars
<1>1. CASE Connect
  <2>1. wire' \in Seq(Nat)
    BY <1>1, ReplyFacts DEF Connect, Typed
  <2>2. CASE mode # "request"
    BY <1>1, <2>1, <2>2 DEF Connect, Typed, StartReader, GivenAddr, AutoAddr
  <2>3. CASE mode = "request"
    BY <1>1, <2>1, <2>3 DEF Connect, Typed
  <2> QED
    BY <2>2, <2>3
<1>2. CASE ConnectFails \/ PortReplyFails \/ ReaderEnds \/ DropBegin \/ DropJoin \/ PeerCloses
           \/ ReadError \/ Finished
  BY <1>2 DEF ConnectFails, PortReplyFails, ReaderEnds, DropBegin, Leave, DropJoin, PeerCloses,
              ReadError, Finished, vars, Typed
<1>3. CASE PortReply
  <2>1. buf' \in Seq(Nat) /\ wire' = wire /\ Len(buf) >= 4
    BY <1>3, ReadType DEF PortReply, ReadExact, Typed
  <2>2. buf[4] \in Nat
    BY <2>1 DEF Typed
  <2> QED
    BY <1>3, <2>1, <2>2 DEF PortReply, StartReader, Typed
<1>4. CASE ReadTcpHeader
  <2>1. /\ buf' \in Seq(Nat) /\ wire' = wire
        /\ SubSeq(buf, 1, 2) \in Seq(Nat) /\ Len(SubSeq(buf, 1, 2)) = 2
    BY <1>4, ReadType DEF ReadTcpHeader, Typed
  <2> QED
    BY <1>4, <2>1 DEF ReadTcpHeader, Typed
<1>5. CASE Discard
  <2>1. hdr[2] \in Nat
    <3>1. hdr \in Seq(Nat) /\ Len(hdr) = 2
      BY <1>5 DEF Discard, DiscardOf, Typed
    <3> QED
      BY <3>1, SMTT(30)
  <2>2. buf' \in Seq(Nat) /\ wire' = wire
    BY <1>5, <2>1, ReadType DEF Discard, DiscardOf, Typed
  <2> QED
    BY <1>5, <2>2 DEF Discard, DiscardOf, Typed
<1>6. CASE ReadAmsHeader
  <2>1. /\ buf' \in Seq(Nat) /\ wire' = wire
        /\ SubSeq(buf, 1, 3) \in Seq(Nat) /\ Len(SubSeq(buf, 1, 3)) = 3
    BY <1>6, ReadType DEF ReadAmsHeader, AmsLen, Typed
  <2>2. hdr' \in Seq(Nat) /\ Len(hdr') = 5
    <3>1. hdr \in Seq(Nat) /\ Len(hdr) = 2 /\ hdr' = hdr \o SubSeq(buf, 1, 3)
      BY <1>6 DEF ReadAmsHeader, AmsLen, Typed
    <3> DEFINE ams == SubSeq(buf, 1, 3)
    <3>2. ams \in Seq(Nat) /\ Len(ams) = 3 /\ hdr' = hdr \o ams
      BY <2>1, <3>1
    <3> HIDE DEF ams
    <3>3. hdr \o ams \in Seq(Nat) /\ Len(hdr \o ams) = Len(hdr) + Len(ams)
      BY <3>1, <3>2, ConcatNat, Zenon
    <3> QED
      BY <3>1, <3>2, <3>3
  <2> QED
    BY <1>6, <2>1, <2>2 DEF ReadAmsHeader, Typed
<1>7. CASE ReadPayload
  <2>1. hdr[4] \in Nat /\ hdr[5] \in Nat
    <3>1. hdr \in Seq(Nat) /\ Len(hdr) = 5
      BY <1>7 DEF ReadPayload, Typed
    <3>2. 4 \in 1 .. Len(hdr) /\ 5 \in 1 .. Len(hdr)
      BY <3>1
    <3> QED
      BY <3>1, <3>2, ElementNat
  <2>2. buf' \in Seq(Nat) /\ wire' = wire /\ SubSeq(buf, 1, hdr[5]) \in Seq(Nat)
    BY <1>7, <2>1, ReadType DEF ReadPayload, Typed
  <2>3. dispatched' \in Seq(Packets)
    <3> DEFINE p == [n |-> hdr[4], data |-> SubSeq(buf, 1, hdr[5])]
    <3>1. p \in Packets
      BY <2>1, <2>2 DEF Packets
    <3>2. dispatched' = dispatched \/ dispatched' = Append(dispatched, p)
      BY <1>7 DEF ReadPayload
    <3>3. dispatched \in Seq(Packets)
      BY DEF Typed
    <3> HIDE DEF p
    <3> QED
      BY <3>1, <3>2, <3>3
  <2> QED
    BY <1>7, <2>2, <2>3 DEF ReadPayload, Typed
<1>8. CASE PeerSends
  <2>1. PICK s \in Shapes : sent' = Append(sent, s) /\ wire' = wire \o Bytes(Len(sent) + 1, s)
    BY <1>8 DEF PeerSends
  <2>2. Bytes(Len(sent) + 1, s) \in Seq(Nat) /\ Len(sent) \in Nat
    <3>1. Len(sent) \in Nat /\ source \in Nat
      BY DEF Typed
    <3> QED
      BY <3>1, BytesFacts
  <2>3. wire' \in Seq(Nat) /\ sent' \in Seq(Shapes)
    BY <2>1, <2>2 DEF Typed
  <2> QED
    BY <1>8, <2>3 DEF PeerSends, Typed
<1>9. CASE Arrive
  <2>1. wire' \in Seq(Nat) /\ buf' \in Seq(Nat)
    BY <1>9 DEF Arrive, Typed
  <2> QED
    BY <1>9, <2>1 DEF Arrive, Typed
<1>10. CASE UNCHANGED vars
  BY <1>10 DEF vars, Typed
<1> QED
  BY <1>1, <1>2, <1>3, <1>4, <1>5, <1>6, <1>7, <1>8, <1>9, <1>10 DEF Next, ReaderStep

(* What arrives is not changed by its arrival.                             *)
LEMMA ArrivalKeeps ==
  ASSUME Typed, Arrive
  PROVE  buf' \o wire' = buf \o wire
<1>1. /\ buf \in Seq(Nat) /\ wire \in Seq(Nat) /\ wire # <<>>
      /\ buf' = Append(buf, Head(wire)) /\ wire' = Tail(wire)
  BY DEF Arrive, Typed
<1>2. /\ Len(buf) \in Nat /\ Len(wire) \in Nat /\ Len(wire) > 0
      /\ Head(wire) = wire[1] /\ Head(wire) \in Nat
      /\ buf' \in Seq(Nat) /\ Len(buf') = Len(buf) + 1
      /\ buf'[Len(buf) + 1] = wire[1]
      /\ \A k \in 1 .. Len(buf) : buf'[k] = buf[k]
      /\ wire' \in Seq(Nat) /\ Len(wire') = Len(wire) - 1
      /\ \A k \in 1 .. Len(wire) - 1 : wire'[k] = wire[k + 1]
  BY <1>1
<1>3. /\ buf' \o wire' \in Seq(Nat) /\ buf \o wire \in Seq(Nat)
      /\ Len(buf' \o wire') = Len(buf) + Len(wire)
      /\ Len(buf \o wire) = Len(buf) + Len(wire)
  BY <1>1, <1>2
<1>4. ASSUME NEW k \in 1 .. Len(buf) + Len(wire)
      PROVE  (buf' \o wire')[k] = (buf \o wire)[k]
  <2>1. (buf' \o wire')[k] = IF k <= Len(buf') THEN buf'[k] ELSE wire'[k - Len(buf')]
    BY <1>2, ConcatNat, SMTT(30)
  <2>2. (buf \o wire)[k] = IF k <= Len(buf) THEN buf[k] ELSE wire[k - Len(buf)]
    BY <1>1, ConcatNat
  <2>3. CASE k <= Len(buf)
    BY <1>2, <2>1, <2>2, <2>3
  <2>4. CASE k = Len(buf) + 1
    BY <1>2, <2>1, <2>2, <2>4
  <2>5. CASE k > Len(buf) + 1
    <3>1. /\ ~(k <= Len(buf')) /\ ~(k <= Len(buf))
          /\ k - Len(buf') \in 1 .. Len(wire) - 1
          /\ (k - Len(buf')) + 1 = k - Len(buf)
      BY <1>2, <2>5
    <3>2. wire'[k - Len(buf')] = wire[(k - Len(buf')) + 1]
      BY <1>2, <3>1
    <3> QED
      BY <2>1, <2>2, <3>1, <3>2
  <2> QED
    BY <1>2, <2>3, <2>4, <2>5, SMTT(30)
<1> QED
  BY <1>3, <1>4, SeqEqual

-----------------------------------------------------------------------------
(* The port of the router.                                                 *)

(* Until a Client exists nothing but the reply to the port request is on   *)
(* the stream, and nobody reads but Client::new; a Client that has not     *)
(* opened a port holds none.                                               *)
PortInv ==
  /\ cstate \in {"connecting", "asking"} => rstate = "none"
  /\ cstate = "connecting" => ports = {} /\ buf = <<>> /\ wire = <<>>
  /\ cstate = "asking" => buf \o wire \in RouterReplies(ports)
  /\ cstate = "live" /\ ~port_opened => ports = {}

LEMMA PortInit == Init => PortInv
BY DEF Init, PortInv

(* A port that was obtained is remembered until it is given back.          *)
LEMMA PortStep == Typed /\ PortInv /\ [Next]_vars => PortInv'
<1> SUFFICES ASSUME Typed, PortInv, [Next]_vars PROVE PortInv'
  OBVIOUS
<1> USE DEF connVars, streamVars, readerVars
<1>1. CASE Connect
  <2>1. CASE mode # "request"
    BY <1>1, <2>1 DEF Connect, StartReader, PortInv, Typed
  <2>2. CASE mode = "request"
    <3>1. wire' \in RouterReplies(ports') /\ buf' = <<>>
      BY <1>1, <2>2 DEF Connect, PortInv
    <3>2. wire' \in Seq(Nat)
      BY TypedStep DEF Typed
    <3>3. buf' \o wire' \in RouterReplies(ports')
      BY <3>1, <3>2
    <3> QED
      BY <1>1, <2>2, <3>3 DEF Connect, PortInv
  <2> QED
    BY <2>1, <2>2
<1>2. CASE ConnectFails \/ PortReply \/ PortReplyFails \/ DropBegin \/ DropJoin
  BY <1>2 DEF ConnectFails, PortReply, PortReplyFails, StartReader, DropBegin, Leave, DropJoin,
              PortInv
<1>3. CASE ReaderStep
  BY <1>3 DEF ReaderStep, ReadTcpHeader, Discard, DiscardOf, ReadAmsHeader, ReadPayload,
              ReadError, ReaderEnds, PortInv
<1>4. CASE PeerSends \/ PeerCloses
  BY <1>4 DEF PeerSends, PeerCloses, PortInv
<1>5. CASE Arrive
  BY <1>5, ArrivalKeeps DEF Arrive, PortInv
<1>6. CASE UNCHANGED vars
  BY <1>6 DEF vars, PortInv
<1> QED
  BY <1>1, <1>2, <1>3, <1>4, <1>5, <1>6 DEF Next, Finished

(* Whether Client::new fails or Drop runs, a port the router opened for us *)
(* is given back before the socket is shut down, unless the connection was *)
(* lost before, the reply with the port timed out or the message that      *)
(* gives it back could not be written.                                     *)
THEOREM PortReturned == Spec => PortGivenBack
<1> DEFINE Given ==
     socket = "open" /\ peer = "open" /\ cstate' \in {"failed", "joining"} /\ cstate # cstate'
       => ports' = {} \/ (cstate = "asking" /\ timeout) \/ close_failed'
<1>1. Typed /\ PortInv /\ [Next]_vars => [Given]_vars
  <2> SUFFICES ASSUME Typed, PortInv, [Next]_vars, socket = "open", peer = "open",
                      cstate' \in {"failed", "joining"}, cstate # cstate'
               PROVE  ports' = {} \/ (cstate = "asking" /\ timeout) \/ close_failed'
    OBVIOUS
  <2>1. CASE ConnectFails
    BY <2>1 DEF ConnectFails, PortInv
  <2>2. CASE PortReplyFails
    <3>1. cstate = "asking" /\ ports' = ports /\ buf \o wire \in RouterReplies(ports)
      BY <2>2 DEF PortReplyFails, PortInv
    <3>2. CASE Len(buf) >= 4 /\ ~(buf[1] = PortKind /\ buf[2] = 2)
      <4>1. (buf \o wire)[1] = buf[1] /\ (buf \o wire)[2] = buf[2]
        BY <3>2 DEF Typed
      <4> QED
        BY <3>1, <3>2, <4>1, ReplyFacts
    <3>3. CASE ReadFails(4)
      BY <3>1, <3>3 DEF ReadFails
    <3> QED
      BY <2>2, <3>2, <3>3 DEF PortReplyFails
  <2>3. CASE DropBegin
    BY <2>3 DEF DropBegin, Leave, PortInv, Typed
  <2>4. CASE Connect \/ PortReply \/ ReaderStep \/ DropJoin \/ PeerSends \/ Arrive \/ PeerCloses
             \/ Finished \/ UNCHANGED vars
    BY <2>4 DEF Connect, PortReply, StartReader, ReaderStep, ReadTcpHeader, Discard, DiscardOf,
                ReadAmsHeader, ReadPayload, ReadError, ReaderEnds, DropJoin, PeerSends, Arrive,
                PeerCloses, Finished, connVars, vars
  <2> QED
    BY <2>1, <2>2, <2>3, <2>4 DEF Next
<1>2. Typed /\ PortInv /\ [Next]_vars => (Typed /\ PortInv)'
  BY TypedStep, PortStep
<1> QED
  BY TypedInit, PortInit, <1>1, <1>2, PTL DEF Spec, PortGivenBack

-----------------------------------------------------------------------------
(* Packets are handed on in order.                                         *)

(* The units not read yet, arrived or not.                                 *)
Rest == buf \o wire

(* The reader has begun n packets; c tells where in the rest each later    *)
(* packet ends, and what is left of the n-th.                              *)
PacketAt(k, o) == \A i \in 1 .. sent[k].len + 2 : Rest[o + i] = Bytes(k, sent[k])[i]
Marks(n, c) ==
  /\ n \in 0 .. Len(sent)
  /\ c \in [n .. Len(sent) -> Nat]
  /\ c[Len(sent)] = Len(Rest)
  /\ \A j, k \in n .. Len(sent) : j <= k => c[j] <= c[k]
  /\ \A k \in n + 1 .. Len(sent) :
       c[k] = c[k - 1] + sent[k].len + 2 /\ PacketAt(k, c[k - 1])

(* The first n packets are dealt with, and only they.                      *)
Passed(n) ==
  /\ \A k \in 1 .. n : WellFormed(sent[k]) /\ (IsOurs(sent[k]) => HandedOn(k))
  /\ \A j \in DOMAIN dispatched : dispatched[j].n \in Nat /\ dispatched[j].n <= n

(* The headers read are those of the n-th packet, and o units of it are    *)
(* left.                                                                   *)
Current(n, o) ==
  /\ n # 0
  /\ o = IF rstate = "payload" THEN sent[n].len - 3 ELSE sent[n].len
  /\ rstate = "discard" <=> sent[n].len < 3
  /\ \A i \in 1 .. Len(hdr) : hdr[i] = Bytes(n, sent[n])[i]
  /\ \A i \in 1 .. o : Rest[i] = Bytes(n, sent[n])[Len(hdr) + i]

Located(n, c) ==
  /\ Marks(n, c)
  /\ IF rstate = "tcp" THEN c[n] = 0 /\ Passed(n)
     ELSE Passed(n - 1) /\ Current(n, c[n])

Reading == rstate \in {"tcp", "discard", "ams", "payload"}
Covered == \A n \in DOMAIN sent : WellFormed(sent[n]) \/ Malformed(sent[n])

(* The reader starts on an empty stream with its own address known.        *)
StartInv ==
  /\ cstate = "live" => rstate # "none"
  /\ rstate = "none" => sent = <<>> /\ dispatched = <<>>
  /\ rstate # "none" => source # 0

FrameInv ==
  /\ StartInv
  /\ DispatchedInOrder
  /\ Covered /\ Reading => \E n, c : Located(n, c)

(* What is still to be read is what arrived and what has not.              *)
LEMMA RestType ==
  ASSUME Typed
  PROVE  /\ Rest \in Seq(Nat) /\ Len(Rest) = Len(buf) + Len(wire) /\ Len(Rest) \in Nat
         /\ Len(buf) \in Nat /\ Len(wire) \in Nat /\ Len(sent) \in Nat
         /\ \A i \in 1 .. Len(buf) : Rest[i] = buf[i]
         /\ \A k \in 1 .. Len(sent) : sent[k] \in Shapes
<1>1. buf \in Seq(Nat) /\ wire \in Seq(Nat) /\ sent \in Seq(Shapes)
  BY DEF Typed
<1> QED
  BY <1>1 DEF Rest

(* read_exact(m) takes the first m units of what is still to be read.      *)
LEMMA RestRead ==
  ASSUME Typed, NEW m \in Nat, ReadExact(m)
  PROVE  /\ m <= Len(Rest) /\ Len(Rest') = Len(Rest) - m
         /\ \A i \in 1 .. Len(Rest) - m : Rest'[i] = Rest[m + i]
         /\ \A i \in 1 .. m : buf[i] = Rest[i]
<1>1. /\ buf \in Seq(Nat) /\ wire \in Seq(Nat) /\ m <= Len(buf)
      /\ Len(buf) \in Nat /\ Len(wire) \in Nat
  BY DEF Typed, ReadExact
<1>2. /\ buf' \in Seq(Nat) /\ wire' = wire
      /\ Len(buf') = Len(buf) - m
      /\ \A k \in 1 .. Len(buf') : buf'[k] = buf[m + k]
  BY <1>1, ReadType
<1>3. /\ Len(Rest) = Len(buf) + Len(wire)
      /\ \A k \in 1 .. Len(buf) + Len(wire) :
           Rest[k] = IF k <= Len(buf) THEN buf[k] ELSE wire[k - Len(buf)]
  BY <1>1, ConcatNat DEF Rest
<1>4. /\ Len(Rest') = Len(buf') + Len(wire)
      /\ \A k \in 1 .. Len(buf') + Len(wire) :
           Rest'[k] = IF k <= Len(buf') THEN buf'[k] ELSE wire[k - Len(buf')]
  <2>1. Rest' = buf' \o wire
    BY <1>2 DEF Rest
  <2> QED
    BY <1>1, <1>2, <2>1, ConcatNat
<1>5. ASSUME NEW i \in 1 .. Len(Rest) - m PROVE Rest'[i] = Rest[m + i]
  <2>1. i \in 1 .. Len(buf') + Len(wire) /\ m + i \in 1 .. Len(buf) + Len(wire)
    BY <1>1, <1>2, <1>3
  <2>2. CASE i <= Len(buf')
    <3>1. i \in 1 .. Len(buf') /\ m + i <= Len(buf)
      BY <1>1, <1>2, <2>2
    <3>2. Rest'[i] = buf'[i]
      BY <1>4, <2>1, <2>2, Zenon
    <3>3. Rest[m + i] = buf[m + i]
      BY <1>3, <2>1, <3>1, Zenon
    <3> QED
      BY <1>2, <3>1, <3>2, <3>3, Zenon
  <2>3. CASE ~(i <= Len(buf'))
    <3>1. ~(m + i <= Len(buf)) /\ i - Len(buf') = (m + i) - Len(buf)
      BY <1>1, <1>2, <2>3
    <3>2. Rest'[i] = wire[i - Len(buf')]
      BY <1>4, <2>1, <2>3, Zenon
    <3>3. Rest[m + i] = wire[(m + i) - Len(buf)]
      BY <1>3, <2>1, <3>1, Zenon
    <3> QED
      BY <3>1, <3>2, <3>3, Zenon
  <2> QED
    BY <2>2, <2>3
<1>6. ASSUME NEW i \in 1 .. m PROVE buf[i] = Rest[i]
  <2>1. i \in 1 .. Len(buf) + Len(wire) /\ i <= Len(buf)
    BY <1>1
  <2> QED
    BY <1>3, <2>1
<1>7. m <= Len(Rest) /\ Len(Rest') = Len(Rest) - m
  BY <1>1, <1>2, <1>3, <1>4
<1> QED
  BY <1>5, <1>6, <1>7, Zenon

(* Reading within the n-th packet moves the marks.                         *)
LEMMA MarksRead ==
  ASSUME Typed, NEW n, NEW c, Marks(n, c), NEW m \in Nat, m <= c[n], ReadExact(m),
         UNCHANGED <<sent, source>>
  PROVE  \E d : Marks(n, d)' /\ d[n] = c[n] - m
<1>0. /\ n \in 0 .. Len(sent) /\ c \in [n .. Len(sent) -> Nat] /\ Len(sent) \in Nat
      /\ \A j, k \in n .. Len(sent) : j <= k => c[j] <= c[k]
  BY RestType DEF Marks
<1>1. /\ n \in 0 .. Len(sent) /\ c \in [n .. Len(sent) -> Nat] /\ Len(sent) \in Nat
      /\ \A k \in n .. Len(sent) : c[k] \in Nat /\ m <= c[k]
  <2>1. ASSUME NEW k \in n .. Len(sent) PROVE c[k] \in Nat /\ m <= c[k]
    <3>1. n \in n .. Len(sent) /\ n <= k
      BY <1>0
    <3>2. c[n] <= c[k] /\ c[n] \in Nat /\ c[k] \in Nat
      BY <1>0, <3>1
    <3> QED
      BY <3>2
  <2> QED
    BY <1>0, <2>1
<1>2. PICK d : d = [k \in n .. Len(sent) |-> c[k] - m]
  OBVIOUS
<1>3. \A k \in n .. Len(sent) : d[k] = c[k] - m /\ d[k] \in Nat
  BY <1>1, <1>2
<1>4. d \in [n .. Len(sent) -> Nat]
  BY <1>2, <1>3
<1>5. n \in n .. Len(sent) /\ Len(sent) \in n .. Len(sent)
  BY <1>1
<1>6. d[n] = c[n] - m
  BY <1>3, <1>5
<1>7. /\ m <= Len(Rest) /\ Len(Rest') = Len(Rest) - m
      /\ \A i \in 1 .. Len(Rest) - m : Rest'[i] = Rest[m + i]
      /\ Len(Rest) \in Nat
  BY RestRead, RestType
<1>8. d[Len(sent)] = Len(Rest')
  BY <1>3, <1>5, <1>7 DEF Marks
<1>9. \A j, k \in n .. Len(sent) : j <= k => d[j] <= d[k]
  <2> SUFFICES ASSUME NEW j \in n .. Len(sent), NEW k \in n .. Len(sent), j <= k
               PROVE  d[j] <= d[k]
    OBVIOUS
  <2>1. c[j] <= c[k]
    BY <1>0
  <2>2. d[j] = c[j] - m /\ d[k] = c[k] - m /\ c[j] \in Nat /\ c[k] \in Nat
    BY <1>1, <1>3
  <2> QED
    BY <2>1, <2>2
<1>10. ASSUME NEW k \in n + 1 .. Len(sent)
       PROVE  /\ d[k] = d[k - 1] + sent[k].len + 2
              /\ \A i \in 1 .. sent[k].len + 2 : Rest'[d[k - 1] + i] = Bytes(k, sent[k])[i]
  <2>1. /\ k \in n .. Len(sent) /\ k - 1 \in n .. Len(sent) /\ k \in 1 .. Len(sent)
        /\ c[k] = c[k - 1] + sent[k].len + 2
        /\ \A i \in 1 .. sent[k].len + 2 : Rest[c[k - 1] + i] = Bytes(k, sent[k])[i]
    <3>1. k \in n .. Len(sent) /\ k - 1 \in n .. Len(sent) /\ k \in 1 .. Len(sent)
      BY <1>1
    <3> QED
      BY <3>1, Zenon DEF Marks, PacketAt
  <2>2. sent[k].len \in Nat
    BY <2>1, RestType, FramingAssumption
  <2>3. c[k - 1] \in Nat /\ m <= c[k - 1] /\ d[k - 1] = c[k - 1] - m
        /\ d[k] = c[k] - m /\ c[k] \in Nat /\ c[k] <= Len(Rest)
    BY <1>1, <1>3, <1>5, <2>1, SMTT(30) DEF Marks
  <2>4. d[k] = d[k - 1] + sent[k].len + 2
    BY <2>1, <2>2, <2>3, SMTT(30)
  <2>5. ASSUME NEW i \in 1 .. sent[k].len + 2
        PROVE  Rest'[d[k - 1] + i] = Bytes(k, sent[k])[i]
    <3>1. d[k - 1] + i \in 1 .. Len(Rest) - m /\ m + (d[k - 1] + i) = c[k - 1] + i
      <4> DEFINE x == c[k - 1]
      <4> DEFINE l == sent[k].len
      <4>1. /\ x \in Nat /\ l \in Nat /\ i \in 1 .. l + 2 /\ m <= x
            /\ x + l + 2 <= Len(Rest) /\ Len(Rest) \in Nat /\ d[k - 1] = x - m
        BY <1>7, <2>1, <2>2, <2>3
      <4> HIDE DEF x, l
      <4>2. (x - m) + i \in 1 .. Len(Rest) - m /\ m + ((x - m) + i) = x + i
        BY <4>1
      <4> QED
        BY <4>1, <4>2 DEF x
    <3> QED
      BY <1>7, <2>1, <3>1
  <2> QED
    BY <2>4, <2>5
<1>11. Marks(n, d)'
  <2>1. ASSUME NEW k \in n + 1 .. Len(sent')
        PROVE  d[k] = d[k - 1] + sent'[k].len + 2 /\ PacketAt(k, d[k - 1])'
    BY <1>10, Zenon DEF PacketAt, Bytes
  <2> QED
    BY <1>1, <1>4, <1>8, <1>9, <2>1, Zenon DEF Marks
<1> QED
  BY <1>6, <1>11

(* The next packet, if there is one, is at the front of what follows.      *)
LEMMA MarksNext ==
  ASSUME Typed, NEW n, NEW c, Marks(n, c), n < Len(sent)
  PROVE  \E d : /\ Marks(n + 1, d)
                /\ d[n + 1] = c[n] + sent[n + 1].len + 2
                /\ PacketAt(n + 1, c[n])
<1>1. /\ n \in 0 .. Len(sent) /\ c \in [n .. Len(sent) -> Nat] /\ Len(sent) \in Nat
      /\ n + 1 \in 0 .. Len(sent) /\ n + 1 \in n + 1 .. Len(sent)
      /\ Len(sent) \in n + 1 .. Len(sent) /\ (n + 1) - 1 = n
      /\ \A k \in n + 1 .. Len(sent) : k \in n .. Len(sent)
      /\ \A k \in (n + 1) + 1 .. Len(sent) :
           k \in n + 1 .. Len(sent) /\ k - 1 \in n + 1 .. Len(sent)
  <2>1. n \in 0 .. Len(sent) /\ c \in [n .. Len(sent) -> Nat] /\ Len(sent) \in Nat
    BY RestType, Zenon DEF Marks
  <2>2. n \in Nat /\ n + 1 <= Len(sent)
    BY <2>1
  <2>3. \A x, y \in Nat : x + 1 <= y =>
          /\ x + 1 \in 0 .. y /\ x + 1 \in x + 1 .. y /\ y \in x + 1 .. y /\ (x + 1) - 1 = x
          /\ \A k \in x + 1 .. y : k \in x .. y
          /\ \A k \in (x + 1) + 1 .. y : k \in x + 1 .. y /\ k - 1 \in x + 1 .. y
    OBVIOUS
  <2> QED
    BY <2>1, <2>2, <2>3, Zenon
<1> DEFINE d == [k \in n + 1 .. Len(sent) |-> c[k]]
<1>2. d \in [n + 1 .. Len(sent) -> Nat] /\ \A k \in n + 1 .. Len(sent) : d[k] = c[k]
  BY <1>1
<1> HIDE DEF d
<1>3. Marks(n + 1, d)
  BY <1>1, <1>2 DEF Marks
<1>4. d[n + 1] = c[n] + sent[n + 1].len + 2 /\ PacketAt(n + 1, c[n])
  BY <1>1, <1>2 DEF Marks
<1> QED
  BY <1>3, <1>4

(* A packet sent is marked at the end.                                     *)
LEMMA MarksSend ==
  ASSUME Typed, NEW n, NEW c, Marks(n, c), NEW s \in Shapes,
         sent' = Append(sent, s), wire' = wire \o Bytes(Len(sent) + 1, s),
         UNCHANGED <<buf, source>>
  PROVE  /\ \E d : Marks(n, d)' /\ d[n] = c[n]
         /\ \A i \in 1 .. Len(Rest) : Rest'[i] = Rest[i]
<1> DEFINE l == Len(sent)
<1> DEFINE b == Bytes(l + 1, s)
<1>1. /\ n \in 0 .. l /\ c \in [n .. l -> Nat] /\ l \in Nat
      /\ Rest \in Seq(Nat) /\ Len(Rest) \in Nat
      /\ buf \in Seq(Nat) /\ wire \in Seq(Nat) /\ sent \in Seq(Shapes) /\ source \in Nat
  BY RestType DEF Marks, Typed
<1>2. b \in Seq(Nat) /\ Len(b) = s.len + 2 /\ s.len \in Nat
  <2>1. l + 1 \in Nat
    BY <1>1
  <2> QED
    BY <1>1, <2>1, BytesFacts, Zenon
<1>a. Len(Rest) \in Nat /\ s.len \in Nat /\ n \in 0 .. l /\ l \in Nat
  BY <1>1, <1>2
<1>3. Rest' = Rest \o b
  <2>1. Rest' = buf \o (wire \o b)
    BY DEF Rest
  <2> HIDE DEF b
  <2>2. buf \o (wire \o b) = (buf \o wire) \o b
    <3>1. buf \in Seq(Nat) /\ wire \in Seq(Nat) /\ b \in Seq(Nat)
      BY <1>1, <1>2
    <3>2. (buf \o wire) \o b = buf \o (wire \o b)
      BY <3>1, ConcatAssocNat, Zenon
    <3> QED
      BY <3>2
  <2> QED
    BY <2>1, <2>2 DEF Rest
<1>4. Len(sent') = l + 1 /\ sent'[l + 1] = s /\ \A k \in 1 .. l : sent'[k] = sent[k]
  BY <1>1
<1> HIDE DEF b, l
<1>5. /\ Len(Rest') = Len(Rest) + s.len + 2
      /\ \A i \in 1 .. Len(Rest) : Rest'[i] = Rest[i]
      /\ \A i \in 1 .. s.len + 2 : Rest'[Len(Rest) + i] = b[i]
  <2>1. /\ Len(Rest \o b) = Len(Rest) + Len(b)
        /\ \A k \in 1 .. Len(Rest) : (Rest \o b)[k] = Rest[k]
        /\ \A k \in 1 .. Len(b) : (Rest \o b)[Len(Rest) + k] = b[k]
    BY <1>1, <1>2, ConcatParts, Zenon
  <2>2. Len(b) = s.len + 2
    BY <1>2
  <2>3. Len(Rest) + (s.len + 2) = Len(Rest) + s.len + 2
    BY <1>a
  <2> QED
    BY <1>3, <2>1, <2>2, <2>3, Zenon
<1>6. PICK d : d = [k \in n .. l + 1 |-> IF k = l + 1 THEN c[l] + s.len + 2 ELSE c[k]]
  OBVIOUS
<1>7. /\ l \in n .. l /\ c[l] \in Nat /\ c[l] = Len(Rest)
      /\ l + 1 \in n .. l + 1
      /\ \A k \in n .. l : k \in n .. l + 1 /\ k # l + 1 /\ c[k] \in Nat /\ c[k] <= c[l]
  <2>1. /\ l \in n .. l /\ l + 1 \in n .. l + 1
        /\ \A k \in n .. l : k \in n .. l + 1 /\ k # l + 1 /\ k <= l
    BY <1>a
  <2>2. c[l] = Len(Rest) /\ \A j, k \in n .. l : j <= k => c[j] <= c[k]
    BY DEF Marks, l
  <2>3. c \in [n .. l -> Nat]
    BY <1>1
  <2> QED
    BY <2>1, <2>2, <2>3
<1>8. /\ d \in [n .. l + 1 -> Nat]
      /\ d[l + 1] = Len(Rest) + s.len + 2
      /\ \A k \in n .. l : d[k] = c[k]
  <2>1. \A k \in n .. l + 1 : k = l + 1 \/ k \in n .. l
    BY <1>a
  <2>2. c[l] + s.len + 2 \in Nat /\ c[l] + s.len + 2 = Len(Rest) + s.len + 2
    BY <1>a, <1>7
  <2> QED
    BY <1>6, <1>7, <2>1, <2>2
<1>9. d[n] = c[n]
  BY <1>1, <1>8
<1>10. ASSUME NEW j \in n .. l + 1, NEW k \in n .. l + 1, j <= k PROVE d[j] <= d[k]
  <2>1. CASE k = l + 1
    <3>1. j = l + 1 \/ j \in n .. l
      BY <1>1
    <3>2. ASSUME j \in n .. l PROVE d[j] <= d[k]
      <4>1. c[j] \in Nat /\ c[j] <= Len(Rest) /\ d[j] = c[j]
        BY <1>7, <1>8, <3>2
      <4>2. \A x, y, z \in Nat : x <= y => x <= y + z + 2
        OBVIOUS
      <4>3. d[k] = Len(Rest) + s.len + 2
        BY <1>8, <2>1
      <4> QED
        BY <1>a, <4>1, <4>2, <4>3
    <3> QED
      BY <1>a, <1>8, <2>1, <3>1, <3>2
  <2>2. CASE k # l + 1
    <3>1. k \in n .. l /\ j \in n .. l
      BY <1>1, <1>10, <2>2
    <3> QED
      BY <1>8, <1>10, <3>1 DEF Marks, l
  <2> QED
    BY <2>1, <2>2
<1>11. ASSUME NEW k \in n + 1 .. l + 1
       PROVE  /\ d[k] = d[k - 1] + sent'[k].len + 2
              /\ \A i \in 1 .. sent'[k].len + 2 : Rest'[d[k - 1] + i] = Bytes(k, sent'[k])[i]
  <2>1. CASE k = l + 1
    <3>1. d[k - 1] = Len(Rest) /\ sent'[k] = s /\ d[k] = Len(Rest) + s.len + 2
      BY <1>1, <1>4, <1>7, <1>8, <2>1
    <3> QED
      BY <1>5, <2>1, <3>1 DEF b
  <2>2. CASE k # l + 1
    <3>1. /\ k \in n + 1 .. l /\ k \in n .. l /\ k - 1 \in n .. l /\ k \in 1 .. l
      BY <1>1, <2>2
    <3>2. sent'[k] = sent[k] /\ sent[k].len \in Nat
      BY <1>4, <3>1, RestType, FramingAssumption DEF l
    <3>3. /\ c[k] = c[k - 1] + sent[k].len + 2
          /\ \A i \in 1 .. sent[k].len + 2 : Rest[c[k - 1] + i] = Bytes(k, sent[k])[i]
      BY <3>1 DEF Marks, PacketAt, l
    <3>4. d[k] = c[k] /\ d[k - 1] = c[k - 1] /\ c[k] <= Len(Rest) /\ c[k - 1] \in Nat
      BY <1>7, <1>8, <3>1
    <3>5. ASSUME NEW i \in 1 .. sent[k].len + 2
          PROVE  Rest'[c[k - 1] + i] = Bytes(k, sent[k])[i]
      <4>1. c[k - 1] + i \in 1 .. Len(Rest)
        <5> DEFINE x == c[k - 1]
        <5> DEFINE y == sent[k].len
        <5>1. x \in Nat /\ y \in Nat /\ x + y + 2 <= Len(Rest) /\ i \in 1 .. y + 2
          BY <3>2, <3>3, <3>4
        <5> HIDE DEF x, y
        <5>2. x + i \in 1 .. Len(Rest)
          BY <1>1, <5>1
        <5> QED
          BY <5>2 DEF x
      <4> QED
        BY <1>5, <3>3, <4>1
    <3> QED
      BY <3>2, <3>3, <3>4, <3>5
  <2> QED
    BY <2>1, <2>2
<1>12. Marks(n, d)'
  <2>1. n \in 0 .. Len(sent') /\ d \in [n .. Len(sent') -> Nat] /\ d[Len(sent')] = Len(Rest')
    BY <1>1, <1>4, <1>5, <1>8
  <2>2. \A j, k \in n .. Len(sent') : j <= k => d[j] <= d[k]
    BY <1>4, <1>10
  <2>3. \A k \in n + 1 .. Len(sent') :
          /\ d[k] = d[k - 1] + sent'[k].len + 2
          /\ \A i \in 1 .. sent'[k].len + 2 : Rest'[d[k - 1] + i] = Bytes(k, sent'[k])[i]
    BY <1>4, <1>11
  <2>4. ASSUME NEW k \in n + 1 .. Len(sent') PROVE PacketAt(k, d[k - 1])'
    BY <2>3, ZenonT(40) DEF PacketAt, Bytes
  <2> QED
    BY <2>1, <2>2, <2>3, <2>4 DEF Marks
<1> QED
  BY <1>5, <1>9, <1>12

(* The reader starts before the first packet.                              *)
LEMMA StartLocated ==
  ASSUME Len(Rest') = 0, sent' = <<>>, dispatched' = <<>>, rstate' = "tcp"
  PROVE  \E n, c : Located(n, c)'
<1> DEFINE c == [k \in {0} |-> 0]
<1>1. Len(sent') = 0 /\ DOMAIN dispatched' = {}
  OBVIOUS
<1>2. 0 .. Len(sent') = {0} /\ 0 + 1 .. Len(sent') = {} /\ 1 .. 0 = {}
  BY <1>1
<1>3. c \in [{0} -> Nat] /\ c[0] = 0
  OBVIOUS
<1> HIDE DEF c
<1>4. Marks(0, c)'
  BY <1>1, <1>2, <1>3 DEF Marks
<1>5. Passed(0)'
  BY <1>1, <1>2 DEF Passed
<1>6. Located(0, c)'
  BY <1>3, <1>4, <1>5 DEF Located
<1> QED
  BY <1>6

(* Nothing is lost between the stream and the reader.                      *)
LEMMA Undisturbed ==
  ASSUME NEW n, NEW c, Located(n, c), Rest' = Rest,
         UNCHANGED <<sent, source, rstate, hdr, dispatched>>
  PROVE  Located(n, c)'
<1>1. Marks(n, c)'
  BY DEF Located, Marks, PacketAt, Bytes
<1>2. Passed(n) => Passed(n)'
  BY DEF Passed, HandedOn
<1>3. Passed(n - 1) => Passed(n - 1)'
  BY DEF Passed, HandedOn
<1>4. Current(n, c[n]) => Current(n, c[n])'
  BY DEF Current, Bytes
<1> QED
  BY <1>1, <1>2, <1>3, <1>4 DEF Located

(* The marks tell where each packet still to be read ends.                 *)
LEMMA LocatedFacts ==
  ASSUME Typed, NEW n, NEW c, Located(n, c)
  PROVE  /\ Marks(n, c) /\ n \in Nat /\ n <= Len(sent) /\ Len(sent) \in Nat /\ c[n] \in Nat
         /\ c[Len(sent)] = Len(Rest) /\ c[n] <= Len(Rest) /\ Len(Rest) \in Nat
<1>1. Marks(n, c) /\ Len(sent) \in Nat /\ Len(Rest) \in Nat
  BY RestType DEF Located
<1>2. n \in 0 .. Len(sent) /\ n \in n .. Len(sent) /\ Len(sent) \in n .. Len(sent)
  BY <1>1 DEF Marks
<1>3. /\ c \in [n .. Len(sent) -> Nat] /\ c[Len(sent)] = Len(Rest)
      /\ \A j, k \in n .. Len(sent) : j <= k => c[j] <= c[k]
  BY <1>1 DEF Marks
<1> QED
  BY <1>1, <1>2, <1>3

(* A TCP header that is read is the next packet's, whichever cut it comes in.*)
LEMMA LocatedTcpHeader ==
  ASSUME Typed, NEW n, NEW c, Located(n, c), ReadTcpHeader
  PROVE  \E m, e : Located(m, e)'
<1>1. /\ rstate = "tcp" /\ ReadExact(2) /\ UNCHANGED <<sent, source, dispatched>>
      /\ hdr' = SubSeq(buf, 1, 2)
      /\ rstate' = IF buf[2] < 3 THEN "discard" ELSE "ams"
  BY DEF ReadTcpHeader, connVars, AmsLen
<1>2. c[n] = 0 /\ Passed(n)
  BY <1>1 DEF Located
<1>3. /\ 2 <= Len(Rest) /\ Len(Rest') = Len(Rest) - 2
      /\ \A i \in 1 .. Len(Rest) - 2 : Rest'[i] = Rest[2 + i]
      /\ \A i \in 1 .. 2 : buf[i] = Rest[i]
  <2>1. 2 \in Nat
    OBVIOUS
  <2> QED
    BY <1>1, <2>1, RestRead
<1>4. Marks(n, c) /\ n \in Nat /\ Len(sent) \in Nat /\ n < Len(sent) /\ Len(Rest) \in Nat
  BY <1>2, <1>3, LocatedFacts
<1> DEFINE m == n + 1
<1> DEFINE s == sent[m]
<1>5. PICK d : Marks(m, d) /\ d[m] = c[n] + s.len + 2 /\ PacketAt(m, c[n])
  BY <1>4, MarksNext
<1>6. m \in Nat /\ m # 0 /\ m - 1 = n /\ m \in 1 .. Len(sent) /\ s \in Shapes /\ source \in Nat
  BY <1>4, RestType DEF Typed
<1> HIDE DEF m
<1>7. /\ s.len \in Nat /\ Bytes(m, s)[1] = s.kind /\ Bytes(m, s)[2] = s.len
      /\ d[m] = s.len + 2
  <2>1. s.len \in Nat /\ Bytes(m, s)[1] = s.kind /\ Bytes(m, s)[2] = s.len
    BY <1>6, BytesFacts
  <2> QED
    BY <1>2, <1>5, <2>1
<1>8. PICK e : Marks(m, e)' /\ e[m] = d[m] - 2
  <2>1. 2 \in Nat /\ 2 <= d[m]
    BY <1>7
  <2> QED
    BY <1>1, <1>5, <2>1, MarksRead
<1>9. e[m] = s.len
  BY <1>7, <1>8
<1>10. \A i \in 1 .. s.len + 2 : Rest[i] = Bytes(m, s)[i]
  BY <1>2, <1>5, <1>7 DEF PacketAt
<1>11. /\ Len(hdr') = 2
       /\ \A i \in 1 .. 2 : hdr'[i] = Bytes(m, s)[i]
       /\ buf[2] = s.len
  <2>1. 2 \in Nat /\ buf \in Seq(Nat) /\ \A i \in 1 .. 2 : i \in 1 .. s.len + 2
    BY <1>7 DEF Typed
  <2>2. Len(hdr') = 2 /\ \A i \in 1 .. 2 : hdr'[i] = buf[i]
    BY <1>1, <2>1, ReadType
  <2> QED
    BY <1>3, <1>7, <1>10, <2>1, <2>2
<1>12. s.len + 2 <= Len(Rest)
  <2>1. /\ m \in m .. Len(sent) /\ Len(sent) \in m .. Len(sent) /\ m <= Len(sent)
    BY <1>4, <1>6
  <2> QED
    BY <1>5, <1>7, <2>1 DEF Marks
<1>13. ASSUME NEW i \in 1 .. s.len PROVE Rest'[i] = Bytes(m, s)[2 + i]
  <2>1. i \in 1 .. Len(Rest) - 2 /\ 2 + i \in 1 .. s.len + 2
    BY <1>4, <1>7, <1>12
  <2> QED
    BY <1>3, <1>10, <2>1
<1>14. rstate' # "payload" /\ rstate' # "tcp" /\ (rstate' = "discard" <=> s.len < 3)
  BY <1>1, <1>11
<1>15. Current(m, e[m])'
  <2>1. s' = s /\ Bytes(m, s)' = Bytes(m, s)
    BY <1>1 DEF Bytes
  <2> QED
    BY <1>6, <1>9, <1>11, <1>13, <1>14, <2>1 DEF Current
<1>16. Passed(m - 1)'
  BY <1>1, <1>2, <1>6 DEF Passed, HandedOn
<1>17. Located(m, e)'
  BY <1>8, <1>14, <1>15, <1>16 DEF Located
<1> QED
  BY <1>17

(* What is known of the packet the reader is in.                           *)
LEMMA CurrentFacts ==
  ASSUME Typed, NEW n, NEW c, Located(n, c), Reading, rstate # "tcp"
  PROVE  /\ n \in 1 .. Len(sent) /\ n \in Nat /\ sent[n] \in Shapes /\ source \in Nat
         /\ sent[n].len \in Nat /\ sent[n].kind \in Nat /\ sent[n].dlen \in Nat
         /\ Passed(n - 1) /\ Current(n, c[n]) /\ Marks(n, c) /\ c[n] \in Nat
         /\ c[n] <= Len(Rest) /\ Len(Rest) \in Nat
         /\ hdr[1] = sent[n].kind /\ hdr[2] = sent[n].len
<1>1. Passed(n - 1) /\ Current(n, c[n]) /\ Marks(n, c)
  BY DEF Located
<1>2. /\ n \in Nat /\ n <= Len(sent) /\ Len(sent) \in Nat /\ c[n] \in Nat
      /\ c[n] <= Len(Rest) /\ Len(Rest) \in Nat
  BY LocatedFacts
<1>3. n \in 1 .. Len(sent) /\ sent[n] \in Shapes /\ source \in Nat
  BY <1>1, <1>2, RestType DEF Current, Typed
<1>4. /\ sent[n].len \in Nat /\ sent[n].kind \in Nat /\ sent[n].dlen \in Nat
      /\ Bytes(n, sent[n])[1] = sent[n].kind /\ Bytes(n, sent[n])[2] = sent[n].len
  BY <1>2, <1>3, BytesFacts
<1>5. 1 \in 1 .. Len(hdr) /\ 2 \in 1 .. Len(hdr)
  <2>1. Len(hdr) = 2 \/ Len(hdr) = 5
    BY DEF Typed, Reading
  <2>2. CASE Len(hdr) = 2
    BY <2>2
  <2>3. CASE Len(hdr) = 5
    BY <2>3
  <2> QED
    BY <2>1, <2>2, <2>3
<1>6. hdr[1] = sent[n].kind /\ hdr[2] = sent[n].len
  BY <1>1, <1>4, <1>5 DEF Current
<1> QED
  BY <1>1, <1>2, <1>3, <1>4, <1>6

(* Discarding the announced length ends where the packet ends.             *)
LEMMA LocatedDiscard ==
  ASSUME Typed, NEW n, NEW c, Located(n, c), Discard
  PROVE  \E e : Located(n, e)'
<1>1. /\ rstate = "discard" /\ rstate' = "tcp" /\ ReadExact(hdr[2])
      /\ UNCHANGED <<sent, source, dispatched>>
  BY DEF Discard, DiscardOf, connVars
<1>2. /\ n \in 1 .. Len(sent) /\ n \in Nat /\ sent[n].len \in Nat
      /\ Passed(n - 1) /\ Current(n, c[n]) /\ Marks(n, c) /\ hdr[2] = sent[n].len
  BY <1>1, CurrentFacts DEF Reading
<1>3. c[n] = sent[n].len /\ sent[n].len < 3
  BY <1>1, <1>2 DEF Current
<1>4. PICK e : Marks(n, e)' /\ e[n] = c[n] - hdr[2]
  <2>1. hdr[2] \in Nat /\ hdr[2] <= c[n]
    BY <1>2, <1>3
  <2> QED
    BY <1>1, <1>2, <2>1, MarksRead
<1>5. e[n] = 0
  BY <1>2, <1>3, <1>4
<1>6. WellFormed(sent[n]) /\ ~IsOurs(sent[n])
  BY <1>2, <1>3 DEF WellFormed, IsOurs, AmsLen
<1>7. Passed(n)'
  <2>1. ASSUME NEW k \in 1 .. n
        PROVE  WellFormed(sent[k]) /\ (IsOurs(sent[k]) => HandedOn(k))
    <3>1. k = n \/ k \in 1 .. n - 1
      BY <1>2
    <3> QED
      BY <1>2, <1>6, <3>1 DEF Passed
  <2>2. \A j \in DOMAIN dispatched : dispatched[j].n \in Nat /\ dispatched[j].n <= n
    BY <1>2 DEF Passed
  <2> QED
    BY <1>1, <2>1, <2>2 DEF Passed, HandedOn
<1>8. Located(n, e)'
  BY <1>1, <1>4, <1>5, <1>7 DEF Located
<1> QED
  BY <1>8

(* The AMS header that is read is that of the packet begun.                *)
LEMMA LocatedAmsHeader ==
  ASSUME Typed, NEW n, NEW c, Located(n, c), ReadAmsHeader
  PROVE  \E e : Located(n, e)'
<1> DEFINE s == sent[n]
<1>1. /\ rstate = "ams" /\ rstate' = "payload" /\ ReadExact(3)
      /\ hdr' = hdr \o SubSeq(buf, 1, 3)
      /\ UNCHANGED <<sent, source, dispatched>>
  BY DEF ReadAmsHeader, connVars, AmsLen
<1>2. /\ n \in 1 .. Len(sent) /\ n \in Nat /\ s.len \in Nat
      /\ Passed(n - 1) /\ Current(n, c[n]) /\ Marks(n, c)
      /\ c[n] <= Len(Rest) /\ Len(Rest) \in Nat
  BY <1>1, CurrentFacts DEF Reading
<1>3. /\ c[n] = s.len /\ s.len >= 3
      /\ Len(hdr) = 2 /\ hdr \in Seq(Nat) /\ buf \in Seq(Nat)
      /\ \A i \in 1 .. 2 : hdr[i] = Bytes(n, s)[i]
      /\ \A i \in 1 .. s.len : Rest[i] = Bytes(n, s)[2 + i]
  <2>1. Len(hdr) = 2 /\ hdr \in Seq(Nat) /\ buf \in Seq(Nat)
    BY <1>1 DEF Typed
  <2>2. c[n] = s.len /\ ~(s.len < 3)
    BY <1>1, <1>2 DEF Current
  <2>3. /\ \A i \in 1 .. 2 : hdr[i] = Bytes(n, s)[i]
        /\ \A i \in 1 .. s.len : Rest[i] = Bytes(n, s)[2 + i]
    BY <1>2, <2>1, <2>2 DEF Current
  <2>4. s.len >= 3
    BY <1>2, <2>2
  <2> QED
    BY <2>1, <2>2, <2>3, <2>4, Zenon
<1>4. PICK e : Marks(n, e)' /\ e[n] = c[n] - 3
  <2>1. 3 \in Nat /\ 3 <= c[n]
    BY <1>2, <1>3
  <2> QED
    BY <1>1, <1>2, <2>1, MarksRead
<1>5. /\ Len(Rest') = Len(Rest) - 3
      /\ \A i \in 1 .. Len(Rest) - 3 : Rest'[i] = Rest[3 + i]
      /\ \A i \in 1 .. 3 : buf[i] = Rest[i]
  <2>1. 3 \in Nat
    OBVIOUS
  <2> QED
    BY <1>1, <2>1, RestRead
<1> DEFINE ams == SubSeq(buf, 1, 3)
<1>6. ams \in Seq(Nat) /\ Len(ams) = 3 /\ \A i \in 1 .. 3 : ams[i] = buf[i]
  <2>1. 3 \in Nat
    OBVIOUS
  <2> QED
    BY <1>1, <1>3, <2>1, ReadType
<1>7. hdr' = hdr \o ams
  BY <1>1
<1> HIDE DEF ams, s
<1>8. /\ Len(hdr') = 5
      /\ \A k \in 1 .. 5 : hdr'[k] = IF k <= 2 THEN hdr[k] ELSE ams[k - 2]
  <2>1. /\ Len(hdr \o ams) = Len(hdr) + Len(ams)
        /\ \A k \in 1 .. Len(hdr) + Len(ams) :
             (hdr \o ams)[k] = IF k <= Len(hdr) THEN hdr[k] ELSE ams[k - Len(hdr)]
    BY <1>3, <1>6, ConcatNat, Zenon
  <2>2. Len(hdr) + Len(ams) = 5 /\ Len(hdr) = 2
    BY <1>3, <1>6
  <2> QED
    BY <1>7, <2>1, <2>2
<1>9. ASSUME NEW k \in 1 .. 5 PROVE hdr'[k] = Bytes(n, s)[k]
  <2>1. CASE k <= 2
    BY <1>3, <1>8, <2>1
  <2>2. CASE ~(k <= 2)
    <3>1. k - 2 \in 1 .. 3 /\ k - 2 \in 1 .. s.len /\ 2 + (k - 2) = k
      BY <1>2, <1>3, <2>2 DEF s
    <3>2. hdr'[k] = ams[k - 2] /\ ams[k - 2] = buf[k - 2] /\ buf[k - 2] = Rest[k - 2]
      BY <1>5, <1>6, <1>8, <2>2, <3>1
    <3> QED
      BY <1>3, <3>1, <3>2
  <2> QED
    BY <2>1, <2>2
<1>10. ASSUME NEW i \in 1 .. s.len - 3 PROVE Rest'[i] = Bytes(n, s)[5 + i]
  <2>1. s.len \in Nat /\ c[n] = s.len /\ s.len <= Len(Rest) /\ Len(Rest) \in Nat
    BY <1>2, <1>3 DEF s
  <2>2. i \in 1 .. Len(Rest) - 3 /\ 3 + i \in 1 .. s.len /\ 2 + (3 + i) = 5 + i
    BY <2>1
  <2>3. Rest'[i] = Rest[3 + i] /\ Rest[3 + i] = Bytes(n, s)[2 + (3 + i)]
    BY <1>3, <1>5, <2>2
  <2> QED
    BY <2>2, <2>3
<1>11. Current(n, e[n])'
  <2>1. s' = s /\ Bytes(n, s)' = Bytes(n, s) /\ s = sent[n]
    BY <1>1 DEF Bytes, s
  <2>2. n # 0 /\ e[n] = s.len - 3 /\ ~(s.len < 3)
    BY <1>2, <1>3, <1>4 DEF s
  <2> QED
    BY <1>1, <1>8, <1>9, <1>10, <2>1, <2>2 DEF Current
<1>12. Passed(n - 1)'
  BY <1>1, <1>2 DEF Passed, HandedOn
<1>13. Located(n, e)'
  BY <1>1, <1>4, <1>11, <1>12 DEF Located
<1> QED
  BY <1>13

(* Of a packet in whose payload the reader is, every field is known; and   *)
(* what becomes of it is decided as WellFormed and IsOurs have it.         *)
LEMMA PayloadFacts ==
  ASSUME Typed, NEW n, NEW c, Located(n, c), rstate = "payload", source # 0,
         WellFormed(sent[n]) \/ Malformed(sent[n])
  PROVE  /\ sent[n].len >= 3 /\ c[n] = sent[n].len - 3
         /\ hdr[4] = n /\ hdr[5] = sent[n].dlen
         /\ \A i \in 1 .. sent[n].len - 3 : Rest[i] = n
         /\ Verdict(hdr) = "abort" <=> ~WellFormed(sent[n])
         /\ Verdict(hdr) = "dispatch" => IsOurs(sent[n])
         /\ Verdict(hdr) # "abort" => hdr[5] = sent[n].len - 3
         /\ Verdict(hdr) = "skip" => ~IsOurs(sent[n])
         /\ Verdict(hdr) \in {"abort", "skip", "dispatch"}
<1> DEFINE s == sent[n]
<1>1. /\ n \in Nat /\ s \in Shapes /\ source \in Nat
      /\ s.len \in Nat /\ s.kind \in Nat /\ s.dlen \in Nat
      /\ Current(n, c[n]) /\ hdr[1] = s.kind /\ hdr[2] = s.len
  BY CurrentFacts DEF Reading
<1>2. s.us \in BOOLEAN
  BY <1>1, FramingAssumption
<1>3. Len(hdr) = 5
  BY DEF Typed
<1>4. s.len >= 3 /\ c[n] = s.len - 3
  BY <1>1 DEF Current
<1>5. /\ Bytes(n, s)[3] = IF s.us THEN source ELSE 0
      /\ Bytes(n, s)[4] = n
      /\ Bytes(n, s)[5] = s.dlen
      /\ \A k \in 6 .. s.len + 2 : Bytes(n, s)[k] = n
  BY <1>1, <1>4, BytesFacts DEF AmsLen
<1>6. /\ hdr[3] = IF s.us THEN source ELSE 0
      /\ hdr[4] = n /\ hdr[5] = s.dlen
  <2>1. 3 \in 1 .. Len(hdr) /\ 4 \in 1 .. Len(hdr) /\ 5 \in 1 .. Len(hdr)
    BY <1>3
  <2> QED
    BY <1>1, <1>5, <2>1 DEF Current
<1>7. ASSUME NEW i \in 1 .. s.len - 3 PROVE Rest[i] = n
  <2>1. Rest[i] = Bytes(n, s)[5 + i]
    BY <1>1, <1>3, <1>4 DEF Current
  <2>2. 5 + i \in 6 .. s.len + 2
    BY <1>1, <1>4
  <2> QED
    BY <1>5, <2>1, <2>2
<1> HIDE DEF s
<1>8. hdr[3] = source <=> s.us
  BY <1>1, <1>2, <1>6
<1>9. /\ WellFormed(s) <=> s.kind \in RouterKinds \cup {0} /\ s.dlen = s.len - 3
      /\ IsOurs(s) <=> s.kind = 0 /\ s.us
      /\ WellFormed(s) \/ s.kind \notin RouterKinds
  BY <1>1, <1>4 DEF WellFormed, IsOurs, Malformed, AmsLen, s
<1>10. 0 \notin RouterKinds
  BY DEF RouterKinds
<1>11. /\ Verdict(hdr) = "abort" <=> ~WellFormed(s)
       /\ Verdict(hdr) = "dispatch" => IsOurs(s)
       /\ Verdict(hdr) # "abort" => s.dlen = s.len - 3
       /\ Verdict(hdr) = "skip" => ~IsOurs(s)
       /\ Verdict(hdr) \in {"abort", "skip", "dispatch"}
  <2>1. Verdict(hdr) = IF s.kind \in RouterKinds THEN "skip"
                       ELSE IF s.kind # 0 THEN "abort"
                       ELSE IF s.dlen # s.len - 3 THEN "abort"
                       ELSE IF ~s.us THEN "skip"
                       ELSE "dispatch"
    BY <1>1, <1>6, <1>8 DEF Verdict, AmsLen, s
  <2> QED
    BY <1>9, <1>10, <2>1
<1> QED
  BY <1>4, <1>6, <1>7, <1>11 DEF s

(* A payload that was read leaves the reader before the next packet, and   *)
(* what was handed on in order.                                            *)
LEMMA LocatedPayload ==
  ASSUME Typed, NEW n, NEW c, Located(n, c), ReadPayload, source # 0, Covered,
         DispatchedInOrder
  PROVE  /\ DispatchedInOrder'
         /\ rstate' = "tcp" => \E e : Located(n, e)'
<1> DEFINE s == sent[n]
<1>1. /\ rstate = "payload" /\ ReadExact(hdr[5])
      /\ rstate' = IF Verdict(hdr) = "abort" THEN "stopped" ELSE "tcp"
      /\ dispatched' = IF Verdict(hdr) # "dispatch" THEN dispatched
                       ELSE Append(dispatched, [n |-> hdr[4], data |-> SubSeq(buf, 1, hdr[5])])
      /\ UNCHANGED <<sent, source>>
  BY DEF ReadPayload, connVars
<1>2. /\ n \in 1 .. Len(sent) /\ n \in Nat /\ s.len \in Nat /\ s.dlen \in Nat
      /\ Passed(n - 1) /\ Marks(n, c)
  BY <1>1, CurrentFacts DEF Reading
<1>3. DOMAIN sent = 1 .. Len(sent) /\ DOMAIN sent' = 1 .. Len(sent)
  BY <1>1 DEF Typed
<1>4. /\ s.len >= 3 /\ c[n] = s.len - 3
      /\ hdr[4] = n /\ hdr[5] = s.dlen
      /\ \A i \in 1 .. s.len - 3 : Rest[i] = n
      /\ Verdict(hdr) = "abort" <=> ~WellFormed(s)
      /\ Verdict(hdr) = "dispatch" => IsOurs(s)
      /\ Verdict(hdr) # "abort" => hdr[5] = s.len - 3
      /\ Verdict(hdr) = "skip" => ~IsOurs(s)
      /\ Verdict(hdr) \in {"abort", "skip", "dispatch"}
  <2>1. WellFormed(s) \/ Malformed(s)
    BY <1>2, <1>3 DEF Covered
  <2> QED
    BY <1>1, <2>1, PayloadFacts
<1>5. CASE Verdict(hdr) = "abort"
  BY <1>1, <1>5 DEF DispatchedInOrder, HandedOn, Payload
<1>6. CASE Verdict(hdr) # "abort"
  <2>1. WellFormed(s) /\ hdr[5] = s.len - 3 /\ hdr[5] \in Nat /\ rstate' = "tcp"
    BY <1>1, <1>2, <1>4, <1>6
  <2>2. PICK e : Marks(n, e)' /\ e[n] = 0
    <3>1. hdr[5] <= c[n] /\ c[n] - hdr[5] = 0
      BY <1>2, <1>4, <2>1
    <3>2. \E e : Marks(n, e)' /\ e[n] = c[n] - hdr[5]
      BY <1>1, <1>2, <2>1, <3>1, MarksRead
    <3> QED
      BY <3>1, <3>2
  <2>3. ASSUME NEW k \in 1 .. n
        PROVE  WellFormed(sent[k]) /\ (IsOurs(sent[k]) /\ k # n => HandedOn(k))
    <3>1. k = n \/ k \in 1 .. n - 1
      BY <1>2
    <3> QED
      BY <1>2, <2>1, <3>1 DEF Passed
  <2>4. \A j \in DOMAIN dispatched : dispatched[j].n \in Nat /\ dispatched[j].n <= n - 1
    BY <1>2 DEF Passed
  <2>5. CASE Verdict(hdr) = "skip"
    <3>1. dispatched' = dispatched /\ ~IsOurs(s)
      BY <1>1, <1>4, <2>5
    <3>2. Passed(n)'
      <4>1. \A j \in DOMAIN dispatched : dispatched[j].n \in Nat /\ dispatched[j].n <= n
        BY <1>2, <2>4
      <4> QED
        BY <1>1, <2>3, <3>1, <4>1 DEF Passed, HandedOn
    <3>3. DispatchedInOrder'
      BY <1>1, <3>1 DEF DispatchedInOrder, HandedOn, Payload
    <3>4. Located(n, e)'
      BY <2>1, <2>2, <3>2 DEF Located
    <3> QED
      BY <3>3, <3>4
  <2>6. CASE Verdict(hdr) = "dispatch"
    <3> DEFINE p == [n |-> n, data |-> SubSeq(buf, 1, hdr[5])]
    <3>1. dispatched' = Append(dispatched, p) /\ IsOurs(s)
      BY <1>1, <1>4, <2>6
    <3>2. p = Payload(n) /\ p.n = n
      <4> DEFINE data == SubSeq(buf, 1, hdr[5])
      <4>1. /\ data \in Seq(Nat) /\ Len(data) = hdr[5]
            /\ \A i \in 1 .. hdr[5] : data[i] = buf[i]
        BY <1>1, <2>1, ReadType DEF Typed
      <4>2. \A i \in 1 .. hdr[5] : buf[i] = Rest[i]
        BY <1>1, <2>1, RestRead
      <4> HIDE DEF data
      <4>3. DOMAIN data = 1 .. s.len - 3 /\ \A i \in 1 .. s.len - 3 : data[i] = n
        <5>1. DOMAIN data = 1 .. Len(data) /\ Len(data) = s.len - 3
          BY <2>1, <4>1
        <5>2. \A i \in 1 .. s.len - 3 : data[i] = buf[i] /\ buf[i] = Rest[i]
          BY <2>1, <4>1, <4>2
        <5> QED
          BY <1>4, <5>1, <5>2
      <4>4. data = [i \in 1 .. s.len - 3 |-> n]
        BY <4>1, <4>3
      <4> QED
        BY <4>4 DEF Payload, AmsLen, data
    <3> HIDE DEF p
    <3>3. /\ DOMAIN dispatched = 1 .. Len(dispatched) /\ Len(dispatched) \in Nat
          /\ DOMAIN dispatched' = 1 .. Len(dispatched) + 1
          /\ dispatched'[Len(dispatched) + 1] = p
          /\ \A k \in 1 .. Len(dispatched) : dispatched'[k] = dispatched[k]
      <4>1. dispatched \in Seq(Packets)
        BY DEF Typed
      <4> QED
        BY <3>1, <4>1
    <3> DEFINE l == Len(dispatched)
    <3>4. /\ l + 1 \in DOMAIN dispatched' /\ dispatched'[l + 1].n = n
          /\ \A k \in DOMAIN dispatched' :
               k = l + 1 \/ (k \in DOMAIN dispatched /\ dispatched'[k] = dispatched[k])
          /\ \A k \in DOMAIN dispatched : k \in DOMAIN dispatched' /\ k < l + 1
                                          /\ dispatched'[k] = dispatched[k]
      BY <3>2, <3>3
    <3> HIDE DEF l
    <3>5. /\ HandedOn(n)'
          /\ \A k : HandedOn(k) => HandedOn(k)'
      BY <3>4 DEF HandedOn
    <3>6. Passed(n)'
      <4>1. ASSUME NEW k \in 1 .. n
            PROVE  WellFormed(sent'[k]) /\ (IsOurs(sent'[k]) => HandedOn(k)')
        BY <1>1, <2>3, <3>5
      <4>2. ASSUME NEW j \in DOMAIN dispatched'
            PROVE  dispatched'[j].n \in Nat /\ dispatched'[j].n <= n
        BY <1>2, <2>4, <3>4
      <4> QED
        BY <4>1, <4>2 DEF Passed
    <3>7. DispatchedInOrder'
      <4> DEFINE Fine(x) ==
            /\ x.n \in DOMAIN sent' /\ IsOurs(sent'[x.n]) /\ x = Payload(x.n)'
            /\ \A m \in 1 .. x.n : WellFormed(sent'[m]) /\ (IsOurs(sent'[m]) => HandedOn(m)')
      <4>1. \A x : Payload(x)' = Payload(x)
        BY <1>1 DEF Payload
      <4>2. ASSUME NEW k \in DOMAIN dispatched', NEW x, x = dispatched'[k] PROVE Fine(x)
        <5>1. CASE k = l + 1
          <6>1. x = Payload(n)' /\ x.n = n
            BY <3>2, <3>3, <4>1, <4>2, <5>1 DEF l
          <6>2. n \in DOMAIN sent' /\ IsOurs(sent'[n])
            BY <1>1, <1>2, <1>3, <3>1
          <6>3. \A m \in 1 .. n : WellFormed(sent'[m]) /\ (IsOurs(sent'[m]) => HandedOn(m)')
            BY <1>1, <2>3, <3>5
          <6> QED
            BY <6>1, <6>2, <6>3
        <5>2. CASE k \in DOMAIN dispatched /\ dispatched'[k] = dispatched[k]
          <6>1. x = dispatched[k]
            BY <4>2, <5>2
          <6>2. /\ x.n \in DOMAIN sent /\ IsOurs(sent[x.n]) /\ x = Payload(x.n)
                /\ \A m \in 1 .. x.n : WellFormed(sent[m]) /\ (IsOurs(sent[m]) => HandedOn(m))
            BY <5>2, <6>1 DEF DispatchedInOrder, Covered
          <6> QED
            BY <1>1, <3>5, <4>1, <6>2
        <5> QED
          BY <3>4, <5>1, <5>2
      <4>3. ASSUME NEW j \in DOMAIN dispatched', NEW k \in DOMAIN dispatched', j < k
            PROVE  dispatched'[j].n < dispatched'[k].n
        <5>1. CASE k = l + 1
          <6>1. j \in DOMAIN dispatched /\ dispatched'[j] = dispatched[j]
            BY <3>3, <3>4, <4>3, <5>1
          <6>2. dispatched'[k].n = n
            BY <3>4, <5>1
          <6> QED
            BY <1>2, <2>4, <6>1, <6>2
        <5>2. CASE k \in DOMAIN dispatched /\ dispatched'[k] = dispatched[k]
          <6>1. j \in DOMAIN dispatched /\ dispatched'[j] = dispatched[j]
            BY <3>3, <3>4, <4>3, <5>2 DEF l
          <6> QED
            BY <4>3, <5>2, <6>1 DEF DispatchedInOrder, Covered
        <5> QED
          BY <3>4, <5>1, <5>2
      <4> HIDE DEF Fine
      <4>4. /\ \A k \in DOMAIN dispatched' : \A x : x = dispatched'[k] => Fine(x)
            /\ \A j, k \in DOMAIN dispatched' : j < k => dispatched'[j].n < dispatched'[k].n
        BY <4>2, <4>3
      <4> QED
        BY <4>4 DEF DispatchedInOrder, Fine, Payload, HandedOn
    <3>8. Located(n, e)'
      BY <2>1, <2>2, <3>6 DEF Located
    <3> QED
      BY <3>7, <3>8
  <2> QED
    BY <1>4, <1>6, <2>5, <2>6
<1> QED
  BY <1>5, <1>6

(* A packet on its way changes nothing for those before it.                *)
LEMMA SendKeeps ==
  ASSUME Typed, PeerSends
  PROVE  /\ Len(sent') = Len(sent) + 1 /\ Len(sent) \in Nat
         /\ DOMAIN sent = 1 .. Len(sent) /\ DOMAIN sent' = 1 .. Len(sent) + 1
         /\ \A k \in 1 .. Len(sent) : sent'[k] = sent[k]
         /\ UNCHANGED <<source, rstate, hdr, dispatched>>
         /\ Covered' => Covered
<1>1. PICK s \in Shapes : sent' = Append(sent, s)
  BY DEF PeerSends
<1>2. sent \in Seq(Shapes)
  BY DEF Typed
<1>3. /\ Len(sent') = Len(sent) + 1 /\ Len(sent) \in Nat
      /\ DOMAIN sent = 1 .. Len(sent) /\ DOMAIN sent' = 1 .. Len(sent) + 1
      /\ \A k \in 1 .. Len(sent) : sent'[k] = sent[k] /\ k \in 1 .. Len(sent) + 1
  BY <1>1, <1>2
<1>4. Covered' => Covered
  <2> SUFFICES ASSUME Covered', NEW n \in DOMAIN sent
               PROVE  WellFormed(sent[n]) \/ Malformed(sent[n])
    BY DEF Covered
  <2>1. n \in DOMAIN sent' /\ sent'[n] = sent[n]
    BY <1>3
  <2> QED
    BY <2>1 DEF Covered
<1>5. UNCHANGED <<source, rstate, hdr, dispatched>>
  BY DEF PeerSends, connVars, readerVars
<1> QED
  BY <1>3, <1>4, <1>5

(* A packet sent later is behind all that is still to be read.             *)
LEMMA LocatedSend ==
  ASSUME Typed, NEW n, NEW c, Located(n, c), Reading, PeerSends
  PROVE  \E e : Located(n, e)'
<1>1. /\ Len(sent') = Len(sent) + 1 /\ Len(sent) \in Nat
      /\ \A k \in 1 .. Len(sent) : sent'[k] = sent[k]
      /\ UNCHANGED <<source, rstate, hdr, dispatched>>
  BY SendKeeps
<1>2. /\ Marks(n, c) /\ n \in Nat /\ n <= Len(sent) /\ c[n] \in Nat
      /\ c[n] <= Len(Rest) /\ Len(Rest) \in Nat
  BY LocatedFacts
<1>3. PICK e : /\ Marks(n, e)' /\ e[n] = c[n]
               /\ \A i \in 1 .. Len(Rest) : Rest'[i] = Rest[i]
  <2>1. PICK s \in Shapes : sent' = Append(sent, s) /\ wire' = wire \o Bytes(Len(sent) + 1, s)
    BY DEF PeerSends
  <2>2. UNCHANGED <<buf, source>>
    BY DEF PeerSends, connVars
  <2>3. /\ \E d : Marks(n, d)' /\ d[n] = c[n]
        /\ \A i \in 1 .. Len(Rest) : Rest'[i] = Rest[i]
    BY <1>2, <2>1, <2>2, MarksSend
  <2> QED
    BY <2>3
<1>4. Passed(n) => Passed(n)'
  <2>1. \A k \in 1 .. n : sent'[k] = sent[k]
    BY <1>1, <1>2
  <2> QED
    BY <1>1, <2>1 DEF Passed, HandedOn
<1>5. CASE rstate = "tcp"
  BY <1>1, <1>3, <1>4, <1>5 DEF Located
<1>6. CASE rstate # "tcp"
  <2>1. n \in 1 .. Len(sent) /\ Passed(n - 1) /\ Current(n, c[n])
    BY <1>6, CurrentFacts
  <2>2. sent'[n] = sent[n] /\ \A k \in 1 .. n - 1 : sent'[k] = sent[k]
    BY <1>1, <1>2, <2>1
  <2>3. Passed(n - 1)'
    BY <1>1, <2>1, <2>2 DEF Passed, HandedOn
  <2>4. \A i \in 1 .. c[n] : Rest'[i] = Rest[i]
    BY <1>2, <1>3
  <2>5. Bytes(n, sent[n])' = Bytes(n, sent[n])
    BY <1>1, <2>2 DEF Bytes
  <2>6. Current(n, c[n])'
    BY <1>1, <2>1, <2>2, <2>4, <2>5 DEF Current
  <2> QED
    BY <1>1, <1>3, <1>6, <2>3, <2>6 DEF Located
<1> QED
  BY <1>5, <1>6

(* A packet sent later does not change what was handed on.                 *)
LEMMA OrderSend ==
  ASSUME Typed, DispatchedInOrder, PeerSends
  PROVE  DispatchedInOrder'
<1>1. /\ Len(sent) \in Nat
      /\ DOMAIN sent = 1 .. Len(sent) /\ DOMAIN sent' = 1 .. Len(sent) + 1
      /\ \A k \in 1 .. Len(sent) : sent'[k] = sent[k]
      /\ UNCHANGED dispatched
      /\ Covered' => Covered
  BY SendKeeps
<1> SUFFICES ASSUME Covered'
             PROVE  DispatchedInOrder'
  BY DEF DispatchedInOrder, Covered
<1>2. ASSUME NEW k \in DOMAIN dispatched, NEW x, x = dispatched[k]
      PROVE  /\ x.n \in DOMAIN sent' /\ IsOurs(sent'[x.n]) /\ x = Payload(x.n)'
             /\ \A m \in 1 .. x.n : WellFormed(sent'[m]) /\ (IsOurs(sent'[m]) => HandedOn(m)')
  <2>1. /\ x.n \in 1 .. Len(sent) /\ IsOurs(sent[x.n]) /\ x = Payload(x.n)
        /\ \A m \in 1 .. x.n : WellFormed(sent[m]) /\ (IsOurs(sent[m]) => HandedOn(m))
    BY <1>1, <1>2 DEF DispatchedInOrder, Covered
  <2>2. x.n \in DOMAIN sent' /\ sent'[x.n] = sent[x.n]
        /\ \A m \in 1 .. x.n : sent'[m] = sent[m]
    BY <1>1, <2>1
  <2>3. x = Payload(x.n)'
    BY <2>1, <2>2 DEF Payload
  <2>4. \A m : HandedOn(m) => HandedOn(m)'
    BY <1>1 DEF HandedOn
  <2> QED
    BY <2>1, <2>2, <2>3, <2>4
<1>3. \A j, k \in DOMAIN dispatched : j < k => dispatched[j].n < dispatched[k].n
  BY <1>1 DEF DispatchedInOrder, Covered
<1> QED
  BY <1>1, <1>2, <1>3 DEF DispatchedInOrder, Payload, HandedOn

LEMMA FrameInit == Init => FrameInv
BY DEF Init, FrameInv, StartInv, DispatchedInOrder, Reading

(* Before the connection is up nothing is read or handed on.               *)
LEMMA StartStep == Typed /\ PortInv /\ StartInv /\ [Next]_vars => StartInv'
<1> SUFFICES ASSUME Typed, PortInv, StartInv, [Next]_vars PROVE StartInv'
  OBVIOUS
<1> USE DEF connVars, streamVars, readerVars
<1>1. CASE Connect
  BY <1>1 DEF Connect, StartReader, StartInv, PortInv, GivenAddr, AutoAddr
<1>2. CASE PortReply
  <2>1. buf[4] # 0
    <3>1. /\ buf \in Seq(Nat) /\ wire \in Seq(Nat) /\ Len(buf) >= 4 /\ buf[2] = 2
          /\ buf \o wire \in RouterReplies(ports)
      BY <1>2 DEF PortReply, ReadExact, Typed, PortInv
    <3>2. (buf \o wire)[2] = buf[2] /\ (buf \o wire)[4] = buf[4]
      <4>1. 2 \in 1 .. Len(buf) /\ 4 \in 1 .. Len(buf)
        BY <3>1
      <4> QED
        BY <3>1, <4>1, ConcatParts
    <3>3. AskedPort # 0
      BY FramingAssumption
    <3> QED
      BY <3>1, <3>2, <3>3, ReplyFacts
  <2> QED
    BY <1>2, <2>1 DEF PortReply, StartReader, StartInv, PortInv
<1>3. CASE ReaderStep
  BY <1>3 DEF ReaderStep, ReadTcpHeader, Discard, DiscardOf, ReadAmsHeader, ReadPayload,
              ReadError, ReaderEnds, StartInv
<1>4. CASE PeerSends
  BY <1>4 DEF PeerSends, StartInv
<1>5. CASE ConnectFails \/ PortReplyFails \/ DropBegin \/ DropJoin \/ Arrive \/ PeerCloses
           \/ Finished \/ UNCHANGED vars
  BY <1>5 DEF ConnectFails, PortReplyFails, DropBegin, Leave, DropJoin, Arrive, PeerCloses,
              Finished, vars, StartInv
<1> QED
  BY <1>1, <1>2, <1>3, <1>4, <1>5 DEF Next

(* The reader is always at the place in a packet its state says.           *)
LEMMA FrameStep == Typed /\ PortInv /\ FrameInv /\ [Next]_vars => FrameInv'
<1> SUFFICES ASSUME Typed, PortInv, FrameInv, [Next]_vars PROVE FrameInv'
  OBVIOUS
<1>1. StartInv'
  BY StartStep DEF FrameInv
<1>2. ASSUME UNCHANGED <<sent, dispatched>>
      PROVE  DispatchedInOrder' /\ (Covered' <=> Covered)
  BY <1>2 DEF FrameInv, DispatchedInOrder, Covered, HandedOn, Payload
<1>3. ASSUME UNCHANGED <<sent, source, rstate, hdr, dispatched>>, Rest' = Rest
      PROVE  FrameInv'
  <2>1. Covered' /\ Reading' => \E n, c : Located(n, c)'
    BY <1>2, <1>3, Undisturbed DEF FrameInv, Reading
  <2> QED
    BY <1>1, <1>2, <1>3, <2>1 DEF FrameInv
<1>4. ASSUME UNCHANGED <<sent, dispatched>>, ~Reading'
      PROVE  FrameInv'
  BY <1>1, <1>2, <1>4 DEF FrameInv
<1>5. CASE Connect
  <2>1. UNCHANGED <<sent, dispatched, buf>> /\ rstate = "none"
    BY <1>5 DEF Connect, StartReader, PortInv, readerVars
  <2>2. CASE mode = "request"
    <3>1. ~Reading'
      BY <1>5, <2>1, <2>2 DEF Connect, StartReader, Reading, readerVars
    <3> QED
      BY <1>4, <2>1, <3>1
  <2>3. CASE mode # "request"
    <3>1. wire' = <<>> /\ buf' = <<>> /\ rstate' = "tcp"
      BY <1>5, <2>1, <2>3 DEF Connect, StartReader, PortInv
    <3>2. Len(Rest') = 0 /\ sent' = <<>> /\ dispatched' = <<>>
      BY <2>1, <3>1 DEF Rest, FrameInv, StartInv
    <3>3. \E n, c : Located(n, c)'
      BY <3>1, <3>2, StartLocated
    <3> QED
      BY <1>1, <1>2, <2>1, <3>3 DEF FrameInv
  <2> QED
    BY <2>2, <2>3
<1>6. CASE PortReply
  <2>1. /\ UNCHANGED <<sent, dispatched>> /\ rstate = "none" /\ rstate' = "tcp" /\ ReadExact(4)
        /\ buf \o wire \in RouterReplies(ports)
    BY <1>6 DEF PortReply, StartReader, PortInv
  <2>2. Len(Rest) = 4
    <3>1. \A q \in RouterReplies(ports) : Len(q) <= 4
      BY ReplyFacts
    <3>2. buf \in Seq(Nat) /\ wire \in Seq(Nat) /\ Len(buf) >= 4
      BY <2>1 DEF ReadExact, Typed
    <3>3. Len(buf \o wire) = Len(buf) + Len(wire) /\ Len(buf) \in Nat /\ Len(wire) \in Nat
      BY <3>2
    <3>4. buf \o wire \in RouterReplies(ports)
      BY <2>1
    <3>5. Len(buf \o wire) <= 4
      BY <3>1, <3>4
    <3>6. Len(buf \o wire) = 4
      BY <3>2, <3>3, <3>5
    <3> QED
      BY <3>6 DEF Rest
  <2>3. Len(Rest') = 0 /\ sent' = <<>> /\ dispatched' = <<>>
    <3>1. Len(Rest') = Len(Rest) - 4
      <4>1. 4 \in Nat
        OBVIOUS
      <4> QED
        BY <2>1, <4>1, RestRead
    <3> QED
      BY <2>1, <2>2, <3>1 DEF FrameInv, StartInv
  <2>4. \E n, c : Located(n, c)'
    BY <2>1, <2>3, StartLocated
  <2> QED
    BY <1>1, <1>2, <2>1, <2>4 DEF FrameInv
<1>7. CASE ReadTcpHeader
  <2>1. UNCHANGED <<sent, dispatched>> /\ Reading
    BY <1>7 DEF ReadTcpHeader, Reading
  <2>2. Covered => \E n, c : Located(n, c)'
    BY <1>7, <2>1, LocatedTcpHeader DEF FrameInv
  <2> QED
    BY <1>1, <1>2, <2>1, <2>2 DEF FrameInv
<1>8. CASE Discard
  <2>1. UNCHANGED <<sent, dispatched>> /\ Reading
    BY <1>8 DEF Discard, DiscardOf, Reading
  <2>2. Covered => \E n, c : Located(n, c)'
    BY <1>8, <2>1, LocatedDiscard DEF FrameInv
  <2> QED
    BY <1>1, <1>2, <2>1, <2>2 DEF FrameInv
<1>9. CASE ReadAmsHeader
  <2>1. UNCHANGED <<sent, dispatched>> /\ Reading
    BY <1>9 DEF ReadAmsHeader, Reading
  <2>2. Covered => \E n, c : Located(n, c)'
    BY <1>9, <2>1, LocatedAmsHeader DEF FrameInv
  <2> QED
    BY <1>1, <1>2, <2>1, <2>2 DEF FrameInv
<1>10. CASE ReadPayload
  <2>1. /\ UNCHANGED sent /\ Reading /\ source # 0 /\ DispatchedInOrder
        /\ (Reading' => rstate' = "tcp")
    BY <1>10 DEF ReadPayload, Reading, FrameInv, StartInv
  <2>2. Covered' <=> Covered
    BY <2>1 DEF Covered
  <2>3. CASE Covered
    <3>1. PICK n, c : Located(n, c)
      BY <2>1, <2>3 DEF FrameInv
    <3>2. DispatchedInOrder' /\ (rstate' = "tcp" => \E e : Located(n, e)')
      BY <1>10, <2>1, <2>3, <3>1, LocatedPayload
    <3> QED
      BY <1>1, <2>1, <3>2 DEF FrameInv
  <2>4. CASE ~Covered
    BY <1>1, <2>2, <2>4 DEF FrameInv, DispatchedInOrder, Covered
  <2> QED
    BY <2>3, <2>4
<1>11. CASE ReadError \/ ReaderEnds
  <2>1. UNCHANGED <<sent, dispatched>> /\ ~Reading'
    BY <1>11 DEF ReadError, ReaderEnds, Reading
  <2> QED
    BY <1>4, <2>1
<1>12. CASE PeerSends
  <2>1. DispatchedInOrder'
    BY <1>12, OrderSend DEF FrameInv
  <2>2. (Covered' => Covered) /\ UNCHANGED rstate
    BY <1>12, SendKeeps
  <2>3. Covered /\ Reading => \E n, c : Located(n, c)'
    BY <1>12, LocatedSend DEF FrameInv
  <2> QED
    BY <1>1, <2>1, <2>2, <2>3 DEF FrameInv, Reading
<1>13. CASE Arrive
  <2>1. Rest' = Rest
    BY <1>13, ArrivalKeeps DEF Rest
  <2> QED
    BY <1>3, <1>13, <2>1 DEF Arrive, connVars, readerVars
<1>14. CASE ConnectFails \/ PortReplyFails \/ DropBegin \/ DropJoin \/ PeerCloses \/ Finished
            \/ UNCHANGED vars
  <2>1. UNCHANGED <<sent, source, rstate, hdr, dispatched, buf, wire>>
    BY <1>14 DEF ConnectFails, PortReplyFails, DropBegin, Leave, DropJoin, PeerCloses, Finished,
                 vars, connVars, streamVars, readerVars
  <2> QED
    BY <1>3, <2>1 DEF Rest
<1> QED
  BY <1>5, <1>6, <1>7, <1>8, <1>9, <1>10, <1>11, <1>12, <1>13, <1>14 DEF Next, ReaderStep

(* However the stream is cut into pieces and whatever the peer sends, what *)
(* reader_work hands on are the packets for us, each once, in order, whole *)
(* and without a gap, and nothing of what follows a malformed one.         *)
THEOREM HandedOnInOrder == Spec => []DispatchedInOrder
<1>1. Typed /\ PortInv /\ FrameInv /\ [Next]_vars => (Typed /\ PortInv /\ FrameInv)'
  BY TypedStep, PortStep, FrameStep
<1>2. FrameInv => DispatchedInOrder
  BY DEF FrameInv
<1> QED
  BY TypedInit, PortInit, FrameInit, <1>1, <1>2, PTL DEF Spec
=============================================================================

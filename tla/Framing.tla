------------------------------- MODULE Framing -------------------------------
(***************************************************************************)
(* A connection from Client::new to Drop, at the level of the bytes        *)
(* (src/src/client.rs): connecting, asking the router for a port, and the  *)
(* reads by which reader_work takes packets off the stream.                *)
(*                                                                         *)
(* The AMS/TCP header is two units, its kind and its length field; the AMS *)
(* header is AmsLen units, destination, packet number (a ghost, in the     *)
(* place of all other fields) and data length; payload is in units of a    *)
(* byte.  The reply to a port request is the first header, a NetID and a   *)
(* port.                                                                   *)
(***************************************************************************)
EXTENDS Naturals, SequencesExt

CONSTANTS
  Shapes,      \* the packets the peer sends: kind, destination and lengths
  MaxPackets,  \* bound: packets sent
  AskedPort    \* the port the router hands out

AmsLen == 3                \* 32 bytes
PortKind == 4096           \* kind of the reply to a port request
RouterKinds == {1, 4096, 4097, 4098}
GivenAddr == 1             \* the address of Source::Addr
AutoAddr == 2              \* the local IP address with .1.1, port 58913

ASSUME FramingAssumption ==
  /\ \A s \in Shapes : s.kind \in Nat /\ s.len \in Nat /\ s.dlen \in Nat /\ s.us \in BOOLEAN
  /\ MaxPackets \in Nat
  /\ AskedPort \in Nat \ {0, GivenAddr, AutoAddr}

VARIABLES
  mode,        \* the Source given to Client::new
  timeout,     \* timeouts.read is Some(_)
  cstate,      \* connecting, asking, live, joining; or ended: failed, gone
  source,      \* Client.source
  port_opened, \* Client.source_port_opened
  ports,       \* ports the router has open for this connection
  close_failed,\* ghost: the message that gives the port back was not written
  peer,        \* the other end of the connection: open or closed
  socket,      \* open or shut
  wire,        \* units on their way
  buf,         \* units that have arrived
  rstate,      \* what reader_work reads next, or how it ended
  hdr,         \* the headers read so far
  sent,        \* ghost: the packets sent
  dispatched   \* packets handed on: number and payload

connVars == <<mode, timeout, cstate, source, port_opened, ports, close_failed>>
streamVars == <<peer, socket, wire, buf>>
readerVars == <<rstate, hdr, dispatched>>
vars == <<connVars, streamVars, readerVars, sent>>

Init ==
  /\ mode \in {"addr", "auto", "request"}
  /\ timeout \in BOOLEAN
  /\ cstate = "connecting"
  /\ source = 0
  /\ port_opened = FALSE
  /\ ports = {}
  /\ close_failed = FALSE
  /\ peer = "open"
  /\ socket = "open"
  /\ wire = <<>>
  /\ buf = <<>>
  /\ rstate = "none"
  /\ hdr = <<>>
  /\ sent = <<>>
  /\ dispatched = <<>>

-----------------------------------------------------------------------------
(* Reading from the socket.                                                *)

(* read_exact of n units succeeds.                                         *)
ReadExact(n) ==
  /\ Len(buf) >= n
  /\ buf' = SubSeq(buf, n + 1, Len(buf))
  /\ UNCHANGED <<peer, socket, wire>>

(* read_exact of n units fails: the stream ends before they are there, or  *)
(* the read timeout expires.                                               *)
ReadFails(n) ==
  \/ socket = "shut"
  \/ Len(buf) < n /\ (timeout \/ (peer = "closed" /\ wire = <<>>))

-----------------------------------------------------------------------------
(* Client::new.                                                            *)

(* The reader thread is started and the Client returned.                   *)
StartReader(addr) ==
  /\ cstate' = "live"
  /\ source' = addr
  /\ rstate' = "tcp"
  /\ UNCHANGED <<hdr, dispatched>>

(* The router's part: it opens a port or refuses to, and a refusal may be  *)
(* shorter than the reply that is awaited.                                 *)
RouterReplies(opened) ==
  IF opened = {} THEN {<<PortKind, 1, 0>>, <<PortKind, 1, 0, 0>>}
  ELSE {<<PortKind, 2, 0, AskedPort>>}

Connect ==
  /\ cstate = "connecting"
  /\ \/ mode = "addr" /\ StartReader(GivenAddr) /\ UNCHANGED ports
     \/ mode = "auto" /\ StartReader(AutoAddr) /\ UNCHANGED ports
     \/ /\ mode = "request"
        /\ cstate' = "asking"
        /\ ports' \in {{AskedPort}, {}}
        /\ UNCHANGED <<source, readerVars>>
  /\ wire' \in IF mode = "request" THEN RouterReplies(ports') ELSE {wire}
  /\ UNCHANGED <<mode, timeout, port_opened, close_failed, peer, socket, buf, sent>>

(* The address does not resolve, connecting or a socket option fails, or   *)
(* the request for a port cannot be written.                               *)
ConnectFails ==
  /\ cstate = "connecting"
  /\ cstate' = "failed"
  /\ socket' = "shut"
  /\ UNCHANGED <<mode, timeout, source, port_opened, ports, close_failed, peer, wire,
                 buf, readerVars, sent>>

(* The reply of the router has the expected header.                        *)
PortReply ==
  /\ cstate = "asking"
  /\ ReadExact(4)
  /\ buf[1] = PortKind /\ buf[2] = 2
  /\ port_opened' = TRUE
  /\ StartReader(buf[4])
  /\ UNCHANGED <<mode, timeout, ports, close_failed, sent>>

(* It has another, or does not arrive.                                     *)
PortReplyFails ==
  /\ cstate = "asking"
  /\ \/ Len(buf) >= 4 /\ ~(buf[1] = PortKind /\ buf[2] = 2)
     \/ ReadFails(4)
  /\ cstate' = "failed"
  /\ socket' = "shut"
  /\ UNCHANGED <<mode, timeout, source, port_opened, ports, close_failed, peer, wire,
                 buf, readerVars, sent>>

-----------------------------------------------------------------------------
(* reader_work, one action per read.                                       *)

(* The AMS/TCP header.                                                     *)
ReadTcpHeader ==
  /\ rstate = "tcp"
  /\ ReadExact(2)
  /\ hdr' = SubSeq(buf, 1, 2)
  /\ rstate' = IF buf[2] < AmsLen THEN "discard" ELSE "ams"
  /\ UNCHANGED <<connVars, dispatched, sent>>

(* A packet too short for an AMS header is read and forgotten.             *)
DiscardOf(n) ==
  /\ rstate = "discard"
  /\ ReadExact(n)
  /\ rstate' = "tcp"
  /\ UNCHANGED <<connVars, hdr, dispatched, sent>>

(* Mutant: the length is taken to include the header.                      *)
DiscardLess == DiscardOf(IF hdr[2] = 0 THEN 0 ELSE hdr[2] - 1)

Discard == DiscardOf(hdr[2])

ReadAmsHeader ==
  /\ rstate = "ams"
  /\ ReadExact(AmsLen)
  /\ hdr' = hdr \o SubSeq(buf, 1, AmsLen)
  /\ rstate' = "payload"
  /\ UNCHANGED <<connVars, dispatched, sent>>

(* Mutant: the two length fields are not compared.                         *)
VerdictUnchecked(h) ==
  IF h[1] \in RouterKinds \/ h[3] # source THEN "skip" ELSE "dispatch"

(* What becomes of a packet with its payload read.  Router messages are    *)
(* skipped before the lengths are compared.                                *)
Verdict(h) ==
  IF h[1] \in RouterKinds THEN "skip"
  ELSE IF h[1] # 0 THEN "abort"
  ELSE IF h[5] # h[2] - AmsLen THEN "abort"
  ELSE IF h[3] # source THEN "skip"
  ELSE "dispatch"

(* The payload, as long as the AMS header says, and the checks after it.   *)
ReadPayload ==
  /\ rstate = "payload"
  /\ ReadExact(hdr[5])
  /\ rstate' = IF Verdict(hdr) = "abort" THEN "stopped" ELSE "tcp"
  /\ dispatched' = IF Verdict(hdr) # "dispatch" THEN dispatched
                   ELSE Append(dispatched, [n |-> hdr[4], data |-> SubSeq(buf, 1, hdr[5])])
  /\ UNCHANGED <<connVars, hdr, sent>>

(* How much the read under way asks for.                                   *)
Wanted ==
  CASE rstate = "tcp"     -> 2
    [] rstate = "discard" -> hdr[2]
    [] rstate = "ams"     -> AmsLen
    [] rstate = "payload" -> hdr[5]

ReadError ==
  /\ rstate \in {"tcp", "discard", "ams", "payload"}
  /\ ReadFails(Wanted)
  /\ rstate' = "stopped"
  /\ UNCHANGED <<connVars, streamVars, hdr, dispatched, sent>>

(* The closure of `start` shuts the socket down after it.                  *)
ReaderEnds ==
  /\ rstate = "stopped"
  /\ rstate' = "done"
  /\ socket' = "shut"
  /\ UNCHANGED <<connVars, peer, wire, buf, hdr, dispatched, sent>>

ReaderStep ==
  \/ ReadTcpHeader \/ Discard \/ ReadAmsHeader \/ ReadPayload \/ ReadError \/ ReaderEnds

-----------------------------------------------------------------------------
(* Drop for Client.                                                        *)

Leave(closes) ==
  /\ cstate = "live"
  /\ cstate' = "joining"
  /\ socket' = "shut"
  /\ \E written \in BOOLEAN :
       /\ ports' = IF closes /\ written /\ socket = "open" /\ peer = "open" THEN {} ELSE ports
       /\ close_failed' = (closes /\ ~written)
  /\ UNCHANGED <<mode, timeout, source, port_opened, peer, wire, buf, readerVars, sent>>

(* Mutant: the port is not given back.                                     *)
DropForgetsPort == Leave(FALSE)

(* The port is given back, if the socket still takes the whole message     *)
(* (its result is ignored), and the socket shut down.                      *)
DropBegin == Leave(port_opened)

(* The reader is joined.                                                   *)
DropJoin ==
  /\ cstate = "joining"
  /\ rstate = "done"
  /\ cstate' = "gone"
  /\ UNCHANGED <<mode, timeout, source, port_opened, ports, close_failed, streamVars, readerVars,
                 sent>>

-----------------------------------------------------------------------------
(* The peer and the network.                                               *)

(* The units of the n-th packet.                                           *)
Bytes(n, s) ==
  <<s.kind, s.len>> \o
  IF s.len < AmsLen THEN [k \in 1 .. s.len |-> 7]
  ELSE <<IF s.us THEN source ELSE 0, n, s.dlen>> \o [k \in 1 .. s.len - AmsLen |-> n]

PeerSends ==
  /\ cstate = "live"
  /\ peer = "open"
  /\ Len(sent) < MaxPackets
  /\ \E s \in Shapes :
       /\ sent' = Append(sent, s)
       /\ wire' = wire \o Bytes(Len(sent) + 1, s)
  /\ UNCHANGED <<connVars, peer, socket, buf, readerVars>>

(* TCP delivers in order, in pieces of any size.                           *)
Arrive ==
  /\ wire # <<>>
  /\ buf' = Append(buf, Head(wire))
  /\ wire' = Tail(wire)
  /\ UNCHANGED <<connVars, peer, socket, readerVars, sent>>

PeerCloses ==
  /\ peer = "open"
  /\ cstate \in {"asking", "live"}
  /\ peer' = "closed"
  /\ UNCHANGED <<connVars, socket, wire, buf, readerVars, sent>>

-----------------------------------------------------------------------------

Finished == cstate \in {"failed", "gone"} /\ UNCHANGED vars

Next ==
  \/ Connect \/ ConnectFails \/ PortReply \/ PortReplyFails
  \/ ReaderStep
  \/ DropBegin \/ DropJoin
  \/ PeerSends \/ Arrive \/ PeerCloses
  \/ Finished

(* Threads are scheduled, timeouts expire and TCP delivers.                *)
Spec ==
  /\ Init /\ [][Next]_vars
  /\ WF_vars(ReaderStep) /\ WF_vars(Arrive)
  /\ WF_vars(PortReply \/ PortReplyFails) /\ WF_vars(DropJoin)

-----------------------------------------------------------------------------
(* Properties.                                                             *)

(* A packet that is too short to have two lengths, or whose lengths agree; *)
(* and one that ends the connection.                                       *)
WellFormed(s) ==
  \/ s.len < AmsLen
  \/ s.kind \in RouterKinds \cup {0} /\ s.dlen = s.len - AmsLen
Malformed(s) == ~WellFormed(s) /\ s.kind \notin RouterKinds

(* The packets before the first that is not well-formed.                   *)
Good == SelectInSeq(sent, LAMBDA s : ~WellFormed(s)) - 1
GoodCount == IF Good < 0 THEN Len(sent) ELSE Good

IsOurs(s) == s.kind = 0 /\ s.len >= AmsLen /\ s.us
Ours == SelectSeq([n \in 1 .. GoodCount |-> n], LAMBDA n : IsOurs(sent[n]))
Payload(n) == [n |-> n, data |-> [k \in 1 .. sent[n].len - AmsLen |-> n]]

(* However the bytes are cut up on their way, what is handed on are the    *)
(* packets for us, each once, in order and without a gap, with its own     *)
(* payload, also around packets of other kinds and lengths; and of what    *)
(* follows a packet with disagreeing lengths or of an unknown kind,        *)
(* nothing is.  A router message as long as an AMS packet may break this,  *)
(* and is excepted.                                                        *)
HandedOn(n) == \E k \in DOMAIN dispatched : dispatched[k].n = n
DispatchedInOrder ==
  (\A n \in DOMAIN sent : WellFormed(sent[n]) \/ Malformed(sent[n])) =>
    /\ \A k \in DOMAIN dispatched :
         LET n == dispatched[k].n
         IN  /\ n \in DOMAIN sent /\ IsOurs(sent[n]) /\ dispatched[k] = Payload(n)
             /\ \A m \in 1 .. n : WellFormed(sent[m]) /\ (IsOurs(sent[m]) => HandedOn(m))
    /\ \A j, k \in DOMAIN dispatched : j < k => dispatched[j].n < dispatched[k].n

(* While the connection lasts every packet for us is handed on, if nothing *)
(* malformed precedes it.                                                  *)
EverythingRead ==
  \A k \in 1 .. MaxPackets :
    (Len(Ours) >= k) ~> (Len(dispatched) >= k \/ rstate \notin {"tcp", "discard", "ams", "payload"})

(* A malformed packet ends the connection.  If it announces more data than *)
(* it has, that takes the read timeout: the data is awaited before the     *)
(* lengths are compared.                                                   *)
MalformedAborts ==
  (/\ GoodCount < Len(sent)
   /\ LET s == sent[GoodCount + 1] IN Malformed(s) /\ (timeout \/ s.dlen <= s.len - AmsLen))
  ~> (rstate = "done" \/ cstate = "gone")

(* A port the router opened for us is given back before the socket is shut *)
(* down, by whichever side of Client::new or Drop that happens, unless the *)
(* connection was lost before, the reply with the port timed out or the    *)
(* message that gives it back could not be written.                        *)
PortGivenBack ==
  [][socket = "open" /\ peer = "open" /\ cstate' \in {"failed", "joining"} /\ cstate # cstate'
       => ports' = {} \/ (cstate = "asking" /\ timeout) \/ close_failed']_vars
=============================================================================

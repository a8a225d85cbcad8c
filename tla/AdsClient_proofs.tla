-------------------------- MODULE AdsClient_proofs ---------------------------
(***************************************************************************)
(* Proofs about AdsClient, for any number of callers and requests and any  *)
(* peer: types, no stranded caller, replies paired with requests,          *)
(* notifications delivered before the replies that follow them, the        *)
(* implementation of AdsCalls, and for a peer that answers once, that the  *)
(* reader is never given an ID it does not know.                           *)
(***************************************************************************)
EXTENDS AdsClient, TLAPS

(* The types are inductive once every thread inside communicate is known   *)
(* to have a request number.                                               *)
Typed == TypeOK /\ \A c \in Callers : pc[c] # "idle" => req[c] # 0

-----------------------------------------------------------------------------

LEMMA Zero == 0 \in MaybeReq /\ 0 \in Ids /\ 1 \in Ids
BY ConstantsAssumption DEF MaybeReq, Ids

(* The counter stays below the number of IDs (fetch_add wraps).            *)
LEMMA WrappedId == ASSUME NEW n \in Nat PROVE n % IdMod \in Ids
BY ConstantsAssumption DEF Ids

(* Before the counter wraps, an ID is the number of its request.           *)
LEMMA SmallMod == ASSUME NEW n \in Nat, n < IdMod PROVE n % IdMod = n
BY ConstantsAssumption

(* The channel a caller reads from is well typed after any settlement.     *)
LEMMA SettleType ==
  ASSUME chan \in [Callers -> Chan], NEW r, NEW m \in Chan
  PROVE  Settle(r, m) \in [Callers -> Chan]
BY DEF Settle

(* What the drain and a timeout leave in a channel is of its type.         *)
LEMMA SignalType ==
  Empty \in Chan /\ Closed \in Chan /\ Failed \in Chan
BY Zero DEF Empty, Closed, Failed, Signal, Chan

(* An unused request number is left.                                       *)
LEMMA NextReq ==
  ASSUME NEW n \in MaybeReq, n < MaxRequests
  PROVE  n + 1 \in MaybeReq /\ n + 1 # 0
BY ConstantsAssumption DEF MaybeReq

(* The frame of a request that has a number.                               *)
LEMMA FrameType ==
  ASSUME NEW i \in Ids, NEW r \in MaybeReq, r # 0
  PROVE  [id |-> i, ans |-> r] \in Request
BY DEF Request, Reqs, MaybeReq

(* What the peer sends is a packet, and the stream stays one of packets.   *)
LEMMA ReplyType ==
  ASSUME NEW q \in Request, NEW body \in Bodies, sent \in Nat
  PROVE  Reply(q.id, q.ans, body) \in Packet
BY DEF Request, Reqs, MaybeReq, Reply, Packet

(* Duplicates, invented replies and other packets are packets.             *)
LEMMA SpuriousType ==
  ASSUME sent \in Nat
  PROVE  /\ \A i \in Ids, body \in Bodies : Reply(i, 0, body) \in Packet
         /\ \A k \in PeerKinds \ {"dup", "bogus"} : Other(k) \in Packet
<1>1. \A i \in Ids, body \in Bodies : Reply(i, 0, body) \in Packet
  BY Zero DEF Reply, Packet
<1>2. PeerKinds \subseteq Kinds
  BY ConstantsAssumption
<1>3. \A k \in PeerKinds \ {"dup", "bogus"} : Other(k) \in Packet
  BY <1>2, Zero DEF Other, Packet
<1> QED
  BY <1>1, <1>3

(* What the peer sends joins the stream.                                   *)
LEMMA SentType ==
  ASSUME inbound \in Seq(Packet), NEW p \in Packet, PeerSends(p)
  PROVE  inbound' \in Seq(Packet)
BY DEF PeerSends

(* What the reader takes off the stream is a packet.                       *)
LEMMA TakenPacket ==
  ASSUME inbound \in Seq(Packet), NEW kinds, Take(kinds)
  PROVE  inbound' \in Seq(Packet) /\ Head(inbound) \in Packet
BY DEF Take

LEMMA TypedInit == Init => Typed
<1> SUFFICES ASSUME Init PROVE Typed
  OBVIOUS
<1>1. inbound \in Seq(Packet)
  BY DEF Init
<1>2. unsolicited \in 0 .. MaxUnsolicited
  BY ConstantsAssumption DEF Init
<1> QED
  BY <1>1, <1>2, SignalType, Zero DEF Init, Typed, TypeOK

(* Every step of communicate, the reader, the drop and the peer keeps types.*)
LEMMA TypedStep == Typed /\ [Next]_vars => Typed'
<1> SUFFICES ASSUME Typed, [Next]_vars PROVE Typed'
  OBVIOUS
<1> USE DEF Typed, TypeOK
<1>1. ASSUME NEW c \in Callers, FetchId(c) PROVE Typed'
  <2>1. invoke_id' \in Ids
    <3>1. invoke_id \in Ids
      OBVIOUS
    <3> HIDE DEF Typed, TypeOK
    <3>2. invoke_id + 1 \in Nat
      BY <3>1, ConstantsAssumption DEF Ids
    <3> QED
      BY <1>1, <3>2, WrappedId DEF FetchId, BeginCall
  <2> QED
    BY <1>1, <2>1, NextReq, SignalType DEF FetchId, BeginCall, readerVars, peerVars
<1>2. ASSUME NEW c \in Callers, TooLong(c) PROVE Typed'
  BY <1>2, SignalType, Zero DEF TooLong, Return, readerVars, peerVars
<1>3. ASSUME NEW c \in Callers, InsertPending(c) PROVE Typed'
  BY <1>3, SettleType, SignalType
     DEF InsertPending, Step, Register, readerVars, peerVars
<1>4. ASSUME NEW c \in Callers, WriteOk(c) PROVE Typed'
  <2>1. [id |-> rid[c], ans |-> req[c]] \in Request
    BY <1>4, FrameType DEF WriteOk, Step
  <2> QED
    BY <1>4, <2>1 DEF WriteOk, Step, SendFrame, readerVars
<1>5. ASSUME NEW c \in Callers, WriteFails(c) PROVE Typed'
  <2>1. [id |-> rid[c], ans |-> req[c]] \in Request
    BY <1>5, FrameType DEF WriteFails
  <2>2. torn' \in SUBSET Request
    BY <1>5, <2>1 DEF WriteFails
  <2>3. /\ pc' \in [Callers -> {"idle", "insert", "write", "wait", "discard"}]
        /\ req' \in [Callers -> MaybeReq] /\ chan' \in [Callers -> Chan]
        /\ last' \in [Callers -> {"none", "ok", "err", "panic"}]
        /\ \A d \in Callers : pc'[d] # "idle" => req'[d] # 0
    BY <1>5, SignalType, Zero DEF WriteFails, Return
  <2>4. UNCHANGED <<invoke_id, issued, rid, pending, readerVars, cstate, socket, inbound, peerVars>>
    BY <1>5 DEF WriteFails, Return
  <2> QED
    BY <2>2, <2>3, <2>4 DEF readerVars, peerVars
<1>6. ASSUME NEW c \in Callers, RecvReply(c) PROVE Typed'
  BY <1>6, SignalType, Zero DEF RecvReply, Validate, Return, readerVars, peerVars
<1>7. ASSUME NEW c \in Callers, RecvFailed(c) PROVE Typed'
  BY <1>7 DEF RecvFailed, Step, readerVars, peerVars
<1>8. ASSUME NEW c \in Callers, RecvTimeout(c) PROVE Typed'
  BY <1>8 DEF RecvTimeout, Step, readerVars, peerVars
<1>9. ASSUME NEW c \in Callers, Discard(c) PROVE Typed'
  <2>1. Settle(pending[rid[c]], Closed) \in [Callers -> Chan]
    BY SettleType, SignalType
  <2> QED
    BY <1>9, <2>1, SignalType, Zero
       DEF Discard, DiscardAs, Return, readerVars, peerVars
<1>11. CASE ReadIgnored
  BY TakenPacket, <1>11 DEF ReadIgnored, callerVars, readerVars, peerVars
<1>12. CASE ReadNotification
  <2>1. notifs' \in Nat
    <3>1. notifs \in Nat
      OBVIOUS
    <3> HIDE DEF Typed, TypeOK
    <3> QED
      BY <1>12, <3>1 DEF ReadNotification
  <2> QED
    BY TakenPacket, <1>12, <2>1 DEF ReadNotification, Take, callerVars, peerVars
<1>13. CASE ReadTinyNotification
  BY TakenPacket, <1>13 DEF ReadTinyNotification, Take, callerVars, peerVars
<1>14. CASE ReadInvalid
  BY TakenPacket, <1>14 DEF ReadInvalid, Take, Stop, callerVars, peerVars
<1>15. CASE ReadReply
  <2> DEFINE p == Head(inbound)
             m == [tag |-> "reply", ans |-> p.ans, body |-> p.body, seen |-> p.seen]
  <2>1. p \in Packet /\ inbound' \in Seq(Packet)
    BY TakenPacket, <1>15 DEF ReadReply
  <2>2. m \in Chan
    BY <2>1 DEF Packet, Chan
  <2>3. Settle(pending[p.id], m) \in [Callers -> Chan]
    BY <2>2, SettleType
  <2> QED
    BY <1>15, <2>1, <2>3, Zero DEF ReadReply, Stop, Take, callerVars, peerVars
<1>16. CASE ReadError
  BY <1>16 DEF ReadError, Stop, callerVars, peerVars
<1>17. CASE ReaderShutdown
  BY <1>17 DEF ReaderShutdown, EndReading, callerVars, peerVars
<1>18. CASE Drain
  BY <1>18, SignalType, Zero DEF Drain, EndReader, callerVars, peerVars
<1>19. CASE DropBegin
  BY <1>19 DEF DropBegin, callerVars, readerVars, peerVars
<1>20. CASE DropShutdown
  BY <1>20 DEF DropShutdown, DropSocket, callerVars, readerVars, peerVars
<1>21. CASE DropJoin
  BY <1>21 DEF DropJoin, callerVars, readerVars, peerVars
<1>22. ASSUME NEW q \in todo, PeerAnswers(q) PROVE Typed'
  <2>1. PICK body \in Bodies : PeerSends(Reply(q.id, q.ans, body))
    BY <1>22 DEF PeerAnswers
  <2>2. inbound' \in Seq(Packet)
    BY <2>1, ReplyType, SentType
  <2> QED
    BY <1>22, <2>1, <2>2 DEF PeerAnswers, PeerSends, callerVars, readerVars
<1>23. CASE PeerUnsolicited
  <2>1. inbound' \in Seq(Packet)
    <3>1. PICK p \in Packet : PeerSends(p)
      <4>1. ASSUME NEW q \in todo, NEW body \in Bodies
            PROVE  Reply(q.id, q.ans, body) \in Packet
        BY ReplyType
      <4>2. ASSUME NEW i \in Ids, NEW body \in Bodies
            PROVE  Reply(i, 0, body) \in Packet
        BY SpuriousType
      <4>3. ASSUME NEW k \in PeerKinds \ {"dup", "bogus"} PROVE Other(k) \in Packet
        BY SpuriousType
      <4> QED
        BY <1>23, <4>1, <4>2, <4>3 DEF PeerUnsolicited
    <3> QED
      BY <3>1, SentType
  <2>2. sent' \in Nat
    <3>1. sent' = sent \/ sent' = sent + 1
      BY <1>23, Zenon DEF PeerUnsolicited
    <3>2. sent \in Nat
      OBVIOUS
    <3> HIDE DEF Typed, TypeOK
    <3> QED
      BY <3>1, <3>2
  <2>3. unsolicited' \in 0 .. MaxUnsolicited
    <3>1. unsolicited \in 0 .. MaxUnsolicited
      OBVIOUS
    <3>2. unsolicited < MaxUnsolicited /\ unsolicited' = unsolicited + 1
      BY <1>23 DEF PeerUnsolicited
    <3> HIDE DEF Typed, TypeOK
    <3> QED
      BY <3>1, <3>2, ConstantsAssumption
  <2> QED
    BY <1>23, <2>1, <2>2, <2>3 DEF PeerUnsolicited, PeerSends, callerVars, readerVars
<1>24. CASE PeerCloses
  <2>1. inbound' \in Seq(Packet)
    <3>1. inbound \in Seq(Packet)
      OBVIOUS
    <3> HIDE DEF Typed, TypeOK
    <3>2. inbound' = inbound \/ inbound' = <<>>
      BY <1>24 DEF PeerCloses
    <3>3. <<>> \in Seq(Packet)
      OBVIOUS
    <3> QED
      BY <3>1, <3>2, <3>3
  <2> QED
    BY <1>24, <2>1 DEF PeerCloses, callerVars, readerVars
<1>25. CASE UNCHANGED vars
  BY <1>25 DEF vars, callerVars, readerVars, peerVars
<1> QED
  BY <1>1, <1>2, <1>3, <1>4, <1>5, <1>6, <1>7, <1>8, <1>9, <1>11, <1>12, <1>13,
     <1>14, <1>15, <1>16, <1>17, <1>18, <1>19, <1>20, <1>21, <1>22, <1>23, <1>24, <1>25
     DEF Next, CallerStep, ReaderStep, Terminated

(* Every variable of the client, the reader and the peer keeps its type in *)
(* every reachable state.                                                  *)
THEOREM TypeCorrect == Spec => []TypeOK
<1>1. Spec => []Typed
  BY TypedInit, TypedStep, PTL DEF Spec
<1> QED
  BY <1>1, PTL DEF Typed

-----------------------------------------------------------------------------
(* No stranded caller.                                                     *)

LEMMA SettleInit == Init => SettleInv
BY DEF Init, SettleInv, NoStrandedCaller

(* No step takes an entry out of the map without telling its channel.      *)
LEMMA SettleStep == Typed /\ SettleInv /\ [Next]_vars => SettleInv'
<1> SUFFICES ASSUME Typed, SettleInv, [Next]_vars PROVE SettleInv'
  OBVIOUS
<1> USE DEF SettleInv, NoStrandedCaller
<1>0. /\ pc \in [Callers -> {"idle", "insert", "write", "wait", "discard"}]
      /\ req \in [Callers -> MaybeReq]
      /\ rid \in [Callers -> Ids]
      /\ chan \in [Callers -> Chan]
      /\ pending \in [Ids -> MaybeReq]
  BY DEF Typed, TypeOK
<1>a. Empty.tag = "empty" /\ Closed.tag = "closed" /\ Failed.tag = "err"
  BY DEF Empty, Closed, Failed, Signal
<1>1. ASSUME NEW c \in Callers, FetchId(c) PROVE SettleInv'
  <2>1. issued + 1 # 0
    BY <1>1, NextReq DEF FetchId, BeginCall, Typed, TypeOK
  <2> QED
    BY <1>0, <1>1, <2>1 DEF FetchId, BeginCall, readerVars
<1>2. ASSUME NEW c \in Callers, TooLong(c) PROVE SettleInv'
  BY <1>0, <1>2 DEF TooLong, Return, readerVars
<1>3. ASSUME NEW c \in Callers, InsertPending(c) PROVE SettleInv'
  BY <1>0, <1>a, <1>3 DEF InsertPending, Step, Register, Settle, readerVars
<1>4. ASSUME NEW c \in Callers, WriteOk(c) PROVE SettleInv'
  BY <1>0, <1>4 DEF WriteOk, Step, SendFrame, readerVars
<1>5. ASSUME NEW c \in Callers, WriteFails(c) PROVE SettleInv'
  BY <1>0, <1>5 DEF WriteFails, Return, readerVars
<1>6. ASSUME NEW c \in Callers, RecvReply(c) PROVE SettleInv'
  BY <1>0, <1>6 DEF RecvReply, Return, readerVars
<1>7. ASSUME NEW c \in Callers, RecvFailed(c) PROVE SettleInv'
  BY <1>0, <1>7 DEF RecvFailed, Step, readerVars
<1>8. ASSUME NEW c \in Callers, RecvTimeout(c) PROVE SettleInv'
  BY <1>0, <1>8 DEF RecvTimeout, Step, readerVars
<1>9. ASSUME NEW c \in Callers, Discard(c) PROVE SettleInv'
  BY <1>0, <1>a, <1>9 DEF Discard, DiscardAs, Return, Settle, readerVars
<1>11. CASE ReadIgnored
  BY <1>11 DEF ReadIgnored, callerVars, readerVars
<1>12. CASE ReadNotification
  BY <1>12 DEF ReadNotification, callerVars
<1>13. CASE ReadTinyNotification
  BY <1>13 DEF ReadTinyNotification, callerVars
<1>14. CASE ReadInvalid
  BY <1>14 DEF ReadInvalid, Stop, callerVars
<1>15. CASE ReadReply
  <2> DEFINE p == Head(inbound)
             m == [tag |-> "reply", ans |-> p.ans, body |-> p.body, seen |-> p.seen]
  <2>1. m.tag # "empty"
    OBVIOUS
  <2>2. rstate' \in {"reading", "stopping"}
    BY <1>15 DEF ReadReply, Take, Stop
  <2>3. pending' = [pending EXCEPT ![p.id] = 0] /\ chan' = Settle(pending[p.id], m)
    BY <1>15 DEF ReadReply
  <2>4. p.id \in Ids
    BY <1>15, TakenPacket DEF ReadReply, Packet, Typed, TypeOK
  <2>5. UNCHANGED <<pc, req, rid>>
    BY <1>15 DEF ReadReply, callerVars
  <2> HIDE DEF m, p
  <2>6. ASSUME NEW c \in Callers, pc[c] \in {"write", "wait"}, chan'[c].tag = "empty"
        PROVE  pending'[rid[c]] = req[c]
    <3>1. ~(pending[p.id] # 0 /\ req[c] = pending[p.id]) /\ chan[c].tag = "empty"
      BY <2>1, <2>3, <2>6 DEF Settle
    <3>2. pending[rid[c]] = req[c] /\ req[c] # 0
      BY <2>6, <3>1
    <3> QED
      BY <1>0, <2>3, <2>4, <3>1, <3>2
  <2> QED
    BY <2>2, <2>5, <2>6
<1>16. CASE ReadError
  BY <1>16 DEF ReadError, Stop, callerVars
<1>17. CASE ReaderShutdown
  BY <1>17 DEF ReaderShutdown, EndReading, callerVars
<1>18. CASE Drain
  BY <1>0, <1>a, <1>18 DEF Drain, EndReader, callerVars
<1>19. CASE DropBegin
  BY <1>19 DEF DropBegin, callerVars, readerVars
<1>20. CASE DropShutdown
  BY <1>20 DEF DropShutdown, DropSocket, callerVars, readerVars
<1>21. CASE DropJoin
  BY <1>21 DEF DropJoin, callerVars, readerVars
<1>22. ASSUME NEW q \in todo, PeerAnswers(q) PROVE SettleInv'
  BY <1>22 DEF PeerAnswers, PeerSends, callerVars, readerVars
<1>23. CASE PeerUnsolicited
  BY <1>23 DEF PeerUnsolicited, PeerSends, callerVars, readerVars
<1>24. CASE PeerCloses
  BY <1>24 DEF PeerCloses, callerVars, readerVars
<1>25. CASE UNCHANGED vars
  BY <1>25 DEF vars, callerVars, readerVars
<1> QED
  BY <1>1, <1>2, <1>3, <1>4, <1>5, <1>6, <1>7, <1>8, <1>9, <1>11, <1>12, <1>13,
     <1>14, <1>15, <1>16, <1>17, <1>18, <1>19, <1>20, <1>21, <1>22, <1>23, <1>24, <1>25
     DEF Next, CallerStep, ReaderStep, Terminated

(* The invariant that explains it holds in every reachable state.          *)
THEOREM Settlement == Spec => []SettleInv
<1>1. Typed /\ SettleInv /\ [Next]_vars => (Typed /\ SettleInv)'
  BY TypedStep, SettleStep
<1> QED
  BY TypedInit, SettleInit, <1>1, PTL DEF Spec

(* Whatever the interleaving of callers, reader, drop and peer, and even   *)
(* after the ID counter wrapped, no caller waits on a channel that nobody  *)
(* is left to write to once the reader thread has drained `pending`.       *)
THEOREM NoneStranded == Spec => []NoStrandedCaller
BY Settlement, PTL DEF SettleInv

-----------------------------------------------------------------------------
(* Replies are paired with requests, while invoke IDs are not reused.      *)

LEMMA PairingInit == Init => PairingInv
BY DEF Init, PairingInv, ReplyAnswersRequest, Empty, Signal

(* No step before the wrap attaches an ID to a second request.             *)
LEMMA PairingStep ==
  ASSUME MaxRequests < IdMod, Typed, PairingInv, [Next]_vars
  PROVE  PairingInv'
<1> USE DEF PairingInv, ReplyAnswersRequest
<1>0. /\ issued \in MaybeReq
      /\ pc \in [Callers -> {"idle", "insert", "write", "wait", "discard"}]
      /\ req \in [Callers -> MaybeReq]
      /\ rid \in [Callers -> Ids]
      /\ chan \in [Callers -> Chan]
      /\ pending \in [Ids -> MaybeReq]
      /\ inbound \in Seq(Packet)
  BY DEF Typed, TypeOK
<1>a. Empty.tag = "empty" /\ Closed.tag = "closed" /\ Failed.tag = "err"
  BY DEF Empty, Closed, Failed, Signal
<1>b. ASSUME NEW p, p.ans \in {0, p.id}, PeerSends(p)
      PROVE  \A k \in DOMAIN inbound' : inbound'[k].ans \in {0, inbound'[k].id}
  <2>1. inbound' = Append(inbound, p)
    BY <1>b DEF PeerSends
  <2>2. ASSUME NEW k \in DOMAIN inbound' PROVE inbound'[k] = p \/ (k \in DOMAIN inbound /\ inbound'[k] = inbound[k])
    BY <1>0, <2>1, <2>2
  <2> QED
    BY <1>b, <2>2
<1>c. ASSUME NEW kinds, Take(kinds)
      PROVE  \A k \in DOMAIN inbound' : inbound'[k].ans \in {0, inbound'[k].id}
  <2>1. inbound' = Tail(inbound) /\ inbound # <<>>
    BY <1>c DEF Take
  <2>2. ASSUME NEW k \in DOMAIN inbound' PROVE k + 1 \in DOMAIN inbound /\ inbound'[k] = inbound[k + 1]
    BY <1>0, <2>1, <2>2
  <2> QED
    BY <2>2
<1>1. ASSUME NEW c \in Callers, FetchId(c) PROVE PairingInv'
  <2>1. invoke_id = issued + 1
    BY <1>1 DEF FetchId, BeginCall
  <2>2. issued' < MaxRequests => invoke_id' = issued' + 1
    <3>1. issued' = issued + 1 /\ invoke_id' = (issued + 2) % IdMod
      BY <1>0, <1>1, <2>1 DEF FetchId, BeginCall, MaybeReq
    <3> SUFFICES ASSUME issued' < MaxRequests PROVE invoke_id' = issued' + 1
      OBVIOUS
    <3>2. issued + 2 \in Nat /\ issued + 2 < IdMod
      BY <1>0, <3>1, ConstantsAssumption DEF MaybeReq
    <3>3. (issued + 2) % IdMod = issued + 2
      BY <3>2, SmallMod
    <3>4. issued \in Nat
      BY <1>0 DEF MaybeReq
    <3> HIDE DEF PairingInv
    <3> QED
      BY <3>1, <3>3, <3>4
  <2>3. \A d \in Callers : pc'[d] # "idle" => rid'[d] = req'[d]
    BY <1>0, <1>1, <2>1 DEF FetchId, BeginCall
  <2>4. ReplyAnswersRequest'
    BY <1>0, <1>a, <1>1 DEF FetchId, BeginCall
  <2> QED
    BY <1>1, <2>2, <2>3, <2>4 DEF FetchId, BeginCall, peerVars
<1>2. ASSUME NEW c \in Callers, TooLong(c) PROVE PairingInv'
  BY <1>0, <1>a, <1>2 DEF TooLong, Return, peerVars
<1>3. ASSUME NEW c \in Callers, InsertPending(c) PROVE PairingInv'
  BY <1>0, <1>a, <1>3 DEF InsertPending, Step, Register, Settle, peerVars
<1>4. ASSUME NEW c \in Callers, WriteOk(c) PROVE PairingInv'
  <2>1. \A q \in todo' : q.id = q.ans
    BY <1>4 DEF WriteOk, Step, SendFrame
  <2> QED
    BY <1>0, <1>4, <2>1 DEF WriteOk, Step, SendFrame
<1>5. ASSUME NEW c \in Callers, WriteFails(c) PROVE PairingInv'
  <2>1. \A q \in torn' : q.id = q.ans
    BY <1>5 DEF WriteFails
  <2> QED
    BY <1>0, <1>a, <1>5, <2>1 DEF WriteFails, Return, peerVars
<1>6. ASSUME NEW c \in Callers, RecvReply(c) PROVE PairingInv'
  BY <1>0, <1>a, <1>6 DEF RecvReply, Return, peerVars
<1>7. ASSUME NEW c \in Callers, RecvFailed(c) PROVE PairingInv'
  BY <1>0, <1>7 DEF RecvFailed, Step, peerVars
<1>8. ASSUME NEW c \in Callers, RecvTimeout(c) PROVE PairingInv'
  BY <1>0, <1>8 DEF RecvTimeout, Step, peerVars
<1>9. ASSUME NEW c \in Callers, Discard(c) PROVE PairingInv'
  BY <1>0, <1>a, <1>9 DEF Discard, DiscardAs, Return, Settle, peerVars
<1>11. CASE ReadIgnored
  BY <1>c, <1>11 DEF ReadIgnored, callerVars, peerVars
<1>12. CASE ReadNotification
  BY <1>c, <1>12 DEF ReadNotification, callerVars, peerVars
<1>13. CASE ReadTinyNotification
  BY <1>c, <1>13 DEF ReadTinyNotification, callerVars, peerVars
<1>14. CASE ReadInvalid
  BY <1>c, <1>14 DEF ReadInvalid, callerVars, peerVars
<1>15. CASE ReadReply
  <2> DEFINE p == Head(inbound)
             m == [tag |-> "reply", ans |-> p.ans, body |-> p.body, seen |-> p.seen]
  <2>1. p.id \in Ids
    BY <1>0, <1>15, TakenPacket DEF ReadReply, Packet
  <2>2. p.ans \in {0, p.id}
    <3>1. inbound # <<>>
      BY <1>15 DEF ReadReply, Take
    <3>2. p = inbound[1] /\ 1 \in DOMAIN inbound
      BY <1>0, <3>1
    <3> QED
      BY <3>2
  <2>3. m.ans = p.ans
    OBVIOUS
  <2>4. pending' = [pending EXCEPT ![p.id] = 0] /\ chan' = Settle(pending[p.id], m)
    BY <1>15 DEF ReadReply
  <2>5. UNCHANGED <<issued, invoke_id, pc, req, rid, todo, torn>>
    BY <1>15 DEF ReadReply, callerVars, peerVars
  <2>6. \A k \in DOMAIN inbound' : inbound'[k].ans \in {0, inbound'[k].id}
    BY <1>15, <1>c DEF ReadReply
  <2> HIDE DEF m, p
  <2>7. \A i \in Ids : pending'[i] \in {0, i}
    BY <1>0, <2>1, <2>4
  <2>8. ReplyAnswersRequest'
    BY <1>0, <2>1, <2>2, <2>3, <2>4, <2>5 DEF Settle
  <2> QED
    BY <2>5, <2>6, <2>7, <2>8
<1>16. CASE ReadError
  BY <1>16 DEF ReadError, callerVars, peerVars
<1>17. CASE ReaderShutdown
  BY <1>17 DEF ReaderShutdown, EndReading, callerVars, peerVars
<1>18. CASE Drain
  BY <1>0, <1>a, <1>18 DEF Drain, EndReader, callerVars, peerVars
<1>19. CASE DropBegin
  BY <1>19 DEF DropBegin, callerVars, peerVars
<1>20. CASE DropShutdown
  BY <1>20 DEF DropShutdown, DropSocket, callerVars, peerVars
<1>21. CASE DropJoin
  BY <1>21 DEF DropJoin, callerVars, peerVars
<1>22. ASSUME NEW q \in todo, PeerAnswers(q) PROVE PairingInv'
  <2>1. PICK body \in Bodies : PeerSends(Reply(q.id, q.ans, body))
    BY <1>22 DEF PeerAnswers
  <2>2. \A k \in DOMAIN inbound' : inbound'[k].ans \in {0, inbound'[k].id}
    BY <1>b, <2>1 DEF Reply
  <2> QED
    BY <1>22, <2>1, <2>2 DEF PeerAnswers, PeerSends, callerVars
<1>23. CASE PeerUnsolicited
  <2>1. PICK p : PeerSends(p) /\ p.ans \in {0, p.id}
    <3>1. ASSUME NEW q \in todo, NEW body PROVE Reply(q.id, q.ans, body).ans = Reply(q.id, q.ans, body).id
      BY DEF Reply
    <3>2. ASSUME NEW i, NEW body PROVE Reply(i, 0, body).ans = 0
      BY DEF Reply
    <3>3. ASSUME NEW k PROVE Other(k).ans = 0
      BY DEF Other
    <3>4. CASE \E q \in todo, body \in Bodies : PeerSends(Reply(q.id, q.ans, body))
      <4>1. PICK q \in todo, body \in Bodies : PeerSends(Reply(q.id, q.ans, body))
        BY <3>4
      <4> QED
        BY <3>1, <4>1
    <3>5. CASE \E i \in Ids, body \in Bodies : PeerSends(Reply(i, 0, body))
      <4>1. PICK i \in Ids, body \in Bodies : PeerSends(Reply(i, 0, body))
        BY <3>5
      <4> QED
        BY <3>2, <4>1
    <3>6. CASE \E k \in PeerKinds : PeerSends(Other(k))
      <4>1. PICK k \in PeerKinds : PeerSends(Other(k))
        BY <3>6
      <4> QED
        BY <3>3, <4>1
    <3> QED
      BY <1>23, <3>4, <3>5, <3>6, Zenon DEF PeerUnsolicited
  <2>2. \A k \in DOMAIN inbound' : inbound'[k].ans \in {0, inbound'[k].id}
    BY <1>b, <2>1
  <2> QED
    BY <1>23, <2>1, <2>2 DEF PeerUnsolicited, PeerSends, callerVars
<1>24. CASE PeerCloses
  <2>1. inbound' = inbound \/ inbound' = <<>>
    BY <1>24 DEF PeerCloses
  <2>2. \A k \in DOMAIN inbound' : inbound'[k].ans \in {0, inbound'[k].id}
    BY <2>1
  <2> QED
    BY <1>24, <2>2 DEF PeerCloses, callerVars
<1>25. CASE UNCHANGED vars
  BY <1>25 DEF vars, callerVars, peerVars
<1> QED
  BY <1>1, <1>2, <1>3, <1>4, <1>5, <1>6, <1>7, <1>8, <1>9, <1>11, <1>12, <1>13,
     <1>14, <1>15, <1>16, <1>17, <1>18, <1>19, <1>20, <1>21, <1>22, <1>23, <1>24, <1>25
     DEF Next, CallerStep, ReaderStep, Terminated

(* While fewer requests are made than there are invoke IDs, the ID a       *)
(* caller, an entry of `pending`, a request on the wire or a reply carries *)
(* is the number of its request: the inductive invariant.                  *)
THEOREM Pairing ==
  ASSUME MaxRequests < IdMod
  PROVE  Spec => []PairingInv
<1>1. Typed /\ PairingInv /\ [Next]_vars => (Typed /\ PairingInv)'
  BY TypedStep, PairingStep
<1> QED
  BY TypedInit, PairingInit, <1>1, PTL DEF Spec

(* As long as fewer requests are made than there are invoke IDs (2^32), a  *)
(* caller is never handed the reply to another request, whatever times     *)
(* out, fails to be written or is answered twice.                          *)
THEOREM RepliesPaired ==
  ASSUME MaxRequests < IdMod
  PROVE  Spec => []ReplyAnswersRequest
<1>1. PairingInv => ReplyAnswersRequest
  BY DEF PairingInv
<1> QED
  BY Pairing, <1>1, PTL

-----------------------------------------------------------------------------
(* Notifications are delivered before the replies that follow them.        *)

LEMMA StreamInit == Init => StreamInv
BY DEF Init, StreamInv, StreamOrdered, NotificationsPrecedeReply, Empty, Signal

(* read_exact returns only if there is a packet to read.                   *)
LEMMA NonEmpty == ASSUME NEW t \in Seq(Packet) PROVE t # <<>> <=> Len(t) > 0
<1>1. t = <<>> <=> Len(t) = 0
  OBVIOUS
<1>2. Len(t) \in Nat
  OBVIOUS
<1> QED
  BY <1>1, <1>2

(* Taking the first packet, and counting it if it is a notification.       *)
LEMMA StreamTake ==
  ASSUME Typed, StreamOrdered, inbound # <<>>, inbound' = Tail(inbound),
         notifs' = notifs + NotifOf(Head(inbound)), UNCHANGED <<peer, sent>>
  PROVE  StreamOrdered'
<1>1. inbound \in Seq(Packet) /\ notifs \in Nat /\ sent \in Nat
  BY DEF Typed, TypeOK
<1>2. ASSUME NEW k \in DOMAIN inbound
      PROVE  inbound[k].seen \in Nat /\ NotifOf(inbound[k]) \in Nat
  <2>1. inbound[k] \in Packet
    BY <1>1, <1>2
  <2>2. inbound[k].seen \in Nat
    BY <2>1 DEF Packet
  <2> QED
    BY <2>2 DEF NotifOf
<1>3. /\ Len(inbound) \in Nat /\ Len(inbound) >= 1
      /\ Len(inbound') = Len(inbound) - 1
      /\ Head(inbound) = inbound[1]
      /\ \A k \in 1 .. Len(inbound) - 1 : inbound'[k] = inbound[k + 1]
  BY <1>1
<1>4. inbound' # <<>> <=> Len(inbound) > 1
  <2>1. inbound' \in Seq(Packet)
    BY <1>1
  <2>2. inbound' # <<>> <=> Len(inbound') > 0
    BY <2>1, NonEmpty
  <2> QED
    BY <1>3, <2>2
<1>5. inbound' # <<>> => inbound'[1].seen <= notifs'
  <2> SUFFICES ASSUME Len(inbound) > 1 PROVE inbound'[1].seen <= notifs'
    BY <1>4
  <2>1. inbound'[1] = inbound[2] /\ inbound[2].seen <= inbound[1].seen + NotifOf(inbound[1])
    BY <1>3 DEF StreamOrdered
  <2>2. inbound[1].seen <= notifs /\ 1 \in DOMAIN inbound /\ 2 \in DOMAIN inbound
    BY <1>1, <1>3 DEF StreamOrdered
  <2>3. /\ inbound[1].seen \in Nat /\ NotifOf(inbound[1]) \in Nat
        /\ inbound[2].seen \in Nat /\ notifs' = notifs + NotifOf(inbound[1])
    BY <1>2, <1>3, <2>2
  <2> QED
    BY <1>1, <2>1, <2>2, <2>3
<1>6. \A k \in 1 .. Len(inbound') - 1 :
        inbound'[k + 1].seen <= inbound'[k].seen + NotifOf(inbound'[k])
  <2> TAKE k \in 1 .. Len(inbound') - 1
  <2>1. k + 1 \in 1 .. Len(inbound) - 1 /\ k \in 1 .. Len(inbound) - 1
    BY <1>3
  <2>2. inbound'[k] = inbound[k + 1] /\ inbound'[k + 1] = inbound[(k + 1) + 1]
    BY <1>3, <2>1
  <2>3. inbound[(k + 1) + 1].seen <= inbound[k + 1].seen + NotifOf(inbound[k + 1])
    BY <2>1 DEF StreamOrdered
  <2> QED
    BY <2>2, <2>3
<1>7. ASSUME peer = "open"
      PROVE  sent <= IF inbound' = <<>> THEN notifs'
                     ELSE inbound'[Len(inbound')].seen + NotifOf(inbound'[Len(inbound')])
  <2>1. sent <= inbound[Len(inbound)].seen + NotifOf(inbound[Len(inbound)])
    BY <1>7 DEF StreamOrdered
  <2>2. CASE Len(inbound) = 1
    <3>1. inbound' = <<>> /\ inbound[1].seen <= notifs /\ 1 \in DOMAIN inbound
      BY <1>1, <1>3, <1>4, <2>2 DEF StreamOrdered
    <3> QED
      BY <1>1, <1>2, <1>3, <2>1, <2>2, <3>1
  <2>3. CASE Len(inbound) > 1
    <3>1. inbound' # <<>> /\ inbound'[Len(inbound')] = inbound[Len(inbound)]
      BY <1>3, <1>4, <2>3
    <3> QED
      BY <2>1, <3>1
  <2> QED
    BY <1>3, <2>2, <2>3
<1> QED
  BY <1>5, <1>6, <1>7 DEF StreamOrdered

(* Appending a packet that records how many notifications went before it.  *)
LEMMA StreamSend ==
  ASSUME Typed, StreamOrdered, NEW p, PeerSends(p), p.seen = sent,
         sent' = sent + NotifOf(p)
  PROVE  StreamOrdered'
<1>1. inbound \in Seq(Packet) /\ notifs \in Nat /\ sent \in Nat
  BY DEF Typed, TypeOK
<1>2. /\ peer = "open" /\ inbound' = Append(inbound, p)
      /\ UNCHANGED <<notifs, peer>>
  BY DEF PeerSends, readerVars
<1>3. /\ Len(inbound) \in Nat /\ Len(inbound') = Len(inbound) + 1 /\ inbound' # <<>>
      /\ inbound'[Len(inbound')] = p
      /\ \A k \in 1 .. Len(inbound) : inbound'[k] = inbound[k]
      /\ inbound # <<>> <=> Len(inbound) >= 1
  BY <1>1, <1>2
<1>4. inbound'[1].seen <= notifs
  <2>1. CASE inbound = <<>>
    BY <1>1, <1>2, <1>3, <2>1 DEF StreamOrdered
  <2>2. CASE inbound # <<>>
    BY <1>3, <2>2 DEF StreamOrdered
  <2> QED
    BY <2>1, <2>2
<1>5. \A k \in 1 .. Len(inbound') - 1 :
        inbound'[k + 1].seen <= inbound'[k].seen + NotifOf(inbound'[k])
  <2> TAKE k \in 1 .. Len(inbound') - 1
  <2>1. CASE k = Len(inbound)
    <3>1. sent <= inbound[k].seen + NotifOf(inbound[k])
      BY <1>2, <1>3, <2>1 DEF StreamOrdered
    <3>2. inbound'[k] = inbound[k] /\ inbound'[k + 1] = p
      BY <1>3, <2>1
    <3> QED
      BY <3>1, <3>2
  <2>2. CASE k < Len(inbound)
    <3>1. inbound[k + 1].seen <= inbound[k].seen + NotifOf(inbound[k])
      BY <1>3, <2>2 DEF StreamOrdered
    <3> QED
      BY <1>3, <2>2, <3>1
  <2> QED
    BY <1>3, <2>1, <2>2
<1>6. sent' <= inbound'[Len(inbound')].seen + NotifOf(inbound'[Len(inbound')])
  <2>1. NotifOf(p) \in Nat
    BY DEF NotifOf
  <2> QED
    BY <1>1, <1>3, <2>1
<1> QED
  BY <1>2, <1>3, <1>4, <1>5, <1>6 DEF StreamOrdered

(* The reader counts a notification when it passes it on, not later.       *)
LEMMA StreamStep == Typed /\ StreamInv /\ [Next]_vars => StreamInv'
<1> SUFFICES ASSUME Typed, StreamInv, [Next]_vars PROVE StreamInv'
  OBVIOUS
<1> USE DEF StreamInv
<1>0. /\ chan \in [Callers -> Chan] /\ notifs \in Nat /\ sent \in Nat
      /\ inbound \in Seq(Packet)
  BY DEF Typed, TypeOK
<1>a. Empty.tag = "empty" /\ Closed.tag = "closed" /\ Failed.tag = "err"
  BY DEF Empty, Closed, Failed, Signal
<1>b. ASSUME UNCHANGED <<inbound, notifs, peer, sent>> PROVE StreamOrdered'
  BY <1>b DEF StreamOrdered
<1>c. ASSUME UNCHANGED <<chan, notifs>> PROVE NotificationsPrecedeReply'
  BY <1>c DEF NotificationsPrecedeReply
<1>d. ASSUME UNCHANGED notifs,
             \A d \in Callers : chan'[d] \in {chan[d], Empty, Closed, Failed}
      PROVE  NotificationsPrecedeReply'
  BY <1>a, <1>d DEF NotificationsPrecedeReply
<1>e. ASSUME NEW kinds, Take(kinds), "notif" \notin kinds, UNCHANGED <<notifs, peer, sent>>
      PROVE  StreamOrdered'
  <2>1. inbound # <<>> /\ inbound' = Tail(inbound) /\ NotifOf(Head(inbound)) = 0
    BY <1>e DEF Take, NotifOf
  <2>2. notifs' = notifs + NotifOf(Head(inbound))
    BY <1>0, <1>e, <2>1
  <2> QED
    BY <1>e, <2>1, <2>2, StreamTake
<1>1. ASSUME NEW c \in Callers, FetchId(c) PROVE StreamInv'
  BY <1>0, <1>b, <1>d, <1>1 DEF FetchId, BeginCall, readerVars, peerVars
<1>2. ASSUME NEW c \in Callers, TooLong(c) PROVE StreamInv'
  BY <1>0, <1>b, <1>d, <1>2 DEF TooLong, readerVars, peerVars
<1>3. ASSUME NEW c \in Callers, InsertPending(c) PROVE StreamInv'
  BY <1>0, <1>b, <1>d, <1>3 DEF InsertPending, Register, Settle, readerVars, peerVars
<1>4. ASSUME NEW c \in Callers, WriteOk(c) PROVE StreamInv'
  BY <1>0, <1>b, <1>c, <1>4 DEF WriteOk, SendFrame, readerVars
<1>5. ASSUME NEW c \in Callers, WriteFails(c) PROVE StreamInv'
  BY <1>0, <1>b, <1>d, <1>5 DEF WriteFails, readerVars, peerVars
<1>6. ASSUME NEW c \in Callers, RecvReply(c) PROVE StreamInv'
  BY <1>0, <1>b, <1>d, <1>6 DEF RecvReply, readerVars, peerVars
<1>7. ASSUME NEW c \in Callers, RecvFailed(c) PROVE StreamInv'
  BY <1>0, <1>b, <1>c, <1>7 DEF RecvFailed, readerVars, peerVars
<1>8. ASSUME NEW c \in Callers, RecvTimeout(c) PROVE StreamInv'
  BY <1>0, <1>b, <1>c, <1>8 DEF RecvTimeout, readerVars, peerVars
<1>9. ASSUME NEW c \in Callers, Discard(c) PROVE StreamInv'
  BY <1>0, <1>b, <1>d, <1>9 DEF Discard, DiscardAs, Settle, readerVars, peerVars
<1>11. CASE ReadIgnored
  BY <1>c, <1>e, <1>11 DEF ReadIgnored, readerVars, peerVars
<1>12. CASE ReadNotification
  <2>1. inbound # <<>> /\ inbound' = Tail(inbound) /\ NotifOf(Head(inbound)) = 1
    BY <1>12 DEF ReadNotification, Take, NotifOf
  <2>2. notifs' = notifs + 1 /\ UNCHANGED <<peer, sent, chan>>
    BY <1>12 DEF ReadNotification, peerVars
  <2>3. StreamOrdered'
    BY <2>1, <2>2, StreamTake
  <2>4. ASSUME NEW c \in Callers, chan[c].tag = "reply" PROVE notifs' >= chan[c].seen
    <3>1. chan[c].seen \in Nat /\ notifs >= chan[c].seen
      BY <1>0, <2>4 DEF Chan, NotificationsPrecedeReply
    <3> QED
      BY <1>0, <2>2, <3>1
  <2> QED
    BY <2>2, <2>3, <2>4 DEF NotificationsPrecedeReply
<1>13. CASE ReadTinyNotification
  BY <1>c, <1>e, <1>13 DEF ReadTinyNotification, readerVars, peerVars
<1>14. CASE ReadInvalid
  BY <1>c, <1>e, <1>14 DEF ReadInvalid, readerVars, peerVars
<1>15. CASE ReadReply
  <2> DEFINE p == Head(inbound)
             m == [tag |-> "reply", ans |-> p.ans, body |-> p.body, seen |-> p.seen]
  <2>1. StreamOrdered'
    BY <1>15, <1>e DEF ReadReply, peerVars
  <2>2. inbound # <<>>
    BY <1>15 DEF ReadReply, Take
  <2>3. p = inbound[1]
    BY <1>0, <2>2
  <2>4. notifs >= m.seen
    BY <1>0, <2>2, <2>3 DEF StreamOrdered, Packet
  <2>5. chan' = Settle(pending[p.id], m) /\ UNCHANGED notifs
    BY <1>15 DEF ReadReply
  <2> HIDE DEF p, m
  <2> QED
    BY <2>1, <2>4, <2>5 DEF Settle, NotificationsPrecedeReply
<1>16. CASE ReadError
  BY <1>b, <1>c, <1>16 DEF ReadError, peerVars
<1>17. CASE ReaderShutdown
  BY <1>b, <1>c, <1>17 DEF ReaderShutdown, EndReading, peerVars
<1>18. CASE Drain
  BY <1>b, <1>d, <1>18 DEF Drain, EndReader, peerVars
<1>19. CASE DropBegin
  BY <1>b, <1>c, <1>19 DEF DropBegin, readerVars, peerVars
<1>20. CASE DropShutdown
  BY <1>b, <1>c, <1>20 DEF DropShutdown, DropSocket, readerVars, peerVars
<1>21. CASE DropJoin
  BY <1>b, <1>c, <1>21 DEF DropJoin, readerVars, peerVars
<1>22. ASSUME NEW q \in todo, PeerAnswers(q) PROVE StreamInv'
  <2>1. PICK body \in Bodies : PeerSends(Reply(q.id, q.ans, body))
    BY <1>22 DEF PeerAnswers
  <2>2. Reply(q.id, q.ans, body).seen = sent /\ NotifOf(Reply(q.id, q.ans, body)) = 0
    BY DEF Reply, NotifOf
  <2>3. sent' = sent + NotifOf(Reply(q.id, q.ans, body))
    BY <1>0, <1>22, <2>2 DEF PeerAnswers
  <2>4. StreamOrdered'
    BY <2>1, <2>2, <2>3, StreamSend
  <2> QED
    BY <1>c, <2>1, <2>4 DEF PeerSends, readerVars
<1>23. CASE PeerUnsolicited
  <2>1. ASSUME NEW i, NEW r, NEW body, PeerSends(Reply(i, r, body)), UNCHANGED sent
        PROVE  StreamInv'
    <3>1. Reply(i, r, body).seen = sent /\ NotifOf(Reply(i, r, body)) = 0
      BY DEF Reply, NotifOf
    <3>2. sent' = sent + NotifOf(Reply(i, r, body))
      BY <1>0, <2>1, <3>1
    <3>3. StreamOrdered'
      BY <2>1, <3>1, <3>2, StreamSend
    <3> QED
      BY <1>c, <2>1, <3>3 DEF PeerSends, readerVars
  <2>2. ASSUME NEW k, PeerSends(Other(k)), sent' = IF k = "notif" THEN sent + 1 ELSE sent
        PROVE  StreamInv'
    <3>1. Other(k).seen = sent /\ NotifOf(Other(k)) = IF k = "notif" THEN 1 ELSE 0
      BY DEF Other, NotifOf
    <3>2. sent' = sent + NotifOf(Other(k))
      BY <1>0, <2>2, <3>1
    <3>3. StreamOrdered'
      BY <2>2, <3>1, <3>2, StreamSend
    <3> QED
      BY <1>c, <2>2, <3>3 DEF PeerSends, readerVars
  <2> QED
    BY <1>23, <2>1, <2>2, Zenon DEF PeerUnsolicited
<1>24. CASE PeerCloses
  <2>1. inbound' = inbound \/ inbound' = <<>>
    BY <1>24 DEF PeerCloses
  <2>2. peer' = "closed" /\ UNCHANGED <<notifs, chan, sent>>
    BY <1>24 DEF PeerCloses, readerVars
  <2>3. CASE inbound' = inbound
    BY <1>c, <2>2, <2>3 DEF StreamOrdered
  <2>4. CASE inbound' = <<>>
    <3>1. Len(inbound') = 0
      BY <2>4
    <3>2. 1 .. Len(inbound') - 1 = {}
      BY <3>1
    <3> QED
      BY <1>c, <2>2, <2>4, <3>2 DEF StreamOrdered
  <2> QED
    BY <2>1, <2>3, <2>4
<1>25. CASE UNCHANGED vars
  BY <1>b, <1>c, <1>25 DEF vars, readerVars, peerVars
<1> QED
  BY <1>1, <1>2, <1>3, <1>4, <1>5, <1>6, <1>7, <1>8, <1>9, <1>11, <1>12, <1>13,
     <1>14, <1>15, <1>16, <1>17, <1>18, <1>19, <1>20, <1>21, <1>22, <1>23, <1>24, <1>25
     DEF Next, CallerStep, ReaderStep, Terminated

(* No packet of the stream, and no reply the reader thread handed out, is  *)
(* ahead of a notification that was sent before it: the inductive          *)
(* invariant.                                                              *)
THEOREM StreamOrder == Spec => []StreamInv
<1>1. Typed /\ StreamInv /\ [Next]_vars => (Typed /\ StreamInv)'
  BY TypedStep, StreamStep
<1> QED
  BY TypedInit, StreamInit, <1>1, PTL DEF Spec

(* When the reply to a call arrives, every notification the peer sent      *)
(* before it is already in the notification channel.                       *)
THEOREM NotificationsFirst == Spec => []NotificationsPrecedeReply
BY StreamOrder, PTL DEF StreamInv

-----------------------------------------------------------------------------
(* The client implements AdsCalls, while invoke IDs are not reused.        *)

(* Requests have owners of their own, and a request whose channel holds    *)
(* something, or that is not registered yet, is not in the map: it is      *)
(* settled at most once.                                                   *)
RegInv ==
  /\ \A c \in Callers : (pc[c] = "idle" <=> req[c] = 0) /\ req[c] <= issued
  /\ \A c, d \in Callers : req[c] = req[d] /\ req[c] # 0 => c = d
  /\ \A n \in Ids : pending[n] <= issued
  /\ \A c \in Callers : pc[c] = "insert" => chan[c].tag = "empty"
  /\ \A c \in Callers, n \in Ids :
       pc[c] = "insert" \/ (req[c] # 0 /\ chan[c].tag # "empty") => pending[n] # req[c]

LEMMA RegInit == Init => RegInv
<1> SUFFICES ASSUME Init PROVE RegInv
  OBVIOUS
<1>1. 0 <= 0
  OBVIOUS
<1> QED
  BY <1>1 DEF Init, RegInv

(* What an action other than FetchId does to numbers and the map.          *)
LEMMA RegFrame ==
  ASSUME Typed, RegInv, issued' = issued,
         \A c \in Callers : \/ pc'[c] = "idle" /\ req'[c] = 0
                            \/ /\ req'[c] = req[c] /\ pc[c] # "idle" /\ pc'[c] # "idle"
                               /\ pc'[c] = "insert" => pc[c] = "insert" /\ chan'[c] = chan[c]
                            \/ req'[c] = req[c] /\ pc'[c] = pc[c] /\ pc'[c] # "insert"
                            \/ req'[c] = req[c] /\ pc'[c] = pc[c] /\ chan'[c] = chan[c],
         \A n \in Ids : \/ pending'[n] \in {0, pending[n]}
                        \/ \E c \in Callers : pending'[n] = req[c],
         \A c \in Callers, n \in Ids :
           pc'[c] = "insert" \/ (req'[c] # 0 /\ chan'[c].tag # "empty") => pending'[n] # req'[c]
  PROVE  RegInv'
<1>1. issued \in Nat /\ \A n \in Ids : pending[n] \in Nat
  <2>1. \A n \in MaybeReq : n \in Nat
    BY DEF MaybeReq
  <2> QED
    BY <2>1 DEF Typed, TypeOK
<1>2. ASSUME NEW c \in Callers PROVE (pc'[c] = "idle" <=> req'[c] = 0) /\ req'[c] <= issued
  <2>1. (pc[c] = "idle" <=> req[c] = 0) /\ req[c] <= issued
    BY DEF RegInv
  <2>2. 0 <= issued
    BY <1>1
  <2>3. pc'[c] = "idle" <=> req'[c] = 0
    BY <2>1
  <2>4. req'[c] = 0 \/ req'[c] = req[c]
    OBVIOUS
  <2> QED
    BY <2>1, <2>2, <2>3, <2>4
<1>3. ASSUME NEW c \in Callers, NEW d \in Callers, req'[c] = req'[d], req'[c] # 0 PROVE c = d
  BY <1>3 DEF RegInv
<1>4. ASSUME NEW n \in Ids PROVE pending'[n] <= issued
  BY <1>1 DEF RegInv
<1>5. ASSUME NEW c \in Callers, pc'[c] = "insert" PROVE chan'[c].tag = "empty"
  BY <1>5 DEF RegInv
<1> QED
  BY <1>2, <1>3, <1>4, <1>5 DEF RegInv

(* Registering, discarding and draining keep map and callers consistent.   *)
LEMMA RegStep ==
  ASSUME MaxRequests < IdMod, Typed, PairingInv, RegInv, [Next]_vars
  PROVE  RegInv'
<1>0. /\ pc \in [Callers -> {"idle", "insert", "write", "wait", "discard"}]
      /\ req \in [Callers -> MaybeReq]
      /\ rid \in [Callers -> Ids]
      /\ chan \in [Callers -> Chan]
      /\ pending \in [Ids -> MaybeReq]
      /\ issued \in Nat
      /\ \A n \in MaybeReq : n \in Nat
  <2>1. \A n \in MaybeReq : n \in Nat
    BY DEF MaybeReq
  <2> QED
    BY <2>1 DEF Typed, TypeOK
<1>a. Empty.tag = "empty" /\ Closed.tag = "closed" /\ Failed.tag = "err"
  BY DEF Empty, Closed, Failed, Signal
<1>b. /\ \A c \in Callers : (pc[c] = "idle" <=> req[c] = 0) /\ req[c] <= issued
      /\ \A c, d \in Callers : req[c] = req[d] /\ req[c] # 0 => c = d
      /\ \A n \in Ids : pending[n] <= issued
      /\ \A c \in Callers : pc[c] = "insert" => chan[c].tag = "empty"
      /\ \A c \in Callers, n \in Ids :
           pc[c] = "insert" \/ (req[c] # 0 /\ chan[c].tag # "empty") => pending[n] # req[c]
  BY DEF RegInv
<1>c. /\ \A c \in Callers : pc[c] # "idle" => rid[c] = req[c]
      /\ \A n \in Ids : pending[n] \in {0, n}
  BY DEF PairingInv
<1>1. ASSUME NEW c \in Callers, FetchId(c) PROVE RegInv'
  <2>1. /\ issued' = issued + 1 /\ req' = [req EXCEPT ![c] = issued + 1]
        /\ pc' = [pc EXCEPT ![c] = "insert"] /\ chan' = [chan EXCEPT ![c] = Empty]
        /\ pending' = pending
    BY <1>1 DEF FetchId, BeginCall
  <2>2. \A n \in Nat : n <= issued => n <= issued + 1 /\ n # issued + 1
    BY <1>0
  <2>3. issued + 1 # 0 /\ issued + 1 <= issued + 1
    BY <1>0
  <2>4. ASSUME NEW d \in Callers
        PROVE  /\ req[d] \in Nat /\ req[d] <= issued + 1 /\ req[d] # issued + 1
               /\ req'[d] = (IF d = c THEN issued + 1 ELSE req[d])
               /\ pc'[d] = (IF d = c THEN "insert" ELSE pc[d])
               /\ chan'[d] = (IF d = c THEN Empty ELSE chan[d])
    BY <1>0, <1>b, <2>1, <2>2
  <2>5. ASSUME NEW n \in Ids
        PROVE  pending[n] <= issued + 1 /\ pending[n] # issued + 1
    BY <1>0, <1>b, <2>2
  <2> QED
    BY <1>a, <1>b, <2>1, <2>3, <2>4, <2>5 DEF RegInv
<1>2. ASSUME NEW c \in Callers, TooLong(c) \/ WriteFails(c) \/ RecvReply(c) PROVE RegInv'
  <2>1. /\ issued' = issued /\ pending' = pending
        /\ req' = [req EXCEPT ![c] = 0] /\ pc' = [pc EXCEPT ![c] = "idle"]
        /\ chan' = [chan EXCEPT ![c] = Empty]
    BY <1>2 DEF TooLong, WriteFails, RecvReply, Return
  <2> QED
    BY <1>0, <1>a, <1>b, <2>1, RegFrame
<1>3. ASSUME NEW c \in Callers, InsertPending(c) PROVE RegInv'
  <2>1. /\ issued' = issued /\ req' = req /\ pc[c] = "insert" /\ pc' = [pc EXCEPT ![c] = "write"]
        /\ pending' = [pending EXCEPT ![rid[c]] = req[c]]
        /\ chan' = Settle(pending[rid[c]], Closed)
    BY <1>3 DEF InsertPending, Step, Register
  <2>2. rid[c] = req[c] /\ rid[c] \in Ids /\ pending[rid[c]] = 0 /\ req[c] # 0
    BY <1>0, <1>b, <1>c, <2>1
  <2>3. \A d \in Callers : chan'[d] = chan[d]
    BY <2>1, <2>2 DEF Settle
  <2>4. \A n \in Ids : pending'[n] = IF n = rid[c] THEN req[c] ELSE pending[n]
    BY <1>0, <2>1
  <2>5. ASSUME NEW d \in Callers, NEW n \in Ids,
               pc'[d] = "insert" \/ (req'[d] # 0 /\ chan'[d].tag # "empty")
        PROVE  pending'[n] # req'[d]
    <3>1. CASE d = c
      BY <1>0, <1>b, <2>1, <2>3, <2>5, <3>1
    <3>2. CASE d # c
      <4>1. pc'[d] = pc[d] /\ req[d] # req[c]
        BY <1>0, <1>b, <2>1, <2>2, <3>2
      <4> QED
        BY <1>b, <2>1, <2>3, <2>4, <2>5, <4>1
    <3> QED
      BY <3>1, <3>2
  <2> QED
    BY <1>0, <1>b, <2>1, <2>2, <2>3, <2>4, <2>5, RegFrame
<1>4. ASSUME NEW c \in Callers, WriteOk(c) \/ RecvFailed(c) \/ RecvTimeout(c) PROVE RegInv'
  <2>1. /\ issued' = issued /\ pending' = pending /\ req' = req /\ chan' = chan
        /\ pc[c] \in {"write", "wait"} /\ pc' \in {[pc EXCEPT ![c] = "wait"], [pc EXCEPT ![c] = "discard"]}
    BY <1>4 DEF WriteOk, RecvFailed, RecvTimeout, Step, SendFrame
  <2> QED
    BY <1>0, <1>b, <2>1, RegFrame
<1>9. ASSUME NEW c \in Callers, Discard(c) PROVE RegInv'
  <2>1. /\ issued' = issued /\ pc[c] = "discard"
        /\ req' = [req EXCEPT ![c] = 0] /\ pc' = [pc EXCEPT ![c] = "idle"]
        /\ pending' = [pending EXCEPT ![rid[c]] = 0]
        /\ chan' = [Settle(pending[rid[c]], Closed) EXCEPT ![c] = Empty]
    BY <1>9 DEF Discard, DiscardAs, Return
  <2>2. rid[c] = req[c] /\ rid[c] \in Ids /\ pending[rid[c]] \in {0, req[c]} /\ req[c] # 0
    BY <1>0, <1>b, <1>c, <2>1
  <2>3. \A d \in Callers : chan'[d] = IF d = c THEN Empty ELSE chan[d]
    BY <1>b, <2>1, <2>2 DEF Settle
  <2>4. \A n \in Ids : pending'[n] = IF n = rid[c] THEN 0 ELSE pending[n]
    BY <1>0, <2>1
  <2>5. ASSUME NEW d \in Callers, NEW n \in Ids,
               pc'[d] = "insert" \/ (req'[d] # 0 /\ chan'[d].tag # "empty")
        PROVE  pending'[n] # req'[d]
    <3>1. d # c
      BY <1>0, <2>1, <2>5
    <3>2. pc'[d] = pc[d] /\ req'[d] = req[d]
      BY <1>0, <2>1, <3>1
    <3> QED
      BY <1>b, <2>3, <2>4, <2>5, <3>1, <3>2
  <2> QED
    BY <1>0, <1>b, <2>1, <2>3, <2>4, <2>5, RegFrame
<1>15. CASE ReadReply
  <2> DEFINE p == Head(inbound)
             m == [tag |-> "reply", ans |-> p.ans, body |-> p.body, seen |-> p.seen]
  <2>1. /\ issued' = issued /\ req' = req /\ pc' = pc
        /\ pending' = [pending EXCEPT ![p.id] = 0] /\ chan' = Settle(pending[p.id], m)
    BY <1>15 DEF ReadReply, callerVars
  <2>2. p.id \in Ids
    BY <1>15, TakenPacket DEF ReadReply, Packet, Typed, TypeOK
  <2> HIDE DEF m, p
  <2>3. \A n \in Ids : pending'[n] = IF n = p.id THEN 0 ELSE pending[n]
    BY <1>0, <2>1
  <2>4. ASSUME NEW d \in Callers, pending[p.id] # 0, req[d] = pending[p.id], NEW n \in Ids
        PROVE  pending'[n] # req[d]
    BY <1>c, <2>2, <2>3, <2>4
  <2>5. ASSUME NEW d \in Callers, ~(pending[p.id] # 0 /\ req[d] = pending[p.id])
        PROVE  chan'[d] = chan[d]
    BY <2>1, <2>5 DEF Settle
  <2>6. ASSUME NEW d \in Callers, pc[d] = "insert" PROVE chan'[d] = chan[d]
    BY <1>b, <2>2, <2>5, <2>6
  <2>7. ASSUME NEW d \in Callers, NEW n \in Ids,
               pc'[d] = "insert" \/ (req'[d] # 0 /\ chan'[d].tag # "empty")
        PROVE  pending'[n] # req'[d]
    BY <1>b, <2>1, <2>3, <2>4, <2>5, <2>7
  <2> QED
    BY <1>0, <1>b, <2>1, <2>3, <2>6, <2>7, RegFrame
<1>18. CASE Drain
  <2>1. /\ issued' = issued /\ req' = req /\ pc' = pc
        /\ pending' = [n \in Ids |-> 0]
        /\ \A c \in Callers : chan'[c] = IF req[c] # 0 /\ \E n \in Ids : pending[n] = req[c]
                                        THEN Failed ELSE chan[c]
    BY <1>18 DEF Drain, EndReader, callerVars
  <2>2. ASSUME NEW d \in Callers, pc[d] = "insert" PROVE chan'[d] = chan[d] /\ req[d] # 0
    BY <1>b, <2>1, <2>2
  <2> QED
    BY <1>0, <1>b, <2>1, <2>2, RegFrame
<1>20. CASE \/ ReadIgnored \/ ReadNotification \/ ReadTinyNotification \/ ReadInvalid \/ ReadError
            \/ ReaderShutdown \/ DropBegin \/ DropShutdown \/ DropJoin \/ PeerUnsolicited
            \/ PeerCloses \/ UNCHANGED vars \/ \E q \in todo : PeerAnswers(q)
  <2>1. UNCHANGED <<issued, pc, req, chan, pending>>
    BY <1>20 DEF ReadIgnored, ReadNotification, ReadTinyNotification, ReadInvalid, ReadError,
                 ReaderShutdown, EndReading, DropBegin, DropShutdown, DropSocket, DropJoin,
                 PeerUnsolicited, PeerAnswers, PeerSends, PeerCloses, vars, callerVars
  <2> QED
    BY <1>b, <2>1 DEF RegInv
<1> QED
  BY <1>1, <1>2, <1>3, <1>4, <1>9, <1>15, <1>18, <1>20
     DEF Next, CallerStep, ReaderStep, Terminated

(* What a caller sees of its call.                                         *)
StateOf(p, t) ==
  IF p = "idle" THEN "idle"
  ELSE IF p = "discard" \/ t \in {"err", "closed"} THEN "failed"
  ELSE IF t = "reply" THEN "answered" ELSE "open"

(* The abstract state of a call is a function of its pc and its channel.   *)
LEMMA CallStates ==
  /\ callState = [c \in Callers |-> StateOf(pc[c], chan[c].tag)]
  /\ callState' = [c \in Callers |-> StateOf(pc'[c], chan'[c].tag)]
  /\ \A t : StateOf("idle", t) = "idle" /\ StateOf("discard", t) = "failed"
  /\ \A p \in {"insert", "write", "wait"} :
       /\ StateOf(p, "empty") = "open" /\ StateOf(p, "reply") = "answered"
       /\ StateOf(p, "err") = "failed" /\ StateOf(p, "closed") = "failed"
  /\ \A p, t : p # "idle" => StateOf(p, t) \in {"open", "answered", "failed"}
BY DEF callState, StateOf

(* The number of the call a packet answers.                                *)
Number(p) == IF p.ans = 0 THEN p.id ELSE p.ans
AnswersOf(s) ==
  MaybeReq \cap {Number(s[k]) : k \in {m \in DOMAIN s : s[m].kind = "reply"}}

(* The abstract answers under way are those in the stream.                 *)
LEMMA AnswersUnderWay ==
  answersUnderWay = AnswersOf(inbound) /\ answersUnderWay' = AnswersOf(inbound')
BY DEF answersUnderWay, AnswersOf, Number

(* Reading a packet takes at most its own answer out of the stream.        *)
LEMMA AnswersTail ==
  ASSUME NEW s \in Seq(Packet), s # <<>>
  PROVE  /\ AnswersOf(Tail(s)) \subseteq AnswersOf(s)
         /\ AnswersOf(s) \subseteq AnswersOf(Tail(s)) \cup {Number(Head(s))}
         /\ Head(s).kind = "reply" /\ Number(Head(s)) \in MaybeReq => Number(Head(s)) \in AnswersOf(s)
<1>1. \A k \in DOMAIN Tail(s) : k + 1 \in DOMAIN s /\ Tail(s)[k] = s[k + 1]
  OBVIOUS
<1>2. \A k \in DOMAIN s : k # 1 => k - 1 \in DOMAIN Tail(s) /\ Tail(s)[k - 1] = s[k]
  OBVIOUS
<1>3. 1 \in DOMAIN s /\ Head(s) = s[1]
  OBVIOUS
<1>4. AnswersOf(Tail(s)) \subseteq AnswersOf(s)
  <2> SUFFICES ASSUME NEW n \in AnswersOf(Tail(s)) PROVE n \in AnswersOf(s)
    OBVIOUS
  <2>1. n \in MaybeReq
    BY DEF AnswersOf
  <2>2. PICK k \in DOMAIN Tail(s) : Tail(s)[k].kind = "reply" /\ n = Number(Tail(s)[k])
    BY DEF AnswersOf
  <2>3. k + 1 \in DOMAIN s /\ s[k + 1].kind = "reply" /\ n = Number(s[k + 1])
    BY <1>1, <2>2
  <2> QED
    BY <2>1, <2>3 DEF AnswersOf
<1>5. ASSUME NEW n \in AnswersOf(s), n # Number(Head(s)) PROVE n \in AnswersOf(Tail(s))
  <2>1. n \in MaybeReq
    BY DEF AnswersOf
  <2>2. PICK k \in DOMAIN s : s[k].kind = "reply" /\ n = Number(s[k])
    BY DEF AnswersOf
  <2>3. k # 1
    BY <1>3, <1>5, <2>2
  <2>4. k - 1 \in DOMAIN Tail(s) /\ Tail(s)[k - 1] = s[k]
    BY <1>2, <2>3
  <2> QED
    BY <2>1, <2>2, <2>4 DEF AnswersOf
<1>6. Head(s).kind = "reply" /\ Number(Head(s)) \in MaybeReq => Number(Head(s)) \in AnswersOf(s)
  BY <1>3 DEF AnswersOf
<1> QED
  BY <1>4, <1>5, <1>6

(* Sending a packet adds at most its own answer to the stream.             *)
LEMMA AnswersAppend ==
  ASSUME NEW s \in Seq(Packet), NEW p \in Packet
  PROVE  AnswersOf(Append(s, p)) =
           AnswersOf(s) \cup (IF p.kind = "reply" THEN {Number(p)} \cap MaybeReq ELSE {})
<1> DEFINE t == Append(s, p)
<1> DEFINE l == Len(s) + 1
<1>1. /\ l \in DOMAIN t /\ t[l] = p
      /\ \A k \in DOMAIN s : k \in DOMAIN t /\ t[k] = s[k]
      /\ \A k \in DOMAIN t : k = l \/ k \in DOMAIN s
  OBVIOUS
<1> HIDE DEF t, l
<1>2. ASSUME NEW n \in AnswersOf(t)
      PROVE  n \in AnswersOf(s) \/ (p.kind = "reply" /\ n = Number(p) /\ n \in MaybeReq)
  <2>1. n \in MaybeReq
    BY DEF AnswersOf
  <2>2. PICK k \in DOMAIN t : t[k].kind = "reply" /\ n = Number(t[k])
    BY DEF AnswersOf
  <2>3. CASE k = l
    BY <1>1, <2>1, <2>2, <2>3
  <2>4. CASE k \in DOMAIN s
    BY <1>1, <2>1, <2>2, <2>4 DEF AnswersOf
  <2> QED
    BY <1>1, <2>3, <2>4
<1>3. ASSUME NEW n \in AnswersOf(s) PROVE n \in AnswersOf(t)
  <2>1. n \in MaybeReq
    BY DEF AnswersOf
  <2>2. PICK k \in DOMAIN s : s[k].kind = "reply" /\ n = Number(s[k])
    BY DEF AnswersOf
  <2> QED
    BY <1>1, <2>1, <2>2 DEF AnswersOf
<1>4. ASSUME p.kind = "reply", Number(p) \in MaybeReq PROVE Number(p) \in AnswersOf(t)
  BY <1>1, <1>4 DEF AnswersOf
<1> QED
  BY <1>2, <1>3, <1>4 DEF t

(* A call returns.                                                         *)
LEMMA SimFinish ==
  ASSUME Typed, NEW c \in Callers, NEW outcome, pc[c] # "idle", Return(c, outcome),
         outcome = "err" \/ (callState[c] = "answered" /\ outcome \in {"ok", "err", "panic"}),
         \A d \in Callers : d # c => chan'[d] = chan[d],
         inbound' = inbound, rstate' = rstate
  PROVE  Calls!Finish(c)
<1>1. /\ pc' = [pc EXCEPT ![c] = "idle"] /\ req' = [req EXCEPT ![c] = 0]
      /\ last' = [last EXCEPT ![c] = outcome] /\ issued' = issued
  BY DEF Return
<1>2. callState[c] \in {"open", "answered", "failed"}
  BY CallStates
<1>3. callState' = [callState EXCEPT ![c] = "idle"]
  <2>1. ASSUME NEW d \in Callers PROVE callState'[d] = IF d = c THEN "idle" ELSE callState[d]
    <3>1. pc'[d] = IF d = c THEN "idle" ELSE pc[d]
      BY <1>1 DEF Typed, TypeOK
    <3> QED
      BY <3>1, CallStates
  <2>2. callState' = [d \in Callers |-> callState'[d]] /\ callState = [d \in Callers |-> callState[d]]
    BY CallStates
  <2> QED
    BY <2>1, <2>2
<1>4. answersUnderWay' = answersUnderWay
  BY AnswersUnderWay
<1>5. outcome \in IF callState[c] = "answered" THEN {"ok", "err", "panic"} ELSE {"err"}
  OBVIOUS
<1> QED
  BY <1>1, <1>2, <1>3, <1>4, <1>5 DEF Calls!Finish

(* Nothing a caller sees changes.                                          *)
LEMMA SimStutter ==
  ASSUME UNCHANGED <<issued, req, last, inbound>>,
         rstate' = rstate \/ (rstate # "reading" /\ rstate' # "reading"),
         \A c \in Callers : StateOf(pc'[c], chan'[c].tag) = StateOf(pc[c], chan[c].tag)
  PROVE  UNCHANGED Calls!vars
<1>1. callState' = callState
  BY CallStates
<1>2. answersUnderWay' = answersUnderWay
  BY AnswersUnderWay
<1>3. (rstate = "reading")' = (rstate = "reading")
  OBVIOUS
<1> QED
  BY <1>1, <1>2, <1>3 DEF Calls!vars

(* The reader takes a packet, or the stream is cut.                        *)
LEMMA SimLose ==
  ASSUME UNCHANGED <<issued, req, last>>,
         answersUnderWay' \subseteq answersUnderWay,
         rstate' = rstate \/ rstate' # "reading",
         \A c \in Callers : StateOf(pc'[c], chan'[c].tag) = StateOf(pc[c], chan[c].tag)
  PROVE  Calls!Lose
<1>1. callState' = callState
  BY CallStates
<1>2. (rstate = "reading")' \in {rstate = "reading", FALSE}
  OBVIOUS
<1> QED
  BY <1>1, <1>2 DEF Calls!Lose

(* The peer sends a packet.                                                *)
LEMMA SimSend ==
  ASSUME Typed, NEW p \in Packet, PeerSends(p)
  PROVE  [Calls!Next]_(Calls!vars)
<1>1. /\ inbound' = Append(inbound, p) /\ inbound \in Seq(Packet)
      /\ UNCHANGED <<issued, req, last, pc, chan, rstate>>
  BY DEF PeerSends, callerVars, readerVars, Typed, TypeOK
<1>2. callState' = callState
  BY <1>1, CallStates
<1>3. answersUnderWay' =
        answersUnderWay \cup (IF p.kind = "reply" THEN {Number(p)} \cap MaybeReq ELSE {})
  BY <1>1, AnswersUnderWay, AnswersAppend
<1>4. CASE p.kind = "reply" /\ Number(p) \in MaybeReq
  <2>1. answersUnderWay' = answersUnderWay \cup {Number(p)}
    BY <1>3, <1>4
  <2>2. Calls!Answer(Number(p))
    BY <1>1, <1>2, <2>1 DEF Calls!Answer
  <2>3. \E n \in 0 .. MaxRequests : Calls!Answer(n)
    BY <1>4, <2>2 DEF MaybeReq
  <2> QED
    BY <2>3 DEF Calls!Next
<1>5. CASE ~(p.kind = "reply" /\ Number(p) \in MaybeReq)
  <2>1. answersUnderWay' = answersUnderWay
    BY <1>3, <1>5
  <2> QED
    BY <1>1, <1>2, <2>1 DEF Calls!vars
<1> QED
  BY <1>4, <1>5

(* The reader takes a packet and tells nobody.                             *)
LEMMA SimTake ==
  ASSUME Typed, NEW kinds, Take(kinds), UNCHANGED <<issued, req, last>>,
         rstate' = rstate \/ rstate' # "reading",
         \A c \in Callers : StateOf(pc'[c], chan'[c].tag) = StateOf(pc[c], chan[c].tag)
  PROVE  Calls!Next
<1>1. inbound \in Seq(Packet) /\ inbound # <<>> /\ inbound' = Tail(inbound)
  BY DEF Typed, TypeOK, Take
<1>2. answersUnderWay' \subseteq answersUnderWay
  BY <1>1, AnswersUnderWay, AnswersTail
<1> QED
  BY <1>2, SimLose DEF Calls!Next

(* A reply settles the call it answers, or arrives after it was given up,  *)
(* or belongs to none.                                                     *)
LEMMA SimReply ==
  ASSUME Typed, PairingInv, RegInv, ReadReply
  PROVE  Calls!Next
<1> DEFINE p == Head(inbound)
           r == pending[p.id]
           m == [tag |-> "reply", ans |-> p.ans, body |-> p.body, seen |-> p.seen]
<1>1. /\ UNCHANGED <<issued, req, last, pc>> /\ chan' = Settle(r, m)
      /\ Take({"reply"}) /\ rstate = "reading" /\ p.kind = "reply"
  BY DEF ReadReply, callerVars, Take
<1>2. (Awaited(r) /\ rstate' = rstate) \/ (~Awaited(r) /\ rstate' # "reading")
  <2>1. \/ Awaited(r) /\ rstate' = rstate
        \/ r # 0 /\ ~Awaited(r) /\ rstate' = "stopping"
        \/ r = 0 /\ rstate' = "stopping"
    BY DEF ReadReply, Stop
  <2>2. r = 0 => ~Awaited(r)
    BY DEF Awaited
  <2> HIDE DEF r
  <2> QED
    BY <2>1, <2>2
<1>3. inbound \in Seq(Packet) /\ inbound # <<>> /\ inbound' = Tail(inbound)
  BY <1>1 DEF Typed, TypeOK, Take
<1>4. p \in Packet /\ p.id \in Ids /\ p.ans \in {0, p.id}
  <2>1. p \in Packet /\ 1 \in DOMAIN inbound /\ p = inbound[1]
    BY <1>3
  <2>2. inbound[1].ans \in {0, inbound[1].id}
    BY <2>1 DEF PairingInv
  <2>3. p.id \in Ids
    BY <2>1 DEF Packet
  <2> QED
    BY <2>1, <2>2, <2>3
<1>5. m.tag = "reply"
  OBVIOUS
<1>6. r \in MaybeReq /\ r \in {0, p.id}
  BY <1>4 DEF Typed, TypeOK, PairingInv
<1>7. Number(p) = p.id
  BY <1>4 DEF Number
<1> HIDE DEF p, m
<1>8. CASE ~Awaited(r)
  <2>1. \A c \in Callers : chan'[c] = chan[c]
    BY <1>1, <1>8 DEF Settle, Awaited
  <2>2. rstate' # "reading"
    BY <1>2, <1>8
  <2> QED
    BY <1>1, <2>1, <2>2, SimTake
<1>9. CASE Awaited(r)
  <2>1. PICK c \in Callers : req[c] = r /\ r # 0
    BY <1>9 DEF Awaited
  <2> HIDE DEF r
  <2>2. r = p.id /\ r \in Ids
    BY <1>4, <1>6, <2>1
  <2>3. chan[c].tag = "empty" /\ pc[c] # "idle"
    <3>1. pending[p.id] = req[c]
      BY <2>1 DEF r
    <3> QED
      BY <1>4, <2>1, <3>1 DEF RegInv
  <2>4. \A d \in Callers : chan'[d] = IF d = c THEN m ELSE chan[d]
    <3>1. \A d \in Callers : d # c => req[d] # r
      BY <2>1 DEF RegInv
    <3> QED
      BY <1>1, <2>1, <3>1 DEF Settle
  <2>5. rstate' = rstate
    BY <1>2, <1>9
  <2>6. CASE pc[c] = "discard"
    <3>1. \A d \in Callers : StateOf(pc'[d], chan'[d].tag) = StateOf(pc[d], chan[d].tag)
      BY <1>1, <2>4, <2>6, CallStates
    <3> QED
      BY <1>1, <2>5, <3>1, SimTake
  <2>7. CASE pc[c] # "discard"
    <3>1. pc[c] \in {"insert", "write", "wait"}
      BY <2>3, <2>7 DEF Typed, TypeOK
    <3>2. callState[c] = "open" /\ StateOf(pc[c], m.tag) = "answered"
      BY <1>5, <2>3, <3>1, CallStates
    <3>3. callState' = [callState EXCEPT ![c] = "answered"]
      <4>1. \A d \in Callers : callState'[d] = IF d = c THEN "answered" ELSE callState[d]
        BY <1>1, <2>4, <3>2, CallStates
      <4>2. callState' = [d \in Callers |-> callState'[d]] /\ callState = [d \in Callers |-> callState[d]]
        BY CallStates
      <4> QED
        BY <4>1, <4>2
    <3>4. req[c] \in answersUnderWay /\ answersUnderWay' \in {answersUnderWay, answersUnderWay \ {req[c]}}
      <4>1. /\ AnswersOf(Tail(inbound)) \subseteq AnswersOf(inbound)
            /\ AnswersOf(inbound) \subseteq AnswersOf(Tail(inbound)) \cup {Number(Head(inbound))}
            /\ Head(inbound).kind = "reply" /\ Number(Head(inbound)) \in MaybeReq
                 => Number(Head(inbound)) \in AnswersOf(inbound)
        BY <1>3, AnswersTail
      <4>2. Number(Head(inbound)) = req[c]
        BY <1>7, <2>1, <2>2 DEF p
      <4>3. Head(inbound).kind = "reply" /\ req[c] \in MaybeReq
        BY <1>1, <1>6, <2>1 DEF p
      <4> QED
        BY <1>3, <4>1, <4>2, <4>3, AnswersUnderWay
    <3>5. Calls!Deliver(c)
      BY <1>1, <2>5, <3>2, <3>3, <3>4 DEF Calls!Deliver
    <3> QED
      BY <3>5 DEF Calls!Next
  <2> QED
    BY <2>6, <2>7
<1> QED
  BY <1>8, <1>9

(* The drain gives up every call still registered.                         *)
LEMMA SimDrain ==
  ASSUME Typed, RegInv, Drain
  PROVE  Calls!Next
<1>1. /\ UNCHANGED <<issued, req, last, pc, inbound>> /\ rstate = "draining" /\ rstate' = "done"
      /\ \A c \in Callers : chan'[c] = IF req[c] # 0 /\ \E n \in Ids : pending[n] = req[c]
                                      THEN Failed ELSE chan[c]
  BY DEF Drain, EndReader, callerVars
<1> DEFINE F == {c \in Callers : /\ callState[c] = "open"
                                 /\ req[c] # 0 /\ \E n \in Ids : pending[n] = req[c]}
<1>2. ASSUME NEW c \in Callers
      PROVE  callState'[c] = IF c \in F THEN "failed" ELSE callState[c]
  <2>1. pc[c] \in {"idle", "insert", "write", "wait", "discard"} /\ (pc[c] = "idle" => req[c] = 0)
    BY DEF Typed, TypeOK, RegInv
  <2>2. CASE req[c] # 0 /\ \E n \in Ids : pending[n] = req[c]
    <3>1. chan[c].tag = "empty" /\ chan'[c].tag = "err"
      BY <1>1, <2>2 DEF RegInv, Failed, Signal
    <3>2. CASE pc[c] = "discard"
      BY <1>1, <3>1, <3>2, CallStates
    <3>3. CASE pc[c] # "discard"
      <4>1. pc[c] \in {"insert", "write", "wait"}
        BY <2>1, <2>2, <3>3
      <4>2. callState[c] = "open" /\ callState'[c] = "failed"
        BY <1>1, <3>1, <4>1, CallStates
      <4> QED
        BY <2>2, <4>2
    <3> QED
      BY <3>2, <3>3
  <2>3. CASE ~(req[c] # 0 /\ \E n \in Ids : pending[n] = req[c])
    BY <1>1, <2>3, CallStates
  <2> QED
    BY <2>2, <2>3
<1>3. callState' = [c \in Callers |-> IF c \in F THEN "failed" ELSE callState[c]]
  <2>1. callState' = [c \in Callers |-> callState'[c]]
    BY CallStates
  <2> QED
    BY <1>2, <2>1
<1>4. F \in SUBSET {c \in Callers : callState[c] = "open"}
  OBVIOUS
<1> HIDE DEF F
<1>5. answersUnderWay' = answersUnderWay
  BY <1>1, AnswersUnderWay
<1>6. (rstate = "reading")' = (rstate = "reading")
  BY <1>1
<1>7. Calls!Fail
  BY <1>1, <1>3, <1>4, <1>5, <1>6 DEF Calls!Fail
<1> QED
  BY <1>7 DEF Calls!Next

(* A fresh Client maps to an AdsCalls object without calls.                *)
LEMMA SimInit == Init => Calls!Init
<1> SUFFICES ASSUME Init PROVE Calls!Init
  OBVIOUS
<1>1. callState = [c \in Callers |-> "idle"]
  BY CallStates DEF Init
<1>2. answersUnderWay = {}
  BY DEF Init, answersUnderWay
<1>3. rstate = "reading"
  BY DEF Init
<1> QED
  BY <1>1, <1>2, <1>3 DEF Init, Calls!Init

(* Every step of the client is a step of AdsCalls, or one that its callers *)
(* do not see.                                                             *)
LEMMA SimStep ==
  ASSUME Typed, PairingInv, RegInv, [Next]_vars
  PROVE  [Calls!Next]_(Calls!vars)
<1>0. /\ pc \in [Callers -> {"idle", "insert", "write", "wait", "discard"}]
      /\ req \in [Callers -> MaybeReq]
      /\ rid \in [Callers -> Ids]
      /\ chan \in [Callers -> Chan]
      /\ pending \in [Ids -> MaybeReq]
  BY DEF Typed, TypeOK
<1>1. ASSUME NEW c \in Callers, FetchId(c) PROVE Calls!Next
  <2>1. /\ pc[c] = "idle" /\ issued < MaxRequests /\ issued' = issued + 1
        /\ req' = [req EXCEPT ![c] = issued + 1]
        /\ pc' = [pc EXCEPT ![c] = "insert"] /\ chan' = [chan EXCEPT ![c] = Empty]
        /\ UNCHANGED <<last, rstate, inbound>>
    BY <1>1 DEF FetchId, BeginCall, readerVars
  <2>2. Empty.tag = "empty"
    BY DEF Empty, Signal
  <2>3. ASSUME NEW d \in Callers
        PROVE  /\ pc'[d] = IF d = c THEN "insert" ELSE pc[d]
               /\ chan'[d] = IF d = c THEN Empty ELSE chan[d]
    BY <1>0, <2>1
  <2>4. callState[c] = "idle" /\ callState' = [callState EXCEPT ![c] = "open"]
    <3>1. \A d \in Callers : callState'[d] = IF d = c THEN "open" ELSE callState[d]
      BY <2>2, <2>3, CallStates
    <3>2. callState' = [d \in Callers |-> callState'[d]] /\ callState = [d \in Callers |-> callState[d]]
      BY CallStates
    <3>3. callState[c] = "idle"
      BY <2>1, CallStates
    <3> QED
      BY <3>1, <3>2, <3>3
  <2>5. answersUnderWay' = answersUnderWay
    BY <2>1, AnswersUnderWay
  <2>6. Calls!Begin(c)
    BY <2>1, <2>4, <2>5 DEF Calls!Begin
  <2> QED
    BY <2>6 DEF Calls!Next
<1>2. ASSUME NEW c \in Callers, TooLong(c) \/ WriteFails(c) PROVE Calls!Next
  <2>1. /\ pc[c] # "idle" /\ Return(c, "err") /\ chan' = [chan EXCEPT ![c] = Empty]
        /\ UNCHANGED <<rstate, inbound>>
    BY <1>2 DEF TooLong, WriteFails, readerVars
  <2>2. \A d \in Callers : d # c => chan'[d] = chan[d]
    BY <1>0, <2>1
  <2>3. Calls!Finish(c)
    BY <2>1, <2>2, SimFinish
  <2> QED
    BY <2>3 DEF Calls!Next
<1>3. ASSUME NEW c \in Callers, InsertPending(c) PROVE UNCHANGED Calls!vars
  <2>1. /\ UNCHANGED <<issued, req, last, inbound, rstate>>
        /\ pc[c] = "insert" /\ pc' = [pc EXCEPT ![c] = "write"]
        /\ chan' = Settle(pending[rid[c]], Closed)
    BY <1>3 DEF InsertPending, Step, Register, readerVars
  <2>2. chan[c].tag = "empty" /\ pending[rid[c]] = 0
    BY <1>0, <2>1 DEF PairingInv, RegInv
  <2>3. ASSUME NEW d \in Callers
        PROVE  chan'[d] = chan[d] /\ pc'[d] = IF d = c THEN "write" ELSE pc[d]
    BY <1>0, <2>1, <2>2 DEF Settle
  <2>4. \A d \in Callers : StateOf(pc'[d], chan'[d].tag) = StateOf(pc[d], chan[d].tag)
    BY <2>1, <2>2, <2>3, CallStates
  <2> QED
    BY <2>1, <2>4, SimStutter
<1>4. ASSUME NEW c \in Callers, WriteOk(c) \/ RecvFailed(c) PROVE UNCHANGED Calls!vars
  <2>1. /\ UNCHANGED <<issued, req, last, inbound, rstate, chan>>
        /\ \/ pc[c] = "write" /\ pc' = [pc EXCEPT ![c] = "wait"]
           \/ /\ pc[c] = "wait" /\ pc' = [pc EXCEPT ![c] = "discard"]
              /\ chan[c].tag \in {"err", "closed"}
    BY <1>4 DEF WriteOk, RecvFailed, Step, SendFrame, readerVars
  <2>2. \A d \in Callers : StateOf(pc'[d], chan'[d].tag) = StateOf(pc[d], chan[d].tag)
    BY <1>0, <2>1 DEF StateOf
  <2> QED
    BY <2>1, <2>2, SimStutter
<1>5. ASSUME NEW c \in Callers, RecvReply(c) PROVE Calls!Next
  <2>1. /\ pc[c] = "wait" /\ chan[c].tag = "reply" /\ Return(c, Validate(chan[c].body))
        /\ chan' = [chan EXCEPT ![c] = Empty] /\ UNCHANGED <<rstate, inbound>>
    BY <1>5 DEF RecvReply, readerVars
  <2>2. \A d \in Callers : d # c => chan'[d] = chan[d]
    BY <1>0, <2>1
  <2>3. callState[c] = "answered"
    BY <2>1, CallStates
  <2>4. Validate(chan[c].body) \in {"ok", "err", "panic"}
    BY DEF Validate
  <2>5. Calls!Finish(c)
    BY <2>1, <2>2, <2>3, <2>4, SimFinish
  <2> QED
    BY <2>5 DEF Calls!Next
<1>6. ASSUME NEW c \in Callers, RecvTimeout(c) PROVE Calls!Next
  <2>1. /\ UNCHANGED <<issued, req, last, inbound, rstate, chan>> /\ chan[c].tag = "empty"
        /\ pc[c] = "wait" /\ pc' = [pc EXCEPT ![c] = "discard"]
    BY <1>6 DEF RecvTimeout, Step, readerVars
  <2>2. callState[c] = "open"
    BY <2>1, CallStates
  <2>3. \A d \in Callers : callState'[d] = IF d \in {c} THEN "failed" ELSE callState[d]
    BY <1>0, <2>1, CallStates
  <2>4. callState' = [d \in Callers |-> IF d \in {c} THEN "failed" ELSE callState[d]]
    <3>1. callState' = [d \in Callers |-> callState'[d]]
      BY CallStates
    <3> QED
      BY <2>3, <3>1
  <2>5. {c} \in SUBSET {d \in Callers : callState[d] = "open"}
    BY <2>2
  <2>6. answersUnderWay' = answersUnderWay
    BY <2>1, AnswersUnderWay
  <2>7. Calls!Fail
    BY <2>1, <2>4, <2>5, <2>6 DEF Calls!Fail
  <2> QED
    BY <2>7 DEF Calls!Next
<1>7. ASSUME NEW c \in Callers, Discard(c) PROVE Calls!Next
  <2>1. /\ pc[c] = "discard" /\ Return(c, "err") /\ UNCHANGED <<rstate, inbound>>
        /\ chan' = [Settle(pending[rid[c]], Closed) EXCEPT ![c] = Empty]
    BY <1>7 DEF Discard, DiscardAs, readerVars
  <2>2. pending[rid[c]] \in {0, req[c]} /\ req[c] # 0
    BY <1>0, <2>1 DEF PairingInv, RegInv
  <2>3. \A d \in Callers : d # c => req[d] # req[c]
    BY <2>2 DEF RegInv
  <2>4. \A d \in Callers : d # c => chan'[d] = chan[d]
    BY <2>1, <2>2, <2>3 DEF Settle
  <2>5. Calls!Finish(c)
    BY <2>1, <2>4, SimFinish
  <2> QED
    BY <2>5 DEF Calls!Next
<1>8. CASE ReadIgnored \/ ReadNotification \/ ReadTinyNotification \/ ReadInvalid
  <2>1. PICK kinds : Take(kinds)
    BY <1>8 DEF ReadIgnored, ReadNotification, ReadTinyNotification, ReadInvalid
  <2>2. UNCHANGED <<issued, req, last, pc, chan>> /\ (rstate' = rstate \/ rstate' # "reading")
    BY <1>8 DEF ReadIgnored, ReadNotification, ReadTinyNotification, ReadInvalid, Stop,
                callerVars, readerVars
  <2> QED
    BY <2>1, <2>2, SimTake
<1>9. CASE ReadError
  <2>1. UNCHANGED <<issued, req, last, pc, chan, inbound>> /\ rstate' # "reading"
    BY <1>9 DEF ReadError, Stop, callerVars
  <2>2. answersUnderWay' \subseteq answersUnderWay
    BY <2>1, AnswersUnderWay
  <2> QED
    BY <2>1, <2>2, SimLose DEF Calls!Next
<1>10. CASE ReaderShutdown \/ DropBegin \/ DropShutdown \/ DropJoin \/ UNCHANGED vars
  <2>1. /\ UNCHANGED <<issued, req, last, pc, chan, inbound>>
        /\ rstate' = rstate \/ (rstate # "reading" /\ rstate' # "reading")
    BY <1>10 DEF ReaderShutdown, EndReading, DropBegin, DropShutdown, DropSocket, DropJoin,
                 vars, callerVars, readerVars
  <2> QED
    BY <2>1, SimStutter
<1>11. ASSUME NEW q \in todo, PeerAnswers(q) PROVE [Calls!Next]_(Calls!vars)
  <2>1. PICK body \in Bodies : PeerSends(Reply(q.id, q.ans, body))
    BY <1>11 DEF PeerAnswers
  <2>2. Reply(q.id, q.ans, body) \in Packet
    BY ReplyType DEF Typed, TypeOK
  <2> QED
    BY <2>1, <2>2, SimSend
<1>12. CASE PeerUnsolicited
  <2>1. PICK p \in Packet : PeerSends(p)
    <3>1. sent \in Nat /\ todo \in SUBSET Request
      BY DEF Typed, TypeOK
    <3>2. ASSUME NEW q \in todo, NEW body \in Bodies
          PROVE  Reply(q.id, q.ans, body) \in Packet
      BY <3>1, ReplyType
    <3>3. /\ \A n \in Ids, body \in Bodies : Reply(n, 0, body) \in Packet
          /\ \A k \in PeerKinds \ {"dup", "bogus"} : Other(k) \in Packet
      BY <3>1, SpuriousType
    <3> QED
      BY <1>12, <3>2, <3>3 DEF PeerUnsolicited
  <2> QED
    BY <2>1, SimSend
<1>13. CASE PeerCloses
  <2>1. UNCHANGED <<issued, req, last, pc, chan, rstate>> /\ inbound' \in {inbound, <<>>}
    BY <1>13 DEF PeerCloses, callerVars, readerVars
  <2>2. answersUnderWay' \subseteq answersUnderWay
    <3>1. AnswersOf(<<>>) = {}
      BY DEF AnswersOf
    <3> QED
      BY <2>1, <3>1, AnswersUnderWay
  <2> QED
    BY <2>1, <2>2, SimLose DEF Calls!Next
<1> QED
  BY <1>1, <1>2, <1>3, <1>4, <1>5, <1>6, <1>7, <1>8, <1>9, <1>10, <1>11, <1>12, <1>13,
     SimReply, SimDrain
     DEF Next, CallerStep, ReaderStep, Terminated

(* As long as fewer requests are made than there are invoke IDs, what the  *)
(* threads see of IDs, `pending`, channels, reader and peer is AdsCalls: a *)
(* call is settled at most once, by an answer to that call and while the   *)
(* connection is up, and returns Ok only if it was.                        *)
THEOREM Implementation ==
  ASSUME MaxRequests < IdMod
  PROVE  Spec => ImplementsAdsCalls
<1>1. /\ Typed /\ PairingInv /\ RegInv
      /\ [Next]_vars
      => (Typed /\ PairingInv /\ RegInv)'
  BY TypedStep, PairingStep, RegStep
<1>2. Typed /\ PairingInv /\ RegInv /\ [Next]_vars => [Calls!Next]_(Calls!vars)
  BY SimStep
<1> QED
  BY TypedInit, PairingInit, RegInit, SimInit, <1>1, <1>2, PTL
     DEF Spec, ImplementsAdsCalls, Calls!Spec

-----------------------------------------------------------------------------
(* The reader knows every ID that an honest peer uses.                     *)

ReplyIds(s) == {s[k].id : k \in {m \in DOMAIN s : s[m].kind = "reply"}}
Once(s) == \A k, l \in DOMAIN s :
  s[k].kind = "reply" /\ s[l].kind = "reply" /\ s[k].id = s[l].id => k = l

(* A request that was received and not answered, or answered and the reply *)
(* not read, is one or the other, once, and not a request still to be      *)
(* written.                                                                *)
TrafficInv ==
  /\ torn = {}
  /\ Once(inbound)
  /\ \A n \in ReplyIds(inbound) : n <= issued
  /\ \A q \in todo : q.id <= issued /\ q.id \notin ReplyIds(inbound)
  /\ \A c \in Callers : pc[c] \in {"insert", "write"} =>
       rid[c] \notin ReplyIds(inbound) /\ \A q \in todo : q.id # rid[c]

(* As long as the reader reads, it is registered.                          *)
KnownInv ==
  /\ rstate = "reading" =>
       /\ \A c \in Callers :
            /\ pc[c] # "discard" /\ chan[c].tag \in {"empty", "reply"}
            /\ pc[c] \in {"insert", "write"} => chan[c].tag = "empty"
       /\ \A q \in todo : pending[q.id] # 0
       /\ \A n \in ReplyIds(inbound) : pending[n] # 0
  /\ OwnIdsAccepted

(* Reading a reply takes the only reply with its ID out of the stream.     *)
LEMMA RepliesTail ==
  ASSUME NEW s \in Seq(Packet), s # <<>>, Once(s)
  PROVE  /\ Once(Tail(s)) /\ ReplyIds(Tail(s)) \subseteq ReplyIds(s)
         /\ Head(s).kind = "reply" =>
              Head(s).id \in ReplyIds(s) /\ Head(s).id \notin ReplyIds(Tail(s))
<1>1. \A k \in DOMAIN Tail(s) : k + 1 \in DOMAIN s /\ Tail(s)[k] = s[k + 1] /\ k + 1 # 1 /\ k \in Nat
  OBVIOUS
<1>2. 1 \in DOMAIN s /\ Head(s) = s[1]
  OBVIOUS
<1>3. Once(Tail(s))
  <2> SUFFICES ASSUME NEW k \in DOMAIN Tail(s), NEW l \in DOMAIN Tail(s),
                      Tail(s)[k].kind = "reply", Tail(s)[l].kind = "reply", Tail(s)[k].id = Tail(s)[l].id
               PROVE  k = l
    BY DEF Once
  <2>1. k + 1 = l + 1
    BY <1>1 DEF Once
  <2>2. k \in Nat /\ l \in Nat
    BY <1>1
  <2> QED
    BY <2>1, <2>2
<1>4. ASSUME NEW n \in ReplyIds(Tail(s)) PROVE n \in ReplyIds(s)
  <2>1. PICK k \in DOMAIN Tail(s) : Tail(s)[k].kind = "reply" /\ n = Tail(s)[k].id
    BY DEF ReplyIds
  <2> QED
    BY <1>1, <2>1 DEF ReplyIds
<1>5. ASSUME Head(s).kind = "reply" PROVE Head(s).id \in ReplyIds(s)
  BY <1>2, <1>5 DEF ReplyIds
<1>6. ASSUME Head(s).kind = "reply", Head(s).id \in ReplyIds(Tail(s)) PROVE FALSE
  <2>1. PICK k \in DOMAIN Tail(s) : Tail(s)[k].kind = "reply" /\ Head(s).id = Tail(s)[k].id
    BY <1>6 DEF ReplyIds
  <2>2. k + 1 \in DOMAIN s /\ s[k + 1].kind = "reply" /\ s[1].id = s[k + 1].id /\ s[1].kind = "reply"
    BY <1>1, <1>2, <1>6, <2>1
  <2>3. k + 1 = 1
    BY <1>2, <2>2 DEF Once
  <2> QED
    BY <1>1, <2>3
<1> QED
  BY <1>3, <1>4, <1>5, <1>6

(* Sending a reply with a new ID keeps the IDs in the stream distinct.     *)
LEMMA RepliesAppend ==
  ASSUME NEW s \in Seq(Packet), NEW p \in Packet, Once(s)
  PROVE  /\ p.kind # "reply" => Once(Append(s, p)) /\ ReplyIds(Append(s, p)) = ReplyIds(s)
         /\ p.kind = "reply" => ReplyIds(Append(s, p)) = ReplyIds(s) \cup {p.id}
         /\ p.kind = "reply" /\ p.id \notin ReplyIds(s) => Once(Append(s, p))
<1> DEFINE t == Append(s, p)
<1> DEFINE l == Len(s) + 1
<1>1. /\ l \in DOMAIN t /\ t[l] = p
      /\ \A k \in DOMAIN s : k \in DOMAIN t /\ t[k] = s[k]
      /\ \A k \in DOMAIN t : k = l \/ k \in DOMAIN s
  OBVIOUS
<1> HIDE DEF t, l
<1>2. ASSUME NEW n \in ReplyIds(t)
      PROVE  n \in ReplyIds(s) \/ (p.kind = "reply" /\ n = p.id)
  <2>1. PICK k \in DOMAIN t : t[k].kind = "reply" /\ n = t[k].id
    BY DEF ReplyIds
  <2> QED
    BY <1>1, <2>1 DEF ReplyIds
<1>3. ASSUME NEW n \in ReplyIds(s) PROVE n \in ReplyIds(t)
  <2>1. PICK k \in DOMAIN s : s[k].kind = "reply" /\ n = s[k].id
    BY DEF ReplyIds
  <2> QED
    BY <1>1, <2>1 DEF ReplyIds
<1>4. p.kind = "reply" => p.id \in ReplyIds(t)
  BY <1>1 DEF ReplyIds
<1>5. ASSUME p.kind # "reply" \/ p.id \notin ReplyIds(s) PROVE Once(t)
  <2> SUFFICES ASSUME NEW k \in DOMAIN t, NEW m \in DOMAIN t,
                      t[k].kind = "reply", t[m].kind = "reply", t[k].id = t[m].id
               PROVE  k = m
    BY DEF Once
  <2>1. CASE k \in DOMAIN s /\ m \in DOMAIN s
    BY <1>1, <2>1 DEF Once
  <2>2. CASE k = l /\ m \in DOMAIN s
    BY <1>1, <1>5, <2>2 DEF ReplyIds
  <2>3. CASE m = l /\ k \in DOMAIN s
    BY <1>1, <1>5, <2>3 DEF ReplyIds
  <2> QED
    BY <1>1, <2>1, <2>2, <2>3
<1> QED
  BY <1>2, <1>3, <1>4, <1>5 DEF t

(* No timeout is configured, and the peer sends every reply once, under    *)
(* the ID of a request it received.                                        *)
Honest == ~WriteTimeout /\ ~ReadTimeout /\ "dup" \notin PeerKinds /\ "bogus" \notin PeerKinds

(* What the peer sends unasked is not a reply.                             *)
LEMMA HonestPeer ==
  ASSUME Typed, Honest, PeerUnsolicited
  PROVE  todo' = todo /\ \E p \in Packet : p.kind # "reply" /\ PeerSends(p)
<1>1. PICK k \in PeerKinds \ {"dup", "bogus"} : PeerSends(Other(k))
  BY DEF Honest, PeerUnsolicited
<1>2. Other(k) \in Packet
  BY SpuriousType DEF Typed, TypeOK
<1>3. Other(k).kind # "reply"
  BY ConstantsAssumption DEF Other, Kinds
<1> QED
  BY <1>1, <1>2, <1>3 DEF PeerUnsolicited

(* An honest peer that is sent every ID once answers every ID once.        *)
LEMMA TrafficStep ==
  ASSUME MaxRequests < IdMod, Honest, Typed, PairingInv, RegInv, TrafficInv, [Next]_vars
  PROVE  TrafficInv'
<1>0. /\ pc \in [Callers -> {"idle", "insert", "write", "wait", "discard"}]
      /\ rid \in [Callers -> Ids] /\ todo \in SUBSET Request
      /\ inbound \in Seq(Packet)
  BY DEF Typed, TypeOK
<1>a. issued \in Nat /\ (\A n \in Ids : n \in Nat) /\ (\A q \in Request : q.id \in Ids)
  <2>1. \A n \in MaybeReq : n \in Nat
    BY DEF MaybeReq
  <2>2. \A n \in Ids : n \in Nat
    BY ConstantsAssumption DEF Ids
  <2>3. \A q \in Request : q.id \in Ids
    BY DEF Request
  <2> QED
    BY <2>1, <2>2, <2>3 DEF Typed, TypeOK
<1>b. /\ torn = {} /\ Once(inbound)
      /\ \A n \in ReplyIds(inbound) : n <= issued /\ n \in Nat
      /\ \A q \in todo : q.id <= issued /\ q.id \notin ReplyIds(inbound) /\ q.id \in Nat
      /\ \A c \in Callers : pc[c] \in {"insert", "write"} =>
           rid[c] \notin ReplyIds(inbound) /\ \A q \in todo : q.id # rid[c]
  <2>1. ASSUME NEW n \in ReplyIds(inbound) PROVE n \in Nat
    <3>1. PICK k \in DOMAIN inbound : n = inbound[k].id
      BY DEF ReplyIds
    <3>2. inbound[k] \in Packet
      BY <1>0, <3>1
    <3> QED
      BY <1>a, <3>1, <3>2 DEF Packet
  <2> QED
    BY <1>0, <1>a, <2>1 DEF TrafficInv
<1>1. ASSUME NEW c \in Callers, FetchId(c) PROVE TrafficInv'
  <2>1. /\ issued < MaxRequests /\ issued' = issued + 1
        /\ pc' = [pc EXCEPT ![c] = "insert"] /\ rid' = [rid EXCEPT ![c] = invoke_id]
        /\ UNCHANGED <<torn, inbound, todo>>
    BY <1>1 DEF FetchId, BeginCall, peerVars
  <2>2. invoke_id = issued + 1
    BY <2>1 DEF PairingInv
  <2>3. \A n \in Nat : n <= issued => n <= issued + 1 /\ n # issued + 1
    BY <1>a
  <2>4. \A d \in Callers : /\ pc'[d] = IF d = c THEN "insert" ELSE pc[d]
                           /\ rid'[d] = IF d = c THEN issued + 1 ELSE rid[d]
    BY <1>0, <2>1, <2>2
  <2> QED
    BY <1>b, <2>1, <2>3, <2>4 DEF TrafficInv
<1>2. ASSUME NEW c \in Callers, TooLong(c) \/ WriteFails(c) \/ RecvReply(c) \/ Discard(c) \/ RecvFailed(c)
      PROVE  TrafficInv'
  <2>1. /\ UNCHANGED <<issued, rid, torn, inbound, todo>>
        /\ pc' \in {[pc EXCEPT ![c] = "idle"], [pc EXCEPT ![c] = "discard"]}
    BY <1>2 DEF TooLong, WriteFails, RecvReply, RecvFailed, Discard, DiscardAs, Return, Step, peerVars, Honest
  <2>2. \A d \in Callers : pc'[d] \in {"insert", "write"} => pc[d] \in {"insert", "write"}
    BY <1>0, <2>1
  <2> QED
    BY <1>b, <2>1, <2>2 DEF TrafficInv
<1>3. ASSUME NEW c \in Callers, InsertPending(c) PROVE TrafficInv'
  <2>1. /\ UNCHANGED <<issued, rid, torn, inbound, todo>>
        /\ pc[c] = "insert" /\ pc' = [pc EXCEPT ![c] = "write"]
    BY <1>3 DEF InsertPending, Step, Register, peerVars
  <2>2. \A d \in Callers : pc'[d] \in {"insert", "write"} => pc[d] \in {"insert", "write"}
    BY <1>0, <2>1
  <2> QED
    BY <1>b, <2>1, <2>2 DEF TrafficInv
<1>4. ASSUME NEW c \in Callers, WriteOk(c) PROVE TrafficInv'
  <2> DEFINE f == [id |-> rid[c], ans |-> req[c]]
  <2>1. /\ UNCHANGED <<issued, rid, torn, inbound>>
        /\ pc[c] = "write" /\ pc' = [pc EXCEPT ![c] = "wait"]
        /\ todo' = todo \/ todo' = todo \cup {f}
    BY <1>4, <1>b DEF WriteOk, Step, SendFrame
  <2>2. f.id = rid[c]
    OBVIOUS
  <2> HIDE DEF f
  <2>3. rid[c] <= issued
    BY <2>1 DEF PairingInv, RegInv
  <2>4. \A d \in Callers : pc'[d] \in {"insert", "write"} => d # c /\ pc[d] \in {"insert", "write"}
    BY <1>0, <2>1
  <2>5. \A d \in Callers : d # c /\ pc[d] \in {"insert", "write"} => rid[d] # rid[c]
    <3>1. rid[c] = req[c] /\ req[c] # 0
      BY <2>1 DEF PairingInv, RegInv
    <3>2. \A d \in Callers : pc[d] \in {"insert", "write"} => rid[d] = req[d]
      BY DEF PairingInv
    <3> QED
      BY <3>1, <3>2 DEF RegInv
  <2> QED
    BY <1>b, <2>1, <2>2, <2>3, <2>4, <2>5 DEF TrafficInv
<1>5. CASE ReadIgnored \/ ReadNotification \/ ReadTinyNotification \/ ReadInvalid \/ ReadReply
  <2>1. UNCHANGED <<issued, pc, rid, torn, todo>> /\ \E kinds : Take(kinds)
    BY <1>5 DEF ReadIgnored, ReadNotification, ReadTinyNotification, ReadInvalid, ReadReply,
                callerVars, peerVars
  <2>2. inbound # <<>> /\ inbound' = Tail(inbound)
    BY <2>1 DEF Take
  <2>3. Once(Tail(inbound)) /\ ReplyIds(Tail(inbound)) \subseteq ReplyIds(inbound)
    BY <1>0, <1>b, <2>2, RepliesTail
  <2>4. PICK s : s = Tail(inbound)
    OBVIOUS
  <2>5. inbound' = s /\ Once(s) /\ ReplyIds(s) \subseteq ReplyIds(inbound)
    BY <2>2, <2>3, <2>4
  <2>6. Once(inbound)' /\ ReplyIds(inbound)' \subseteq ReplyIds(inbound)
    BY <2>5 DEF Once, ReplyIds
  <2> QED
    BY <1>b, <2>1, <2>6 DEF TrafficInv
<1>6. CASE \/ ReadError \/ ReaderShutdown \/ Drain \/ DropBegin \/ DropShutdown \/ DropJoin
           \/ UNCHANGED vars
  <2>1. UNCHANGED <<issued, pc, rid, torn, todo, inbound>>
    BY <1>6 DEF ReadError, ReaderShutdown, EndReading, Drain, EndReader, DropBegin, DropShutdown,
                DropSocket, DropJoin, vars, callerVars, peerVars
  <2>2. Once(inbound)' = Once(inbound) /\ ReplyIds(inbound)' = ReplyIds(inbound)
    BY <2>1 DEF Once, ReplyIds
  <2> QED
    BY <1>b, <2>1, <2>2 DEF TrafficInv
<1>7. CASE PeerCloses
  <2>1. UNCHANGED <<issued, pc, rid, torn, todo>> /\ inbound' \in {inbound, <<>>}
    BY <1>7 DEF PeerCloses, callerVars, peerVars
  <2>2. Once(inbound)' /\ ReplyIds(inbound)' \subseteq ReplyIds(inbound)
    BY <1>b, <2>1 DEF Once, ReplyIds
  <2> QED
    BY <1>b, <2>1, <2>2 DEF TrafficInv
<1>8. ASSUME NEW q \in todo, PeerAnswers(q) PROVE TrafficInv'
  <2>1. PICK body \in Bodies : PeerSends(Reply(q.id, q.ans, body))
    BY <1>8 DEF PeerAnswers
  <2>2. PICK p \in Packet : p = Reply(q.id, q.ans, body)
    BY ReplyType DEF Typed, TypeOK
  <2>3. p.kind = "reply" /\ p.id = q.id
    BY <2>2 DEF Reply
  <2>4. /\ UNCHANGED <<issued, pc, rid, torn>> /\ inbound' = Append(inbound, p) /\ todo' = todo \ {q}
    BY <1>8, <2>1, <2>2 DEF PeerAnswers, PeerSends, callerVars
  <2>5. PICK s : s = Append(inbound, p)
    OBVIOUS
  <2>6. inbound' = s /\ Once(s) /\ ReplyIds(s) = ReplyIds(inbound) \cup {q.id}
    BY <1>0, <1>b, <2>3, <2>4, <2>5, RepliesAppend
  <2>7. Once(inbound)' /\ ReplyIds(inbound)' = ReplyIds(inbound) \cup {q.id}
    BY <2>6 DEF Once, ReplyIds
  <2>8. \A x \in todo' : x.id # q.id
    <3>1. \A x, y \in Request : x.id = y.id /\ x.ans = y.ans => x = y
      BY DEF Request
    <3>2. \A x \in todo : x.id = x.ans /\ x \in Request
      BY <1>0 DEF PairingInv
    <3> QED
      BY <2>4, <3>1, <3>2
  <2> QED
    BY <1>b, <2>4, <2>7, <2>8 DEF TrafficInv
<1>9. CASE PeerUnsolicited
  <2>1. PICK p \in Packet : p.kind # "reply" /\ PeerSends(p)
    BY <1>9, HonestPeer
  <2>2. UNCHANGED <<issued, pc, rid, torn, todo>> /\ inbound' = Append(inbound, p)
    BY <1>9, <2>1, HonestPeer DEF PeerSends, callerVars
  <2>3. PICK s : s = Append(inbound, p)
    OBVIOUS
  <2>4. inbound' = s /\ Once(s) /\ ReplyIds(s) = ReplyIds(inbound)
    BY <1>0, <1>b, <2>1, <2>2, <2>3, RepliesAppend
  <2>5. Once(inbound)' /\ ReplyIds(inbound)' = ReplyIds(inbound)
    BY <2>4 DEF Once, ReplyIds
  <2> QED
    BY <1>b, <2>2, <2>5 DEF TrafficInv
<1>10. \A c \in Callers : ~RecvTimeout(c)
  BY DEF RecvTimeout, Honest
<1> QED
  BY <1>1, <1>2, <1>3, <1>4, <1>5, <1>6, <1>7, <1>8, <1>9, <1>10
     DEF Next, CallerStep, ReaderStep, Terminated

LEMMA TrafficInit == Init => TrafficInv /\ KnownInv
<1> SUFFICES ASSUME Init PROVE TrafficInv /\ KnownInv
  OBVIOUS
<1>1. /\ inbound = <<>> /\ DOMAIN inbound = {} /\ torn = {} /\ todo = {} /\ result = "none"
      /\ \A c \in Callers : pc[c] = "idle" /\ chan[c].tag = "empty"
  BY DEF Init, Empty, Signal
<1>2. Once(inbound) /\ ReplyIds(inbound) = {}
  BY <1>1 DEF Once, ReplyIds
<1> QED
  BY <1>1, <1>2 DEF TrafficInv, KnownInv, OwnIdsAccepted

(* An ID on its way to the peer or back stays registered until the drain.  *)
LEMMA KnownStep ==
  ASSUME MaxRequests < IdMod, Honest, Typed, SettleInv, PairingInv, RegInv, TrafficInv,
         KnownInv, [Next]_vars
  PROVE  KnownInv'
<1>0. /\ pc \in [Callers -> {"idle", "insert", "write", "wait", "discard"}]
      /\ rid \in [Callers -> Ids] /\ todo \in SUBSET Request
      /\ chan \in [Callers -> Chan] /\ pending \in [Ids -> MaybeReq]
      /\ inbound \in Seq(Packet)
      /\ Empty.tag = "empty"
  BY DEF Typed, TypeOK, Empty, Signal
<1>a. \A q \in todo : q.id \in Ids
  BY <1>0 DEF Request
<1>b. \A n \in ReplyIds(inbound) : n \in Ids
  <2>1. \A k \in DOMAIN inbound : inbound[k] \in Packet
    BY <1>0
  <2>2. \A p \in Packet : p.id \in Ids
    BY DEF Packet
  <2> QED
    BY <2>1, <2>2 DEF ReplyIds
<1>1. ASSUME NEW c \in Callers, FetchId(c) PROVE KnownInv'
  <2>1. /\ pc' = [pc EXCEPT ![c] = "insert"] /\ chan' = [chan EXCEPT ![c] = Empty]
        /\ UNCHANGED <<pending, rstate, result, inbound, todo>>
    BY <1>1 DEF FetchId, BeginCall, readerVars, peerVars
  <2>2. \A d \in Callers : /\ pc'[d] = IF d = c THEN "insert" ELSE pc[d]
                           /\ chan'[d] = IF d = c THEN Empty ELSE chan[d]
    BY <1>0, <2>1
  <2>r. ReplyIds(inbound)' = ReplyIds(inbound)
    BY <2>1 DEF ReplyIds
  <2> QED
    BY <1>0, <2>1, <2>2, <2>r DEF KnownInv, OwnIdsAccepted
<1>2. ASSUME NEW c \in Callers, TooLong(c) \/ WriteFails(c) \/ RecvReply(c) PROVE KnownInv'
  <2>1. /\ pc' = [pc EXCEPT ![c] = "idle"] /\ chan' = [chan EXCEPT ![c] = Empty]
        /\ UNCHANGED <<pending, rstate, result, inbound, todo>>
    BY <1>2 DEF TooLong, WriteFails, RecvReply, Return, readerVars, peerVars
  <2>2. \A d \in Callers : /\ pc'[d] = IF d = c THEN "idle" ELSE pc[d]
                           /\ chan'[d] = IF d = c THEN Empty ELSE chan[d]
    BY <1>0, <2>1
  <2>r. ReplyIds(inbound)' = ReplyIds(inbound)
    BY <2>1 DEF ReplyIds
  <2> QED
    BY <1>0, <2>1, <2>2, <2>r DEF KnownInv, OwnIdsAccepted
<1>3. ASSUME NEW c \in Callers, InsertPending(c) PROVE KnownInv'
  <2>1. /\ pc[c] = "insert" /\ pc' = [pc EXCEPT ![c] = "write"]
        /\ pending' = [pending EXCEPT ![rid[c]] = req[c]]
        /\ chan' = Settle(pending[rid[c]], Closed)
        /\ UNCHANGED <<rstate, result, inbound, todo>>
    BY <1>3 DEF InsertPending, Step, Register, readerVars, peerVars
  <2>2. rid[c] = req[c] /\ req[c] # 0 /\ rid[c] \in Ids
    BY <1>0, <2>1 DEF PairingInv, Typed
  <2>3. pending[rid[c]] = 0
    BY <2>1, <2>2 DEF PairingInv, RegInv
  <2>4. \A d \in Callers : /\ pc'[d] = IF d = c THEN "write" ELSE pc[d]
                           /\ chan'[d] = chan[d]
    BY <1>0, <2>1, <2>3 DEF Settle
  <2>5. \A n \in Ids : pending[n] # 0 => pending'[n] # 0
    BY <1>0, <2>1, <2>2
  <2>r. ReplyIds(inbound)' = ReplyIds(inbound)
    BY <2>1 DEF ReplyIds
  <2> QED
    BY <1>0, <1>a, <1>b, <2>1, <2>4, <2>5, <2>r DEF KnownInv, OwnIdsAccepted
<1>4. ASSUME NEW c \in Callers, WriteOk(c) PROVE KnownInv'
  <2> DEFINE f == [id |-> rid[c], ans |-> req[c]]
  <2>1. /\ pc[c] = "write" /\ pc' = [pc EXCEPT ![c] = "wait"]
        /\ todo' = todo \/ todo' = todo \cup {f}
        /\ UNCHANGED <<chan, pending, rstate, result, inbound>>
    BY <1>4 DEF WriteOk, Step, SendFrame, readerVars, TrafficInv
  <2>2. f.id = rid[c]
    OBVIOUS
  <2> HIDE DEF f
  <2>3. ASSUME rstate = "reading" PROVE pending[rid[c]] # 0
    <3>1. chan[c].tag = "empty"
      BY <2>1, <2>3 DEF KnownInv
    <3> QED
      BY <2>1, <3>1 DEF SettleInv
  <2>4. \A d \in Callers : pc'[d] = IF d = c THEN "wait" ELSE pc[d]
    BY <1>0, <2>1
  <2>r. ReplyIds(inbound)' = ReplyIds(inbound)
    BY <2>1 DEF ReplyIds
  <2>5. ASSUME rstate = "reading" PROVE \A q \in todo' : pending[q.id] # 0
    BY <2>1, <2>2, <2>3, <2>5 DEF KnownInv
  <2>6. \A d \in Callers : pc'[d] \in {"insert", "write", "discard"} => pc'[d] = pc[d]
    BY <2>4
  <2> QED
    BY <2>1, <2>5, <2>6, <2>r DEF KnownInv, OwnIdsAccepted
<1>5. ASSUME NEW c \in Callers, RecvFailed(c) \/ Discard(c) PROVE KnownInv'
  <2>1. pc[c] = "discard" \/ chan[c].tag \in {"err", "closed"}
    BY <1>5 DEF RecvFailed, Discard, DiscardAs
  <2>2. rstate # "reading"
    BY <2>1 DEF KnownInv
  <2>3. UNCHANGED <<rstate, result>>
    BY <1>5 DEF RecvFailed, Discard, DiscardAs, readerVars
  <2> QED
    BY <2>2, <2>3 DEF KnownInv, OwnIdsAccepted
<1>6. CASE ReadIgnored \/ ReadNotification
  <2>1. /\ UNCHANGED <<pc, chan, pending, rstate, result, todo>>
        /\ inbound # <<>> /\ inbound' = Tail(inbound)
    BY <1>6 DEF ReadIgnored, ReadNotification, Take, callerVars, readerVars, peerVars
  <2>2. PICK s : s = Tail(inbound)
    OBVIOUS
  <2>3. inbound' = s /\ ReplyIds(s) \subseteq ReplyIds(inbound)
    BY <1>0, <2>1, <2>2, RepliesTail DEF TrafficInv
  <2>4. ReplyIds(inbound)' \subseteq ReplyIds(inbound)
    BY <2>3 DEF ReplyIds
  <2> QED
    BY <2>1, <2>4 DEF KnownInv, OwnIdsAccepted
<1>7. CASE ReadTinyNotification \/ ReadInvalid \/ ReadError \/ ReaderShutdown \/ Drain
  <2>1. rstate' # "reading" /\ result' \in {result, "invalid", "eof", "timed out"}
    BY <1>7 DEF ReadTinyNotification, ReadInvalid, ReadError, Stop, ReaderShutdown, EndReading,
                Drain, EndReader
  <2> QED
    BY <2>1 DEF KnownInv, OwnIdsAccepted
<1>8. CASE ReadReply
  <2>1. PICK p, r : p \in Packet /\ p = Head(inbound) /\ r = pending[p.id]
    BY <1>0, <1>8, TakenPacket DEF ReadReply, Take
  <2> DEFINE m == [tag |-> "reply", ans |-> p.ans, body |-> p.body, seen |-> p.seen]
  <2>2. /\ UNCHANGED <<pc, todo>> /\ inbound # <<>> /\ inbound' = Tail(inbound)
        /\ rstate = "reading" /\ p.kind = "reply"
        /\ pending' = [pending EXCEPT ![p.id] = 0] /\ chan' = Settle(r, m)
        /\ \/ UNCHANGED <<rstate, result>>
           \/ rstate' = "stopping" /\ result' = "closed channel"
           \/ r = 0
    BY <1>8, <2>1 DEF ReadReply, Take, Stop, callerVars, peerVars
  <2>3. m.tag = "reply"
    OBVIOUS
  <2> HIDE DEF m
  <2>4. PICK s : s = Tail(inbound)
    OBVIOUS
  <2>5. /\ inbound' = s /\ ReplyIds(s) \subseteq ReplyIds(inbound)
        /\ p.id \in ReplyIds(inbound) /\ p.id \notin ReplyIds(s)
    BY <1>0, <2>1, <2>2, <2>4, RepliesTail DEF TrafficInv
  <2>6. /\ ReplyIds(inbound)' \subseteq ReplyIds(inbound)
        /\ p.id \notin ReplyIds(inbound)'
    BY <2>5 DEF ReplyIds
  <2>7. r # 0 /\ r = p.id
    <3>1. r # 0
      BY <2>1, <2>2, <2>5 DEF KnownInv
    <3> QED
      BY <1>b, <2>1, <2>5, <3>1 DEF PairingInv
  <2>8. \A n \in Ids : n # p.id => pending'[n] = pending[n]
    BY <1>0, <2>2
  <2>9. \A c \in Callers : chan'[c] = IF req[c] = r THEN m ELSE chan[c]
    BY <2>2, <2>7 DEF Settle
  <2>10. \A c \in Callers : pc[c] \in {"insert", "write"} => req[c] # r
    BY <2>5, <2>7 DEF TrafficInv, PairingInv
  <2>11. \A q \in todo : q.id # p.id
    BY <2>5 DEF TrafficInv
  <2>12. result' # "invalid invoke id"
    BY <2>2, <2>7 DEF KnownInv, OwnIdsAccepted
  <2>13. \A c \in Callers :
           /\ pc'[c] # "discard" /\ chan'[c].tag \in {"empty", "reply"}
           /\ pc'[c] \in {"insert", "write"} => chan'[c].tag = "empty"
    BY <2>2, <2>3, <2>9, <2>10 DEF KnownInv
  <2>14. \A q \in todo' : pending'[q.id] # 0
    BY <1>a, <2>2, <2>8, <2>11 DEF KnownInv
  <2>15. \A n \in ReplyIds(inbound)' : pending'[n] # 0
    BY <1>b, <2>2, <2>6, <2>8 DEF KnownInv
  <2> QED
    BY <2>12, <2>13, <2>14, <2>15 DEF KnownInv, OwnIdsAccepted
<1>9. CASE DropBegin \/ DropShutdown \/ DropJoin \/ UNCHANGED vars
  <2>1. UNCHANGED <<pc, chan, pending, rstate, result, todo, inbound>>
    BY <1>9 DEF DropBegin, DropShutdown, DropSocket, DropJoin, vars, callerVars, readerVars, peerVars
  <2>2. ReplyIds(inbound)' = ReplyIds(inbound)
    BY <2>1 DEF ReplyIds
  <2> QED
    BY <2>1, <2>2 DEF KnownInv, OwnIdsAccepted
<1>10. CASE PeerCloses
  <2>1. UNCHANGED <<pc, chan, pending, rstate, result, todo>> /\ inbound' \in {inbound, <<>>}
    BY <1>10 DEF PeerCloses, callerVars, readerVars
  <2>2. ReplyIds(inbound)' \subseteq ReplyIds(inbound)
    BY <2>1 DEF ReplyIds
  <2> QED
    BY <2>1, <2>2 DEF KnownInv, OwnIdsAccepted
<1>11. ASSUME NEW q \in todo, PeerAnswers(q) PROVE KnownInv'
  <2>1. PICK body \in Bodies : PeerSends(Reply(q.id, q.ans, body))
    BY <1>11 DEF PeerAnswers
  <2>2. PICK p \in Packet : p = Reply(q.id, q.ans, body)
    BY ReplyType DEF Typed, TypeOK
  <2>3. p.kind = "reply" /\ p.id = q.id
    BY <2>2 DEF Reply
  <2>4. /\ UNCHANGED <<pc, chan, pending, rstate, result>>
        /\ inbound' = Append(inbound, p) /\ todo' = todo \ {q}
    BY <1>11, <2>1, <2>2 DEF PeerAnswers, PeerSends, callerVars, readerVars
  <2>5. PICK s : s = Append(inbound, p)
    OBVIOUS
  <2>6. inbound' = s /\ ReplyIds(s) = ReplyIds(inbound) \cup {q.id}
    BY <1>0, <2>3, <2>4, <2>5, RepliesAppend DEF TrafficInv
  <2>7. ReplyIds(inbound)' = ReplyIds(inbound) \cup {q.id}
    BY <2>6 DEF ReplyIds
  <2> QED
    BY <2>4, <2>7 DEF KnownInv, OwnIdsAccepted
<1>12. CASE PeerUnsolicited
  <2>1. PICK p \in Packet : p.kind # "reply" /\ PeerSends(p)
    BY <1>12, HonestPeer
  <2>2. UNCHANGED <<pc, chan, pending, rstate, result, todo>> /\ inbound' = Append(inbound, p)
    BY <1>12, <2>1, HonestPeer DEF PeerSends, callerVars, readerVars
  <2>3. PICK s : s = Append(inbound, p)
    OBVIOUS
  <2>4. inbound' = s /\ ReplyIds(s) = ReplyIds(inbound)
    BY <1>0, <2>1, <2>2, <2>3, RepliesAppend DEF TrafficInv
  <2>5. ReplyIds(inbound)' = ReplyIds(inbound)
    BY <2>4 DEF ReplyIds
  <2> QED
    BY <2>2, <2>5 DEF KnownInv, OwnIdsAccepted
<1>13. \A c \in Callers : ~RecvTimeout(c)
  BY DEF RecvTimeout, Honest
<1> QED
  BY <1>1, <1>2, <1>3, <1>4, <1>5, <1>6, <1>7, <1>8, <1>9, <1>10, <1>11, <1>12, <1>13
     DEF Next, CallerStep, ReaderStep, Terminated

(* Without timeouts, and as long as fewer requests are made than there are *)
(* invoke IDs, a peer that answers each request at most once and under its *)
(* own ID is never taken for a faulty one: reader_work does not end with   *)
(* "invalid invoke id received from server", because the entry of an       *)
(* unanswered request stays in `pending` as long as the reader reads.      *)
THEOREM OwnIdsKnown ==
  ASSUME MaxRequests < IdMod, Honest
  PROVE  Spec => []OwnIdsAccepted
<1> DEFINE I == Typed /\ SettleInv /\ PairingInv /\ RegInv /\ TrafficInv /\ KnownInv
<1>1. Init => I
  BY TypedInit, SettleInit, PairingInit, RegInit, TrafficInit
<1>2. I /\ [Next]_vars => I'
  BY TypedStep, SettleStep, PairingStep, RegStep, TrafficStep, KnownStep
<1>3. I => OwnIdsAccepted
  BY DEF KnownInv
<1> HIDE DEF I
<1> QED
  BY <1>1, <1>2, <1>3, PTL DEF Spec
=============================================================================

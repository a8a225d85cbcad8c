------------------------------ MODULE AdsClient ------------------------------
(***************************************************************************)
(* The connection core of the ads crate (src/src/client.rs): any number of *)
(* threads share one Client and call Client::communicate concurrently; one *)
(* reader thread (ClientReceiver) takes packets off the TCP stream and     *)
(* settles the requests registered in the `pending` map; dropping the      *)
(* Client shuts the socket down and joins the reader.                      *)
(*                                                                         *)
(* A request is known by its number, 1 for the first call: a ghost that    *)
(* tells apart two requests given the same invoke ID after the 32-bit      *)
(* counter wrapped.  Packets keep what the control flow looks at: their    *)
(* class, their invoke ID and what communicate's validation makes of them. *)
(***************************************************************************)
EXTENDS Naturals, Sequences

CONSTANTS
  Callers,        \* threads that call communicate on the shared Client
  IdMod,          \* number of invoke IDs (2^32 in the code, AtomicU32)
  MaxRequests,    \* bound: requests issued in a behaviour
  MaxUnsolicited, \* bound: packets the peer sends that answer nothing new
  ReadTimeout,    \* timeouts.read is Some(_)
  WriteTimeout,   \* timeouts.write is Some(_)
  PeerKinds,      \* classes of unsolicited packets this peer sends
  Bodies          \* what communicate's checks make of this peer's replies

Kinds == {"skip", "invalid", "notif", "badnotif", "tinynotif", "dup", "bogus"}

ASSUME ConstantsAssumption ==
  /\ IdMod \in Nat /\ IdMod > 1
  /\ MaxRequests \in Nat
  /\ MaxUnsolicited \in Nat
  /\ ReadTimeout \in BOOLEAN
  /\ WriteTimeout \in BOOLEAN
  /\ PeerKinds \subseteq Kinds
  /\ Bodies \subseteq {"good", "reject", "runt"}

VARIABLES
  invoke_id,   \* Client.invoke_id: the next ID to hand out
  issued,      \* ghost: requests issued so far
  pc,          \* where each caller is inside communicate
  req,         \* ghost: the number of the request a caller is executing, or 0
  rid,         \* dispatched_invoke_id of each caller
  chan,        \* the oneshot channel each caller reads its result from
  last,        \* how each caller's latest call ended
  pending,     \* Client.pending: the request registered under an ID, or 0
  rstate,      \* the reader thread
  result,      \* what reader_work returned
  notifs,      \* notifications the reader put on the notification channel
  cstate,      \* the Client value: live, being dropped, gone
  socket,      \* the TCP socket both threads share, shut down or not
  peer,        \* the other end of the connection
  torn,        \* the request frame a failed write left half sent, if any
  todo,        \* requests the peer received and has not answered
  inbound,     \* packets on their way to the reader, in order
  sent,        \* ghost: notifications the peer sent
  unsolicited  \* packets sent against MaxUnsolicited

callerVars == <<invoke_id, issued, pc, req, rid, last>>
readerVars == <<rstate, result, notifs>>
peerVars   == <<peer, todo, sent, unsolicited>>
vars == <<callerVars, chan, pending, readerVars, cstate, socket, torn,
          inbound, peerVars>>

Ids == 0 .. IdMod - 1
Reqs == 1 .. MaxRequests
MaybeReq == 0 .. MaxRequests   \* a request, or 0 for none

(* The state of a oneshot channel: nothing sent yet, the sender dropped    *)
(* without sending, Err(_) sent, or Ok((header, payload)) sent.            *)
Chan == [tag : {"empty", "closed", "err", "reply"}, ans : MaybeReq,
         body : Bodies \cup {"none"}, seen : Nat]
Signal(tag) == [tag |-> tag, ans |-> 0, body |-> "none", seen |-> 0]
Empty  == Signal("empty")
Closed == Signal("closed")
Failed == Signal("err")

(* A packet on the stream.  `ans` is the request a reply answers (0 for a  *)
(* packet that answers none), `seen` the number of notifications the peer  *)
(* had sent before it; both are ghosts.                                    *)
Packet == [kind : (Kinds \ {"dup", "bogus"}) \cup {"reply"}, id : Ids,
           ans : MaybeReq, body : Bodies \cup {"none"}, seen : Nat]
Reply(id, ans, body) ==
  [kind |-> "reply", id |-> id, ans |-> ans, body |-> body, seen |-> sent]
Other(kind) ==
  [kind |-> kind, id |-> 0, ans |-> 0, body |-> "none", seen |-> sent]

Request == [id : Ids, ans : Reqs]

Init ==
  /\ invoke_id = 1
  /\ issued = 0
  /\ pc = [c \in Callers |-> "idle"]
  /\ req = [c \in Callers |-> 0]
  /\ rid = [c \in Callers |-> 0]
  /\ chan = [c \in Callers |-> Empty]
  /\ last = [c \in Callers |-> "none"]
  /\ pending = [i \in Ids |-> 0]
  /\ rstate = "reading"
  /\ result = "none"
  /\ notifs = 0
  /\ cstate = "live"
  /\ socket = "open"
  /\ peer = "open"
  /\ torn = {}
  /\ todo = {}
  /\ inbound = <<>>
  /\ sent = 0
  /\ unsolicited = 0

AllIdle == \A c \in Callers : pc[c] = "idle"

(* The receiving end of request r's channel still exists: its caller has   *)
(* not returned from communicate.                                          *)
Awaited(r) == r # 0 /\ \E c \in Callers : req[c] = r

(* The channels after message m went to request r (to nobody if r is not   *)
(* awaited).  Dropping the sender of r is Settle(r, Closed).               *)
Settle(r, m) ==
  [c \in Callers |-> IF r # 0 /\ req[c] = r THEN m ELSE chan[c]]

(* communicate returns to its caller; the receiver is dropped with it.     *)
Return(c, outcome) ==
  /\ pc' = [pc EXCEPT ![c] = "idle"]
  /\ req' = [req EXCEPT ![c] = 0]
  /\ last' = [last EXCEPT ![c] = outcome]
  /\ UNCHANGED <<invoke_id, issued, rid>>

-----------------------------------------------------------------------------
(* Client::communicate, one action per step between two accesses to state  *)
(* shared with other threads.                                              *)

(* The owner dropping the Client is the only thread left that calls, to    *)
(* delete the notification handles one after the other.                    *)
BeginCall(c, next_id) ==
  /\ pc[c] = "idle"
  /\ issued < MaxRequests
  /\ cstate = "live" \/ (cstate = "dropping" /\ AllIdle)
  /\ issued' = issued + 1
  /\ invoke_id' = next_id
  /\ pc' = [pc EXCEPT ![c] = "insert"]
  /\ req' = [req EXCEPT ![c] = issued + 1]
  /\ rid' = [rid EXCEPT ![c] = invoke_id]
  /\ chan' = [chan EXCEPT ![c] = Empty]
  /\ UNCHANGED <<last, pending, readerVars, cstate, socket, torn, inbound,
                 peerVars>>

(* Mutant: load and store are not one step, and the increment gets lost.   *)
FetchIdLost(c) == BeginCall(c, invoke_id)

(* Mutant: the counter does not wrap.                                      *)
FetchIdUnwrapped(c) == BeginCall(c, invoke_id + 1)

(* `invoke_id.fetch_add(1)`, which wraps.                                  *)
FetchId(c) == BeginCall(c, (invoke_id + 1) % IdMod)

(* The payload length does not fit 32 bits: Error::Overflow, the ID spent. *)
TooLong(c) ==
  /\ pc[c] = "insert"
  /\ Return(c, "err")
  /\ chan' = [chan EXCEPT ![c] = Empty]
  /\ UNCHANGED <<pending, readerVars, cstate, socket, torn, inbound, peerVars>>

Step(c, from, to) ==
  /\ pc[c] = from
  /\ pc' = [pc EXCEPT ![c] = to]
  /\ UNCHANGED <<invoke_id, issued, req, rid, last>>

(* insert_pending_request: BTreeMap::insert drops the sender it displaces. *)
Register(c) ==
  /\ pending' = [pending EXCEPT ![rid[c]] = req[c]]
  /\ chan' = Settle(pending[rid[c]], Closed)
  /\ UNCHANGED <<readerVars, cstate, socket, torn, inbound, peerVars>>

(* write_all under the socket lock succeeds.  After a torn frame the peer  *)
(* takes these bytes for the rest of that frame, not for a request.        *)
SendFrame(c) ==
  /\ socket = "open"
  /\ todo' \in IF peer = "closed" THEN {todo}
               ELSE IF torn = {} THEN {todo \cup {[id |-> rid[c], ans |-> req[c]]}}
               ELSE {todo, todo \cup torn}
  /\ UNCHANGED <<chan, pending, readerVars, cstate, socket, torn, inbound,
                 peer, sent, unsolicited>>

InsertPending(c) == Step(c, "insert", "write") /\ Register(c)

WriteOk(c) == Step(c, "write", "wait") /\ SendFrame(c)

(* write_all fails and `?` returns: the pending entry stays behind.  A     *)
(* write that timed out may have sent part of the frame.                   *)
WriteFails(c) ==
  /\ pc[c] = "write"
  /\ \/ /\ socket = "shut" \/ peer = "closed"
        /\ UNCHANGED torn
     \/ /\ WriteTimeout
        /\ socket = "open"
        /\ peer = "open"
        /\ torn' \in IF torn = {} THEN {{}, {[id |-> rid[c], ans |-> req[c]]}}
                     ELSE {torn}
  /\ Return(c, "err")
  /\ chan' = [chan EXCEPT ![c] = Empty]
  /\ UNCHANGED <<pending, readerVars, cstate, socket, inbound, peerVars>>

(* The outcome of the checks communicate makes of a reply.  It reads the   *)
(* result field of a "runt" before it looks at the payload length.         *)
Validate(body) ==
  CASE body = "good"   -> "ok"
    [] body = "reject" -> "err"
    [] OTHER           -> "panic"

(* recv / recv_timeout yields a reply; the reader already unregistered it. *)
RecvReply(c) ==
  /\ pc[c] = "wait"
  /\ chan[c].tag = "reply"
  /\ Return(c, Validate(chan[c].body))
  /\ chan' = [chan EXCEPT ![c] = Empty]
  /\ UNCHANGED <<pending, readerVars, cstate, socket, torn, inbound, peerVars>>

(* recv / recv_timeout yields Err(e), or finds the sender dropped.         *)
RecvFailed(c) ==
  /\ chan[c].tag \in {"err", "closed"}
  /\ Step(c, "wait", "discard")
  /\ UNCHANGED <<chan, pending, readerVars, cstate, socket, torn, inbound,
                 peerVars>>

(* Mutant: the timeout is not passed on, recv is used in every case.       *)
RecvTimeoutIgnored(c) == FALSE

(* recv_timeout gives up; the receiver lives on until communicate returns. *)
RecvTimeout(c) ==
  /\ ReadTimeout
  /\ chan[c].tag = "empty"
  /\ Step(c, "wait", "discard")
  /\ UNCHANGED <<chan, pending, readerVars, cstate, socket, torn, inbound,
                 peerVars>>

(* discard_pending_request(id), whoever is registered under the ID by now, *)
(* and the early return that follows it.                                   *)
DiscardAs(c, outcome) ==
  /\ pc[c] = "discard"
  /\ pending' = [pending EXCEPT ![rid[c]] = 0]
  /\ chan' = [Settle(pending[rid[c]], Closed) EXCEPT ![c] = Empty]
  /\ Return(c, outcome)
  /\ UNCHANGED <<readerVars, cstate, socket, torn, inbound, peerVars>>

(* Mutant: no early return; an empty answer is reported as a success.      *)
DiscardNoReturn(c) == DiscardAs(c, "ok")

Discard(c) == DiscardAs(c, "err")

(* Mutant: the request is written before it is registered.                 *)
CallerStepWritesFirst(c) ==
  \/ Step(c, "insert", "write") /\ SendFrame(c)
  \/ Step(c, "write", "wait") /\ Register(c)
  \/ RecvReply(c)
  \/ RecvFailed(c)
  \/ RecvTimeout(c)
  \/ Discard(c)

(* From the registration to the return, in the order of communicate.       *)
CallerStep(c) ==
  \/ InsertPending(c)
  \/ WriteOk(c)
  \/ WriteFails(c)
  \/ RecvReply(c)
  \/ RecvFailed(c)
  \/ RecvTimeout(c)
  \/ Discard(c)

-----------------------------------------------------------------------------
(* The reader thread: ClientReceiver::reader_work and, after it, the tail  *)
(* of the closure ClientReceiver::start spawns.                            *)

(* reader_work consumes the next packet.                                   *)
Take(kinds) ==
  /\ rstate = "reading"
  /\ inbound # <<>>
  /\ Head(inbound).kind \in kinds
  /\ inbound' = Tail(inbound)

(* reader_work returns Err(why).                                           *)
Stop(why) ==
  /\ rstate' = "stopping"
  /\ result' = why

(* Packets that are read and ignored: shorter than an AMS header, router   *)
(* messages, not addressed to us, or a notification that does not parse.   *)
ReadIgnored ==
  /\ Take({"skip", "badnotif"})
  /\ UNCHANGED <<callerVars, chan, pending, readerVars, cstate, socket, torn,
                 peerVars>>

(* Mutant: a well-formed notification is taken for a malformed one.        *)
ReadNotificationLost ==
  /\ Take({"notif"})
  /\ UNCHANGED <<callerVars, chan, pending, readerVars, cstate, socket, torn,
                 peerVars>>

ReadNotification ==
  /\ Take({"notif"})
  /\ notifs' = notifs + 1
  /\ UNCHANGED <<callerVars, chan, pending, rstate, result, cstate, socket,
                 torn, peerVars>>

(* A notification whose payload lacks the length field: LE::read_u32       *)
(* panics, and the thread unwinds past the shutdown and the drain.         *)
ReadTinyNotification ==
  /\ Take({"tinynotif"})
  /\ rstate' = "panicked"
  /\ UNCHANGED <<callerVars, chan, pending, result, notifs, cstate, socket,
                 torn, peerVars>>

(* Unknown AMS/TCP command, or header lengths that disagree.               *)
ReadInvalid ==
  /\ Take({"invalid"})
  /\ Stop("invalid")
  /\ UNCHANGED <<callerVars, chan, pending, notifs, cstate, socket, torn,
                 peerVars>>

(* A reply: remove_entry and send, both under the pending lock.            *)
ReadReply ==
  /\ Take({"reply"})
  /\ LET p == Head(inbound)
         r == pending[p.id]
     IN /\ pending' = [pending EXCEPT ![p.id] = 0]
        /\ chan' = Settle(r, [tag |-> "reply", ans |-> p.ans,
                              body |-> p.body, seen |-> p.seen])
        /\ \/ /\ Awaited(r)
              /\ UNCHANGED <<rstate, result>>
           \/ /\ r # 0 /\ ~Awaited(r)
              /\ Stop("closed channel")
           \/ /\ r = 0
              /\ Stop("invalid invoke id")
  /\ UNCHANGED <<callerVars, notifs, cstate, socket, torn, peerVars>>

(* read_exact fails: the stream ended, or SO_RCVTIMEO, which Client::new   *)
(* set on the socket the reader's handle is a duplicate of, expired.       *)
ReadError ==
  /\ rstate = "reading"
  /\ \/ /\ socket = "shut" \/ (peer = "closed" /\ inbound = <<>>)
        /\ Stop("eof")
     \/ /\ ReadTimeout
        /\ inbound = <<>>
        /\ Stop("timed out")
  /\ UNCHANGED <<callerVars, chan, pending, notifs, cstate, socket, torn,
                 inbound, peerVars>>

EndReading(new_socket) ==
  /\ rstate = "stopping"
  /\ socket' = new_socket
  /\ rstate' = "draining"
  /\ UNCHANGED <<callerVars, chan, pending, result, notifs, cstate, torn,
                 inbound, peerVars>>

(* Mutant: the socket stays open when the reader gives up.                 *)
ReaderShutdownMissing == EndReading(socket)

ReaderShutdown == EndReading("shut")

EndReader ==
  /\ rstate = "draining"
  /\ rstate' = "done"
  /\ UNCHANGED <<callerVars, result, notifs, cstate, socket, torn, inbound,
                 peerVars>>

(* Mutant: the thread ends without telling the registered requests.        *)
DrainMissing == EndReader /\ UNCHANGED <<pending, chan>>

(* Every registered request is told the error, under the pending lock.     *)
Drain ==
  /\ EndReader
  /\ pending' = [i \in Ids |-> 0]
  /\ chan' = [c \in Callers |->
                IF req[c] # 0 /\ \E i \in Ids : pending[i] = req[c]
                THEN Failed ELSE chan[c]]

ReaderStep ==
  \/ ReadIgnored
  \/ ReadNotification
  \/ ReadTinyNotification
  \/ ReadInvalid
  \/ ReadReply
  \/ ReadError
  \/ ReaderShutdown
  \/ Drain

-----------------------------------------------------------------------------
(* Drop for Client.  Taking the value by `&mut` needs every borrow to have *)
(* ended, so no call is in progress.  FetchId carries the requests that    *)
(* delete the notification handles still open.                             *)

DropBegin ==
  /\ cstate = "live"
  /\ AllIdle
  /\ cstate' = "dropping"
  /\ UNCHANGED <<callerVars, chan, pending, readerVars, socket, torn, inbound,
                 peerVars>>

DropSocket(new_socket) ==
  /\ cstate = "dropping"
  /\ AllIdle
  /\ socket' = new_socket
  /\ cstate' = "joining"
  /\ UNCHANGED <<callerVars, chan, pending, readerVars, torn, inbound,
                 peerVars>>

(* Mutant: the reader is joined without waking it.                         *)
DropShutdownMissing == DropSocket(socket)

(* The close-port message, whose result is ignored, then the shutdown.     *)
DropShutdown == DropSocket("shut")

(* receiver.stop() joins the reader; the fields are dropped after that.    *)
DropJoin ==
  /\ cstate = "joining"
  /\ rstate \in {"done", "panicked"}
  /\ cstate' = "gone"
  /\ UNCHANGED <<callerVars, chan, pending, readerVars, socket, torn, inbound,
                 peerVars>>

-----------------------------------------------------------------------------
(* The ADS router or PLC at the other end: not part of the crate.          *)

PeerSends(p) ==
  /\ peer = "open"
  /\ inbound' = Append(inbound, p)
  /\ UNCHANGED <<callerVars, chan, pending, readerVars, cstate, socket, torn,
                 peer>>

(* It answers the requests it received, in any order.                      *)
PeerAnswers(q) ==
  /\ \E body \in Bodies : PeerSends(Reply(q.id, q.ans, body))
  /\ todo' = todo \ {q}
  /\ UNCHANGED <<sent, unsolicited>>

(* It repeats an answer, answers an ID of its own making, or sends any of  *)
(* the packets no request asked for.                                       *)
PeerUnsolicited ==
  /\ unsolicited < MaxUnsolicited
  /\ unsolicited' = unsolicited + 1
  /\ \/ \E q \in todo, body \in Bodies :
          "dup" \in PeerKinds /\ PeerSends(Reply(q.id, q.ans, body)) /\ UNCHANGED sent
     \/ \E i \in Ids, body \in Bodies :
          "bogus" \in PeerKinds /\ PeerSends(Reply(i, 0, body)) /\ UNCHANGED sent
     \/ \E k \in PeerKinds \ {"dup", "bogus"} :
          PeerSends(Other(k)) /\ sent' = IF k = "notif" THEN sent + 1 ELSE sent
  /\ UNCHANGED todo

(* It closes the connection; a reset also loses what was under way.        *)
PeerCloses ==
  /\ peer = "open"
  /\ peer' = "closed"
  /\ inbound' \in {inbound, <<>>}
  /\ UNCHANGED <<callerVars, chan, pending, readerVars, cstate, socket, torn,
                 todo, sent, unsolicited>>

-----------------------------------------------------------------------------

(* The program has ended; nothing is left to happen.                       *)
Terminated == cstate = "gone" /\ UNCHANGED vars

Next ==
  \/ \E c \in Callers : FetchId(c) \/ TooLong(c) \/ CallerStep(c)
  \/ ReaderStep
  \/ DropBegin
  \/ DropShutdown
  \/ DropJoin
  \/ \E q \in todo : PeerAnswers(q)
  \/ PeerUnsolicited
  \/ PeerCloses
  \/ Terminated

Spec == Init /\ [][Next]_vars

(* Threads of the program are scheduled, locks are held for bounded time   *)
(* and timeouts expire.  Nothing is asked of the user or of the peer.      *)
Fairness ==
  /\ \A c \in Callers : WF_vars(CallerStep(c))
  /\ WF_vars(ReaderStep)
  /\ WF_vars(DropShutdown)
  /\ WF_vars(DropJoin)

LiveSpec == Spec /\ Fairness

(* A peer that also answers every request it receives.                     *)
AnsweringPeerSpec ==
  LiveSpec /\ \A r \in Reqs : WF_vars(\E q \in todo : q.ans = r /\ PeerAnswers(q))

-----------------------------------------------------------------------------
(* Properties.                                                             *)

(* Every variable keeps its type.                                          *)
TypeOK ==
  /\ invoke_id \in Ids
  /\ issued \in MaybeReq
  /\ pc \in [Callers -> {"idle", "insert", "write", "wait", "discard"}]
  /\ req \in [Callers -> MaybeReq]
  /\ rid \in [Callers -> Ids]
  /\ chan \in [Callers -> Chan]
  /\ last \in [Callers -> {"none", "ok", "err", "panic"}]
  /\ pending \in [Ids -> MaybeReq]
  /\ rstate \in {"reading", "stopping", "draining", "done", "panicked"}
  /\ result \in {"none", "invalid", "closed channel", "invalid invoke id",
                 "eof", "timed out"}
  /\ notifs \in Nat
  /\ cstate \in {"live", "dropping", "joining", "gone"}
  /\ socket \in {"open", "shut"}
  /\ peer \in {"open", "closed"}
  /\ torn \in SUBSET Request
  /\ todo \in SUBSET Request
  /\ inbound \in Seq(Packet)
  /\ sent \in Nat
  /\ unsolicited \in 0 .. MaxUnsolicited

(* Once the reader thread has ended, no caller is left waiting on a        *)
(* channel nobody will ever write to: the order "shut the socket down,     *)
(* then drain `pending`" makes every request either be told the error by   *)
(* the drain or fail to write, however it interleaves with the reader.     *)
NoStrandedCaller ==
  rstate = "done" =>
    \A c \in Callers : pc[c] = "wait" => chan[c].tag # "empty"

(* Why: a caller past insert_pending_request whose channel is empty is     *)
(* still registered, and the socket is shut before the drain begins.       *)
SettleInv ==
  /\ \A c \in Callers : pc[c] # "idle" => req[c] # 0
  /\ rstate \in {"draining", "done"} => socket = "shut"
  /\ \A c \in Callers :
       pc[c] \in {"write", "wait"} /\ chan[c].tag = "empty" =>
         pending[rid[c]] = req[c]
  /\ NoStrandedCaller

(* The invoke ID pairs replies with requests: the reply a caller is given  *)
(* answers the request it sent, not another caller's or an earlier one     *)
(* that timed out (replies with an ID the peer made up excepted).  Holds   *)
(* while the ID counter has not wrapped.                                   *)
ReplyAnswersRequest ==
  \A c \in Callers :
    chan[c].tag = "reply" /\ chan[c].ans # 0 => chan[c].ans = req[c]

(* Why: until the counter wraps, IDs are request numbers, in the map, on   *)
(* the wire and in the replies.                                            *)
PairingInv ==
  /\ issued < MaxRequests => invoke_id = issued + 1
  /\ \A c \in Callers : pc[c] # "idle" => rid[c] = req[c]
  /\ \A i \in Ids : pending[i] \in {0, i}
  /\ \A q \in todo \cup torn : q.id = q.ans
  /\ \A k \in DOMAIN inbound : inbound[k].ans \in {0, inbound[k].id}
  /\ ReplyAnswersRequest

(* A peer that answers each request once with the request's own ID never   *)
(* makes the reader abort the connection with "invalid invoke id received  *)
(* from server": the request is registered before its bytes are written    *)
(* and stays registered until its reply arrives.                           *)
OwnIdsAccepted == result # "invalid invoke id"

(* When a call returns, the notifications the peer sent before its reply   *)
(* are already in the notification channel (test_notification reads them   *)
(* with try_recv right after the call that follows them).                  *)
NotificationsPrecedeReply ==
  \A c \in Callers : chan[c].tag = "reply" => notifs >= chan[c].seen

(* Why: packet by packet, the stream lets no packet overtake a             *)
(* notification sent before it.                                            *)
NotifOf(p) == IF p.kind = "notif" THEN 1 ELSE 0
StreamOrdered ==
  /\ inbound # <<>> => inbound[1].seen <= notifs
  /\ \A k \in 1 .. Len(inbound) - 1 :
       inbound[k + 1].seen <= inbound[k].seen + NotifOf(inbound[k])
  /\ peer = "open" =>
       sent <= IF inbound = <<>> THEN notifs
               ELSE inbound[Len(inbound)].seen + NotifOf(inbound[Len(inbound)])
StreamInv == StreamOrdered /\ NotificationsPrecedeReply

(* The read timeout is a reply timeout: the reader's read may time out     *)
(* while a reply is awaited, it does not end an idle connection.           *)
ReadTimeoutNeedsRequest ==
  [][result' = "timed out" /\ result # "timed out" => ~AllIdle]_vars

(* Every call of communicate returns.                                      *)
EveryRequestReturns == \A c \in Callers : pc[c] # "idle" ~> pc[c] = "idle"

(* Dropping the Client terminates: the shutdown makes the reader's blocked *)
(* read fail, so the join in ClientReceiver::stop returns.                 *)
DropTerminates == cstate = "dropping" ~> cstate = "gone"

-----------------------------------------------------------------------------
(* What communicate promises its callers, and how this state shows it.     *)

callState ==
  [c \in Callers |->
     IF pc[c] = "idle" THEN "idle"
     ELSE IF pc[c] = "discard" \/ chan[c].tag \in {"err", "closed"} THEN "failed"
     ELSE IF chan[c].tag = "reply" THEN "answered" ELSE "open"]

(* An ID the peer made up answers the call with that number, if there is   *)
(* to be one.                                                              *)
answersUnderWay == MaybeReq \cap
  {IF inbound[k].ans = 0 THEN inbound[k].id ELSE inbound[k].ans :
     k \in {j \in DOMAIN inbound : inbound[j].kind = "reply"}}

Calls == INSTANCE AdsCalls WITH
  MaxCalls <- MaxRequests, calls <- issued, call <- req, state <- callState,
  wire <- answersUnderWay, up <- (rstate = "reading")

(* The reader thread, the pending map and the channels implement AdsCalls  *)
(* as long as the ID counter has not wrapped.                              *)
ImplementsAdsCalls == Calls!Spec
=============================================================================

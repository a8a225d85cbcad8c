------------------------------ MODULE AdsCalls -------------------------------
(***************************************************************************)
(* What Client::communicate promises to the threads that call it, without  *)
(* IDs, maps, channels or sockets: a call is settled at most once, only    *)
(* with an answer the peer gave to that very call, only while the          *)
(* connection is up, and succeeds only if it was settled.  The connection  *)
(* goes down once and for good.                                            *)
(***************************************************************************)
EXTENDS Naturals

CONSTANTS
  Callers,     \* threads sharing the Client
  MaxCalls     \* bound: calls made in a behaviour

VARIABLES
  calls,   \* calls begun so far
  call,    \* the call a thread is in, 0 for none
  state,   \* what became of it: "open", "answered", "failed"; "idle" for none
  last,    \* how each thread's latest call ended
  wire,    \* answers of the peer on their way
  up       \* the connection is up

vars == <<calls, call, state, last, wire, up>>

Init ==
  /\ calls = 0
  /\ call = [c \in Callers |-> 0]
  /\ state = [c \in Callers |-> "idle"]
  /\ last = [c \in Callers |-> "none"]
  /\ wire = {}
  /\ up = TRUE

Begin(c) ==
  /\ state[c] = "idle"
  /\ calls < MaxCalls
  /\ calls' = calls + 1
  /\ call' = [call EXCEPT ![c] = calls + 1]
  /\ state' = [state EXCEPT ![c] = "open"]
  /\ UNCHANGED <<last, wire, up>>

(* The peer answers a call, or sends what answers one not made yet.        *)
Answer(n) ==
  /\ wire' = wire \cup {n}
  /\ UNCHANGED <<calls, call, state, last, up>>

(* An answer arrives and settles its call.                                 *)
Deliver(c) ==
  /\ up
  /\ state[c] = "open"
  /\ call[c] \in wire
  /\ state' = [state EXCEPT ![c] = "answered"]
  /\ wire' \in {wire, wire \ {call[c]}}
  /\ UNCHANGED <<calls, call, last, up>>

(* Some of the calls not settled are given up, all at once when the        *)
(* connection ends.                                                        *)
Fail ==
  /\ \E F \in SUBSET {c \in Callers : state[c] = "open"} :
       state' = [c \in Callers |-> IF c \in F THEN "failed" ELSE state[c]]
  /\ UNCHANGED <<calls, call, last, wire, up>>

(* An answer is dropped (its call is over, or the stream was cut) and the  *)
(* connection may go down with it.                                         *)
Lose ==
  /\ wire' \in SUBSET wire
  /\ up' \in {up, FALSE}
  /\ UNCHANGED <<calls, call, state, last>>

(* The call returns: Ok is possible only for an answered one.              *)
Finish(c) ==
  /\ state[c] \in {"open", "answered", "failed"}
  /\ \E outcome \in IF state[c] = "answered" THEN {"ok", "err", "panic"} ELSE {"err"} :
       last' = [last EXCEPT ![c] = outcome]
  /\ call' = [call EXCEPT ![c] = 0]
  /\ state' = [state EXCEPT ![c] = "idle"]
  /\ UNCHANGED <<calls, wire, up>>

Next ==
  \/ \E c \in Callers : Begin(c) \/ Deliver(c) \/ Finish(c)
  \/ \E n \in 0 .. MaxCalls : Answer(n)
  \/ Fail
  \/ Lose

Spec == Init /\ [][Next]_vars
=============================================================================

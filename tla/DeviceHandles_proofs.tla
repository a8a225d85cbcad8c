------------------------ MODULE DeviceHandles_proofs -------------------------
(***************************************************************************)
(* Proofs about the handles of notifications (NotifHandles) and about the  *)
(* objects that own a handle of the device (DeviceHandles), for any number *)
(* of threads, handles, batch sizes, requests on the way and failed calls. *)
(***************************************************************************)
EXTENDS DeviceHandles, FiniteSetTheorems, TLAPS

-----------------------------------------------------------------------------
(* Drop leaves no notification behind on a device that does not reuse      *)
(* handles.                                                                *)

(* The types the proof needs.                                              *)
Typed ==
  /\ pc \in [Threads -> {"idle", "adding", "added", "inserting", "deleting",
                         "deleted", "removing"}]
  /\ arg \in [Threads -> SUBSET Nat]
  /\ res \in [Threads -> SUBSET Nat]
  /\ known \subseteq Nat
  /\ registered \subseteq Nat
  /\ next \in Nat
  /\ cstate \in {"live", "dropping", "gone"}

LEMMA MaxHandleType == MaxHandle \in Nat /\ MaxBatch \in Nat
BY ConstantsAssumption

LEMMA Between ==
  ASSUME NEW m \in Nat, NEW n \in Nat
  PROVE  \A h \in m .. n - 1 : h \in Nat /\ m <= h /\ h < n
OBVIOUS

(* The handles a device gives out are new, and old ones afterwards.        *)
LEMMA Given ==
  ASSUME next \in Nat, NEW H,
         next' \in {n \in next .. MaxHandle + 1 : H = next .. n - 1}
  PROVE  /\ next' \in Nat /\ next <= next'
         /\ \A h \in H : h \in Nat /\ next <= h /\ h < next'
<1>1. next' \in next .. MaxHandle + 1 /\ H = next .. next' - 1
  OBVIOUS
<1>2. next' \in Nat /\ next <= next'
  BY <1>1, MaxHandleType
<1>3. \A h \in next .. next' - 1 : h \in Nat /\ next <= h /\ h < next'
  BY <1>2, Between
<1> QED
  BY <1>1, <1>2, <1>3

(* A thread goes on with handles of the device.                            *)
LEMMA GotoType ==
  ASSUME Typed, NEW t \in Threads,
         NEW to \in {"idle", "adding", "added", "inserting", "deleting", "deleted", "removing"},
         NEW a \in SUBSET Nat, NEW r \in SUBSET Nat, Goto(t, to, a, r)
  PROVE  /\ pc' \in [Threads -> {"idle", "adding", "added", "inserting", "deleting",
                                 "deleted", "removing"}]
         /\ arg' \in [Threads -> SUBSET Nat]
         /\ res' \in [Threads -> SUBSET Nat]
BY DEF Typed, Goto

LEMMA InitInv == Init => Typed /\ TrackingInv
BY DEF Init, Typed, TrackingInv, InFlight

(* Every step of add, delete and drop keeps types.                         *)
LEMMA TypedStep == ~Reuse /\ Typed /\ [Next]_vars => Typed'
<1> SUFFICES ASSUME ~Reuse, Typed, [Next]_vars PROVE Typed'
  OBVIOUS
<1> USE DEF deviceVars, threadVars
<1>1. ASSUME NEW t \in Threads, CallAdd(t) PROVE Typed'
  <2>1. PICK n \in 1 .. MaxBatch : Goto(t, "adding", 1 .. n, {})
    BY <1>1 DEF CallAdd
  <2> DEFINE batch == 1 .. n
  <2>2. batch \in SUBSET Nat
    BY <2>1, MaxHandleType
  <2> HIDE DEF batch
  <2>3. Goto(t, "adding", batch, {})
    BY <2>1 DEF batch
  <2>4. /\ pc' \in [Threads -> {"idle", "adding", "added", "inserting", "deleting",
                              "deleted", "removing"}]
        /\ arg' \in [Threads -> SUBSET Nat]
        /\ res' \in [Threads -> SUBSET Nat]
    <3>1. {} \in SUBSET Nat
      OBVIOUS
    <3> QED
      BY <2>2, <2>3, <3>1, GotoType, Zenon
  <2> QED
    <3>1. UNCHANGED <<known, registered, next, cstate>>
      BY <1>1 DEF CallAdd
    <3> QED
      BY <2>4, <3>1 DEF Typed
<1>2. ASSUME NEW t \in Threads, DeviceAdds(t) PROVE Typed'
  <2>1. PICK H \in FreshHandles :
          /\ registered' = registered \cup H
          /\ next' \in {n \in next .. MaxHandle + 1 : H = next .. n - 1}
          /\ Goto(t, "added", {}, H)
    BY <1>2 DEF DeviceAdds
  <2>2. next' \in Nat /\ H \in SUBSET Nat
    BY <2>1, Given DEF Typed
  <2> QED
    BY <1>2, <2>1, <2>2, GotoType DEF DeviceAdds, Typed
<1>3. ASSUME NEW t \in Threads, Insert(t) PROVE Typed'
  <2>1. PICK h \in res[t] : known' = known \cup {h} /\ Goto(t, "inserting", {}, res[t] \ {h})
    BY <1>3 DEF Insert, InsertIf
  <2>2. res[t] \in SUBSET Nat
    BY DEF Typed
  <2> QED
    BY <1>3, <2>1, <2>2, GotoType DEF Insert, InsertIf, Typed
<1>4. ASSUME NEW t \in Threads, CallDelete(t) PROVE Typed'
  <2>1. PICK H \in SUBSET known : known' = known \ H /\ Goto(t, "deleting", H, {})
    BY <1>4 DEF CallDelete
  <2>2. H \in SUBSET Nat
    BY <2>1 DEF Typed
  <2> QED
    BY <1>4, <2>1, <2>2, GotoType, SMTT(30) DEF CallDelete, Typed
<1>5. ASSUME NEW t \in Threads, DeviceDeletes(t) PROVE Typed'
  <2>1. PICK H \in SUBSET (arg[t] \cap registered) :
          registered' = registered \ H /\ Goto(t, "deleted", arg[t], H)
    BY <1>5 DEF DeviceDeletes
  <2>2. arg[t] \in SUBSET Nat /\ H \in SUBSET Nat
    BY DEF Typed
  <2> QED
    BY <1>5, <2>1, <2>2, GotoType DEF DeviceDeletes, Typed
<1>6. ASSUME NEW t \in Threads, Remove(t) PROVE Typed'
  <2>1. PICK h \in res[t] : Goto(t, "removing", {}, res[t] \ {h})
    BY <1>6 DEF Remove
  <2>2. res[t] \ {h} \in SUBSET Nat
    BY DEF Typed
  <2> QED
    BY <1>6, <2>1, <2>2, GotoType DEF Remove, Typed
<1>7. ASSUME NEW t \in Threads, ReplyArrives(t) PROVE Typed'
  <2>1. res[t] \in SUBSET Nat /\ known \cup (arg[t] \ res[t]) \subseteq Nat
    BY DEF Typed
  <2> QED
    BY <1>7, <2>1, GotoType DEF ReplyArrives, Typed
<1>8. ASSUME NEW t \in Threads, CommunicateFails(t) PROVE Typed'
  <2>1. arg[t] \in SUBSET Nat
    BY DEF Typed
  <2> QED
    <3>1. known' \subseteq Nat
      BY <1>8, <2>1 DEF CommunicateFails, Typed
    <3>2. Goto(t, "idle", {}, {})
      BY <1>8 DEF CommunicateFails
    <3>3. /\ pc' \in [Threads -> {"idle", "adding", "added", "inserting", "deleting",
                                "deleted", "removing"}]
          /\ arg' \in [Threads -> SUBSET Nat]
          /\ res' \in [Threads -> SUBSET Nat]
      <4>1. {} \in SUBSET Nat
        OBVIOUS
      <4> QED
        BY <3>2, <4>1, GotoType, Zenon
    <3> QED
      <4>1. UNCHANGED <<registered, next, cstate>>
        BY <1>8 DEF CommunicateFails
      <4> QED
        BY <3>1, <3>3, <4>1 DEF Typed
<1>9. ASSUME NEW t \in Threads, Return(t) PROVE Typed'
  BY <1>9, GotoType DEF Return, Typed
<1>10. CASE DropBegin
  BY <1>10 DEF DropBegin, DropTakes, Typed
<1>11. CASE DropDeletes
  BY <1>11 DEF DropDeletes, Typed
<1>12. CASE DropEnd
  BY <1>12 DEF DropEnd, Typed
<1>13. CASE UNCHANGED vars
  BY <1>13 DEF vars, Typed
<1> QED
  BY <1>1, <1>2, <1>3, <1>4, <1>5, <1>6, <1>7, <1>8, <1>9, <1>10, <1>11, <1>12, <1>13
     DEF Next, Terminated

-----------------------------------------------------------------------------

(* No step loses track of a notification but a failing call.               *)
LEMMA TrackingStep == ~Reuse /\ Typed /\ TrackingInv /\ [Next]_vars => TrackingInv'
<1> SUFFICES ASSUME ~Reuse, Typed, TrackingInv, [Next]_vars PROVE TrackingInv'
  OBVIOUS
<1> USE DEF deviceVars, threadVars, TrackingInv, InFlight
<1>0. /\ pc \in [Threads -> {"idle", "adding", "added", "inserting", "deleting",
                              "deleted", "removing"}]
      /\ arg \in [Threads -> SUBSET Nat]
      /\ res \in [Threads -> SUBSET Nat]
      /\ registered \subseteq Nat
      /\ next \in Nat
  BY DEF Typed
<1>a. ASSUME NEW t \in Threads, NEW to, NEW a, NEW r, Goto(t, to, a, r)
      PROVE  /\ pc'[t] = to /\ res'[t] = r
             /\ \A u \in Threads : u # t => pc'[u] = pc[u] /\ res'[u] = res[u]
  BY <1>0, <1>a DEF Goto
<1>1. ASSUME NEW t \in Threads, CallAdd(t) PROVE TrackingInv'
  <2>1. PICK n \in 1 .. MaxBatch : Goto(t, "adding", 1 .. n, {})
    BY <1>1 DEF CallAdd
  <2>2. /\ pc'[t] = "adding" /\ res'[t] = {}
        /\ \A u \in Threads : u # t => pc'[u] = pc[u] /\ res'[u] = res[u]
    BY <1>a, <2>1
  <2> QED
    BY <1>1, <2>2 DEF CallAdd
<1>2. ASSUME NEW t \in Threads, DeviceAdds(t) PROVE TrackingInv'
  <2>1. PICK H \in FreshHandles :
          /\ registered' = registered \cup H
          /\ next' \in {n \in next .. MaxHandle + 1 : H = next .. n - 1}
          /\ Goto(t, "added", {}, H)
    BY <1>2 DEF DeviceAdds
  <2>2. /\ next' \in Nat /\ next <= next'
        /\ \A h \in H : h \in Nat /\ next <= h /\ h < next'
    BY <1>0, <2>1, Given
  <2>3. /\ pc'[t] = "added" /\ res'[t] = H
        /\ \A u \in Threads : u # t => pc'[u] = pc[u] /\ res'[u] = res[u]
    BY <1>a, <2>1
  <2>4. pc[t] = "adding" /\ UNCHANGED <<notif_handles, cstate, todo, lost>>
    BY <1>2 DEF DeviceAdds
  <2>5. \A h \in registered' : h < next'
    <3>1. \A h \in registered : h \in Nat /\ h < next
      BY <1>0
    <3> HIDE DEF TrackingInv
    <3>2. ASSUME NEW h \in registered PROVE h < next'
      BY <1>0, <2>2, <3>1
    <3> QED
      BY <2>1, <2>2, <3>2
  <2>6. ASSUME NEW u \in Threads, NEW h \in res'[u] PROVE h < next'
    BY <1>0, <2>2, <2>3, <2>6
  <2>7. ASSUME NEW u \in Threads, NEW h \in registered', pc'[u] \in {"deleted", "removing"}
        PROVE  h \notin res'[u]
    <3>1. u # t /\ pc[u] \in {"deleted", "removing"} /\ res'[u] = res[u]
      BY <2>3, <2>7
    <3>2. CASE h \in registered
      BY <3>1, <3>2
    <3>3. CASE h \in H
      <4>1. \A g \in res[u] : g \in Nat /\ g < next
        BY <1>0
      <4> QED
        BY <1>0, <2>2, <3>1, <3>3, <4>1
    <3> QED
      BY <2>1, <3>2, <3>3
  <2>8. ASSUME NEW h \in registered'
        PROVE  h \in notif_handles \cup todo \cup lost \/ InFlight(h)'
    BY <2>1, <2>3, <2>4
  <2> QED
    BY <2>3, <2>4, <2>5, <2>6, <2>7, <2>8
<1>3. ASSUME NEW t \in Threads, Insert(t) PROVE TrackingInv'
  <2>1. PICK h \in res[t] : /\ notif_handles' = notif_handles \cup {h}
                            /\ Goto(t, "inserting", {}, res[t] \ {h})
    BY <1>3 DEF Insert, InsertIf
  <2>2. /\ pc'[t] = "inserting" /\ res'[t] = res[t] \ {h}
        /\ \A u \in Threads : u # t => pc'[u] = pc[u] /\ res'[u] = res[u]
    BY <1>a, <2>1
  <2>3. pc[t] = "inserting" /\ UNCHANGED <<registered, next, cstate, todo, lost>>
    BY <1>3 DEF Insert, InsertIf
  <2> QED
    BY <2>1, <2>2, <2>3
<1>4. ASSUME NEW t \in Threads, CallDelete(t) PROVE TrackingInv'
  <2>1. PICK H \in SUBSET known : Goto(t, "deleting", H, {})
    BY <1>4 DEF CallDelete
  <2>2. /\ pc'[t] = "deleting" /\ res'[t] = {}
        /\ \A u \in Threads : u # t => pc'[u] = pc[u] /\ res'[u] = res[u]
    BY <1>a, <2>1
  <2>3. /\ pc[t] = "idle" /\ cstate = "live"
        /\ UNCHANGED <<registered, next, notif_handles, cstate, todo, lost>>
    BY <1>4 DEF CallDelete
  <2> QED
    BY <2>2, <2>3
<1>5. ASSUME NEW t \in Threads, DeviceDeletes(t) PROVE TrackingInv'
  <2>1. PICK H \in SUBSET (arg[t] \cap registered) :
          registered' = registered \ H /\ Goto(t, "deleted", arg[t], H)
    BY <1>5 DEF DeviceDeletes
  <2>2. /\ pc'[t] = "deleted" /\ res'[t] = H
        /\ \A u \in Threads : u # t => pc'[u] = pc[u] /\ res'[u] = res[u]
    BY <1>a, <2>1
  <2>3. /\ pc[t] = "deleting"
        /\ UNCHANGED <<next, notif_handles, cstate, todo, lost>>
    BY <1>5 DEF DeviceDeletes
  <2> QED
    BY <2>1, <2>2, <2>3
<1>6. ASSUME NEW t \in Threads, Remove(t) PROVE TrackingInv'
  <2>1. PICK h \in res[t] : /\ notif_handles' = notif_handles \ {h}
                            /\ Goto(t, "removing", {}, res[t] \ {h})
    BY <1>6 DEF Remove
  <2>2. /\ pc'[t] = "removing" /\ res'[t] = res[t] \ {h}
        /\ \A u \in Threads : u # t => pc'[u] = pc[u] /\ res'[u] = res[u]
    BY <1>a, <2>1
  <2>3. pc[t] = "removing" /\ UNCHANGED <<registered, next, cstate, todo, lost>>
    BY <1>6 DEF Remove
  <2>4. h \notin registered
    BY <2>1, <2>3
  <2> QED
    BY <2>1, <2>2, <2>3, <2>4
<1>7. ASSUME NEW t \in Threads, ReplyArrives(t) PROVE TrackingInv'
  <2>1. /\ \/ pc[t] = "added" /\ pc'[t] = "inserting"
           \/ pc[t] = "deleted" /\ pc'[t] = "removing"
        /\ res'[t] = res[t]
        /\ \A u \in Threads : u # t => pc'[u] = pc[u] /\ res'[u] = res[u]
    BY <1>7, <1>a DEF ReplyArrives
  <2>2. UNCHANGED <<registered, next, notif_handles, cstate, todo, lost>>
    BY <1>7 DEF ReplyArrives
  <2> QED
    BY <2>1, <2>2
<1>8. ASSUME NEW t \in Threads, CommunicateFails(t) PROVE TrackingInv'
  <2>1. /\ pc'[t] = "idle" /\ res'[t] = {}
        /\ \A u \in Threads : u # t => pc'[u] = pc[u] /\ res'[u] = res[u]
    BY <1>8, <1>a DEF CommunicateFails
  <2>2. /\ pc[t] \in {"adding", "added", "deleting", "deleted"}
        /\ lost' = IF pc[t] = "added" THEN lost \cup res[t] ELSE lost
        /\ UNCHANGED <<registered, next, notif_handles, cstate, todo>>
    BY <1>8 DEF CommunicateFails
  <2> QED
    BY <2>1, <2>2
<1>9. ASSUME NEW t \in Threads, Return(t) PROVE TrackingInv'
  <2>1. /\ pc'[t] = "idle" /\ res'[t] = {} /\ res[t] = {}
        /\ \A u \in Threads : u # t => pc'[u] = pc[u] /\ res'[u] = res[u]
    BY <1>9, <1>a DEF Return
  <2>2. UNCHANGED <<registered, next, notif_handles, cstate, todo, lost>>
    BY <1>9 DEF Return
  <2> QED
    BY <2>1, <2>2
<1>10. CASE DropBegin
  BY <1>10 DEF DropBegin, DropTakes
<1>11. CASE DropDeletes
  BY <1>11 DEF DropDeletes
<1>12. CASE DropEnd
  BY <1>12 DEF DropEnd
<1>13. CASE UNCHANGED vars
  BY <1>13 DEF vars
<1> QED
  BY <1>1, <1>2, <1>3, <1>4, <1>5, <1>6, <1>7, <1>8, <1>9, <1>10, <1>11, <1>12, <1>13
     DEF Next, Terminated

(* On such a device every notification it has is recorded, on its way into *)
(* the set, in the hands of Drop or lost with a request that ended in Err, *)
(* at every step of every interleaving: the inductive invariant.           *)
THEOREM Tracking ==
  ASSUME ~Reuse
  PROVE  Spec => []TrackingInv
<1>1. Typed /\ TrackingInv /\ [Next]_vars => (Typed /\ TrackingInv)'
  BY TypedStep, TrackingStep
<1> QED
  BY InitInv, <1>1, PTL DEF Spec

(* On a device that never gives out a handle twice, whatever threads add   *)
(* and delete concurrently, the Client's drop deletes every notification   *)
(* whose requests did not end in Err.                                      *)
THEOREM DropDeletesAll ==
  ASSUME ~Reuse
  PROVE  Spec => []DroppedMeansDeleted
<1>1. TrackingInv => DroppedMeansDeleted
  BY DEF TrackingInv, InFlight, DroppedMeansDeleted
<1> QED
  BY Tracking, <1>1, PTL

-----------------------------------------------------------------------------
(* Files and symbol handles.                                               *)


OpKinds == {"none", "open", "use", "close", "list", "listed"}
RequestType ==
  [op : {"open", "use", "close"}, by : Threads, handle : 0 .. MaxOpen, awaited : BOOLEAN]

Answers == 0 .. MaxOpen \cup {Refused}

(* The types the proofs need.                                              *)
ObjectsTyped ==
  /\ handle \in [Threads -> 0 .. MaxOpen]
  /\ op \in [Threads -> OpKinds]
  /\ reply \in [Threads -> SUBSET Answers]
  /\ requests \in Seq(RequestType)
  /\ owner \in [1 .. MaxOpen -> Threads \cup {Free}]
  /\ failed \in Nat

LEMMA MaxOpenType ==
  /\ MaxOpen \in Nat /\ Free \notin Threads
  /\ Refused # 0 /\ Refused \notin 0 .. MaxOpen /\ Refused \notin 1 .. MaxOpen
BY HandlesAssumption DEF Free, Refused

(* What the device may do with a request.                                  *)
LEMMA Executed ==
  ASSUME ObjectsTyped, NEW r \in RequestType, NEW h \in Outcomes(r), Executes(r, h)
  PROVE  /\ h = Refused => owner' = owner
         /\ h # Refused /\ r.op = "open" =>
              /\ h \in 1 .. MaxOpen /\ owner[h] = Free
              /\ owner' = [owner EXCEPT ![h] = r.by]
         /\ h # Refused /\ r.op = "close" => h = 0 /\ owner' = [owner EXCEPT ![r.handle] = Free]
         /\ h # Refused /\ r.op = "use" => h = 0 /\ owner' = owner
         /\ reply' = IF r.awaited THEN [reply EXCEPT ![r.by] = {h}] ELSE reply
         /\ h \in Answers
         /\ r.op # "open" => h \in {0, Refused}
<1>1. r.op \in {"open", "use", "close"}
  BY DEF RequestType
<1>2. /\ h # Refused /\ r.op = "open" => h \in 1 .. MaxOpen /\ owner[h] = Free
      /\ r.op # "open" => h \in {0, Refused}
  BY DEF Outcomes
<1>3. h \in Answers
  BY <1>1, <1>2, MaxOpenType DEF Answers
<1>4. reply' = IF r.awaited THEN [reply EXCEPT ![r.by] = {h}] ELSE reply
  BY Zenon DEF Executes
<1>5. h = Refused => owner' = owner
  BY DEF Executes
<1>6. h # Refused /\ r.op = "open" => owner' = [owner EXCEPT ![h] = r.by]
  BY DEF Executes
<1>7. h # Refused /\ r.op = "close" => owner' = [owner EXCEPT ![r.handle] = Free]
  BY DEF Executes
<1>8. h # Refused /\ r.op = "use" => owner' = owner
  BY DEF Executes
<1> QED
  BY <1>2, <1>3, <1>4, <1>5, <1>6, <1>7, <1>8

(* What a call returns with.                                               *)
LEMMA Returned ==
  ASSUME ObjectsTyped, NEW t \in Threads, Returns(t)
  PROVE  \E h \in reply[t] :
           /\ op[t] \in {"open", "use", "close"} /\ h \in Answers
           /\ op'[t] = "none" /\ reply'[t] = {}
           /\ op[t] = "open" => handle'[t] = IF h = Refused THEN 0 ELSE h
           /\ op[t] = "use" => handle'[t] = handle[t]
           /\ op[t] = "close" => handle'[t] = 0
           /\ failed' = IF op[t] = "close" /\ h = Refused THEN failed + 1 ELSE failed
           /\ \A u \in Threads : u # t => op'[u] = op[u] /\ reply'[u] = reply[u]
                                           /\ handle'[u] = handle[u]
           /\ handle' \in [Threads -> 0 .. MaxOpen]
           /\ UNCHANGED <<requests, owner, cstate>>
<1>1. PICK h \in reply[t] :
        /\ handle' = [handle EXCEPT ![t] = HeldAfter(t, h)]
        /\ failed' = IF op[t] = "close" /\ h = Refused THEN failed + 1 ELSE failed
  BY DEF Returns
<1>2. op[t] \in {"open", "use", "close"} /\ h \in Answers /\ handle[t] \in 0 .. MaxOpen
  BY DEF Returns, ObjectsTyped
<1>3. /\ HeldAfter(t, h) \in 0 .. MaxOpen
      /\ op[t] = "open" => HeldAfter(t, h) = IF h = Refused THEN 0 ELSE h
      /\ op[t] = "use" => HeldAfter(t, h) = handle[t]
      /\ op[t] = "close" => HeldAfter(t, h) = 0
  BY <1>2, MaxOpenType DEF HeldAfter, Answers
<1>4. /\ op' = [op EXCEPT ![t] = "none"] /\ reply' = [reply EXCEPT ![t] = {}]
      /\ UNCHANGED <<requests, owner, cstate>>
  BY DEF Returns, notifVars, vars
<1>5. /\ op \in [Threads -> OpKinds] /\ reply \in [Threads -> SUBSET Answers]
      /\ handle \in [Threads -> 0 .. MaxOpen]
  BY DEF ObjectsTyped
<1> QED
  BY <1>1, <1>2, <1>3, <1>4, <1>5

(* What an object dropped without a request leaves.                        *)
LEMMA Unsent ==
  ASSUME ObjectsTyped, NEW t \in Threads, DropUnsent(t)
  PROVE  /\ op[t] = "none" /\ cstate = "live" /\ handle[t] # 0 /\ handle'[t] = 0
         /\ failed' = failed + 1
         /\ \A u \in Threads : u # t => handle'[u] = handle[u]
         /\ handle' \in [Threads -> 0 .. MaxOpen]
         /\ UNCHANGED <<op, reply, requests, owner, cstate>>
BY MaxOpenType DEF DropUnsent, Idle, ObjectsTyped, notifVars, vars

(* What Fails makes of a request of the thread that gives up.              *)
Abandoned(t) ==
  [k \in DOMAIN requests |->
     IF requests[k].by = t THEN [requests[k] EXCEPT !.awaited = FALSE] ELSE requests[k]]

(* A call that fails leaves its request on the way, with nobody waiting.   *)
LEMMA AbandonedFacts ==
  ASSUME ObjectsTyped, NEW t \in Threads
  PROVE  /\ Abandoned(t) \in Seq(RequestType)
         /\ Len(Abandoned(t)) = Len(requests)
         /\ DOMAIN Abandoned(t) = DOMAIN requests
         /\ \A k \in DOMAIN requests :
              /\ Abandoned(t)[k].op = requests[k].op
              /\ Abandoned(t)[k].by = requests[k].by
              /\ Abandoned(t)[k].handle = requests[k].handle
              /\ Abandoned(t)[k].awaited <=> requests[k].awaited /\ requests[k].by # t
<1> DEFINE S == Abandoned(t)
<1>1. requests \in Seq(RequestType) /\ DOMAIN requests = 1 .. Len(requests) /\ Len(requests) \in Nat
  BY DEF ObjectsTyped
<1>2. ASSUME NEW k \in DOMAIN requests
      PROVE  /\ S[k] \in RequestType
             /\ S[k].op = requests[k].op
             /\ S[k].by = requests[k].by
             /\ S[k].handle = requests[k].handle
             /\ S[k].awaited <=> requests[k].awaited /\ requests[k].by # t
  <2>1. requests[k] \in RequestType
    BY <1>1
  <2>2. S[k] = IF requests[k].by = t THEN [requests[k] EXCEPT !.awaited = FALSE]
               ELSE requests[k]
    BY DEF Abandoned
  <2> HIDE DEF S
  <2> QED
    BY <2>1, <2>2 DEF RequestType
<1>3. DOMAIN S = 1 .. Len(requests)
  BY <1>1 DEF Abandoned
<1>4. S \in [1 .. Len(requests) -> RequestType]
  <2>1. S = [k \in DOMAIN requests |-> S[k]]
    BY DEF Abandoned
  <2> QED
    BY <1>1, <1>2, <2>1
<1> HIDE DEF S
<1>5. S \in Seq(RequestType) /\ Len(S) = Len(requests)
  BY <1>1, <1>3, <1>4
<1> QED
  BY <1>1, <1>2, <1>3, <1>5 DEF S

(* A request is appended.                                                  *)
LEMMA RequestFacts ==
  ASSUME ObjectsTyped, NEW t \in Threads, NEW kind \in {"open", "use", "close"},
         Request(t, kind)
  PROVE  LET r == [op |-> kind, by |-> t, handle |-> handle[t], awaited |-> TRUE]
         IN  /\ requests' \in Seq(RequestType)
             /\ DOMAIN requests' = DOMAIN requests \cup {Len(requests) + 1}
             /\ Len(requests) + 1 \notin DOMAIN requests
             /\ \A k \in DOMAIN requests : requests'[k] = requests[k]
             /\ requests'[Len(requests) + 1] = r
<1> DEFINE r == [op |-> kind, by |-> t, handle |-> handle[t], awaited |-> TRUE]
<1>1. r \in RequestType
  BY DEF RequestType, ObjectsTyped
<1>2. requests' = Append(requests, r) /\ requests \in Seq(RequestType)
  BY DEF Request, ObjectsTyped
<1> HIDE DEF r
<1>3. /\ requests' \in Seq(RequestType)
      /\ Len(requests) \in Nat
      /\ DOMAIN requests = 1 .. Len(requests)
      /\ DOMAIN requests' = 1 .. Len(requests) + 1
      /\ \A k \in 1 .. Len(requests) : requests'[k] = requests[k]
      /\ requests'[Len(requests) + 1] = r
  BY <1>1, <1>2
<1>4. 1 .. Len(requests) + 1 = (1 .. Len(requests)) \cup {Len(requests) + 1}
  BY <1>3
<1>5. Len(requests) + 1 \notin 1 .. Len(requests)
  BY <1>3
<1> QED
  BY <1>3, <1>4, <1>5 DEF r

(* The device takes the first request.                                     *)
LEMMA TakenFacts ==
  ASSUME ObjectsTyped, requests # <<>>, requests' = Tail(requests)
  PROVE  /\ requests' \in Seq(RequestType)
         /\ Head(requests) \in RequestType /\ Head(requests) = requests[1]
         /\ 1 \in DOMAIN requests
         /\ \A k \in DOMAIN requests' :
              /\ requests'[k] = requests[k + 1]
              /\ k + 1 \in DOMAIN requests
              /\ k + 1 # 1
         /\ \A j, k \in DOMAIN requests' : j # k => j + 1 # k + 1
<1>1. /\ requests \in Seq(RequestType) /\ Len(requests) \in Nat /\ Len(requests) # 0
      /\ DOMAIN requests = 1 .. Len(requests)
  BY DEF ObjectsTyped
<1>2. /\ requests' \in Seq(RequestType)
      /\ Len(requests') = Len(requests) - 1
      /\ DOMAIN requests' = 1 .. Len(requests) - 1
  BY <1>1
<1>3. \A k \in 1 .. Len(requests) - 1 : requests'[k] = requests[k + 1]
  BY <1>1
<1>4. Head(requests) = requests[1] /\ 1 \in 1 .. Len(requests)
  BY <1>1
<1>5. requests[1] \in RequestType
  BY <1>1, <1>4
<1> QED
  BY <1>1, <1>2, <1>3, <1>4, <1>5

LEMMA ObjectsInit == HandlesInit => ObjectsTyped
BY MaxOpenType DEF HandlesInit, ObjectsTyped, OpKinds, Free

(* Every step of files, handles and listings keeps types.                  *)
LEMMA ObjectsStep == ObjectsTyped /\ [HandlesNext]_allVars => ObjectsTyped'
<1> SUFFICES ASSUME ObjectsTyped, [HandlesNext]_allVars PROVE ObjectsTyped'
  OBVIOUS
<1> USE MaxOpenType
<1>1. ASSUME NEW t \in Threads, NEW kind \in {"open", "use", "close"}, Request(t, kind)
      PROVE  ObjectsTyped'
  BY <1>1, RequestFacts DEF Request, ObjectsTyped, OpKinds
<1>2. ASSUME NEW t \in Threads, Returns(t) PROVE ObjectsTyped'
  <2>1. PICK h \in reply[t] :
          /\ handle' \in [Threads -> 0 .. MaxOpen]
          /\ failed' = IF op[t] = "close" /\ h = Refused THEN failed + 1 ELSE failed
    BY <1>2, Returned
  <2> QED
    BY <1>2, <2>1 DEF Returns, ObjectsTyped, OpKinds
<1>7. ASSUME NEW t \in Threads, DropUnsent(t) PROVE ObjectsTyped'
  BY <1>7, Unsent DEF ObjectsTyped
<1>3. ASSUME NEW t \in Threads, Fails(t) PROVE ObjectsTyped'
  <2>1. requests' \in Seq(RequestType)
    BY <1>3, AbandonedFacts DEF Fails, FailsWith, Abandoned
  <2> QED
    BY <1>3, <2>1 DEF Fails, FailsWith, ObjectsTyped, OpKinds
<1>4. ASSUME NEW t \in Threads, Listdir(t) \/ ListEntry(t) \/ ListEnds(t) \/ ListUsed(t)
      PROVE  ObjectsTyped'
  BY <1>4 DEF Listdir, ListEntry, ListEnds, ListReturns, ListUsed, ObjectsTyped, OpKinds
<1>5. CASE DeviceStep
  <2> DEFINE r == Head(requests)
  <2>1. PICK h \in Outcomes(r) : Executes(r, h)
    BY <1>5 DEF DeviceStep
  <2>2. r \in RequestType /\ requests' \in Seq(RequestType)
    BY <1>5, TakenFacts DEF DeviceStep
  <2>3. UNCHANGED <<handle, op, failed>>
    BY <1>5 DEF DeviceStep
  <2> HIDE DEF r
  <2>6. /\ owner' = owner \/ (\E g, u : u \in {r.by, Free} /\ owner' = [owner EXCEPT ![g] = u])
        /\ reply' = IF r.awaited THEN [reply EXCEPT ![r.by] = {h}] ELSE reply
        /\ h \in Answers
    <3>1. r.op \in {"open", "use", "close"}
      BY <2>2 DEF RequestType
    <3> QED
      BY <2>1, <2>2, <3>1, Executed
  <2>4. owner' \in [1 .. MaxOpen -> Threads \cup {Free}]
    BY <2>2, <2>6 DEF ObjectsTyped, RequestType
  <2>5. reply' \in [Threads -> SUBSET Answers]
    BY <2>2, <2>6 DEF ObjectsTyped, RequestType
  <2> QED
    BY <2>2, <2>3, <2>4, <2>5 DEF ObjectsTyped
<1>6. CASE UNCHANGED objectVars
  BY <1>6 DEF objectVars, ObjectsTyped
<1> QED
  BY <1>1, <1>2, <1>3, <1>4, <1>5, <1>6, <1>7
     DEF HandlesNext, NotifStep, Open, Use, DropObject, allVars

-----------------------------------------------------------------------------
(* A held handle is open and its holder's own.                             *)

LEMMA OwnershipInit == HandlesInit => OwnershipInv
<1> SUFFICES ASSUME HandlesInit PROVE OwnershipInv
  OBVIOUS
<1>1. DOMAIN requests = {}
  BY DEF HandlesInit
<1> QED
  BY <1>1, MaxOpenType DEF HandlesInit, OwnershipInv, Holds

(* No step, and no late request of a failed call, takes a held handle away.*)
LEMMA OwnershipStep ==
  ObjectsTyped /\ OwnershipInv /\ [HandlesNext]_allVars => OwnershipInv'
<1> SUFFICES ASSUME ObjectsTyped, OwnershipInv, [HandlesNext]_allVars PROVE OwnershipInv'
  OBVIOUS
<1> USE MaxOpenType
<1>0. /\ handle \in [Threads -> 0 .. MaxOpen]
      /\ op \in [Threads -> OpKinds]
      /\ reply \in [Threads -> SUBSET Answers]
      /\ owner \in [1 .. MaxOpen -> Threads \cup {Free}]
      /\ \A k \in DOMAIN requests : requests[k] \in RequestType
  BY DEF ObjectsTyped
(* A new request: its thread awaits nothing else.                          *)
<1>1. ASSUME NEW t \in Threads, NEW kind \in {"open", "use", "close"}, Request(t, kind),
             kind = "open" <=> handle[t] = 0
      PROVE  OwnershipInv'
  <2> DEFINE r == [op |-> kind, by |-> t, handle |-> handle[t], awaited |-> TRUE]
  <2> DEFINE n == Len(requests) + 1
  <2>1. /\ DOMAIN requests' = DOMAIN requests \cup {n}
        /\ n \notin DOMAIN requests
        /\ \A k \in DOMAIN requests : requests'[k] = requests[k]
        /\ requests'[n] = r
    BY <1>1, RequestFacts
  <2>2. /\ r.op = kind /\ r.by = t /\ r.handle = handle[t] /\ r.awaited
    OBVIOUS
  <2> HIDE DEF r, n
  <2>3. /\ op[t] = "none" /\ op'[t] = kind
        /\ \A u \in Threads : u # t => op'[u] = op[u]
        /\ UNCHANGED <<handle, reply, owner>>
    BY <1>0, <1>1 DEF Request, Idle
  <2>4. reply[t] = {}
    BY <2>3 DEF OwnershipInv
  <2>5. ASSUME NEW u \in Threads, NEW h \in 1 .. MaxOpen
        PROVE  Holds(u, h)' <=> Holds(u, h)
    BY <2>3, <2>4 DEF Holds
  <2>6. ASSUME NEW q, NEW k \in DOMAIN requests, q = requests[k]
        PROVE  OwnedRequest(q)' /\ ~(q.awaited /\ q.by = t)
    <3>1. OwnedRequest(q) /\ q \in RequestType
      BY <1>0, <2>6 DEF OwnershipInv
    <3>2. ~(q.awaited /\ q.by = t)
      BY <2>3, <3>1 DEF OwnedRequest, RequestType
    <3> QED
      BY <2>3, <2>5, <3>1, <3>2 DEF OwnedRequest, RequestType
  <2>7. ASSUME NEW q, q = r PROVE OwnedRequest(q)'
    <3>1. kind = "close" => handle[t] \in 1 .. MaxOpen /\ owner[handle[t]] = t
      <4>1. ASSUME kind = "close" PROVE handle[t] \in 1 .. MaxOpen
        BY <1>0, <1>1, <4>1
      <4> QED
        BY <2>3, <4>1 DEF OwnershipInv, Holds
    <3> QED
      BY <2>2, <2>3, <2>4, <2>7, <3>1 DEF OwnedRequest
  <2>8. ASSUME NEW k \in DOMAIN requests
        PROVE  Compatible(requests[k], r) /\ Compatible(r, requests[k])
    <3>1. OwnedRequest(requests[k]) /\ requests[k] \in RequestType
      BY <1>0 DEF OwnershipInv
    <3>2. ASSUME requests[k].by = t, requests[k].op = "close"
          PROVE  requests[k].handle # handle[t]
      BY <2>3, <2>6, <3>1, <3>2 DEF OwnedRequest, Holds
    <3> QED
      BY <2>2, <2>6, <3>2 DEF Compatible
  <2>9. \A u \in Threads, h \in 1 .. MaxOpen : Holds(u, h)' => owner'[h] = u
    BY <2>3, <2>5 DEF OwnershipInv
  <2>10. \A u \in Threads :
           /\ op'[u] = "open" => handle'[u] = 0
           /\ op'[u] \in {"use", "close"} => reply'[u] \subseteq {0, Refused}
           /\ op'[u] \in {"none", "list", "listed"} => reply'[u] = {}
    BY <1>1, <2>3, <2>4 DEF OwnershipInv
  <2>11. (\A k \in DOMAIN requests : OwnedRequest(requests[k]))'
    BY <2>1, <2>6, <2>7 DEF OwnedRequest, Holds
  <2>12. \A j, k \in DOMAIN requests' : j # k => Compatible(requests'[j], requests'[k])
    BY <2>1, <2>8 DEF OwnershipInv
  <2> QED
    BY <2>9, <2>10, <2>11, <2>12 DEF OwnershipInv, Compatible
(* A call ends with its reply.                                             *)
<1>2. ASSUME NEW t \in Threads, Returns(t) PROVE OwnershipInv'
  <2>1. PICK h \in reply[t] :
          /\ op[t] \in {"open", "use", "close"} /\ h \in Answers
          /\ op'[t] = "none" /\ reply'[t] = {}
          /\ op[t] = "open" => handle'[t] = IF h = Refused THEN 0 ELSE h
          /\ op[t] = "use" => handle'[t] = handle[t]
          /\ op[t] = "close" => handle'[t] = 0
          /\ \A u \in Threads : u # t => op'[u] = op[u] /\ reply'[u] = reply[u]
                                          /\ handle'[u] = handle[u]
          /\ UNCHANGED <<requests, owner>>
    BY <1>2, Returned
  <2>2. ASSUME NEW u \in Threads, NEW g \in 1 .. MaxOpen, Holds(u, g)'
        PROVE  Holds(u, g)
    BY <2>1, <2>2 DEF Holds
  <2>3. ASSUME NEW q, NEW k \in DOMAIN requests, q = requests[k] PROVE OwnedRequest(q)'
    <3>1. OwnedRequest(q) /\ q \in RequestType
      BY <1>0, <2>3 DEF OwnershipInv
    <3>2. ~(q.awaited /\ q.by = t)
      BY <2>1, <3>1 DEF OwnedRequest, RequestType
    <3> QED
      BY <2>1, <2>2, <3>1, <3>2 DEF OwnedRequest, RequestType
  <2>4. \A u \in Threads, g \in 1 .. MaxOpen : Holds(u, g)' => owner'[g] = u
    BY <2>1, <2>2 DEF OwnershipInv
  <2>5. \A u \in Threads :
          /\ op'[u] = "open" => handle'[u] = 0
          /\ op'[u] \in {"use", "close"} => reply'[u] \subseteq {0, Refused}
          /\ op'[u] \in {"none", "list", "listed"} => reply'[u] = {}
    BY <2>1 DEF OwnershipInv
  <2>6. (\A k \in DOMAIN requests : OwnedRequest(requests[k]))'
    BY <2>1, <2>3 DEF OwnedRequest, Holds
  <2> QED
    BY <2>1, <2>4, <2>5, <2>6 DEF OwnershipInv, Compatible
(* A call ends in Err; nobody awaits its request any more.                 *)
<1>3. ASSUME NEW t \in Threads, Fails(t) PROVE OwnershipInv'
  <2>1. /\ op[t] \in {"open", "use", "close"}
        /\ op'[t] = "none" /\ reply'[t] = {}
        /\ handle'[t] = IF op[t] = "use" THEN handle[t] ELSE 0
        /\ \A u \in Threads : u # t => op'[u] = op[u] /\ reply'[u] = reply[u]
                                        /\ handle'[u] = handle[u]
        /\ UNCHANGED owner
        /\ requests' = Abandoned(t)
    BY <1>0, <1>3 DEF Fails, FailsWith, Abandoned
  <2>2. /\ DOMAIN requests' = DOMAIN requests
        /\ \A k \in DOMAIN requests :
             /\ requests'[k].op = requests[k].op
             /\ requests'[k].by = requests[k].by
             /\ requests'[k].handle = requests[k].handle
             /\ requests'[k].awaited <=> requests[k].awaited /\ requests[k].by # t
    BY <2>1, AbandonedFacts
  <2>3. ASSUME NEW u \in Threads, NEW g \in 1 .. MaxOpen, Holds(u, g)'
        PROVE  Holds(u, g)
    BY <2>1, <2>3 DEF Holds
  <2>4. ASSUME NEW k \in DOMAIN requests, NEW q, q = requests'[k] PROVE OwnedRequest(q)'
    <3> DEFINE p == requests[k]
    <3>1. /\ OwnedRequest(p) /\ p \in RequestType
          /\ q.op = p.op /\ q.by = p.by /\ q.handle = p.handle
          /\ q.awaited <=> p.awaited /\ p.by # t
      BY <1>0, <2>2, <2>4 DEF OwnershipInv
    <3> HIDE DEF p
    <3>2. ASSUME p.by = t, p.awaited, p.op = "close"
          PROVE  ~Holds(t, q.handle)'
      BY <2>1, <3>1, <3>2 DEF OwnedRequest, Holds
    <3> QED
      BY <2>1, <2>3, <3>1, <3>2 DEF OwnedRequest, RequestType
  <2>5. \A u \in Threads, g \in 1 .. MaxOpen : Holds(u, g)' => owner'[g] = u
    BY <2>1, <2>3 DEF OwnershipInv
  <2>6. \A u \in Threads :
          /\ op'[u] = "open" => handle'[u] = 0
          /\ op'[u] \in {"use", "close"} => reply'[u] \subseteq {0, Refused}
          /\ op'[u] \in {"none", "list", "listed"} => reply'[u] = {}
    BY <2>1 DEF OwnershipInv
  <2>7. \A j, k \in DOMAIN requests : j # k => Compatible(requests'[j], requests'[k])
    BY <2>2 DEF OwnershipInv, Compatible
  <2>8. (\A k \in DOMAIN requests : OwnedRequest(requests[k]))'
    BY <2>2, <2>4 DEF OwnedRequest, Holds
  <2> QED
    BY <2>2, <2>5, <2>6, <2>7, <2>8 DEF OwnershipInv, Compatible
(* An object is gone without a request; its handle stays open.             *)
<1>7. ASSUME NEW t \in Threads, DropUnsent(t) PROVE OwnershipInv'
  <2>1. /\ handle'[t] = 0 /\ op[t] = "none"
        /\ \A u \in Threads : u # t => handle'[u] = handle[u]
        /\ UNCHANGED <<op, reply, requests, owner>>
    BY <1>7, Unsent
  <2>2. ASSUME NEW u \in Threads, NEW g \in 1 .. MaxOpen, Holds(u, g)'
        PROVE  Holds(u, g)
    BY <2>1, <2>2 DEF Holds
  <2>3. ASSUME NEW q, NEW k \in DOMAIN requests, q = requests[k] PROVE OwnedRequest(q)'
    <3>1. OwnedRequest(q) /\ q \in RequestType
      BY <1>0, <2>3 DEF OwnershipInv
    <3> QED
      BY <2>1, <2>2, <3>1 DEF OwnedRequest, RequestType
  <2>4. (\A k \in DOMAIN requests : OwnedRequest(requests[k]))'
    BY <2>1, <2>3 DEF OwnedRequest, Holds
  <2>5. \A u \in Threads : op'[u] = "open" => handle'[u] = 0
    BY <2>1 DEF OwnershipInv
  <2> QED
    BY <2>1, <2>2, <2>4, <2>5 DEF OwnershipInv, Compatible
(* listdir leaves the objects alone.                                       *)
<1>4. ASSUME NEW t \in Threads, Listdir(t) \/ ListEntry(t) \/ ListEnds(t) \/ ListUsed(t)
      PROVE  OwnershipInv'
  <2>1. /\ op[t] \in {"none", "list", "listed"} /\ op'[t] \in {"none", "list", "listed"}
        /\ \A u \in Threads : u # t => op'[u] = op[u]
        /\ UNCHANGED <<handle, reply, requests, owner>>
    BY <1>0, <1>4 DEF Listdir, ListEntry, ListEnds, ListReturns, ListUsed, Idle
  <2>2. ASSUME NEW u \in Threads, NEW h \in 1 .. MaxOpen
        PROVE  Holds(u, h)' <=> Holds(u, h)
    BY <2>1 DEF Holds
  <2>3. ASSUME NEW q, NEW k \in DOMAIN requests, q = requests[k] PROVE OwnedRequest(q)'
    <3>1. OwnedRequest(q) /\ q \in RequestType
      BY <1>0, <2>3 DEF OwnershipInv
    <3> QED
      BY <2>1, <2>2, <3>1 DEF OwnedRequest, RequestType
  <2>4. (\A k \in DOMAIN requests : OwnedRequest(requests[k]))'
    BY <2>1, <2>3 DEF OwnedRequest, Holds
  <2> QED
    BY <2>1, <2>2, <2>4 DEF OwnershipInv, Compatible
(* The device executes a request.                                          *)
<1>5. CASE DeviceStep
  <2> DEFINE r == Head(requests)
  <2>1. PICK h \in Outcomes(r) : Executes(r, h)
    BY <1>5 DEF DeviceStep
  <2>2. /\ r \in RequestType /\ r = requests[1] /\ 1 \in DOMAIN requests
        /\ \A k \in DOMAIN requests' : /\ requests'[k] = requests[k + 1]
                                       /\ k + 1 \in DOMAIN requests
                                       /\ k + 1 # 1
        /\ \A j, k \in DOMAIN requests' : j # k => j + 1 # k + 1
    BY <1>5, TakenFacts DEF DeviceStep
  <2> HIDE DEF r
  <2>3. OwnedRequest(r) /\ UNCHANGED <<handle, op>>
    BY <1>5, <2>2 DEF DeviceStep, OwnershipInv
  <2>4. /\ h = Refused => owner' = owner
        /\ h # Refused /\ r.op = "open" =>
             /\ h \in 1 .. MaxOpen /\ owner[h] = Free
             /\ owner' = [owner EXCEPT ![h] = r.by]
        /\ h # Refused /\ r.op = "close" => h = 0 /\ owner' = [owner EXCEPT ![r.handle] = Free]
        /\ h # Refused /\ r.op = "use" => h = 0 /\ owner' = owner
        /\ reply' = IF r.awaited THEN [reply EXCEPT ![r.by] = {h}] ELSE reply
        /\ h \in Answers
        /\ r.op # "open" => h \in {0, Refused}
    BY <2>1, <2>2, Executed
  <2>5. /\ r.by \in Threads /\ r.handle \in 0 .. MaxOpen /\ r.awaited \in BOOLEAN
        /\ r.op \in {"open", "use", "close"}
    BY <2>2 DEF RequestType
  <2>6. ASSUME NEW k \in DOMAIN requests, k # 1
        PROVE  /\ OwnedRequest(requests[k]) /\ requests[k] \in RequestType
               /\ Compatible(r, requests[k])
    BY <1>0, <2>2, <2>6 DEF OwnershipInv
  <2>7. ASSUME NEW u \in Threads, NEW g \in 1 .. MaxOpen, Holds(u, g)'
        PROVE  owner'[g] = u
    <3>1. CASE Holds(u, g)
      <4>1. owner[g] = u
        BY <3>1 DEF OwnershipInv
      <4>2. ~(h # Refused /\ r.op = "close" /\ r.handle = g)
        <5>1. SUFFICES ASSUME h # Refused, r.op = "close", r.handle = g PROVE FALSE
          OBVIOUS
        <5>2. r.by = u /\ r.awaited /\ op[u] = "close"
          BY <2>3, <2>5, <3>1, <4>1, <5>1 DEF OwnedRequest
        <5>3. reply'[u] = {0}
          BY <1>0, <2>4, <5>1, <5>2
        <5> QED
          BY <2>3, <2>7, <5>2, <5>3 DEF Holds
      <4> QED
        BY <1>0, <2>4, <2>5, <4>1, <4>2
    <3>2. CASE ~Holds(u, g)
      <4>1. g \in reply'[u] /\ g \notin reply[u]
        <5>1. CASE g \in reply'[u]
          BY <3>2, <5>1 DEF Holds
        <5>2. CASE g \notin reply'[u]
          <6>1. reply'[u] # {0} /\ reply[u] = {0}
            BY <2>3, <2>7, <3>2, <5>2 DEF Holds
          <6>2. ~(r.awaited /\ r.by = u)
            BY <2>3, <6>1 DEF OwnedRequest
          <6> QED
            BY <1>0, <2>4, <2>5, <6>1, <6>2
        <5> QED
          BY <5>1, <5>2
      <4>2. r.awaited /\ r.by = u /\ g = h
        BY <1>0, <2>4, <2>5, <4>1
      <4> QED
        BY <1>0, <2>4, <2>5, <4>2
    <3> QED
      BY <3>1, <3>2
  <2>8. ASSUME NEW u \in Threads
        PROVE  /\ op'[u] = "open" => handle'[u] = 0
               /\ op'[u] \in {"use", "close"} => reply'[u] \subseteq {0, Refused}
               /\ op'[u] \in {"none", "list", "listed"} => reply'[u] = {}
    <3>1. CASE r.awaited /\ r.by = u
      <4>1. op[u] = r.op /\ reply'[u] = {h}
        BY <1>0, <2>3, <2>4, <3>1 DEF OwnedRequest
      <4> QED
        BY <2>3, <2>4, <2>5, <4>1 DEF OwnershipInv
    <3>2. CASE ~(r.awaited /\ r.by = u)
      <4>1. reply'[u] = reply[u]
        BY <1>0, <2>4, <2>5, <3>2
      <4> QED
        BY <2>3, <4>1 DEF OwnershipInv
    <3> QED
      BY <3>1, <3>2
  <2>9. ASSUME NEW k \in DOMAIN requests, k # 1, NEW s, s = requests[k]
        PROVE  OwnedRequest(s)'
    <3>1. /\ OwnedRequest(s) /\ Compatible(r, s) /\ s.by \in Threads
          /\ s.awaited \in BOOLEAN
      BY <2>6, <2>9 DEF RequestType
    <3>2. s.awaited => reply'[s.by] = reply[s.by]
      BY <1>0, <2>4, <2>5, <3>1 DEF Compatible
    <3>3. ASSUME s.op = "close"
          PROVE  owner'[s.handle] = s.by /\ owner[s.handle] = s.by /\ s.handle \in 1 .. MaxOpen
      <4>1. owner[s.handle] = s.by /\ s.handle \in 1 .. MaxOpen
        BY <3>1, <3>3 DEF OwnedRequest
      <4>2. ~(r.op = "close" /\ r.handle = s.handle)
        BY <2>3, <3>1, <3>3, <4>1 DEF OwnedRequest, Compatible
      <4> QED
        BY <1>0, <2>4, <2>5, <3>1, <4>1, <4>2
    <3>4. ASSUME s.op = "close", ~s.awaited PROVE ~Holds(s.by, s.handle)'
      <4>1. ~Holds(s.by, s.handle) /\ s.handle # 0
        BY <3>1, <3>3, <3>4 DEF OwnedRequest
      <4>2. CASE reply'[s.by] = reply[s.by]
        BY <2>3, <4>1, <4>2 DEF Holds
      <4>3. CASE reply'[s.by] # reply[s.by]
        <5>1. r.awaited /\ r.by = s.by /\ reply'[s.by] = {h} /\ reply[s.by] = {}
          BY <1>0, <2>3, <2>4, <2>5, <3>1, <4>3 DEF OwnedRequest
        <5>2. h # s.handle
          BY <2>4, <2>5, <3>1, <3>3, <3>4, <4>1
        <5> QED
          BY <2>3, <4>1, <5>1, <5>2 DEF Holds
      <4> QED
        BY <4>2, <4>3
    <3>5. s.awaited => op'[s.by] = s.op /\ reply'[s.by] = {}
      BY <2>3, <3>1, <3>2 DEF OwnedRequest
    <3>6. s.op = "close" /\ s.awaited => handle'[s.by] = s.handle
      BY <2>3, <3>1 DEF OwnedRequest
    <3> QED
      BY <3>3, <3>4, <3>5, <3>6 DEF OwnedRequest
  <2>10. (\A k \in DOMAIN requests : OwnedRequest(requests[k]))'
    BY <2>2, <2>9 DEF OwnedRequest, Holds
  <2>11. \A j, k \in DOMAIN requests' : j # k => Compatible(requests'[j], requests'[k])
    BY <2>2 DEF OwnershipInv
  <2> QED
    BY <2>7, <2>8, <2>10, <2>11 DEF OwnershipInv, Compatible
<1>6. CASE UNCHANGED objectVars
  BY <1>6 DEF objectVars, OwnershipInv, OwnedRequest, Compatible, Holds
<1> QED
  BY <1>1, <1>2, <1>3, <1>4, <1>5, <1>6, <1>7
     DEF HandlesNext, NotifStep, Open, Use, DropObject, allVars

(* Whatever is opened, used and closed concurrently, and whichever call    *)
(* fails with its request on the way, the claims on the device's handles   *)
(* never collide: the inductive invariant.                                 *)
THEOREM Ownership == HandlesSpec => []OwnershipInv
<1>1. ObjectsTyped /\ OwnershipInv /\ [HandlesNext]_allVars => (ObjectsTyped /\ OwnershipInv)'
  BY ObjectsStep, OwnershipStep
<1> QED
  BY ObjectsInit, OwnershipInit, <1>1, PTL DEF HandlesSpec

(* A File or Handle that exists is open on the device for its own thread:  *)
(* no read or write of it reaches what somebody else opened.               *)
THEOREM HeldStaysOpen == HandlesSpec => []HeldIsOpen
<1>1. ObjectsTyped /\ OwnershipInv => HeldIsOpen
  <2> SUFFICES ASSUME ObjectsTyped, OwnershipInv, NEW t \in Threads,
                      handle[t] # 0, op[t] # "close"
               PROVE  owner[handle[t]] = t
    BY DEF HeldIsOpen
  <2>1. handle[t] \in 1 .. MaxOpen
    BY MaxOpenType DEF ObjectsTyped
  <2> QED
    BY <2>1 DEF OwnershipInv, Holds
<1>2. HandlesSpec => []ObjectsTyped
  BY ObjectsInit, ObjectsStep, PTL DEF HandlesSpec
<1> QED
  BY Ownership, <1>1, <1>2, PTL

-----------------------------------------------------------------------------
(* The notifications, beside files and handles.                            *)

(* The steps of files, handles and listdir leave the notifications alone:  *)
(* a behaviour of the whole is a behaviour of NotifHandles.                *)
THEOREM NotificationsApart == HandlesSpec => Spec
<1>1. HandlesInit => Init
  BY DEF HandlesInit
<1>2. [HandlesNext]_allVars => [Next]_vars
  BY DEF HandlesNext, NotifStep, allVars, notifVars, Open, Use, DropObject, DropUnsent, Request,
         Returns, Fails, FailsWith, Listdir, ListEntry, ListEnds, ListReturns, ListUsed, DeviceStep
<1> QED
  BY <1>1, <1>2, PTL DEF HandlesSpec, Spec

(* So Drop deletes every notification here too, on a device that does not  *)
(* give out handles twice.                                                 *)
THEOREM DropDeletesAllBeside ==
  ASSUME ~Reuse
  PROVE  HandlesSpec => [](TrackingInv /\ DroppedMeansDeleted)
BY NotificationsApart, Tracking, DropDeletesAll, PTL

-----------------------------------------------------------------------------
(* listdir.                                                                *)

(* The entries found so far are the first ones, and the offset is that of  *)
(* the next one, or of none.                                               *)
FirstEntries(l) ==
  /\ \A k \in 1 .. Len(l.files) : l.files[k] = k
  /\ IF l.offset \in DOMAIN Directory THEN Directory[l.offset].name = Len(l.files) + 1
     ELSE Len(l.files) = Cardinality(DOMAIN Directory)
ListInv ==
  /\ listing \in [Threads -> [offset : Nat, files : Seq(Nat)]]
  /\ op \in [Threads -> OpKinds]
  /\ \A t \in Threads : op[t] \in {"list", "listed"} =>
       /\ FirstEntries(listing[t])
       /\ op[t] = "listed" => listing[t].offset \notin DOMAIN Directory

(* listdir goes on where the last entry ended.                             *)
LEMMA ListStep == ListInv /\ [HandlesNext]_allVars => ListInv'
<1> SUFFICES ASSUME ListInv, [HandlesNext]_allVars PROVE ListInv'
  OBVIOUS
<1>0. /\ listing \in [Threads -> [offset : Nat, files : Seq(Nat)]]
      /\ op \in [Threads -> OpKinds]
      /\ NoListing \in [offset : Nat, files : Seq(Nat)]
  BY DEF ListInv, NoListing
<1>1. ASSUME NEW t \in Threads, NEW kind \in {"open", "use", "close"}, Request(t, kind)
      PROVE  ListInv'
  BY <1>1 DEF Request, ListInv, OpKinds
<1>2. ASSUME NEW t \in Threads, DropUnsent(t) \/ Returns(t) \/ Fails(t) PROVE ListInv'
  BY <1>2 DEF DropUnsent, Returns, Fails, FailsWith, ListInv, OpKinds
<1>3. ASSUME NEW t \in Threads, Listdir(t) PROVE ListInv'
  <2> DEFINE first == [offset |-> FirstOffset, files |-> <<>>]
  <2>1. first = [NoListing EXCEPT !.offset = FirstOffset]
    BY DEF NoListing
  <2>2. /\ first \in [offset : Nat, files : Seq(Nat)]
        /\ first.offset = FirstOffset /\ first.files = <<>>
    BY DEF FirstOffset
  <2>3. listing' = [listing EXCEPT ![t] = first] /\ op' = [op EXCEPT ![t] = "list"]
    BY <1>3, <2>1 DEF Listdir
  <2> HIDE DEF first
  <2>4. /\ listing' \in [Threads -> [offset : Nat, files : Seq(Nat)]]
        /\ op' \in [Threads -> OpKinds]
        /\ listing'[t] = first /\ op'[t] = "list"
        /\ \A u \in Threads : u # t => listing'[u] = listing[u] /\ op'[u] = op[u]
    BY <1>0, <2>2, <2>3 DEF OpKinds
  <2>5. Len(first.files) = 0 /\ \A k \in 1 .. Len(first.files) : first.files[k] = k
    BY <2>2
  <2>6. FirstEntries(first)
    BY <2>2, <2>5, DirectoryAssumption DEF FirstEntries
  <2> QED
    BY <2>4, <2>6 DEF ListInv
<1>4. ASSUME NEW t \in Threads, ListEntry(t) PROVE ListInv'
  <2> DEFINE e == Directory[listing[t].offset]
  <2> DEFINE new == [offset |-> e.next, files |-> Append(listing[t].files, e.name)]
  <2>1. /\ op[t] = "list" /\ listing[t].offset \in DOMAIN Directory
        /\ listing' = [listing EXCEPT ![t] = new]
        /\ UNCHANGED op
    BY <1>4 DEF ListEntry
  <2>2. /\ e.next \in Nat /\ e.name \in Nat
        /\ IF e.next \in DOMAIN Directory THEN Directory[e.next].name = e.name + 1
           ELSE e.name = Cardinality(DOMAIN Directory)
        /\ listing[t].files \in Seq(Nat) /\ listing[t] \in [offset : Nat, files : Seq(Nat)]
        /\ \A k \in 1 .. Len(listing[t].files) : listing[t].files[k] = k
        /\ e.name = Len(listing[t].files) + 1
    BY <1>0, <2>1, DirectoryAssumption, HandlesAssumption DEF ListInv, FirstEntries
  <2> HIDE DEF e
  <2>3. /\ new \in [offset : Nat, files : Seq(Nat)]
        /\ new.offset = e.next /\ new.files = Append(listing[t].files, e.name)
    BY <2>2
  <2> HIDE DEF new
  <2>4. listing'[t] = new /\ \A u \in Threads : u # t => listing'[u] = listing[u]
    BY <1>0, <2>1
  <2>5. listing' \in [Threads -> [offset : Nat, files : Seq(Nat)]]
    <3>1. DOMAIN listing' = Threads /\ listing' = [u \in Threads |-> listing'[u]]
      BY <1>0, <2>1
    <3> QED
      BY <1>0, <2>3, <2>4, <3>1
  <2>6. Len(new.files) = e.name /\ \A k \in 1 .. Len(new.files) : new.files[k] = k
    BY <2>2, <2>3
  <2>7. FirstEntries(new)
    BY <2>2, <2>3, <2>6 DEF FirstEntries
  <2> QED
    BY <1>0, <2>1, <2>4, <2>5, <2>7 DEF ListInv
<1>5. ASSUME NEW t \in Threads, ListEnds(t) PROVE ListInv'
  <2>1. PICK notFound \in BOOLEAN : ListReturns(t, notFound, notFound)
    BY <1>5 DEF ListEnds
  <2> QED
    BY <1>0, <2>1 DEF ListReturns, ListInv, OpKinds
<1>6. ASSUME NEW t \in Threads, ListUsed(t) PROVE ListInv'
  BY <1>0, <1>6 DEF ListUsed, ListInv, OpKinds
<1>7. CASE DeviceStep \/ UNCHANGED objectVars
  BY <1>7 DEF DeviceStep, objectVars, ListInv
<1> QED
  BY <1>1, <1>2, <1>3, <1>4, <1>5, <1>6, <1>7
     DEF HandlesNext, NotifStep, Open, Use, DropObject, allVars

(* listdir returns Ok only with every entry of the directory, in order,    *)
(* whatever fails on the way.                                              *)
THEOREM ListsAreWhole == HandlesSpec => []ListedWhole
<1>1. HandlesInit => ListInv
  BY DEF HandlesInit, ListInv, NoListing, OpKinds
<1>2. ListInv => ListedWhole
  <2> SUFFICES ASSUME ListInv, NEW t \in Threads, op[t] = "listed"
               PROVE  listing[t].files = WholeDirectory
    BY DEF ListedWhole
  <2> DEFINE files == listing[t].files
  <2>1. /\ files \in Seq(Nat) /\ Len(files) = Cardinality(DOMAIN Directory)
        /\ \A k \in 1 .. Len(files) : files[k] = k
    BY DEF ListInv, FirstEntries
  <2> HIDE DEF files
  <2>2. files = [k \in 1 .. Cardinality(DOMAIN Directory) |-> k]
    BY <2>1
  <2> QED
    BY <2>2 DEF files, WholeDirectory
<1> QED
  BY <1>1, <1>2, ListStep, PTL DEF HandlesSpec

-----------------------------------------------------------------------------
(* Handles are released.                                                   *)

(* A reply is one answer.                                                  *)
SingleReply == \A t \in Threads : \A g, h \in reply[t] : g = h

ReleaseIInv == ObjectsTyped /\ OwnershipInv /\ SingleReply /\ ReleaseInv

(* A set that gained at most one element counts at most one more.          *)
LEMMA AtMostOneMore ==
  ASSUME NEW S, IsFiniteSet(S), NEW x, NEW T, T \subseteq S \cup {x}
  PROVE  /\ IsFiniteSet(T)
         /\ Cardinality(T) \in Nat /\ Cardinality(S) \in Nat
         /\ Cardinality(T) <= Cardinality(S) + 1
<1>1. /\ IsFiniteSet(S \cup {x})
      /\ Cardinality(S \cup {x}) = IF x \in S THEN Cardinality(S) ELSE Cardinality(S) + 1
  BY FS_AddElement
<1>2. Cardinality(S) \in Nat
  BY FS_CardinalityType
<1>3. IsFiniteSet(T) /\ Cardinality(T) <= Cardinality(S \cup {x})
  BY <1>1, FS_Subset
<1>4. Cardinality(T) \in Nat
  BY <1>3, FS_CardinalityType
<1> QED
  BY <1>1, <1>2, <1>3, <1>4

(* A set that gained no element counts no more.                            *)
LEMMA NoMore ==
  ASSUME NEW S, IsFiniteSet(S), NEW T, T \subseteq S
  PROVE  /\ IsFiniteSet(T)
         /\ Cardinality(T) \in Nat /\ Cardinality(S) \in Nat
         /\ Cardinality(T) <= Cardinality(S)
<1>1. IsFiniteSet(T) /\ Cardinality(T) <= Cardinality(S)
  BY FS_Subset
<1> QED
  BY <1>1, FS_CardinalityType

(* Handles without an owner and opens on the way can be counted.           *)
LEMMA FiniteCounts ==
  ASSUME ObjectsTyped
  PROVE  /\ IsFiniteSet(Unclaimed) /\ Cardinality(Unclaimed) \in Nat
         /\ IsFiniteSet(OpensOnWay) /\ Cardinality(OpensOnWay) \in Nat
<1>1. IsFiniteSet(1 .. MaxOpen)
  BY MaxOpenType, FS_Interval
<1>2. Unclaimed \subseteq 1 .. MaxOpen
  BY DEF Unclaimed
<1>3. Len(requests) \in Nat /\ DOMAIN requests = 1 .. Len(requests)
  BY DEF ObjectsTyped
<1>4. IsFiniteSet(1 .. Len(requests))
  BY <1>3, FS_Interval
<1>5. OpensOnWay \subseteq 1 .. Len(requests)
  BY <1>3 DEF OpensOnWay
<1> QED
  BY <1>1, <1>2, <1>4, <1>5, NoMore

(* Taking a request from the front moves the others up.                    *)
LEMMA MovedUp ==
  ASSUME ObjectsTyped, requests # <<>>, requests' = Tail(requests)
  PROVE  Cardinality(OpensOnWay') =
           IF requests[1].op = "open" /\ ~requests[1].awaited
           THEN Cardinality(OpensOnWay) - 1 ELSE Cardinality(OpensOnWay)
<1> DEFINE Behind == OpensOnWay \ {1}
<1> DEFINE Ahead == OpensOnWay'
<1> DEFINE f == [k \in Ahead |-> k + 1]
<1>1. /\ requests \in Seq(RequestType) /\ Len(requests) \in Nat /\ Len(requests) # 0
      /\ DOMAIN requests = 1 .. Len(requests)
  BY DEF ObjectsTyped
<1>2. /\ DOMAIN requests' = 1 .. Len(requests) - 1
      /\ \A k \in 1 .. Len(requests) - 1 : requests'[k] = requests[k + 1]
  BY <1>1
<1>3. Ahead = {k \in 1 .. Len(requests) - 1 :
                 requests[k + 1].op = "open" /\ ~requests[k + 1].awaited}
  BY <1>2 DEF OpensOnWay
<1>4. Behind = {k \in 2 .. Len(requests) : requests[k].op = "open" /\ ~requests[k].awaited}
  BY <1>1 DEF OpensOnWay
<1> HIDE DEF Ahead, Behind
<1>5. f \in Bijection(Ahead, Behind)
  <2>1. \A k \in Ahead : k \in Nat /\ f[k] = k + 1 /\ k + 1 \in Behind
    BY <1>1, <1>3, <1>4
  <2>2. f \in [Ahead -> Behind]
    BY <2>1
  <2>3. \A j, k \in Ahead : f[j] = f[k] => j = k
    BY <2>1
  <2>4. ASSUME NEW n \in Behind PROVE \E k \in Ahead : f[k] = n
    <3>1. n - 1 \in Ahead /\ n \in Nat
      BY <1>1, <1>3, <1>4
    <3>2. f[n - 1] = n
      BY <3>1
    <3> QED
      BY <3>1, <3>2
  <2> HIDE DEF f
  <2> QED
    BY <2>2, <2>3, <2>4 DEF Bijection, Injection, Surjection, IsInjective
<1>6. IsFiniteSet(OpensOnWay)
  BY FiniteCounts
<1>7. /\ IsFiniteSet(Behind)
      /\ Cardinality(Behind) = IF 1 \in OpensOnWay THEN Cardinality(OpensOnWay) - 1
                               ELSE Cardinality(OpensOnWay)
  BY <1>6, FS_RemoveElement DEF Behind
<1>8. Cardinality(Ahead) = Cardinality(Behind)
  <2>1. ExistsBijection(Ahead, Behind)
    BY <1>5 DEF ExistsBijection
  <2>2. IsFiniteSet(Ahead)
    <3>1. f \in Injection(Ahead, Behind)
      BY <1>5 DEF Bijection
    <3> HIDE DEF f
    <3> QED
      BY <1>7, <3>1, FS_Injection
  <2> QED
    BY <2>1, <2>2, FS_Bijection
<1>9. 1 \in OpensOnWay <=> requests[1].op = "open" /\ ~requests[1].awaited
  BY <1>1 DEF OpensOnWay
<1> QED
  BY <1>7, <1>8, <1>9 DEF Ahead

(* A thread waits for one reply at a time.                                 *)
LEMMA SingleReplyStep == ObjectsTyped /\ SingleReply /\ [HandlesNext]_allVars => SingleReply'
<1> SUFFICES ASSUME ObjectsTyped, SingleReply, [HandlesNext]_allVars PROVE SingleReply'
  OBVIOUS
<1>1. CASE UNCHANGED reply
  BY <1>1 DEF SingleReply
<1>2. ASSUME NEW t \in Threads, reply' = [reply EXCEPT ![t] = {}] PROVE SingleReply'
  BY <1>2 DEF SingleReply, ObjectsTyped
<1>3. ASSUME NEW t \in Threads, NEW h, reply' = [reply EXCEPT ![t] = {h}] PROVE SingleReply'
  BY <1>3 DEF SingleReply, ObjectsTyped
<1>4. CASE DeviceStep
  <2>1. Head(requests) \in RequestType
    BY <1>4, TakenFacts DEF DeviceStep
  <2>2. \E h : reply' = IF Head(requests).awaited
                        THEN [reply EXCEPT ![Head(requests).by] = {h}] ELSE reply
    BY <1>4 DEF DeviceStep, Executes
  <2> QED
    BY <1>1, <1>3, <2>1, <2>2 DEF RequestType
<1> QED
  BY <1>1, <1>2, <1>4
     DEF HandlesNext, NotifStep, allVars, objectVars, Open, Use, DropObject, DropUnsent, Request,
         Returns, Fails, FailsWith, Listdir, ListEntry, ListEnds, ListReturns, ListUsed

(* Only a call that fails leaves a handle without an owner.                *)
LEMMA ReleaseStep == ReleaseIInv /\ [HandlesNext]_allVars => ReleaseInv'
<1> SUFFICES ASSUME ReleaseIInv, [HandlesNext]_allVars PROVE ReleaseInv'
  OBVIOUS
<1> USE MaxOpenType
<1> DEFINE Dropped == cstate # "live" => \A t \in Threads : handle[t] = 0 /\ op[t] = "none"
<1>0. /\ handle \in [Threads -> 0 .. MaxOpen]
      /\ op \in [Threads -> OpKinds]
      /\ reply \in [Threads -> SUBSET Answers]
      /\ owner \in [1 .. MaxOpen -> Threads \cup {Free}]
      /\ failed \in Nat
      /\ \A k \in DOMAIN requests : requests[k] \in RequestType
      /\ ObjectsTyped /\ OwnershipInv /\ SingleReply /\ Dropped
      /\ Cardinality(Unclaimed) + Cardinality(OpensOnWay) <= failed
  BY DEF ReleaseIInv, ReleaseInv, ObjectsTyped
<1>a. /\ IsFiniteSet(Unclaimed) /\ Cardinality(Unclaimed) \in Nat
      /\ IsFiniteSet(OpensOnWay) /\ Cardinality(OpensOnWay) \in Nat
  BY <1>0, FiniteCounts
(* Nothing is given up and no request is taken.                            *)
<1>b. ASSUME Unclaimed' \subseteq Unclaimed, OpensOnWay' \subseteq OpensOnWay,
             failed' = failed, Dropped'
      PROVE  ReleaseInv'
  <2>1. /\ Cardinality(Unclaimed') <= Cardinality(Unclaimed) /\ Cardinality(Unclaimed') \in Nat
        /\ Cardinality(OpensOnWay') <= Cardinality(OpensOnWay) /\ Cardinality(OpensOnWay') \in Nat
    BY <1>a, <1>b, NoMore
  <2>2. Cardinality(Unclaimed') + Cardinality(OpensOnWay') <= failed'
    BY <1>0, <1>a, <1>b, <2>1
  <2> QED
    BY <1>b, <2>2 DEF ReleaseInv
(* A call ends in Err and leaves one handle at most.                       *)
<1>c. ASSUME NEW x, Unclaimed' \subseteq Unclaimed \cup {x}, OpensOnWay' \subseteq OpensOnWay,
             failed' = failed + 1, Dropped'
      PROVE  ReleaseInv'
  <2>1. /\ Cardinality(Unclaimed') \in Nat
        /\ Cardinality(Unclaimed') <= Cardinality(Unclaimed) + 1
    BY <1>a, <1>c, AtMostOneMore
  <2>2. /\ Cardinality(OpensOnWay') \in Nat
        /\ Cardinality(OpensOnWay') <= Cardinality(OpensOnWay)
    BY <1>a, <1>c, NoMore
  <2>3. Cardinality(Unclaimed') + Cardinality(OpensOnWay') <= failed'
    BY <1>0, <1>a, <1>c, <2>1, <2>2
  <2> QED
    BY <1>c, <2>3 DEF ReleaseInv
<1>1. ASSUME NEW t \in Threads, NEW kind \in {"open", "use", "close"}, Request(t, kind)
      PROVE  ReleaseInv'
  <2>1. /\ op[t] = "none" /\ cstate = "live" /\ cstate' = cstate
        /\ \A u \in Threads : u # t => op'[u] = op[u]
        /\ UNCHANGED <<handle, reply, owner, failed>>
    BY <1>0, <1>1 DEF Request, Idle, notifVars, vars
  <2>2. reply[t] = {}
    BY <1>0, <2>1 DEF OwnershipInv
  <2>3. Unclaimed' \subseteq Unclaimed
    BY <2>1, <2>2 DEF Unclaimed, Holds
  <2>4. OpensOnWay' \subseteq OpensOnWay
    <3> DEFINE r == [op |-> kind, by |-> t, handle |-> handle[t], awaited |-> TRUE]
    <3>1. /\ DOMAIN requests' = DOMAIN requests \cup {Len(requests) + 1}
          /\ \A k \in DOMAIN requests : requests'[k] = requests[k]
          /\ requests'[Len(requests) + 1] = r
      BY <1>0, <1>1, RequestFacts
    <3>2. r.awaited
      OBVIOUS
    <3> HIDE DEF r
    <3> QED
      BY <3>1, <3>2 DEF OpensOnWay
  <2> QED
    BY <1>b, <2>1, <2>3, <2>4
<1>2. ASSUME NEW t \in Threads, Returns(t) PROVE ReleaseInv'
  <2>1. PICK h \in reply[t] :
          /\ op[t] \in {"open", "use", "close"} /\ h \in Answers
          /\ op'[t] = "none" /\ reply'[t] = {}
          /\ op[t] = "open" => handle'[t] = IF h = Refused THEN 0 ELSE h
          /\ op[t] = "use" => handle'[t] = handle[t]
          /\ op[t] = "close" => handle'[t] = 0
          /\ failed' = IF op[t] = "close" /\ h = Refused THEN failed + 1 ELSE failed
          /\ \A u \in Threads : u # t => op'[u] = op[u] /\ reply'[u] = reply[u]
                                          /\ handle'[u] = handle[u]
          /\ UNCHANGED <<requests, owner, cstate>>
    BY <1>0, <1>2, Returned
  <2>2. /\ reply[t] = {h}
        /\ op[t] = "open" => handle[t] = 0
        /\ op[t] # "open" => h \in {0, Refused}
    BY <1>0, <2>1 DEF SingleReply, OwnershipInv
  <2>3. ASSUME NEW u \in Threads, NEW g \in 1 .. MaxOpen, Holds(u, g), ~Holds(u, g)'
        PROVE  op[t] = "close" /\ h = Refused /\ g = handle[t]
    BY <2>1, <2>2, <2>3 DEF Holds
  <2>4. OpensOnWay' \subseteq OpensOnWay
    BY <2>1 DEF OpensOnWay
  <2>5. Dropped'
    BY <1>0, <2>1
  <2>6. CASE op[t] = "close" /\ h = Refused
    <3>1. Unclaimed' \subseteq Unclaimed \cup {handle[t]}
      BY <2>1, <2>3 DEF Unclaimed
    <3> QED
      BY <1>c, <2>1, <2>4, <2>5, <2>6, <3>1
  <2>7. CASE ~(op[t] = "close" /\ h = Refused)
    <3>1. Unclaimed' \subseteq Unclaimed
      BY <2>1, <2>3, <2>7 DEF Unclaimed
    <3> QED
      BY <1>b, <2>1, <2>4, <2>5, <2>7, <3>1
  <2> QED
    BY <2>6, <2>7
<1>7. ASSUME NEW t \in Threads, DropUnsent(t) PROVE ReleaseInv'
  <2>1. /\ cstate = "live" /\ failed' = failed + 1
        /\ \A u \in Threads : u # t => handle'[u] = handle[u]
        /\ UNCHANGED <<op, reply, requests, owner, cstate>>
    BY <1>0, <1>7, Unsent
  <2>2. ASSUME NEW u \in Threads, NEW g \in 1 .. MaxOpen, Holds(u, g), ~Holds(u, g)'
        PROVE  g = handle[t]
    BY <2>1, <2>2 DEF Holds
  <2>3. Unclaimed' \subseteq Unclaimed \cup {handle[t]}
    BY <2>1, <2>2 DEF Unclaimed
  <2>4. OpensOnWay' \subseteq OpensOnWay
    BY <2>1 DEF OpensOnWay
  <2> QED
    BY <1>c, <2>1, <2>3, <2>4
<1>3. ASSUME NEW t \in Threads, Fails(t) PROVE ReleaseInv'
  <2>1. /\ op[t] \in {"open", "use", "close"}
        /\ op'[t] = "none" /\ reply'[t] = {}
        /\ handle'[t] = IF op[t] = "use" THEN handle[t] ELSE 0
        /\ failed' = IF op[t] = "use" THEN failed ELSE failed + 1
        /\ \A u \in Threads : u # t => op'[u] = op[u] /\ reply'[u] = reply[u]
                                        /\ handle'[u] = handle[u]
        /\ UNCHANGED <<owner, cstate>>
        /\ requests' = Abandoned(t)
    BY <1>0, <1>3 DEF Fails, FailsWith, Abandoned, notifVars, vars
  <2>2. /\ DOMAIN requests' = DOMAIN requests
        /\ \A k \in DOMAIN requests :
             /\ requests'[k].op = requests[k].op
             /\ requests'[k].awaited <=> requests[k].awaited /\ requests[k].by # t
    BY <1>0, <2>1, AbandonedFacts
  <2>3. Dropped'
    BY <1>0, <2>1
  <2>4. \A k \in DOMAIN requests :
          requests[k].awaited /\ requests[k].by = t => requests[k].op = op[t] /\ reply[t] = {}
    BY <1>0 DEF OwnershipInv, OwnedRequest
  <2>5. CASE op[t] = "use"
    <3>1. reply[t] \subseteq {0, Refused}
      BY <1>0, <2>5 DEF OwnershipInv
    <3>2. ASSUME NEW u \in Threads, NEW g \in 1 .. MaxOpen, Holds(u, g)
          PROVE  Holds(u, g)'
      BY <2>1, <2>5, <3>1, <3>2 DEF Holds
    <3>3. Unclaimed' \subseteq Unclaimed
      BY <2>1, <3>2 DEF Unclaimed
    <3>4. OpensOnWay' \subseteq OpensOnWay
      BY <2>2, <2>4, <2>5 DEF OpensOnWay
    <3> QED
      BY <1>b, <2>1, <2>3, <2>5, <3>3, <3>4
  <2>7. CASE op[t] = "close"
    <3>1. reply[t] \subseteq {0, Refused}
      BY <1>0, <2>7 DEF OwnershipInv
    <3>2. ASSUME NEW u \in Threads, NEW g \in 1 .. MaxOpen, Holds(u, g), ~Holds(u, g)'
          PROVE  g = handle[t]
      BY <2>1, <3>1, <3>2 DEF Holds
    <3>3. Unclaimed' \subseteq Unclaimed \cup {handle[t]}
      BY <2>1, <3>2 DEF Unclaimed
    <3>4. OpensOnWay' \subseteq OpensOnWay
      BY <2>2, <2>4, <2>7 DEF OpensOnWay
    <3> QED
      BY <1>c, <2>1, <2>3, <2>7, <3>3, <3>4
  <2>8. CASE op[t] = "open" /\ reply[t] # {}
    <3>1. PICK h : reply[t] = {h}
      <4>1. PICK h \in reply[t] : TRUE
        BY <2>8
      <4>2. reply[t] = {h}
        BY <1>0, <4>1 DEF SingleReply
      <4> QED
        BY <4>2
    <3>2. handle[t] = 0
      BY <1>0, <2>8 DEF OwnershipInv
    <3>3. ASSUME NEW u \in Threads, NEW g \in 1 .. MaxOpen, Holds(u, g), ~Holds(u, g)'
          PROVE  g = h
      BY <2>1, <3>1, <3>2, <3>3 DEF Holds
    <3>4. Unclaimed' \subseteq Unclaimed \cup {h}
      BY <2>1, <3>3 DEF Unclaimed
    <3>5. OpensOnWay' \subseteq OpensOnWay
      BY <2>2, <2>4, <2>8 DEF OpensOnWay
    <3> QED
      BY <1>c, <2>1, <2>3, <2>8, <3>4, <3>5
  <2>9. CASE op[t] = "open" /\ reply[t] = {}
    <3>1. handle[t] = 0
      BY <1>0, <2>9 DEF OwnershipInv
    <3>2. ASSUME NEW u \in Threads, NEW g \in 1 .. MaxOpen, Holds(u, g)
          PROVE  Holds(u, g)'
      BY <2>1, <2>9, <3>1, <3>2 DEF Holds
    <3>3. Unclaimed' \subseteq Unclaimed
      BY <2>1, <3>2 DEF Unclaimed
    <3>4. \E x : OpensOnWay' \subseteq OpensOnWay \cup {x}
      <4>1. \A j, k \in DOMAIN requests :
              /\ requests[j].awaited /\ requests[j].by = t
              /\ requests[k].awaited /\ requests[k].by = t
              => j = k
        BY <1>0 DEF OwnershipInv, Compatible
      <4> QED
        BY <2>2, <4>1 DEF OpensOnWay
    <3>5. PICK x : OpensOnWay' \subseteq OpensOnWay \cup {x}
      BY <3>4
    <3>6. /\ Cardinality(OpensOnWay') \in Nat
          /\ Cardinality(OpensOnWay') <= Cardinality(OpensOnWay) + 1
      BY <1>a, <3>5, AtMostOneMore
    <3>7. /\ Cardinality(Unclaimed') \in Nat
          /\ Cardinality(Unclaimed') <= Cardinality(Unclaimed)
      BY <1>a, <3>3, NoMore
    <3>8. Cardinality(Unclaimed') + Cardinality(OpensOnWay') <= failed'
      BY <1>0, <1>a, <2>1, <2>9, <3>6, <3>7
    <3> QED
      BY <2>3, <3>8 DEF ReleaseInv
  <2> QED
    BY <2>1, <2>5, <2>7, <2>8, <2>9
<1>4. ASSUME NEW t \in Threads, Listdir(t) \/ ListEntry(t) \/ ListEnds(t) \/ ListUsed(t)
      PROVE  ReleaseInv'
  <2>1. /\ op[t] \in {"none", "list", "listed"} /\ op'[t] \in {"none", "list", "listed"}
        /\ \A u \in Threads : u # t => op'[u] = op[u]
        /\ UNCHANGED <<handle, reply, requests, owner, failed, cstate>>
        /\ op[t] = "none" => cstate = "live"
    BY <1>0, <1>4
       DEF Listdir, ListEntry, ListEnds, ListReturns, ListUsed, Idle, notifVars, vars
  <2>2. Unclaimed' \subseteq Unclaimed
    BY <2>1 DEF Unclaimed, Holds
  <2>3. OpensOnWay' \subseteq OpensOnWay
    BY <2>1 DEF OpensOnWay
  <2>4. Dropped'
    BY <1>0, <2>1
  <2> QED
    BY <1>b, <2>1, <2>2, <2>3, <2>4
<1>5. CASE DeviceStep
  <2> DEFINE r == Head(requests)
  <2>1. PICK h \in Outcomes(r) : Executes(r, h)
    BY <1>5 DEF DeviceStep
  <2>2. /\ r \in RequestType /\ r = requests[1] /\ OwnedRequest(r)
        /\ requests # <<>> /\ requests' = Tail(requests)
        /\ UNCHANGED <<handle, op, failed, cstate>>
    BY <1>0, <1>5, TakenFacts DEF DeviceStep, OwnershipInv, notifVars, vars
  <2> HIDE DEF r
  <2>3. /\ h = Refused => owner' = owner
        /\ h # Refused /\ r.op = "open" => h \in 1 .. MaxOpen /\ owner' = [owner EXCEPT ![h] = r.by]
        /\ h # Refused /\ r.op = "close" => h = 0 /\ owner' = [owner EXCEPT ![r.handle] = Free]
        /\ h # Refused /\ r.op = "use" => h = 0 /\ owner' = owner
        /\ reply' = IF r.awaited THEN [reply EXCEPT ![r.by] = {h}] ELSE reply
        /\ h \in Answers
        /\ r.op # "open" => h \in {0, Refused}
    BY <1>0, <2>1, <2>2, Executed
  <2>4. /\ r.by \in Threads /\ r.handle \in 0 .. MaxOpen /\ r.awaited \in BOOLEAN
        /\ r.op \in {"open", "use", "close"}
        /\ r.awaited => op[r.by] = r.op /\ reply[r.by] = {}
        /\ r.op = "close" => r.handle \in 1 .. MaxOpen
        /\ r.op = "close" /\ r.awaited => handle[r.by] = r.handle
    BY <2>2 DEF RequestType, OwnedRequest
  <2>5. Dropped'
    BY <1>0, <2>2
  <2>6. ASSUME NEW u \in Threads, NEW g \in 1 .. MaxOpen, Holds(u, g), ~Holds(u, g)'
        PROVE  h # Refused /\ r.op = "close" /\ g = r.handle
    BY <1>0, <2>2, <2>3, <2>4, <2>6 DEF Holds
  <2>7. /\ Cardinality(OpensOnWay') =
             IF r.op = "open" /\ ~r.awaited THEN Cardinality(OpensOnWay) - 1
             ELSE Cardinality(OpensOnWay)
    BY <1>0, <2>2, MovedUp
  <2>8. CASE r.op = "open" /\ ~r.awaited
    <3>1. Unclaimed' \subseteq Unclaimed \cup {h}
      BY <1>0, <2>3, <2>4, <2>6, <2>8 DEF Unclaimed
    <3>2. /\ Cardinality(Unclaimed') \in Nat
          /\ Cardinality(Unclaimed') <= Cardinality(Unclaimed) + 1
      BY <1>a, <3>1, AtMostOneMore
    <3>3. Cardinality(Unclaimed') + Cardinality(OpensOnWay') <= failed'
      BY <1>0, <1>a, <2>2, <2>7, <2>8, <3>2
    <3> QED
      BY <2>5, <3>3 DEF ReleaseInv
  <2>9. CASE ~(r.op = "open" /\ ~r.awaited)
    <3>1. Unclaimed' \subseteq Unclaimed
      <4> SUFFICES ASSUME NEW g \in Unclaimed' PROVE g \in Unclaimed
        OBVIOUS
      <4>1. g \in 1 .. MaxOpen /\ owner'[g] # Free /\ \A u \in Threads : ~Holds(u, g)'
        BY DEF Unclaimed
      <4>2. ~(h # Refused /\ r.op = "close" /\ g = r.handle)
        BY <1>0, <2>3, <4>1
      <4>3. \A u \in Threads : ~Holds(u, g)
        BY <2>6, <4>1, <4>2
      <4>4. ~(r.op = "open" /\ g = h)
        <5>1. SUFFICES ASSUME r.op = "open", g = h, NEW u \in Threads, u = r.by PROVE FALSE
          BY <2>4
        <5>2. g \in reply'[u]
          BY <1>0, <2>3, <2>4, <2>9, <5>1
        <5> QED
          BY <4>1, <5>2 DEF Holds
      <4>5. owner[g] # Free
        BY <1>0, <2>3, <2>4, <4>1, <4>4
      <4> QED
        BY <4>1, <4>3, <4>5 DEF Unclaimed
    <3>2. /\ Cardinality(Unclaimed') \in Nat
          /\ Cardinality(Unclaimed') <= Cardinality(Unclaimed)
      BY <1>a, <3>1, NoMore
    <3>3. Cardinality(Unclaimed') + Cardinality(OpensOnWay') <= failed'
      BY <1>0, <1>a, <2>2, <2>7, <2>9, <3>2
    <3> QED
      BY <2>5, <3>3 DEF ReleaseInv
  <2> QED
    BY <2>8, <2>9
<1>6. CASE NotifStep \/ UNCHANGED allVars
  <2>1. UNCHANGED <<handle, op, reply, requests, owner, failed>>
    BY <1>6 DEF NotifStep, allVars, objectVars
  <2>2. Unclaimed' \subseteq Unclaimed /\ OpensOnWay' \subseteq OpensOnWay
    BY <2>1 DEF Unclaimed, OpensOnWay, Holds
  <2>3. Dropped'
    <3>1. cstate' # cstate => \A t \in Threads : handle[t] = 0 /\ op[t] = "none"
      BY <1>6 DEF NotifStep, allVars, notifVars, vars
    <3> QED
      BY <1>0, <2>1, <3>1
  <2> QED
    BY <1>b, <2>1, <2>2, <2>3
<1> QED
  BY <1>1, <1>2, <1>3, <1>4, <1>5, <1>6, <1>7 DEF HandlesNext, Open, Use, DropObject

(* A handle of the device that no File or Handle accounts for, now or once *)
(* an abandoned open is executed, is there because a call ended in Err,    *)
(* and each such call leaves one at most: the inductive invariant.         *)
THEOREM Releases == HandlesSpec => []ReleaseInv
<1>1. HandlesInit => ReleaseIInv
  <2> SUFFICES ASSUME HandlesInit PROVE ReleaseInv /\ SingleReply
    BY ObjectsInit, OwnershipInit DEF ReleaseIInv
  <2>1. Unclaimed = {} /\ OpensOnWay = {}
    <3>1. DOMAIN requests = {}
      BY DEF HandlesInit
    <3> QED
      BY <3>1 DEF HandlesInit, Unclaimed, OpensOnWay
  <2>2. Cardinality(Unclaimed) + Cardinality(OpensOnWay) <= failed
    BY <2>1, FS_EmptySet DEF HandlesInit
  <2> QED
    BY <2>2 DEF HandlesInit, Init, ReleaseInv, SingleReply
<1>2. ReleaseIInv /\ [HandlesNext]_allVars => ReleaseIInv'
  BY ObjectsStep, OwnershipStep, SingleReplyStep, ReleaseStep DEF ReleaseIInv
<1>3. ReleaseIInv => ReleaseInv
  BY DEF ReleaseIInv
<1> QED
  BY <1>1, <1>2, <1>3, PTL DEF HandlesSpec

(* When the Client is gone and the device is through with its requests, it *)
(* has no handle open beyond one for each open or close that ended in Err. *)
THEOREM AllReleased == HandlesSpec => []ObjectsReleased
<1>1. OwnershipInv /\ ReleaseInv => ObjectsReleased
  <2> SUFFICES ASSUME OwnershipInv, ReleaseInv, cstate = "gone", requests = <<>>
               PROVE  Cardinality({h \in 1 .. MaxOpen : owner[h] # Free}) <= failed
    BY DEF ObjectsReleased
  <2>1. \A t \in Threads : handle[t] = 0 /\ op[t] = "none" /\ reply[t] = {}
    BY DEF OwnershipInv, ReleaseInv
  <2>2. Unclaimed = {h \in 1 .. MaxOpen : owner[h] # Free}
    BY <2>1, MaxOpenType DEF Unclaimed, Holds
  <2>3. OpensOnWay = {} /\ Cardinality({}) = 0
    BY FS_EmptySet DEF OpensOnWay
  <2>4. Cardinality(Unclaimed) \in Nat
    <3>1. IsFiniteSet(1 .. MaxOpen)
      BY MaxOpenType, FS_Interval
    <3> QED
      BY <3>1, NoMore DEF Unclaimed
  <2> QED
    BY <2>2, <2>3, <2>4 DEF ReleaseInv
<1> QED
  BY Ownership, Releases, <1>1, PTL
=============================================================================

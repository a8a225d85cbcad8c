----------------------------- MODULE NotifHandles ----------------------------
(***************************************************************************)
(* The notification handles of a Client (src/src/client.rs).  Threads add  *)
(* and delete notifications on a device, one or several per request; the   *)
(* handles the device returned are kept in Client.notif_handles so that    *)
(* Drop can delete what is left.  The request and the update of the set    *)
(* are separate steps: the set's lock is not held across communicate, and  *)
(* the multi variants take it once per handle.                             *)
(***************************************************************************)
EXTENDS Naturals, FiniteSets

CONSTANTS
  Threads,      \* threads sharing the Client
  MaxHandle,    \* bound: handles the device gives out, 1 .. MaxHandle
  MaxBatch,     \* bound: notifications in one request
  Reuse,        \* the device gives out the handle of a deleted one again
  Lossy         \* a request may end in Err (timeout, write error, ADS error)

ASSUME ConstantsAssumption ==
  /\ MaxHandle \in Nat
  /\ MaxBatch \in Nat \ {0}
  /\ Reuse \in BOOLEAN
  /\ Lossy \in BOOLEAN

VARIABLES
  pc,          \* where a thread is inside add_/delete_notification(_multi)
  arg,         \* handles a delete names; for an add, the number asked for
  res,         \* handles the device reported success for, not yet recorded
  known,       \* handles returned to the user, who may delete them
  notif_handles,  \* Client.notif_handles
  cstate,      \* the Client: live, being dropped, gone
  todo,        \* what Drop took out of the set and has not deleted yet
  registered,  \* notifications that exist on the device
  next,        \* the handle the device gives out next
  lost         \* ghost: handles of requests that ended in Err

threadVars == <<pc, arg, res>>
deviceVars == <<registered, next>>
vars == <<threadVars, known, notif_handles, cstate, todo, deviceVars, lost>>

Handles == 1 .. MaxHandle

Init ==
  /\ pc = [t \in Threads |-> "idle"]
  /\ arg = [t \in Threads |-> {}]
  /\ res = [t \in Threads |-> {}]
  /\ known = {}
  /\ notif_handles = {}
  /\ cstate = "live"
  /\ todo = {}
  /\ registered = {}
  /\ next = 1
  /\ lost = {}

Goto(t, to, newArg, newRes) ==
  /\ pc' = [pc EXCEPT ![t] = to]
  /\ arg' = [arg EXCEPT ![t] = newArg]
  /\ res' = [res EXCEPT ![t] = newRes]

-----------------------------------------------------------------------------
(* add_notification and add_notification_multi.                            *)

CallAdd(t) ==
  /\ cstate = "live"
  /\ pc[t] = "idle"
  /\ \E n \in 1 .. MaxBatch : Goto(t, "adding", 1 .. n, {})
  /\ UNCHANGED <<known, notif_handles, cstate, todo, deviceVars, lost>>

(* The device's part, not in this crate: it refuses any of the             *)
(* notifications asked for, and gives out handles not in use for the rest. *)
FreshHandles ==
  IF Reuse THEN {H \in SUBSET Handles : H \cap registered = {}}
  ELSE {next .. n : n \in (next - 1) .. MaxHandle}
DeviceAdds(t) ==
  /\ pc[t] = "adding"
  /\ \E H \in FreshHandles :
       /\ Cardinality(H) <= Cardinality(arg[t])
       /\ registered' = registered \cup H
       /\ next' \in IF Reuse THEN {next}
                    ELSE {n \in next .. MaxHandle + 1 : H = next .. n - 1}
       /\ Goto(t, "added", {}, H)
  /\ UNCHANGED <<known, notif_handles, cstate, todo, lost>>

(* The handles of the successful ones are inserted one by one.             *)
InsertIf(t, tracked) ==
  /\ pc[t] = "inserting"
  /\ \E h \in res[t] :
       /\ notif_handles' = IF tracked THEN notif_handles \cup {h} ELSE notif_handles
       /\ known' = known \cup {h}
       /\ Goto(t, "inserting", {}, res[t] \ {h})
  /\ UNCHANGED <<cstate, todo, deviceVars, lost>>

(* Mutant: only the last handle of a batch is recorded.                    *)
InsertLast(t) == InsertIf(t, Cardinality(res[t]) = 1)

Insert(t) == InsertIf(t, TRUE)

-----------------------------------------------------------------------------
(* delete_notification and delete_notification_multi.                      *)

(* The user deletes a handle once, or again if that ended in Err.  A       *)
(* single delete fails as a whole, a batch handle by handle.               *)
CallDelete(t) ==
  /\ cstate = "live"
  /\ pc[t] = "idle"
  /\ \E H \in SUBSET known :
       /\ Cardinality(H) \in 1 .. MaxBatch
       /\ Goto(t, "deleting", H, {})
       /\ known' = known \ H
  /\ UNCHANGED <<notif_handles, cstate, todo, deviceVars, lost>>

(* The device reports an error for those that do not exist and those it    *)
(* refuses to delete.                                                      *)
DeviceDeletes(t) ==
  /\ pc[t] = "deleting"
  /\ \E H \in SUBSET (arg[t] \cap registered) :
       /\ registered' = registered \ H
       /\ Goto(t, "deleted", arg[t], H)
  /\ UNCHANGED <<known, notif_handles, cstate, todo, next, lost>>

(* The handles of the successful ones are removed one by one.              *)
Remove(t) ==
  /\ pc[t] = "removing"
  /\ \E h \in res[t] :
       /\ notif_handles' = notif_handles \ {h}
       /\ Goto(t, "removing", {}, res[t] \ {h})
  /\ UNCHANGED <<known, cstate, todo, deviceVars, lost>>

-----------------------------------------------------------------------------
(* How communicate and the calls end.                                      *)

(* The reply arrives; the results of the batch are looked at.              *)
ReplyArrives(t) ==
  /\ \/ pc[t] = "added" /\ Goto(t, "inserting", {}, res[t])
     \/ pc[t] = "deleted" /\ Goto(t, "removing", {}, res[t])
  /\ known' = known \cup (arg[t] \ res[t])
  /\ UNCHANGED <<notif_handles, cstate, todo, deviceVars, lost>>

(* communicate returns Err, the device having seen the request or not: `?` *)
(* leaves the set alone.                                                   *)
CommunicateFails(t) ==
  /\ Lossy
  /\ pc[t] \in {"adding", "added", "deleting", "deleted"}
  /\ lost' = IF pc[t] = "added" THEN lost \cup res[t] ELSE lost
  /\ known' = IF pc[t] \in {"deleting", "deleted"} THEN known \cup arg[t] ELSE known
  /\ Goto(t, "idle", {}, {})
  /\ UNCHANGED <<notif_handles, cstate, todo, deviceVars>>

(* All handles of the batch are recorded; the call returns.                *)
Return(t) ==
  /\ pc[t] \in {"inserting", "removing"}
  /\ res[t] = {}
  /\ Goto(t, "idle", {}, {})
  /\ UNCHANGED <<known, notif_handles, cstate, todo, deviceVars, lost>>

-----------------------------------------------------------------------------
(* Drop for Client; no call is in progress.                                *)

DropTakes(handles) ==
  /\ cstate = "live"
  /\ \A t \in Threads : pc[t] = "idle"
  /\ cstate' = "dropping"
  /\ todo' = handles
  /\ notif_handles' = {}
  /\ UNCHANGED <<threadVars, known, deviceVars, lost>>

(* Mutant: only handles nobody else still holds are taken for open ones.   *)
DropBeginPartial == DropTakes(notif_handles \ known)

(* `std::mem::take(handles)`.                                              *)
DropBegin == DropTakes(notif_handles)

(* One delete_notification; its result is ignored.                         *)
DropDeletes ==
  /\ cstate = "dropping"
  /\ \E h \in todo :
       /\ todo' = todo \ {h}
       /\ \/ /\ registered' = registered \ {h}
             /\ UNCHANGED lost
          \/ /\ Lossy
             /\ lost' = lost \cup {h}
             /\ UNCHANGED registered
  /\ UNCHANGED <<threadVars, known, notif_handles, cstate, next>>

DropEnd ==
  /\ cstate = "dropping"
  /\ todo = {}
  /\ cstate' = "gone"
  /\ UNCHANGED <<threadVars, known, notif_handles, todo, deviceVars, lost>>

-----------------------------------------------------------------------------

Terminated == cstate = "gone" /\ UNCHANGED vars

Next ==
  \/ \E t \in Threads :
       \/ CallAdd(t) \/ DeviceAdds(t) \/ Insert(t)
       \/ CallDelete(t) \/ DeviceDeletes(t) \/ Remove(t)
       \/ ReplyArrives(t) \/ CommunicateFails(t) \/ Return(t)
  \/ DropBegin
  \/ DropDeletes
  \/ DropEnd
  \/ Terminated

Spec == Init /\ [][Next]_vars

-----------------------------------------------------------------------------
(* Properties.                                                             *)

(* "If the notification is not deleted explicitly [...] it is deleted when *)
(* the Client object is dropped": once the Client is gone, the device has  *)
(* no notification left, except those whose add or delete ended in Err.    *)
DroppedMeansDeleted == cstate = "gone" => registered \subseteq lost

(* Why, when handles are not reused: what the device has is in the set, on *)
(* its way into it, or in the hands of Drop; and a thread about to take a  *)
(* handle out of the set is the last to know of it.                        *)
InFlight(h) == \E t \in Threads : pc[t] \in {"added", "inserting"} /\ h \in res[t]
TrackingInv ==
  /\ \A h \in registered : h \in notif_handles \cup todo \cup lost \/ InFlight(h)
  /\ \A t \in Threads, h \in registered :
       pc[t] \in {"deleted", "removing"} => h \notin res[t]
  /\ \A t \in Threads : \A h \in res[t] : h < next
  /\ \A h \in registered : h < next
  /\ cstate # "live" => \A t \in Threads : pc[t] = "idle"
  /\ cstate # "live" => notif_handles = {}
  /\ cstate # "dropping" => todo = {}
=============================================================================

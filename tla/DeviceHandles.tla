---------------------------- MODULE DeviceHandles ----------------------------
(***************************************************************************)
(* What threads keep on a device through one Client: notifications         *)
(* (NotifHandles), and the objects that own a handle of the device and     *)
(* release it when they are dropped, File (src/src/file.rs) and Handle     *)
(* (src/src/symbol.rs).  Both are acquired by one request, name their      *)
(* handle in every other one and release it by a last one whose result is  *)
(* ignored; they borrow the Client, which is dropped after them.  listdir  *)
(* is here as well: a series of requests of a thread.                      *)
(*                                                                         *)
(* The requests of a connection reach the device in order.  A call may end *)
(* in Err with its request not sent, on the way, refused or executed.      *)
(***************************************************************************)
EXTENDS NotifHandles, Integers, Sequences

CONSTANTS
  MaxOpen,     \* bound: handles of the device in use at once, 1 .. MaxOpen
  MaxFailed,   \* bound: once as many opens and closes have ended in Err, no
               \* call fails any more and no close is refused
  MaxOnWay,    \* bound: requests on their way to the device
  Directory    \* the directory listed: for an offset, an entry and the next offset

ASSUME HandlesAssumption ==
  /\ MaxOpen \in Nat
  /\ MaxFailed \in Nat
  /\ MaxOnWay \in Nat
  /\ \A o \in DOMAIN Directory : Directory[o].next \in Nat /\ Directory[o].name \in Nat
  /\ "free" \notin Threads

VARIABLES
  handle,      \* File.handle, Handle.handle; 0 while the thread has none
  op,          \* the call a thread is in: none, open, use, close, list; or,
               \* listed, the result of the last is not used yet
  reply,       \* its reply, if there: Refused, or if successful, the handle
               \* for an open and 0 for another call
  requests,    \* on their way to the device
  owner,       \* for each handle of the device, who it was opened for
  failed,      \* ghost: number of opens that ended in Err without an answer,
               \* though sent, and of closes that ended in Err
  listing      \* listdir: its offset and the files found

objectVars == <<handle, op, reply, requests, owner, failed, listing>>
notifVars == vars
allVars == <<notifVars, objectVars>>

Free == "free"
Refused == -1    \* an error code in the AMS header or as the result
NoListing == [offset |-> 0, files |-> <<>>]
FirstOffset == 1

(* The device's part, not in this crate: from the first offset, the        *)
(* offsets lead through the entries in order, named here by their place.   *)
ASSUME DirectoryAssumption ==
  /\ IF FirstOffset \in DOMAIN Directory THEN Directory[FirstOffset].name = 1
     ELSE Cardinality(DOMAIN Directory) = 0
  /\ \A o \in DOMAIN Directory :
       IF Directory[o].next \in DOMAIN Directory
       THEN Directory[Directory[o].next].name = Directory[o].name + 1
       ELSE Directory[o].name = Cardinality(DOMAIN Directory)

HandlesInit ==
  /\ Init
  /\ handle = [t \in Threads |-> 0]
  /\ op = [t \in Threads |-> "none"]
  /\ reply = [t \in Threads |-> {}]
  /\ requests = <<>>
  /\ owner = [h \in 1 .. MaxOpen |-> Free]
  /\ failed = 0
  /\ listing = [t \in Threads |-> NoListing]

-----------------------------------------------------------------------------
(* File and Handle.                                                        *)

Idle(t) == cstate = "live" /\ pc[t] = "idle" /\ op[t] = "none"

Request(t, kind) ==
  /\ Idle(t)
  /\ Len(requests) < MaxOnWay
  /\ op' = [op EXCEPT ![t] = kind]
  /\ requests' = Append(requests, [op |-> kind, by |-> t, handle |-> handle[t],
                                   awaited |-> TRUE])
  /\ UNCHANGED <<notifVars, handle, reply, owner, failed, listing>>

(* File::open and Handle::new.                                             *)
Open(t) == handle[t] = 0 /\ Request(t, "open")

(* read, write, read_value and write_value of a File or Handle.            *)
Use(t) == handle[t] # 0 /\ Request(t, "use")

(* Mutant: nothing is sent.                                                *)
DropNothing(t) ==
  /\ handle[t] # 0
  /\ Idle(t)
  /\ handle' = [handle EXCEPT ![t] = 0]
  /\ UNCHANGED <<notifVars, op, reply, requests, owner, failed, listing>>

(* Drop for File and for Handle.                                           *)
DropObject(t) == handle[t] # 0 /\ Request(t, "close")

(* The same, but communicate fails before or in write_all, and no whole    *)
(* request reaches the device: the handle stays open there.  An open or a  *)
(* use that fails so changes nothing.                                      *)
DropUnsent(t) ==
  /\ Lossy
  /\ Idle(t)
  /\ handle[t] # 0
  /\ failed < MaxFailed
  /\ handle' = [handle EXCEPT ![t] = 0]
  /\ failed' = failed + 1
  /\ UNCHANGED <<notifVars, op, reply, requests, owner, listing>>

(* The device takes the next request, executes or refuses it and answers;  *)
(* an answer nobody awaits is lost.  A request lost with the connection    *)
(* has the effect of one that is refused when its call has failed.         *)
Outcomes(r) ==
  {Refused} \cup IF r.op = "open" THEN {g \in 1 .. MaxOpen : owner[g] = Free} ELSE {0}
Executes(r, h) ==
  /\ owner' = IF h = Refused \/ r.op = "use" THEN owner
              ELSE IF r.op = "open" THEN [owner EXCEPT ![h] = r.by]
              ELSE [owner EXCEPT ![r.handle] = Free]
  /\ reply' = IF r.awaited THEN [reply EXCEPT ![r.by] = {h}] ELSE reply
DeviceStep ==
  /\ requests # <<>>
  /\ requests' = Tail(requests)
  /\ LET r == Head(requests)
     IN \E h \in Outcomes(r) :
          /\ r.op = "close" /\ r.awaited /\ h = Refused => failed < MaxFailed
          /\ Executes(r, h)
  /\ UNCHANGED <<notifVars, handle, op, failed, listing>>

(* Mutant: an open that succeeded ends in Err all the same.                *)
HeldAfterNone(t, h) == IF op[t] = "use" THEN handle[t] ELSE 0

(* What a reply leaves in the hands of its thread: open has a handle or    *)
(* ends in Err; drop ignores the result.                                   *)
HeldAfter(t, h) ==
  CASE op[t] = "open"  -> IF h = Refused THEN 0 ELSE h
    [] op[t] = "use"   -> handle[t]
    [] op[t] = "close" -> 0

(* The call returns.                                                       *)
Returns(t) ==
  /\ op[t] \in {"open", "use", "close"}
  /\ \E h \in reply[t] :
       /\ handle' = [handle EXCEPT ![t] = HeldAfter(t, h)]
       /\ failed' = IF op[t] = "close" /\ h = Refused THEN failed + 1 ELSE failed
  /\ reply' = [reply EXCEPT ![t] = {}]
  /\ op' = [op EXCEPT ![t] = "none"]
  /\ UNCHANGED <<notifVars, requests, owner, listing>>

(* communicate returns Err with the request sent, wherever it is.          *)
FailsWith(t, kept) ==
  /\ Lossy
  /\ op[t] \in {"open", "use", "close"}
  /\ op[t] = "use" \/ failed < MaxFailed
  /\ handle' = [handle EXCEPT ![t] = kept]
  /\ failed' = IF op[t] = "use" THEN failed ELSE failed + 1
  /\ requests' = [k \in DOMAIN requests |->
                    IF requests[k].by = t THEN [requests[k] EXCEPT !.awaited = FALSE]
                    ELSE requests[k]]
  /\ reply' = [reply EXCEPT ![t] = {}]
  /\ op' = [op EXCEPT ![t] = "none"]
  /\ UNCHANGED <<notifVars, owner, listing>>

(* Mutant: a close that ended in Err leaves the object in place.           *)
FailsOpen(t) == FailsWith(t, handle[t])

(* An object that could not be opened does not exist; a dropped one is     *)
(* gone whatever came of its request.                                      *)
Fails(t) == FailsWith(t, IF op[t] = "use" THEN handle[t] ELSE 0)

-----------------------------------------------------------------------------
(* listdir: one write_read_exact per entry.                                *)

Listdir(t) ==
  /\ Idle(t)
  /\ op' = [op EXCEPT ![t] = "list"]
  /\ listing' = [listing EXCEPT ![t] = [NoListing EXCEPT !.offset = FirstOffset]]
  /\ UNCHANGED <<notifVars, handle, reply, requests, owner, failed>>

(* The device has an entry at the offset, and tells where to go on.        *)
ListEntry(t) ==
  /\ op[t] = "list"
  /\ listing[t].offset \in DOMAIN Directory
  /\ LET e == Directory[listing[t].offset]
     IN listing' = [listing EXCEPT ![t] = [offset |-> e.next, files |-> Append(@.files, e.name)]]
  /\ UNCHANGED <<notifVars, handle, op, reply, requests, owner, failed>>

(* The request fails with an error of the device or another one.           *)
ListReturns(t, notFound, ok) ==
  /\ op[t] = "list"
  /\ IF notFound THEN listing[t].offset \notin DOMAIN Directory ELSE Lossy
  /\ op' = [op EXCEPT ![t] = IF ok THEN "listed" ELSE "none"]
  /\ listing' = [listing EXCEPT ![t] = IF ok THEN @ ELSE NoListing]
  /\ UNCHANGED <<notifVars, handle, reply, requests, owner, failed>>

(* Mutant: any error is the end of the list.                               *)
ListEndsAnyhow(t) == \E notFound \in BOOLEAN : ListReturns(t, notFound, TRUE)

(* Only "not found" is; otherwise there is no list.                        *)
ListEnds(t) == \E notFound \in BOOLEAN : ListReturns(t, notFound, notFound)

(* The user is through with the list.                                      *)
ListUsed(t) ==
  /\ op[t] = "listed"
  /\ op' = [op EXCEPT ![t] = "none"]
  /\ listing' = [listing EXCEPT ![t] = NoListing]
  /\ UNCHANGED <<notifVars, handle, reply, requests, owner, failed>>

-----------------------------------------------------------------------------

(* A thread is in one call at a time; the Client is dropped when no object *)
(* is left and no call is in progress.                                     *)
NotifStep ==
  /\ Next
  /\ \A t \in Threads : pc'[t] # pc[t] => op[t] = "none"
  /\ cstate' # cstate => \A t \in Threads : handle[t] = 0 /\ op[t] = "none"
  /\ UNCHANGED objectVars

HandlesNext ==
  \/ NotifStep
  \/ \E t \in Threads :
       \/ Open(t) \/ Use(t) \/ DropObject(t) \/ DropUnsent(t) \/ Returns(t) \/ Fails(t)
       \/ Listdir(t) \/ ListEntry(t) \/ ListEnds(t) \/ ListUsed(t)
  \/ DeviceStep

HandlesSpec == HandlesInit /\ [][HandlesNext]_allVars

-----------------------------------------------------------------------------
(* Properties.                                                             *)

(* As long as a File or Handle exists, its handle is open on the device    *)
(* and its own, whatever was opened, closed and given out again meanwhile  *)
(* and whichever of these calls failed with its request on the way: no     *)
(* read or write goes to somebody else's file or variable.                 *)
HeldIsOpen ==
  \A t \in Threads : handle[t] # 0 /\ op[t] # "close" => owner[handle[t]] = t

(* Why: a handle a thread holds, or is about to be handed, is open for it, *)
(* and so is one that a request on its way will close; then nobody holds   *)
(* it any more but, until the close is answered, the object being dropped. *)
(* A thread awaits one request at a time.                                  *)
Holds(t, h) ==
  \/ handle[t] = h /\ (op[t] = "close" => reply[t] # {0})
  \/ h \in reply[t]
OwnedRequest(r) ==
  /\ r.awaited => op[r.by] = r.op /\ reply[r.by] = {}
  /\ r.op = "close" =>
       /\ r.handle \in 1 .. MaxOpen
       /\ owner[r.handle] = r.by
       /\ r.awaited => handle[r.by] = r.handle
       /\ ~r.awaited => ~Holds(r.by, r.handle)
Compatible(r, s) ==
  r.by = s.by => /\ ~(r.awaited /\ s.awaited)
                 /\ r.op = "close" /\ s.op = "close" => r.handle # s.handle
OwnershipInv ==
  /\ \A t \in Threads, h \in 1 .. MaxOpen : Holds(t, h) => owner[h] = t
  /\ \A t \in Threads :
       /\ op[t] = "open" => handle[t] = 0
       /\ op[t] \in {"use", "close"} => reply[t] \subseteq {0, Refused}
       /\ op[t] \in {"none", "list", "listed"} => reply[t] = {}
  /\ \A k \in DOMAIN requests : OwnedRequest(requests[k])
  /\ \A j, k \in DOMAIN requests : j # k => Compatible(requests[j], requests[k])

(* "The file is closed automatically on drop", "The handle is released     *)
(* automatically on drop": when the Client is gone, the device has no      *)
(* handle open beyond one for each open that was sent and ended in Err     *)
(* without an answer and each close that was not sent, was refused or      *)
(* ended in Err otherwise.                                                 *)
ObjectsReleased ==
  cstate = "gone" /\ requests = <<>> =>
    Cardinality({h \in 1 .. MaxOpen : owner[h] # Free}) <= failed

(* Why: a handle open for nobody who holds it, and an open on its way that *)
(* nobody awaits, are each the work of a call that ended in Err.           *)
Unclaimed ==
  {h \in 1 .. MaxOpen : owner[h] # Free /\ \A t \in Threads : ~Holds(t, h)}
OpensOnWay ==
  {k \in DOMAIN requests : requests[k].op = "open" /\ ~requests[k].awaited}
ReleaseInv ==
  /\ Cardinality(Unclaimed) + Cardinality(OpensOnWay) <= failed
  /\ cstate # "live" => \A t \in Threads : handle[t] = 0 /\ op[t] = "none"

(* listdir returns Ok only with the whole directory, in order.             *)
WholeDirectory == [k \in 1 .. Cardinality(DOMAIN Directory) |-> k]
ListedWhole ==
  \A t \in Threads : op[t] = "listed" => listing[t].files = WholeDirectory
=============================================================================

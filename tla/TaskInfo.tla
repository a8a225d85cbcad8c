------------------------------ MODULE TaskInfo -------------------------------
(***************************************************************************)
(* Task telemetry (src/src/task_info.rs).  A TaskInfoReader is built from  *)
(* symbol metadata and copied to the threads that sample; each read        *)
(* compares the generation of the reader with the current one, then sends  *)
(* one or two requests.  The metadata cache is the user's: it is modelled  *)
(* as the documentation of TaskInfoReader demands it.  The target may      *)
(* change its symbols between any two requests.                            *)
(*                                                                         *)
(* Memory is in units: PrefixSize of them for the documented fields of an  *)
(* entry (32 bytes in the code), NameSize for a name (64).                 *)
(***************************************************************************)
EXTENDS Integers, Sequences

CONSTANTS
  Threads,     \* threads that take samples
  Metas,       \* symbol metadata a target may have
  Changing,    \* those that come and go by online changes and reconnects
  PrefixSize,  \* TASK_PREFIX_SIZE
  NameSize,    \* TASK_NAME_SIZE
  CountSize,   \* APP_INFO_TASK_COUNT_SIZE
  MaxSize,     \* MAX_TASK_INFO_SIZE
  MaxIndex,    \* the largest i32; array bounds are -MaxIndex-1 .. MaxIndex
  MaxEpochs,   \* bound: states of the target's symbols in a behaviour
  MaxGen       \* bound: no version check fails once the generation is here

ASSUME ConstantsAssumption ==
  /\ Metas \subseteq [entry : Nat, fields : BOOLEAN, name : Nat \cup {-1}, text : BOOLEAN,
                      lo : -MaxIndex - 1 .. MaxIndex, hi : -MaxIndex - 1 .. MaxIndex,
                      size : Nat, app : Nat]
  /\ Changing \subseteq Metas
  /\ PrefixSize \in Nat \ {0} /\ NameSize \in Nat /\ CountSize \in Nat
  /\ MaxSize \in Nat /\ MaxIndex \in Nat
  /\ MaxEpochs \in Nat /\ MaxGen \in Nat

VARIABLES
  metas,    \* the target's symbols, present and (ghost) past
  version,  \* the symbol version it reports
  gen,      \* the cache: its generation,
  cver,     \*   the version it is for (Unknown: sampling is suspended),
  cache,    \*   invalid, types (uploaded, symbols not yet), ready, unusable,
  types,    \*   the metadata the types were uploaded from,
  creader,  \*   the TaskInfoReader built from it
  answer,   \*   and the version a poll under way was answered with
  pc,       \* where each thread is
  reader,   \* its copy of a reader
  arg,      \* the generation it passed to read, and which device
  sample,   \* the snapshot being put together (count: the epoch it is from)
  seen,     \* the version its check after the sample was answered with
  kept      \* the last snapshot it used

targetVars == <<metas, version>>
cacheVars == <<gen, cver, cache, types, creader, answer>>
threadVars == <<pc, reader, arg, sample, seen, kept>>
vars == <<targetVars, cacheVars, threadVars>>

Unknown == -1
NoReader == [gen |-> Unknown, size |-> 0, entry_size |-> 0, name |-> Unknown,
             first_index |-> 0, app |-> FALSE]
Unavailable == 0
NoSample == [tasks |-> <<>>, count |-> Unknown]
NoArg == [gen |-> Unknown, target |-> TRUE]

Epoch == Len(metas)
Meta == metas[Epoch]

Init ==
  /\ \E m \in Metas : metas = <<m>>
  /\ version = 0
  /\ gen = 0
  /\ cver = Unknown
  /\ cache = "invalid"
  /\ types = metas[1]
  /\ creader = NoReader
  /\ answer = Unknown
  /\ pc = [t \in Threads |-> "idle"]
  /\ reader = [t \in Threads |-> NoReader]
  /\ arg = [t \in Threads |-> NoArg]
  /\ sample = [t \in Threads |-> NoSample]
  /\ seen = [t \in Threads |-> Unknown]
  /\ kept = [t \in Threads |-> NoSample]

-----------------------------------------------------------------------------
(* Metadata: `entry` is the size of the entry type, `fields` whether the   *)
(* required fields are as documented, `name` the offset of TaskName        *)
(* (Unknown: no such field), `text` whether that field is a STRING(63);    *)
(* lo and hi are the array bounds, `size` and `app` the sizes of the two   *)
(* symbols (app 0: there is none).                                         *)

Accepts(m, last) ==
  /\ m.entry >= PrefixSize
  /\ m.fields
  /\ m.name # Unknown => m.name >= PrefixSize /\ m.name + NameSize <= last /\ m.text

(* Mutant: the end of the name is compared with an inclusive end.          *)
FromEntryTypeOffByOne(m) == Accepts(m, m.entry + 1)

(* TaskInfoLayout::from_entry_type.                                        *)
FromEntryType(m) == Accepts(m, m.entry)

(* TaskInfoReader::new: bounds that are in order and whose difference and  *)
(* number fit an i32, and a size that is exactly theirs.                   *)
NewAccepts(m, entry_size) ==
  LET diff == m.hi - m.lo IN
  /\ diff \in 0 .. MaxIndex - 1
  /\ m.size \in 1 .. MaxSize
  /\ (diff + 1) * entry_size = m.size

(* TaskInfoReader::with_app_info.                                          *)
WithAppInfoAccepts(m) == m.app = 0 \/ m.app >= CountSize

(* What the target has at unit p of the task-info symbol, and the tasks    *)
(* that are there: the reference for the decoding.                         *)
Unit(e, index, offset) == [epoch |-> e, index |-> index, offset |-> offset]
Memory(e, p) ==
  IF p > metas[e].size THEN Unit(e, 0, Unknown)
  ELSE Unit(e, metas[e].lo + (p - 1) \div metas[e].entry, (p - 1) % metas[e].entry)
TasksOf(e) ==
  LET m == metas[e]
      Units(index, from, n) == [p \in 1 .. n |-> Unit(e, index, from + p - 1)]
  IN [k \in 1 .. m.hi - m.lo + 1 |->
        [index |-> m.lo + k - 1,
         fields |-> Units(m.lo + k - 1, 0, PrefixSize),
         name |-> IF m.name = Unknown THEN <<>>
                  ELSE Units(m.lo + k - 1, m.name, NameSize)]]

-----------------------------------------------------------------------------
(* The target: an online change gives it other symbols and a new version.  *)

OnlineChange ==
  /\ Epoch < MaxEpochs
  /\ Meta \in Changing
  /\ \E m \in Changing : metas' = Append(metas, m)
  /\ version' = version + 1
  /\ UNCHANGED <<cacheVars, threadVars>>

-----------------------------------------------------------------------------
(* The user's cache, as the documentation of TaskInfoReader demands it.    *)

(* A version the cache is not for invalidates it and advances the          *)
(* generation, before anything is rebuilt.                                 *)
Observe(v) ==
  /\ cver' = v
  /\ gen' = IF v # cver THEN gen + 1 ELSE gen
  /\ cache' = IF v # cver THEN "invalid" ELSE cache
  /\ UNCHANGED <<types, creader>>

PollAsks ==
  /\ answer = Unknown
  /\ answer' = version
  /\ UNCHANGED <<targetVars, gen, cver, cache, types, creader, threadVars>>

PollAnswered ==
  /\ answer # Unknown
  /\ Observe(answer)
  /\ answer' = Unknown
  /\ UNCHANGED <<targetVars, threadVars>>

(* A check fails: no sampling until the next one succeeds.                 *)
PollFails ==
  /\ gen < MaxGen
  /\ cver' = Unknown
  /\ answer' = Unknown
  /\ UNCHANGED <<targetVars, gen, cache, types, creader, threadVars>>

(* The connection is made anew, possibly after a download that left the    *)
(* version as it was.  The old Client is gone, so no request is under way. *)
Reconnect ==
  /\ Epoch < MaxEpochs
  /\ Meta \in Changing
  /\ \A t \in Threads : pc[t] = "idle"
  /\ \E m \in Changing : metas' = Append(metas, m)
  /\ version' \in {version, 0}
  /\ gen' = gen + 1
  /\ cver' = Unknown
  /\ cache' = "invalid"
  /\ answer' = Unknown
  /\ UNCHANGED <<types, creader, threadVars>>

UploadTypes ==
  /\ cver # Unknown
  /\ cache = "invalid"
  /\ types' = Meta
  /\ cache' = "types"
  /\ UNCHANGED <<targetVars, gen, cver, creader, answer, threadVars>>

(* The symbols are uploaded and the reader built: from_entry_type, new and *)
(* with_app_info.                                                          *)
BuildReader ==
  /\ cver # Unknown
  /\ cache = "types"
  /\ \/ /\ FromEntryType(types) /\ NewAccepts(Meta, types.entry) /\ WithAppInfoAccepts(Meta)
        /\ creader' = [gen |-> gen, size |-> Meta.size, entry_size |-> types.entry,
                       name |-> types.name, first_index |-> Meta.lo,
                       app |-> Meta.app # 0]
        /\ cache' = "ready"
     \/ /\ ~(FromEntryType(types) /\ NewAccepts(Meta, types.entry) /\ WithAppInfoAccepts(Meta))
        /\ cache' = "unusable"
        /\ UNCHANGED creader
  /\ UNCHANGED <<targetVars, gen, cver, types, answer, threadVars>>

-----------------------------------------------------------------------------
(* A thread samples.                                                       *)

Go(t, to) == pc' = [pc EXCEPT ![t] = to]

(* It takes a copy of the reader; it may use it for long.                  *)
TakeReader(t) ==
  /\ pc[t] = "idle"
  /\ cache = "ready"
  /\ cver # Unknown
  /\ reader' = [reader EXCEPT ![t] = creader]
  /\ UNCHANGED <<targetVars, cacheVars, pc, arg, sample, seen, kept>>

(* It calls read with the current generation, perhaps on another device.   *)
CallRead(t) ==
  /\ pc[t] = "idle"
  /\ cver # Unknown
  /\ reader[t] # NoReader
  /\ \E target \in BOOLEAN :
       arg' = [arg EXCEPT ![t] = [gen |-> gen, target |-> target]]
  /\ kept' = [kept EXCEPT ![t] = NoSample]
  /\ Go(t, "read")
  /\ UNCHANGED <<targetVars, cacheVars, reader, sample, seen>>

(* The checks of TaskInfoReader::read before any request is sent.          *)
Valid(t) == arg[t].gen = reader[t].gen /\ arg[t].target

(* read returns Err; no snapshot.                                          *)
ReadErr(t) ==
  /\ Go(t, "idle")
  /\ arg' = [arg EXCEPT ![t] = NoArg]
  /\ UNCHANGED <<targetVars, cacheVars, reader, sample, seen, kept>>

Invalidated(t) == pc[t] = "read" /\ ~Valid(t) /\ ReadErr(t)

(* Device::read_exact: the request fails, or less than asked for arrives.  *)
ReadExactFails(t) == pc[t] = "read" /\ Valid(t) /\ ReadErr(t)

(* decode_task for the entry that begins after `at` units of `bytes`.      *)
DecodeTask(r, bytes, at, index) ==
  [index |-> index,
   fields |-> SubSeq(bytes, at + 1, at + PrefixSize),
   name |-> IF r.name = Unknown THEN <<>>
            ELSE SubSeq(bytes, at + r.name + 1, at + r.name + NameSize)]

(* The entry holds all that decode_task reads, and its index is an i32.    *)
Decodable(r, index) ==
  /\ r.entry_size >= PrefixSize
  /\ r.name # Unknown => r.name + NameSize <= r.entry_size
  /\ index <= MaxIndex

(* decode_tasks, over chunks_exact(entry_size).                            *)
Slots(r) == r.size \div r.entry_size
DecodeTasks(r, bytes) ==
  [k \in 1 .. Slots(r) |->
     DecodeTask(r, bytes, (k - 1) * r.entry_size, r.first_index + k - 1)]
DecodeFails(r) == \E k \in 1 .. Slots(r) : ~Decodable(r, r.first_index + k - 1)

ReadTasksIf(t, valid) ==
  /\ pc[t] = "read"
  /\ valid
  /\ LET r == reader[t]
         bytes == [p \in 1 .. r.size |-> IF arg[t].target THEN Memory(Epoch, p)
                                         ELSE Unit(0, 0, Unknown)]
     IN IF DecodeFails(r) THEN Go(t, "undecodable") /\ UNCHANGED sample
        ELSE /\ sample' = [sample EXCEPT ![t].tasks = DecodeTasks(r, bytes)]
             /\ Go(t, IF r.app THEN "count" ELSE "check")
  /\ UNCHANGED <<targetVars, cacheVars, reader, arg, seen, kept>>

(* Mutant: the generation is not compared.                                 *)
ReadTasksUnchecked(t) == ReadTasksIf(t, arg[t].target)

(* The task-info symbol is read entirely, and decoded.                     *)
ReadTasks(t) == ReadTasksIf(t, Valid(t))

(* read_app_task_count: a failure leaves the tasks available.              *)
ReadCount(t) ==
  /\ pc[t] = "count"
  /\ \E count \in {Epoch, Unavailable} :
       sample' = [sample EXCEPT ![t].count = count]
  /\ Go(t, "check")
  /\ UNCHANGED <<targetVars, cacheVars, reader, arg, seen, kept>>

(* The snapshot is there.  The thread asks for the version.                *)
CheckAsks(t) ==
  /\ pc[t] = "check"
  /\ seen' = [seen EXCEPT ![t] = version]
  /\ Go(t, "checked")
  /\ UNCHANGED <<targetVars, cacheVars, reader, arg, sample, kept>>

(* A snapshot during which no change was observed is used, any other is    *)
(* discarded.                                                              *)
CheckAnswered(t) ==
  /\ pc[t] = "checked"
  /\ Observe(seen[t])
  /\ kept' = [kept EXCEPT ![t] = IF seen[t] = cver /\ gen = arg[t].gen
                                 THEN sample[t] ELSE NoSample]
  /\ arg' = [arg EXCEPT ![t] = NoArg]
  /\ sample' = [sample EXCEPT ![t] = NoSample]
  /\ seen' = [seen EXCEPT ![t] = Unknown]
  /\ Go(t, "idle")
  /\ UNCHANGED <<targetVars, answer, reader>>

-----------------------------------------------------------------------------

Next ==
  \/ OnlineChange
  \/ PollAsks
  \/ PollAnswered
  \/ PollFails
  \/ Reconnect
  \/ UploadTypes
  \/ BuildReader
  \/ \E t \in Threads :
       \/ TakeReader(t) \/ CallRead(t)
       \/ Invalidated(t) \/ ReadExactFails(t) \/ ReadTasks(t) \/ ReadCount(t)
       \/ CheckAsks(t) \/ CheckAnswered(t)

Spec == Init /\ [][Next]_vars

-----------------------------------------------------------------------------
(* Properties.                                                             *)

(* Under the contract TaskInfoReader documents for its cache, a snapshot   *)
(* that is used holds the tasks of one state of the target's symbols: each *)
(* slot of the array with its own index, fields and name, decoded with the *)
(* layout in force when it was read, and a task count, if any, of that     *)
(* state too.                                                              *)
KeptIsCurrent ==
  \A t \in Threads :
    kept[t] # NoSample =>
      \E e \in 1 .. Epoch :
        kept[t].tasks = TasksOf(e) /\ kept[t].count \in {Unknown, Unavailable, e}

(* What from_entry_type and new accepted can be decoded, also if the       *)
(* symbols changed between the uploads or since: decode_tasks meets no     *)
(* entry too short for its fields or its name, and no index overflow.      *)
AcceptedDecodes == \A t \in Threads : pc[t] # "undecodable"
=============================================================================

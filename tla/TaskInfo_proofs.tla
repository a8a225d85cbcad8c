--------------------------- MODULE TaskInfo_proofs ---------------------------
(***************************************************************************)
(* What a snapshot of the tasks is worth (src/src/task_info.rs).  Two      *)
(* arguments: a reader that the checks let through decodes without error   *)
(* (DecodeInv), and under the documented contract for its cache a snapshot *)
(* that is used is of one state of the target's symbols (CurrentInv, which *)
(* needs that versions and generations only lag behind: VersionInv).       *)
(***************************************************************************)
EXTENDS TaskInfo, TLAPS, SequenceTheorems

(* Quotient and remainder are unique.                                      *)
LEMMA OneQuotient ==
  ASSUME NEW n \in Nat, NEW x \in Nat,
         NEW q \in Int, NEW r \in 0 .. n - 1, x = q * n + r,
         NEW p \in Int, NEW s \in 0 .. n - 1, x = p * n + s
  PROVE  q = p /\ r = s
<1>1. n * (q - p) = s - r
  OBVIOUS
<1>2. CASE q > p
  <2>1. q - p >= 1
    BY <1>2
  <2>2. n * (q - p) >= n
    BY <2>1
  <2> QED
    BY <1>1, <2>2
<1>3. CASE q < p
  <2>1. p - q >= 1
    BY <1>3
  <2>2. n * (p - q) >= n
    BY <2>1
  <2>3. n * (p - q) = r - s
    BY <1>1
  <2> QED
    BY <2>3, <2>2
<1> QED
  BY <1>1, <1>2, <1>3

(* The unit at offset r of entry q.                                        *)
LEMMA DivMod ==
  ASSUME NEW n \in Nat \ {0}, NEW q \in Int, NEW r \in 0 .. n - 1
  PROVE  (q * n + r) \div n = q /\ (q * n + r) % n = r
<1> DEFINE x == q * n + r
<1>1. x \in Int /\ x \div n \in Int /\ x % n \in 0 .. n - 1 /\ x = n * (x \div n) + (x % n)
  OBVIOUS
<1> QED
  BY <1>1, OneQuotient

-----------------------------------------------------------------------------
(* What the checks of TaskInfoReader let through is decodable: the size of *)
(* the symbol is that of a number of entries, and the index of the last of *)
(* them is an i32.                                                         *)

Readers == [gen : Int, size : Nat, entry_size : Nat, name : Nat \cup {Unknown},
            first_index : Int, app : BOOLEAN]

Sound(r) ==
  /\ r.entry_size >= PrefixSize
  /\ r.name # Unknown => r.name + NameSize <= r.entry_size
  /\ \E n \in Nat : r.size = n * r.entry_size /\ r.first_index + n - 1 <= MaxIndex

Steps == {"idle", "read", "count", "check", "checked"}

(* The readers in the cache and at the threads are NoReader or sound, and  *)
(* a thread that called read has one.                                      *)
DecodeInv ==
  /\ metas \in Seq(Metas) /\ Len(metas) >= 1
  /\ types \in Metas
  /\ gen \in Nat
  /\ creader \in Readers
  /\ reader \in [Threads -> Readers]
  /\ pc \in [Threads -> Steps]
  /\ cache = "ready" => Sound(creader)
  /\ \A t \in Threads : reader[t] = NoReader \/ Sound(reader[t])
  /\ \A t \in Threads : pc[t] # "idle" => Sound(reader[t])

(* A sound reader meets no entry that decode_task refuses.                 *)
LEMMA SoundDecodes ==
  ASSUME NEW r \in Readers, Sound(r)
  PROVE  ~DecodeFails(r)
<1>1. PICK n \in Nat : r.size = n * r.entry_size /\ r.first_index + n - 1 <= MaxIndex
  BY DEF Sound
<1>2. PrefixSize \in Nat \ {0} /\ NameSize \in Nat /\ MaxIndex \in Nat
  BY ConstantsAssumption
<1>3. /\ r.entry_size \in Nat \ {0} /\ r.first_index \in Int
      /\ r.entry_size >= PrefixSize
      /\ r.name # Unknown => r.name + NameSize <= r.entry_size
  BY <1>2 DEF Readers, Sound
<1>4. Slots(r) = n
  <2> DEFINE E == r.entry_size
  <2>1. (n * E + 0) \div E = n
    BY <1>3, DivMod
  <2>2. n * E + 0 = n * E
    BY <1>3
  <2> QED
    BY <1>1, <2>1, <2>2 DEF Slots
<1>5. \A k \in 1 .. n : r.first_index + k - 1 <= MaxIndex
  BY <1>1, <1>2, <1>3
<1> QED
  BY <1>3, <1>4, <1>5 DEF DecodeFails, Decodable

(* The target's metadata and what the types were uploaded from.            *)
LEMMA DecodeTyped ==
  ASSUME DecodeInv
  PROVE  /\ Meta \in Metas
         /\ types \in Metas
  BY DEF DecodeInv, Meta, Epoch

(* At the start there is no reader.                                        *)
LEMMA DecodeInit == Init => DecodeInv
<1> SUFFICES ASSUME Init PROVE DecodeInv
  OBVIOUS
<1>1. NoReader \in Readers
  BY DEF NoReader, Readers, Unknown
<1>2. PICK m \in Metas : metas = <<m>>
  BY DEF Init
<1>3. metas \in Seq(Metas) /\ Len(metas) >= 1 /\ metas[1] \in Metas
  BY <1>2
<1> QED
  BY <1>1, <1>3 DEF Init, DecodeInv, Steps

(* from_entry_type and new let only sound readers through, also when they  *)
(* see metadata of two epochs.                                             *)
LEMMA DecodeBuild ==
  ASSUME DecodeInv, BuildReader
  PROVE  DecodeInv'
<1>1. Meta \in Metas /\ types \in Metas
  BY DecodeTyped
<1>2. CASE cache' = "unusable" /\ UNCHANGED creader
  BY <1>2 DEF DecodeInv, BuildReader, targetVars, threadVars
<1>3. CASE /\ FromEntryType(types) /\ NewAccepts(Meta, types.entry) /\ WithAppInfoAccepts(Meta)
           /\ creader' = [gen |-> gen, size |-> Meta.size, entry_size |-> types.entry,
                          name |-> types.name, first_index |-> Meta.lo,
                          app |-> Meta.app # 0]
           /\ cache' = "ready"
  <2>1. PICK m \in Metas : m = Meta
    BY <1>1
  <2>2. PICK y \in Metas : y = types
    BY <1>1
  <2>3. PICK c : c = creader'
    OBVIOUS
  <2>4. c = [gen |-> gen, size |-> m.size, entry_size |-> y.entry, name |-> y.name,
             first_index |-> m.lo, app |-> m.app # 0]
    BY <1>3, <2>1, <2>2, <2>3
  <2>5. /\ y.entry \in Nat /\ y.name \in Nat \cup {-1} /\ m.size \in Nat
        /\ m.lo \in Int /\ m.hi \in Int /\ m.hi <= MaxIndex
    BY ConstantsAssumption
  <2>6. c \in Readers
    BY <2>4, <2>5 DEF Readers, Unknown, DecodeInv
  <2>7. PICK n \in Nat : n = m.hi - m.lo + 1 /\ m.size = n * y.entry
    <3>1. m.hi - m.lo >= 0 /\ (m.hi - m.lo + 1) * y.entry = m.size
      BY <1>3, <2>1, <2>2, <2>5, ConstantsAssumption DEF NewAccepts
    <3>2. m.hi - m.lo + 1 \in Nat
      BY <3>1, <2>5
    <3> QED
      BY <3>1, <3>2
  <2>8. m.lo + n - 1 <= MaxIndex
    BY <2>5, <2>7, ConstantsAssumption
  <2>9. y.entry >= PrefixSize /\ (y.name # Unknown => y.name + NameSize <= y.entry)
    BY <1>3, <2>2 DEF FromEntryType, Accepts
  <2>10. Sound(c)
    BY <2>4, <2>7, <2>8, <2>9 DEF Sound
  <2> QED
    BY <2>3, <2>6, <2>10 DEF DecodeInv, BuildReader, targetVars, threadVars
<1> QED
  BY <1>2, <1>3 DEF BuildReader

(* So decode_tasks returns.                                                *)
LEMMA DecodeRead ==
  ASSUME DecodeInv, NEW t \in Threads, ReadTasks(t)
  PROVE  DecodeInv'
<1>1. reader[t] \in Readers /\ Sound(reader[t])
  BY DEF DecodeInv, ReadTasks, ReadTasksIf
<1>2. ~DecodeFails(reader[t])
  BY <1>1, SoundDecodes
<1>3. pc' = [pc EXCEPT ![t] = IF reader[t].app THEN "count" ELSE "check"]
  BY <1>2 DEF ReadTasks, ReadTasksIf, Go
<1>4. UNCHANGED <<targetVars, cacheVars, reader>>
  BY DEF ReadTasks, ReadTasksIf
<1> QED
  BY <1>1, <1>3, <1>4 DEF DecodeInv, Steps, targetVars, cacheVars

(* Every step keeps the readers sound.                                     *)
LEMMA DecodeStep == DecodeInv /\ [Next]_vars => DecodeInv'
<1> SUFFICES ASSUME DecodeInv, [Next]_vars PROVE DecodeInv'
  OBVIOUS
<1> USE DEF targetVars, cacheVars, threadVars
<1>1. ASSUME NEW m \in Changing, metas' = Append(metas, m)
      PROVE  metas' \in Seq(Metas) /\ Len(metas') >= 1
  BY <1>1, ConstantsAssumption DEF DecodeInv
<1>2. CASE OnlineChange
  <2>1. metas' \in Seq(Metas) /\ Len(metas') >= 1
    BY <1>1, <1>2 DEF OnlineChange
  <2> QED
    BY <1>2, <2>1 DEF OnlineChange, DecodeInv
<1>3. CASE PollAsks
  BY <1>3 DEF PollAsks, DecodeInv
<1>4. CASE PollAnswered
  BY <1>4 DEF PollAnswered, Observe, DecodeInv
<1>5. CASE PollFails
  BY <1>5 DEF PollFails, DecodeInv
<1>6. CASE Reconnect
  <2>1. metas' \in Seq(Metas) /\ Len(metas') >= 1
    BY <1>1, <1>6 DEF Reconnect
  <2> QED
    BY <1>6, <2>1 DEF Reconnect, DecodeInv
<1>7. CASE UploadTypes
  BY <1>7, DecodeTyped DEF UploadTypes, DecodeInv
<1>8. CASE BuildReader
  BY <1>8, DecodeBuild
<1>9. ASSUME NEW t \in Threads, TakeReader(t) PROVE DecodeInv'
  BY <1>9 DEF TakeReader, DecodeInv
<1>10. ASSUME NEW t \in Threads, CallRead(t) PROVE DecodeInv'
  BY <1>10 DEF CallRead, Go, DecodeInv, Steps
<1>11. ASSUME NEW t \in Threads, ReadErr(t) PROVE DecodeInv'
  BY <1>11 DEF ReadErr, Go, DecodeInv, Steps
<1>12. ASSUME NEW t \in Threads, ReadTasks(t) PROVE DecodeInv'
  BY <1>12, DecodeRead
<1>13. ASSUME NEW t \in Threads, ReadCount(t) PROVE DecodeInv'
  BY <1>13 DEF ReadCount, Go, DecodeInv, Steps
<1>14. ASSUME NEW t \in Threads, CheckAsks(t) PROVE DecodeInv'
  BY <1>14 DEF CheckAsks, Go, DecodeInv, Steps
<1>15. ASSUME NEW t \in Threads, CheckAnswered(t) PROVE DecodeInv'
  BY <1>15 DEF CheckAnswered, Observe, Go, DecodeInv, Steps
<1>16. CASE UNCHANGED vars
  BY <1>16 DEF vars, DecodeInv
<1> QED
  BY <1>2, <1>3, <1>4, <1>5, <1>6, <1>7, <1>8, <1>9, <1>10, <1>11, <1>12, <1>13,
     <1>14, <1>15, <1>16 DEF Next, Invalidated, ReadExactFails

(* Whatever from_entry_type, new and with_app_info accept, decode_tasks    *)
(* can decode: no entry is too short and no index overflows an i32, even   *)
(* when the types and the symbols were uploaded on either side of an       *)
(* online change.                                                          *)
THEOREM Decodes == Spec => []AcceptedDecodes
<1>1. DecodeInv => AcceptedDecodes
  BY DEF DecodeInv, AcceptedDecodes, Steps
<1> QED
  BY <1>1, DecodeInit, DecodeStep, PTL DEF Spec

-----------------------------------------------------------------------------
(* What the target's memory holds decodes to the tasks that are there, if  *)
(* it is read with a reader made from the same metadata.                   *)

ReaderOf(m, g) ==
  [gen |-> g, size |-> m.size, entry_size |-> m.entry, name |-> m.name,
   first_index |-> m.lo, app |-> m.app # 0]

Accepted(m) == FromEntryType(m) /\ NewAccepts(m, m.entry) /\ WithAppInfoAccepts(m)

(* TasksOf, for metadata m of epoch e.                                     *)
UnitsOf(e, index, from, n) == [p \in 1 .. n |-> Unit(e, index, from + p - 1)]
TaskAt(m, e, k) ==
  [index |-> m.lo + k - 1,
   fields |-> UnitsOf(e, m.lo + k - 1, 0, PrefixSize),
   name |-> IF m.name = Unknown THEN <<>> ELSE UnitsOf(e, m.lo + k - 1, m.name, NameSize)]
TasksAt(m, e) == [k \in 1 .. m.hi - m.lo + 1 |-> TaskAt(m, e, k)]

(* The reference of KeptIsCurrent in terms of the metadata.                *)
LEMMA TasksOfAt == \A e : TasksOf(e) = TasksAt(metas[e], e)
  BY DEF TasksOf, TasksAt, TaskAt, UnitsOf

(* Entries before entry b end no later than it.                            *)
LEMMA MultiplesGrow ==
  ASSUME NEW a \in Int, NEW b \in Int, a <= b, NEW n \in Nat
  PROVE  a * n <= b * n
<1>1. (b - a) * n >= 0
  OBVIOUS
<1> QED
  BY <1>1

(* The whole symbol, as read from the target at epoch e.                   *)
Bytes(m, e) == [p \in 1 .. m.size |-> Memory(e, p)]

(* A piece of a sequence, as a function.                                   *)
PieceOf(s, at, n) == [i \in 1 .. n |-> s[at + i]]

(* SubSeq is that function.                                                *)
LEMMA Piece ==
  ASSUME NEW s, NEW at \in Nat, NEW n \in Nat
  PROVE  SubSeq(s, at + 1, at + n) = PieceOf(s, at, n)
<1>1. PICK a \in Int : a = at + 1
  OBVIOUS
<1>2. PICK b \in Int : b = at + n
  OBVIOUS
<1>3. PICK S : S = {s[j] : j \in a .. b}
  OBVIOUS
<1>4. \A j \in a .. b : s[j] \in S
  BY <1>3
<1>5. PICK u : u = SubSeq(s, a, b)
  OBVIOUS
<1>6. /\ u \in Seq(S) /\ Len(u) = (IF a <= b THEN b - a + 1 ELSE 0)
      /\ \A i \in 1 .. b - a + 1 : u[i] = s[a + i - 1]
  BY <1>4, <1>5, SubSeqProperties
<1>7. (IF a <= b THEN b - a + 1 ELSE 0) = n
  BY <1>1, <1>2
<1>8. Len(u) = n
  BY <1>6, <1>7
<1>9. ASSUME NEW i \in 1 .. n PROVE u[i] = s[at + i]
  <2>1. i \in 1 .. b - a + 1 /\ a + i - 1 = at + i
    BY <1>1, <1>2
  <2> QED
    BY <1>6, <2>1
<1>10. u = [i \in 1 .. n |-> u[i]]
  BY <1>6, <1>8
<1>11. u = [i \in 1 .. n |-> s[at + i]]
  BY <1>9, <1>10
<1> QED
  BY <1>1, <1>2, <1>5, <1>11 DEF PieceOf

(* A run of n units inside entry k, from offset `from`.                    *)
At(m, k, from) == (k - 1) * m.entry + from

(* It decodes to the units of that entry.                                  *)
LEMMA UnitsDecoded ==
  ASSUME NEW m \in Metas, Accepted(m), NEW e, metas[e] = m,
         NEW k \in 1 .. m.hi - m.lo + 1, NEW from \in Nat, NEW n \in Nat,
         from + n <= m.entry
  PROVE  SubSeq(Bytes(m, e), At(m, k, from) + 1, At(m, k, from) + n)
           = UnitsOf(e, m.lo + k - 1, from, n)
<1>0. PICK at : at = At(m, k, from)
  OBVIOUS
<1>1. m.entry \in Nat \ {0} /\ m.size \in Nat /\ m.lo \in Int /\ m.hi \in Int
  BY ConstantsAssumption DEF Accepted, FromEntryType, Accepts
<1>2. m.size = (m.hi - m.lo + 1) * m.entry
  BY DEF Accepted, NewAccepts
<1>3. PICK E \in Nat \ {0} : E = m.entry
  BY <1>1
<1>4. PICK c \in Nat : c = m.hi - m.lo + 1
  BY <1>1
<1>5. k \in 1 .. c
  BY <1>4
<1>6. at = (k - 1) * E + from /\ from + n <= E /\ m.size = c * E
  BY <1>0, <1>2, <1>3, <1>4 DEF At
<1>7. at \in Nat
  BY <1>5, <1>6
<1>8. at + n <= m.size
  <2>1. k * E <= c * E
    BY <1>5, MultiplesGrow
  <2>2. (k - 1) * E + E = k * E
    BY <1>5
  <2> QED
    BY <1>5, <1>6, <2>1, <2>2
<1>9. \A i \in 1 .. n : Bytes(m, e)[at + i] = Unit(e, m.lo + k - 1, from + i - 1)
  <2> SUFFICES ASSUME NEW i \in 1 .. n
               PROVE  Bytes(m, e)[at + i] = Unit(e, m.lo + k - 1, from + i - 1)
    OBVIOUS
  <2>1. at + i \in 1 .. m.size
    BY <1>1, <1>7, <1>8
  <2>2. PICK o \in 0 .. E - 1 : o = from + i - 1
    BY <1>6
  <2>3. at + i - 1 = (k - 1) * E + o
    BY <1>5, <1>6, <2>2
  <2>4. k - 1 \in Int
    BY <1>5
  <2>5. ((k - 1) * E + o) \div E = k - 1 /\ ((k - 1) * E + o) % E = o
    BY <2>4, DivMod
  <2>6. (at + i - 1) \div m.entry = k - 1 /\ (at + i - 1) % m.entry = o
    BY <2>3, <2>5, <1>3
  <2>7. Memory(e, at + i) = Unit(e, m.lo + (k - 1), o)
    BY <2>1, <2>6, <1>1, <1>7 DEF Memory
  <2>8. m.lo + (k - 1) = m.lo + k - 1
    BY <1>1, <1>5
  <2> QED
    BY <2>1, <2>2, <2>7, <2>8 DEF Bytes
<1>10. SubSeq(Bytes(m, e), at + 1, at + n) = PieceOf(Bytes(m, e), at, n)
  BY <1>7, Piece
<1> QED
  BY <1>0, <1>9, <1>10 DEF UnitsOf, PieceOf

(* And the whole symbol to the tasks of its epoch.                         *)
LEMMA TasksDecoded ==
  ASSUME NEW m \in Metas, Accepted(m), NEW e, metas[e] = m, NEW g
  PROVE  DecodeTasks(ReaderOf(m, g), Bytes(m, e)) = TasksAt(m, e)
<1> DEFINE r == ReaderOf(m, g)
<1>1. /\ m.entry \in Nat \ {0} /\ m.size \in Nat /\ m.lo \in Int /\ m.hi \in Int
      /\ m.name \in Nat \cup {Unknown}
      /\ m.entry >= PrefixSize /\ PrefixSize \in Nat /\ NameSize \in Nat
      /\ m.name # Unknown => m.name + NameSize <= m.entry
  BY ConstantsAssumption DEF Accepted, FromEntryType, Accepts, Unknown
<1>2. m.size = (m.hi - m.lo + 1) * m.entry /\ m.hi - m.lo + 1 \in Nat
  BY <1>1, ConstantsAssumption DEF Accepted, NewAccepts
<1>3. Slots(r) = m.hi - m.lo + 1
  <2>1. PICK c \in Nat : c = m.hi - m.lo + 1
    BY <1>2
  <2>2. PICK E \in Nat \ {0} : E = m.entry
    BY <1>1
  <2>3. (c * E + 0) \div E = c
    BY DivMod
  <2>4. c * E + 0 = c * E
    OBVIOUS
  <2>5. m.size \div m.entry = c
    BY <1>2, <2>1, <2>2, <2>3, <2>4
  <2> QED
    BY <2>1, <2>5 DEF Slots, ReaderOf
<1>4. /\ r.entry_size = m.entry /\ r.name = m.name /\ r.first_index = m.lo
  BY DEF ReaderOf
<1>5. ASSUME NEW k \in 1 .. m.hi - m.lo + 1, NEW from \in Nat, NEW n \in Nat,
             from + n <= m.entry
      PROVE  SubSeq(Bytes(m, e), At(m, k, from) + 1, At(m, k, from) + n)
               = UnitsOf(e, m.lo + k - 1, from, n)
  BY <1>5, UnitsDecoded
<1>6. ASSUME NEW k \in 1 .. m.hi - m.lo + 1
      PROVE  DecodeTask(r, Bytes(m, e), (k - 1) * r.entry_size, r.first_index + k - 1)
               = TaskAt(m, e, k)
  <2>1. PICK at \in Int : at = (k - 1) * m.entry
    BY <1>1
  <2>2. SubSeq(Bytes(m, e), at + 1, at + PrefixSize) = UnitsOf(e, m.lo + k - 1, 0, PrefixSize)
    <3>1. 0 \in Nat /\ 0 + PrefixSize <= m.entry
      BY <1>1
    <3>2. SubSeq(Bytes(m, e), At(m, k, 0) + 1, At(m, k, 0) + PrefixSize)
            = UnitsOf(e, m.lo + k - 1, 0, PrefixSize)
      BY <1>1, <1>5, <3>1
    <3>3. At(m, k, 0) = at
      BY <1>1, <2>1 DEF At
    <3> QED
      BY <3>2, <3>3
  <2>3. CASE m.name # Unknown
    <3>1. PICK a : a = At(m, k, m.name)
      OBVIOUS
    <3>2. m.name \in Nat /\ m.name + NameSize <= m.entry
      BY <1>1, <2>3
    <3>3. SubSeq(Bytes(m, e), a + 1, a + NameSize) = UnitsOf(e, m.lo + k - 1, m.name, NameSize)
      BY <1>1, <1>5, <3>1, <3>2, SMTT(30)
    <3>4. a = at + m.name
      BY <2>1, <3>1 DEF At
    <3>5. a + 1 = at + m.name + 1 /\ a + NameSize = at + m.name + NameSize
      BY <3>2, <3>4, <1>1
    <3> QED
      BY <1>4, <2>1, <2>2, <2>3, <3>3, <3>5 DEF DecodeTask, TaskAt
  <2>4. CASE m.name = Unknown
    BY <1>4, <2>1, <2>2, <2>4 DEF DecodeTask, TaskAt
  <2> QED
    BY <2>3, <2>4
<1> HIDE DEF r
<1> QED
  BY <1>3, <1>6 DEF DecodeTasks, TasksAt, r

-----------------------------------------------------------------------------
(* A snapshot that is used is of one epoch.                                *)

Holds(s, m, e) == s.tasks = TasksAt(m, e) /\ s.count \in {Unknown, Unavailable, e}
Taken(s) == \E e \in 1 .. Epoch : Holds(s, metas[e], e)

(* Versions and generations only lag behind; a snapshot is blank until the *)
(* tasks are read.                                                         *)
VersionInv ==
  /\ version \in Nat
  /\ cver \in -1 .. version
  /\ answer \in -1 .. version
  /\ arg \in [Threads -> [gen : Int, target : BOOLEAN]]
  /\ seen \in [Threads -> Int]
  /\ sample = [t \in Threads |-> [tasks |-> sample[t].tasks, count |-> sample[t].count]]
  /\ kept = [t \in Threads |-> kept[t]]
  /\ creader.gen <= gen
  /\ \A t \in Threads : reader[t].gen <= gen /\ arg[t].gen <= gen
  /\ \A t \in Threads : pc[t] = "checked" => seen[t] \in 0 .. version
  /\ \A t \in Threads : pc[t] \in {"idle", "read"} => sample[t] = NoSample
  /\ \A t \in Threads : pc[t] = "count" => sample[t].count = Unknown

(* While the version the cache is for is the target's, what was uploaded,  *)
(* built or read in the current generation is of the current symbols.      *)
CacheCurrent ==
  /\ cache = "types" => types = Meta
  /\ cache = "ready" => creader = ReaderOf(Meta, gen) /\ Accepted(Meta)
ThreadCurrent(t) ==
  /\ reader[t].gen = gen => reader[t] = ReaderOf(Meta, gen) /\ Accepted(Meta)
  /\ pc[t] \in {"count", "check"} /\ arg[t].gen = gen => Holds(sample[t], Meta, Epoch)
CurrentInv ==
  /\ cver = version => CacheCurrent /\ \A t \in Threads : ThreadCurrent(t)
  /\ \A t \in Threads :
       pc[t] = "checked" /\ arg[t].gen = gen /\ seen[t] = cver => Taken(sample[t])
  /\ \A t \in Threads : kept[t] # NoSample => Taken(kept[t])

(* The cache starts with no version.                                       *)
LEMMA VersionInit == Init => VersionInv
<1> SUFFICES ASSUME Init PROVE VersionInv
  OBVIOUS
<1>1. NoSample = [tasks |-> NoSample.tasks, count |-> NoSample.count]
  BY DEF NoSample
<1>2. NoArg \in [gen : Int, target : BOOLEAN] /\ NoArg.gen = -1 /\ NoReader.gen = -1
  BY DEF NoArg, NoReader, Unknown
<1>3. /\ sample = [t \in Threads |-> [tasks |-> sample[t].tasks, count |-> sample[t].count]]
      /\ kept = [t \in Threads |-> kept[t]]
  BY <1>1 DEF Init
<1> QED
  BY <1>2, <1>3 DEF Init, VersionInv, Unknown

(* The cache only learns versions the target reported.                     *)
LEMMA VersionStep == DecodeInv /\ VersionInv /\ [Next]_vars => VersionInv'
<1> SUFFICES ASSUME DecodeInv, VersionInv, [Next]_vars PROVE VersionInv'
  OBVIOUS
<1> USE DEF targetVars, cacheVars, threadVars
<1>0. /\ NoSample = [tasks |-> NoSample.tasks, count |-> NoSample.count]
      /\ NoArg \in [gen : Int, target : BOOLEAN] /\ NoArg.gen = -1 /\ NoReader.gen = -1
  BY DEF NoSample, NoArg, NoReader, Unknown
<1>1. gen \in Nat /\ creader.gen \in Int /\ pc \in [Threads -> Steps]
      /\ reader \in [Threads -> Readers] /\ \A t \in Threads : reader[t].gen \in Int
  BY DEF DecodeInv, Readers
<1>2. CASE OnlineChange
  BY <1>2 DEF OnlineChange, VersionInv
<1>3. CASE PollAsks
  BY <1>3 DEF PollAsks, VersionInv
<1>4. CASE PollAnswered
  BY <1>1, <1>4 DEF PollAnswered, Observe, VersionInv, Unknown
<1>5. CASE PollFails
  BY <1>5 DEF PollFails, VersionInv, Unknown
<1>6. CASE Reconnect
  BY <1>1, <1>6 DEF Reconnect, VersionInv, Unknown
<1>7. CASE UploadTypes
  BY <1>7 DEF UploadTypes, VersionInv
<1>8. CASE BuildReader
  <2>1. creader'.gen <= gen
    BY <1>1, <1>8 DEF BuildReader, VersionInv
  <2> QED
    BY <1>8, <2>1 DEF BuildReader, VersionInv
<1>9. ASSUME NEW t \in Threads, TakeReader(t) PROVE VersionInv'
  BY <1>1, <1>9 DEF TakeReader, VersionInv
<1>10. ASSUME NEW t \in Threads, CallRead(t) PROVE VersionInv'
  <2>1. PICK b \in BOOLEAN : arg' = [arg EXCEPT ![t] = [gen |-> gen, target |-> b]]
    BY <1>10 DEF CallRead
  <2>2. /\ arg' \in [Threads -> [gen : Int, target : BOOLEAN]]
        /\ \A u \in Threads : arg'[u].gen <= gen
    BY <1>1, <2>1 DEF VersionInv
  <2>3. kept' = [u \in Threads |-> kept'[u]]
    BY <1>10 DEF CallRead, VersionInv
  <2> QED
    BY <1>1, <1>10, <2>2, <2>3 DEF CallRead, Go, VersionInv
<1>11. ASSUME NEW t \in Threads, pc[t] = "read", ReadErr(t) PROVE VersionInv'
  BY <1>0, <1>1, <1>11 DEF ReadErr, Go, VersionInv
<1>12. ASSUME NEW t \in Threads, ReadTasks(t) PROVE VersionInv'
  <2>1. ~DecodeFails(reader[t])
    BY <1>12, SoundDecodes DEF DecodeInv, ReadTasks, ReadTasksIf
  <2>2. PICK s : sample' = [sample EXCEPT ![t].tasks = s]
    BY <1>12, <2>1 DEF ReadTasks, ReadTasksIf
  <2>3. /\ sample' = [u \in Threads |-> [tasks |-> sample'[u].tasks, count |-> sample'[u].count]]
        /\ \A u \in Threads : u # t => sample'[u] = sample[u]
        /\ sample'[t].count = sample[t].count
    BY <2>2, SMTT(30) DEF VersionInv
  <2>4. pc' = [pc EXCEPT ![t] = IF reader[t].app THEN "count" ELSE "check"] /\ pc[t] = "read"
    BY <1>12, <2>1 DEF ReadTasks, ReadTasksIf, Go
  <2>5. sample[t].count = Unknown
    BY <2>4 DEF VersionInv, NoSample
  <2> QED
    BY <1>1, <1>12, <2>3, <2>4, <2>5 DEF ReadTasks, ReadTasksIf, VersionInv
<1>13. ASSUME NEW t \in Threads, ReadCount(t) PROVE VersionInv'
  <2>1. PICK c : sample' = [sample EXCEPT ![t].count = c]
    BY <1>13 DEF ReadCount
  <2>2. /\ sample' = [u \in Threads |-> [tasks |-> sample'[u].tasks, count |-> sample'[u].count]]
        /\ \A u \in Threads : u # t => sample'[u] = sample[u]
    BY <2>1, SMTT(30) DEF VersionInv
  <2> QED
    BY <1>1, <1>13, <2>2 DEF ReadCount, Go, VersionInv
<1>14. ASSUME NEW t \in Threads, CheckAsks(t) PROVE VersionInv'
  BY <1>1, <1>14 DEF CheckAsks, Go, VersionInv
<1>15. ASSUME NEW t \in Threads, CheckAnswered(t) PROVE VersionInv'
  <2>1. /\ sample' = [u \in Threads |-> [tasks |-> sample'[u].tasks, count |-> sample'[u].count]]
        /\ sample'[t] = NoSample
        /\ \A u \in Threads : u # t => sample'[u] = sample[u]
    BY <1>0, <1>15 DEF CheckAnswered, VersionInv
  <2>2. kept' = [u \in Threads |-> kept'[u]]
    BY <1>15 DEF CheckAnswered, VersionInv
  <2>3. /\ cver' \in -1 .. version' /\ version' \in Nat /\ answer' \in -1 .. version'
        /\ gen' >= gen /\ gen' \in Nat /\ creader' = creader /\ reader' = reader
    <3>1. seen[t] \in 0 .. version /\ version \in Nat /\ cver' = seen[t] /\ version' = version
      BY <1>15 DEF CheckAnswered, Observe, VersionInv
    <3>2. cver' \in -1 .. version
      BY <3>1
    <3>3. gen' \in {gen, gen + 1} /\ creader' = creader /\ reader' = reader /\ answer' = answer
      BY <1>15 DEF CheckAnswered, Observe
    <3> QED
      BY <1>1, <3>1, <3>2, <3>3 DEF VersionInv
  <2>4. /\ arg' \in [Threads -> [gen : Int, target : BOOLEAN]]
        /\ seen' \in [Threads -> Int]
        /\ \A u \in Threads : arg'[u].gen <= gen
    BY <1>0, <1>1, <1>15 DEF CheckAnswered, VersionInv, Unknown
  <2>5. \A u \in Threads : pc'[u] # "idle" => u # t /\ pc'[u] = pc[u] /\ seen'[u] = seen[u]
    BY <1>1, <1>15 DEF CheckAnswered, VersionInv, Go
  <2>6. \A u \in Threads : pc'[u] = "idle" => u = t \/ pc[u] = "idle"
    BY <1>1, <1>15 DEF CheckAnswered, Go
  <2>7. \A u \in Threads : arg'[u].gen \in Int /\ reader[u].gen \in Int
    BY <2>4, <1>1
  <2>8. \A u \in Threads : reader'[u].gen <= gen' /\ arg'[u].gen <= gen'
    BY <1>1, <2>3, <2>4, <2>7 DEF VersionInv
  <2>9. version' = version
    BY <1>15 DEF CheckAnswered
  <2>10. creader'.gen <= gen'
    BY <1>1, <2>3 DEF VersionInv
  <2>11. \A u \in Threads : pc'[u] = "checked" => seen'[u] \in 0 .. version'
    BY <2>5, <2>9 DEF VersionInv
  <2>12. \A u \in Threads : pc'[u] \in {"idle", "read"} => sample'[u] = NoSample
    BY <2>1, <2>5, <2>6 DEF VersionInv
  <2>13. \A u \in Threads : pc'[u] = "count" => sample'[u].count = Unknown
    BY <2>1, <2>5 DEF VersionInv
  <2> QED
    BY <2>1, <2>2, <2>3, <2>4, <2>8, <2>10, <2>11, <2>12, <2>13 DEF VersionInv
<1>16. CASE UNCHANGED vars
  BY <1>16 DEF vars, VersionInv
<1> QED
  BY <1>2, <1>3, <1>4, <1>5, <1>6, <1>7, <1>8, <1>9, <1>10, <1>11, <1>12, <1>13,
     <1>14, <1>15, <1>16 DEF Next, Invalidated, ReadExactFails

(* What was taken stays taken when the target's symbols change.            *)
LEMMA TakenStays ==
  ASSUME DecodeInv, NEW s, Taken(s),
         metas' = metas \/ \E m \in Changing : metas' = Append(metas, m)
  PROVE  Taken(s)'
<1>1. metas \in Seq(Metas)
  BY DEF DecodeInv
<1>2. PICK e \in 1 .. Len(metas) : Holds(s, metas[e], e)
  BY DEF Taken, Epoch
<1>3. Len(metas') >= Len(metas) /\ Len(metas') \in Nat /\ metas'[e] = metas[e]
  BY <1>1
<1>4. e \in 1 .. Len(metas') /\ Holds(s, metas'[e], e)
  BY <1>1, <1>2, <1>3
<1> QED
  BY <1>4 DEF Taken, Epoch, Holds

(* At the start sampling is suspended.                                     *)
LEMMA CurrentInit == Init => CurrentInv
  BY DEF Init, CurrentInv, Unknown

(* The target's symbols change: no version the cache is for is its.        *)
LEMMA CurrentChange ==
  ASSUME DecodeInv, VersionInv, CurrentInv, OnlineChange \/ Reconnect
  PROVE  CurrentInv'
<1> USE DEF targetVars, cacheVars, threadVars
<1>1. /\ \E m \in Changing : metas' = Append(metas, m)
      /\ kept' = kept /\ sample' = sample /\ pc' = pc /\ seen' = seen /\ arg' = arg
  BY DEF OnlineChange, Reconnect
<1>2. cver' # version'
  BY DEF OnlineChange, Reconnect, VersionInv, Unknown
<1>3. \A t \in Threads : pc[t] = "checked" => gen' = gen /\ cver' = cver
  BY DEF OnlineChange, Reconnect
<1>4. \A s : Taken(s) => Taken(s)'
  BY <1>1, TakenStays
<1>5. ASSUME NEW t \in Threads, pc'[t] = "checked", arg'[t].gen = gen', seen'[t] = cver'
      PROVE  Taken(sample[t])'
  <2>1. PICK s : s = sample[t]
    OBVIOUS
  <2>2. Taken(s)
    BY <1>1, <1>3, <1>5, <2>1 DEF CurrentInv
  <2>3. Taken(s)'
    BY <1>4, <2>2
  <2> QED
    BY <1>1, <2>1, <2>3
<1>6. ASSUME NEW t \in Threads, kept'[t] # NoSample
      PROVE  Taken(kept[t])'
  <2>1. PICK s : s = kept[t]
    OBVIOUS
  <2>2. Taken(s)
    BY <1>1, <1>6, <2>1 DEF CurrentInv
  <2>3. Taken(s)'
    BY <1>4, <2>2
  <2> QED
    BY <1>1, <2>1, <2>3
<1> QED
  BY <1>2, <1>5, <1>6 DEF CurrentInv

(* A version is observed: if it is another, whatever the generation before *)
(* it made is no longer of the current one.                                *)
LEMMA CurrentObserved ==
  ASSUME DecodeInv, VersionInv, CurrentInv, NEW v, Observe(v),
         UNCHANGED <<metas, version, reader>>
  PROVE  /\ cver' = version' =>
              /\ CacheCurrent'
              /\ \A t \in Threads :
                   /\ reader'[t].gen = gen' => reader'[t] = ReaderOf(Meta', gen') /\ Accepted(Meta')
                   /\ pc[t] \in {"count", "check"} /\ arg[t].gen = gen' => Holds(sample[t], Meta', Epoch')
         /\ \A t \in Threads :
              arg[t].gen = gen' => gen' = gen /\ cver' = cver
<1>1. /\ gen \in Nat /\ \A t \in Threads : reader[t].gen \in Int /\ arg[t].gen \in Int
      /\ \A t \in Threads : reader[t].gen <= gen /\ arg[t].gen <= gen
  BY DEF DecodeInv, VersionInv, Readers
<1>2. Meta' = Meta /\ Epoch' = Epoch /\ Accepted(Meta') = Accepted(Meta)
  BY DEF Meta, Epoch
<1>3. CASE v = cver
  <2>1. gen' = gen /\ cver' = cver /\ cache' = cache /\ types' = types /\ creader' = creader
    BY <1>3 DEF Observe
  <2>2. CacheCurrent' = CacheCurrent
    BY <1>2, <2>1 DEF CacheCurrent
  <2>3. cver' = version' => CacheCurrent
    BY <2>1 DEF CurrentInv
  <2>4. ASSUME cver' = version', NEW t \in Threads
        PROVE  /\ reader'[t].gen = gen' => reader'[t] = ReaderOf(Meta', gen') /\ Accepted(Meta')
               /\ pc[t] \in {"count", "check"} /\ arg[t].gen = gen' => Holds(sample[t], Meta', Epoch')
    <3>1. ThreadCurrent(t)
      BY <2>1, <2>4 DEF CurrentInv
    <3> QED
      BY <3>1, <2>1, <1>2 DEF ThreadCurrent
  <2> QED
    BY <2>1, <2>2, <2>3, <2>4
<1>4. CASE v # cver
  <2>1. gen' = gen + 1 /\ cache' = "invalid"
    BY <1>4 DEF Observe
  <2>2. CacheCurrent'
    BY <2>1 DEF CacheCurrent
  <2>3. \A t \in Threads : reader'[t].gen # gen' /\ arg[t].gen # gen'
    BY <1>1, <2>1
  <2> QED
    BY <2>2, <2>3
<1> QED
  BY <1>3, <1>4

(* The tasks are read, with a reader of the generation passed.             *)
LEMMA CurrentRead ==
  ASSUME DecodeInv, VersionInv, CurrentInv, NEW t \in Threads, ReadTasks(t)
  PROVE  CurrentInv'
<1> USE DEF targetVars, cacheVars
<1>1. ~DecodeFails(reader[t])
  BY SoundDecodes DEF DecodeInv, ReadTasks, ReadTasksIf
<1>2. /\ pc[t] = "read" /\ arg[t].gen = reader[t].gen /\ arg[t].target
      /\ UNCHANGED <<metas, version, gen, cver, cache, types, creader, reader, arg, seen, kept>>
      /\ pc' = [pc EXCEPT ![t] = IF reader[t].app THEN "count" ELSE "check"]
      /\ sample' = [sample EXCEPT ![t].tasks =
                      DecodeTasks(reader[t], [p \in 1 .. reader[t].size |-> Memory(Epoch, p)])]
  <2>1. /\ pc[t] = "read" /\ arg[t].gen = reader[t].gen /\ arg[t].target
        /\ UNCHANGED <<metas, version, gen, cver, cache, types, creader, reader, arg, seen, kept>>
    BY DEF ReadTasks, ReadTasksIf, Valid
  <2>2. /\ pc' = [pc EXCEPT ![t] = IF reader[t].app THEN "count" ELSE "check"]
        /\ sample' = [sample EXCEPT ![t].tasks =
                        DecodeTasks(reader[t], [p \in 1 .. reader[t].size |->
                                                 IF arg[t].target THEN Memory(Epoch, p)
                                                 ELSE Unit(0, 0, Unknown)])]
    BY <1>1 DEF ReadTasks, ReadTasksIf, Go
  <2>3. [p \in 1 .. reader[t].size |-> IF arg[t].target THEN Memory(Epoch, p)
                                        ELSE Unit(0, 0, Unknown)]
          = [p \in 1 .. reader[t].size |-> Memory(Epoch, p)]
    BY <2>1
  <2> QED
    BY <2>1, <2>2, <2>3
<1>3. \A u \in Threads : u # t => sample'[u] = sample[u] /\ pc'[u] = pc[u]
  BY <1>2 DEF VersionInv, DecodeInv
<1>4. sample'[t].tasks = DecodeTasks(reader[t], [p \in 1 .. reader[t].size |-> Memory(Epoch, p)])
  BY <1>2 DEF VersionInv
<1>5. sample'[t].count = Unknown
  <2>1. PICK x : x = DecodeTasks(reader[t], [p \in 1 .. reader[t].size |-> Memory(Epoch, p)])
    OBVIOUS
  <2>2. sample' = [sample EXCEPT ![t].tasks = x]
    BY <1>2, <2>1
  <2>3. sample'[t].count = sample[t].count
    BY <2>2 DEF VersionInv
  <2>4. pc[t] = "read"
    BY <1>2
  <2>5. sample[t].count = Unknown
    BY <2>4 DEF VersionInv, NoSample
  <2> QED
    BY <2>3, <2>5
<1>6. Meta' = Meta /\ Epoch' = Epoch /\ Accepted(Meta') = Accepted(Meta)
  BY <1>2 DEF Meta, Epoch
<1>7. pc'[t] # "checked"
  BY <1>2 DEF DecodeInv
<1>8. ASSUME cver = version, arg[t].gen = gen PROVE Holds(sample'[t], Meta, Epoch)
  <2>1. reader[t] = ReaderOf(Meta, gen) /\ Accepted(Meta)
    BY <1>2, <1>8 DEF CurrentInv, ThreadCurrent
  <2>2. Meta \in Metas
    BY DecodeTyped
  <2>3. PICK m \in Metas : m = Meta
    BY <2>2
  <2>4. PICK e : e = Epoch
    OBVIOUS
  <2>5. PICK g : g = gen
    OBVIOUS
  <2>6. Accepted(m) /\ metas[e] = m
    BY <2>1, <2>3, <2>4 DEF Meta
  <2>7. DecodeTasks(ReaderOf(m, g), Bytes(m, e)) = TasksAt(m, e)
    BY <2>6, TasksDecoded
  <2>8. ReaderOf(m, g).size = m.size
    BY DEF ReaderOf
  <2>9. sample'[t].tasks = DecodeTasks(ReaderOf(m, g), Bytes(m, e))
    BY <1>4, <2>1, <2>3, <2>4, <2>5, <2>8 DEF Bytes
  <2> QED
    BY <1>5, <2>3, <2>4, <2>7, <2>9 DEF Holds
<1>9. ASSUME cver = version PROVE CacheCurrent' /\ \A u \in Threads : ThreadCurrent(u)'
  <2>1. CacheCurrent /\ \A u \in Threads : ThreadCurrent(u)
    BY <1>9 DEF CurrentInv
  <2>2. CacheCurrent'
    BY <1>2, <1>6, <2>1 DEF CacheCurrent
  <2>3. ASSUME NEW u \in Threads PROVE ThreadCurrent(u)'
    <3>1. CASE u # t
      BY <1>2, <1>3, <1>6, <2>1, <3>1 DEF ThreadCurrent
    <3>2. CASE u = t
      BY <1>2, <1>6, <1>8, <1>9, <2>1, <3>2 DEF ThreadCurrent
    <3> QED
      BY <3>1, <3>2
  <2> QED
    BY <2>2, <2>3
<1>10. \A s : Taken(s) => Taken(s)'
  BY <1>2, TakenStays
<1>11. ASSUME NEW u \in Threads, pc'[u] = "checked", arg'[u].gen = gen', seen'[u] = cver'
       PROVE  Taken(sample[u])'
  <2>1. u # t
    BY <1>7, <1>11
  <2>2. Taken(sample[u])
    BY <1>2, <1>3, <1>11, <2>1 DEF CurrentInv
  <2>3. sample'[u] = sample[u] /\ metas' = metas
    BY <1>2, <1>3, <2>1
  <2> QED
    BY <2>2, <2>3 DEF Taken, Epoch, Holds
<1>12. \A u \in Threads : kept'[u] # NoSample => Taken(kept[u])'
  BY <1>2 DEF CurrentInv, Taken, Epoch, Holds
<1> QED
  BY <1>2, <1>9, <1>11, <1>12 DEF CurrentInv

(* The other steps leave the target and the generation as they are.        *)
LEMMA CurrentStill ==
  ASSUME DecodeInv, CurrentInv, UNCHANGED <<metas, version, gen>>,
         cver' \in {cver, Unknown}, version \in Nat,
         cver' = cver /\ CacheCurrent => CacheCurrent',
         \A t \in Threads :
           cver' = cver /\ ThreadCurrent(t) /\ CacheCurrent /\ cver = version => ThreadCurrent(t)',
         \A t \in Threads :
           pc'[t] = "checked" /\ arg'[t].gen = gen' /\ seen'[t] = cver' => Taken(sample'[t]),
         \A t \in Threads : kept'[t] = kept[t] \/ kept'[t] = NoSample
  PROVE  CurrentInv'
<1>1. cver' = version' => cver = version /\ cver' = cver
  BY DEF Unknown
<1>2. cver' = version' => CacheCurrent' /\ \A t \in Threads : ThreadCurrent(t)'
  BY <1>1 DEF CurrentInv
<1>3. \A s : Taken(s) => Taken(s)'
  BY TakenStays
<1>4. ASSUME NEW t \in Threads, pc'[t] = "checked", arg'[t].gen = gen', seen'[t] = cver'
      PROVE  Taken(sample[t])'
  BY <1>4 DEF Taken, Epoch, Holds
<1>5. ASSUME NEW t \in Threads, kept'[t] # NoSample PROVE Taken(kept[t])'
  <2>1. kept'[t] = kept[t] /\ Taken(kept[t]) /\ metas' = metas
    BY <1>5 DEF CurrentInv
  <2> QED
    BY <2>1 DEF Taken, Epoch, Holds
<1> QED
  BY <1>2, <1>4, <1>5 DEF CurrentInv

(* An observation, with what it may do to a thread.                        *)
LEMMA CurrentAfter ==
  ASSUME DecodeInv, VersionInv, CurrentInv, NEW v, Observe(v),
         UNCHANGED <<metas, version, threadVars>>
  PROVE  CurrentInv'
<1>1. /\ UNCHANGED <<metas, version, reader>>
      /\ pc' = pc /\ arg' = arg /\ sample' = sample /\ seen' = seen /\ kept' = kept
  BY DEF threadVars
<1>2. /\ cver' = version' =>
           /\ CacheCurrent'
           /\ \A t \in Threads :
                /\ reader'[t].gen = gen' => reader'[t] = ReaderOf(Meta', gen') /\ Accepted(Meta')
                /\ pc[t] \in {"count", "check"} /\ arg[t].gen = gen' => Holds(sample[t], Meta', Epoch')
      /\ \A t \in Threads : arg[t].gen = gen' => gen' = gen /\ cver' = cver
  BY <1>1, CurrentObserved
<1>3. cver' = version' => \A t \in Threads : ThreadCurrent(t)'
  BY <1>1, <1>2 DEF ThreadCurrent
<1>4. ASSUME NEW t \in Threads, pc'[t] = "checked", arg'[t].gen = gen', seen'[t] = cver'
      PROVE  Taken(sample[t])'
  <2>1. Taken(sample[t])
    BY <1>1, <1>2, <1>4 DEF CurrentInv
  <2> QED
    BY <1>1, <2>1 DEF Taken, Epoch, Holds
<1>5. ASSUME NEW t \in Threads, kept'[t] # NoSample PROVE Taken(kept[t])'
  <2>1. Taken(kept[t])
    BY <1>1, <1>5 DEF CurrentInv
  <2> QED
    BY <1>1, <2>1 DEF Taken, Epoch, Holds
<1> QED
  BY <1>2, <1>3, <1>4, <1>5 DEF CurrentInv

(* A thread learns the version after its snapshot.                         *)
LEMMA CurrentChecked ==
  ASSUME DecodeInv, VersionInv, CurrentInv, NEW t \in Threads, CheckAnswered(t)
  PROVE  CurrentInv'
<1>1. /\ pc[t] = "checked" /\ Observe(seen[t]) /\ UNCHANGED <<metas, version, reader>>
      /\ pc' = [pc EXCEPT ![t] = "idle"] /\ arg' = [arg EXCEPT ![t] = NoArg]
      /\ sample' = [sample EXCEPT ![t] = NoSample] /\ seen' = [seen EXCEPT ![t] = Unknown]
      /\ kept' = [kept EXCEPT ![t] = IF seen[t] = cver /\ gen = arg[t].gen
                                     THEN sample[t] ELSE NoSample]
  BY DEF CheckAnswered, Go, targetVars
<1>2. PICK v : v = seen[t]
  OBVIOUS
<1>3. Observe(v)
  BY <1>1, <1>2
<1>4. /\ cver' = version' =>
           /\ CacheCurrent'
           /\ \A u \in Threads :
                /\ reader'[u].gen = gen' => reader'[u] = ReaderOf(Meta', gen') /\ Accepted(Meta')
                /\ pc[u] \in {"count", "check"} /\ arg[u].gen = gen' => Holds(sample[u], Meta', Epoch')
      /\ \A u \in Threads : arg[u].gen = gen' => gen' = gen /\ cver' = cver
  BY <1>1, <1>3, CurrentObserved
<1>5. \A u \in Threads : u # t => /\ pc'[u] = pc[u] /\ arg'[u] = arg[u] /\ kept'[u] = kept[u]
                                 /\ sample'[u] = sample[u] /\ seen'[u] = seen[u]
  BY <1>1 DEF DecodeInv, VersionInv
<1>6. pc'[t] = "idle"
  BY <1>1 DEF DecodeInv
<1>7. kept'[t] = IF seen[t] = cver /\ gen = arg[t].gen THEN sample[t] ELSE NoSample
  BY <1>1 DEF VersionInv
<1>8. ASSUME cver' = version', NEW u \in Threads PROVE ThreadCurrent(u)'
  <2>1. CASE u # t
    BY <1>4, <1>5, <1>8, <2>1 DEF ThreadCurrent
  <2>2. CASE u = t
    BY <1>4, <1>6, <1>8, <2>2 DEF ThreadCurrent
  <2> QED
    BY <2>1, <2>2
<1>9. ASSUME NEW u \in Threads, pc'[u] = "checked", arg'[u].gen = gen', seen'[u] = cver'
      PROVE  Taken(sample[u])'
  <2>1. u # t /\ sample'[u] = sample[u]
    BY <1>5, <1>6, <1>9
  <2>2. Taken(sample[u])
    BY <1>4, <1>5, <1>9, <2>1 DEF CurrentInv
  <2> QED
    BY <1>1, <2>1, <2>2 DEF Taken, Epoch, Holds
<1>10. ASSUME NEW u \in Threads, kept'[u] # NoSample PROVE Taken(kept[u])'
  <2>1. Taken(kept'[u])
    <3>1. CASE u # t
      BY <1>5, <1>10, <3>1 DEF CurrentInv
    <3>2. CASE u = t
      BY <1>1, <1>7, <1>10, <3>2 DEF CurrentInv
    <3> QED
      BY <3>1, <3>2
  <2> QED
    BY <1>1, <2>1 DEF Taken, Epoch, Holds
<1> QED
  BY <1>4, <1>8, <1>9, <1>10 DEF CurrentInv

(* One step per action.                                                    *)
LEMMA CurrentStep == DecodeInv /\ VersionInv /\ CurrentInv /\ [Next]_vars => CurrentInv'
<1> SUFFICES ASSUME DecodeInv, VersionInv, CurrentInv, [Next]_vars PROVE CurrentInv'
  OBVIOUS
<1> USE DEF targetVars, cacheVars, threadVars
<1>0. /\ version \in Nat /\ gen \in Nat /\ pc \in [Threads -> Steps] /\ reader \in [Threads -> Readers]
      /\ arg \in [Threads -> [gen : Int, target : BOOLEAN]] /\ seen \in [Threads -> Int]
      /\ kept = [t \in Threads |-> kept[t]]
  BY DEF DecodeInv, VersionInv
<1>1. \A t \in Threads :
        pc[t] = "checked" /\ arg[t].gen = gen /\ seen[t] = cver => Taken(sample[t])
  BY DEF CurrentInv
<1>2. CASE OnlineChange
  BY <1>2, CurrentChange
<1>3. CASE PollAsks
  <2>1. UNCHANGED <<metas, version, gen, cver, cache, types, creader, threadVars>>
    BY <1>3 DEF PollAsks
  <2>2. CacheCurrent => CacheCurrent'
    BY <2>1 DEF CacheCurrent, Meta, Epoch, Accepted
  <2>3. \A t \in Threads : ThreadCurrent(t) => ThreadCurrent(t)'
    BY <2>1 DEF ThreadCurrent, Meta, Epoch, Accepted, Holds
  <2> QED
    BY <1>0, <1>1, <2>1, <2>2, <2>3, CurrentStill
<1>5. CASE PollFails
  <2>1. UNCHANGED <<metas, version, gen, cache, types, creader, threadVars>> /\ cver' = Unknown
    BY <1>5 DEF PollFails
  <2>2. CacheCurrent => CacheCurrent'
    BY <2>1 DEF CacheCurrent, Meta, Epoch, Accepted
  <2>3. \A t \in Threads : ThreadCurrent(t) => ThreadCurrent(t)'
    BY <2>1 DEF ThreadCurrent, Meta, Epoch, Accepted, Holds
  <2>4. \A t \in Threads : ~(pc'[t] = "checked" /\ seen'[t] = cver')
    BY <2>1 DEF VersionInv, Unknown
  <2> QED
    BY <1>0, <2>1, <2>2, <2>3, <2>4, CurrentStill
<1>6. CASE Reconnect
  BY <1>6, CurrentChange
<1>7. CASE UploadTypes
  <2>1. /\ UNCHANGED <<metas, version, gen, cver, creader, threadVars>>
        /\ types' = Meta /\ cache' = "types"
    BY <1>7 DEF UploadTypes
  <2>2. CacheCurrent'
    BY <2>1 DEF CacheCurrent, Meta, Epoch
  <2>3. \A t \in Threads : ThreadCurrent(t) => ThreadCurrent(t)'
    BY <2>1 DEF ThreadCurrent, Meta, Epoch, Accepted, Holds
  <2> QED
    BY <1>0, <1>1, <2>1, <2>2, <2>3, CurrentStill
<1>16. CASE UNCHANGED vars
  <2>1. UNCHANGED <<metas, version, gen, cver, cache, types, creader, threadVars>>
    BY <1>16 DEF vars
  <2>2. CacheCurrent => CacheCurrent'
    BY <2>1 DEF CacheCurrent, Meta, Epoch, Accepted
  <2>3. \A t \in Threads : ThreadCurrent(t) => ThreadCurrent(t)'
    BY <2>1 DEF ThreadCurrent, Meta, Epoch, Accepted, Holds
  <2> QED
    BY <1>0, <1>1, <2>1, <2>2, <2>3, CurrentStill
<1>4. CASE PollAnswered
  <2>1. Observe(answer) /\ UNCHANGED <<metas, version, threadVars>>
    BY <1>4 DEF PollAnswered
  <2>2. PICK v : v = answer
    OBVIOUS
  <2>3. Observe(v) /\ UNCHANGED <<metas, version, reader>>
    BY <2>1, <2>2
  <2> QED
    BY <1>1, <2>1, <2>3, CurrentAfter
<1>8. CASE BuildReader
  <2>1. UNCHANGED <<metas, version, gen, cver, types, threadVars>>
    BY <1>8 DEF BuildReader
  <2>2. Meta' = Meta /\ Epoch' = Epoch /\ Accepted(Meta') = Accepted(Meta)
    BY <2>1 DEF Meta, Epoch
  <2>3. ASSUME CacheCurrent PROVE CacheCurrent'
    <3>1. types = Meta
      BY <1>8, <2>3 DEF BuildReader, CacheCurrent
    <3>2. cache' = "ready" => creader' = ReaderOf(Meta, gen) /\ Accepted(Meta)
      BY <1>8, <3>1 DEF BuildReader, ReaderOf, Accepted
    <3>3. cache' # "types"
      BY <1>8 DEF BuildReader
    <3> QED
      BY <2>1, <2>2, <3>2, <3>3 DEF CacheCurrent
  <2>4. \A t \in Threads : ThreadCurrent(t) => ThreadCurrent(t)'
    BY <2>1 DEF ThreadCurrent, Meta, Epoch, Accepted, Holds
  <2> QED
    BY <1>0, <1>1, <2>1, <2>3, <2>4, CurrentStill
<1>9. ASSUME NEW t \in Threads, TakeReader(t) PROVE CurrentInv'
  <2>1. /\ UNCHANGED <<metas, version, gen, cver, cache, types, creader, pc, arg, sample, seen, kept>>
        /\ reader' = [reader EXCEPT ![t] = creader] /\ cache = "ready"
    BY <1>9 DEF TakeReader
  <2>2. Meta' = Meta /\ Epoch' = Epoch /\ Accepted(Meta') = Accepted(Meta)
    BY <2>1 DEF Meta, Epoch
  <2>3. CacheCurrent => CacheCurrent'
    BY <2>1, <2>2 DEF CacheCurrent
  <2>4. \A u \in Threads : reader'[u] = IF u = t THEN creader ELSE reader[u]
    BY <1>0, <2>1
  <2>5. \A u \in Threads : ThreadCurrent(u) /\ CacheCurrent => ThreadCurrent(u)'
    BY <2>1, <2>2, <2>4 DEF ThreadCurrent, CacheCurrent
  <2> QED
    BY <1>0, <1>1, <2>1, <2>3, <2>5, CurrentStill
<1>10. ASSUME NEW t \in Threads, CallRead(t) PROVE CurrentInv'
  <2>1. /\ UNCHANGED <<metas, version, gen, cver, cache, types, creader, reader, sample, seen>>
        /\ kept' = [kept EXCEPT ![t] = NoSample] /\ pc' = [pc EXCEPT ![t] = "read"]
    BY <1>10 DEF CallRead, Go
  <2>2. \A u \in Threads : u # t => arg'[u] = arg[u] /\ pc'[u] = pc[u]
    BY <1>0, <1>10 DEF CallRead, Go
  <2>3. pc'[t] = "read" /\ \A u \in Threads : kept'[u] = kept[u] \/ kept'[u] = NoSample
    BY <1>0, <2>1
  <2>4. CacheCurrent => CacheCurrent'
    BY <2>1 DEF CacheCurrent, Meta, Epoch, Accepted
  <2>5. \A u \in Threads : ThreadCurrent(u) => ThreadCurrent(u)'
    BY <2>1, <2>2, <2>3 DEF ThreadCurrent, Meta, Epoch, Accepted, Holds
  <2>6. \A u \in Threads :
          pc'[u] = "checked" /\ arg'[u].gen = gen' /\ seen'[u] = cver' => Taken(sample'[u])
    BY <1>1, <2>1, <2>2, <2>3
  <2> QED
    BY <1>0, <2>1, <2>3, <2>4, <2>5, <2>6, CurrentStill
<1>11. ASSUME NEW t \in Threads, ReadErr(t) PROVE CurrentInv'
  <2>1. /\ UNCHANGED <<metas, version, gen, cver, cache, types, creader, reader, sample, seen, kept>>
        /\ pc' = [pc EXCEPT ![t] = "idle"] /\ arg' = [arg EXCEPT ![t] = NoArg]
    BY <1>11 DEF ReadErr, Go
  <2>2. \A u \in Threads : u # t => arg'[u] = arg[u] /\ pc'[u] = pc[u]
    BY <1>0, <2>1
  <2>3. pc'[t] = "idle"
    BY <1>0, <2>1
  <2>4. CacheCurrent => CacheCurrent'
    BY <2>1 DEF CacheCurrent, Meta, Epoch, Accepted
  <2>5. \A u \in Threads : ThreadCurrent(u) => ThreadCurrent(u)'
    BY <2>1, <2>2, <2>3 DEF ThreadCurrent, Meta, Epoch, Accepted, Holds
  <2>6. \A u \in Threads :
          pc'[u] = "checked" /\ arg'[u].gen = gen' /\ seen'[u] = cver' => Taken(sample'[u])
    BY <1>1, <2>1, <2>2, <2>3
  <2> QED
    BY <1>0, <2>1, <2>4, <2>5, <2>6, CurrentStill
<1>12. ASSUME NEW t \in Threads, ReadTasks(t) PROVE CurrentInv'
  BY <1>12, CurrentRead
<1>13. ASSUME NEW t \in Threads, ReadCount(t) PROVE CurrentInv'
  <2>1. /\ UNCHANGED <<metas, version, gen, cver, cache, types, creader, reader, arg, seen, kept>>
        /\ pc' = [pc EXCEPT ![t] = "check"] /\ pc[t] = "count"
    BY <1>13 DEF ReadCount, Go
  <2>2. PICK c \in {Epoch, Unavailable} : sample' = [sample EXCEPT ![t].count = c]
    BY <1>13 DEF ReadCount
  <2>3. \A u \in Threads : u # t => sample'[u] = sample[u] /\ pc'[u] = pc[u]
    BY <1>0, <2>1, <2>2 DEF VersionInv
  <2>4. pc'[t] = "check" /\ sample'[t].tasks = sample[t].tasks /\ sample'[t].count = c
    BY <1>0, <2>1, <2>2 DEF VersionInv
  <2>5. CacheCurrent => CacheCurrent'
    BY <2>1 DEF CacheCurrent, Meta, Epoch, Accepted
  <2>6. Meta' = Meta /\ Epoch' = Epoch /\ Accepted(Meta') = Accepted(Meta)
    BY <2>1 DEF Meta, Epoch
  <2>7. ASSUME NEW u \in Threads, ThreadCurrent(u) PROVE ThreadCurrent(u)'
    <3>1. CASE u # t
      BY <2>1, <2>3, <2>6, <2>7, <3>1 DEF ThreadCurrent
    <3>2. CASE u = t
      <4>1. arg[t].gen = gen => Holds(sample'[t], Meta, Epoch)
        BY <2>1, <2>2, <2>4, <2>7, <3>2 DEF ThreadCurrent, Holds
      <4> QED
        BY <2>1, <2>6, <2>7, <3>2, <4>1 DEF ThreadCurrent
    <3> QED
      BY <3>1, <3>2
  <2>8. \A u \in Threads :
          pc'[u] = "checked" /\ arg'[u].gen = gen' /\ seen'[u] = cver' => Taken(sample'[u])
    BY <1>1, <2>1, <2>3, <2>4
  <2> QED
    BY <1>0, <2>1, <2>5, <2>7, <2>8, CurrentStill
<1>14. ASSUME NEW t \in Threads, CheckAsks(t) PROVE CurrentInv'
  <2>1. /\ UNCHANGED <<metas, version, gen, cver, cache, types, creader, reader, arg, sample, kept>>
        /\ pc' = [pc EXCEPT ![t] = "checked"] /\ pc[t] = "check"
        /\ seen' = [seen EXCEPT ![t] = version]
    BY <1>14 DEF CheckAsks, Go
  <2>2. \A u \in Threads : u # t => seen'[u] = seen[u] /\ pc'[u] = pc[u]
    BY <1>0, <2>1
  <2>3. pc'[t] = "checked" /\ seen'[t] = version
    BY <1>0, <2>1
  <2>4. CacheCurrent => CacheCurrent'
    BY <2>1 DEF CacheCurrent, Meta, Epoch, Accepted
  <2>5. \A u \in Threads : ThreadCurrent(u) => ThreadCurrent(u)'
    BY <2>1, <2>2, <2>3 DEF ThreadCurrent, Meta, Epoch, Accepted, Holds
  <2>6. ASSUME NEW u \in Threads, pc'[u] = "checked", arg'[u].gen = gen', seen'[u] = cver'
        PROVE  Taken(sample'[u])
    <3>1. CASE u # t
      BY <1>1, <2>1, <2>2, <2>6, <3>1
    <3>2. CASE u = t
      <4>1. ThreadCurrent(t)
        BY <2>1, <2>3, <2>6, <3>2 DEF CurrentInv
      <4>2. Holds(sample[t], Meta, Epoch)
        BY <2>1, <2>6, <3>2, <4>1 DEF ThreadCurrent
      <4>3. Epoch \in 1 .. Epoch
        BY DEF DecodeInv, Epoch
      <4> QED
        BY <2>1, <3>2, <4>2, <4>3 DEF Taken, Meta
    <3> QED
      BY <3>1, <3>2
  <2> QED
    BY <1>0, <2>1, <2>4, <2>5, <2>6, CurrentStill
<1>15. ASSUME NEW t \in Threads, CheckAnswered(t) PROVE CurrentInv'
  BY <1>15, CurrentChecked
<1> QED
  BY <1>2, <1>3, <1>4, <1>5, <1>6, <1>7, <1>8, <1>9, <1>10, <1>11, <1>12, <1>13,
     <1>14, <1>15, <1>16 DEF Next, Invalidated, ReadExactFails

(* A snapshot that passes the check after it holds the tasks, indices and  *)
(* names of one epoch of the target, and a count of that epoch or none.    *)
THEOREM KeptCurrent == Spec => []KeptIsCurrent
<1>1. CurrentInv => KeptIsCurrent
  BY TasksOfAt DEF CurrentInv, KeptIsCurrent, Taken, Holds
<1> QED
  BY <1>1, DecodeInit, DecodeStep, VersionInit, VersionStep, CurrentInit, CurrentStep, PTL
     DEF Spec
=============================================================================

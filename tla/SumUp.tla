-------------------------------- MODULE SumUp --------------------------------
(***************************************************************************)
(* Single and sum-up requests (src/src/client.rs).  Device::read and       *)
(* write_read have one buffer for the reply, whose length the _exact       *)
(* variants check; Device::read_multi, write_multi and write_read_multi    *)
(* send several requests in one packet.  communicate distributes the reply *)
(* over the buffers in order; and since the device packs the data of short *)
(* write/reads without gaps, fixup_write_read_return_buffers moves it to   *)
(* the buffers it belongs to.                                              *)
(*                                                                         *)
(* Data bytes are tagged with the request and the position they belong to. *)
(* The four bytes of the reply's length field and the entry of each        *)
(* request in the result list count as one unit.                           *)
(***************************************************************************)
EXTENDS Naturals, Sequences, FiniteSetsExt

CONSTANTS
  MaxReqs,     \* bound: requests in a sum-up
  MaxLen,      \* bound: length of a request's read buffer
  Ops          \* the operations looked at

ASSUME ConstantsAssumption ==
  /\ MaxReqs \in Nat \ {0}
  /\ MaxLen \in Nat
  /\ Ops \subseteq {"single", "exact", "read", "write", "write_read"}

VARIABLES
  op,      \* which of the operations runs
  len,     \* rbuf.len() of each request
  dev,     \* what the device did: success and length per request
  data,    \* the data the device packed behind the result list
  served,  \* requests whose data is in `data`
  reply,   \* the payload communicate received, after the result field
  phase,
  b,       \* the output buffer being filled, 0 for the length field
  taken,   \* units of the reply already distributed
  res,     \* the result entry of each request (zeroed by `new`)
  rbuf,    \* the read buffer of each request
  offs,    \* offsets: initial and actual start of each request's data
  i,       \* the request whose data is being moved
  j,       \* the buffer it is taken from
  j_end,   \* up to where
  size     \* how much of it is still to be moved

deviceVars == <<op, len, dev, data, served, reply>>
fixVars == <<offs, i, j, j_end, size>>
vars == <<deviceVars, phase, b, taken, res, rbuf, fixVars>>

N == Len(len)
Single == op \in {"single", "exact"}
Zero == [req |-> 0, pos |-> 0]
Byte(k, n) == [req |-> k, pos |-> n]
Result(k) == [ok |-> dev[k].ok, act |-> dev[k].act]
Lesser(m, n) == IF m < n THEN m ELSE n

(* The device may claim one unit more than the request asked for.  (If it  *)
(* refuses a single request, communicate returns before the distribution.) *)
Init ==
  /\ op \in Ops
  /\ \E n \in 1 .. IF Single THEN 1 ELSE MaxReqs :
       /\ len \in [1 .. n -> IF op = "write" THEN {0} ELSE 0 .. MaxLen]
       /\ dev \in [1 .. n -> [ok : BOOLEAN, act : 0 .. MaxLen + 1]]
  /\ \A k \in 1 .. N : dev[k].act <= len[k] + 1 /\ (Single => dev[k].ok)
  /\ data = <<>>
  /\ served = 0
  /\ reply = <<>>
  /\ phase = "serve"
  /\ b = 0
  /\ taken = 0
  /\ res = [k \in 1 .. N |-> [ok |-> TRUE, act |-> 0]]
  /\ rbuf = [k \in 1 .. N |-> [p \in 1 .. len[k] |-> Zero]]
  /\ offs = <<>>
  /\ i = 0
  /\ j = 0
  /\ j_end = 0
  /\ size = 0

(* The device executes one request.  SUMUP_READ_EX pads its data to the    *)
(* length asked for, SUMUP_READWRITE packs what was read.                  *)
Serve ==
  /\ phase = "serve"
  /\ served < N
  /\ served' = served + 1
  /\ LET k == served + 1
         width == IF op = "read" THEN len[k] ELSE dev[k].act
     IN data' = data \o [p \in 1 .. width |->
                           IF p <= dev[k].act THEN Byte(k, p) ELSE Zero]
  /\ UNCHANGED <<op, len, dev, reply, phase, b, taken, res, rbuf, fixVars>>

(* Length field, result list, data; a single request has no list, and the  *)
(* length of its data in the length field.                                 *)
Whole == IF Single THEN <<Result(1)>> \o data
         ELSE <<N>> \o [k \in 1 .. N |-> Result(k)] \o data

(* The r_buffers the operation passes: read_len, every res, every rbuf; or *)
(* read_len, which is then the result, and the buffer.                     *)
FirstBuffer == IF Single THEN 1 ELSE 0
LastBuffer == IF op = "write" THEN N ELSE 2 * N
Width(buf) == IF buf <= N THEN 1 ELSE len[buf - N]

(* The reply, complete or cut, reaches communicate, which has checked that *)
(* it fills at least the first output buffer, the length field.            *)
Receive ==
  /\ phase = "serve"
  /\ served = N
  /\ \E n \in 1 .. Len(Whole) : reply' = SubSeq(Whole, 1, n)
  /\ b' = FirstBuffer
  /\ phase' = "distribute"
  /\ UNCHANGED <<op, len, dev, data, served, taken, res, rbuf, fixVars>>

(* `to[at..][..chunk.len()].copy_from_slice(chunk)`.                       *)
Overwrite(to, at, chunk) ==
  [p \in 1 .. Len(to) |->
     IF p > at /\ p <= at + Len(chunk) THEN chunk[p - at] ELSE to[p]]

(* communicate's distribution loop, one output buffer.                     *)
Distribute ==
  /\ phase = "distribute"
  /\ LET n == Lesser(Width(b), Len(reply) - taken)
         chunk == SubSeq(reply, taken + 1, taken + n)
     IN /\ taken' = taken + n
        /\ res' = IF b \in 1 .. N /\ n = 1 THEN [res EXCEPT ![b] = chunk[1]] ELSE res
        /\ rbuf' = IF b > N
                   THEN [rbuf EXCEPT ![b - N] = Overwrite(rbuf[b - N], 0, chunk)]
                   ELSE rbuf
  /\ b' = b + 1
  /\ phase' = IF taken' < Len(reply) /\ b < LastBuffer THEN "distribute"
              ELSE IF op = "exact" THEN "compare"
              ELSE IF op = "write_read" THEN "scan" ELSE "done"
  /\ UNCHANGED <<deviceVars, fixVars>>

(* read_exact and write_read_exact: "got less data than expected", or more. *)
Compare ==
  /\ phase = "compare"
  /\ phase' = IF res[1].act # len[1] THEN "err" ELSE "done"
  /\ UNCHANGED <<deviceVars, b, taken, res, rbuf, fixVars>>

-----------------------------------------------------------------------------
(* fixup_write_read_return_buffers.                                        *)

(* One step of the scan that computes the offsets.                         *)
ScanOne ==
  /\ phase = "scan"
  /\ LET k == Len(offs) + 1
         init_cum == IF k = 1 THEN 0 ELSE offs[k - 1].initial + offs[k - 1].init
         act_cum == IF k = 1 THEN 0 ELSE offs[k - 1].actual + offs[k - 1].act
     IN /\ offs' = Append(offs, [initial |-> init_cum, actual |-> act_cum,
                                 init |-> len[k], act |-> res[k].act])
        /\ i' = k
        /\ phase' = IF k = N THEN "select" ELSE "scan"
  /\ UNCHANGED <<deviceVars, b, taken, res, rbuf, j, j_end, size>>

(* Mutant: the assertion is missing.                                       *)
ScanUnchecked == ScanOne

Scan ==
  /\ phase = "scan"
  /\ len[Len(offs) + 1] >= res[Len(offs) + 1].act
  /\ ScanOne

(* `assert!(init >= act)` fails.                                           *)
ScanPanics ==
  /\ phase = "scan"
  /\ len[Len(offs) + 1] < res[Len(offs) + 1].act
  /\ phase' = "panic"
  /\ UNCHANGED <<deviceVars, b, taken, res, rbuf, fixVars>>

(* The buffer the last byte of request k's data was put in.                *)
LastSource(k) == Max({r \in 1 .. k : offs[r].initial < offs[k].actual + offs[k].act})

NextRequest ==
  /\ i' = i - 1
  /\ phase' = IF i = 1 THEN "done" ELSE "select"

(* The outer loop, from the last request to the first; `skip` is what      *)
(* becomes of a request without data.                                      *)
SelectWith(skip) ==
  /\ phase = "select"
  /\ \/ /\ offs[i].act = 0
        /\ skip
        /\ UNCHANGED <<j, j_end, size>>
     \/ /\ offs[i].act # 0
        /\ offs[i].initial = offs[i].actual
        /\ phase' = "done"
        /\ UNCHANGED <<i, j, j_end, size>>
     \/ /\ offs[i].act # 0
        /\ offs[i].initial # offs[i].actual
        /\ j' = LastSource(i)
        /\ j_end' = offs[i].actual + offs[i].act - offs[LastSource(i)].initial
        /\ size' = offs[i].act
        /\ phase' = "copy"
        /\ UNCHANGED i
  /\ UNCHANGED <<deviceVars, b, taken, res, rbuf, offs>>

(* Mutant: `break` for `continue`.                                         *)
SelectStopsAtEmpty == SelectWith(phase' = "done" /\ UNCHANGED i)

(* Mutant: a loop that does not advance when it continues.                 *)
SelectStays == SelectWith(UNCHANGED <<i, phase>>)

Select == SelectWith(NextRequest)

(* The inner loop, from buffer j down.                                     *)
Copy ==
  /\ phase = "copy"
  /\ LET n == Lesser(j_end, size)
     IN /\ size' = size - n
        /\ rbuf' = [rbuf EXCEPT ![i] =
                      Overwrite(rbuf[i], size', SubSeq(rbuf[j], j_end - n + 1, j_end))]
  /\ \/ /\ size' = 0
        /\ NextRequest
        /\ UNCHANGED <<j, j_end>>
     \/ /\ size' # 0
        /\ j' = j - 1
        /\ j_end' = offs[j'].init
        /\ UNCHANGED <<i, phase>>
  /\ UNCHANGED <<deviceVars, b, taken, res, offs>>

-----------------------------------------------------------------------------

(* What the caller sees afterwards: ensure() of a write, data() of a read. *)
Ensured(k) == res[k].ok
DataOf(k) == SubSeq(rbuf[k], 1, res[k].act)

Ended == phase \in {"done", "err", "panic"}
Finished == Ended /\ UNCHANGED vars

Next == Serve \/ Receive \/ Distribute \/ Compare \/ Scan \/ ScanPanics \/ Select \/ Copy \/ Finished

Spec == Init /\ [][Next]_vars /\ WF_vars(Next)

-----------------------------------------------------------------------------
(* Properties.                                                             *)

(* The device returned no more than each request asked for.                *)
KeptToLengths == \A k \in 1 .. N : dev[k].act <= len[k]

(* After a complete reply of a device that keeps to the lengths asked for, *)
(* every request reports what the device did with it, and data(), or the   *)
(* buffer of a single request, yields exactly the bytes the device         *)
(* returned for that request, whatever the mix of short, empty and full    *)
(* reads around it.                                                        *)
OwnData ==
  Ended /\ reply = Whole /\ KeptToLengths =>
    /\ phase = IF op = "exact" /\ dev[1].act # len[1] THEN "err" ELSE "done"
    /\ \A k \in 1 .. N :
         /\ res[k] = Result(k)
         /\ op # "write" => DataOf(k) = [p \in 1 .. dev[k].act |-> Byte(k, p)]

(* Whatever the device sent, the fixup never slices outside a buffer, and  *)
(* the search "index must be somewhere" always finds one; and after        *)
(* write_read_multi or an _exact request, the length that data() or the    *)
(* caller slices the buffer by is within it.                               *)
CopyInBounds ==
  /\ phase = "done" /\ op \in {"exact", "write_read"} =>
       \A k \in 1 .. N : res[k].act <= len[k]
  /\ phase = "select" /\ offs[i].act # 0 =>
       \E r \in 1 .. i : offs[r].initial < offs[i].actual + offs[i].act
  /\ phase = "copy" =>
       /\ j \in 1 .. i
       /\ j_end \in 0 .. len[j]
       /\ size \in 1 .. len[i]

(* The loops end, also with buffers of length 0.                           *)
Terminates == <>Ended

(* ensure() tells whether the data was written.                            *)
EnsuredWasWritten ==
  phase = "done" /\ op = "write" =>
    \A k \in 1 .. N : Ensured(k) => dev[k].ok
=============================================================================

---------------------------- MODULE SumUp_proofs -----------------------------
(***************************************************************************)
(* Proofs about single and sum-up requests, for any number of requests and *)
(* buffers of any length.                                                  *)
(***************************************************************************)
EXTENDS SumUp, WellFoundedInduction, SequenceTheorems, TLAPS

-----------------------------------------------------------------------------
(* Numbers.                                                                *)

(* Every set of numbers that is not empty has a least element.             *)
LEMMA LeastNat ==
  ASSUME NEW S \in SUBSET Nat, S # {}
  PROVE  \E n \in S : \A m \in S : n <= m
<1> DEFINE R == OpToRel(<, Nat)
<1>1. IsWellFoundedOn(R, Nat)
  BY NatLessThanWellFounded
<1>2. \A m, n \in Nat : m < n => <<m, n>> \in R
  BY DEF OpToRel
<1> HIDE DEF R
<1>3. S \subseteq Nat
  OBVIOUS
<1>4. PICK x \in S : \A y \in S : ~(<<y, x>> \in R)
  BY <1>1, <1>3, WFMin, Zenon
<1>5. ASSUME NEW y \in S PROVE x <= y
  <2>1. x \in Nat /\ y \in Nat /\ ~(y < x)
    BY <1>2, <1>4
  <2> QED
    BY <2>1
<1> QED
  BY <1>5

(* Max is the largest element of a bounded set.                            *)
LEMMA MaxFacts ==
  ASSUME NEW n \in Nat, NEW S \in SUBSET (1 .. n), S # {}
  PROVE  Max(S) \in S /\ \A y \in S : y <= Max(S)
<1> DEFINE T == {d \in Nat : n - d \in S}
<1>1. T \in SUBSET Nat /\ T # {}
  <2>1. PICK x \in S : TRUE
    OBVIOUS
  <2>2. n - x \in Nat /\ n - (n - x) = x
    BY <2>1
  <2> QED
    BY <2>2
<1>2. PICK d \in T : \A m \in T : d <= m
  BY <1>1, LeastNat
<1>3. n - d \in S /\ d \in Nat
  BY <1>2
<1>4. ASSUME NEW y \in S PROVE n - d >= y
  <2>1. n - y \in Nat /\ n - (n - y) = y /\ y \in Nat
    OBVIOUS
  <2>2. d <= n - y
    BY <1>2, <2>1
  <2> QED
    BY <1>3, <2>1, <2>2
<1>5. \E x \in S : \A y \in S : x >= y
  BY <1>3, <1>4
<1>6. Max(S) \in S /\ \A y \in S : Max(S) >= y
  BY <1>5 DEF Max
<1> QED
  BY <1>6

-----------------------------------------------------------------------------
(* Types, and the result list as far as communicate has distributed it.    *)

Outcomes == [ok : BOOLEAN, act : Nat]
Units == Nat \cup Outcomes \cup [req : Nat, pos : Nat]

Typed ==
  /\ op \in Ops
  /\ len \in Seq(Nat) /\ N >= 1 /\ (Single => N = 1)
  /\ dev \in [1 .. N -> Outcomes]
  /\ res \in [1 .. N -> Outcomes]
  /\ data \in Seq(Units)
  /\ served \in 0 .. N

(* As long as the results are handed out, one unit goes to each.           *)
DistributeInv ==
  /\ phase = "serve" => taken = 0
  /\ phase = "distribute" =>
       /\ b \in Nat /\ b >= FirstBuffer
       /\ reply \in Seq(Units)
       /\ \A k \in 1 .. Len(reply) : k \in 1 .. Len(Whole) /\ reply[k] = Whole[k]
       /\ b <= N => taken = b - FirstBuffer /\ taken < Len(reply)

Offsets == [initial : Nat, actual : Nat, init : Nat, act : Nat]

(* The offsets of the requests scanned so far.                             *)
OffsInv ==
  /\ phase \in {"serve", "distribute", "compare"} => offs = <<>>
  /\ phase = "compare" => op = "exact"
  /\ phase \in {"scan", "select", "copy"} =>
       /\ op = "write_read"
       /\ offs \in Seq(Offsets)
       /\ IF phase = "scan" THEN Len(offs) < N ELSE Len(offs) = N /\ i \in 1 .. N
       /\ \A k \in 1 .. Len(offs) :
            /\ offs[k].init = len[k] /\ offs[k].act = res[k].act /\ res[k].act <= len[k]
            /\ offs[k].actual <= offs[k].initial
            /\ IF k = 1 THEN offs[k].initial = 0 /\ offs[k].actual = 0
               ELSE /\ offs[k].initial = offs[k - 1].initial + offs[k - 1].init
                    /\ offs[k].actual = offs[k - 1].actual + offs[k - 1].act

(* The data still to be moved ends where the buffer being copied from is   *)
(* read next.                                                              *)
CopyInv ==
  /\ phase = "copy" =>
       /\ j \in 1 .. i
       /\ j_end \in 0 .. len[j]
       /\ size \in 1 .. offs[i].act
       /\ offs[j].initial + j_end = offs[i].actual + size
  /\ phase = "done" /\ op \in {"exact", "write_read"} =>
       \A k \in 1 .. N : res[k].act <= len[k]

(* What the units of a concatenation are.                                  *)
LEMMA ConcatUnits ==
  ASSUME NEW s \in Seq(Units), NEW t \in Seq(Units)
  PROVE  /\ s \o t \in Seq(Units)
         /\ Len(s \o t) = Len(s) + Len(t)
         /\ \A k \in 1 .. Len(s) : (s \o t)[k] = s[k]
         /\ \A k \in 1 .. Len(t) : (s \o t)[Len(s) + k] = t[k]
OBVIOUS

LEMMA OneUnit ==
  ASSUME NEW s \in Seq(Units), NEW k \in 1 .. Len(s)
  PROVE  SubSeq(s, k, k)[1] = s[k]
OBVIOUS

(* The reply, unit by unit: a length and the results, or one result, then  *)
(* the data.                                                               *)
LEMMA WholeFacts ==
  ASSUME Typed
  PROVE  /\ Whole \in Seq(Units)
         /\ Single => Len(Whole) = 1 + Len(data) /\ Whole[1] = Result(1)
                      /\ \A p \in 1 .. Len(data) : Whole[1 + p] = data[p]
         /\ ~Single => /\ Len(Whole) = 1 + N + Len(data)
                       /\ \A k \in 1 .. N : Whole[1 + k] = Result(k)
                       /\ \A p \in 1 .. Len(data) : Whole[1 + N + p] = data[p]
         /\ \A k \in 1 .. N : Result(k) \in Outcomes
<1>1. N \in Nat /\ N >= 1 /\ data \in Seq(Units) /\ Len(data) \in Nat
  BY DEF Typed, N
<1>2. ASSUME NEW k \in 1 .. N PROVE Result(k) \in Outcomes /\ Result(k) \in Units
  <2>1. dev[k] \in Outcomes
    BY DEF Typed
  <2> QED
    BY <2>1 DEF Result, Outcomes, Units
<1> DEFINE results == [k \in 1 .. N |-> Result(k)]
<1>3. results \in Seq(Units) /\ Len(results) = N /\ \A k \in 1 .. N : results[k] = Result(k)
  BY <1>1, <1>2
<1> HIDE DEF results
<1>4. CASE Single
  <2>1. 1 \in 1 .. N
    BY <1>1
  <2>2. <<Result(1)>> \in Seq(Units) /\ Len(<<Result(1)>>) = 1 /\ <<Result(1)>>[1] = Result(1)
    BY <1>2, <2>1
  <2> DEFINE first == <<Result(1)>>
  <2>3. Whole = first \o data
    BY <1>4 DEF Whole
  <2>4. /\ first \in Seq(Units) /\ Len(first) = 1 /\ first[1] = Result(1)
    BY <2>2
  <2> HIDE DEF first
  <2>5. /\ first \o data \in Seq(Units)
        /\ Len(first \o data) = Len(first) + Len(data)
        /\ \A k \in 1 .. Len(first) : (first \o data)[k] = first[k]
        /\ \A k \in 1 .. Len(data) : (first \o data)[Len(first) + k] = data[k]
    BY <1>1, <2>4, ConcatUnits, Zenon
  <2>6. 1 \in 1 .. Len(first)
    BY <2>4
  <2> QED
    BY <1>2, <1>4, <2>3, <2>4, <2>5, <2>6
<1>5. CASE ~Single
  <2> DEFINE first == <<N>>
  <2> DEFINE front == first \o results
  <2>1. Whole = front \o data
    BY <1>5 DEF Whole, results
  <2>2. first \in Seq(Units) /\ Len(first) = 1
    BY <1>1 DEF Units
  <2> HIDE DEF first
  <2>3. /\ front \in Seq(Units) /\ Len(front) = Len(first) + Len(results)
        /\ \A k \in 1 .. Len(results) : front[Len(first) + k] = results[k]
    BY <1>3, <2>2, ConcatUnits, Zenon
  <2> HIDE DEF front
  <2>4. /\ front \o data \in Seq(Units)
        /\ Len(front \o data) = Len(front) + Len(data)
        /\ \A k \in 1 .. Len(front) : (front \o data)[k] = front[k]
        /\ \A k \in 1 .. Len(data) : (front \o data)[Len(front) + k] = data[k]
    BY <1>1, <2>3, ConcatUnits, Zenon
  <2>5. Len(front) = 1 + N /\ \A k \in 1 .. N : 1 + k \in 1 .. Len(front)
    BY <1>1, <1>3, <2>2, <2>3
  <2>6. \A k \in 1 .. N : front[1 + k] = Result(k)
    BY <1>3, <2>2, <2>3
  <2> QED
    BY <1>2, <1>5, <2>1, <2>4, <2>5, <2>6
<1> QED
  BY <1>4, <1>5

(* One unit of a reply goes to the result of its request.                  *)
LEMMA DistributeResult ==
  ASSUME Typed, DistributeInv, Distribute, b <= N
  PROVE  /\ taken' = taken + 1
         /\ b = 0 => res' = res
         /\ b # 0 => b \in 1 .. N /\ res' = [res EXCEPT ![b] = Result(b)]
<1>1. /\ phase = "distribute" /\ b \in Nat /\ b >= FirstBuffer /\ reply \in Seq(Units)
      /\ taken = b - FirstBuffer /\ taken < Len(reply)
      /\ \A k \in 1 .. Len(reply) : k \in 1 .. Len(Whole) /\ reply[k] = Whole[k]
  BY DEF Distribute, DistributeInv
<1>2. N \in Nat /\ N >= 1 /\ (FirstBuffer = 0 \/ FirstBuffer = 1) /\ Len(reply) \in Nat
  BY <1>1 DEF Typed, N, FirstBuffer
<1>3. taken \in Nat /\ taken + 1 \in 1 .. Len(reply)
  BY <1>1, <1>2
<1> DEFINE n == Lesser(Width(b), Len(reply) - taken)
<1> DEFINE chunk == SubSeq(reply, taken + 1, taken + n)
<1>4. n = 1
  BY <1>1, <1>2, <1>3 DEF Lesser, Width
<1>5. chunk[1] = reply[taken + 1]
  <2>1. chunk = SubSeq(reply, taken + 1, taken + 1)
    BY <1>4
  <2>2. SubSeq(reply, taken + 1, taken + 1)[1] = reply[taken + 1]
    BY <1>1, <1>3, OneUnit
  <2> QED
    BY <2>1, <2>2
<1>6. /\ taken' = taken + n
      /\ res' = IF b \in 1 .. N /\ n = 1 THEN [res EXCEPT ![b] = chunk[1]] ELSE res
  BY DEF Distribute
<1> HIDE DEF n, chunk
<1>7. ASSUME b # 0 PROVE b \in 1 .. N /\ reply[taken + 1] = Result(b)
  <2>1. b \in 1 .. N
    BY <1>1, <1>7
  <2>2. CASE Single
    <3>1. FirstBuffer = 1 /\ N = 1
      BY <2>2 DEF FirstBuffer, Typed
    <3>2. b = 1 /\ taken + 1 = 1
      BY <1>1, <2>1, <3>1
    <3> QED
      BY <1>1, <1>3, <2>1, <2>2, <3>2, WholeFacts
  <2>3. CASE ~Single
    <3>1. FirstBuffer = 0
      BY <2>3 DEF FirstBuffer
    <3>2. taken + 1 = 1 + b
      BY <1>1, <2>1, <3>1
    <3> QED
      BY <1>1, <1>3, <2>1, <2>3, <3>2, WholeFacts
  <2> QED
    BY <2>2, <2>3
<1>8. b = 0 => b \notin 1 .. N
  BY <1>2
<1>9. taken' = taken + 1
  BY <1>4, <1>6
<1>10. b # 0 => b \in 1 .. N /\ res' = [res EXCEPT ![b] = Result(b)]
  BY <1>4, <1>5, <1>6, <1>7
<1> QED
  BY <1>6, <1>8, <1>9, <1>10

(* Buffers begin empty and of the length the callers gave.                 *)
LEMMA TypedInit == Init => Typed
<1> SUFFICES ASSUME Init PROVE Typed
  OBVIOUS
<1>1. PICK n \in 1 .. IF Single THEN 1 ELSE MaxReqs :
        /\ len \in [1 .. n -> IF op = "write" THEN {0} ELSE 0 .. MaxLen]
        /\ dev \in [1 .. n -> [ok : BOOLEAN, act : 0 .. MaxLen + 1]]
  BY DEF Init
<1>2. MaxReqs \in Nat /\ MaxLen \in Nat
  BY ConstantsAssumption
<1>3. n \in Nat /\ n >= 1 /\ (Single => n = 1)
  BY <1>1, <1>2
<1>4. len \in [1 .. n -> Nat]
  BY <1>1, <1>2
<1>5. len \in Seq(Nat) /\ N = n
  BY <1>3, <1>4 DEF N
<1>6. \A x \in [ok : BOOLEAN, act : 0 .. MaxLen + 1] : x \in Outcomes
  BY <1>2 DEF Outcomes
<1>7. dev \in [1 .. N -> Outcomes]
  BY <1>1, <1>5, <1>6
<1>8. res \in [1 .. N -> Outcomes]
  <2>1. [ok |-> TRUE, act |-> 0] \in Outcomes
    BY DEF Outcomes
  <2> QED
    BY <2>1 DEF Init
<1>9. data \in Seq(Units) /\ served \in 0 .. N
  BY <1>3, <1>5 DEF Init
<1> QED
  BY <1>3, <1>5, <1>7, <1>8, <1>9 DEF Init, Typed

(* What the device adds to the data for a request.                         *)
Served(k) ==
  [p \in 1 .. IF op = "read" THEN len[k] ELSE dev[k].act |->
     IF p <= dev[k].act THEN Byte(k, p) ELSE Zero]

(* What the device returns for a request carries request and position.     *)
LEMMA ServedFacts ==
  ASSUME Typed, NEW k \in 1 .. N
  PROVE  /\ Served(k) \in Seq(Units)
         /\ Len(Served(k)) = IF op = "read" THEN len[k] ELSE dev[k].act
         /\ \A p \in 1 .. Len(Served(k)) :
              Served(k)[p] = IF p <= dev[k].act THEN Byte(k, p) ELSE Zero
         /\ len[k] \in Nat /\ dev[k].act \in Nat
<1> DEFINE w == IF op = "read" THEN len[k] ELSE dev[k].act
<1>1. len[k] \in Nat /\ dev[k].act \in Nat /\ k \in Nat
  BY SMTT(30) DEF Typed, N, Outcomes
<1>2. w \in Nat
  BY <1>1
<1>3. \A p \in Nat : Byte(k, p) \in Units
  BY <1>1 DEF Byte, Units
<1>4. Zero \in Units
  BY DEF Zero, Units
<1>5. Served(k) = [p \in 1 .. w |-> IF p <= dev[k].act THEN Byte(k, p) ELSE Zero]
  BY DEF Served
<1> HIDE DEF w
<1>6. Served(k) \in [1 .. w -> Units]
  BY <1>2, <1>3, <1>4, <1>5
<1>7. Served(k) \in Seq(Units) /\ Len(Served(k)) = w
  BY <1>2, <1>6
<1> QED
  BY <1>1, <1>5, <1>7 DEF w

(* The device, the distribution and the fixup keep types.                  *)
LEMMA TypedStep == Typed /\ DistributeInv /\ [Next]_vars => Typed'
<1> SUFFICES ASSUME Typed, DistributeInv, [Next]_vars PROVE Typed'
  OBVIOUS
<1> USE DEF deviceVars, fixVars
<1>1. CASE Serve
  <2>1. N \in Nat /\ served \in 0 .. N /\ served < N
    BY <1>1 DEF Serve, Typed, N
  <2> DEFINE k == served + 1
  <2>2. k \in 1 .. N /\ served' = k
    BY <1>1, <2>1 DEF Serve
  <2>3. data' = data \o Served(k)
    BY <1>1 DEF Serve, Served
  <2> HIDE DEF k
  <2>4. data' \in Seq(Units)
    <3>1. data \in Seq(Units) /\ Served(k) \in Seq(Units)
      BY <2>2, ServedFacts DEF Typed
    <3> QED
      BY <2>3, <3>1, ConcatUnits
  <2>5. UNCHANGED <<op, len, dev, res>>
    BY <1>1 DEF Serve
  <2>6. N' = N /\ Single' = Single /\ served' \in 0 .. N
    BY <2>1, <2>2, <2>5 DEF N, Single
  <2> QED
    BY <2>4, <2>5, <2>6 DEF Typed
<1>2. CASE Distribute
  <2>1. UNCHANGED <<op, len, dev, data, served>> /\ N' = N /\ Single' = Single
    BY <1>2 DEF Distribute, N, Single
  <2>2. res' \in [1 .. N -> Outcomes]
    <3>1. CASE b <= N
      <4>1. \A k \in 1 .. N : Result(k) \in Outcomes
        BY WholeFacts
      <4>2. res' = res \/ (b \in 1 .. N /\ res' = [res EXCEPT ![b] = Result(b)])
        BY <1>2, <3>1, DistributeResult
      <4> QED
        BY <4>1, <4>2 DEF Typed
    <3>2. CASE ~(b <= N)
      <4>1. res' = res
        <5>1. b \in Nat /\ N \in Nat
          BY <1>2 DEF Distribute, DistributeInv, Typed, N
        <5>2. b \notin 1 .. N
          BY <3>2, <5>1
        <5> QED
          BY <1>2, <5>2 DEF Distribute
      <4> QED
        BY <4>1 DEF Typed
    <3> QED
      BY <3>1, <3>2
  <2> QED
    BY <2>1, <2>2 DEF Typed
<1>3. CASE Receive \/ Compare \/ Scan \/ ScanPanics \/ Select \/ Copy \/ Finished \/ UNCHANGED vars
  <2>1. UNCHANGED <<op, len, dev, res, data, served>>
    BY <1>3 DEF Receive, Compare, Scan, ScanOne, ScanPanics, Select, SelectWith, Copy, Finished, vars
  <2> QED
    BY <2>1 DEF Typed, N, Single
<1> QED
  BY <1>1, <1>2, <1>3 DEF Next

(* The distribution takes no more of the reply than there is.              *)
LEMMA DistributeStep == Typed /\ DistributeInv /\ [Next]_vars => DistributeInv'
<1> USE DEF deviceVars, fixVars
<1>a. ASSUME DistributeInv, [Next]_vars, phase' = "serve" PROVE taken' = 0
  BY <1>a DEF DistributeInv, Next, Serve, Receive, Distribute, Compare, Scan, ScanOne, ScanPanics,
              Select, SelectWith, NextRequest, Copy, Finished, vars
<1> SUFFICES ASSUME Typed, DistributeInv, [Next]_vars, phase' = "distribute"
             PROVE  DistributeInv'
  BY <1>a DEF DistributeInv
<1>0. N \in Nat /\ N >= 1 /\ (FirstBuffer = 0 \/ FirstBuffer = 1)
  BY DEF Typed, N, FirstBuffer
<1>1. CASE Receive
  <2>1. PICK n \in 1 .. Len(Whole) : reply' = SubSeq(Whole, 1, n)
    BY <1>1 DEF Receive
  <2>2. Whole \in Seq(Units)
    BY WholeFacts
  <2>3. /\ reply' \in Seq(Units) /\ Len(reply') = n
        /\ \A k \in 1 .. n : k \in 1 .. Len(Whole) /\ reply'[k] = Whole[k]
    BY <2>1, <2>2
  <2>4. /\ UNCHANGED <<op, len, dev, data, taken>>
        /\ b' = FirstBuffer
    BY <1>1 DEF Receive
  <2>5. Whole' = Whole /\ FirstBuffer' = FirstBuffer /\ N' = N
    BY <2>4 DEF Whole, Result, Single, N, FirstBuffer
  <2>6. taken = 0
    BY <1>1 DEF Receive, DistributeInv
  <2> QED
    BY <1>0, <2>1, <2>3, <2>4, <2>5, <2>6 DEF DistributeInv
<1>2. CASE Distribute
  <2>1. UNCHANGED <<op, len, dev, data, reply>> /\ b' = b + 1 /\ phase = "distribute"
    BY <1>2 DEF Distribute
  <2>2. Whole' = Whole /\ FirstBuffer' = FirstBuffer /\ N' = N
    BY <2>1 DEF Whole, Result, Single, N, FirstBuffer
  <2>3. taken' < Len(reply)
    BY <1>2 DEF Distribute
  <2>4. b' <= N => taken' = b' - FirstBuffer
    <3> SUFFICES ASSUME b' <= N PROVE taken' = b' - FirstBuffer
      OBVIOUS
    <3>1. b \in Nat /\ b <= N
      BY <1>0, <2>1 DEF DistributeInv
    <3>2. taken' = taken + 1 /\ taken = b - FirstBuffer
      BY <1>2, <2>1, <3>1, DistributeResult DEF DistributeInv
    <3> QED
      BY <1>0, <2>1, <3>1, <3>2
  <2> QED
    BY <1>0, <2>1, <2>2, <2>3, <2>4 DEF DistributeInv
<1>3. CASE Serve \/ Compare \/ Scan \/ ScanPanics \/ Select \/ Copy
  BY <1>3 DEF Serve, Compare, Scan, ScanOne, ScanPanics, Select, SelectWith, NextRequest, Copy
<1>4. CASE Finished \/ UNCHANGED vars
  BY <1>4 DEF Finished, vars, DistributeInv, Whole, Result, Single, N, FirstBuffer
<1> QED
  BY <1>1, <1>2, <1>3, <1>4 DEF Next

(* An entry of the offset list, in numbers.                                *)
LEMMA OffsFacts ==
  ASSUME Typed, OffsInv, phase \in {"scan", "select", "copy"}, NEW k \in 1 .. Len(offs)
  PROVE  /\ Len(offs) \in Nat /\ Len(offs) <= N /\ N \in Nat
         /\ len[k] \in Nat /\ res[k].act \in Nat
         /\ offs[k].initial \in Nat /\ offs[k].actual \in Nat
         /\ offs[k].init = len[k] /\ offs[k].act = res[k].act /\ res[k].act <= len[k]
         /\ offs[k].actual <= offs[k].initial
         /\ k = 1 => offs[k].initial = 0 /\ offs[k].actual = 0
         /\ k # 1 => /\ k - 1 \in 1 .. Len(offs)
                     /\ offs[k].initial = offs[k - 1].initial + offs[k - 1].init
                     /\ offs[k].actual = offs[k - 1].actual + offs[k - 1].act
<1>1. offs \in Seq(Offsets) /\ N \in Nat /\ Len(offs) \in Nat /\ Len(offs) <= N
  BY DEF OffsInv, Typed, N
<1>2. k \in 1 .. N /\ offs[k] \in Offsets
  BY <1>1
<1>3. len[k] \in Nat /\ res[k] \in Outcomes
  BY <1>2 DEF Typed, N
<1>4. res[k].act \in Nat /\ offs[k].initial \in Nat /\ offs[k].actual \in Nat
  BY <1>2, <1>3 DEF Offsets, Outcomes
<1>5. k # 1 => k - 1 \in 1 .. Len(offs)
  BY <1>1
<1> QED
  BY <1>1, <1>3, <1>4, <1>5 DEF OffsInv

(* The scan gives every request the offsets its predecessors leave.        *)
LEMMA OffsStep == Typed /\ OffsInv /\ [Next]_vars => OffsInv'
<1> SUFFICES ASSUME Typed, OffsInv, [Next]_vars PROVE OffsInv'
  OBVIOUS
<1> USE DEF deviceVars, fixVars
<1>0. N \in Nat /\ N >= 1
  BY DEF Typed, N
<1>1. CASE Scan
  <2> DEFINE k == Len(offs) + 1
  <2> DEFINE first == IF k = 1 THEN 0 ELSE offs[k - 1].initial + offs[k - 1].init
  <2> DEFINE actual == IF k = 1 THEN 0 ELSE offs[k - 1].actual + offs[k - 1].act
  <2> DEFINE o == [initial |-> first, actual |-> actual, init |-> len[k], act |-> res[k].act]
  <2>1. /\ phase = "scan" /\ offs' = Append(offs, o) /\ i' = k /\ len[k] >= res[k].act
        /\ phase' = IF k = N THEN "select" ELSE "scan"
        /\ UNCHANGED <<op, len, res>>
    BY <1>1 DEF Scan, ScanOne
  <2>2. offs \in Seq(Offsets) /\ Len(offs) < N /\ Len(offs) \in Nat /\ op = "write_read"
    BY <2>1 DEF OffsInv
  <2>3. k \in 1 .. N /\ k \in Nat /\ k - 1 = Len(offs)
    BY <1>0, <2>2
  <2>4. len[k] \in Nat /\ res[k].act \in Nat
    BY <2>3 DEF Typed, N, Outcomes
  <2>5. /\ first \in Nat /\ actual \in Nat /\ actual <= first
    <3>1. CASE k = 1
      BY <3>1
    <3>2. CASE k # 1
      <4>1. k - 1 \in 1 .. Len(offs)
        BY <2>2, <3>2
      <4>2. /\ len[k - 1] \in Nat /\ res[k - 1].act \in Nat
            /\ offs[k - 1].initial \in Nat /\ offs[k - 1].actual \in Nat
            /\ offs[k - 1].init = len[k - 1] /\ offs[k - 1].act = res[k - 1].act
            /\ res[k - 1].act <= len[k - 1]
            /\ offs[k - 1].actual <= offs[k - 1].initial
        BY <2>1, <4>1, OffsFacts
      <4> QED
        BY <3>2, <4>2, SMTT(30)
    <3> QED
      BY <3>1, <3>2
  <2>6. o \in Offsets /\ o.initial = first /\ o.actual = actual /\ o.init = len[k] /\ o.act = res[k].act
    BY <2>4, <2>5 DEF Offsets
  <2> HIDE DEF o
  <2>7. /\ offs' \in Seq(Offsets) /\ Len(offs') = k /\ offs'[k] = o
        /\ \A m \in 1 .. k - 1 : offs'[m] = offs[m]
    BY <2>1, <2>2, <2>6
  <2>8. ASSUME NEW m \in 1 .. k
        PROVE  /\ offs'[m].init = len[m] /\ offs'[m].act = res[m].act /\ res[m].act <= len[m]
               /\ offs'[m].actual <= offs'[m].initial
               /\ IF m = 1 THEN offs'[m].initial = 0 /\ offs'[m].actual = 0
                  ELSE /\ offs'[m].initial = offs'[m - 1].initial + offs'[m - 1].init
                       /\ offs'[m].actual = offs'[m - 1].actual + offs'[m - 1].act
    <3>1. CASE m = k
      <4>1. res[m].act <= len[m]
        BY <2>1, <2>4, <3>1
      <4>2. m # 1 => m - 1 \in 1 .. k - 1
        BY <2>3
      <4>3. m # 1 => offs'[m - 1] = offs[m - 1]
        BY <2>7, <4>2
      <4> QED
        BY <2>5, <2>6, <2>7, <3>1, <4>1, <4>3
    <3>2. CASE m # k
      <4>1. m \in 1 .. Len(offs) /\ offs'[m] = offs[m]
            /\ (m # 1 => offs'[m - 1] = offs[m - 1])
        BY <2>2, <2>3, <2>7, <3>2
      <4> QED
        BY <2>1, <4>1 DEF OffsInv
    <3> QED
      BY <3>1, <3>2
  <2>9. N' = N
    BY <2>1 DEF N
  <2>10. /\ phase' \in {"scan", "select"}
         /\ phase' = "scan" => Len(offs') < N
         /\ phase' = "select" => Len(offs') = N /\ i' \in 1 .. N
    BY <1>0, <2>1, <2>3, <2>7
  <2>11. \A m \in 1 .. Len(offs') : m \in 1 .. k
    BY <2>7
  <2> QED
    BY <2>1, <2>2, <2>7, <2>8, <2>9, <2>10, <2>11 DEF OffsInv
<1>2. CASE Select
  <2>1. phase = "select" /\ UNCHANGED <<op, len, res, offs>>
    BY <1>2 DEF Select, SelectWith
  <2>2. N' = N /\ op = "write_read" /\ i \in 1 .. N
    BY <2>1 DEF N, OffsInv
  <2>3. phase' \in {"select", "copy", "done"} /\ (phase' # "done" => i' \in 1 .. N)
    <3>1. \/ i' = i - 1 /\ phase' = IF i = 1 THEN "done" ELSE "select"
          \/ i' = i /\ phase' \in {"done", "copy"}
      BY <1>2 DEF Select, SelectWith, NextRequest
    <3> QED
      BY <1>0, <2>2, <3>1
  <2> QED
    BY <2>1, <2>2, <2>3 DEF OffsInv
<1>3. CASE Copy
  <2>1. phase = "copy" /\ UNCHANGED <<op, len, res, offs>>
    BY <1>3 DEF Copy
  <2>2. N' = N /\ op = "write_read" /\ i \in 1 .. N
    BY <2>1 DEF N, OffsInv
  <2>3. phase' \in {"select", "copy", "done"} /\ (phase' # "done" => i' \in 1 .. N)
    <3>1. \/ i' = i - 1 /\ phase' = IF i = 1 THEN "done" ELSE "select"
          \/ i' = i /\ phase' = phase
      BY <1>3 DEF Copy, NextRequest
    <3> QED
      BY <1>0, <2>1, <2>2, <3>1
  <2> QED
    BY <2>1, <2>2, <2>3 DEF OffsInv
<1>4. CASE Serve \/ Receive \/ Compare \/ ScanPanics
  BY <1>4 DEF Serve, Receive, Compare, ScanPanics, OffsInv
<1>5. CASE Distribute
  <2>1. /\ phase = "distribute" /\ UNCHANGED <<op, len, offs>> /\ offs = <<>> /\ N' = N
        /\ phase' \in {"distribute", "compare", "scan", "done"}
        /\ phase' = "scan" => op = "write_read"
        /\ phase' = "compare" => op = "exact"
    BY <1>5 DEF Distribute, OffsInv, N
  <2>2. Len(offs') = 0 /\ offs' \in Seq(Offsets) /\ 0 < N /\ 1 .. 0 = {}
    BY <1>0, <2>1
  <2> QED
    BY <2>1, <2>2 DEF OffsInv
<1>6. CASE Finished \/ UNCHANGED vars
  BY <1>6 DEF Finished, vars, OffsInv, N
<1> QED
  BY <1>1, <1>2, <1>3, <1>4, <1>5, <1>6 DEF Next

(* The buffer the last byte of a request's data was put in: it holds that  *)
(* byte, and if it is another one, the next begins after it.               *)
LEMMA SourceFacts ==
  ASSUME Typed, OffsInv, phase = "select", offs[i].act # 0
  PROVE  /\ \E r \in 1 .. i : offs[r].initial < offs[i].actual + offs[i].act
         /\ LastSource(i) \in 1 .. i
         /\ (offs[i].actual + offs[i].act) - offs[LastSource(i)].initial \in 1 .. len[LastSource(i)]
<1> DEFINE end == offs[i].actual + offs[i].act
<1> DEFINE S == {r \in 1 .. i : offs[r].initial < end}
<1> DEFINE l == LastSource(i)
<1>1. i \in 1 .. N /\ Len(offs) = N /\ N \in Nat
  BY DEF OffsInv, Typed, N
<1>2. /\ offs[i].actual \in Nat /\ offs[i].act = res[i].act /\ offs[i].act \in Nat
      /\ offs[i].act <= len[i] /\ offs[i].actual <= offs[i].initial
      /\ offs[i].initial \in Nat /\ len[i] \in Nat
  BY <1>1, OffsFacts
<1>3. 1 \in 1 .. Len(offs) /\ 1 \in 1 .. i
  BY <1>1
<1>4. offs[1].initial = 0
  BY <1>3, OffsFacts
<1>5. end \in Nat /\ 0 < end
  BY <1>2
<1>6. 1 \in S
  BY <1>3, <1>4, <1>5
<1>7. S \in SUBSET (1 .. i) /\ S # {} /\ i \in Nat /\ l = Max(S)
  BY <1>1, <1>6 DEF LastSource
<1>8. l \in S /\ \A r \in S : r <= l
  BY <1>7, MaxFacts
<1>9. l \in 1 .. i /\ l \in 1 .. Len(offs) /\ offs[l].initial < end
  BY <1>1, <1>8
<1>10. offs[l].initial \in Nat /\ offs[l].init = len[l] /\ len[l] \in Nat
  BY <1>9, OffsFacts
<1> HIDE DEF l
<1>11. end - offs[l].initial <= len[l]
  <2>1. CASE l = i
    BY <1>2, <2>1
  <2>2. CASE l # i
    <3> DEFINE m == l + 1
    <3>1. m \in 1 .. i /\ m \in 1 .. Len(offs) /\ m # 1 /\ m - 1 = l /\ ~(m <= l)
      BY <1>1, <1>9, <2>2
    <3> HIDE DEF m
    <3>2. ~(offs[m].initial < end)
      BY <1>8, <3>1
    <3>3. offs[m].initial = offs[l].initial + len[l]
      BY <1>10, <3>1, OffsFacts
    <3> QED
      BY <1>5, <1>10, <3>2, <3>3
  <2> QED
    BY <2>1, <2>2
<1>12. end - offs[l].initial \in 1 .. len[l]
  BY <1>5, <1>9, <1>10, <1>11
<1>13. \E r \in 1 .. i : offs[r].initial < end
  BY <1>9
<1> QED
  BY <1>9, <1>12, <1>13 DEF l

(* Selecting goes down to the request in whose buffer the data begins.     *)
LEMMA CopyStep == Typed /\ OffsInv /\ CopyInv /\ [Next]_vars => CopyInv'
<1> SUFFICES ASSUME Typed, OffsInv, CopyInv, [Next]_vars PROVE CopyInv'
  OBVIOUS
<1> USE DEF deviceVars, fixVars
<1>0. N \in Nat /\ N >= 1
  BY DEF Typed, N
<1>1. ASSUME phase \in {"select", "copy"}, NEW k \in 1 .. N PROVE res[k].act <= len[k]
  <2>1. k \in 1 .. Len(offs)
    BY <1>1 DEF OffsInv
  <2> QED
    BY <1>1, <2>1, OffsFacts
<1>2. CASE Select
  <2>1. phase = "select" /\ UNCHANGED <<op, len, res, offs>> /\ N' = N
    BY <1>2 DEF Select, SelectWith, N
  <2>2. CASE phase' # "copy"
    BY <1>1, <2>1, <2>2 DEF CopyInv
  <2>3. CASE phase' = "copy"
    <3>1. /\ offs[i].act # 0 /\ i' = i
          /\ j' = LastSource(i)
          /\ j_end' = offs[i].actual + offs[i].act - offs[LastSource(i)].initial
          /\ size' = offs[i].act
      BY <1>2, <2>3 DEF Select, SelectWith, NextRequest
    <3> DEFINE l == LastSource(i)
    <3>2. l \in 1 .. i /\ (offs[i].actual + offs[i].act) - offs[l].initial \in 1 .. len[l]
      BY <2>1, <3>1, SourceFacts, Zenon
    <3> HIDE DEF l
    <3>3. i \in 1 .. Len(offs) /\ l \in 1 .. Len(offs)
      BY <2>1, <3>2 DEF OffsInv
    <3>4. offs[l].initial \in Nat /\ len[l] \in Nat
      BY <2>1, <3>3, OffsFacts
    <3>5. offs[i].actual \in Nat /\ offs[i].act \in Nat
      BY <2>1, <3>3, OffsFacts
    <3>6. /\ j' = l /\ j_end' = offs[i].actual + offs[i].act - offs[l].initial
      BY <3>1 DEF l
    <3>7. /\ j_end' \in 0 .. len[l] /\ offs[l].initial + j_end' = offs[i].actual + offs[i].act
          /\ offs[i].act \in 1 .. offs[i].act
      BY <3>1, <3>2, <3>4, <3>5, <3>6
    <3> QED
      BY <2>1, <2>3, <3>1, <3>2, <3>6, <3>7 DEF CopyInv
  <2> QED
    BY <2>2, <2>3
<1>3. CASE Copy
  <2>1. phase = "copy" /\ UNCHANGED <<op, len, res, offs>> /\ N' = N
    BY <1>3 DEF Copy, N
  <2>2. CASE phase' # "copy"
    BY <1>1, <2>1, <2>2 DEF CopyInv
  <2>3. CASE phase' = "copy"
    <3>1. /\ i' = i /\ size' # 0 /\ j' = j - 1 /\ j_end' = offs[j'].init
          /\ size' = size - Lesser(j_end, size)
      BY <1>3, <2>3 DEF Copy, NextRequest
    <3>2. /\ j \in 1 .. i /\ j_end \in 0 .. len[j] /\ size \in 1 .. offs[i].act
          /\ offs[j].initial + j_end = offs[i].actual + size
          /\ i \in 1 .. N /\ Len(offs) = N
      BY <2>1 DEF CopyInv, OffsInv
    <3>3. i \in 1 .. Len(offs) /\ j \in 1 .. Len(offs)
      BY <3>2
    <3>4. /\ len[j] \in Nat /\ offs[j].initial \in Nat
          /\ j = 1 => offs[j].initial = 0
          /\ j # 1 => /\ j - 1 \in 1 .. Len(offs)
                      /\ offs[j].initial = offs[j - 1].initial + offs[j - 1].init
      BY <2>1, <3>3, OffsFacts
    <3>5. offs[i].actual \in Nat /\ offs[i].act \in Nat
      BY <2>1, <3>3, OffsFacts
    <3>6. /\ size' = size - j_end /\ size' \in 1 .. offs[i].act
          /\ offs[j].initial = offs[i].actual + size'
      <4>1. j_end \in Nat /\ size \in Nat /\ size <= offs[i].act
        BY <3>2, <3>4, <3>5
      <4>2. size' = size - j_end /\ j_end < size
        BY <3>1, <4>1 DEF Lesser
      <4> DEFINE f == offs[j].initial
      <4> DEFINE a == offs[i].actual
      <4> DEFINE w == offs[i].act
      <4>3. f \in Nat /\ a \in Nat /\ w \in Nat /\ f + j_end = a + size /\ size <= w
        BY <3>2, <3>4, <3>5, <4>1
      <4> HIDE DEF f, a, w
      <4>4. size - j_end \in 1 .. w /\ f = a + (size - j_end)
        BY <4>1, <4>2, <4>3
      <4> QED
        BY <4>2, <4>4 DEF f, a, w
    <3>7. j # 1
      BY <3>4, <3>5, <3>6
    <3>8. /\ offs[j - 1].initial \in Nat /\ offs[j - 1].init = len[j - 1] /\ len[j - 1] \in Nat
      BY <2>1, <3>4, <3>7, OffsFacts
    <3>9. j' \in 1 .. i /\ j_end' \in 0 .. len[j'] /\ offs[j'].initial + j_end' = offs[i].actual + size'
      BY <3>1, <3>2, <3>4, <3>6, <3>7, <3>8
    <3> QED
      BY <2>1, <2>3, <3>1, <3>6, <3>9 DEF CopyInv
  <2> QED
    BY <2>2, <2>3
<1>4. CASE Compare
  <2>1. phase = "compare" /\ op = "exact" /\ UNCHANGED <<op, len, res>> /\ N' = N
    BY <1>4 DEF Compare, OffsInv, N
  <2>2. N = 1
    BY <2>1 DEF Typed, Single
  <2>3. phase' = "done" => res[1].act = len[1]
    BY <1>4 DEF Compare
  <2>4. \A k \in 1 .. N : k = 1
    BY <2>2
  <2>5. len[1] \in Nat
    <3>1. len \in Seq(Nat) /\ Len(len) = 1
      BY <2>2 DEF Typed, N
    <3> QED
      BY <3>1
  <2>6. phase' # "copy"
    BY <1>4 DEF Compare
  <2> QED
    BY <2>1, <2>3, <2>4, <2>5, <2>6 DEF CopyInv
<1>5. CASE Distribute
  BY <1>5 DEF Distribute, CopyInv
<1>6. CASE Serve \/ Receive \/ Scan \/ ScanPanics
  BY <1>6 DEF Serve, Receive, Scan, ScanOne, ScanPanics, CopyInv
<1>7. CASE Finished \/ UNCHANGED vars
  BY <1>7 DEF Finished, vars, CopyInv, N
<1> QED
  BY <1>2, <1>3, <1>4, <1>5, <1>6, <1>7 DEF Next

BoundsInv == Typed /\ DistributeInv /\ OffsInv /\ CopyInv

LEMMA BoundsInit == Init => BoundsInv
<1> SUFFICES ASSUME Init PROVE BoundsInv
  OBVIOUS
<1>1. DistributeInv /\ OffsInv /\ CopyInv
  BY DEF Init, DistributeInv, OffsInv, CopyInv
<1> QED
  BY <1>1, TypedInit DEF BoundsInv

(* What is invariant keeps each slice of the fixup within its buffer.      *)
LEMMA BoundsImply == BoundsInv => CopyInBounds
<1> SUFFICES ASSUME BoundsInv PROVE CopyInBounds
  OBVIOUS
<1>1. ASSUME phase = "select", offs[i].act # 0
      PROVE  \E r \in 1 .. i : offs[r].initial < offs[i].actual + offs[i].act
  BY <1>1, SourceFacts DEF BoundsInv
<1>2. ASSUME phase = "copy" PROVE size \in 1 .. len[i]
  <2>1. i \in 1 .. Len(offs)
    BY <1>2 DEF BoundsInv, OffsInv
  <2>2. offs[i].act = res[i].act /\ res[i].act <= len[i] /\ res[i].act \in Nat /\ len[i] \in Nat
    BY <1>2, <2>1, OffsFacts DEF BoundsInv
  <2>3. size \in 1 .. offs[i].act
    BY <1>2 DEF BoundsInv, CopyInv
  <2> QED
    BY <2>2, <2>3
<1> QED
  BY <1>1, <1>2 DEF BoundsInv, CopyInv, CopyInBounds

(* For any number of requests with buffers of any length and any reply:    *)
(* the fixup after write_read_multi slices only within the buffers, and    *)
(* afterwards no length exceeds its buffer.                                *)
THEOREM FixupInBounds == Spec => []CopyInBounds
<1>1. BoundsInv /\ [Next]_vars => BoundsInv'
  BY TypedStep, DistributeStep, OffsStep, CopyStep DEF BoundsInv
<1> QED
  BY BoundsInit, BoundsImply, <1>1, PTL DEF Spec

-----------------------------------------------------------------------------
(* Every request gets its own data.                                        *)

(* s are the positions at which pieces of the widths w begin, and the end. *)
Sums(n, w, s) ==
  /\ s \in [1 .. n + 1 -> Nat]
  /\ s[1] = 0
  /\ \A k \in 1 .. n : s[k + 1] = s[k] + w[k]
  /\ \A k \in 1 .. n + 1 : \A m \in 1 .. k : s[m] <= s[k]

(* Partial sums of the lengths exist.                                      *)
LEMMA SumsExist ==
  ASSUME NEW n \in Nat, NEW w \in [1 .. n -> Nat]
  PROVE  \E s : Sums(n, w, s)
<1> DEFINE S == {m \in 0 .. n : ~\E s : Sums(m, w, s)}
<1>1. SUFFICES ASSUME S # {} PROVE FALSE
  <2>1. n \in 0 .. n
    OBVIOUS
  <2> QED
    BY <2>1
<1>2. S \in SUBSET Nat
  OBVIOUS
<1>3. PICK m \in S : \A x \in S : m <= x
  BY <1>1, <1>2, LeastNat
<1>4. m \in 0 .. n /\ ~\E s : Sums(m, w, s)
  BY <1>3
<1>5. CASE m = 0
  <2> DEFINE s == [k \in 1 .. 1 |-> 0]
  <2>1. Sums(0, w, s)
    BY DEF Sums
  <2> QED
    BY <1>4, <1>5, <2>1
<1>6. CASE m # 0
  <2> DEFINE l == m - 1
  <2>1. l \in 0 .. n /\ l \in Nat /\ m = l + 1 /\ ~(m <= l) /\ m \in 1 .. n
    BY <1>4, <1>6
  <2>2. l \notin S
    BY <1>3, <2>1
  <2>3. PICK s : Sums(l, w, s)
    BY <2>1, <2>2
  <2> HIDE DEF S, l
  <2> DEFINE t == [k \in 1 .. m + 1 |-> IF k = m + 1 THEN s[m] + w[m] ELSE s[k]]
  <2>4. /\ s \in [1 .. m -> Nat] /\ s[1] = 0
        /\ \A k \in 1 .. l : s[k + 1] = s[k] + w[k]
        /\ \A k \in 1 .. m : \A x \in 1 .. k : s[x] <= s[k]
    BY <2>1, <2>3 DEF Sums
  <2>5. w[m] \in Nat /\ s[m] \in Nat /\ m \in Nat
    BY <2>1, <2>4
  <2>6. /\ \A k \in 1 .. m : k \in 1 .. m + 1 /\ k # m + 1
        /\ \A k \in 1 .. m + 1 : k = m + 1 \/ k \in 1 .. m
        /\ 1 \in 1 .. m /\ m \in 1 .. m /\ m + 1 \in 1 .. m + 1
    BY <2>1, <2>5
  <2>7. t[m + 1] = s[m] + w[m] /\ \A k \in 1 .. m : t[k] = s[k]
    BY <2>6
  <2>8. t \in [1 .. m + 1 -> Nat]
    BY <2>4, <2>5, <2>6
  <2> HIDE DEF t
  <2>9. ASSUME NEW k \in 1 .. m PROVE t[k + 1] = t[k] + w[k]
    <3>1. CASE k = m
      BY <2>6, <2>7, <3>1
    <3>2. CASE k # m
      <4>1. k \in 1 .. l /\ k + 1 \in 1 .. m
        BY <2>1, <2>5, <3>2
      <4> QED
        BY <2>4, <2>7, <4>1
    <3> QED
      BY <3>1, <3>2
  <2>10. ASSUME NEW k \in 1 .. m + 1, NEW x \in 1 .. k PROVE t[x] <= t[k]
    <3>1. CASE k \in 1 .. m
      <4>1. x \in 1 .. m
        BY <2>5, <3>1
      <4> QED
        BY <2>4, <2>7, <3>1, <4>1
    <3>2. CASE k = m + 1
      <4>1. CASE x = m + 1
        BY <2>6, <2>8, <3>2, <4>1
      <4>2. CASE x # m + 1
        <5>1. x \in 1 .. m
          BY <2>5, <3>2, <4>2
        <5>2. t[x] = s[x] /\ s[x] <= s[m] /\ s[x] \in Nat
          BY <2>4, <2>6, <2>7, <5>1
        <5> QED
          BY <2>5, <2>7, <3>2, <5>2
      <4> QED
        BY <4>1, <4>2
    <3> QED
      BY <2>6, <3>1, <3>2
  <2>11. Sums(m, w, t)
    BY <2>4, <2>6, <2>7, <2>8, <2>9, <2>10 DEF Sums
  <2> QED
    BY <1>4, <2>11
<1> QED
  BY <1>5, <1>6

(* Narrower pieces begin no later, and fall back further and further.      *)
LEMMA SumsGap ==
  ASSUME NEW n \in Nat, NEW w \in [1 .. n -> Nat], NEW v \in [1 .. n -> Nat],
         NEW d, NEW e, Sums(n, w, d), Sums(n, v, e),
         \A k \in 1 .. n : w[k] <= v[k]
  PROVE  \A k \in 1 .. n + 1 : \A m \in 1 .. k : e[m] + d[k] <= e[k] + d[m]
<1> DEFINE Bad == {k \in 1 .. n + 1 : ~\A m \in 1 .. k : e[m] + d[k] <= e[k] + d[m]}
<1>1. SUFFICES ASSUME Bad # {} PROVE FALSE
  OBVIOUS
<1>2. Bad \in SUBSET Nat
  OBVIOUS
<1>3. PICK k \in Bad : \A x \in Bad : k <= x
  BY <1>1, <1>2, LeastNat
<1>4. k \in 1 .. n + 1 /\ k \in Nat
  BY <1>3
<1>5. PICK m \in 1 .. k : ~(e[m] + d[k] <= e[k] + d[m])
  BY <1>3
<1>6. m \in 1 .. n + 1 /\ m # k
  <2>1. m \in 1 .. n + 1
    BY <1>4
  <2>2. d \in [1 .. n + 1 -> Nat] /\ e \in [1 .. n + 1 -> Nat]
    BY DEF Sums
  <2>3. d[k] \in Nat /\ e[k] \in Nat
    BY <1>4, <2>2
  <2>4. e[k] + d[k] <= e[k] + d[k]
    BY <2>3
  <2> QED
    BY <1>5, <2>1, <2>4
<1> DEFINE l == k - 1
<1>7. /\ l \in 1 .. n /\ l + 1 = k /\ l \in 1 .. n + 1 /\ m \in 1 .. l /\ ~(k <= l)
  BY <1>4, <1>6
<1>8. l \notin Bad
  BY <1>3, <1>7
<1> HIDE DEF l
<1>9. e[m] + d[l] <= e[l] + d[m]
  BY <1>7, <1>8
<1> HIDE DEF Bad
<1>10. /\ d[k] = d[l] + w[l] /\ e[k] = e[l] + v[l] /\ w[l] <= v[l]
       /\ w[l] \in Nat /\ v[l] \in Nat
  BY <1>7 DEF Sums
<1>11. d[l] \in Nat /\ e[l] \in Nat /\ d[m] \in Nat /\ e[m] \in Nat
  BY <1>6, <1>7 DEF Sums
<1>12. \A a, x, f, g, y, z \in Nat : a + x <= f + g /\ y <= z => a + (x + y) <= (f + z) + g
  OBVIOUS
<1>13. e[m] + d[k] <= e[k] + d[m]
  BY <1>9, <1>10, <1>11, <1>12
<1> QED
  BY <1>5, <1>13

(* What copy_from_slice leaves and what it replaces.                       *)
LEMMA OverwriteFacts ==
  ASSUME NEW to \in Seq(Units), NEW at \in Nat, NEW chunk \in Seq(Units)
  PROVE  LET o == Overwrite(to, at, chunk)
         IN  /\ o \in Seq(Units) /\ Len(o) = Len(to)
             /\ \A p \in 1 .. Len(to) :
                  o[p] = IF p > at /\ p <= at + Len(chunk) THEN chunk[p - at] ELSE to[p]
<1> DEFINE o == Overwrite(to, at, chunk)
<1> DEFINE l == Len(to)
<1>1. l \in Nat /\ Len(chunk) \in Nat
  OBVIOUS
<1>2. o = [p \in 1 .. l |-> IF p > at /\ p <= at + Len(chunk) THEN chunk[p - at] ELSE to[p]]
  BY DEF Overwrite
<1>3. ASSUME NEW p \in 1 .. l
      PROVE  (IF p > at /\ p <= at + Len(chunk) THEN chunk[p - at] ELSE to[p]) \in Units
  <2>1. CASE p > at /\ p <= at + Len(chunk)
    <3>1. p - at \in 1 .. Len(chunk)
      BY <1>1, <2>1
    <3> QED
      BY <2>1, <3>1
  <2>2. CASE ~(p > at /\ p <= at + Len(chunk))
    BY <2>2
  <2> QED
    BY <2>1, <2>2
<1> HIDE DEF l, o
<1>4. o \in [1 .. l -> Units]
  BY <1>2, <1>3
<1>5. o \in Seq(Units) /\ Len(o) = l
  BY <1>1, <1>4
<1> QED
  BY <1>2, <1>5 DEF o, l

(* What a slice holds.                                                     *)
LEMMA PieceFacts ==
  ASSUME NEW s \in Seq(Units), NEW m \in Nat, NEW n \in Nat, m + n <= Len(s)
  PROVE  LET c == SubSeq(s, m + 1, m + n)
         IN  c \in Seq(Units) /\ Len(c) = n /\ \A p \in 1 .. n : c[p] = s[m + p]
OBVIOUS

(* What the device adds for each request, and where in the data.           *)
Widths == [k \in 1 .. N |-> IF op = "read" THEN len[k] ELSE dev[k].act]
LaidOut(d) ==
  /\ Len(data) = d[served + 1]
  /\ \A k \in 1 .. served : \A p \in 1 .. Widths[k] : data[d[k] + p] = Served(k)[p]

(* The reply is complete, of a device that keeps to the lengths asked for. *)
Good == phase # "serve" /\ reply = Whole /\ KeptToLengths

(* A buffer has what communicate put there, or its own data.               *)
Filled(k, e) == \A p \in 1 .. len[k] : e[k] + p <= Len(data) => rbuf[k][p] = data[e[k] + p]
Own(k) == \A p \in 1 .. dev[k].act : rbuf[k][p] = Byte(k, p)

Buffers == rbuf \in [1 .. N -> Seq(Units)] /\ \A k \in 1 .. N : Len(rbuf[k]) = len[k]
Header == IF Single THEN 1 ELSE N + 1

(* While communicate distributes the reply.                                *)
Distributing(e) ==
  /\ b <= LastBuffer
  /\ \A k \in 1 .. N : k < b => res[k] = Result(k)
  /\ b > N => /\ taken = Header + e[b - N] /\ taken < Len(reply)
              /\ \A k \in 1 .. N : k < b - N => Filled(k, e)

(* While fixup_write_read_return_buffers moves data, from the last request *)
(* to the first.                                                           *)
Moving(d, e) ==
  /\ \A k \in 1 .. Len(offs) : offs[k].initial = e[k] /\ offs[k].actual = d[k]
  /\ phase # "scan" =>
       /\ \A k \in 1 .. N : k < i => Filled(k, e)
       /\ \A k \in 1 .. N : k > i => Own(k)
  /\ phase = "select" => Filled(i, e)
  /\ phase = "copy" =>
       /\ j = i => size = dev[i].act /\ Filled(i, e)
       /\ \A p \in 1 .. dev[i].act : p > size => rbuf[i][p] = Byte(i, p)

Flow(d, e) ==
  /\ served = N
  /\ Buffers
  /\ phase = "distribute" => Distributing(e)
  /\ phase # "distribute" => \A k \in 1 .. N : res[k] = Result(k)
  /\ phase \in {"compare", "scan"} => \A k \in 1 .. N : Filled(k, e)
  /\ phase \in {"scan", "select", "copy"} => Moving(d, e)
  /\ phase \in {"done", "err"} /\ op # "write" => \A k \in 1 .. N : Own(k)
  /\ phase \in {"distribute", "compare", "scan", "select", "copy", "done", "err"}
  /\ phase = "err" <=> op = "exact" /\ phase \in {"done", "err"} /\ dev[1].act # len[1]

OwnInv ==
  \E d, e :
    /\ Sums(N, Widths, d) /\ Sums(N, len, e) /\ (op = "read" => d = e)
    /\ LaidOut(d)
    /\ phase = "serve" => Buffers
    /\ Good => Flow(d, e)

(* How much of the reply belongs to each request.                          *)
LEMMA WidthsType ==
  ASSUME Typed
  PROVE  /\ Widths \in [1 .. N -> Nat] /\ len \in [1 .. N -> Nat] /\ N \in Nat /\ N >= 1
         /\ \A k \in 1 .. N :
              /\ Widths[k] = (IF op = "read" THEN len[k] ELSE dev[k].act)
              /\ len[k] \in Nat /\ dev[k].act \in Nat
              /\ Served(k) \in Seq(Units) /\ Len(Served(k)) = Widths[k]
              /\ \A p \in 1 .. Widths[k] :
                   Served(k)[p] = IF p <= dev[k].act THEN Byte(k, p) ELSE Zero
<1>1. N \in Nat /\ N >= 1 /\ len \in [1 .. N -> Nat]
  BY DEF Typed, N
<1>2. ASSUME NEW k \in 1 .. N
      PROVE  /\ Widths[k] = (IF op = "read" THEN len[k] ELSE dev[k].act)
             /\ len[k] \in Nat /\ dev[k].act \in Nat
             /\ Served(k) \in Seq(Units) /\ Len(Served(k)) = Widths[k]
             /\ \A p \in 1 .. Widths[k] :
                  Served(k)[p] = IF p <= dev[k].act THEN Byte(k, p) ELSE Zero
  <2>1. Widths[k] = (IF op = "read" THEN len[k] ELSE dev[k].act)
    BY DEF Widths
  <2> QED
    BY <2>1, ServedFacts
<1>3. Widths \in [1 .. N -> Nat]
  <2>1. \A k \in 1 .. N : Widths[k] \in Nat
    BY <1>2
  <2> QED
    BY <2>1 DEF Widths
<1> QED
  BY <1>1, <1>2, <1>3

LEMMA OwnInit == Init => OwnInv
<1> SUFFICES ASSUME Init PROVE OwnInv
  OBVIOUS
<1>1. Typed
  BY TypedInit
<1>2. /\ Widths \in [1 .. N -> Nat] /\ len \in [1 .. N -> Nat] /\ N \in Nat
      /\ \A k \in 1 .. N : len[k] \in Nat
  BY <1>1, WidthsType
<1>3. PICK e : Sums(N, len, e)
  BY <1>2, SumsExist
<1>4. PICK d : Sums(N, Widths, d) /\ (op = "read" => d = e)
  <2>1. CASE op = "read"
    <3>1. Sums(N, Widths, e)
      <4>1. \A k \in 1 .. N : Widths[k] = len[k]
        BY <2>1 DEF Widths
      <4> QED
        BY <1>3, <4>1 DEF Sums
    <3> QED
      BY <3>1
  <2>2. CASE op # "read"
    <3>1. \E d : Sums(N, Widths, d)
      BY <1>2, SumsExist
    <3> QED
      BY <2>2, <3>1
  <2> QED
    BY <2>1, <2>2
<1>5. LaidOut(d)
  <2>1. served = 0 /\ data = <<>>
    BY DEF Init
  <2>2. d[1] = 0
    BY <1>4 DEF Sums
  <2>3. 1 .. served = {} /\ served + 1 = 1
    BY <2>1
  <2> QED
    BY <2>1, <2>2, <2>3 DEF LaidOut
<1>6. Buffers
  <2>1. Zero \in Units
    BY DEF Zero, Units
  <2>2. \A k \in 1 .. N : rbuf[k] = [p \in 1 .. len[k] |-> Zero]
    BY DEF Init
  <2>3. ASSUME NEW k \in 1 .. N PROVE rbuf[k] \in Seq(Units) /\ Len(rbuf[k]) = len[k]
    <3>1. rbuf[k] \in [1 .. len[k] -> Units] /\ len[k] \in Nat
      BY <1>2, <2>1, <2>2
    <3> QED
      BY <3>1
  <2>4. rbuf = [k \in 1 .. N |-> rbuf[k]]
    BY DEF Init
  <2> QED
    BY <2>3, <2>4 DEF Buffers
<1>7. phase = "serve"
  BY DEF Init
<1> QED
  BY <1>3, <1>4, <1>5, <1>6, <1>7 DEF OwnInv, Good

(* What does not change once the device has served every request.          *)
LEMMA FlowFrame ==
  ASSUME UNCHANGED <<op, len, dev, data, served>>
  PROVE  /\ N' = N /\ Widths' = Widths /\ Whole' = Whole /\ Single' = Single
         /\ Header' = Header /\ LastBuffer' = LastBuffer /\ FirstBuffer' = FirstBuffer
         /\ KeptToLengths' = KeptToLengths
         /\ \A k : Result(k)' = Result(k)
         /\ \A d : LaidOut(d)' = LaidOut(d)
         /\ \A n, w, x : Sums(n, w, x)' = Sums(n, w, x)
<1>1. N' = N /\ Single' = Single
  BY DEF N, Single
<1>2. \A k : Result(k)' = Result(k)
  BY DEF Result
<1>3. Widths' = Widths /\ Header' = Header /\ LastBuffer' = LastBuffer /\ FirstBuffer' = FirstBuffer
  BY <1>1 DEF Widths, Header, LastBuffer, FirstBuffer
<1>4. Whole' = Whole /\ KeptToLengths' = KeptToLengths
  BY <1>1, <1>2 DEF Whole, KeptToLengths
<1>5. \A d : LaidOut(d)' = LaidOut(d)
  BY <1>3 DEF LaidOut, Served
<1>6. \A n, w, x : Sums(n, w, x)' = Sums(n, w, x)
  BY DEF Sums
<1> QED
  BY <1>1, <1>2, <1>3, <1>4, <1>5, <1>6

(* The data of a request is where its widths say.                          *)
LEMMA DataAt ==
  ASSUME Typed, NEW d, Sums(N, Widths, d), LaidOut(d), served = N, KeptToLengths,
         NEW k \in 1 .. N, NEW p \in 1 .. dev[k].act
  PROVE  /\ d[k] \in Nat /\ p \in 1 .. len[k]
         /\ d[k] + p \in 1 .. Len(data) /\ data[d[k] + p] = Byte(k, p)
<1>1. /\ N \in Nat /\ Widths \in [1 .. N -> Nat]
      /\ Widths[k] = (IF op = "read" THEN len[k] ELSE dev[k].act)
      /\ len[k] \in Nat /\ dev[k].act \in Nat
      /\ \A q \in 1 .. Widths[k] :
           Served(k)[q] = IF q <= dev[k].act THEN Byte(k, q) ELSE Zero
  BY WidthsType
<1>2. dev[k].act <= len[k]
  BY DEF KeptToLengths
<1>3. p \in 1 .. Widths[k] /\ p \in 1 .. len[k] /\ p <= dev[k].act /\ Widths[k] \in Nat
  BY <1>1, <1>2
<1>4. /\ d \in [1 .. N + 1 -> Nat] /\ d[k + 1] = d[k] + Widths[k]
      /\ \A x \in 1 .. N + 1 : \A m \in 1 .. x : d[m] <= d[x]
  BY DEF Sums
<1>5. k \in 1 .. N + 1 /\ N + 1 \in 1 .. N + 1 /\ k + 1 \in 1 .. N + 1
  BY <1>1
<1>6. d[k] \in Nat /\ d[N + 1] \in Nat /\ d[k + 1] <= d[N + 1] /\ Len(data) = d[N + 1]
  BY <1>4, <1>5 DEF LaidOut
<1>7. d[k] + p \in 1 .. Len(data)
  <2>1. d[k] + Widths[k] <= Len(data)
    BY <1>4, <1>6
  <2> QED
    BY <1>3, <1>6, <2>1
<1>8. data[d[k] + p] = Served(k)[p]
  BY <1>3 DEF LaidOut
<1> QED
  BY <1>1, <1>3, <1>6, <1>7, <1>8

(* A buffer into which the data was put at its own place is right.         *)
LEMMA OwnBytes ==
  ASSUME Typed, NEW d, Sums(N, Widths, d), LaidOut(d), served = N, KeptToLengths,
         NEW e, NEW k \in 1 .. N, d[k] = e[k], NEW x,
         \A p \in 1 .. len[k] : e[k] + p <= Len(data) => x[p] = data[e[k] + p]
  PROVE  \A p \in 1 .. dev[k].act : x[p] = Byte(k, p)
<1> SUFFICES ASSUME NEW p \in 1 .. dev[k].act PROVE x[p] = Byte(k, p)
  OBVIOUS
<1>1. /\ p \in 1 .. len[k] /\ d[k] + p \in 1 .. Len(data) /\ data[d[k] + p] = Byte(k, p)
  BY DataAt
<1>2. e[k] + p <= Len(data)
  BY <1>1
<1> QED
  BY <1>1, <1>2

(* Without the fixup, data is put at its own place.                        *)
LEMMA SamePlace ==
  ASSUME Typed, NEW d, NEW e, Sums(N, Widths, d), Sums(N, len, e), op = "read" => d = e,
         op \in {"single", "exact", "read"}, NEW k \in 1 .. N
  PROVE  d[k] = e[k]
<1>1. CASE op = "read"
  BY <1>1
<1>2. CASE op # "read"
  <2>1. N = 1
    BY <1>2 DEF Typed, Single
  <2>2. k = 1
    BY <2>1
  <2> QED
    BY <2>2 DEF Sums
<1> QED
  BY <1>1, <1>2

(* The distribution of a complete reply has ended.                         *)
LEMMA DistributionEnds ==
  ASSUME Typed, OffsInv, NEW d, NEW e, Sums(N, Widths, d), Sums(N, len, e), op = "read" => d = e,
         LaidOut(d), Good, Flow(d, e), Distribute, phase' # "distribute", Buffers',
         \A k \in 1 .. N : res'[k] = Result(k),
         op # "write" => \A k \in 1 .. N : Filled(k, e)'
  PROVE  Flow(d, e)'
<1>1. /\ UNCHANGED <<op, len, dev, data, served, offs>> /\ phase = "distribute"
      /\ phase' = IF op = "exact" THEN "compare" ELSE IF op = "write_read" THEN "scan" ELSE "done"
  BY DEF Distribute, deviceVars, fixVars
<1>2. N' = N /\ \A k : Result(k)' = Result(k)
  BY <1>1, FlowFrame
<1>3. served = N /\ KeptToLengths
  BY DEF Flow, Good
<1>4. phase' = "scan" => Moving(d, e)'
  <2>1. offs' = <<>>
    BY <1>1 DEF OffsInv
  <2>2. 1 .. Len(offs') = {}
    BY <2>1
  <2> QED
    BY <2>2 DEF Moving
<1>5. ASSUME phase' = "done", op # "write", NEW k \in 1 .. N PROVE Own(k)'
  <2>1. op \in {"single", "read"}
    BY <1>1, <1>5, ConstantsAssumption DEF Typed
  <2>2. d[k] = e[k]
    BY <2>1, SamePlace
  <2>3. \A p \in 1 .. len[k] : e[k] + p <= Len(data) => rbuf'[k][p] = data[e[k] + p]
    BY <1>1, <1>5 DEF Filled
  <2>4. \A p \in 1 .. dev[k].act : rbuf'[k][p] = Byte(k, p)
    BY <1>3, <2>2, <2>3, OwnBytes
  <2> QED
    BY <1>1, <2>4 DEF Own, Byte
<1>6. phase' \in {"compare", "scan"} => op # "write"
  BY <1>1
<1>7. phase' # "err" /\ (op = "exact" => phase' = "compare")
  BY <1>1
<1> QED
  BY <1>1, <1>2, <1>3, <1>4, <1>5, <1>6, <1>7 DEF Flow

(* A result is handed out.                                                 *)
LEMMA FlowResult ==
  ASSUME Typed, DistributeInv, OffsInv, NEW d, NEW e, Sums(N, Widths, d), Sums(N, len, e),
         op = "read" => d = e, LaidOut(d), Good, Flow(d, e), Distribute, b <= N
  PROVE  Flow(d, e)'
<1>1. /\ UNCHANGED <<op, len, dev, data, served, reply>> /\ phase = "distribute" /\ b' = b + 1
      /\ phase' = (IF taken' < Len(reply) /\ b < LastBuffer THEN "distribute"
                   ELSE IF op = "exact" THEN "compare"
                   ELSE IF op = "write_read" THEN "scan" ELSE "done")
  BY DEF Distribute, deviceVars
<1>2. /\ N' = N /\ LastBuffer' = LastBuffer /\ Header' = Header
      /\ \A k : Result(k)' = Result(k)
  BY <1>1, FlowFrame
<1>3. /\ served = N /\ KeptToLengths /\ reply = Whole /\ Distributing(e) /\ Buffers
  BY <1>1 DEF Flow, Good
<1>4. /\ b \in Nat /\ b >= FirstBuffer /\ taken = b - FirstBuffer
  BY <1>1 DEF DistributeInv
<1>5. N \in Nat /\ N >= 1 /\ len \in [1 .. N -> Nat]
  BY WidthsType
<1>6. /\ taken' = taken + 1
      /\ b = 0 => res' = res
      /\ b # 0 => b \in 1 .. N /\ res' = [res EXCEPT ![b] = Result(b)]
  BY DistributeResult
<1>7. rbuf' = rbuf
  BY <1>4, <1>5 DEF Distribute
<1>8. ASSUME NEW k \in 1 .. N, k < b + 1 PROVE res'[k] = Result(k)
  <2>1. k < b \/ k = b
    BY <1>4, <1>8
  <2>2. ASSUME k < b PROVE res'[k] = Result(k)
    <3>1. res[k] = Result(k)
      BY <1>3, <2>2 DEF Distributing
    <3>2. k # b
      BY <1>4, <2>2
    <3> QED
      BY <1>6, <3>1, <3>2 DEF Typed
  <2>3. ASSUME k = b PROVE res'[k] = Result(k)
    BY <1>4, <1>5, <1>6, <2>3 DEF Typed
  <2> QED
    BY <2>1, <2>2, <2>3
<1>9. Buffers'
  BY <1>1, <1>2, <1>3, <1>7 DEF Buffers
<1>10. /\ Len(data) \in Nat /\ Len(reply) = Header + Len(data)
       /\ Header = 1 + N - FirstBuffer
  <2>1. Len(data) \in Nat
    BY DEF Typed
  <2>2. CASE Single
    <3>1. N = 1 /\ Header = 1 /\ FirstBuffer = 1 /\ Len(reply) = 1 + Len(data)
      BY <1>3, <2>2, WholeFacts DEF Typed, Header, FirstBuffer
    <3> QED
      BY <2>1, <3>1
  <2>3. CASE ~Single
    <3>1. Header = N + 1 /\ FirstBuffer = 0 /\ Len(reply) = 1 + N + Len(data)
      BY <1>3, <2>3, WholeFacts DEF Header, FirstBuffer
    <3> QED
      BY <1>5, <2>1, <3>1
  <2> QED
    BY <2>2, <2>3
<1>11. FirstBuffer \in {0, 1} /\ (LastBuffer = N \/ (LastBuffer = 2 * N /\ op # "write"))
  BY DEF FirstBuffer, LastBuffer
<1>12. CASE phase' = "distribute"
  <2>1. taken' < Len(reply) /\ b < LastBuffer
    BY <1>1, <1>12
  <2>2. b' <= LastBuffer
    <3>1. LastBuffer \in Nat
      BY <1>5, <1>11
    <3> QED
      BY <1>1, <1>4, <2>1, <3>1
  <2>3. ASSUME b' > N
        PROVE  /\ taken' = Header + e[b' - N]
               /\ \A k \in 1 .. N : ~(k < b' - N)
    <3>1. b' - N = 1
      BY <1>1, <1>4, <1>5, <2>3
    <3>2. e[1] = 0
      BY DEF Sums
    <3>3. taken' = Header
      BY <1>1, <1>4, <1>5, <1>6, <1>10, <1>11, <3>1
    <3>4. Header \in Nat
      BY <1>5, <1>10, <1>11
    <3> QED
      BY <3>1, <3>2, <3>3, <3>4
  <2>4. Distributing(e)'
    BY <1>1, <1>2, <1>8, <2>1, <2>2, <2>3 DEF Distributing
  <2> QED
    BY <1>1, <1>2, <1>3, <1>9, <1>12, <2>4 DEF Flow
<1>13. CASE phase' # "distribute"
  <2>1. ~(taken' < Len(reply) /\ b < LastBuffer)
    BY <1>1, <1>13
  <2>2. b = N /\ (op # "write" => Len(data) = 0)
    <3>1. b + 1 - FirstBuffer = taken' /\ FirstBuffer \in Nat
      BY <1>4, <1>6, <1>11
    <3>2. b < N => taken' < Len(reply) /\ b < LastBuffer
      BY <1>4, <1>5, <1>10, <1>11, <3>1
    <3>3. b = N
      BY <1>4, <1>5, <2>1, <3>2
    <3>4. op # "write" => b < LastBuffer
      BY <1>5, <3>3 DEF LastBuffer
    <3> QED
      BY <1>5, <1>10, <1>11, <2>1, <3>1, <3>3, <3>4
  <2>3. \A k \in 1 .. N : res'[k] = Result(k)
    <3>1. \A k \in 1 .. N : k < b + 1
      BY <1>5, <2>2
    <3> QED
      BY <1>8, <3>1
  <2>4. ASSUME op # "write", NEW k \in 1 .. N PROVE Filled(k, e)'
    <3>1. e[k] \in Nat /\ len[k] \in Nat
      <4>1. k \in 1 .. N + 1
        BY <1>5
      <4> QED
        BY <1>5, <4>1 DEF Sums
    <3>2. \A p \in 1 .. len[k] : ~(e[k] + p <= Len(data))
      BY <2>2, <2>4, <3>1
    <3> QED
      BY <1>1, <3>2 DEF Filled
  <2> QED
    BY <1>9, <1>13, <2>3, <2>4, DistributionEnds
<1> QED
  BY <1>12, <1>13

(* A buffer is filled.                                                     *)
LEMMA FlowBuffer ==
  ASSUME Typed, DistributeInv, OffsInv, NEW d, NEW e, Sums(N, Widths, d), Sums(N, len, e),
         op = "read" => d = e, LaidOut(d), Good, Flow(d, e), Distribute, ~(b <= N)
  PROVE  Flow(d, e)'
<1> DEFINE m == b - N
<1> DEFINE n == Lesser(Width(b), Len(reply) - taken)
<1> DEFINE chunk == SubSeq(reply, taken + 1, taken + n)
<1>1. /\ UNCHANGED <<op, len, dev, data, served, reply>> /\ phase = "distribute" /\ b' = b + 1
      /\ taken' = taken + n
      /\ phase' = (IF taken' < Len(reply) /\ b < LastBuffer THEN "distribute"
                   ELSE IF op = "exact" THEN "compare"
                   ELSE IF op = "write_read" THEN "scan" ELSE "done")
  BY DEF Distribute, deviceVars
<1>2. /\ N' = N /\ LastBuffer' = LastBuffer /\ Header' = Header
      /\ \A k : Result(k)' = Result(k)
  BY <1>1, FlowFrame
<1>3. /\ served = N /\ KeptToLengths /\ reply = Whole /\ Distributing(e) /\ Buffers
  BY <1>1 DEF Flow, Good
<1>4. b \in Nat /\ N \in Nat /\ N >= 1 /\ len \in [1 .. N -> Nat] /\ reply \in Seq(Units)
  BY <1>1, WidthsType DEF DistributeInv
<1>5. b > N /\ b <= LastBuffer /\ op # "write" /\ LastBuffer = 2 * N
  BY <1>3, <1>4 DEF Distributing, LastBuffer
<1>6. m \in 1 .. N /\ b = m + N /\ m \in Nat
  BY <1>4, <1>5
<1>7. /\ res' = res
      /\ rbuf' = [rbuf EXCEPT ![m] = Overwrite(rbuf[m], 0, chunk)]
  <2>1. b \notin 1 .. N
    BY <1>4, <1>5
  <2> QED
    BY <1>5, <2>1 DEF Distribute
<1>8. /\ taken = Header + e[m] /\ taken < Len(reply)
      /\ \A k \in 1 .. N : k < m => Filled(k, e)
      /\ \A k \in 1 .. N : res[k] = Result(k)
  <2>1. \A k \in 1 .. N : k < b
    BY <1>4, <1>5
  <2> QED
    BY <1>3, <1>5, <2>1 DEF Distributing
<1>9. Width(b) = len[m]
  BY <1>5 DEF Width
<1> HIDE DEF m
<1>10. /\ e \in [1 .. N + 1 -> Nat] /\ m \in 1 .. N + 1 /\ m + 1 \in 1 .. N + 1
       /\ e[m] \in Nat /\ len[m] \in Nat /\ e[m + 1] = e[m] + len[m]
  <2>1. m \in 1 .. N + 1 /\ m + 1 \in 1 .. N + 1
    BY <1>4, <1>6
  <2> QED
    BY <1>4, <1>6, <2>1 DEF Sums
<1>11. /\ Len(data) \in Nat /\ Header \in Nat /\ Len(reply) = Header + Len(data)
       /\ \A p \in 1 .. Len(data) : reply[Header + p] = data[p]
  <2>1. Len(data) \in Nat
    BY DEF Typed
  <2>2. CASE Single
    <3>1. Header = 1 /\ Len(reply) = 1 + Len(data)
          /\ \A p \in 1 .. Len(data) : reply[1 + p] = data[p]
      BY <1>3, <2>2, WholeFacts DEF Header
    <3> QED
      BY <2>1, <3>1
  <2>3. CASE ~Single
    <3>1. Header = N + 1 /\ Len(reply) = 1 + N + Len(data) /\ 1 + N = N + 1
          /\ \A p \in 1 .. Len(data) : reply[1 + N + p] = data[p]
      BY <1>3, <1>4, <2>3, WholeFacts DEF Header
    <3> QED
      BY <1>4, <2>1, <3>1
  <2> QED
    BY <2>2, <2>3
<1>12. /\ taken \in Nat /\ n \in Nat /\ taken + n <= Len(reply) /\ e[m] < Len(data)
       /\ n = len[m] \/ n = Len(data) - e[m]
       /\ n <= len[m] /\ n <= Len(data) - e[m]
  <2>1. Len(reply) - taken = Len(data) - e[m] /\ taken \in Nat /\ e[m] < Len(data)
    BY <1>8, <1>10, <1>11
  <2>2. n = Lesser(len[m], Len(data) - e[m])
    BY <1>9, <2>1
  <2> HIDE DEF n
  <2>3. /\ n \in Nat /\ (n = len[m] \/ n = Len(data) - e[m])
        /\ n <= len[m] /\ n <= Len(data) - e[m]
    BY <1>10, <1>11, <2>1, <2>2, SMTT(30) DEF Lesser
  <2> QED
    BY <1>8, <1>10, <1>11, <2>1, <2>3
<1> HIDE DEF n
<1>13. chunk \in Seq(Units) /\ Len(chunk) = n /\ \A p \in 1 .. n : chunk[p] = reply[taken + p]
  BY <1>4, <1>12, PieceFacts
<1> HIDE DEF chunk
<1>14. /\ rbuf'[m] \in Seq(Units) /\ Len(rbuf'[m]) = len[m]
       /\ \A p \in 1 .. n : rbuf'[m][p] = reply[taken + p]
  <2>1. /\ rbuf \in [1 .. N -> Seq(Units)] /\ rbuf[m] \in Seq(Units) /\ Len(rbuf[m]) = len[m]
    BY <1>3, <1>6 DEF Buffers
  <2> DEFINE o == Overwrite(rbuf[m], 0, chunk)
  <2>2. rbuf'[m] = o
    BY <1>6, <1>7, <2>1
  <2>3. /\ o \in Seq(Units) /\ Len(o) = Len(rbuf[m])
        /\ \A p \in 1 .. Len(rbuf[m]) :
             o[p] = IF p > 0 /\ p <= 0 + Len(chunk) THEN chunk[p - 0] ELSE rbuf[m][p]
    <3>1. 0 \in Nat
      OBVIOUS
    <3> QED
      BY <1>13, <2>1, <3>1, OverwriteFacts
  <2> HIDE DEF o
  <2>4. ASSUME NEW p \in 1 .. n PROVE o[p] = reply[taken + p]
    <3>1. p \in 1 .. Len(rbuf[m]) /\ p > 0 /\ p <= 0 + Len(chunk) /\ p - 0 = p
      BY <1>10, <1>12, <1>13, <2>1
    <3> QED
      BY <1>13, <2>3, <3>1
  <2> QED
    BY <2>1, <2>2, <2>3, <2>4
<1>15. \A k \in 1 .. N : k # m => rbuf'[k] = rbuf[k]
  BY <1>3, <1>7 DEF Buffers
<1>16. Buffers'
  <2>1. rbuf' \in [1 .. N -> Seq(Units)]
    <3>1. rbuf \in [1 .. N -> Seq(Units)]
      BY <1>3 DEF Buffers
    <3>2. rbuf' = [k \in 1 .. N |-> rbuf'[k]]
      BY <1>7, <3>1
    <3> QED
      BY <1>14, <1>15, <3>1, <3>2
  <2>2. \A k \in 1 .. N : Len(rbuf'[k]) = len[k]
    BY <1>3, <1>14, <1>15 DEF Buffers
  <2> QED
    BY <1>1, <1>2, <2>1, <2>2 DEF Buffers
<1>17. ASSUME NEW k \in 1 .. N, k <= m PROVE Filled(k, e)'
  <2>1. CASE k = m
    <3>1. ASSUME NEW p \in 1 .. len[m], e[m] + p <= Len(data)
          PROVE  rbuf'[m][p] = data[e[m] + p]
      <4>1. p \in 1 .. n /\ e[m] + p \in 1 .. Len(data)
        BY <1>10, <1>11, <1>12, <3>1
      <4>2. taken + p = Header + (e[m] + p)
        BY <1>8, <1>10, <1>11
      <4> QED
        BY <1>11, <1>14, <4>1, <4>2
    <3> QED
      BY <1>1, <2>1, <3>1 DEF Filled
  <2>2. CASE k # m
    <3>1. k < m
      BY <1>6, <1>17, <2>2
    <3> QED
      BY <1>1, <1>8, <1>15, <2>2, <3>1 DEF Filled
  <2> QED
    BY <2>1, <2>2
<1>18. CASE phase' = "distribute"
  <2>1. taken' < Len(reply) /\ b < LastBuffer
    BY <1>1, <1>18
  <2>2. b' <= LastBuffer /\ b' > N /\ b' - N = m + 1 /\ \A k \in 1 .. N : k < m + 1 => k <= m
    BY <1>1, <1>4, <1>5, <1>6, <2>1
  <2>3. taken' = Header + e[m + 1]
    <3>1. n = len[m]
      BY <1>1, <1>8, <1>10, <1>11, <1>12, <2>1
    <3> QED
      BY <1>1, <1>8, <1>10, <1>11, <3>1, SMTT(30)
  <2>4. Distributing(e)'
    BY <1>1, <1>2, <1>7, <1>8, <1>17, <2>1, <2>2, <2>3 DEF Distributing
  <2> QED
    BY <1>1, <1>2, <1>3, <1>16, <1>18, <2>4 DEF Flow
<1>19. CASE phase' # "distribute"
  <2>1. ~(taken' < Len(reply)) \/ ~(b < LastBuffer)
    BY <1>1, <1>19
  <2>2. ASSUME NEW k \in 1 .. N PROVE Filled(k, e)'
    <3>1. CASE k <= m
      BY <1>17, <3>1
    <3>2. CASE ~(k <= m)
      <4>1. k \in Nat /\ m + 1 \in 1 .. k /\ k \in 1 .. N + 1 /\ b < LastBuffer
        BY <1>4, <1>5, <1>6, <3>2
      <4>2. Len(data) <= e[m + 1]
        <5>1. taken + n >= Len(reply)
          BY <1>1, <1>11, <1>12, <2>1, <4>1
        <5>2. e[m] + n >= Len(data)
          BY <1>8, <1>10, <1>11, <1>12, <5>1, SMTT(30)
        <5> QED
          BY <1>10, <1>11, <1>12, <5>2
      <4>3. e[m + 1] <= e[k] /\ e[k] \in Nat /\ e[m + 1] \in Nat
        BY <1>10, <4>1 DEF Sums
      <4>4. len[k] \in Nat
        BY <1>4
      <4>5. \A p \in 1 .. len[k] : ~(e[k] + p <= Len(data))
        BY <1>11, <4>2, <4>3, <4>4
      <4> QED
        BY <1>1, <4>5 DEF Filled
    <3> QED
      BY <3>1, <3>2
  <2>3. \A k \in 1 .. N : res'[k] = Result(k)
    BY <1>7, <1>8
  <2> QED
    BY <1>16, <1>19, <2>2, <2>3, DistributionEnds
<1> QED
  BY <1>18, <1>19

LEMMA ResultAct ==
  ASSUME NEW k
  PROVE  Result(k).act = dev[k].act
BY DEF Result

(* The _exact variants change no data.                                     *)
LEMMA FlowCompare ==
  ASSUME Typed, OffsInv, NEW d, NEW e, Sums(N, Widths, d), Sums(N, len, e),
         op = "read" => d = e, LaidOut(d), Good, Flow(d, e), Compare
  PROVE  Flow(d, e)'
<1>1. /\ UNCHANGED <<op, len, dev, data, served, res, rbuf>> /\ phase = "compare" /\ op = "exact"
      /\ phase' = IF res[1].act # len[1] THEN "err" ELSE "done"
  BY DEF Compare, deviceVars, OffsInv
<1>2. N' = N /\ \A k : Result(k)' = Result(k)
  BY <1>1, FlowFrame
<1>3. /\ served = N /\ KeptToLengths /\ Buffers
      /\ \A k \in 1 .. N : res[k] = Result(k) /\ Filled(k, e)
  BY <1>1 DEF Flow, Good
<1>4. N \in Nat /\ N >= 1
  BY WidthsType
<1>5. phase' = "err" <=> dev[1].act # len[1]
  <2>1. 1 \in 1 .. N
    BY <1>4
  <2>2. res[1] = Result(1)
    BY <1>3, <2>1
  <2>3. res[1].act = dev[1].act
    BY <2>2, ResultAct
  <2> QED
    BY <1>1, <2>3
<1>6. ASSUME NEW k \in 1 .. N PROVE Own(k)'
  <2>1. d[k] = e[k]
    BY <1>1, SamePlace
  <2>2. \A p \in 1 .. len[k] : e[k] + p <= Len(data) => rbuf[k][p] = data[e[k] + p]
    BY <1>3 DEF Filled
  <2>3. \A p \in 1 .. dev[k].act : rbuf[k][p] = Byte(k, p)
    BY <1>3, <2>1, <2>2, OwnBytes
  <2> QED
    BY <1>1, <2>3 DEF Own, Byte
<1>7. Buffers'
  BY <1>1, <1>2, <1>3 DEF Buffers
<1>8. phase' \in {"done", "err"}
  BY <1>1
<1> QED
  BY <1>1, <1>2, <1>3, <1>5, <1>6, <1>7, <1>8 DEF Flow

(* The scan changes no data and finds where each request's data begins.    *)
LEMMA FlowScan ==
  ASSUME Typed, OffsInv, NEW d, NEW e, Sums(N, Widths, d), Sums(N, len, e),
         LaidOut(d), Good, Flow(d, e), Scan
  PROVE  Flow(d, e)'
<1> DEFINE k == Len(offs) + 1
<1> DEFINE first == IF k = 1 THEN 0 ELSE offs[k - 1].initial + offs[k - 1].init
<1> DEFINE actual == IF k = 1 THEN 0 ELSE offs[k - 1].actual + offs[k - 1].act
<1> DEFINE o == [initial |-> first, actual |-> actual, init |-> len[k], act |-> res[k].act]
<1>1. /\ phase = "scan" /\ offs' = Append(offs, o) /\ i' = k
      /\ phase' = IF k = N THEN "select" ELSE "scan"
      /\ UNCHANGED <<op, len, dev, data, served, res, rbuf>>
  BY DEF Scan, ScanOne, deviceVars
<1>2. N' = N /\ \A m : Result(m)' = Result(m)
  BY <1>1, FlowFrame
<1>3. /\ served = N /\ Buffers /\ Moving(d, e)
      /\ \A m \in 1 .. N : res[m] = Result(m) /\ Filled(m, e)
  BY <1>1 DEF Flow
<1>4. /\ offs \in Seq(Offsets) /\ Len(offs) \in Nat /\ Len(offs) < N /\ N \in Nat /\ op = "write_read"
  BY <1>1, WidthsType DEF OffsInv
<1>5. k \in 1 .. N /\ k - 1 = Len(offs) /\ k \in Nat
  BY <1>4
<1>6. first = e[k] /\ actual = d[k]
  <2>1. CASE k = 1
    BY <2>1 DEF Sums
  <2>2. CASE k # 1
    <3> DEFINE l == k - 1
    <3>1. l \in 1 .. Len(offs) /\ l \in 1 .. N /\ l + 1 = k
      BY <1>4, <1>5, <2>2
    <3> HIDE DEF l
    <3>2. /\ offs[l].init = len[l] /\ offs[l].act = res[l].act
          /\ offs[l].initial = e[l] /\ offs[l].actual = d[l]
      BY <1>1, <1>3, <3>1, OffsFacts DEF Moving
    <3>3. res[l].act = Widths[l]
      <4>1. res[l] = Result(l)
        BY <1>3, <3>1
      <4>2. Widths[l] = dev[l].act
        BY <1>4, <3>1, WidthsType
      <4> QED
        BY <4>1, <4>2, ResultAct
    <3>4. e[k] = e[l] + len[l] /\ d[k] = d[l] + Widths[l]
      BY <3>1 DEF Sums
    <3> QED
      BY <2>2, <3>2, <3>3, <3>4 DEF l
  <2> QED
    BY <2>1, <2>2
<1>7. o \in Offsets /\ o.initial = first /\ o.actual = actual
  <2>1. k \in 1 .. N + 1
    BY <1>4, <1>5
  <2>2. first \in Nat /\ actual \in Nat
    BY <1>6, <2>1 DEF Sums
  <2>3. len[k] \in Nat /\ res[k].act \in Nat
    BY <1>5, WidthsType DEF Typed, Outcomes
  <2> QED
    BY <2>2, <2>3 DEF Offsets
<1> HIDE DEF o, first, actual
<1>8. /\ Len(offs') = k /\ offs'[k] = o
      /\ \A m \in 1 .. k - 1 : offs'[m] = offs[m]
  BY <1>1, <1>4, <1>7
<1>9. ASSUME NEW m \in 1 .. Len(offs') PROVE offs'[m].initial = e[m] /\ offs'[m].actual = d[m]
  <2>1. m = k \/ m \in 1 .. k - 1
    BY <1>5, <1>8
  <2>2. CASE m = k
    BY <1>6, <1>7, <1>8, <2>2
  <2>3. CASE m \in 1 .. k - 1
    BY <1>3, <1>5, <1>8, <2>3 DEF Moving
  <2> QED
    BY <2>1, <2>2, <2>3
<1>10. ASSUME NEW m \in 1 .. N PROVE Filled(m, e)'
  BY <1>1, <1>3 DEF Filled
<1>11. phase' # "scan" => i' = N
  BY <1>1
<1>12. \A m \in 1 .. N : ~(m > N)
  BY <1>4
<1>13. Moving(d, e)'
  <2>1. phase' # "copy" /\ (phase' = "select" => i' = N) /\ N \in 1 .. N
    BY <1>1, <1>4
  <2> QED
    BY <1>2, <1>9, <1>10, <1>11, <1>12, <2>1 DEF Moving
<1>14. Buffers'
  BY <1>1, <1>2, <1>3 DEF Buffers
<1>15. phase' \in {"scan", "select"} /\ op # "exact"
  BY <1>1, <1>4
<1> QED
  BY <1>1, <1>2, <1>3, <1>10, <1>13, <1>14, <1>15 DEF Flow

(* The data of a device that keeps to the lengths passes the assertion.    *)
LEMMA NoPanic ==
  ASSUME Typed, OffsInv, NEW d, NEW e, Good, Flow(d, e)
  PROVE  ~ScanPanics
<1> SUFFICES ASSUME ScanPanics PROVE FALSE
  OBVIOUS
<1> DEFINE k == Len(offs) + 1
<1>1. phase = "scan" /\ len[k] < res[k].act
  BY DEF ScanPanics
<1>2. Len(offs) \in Nat /\ Len(offs) < N /\ N \in Nat
  BY <1>1, WidthsType DEF OffsInv
<1>3. k \in 1 .. N
  BY <1>2
<1> HIDE DEF k
<1>4. res[k].act = dev[k].act /\ dev[k].act <= len[k]
  <2>1. res[k] = Result(k)
    BY <1>1, <1>3 DEF Flow
  <2>2. dev[k].act <= len[k]
    BY <1>3 DEF Good, KeptToLengths
  <2> QED
    BY <2>1, <2>2, ResultAct
<1>5. len[k] \in Nat /\ dev[k].act \in Nat
  BY <1>3, WidthsType
<1> QED
  BY <1>1, <1>4, <1>5

(* What is known while the data is moved.                                  *)
LEMMA FixupFacts ==
  ASSUME Typed, OffsInv, NEW d, NEW e, Sums(N, Widths, d), Sums(N, len, e), Good, Flow(d, e),
         phase \in {"select", "copy"}
  PROVE  /\ op = "write_read" /\ served = N /\ KeptToLengths /\ Buffers
         /\ i \in 1 .. N /\ N \in Nat
         /\ \A k \in 1 .. N :
              /\ res[k] = Result(k)
              /\ offs[k].initial = e[k] /\ offs[k].actual = d[k] /\ offs[k].act = dev[k].act
              /\ offs[k].init = len[k] /\ d[k] <= e[k] /\ dev[k].act <= len[k]
              /\ d[k] \in Nat /\ e[k] \in Nat /\ dev[k].act \in Nat /\ len[k] \in Nat
         /\ \A k \in 1 .. N : k < i => Filled(k, e)
         /\ \A k \in 1 .. N : k > i => Own(k)
         /\ phase = "select" => Filled(i, e)
<1>1. /\ op = "write_read" /\ Len(offs) = N /\ i \in 1 .. N
  BY DEF OffsInv
<1>2. N \in Nat
  BY WidthsType
<1>3. served = N /\ KeptToLengths /\ Buffers /\ Moving(d, e) /\ \A k \in 1 .. N : res[k] = Result(k)
  BY DEF Flow, Good
<1>4. ASSUME NEW k \in 1 .. N
      PROVE  /\ offs[k].initial = e[k] /\ offs[k].actual = d[k] /\ offs[k].act = dev[k].act
             /\ offs[k].init = len[k] /\ d[k] <= e[k] /\ dev[k].act <= len[k]
             /\ d[k] \in Nat /\ e[k] \in Nat /\ dev[k].act \in Nat /\ len[k] \in Nat
  <2>1. k \in 1 .. Len(offs)
    BY <1>1
  <2>2. /\ offs[k].initial \in Nat /\ offs[k].actual \in Nat
        /\ offs[k].init = len[k] /\ offs[k].act = res[k].act
        /\ offs[k].actual <= offs[k].initial
    BY <2>1, OffsFacts
  <2>3. offs[k].initial = e[k] /\ offs[k].actual = d[k]
    BY <1>3, <2>1 DEF Moving
  <2>4. res[k].act = dev[k].act
    <3>1. res[k] = Result(k)
      BY <1>3
    <3> QED
      BY <3>1, ResultAct
  <2>5. dev[k].act <= len[k]
    BY <1>3 DEF KeptToLengths
  <2>6. len[k] \in Nat /\ dev[k].act \in Nat
    BY WidthsType
  <2> QED
    BY <2>2, <2>3, <2>4, <2>5, <2>6
<1>5. /\ \A k \in 1 .. N : k < i => Filled(k, e)
      /\ \A k \in 1 .. N : k > i => Own(k)
      /\ phase = "select" => Filled(i, e)
  BY <1>3 DEF Moving
<1> QED
  BY <1>1, <1>2, <1>3, <1>4, <1>5

(* The request is done with: the next one, or the end.                     *)
LEMMA RequestDone ==
  ASSUME Typed, OffsInv, NEW d, NEW e, Sums(N, Widths, d), Sums(N, len, e), Good, Flow(d, e),
         phase \in {"select", "copy"}, UNCHANGED <<op, len, dev, data, served, res, offs>>,
         Buffers', NextRequest, \A p \in 1 .. dev[i].act : rbuf'[i][p] = Byte(i, p),
         \A k \in 1 .. N : k # i => rbuf'[k] = rbuf[k]
  PROVE  Flow(d, e)'
<1>1. /\ op = "write_read" /\ served = N /\ i \in 1 .. N /\ N \in Nat
      /\ \A k \in 1 .. N : res[k] = Result(k)
      /\ \A k \in 1 .. N : k < i => Filled(k, e)
      /\ \A k \in 1 .. N : k > i => Own(k)
  BY FixupFacts
<1>2. N' = N /\ \A k : Result(k)' = Result(k)
  BY FlowFrame
<1>3. i' = i - 1 /\ phase' = IF i = 1 THEN "done" ELSE "select"
  BY DEF NextRequest
<1>4. ASSUME NEW k \in 1 .. N, k < i PROVE Filled(k, e)'
  <2>1. Filled(k, e) /\ k # i
    BY <1>1, <1>4
  <2>2. rbuf'[k] = rbuf[k]
    BY <2>1
  <2> QED
    BY <2>1, <2>2 DEF Filled
<1>5. ASSUME NEW k \in 1 .. N, k >= i PROVE Own(k)'
  <2>1. CASE k = i
    BY <2>1 DEF Own, Byte
  <2>2. CASE k # i
    <3>1. k > i
      BY <1>1, <1>5, <2>2
    <3>2. Own(k) /\ rbuf'[k] = rbuf[k]
      BY <1>1, <2>2, <3>1
    <3> QED
      BY <3>2 DEF Own, Byte
  <2> QED
    BY <2>1, <2>2
<1>6. \A k \in 1 .. Len(offs) : offs[k].initial = e[k] /\ offs[k].actual = d[k]
  BY DEF Flow, Moving
<1>7. CASE i = 1
  <2>1. phase' = "done" /\ \A k \in 1 .. N : k >= i
    BY <1>1, <1>3, <1>7
  <2> QED
    BY <1>1, <1>2, <1>5, <2>1 DEF Flow
<1>8. CASE i # 1
  <2>1. phase' = "select" /\ i' \in 1 .. N /\ i' < i
    BY <1>1, <1>3, <1>8
  <2>2. \A k \in 1 .. N : (k < i' => k < i) /\ (k > i' => k >= i)
    BY <1>1, <1>3
  <2>3. PICK m \in 1 .. N : m = i'
    BY <2>1
  <2>4. Filled(i, e)'
    <3>1. Filled(m, e)'
      BY <1>4, <2>1, <2>3
    <3> QED
      BY <2>3, <3>1 DEF Filled
  <2>5. Moving(d, e)'
    BY <1>2, <1>4, <1>5, <1>6, <2>1, <2>2, <2>4 DEF Moving
  <2> QED
    BY <1>1, <1>2, <2>1, <2>5 DEF Flow
<1> QED
  BY <1>7, <1>8

(* Selecting the next piece changes no data.                               *)
LEMMA FlowSelect ==
  ASSUME Typed, OffsInv, NEW d, NEW e, Sums(N, Widths, d), Sums(N, len, e),
         LaidOut(d), Good, Flow(d, e), Select
  PROVE  Flow(d, e)'
<1>1. phase = "select" /\ UNCHANGED <<op, len, dev, data, served, res, rbuf, offs>>
  BY DEF Select, SelectWith, deviceVars
<1>2. /\ op = "write_read" /\ served = N /\ KeptToLengths /\ Buffers
      /\ i \in 1 .. N /\ N \in Nat
      /\ \A k \in 1 .. N :
           /\ res[k] = Result(k)
           /\ offs[k].initial = e[k] /\ offs[k].actual = d[k] /\ offs[k].act = dev[k].act
           /\ offs[k].init = len[k] /\ d[k] <= e[k] /\ dev[k].act <= len[k]
           /\ d[k] \in Nat /\ e[k] \in Nat /\ dev[k].act \in Nat /\ len[k] \in Nat
      /\ \A k \in 1 .. N : k < i => Filled(k, e)
      /\ \A k \in 1 .. N : k > i => Own(k)
      /\ Filled(i, e)
  BY <1>1, FixupFacts
<1>3. N' = N /\ \A k : Result(k)' = Result(k)
  BY <1>1, FlowFrame
<1>4. Buffers'
  BY <1>1, <1>2, <1>3 DEF Buffers
<1>5. \A k \in 1 .. Len(offs) : offs[k].initial = e[k] /\ offs[k].actual = d[k]
  BY <1>1 DEF Flow, Moving
<1>6. ASSUME NEW k \in 1 .. N, k > i PROVE Own(k)'
  <2>1. Own(k)
    BY <1>2, <1>6
  <2> QED
    BY <1>1, <2>1 DEF Own, Byte
<1>7. CASE offs[i].act = 0
  <2>1. NextRequest
    BY <1>7 DEF Select, SelectWith
  <2>2. dev[i].act = 0
    BY <1>2, <1>7
  <2>3. 1 .. dev[i].act = {}
    BY <2>2
  <2> QED
    BY <1>1, <1>4, <2>1, <2>3, RequestDone
<1>8. CASE offs[i].act # 0 /\ offs[i].initial = offs[i].actual
  <2>1. phase' = "done" /\ i' = i
    BY <1>8 DEF Select, SelectWith
  <2>2. d[i] = e[i]
    BY <1>2, <1>8
  <2>3. ASSUME NEW k \in 1 .. N, k <= i PROVE Own(k)'
    <3>1. e[k] + d[i] <= e[i] + d[k]
      <4>1. k \in 1 .. i /\ i \in 1 .. N + 1
        BY <1>2, <2>3
      <4>2. Widths \in [1 .. N -> Nat] /\ len \in [1 .. N -> Nat] /\ \A m \in 1 .. N : Widths[m] = dev[m].act
        BY <1>2, WidthsType
      <4>3. \A m \in 1 .. N : Widths[m] <= len[m]
        BY <1>2, <4>2
      <4> QED
        BY <1>2, <4>1, <4>2, <4>3, SumsGap
    <3>2. d[k] <= e[k] /\ d[k] \in Nat /\ e[k] \in Nat /\ d[i] \in Nat
      BY <1>2
    <3>3. d[k] = e[k]
      BY <2>2, <3>1, <3>2
    <3>4. Filled(k, e)
      <4>1. k = i \/ k < i
        BY <1>2, <2>3
      <4> QED
        BY <1>2, <4>1
    <3>5. \A p \in 1 .. dev[k].act : rbuf[k][p] = Byte(k, p)
      <4>1. \A p \in 1 .. len[k] : e[k] + p <= Len(data) => rbuf[k][p] = data[e[k] + p]
        BY <3>4 DEF Filled
      <4>2. served = N /\ KeptToLengths
        BY <1>2
      <4> QED
        BY <3>3, <4>1, <4>2, OwnBytes
    <3> QED
      BY <1>1, <3>5 DEF Own, Byte
  <2>4. \A k \in 1 .. N : k <= i \/ k > i
    BY <1>2
  <2> QED
    BY <1>1, <1>2, <1>3, <1>4, <1>6, <2>1, <2>3, <2>4 DEF Flow
<1>9. CASE offs[i].act # 0 /\ offs[i].initial # offs[i].actual
  <2>1. phase' = "copy" /\ i' = i /\ size' = offs[i].act
    BY <1>9 DEF Select, SelectWith
  <2>2. size' = dev[i].act /\ dev[i].act \in Nat
    BY <1>2, <2>1
  <2>3. ASSUME NEW k \in 1 .. N, k < i PROVE Filled(k, e)'
    <3>1. Filled(k, e)
      BY <1>2, <2>3
    <3> QED
      BY <1>1, <3>1 DEF Filled
  <2>4. Filled(i, e)'
    BY <1>1, <1>2, <2>1 DEF Filled
  <2>5. \A p \in 1 .. dev[i].act : ~(p > size')
    BY <2>2
  <2>6. Moving(d, e)'
    BY <1>1, <1>3, <1>5, <1>6, <2>1, <2>2, <2>3, <2>4, <2>5 DEF Moving
  <2> QED
    BY <1>1, <1>2, <1>3, <1>4, <2>1, <2>6 DEF Flow
<1> QED
  BY <1>7, <1>8, <1>9

(* One piece of a request's data is moved to its own place.                *)
LEMMA FlowCopy ==
  ASSUME Typed, OffsInv, CopyInv, NEW d, NEW e, Sums(N, Widths, d), Sums(N, len, e),
         LaidOut(d), Good, Flow(d, e), Copy
  PROVE  Flow(d, e)'
<1> DEFINE n == Lesser(j_end, size)
<1> DEFINE m == j_end - n
<1> DEFINE piece == SubSeq(rbuf[j], m + 1, m + n)
<1>1. phase = "copy" /\ UNCHANGED <<op, len, dev, data, served, res, offs>> /\ size' = size - n
  BY DEF Copy, deviceVars
<1>2. /\ op = "write_read" /\ served = N /\ KeptToLengths /\ Buffers
      /\ i \in 1 .. N /\ N \in Nat
      /\ \A k \in 1 .. N :
           /\ res[k] = Result(k)
           /\ offs[k].initial = e[k] /\ offs[k].actual = d[k] /\ offs[k].act = dev[k].act
           /\ offs[k].init = len[k] /\ d[k] <= e[k] /\ dev[k].act <= len[k]
           /\ d[k] \in Nat /\ e[k] \in Nat /\ dev[k].act \in Nat /\ len[k] \in Nat
      /\ \A k \in 1 .. N : k < i => Filled(k, e)
      /\ \A k \in 1 .. N : k > i => Own(k)
  BY <1>1, FixupFacts
<1>3. N' = N /\ \A k : Result(k)' = Result(k)
  BY <1>1, FlowFrame
<1>4. /\ j \in 1 .. i /\ j_end \in 0 .. len[j] /\ size \in 1 .. offs[i].act
      /\ offs[j].initial + j_end = offs[i].actual + size
  BY <1>1 DEF CopyInv
<1>5. j \in 1 .. N /\ j <= i
  BY <1>2, <1>4
<1>6. /\ len[j] \in Nat /\ len[i] \in Nat /\ dev[i].act \in Nat /\ dev[i].act <= len[i]
      /\ e[j] \in Nat /\ d[i] \in Nat /\ e[j] + j_end = d[i] + size
      /\ j_end \in Nat /\ j_end <= len[j] /\ size \in Nat /\ size >= 1 /\ size <= dev[i].act
  <2>1. /\ len[j] \in Nat /\ e[j] \in Nat /\ offs[j].initial = e[j]
    BY <1>2, <1>5
  <2>2. /\ len[i] \in Nat /\ dev[i].act \in Nat /\ dev[i].act <= len[i]
        /\ d[i] \in Nat /\ offs[i].actual = d[i] /\ offs[i].act = dev[i].act
    BY <1>2
  <2> QED
    BY <1>4, <2>1, <2>2
<1>7. /\ n \in Nat /\ n <= j_end /\ n <= size /\ m \in Nat /\ m + n = j_end
      /\ size' \in Nat /\ size' + n = size
  <2>1. n \in Nat /\ n <= j_end /\ n <= size
    BY <1>6 DEF Lesser
  <2> QED
    BY <1>1, <1>6, <2>1
<1>8. Filled(j, e)
  <2>1. CASE j = i
    BY <1>1, <2>1 DEF Flow, Moving
  <2>2. CASE j # i
    <3>1. j < i
      BY <1>2, <1>5, <2>2
    <3> QED
      BY <1>2, <1>5, <3>1
  <2> QED
    BY <2>1, <2>2
<1>9. /\ rbuf \in [1 .. N -> Seq(Units)]
      /\ rbuf[j] \in Seq(Units) /\ Len(rbuf[j]) = len[j]
      /\ rbuf[i] \in Seq(Units) /\ Len(rbuf[i]) = len[i]
  BY <1>2, <1>5 DEF Buffers
<1>t. PICK t \in Nat : t = size' /\ t + n = size
  BY <1>7
<1> DEFINE o == Overwrite(rbuf[i], t, piece)
<1>10. rbuf' = [rbuf EXCEPT ![i] = o]
  <2>1. rbuf' = [rbuf EXCEPT ![i] = Overwrite(rbuf[i], size', SubSeq(rbuf[j], j_end - n + 1, j_end))]
    BY DEF Copy
  <2>2. j_end - n + 1 = m + 1
    BY <1>6, <1>7
  <2> QED
    BY <1>7, <1>t, <2>1, <2>2
<1>11. /\ piece \in Seq(Units) /\ Len(piece) = n
       /\ \A p \in 1 .. n : piece[p] = rbuf[j][m + p]
  <2>1. m + n <= Len(rbuf[j])
    BY <1>6, <1>7, <1>9
  <2> HIDE DEF m, n
  <2> QED
    BY <1>7, <1>9, <2>1, PieceFacts
<1> HIDE DEF piece, m, n
<1>12. /\ o \in Seq(Units) /\ Len(o) = len[i]
       /\ \A p \in 1 .. len[i] :
            o[p] = IF p > t /\ p <= t + n THEN piece[p - t] ELSE rbuf[i][p]
  <2> DEFINE to == rbuf[i]
  <2>1. to \in Seq(Units) /\ Len(to) = len[i]
    BY <1>9
  <2> HIDE DEF to
  <2>2. LET r == Overwrite(to, t, piece)
        IN  /\ r \in Seq(Units) /\ Len(r) = Len(to)
            /\ \A p \in 1 .. Len(to) :
                 r[p] = IF p > t /\ p <= t + Len(piece) THEN piece[p - t] ELSE to[p]
    BY <1>t, <1>11, <2>1, OverwriteFacts, Zenon
  <2> QED
    BY <1>11, <2>1, <2>2 DEF to
<1>13. rbuf'[i] = o /\ \A k \in 1 .. N : k # i => rbuf'[k] = rbuf[k]
  BY <1>2, <1>9, <1>10
<1> HIDE DEF o
<1>14. Buffers'
  <2>1. rbuf' \in [1 .. N -> Seq(Units)]
    BY <1>2, <1>9, <1>10, <1>12
  <2>2. \A k \in 1 .. N : Len(rbuf'[k]) = len[k]
    BY <1>2, <1>12, <1>13 DEF Buffers
  <2> QED
    BY <1>1, <1>3, <2>1, <2>2 DEF Buffers
<1>15. ASSUME NEW p \in 1 .. dev[i].act, p > t PROVE rbuf'[i][p] = Byte(i, p)
  <2>1. p \in 1 .. len[i] /\ p \in Nat
    BY <1>6
  <2>2. CASE p <= size
    <3> DEFINE q == p - t
    <3>1. q \in 1 .. n /\ q \in Nat /\ p = t + q
      <4>1. \A u, v, x, y \in Nat : u > v /\ u <= x /\ v + y = x => u - v \in 1 .. y /\ u - v \in Nat /\ u = v + (u - v)
        OBVIOUS
      <4>2. p \in Nat /\ t \in Nat /\ size \in Nat /\ n \in Nat /\ p > t /\ p <= size /\ t + n = size
        BY <1>6, <1>7, <1>t, <1>15, <2>1, <2>2
      <4>3. p - t \in 1 .. n /\ p - t \in Nat /\ p = t + (p - t)
        BY <4>1, <4>2
      <4> QED
        BY <4>3
    <3>2. e[j] + (m + q) = d[i] + p
      <4> HIDE DEF q, m, n
      <4>1. e[j] \in Nat /\ d[i] \in Nat /\ m \in Nat /\ n \in Nat /\ t \in Nat /\ q \in Nat
        BY <1>6, <1>7, <1>t, <3>1
      <4>2. e[j] + (m + n) = d[i] + (t + n)
        BY <1>6, <1>7, <1>t, Zenon
      <4>3. e[j] + (m + q) = d[i] + (t + q)
        BY <4>1, <4>2
      <4> QED
        BY <3>1, <4>3
    <3>3. p > t /\ p <= t + n
      BY <1>t, <1>15, <2>2
    <3>4. o[p] = piece[q]
      BY <1>12, <2>1, <3>3
    <3> HIDE DEF q
    <3>5. o[p] = rbuf[j][m + q]
      BY <1>11, <3>1, <3>4
    <3>6. m + q \in 1 .. len[j]
      BY <1>6, <1>7, <3>1
    <3>7. d[i] + p \in 1 .. Len(data) /\ data[d[i] + p] = Byte(i, p)
      BY <1>2, DataAt
    <3>8. e[j] + (m + q) <= Len(data)
      BY <3>2, <3>7
    <3>9. rbuf[j][m + q] = data[e[j] + (m + q)]
      BY <1>8, <3>6, <3>8 DEF Filled
    <3> QED
      BY <1>13, <3>2, <3>5, <3>7, <3>9
  <2>3. CASE ~(p <= size)
    <3>1. p > size /\ ~(p <= t + n)
      <4>1. \A u, v \in Nat : ~(u <= v) => u > v
        OBVIOUS
      <4> QED
        BY <1>6, <1>t, <2>1, <2>3, <4>1
    <3>2. rbuf[i][p] = Byte(i, p)
      BY <1>1, <3>1 DEF Flow, Moving
    <3> QED
      BY <1>12, <1>13, <2>1, <3>1, <3>2
  <2> QED
    BY <2>2, <2>3
<1>16. CASE size' = 0
  <2>1. NextRequest
    BY <1>16 DEF Copy
  <2>2. \A p \in 1 .. dev[i].act : p > t
    BY <1>6, <1>t, <1>16
  <2> QED
    BY <1>1, <1>13, <1>14, <1>15, <2>1, <2>2, RequestDone
<1>17. CASE size' # 0
  <2>1. j' = j - 1 /\ i' = i /\ phase' = "copy"
    BY <1>1, <1>17 DEF Copy
  <2>2. j' # i
    BY <1>2, <1>5, <2>1
  <2>3. ASSUME NEW k \in 1 .. N, k < i PROVE Filled(k, e)'
    <3>1. Filled(k, e) /\ k # i
      BY <1>2, <2>3
    <3>2. rbuf'[k] = rbuf[k]
      BY <1>13, <3>1
    <3> QED
      BY <1>1, <3>1, <3>2 DEF Filled
  <2>4. ASSUME NEW k \in 1 .. N, k > i PROVE Own(k)'
    <3>1. Own(k) /\ k # i
      BY <1>2, <2>4
    <3>2. rbuf'[k] = rbuf[k]
      BY <1>13, <3>1
    <3> QED
      BY <1>1, <3>1, <3>2 DEF Own, Byte
  <2>5. \A k \in 1 .. Len(offs) : offs[k].initial = e[k] /\ offs[k].actual = d[k]
    BY <1>1 DEF Flow, Moving
  <2>6. Moving(d, e)'
    BY <1>1, <1>3, <1>t, <1>15, <2>1, <2>2, <2>3, <2>4, <2>5 DEF Moving, Byte
  <2> QED
    BY <1>1, <1>2, <1>3, <1>14, <2>1, <2>6 DEF Flow
<1> QED
  BY <1>16, <1>17

(* The device serves one more request.                                     *)
LEMMA ServeLaidOut ==
  ASSUME Typed, NEW d, Sums(N, Widths, d), LaidOut(d), Serve
  PROVE  LaidOut(d)' /\ N' = N /\ Widths' = Widths
<1> DEFINE k == served + 1
<1>1. /\ served < N /\ served' = k /\ UNCHANGED <<op, len, dev>>
      /\ data' = data \o Served(k)
  BY DEF Serve, Served
<1>2. N \in Nat /\ served \in Nat /\ data \in Seq(Units) /\ Len(data) \in Nat
  BY WidthsType DEF Typed
<1>3. N' = N /\ Widths' = Widths
  BY <1>1 DEF N, Widths
<1>4. \A m : Served(m)' = Served(m)
  BY <1>1 DEF Served, Byte, Zero
<1>5. k \in 1 .. N /\ k \in Nat /\ k + 1 \in 1 .. N + 1 /\ k \in 1 .. N + 1
  BY <1>1, <1>2
<1> HIDE DEF k
<1>6. /\ Served(k) \in Seq(Units) /\ Len(Served(k)) = Widths[k] /\ Widths[k] \in Nat
  BY <1>5, WidthsType
<1>7. /\ Len(data \o Served(k)) = Len(data) + Len(Served(k))
      /\ \A p \in 1 .. Len(data) : (data \o Served(k))[p] = data[p]
      /\ \A p \in 1 .. Len(Served(k)) : (data \o Served(k))[Len(data) + p] = Served(k)[p]
  BY <1>2, <1>6, ConcatUnits, Zenon
<1>8. /\ d \in [1 .. N + 1 -> Nat] /\ d[k + 1] = d[k] + Widths[k]
      /\ \A m \in 1 .. N : d[m + 1] = d[m] + Widths[m]
      /\ \A x \in 1 .. N + 1 : \A m \in 1 .. x : d[m] <= d[x]
  BY <1>5 DEF Sums
<1>9. Len(data) = d[k] /\ \A m \in 1 .. served : \A p \in 1 .. Widths[m] : data[d[m] + p] = Served(m)[p]
  BY DEF LaidOut, k
<1>10. Len(data') = d[k + 1]
  BY <1>1, <1>6, <1>7, <1>8, <1>9
<1>11. ASSUME NEW m \in 1 .. k, NEW p \in 1 .. Widths[m]
       PROVE  data'[d[m] + p] = Served(m)[p]
  <2>1. CASE m = k
    BY <1>1, <1>6, <1>7, <1>9, <2>1
  <2>2. CASE m # k
    <3>1. m \in 1 .. served /\ m \in 1 .. N /\ m + 1 \in 1 .. k /\ m \in 1 .. N + 1
      BY <1>2, <1>5, <2>2 DEF k
    <3>2. d[m + 1] <= d[k] /\ d[m + 1] = d[m] + Widths[m] /\ d[m] \in Nat
      BY <1>5, <1>8, <3>1
    <3>3. Widths[m] \in Nat
      BY <3>1, WidthsType
    <3>4. d[m] + p \in 1 .. Len(data)
      <4>1. \A a, w, q, l \in Nat : a + w <= l /\ q >= 1 /\ q <= w => a + q \in 1 .. l
        OBVIOUS
      <4>2. p \in Nat /\ p >= 1 /\ p <= Widths[m] /\ d[m] + Widths[m] <= Len(data)
        BY <1>9, <3>2, <3>3
      <4> QED
        BY <1>2, <3>2, <3>3, <4>1, <4>2
    <3> QED
      BY <1>1, <1>7, <1>9, <3>1, <3>4
  <2> QED
    BY <2>1, <2>2
<1>12. LaidOut(d)'
  BY <1>1, <1>3, <1>4, <1>10, <1>11 DEF LaidOut
<1> QED
  BY <1>3, <1>12

(* Before the distribution the buffers are the callers'.                   *)
LEMMA FlowReceive ==
  ASSUME Typed, NEW d, NEW e, Buffers, Receive
  PROVE  Flow(d, e)'
<1>1. /\ UNCHANGED <<op, len, dev, data, served, rbuf, res>> /\ b' = FirstBuffer
      /\ phase' = "distribute" /\ served = N
  BY DEF Receive
<1>2. N' = N /\ LastBuffer' = LastBuffer /\ \A k : Result(k)' = Result(k)
  BY <1>1, FlowFrame
<1>3. N \in Nat /\ N >= 1
  BY WidthsType
<1>4. FirstBuffer \in {0, 1} /\ LastBuffer \in Nat /\ LastBuffer >= 1
  BY <1>3 DEF FirstBuffer, LastBuffer
<1>5. b' <= LastBuffer /\ ~(b' > N) /\ \A k \in 1 .. N : ~(k < b')
  BY <1>1, <1>3, <1>4
<1>6. Distributing(e)'
  BY <1>2, <1>5 DEF Distributing
<1>7. Buffers'
  BY <1>1, <1>2 DEF Buffers
<1> QED
  BY <1>1, <1>2, <1>6, <1>7 DEF Flow

(* After each step every unit is in the reply, the buffers or at its place.*)
LEMMA OwnStep == BoundsInv /\ OwnInv /\ [Next]_vars => OwnInv'
<1> SUFFICES ASSUME BoundsInv, OwnInv, [Next]_vars PROVE OwnInv'
  OBVIOUS
<1>0. Typed /\ DistributeInv /\ OffsInv /\ CopyInv
  BY DEF BoundsInv
<1>1. PICK d, e : /\ Sums(N, Widths, d) /\ Sums(N, len, e) /\ (op = "read" => d = e)
                  /\ LaidOut(d)
                  /\ phase = "serve" => Buffers
                  /\ Good => Flow(d, e)
  BY DEF OwnInv
<1>2. CASE Serve
  <2>1. /\ UNCHANGED <<op, len, rbuf, phase>> /\ phase = "serve"
    BY <1>2 DEF Serve
  <2>2. LaidOut(d)' /\ N' = N /\ Widths' = Widths
    BY <1>0, <1>1, <1>2, ServeLaidOut
  <2>3. Buffers'
    BY <1>1, <2>1, <2>2 DEF Buffers
  <2>4. Sums(N, Widths, d)' /\ Sums(N, len, e)'
    BY <1>1, <2>1, <2>2 DEF Sums
  <2> QED
    BY <1>1, <2>1, <2>2, <2>3, <2>4 DEF OwnInv, Good
<1>3. CASE Receive
  <2>1. /\ UNCHANGED <<op, len, dev, data, served>> /\ phase = "serve" /\ phase' = "distribute"
    BY <1>3 DEF Receive
  <2>2. Sums(N, Widths, d)' /\ Sums(N, len, e)' /\ LaidOut(d)'
    <3>1. LaidOut(d)' /\ N' = N /\ Widths' = Widths
      BY <1>1, <2>1, FlowFrame
    <3> QED
      BY <1>1, <2>1, <3>1 DEF Sums
  <2>3. Flow(d, e)'
    BY <1>0, <1>1, <1>3, <2>1, FlowReceive
  <2> QED
    BY <1>1, <2>1, <2>2, <2>3 DEF OwnInv
<1>4. CASE Distribute \/ Compare \/ Scan \/ ScanPanics \/ Select \/ Copy
  <2>1. /\ UNCHANGED <<op, len, dev, data, served, reply>> /\ phase # "serve" /\ phase' # "serve"
    BY <1>4 DEF Distribute, Compare, Scan, ScanOne, ScanPanics, Select, SelectWith, NextRequest,
                Copy, deviceVars
  <2>2. Sums(N, Widths, d)' /\ Sums(N, len, e)' /\ LaidOut(d)' /\ (Good' => Good)
    <3>1. /\ LaidOut(d)' /\ N' = N /\ Widths' = Widths /\ Whole' = Whole
          /\ KeptToLengths' = KeptToLengths
      BY <1>1, <2>1, FlowFrame
    <3>2. Good' => Good
      BY <2>1, <3>1 DEF Good
    <3> QED
      BY <1>1, <2>1, <3>1, <3>2 DEF Sums
  <2>3. ASSUME Good PROVE Flow(d, e)'
    <3>1. Flow(d, e)
      BY <1>1, <2>3
    <3>2. CASE Distribute
      <4>1. CASE b <= N
        BY <1>0, <1>1, <2>3, <3>1, <3>2, <4>1, FlowResult
      <4>2. CASE ~(b <= N)
        BY <1>0, <1>1, <2>3, <3>1, <3>2, <4>2, FlowBuffer
      <4> QED
        BY <4>1, <4>2
    <3>3. CASE Compare
      BY <1>0, <1>1, <2>3, <3>1, <3>3, FlowCompare
    <3>4. CASE Scan
      BY <1>0, <1>1, <2>3, <3>1, <3>4, FlowScan
    <3>5. CASE ScanPanics
      BY <1>0, <2>3, <3>1, <3>5, NoPanic
    <3>6. CASE Select
      BY <1>0, <1>1, <2>3, <3>1, <3>6, FlowSelect
    <3>7. CASE Copy
      BY <1>0, <1>1, <2>3, <3>1, <3>7, FlowCopy
    <3> QED
      BY <1>4, <3>2, <3>3, <3>4, <3>5, <3>6, <3>7
  <2> QED
    BY <1>1, <2>1, <2>2, <2>3 DEF OwnInv
<1>5. CASE Finished \/ UNCHANGED vars
  <2>1. UNCHANGED vars
    BY <1>5 DEF Finished
  <2>2. UNCHANGED <<op, len, dev, data, served, reply, phase, b, taken, res, rbuf, offs, i, j, size>>
    BY <2>1 DEF vars, deviceVars, fixVars
  <2>3. /\ N' = N /\ Widths' = Widths /\ Whole' = Whole /\ Header' = Header
        /\ LastBuffer' = LastBuffer /\ KeptToLengths' = KeptToLengths
        /\ \A k : Result(k)' = Result(k)
        /\ LaidOut(d)'
    BY <1>1, <2>2, FlowFrame
  <2>4. Sums(N, Widths, d)' /\ Sums(N, len, e)'
    BY <1>1, <2>2, <2>3 DEF Sums
  <2>5. Buffers' = Buffers /\ Good' = Good
    BY <2>2, <2>3 DEF Buffers, Good
  <2>6. /\ \A k : Filled(k, e)' = Filled(k, e)
        /\ \A k : Own(k)' = Own(k)
    BY <2>2 DEF Filled, Own, Byte
  <2>7. Distributing(e)' = Distributing(e) /\ Moving(d, e)' = Moving(d, e)
    BY <2>2, <2>3, <2>6 DEF Distributing, Moving, Byte, Filled
  <2>8. Flow(d, e)' = Flow(d, e)
    BY <2>2, <2>3, <2>5, <2>6, <2>7 DEF Flow
  <2> QED
    BY <1>1, <2>2, <2>3, <2>4, <2>5, <2>8 DEF OwnInv
<1> QED
  BY <1>2, <1>3, <1>4, <1>5 DEF Next

(* When the fixup has ended, every unit is at its place.                   *)
LEMMA OwnImplies == BoundsInv /\ OwnInv => OwnData
<1> SUFFICES ASSUME BoundsInv, OwnInv, Ended, reply = Whole, KeptToLengths
             PROVE  /\ phase = IF op = "exact" /\ dev[1].act # len[1] THEN "err" ELSE "done"
                    /\ \A k \in 1 .. N :
                         /\ res[k] = Result(k)
                         /\ op # "write" => DataOf(k) = [p \in 1 .. dev[k].act |-> Byte(k, p)]
  BY DEF OwnData
<1>1. PICK d, e : Good => Flow(d, e)
  BY DEF OwnInv
<1>2. phase \in {"done", "err", "panic"}
  BY DEF Ended
<1>3. Flow(d, e)
  BY <1>1, <1>2 DEF Good
<1>4. /\ phase \in {"done", "err"} /\ Buffers
      /\ phase = "err" <=> op = "exact" /\ dev[1].act # len[1]
      /\ \A k \in 1 .. N : res[k] = Result(k)
      /\ op # "write" => \A k \in 1 .. N : Own(k)
  BY <1>2, <1>3 DEF Flow
<1>5. ASSUME NEW k \in 1 .. N, op # "write"
      PROVE  DataOf(k) = [p \in 1 .. dev[k].act |-> Byte(k, p)]
  <2> DEFINE n == dev[k].act
  <2> DEFINE s == rbuf[k]
  <2>1. res[k].act = n
    <3>1. res[k] = Result(k)
      BY <1>4
    <3> QED
      BY <3>1, ResultAct
  <2>2. n \in Nat /\ n <= len[k] /\ len[k] \in Nat
    <3>1. Typed
      BY DEF BoundsInv
    <3>2. n \in Nat /\ len[k] \in Nat
      BY <3>1, WidthsType
    <3> QED
      BY <3>2 DEF KeptToLengths
  <2>3. s \in Seq(Units) /\ Len(s) = len[k]
    BY <1>4 DEF Buffers
  <2>4. \A p \in 1 .. n : s[p] = Byte(k, p)
    BY <1>4, <1>5 DEF Own
  <2>5. DataOf(k) = SubSeq(s, 1, n)
    BY <2>1 DEF DataOf
  <2> HIDE DEF n, s
  <2>6. SubSeq(s, 1, n) = [p \in 1 .. n |-> s[p]]
    BY <2>2, <2>3
  <2>7. [p \in 1 .. n |-> s[p]] = [p \in 1 .. n |-> Byte(k, p)]
    BY <2>4
  <2> QED
    BY <2>5, <2>6, <2>7 DEF n
<1>6. phase = IF op = "exact" /\ dev[1].act # len[1] THEN "err" ELSE "done"
  BY <1>4
<1> QED
  BY <1>4, <1>5, <1>6

(* For any number of requests with buffers of any length: after a complete *)
(* reply of a device that keeps to the lengths asked for, every request of *)
(* a single or sum-up operation has its own result and exactly its own     *)
(* data, also when fixup_write_read_return_buffers had to move it.         *)
THEOREM EveryoneOwnData == Spec => []OwnData
<1>1. BoundsInv /\ [Next]_vars => BoundsInv'
  BY TypedStep, DistributeStep, OffsStep, CopyStep DEF BoundsInv
<1> QED
  BY BoundsInit, OwnInit, OwnStep, OwnImplies, <1>1, PTL DEF Spec
=============================================================================

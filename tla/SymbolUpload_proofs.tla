------------------------ MODULE SymbolUpload_proofs -------------------------
(***************************************************************************)
(* Proofs about reading the symbol and type tables of a PLC, for any       *)
(* programs, any wrong units and any length of the lookup buffer.          *)
(*                                                                         *)
(*  - Reading back: what the device sends of a type or symbol is decoded   *)
(*    to that type or symbol, section by section and turn by turn; the     *)
(*    only other outcome is the overflow of an array that ends at          *)
(*    i32::MAX, with overflow checks.                                      *)
(*  - Tables: what is left of a table begins with a whole entry or with    *)
(*    one that is cut off, which panics.                                   *)
(*  - Whatever the units, a parser ends in "ok", "err" or "panic".         *)
(*  - UploadInv, how far an upload has come, and the three properties of   *)
(*    uploads it implies.                                                  *)
(*  - Parts: two parsers, one with all of an entry and one with a part of  *)
(*    it, go in lockstep until the second fails; what it has read differs  *)
(*    in strings only.  Hence what a lookup by name results in.            *)
(***************************************************************************)
EXTENDS SymbolUpload, WellFoundedInduction, SequenceTheorems, TLAPS

-----------------------------------------------------------------------------
(* Induction over the naturals, for a set of numbers. *)

(* Induction, with the property as a set: Nat is well founded. *)
LEMMA Induct ==
  ASSUME NEW S, 0 \in S, \A n \in Nat : n \in S => n + 1 \in S
  PROVE  \A n \in Nat : n \in S
<1> DEFINE T == {n \in Nat : n \notin S}
<1> SUFFICES ASSUME T # {} PROVE FALSE
  OBVIOUS
<1> DEFINE R == OpToRel(<, Nat)
<1>1. IsWellFoundedOn(R, Nat)
  BY NatLessThanWellFounded
<1>2. \A m, n \in Nat : m < n => <<m, n>> \in R
  BY DEF OpToRel
<1> HIDE DEF R
<1>3. T \subseteq Nat
  OBVIOUS
<1>4. PICK x \in T : \A y \in T : ~(<<y, x>> \in R)
  BY <1>1, <1>3, WFMin, Zenon
<1>5. x # 0 /\ x \in Nat
  OBVIOUS
<1>6. x - 1 \in Nat /\ x - 1 < x /\ (x - 1) + 1 = x
  BY <1>5
<1>7. x - 1 \in T
  BY <1>6
<1> QED
  BY <1>2, <1>3, <1>4, <1>6, <1>7

(* The same up to a bound. *)
LEMMA InductTo ==
  ASSUME NEW N \in Nat, NEW S, 0 \in S, \A n \in 1 .. N : n - 1 \in S => n \in S
  PROVE  \A n \in 0 .. N : n \in S
<1> DEFINE T == {n \in Nat : n <= N => n \in S}
<1>1. 0 \in T
  OBVIOUS
<1>2. ASSUME NEW n \in Nat, n \in T PROVE n + 1 \in T
  <2>1. n + 1 <= N => n + 1 \in 1 .. N /\ (n + 1) - 1 = n /\ n <= N
    OBVIOUS
  <2> QED
    BY <1>2, <2>1
<1>3. \A n \in Nat : n \in T
  <2> HIDE DEF T
  <2> QED
    BY <1>1, <1>2, Induct
<1> QED
  BY <1>3

-----------------------------------------------------------------------------
(* FlattenSeq. *)

(* F holds the successive concatenations of s. *)
Catenates(s, n, F) ==
  /\ F[0] = <<>>
  /\ \A i \in 1 .. n : F[i] = F[i - 1] \o s[i]

(* Flattening is the last of the successive concatenations. *)
LEMMA FlattenIsLast ==
  ASSUME NEW S, NEW s \in Seq(Seq(S)), NEW F \in [0 .. Len(s) -> Seq(S)],
         Catenates(s, Len(s), F)
  PROVE  FlattenSeq(s) = F[Len(s)]
<1> DEFINE N == Len(s)
<1> DEFINE g == [i \in 1 .. N |-> F[i]]
<1>1. CASE N = 0
  BY <1>1 DEF FlattenSeq, Catenates
<1>2. CASE N # 0
  <2> DEFINE body(f) == [i \in 1 .. N |-> IF i = 1 THEN s[i] ELSE f[i - 1] \o s[i]]
  <2> DEFINE h == CHOOSE f : f = body(f)
  <2>1. g = body(g)
    <3>1. ASSUME NEW i \in 1 .. N PROVE F[i] = IF i = 1 THEN s[i] ELSE g[i - 1] \o s[i]
      <4>1. F[i] = F[i - 1] \o s[i]
        BY DEF Catenates
      <4>2. CASE i = 1
        <5>1. s[i] \in Seq(S)
          OBVIOUS
        <5>2. i - 1 = 0
          BY <4>2
        <5>3. F[i] = <<>> \o s[i]
          BY <4>1, <5>2 DEF Catenates
        <5> QED
          BY <4>2, <5>1, <5>3, ConcatEmptySeq
      <4>3. CASE i # 1
        <5>1. i - 1 \in 1 .. N
          BY <4>3
        <5> QED
          BY <4>1, <4>3, <5>1
      <4> QED
        BY <4>2, <4>3
    <3> QED
      BY <3>1
  <2>2. h = body(h)
    BY <2>1, Zenon
  <2>3. FlattenSeq(s) = h[N]
    BY <1>2 DEF FlattenSeq
  <2> HIDE DEF h
  <2> DEFINE E == {n \in Nat : n + 1 \in 1 .. N => h[n + 1] = g[n + 1]}
  <2>4. 0 \in E
    <3>1. 1 \in 1 .. N => h[1] = s[1]
      BY <2>2
    <3>2. 1 \in 1 .. N => g[1] = s[1]
      BY <2>1
    <3>3. 0 + 1 = 1
      OBVIOUS
    <3> QED
      BY <3>1, <3>2, <3>3
  <2>5. ASSUME NEW n \in Nat, n \in E PROVE n + 1 \in E
    <3> SUFFICES ASSUME n + 1 + 1 \in 1 .. N PROVE h[n + 1 + 1] = g[n + 1 + 1]
      OBVIOUS
    <3>1. n + 1 \in 1 .. N /\ n + 1 + 1 # 1 /\ (n + 1 + 1) - 1 = n + 1
      OBVIOUS
    <3>2. h[n + 1] = g[n + 1]
      BY <2>5, <3>1
    <3>3. h[n + 1 + 1] = h[n + 1] \o s[n + 1 + 1]
      BY <2>2, <3>1
    <3>4. g[n + 1 + 1] = g[n + 1] \o s[n + 1 + 1]
      BY <2>1, <3>1
    <3> QED
      BY <3>2, <3>3, <3>4
  <2>6. \A n \in Nat : n \in E
    <3> HIDE DEF E
    <3> QED
      BY <2>4, <2>5, Induct
  <2>7. N - 1 \in Nat /\ (N - 1) + 1 = N /\ N \in 1 .. N
    BY <1>2
  <2>8. h[N] = g[N]
    BY <2>6, <2>7
  <2> QED
    BY <2>3, <2>7, <2>8
<1> QED
  BY <1>1, <1>2

(* Concatenation is associative. *)
LEMMA Assoc ==
  ASSUME NEW a \in Seq(Int), NEW b \in Seq(Int), NEW c \in Seq(Int)
  PROVE  (a \o b) \o c = a \o (b \o c)
  BY SMTT(30)

(* Concatenation, as an operator that stays folded. *)
Join(a, b) == a \o b

(* R[k] is what is left of s, flattened, behind its first k members. *)
Leaves(s, n, R) == \A k \in 1 .. n : R[k - 1] = Join(s[k], R[k])

(* Flattening by concatenating from the front, and what is left behind     *)
(* each member.                                                            *)
LEMMA Unroll ==
  ASSUME NEW s \in Seq(Seq(Int))
  PROVE  \E F \in [0 .. Len(s) -> Seq(Int)] :
           /\ Catenates(s, Len(s), F)
           /\ \A t \in Seq(Int) : \E R \in [0 .. Len(s) -> Seq(Int)] :
                Leaves(s, Len(s), R) /\ R[Len(s)] = t /\ R[0] = F[Len(s)] \o t
<1> DEFINE Back(n, F) == \A rest \in Seq(Int) : \E R \in [0 .. n -> Seq(Int)] :
                           Leaves(s, n, R) /\ R[n] = rest /\ R[0] = F[n] \o rest
<1> DEFINE Good(n) == \E F \in [0 .. n -> Seq(Int)] : Catenates(s, n, F) /\ Back(n, F)
<1> DEFINE E == {n \in Nat : Good(n)}
<1>1. 0 \in E
  <2>1. PICK F \in [0 .. 0 -> Seq(Int)] : F[0] = <<>>
    <3>1. [i \in 0 .. 0 |-> <<>>] \in [0 .. 0 -> Seq(Int)] /\ [i \in 0 .. 0 |-> <<>>][0] = <<>>
      OBVIOUS
    <3> QED
      BY <3>1, Zenon
  <2>2. Catenates(s, 0, F)
    BY <2>1 DEF Catenates
  <2>3. ASSUME NEW rest \in Seq(Int)
        PROVE  \E R \in [0 .. 0 -> Seq(Int)] :
                 Leaves(s, 0, R) /\ R[0] = rest /\ R[0] = F[0] \o rest
    <3>1. PICK R \in [0 .. 0 -> Seq(Int)] : R[0] = rest
      <4>1. [i \in 0 .. 0 |-> rest] \in [0 .. 0 -> Seq(Int)] /\ [i \in 0 .. 0 |-> rest][0] = rest
        OBVIOUS
      <4> QED
        BY <4>1, Zenon
    <3>2. Leaves(s, 0, R)
      BY DEF Leaves
    <3>3. <<>> \o rest = rest
      BY ConcatEmptySeq
    <3> QED
      BY <2>1, <3>1, <3>2, <3>3
  <2> QED
    BY <2>2, <2>3
<1>2. ASSUME NEW n \in 1 .. Len(s), n - 1 \in E PROVE n \in E
  <2>1. PICK F \in [0 .. n - 1 -> Seq(Int)] : Catenates(s, n - 1, F) /\ Back(n - 1, F)
    BY <1>2
  <2>2. /\ n \in Nat /\ n - 1 \in Nat /\ n - 1 \in 0 .. n - 1 /\ 0 \in 0 .. n - 1
        /\ \A i \in 0 .. n : i # n => i \in 0 .. n - 1
        /\ \A i \in 1 .. n : i # n => i \in 1 .. n - 1 /\ i \in 0 .. n - 1 /\ i - 1 \in 0 .. n - 1
        /\ 0 # n /\ n - 1 # n /\ n \in 0 .. n
        /\ \A i \in 0 .. n - 1 : i \in 0 .. n /\ i # n
    OBVIOUS
  <2>3. s[n] \in Seq(Int) /\ F[n - 1] \in Seq(Int)
    BY <2>2
  <2> DEFINE G == [i \in 0 .. n |-> IF i = n THEN F[n - 1] \o s[n] ELSE F[i]]
  <2>4. G \in [0 .. n -> Seq(Int)]
    <3>1. F[n - 1] \o s[n] \in Seq(Int)
      BY <2>3
    <3> QED
      BY <2>2, <3>1
  <2>5. G[n] = F[n - 1] \o s[n] /\ \A i \in 0 .. n - 1 : G[i] = F[i]
    BY <2>2
  <2> HIDE DEF G
  <2>6. Catenates(s, n, G)
    <3>1. ASSUME NEW i \in 1 .. n PROVE G[i] = G[i - 1] \o s[i]
      <4>1. CASE i = n
        BY <2>2, <2>5, <4>1
      <4>2. CASE i # n
        BY <2>1, <2>2, <2>5, <4>2 DEF Catenates
      <4> QED
        BY <4>1, <4>2
    <3> QED
      BY <2>1, <2>2, <2>5, <3>1 DEF Catenates
  <2>7. ASSUME NEW rest \in Seq(Int)
        PROVE  \E R \in [0 .. n -> Seq(Int)] :
                 Leaves(s, n, R) /\ R[n] = rest /\ R[0] = G[n] \o rest
    <3>1. s[n] \o rest \in Seq(Int)
      BY <2>3
    <3>2. PICK Q \in [0 .. n - 1 -> Seq(Int)] :
            Leaves(s, n - 1, Q) /\ Q[n - 1] = s[n] \o rest /\ Q[0] = F[n - 1] \o (s[n] \o rest)
      BY <2>1, <3>1
    <3> DEFINE R == [i \in 0 .. n |-> IF i = n THEN rest ELSE Q[i]]
    <3>3. R \in [0 .. n -> Seq(Int)] /\ R[n] = rest /\ \A i \in 0 .. n - 1 : R[i] = Q[i]
      BY <2>2
    <3> HIDE DEF R
    <3>4. ASSUME NEW k \in 1 .. n PROVE R[k - 1] = Join(s[k], R[k])
      <4>1. CASE k = n
        BY <2>2, <3>2, <3>3, <4>1 DEF Join
      <4>2. CASE k # n
        BY <2>2, <3>2, <3>3, <4>2 DEF Leaves
      <4> QED
        BY <4>1, <4>2
    <3>5. F[n - 1] \o (s[n] \o rest) = (F[n - 1] \o s[n]) \o rest
      BY <2>3, Assoc
    <3>6. R[0] = G[n] \o rest
      BY <2>2, <2>5, <3>2, <3>3, <3>5
    <3> QED
      BY <3>3, <3>4, <3>6 DEF Leaves
  <2>8. Good(n)
    BY <2>4, <2>6, <2>7
  <2> QED
    BY <2>2, <2>8
<1>3. Len(s) \in Nat /\ Len(s) \in 0 .. Len(s)
  OBVIOUS
<1>4. \A n \in 0 .. Len(s) : n \in E
  <2> HIDE DEF E
  <2> QED
    BY <1>1, <1>2, <1>3, InductTo
<1>5. Good(Len(s))
  <2> HIDE DEF Good
  <2> QED
    BY <1>3, <1>4
<1> QED
  BY <1>5

(* A function on 1 .. n is a sequence of length n. *)
LEMMA SeqFrom ==
  ASSUME NEW S, NEW n \in Nat, NEW f \in [1 .. n -> S]
  PROVE  f \in Seq(S) /\ Len(f) = n
  OBVIOUS

(* A flattened sequence and something behind it, member by member.  If no  *)
(* member is empty there are as many elements as members.                  *)
LEMMA Peel ==
  ASSUME NEW s \in Seq(Seq(Int)), NEW rest \in Seq(Int)
  PROVE  /\ FlattenSeq(s) \in Seq(Int)
         /\ \E R \in [0 .. Len(s) -> Seq(Int)] :
              /\ Leaves(s, Len(s), R)
              /\ R[Len(s)] = rest
              /\ R[0] = Join(FlattenSeq(s), rest)
              /\ (\A k \in 1 .. Len(s) : s[k] # <<>>) => Len(s) <= Len(R[0])
<1>1. PICK F \in [0 .. Len(s) -> Seq(Int)] :
        /\ Catenates(s, Len(s), F)
        /\ \A t \in Seq(Int) : \E R \in [0 .. Len(s) -> Seq(Int)] :
             Leaves(s, Len(s), R) /\ R[Len(s)] = t /\ R[0] = F[Len(s)] \o t
  BY Unroll
<1>2. FlattenSeq(s) = F[Len(s)]
  BY <1>1, FlattenIsLast
<1>3. Len(s) \in Nat /\ Len(s) \in 0 .. Len(s) /\ F[Len(s)] \in Seq(Int)
  OBVIOUS
<1>4. PICK R \in [0 .. Len(s) -> Seq(Int)] :
        Leaves(s, Len(s), R) /\ R[Len(s)] = rest /\ R[0] = F[Len(s)] \o rest
  BY <1>1
<1>5. ASSUME \A k \in 1 .. Len(s) : s[k] # <<>> PROVE Len(s) <= Len(R[0])
  <2> DEFINE E == {n \in Nat : n <= Len(s) => n + Len(R[n]) <= Len(R[0])}
  <2>1. 0 \in E
    OBVIOUS
  <2>2. ASSUME NEW n \in 1 .. Len(s), n - 1 \in E PROVE n \in E
    <3>0. n - 1 \in Nat /\ n - 1 <= Len(s) /\ n \in Nat
      OBVIOUS
    <3>6. (n - 1) + Len(R[n - 1]) <= Len(R[0])
      BY <2>2, <3>0
    <3>7. n + Len(R[n]) <= Len(R[0]) => n \in E
      BY <3>0
    <3> HIDE DEF E
    <3>1. n - 1 \in 0 .. Len(s) /\ n \in 0 .. Len(s) /\ 0 \in 0 .. Len(s)
      OBVIOUS
    <3>2. R[n - 1] \in Seq(Int) /\ R[n] \in Seq(Int) /\ R[0] \in Seq(Int) /\ s[n] \in Seq(Int)
      <4>1. \A k \in 0 .. Len(s) : R[k] \in Seq(Int)
        OBVIOUS
      <4> QED
        BY <3>1, <4>1
    <3>3. R[n - 1] = s[n] \o R[n] /\ s[n] # <<>>
      BY <1>4, <1>5 DEF Leaves, Join
    <3>4. Len(R[n - 1]) = Len(s[n]) + Len(R[n]) /\ Len(s[n]) >= 1
      BY <3>2, <3>3
    <3>5. Len(R[n - 1]) \in Nat /\ Len(R[n]) \in Nat /\ Len(R[0]) \in Nat
      BY <3>2
    <3>9. PICK a \in Nat, b \in Nat, c \in Nat :
            a = Len(R[n - 1]) /\ b = Len(R[n]) /\ c = Len(R[0])
      BY <3>5
    <3>10. (n - 1) + a <= c
      BY <3>6, <3>9
    <3>12. Len(s[n]) \in Nat
      BY <3>2
    <3>13. PICK d \in Nat : d = Len(s[n])
      BY <3>12
    <3>14. a = d + b /\ d >= 1
      BY <3>4, <3>9, <3>13
    <3>11. b + 1 <= a
      BY <3>14
    <3>8. n + b <= c
      BY <3>10, <3>11
    <3> QED
      BY <3>7, <3>8, <3>9
  <2>3. \A n \in 0 .. Len(s) : n \in E
    <3> HIDE DEF E
    <3> QED
      BY <1>3, <2>1, <2>2, InductTo
  <2>4. Len(s) + Len(R[Len(s)]) <= Len(R[0])
    BY <1>3, <2>3
  <2>5. 0 \in 0 .. Len(s)
    OBVIOUS
  <2>6. Len(R[Len(s)]) \in Nat /\ Len(R[0]) \in Nat
    BY <1>3, <2>5
  <2> QED
    BY <1>3, <2>4, <2>6
<1>6. R[0] = Join(FlattenSeq(s), rest)
  BY <1>2, <1>4 DEF Join
<1> QED
  BY <1>2, <1>3, <1>4, <1>5, <1>6

-----------------------------------------------------------------------------
(* Concatenating, and appending, an operator that stays folded. *)

Push(o, x) == Append(o, x)

(* What is joined is a sequence of units, as long as both together. *)
LEMMA JoinType ==
  ASSUME NEW a \in Seq(Int), NEW b \in Seq(Int)
  PROVE  Join(a, b) \in Seq(Int) /\ Len(Join(a, b)) = Len(a) + Len(b)
  BY DEF Join

(* Concatenation is associative. *)
LEMMA JoinAssoc ==
  ASSUME NEW a \in Seq(Int), NEW b \in Seq(Int), NEW c \in Seq(Int)
  PROVE  Join(Join(a, b), c) = Join(a, Join(b, c))
  BY DEF Join

(* Joined to something, it is not empty. *)
LEMMA JoinLonger ==
  ASSUME NEW a \in Seq(Int), NEW b \in Seq(Int), Len(a) # 0
  PROVE  Join(a, b) \in Seq(Int) /\ Len(Join(a, b)) # 0 /\ Join(a, b) # <<>>
  BY DEF Join

(* Nothing is added by the empty sequence. *)
LEMMA JoinNone ==
  ASSUME NEW a \in Seq(Int)
  PROVE  Join(a, <<>>) = a /\ Join(<<>>, a) = a
  BY DEF Join

-----------------------------------------------------------------------------
(* States of a parser. *)

(* p is fine, with ptr to read and o read. *)
At(p, ptr, o) == DOMAIN p = {"st", "ptr", "out"} /\ p.st = "ok" /\ p.ptr = ptr /\ p.out = o

(* p has panicked. *)
Panics(p) == DOMAIN p = {"st", "ptr", "out"} /\ p.st = "panic"

(* o holds n values. *)
Holds(o, n) == n \in Nat /\ o = [i \in 1 .. n |-> o[i]]

(* A parser starts with nothing read. *)
LEMMA StartAt == ASSUME NEW ptr PROVE At(Start(ptr), ptr, <<>>)
  BY DEF At, Start

(* q is o and one value more, the m-th. *)
More(q, o, m, x) == Holds(q, m) /\ q[m] = x /\ \A i \in 1 .. m - 1 : q[i] = o[i]

(* A value more, and those before stay. *)
LEMMA Grown ==
  ASSUME NEW o, NEW n, NEW x, NEW m, Holds(o, n), m = n + 1
  PROVE  More(Push(o, x), o, m, x)
<1>0. PICK q : q = Push(o, x)
  OBVIOUS
<1>1. q = [i \in 1 .. n + 1 |-> IF i = n + 1 THEN x ELSE o[i]]
  BY <1>0 DEF Holds, Push
<1>2. n \in Nat /\ m - 1 = n /\ n + 1 \in 1 .. n + 1 /\ \A i \in 1 .. n : i \in 1 .. n + 1 /\ i # n + 1
  BY DEF Holds
<1>3. q = [i \in 1 .. n + 1 |-> q[i]]
  BY <1>1
<1>4. q[n + 1] = x /\ \A i \in 1 .. n : q[i] = o[i]
  BY <1>1, <1>2
<1>5. Holds(q, m)
  BY <1>2, <1>3 DEF Holds
<1> QED
  BY <1>0, <1>2, <1>4, <1>5 DEF More

(* A sequence holds as many values as its length says. *)
LEMMA SeqHolds ==
  ASSUME NEW S, NEW o \in Seq(S)
  PROVE  Holds(o, Len(o))
  BY DEF Holds

(* The first units of what is joined, and those behind. *)
LEMMA Cut ==
  ASSUME NEW h \in Seq(Int), NEW rest \in Seq(Int), NEW n, n = Len(h)
  PROVE  Drop(Join(h, rest), n) = rest /\ Upto(Join(h, rest), n) = h
  BY DEF Drop, Upto, Join

(* Reading integers into a fresh state. *)
LEMMA IntsRead ==
  ASSUME NEW p, NEW h \in Seq(Int), NEW rest \in Seq(Int), NEW n, n = Len(h),
         At(p, Join(h, rest), <<>>)
  PROVE  At(Ints(p, n), rest, h)
<1>1. Len(Join(h, rest)) >= n /\ Len(Join(h, rest)) \in Nat /\ n \in Nat
  BY DEF Join
<1>2. <<>> \o h = h
  OBVIOUS
<1>3. PICK ptr : ptr = Join(h, rest)
  OBVIOUS
<1>4. Drop(ptr, n) = rest /\ Upto(ptr, n) = h
  BY <1>3, Cut
<1>5. p.st = "ok" /\ p.ptr = ptr /\ p.out = <<>> /\ At(p, ptr, <<>>)
  BY <1>3 DEF At
<1>6. Ints(p, n) = [p EXCEPT !.ptr = Drop(ptr, n), !.out = <<>> \o Upto(ptr, n)]
  <2>1. ~(Len(ptr) < n)
    BY <1>1, <1>3
  <2>2. Ints(p, n) = [p EXCEPT !.ptr = Drop(p.ptr, n), !.out = p.out \o Upto(p.ptr, n)]
    BY <1>5, <2>1 DEF Ints
  <2> QED
    BY <1>5, <2>2
<1>7. Ints(p, n) = [p EXCEPT !.ptr = rest, !.out = h]
  BY <1>2, <1>4, <1>6
<1> QED
  BY <1>5, <1>7 DEF At, Push

(* A string behind its length. *)
LEMMA StrRead ==
  ASSUME NEW p, NEW s \in String, NEW rest \in Seq(Int), NEW o, NEW k,
         At(p, Join(Str(s), rest), o), o[k] = Len(s)
  PROVE  At(read_str(p, k), rest, Push(o, s))
<1>1. s \in Seq(Int) /\ Len(s) \in 0 .. MaxStrLen /\ Len(Str(s)) = Len(s) + 1 /\ Str(s) \in Seq(Int)
  BY TypeInfoAssumption DEF Str, String
<1>2. PICK ptr : ptr = Join(Str(s), rest)
  OBVIOUS
<1>3. Upto(ptr, Len(s)) = s
  BY <1>1, <1>2 DEF Str, Upto, Join
<1>4. Drop(ptr, Len(s) + 1) = rest
  BY <1>1, <1>2, Cut
<1>5. p.st = "ok" /\ p.ptr = ptr /\ p.out = o /\ At(p, ptr, o)
  BY <1>2 DEF At
<1>6. read_str(p, k) = [p EXCEPT !.ptr = Drop(ptr, Len(s) + 1), !.out = Append(o, Upto(ptr, Len(s)))]
  <2>1. read_str(p, k) = [p EXCEPT !.ptr = Drop(p.ptr, p.out[k] + 1),
                                   !.out = Append(p.out, Upto(p.ptr, p.out[k]))]
    BY <1>1, <1>5 DEF read_str
  <2> QED
    BY <1>5, <2>1
<1>7. read_str(p, k) = [p EXCEPT !.ptr = rest, !.out = Append(o, s)]
  BY <1>3, <1>4, <1>6
<1> QED
  BY <1>5, <1>7 DEF At, Push

(* Bytes. *)
LEMMA RawRead ==
  ASSUME NEW p, NEW h \in Seq(Int), NEW rest \in Seq(Int), NEW o, NEW n, n = Len(h),
         At(p, Join(h, rest), o)
  PROVE  At(Raw(p, n), rest, Push(o, h))
<1>1. n \in 0 .. Len(Join(h, rest))
  BY DEF Join
<1>2. PICK ptr : ptr = Join(h, rest)
  OBVIOUS
<1>3. Drop(ptr, n) = rest /\ Upto(ptr, n) = h
  BY <1>2, Cut
<1>4. p.st = "ok" /\ p.ptr = ptr /\ p.out = o /\ At(p, ptr, o)
  BY <1>2 DEF At
<1>5. Raw(p, n) = [p EXCEPT !.ptr = Drop(ptr, n), !.out = Append(o, Upto(ptr, n))]
  <2>1. Raw(p, n) = [p EXCEPT !.ptr = Drop(p.ptr, n), !.out = Append(p.out, Upto(p.ptr, n))]
    BY <1>1, <1>2, <1>4 DEF Raw
  <2> QED
    BY <1>4, <2>1
<1>6. Raw(p, n) = [p EXCEPT !.ptr = rest, !.out = Append(o, h)]
  BY <1>3, <1>5
<1> QED
  BY <1>4, <1>6 DEF At, Push

(* The first members of a list. *)
LEMMA Firsts ==
  ASSUME NEW S, NEW seq \in Seq(S)
  PROVE  /\ SubSeq(seq, 1, 0) = <<>>
         /\ SubSeq(seq, 1, Len(seq)) = seq
         /\ \A k \in 1 .. Len(seq) : Push(SubSeq(seq, 1, k - 1), seq[k]) = SubSeq(seq, 1, k)
<1>1. ASSUME NEW k \in 1 .. Len(seq)
      PROVE Push(SubSeq(seq, 1, k - 1), seq[k]) = SubSeq(seq, 1, k)
  BY DEF Push
<1> QED
  BY <1>1

(* A list, one member after the other: every turn reads one, or some turn  *)
(* panics.                                                                 *)
LEMMA Walked ==
  ASSUME NEW S, NEW seq \in Seq(S), NEW R, NEW g, NEW bad,
         At(g[0], R[0], <<>>),
         \A k \in 1 .. Len(seq) :
           /\ \A o : At(g[k - 1], R[k - 1], o) =>
                       At(g[k], R[k], Push(o, seq[k])) \/ (bad /\ Panics(g[k]))
           /\ Panics(g[k - 1]) => Panics(g[k])
  PROVE  At(g[Len(seq)], R[Len(seq)], seq) \/ (bad /\ Panics(g[Len(seq)]))
<1> DEFINE E == {n \in 0 .. Len(seq) :
                   At(g[n], R[n], SubSeq(seq, 1, n)) \/ (bad /\ Panics(g[n]))}
<1>0. Len(seq) \in Nat /\ Len(seq) \in 0 .. Len(seq) /\ 0 \in 0 .. Len(seq)
  OBVIOUS
<1>1. 0 \in E
  <2>1. SubSeq(seq, 1, 0) = <<>>
    BY Firsts
  <2> QED
    BY <1>0, <2>1
<1>2. ASSUME NEW n \in 1 .. Len(seq), n - 1 \in E PROVE n \in E
  <2>1. n \in 0 .. Len(seq)
    OBVIOUS
  <2>2. At(g[n - 1], R[n - 1], SubSeq(seq, 1, n - 1)) \/ (bad /\ Panics(g[n - 1]))
    BY <1>2
  <2>3. Push(SubSeq(seq, 1, n - 1), seq[n]) = SubSeq(seq, 1, n)
    BY Firsts
  <2>4. At(g[n], R[n], SubSeq(seq, 1, n)) \/ (bad /\ Panics(g[n]))
    <3> PICK o : o = SubSeq(seq, 1, n - 1)
      OBVIOUS
    <3>1. At(g[n - 1], R[n - 1], o) => At(g[n], R[n], Push(o, seq[n])) \/ (bad /\ Panics(g[n]))
      OBVIOUS
    <3> QED
      BY <2>2, <2>3, <3>1
  <2> QED
    BY <2>1, <2>4
<1>3. \A n \in 0 .. Len(seq) : n \in E
  <2> HIDE DEF E
  <2> QED
    BY <1>0, <1>1, <1>2, InductTo
<1>4. At(g[Len(seq)], R[Len(seq)], SubSeq(seq, 1, Len(seq))) \/ (bad /\ Panics(g[Len(seq)]))
  BY <1>0, <1>3
<1> QED
  BY <1>4, Firsts

(* q is the state after a list whose turns g ends with. *)
Ends(q, g, n, o) == q = [g[n] EXCEPT !.out = Append(o, g[n].out)]

(* The result of a list is the list. *)
LEMMA Listed ==
  ASSUME NEW q, NEW g, NEW n, NEW o, Ends(q, g, n, o)
  PROVE  /\ \A ptr, seq : At(g[n], ptr, seq) => At(q, ptr, Push(o, seq))
         /\ Panics(g[n]) => Panics(q)
  BY DEF At, Panics, Push, Ends

(* A list inside an entry is collected apart from what was read before. *)
LEMMA Emptied ==
  ASSUME NEW p, NEW ptr, NEW o, At(p, ptr, o)
  PROVE  At([p EXCEPT !.out = <<>>], ptr, <<>>)
  BY DEF At

(* The lists of a record, each as an operator of its own. *)
TimesAttribute(p, k) == Times(p, k, NextAttribute)
TimesParameter(p, k) == Times(p, k, NextParameter)
TimesMethod(p, k) == Times(p, k, NextMethod)
TimesDim(p, k, c) == Times(p, k, LAMBDA q : ArrayDim(q, c))
TimesField(p, k, c) == Times(p, k, LAMBDA q : NextField(q, c))
TimesEnum(p, k, size, base) == Times(p, k, LAMBDA q : NextEnumInfo(q, size, base))

(* The number of turns, as many as the count says or one too many. *)
Rounds(n, ptr) == IF n \in 0 .. Len(ptr) THEN n ELSE Len(ptr) + 1

(* g holds the states of the turns of a list. *)
TurnAttribute(g, ptr, N) ==
  At(g[0], ptr, <<>>) /\ \A n \in 1 .. N : g[n] = NextAttribute(g[n - 1])
TurnParameter(g, ptr, N) ==
  At(g[0], ptr, <<>>) /\ \A n \in 1 .. N : g[n] = NextParameter(g[n - 1])
TurnMethod(g, ptr, N) ==
  At(g[0], ptr, <<>>) /\ \A n \in 1 .. N : g[n] = NextMethod(g[n - 1])
TurnDim(g, ptr, N, c) ==
  At(g[0], ptr, <<>>) /\ \A n \in 1 .. N : g[n] = ArrayDim(g[n - 1], c)
TurnField(g, ptr, N, c) ==
  At(g[0], ptr, <<>>) /\ \A n \in 1 .. N : g[n] = NextField(g[n - 1], c)
TurnEnum(g, ptr, N, size, base) ==
  At(g[0], ptr, <<>>) /\ \A n \in 1 .. N : g[n] = NextEnumInfo(g[n - 1], size, base)

(* G goes on after n with x. *)
Longer(g, x, n, G) ==
  /\ G = [i \in 0 .. n + 1 |-> G[i]]
  /\ G[0] = g[0]
  /\ \A i \in 1 .. n + 1 : /\ G[i - 1] = g[i - 1]
                           /\ (i \in 1 .. n /\ G[i] = g[i]) \/ (i - 1 = n /\ G[i] = x)

(* There is such a G. *)
LEMMA OneLonger ==
  ASSUME NEW n \in Nat, NEW g, NEW x
  PROVE  \E G : Longer(g, x, n, G)
<1> DEFINE G == [i \in 0 .. n + 1 |-> IF i = n + 1 THEN x ELSE g[i]]
<1>1. G = [i \in 0 .. n + 1 |-> G[i]] /\ \A i \in 0 .. n : i \in 0 .. n + 1 /\ i # n + 1
  OBVIOUS
<1>2. G[n + 1] = x /\ \A i \in 0 .. n : G[i] = g[i]
  BY <1>1
<1>3. 0 \in 0 .. n /\ \A i \in 1 .. n + 1 : i - 1 \in 0 .. n
  OBVIOUS
<1>4. \A i \in 1 .. n + 1 : (i \in 1 .. n /\ i \in 0 .. n) \/ (i - 1 = n /\ i = n + 1)
  OBVIOUS
<1> HIDE DEF G
<1> QED
  BY <1>1, <1>2, <1>3, <1>4 DEF Longer

(* The turns of a list of attributes. *)
LEMMA AttributeRounds ==
  ASSUME NEW p, NEW ptr, NEW o, NEW k, NEW N, At(p, ptr, o), N = Rounds(o[k], ptr), N \in Nat
  PROVE  \E g : TurnAttribute(g, ptr, N) /\ Ends(TimesAttribute(p, k), g, N, o)
<1> DEFINE a == [p EXCEPT !.out = <<>>]
<1> DEFINE Turn(g, n) == g = [i \in 0 .. n |-> g[i]] /\ g[0] = a /\ \A i \in 1 .. n : g[i] = NextAttribute(g[i - 1])
<1> DEFINE body(g) == [n \in 0 .. N |-> IF n = 0 THEN a ELSE NextAttribute(g[n - 1])]
<1> DEFINE E == {n \in Nat : \E g : Turn(g, n)}
<1>1. At(a, ptr, <<>>)
  BY Emptied
<1> HIDE DEF a
<1>2. 0 \in E
  <2>1. Turn([i \in 0 .. 0 |-> a], 0)
    OBVIOUS
  <2> QED
    BY <2>1
<1>3. ASSUME NEW n \in Nat, n \in E PROVE n + 1 \in E
  <2>1. PICK g : Turn(g, n)
    BY <1>3
  <2>2. PICK G : Longer(g, NextAttribute(g[n]), n, G)
    BY OneLonger
  <2>3. \A i \in 1 .. n + 1 : G[i] = NextAttribute(G[i - 1])
    BY <2>1, <2>2 DEF Longer
  <2>4. Turn(G, n + 1)
    BY <2>1, <2>2, <2>3 DEF Longer
  <2> HIDE DEF Turn
  <2> QED
    BY <2>4
<1>4. N \in E
  <2> HIDE DEF E
  <2> QED
    BY <1>2, <1>3, Induct
<1> DEFINE h == CHOOSE g : g = body(g)
<1>5. h = body(h)
  <2>1. PICK g : Turn(g, N)
    BY <1>4
  <2>2. ASSUME NEW n \in 0 .. N PROVE g[n] = IF n = 0 THEN a ELSE NextAttribute(g[n - 1])
    <3>1. n # 0 => n \in 1 .. N
      OBVIOUS
    <3> QED
      BY <2>1, <3>1
  <2>3. [n \in 0 .. N |-> g[n]] = body(g)
    BY <2>2
  <2>4. g = body(g)
    BY <2>1, <2>3, Zenon
  <2> QED
    BY <2>4, Zenon
<1>6. TimesAttribute(p, k) = [h[N] EXCEPT !.out = Append(p.out, h[N].out)]
  <2>1. p.st = "ok" /\ p.out[k] = o[k] /\ p.ptr = ptr
    BY DEF At
  <2> QED
    BY <2>1 DEF TimesAttribute, Times, a, Rounds
<1> HIDE DEF h
<1>7. 0 \in 0 .. N /\ \A n \in 1 .. N : n \in 0 .. N /\ n # 0
  OBVIOUS
<1>8. h[0] = a /\ \A n \in 1 .. N : h[n] = NextAttribute(h[n - 1])
  BY <1>5, <1>7
<1>9. TurnAttribute(h, ptr, N)
  BY <1>1, <1>8 DEF TurnAttribute
<1>10. Ends(TimesAttribute(p, k), h, N, o)
  BY <1>6 DEF Ends, At
<1> QED
  BY <1>9, <1>10

(* The turns of a list of parameters. *)
LEMMA ParameterRounds ==
  ASSUME NEW p, NEW ptr, NEW o, NEW k, NEW N, At(p, ptr, o), N = Rounds(o[k], ptr), N \in Nat
  PROVE  \E g : TurnParameter(g, ptr, N) /\ Ends(TimesParameter(p, k), g, N, o)
<1> DEFINE a == [p EXCEPT !.out = <<>>]
<1> DEFINE Turn(g, n) == g = [i \in 0 .. n |-> g[i]] /\ g[0] = a /\ \A i \in 1 .. n : g[i] = NextParameter(g[i - 1])
<1> DEFINE body(g) == [n \in 0 .. N |-> IF n = 0 THEN a ELSE NextParameter(g[n - 1])]
<1> DEFINE E == {n \in Nat : \E g : Turn(g, n)}
<1>1. At(a, ptr, <<>>)
  BY Emptied
<1> HIDE DEF a
<1>2. 0 \in E
  <2>1. Turn([i \in 0 .. 0 |-> a], 0)
    OBVIOUS
  <2> QED
    BY <2>1
<1>3. ASSUME NEW n \in Nat, n \in E PROVE n + 1 \in E
  <2>1. PICK g : Turn(g, n)
    BY <1>3
  <2>2. PICK G : Longer(g, NextParameter(g[n]), n, G)
    BY OneLonger
  <2>3. \A i \in 1 .. n + 1 : G[i] = NextParameter(G[i - 1])
    BY <2>1, <2>2 DEF Longer
  <2>4. Turn(G, n + 1)
    BY <2>1, <2>2, <2>3 DEF Longer
  <2> HIDE DEF Turn
  <2> QED
    BY <2>4
<1>4. N \in E
  <2> HIDE DEF E
  <2> QED
    BY <1>2, <1>3, Induct
<1> DEFINE h == CHOOSE g : g = body(g)
<1>5. h = body(h)
  <2>1. PICK g : Turn(g, N)
    BY <1>4
  <2>2. ASSUME NEW n \in 0 .. N PROVE g[n] = IF n = 0 THEN a ELSE NextParameter(g[n - 1])
    <3>1. n # 0 => n \in 1 .. N
      OBVIOUS
    <3> QED
      BY <2>1, <3>1
  <2>3. [n \in 0 .. N |-> g[n]] = body(g)
    BY <2>2
  <2>4. g = body(g)
    BY <2>1, <2>3, Zenon
  <2> QED
    BY <2>4, Zenon
<1>6. TimesParameter(p, k) = [h[N] EXCEPT !.out = Append(p.out, h[N].out)]
  <2>1. p.st = "ok" /\ p.out[k] = o[k] /\ p.ptr = ptr
    BY DEF At
  <2> QED
    BY <2>1 DEF TimesParameter, Times, a, Rounds
<1> HIDE DEF h
<1>7. 0 \in 0 .. N /\ \A n \in 1 .. N : n \in 0 .. N /\ n # 0
  OBVIOUS
<1>8. h[0] = a /\ \A n \in 1 .. N : h[n] = NextParameter(h[n - 1])
  BY <1>5, <1>7
<1>9. TurnParameter(h, ptr, N)
  BY <1>1, <1>8 DEF TurnParameter
<1>10. Ends(TimesParameter(p, k), h, N, o)
  BY <1>6 DEF Ends, At
<1> QED
  BY <1>9, <1>10

(* The turns of a list of methods. *)
LEMMA MethodRounds ==
  ASSUME NEW p, NEW ptr, NEW o, NEW k, NEW N, At(p, ptr, o), N = Rounds(o[k], ptr), N \in Nat
  PROVE  \E g : TurnMethod(g, ptr, N) /\ Ends(TimesMethod(p, k), g, N, o)
<1> DEFINE a == [p EXCEPT !.out = <<>>]
<1> DEFINE Turn(g, n) == g = [i \in 0 .. n |-> g[i]] /\ g[0] = a /\ \A i \in 1 .. n : g[i] = NextMethod(g[i - 1])
<1> DEFINE body(g) == [n \in 0 .. N |-> IF n = 0 THEN a ELSE NextMethod(g[n - 1])]
<1> DEFINE E == {n \in Nat : \E g : Turn(g, n)}
<1>1. At(a, ptr, <<>>)
  BY Emptied
<1> HIDE DEF a
<1>2. 0 \in E
  <2>1. Turn([i \in 0 .. 0 |-> a], 0)
    OBVIOUS
  <2> QED
    BY <2>1
<1>3. ASSUME NEW n \in Nat, n \in E PROVE n + 1 \in E
  <2>1. PICK g : Turn(g, n)
    BY <1>3
  <2>2. PICK G : Longer(g, NextMethod(g[n]), n, G)
    BY OneLonger
  <2>3. \A i \in 1 .. n + 1 : G[i] = NextMethod(G[i - 1])
    BY <2>1, <2>2 DEF Longer
  <2>4. Turn(G, n + 1)
    BY <2>1, <2>2, <2>3 DEF Longer
  <2> HIDE DEF Turn
  <2> QED
    BY <2>4
<1>4. N \in E
  <2> HIDE DEF E
  <2> QED
    BY <1>2, <1>3, Induct
<1> DEFINE h == CHOOSE g : g = body(g)
<1>5. h = body(h)
  <2>1. PICK g : Turn(g, N)
    BY <1>4
  <2>2. ASSUME NEW n \in 0 .. N PROVE g[n] = IF n = 0 THEN a ELSE NextMethod(g[n - 1])
    <3>1. n # 0 => n \in 1 .. N
      OBVIOUS
    <3> QED
      BY <2>1, <3>1
  <2>3. [n \in 0 .. N |-> g[n]] = body(g)
    BY <2>2
  <2>4. g = body(g)
    BY <2>1, <2>3, Zenon
  <2> QED
    BY <2>4, Zenon
<1>6. TimesMethod(p, k) = [h[N] EXCEPT !.out = Append(p.out, h[N].out)]
  <2>1. p.st = "ok" /\ p.out[k] = o[k] /\ p.ptr = ptr
    BY DEF At
  <2> QED
    BY <2>1 DEF TimesMethod, Times, a, Rounds
<1> HIDE DEF h
<1>7. 0 \in 0 .. N /\ \A n \in 1 .. N : n \in 0 .. N /\ n # 0
  OBVIOUS
<1>8. h[0] = a /\ \A n \in 1 .. N : h[n] = NextMethod(h[n - 1])
  BY <1>5, <1>7
<1>9. TurnMethod(h, ptr, N)
  BY <1>1, <1>8 DEF TurnMethod
<1>10. Ends(TimesMethod(p, k), h, N, o)
  BY <1>6 DEF Ends, At
<1> QED
  BY <1>9, <1>10

(* The turns of a list of array dimensions. *)
LEMMA DimRounds ==
  ASSUME NEW c, NEW p, NEW ptr, NEW o, NEW k, NEW N, At(p, ptr, o), N = Rounds(o[k], ptr), N \in Nat
  PROVE  \E g : TurnDim(g, ptr, N, c) /\ Ends(TimesDim(p, k, c), g, N, o)
<1> DEFINE a == [p EXCEPT !.out = <<>>]
<1> DEFINE Turn(g, n) == g = [i \in 0 .. n |-> g[i]] /\ g[0] = a /\ \A i \in 1 .. n : g[i] = ArrayDim(g[i - 1], c)
<1> DEFINE body(g) == [n \in 0 .. N |-> IF n = 0 THEN a ELSE ArrayDim(g[n - 1], c)]
<1> DEFINE E == {n \in Nat : \E g : Turn(g, n)}
<1>1. At(a, ptr, <<>>)
  BY Emptied
<1> HIDE DEF a
<1>2. 0 \in E
  <2>1. Turn([i \in 0 .. 0 |-> a], 0)
    OBVIOUS
  <2> QED
    BY <2>1
<1>3. ASSUME NEW n \in Nat, n \in E PROVE n + 1 \in E
  <2>1. PICK g : Turn(g, n)
    BY <1>3
  <2>2. PICK G : Longer(g, ArrayDim(g[n], c), n, G)
    BY OneLonger
  <2>3. \A i \in 1 .. n + 1 : G[i] = ArrayDim(G[i - 1], c)
    BY <2>1, <2>2 DEF Longer
  <2>4. Turn(G, n + 1)
    BY <2>1, <2>2, <2>3 DEF Longer
  <2> HIDE DEF Turn
  <2> QED
    BY <2>4
<1>4. N \in E
  <2> HIDE DEF E
  <2> QED
    BY <1>2, <1>3, Induct
<1> DEFINE h == CHOOSE g : g = body(g)
<1>5. h = body(h)
  <2>1. PICK g : Turn(g, N)
    BY <1>4
  <2>2. ASSUME NEW n \in 0 .. N PROVE g[n] = IF n = 0 THEN a ELSE ArrayDim(g[n - 1], c)
    <3>1. n # 0 => n \in 1 .. N
      OBVIOUS
    <3> QED
      BY <2>1, <3>1
  <2>3. [n \in 0 .. N |-> g[n]] = body(g)
    BY <2>2
  <2>4. g = body(g)
    BY <2>1, <2>3, Zenon
  <2> QED
    BY <2>4, Zenon
<1>6. TimesDim(p, k, c) = [h[N] EXCEPT !.out = Append(p.out, h[N].out)]
  <2>1. p.st = "ok" /\ p.out[k] = o[k] /\ p.ptr = ptr
    BY DEF At
  <2> QED
    BY <2>1 DEF TimesDim, Times, a, Rounds
<1> HIDE DEF h
<1>7. 0 \in 0 .. N /\ \A n \in 1 .. N : n \in 0 .. N /\ n # 0
  OBVIOUS
<1>8. h[0] = a /\ \A n \in 1 .. N : h[n] = ArrayDim(h[n - 1], c)
  BY <1>5, <1>7
<1>9. TurnDim(h, ptr, N, c)
  BY <1>1, <1>8 DEF TurnDim
<1>10. Ends(TimesDim(p, k, c), h, N, o)
  BY <1>6 DEF Ends, At
<1> QED
  BY <1>9, <1>10

(* The turns of a list of fields. *)
LEMMA FieldRounds ==
  ASSUME NEW c, NEW p, NEW ptr, NEW o, NEW k, NEW N, At(p, ptr, o), N = Rounds(o[k], ptr), N \in Nat
  PROVE  \E g : TurnField(g, ptr, N, c) /\ Ends(TimesField(p, k, c), g, N, o)
<1> DEFINE a == [p EXCEPT !.out = <<>>]
<1> DEFINE Turn(g, n) == g = [i \in 0 .. n |-> g[i]] /\ g[0] = a /\ \A i \in 1 .. n : g[i] = NextField(g[i - 1], c)
<1> DEFINE body(g) == [n \in 0 .. N |-> IF n = 0 THEN a ELSE NextField(g[n - 1], c)]
<1> DEFINE E == {n \in Nat : \E g : Turn(g, n)}
<1>1. At(a, ptr, <<>>)
  BY Emptied
<1> HIDE DEF a
<1>2. 0 \in E
  <2>1. Turn([i \in 0 .. 0 |-> a], 0)
    OBVIOUS
  <2> QED
    BY <2>1
<1>3. ASSUME NEW n \in Nat, n \in E PROVE n + 1 \in E
  <2>1. PICK g : Turn(g, n)
    BY <1>3
  <2>2. PICK G : Longer(g, NextField(g[n], c), n, G)
    BY OneLonger
  <2>3. \A i \in 1 .. n + 1 : G[i] = NextField(G[i - 1], c)
    BY <2>1, <2>2 DEF Longer
  <2>4. Turn(G, n + 1)
    BY <2>1, <2>2, <2>3 DEF Longer
  <2> HIDE DEF Turn
  <2> QED
    BY <2>4
<1>4. N \in E
  <2> HIDE DEF E
  <2> QED
    BY <1>2, <1>3, Induct
<1> DEFINE h == CHOOSE g : g = body(g)
<1>5. h = body(h)
  <2>1. PICK g : Turn(g, N)
    BY <1>4
  <2>2. ASSUME NEW n \in 0 .. N PROVE g[n] = IF n = 0 THEN a ELSE NextField(g[n - 1], c)
    <3>1. n # 0 => n \in 1 .. N
      OBVIOUS
    <3> QED
      BY <2>1, <3>1
  <2>3. [n \in 0 .. N |-> g[n]] = body(g)
    BY <2>2
  <2>4. g = body(g)
    BY <2>1, <2>3, Zenon
  <2> QED
    BY <2>4, Zenon
<1>6. TimesField(p, k, c) = [h[N] EXCEPT !.out = Append(p.out, h[N].out)]
  <2>1. p.st = "ok" /\ p.out[k] = o[k] /\ p.ptr = ptr
    BY DEF At
  <2> QED
    BY <2>1 DEF TimesField, Times, a, Rounds
<1> HIDE DEF h
<1>7. 0 \in 0 .. N /\ \A n \in 1 .. N : n \in 0 .. N /\ n # 0
  OBVIOUS
<1>8. h[0] = a /\ \A n \in 1 .. N : h[n] = NextField(h[n - 1], c)
  BY <1>5, <1>7
<1>9. TurnField(h, ptr, N, c)
  BY <1>1, <1>8 DEF TurnField
<1>10. Ends(TimesField(p, k, c), h, N, o)
  BY <1>6 DEF Ends, At
<1> QED
  BY <1>9, <1>10

(* The turns of a list of enum values. *)
LEMMA EnumRounds ==
  ASSUME NEW size, NEW base, NEW p, NEW ptr, NEW o, NEW k, NEW N, At(p, ptr, o), N = Rounds(o[k], ptr), N \in Nat
  PROVE  \E g : TurnEnum(g, ptr, N, size, base) /\ Ends(TimesEnum(p, k, size, base), g, N, o)
<1> DEFINE a == [p EXCEPT !.out = <<>>]
<1> DEFINE Turn(g, n) == g = [i \in 0 .. n |-> g[i]] /\ g[0] = a /\ \A i \in 1 .. n : g[i] = NextEnumInfo(g[i - 1], size, base)
<1> DEFINE body(g) == [n \in 0 .. N |-> IF n = 0 THEN a ELSE NextEnumInfo(g[n - 1], size, base)]
<1> DEFINE E == {n \in Nat : \E g : Turn(g, n)}
<1>1. At(a, ptr, <<>>)
  BY Emptied
<1> HIDE DEF a
<1>2. 0 \in E
  <2>1. Turn([i \in 0 .. 0 |-> a], 0)
    OBVIOUS
  <2> QED
    BY <2>1
<1>3. ASSUME NEW n \in Nat, n \in E PROVE n + 1 \in E
  <2>1. PICK g : Turn(g, n)
    BY <1>3
  <2>2. PICK G : Longer(g, NextEnumInfo(g[n], size, base), n, G)
    BY OneLonger
  <2>3. \A i \in 1 .. n + 1 : G[i] = NextEnumInfo(G[i - 1], size, base)
    BY <2>1, <2>2 DEF Longer
  <2>4. Turn(G, n + 1)
    BY <2>1, <2>2, <2>3 DEF Longer
  <2> HIDE DEF Turn
  <2> QED
    BY <2>4
<1>4. N \in E
  <2> HIDE DEF E
  <2> QED
    BY <1>2, <1>3, Induct
<1> DEFINE h == CHOOSE g : g = body(g)
<1>5. h = body(h)
  <2>1. PICK g : Turn(g, N)
    BY <1>4
  <2>2. ASSUME NEW n \in 0 .. N PROVE g[n] = IF n = 0 THEN a ELSE NextEnumInfo(g[n - 1], size, base)
    <3>1. n # 0 => n \in 1 .. N
      OBVIOUS
    <3> QED
      BY <2>1, <3>1
  <2>3. [n \in 0 .. N |-> g[n]] = body(g)
    BY <2>2
  <2>4. g = body(g)
    BY <2>1, <2>3, Zenon
  <2> QED
    BY <2>4, Zenon
<1>6. TimesEnum(p, k, size, base) = [h[N] EXCEPT !.out = Append(p.out, h[N].out)]
  <2>1. p.st = "ok" /\ p.out[k] = o[k] /\ p.ptr = ptr
    BY DEF At
  <2> QED
    BY <2>1 DEF TimesEnum, Times, a, Rounds
<1> HIDE DEF h
<1>7. 0 \in 0 .. N /\ \A n \in 1 .. N : n \in 0 .. N /\ n # 0
  OBVIOUS
<1>8. h[0] = a /\ \A n \in 1 .. N : h[n] = NextEnumInfo(h[n - 1], size, base)
  BY <1>5, <1>7
<1>9. TurnEnum(h, ptr, N, size, base)
  BY <1>1, <1>8 DEF TurnEnum
<1>10. Ends(TimesEnum(p, k, size, base), h, N, o)
  BY <1>6 DEF Ends, At
<1> QED
  BY <1>9, <1>10

(* A value read as one, by a parser of its own. *)
LEMMA Wrapped ==
  ASSUME NEW p, NEW ptr, NEW o, At(p, ptr, o), NEW q, NEW a, NEW x,
         q = [p EXCEPT !.ptr = a, !.out = Append(p.out, x)]
  PROVE  At(q, a, Push(o, x))
  BY DEF At, Push

(* A string and its terminator are units. *)
LEMMA StrType ==
  ASSUME NEW s \in String
  PROVE  s \in Seq(Int) /\ Len(s) \in Nat /\ Len(s) \in Int /\ Str(s) \in Seq(Int)
  BY DEF String, Str

(* After a header h of n integers two or three strings have been read. *)
ReadTwo(p, rest, h, n, a, b) ==
  \E o : /\ At(p, rest, o) /\ Holds(o, n + 2)
         /\ \A m \in 1 .. n : o[m] = h[m]
         /\ o[n + 1] = a /\ o[n + 2] = b
ReadThree(p, rest, h, n, a, b, c) ==
  \E o : /\ At(p, rest, o) /\ Holds(o, n + 3)
         /\ \A m \in 1 .. n : o[m] = h[m]
         /\ o[n + 1] = a /\ o[n + 2] = b /\ o[n + 3] = c

(* A header of integers, and two strings whose lengths are in it. *)
LEMMA TwoStrings ==
  ASSUME NEW p, NEW n, NEW h \in Seq(Int), n = Len(h), NEW rest \in Seq(Int),
         NEW a \in String, NEW b \in String, NEW i \in 1 .. n, NEW j \in 1 .. n,
         h[i] = Len(a), h[j] = Len(b),
         At(p, Join(h, Join(Str(a), Join(Str(b), rest))), <<>>)
  PROVE  ReadTwo(read_str(read_str(Ints(p, n), i), j), rest, h, n, a, b)
<1>1. PICK t1 \in Seq(Int) : t1 = Join(Str(b), rest)
  BY StrType, JoinType
<1>2. PICK t0 \in Seq(Int) : t0 = Join(Str(a), t1)
  BY StrType, JoinType
<1>3. PICK p0 : p0 = Ints(p, n)
  OBVIOUS
<1>4. At(p0, t0, h)
  BY <1>1, <1>2, <1>3, IntsRead
<1>5. PICK p1, o1 : p1 = read_str(p0, i) /\ o1 = Push(h, a)
  OBVIOUS
<1>6. At(p1, t1, o1)
  BY <1>2, <1>4, <1>5, StrRead
<1>7. n \in Nat /\ Holds(h, n)
  BY SeqHolds
<1>8. (n + 1) - 1 = n /\ (n + 1) + 1 = n + 2 /\ (n + 2) - 1 = n + 1
  BY <1>7
<1>9. Holds(o1, n + 1) /\ o1[n + 1] = a /\ \A m \in 1 .. n : o1[m] = h[m]
  <2>1. More(o1, h, n + 1, a)
    BY <1>5, <1>7, Grown
  <2> QED
    BY <1>8, <2>1 DEF More
<1>10. PICK p2, o2 : p2 = read_str(p1, j) /\ o2 = Push(o1, b)
  OBVIOUS
<1>11. At(p2, rest, o2)
  BY <1>1, <1>6, <1>9, <1>10, StrRead
<1>12. Holds(o2, n + 2) /\ o2[n + 2] = b /\ \A m \in 1 .. n + 1 : o2[m] = o1[m]
  <2>1. More(o2, o1, n + 2, b)
    BY <1>8, <1>9, <1>10, Grown
  <2> QED
    BY <1>8, <2>1 DEF More
<1>13. n + 1 \in 1 .. n + 1 /\ \A m \in 1 .. n : m \in 1 .. n + 1
  BY <1>7
<1>14. o2[n + 1] = a /\ \A m \in 1 .. n : o2[m] = h[m]
  BY <1>9, <1>12, <1>13
<1>15. ReadTwo(p2, rest, h, n, a, b)
  BY <1>11, <1>12, <1>14 DEF ReadTwo
<1> QED
  BY <1>3, <1>5, <1>10, <1>15

(* ... and three strings. *)
LEMMA ThreeStrings ==
  ASSUME NEW p, NEW n, NEW h \in Seq(Int), n = Len(h), NEW rest \in Seq(Int),
         NEW a \in String, NEW b \in String, NEW c \in String,
         NEW i \in 1 .. n, NEW j \in 1 .. n, NEW k \in 1 .. n,
         h[i] = Len(a), h[j] = Len(b), h[k] = Len(c),
         At(p, Join(h, Join(Str(a), Join(Str(b), Join(Str(c), rest)))), <<>>)
  PROVE  ReadThree(read_str(read_str(read_str(Ints(p, n), i), j), k), rest, h, n, a, b, c)
<1>1. PICK t \in Seq(Int) : t = Join(Str(c), rest)
  BY StrType, JoinType
<1>2. PICK p2 : p2 = read_str(read_str(Ints(p, n), i), j)
  OBVIOUS
<1>3. ReadTwo(p2, t, h, n, a, b)
  BY <1>1, <1>2, TwoStrings
<1>4. PICK o2 : /\ At(p2, t, o2) /\ Holds(o2, n + 2)
                /\ \A m \in 1 .. n : o2[m] = h[m]
                /\ o2[n + 1] = a /\ o2[n + 2] = b
  BY <1>3 DEF ReadTwo
<1>5. PICK p3, o3 : p3 = read_str(p2, k) /\ o3 = Push(o2, c)
  OBVIOUS
<1>6. At(p3, rest, o3)
  BY <1>1, <1>4, <1>5, StrRead
<1>7. n \in Nat /\ (n + 2) + 1 = n + 3 /\ (n + 3) - 1 = n + 2
  OBVIOUS
<1>8. Holds(o3, n + 3) /\ o3[n + 3] = c /\ \A m \in 1 .. n + 2 : o3[m] = o2[m]
  <2>1. More(o3, o2, n + 3, c)
    BY <1>4, <1>5, <1>7, Grown
  <2> QED
    BY <1>7, <2>1 DEF More
<1>9. n + 1 \in 1 .. n + 2 /\ n + 2 \in 1 .. n + 2 /\ \A m \in 1 .. n : m \in 1 .. n + 2
  BY <1>7
<1>10. o3[n + 1] = a /\ o3[n + 2] = b /\ \A m \in 1 .. n : o3[m] = h[m]
  BY <1>4, <1>8, <1>9
<1>11. ReadThree(p3, rest, h, n, a, b, c)
  BY <1>6, <1>8, <1>10 DEF ReadThree
<1> QED
  BY <1>2, <1>5, <1>11

-----------------------------------------------------------------------------
(* What a device sends, decoded again.  Attributes. *)

(* The parts an attribute is sent in. *)
LEMMA AttributeIs ==
  ASSUME NEW a \in AttributeRecord
  PROVE  \E h \in Seq(Int), name \in String, value \in String :
           /\ name = a.name /\ value = a.value /\ a = [name |-> name, value |-> value]
           /\ 2 = Len(h) /\ h[1] = Len(name) /\ h[2] = Len(value)
           /\ Attribute(a) = Join(Join(h, Str(name)), Str(value))
<1>1. PICK name \in String, value \in String :
        name = a.name /\ value = a.value /\ a = [name |-> name, value |-> value]
  BY DEF AttributeRecord
<1> DEFINE h == <<Len(name), Len(value)>>
<1>2. Len(name) \in Int /\ Len(value) \in Int
  BY StrType
<1>3. h \in Seq(Int) /\ 2 = Len(h) /\ h[1] = Len(name) /\ h[2] = Len(value)
  BY <1>2
<1>4. Attribute(a) = Join(Join(h, Str(name)), Str(value))
  BY <1>1 DEF Attribute, Join
<1> HIDE DEF h
<1> QED
  BY <1>1, <1>3, <1>4

(* An attribute is sent in at least one unit. *)
LEMMA AttributeType ==
  ASSUME NEW a \in AttributeRecord
  PROVE  Attribute(a) \in Seq(Int) /\ Attribute(a) # <<>>
<1>1. PICK h \in Seq(Int), name \in String, value \in String :
        2 = Len(h) /\ Attribute(a) = Join(Join(h, Str(name)), Str(value))
  BY AttributeIs
<1>2. Str(name) \in Seq(Int) /\ Str(value) \in Seq(Int)
  BY StrType
<1>4. PICK x \in Seq(Int), y \in Seq(Int) : x = Str(name) /\ y = Str(value)
  BY <1>2
<1>7. 2 = Len(h)
  BY <1>1, Zenon
<1>6. Len(h) # 0
  BY <1>7
<1>3. PICK z \in Seq(Int) : z = Join(h, x) /\ Len(z) # 0
  BY <1>6, JoinLonger
<1>5. Join(z, y) \in Seq(Int) /\ Join(z, y) # <<>>
  BY <1>3, JoinLonger
<1> QED
  BY <1>1, <1>3, <1>4, <1>5

(* One turn reads an attribute as it was sent. *)
LEMMA OneAttribute ==
  ASSUME NEW a \in AttributeRecord, NEW rest \in Seq(Int), NEW p, NEW o,
         At(p, Join(Attribute(a), rest), o)
  PROVE  At(NextAttribute(p), rest, Push(o, a))
<1>1. PICK h \in Seq(Int), name \in String, value \in String :
           /\ name = a.name /\ value = a.value /\ a = [name |-> name, value |-> value]
           /\ 2 = Len(h) /\ h[1] = Len(name) /\ h[2] = Len(value)
           /\ Attribute(a) = Join(Join(h, Str(name)), Str(value))
  BY AttributeIs
<1>2. Join(Attribute(a), rest) = Join(h, Join(Str(name), Join(Str(value), rest)))
  <2>1. PICK x \in Seq(Int), y \in Seq(Int) : x = Str(name) /\ y = Str(value)
    BY StrType
  <2>2. Join(h, x) \in Seq(Int) /\ Join(y, rest) \in Seq(Int)
    BY JoinType
  <2>3. Join(Join(Join(h, x), y), rest) = Join(h, Join(x, Join(y, rest)))
    BY <2>2, JoinAssoc
  <2> QED
    BY <1>1, <2>1, <2>3
<1>3. PICK ptr : ptr = Join(Attribute(a), rest)
  OBVIOUS
<1>4. PICK r : r = read_str(read_str(Ints(Start(ptr), 2), 1), 2)
  OBVIOUS
<1>5. ReadTwo(r, rest, h, 2, name, value)
  <2>1. At(Start(ptr), Join(h, Join(Str(name), Join(Str(value), rest))), <<>>)
    BY <1>2, <1>3, StartAt
  <2>2. 1 \in 1 .. 2 /\ 2 \in 1 .. 2
    OBVIOUS
  <2> QED
    BY <1>1, <1>4, <2>1, <2>2, TwoStrings
<1>6. PICK q : At(r, rest, q) /\ q[3] = name /\ q[4] = value
  BY <1>5 DEF ReadTwo
<1>7. r.st = "ok" /\ r.ptr = rest /\ r.out = q
  BY <1>6 DEF At
<1>8. NextAttribute(p) = [p EXCEPT !.ptr = rest, !.out = Append(p.out, a)]
  <2>1. p.st = "ok" /\ p.ptr = ptr
    BY <1>3 DEF At
  <2>2. NextAttribute(p) = [p EXCEPT !.ptr = r.ptr, !.out = Append(p.out, [name |-> r.out[3], value |-> r.out[4]])]
    BY <1>4, <1>7, <2>1 DEF NextAttribute, Record
  <2> QED
    BY <1>1, <1>6, <1>7, <2>2
<1> QED
  BY <1>8, Wrapped

AttributeList(seq) == FlattenSeq([k \in DOMAIN seq |-> Attribute(seq[k])])

(* R[n] is what is left of the members of es behind the first n, and rest. *)
ListLeft(es, N, R, rest) ==
  /\ N \in Nat /\ N \in 0 .. Len(R[0])
  /\ R[N] = rest /\ R[0] = Join(FlattenSeq(es), rest)
  /\ \A n \in 1 .. N : R[n - 1] = Join(es[n], R[n]) /\ R[n] \in Seq(Int)

(* If none is empty, there are no more members than elements. *)
LEMMA ListPeeled ==
  ASSUME NEW N \in Nat, NEW es \in [1 .. N -> Seq(Int)], NEW rest \in Seq(Int),
         \A i \in 1 .. N : es[i] # <<>>
  PROVE  \E R : ListLeft(es, N, R, rest)
<1>1. es \in Seq(Seq(Int)) /\ Len(es) = N
  BY SeqFrom
<1>2. PICK R \in [0 .. Len(es) -> Seq(Int)] :
        /\ Leaves(es, Len(es), R)
        /\ R[Len(es)] = rest
        /\ R[0] = Join(FlattenSeq(es), rest)
        /\ (\A k \in 1 .. Len(es) : es[k] # <<>>) => Len(es) <= Len(R[0])
  BY <1>1, Peel
<1>3. /\ R \in [0 .. N -> Seq(Int)] /\ Leaves(es, N, R)
      /\ R[N] = rest /\ R[0] = Join(FlattenSeq(es), rest) /\ N <= Len(R[0])
  BY <1>1, <1>2, Zenon
<1>4. 0 \in 0 .. N /\ \A n \in 1 .. N : n \in 0 .. N
  OBVIOUS
<1>5. R[0] \in Seq(Int) /\ \A n \in 1 .. N : R[n] \in Seq(Int)
  BY <1>3, <1>4
<1>6. N \in 0 .. Len(R[0])
  BY <1>3, <1>5
<1> QED
  BY <1>3, <1>5, <1>6 DEF ListLeft, Leaves

(* A list of attributes behind what tells their number. *)
LEMMA ReadAttributes ==
  ASSUME NEW seq \in Seq(AttributeRecord), NEW rest \in Seq(Int), NEW p, NEW o, NEW k,
         At(p, Join(AttributeList(seq), rest), o), o[k] = Len(seq)
  PROVE  At(TimesAttribute(p, k), rest, Push(o, seq))
<1>1. PICK es : es = [i \in DOMAIN seq |-> Attribute(seq[i])]
  OBVIOUS
<1>2. /\ Len(seq) \in Nat /\ DOMAIN seq = 1 .. Len(seq)
      /\ \A i \in 1 .. Len(seq) : seq[i] \in AttributeRecord
  OBVIOUS
<1>3. /\ es \in [1 .. Len(seq) -> Seq(Int)]
      /\ \A i \in 1 .. Len(seq) : es[i] = Attribute(seq[i]) /\ es[i] # <<>>
  BY <1>1, <1>2, AttributeType
<1>4. PICK R : ListLeft(es, Len(seq), R, rest)
  BY <1>2, <1>3, ListPeeled
<1>5. AttributeList(seq) = FlattenSeq(es)
  BY <1>1 DEF AttributeList
<1>6. PICK g : TurnAttribute(g, R[0], Len(seq)) /\ Ends(TimesAttribute(p, k), g, Len(seq), o)
  <2>1. At(p, R[0], o) /\ Len(seq) = Rounds(o[k], R[0]) /\ Len(seq) \in Nat
    BY <1>4, <1>5 DEF ListLeft, Rounds
  <2> QED
    BY <2>1, AttributeRounds
<1>7. At(g[0], R[0], <<>>) /\ \A n \in 1 .. Len(seq) : g[n] = NextAttribute(g[n - 1])
  BY <1>6 DEF TurnAttribute
<1>8. ASSUME NEW n \in 1 .. Len(seq), NEW u, At(g[n - 1], R[n - 1], u)
      PROVE  At(g[n], R[n], Push(u, seq[n]))
  <2>1. R[n - 1] = Join(Attribute(seq[n]), R[n]) /\ R[n] \in Seq(Int) /\ seq[n] \in AttributeRecord
    BY <1>2, <1>3, <1>4 DEF ListLeft
  <2>2. g[n] = NextAttribute(g[n - 1])
    BY <1>7
  <2> QED
    BY <1>8, <2>1, <2>2, OneAttribute
<1>9. ASSUME NEW n \in 1 .. Len(seq), Panics(g[n - 1]) PROVE Panics(g[n])
  BY <1>7, <1>9 DEF NextAttribute, Record, Panics
<1>10. At(g[Len(seq)], R[Len(seq)], seq) \/ (FALSE /\ Panics(g[Len(seq)]))
  BY <1>7, <1>8, <1>9, Walked
<1> QED
  BY <1>4, <1>6, <1>10, Listed DEF ListLeft

(* The type of an encoded list. *)
LEMMA AttributeListType ==
  ASSUME NEW seq \in Seq(AttributeRecord)
  PROVE  AttributeList(seq) \in Seq(Int)
<1>1. PICK es : es = [i \in 1 .. Len(seq) |-> Attribute(seq[i])]
  OBVIOUS
<1>2. \A i \in 1 .. Len(seq) : seq[i] \in AttributeRecord
  OBVIOUS
<1>3. \A i \in 1 .. Len(seq) : Attribute(seq[i]) \in Seq(Int)
  BY <1>2, AttributeType
<1>4. es \in [1 .. Len(seq) -> Seq(Int)] /\ Len(seq) \in Nat
  BY <1>1, <1>3
<1>5. es \in Seq(Seq(Int)) /\ DOMAIN seq = 1 .. Len(seq)
  BY <1>4
<1>6. FlattenSeq(es) \in Seq(Int)
  <2>1. PICK e : e = <<>> /\ e \in Seq(Int)
    BY EmptySeq
  <2> QED
    BY <1>5, <2>1, Peel
<1> QED
  BY <1>1, <1>5, <1>6 DEF AttributeList

(* A count is the integer read first. *)
LEMMA CountRead ==
  ASSUME NEW p, NEW n \in Int, NEW rest \in Seq(Int), At(p, Join(<<n>>, rest), <<>>)
  PROVE  At(Ints(p, 1), rest, <<n>>)
<1>0. PICK h : h = <<n>>
  OBVIOUS
<1>1. h \in Seq(Int) /\ 1 = Len(h)
  BY <1>0
<1> QED
  BY <1>0, <1>1, IntsRead

(* A list is sent as its length and its elements. *)
LEMMA AttributesIs ==
  ASSUME NEW seq \in Seq(AttributeRecord)
  PROVE  /\ Attributes(seq) = Join(<<Len(seq)>>, AttributeList(seq))
         /\ Attributes(seq) \in Seq(Int) /\ Attributes(seq) # <<>>
<1>1. Attributes(seq) = Join(<<Len(seq)>>, AttributeList(seq))
  BY DEF Attributes, List, AttributeList, Join
<1>0. PICK h : h = <<Len(seq)>>
  OBVIOUS
<1>2. h \in Seq(Int) /\ Len(h) # 0
  BY <1>0
<1>3. Join(h, AttributeList(seq)) \in Seq(Int) /\ Join(h, AttributeList(seq)) # <<>>
  BY <1>2, AttributeListType, JoinLonger
<1> QED
  BY <1>0, <1>1, <1>3

(* A list of attributes behind its count. *)
LEMMA AttributesRead ==
  ASSUME NEW seq \in Seq(AttributeRecord), NEW rest \in Seq(Int), NEW p, NEW o,
         At(p, Join(Attributes(seq), rest), o)
  PROVE  At(parse_attributes(p), rest, Push(o, seq))
<1>1. PICK ptr : ptr = Join(Attributes(seq), rest)
  OBVIOUS
<1>2. PICK n, h, es : n = Len(seq) /\ h = <<n>> /\ es = AttributeList(seq)
  OBVIOUS
<1>12. n \in Int /\ h \in Seq(Int) /\ es \in Seq(Int)
  BY <1>2, AttributeListType
<1>3. PICK t \in Seq(Int) : t = Join(es, rest)
  BY <1>12, JoinType
<1>4. ptr = Join(<<n>>, t)
  <2>1. Join(Join(h, es), rest) = Join(h, Join(es, rest))
    BY <1>12, JoinAssoc
  <2> QED
    BY <1>1, <1>2, <1>3, <2>1, AttributesIs
<1>5. PICK c : c = Ints(Start(ptr), 1)
  OBVIOUS
<1>6. At(c, t, <<n>>)
  BY <1>4, <1>5, <1>12, StartAt, CountRead
<1>7. PICK r : r = TimesAttribute(c, 1)
  OBVIOUS
<1>8. At(r, rest, Push(<<n>>, seq))
  <2>1. <<n>>[1] = Len(seq)
    BY <1>2
  <2> QED
    BY <1>2, <1>3, <1>6, <1>7, <2>1, ReadAttributes
<1>9. r.st = "ok" /\ r.ptr = rest /\ r.out[2] = seq
  BY <1>8 DEF At, Push
<1>10. parse_attributes(p) = [p EXCEPT !.ptr = r.ptr, !.out = Append(p.out, r.out[2])]
  <2>1. p.st = "ok" /\ p.ptr = ptr
    BY <1>1 DEF At
  <2> QED
    BY <1>5, <1>7, <1>9, <2>1 DEF parse_attributes, Counted, Record, TimesAttribute
<1>11. parse_attributes(p) = [p EXCEPT !.ptr = rest, !.out = Append(p.out, seq)]
  BY <1>9, <1>10
<1> QED
  BY <1>11, Wrapped

(* Attributes there only if a flag says so. *)
FlagAttributes(p, k, mask) == Flagged(p, k, mask, parse_attributes)
SomeAttributes(opt) == IF opt = None THEN <<>> ELSE Attributes(opt[1])

(* An option is empty or has one value. *)
LEMMA OptionIs ==
  ASSUME NEW S, NEW opt \in Option(S)
  PROVE  opt = <<>> \/ \E x \in S : opt = <<x>> /\ opt # <<>> /\ opt[1] = x
<1>1. CASE opt # <<>>
  <2>1. opt \in Seq(S) /\ Len(opt) = 1
    BY <1>1 DEF Option
  <2>2. opt[1] \in S /\ opt = <<opt[1]>>
    BY <2>1
  <2> QED
    BY <1>1, <2>2
<1> QED
  BY <1>1

(* An optional section is a sequence of units. *)
LEMMA SomeAttributesType ==
  ASSUME NEW opt \in Option(Seq(AttributeRecord))
  PROVE  SomeAttributes(opt) \in Seq(Int)
<1>1. CASE opt = <<>>
  BY <1>1 DEF SomeAttributes, None
<1>2. CASE opt # <<>>
  <2>1. PICK x \in Seq(AttributeRecord) : opt[1] = x
    BY <1>2, OptionIs
  <2>2. SomeAttributes(opt) = Attributes(x)
    BY <1>2, <2>1 DEF SomeAttributes, None
  <2> QED
    BY <2>2, AttributesIs
<1> QED
  BY <1>1, <1>2

(* If the flag tells of the section, it is read as it was sent. *)
LEMMA FlagAttributesRead ==
  ASSUME NEW opt \in Option(Seq(AttributeRecord)), NEW rest \in Seq(Int), NEW p, NEW o, NEW k, NEW mask,
         At(p, Join(SomeAttributes(opt), rest), o), Bit(o[k], mask) <=> opt # None
  PROVE  At(FlagAttributes(p, k, mask), rest, Push(o, opt))
<1>1. p.st = "ok" /\ p.out = o /\ p.ptr = Join(SomeAttributes(opt), rest)
  BY DEF At
<1>2. CASE opt = <<>>
  <2>1. p.ptr = rest
    BY <1>1, <1>2, JoinNone DEF SomeAttributes, None
  <2>2. FlagAttributes(p, k, mask) = [p EXCEPT !.out = Append(p.out, <<>>)]
    BY <1>1, <1>2 DEF FlagAttributes, Flagged, None
  <2> QED
    BY <1>1, <1>2, <2>1, <2>2 DEF At, Push
<1>3. CASE opt # <<>>
  <2>1. PICK x \in Seq(AttributeRecord) : opt = <<x>> /\ opt[1] = x
    BY <1>3, OptionIs
  <2>2. SomeAttributes(opt) = Attributes(x)
    BY <1>3, <2>1 DEF SomeAttributes, None
  <2>3. PICK r : r = parse_attributes(Start(p.ptr))
    OBVIOUS
  <2>4. At(r, rest, Push(<<>>, x))
    <3>1. At(Start(p.ptr), Join(Attributes(x), rest), <<>>)
      BY <1>1, <2>2, StartAt
    <3> QED
      BY <2>3, <3>1, AttributesRead
  <2>5. r.st = "ok" /\ r.ptr = rest /\ r.out = opt
    BY <2>1, <2>4 DEF At, Push
  <2>6. FlagAttributes(p, k, mask) = [p EXCEPT !.ptr = r.ptr, !.out = Append(p.out, r.out)]
    BY <1>1, <1>3, <2>3, <2>5 DEF FlagAttributes, Flagged, Record, None
  <2>7. FlagAttributes(p, k, mask) = [p EXCEPT !.ptr = rest, !.out = Append(p.out, opt)]
    BY <2>5, <2>6
  <2> QED
    BY <2>7, Wrapped
<1> QED
  BY <1>2, <1>3

-----------------------------------------------------------------------------
(* Entries behind their length. *)

(* ptr starts with an entry of the given body. *)
Opens(ptr, body, rest) ==
  /\ ptr # <<>> /\ ptr[1] # 0
  /\ SplitFits(Tail(ptr), ptr[1] - 1)
  /\ Upto(Tail(ptr), ptr[1] - 1) = body
  /\ Drop(Tail(ptr), ptr[1] - 1) = rest

(* The length in front of a body counts itself. *)
LEMMA FramedType ==
  ASSUME NEW body \in Seq(Int)
  PROVE  /\ Framed(body) \in Seq(Int) /\ Framed(body) # <<>>
         /\ Len(Framed(body)) = Len(body) + 1 /\ Framed(body)[1] = Len(body) + 1
  BY DEF Framed

(* An entry is split off in front of what follows. *)
LEMMA FramedOpens ==
  ASSUME NEW body \in Seq(Int), NEW rest \in Seq(Int), NEW ptr, ptr = Join(Framed(body), rest)
  PROVE  Opens(ptr, body, rest)
<1>0. PICK n, h, w : n = Len(body) /\ h = <<n + 1>> /\ w = Join(body, rest)
  OBVIOUS
<1>1. n \in Nat /\ h \in Seq(Int) /\ w \in Seq(Int) /\ Len(w) = n + Len(rest) /\ Len(rest) \in Nat
  BY <1>0, JoinType
<1>2. ptr = Join(h, w)
  <2>1. Framed(body) = Join(h, body)
    BY <1>0 DEF Framed, Join
  <2>2. Join(Join(h, body), rest) = Join(h, Join(body, rest))
    BY <1>1, JoinAssoc
  <2> QED
    BY <1>0, <2>1, <2>2
<1>3. ptr # <<>> /\ ptr[1] = n + 1 /\ Tail(ptr) = w
  BY <1>0, <1>1, <1>2 DEF Join
<1>4. ptr[1] # 0 /\ ptr[1] - 1 = n
  BY <1>1, <1>3
<1>5. Upto(w, n) = body /\ Drop(w, n) = rest
  BY <1>0, Cut
<1>6. SplitFits(w, n)
  BY <1>1 DEF SplitFits
<1> QED
  BY <1>3, <1>4, <1>5, <1>6 DEF Opens

(* Concatenations, from the left and from the right. *)
LEMMA JoinFive ==
  ASSUME NEW a \in Seq(Int), NEW b \in Seq(Int), NEW c \in Seq(Int), NEW d \in Seq(Int),
         NEW e \in Seq(Int)
  PROVE  /\ Join(Join(Join(Join(a, b), c), d), e) = Join(a, Join(b, Join(c, Join(d, e))))
         /\ Join(a, Join(b, Join(c, Join(d, e)))) \in Seq(Int)
<1>1. Join(a, b) \in Seq(Int) /\ Join(d, e) \in Seq(Int)
  BY JoinType
<1>2. Join(Join(a, b), c) \in Seq(Int) /\ Join(c, Join(d, e)) \in Seq(Int)
  BY <1>1, JoinType
<1>3. Join(b, Join(c, Join(d, e))) \in Seq(Int)
  BY <1>2, JoinType
<1>4. Join(Join(Join(Join(a, b), c), d), e) = Join(Join(Join(a, b), c), Join(d, e))
  BY <1>2, JoinAssoc
<1>5. Join(Join(Join(a, b), c), Join(d, e)) = Join(Join(a, b), Join(c, Join(d, e)))
  BY <1>1, JoinAssoc
<1>6. Join(Join(a, b), Join(c, Join(d, e))) = Join(a, Join(b, Join(c, Join(d, e))))
  BY <1>2, JoinAssoc
<1>7. Join(a, Join(b, Join(c, Join(d, e)))) \in Seq(Int)
  BY <1>3, JoinType
<1> QED
  BY <1>4, <1>5, <1>6, <1>7

-----------------------------------------------------------------------------
(* Parameters of methods. *)

(* The attributes of a parameter or a method, as its flag tells. *)
OptionOf(seq) == IF seq = <<>> THEN None ELSE Some(seq)

(* A list is optional where it is sent only if it is not empty. *)
LEMMA OptionOfType ==
  ASSUME NEW S, NEW seq \in Seq(S)
  PROVE  OptionOf(seq) \in Option(Seq(S)) /\ FlattenSeq(OptionOf(seq)) = seq
<1>1. OptionOf(seq) \in Option(Seq(S))
  BY DEF OptionOf, Option, None, Some
<1>2. CASE seq = <<>>
  BY <1>1, <1>2 DEF OptionOf, None, FlattenSeq
<1>3. CASE seq # <<>>
  <2> DEFINE s == <<seq>>
  <2> DEFINE F == [i \in 0 .. 1 |-> IF i = 0 THEN <<>> ELSE seq]
  <2>1. s \in Seq(Seq(S)) /\ Len(s) = 1 /\ s[1] = seq
    OBVIOUS
  <2>2. F \in [0 .. 1 -> Seq(S)] /\ F[0] = <<>> /\ F[1] = seq
    OBVIOUS
  <2>3. <<>> \o seq = seq
    OBVIOUS
  <2>4. OptionOf(seq) = s
    BY <1>3 DEF OptionOf, Some
  <2> HIDE DEF s, F
  <2>5. Catenates(s, 1, F)
    <3>1. \A i \in 1 .. 1 : i = 1 /\ i - 1 = 0
      OBVIOUS
    <3> QED
      BY <2>1, <2>2, <2>3, <3>1 DEF Catenates
  <2>6. FlattenSeq(s) = F[1]
    BY <2>1, <2>2, <2>5, FlattenIsLast
  <2> QED
    BY <1>1, <2>2, <2>4, <2>6
<1> QED
  BY <1>2, <1>3

(* The parts of an encoded parameter. *)
ParameterParts(q, h, a, b, c, opt) ==
  /\ 10 = Len(h) /\ h[1] = q.size /\ h[4] % 4 = q.variable_kind
  /\ h[8] = Len(a) /\ h[9] = Len(b) /\ h[10] = Len(c)
  /\ (Bit(h[4], 64) <=> opt # None) /\ opt = OptionOf(q.attributes)
  /\ a = q.name /\ b = q.typ /\ c = q.comment
  /\ Parameter(q) = Framed(Join(h, Join(Str(a), Join(Str(b), Join(Str(c), SomeAttributes(opt))))))

(* The parts a parameter is sent in. *)
LEMMA ParameterIs ==
  ASSUME NEW q \in ParameterRecord
  PROVE  \E h \in Seq(Int), a \in String, b \in String, c \in String,
            opt \in Option(Seq(AttributeRecord)) : ParameterParts(q, h, a, b, c, opt)
<1>1. /\ q.name \in String /\ q.typ \in String /\ q.comment \in String
      /\ q.size \in Nat /\ q.variable_kind \in 0 .. 3 /\ q.attributes \in Seq(AttributeRecord)
  BY DEF ParameterRecord
<1> DEFINE flags == q.variable_kind + IF q.attributes = <<>> THEN 0 ELSE 64
<1> DEFINE h == <<q.size, 0, 0, flags, 0, 0, 0, Len(q.name), Len(q.typ), Len(q.comment)>>
<1>2. flags \in Nat /\ flags % 4 = q.variable_kind /\ (Bit(flags, 64) <=> q.attributes # <<>>)
  <2>1. q.variable_kind = 0 \/ q.variable_kind = 1 \/ q.variable_kind = 2 \/ q.variable_kind = 3
    BY <1>1
  <2>2. PICK v : v = q.variable_kind
    OBVIOUS
  <2>3. \A w \in {0, 1, 2, 3, 64, 65, 66, 67} : w \in Nat /\ (Bit(w, 64) <=> w >= 64)
    BY DEF Bit
  <2>4. /\ 0 % 4 = 0 /\ 1 % 4 = 1 /\ 2 % 4 = 2 /\ 3 % 4 = 3
        /\ 64 % 4 = 0 /\ 65 % 4 = 1 /\ 66 % 4 = 2 /\ 67 % 4 = 3
    OBVIOUS
  <2>5. CASE q.attributes = <<>>
    <3>1. flags = v /\ v \in {0, 1, 2, 3}
      BY <1>1, <2>1, <2>2, <2>5
    <3> QED
      BY <2>2, <2>3, <2>4, <2>5, <3>1
  <2>6. CASE q.attributes # <<>>
    <3>1. flags = v + 64 /\ v \in {0, 1, 2, 3}
      BY <2>1, <2>2, <2>6
    <3>2. flags \in {64, 65, 66, 67} /\ flags % 4 = v
      BY <2>4, <3>1
    <3> QED
      BY <2>2, <2>3, <2>6, <3>2
  <2> QED
    BY <2>5, <2>6
<1>3. Len(q.name) \in Int /\ Len(q.typ) \in Int /\ Len(q.comment) \in Int /\ q.size \in Int
  BY <1>1, StrType
<1>4. PICK opt \in Option(Seq(AttributeRecord)) : opt = OptionOf(q.attributes)
  BY <1>1, OptionOfType
<1>5. /\ opt # None <=> q.attributes # <<>>
      /\ When(flags, 64, Attributes(q.attributes)) = SomeAttributes(opt)
  BY <1>2, <1>4 DEF OptionOf, SomeAttributes, When, None, Some
<1>6. Parameter(q) = Framed(h \o Str(q.name) \o Str(q.typ) \o Str(q.comment) \o SomeAttributes(opt))
  BY <1>5 DEF Parameter
<1> HIDE DEF flags
<1>7. /\ h \in Seq(Int) /\ 10 = Len(h) /\ h[1] = q.size /\ h[4] = flags
      /\ h[8] = Len(q.name) /\ h[9] = Len(q.typ) /\ h[10] = Len(q.comment)
  BY <1>2, <1>3
<1> HIDE DEF h
<1>8. PICK g, a, b, c, x, y, z, w : /\ g = h /\ a = q.name /\ b = q.typ /\ c = q.comment
        /\ x = Str(a) /\ y = Str(b) /\ z = Str(c) /\ w = SomeAttributes(opt)
  OBVIOUS
<1>9. g \in Seq(Int) /\ x \in Seq(Int) /\ y \in Seq(Int) /\ z \in Seq(Int) /\ w \in Seq(Int)
  BY <1>1, <1>7, <1>8, StrType, SomeAttributesType
<1>10. Parameter(q) = Framed(Join(Join(Join(Join(g, x), y), z), w))
  BY <1>6, <1>8 DEF Join
<1>11. Parameter(q) = Framed(Join(g, Join(x, Join(y, Join(z, w)))))
  BY <1>9, <1>10, JoinFive
<1>12. ParameterParts(q, g, a, b, c, opt)
  BY <1>2, <1>4, <1>5, <1>7, <1>8, <1>11 DEF ParameterParts
<1> QED
  BY <1>1, <1>8, <1>9, <1>12

(* A parameter is sent in at least one unit. *)
LEMMA ParameterType ==
  ASSUME NEW q \in ParameterRecord
  PROVE  Parameter(q) \in Seq(Int) /\ Parameter(q) # <<>>
<1>1. PICK h \in Seq(Int), a \in String, b \in String, c \in String,
         opt \in Option(Seq(AttributeRecord)) : ParameterParts(q, h, a, b, c, opt)
  BY ParameterIs
<1>2. PICK body : body = Join(h, Join(Str(a), Join(Str(b), Join(Str(c), SomeAttributes(opt)))))
  OBVIOUS
<1>3. body \in Seq(Int)
  BY <1>2, StrType, SomeAttributesType, JoinFive
<1>4. Parameter(q) = Framed(body)
  BY <1>1, <1>2 DEF ParameterParts
<1> QED
  BY <1>3, <1>4, FramedType

(* One turn reads a parameter as it was sent. *)
LEMMA OneParameter ==
  ASSUME NEW q \in ParameterRecord, NEW rest \in Seq(Int), NEW p, NEW o,
         At(p, Join(Parameter(q), rest), o)
  PROVE  At(NextParameter(p), rest, Push(o, q))
<1>1. PICK h \in Seq(Int), a \in String, b \in String, c \in String,
         opt \in Option(Seq(AttributeRecord)) : ParameterParts(q, h, a, b, c, opt)
  BY ParameterIs
<1>2. PICK w \in Seq(Int) : w = SomeAttributes(opt)
  BY SomeAttributesType
<1>3. PICK body : body = Join(h, Join(Str(a), Join(Str(b), Join(Str(c), w))))
  OBVIOUS
<1>4. body \in Seq(Int)
  BY <1>3, StrType, JoinFive
<1>5. PICK ptr : ptr = Join(Parameter(q), rest)
  OBVIOUS
<1>6. Opens(ptr, body, rest)
  <2>1. Parameter(q) = Framed(body)
    BY <1>1, <1>2, <1>3 DEF ParameterParts
  <2> QED
    BY <1>4, <1>5, <2>1, FramedOpens
<1>7. PICK r : r = read_str(read_str(read_str(Ints(Start(body), 10), 8), 9), 10)
  OBVIOUS
<1>8. ReadThree(r, w, h, 10, a, b, c)
  <2>1. At(Start(body), Join(h, Join(Str(a), Join(Str(b), Join(Str(c), w)))), <<>>)
    BY <1>3, StartAt
  <2>2. 10 = Len(h) /\ h[8] = Len(a) /\ h[9] = Len(b) /\ h[10] = Len(c)
    BY <1>1 DEF ParameterParts
  <2>3. 8 \in 1 .. 10 /\ 9 \in 1 .. 10 /\ 10 \in 1 .. 10
    OBVIOUS
  <2> QED
    BY <1>7, <2>1, <2>2, <2>3, ThreeStrings
<1>9. PICK u : /\ At(r, w, u) /\ Holds(u, 13) /\ u[1] = h[1] /\ u[4] = h[4]
               /\ u[11] = a /\ u[12] = b /\ u[13] = c
  <2>1. 1 \in 1 .. 10 /\ 4 \in 1 .. 10 /\ 10 + 1 = 11 /\ 10 + 2 = 12 /\ 10 + 3 = 13
    OBVIOUS
  <2> QED
    BY <1>8, <2>1 DEF ReadThree
<1>10. PICK v, s : v = Push(u, opt) /\ s = FlagAttributes(r, 4, 64)
  OBVIOUS
<1>11. At(s, <<>>, v)
  <2>1. At(r, Join(w, <<>>), u)
    BY <1>9, JoinNone
  <2>2. Bit(u[4], 64) <=> opt # None
    BY <1>1, <1>9 DEF ParameterParts
  <2>3. <<>> \in Seq(Int)
    BY EmptySeq
  <2> QED
    BY <1>2, <1>10, <2>1, <2>2, <2>3, FlagAttributesRead
<1>12. v[14] = opt /\ v[1] = h[1] /\ v[4] = h[4] /\ v[11] = a /\ v[12] = b /\ v[13] = c
  <2>1. More(v, u, 14, opt)
    <3>1. 14 = 13 + 1
      OBVIOUS
    <3> QED
      BY <1>9, <1>10, <3>1, Grown
  <2>2. 1 \in 1 .. 14 - 1 /\ 4 \in 1 .. 14 - 1 /\ 11 \in 1 .. 14 - 1 /\ 12 \in 1 .. 14 - 1 /\ 13 \in 1 .. 14 - 1
    OBVIOUS
  <2> QED
    BY <1>9, <2>1, <2>2 DEF More
<1>13. RpcMethodParameter(v) = q
  <2>1. /\ v[1] = q.size /\ v[4] % 4 = q.variable_kind /\ opt = OptionOf(q.attributes)
        /\ a = q.name /\ b = q.typ /\ c = q.comment
    BY <1>1, <1>12 DEF ParameterParts
  <2>2. FlattenSeq(opt) = q.attributes
    <3>1. q.attributes \in Seq(AttributeRecord)
      BY DEF ParameterRecord
    <3> QED
      BY <2>1, <3>1, OptionOfType
  <2>3. RpcMethodParameter(v) =
          [name |-> q.name, typ |-> q.typ, size |-> q.size, variable_kind |-> q.variable_kind,
           comment |-> q.comment, attributes |-> q.attributes]
    BY <1>12, <2>1, <2>2 DEF RpcMethodParameter
  <2> QED
    BY <2>3 DEF ParameterRecord
<1>14. s = parse_rpc_method_parameter(Start(body))
  BY <1>7, <1>10 DEF FlagAttributes, parse_rpc_method_parameter
<1>15. s.st = "ok" /\ s.out = v
  BY <1>11 DEF At
<1>16. NextParameter(p) = [p EXCEPT !.ptr = rest, !.out = Append(p.out, RpcMethodParameter(s.out))]
  <2>1. p.st = "ok" /\ p.ptr = ptr
    BY <1>5 DEF At
  <2> QED
    BY <1>6, <1>14, <1>15, <2>1 DEF NextParameter, Entry, EntryOr, Opens
<1>17. NextParameter(p) = [p EXCEPT !.ptr = rest, !.out = Append(p.out, q)]
  BY <1>13, <1>15, <1>16
<1> QED
  BY <1>17, Wrapped

(* A list of parameters, as the device sends it. *)
ParameterList(seq) == FlattenSeq([k \in DOMAIN seq |-> Parameter(seq[k])])

(* The elements of a list are sent as units. *)
LEMMA ParameterListType ==
  ASSUME NEW seq \in Seq(ParameterRecord)
  PROVE  ParameterList(seq) \in Seq(Int)
<1>1. PICK es : es = [i \in 1 .. Len(seq) |-> Parameter(seq[i])]
  OBVIOUS
<1>2. \A i \in 1 .. Len(seq) : seq[i] \in ParameterRecord
  OBVIOUS
<1>3. \A i \in 1 .. Len(seq) : Parameter(seq[i]) \in Seq(Int)
  BY <1>2, ParameterType
<1>4. es \in [1 .. Len(seq) -> Seq(Int)] /\ Len(seq) \in Nat
  BY <1>1, <1>3
<1>5. es \in Seq(Seq(Int)) /\ DOMAIN seq = 1 .. Len(seq)
  BY <1>4
<1>6. FlattenSeq(es) \in Seq(Int)
  <2>1. PICK e : e = <<>> /\ e \in Seq(Int)
    BY EmptySeq
  <2> QED
    BY <1>5, <2>1, Peel
<1> QED
  BY <1>1, <1>5, <1>6 DEF ParameterList

(* A list of parameters behind what tells their number. *)
LEMMA ReadParameters ==
  ASSUME NEW seq \in Seq(ParameterRecord), NEW rest \in Seq(Int), NEW p, NEW o, NEW k,
         At(p, Join(ParameterList(seq), rest), o), o[k] = Len(seq)
  PROVE  At(TimesParameter(p, k), rest, Push(o, seq))
<1>1. PICK es : es = [i \in DOMAIN seq |-> Parameter(seq[i])]
  OBVIOUS
<1>2. /\ Len(seq) \in Nat /\ DOMAIN seq = 1 .. Len(seq)
      /\ \A i \in 1 .. Len(seq) : seq[i] \in ParameterRecord
  OBVIOUS
<1>3. /\ es \in [1 .. Len(seq) -> Seq(Int)]
      /\ \A i \in 1 .. Len(seq) : es[i] = Parameter(seq[i]) /\ es[i] # <<>>
  BY <1>1, <1>2, ParameterType
<1>4. PICK R : ListLeft(es, Len(seq), R, rest)
  BY <1>2, <1>3, ListPeeled
<1>5. ParameterList(seq) = FlattenSeq(es)
  BY <1>1 DEF ParameterList
<1>6. PICK g : TurnParameter(g, R[0], Len(seq)) /\ Ends(TimesParameter(p, k), g, Len(seq), o)
  <2>1. At(p, R[0], o) /\ Len(seq) = Rounds(o[k], R[0]) /\ Len(seq) \in Nat
    BY <1>4, <1>5 DEF ListLeft, Rounds
  <2> QED
    BY <2>1, ParameterRounds
<1>7. At(g[0], R[0], <<>>) /\ \A n \in 1 .. Len(seq) : g[n] = NextParameter(g[n - 1])
  BY <1>6 DEF TurnParameter
<1>8. ASSUME NEW n \in 1 .. Len(seq), NEW u, At(g[n - 1], R[n - 1], u)
      PROVE  At(g[n], R[n], Push(u, seq[n]))
  <2>1. R[n - 1] = Join(Parameter(seq[n]), R[n]) /\ R[n] \in Seq(Int) /\ seq[n] \in ParameterRecord
    BY <1>2, <1>3, <1>4 DEF ListLeft
  <2>2. g[n] = NextParameter(g[n - 1])
    BY <1>7
  <2> QED
    BY <1>8, <2>1, <2>2, OneParameter
<1>9. ASSUME NEW n \in 1 .. Len(seq), Panics(g[n - 1]) PROVE Panics(g[n])
  BY <1>7, <1>9 DEF NextParameter, Entry, EntryOr, Panics
<1>10. At(g[Len(seq)], R[Len(seq)], seq) \/ (FALSE /\ Panics(g[Len(seq)]))
  BY <1>7, <1>8, <1>9, Walked
<1> QED
  BY <1>4, <1>6, <1>10, Listed DEF ListLeft

(* The same for longer chains. *)
LEMMA JoinSix ==
  ASSUME NEW a \in Seq(Int), NEW b \in Seq(Int), NEW c \in Seq(Int), NEW d \in Seq(Int),
         NEW e \in Seq(Int), NEW f \in Seq(Int)
  PROVE  /\ Join(Join(Join(Join(Join(a, b), c), d), e), f)
              = Join(a, Join(b, Join(c, Join(d, Join(e, f)))))
         /\ Join(a, Join(b, Join(c, Join(d, Join(e, f))))) \in Seq(Int)
<1>1. PICK t : t = Join(e, f)
  OBVIOUS
<1>2. t \in Seq(Int)
  BY <1>1, JoinType
<1>3. PICK x : x = Join(Join(Join(a, b), c), d)
  OBVIOUS
<1>4. x \in Seq(Int)
  <2>1. Join(a, b) \in Seq(Int)
    BY JoinType
  <2>2. Join(Join(a, b), c) \in Seq(Int)
    BY <2>1, JoinType
  <2> QED
    BY <1>3, <2>2, JoinType
<1>5. Join(Join(x, e), f) = Join(x, t)
  BY <1>1, <1>4, JoinAssoc
<1>6. /\ Join(Join(Join(Join(a, b), c), d), t) = Join(a, Join(b, Join(c, Join(d, t))))
      /\ Join(a, Join(b, Join(c, Join(d, t)))) \in Seq(Int)
  BY <1>2, JoinFive, Zenon
<1> QED
  BY <1>1, <1>3, <1>5, <1>6

-----------------------------------------------------------------------------
(* Methods. *)

(* The parts of an encoded method. *)
MethodParts(m, h, a, b, c, opt) ==
  /\ 12 = Len(h) /\ h[3] = m.return_size
  /\ h[9] = Len(a) /\ h[10] = Len(b) /\ h[11] = Len(c) /\ h[12] = Len(m.parameters)
  /\ (Bit(h[8], 8) <=> opt # None) /\ opt = OptionOf(m.attributes)
  /\ a = m.name /\ b = m.return_type /\ c = m.comment
  /\ Method(m) = Framed(Join(h, Join(Str(a), Join(Str(b), Join(Str(c),
                          Join(ParameterList(m.parameters), SomeAttributes(opt)))))))

(* The parts a method is sent in. *)
LEMMA MethodIs ==
  ASSUME NEW m \in MethodRecord
  PROVE  \E h \in Seq(Int), a \in String, b \in String, c \in String,
            opt \in Option(Seq(AttributeRecord)) : MethodParts(m, h, a, b, c, opt)
<1>1. /\ m.name \in String /\ m.return_type \in String /\ m.comment \in String
      /\ m.return_size \in Nat /\ m.parameters \in Seq(ParameterRecord)
      /\ m.attributes \in Seq(AttributeRecord)
  BY DEF MethodRecord
<1> DEFINE flags == IF m.attributes = <<>> THEN 0 ELSE 8
<1> DEFINE h == <<0, 0, m.return_size, 0, 0, 0, 0, flags, Len(m.name), Len(m.return_type),
                  Len(m.comment), Len(m.parameters)>>
<1>2. flags \in Nat /\ (Bit(flags, 8) <=> m.attributes # <<>>)
  BY DEF Bit
<1>3. /\ Len(m.name) \in Int /\ Len(m.return_type) \in Int /\ Len(m.comment) \in Int
      /\ m.return_size \in Int /\ Len(m.parameters) \in Int
  BY <1>1, StrType
<1>4. PICK opt \in Option(Seq(AttributeRecord)) : opt = OptionOf(m.attributes)
  BY <1>1, OptionOfType
<1>5. /\ opt # None <=> m.attributes # <<>>
      /\ When(flags, 8, Attributes(m.attributes)) = SomeAttributes(opt)
  BY <1>2, <1>4 DEF OptionOf, SomeAttributes, When, None, Some
<1>6. Method(m) = Framed(h \o Str(m.name) \o Str(m.return_type) \o Str(m.comment)
                         \o ParameterList(m.parameters) \o SomeAttributes(opt))
  BY <1>5 DEF Method, List, ParameterList
<1> HIDE DEF flags
<1>7. /\ h \in Seq(Int) /\ 12 = Len(h) /\ h[3] = m.return_size /\ h[8] = flags
      /\ h[9] = Len(m.name) /\ h[10] = Len(m.return_type) /\ h[11] = Len(m.comment)
      /\ h[12] = Len(m.parameters)
  BY <1>2, <1>3
<1> HIDE DEF h
<1>8. PICK g, a, b, c, x, y, z, w, v : /\ g = h /\ a = m.name /\ b = m.return_type /\ c = m.comment
        /\ x = Str(a) /\ y = Str(b) /\ z = Str(c) /\ v = ParameterList(m.parameters)
        /\ w = SomeAttributes(opt)
  OBVIOUS
<1>9. /\ g \in Seq(Int) /\ x \in Seq(Int) /\ y \in Seq(Int) /\ z \in Seq(Int) /\ w \in Seq(Int)
      /\ v \in Seq(Int)
  BY <1>1, <1>7, <1>8, StrType, SomeAttributesType, ParameterListType
<1>10. Method(m) = Framed(Join(Join(Join(Join(Join(g, x), y), z), v), w))
  BY <1>6, <1>8 DEF Join
<1>11. Method(m) = Framed(Join(g, Join(x, Join(y, Join(z, Join(v, w))))))
  BY <1>9, <1>10, JoinSix
<1>12. MethodParts(m, g, a, b, c, opt)
  BY <1>2, <1>4, <1>5, <1>7, <1>8, <1>11 DEF MethodParts
<1> QED
  BY <1>1, <1>8, <1>9, <1>12

(* A method is sent in at least one unit. *)
LEMMA MethodType ==
  ASSUME NEW m \in MethodRecord
  PROVE  Method(m) \in Seq(Int) /\ Method(m) # <<>>
<1>1. PICK h \in Seq(Int), a \in String, b \in String, c \in String,
         opt \in Option(Seq(AttributeRecord)) : MethodParts(m, h, a, b, c, opt)
  BY MethodIs
<1>2. PICK body : body = Join(h, Join(Str(a), Join(Str(b), Join(Str(c),
                           Join(ParameterList(m.parameters), SomeAttributes(opt))))))
  OBVIOUS
<1>3. body \in Seq(Int)
  <2>1. m.parameters \in Seq(ParameterRecord)
    BY DEF MethodRecord
  <2> QED
    BY <1>2, <2>1, StrType, SomeAttributesType, ParameterListType, JoinSix
<1>4. Method(m) = Framed(body)
  BY <1>1, <1>2 DEF MethodParts
<1> QED
  BY <1>3, <1>4, FramedType

(* One turn reads a method as it was sent. *)
LEMMA OneMethod ==
  ASSUME NEW m \in MethodRecord, NEW rest \in Seq(Int), NEW p, NEW o,
         At(p, Join(Method(m), rest), o)
  PROVE  At(NextMethod(p), rest, Push(o, m))
<1>1. PICK h \in Seq(Int), a \in String, b \in String, c \in String,
         opt \in Option(Seq(AttributeRecord)) : MethodParts(m, h, a, b, c, opt)
  BY MethodIs
<1>2. PICK w \in Seq(Int) : w = SomeAttributes(opt)
  BY SomeAttributesType
<1>3. PICK ps \in Seq(ParameterRecord) : ps = m.parameters
  BY DEF MethodRecord
<1>4. PICK t \in Seq(Int) : t = Join(ParameterList(ps), w)
  BY JoinType, ParameterListType
<1>5. PICK body : body = Join(h, Join(Str(a), Join(Str(b), Join(Str(c), t))))
  OBVIOUS
<1>6. body \in Seq(Int)
  BY <1>5, StrType, JoinFive
<1>7. PICK ptr : ptr = Join(Method(m), rest)
  OBVIOUS
<1>8. Opens(ptr, body, rest)
  <2>1. Method(m) = Framed(body)
    BY <1>1, <1>2, <1>3, <1>4, <1>5 DEF MethodParts
  <2> QED
    BY <1>6, <1>7, <2>1, FramedOpens
<1>9. PICK r : r = read_str(read_str(read_str(Ints(Start(body), 12), 9), 10), 11)
  OBVIOUS
<1>10. ReadThree(r, t, h, 12, a, b, c)
  <2>1. At(Start(body), Join(h, Join(Str(a), Join(Str(b), Join(Str(c), t)))), <<>>)
    BY <1>5, StartAt
  <2>2. 12 = Len(h) /\ h[9] = Len(a) /\ h[10] = Len(b) /\ h[11] = Len(c)
    BY <1>1 DEF MethodParts
  <2>3. 9 \in 1 .. 12 /\ 10 \in 1 .. 12 /\ 11 \in 1 .. 12
    OBVIOUS
  <2> QED
    BY <1>9, <2>1, <2>2, <2>3, ThreeStrings
<1>11. PICK u : /\ At(r, t, u) /\ Holds(u, 15) /\ u[3] = h[3] /\ u[8] = h[8] /\ u[12] = h[12]
                /\ u[13] = a /\ u[14] = b /\ u[15] = c
  <2>1. 3 \in 1 .. 12 /\ 8 \in 1 .. 12 /\ 12 \in 1 .. 12 /\ 12 + 1 = 13 /\ 12 + 2 = 14 /\ 12 + 3 = 15
    OBVIOUS
  <2> QED
    BY <1>10, <2>1 DEF ReadThree
<1>12. PICK v, s : v = Push(u, ps) /\ s = TimesParameter(r, 12)
  OBVIOUS
<1>13. At(s, w, v)
  <2>1. u[12] = Len(ps)
    BY <1>1, <1>3, <1>11 DEF MethodParts
  <2> QED
    BY <1>4, <1>11, <1>12, <2>1, ReadParameters
<1>14. /\ Holds(v, 16) /\ v[16] = ps /\ v[3] = h[3] /\ v[8] = h[8]
       /\ v[13] = a /\ v[14] = b /\ v[15] = c
  <2>1. More(v, u, 16, ps)
    <3>1. 16 = 15 + 1
      OBVIOUS
    <3> QED
      BY <1>11, <1>12, <3>1, Grown
  <2>2. \A i \in {3, 8, 13, 14, 15} : i \in 1 .. 16 - 1
    OBVIOUS
  <2> QED
    BY <1>11, <2>1, <2>2 DEF More
<1>15. PICK x, y : x = Push(v, opt) /\ y = FlagAttributes(s, 8, 8)
  OBVIOUS
<1>16. At(y, <<>>, x)
  <2>1. At(s, Join(w, <<>>), v)
    BY <1>13, JoinNone
  <2>2. Bit(v[8], 8) <=> opt # None
    BY <1>1, <1>14 DEF MethodParts
  <2>3. <<>> \in Seq(Int)
    BY EmptySeq
  <2> QED
    BY <1>2, <1>15, <2>1, <2>2, <2>3, FlagAttributesRead
<1>17. x[17] = opt /\ x[16] = ps /\ x[3] = h[3] /\ x[13] = a /\ x[14] = b /\ x[15] = c
  <2>1. More(x, v, 17, opt)
    <3>1. 17 = 16 + 1
      OBVIOUS
    <3> QED
      BY <1>14, <1>15, <3>1, Grown
  <2>2. \A i \in {3, 13, 14, 15, 16} : i \in 1 .. 17 - 1
    OBVIOUS
  <2> QED
    BY <1>14, <2>1, <2>2 DEF More
<1>18. RpcMethod(x) = m
  <2>1. /\ x[3] = m.return_size /\ opt = OptionOf(m.attributes)
        /\ a = m.name /\ b = m.return_type /\ c = m.comment
    BY <1>1, <1>17 DEF MethodParts
  <2>2. FlattenSeq(opt) = m.attributes
    <3>1. m.attributes \in Seq(AttributeRecord)
      BY DEF MethodRecord
    <3> QED
      BY <2>1, <3>1, OptionOfType
  <2>3. RpcMethod(x) =
          [name |-> m.name, return_type |-> m.return_type, return_size |-> m.return_size,
           comment |-> m.comment, parameters |-> m.parameters, attributes |-> m.attributes]
    BY <1>3, <1>17, <2>1, <2>2 DEF RpcMethod
  <2> QED
    BY <2>3 DEF MethodRecord
<1>19. y = parse_rpc_method(Start(body))
  BY <1>9, <1>12, <1>15 DEF FlagAttributes, TimesParameter, parse_rpc_method
<1>20. y.st = "ok" /\ y.out = x
  BY <1>16 DEF At
<1>21. NextMethod(p) = [p EXCEPT !.ptr = rest, !.out = Append(p.out, RpcMethod(y.out))]
  <2>1. p.st = "ok" /\ p.ptr = ptr
    BY <1>7 DEF At
  <2> QED
    BY <1>8, <1>19, <1>20, <2>1 DEF NextMethod, Entry, EntryOr, Opens
<1>22. NextMethod(p) = [p EXCEPT !.ptr = rest, !.out = Append(p.out, m)]
  BY <1>18, <1>20, <1>21
<1> QED
  BY <1>22, Wrapped

(* A list of methods, as the device sends it. *)
MethodList(seq) == FlattenSeq([k \in DOMAIN seq |-> Method(seq[k])])

(* The elements of a list are sent as units. *)
LEMMA MethodListType ==
  ASSUME NEW seq \in Seq(MethodRecord)
  PROVE  MethodList(seq) \in Seq(Int)
<1>1. PICK es : es = [i \in 1 .. Len(seq) |-> Method(seq[i])]
  OBVIOUS
<1>2. \A i \in 1 .. Len(seq) : seq[i] \in MethodRecord
  OBVIOUS
<1>3. \A i \in 1 .. Len(seq) : Method(seq[i]) \in Seq(Int)
  BY <1>2, MethodType
<1>4. es \in [1 .. Len(seq) -> Seq(Int)] /\ Len(seq) \in Nat
  BY <1>1, <1>3
<1>5. es \in Seq(Seq(Int)) /\ DOMAIN seq = 1 .. Len(seq)
  BY <1>4
<1>6. FlattenSeq(es) \in Seq(Int)
  <2>1. PICK e : e = <<>> /\ e \in Seq(Int)
    BY EmptySeq
  <2> QED
    BY <1>5, <2>1, Peel
<1> QED
  BY <1>1, <1>5, <1>6 DEF MethodList

(* A list of methods behind what tells their number. *)
LEMMA ReadMethods ==
  ASSUME NEW seq \in Seq(MethodRecord), NEW rest \in Seq(Int), NEW p, NEW o, NEW k,
         At(p, Join(MethodList(seq), rest), o), o[k] = Len(seq)
  PROVE  At(TimesMethod(p, k), rest, Push(o, seq))
<1>1. PICK es : es = [i \in DOMAIN seq |-> Method(seq[i])]
  OBVIOUS
<1>2. /\ Len(seq) \in Nat /\ DOMAIN seq = 1 .. Len(seq)
      /\ \A i \in 1 .. Len(seq) : seq[i] \in MethodRecord
  OBVIOUS
<1>3. /\ es \in [1 .. Len(seq) -> Seq(Int)]
      /\ \A i \in 1 .. Len(seq) : es[i] = Method(seq[i]) /\ es[i] # <<>>
  BY <1>1, <1>2, MethodType
<1>4. PICK R : ListLeft(es, Len(seq), R, rest)
  BY <1>2, <1>3, ListPeeled
<1>5. MethodList(seq) = FlattenSeq(es)
  BY <1>1 DEF MethodList
<1>6. PICK g : TurnMethod(g, R[0], Len(seq)) /\ Ends(TimesMethod(p, k), g, Len(seq), o)
  <2>1. At(p, R[0], o) /\ Len(seq) = Rounds(o[k], R[0]) /\ Len(seq) \in Nat
    BY <1>4, <1>5 DEF ListLeft, Rounds
  <2> QED
    BY <2>1, MethodRounds
<1>7. At(g[0], R[0], <<>>) /\ \A n \in 1 .. Len(seq) : g[n] = NextMethod(g[n - 1])
  BY <1>6 DEF TurnMethod
<1>8. ASSUME NEW n \in 1 .. Len(seq), NEW u, At(g[n - 1], R[n - 1], u)
      PROVE  At(g[n], R[n], Push(u, seq[n]))
  <2>1. R[n - 1] = Join(Method(seq[n]), R[n]) /\ R[n] \in Seq(Int) /\ seq[n] \in MethodRecord
    BY <1>2, <1>3, <1>4 DEF ListLeft
  <2>2. g[n] = NextMethod(g[n - 1])
    BY <1>7
  <2> QED
    BY <1>8, <2>1, <2>2, OneMethod
<1>9. ASSUME NEW n \in 1 .. Len(seq), Panics(g[n - 1]) PROVE Panics(g[n])
  BY <1>7, <1>9 DEF NextMethod, Entry, EntryOr, Panics
<1>10. At(g[Len(seq)], R[Len(seq)], seq) \/ (FALSE /\ Panics(g[Len(seq)]))
  BY <1>7, <1>8, <1>9, Walked
<1> QED
  BY <1>4, <1>6, <1>10, Listed DEF ListLeft

(* A list is sent as its length and its elements. *)
LEMMA MethodsIs ==
  ASSUME NEW seq \in Seq(MethodRecord)
  PROVE  /\ Methods(seq) = Join(<<Len(seq)>>, MethodList(seq))
         /\ Methods(seq) \in Seq(Int) /\ Methods(seq) # <<>>
<1>1. Methods(seq) = Join(<<Len(seq)>>, MethodList(seq))
  BY DEF Methods, List, MethodList, Join
<1>0. PICK h : h = <<Len(seq)>>
  OBVIOUS
<1>2. h \in Seq(Int) /\ Len(h) # 0
  BY <1>0
<1>3. Join(h, MethodList(seq)) \in Seq(Int) /\ Join(h, MethodList(seq)) # <<>>
  BY <1>2, MethodListType, JoinLonger
<1> QED
  BY <1>0, <1>1, <1>3

(* A list of methods behind its count. *)
LEMMA MethodsRead ==
  ASSUME NEW seq \in Seq(MethodRecord), NEW rest \in Seq(Int), NEW p, NEW o,
         At(p, Join(Methods(seq), rest), o)
  PROVE  At(parse_method_infos(p), rest, Push(o, seq))
<1>1. PICK ptr : ptr = Join(Methods(seq), rest)
  OBVIOUS
<1>2. PICK n, h, es : n = Len(seq) /\ h = <<n>> /\ es = MethodList(seq)
  OBVIOUS
<1>12. n \in Int /\ h \in Seq(Int) /\ es \in Seq(Int)
  BY <1>2, MethodListType
<1>3. PICK t \in Seq(Int) : t = Join(es, rest)
  BY <1>12, JoinType
<1>4. ptr = Join(<<n>>, t)
  <2>1. Join(Join(h, es), rest) = Join(h, Join(es, rest))
    BY <1>12, JoinAssoc
  <2> QED
    BY <1>1, <1>2, <1>3, <2>1, MethodsIs
<1>5. PICK c : c = Ints(Start(ptr), 1)
  OBVIOUS
<1>6. At(c, t, <<n>>)
  BY <1>4, <1>5, <1>12, StartAt, CountRead
<1>7. PICK r : r = TimesMethod(c, 1)
  OBVIOUS
<1>8. At(r, rest, Push(<<n>>, seq))
  <2>1. <<n>>[1] = Len(seq)
    BY <1>2
  <2> QED
    BY <1>2, <1>3, <1>6, <1>7, <2>1, ReadMethods
<1>9. r.st = "ok" /\ r.ptr = rest /\ r.out[2] = seq
  BY <1>8 DEF At, Push
<1>10. parse_method_infos(p) = [p EXCEPT !.ptr = r.ptr, !.out = Append(p.out, r.out[2])]
  <2>1. p.st = "ok" /\ p.ptr = ptr
    BY <1>1 DEF At
  <2> QED
    BY <1>5, <1>7, <1>9, <2>1 DEF parse_method_infos, Counted, Record, TimesMethod
<1>11. parse_method_infos(p) = [p EXCEPT !.ptr = rest, !.out = Append(p.out, seq)]
  BY <1>9, <1>10
<1> QED
  BY <1>11, Wrapped

(* Methods there    only if a flag says so. *)
FlagMethods(p, k, mask) == Flagged(p, k, mask, parse_method_infos)
SomeMethods(opt) == IF opt = None THEN <<>> ELSE Methods(opt[1])

(* An optional section is a sequence of units. *)
LEMMA SomeMethodsType ==
  ASSUME NEW opt \in Option(Seq(MethodRecord))
  PROVE  SomeMethods(opt) \in Seq(Int)
<1>1. CASE opt = <<>>
  BY <1>1 DEF SomeMethods, None
<1>2. CASE opt # <<>>
  <2>1. PICK x \in Seq(MethodRecord) : opt[1] = x
    BY <1>2, OptionIs
  <2>2. SomeMethods(opt) = Methods(x)
    BY <1>2, <2>1 DEF SomeMethods, None
  <2> QED
    BY <2>2, MethodsIs
<1> QED
  BY <1>1, <1>2

(* If the flag tells of the section, it is read as it was sent. *)
LEMMA FlagMethodsRead ==
  ASSUME NEW opt \in Option(Seq(MethodRecord)), NEW rest \in Seq(Int), NEW p, NEW o, NEW k, NEW mask,
         At(p, Join(SomeMethods(opt), rest), o), Bit(o[k], mask) <=> opt # None
  PROVE  At(FlagMethods(p, k, mask), rest, Push(o, opt))
<1>1. p.st = "ok" /\ p.out = o /\ p.ptr = Join(SomeMethods(opt), rest)
  BY DEF At
<1>2. CASE opt = <<>>
  <2>1. p.ptr = rest
    BY <1>1, <1>2, JoinNone DEF SomeMethods, None
  <2>2. FlagMethods(p, k, mask) = [p EXCEPT !.out = Append(p.out, <<>>)]
    BY <1>1, <1>2 DEF FlagMethods, Flagged, None
  <2> QED
    BY <1>1, <1>2, <2>1, <2>2 DEF At, Push
<1>3. CASE opt # <<>>
  <2>1. PICK x \in Seq(MethodRecord) : opt = <<x>> /\ opt[1] = x
    BY <1>3, OptionIs
  <2>2. SomeMethods(opt) = Methods(x)
    BY <1>3, <2>1 DEF SomeMethods, None
  <2>3. PICK r : r = parse_method_infos(Start(p.ptr))
    OBVIOUS
  <2>4. At(r, rest, Push(<<>>, x))
    <3>1. At(Start(p.ptr), Join(Methods(x), rest), <<>>)
      BY <1>1, <2>2, StartAt
    <3> QED
      BY <2>3, <3>1, MethodsRead
  <2>5. r.st = "ok" /\ r.ptr = rest /\ r.out = opt
    BY <2>1, <2>4 DEF At, Push
  <2>6. FlagMethods(p, k, mask) = [p EXCEPT !.ptr = r.ptr, !.out = Append(p.out, r.out)]
    BY <1>1, <1>3, <2>3, <2>5 DEF FlagMethods, Flagged, Record, None
  <2>7. FlagMethods(p, k, mask) = [p EXCEPT !.ptr = rest, !.out = Append(p.out, opt)]
    BY <2>5, <2>6
  <2> QED
    BY <2>7, Wrapped
<1> QED
  BY <1>2, <1>3

-----------------------------------------------------------------------------
(* The sections of a type or field. *)

FlagGuid(p) == Flagged(p, 6, 128, LAMBDA q : Ints(q, 1))

(* If the flag tells of the section, it is read as it was sent. *)
LEMMA GuidRead ==
  ASSUME NEW opt \in Option(Int), NEW rest \in Seq(Int), NEW p, NEW o,
         At(p, Join(opt, rest), o), Bit(o[6], 128) <=> opt # None
  PROVE  At(FlagGuid(p), rest, Push(o, opt))
<1>1. p.st = "ok" /\ p.out = o /\ p.ptr = Join(opt, rest)
  BY DEF At
<1>2. CASE opt = <<>>
  <2>1. p.ptr = rest
    BY <1>1, <1>2, JoinNone
  <2>2. FlagGuid(p) = [p EXCEPT !.out = Append(p.out, <<>>)]
    BY <1>1, <1>2 DEF FlagGuid, Flagged, None
  <2> QED
    BY <1>1, <1>2, <2>1, <2>2 DEF At, Push
<1>3. CASE opt # <<>>
  <2>1. PICK x \in Int : opt = <<x>>
    BY <1>3, OptionIs
  <2>2. PICK r : r = Ints(Start(p.ptr), 1)
    OBVIOUS
  <2>3. At(r, rest, <<x>>)
    BY <1>1, <2>1, <2>2, StartAt, CountRead
  <2>4. r.st = "ok" /\ r.ptr = rest /\ r.out = opt
    BY <2>1, <2>3 DEF At
  <2>5. FlagGuid(p) = [p EXCEPT !.ptr = r.ptr, !.out = Append(p.out, r.out)]
    BY <1>1, <1>3, <2>2, <2>4 DEF FlagGuid, Flagged, Record, None
  <2>6. FlagGuid(p) = [p EXCEPT !.ptr = rest, !.out = Append(p.out, opt)]
    BY <2>4, <2>5
  <2> QED
    BY <2>6, Wrapped
<1> QED
  BY <1>2, <1>3

(* A copy mask, if there is one. *)
Mask(flags, size) == When(flags, 512, [k \in 1 .. size |-> 1])

(* The copy mask is a sequence of units. *)
LEMMA MaskType ==
  ASSUME NEW flags, NEW size \in Nat
  PROVE  Mask(flags, size) \in Seq(Int)
<1>1. [k \in 1 .. size |-> 1] \in [1 .. size -> Int]
  OBVIOUS
<1>2. [k \in 1 .. size |-> 1] \in Seq(Int)
  BY <1>1
<1> QED
  BY <1>2, EmptySeq DEF Mask, When

(* One value has been read, of no interest. *)
Skips(q, rest, o) == \E x : At(q, rest, Push(o, x))

(* The copy mask is as long as the type and is passed over. *)
LEMMA MaskRead ==
  ASSUME NEW rest \in Seq(Int), NEW p, NEW o, NEW size \in Nat, o[3] = size,
         At(p, Join(Mask(o[6], size), rest), o)
  PROVE  Skips(skip_copy_mask(p), rest, o)
<1>1. p.st = "ok" /\ p.out = o /\ p.ptr = Join(Mask(o[6], size), rest)
  BY DEF At
<1>2. CASE ~Bit(o[6], 512)
  <2>1. p.ptr = rest
    BY <1>1, <1>2, JoinNone DEF Mask, When
  <2>2. skip_copy_mask(p) = [p EXCEPT !.out = Append(p.out, <<>>)]
    BY <1>1, <1>2 DEF skip_copy_mask, Flagged, None
  <2>3. At(skip_copy_mask(p), rest, Push(o, <<>>))
    BY <1>1, <2>1, <2>2 DEF At, Push
  <2> QED
    BY <2>3 DEF Skips
<1>3. CASE Bit(o[6], 512)
  <2>1. PICK h : h = [k \in 1 .. size |-> 1]
    OBVIOUS
  <2>2. h \in Seq(Int) /\ size = Len(h)
    <3>1. h \in [1 .. size -> Int]
      BY <2>1
    <3> QED
      BY <3>1
  <2>3. Mask(o[6], size) = h
    BY <1>3, <2>1 DEF Mask, When
  <2>4. PICK r : r = Raw(Start(p.ptr), size)
    OBVIOUS
  <2>5. At(r, rest, Push(<<>>, h))
    <3>1. At(Start(p.ptr), Join(h, rest), <<>>)
      BY <1>1, <2>3, StartAt
    <3> QED
      BY <2>2, <2>4, <3>1, RawRead
  <2>6. r.st = "ok" /\ r.ptr = rest
    BY <2>5 DEF At
  <2>7. skip_copy_mask(p) = [p EXCEPT !.ptr = rest, !.out = Append(p.out, r.out)]
    BY <1>1, <1>3, <2>4, <2>6 DEF skip_copy_mask, Flagged, Record
  <2>8. At(skip_copy_mask(p), rest, Push(o, r.out))
    BY <2>7, Wrapped
  <2> QED
    BY <2>8 DEF Skips
<1> QED
  BY <1>2, <1>3

(* q is o, of n values, and one more. *)
Extends(q, o, n, x) ==
  Holds(q, n + 1) /\ q[n + 1] = x /\ \A i \in 1 .. n : q[i] = o[i]

(* A value more, and those before stay. *)
LEMMA Pushed ==
  ASSUME NEW o, NEW n, NEW x, Holds(o, n)
  PROVE  Extends(Push(o, x), o, n, x)
<1>1. n \in Nat /\ (n + 1) - 1 = n
  BY DEF Holds
<1>2. PICK m : m = n + 1
  OBVIOUS
<1>3. More(Push(o, x), o, m, x)
  BY <1>2, Grown
<1> QED
  BY <1>1, <1>2, <1>3 DEF More, Extends

(* After n values the sections have been read. *)
ReadSections(q, rest, o, n, guid, methods, attributes) ==
  \E x : /\ At(q, rest, x) /\ Holds(x, n + 4)
         /\ \A i \in 1 .. n : x[i] = o[i]
         /\ x[n + 1] = guid /\ x[n + 3] = methods /\ x[n + 4] = attributes

(* The sections of a trailer are read as they were sent. *)
LEMMA SectionsRead ==
  ASSUME NEW guid \in Option(Int), NEW methods \in Option(Seq(MethodRecord)),
         NEW attributes \in Option(Seq(AttributeRecord)), NEW rest \in Seq(Int), NEW p, NEW o,
         NEW n \in Nat, n >= 6, Holds(o, n), NEW flags, NEW size \in Nat, o[3] = size, o[6] = flags,
         Bit(flags, 128) <=> guid # None,
         Bit(flags, 2048) <=> methods # None,
         Bit(flags, AttributesFlag) <=> attributes # None,
         At(p, Join(guid, Join(Mask(flags, size), Join(SomeMethods(methods),
                 Join(SomeAttributes(attributes), rest)))), o)
  PROVE  ReadSections(Sections(p), rest, o, n, guid, methods, attributes)
<1>1. PICK t4 : t4 = Join(SomeAttributes(attributes), rest)
  OBVIOUS
<1>2. PICK t3 : t3 = Join(SomeMethods(methods), t4)
  OBVIOUS
<1>3. PICK t2 : t2 = Join(Mask(flags, size), t3)
  OBVIOUS
<1>4. t4 \in Seq(Int) /\ t3 \in Seq(Int) /\ t2 \in Seq(Int)
  <2>1. t4 \in Seq(Int)
    BY <1>1, SomeAttributesType, JoinType
  <2>2. t3 \in Seq(Int)
    BY <1>2, <2>1, SomeMethodsType, JoinType
  <2> QED
    BY <1>3, <2>1, <2>2, MaskType, JoinType
<1>5. /\ 3 \in 1 .. n /\ 6 \in 1 .. n /\ n + 1 = (n + 2) - 1 /\ n + 2 = (n + 3) - 1
      /\ n + 3 = (n + 4) - 1 /\ n = (n + 1) - 1
      /\ n + 2 = (n + 1) + 1 /\ n + 3 = (n + 2) + 1 /\ n + 4 = (n + 3) + 1
  OBVIOUS
<1>6. /\ \A i \in 1 .. n : i \in 1 .. n + 1 /\ i \in 1 .. n + 2 /\ i \in 1 .. n + 3
      /\ n + 1 \in 1 .. n + 2 /\ n + 1 \in 1 .. n + 3 /\ n + 3 \in 1 .. n + 3
      /\ n + 1 \in 1 .. n + 1 /\ n + 2 \in 1 .. n + 2
  OBVIOUS
<1>7. PICK p1, o1 : p1 = FlagGuid(p) /\ o1 = Push(o, guid)
  OBVIOUS
<1>8. At(p1, t2, o1)
  BY <1>1, <1>2, <1>3, <1>4, <1>7, GuidRead
<1>9. Holds(o1, n + 1) /\ o1[n + 1] = guid /\ \A i \in 1 .. n : o1[i] = o[i]
  <2>1. Extends(o1, o, n, guid)
    BY <1>7, Pushed
  <2> QED
    BY <2>1 DEF Extends
<1>10. PICK p2 : p2 = skip_copy_mask(p1)
  OBVIOUS
<1>11. PICK y : At(p2, t3, Push(o1, y))
  <2>1. o1[3] = size /\ o1[6] = flags
    BY <1>5, <1>9
  <2>2. At(p1, Join(Mask(o1[6], size), t3), o1)
    BY <1>3, <1>8, <2>1
  <2>3. Skips(p2, t3, o1)
    BY <1>4, <1>10, <2>1, <2>2, MaskRead
  <2> QED
    BY <2>3 DEF Skips
<1>12. PICK o2 : o2 = Push(o1, y)
  OBVIOUS
<1>13. Holds(o2, n + 2) /\ o2[n + 1] = guid /\ \A i \in 1 .. n : o2[i] = o[i]
  <2>0. PICK m : m = n + 1 /\ Holds(o1, m) /\ n + 2 = m + 1
    BY <1>5, <1>9
  <2>1. Extends(o2, o1, m, y)
    BY <1>12, <2>0, Pushed
  <2>2. \A i \in 1 .. n + 1 : o2[i] = o1[i]
    BY <2>0, <2>1 DEF Extends
  <2> QED
    BY <1>6, <1>9, <2>0, <2>1, <2>2 DEF Extends
<1>14. PICK p3, o3 : p3 = FlagMethods(p2, 6, 2048) /\ o3 = Push(o2, methods)
  OBVIOUS
<1>15. At(p3, t4, o3)
  <2>1. o2[6] = flags
    BY <1>5, <1>13
  <2> QED
    BY <1>2, <1>4, <1>11, <1>12, <1>14, <2>1, FlagMethodsRead
<1>16. Holds(o3, n + 3) /\ o3[n + 3] = methods /\ o3[n + 1] = guid /\ \A i \in 1 .. n : o3[i] = o[i]
  <2>0. PICK m : m = n + 2 /\ Holds(o2, m) /\ n + 3 = m + 1
    BY <1>5, <1>13
  <2>1. Extends(o3, o2, m, methods)
    BY <1>14, <2>0, Pushed
  <2>2. Holds(o3, n + 3) /\ o3[n + 3] = methods /\ \A i \in 1 .. n + 2 : o3[i] = o2[i]
    BY <2>0, <2>1 DEF Extends
  <2> QED
    BY <1>6, <1>13, <2>2
<1>17. PICK p4, o4 : p4 = FlagAttributes(p3, 6, AttributesFlag) /\ o4 = Push(o3, attributes)
  OBVIOUS
<1>18. At(p4, rest, o4)
  <2>1. o3[6] = flags
    BY <1>5, <1>16
  <2> QED
    BY <1>1, <1>15, <1>17, <2>1, FlagAttributesRead
<1>19. /\ Holds(o4, n + 4) /\ o4[n + 4] = attributes /\ o4[n + 3] = methods /\ o4[n + 1] = guid
       /\ \A i \in 1 .. n : o4[i] = o[i]
  <2>0. PICK m : m = n + 3 /\ Holds(o3, m) /\ n + 4 = m + 1
    BY <1>5, <1>16
  <2>1. Extends(o4, o3, m, attributes)
    BY <1>17, <2>0, Pushed
  <2>2. Holds(o4, n + 4) /\ o4[n + 4] = attributes /\ \A i \in 1 .. n + 3 : o4[i] = o3[i]
    BY <2>0, <2>1 DEF Extends
  <2> QED
    BY <1>6, <1>16, <2>2
<1>20. Sections(p) = p4
  BY <1>7, <1>10, <1>14, <1>17 DEF Sections, FlagGuid, FlagMethods, FlagAttributes
<1> QED
  BY <1>18, <1>19, <1>20 DEF ReadSections

-----------------------------------------------------------------------------
(* Array dimensions. *)

(* With overflow checks, an array that ends at the largest index panics. *)
ArrayBad(seq, c) == c /\ \E a \in ToSet(seq) : a[2] = I32Max

(* A dimension is sent in at least one unit. *)
LEMMA DimType ==
  ASSUME NEW a \in DimRecord
  PROVE  Bounds(a) \in Seq(Int) /\ Bounds(a) # <<>>
<1>1. a[1] \in Int /\ a[2] \in Int
  BY DEF DimRecord
<1> QED
  BY <1>1 DEF Bounds

(* What is within the range does not wrap around. *)
LEMMA WrapSame ==
  ASSUME NEW y \in Int, InI32(y)
  PROVE  Wrap(y) = y
<1>1. PICK m \in Nat : m = I32Max
  BY TypeInfoAssumption
<1>2. -m - 1 <= y /\ y <= m
  BY <1>1 DEF InI32
<1>3. PICK z \in Int, w \in Int : z = y + m + 1 /\ w = 2 * m + 2
  OBVIOUS
<1>4. 0 <= z /\ z < w /\ w > 0 /\ z - m - 1 = y
  BY <1>2, <1>3
<1>5. z % w = z
  BY <1>4
<1> QED
  BY <1>1, <1>3, <1>4, <1>5 DEF Wrap

(* One turn reads a dimension as it was sent, or panics where it ends at   *)
(* i32::MAX.                                                               *)
LEMMA OneDim ==
  ASSUME NEW c, NEW a \in DimRecord, NEW rest \in Seq(Int), NEW p, NEW o,
         At(p, Join(Bounds(a), rest), o)
  PROVE  At(ArrayDim(p, c), rest, Push(o, a)) \/ ((c /\ a[2] = I32Max) /\ Panics(ArrayDim(p, c)))
<1>1. PICK x \in Int, y \in Int : a = <<x, y>>
  BY DEF DimRecord
<1>2. InI32(x) /\ InI32(y) /\ y - x + 1 \in 0 .. I32Max /\ x = a[1] /\ y = a[2]
  BY <1>1 DEF DimRecord
<1>3. PICK h : h = Bounds(a)
  OBVIOUS
<1>4. h \in Seq(Int) /\ 2 = Len(h) /\ h[1] = x /\ h[2] = y - x + 1
  BY <1>1, <1>3 DEF Bounds
<1>5. PICK ptr : ptr = Join(h, rest)
  OBVIOUS
<1>6. PICK r : r = Ints(Start(ptr), 2)
  OBVIOUS
<1>7. At(r, rest, h)
  BY <1>4, <1>5, <1>6, StartAt, IntsRead
<1>8. r.st = "ok" /\ r.ptr = rest /\ r.out = h /\ DOMAIN r = {"st", "ptr", "out"}
  BY <1>7 DEF At
<1>9. p.st = "ok" /\ p.ptr = ptr /\ DOMAIN p = {"st", "ptr", "out"}
  BY <1>3, <1>5 DEF At
<1>10. h[1] + h[2] = y + 1 /\ h[1] + h[2] - 1 = y
  BY <1>4
<1>11. InI32(y + 1) <=> y # I32Max
  BY <1>2, TypeInfoAssumption DEF InI32
<1>12. Wrap(y) = y
  BY <1>2, WrapSame
<1>13. CASE c /\ y = I32Max
  <2>1. ArrayDim(p, c) = Stop(p, "panic")
    <3>1. c /\ ~(InI32(h[1] + h[2]) /\ InI32(h[1] + h[2] - 1))
      BY <1>10, <1>11, <1>13
    <3>2. Stop(r, "panic").st = "panic"
      BY <1>8 DEF Stop
    <3> QED
      BY <1>6, <1>8, <1>9, <3>1, <3>2 DEF ArrayDim, Record
  <2> QED
    BY <1>2, <1>9, <1>13, <2>1 DEF Panics, Stop
<1>14. CASE ~(c /\ y = I32Max)
  <2>1. ~(c /\ ~(InI32(h[1] + h[2]) /\ InI32(h[1] + h[2] - 1)))
    BY <1>2, <1>10, <1>11, <1>14
  <2>2. ArrayDim(p, c) = [p EXCEPT !.ptr = r.ptr, !.out = Append(p.out, <<r.out[1], Wrap(r.out[1] + r.out[2] - 1)>>)]
    BY <1>6, <1>8, <1>9, <2>1 DEF ArrayDim, Record
  <2>3. <<r.out[1], Wrap(r.out[1] + r.out[2] - 1)>> = a
    BY <1>1, <1>4, <1>8, <1>10, <1>12
  <2>4. ArrayDim(p, c) = [p EXCEPT !.ptr = rest, !.out = Append(p.out, a)]
    BY <1>8, <2>2, <2>3
  <2> QED
    BY <2>4, Wrapped
<1> QED
  BY <1>13, <1>14

(* A list of array dimensions, as the device sends it. *)
DimList(seq) == FlattenSeq([k \in DOMAIN seq |-> Bounds(seq[k])])

(* The elements of a list are sent as units. *)
LEMMA DimListType ==
  ASSUME NEW seq \in Seq(DimRecord)
  PROVE  DimList(seq) \in Seq(Int)
<1>1. PICK es : es = [i \in 1 .. Len(seq) |-> Bounds(seq[i])]
  OBVIOUS
<1>2. \A i \in 1 .. Len(seq) : seq[i] \in DimRecord
  OBVIOUS
<1>3. \A i \in 1 .. Len(seq) : Bounds(seq[i]) \in Seq(Int)
  BY <1>2, DimType
<1>4. es \in [1 .. Len(seq) -> Seq(Int)] /\ Len(seq) \in Nat
  BY <1>1, <1>3
<1>5. es \in Seq(Seq(Int)) /\ DOMAIN seq = 1 .. Len(seq)
  BY <1>4
<1>6. FlattenSeq(es) \in Seq(Int)
  <2>1. PICK e : e = <<>> /\ e \in Seq(Int)
    BY EmptySeq
  <2> QED
    BY <1>5, <2>1, Peel
<1> QED
  BY <1>1, <1>5, <1>6 DEF DimList

(* A list of array dimensions behind what tells their number. *)
LEMMA ReadDims ==
  ASSUME NEW c, NEW seq \in Seq(DimRecord), NEW rest \in Seq(Int), NEW p, NEW o, NEW k,
         At(p, Join(DimList(seq), rest), o), o[k] = Len(seq)
  PROVE  At(TimesDim(p, k, c), rest, Push(o, seq)) \/ (ArrayBad(seq, c) /\ Panics(TimesDim(p, k, c)))
<1>1. PICK es : es = [i \in DOMAIN seq |-> Bounds(seq[i])]
  OBVIOUS
<1>2. /\ Len(seq) \in Nat /\ DOMAIN seq = 1 .. Len(seq)
      /\ \A i \in 1 .. Len(seq) : seq[i] \in DimRecord
  OBVIOUS
<1>3. /\ es \in [1 .. Len(seq) -> Seq(Int)]
      /\ \A i \in 1 .. Len(seq) : es[i] = Bounds(seq[i]) /\ es[i] # <<>>
  BY <1>1, <1>2, DimType
<1>4. PICK R : ListLeft(es, Len(seq), R, rest)
  BY <1>2, <1>3, ListPeeled
<1>5. DimList(seq) = FlattenSeq(es)
  BY <1>1 DEF DimList
<1>6. PICK g : TurnDim(g, R[0], Len(seq), c) /\ Ends(TimesDim(p, k, c), g, Len(seq), o)
  <2>1. At(p, R[0], o) /\ Len(seq) = Rounds(o[k], R[0]) /\ Len(seq) \in Nat
    BY <1>4, <1>5 DEF ListLeft, Rounds
  <2> QED
    BY <2>1, DimRounds
<1>7. At(g[0], R[0], <<>>) /\ \A n \in 1 .. Len(seq) : g[n] = ArrayDim(g[n - 1], c)
  BY <1>6 DEF TurnDim
<1>8. ASSUME NEW n \in 1 .. Len(seq), NEW u, At(g[n - 1], R[n - 1], u)
      PROVE  At(g[n], R[n], Push(u, seq[n])) \/ (ArrayBad(seq, c) /\ Panics(g[n]))
  <2>1. R[n - 1] = Join(Bounds(seq[n]), R[n]) /\ R[n] \in Seq(Int) /\ seq[n] \in DimRecord
    BY <1>2, <1>3, <1>4 DEF ListLeft
  <2>2. g[n] = ArrayDim(g[n - 1], c)
    BY <1>7
  <2>3. At(g[n], R[n], Push(u, seq[n])) \/ ((c /\ seq[n][2] = I32Max) /\ Panics(g[n]))
    BY <1>8, <2>1, <2>2, OneDim
  <2>4. (c /\ seq[n][2] = I32Max) => ArrayBad(seq, c)
    BY DEF ArrayBad, ToSet
  <2> QED
    BY <2>3, <2>4
<1>9. ASSUME NEW n \in 1 .. Len(seq), Panics(g[n - 1]) PROVE Panics(g[n])
  BY <1>7, <1>9 DEF ArrayDim, Record, Panics
<1>10. At(g[Len(seq)], R[Len(seq)], seq) \/ (ArrayBad(seq, c) /\ Panics(g[Len(seq)]))
  BY <1>7, <1>8, <1>9, Walked
<1> QED
  BY <1>4, <1>6, <1>10, Listed DEF ListLeft

-----------------------------------------------------------------------------
(* The header of a type or field. *)

(* The integers of a header. *)
HeaderInts(t, unused, offset, type_name, items) ==
  <<1, unused, t.size, offset, t.base_type, t.flags, Len(t.name), Len(type_name),
    Len(t.comment), Len(t.array), items>>

HeaderParts(t, offset, type_name, items, h) ==
  /\ h \in Seq(Int) /\ 11 = Len(h) /\ h[1] = 1 /\ h[3] = t.size /\ h[4] = offset
  /\ h[5] = t.base_type /\ h[6] = t.flags /\ h[7] = Len(t.name) /\ h[8] = Len(type_name)
  /\ h[9] = Len(t.comment) /\ h[10] = Len(t.array) /\ h[11] = items

(* A header, as it is sent. *)
HeaderSent(t, unused, offset, type_name, items, h) ==
  /\ HeaderParts(t, offset, type_name, items, h)
  /\ Header(t, unused, offset, type_name, items)
       = Join(h, Join(Str(t.name), Join(Str(type_name), Join(Str(t.comment), DimList(t.array)))))

(* The parts a header is sent in. *)
LEMMA HeaderIs ==
  ASSUME NEW t, NEW unused \in Int, NEW offset \in Int, NEW type_name \in String, NEW items \in Int,
         t.name \in String, t.comment \in String, t.array \in Seq(DimRecord),
         t.size \in Int, t.base_type \in Int, t.flags \in Int
  PROVE  \E h : HeaderSent(t, unused, offset, type_name, items, h)
<1>1. PICK h : h = HeaderInts(t, unused, offset, type_name, items)
  OBVIOUS
<1>2. HeaderParts(t, offset, type_name, items, h)
  <2>1. Len(t.name) \in Int /\ Len(type_name) \in Int /\ Len(t.comment) \in Int /\ Len(t.array) \in Int
    BY StrType
  <2> QED
    BY <1>1, <2>1 DEF HeaderParts, HeaderInts
<1>3. PICK x, y, z, w : x = Str(t.name) /\ y = Str(type_name) /\ z = Str(t.comment) /\ w = DimList(t.array)
  OBVIOUS
<1>4. h \in Seq(Int) /\ x \in Seq(Int) /\ y \in Seq(Int) /\ z \in Seq(Int) /\ w \in Seq(Int)
  BY <1>2, <1>3, StrType, DimListType DEF HeaderParts
<1>5. Header(t, unused, offset, type_name, items) = Join(Join(Join(Join(h, x), y), z), w)
  BY <1>1, <1>3 DEF Header, HeaderInts, List, DimList, Join
<1>6. Header(t, unused, offset, type_name, items) = Join(h, Join(x, Join(y, Join(z, w))))
  BY <1>4, <1>5, JoinFive
<1>7. HeaderSent(t, unused, offset, type_name, items, h)
  BY <1>2, <1>3, <1>6 DEF HeaderSent
<1> QED
  BY <1>7

(* A header has been read. *)
ReadHeader(q, rest, h, a, b, d, array) ==
  \E x : /\ At(q, rest, x) /\ Holds(x, 15) /\ \A i \in 1 .. 11 : x[i] = h[i]
         /\ x[12] = a /\ x[13] = b /\ x[14] = d /\ x[15] = array

(* A header is read as it was sent, or the array overflows. *)
LEMMA HeaderRead ==
  ASSUME NEW c, NEW p, NEW h \in Seq(Int), 11 = Len(h), h[1] = 1,
         NEW a \in String, NEW b \in String, NEW d \in String, NEW array \in Seq(DimRecord),
         h[7] = Len(a), h[8] = Len(b), h[9] = Len(d), h[10] = Len(array), NEW rest \in Seq(Int),
         At(p, Join(h, Join(Str(a), Join(Str(b), Join(Str(d), Join(DimList(array), rest))))), <<>>)
  PROVE  \/ ReadHeader(TypeHeader(p, c), rest, h, a, b, d, array)
         \/ ArrayBad(array, c) /\ Panics(TypeHeader(p, c))
<1>1. PICK t \in Seq(Int) : t = Join(DimList(array), rest)
  BY DimListType, JoinType
<1>2. PICK r : r = read_str(read_str(read_str(Ints(p, 11), 7), 8), 9)
  OBVIOUS
<1>3. ReadThree(r, t, h, 11, a, b, d)
  <2>1. 7 \in 1 .. 11 /\ 8 \in 1 .. 11 /\ 9 \in 1 .. 11
    OBVIOUS
  <2> QED
    BY <1>1, <1>2, <2>1, ThreeStrings
<1>9. PICK u : /\ At(r, t, u) /\ Holds(u, 11 + 3) /\ \A i \in 1 .. 11 : u[i] = h[i]
               /\ u[11 + 1] = a /\ u[11 + 2] = b /\ u[11 + 3] = d
  BY <1>3 DEF ReadThree
<1>4. /\ At(r, t, u) /\ Holds(u, 14) /\ \A i \in 1 .. 11 : u[i] = h[i]
      /\ u[12] = a /\ u[13] = b /\ u[14] = d
  <2>1. 11 + 1 = 12 /\ 11 + 2 = 13 /\ 11 + 3 = 14
    OBVIOUS
  <2> QED
    BY <1>9, <2>1
<1>5. PICK s : s = TimesDim(r, 10, c)
  OBVIOUS
<1>6. At(s, rest, Push(u, array)) \/ (ArrayBad(array, c) /\ Panics(s))
  <2>1. u[10] = Len(array)
    <3>1. 10 \in 1 .. 11
      OBVIOUS
    <3> QED
      BY <1>4, <3>1
  <2> QED
    BY <1>1, <1>4, <1>5, <2>1, ReadDims
<1>7. TypeHeader(p, c) = s
  <2>1. PICK g : g = Ints(p, 11)
    OBVIOUS
  <2>2. PICK w \in Seq(Int) : w = Join(Str(a), Join(Str(b), Join(Str(d), t)))
    <3>1. Join(Str(d), t) \in Seq(Int)
      BY StrType, JoinType
    <3>2. Join(Str(b), Join(Str(d), t)) \in Seq(Int)
      BY <3>1, StrType, JoinType
    <3> QED
      BY <3>2, StrType, JoinType
  <2>3. At(g, w, h)
    BY <1>1, <2>1, <2>2, IntsRead
  <2>4. g.out[1] = 1
    BY <2>3 DEF At
  <2> QED
    BY <1>2, <1>5, <2>1, <2>4 DEF TypeHeader, TimesDim
<1>8. ASSUME At(s, rest, Push(u, array)) PROVE ReadHeader(s, rest, h, a, b, d, array)
  <2>1. PICK x : x = Push(u, array)
    OBVIOUS
  <2>2. Extends(x, u, 14, array)
    BY <1>4, <2>1, Pushed
  <2>3. Holds(x, 15) /\ x[15] = array /\ \A i \in 1 .. 14 : x[i] = u[i]
    <3>1. 14 + 1 = 15
      OBVIOUS
    <3> QED
      BY <2>2, <3>1 DEF Extends
  <2>4. 12 \in 1 .. 14 /\ 13 \in 1 .. 14 /\ 14 \in 1 .. 14 /\ \A i \in 1 .. 11 : i \in 1 .. 14
    OBVIOUS
  <2> QED
    BY <1>4, <1>8, <2>1, <2>3, <2>4 DEF ReadHeader
<1> QED
  BY <1>6, <1>7, <1>8

(* A list of one, or of none, flattened. *)
LEMMA FlattenOne ==
  ASSUME NEW s \in Seq(Int)
  PROVE  FlattenSeq(<<s>>) = s
<1> DEFINE q == <<s>>
<1> DEFINE F == [i \in 0 .. 1 |-> IF i = 0 THEN <<>> ELSE s]
<1>1. q \in Seq(Seq(Int)) /\ Len(q) = 1 /\ q[1] = s
  OBVIOUS
<1>2. F \in [0 .. 1 -> Seq(Int)] /\ F[0] = <<>> /\ F[1] = s
  OBVIOUS
<1>3. <<>> \o s = s
  OBVIOUS
<1> HIDE DEF q, F
<1>4. Catenates(q, 1, F)
  <2>1. \A i \in 1 .. 1 : i = 1 /\ i - 1 = 0
    OBVIOUS
  <2> QED
    BY <1>1, <1>2, <1>3, <2>1 DEF Catenates
<1>5. FlattenSeq(q) = F[1]
  BY <1>1, <1>2, <1>4, FlattenIsLast
<1>6. FlattenSeq(q) = s
  BY <1>2, <1>5
<1> QED
  BY <1>6 DEF q

(* A list of one, or of none, flattened. *)
LEMMA FlattenNone == FlattenSeq(<<>>) = <<>>
  BY DEF FlattenSeq

(* The attributes of a type or field, as it sends them. *)
LEMMA AttributesSent ==
  ASSUME NEW opt \in Option(Seq(AttributeRecord)), NEW flags,
         Bit(flags, AttributesFlag) <=> opt # None
  PROVE  When(flags, AttributesFlag, List(opt, Attributes)) = SomeAttributes(opt)
<1>1. CASE opt = <<>>
  BY <1>1 DEF When, SomeAttributes, None
<1>2. CASE opt # <<>>
  <2>1. PICK x \in Seq(AttributeRecord) : opt = <<x>> /\ opt[1] = x
    BY <1>2, OptionIs
  <2>2. PICK s \in Seq(Int) : s = Attributes(x)
    BY AttributesIs
  <2>3. [k \in DOMAIN opt |-> Attributes(opt[k])] = <<s>>
    BY <2>1, <2>2
  <2>4. List(opt, Attributes) = FlattenSeq(<<s>>)
    BY <2>3 DEF List
  <2>5. List(opt, Attributes) = s
    BY <2>4, FlattenOne
  <2> QED
    BY <1>2, <2>1, <2>2, <2>5 DEF When, SomeAttributes, None
<1> QED
  BY <1>1, <1>2

(* The sections in front of something. *)
TrailerSent(t, rest, guid, flags, size, methods, attributes) ==
  /\ t \in Seq(Int)
  /\ Join(t, rest) = Join(guid, Join(Mask(flags, size), Join(SomeMethods(methods),
                       Join(SomeAttributes(attributes), rest))))

(* The parts a trailer is sent in. *)
LEMMA TrailerIs ==
  ASSUME NEW flags, NEW size \in Nat, NEW gs, NEW ms, NEW us, NEW rest \in Seq(Int),
         NEW guid \in Option(Int), NEW methods \in Option(Seq(MethodRecord)),
         NEW attributes \in Option(Seq(AttributeRecord)),
         When(flags, 128, gs) = guid, When(flags, 2048, ms) = SomeMethods(methods),
         When(flags, AttributesFlag, us) = SomeAttributes(attributes)
  PROVE  TrailerSent(Trailer(flags, size, gs, ms, us), rest, guid, flags, size, methods, attributes)
<1>1. PICK x, y, z, w : /\ x = guid /\ y = Mask(flags, size) /\ z = SomeMethods(methods)
                        /\ w = SomeAttributes(attributes)
  OBVIOUS
<1>2. x \in Seq(Int) /\ y \in Seq(Int) /\ z \in Seq(Int) /\ w \in Seq(Int)
  <2>1. guid \in Seq(Int)
    BY DEF Option
  <2> QED
    BY <1>1, <2>1, MaskType, SomeMethodsType, SomeAttributesType
<1>3. Trailer(flags, size, gs, ms, us) = Join(Join(Join(x, y), z), w)
  BY <1>1 DEF Trailer, Mask, Join
<1>4. Join(Join(Join(x, y), z), w) \in Seq(Int)
  <2>1. Join(x, y) \in Seq(Int)
    BY <1>2, JoinType
  <2>2. Join(Join(x, y), z) \in Seq(Int)
    BY <1>2, <2>1, JoinType
  <2> QED
    BY <1>2, <2>2, JoinType
<1>5. Join(Join(Join(Join(x, y), z), w), rest) = Join(x, Join(y, Join(z, Join(w, rest))))
  BY <1>2, JoinFive
<1> QED
  BY <1>1, <1>3, <1>4, <1>5 DEF TrailerSent

(* A header in front of something. *)
LEMMA HeaderThen ==
  ASSUME NEW a \in Seq(Int), NEW b \in Seq(Int), NEW c \in Seq(Int), NEW d \in Seq(Int),
         NEW e \in Seq(Int), NEW f \in Seq(Int)
  PROVE  Join(Join(a, Join(b, Join(c, Join(d, e)))), f) = Join(a, Join(b, Join(c, Join(d, Join(e, f)))))
<1>1. Join(Join(Join(Join(a, b), c), d), e) = Join(a, Join(b, Join(c, Join(d, e))))
  BY JoinFive
<1>2. Join(Join(Join(Join(Join(a, b), c), d), e), f) = Join(a, Join(b, Join(c, Join(d, Join(e, f)))))
  BY JoinSix
<1> QED
  BY <1>1, <1>2

(* Nothing is read after a panic. *)
LEMMA SectionsPanic ==
  ASSUME NEW p, Panics(p)
  PROVE  Panics(Sections(p))
<1>1. p.st # "ok"
  BY DEF Panics
<1>2. Flagged(p, 6, 128, LAMBDA q : Ints(q, 1)) = p
  BY <1>1 DEF Flagged
<1>3. skip_copy_mask(p) = p
  BY <1>1 DEF skip_copy_mask, Flagged
<1>4. Flagged(p, 6, 2048, parse_method_infos) = p
  BY <1>1 DEF Flagged
<1>5. Flagged(p, 6, AttributesFlag, parse_attributes) = p
  BY <1>1 DEF Flagged
<1> QED
  BY <1>2, <1>3, <1>4, <1>5 DEF Sections

-----------------------------------------------------------------------------
(* Fields. *)

(* Of methods, a field only tells that there are none. *)
NoMethods(flags) == IF Bit(flags, 2048) THEN <<<<>>>> ELSE <<>>

(* The body of a field's entry. *)
FieldParts(f, h, guid, methods, body) ==
  /\ HeaderParts(f, IF f.offset = None THEN NoOffset ELSE f.offset[1], f.typ, 0, h)
  /\ body \in Seq(Int) /\ FieldEntry(f) = Framed(body)
  /\ Bit(f.flags, 128) <=> guid # None
  /\ Bit(f.flags, 2048) <=> methods # None
  /\ body = Join(h, Join(Str(f.name), Join(Str(f.typ), Join(Str(f.comment), Join(DimList(f.array),
              Join(guid, Join(Mask(f.flags, f.size), Join(SomeMethods(methods),
                Join(SomeAttributes(f.attributes), <<>>)))))))))

(* The types of what a field holds. *)
LEMMA FieldType0 ==
  ASSUME NEW f \in FieldRecord
  PROVE  /\ f.name \in String /\ f.typ \in String /\ f.comment \in String /\ f.size \in Nat
         /\ f.offset \in Option(Nat \ {NoOffset}) /\ f.array \in Seq(DimRecord)
         /\ f.base_type \in Nat /\ f.flags \in Nat
         /\ f.attributes \in Option(Seq(AttributeRecord))
         /\ Bit(f.flags, AttributesFlag) <=> f.attributes # None
  BY DEF FieldRecord

(* The parts a field is sent in. *)
LEMMA FieldIs ==
  ASSUME NEW f \in FieldRecord
  PROVE  \E h \in Seq(Int), guid \in Option(Int), methods \in Option(Seq(MethodRecord)) :
           \E body : FieldParts(f, h, guid, methods, body)
<1>1. /\ f.name \in String /\ f.typ \in String /\ f.comment \in String /\ f.size \in Nat
      /\ f.offset \in Option(Nat \ {NoOffset}) /\ f.array \in Seq(DimRecord)
      /\ f.base_type \in Nat /\ f.flags \in Nat
      /\ f.attributes \in Option(Seq(AttributeRecord))
      /\ Bit(f.flags, AttributesFlag) <=> f.attributes # None
  BY FieldType0
<1>2. PICK off : off = IF f.offset = None THEN NoOffset ELSE f.offset[1]
  OBVIOUS
<1>3. off \in Int
  <2>1. CASE f.offset = <<>>
    BY <1>2, <2>1, TypeInfoAssumption DEF None
  <2>2. CASE f.offset # <<>>
    <3>1. PICK x \in Nat \ {NoOffset} : f.offset[1] = x
      BY <1>1, <2>2, OptionIs
    <3> QED
      BY <1>2, <2>2, <3>1 DEF None
  <2> QED
    BY <2>1, <2>2
<1>19. PICK h : HeaderSent(f, 0, off, f.typ, 0, h)
  <2>1. f.size \in Int /\ f.base_type \in Int /\ f.flags \in Int /\ 0 \in Int
    BY <1>1
  <2>2. f.name \in String /\ f.typ \in String /\ f.comment \in String /\ f.array \in Seq(DimRecord)
    BY <1>1
  <2> QED
    BY <1>3, <2>1, <2>2, HeaderIs
<1>4. /\ HeaderParts(f, off, f.typ, 0, h)
      /\ Header(f, 0, off, f.typ, 0)
           = Join(h, Join(Str(f.name), Join(Str(f.typ), Join(Str(f.comment), DimList(f.array)))))
  BY <1>19 DEF HeaderSent
<1>5. PICK guid : guid = When(f.flags, 128, <<7>>)
  OBVIOUS
<1>6. guid \in Option(Int) /\ (Bit(f.flags, 128) <=> guid # None)
  BY <1>5 DEF When, Option, None
<1>7. PICK methods : methods = NoMethods(f.flags)
  OBVIOUS
<1>8. methods \in Option(Seq(MethodRecord)) /\ (Bit(f.flags, 2048) <=> methods # None)
  BY <1>7 DEF NoMethods, Option, None
<1>9. When(f.flags, 2048, <<0>>) = SomeMethods(methods)
  <2>1. [k \in DOMAIN <<>> |-> Method(<<>>[k])] = <<>>
    OBVIOUS
  <2>2. Methods(<<>>) = <<0>>
    <3>1. List(<<>>, Method) = <<>>
      BY <2>1, FlattenNone DEF List
    <3>2. Len(<<>>) = 0
      OBVIOUS
    <3>3. <<0>> \o <<>> = <<0>>
      OBVIOUS
    <3> QED
      BY <3>1, <3>2, <3>3, Zenon DEF Methods
  <2>3. <<<<>>>>[1] = <<>> /\ <<<<>>>> # <<>>
    OBVIOUS
  <2> QED
    BY <1>7, <2>2, <2>3 DEF NoMethods, When, SomeMethods, None
<1>10. When(f.flags, AttributesFlag, List(f.attributes, Attributes)) = SomeAttributes(f.attributes)
  BY <1>1, AttributesSent
<1>11. PICK t : t = Trailer(f.flags, f.size, <<7>>, <<0>>, List(f.attributes, Attributes))
  OBVIOUS
<1>12. t \in Seq(Int) /\ Join(t, <<>>) = Join(guid, Join(Mask(f.flags, f.size), Join(SomeMethods(methods),
                Join(SomeAttributes(f.attributes), <<>>))))
  <2>1. <<>> \in Seq(Int)
    BY EmptySeq
  <2>2. /\ f.size \in Nat /\ f.attributes \in Option(Seq(AttributeRecord))
        /\ guid \in Option(Int) /\ methods \in Option(Seq(MethodRecord))
    BY <1>1, <1>6, <1>8
  <2>3. When(f.flags, 128, <<7>>) = guid
    BY <1>5
  <2>7. PICK si \in Nat : si = f.size
    BY <1>1
  <2>4. PICK gs, ms, us, e, fl, at :
          /\ gs = <<7>> /\ ms = <<0>> /\ us = List(f.attributes, Attributes)
          /\ e = <<>> /\ fl = f.flags /\ at = f.attributes
    OBVIOUS
  <2>5. /\ When(fl, 128, gs) = guid /\ When(fl, 2048, ms) = SomeMethods(methods)
        /\ When(fl, AttributesFlag, us) = SomeAttributes(at)
    BY <1>9, <1>10, <2>3, <2>4
  <2>9. e \in Seq(Int) /\ at \in Option(Seq(AttributeRecord)) 
    BY <2>1, <2>2, <2>4
  <2>10. guid \in Option(Int) /\ methods \in Option(Seq(MethodRecord))
    BY <2>2
  <2>6. TrailerSent(Trailer(fl, si, gs, ms, us), e, guid, fl, si, methods, at)
    BY <2>5, <2>9, <2>10, TrailerIs
  <2>8. t = Trailer(fl, si, gs, ms, us)
    BY <1>11, <2>4, <2>7
  <2> QED
    BY <2>4, <2>6, <2>7, <2>8 DEF TrailerSent
<1>13. PICK a, b, c, d : a = Str(f.name) /\ b = Str(f.typ) /\ c = Str(f.comment) /\ d = DimList(f.array)
  OBVIOUS
<1>14. /\ a \in Seq(Int) /\ b \in Seq(Int) /\ c \in Seq(Int) /\ d \in Seq(Int) /\ h \in Seq(Int)
       /\ Join(t, <<>>) = t
  BY <1>1, <1>4, <1>12, <1>13, StrType, DimListType, JoinNone DEF HeaderParts
<1>15. PICK body : body = Join(h, Join(a, Join(b, Join(c, Join(d, t)))))
  OBVIOUS
<1>16. body \in Seq(Int)
  BY <1>12, <1>14, <1>15, JoinSix
<1>17. FieldEntry(f) = Framed(body)
  <2>1. FieldEntry(f) = Framed(Join(Header(f, 0, off, f.typ, 0), t))
    BY <1>2, <1>11 DEF FieldEntry, Join
  <2>2. FieldEntry(f) = Framed(Join(Join(h, Join(a, Join(b, Join(c, d)))), t))
    BY <1>4, <1>13, <2>1
  <2>3. Join(Join(h, Join(a, Join(b, Join(c, d)))), t) = body
    BY <1>12, <1>14, <1>15, HeaderThen
  <2> QED
    BY <2>2, <2>3
<1>18. FieldParts(f, h, guid, methods, body)
  BY <1>2, <1>4, <1>6, <1>8, <1>12, <1>13, <1>14, <1>15, <1>16, <1>17 DEF FieldParts
<1> QED
  BY <1>6, <1>8, <1>14, <1>16, <1>18

(* A field is sent in at least one unit. *)
LEMMA FieldType ==
  ASSUME NEW f \in FieldRecord
  PROVE  FieldEntry(f) \in Seq(Int) /\ FieldEntry(f) # <<>>
<1>1. PICK h \in Seq(Int), guid \in Option(Int), methods \in Option(Seq(MethodRecord)) :
        \E body : FieldParts(f, h, guid, methods, body)
  BY FieldIs
<1>0. PICK body : FieldParts(f, h, guid, methods, body)
  BY <1>1
<1>2. body \in Seq(Int) /\ FieldEntry(f) = Framed(body)
  BY <1>0 DEF FieldParts
<1> QED
  BY <1>2, FramedType

(* One turn reads a field as it was sent, or panics at an array that ends  *)
(* at i32::MAX.                                                            *)
LEMMA OneField ==
  ASSUME NEW c, NEW f \in FieldRecord, NEW rest \in Seq(Int), NEW p, NEW o,
         At(p, Join(FieldEntry(f), rest), o)
  PROVE  At(NextField(p, c), rest, Push(o, f)) \/ (ArrayBad(f.array, c) /\ Panics(NextField(p, c)))
<1>1. PICK h \in Seq(Int), guid \in Option(Int), methods \in Option(Seq(MethodRecord)) :
        \E body : FieldParts(f, h, guid, methods, body)
  BY FieldIs
<1>0. PICK body : FieldParts(f, h, guid, methods, body)
  BY <1>1
<1>2. /\ f.name \in String /\ f.typ \in String /\ f.comment \in String /\ f.size \in Nat
      /\ f.offset \in Option(Nat \ {NoOffset}) /\ f.array \in Seq(DimRecord)
      /\ f.base_type \in Nat /\ f.flags \in Nat
      /\ f.attributes \in Option(Seq(AttributeRecord))
      /\ Bit(f.flags, AttributesFlag) <=> f.attributes # None
  BY FieldType0
<1>3. /\ body \in Seq(Int) /\ FieldEntry(f) = Framed(body)
      /\ Bit(f.flags, 128) <=> guid # None
      /\ Bit(f.flags, 2048) <=> methods # None
      /\ 11 = Len(h) /\ h[1] = 1 /\ h[3] = f.size /\ h[5] = f.base_type /\ h[6] = f.flags
      /\ h[7] = Len(f.name) /\ h[8] = Len(f.typ) /\ h[9] = Len(f.comment) /\ h[10] = Len(f.array)
      /\ h[4] = IF f.offset = None THEN NoOffset ELSE f.offset[1]
  BY <1>0 DEF FieldParts, HeaderParts
<1>4. PICK t : t = Join(guid, Join(Mask(f.flags, f.size), Join(SomeMethods(methods),
                     Join(SomeAttributes(f.attributes), <<>>))))
  OBVIOUS
<1>5. t \in Seq(Int)
  <2>1. guid \in Seq(Int) /\ <<>> \in Seq(Int)
    BY EmptySeq DEF Option
  <2> QED
    BY <1>2, <1>4, <2>1, MaskType, SomeMethodsType, SomeAttributesType, JoinFive
<1>6. body = Join(h, Join(Str(f.name), Join(Str(f.typ), Join(Str(f.comment), Join(DimList(f.array), t)))))
  BY <1>0, <1>4 DEF FieldParts
<1>7. PICK ptr : ptr = Join(FieldEntry(f), rest)
  OBVIOUS
<1>8. Opens(ptr, body, rest)
  BY <1>3, <1>7, FramedOpens
<1>9. PICK q : q = TypeHeader(Start(body), c)
  OBVIOUS
<1>10. \/ ReadHeader(q, t, h, f.name, f.typ, f.comment, f.array)
       \/ ArrayBad(f.array, c) /\ Panics(q)
  <2>1. At(Start(body), body, <<>>)
    BY StartAt
  <2>2. /\ 11 = Len(h) /\ h[1] = 1
        /\ h[7] = Len(f.name) /\ h[8] = Len(f.typ) /\ h[9] = Len(f.comment) /\ h[10] = Len(f.array)
    BY <1>3
  <2>3. f.name \in String /\ f.typ \in String /\ f.comment \in String /\ f.array \in Seq(DimRecord)
    BY <1>2
  <2>4. At(Start(body), Join(h, Join(Str(f.name), Join(Str(f.typ), Join(Str(f.comment), Join(DimList(f.array), t))))), <<>>)
    BY <1>6, <2>1
  <2>5. \/ ReadHeader(TypeHeader(Start(body), c), t, h, f.name, f.typ, f.comment, f.array)
        \/ ArrayBad(f.array, c) /\ Panics(TypeHeader(Start(body), c))
    BY <1>5, <2>2, <2>3, <2>4, HeaderRead
  <2> QED
    BY <1>9, <2>5
<1>11. PICK s : s = parse_field(Start(body), c)
  OBVIOUS
<1>12. s = Sections(q)
  BY <1>9, <1>11 DEF parse_field
<1>13. p.st = "ok" /\ p.ptr = ptr /\ DOMAIN p = {"st", "ptr", "out"}
  BY <1>7 DEF At
<1>14. CASE ReadHeader(q, t, h, f.name, f.typ, f.comment, f.array)
  <2>1. PICK x : /\ At(q, t, x) /\ Holds(x, 15) /\ \A i \in 1 .. 11 : x[i] = h[i]
                 /\ x[12] = f.name /\ x[13] = f.typ /\ x[14] = f.comment /\ x[15] = f.array
    BY <1>14 DEF ReadHeader
  <2>2. x[3] = f.size /\ x[4] = h[4] /\ x[5] = f.base_type /\ x[6] = f.flags
    <3>1. 3 \in 1 .. 11 /\ 4 \in 1 .. 11 /\ 5 \in 1 .. 11 /\ 6 \in 1 .. 11
      OBVIOUS
    <3>2. x[3] = h[3] /\ x[4] = h[4] /\ x[5] = h[5] /\ x[6] = h[6]
      BY <2>1, <3>1
    <3>3. h[3] = f.size /\ h[5] = f.base_type /\ h[6] = f.flags
      BY <1>3
    <3> QED
      BY <3>2, <3>3
  <2>3. ReadSections(s, <<>>, x, 15, guid, methods, f.attributes)
    <3>1. 15 \in Nat /\ 15 >= 6 /\ <<>> \in Seq(Int)
      BY EmptySeq
    <3>2. At(q, t, x) /\ Holds(x, 15)
      BY <2>1
    <3>3. x[3] = f.size /\ x[6] = f.flags /\ f.size \in Nat /\ f.attributes \in Option(Seq(AttributeRecord))
      BY <1>2, <2>2
    <3>4. (Bit(f.flags, 128) <=> guid # None) /\ (Bit(f.flags, 2048) <=> methods # None)
          /\ (Bit(f.flags, AttributesFlag) <=> f.attributes # None)
      BY <1>2, <1>3
    <3>5. At(q, Join(guid, Join(Mask(f.flags, f.size), Join(SomeMethods(methods),
                     Join(SomeAttributes(f.attributes), <<>>)))), x)
      BY <1>4, <3>2
    <3>10. PICK n \in Nat, si \in Nat : n = 15 /\ si = f.size
      BY <1>2
    <3>6. PICK e, fl, at : e = <<>> /\ fl = f.flags /\ at = f.attributes
      OBVIOUS
    <3>7. /\ e \in Seq(Int) /\ n >= 6 /\ Holds(x, n)
          /\ at \in Option(Seq(AttributeRecord)) /\ x[3] = si /\ x[6] = fl
      BY <3>1, <3>2, <3>3, <3>6, <3>10
    <3>8. /\ Bit(fl, 128) <=> guid # None
          /\ Bit(fl, 2048) <=> methods # None
          /\ Bit(fl, AttributesFlag) <=> at # None
      BY <3>4, <3>6
    <3>11. At(q, Join(guid, Join(Mask(fl, si), Join(SomeMethods(methods), Join(SomeAttributes(at), e)))), x)
      BY <3>5, <3>6, <3>10
    <3>12. guid \in Option(Int) /\ methods \in Option(Seq(MethodRecord))
      OBVIOUS
    <3>9. ReadSections(Sections(q), e, x, n, guid, methods, at)
      BY <3>7, <3>8, <3>11, <3>12, SectionsRead, SMTT(30)
    <3> QED
      BY <1>12, <3>6, <3>9, <3>10
  <2>4. PICK y : /\ At(s, <<>>, y) /\ \A i \in 1 .. 15 : y[i] = x[i]
                 /\ y[15 + 4] = f.attributes
    BY <2>3 DEF ReadSections
  <2>5. y[3] = x[3] /\ y[4] = x[4] /\ y[5] = x[5] /\ y[6] = x[6] /\ y[12] = x[12] /\ y[13] = x[13]
        /\ y[14] = x[14] /\ y[15] = x[15] /\ y[19] = f.attributes
    <3>1. \A i \in {3, 4, 5, 6, 12, 13, 14, 15} : i \in 1 .. 15
      OBVIOUS
    <3>2. 15 + 4 = 19
      OBVIOUS
    <3> QED
      BY <2>4, <3>1, <3>2
  <2>6. (IF y[4] = NoOffset THEN None ELSE Some(y[4])) = f.offset
    <3>1. CASE f.offset = <<>>
      BY <1>3, <2>2, <2>5, <3>1 DEF None
    <3>2. CASE f.offset # <<>>
      <4>1. PICK z \in Nat \ {NoOffset} : f.offset = <<z>> /\ f.offset[1] = z
        BY <1>2, <3>2, OptionIs
      <4> QED
        BY <1>3, <2>2, <2>5, <3>2, <4>1 DEF None, Some
    <3> QED
      BY <3>1, <3>2
  <2>7. Field(y) = [name |-> f.name, typ |-> f.typ, comment |-> f.comment, size |-> f.size,
                    offset |-> f.offset, array |-> f.array, base_type |-> f.base_type,
                    flags |-> f.flags, attributes |-> f.attributes]
    BY <2>1, <2>2, <2>5, <2>6 DEF Field
  <2>8. Field(y) = f
    BY <2>7 DEF FieldRecord
  <2>9. s.st = "ok" /\ s.out = y
    BY <2>4 DEF At
  <2>10. NextField(p, c) = [p EXCEPT !.ptr = rest, !.out = Append(p.out, Field(s.out))]
    BY <1>8, <1>11, <1>13, <2>9 DEF NextField, Entry, EntryOr, Opens
  <2>11. NextField(p, c) = [p EXCEPT !.ptr = rest, !.out = Append(p.out, f)]
    BY <2>8, <2>9, <2>10
  <2> QED
    BY <2>11, Wrapped
<1>15. CASE ArrayBad(f.array, c) /\ Panics(q)
  <2>1. s.st = "panic"
    BY <1>12, <1>15, SectionsPanic DEF Panics
  <2>2. NextField(p, c) = Stop(p, "panic")
    BY <1>8, <1>11, <1>13, <2>1 DEF NextField, Entry, EntryOr, Opens
  <2> QED
    BY <1>13, <1>15, <2>2 DEF Panics, Stop
<1> QED
  BY <1>10, <1>14, <1>15

(* With overflow checks, a field with such an array panics. *)
FieldsBad(seq, c) == \E f \in ToSet(seq) : ArrayBad(f.array, c)

(* A list of fields, as the device sends it. *)
FieldList(seq) == FlattenSeq([k \in DOMAIN seq |-> FieldEntry(seq[k])])

(* The elements of a list are sent as units. *)
LEMMA FieldListType ==
  ASSUME NEW seq \in Seq(FieldRecord)
  PROVE  FieldList(seq) \in Seq(Int)
<1>1. PICK es : es = [i \in 1 .. Len(seq) |-> FieldEntry(seq[i])]
  OBVIOUS
<1>2. \A i \in 1 .. Len(seq) : seq[i] \in FieldRecord
  OBVIOUS
<1>3. \A i \in 1 .. Len(seq) : FieldEntry(seq[i]) \in Seq(Int)
  BY <1>2, FieldType
<1>4. es \in [1 .. Len(seq) -> Seq(Int)] /\ Len(seq) \in Nat
  BY <1>1, <1>3
<1>5. es \in Seq(Seq(Int)) /\ DOMAIN seq = 1 .. Len(seq)
  BY <1>4
<1>6. FlattenSeq(es) \in Seq(Int)
  <2>1. PICK e : e = <<>> /\ e \in Seq(Int)
    BY EmptySeq
  <2> QED
    BY <1>5, <2>1, Peel
<1> QED
  BY <1>1, <1>5, <1>6 DEF FieldList

(* A list of fields behind what tells their number. *)
LEMMA ReadFields ==
  ASSUME NEW c, NEW seq \in Seq(FieldRecord), NEW rest \in Seq(Int), NEW p, NEW o, NEW k,
         At(p, Join(FieldList(seq), rest), o), o[k] = Len(seq)
  PROVE  At(TimesField(p, k, c), rest, Push(o, seq)) \/ (FieldsBad(seq, c) /\ Panics(TimesField(p, k, c)))
<1>1. PICK es : es = [i \in DOMAIN seq |-> FieldEntry(seq[i])]
  OBVIOUS
<1>2. /\ Len(seq) \in Nat /\ DOMAIN seq = 1 .. Len(seq)
      /\ \A i \in 1 .. Len(seq) : seq[i] \in FieldRecord
  OBVIOUS
<1>3. /\ es \in [1 .. Len(seq) -> Seq(Int)]
      /\ \A i \in 1 .. Len(seq) : es[i] = FieldEntry(seq[i]) /\ es[i] # <<>>
  BY <1>1, <1>2, FieldType
<1>4. PICK R : ListLeft(es, Len(seq), R, rest)
  BY <1>2, <1>3, ListPeeled
<1>5. FieldList(seq) = FlattenSeq(es)
  BY <1>1 DEF FieldList
<1>6. PICK g : TurnField(g, R[0], Len(seq), c) /\ Ends(TimesField(p, k, c), g, Len(seq), o)
  <2>1. At(p, R[0], o) /\ Len(seq) = Rounds(o[k], R[0]) /\ Len(seq) \in Nat
    BY <1>4, <1>5 DEF ListLeft, Rounds
  <2> QED
    BY <2>1, FieldRounds
<1>7. At(g[0], R[0], <<>>) /\ \A n \in 1 .. Len(seq) : g[n] = NextField(g[n - 1], c)
  BY <1>6 DEF TurnField
<1>8. ASSUME NEW n \in 1 .. Len(seq), NEW u, At(g[n - 1], R[n - 1], u)
      PROVE  At(g[n], R[n], Push(u, seq[n])) \/ (FieldsBad(seq, c) /\ Panics(g[n]))
  <2>1. R[n - 1] = Join(FieldEntry(seq[n]), R[n]) /\ R[n] \in Seq(Int) /\ seq[n] \in FieldRecord
    BY <1>2, <1>3, <1>4 DEF ListLeft
  <2>2. g[n] = NextField(g[n - 1], c)
    BY <1>7
  <2>3. At(g[n], R[n], Push(u, seq[n])) \/ (ArrayBad(seq[n].array, c) /\ Panics(g[n]))
    BY <1>8, <2>1, <2>2, OneField
  <2>4. ArrayBad(seq[n].array, c) => FieldsBad(seq, c)
    BY DEF FieldsBad, ToSet
  <2> QED
    BY <2>3, <2>4
<1>9. ASSUME NEW n \in 1 .. Len(seq), Panics(g[n - 1]) PROVE Panics(g[n])
  BY <1>7, <1>9 DEF NextField, Entry, EntryOr, Panics
<1>10. At(g[Len(seq)], R[Len(seq)], seq) \/ (FieldsBad(seq, c) /\ Panics(g[Len(seq)]))
  BY <1>7, <1>8, <1>9, Walked
<1> QED
  BY <1>4, <1>6, <1>10, Listed DEF ListLeft

-----------------------------------------------------------------------------
(* Enum values. *)

EnumRecord(size, base) ==
  {e \in [name : String, value : Int] : Representable(e.value, size, base)}

(* The parts an enum value is sent in. *)
LEMMA EnumIs ==
  ASSUME NEW size \in Nat, NEW base \in Nat, NEW e \in EnumRecord(size, base)
  PROVE  \E name \in String, raw \in Seq(Int) :
           /\ e = [name |-> name, value |-> EnumValue(raw, base)]
           /\ size = Len(raw) /\ ~(size < BaseWidth(base, size))
           /\ EnumInfo(e, size) = Join(Join(<<Len(name)>>, Str(name)), raw)
<1>1. PICK name \in String, value \in Int : e = [name |-> name, value |-> value]
  BY DEF EnumRecord
<1>2. Representable(value, size, base)
  BY <1>1 DEF EnumRecord
<1>3. PICK raw : raw = Digits(value, size)
  OBVIOUS
<1>4. raw \in Seq(Int) /\ size = Len(raw)
  <2>1. raw \in [1 .. size -> 0 .. ByteMod - 1] /\ 0 .. ByteMod - 1 \subseteq Int
    BY <1>2, <1>3 DEF Representable
  <2>2. raw \in [1 .. size -> Int]
    BY <2>1
  <2> QED
    BY <2>2
<1>5. EnumValue(raw, base) = value /\ size >= BaseWidth(base, size)
  BY <1>2, <1>3 DEF Representable
<1>6. ~(size < BaseWidth(base, size))
  <2>1. BaseWidth(base, size) \in Nat
    BY DEF BaseWidth
  <2> QED
    BY <1>5, <2>1
<1>7. EnumInfo(e, size) = Join(Join(<<Len(name)>>, Str(name)), raw)
  BY <1>1, <1>3 DEF EnumInfo, Join
<1> QED
  BY <1>1, <1>4, <1>5, <1>6, <1>7

(* An enum value is sent in at least one unit. *)
LEMMA EnumType ==
  ASSUME NEW size \in Nat, NEW base \in Nat, NEW e \in EnumRecord(size, base)
  PROVE  EnumInfo(e, size) \in Seq(Int) /\ EnumInfo(e, size) # <<>>
<1>1. PICK name \in String, raw \in Seq(Int) :
           EnumInfo(e, size) = Join(Join(<<Len(name)>>, Str(name)), raw)
  BY EnumIs
<1>2. PICK h, x : h = <<Len(name)>> /\ x = Str(name)
  OBVIOUS
<1>3. h \in Seq(Int) /\ Len(h) # 0 /\ x \in Seq(Int)
  BY <1>2, StrType
<1>4. PICK z \in Seq(Int) : z = Join(h, x) /\ Len(z) # 0
  BY <1>3, JoinLonger
<1>5. Join(z, raw) \in Seq(Int) /\ Join(z, raw) # <<>>
  BY <1>4, JoinLonger
<1> QED
  BY <1>1, <1>2, <1>4, <1>5

(* One turn reads an enum value as it was sent. *)
LEMMA OneEnum ==
  ASSUME NEW size \in Nat, NEW base \in Nat, NEW e \in EnumRecord(size, base), NEW rest \in Seq(Int),
         NEW p, NEW o, At(p, Join(EnumInfo(e, size), rest), o)
  PROVE  At(NextEnumInfo(p, size, base), rest, Push(o, e))
<1>1. PICK name \in String, raw \in Seq(Int) :
           /\ e = [name |-> name, value |-> EnumValue(raw, base)]
           /\ size = Len(raw) /\ ~(size < BaseWidth(base, size))
           /\ EnumInfo(e, size) = Join(Join(<<Len(name)>>, Str(name)), raw)
  BY EnumIs
<1>2. PICK n, h, x, t : n = Len(name) /\ h = <<n>> /\ x = Str(name) /\ t = Join(raw, rest)
  OBVIOUS
<1>3. n \in Int /\ h \in Seq(Int) /\ x \in Seq(Int) /\ t \in Seq(Int)
  BY <1>2, StrType, JoinType
<1>4. PICK ptr, u : ptr = Join(EnumInfo(e, size), rest) /\ u = Join(x, t)
  OBVIOUS
<1>5. u \in Seq(Int) /\ ptr = Join(h, u)
  <2>1. Join(h, x) \in Seq(Int) /\ u \in Seq(Int)
    BY <1>3, <1>4, JoinType
  <2>2. Join(Join(Join(h, x), raw), rest) = Join(Join(h, x), Join(raw, rest))
    BY <2>1, JoinAssoc
  <2>3. Join(Join(h, x), t) = Join(h, Join(x, t))
    BY <1>3, JoinAssoc
  <2>4. ptr = Join(Join(Join(h, x), raw), rest)
    BY <1>1, <1>2, <1>4
  <2> QED
    BY <1>2, <1>4, <2>1, <2>2, <2>3, <2>4
<1>6. PICK a : a = Ints(Start(ptr), 1)
  OBVIOUS
<1>7. At(a, u, <<n>>)
  BY <1>2, <1>3, <1>5, <1>6, StartAt, CountRead
<1>8. PICK b, v : b = read_str(a, 1) /\ v = Push(<<n>>, name)
  OBVIOUS
<1>9. At(b, t, v)
  <2>1. <<n>>[1] = Len(name)
    BY <1>2
  <2> QED
    BY <1>2, <1>3, <1>4, <1>7, <1>8, <2>1, StrRead
<1>10. PICK r, w : r = Raw(b, size) /\ w = Push(v, raw)
  OBVIOUS
<1>11. At(r, rest, w)
  BY <1>1, <1>2, <1>9, <1>10, RawRead
<1>12. w[2] = name /\ w[3] = raw
  BY <1>8, <1>10 DEF Push
<1>13. r.st = "ok" /\ r.ptr = rest /\ r.out = w
  BY <1>11 DEF At
<1>14. NextEnumInfo(p, size, base) = [p EXCEPT !.ptr = r.ptr,
          !.out = Append(p.out, [name |-> r.out[2], value |-> EnumValue(r.out[3], base)])]
  <2>1. p.st = "ok" /\ p.ptr = ptr
    BY <1>4 DEF At
  <2> QED
    BY <1>1, <1>6, <1>8, <1>10, <1>13, <2>1 DEF NextEnumInfo, Record
<1>15. NextEnumInfo(p, size, base) = [p EXCEPT !.ptr = rest, !.out = Append(p.out, e)]
  BY <1>1, <1>12, <1>13, <1>14
<1> QED
  BY <1>15, Wrapped

(* A list of enum values, as the device sends it. *)
EnumList(seq, size) == FlattenSeq([k \in DOMAIN seq |-> EnumInfo(seq[k], size)])

(* The elements of a list are sent as units. *)
LEMMA EnumListType ==
  ASSUME NEW size \in Nat, NEW base \in Nat, NEW seq \in Seq(EnumRecord(size, base))
  PROVE  EnumList(seq, size) \in Seq(Int)
<1>1. PICK es : es = [i \in 1 .. Len(seq) |-> EnumInfo(seq[i], size)]
  OBVIOUS
<1>2. \A i \in 1 .. Len(seq) : seq[i] \in EnumRecord(size, base)
  OBVIOUS
<1>3. \A i \in 1 .. Len(seq) : EnumInfo(seq[i], size) \in Seq(Int)
  BY <1>2, EnumType
<1>4. es \in [1 .. Len(seq) -> Seq(Int)] /\ Len(seq) \in Nat
  BY <1>1, <1>3
<1>5. es \in Seq(Seq(Int)) /\ DOMAIN seq = 1 .. Len(seq)
  BY <1>4
<1>6. FlattenSeq(es) \in Seq(Int)
  <2>1. PICK e : e = <<>> /\ e \in Seq(Int)
    BY EmptySeq
  <2> QED
    BY <1>5, <2>1, Peel
<1> QED
  BY <1>1, <1>5, <1>6 DEF EnumList

(* A list of enum values behind what tells their number. *)
LEMMA ReadEnums ==
  ASSUME NEW size \in Nat, NEW base \in Nat, NEW seq \in Seq(EnumRecord(size, base)), NEW rest \in Seq(Int), NEW p, NEW o, NEW k,
         At(p, Join(EnumList(seq, size), rest), o), o[k] = Len(seq)
  PROVE  At(TimesEnum(p, k, size, base), rest, Push(o, seq))
<1>1. PICK es : es = [i \in DOMAIN seq |-> EnumInfo(seq[i], size)]
  OBVIOUS
<1>2. /\ Len(seq) \in Nat /\ DOMAIN seq = 1 .. Len(seq)
      /\ \A i \in 1 .. Len(seq) : seq[i] \in EnumRecord(size, base)
  OBVIOUS
<1>3. /\ es \in [1 .. Len(seq) -> Seq(Int)]
      /\ \A i \in 1 .. Len(seq) : es[i] = EnumInfo(seq[i], size) /\ es[i] # <<>>
  BY <1>1, <1>2, EnumType
<1>4. PICK R : ListLeft(es, Len(seq), R, rest)
  BY <1>2, <1>3, ListPeeled
<1>5. EnumList(seq, size) = FlattenSeq(es)
  BY <1>1 DEF EnumList
<1>6. PICK g : TurnEnum(g, R[0], Len(seq), size, base) /\ Ends(TimesEnum(p, k, size, base), g, Len(seq), o)
  <2>1. At(p, R[0], o) /\ Len(seq) = Rounds(o[k], R[0]) /\ Len(seq) \in Nat
    BY <1>4, <1>5 DEF ListLeft, Rounds
  <2> QED
    BY <2>1, EnumRounds
<1>7. At(g[0], R[0], <<>>) /\ \A n \in 1 .. Len(seq) : g[n] = NextEnumInfo(g[n - 1], size, base)
  BY <1>6 DEF TurnEnum
<1>8. ASSUME NEW n \in 1 .. Len(seq), NEW u, At(g[n - 1], R[n - 1], u)
      PROVE  At(g[n], R[n], Push(u, seq[n]))
  <2>1. R[n - 1] = Join(EnumInfo(seq[n], size), R[n]) /\ R[n] \in Seq(Int) /\ seq[n] \in EnumRecord(size, base)
    BY <1>2, <1>3, <1>4 DEF ListLeft
  <2>2. g[n] = NextEnumInfo(g[n - 1], size, base)
    BY <1>7
  <2> QED
    BY <1>8, <2>1, <2>2, OneEnum
<1>9. ASSUME NEW n \in 1 .. Len(seq), Panics(g[n - 1]) PROVE Panics(g[n])
  BY <1>7, <1>9 DEF NextEnumInfo, Record, Panics
<1>10. At(g[Len(seq)], R[Len(seq)], seq) \/ (FALSE /\ Panics(g[Len(seq)]))
  BY <1>7, <1>8, <1>9, Walked
<1> QED
  BY <1>4, <1>6, <1>10, Listed DEF ListLeft

(* A list is sent as its length and its elements. *)
LEMMA EnumsIs ==
  ASSUME NEW size \in Nat, NEW base \in Nat, NEW seq \in Seq(EnumRecord(size, base))
  PROVE  /\ EnumInfos(seq, size) = Join(<<Len(seq)>>, EnumList(seq, size))
         /\ EnumInfos(seq, size) \in Seq(Int) /\ EnumInfos(seq, size) # <<>>
<1>1. EnumInfos(seq, size) = Join(<<Len(seq)>>, EnumList(seq, size))
  BY DEF EnumInfos, List, EnumList, Join
<1>0. PICK h : h = <<Len(seq)>>
  OBVIOUS
<1>2. h \in Seq(Int) /\ Len(h) # 0
  BY <1>0
<1>3. Join(h, EnumList(seq, size)) \in Seq(Int) /\ Join(h, EnumList(seq, size)) # <<>>
  BY <1>2, EnumListType, JoinLonger
<1> QED
  BY <1>0, <1>1, <1>3

(* A list of enum values behind its count. *)
LEMMA EnumsRead ==
  ASSUME NEW size \in Nat, NEW base \in Nat, NEW seq \in Seq(EnumRecord(size, base)), NEW rest \in Seq(Int), NEW p, NEW o,
         At(p, Join(EnumInfos(seq, size), rest), o)
  PROVE  At(parse_enum_infos(p, size, base), rest, Push(o, seq))
<1>1. PICK ptr : ptr = Join(EnumInfos(seq, size), rest)
  OBVIOUS
<1>2. PICK n, h, es : n = Len(seq) /\ h = <<n>> /\ es = EnumList(seq, size)
  OBVIOUS
<1>12. n \in Int /\ h \in Seq(Int) /\ es \in Seq(Int)
  BY <1>2, EnumListType
<1>3. PICK t \in Seq(Int) : t = Join(es, rest)
  BY <1>12, JoinType
<1>4. ptr = Join(<<n>>, t)
  <2>1. Join(Join(h, es), rest) = Join(h, Join(es, rest))
    BY <1>12, JoinAssoc
  <2> QED
    BY <1>1, <1>2, <1>3, <2>1, EnumsIs
<1>5. PICK c : c = Ints(Start(ptr), 1)
  OBVIOUS
<1>6. At(c, t, <<n>>)
  BY <1>4, <1>5, <1>12, StartAt, CountRead
<1>7. PICK r : r = TimesEnum(c, 1, size, base)
  OBVIOUS
<1>8. At(r, rest, Push(<<n>>, seq))
  <2>1. <<n>>[1] = Len(seq)
    BY <1>2
  <2> QED
    BY <1>2, <1>3, <1>6, <1>7, <2>1, ReadEnums
<1>9. r.st = "ok" /\ r.ptr = rest /\ r.out[2] = seq
  BY <1>8 DEF At, Push
<1>10. parse_enum_infos(p, size, base) = [p EXCEPT !.ptr = r.ptr, !.out = Append(p.out, r.out[2])]
  <2>1. p.st = "ok" /\ p.ptr = ptr
    BY <1>1 DEF At
  <2> QED
    BY <1>5, <1>7, <1>9, <2>1 DEF parse_enum_infos, Counted, Record, TimesEnum
<1>11. parse_enum_infos(p, size, base) = [p EXCEPT !.ptr = rest, !.out = Append(p.out, seq)]
  BY <1>9, <1>10
<1> QED
  BY <1>11, Wrapped

(* Enum values there only if a flag says so. *)
FlagEnums(p, k, mask, size, base) == Flagged(p, k, mask, LAMBDA q : parse_enum_infos(q, size, base))
SomeEnums(opt, size) == IF opt = None THEN <<>> ELSE EnumInfos(opt[1], size)

(* An optional section is a sequence of units. *)
LEMMA SomeEnumsType ==
  ASSUME NEW size \in Nat, NEW base \in Nat, NEW opt \in Option(Seq(EnumRecord(size, base)))
  PROVE  SomeEnums(opt, size) \in Seq(Int)
<1>1. CASE opt = <<>>
  BY <1>1 DEF SomeEnums, None
<1>2. CASE opt # <<>>
  <2>1. PICK x \in Seq(EnumRecord(size, base)) : opt[1] = x
    BY <1>2, OptionIs
  <2>2. SomeEnums(opt, size) = EnumInfos(x, size)
    BY <1>2, <2>1 DEF SomeEnums, None
  <2> QED
    BY <2>2, EnumsIs
<1> QED
  BY <1>1, <1>2

(* If the flag tells of the section, it is read as it was sent. *)
LEMMA FlagEnumsRead ==
  ASSUME NEW size \in Nat, NEW base \in Nat, NEW opt \in Option(Seq(EnumRecord(size, base))), NEW rest \in Seq(Int), NEW p, NEW o, NEW k, NEW mask,
         At(p, Join(SomeEnums(opt, size), rest), o), Bit(o[k], mask) <=> opt # None
  PROVE  At(FlagEnums(p, k, mask, size, base), rest, Push(o, opt))
<1>1. p.st = "ok" /\ p.out = o /\ p.ptr = Join(SomeEnums(opt, size), rest)
  BY DEF At
<1>2. CASE opt = <<>>
  <2>1. p.ptr = rest
    BY <1>1, <1>2, JoinNone DEF SomeEnums, None
  <2>2. FlagEnums(p, k, mask, size, base) = [p EXCEPT !.out = Append(p.out, <<>>)]
    BY <1>1, <1>2 DEF FlagEnums, Flagged, None
  <2> QED
    BY <1>1, <1>2, <2>1, <2>2 DEF At, Push
<1>3. CASE opt # <<>>
  <2>1. PICK x \in Seq(EnumRecord(size, base)) : opt = <<x>> /\ opt[1] = x
    BY <1>3, OptionIs
  <2>2. SomeEnums(opt, size) = EnumInfos(x, size)
    BY <1>3, <2>1 DEF SomeEnums, None
  <2>3. PICK r : r = parse_enum_infos(Start(p.ptr), size, base)
    OBVIOUS
  <2>4. At(r, rest, Push(<<>>, x))
    <3>1. At(Start(p.ptr), Join(EnumInfos(x, size), rest), <<>>)
      BY <1>1, <2>2, StartAt
    <3> QED
      BY <2>3, <3>1, EnumsRead
  <2>5. r.st = "ok" /\ r.ptr = rest /\ r.out = opt
    BY <2>1, <2>4 DEF At, Push
  <2>6. FlagEnums(p, k, mask, size, base) = [p EXCEPT !.ptr = r.ptr, !.out = Append(p.out, r.out)]
    BY <1>1, <1>3, <2>3, <2>5 DEF FlagEnums, Flagged, Record, None
  <2>7. FlagEnums(p, k, mask, size, base) = [p EXCEPT !.ptr = rest, !.out = Append(p.out, opt)]
    BY <2>5, <2>6
  <2> QED
    BY <2>7, Wrapped
<1> QED
  BY <1>2, <1>3

(* The elements of a list are sent as units. *)
LEMMA MethodsType ==
  ASSUME NEW seq \in Seq(MethodRecord)
  PROVE  Methods(seq) \in Seq(Int)
  BY MethodsIs

(* A section is sent if the flag tells of it. *)
LEMMA MethodsSent ==
  ASSUME NEW opt \in Option(Seq(MethodRecord)), NEW flags, Bit(flags, 2048) <=> opt # None
  PROVE  When(flags, 2048, List(opt, Methods)) = SomeMethods(opt)
<1>1. CASE opt = <<>>
  BY <1>1 DEF When, SomeMethods, None
<1>2. CASE opt # <<>>
  <2>1. PICK x \in Seq(MethodRecord) : opt = <<x>> /\ opt[1] = x
    BY <1>2, OptionIs
  <2>6. Methods(x) \in Seq(Int)
    BY MethodsType
  <2>2. PICK s \in Seq(Int) : s = Methods(x)
    BY <2>6
  <2>3. [k \in DOMAIN opt |-> Methods(opt[k])] = <<s>>
    BY <2>1, <2>2
  <2>4. List(opt, Methods) = FlattenSeq(<<s>>)
    BY <2>3 DEF List
  <2>5. List(opt, Methods) = s
    BY <2>4, FlattenOne
  <2> QED
    BY <1>2, <2>1, <2>2, <2>5 DEF When, SomeMethods, None
<1> QED
  BY <1>1, <1>2

EnumUnits(opt, size) == List(opt, LAMBDA es : EnumInfos(es, size))

(* A section is sent if the flag tells of it. *)
LEMMA EnumsSent ==
  ASSUME NEW size \in Nat, NEW base \in Nat, NEW opt \in Option(Seq(EnumRecord(size, base)))
  PROVE  EnumUnits(opt, size) = SomeEnums(opt, size)
<1>1. CASE opt = <<>>
  <2>1. [k \in DOMAIN opt |-> EnumInfos(opt[k], size)] = <<>>
    BY <1>1
  <2>2. EnumUnits(opt, size) = FlattenSeq(<<>>)
    BY <2>1 DEF EnumUnits, List
  <2> QED
    BY <1>1, <2>2, FlattenNone DEF SomeEnums, None
<1>2. CASE opt # <<>>
  <2>1. PICK x \in Seq(EnumRecord(size, base)) : opt = <<x>> /\ opt[1] = x
    BY <1>2, OptionIs
  <2>2. PICK s \in Seq(Int) : s = EnumInfos(x, size)
    BY EnumsIs
  <2>3. [k \in DOMAIN opt |-> EnumInfos(opt[k], size)] = <<s>>
    BY <2>1, <2>2
  <2>4. EnumUnits(opt, size) = FlattenSeq(<<s>>)
    BY <2>3 DEF EnumUnits, List
  <2>5. EnumUnits(opt, size) = s
    BY <2>4, FlattenOne
  <2> QED
    BY <1>2, <2>1, <2>2, <2>5 DEF SomeEnums, None
<1> QED
  BY <1>1, <1>2

-----------------------------------------------------------------------------
(* Types. *)

(* The body of a type's entry: h are the integers of its header, and s all *)
(* behind the fields.                                                      *)
TypeBody(t, h, body, s) ==
  /\ 11 = Len(h) /\ h[1] = 1 /\ h[3] = t.size /\ h[5] = t.base_type /\ h[6] = t.flags
  /\ h[7] = Len(t.name) /\ h[8] = Len(t.type_name) /\ h[9] = Len(t.comment)
  /\ h[10] = Len(t.array) /\ h[11] = Len(t.fields)
  /\ s = Join(t.guid, Join(Mask(t.flags, t.size), Join(SomeMethods(t.methods),
           Join(SomeAttributes(t.attributes), SomeEnums(t.enum_info, t.size)))))
  /\ body = Join(h, Join(Str(t.name), Join(Str(t.type_name), Join(Str(t.comment),
              Join(DimList(t.array), Join(FieldList(t.fields), s))))))

(* The types of what a type holds. *)
LEMMA TypeFacts ==
  ASSUME NEW t \in TypeRecord
  PROVE  /\ t.name \in String /\ t.type_name \in String /\ t.comment \in String
         /\ t.size \in Nat /\ t.array \in Seq(DimRecord) /\ t.fields \in Seq(FieldRecord)
         /\ t.base_type \in Nat /\ t.flags \in Nat /\ t.guid \in Option(Int)
         /\ t.methods \in Option(Seq(MethodRecord))
         /\ t.attributes \in Option(Seq(AttributeRecord))
         /\ t.enum_info \in Option(Seq(EnumRecord(t.size, t.base_type)))
<1>1. /\ t.name \in String /\ t.type_name \in String /\ t.comment \in String
      /\ t.size \in Nat /\ t.array \in Seq(DimRecord) /\ t.fields \in Seq(FieldRecord)
      /\ t.base_type \in Nat /\ t.flags \in Nat /\ t.guid \in Option(Nat)
      /\ t.methods \in Option(Seq(MethodRecord))
      /\ t.attributes \in Option(Seq(AttributeRecord))
      /\ t.enum_info \in Option(Seq([name : String, value : Int]))
      /\ \A es \in ToSet(t.enum_info) : \A e \in ToSet(es) : Representable(e.value, t.size, t.base_type)
  BY DEF TypeRecord
<1>2. t.guid \in Option(Int)
  BY <1>1 DEF Option
<1>3. t.enum_info \in Option(Seq(EnumRecord(t.size, t.base_type)))
  <2>1. CASE t.enum_info = <<>>
    BY <2>1 DEF Option
  <2>2. CASE t.enum_info # <<>>
    <3>5. PICK R : R = [name : String, value : Int]
      OBVIOUS
    <3>1. PICK x \in Seq(R) : t.enum_info = <<x>>
      BY <1>1, <2>2, <3>5, OptionIs
    <3>2. \A e \in ToSet(x) : Representable(e.value, t.size, t.base_type)
      <4>1. x \in ToSet(<<x>>)
        BY DEF ToSet
      <4> QED
        BY <1>1, <3>1, <4>1
    <3>3. \A i \in 1 .. Len(x) : x[i] \in EnumRecord(t.size, t.base_type)
      <4>1. ASSUME NEW i \in 1 .. Len(x) PROVE x[i] \in EnumRecord(t.size, t.base_type)
        <5>1. x[i] \in R
          OBVIOUS
        <5>2. x[i] \in ToSet(x)
          BY DEF ToSet
        <5> QED
          BY <3>2, <3>5, <5>1, <5>2 DEF EnumRecord
      <4> QED
        BY <4>1
    <3>4. x \in Seq(EnumRecord(t.size, t.base_type))
      BY <3>3
    <3> QED
      BY <3>1, <3>4 DEF Option
  <2> QED
    BY <2>1, <2>2
<1> QED
  BY <1>1, <1>2, <1>3

(* The flags of a type tell of its sections. *)
LEMMA TypeBits ==
  ASSUME NEW t \in TypeRecord
  PROVE  /\ Bit(t.flags, 128) <=> t.guid # None
         /\ Bit(t.flags, 2048) <=> t.methods # None
         /\ Bit(t.flags, AttributesFlag) <=> t.attributes # None
         /\ Bit(t.flags, 8192) <=> t.enum_info # None
  BY DEF TypeRecord

(* The same for longer chains. *)
LEMMA JoinFour ==
  ASSUME NEW a \in Seq(Int), NEW b \in Seq(Int), NEW c \in Seq(Int), NEW d \in Seq(Int)
  PROVE  Join(Join(Join(a, b), c), d) = Join(a, Join(b, Join(c, d)))
<1>1. Join(a, b) \in Seq(Int) /\ Join(c, d) \in Seq(Int)
  BY JoinType
<1>2. Join(Join(Join(a, b), c), d) = Join(Join(a, b), Join(c, d))
  BY <1>1, JoinAssoc
<1>3. Join(Join(a, b), Join(c, d)) = Join(a, Join(b, Join(c, d)))
  BY <1>1, JoinAssoc
<1> QED
  BY <1>2, <1>3

(* The sections and the enum values of a type. *)
LEMMA TypeSections ==
  ASSUME NEW t \in TypeRecord
  PROVE  \E tr \in Seq(Int), en \in Seq(Int) :
           /\ tr = Trailer(t.flags, t.size, t.guid, List(t.methods, Methods), List(t.attributes, Attributes))
           /\ en = EnumUnits(t.enum_info, t.size) /\ en = SomeEnums(t.enum_info, t.size)
           /\ Join(tr, en) = Join(t.guid, Join(Mask(t.flags, t.size), Join(SomeMethods(t.methods),
                               Join(SomeAttributes(t.attributes), en))))
<1>1. PICK si \in Nat, ba \in Nat : si = t.size /\ ba = t.base_type
  BY TypeFacts
<1>2. PICK gu, me, at, ei, fl : /\ gu = t.guid /\ me = t.methods /\ at = t.attributes
                                /\ ei = t.enum_info /\ fl = t.flags
  OBVIOUS
<1>3. /\ gu \in Option(Int) /\ me \in Option(Seq(MethodRecord))
      /\ at \in Option(Seq(AttributeRecord)) /\ ei \in Option(Seq(EnumRecord(si, ba)))
  BY <1>1, <1>2, TypeFacts
<1>4. PICK en : en = EnumUnits(ei, si)
  OBVIOUS
<1>5. en = SomeEnums(ei, si) /\ en \in Seq(Int)
  BY <1>3, <1>4, EnumsSent, SomeEnumsType
<1>6. PICK ms, us : ms = List(me, Methods) /\ us = List(at, Attributes)
  OBVIOUS
<1>7. When(fl, 128, gu) = gu
  BY <1>2, TypeBits DEF When, None
<1>8. When(fl, 2048, ms) = SomeMethods(me)
  BY <1>2, <1>3, <1>6, TypeBits, MethodsSent
<1>9. When(fl, AttributesFlag, us) = SomeAttributes(at)
  BY <1>2, <1>3, <1>6, TypeBits, AttributesSent
<1>10. PICK tr : tr = Trailer(fl, si, gu, ms, us)
  OBVIOUS
<1>11. TrailerSent(Trailer(fl, si, gu, ms, us), en, gu, fl, si, me, at)
  <2>1. en \in Seq(Int)
    BY <1>5
  <2> QED
    BY <1>3, <1>7, <1>8, <1>9, <2>1, TrailerIs
<1>12. tr \in Seq(Int) /\ Join(tr, en) = Join(gu, Join(Mask(fl, si), Join(SomeMethods(me), Join(SomeAttributes(at), en))))
  BY <1>10, <1>11 DEF TrailerSent
<1> QED
  BY <1>1, <1>2, <1>4, <1>5, <1>6, <1>10, <1>12

(* The parts a type is sent in. *)
LEMMA TypeIs ==
  ASSUME NEW t \in TypeRecord, NEW unused \in Int
  PROVE  \E h \in Seq(Int), body \in Seq(Int), s \in Seq(Int) :
           TypeBody(t, h, body, s) /\ TypeEntry(t, unused) = Framed(body)
<1>1. PICK n : n = Len(t.fields) /\ n \in Int
  BY TypeFacts
<1>2. PICK h : HeaderSent(t, unused, 0, t.type_name, n, h)
  <2>1. t.size \in Int /\ t.base_type \in Int /\ t.flags \in Int /\ 0 \in Int
    BY TypeFacts
  <2>2. t.name \in String /\ t.type_name \in String /\ t.comment \in String /\ t.array \in Seq(DimRecord)
    BY TypeFacts
  <2> QED
    BY <1>1, <2>1, <2>2, HeaderIs
<1>3. HeaderParts(t, 0, t.type_name, n, h)
  BY <1>2 DEF HeaderSent
<1>4. PICK a, b, c, d, f : /\ a = Str(t.name) /\ b = Str(t.type_name) /\ c = Str(t.comment)
                           /\ d = DimList(t.array) /\ f = FieldList(t.fields)
  OBVIOUS
<1>5. PICK hd : hd = Header(t, unused, 0, t.type_name, n)
  OBVIOUS
<1>6. hd = Join(h, Join(a, Join(b, Join(c, d))))
  BY <1>2, <1>4, <1>5 DEF HeaderSent
<1>7. a \in Seq(Int) /\ b \in Seq(Int) /\ c \in Seq(Int) /\ d \in Seq(Int) /\ f \in Seq(Int) /\ h \in Seq(Int)
  <2>1. t.name \in String /\ t.type_name \in String /\ t.comment \in String
        /\ t.array \in Seq(DimRecord) /\ t.fields \in Seq(FieldRecord)
    BY TypeFacts
  <2> QED
    BY <1>3, <1>4, <2>1, StrType, DimListType, FieldListType DEF HeaderParts
<1>8. hd \in Seq(Int)
  BY <1>6, <1>7, JoinFive
<1>20. ASSUME NEW w \in Seq(Int)
       PROVE  /\ Join(h, Join(a, Join(b, Join(c, Join(d, w))))) \in Seq(Int)
              /\ Join(Join(h, Join(a, Join(b, Join(c, d)))), w) = Join(h, Join(a, Join(b, Join(c, Join(d, w)))))
  <2>1. a \in Seq(Int) /\ b \in Seq(Int) /\ c \in Seq(Int) /\ d \in Seq(Int) /\ h \in Seq(Int)
    BY <1>7
  <2>2. Join(h, Join(a, Join(b, Join(c, Join(d, w))))) \in Seq(Int)
    BY <2>1, JoinSix
  <2>3. Join(Join(h, Join(a, Join(b, Join(c, d)))), w) = Join(h, Join(a, Join(b, Join(c, Join(d, w)))))
    BY <2>1, HeaderThen
  <2> QED
    BY <2>2, <2>3
<1>9. PICK tr \in Seq(Int), en \in Seq(Int) :
           /\ tr = Trailer(t.flags, t.size, t.guid, List(t.methods, Methods), List(t.attributes, Attributes))
           /\ en = EnumUnits(t.enum_info, t.size) /\ en = SomeEnums(t.enum_info, t.size)
           /\ Join(tr, en) = Join(t.guid, Join(Mask(t.flags, t.size), Join(SomeMethods(t.methods),
                               Join(SomeAttributes(t.attributes), en))))
  BY TypeSections
<1>10. PICK s \in Seq(Int) : s = Join(tr, en)
  BY JoinType
<1>15. PICK w \in Seq(Int) : w = Join(f, s)
  BY <1>7, JoinType
<1>11. PICK body : body = Join(h, Join(a, Join(b, Join(c, Join(d, w)))))
  OBVIOUS
<1>12. body \in Seq(Int)
  <2>1. Join(h, Join(a, Join(b, Join(c, Join(d, w))))) \in Seq(Int)
    BY <1>20
  <2> QED
    BY <1>11, <2>1
<1>13. TypeEntry(t, unused) = Framed(body)
  <2>1. TypeEntry(t, unused) = Framed(hd \o f \o tr \o en)
    BY <1>1, <1>4, <1>5, <1>9 DEF TypeEntry, FieldList, List, EnumUnits
  <2>2. TypeEntry(t, unused) = Framed(Join(Join(Join(hd, f), tr), en))
    BY <2>1 DEF Join
  <2>3. Join(Join(Join(hd, f), tr), en) = Join(hd, Join(f, Join(tr, en)))
    BY <1>7, <1>8, JoinFour
  <2>4. Join(Join(h, Join(a, Join(b, Join(c, d)))), w) = Join(h, Join(a, Join(b, Join(c, Join(d, w)))))
    BY <1>20
  <2>5. Join(hd, w) = body
    BY <1>6, <1>11, <2>4
  <2> QED
    BY <1>10, <1>15, <2>2, <2>3, <2>5
<1>14. TypeBody(t, h, body, s)
  BY <1>1, <1>3, <1>4, <1>9, <1>10, <1>11, <1>15 DEF TypeBody, HeaderParts
<1> QED
  BY <1>7, <1>12, <1>13, <1>14

(* What comes of the body of a type's entry: the type, or a panic, if an   *)
(* array ends at the largest index and overflows are checked.              *)
Decodes(t, c, r) ==
  \/ r.st = "ok" /\ Type(r.out) = t
  \/ c /\ EndsAtMax(t) /\ r.st = "panic"

(* An array that overflows is one that ends at i32::MAX. *)
LEMMA ArraysBad ==
  ASSUME NEW t, NEW c, ArrayBad(t.array, c) \/ FieldsBad(t.fields, c)
  PROVE  c /\ EndsAtMax(t)
<1>1. CASE ArrayBad(t.array, c)
  BY <1>1 DEF ArrayBad, EndsAtMax
<1>2. CASE FieldsBad(t.fields, c)
  <2>1. PICK f \in ToSet(t.fields) : ArrayBad(f.array, c)
    BY <1>2 DEF FieldsBad
  <2>2. c /\ \E a \in ToSet(f.array) : a[2] = I32Max
    BY <2>1 DEF ArrayBad
  <2>3. PICK a \in ToSet(f.array) : a[2] = I32Max
    BY <2>2
  <2>4. ToSet(f.array) \in {ToSet(g.array) : g \in ToSet(t.fields)}
    OBVIOUS
  <2>5. a \in UNION {ToSet(g.array) : g \in ToSet(t.fields)}
    BY <2>3, <2>4
  <2> QED
    BY <2>2, <2>3, <2>5 DEF EndsAtMax
<1> QED
  BY <1>1, <1>2

(* The parts of decode_type_info. *)
LEMMA TypeSteps ==
  ASSUME NEW p, NEW c, NEW q, q = TimesField(TypeHeader(p, c), 11, c), NEW s, s = Sections(q)
  PROVE  decode_type_info(p, c) = FlagEnums(s, 6, 8192, s.out[3], s.out[5])
  BY DEF decode_type_info, TimesField, FlagEnums

(* A panic in the header or in a field is one of the whole decoder. *)
LEMMA TypePanics ==
  ASSUME NEW p, NEW c, Panics(TypeHeader(p, c)) \/ Panics(TimesField(TypeHeader(p, c), 11, c))
  PROVE  decode_type_info(p, c).st = "panic"
<1>0. PICK h : h = TypeHeader(p, c)
  OBVIOUS
<1>1. PICK q : q = TimesField(h, 11, c)
  OBVIOUS
<1>2. Panics(q)
  <2>1. CASE Panics(h)
    BY <1>1, <2>1 DEF TimesField, Times, Panics
  <2> QED
    BY <1>0, <1>1, <2>1
<1>3. PICK s : s = Sections(q)
  OBVIOUS
<1>4. Panics(s)
  BY <1>2, <1>3, SectionsPanic
<1>5. decode_type_info(p, c) = FlagEnums(s, 6, 8192, s.out[3], s.out[5])
  BY <1>0, <1>1, <1>3, TypeSteps
<1>6. FlagEnums(s, 6, 8192, s.out[3], s.out[5]) = s
  BY <1>4 DEF FlagEnums, Flagged, Panics
<1> QED
  BY <1>4, <1>5, <1>6 DEF Panics

(* All of a type behind its header, once the header has been read. *)
LEMMA TypeRest ==
  ASSUME NEW c, NEW t \in TypeRecord, NEW h, NEW body, NEW s \in Seq(Int),
         TypeBody(t, h, body, s), NEW p, NEW x, NEW ptr, ptr = Join(FieldList(t.fields), s),
         ReadHeader(TypeHeader(p, c), ptr, h, t.name, t.type_name, t.comment, t.array)
  PROVE  Decodes(t, c, decode_type_info(p, c))
<1>1. PICK hd : hd = TypeHeader(p, c)
  OBVIOUS
<1>2. PICK o : /\ At(hd, ptr, o) /\ Holds(o, 15) /\ \A i \in 1 .. 11 : o[i] = h[i]
               /\ o[12] = t.name /\ o[13] = t.type_name /\ o[14] = t.comment /\ o[15] = t.array
  BY <1>1 DEF ReadHeader
<1>3. o[3] = t.size /\ o[5] = t.base_type /\ o[6] = t.flags /\ o[11] = Len(t.fields)
  <2>1. 3 \in 1 .. 11 /\ 5 \in 1 .. 11 /\ 6 \in 1 .. 11 /\ 11 \in 1 .. 11
    OBVIOUS
  <2>2. o[3] = h[3] /\ o[5] = h[5] /\ o[6] = h[6] /\ o[11] = h[11]
    BY <1>2, <2>1
  <2>3. h[3] = t.size /\ h[5] = t.base_type /\ h[6] = t.flags /\ h[11] = Len(t.fields)
    BY DEF TypeBody
  <2> QED
    BY <2>2, <2>3
<1>4. PICK q : q = TimesField(hd, 11, c)
  OBVIOUS
<1>5. PICK fs : fs = t.fields
  OBVIOUS
<1>6. fs \in Seq(FieldRecord)
  BY <1>5, TypeFacts
<1>7. At(q, s, Push(o, fs)) \/ (FieldsBad(fs, c) /\ Panics(q))
  <2>1. At(hd, Join(FieldList(fs), s), o) /\ o[11] = Len(fs)
    BY <1>2, <1>3, <1>5
  <2>2. At(TimesField(hd, 11, c), s, Push(o, fs)) \/ (FieldsBad(fs, c) /\ Panics(TimesField(hd, 11, c)))
    BY <1>6, <2>1, ReadFields
  <2> QED
    BY <1>4, <2>2
<1>8. CASE FieldsBad(fs, c) /\ Panics(q)
  <2>1. decode_type_info(p, c).st = "panic"
    BY <1>1, <1>4, <1>8, TypePanics
  <2>2. c /\ EndsAtMax(t)
    BY <1>5, <1>8, ArraysBad
  <2> QED
    BY <2>1, <2>2 DEF Decodes
<1>9. CASE At(q, s, Push(o, fs))
  <2>1. PICK x1 : x1 = Push(o, fs)
    OBVIOUS
  <2>2. Extends(x1, o, 15, fs)
    BY <1>2, <2>1, Pushed
  <2>3. Holds(x1, 16) /\ x1[16] = fs /\ \A i \in 1 .. 15 : x1[i] = o[i]
    <3>1. 15 + 1 = 16
      OBVIOUS
    <3> QED
      BY <2>2, <3>1 DEF Extends
  <2>4. PICK n \in Nat, si \in Nat, ba \in Nat : n = 16 /\ si = t.size /\ ba = t.base_type
    BY TypeFacts
  <2>5. PICK gu, me, at, ei, fl : /\ gu = t.guid /\ me = t.methods /\ at = t.attributes
                                  /\ ei = t.enum_info /\ fl = t.flags
    OBVIOUS
  <2>6. /\ gu \in Option(Int) /\ me \in Option(Seq(MethodRecord))
        /\ at \in Option(Seq(AttributeRecord)) /\ ei \in Option(Seq(EnumRecord(si, ba)))
    BY <2>4, <2>5, TypeFacts
  <2>7. PICK en : en = SomeEnums(ei, si)
    OBVIOUS
  <2>8. en \in Seq(Int)
    BY <2>6, <2>7, SomeEnumsType
  <2>9. s = Join(gu, Join(Mask(fl, si), Join(SomeMethods(me), Join(SomeAttributes(at), en))))
    BY <2>4, <2>5, <2>7 DEF TypeBody
  <2>10. x1[3] = si /\ x1[6] = fl /\ x1[5] = ba
    <3>1. 3 \in 1 .. 15 /\ 5 \in 1 .. 15 /\ 6 \in 1 .. 15
      OBVIOUS
    <3>2. x1[3] = o[3] /\ x1[5] = o[5] /\ x1[6] = o[6]
      BY <2>3, <3>1
    <3> QED
      BY <1>3, <2>4, <2>5, <3>2
  <2>11. PICK z : z = Sections(q)
    OBVIOUS
  <2>12. ReadSections(z, en, x1, n, gu, me, at)
    <3>1. n >= 6 /\ Holds(x1, n)
      BY <2>3, <2>4
    <3>2. x1[3] = si /\ x1[6] = fl
      BY <2>10
    <3>3. (Bit(fl, 128) <=> gu # None) /\ (Bit(fl, 2048) <=> me # None)
          /\ (Bit(fl, AttributesFlag) <=> at # None)
      BY <2>5, TypeBits
    <3>4. At(q, Join(gu, Join(Mask(fl, si), Join(SomeMethods(me), Join(SomeAttributes(at), en)))), x1)
      BY <1>9, <2>1, <2>9
    <3>5. ReadSections(Sections(q), en, x1, n, gu, me, at)
      BY <2>6, <2>8, <3>1, <3>2, <3>3, <3>4, SectionsRead, SMTT(30)
    <3> QED
      BY <2>11, <3>5
  <2>13. PICK y : /\ At(z, en, y) /\ Holds(y, 20) /\ \A i \in 1 .. 16 : y[i] = x1[i]
                  /\ y[17] = gu /\ y[19] = me /\ y[20] = at
    <3>1. n + 1 = 17 /\ n + 3 = 19 /\ n + 4 = 20 /\ n = 16
      BY <2>4
    <3> QED
      BY <2>12, <3>1 DEF ReadSections
  <2>14. \A i \in {3, 5, 6, 12, 13, 14, 15} : y[i] = o[i]
    <3>1. \A i \in {3, 5, 6, 12, 13, 14, 15} : i \in 1 .. 15 /\ i \in 1 .. 16
      OBVIOUS
    <3> QED
      BY <2>3, <2>13, <3>1
  <2>15. y[16] = fs
    <3>1. 16 \in 1 .. 16
      OBVIOUS
    <3> QED
      BY <2>3, <2>13, <3>1
  <2>16. /\ y[3] = si /\ y[5] = ba /\ y[6] = fl /\ y[12] = t.name /\ y[13] = t.type_name
         /\ y[14] = t.comment /\ y[15] = t.array
    BY <1>2, <1>3, <2>4, <2>5, <2>14
  <2>17. z.out = y
    BY <2>13 DEF At
  <2>18. PICK r : r = decode_type_info(p, c)
    OBVIOUS
  <2>19. r = FlagEnums(z, 6, 8192, si, ba)
    <3>1. decode_type_info(p, c) = FlagEnums(z, 6, 8192, z.out[3], z.out[5])
      BY <1>1, <1>4, <2>11, TypeSteps
    <3>2. z.out[3] = si /\ z.out[5] = ba
      BY <2>16, <2>17
    <3> QED
      BY <2>18, <3>1, <3>2
  <2>20. At(r, <<>>, Push(y, ei))
    <3>1. At(z, Join(SomeEnums(ei, si), <<>>), y)
      BY <2>7, <2>8, <2>13, JoinNone
    <3>2. Bit(y[6], 8192) <=> ei # None
      BY <2>5, <2>16, TypeBits
    <3>3. PICK e \in Seq(Int) : e = <<>>
      BY EmptySeq
    <3>4. At(z, Join(SomeEnums(ei, si), e), y)
      BY <3>1, <3>3
    <3>5. At(FlagEnums(z, 6, 8192, si, ba), e, Push(y, ei))
      BY <2>6, <3>2, <3>4, FlagEnumsRead
    <3> QED
      BY <2>19, <3>3, <3>5
  <2>21. PICK w : w = Push(y, ei)
    OBVIOUS
  <2>22. Extends(w, y, 20, ei)
    BY <2>13, <2>21, Pushed
  <2>23. w[21] = ei /\ \A i \in 1 .. 20 : w[i] = y[i]
    <3>1. 20 + 1 = 21
      OBVIOUS
    <3> QED
      BY <2>22, <3>1 DEF Extends
  <2>24. \A i \in {3, 5, 6, 12, 13, 14, 15, 16, 17, 19, 20} : w[i] = y[i]
    <3>1. \A i \in {3, 5, 6, 12, 13, 14, 15, 16, 17, 19, 20} : i \in 1 .. 20
      OBVIOUS
    <3> QED
      BY <2>23, <3>1
  <2>25. /\ w[3] = t.size /\ w[5] = t.base_type /\ w[6] = t.flags /\ w[12] = t.name
         /\ w[13] = t.type_name /\ w[14] = t.comment /\ w[15] = t.array /\ w[16] = t.fields
         /\ w[17] = t.guid /\ w[19] = t.methods /\ w[20] = t.attributes /\ w[21] = t.enum_info
    BY <1>5, <2>4, <2>5, <2>13, <2>15, <2>16, <2>23, <2>24
  <2>26. Type(w) = [name |-> t.name, type_name |-> t.type_name, comment |-> t.comment,
                    size |-> t.size, array |-> t.array, fields |-> t.fields,
                    base_type |-> t.base_type, flags |-> t.flags, guid |-> t.guid,
                    methods |-> t.methods, attributes |-> t.attributes, enum_info |-> t.enum_info]
    BY <2>25 DEF Type
  <2>27. Type(w) = t
    BY <2>26 DEF TypeRecord
  <2>28. r.st = "ok" /\ r.out = w
    BY <2>20, <2>21 DEF At
  <2> QED
    BY <2>18, <2>27, <2>28 DEF Decodes
<1> QED
  BY <1>7, <1>8, <1>9

(* A type's body is decoded to that type. *)
LEMMA TypeRead ==
  ASSUME NEW c, NEW t \in TypeRecord, NEW h \in Seq(Int), NEW body \in Seq(Int), NEW s \in Seq(Int),
         TypeBody(t, h, body, s)
  PROVE  Decodes(t, c, decode_type_info(Start(body), c))
<1>1. PICK p : p = Start(body)
  OBVIOUS
<1>2. At(p, body, <<>>)
  BY <1>1, StartAt
<1>3. PICK ptr : ptr = Join(FieldList(t.fields), s)
  OBVIOUS
<1>4. ptr \in Seq(Int)
  BY <1>3, TypeFacts, FieldListType, JoinType
<1>5. PICK a, b, d, ar : a = t.name /\ b = t.type_name /\ d = t.comment /\ ar = t.array
  OBVIOUS
<1>6. a \in String /\ b \in String /\ d \in String /\ ar \in Seq(DimRecord)
  BY <1>5, TypeFacts
<1>7. /\ 11 = Len(h) /\ h[1] = 1
      /\ h[7] = Len(a) /\ h[8] = Len(b) /\ h[9] = Len(d) /\ h[10] = Len(ar)
  BY <1>5 DEF TypeBody
<1>8. At(p, Join(h, Join(Str(a), Join(Str(b), Join(Str(d), Join(DimList(ar), ptr))))), <<>>)
  BY <1>2, <1>3, <1>5 DEF TypeBody
<1>9. \/ ReadHeader(TypeHeader(p, c), ptr, h, a, b, d, ar)
      \/ ArrayBad(ar, c) /\ Panics(TypeHeader(p, c))
  BY <1>4, <1>6, <1>7, <1>8, HeaderRead
<1>10. CASE ReadHeader(TypeHeader(p, c), ptr, h, a, b, d, ar)
  BY <1>1, <1>3, <1>5, <1>10, TypeRest
<1>11. CASE ArrayBad(ar, c) /\ Panics(TypeHeader(p, c))
  <2>1. decode_type_info(p, c).st = "panic"
    BY <1>11, TypePanics
  <2>2. c /\ EndsAtMax(t)
    BY <1>5, <1>11, ArraysBad
  <2> QED
    BY <1>1, <2>1, <2>2 DEF Decodes
<1> QED
  BY <1>9, <1>10, <1>11

(* What comes of an entry whose parser ends with r. *)
LEMMA TypeOpened ==
  ASSUME NEW ptr, NEW body, NEW rest, Opens(ptr, body, rest),
         NEW r, r = decode_type_info(Start(body), checks)
  PROVE  /\ r.st = "ok" => At(TypeAt(ptr), rest, <<Type(r.out)>>)
         /\ r.st # "ok" => TypeAt(ptr).st = r.st
<1>1. PICK s : s = Start(ptr)
  OBVIOUS
<1>2. s.st = "ok" /\ s.ptr = ptr /\ s.out = <<>> /\ At(s, ptr, <<>>) /\ s = [st |-> "ok", ptr |-> ptr, out |-> <<>>]
  BY <1>1, StartAt DEF Start
<1>3. CASE r.st = "ok"
  <2>1. TypeAt(ptr) = [s EXCEPT !.ptr = rest, !.out = Append(s.out, Type(r.out))]
    BY <1>1, <1>2, <1>3 DEF TypeAt, EntryOr, Opens
  <2>2. At(TypeAt(ptr), rest, Push(<<>>, Type(r.out)))
    BY <1>2, <2>1, Wrapped
  <2>3. Push(<<>>, Type(r.out)) = <<Type(r.out)>>
    BY DEF Push
  <2> QED
    BY <1>3, <2>2, <2>3
<1>4. CASE r.st # "ok"
  <2>1. TypeAt(ptr) = Stop(s, r.st)
    BY <1>1, <1>2, <1>4 DEF TypeAt, EntryOr, Opens
  <2> QED
    BY <1>2, <1>4, <2>1 DEF Stop
<1> QED
  BY <1>3, <1>4

(* An entry of the symbol table is decoded on its own. *)
LEMMA SymbolOpened ==
  ASSUME NEW ptr, NEW body, NEW rest, Opens(ptr, body, rest),
         NEW r, r = decode_symbol(Start(body))
  PROVE  /\ r.st = "ok" => At(SymbolAt(ptr), rest, <<Symbol(r.out)>>)
         /\ r.st # "ok" => SymbolAt(ptr).st = r.st
<1>1. PICK s : s = Start(ptr)
  OBVIOUS
<1>2. s.st = "ok" /\ s.ptr = ptr /\ s.out = <<>> /\ At(s, ptr, <<>>) /\ s = [st |-> "ok", ptr |-> ptr, out |-> <<>>]
  BY <1>1, StartAt DEF Start
<1>3. CASE r.st = "ok"
  <2>1. SymbolAt(ptr) = [s EXCEPT !.ptr = rest, !.out = Append(s.out, Symbol(r.out))]
    BY <1>1, <1>2, <1>3 DEF SymbolAt, EntryOr, Opens
  <2>2. At(SymbolAt(ptr), rest, Push(<<>>, Symbol(r.out)))
    BY <1>2, <2>1, Wrapped
  <2>3. Push(<<>>, Symbol(r.out)) = <<Symbol(r.out)>>
    BY DEF Push
  <2> QED
    BY <1>3, <2>2, <2>3
<1>4. CASE r.st # "ok"
  <2>1. SymbolAt(ptr) = Stop(s, r.st)
    BY <1>1, <1>2, <1>4 DEF SymbolAt, EntryOr, Opens
  <2> QED
    BY <1>2, <1>4, <2>1 DEF Stop
<1> QED
  BY <1>3, <1>4

(* An entry of which only a part is there. *)
Short(ptr) == ptr # <<>> /\ ptr[1] # 0 /\ ~SplitFits(Tail(ptr), ptr[1] - 1)

(* An entry that is cut off panics: its length is beyond the table. *)
LEMMA ShortPanics ==
  ASSUME NEW ptr, Short(ptr)
  PROVE  TypeAt(ptr).st = "panic" /\ SymbolAt(ptr).st = "panic"
<1>1. PICK s : s = Start(ptr)
  OBVIOUS
<1>2. s.st = "ok" /\ s.ptr = ptr /\ s = [st |-> "ok", ptr |-> ptr, out |-> <<>>]
  BY <1>1 DEF Start
<1>3. TypeAt(ptr) = Stop(s, "panic")
  BY <1>1, <1>2 DEF TypeAt, EntryOr, Short
<1>4. SymbolAt(ptr) = Stop(s, "panic")
  BY <1>1, <1>2 DEF SymbolAt, EntryOr, Short
<1> QED
  BY <1>2, <1>3, <1>4 DEF Stop

(* Symbols. *)
SymbolBody(s, h, tail, body) ==
  /\ 9 = Len(h) /\ h[1] = s.ix_group /\ h[2] = s.ix_offset /\ h[3] = s.size
  /\ h[4] = s.base_type /\ h[5] = s.flags /\ h[7] = Len(s.name) /\ h[8] = Len(s.typ)
  /\ body = Join(h, Join(Str(s.name), Join(Str(s.typ), tail)))

(* The parts a symbol is sent in. *)
LEMMA SymbolIs ==
  ASSUME NEW s \in SymbolRecord
  PROVE  \E h \in Seq(Int), tail \in Seq(Int), body \in Seq(Int) :
           SymbolBody(s, h, tail, body) /\ SymbolEntry(s) = Framed(body)
<1>1. /\ s.name \in String /\ s.typ \in String /\ s.ix_group \in Nat /\ s.ix_offset \in Nat
      /\ s.size \in Nat /\ s.base_type \in Nat /\ s.flags \in Nat
  BY DEF SymbolRecord
<1>2. PICK n, m : n = Len(s.name) /\ m = Len(s.typ)
  OBVIOUS
<1>3. n \in Int /\ m \in Int
  BY <1>1, <1>2, StrType
<1>4. PICK h : h = <<s.ix_group, s.ix_offset, s.size, s.base_type, s.flags, 0, n, m, 1>>
  OBVIOUS
<1>5. h \in Seq(Int)
  BY <1>1, <1>3, <1>4
<1>6. 9 = Len(h) /\ h[1] = s.ix_group /\ h[2] = s.ix_offset /\ h[3] = s.size
      /\ h[4] = s.base_type /\ h[5] = s.flags /\ h[7] = n /\ h[8] = m
  BY <1>4
<1>7. PICK a, b, d : a = Str(s.name) /\ b = Str(s.typ) /\ d = Str(<<9>>)
  OBVIOUS
<1>8. a \in Seq(Int) /\ b \in Seq(Int)
  BY <1>1, <1>7, StrType
<1>9. d \in Seq(Int)
  BY <1>7 DEF Str
<1>10. SymbolEntry(s) = Framed(h \o a \o b \o d)
  BY <1>2, <1>4, <1>7 DEF SymbolEntry
<1>11. SymbolEntry(s) = Framed(Join(Join(Join(h, a), b), d))
  BY <1>10 DEF Join
<1>12. Join(Join(Join(h, a), b), d) = Join(h, Join(a, Join(b, d)))
  BY <1>5, <1>8, <1>9, JoinFour
<1>13. PICK body : body = Join(h, Join(a, Join(b, d)))
  OBVIOUS
<1>14. body \in Seq(Int)
  <2>1. Join(b, d) \in Seq(Int)
    BY <1>8, <1>9, JoinType
  <2>2. Join(a, Join(b, d)) \in Seq(Int)
    BY <1>8, <2>1, JoinType
  <2>3. Join(h, Join(a, Join(b, d))) \in Seq(Int)
    BY <1>5, <2>2, JoinType
  <2> QED
    BY <1>13, <2>3
<1>15. SymbolBody(s, h, d, body)
  BY <1>2, <1>6, <1>7, <1>13 DEF SymbolBody
<1>16. SymbolEntry(s) = Framed(body)
  BY <1>11, <1>12, <1>13
<1> QED
  BY <1>5, <1>9, <1>14, <1>15, <1>16

(* A symbol's body is decoded to that symbol. *)
LEMMA SymbolRead ==
  ASSUME NEW s \in SymbolRecord, NEW h \in Seq(Int), NEW tail \in Seq(Int), NEW body \in Seq(Int),
         SymbolBody(s, h, tail, body)
  PROVE  decode_symbol(Start(body)).st = "ok" /\ Symbol(decode_symbol(Start(body)).out) = s
<1>1. PICK p : p = Start(body)
  OBVIOUS
<1>2. PICK a, b : a = s.name /\ b = s.typ
  OBVIOUS
<1>3. a \in String /\ b \in String
  BY <1>2 DEF SymbolRecord
<1>4. At(p, Join(h, Join(Str(a), Join(Str(b), tail))), <<>>)
  BY <1>1, <1>2, StartAt DEF SymbolBody
<1>5. PICK n : n = 9
  OBVIOUS
<1>6. n = Len(h) /\ 7 \in 1 .. n /\ 8 \in 1 .. n /\ h[7] = Len(a) /\ h[8] = Len(b)
  BY <1>2, <1>5 DEF SymbolBody
<1>7. ReadTwo(read_str(read_str(Ints(p, n), 7), 8), tail, h, n, a, b)
  BY <1>3, <1>4, <1>6, TwoStrings
<1>8. PICK r : r = decode_symbol(Start(body))
  OBVIOUS
<1>9. ReadTwo(r, tail, h, 9, a, b)
  BY <1>1, <1>5, <1>7, <1>8 DEF decode_symbol
<1>10. PICK o : /\ At(r, tail, o) /\ \A i \in 1 .. 9 : o[i] = h[i]
                /\ o[10] = a /\ o[11] = b
  <2>1. 9 + 1 = 10 /\ 9 + 2 = 11
    OBVIOUS
  <2> QED
    BY <1>9, <2>1 DEF ReadTwo
<1>11. o[1] = h[1] /\ o[2] = h[2] /\ o[3] = h[3] /\ o[4] = h[4] /\ o[5] = h[5]
  <2>1. \A i \in {1, 2, 3, 4, 5} : i \in 1 .. 9
    OBVIOUS
  <2> QED
    BY <1>10, <2>1
<1>12. r.st = "ok" /\ r.out = o
  BY <1>10 DEF At
<1>13. h[1] = s.ix_group /\ h[2] = s.ix_offset /\ h[3] = s.size /\ h[4] = s.base_type /\ h[5] = s.flags
  BY DEF SymbolBody
<1>14. Symbol(o) = [name |-> s.name, ix_group |-> s.ix_group, ix_offset |-> s.ix_offset,
                    typ |-> s.typ, size |-> s.size, base_type |-> s.base_type, flags |-> s.flags]
  BY <1>2, <1>10, <1>11, <1>13 DEF Symbol
<1>15. Symbol(o) = s
  BY <1>14 DEF SymbolRecord
<1> QED
  BY <1>8, <1>12, <1>15

-----------------------------------------------------------------------------
(* Entries of a table. *)

(* An entry that says how long it is, with that body. *)
Whole(e, body) == body \in Seq(Int) /\ e = Framed(body)

(* Reading an entry of a type, and of a symbol, to the end. *)
LEMMA TypeEntryRead ==
  ASSUME NEW t \in TypeRecord, NEW unused \in Int
  PROVE  \E body : /\ Whole(TypeEntry(t, unused), body)
                   /\ \A c : Decodes(t, c, decode_type_info(Start(body), c))
<1>1. PICK h \in Seq(Int), body \in Seq(Int), s \in Seq(Int) :
        TypeBody(t, h, body, s) /\ TypeEntry(t, unused) = Framed(body)
  BY TypeIs
<1>2. ASSUME NEW c PROVE Decodes(t, c, decode_type_info(Start(body), c))
  BY <1>1, TypeRead
<1>3. Whole(TypeEntry(t, unused), body)
  BY <1>1 DEF Whole
<1> QED
  BY <1>2, <1>3

(* Reading an entry of a symbol to the end. *)
LEMMA SymbolEntryRead ==
  ASSUME NEW s \in SymbolRecord
  PROVE  \E body : /\ Whole(SymbolEntry(s), body)
                   /\ decode_symbol(Start(body)).st = "ok"
                   /\ Symbol(decode_symbol(Start(body)).out) = s
<1>1. PICK h \in Seq(Int), tail \in Seq(Int), body \in Seq(Int) :
        SymbolBody(s, h, tail, body) /\ SymbolEntry(s) = Framed(body)
  BY SymbolIs
<1>2. decode_symbol(Start(body)).st = "ok" /\ Symbol(decode_symbol(Start(body)).out) = s
  BY <1>1, SymbolRead
<1>3. Whole(SymbolEntry(s), body)
  BY <1>1 DEF Whole
<1> QED
  BY <1>2, <1>3

(* es are entries, each of which says how long it is. *)
Sound(es) == es \in Seq(Seq(Int)) /\ \A k \in 1 .. Len(es) : \E body : Whole(es[k], body)

(* A decoder has read m of the entries es; ptr is left of what arrived,    *)
(* and tail is what did not arrive.                                        *)
Left(es, m, ptr, tail) ==
  /\ m \in 0 .. Len(es) /\ ptr \in Seq(Int) /\ tail \in Seq(Int)
  /\ \E R \in [0 .. Len(es) -> Seq(Int)] :
       Leaves(es, Len(es), R) /\ R[Len(es)] = <<>> /\ R[m] = Join(ptr, tail)

(* At the start all entries are left. *)
LEMMA LeftStart ==
  ASSUME NEW es, Sound(es), NEW ptr \in Seq(Int), NEW tail \in Seq(Int), Join(ptr, tail) = FlattenSeq(es)
  PROVE  Left(es, 0, ptr, tail)
<1>1. es \in Seq(Seq(Int)) /\ 0 \in 0 .. Len(es)
  BY DEF Sound
<1>2. PICK e \in Seq(Int) : e = <<>>
  BY EmptySeq
<1>3. PICK R \in [0 .. Len(es) -> Seq(Int)] :
              /\ Leaves(es, Len(es), R)
              /\ R[Len(es)] = e
              /\ R[0] = Join(FlattenSeq(es), e)
  BY <1>1, Peel
<1>4. FlattenSeq(es) \in Seq(Int)
  BY <1>1, Peel
<1>5. R[0] = FlattenSeq(es)
  BY <1>2, <1>3, <1>4, JoinNone
<1> QED
  BY <1>1, <1>2, <1>3, <1>5 DEF Left

(* s is a with b behind it, member by member. *)
Joined(s, a, b) ==
  /\ s \in Seq(Int) /\ Len(s) = Len(a) + Len(b)
  /\ \A i \in 1 .. Len(a) : s[i] = a[i]
  /\ \A i \in 1 .. Len(b) : s[Len(a) + i] = b[i]

(* Joining, by positions. *)
LEMMA JoinAt ==
  ASSUME NEW a \in Seq(Int), NEW b \in Seq(Int)
  PROVE  Joined(Join(a, b), a, b)
<1>1. PICK s : s = a \o b
  OBVIOUS
<1>2. /\ s \in Seq(Int) /\ Len(s) = Len(a) + Len(b)
      /\ \A i \in 1 .. Len(a) + Len(b) : s[i] = IF i <= Len(a) THEN a[i] ELSE b[i - Len(a)]
  BY <1>1, ConcatProperties
<1>3. PICK m \in Nat, n \in Nat : m = Len(a) /\ n = Len(b)
  OBVIOUS
<1>4. ASSUME NEW i \in 1 .. m PROVE s[i] = a[i]
  <2>1. i \in 1 .. m + n /\ i <= m
    OBVIOUS
  <2> QED
    BY <1>2, <1>3, <2>1
<1>5. ASSUME NEW i \in 1 .. n PROVE s[m + i] = b[i]
  <2>1. m + i \in 1 .. m + n /\ ~(m + i <= m) /\ (m + i) - m = i
    OBVIOUS
  <2> QED
    BY <1>2, <1>3, <2>1
<1> QED
  BY <1>1, <1>2, <1>3, <1>4, <1>5 DEF Join, Joined

(* Joining, by positions. *)
LEMMA JoinedIs ==
  ASSUME NEW a \in Seq(Int), NEW b \in Seq(Int), NEW s, Joined(s, a, b)
  PROVE  s = Join(a, b)
<1>1. PICK t : t = Join(a, b)
  OBVIOUS
<1>2. Joined(t, a, b)
  BY <1>1, JoinAt
<1>3. PICK m \in Nat, n \in Nat : m = Len(a) /\ n = Len(b)
  OBVIOUS
<1>4. s \in Seq(Int) /\ t \in Seq(Int) /\ Len(s) = m + n /\ Len(t) = m + n
  BY <1>2, <1>3 DEF Joined
<1>5. ASSUME NEW i \in 1 .. m + n PROVE s[i] = t[i]
  <2>1. CASE i \in 1 .. m
    BY <1>2, <1>3, <2>1 DEF Joined
  <2>2. CASE i \notin 1 .. m
    <3>1. i - m \in 1 .. n /\ m + (i - m) = i
      BY <2>2
    <3>2. s[m + (i - m)] = b[i - m] /\ t[m + (i - m)] = b[i - m]
      BY <1>2, <1>3, <3>1 DEF Joined
    <3> QED
      BY <3>1, <3>2
  <2> QED
    BY <2>1, <2>2
<1> QED
  BY <1>1, <1>4, <1>5, SeqEqual

(* Two ways to split a sequence. *)
LEMMA SplitLong ==
  ASSUME NEW a \in Seq(Int), NEW b \in Seq(Int), NEW x \in Seq(Int), NEW y \in Seq(Int),
         Join(a, b) = Join(x, y), Len(x) <= Len(a)
  PROVE  \E z \in Seq(Int) : a = Join(x, z) /\ Join(z, b) = y
<1>1. PICK z : z = SubSeq(a, Len(x) + 1, Len(a))
  OBVIOUS
<1>2. PICK na \in Nat, nb \in Nat, nx \in Nat, ny \in Nat :
        na = Len(a) /\ nb = Len(b) /\ nx = Len(x) /\ ny = Len(y)
  OBVIOUS
<1>3. PICK s : s = Join(a, b)
  OBVIOUS
<1>4. Joined(s, a, b) /\ Joined(s, x, y)
  BY <1>3, JoinAt
<1>5. /\ na + nb = nx + ny /\ nx <= na
      /\ \A i \in 1 .. na : s[i] = a[i]
      /\ \A i \in 1 .. nb : s[na + i] = b[i]
      /\ \A i \in 1 .. nx : s[i] = x[i]
      /\ \A i \in 1 .. ny : s[nx + i] = y[i]
  BY <1>2, <1>4 DEF Joined
<1>6. PICK nz \in Nat : nz = na - nx
  BY <1>5
<1>7. z \in Seq(Int) /\ Len(z) = nz /\ \A i \in 1 .. nz : z[i] = a[nx + i]
  <2>1. \A i \in nx + 1 .. na : i \in 1 .. na
    OBVIOUS
  <2>2. \A i \in nx + 1 .. na : a[i] \in Int
    BY <1>2, <2>1
  <2>3. na - (nx + 1) + 1 = nz /\ (nx + 1 <= na <=> nz # 0) /\ nx + 1 \in Int /\ na \in Int
    BY <1>6
  <2>4. /\ z \in Seq(Int) /\ Len(z) = IF nx + 1 <= na THEN na - (nx + 1) + 1 ELSE 0
        /\ \A i \in 1 .. na - (nx + 1) + 1 : z[i] = a[(nx + 1) + i - 1]
    <3>1. z = SubSeq(a, nx + 1, na)
      BY <1>1, <1>2
    <3> QED
      BY <2>2, <2>3, <3>1, SubSeqProperties
  <2>5. \A i \in 1 .. nz : (nx + 1) + i - 1 = nx + i
    OBVIOUS
  <2> QED
    BY <2>3, <2>4, <2>5
<1>8. Joined(a, x, z)
  <2>1. na = nx + nz
    BY <1>6
  <2>2. \A i \in 1 .. nx : i \in 1 .. na
    BY <2>1
  <2>3. \A i \in 1 .. nx : a[i] = x[i]
    BY <1>5, <2>2
  <2> QED
    BY <1>2, <1>7, <2>1, <2>3 DEF Joined
<1>9. Joined(y, z, b)
  <2>1. ny = nz + nb
    BY <1>5, <1>6
  <2>2. ASSUME NEW i \in 1 .. nz PROVE y[i] = z[i]
    <3>1. i \in 1 .. ny /\ nx + i \in 1 .. na
      BY <1>6, <2>1
    <3>2. s[nx + i] = y[i] /\ s[nx + i] = a[nx + i]
      BY <1>5, <3>1
    <3> QED
      BY <1>7, <3>2
  <2>3. ASSUME NEW i \in 1 .. nb PROVE y[nz + i] = b[i]
    <3>1. nz + i \in 1 .. ny /\ nx + (nz + i) = na + i
      BY <1>6, <2>1
    <3>2. s[nx + (nz + i)] = y[nz + i] /\ s[na + i] = b[i]
      BY <1>5, <3>1
    <3> QED
      BY <3>1, <3>2
  <2> QED
    BY <1>2, <1>7, <2>1, <2>2, <2>3 DEF Joined
<1> QED
  BY <1>7, <1>8, <1>9, JoinedIs

(* The shorter of two beginnings of the same units begins the other. *)
LEMMA SplitShort ==
  ASSUME NEW a \in Seq(Int), NEW b \in Seq(Int), NEW x \in Seq(Int), NEW y \in Seq(Int),
         Join(a, b) = Join(x, y), Len(a) < Len(x)
  PROVE  \E z \in Seq(Int) : x = Join(a, z) /\ Len(z) # 0
<1>1. Len(a) <= Len(x)
  OBVIOUS
<1>2. PICK z \in Seq(Int) : x = Join(a, z)
  BY <1>1, SplitLong
<1>3. Len(x) = Len(a) + Len(z)
  BY <1>2, JoinType
<1> QED
  BY <1>2, <1>3

(* A part of an entry is recognised as one. *)
LEMMA PartShort ==
  ASSUME NEW body \in Seq(Int), NEW ptr \in Seq(Int), NEW z \in Seq(Int), ptr # <<>>,
         Framed(body) = Join(ptr, z), Len(z) # 0
  PROVE  Short(ptr)
<1>1. Framed(body)[1] = Len(body) + 1 /\ Len(Framed(body)) = Len(body) + 1 /\ Len(body) \in Nat
  BY FramedType
<1>2. PICK f \in Seq(Int) : f = Framed(body)
  BY FramedType
<1>3. f = ptr \o z /\ Len(ptr) \in Nat /\ Len(ptr) # 0 /\ Len(z) \in Nat
  BY <1>2 DEF Join
<1>4. f[1] = ptr[1] /\ Len(f) = Len(ptr) + Len(z)
  BY <1>3
<1>5. ptr[1] = Len(body) + 1 /\ Len(ptr) < Len(body) + 1
  BY <1>1, <1>2, <1>3, <1>4
<1>6. Len(Tail(ptr)) = Len(ptr) - 1
  BY <1>3
<1>7. ptr[1] - 1 \notin 0 .. Len(Tail(ptr)) /\ ptr[1] # 0
  BY <1>1, <1>3, <1>5, <1>6
<1> QED
  BY <1>7 DEF Short, SplitFits

(* What a decoder finds next. *)
Found(es, m, ptr, tail, body, rest) ==
  /\ Opens(ptr, body, rest) /\ Whole(es[m + 1], body) /\ Left(es, m + 1, rest, tail)

(* What is left of a table begins with a whole entry or with a cut one. *)
LEMMA LeftStep ==
  ASSUME NEW es, Sound(es), NEW m, NEW ptr, NEW tail, Left(es, m, ptr, tail), ptr # <<>>
  PROVE  /\ m + 1 \in 1 .. Len(es)
         /\ \/ Short(ptr) /\ tail # <<>>
            \/ \E body, rest : Found(es, m, ptr, tail, body, rest)
<1>1. /\ m \in 0 .. Len(es) /\ ptr \in Seq(Int) /\ tail \in Seq(Int) /\ es \in Seq(Seq(Int))
  BY DEF Left, Sound
<1>2. PICK R \in [0 .. Len(es) -> Seq(Int)] :
       Leaves(es, Len(es), R) /\ R[Len(es)] = <<>> /\ R[m] = Join(ptr, tail)
  BY DEF Left
<1>3. Len(ptr) # 0 /\ Len(ptr) \in Nat /\ Len(tail) \in Nat /\ Len(es) \in Nat
  BY <1>1
<1>4. Join(ptr, tail) # <<>>
  BY <1>1, <1>3, JoinLonger
<1>5. m # Len(es)
  BY <1>2, <1>4
<1>6. m + 1 \in 1 .. Len(es) /\ m + 1 \in 0 .. Len(es) /\ (m + 1) - 1 = m
  BY <1>1, <1>3, <1>5
<1>7. R[m] = Join(es[m + 1], R[m + 1]) /\ R[m + 1] \in Seq(Int) /\ es[m + 1] \in Seq(Int)
  <2>1. es[m + 1] \in Seq(Int)
    BY <1>1, <1>6
  <2>2. R[m + 1] \in Seq(Int)
    BY <1>6
  <2>3. R[(m + 1) - 1] = Join(es[m + 1], R[m + 1])
    BY <1>2, <1>6 DEF Leaves
  <2> QED
    BY <1>6, <2>1, <2>2, <2>3
<1>8. PICK body : Whole(es[m + 1], body)
  BY <1>6 DEF Sound
<1>9. body \in Seq(Int) /\ es[m + 1] = Framed(body)
  BY <1>8 DEF Whole
<1>10. PICK e \in Seq(Int), next \in Seq(Int) : e = es[m + 1] /\ next = R[m + 1]
  BY <1>7
<1>11. Join(ptr, tail) = Join(e, next) /\ Len(e) \in Nat
  BY <1>2, <1>7, <1>10
<1>12. CASE Len(e) <= Len(ptr)
  <2>1. PICK rest \in Seq(Int) : ptr = Join(e, rest) /\ Join(rest, tail) = next
    BY <1>1, <1>11, <1>12, SplitLong
  <2>2. ptr = Join(Framed(body), rest)
    BY <1>9, <1>10, <2>1
  <2>3. Opens(ptr, body, rest)
    BY <1>9, <2>2, FramedOpens
  <2>4. Left(es, m + 1, rest, tail)
    BY <1>1, <1>2, <1>6, <1>10, <2>1 DEF Left
  <2>5. Found(es, m, ptr, tail, body, rest)
    BY <1>8, <2>3, <2>4 DEF Found
  <2> QED
    BY <1>6, <2>5
<1>13. CASE ~(Len(e) <= Len(ptr))
  <2>1. PICK z \in Seq(Int) : e = Join(ptr, z) /\ Len(z) # 0
    <3>1. Len(ptr) < Len(e)
      BY <1>3, <1>11, <1>13
    <3> QED
      BY <1>1, <1>11, <3>1, SplitShort
  <2>2. Short(ptr)
    BY <1>1, <1>9, <1>10, <2>1, PartShort
  <2>3. tail # <<>>
    <3>1. SUFFICES ASSUME tail = <<>> PROVE FALSE
      OBVIOUS
    <3>2. ptr = Join(e, next)
      BY <1>1, <1>11, <3>1, JoinNone
    <3>3. Len(ptr) = Len(e) + Len(next)
      BY <3>2, JoinType
    <3>4. Len(next) \in Nat
      OBVIOUS
    <3> QED
      BY <1>3, <1>11, <1>13, <3>3, <3>4
  <2> QED
    BY <1>6, <2>2, <2>3
<1> QED
  BY <1>12, <1>13

(* Nothing left, and everything arrived: all entries have been read. *)
LEMMA LeftEnd ==
  ASSUME NEW es, Sound(es), NEW m, Left(es, m, <<>>, <<>>)
  PROVE  m = Len(es)
<1>1. m \in 0 .. Len(es) /\ es \in Seq(Seq(Int)) /\ <<>> \in Seq(Int)
  BY EmptySeq DEF Left, Sound
<1>2. PICK R \in [0 .. Len(es) -> Seq(Int)] :
       Leaves(es, Len(es), R) /\ R[Len(es)] = <<>> /\ R[m] = Join(<<>>, <<>>)
  BY DEF Left
<1>3. R[m] = <<>>
  BY <1>1, <1>2, JoinNone
<1>4. SUFFICES ASSUME m # Len(es) PROVE FALSE
  OBVIOUS
<1>5. m + 1 \in 1 .. Len(es) /\ m + 1 \in 0 .. Len(es) /\ (m + 1) - 1 = m
  BY <1>1, <1>4
<1>6. R[m] = Join(es[m + 1], R[m + 1]) /\ R[m + 1] \in Seq(Int)
  BY <1>1, <1>2, <1>5 DEF Leaves
<1>7. PICK body : Whole(es[m + 1], body)
  BY <1>5 DEF Sound
<1>8. es[m + 1] \in Seq(Int) /\ es[m + 1] # <<>>
  BY <1>7, FramedType DEF Whole
<1>9. PICK e \in Seq(Int), next \in Seq(Int) : e = es[m + 1] /\ next = R[m + 1]
  BY <1>6, <1>8
<1>10. Len(e) # 0
  BY <1>8, <1>9
<1>11. Join(e, next) # <<>>
  BY <1>10, JoinLonger
<1> QED
  BY <1>3, <1>6, <1>9, <1>11

-----------------------------------------------------------------------------
(* The map of types by their names. *)

(* Some numbers up to n have a largest one. *)
LEMMA HasMax ==
  ASSUME NEW n \in Nat, NEW S, NEW k \in 1 .. n, k \in S
  PROVE  \E j \in 1 .. n : j \in S /\ \A i \in j + 1 .. n : i \notin S
<1>1. SUFFICES ASSUME \A j \in 1 .. n : j \in S => \E i \in j + 1 .. n : i \in S PROVE FALSE
  OBVIOUS
<1> DEFINE E == {m \in Nat : \A i \in (n - m) + 1 .. n : i \notin S}
<1>2. 0 \in E
  OBVIOUS
<1>3. ASSUME NEW m \in 1 .. n, m - 1 \in E PROVE m \in E
  <2>1. \A i \in (n - m) + 2 .. n : i \notin S
    <3>1. (n - (m - 1)) + 1 = (n - m) + 2
      OBVIOUS
    <3> QED
      BY <1>3, <3>1
  <2>2. (n - m) + 1 \in 1 .. n /\ ((n - m) + 1) + 1 = (n - m) + 2 /\ m \in Nat
    OBVIOUS
  <2>3. (n - m) + 1 \notin S
    BY <1>1, <2>1, <2>2
  <2>4. ASSUME NEW i \in (n - m) + 1 .. n PROVE i \notin S
    <3>1. i = (n - m) + 1 \/ i \in (n - m) + 2 .. n
      OBVIOUS
    <3> QED
      BY <2>1, <2>3, <3>1
  <2> QED
    BY <2>2, <2>4
<1>4. n \in E
  <2> HIDE DEF E
  <2>1. \A m \in 0 .. n : m \in E
    BY <1>2, <1>3, InductTo
  <2> QED
    BY <2>1
<1>5. (n - n) + 1 = 1
  OBVIOUS
<1> QED
  BY <1>4, <1>5

(* The j-th is the last with its name. *)
IsLast(seq, n, j) == j \in 1 .. n /\ \A i \in j + 1 .. n : seq[i].name # seq[j].name

(* Of the types with a name there is a last, and only one. *)
LEMMA LastNamed ==
  ASSUME NEW seq, NEW n \in Nat, NEW k \in 1 .. n
  PROVE  \E j \in 1 .. n : IsLast(seq, n, j) /\ seq[j].name = seq[k].name
<1> DEFINE S == {i \in 1 .. n : seq[i].name = seq[k].name}
<1>1. k \in S
  OBVIOUS
<1>2. PICK j \in 1 .. n : j \in S /\ \A i \in j + 1 .. n : i \notin S
  <2> HIDE DEF S
  <2> QED
    BY <1>1, HasMax
<1>3. \A i \in j + 1 .. n : i \in 1 .. n
  OBVIOUS
<1> QED
  BY <1>2, <1>3 DEF IsLast

(* Of the types with a name there is a last, and only one. *)
LEMMA LastUnique ==
  ASSUME NEW seq, NEW n \in Nat, NEW i, NEW j, IsLast(seq, n, i), IsLast(seq, n, j),
         seq[i].name = seq[j].name
  PROVE  i = j
<1>1. i \in 1 .. n /\ j \in 1 .. n
  BY DEF IsLast
<1>2. CASE i < j
  <2>1. j \in i + 1 .. n
    BY <1>1, <1>2
  <2> QED
    BY <2>1 DEF IsLast
<1>3. CASE j < i
  <2>1. i \in j + 1 .. n
    BY <1>1, <1>3
  <2> QED
    BY <2>1 DEF IsLast
<1> QED
  BY <1>1, <1>2, <1>3

(* The length of what holds n values. *)
LEMMA HoldsLen ==
  ASSUME NEW seq, NEW n, Holds(seq, n)
  PROVE  n \in Nat /\ Len(seq) = n /\ DOMAIN seq = 1 .. n
  BY DEF Holds

Names(seq, n) == {seq[i].name : i \in 1 .. n}

(* The map has the last type of each name, and no other. *)
LEMMA MapFacts ==
  ASSUME NEW seq, NEW n, Holds(seq, n)
  PROVE  /\ TypeMap(seq) = [x \in Names(seq, n) |-> TypeMap(seq)[x]]
         /\ \A j : IsLast(seq, n, j) => TypeMap(seq)[seq[j].name] = seq[j]
<1>1. n \in Nat /\ Len(seq) = n /\ DOMAIN seq = 1 .. n
  BY HoldsLen
<1>2. {t.name : t \in ToSet(seq)} = Names(seq, n)
  BY <1>1 DEF ToSet, Names
<1> DEFINE LastOf(x) == CHOOSE k \in 1 .. n : seq[k].name = x /\ \A j \in k + 1 .. n : seq[j].name # x
<1>3. TypeMap(seq) = [x \in Names(seq, n) |-> seq[LastOf(x)]]
  BY <1>1, <1>2 DEF TypeMap
<1>4. ASSUME NEW j, IsLast(seq, n, j) PROVE TypeMap(seq)[seq[j].name] = seq[j]
  <2>1. PICK x : x = seq[j].name
    OBVIOUS
  <2>2. j \in 1 .. n /\ \A i \in j + 1 .. n : seq[i].name # x
    BY <1>4, <2>1 DEF IsLast
  <2>3. PICK k : k = LastOf(x)
    OBVIOUS
  <2>4. k \in 1 .. n /\ seq[k].name = x /\ \A i \in k + 1 .. n : seq[i].name # x
    BY <2>1, <2>2, <2>3
  <2>5. IsLast(seq, n, k)
    BY <2>4 DEF IsLast
  <2>6. k = j
    BY <1>1, <1>4, <2>1, <2>4, <2>5, LastUnique
  <2>7. x \in Names(seq, n)
    BY <2>1, <2>2 DEF Names
  <2>8. TypeMap(seq)[x] = seq[k]
    <3> HIDE DEF LastOf
    <3> QED
      BY <1>3, <2>3, <2>7
  <2> QED
    BY <2>1, <2>6, <2>8
<1>5. TypeMap(seq) = [x \in Names(seq, n) |-> TypeMap(seq)[x]]
  <2> HIDE DEF LastOf
  <2> QED
    BY <1>3
<1> QED
  BY <1>4, <1>5

(* A function with the right domain, and the last of each name, is the map.*)
LEMMA MapIs ==
  ASSUME NEW seq, NEW n, Holds(seq, n), NEW f, f = [x \in Names(seq, n) |-> f[x]],
         \A j : IsLast(seq, n, j) => f[seq[j].name] = seq[j]
  PROVE  f = TypeMap(seq)
<1>1. PICK g : g = TypeMap(seq)
  OBVIOUS
<1>2. g = [x \in Names(seq, n) |-> g[x]] /\ \A j : IsLast(seq, n, j) => g[seq[j].name] = seq[j]
  BY <1>1, MapFacts
<1>3. ASSUME NEW x \in Names(seq, n) PROVE f[x] = g[x]
  <2>1. PICK k \in 1 .. n : x = seq[k].name
    BY DEF Names
  <2>2. n \in Nat
    BY HoldsLen
  <2>3. PICK j \in 1 .. n : IsLast(seq, n, j) /\ seq[j].name = seq[k].name
    BY <2>2, LastNamed
  <2> QED
    BY <1>2, <2>1, <2>3
<1>4. f = g
  BY <1>2, <1>3
<1> QED
  BY <1>1, <1>4

(* The map of no types is empty. *)
LEMMA MapNone == TypeMap(<<>>) = <<>>
<1>1. Holds(<<>>, 0)
  BY DEF Holds
<1>2. Names(<<>>, 0) = {}
  BY DEF Names
<1>3. PICK f : f = <<>>
  OBVIOUS
<1>4. f = [x \in {} |-> f[x]]
  BY <1>3
<1>5. \A j : ~IsLast(<<>>, 0, j)
  BY DEF IsLast
<1>6. f = TypeMap(<<>>)
  BY <1>1, <1>2, <1>4, <1>5, MapIs
<1> QED
  BY <1>3, <1>6

(* Inserting the next type makes the map of one type more. *)
LEMMA MapPush ==
  ASSUME NEW seq, NEW n, Holds(seq, n), NEW t
  PROVE  insert(TypeMap(seq), t) = TypeMap(Push(seq, t))
<1>1. PICK s : s = Push(seq, t)
  OBVIOUS
<1>2. Holds(s, n + 1) /\ s[n + 1] = t /\ \A i \in 1 .. n : s[i] = seq[i]
  BY <1>1, Pushed DEF Extends
<1>3. n \in Nat /\ n + 1 \in 1 .. n + 1 /\ \A i \in 1 .. n : i \in 1 .. n + 1 /\ i # n + 1
  BY HoldsLen
<1>4. PICK g : g = TypeMap(seq)
  OBVIOUS
<1>5. g = [x \in Names(seq, n) |-> g[x]] /\ \A j : IsLast(seq, n, j) => g[seq[j].name] = seq[j]
  BY <1>4, MapFacts
<1>6. PICK f : f = insert(g, t)
  OBVIOUS
<1>7. f = [x \in {t.name} \cup Names(seq, n) |-> IF x = t.name THEN t ELSE g[x]]
  <2>1. DOMAIN g = Names(seq, n)
    BY <1>5
  <2> QED
    BY <1>6, <2>1 DEF insert
<1>8. Names(s, n + 1) = {t.name} \cup Names(seq, n)
  <2>1. ASSUME NEW x \in Names(s, n + 1) PROVE x \in {t.name} \cup Names(seq, n)
    <3>1. PICK i \in 1 .. n + 1 : x = s[i].name
      BY DEF Names
    <3>2. i = n + 1 \/ i \in 1 .. n
      BY <1>3
    <3>3. CASE i = n + 1
      BY <1>2, <3>1, <3>3
    <3>4. CASE i \in 1 .. n
      BY <1>2, <3>1, <3>4 DEF Names
    <3> QED
      BY <3>2, <3>3, <3>4
  <2>2. t.name \in Names(s, n + 1)
    BY <1>2, <1>3 DEF Names
  <2>3. ASSUME NEW x \in Names(seq, n) PROVE x \in Names(s, n + 1)
    BY <1>2, <1>3 DEF Names
  <2> QED
    BY <2>1, <2>2, <2>3
<1>9. ASSUME NEW j, IsLast(s, n + 1, j) PROVE f[s[j].name] = s[j]
  <2>1. j \in 1 .. n + 1 /\ \A i \in j + 1 .. n + 1 : s[i].name # s[j].name
    BY <1>9 DEF IsLast
  <2>2. CASE j = n + 1
    BY <1>2, <1>7, <2>2
  <2>3. CASE j # n + 1
    <3>1. j \in 1 .. n /\ n + 1 \in j + 1 .. n + 1 /\ \A i \in j + 1 .. n : i \in j + 1 .. n + 1 /\ i \in 1 .. n
      BY <1>3, <2>1, <2>3
    <3>2. s[j] = seq[j] /\ \A i \in j + 1 .. n : s[i] = seq[i]
      BY <1>2, <3>1
    <3>3. \A i \in j + 1 .. n : seq[i].name # seq[j].name
      BY <2>1, <3>1, <3>2
    <3>4. IsLast(seq, n, j)
      BY <3>1, <3>3 DEF IsLast
    <3>5. s[n + 1].name # s[j].name
      BY <2>1, <3>1
    <3>6. t.name # seq[j].name
      BY <1>2, <3>2, <3>5
    <3>7. seq[j].name \in Names(seq, n)
      BY <3>1 DEF Names
    <3>8. f[seq[j].name] = g[seq[j].name]
      BY <1>7, <3>6, <3>7
    <3> QED
      BY <1>5, <3>2, <3>4, <3>8
  <2> QED
    BY <2>2, <2>3
<1>10. f = [x \in Names(s, n + 1) |-> f[x]]
  BY <1>7, <1>8
<1>11. f = TypeMap(s)
  BY <1>2, <1>9, <1>10, MapIs
<1> QED
  BY <1>1, <1>4, <1>6, <1>11

(* What is in the map for a type may as well have been in its place. *)
LEMMA MapReplaced ==
  ASSUME NEW seq, NEW n, Holds(seq, n), NEW k \in 1 .. n
  PROVE  \E t \in Range(TypeMap(seq)) : TypeMap(seq) = TypeMap([seq EXCEPT ![k] = t])
<1>1. n \in Nat /\ DOMAIN seq = 1 .. n /\ Len(seq) = n
  BY HoldsLen
<1>2. PICK j \in 1 .. n : IsLast(seq, n, j) /\ seq[j].name = seq[k].name
  BY <1>1, LastNamed
<1>3. PICK g : g = TypeMap(seq)
  OBVIOUS
<1>4. g = [x \in Names(seq, n) |-> g[x]] /\ \A i : IsLast(seq, n, i) => g[seq[i].name] = seq[i]
  BY <1>3, MapFacts
<1>5. PICK t : t = seq[j]
  OBVIOUS
<1>6. t \in Range(g)
  <2>1. seq[j].name \in Names(seq, n) /\ g[seq[j].name] = t
    BY <1>2, <1>4, <1>5 DEF Names
  <2>2. DOMAIN g = Names(seq, n)
    BY <1>4
  <2> QED
    BY <2>1, <2>2 DEF Range
<1>7. PICK s : s = [seq EXCEPT ![k] = t]
  OBVIOUS
<1>8. Holds(s, n) /\ s[k] = t /\ \A i \in 1 .. n : i # k => s[i] = seq[i]
  BY <1>1, <1>7 DEF Holds
<1>9. \A i \in 1 .. n : s[i].name = seq[i].name
  BY <1>2, <1>5, <1>8
<1>10. Names(s, n) = Names(seq, n)
  BY <1>9 DEF Names
<1>11. ASSUME NEW i, IsLast(s, n, i) PROVE g[s[i].name] = s[i]
  <2>1. i \in 1 .. n /\ \A m \in i + 1 .. n : m \in 1 .. n
    BY <1>1, <1>11 DEF IsLast
  <2>2. IsLast(seq, n, i)
    BY <1>9, <1>11, <2>1 DEF IsLast
  <2>3. g[seq[i].name] = seq[i]
    BY <1>4, <2>2
  <2>4. CASE i = k
    <3>1. i = j
      BY <1>1, <1>2, <2>2, <2>4, LastUnique
    <3> QED
      BY <1>5, <1>8, <1>9, <2>1, <2>3, <2>4, <3>1
  <2>5. CASE i # k
    BY <1>8, <2>1, <2>3, <2>5
  <2> QED
    BY <2>4, <2>5
<1>12. g = TypeMap(s)
  BY <1>4, <1>8, <1>10, <1>11, MapIs
<1> QED
  BY <1>3, <1>6, <1>7, <1>12

-----------------------------------------------------------------------------
(* Whatever it reads, a parser ends well, with an error or with a panic,   *)
(* and leaves a part of its input.                                         *)

Sane(p) ==
  DOMAIN p = {"st", "ptr", "out"} /\ p.st \in {"ok", "err", "panic"} /\ p.ptr \in Seq(Int)

(* A part of units is units. *)
LEMMA DropType ==
  ASSUME NEW s \in Seq(Int), NEW n \in Nat
  PROVE  Drop(s, n) \in Seq(Int)
  BY DEF Drop

(* A part of units is units. *)
LEMMA UptoType ==
  ASSUME NEW s \in Seq(Int), NEW n \in Nat
  PROVE  Upto(s, n) \in Seq(Int)
  BY DEF Upto

(* The parser state stays well-formed: Start. *)
LEMMA SaneStart ==
  ASSUME NEW ptr \in Seq(Int)
  PROVE  Sane(Start(ptr))
  BY DEF Sane, Start

(* The parser state stays well-formed: Stop. *)
LEMMA SaneStop ==
  ASSUME NEW p, Sane(p), NEW how \in {"err", "panic"}
  PROVE  Sane(Stop(p, how))
  BY DEF Sane, Stop

(* The parser state stays well-formed: Moved. *)
LEMMA SaneMoved ==
  ASSUME NEW p, Sane(p), NEW ptr \in Seq(Int), NEW o
  PROVE  Sane([p EXCEPT !.ptr = ptr, !.out = o])
  BY DEF Sane

(* The parser state stays well-formed: Ints. *)
LEMMA SaneInts ==
  ASSUME NEW p, Sane(p), NEW n \in Nat
  PROVE  Sane(Ints(p, n))
<1>1. CASE p.st # "ok"
  BY <1>1 DEF Ints
<1>2. CASE p.st = "ok" /\ Len(p.ptr) < n
  <2>1. Ints(p, n) = Stop(p, "err")
    BY <1>2 DEF Ints
  <2> QED
    BY <2>1, SaneStop
<1>3. CASE p.st = "ok" /\ ~(Len(p.ptr) < n)
  <2>1. Ints(p, n) = [p EXCEPT !.ptr = Drop(p.ptr, n), !.out = p.out \o Upto(p.ptr, n)]
    BY <1>3 DEF Ints
  <2>2. Drop(p.ptr, n) \in Seq(Int)
    BY DropType DEF Sane
  <2> QED
    BY <2>1, <2>2 DEF Sane
<1> QED
  BY <1>1, <1>2, <1>3

(* The parser state stays well-formed: Raw. *)
LEMMA SaneRaw ==
  ASSUME NEW p, Sane(p), NEW n
  PROVE  Sane(Raw(p, n))
<1>1. CASE p.st # "ok"
  BY <1>1 DEF Raw
<1>2. CASE p.st = "ok" /\ n \notin 0 .. Len(p.ptr)
  <2>1. Raw(p, n) = Stop(p, "err")
    BY <1>2 DEF Raw
  <2> QED
    BY <2>1, SaneStop
<1>3. CASE p.st = "ok" /\ n \in 0 .. Len(p.ptr)
  <2>1. Raw(p, n) = [p EXCEPT !.ptr = Drop(p.ptr, n), !.out = Append(p.out, Upto(p.ptr, n))]
    BY <1>3 DEF Raw
  <2>2. n \in Nat
    BY <1>3 DEF Sane
  <2>3. Drop(p.ptr, n) \in Seq(Int)
    BY <2>2, DropType DEF Sane
  <2> QED
    BY <2>1, <2>3 DEF Sane
<1> QED
  BY <1>1, <1>2, <1>3

(* The parser state stays well-formed: Str. *)
LEMMA SaneStr ==
  ASSUME NEW p, Sane(p), NEW k
  PROVE  Sane(read_str(p, k))
<1>1. CASE p.st # "ok"
  BY <1>1 DEF read_str
<1>2. CASE p.st = "ok" /\ p.out[k] \notin 0 .. MaxStrLen
  <2>1. read_str(p, k) = Stop(p, "err")
    BY <1>2 DEF read_str
  <2> QED
    BY <2>1, SaneStop
<1>3. CASE p.st = "ok" /\ p.out[k] \in 0 .. MaxStrLen
  <2>1. read_str(p, k) = [p EXCEPT !.ptr = Drop(p.ptr, p.out[k] + 1), !.out = Append(p.out, Upto(p.ptr, p.out[k]))]
    BY <1>3 DEF read_str
  <2>2. PICK n \in Nat : n = p.out[k] + 1
    BY <1>3, TypeInfoAssumption
  <2>3. Drop(p.ptr, n) \in Seq(Int)
    BY DropType DEF Sane
  <2> QED
    BY <2>1, <2>2, <2>3 DEF Sane
<1> QED
  BY <1>1, <1>2, <1>3

(* q is p with a record read from r. *)
Recorded(p, r, q) ==
  \/ p.st # "ok" /\ q = p
  \/ p.st = "ok" /\ r.st # "ok" /\ q = Stop(p, r.st)
  \/ p.st = "ok" /\ r.st = "ok" /\ \E x : q = [p EXCEPT !.ptr = r.ptr, !.out = Append(p.out, x)]

(* q is p with the record x read by r. *)
RecordRead(p, r, x, q) ==
  IF p.st # "ok" THEN q = p
  ELSE IF r.st # "ok" THEN q = Stop(p, r.st)
  ELSE q = [p EXCEPT !.ptr = r.ptr, !.out = Append(@, x)]

(* q is p with a flagged value read by r, or without it. *)
FlagRead(p, k, mask, r, q) ==
  IF p.st # "ok" THEN q = p
  ELSE IF Bit(p.out[k], mask) THEN RecordRead(p, r, r.out, q)
  ELSE q = [p EXCEPT !.out = Append(@, None)]

(* The parser state stays well-formed: Recorded. *)
LEMMA SaneRecorded ==
  ASSUME NEW p, NEW r, NEW q, Sane(p), Sane(r), Recorded(p, r, q)
  PROVE  Sane(q)
<1>1. CASE p.st # "ok" /\ q = p
  BY <1>1
<1>2. CASE r.st # "ok" /\ q = Stop(p, r.st)
  <2>1. r.st \in {"err", "panic"}
    BY <1>2 DEF Sane
  <2> QED
    BY <1>2, <2>1, SaneStop
<1>3. CASE \E x : q = [p EXCEPT !.ptr = r.ptr, !.out = Append(p.out, x)]
  <2>1. PICK x : q = [p EXCEPT !.ptr = r.ptr, !.out = Append(p.out, x)]
    BY <1>3
  <2>2. r.ptr \in Seq(Int)
    BY DEF Sane
  <2> QED
    BY <2>1, <2>2, SaneMoved
<1> QED
  BY <1>1, <1>2, <1>3 DEF Recorded

(* The body of an entry, and what is behind it. *)
EntryBody(ptr) == Upto(Tail(ptr), ptr[1] - 1)

(* q is p with an entry read from r. *)
Entered(p, r, q) ==
  \/ q = p
  \/ q = Stop(p, "err")
  \/ q = Stop(p, "panic")
  \/ /\ SplitFits(Tail(p.ptr), p.ptr[1] - 1) /\ p.ptr # <<>>
     /\ \/ r.st # "ok" /\ q = Stop(p, r.st)
        \/ \E x : q = [p EXCEPT !.ptr = Drop(Tail(p.ptr), p.ptr[1] - 1), !.out = Append(p.out, x)]

(* A part of units is units. *)
LEMMA SplitType ==
  ASSUME NEW ptr \in Seq(Int), ptr # <<>>, SplitFits(Tail(ptr), ptr[1] - 1)
  PROVE  EntryBody(ptr) \in Seq(Int) /\ Drop(Tail(ptr), ptr[1] - 1) \in Seq(Int)
<1>0. Tail(ptr) \in Seq(Int)
  BY HeadTailProperties
<1>1. PICK t \in Seq(Int) : t = Tail(ptr)
  BY <1>0
<1>2. PICK n : n = ptr[1] - 1
  OBVIOUS
<1>3. n \in Nat
  BY <1>1, <1>2 DEF SplitFits
<1>4. Upto(t, n) \in Seq(Int) /\ Drop(t, n) \in Seq(Int)
  BY <1>3, UptoType, DropType
<1> QED
  BY <1>1, <1>2, <1>4 DEF EntryBody

(* The parser state stays well-formed: Entered. *)
LEMMA SaneEntered ==
  ASSUME NEW p, NEW r, NEW q, Sane(p), Entered(p, r, q),
         p.ptr # <<>> /\ SplitFits(Tail(p.ptr), p.ptr[1] - 1) => Sane(r)
  PROVE  Sane(q)
<1>1. CASE q = p \/ q = Stop(p, "err") \/ q = Stop(p, "panic")
  BY <1>1, SaneStop
<1>2. CASE /\ SplitFits(Tail(p.ptr), p.ptr[1] - 1) /\ p.ptr # <<>>
           /\ r.st # "ok" /\ q = Stop(p, r.st)
  <2>1. r.st \in {"err", "panic"}
    BY <1>2 DEF Sane
  <2> QED
    BY <1>2, <2>1, SaneStop
<1>3. CASE /\ SplitFits(Tail(p.ptr), p.ptr[1] - 1) /\ p.ptr # <<>>
           /\ \E x : q = [p EXCEPT !.ptr = Drop(Tail(p.ptr), p.ptr[1] - 1), !.out = Append(p.out, x)]
  <2>1. PICK x : q = [p EXCEPT !.ptr = Drop(Tail(p.ptr), p.ptr[1] - 1), !.out = Append(p.out, x)]
    BY <1>3
  <2>2. p.ptr \in Seq(Int)
    BY DEF Sane
  <2>3. Drop(Tail(p.ptr), p.ptr[1] - 1) \in Seq(Int)
    BY <1>3, <2>2, SplitType
  <2> QED
    BY <2>1, <2>3, SaneMoved
<1> QED
  BY <1>1, <1>2, <1>3 DEF Entered

(* The body of an entry can be read. *)
LEMMA SaneBody ==
  ASSUME NEW p, Sane(p), p.ptr # <<>>, SplitFits(Tail(p.ptr), p.ptr[1] - 1)
  PROVE  Sane(Start(EntryBody(p.ptr)))
<1>1. p.ptr \in Seq(Int)
  BY DEF Sane
<1>2. EntryBody(p.ptr) \in Seq(Int)
  BY <1>1, SplitType
<1> QED
  BY <1>2, SaneStart

(* An option: one of two. *)
LEMMA SaneNone ==
  ASSUME NEW p, Sane(p)
  PROVE  Sane([p EXCEPT !.out = Append(@, None)])
  BY DEF Sane

(* A section that may be missing ends in one of the three ways, too. *)
LEMMA SaneFlagRead ==
  ASSUME NEW p, Sane(p), NEW k, NEW mask, NEW r, Sane(r), NEW q, FlagRead(p, k, mask, r, q)
  PROVE  Sane(q)
<1>1. CASE p.st # "ok" \/ Bit(p.out[k], mask)
  <2>1. Recorded(p, r, q)
    BY <1>1 DEF FlagRead, RecordRead, Recorded
  <2> QED
    BY <2>1, SaneRecorded
<1>2. CASE ~(p.st # "ok" \/ Bit(p.out[k], mask))
  BY <1>2, SaneNone DEF FlagRead
<1> QED
  BY <1>1, <1>2

(* Attributes. *)
LEMMA SaneNextAttribute ==
  ASSUME NEW p, Sane(p)
  PROVE  Sane(NextAttribute(p))
<1>1. PICK s : s = Start(p.ptr)
  OBVIOUS
<1>2. Sane(s)
  BY <1>1, SaneStart DEF Sane
<1>3. PICK r : r = read_str(read_str(Ints(s, 2), 1), 2)
  OBVIOUS
<1>4. Sane(r)
  <2>1. Sane(Ints(s, 2))
    BY <1>2, SaneInts
  <2>2. Sane(read_str(Ints(s, 2), 1))
    BY <2>1, SaneStr
  <2> QED
    BY <1>3, <2>2, SaneStr
<1>5. Recorded(p, r, NextAttribute(p))
  BY <1>1, <1>3 DEF NextAttribute, Record, Recorded
<1> QED
  BY <1>4, <1>5, SaneRecorded

(* Where a parser is that has not failed, and the turns of a list there. *)
LEMMA SaneAt ==
  ASSUME NEW p, Sane(p), p.st = "ok", NEW k
  PROVE  \E ptr, o, N : At(p, ptr, o) /\ ptr \in Seq(Int) /\ N = Rounds(o[k], ptr) /\ N \in Nat
<1>1. PICK ptr, o, N : ptr = p.ptr /\ o = p.out /\ N = Rounds(o[k], ptr)
  OBVIOUS
<1>2. At(p, ptr, o) /\ ptr \in Seq(Int)
  BY <1>1 DEF At, Sane
<1>3. N \in Nat
  BY <1>1, <1>2 DEF Rounds
<1> QED
  BY <1>1, <1>2, <1>3

(* If each turn of a list ends in one of the three ways, so does the list. *)
LEMMA SaneTurns ==
  ASSUME NEW g, NEW ptr \in Seq(Int), At(g[0], ptr, <<>>), NEW N \in Nat,
         \A n \in 1 .. N : Sane(g[n - 1]) => Sane(g[n]), NEW q, NEW o, Ends(q, g, N, o)
  PROVE  Sane(q)
<1> DEFINE E == {n \in Nat : Sane(g[n])}
<1>1. 0 \in E
  BY DEF At, Sane
<1>2. \A n \in 1 .. N : n - 1 \in E => n \in E
  OBVIOUS
<1>3. \A n \in 0 .. N : n \in E
  <2> HIDE DEF E
  <2> QED
    BY <1>1, <1>2, InductTo
<1>4. Sane(g[N])
  BY <1>3
<1> QED
  BY <1>4 DEF Ends, Sane

(* The parser state stays well-formed: TimesAttribute. *)
LEMMA SaneTimesAttribute ==
  ASSUME NEW p, Sane(p), NEW k
  PROVE  Sane(TimesAttribute(p, k))
<1>1. CASE p.st # "ok"
  BY <1>1 DEF TimesAttribute, Times
<1>2. CASE p.st = "ok"
  <2>1. PICK ptr, o, N : At(p, ptr, o) /\ ptr \in Seq(Int) /\ N = Rounds(o[k], ptr) /\ N \in Nat
    BY <1>2, SaneAt
  <2>2. PICK g : TurnAttribute(g, ptr, N) /\ Ends(TimesAttribute(p, k), g, N, o)
    BY <2>1, AttributeRounds
  <2>3. At(g[0], ptr, <<>>) /\ \A n \in 1 .. N : Sane(g[n - 1]) => Sane(g[n])
    BY <2>2, SaneNextAttribute DEF TurnAttribute
  <2> QED
    BY <2>1, <2>2, <2>3, SaneTurns
<1> QED
  BY <1>1, <1>2

(* The parser state stays well-formed: Attributes. *)
LEMMA SaneAttributes ==
  ASSUME NEW p, Sane(p)
  PROVE  Sane(parse_attributes(p))
<1>1. PICK s : s = Start(p.ptr)
  OBVIOUS
<1>2. Sane(s)
  BY <1>1, SaneStart DEF Sane
<1>3. PICK r : r = TimesAttribute(Ints(s, 1), 1)
  OBVIOUS
<1>4. Sane(r)
  <2>1. Sane(Ints(s, 1))
    BY <1>2, SaneInts
  <2> QED
    BY <1>3, <2>1, SaneTimesAttribute
<1>5. Recorded(p, r, parse_attributes(p))
  BY <1>1, <1>3 DEF parse_attributes, Counted, TimesAttribute, Record, Recorded
<1> QED
  BY <1>4, <1>5, SaneRecorded

(* The attributes. *)
LEMMA AttributeFlagged ==
  ASSUME NEW p, NEW k, NEW mask, NEW r, r = parse_attributes(Start(p.ptr))
  PROVE  FlagRead(p, k, mask, r, FlagAttributes(p, k, mask))
  BY DEF FlagAttributes, Flagged, FlagRead, Record, RecordRead

(* The parser state stays well-formed: FlagAttributes. *)
LEMMA SaneFlagAttributes ==
  ASSUME NEW p, Sane(p), NEW k, NEW mask
  PROVE  Sane(FlagAttributes(p, k, mask))
<1>1. PICK r : r = parse_attributes(Start(p.ptr))
  OBVIOUS
<1>2. Sane(r)
  BY <1>1, SaneStart, SaneAttributes DEF Sane
<1>3. FlagRead(p, k, mask, r, FlagAttributes(p, k, mask))
  BY <1>1, AttributeFlagged
<1> QED
  BY <1>2, <1>3, SaneFlagRead

(* Methods. *)
LEMMA SaneParameter ==
  ASSUME NEW p, Sane(p)
  PROVE  Sane(parse_rpc_method_parameter(p))
<1>1. PICK r : r = read_str(read_str(read_str(Ints(p, 10), 8), 9), 10)
  OBVIOUS
<1>2. Sane(r)
  <2>1. Sane(Ints(p, 10))
    BY SaneInts
  <2>2. Sane(read_str(Ints(p, 10), 8))
    BY <2>1, SaneStr
  <2>3. Sane(read_str(read_str(Ints(p, 10), 8), 9))
    BY <2>2, SaneStr
  <2> QED
    BY <1>1, <2>3, SaneStr
<1>3. parse_rpc_method_parameter(p) = FlagAttributes(r, 4, 64)
  BY <1>1 DEF parse_rpc_method_parameter, FlagAttributes
<1> QED
  BY <1>2, <1>3, SaneFlagAttributes

(* The parser state stays well-formed: NextParameter. *)
LEMMA SaneNextParameter ==
  ASSUME NEW p, Sane(p)
  PROVE  Sane(NextParameter(p))
<1>1. PICK s, r : s = Start(EntryBody(p.ptr)) /\ r = parse_rpc_method_parameter(s)
  OBVIOUS
<1>2. p.ptr # <<>> /\ SplitFits(Tail(p.ptr), p.ptr[1] - 1) => Sane(r)
  BY <1>1, SaneBody, SaneParameter
<1>3. Entered(p, r, NextParameter(p))
  BY <1>1 DEF NextParameter, Entry, EntryOr, Entered, EntryBody
<1> QED
  BY <1>2, <1>3, SaneEntered

(* The parser state stays well-formed: TimesParameter. *)
LEMMA SaneTimesParameter ==
  ASSUME NEW p, Sane(p), NEW k
  PROVE  Sane(TimesParameter(p, k))
<1>1. CASE p.st # "ok"
  BY <1>1 DEF TimesParameter, Times
<1>2. CASE p.st = "ok"
  <2>1. PICK ptr, o, N : At(p, ptr, o) /\ ptr \in Seq(Int) /\ N = Rounds(o[k], ptr) /\ N \in Nat
    BY <1>2, SaneAt
  <2>2. PICK g : TurnParameter(g, ptr, N) /\ Ends(TimesParameter(p, k), g, N, o)
    BY <2>1, ParameterRounds
  <2>3. At(g[0], ptr, <<>>) /\ \A n \in 1 .. N : Sane(g[n - 1]) => Sane(g[n])
    BY <2>2, SaneNextParameter DEF TurnParameter
  <2> QED
    BY <2>1, <2>2, <2>3, SaneTurns
<1> QED
  BY <1>1, <1>2

(* The parser state stays well-formed: Method. *)
LEMMA SaneMethod ==
  ASSUME NEW p, Sane(p)
  PROVE  Sane(parse_rpc_method(p))
<1>1. PICK r : r = read_str(read_str(read_str(Ints(p, 12), 9), 10), 11)
  OBVIOUS
<1>2. Sane(r)
  <2>1. Sane(Ints(p, 12))
    BY SaneInts
  <2>2. Sane(read_str(Ints(p, 12), 9))
    BY <2>1, SaneStr
  <2>3. Sane(read_str(read_str(Ints(p, 12), 9), 10))
    BY <2>2, SaneStr
  <2> QED
    BY <1>1, <2>3, SaneStr
<1>3. PICK s : s = TimesParameter(r, 12)
  OBVIOUS
<1>4. Sane(s)
  BY <1>2, <1>3, SaneTimesParameter
<1>5. parse_rpc_method(p) = FlagAttributes(s, 8, 8)
  BY <1>1, <1>3 DEF parse_rpc_method, FlagAttributes, TimesParameter
<1> QED
  BY <1>4, <1>5, SaneFlagAttributes

(* The parser state stays well-formed: NextMethod. *)
LEMMA SaneNextMethod ==
  ASSUME NEW p, Sane(p)
  PROVE  Sane(NextMethod(p))
<1>1. PICK s, r : s = Start(EntryBody(p.ptr)) /\ r = parse_rpc_method(s)
  OBVIOUS
<1>2. p.ptr # <<>> /\ SplitFits(Tail(p.ptr), p.ptr[1] - 1) => Sane(r)
  BY <1>1, SaneBody, SaneMethod
<1>3. Entered(p, r, NextMethod(p))
  BY <1>1 DEF NextMethod, Entry, EntryOr, Entered, EntryBody
<1> QED
  BY <1>2, <1>3, SaneEntered

(* The parser state stays well-formed: TimesMethod. *)
LEMMA SaneTimesMethod ==
  ASSUME NEW p, Sane(p), NEW k
  PROVE  Sane(TimesMethod(p, k))
<1>1. CASE p.st # "ok"
  BY <1>1 DEF TimesMethod, Times
<1>2. CASE p.st = "ok"
  <2>1. PICK ptr, o, N : At(p, ptr, o) /\ ptr \in Seq(Int) /\ N = Rounds(o[k], ptr) /\ N \in Nat
    BY <1>2, SaneAt
  <2>2. PICK g : TurnMethod(g, ptr, N) /\ Ends(TimesMethod(p, k), g, N, o)
    BY <2>1, MethodRounds
  <2>3. At(g[0], ptr, <<>>) /\ \A n \in 1 .. N : Sane(g[n - 1]) => Sane(g[n])
    BY <2>2, SaneNextMethod DEF TurnMethod
  <2> QED
    BY <2>1, <2>2, <2>3, SaneTurns
<1> QED
  BY <1>1, <1>2

(* The parser state stays well-formed: Methods. *)
LEMMA SaneMethods ==
  ASSUME NEW p, Sane(p)
  PROVE  Sane(parse_method_infos(p))
<1>1. PICK s : s = Start(p.ptr)
  OBVIOUS
<1>2. Sane(s)
  BY <1>1, SaneStart DEF Sane
<1>3. PICK r : r = TimesMethod(Ints(s, 1), 1)
  OBVIOUS
<1>4. Sane(r)
  <2>1. Sane(Ints(s, 1))
    BY <1>2, SaneInts
  <2> QED
    BY <1>3, <2>1, SaneTimesMethod
<1>5. Recorded(p, r, parse_method_infos(p))
  BY <1>1, <1>3 DEF parse_method_infos, Counted, TimesMethod, Record, Recorded
<1> QED
  BY <1>4, <1>5, SaneRecorded

(* The methods. *)
LEMMA MethodFlagged ==
  ASSUME NEW p, NEW k, NEW mask, NEW r, r = parse_method_infos(Start(p.ptr))
  PROVE  FlagRead(p, k, mask, r, FlagMethods(p, k, mask))
  BY DEF FlagMethods, Flagged, FlagRead, Record, RecordRead

(* The parser state stays well-formed: FlagMethods. *)
LEMMA SaneFlagMethods ==
  ASSUME NEW p, Sane(p), NEW k, NEW mask
  PROVE  Sane(FlagMethods(p, k, mask))
<1>1. PICK r : r = parse_method_infos(Start(p.ptr))
  OBVIOUS
<1>2. Sane(r)
  BY <1>1, SaneStart, SaneMethods DEF Sane
<1>3. FlagRead(p, k, mask, r, FlagMethods(p, k, mask))
  BY <1>1, MethodFlagged
<1> QED
  BY <1>2, <1>3, SaneFlagRead

(* The enum values. *)
EnumBody(p, size, base) ==
  LET r == Raw(read_str(Ints(p, 1), 1), size)
  IN IF r.st = "ok" /\ size < BaseWidth(base, size) THEN Stop(r, "panic") ELSE r

(* The parser state stays well-formed: EnumBody. *)
LEMMA SaneEnumBody ==
  ASSUME NEW p, Sane(p), NEW size, NEW base
  PROVE  Sane(EnumBody(p, size, base))
<1>1. PICK r : r = Raw(read_str(Ints(p, 1), 1), size)
  OBVIOUS
<1>2. Sane(r)
  <2>1. Sane(Ints(p, 1))
    BY SaneInts
  <2>2. Sane(read_str(Ints(p, 1), 1))
    BY <2>1, SaneStr
  <2> QED
    BY <1>1, <2>2, SaneRaw
<1>3. EnumBody(p, size, base) = r \/ EnumBody(p, size, base) = Stop(r, "panic")
  BY <1>1 DEF EnumBody
<1> QED
  BY <1>2, <1>3, SaneStop

(* The parser state stays well-formed: NextEnum. *)
LEMMA SaneNextEnum ==
  ASSUME NEW p, Sane(p), NEW size, NEW base
  PROVE  Sane(NextEnumInfo(p, size, base))
<1>1. PICK s : s = Start(p.ptr)
  OBVIOUS
<1>2. Sane(s)
  BY <1>1, SaneStart DEF Sane
<1>3. PICK r : r = EnumBody(s, size, base)
  OBVIOUS
<1>4. Sane(r)
  BY <1>2, <1>3, SaneEnumBody
<1>5. Recorded(p, r, NextEnumInfo(p, size, base))
  BY <1>1, <1>3 DEF NextEnumInfo, EnumBody, Record, Recorded
<1> QED
  BY <1>4, <1>5, SaneRecorded

(* The parser state stays well-formed: TimesEnum. *)
LEMMA SaneTimesEnum ==
  ASSUME NEW p, Sane(p), NEW k, NEW size, NEW base
  PROVE  Sane(TimesEnum(p, k, size, base))
<1>1. CASE p.st # "ok"
  BY <1>1 DEF TimesEnum, Times
<1>2. CASE p.st = "ok"
  <2>1. PICK ptr, o, N : At(p, ptr, o) /\ ptr \in Seq(Int) /\ N = Rounds(o[k], ptr) /\ N \in Nat
    BY <1>2, SaneAt
  <2>2. PICK g : TurnEnum(g, ptr, N, size, base) /\ Ends(TimesEnum(p, k, size, base), g, N, o)
    BY <2>1, EnumRounds
  <2>3. At(g[0], ptr, <<>>) /\ \A n \in 1 .. N : Sane(g[n - 1]) => Sane(g[n])
    BY <2>2, SaneNextEnum DEF TurnEnum
  <2> QED
    BY <2>1, <2>2, <2>3, SaneTurns
<1> QED
  BY <1>1, <1>2

(* The parser state stays well-formed: Enums. *)
LEMMA SaneEnums ==
  ASSUME NEW p, Sane(p), NEW size, NEW base
  PROVE  Sane(parse_enum_infos(p, size, base))
<1>1. PICK s : s = Start(p.ptr)
  OBVIOUS
<1>2. Sane(s)
  BY <1>1, SaneStart DEF Sane
<1>3. PICK r : r = TimesEnum(Ints(s, 1), 1, size, base)
  OBVIOUS
<1>4. Sane(r)
  <2>1. Sane(Ints(s, 1))
    BY <1>2, SaneInts
  <2> QED
    BY <1>3, <2>1, SaneTimesEnum
<1>5. Recorded(p, r, parse_enum_infos(p, size, base))
  BY <1>1, <1>3 DEF parse_enum_infos, Counted, TimesEnum, Record, Recorded
<1> QED
  BY <1>4, <1>5, SaneRecorded

(* The enum values. *)
LEMMA EnumFlagged ==
  ASSUME NEW p, NEW k, NEW mask, NEW size, NEW base, NEW r, r = parse_enum_infos(Start(p.ptr), size, base)
  PROVE  FlagRead(p, k, mask, r, FlagEnums(p, k, mask, size, base))
  BY DEF FlagEnums, Flagged, FlagRead, Record, RecordRead

(* The parser state stays well-formed: FlagEnums. *)
LEMMA SaneFlagEnums ==
  ASSUME NEW p, Sane(p), NEW k, NEW mask, NEW size, NEW base
  PROVE  Sane(FlagEnums(p, k, mask, size, base))
<1>1. PICK r : r = parse_enum_infos(Start(p.ptr), size, base)
  OBVIOUS
<1>2. Sane(r)
  BY <1>1, SaneStart, SaneEnums DEF Sane
<1>3. FlagRead(p, k, mask, r, FlagEnums(p, k, mask, size, base))
  BY <1>1, EnumFlagged
<1> QED
  BY <1>2, <1>3, SaneFlagRead

(* The array bounds. *)
DimBody(p, c) ==
  LET r == Ints(p, 2)
  IN IF r.st = "ok" /\ c /\ ~(InI32(r.out[1] + r.out[2]) /\ InI32(r.out[1] + r.out[2] - 1))
     THEN Stop(r, "panic") ELSE r

(* The parser state stays well-formed: DimBody. *)
LEMMA SaneDimBody ==
  ASSUME NEW p, Sane(p), NEW c
  PROVE  Sane(DimBody(p, c))
<1>1. PICK r : r = Ints(p, 2)
  OBVIOUS
<1>2. Sane(r)
  BY <1>1, SaneInts
<1>3. DimBody(p, c) = r \/ DimBody(p, c) = Stop(r, "panic")
  BY <1>1 DEF DimBody
<1> QED
  BY <1>2, <1>3, SaneStop

(* The parser state stays well-formed: Dim. *)
LEMMA SaneDim ==
  ASSUME NEW p, Sane(p), NEW c
  PROVE  Sane(ArrayDim(p, c))
<1>1. PICK s : s = Start(p.ptr)
  OBVIOUS
<1>2. Sane(s)
  BY <1>1, SaneStart DEF Sane
<1>3. PICK r : r = DimBody(s, c)
  OBVIOUS
<1>4. Sane(r)
  BY <1>2, <1>3, SaneDimBody
<1>5. Recorded(p, r, ArrayDim(p, c))
  BY <1>1, <1>3 DEF ArrayDim, DimBody, Record, Recorded
<1> QED
  BY <1>4, <1>5, SaneRecorded

(* The parser state stays well-formed: TimesDim. *)
LEMMA SaneTimesDim ==
  ASSUME NEW p, Sane(p), NEW k, NEW c
  PROVE  Sane(TimesDim(p, k, c))
<1>1. CASE p.st # "ok"
  BY <1>1 DEF TimesDim, Times
<1>2. CASE p.st = "ok"
  <2>1. PICK ptr, o, N : At(p, ptr, o) /\ ptr \in Seq(Int) /\ N = Rounds(o[k], ptr) /\ N \in Nat
    BY <1>2, SaneAt
  <2>2. PICK g : TurnDim(g, ptr, N, c) /\ Ends(TimesDim(p, k, c), g, N, o)
    BY <2>1, DimRounds
  <2>3. At(g[0], ptr, <<>>) /\ \A n \in 1 .. N : Sane(g[n - 1]) => Sane(g[n])
    BY <2>2, SaneDim DEF TurnDim
  <2> QED
    BY <2>1, <2>2, <2>3, SaneTurns
<1> QED
  BY <1>1, <1>2

(* The parser state stays well-formed: Header. *)
LEMMA SaneHeader ==
  ASSUME NEW p, Sane(p), NEW c
  PROVE  Sane(TypeHeader(p, c))
<1>1. PICK h : h = Ints(p, 11)
  OBVIOUS
<1>2. Sane(h)
  BY <1>1, SaneInts
<1>3. PICK r : r = read_str(read_str(read_str(h, 7), 8), 9)
  OBVIOUS
<1>4. Sane(r)
  <2>1. Sane(read_str(h, 7))
    BY <1>2, SaneStr
  <2>2. Sane(read_str(read_str(h, 7), 8))
    BY <2>1, SaneStr
  <2> QED
    BY <1>3, <2>2, SaneStr
<1>5. Sane(TimesDim(r, 10, c))
  BY <1>4, SaneTimesDim
<1>6. TypeHeader(p, c) = TimesDim(r, 10, c) \/ TypeHeader(p, c) = Stop(h, "err")
  BY <1>1, <1>3 DEF TypeHeader, TimesDim
<1> QED
  BY <1>2, <1>5, <1>6, SaneStop

(* The sections. *)

(* A section, or none. *)
LEMMA GuidFlagged ==
  ASSUME NEW p, NEW r, r = Ints(Start(p.ptr), 1)
  PROVE  FlagRead(p, 6, 128, r, FlagGuid(p))
  BY DEF FlagGuid, Flagged, FlagRead, Record, RecordRead

(* The parser state stays well-formed: Guid. *)
LEMMA SaneGuid ==
  ASSUME NEW p, Sane(p)
  PROVE  Sane(FlagGuid(p))
<1>1. PICK r : r = Ints(Start(p.ptr), 1)
  OBVIOUS
<1>2. Sane(r)
  BY <1>1, SaneStart, SaneInts DEF Sane
<1>3. FlagRead(p, 6, 128, r, FlagGuid(p))
  BY <1>1, GuidFlagged
<1> QED
  BY <1>2, <1>3, SaneFlagRead

(* The copy mask, as long as the type. *)
LEMMA MaskFlagged ==
  ASSUME NEW p, NEW r, r = Raw(Start(p.ptr), p.out[3])
  PROVE  FlagRead(p, 6, 512, r, skip_copy_mask(p))
  BY DEF skip_copy_mask, Flagged, FlagRead, Record, RecordRead

(* The parser state stays well-formed: Mask. *)
LEMMA SaneMask ==
  ASSUME NEW p, Sane(p)
  PROVE  Sane(skip_copy_mask(p))
<1>1. PICK r : r = Raw(Start(p.ptr), p.out[3])
  OBVIOUS
<1>2. Sane(r)
  BY <1>1, SaneStart, SaneRaw DEF Sane
<1>3. FlagRead(p, 6, 512, r, skip_copy_mask(p))
  BY <1>1, MaskFlagged
<1> QED
  BY <1>2, <1>3, SaneFlagRead

(* The sections, one after the other. *)
LEMMA SectionSteps ==
  ASSUME NEW p
  PROVE  Sections(p) = FlagAttributes(FlagMethods(skip_copy_mask(FlagGuid(p)), 6, 2048), 6, AttributesFlag)
  BY DEF Sections, FlagAttributes, FlagMethods, FlagGuid

(* The parser state stays well-formed: Sections. *)
LEMMA SaneSections ==
  ASSUME NEW p, Sane(p)
  PROVE  Sane(Sections(p))
<1>1. PICK a : a = FlagGuid(p)
  OBVIOUS
<1>2. PICK b : b = skip_copy_mask(a)
  OBVIOUS
<1>3. PICK d : d = FlagMethods(b, 6, 2048)
  OBVIOUS
<1>4. Sane(a)
  BY <1>1, SaneGuid
<1>5. Sane(b)
  BY <1>2, <1>4, SaneMask
<1>6. Sane(d)
  BY <1>3, <1>5, SaneFlagMethods
<1>7. Sections(p) = FlagAttributes(d, 6, AttributesFlag)
  BY <1>1, <1>2, <1>3, SectionSteps
<1> QED
  BY <1>6, <1>7, SaneFlagAttributes

(* Fields, types and symbols. *)
LEMMA SaneField ==
  ASSUME NEW p, Sane(p), NEW c
  PROVE  Sane(parse_field(p, c))
  BY SaneHeader, SaneSections DEF parse_field

(* The parser state stays well-formed: NextField. *)
LEMMA SaneNextField ==
  ASSUME NEW p, Sane(p), NEW c
  PROVE  Sane(NextField(p, c))
<1>1. PICK s, r : s = Start(EntryBody(p.ptr)) /\ r = parse_field(s, c)
  OBVIOUS
<1>2. p.ptr # <<>> /\ SplitFits(Tail(p.ptr), p.ptr[1] - 1) => Sane(r)
  BY <1>1, SaneBody, SaneField
<1>3. Entered(p, r, NextField(p, c))
  BY <1>1 DEF NextField, Entry, EntryOr, Entered, EntryBody
<1> QED
  BY <1>2, <1>3, SaneEntered

(* The parser state stays well-formed: TimesField. *)
LEMMA SaneTimesField ==
  ASSUME NEW p, Sane(p), NEW k, NEW c
  PROVE  Sane(TimesField(p, k, c))
<1>1. CASE p.st # "ok"
  BY <1>1 DEF TimesField, Times
<1>2. CASE p.st = "ok"
  <2>1. PICK ptr, o, N : At(p, ptr, o) /\ ptr \in Seq(Int) /\ N = Rounds(o[k], ptr) /\ N \in Nat
    BY <1>2, SaneAt
  <2>2. PICK g : TurnField(g, ptr, N, c) /\ Ends(TimesField(p, k, c), g, N, o)
    BY <2>1, FieldRounds
  <2>3. At(g[0], ptr, <<>>) /\ \A n \in 1 .. N : Sane(g[n - 1]) => Sane(g[n])
    BY <2>2, SaneNextField DEF TurnField
  <2> QED
    BY <2>1, <2>2, <2>3, SaneTurns
<1> QED
  BY <1>1, <1>2

(* The parser state stays well-formed: Type. *)
LEMMA SaneType ==
  ASSUME NEW p, Sane(p), NEW c
  PROVE  Sane(decode_type_info(p, c))
<1>1. PICK h : h = TypeHeader(p, c)
  OBVIOUS
<1>2. PICK q : q = TimesField(h, 11, c)
  OBVIOUS
<1>3. PICK s : s = Sections(q)
  OBVIOUS
<1>4. Sane(h)
  BY <1>1, SaneHeader
<1>5. Sane(q)
  BY <1>2, <1>4, SaneTimesField
<1>6. Sane(s)
  BY <1>3, <1>5, SaneSections
<1>7. decode_type_info(p, c) = FlagEnums(s, 6, 8192, s.out[3], s.out[5])
  BY <1>1, <1>2, <1>3, TypeSteps
<1> QED
  BY <1>6, <1>7, SaneFlagEnums

(* The parser state stays well-formed: Symbol. *)
LEMMA SaneSymbol ==
  ASSUME NEW p, Sane(p)
  PROVE  Sane(decode_symbol(p))
<1>1. Sane(Ints(p, 9))
  BY SaneInts
<1>2. Sane(read_str(Ints(p, 9), 7))
  BY <1>1, SaneStr
<1> QED
  BY <1>2, SaneStr DEF decode_symbol

-----------------------------------------------------------------------------
(* The tables. *)

(* The parser state stays well-formed: TypeAt. *)
LEMMA SaneTypeAt ==
  ASSUME NEW ptr \in Seq(Int)
  PROVE  Sane(TypeAt(ptr))
<1>1. PICK p : p = Start(ptr)
  OBVIOUS
<1>2. Sane(p) /\ p.ptr = ptr /\ p.st = "ok"
  BY <1>1, SaneStart DEF Start
<1>3. PICK s : s = Start(EntryBody(p.ptr))
  OBVIOUS
<1>4. PICK r : r = decode_type_info(s, checks)
  OBVIOUS
<1>5. p.ptr # <<>> /\ SplitFits(Tail(p.ptr), p.ptr[1] - 1) => Sane(r)
  <2>1. SUFFICES ASSUME p.ptr # <<>>, SplitFits(Tail(p.ptr), p.ptr[1] - 1) PROVE Sane(r)
    OBVIOUS
  <2>2. EntryBody(p.ptr) \in Seq(Int)
    BY <1>2, <2>1, SplitType
  <2>3. Sane(s)
    BY <1>3, <2>2, SaneStart
  <2> QED
    BY <1>4, <2>3, SaneType
<1>6. Entered(p, r, TypeAt(ptr))
  BY <1>1, <1>3, <1>4 DEF TypeAt, EntryOr, Entered, EntryBody
<1> QED
  BY <1>2, <1>5, <1>6, SaneEntered

(* The parser state stays well-formed: SymbolAt. *)
LEMMA SaneSymbolAt ==
  ASSUME NEW ptr \in Seq(Int)
  PROVE  Sane(SymbolAt(ptr))
<1>1. PICK p : p = Start(ptr)
  OBVIOUS
<1>2. Sane(p) /\ p.ptr = ptr /\ p.st = "ok"
  BY <1>1, SaneStart DEF Start
<1>3. PICK s : s = Start(EntryBody(p.ptr))
  OBVIOUS
<1>4. PICK r : r = decode_symbol(s)
  OBVIOUS
<1>5. p.ptr # <<>> /\ SplitFits(Tail(p.ptr), p.ptr[1] - 1) => Sane(r)
  <2>1. SUFFICES ASSUME p.ptr # <<>>, SplitFits(Tail(p.ptr), p.ptr[1] - 1) PROVE Sane(r)
    OBVIOUS
  <2>2. EntryBody(p.ptr) \in Seq(Int)
    BY <1>2, <2>1, SplitType
  <2>3. Sane(s)
    BY <1>3, <2>2, SaneStart
  <2> QED
    BY <1>4, <2>3, SaneSymbol
<1>6. Entered(p, r, SymbolAt(ptr))
  BY <1>1, <1>3, <1>4 DEF SymbolAt, EntryOr, Entered, EntryBody
<1> QED
  BY <1>2, <1>5, <1>6, SaneEntered

(* The programs. *)
LEMMA ProgramType ==
  ASSUME NEW n \in 1 .. Len(Programs)
  PROVE  Programs[n].types \in Seq(TypeRecord) /\ Programs[n].symbols \in Seq(SymbolRecord)
<1>1. PICK T, S : T = Seq(TypeRecord) /\ S = Seq(SymbolRecord)
  OBVIOUS
<1>5. PICK R : R = [types : T, symbols : S]
  OBVIOUS
<1>2. Programs \in Seq(R)
  BY <1>1, <1>5, ProgramsAssumption
<1>3. Programs[n] \in R
  BY <1>2
<1>4. Programs[n].types \in T /\ Programs[n].symbols \in S
  BY <1>3, <1>5
<1> QED
  BY <1>1, <1>4

(* A sequence of whole entries. *)
LEMMA SoundIs ==
  ASSUME NEW n \in Nat, NEW es, es = [k \in 1 .. n |-> es[k]],
         \A k \in 1 .. n : \E body : Whole(es[k], body)
  PROVE  Sound(es) /\ Len(es) = n
<1>1. \A k \in 1 .. n : es[k] \in Seq(Int)
  BY FramedType DEF Whole
<1>2. es \in [1 .. n -> Seq(Int)]
  BY <1>1
<1>3. es \in Seq(Seq(Int)) /\ Len(es) = n
  BY <1>2
<1> QED
  BY <1>3 DEF Sound

(* The entries of a table are framed bodies, one for each record. *)
LEMMA TypeEntries ==
  ASSUME NEW n \in 1 .. Len(Programs), NEW es, es = Entries(n, "types"),
         NEW ts, ts = Programs[n].types
  PROVE  /\ Sound(es) /\ Len(es) = Len(ts) /\ Len(ts) \in Nat
         /\ \A k \in 1 .. Len(ts) : ts[k] \in TypeRecord /\ es[k] = TypeEntry(ts[k], 3)
<1>1. ts \in Seq(TypeRecord)
  BY ProgramType
<1>2. PICK N \in Nat : N = Len(ts)
  BY <1>1
<1>3. DOMAIN ts = 1 .. N
  BY <1>1, <1>2
<1>4. es = [k \in 1 .. N |-> TypeEntry(ts[k], 3)]
  BY <1>3 DEF Entries
<1>5. \A k \in 1 .. N : ts[k] \in TypeRecord
  BY <1>1, <1>2
<1>6. ASSUME NEW k \in 1 .. N PROVE es[k] = TypeEntry(ts[k], 3) /\ \E body : Whole(es[k], body)
  <2>1. es[k] = TypeEntry(ts[k], 3)
    BY <1>4
  <2>2. ts[k] \in TypeRecord
    BY <1>5
  <2>3. \E body : Whole(TypeEntry(ts[k], 3), body)
    BY <2>2, TypeEntryRead
  <2> QED
    BY <2>1, <2>3
<1>7. es = [k \in 1 .. N |-> es[k]]
  BY <1>4
<1>8. Sound(es) /\ Len(es) = N
  BY <1>6, <1>7, SoundIs
<1> QED
  BY <1>2, <1>5, <1>6, <1>8

(* The entries of a table are framed bodies, one for each record. *)
LEMMA SymbolEntries ==
  ASSUME NEW n \in 1 .. Len(Programs), NEW es, es = Entries(n, "symbols"),
         NEW ss, ss = Programs[n].symbols
  PROVE  /\ Sound(es) /\ Len(es) = Len(ss) /\ Len(ss) \in Nat
         /\ \A k \in 1 .. Len(ss) : ss[k] \in SymbolRecord /\ es[k] = SymbolEntry(ss[k])
<1>1. ss \in Seq(SymbolRecord)
  BY ProgramType
<1>2. PICK N \in Nat : N = Len(ss)
  BY <1>1
<1>3. DOMAIN ss = 1 .. N
  BY <1>1, <1>2
<1>4. es = [k \in 1 .. N |-> SymbolEntry(ss[k])]
  BY <1>3 DEF Entries
<1>5. \A k \in 1 .. N : ss[k] \in SymbolRecord
  BY <1>1, <1>2
<1>6. ASSUME NEW k \in 1 .. N PROVE es[k] = SymbolEntry(ss[k]) /\ \E body : Whole(es[k], body)
  <2>1. es[k] = SymbolEntry(ss[k])
    BY <1>4
  <2>2. ss[k] \in SymbolRecord
    BY <1>5
  <2>3. \E body : Whole(SymbolEntry(ss[k]), body)
    BY <2>2, SymbolEntryRead
  <2> QED
    BY <2>1, <2>3
<1>7. es = [k \in 1 .. N |-> es[k]]
  BY <1>4
<1>8. Sound(es) /\ Len(es) = N
  BY <1>6, <1>7, SoundIs
<1> QED
  BY <1>2, <1>5, <1>6, <1>8

(* An entry has one body. *)
LEMMA OneBody ==
  ASSUME NEW e, NEW a, NEW b, Whole(e, a), Whole(e, b)
  PROVE  a = b
<1>1. a \in Seq(Int) /\ b \in Seq(Int) /\ e = Framed(a) /\ e = Framed(b)
  BY DEF Whole
<1>2. Len(a) + 1 = Len(b) + 1
  BY <1>1, FramedType
<1>3. Len(a) \in Nat /\ Len(b) \in Nat
  BY <1>1
<1>4. PICK h : h = <<Len(a) + 1>>
  OBVIOUS
<1>7. h \in Seq(Int)
  BY <1>3, <1>4
<1>5. e = Join(h, a) /\ e = Join(h, b)
  BY <1>1, <1>2, <1>4 DEF Framed, Join
<1>6. Drop(Join(h, a), Len(h)) = a /\ Drop(Join(h, b), Len(h)) = b
  BY <1>1, <1>7, Cut
<1> QED
  BY <1>5, <1>6

(* The entry the device got wrong. *)
Spoilt(fl, table, k) == fl.table = table /\ fl.entry = k

(* What the device sent of a table: its entries, but for the wrong one. *)
SentAs(fl, n, table, es) ==
  /\ Sound(es) /\ Len(es) = Len(Entries(n, table))
  /\ \A k \in 1 .. Len(es) : ~Spoilt(fl, table, k) => es[k] = Entries(n, table)[k]

(* The first m of the records, but for the wrong one. *)
Got(fl, table, recs, m, got) ==
  /\ Holds(got, m) /\ m <= Len(recs)
  /\ \A k \in 1 .. m : ~Spoilt(fl, table, k) => got[k] = recs[k]

(* Nothing is decoded at first. *)
LEMMA GotNone ==
  ASSUME NEW fl, NEW table, NEW S, NEW recs \in Seq(S)
  PROVE  Got(fl, table, recs, 0, <<>>)
<1>1. Holds(<<>>, 0)
  BY DEF Holds
<1>2. 0 <= Len(recs)
  OBVIOUS
<1> QED
  BY <1>1, <1>2 DEF Got

(* One more record is decoded. *)
LEMMA GotMore ==
  ASSUME NEW fl, NEW table, NEW recs, NEW m, NEW got, Got(fl, table, recs, m, got), NEW x,
         m + 1 <= Len(recs), ~Spoilt(fl, table, m + 1) => x = recs[m + 1]
  PROVE  Got(fl, table, recs, m + 1, Push(got, x))
<1>1. Holds(got, m) /\ m \in Nat /\ \A k \in 1 .. m : ~Spoilt(fl, table, k) => got[k] = recs[k]
  BY DEF Got, Holds
<1>2. PICK s : s = Push(got, x)
  OBVIOUS
<1>5. Extends(s, got, m, x)
  BY <1>1, <1>2, Pushed
<1>3. Holds(s, m + 1) /\ s[m + 1] = x /\ \A k \in 1 .. m : s[k] = got[k]
  BY <1>5 DEF Extends
<1>4. ASSUME NEW k \in 1 .. m + 1, ~Spoilt(fl, table, k) PROVE s[k] = recs[k]
  <2>1. k = m + 1 \/ k \in 1 .. m
    BY <1>1
  <2>2. CASE k = m + 1
    BY <1>3, <1>4, <2>2
  <2>3. CASE k \in 1 .. m
    BY <1>1, <1>3, <1>4, <2>3
  <2> QED
    BY <2>1, <2>2, <2>3
<1> QED
  BY <1>2, <1>3, <1>4 DEF Got

(* A table has been read. *)
TableIn(fl, rd, table, d) ==
  \E es, tail : /\ SentAs(fl, rd[table], table, es) /\ d \in Seq(Int) /\ tail \in Seq(Int)
                /\ Join(d, tail) = FlattenSeq(es)
                /\ rd["sizes"] = rd[table] => tail = <<>>

(* A table is being decoded, and ptr is left. *)
Midway(fl, rd, table, recs, ptr, got) ==
  \E es, tail, m : /\ SentAs(fl, rd[table], table, es) /\ Left(es, m, ptr, tail)
                   /\ rd["sizes"] = rd[table] => tail = <<>>
                   /\ Got(fl, table, recs, m, got)

(* It has been decoded: entirely, if it has arrived entirely. *)
Through(fl, rd, table, recs, got) ==
  \E m : Got(fl, table, recs, m, got) /\ (rd["sizes"] = rd[table] => m = Len(recs))

(* Where the decoder stands when it starts on a table. *)
LEMMA MidwayStart ==
  ASSUME NEW fl, NEW rd, NEW table, NEW d, TableIn(fl, rd, table, d), NEW S, NEW recs \in Seq(S)
  PROVE  Midway(fl, rd, table, recs, d, <<>>)
<1>1. PICK es, tail : /\ SentAs(fl, rd[table], table, es) /\ d \in Seq(Int) /\ tail \in Seq(Int)
                      /\ Join(d, tail) = FlattenSeq(es)
                      /\ rd["sizes"] = rd[table] => tail = <<>>
  BY DEF TableIn
<1>2. Sound(es)
  BY <1>1 DEF SentAs
<1>3. Left(es, 0, d, tail)
  BY <1>1, <1>2, LeftStart
<1>4. Got(fl, table, recs, 0, <<>>)
  BY GotNone
<1> QED
  BY <1>1, <1>3, <1>4 DEF Midway

(* Where it stands when nothing is left. *)
LEMMA MidwayEnd ==
  ASSUME NEW fl, NEW rd, NEW table, NEW recs, NEW got, Midway(fl, rd, table, recs, <<>>, got),
         Len(Entries(rd[table], table)) = Len(recs)
  PROVE  Through(fl, rd, table, recs, got)
<1>1. PICK es, tail, m : /\ SentAs(fl, rd[table], table, es) /\ Left(es, m, <<>>, tail)
                         /\ rd["sizes"] = rd[table] => tail = <<>>
                         /\ Got(fl, table, recs, m, got)
  BY DEF Midway
<1>2. rd["sizes"] = rd[table] => m = Len(recs)
  <2>1. SUFFICES ASSUME rd["sizes"] = rd[table] PROVE m = Len(recs)
    OBVIOUS
  <2>2. Sound(es) /\ Len(es) = Len(recs)
    BY <1>1 DEF SentAs
  <2>3. Left(es, m, <<>>, <<>>)
    BY <1>1, <2>1
  <2> QED
    BY <2>2, <2>3, LeftEnd
<1> QED
  BY <1>1, <1>2 DEF Through

(* The outcome of a decoder's turn: the next record; or an error or panic, *)
(* and a panic only for an overflow unless something was cut or wrong.     *)
Turned(fl, rd, table, recs, got, r, over) ==
  \/ r.st = "ok" /\ Midway(fl, rd, table, recs, r.ptr, Push(got, r.out[1]))
  \/ /\ r.st \in {"err", "panic"}
     /\ fl = NoFlaw /\ rd["sizes"] = rd[table] => r.st = "panic" /\ over

(* One turn of the decoder on the table of types, or of symbols. *)
LEMMA TypesTurn ==
  ASSUME NEW fl, NEW rd, NEW ptr, NEW got, NEW n \in 1 .. Len(Programs), n = rd["types"],
         NEW ts, ts = Programs[n].types,
         Midway(fl, rd, "types", ts, ptr, got), ptr # <<>>
  PROVE  Turned(fl, rd, "types", ts, got, TypeAt(ptr), MayOverflow(n))
<1>1. PICK es, tail, m : /\ SentAs(fl, n, "types", es) /\ Left(es, m, ptr, tail)
                         /\ rd["sizes"] = n => tail = <<>>
                         /\ Got(fl, "types", ts, m, got)
  BY DEF Midway
<1>2. Sound(es) /\ ptr \in Seq(Int)
  BY <1>1 DEF SentAs, Left
<1>3. PICK E : E = Entries(n, "types")
  OBVIOUS
<1>4. /\ Len(E) = Len(ts) /\ Len(ts) \in Nat
      /\ \A k \in 1 .. Len(ts) : ts[k] \in TypeRecord /\ E[k] = TypeEntry(ts[k], 3)
  <2>1. Len(E) = Len(ts) /\ Len(ts) \in Nat
    BY <1>3, TypeEntries
  <2>2. \A k \in 1 .. Len(ts) : ts[k] \in TypeRecord /\ E[k] = TypeEntry(ts[k], 3)
    BY <1>3, TypeEntries
  <2> QED
    BY <2>1, <2>2
<1>5. /\ Len(es) = Len(ts)
      /\ \A k \in 1 .. Len(ts) : ~Spoilt(fl, "types", k) => es[k] = E[k]
  BY <1>1, <1>3, <1>4 DEF SentAs
<1>6. /\ m + 1 \in 1 .. Len(es)
      /\ \/ Short(ptr) /\ tail # <<>>
         \/ \E body, rest : Found(es, m, ptr, tail, body, rest)
  BY <1>1, <1>2, LeftStep
<1>7. PICK q : q = TypeAt(ptr)
  OBVIOUS
<1>8. q.st \in {"ok", "err", "panic"}
  BY <1>2, <1>7, SaneTypeAt DEF Sane
<1>9. CASE Short(ptr) /\ tail # <<>>
  <2>1. q.st = "panic"
    BY <1>7, <1>9, ShortPanics
  <2> QED
    BY <1>1, <1>7, <1>9, <2>1 DEF Turned
<1>10. CASE \E body, rest : Found(es, m, ptr, tail, body, rest)
  <2>1. PICK body, rest : Found(es, m, ptr, tail, body, rest)
    BY <1>10
  <2>2. Opens(ptr, body, rest) /\ Whole(es[m + 1], body) /\ Left(es, m + 1, rest, tail)
    BY <2>1 DEF Found
  <2>3. PICK r : r = decode_type_info(Start(body), checks)
    OBVIOUS
  <2>4. /\ r.st = "ok" => At(q, rest, <<Type(r.out)>>)
        /\ r.st # "ok" => q.st = r.st
    BY <1>7, <2>2, <2>3, TypeOpened
  <2>5. m + 1 \in 1 .. Len(ts) /\ m + 1 <= Len(ts)
    BY <1>4, <1>5, <1>6
  <2>6. ASSUME ~Spoilt(fl, "types", m + 1) PROVE Decodes(ts[m + 1], checks, r)
    <3>1. es[m + 1] = TypeEntry(ts[m + 1], 3) /\ ts[m + 1] \in TypeRecord
      BY <1>4, <1>5, <2>5, <2>6
    <3>4. PICK t \in TypeRecord : t = ts[m + 1]
      BY <3>1
    <3>5. 3 \in Int
      OBVIOUS
    <3>2. PICK b : /\ Whole(TypeEntry(t, 3), b)
                   /\ \A c : Decodes(t, c, decode_type_info(Start(b), c))
      BY <3>5, TypeEntryRead
    <3>3. b = body
      BY <2>2, <3>1, <3>2, <3>4, OneBody
    <3> QED
      BY <2>3, <3>2, <3>3, <3>4
  <2>7. CASE r.st = "ok"
    <3>1. q.st = "ok" /\ q.ptr = rest /\ q.out[1] = Type(r.out)
      BY <2>4, <2>7 DEF At
    <3>2. ~Spoilt(fl, "types", m + 1) => q.out[1] = ts[m + 1]
      BY <2>6, <2>7, <3>1 DEF Decodes
    <3>3. Got(fl, "types", ts, m + 1, Push(got, q.out[1]))
      BY <1>1, <2>5, <3>2, GotMore
    <3>4. Midway(fl, rd, "types", ts, q.ptr, Push(got, q.out[1]))
      BY <1>1, <2>2, <3>1, <3>3 DEF Midway
    <3> QED
      BY <1>7, <3>1, <3>4 DEF Turned
  <2>8. CASE r.st # "ok"
    <3>1. q.st \in {"err", "panic"} /\ q.st = r.st
      BY <1>8, <2>4, <2>8
    <3>2. ASSUME fl = NoFlaw PROVE q.st = "panic" /\ MayOverflow(n)
      <4>1. ~Spoilt(fl, "types", m + 1)
        BY <3>2 DEF Spoilt, NoFlaw
      <4>2. checks /\ EndsAtMax(ts[m + 1]) /\ r.st = "panic"
        BY <2>6, <2>8, <4>1 DEF Decodes
      <4>3. ts[m + 1] \in ToSet(ts)
        <5>1. ts \in Seq(TypeRecord)
          BY ProgramType
        <5>2. DOMAIN ts = 1 .. Len(ts)
          BY <5>1
        <5> QED
          BY <2>5, <5>2 DEF ToSet
      <4> QED
        BY <3>1, <4>2, <4>3 DEF MayOverflow
    <3> QED
      BY <1>7, <3>1, <3>2 DEF Turned
  <2> QED
    BY <2>7, <2>8
<1> QED
  BY <1>6, <1>9, <1>10

(* One turn of the decoder on the table of types, or of symbols. *)
LEMMA SymbolsTurn ==
  ASSUME NEW fl, NEW rd, NEW ptr, NEW got, NEW n \in 1 .. Len(Programs), n = rd["symbols"],
         NEW ss, ss = Programs[n].symbols,
         Midway(fl, rd, "symbols", ss, ptr, got), ptr # <<>>
  PROVE  Turned(fl, rd, "symbols", ss, got, SymbolAt(ptr), FALSE)
<1>1. PICK es, tail, m : /\ SentAs(fl, n, "symbols", es) /\ Left(es, m, ptr, tail)
                         /\ rd["sizes"] = n => tail = <<>>
                         /\ Got(fl, "symbols", ss, m, got)
  BY DEF Midway
<1>2. Sound(es) /\ ptr \in Seq(Int)
  BY <1>1 DEF SentAs, Left
<1>3. PICK E : E = Entries(n, "symbols")
  OBVIOUS
<1>4. /\ Len(E) = Len(ss) /\ Len(ss) \in Nat
      /\ \A k \in 1 .. Len(ss) : ss[k] \in SymbolRecord /\ E[k] = SymbolEntry(ss[k])
  <2>1. Len(E) = Len(ss) /\ Len(ss) \in Nat
    BY <1>3, SymbolEntries
  <2>2. \A k \in 1 .. Len(ss) : ss[k] \in SymbolRecord /\ E[k] = SymbolEntry(ss[k])
    BY <1>3, SymbolEntries
  <2> QED
    BY <2>1, <2>2
<1>5. /\ Len(es) = Len(ss)
      /\ \A k \in 1 .. Len(ss) : ~Spoilt(fl, "symbols", k) => es[k] = E[k]
  BY <1>1, <1>3, <1>4 DEF SentAs
<1>6. /\ m + 1 \in 1 .. Len(es)
      /\ \/ Short(ptr) /\ tail # <<>>
         \/ \E body, rest : Found(es, m, ptr, tail, body, rest)
  BY <1>1, <1>2, LeftStep
<1>7. PICK q : q = SymbolAt(ptr)
  OBVIOUS
<1>8. q.st \in {"ok", "err", "panic"}
  BY <1>2, <1>7, SaneSymbolAt DEF Sane
<1>9. CASE Short(ptr) /\ tail # <<>>
  <2>1. q.st = "panic"
    BY <1>7, <1>9, ShortPanics
  <2> QED
    BY <1>1, <1>7, <1>9, <2>1 DEF Turned
<1>10. CASE \E body, rest : Found(es, m, ptr, tail, body, rest)
  <2>1. PICK body, rest : Found(es, m, ptr, tail, body, rest)
    BY <1>10
  <2>2. Opens(ptr, body, rest) /\ Whole(es[m + 1], body) /\ Left(es, m + 1, rest, tail)
    BY <2>1 DEF Found
  <2>3. PICK r : r = decode_symbol(Start(body))
    OBVIOUS
  <2>4. /\ r.st = "ok" => At(q, rest, <<Symbol(r.out)>>)
        /\ r.st # "ok" => q.st = r.st
    BY <1>7, <2>2, <2>3, SymbolOpened
  <2>5. m + 1 \in 1 .. Len(ss) /\ m + 1 <= Len(ss)
    BY <1>4, <1>5, <1>6
  <2>6. ASSUME ~Spoilt(fl, "symbols", m + 1) PROVE r.st = "ok" /\ Symbol(r.out) = ss[m + 1]
    <3>1. es[m + 1] = SymbolEntry(ss[m + 1]) /\ ss[m + 1] \in SymbolRecord
      BY <1>4, <1>5, <2>5, <2>6
    <3>2. PICK b : /\ Whole(SymbolEntry(ss[m + 1]), b)
                   /\ decode_symbol(Start(b)).st = "ok"
                   /\ Symbol(decode_symbol(Start(b)).out) = ss[m + 1]
      BY <3>1, SymbolEntryRead
    <3>3. b = body
      BY <2>2, <3>1, <3>2, OneBody
    <3> QED
      BY <2>3, <3>2, <3>3
  <2>7. CASE r.st = "ok"
    <3>1. q.st = "ok" /\ q.ptr = rest /\ q.out[1] = Symbol(r.out)
      BY <2>4, <2>7 DEF At
    <3>2. ~Spoilt(fl, "symbols", m + 1) => q.out[1] = ss[m + 1]
      BY <2>6, <3>1
    <3>3. Got(fl, "symbols", ss, m + 1, Push(got, q.out[1]))
      BY <1>1, <2>5, <3>2, GotMore
    <3>4. Midway(fl, rd, "symbols", ss, q.ptr, Push(got, q.out[1]))
      BY <1>1, <2>2, <3>1, <3>3 DEF Midway
    <3> QED
      BY <1>7, <3>1, <3>4 DEF Turned
  <2>8. CASE r.st # "ok"
    <3>1. q.st \in {"err", "panic"} /\ q.st = r.st
      BY <1>8, <2>4, <2>8
    <3>2. fl # NoFlaw
      <4>1. Spoilt(fl, "symbols", m + 1)
        BY <2>6, <2>8
      <4> QED
        BY <4>1 DEF Spoilt, NoFlaw
    <3> QED
      BY <1>7, <3>1, <3>2 DEF Turned
  <2> QED
    BY <2>7, <2>8
<1> QED
  BY <1>6, <1>9, <1>10

-----------------------------------------------------------------------------
(* What the device sends. *)

(* What of s is behind the first n. *)
LEMMA UptoJoin ==
  ASSUME NEW s \in Seq(Int), NEW n \in Nat
  PROVE  \E tail \in Seq(Int) : /\ Upto(s, n) \in Seq(Int) /\ Join(Upto(s, n), tail) = s
                                /\ n = Len(s) => tail = <<>>
                                /\ Len(s) <= n => Upto(s, n) = s
<1>1. CASE n < Len(s)
  <2>1. PICK a, b : a = Upto(s, n) /\ b = Drop(s, n)
    OBVIOUS
  <2>2. a \in Seq(Int) /\ b \in Seq(Int)
    BY <2>1, UptoType, DropType
  <2>3. Len(a) = n /\ Len(b) = Len(s) - n /\ \A i \in 1 .. n : a[i] = s[i]
    BY <1>1, <2>1 DEF Upto, Drop
  <2>4. \A i \in 1 .. Len(s) - n : b[i] = s[n + i]
    BY <1>1, <2>1 DEF Drop
  <2>5. Joined(s, a, b)
    BY <2>3, <2>4 DEF Joined
  <2>6. s = Join(a, b)
    BY <2>2, <2>5, JoinedIs
  <2> QED
    BY <1>1, <2>1, <2>2, <2>6
<1>2. CASE ~(n < Len(s))
  <2>1. Upto(s, n) = s
    BY <1>2 DEF Upto
  <2>2. <<>> \in Seq(Int) /\ Join(s, <<>>) = s
    BY EmptySeq, JoinNone
  <2> QED
    BY <2>1, <2>2
<1> QED
  BY <1>1, <1>2

(* A table, or as much of it as was asked for. *)
LEMMA TableSent ==
  ASSUME NEW fl, NEW rd, NEW table, NEW es, es = Entries(rd[table], table), Sound(es),
         NEW n \in Nat, rd["sizes"] = rd[table] => n = Len(FlattenSeq(es))
  PROVE  TableIn(fl, rd, table, Upto(FlattenSeq(es), n))
<1>1. es \in Seq(Seq(Int))
  BY DEF Sound
<1>2. PICK s : s = FlattenSeq(es)
  OBVIOUS
<1>3. s \in Seq(Int)
  <2>1. <<>> \in Seq(Int)
    BY EmptySeq
  <2> QED
    BY <1>1, <1>2, <2>1, Peel
<1>4. PICK tail \in Seq(Int) : /\ Upto(s, n) \in Seq(Int) /\ Join(Upto(s, n), tail) = s
                               /\ n = Len(s) => tail = <<>>
  BY <1>3, UptoJoin
<1>5. SentAs(fl, rd[table], table, es)
  BY DEF SentAs
<1> QED
  BY <1>2, <1>4, <1>5 DEF TableIn

(* An entry with a wrong unit that is not its length. *)
LEMMA StillWhole ==
  ASSUME NEW e, NEW body, Whole(e, body), NEW u \in DOMAIN e, u # 1, NEW wrong \in Int
  PROVE  \E b : Whole([e EXCEPT ![u] = wrong], b)
<1>1. body \in Seq(Int) /\ e = Framed(body)
  BY DEF Whole
<1>13. Len(body) \in Nat
  BY <1>1
<1>2. e \in Seq(Int) /\ Len(e) = Len(body) + 1 /\ e[1] = Len(body) + 1 /\ Len(body) \in Nat
  BY <1>1, <1>13, FramedType
<1>3. PICK n \in Nat : n = Len(body)
  BY <1>2
<1>4. PICK f : f = [e EXCEPT ![u] = wrong]
  OBVIOUS
<1>5. f \in Seq(Int) /\ Len(f) = n + 1 /\ f[1] = n + 1
  BY <1>2, <1>3, <1>4
<1>6. PICK h : h = <<n + 1>>
  OBVIOUS
<1>7. h \in Seq(Int) /\ Len(h) = 1 /\ h[1] = n + 1
  BY <1>6
<1>8. PICK b : b = Tail(f)
  OBVIOUS
<1>9. b \in Seq(Int) /\ Len(b) = n /\ \A i \in 1 .. n : b[i] = f[1 + i]
  <2>1. f # <<>>
    BY <1>5
  <2>2. b \in Seq(Int) /\ Len(b) = Len(f) - 1 /\ \A i \in 1 .. Len(b) : b[i] = f[i + 1]
    BY <1>5, <1>8, <2>1, HeadTailProperties
  <2>3. Len(b) = n
    BY <1>5, <2>2
  <2>4. \A i \in 1 .. n : i + 1 = 1 + i
    OBVIOUS
  <2> QED
    BY <2>2, <2>3, <2>4
<1>10. Joined(f, h, b)
  <2>1. Len(f) = Len(h) + Len(b)
    BY <1>5, <1>7, <1>9
  <2>2. \A i \in 1 .. Len(h) : f[i] = h[i]
    BY <1>5, <1>7
  <2>3. \A i \in 1 .. Len(b) : f[Len(h) + i] = b[i]
    BY <1>7, <1>9
  <2> QED
    BY <1>5, <2>1, <2>2, <2>3 DEF Joined
<1>11. f = Join(h, b)
  BY <1>7, <1>9, <1>10, JoinedIs
<1>12. Whole(f, b)
  BY <1>6, <1>9, <1>11 DEF Whole, Framed, Join
<1> QED
  BY <1>4, <1>12

(* A table with such an entry. *)
LEMMA TableSpoilt ==
  ASSUME NEW fl, NEW rd, NEW table, NEW es, es = Entries(rd[table], table), Sound(es),
         NEW k \in DOMAIN es, NEW u \in DOMAIN es[k], u # 1, NEW wrong \in Int,
         fl.table = table, fl.entry = k
  PROVE  TableIn(fl, rd, table, FlattenSeq([es EXCEPT ![k][u] = wrong]))
<1>1. es \in Seq(Seq(Int))
  BY DEF Sound
<1>2. PICK n \in Nat : n = Len(es)
  BY <1>1
<1>3. DOMAIN es = 1 .. n
  BY <1>1, <1>2
<1>4. PICK x : x = [es[k] EXCEPT ![u] = wrong]
  OBVIOUS
<1>5. PICK fs : fs = [es EXCEPT ![k][u] = wrong]
  OBVIOUS
<1>6. fs = [es EXCEPT ![k] = x]
  BY <1>4, <1>5
<1>7. \E b : Whole(x, b)
  <2>1. PICK body : Whole(es[k], body)
    BY <1>2, <1>3 DEF Sound
  <2> QED
    BY <1>4, <2>1, StillWhole
<1>8. fs = [i \in 1 .. n |-> fs[i]] /\ fs[k] = x /\ \A i \in 1 .. n : i # k => fs[i] = es[i]
  BY <1>3, <1>6
<1>9. \A i \in 1 .. n : \E b : Whole(fs[i], b)
  <2>1. ASSUME NEW i \in 1 .. n PROVE \E b : Whole(fs[i], b)
    <3>1. CASE i = k
      BY <1>7, <1>8, <3>1
    <3>2. CASE i # k
      BY <1>2, <1>8, <3>2 DEF Sound
    <3> QED
      BY <3>1, <3>2
  <2> QED
    BY <2>1
<1>10. Sound(fs) /\ Len(fs) = n
  BY <1>8, <1>9, SoundIs
<1>11. SentAs(fl, rd[table], table, fs)
  <2>1. ASSUME NEW i \in 1 .. n, ~Spoilt(fl, table, i) PROVE fs[i] = es[i]
    BY <1>8, <2>1 DEF Spoilt
  <2> QED
    BY <1>2, <1>10, <2>1 DEF SentAs
<1>12. PICK s : s = FlattenSeq(fs)
  OBVIOUS
<1>13. <<>> \in Seq(Int)
  BY EmptySeq
<1>14. s \in Seq(Int)
  BY <1>10, <1>12, <1>13, Peel DEF Sound
<1>15. Join(s, <<>>) = s
  BY <1>14, JoinNone
<1>16. TableIn(fl, rd, table, s)
  BY <1>11, <1>12, <1>13, <1>14, <1>15 DEF TableIn
<1> QED
  BY <1>5, <1>12, <1>16

(* A flaw in one table is none of the other. *)
LEMMA OtherTable ==
  ASSUME NEW rd, NEW table, NEW d, TableIn(NoFlaw, rd, table, d), table # "none",
         NEW fl, fl.table # table
  PROVE  TableIn(fl, rd, table, d)
<1>1. PICK es, tail : /\ SentAs(NoFlaw, rd[table], table, es) /\ d \in Seq(Int) /\ tail \in Seq(Int)
                      /\ Join(d, tail) = FlattenSeq(es)
                      /\ rd["sizes"] = rd[table] => tail = <<>>
  BY DEF TableIn
<1>2. SentAs(fl, rd[table], table, es)
  BY <1>1 DEF SentAs, Spoilt, NoFlaw
<1> QED
  BY <1>1, <1>2 DEF TableIn

-----------------------------------------------------------------------------
(* The inductive invariant of an upload. *)

Phases ==
  {"start", "types", "symbols", "decode_types", "decode_symbols", "done", "found", "err", "panic"}

UploadTyped ==
  /\ program \in 1 .. Len(Programs)
  /\ phase \in Phases
  /\ read \in [sizes : Nat, types : Nat, symbols : Nat]
  /\ sizes \in [types : Nat, symbols : Nat]
  /\ data \in [types : Seq(Int), symbols : Seq(Int)]
  /\ data_ptr \in Seq(Int)

(* A device gets something wrong only while the first program runs. *)
FlawPlaced ==
  flaw # NoFlaw =>
    /\ program = 1 /\ flaw.table \in {"types", "symbols"}
    /\ flaw.entry \in 1 .. Len(Entries(1, flaw.table))

(* Which answers there are in which phase. *)
Answers ==
  /\ phase = "start" => read.sizes = 0 /\ read.types = 0 /\ read.symbols = 0 /\ flaw = NoFlaw
  /\ phase = "types" => read.symbols = 0 /\ flaw = NoFlaw
  /\ phase = "symbols" => read.symbols = 0 /\ flaw.table # "symbols"
  /\ phase = "found" => read.symbols = 0
  /\ phase \in {"types", "symbols", "decode_types", "decode_symbols", "done"} =>
       /\ read.sizes \in 1 .. program
       /\ sizes.types = Len(Table(read.sizes, "types"))
       /\ sizes.symbols = Len(Table(read.sizes, "symbols"))
  /\ phase \in {"symbols", "decode_types", "decode_symbols", "done"} => read.types \in 1 .. program
  /\ phase \in {"decode_types", "decode_symbols", "done"} => read.symbols \in 1 .. program
  /\ phase \in {"start", "types", "symbols"} => type_map = <<>>
  /\ phase \in {"start", "types", "symbols", "decode_types"} => symbols = <<>>

TypesOf(rd) == Programs[rd["types"]].types
SymbolsOf(rd) == Programs[rd["symbols"]].symbols

(* How far the types, and the symbols, are decoded. *)
TypesMidway(fl, rd, ptr, map) ==
  \E got : Midway(fl, rd, "types", TypesOf(rd), ptr, got) /\ map = TypeMap(got)
TypesThrough(fl, rd, map) ==
  \E got : Through(fl, rd, "types", TypesOf(rd), got) /\ map = TypeMap(got)

(* What has arrived and what has been decoded, unless the length of an     *)
(* entry is wrong.                                                         *)
Decoded ==
  flaw.unit # 1 =>
    /\ phase = "symbols" => TableIn(flaw, read, "types", data["types"])
    /\ phase = "decode_types" => /\ TypesMidway(flaw, read, data_ptr, type_map)
                                 /\ TableIn(flaw, read, "symbols", data["symbols"])
    /\ phase = "decode_symbols" => /\ TypesThrough(flaw, read, type_map)
                                   /\ Midway(flaw, read, "symbols", SymbolsOf(read), data_ptr, symbols)
    /\ phase = "done" => /\ TypesThrough(flaw, read, type_map)
                         /\ Through(flaw, read, "symbols", SymbolsOf(read), symbols)

(* Why an upload failed for which all answers came from one program. *)
FailedFor ==
  /\ phase \in {"err", "panic"} /\ flaw = NoFlaw
  /\ read.symbols # 0 /\ read.sizes = read.types /\ read.types = read.symbols
  => phase = "panic" /\ MayOverflow(read.sizes)

UploadInv == UploadTyped /\ FlawPlaced /\ Answers /\ Decoded /\ FailedFor

(* The entries of a table are framed bodies, one for each record. *)
LEMMA EntriesSound ==
  ASSUME NEW n \in 1 .. Len(Programs), NEW table \in {"types", "symbols"}
  PROVE  /\ Sound(Entries(n, table)) /\ DOMAIN Entries(n, table) = 1 .. Len(Entries(n, table))
         /\ Table(n, table) \in Seq(Int) /\ Table(n, table) = FlattenSeq(Entries(n, table))
<1>1. PICK es : es = Entries(n, table)
  OBVIOUS
<1>2. Sound(es)
  <2>1. CASE table = "types"
    <3>1. es = Entries(n, "types")
      BY <1>1, <2>1
    <3> QED
      BY <3>1, TypeEntries
  <2>2. CASE table = "symbols"
    <3>1. es = Entries(n, "symbols")
      BY <1>1, <2>2
    <3> QED
      BY <3>1, SymbolEntries
  <2> QED
    BY <2>1, <2>2
<1>3. es \in Seq(Seq(Int))
  BY <1>2 DEF Sound
<1>4. DOMAIN es = 1 .. Len(es)
  BY <1>3
<1>5. FlattenSeq(es) \in Seq(Int)
  <2>1. <<>> \in Seq(Int)
    BY EmptySeq
  <2> QED
    BY <1>3, <2>1, Peel
<1> QED
  BY <1>1, <1>2, <1>4, <1>5 DEF Table

(* A table with a wrong unit is still a sequence of units. *)
LEMMA SpoiltType ==
  ASSUME NEW es, Sound(es), NEW k \in DOMAIN es, NEW u \in DOMAIN es[k], NEW wrong \in Int
  PROVE  FlattenSeq([es EXCEPT ![k][u] = wrong]) \in Seq(Int)
<1>1. es \in Seq(Seq(Int))
  BY DEF Sound
<1>2. PICK n \in Nat : n = Len(es)
  BY <1>1
<1>3. DOMAIN es = 1 .. n /\ \A i \in 1 .. n : es[i] \in Seq(Int)
  BY <1>1, <1>2
<1>4. PICK x : x = [es[k] EXCEPT ![u] = wrong]
  OBVIOUS
<1>5. x \in Seq(Int)
  <2>1. PICK e \in Seq(Int) : e = es[k]
    BY <1>3
  <2>2. x = [e EXCEPT ![u] = wrong] /\ u \in DOMAIN e
    BY <1>4, <2>1
  <2> QED
    BY <2>2
<1>6. PICK fs : fs = [es EXCEPT ![k][u] = wrong]
  OBVIOUS
<1>7. fs = [es EXCEPT ![k] = x]
  BY <1>4, <1>6
<1>8. fs = [i \in 1 .. n |-> fs[i]] /\ \A i \in 1 .. n : fs[i] \in Seq(Int)
  <2>1. fs = [i \in 1 .. n |-> fs[i]] /\ fs[k] = x /\ \A i \in 1 .. n : i # k => fs[i] = es[i]
    BY <1>3, <1>7
  <2> QED
    BY <1>3, <1>5, <2>1
<1>9. fs \in [1 .. n -> Seq(Int)]
  BY <1>8
<1>10. fs \in Seq(Seq(Int))
  BY <1>9
<1>11. <<>> \in Seq(Int)
  BY EmptySeq
<1> QED
  BY <1>6, <1>10, <1>11, Peel

(* A table is read. *)
LEMMA TableRead ==
  ASSUME UploadTyped, FlawPlaced, NEW table \in {"types", "symbols"}, NEW next,
         read.sizes \in 1 .. program, sizes[table] = Len(Table(read.sizes, table)),
         flaw.table # table, ReadTable(table, next)
  PROVE  /\ \A other \in {"types", "symbols"} : other # table => data'[other] = data[other]
         /\ data' \in [types : Seq(Int), symbols : Seq(Int)]
         /\ flaw'.unit # 1 => TableIn(flaw', read', table, data'[table])
         /\ \/ flaw' = flaw
            \/ /\ flaw = NoFlaw /\ flaw'.table = table /\ program = 1
               /\ flaw'.entry \in 1 .. Len(Entries(1, table))
         /\ flaw' = NoFlaw /\ read.sizes = program => Len(data'[table]) = sizes[table]
<1>1. PICK es : es = Entries(program, table)
  OBVIOUS
<1>2. program \in 1 .. Len(Programs)
  BY DEF UploadTyped
<1>3. /\ Sound(es) /\ DOMAIN es = 1 .. Len(es)
      /\ Table(program, table) \in Seq(Int) /\ Table(program, table) = FlattenSeq(es)
  BY <1>1, <1>2, EntriesSound
<1>4. read'[table] = program /\ read'["sizes"] = read["sizes"]
  BY DEF ReadTable, UploadTyped
<1>5. PICK n : n = sizes[table]
  OBVIOUS
<1>6. n \in Nat /\ (read.sizes = program => n = Len(FlattenSeq(es)))
  BY <1>3, <1>5 DEF UploadTyped
<1>7. data \in [types : Seq(Int), symbols : Seq(Int)]
  BY DEF UploadTyped
<1>8. ASSUME flaw' = flaw,
             data' = [data EXCEPT ![table] = Upto(Table(program, table), sizes[table])]
      PROVE  /\ data'[table] = Upto(FlattenSeq(es), n) /\ data'[table] \in Seq(Int)
             /\ \A other \in {"types", "symbols"} : other # table => data'[other] = data[other]
             /\ data' \in [types : Seq(Int), symbols : Seq(Int)]
             /\ TableIn(flaw', read', table, data'[table])
             /\ read.sizes = program => Len(data'[table]) = sizes[table]
  <2>1. PICK d : d = Upto(FlattenSeq(es), n)
    OBVIOUS
  <2>2. d \in Seq(Int)
    BY <1>3, <1>6, <2>1, UptoType
  <2>3. data' = [data EXCEPT ![table] = d]
    BY <1>3, <1>5, <1>8, <2>1
  <2>4. data'[table] = d /\ \A other \in {"types", "symbols"} : other # table => data'[other] = data[other]
    BY <1>7, <2>3
  <2>5. data' \in [types : Seq(Int), symbols : Seq(Int)]
    BY <1>7, <2>2, <2>3
  <2>6. PICK rd, fl : rd = read' /\ fl = flaw'
    OBVIOUS
  <2>7. TableIn(fl, rd, table, Upto(FlattenSeq(es), n))
    <3>1. es = Entries(rd[table], table) /\ (rd["sizes"] = rd[table] => n = Len(FlattenSeq(es)))
      BY <1>1, <1>4, <1>6, <2>6
    <3> QED
      BY <1>3, <1>6, <3>1, TableSent
  <2>8. ASSUME read.sizes = program PROVE Len(d) = n
    <3>1. n = Len(FlattenSeq(es)) /\ FlattenSeq(es) \in Seq(Int)
      BY <1>3, <1>6, <2>8
    <3>2. Upto(FlattenSeq(es), n) = FlattenSeq(es)
      <4>1. PICK s \in Seq(Int) : s = FlattenSeq(es)
        BY <3>1
      <4>2. Upto(s, Len(s)) = s
        BY DEF Upto
      <4> QED
        BY <3>1, <4>1, <4>2
    <3> QED
      BY <2>1, <3>1, <3>2
  <2> QED
    BY <1>5, <2>1, <2>2, <2>4, <2>5, <2>6, <2>7, <2>8
<1>9. ASSUME NEW k \in DOMAIN es, NEW wrong \in WrongUnits, NEW unit \in DOMAIN es[k],
             flaw = NoFlaw, program = 1,
             flaw' = [table |-> table, entry |-> k, unit |-> unit],
             data' = [data EXCEPT ![table] = FlattenSeq([es EXCEPT ![k][unit] = wrong])]
      PROVE  /\ \A other \in {"types", "symbols"} : other # table => data'[other] = data[other]
             /\ data' \in [types : Seq(Int), symbols : Seq(Int)]
             /\ flaw'.unit # 1 => TableIn(flaw', read', table, data'[table])
             /\ flaw'.table = table /\ flaw'.entry \in 1 .. Len(Entries(1, table))
             /\ flaw' # NoFlaw
  <2>1. wrong \in Int
    BY SymbolUploadAssumption
  <2>2. PICK d : d = FlattenSeq([es EXCEPT ![k][unit] = wrong])
    OBVIOUS
  <2>3. d \in Seq(Int)
    BY <1>3, <2>1, <2>2, SpoiltType
  <2>4. data' = [data EXCEPT ![table] = d]
    BY <1>9, <2>2
  <2>5. data'[table] = d /\ \A other \in {"types", "symbols"} : other # table => data'[other] = data[other]
    BY <1>7, <2>4
  <2>6. data' \in [types : Seq(Int), symbols : Seq(Int)]
    BY <1>7, <2>3, <2>4
  <2>7. PICK rd, fl : rd = read' /\ fl = flaw'
    OBVIOUS
  <2>8. fl.table = table /\ fl.entry = k /\ fl.unit = unit
    BY <1>9, <2>7
  <2>9. ASSUME unit # 1 PROVE TableIn(fl, rd, table, d)
    <3>1. es = Entries(rd[table], table)
      BY <1>1, <1>4, <2>7
    <3>2. TableIn(fl, rd, table, FlattenSeq([es EXCEPT ![k][unit] = wrong]))
      BY <1>3, <2>1, <2>8, <2>9, <3>1, TableSpoilt
    <3> QED
      BY <2>2, <3>2
  <2>10. fl.entry \in 1 .. Len(Entries(1, table))
    BY <1>1, <1>3, <1>9, <2>8
  <2>11. fl # NoFlaw
    BY <2>8 DEF NoFlaw
  <2> QED
    BY <2>5, <2>6, <2>7, <2>8, <2>9, <2>10, <2>11
<1>13. \/ /\ flaw' = flaw
          /\ data' = [data EXCEPT ![table] = Upto(Table(program, table), sizes[table])]
       \/ /\ flaw = NoFlaw
          /\ program = 1
          /\ \E k \in DOMAIN Entries(program, table), wrong \in WrongUnits :
               \E unit \in DOMAIN Entries(program, table)[k] :
                 /\ flaw' = [table |-> table, entry |-> k, unit |-> unit]
                 /\ data' = [data EXCEPT ![table] = FlattenSeq([Entries(program, table) EXCEPT ![k][unit] = wrong])]
  BY DEF ReadTable
<1>11. CASE /\ flaw' = flaw
            /\ data' = [data EXCEPT ![table] = Upto(Table(program, table), sizes[table])]
  BY <1>8, <1>11
<1>12. CASE /\ flaw = NoFlaw
            /\ program = 1
            /\ \E k \in DOMAIN Entries(program, table), wrong \in WrongUnits :
                 \E unit \in DOMAIN Entries(program, table)[k] :
                   /\ flaw' = [table |-> table, entry |-> k, unit |-> unit]
                   /\ data' = [data EXCEPT ![table] = FlattenSeq([Entries(program, table) EXCEPT ![k][unit] = wrong])]
  <2>1. PICK k \in DOMAIN Entries(program, table), wrong \in WrongUnits : \E unit \in DOMAIN Entries(program, table)[k] :
                   /\ flaw' = [table |-> table, entry |-> k, unit |-> unit]
                   /\ data' = [data EXCEPT ![table] = FlattenSeq([Entries(program, table) EXCEPT ![k][unit] = wrong])]
    BY <1>12
  <2>2. PICK unit \in DOMAIN Entries(program, table)[k] :
                   /\ flaw' = [table |-> table, entry |-> k, unit |-> unit]
                   /\ data' = [data EXCEPT ![table] = FlattenSeq([Entries(program, table) EXCEPT ![k][unit] = wrong])]
    BY <2>1
  <2>3. k \in DOMAIN es /\ unit \in DOMAIN es[k]
    BY <1>1
  <2>4. data' = [data EXCEPT ![table] = FlattenSeq([es EXCEPT ![k][unit] = wrong])]
    BY <1>1, <2>2
  <2> QED
    BY <1>9, <1>12, <2>2, <2>3, <2>4
<1> QED
  BY <1>13, <1>11, <1>12

(* The parser state stays well-formed: Lookup. *)
LEMMA SaneLookup ==
  ASSUME NEW reply \in Seq(Int), reply # <<>>, NEW n \in Nat
  PROVE  Sane(Lookup(reply, n))
<1>1. PICK e : e = Start(<<>>)
  OBVIOUS
<1>2. Sane(e)
  BY <1>1, EmptySeq, SaneStart
<1>3. CASE n > BufLen \/ n < 1 \/ reply[1] < 1
  <2>1. Lookup(reply, n) = Stop(e, "panic") \/ Lookup(reply, n) = Stop(e, "err")
    BY <1>1, <1>3 DEF Lookup, LookupAfter
  <2> QED
    BY <1>2, <2>1, SaneStop
<1>4. CASE ~(n > BufLen \/ n < 1 \/ reply[1] < 1)
  <2>1. PICK m : m = reply[1]
    OBVIOUS
  <2>2. m \in Int
    BY <2>1
  <2>3. m \in Nat
    BY <1>4, <2>1, <2>2
  <2>4. PICK v : v = Drop(Upto(Upto(reply, n), m), 1)
    OBVIOUS
  <2>5. v \in Seq(Int)
    <3>1. Upto(reply, n) \in Seq(Int)
      BY UptoType
    <3>2. Upto(Upto(reply, n), m) \in Seq(Int)
      BY <2>3, <3>1, UptoType
    <3> QED
      BY <2>4, <3>2, DropType
  <2>6. PICK p : p = Start(v)
    OBVIOUS
  <2>7. Sane(p) /\ p.ptr = v
    BY <2>5, <2>6, SaneStart DEF Start
  <2>8. PICK r : r = decode_type_info(Start(p.ptr), checks)
    OBVIOUS
  <2>9. Sane(r)
    BY <2>6, <2>7, <2>8, SaneType
  <2>10. Recorded(p, r, Lookup(reply, n))
    BY <1>4, <2>1, <2>4, <2>6, <2>8 DEF Lookup, LookupAfter, Record, Recorded
  <2> QED
    BY <2>7, <2>9, <2>10, SaneRecorded
<1> QED
  BY <1>3, <1>4

(* The invariant holds initially. *)
LEMMA UploadStarts == Init => UploadInv
<1>1. SUFFICES ASSUME Init PROVE UploadInv
  OBVIOUS
<1>2. 1 \in 1 .. Len(Programs)
  <2>1. PICK R : Programs \in Seq(R)
    BY ProgramsAssumption
  <2> QED
    BY <2>1, ProgramsAssumption
<1>3. UploadTyped
  BY <1>1, <1>2, EmptySeq DEF Init, UploadTyped, Phases
<1>4. FlawPlaced /\ Answers
  BY <1>1 DEF Init, FlawPlaced, Answers
<1>5. Decoded /\ FailedFor
  BY <1>1 DEF Init, Decoded, FailedFor
<1> QED
  BY <1>3, <1>4, <1>5 DEF UploadInv

-----------------------------------------------------------------------------
(* Each action keeps the invariant. *)

(* The invariant is kept by OnlineChange. *)
LEMMA KeptByOnlineChange ==
  ASSUME UploadInv, OnlineChange
  PROVE  UploadInv'
<1>1. /\ flaw = NoFlaw /\ program < Len(Programs) /\ program' = program + 1
      /\ flaw' = flaw /\ phase' = phase /\ sizes' = sizes /\ read' = read /\ data' = data
      /\ data_ptr' = data_ptr /\ type_map' = type_map /\ symbols' = symbols /\ checks' = checks
  BY DEF OnlineChange, resultVars
<1>2. program \in 1 .. Len(Programs) /\ program' \in 1 .. Len(Programs)
      /\ \A n \in 1 .. program : n \in 1 .. program'
  <2>1. program \in 1 .. Len(Programs)
    BY DEF UploadInv, UploadTyped
  <2>2. Len(Programs) \in Nat
    <3>1. PICK R : Programs \in Seq(R)
      BY ProgramsAssumption
    <3> QED
      BY <3>1
  <2> QED
    BY <1>1, <2>1, <2>2
<1>3. UploadTyped'
  BY <1>1, <1>2 DEF UploadInv, UploadTyped
<1>4. FlawPlaced'
  BY <1>1 DEF FlawPlaced
<1>5. Answers'
  BY <1>1, <1>2 DEF UploadInv, Answers
<1>6. Decoded' /\ FailedFor'
  BY <1>1 DEF UploadInv, Decoded, FailedFor, MayOverflow
<1> QED
  BY <1>3, <1>4, <1>5, <1>6 DEF UploadInv

(* The invariant is kept by ReadSizes. *)
LEMMA KeptByReadSizes ==
  ASSUME UploadInv, ReadSizes
  PROVE  UploadInv'
<1>1. /\ phase = "start" /\ phase' = "types"
      /\ sizes' = [types |-> Len(Table(program, "types")), symbols |-> Len(Table(program, "symbols"))]
      /\ read' = [read EXCEPT !.sizes = program]
      /\ program' = program /\ flaw' = flaw /\ checks' = checks /\ data' = data
      /\ data_ptr' = data_ptr /\ type_map' = type_map /\ symbols' = symbols
  BY DEF ReadSizes, deviceVars, resultVars
<1>2. program \in 1 .. Len(Programs) /\ program \in Nat
  BY DEF UploadInv, UploadTyped
<1>3. /\ read.sizes = 0 /\ read.types = 0 /\ read.symbols = 0 /\ flaw = NoFlaw
      /\ type_map = <<>> /\ symbols = <<>>
  BY <1>1 DEF UploadInv, Answers
<1>4. Table(program, "types") \in Seq(Int) /\ Table(program, "symbols") \in Seq(Int)
  BY <1>2, EntriesSound
<1>5. read \in [sizes : Nat, types : Nat, symbols : Nat]
  BY DEF UploadInv, UploadTyped
<1>6. /\ read' \in [sizes : Nat, types : Nat, symbols : Nat]
      /\ read'.sizes = program /\ read'.types = 0 /\ read'.symbols = 0
  BY <1>1, <1>2, <1>3, <1>5
<1>7. sizes' \in [types : Nat, symbols : Nat]
  BY <1>1, <1>4
<1>8. UploadTyped'
  BY <1>1, <1>6, <1>7 DEF UploadInv, UploadTyped, Phases
<1>9. FlawPlaced'
  BY <1>1, <1>3 DEF FlawPlaced
<1>10. program \in 1 .. program
  BY <1>2
<1>11. Answers'
  BY <1>1, <1>3, <1>6, <1>10 DEF Answers
<1>12. Decoded' /\ FailedFor'
  BY <1>1 DEF Decoded, FailedFor
<1> QED
  BY <1>8, <1>9, <1>11, <1>12 DEF UploadInv

(* The invariant is kept by ReadTypes. *)
LEMMA KeptByReadTypes ==
  ASSUME UploadInv, ReadTypes
  PROVE  UploadInv'
<1>1. ReadTable("types", "symbols")
  BY DEF ReadTypes
<1>2. /\ phase = "types" /\ read' = [read EXCEPT !["types"] = program]
      /\ phase' = (IF Len(data'["types"]) = sizes["types"] THEN "symbols" ELSE "err")
      /\ data_ptr' = data'["types"] /\ program' = program /\ checks' = checks /\ sizes' = sizes
      /\ type_map' = type_map /\ symbols' = symbols
  BY <1>1 DEF ReadTable
<1>3. /\ read.symbols = 0 /\ flaw = NoFlaw /\ read.sizes \in 1 .. program
      /\ sizes["types"] = Len(Table(read.sizes, "types"))
      /\ sizes["symbols"] = Len(Table(read.sizes, "symbols")) /\ type_map = <<>> /\ symbols = <<>>
  BY <1>2 DEF UploadInv, Answers
<1>4. flaw.table # "types"
  BY <1>3 DEF NoFlaw
<1>5. UploadTyped /\ FlawPlaced
  BY DEF UploadInv
<1>6. PICK table \in {"types", "symbols"} : table = "types"
  OBVIOUS
<1>7. /\ data' \in [types : Seq(Int), symbols : Seq(Int)]
      /\ flaw'.unit # 1 => TableIn(flaw', read', table, data'[table])
      /\ \/ flaw' = flaw
         \/ /\ flaw = NoFlaw /\ flaw'.table = table /\ program = 1
            /\ flaw'.entry \in 1 .. Len(Entries(1, table))
  <2>1. ReadTable(table, "symbols") /\ sizes[table] = Len(Table(read.sizes, table)) /\ flaw.table # table
    BY <1>1, <1>3, <1>4, <1>6
  <2> QED
    BY <1>3, <1>5, <2>1, TableRead
<1>8. program \in 1 .. Len(Programs) /\ program \in Nat /\ program \in 1 .. program
      /\ read \in [sizes : Nat, types : Nat, symbols : Nat]
  BY <1>5 DEF UploadTyped
<1>9. /\ read' \in [sizes : Nat, types : Nat, symbols : Nat]
      /\ read'.sizes = read.sizes /\ read'.types = program /\ read'.symbols = 0
  BY <1>2, <1>3, <1>8
<1>10. phase' \in {"symbols", "err"} /\ data'["types"] \in Seq(Int)
  BY <1>2, <1>7
<1>11. UploadTyped'
  BY <1>2, <1>5, <1>7, <1>9, <1>10 DEF UploadTyped, Phases
<1>12. FlawPlaced'
  BY <1>2, <1>3, <1>6, <1>7 DEF FlawPlaced
<1>13. flaw'.table # "symbols"
  BY <1>3, <1>6, <1>7 DEF NoFlaw
<1>14. Answers'
  BY <1>2, <1>3, <1>8, <1>9, <1>10, <1>13 DEF Answers
<1>15. Decoded' /\ FailedFor'
  BY <1>6, <1>7, <1>9, <1>10 DEF Decoded, FailedFor
<1> QED
  BY <1>11, <1>12, <1>14, <1>15 DEF UploadInv

(* The invariant is kept by ReadSymbols. *)
LEMMA KeptByReadSymbols ==
  ASSUME UploadInv, ReadSymbols
  PROVE  UploadInv'
<1>1. ReadTable("symbols", "decode_types")
  BY DEF ReadSymbols
<1>2. /\ phase = "symbols" /\ read' = [read EXCEPT !["symbols"] = program]
      /\ phase' = (IF Len(data'["symbols"]) = sizes["symbols"] THEN "decode_types" ELSE "err")
      /\ data_ptr' = data'["types"] /\ program' = program /\ checks' = checks /\ sizes' = sizes
      /\ type_map' = type_map /\ symbols' = symbols
  BY <1>1 DEF ReadTable
<1>3. /\ flaw.table # "symbols" /\ read.sizes \in 1 .. program /\ read.types \in 1 .. program
      /\ sizes["types"] = Len(Table(read.sizes, "types"))
      /\ sizes["symbols"] = Len(Table(read.sizes, "symbols")) /\ type_map = <<>> /\ symbols = <<>>
  BY <1>2 DEF UploadInv, Answers
<1>5. UploadTyped /\ FlawPlaced
  BY DEF UploadInv
<1>6. PICK table \in {"types", "symbols"} : table = "symbols"
  OBVIOUS
<1>7. /\ \A other \in {"types", "symbols"} : other # table => data'[other] = data[other]
      /\ data' \in [types : Seq(Int), symbols : Seq(Int)]
      /\ flaw'.unit # 1 => TableIn(flaw', read', table, data'[table])
      /\ \/ flaw' = flaw
         \/ /\ flaw = NoFlaw /\ flaw'.table = table /\ program = 1
            /\ flaw'.entry \in 1 .. Len(Entries(1, table))
      /\ flaw' = NoFlaw /\ read.sizes = program => Len(data'[table]) = sizes[table]
  <2>1. ReadTable(table, "decode_types") /\ sizes[table] = Len(Table(read.sizes, table)) /\ flaw.table # table
    BY <1>1, <1>3, <1>6
  <2> QED
    BY <1>3, <1>5, <2>1, TableRead
<1>8. program \in 1 .. Len(Programs) /\ program \in Nat /\ program \in 1 .. program
      /\ read \in [sizes : Nat, types : Nat, symbols : Nat]
  BY <1>5 DEF UploadTyped
<1>9. /\ read' \in [sizes : Nat, types : Nat, symbols : Nat]
      /\ read'.sizes = read.sizes /\ read'.types = read.types /\ read'.symbols = program
  BY <1>2, <1>8
<1>10. phase' \in {"decode_types", "err"} /\ data'["types"] \in Seq(Int) /\ data'["types"] = data["types"]
  BY <1>2, <1>6, <1>7
<1>11. UploadTyped'
  BY <1>2, <1>5, <1>7, <1>9, <1>10 DEF UploadTyped, Phases
<1>12. FlawPlaced'
  BY <1>2, <1>5, <1>6, <1>7 DEF FlawPlaced
<1>14. Answers'
  BY <1>2, <1>3, <1>8, <1>9, <1>10 DEF Answers
<1>15. Decoded'
  <2>1. SUFFICES ASSUME flaw'.unit # 1, phase' = "decode_types"
                 PROVE  /\ TypesMidway(flaw', read', data_ptr', type_map')
                        /\ TableIn(flaw', read', "symbols", data'["symbols"])
    BY <1>10 DEF Decoded
  <2>2. TableIn(flaw', read', "symbols", data'["symbols"])
    BY <1>6, <1>7, <2>1
  <2>3. flaw.unit # 1
    BY <1>7, <2>1 DEF NoFlaw
  <2>4. TableIn(flaw, read, "types", data["types"])
    BY <1>2, <2>3 DEF UploadInv, Decoded
  <2>5. TableIn(flaw', read, "types", data["types"])
    <3>1. CASE flaw' = flaw
      BY <2>4, <3>1
    <3>2. CASE flaw = NoFlaw /\ flaw'.table = table
      <4>1. PICK fl, rd, d, t : fl = flaw' /\ rd = read /\ d = data["types"] /\ t = "types"
        OBVIOUS
      <4>2. TableIn(NoFlaw, rd, t, d) /\ t # "none" /\ fl.table # t
        BY <1>6, <2>4, <3>2, <4>1
      <4>3. TableIn(fl, rd, t, d)
        BY <4>2, OtherTable
      <4> QED
        BY <4>1, <4>3
    <3> QED
      BY <1>7, <3>1, <3>2
  <2>6. TableIn(flaw', read', "types", data["types"])
    BY <1>9, <2>5 DEF TableIn
  <2>7. TableIn(flaw', read', "types", data_ptr')
    BY <1>2, <1>10, <2>6
  <2>8. TypesOf(read') \in Seq(TypeRecord)
    <3>1. read'["types"] \in 1 .. Len(Programs)
      BY <1>3, <1>8, <1>9
    <3> QED
      BY <3>1, ProgramType DEF TypesOf
  <2>9. Midway(flaw', read', "types", TypesOf(read'), data_ptr', <<>>)
    BY <2>7, <2>8, MidwayStart
  <2>10. type_map' = TypeMap(<<>>)
    BY <1>2, <1>3, MapNone
  <2> QED
    BY <2>2, <2>9, <2>10 DEF TypesMidway
<1>16. FailedFor'
  <2>1. SUFFICES ASSUME phase' = "err", flaw' = NoFlaw, read'.sizes = read'.types, read'.types = read'.symbols
                 PROVE  FALSE
    BY <1>10 DEF FailedFor
  <2>2. read.sizes = program
    BY <1>9, <2>1
  <2> QED
    BY <1>2, <1>6, <1>7, <2>1, <2>2
<1> QED
  BY <1>11, <1>12, <1>14, <1>15, <1>16 DEF UploadInv

(* The invariant is kept by RequestFails. *)
LEMMA KeptByRequestFails ==
  ASSUME UploadInv, RequestFails
  PROVE  UploadInv'
<1>1. /\ phase \in {"start", "types", "symbols"} /\ phase' = "err"
      /\ program' = program /\ flaw' = flaw /\ checks' = checks /\ sizes' = sizes /\ read' = read
      /\ data' = data /\ data_ptr' = data_ptr /\ type_map' = type_map /\ symbols' = symbols
  BY DEF RequestFails, deviceVars, resultVars
<1>2. read.symbols = 0
  BY <1>1 DEF UploadInv, Answers
<1>3. UploadTyped' /\ FlawPlaced'
  BY <1>1 DEF UploadInv, UploadTyped, Phases, FlawPlaced
<1>4. Answers' /\ Decoded' /\ FailedFor'
  BY <1>1, <1>2 DEF Answers, Decoded, FailedFor
<1> QED
  BY <1>3, <1>4 DEF UploadInv

(* The invariant is kept by DecodeType. *)
LEMMA KeptByDecodeType ==
  ASSUME UploadInv, DecodeType
  PROVE  UploadInv'
<1>1. PICK r : r = TypeAt(data_ptr)
  OBVIOUS
<1>2. /\ phase = "decode_types" /\ data_ptr # <<>>
      /\ program' = program /\ flaw' = flaw /\ checks' = checks /\ sizes' = sizes /\ read' = read
      /\ data' = data /\ symbols' = symbols
      /\ \/ /\ r.st = "ok" /\ type_map' = insert(type_map, r.out[1])
            /\ data_ptr' = r.ptr /\ phase' = phase
         \/ r.st # "ok" /\ phase' = r.st /\ type_map' = type_map /\ data_ptr' = data_ptr
  BY <1>1 DEF DecodeType, deviceVars
<1>3. /\ read.sizes \in 1 .. program /\ read.types \in 1 .. program /\ read.symbols \in 1 .. program
      /\ program \in 1 .. Len(Programs)
  BY <1>2 DEF UploadInv, Answers, UploadTyped
<1>4. Sane(r)
  BY <1>1, SaneTypeAt DEF UploadInv, UploadTyped
<1>5. r.st \in {"ok", "err", "panic"} /\ r.ptr \in Seq(Int)
  BY <1>4 DEF Sane
<1>6. phase' \in {"decode_types", "err", "panic"}
  BY <1>2, <1>5
<1>7. UploadTyped'
  BY <1>2, <1>5, <1>6 DEF UploadInv, UploadTyped, Phases
<1>8. FlawPlaced'
  BY <1>2 DEF UploadInv, FlawPlaced
<1>9. Answers'
  BY <1>2, <1>6 DEF UploadInv, Answers
<1>10. PICK n : n = read["types"]
  OBVIOUS
<1>11. n \in 1 .. Len(Programs) /\ TypesOf(read) = Programs[n].types
  BY <1>3, <1>10 DEF TypesOf
<1>12. ASSUME flaw.unit # 1
       PROVE  \E got : /\ Turned(flaw, read, "types", TypesOf(read), got, r, MayOverflow(n))
                       /\ \E k : Holds(got, k) /\ type_map = TypeMap(got)
  <2>1. PICK got : Midway(flaw, read, "types", TypesOf(read), data_ptr, got) /\ type_map = TypeMap(got)
    BY <1>2, <1>12 DEF UploadInv, Decoded, TypesMidway
  <2>2. Turned(flaw, read, "types", TypesOf(read), got, TypeAt(data_ptr), MayOverflow(n))
    BY <1>2, <1>10, <1>11, <2>1, TypesTurn
  <2>3. \E k : Holds(got, k)
    BY <2>1 DEF Midway, Got
  <2> QED
    BY <1>1, <2>1, <2>2, <2>3
<1>13. Decoded'
  <2>1. SUFFICES ASSUME flaw.unit # 1, phase' = "decode_types"
                 PROVE  TypesMidway(flaw, read, data_ptr', type_map') /\ TableIn(flaw, read, "symbols", data["symbols"])
    BY <1>2, <1>6 DEF Decoded
  <2>2. TableIn(flaw, read, "symbols", data["symbols"])
    BY <1>2, <2>1 DEF UploadInv, Decoded
  <2>3. PICK got, k : /\ Turned(flaw, read, "types", TypesOf(read), got, r, MayOverflow(n))
                      /\ Holds(got, k) /\ type_map = TypeMap(got)
    BY <1>12, <2>1
  <2>4. r.st = "ok" /\ type_map' = insert(type_map, r.out[1]) /\ data_ptr' = r.ptr
    BY <1>2, <1>5, <2>1
  <2>5. Midway(flaw, read, "types", TypesOf(read), r.ptr, Push(got, r.out[1]))
    BY <2>3, <2>4 DEF Turned
  <2>6. type_map' = TypeMap(Push(got, r.out[1]))
    BY <2>3, <2>4, MapPush
  <2> QED
    BY <2>2, <2>4, <2>5, <2>6 DEF TypesMidway
<1>14. FailedFor'
  <2>1. SUFFICES ASSUME phase' \in {"err", "panic"}, flaw = NoFlaw, read.sizes = read.types
                 PROVE  phase' = "panic" /\ MayOverflow(read.sizes)
    BY <1>2 DEF FailedFor, MayOverflow
  <2>2. flaw.unit # 1
    BY <2>1 DEF NoFlaw
  <2>3. PICK got : Turned(flaw, read, "types", TypesOf(read), got, r, MayOverflow(n))
    BY <1>12, <2>2
  <2>4. r.st # "ok" /\ phase' = r.st
    BY <1>2, <2>1
  <2> QED
    BY <1>10, <2>1, <2>3, <2>4 DEF Turned
<1> QED
  BY <1>7, <1>8, <1>9, <1>13, <1>14 DEF UploadInv

(* The invariant is kept by TypesDecoded. *)
LEMMA KeptByTypesDecoded ==
  ASSUME UploadInv, TypesDecoded
  PROVE  UploadInv'
<1>1. /\ phase = "decode_types" /\ data_ptr = <<>> /\ phase' = "decode_symbols"
      /\ data_ptr' = data["symbols"]
      /\ program' = program /\ flaw' = flaw /\ checks' = checks /\ sizes' = sizes /\ read' = read
      /\ data' = data /\ type_map' = type_map /\ symbols' = symbols
  BY DEF TypesDecoded, deviceVars
<1>2. data["symbols"] \in Seq(Int)
  BY DEF UploadInv, UploadTyped
<1>3. UploadTyped'
  BY <1>1, <1>2 DEF UploadInv, UploadTyped, Phases
<1>4. FlawPlaced' /\ FailedFor'
  BY <1>1 DEF UploadInv, FlawPlaced, FailedFor
<1>5. Answers'
  BY <1>1 DEF UploadInv, Answers
<1>6. /\ read.types \in 1 .. Len(Programs) /\ read.symbols \in 1 .. Len(Programs) /\ symbols = <<>>
  BY <1>1 DEF UploadInv, Answers, UploadTyped
<1>7. Decoded'
  <2>1. SUFFICES ASSUME flaw.unit # 1
                 PROVE  /\ TypesThrough(flaw, read, type_map)
                        /\ Midway(flaw, read, "symbols", SymbolsOf(read), data["symbols"], symbols)
    BY <1>1 DEF Decoded
  <2>2. TypesMidway(flaw, read, <<>>, type_map) /\ TableIn(flaw, read, "symbols", data["symbols"])
    BY <1>1, <2>1 DEF UploadInv, Decoded
  <2>3. PICK got : Midway(flaw, read, "types", TypesOf(read), <<>>, got) /\ type_map = TypeMap(got)
    BY <2>2 DEF TypesMidway
  <2>4. Len(Entries(read["types"], "types")) = Len(TypesOf(read))
    BY <1>6, TypeEntries DEF TypesOf
  <2>5. Through(flaw, read, "types", TypesOf(read), got)
    BY <2>3, <2>4, MidwayEnd
  <2>6. SymbolsOf(read) \in Seq(SymbolRecord)
    BY <1>6, ProgramType DEF SymbolsOf
  <2>7. Midway(flaw, read, "symbols", SymbolsOf(read), data["symbols"], <<>>)
    BY <2>2, <2>6, MidwayStart
  <2> QED
    BY <1>6, <2>3, <2>5, <2>7 DEF TypesThrough
<1> QED
  BY <1>3, <1>4, <1>5, <1>7 DEF UploadInv

(* The invariant is kept by DecodeSymbol. *)
LEMMA KeptByDecodeSymbol ==
  ASSUME UploadInv, DecodeSymbol
  PROVE  UploadInv'
<1>1. PICK r : r = SymbolAt(data_ptr)
  OBVIOUS
<1>2. /\ phase = "decode_symbols" /\ data_ptr # <<>>
      /\ program' = program /\ flaw' = flaw /\ checks' = checks /\ sizes' = sizes /\ read' = read
      /\ data' = data /\ type_map' = type_map
      /\ \/ /\ r.st = "ok" /\ symbols' = Push(symbols, r.out[1])
            /\ data_ptr' = r.ptr /\ phase' = phase
         \/ r.st # "ok" /\ phase' = r.st /\ symbols' = symbols /\ data_ptr' = data_ptr
  BY <1>1 DEF DecodeSymbol, deviceVars, Push
<1>3. read.symbols \in 1 .. program /\ program \in 1 .. Len(Programs)
  BY <1>2 DEF UploadInv, Answers, UploadTyped
<1>4. Sane(r)
  BY <1>1, SaneSymbolAt DEF UploadInv, UploadTyped
<1>5. r.st \in {"ok", "err", "panic"} /\ r.ptr \in Seq(Int)
  BY <1>4 DEF Sane
<1>6. phase' \in {"decode_symbols", "err", "panic"}
  BY <1>2, <1>5
<1>7. UploadTyped'
  BY <1>2, <1>5, <1>6 DEF UploadInv, UploadTyped, Phases
<1>8. FlawPlaced'
  BY <1>2 DEF UploadInv, FlawPlaced
<1>9. Answers'
  BY <1>2, <1>6 DEF UploadInv, Answers
<1>10. PICK n : n = read["symbols"]
  OBVIOUS
<1>11. n \in 1 .. Len(Programs) /\ SymbolsOf(read) = Programs[n].symbols
  BY <1>3, <1>10 DEF SymbolsOf
<1>12. ASSUME flaw.unit # 1
       PROVE  Turned(flaw, read, "symbols", SymbolsOf(read), symbols, r, FALSE)
  <2>1. Midway(flaw, read, "symbols", SymbolsOf(read), data_ptr, symbols)
    BY <1>2, <1>12 DEF UploadInv, Decoded
  <2>2. Turned(flaw, read, "symbols", SymbolsOf(read), symbols, SymbolAt(data_ptr), FALSE)
    BY <1>2, <1>10, <1>11, <2>1, SymbolsTurn
  <2> QED
    BY <1>1, <2>2
<1>13. Decoded'
  <2>1. SUFFICES ASSUME flaw.unit # 1, phase' = "decode_symbols"
                 PROVE  /\ TypesThrough(flaw, read, type_map)
                        /\ Midway(flaw, read, "symbols", SymbolsOf(read), data_ptr', symbols')
    BY <1>2, <1>6 DEF Decoded
  <2>2. TypesThrough(flaw, read, type_map)
    BY <1>2, <2>1 DEF UploadInv, Decoded
  <2>3. Turned(flaw, read, "symbols", SymbolsOf(read), symbols, r, FALSE)
    BY <1>12, <2>1
  <2>4. r.st = "ok" /\ symbols' = Push(symbols, r.out[1]) /\ data_ptr' = r.ptr
    BY <1>2, <1>5, <2>1
  <2> QED
    BY <2>2, <2>3, <2>4 DEF Turned
<1>14. FailedFor'
  <2>1. SUFFICES ASSUME phase' \in {"err", "panic"}, flaw = NoFlaw, read.sizes = read.symbols
                 PROVE  FALSE
    BY <1>2 DEF FailedFor
  <2>2. flaw.unit # 1
    BY <2>1 DEF NoFlaw
  <2>3. Turned(flaw, read, "symbols", SymbolsOf(read), symbols, r, FALSE)
    BY <1>12, <2>2
  <2>4. r.st # "ok" /\ phase' = r.st
    BY <1>2, <2>1
  <2> QED
    BY <2>1, <2>3, <2>4 DEF Turned
<1> QED
  BY <1>7, <1>8, <1>9, <1>13, <1>14 DEF UploadInv

(* The invariant is kept by SymbolsDecoded. *)
LEMMA KeptBySymbolsDecoded ==
  ASSUME UploadInv, SymbolsDecoded
  PROVE  UploadInv'
<1>1. /\ phase = "decode_symbols" /\ data_ptr = <<>> /\ phase' = "done"
      /\ program' = program /\ flaw' = flaw /\ checks' = checks /\ sizes' = sizes /\ read' = read
      /\ data' = data /\ data_ptr' = data_ptr /\ type_map' = type_map /\ symbols' = symbols
  BY DEF SymbolsDecoded, deviceVars, resultVars
<1>2. UploadTyped' /\ FlawPlaced' /\ FailedFor'
  BY <1>1 DEF UploadInv, UploadTyped, Phases, FlawPlaced, FailedFor
<1>3. Answers'
  BY <1>1 DEF UploadInv, Answers
<1>4. read.symbols \in 1 .. Len(Programs)
  BY <1>1 DEF UploadInv, Answers, UploadTyped
<1>5. Decoded'
  <2>1. SUFFICES ASSUME flaw.unit # 1
                 PROVE  /\ TypesThrough(flaw, read, type_map)
                        /\ Through(flaw, read, "symbols", SymbolsOf(read), symbols)
    BY <1>1 DEF Decoded
  <2>2. /\ TypesThrough(flaw, read, type_map)
        /\ Midway(flaw, read, "symbols", SymbolsOf(read), <<>>, symbols)
    BY <1>1, <2>1 DEF UploadInv, Decoded
  <2>3. Len(Entries(read["symbols"], "symbols")) = Len(SymbolsOf(read))
    BY <1>4, SymbolEntries DEF SymbolsOf
  <2> QED
    BY <2>2, <2>3, MidwayEnd
<1> QED
  BY <1>2, <1>3, <1>5 DEF UploadInv

(* The reply to a request for a type by its name. *)
LEMMA ReplyType ==
  ASSUME program \in 1 .. Len(Programs), NEW k \in DOMAIN Programs[program].types,
         NEW entry, entry = TypeEntry(Programs[program].types[k], 5), NEW reply, reply = Upto(entry, BufLen)
  PROVE  /\ k \in Nat /\ k # 0 /\ Programs[program].types[k] \in TypeRecord
         /\ entry \in Seq(Int) /\ entry # <<>> /\ reply \in Seq(Int) /\ reply # <<>>
         /\ Len(entry) \in Nat /\ Len(reply) \in Nat
<1>1. PICK ts \in Seq(TypeRecord) : ts = Programs[program].types
  BY ProgramType
<1>2. k \in 1 .. Len(ts) /\ ts[k] \in TypeRecord
  BY <1>1
<1>3. PICK t \in TypeRecord : t = ts[k]
  BY <1>2
<1>4. 5 \in Int
  OBVIOUS
<1>5. PICK body : Whole(TypeEntry(t, 5), body)
  BY <1>4, TypeEntryRead
<1>6. entry \in Seq(Int) /\ entry # <<>>
  BY <1>1, <1>3, <1>5, FramedType DEF Whole
<1>7. BufLen \in Nat /\ BufLen # 0
  BY SymbolUploadAssumption
<1>8. reply \in Seq(Int)
  BY <1>6, <1>7, UptoType
<1>9. Len(entry) \in Nat /\ Len(entry) # 0 /\ Len(reply) \in Nat
  BY <1>6, <1>8
<1>10. PICK m \in Nat : m = (IF BufLen < Len(entry) THEN BufLen ELSE Len(entry)) /\ m # 0 /\ m <= Len(entry)
  BY <1>7, <1>9
<1>11. reply = SubSeq(entry, 1, m)
  BY <1>10 DEF Upto
<1>12. Len(reply) = m
  BY <1>6, <1>10, <1>11
<1> QED
  BY <1>1, <1>2, <1>6, <1>8, <1>9, <1>10, <1>12

(* The invariant is kept by GetTypeByName. *)
LEMMA KeptByGetTypeByName ==
  ASSUME UploadInv, GetTypeByName
  PROVE  UploadInv'
<1>1. PICK k \in DOMAIN Programs[program].types :
        LET entry == TypeEntry(Programs[program].types[k], 5)
            reply == Upto(entry, BufLen)
        IN \E n \in {Len(entry), Len(reply)} :
             LET r == Lookup(reply, n)
             IN /\ read' = [read EXCEPT !.types = k]
                /\ typ' = r.out
                /\ phase' = IF r.st = "ok" THEN "found" ELSE r.st
  BY DEF GetTypeByName
<1>2. PICK entry : entry = TypeEntry(Programs[program].types[k], 5)
  OBVIOUS
<1>3. PICK reply : reply = Upto(entry, BufLen)
  OBVIOUS
<1>4. PICK n \in {Len(entry), Len(reply)} :
        /\ read' = [read EXCEPT !.types = k]
        /\ typ' = Lookup(reply, n).out
        /\ phase' = IF Lookup(reply, n).st = "ok" THEN "found" ELSE Lookup(reply, n).st
  BY <1>1, <1>2, <1>3
<1>5. /\ phase = "start" /\ program' = program /\ flaw' = flaw /\ checks' = checks /\ sizes' = sizes
      /\ data' = data /\ data_ptr' = data_ptr /\ type_map' = type_map /\ symbols' = symbols
  BY DEF GetTypeByName, deviceVars
<1>6. program \in 1 .. Len(Programs)
  BY DEF UploadInv, UploadTyped
<1>7. k \in Nat /\ reply \in Seq(Int) /\ reply # <<>> /\ n \in Nat
  BY <1>2, <1>3, <1>6, ReplyType
<1>8. Sane(Lookup(reply, n))
  BY <1>7, SaneLookup
<1>9. phase' \in {"found", "err", "panic"}
  BY <1>4, <1>8 DEF Sane
<1>10. read \in [sizes : Nat, types : Nat, symbols : Nat] /\ read.symbols = 0
  BY <1>5 DEF UploadInv, UploadTyped, Answers
<1>11. read' \in [sizes : Nat, types : Nat, symbols : Nat] /\ read'.symbols = 0
  BY <1>4, <1>7, <1>10
<1>12. UploadTyped'
  BY <1>5, <1>9, <1>11 DEF UploadInv, UploadTyped, Phases
<1>13. FlawPlaced'
  BY <1>5 DEF UploadInv, FlawPlaced
<1>14. Answers' /\ Decoded' /\ FailedFor'
  BY <1>9, <1>11 DEF Answers, Decoded, FailedFor
<1> QED
  BY <1>12, <1>13, <1>14 DEF UploadInv

(* The invariant is kept by a stuttering step. *)
LEMMA KeptByStutter ==
  ASSUME UploadInv, UNCHANGED vars
  PROVE  UploadInv'
<1>1. /\ program' = program /\ flaw' = flaw /\ checks' = checks /\ phase' = phase /\ sizes' = sizes
      /\ read' = read /\ data' = data /\ data_ptr' = data_ptr /\ type_map' = type_map
      /\ symbols' = symbols
  BY DEF vars, deviceVars, resultVars
<1>2. UploadTyped' /\ FlawPlaced'
  BY <1>1 DEF UploadInv, UploadTyped, FlawPlaced
<1>3. Answers'
  BY <1>1 DEF UploadInv, Answers
<1>4. Decoded'
  BY <1>1 DEF UploadInv, Decoded
<1>5. FailedFor'
  BY <1>1 DEF UploadInv, FailedFor, MayOverflow
<1> QED
  BY <1>2, <1>3, <1>4, <1>5 DEF UploadInv

(* Every step keeps the invariant. *)
LEMMA UploadStep ==
  ASSUME UploadInv, [Next]_vars
  PROVE  UploadInv'
<1>1. CASE Next
  BY <1>1, KeptByOnlineChange, KeptByReadSizes, KeptByReadTypes, KeptByReadSymbols,
     KeptByRequestFails, KeptByDecodeType, KeptByTypesDecoded, KeptByDecodeSymbol,
     KeptBySymbolsDecoded, KeptByGetTypeByName, KeptByStutter DEF Next, Finished
<1>2. CASE UNCHANGED vars
  BY <1>2, KeptByStutter
<1> QED
  BY <1>1, <1>2

(* How far an upload has come follows from the answers it got. *)
THEOREM Uploading == Spec => []UploadInv
<1>1. Init => UploadInv
  BY UploadStarts
<1>2. UploadInv /\ [Next]_vars => UploadInv'
  BY UploadStep
<1> QED
  BY <1>1, <1>2, PTL DEF Spec

-----------------------------------------------------------------------------
(* What an upload ends with. *)

(* Nothing is wrong in the table: the records are a beginning of it. *)
LEMMA GotUpto ==
  ASSUME NEW fl, NEW table, NEW S, NEW recs \in Seq(S), NEW m, NEW got,
         Got(fl, table, recs, m, got), fl.table # table
  PROVE  /\ m \in 0 .. Len(recs) /\ got = Upto(recs, m) /\ IsPrefix(got, recs)
         /\ m = Len(recs) => got = recs
<1>1. m \in Nat /\ got = [i \in 1 .. m |-> got[i]] /\ m <= Len(recs)
  BY DEF Got, Holds
<1>2. \A k \in 1 .. m : got[k] = recs[k]
  BY DEF Got, Spoilt
<1>3. PICK N \in Nat : N = Len(recs)
  OBVIOUS
<1>4. recs = [i \in 1 .. N |-> recs[i]] /\ \A i \in 1 .. N : recs[i] \in S
  BY <1>3
<1>5. got \in [1 .. m -> S]
  <2>1. ASSUME NEW i \in 1 .. m PROVE got[i] \in S
    <3>1. i \in 1 .. N
      BY <1>1, <1>3
    <3>2. got[i] = recs[i] /\ recs[i] \in S
      BY <1>2, <1>4, <3>1
    <3> QED
      BY <3>2
  <2> QED
    BY <1>1, <2>1
<1>6. got \in Seq(S) /\ Len(got) = m
  BY <1>1, <1>5
<1>7. SubSeq(recs, 1, m) = got
  <2>1. SubSeq(recs, 1, m) = [i \in 1 .. m |-> recs[i]]
    BY <1>1, <1>3
  <2> QED
    BY <1>1, <1>2, <2>1
<1>8. got = Upto(recs, m)
  BY <1>1, <1>3, <1>7 DEF Upto
<1>9. IsPrefix(got, recs)
  <2>1. SubSeq(got, 1, Len(got)) = got
    BY <1>6
  <2> QED
    BY <1>1, <1>3, <1>6, <1>7, <2>1 DEF IsPrefix
<1>10. m = N => got = recs
  BY <1>1, <1>2, <1>4
<1> QED
  BY <1>1, <1>3, <1>8, <1>9, <1>10

(* One record is wrong: the others are those of the table. *)
ButFor(a, b, n, k) ==
  /\ Holds(a, n) /\ Holds(b, n) /\ \A i \in 1 .. n : i # k => a[i] = b[i]

(* Two lists that agree but for one place agree once it is replaced. *)
LEMMA ButForEqual ==
  ASSUME NEW a, NEW b, NEW n, NEW k \in 1 .. n, ButFor(a, b, n, k), NEW x
  PROVE  [a EXCEPT ![k] = x] = [b EXCEPT ![k] = x]
<1>1. a = [i \in 1 .. n |-> a[i]] /\ b = [i \in 1 .. n |-> b[i]] /\ \A i \in 1 .. n : i # k => a[i] = b[i]
  BY DEF ButFor, Holds
<1> QED
  BY <1>1

(* What is decoded of a spoilt table differs in the spoilt entry only. *)
LEMMA GotBut ==
  ASSUME NEW fl, NEW table, NEW S, NEW recs \in Seq(S), NEW got,
         Got(fl, table, recs, Len(recs), got), fl.table = table
  PROVE  ButFor(got, recs, Len(recs), fl.entry)
<1>1. Holds(got, Len(recs)) /\ \A i \in 1 .. Len(recs) : i # fl.entry => got[i] = recs[i]
  BY DEF Got, Spoilt
<1>2. Holds(recs, Len(recs))
  BY DEF Holds
<1> QED
  BY <1>1, <1>2 DEF ButFor

(* What an upload that succeeded was made of. *)
LEMMA UploadDone ==
  ASSUME UploadInv, phase = "done"
  PROVE  /\ read.types \in 1 .. Len(Programs) /\ read.symbols \in 1 .. Len(Programs)
         /\ TypesOf(read) \in Seq(TypeRecord) /\ SymbolsOf(read) \in Seq(SymbolRecord)
         /\ flaw # NoFlaw => read.sizes = 1 /\ read.types = 1 /\ read.symbols = 1
         /\ flaw.unit # 1 => /\ TypesThrough(flaw, read, type_map)
                             /\ Through(flaw, read, "symbols", SymbolsOf(read), symbols)
<1>1. read.sizes \in 1 .. program /\ read.types \in 1 .. program /\ read.symbols \in 1 .. program
  BY DEF UploadInv, Answers
<1>2. program \in 1 .. Len(Programs) /\ read \in [sizes : Nat, types : Nat, symbols : Nat]
  BY DEF UploadInv, UploadTyped
<1>3. Len(Programs) \in Nat
  BY ProgramsAssumption
<1>4. read.types \in 1 .. Len(Programs) /\ read.symbols \in 1 .. Len(Programs)
  BY <1>1, <1>2, <1>3
<1>5. TypesOf(read) \in Seq(TypeRecord) /\ SymbolsOf(read) \in Seq(SymbolRecord)
  BY <1>4, ProgramType DEF TypesOf, SymbolsOf
<1>6. flaw # NoFlaw => program = 1
  BY DEF UploadInv, FlawPlaced
<1>7. flaw # NoFlaw => read.sizes = 1 /\ read.types = 1 /\ read.symbols = 1
  BY <1>1, <1>6
<1>8. flaw.unit # 1 => /\ TypesThrough(flaw, read, type_map)
                       /\ Through(flaw, read, "symbols", SymbolsOf(read), symbols)
  BY DEF UploadInv, Decoded
<1> QED
  BY <1>4, <1>5, <1>7, <1>8

(* Without a flaw no entry is spoilt. *)
LEMMA NoFlawIs == NoFlaw.unit # 1 /\ NoFlaw.table # "types" /\ NoFlaw.table # "symbols"
  BY DEF NoFlaw

(* The invariant implies each of the three properties of uploads. *)
LEMMA ExactlyUploaded ==
  ASSUME UploadInv
  PROVE  UploadExact
<1>1. SUFFICES ASSUME Ended, flaw = NoFlaw, read.symbols # 0, read.sizes = read.types,
                      read.types = read.symbols
               PROVE  \/ /\ phase = "done"
                         /\ symbols = Programs[read.sizes].symbols
                         /\ type_map = TypeMap(Programs[read.sizes].types)
                      \/ phase = "panic" /\ MayOverflow(read.sizes)
  BY DEF UploadExact
<1>2. phase # "found"
  BY <1>1 DEF UploadInv, Answers
<1>3. CASE phase \in {"err", "panic"}
  BY <1>1, <1>3 DEF UploadInv, FailedFor
<1>4. CASE phase = "done"
  <2>1. flaw.unit # 1 /\ flaw.table # "types" /\ flaw.table # "symbols"
    BY <1>1, NoFlawIs
  <2>2. /\ TypesOf(read) \in Seq(TypeRecord) /\ SymbolsOf(read) \in Seq(SymbolRecord)
        /\ TypesThrough(flaw, read, type_map)
        /\ Through(flaw, read, "symbols", SymbolsOf(read), symbols)
    BY <1>4, <2>1, UploadDone
  <2>3. read \in [sizes : Nat, types : Nat, symbols : Nat]
    BY DEF UploadInv, UploadTyped
  <2>4. read["sizes"] = read["types"] /\ read["sizes"] = read["symbols"]
    BY <1>1, <2>3
  <2>5. symbols = SymbolsOf(read)
    <3>1. PICK m : /\ Got(flaw, "symbols", SymbolsOf(read), m, symbols)
                   /\ read["sizes"] = read["symbols"] => m = Len(SymbolsOf(read))
      BY <2>2 DEF Through
    <3>2. m = Len(SymbolsOf(read))
      BY <2>4, <3>1
    <3> QED
      BY <2>1, <2>2, <3>1, <3>2, GotUpto
  <2>6. type_map = TypeMap(TypesOf(read))
    <3>1. PICK got : Through(flaw, read, "types", TypesOf(read), got) /\ type_map = TypeMap(got)
      BY <2>2 DEF TypesThrough
    <3>2. PICK m : /\ Got(flaw, "types", TypesOf(read), m, got)
                   /\ read["sizes"] = read["types"] => m = Len(TypesOf(read))
      BY <3>1 DEF Through
    <3>3. m = Len(TypesOf(read))
      BY <2>4, <3>2
    <3>4. got = TypesOf(read)
      BY <2>1, <2>2, <3>2, <3>3, GotUpto
    <3> QED
      BY <3>1, <3>4
  <2> QED
    BY <1>1, <1>4, <2>4, <2>5, <2>6 DEF TypesOf, SymbolsOf
<1> QED
  BY <1>1, <1>2, <1>3, <1>4 DEF Ended

(* The invariant implies each of the three properties of uploads. *)
LEMMA NothingPartial ==
  ASSUME UploadInv
  PROVE  NoPartialEntries
<1>1. SUFFICES ASSUME phase = "done", flaw = NoFlaw
               PROVE  /\ IsPrefix(symbols, SymbolsOf(read))
                      /\ \E m \in 0 .. Len(TypesOf(read)) : type_map = TypeMap(Upto(TypesOf(read), m))
  BY DEF NoPartialEntries, TypesOf, SymbolsOf
<1>2. flaw.unit # 1 /\ flaw.table # "types" /\ flaw.table # "symbols"
  BY <1>1, NoFlawIs
<1>3. /\ TypesOf(read) \in Seq(TypeRecord) /\ SymbolsOf(read) \in Seq(SymbolRecord)
      /\ TypesThrough(flaw, read, type_map)
      /\ Through(flaw, read, "symbols", SymbolsOf(read), symbols)
  BY <1>1, <1>2, UploadDone
<1>4. IsPrefix(symbols, SymbolsOf(read))
  <2>1. PICK m : Got(flaw, "symbols", SymbolsOf(read), m, symbols)
    BY <1>3 DEF Through
  <2> QED
    BY <1>2, <1>3, <2>1, GotUpto
<1>5. \E m \in 0 .. Len(TypesOf(read)) : type_map = TypeMap(Upto(TypesOf(read), m))
  <2>1. PICK got : Through(flaw, read, "types", TypesOf(read), got) /\ type_map = TypeMap(got)
    BY <1>3 DEF TypesThrough
  <2>2. PICK m : Got(flaw, "types", TypesOf(read), m, got)
    BY <2>1 DEF Through
  <2>3. m \in 0 .. Len(TypesOf(read)) /\ got = Upto(TypesOf(read), m)
    BY <1>2, <1>3, <2>2, GotUpto
  <2> QED
    BY <2>1, <2>3
<1> QED
  BY <1>4, <1>5

(* The invariant implies each of the three properties of uploads. *)
LEMMA Contained ==
  ASSUME UploadInv
  PROVE  FlawContained
<1>1. SUFFICES ASSUME phase = "done", flaw # NoFlaw, flaw.unit # 1
               PROVE  IF flaw.table = "types"
                      THEN /\ symbols = SymbolsOf(read)
                           /\ \E t \in Range(type_map) :
                                type_map = TypeMap([TypesOf(read) EXCEPT ![flaw.entry] = t])
                      ELSE /\ type_map = TypeMap(TypesOf(read))
                           /\ \E s \in ToSet(symbols) :
                                symbols = [SymbolsOf(read) EXCEPT ![flaw.entry] = s]
  BY DEF FlawContained, TypesOf, SymbolsOf
<1>2. PICK ts, ss : ts = TypesOf(read) /\ ss = SymbolsOf(read)
  OBVIOUS
<1>3. /\ ts \in Seq(TypeRecord) /\ ss \in Seq(SymbolRecord)
      /\ TypesThrough(flaw, read, type_map) /\ Through(flaw, read, "symbols", ss, symbols)
      /\ read.sizes = 1 /\ read.types = 1 /\ read.symbols = 1 /\ 1 \in 1 .. Len(Programs)
  BY <1>1, <1>2, UploadDone
<1>4. read["sizes"] = read["types"] /\ read["sizes"] = read["symbols"]
  BY <1>3
<1>5. Got(flaw, "symbols", ss, Len(ss), symbols)
  <2>1. PICK m : /\ Got(flaw, "symbols", ss, m, symbols)
                 /\ read["sizes"] = read["symbols"] => m = Len(ss)
    BY <1>3 DEF Through
  <2> QED
    BY <1>4, <2>1
<1>6. PICK got : Got(flaw, "types", ts, Len(ts), got) /\ type_map = TypeMap(got)
  <2>1. PICK g : Through(flaw, read, "types", ts, g) /\ type_map = TypeMap(g)
    BY <1>2, <1>3 DEF TypesThrough
  <2>2. PICK m : /\ Got(flaw, "types", ts, m, g)
                 /\ read["sizes"] = read["types"] => m = Len(ts)
    BY <2>1 DEF Through
  <2> QED
    BY <1>4, <2>1, <2>2
<1>7. flaw.table \in {"types", "symbols"} /\ flaw.entry \in 1 .. Len(Entries(1, flaw.table))
  BY <1>1 DEF UploadInv, FlawPlaced
<1>8. ts = Programs[1].types /\ ss = Programs[1].symbols
  BY <1>2, <1>3 DEF TypesOf, SymbolsOf
<1>9. PICK k : k = flaw.entry
  OBVIOUS
<1>10. CASE flaw.table = "types"
  <2>1. symbols = ss
    <3>1. flaw.table # "symbols"
      BY <1>10
    <3> QED
      BY <1>3, <1>5, <3>1, GotUpto
  <2>2. k \in 1 .. Len(ts)
    <3>1. Len(Entries(1, "types")) = Len(ts)
      BY <1>3, <1>8, TypeEntries
    <3> QED
      BY <1>7, <1>9, <1>10, <3>1
  <2>3. Holds(got, Len(ts))
    BY <1>6 DEF Got
  <2>4. PICK t \in Range(TypeMap(got)) : TypeMap(got) = TypeMap([got EXCEPT ![k] = t])
    BY <2>2, <2>3, MapReplaced
  <2>5. [got EXCEPT ![k] = t] = [ts EXCEPT ![k] = t]
    <3>1. ButFor(got, ts, Len(ts), k)
      BY <1>3, <1>6, <1>9, <1>10, GotBut
    <3> QED
      BY <2>2, <3>1, ButForEqual
  <2>6. t \in Range(type_map) /\ type_map = TypeMap([ts EXCEPT ![k] = t])
    BY <1>6, <2>4, <2>5
  <2> QED
    BY <1>2, <1>9, <1>10, <2>1, <2>6
<1>11. CASE flaw.table = "symbols"
  <2>1. got = ts
    <3>1. flaw.table # "types"
      BY <1>11
    <3> QED
      BY <1>3, <1>6, <3>1, GotUpto
  <2>2. k \in 1 .. Len(ss)
    <3>1. Len(Entries(1, "symbols")) = Len(ss)
      BY <1>3, <1>8, SymbolEntries
    <3> QED
      BY <1>7, <1>9, <1>11, <3>1
  <2>3. symbols = [i \in 1 .. Len(ss) |-> symbols[i]] /\ Len(ss) \in Nat
    BY <1>5 DEF Got, Holds
  <2>4. PICK s : s = symbols[k]
    OBVIOUS
  <2>5. s \in ToSet(symbols)
    BY <2>2, <2>3, <2>4 DEF ToSet
  <2>6. [symbols EXCEPT ![k] = s] = [ss EXCEPT ![k] = s]
    <3>1. ButFor(symbols, ss, Len(ss), k)
      BY <1>3, <1>5, <1>9, <1>11, GotBut
    <3> QED
      BY <2>2, <3>1, ButForEqual
  <2>7. [symbols EXCEPT ![k] = s] = symbols
    BY <2>2, <2>3, <2>4
  <2>8. symbols = [ss EXCEPT ![k] = s]
    BY <2>6, <2>7
  <2> QED
    BY <1>2, <1>6, <1>9, <1>11, <2>1, <2>5, <2>8
<1> QED
  BY <1>7, <1>10, <1>11

(* get_symbol_info: an upload no online change comes between ends with     *)
(* exactly the tables of the program, for every program; only a build with *)
(* overflow checks panics, on an array that ends at i32::MAX.              *)
THEOREM ExactUpload == Spec => []UploadExact
  BY Uploading, ExactlyUploaded, PTL

(* Whatever online changes come between the requests, an upload that       *)
(* succeeds has no entry made of a part of one.                            *)
THEOREM WholeEntries == Spec => []NoPartialEntries
  BY Uploading, NothingPartial, PTL

(* A wrong unit inside an entry, but for its length, spoils that entry     *)
(* only.                                                                   *)
THEOREM ContainedFlaw == Spec => []FlawContained
  BY Uploading, Contained, PTL

-----------------------------------------------------------------------------
(* An entry that is cut: what the parsers read of a part of their input,   *)
(* side by side with what they read of all of it.                          *)

(* b is a beginning of a. *)
Begins(b, a) ==
  /\ a \in Seq(Int) /\ b \in Seq(Int) /\ Len(b) <= Len(a) /\ \A i \in 1 .. Len(b) : b[i] = a[i]

(* Beginnings behind the same number of units. *)
LEMMA BeginsDrop ==
  ASSUME NEW a, NEW b, Begins(b, a), NEW n \in Nat
  PROVE  Begins(Drop(b, n), Drop(a, n))
<1>1. a \in Seq(Int) /\ b \in Seq(Int)
  BY DEF Begins
<1>2. PICK la \in Nat, lb \in Nat : la = Len(a) /\ lb = Len(b)
  BY <1>1
<1>3. lb <= la /\ \A i \in 1 .. lb : b[i] = a[i]
  BY <1>2 DEF Begins
<1>4. PICK d, e : d = Drop(a, n) /\ e = Drop(b, n)
  OBVIOUS
<1>5. d \in Seq(Int) /\ e \in Seq(Int)
  BY <1>1, <1>4, DropType
<1>6. CASE lb <= n
  <2>1. e = <<>>
    BY <1>1, <1>2, <1>4, <1>6 DEF Drop
  <2>2. Len(e) = 0 /\ Len(d) \in Nat
    BY <1>5, <2>1
  <2> QED
    BY <1>4, <1>5, <2>2 DEF Begins
<1>7. CASE n < lb
  <2>1. Len(e) = lb - n /\ \A i \in 1 .. lb - n : e[i] = b[n + i]
    BY <1>1, <1>2, <1>4, <1>7 DEF Drop
  <2>4. n < la
    BY <1>3, <1>7
  <2>2. Len(d) = la - n /\ \A i \in 1 .. la - n : d[i] = a[n + i]
    BY <1>1, <1>2, <1>4, <2>4 DEF Drop
  <2>3. \A i \in 1 .. lb - n : e[i] = d[i]
    <3>1. SUFFICES ASSUME NEW i \in 1 .. lb - n PROVE e[i] = d[i]
      OBVIOUS
    <3>2. n + i \in 1 .. lb /\ i \in 1 .. la - n
      BY <1>3, <1>7
    <3> QED
      BY <1>3, <2>1, <2>2, <3>2
  <2> QED
    BY <1>3, <1>4, <1>5, <1>7, <2>1, <2>2, <2>3 DEF Begins
<1> QED
  BY <1>6, <1>7

(* The first n units. *)
LEMMA UptoIs ==
  ASSUME NEW s \in Seq(Int), NEW n \in Nat
  PROVE  /\ Upto(s, n) \in Seq(Int)
         /\ Len(Upto(s, n)) = (IF n < Len(s) THEN n ELSE Len(s))
         /\ \A i \in 1 .. Len(Upto(s, n)) : Upto(s, n)[i] = s[i]
<1>1. PICK N \in Nat : N = Len(s)
  OBVIOUS
<1>2. PICK m \in Nat : m = IF n < N THEN n ELSE N
  OBVIOUS
<1>3. Upto(s, n) = SubSeq(s, 1, m)
  BY <1>1, <1>2 DEF Upto
<1>4. m <= N
  BY <1>2
<1>5. SubSeq(s, 1, m) \in Seq(Int) /\ Len(SubSeq(s, 1, m)) = m /\ \A i \in 1 .. m : SubSeq(s, 1, m)[i] = s[i]
  BY <1>1, <1>4
<1> QED
  BY <1>1, <1>2, <1>3, <1>5

(* Beginnings of the same length at most. *)
LEMMA BeginsUpto ==
  ASSUME NEW a, NEW b, Begins(b, a), NEW n \in Nat
  PROVE  Begins(Upto(b, n), Upto(a, n))
<1>1. a \in Seq(Int) /\ b \in Seq(Int) /\ Len(b) <= Len(a) /\ \A i \in 1 .. Len(b) : b[i] = a[i]
  BY DEF Begins
<1>2. PICK d, e : d = Upto(a, n) /\ e = Upto(b, n)
  OBVIOUS
<1>3. d \in Seq(Int) /\ Len(d) = (IF n < Len(a) THEN n ELSE Len(a)) /\ \A i \in 1 .. Len(d) : d[i] = a[i]
  BY <1>1, <1>2, UptoIs
<1>4. e \in Seq(Int) /\ Len(e) = (IF n < Len(b) THEN n ELSE Len(b)) /\ \A i \in 1 .. Len(e) : e[i] = b[i]
  BY <1>1, <1>2, UptoIs
<1>5. Len(a) \in Nat /\ Len(b) \in Nat
  BY <1>1
<1>6. Len(e) <= Len(d) /\ Len(e) <= Len(b) /\ Len(e) \in Nat /\ Len(d) \in Nat
  BY <1>1, <1>3, <1>4, <1>5
<1>7. ASSUME NEW i \in 1 .. Len(e) PROVE e[i] = d[i]
  <2>1. i \in 1 .. Len(d) /\ i \in 1 .. Len(b)
    BY <1>5, <1>6
  <2> QED
    BY <1>1, <1>3, <1>4, <2>1
<1> QED
  BY <1>2, <1>3, <1>4, <1>6, <1>7 DEF Begins

(* What is there entirely is the same. *)
LEMMA BeginsSame ==
  ASSUME NEW a, NEW b, Begins(b, a), NEW n \in 0 .. Len(b)
  PROVE  Upto(b, n) = Upto(a, n) /\ n <= Len(a) /\ n \in Nat
<1>1. a \in Seq(Int) /\ b \in Seq(Int) /\ Len(b) <= Len(a) /\ \A i \in 1 .. Len(b) : b[i] = a[i]
  BY DEF Begins
<1>10. Len(a) \in Nat /\ Len(b) \in Nat
  BY <1>1
<1>2. n \in Nat /\ n <= Len(b) /\ n <= Len(a)
  BY <1>1, <1>10
<1>3. PICK d, e : d = Upto(a, n) /\ e = Upto(b, n)
  OBVIOUS
<1>8. PICK la \in Nat, lb \in Nat : la = Len(a) /\ lb = Len(b)
  BY <1>1
<1>9. n <= la /\ n <= lb
  BY <1>2, <1>8
<1>4. d \in Seq(Int) /\ Len(d) = n /\ \A i \in 1 .. n : d[i] = a[i]
  <2>1. d = SubSeq(a, 1, n)
    BY <1>3, <1>8, <1>9 DEF Upto
  <2> QED
    BY <1>1, <1>2, <1>8, <1>9, <2>1
<1>5. e \in Seq(Int) /\ Len(e) = n /\ \A i \in 1 .. n : e[i] = b[i]
  <2>1. e = SubSeq(b, 1, n)
    BY <1>3, <1>8, <1>9 DEF Upto
  <2> QED
    BY <1>1, <1>2, <1>8, <1>9, <2>1
<1>6. \A i \in 1 .. n : e[i] = d[i]
  <2>1. \A i \in 1 .. n : i \in 1 .. Len(b)
    BY <1>2, <1>10
  <2> QED
    BY <1>1, <1>4, <1>5, <2>1
<1>7. d = e
  <2>1. d = [i \in 1 .. n |-> d[i]] /\ e = [i \in 1 .. n |-> e[i]]
    BY <1>4, <1>5
  <2> QED
    BY <1>6, <2>1
<1> QED
  BY <1>2, <1>3, <1>7

(* Beginnings behind the same number of units. *)
LEMMA BeginsTail ==
  ASSUME NEW a, NEW b, Begins(b, a), b # <<>>
  PROVE  a # <<>> /\ a[1] = b[1] /\ Begins(Tail(b), Tail(a))
<1>1. a \in Seq(Int) /\ b \in Seq(Int) /\ Len(b) <= Len(a) /\ \A i \in 1 .. Len(b) : b[i] = a[i]
  BY DEF Begins
<1>2. Len(b) \in Nat \ {0} /\ Len(a) \in Nat \ {0}
  BY <1>1
<1>3. a # <<>> /\ a[1] = b[1]
  BY <1>1, <1>2
<1>4. Tail(a) = Drop(a, 1) /\ Tail(b) = Drop(b, 1)
  BY <1>1, <1>2 DEF Drop
<1>5. Begins(Drop(b, 1), Drop(a, 1))
  BY BeginsDrop
<1> QED
  BY <1>3, <1>4, <1>5

(* The community modules say IsPrefix. *)
LEMMA BeginsPrefix ==
  ASSUME NEW a, NEW b, Begins(b, a)
  PROVE  IsPrefix(b, a)
<1>1. a \in Seq(Int) /\ b \in Seq(Int) /\ Len(b) <= Len(a) /\ \A i \in 1 .. Len(b) : b[i] = a[i]
  BY DEF Begins
<1>2. PICK n \in Nat : n = Len(b)
  BY <1>1
<1>3. SubSeq(b, 1, n) = b
  BY <1>1, <1>2
<1>4. SubSeq(a, 1, n) \in Seq(Int) /\ Len(SubSeq(a, 1, n)) = n /\ \A i \in 1 .. n : SubSeq(a, 1, n)[i] = a[i]
  BY <1>1, <1>2
<1>5. SubSeq(a, 1, n) = b
  BY <1>1, <1>2, <1>4
<1> QED
  BY <1>1, <1>2, <1>3, <1>5 DEF IsPrefix

-----------------------------------------------------------------------------
(* What is read of a part, y, and what is read of all, x: the same, or cut *)
(* in its strings.                                                         *)

(* A value of a list, or a string. *)
ItemLike(kind, x, y) ==
  \/ kind = "same" /\ x = y
  \/ kind = "string" /\ Begins(y, x)
  \/ kind = "attribute" /\ Begins(y.name, x.name) /\ Begins(y.value, x.value)
  \/ kind = "any"

ListLike(kind, x, y) ==
  \E m : Holds(x, m) /\ Holds(y, m) /\ \A j \in 1 .. m : ItemLike(kind, x[j], y[j])

OptionLike(kind, x, y) ==
  \/ x = None /\ y = None
  \/ \E v, w : x = Some(v) /\ y = Some(w) /\ ListLike(kind, v, w)

(* Any value read. *)
Like(kind, x, y) ==
  \/ ItemLike(kind, x, y)
  \/ kind = "attributes" /\ ListLike("attribute", x, y)
  \/ kind = "values" /\ ListLike("any", x, y)
  \/ kind = "attributes_option" /\ OptionLike("attribute", x, y)
  \/ kind = "values_option" /\ OptionLike("any", x, y)

Alike(o, u, n, f) == Holds(o, n) /\ Holds(u, n) /\ \A i \in 1 .. n : Like(f[i], o[i], u[i])

(* Where q has come with a part of the input p has, unless q failed: n     *)
(* values are read, the i-th of the kind f[i].                             *)
Follows(p, q, n, f) ==
  \/ q.st # "ok"
  \/ \E a, b, o, u : At(p, a, o) /\ At(q, b, u) /\ Begins(b, a) /\ Alike(o, u, n, f)

(* One value more on both sides. *)
LEMMA AlikeMore ==
  ASSUME NEW o, NEW u, NEW n, NEW f, Alike(o, u, n, f), NEW x, NEW y, NEW m, m = n + 1,
         Like(f[m], x, y)
  PROVE  Alike(Push(o, x), Push(u, y), m, f)
<1>1. Holds(o, n) /\ Holds(u, n) /\ \A i \in 1 .. n : Like(f[i], o[i], u[i])
  BY DEF Alike
<1>2. n \in Nat
  BY <1>1 DEF Holds
<1>3. PICK a, b : a = Push(o, x) /\ b = Push(u, y)
  OBVIOUS
<1>4. More(a, o, m, x) /\ More(b, u, m, y)
  BY <1>1, <1>3, Grown
<1>5. Holds(a, m) /\ a[m] = x /\ \A i \in 1 .. m - 1 : a[i] = o[i]
  BY <1>4 DEF More
<1>6. Holds(b, m) /\ b[m] = y /\ \A i \in 1 .. m - 1 : b[i] = u[i]
  BY <1>4 DEF More
<1>7. m - 1 = n /\ \A i \in 1 .. m : i = m \/ i \in 1 .. n
  BY <1>2
<1>8. ASSUME NEW i \in 1 .. m PROVE Like(f[i], a[i], b[i])
  <2>1. CASE i = m
    BY <1>5, <1>6, <2>1
  <2>2. CASE i \in 1 .. n
    BY <1>1, <1>5, <1>6, <1>7, <2>2
  <2> QED
    BY <1>7, <2>1, <2>2
<1> QED
  BY <1>3, <1>5, <1>6, <1>8 DEF Alike

(* Both read a value more. *)
LEMMA BothOn ==
  ASSUME NEW o, NEW u, NEW n, NEW f, Alike(o, u, n, f), NEW x, NEW y, NEW m, m = n + 1,
         Like(f[m], x, y), NEW p, NEW q, NEW a, NEW b, At(p, a, Push(o, x)), At(q, b, Push(u, y)),
         Begins(b, a)
  PROVE  Follows(p, q, m, f)
<1>1. PICK v, w : v = Push(o, x) /\ w = Push(u, y)
  OBVIOUS
<1>2. Alike(v, w, m, f)
  BY <1>1, AlikeMore
<1>3. At(p, a, v) /\ At(q, b, w)
  BY <1>1
<1> QED
  BY <1>2, <1>3 DEF Follows

(* Values of the kind "same" are equal. *)
LEMMA SameValue ==
  ASSUME NEW o, NEW u, NEW n, NEW f, Alike(o, u, n, f), NEW k \in 1 .. n, f[k] = "same"
  PROVE  o[k] = u[k]
<1>1. Like(f[k], o[k], u[k])
  BY DEF Alike
<1> QED
  BY <1>1 DEF Like, ItemLike

(* A fresh parser reads integers. *)
LEMMA IntsFollow ==
  ASSUME NEW a, NEW b, Begins(b, a), NEW n \in Nat, NEW f, \A i \in 1 .. n : f[i] = "same"
  PROVE  Follows(Ints(Start(a), n), Ints(Start(b), n), n, f)
<1>1. PICK p, q : p = Start(a) /\ q = Start(b)
  OBVIOUS
<1>2. At(p, a, <<>>) /\ At(q, b, <<>>)
  BY <1>1, StartAt
<1>3. a \in Seq(Int) /\ b \in Seq(Int) /\ Len(b) <= Len(a)
  BY DEF Begins
<1>4. CASE Len(b) < n
  <2>1. Ints(q, n) = Stop(q, "err")
    BY <1>2, <1>4 DEF Ints, At
  <2>2. Ints(q, n).st # "ok"
    BY <1>2, <2>1 DEF Stop, At
  <2> QED
    BY <1>1, <2>2 DEF Follows
<1>5. CASE ~(Len(b) < n)
  <2>1. n \in 0 .. Len(b) /\ ~(Len(a) < n)
    BY <1>3, <1>5
  <2>2. PICK h : h = Upto(b, n)
    OBVIOUS
  <2>3. h = Upto(a, n) /\ h \in Seq(Int) /\ Len(h) = n
    BY <1>3, <1>5, <2>1, <2>2, BeginsSame, UptoIs
  <2>4. <<>> \o h = h
    BY <2>3
  <2>5. PICK c, d : c = Drop(a, n) /\ d = Drop(b, n)
    OBVIOUS
  <2>6. Begins(d, c)
    BY <2>5, BeginsDrop
  <2>7. At(Ints(p, n), c, h)
    <3>1. p.st = "ok" /\ p.ptr = a /\ p.out = <<>>
      BY <1>2 DEF At
    <3>2. Ints(p, n) = [p EXCEPT !.ptr = Drop(p.ptr, n), !.out = p.out \o Upto(p.ptr, n)]
      BY <2>1, <3>1 DEF Ints
    <3>3. Ints(p, n) = [p EXCEPT !.ptr = c, !.out = h]
      BY <2>3, <2>4, <2>5, <3>1, <3>2
    <3> QED
      BY <1>2, <3>3 DEF At
  <2>8. At(Ints(q, n), d, h)
    <3>1. q.st = "ok" /\ q.ptr = b /\ q.out = <<>>
      BY <1>2 DEF At
    <3>2. Ints(q, n) = [q EXCEPT !.ptr = Drop(q.ptr, n), !.out = q.out \o Upto(q.ptr, n)]
      BY <1>5, <3>1 DEF Ints
    <3>3. Ints(q, n) = [q EXCEPT !.ptr = d, !.out = h]
      BY <2>2, <2>4, <2>5, <3>1, <3>2
    <3> QED
      BY <1>2, <3>3 DEF At
  <2>9. Alike(h, h, n, f)
    <3>1. Holds(h, n)
      BY <2>3, SeqHolds
    <3>2. \A i \in 1 .. n : Like(f[i], h[i], h[i])
      BY DEF Like, ItemLike
    <3> QED
      BY <3>1, <3>2 DEF Alike
  <2> QED
    BY <1>1, <2>6, <2>7, <2>8, <2>9 DEF Follows
<1> QED
  BY <1>4, <1>5

(* A string. *)
LEMMA StrStep ==
  ASSUME NEW p, NEW ptr, NEW o, At(p, ptr, o), NEW k, NEW n \in Nat, o[k] = n, n \in 0 .. MaxStrLen
  PROVE  At(read_str(p, k), Drop(ptr, n + 1), Push(o, Upto(ptr, n)))
<1>1. p.st = "ok" /\ p.ptr = ptr /\ p.out = o
  BY DEF At
<1>2. PICK d, s : d = Drop(ptr, n + 1) /\ s = Upto(ptr, n)
  OBVIOUS
<1>3. read_str(p, k) = [p EXCEPT !.ptr = Drop(p.ptr, p.out[k] + 1), !.out = Append(p.out, Upto(p.ptr, p.out[k]))]
  BY <1>1 DEF read_str
<1>4. read_str(p, k) = [p EXCEPT !.ptr = d, !.out = Push(o, s)]
  BY <1>1, <1>2, <1>3 DEF Push
<1>5. At(read_str(p, k), d, Push(o, s))
  BY <1>4 DEF At
<1> QED
  BY <1>2, <1>5

(* A string: cut at most, and then at the end of the part. *)
LEMMA StrFollow ==
  ASSUME NEW p, NEW q, NEW n, NEW f, Follows(p, q, n, f), NEW k \in 1 .. n, f[k] = "same",
         NEW m, m = n + 1, f[m] = "string"
  PROVE  Follows(read_str(p, k), read_str(q, k), m, f)
<1>1. CASE q.st # "ok"
  BY <1>1 DEF read_str, Follows
<1>2. CASE q.st = "ok"
  <2>1. PICK a, b, o, u : At(p, a, o) /\ At(q, b, u) /\ Begins(b, a) /\ Alike(o, u, n, f)
    BY <1>2 DEF Follows
  <2>2. PICK c : c = o[k]
    OBVIOUS
  <2>3. o[k] = c /\ u[k] = c
    BY <2>1, <2>2, SameValue
  <2>4. CASE c \notin 0 .. MaxStrLen
    <3>1. read_str(q, k) = Stop(q, "err")
      BY <2>1, <2>3, <2>4 DEF read_str, At
    <3>2. read_str(q, k).st # "ok"
      BY <2>1, <3>1 DEF Stop, At
    <3> QED
      BY <3>2 DEF Follows
  <2>5. CASE c \in 0 .. MaxStrLen
    <3>1. c \in Nat /\ c + 1 \in Nat
      BY <2>5, TypeInfoAssumption
    <3>2. PICK x, y, d, e : x = Upto(a, c) /\ y = Upto(b, c) /\ d = Drop(a, c + 1) /\ e = Drop(b, c + 1)
      OBVIOUS
    <3>3. At(read_str(p, k), d, Push(o, x))
      BY <2>1, <2>3, <2>5, <3>1, <3>2, StrStep
    <3>4. At(read_str(q, k), e, Push(u, y))
      BY <2>1, <2>3, <2>5, <3>1, <3>2, StrStep
    <3>5. Begins(y, x) /\ Begins(e, d)
      BY <2>1, <3>1, <3>2, BeginsUpto, BeginsDrop
    <3>6. Like(f[m], x, y)
      BY <3>5 DEF Like, ItemLike
    <3> QED
      BY <2>1, <3>3, <3>4, <3>5, <3>6, BothOn
  <2> QED
    BY <2>4, <2>5
<1> QED
  BY <1>1, <1>2

(* A record, read by r of all and by s of a part, that becomes x or y. *)
Yields(r, s, kind, x, y) == s.st = "ok" => r.st = "ok" /\ Begins(s.ptr, r.ptr) /\ Like(kind, x, y)

(* A record is read. *)
LEMMA RecordOn ==
  ASSUME NEW p, NEW ptr, NEW o, At(p, ptr, o), NEW r, r.st = "ok", NEW x, NEW q, RecordRead(p, r, x, q)
  PROVE  At(q, r.ptr, Push(o, x))
<1>1. q = [p EXCEPT !.ptr = r.ptr, !.out = Append(p.out, x)]
  BY DEF RecordRead, At
<1>2. q = [p EXCEPT !.ptr = r.ptr, !.out = Push(o, x)]
  BY <1>1 DEF At, Push
<1> QED
  BY <1>2 DEF At

(* Both parsers read a record. *)
LEMMA RecordFollow ==
  ASSUME NEW p, NEW q, NEW n, NEW f, Follows(p, q, n, f), NEW m, m = n + 1,
         NEW r, NEW s, NEW x, NEW y, NEW v, NEW w, RecordRead(p, r, x, v), RecordRead(q, s, y, w),
         p.st = "ok" /\ q.st = "ok" => Yields(r, s, f[m], x, y)
  PROVE  Follows(v, w, m, f)
<1>1. CASE q.st # "ok"
  BY <1>1 DEF RecordRead, Follows
<1>2. CASE q.st = "ok"
  <2>1. PICK a, b, o, u : At(p, a, o) /\ At(q, b, u) /\ Begins(b, a) /\ Alike(o, u, n, f)
    BY <1>2 DEF Follows
  <2>2. p.st = "ok" /\ Yields(r, s, f[m], x, y)
    BY <1>2, <2>1 DEF At
  <2>3. CASE s.st # "ok"
    <3>1. w = Stop(q, s.st)
      BY <1>2, <2>3 DEF RecordRead
    <3>2. w.st # "ok"
      BY <2>1, <2>3, <3>1 DEF Stop, At
    <3> QED
      BY <3>2 DEF Follows
  <2>4. CASE s.st = "ok"
    <3>1. r.st = "ok" /\ Begins(s.ptr, r.ptr) /\ Like(f[m], x, y)
      BY <2>2, <2>4 DEF Yields
    <3>2. PICK d, e : d = r.ptr /\ e = s.ptr
      OBVIOUS
    <3>3. At(v, d, Push(o, x))
      BY <2>1, <3>1, <3>2, RecordOn
    <3>4. At(w, e, Push(u, y))
      BY <2>1, <2>4, <3>2, RecordOn
    <3>5. Begins(e, d) /\ Like(f[m], x, y)
      BY <3>1, <3>2
    <3> QED
      BY <2>1, <3>3, <3>4, <3>5, BothOn
  <2> QED
    BY <2>3, <2>4
<1> QED
  BY <1>1, <1>2

(* The values read, and what is left. *)
LEMMA FollowsPtr ==
  ASSUME NEW p, NEW q, NEW n, NEW f, Follows(p, q, n, f), q.st = "ok"
  PROVE  p.st = "ok" /\ Begins(q.ptr, p.ptr)
  BY DEF Follows, At

(* What a parser of a part that did not fail has read. *)
LEMMA FollowsOut ==
  ASSUME NEW p, NEW q, NEW n, NEW f, Follows(p, q, n, f), q.st = "ok"
  PROVE  Alike(p.out, q.out, n, f)
  BY DEF Follows, At

(* Both parsers start. *)
LEMMA StartFollow ==
  ASSUME NEW a, NEW b, Begins(b, a), NEW f
  PROVE  Follows(Start(a), Start(b), 0, f)
<1>1. At(Start(a), a, <<>>) /\ At(Start(b), b, <<>>)
  BY StartAt
<1>2. Alike(<<>>, <<>>, 0, f)
  BY DEF Alike, Holds
<1> QED
  BY <1>1, <1>2 DEF Follows

(* q is p with the entry x read by r. *)
EntryIn(p, r, x, q) ==
  IF p.st # "ok" THEN q = p
  ELSE IF p.ptr = <<>> THEN q = Stop(p, "err")
  ELSE IF p.ptr[1] = 0 THEN q = Stop(p, "err")
  ELSE IF ~SplitFits(Tail(p.ptr), p.ptr[1] - 1) THEN q = Stop(p, "panic")
  ELSE IF r.st # "ok" THEN q = Stop(p, r.st)
  ELSE q = [p EXCEPT !.ptr = Drop(Tail(p.ptr), p.ptr[1] - 1), !.out = Append(@, x)]

(* A stopped parser does not go on. *)
LEMMA Stopped ==
  ASSUME NEW p, NEW ptr, NEW o, At(p, ptr, o), NEW how, how # "ok"
  PROVE  Stop(p, how).st # "ok"
  BY DEF At, Stop

(* An entry is there entirely, or the parser of the part fails. *)
LEMMA EntryFollow ==
  ASSUME NEW p, NEW q, NEW n, NEW f, Follows(p, q, n, f), NEW m, m = n + 1, f[m] = "same",
         NEW r, NEW s, NEW x, NEW y, NEW v, NEW w, EntryIn(p, r, x, v), EntryIn(q, s, y, w),
         EntryBody(p.ptr) = EntryBody(q.ptr) => r = s /\ x = y
  PROVE  Follows(v, w, m, f)
<1>1. CASE q.st # "ok"
  BY <1>1 DEF EntryIn, Follows
<1>2. CASE q.st = "ok"
  <2>1. PICK a, b, o, u : At(p, a, o) /\ At(q, b, u) /\ Begins(b, a) /\ Alike(o, u, n, f)
    BY <1>2 DEF Follows
  <2>2. p.st = "ok" /\ p.ptr = a /\ q.ptr = b /\ p.out = o /\ q.out = u
    BY <2>1 DEF At
  <2>3. SUFFICES ASSUME b # <<>>, b[1] # 0, SplitFits(Tail(b), b[1] - 1), s.st = "ok"
                 PROVE  Follows(v, w, m, f)
    <3>1. CASE w = Stop(q, "err") \/ w = Stop(q, "panic")
      BY <2>1, <3>1, Stopped DEF Follows
    <3>2. CASE s.st # "ok" /\ w = Stop(q, s.st)
      BY <2>1, <3>2, Stopped DEF Follows
    <3> QED
      BY <1>2, <2>2, <2>3, <3>1, <3>2 DEF EntryIn
  <2>4. PICK j, c, d : j = b[1] - 1 /\ c = Tail(a) /\ d = Tail(b)
    OBVIOUS
  <2>5. a # <<>> /\ a[1] = b[1] /\ Begins(d, c)
    BY <2>1, <2>3, <2>4, BeginsTail
  <2>6. j \in 0 .. Len(d)
    BY <2>3, <2>4 DEF SplitFits
  <2>7. Upto(d, j) = Upto(c, j) /\ j <= Len(c) /\ j \in Nat
    BY <2>5, <2>6, BeginsSame
  <2>8. EntryBody(p.ptr) = EntryBody(q.ptr)
    BY <2>2, <2>4, <2>5, <2>7 DEF EntryBody
  <2>9. r = s /\ x = y
    BY <2>8
  <2>10. SplitFits(Tail(a), a[1] - 1)
    <3>1. Len(c) \in Nat
      BY <2>5 DEF Begins
    <3>2. j \in 0 .. Len(c)
      BY <2>7, <3>1
    <3> QED
      BY <2>4, <2>5, <3>2 DEF SplitFits
  <2>11. PICK g, h : g = Drop(c, j) /\ h = Drop(d, j)
    OBVIOUS
  <2>12. Begins(h, g)
    BY <2>5, <2>7, <2>11, BeginsDrop
  <2>13. At(v, g, Push(o, x))
    <3>1. v = [p EXCEPT !.ptr = Drop(Tail(p.ptr), p.ptr[1] - 1), !.out = Append(p.out, x)]
      BY <2>2, <2>3, <2>5, <2>9, <2>10 DEF EntryIn
    <3>2. v = [p EXCEPT !.ptr = g, !.out = Push(o, x)]
      BY <2>2, <2>4, <2>5, <2>11, <3>1 DEF Push
    <3> QED
      BY <2>1, <3>2 DEF At
  <2>14. At(w, h, Push(u, y))
    <3>1. w = [q EXCEPT !.ptr = Drop(Tail(q.ptr), q.ptr[1] - 1), !.out = Append(q.out, y)]
      BY <1>2, <2>2, <2>3 DEF EntryIn
    <3>2. w = [q EXCEPT !.ptr = h, !.out = Push(u, y)]
      BY <2>2, <2>4, <2>11, <3>1 DEF Push
    <3> QED
      BY <2>1, <3>2 DEF At
  <2>15. Like(f[m], x, y)
    BY <2>9 DEF Like, ItemLike
  <2> QED
    BY <2>1, <2>12, <2>13, <2>14, <2>15, BothOn
<1> QED
  BY <1>1, <1>2

(* Both parsers read an optional section, or neither. *)
LEMMA FlagFollow ==
  ASSUME NEW p, NEW q, NEW n, NEW f, Follows(p, q, n, f), NEW k \in 1 .. n, f[k] = "same",
         NEW m, m = n + 1, NEW mask, NEW r, NEW s, NEW v, NEW w,
         FlagRead(p, k, mask, r, v), FlagRead(q, k, mask, s, w),
         p.st = "ok" /\ q.st = "ok" => Yields(r, s, f[m], r.out, s.out),
         Like(f[m], None, None)
  PROVE  Follows(v, w, m, f)
<1>1. CASE q.st # "ok"
  BY <1>1 DEF FlagRead, Follows
<1>2. CASE q.st = "ok"
  <2>1. PICK a, b, o, u : At(p, a, o) /\ At(q, b, u) /\ Begins(b, a) /\ Alike(o, u, n, f)
    BY <1>2 DEF Follows
  <2>2. p.st = "ok" /\ p.out = o /\ q.out = u
    BY <2>1 DEF At
  <2>3. o[k] = u[k]
    BY <2>1, SameValue
  <2>4. CASE Bit(o[k], mask)
    <3>1. RecordRead(p, r, r.out, v)
      BY <2>2, <2>4 DEF FlagRead
    <3>2. RecordRead(q, s, s.out, w)
      BY <1>2, <2>2, <2>3, <2>4 DEF FlagRead
    <3>3. PICK x, y : x = r.out /\ y = s.out
      OBVIOUS
    <3>4. RecordRead(p, r, x, v) /\ RecordRead(q, s, y, w)
      BY <3>1, <3>2, <3>3
    <3>5. p.st = "ok" /\ q.st = "ok" => Yields(r, s, f[m], x, y)
      BY <3>3
    <3> QED
      BY <3>4, <3>5, RecordFollow
  <2>5. CASE ~Bit(o[k], mask)
    <3>1. v = [p EXCEPT !.out = Append(p.out, None)]
      BY <2>2, <2>5 DEF FlagRead
    <3>2. w = [q EXCEPT !.out = Append(q.out, None)]
      BY <1>2, <2>2, <2>3, <2>5 DEF FlagRead
    <3>3. PICK x : x = None
      OBVIOUS
    <3>4. At(v, a, Push(o, x))
      BY <2>1, <2>2, <3>1, <3>3 DEF At, Push
    <3>5. At(w, b, Push(u, x))
      BY <2>1, <2>2, <3>2, <3>3 DEF At, Push
    <3>6. Like(f[m], x, x)
      BY <3>3
    <3> QED
      BY <2>1, <3>4, <3>5, <3>6, BothOn
  <2> QED
    BY <2>4, <2>5
<1> QED
  BY <1>1, <1>2

-----------------------------------------------------------------------------
(* Every turn of a list takes a unit. *)

(* How much is left. *)
LEMMA DropLen ==
  ASSUME NEW s \in Seq(Int), NEW n \in Nat
  PROVE  /\ Drop(s, n) \in Seq(Int) /\ Len(Drop(s, n)) <= Len(s)
         /\ n <= Len(s) => Len(Drop(s, n)) + n = Len(s)
<1>1. PICK N \in Nat : N = Len(s)
  OBVIOUS
<1>2. CASE N <= n
  <2>1. Drop(s, n) = <<>>
    BY <1>1, <1>2 DEF Drop
  <2>2. Len(Drop(s, n)) = 0 /\ Drop(s, n) \in Seq(Int)
    BY <2>1, EmptySeq
  <2> QED
    BY <1>1, <1>2, <2>2
<1>3. CASE n < N
  <2>1. Drop(s, n) \in Seq(Int) /\ Len(Drop(s, n)) = N - n
    BY <1>1, <1>3 DEF Drop
  <2> QED
    BY <1>1, <1>3, <2>1
<1> QED
  BY <1>2, <1>3

(* q has at most what p has but for n units, if it is fine. *)
Takes(p, q, n) ==
  q.st = "ok" => /\ p.st = "ok" /\ p.ptr \in Seq(Int) /\ q.ptr \in Seq(Int)
                 /\ Len(q.ptr) + n <= Len(p.ptr)

(* Reading n integers takes n units; a string or bytes may take none. *)
LEMMA IntsTake ==
  ASSUME NEW p, Sane(p), NEW n \in Nat
  PROVE  Takes(p, Ints(p, n), n)
<1>1. p.ptr \in Seq(Int) /\ DOMAIN p = {"st", "ptr", "out"}
  BY DEF Sane
<1>2. CASE p.st # "ok" \/ Len(p.ptr) < n
  BY <1>1, <1>2 DEF Ints, Stop, Takes
<1>3. CASE p.st = "ok" /\ ~(Len(p.ptr) < n)
  <2>1. Ints(p, n) = [p EXCEPT !.ptr = Drop(p.ptr, n), !.out = p.out \o Upto(p.ptr, n)]
    BY <1>3 DEF Ints
  <2>2. Ints(p, n).ptr = Drop(p.ptr, n)
    BY <1>1, <2>1
  <2>3. Len(p.ptr) \in Nat /\ n <= Len(p.ptr)
    BY <1>1, <1>3
  <2>4. Drop(p.ptr, n) \in Seq(Int) /\ Len(Drop(p.ptr, n)) + n = Len(p.ptr)
    BY <1>1, <2>3, DropLen
  <2> QED
    BY <1>1, <1>3, <2>2, <2>3, <2>4 DEF Takes
<1> QED
  BY <1>2, <1>3

(* Reading n integers takes n units; a string or bytes may take none. *)
LEMMA StrTakes ==
  ASSUME NEW p, Sane(p), NEW k
  PROVE  Takes(p, read_str(p, k), 0)
<1>1. p.ptr \in Seq(Int) /\ DOMAIN p = {"st", "ptr", "out"}
  BY DEF Sane
<1>2. CASE p.st # "ok" \/ p.out[k] \notin 0 .. MaxStrLen
  BY <1>1, <1>2 DEF read_str, Stop, Takes
<1>3. CASE p.st = "ok" /\ p.out[k] \in 0 .. MaxStrLen
  <2>1. read_str(p, k) = [p EXCEPT !.ptr = Drop(p.ptr, p.out[k] + 1), !.out = Append(p.out, Upto(p.ptr, p.out[k]))]
    BY <1>3 DEF read_str
  <2>2. PICK n \in Nat : n = p.out[k] + 1
    BY <1>3, TypeInfoAssumption
  <2>3. read_str(p, k).ptr = Drop(p.ptr, n)
    BY <1>1, <2>1, <2>2
  <2>4. Drop(p.ptr, n) \in Seq(Int) /\ Len(Drop(p.ptr, n)) <= Len(p.ptr)
    BY <1>1, DropLen
  <2>5. Len(Drop(p.ptr, n)) + 0 <= Len(p.ptr)
    BY <1>1, <2>4
  <2> QED
    BY <1>1, <1>3, <2>3, <2>4, <2>5 DEF Takes
<1> QED
  BY <1>2, <1>3

(* Reading n integers takes n units; a string or bytes may take none. *)
LEMMA RawTakes ==
  ASSUME NEW p, Sane(p), NEW n
  PROVE  Takes(p, Raw(p, n), 0)
<1>1. p.ptr \in Seq(Int) /\ DOMAIN p = {"st", "ptr", "out"}
  BY DEF Sane
<1>2. CASE p.st # "ok" \/ n \notin 0 .. Len(p.ptr)
  BY <1>1, <1>2 DEF Raw, Stop, Takes
<1>3. CASE p.st = "ok" /\ n \in 0 .. Len(p.ptr)
  <2>1. Raw(p, n) = [p EXCEPT !.ptr = Drop(p.ptr, n), !.out = Append(p.out, Upto(p.ptr, n))]
    BY <1>3 DEF Raw
  <2>2. Raw(p, n).ptr = Drop(p.ptr, n) /\ n \in Nat
    BY <1>1, <1>3, <2>1
  <2>3. Drop(p.ptr, n) \in Seq(Int) /\ Len(Drop(p.ptr, n)) <= Len(p.ptr)
    BY <1>1, <2>2, DropLen
  <2>4. Len(Drop(p.ptr, n)) + 0 <= Len(p.ptr)
    BY <1>1, <2>3
  <2> QED
    BY <1>1, <1>3, <2>2, <2>3, <2>4 DEF Takes
<1> QED
  BY <1>2, <1>3

(* Taking more afterwards. *)
LEMMA TakesMore ==
  ASSUME NEW p, NEW q, NEW r, NEW n \in Nat, Takes(p, q, n), Takes(q, r, 0)
  PROVE  Takes(p, r, n)
<1>1. SUFFICES ASSUME r.st = "ok"
               PROVE  p.st = "ok" /\ p.ptr \in Seq(Int) /\ r.ptr \in Seq(Int) /\ Len(r.ptr) + n <= Len(p.ptr)
  BY DEF Takes
<1>2. q.st = "ok" /\ q.ptr \in Seq(Int) /\ r.ptr \in Seq(Int) /\ Len(r.ptr) + 0 <= Len(q.ptr)
  BY <1>1 DEF Takes
<1>3. p.st = "ok" /\ p.ptr \in Seq(Int) /\ Len(q.ptr) + n <= Len(p.ptr)
  BY <1>2 DEF Takes
<1>4. Len(p.ptr) \in Nat /\ Len(q.ptr) \in Nat /\ Len(r.ptr) \in Nat
  BY <1>2, <1>3
<1> QED
  BY <1>2, <1>3, <1>4

(* A record takes what its parser takes. *)
LEMMA RecordTakes ==
  ASSUME NEW p, Sane(p), NEW n \in Nat, NEW r, Takes(Start(p.ptr), r, n), NEW x, NEW q,
         RecordRead(p, r, x, q)
  PROVE  Takes(p, q, n)
<1>1. p.ptr \in Seq(Int) /\ DOMAIN p = {"st", "ptr", "out"}
  BY DEF Sane
<1>2. CASE p.st # "ok"
  BY <1>2 DEF RecordRead, Takes
<1>3. CASE p.st = "ok" /\ r.st # "ok"
  <2>1. q = Stop(p, r.st)
    BY <1>3 DEF RecordRead
  <2> QED
    BY <1>1, <1>3, <2>1 DEF Stop, Takes
<1>4. CASE p.st = "ok" /\ r.st = "ok"
  <2>1. q = [p EXCEPT !.ptr = r.ptr, !.out = Append(p.out, x)]
    BY <1>4 DEF RecordRead
  <2>2. q.ptr = r.ptr
    BY <1>1, <2>1
  <2>3. Start(p.ptr).ptr = p.ptr
    BY DEF Start
  <2>4. r.ptr \in Seq(Int) /\ Len(r.ptr) + n <= Len(p.ptr)
    BY <1>4, <2>3 DEF Takes
  <2> QED
    BY <1>1, <1>4, <2>2, <2>4 DEF Takes
<1> QED
  BY <1>2, <1>3, <1>4

(* An entry takes its length field at least. *)
LEMMA EntryTakes ==
  ASSUME NEW p, Sane(p), NEW r, NEW x, NEW q, EntryIn(p, r, x, q)
  PROVE  Takes(p, q, 1)
<1>1. p.ptr \in Seq(Int) /\ DOMAIN p = {"st", "ptr", "out"}
  BY DEF Sane
<1>2. CASE q.st # "ok"
  BY <1>2 DEF Takes
<1>3. CASE q.st = "ok"
  <2>1. p.st = "ok"
    BY <1>3 DEF EntryIn
  <2>2. PICK ptr : ptr = p.ptr
    OBVIOUS
  <2>3. At(p, ptr, p.out)
    BY <1>1, <2>1, <2>2 DEF At
  <2>4. q # Stop(p, "err") /\ q # Stop(p, "panic") /\ (r.st # "ok" => q # Stop(p, r.st))
    BY <1>3, <2>3, Stopped
  <2>5. ptr # <<>> /\ SplitFits(Tail(ptr), ptr[1] - 1)
        /\ q = [p EXCEPT !.ptr = Drop(Tail(p.ptr), p.ptr[1] - 1), !.out = Append(p.out, x)]
    BY <2>1, <2>2, <2>4 DEF EntryIn
  <2>6. PICK j : j = ptr[1] - 1
    OBVIOUS
  <2>7. q.ptr = Drop(Tail(ptr), j)
    BY <1>1, <2>2, <2>5, <2>6
  <2>8. PICK t : t = Tail(ptr)
    OBVIOUS
  <2>9. t \in Seq(Int) /\ Len(t) + 1 = Len(ptr) /\ Len(t) \in Nat
    BY <1>1, <2>2, <2>5, <2>8
  <2>10. j \in Nat
    BY <2>5, <2>6, <2>8, <2>9 DEF SplitFits
  <2>11. Drop(t, j) \in Seq(Int) /\ Len(Drop(t, j)) <= Len(t)
    BY <2>9, <2>10, DropLen
  <2>12. Len(Drop(t, j)) \in Nat /\ Len(Drop(t, j)) + 1 <= Len(ptr)
    BY <2>9, <2>11
  <2> QED
    BY <1>1, <2>1, <2>2, <2>7, <2>8, <2>11, <2>12 DEF Takes
<1> QED
  BY <1>2, <1>3

(* A list with more members than units are left cannot be read. *)
LEMMA TurnsFail ==
  ASSUME NEW g, NEW ptr \in Seq(Int), At(g[0], ptr, <<>>), NEW N, N = Len(ptr) + 1,
         \A n \in 1 .. N : Sane(g[n - 1]) => Sane(g[n]) /\ Takes(g[n - 1], g[n], 1)
  PROVE  Sane(g[N]) /\ g[N].st # "ok"
<1>1. PICK l \in Nat : l = Len(ptr)
  OBVIOUS
<1>2. N \in Nat /\ N = l + 1
  BY <1>1
<1> DEFINE E == {n \in Nat : Sane(g[n]) /\ (g[n].st = "ok" => Len(g[n].ptr) + n <= l)}
<1>3. 0 \in E
  BY <1>1 DEF At, Sane
<1>4. ASSUME NEW n \in 1 .. N, n - 1 \in E PROVE n \in E
  <2>1. Sane(g[n - 1]) /\ (g[n - 1].st = "ok" => Len(g[n - 1].ptr) + (n - 1) <= l)
    BY <1>4
  <2>2. Sane(g[n]) /\ Takes(g[n - 1], g[n], 1)
    BY <2>1
  <2>3. ASSUME g[n].st = "ok" PROVE Len(g[n].ptr) + n <= l
    <3>1. /\ g[n - 1].st = "ok" /\ g[n - 1].ptr \in Seq(Int) /\ g[n].ptr \in Seq(Int)
          /\ Len(g[n].ptr) + 1 <= Len(g[n - 1].ptr)
      BY <2>2, <2>3 DEF Takes
    <3>2. Len(g[n].ptr) \in Nat /\ Len(g[n - 1].ptr) \in Nat
      BY <3>1
    <3>3. Len(g[n - 1].ptr) + (n - 1) <= l
      BY <2>1, <3>1
    <3>4. PICK a \in Nat, b \in Nat : a = Len(g[n - 1].ptr) /\ b = Len(g[n].ptr)
      BY <3>2
    <3>5. a + (n - 1) <= l /\ b + 1 <= a
      BY <3>1, <3>3, <3>4
    <3>6. b + n <= l
      BY <3>5
    <3> QED
      BY <3>4, <3>6
  <2>4. n \in Nat
    BY <1>2
  <2> QED
    BY <2>2, <2>3, <2>4
<1>5. \A n \in 0 .. N : n \in E
  <2> HIDE DEF E
  <2> QED
    BY <1>2, <1>3, <1>4, InductTo
<1>6. N \in E
  BY <1>2, <1>5
<1>7. Sane(g[N]) /\ (g[N].st = "ok" => Len(g[N].ptr) + N <= l)
  BY <1>6
<1>8. PICK e \in Nat : e = Len(g[N].ptr)
  <2>1. g[N].ptr \in Seq(Int)
    BY <1>7 DEF Sane
  <2> QED
    BY <2>1
<1>9. ~(e + N <= l)
  BY <1>2
<1> QED
  BY <1>7, <1>8, <1>9

(* The turns, side by side. *)
LEMMA TurnsFollow ==
  ASSUME NEW g, NEW h, NEW a, NEW b, At(g[0], a, <<>>), At(h[0], b, <<>>), Begins(b, a),
         NEW N \in Nat, NEW f,
         \A n \in 1 .. N : Follows(g[n - 1], h[n - 1], n - 1, f) => Follows(g[n], h[n], n, f),
         \A n \in 1 .. N : Sane(h[n - 1]) => Sane(h[n])
  PROVE  Follows(g[N], h[N], N, f) /\ Sane(h[N])
<1> DEFINE E == {n \in Nat : Follows(g[n], h[n], n, f) /\ Sane(h[n])}
<1>1. 0 \in E
  <2>1. Alike(<<>>, <<>>, 0, f)
    BY DEF Alike, Holds
  <2>2. Follows(g[0], h[0], 0, f)
    BY <2>1 DEF Follows
  <2>3. Sane(h[0])
    BY DEF At, Sane, Begins
  <2> QED
    BY <2>2, <2>3
<1>2. ASSUME NEW n \in 1 .. N, n - 1 \in E PROVE n \in E
  <2>1. Follows(g[n - 1], h[n - 1], n - 1, f) /\ Sane(h[n - 1])
    BY <1>2
  <2>2. Follows(g[n], h[n], n, f) /\ Sane(h[n])
    BY <2>1
  <2> QED
    BY <2>2
<1>3. \A n \in 0 .. N : n \in E
  <2> HIDE DEF E
  <2> QED
    BY <1>1, <1>2, InductTo
<1>4. N \in E
  BY <1>3
<1> QED
  BY <1>4

(* The kind of a list, by that of its members. *)
ListKind(c, kind) ==
  \/ c = "same" /\ kind = "same"
  \/ c = "attribute" /\ kind = "attributes"
  \/ c = "any" /\ kind = "values"

(* Lists of like items are alike. *)
LEMMA ListAlike ==
  ASSUME NEW c, NEW kind, ListKind(c, kind), NEW N \in Nat, NEW x, NEW y, NEW f,
         Alike(x, y, N, f), \A i \in 1 .. N : f[i] = c
  PROVE  Like(kind, x, y)
<1>1. Holds(x, N) /\ Holds(y, N)
  BY DEF Alike
<1>2. \A i \in 1 .. N : Like(c, x[i], y[i])
  BY DEF Alike
<1>3. \A i \in 1 .. N : ItemLike(c, x[i], y[i])
  BY <1>2 DEF ListKind, Like
<1>4. ListLike(c, x, y)
  BY <1>1, <1>3 DEF ListLike
<1>5. CASE c = "same" /\ kind = "same"
  <2>1. \A i \in 1 .. N : x[i] = y[i]
    BY <1>3, <1>5 DEF ItemLike
  <2>2. x = y
    BY <1>1, <2>1 DEF Holds
  <2> QED
    BY <1>5, <2>2 DEF Like, ItemLike
<1>6. CASE c = "attribute" /\ kind = "attributes"
  BY <1>4, <1>6 DEF Like
<1>7. CASE c = "any" /\ kind = "values"
  BY <1>4, <1>7 DEF Like
<1> QED
  BY <1>5, <1>6, <1>7 DEF ListKind

(* Both parsers have read a list to the end. *)
LEMMA ListEnds ==
  ASSUME NEW o, NEW u, NEW n, NEW f, Alike(o, u, n, f), NEW m, m = n + 1, NEW c, ListKind(c, f[m]),
         NEW g, NEW h, NEW a, NEW b, At(g[0], a, <<>>), At(h[0], b, <<>>), Begins(b, a),
         NEW N \in Nat,
         \A F : \A i \in 1 .. N : F[i] = c /\ Follows(g[i - 1], h[i - 1], i - 1, F)
                                   => Follows(g[i], h[i], i, F),
         \A i \in 1 .. N : Sane(h[i - 1]) => Sane(h[i]),
         NEW v, NEW w, Ends(v, g, N, o), Ends(w, h, N, u)
  PROVE  Follows(v, w, m, f)
<1>1. PICK p, q : p = g[N] /\ q = h[N]
  OBVIOUS
<1>2. PICK F : F = [i \in 1 .. N |-> c]
  OBVIOUS
<1>3. \A i \in 1 .. N : F[i] = c
  BY <1>2
<1>4. \A i \in 1 .. N : Follows(g[i - 1], h[i - 1], i - 1, F) => Follows(g[i], h[i], i, F)
  BY <1>3
<1>5. Follows(p, q, N, F) /\ Sane(q)
  BY <1>1, <1>4, TurnsFollow
<1>6. v = [p EXCEPT !.out = Append(o, p.out)] /\ w = [q EXCEPT !.out = Append(u, q.out)]
  BY <1>1 DEF Ends
<1>7. CASE q.st # "ok"
  <2>1. w.st # "ok"
    BY <1>5, <1>6, <1>7 DEF Sane
  <2> QED
    BY <2>1 DEF Follows
<1>8. CASE q.st = "ok"
  <2>1. PICK d, e, x, y : At(p, d, x) /\ At(q, e, y) /\ Begins(e, d) /\ Alike(x, y, N, F)
    BY <1>5, <1>8 DEF Follows
  <2>2. Like(f[m], x, y)
    BY <1>3, <2>1, ListAlike
  <2>3. At(v, d, Push(o, x))
    BY <1>6, <2>1 DEF At, Push
  <2>4. At(w, e, Push(u, y))
    BY <1>6, <2>1 DEF At, Push
  <2> QED
    BY <2>1, <2>2, <2>3, <2>4, BothOn
<1> QED
  BY <1>7, <1>8

-----------------------------------------------------------------------------
(* The members of lists. *)

(* Two units taken are one taken. *)
LEMMA FewerTaken ==
  ASSUME NEW p, NEW q, Takes(p, q, 2)
  PROVE  Takes(p, q, 1)
<1>1. SUFFICES ASSUME q.st = "ok"
               PROVE  p.st = "ok" /\ p.ptr \in Seq(Int) /\ q.ptr \in Seq(Int) /\ Len(q.ptr) + 1 <= Len(p.ptr)
  BY DEF Takes
<1>2. p.st = "ok" /\ p.ptr \in Seq(Int) /\ q.ptr \in Seq(Int) /\ Len(q.ptr) + 2 <= Len(p.ptr)
  BY <1>1 DEF Takes
<1>3. Len(p.ptr) \in Nat /\ Len(q.ptr) \in Nat
  BY <1>2
<1> QED
  BY <1>2, <1>3

(* An attribute: the strings may be cut. *)
AttributeKinds == [i \in 1 .. 4 |-> IF i <= 2 THEN "same" ELSE "string"]

(* The strings of an attribute of which a part is there. *)
LEMMA AttributeStrings ==
  ASSUME NEW a, NEW b, Begins(b, a), NEW r, r = read_str(read_str(Ints(Start(a), 2), 1), 2),
         NEW s, s = read_str(read_str(Ints(Start(b), 2), 1), 2)
  PROVE  Yields(r, s, "attribute", [name |-> r.out[3], value |-> r.out[4]],
                                   [name |-> s.out[3], value |-> s.out[4]])
<1>1. PICK f : f = AttributeKinds
  OBVIOUS
<1>2. f[1] = "same" /\ f[2] = "same" /\ f[3] = "string" /\ f[4] = "string"
  BY <1>1 DEF AttributeKinds
<1>3. \A i \in 1 .. 2 : f[i] = "same"
  BY <1>2
<1>4. PICK p, q : p = Ints(Start(a), 2) /\ q = Ints(Start(b), 2)
  OBVIOUS
<1>5. Follows(p, q, 2, f)
  BY <1>3, <1>4, IntsFollow
<1>6. PICK v, w : v = read_str(p, 1) /\ w = read_str(q, 1)
  OBVIOUS
<1>7. Follows(v, w, 3, f)
  <2>1. 1 \in 1 .. 2 /\ 3 = 2 + 1
    OBVIOUS
  <2> QED
    BY <1>2, <1>5, <1>6, <2>1, StrFollow
<1>8. Follows(r, s, 4, f)
  <2>1. 2 \in 1 .. 3 /\ 4 = 3 + 1
    OBVIOUS
  <2>2. r = read_str(v, 2) /\ s = read_str(w, 2)
    BY <1>4, <1>6
  <2> QED
    BY <1>2, <1>7, <2>1, <2>2, StrFollow
<1>9. SUFFICES ASSUME s.st = "ok"
               PROVE  /\ r.st = "ok" /\ Begins(s.ptr, r.ptr)
                      /\ Begins(s.out[3], r.out[3]) /\ Begins(s.out[4], r.out[4])
  BY DEF Yields, Like, ItemLike
<1>10. r.st = "ok" /\ Begins(s.ptr, r.ptr)
  BY <1>8, <1>9, FollowsPtr
<1>11. Alike(r.out, s.out, 4, f)
  BY <1>8, <1>9, FollowsOut
<1>12. 3 \in 1 .. 4 /\ 4 \in 1 .. 4
  OBVIOUS
<1>13. Like(f[3], r.out[3], s.out[3]) /\ Like(f[4], r.out[4], s.out[4])
  BY <1>11, <1>12 DEF Alike
<1>14. Begins(s.out[3], r.out[3]) /\ Begins(s.out[4], r.out[4])
  BY <1>2, <1>13 DEF Like, ItemLike
<1> QED
  BY <1>10, <1>14

(* What is recorded in one turn. *)
LEMMA AttributeRecorded ==
  ASSUME NEW p, NEW r, r = read_str(read_str(Ints(Start(p.ptr), 2), 1), 2)
  PROVE  RecordRead(p, r, [name |-> r.out[3], value |-> r.out[4]], NextAttribute(p))
  BY DEF NextAttribute, Record, RecordRead

(* Both parsers read an attribute. *)
LEMMA AttributeFollow ==
  ASSUME NEW p, NEW q, NEW n, NEW f, Follows(p, q, n, f), NEW m, m = n + 1, f[m] = "attribute"
  PROVE  Follows(NextAttribute(p), NextAttribute(q), m, f)
<1>1. PICK r, s : /\ r = read_str(read_str(Ints(Start(p.ptr), 2), 1), 2)
                  /\ s = read_str(read_str(Ints(Start(q.ptr), 2), 1), 2)
  OBVIOUS
<1>2. PICK x, y : x = [name |-> r.out[3], value |-> r.out[4]] /\ y = [name |-> s.out[3], value |-> s.out[4]]
  OBVIOUS
<1>3. PICK v, w : v = NextAttribute(p) /\ w = NextAttribute(q)
  OBVIOUS
<1>4. RecordRead(p, r, x, v)
  BY <1>1, <1>2, <1>3, AttributeRecorded
<1>5. RecordRead(q, s, y, w)
  BY <1>1, <1>2, <1>3, AttributeRecorded
<1>6. ASSUME p.st = "ok", q.st = "ok" PROVE Yields(r, s, f[m], x, y)
  <2>1. PICK a, b : a = p.ptr /\ b = q.ptr
    OBVIOUS
  <2>2. Begins(b, a)
    BY <1>6, <2>1, FollowsPtr
  <2>3. Yields(r, s, "attribute", [name |-> r.out[3], value |-> r.out[4]],
                                  [name |-> s.out[3], value |-> s.out[4]])
    BY <1>1, <2>1, <2>2, AttributeStrings
  <2> QED
    BY <1>2, <2>3
<1>7. Follows(v, w, m, f)
  BY <1>4, <1>5, <1>6, RecordFollow
<1> QED
  BY <1>3, <1>7

(* At least a unit is taken by an attribute. *)
LEMMA AttributeTakes ==
  ASSUME NEW p, Sane(p)
  PROVE  Takes(p, NextAttribute(p), 1)
<1>1. PICK s, h, e, r : s = Start(p.ptr) /\ h = Ints(s, 2) /\ e = read_str(h, 1) /\ r = read_str(e, 2)
  OBVIOUS
<1>2. Sane(s)
  BY <1>1, SaneStart DEF Sane
<1>3. Sane(h) /\ Takes(s, h, 2)
  BY <1>1, <1>2, SaneInts, IntsTake
<1>4. Sane(e) /\ Takes(h, e, 0)
  BY <1>1, <1>3, SaneStr, StrTakes
<1>5. Takes(e, r, 0)
  BY <1>1, <1>4, StrTakes
<1>6. Takes(s, h, 1)
  BY <1>3, FewerTaken
<1>7. Takes(s, e, 1)
  BY <1>4, <1>6, TakesMore
<1>8. Takes(s, r, 1)
  BY <1>5, <1>7, TakesMore
<1>9. r = read_str(read_str(Ints(Start(p.ptr), 2), 1), 2)
  BY <1>1
<1>10. RecordRead(p, r, [name |-> r.out[3], value |-> r.out[4]], NextAttribute(p))
  BY <1>9, AttributeRecorded
<1>11. Takes(Start(p.ptr), r, 1)
  BY <1>1, <1>8
<1> QED
  BY <1>10, <1>11, RecordTakes

(* Array bounds. *)
LEMMA DimRecorded ==
  ASSUME NEW p, NEW c, NEW r, r = DimBody(Start(p.ptr), c)
  PROVE  RecordRead(p, r, <<r.out[1], Wrap(r.out[1] + r.out[2] - 1)>>, ArrayDim(p, c))
  BY DEF ArrayDim, DimBody, Record, RecordRead

(* A dimension is there entirely, or fails. *)
LEMMA DimBodies ==
  ASSUME NEW a, NEW b, Begins(b, a), NEW c, NEW r, r = DimBody(Start(a), c),
         NEW s, s = DimBody(Start(b), c)
  PROVE  s.st = "ok" => r.st = "ok" /\ Begins(s.ptr, r.ptr) /\ r.out = s.out
<1>1. SUFFICES ASSUME s.st = "ok" PROVE r.st = "ok" /\ Begins(s.ptr, r.ptr) /\ r.out = s.out
  OBVIOUS
<1>2. PICK f : f = [i \in 1 .. 2 |-> "same"]
  OBVIOUS
<1>3. \A i \in 1 .. 2 : f[i] = "same"
  BY <1>2
<1>4. PICK p, q : p = Ints(Start(a), 2) /\ q = Ints(Start(b), 2)
  OBVIOUS
<1>5. Follows(p, q, 2, f)
  BY <1>3, <1>4, IntsFollow
<1>6. s = q \/ s = Stop(q, "panic")
  BY <1>4 DEF DimBody
<1>7. Sane(q)
  <2>1. Sane(Start(b))
    BY SaneStart DEF Begins
  <2> QED
    BY <1>4, <2>1, SaneInts
<1>8. s = q /\ q.st = "ok"
  <2>1. Stop(q, "panic").st # "ok"
    BY <1>7 DEF Sane, Stop
  <2> QED
    BY <1>1, <1>6, <2>1
<1>9. p.st = "ok" /\ Begins(q.ptr, p.ptr)
  BY <1>5, <1>8, FollowsPtr
<1>10. Alike(p.out, q.out, 2, f)
  BY <1>5, <1>8, FollowsOut
<1>11. p.out = q.out
  <2>1. \A i \in 1 .. 2 : p.out[i] = q.out[i]
    BY <1>3, <1>10, SameValue
  <2>2. Holds(p.out, 2) /\ Holds(q.out, 2)
    BY <1>10 DEF Alike
  <2> QED
    BY <2>1, <2>2 DEF Holds
<1>12. ~(c /\ ~(InI32(q.out[1] + q.out[2]) /\ InI32(q.out[1] + q.out[2] - 1)))
  <2>1. Stop(q, "panic").st # "ok"
    BY <1>7 DEF Sane, Stop
  <2> QED
    BY <1>1, <1>4, <1>8, <2>1 DEF DimBody
<1>13. r = p
  BY <1>4, <1>11, <1>12 DEF DimBody
<1> QED
  BY <1>8, <1>9, <1>11, <1>13

(* Both parsers read a dimension. *)
LEMMA DimFollow ==
  ASSUME NEW p, NEW q, NEW n, NEW f, Follows(p, q, n, f), NEW m, m = n + 1, f[m] = "same", NEW c
  PROVE  Follows(ArrayDim(p, c), ArrayDim(q, c), m, f)
<1>1. PICK r, s : r = DimBody(Start(p.ptr), c) /\ s = DimBody(Start(q.ptr), c)
  OBVIOUS
<1>2. PICK x, y : /\ x = <<r.out[1], Wrap(r.out[1] + r.out[2] - 1)>>
                  /\ y = <<s.out[1], Wrap(s.out[1] + s.out[2] - 1)>>
  OBVIOUS
<1>3. PICK v, w : v = ArrayDim(p, c) /\ w = ArrayDim(q, c)
  OBVIOUS
<1>4. RecordRead(p, r, x, v)
  BY <1>1, <1>2, <1>3, DimRecorded
<1>5. RecordRead(q, s, y, w)
  BY <1>1, <1>2, <1>3, DimRecorded
<1>6. ASSUME p.st = "ok", q.st = "ok" PROVE Yields(r, s, f[m], x, y)
  <2>1. PICK a, b : a = p.ptr /\ b = q.ptr
    OBVIOUS
  <2>2. Begins(b, a)
    BY <1>6, <2>1, FollowsPtr
  <2>3. s.st = "ok" => r.st = "ok" /\ Begins(s.ptr, r.ptr) /\ r.out = s.out
    BY <1>1, <2>1, <2>2, DimBodies
  <2>4. s.st = "ok" => x = y
    BY <1>2, <2>3
  <2> QED
    BY <2>3, <2>4 DEF Yields, Like, ItemLike
<1>7. Follows(v, w, m, f)
  BY <1>4, <1>5, <1>6, RecordFollow
<1> QED
  BY <1>3, <1>7

(* At least a unit is taken by a dimension. *)
LEMMA DimTakes ==
  ASSUME NEW p, Sane(p), NEW c
  PROVE  Takes(p, ArrayDim(p, c), 1)
<1>1. PICK s, h, r : s = Start(p.ptr) /\ h = Ints(s, 2) /\ r = DimBody(s, c)
  OBVIOUS
<1>2. Sane(s)
  BY <1>1, SaneStart DEF Sane
<1>3. Sane(h) /\ Takes(s, h, 2)
  BY <1>1, <1>2, SaneInts, IntsTake
<1>4. Takes(s, h, 1)
  BY <1>3, FewerTaken
<1>5. r = h \/ r = Stop(h, "panic")
  BY <1>1 DEF DimBody
<1>6. Stop(h, "panic").st # "ok"
  BY <1>3 DEF Sane, Stop
<1>7. Takes(s, r, 1)
  BY <1>4, <1>5, <1>6 DEF Takes
<1>8. RecordRead(p, r, <<r.out[1], Wrap(r.out[1] + r.out[2] - 1)>>, ArrayDim(p, c))
  BY <1>1, DimRecorded
<1>9. Takes(Start(p.ptr), r, 1)
  BY <1>1, <1>7
<1> QED
  BY <1>8, <1>9, RecordTakes

(* A method. *)
LEMMA MethodEntered ==
  ASSUME NEW p, NEW r, r = parse_rpc_method(Start(EntryBody(p.ptr)))
  PROVE  EntryIn(p, r, RpcMethod(r.out), NextMethod(p))
  BY DEF NextMethod, Entry, EntryOr, EntryIn, EntryBody

(* Both parsers read a method. *)
LEMMA MethodFollow ==
  ASSUME NEW p, NEW q, NEW n, NEW f, Follows(p, q, n, f), NEW m, m = n + 1, f[m] = "same"
  PROVE  Follows(NextMethod(p), NextMethod(q), m, f)
<1>1. PICK r, s : /\ r = parse_rpc_method(Start(EntryBody(p.ptr)))
                  /\ s = parse_rpc_method(Start(EntryBody(q.ptr)))
  OBVIOUS
<1>2. PICK x, y : x = RpcMethod(r.out) /\ y = RpcMethod(s.out)
  OBVIOUS
<1>3. PICK v, w : v = NextMethod(p) /\ w = NextMethod(q)
  OBVIOUS
<1>4. EntryIn(p, r, x, v)
  BY <1>1, <1>2, <1>3, MethodEntered
<1>5. EntryIn(q, s, y, w)
  BY <1>1, <1>2, <1>3, MethodEntered
<1>6. EntryBody(p.ptr) = EntryBody(q.ptr) => r = s /\ x = y
  BY <1>1, <1>2
<1>7. Follows(v, w, m, f)
  BY <1>4, <1>5, <1>6, EntryFollow
<1> QED
  BY <1>3, <1>7

(* At least a unit is taken by a method. *)
LEMMA MethodTakes ==
  ASSUME NEW p, Sane(p)
  PROVE  Takes(p, NextMethod(p), 1)
<1>1. PICK r : r = parse_rpc_method(Start(EntryBody(p.ptr)))
  OBVIOUS
<1>2. EntryIn(p, r, RpcMethod(r.out), NextMethod(p))
  BY <1>1, MethodEntered
<1> QED
  BY <1>2, EntryTakes

(* A field. *)
LEMMA FieldEntered ==
  ASSUME NEW p, NEW c, NEW r, r = parse_field(Start(EntryBody(p.ptr)), c)
  PROVE  EntryIn(p, r, Field(r.out), NextField(p, c))
  BY DEF NextField, Entry, EntryOr, EntryIn, EntryBody

(* Both parsers read a field. *)
LEMMA FieldFollow ==
  ASSUME NEW p, NEW q, NEW n, NEW f, Follows(p, q, n, f), NEW m, m = n + 1, f[m] = "same", NEW c
  PROVE  Follows(NextField(p, c), NextField(q, c), m, f)
<1>1. PICK r, s : /\ r = parse_field(Start(EntryBody(p.ptr)), c)
                  /\ s = parse_field(Start(EntryBody(q.ptr)), c)
  OBVIOUS
<1>2. PICK x, y : x = Field(r.out) /\ y = Field(s.out)
  OBVIOUS
<1>3. PICK v, w : v = NextField(p, c) /\ w = NextField(q, c)
  OBVIOUS
<1>4. EntryIn(p, r, x, v)
  BY <1>1, <1>2, <1>3, FieldEntered
<1>5. EntryIn(q, s, y, w)
  BY <1>1, <1>2, <1>3, FieldEntered
<1>6. EntryBody(p.ptr) = EntryBody(q.ptr) => r = s /\ x = y
  BY <1>1, <1>2
<1>7. Follows(v, w, m, f)
  BY <1>4, <1>5, <1>6, EntryFollow
<1> QED
  BY <1>3, <1>7

(* At least a unit is taken by a field. *)
LEMMA FieldTakes ==
  ASSUME NEW p, Sane(p), NEW c
  PROVE  Takes(p, NextField(p, c), 1)
<1>1. PICK r : r = parse_field(Start(EntryBody(p.ptr)), c)
  OBVIOUS
<1>2. EntryIn(p, r, Field(r.out), NextField(p, c))
  BY <1>1, FieldEntered
<1> QED
  BY <1>2, EntryTakes

(* Bytes are there entirely. *)
LEMMA RawFollow ==
  ASSUME NEW p, NEW q, NEW n, NEW f, Follows(p, q, n, f), NEW m, m = n + 1, f[m] = "same", NEW k
  PROVE  Follows(Raw(p, k), Raw(q, k), m, f)
<1>1. CASE q.st # "ok"
  BY <1>1 DEF Raw, Follows
<1>2. CASE q.st = "ok"
  <2>1. PICK a, b, o, u : At(p, a, o) /\ At(q, b, u) /\ Begins(b, a) /\ Alike(o, u, n, f)
    BY <1>2 DEF Follows
  <2>2. p.st = "ok" /\ p.ptr = a /\ q.ptr = b /\ p.out = o /\ q.out = u
    BY <2>1 DEF At
  <2>3. CASE k \notin 0 .. Len(b)
    <3>1. Raw(q, k) = Stop(q, "err")
      BY <1>2, <2>2, <2>3 DEF Raw
    <3>2. Raw(q, k).st # "ok"
      BY <2>1, <3>1, Stopped
    <3> QED
      BY <3>2 DEF Follows
  <2>4. CASE k \in 0 .. Len(b)
    <3>1. Upto(b, k) = Upto(a, k) /\ k <= Len(a) /\ k \in Nat
      BY <2>1, <2>4, BeginsSame
    <3>2. k \in 0 .. Len(a)
      <4>1. Len(a) \in Nat
        BY <2>1 DEF Begins
      <4> QED
        BY <3>1, <4>1
    <3>3. PICK x, d, e : x = Upto(b, k) /\ d = Drop(a, k) /\ e = Drop(b, k)
      OBVIOUS
    <3>4. Begins(e, d)
      BY <2>1, <3>1, <3>3, BeginsDrop
    <3>5. At(Raw(p, k), d, Push(o, x))
      <4>1. Raw(p, k) = [p EXCEPT !.ptr = Drop(p.ptr, k), !.out = Append(p.out, Upto(p.ptr, k))]
        BY <2>2, <3>2 DEF Raw
      <4>2. Raw(p, k) = [p EXCEPT !.ptr = d, !.out = Push(o, x)]
        BY <2>2, <3>1, <3>3, <4>1 DEF Push
      <4> QED
        BY <2>1, <4>2 DEF At
    <3>6. At(Raw(q, k), e, Push(u, x))
      <4>1. Raw(q, k) = [q EXCEPT !.ptr = Drop(q.ptr, k), !.out = Append(q.out, Upto(q.ptr, k))]
        BY <1>2, <2>2, <2>4 DEF Raw
      <4>2. Raw(q, k) = [q EXCEPT !.ptr = e, !.out = Push(u, x)]
        BY <2>2, <3>3, <4>1 DEF Push
      <4> QED
        BY <2>1, <4>2 DEF At
    <3>7. Like(f[m], x, x)
      BY DEF Like, ItemLike
    <3> QED
      BY <2>1, <3>4, <3>5, <3>6, <3>7, BothOn
  <2> QED
    BY <2>3, <2>4
<1> QED
  BY <1>1, <1>2

(* A string something follows is there entirely. *)
LEMMA WholeStr ==
  ASSUME NEW p, NEW q, NEW n, NEW f, Follows(p, q, n, f), NEW k \in 1 .. n, f[k] = "same",
         NEW m, m = n + 1, f[m] = "same", read_str(q, k).ptr # <<>>
  PROVE  Follows(read_str(p, k), read_str(q, k), m, f)
<1>1. CASE q.st # "ok"
  BY <1>1 DEF read_str, Follows
<1>2. CASE q.st = "ok"
  <2>1. PICK a, b, o, u : At(p, a, o) /\ At(q, b, u) /\ Begins(b, a) /\ Alike(o, u, n, f)
    BY <1>2 DEF Follows
  <2>2. PICK c : c = o[k]
    OBVIOUS
  <2>3. o[k] = c /\ u[k] = c
    BY <2>1, <2>2, SameValue
  <2>4. CASE c \notin 0 .. MaxStrLen
    <3>1. read_str(q, k) = Stop(q, "err")
      BY <2>1, <2>3, <2>4 DEF read_str, At
    <3>2. read_str(q, k).st # "ok"
      BY <2>1, <3>1, Stopped
    <3> QED
      BY <3>2 DEF Follows
  <2>5. CASE c \in 0 .. MaxStrLen
    <3>1. c \in Nat /\ c + 1 \in Nat
      BY <2>5, TypeInfoAssumption
    <3>2. PICK x, y, d, e : x = Upto(a, c) /\ y = Upto(b, c) /\ d = Drop(a, c + 1) /\ e = Drop(b, c + 1)
      OBVIOUS
    <3>3. At(read_str(p, k), d, Push(o, x))
      BY <2>1, <2>3, <2>5, <3>1, <3>2, StrStep
    <3>4. At(read_str(q, k), e, Push(u, y))
      BY <2>1, <2>3, <2>5, <3>1, <3>2, StrStep
    <3>5. Begins(e, d)
      BY <2>1, <3>1, <3>2, BeginsDrop
    <3>6. x = y
      <4>1. e # <<>>
        BY <3>4 DEF At
      <4>2. b \in Seq(Int) /\ Len(b) \in Nat
        BY <2>1 DEF Begins
      <4>3. c \in 0 .. Len(b)
        <5>1. SUFFICES ASSUME Len(b) < c PROVE FALSE
          BY <3>1, <4>2
        <5>2. Drop(b, c + 1) = <<>>
          BY <3>1, <4>2, <5>1 DEF Drop
        <5> QED
          BY <3>2, <4>1, <5>2
      <4> QED
        BY <2>1, <3>2, <4>3, BeginsSame
    <3>7. Like(f[m], x, y)
      BY <3>6 DEF Like, ItemLike
    <3> QED
      BY <2>1, <3>3, <3>4, <3>5, <3>7, BothOn
  <2> QED
    BY <2>4, <2>5
<1> QED
  BY <1>1, <1>2

(* An enum value.  If it has bytes, its name is there entirely. *)
EnumKinds(size) == [i \in 1 .. 3 |-> IF i = 2 /\ size = 0 THEN "string" ELSE "same"]

(* An enum value that has bytes is there entirely, or fails. *)
LEMMA EnumBodies ==
  ASSUME NEW a, NEW b, Begins(b, a), NEW size, NEW base, NEW r, r = EnumBody(Start(a), size, base),
         NEW s, s = EnumBody(Start(b), size, base), s.st = "ok"
  PROVE  /\ r.st = "ok" /\ Begins(s.ptr, r.ptr)
         /\ size # 0 => r.out[2] = s.out[2] /\ r.out[3] = s.out[3]
<1>1. PICK f : f = EnumKinds(size)
  OBVIOUS
<1>2. /\ f[1] = "same" /\ f[3] = "same"
      /\ (size = 0 => f[2] = "string") /\ (size # 0 => f[2] = "same")
  BY <1>1 DEF EnumKinds
<1>3. PICK p, q : p = Ints(Start(a), 1) /\ q = Ints(Start(b), 1)
  OBVIOUS
<1>4. \A i \in 1 .. 1 : f[i] = "same"
  BY <1>2
<1>5. Follows(p, q, 1, f)
  BY <1>3, <1>4, IntsFollow
<1>6. PICK v, w : v = read_str(p, 1) /\ w = read_str(q, 1)
  OBVIOUS
<1>7. PICK g, h : g = Raw(v, size) /\ h = Raw(w, size)
  OBVIOUS
<1>8. Sane(h) /\ Sane(w)
  <2>1. Sane(Start(b))
    BY SaneStart DEF Begins
  <2>2. Sane(q)
    BY <1>3, <2>1, SaneInts
  <2>3. Sane(w)
    BY <1>6, <2>2, SaneStr
  <2> QED
    BY <1>7, <2>3, SaneRaw
<1>9. s = (IF h.st = "ok" /\ size < BaseWidth(base, size) THEN Stop(h, "panic") ELSE h)
  BY <1>3, <1>6, <1>7 DEF EnumBody
<1>10. Stop(h, "panic").st # "ok"
  BY <1>8 DEF Sane, Stop
<1>11. s = h /\ h.st = "ok" /\ ~(size < BaseWidth(base, size))
  BY <1>9, <1>10
<1>12. Follows(v, w, 2, f)
  <2>1. 1 \in 1 .. 1 /\ 2 = 1 + 1
    OBVIOUS
  <2>2. CASE size = 0
    <3>1. f[2] = "string"
      BY <1>2, <2>2
    <3> QED
      BY <1>2, <1>5, <1>6, <2>1, <3>1, StrFollow
  <2>3. CASE size # 0
    <3>1. w.st = "ok" /\ size \in 0 .. Len(w.ptr)
      <4>1. Stop(w, "err").st # "ok"
        BY <1>8 DEF Sane, Stop
      <4> QED
        BY <1>7, <1>11, <4>1 DEF Raw
    <3>2. w.ptr # <<>>
      <4>1. Len(<<>>) = 0
        OBVIOUS
      <4>2. size \notin 0 .. 0
        BY <2>3
      <4> QED
        BY <3>1, <4>1, <4>2
    <3>3. f[2] = "same" /\ read_str(q, 1).ptr # <<>>
      BY <1>2, <1>6, <2>3, <3>2
    <3> QED
      BY <1>2, <1>5, <1>6, <2>1, <3>3, WholeStr
  <2> QED
    BY <2>2, <2>3
<1>13. Follows(g, h, 3, f)
  <2>1. 3 = 2 + 1
    OBVIOUS
  <2> QED
    BY <1>2, <1>7, <1>12, <2>1, RawFollow
<1>14. r = g
  BY <1>3, <1>6, <1>7, <1>11 DEF EnumBody
<1>15. r.st = "ok" /\ Begins(s.ptr, r.ptr)
  BY <1>11, <1>13, <1>14, FollowsPtr
<1>16. Alike(r.out, s.out, 3, f)
  BY <1>11, <1>13, <1>14, FollowsOut
<1>17. ASSUME size # 0 PROVE r.out[2] = s.out[2] /\ r.out[3] = s.out[3]
  <2>1. 2 \in 1 .. 3 /\ 3 \in 1 .. 3 /\ f[2] = "same" /\ f[3] = "same"
    BY <1>2, <1>17
  <2> QED
    BY <1>16, <2>1, SameValue
<1> QED
  BY <1>15, <1>17

EnumItem(o, base) == [name |-> o[2], value |-> EnumValue(o[3], base)]

(* What is recorded in one turn. *)
LEMMA EnumRecorded ==
  ASSUME NEW p, NEW size, NEW base, NEW r, r = EnumBody(Start(p.ptr), size, base)
  PROVE  RecordRead(p, r, EnumItem(r.out, base), NextEnumInfo(p, size, base))
  BY DEF NextEnumInfo, EnumBody, Record, RecordRead, EnumItem

(* Both parsers read an enum value. *)
LEMMA EnumFollow ==
  ASSUME NEW p, NEW q, NEW n, NEW f, Follows(p, q, n, f), NEW m, m = n + 1, NEW size, NEW base,
         f[m] = IF size = 0 THEN "any" ELSE "same"
  PROVE  Follows(NextEnumInfo(p, size, base), NextEnumInfo(q, size, base), m, f)
<1>1. PICK r, s : r = EnumBody(Start(p.ptr), size, base) /\ s = EnumBody(Start(q.ptr), size, base)
  OBVIOUS
<1>2. PICK x, y : x = EnumItem(r.out, base) /\ y = EnumItem(s.out, base)
  OBVIOUS
<1>3. PICK v, w : v = NextEnumInfo(p, size, base) /\ w = NextEnumInfo(q, size, base)
  OBVIOUS
<1>4. RecordRead(p, r, x, v)
  BY <1>1, <1>2, <1>3, EnumRecorded
<1>5. RecordRead(q, s, y, w)
  BY <1>1, <1>2, <1>3, EnumRecorded
<1>6. ASSUME p.st = "ok", q.st = "ok" PROVE Yields(r, s, f[m], x, y)
  <2>1. SUFFICES ASSUME s.st = "ok" PROVE r.st = "ok" /\ Begins(s.ptr, r.ptr) /\ Like(f[m], x, y)
    BY DEF Yields
  <2>2. PICK a, b : a = p.ptr /\ b = q.ptr
    OBVIOUS
  <2>3. Begins(b, a)
    BY <1>6, <2>2, FollowsPtr
  <2>4. /\ r.st = "ok" /\ Begins(s.ptr, r.ptr)
        /\ size # 0 => r.out[2] = s.out[2] /\ r.out[3] = s.out[3]
    BY <1>1, <2>1, <2>2, <2>3, EnumBodies
  <2>5. size # 0 => x = y
    BY <1>2, <2>4 DEF EnumItem
  <2>6. Like(f[m], x, y)
    BY <2>5 DEF Like, ItemLike
  <2> QED
    BY <2>4, <2>6
<1>7. Follows(v, w, m, f)
  BY <1>4, <1>5, <1>6, RecordFollow
<1> QED
  BY <1>3, <1>7

(* At least a unit is taken by an enum value. *)
LEMMA EnumTakes ==
  ASSUME NEW p, Sane(p), NEW size, NEW base
  PROVE  Takes(p, NextEnumInfo(p, size, base), 1)
<1>1. PICK s, h, e, g, r : /\ s = Start(p.ptr) /\ h = Ints(s, 1) /\ e = read_str(h, 1)
                           /\ g = Raw(e, size) /\ r = EnumBody(s, size, base)
  OBVIOUS
<1>2. Sane(s)
  BY <1>1, SaneStart DEF Sane
<1>3. Sane(h) /\ Takes(s, h, 1)
  BY <1>1, <1>2, SaneInts, IntsTake
<1>4. Sane(e) /\ Takes(h, e, 0)
  BY <1>1, <1>3, SaneStr, StrTakes
<1>5. Sane(g) /\ Takes(e, g, 0)
  BY <1>1, <1>4, SaneRaw, RawTakes
<1>6. Takes(s, e, 1)
  BY <1>3, <1>4, TakesMore
<1>7. Takes(s, g, 1)
  BY <1>5, <1>6, TakesMore
<1>8. r = g \/ r = Stop(g, "panic")
  BY <1>1 DEF EnumBody
<1>9. Stop(g, "panic").st # "ok"
  BY <1>5 DEF Sane, Stop
<1>10. Takes(s, r, 1)
  BY <1>7, <1>8, <1>9 DEF Takes
<1>11. RecordRead(p, r, EnumItem(r.out, base), NextEnumInfo(p, size, base))
  BY <1>1, EnumRecorded
<1>12. Takes(Start(p.ptr), r, 1)
  BY <1>1, <1>10
<1> QED
  BY <1>11, <1>12, RecordTakes

-----------------------------------------------------------------------------
(* The lists. *)

(* As many turns, or more than the shorter part of the input has units. *)
LEMMA RoundsFollow ==
  ASSUME NEW a, NEW b, Begins(b, a), NEW o, NEW u, NEW n, NEW f, Alike(o, u, n, f),
         NEW k \in 1 .. n, f[k] = "same", NEW N, N = Rounds(u[k], b)
  PROVE  /\ N \in Nat
         /\ u[k] \in 0 .. Len(b) => N = Rounds(o[k], a)
         /\ u[k] \notin 0 .. Len(b) => N = Len(b) + 1
<1>1. o[k] = u[k]
  BY SameValue
<1>2. Len(b) \in Nat /\ Len(a) \in Nat /\ Len(b) <= Len(a)
  BY DEF Begins
<1>3. PICK x : x = u[k]
  OBVIOUS
<1>4. x \in 0 .. Len(b) => x \in 0 .. Len(a) /\ x \in Nat
  BY <1>2
<1> QED
  BY <1>1, <1>2, <1>3, <1>4 DEF Rounds

(* Attributes. *)
LEMMA AttributeListFollow ==
  ASSUME NEW p, NEW q, NEW n, NEW f, Follows(p, q, n, f), NEW k \in 1 .. n, f[k] = "same",
         NEW m, m = n + 1, f[m] = "attributes"
  PROVE  Follows(TimesAttribute(p, k), TimesAttribute(q, k), m, f)
<1>1. CASE q.st # "ok"
  BY <1>1 DEF TimesAttribute, Times, Follows
<1>2. CASE q.st = "ok"
  <2>1. PICK a, b, o, u : At(p, a, o) /\ At(q, b, u) /\ Begins(b, a) /\ Alike(o, u, n, f)
    BY <1>2 DEF Follows
  <2>2. PICK N : N = Rounds(u[k], b)
    OBVIOUS
  <2>3. N \in Nat /\ (u[k] \in 0 .. Len(b) => N = Rounds(o[k], a)) /\ (u[k] \notin 0 .. Len(b) => N = Len(b) + 1)
    BY <2>1, <2>2, RoundsFollow
  <2>4. PICK h : TurnAttribute(h, b, N) /\ Ends(TimesAttribute(q, k), h, N, u)
    BY <2>1, <2>2, <2>3, AttributeRounds
  <2>5. At(h[0], b, <<>>) /\ \A i \in 1 .. N : h[i] = NextAttribute(h[i - 1])
    BY <2>4 DEF TurnAttribute
  <2>6. \A i \in 1 .. N : Sane(h[i - 1]) => Sane(h[i]) /\ Takes(h[i - 1], h[i], 1)
    BY <2>5, SaneNextAttribute, AttributeTakes
  <2>7. CASE u[k] \notin 0 .. Len(b)
    <3>1. Sane(h[N]) /\ h[N].st # "ok"
      BY <2>1, <2>3, <2>5, <2>6, <2>7, TurnsFail DEF Begins
    <3>2. TimesAttribute(q, k).st # "ok"
      BY <2>4, <3>1 DEF Ends, Sane
    <3> QED
      BY <3>2 DEF Follows
  <2>8. CASE u[k] \in 0 .. Len(b)
    <3>1. PICK g : TurnAttribute(g, a, N) /\ Ends(TimesAttribute(p, k), g, N, o)
      BY <2>1, <2>3, <2>8, AttributeRounds
    <3>2. At(g[0], a, <<>>) /\ \A i \in 1 .. N : g[i] = NextAttribute(g[i - 1])
      BY <3>1 DEF TurnAttribute
    <3>3. PICK c : c = "attribute"
      OBVIOUS
    <3>4. ASSUME NEW F, NEW i \in 1 .. N, F[i] = c, Follows(g[i - 1], h[i - 1], i - 1, F)
          PROVE  Follows(g[i], h[i], i, F)
      <4>1. i = (i - 1) + 1
        OBVIOUS
      <4>2. g[i] = NextAttribute(g[i - 1]) /\ h[i] = NextAttribute(h[i - 1])
        BY <2>5, <3>2
      <4> QED
        BY <3>3, <3>4, <4>1, <4>2, AttributeFollow
    <3>5. ListKind(c, f[m])
      BY <3>3 DEF ListKind
    <3>6. PICK v, w : v = TimesAttribute(p, k) /\ w = TimesAttribute(q, k)
      OBVIOUS
    <3>7. Ends(v, g, N, o) /\ Ends(w, h, N, u)
      BY <2>4, <3>1, <3>6
    <3>8. Follows(v, w, m, f)
      BY <2>1, <2>3, <2>5, <2>6, <3>2, <3>4, <3>5, <3>7, ListEnds
    <3> QED
      BY <3>6, <3>8
  <2> QED
    BY <2>7, <2>8
<1> QED
  BY <1>1, <1>2

(* Methods. *)
LEMMA MethodListFollow ==
  ASSUME NEW p, NEW q, NEW n, NEW f, Follows(p, q, n, f), NEW k \in 1 .. n, f[k] = "same",
         NEW m, m = n + 1, f[m] = "same"
  PROVE  Follows(TimesMethod(p, k), TimesMethod(q, k), m, f)
<1>1. CASE q.st # "ok"
  BY <1>1 DEF TimesMethod, Times, Follows
<1>2. CASE q.st = "ok"
  <2>1. PICK a, b, o, u : At(p, a, o) /\ At(q, b, u) /\ Begins(b, a) /\ Alike(o, u, n, f)
    BY <1>2 DEF Follows
  <2>2. PICK N : N = Rounds(u[k], b)
    OBVIOUS
  <2>3. N \in Nat /\ (u[k] \in 0 .. Len(b) => N = Rounds(o[k], a)) /\ (u[k] \notin 0 .. Len(b) => N = Len(b) + 1)
    BY <2>1, <2>2, RoundsFollow
  <2>4. PICK h : TurnMethod(h, b, N) /\ Ends(TimesMethod(q, k), h, N, u)
    BY <2>1, <2>2, <2>3, MethodRounds
  <2>5. At(h[0], b, <<>>) /\ \A i \in 1 .. N : h[i] = NextMethod(h[i - 1])
    BY <2>4 DEF TurnMethod
  <2>6. \A i \in 1 .. N : Sane(h[i - 1]) => Sane(h[i]) /\ Takes(h[i - 1], h[i], 1)
    BY <2>5, SaneNextMethod, MethodTakes
  <2>7. CASE u[k] \notin 0 .. Len(b)
    <3>1. Sane(h[N]) /\ h[N].st # "ok"
      BY <2>1, <2>3, <2>5, <2>6, <2>7, TurnsFail DEF Begins
    <3>2. TimesMethod(q, k).st # "ok"
      BY <2>4, <3>1 DEF Ends, Sane
    <3> QED
      BY <3>2 DEF Follows
  <2>8. CASE u[k] \in 0 .. Len(b)
    <3>1. PICK g : TurnMethod(g, a, N) /\ Ends(TimesMethod(p, k), g, N, o)
      BY <2>1, <2>3, <2>8, MethodRounds
    <3>2. At(g[0], a, <<>>) /\ \A i \in 1 .. N : g[i] = NextMethod(g[i - 1])
      BY <3>1 DEF TurnMethod
    <3>3. PICK c : c = "same"
      OBVIOUS
    <3>4. ASSUME NEW F, NEW i \in 1 .. N, F[i] = c, Follows(g[i - 1], h[i - 1], i - 1, F)
          PROVE  Follows(g[i], h[i], i, F)
      <4>1. i = (i - 1) + 1
        OBVIOUS
      <4>2. g[i] = NextMethod(g[i - 1]) /\ h[i] = NextMethod(h[i - 1])
        BY <2>5, <3>2
      <4> QED
        BY <3>3, <3>4, <4>1, <4>2, MethodFollow
    <3>5. ListKind(c, f[m])
      BY <3>3 DEF ListKind
    <3>6. PICK v, w : v = TimesMethod(p, k) /\ w = TimesMethod(q, k)
      OBVIOUS
    <3>7. Ends(v, g, N, o) /\ Ends(w, h, N, u)
      BY <2>4, <3>1, <3>6
    <3>8. Follows(v, w, m, f)
      BY <2>1, <2>3, <2>5, <2>6, <3>2, <3>4, <3>5, <3>7, ListEnds
    <3> QED
      BY <3>6, <3>8
  <2> QED
    BY <2>7, <2>8
<1> QED
  BY <1>1, <1>2

(* Array bounds. *)
LEMMA DimListFollow ==
  ASSUME NEW p, NEW q, NEW n, NEW f, Follows(p, q, n, f), NEW k \in 1 .. n, f[k] = "same",
         NEW m, m = n + 1, NEW checked, f[m] = "same"
  PROVE  Follows(TimesDim(p, k, checked), TimesDim(q, k, checked), m, f)
<1>1. CASE q.st # "ok"
  BY <1>1 DEF TimesDim, Times, Follows
<1>2. CASE q.st = "ok"
  <2>1. PICK a, b, o, u : At(p, a, o) /\ At(q, b, u) /\ Begins(b, a) /\ Alike(o, u, n, f)
    BY <1>2 DEF Follows
  <2>2. PICK N : N = Rounds(u[k], b)
    OBVIOUS
  <2>3. N \in Nat /\ (u[k] \in 0 .. Len(b) => N = Rounds(o[k], a)) /\ (u[k] \notin 0 .. Len(b) => N = Len(b) + 1)
    BY <2>1, <2>2, RoundsFollow
  <2>4. PICK h : TurnDim(h, b, N, checked) /\ Ends(TimesDim(q, k, checked), h, N, u)
    BY <2>1, <2>2, <2>3, DimRounds
  <2>5. At(h[0], b, <<>>) /\ \A i \in 1 .. N : h[i] = ArrayDim(h[i - 1], checked)
    BY <2>4 DEF TurnDim
  <2>6. \A i \in 1 .. N : Sane(h[i - 1]) => Sane(h[i]) /\ Takes(h[i - 1], h[i], 1)
    BY <2>5, SaneDim, DimTakes
  <2>7. CASE u[k] \notin 0 .. Len(b)
    <3>1. Sane(h[N]) /\ h[N].st # "ok"
      BY <2>1, <2>3, <2>5, <2>6, <2>7, TurnsFail DEF Begins
    <3>2. TimesDim(q, k, checked).st # "ok"
      BY <2>4, <3>1 DEF Ends, Sane
    <3> QED
      BY <3>2 DEF Follows
  <2>8. CASE u[k] \in 0 .. Len(b)
    <3>1. PICK g : TurnDim(g, a, N, checked) /\ Ends(TimesDim(p, k, checked), g, N, o)
      BY <2>1, <2>3, <2>8, DimRounds
    <3>2. At(g[0], a, <<>>) /\ \A i \in 1 .. N : g[i] = ArrayDim(g[i - 1], checked)
      BY <3>1 DEF TurnDim
    <3>3. PICK c : c = "same"
      OBVIOUS
    <3>4. ASSUME NEW F, NEW i \in 1 .. N, F[i] = c, Follows(g[i - 1], h[i - 1], i - 1, F)
          PROVE  Follows(g[i], h[i], i, F)
      <4>1. i = (i - 1) + 1
        OBVIOUS
      <4>2. g[i] = ArrayDim(g[i - 1], checked) /\ h[i] = ArrayDim(h[i - 1], checked)
        BY <2>5, <3>2
      <4> QED
        BY <3>3, <3>4, <4>1, <4>2, DimFollow
    <3>5. ListKind(c, f[m])
      BY <3>3 DEF ListKind
    <3>6. PICK v, w : v = TimesDim(p, k, checked) /\ w = TimesDim(q, k, checked)
      OBVIOUS
    <3>7. Ends(v, g, N, o) /\ Ends(w, h, N, u)
      BY <2>4, <3>1, <3>6
    <3>8. Follows(v, w, m, f)
      BY <2>1, <2>3, <2>5, <2>6, <3>2, <3>4, <3>5, <3>7, ListEnds
    <3> QED
      BY <3>6, <3>8
  <2> QED
    BY <2>7, <2>8
<1> QED
  BY <1>1, <1>2

(* Fields. *)
LEMMA FieldListFollow ==
  ASSUME NEW p, NEW q, NEW n, NEW f, Follows(p, q, n, f), NEW k \in 1 .. n, f[k] = "same",
         NEW m, m = n + 1, NEW checked, f[m] = "same"
  PROVE  Follows(TimesField(p, k, checked), TimesField(q, k, checked), m, f)
<1>1. CASE q.st # "ok"
  BY <1>1 DEF TimesField, Times, Follows
<1>2. CASE q.st = "ok"
  <2>1. PICK a, b, o, u : At(p, a, o) /\ At(q, b, u) /\ Begins(b, a) /\ Alike(o, u, n, f)
    BY <1>2 DEF Follows
  <2>2. PICK N : N = Rounds(u[k], b)
    OBVIOUS
  <2>3. N \in Nat /\ (u[k] \in 0 .. Len(b) => N = Rounds(o[k], a)) /\ (u[k] \notin 0 .. Len(b) => N = Len(b) + 1)
    BY <2>1, <2>2, RoundsFollow
  <2>4. PICK h : TurnField(h, b, N, checked) /\ Ends(TimesField(q, k, checked), h, N, u)
    BY <2>1, <2>2, <2>3, FieldRounds
  <2>5. At(h[0], b, <<>>) /\ \A i \in 1 .. N : h[i] = NextField(h[i - 1], checked)
    BY <2>4 DEF TurnField
  <2>6. \A i \in 1 .. N : Sane(h[i - 1]) => Sane(h[i]) /\ Takes(h[i - 1], h[i], 1)
    BY <2>5, SaneNextField, FieldTakes
  <2>7. CASE u[k] \notin 0 .. Len(b)
    <3>1. Sane(h[N]) /\ h[N].st # "ok"
      BY <2>1, <2>3, <2>5, <2>6, <2>7, TurnsFail DEF Begins
    <3>2. TimesField(q, k, checked).st # "ok"
      BY <2>4, <3>1 DEF Ends, Sane
    <3> QED
      BY <3>2 DEF Follows
  <2>8. CASE u[k] \in 0 .. Len(b)
    <3>1. PICK g : TurnField(g, a, N, checked) /\ Ends(TimesField(p, k, checked), g, N, o)
      BY <2>1, <2>3, <2>8, FieldRounds
    <3>2. At(g[0], a, <<>>) /\ \A i \in 1 .. N : g[i] = NextField(g[i - 1], checked)
      BY <3>1 DEF TurnField
    <3>3. PICK c : c = "same"
      OBVIOUS
    <3>4. ASSUME NEW F, NEW i \in 1 .. N, F[i] = c, Follows(g[i - 1], h[i - 1], i - 1, F)
          PROVE  Follows(g[i], h[i], i, F)
      <4>1. i = (i - 1) + 1
        OBVIOUS
      <4>2. g[i] = NextField(g[i - 1], checked) /\ h[i] = NextField(h[i - 1], checked)
        BY <2>5, <3>2
      <4> QED
        BY <3>3, <3>4, <4>1, <4>2, FieldFollow
    <3>5. ListKind(c, f[m])
      BY <3>3 DEF ListKind
    <3>6. PICK v, w : v = TimesField(p, k, checked) /\ w = TimesField(q, k, checked)
      OBVIOUS
    <3>7. Ends(v, g, N, o) /\ Ends(w, h, N, u)
      BY <2>4, <3>1, <3>6
    <3>8. Follows(v, w, m, f)
      BY <2>1, <2>3, <2>5, <2>6, <3>2, <3>4, <3>5, <3>7, ListEnds
    <3> QED
      BY <3>6, <3>8
  <2> QED
    BY <2>7, <2>8
<1> QED
  BY <1>1, <1>2

(* Enum values. *)
LEMMA EnumListFollow ==
  ASSUME NEW p, NEW q, NEW n, NEW f, Follows(p, q, n, f), NEW k \in 1 .. n, f[k] = "same",
         NEW m, m = n + 1, NEW size, NEW base, f[m] = IF size = 0 THEN "values" ELSE "same"
  PROVE  Follows(TimesEnum(p, k, size, base), TimesEnum(q, k, size, base), m, f)
<1>1. CASE q.st # "ok"
  BY <1>1 DEF TimesEnum, Times, Follows
<1>2. CASE q.st = "ok"
  <2>1. PICK a, b, o, u : At(p, a, o) /\ At(q, b, u) /\ Begins(b, a) /\ Alike(o, u, n, f)
    BY <1>2 DEF Follows
  <2>2. PICK N : N = Rounds(u[k], b)
    OBVIOUS
  <2>3. N \in Nat /\ (u[k] \in 0 .. Len(b) => N = Rounds(o[k], a)) /\ (u[k] \notin 0 .. Len(b) => N = Len(b) + 1)
    BY <2>1, <2>2, RoundsFollow
  <2>4. PICK h : TurnEnum(h, b, N, size, base) /\ Ends(TimesEnum(q, k, size, base), h, N, u)
    BY <2>1, <2>2, <2>3, EnumRounds
  <2>5. At(h[0], b, <<>>) /\ \A i \in 1 .. N : h[i] = NextEnumInfo(h[i - 1], size, base)
    BY <2>4 DEF TurnEnum
  <2>6. \A i \in 1 .. N : Sane(h[i - 1]) => Sane(h[i]) /\ Takes(h[i - 1], h[i], 1)
    BY <2>5, SaneNextEnum, EnumTakes
  <2>7. CASE u[k] \notin 0 .. Len(b)
    <3>1. Sane(h[N]) /\ h[N].st # "ok"
      BY <2>1, <2>3, <2>5, <2>6, <2>7, TurnsFail DEF Begins
    <3>2. TimesEnum(q, k, size, base).st # "ok"
      BY <2>4, <3>1 DEF Ends, Sane
    <3> QED
      BY <3>2 DEF Follows
  <2>8. CASE u[k] \in 0 .. Len(b)
    <3>1. PICK g : TurnEnum(g, a, N, size, base) /\ Ends(TimesEnum(p, k, size, base), g, N, o)
      BY <2>1, <2>3, <2>8, EnumRounds
    <3>2. At(g[0], a, <<>>) /\ \A i \in 1 .. N : g[i] = NextEnumInfo(g[i - 1], size, base)
      BY <3>1 DEF TurnEnum
    <3>3. PICK c : c = IF size = 0 THEN "any" ELSE "same"
      OBVIOUS
    <3>4. ASSUME NEW F, NEW i \in 1 .. N, F[i] = c, Follows(g[i - 1], h[i - 1], i - 1, F)
          PROVE  Follows(g[i], h[i], i, F)
      <4>1. i = (i - 1) + 1
        OBVIOUS
      <4>2. g[i] = NextEnumInfo(g[i - 1], size, base) /\ h[i] = NextEnumInfo(h[i - 1], size, base)
        BY <2>5, <3>2
      <4> QED
        BY <3>3, <3>4, <4>1, <4>2, EnumFollow
    <3>5. ListKind(c, f[m])
      BY <3>3 DEF ListKind
    <3>6. PICK v, w : v = TimesEnum(p, k, size, base) /\ w = TimesEnum(q, k, size, base)
      OBVIOUS
    <3>7. Ends(v, g, N, o) /\ Ends(w, h, N, u)
      BY <2>4, <3>1, <3>6
    <3>8. Follows(v, w, m, f)
      BY <2>1, <2>3, <2>5, <2>6, <3>2, <3>4, <3>5, <3>7, ListEnds
    <3> QED
      BY <3>6, <3>8
  <2> QED
    BY <2>7, <2>8
<1> QED
  BY <1>1, <1>2

-----------------------------------------------------------------------------
(* The sections of a type. *)

(* The kind of an option, by that of its value. *)
OptionKind(c, kind) ==
  \/ c = "same" /\ kind = "same"
  \/ c = "attributes" /\ kind = "attributes_option"
  \/ c = "values" /\ kind = "values_option"

(* A list of which a part is there is an option of which a part is there. *)
LEMMA OptionYields ==
  ASSUME NEW r, NEW s, NEW f, Follows(r, s, 1, f), NEW c, f[1] = c, NEW kind, OptionKind(c, kind)
  PROVE  Yields(r, s, kind, r.out, s.out)
<1>1. SUFFICES ASSUME s.st = "ok"
               PROVE  r.st = "ok" /\ Begins(s.ptr, r.ptr) /\ Like(kind, r.out, s.out)
  BY DEF Yields
<1>2. r.st = "ok" /\ Begins(s.ptr, r.ptr)
  BY <1>1, FollowsPtr
<1>3. PICK x, y : x = r.out /\ y = s.out
  OBVIOUS
<1>4. Alike(x, y, 1, f)
  BY <1>1, <1>3, FollowsOut
<1>5. Holds(x, 1) /\ Holds(y, 1) /\ Like(c, x[1], y[1])
  <2>1. 1 \in 1 .. 1
    OBVIOUS
  <2> QED
    BY <1>4, <2>1 DEF Alike
<1>6. PICK v, w : v = x[1] /\ w = y[1]
  OBVIOUS
<1>7. x = <<v>> /\ y = <<w>>
  BY <1>5, <1>6 DEF Holds
<1>8. Like(c, v, w)
  BY <1>5, <1>6
<1>9. CASE c = "same" /\ kind = "same"
  <2>1. v = w
    BY <1>8, <1>9 DEF Like, ItemLike
  <2>2. x = y
    BY <1>7, <2>1
  <2> QED
    BY <1>2, <1>3, <1>9, <2>2 DEF Like, ItemLike
<1>10. CASE c = "attributes" /\ kind = "attributes_option"
  <2>1. ListLike("attribute", v, w)
    BY <1>8, <1>10 DEF Like, ItemLike
  <2>2. OptionLike("attribute", x, y)
    BY <1>7, <2>1 DEF OptionLike, Some
  <2> QED
    BY <1>2, <1>3, <1>10, <2>2 DEF Like
<1>11. CASE c = "values" /\ kind = "values_option"
  <2>1. ListLike("any", v, w)
    BY <1>8, <1>11 DEF Like, ItemLike
  <2>2. OptionLike("any", x, y)
    BY <1>7, <2>1 DEF OptionLike, Some
  <2> QED
    BY <1>2, <1>3, <1>11, <2>2 DEF Like
<1> QED
  BY <1>9, <1>10, <1>11 DEF OptionKind

(* No section on either side. *)
LEMMA NoOption ==
  ASSUME NEW kind, \E c : OptionKind(c, kind)
  PROVE  Like(kind, None, None)
  BY DEF OptionKind, Like, ItemLike, OptionLike

(* Attributes. *)
LEMMA AttributeCounted ==
  ASSUME NEW p, NEW r, r = TimesAttribute(Ints(Start(p.ptr), 1), 1)
  PROVE  RecordRead(p, r, r.out[2], parse_attributes(p))
  BY DEF parse_attributes, Counted, TimesAttribute, Record, RecordRead

(* The section in a part of its units. *)
LEMMA AttributeYields ==
  ASSUME NEW a, NEW b, Begins(b, a), NEW kind, kind = "attributes_option"
  PROVE  Yields(parse_attributes(Start(a)), parse_attributes(Start(b)), kind,
                parse_attributes(Start(a)).out, parse_attributes(Start(b)).out)
<1>1. PICK c : c = "attributes"
  OBVIOUS
<1>2. PICK F, G : F = [i \in 1 .. 2 |-> IF i = 1 THEN "same" ELSE c] /\ G = [i \in 1 .. 1 |-> c]
  OBVIOUS
<1>3. F[1] = "same" /\ F[2] = c /\ G[1] = c
  BY <1>2
<1>4. \A i \in 1 .. 1 : F[i] = "same"
  BY <1>3
<1>5. PICK p, q : p = Ints(Start(a), 1) /\ q = Ints(Start(b), 1)
  OBVIOUS
<1>6. Follows(p, q, 1, F)
  BY <1>4, <1>5, IntsFollow
<1>7. PICK r, s : r = TimesAttribute(p, 1) /\ s = TimesAttribute(q, 1)
  OBVIOUS
<1>8. Follows(r, s, 2, F)
  <2>1. 1 \in 1 .. 1 /\ 2 = 1 + 1
    OBVIOUS
  <2>2. F[2] = "attributes"
    BY <1>1, <1>3
  <2> QED
    BY <1>3, <1>6, <1>7, <2>1, <2>2, AttributeListFollow
<1>9. PICK x, y : x = r.out[2] /\ y = s.out[2]
  OBVIOUS
<1>10. Yields(r, s, G[1], x, y)
  <2>1. SUFFICES ASSUME s.st = "ok" PROVE r.st = "ok" /\ Begins(s.ptr, r.ptr) /\ Like(G[1], x, y)
    BY DEF Yields
  <2>2. r.st = "ok" /\ Begins(s.ptr, r.ptr) /\ Alike(r.out, s.out, 2, F)
    BY <1>8, <2>1, FollowsPtr, FollowsOut
  <2>3. 2 \in 1 .. 2
    OBVIOUS
  <2>4. Like(F[2], r.out[2], s.out[2])
    BY <2>2, <2>3 DEF Alike
  <2> QED
    BY <1>3, <1>9, <2>2, <2>4
<1>11. PICK g, h : g = Start(a) /\ h = Start(b)
  OBVIOUS
<1>12. Follows(g, h, 0, G) /\ g.ptr = a /\ h.ptr = b
  BY <1>11, StartFollow DEF Start
<1>13. PICK v, w : v = parse_attributes(g) /\ w = parse_attributes(h)
  OBVIOUS
<1>14. RecordRead(g, r, x, v)
  BY <1>5, <1>7, <1>9, <1>12, <1>13, AttributeCounted
<1>15. RecordRead(h, s, y, w)
  BY <1>5, <1>7, <1>9, <1>12, <1>13, AttributeCounted
<1>16. Follows(v, w, 1, G)
  <2>1. 1 = 0 + 1
    OBVIOUS
  <2> QED
    BY <1>10, <1>12, <1>14, <1>15, <2>1, RecordFollow
<1>17. OptionKind(c, kind)
  BY <1>1 DEF OptionKind
<1>18. Yields(v, w, kind, v.out, w.out)
  BY <1>3, <1>16, <1>17, OptionYields
<1> QED
  BY <1>11, <1>13, <1>18

(* Methods. *)
LEMMA MethodCounted ==
  ASSUME NEW p, NEW r, r = TimesMethod(Ints(Start(p.ptr), 1), 1)
  PROVE  RecordRead(p, r, r.out[2], parse_method_infos(p))
  BY DEF parse_method_infos, Counted, TimesMethod, Record, RecordRead

(* The section in a part of its units. *)
LEMMA MethodYields ==
  ASSUME NEW a, NEW b, Begins(b, a), NEW kind, kind = "same"
  PROVE  Yields(parse_method_infos(Start(a)), parse_method_infos(Start(b)), kind,
                parse_method_infos(Start(a)).out, parse_method_infos(Start(b)).out)
<1>1. PICK c : c = "same"
  OBVIOUS
<1>2. PICK F, G : F = [i \in 1 .. 2 |-> IF i = 1 THEN "same" ELSE c] /\ G = [i \in 1 .. 1 |-> c]
  OBVIOUS
<1>3. F[1] = "same" /\ F[2] = c /\ G[1] = c
  BY <1>2
<1>4. \A i \in 1 .. 1 : F[i] = "same"
  BY <1>3
<1>5. PICK p, q : p = Ints(Start(a), 1) /\ q = Ints(Start(b), 1)
  OBVIOUS
<1>6. Follows(p, q, 1, F)
  BY <1>4, <1>5, IntsFollow
<1>7. PICK r, s : r = TimesMethod(p, 1) /\ s = TimesMethod(q, 1)
  OBVIOUS
<1>8. Follows(r, s, 2, F)
  <2>1. 1 \in 1 .. 1 /\ 2 = 1 + 1
    OBVIOUS
  <2>2. F[2] = "same"
    BY <1>1, <1>3
  <2> QED
    BY <1>3, <1>6, <1>7, <2>1, <2>2, MethodListFollow
<1>9. PICK x, y : x = r.out[2] /\ y = s.out[2]
  OBVIOUS
<1>10. Yields(r, s, G[1], x, y)
  <2>1. SUFFICES ASSUME s.st = "ok" PROVE r.st = "ok" /\ Begins(s.ptr, r.ptr) /\ Like(G[1], x, y)
    BY DEF Yields
  <2>2. r.st = "ok" /\ Begins(s.ptr, r.ptr) /\ Alike(r.out, s.out, 2, F)
    BY <1>8, <2>1, FollowsPtr, FollowsOut
  <2>3. 2 \in 1 .. 2
    OBVIOUS
  <2>4. Like(F[2], r.out[2], s.out[2])
    BY <2>2, <2>3 DEF Alike
  <2> QED
    BY <1>3, <1>9, <2>2, <2>4
<1>11. PICK g, h : g = Start(a) /\ h = Start(b)
  OBVIOUS
<1>12. Follows(g, h, 0, G) /\ g.ptr = a /\ h.ptr = b
  BY <1>11, StartFollow DEF Start
<1>13. PICK v, w : v = parse_method_infos(g) /\ w = parse_method_infos(h)
  OBVIOUS
<1>14. RecordRead(g, r, x, v)
  BY <1>5, <1>7, <1>9, <1>12, <1>13, MethodCounted
<1>15. RecordRead(h, s, y, w)
  BY <1>5, <1>7, <1>9, <1>12, <1>13, MethodCounted
<1>16. Follows(v, w, 1, G)
  <2>1. 1 = 0 + 1
    OBVIOUS
  <2> QED
    BY <1>10, <1>12, <1>14, <1>15, <2>1, RecordFollow
<1>17. OptionKind(c, kind)
  BY <1>1 DEF OptionKind
<1>18. Yields(v, w, kind, v.out, w.out)
  BY <1>3, <1>16, <1>17, OptionYields
<1> QED
  BY <1>11, <1>13, <1>18

(* Enum values. *)
LEMMA EnumCounted ==
  ASSUME NEW p, NEW size, NEW base, NEW r, r = TimesEnum(Ints(Start(p.ptr), 1), 1, size, base)
  PROVE  RecordRead(p, r, r.out[2], parse_enum_infos(p, size, base))
  BY DEF parse_enum_infos, Counted, TimesEnum, Record, RecordRead

(* The section in a part of its units. *)
LEMMA EnumYields ==
  ASSUME NEW a, NEW b, Begins(b, a), NEW size, NEW base, NEW kind, kind = IF size = 0 THEN "values_option" ELSE "same"
  PROVE  Yields(parse_enum_infos(Start(a), size, base), parse_enum_infos(Start(b), size, base), kind,
                parse_enum_infos(Start(a), size, base).out, parse_enum_infos(Start(b), size, base).out)
<1>1. PICK c : c = IF size = 0 THEN "values" ELSE "same"
  OBVIOUS
<1>2. PICK F, G : F = [i \in 1 .. 2 |-> IF i = 1 THEN "same" ELSE c] /\ G = [i \in 1 .. 1 |-> c]
  OBVIOUS
<1>3. F[1] = "same" /\ F[2] = c /\ G[1] = c
  BY <1>2
<1>4. \A i \in 1 .. 1 : F[i] = "same"
  BY <1>3
<1>5. PICK p, q : p = Ints(Start(a), 1) /\ q = Ints(Start(b), 1)
  OBVIOUS
<1>6. Follows(p, q, 1, F)
  BY <1>4, <1>5, IntsFollow
<1>7. PICK r, s : r = TimesEnum(p, 1, size, base) /\ s = TimesEnum(q, 1, size, base)
  OBVIOUS
<1>8. Follows(r, s, 2, F)
  <2>1. 1 \in 1 .. 1 /\ 2 = 1 + 1
    OBVIOUS
  <2>2. F[2] = IF size = 0 THEN "values" ELSE "same"
    BY <1>1, <1>3
  <2> QED
    BY <1>3, <1>6, <1>7, <2>1, <2>2, EnumListFollow
<1>9. PICK x, y : x = r.out[2] /\ y = s.out[2]
  OBVIOUS
<1>10. Yields(r, s, G[1], x, y)
  <2>1. SUFFICES ASSUME s.st = "ok" PROVE r.st = "ok" /\ Begins(s.ptr, r.ptr) /\ Like(G[1], x, y)
    BY DEF Yields
  <2>2. r.st = "ok" /\ Begins(s.ptr, r.ptr) /\ Alike(r.out, s.out, 2, F)
    BY <1>8, <2>1, FollowsPtr, FollowsOut
  <2>3. 2 \in 1 .. 2
    OBVIOUS
  <2>4. Like(F[2], r.out[2], s.out[2])
    BY <2>2, <2>3 DEF Alike
  <2> QED
    BY <1>3, <1>9, <2>2, <2>4
<1>11. PICK g, h : g = Start(a) /\ h = Start(b)
  OBVIOUS
<1>12. Follows(g, h, 0, G) /\ g.ptr = a /\ h.ptr = b
  BY <1>11, StartFollow DEF Start
<1>13. PICK v, w : v = parse_enum_infos(g, size, base) /\ w = parse_enum_infos(h, size, base)
  OBVIOUS
<1>14. RecordRead(g, r, x, v)
  BY <1>5, <1>7, <1>9, <1>12, <1>13, EnumCounted
<1>15. RecordRead(h, s, y, w)
  BY <1>5, <1>7, <1>9, <1>12, <1>13, EnumCounted
<1>16. Follows(v, w, 1, G)
  <2>1. 1 = 0 + 1
    OBVIOUS
  <2> QED
    BY <1>10, <1>12, <1>14, <1>15, <2>1, RecordFollow
<1>17. OptionKind(c, kind)
  BY <1>1 DEF OptionKind
<1>18. Yields(v, w, kind, v.out, w.out)
  BY <1>3, <1>16, <1>17, OptionYields
<1> QED
  BY <1>11, <1>13, <1>18

(* The GUID. *)
LEMMA GuidYields ==
  ASSUME NEW a, NEW b, Begins(b, a)
  PROVE  Yields(Ints(Start(a), 1), Ints(Start(b), 1), "same", Ints(Start(a), 1).out, Ints(Start(b), 1).out)
<1>1. PICK F : F = [i \in 1 .. 1 |-> "same"]
  OBVIOUS
<1>2. F[1] = "same" /\ \A i \in 1 .. 1 : F[i] = "same"
  BY <1>1
<1>3. PICK p, q : p = Ints(Start(a), 1) /\ q = Ints(Start(b), 1)
  OBVIOUS
<1>4. Follows(p, q, 1, F)
  BY <1>2, <1>3, IntsFollow
<1>5. OptionKind("same", "same")
  BY DEF OptionKind
<1>6. Yields(p, q, "same", p.out, q.out)
  BY <1>2, <1>4, <1>5, OptionYields
<1> QED
  BY <1>3, <1>6

(* The copy mask. *)
LEMMA MaskYields ==
  ASSUME NEW a, NEW b, Begins(b, a), NEW k
  PROVE  Yields(Raw(Start(a), k), Raw(Start(b), k), "same", Raw(Start(a), k).out, Raw(Start(b), k).out)
<1>1. PICK F : F = [i \in 1 .. 1 |-> "same"]
  OBVIOUS
<1>2. F[1] = "same"
  BY <1>1
<1>3. PICK g, h : g = Start(a) /\ h = Start(b)
  OBVIOUS
<1>4. Follows(g, h, 0, F)
  BY <1>3, StartFollow
<1>5. PICK p, q : p = Raw(g, k) /\ q = Raw(h, k)
  OBVIOUS
<1>6. Follows(p, q, 1, F)
  <2>1. 1 = 0 + 1
    OBVIOUS
  <2> QED
    BY <1>2, <1>4, <1>5, <2>1, RawFollow
<1>7. OptionKind("same", "same")
  BY DEF OptionKind
<1>8. Yields(p, q, "same", p.out, q.out)
  BY <1>2, <1>6, <1>7, OptionYields
<1> QED
  BY <1>3, <1>5, <1>8

(* Both parsers read the GUID, if the flags tell of it. *)
LEMMA GuidFlagFollow ==
  ASSUME NEW p, NEW q, NEW n, NEW f, Follows(p, q, n, f), 6 \in 1 .. n, f[6] = "same",
         NEW m, m = n + 1, f[m] = "same"
  PROVE  Follows(FlagGuid(p), FlagGuid(q), m, f)
<1>1. PICK r, s : r = Ints(Start(p.ptr), 1) /\ s = Ints(Start(q.ptr), 1)
  OBVIOUS
<1>2. PICK v, w : v = FlagGuid(p) /\ w = FlagGuid(q)
  OBVIOUS
<1>3. FlagRead(p, 6, 128, r, v)
  BY <1>1, <1>2, GuidFlagged
<1>4. FlagRead(q, 6, 128, s, w)
  BY <1>1, <1>2, GuidFlagged
<1>5. ASSUME p.st = "ok", q.st = "ok" PROVE Yields(r, s, f[m], r.out, s.out)
  <2>1. PICK a, b : a = p.ptr /\ b = q.ptr
    OBVIOUS
  <2>2. Begins(b, a)
    BY <1>5, <2>1, FollowsPtr
  <2>3. Yields(Ints(Start(a), 1), Ints(Start(b), 1), f[m], Ints(Start(a), 1).out, Ints(Start(b), 1).out)
    BY <2>2, GuidYields
  <2> QED
    BY <1>1, <2>1, <2>3
<1>6. Like(f[m], None, None)
  BY NoOption DEF OptionKind
<1>7. Follows(v, w, m, f)
  BY <1>3, <1>4, <1>5, <1>6, FlagFollow
<1> QED
  BY <1>2, <1>7

(* Both parsers read the copy mask, if the flags tell of it. *)
LEMMA MaskFlagFollow ==
  ASSUME NEW p, NEW q, NEW n, NEW f, Follows(p, q, n, f), 6 \in 1 .. n, f[6] = "same",
         NEW m, m = n + 1, f[m] = "same", f[3] = "same"
  PROVE  Follows(skip_copy_mask(p), skip_copy_mask(q), m, f)
<1>1. PICK r, s : r = Raw(Start(p.ptr), p.out[3]) /\ s = Raw(Start(q.ptr), q.out[3])
  OBVIOUS
<1>2. PICK v, w : v = skip_copy_mask(p) /\ w = skip_copy_mask(q)
  OBVIOUS
<1>3. FlagRead(p, 6, 512, r, v)
  BY <1>1, <1>2, MaskFlagged
<1>4. FlagRead(q, 6, 512, s, w)
  BY <1>1, <1>2, MaskFlagged
<1>5. ASSUME p.st = "ok", q.st = "ok" PROVE Yields(r, s, f[m], r.out, s.out)
  <2>1. PICK a, b : a = p.ptr /\ b = q.ptr
    OBVIOUS
  <2>2. Begins(b, a)
    BY <1>5, <2>1, FollowsPtr
  <2>3. PICK k : k = p.out[3]
    OBVIOUS
  <2>4. q.out[3] = k
    <3>1. Alike(p.out, q.out, n, f)
      BY <1>5, FollowsOut
    <3>2. n \in Nat
      BY <3>1 DEF Alike, Holds
    <3>3. 3 \in 1 .. n
      BY <3>2
    <3> QED
      BY <2>3, <3>1, <3>3, SameValue
  <2>5. Yields(Raw(Start(a), k), Raw(Start(b), k), f[m], Raw(Start(a), k).out, Raw(Start(b), k).out)
    BY <2>2, MaskYields
  <2>6. r = Raw(Start(a), k) /\ s = Raw(Start(b), k)
    BY <1>1, <2>1, <2>3, <2>4
  <2> QED
    BY <2>5, <2>6
<1>6. Like(f[m], None, None)
  BY NoOption DEF OptionKind
<1>7. Follows(v, w, m, f)
  BY <1>3, <1>4, <1>5, <1>6, FlagFollow
<1> QED
  BY <1>2, <1>7

(* Both parsers read methods, if the flags tell of them. *)
LEMMA MethodFlagFollow ==
  ASSUME NEW p, NEW q, NEW n, NEW f, Follows(p, q, n, f), 6 \in 1 .. n, f[6] = "same",
         NEW m, m = n + 1, f[m] = "same"
  PROVE  Follows(FlagMethods(p, 6, 2048), FlagMethods(q, 6, 2048), m, f)
<1>1. PICK r, s : r = parse_method_infos(Start(p.ptr)) /\ s = parse_method_infos(Start(q.ptr))
  OBVIOUS
<1>2. PICK v, w : v = FlagMethods(p, 6, 2048) /\ w = FlagMethods(q, 6, 2048)
  OBVIOUS
<1>3. FlagRead(p, 6, 2048, r, v)
  BY <1>1, <1>2, MethodFlagged
<1>4. FlagRead(q, 6, 2048, s, w)
  BY <1>1, <1>2, MethodFlagged
<1>5. ASSUME p.st = "ok", q.st = "ok" PROVE Yields(r, s, f[m], r.out, s.out)
  <2>1. PICK a, b : a = p.ptr /\ b = q.ptr
    OBVIOUS
  <2>2. Begins(b, a)
    BY <1>5, <2>1, FollowsPtr
  <2>3. Yields(parse_method_infos(Start(a)), parse_method_infos(Start(b)), f[m], parse_method_infos(Start(a)).out, parse_method_infos(Start(b)).out)
    BY <2>2, MethodYields
  <2> QED
    BY <1>1, <2>1, <2>3
<1>6. Like(f[m], None, None)
  BY NoOption DEF OptionKind
<1>7. Follows(v, w, m, f)
  BY <1>3, <1>4, <1>5, <1>6, FlagFollow
<1> QED
  BY <1>2, <1>7

(* Both parsers read attributes, if the flags tell of them. *)
LEMMA AttributeFlagFollow ==
  ASSUME NEW p, NEW q, NEW n, NEW f, Follows(p, q, n, f), 6 \in 1 .. n, f[6] = "same",
         NEW m, m = n + 1, f[m] = "attributes_option"
  PROVE  Follows(FlagAttributes(p, 6, AttributesFlag), FlagAttributes(q, 6, AttributesFlag), m, f)
<1>1. PICK r, s : r = parse_attributes(Start(p.ptr)) /\ s = parse_attributes(Start(q.ptr))
  OBVIOUS
<1>2. PICK v, w : v = FlagAttributes(p, 6, AttributesFlag) /\ w = FlagAttributes(q, 6, AttributesFlag)
  OBVIOUS
<1>3. FlagRead(p, 6, AttributesFlag, r, v)
  BY <1>1, <1>2, AttributeFlagged
<1>4. FlagRead(q, 6, AttributesFlag, s, w)
  BY <1>1, <1>2, AttributeFlagged
<1>5. ASSUME p.st = "ok", q.st = "ok" PROVE Yields(r, s, f[m], r.out, s.out)
  <2>1. PICK a, b : a = p.ptr /\ b = q.ptr
    OBVIOUS
  <2>2. Begins(b, a)
    BY <1>5, <2>1, FollowsPtr
  <2>3. Yields(parse_attributes(Start(a)), parse_attributes(Start(b)), f[m], parse_attributes(Start(a)).out, parse_attributes(Start(b)).out)
    BY <2>2, AttributeYields
  <2> QED
    BY <1>1, <2>1, <2>3
<1>6. Like(f[m], None, None)
  BY NoOption DEF OptionKind
<1>7. Follows(v, w, m, f)
  BY <1>3, <1>4, <1>5, <1>6, FlagFollow
<1> QED
  BY <1>2, <1>7

(* Both parsers read enum values, if the flags tell of them. *)
LEMMA EnumFlagFollow ==
  ASSUME NEW p, NEW q, NEW n, NEW f, Follows(p, q, n, f), 6 \in 1 .. n, f[6] = "same",
         NEW m, m = n + 1, NEW size, NEW base, f[m] = IF size = 0 THEN "values_option" ELSE "same"
  PROVE  Follows(FlagEnums(p, 6, 8192, size, base), FlagEnums(q, 6, 8192, size, base), m, f)
<1>1. PICK r, s : r = parse_enum_infos(Start(p.ptr), size, base) /\ s = parse_enum_infos(Start(q.ptr), size, base)
  OBVIOUS
<1>2. PICK v, w : v = FlagEnums(p, 6, 8192, size, base) /\ w = FlagEnums(q, 6, 8192, size, base)
  OBVIOUS
<1>3. FlagRead(p, 6, 8192, r, v)
  BY <1>1, <1>2, EnumFlagged
<1>4. FlagRead(q, 6, 8192, s, w)
  BY <1>1, <1>2, EnumFlagged
<1>5. ASSUME p.st = "ok", q.st = "ok" PROVE Yields(r, s, f[m], r.out, s.out)
  <2>1. PICK a, b : a = p.ptr /\ b = q.ptr
    OBVIOUS
  <2>2. Begins(b, a)
    BY <1>5, <2>1, FollowsPtr
  <2>3. Yields(parse_enum_infos(Start(a), size, base), parse_enum_infos(Start(b), size, base), f[m], parse_enum_infos(Start(a), size, base).out, parse_enum_infos(Start(b), size, base).out)
    BY <2>2, EnumYields
  <2> QED
    BY <1>1, <2>1, <2>3
<1>6. Like(f[m], None, None)
  BY NoOption DEF OptionKind
<1>7. Follows(v, w, m, f)
  BY <1>3, <1>4, <1>5, <1>6, FlagFollow
<1> QED
  BY <1>2, <1>7

-----------------------------------------------------------------------------
(* A type of which a part is there. *)

TypeKinds(size) ==
  [i \in 1 .. 21 |-> IF i \in 12 .. 14 THEN "string"
                     ELSE IF i = 20 THEN "attributes_option"
                     ELSE IF i = 21 /\ size = 0 THEN "values_option"
                     ELSE "same"]

(* The kinds, one by one. *)
LEMMA TypeKindsAre ==
  ASSUME NEW size, NEW f, f = TypeKinds(size)
  PROVE  /\ \A i \in 1 .. 11 : f[i] = "same"
         /\ f[12] = "string" /\ f[13] = "string" /\ f[14] = "string"
         /\ f[15] = "same" /\ f[16] = "same" /\ f[17] = "same" /\ f[18] = "same" /\ f[19] = "same"
         /\ f[20] = "attributes_option"
         /\ f[21] = IF size = 0 THEN "values_option" ELSE "same"
<1>1. /\ \A i \in 1 .. 11 : f[i] = "same"
      /\ f[12] = "string" /\ f[13] = "string" /\ f[14] = "string"
  BY DEF TypeKinds
<1>2. f[15] = "same" /\ f[16] = "same" /\ f[17] = "same" /\ f[18] = "same" /\ f[19] = "same"
  BY DEF TypeKinds
<1>3. f[20] = "attributes_option" /\ f[21] = IF size = 0 THEN "values_option" ELSE "same"
  BY DEF TypeKinds
<1> QED
  BY <1>1, <1>2, <1>3

(* Both parsers read the header. *)
LEMMA HeaderFollow ==
  ASSUME NEW a, NEW b, Begins(b, a), NEW c, NEW size, NEW f, f = TypeKinds(size)
  PROVE  Follows(TypeHeader(Start(a), c), TypeHeader(Start(b), c), 15, f)
<1>1. PICK g, h : g = Ints(Start(a), 11) /\ h = Ints(Start(b), 11)
  OBVIOUS
<1>2. \A i \in 1 .. 11 : f[i] = "same"
  BY TypeKindsAre
<1>3. Follows(g, h, 11, f)
  BY <1>1, <1>2, IntsFollow
<1>4. Sane(h)
  <2>1. Sane(Start(b))
    BY SaneStart DEF Begins
  <2> QED
    BY <1>1, <2>1, SaneInts
<1>5. 1 \in 1 .. 11 /\ 7 \in 1 .. 11 /\ 8 \in 1 .. 11 /\ 9 \in 1 .. 11 /\ 10 \in 1 .. 11
  OBVIOUS
<1>6. f[1] = "same" /\ f[7] = "same" /\ f[8] = "same" /\ f[9] = "same" /\ f[10] = "same"
  BY <1>2, <1>5
<1>7. PICK v, w : v = TypeHeader(Start(a), c) /\ w = TypeHeader(Start(b), c)
  OBVIOUS
<1>8. CASE h.st = "ok" /\ h.out[1] # 1
  <2>1. w = Stop(h, "err")
    BY <1>1, <1>7, <1>8 DEF TypeHeader
  <2>2. w.st # "ok"
    BY <1>4, <2>1 DEF Sane, Stop
  <2> QED
    BY <1>7, <2>2 DEF Follows
<1>9. CASE ~(h.st = "ok" /\ h.out[1] # 1)
  <2>1. PICK s, t : s = read_str(g, 7) /\ t = read_str(h, 7)
    OBVIOUS
  <2>2. Follows(s, t, 12, f)
    <3>1. 12 = 11 + 1 /\ f[12] = "string"
      BY TypeKindsAre
    <3> QED
      BY <1>3, <1>5, <1>6, <2>1, <3>1, StrFollow
  <2>3. PICK x, y : x = read_str(s, 8) /\ y = read_str(t, 8)
    OBVIOUS
  <2>4. Follows(x, y, 13, f)
    <3>1. 13 = 12 + 1 /\ f[13] = "string" /\ 8 \in 1 .. 12
      BY TypeKindsAre
    <3> QED
      BY <1>6, <2>2, <2>3, <3>1, StrFollow
  <2>5. PICK d, e : d = read_str(x, 9) /\ e = read_str(y, 9)
    OBVIOUS
  <2>6. Follows(d, e, 14, f)
    <3>1. 14 = 13 + 1 /\ f[14] = "string" /\ 9 \in 1 .. 13
      BY TypeKindsAre
    <3> QED
      BY <1>6, <2>4, <2>5, <3>1, StrFollow
  <2>7. Follows(TimesDim(d, 10, c), TimesDim(e, 10, c), 15, f)
    <3>1. 15 = 14 + 1 /\ f[15] = "same" /\ 10 \in 1 .. 14
      BY TypeKindsAre
    <3> QED
      BY <1>6, <2>6, <3>1, DimListFollow
  <2>8. w = TimesDim(e, 10, c)
    BY <1>1, <1>7, <1>9, <2>1, <2>3, <2>5 DEF TypeHeader, TimesDim
  <2>9. CASE h.st # "ok"
    <3>1. t = h /\ y = h /\ e = h
      BY <2>1, <2>3, <2>5, <2>9 DEF read_str
    <3>2. w = h
      BY <2>8, <2>9, <3>1 DEF TimesDim, Times
    <3> QED
      BY <1>7, <2>9, <3>2 DEF Follows
  <2>10. CASE h.st = "ok"
    <3>1. Alike(g.out, h.out, 11, f)
      BY <1>3, <2>10, FollowsOut
    <3>2. g.out[1] = h.out[1]
      BY <1>5, <1>6, <3>1, SameValue
    <3>3. g.out[1] = 1
      BY <1>9, <2>10, <3>2
    <3>4. v = TimesDim(d, 10, c)
      BY <1>1, <1>7, <2>1, <2>3, <2>5, <3>3 DEF TypeHeader, TimesDim
    <3> QED
      BY <1>7, <2>7, <2>8, <3>4
  <2> QED
    BY <2>9, <2>10
<1> QED
  BY <1>8, <1>9

(* Both parsers read the sections. *)
LEMMA SectionsFollow ==
  ASSUME NEW p, NEW q, NEW size, NEW f, f = TypeKinds(size), Follows(p, q, 16, f)
  PROVE  Follows(Sections(p), Sections(q), 20, f)
<1>1. f[3] = "same" /\ f[6] = "same"
  <2>1. 3 \in 1 .. 11 /\ 6 \in 1 .. 11
    OBVIOUS
  <2> QED
    BY <2>1, TypeKindsAre
<1>2. PICK a, b : a = FlagGuid(p) /\ b = FlagGuid(q)
  OBVIOUS
<1>3. Follows(a, b, 17, f)
  <2>1. 17 = 16 + 1 /\ 6 \in 1 .. 16 /\ f[17] = "same"
    BY TypeKindsAre
  <2> QED
    BY <1>1, <1>2, <2>1, GuidFlagFollow
<1>4. PICK c, d : c = skip_copy_mask(a) /\ d = skip_copy_mask(b)
  OBVIOUS
<1>5. Follows(c, d, 18, f)
  <2>1. 18 = 17 + 1 /\ 6 \in 1 .. 17 /\ f[18] = "same"
    BY TypeKindsAre
  <2> QED
    BY <1>1, <1>3, <1>4, <2>1, MaskFlagFollow
<1>6. PICK g, h : g = FlagMethods(c, 6, 2048) /\ h = FlagMethods(d, 6, 2048)
  OBVIOUS
<1>7. Follows(g, h, 19, f)
  <2>1. 19 = 18 + 1 /\ 6 \in 1 .. 18 /\ f[19] = "same"
    BY TypeKindsAre
  <2> QED
    BY <1>1, <1>5, <1>6, <2>1, MethodFlagFollow
<1>8. Follows(FlagAttributes(g, 6, AttributesFlag), FlagAttributes(h, 6, AttributesFlag), 20, f)
  <2>1. 20 = 19 + 1 /\ 6 \in 1 .. 19 /\ f[20] = "attributes_option"
    BY TypeKindsAre
  <2> QED
    BY <1>1, <1>7, <2>1, AttributeFlagFollow
<1>9. Sections(p) = FlagAttributes(g, 6, AttributesFlag) /\ Sections(q) = FlagAttributes(h, 6, AttributesFlag)
  BY <1>2, <1>4, <1>6, SectionSteps
<1> QED
  BY <1>8, <1>9

(* The values read before the enum values stay. *)
EnumAdds(p, q) == p.st = "ok" /\ q.st = "ok" /\ DOMAIN p = {"st", "ptr", "out"} => \E e : q.out = Push(p.out, e)

(* Reading the enum values adds one value. *)
LEMMA EnumsKeep ==
  ASSUME NEW p, NEW size, NEW base, NEW q, q = FlagEnums(p, 6, 8192, size, base)
  PROVE  EnumAdds(p, q)
<1>1. SUFFICES ASSUME p.st = "ok", q.st = "ok", DOMAIN p = {"st", "ptr", "out"}
               PROVE  \E e : q.out = Push(p.out, e)
  BY DEF EnumAdds
<1>2. PICK r : r = parse_enum_infos(Start(p.ptr), size, base)
  OBVIOUS
<1>3. FlagRead(p, 6, 8192, r, q)
  BY <1>2, EnumFlagged
<1>4. At(p, p.ptr, p.out)
  BY <1>1 DEF At
<1>5. CASE Bit(p.out[6], 8192)
  <2>1. RecordRead(p, r, r.out, q)
    BY <1>1, <1>3, <1>5 DEF FlagRead
  <2>2. r.st = "ok"
    <3>1. SUFFICES ASSUME r.st # "ok" PROVE FALSE
      OBVIOUS
    <3>2. q = Stop(p, r.st)
      BY <1>1, <2>1, <3>1 DEF RecordRead
    <3> QED
      BY <1>1, <1>4, <3>1, <3>2, Stopped
  <2>3. PICK x : x = r.out
    OBVIOUS
  <2>4. RecordRead(p, r, x, q)
    BY <2>1, <2>3
  <2>5. At(q, r.ptr, Push(p.out, x))
    BY <1>4, <2>2, <2>4, RecordOn
  <2> QED
    BY <2>5 DEF At
<1>6. CASE ~Bit(p.out[6], 8192)
  <2>1. q = [p EXCEPT !.out = Append(p.out, None)]
    BY <1>1, <1>3, <1>6 DEF FlagRead
  <2>2. q = [p EXCEPT !.out = Push(p.out, None)]
    BY <2>1 DEF Push
  <2>3. q.out = Push(p.out, None)
    BY <1>1, <2>2
  <2> QED
    BY <2>3
<1> QED
  BY <1>5, <1>6

(* decode_type_info of a part of a body: it fails, or reads what it reads  *)
(* of all of it, but for strings that are cut.                             *)
LEMMA TypeFollow ==
  ASSUME NEW a, NEW b, Begins(b, a), NEW c, NEW r, r = decode_type_info(Start(a), c),
         NEW s, s = decode_type_info(Start(b), c), s.st = "ok"
  PROVE  r.st = "ok" /\ Alike(r.out, s.out, 21, TypeKinds(r.out[3]))
<1>1. PICK g, h : g = TypeHeader(Start(a), c) /\ h = TypeHeader(Start(b), c)
  OBVIOUS
<1>2. PICK v, w : v = TimesField(g, 11, c) /\ w = TimesField(h, 11, c)
  OBVIOUS
<1>3. PICK x, y : x = Sections(v) /\ y = Sections(w)
  OBVIOUS
<1>4. r = FlagEnums(x, 6, 8192, x.out[3], x.out[5]) /\ s = FlagEnums(y, 6, 8192, y.out[3], y.out[5])
  BY <1>1, <1>2, <1>3, TypeSteps
<1>5. ASSUME NEW size, NEW f, f = TypeKinds(size) PROVE Follows(x, y, 20, f)
  <2>1. Follows(g, h, 15, f)
    BY <1>1, <1>5, HeaderFollow
  <2>2. Follows(v, w, 16, f)
    <3>1. 11 \in 1 .. 11 /\ 11 \in 1 .. 15 /\ 16 = 15 + 1
      OBVIOUS
    <3>2. f[11] = "same" /\ f[16] = "same"
      BY <1>5, <3>1, TypeKindsAre
    <3> QED
      BY <1>2, <2>1, <3>1, <3>2, FieldListFollow
  <2> QED
    BY <1>3, <1>5, <2>2, SectionsFollow
<1>6. PICK size, base, f : size = x.out[3] /\ base = x.out[5] /\ f = TypeKinds(size)
  OBVIOUS
<1>7. Follows(x, y, 20, f)
  BY <1>5, <1>6
<1>8. 3 \in 1 .. 11 /\ 5 \in 1 .. 11 /\ 6 \in 1 .. 11 /\ 3 \in 1 .. 20 /\ 5 \in 1 .. 20 /\ 6 \in 1 .. 20
      /\ 21 = 20 + 1 /\ 3 \in 1 .. 21
  OBVIOUS
<1>9. f[3] = "same" /\ f[5] = "same" /\ f[6] = "same"
  BY <1>6, <1>8, TypeKindsAre
<1>10. y.st = "ok"
  BY <1>4 DEF FlagEnums, Flagged
<1>11. Alike(x.out, y.out, 20, f)
  BY <1>7, <1>10, FollowsOut
<1>12. y.out[3] = size /\ y.out[5] = base
  BY <1>6, <1>8, <1>9, <1>11, SameValue
<1>13. r = FlagEnums(x, 6, 8192, size, base) /\ s = FlagEnums(y, 6, 8192, size, base)
  BY <1>4, <1>6, <1>12
<1>14. Follows(r, s, 21, f)
  <2>1. f[21] = IF size = 0 THEN "values_option" ELSE "same"
    BY <1>6, TypeKindsAre
  <2> QED
    BY <1>7, <1>8, <1>9, <1>13, <2>1, EnumFlagFollow
<1>15. r.st = "ok" /\ Alike(r.out, s.out, 21, f)
  BY <1>14, FollowsPtr, FollowsOut
<1>16. r.out[3] = size
  <2>1. EnumAdds(x, r)
    BY <1>13, EnumsKeep
  <2>2. Holds(x.out, 20)
    BY <1>11 DEF Alike
  <2>3. x.st = "ok" /\ DOMAIN x = {"st", "ptr", "out"}
    BY <1>7, <1>10 DEF Follows, At
  <2>4. PICK e : r.out = Push(x.out, e)
    BY <1>15, <2>1, <2>3 DEF EnumAdds
  <2>5. More(Push(x.out, e), x.out, 21, e)
    BY <1>8, <2>2, Grown
  <2>6. 3 \in 1 .. 21 - 1
    OBVIOUS
  <2>7. r.out[3] = x.out[3]
    BY <2>4, <2>5, <2>6 DEF More
  <2> QED
    BY <1>6, <2>7
<1> QED
  BY <1>6, <1>15, <1>16

-----------------------------------------------------------------------------
(* A type with strings at the end cut. *)

(* A type without size has no enum values. *)
LEMMA NoValues ==
  ASSUME NEW t \in TypeRecord, t.size = 0, NEW v, t.enum_info = Some(v)
  PROVE  v = <<>>
<1>1. PICK R : R = [name : String, value : Int]
  OBVIOUS
<1>2. t.enum_info \in Option(Seq(R))
  BY <1>1 DEF TypeRecord
<1>3. t.enum_info # <<>>
  BY DEF Some
<1>4. PICK x \in Seq(R) : t.enum_info = <<x>>
  BY <1>2, <1>3, OptionIs
<1>5. x = v
  BY <1>4 DEF Some
<1>6. v \in ToSet(t.enum_info)
  BY DEF Some, ToSet
<1>7. \A e \in ToSet(v) : Representable(e.value, t.size, t.base_type)
  BY <1>6 DEF TypeRecord
<1>8. \A e \in ToSet(v) : FALSE
  BY <1>7 DEF Representable
<1>9. \A i \in 1 .. Len(x) : x[i] \in ToSet(v)
  BY <1>5 DEF ToSet
<1>10. Len(x) = 0
  BY <1>8, <1>9
<1> QED
  BY <1>4, <1>5, <1>10

(* The same list, if it is empty. *)
LEMMA EmptyLike ==
  ASSUME NEW kind, NEW v, NEW w, v = <<>>, ListLike(kind, v, w)
  PROVE  w = v
<1>1. PICK m : Holds(v, m) /\ Holds(w, m)
  BY DEF ListLike
<1>2. m \in Nat /\ v = [i \in 1 .. m |-> v[i]] /\ w = [i \in 1 .. m |-> w[i]]
  BY <1>1 DEF Holds
<1>3. 1 .. m = {}
  <2>1. DOMAIN v = 1 .. m
    BY <1>2
  <2> QED
    BY <2>1
<1> QED
  BY <1>2, <1>3

(* The enum values of a type are all there. *)
LEMMA ValuesLike ==
  ASSUME NEW t \in TypeRecord, NEW y, Like(TypeKinds(t.size)[21], t.enum_info, y)
  PROVE  y = t.enum_info
<1>1. PICK f : f = TypeKinds(t.size)
  OBVIOUS
<1>2. f[21] = IF t.size = 0 THEN "values_option" ELSE "same"
  BY <1>1, TypeKindsAre
<1>3. CASE t.size # 0
  BY <1>1, <1>2, <1>3 DEF Like, ItemLike
<1>4. CASE t.size = 0
  <2>1. OptionLike("any", t.enum_info, y)
    BY <1>1, <1>2, <1>4 DEF Like, ItemLike
  <2>2. CASE t.enum_info = None /\ y = None
    BY <2>2
  <2>3. ASSUME NEW v, NEW w, t.enum_info = Some(v), y = Some(w), ListLike("any", v, w)
        PROVE  y = t.enum_info
    <3>1. v = <<>>
      BY <1>4, <2>3, NoValues
    <3>2. w = v
      BY <2>3, <3>1, EmptyLike
    <3> QED
      BY <2>3, <3>2
  <2> QED
    BY <2>1, <2>2, <2>3 DEF OptionLike
<1> QED
  BY <1>3, <1>4

(* The attributes of a type are as many, their strings cut at most. *)
AttributesCut(x, y) ==
  /\ Len(y) = Len(x)
  /\ \A k \in DOMAIN x :
       /\ Len(y[k]) = Len(x[k])
       /\ \A j \in DOMAIN x[k] : IsPrefix(y[k][j].name, x[k][j].name) /\ IsPrefix(y[k][j].value, x[k][j].value)

(* Attributes of which a part is there. *)
LEMMA AttributesLike ==
  ASSUME NEW x, NEW y, Like("attributes_option", x, y)
  PROVE  AttributesCut(x, y)
<1>1. OptionLike("attribute", x, y)
  BY DEF Like, ItemLike
<1>2. CASE x = None /\ y = None
  BY <1>2 DEF None, AttributesCut
<1>3. ASSUME NEW v, NEW w, x = Some(v), y = Some(w), ListLike("attribute", v, w)
      PROVE  AttributesCut(x, y)
  <2>1. PICK m : Holds(v, m) /\ Holds(w, m) /\ \A j \in 1 .. m : ItemLike("attribute", v[j], w[j])
    BY <1>3 DEF ListLike
  <2>2. m \in Nat /\ DOMAIN v = 1 .. m /\ DOMAIN w = 1 .. m
    BY <2>1 DEF Holds
  <2>3. Len(w) = Len(v)
    <3>1. v = [i \in 1 .. m |-> v[i]] /\ w = [i \in 1 .. m |-> w[i]]
      BY <2>1 DEF Holds
    <3>2. Len([i \in 1 .. m |-> v[i]]) = m /\ Len([i \in 1 .. m |-> w[i]]) = m
      BY <2>2
    <3> QED
      BY <3>1, <3>2
  <2>4. ASSUME NEW j \in DOMAIN v
        PROVE  IsPrefix(w[j].name, v[j].name) /\ IsPrefix(w[j].value, v[j].value)
    <3>1. Begins(w[j].name, v[j].name) /\ Begins(w[j].value, v[j].value)
      BY <2>1, <2>2 DEF ItemLike
    <3> QED
      BY <3>1, BeginsPrefix
  <2>5. Len(x) = 1 /\ Len(y) = 1 /\ x[1] = v /\ y[1] = w /\ \A k \in DOMAIN x : k = 1
    BY <1>3 DEF Some
  <2> QED
    BY <2>3, <2>4, <2>5 DEF AttributesCut
<1> QED
  BY <1>1, <1>2, <1>3 DEF OptionLike

(* A type with its strings and attributes replaced. *)
Made(n, ty, c, s, a, f, b, fl, g, m, at, e) ==
  [name |-> n, type_name |-> ty, comment |-> c, size |-> s, array |-> a, fields |-> f,
   base_type |-> b, flags |-> fl, guid |-> g, methods |-> m, attributes |-> at, enum_info |-> e]
Mend(got, n, ty, c, at) ==
  [got EXCEPT !.name = n, !.type_name = ty, !.comment = c, !.attributes = at]

(* Replacing the strings and attributes of a type. *)
LEMMA Mended ==
  ASSUME NEW n, NEW ty, NEW c, NEW s, NEW a, NEW f, NEW b, NEW fl, NEW g, NEW m, NEW at, NEW e,
         NEW n2, NEW ty2, NEW c2, NEW at2
  PROVE  Mend(Made(n, ty, c, s, a, f, b, fl, g, m, at, e), n2, ty2, c2, at2)
         = Made(n2, ty2, c2, s, a, f, b, fl, g, m, at2, e)
<1>0. PICK got : got = Made(n, ty, c, s, a, f, b, fl, g, m, at, e)
  OBVIOUS
<1>1. PICK v : v = [got EXCEPT !.name = n2]
  OBVIOUS
<1>2. v = Made(n2, ty, c, s, a, f, b, fl, g, m, at, e)
  BY <1>0, <1>1 DEF Made
<1>3. PICK w : w = [v EXCEPT !.type_name = ty2]
  OBVIOUS
<1>4. w = Made(n2, ty2, c, s, a, f, b, fl, g, m, at, e)
  BY <1>2, <1>3 DEF Made
<1>5. PICK x : x = [w EXCEPT !.comment = c2]
  OBVIOUS
<1>6. x = Made(n2, ty2, c2, s, a, f, b, fl, g, m, at, e)
  BY <1>4, <1>5 DEF Made
<1>7. [x EXCEPT !.attributes = at2]
      = Made(n2, ty2, c2, s, a, f, b, fl, g, m, at2, e)
  BY <1>6 DEF Made
<1>8. Mend(got, n2, ty2, c2, at2)
      = [x EXCEPT !.attributes = at2]
  BY <1>1, <1>3, <1>5 DEF Mend
<1> QED
  BY <1>0, <1>7, <1>8

(* What is decoded of a part of a body is the type but for cut strings. *)
LEMMA FoundCut ==
  ASSUME NEW t \in TypeRecord, NEW o, NEW u, Type(o) = t, Alike(o, u, 21, TypeKinds(o[3]))
  PROVE  CutFrom(t, Type(u))
<1>1. /\ o[12] = t.name /\ o[13] = t.type_name /\ o[14] = t.comment /\ o[3] = t.size
      /\ o[15] = t.array /\ o[16] = t.fields /\ o[5] = t.base_type /\ o[6] = t.flags
      /\ o[17] = t.guid /\ o[19] = t.methods /\ o[20] = t.attributes /\ o[21] = t.enum_info
  BY DEF Type
<1>2. PICK f : f = TypeKinds(t.size)
  OBVIOUS
<1>3. Alike(o, u, 21, f)
  BY <1>1, <1>2
<1>4. \A i \in 1 .. 21 : Like(f[i], o[i], u[i])
  BY <1>3 DEF Alike
<1>5. \A i \in {3, 5, 6, 15, 16, 17, 19} : i \in 1 .. 21 /\ f[i] = "same"
  BY <1>2, TypeKindsAre
<1>6. \A i \in {3, 5, 6, 15, 16, 17, 19} : u[i] = o[i]
  <2>1. ASSUME NEW i \in {3, 5, 6, 15, 16, 17, 19} PROVE u[i] = o[i]
    <3>1. i \in 1 .. 21 /\ f[i] = "same"
      BY <1>5
    <3> QED
      BY <1>3, <3>1, SameValue
  <2> QED
    BY <2>1
<1>7. \A i \in {12, 13, 14} : IsPrefix(u[i], o[i])
  <2>1. ASSUME NEW i \in {12, 13, 14} PROVE IsPrefix(u[i], o[i])
    <3>1. i \in 1 .. 21 /\ f[i] = "string"
      BY <1>2, TypeKindsAre
    <3>2. Like("string", o[i], u[i])
      BY <1>4, <3>1
    <3>3. Begins(u[i], o[i])
      BY <3>2 DEF Like, ItemLike
    <3> QED
      BY <3>3, BeginsPrefix
  <2> QED
    BY <2>1
<1>8. AttributesCut(t.attributes, u[20])
  <2>1. 20 \in 1 .. 21 /\ f[20] = "attributes_option"
    BY <1>2, TypeKindsAre
  <2>2. Like("attributes_option", t.attributes, u[20])
    BY <1>1, <1>4, <2>1
  <2> QED
    BY <2>2, AttributesLike
<1>9. u[21] = t.enum_info
  <2>1. 21 \in 1 .. 21
    OBVIOUS
  <2>2. Like(f[21], t.enum_info, u[21])
    BY <1>1, <1>4, <2>1
  <2>3. Like(TypeKinds(t.size)[21], t.enum_info, u[21])
    BY <1>2, <2>2
  <2> QED
    BY <2>3, ValuesLike
<1>10. PICK got : got = Type(u)
  OBVIOUS
<1>11. /\ got.name = u[12] /\ got.type_name = u[13] /\ got.comment = u[14] /\ got.attributes = u[20]
  BY <1>10 DEF Type
<1>12. [got EXCEPT !.name = t.name, !.type_name = t.type_name, !.comment = t.comment,
                   !.attributes = t.attributes] = t
  <2>1. got = Made(u[12], u[13], u[14], t.size, t.array, t.fields, t.base_type, t.flags,
                   t.guid, t.methods, u[20], t.enum_info)
    BY <1>1, <1>6, <1>9, <1>10 DEF Type, Made
  <2>2. Mend(got, t.name, t.type_name, t.comment, t.attributes)
        = Made(t.name, t.type_name, t.comment, t.size, t.array, t.fields, t.base_type, t.flags,
               t.guid, t.methods, t.attributes, t.enum_info)
    BY <2>1, Mended
  <2>3. t = Made(t.name, t.type_name, t.comment, t.size, t.array, t.fields, t.base_type, t.flags,
                 t.guid, t.methods, t.attributes, t.enum_info)
    BY DEF TypeRecord, Made
  <2>4. Mend(got, t.name, t.type_name, t.comment, t.attributes) = t
    BY <2>2, <2>3
  <2> QED
    BY <2>4 DEF Mend
<1>13. IsPrefix(got.name, t.name) /\ IsPrefix(got.type_name, t.type_name) /\ IsPrefix(got.comment, t.comment)
  BY <1>1, <1>7, <1>11
<1>14. AttributesCut(t.attributes, got.attributes)
  BY <1>8, <1>11
<1>15. CutFrom(t, got)
  BY <1>12, <1>13, <1>14 DEF CutFrom, AttributesCut
<1> QED
  BY <1>10, <1>15

-----------------------------------------------------------------------------
(* What get_type_info_by_name makes of the reply. *)

(* What is left of an entry after its length is its body. *)
LEMMA FramedDrop ==
  ASSUME NEW body \in Seq(Int), NEW e, e = Framed(body)
  PROVE  Drop(e, 1) = body
<1>1. PICK n \in Nat : n = Len(body)
  OBVIOUS
<1>2. e \in Seq(Int) /\ Len(e) = n + 1
  BY <1>1, FramedType
<1>3. \A i \in 1 .. n : e[i + 1] = body[i]
  BY <1>1 DEF Framed
<1>4. Drop(e, 1) = SubSeq(e, 2, n + 1)
  BY <1>2 DEF Drop
<1>5. PICK d : d = SubSeq(e, 2, n + 1)
  OBVIOUS
<1>6. d \in Seq(Int) /\ Len(d) = n /\ \A i \in 1 .. n : d[i] = e[i + 1]
  BY <1>1, <1>2, <1>5
<1>7. d = body
  BY <1>1, <1>3, <1>6
<1> QED
  BY <1>4, <1>5, <1>7

(* All of it, if it is not longer. *)
LEMMA UptoAll ==
  ASSUME NEW s \in Seq(Int), NEW n \in Nat, Len(s) <= n
  PROVE  Upto(s, n) = s
<1>1. PICK N \in Nat : N = Len(s)
  OBVIOUS
<1>2. Upto(s, n) = SubSeq(s, 1, N)
  BY <1>1 DEF Upto
<1> QED
  BY <1>1, <1>2

(* What is looked at: a part of the body, and all of it if it fits. *)
LookedAt(reply, n) == Drop(Upto(Upto(reply, n), reply[1]), 1)

(* The part of the body that a lookup decodes. *)
LEMMA LookedAtPart ==
  ASSUME NEW body \in Seq(Int), NEW entry, entry = Framed(body), NEW reply, reply = Upto(entry, BufLen),
         NEW n \in {Len(entry), Len(reply)}
  PROVE  /\ n <= Len(entry)
         /\ n <= BufLen => /\ n >= 1 /\ reply[1] >= 1 /\ Begins(LookedAt(reply, n), body)
                           /\ Len(entry) <= BufLen => LookedAt(reply, n) = body
<1>1. PICK e \in Nat, b \in Nat : e = Len(entry) /\ b = BufLen /\ b # 0
  <2>1. Framed(body) \in Seq(Int)
    BY FramedType
  <2>2. Len(entry) \in Nat
    BY <2>1
  <2>3. BufLen \in Nat /\ BufLen # 0
    BY SymbolUploadAssumption
  <2> QED
    BY <2>2, <2>3
<1>2. entry \in Seq(Int) /\ entry # <<>> /\ e = Len(body) + 1 /\ entry[1] = e /\ Len(body) \in Nat
  <2>1. PICK f : f = Framed(body)
    OBVIOUS
  <2>2. f \in Seq(Int) /\ f # <<>> /\ Len(f) = Len(body) + 1 /\ f[1] = Len(body) + 1
    BY <2>1, FramedType
  <2>3. entry = f
    BY <2>1
  <2> QED
    BY <1>1, <2>2, <2>3
<1>3. /\ reply \in Seq(Int) /\ Len(reply) = (IF b < e THEN b ELSE e)
      /\ \A i \in 1 .. Len(reply) : reply[i] = entry[i]
  BY <1>1, <1>2, UptoIs
<1>4. PICK l \in Nat : l = Len(reply)
  BY <1>3
<1>5. l <= e /\ l >= 1 /\ reply[1] = e /\ (e <= b => l = e)
  BY <1>1, <1>2, <1>3, <1>4
<1>6. n \in Nat /\ n <= e
  BY <1>1, <1>4, <1>5
<1>7. ASSUME n <= b
      PROVE  /\ n >= 1 /\ reply[1] >= 1 /\ Begins(LookedAt(reply, n), body)
             /\ e <= b => LookedAt(reply, n) = body
  <2>1. n = l
    BY <1>1, <1>3, <1>4, <1>7
  <2>2. Upto(reply, n) = reply
    BY <1>3, <1>4, <2>1, UptoAll
  <2>3. Upto(reply, reply[1]) = reply
    <3>1. PICK m \in Nat : m = reply[1] /\ Len(reply) <= m
      BY <1>4, <1>5
    <3>2. Upto(reply, m) = reply
      BY <1>3, <3>1, UptoAll
    <3> QED
      BY <3>1, <3>2
  <2>4. LookedAt(reply, n) = Drop(reply, 1)
    BY <2>2, <2>3 DEF LookedAt
  <2>5. Begins(reply, entry)
    BY <1>1, <1>2, <1>3, <1>4, <1>5 DEF Begins
  <2>6. Begins(Drop(reply, 1), Drop(entry, 1))
    <3>1. 1 \in Nat
      OBVIOUS
    <3> QED
      BY <2>5, <3>1, BeginsDrop
  <2>7. Drop(entry, 1) = body
    BY FramedDrop
  <2>8. e <= b => reply = entry
    BY <1>1, <1>2, UptoAll
  <2> QED
    BY <1>1, <1>5, <2>1, <2>4, <2>6, <2>7, <2>8
<1> QED
  BY <1>1, <1>6, <1>7

(* The result of looking up the type t. *)
LookedUp(t, fits, r) ==
  /\ fits => (r.st = "ok" /\ r.out = Some(t)) \/ (r.st = "panic" /\ checks /\ EndsAtMax(t))
  /\ r.st = "ok" => CutFrom(t, r.out[1])

(* Lookup decodes that part. *)
LEMMA LookupReads ==
  ASSUME NEW reply, NEW n, ~(n > BufLen), ~(n < 1), ~(reply[1] < 1), NEW part, part = LookedAt(reply, n),
         NEW p, p = Start(part), NEW d, d = decode_type_info(Start(part), checks),
         NEW r, r = Lookup(reply, n)
  PROVE  RecordRead(p, d, Type(d.out), r)
<1>1. p.ptr = part /\ p.st = "ok"
  BY DEF Start
<1>2. r = Record(p, LAMBDA q : decode_type_info(q, checks), Type)
  BY DEF Lookup, LookupAfter, LookedAt
<1>3. r = IF p.st # "ok" THEN p
          ELSE IF decode_type_info(Start(p.ptr), checks).st # "ok"
               THEN Stop(p, decode_type_info(Start(p.ptr), checks).st)
               ELSE [p EXCEPT !.ptr = decode_type_info(Start(p.ptr), checks).ptr,
                              !.out = Append(@, Type(decode_type_info(Start(p.ptr), checks).out))]
  BY <1>2 DEF Record
<1>4. decode_type_info(Start(p.ptr), checks) = d
  BY <1>1
<1> QED
  BY <1>3, <1>4 DEF RecordRead

(* What a lookup results in, for any reply to it. *)
LEMMA LookupIs ==
  ASSUME NEW t \in TypeRecord, NEW entry, entry = TypeEntry(t, 5), NEW reply, reply = Upto(entry, BufLen),
         NEW n \in {Len(entry), Len(reply)}, NEW r, r = Lookup(reply, n)
  PROVE  LookedUp(t, Len(entry) <= BufLen, r)
<1>1. 5 \in Int
  OBVIOUS
<1>2. PICK body : Whole(TypeEntry(t, 5), body) /\ \A c : Decodes(t, c, decode_type_info(Start(body), c))
  BY <1>1, TypeEntryRead
<1>3. body \in Seq(Int) /\ entry = Framed(body)
  BY <1>2 DEF Whole
<1>4. /\ n <= Len(entry)
      /\ n <= BufLen => /\ n >= 1 /\ reply[1] >= 1 /\ Begins(LookedAt(reply, n), body)
                        /\ Len(entry) <= BufLen => LookedAt(reply, n) = body
  BY <1>3, LookedAtPart
<1>5. PICK b \in Nat, e \in Nat, m \in Int : b = BufLen /\ e = Len(entry) /\ m = reply[1]
  <2>1. BufLen \in Nat \ {0} /\ Len(entry) \in Nat
    BY <1>3, FramedType, SymbolUploadAssumption
  <2>2. reply \in Seq(Int) /\ Len(reply) = (IF BufLen < Len(entry) THEN BufLen ELSE Len(entry))
    BY <1>3, <2>1, FramedType, UptoIs
  <2>3. Len(reply) # 0
    BY <1>3, <2>1, <2>2, FramedType
  <2>4. reply[1] \in Int
    BY <2>2, <2>3
  <2> QED
    BY <2>1, <2>4
<1>6. n \in Int
  BY <1>3, <1>5, FramedType, UptoIs
<1>7. CASE n > b
  <2>1. r = Stop(Start(<<>>), "panic")
    BY <1>5, <1>7 DEF Lookup, LookupAfter
  <2>2. r.st = "panic"
    BY <2>1 DEF Stop, Start
  <2>3. ~(Len(entry) <= BufLen)
    BY <1>4, <1>5, <1>6, <1>7
  <2> QED
    BY <2>2, <2>3 DEF LookedUp
<1>8. CASE ~(n > b)
  <2>1. PICK part, p : part = LookedAt(reply, n) /\ p = Start(part)
    OBVIOUS
  <2>2. PICK d, g : d = decode_type_info(Start(part), checks) /\ g = decode_type_info(Start(body), checks)
    OBVIOUS
  <2>3. n <= BufLen
    BY <1>5, <1>6, <1>8
  <2>4. Begins(part, body) /\ (Len(entry) <= BufLen => part = body)
    BY <1>4, <2>1, <2>3
  <2>5. ~(n > BufLen) /\ ~(n < 1) /\ ~(reply[1] < 1)
    BY <1>4, <1>5, <1>6, <1>8, <2>3
  <2>6. RecordRead(p, d, Type(d.out), r)
    BY <2>1, <2>2, <2>5, LookupReads
  <2>7. Decodes(t, checks, g)
    BY <1>2, <2>2
  <2>8. At(p, part, <<>>)
    BY <2>1, StartAt
  <2>9. p.st = "ok"
    BY <2>8 DEF At
  <2>10. CASE d.st # "ok"
    <3>1. r = Stop(p, d.st)
      BY <2>6, <2>9, <2>10 DEF RecordRead
    <3>2. r.st = d.st
      BY <2>8, <3>1 DEF Stop, At
    <3>3. Len(entry) <= BufLen => d = g
      BY <2>2, <2>4
    <3> QED
      BY <2>7, <2>10, <3>2, <3>3 DEF Decodes, LookedUp
  <2>11. CASE d.st = "ok"
    <3>1. PICK x : x = Type(d.out)
      OBVIOUS
    <3>2. At(r, d.ptr, Push(<<>>, x))
      BY <2>6, <2>8, <2>11, <3>1, RecordOn
    <3>3. r.st = "ok" /\ r.out = Some(x) /\ r.out[1] = x
      BY <3>2 DEF At, Push, Some
    <3>4. g.st = "ok" /\ Alike(g.out, d.out, 21, TypeKinds(g.out[3]))
      BY <2>2, <2>4, <2>11, TypeFollow
    <3>5. Type(g.out) = t
      BY <2>7, <3>4 DEF Decodes
    <3>6. CutFrom(t, x)
      <4>1. PICK o, u : o = g.out /\ u = d.out
        OBVIOUS
      <4>2. Type(o) = t /\ Alike(o, u, 21, TypeKinds(o[3]))
        BY <3>4, <3>5, <4>1
      <4>3. CutFrom(t, Type(u))
        BY <4>2, FoundCut
      <4> QED
        BY <3>1, <4>1, <4>3
    <3>7. Len(entry) <= BufLen => x = t
      BY <2>2, <2>4, <3>1, <3>5
    <3> QED
      BY <3>3, <3>6, <3>7 DEF LookedUp
  <2> QED
    BY <2>10, <2>11
<1> QED
  BY <1>7, <1>8

-----------------------------------------------------------------------------

(* The lookup that has ended agrees with the table. *)
LEMMA AgreesAfterLookup ==
  ASSUME UploadInv, GetTypeByName
  PROVE  ByNameAgrees'
<1>1. PICK k \in DOMAIN Programs[program].types :
        LET entry == TypeEntry(Programs[program].types[k], 5)
            reply == Upto(entry, BufLen)
        IN \E n \in {Len(entry), Len(reply)} :
             LET r == Lookup(reply, n)
             IN /\ read' = [read EXCEPT !.types = k]
                /\ typ' = r.out
                /\ phase' = IF r.st = "ok" THEN "found" ELSE r.st
  BY DEF GetTypeByName
<1>2. PICK t, entry : t = Programs[program].types[k] /\ entry = TypeEntry(t, 5)
  OBVIOUS
<1>3. PICK reply : reply = Upto(entry, BufLen)
  OBVIOUS
<1>4. PICK n \in {Len(entry), Len(reply)} :
        /\ read' = [read EXCEPT !.types = k]
        /\ typ' = Lookup(reply, n).out
        /\ phase' = IF Lookup(reply, n).st = "ok" THEN "found" ELSE Lookup(reply, n).st
  BY <1>1, <1>2, <1>3
<1>5. PICK r : r = Lookup(reply, n)
  OBVIOUS
<1>6. program' = program /\ checks' = checks
  BY DEF GetTypeByName, deviceVars
<1>7. program \in 1 .. Len(Programs) /\ read \in [sizes : Nat, types : Nat, symbols : Nat]
  BY DEF UploadInv, UploadTyped
<1>8. t \in TypeRecord
  BY <1>2, <1>7, ReplyType
<1>9. LookedUp(t, Len(entry) <= BufLen, r)
  BY <1>2, <1>3, <1>5, <1>8, LookupIs
<1>10. read'.types = k
  BY <1>4, <1>7
<1>11. typ' = r.out /\ phase' = IF r.st = "ok" THEN "found" ELSE r.st
  BY <1>4, <1>5
<1>12. Programs[program'].types[read'.types] = t /\ TypeEntry(t, 5) = entry
  BY <1>2, <1>6, <1>10
<1>13. reply \in Seq(Int) /\ reply # <<>> /\ n \in Nat
  BY <1>2, <1>3, <1>7, ReplyType
<1>14. r.st \in {"ok", "err", "panic"}
  BY <1>5, <1>13, SaneLookup DEF Sane
<1>15. phase' = "found" <=> r.st = "ok"
  BY <1>11, <1>14
<1>16. /\ Len(entry) <= BufLen
            => (phase' = "found" /\ typ' = Some(t)) \/ (phase' = "panic" /\ checks' /\ EndsAtMax(t))
       /\ phase' = "found" => CutFrom(t, typ'[1])
  BY <1>6, <1>9, <1>11, <1>14, <1>15 DEF LookedUp
<1> QED
  BY <1>12, <1>16 DEF ByNameAgrees

(* The other actions end no lookup. *)
LEMMA AgreesElsewhere ==
  ASSUME UploadInv, ByNameAgrees, phase' \in {"found", "err", "panic"} => read'.sizes # 0 \/ read'.types = 0
  PROVE  ByNameAgrees'
  BY DEF ByNameAgrees

(* A step that changes nothing keeps the property. *)
LEMMA AgreesIfSame ==
  ASSUME ByNameAgrees, phase' = phase, read' = read, typ' = typ, program' = program, checks' = checks
  PROVE  ByNameAgrees'
  BY DEF ByNameAgrees

(* Every step keeps the property. *)
LEMMA AgreesStep ==
  ASSUME UploadInv, ByNameAgrees, [Next]_vars
  PROVE  ByNameAgrees'
<1>1. /\ phase = "start" => read.sizes = 0 /\ read.types = 0
      /\ phase \in {"types", "symbols", "decode_types", "decode_symbols"} => read.sizes # 0
      /\ read \in [sizes : Nat, types : Nat, symbols : Nat] /\ program \in 1 .. Len(Programs) /\ program # 0
  <2>1. program \in 1 .. Len(Programs) /\ read \in [sizes : Nat, types : Nat, symbols : Nat]
    BY DEF UploadInv, UploadTyped
  <2>2. phase = "start" => read.sizes = 0 /\ read.types = 0
    BY DEF UploadInv, Answers
  <2>3. phase \in {"types", "symbols", "decode_types", "decode_symbols"} => read.sizes \in 1 .. program
    BY DEF UploadInv, Answers
  <2> QED
    BY <2>1, <2>2, <2>3
<1>2. CASE OnlineChange
  <2>1. phase' = phase /\ phase \notin {"found", "err", "panic"}
    BY <1>2 DEF OnlineChange, Ended
  <2> QED
    BY <2>1, AgreesElsewhere
<1>3. CASE ReadSizes
  <2>1. phase' = "types"
    BY <1>3 DEF ReadSizes
  <2> QED
    BY <2>1, AgreesElsewhere
<1>4. CASE ReadTypes \/ ReadSymbols
  <2>1. PICK table \in {"types", "symbols"} : phase = table /\ read' = [read EXCEPT ![table] = program]
    BY <1>4 DEF ReadTypes, ReadSymbols, ReadTable
  <2>2. read'.sizes # 0
    BY <1>1, <2>1
  <2> QED
    BY <2>2, AgreesElsewhere
<1>5. CASE RequestFails
  <2>1. phase \in {"start", "types", "symbols"} /\ read' = read
    BY <1>5 DEF RequestFails
  <2>2. read'.sizes # 0 \/ read'.types = 0
    BY <1>1, <2>1
  <2> QED
    BY <2>2, AgreesElsewhere
<1>6. CASE DecodeType \/ TypesDecoded \/ DecodeSymbol \/ SymbolsDecoded
  <2>1. phase \in {"decode_types", "decode_symbols"} /\ read' = read
    BY <1>6 DEF DecodeType, TypesDecoded, DecodeSymbol, SymbolsDecoded
  <2>2. read'.sizes # 0
    BY <1>1, <2>1
  <2> QED
    BY <2>2, AgreesElsewhere
<1>7. CASE GetTypeByName
  BY <1>7, AgreesAfterLookup
<1>8. CASE UNCHANGED vars
  <2>1. phase' = phase /\ read' = read /\ typ' = typ /\ program' = program /\ checks' = checks
    BY <1>8 DEF vars, deviceVars, resultVars
  <2> QED
    BY <2>1, AgreesIfSame
<1> QED
  BY <1>2, <1>3, <1>4, <1>5, <1>6, <1>7, <1>8 DEF Next, Finished

(* ByNameAgrees holds for every program and every length of the buffer of  *)
(* get_type_info_by_name: what fits is found as the upload has it, and of  *)
(* what does not fit nothing but strings at the end can be cut.            *)
THEOREM NamedType == Spec => []ByNameAgrees
<1>1. Init => ByNameAgrees
  BY DEF Init, ByNameAgrees
<1>2. UploadInv /\ ByNameAgrees /\ [Next]_vars => ByNameAgrees'
  BY AgreesStep
<1> QED
  BY <1>1, <1>2, Uploading, PTL DEF Spec
=============================================================================

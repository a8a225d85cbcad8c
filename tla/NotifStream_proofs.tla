------------------------- MODULE NotifStream_proofs --------------------------
(***************************************************************************)
(* Proofs about NotifStream, for messages of any length: the iterator      *)
(* makes the steps of the walk that accepted the message, and returns what *)
(* a device encoded.                                                       *)
(***************************************************************************)
EXTENDS NotifStream, WellFoundedInduction, SequenceTheorems, TLAPS

-----------------------------------------------------------------------------
(* Induction over the naturals, for a set of numbers.                      *)

(* Induction, with the property as a set: Nat is well founded.             *)
LEMMA Induct ==
  ASSUME NEW S, 0 \in S, \A n \in Nat : n \in S => n + 1 \in S
  PROVE  \A n \in Nat : n \in S
<1> DEFINE T == {n \in Nat : n \notin S}
<1> SUFFICES ASSUME T # {} PROVE FALSE
  OBVIOUS
<1> DEFINE R == OpToRel(<, Nat)
<1>1. IsWellFoundedOn(R, Nat)
  BY NatLessThanWellFounded
<1>2. \A m, n \in Nat : m < n => <<m, n>> \in R
  BY DEF OpToRel
<1> HIDE DEF R
<1>3. T \subseteq Nat
  OBVIOUS
<1>4. PICK x \in T : \A y \in T : ~(<<y, x>> \in R)
  BY <1>1, <1>3, WFMin, Zenon
<1>5. x # 0 /\ x \in Nat
  OBVIOUS
<1>6. x - 1 \in Nat /\ x - 1 < x /\ (x - 1) + 1 = x
  BY <1>5
<1>7. x - 1 \in T
  BY <1>6
<1> QED
  BY <1>2, <1>3, <1>4, <1>6, <1>7

-----------------------------------------------------------------------------
(* Where FlattenSeq puts the elements of the sequences it is given.        *)

Catenates(s, n, F) ==
  /\ F[0] = <<>>
  /\ \A i \in 1 .. n : F[i] = F[i - 1] \o s[i]

(* Flattening is the last of the successive concatenations.                *)
LEMMA FlattenIsLast ==
  ASSUME NEW S, NEW s \in Seq(Seq(S)), NEW F \in [0 .. Len(s) -> Seq(S)],
         Catenates(s, Len(s), F)
  PROVE  FlattenSeq(s) = F[Len(s)]
<1> DEFINE N == Len(s)
<1> DEFINE g == [i \in 1 .. N |-> F[i]]
<1>1. CASE N = 0
  BY <1>1 DEF FlattenSeq, Catenates
<1>2. CASE N # 0
  <2> DEFINE body(f) == [i \in 1 .. N |-> IF i = 1 THEN s[i] ELSE f[i - 1] \o s[i]]
  <2> DEFINE h == CHOOSE f : f = body(f)
  <2>1. g = body(g)
    <3>1. ASSUME NEW i \in 1 .. N PROVE F[i] = IF i = 1 THEN s[i] ELSE g[i - 1] \o s[i]
      <4>1. F[i] = F[i - 1] \o s[i]
        BY DEF Catenates
      <4>2. CASE i = 1
        <5>1. s[i] \in Seq(S)
          OBVIOUS
        <5>2. i - 1 = 0
          BY <4>2
        <5>3. F[i] = <<>> \o s[i]
          BY <4>1, <5>2 DEF Catenates
        <5> QED
          BY <4>2, <5>1, <5>3, ConcatEmptySeq
      <4>3. CASE i # 1
        <5>1. i - 1 \in 1 .. N
          BY <4>3
        <5> QED
          BY <4>1, <4>3, <5>1
      <4> QED
        BY <4>2, <4>3
    <3> QED
      BY <3>1
  <2>2. h = body(h)
    BY <2>1, Zenon
  <2>3. FlattenSeq(s) = h[N]
    BY <1>2 DEF FlattenSeq
  <2> HIDE DEF h
  <2> DEFINE E == {n \in Nat : n + 1 \in 1 .. N => h[n + 1] = g[n + 1]}
  <2>4. 0 \in E
    <3>1. 1 \in 1 .. N => h[1] = s[1]
      BY <2>2
    <3>2. 1 \in 1 .. N => g[1] = s[1]
      BY <2>1
    <3>3. 0 + 1 = 1
      OBVIOUS
    <3> QED
      BY <3>1, <3>2, <3>3
  <2>5. ASSUME NEW n \in Nat, n \in E PROVE n + 1 \in E
    <3> SUFFICES ASSUME n + 1 + 1 \in 1 .. N PROVE h[n + 1 + 1] = g[n + 1 + 1]
      OBVIOUS
    <3>1. n + 1 \in 1 .. N /\ n + 1 + 1 # 1 /\ (n + 1 + 1) - 1 = n + 1
      OBVIOUS
    <3>2. h[n + 1] = g[n + 1]
      BY <2>5, <3>1
    <3>3. h[n + 1 + 1] = h[n + 1] \o s[n + 1 + 1]
      BY <2>2, <3>1
    <3>4. g[n + 1 + 1] = g[n + 1] \o s[n + 1 + 1]
      BY <2>1, <3>1
    <3> QED
      BY <3>2, <3>3, <3>4
  <2>6. \A n \in Nat : n \in E
    <3> HIDE DEF E
    <3> QED
      BY <2>4, <2>5, Induct
  <2>7. N - 1 \in Nat /\ (N - 1) + 1 = N /\ N \in 1 .. N
    BY <1>2
  <2>8. h[N] = g[N]
    BY <2>6, <2>7
  <2> QED
    BY <2>3, <2>7, <2>8
<1> QED
  BY <1>1, <1>2

(* f holds the sequences of s one after the other, the i-th of them behind *)
(* its position p[i - 1].                                                  *)
Laid(s, f, p) ==
  /\ p[0] = 0
  /\ Len(f) = p[Len(s)]
  /\ \A i \in 1 .. Len(s) :
       /\ p[i] = p[i - 1] + Len(s[i])
       /\ p[i] <= Len(f)
       /\ \A x \in 1 .. Len(s[i]) : f[p[i - 1] + x] = s[i][x]

Built(s, n, F) ==
  /\ Catenates(s, n, F)
  /\ \A i \in 1 .. n :
       /\ Len(F[i]) = Len(F[i - 1]) + Len(s[i])
       /\ Len(F[i]) <= Len(F[n])
       /\ \A x \in 1 .. Len(s[i]) : F[n][Len(F[i - 1]) + x] = s[i][x]

(* The successive concatenations of a sequence of sequences exist.         *)
LEMMA Catenations ==
  ASSUME NEW S, NEW s \in Seq(Seq(S))
  PROVE  \E F \in [0 .. Len(s) -> Seq(S)] : Built(s, Len(s), F)
<1> DEFINE Some(n) == \E F \in [0 .. n -> Seq(S)] : Built(s, n, F)
<1> DEFINE E == {n \in Nat : n <= Len(s) => Some(n)}
<1>1. 0 \in E
  <2>1. [i \in 0 .. 0 |-> <<>>] \in [0 .. 0 -> Seq(S)]
    OBVIOUS
  <2>2. Built(s, 0, [i \in 0 .. 0 |-> <<>>])
    BY DEF Built, Catenates
  <2> QED
    BY <2>1, <2>2
<1>2. ASSUME NEW n \in Nat, n \in E PROVE n + 1 \in E
  <2> SUFFICES ASSUME n + 1 <= Len(s) PROVE Some(n + 1)
    <3> HIDE DEF Some
    <3> QED
      OBVIOUS
  <2>1. n <= Len(s) /\ n + 1 \in 1 .. Len(s)
    OBVIOUS
  <2>2. PICK F \in [0 .. n -> Seq(S)] : Built(s, n, F)
    BY <1>2, <2>1
  <2>3. s[n + 1] \in Seq(S) /\ F[n] \in Seq(S)
    BY <2>1
  <2> DEFINE new == F[n] \o s[n + 1]
  <2>4. /\ new \in Seq(S) /\ Len(new) = Len(F[n]) + Len(s[n + 1])
        /\ \A x \in 1 .. Len(F[n]) : new[x] = F[n][x]
        /\ \A x \in 1 .. Len(s[n + 1]) : new[Len(F[n]) + x] = s[n + 1][x]
    BY <2>3
  <2> HIDE DEF new
  <2> DEFINE G == [i \in 0 .. n + 1 |-> IF i = n + 1 THEN new ELSE F[i]]
  <2>5. G \in [0 .. n + 1 -> Seq(S)]
    BY <2>4
  <2>6. G[n + 1] = new /\ \A i \in 0 .. n : G[i] = F[i]
    OBVIOUS
  <2> HIDE DEF G
  <2>7. \A i \in 1 .. n + 1 : i = n + 1 \/ (i \in 1 .. n /\ i \in 0 .. n)
    OBVIOUS
  <2>8. (n + 1) - 1 = n /\ n \in 0 .. n /\ 0 \in 0 .. n /\ \A i \in 1 .. n : i - 1 \in 0 .. n
    OBVIOUS
  <2>9. Catenates(s, n + 1, G)
    <3>1. ASSUME NEW i \in 1 .. n + 1 PROVE G[i] = G[i - 1] \o s[i]
      <4>1. CASE i = n + 1
        BY <2>6, <2>8, <4>1 DEF new
      <4>2. CASE i \in 1 .. n /\ i \in 0 .. n
        BY <2>2, <2>6, <2>8, <4>2 DEF Built, Catenates
      <4> QED
        BY <2>7, <4>1, <4>2
    <3> QED
      BY <2>2, <2>6, <2>8, <3>1 DEF Built, Catenates
  <2>10. ASSUME NEW i \in 1 .. n + 1
         PROVE  /\ Len(G[i]) = Len(G[i - 1]) + Len(s[i])
                /\ Len(G[i]) <= Len(G[n + 1])
                /\ \A x \in 1 .. Len(s[i]) : G[n + 1][Len(G[i - 1]) + x] = s[i][x]
    <3>1. CASE i = n + 1
      <4>1. G[i - 1] = F[n] /\ G[i] = new /\ Len(new) \in Nat
        BY <2>4, <2>6, <2>8, <3>1
      <4>2. Len(new) <= Len(new)
        BY <4>1
      <4> QED
        BY <2>4, <2>6, <3>1, <4>1, <4>2
    <3>2. CASE i \in 1 .. n /\ i \in 0 .. n
      <4>1. G[i] = F[i] /\ G[i - 1] = F[i - 1] /\ F[i] \in Seq(S) /\ F[i - 1] \in Seq(S)
        BY <2>6, <2>8, <3>2
      <4>2. /\ Len(F[i]) = Len(F[i - 1]) + Len(s[i]) /\ Len(F[i]) <= Len(F[n])
            /\ \A x \in 1 .. Len(s[i]) : F[n][Len(F[i - 1]) + x] = s[i][x]
        BY <2>2, <3>2 DEF Built
      <4>3. s[i] \in Seq(S)
        BY <2>1, <3>2
      <4>4. PICK a \in Nat, b \in Nat, c \in Nat, d \in Nat :
              a = Len(F[i - 1]) /\ b = Len(s[i]) /\ c = Len(F[n]) /\ d = Len(s[n + 1])
        BY <2>3, <4>1, <4>3, SMTT(30)
      <4>5. Len(F[i]) = a + b /\ a + b <= c /\ Len(new) = c + d
        BY <2>4, <4>2, <4>4
      <4>6. a + b <= c + d /\ \A x \in 1 .. b : a + x \in 1 .. c
        BY <4>5
      <4>7. ASSUME NEW x \in 1 .. b PROVE new[a + x] = s[i][x]
        BY <2>4, <4>2, <4>4, <4>6
      <4> QED
        BY <2>6, <4>1, <4>4, <4>5, <4>6, <4>7
    <3> QED
      BY <2>7, <3>1, <3>2
  <2>11. Built(s, n + 1, G)
    BY <2>9, <2>10 DEF Built
  <2> QED
    BY <2>5, <2>11
<1>3. \A n \in Nat : n \in E
  <2> HIDE DEF E
  <2> QED
    BY <1>1, <1>2, Induct
<1>4. Len(s) \in Nat /\ Len(s) <= Len(s)
  OBVIOUS
<1>5. PICK F \in [0 .. Len(s) -> Seq(S)] : Built(s, Len(s), F)
  BY <1>3, <1>4
<1> QED
  BY <1>5

(* Each part of a flattened sequence lies where the lengths before it end. *)
LEMMA Flat ==
  ASSUME NEW S, NEW s \in Seq(Seq(S))
  PROVE  /\ FlattenSeq(s) \in Seq(S)
         /\ \E p \in [0 .. Len(s) -> Nat] : Laid(s, FlattenSeq(s), p)
<1>1. PICK F \in [0 .. Len(s) -> Seq(S)] : Built(s, Len(s), F)
  BY Catenations
<1>2. PICK f : f = FlattenSeq(s)
  OBVIOUS
<1>3. f = F[Len(s)] /\ f \in Seq(S)
  <2>1. Len(s) \in 0 .. Len(s)
    OBVIOUS
  <2> QED
    BY <1>1, <1>2, <2>1, FlattenIsLast DEF Built
<1> DEFINE p == [i \in 0 .. Len(s) |-> Len(F[i])]
<1>4. p \in [0 .. Len(s) -> Nat]
  OBVIOUS
<1>5. \A i \in 0 .. Len(s) : p[i] = Len(F[i])
  OBVIOUS
<1> HIDE DEF p
<1>6. \A i \in 1 .. Len(s) : i \in 0 .. Len(s) /\ i - 1 \in 0 .. Len(s)
  OBVIOUS
<1>7. 0 \in 0 .. Len(s) /\ Len(s) \in 0 .. Len(s) /\ Len(<<>>) = 0
  OBVIOUS
<1>8. Laid(s, f, p)
  <2>1. p[0] = 0
    BY <1>1, <1>5, <1>7 DEF Built, Catenates
  <2>2. Len(f) = p[Len(s)]
    BY <1>3, <1>5, <1>7
  <2>3. ASSUME NEW i \in 1 .. Len(s)
        PROVE  /\ p[i] = p[i - 1] + Len(s[i])
               /\ p[i] <= Len(f)
               /\ \A x \in 1 .. Len(s[i]) : f[p[i - 1] + x] = s[i][x]
    <3>1. p[i] = Len(F[i]) /\ p[i - 1] = Len(F[i - 1])
      BY <1>5, <1>6
    <3> QED
      BY <1>1, <1>3, <3>1 DEF Built
  <2> QED
    BY <2>1, <2>2, <2>3 DEF Laid
<1> QED
  BY <1>2, <1>3, <1>4, <1>8

-----------------------------------------------------------------------------
(* What a device encodes, and where in the message it is.                  *)

Sample == [handle : Nat, data : Seq(Nat)]
Stamp == [time : Nat, samples : Seq(Sample)]

(* d holds the sample s from q (exclusively) to r.                         *)
SampleAt(d, q, s, r) ==
  /\ q \in Nat /\ r = q + 2 + Len(s.data) /\ r <= Len(d)
  /\ d[q + 1] = s.handle /\ d[q + 2] = Len(s.data)
  /\ \A x \in 1 .. Len(s.data) : d[q + 2 + x] = s.data[x]

(* d holds the head of the stamp s from q to r.                            *)
StampAt(d, q, s, r) ==
  /\ q \in Nat /\ r = q + 2 /\ r <= Len(d)
  /\ d[q + 1] = s.time /\ d[q + 2] = Len(s.samples)

LEMMA Bounded ==
  ASSUME NEW S, NEW n \in Nat, NEW s \in BoundedSeq(S, n)
  PROVE  s \in Seq(S)
<1>1. PICK m \in 0 .. n : s \in [1 .. m -> S]
  BY DEF BoundedSeq, SeqOf
<1> QED
  BY <1>1

(* An encoded sample is handle, length and data.                           *)
LEMMA EncodedSample ==
  ASSUME NEW s \in Sample
  PROVE  /\ EncodeSample(s) \in Seq(Nat)
         /\ SampleAt(EncodeSample(s), 0, s, Len(EncodeSample(s)))
<1>1. s.handle \in Nat /\ s.data \in Seq(Nat) /\ Len(s.data) \in Nat
  BY DEF Sample
<1>2. PICK h \in Nat, t \in Seq(Nat), l \in Nat : h = s.handle /\ t = s.data /\ l = Len(s.data)
  BY <1>1
<1>3. EncodeSample(s) = <<h, l>> \o t
  BY <1>2 DEF EncodeSample
<1>4. PICK d : d = <<h, l>> \o t
  OBVIOUS
<1>5. /\ d \in Seq(Nat) /\ Len(d) = 2 + l /\ d[1] = h /\ d[2] = l
      /\ \A x \in 1 .. l : d[2 + x] = t[x]
  BY <1>2, <1>4
<1>6. 0 + 1 = 1 /\ 0 + 2 = 2 /\ 0 + 2 + l = 2 + l /\ 2 + l <= 2 + l /\ \A x \in 1 .. l : 0 + 2 + x = 2 + x
  OBVIOUS
<1> QED
  BY <1>2, <1>3, <1>4, <1>5, <1>6 DEF SampleAt

(* A part of a message is in the message too.                              *)
LEMMA SampleMoves ==
  ASSUME NEW f \in Seq(Nat), NEW d \in Seq(Nat), NEW b \in Nat,
         b + Len(f) <= Len(d), \A x \in 1 .. Len(f) : d[b + x] = f[x],
         NEW s \in Sample, NEW q, NEW r, SampleAt(f, q, s, r)
  PROVE  SampleAt(d, b + q, s, b + r)
<1>1. PICK l \in Nat : l = Len(s.data)
  BY DEF Sample
<1>2. PICK m \in Nat, k \in Nat : m = Len(f) /\ k = Len(d)
  OBVIOUS
<1>3. q \in Nat /\ r = q + 2 + l /\ r <= m /\ b + m <= k
  BY <1>1, <1>2 DEF SampleAt
<1>4. /\ b + q \in Nat /\ b + r = (b + q) + 2 + l /\ b + r <= k
      /\ q + 1 \in 1 .. m /\ q + 2 \in 1 .. m
      /\ b + (q + 1) = (b + q) + 1 /\ b + (q + 2) = (b + q) + 2
      /\ \A x \in 1 .. l : q + 2 + x \in 1 .. m /\ b + (q + 2 + x) = (b + q) + 2 + x
  BY <1>3
<1>5. f[q + 1] = s.handle /\ f[q + 2] = l /\ \A x \in 1 .. l : f[q + 2 + x] = s.data[x]
  BY <1>1 DEF SampleAt
<1>6. d[(b + q) + 1] = s.handle /\ d[(b + q) + 2] = l
  <2>1. d[b + (q + 1)] = f[q + 1] /\ d[b + (q + 2)] = f[q + 2]
    BY <1>2, <1>4
  <2> QED
    BY <1>4, <1>5, <2>1
<1>7. ASSUME NEW x \in 1 .. l PROVE d[(b + q) + 2 + x] = s.data[x]
  BY <1>2, <1>4, <1>5
<1> QED
  BY <1>1, <1>2, <1>4, <1>6, <1>7 DEF SampleAt

(* A stamp, with the positions of its samples.                             *)
LEMMA EncodedStamp ==
  ASSUME NEW s \in Stamp
  PROVE  /\ EncodeStamp(s) \in Seq(Nat)
         /\ \E q \in [0 .. Len(s.samples) -> Nat] :
              /\ StampAt(EncodeStamp(s), 0, s, q[0])
              /\ q[Len(s.samples)] = Len(EncodeStamp(s))
              /\ \A n \in 1 .. Len(s.samples) :
                   SampleAt(EncodeStamp(s), q[n - 1], s.samples[n], q[n])
<1>1. PICK h \in Nat, t \in Seq(Sample), l \in Nat :
        h = s.time /\ t = s.samples /\ l = Len(s.samples)
  BY DEF Stamp
<1> DEFINE e == [k \in DOMAIN t |-> EncodeSample(t[k])]
<1>2. /\ e \in Seq(Seq(Nat)) /\ Len(e) = l
      /\ \A n \in 1 .. l : e[n] = EncodeSample(t[n]) /\ t[n] \in Sample /\ e[n] \in Seq(Nat)
  <2>1. DOMAIN t = 1 .. l /\ \A n \in 1 .. l : t[n] \in Sample
    BY <1>1
  <2>2. \A n \in 1 .. l : EncodeSample(t[n]) \in Seq(Nat)
    BY <2>1, EncodedSample
  <2>3. e \in [1 .. l -> Seq(Nat)]
    BY <2>1, <2>2
  <2> QED
    BY <2>1, <2>2, <2>3
<1>3. PICK g : g = FlattenSeq(e)
  OBVIOUS
<1>a. EncodeStamp(s) = <<h, l>> \o g
  BY <1>1, <1>3 DEF EncodeStamp
<1> HIDE DEF e
<1>4. g \in Seq(Nat)
  BY <1>2, <1>3, Flat
<1>5. PICK p \in [0 .. l -> Nat] : Laid(e, g, p)
  BY <1>2, <1>3, Flat
<1>6. PICK f : f = <<h, l>> \o g
  OBVIOUS
<1>7. /\ f \in Seq(Nat) /\ Len(f) = 2 + Len(g) /\ f[1] = h /\ f[2] = l
      /\ \A x \in 1 .. Len(g) : f[2 + x] = g[x]
  BY <1>4, <1>6
<1> DEFINE q == [n \in 0 .. l |-> 2 + p[n]]
<1>8. q \in [0 .. l -> Nat]
  OBVIOUS
<1>9. \A n \in 0 .. l : q[n] = 2 + p[n]
  OBVIOUS
<1> HIDE DEF q
<1>10. p[0] = 0 /\ Len(g) = p[l] /\ Len(g) \in Nat /\ 0 \in 0 .. l /\ l \in 0 .. l
  BY <1>2, <1>4, <1>5 DEF Laid
<1>11. StampAt(f, 0, s, q[0]) /\ q[l] = Len(f)
  <2>1. q[0] = 0 + 2 /\ q[0] <= Len(f) /\ 0 + 1 = 1 /\ 0 + 2 = 2
    BY <1>7, <1>9, <1>10
  <2> QED
    BY <1>1, <1>7, <1>9, <1>10, <2>1 DEF StampAt
<1>12. ASSUME NEW n \in 1 .. l PROVE SampleAt(f, q[n - 1], t[n], q[n])
  <2>1. e[n] \in Seq(Nat) /\ t[n] \in Sample /\ SampleAt(e[n], 0, t[n], Len(e[n]))
    BY <1>2, EncodedSample
  <2>2. n \in 0 .. l /\ n - 1 \in 0 .. l /\ n \in 1 .. Len(e)
    BY <1>2
  <2>3. PICK b \in Nat, c \in Nat, m \in Nat : b = p[n - 1] /\ c = p[n] /\ m = Len(e[n])
    BY <2>1, <2>2
  <2>4. c = b + m /\ c <= Len(g) /\ \A x \in 1 .. m : g[b + x] = e[n][x]
    BY <1>5, <2>2, <2>3 DEF Laid
  <2>5. PICK k \in Nat : k = Len(g)
    BY <1>10
  <2>6. /\ (2 + b) + m <= 2 + k /\ (2 + b) + 0 = 2 + b /\ (2 + b) + m = 2 + c
        /\ \A x \in 1 .. m : b + x \in 1 .. k /\ (2 + b) + x = 2 + (b + x)
    BY <2>4, <2>5
  <2>7. \A x \in 1 .. m : f[(2 + b) + x] = e[n][x]
    BY <1>7, <2>4, <2>5, <2>6
  <2>8. SampleAt(f, (2 + b) + 0, t[n], (2 + b) + m)
    <3>1. PICK a \in Nat : a = 2 + b
      OBVIOUS
    <3>2. a + Len(e[n]) <= Len(f) /\ \A x \in 1 .. Len(e[n]) : f[a + x] = e[n][x]
      BY <1>7, <2>3, <2>5, <2>6, <2>7, <3>1
    <3>3. SampleAt(f, a + 0, t[n], a + Len(e[n]))
      BY <1>7, <2>1, <3>2, SampleMoves
    <3> QED
      BY <2>3, <3>1, <3>3
  <2>9. q[n - 1] = 2 + b /\ q[n] = 2 + c
    BY <1>9, <2>2, <2>3
  <2> QED
    BY <2>6, <2>8, <2>9
<1> QED
  BY <1>1, <1>a, <1>6, <1>7, <1>8, <1>11, <1>12

(* A stamp is the same stamp at another place of a longer message.         *)
LEMMA StampMoves ==
  ASSUME NEW f \in Seq(Nat), NEW d \in Seq(Nat), NEW b \in Nat,
         b + Len(f) <= Len(d), \A x \in 1 .. Len(f) : d[b + x] = f[x],
         NEW s, NEW r, StampAt(f, 0, s, r)
  PROVE  StampAt(d, b, s, b + r)
<1>1. PICK m \in Nat, k \in Nat : m = Len(f) /\ k = Len(d)
  OBVIOUS
<1>2. r = 2 /\ 2 <= m /\ b + m <= k /\ 0 + 1 = 1 /\ 0 + 2 = 2
  BY <1>1 DEF StampAt
<1>3. b + r = b + 2 /\ b + r <= k /\ 1 \in 1 .. m /\ 2 \in 1 .. m
  BY <1>2
<1>4. d[b + 1] = f[1] /\ d[b + 2] = f[2] /\ f[1] = s.time /\ f[2] = Len(s.samples)
  BY <1>1, <1>2, <1>3 DEF StampAt
<1> QED
  BY <1>1, <1>3, <1>4 DEF StampAt

(* The number of samples of stamp k, and the positions Q[k][n] behind the  *)
(* n-th of them; stamp 0 stands for the number of stamps.                  *)
Cnt(m, k) == IF k = 0 THEN 0 ELSE Len(m[k].samples)
Places(d, m, Q) ==
  /\ Len(d) >= 1 /\ d[1] = Len(m) /\ Q[0][0] = 1
  /\ Q[Len(m)][Cnt(m, Len(m))] = Len(d)
  /\ \A k \in 1 .. Len(m) :
       /\ StampAt(d, Q[k - 1][Cnt(m, k - 1)], m[k], Q[k][0])
       /\ \A n \in 1 .. Cnt(m, k) : SampleAt(d, Q[k][n - 1], m[k].samples[n], Q[k][n])

StampPlaces(s, q) ==
  /\ q \in [0 .. Len(s.samples) -> Nat]
  /\ StampAt(EncodeStamp(s), 0, s, q[0])
  /\ q[Len(s.samples)] = Len(EncodeStamp(s))
  /\ \A n \in 1 .. Len(s.samples) : SampleAt(EncodeStamp(s), q[n - 1], s.samples[n], q[n])

(* Stamps and samples of an encoded message lie one behind the other.      *)
LEMMA EncodedMessage ==
  ASSUME NEW m \in Seq(Stamp)
  PROVE  Encode(m) \in Seq(Nat) /\ \E Q : Places(Encode(m), m, Q)
<1>1. PICK N \in Nat : N = Len(m)
  OBVIOUS
<1>2. \A k \in 1 .. N : m[k] \in Stamp /\ m[k].samples \in Seq(Sample) /\ Len(m[k].samples) \in Nat
  <2>1. \A k \in 1 .. N : m[k] \in Stamp
    BY <1>1
  <2>2. \A s \in Stamp : s.samples \in Seq(Sample) /\ Len(s.samples) \in Nat
    BY DEF Stamp
  <2> QED
    BY <2>1, <2>2
<1> DEFINE e == [k \in DOMAIN m |-> EncodeStamp(m[k])]
<1>3. /\ e \in Seq(Seq(Nat)) /\ Len(e) = N
      /\ \A k \in 1 .. N : e[k] = EncodeStamp(m[k]) /\ e[k] \in Seq(Nat)
  <2>1. DOMAIN m = 1 .. N
    BY <1>1
  <2>2. \A k \in 1 .. N : EncodeStamp(m[k]) \in Seq(Nat)
    BY <1>2, EncodedStamp
  <2>3. e \in [1 .. N -> Seq(Nat)]
    BY <2>1, <2>2
  <2> QED
    BY <2>1, <2>2, <2>3
<1>4. PICK g : g = FlattenSeq(e)
  OBVIOUS
<1>5. Encode(m) = <<N>> \o g
  BY <1>1, <1>4 DEF Encode
<1> HIDE DEF e
<1>6. g \in Seq(Nat)
  BY <1>3, <1>4, Flat
<1>7. PICK p \in [0 .. N -> Nat] : Laid(e, g, p)
  BY <1>3, <1>4, Flat
<1>8. PICK d : d = <<N>> \o g
  OBVIOUS
<1>9. /\ d \in Seq(Nat) /\ Len(d) = 1 + Len(g) /\ d[1] = N
      /\ \A x \in 1 .. Len(g) : d[1 + x] = g[x]
  BY <1>6, <1>8
<1> DEFINE fn == [k \in 1 .. N |-> CHOOSE q : StampPlaces(m[k], q)]
<1>10. \A k \in 1 .. N : StampPlaces(m[k], fn[k])
  <2>1. \A k \in 1 .. N : \E q : StampPlaces(m[k], q)
    BY <1>2, EncodedStamp DEF StampPlaces
  <2> QED
    BY <2>1
<1> HIDE DEF fn
<1> DEFINE Q == [k \in 0 .. N |->
                   IF k = 0 THEN [n \in 0 .. 0 |-> 1]
                   ELSE [n \in 0 .. Len(m[k].samples) |-> (1 + p[k - 1]) + fn[k][n]]]
<1>11. Q[0][0] = 1 /\ \A k \in 1 .. N : \A n \in 0 .. Len(m[k].samples) :
                        Q[k][n] = (1 + p[k - 1]) + fn[k][n]
  OBVIOUS
<1> HIDE DEF Q
<1>12. p[0] = 0 /\ Len(g) = p[N] /\ Len(g) \in Nat /\ N \in 0 .. N
  BY <1>3, <1>6, <1>7 DEF Laid
(* Stamp k is behind position 1 + p[k - 1].                                *)
<1>13. ASSUME NEW k \in 1 .. N
       PROVE  /\ (1 + p[k - 1]) \in Nat /\ (1 + p[k - 1]) + Len(e[k]) <= Len(d)
              /\ (1 + p[k - 1]) + Len(e[k]) = 1 + p[k]
              /\ \A x \in 1 .. Len(e[k]) : d[(1 + p[k - 1]) + x] = e[k][x]
  <2>1. k \in 0 .. N /\ k - 1 \in 0 .. N /\ k \in 1 .. Len(e)
    BY <1>3
  <2>2. PICK b \in Nat, c \in Nat, l \in Nat, j \in Nat :
          b = p[k - 1] /\ c = p[k] /\ l = Len(e[k]) /\ j = Len(g)
    <3>1. p[k - 1] \in Nat /\ p[k] \in Nat
      BY <2>1
    <3>2. Len(e[k]) \in Nat
      BY <1>3
    <3> QED
      BY <1>12, <3>1, <3>2
  <2>3. c = b + l /\ c <= j /\ \A x \in 1 .. l : g[b + x] = e[k][x]
    BY <1>7, <2>1, <2>2 DEF Laid
  <2>4. /\ (1 + b) \in Nat /\ (1 + b) + l <= 1 + j /\ (1 + b) + l = 1 + c
        /\ \A x \in 1 .. l : b + x \in 1 .. j /\ (1 + b) + x = 1 + (b + x)
    BY <2>3
  <2>5. ASSUME NEW x \in 1 .. l PROVE d[(1 + b) + x] = e[k][x]
    <3>1. PICK y : y = b + x
      OBVIOUS
    <3>2. y \in 1 .. Len(g) /\ (1 + b) + x = 1 + y /\ g[y] = e[k][x]
      BY <2>2, <2>3, <2>4, <3>1
    <3>3. d[1 + y] = g[y]
      BY <1>9, <3>2
    <3> QED
      BY <3>2, <3>3
  <2> QED
    BY <1>9, <2>2, <2>4, <2>5
<1>14. ASSUME NEW k \in 0 .. N PROVE Q[k][Cnt(m, k)] = 1 + p[k]
  <2>1. CASE k = 0
    BY <1>11, <1>12, <2>1 DEF Cnt
  <2>2. CASE k # 0
    <3>1. k \in 1 .. N
      BY <2>2
    <3>2. Len(m[k].samples) \in 0 .. Len(m[k].samples) /\ Cnt(m, k) = Len(m[k].samples)
      BY <1>2, <2>2, <3>1 DEF Cnt
    <3>3. Q[k][Cnt(m, k)] = (1 + p[k - 1]) + fn[k][Len(m[k].samples)]
      BY <1>11, <3>1, <3>2
    <3>4. fn[k][Len(m[k].samples)] = Len(e[k])
      BY <1>3, <1>10, <3>1 DEF StampPlaces
    <3> QED
      BY <1>13, <3>1, <3>3, <3>4
  <2> QED
    BY <2>1, <2>2
<1>15. ASSUME NEW k \in 1 .. N
       PROVE  /\ StampAt(d, Q[k - 1][Cnt(m, k - 1)], m[k], Q[k][0])
              /\ \A n \in 1 .. Cnt(m, k) : SampleAt(d, Q[k][n - 1], m[k].samples[n], Q[k][n])
  <2>a. PICK b \in Nat : b = 1 + p[k - 1]
    BY <1>13
  <2>b. PICK f \in Seq(Nat) : f = e[k]
    BY <1>3
  <2>c. PICK l \in Nat : l = Len(m[k].samples)
    BY <1>2
  <2>d. PICK q : q = fn[k]
    OBVIOUS
  <2>1. b = 1 + p[k - 1] /\ q = fn[k] /\ f = e[k] /\ l = Len(m[k].samples)
    BY <2>a, <2>b, <2>c, <2>d
  <2>2. b + Len(f) <= Len(d) /\ \A x \in 1 .. Len(f) : d[b + x] = f[x]
    BY <1>13, <2>1
  <2>3. StampAt(f, 0, m[k], q[0]) /\ \A n \in 1 .. l : SampleAt(f, q[n - 1], m[k].samples[n], q[n])
    BY <1>3, <1>10, <2>1 DEF StampPlaces
  <2>4. \A n \in 0 .. l : Q[k][n] = b + q[n]
    BY <1>11, <2>1
  <2>5. 0 \in 0 .. l /\ \A n \in 1 .. l : n \in 0 .. l /\ n - 1 \in 0 .. l
    OBVIOUS
  <2>6. StampAt(d, b, m[k], b + q[0])
    BY <1>9, <2>2, <2>3, StampMoves
  <2>7. Q[k - 1][Cnt(m, k - 1)] = b
    <3>1. k - 1 \in 0 .. N
      OBVIOUS
    <3> QED
      BY <1>14, <2>1, <3>1
  <2>8. ASSUME NEW n \in 1 .. l PROVE SampleAt(d, Q[k][n - 1], m[k].samples[n], Q[k][n])
    <3>1. m[k].samples[n] \in Sample
      BY <1>2, <2>1, SMTT(30)
    <3>2. SampleAt(f, q[n - 1], m[k].samples[n], q[n])
      BY <2>3
    <3>3. SampleAt(d, b + q[n - 1], m[k].samples[n], b + q[n])
      BY <1>9, <2>2, <3>1, <3>2, SampleMoves
    <3> QED
      BY <2>4, <2>5, <3>3
  <2>9. Cnt(m, k) = l
    BY <2>1 DEF Cnt
  <2> QED
    BY <2>4, <2>5, <2>6, <2>7, <2>8, <2>9
<1>16. Len(d) >= 1 /\ Len(d) = 1 + p[N]
  BY <1>9, <1>12
<1>17. Places(d, m, Q)
  BY <1>1, <1>9, <1>11, <1>12, <1>14, <1>15, <1>16 DEF Places
<1> QED
  BY <1>5, <1>8, <1>9, <1>17

TimedSample == [timestamp : Nat, handle : Nat, data : Seq(Nat)]

(* The samples of a message, behind Y[k - 1] those of stamp k.             *)
Counts(m, Y) ==
  /\ Y[0] = 0 /\ Y[Len(m)] = Len(SamplesOf(m))
  /\ \A k \in 1 .. Len(m) :
       /\ Y[k] = Y[k - 1] + Cnt(m, k)
       /\ \A n \in 1 .. Cnt(m, k) :
            SamplesOf(m)[Y[k - 1] + n] = Timed(m[k].time, m[k].samples[n])

(* The samples of a stamp follow those of the stamps before it.            *)
LEMMA CountedSamples ==
  ASSUME NEW m \in Seq(Stamp)
  PROVE  SamplesOf(m) \in Seq(TimedSample) /\ \E Y \in [0 .. Len(m) -> Nat] : Counts(m, Y)
<1> DEFINE row(k) == [n \in DOMAIN m[k].samples |-> Timed(m[k].time, m[k].samples[n])]
<1> DEFINE e == [k \in DOMAIN m |-> row(k)]
<1>1. ASSUME NEW k \in 1 .. Len(m)
      PROVE  /\ e[k] \in Seq(TimedSample) /\ Len(e[k]) = Cnt(m, k)
             /\ \A n \in 1 .. Cnt(m, k) : e[k][n] = Timed(m[k].time, m[k].samples[n])
  <2>1. PICK t \in Nat, s \in Seq(Sample), l \in Nat :
          t = m[k].time /\ s = m[k].samples /\ l = Len(s)
    <3>1. m[k] \in Stamp
      OBVIOUS
    <3> QED
      BY <3>1, SMTT(30) DEF Stamp
  <2>2. DOMAIN s = 1 .. l /\ \A n \in 1 .. l : s[n] \in Sample
    BY <2>1
  <2>3. \A x \in Sample : Timed(t, x) \in TimedSample
    BY DEF Timed, Sample, TimedSample
  <2>4. e[k] = [n \in 1 .. l |-> Timed(t, s[n])]
    <3>1. k \in DOMAIN m
      OBVIOUS
    <3>2. e[k] = row(k)
      BY <3>1, Zenon
    <3>3. row(k) = [n \in DOMAIN s |-> Timed(t, s[n])]
      BY <2>1
    <3> QED
      BY <2>2, <3>2, <3>3
  <2>5. e[k] \in [1 .. l -> TimedSample]
    BY <2>2, <2>3, <2>4
  <2>6. Cnt(m, k) = l
    BY <2>1 DEF Cnt
  <2> QED
    BY <2>1, <2>4, <2>5, <2>6, SMTT(30)
<1>2. SamplesOf(m) = FlattenSeq(e)
  BY DEF SamplesOf
<1>3. e \in Seq(Seq(TimedSample)) /\ Len(e) = Len(m)
  <2>1. DOMAIN e = 1 .. Len(m)
    OBVIOUS
  <2> HIDE DEF e
  <2>2. e \in [1 .. Len(m) -> Seq(TimedSample)]
    <3>1. e = [k \in 1 .. Len(m) |-> e[k]]
      BY <2>1 DEF e
    <3> QED
      BY <1>1, <3>1
  <2> QED
    BY <2>2
<1> HIDE DEF e
<1>4. SamplesOf(m) \in Seq(TimedSample)
  BY <1>2, <1>3, Flat
<1>5. PICK Y \in [0 .. Len(m) -> Nat] : Laid(e, SamplesOf(m), Y)
  BY <1>2, <1>3, Flat
<1>6. Counts(m, Y)
  <2>1. ASSUME NEW k \in 1 .. Len(m), NEW n \in 1 .. Cnt(m, k)
        PROVE  SamplesOf(m)[Y[k - 1] + n] = Timed(m[k].time, m[k].samples[n])
    BY <1>1, <1>3, <1>5 DEF Laid
  <2>2. Y[0] = 0 /\ Y[Len(m)] = Len(SamplesOf(m))
    BY <1>3, <1>5 DEF Laid
  <2>3. \A k \in 1 .. Len(m) : Y[k] = Y[k - 1] + Cnt(m, k)
    BY <1>1, <1>3, <1>5 DEF Laid
  <2> QED
    BY <2>1, <2>2, <2>3 DEF Counts
<1> QED
  BY <1>4, <1>6

-----------------------------------------------------------------------------
(* Types.                                                                  *)

Typed ==
  /\ phase \in {"new", "parse", "iter", "rejected", "end", "panic"}
  /\ data \in Seq(Nat) /\ ptr \in Nat /\ ptr <= Len(data)
  /\ phase = "new" => samples_todo = 0 /\ ptr = 0
  /\ phase = "parse" => 1 <= Len(data) /\ nstamps = data[1]
  /\ phase \in {"new", "parse"} => yielded = <<>>
  /\ stamps_todo \in Nat /\ samples_todo \in Nat /\ nstamps \in Nat
  /\ stamps_left \in Nat /\ samples_left \in Nat /\ cur_timestamp \in Nat
  /\ yielded \in Seq(TimedSample)
  /\ sender = "device" => msg \in Seq(Stamp) /\ data = Encode(msg)

LEMMA TypedInit == Init => Typed
<1> SUFFICES ASSUME Init PROVE Typed
  OBVIOUS
<1>1. sender = "device" => msg \in Seq(Stamp) /\ data = Encode(msg)
  <2> SUFFICES ASSUME sender = "device" PROVE msg \in Seq(Stamp) /\ data = Encode(msg)
    OBVIOUS
  <2>1. msg \in BoundedSeq(StampSet, MaxStamps) /\ data = Encode(msg)
    BY DEF Init
  <2>2. \A v \in Values : v \in Nat
    BY ConstantsAssumption DEF Values
  <2>3. SampleSet \subseteq Sample
    BY <2>2, ConstantsAssumption DEF SampleSet, Sample
  <2>4. \A t \in BoundedSeq(SampleSet, MaxSamples) : t \in Seq(Sample)
    <3>1. \A t \in BoundedSeq(SampleSet, MaxSamples) : t \in Seq(SampleSet)
      BY Bounded, ConstantsAssumption
    <3> QED
      BY <2>3, <3>1, SeqMonotonic
  <2>5. StampSet \subseteq Stamp
    BY <2>2, <2>4 DEF StampSet, Stamp
  <2>6. msg \in Seq(StampSet)
    BY <2>1, Bounded, ConstantsAssumption
  <2> QED
    BY <2>1, <2>5, <2>6, SeqMonotonic
<1>2. data \in Seq(Nat)
  <2>1. CASE sender = "device"
    BY <1>1, <2>1, EncodedMessage
  <2>2. CASE sender # "device"
    <3>1. data \in BoundedSeq(Values, MaxUnits)
      BY <2>2 DEF Init
    <3>2. Values \subseteq Nat
      BY ConstantsAssumption DEF Values
    <3>3. data \in Seq(Values)
      BY <3>1, Bounded, ConstantsAssumption
    <3> QED
      BY <3>2, <3>3, SeqMonotonic
  <2> QED
    BY <2>1, <2>2
<1> QED
  BY <1>1, <1>2 DEF Init, Typed

(* A unit that is there is a number.                                       *)
LEMMA UnitType ==
  ASSUME Typed, NEW n \in Nat, n >= 1, Has(n)
  PROVE  Unit(n) \in Nat
<1>1. ptr + n \in 1 .. Len(data) /\ data \in Seq(Nat)
  BY DEF Typed, Has
<1> QED
  BY <1>1 DEF Unit

(* The loops of Notification::new and SampleIter::next keep types.         *)
LEMMA TypedStep == Typed /\ [Next]_vars => Typed'
<1> SUFFICES ASSUME Typed, [Next]_vars PROVE Typed'
  OBVIOUS
<1>0. ASSUME NEW how \in {"rejected", "end", "panic"}, End(how) PROVE Typed'
  BY <1>0 DEF End, Typed, parseVars, iterVars
<1>1. CASE ParseHead
  <2>1. CASE Has(1) /\ ~End("rejected")
    <3>1. /\ ptr' = 1 /\ phase' = "parse" /\ nstamps' = Unit(1) /\ stamps_todo' = Unit(1)
          /\ UNCHANGED <<sender, msg, data, samples_todo, iterVars>>
      BY <1>1, <2>1 DEF ParseHead
    <3>2. Unit(1) \in Nat
      BY <2>1, UnitType
    <3>3. 1 <= Len(data)
      BY <2>1 DEF Has, Typed
    <3>4. phase = "new" /\ ptr = 0 /\ ptr + 1 = 1
      BY <1>1 DEF ParseHead, Typed
    <3>5. Unit(1) = data[1]
      BY <3>4 DEF Unit
    <3> QED
      BY <3>1, <3>2, <3>3, <3>4, <3>5 DEF Typed, iterVars
  <2> QED
    BY <1>0, <1>1, <2>1 DEF ParseHead
<1>2. CASE ParseStamp
  <2>1. CASE Has(2) /\ ~End("rejected")
    <3>1. /\ ptr' = ptr + 2 /\ samples_todo' = Unit(2) /\ stamps_todo' = stamps_todo - 1
          /\ stamps_todo > 0 /\ phase = "parse"
          /\ UNCHANGED <<sender, msg, data, phase, nstamps, iterVars>>
      BY <1>2, <2>1 DEF ParseStamp
    <3>2. Unit(2) \in Nat
      BY <2>1, UnitType
    <3>3. ptr + 2 <= Len(data) /\ ptr + 2 \in Nat /\ stamps_todo - 1 \in Nat
      BY <2>1, <3>1 DEF Has, Typed
    <3> QED
      BY <3>1, <3>2, <3>3 DEF Typed, iterVars
  <2> QED
    BY <1>0, <1>2, <2>1 DEF ParseStamp
<1>3. CASE ParseSample
  <2>1. CASE Has(2) /\ Has(2 + Unit(2)) /\ ~End("rejected")
    <3>1. /\ ptr' = ptr + 2 + Unit(2) /\ samples_todo' = samples_todo - 1 /\ samples_todo > 0
          /\ phase = "parse" /\ UNCHANGED <<sender, msg, data, phase, stamps_todo, nstamps, iterVars>>
      BY <1>3, <2>1 DEF ParseSample, ParseSampleWith
    <3>2. Unit(2) \in Nat
      BY <2>1, UnitType
    <3>3. ptr + 2 + Unit(2) <= Len(data) /\ ptr + 2 + Unit(2) \in Nat /\ samples_todo - 1 \in Nat
      BY <2>1, <3>1, <3>2 DEF Has, Typed
    <3> QED
      BY <3>1, <3>3 DEF Typed, iterVars
  <2> QED
    BY <1>0, <1>3, <2>1 DEF ParseSample, ParseSampleWith
<1>4. CASE ParseDone
  <2>1. CASE ~Has(1) /\ ~End("rejected")
    <3>1. /\ ptr' = 1 /\ phase' = "iter" /\ cur_timestamp' = 0 /\ stamps_left' = nstamps
          /\ samples_left' = 0 /\ UNCHANGED <<sender, msg, data, parseVars, yielded>>
      BY <1>4, <2>1 DEF ParseDone, ParseDoneIf
    <3>2. phase = "parse"
      BY <1>4 DEF ParseDone, ParseDoneIf
    <3> QED
      BY <3>1, <3>2 DEF Typed, parseVars
  <2> QED
    BY <1>0, <1>4, <2>1 DEF ParseDone, ParseDoneIf
<1>5. CASE NextSample
  <2>1. CASE Has(2) /\ Has(2 + Unit(2)) /\ ~End("panic")
    <3> DEFINE y == [timestamp |-> cur_timestamp, handle |-> Unit(1), data |-> Payload(Unit(2))]
    <3>1. /\ ptr' = ptr + 2 + Unit(2) /\ samples_left' = samples_left - 1 /\ samples_left > 0
          /\ yielded' = Append(yielded, y)
          /\ phase = "iter" /\ UNCHANGED <<sender, msg, data, phase, parseVars, cur_timestamp, stamps_left>>
      BY <1>5, <2>1 DEF NextSample
    <3>2. Unit(2) \in Nat
      BY <2>1, UnitType
    <3>3. /\ ptr + 2 + Unit(2) <= Len(data) /\ ptr + 2 + Unit(2) \in Nat /\ samples_left - 1 \in Nat
          /\ Has(1)
      BY <2>1, <3>1, <3>2, SMTT(30) DEF Has, Typed
    <3>4. Unit(1) \in Nat
      BY <3>3, UnitType
    <3>5. Payload(Unit(2)) \in Seq(Nat)
      <4>1. PICK a \in Nat, b \in Nat : a = ptr + 3 /\ b = ptr + 2 + Unit(2)
        <5>1. ptr + 3 \in Nat
          BY DEF Typed
        <5> QED
          BY <3>3, <5>1
      <4>2. \A x \in a .. b : x \in 1 .. Len(data)
        BY <3>3, <4>1 DEF Typed
      <4>3. \A x \in a .. b : data[x] \in Nat
        BY <4>2 DEF Typed
      <4>4. SubSeq(data, a, b) \in Seq(Nat)
        BY <4>3, SubSeqProperties
      <4> QED
        BY <4>1, <4>4 DEF Payload
    <3>6. y \in TimedSample
      BY <3>4, <3>5 DEF TimedSample, Typed
    <3> HIDE DEF y
    <3> QED
      BY <3>1, <3>3, <3>6 DEF Typed, parseVars
  <2> QED
    BY <1>0, <1>5, <2>1 DEF NextSample
<1>6. CASE NextStamp
  <2>1. CASE Has(2) /\ ~End("panic")
    <3>1. /\ ptr' = ptr + 2 /\ samples_left' = Unit(2) /\ stamps_left' = stamps_left - 1
          /\ stamps_left > 0 /\ cur_timestamp' = Unit(1) /\ phase' = "iter"
          /\ UNCHANGED <<sender, msg, data, parseVars, yielded>>
      BY <1>6, <2>1 DEF NextStamp, NextStampThen
    <3>2. Has(1)
      BY <2>1 DEF Has, Typed
    <3>3. Unit(2) \in Nat /\ Unit(1) \in Nat
      BY <2>1, <3>2, UnitType
    <3>4. ptr + 2 <= Len(data) /\ ptr + 2 \in Nat /\ stamps_left - 1 \in Nat
      BY <2>1, <3>1 DEF Has, Typed
    <3> QED
      BY <3>1, <3>3, <3>4 DEF Typed, parseVars
  <2> QED
    BY <1>0, <1>6, <2>1 DEF NextStamp, NextStampThen
<1>7. CASE NextNone
  BY <1>0, <1>7 DEF NextNone
<1>8. CASE UNCHANGED vars
  BY <1>8 DEF Typed, vars, parseVars, iterVars
<1> QED
  BY <1>1, <1>2, <1>3, <1>4, <1>5, <1>6, <1>7, <1>8 DEF Next, Finished

-----------------------------------------------------------------------------
(* The two walks.                                                          *)

(* Where a walk is, whether its next step stays in the message, and where  *)
(* that leads.                                                             *)
Place(p, st, sm) == [ptr |-> p, stamps |-> st, samples |-> sm]
Fits(d, v) ==
  /\ v.ptr + 2 <= Len(d)
  /\ IF v.samples > 0 THEN v.ptr + (2 + d[v.ptr + 2]) <= Len(d) ELSE v.stamps > 0
After(d, v) ==
  IF v.samples > 0 THEN Place(v.ptr + 2 + d[v.ptr + 2], v.stamps, v.samples - 1)
  ELSE Place(v.ptr + 2, v.stamps - 1, d[v.ptr + 2])

(* V holds the places of a walk from `first` to `last`.                    *)
Walked(d, V, first, last) ==
  /\ first \in V /\ last \in V
  /\ \A v \in V : v = last \/ (Fits(d, v) /\ After(d, v) \in V)

(* Notification::new has walked to where it is, and the iterator is at one *)
(* of the places of the walk that accepted the message.                    *)
WalkInv ==
  /\ phase = "parse" =>
       \E V : Walked(data, V, Place(1, nstamps, 0), Place(ptr, stamps_todo, samples_todo))
  /\ phase \in {"iter", "end"} =>
       \E V : /\ Walked(data, V, Place(1, nstamps, 0), Place(Len(data), 0, 0))
              /\ Place(ptr, stamps_left, samples_left) \in V
  /\ phase = "end" => stamps_left = 0 /\ samples_left = 0
  /\ phase # "panic"

(* A walk over the message goes on by the sample or stamp it is at.        *)
LEMMA WalkOn ==
  ASSUME NEW d, NEW V, NEW first, NEW last, Walked(d, V, first, last), Fits(d, last)
  PROVE  \E W : Walked(d, W, first, After(d, last))
<1>1. Walked(d, V \cup {After(d, last)}, first, After(d, last))
  BY DEF Walked
<1> QED
  BY <1>1

LEMMA WalkInit == Init => WalkInv
BY DEF Init, WalkInv

(* The iterator takes no step the parser did not take.                     *)
LEMMA WalkStep == Typed /\ WalkInv /\ [Next]_vars => WalkInv'
<1> SUFFICES ASSUME Typed, WalkInv, [Next]_vars PROVE WalkInv'
  OBVIOUS
<1>0. ASSUME End("rejected") PROVE WalkInv'
  BY <1>0 DEF End, WalkInv
<1>1. CASE ParseHead
  <2>1. CASE Has(1) /\ ~End("rejected")
    <3>1. /\ ptr' = 1 /\ phase' = "parse" /\ nstamps' = Unit(1) /\ stamps_todo' = Unit(1)
          /\ data' = data /\ samples_todo' = samples_todo
      BY <1>1, <2>1 DEF ParseHead
    <3>2. samples_todo = 0
      BY <1>1 DEF ParseHead, Typed
    <3>3. Walked(data', {Place(1, nstamps', 0)}, Place(1, nstamps', 0), Place(1, nstamps', 0))
      BY DEF Walked
    <3> QED
      BY <3>1, <3>2, <3>3 DEF WalkInv
  <2> QED
    BY <1>0, <1>1, <2>1 DEF ParseHead
<1>2. CASE ParseStamp
  <2>1. CASE Has(2) /\ ~End("rejected")
    <3>1. /\ ptr' = ptr + 2 /\ samples_todo' = Unit(2) /\ stamps_todo' = stamps_todo - 1
          /\ stamps_todo > 0 /\ samples_todo = 0 /\ phase = "parse"
          /\ UNCHANGED <<data, phase, nstamps>>
      BY <1>2, <2>1 DEF ParseStamp
    <3>2. PICK last : last = Place(ptr, stamps_todo, samples_todo)
      OBVIOUS
    <3>3. last.ptr = ptr /\ last.stamps = stamps_todo /\ last.samples = 0
      BY <3>1, <3>2 DEF Place
    <3>4. Fits(data, last) /\ After(data, last) = Place(ptr + 2, stamps_todo - 1, data[ptr + 2])
      BY <2>1, <3>1, <3>3 DEF Fits, After, Has, Unit
    <3>5. \E W : Walked(data, W, Place(1, nstamps, 0), After(data, last))
      BY <3>1, <3>2, <3>4, WalkOn DEF WalkInv
    <3>6. After(data, last) = Place(ptr', stamps_todo', samples_todo')
      BY <3>1, <3>4 DEF Unit
    <3> QED
      BY <3>1, <3>5, <3>6 DEF WalkInv
  <2> QED
    BY <1>0, <1>2, <2>1 DEF ParseStamp
<1>3. CASE ParseSample
  <2>1. CASE Has(2) /\ Has(2 + Unit(2)) /\ ~End("rejected")
    <3>1. /\ ptr' = ptr + 2 + Unit(2) /\ samples_todo' = samples_todo - 1 /\ samples_todo > 0
          /\ phase = "parse" /\ UNCHANGED <<data, phase, stamps_todo, nstamps>>
      BY <1>3, <2>1 DEF ParseSample, ParseSampleWith
    <3>2. PICK last : last = Place(ptr, stamps_todo, samples_todo)
      OBVIOUS
    <3>3. last.ptr = ptr /\ last.stamps = stamps_todo /\ last.samples = samples_todo
      BY <3>1, <3>2 DEF Place
    <3>4. /\ Fits(data, last)
          /\ After(data, last) = Place(ptr + 2 + data[ptr + 2], stamps_todo, samples_todo - 1)
      BY <2>1, <3>1, <3>3 DEF Fits, After, Has, Unit
    <3>5. \E W : Walked(data, W, Place(1, nstamps, 0), After(data, last))
      BY <3>1, <3>2, <3>4, WalkOn DEF WalkInv
    <3>6. After(data, last) = Place(ptr', stamps_todo', samples_todo')
      BY <3>1, <3>4 DEF Unit
    <3> QED
      BY <3>1, <3>5, <3>6 DEF WalkInv
  <2> QED
    BY <1>0, <1>3, <2>1 DEF ParseSample, ParseSampleWith
<1>4. CASE ParseDone
  <2>1. CASE ~Has(1) /\ ~End("rejected")
    <3>1. /\ ptr' = 1 /\ phase' = "iter" /\ stamps_left' = nstamps /\ samples_left' = 0
          /\ UNCHANGED <<data, nstamps>>
          /\ phase = "parse" /\ samples_todo = 0 /\ stamps_todo = 0
      BY <1>4, <2>1 DEF ParseDone, ParseDoneIf, parseVars
    <3>2. ptr = Len(data)
      BY <2>1 DEF Has, Typed
    <3>3. PICK V : Walked(data, V, Place(1, nstamps, 0), Place(Len(data), 0, 0))
      BY <3>1, <3>2 DEF WalkInv
    <3>4. Place(1, nstamps, 0) \in V
      BY <3>3 DEF Walked
    <3> QED
      BY <3>1, <3>3, <3>4 DEF WalkInv
  <2> QED
    BY <1>0, <1>4, <2>1 DEF ParseDone, ParseDoneIf
<1>5. CASE NextSample \/ NextStamp
  <2>1. phase = "iter" /\ (samples_left > 0 \/ (samples_left = 0 /\ stamps_left > 0))
    BY <1>5 DEF NextSample, NextStamp, NextStampThen
  <2>2. PICK V : /\ Walked(data, V, Place(1, nstamps, 0), Place(Len(data), 0, 0))
                 /\ Place(ptr, stamps_left, samples_left) \in V
    BY <2>1 DEF WalkInv
  <2>3. PICK v \in V : v = Place(ptr, stamps_left, samples_left)
    BY <2>2
  <2>4. v.ptr = ptr /\ v.stamps = stamps_left /\ v.samples = samples_left
    BY <2>3 DEF Place
  <2>5. v # Place(Len(data), 0, 0)
    <3>1. Place(Len(data), 0, 0).samples = 0 /\ Place(Len(data), 0, 0).stamps = 0
      BY DEF Place
    <3>2. ~(0 > 0)
      OBVIOUS
    <3> QED
      BY <2>1, <2>4, <3>1, <3>2
  <2>6. Fits(data, v) /\ After(data, v) \in V
    BY <2>2, <2>5 DEF Walked
  <2>7. Has(2) /\ (samples_left > 0 => Has(2 + Unit(2)))
    BY <2>4, <2>6 DEF Fits, Has, Unit
  <2>8. /\ After(data, v) = Place(ptr', stamps_left', samples_left')
        /\ phase' = "iter" /\ UNCHANGED <<data, nstamps>>
    <3>1. CASE NextSample
      <4>1. /\ ptr' = ptr + 2 + Unit(2) /\ samples_left' = samples_left - 1 /\ samples_left > 0
            /\ stamps_left' = stamps_left /\ UNCHANGED <<data, phase, nstamps>>
        BY <2>7, <3>1 DEF NextSample, parseVars
      <4> QED
        BY <2>1, <2>4, <4>1 DEF After, Unit
    <3>2. CASE NextStamp
      <4>1. /\ ptr' = ptr + 2 /\ samples_left' = Unit(2) /\ stamps_left' = stamps_left - 1
            /\ samples_left = 0 /\ phase' = "iter" /\ UNCHANGED <<data, nstamps>>
        BY <2>7, <3>2 DEF NextStamp, NextStampThen, parseVars
      <4>2. ~(samples_left > 0)
        BY <4>1
      <4> QED
        BY <2>4, <4>1, <4>2 DEF After, Unit
    <3> QED
      BY <1>5, <3>1, <3>2
  <2> QED
    BY <2>2, <2>6, <2>8 DEF WalkInv
<1>6. CASE NextNone
  <2>1. /\ phase = "iter" /\ phase' = "end" /\ samples_left = 0 /\ stamps_left = 0
        /\ UNCHANGED <<data, ptr, nstamps, samples_left, stamps_left>>
    BY <1>6 DEF NextNone, End, parseVars, iterVars
  <2> QED
    BY <2>1 DEF WalkInv
<1>7. CASE UNCHANGED vars
  BY <1>7 DEF WalkInv, vars, parseVars, iterVars
<1> QED
  BY <1>1, <1>2, <1>3, <1>4, <1>5, <1>6, <1>7 DEF Next, Finished

(* Whatever arrives and however long it is, SampleIter never panics over a *)
(* message that Notification::new accepted.                                *)
THEOREM SafeIteration == Spec => []IterationSafe
<1>1. Typed /\ WalkInv /\ [Next]_vars => (Typed /\ WalkInv)'
  BY TypedStep, WalkStep
<1>2. WalkInv => IterationSafe
  BY DEF WalkInv, IterationSafe
<1> QED
  BY TypedInit, WalkInit, <1>1, <1>2, PTL DEF Spec

(* The iterator ends exactly where the message does.                       *)
THEOREM AllBytesRead == Spec => []NothingLeft
<1>1. Typed /\ WalkInv /\ [Next]_vars => (Typed /\ WalkInv)'
  BY TypedStep, WalkStep
<1>2. WalkInv => NothingLeft
  <2> SUFFICES ASSUME WalkInv, phase = "end" PROVE ptr = Len(data)
    BY DEF NothingLeft
  <2>1. PICK V : /\ Walked(data, V, Place(1, nstamps, 0), Place(Len(data), 0, 0))
                 /\ Place(ptr, 0, 0) \in V
    BY DEF WalkInv
  <2>2. ~Fits(data, Place(ptr, 0, 0))
    <3>1. ~(0 > 0)
      OBVIOUS
    <3> QED
      BY <3>1 DEF Fits, Place
  <2>3. Place(ptr, 0, 0) = Place(Len(data), 0, 0)
    BY <2>1, <2>2 DEF Walked
  <2> QED
    BY <2>3 DEF Place
<1> QED
  BY TypedInit, WalkInit, <1>1, <1>2, PTL DEF Spec

-----------------------------------------------------------------------------
(* A message that a device encoded.                                        *)

(* A walk that is behind sample n of stamp k meets what was encoded next.  *)
Behind(m, k, n) == k \in 0 .. Len(m) /\ n \in 0 .. Cnt(m, k)

(* The number of samples of the stamp a walk is in.                        *)
LEMMA CntType ==
  ASSUME NEW m \in Seq(Stamp), NEW k \in 0 .. Len(m)
  PROVE  Cnt(m, k) \in Nat /\ (k # 0 => k \in 1 .. Len(m) /\ m[k] \in Stamp)
<1>1. CASE k = 0
  BY <1>1 DEF Cnt
<1>2. CASE k # 0
  <2>1. k \in 1 .. Len(m)
    BY <1>2
  <2>2. m[k] \in Stamp
    BY <2>1
  <2> QED
    BY <1>2, <2>1, <2>2 DEF Cnt, Stamp
<1> QED
  BY <1>1, <1>2

(* A walk that is done with a stamp of a device meets the next one.        *)
LEMMA MeetsStamp ==
  ASSUME NEW m \in Seq(Stamp), NEW d \in Seq(Nat), NEW Q, Places(d, m, Q), NEW k, NEW n,
         Behind(m, k, n), Cnt(m, k) - n = 0, Len(m) - k > 0
  PROVE  /\ Behind(m, k + 1, 0) /\ (k + 1) - 1 = k /\ n = Cnt(m, k) /\ k + 1 \in 1 .. Len(m)
         /\ Q[k][n] \in Nat /\ Q[k][n] + 2 <= Len(d) /\ Q[k + 1][0] = Q[k][n] + 2
         /\ d[Q[k][n] + 1] = m[k + 1].time /\ d[Q[k][n] + 2] = Cnt(m, k + 1)
<1>1. k \in 0 .. Len(m) /\ n \in 0 .. Cnt(m, k) /\ Cnt(m, k) \in Nat /\ Len(m) \in Nat
  BY CntType DEF Behind
<1>2. n = Cnt(m, k) /\ k + 1 \in 1 .. Len(m) /\ k + 1 \in 0 .. Len(m) /\ (k + 1) - 1 = k /\ k + 1 # 0
  BY <1>1
<1>3. Cnt(m, k + 1) \in Nat /\ Cnt(m, k + 1) = Len(m[k + 1].samples)
  BY <1>2, CntType DEF Cnt
<1>4. Behind(m, k + 1, 0)
  BY <1>2, <1>3 DEF Behind
<1>5. StampAt(d, Q[k][n], m[k + 1], Q[k + 1][0])
  BY <1>2 DEF Places
<1> QED
  BY <1>2, <1>3, <1>4, <1>5 DEF StampAt

LEMMA PayloadAt ==
  ASSUME NEW p \in Nat, NEW l \in Nat, NEW i \in 1 .. l, NEW a, NEW b,
         a = p + 3, b = p + 2 + l
  PROVE  i \in 1 .. b - a + 1 /\ a + i - 1 = p + 2 + i
OBVIOUS

(* The slice taken for the data of a sample is its data.                   *)
LEMMA PayloadIs ==
  ASSUME NEW d \in Seq(Nat), NEW t \in Seq(Nat), NEW p \in Nat,
         p + 2 + Len(t) <= Len(d), \A x \in 1 .. Len(t) : d[p + 2 + x] = t[x]
  PROVE  /\ SubSeq(d, p + 3, p + 2 + Len(t)) = t
         /\ p + 2 <= Len(d) /\ p + (2 + Len(t)) <= Len(d)
<1>a. PICK l \in Nat : l = Len(t)
  OBVIOUS
<1>b. p + 2 + l <= Len(d) /\ \A x \in 1 .. l : d[p + 2 + x] = t[x]
  BY <1>a
<1>1. PICK a \in Nat, b \in Nat : a = p + 3 /\ b = p + 2 + l
  <2>1. p + 3 \in Nat /\ p + 2 + l \in Nat
    OBVIOUS
  <2> QED
    BY <2>1
<1>2. \A x \in a .. b : x \in 1 .. Len(d)
  BY <1>1, <1>b
<1>3. \A x \in a .. b : d[x] \in Nat
  BY <1>2
<1>4. PICK u : u = SubSeq(d, a, b)
  OBVIOUS
<1>5. /\ u \in Seq(Nat) /\ Len(u) = (IF a <= b THEN b - a + 1 ELSE 0)
      /\ \A i \in 1 .. b - a + 1 : u[i] = d[a + i - 1]
  BY <1>3, <1>4, SubSeqProperties, SMTT(30)
<1>6. Len(u) = l
  <2>1. (IF a <= b THEN b - a + 1 ELSE 0) = l
    BY <1>1
  <2> QED
    BY <1>5, <2>1
<1>7. ASSUME NEW i \in 1 .. l PROVE u[i] = t[i]
  <2>1. i \in 1 .. b - a + 1 /\ a + i - 1 = p + 2 + i
    BY <1>1, PayloadAt
  <2>2. u[i] = d[a + i - 1]
    BY <1>5, <2>1
  <2> QED
    BY <1>b, <2>1, <2>2
<1>8. u = t
  BY <1>5, <1>6, <1>7, <1>a, SeqEqual
<1>9. PICK L \in Nat : L = Len(d)
  OBVIOUS
<1>10. p + 2 + l <= L
  BY <1>9, <1>b
<1>11. p + 2 <= L /\ p + (2 + l) <= L
  BY <1>10
<1> QED
  BY <1>a, <1>1, <1>4, <1>8, <1>9, <1>11

(* A walk within a stamp of a device meets its next sample.                *)
LEMMA MeetsSample ==
  ASSUME NEW m \in Seq(Stamp), NEW d \in Seq(Nat), NEW Q, Places(d, m, Q), NEW k, NEW n,
         Behind(m, k, n), Cnt(m, k) - n > 0
  PROVE  \E p \in Nat :
           /\ p = Q[k][n] /\ Behind(m, k, n + 1) /\ k \in 1 .. Len(m) /\ n + 1 \in 1 .. Cnt(m, k)
           /\ p + 2 <= Len(d) /\ p + (2 + d[p + 2]) <= Len(d) /\ Q[k][n + 1] = p + 2 + d[p + 2]
           /\ d[p + 1] = m[k].samples[n + 1].handle
           /\ SubSeq(d, p + 3, p + 2 + d[p + 2]) = m[k].samples[n + 1].data
<1>0. PICK p : p = Q[k][n]
  OBVIOUS
<1>1. k \in 0 .. Len(m) /\ n \in 0 .. Cnt(m, k) /\ Cnt(m, k) \in Nat /\ Len(m) \in Nat
  BY CntType DEF Behind
<1>2. n + 1 \in 1 .. Cnt(m, k) /\ n + 1 \in 0 .. Cnt(m, k) /\ (n + 1) - 1 = n
  BY <1>1
<1>3. k # 0
  BY <1>2 DEF Cnt
<1>4. k \in 1 .. Len(m) /\ m[k] \in Stamp /\ Cnt(m, k) = Len(m[k].samples)
  BY <1>1, <1>3, CntType DEF Cnt
<1>5. PICK s \in Sample : s = m[k].samples[n + 1]
  <2>1. m[k].samples \in Seq(Sample)
    BY <1>4 DEF Stamp
  <2> QED
    BY <1>2, <1>4, <2>1
<1>6. SampleAt(d, p, s, Q[k][n + 1])
  BY <1>0, <1>2, <1>4, <1>5 DEF Places
<1>7. PICK t \in Seq(Nat), l \in Nat : t = s.data /\ l = Len(t)
  BY DEF Sample
<1>8. /\ p \in Nat /\ Q[k][n + 1] = p + 2 + l /\ p + 2 + l <= Len(d)
      /\ d[p + 1] = s.handle /\ d[p + 2] = l /\ \A x \in 1 .. l : d[p + 2 + x] = t[x]
  BY <1>6, <1>7 DEF SampleAt
<1>9. SubSeq(d, p + 3, p + 2 + l) = t /\ p + 2 <= Len(d) /\ p + (2 + l) <= Len(d)
  <2>1. PICK z \in Nat : z = p
    BY <1>8
  <2>2. z + 2 + Len(t) <= Len(d) /\ \A x \in 1 .. Len(t) : d[z + 2 + x] = t[x]
    BY <1>7, <1>8, <2>1
  <2>3. /\ SubSeq(d, z + 3, z + 2 + Len(t)) = t
        /\ z + 2 <= Len(d) /\ z + (2 + Len(t)) <= Len(d)
    BY <2>2, PayloadIs
  <2> QED
    BY <1>7, <2>1, <2>3
<1> QED
  BY <1>0, <1>1, <1>2, <1>4, <1>5, <1>7, <1>8, <1>9 DEF Behind

(* A walk at p with these counters is behind sample n of stamp k.          *)
At(m, Q, k, n, p, st, sm) ==
  Behind(m, k, n) /\ p = Q[k][n] /\ st = Len(m) - k /\ sm = Cnt(m, k) - n

(* The samples up to there, `left` of stamp k not included, are y.         *)
Got(m, Y, k, left, time, y) ==
  /\ Len(y) + left = Y[k]
  /\ k # 0 => time = m[k].time
  /\ \A x \in 1 .. Len(y) : y[x] = SamplesOf(m)[x]

DeviceInv ==
  sender = "device" =>
    /\ phase # "rejected"
    /\ phase = "parse" =>
         \E Q, k, n : Places(data, msg, Q) /\ At(msg, Q, k, n, ptr, stamps_todo, samples_todo)
    /\ phase \in {"iter", "end"} =>
         \E Q, k, n, Y :
           /\ Places(data, msg, Q) /\ At(msg, Q, k, n, ptr, stamps_left, samples_left)
           /\ Y \in [0 .. Len(msg) -> Nat] /\ Counts(msg, Y)
           /\ Got(msg, Y, k, samples_left, cur_timestamp, yielded)

LEMMA DeviceInit == Init => DeviceInv
BY DEF Init, DeviceInv

(* Parser and iterator stay between two samples or stamps of the message.  *)
LEMMA DeviceStep == Typed /\ WalkInv /\ DeviceInv /\ [Next]_vars => DeviceInv'
<1> SUFFICES ASSUME Typed, WalkInv, DeviceInv, [Next]_vars, sender' = "device"
             PROVE  DeviceInv'
  BY DEF DeviceInv
<1>0. /\ sender = "device" /\ UNCHANGED <<sender, msg, data>>
  BY DEF Next, ParseHead, ParseStamp, ParseSample, ParseSampleWith, ParseDone, ParseDoneIf,
         NextSample, NextStamp, NextStampThen, NextNone, Finished, End, vars
<1>a. PICK m \in Seq(Stamp), d \in Seq(Nat) : m = msg /\ d = data /\ d = Encode(m)
  BY <1>0 DEF Typed
<1>b. msg' = m /\ data' = d /\ msg = m /\ data = d
  BY <1>0, <1>a
<1>c. PICK Q0 : Places(d, m, Q0)
  BY <1>a, EncodedMessage
<1>d. Len(m) \in Nat /\ Behind(m, 0, 0) /\ Cnt(m, 0) = 0 /\ Cnt(m, 0) - 0 = 0 /\ Len(m) - 0 = Len(m)
  BY DEF Behind, Cnt
<1>1. CASE ParseHead
  <2>1. Has(1) /\ ptr = 0 /\ samples_todo = 0
    BY <1>1, <1>b, <1>c DEF ParseHead, Has, Typed, Places
  <2>2. ptr' = 1 /\ phase' = "parse" /\ stamps_todo' = d[1] /\ samples_todo' = 0
    BY <1>1, <1>b, <2>1 DEF ParseHead, Unit
  <2>3. At(m, Q0, 0, 0, ptr', stamps_todo', samples_todo')
    BY <1>c, <1>d, <2>2 DEF At, Places
  <2> QED
    BY <1>b, <1>c, <2>2, <2>3 DEF DeviceInv
<1>2. CASE ParseStamp \/ ParseSample \/ ParseDone
  <2>1. phase = "parse"
    BY <1>2 DEF ParseStamp, ParseSample, ParseSampleWith, ParseDone, ParseDoneIf
  <2>2. PICK Q, k, n : Places(d, m, Q) /\ At(m, Q, k, n, ptr, stamps_todo, samples_todo)
    BY <1>0, <1>b, <2>1 DEF DeviceInv
  <2>3. Behind(m, k, n) /\ ptr = Q[k][n] /\ stamps_todo = Len(m) - k /\ samples_todo = Cnt(m, k) - n
    BY <2>2 DEF At
  <2>4. CASE ParseStamp
    <3>1. Cnt(m, k) - n = 0 /\ Len(m) - k > 0
      BY <2>3, <2>4 DEF ParseStamp
    <3>2. /\ Behind(m, k + 1, 0) /\ Q[k][n] + 2 <= Len(d) /\ Q[k + 1][0] = Q[k][n] + 2
          /\ d[Q[k][n] + 2] = Cnt(m, k + 1) /\ k + 1 \in 0 .. Len(m) /\ k \in 0 .. Len(m)
      <4>1. Places(d, m, Q) /\ Behind(m, k, n)
        BY <2>2, <2>3
      <4>2. k \in 0 .. Len(m) /\ Len(m) \in Nat
        BY <4>1 DEF Behind
      <4>3. k + 1 \in 0 .. Len(m) /\ (k + 1) - 1 = k
        BY <3>1, <4>2
      <4>4. /\ Behind(m, k + 1, 0) /\ Q[k][n] + 2 <= Len(d) /\ Q[k + 1][0] = Q[k][n] + 2
            /\ d[Q[k][n] + 2] = Cnt(m, k + 1) /\ k + 1 \in 1 .. Len(m)
            /\ d[Q[k][n] + 1] = m[k + 1].time
        BY <3>1, <4>1, MeetsStamp
      <4> QED
        BY <4>2, <4>3, <4>4
    <3>3. Has(2)
      BY <1>b, <2>3, <3>2 DEF Has
    <3>4. ptr' = ptr + 2 /\ samples_todo' = Cnt(m, k + 1) /\ stamps_todo' = stamps_todo - 1 /\ phase' = "parse"
      BY <1>b, <2>1, <2>3, <2>4, <3>2, <3>3 DEF ParseStamp, Unit
    <3>5. (Len(m) - k) - 1 = Len(m) - (k + 1) /\ Cnt(m, k + 1) - 0 = Cnt(m, k + 1)
      <4>1. Cnt(m, k + 1) \in Nat /\ k \in Nat /\ Len(m) \in Nat
        BY <3>2, CntType
      <4> QED
        BY <4>1
    <3>6. At(m, Q, k + 1, 0, ptr', stamps_todo', samples_todo')
      BY <2>3, <3>2, <3>4, <3>5 DEF At
    <3> QED
      BY <1>b, <2>2, <3>4, <3>6 DEF DeviceInv
  <2>5. CASE ParseSample
    <3>1. Cnt(m, k) - n > 0
      BY <2>3, <2>5 DEF ParseSample, ParseSampleWith
    <3>2. /\ Behind(m, k, n + 1) /\ ptr + 2 <= Len(d) /\ ptr + (2 + d[ptr + 2]) <= Len(d)
          /\ Q[k][n + 1] = ptr + 2 + d[ptr + 2] /\ k \in 0 .. Len(m) /\ n \in 0 .. Cnt(m, k)
      <4>1. Places(d, m, Q) /\ Behind(m, k, n) /\ ptr = Q[k][n]
        BY <2>2, <2>3
      <4>2. k \in 0 .. Len(m) /\ n \in 0 .. Cnt(m, k)
        BY <4>1 DEF Behind
      <4>3. PICK p \in Nat :
              /\ p = Q[k][n] /\ Behind(m, k, n + 1) /\ k \in 1 .. Len(m) /\ n + 1 \in 1 .. Cnt(m, k)
              /\ p + 2 <= Len(d) /\ p + (2 + d[p + 2]) <= Len(d) /\ Q[k][n + 1] = p + 2 + d[p + 2]
              /\ d[p + 1] = m[k].samples[n + 1].handle
              /\ SubSeq(d, p + 3, p + 2 + d[p + 2]) = m[k].samples[n + 1].data
        BY <3>1, <4>1, MeetsSample
      <4>4. p = ptr
        BY <4>1, <4>3
      <4> QED
        BY <4>2, <4>3, <4>4
    <3>3. Has(2) /\ Has(2 + Unit(2)) /\ Unit(2) = d[ptr + 2]
      BY <1>b, <3>2 DEF Has, Unit
    <3>4. /\ ptr' = ptr + 2 + d[ptr + 2] /\ samples_todo' = samples_todo - 1
          /\ stamps_todo' = stamps_todo /\ phase' = "parse"
      BY <2>1, <2>5, <3>3 DEF ParseSample, ParseSampleWith
    <3>5. (Cnt(m, k) - n) - 1 = Cnt(m, k) - (n + 1)
      BY <3>2, CntType, SMTT(30)
    <3>6. At(m, Q, k, n + 1, ptr', stamps_todo', samples_todo')
      BY <2>3, <3>2, <3>4, <3>5 DEF At
    <3> QED
      BY <1>b, <2>2, <3>4, <3>6 DEF DeviceInv
  <2>6. CASE ParseDone
    <3>1. Cnt(m, k) - n = 0 /\ Len(m) - k = 0 /\ k \in 0 .. Len(m) /\ n \in 0 .. Cnt(m, k)
      BY <2>3, <2>6 DEF ParseDone, ParseDoneIf, Behind
    <3>2. k = Len(m) /\ n = Cnt(m, k)
      BY <3>1, CntType
    <3>3. ptr = Len(d)
      BY <2>2, <2>3, <3>2 DEF Places
    <3>4. ~Has(1)
      BY <1>b, <3>3 DEF Has
    <3>5. ptr' = 1 /\ phase' = "iter" /\ stamps_left' = nstamps /\ samples_left' = 0 /\ yielded' = yielded
      BY <2>6, <3>4 DEF ParseDone, ParseDoneIf
    <3>6. nstamps = Len(m) /\ yielded = <<>>
      BY <1>b, <2>1, <2>2 DEF Places, Typed
    <3>7. At(m, Q, 0, 0, ptr', stamps_left', samples_left')
      BY <1>d, <2>2, <3>5, <3>6 DEF At, Places
    <3>8. PICK Y \in [0 .. Len(m) -> Nat] : Counts(m, Y)
      BY CountedSamples
    <3>9. Got(m, Y, 0, samples_left', cur_timestamp', yielded')
      <4>1. yielded' = <<>> /\ Len(<<>>) = 0 /\ 0 + 0 = 0 /\ 1 .. 0 = {}
        BY <3>5, <3>6
      <4>2. Y[0] = 0
        BY <3>8 DEF Counts
      <4> QED
        BY <3>5, <4>1, <4>2 DEF Got
    <3> QED
      BY <1>b, <2>2, <3>5, <3>7, <3>8, <3>9 DEF DeviceInv
  <2> QED
    BY <1>2, <2>4, <2>5, <2>6
<1>3. CASE NextSample \/ NextStamp
  <2>1. phase = "iter"
    BY <1>3 DEF NextSample, NextStamp, NextStampThen
  <2>2. PICK Q, k, n, Y :
          /\ Places(d, m, Q) /\ At(m, Q, k, n, ptr, stamps_left, samples_left)
          /\ Y \in [0 .. Len(m) -> Nat] /\ Counts(m, Y)
          /\ Got(m, Y, k, samples_left, cur_timestamp, yielded)
    BY <1>0, <1>b, <2>1 DEF DeviceInv
  <2>3. Behind(m, k, n) /\ ptr = Q[k][n] /\ stamps_left = Len(m) - k /\ samples_left = Cnt(m, k) - n
    BY <2>2 DEF At
  <2>4. CASE NextStamp
    <3>1. Cnt(m, k) - n = 0 /\ Len(m) - k > 0 /\ samples_left = 0
      BY <2>3, <2>4 DEF NextStamp, NextStampThen
    <3>2. /\ Behind(m, k + 1, 0) /\ Q[k][n] + 2 <= Len(d) /\ Q[k + 1][0] = Q[k][n] + 2
          /\ d[Q[k][n] + 2] = Cnt(m, k + 1) /\ k + 1 \in 1 .. Len(m) /\ k \in 0 .. Len(m)
          /\ d[Q[k][n] + 1] = m[k + 1].time /\ k + 1 \in 0 .. Len(m) /\ (k + 1) - 1 = k
      <4>1. Places(d, m, Q) /\ Behind(m, k, n)
        BY <2>2, <2>3
      <4>2. k \in 0 .. Len(m) /\ Len(m) \in Nat
        BY <4>1 DEF Behind
      <4>3. k + 1 \in 0 .. Len(m) /\ (k + 1) - 1 = k
        BY <3>1, <4>2
      <4>4. /\ Behind(m, k + 1, 0) /\ Q[k][n] + 2 <= Len(d) /\ Q[k + 1][0] = Q[k][n] + 2
            /\ d[Q[k][n] + 2] = Cnt(m, k + 1) /\ k + 1 \in 1 .. Len(m)
            /\ d[Q[k][n] + 1] = m[k + 1].time
        BY <3>1, <4>1, MeetsStamp
      <4> QED
        BY <4>2, <4>3, <4>4
    <3>3. Has(2)
      BY <1>b, <2>3, <3>2 DEF Has
    <3>4. /\ ptr' = ptr + 2 /\ samples_left' = Cnt(m, k + 1) /\ stamps_left' = stamps_left - 1
          /\ phase' = "iter" /\ cur_timestamp' = m[k + 1].time /\ yielded' = yielded
      BY <1>b, <2>1, <2>3, <2>4, <3>2, <3>3 DEF NextStamp, NextStampThen, Unit
    <3>5. (Len(m) - k) - 1 = Len(m) - (k + 1) /\ Cnt(m, k + 1) - 0 = Cnt(m, k + 1)
      <4>1. Cnt(m, k + 1) \in Nat /\ k \in Nat /\ Len(m) \in Nat
        BY <3>2, CntType
      <4> QED
        BY <4>1
    <3>6. At(m, Q, k + 1, 0, ptr', stamps_left', samples_left')
      BY <2>3, <3>2, <3>4, <3>5 DEF At
    <3>7. Got(m, Y, k + 1, samples_left', cur_timestamp', yielded')
      <4>1. Y[k + 1] = Y[k] + Cnt(m, k + 1)
        BY <2>2, <3>2 DEF Counts
      <4>2. PICK y \in Nat : y = Len(yielded)
        BY DEF Typed
      <4>3. y + 0 = Y[k]
        BY <2>2, <3>1, <4>2 DEF Got
      <4>4. y = Y[k]
        BY <4>3
      <4> QED
        BY <2>2, <3>4, <4>1, <4>2, <4>4 DEF Got
    <3> QED
      BY <1>b, <2>2, <3>4, <3>6, <3>7 DEF DeviceInv
  <2>5. CASE NextSample
    <3>1. Cnt(m, k) - n > 0
      BY <2>3, <2>5 DEF NextSample
    <3>2. /\ Behind(m, k, n + 1) /\ ptr + 2 <= Len(d) /\ ptr + (2 + d[ptr + 2]) <= Len(d)
          /\ Q[k][n + 1] = ptr + 2 + d[ptr + 2] /\ k \in 0 .. Len(m) /\ n \in 0 .. Cnt(m, k)
          /\ k \in 1 .. Len(m) /\ n + 1 \in 1 .. Cnt(m, k)
          /\ d[ptr + 1] = m[k].samples[n + 1].handle
          /\ SubSeq(d, ptr + 3, ptr + 2 + d[ptr + 2]) = m[k].samples[n + 1].data
      <4>1. Places(d, m, Q) /\ Behind(m, k, n) /\ ptr = Q[k][n]
        BY <2>2, <2>3
      <4>2. k \in 0 .. Len(m) /\ n \in 0 .. Cnt(m, k)
        BY <4>1 DEF Behind
      <4>3. PICK p \in Nat :
              /\ p = Q[k][n] /\ Behind(m, k, n + 1) /\ k \in 1 .. Len(m) /\ n + 1 \in 1 .. Cnt(m, k)
              /\ p + 2 <= Len(d) /\ p + (2 + d[p + 2]) <= Len(d) /\ Q[k][n + 1] = p + 2 + d[p + 2]
              /\ d[p + 1] = m[k].samples[n + 1].handle
              /\ SubSeq(d, p + 3, p + 2 + d[p + 2]) = m[k].samples[n + 1].data
        BY <3>1, <4>1, MeetsSample
      <4>4. p = ptr
        BY <4>1, <4>3
      <4> QED
        BY <4>2, <4>3, <4>4
    <3>3. Has(2) /\ Has(2 + Unit(2)) /\ Unit(2) = d[ptr + 2] /\ Unit(1) = d[ptr + 1]
      BY <1>b, <3>2 DEF Has, Unit
    <3>4. PICK y : y = Timed(m[k].time, m[k].samples[n + 1])
      OBVIOUS
    <3>5. cur_timestamp = m[k].time
      BY <2>2, <3>2 DEF Got
    <3>6. y = [timestamp |-> cur_timestamp, handle |-> Unit(1), data |-> Payload(Unit(2))]
      BY <1>b, <3>2, <3>3, <3>4, <3>5 DEF Timed, Payload
    <3>7. /\ ptr' = ptr + 2 + d[ptr + 2] /\ samples_left' = samples_left - 1
          /\ stamps_left' = stamps_left /\ phase' = "iter" /\ yielded' = Append(yielded, y)
          /\ cur_timestamp' = cur_timestamp
      BY <2>1, <2>5, <3>3, <3>6 DEF NextSample
    <3>8. (Cnt(m, k) - n) - 1 = Cnt(m, k) - (n + 1)
      BY <3>2, CntType
    <3>9. At(m, Q, k, n + 1, ptr', stamps_left', samples_left')
      BY <2>3, <3>2, <3>7, <3>8 DEF At
    <3>10. Got(m, Y, k, samples_left', cur_timestamp', yielded')
      <4>1. yielded \in Seq(TimedSample)
        BY DEF Typed
      <4>2. PICK l, z : l \in Nat /\ l = Len(yielded) /\ z = yielded'
        BY <4>1
      <4>3. Len(z) = l + 1 /\ z[l + 1] = y /\ \A x \in 1 .. l : z[x] = yielded[x]
        BY <3>7, <4>1, <4>2
      <4>4. PICK a \in Nat, b \in Nat, c \in Nat : a = Y[k - 1] /\ b = Y[k] /\ c = Cnt(m, k)
        <5>1. Y[k - 1] \in Nat /\ Y[k] \in Nat
          <6>1. k \in 0 .. Len(m) /\ k - 1 \in 0 .. Len(m)
            BY <3>2, SMTT(30)
          <6> QED
            BY <2>2, <6>1
        <5> QED
          BY <3>2, <5>1, CntType
      <4>5. b = a + c /\ SamplesOf(m)[a + (n + 1)] = y
        BY <2>2, <3>2, <3>4, <4>4 DEF Counts
      <4>6. l + (c - n) = b /\ n \in Nat
        BY <2>2, <2>3, <3>2, <4>2, <4>4 DEF Got
      <4>7. l + 1 = a + (n + 1) /\ (l + 1) + ((c - n) - 1) = b
        BY <4>2, <4>5, <4>6, SMTT(30)
      <4>8. \A x \in 1 .. l + 1 : x = l + 1 \/ x \in 1 .. l
        BY <4>2
      <4>9. \A x \in 1 .. l : yielded[x] = SamplesOf(m)[x]
        BY <2>2, <4>2 DEF Got
      <4>10. \A x \in 1 .. l + 1 : z[x] = SamplesOf(m)[x]
        BY <4>3, <4>5, <4>7, <4>8, <4>9
      <4>11. Len(z) + samples_left' = Y[k]
        BY <2>3, <3>7, <4>3, <4>4, <4>7
      <4> QED
        BY <3>5, <3>7, <4>2, <4>3, <4>10, <4>11 DEF Got
    <3> QED
      BY <1>b, <2>2, <3>7, <3>9, <3>10 DEF DeviceInv
  <2> QED
    BY <1>3, <2>4, <2>5
<1>4. CASE NextNone
  <2>1. phase = "iter" /\ phase' = "end" /\ UNCHANGED <<ptr, stamps_left, samples_left, cur_timestamp, yielded>>
    BY <1>4 DEF NextNone, End, iterVars
  <2> QED
    BY <1>0, <2>1 DEF DeviceInv
<1>5. CASE UNCHANGED vars
  BY <1>5 DEF DeviceInv, vars, parseVars, iterVars
<1> QED
  BY <1>1, <1>2, <1>3, <1>4, <1>5 DEF Next, Finished

(* For every message a device encodes, of however many stamps, samples and *)
(* bytes: Notification::new accepts it and SampleIter returns its samples, *)
(* in order, each with the time of its own stamp.                          *)
THEOREM DeliveredWhole == Spec => []Delivered
<1>1. Typed /\ WalkInv /\ DeviceInv /\ [Next]_vars => (Typed /\ WalkInv /\ DeviceInv)'
  BY TypedStep, WalkStep, DeviceStep
<1>2. Typed /\ WalkInv /\ DeviceInv => Delivered
  <2> SUFFICES ASSUME Typed, WalkInv, DeviceInv, sender = "device", phase = "end"
               PROVE  yielded = SamplesOf(msg)
    BY DEF Delivered, DeviceInv
  <2>1. PICK m \in Seq(Stamp) : m = msg
    BY DEF Typed
  <2>2. PICK Q, k, n, Y :
          /\ At(m, Q, k, n, ptr, stamps_left, samples_left)
          /\ Y \in [0 .. Len(m) -> Nat] /\ Counts(m, Y)
          /\ Got(m, Y, k, samples_left, cur_timestamp, yielded)
    BY <2>1 DEF DeviceInv
  <2>3. stamps_left = 0 /\ samples_left = 0
    BY DEF WalkInv
  <2>4. k = Len(m)
    <3>1. k \in 0 .. Len(m) /\ Len(m) - k = 0 /\ Len(m) \in Nat
      BY <2>2, <2>3 DEF At, Behind
    <3> QED
      BY <3>1
  <2>5. Len(yielded) = Len(SamplesOf(m))
    <3>1. PICK y \in Nat : y = Len(yielded)
      BY DEF Typed
    <3>2. y + 0 = Y[Len(m)] /\ Y[Len(m)] = Len(SamplesOf(m))
      BY <2>2, <2>3, <2>4, <3>1 DEF Got, Counts
    <3> QED
      BY <3>1, <3>2
  <2>6. \A x \in 1 .. Len(yielded) : yielded[x] = SamplesOf(m)[x]
    BY <2>2 DEF Got
  <2>7. yielded \in Seq(TimedSample) /\ SamplesOf(m) \in Seq(TimedSample)
    BY CountedSamples DEF Typed
  <2>8. yielded = SamplesOf(m)
    BY <2>5, <2>6, <2>7, SeqEqual
  <2> QED
    BY <2>1, <2>8
<1> QED
  BY TypedInit, WalkInit, DeviceInit, <1>1, <1>2, PTL DEF Spec
=============================================================================

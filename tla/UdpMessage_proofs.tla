-------------------------- MODULE UdpMessage_proofs --------------------------
(***************************************************************************)
(* What comes out of a UDP message (src/src/udp.rs), for messages of any   *)
(* number and length of items and any receive buffer.  The items recorded  *)
(* while a message is built say where each one is (LaidOut); parsing goes  *)
(* from one to the next of them (Walked) if the lengths fit their field.   *)
(***************************************************************************)
EXTENDS UdpMessage, WellFoundedInduction, SequenceTheorems, TLAPS

-----------------------------------------------------------------------------
(* Arithmetic and sequences.                                               *)

(* A length below the range of its field is not wrapped.                   *)
LEMMA Unwrapped ==
  ASSUME NEW n \in Nat \ {0}, NEW x \in 0 .. n - 1
  PROVE  x % n = x
<1>1. x \div n \in Int /\ x % n \in 0 .. n - 1 /\ x = n * (x \div n) + (x % n)
  OBVIOUS
<1>2. PICK q \in Int : q = x \div n
  BY <1>1
<1>3. PICK r \in 0 .. n - 1 : r = x % n
  BY <1>1
<1>4. x = n * q + r
  BY <1>1, <1>2, <1>3
<1>5. CASE q >= 1
  <2>1. n * q >= n
    BY <1>5
  <2> QED
    BY <1>4, <2>1
<1>6. CASE q <= -1
  <2>1. n * (-q) >= n
    BY <1>6
  <2>2. n * q <= -n
    BY <2>1
  <2> QED
    BY <1>4, <2>2
<1>7. CASE q = 0
  BY <1>3, <1>4, <1>7
<1> QED
  BY <1>5, <1>6, <1>7

(* A nonempty set of numbers has a least element, which Min returns.       *)
LEMMA MinOf ==
  ASSUME NEW S, S \subseteq Nat, S # {}
  PROVE  Min(S) \in S /\ \A y \in S : Min(S) <= y
<1> DEFINE R == OpToRel(<, Nat)
<1>1. IsWellFoundedOn(R, Nat)
  BY NatLessThanWellFounded
<1>2. \A m, n \in Nat : m < n => <<m, n>> \in R
  BY DEF OpToRel
<1> HIDE DEF R
<1>3. PICK x \in S : \A y \in S : ~(<<y, x>> \in R)
  BY <1>1, WFMin, Zenon
<1>4. ASSUME NEW y \in S PROVE x <= y
  <2>1. x \in Nat /\ y \in Nat
    OBVIOUS
  <2>2. ~(y < x)
    BY <1>2, <1>3, <2>1
  <2> QED
    BY <2>1, <2>2
<1>5. \E z \in S : \A y \in S : z <= y
  BY <1>4
<1> QED
  BY <1>5 DEF Min

(* SubSeq as a function.                                                   *)
PieceOf(s, at, n) == [i \in 1 .. n |-> s[at + i]]

(* A slice by place and length.                                            *)
LEMMA Piece ==
  ASSUME NEW s, NEW at \in Nat, NEW n \in Nat
  PROVE  SubSeq(s, at + 1, at + n) = PieceOf(s, at, n)
<1>1. PICK a \in Int : a = at + 1
  OBVIOUS
<1>2. PICK b \in Int : b = at + n
  OBVIOUS
<1>3. PICK S : S = {s[j] : j \in a .. b}
  OBVIOUS
<1>4. \A j \in a .. b : s[j] \in S
  BY <1>3
<1>5. PICK u : u = SubSeq(s, a, b)
  OBVIOUS
<1>6. /\ u \in Seq(S) /\ Len(u) = (IF a <= b THEN b - a + 1 ELSE 0)
      /\ \A i \in 1 .. b - a + 1 : u[i] = s[a + i - 1]
  BY <1>4, <1>5, SubSeqProperties
<1>7. (IF a <= b THEN b - a + 1 ELSE 0) = n
  BY <1>1, <1>2
<1>8. Len(u) = n
  BY <1>6, <1>7
<1>9. ASSUME NEW i \in 1 .. n PROVE u[i] = s[at + i]
  <2>1. i \in 1 .. b - a + 1 /\ a + i - 1 = at + i
    BY <1>1, <1>2
  <2> QED
    BY <1>6, <2>1
<1>10. u = [i \in 1 .. n |-> u[i]]
  BY <1>6, <1>8
<1>11. u = [i \in 1 .. n |-> s[at + i]]
  BY <1>9, <1>10
<1> QED
  BY <1>1, <1>2, <1>5, <1>11 DEF PieceOf

(* The first element of a sequence with a tag.                             *)
IndexOf(s, tag) == SelectInSeq(s, LAMBDA e : e.tag = tag)

(* IndexOf finds the first item with a tag.                                *)
LEMMA FirstIndex ==
  ASSUME NEW S, NEW s \in Seq(S), NEW tag, NEW k \in 1 .. Len(s), s[k].tag = tag
  PROVE  /\ IndexOf(s, tag) \in 1 .. Len(s)
         /\ s[IndexOf(s, tag)].tag = tag
         /\ \A l \in 1 .. Len(s) : s[l].tag = tag => IndexOf(s, tag) <= l
<1> DEFINE I == {i \in 1 .. Len(s) : s[i].tag = tag}
<1>1. I # {} /\ I \subseteq Nat
  OBVIOUS
<1>2. IndexOf(s, tag) = Min(I)
  BY <1>1 DEF IndexOf, SelectInSeq
<1>3. Min(I) \in I /\ \A y \in I : Min(I) <= y
  BY <1>1, MinOf
<1> QED
  BY <1>2, <1>3

-----------------------------------------------------------------------------
(* Entries, and how they are laid out.                                     *)

Entries == [tag : Nat, kind : {"bytes", "str"}, value : Seq(Nat)]
             \cup [tag : Nat, kind : {"u32"}, value : Nat]
Places == [tag : Nat, from : Nat, to : Nat]

(* The units of an entry, and its length field.                            *)
Payload(e) ==
  IF e.kind = "bytes" THEN e.value
  ELSE IF e.kind = "str" THEN e.value \o <<0>>
  ELSE <<e.value>>
LengthField(e) ==
  IF e.kind = "bytes" THEN Len(e.value) % LenMod
  ELSE IF e.kind = "str" THEN ((Len(e.value) % LenMod) + 1) % LenMod
  ELSE 1
EntryFits(e) ==
  e.kind # "u32" => Len(e.value) + (IF e.kind = "str" THEN 1 ELSE 0) < LenMod

(* Entry e begins after z units, at `it`.                                  *)
Placed(e, z, it, d) ==
  /\ z >= HeaderSize
  /\ it = Item(e.tag, z + 1, z + 2 + Len(Payload(e)))
  /\ it.to <= Len(d)
  /\ d[z + 1] = e.tag
  /\ d[z + 2] = LengthField(e)
  /\ \A p \in 1 .. Len(Payload(e)) : d[z + 2 + p] = Payload(e)[p]

(* Where item k ends.                                                      *)
EndOf(its, k) == IF k = 0 THEN HeaderSize ELSE its[k].to

(* The entries `a` are in `d` one after the other, as `its` says.          *)
LaidOut(a, its, d) ==
  /\ a \in Seq(Entries) /\ its \in Seq(Places) /\ d \in Seq(Nat)
  /\ Len(its) = Len(a)
  /\ Len(d) >= HeaderSize /\ Len(d) = EndOf(its, Len(a))
  /\ d[1] = Source
  /\ \A k \in 1 .. Len(a) : Placed(a[k], EndOf(its, k - 1), its[k], d)

(* Payloads and length fields are units.                                   *)
LEMMA PayloadType ==
  ASSUME NEW e \in Entries
  PROVE  Payload(e) \in Seq(Nat) /\ e.tag \in Nat /\ LengthField(e) \in Nat
<1>1. LenMod \in Nat \ {0}
  BY ConstantsAssumption
<1>2. \A x \in Nat : x % LenMod \in Nat
  BY <1>1
<1>3. CASE e \in [tag : Nat, kind : {"bytes", "str"}, value : Seq(Nat)]
  <2>1. e.value \in Seq(Nat) /\ e.value \o <<0>> \in Seq(Nat) /\ Len(e.value) \in Nat
    BY <1>3
  <2>2. e.kind \in {"bytes", "str"} /\ e.tag \in Nat
    BY <1>3
  <2>3. Len(e.value) % LenMod \in Nat /\ ((Len(e.value) % LenMod) + 1) % LenMod \in Nat
    BY <1>2, <2>1, SMTT(30)
  <2> QED
    BY <2>1, <2>2, <2>3 DEF Payload, LengthField
<1>4. CASE e \in [tag : Nat, kind : {"u32"}, value : Nat]
  BY <1>4 DEF Payload, LengthField
<1> QED
  BY <1>3, <1>4 DEF Entries

(* A length that fits is what the length field says.                       *)
LEMMA LengthKept ==
  ASSUME NEW e \in Entries, EntryFits(e)
  PROVE  LengthField(e) = Len(Payload(e))
<1>1. LenMod \in Nat \ {0}
  BY ConstantsAssumption
<1>2. CASE e \in [tag : Nat, kind : {"bytes", "str"}, value : Seq(Nat)]
  <2>1. e.value \in Seq(Nat) /\ Len(e.value) \in Nat
        /\ Len(e.value \o <<0>>) = Len(e.value) + 1
    BY <1>2
  <2>2. PICK n \in Nat : n = Len(e.value)
    BY <2>1
  <2>3. CASE e.kind = "bytes"
    <3>1. n < LenMod
      BY <2>2, <2>3 DEF EntryFits
    <3>2. n % LenMod = n
      BY <1>1, <3>1, Unwrapped
    <3> QED
      BY <2>2, <2>3, <3>2 DEF LengthField, Payload
  <2>4. CASE e.kind = "str"
    <3>1. n + 1 < LenMod
      BY <2>2, <2>4 DEF EntryFits
    <3>2. n % LenMod = n
      BY <1>1, <3>1, Unwrapped
    <3>3. (n + 1) % LenMod = n + 1
      BY <1>1, <3>1, Unwrapped
    <3> QED
      BY <2>1, <2>2, <2>4, <3>2, <3>3 DEF LengthField, Payload
  <2> QED
    BY <1>2, <2>3, <2>4
<1>3. CASE e \in [tag : Nat, kind : {"u32"}, value : Nat]
  BY <1>3 DEF LengthField, Payload
<1> QED
  BY <1>2, <1>3 DEF Entries

(* An item added goes after the others, which stay where they are.         *)
LEMMA PlacedStays ==
  ASSUME NEW e \in Entries, NEW z \in Nat, NEW it, NEW d \in Seq(Nat), NEW f \in Seq(Nat),
         Placed(e, z, it, d), Len(d) <= Len(f),
         \A i \in 1 .. Len(d) : i # HeaderSize => f[i] = d[i]
  PROVE  Placed(e, z, it, f)
<1>1. PICK n \in Nat : n = Len(Payload(e))
  BY PayloadType
<1>2. /\ z >= 2 /\ it = Item(e.tag, z + 1, z + 2 + n) /\ it.to <= Len(d)
      /\ d[z + 1] = e.tag /\ d[z + 2] = LengthField(e)
      /\ \A p \in 1 .. n : d[z + 2 + p] = Payload(e)[p]
  BY <1>1 DEF Placed, HeaderSize
<1>3. it.to = z + 2 + n
  BY <1>2 DEF Item
<1>4. z + 2 + n <= Len(d)
  BY <1>2, <1>3
<1>5. \A i \in 1 .. Len(d) : i # 2 => f[i] = d[i]
  BY DEF HeaderSize
<1>6. f[z + 1] = d[z + 1] /\ f[z + 2] = d[z + 2]
  <2>1. PICK x \in Nat, y \in Nat : x = z + 1 /\ y = z + 2
    OBVIOUS
  <2>a. z >= 2 /\ z + 2 + n <= Len(d) /\ Len(d) \in Nat
    BY <1>2, <1>4
  <2>2. x \in 1 .. Len(d) /\ y \in 1 .. Len(d) /\ x # 2 /\ y # 2
    BY <2>a, <2>1
  <2>3. f[x] = d[x] /\ f[y] = d[y]
    BY <1>5, <2>2
  <2> QED
    BY <2>1, <2>3
<1>7. ASSUME NEW p \in 1 .. n PROVE f[z + 2 + p] = d[z + 2 + p]
  <2>1. PICK x \in Nat : x = z + 2 + p
    OBVIOUS
  <2>2. x \in 1 .. Len(d) /\ x # 2
    BY <1>2, <1>4, <2>1
  <2>3. f[x] = d[x]
    BY <1>5, <2>2
  <2> QED
    BY <2>1, <2>3
<1>8. it.to <= Len(f)
  BY <1>3, <1>4
<1> QED
  BY <1>1, <1>2, <1>6, <1>7, <1>8 DEF Placed, HeaderSize

(* A tag, a length and data appended.                                      *)
Joins(w, d, t, l, b) ==
  /\ w \in Seq(Nat) /\ Len(w) = Len(d) + 2 + Len(b)
  /\ \A i \in 1 .. Len(d) : w[i] = d[i]
  /\ w[Len(d) + 1] = t /\ w[Len(d) + 2] = l
  /\ \A p \in 1 .. Len(b) : w[Len(d) + 2 + p] = b[p]

(* Where tag, length and payload of an appended item are.                  *)
LEMMA Joined ==
  ASSUME NEW d \in Seq(Nat), NEW t \in Nat, NEW l \in Nat, NEW b \in Seq(Nat)
  PROVE  Joins(d \o <<t, l>> \o b, d, t, l, b)
<1>1. PICK c : c = d \o <<t, l>>
  OBVIOUS
<1>2. /\ c \in Seq(Nat) /\ Len(c) = Len(d) + 2
      /\ \A i \in 1 .. Len(d) : c[i] = d[i]
      /\ c[Len(d) + 1] = t /\ c[Len(d) + 2] = l
  BY <1>1
<1>3. PICK w : w = c \o b
  OBVIOUS
<1>4. PICK n \in Nat : n = Len(d)
  OBVIOUS
<1>5. Len(c) = n + 2
  BY <1>2, <1>4
<1>6. /\ w \in Seq(Nat) /\ Len(w) = n + 2 + Len(b)
      /\ \A i \in 1 .. n + 2 : w[i] = c[i]
      /\ \A p \in 1 .. Len(b) : w[n + 2 + p] = b[p]
  <2>1. c \in Seq(Nat)
    BY <1>2
  <2>2. /\ w \in Seq(Nat) /\ Len(w) = Len(c) + Len(b)
        /\ \A i \in 1 .. Len(c) + Len(b) : w[i] = IF i <= Len(c) THEN c[i] ELSE b[i - Len(c)]
    BY <1>3, <2>1, ConcatProperties
  <2>3. PICK m \in Nat : m = Len(b)
    OBVIOUS
  <2>4. \A i \in 1 .. n + 2 + m : w[i] = IF i <= n + 2 THEN c[i] ELSE b[i - (n + 2)]
    BY <1>5, <2>2, <2>3
  <2>5. \A i \in 1 .. n + 2 : w[i] = c[i]
    BY <2>4
  <2>6. ASSUME NEW p \in 1 .. m PROVE w[n + 2 + p] = b[p]
    <3>1. PICK x \in 1 .. n + 2 + m : x = n + 2 + p
      OBVIOUS
    <3>2. ~(x <= n + 2) /\ x - (n + 2) = p
      BY <3>1
    <3> QED
      BY <2>4, <3>1, <3>2
  <2> QED
    BY <1>5, <2>2, <2>3, <2>5, <2>6
<1>7. \A i \in 1 .. n : w[i] = d[i]
  BY <1>2, <1>4, <1>6
<1>8. w[n + 1] = t /\ w[n + 2] = l
  <2>1. n + 1 \in 1 .. n + 2 /\ n + 2 \in 1 .. n + 2
    OBVIOUS
  <2>2. w[n + 1] = c[n + 1] /\ w[n + 2] = c[n + 2]
    BY <1>6, <2>1
  <2> QED
    BY <1>2, <1>4, <2>2
<1>9. Joins(w, d, t, l, b)
  BY <1>4, <1>6, <1>7, <1>8 DEF Joins
<1> QED
  BY <1>1, <1>3, <1>9

(* The number of items set in the header.                                  *)
LEMMA Counted ==
  ASSUME NEW w \in Seq(Nat), Len(w) >= HeaderSize, NEW n \in Nat,
         NEW f, f = [w EXCEPT ![HeaderSize] = n]
  PROVE  /\ f \in Seq(Nat) /\ Len(f) = Len(w)
         /\ \A i \in 1 .. Len(w) : i # HeaderSize => f[i] = w[i]
<1>1. f = [w EXCEPT ![2] = n] /\ 2 \in 1 .. Len(w)
  BY DEF HeaderSize
<1>2. PICK m \in Nat : m = Len(w)
  OBVIOUS
<1>3. w \in [1 .. m -> Nat] /\ 2 \in 1 .. m
  BY <1>1, <1>2
<1>4. /\ f \in [1 .. m -> Nat]
      /\ \A j \in 1 .. m : f[j] = IF j = 2 THEN n ELSE w[j]
  BY <1>1, <1>3
<1>5. f \in Seq(Nat) /\ Len(f) = m
  BY <1>4
<1> QED
  BY <1>2, <1>4, <1>5 DEF HeaderSize

(* The layout of a message to which an entry is added.                     *)
LEMMA AddPlaced ==
  ASSUME NEW a, NEW its, NEW d, LaidOut(a, its, d), NEW e \in Entries,
         NEW w, Joins(w, d, e.tag, LengthField(e), Payload(e)),
         NEW f \in Seq(Nat), Len(f) = Len(w),
         \A i \in 1 .. Len(w) : i # HeaderSize => f[i] = w[i]
  PROVE  LaidOut(Append(a, e), Append(its, Item(e.tag, Len(d) + 1, Len(w))), f)
<1>1. /\ a \in Seq(Entries) /\ its \in Seq(Places) /\ d \in Seq(Nat) /\ Len(its) = Len(a)
      /\ Len(d) >= 2 /\ Len(d) = EndOf(its, Len(a)) /\ d[1] = Source
      /\ \A k \in 1 .. Len(a) : Placed(a[k], EndOf(its, k - 1), its[k], d)
  BY DEF LaidOut, HeaderSize
<1>2. PICK b \in Seq(Nat) : b = Payload(e)
  BY PayloadType
<1>3. PICK n \in Nat : n = Len(d)
  BY <1>1
<1>4. PICK c \in Nat : c = Len(b)
  BY <1>2
<1>5. /\ w \in Seq(Nat) /\ Len(w) = n + 2 + c
      /\ \A i \in 1 .. n : w[i] = d[i]
      /\ w[n + 1] = e.tag /\ w[n + 2] = LengthField(e)
      /\ \A p \in 1 .. c : w[n + 2 + p] = b[p]
  BY <1>2, <1>3, <1>4 DEF Joins
<1>6. n >= 2 /\ n = EndOf(its, Len(a))
  BY <1>1, <1>3
<1>7. \A i \in 1 .. n + 2 + c : i # 2 => f[i] = w[i]
  BY <1>5 DEF HeaderSize
<1>8. \A i \in 1 .. n : i # 2 => f[i] = d[i]
  BY <1>5, <1>7
<1>9. \A i \in 1 .. Len(d) : i # HeaderSize => f[i] = d[i]
  BY <1>3, <1>8 DEF HeaderSize
<1>10. e.tag \in Nat
  BY PayloadType
<1>11. PICK it \in Places : it = Item(e.tag, n + 1, n + 2 + c)
  <2>1. PICK t \in Nat : t = e.tag
    BY <1>10
  <2>2. n + 1 \in Nat /\ n + 2 + c \in Nat
    OBVIOUS
  <2>3. Item(t, n + 1, n + 2 + c) \in Places
    BY <2>2 DEF Places, Item
  <2> QED
    BY <2>1, <2>3
<1>12. it.to = n + 2 + c
  BY <1>11 DEF Item
<1>13. Placed(e, n, it, f)
  <2>1. f[n + 1] = e.tag
    <3>1. PICK x \in Nat : x = n + 1
      OBVIOUS
    <3>2. x \in 1 .. n + 2 + c /\ x # 2
      BY <1>6, <3>1
    <3> QED
      BY <1>5, <1>7, <3>1, <3>2
  <2>2. f[n + 2] = LengthField(e)
    <3>1. PICK x \in Nat : x = n + 2
      OBVIOUS
    <3>2. x \in 1 .. n + 2 + c /\ x # 2
      BY <1>6, <3>1
    <3> QED
      BY <1>5, <1>7, <3>1, <3>2
  <2>3. ASSUME NEW p \in 1 .. c PROVE f[n + 2 + p] = b[p]
    <3>1. PICK x \in Nat : x = n + 2 + p
      OBVIOUS
    <3>2. x \in 1 .. n + 2 + c /\ x # 2
      BY <1>6, <3>1
    <3>3. f[x] = w[x]
      BY <1>7, <3>2
    <3>4. w[n + 2 + p] = b[p]
      BY <1>5
    <3> QED
      BY <3>1, <3>3, <3>4
  <2>4. it.to <= Len(f)
    BY <1>5, <1>12
  <2> QED
    BY <1>2, <1>4, <1>6, <1>11, <2>1, <2>2, <2>3, <2>4 DEF Placed, HeaderSize
<1>14. PICK m \in Nat : m = Len(a)
  BY <1>1
<1>15. /\ Append(a, e) \in Seq(Entries) /\ Append(its, it) \in Seq(Places)
       /\ Len(Append(a, e)) = m + 1 /\ Len(Append(its, it)) = m + 1
       /\ \A k \in 1 .. m : Append(a, e)[k] = a[k] /\ Append(its, it)[k] = its[k]
       /\ Append(a, e)[m + 1] = e /\ Append(its, it)[m + 1] = it
  BY <1>1, <1>14
<1>16. \A k \in 0 .. m : EndOf(Append(its, it), k) = EndOf(its, k)
  BY <1>15 DEF EndOf
<1>17. ASSUME NEW k \in 0 .. m PROVE EndOf(its, k) \in Nat
  <2>1. k # 0 => its[k] \in Places
    BY <1>1, <1>14
  <2>2. k # 0 => its[k].to \in Nat
    BY <2>1 DEF Places
  <2> QED
    BY <2>2 DEF EndOf, HeaderSize
<1>18. ASSUME NEW k \in 1 .. m + 1
       PROVE  Placed(Append(a, e)[k], EndOf(Append(its, it), k - 1), Append(its, it)[k], f)
  <2>1. CASE k = m + 1
    <3>1. m \in 0 .. m /\ k - 1 = m
      BY <2>1
    <3>2. EndOf(Append(its, it), k - 1) = n
      BY <1>6, <1>14, <1>16, <3>1
    <3> QED
      BY <1>13, <1>15, <2>1, <3>2
  <2>2. CASE k \in 1 .. m
    <3>1. Append(a, e)[k] = a[k] /\ Append(its, it)[k] = its[k] /\ a[k] \in Entries
      BY <1>1, <1>14, <1>15, <2>2
    <3>2. PICK y \in 0 .. m : y = k - 1
      BY <2>2
    <3>3. PICK z \in Nat : z = EndOf(its, y) /\ z = EndOf(Append(its, it), y)
      BY <1>16, <1>17
    <3>4. Placed(a[k], z, its[k], d)
      BY <1>1, <1>14, <2>2, <3>2, <3>3
    <3>5. Len(d) <= Len(f)
      BY <1>3, <1>5
    <3>6. Placed(a[k], z, its[k], f)
      BY <1>1, <1>9, <3>1, <3>4, <3>5, PlacedStays
    <3> QED
      BY <3>1, <3>2, <3>3, <3>6
  <2>3. k = m + 1 \/ k \in 1 .. m
    OBVIOUS
  <2> QED
    BY <2>1, <2>2, <2>3
<1>19. Len(f) = EndOf(Append(its, it), m + 1) /\ Len(f) >= HeaderSize /\ f[1] = Source
  <2>1. EndOf(Append(its, it), m + 1) = it.to
    BY <1>15 DEF EndOf
  <2>2. it.to = Len(f) /\ Len(f) >= 2
    BY <1>5, <1>6, <1>12
  <2>3. f[1] = Source
    BY <1>1, <1>6, <1>8, SMTT(30)
  <2> QED
    BY <2>1, <2>2, <2>3 DEF HeaderSize
<1>20. LaidOut(Append(a, e), Append(its, it), f)
  BY <1>15, <1>18, <1>19 DEF LaidOut
<1>21. it = Item(e.tag, Len(d) + 1, Len(w))
  BY <1>3, <1>5, <1>11
<1> QED
  BY <1>20, <1>21

-----------------------------------------------------------------------------
(* Parsing.                                                                *)

(* `r` is what the receive buffer holds of `d`.                            *)
Received(d, r) ==
  /\ r \in Seq(Nat)
  /\ Len(r) = IF Len(d) <= BufSize THEN Len(d) ELSE BufSize
  /\ \A i \in 1 .. Len(r) : r[i] = d[i]

(* The first items were found where they are, and parsing is at the end    *)
(* of the last of them.                                                    *)
Walked(a, its, r, fnd, at, next) ==
  /\ fnd \in Seq(Places) /\ Len(fnd) <= Len(a)
  /\ at = EndOf(its, Len(fnd)) /\ at <= Len(r)
  /\ next = at + 2
  /\ \A i \in 1 .. Len(fnd) :
       fnd[i] = Item(a[i].tag, its[i].from + 1, its[i].to) /\ its[i].to <= Len(r)

(* What the receive buffer holds is a prefix of the message.               *)
LEMMA Receives ==
  ASSUME NEW d \in Seq(Nat), NEW r,
         r = SubSeq(d, 1, IF Len(d) <= BufSize THEN Len(d) ELSE BufSize)
  PROVE  Received(d, r)
<1>1. PICK n \in Nat : n = IF Len(d) <= BufSize THEN Len(d) ELSE BufSize
  BY ConstantsAssumption
<1>2. n <= Len(d)
  BY <1>1, ConstantsAssumption
<1>3. r = SubSeq(d, 1, n)
  BY <1>1
<1>4. \A i \in 1 .. n : d[i] \in Nat
  BY <1>2
<1>5. /\ SubSeq(d, 1, n) \in Seq(Nat) /\ Len(SubSeq(d, 1, n)) = n
      /\ \A i \in 1 .. n : SubSeq(d, 1, n)[i] = d[i]
  BY <1>2, <1>4
<1> QED
  BY <1>1, <1>3, <1>5 DEF Received

(* The length read is that of the next item, and the next item is found.   *)
LEMMA WalkStep ==
  ASSUME NEW a, NEW its, NEW d, LaidOut(a, its, d), NEW r, Received(d, r),
         \A k \in 1 .. Len(a) : EntryFits(a[k]),
         NEW fnd, NEW at, NEW next, Walked(a, its, r, fnd, at, next),
         Len(r) - at > 1, r[at + 2] <= (Len(r) - at) - 2
  PROVE  Walked(a, its, r, Append(fnd, Item(r[at + 1], next, next + r[at + 2])),
                at + 2 + r[at + 2], next + r[at + 2] + 2)
<1>1. /\ a \in Seq(Entries) /\ its \in Seq(Places) /\ d \in Seq(Nat) /\ Len(its) = Len(a)
      /\ Len(d) = EndOf(its, Len(a))
      /\ \A k \in 1 .. Len(a) : Placed(a[k], EndOf(its, k - 1), its[k], d)
  BY DEF LaidOut
<1>2. /\ r \in Seq(Nat) /\ Len(r) <= Len(d) /\ \A i \in 1 .. Len(r) : r[i] = d[i]
  BY <1>1, ConstantsAssumption DEF Received
<1>3. /\ fnd \in Seq(Places) /\ Len(fnd) <= Len(a)
      /\ at = EndOf(its, Len(fnd)) /\ at <= Len(r) /\ next = at + 2
      /\ \A i \in 1 .. Len(fnd) :
           fnd[i] = Item(a[i].tag, its[i].from + 1, its[i].to) /\ its[i].to <= Len(r)
  BY DEF Walked
<1>4. PICK j \in Nat : j = Len(fnd)
  BY <1>3
<1>5. PICK z \in Nat : z = at
  <2>1. j # 0 => j \in 1 .. Len(its)
    BY <1>1, <1>3, <1>4
  <2>2. j # 0 => its[j] \in Places
    BY <1>1, <2>1
  <2>3. EndOf(its, j) \in Nat
    BY <2>2 DEF EndOf, HeaderSize, Places
  <2> QED
    BY <1>3, <1>4, <2>3
<1>6. PICK m \in Nat : m = Len(r)
  BY <1>2
<1>7. z = EndOf(its, j) /\ m - z > 1 /\ r[z + 2] <= (m - z) - 2
  BY <1>3, <1>4, <1>5, <1>6
<1>8. j + 1 \in 1 .. Len(a)
  <2>1. CASE j = Len(a)
    <3>1. z = Len(d) /\ m <= Len(d)
      BY <1>1, <1>2, <1>6, <1>7, <2>1
    <3> QED
      BY <1>1, <1>7, <3>1
  <2> QED
    BY <1>1, <1>3, <1>4, <2>1
<1>9. PICK e \in Entries : e = a[j + 1]
  BY <1>1, <1>8
<1>10. PICK it \in Places : it = its[j + 1]
  BY <1>1, <1>8
<1>11. Placed(e, z, it, d)
  <2>1. Placed(a[j + 1], EndOf(its, (j + 1) - 1), its[j + 1], d)
    BY <1>1, <1>8
  <2>2. (j + 1) - 1 = j
    OBVIOUS
  <2> QED
    BY <1>7, <1>9, <1>10, <2>1, <2>2
<1>12. PICK c \in Nat : c = Len(Payload(e))
  BY PayloadType
<1>13. it = Item(e.tag, z + 1, z + 2 + c) /\ d[z + 1] = e.tag /\ d[z + 2] = LengthField(e)
  BY <1>11, <1>12 DEF Placed
<1>14. LengthField(e) = c
  BY <1>8, <1>9, <1>12, LengthKept
<1>15. r[z + 1] = e.tag /\ r[z + 2] = c
  <2>1. PICK x \in Nat : x = z + 1
    OBVIOUS
  <2>2. PICK y \in Nat : y = z + 2
    OBVIOUS
  <2>3. x \in 1 .. m /\ y \in 1 .. m
    BY <1>7, <2>1, <2>2, SMTT(30)
  <2>4. r[x] = d[x] /\ r[y] = d[y]
    BY <1>2, <1>6, <2>3
  <2> QED
    BY <1>13, <1>14, <2>1, <2>2, <2>4
<1>16. it.from = z + 1 /\ it.to = z + 2 + c
  BY <1>13 DEF Item
<1>17. z + 2 + c <= m
  BY <1>7, <1>15
<1>18. e.tag \in Nat
  BY PayloadType
<1>19. PICK q \in Places : q = Item(e.tag, z + 2, z + 2 + c)
  <2>1. PICK t \in Nat : t = e.tag
    BY <1>18
  <2>2. z + 2 \in Nat /\ z + 2 + c \in Nat
    OBVIOUS
  <2>3. Item(t, z + 2, z + 2 + c) \in Places
    BY <2>2 DEF Item, Places
  <2> QED
    BY <2>1, <2>3
<1>20. /\ Append(fnd, q) \in Seq(Places) /\ Len(Append(fnd, q)) = j + 1
       /\ \A i \in 1 .. j : Append(fnd, q)[i] = fnd[i]
       /\ Append(fnd, q)[j + 1] = q
  BY <1>3, <1>4
<1>21. ASSUME NEW i \in 1 .. j + 1
       PROVE  /\ Append(fnd, q)[i] = Item(a[i].tag, its[i].from + 1, its[i].to)
              /\ its[i].to <= Len(r)
  <2>1. CASE i = j + 1
    <3>1. it.from + 1 = z + 2 /\ it.to = z + 2 + c /\ it.to <= Len(r)
      BY <1>6, <1>16, <1>17
    <3> QED
      BY <1>9, <1>10, <1>19, <1>20, <2>1, <3>1
  <2>2. CASE i \in 1 .. j
    BY <1>3, <1>4, <1>20, <2>2
  <2>3. i = j + 1 \/ i \in 1 .. j
    OBVIOUS
  <2> QED
    BY <2>1, <2>2, <2>3
<1>22. z + 2 + c = EndOf(its, j + 1)
  BY <1>10, <1>16 DEF EndOf
<1>23. j + 1 <= Len(a)
  BY <1>8
<1>24. z + 2 + c <= Len(r)
  BY <1>6, <1>17
<1>25. (z + 2) + c + 2 = z + 2 + c + 2
  OBVIOUS
<1>26. Walked(a, its, r, Append(fnd, q), z + 2 + c, z + 2 + c + 2)
  BY <1>20, <1>21, <1>22, <1>23, <1>24 DEF Walked
<1>27. next = z + 2 /\ next + r[at + 2] = z + 2 + c /\ r[at + 1] = e.tag /\ r[at + 2] = c
  BY <1>3, <1>5, <1>15
<1>28. q = Item(r[at + 1], next, next + r[at + 2])
  BY <1>19, <1>27
<1>29. at + 2 + r[at + 2] = z + 2 + c /\ next + r[at + 2] + 2 = z + 2 + c + 2
  BY <1>5, <1>27
<1> QED
  BY <1>26, <1>28, <1>29

(* What is found is what was added.                                        *)
LEMMA ItemBytes ==
  ASSUME NEW a, NEW its, NEW d, LaidOut(a, its, d), NEW r, Received(d, r),
         NEW fnd, NEW at, NEW next, Walked(a, its, r, fnd, at, next),
         NEW i \in 1 .. Len(fnd)
  PROVE  /\ a[i] \in Entries /\ fnd[i].tag = a[i].tag
         /\ SubSeq(r, fnd[i].from + 1, fnd[i].to) = Payload(a[i])
<1>1. /\ a \in Seq(Entries) /\ its \in Seq(Places) /\ d \in Seq(Nat) /\ Len(its) = Len(a)
      /\ \A k \in 1 .. Len(a) : Placed(a[k], EndOf(its, k - 1), its[k], d)
  BY DEF LaidOut
<1>2. /\ r \in Seq(Nat) /\ \A x \in 1 .. Len(r) : r[x] = d[x]
  BY DEF Received
<1>3. /\ fnd \in Seq(Places) /\ i \in 1 .. Len(a)
      /\ fnd[i] = Item(a[i].tag, its[i].from + 1, its[i].to) /\ its[i].to <= Len(r)
  BY <1>1 DEF Walked
<1>4. PICK e \in Entries : e = a[i]
  BY <1>1, <1>3
<1>5. PICK it \in Places : it = its[i]
  BY <1>1, <1>3
<1>6. PICK z : z = EndOf(its, i - 1)
  OBVIOUS
<1>7. z \in Nat
  <2>1. PICK k \in Nat : k = i - 1
    BY <1>3
  <2>2. k # 0 => k \in 1 .. Len(its)
    BY <1>1, <1>3, <2>1
  <2>3. k # 0 => its[k] \in Places
    BY <1>1, <2>2
  <2> QED
    BY <1>6, <2>1, <2>3 DEF EndOf, HeaderSize, Places
<1>8. PICK b \in Seq(Nat) : b = Payload(e)
  BY PayloadType
<1>9. PICK c \in Nat : c = Len(b)
  BY <1>8
<1>10. Placed(e, z, it, d)
  BY <1>1, <1>3, <1>4, <1>5, <1>6
<1>11. it = Item(e.tag, z + 1, z + 2 + c) /\ \A p \in 1 .. c : d[z + 2 + p] = b[p]
  BY <1>8, <1>9, <1>10 DEF Placed
<1>12. it.from = z + 1 /\ it.to = z + 2 + c
  BY <1>11 DEF Item
<1>13. z + 2 + c <= Len(r)
  BY <1>3, <1>5, <1>12
<1>14. fnd[i].tag = e.tag /\ fnd[i].from = z + 2 /\ fnd[i].to = z + 2 + c
  <2>1. it.from + 1 = z + 2
    BY <1>7, <1>12
  <2> QED
    BY <1>3, <1>4, <1>5, <1>12, <2>1 DEF Item
<1>15. PICK y \in Nat : y = z + 2
  BY <1>7
<1>16. ASSUME NEW p \in 1 .. c PROVE r[y + p] = b[p]
  <2>1. PICK x \in Nat : x = z + 2 + p
    BY <1>7
  <2>2. x \in 1 .. Len(r)
    BY <1>2, <1>7, <1>13, <2>1
  <2>3. r[x] = d[x]
    BY <1>2, <2>2
  <2>4. d[z + 2 + p] = b[p]
    BY <1>11
  <2>5. y + p = x
    BY <1>7, <1>15, <2>1
  <2> QED
    BY <2>1, <2>3, <2>4, <2>5
<1>17. SubSeq(r, y + 1, y + c) = PieceOf(r, y, c)
  BY Piece
<1>18. PieceOf(r, y, c) = b
  <2>1. PieceOf(r, y, c) = [p \in 1 .. c |-> b[p]]
    BY <1>16 DEF PieceOf
  <2>2. b = [p \in 1 .. c |-> b[p]]
    BY <1>9
  <2> QED
    BY <2>1, <2>2
<1>19. fnd[i].from + 1 = y + 1 /\ fnd[i].to = y + c
  BY <1>7, <1>14, <1>15
<1> QED
  BY <1>4, <1>8, <1>14, <1>17, <1>18, <1>19

-----------------------------------------------------------------------------
(* The invariant.                                                          *)

AnswerInv ==
  \/ answer = NoAnswer
  \/ /\ phase = "done"
     /\ answer = [call |-> "route", ok |-> RouteOk]
  \/ /\ phase = "done"
     /\ ~Unnamed
     /\ answer = [call |-> "info", netid |-> reply[1], hostname |-> Hostname,
                  twincat |-> TwinCatVersion, os |-> OsVersion]

ParsedInv ==
  /\ phase \in {"parse", "parsed", "done"} =>
       Received(data, reply) /\ (Fits => Walked(added, items, reply, found, ptr, pos))
  /\ phase \in {"parsed", "done"} => (Fits => ptr = Len(reply))

UdpInv == LaidOut(added, items, data) /\ ParsedInv /\ AnswerInv

(* No length field overflowed if none of the items is too long.            *)
LEMMA FitsAll ==
  ASSUME LaidOut(added, items, data)
  PROVE  Fits <=> \A k \in 1 .. Len(added) : EntryFits(added[k])
<1>1. DOMAIN added = 1 .. Len(added)
  BY DEF LaidOut
<1> QED
  BY <1>1 DEF Fits, EntryFits

LEMMA UdpInit == Init => UdpInv
<1> SUFFICES ASSUME Init PROVE UdpInv
  OBVIOUS
<1>1. added = <<>> /\ items = <<>> /\ data = <<Source, 0>> /\ phase = "build" /\ answer = NoAnswer
  BY DEF Init
<1>2. data \in Seq(Nat) /\ Len(data) = 2 /\ data[1] = Source
  BY <1>1, ConstantsAssumption
<1>3. LaidOut(added, items, data)
  <2>1. added \in Seq(Entries) /\ items \in Seq(Places) /\ Len(added) = 0 /\ Len(items) = 0
    BY <1>1
  <2>2. EndOf(items, Len(added)) = 2
    BY <2>1 DEF EndOf, HeaderSize
  <2> QED
    BY <1>2, <2>1, <2>2 DEF LaidOut, HeaderSize
<1> QED
  BY <1>1, <1>3 DEF UdpInv, ParsedInv, AnswerInv

(* An entry is added.                                                      *)
LEMMA UdpAdd ==
  ASSUME UdpInv, NEW e \in Entries,
         Add(e.tag, e.kind, e.value, LengthField(e), Payload(e))
  PROVE  UdpInv'
<1>1. LaidOut(added, items, data) /\ phase = "build"
  BY DEF UdpInv, Add
<1>2. PICK a : a = added
  OBVIOUS
<1>3. PICK its : its = items
  OBVIOUS
<1>4. PICK d : d = data
  OBVIOUS
<1>5. LaidOut(a, its, d)
  BY <1>1, <1>2, <1>3, <1>4
<1>6. d \in Seq(Nat) /\ a \in Seq(Entries) /\ its \in Seq(Places) /\ Len(d) >= HeaderSize
  BY <1>5 DEF LaidOut
<1>7. PICK w : w = d \o <<e.tag, LengthField(e)>> \o Payload(e)
  OBVIOUS
<1>8. Joins(w, d, e.tag, LengthField(e), Payload(e))
  <2>1. PICK t \in Nat : t = e.tag
    BY PayloadType
  <2>2. PICK l \in Nat : l = LengthField(e)
    BY PayloadType
  <2>3. PICK b \in Seq(Nat) : b = Payload(e)
    BY PayloadType
  <2>4. Joins(d \o <<t, l>> \o b, d, t, l, b)
    BY <1>6, Joined
  <2> QED
    BY <1>7, <2>1, <2>2, <2>3, <2>4
<1>9. w \in Seq(Nat) /\ Len(w) >= HeaderSize
  <2>1. w \in Seq(Nat) /\ Len(w) = Len(d) + 2 + Len(Payload(e))
    BY <1>8 DEF Joins
  <2>2. Len(Payload(e)) \in Nat /\ Len(d) \in Nat
    BY <1>6, PayloadType
  <2> QED
    BY <1>6, <2>1, <2>2 DEF HeaderSize
<1>10. PICK it : it = Item(e.tag, Len(d) + 1, Len(w))
  OBVIOUS
<1>11. items' = Append(its, it)
  BY <1>3, <1>4, <1>7, <1>10 DEF Add
<1>12. PICK n \in Nat : n = Len(items')
  BY <1>6, <1>11
<1>13. data' = [w EXCEPT ![HeaderSize] = n]
  BY <1>4, <1>7, <1>12 DEF Add
<1>14. PICK f : f = data'
  OBVIOUS
<1>15. f \in Seq(Nat) /\ Len(f) = Len(w) /\ \A i \in 1 .. Len(w) : i # HeaderSize => f[i] = w[i]
  BY <1>9, <1>13, <1>14, Counted
<1>16. LaidOut(Append(a, e), Append(its, it), f)
  BY <1>5, <1>8, <1>10, <1>15, AddPlaced
<1>17. added' = Append(a, e)
  <2>1. e = [tag |-> e.tag, kind |-> e.kind, value |-> e.value]
    BY DEF Entries
  <2> QED
    BY <1>2, <2>1 DEF Add
<1>18. LaidOut(added', items', data')
  BY <1>11, <1>14, <1>16, <1>17
<1>19. phase' = "build" /\ answer' = answer
  BY <1>1 DEF Add
<1>20. answer = NoAnswer
  BY <1>1 DEF UdpInv, AnswerInv
<1> QED
  BY <1>18, <1>19, <1>20 DEF UdpInv, ParsedInv, AnswerInv

(* The message is received.                                                *)
LEMMA UdpReceive ==
  ASSUME UdpInv, Receive
  PROVE  UdpInv'
<1>1. /\ LaidOut(added, items, data) /\ phase' = "parse" /\ UNCHANGED <<added, items, data, answer>>
      /\ reply' = SubSeq(data, 1, IF Len(data) <= BufSize THEN Len(data) ELSE BufSize)
      /\ ptr' = HeaderSize /\ pos' = HeaderSize + 2 /\ found' = <<>>
  BY DEF UdpInv, Receive, buildVars
<1>2. data \in Seq(Nat) /\ Len(data) >= HeaderSize /\ added \in Seq(Entries)
  BY <1>1 DEF LaidOut
<1>3. PICK r : r = reply'
  OBVIOUS
<1>4. PICK d : d = data
  OBVIOUS
<1>5. Received(d, r)
  BY <1>1, <1>2, <1>3, <1>4, Receives
<1>6. Len(r) >= 2 /\ Len(r) \in Nat
  <2>1. Len(d) \in Nat /\ Len(d) >= 2
    BY <1>2, <1>4 DEF HeaderSize
  <2>2. BufSize \in Nat /\ BufSize >= 2
    BY ConstantsAssumption
  <2> QED
    BY <1>5, <2>1, <2>2 DEF Received
<1>7. Walked(added, items, r, <<>>, HeaderSize, HeaderSize + 2)
  <2>1. <<>> \in Seq(Places) /\ Len(<<>>) = 0 /\ 0 <= Len(added)
    BY <1>2
  <2>2. HeaderSize = EndOf(items, 0) /\ HeaderSize <= Len(r)
    BY <1>6 DEF EndOf, HeaderSize
  <2> QED
    BY <2>1, <2>2 DEF Walked
<1>8. Received(data, reply)' /\ Walked(added, items, reply, found, ptr, pos)'
  BY <1>1, <1>3, <1>4, <1>5, <1>7
<1>9. LaidOut(added, items, data)'
  BY <1>1
<1>10. answer' = NoAnswer
  BY <1>1 DEF UdpInv, AnswerInv, Receive
<1> QED
  BY <1>1, <1>8, <1>9, <1>10 DEF UdpInv, ParsedInv, AnswerInv

(* Giving up leaves what was found as it is.                               *)
LEMMA UdpFail ==
  ASSUME UdpInv, NEW how \in {"failed", "panic"}, Fail(how), phase # "done"
  PROVE  UdpInv'
<1>1. UNCHANGED <<added, items, data, answer>> /\ phase' = how
  BY DEF Fail, buildVars
<1>2. answer = NoAnswer /\ LaidOut(added, items, data)
  BY DEF UdpInv, AnswerInv
<1>3. LaidOut(added, items, data)'
  BY <1>1, <1>2
<1> QED
  BY <1>1, <1>2, <1>3 DEF UdpInv, ParsedInv, AnswerInv

(* One turn of the loop.                                                   *)
LEMMA UdpParse ==
  ASSUME UdpInv, ParseItem
  PROVE  UdpInv'
<1>1. phase = "parse" /\ LaidOut(added, items, data) /\ answer = NoAnswer
  BY DEF UdpInv, AnswerInv, ParseItem, ParseItemOr
<1>2. CASE Fail("failed") \/ Fail("panic")
  BY <1>1, <1>2, UdpFail
<1>3. CASE /\ Left > 1 /\ reply[ptr + 2] <= Left - 2
           /\ found' = Append(found, Item(reply[ptr + 1], pos, pos + reply[ptr + 2]))
           /\ pos' = pos + reply[ptr + 2] + 2
           /\ ptr' = ptr + 2 + reply[ptr + 2]
           /\ UNCHANGED <<buildVars, phase, reply, answer>>
  <2>1. UNCHANGED <<added, items, data, phase, reply, answer>>
    BY <1>3 DEF buildVars
  <2>2. Received(data, reply) /\ Received(data, reply)'
    BY <1>1, <2>1 DEF UdpInv, ParsedInv
  <2>3. LaidOut(added, items, data)'
    BY <1>1, <2>1
  <2>4. Fits' = Fits
    BY <2>1 DEF Fits
  <2>5. ASSUME Fits PROVE Walked(added, items, reply, found, ptr, pos)'
    <3>1. PICK a : a = added
      OBVIOUS
    <3>2. PICK its : its = items
      OBVIOUS
    <3>3. PICK d : d = data
      OBVIOUS
    <3>4. PICK r : r = reply
      OBVIOUS
    <3>5. PICK fnd : fnd = found
      OBVIOUS
    <3>6. PICK at : at = ptr
      OBVIOUS
    <3>7. PICK next : next = pos
      OBVIOUS
    <3>8. Walked(added, items, reply, found, ptr, pos)
      BY <1>1, <2>5 DEF UdpInv, ParsedInv
    <3>9. LaidOut(a, its, d) /\ Received(d, r) /\ Walked(a, its, r, fnd, at, next)
      BY <1>1, <2>2, <3>1, <3>2, <3>3, <3>4, <3>5, <3>6, <3>7, <3>8
    <3>10. \A k \in 1 .. Len(a) : EntryFits(a[k])
      BY <1>1, <2>5, <3>1, FitsAll
    <3>11. Len(r) - at > 1 /\ r[at + 2] <= (Len(r) - at) - 2
      BY <1>3, <3>4, <3>6 DEF Left
    <3>12. Walked(a, its, r, Append(fnd, Item(r[at + 1], next, next + r[at + 2])),
                  at + 2 + r[at + 2], next + r[at + 2] + 2)
      BY <3>9, <3>10, <3>11, WalkStep
    <3>13. /\ found' = Append(fnd, Item(r[at + 1], next, next + r[at + 2]))
           /\ ptr' = at + 2 + r[at + 2] /\ pos' = next + r[at + 2] + 2
      BY <1>3, <3>4, <3>5, <3>6, <3>7
    <3> QED
      BY <2>1, <3>1, <3>2, <3>4, <3>12, <3>13
  <2> QED
    BY <1>1, <2>1, <2>2, <2>3, <2>4, <2>5 DEF UdpInv, ParsedInv, AnswerInv
<1> QED
  BY <1>2, <1>3 DEF ParseItem, ParseItemOr

(* The end of the message is where the last item ends.                     *)
LEMMA UdpEnd ==
  ASSUME UdpInv, ParseEnd
  PROVE  UdpInv'
<1>1. /\ phase = "parse" /\ phase' = "parsed" /\ Len(reply) - ptr = 0
      /\ UNCHANGED <<added, items, data, reply, ptr, pos, found, answer>>
  BY DEF ParseEnd, Fail, Left, buildVars, parseVars
<1>2. LaidOut(added, items, data) /\ answer = NoAnswer /\ Received(data, reply)
  BY <1>1 DEF UdpInv, ParsedInv, AnswerInv
<1>3. Fits' = Fits
  BY <1>1 DEF Fits
<1>4. LaidOut(added, items, data)' /\ Received(data, reply)'
  BY <1>1, <1>2
<1>5. ASSUME Fits
      PROVE  Walked(added, items, reply, found, ptr, pos)' /\ ptr' = Len(reply')
  <2>1. Walked(added, items, reply, found, ptr, pos)
    BY <1>1, <1>5 DEF UdpInv, ParsedInv
  <2>2. found \in Seq(Places) /\ Len(found) <= Len(added) /\ ptr = EndOf(items, Len(found))
    BY <2>1 DEF Walked
  <2>3. items \in Seq(Places) /\ Len(items) = Len(added)
    BY <1>2 DEF LaidOut
  <2>4. Len(found) # 0 => Len(found) \in 1 .. Len(items)
    BY <2>2, <2>3
  <2>5. Len(found) # 0 => items[Len(found)] \in Places
    BY <2>3, <2>4
  <2>6. ptr \in Nat
    BY <2>2, <2>5 DEF EndOf, HeaderSize, Places
  <2>7. Len(reply) \in Nat
    BY <1>2 DEF Received
  <2>8. ptr = Len(reply)
    BY <1>1, <2>6, <2>7
  <2> QED
    BY <1>1, <2>1, <2>8
<1> QED
  BY <1>1, <1>2, <1>3, <1>4, <1>5 DEF UdpInv, ParsedInv, AnswerInv

(* What the answers are made of does not change.                           *)
LEMMA UdpStill ==
  ASSUME UdpInv, UNCHANGED <<added, items, data, reply, ptr, pos, found>>,
         phase' = phase \/ (phase = "parsed" /\ phase' = "done"),
         AnswerInv'
  PROVE  UdpInv'
<1>1. LaidOut(added, items, data)'
  BY DEF UdpInv
<1>2. Fits' = Fits
  BY DEF Fits
<1>3. phase' \in {"parse", "parsed", "done"} => phase \in {"parse", "parsed", "done"}
  OBVIOUS
<1>4. phase' \in {"parsed", "done"} => phase \in {"parsed", "done"}
  OBVIOUS
<1>5. Received(data, reply) = Received(data, reply)'
  OBVIOUS
<1>6. Walked(added, items, reply, found, ptr, pos) = Walked(added, items, reply, found, ptr, pos)'
  OBVIOUS
<1>7. ParsedInv
  BY DEF UdpInv
<1>8. ParsedInv'
  BY <1>2, <1>3, <1>4, <1>5, <1>6, <1>7 DEF ParsedInv
<1> QED
  BY <1>1, <1>8 DEF UdpInv

(* What the answers are made of.                                           *)
LEMMA SameAnswers ==
  ASSUME UNCHANGED <<reply, found>>
  PROVE  /\ RouteOk' = RouteOk /\ Unnamed' = Unnamed /\ Hostname' = Hostname
         /\ TwinCatVersion' = TwinCatVersion /\ OsVersion' = OsVersion
<1>1. \A tag : Has(tag)' = Has(tag) /\ BytesOf(tag)' = BytesOf(tag)
  BY DEF Has, BytesOf
<1>2. RouteOk' = RouteOk
  BY <1>1 DEF RouteOk
<1>3. Unnamed' = Unnamed
  BY <1>1 DEF Unnamed
<1>4. Hostname' = Hostname
  BY <1>1 DEF Hostname
<1>5. TwinCatVersion' = TwinCatVersion
  BY <1>1 DEF TwinCatVersion
<1>6. OsVersion' = OsVersion
  BY <1>1 DEF OsVersion
<1> QED
  BY <1>2, <1>3, <1>4, <1>5, <1>6

(* add_route and get_info only look items up.                              *)
LEMMA UdpAnswer ==
  ASSUME UdpInv, add_route \/ get_info
  PROVE  UdpInv'
<1>1. /\ UNCHANGED <<added, items, data, reply, ptr, pos, found>>
      /\ phase = "parsed" /\ phase' = "done"
  BY DEF add_route, get_info, Answer, buildVars, parseVars
<1>2. /\ RouteOk' = RouteOk /\ Unnamed' = Unnamed /\ Hostname' = Hostname
      /\ TwinCatVersion' = TwinCatVersion /\ OsVersion' = OsVersion
  BY <1>1, SameAnswers
<1>3. CASE add_route
  <2>1. answer' = [call |-> "route", ok |-> RouteOk]
    BY <1>3 DEF add_route, Answer
  <2>2. answer' = [call |-> "route", ok |-> RouteOk']
    BY <1>2, <2>1
  <2>3. AnswerInv'
    BY <1>1, <2>2 DEF AnswerInv
  <2> QED
    BY <1>1, <2>3, UdpStill
<1>4. CASE get_info
  <2>1. /\ ~Unnamed
        /\ answer' = [call |-> "info", netid |-> reply[1], hostname |-> Hostname,
                      twincat |-> TwinCatVersion, os |-> OsVersion]
    BY <1>4 DEF get_info, Answer
  <2>2. AnswerInv'
    BY <1>1, <1>2, <2>1 DEF AnswerInv
  <2> QED
    BY <1>1, <2>2, UdpStill
<1> QED
  BY <1>3, <1>4

(* Building lays out items one behind the other; parsing finds them there. *)
LEMMA UdpStep == UdpInv /\ [Next]_vars => UdpInv'
<1> SUFFICES ASSUME UdpInv, [Next]_vars PROVE UdpInv'
  OBVIOUS
<1>1. ASSUME NEW tag \in Tags, NEW s \in Strings, add_bytes(tag, s) PROVE UdpInv'
  <2>1. PICK e : e = [tag |-> tag, kind |-> "bytes", value |-> s]
    OBVIOUS
  <2>2. tag \in Nat /\ s \in Seq(Nat)
    BY ConstantsAssumption
  <2>3. e \in Entries
    BY <2>1, <2>2 DEF Entries
  <2>4. /\ e.tag = tag /\ e.kind = "bytes" /\ e.value = s /\ Payload(e) = s
        /\ LengthField(e) = Len(s) % LenMod
    BY <2>1 DEF Payload, LengthField
  <2>5. Add(tag, "bytes", s, Len(s) % LenMod, s)
    BY <1>1 DEF add_bytes
  <2>6. Add(e.tag, e.kind, e.value, LengthField(e), Payload(e))
    BY <2>4, <2>5
  <2> QED
    BY <2>3, <2>6, UdpAdd
<1>2. ASSUME NEW tag \in Tags, NEW s \in Strings, add_str(tag, s) PROVE UdpInv'
  <2>1. PICK e : e = [tag |-> tag, kind |-> "str", value |-> s]
    OBVIOUS
  <2>2. tag \in Nat /\ s \in Seq(Nat)
    BY ConstantsAssumption
  <2>3. e \in Entries
    BY <2>1, <2>2 DEF Entries
  <2>4. /\ e.tag = tag /\ e.kind = "str" /\ e.value = s /\ Payload(e) = s \o <<0>>
        /\ LengthField(e) = ((Len(s) % LenMod) + 1) % LenMod
    BY <2>1 DEF Payload, LengthField
  <2>5. Add(tag, "str", s, ((Len(s) % LenMod) + 1) % LenMod, s \o <<0>>)
    BY <1>2 DEF add_str
  <2>6. Add(e.tag, e.kind, e.value, LengthField(e), Payload(e))
    BY <2>4, <2>5
  <2> QED
    BY <2>3, <2>6, UdpAdd
<1>3. ASSUME NEW tag \in Tags, NEW n \in Numbers, add_u32(tag, n) PROVE UdpInv'
  <2>1. PICK e : e = [tag |-> tag, kind |-> "u32", value |-> n]
    OBVIOUS
  <2>2. tag \in Nat /\ n \in Nat
    BY ConstantsAssumption
  <2>3. e \in Entries
    BY <2>1, <2>2 DEF Entries
  <2>4. /\ e.tag = tag /\ e.kind = "u32" /\ e.value = n /\ Payload(e) = <<n>>
        /\ LengthField(e) = 1
    BY <2>1 DEF Payload, LengthField
  <2>5. Add(tag, "u32", n, 1, <<n>>)
    BY <1>3 DEF add_u32
  <2>6. Add(e.tag, e.kind, e.value, LengthField(e), Payload(e))
    BY <2>4, <2>5
  <2> QED
    BY <2>3, <2>6, UdpAdd
<1>4. CASE Receive
  BY <1>4, UdpReceive
<1>5. CASE ReceiveFails
  BY <1>5, UdpFail DEF ReceiveFails
<1>6. CASE ParseItem
  BY <1>6, UdpParse
<1>7. CASE ParseEnd
  BY <1>7, UdpEnd
<1>8. CASE add_route \/ get_info
  BY <1>8, UdpAnswer
<1>9. CASE get_info_panics
  BY <1>9, UdpFail DEF get_info_panics
<1>10. CASE UNCHANGED vars
  <2>1. UNCHANGED <<added, items, data, reply, ptr, pos, found, phase, answer>>
    BY <1>10 DEF vars, buildVars, parseVars
  <2>2. /\ RouteOk' = RouteOk /\ Unnamed' = Unnamed /\ Hostname' = Hostname
        /\ TwinCatVersion' = TwinCatVersion /\ OsVersion' = OsVersion
    BY <2>1, SameAnswers
  <2>3. AnswerInv
    BY DEF UdpInv
  <2>4. AnswerInv'
    BY <2>1, <2>2, <2>3 DEF AnswerInv
  <2>5. UNCHANGED <<added, items, data, reply, ptr, pos, found>>
    BY <2>1
  <2>6. phase' = phase \/ (phase = "parsed" /\ phase' = "done")
    BY <2>1
  <2> QED
    BY <2>4, <2>5, <2>6, UdpStill
<1> QED
  BY <1>1, <1>2, <1>3, <1>4, <1>5, <1>6, <1>7, <1>8, <1>9, <1>10 DEF Next, Finished

-----------------------------------------------------------------------------
(* Looking up a tag.                                                       *)

(* The first item found with a tag is the first one added with it.         *)
LEMMA SameFirst ==
  ASSUME NEW S, NEW T, NEW s \in Seq(S), NEW t \in Seq(T), Len(s) <= Len(t),
         \A i \in 1 .. Len(s) : s[i].tag = t[i].tag,
         NEW tag, NEW k \in 1 .. Len(s), s[k].tag = tag
  PROVE  IndexOf(s, tag) = IndexOf(t, tag) /\ IndexOf(s, tag) \in 1 .. Len(s)
<1>1. PICK i : i = IndexOf(s, tag)
  OBVIOUS
<1>2. PICK j : j = IndexOf(t, tag)
  OBVIOUS
<1>3. i \in 1 .. Len(s) /\ s[i].tag = tag /\ \A l \in 1 .. Len(s) : s[l].tag = tag => i <= l
  BY <1>1, FirstIndex
<1>4. k \in 1 .. Len(t) /\ t[k].tag = tag
  OBVIOUS
<1>5. j \in 1 .. Len(t) /\ t[j].tag = tag /\ \A l \in 1 .. Len(t) : t[l].tag = tag => j <= l
  BY <1>2, <1>4, FirstIndex
<1>6. j <= i
  <2>1. i \in 1 .. Len(t) /\ t[i].tag = tag
    BY <1>3
  <2> QED
    BY <1>5, <2>1
<1>7. i <= j
  <2>1. j \in 1 .. Len(s) /\ s[j].tag = tag
    BY <1>3, <1>5, <1>6
  <2> QED
    BY <1>3, <2>1
<1> QED
  BY <1>1, <1>2, <1>3, <1>5, <1>6, <1>7

(* A tag that is found has the data that was added first under it.         *)
LEMMA TagBytes ==
  ASSUME UdpInv, phase \in {"parsed", "done"}, Fits, NEW tag, Has(tag)
  PROVE  /\ FirstWith(added, tag) \in Entries
         /\ Added(tag)
         /\ BytesOf(tag) = Payload(FirstWith(added, tag))
<1>1. /\ LaidOut(added, items, data) /\ Received(data, reply)
      /\ Walked(added, items, reply, found, ptr, pos)
  BY DEF UdpInv, ParsedInv
<1>2. /\ added \in Seq(Entries) /\ found \in Seq(Places) /\ Len(found) <= Len(added)
      /\ DOMAIN added = 1 .. Len(added) /\ DOMAIN found = 1 .. Len(found)
  BY <1>1 DEF LaidOut, Walked
<1>3. ASSUME NEW i \in 1 .. Len(found)
      PROVE  /\ added[i] \in Entries /\ found[i].tag = added[i].tag
             /\ SubSeq(reply, found[i].from + 1, found[i].to) = Payload(added[i])
  <2>1. PICK a : a = added
    OBVIOUS
  <2>2. PICK its : its = items
    OBVIOUS
  <2>3. PICK d : d = data
    OBVIOUS
  <2>4. PICK r : r = reply
    OBVIOUS
  <2>5. PICK fnd : fnd = found
    OBVIOUS
  <2>6. PICK at : at = ptr
    OBVIOUS
  <2>7. PICK next : next = pos
    OBVIOUS
  <2>8. /\ LaidOut(a, its, d) /\ Received(d, r) /\ Walked(a, its, r, fnd, at, next)
        /\ i \in 1 .. Len(fnd)
    BY <1>1, <2>1, <2>2, <2>3, <2>4, <2>5, <2>6, <2>7
  <2>9. /\ a[i] \in Entries /\ fnd[i].tag = a[i].tag
        /\ SubSeq(r, fnd[i].from + 1, fnd[i].to) = Payload(a[i])
    BY <2>8, ItemBytes
  <2> QED
    BY <2>1, <2>4, <2>5, <2>9
<1>4. PICK k \in 1 .. Len(found) : found[k].tag = tag
  BY <1>2 DEF Has
<1>5. IndexOf(found, tag) = IndexOf(added, tag) /\ IndexOf(found, tag) \in 1 .. Len(found)
  <2>1. PICK s : s = found
    OBVIOUS
  <2>2. PICK t : t = added
    OBVIOUS
  <2>3. s \in Seq(Places) /\ t \in Seq(Entries) /\ Len(s) <= Len(t) /\ k \in 1 .. Len(s)
    BY <1>2, <1>4, <2>1, <2>2
  <2>4. s[k].tag = tag /\ \A i \in 1 .. Len(s) : s[i].tag = t[i].tag
    BY <1>3, <1>4, <2>1, <2>2
  <2>5. IndexOf(s, tag) = IndexOf(t, tag) /\ IndexOf(s, tag) \in 1 .. Len(s)
    BY <2>3, <2>4, SameFirst
  <2> QED
    BY <2>1, <2>2, <2>5
<1>6. PICK i \in 1 .. Len(found) : i = IndexOf(found, tag) /\ i = IndexOf(added, tag)
  BY <1>5
<1>7. FirstWith(found, tag) = found[i] /\ FirstWith(added, tag) = added[i]
  BY <1>6 DEF FirstWith, IndexOf
<1>8. BytesOf(tag) = SubSeq(reply, found[i].from + 1, found[i].to)
  BY <1>7 DEF BytesOf, GetBytes
<1>9. Added(tag)
  <2>1. k \in DOMAIN added /\ added[k].tag = tag
    BY <1>2, <1>3, <1>4
  <2> QED
    BY <2>1 DEF Added
<1> QED
  BY <1>3, <1>7, <1>8, <1>9

(* Of a datagram that was not cut, every item is found.                    *)
LEMMA WholeFound ==
  ASSUME UdpInv, phase \in {"parsed", "done"}, Fits, Len(data) <= BufSize
  PROVE  Len(found) = Len(added) /\ \A tag : Added(tag) => Has(tag)
<1>1. /\ LaidOut(added, items, data) /\ Received(data, reply)
      /\ Walked(added, items, reply, found, ptr, pos) /\ ptr = Len(reply)
  BY DEF UdpInv, ParsedInv
<1>2. /\ added \in Seq(Entries) /\ items \in Seq(Places) /\ data \in Seq(Nat)
      /\ Len(items) = Len(added) /\ Len(data) = EndOf(items, Len(added))
      /\ \A k \in 1 .. Len(added) : Placed(added[k], EndOf(items, k - 1), items[k], data)
  BY <1>1 DEF LaidOut
<1>3. Len(reply) = Len(data)
  BY <1>1 DEF Received
<1>4. /\ found \in Seq(Places) /\ Len(found) <= Len(added) /\ ptr = EndOf(items, Len(found))
      /\ \A i \in 1 .. Len(found) : found[i] = Item(added[i].tag, items[i].from + 1, items[i].to)
  BY <1>1 DEF Walked
<1>5. PICK j \in Nat : j = Len(found)
  BY <1>4
<1>6. PICK n \in Nat : n = Len(data)
  BY <1>2
<1>7. EndOf(items, j) = n
  BY <1>1, <1>3, <1>4, <1>5, <1>6
<1>8. j = Len(added)
  <2>1. SUFFICES ASSUME j # Len(added) PROVE FALSE
    OBVIOUS
  <2>2. j + 1 \in 1 .. Len(added)
    BY <1>2, <1>4, <1>5, <2>1
  <2>3. Placed(added[j + 1], EndOf(items, (j + 1) - 1), items[j + 1], data)
    BY <1>2, <2>2
  <2>4. (j + 1) - 1 = j
    OBVIOUS
  <2>5. PICK e \in Entries : e = added[j + 1]
    BY <1>2, <2>2
  <2>6. PICK it : it = items[j + 1]
    OBVIOUS
  <2>7. Placed(e, n, it, data)
    BY <1>7, <2>3, <2>4, <2>5, <2>6
  <2>8. PICK c \in Nat : c = Len(Payload(e))
    BY PayloadType
  <2>9. it = Item(e.tag, n + 1, n + 2 + c) /\ it.to <= n
    BY <1>6, <2>7, <2>8 DEF Placed
  <2>10. it.to = n + 2 + c
    BY <2>9 DEF Item
  <2> QED
    BY <2>9, <2>10
<1>9. ASSUME NEW tag, Added(tag) PROVE Has(tag)
  <2>1. PICK k \in 1 .. Len(added) : added[k].tag = tag
    BY <1>2, <1>9 DEF Added
  <2>2. Len(found) = Len(added) /\ DOMAIN found = 1 .. Len(found)
    <3>1. found \in Seq(Places)
      BY <1>4
    <3>2. DOMAIN found = 1 .. Len(found)
      BY <3>1
    <3>3. Len(found) = Len(added)
      BY <1>5, <1>8
    <3> QED
      BY <3>2, <3>3
  <2>a. k \in 1 .. Len(found) /\ k \in DOMAIN found
    BY <2>1, <2>2
  <2>b. found[k] = Item(added[k].tag, items[k].from + 1, items[k].to)
    BY <1>4, <2>a
  <2>3. found[k].tag = tag
    BY <2>1, <2>b DEF Item
  <2> QED
    BY <2>a, <2>3 DEF Has
<1> QED
  BY <1>5, <1>8, <1>9

(* The terminator of a string.                                             *)
LEMMA FrontOf ==
  ASSUME NEW v \in Seq(Nat)
  PROVE  Front(v \o <<0>>) = v
<1>1. PICK n \in Nat : n = Len(v)
  OBVIOUS
<1>2. PICK w : w = v \o <<0>>
  OBVIOUS
<1>3. Len(w) = n + 1 /\ \A i \in 1 .. n : w[i] = v[i]
  BY <1>1, <1>2
<1>4. Front(w) = SubSeq(w, 0 + 1, 0 + n)
  BY <1>3 DEF Front
<1>5. SubSeq(w, 0 + 1, 0 + n) = PieceOf(w, 0, n)
  BY Piece
<1>6. PieceOf(w, 0, n) = [i \in 1 .. n |-> v[i]]
  BY <1>3 DEF PieceOf
<1>7. v = [i \in 1 .. n |-> v[i]]
  BY <1>1
<1> QED
  BY <1>2, <1>4, <1>5, <1>6, <1>7

(* A message that parses yields what was added to it, for messages of any  *)
(* number and length of items: what map_tag returns for a tag is what the  *)
(* sender added first under it, and of a datagram that was not cut, every  *)
(* item is found.                                                          *)
THEOREM ParsedSent == Spec => []ParsedIsSent
<1>1. ASSUME UdpInv PROVE ParsedIsSent
  <2>1. SUFFICES ASSUME phase = "parsed", Fits
                 PROVE  /\ Len(data) <= BufSize => Len(found) = Len(added)
                        /\ \A tag \in {found[k].tag : k \in DOMAIN found} :
                             Get(FirstWith(added, tag).kind, found, reply, tag)
                               = FirstWith(added, tag).value
    BY DEF ParsedIsSent
  <2>2. Len(data) <= BufSize => Len(found) = Len(added)
    BY <1>1, <2>1, WholeFound
  <2>3. ASSUME NEW tag \in {found[k].tag : k \in DOMAIN found}
        PROVE  Get(FirstWith(added, tag).kind, found, reply, tag) = FirstWith(added, tag).value
    <3>1. Has(tag)
      BY <2>3 DEF Has
    <3>2. FirstWith(added, tag) \in Entries /\ BytesOf(tag) = Payload(FirstWith(added, tag))
      BY <1>1, <2>1, <3>1, TagBytes
    <3>3. PICK e \in Entries : e = FirstWith(added, tag)
      BY <3>2
    <3>4. GetBytes(found, reply, tag) = Payload(e)
      BY <3>2, <3>3 DEF BytesOf
    <3>5. CASE e.kind = "bytes"
      BY <3>3, <3>4, <3>5 DEF Get, Payload
    <3>6. CASE e.kind = "str"
      <4>1. e.value \in Seq(Nat)
        BY <3>6 DEF Entries
      <4>2. Front(e.value \o <<0>>) = e.value
        BY <4>1, FrontOf
      <4> QED
        BY <3>3, <3>4, <3>6, <4>2 DEF Get, Payload
    <3>7. CASE e.kind = "u32"
      <4>1. Payload(e)[1] = e.value
        BY <3>7 DEF Payload
      <4> QED
        BY <3>3, <3>4, <3>7, <4>1 DEF Get
    <3>8. e.kind \in {"bytes", "str", "u32"}
      BY DEF Entries
    <3> QED
      BY <3>5, <3>6, <3>7, <3>8
  <2> QED
    BY <2>2, <2>3
<1> QED
  BY <1>1, UdpInit, UdpStep, PTL DEF Spec

-----------------------------------------------------------------------------
(* The answers.                                                            *)

(* What was added first under a tag.                                       *)
LEMMA SentPayload ==
  ASSUME UdpInv, NEW tag, Added(tag)
  PROVE  Sent(tag) = Payload(FirstWith(added, tag)) /\ Sent(tag) \in Seq(Nat)
<1>1. added \in Seq(Entries) /\ DOMAIN added = 1 .. Len(added)
  BY DEF UdpInv, LaidOut
<1>2. PICK k \in 1 .. Len(added) : added[k].tag = tag
  BY <1>1 DEF Added
<1>3. IndexOf(added, tag) \in 1 .. Len(added)
  <2>1. PICK t : t = added
    OBVIOUS
  <2>2. t \in Seq(Entries) /\ k \in 1 .. Len(t) /\ t[k].tag = tag
    BY <1>1, <1>2, <2>1
  <2>3. IndexOf(t, tag) \in 1 .. Len(t)
    BY <2>2, FirstIndex
  <2> QED
    BY <2>1, <2>3
<1>a. FirstWith(added, tag) = added[IndexOf(added, tag)]
  BY DEF FirstWith, IndexOf
<1>4. PICK e \in Entries : e = FirstWith(added, tag)
  BY <1>1, <1>3, <1>a
<1>5. e.kind \in {"bytes", "str", "u32"}
  BY DEF Entries
<1>6. Sent(tag) = Payload(e)
  BY <1>4, <1>5 DEF Sent, Payload
<1> QED
  BY <1>4, <1>6, PayloadType

(* BytesOf a tag that is found is what was sent under it.                  *)
LEMMA FoundIsSent ==
  ASSUME UdpInv, phase \in {"parsed", "done"}, Fits, NEW tag
  PROVE  /\ Has(tag) => /\ Added(tag) /\ BytesOf(tag) = Sent(tag)
                        /\ Sent(tag) \in Seq(Nat)
         /\ Len(data) <= BufSize => (Added(tag) => Has(tag))
<1>1. Has(tag) => Added(tag) /\ BytesOf(tag) = Payload(FirstWith(added, tag))
  BY TagBytes
<1>2. Added(tag) => Sent(tag) = Payload(FirstWith(added, tag)) /\ Sent(tag) \in Seq(Nat)
  BY SentPayload
<1>3. Len(data) <= BufSize => (Added(tag) => Has(tag))
  BY WholeFound
<1> QED
  BY <1>1, <1>2, <1>3

(* The text of an OS version ends before its NUL.                          *)
LEMMA TextOf ==
  ASSUME NEW s \in Seq(Nat)
  PROVE  \E n \in Nat : /\ n <= Len(s)
                        /\ UpToNul(s) = PieceOf(s, 0, n)
                        /\ \A i \in 1 .. n : s[i] # 0
<1>1. PICK m \in Nat : m = Len(s)
  OBVIOUS
<1>2. PICK w : w = s \o <<0>>
  OBVIOUS
<1>3. Len(w) = m + 1 /\ (\A i \in 1 .. m : w[i] = s[i]) /\ w[m + 1] = 0
  BY <1>1, <1>2
<1>4. PICK I : I = {i \in 1 .. m + 1 : w[i] = 0}
  OBVIOUS
<1>5. I \subseteq Nat /\ m + 1 \in I
  BY <1>3, <1>4
<1>6. Min(I) \in I /\ \A y \in I : Min(I) <= y
  BY <1>5, MinOf
<1>7. SelectInSeq(w, LAMBDA c : c = 0) = Min(I)
  BY <1>3, <1>4, <1>5 DEF SelectInSeq
<1>8. PICK x \in 1 .. m + 1 : x = Min(I)
  BY <1>4, <1>6
<1>9. PICK n \in Nat : n = x - 1
  OBVIOUS
<1>10. n <= m
  BY <1>9
<1>11. ASSUME NEW i \in 1 .. n PROVE s[i] # 0
  <2>1. i \in 1 .. m /\ ~(x <= i) /\ i \in 1 .. m + 1
    BY <1>9, <1>10
  <2>2. i \notin I
    BY <1>6, <1>8, <2>1
  <2> QED
    BY <1>3, <1>4, <2>1, <2>2
<1>12. UpToNul(s) = SubSeq(s, 1, x - 1)
  BY <1>2, <1>7, <1>8 DEF UpToNul
<1>13. SubSeq(s, 0 + 1, 0 + n) = PieceOf(s, 0, n)
  BY Piece
<1>14. 0 + 1 = 1 /\ 0 + n = x - 1
  BY <1>9
<1>15. UpToNul(s) = PieceOf(s, 0, n)
  BY <1>12, <1>13, <1>14
<1> QED
  BY <1>1, <1>10, <1>11, <1>15

(* The OS version: its platform and text begin what was sent.              *)
LEMMA OsText ==
  ASSUME NEW b \in Seq(Nat), Len(b) >= 2
  PROVE  IsPrefix(<<b[1]>> \o UpToNul(Tail(b)), b) /\ ~Contains(UpToNul(Tail(b)), 0)
<1>1. PICK m \in Nat : m = Len(b)
  OBVIOUS
<1>a. b # <<>>
  OBVIOUS
<1>b. /\ Tail(b) \in Seq(Nat) /\ Len(Tail(b)) = m - 1
      /\ \A i \in 1 .. m - 1 : Tail(b)[i] = b[i + 1]
  BY <1>1, <1>a
<1>2. PICK s \in Seq(Nat) : s = Tail(b)
  BY <1>b
<1>3. Len(s) = m - 1 /\ \A i \in 1 .. m - 1 : s[i] = b[i + 1]
  BY <1>2, <1>b
<1>c. PICK u : u = UpToNul(Tail(b))
  OBVIOUS
<1>4. PICK n \in Nat : n <= Len(s) /\ UpToNul(s) = PieceOf(s, 0, n) /\ \A i \in 1 .. n : s[i] # 0
  BY TextOf
<1>5. n <= m - 1 /\ \A i \in 1 .. n : s[i] = b[i + 1] /\ s[i] # 0 /\ s[i] \in Nat
  BY <1>1, <1>3, <1>4, SMTT(30)
<1>6. u = [i \in 1 .. n |-> s[i]]
  <2>1. u = PieceOf(s, 0, n)
    BY <1>2, <1>4, <1>c
  <2>2. \A i \in 1 .. n : 0 + i = i
    OBVIOUS
  <2> QED
    BY <2>1, <2>2 DEF PieceOf
<1>d. u \in [1 .. n -> Nat] /\ \A i \in 1 .. n : u[i] = s[i]
  BY <1>5, <1>6
<1>7. u \in Seq(Nat) /\ Len(u) = n /\ \A i \in 1 .. n : u[i] = s[i]
  BY <1>d
<1>8. ~Contains(u, 0)
  BY <1>5, <1>7 DEF Contains
<1>9. PICK p \in Nat : p = b[1]
  OBVIOUS
<1>10. PICK x : x = <<p>> \o u
  OBVIOUS
<1>11. PICK v \in Seq(Nat) : v = u
  BY <1>7
<1>12. Len(x) = 1 + n /\ x[1] = p /\ \A i \in 1 .. n : x[1 + i] = v[i]
  <2>1. x = <<p>> \o v /\ Len(v) = n
    BY <1>7, <1>10, <1>11
  <2> QED
    BY <2>1
<1>13. ASSUME NEW i \in 1 .. 1 + n PROVE x[i] = b[i]
  <2>1. CASE i = 1
    BY <1>9, <1>12, <2>1
  <2>2. CASE i # 1
    <3>1. PICK y \in 1 .. n : i = 1 + y
      <4>1. i - 1 \in 1 .. n /\ i = 1 + (i - 1)
        BY <2>2
      <4> QED
        BY <4>1
    <3>2. x[1 + y] = v[y]
      BY <1>12
    <3>3. v[y] = s[y]
      BY <1>7, <1>11
    <3>4. s[y] = b[y + 1] /\ y + 1 = 1 + y
      BY <1>5
    <3> QED
      BY <3>1, <3>2, <3>3, <3>4
  <2> QED
    BY <2>1, <2>2
<1>14. PICK c \in Nat : c = 1 + n
  OBVIOUS
<1>15. SubSeq(x, 0 + 1, 0 + c) = PieceOf(x, 0, c) /\ SubSeq(b, 0 + 1, 0 + c) = PieceOf(b, 0, c)
  BY Piece
<1>16. PieceOf(x, 0, c) = PieceOf(b, 0, c)
  <2>1. \A i \in 1 .. c : 0 + i = i /\ x[i] = b[i]
    BY <1>13, <1>14
  <2> QED
    BY <2>1 DEF PieceOf
<1>17. SubSeq(x, 1, c) = SubSeq(b, 1, c)
  BY <1>15, <1>16
<1>18. Len(x) = c /\ c <= Len(b)
  BY <1>1, <1>5, <1>12, <1>14
<1>19. IsPrefix(x, b)
  BY <1>17, <1>18 DEF IsPrefix
<1> QED
  BY <1>c, <1>8, <1>9, <1>10, <1>19

(* add_route succeeds just if the router's status is zero.                 *)
LEMMA RouteSent ==
  ASSUME UdpInv, phase = "done", Fits
  PROVE  /\ RouteOk => Added(Status) /\ Sent(Status) # <<>> /\ Sent(Status)[1] = 0
         /\ Len(data) <= BufSize /\ Added(Status) /\ Sent(Status) # <<>> /\ Sent(Status)[1] = 0
              => RouteOk
<1>1. /\ Has(Status) => /\ Added(Status) /\ BytesOf(Status) = Sent(Status)
                        /\ Sent(Status) \in Seq(Nat)
      /\ Len(data) <= BufSize => (Added(Status) => Has(Status))
  BY FoundIsSent
<1>2. \A s \in Seq(Nat) : s # <<>> => Head(s) = s[1]
  OBVIOUS
<1> QED
  BY <1>1, <1>2 DEF RouteOk

(* The host name returned is the one the router sent.                      *)
LEMMA NameSent ==
  ASSUME UdpInv, phase = "done", Fits, ~Unnamed
  PROVE  \/ Hostname = {} /\ (Len(data) <= BufSize => ~Added(ComputerName))
         \/ /\ Added(ComputerName) /\ Sent(ComputerName) # <<>>
            /\ Hostname = {Front(Sent(ComputerName))}
<1>1. /\ Has(ComputerName) => /\ Added(ComputerName)
                              /\ BytesOf(ComputerName) = Sent(ComputerName)
      /\ Len(data) <= BufSize => (Added(ComputerName) => Has(ComputerName))
  BY FoundIsSent
<1>2. CASE Has(ComputerName)
  <2>1. Hostname = {Front(BytesOf(ComputerName))}
    BY <1>2 DEF Hostname, Get, BytesOf
  <2>2. BytesOf(ComputerName) # <<>>
    BY <1>2 DEF Unnamed
  <2> QED
    BY <1>1, <1>2, <2>1, <2>2
<1>3. CASE ~Has(ComputerName)
  BY <1>1, <1>3 DEF Hostname
<1> QED
  BY <1>2, <1>3

(* The TwinCAT version returned is the one the router sent.                *)
LEMMA VersionSent ==
  ASSUME UdpInv, phase = "done", Fits
  PROVE  \/ /\ TwinCatVersion = 0
            /\ Len(data) <= BufSize =>
                 ~(Added(TCVersion) /\ Sent(TCVersion) # <<>>) \/ Sent(TCVersion)[1] = 0
         \/ /\ Added(TCVersion) /\ Sent(TCVersion) # <<>>
            /\ TwinCatVersion = Sent(TCVersion)[1]
<1>1. /\ Has(TCVersion) => /\ Added(TCVersion) /\ BytesOf(TCVersion) = Sent(TCVersion)
                           /\ Sent(TCVersion) \in Seq(Nat)
      /\ Len(data) <= BufSize => (Added(TCVersion) => Has(TCVersion))
  BY FoundIsSent
<1>2. \A s \in Seq(Nat) : s # <<>> => Head(s) = s[1]
  OBVIOUS
<1>3. CASE Has(TCVersion) /\ BytesOf(TCVersion) # <<>>
  BY <1>1, <1>2, <1>3 DEF TwinCatVersion
<1>4. CASE ~(Has(TCVersion) /\ BytesOf(TCVersion) # <<>>)
  BY <1>1, <1>4 DEF TwinCatVersion
<1> QED
  BY <1>3, <1>4

(* The OS version returned is the one the router sent, up to its first zero.*)
LEMMA OsSent ==
  ASSUME UdpInv, phase = "done", Fits, OsVersion.text # <<>>
  PROVE  /\ Added(OSVersion) /\ Sent(OSVersion) # <<>>
         /\ IsPrefix(<<OsVersion.platform>> \o OsVersion.text, Sent(OSVersion))
         /\ ~Contains(OsVersion.text, 0)
<1>1. Has(OSVersion) => /\ Added(OSVersion) /\ BytesOf(OSVersion) = Sent(OSVersion)
                        /\ Sent(OSVersion) \in Seq(Nat)
  BY FoundIsSent
<1>2. Has(OSVersion)
  BY DEF OsVersion
<1>3. PICK b \in Seq(Nat) : b = BytesOf(OSVersion)
  BY <1>1, <1>2
<1>4. Len(b) >= 2
  <2>1. CASE Len(b) < 2
    <3>1. OsVersion = [platform |-> "Unknown OS info format", text |-> <<>>]
      <4>1. ~(Len(b) >= 2)
        BY <2>1
      <4> QED
        BY <1>2, <1>3, <2>1, <4>1 DEF OsVersion
    <3> QED
      BY <3>1
  <2> QED
    BY <2>1
<1>5. OsVersion = [platform |-> b[1], text |-> IF b[1] = Bsd THEN <<>> ELSE UpToNul(Tail(b))]
  BY <1>2, <1>3, <1>4 DEF OsVersion
<1>6. PICK u : u = UpToNul(Tail(b))
  OBVIOUS
<1>7. OsVersion.platform = b[1] /\ OsVersion.text = u
  BY <1>5, <1>6
<1>8. IsPrefix(<<b[1]>> \o u, b) /\ ~Contains(u, 0)
  BY <1>4, <1>6, OsText
<1>9. b # <<>>
  BY <1>4
<1> QED
  BY <1>1, <1>2, <1>3, <1>7, <1>8, <1>9

(* add_route reports success exactly if the first status sent is zero, and *)
(* get_info reports the address, the name and the versions that were sent, *)
(* a default only for what was not sent or was cut off, for replies of any *)
(* number and length of items.                                             *)
THEOREM AnswerSent == Spec => []AnswerIsSent
<1>1. ASSUME UdpInv PROVE AnswerIsSent
  <2>1. SUFFICES ASSUME Fits PROVE AnswerIsSent
    BY DEF AnswerIsSent
  <2>2. CASE answer = NoAnswer
    BY <2>2 DEF NoAnswer, AnswerIsSent
  <2>3. CASE phase = "done" /\ answer = [call |-> "route", ok |-> RouteOk]
    <3>1. answer.call = "route" /\ answer.ok = RouteOk
      BY <2>3
    <3>2. /\ RouteOk => Added(Status) /\ Sent(Status) # <<>> /\ Sent(Status)[1] = 0
          /\ Len(data) <= BufSize /\ Added(Status) /\ Sent(Status) # <<>> /\ Sent(Status)[1] = 0
               => RouteOk
      BY <1>1, <2>1, <2>3, RouteSent
    <3> QED
      BY <3>1, <3>2 DEF AnswerIsSent
  <2>4. CASE /\ phase = "done" /\ ~Unnamed
             /\ answer = [call |-> "info", netid |-> reply[1], hostname |-> Hostname,
                          twincat |-> TwinCatVersion, os |-> OsVersion]
    <3>1. /\ answer.call = "info" /\ answer.netid = reply[1] /\ answer.hostname = Hostname
          /\ answer.twincat = TwinCatVersion /\ answer.os = OsVersion
      BY <2>4
    <3>2. reply[1] = Source
      <4>1. Received(data, reply) /\ LaidOut(added, items, data)
        BY <1>1, <2>4 DEF UdpInv, ParsedInv
      <4>2. data \in Seq(Nat) /\ Len(data) >= 2 /\ data[1] = Source
        BY <4>1 DEF LaidOut, HeaderSize
      <4>3. 1 \in 1 .. Len(reply) /\ \A i \in 1 .. Len(reply) : reply[i] = data[i]
        BY <4>1, <4>2, ConstantsAssumption DEF Received
      <4> QED
        BY <4>2, <4>3
    <3>3. \/ Hostname = {} /\ (Len(data) <= BufSize => ~Added(ComputerName))
          \/ /\ Added(ComputerName) /\ Sent(ComputerName) # <<>>
             /\ Hostname = {Front(Sent(ComputerName))}
      BY <1>1, <2>1, <2>4, NameSent
    <3>4. \/ /\ TwinCatVersion = 0
             /\ Len(data) <= BufSize =>
                  ~(Added(TCVersion) /\ Sent(TCVersion) # <<>>) \/ Sent(TCVersion)[1] = 0
          \/ /\ Added(TCVersion) /\ Sent(TCVersion) # <<>>
             /\ TwinCatVersion = Sent(TCVersion)[1]
      BY <1>1, <2>1, <2>4, VersionSent
    <3>5. OsVersion.text # <<>> =>
            /\ Added(OSVersion) /\ Sent(OSVersion) # <<>>
            /\ IsPrefix(<<OsVersion.platform>> \o OsVersion.text, Sent(OSVersion))
            /\ ~Contains(OsVersion.text, 0)
      BY <1>1, <2>1, <2>4, OsSent
    <3> QED
      BY <3>1, <3>2, <3>3, <3>4, <3>5 DEF AnswerIsSent
  <2> QED
    BY <1>1, <2>2, <2>3, <2>4 DEF UdpInv, AnswerInv
<1> QED
  BY <1>1, UdpInit, UdpStep, PTL DEF Spec
=============================================================================

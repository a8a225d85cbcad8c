------------------------------ MODULE TypeInfo -------------------------------
(***************************************************************************)
(* The decoder of type and symbol records (src/src/symbol.rs), as          *)
(* operators, and the encoding it expects of a device.                     *)
(*                                                                         *)
(* A record is a sequence of units: an integer field, a GUID and a byte of *)
(* a string, of a copy mask or of an enum value are one unit each, so that *)
(* the length field of an entry, which counts itself, counts one.  Flags   *)
(* and base types are the code's numbers.                                  *)
(*                                                                         *)
(* A parser takes and returns a state: what is left of the input, the      *)
(* values read so far, and how it stands.  The k-th value read is out[k].  *)
(***************************************************************************)
EXTENDS Integers, SequencesExt

CONSTANTS
  MaxStrLen,   \* MAX_STR_LEN (8196)
  NoOffset,    \* the offset of a field that is not inline (0xFFFFFFFF)
  I32Max,      \* largest array index (i32::MAX)
  ByteMod      \* values of a byte (256)

ASSUME TypeInfoAssumption ==
  /\ MaxStrLen \in Nat
  /\ NoOffset \in Nat
  /\ I32Max \in Nat
  /\ ByteMod \in Nat \ {0, 1}

Start(ptr) == [st |-> "ok", ptr |-> ptr, out |-> <<>>]
Stop(p, how) == [p EXCEPT !.st = how]
Drop(s, n) == SubSeq(s, n + 1, Len(s))
Upto(s, n) == SubSeq(s, 1, IF n < Len(s) THEN n ELSE Len(s))
None == <<>>
Some(x) == <<x>>

-----------------------------------------------------------------------------
(* Reading from the input.  Nothing is read after an error.  A negative    *)
(* unit, an array bound, is a large one where no sign is expected.         *)

(* n integer fields.                                                       *)
Ints(p, n) ==
  IF p.st # "ok" THEN p
  ELSE IF Len(p.ptr) < n THEN Stop(p, "err")
  ELSE [p EXCEPT !.ptr = Drop(@, n), !.out = @ \o Upto(p.ptr, n)]

(* `read_exact` into a fresh buffer of n bytes.                            *)
Raw(p, n) ==
  IF p.st # "ok" THEN p
  ELSE IF n \notin 0 .. Len(p.ptr) THEN Stop(p, "err")
  ELSE [p EXCEPT !.ptr = Drop(@, n), !.out = Append(@, Upto(p.ptr, n))]

(* The string whose length is out[k]: with its terminator, or, if that is  *)
(* beyond the end, whatever is left.                                       *)
read_str(p, k) ==
  IF p.st # "ok" THEN p
  ELSE IF p.out[k] \notin 0 .. MaxStrLen THEN Stop(p, "err")
  ELSE [p EXCEPT !.ptr = Drop(@, p.out[k] + 1), !.out = Append(@, Upto(p.ptr, p.out[k]))]

(* A record read by Parse and built by Make, as one value.                 *)
Record(p, Parse(_), Make(_)) ==
  IF p.st # "ok" THEN p
  ELSE LET r == Parse(Start(p.ptr))
       IN IF r.st # "ok" THEN Stop(p, r.st)
          ELSE [p EXCEPT !.ptr = r.ptr, !.out = Append(@, Make(r.out))]

(* A list of as many values as out[k] says.  Each of them takes a unit at  *)
(* least, so that it is over after one turn more than there are units.     *)
Times(p, k, One(_)) ==
  IF p.st # "ok" THEN p
  ELSE LET last == IF p.out[k] \in 0 .. Len(p.ptr) THEN p.out[k] ELSE Len(p.ptr) + 1
           turn[n \in 0 .. last] == IF n = 0 THEN [p EXCEPT !.out = <<>>] ELSE One(turn[n - 1])
       IN [turn[last] EXCEPT !.out = Append(p.out, @)]

(* A list behind its own count.                                            *)
Counted(p, One(_)) ==
  Record(p, LAMBDA q : Times(Ints(q, 1), 1, One), LAMBDA o : o[2])

Bit(flags, mask) == (flags \div mask) % 2 = 1

(* A value that is there only if out[k] has the flag: an Option.           *)
Flagged(p, k, mask, One(_)) ==
  IF p.st # "ok" THEN p
  ELSE IF Bit(p.out[k], mask) THEN Record(p, One, LAMBDA o : o)
  ELSE [p EXCEPT !.out = Append(@, None)]

(* Mutant: an entry that is not there entirely is cut to what is.          *)
SplitClamped(ptr, n) == n >= 0

(* `split_at(n)` panics if fewer units are left.                           *)
SplitFits(ptr, n) == n \in 0 .. Len(ptr)

(* An entry behind its length, which counts the length field; `short` is   *)
(* what becomes of one below that.  It goes on at the end of the entry,    *)
(* wherever its parser stopped.                                            *)
EntryOr(p, short, Parse(_), Make(_)) ==
  IF p.st # "ok" THEN p
  ELSE IF p.ptr = <<>> THEN Stop(p, "err")
  ELSE LET n == p.ptr[1] - 1
           rest == Tail(p.ptr)
       IN IF p.ptr[1] = 0 THEN Stop(p, short)
          ELSE IF ~SplitFits(rest, n) THEN Stop(p, "panic")
          ELSE LET r == Parse(Start(Upto(rest, n)))
               IN IF r.st # "ok" THEN Stop(p, r.st)
                  ELSE [p EXCEPT !.ptr = Drop(rest, n), !.out = Append(@, Make(r.out))]

(* Entries within a record are checked not to be too short.                *)
Entry(p, Parse(_), Make(_)) == EntryOr(p, "err", Parse, Make)

-----------------------------------------------------------------------------
(* Attributes and RPC methods.                                             *)

AttributesFlag == 4096

NextAttribute(p) ==
  Record(p, LAMBDA a : read_str(read_str(Ints(a, 2), 1), 2),
            LAMBDA o : [name |-> o[3], value |-> o[4]])

parse_attributes(p) == Counted(p, NextAttribute)

(* size, align size, data type, flags, reserved, GUID, length parameter,   *)
(* three lengths.                                                          *)
parse_rpc_method_parameter(p) ==
  Flagged(read_str(read_str(read_str(Ints(p, 10), 8), 9), 10), 4, 64, parse_attributes)

RpcMethodParameter(o) ==
  [name |-> o[11], typ |-> o[12], size |-> o[1], variable_kind |-> o[4] % 4,
   comment |-> o[13], attributes |-> FlattenSeq(o[14])]

NextParameter(p) == Entry(p, parse_rpc_method_parameter, RpcMethodParameter)

(* version, vtable index, return size, align size, reserved, GUID, data    *)
(* type, flags, three lengths, number of parameters.                       *)
parse_rpc_method(p) ==
  Flagged(Times(read_str(read_str(read_str(Ints(p, 12), 9), 10), 11), 12, NextParameter),
          8, 8, parse_attributes)

RpcMethod(o) ==
  [name |-> o[13], return_type |-> o[14], return_size |-> o[3], comment |-> o[15],
   parameters |-> o[16], attributes |-> FlattenSeq(o[17])]

NextMethod(p) == Entry(p, parse_rpc_method, RpcMethod)

parse_method_infos(p) == Counted(p, NextMethod)

-----------------------------------------------------------------------------
(* Enum values: little-endian, as wide as the base type says, or the size  *)
(* for other base types.  (REAL and LREAL, 4 and 5, are not considered.)   *)

Unsigned(raw, w) ==
  FoldLeftDomain(LAMBDA acc, n : acc + raw[n] * ByteMod ^ (n - 1), 0, Upto(raw, w))
Signed(raw, w) ==
  IF 2 * Unsigned(raw, w) < ByteMod ^ w THEN Unsigned(raw, w)
  ELSE Unsigned(raw, w) - ByteMod ^ w

BaseWidth(base_type, size) ==
  CASE base_type \in {16, 17}     -> 1
    [] base_type \in {2, 18}      -> 2
    [] base_type \in {3, 19}      -> 4
    [] base_type \in {20, 21}     -> 8
    [] OTHER                      -> IF size \in {1, 2, 4, 8} THEN size ELSE 0

EnumValue(raw, base_type) ==
  LET w == BaseWidth(base_type, Len(raw))
  IN IF w = 0 THEN -99
     ELSE IF base_type \in {17, 18, 19} \/ (base_type \notin {2, 3, 16, 20, 21} /\ w = 1)
     THEN Unsigned(raw, w)
     ELSE Signed(raw, w)

(* `raw[..w]` panics if the size is below the width of the base type.      *)
NextEnumInfo(p, size, base_type) ==
  Record(p, LAMBDA e : LET r == Raw(read_str(Ints(e, 1), 1), size)
                       IN IF r.st = "ok" /\ size < BaseWidth(base_type, size)
                          THEN Stop(r, "panic") ELSE r,
            LAMBDA o : [name |-> o[2], value |-> EnumValue(o[3], base_type)])

parse_enum_infos(p, size, base_type) ==
  Counted(p, LAMBDA q : NextEnumInfo(q, size, base_type))

-----------------------------------------------------------------------------
(* Types and fields.                                                       *)

(* i32 arithmetic: with overflow checks it panics, without them it wraps.  *)
InI32(n) == n \in (-I32Max - 1) .. I32Max
Wrap(n) == ((n + I32Max + 1) % (2 * I32Max + 2)) - I32Max - 1

ArrayDim(p, checks) ==
  Record(p, LAMBDA q : LET r == Ints(q, 2)
                       IN IF /\ r.st = "ok" /\ checks
                             /\ ~(InI32(r.out[1] + r.out[2]) /\ InI32(r.out[1] + r.out[2] - 1))
                          THEN Stop(r, "panic") ELSE r,
            LAMBDA o : <<o[1], Wrap(o[1] + o[2] - 1)>>)

(* version, 8 unused bytes, size, offset, base type, flags, three lengths, *)
(* array dimensions, sub-items; then the strings and the array bounds.     *)
TypeHeader(p, checks) ==
  LET h == Ints(p, 11)
  IN IF h.st = "ok" /\ h.out[1] # 1 THEN Stop(h, "err")
     ELSE Times(read_str(read_str(read_str(h, 7), 8), 9), 10,
                LAMBDA q : ArrayDim(q, checks))

(* Mutant: the copy mask is not skipped.                                   *)
skip_copy_mask_omitted(p) == Flagged(p, 6, 512, LAMBDA q : Raw(q, 0))

(* As many bytes as the type has.                                          *)
skip_copy_mask(p) == Flagged(p, 6, 512, LAMBDA q : Raw(q, p.out[3]))

(* GUID, copy mask, methods, attributes: the order is that of the flags.   *)
Sections(p) ==
  Flagged(Flagged(skip_copy_mask(Flagged(p, 6, 128, LAMBDA q : Ints(q, 1))),
                  6, 2048, parse_method_infos),
          6, AttributesFlag, parse_attributes)

parse_field(p, checks) == Sections(TypeHeader(p, checks))

Field(o) ==
  [name |-> o[12], typ |-> o[13], comment |-> o[14], size |-> o[3],
   offset |-> IF o[4] = NoOffset THEN None ELSE Some(o[4]),
   array |-> o[15], base_type |-> o[5], flags |-> o[6], attributes |-> o[19]]

NextField(p, checks) == Entry(p, LAMBDA f : parse_field(f, checks), Field)

decode_type_info(p, checks) ==
  LET fields == Times(TypeHeader(p, checks), 11, LAMBDA q : NextField(q, checks))
      rest == Sections(fields)
  IN Flagged(rest, 6, 8192, LAMBDA q : parse_enum_infos(q, rest.out[3], rest.out[5]))

Type(o) ==
  [name |-> o[12], type_name |-> o[13], comment |-> o[14], size |-> o[3],
   array |-> o[15], fields |-> o[16], base_type |-> o[5], flags |-> o[6],
   guid |-> o[17], methods |-> o[19], attributes |-> o[20],
   enum_info |-> o[21]]
=============================================================================

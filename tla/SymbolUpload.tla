---------------------------- MODULE SymbolUpload -----------------------------
(***************************************************************************)
(* Reading the symbol and type tables of a PLC (src/src/symbol.rs):        *)
(* get_symbol_info asks for the sizes of the tables, then for each table,  *)
(* and decodes them; get_type_info_by_name asks for a single type.  The    *)
(* PLC program may change between the requests, and the device may get a   *)
(* unit of a table wrong.                                                  *)
(***************************************************************************)
EXTENDS TypeInfo

CONSTANTS
  Programs,     \* the PLC programs, one after the other: types and symbols
  WrongUnits,   \* what a unit the device gets wrong may read
  BufLen        \* buffer of get_type_info_by_name (4096 bytes)

ASSUME SymbolUploadAssumption == WrongUnits \subseteq Nat /\ BufLen \in Nat \ {0}

VARIABLES
  program,   \* number of the running program
  flaw,      \* the entry the device got wrong, and where: table, entry, unit
  checks,    \* whether the client is built with overflow checks
  phase,     \* what the client does next, or how it ended
  sizes,     \* lengths of the tables, as the device gave them
  read,      \* the program each answer came from: sizes, types, symbols
  data,      \* type_data and symbol_data
  data_ptr,  \* what is left of the table being decoded
  type_map,
  symbols,
  typ        \* the result of get_type_info_by_name

deviceVars == <<program, flaw, checks>>
resultVars == <<data_ptr, type_map, symbols, typ>>
vars == <<deviceVars, phase, sizes, read, data, resultVars>>

-----------------------------------------------------------------------------
(* What the device sends.                                                  *)

Str(s) == s \o <<0>>
List(seq, Enc(_)) == FlattenSeq([k \in DOMAIN seq |-> Enc(seq[k])])
Framed(body) == <<Len(body) + 1>> \o body
When(flags, mask, units) == IF Bit(flags, mask) THEN units ELSE <<>>

Attribute(a) == <<Len(a.name), Len(a.value)>> \o Str(a.name) \o Str(a.value)
Attributes(seq) == <<Len(seq)>> \o List(seq, Attribute)

Parameter(q) ==
  LET flags == q.variable_kind + IF q.attributes = <<>> THEN 0 ELSE 64
  IN Framed(<<q.size, 0, 0, flags, 0, 0, 0, Len(q.name), Len(q.typ), Len(q.comment)>>
            \o Str(q.name) \o Str(q.typ) \o Str(q.comment)
            \o When(flags, 64, Attributes(q.attributes)))

Method(m) ==
  LET flags == IF m.attributes = <<>> THEN 0 ELSE 8
  IN Framed(<<0, 0, m.return_size, 0, 0, 0, 0, flags, Len(m.name), Len(m.return_type),
              Len(m.comment), Len(m.parameters)>>
            \o Str(m.name) \o Str(m.return_type) \o Str(m.comment)
            \o List(m.parameters, Parameter)
            \o When(flags, 8, Attributes(m.attributes)))
Methods(seq) == <<Len(seq)>> \o List(seq, Method)

Digits(n, size) == [k \in 1 .. size |-> (n \div ByteMod ^ (k - 1)) % ByteMod]
EnumInfo(e, size) == <<Len(e.name)>> \o Str(e.name) \o Digits(e.value, size)
EnumInfos(seq, size) == <<Len(seq)>> \o List(seq, LAMBDA e : EnumInfo(e, size))

Bounds(a) == <<a[1], a[2] - a[1] + 1>>

Header(t, unused, offset, type_name, items) ==
  <<1, unused, t.size, offset, t.base_type, t.flags, Len(t.name), Len(type_name),
    Len(t.comment), Len(t.array), items>>
  \o Str(t.name) \o Str(type_name) \o Str(t.comment)
  \o List(t.array, Bounds)

(* GUID, copy mask, methods, attributes.                                   *)
Trailer(flags, size, guid, methods, attributes) ==
  When(flags, 128, guid) \o When(flags, 512, [k \in 1 .. size |-> 1])
  \o When(flags, 2048, methods) \o When(flags, AttributesFlag, attributes)

FieldEntry(f) ==
  Framed(Header(f, 0, IF f.offset = None THEN NoOffset ELSE f.offset[1], f.typ, 0)
         \o Trailer(f.flags, f.size, <<7>>, <<0>>, List(f.attributes, Attributes)))

(* `unused` is the header field whose contents the two formats differ in.  *)
TypeEntry(t, unused) ==
  Framed(Header(t, unused, 0, t.type_name, Len(t.fields))
         \o List(t.fields, FieldEntry)
         \o Trailer(t.flags, t.size, t.guid,
                    List(t.methods, Methods), List(t.attributes, Attributes))
         \o List(t.enum_info, LAMBDA es : EnumInfos(es, t.size)))

(* The comment, and whatever else may follow, is not looked at.            *)
SymbolEntry(s) ==
  Framed(<<s.ix_group, s.ix_offset, s.size, s.base_type, s.flags, 0,
           Len(s.name), Len(s.typ), 1>> \o Str(s.name) \o Str(s.typ) \o Str(<<9>>))

Entries(n, table) ==
  IF table = "types"
  THEN [k \in DOMAIN Programs[n].types |-> TypeEntry(Programs[n].types[k], 3)]
  ELSE [k \in DOMAIN Programs[n].symbols |-> SymbolEntry(Programs[n].symbols[k])]
Table(n, table) == FlattenSeq(Entries(n, table))

(* The programs: types and symbols a device can send, with the flags that  *)
(* tell of the sections they have, and values that fit their fields.       *)

String == {s \in Seq(Int) : Len(s) <= MaxStrLen}
Option(S) == {o \in Seq(S) : Len(o) <= 1}

AttributeRecord == [name : String, value : String]

ParameterRecord ==
  [name : String, typ : String, size : Nat, variable_kind : 0 .. 3, comment : String,
   attributes : Seq(AttributeRecord)]

MethodRecord ==
  [name : String, return_type : String, return_size : Nat, comment : String,
   parameters : Seq(ParameterRecord), attributes : Seq(AttributeRecord)]

(* Lower and upper bound; they and the number of elements are i32.         *)
DimRecord ==
  {a \in Int \X Int : InI32(a[1]) /\ InI32(a[2]) /\ a[2] - a[1] + 1 \in 0 .. I32Max}

FieldRecord ==
  {f \in [name : String, typ : String, comment : String, size : Nat,
          offset : Option(Nat \ {NoOffset}), array : Seq(DimRecord), base_type : Nat,
          flags : Nat, attributes : Option(Seq(AttributeRecord))] :
     Bit(f.flags, AttributesFlag) <=> f.attributes # None}

(* An enum value that the bytes of its type can represent.  REAL and LREAL *)
(* (4 and 5) are left out.                                                 *)
Representable(v, size, base_type) ==
  /\ base_type \notin {4, 5}
  /\ size # 0 /\ size >= BaseWidth(base_type, size)
  /\ Digits(v, size) \in [1 .. size -> 0 .. ByteMod - 1]
  /\ EnumValue(Digits(v, size), base_type) = v

TypeRecord ==
  {t \in [name : String, type_name : String, comment : String, size : Nat,
          array : Seq(DimRecord), fields : Seq(FieldRecord), base_type : Nat, flags : Nat,
          guid : Option(Nat), methods : Option(Seq(MethodRecord)),
          attributes : Option(Seq(AttributeRecord)),
          enum_info : Option(Seq([name : String, value : Int]))] :
     /\ Bit(t.flags, 128) <=> t.guid # None
     /\ Bit(t.flags, 2048) <=> t.methods # None
     /\ Bit(t.flags, AttributesFlag) <=> t.attributes # None
     /\ Bit(t.flags, 8192) <=> t.enum_info # None
     /\ \A es \in ToSet(t.enum_info) : \A e \in ToSet(es) :
          Representable(e.value, t.size, t.base_type)}

SymbolRecord ==
  [name : String, ix_group : Nat, ix_offset : Nat, typ : String, size : Nat,
   base_type : Nat, flags : Nat]

ASSUME ProgramsAssumption ==
  /\ Programs \in Seq([types : Seq(TypeRecord), symbols : Seq(SymbolRecord)])
  /\ Programs # <<>>

NoFlaw == [table |-> "none", entry |-> 0, unit |-> 0]

Init ==
  /\ program = 1
  /\ flaw = NoFlaw
  /\ checks \in BOOLEAN
  /\ phase = "start"
  /\ sizes = [types |-> 0, symbols |-> 0]
  /\ read = [sizes |-> 0, types |-> 0, symbols |-> 0]
  /\ data = [types |-> <<>>, symbols |-> <<>>]
  /\ data_ptr = <<>>
  /\ type_map = <<>>
  /\ symbols = <<>>
  /\ typ = None

Ended == phase \in {"done", "found", "err", "panic"}

(* Another program is loaded while the client is at work.                  *)
OnlineChange ==
  /\ ~Ended
  /\ flaw = NoFlaw
  /\ program < Len(Programs)
  /\ program' = program + 1
  /\ UNCHANGED <<flaw, checks, phase, sizes, read, data, resultVars>>

-----------------------------------------------------------------------------
(* get_symbol_info.                                                        *)

ReadSizes ==
  /\ phase = "start"
  /\ sizes' = [types |-> Len(Table(program, "types")),
               symbols |-> Len(Table(program, "symbols"))]
  /\ read' = [read EXCEPT !.sizes = program]
  /\ phase' = "types"
  /\ UNCHANGED <<deviceVars, data, resultVars>>

(* read_exact of one table.  The device sends what it has, up to the       *)
(* length asked for; less is an error.                                     *)
ReadTable(table, next) ==
  /\ phase = table
  /\ read' = [read EXCEPT ![table] = program]
  /\ \/ /\ flaw' = flaw
        /\ data' = [data EXCEPT ![table] = Upto(Table(program, table), sizes[table])]
     \/ /\ flaw = NoFlaw
        /\ program = 1
        /\ \E k \in DOMAIN Entries(program, table), wrong \in WrongUnits :
             \E unit \in DOMAIN Entries(program, table)[k] :
               /\ flaw' = [table |-> table, entry |-> k, unit |-> unit]
               /\ data' = [data EXCEPT ![table] = FlattenSeq(
                            [Entries(program, table) EXCEPT ![k][unit] = wrong])]
  /\ phase' = IF Len(data'[table]) = sizes[table] THEN next ELSE "err"
  /\ data_ptr' = data'["types"]
  /\ UNCHANGED <<program, checks, sizes, type_map, symbols, typ>>

ReadTypes == ReadTable("types", "symbols")
ReadSymbols == ReadTable("symbols", "decode_types")

(* A request fails.                                                        *)
RequestFails ==
  /\ phase \in {"start", "types", "symbols"}
  /\ phase' = "err"
  /\ UNCHANGED <<deviceVars, sizes, read, data, resultVars>>

(* decode_symbol_info.                                                     *)

(* Mutant: the size of the entry is ignored.                               *)
TypeAtUnsized(ptr) ==
  Record(Start(Tail(ptr)), LAMBDA q : decode_type_info(q, checks), Type)

(* An entry.  A length below that of the length field underflows.          *)
TypeAt(ptr) ==
  EntryOr(Start(ptr), "panic", LAMBDA q : decode_type_info(q, checks), Type)

decode_symbol(p) == read_str(read_str(Ints(p, 9), 7), 8)

Symbol(o) ==
  [name |-> o[10], ix_group |-> o[1], ix_offset |-> o[2], typ |-> o[11],
   size |-> o[3], base_type |-> o[4], flags |-> o[5]]

SymbolAt(ptr) == EntryOr(Start(ptr), "panic", decode_symbol, Symbol)

(* `type_map.insert`: by its name, in place of one that has that name.     *)
insert(map, t) ==
  [name \in DOMAIN map \cup {t.name} |-> IF name = t.name THEN t ELSE map[name]]

DecodeType ==
  /\ phase = "decode_types"
  /\ data_ptr # <<>>
  /\ LET r == TypeAt(data_ptr)
     IN \/ /\ r.st = "ok"
           /\ type_map' = insert(type_map, r.out[1])
           /\ data_ptr' = r.ptr
           /\ UNCHANGED phase
        \/ r.st # "ok" /\ phase' = r.st /\ UNCHANGED <<type_map, data_ptr>>
  /\ UNCHANGED <<deviceVars, sizes, read, data, symbols, typ>>

TypesDecoded ==
  /\ phase = "decode_types"
  /\ data_ptr = <<>>
  /\ phase' = "decode_symbols"
  /\ data_ptr' = data["symbols"]
  /\ UNCHANGED <<deviceVars, sizes, read, data, type_map, symbols, typ>>

DecodeSymbol ==
  /\ phase = "decode_symbols"
  /\ data_ptr # <<>>
  /\ LET r == SymbolAt(data_ptr)
     IN \/ /\ r.st = "ok"
           /\ symbols' = Append(symbols, r.out[1])
           /\ data_ptr' = r.ptr
           /\ UNCHANGED phase
        \/ r.st # "ok" /\ phase' = r.st /\ UNCHANGED <<symbols, data_ptr>>
  /\ UNCHANGED <<deviceVars, sizes, read, data, type_map, typ>>

SymbolsDecoded ==
  /\ phase = "decode_symbols"
  /\ data_ptr = <<>>
  /\ phase' = "done"
  /\ UNCHANGED <<deviceVars, sizes, read, data, resultVars>>

-----------------------------------------------------------------------------
(* get_type_info_by_name.                                                  *)

(* The type in `reply`, of which the device claims n units to be data, its *)
(* body after the first `skip`: `&read_data[..n]` and `&data[4..body_end]` *)
(* panic if the buffer or the entry is shorter.                            *)
LookupAfter(reply, n, skip) ==
  IF n > BufLen THEN Stop(Start(<<>>), "panic")
  ELSE IF n < 1 THEN Stop(Start(<<>>), "err")
  ELSE IF reply[1] < 1 THEN Stop(Start(<<>>), "panic")
  ELSE Record(Start(Drop(Upto(Upto(reply, n), reply[1]), skip)),
              LAMBDA q : decode_type_info(q, checks), Type)

(* Mutant: the length field is taken for a part of the body.               *)
LookupWhole(reply, n) == LookupAfter(reply, n, 0)

Lookup(reply, n) == LookupAfter(reply, n, 1)

(* The type does not exist: an error.  Otherwise its entry, cut if it does *)
(* not fit the buffer, and the length of one or of the other.              *)
GetTypeByName ==
  /\ phase = "start"
  /\ \E k \in DOMAIN Programs[program].types :
       LET entry == TypeEntry(Programs[program].types[k], 5)
           reply == Upto(entry, BufLen)
       IN \E n \in {Len(entry), Len(reply)} :
            LET r == Lookup(reply, n)
            IN /\ read' = [read EXCEPT !.types = k]
               /\ typ' = r.out
               /\ phase' = IF r.st = "ok" THEN "found" ELSE r.st
  /\ UNCHANGED <<deviceVars, sizes, data, data_ptr, type_map, symbols>>

-----------------------------------------------------------------------------

Finished == Ended /\ UNCHANGED vars

Next ==
  \/ OnlineChange
  \/ ReadSizes \/ ReadTypes \/ ReadSymbols \/ RequestFails
  \/ DecodeType \/ TypesDecoded \/ DecodeSymbol \/ SymbolsDecoded
  \/ GetTypeByName
  \/ Finished

Spec == Init /\ [][Next]_vars

-----------------------------------------------------------------------------
(* Properties.                                                             *)

(* An array that ends at i32::MAX overflows `lower + total - 1` half-way.  *)
EndsAtMax(t) ==
  \E a \in ToSet(t.array) \cup UNION {ToSet(f.array) : f \in ToSet(t.fields)} :
    a[2] = I32Max
MayOverflow(n) == checks /\ \E t \in ToSet(Programs[n].types) : EndsAtMax(t)

(* Types by their names: of those with the same name, the last.            *)
TypeMap(types) ==
  [name \in {t.name : t \in ToSet(types)} |->
     types[CHOOSE k \in DOMAIN types :
             types[k].name = name /\ \A j \in k + 1 .. Len(types) : types[j].name # name]]

(* An upload no online change comes between ends, without error or panic,  *)
(* with exactly the tables of the program, whatever sections the types     *)
(* have; only a build with overflow checks panics on an array that ends at *)
(* i32::MAX.                                                               *)
UploadExact ==
  /\ Ended /\ flaw = NoFlaw
  /\ read.symbols # 0
  /\ read.sizes = read.types /\ read.types = read.symbols
  => \/ /\ phase = "done"
        /\ symbols = Programs[read.sizes].symbols
        /\ type_map = TypeMap(Programs[read.sizes].types)
     \/ phase = "panic" /\ MayOverflow(read.sizes)

(* If the program changes between the requests, tables may be cut to the   *)
(* sizes of the other program; but an upload that succeeds never contains  *)
(* an entry made of a part of one.                                         *)
NoPartialEntries ==
  phase = "done" /\ flaw = NoFlaw =>
    /\ IsPrefix(symbols, Programs[read.symbols].symbols)
    /\ \E m \in 0 .. Len(Programs[read.types].types) :
         type_map = TypeMap(Upto(Programs[read.types].types, m))

(* A unit the device gets wrong within an entry, but for the length of the *)
(* entry itself, spoils that entry only: if the upload succeeds, both      *)
(* tables are what they would be had the device sent some other type or    *)
(* symbol in its place, although every nested length and count inside the  *)
(* entry may be off.                                                       *)
FlawContained ==
  phase = "done" /\ flaw # NoFlaw /\ flaw.unit # 1 =>
    LET types == Programs[read.types].types
        syms == Programs[read.symbols].symbols
    IN IF flaw.table = "types"
       THEN /\ symbols = syms
            /\ \E t \in Range(type_map) : type_map = TypeMap([types EXCEPT ![flaw.entry] = t])
       ELSE /\ type_map = TypeMap(types)
            /\ \E s \in ToSet(symbols) : symbols = [syms EXCEPT ![flaw.entry] = s]

(* `got` is the type t, but for strings at the end that are cut.           *)
CutFrom(t, got) ==
  /\ IsPrefix(got.name, t.name)
  /\ IsPrefix(got.type_name, t.type_name)
  /\ IsPrefix(got.comment, t.comment)
  /\ Len(got.attributes) = Len(t.attributes)
  /\ \A k \in DOMAIN t.attributes :
       /\ Len(got.attributes[k]) = Len(t.attributes[k])
       /\ \A j \in DOMAIN t.attributes[k] :
            /\ IsPrefix(got.attributes[k][j].name, t.attributes[k][j].name)
            /\ IsPrefix(got.attributes[k][j].value, t.attributes[k][j].value)
  /\ [got EXCEPT !.name = t.name, !.type_name = t.type_name, !.comment = t.comment,
                 !.attributes = t.attributes] = t

(* A type looked up by name is the same as in the table.  If the entry     *)
(* does not fit the buffer the lookup fails, or panics, or, if nothing but *)
(* strings is missing, yields the type with these cut.                     *)
ByNameAgrees ==
  phase \in {"found", "err", "panic"} /\ read.sizes = 0 /\ read.types # 0 =>
    LET t == Programs[program].types[read.types]
        fits == Len(TypeEntry(t, 5)) <= BufLen
    IN /\ fits => (phase = "found" /\ typ = Some(t)) \/ (phase = "panic" /\ checks /\ EndsAtMax(t))
       /\ phase = "found" => CutFrom(t, typ[1])
=============================================================================

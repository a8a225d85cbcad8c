--------------------------- MODULE MCSymbolUpload ----------------------------
(* Programs for SymbolUpload whose types have every section there is.      *)
EXTENDS SymbolUpload

Plain(name, size, base_type) ==
  [name |-> name, type_name |-> <<4>>, comment |-> <<>>, size |-> size,
   array |-> <<>>, fields |-> <<>>, base_type |-> base_type, flags |-> 1,
   guid |-> None, methods |-> None, attributes |-> None, enum_info |-> None]

PlainField(name, size, offset) ==
  [name |-> name, typ |-> <<5>>, comment |-> <<2>>, size |-> size, offset |-> offset,
   array |-> <<>>, base_type |-> 65, flags |-> 2, attributes |-> None]

SomeAttributes == <<[name |-> <<6>>, value |-> <<>>], [name |-> <<>>, value |-> <<7, 8>>]>>

\* An alias with a GUID and attributes.
Alias == [Plain(<<11, 11>>, 2, 18) EXCEPT
            !.flags = 128 + 4096, !.guid = Some(3), !.attributes = Some(SomeAttributes)]

\* A structure with a copy mask, one field of it elsewhere in memory.
Struct == [Plain(<<12, 12>>, 2, 65) EXCEPT
            !.flags = 512, !.comment = <<2, 2>>,
            !.fields = <<[PlainField(<<1>>, 1, Some(0)) EXCEPT
                            !.flags = 128 + 512 + 2048 + 4096,
                            !.attributes = Some(SomeAttributes),
                            !.array = <<<<-1, 1>>, <<14, 15>>>>],
                         PlainField(<<2>>, 1, None)>>]

\* An enumeration with values of both signs.
Enum(base_type, size) ==
  [Plain(<<13, 13>>, size, base_type) EXCEPT
     !.flags = 8192,
     !.enum_info = Some(<<[name |-> <<1>>, value |-> 2],
                          [name |-> <<>>, value |-> IF base_type = 18 THEN 9 ELSE -1]>>)]

\* A function block with methods.
Block == [Plain(<<14, 14>>, 0, 65) EXCEPT
            !.flags = 2048,
            !.methods = Some(<<[name |-> <<1>>, return_type |-> <<>>, return_size |-> 4,
                                comment |-> <<>>, attributes |-> SomeAttributes,
                                parameters |->
                                  <<[name |-> <<1>>, typ |-> <<4>>, size |-> 2,
                                     variable_kind |-> 3, comment |-> <<>>,
                                     attributes |-> SomeAttributes]>>],
                               [name |-> <<2>>, return_type |-> <<4>>, return_size |-> 0,
                                comment |-> <<3>>, attributes |-> <<>>,
                                parameters |-> <<>>]>>)]

\* A type of which only the end of the comment does not fit the buffer.
Noted == [Plain(<<15>>, 1, 17) EXCEPT !.comment = [k \in 1 .. 25 |-> 2]]

\* A type of which only the end of an attribute does not fit the buffer.
Tagged == [Plain(<<16>>, 1, 17) EXCEPT
             !.flags = 4096,
             !.attributes = Some(SomeAttributes
                                 \o <<[name |-> <<1>>, value |-> [k \in 1 .. 18 |-> 2]]>>)]

Sym(n, t) == [name |-> <<n, n>>, ix_group |-> 4, ix_offset |-> n, typ |-> t,
                size |-> 2, base_type |-> 18, flags |-> 8]

\* The second program has one type and one symbol more than the first, after
\* entries of the same lengths; the third has fewer types, and the symbol table
\* of the first is as long as a part of it that ends inside a string.
SomePrograms ==
  <<[types |-> <<Alias, Enum(18, 2), Struct, Block>>,
     symbols |-> <<Sym(1, <<11>>), Sym(2, <<12>>)>>],
    [types |-> <<Alias, Enum(2, 2), [Struct EXCEPT !.comment = <<3, 3>>],
                 Block, Enum(20, 8), Noted>>,
     symbols |-> <<Sym(3, <<11>>), Sym(4, <<12>>), Sym(5, <<>>)>>],
    [types |-> <<Enum(66, 4), Tagged>>, symbols |-> <<Sym(1, <<1>>), Sym(2, <<1, 2, 3, 1, 2, 3>>)>>]>>
=============================================================================

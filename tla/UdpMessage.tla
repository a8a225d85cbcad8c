----------------------------- MODULE UdpMessage ------------------------------
(***************************************************************************)
(* Messages of the UDP protocol (src/src/udp.rs): Message::new and the     *)
(* add_ methods build one, send_receive sends it and parses the datagram   *)
(* that comes back, the get_ methods look up a tag; add_route, get_netid   *)
(* and get_info make of the reply what they return.  The message modelled  *)
(* is the router's reply, which has the format of a request.               *)
(*                                                                         *)
(* The header counts as two units, the source and the number of items; a   *)
(* tag, a length, a u32, the TwinCAT version and the numbers that begin    *)
(* the OS version count as one; other data is in units of one character.   *)
(* Positions are offsets into the message as in the code, in units.        *)
(***************************************************************************)
EXTENDS Naturals, SequencesExt

CONSTANTS
  Tags,       \* tags used
  Source,     \* the address of the router, as a number
  Strings,    \* what add_bytes and add_str are given: sequences of units
  Numbers,    \* what add_u32 is given
  LenMod,     \* range of the length field (2^16 in the code)
  MaxItems,   \* bound: items in a message
  BufSize     \* size of the receive buffer (576 bytes in the code)

ASSUME ConstantsAssumption ==
  /\ Tags \subseteq Nat
  /\ Source \in Nat
  /\ Strings \subseteq Seq(Nat)
  /\ Numbers \subseteq Nat
  /\ LenMod \in Nat \ {0}
  /\ MaxItems \in Nat
  /\ BufSize \in Nat /\ BufSize >= 2  \* it holds the header

VARIABLES
  added,    \* ghost: what was added to the message, in order
  items,    \* Message.items: tag, start and end of each item
  data,     \* Message.data
  phase,    \* build, parse, parsed; or how it ended: done, failed, panic
  reply,    \* the bytes received
  ptr,      \* how many of them data_ptr is past
  pos,      \* where parse_internal takes the data of the next item to be
  found,    \* the items it found
  answer    \* what add_route and get_info made of it

buildVars == <<added, items, data>>
parseVars == <<reply, ptr, pos, found>>
vars == <<buildVars, phase, parseVars, answer>>

HeaderSize == 2
NoAnswer == [call |-> "none"]
Item(tag, from, to) == [tag |-> tag, from |-> from, to |-> to]

Init ==
  /\ added = <<>>
  /\ items = <<>>
  /\ data = <<Source, 0>>
  /\ phase = "build"
  /\ reply = <<>>
  /\ ptr = 0
  /\ pos = 0
  /\ found = <<>>
  /\ answer = NoAnswer

-----------------------------------------------------------------------------
(* Building.  The item recorded begins before the length field.            *)

Add(tag, kind, value, length, bytes) ==
  /\ phase = "build"
  /\ Len(items) < MaxItems
  /\ LET start == Len(data) + 1
         whole == data \o <<tag, length>> \o bytes
     IN /\ items' = Append(items, Item(tag, start, Len(whole)))
        /\ data' = [whole EXCEPT ![HeaderSize] = Len(items')]
  /\ added' = Append(added, [tag |-> tag, kind |-> kind, value |-> value])
  /\ UNCHANGED <<phase, parseVars, answer>>

add_bytes(tag, s) == Add(tag, "bytes", s, Len(s) % LenMod, s)

(* With a null terminator.                                                 *)
add_str(tag, s) == Add(tag, "str", s, ((Len(s) % LenMod) + 1) % LenMod, s \o <<0>>)

add_u32(tag, n) == Add(tag, "u32", n, 1, <<n>>)

-----------------------------------------------------------------------------
(* send_receive and parse_internal.                                        *)

(* The message reaches a receiver, what its buffer does not hold cut off.  *)
Receive ==
  /\ phase = "build"
  /\ reply' = SubSeq(data, 1, IF Len(data) <= BufSize THEN Len(data) ELSE BufSize)
  /\ phase' = "parse"
  /\ ptr' = HeaderSize
  /\ pos' = HeaderSize + 2
  /\ found' = <<>>
  /\ UNCHANGED <<buildVars, answer>>

Fail(how) ==
  /\ phase' = how
  /\ UNCHANGED <<buildVars, parseVars, answer>>

(* The receive times out, or the header is cut or is not the expected one: *)
(* magic, invoke ID, service with the reply bit.                           *)
ReceiveFails == phase = "build" /\ Fail("failed")

Left == Len(reply) - ptr

(* One turn of the loop; `missing` is what becomes of a message that ends  *)
(* before the data of the item.                                            *)
ParseItemOr(missing) ==
  /\ phase = "parse"
  /\ Left > 0
  /\ \/ Left = 1 /\ Fail("failed")
     \/ /\ Left > 1
        /\ LET len == reply[ptr + 2]
           IN \/ /\ len <= Left - 2
                 /\ found' = Append(found, Item(reply[ptr + 1], pos, pos + len))
                 /\ pos' = pos + len + 2
                 /\ ptr' = ptr + 2 + len
                 /\ UNCHANGED <<buildVars, phase, reply, answer>>
              \/ len > Left - 2 /\ missing

(* Mutant: the slice is cut to what is there.                              *)
ParseItemClamped ==
  ParseItemOr(/\ found' = Append(found, Item(reply[ptr + 1], pos, Len(reply)))
              /\ ptr' = Len(reply)
              /\ UNCHANGED <<buildVars, phase, reply, pos, answer>>)

(* `&data_ptr[len..]` panics if the item is not there entirely.            *)
ParseItem == ParseItemOr(Fail("panic"))

(* No tag can be read any more.                                            *)
ParseEnd == phase = "parse" /\ Left = 0 /\ Fail("parsed")

-----------------------------------------------------------------------------
(* map_tag and the get_ methods, for a message with items `its` and bytes  *)
(* `bytes`: the first item with the tag counts.                            *)

FirstWith(s, tag) == s[SelectInSeq(s, LAMBDA e : e.tag = tag)]
GetBytes(its, bytes, tag) ==
  LET it == FirstWith(its, tag) IN SubSeq(bytes, it.from + 1, it.to)
Get(kind, its, bytes, tag) ==
  LET b == GetBytes(its, bytes, tag)
  IN CASE kind = "bytes" -> b
       [] kind = "str"   -> Front(b)
       [] kind = "u32"   -> b[1]

-----------------------------------------------------------------------------

(* add_route, get_netid and get_info, from the parsed reply on.            *)

Status == 1
TCVersion == 3
OSVersion == 4
ComputerName == 5

Has(tag) == \E k \in DOMAIN found : found[k].tag = tag
BytesOf(tag) == GetBytes(found, reply, tag)

Answer(a) ==
  /\ phase = "parsed"
  /\ answer' = a
  /\ phase' = "done"
  /\ UNCHANGED <<buildVars, parseVars>>

(* Mutant: a reply without a status counts as success.                     *)
RouteOkLenient == ~Has(Status) \/ Head(BytesOf(Status) \o <<0>>) = 0

(* `Some(0)`: there is a status, it can be read and it is zero.            *)
RouteOk == Has(Status) /\ BytesOf(Status) # <<>> /\ Head(BytesOf(Status)) = 0

add_route == Answer([call |-> "route", ok |-> RouteOk])

(* Too short a version counts as none; the OS version begins with its      *)
(* numbers, the platform the last of them, and goes on with a text up to   *)
(* a NUL, which one platform does not have.                                *)
TwinCatVersion ==
  IF Has(TCVersion) /\ BytesOf(TCVersion) # <<>> THEN Head(BytesOf(TCVersion)) ELSE 0

Bsd == 0
UpToNul(s) == SubSeq(s, 1, SelectInSeq(s \o <<0>>, LAMBDA c : c = 0) - 1)
OsVersion ==
  LET b == BytesOf(OSVersion)
  IN CASE ~Has(OSVersion) -> [platform |-> "No OS info", text |-> <<>>]
       [] Has(OSVersion) /\ Len(b) < 2 ->
            [platform |-> "Unknown OS info format", text |-> <<>>]
       [] Has(OSVersion) /\ Len(b) >= 2 ->
            [platform |-> b[1], text |-> IF b[1] = Bsd THEN <<>> ELSE UpToNul(Tail(b))]

(* The host name, and the fingerprint alike, or none for the default:      *)
(* `b.len() - 1` underflows if there is not even the terminator.           *)
Unnamed == Has(ComputerName) /\ BytesOf(ComputerName) = <<>>
Hostname ==
  IF Has(ComputerName) THEN {Get("str", found, reply, ComputerName)} ELSE {}

get_info ==
  /\ ~Unnamed
  /\ Answer([call |-> "info", netid |-> reply[1], hostname |-> Hostname,
             twincat |-> TwinCatVersion, os |-> OsVersion])

get_info_panics == phase = "parsed" /\ Unnamed /\ Fail("panic")

-----------------------------------------------------------------------------

Finished == phase \in {"done", "failed", "panic"} /\ UNCHANGED vars

Next ==
  \/ \E tag \in Tags, s \in Strings : add_bytes(tag, s) \/ add_str(tag, s)
  \/ \E tag \in Tags, n \in Numbers : add_u32(tag, n)
  \/ Receive
  \/ ReceiveFails
  \/ ParseItem
  \/ ParseEnd
  \/ add_route
  \/ get_info
  \/ get_info_panics
  \/ Finished

Spec == Init /\ [][Next]_vars

-----------------------------------------------------------------------------
(* Properties.                                                             *)

(* The lengths fit the length field.                                       *)
Fits ==
  \A k \in DOMAIN added :
    added[k].kind # "u32" =>
      Len(added[k].value) + (IF added[k].kind = "str" THEN 1 ELSE 0) < LenMod

(* A message that parses yields what its sender added, tag by tag, and if  *)
(* the datagram was cut to the receive buffer, a prefix of it in which no  *)
(* item is incomplete.                                                     *)
ParsedIsSent ==
  phase = "parsed" /\ Fits =>
    /\ Len(data) <= BufSize => Len(found) = Len(added)
    /\ \A tag \in {found[k].tag : k \in DOMAIN found} :
         LET e == FirstWith(added, tag) IN Get(e.kind, found, reply, tag) = e.value

(* What the router added first under a tag, as the units of its item.      *)
Sent(tag) ==
  LET e == FirstWith(added, tag)
  IN CASE e.kind = "bytes" -> e.value
       [] e.kind = "str"   -> e.value \o <<0>>
       [] e.kind = "u32"   -> <<e.value>>
Added(tag) == \E k \in DOMAIN added : added[k].tag = tag

(* add_route reports success exactly if the first status the router sent   *)
(* is zero; get_info reports the name and the TwinCAT version the router   *)
(* sent first, a default only in place of what it did not send or what     *)
(* the receive buffer cut off, and no OS text beyond its terminator.       *)
AnswerIsSent ==
  LET whole == Len(data) <= BufSize
      tagged(tag) == Added(tag) /\ Sent(tag) # <<>>
  IN Fits =>
     /\ answer.call = "route" =>
          /\ answer.ok => tagged(Status) /\ Sent(Status)[1] = 0
          /\ whole /\ tagged(Status) /\ Sent(Status)[1] = 0 => answer.ok
     /\ answer.call = "info" =>
          /\ answer.netid = Source
          /\ \/ answer.hostname = {} /\ (whole => ~Added(ComputerName))
             \/ tagged(ComputerName) /\ answer.hostname = {Front(Sent(ComputerName))}
          /\ \/ answer.twincat = 0 /\ (whole => ~tagged(TCVersion) \/ Sent(TCVersion)[1] = 0)
             \/ tagged(TCVersion) /\ answer.twincat = Sent(TCVersion)[1]
          /\ answer.os.text # <<>> =>
               /\ tagged(OSVersion)
               /\ IsPrefix(<<answer.os.platform>> \o answer.os.text, Sent(OSVersion))
               /\ ~Contains(answer.os.text, 0)
=============================================================================

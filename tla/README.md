# ads-rs: specifications, checks and proofs

TLA+ modules for the `ads` crate, a client for Beckhoff's ADS protocol: a
program opens a `Client` to an ADS router or PLC, and any number of its threads
share it. Source lines below are those of the repository's `src/client.rs` and
its siblings (`src/src/...` in `PROJECT.json`).

- [The system](#the-system)
- [Modules](#modules)
- [Runs](#runs)
- [Fairness](#fairness)
- [Proofs](#proofs)
- [What the checks found](#what-the-checks-found)
- [Not modelled](#not-modelled)
- [Plan](#plan)

## The system

| Component | State | Operations | Interacts with |
|---|---|---|---|
| `Client`, requests | `invoke_id` (atomic), `pending` (mutex, map from ID to the sender of a oneshot channel), socket (mutex) | `communicate`: take an ID, register, write, wait, discard, check and distribute the reply | reader thread (map, channel), peer (socket) |
| `ClientReceiver`, reader thread | its duplicate of the socket handle, a buffer | `reader_work` per packet; then shut the socket, tell every pending request | callers (map, channels), user (notification channel) |
| `Client`, drop | | delete notification handles, close the port, shut the socket, join the reader | all of the above |
| `Client::new` | source address, whether a port was opened | connect with timeouts, find or request a source address, start the reader | router |
| `Device`, single requests | | read, write, write_read, state, info | `communicate` |
| `Device`, sum-up requests | the callers' request structs | `read_multi`, `write_multi`, `write_read_multi` and `fixup_write_read_return_buffers` | `communicate`'s distribution loop |
| `Device`, notifications | `notif_handles` (mutex, set) | `add_`/`delete_notification(_multi)` | `communicate`, drop |
| `Notification`, `SampleIter` | message bytes, cursor | parse once in the reader, iterate later elsewhere | reader, user |
| UDP `Message` | bytes and index of items | build, exchange, parse, look up | router discovery |
| `TaskInfoReader` | validated layout, generation of the metadata it came from | build from metadata, `read` | `Device`, the user's metadata cache |
| Symbols and types | tables read, result so far | upload sizes and tables, decode; look a type up by name | `Device` |
| `File`, symbol `Handle`, `listdir` | a handle of the device | acquire, use, release on drop; browse | `Device`, drop |
| Strings, addresses | none | convert, parse, format | users of the crate |

What is hard in it:

- *Concurrency.* A call of `communicate` touches shared state four times (ID,
  map, socket, channel) under three different locks; the reader removes and
  sends under the map's lock, shuts the socket without it, and drains. The set
  of notification handles is updated after the request it belongs to.
- *Timeouts and failure.* A reply may arrive as its request times out, or
  afterwards; a write may fail half way; the peer may repeat or invent replies,
  close the connection, or send packets the reader gives up on or panics at.
  What a lost reply hid on the device (a notification, a file, a port) nobody
  can release.
- *Counting.* The ID counter wraps; packets have to be found in a stream by two
  length fields; sum-up data has to be moved between buffers in place; two
  walks over the same message must agree; a UDP item may reach past the
  receive buffer; type records nest entries, counts and optional sections.

What makes each part correct:

- a reply reaches the request it answers and no other; every call returns;
  nobody waits on a channel that nobody will write to; notifications are
  readable before the reply that follows them; drop terminates (`AdsClient`);
- seen by its callers, all this is a far simpler object (`AdsCalls`);
- packets are found where they begin, however TCP cuts the stream, and a port
  obtained from the router is given back (`Framing`);
- a notification that exists on the device is deleted at the latest by the
  drop of the `Client` (`NotifHandles`); a file or symbol handle is its owner's
  as long as the object exists, and released with it (`DeviceHandles`);
- each request of a sum-up gets its own result and data (`SumUp`);
- iterating over an accepted notification cannot panic, and yields what the
  device sent (`NotifStream`);
- a parsed UDP message holds what was sent, and so does what is made of it
  (`UdpMessage`);
- an upload decodes to the symbols and types the device has, never to parts of
  entries (`TypeInfo`, `SymbolUpload`);
- a task snapshot that is used was decoded with the layout that was in force
  when it was read (`TaskInfo`).

`PROJECT.json` lists the places where this could go wrong ("hazards") with the
properties that would notice.

## Modules

### `AdsClient`: requests, reader thread, drop, peer

One action per step of `communicate` (lines 316-484) between two accesses to
shared state, for each thread in `Callers`:

| `pc` | Action | Code |
|---|---|---|
| `idle` | `FetchId` | `invoke_id.fetch_add(1)`, the new channel |
| `insert` | `TooLong`, `InsertPending` | payload does not fit 32 bits; `insert_pending_request` |
| `write` | `WriteOk`, `WriteFails` | `write_all` under the socket lock, its `?` |
| `wait` | `RecvReply`, `RecvFailed`, `RecvTimeout` | `recv` / `recv_timeout` and the checks of a reply |
| `discard` | `Discard` | `discard_pending_request` and the early return |

The reader (lines 489-657) takes one packet per action, distinguished by what
`reader_work` does with it: `ReadIgnored`, `ReadNotification`,
`ReadTinyNotification`, `ReadInvalid`, `ReadReply`, `ReadError`; then
`ReaderShutdown` and `Drain`. `DropBegin`, `DropShutdown` and `DropJoin` are
`Drop for Client`. `PeerAnswers`, `PeerUnsolicited` and `PeerCloses` are the
other end, which is not in the crate; what it may do is given by `PeerKinds`
and `Bodies`.

Abstractions: a oneshot channel is what it holds (`Chan`); a packet is its class,
its ID and what the checks make of it (`good`, `reject`: one of the checks
returns an error, `runt`: shorter than the result field). Ghosts: `req`
and `ans` number the requests so that a reply can be compared with the request
it answers even after the ID counter wrapped; `sent` and `seen` count the
notifications sent. After a write that failed half way (`torn`) the peer takes
later bytes for the rest of that frame.

### `AdsCalls`: what `communicate` promises

Threads, calls and answers, without IDs, maps, channels and sockets. A call is
settled at most once, only by an answer to this call and only while the
connection is up; it returns Ok only if it was answered; the connection goes
down once. `AdsClient` maps its state to it (`callState`, `answersUnderWay`,
`rstate = "reading"`) and states the implementation as `ImplementsAdsCalls`.

### `Framing`: connecting, and packets in a stream of bytes

`Connect`, `PortReply` and their failures are `Client::new` (lines 198-279) with
each of the three `Source`s; `ReadTcpHeader`, `Discard`, `ReadAmsHeader`,
`ReadPayload` and `ReadError` the `read_exact` calls of `reader_work`
(lines 535-598); `DropBegin` gives the port back, which may fail unnoticed (ghost
`close_failed`), and shuts the socket. The peer
opens a port or refuses to, by a reply of full length or a shorter one
(`RouterReplies`), sends packets whose kind, destination and two lengths are chosen
independently (`Shapes`), and `Arrive` delivers them unit by unit. What the
reader does with a packet for us is `AdsClient`'s; here it is `dispatched`.
The header fields nothing here depends on are one unit, which holds the number
of the packet as a ghost.

### `NotifHandles`: adding and deleting notifications

Threads call `add_notification`, `delete_notification` and the multi variants;
the request (`DeviceAdds`, `DeviceDeletes`), the arrival of its reply or the
error (`ReplyArrives`, `CommunicateFails`), and each update of the set
(`Insert`, `Remove`, one lock each) are separate steps. The device may refuse any
part of a batch; a delete it refused may be tried again. `DropBegin` takes the
set, `DropDeletes` sends one delete per handle and ignores the result. Whether
the device gives out a handle again after it was deleted is a constant.

### `DeviceHandles`: files and symbol handles beside them

Extends `NotifHandles` by what else a thread keeps on the device. `File`
(`file.rs`) and `Handle` (`symbol.rs`) have the same life: `Open`, `Use`,
`DropObject`, each a request that the device takes in the order sent and
executes or refuses (`DeviceStep`, `Outcomes`), and a call that returns what the
device said (`Returns`) or fails at any moment (`Fails`), also with its request
still on the way. A release that is not even sent, because `communicate` fails
before or in `write_all`, is `DropUnsent`; both `Drop`s ignore the result, so the
object is gone and the handle stays. (An open or a use that is not sent changes
nothing. A request lost with the connection after its call has failed has the
effect of one refused.) The ghost `failed` counts the opens that ended in Err
without an answer though sent, and the closes that were not sent, were refused or
ended in Err otherwise: each may leave one handle on the device, and nothing
else does. `Listdir`, `ListEntry` and
`ListEnds` are the loop of `listdir`. Both components meet in the threads, which
are in one call at a time, and in the drop of the `Client`, which the objects
borrow: it begins when none of them is left (`NotifStep`). `OwnershipInv` and
`ReleaseInv` are why `HeldIsOpen` and `ObjectsReleased` hold: who owns which
handle, counting the requests still on their way.

### `SumUp`: single requests, and several in one packet

`Serve` and `Receive` are the device and the transport: any result and
length per request (up to one more than asked for), the reply complete or cut
anywhere. `read` and `write_read` are requests with one buffer; `Compare` is the
check of the `_exact` variants. `Distribute` is the loop of `communicate` over the output buffers
(lines 456-475), one buffer per step; `Scan`, `Select` and `Copy` are the loops of
`fixup_write_read_return_buffers` (lines 1496-1547). Data bytes carry the
request and position they belong to, so that a byte in the wrong place shows.
The length field and each entry of the result list count as one unit: they are
cut between units only.

### `NotifStream`: notification messages

`Parse*` are the two loops of `Notification::new`, `Next*` those of
`SampleIter::next`, whose recursive call is one more step. Messages are either
encoded by a device (`Encode`, the reference for `Delivered`) or arbitrary. Each
integer field and each data byte counts as one unit, so a cut inside an
integer is a cut before it.

### `UdpMessage`: tagged messages

`add_bytes`, `add_str` and `add_u32` build, `Receive` brings the message through
a buffer of limited size, `ParseItem` is one turn of `parse_internal`, `Get`
looks a tag up; `add_route` and `get_info` are what these functions make of the
reply (`get_netid` is the field `netid`). Source, number of items, tag, length,
u32 and the numbers of a version count as one unit; text is taken to be valid
UTF-8. The item
recorded by the `add_` methods begins before the length field, the one found by
the parser after it, as in the code.

### `TaskInfo`: task telemetry

Threads keep copies of a `TaskInfoReader` and sample: `read`'s checks
(`Valid`, `Invalidated`), the read of the task array and its decoding
(`ReadTasks`), the read of the task count, whose failure leaves the tasks
available (`ReadCount`). `FromEntryType`, `NewAccepts` and `WithAppInfoAccepts`
are the validation in the constructors. The metadata cache is the user's; the
actions `Poll*`, `Reconnect`, `UploadTypes`, `Check*` do what the documentation of
`TaskInfoReader` (lines 191-208) demands of it, so `KeptIsCurrent` shows that
this contract, with the generation check in `read`, is sufficient.
The target may change its symbols between any two requests. Units of memory
carry the state of the target, slot and offset they are from; the text of a
name and the conversion of ticks are left out.

### `TypeInfo` and `SymbolUpload`: symbols and types

`TypeInfo` is the decoder of `symbol.rs` (lines 298-631) as operators: small
parsers (`Ints`, `Raw`, `read_str`, `Times`, `Entry`, `Flagged`) that take what is
left of the input and the values read so far, and the code's functions
composed of them. A parser ends `ok`, `err` or `panic` (`split_at`, a slice, an
overflow in a build with overflow checks). An integer field, a GUID and a byte
count as one unit, so a length field, which counts itself, counts one.

`SymbolUpload` is `get_symbol_info` (three requests, then the two decoding
loops, one entry per step) and `get_type_info_by_name`. The device encodes the
program it runs (`TypeEntry`, `SymbolEntry`: the reference the decoder is compared
with), may change it between the requests, and may get any unit of a table
wrong. `TypeRecord`, `SymbolRecord` and the sets they are made of say what a
program can have: the flags of a type tell which sections follow, and its
values fit their fields (strings the length field, bounds an `i32`, enum values
the bytes of the type). `insert` is that of a hash map, and `TypeMap` what a list of
types is as such a map. `CutFrom` says how far a type that does not fit the buffer
of `get_type_info_by_name` may differ from the one in the PLC and still be returned
as Ok: only in strings that the end of the buffer cuts.

### Proof modules

`AdsClient_proofs`, `DeviceHandles_proofs` (which is about `NotifHandles` too),
`Framing_proofs`, `SumUp_proofs`, `NotifStream_proofs`, `TaskInfo_proofs`,
`UdpMessage_proofs` and `SymbolUpload_proofs` each extend the module they are
about; see [Proofs](#proofs).

### MC modules

`MCAdsClient` and `MCDeviceHandles` (symmetry), `MCFraming`, `MCNotifStream`,
`MCUdpMessage`, `MCTaskInfo` and `MCSymbolUpload` (values a cfg cannot write)
instantiate the modules for TLC; `SumUp` and, for `notif_reuse`, `NotifHandles` are
checked directly. Definitions commented "Mutant" are plausible mistakes in the
code; each property is violated if one of them takes the place of the
definition that follows it (`PROJECT.json`, "mutants").

## Runs

| Run | Checks | Shows |
|---|---|---|
| `client_calls` | `ReplyAnswersRequest`, `PairingInv`, `StreamInv`, `OwnIdsAccepted`, `NotificationsPrecedeReply`, `EveryRequestReturns`, `DropTerminates` | Without timeouts and with a peer that answers what it gets, once, or closes, or sends nonsense: replies go to their requests, the reader never refuses an ID it was sent, notifications come first, calls and drop end. |
| `client_returns` | `TypeOK`, `NoStrandedCaller`, `SettleInv`, `EveryRequestReturns`, `ImplementsAdsCalls` | With timeouts, half-sent requests, duplicate and invented replies and a reader that panics: no caller is left behind when the reader has ended, every call returns, and callers see `AdsCalls`. |
| `client_idle` | `ReadTimeoutNeedsRequest` (violated) | A silent connection is shut down by the reply timeout. |
| `sumup` | `OwnData`, `CopyInBounds`, `Terminates` | Single requests and all mixes of three: right data from a complete reply, no slice out of bounds for any reply, and the loops end. |
| `sumup_short` | `EnsuredWasWritten` (violated) | A cut reply makes `ensure` report a write that failed as done. |
| `handles` | `DroppedMeansDeleted`, `TrackingInv`, `HeldIsOpen`, `OwnershipInv`, `ObjectsReleased`, `ReleaseInv`, `ListedWhole` | Notifications, files, symbol handles and listings of two threads, with requests refused, not sent or failing on their way: the drop leaves only notifications an error hid, no object names another's handle, the device keeps no handle but for a failed open or close, no list is partial. |
| `notif_reuse` | `DroppedMeansDeleted` (violated) | With handles given out again, a delete can take another thread's new handle out of the set. |
| `notif_stream` | `Delivered`, `IterationSafe`, `NothingLeft` | Every message of up to 9 units, and every encoded one of two stamps with two samples. |
| `udp_parse` | `ParsedIsSent`, `AnswerIsSent` | Every message of up to three items, through a buffer it may not fit in: the items found and what `add_route` and `get_info` return are what was sent. |
| `task_info` | `KeptIsCurrent`, `AcceptedDecodes` | Two sampling threads, a change of symbols anywhere, failing checks, reconnects: no snapshot in use mixes layouts or states. What the constructors accept, at and around each of their limits, can be decoded. |
| `symbols` | `UploadExact`, `NoPartialEntries`, `FlawContained`, `ByNameAgrees` | Types with every section, fields, methods, enum values; online changes between any two requests, or one wrong unit anywhere: exact when undisturbed, whole entries otherwise, a flaw stays in its entry, both ways to a type agree but for strings the lookup buffer cuts. |
| `framing` | `DispatchedInOrder`, `EverythingRead`, `MalformedAborts`, `PortGivenBack` | Two packets of eleven shapes, cut anywhere: packets for us in order with their own payload and none skipped, malformed ones end the connection, the port is given back unless that message cannot be written. |

*Bounds.* Two callers: the races are between a caller and the reader, and
between two callers over one ID or over the socket; a third caller adds no new
pair. Three requests let one caller call again while another's first call is
under way, so that a late reply meets a later request (`client_returns`, with
duplicates and torn writes, has two). (IDs start at 1 and 0 is used after the
wrap, as in the code.) A counter that wraps onto IDs still registered is left
to the theorems, which hold for any number of IDs. Two unsolicited packets put
a notification before and after a reply, or a duplicate before a packet that
ends the reader. Three sum-up requests of up to two units: the data of the
third can lie in both others, begin in the middle of one, or overlap its own
place. In `handles`, two notifications in batches of up to two,
two handles of the device for two threads, two failed opens or closes and two
requests on the way: the close of a call that failed can precede another
thread's open that gets the same handle, and one handle or both can be left
behind, by an unsent and a refused release for instance. (The properties
of this run are proved for any number.) Nine units are the smallest message with two stamps, two samples and
data. In `udp_parse`, `BufSize = 11` cuts messages at every position within an
item, and `LenMod = 4` makes lengths meet the limit of the length field. In
`task_info`, one change of symbols is enough for a reader, the types or a
version answer to be out of date, two generations let a version check fail, and a
reader be invalidated, after one was established, and the metadata lie on both
sides of each check (`MCTaskInfo`). In `framing`, the second packet shows where the reader
takes the first to end, and the shapes include each length below, at and above
what its other length says. In `symbols`, the later programs have tables of
other lengths, and wrong units are zero, small ones that pass for a length or
a count, and one beyond every length (`MCSymbolUpload`).

## Fairness

`LiveSpec` asks for weak fairness of each caller's steps inside `communicate`,
of the reader's steps, and of the remaining steps of a drop: threads are
scheduled, the locks are `std::sync::Mutex`es held for a map operation or a
write, and a timeout that was set expires. Beginning a call or a drop is up to
the user, and nothing is asked of the peer, except in `client_calls`, whose
`AnsweringPeerSpec` adds that each request received is answered in the end:
without timeouts the code has no other way to return, and the documentation of
`Timeouts` says so. A peer that stops reading blocks `write_all` while the
socket lock is held; weak fairness of the write assumes that it reads or that a
write timeout is set. A write that blocks is not modelled, so
`EveryRequestReturns` says nothing about one.

`client_calls` has no write timeout for a reason: a write that timed out
half way garbles the next thread's request, and without a *read* timeout that
thread then waits for an answer that never comes. Likewise a notification too
short for its length field ends the reader by a panic, after which registered
requests only return by their timeout; `client_returns` has these
with a read timeout.

`Framing` asks for weak fairness of the reader, of the exchange for a port, of the
join in the drop, and of TCP's delivery; nothing is asked of the peer. A read
timeout is a constant choice of the run's initial states: where a property
needs one, it says so.

## Proofs

The `_proofs` modules are checked by TLAPS, for every value of the constants
that satisfies the `ASSUME`s of the modules they extend. Those say that bounds
are natural numbers and:

- `AdsClient`: there are at least two IDs; any set of callers, any peer;
- `NotifHandles`, `DeviceHandles`: batches are not empty, no thread is called
  "free" (the mark of a handle nobody owns), and the device's directory is a
  chain: from the first offset each entry names the next (`DirectoryAssumption`;
  entries are named by their position);
- `Framing`: lengths are natural numbers, and the port asked for is none of the
  other addresses;
- `SumUp`: there is at least one request;
- `NotifStream`, `UdpMessage`: payloads are sequences of numbers, and the receive
  buffer holds at least the header (it has 576 bytes);
- `TaskInfo`: sizes are natural numbers and array bounds are in the range of
  their integer type, in any metadata;
- `TypeInfo`, `SymbolUpload`: a byte has at least two values; there is at least one
  program, and all are made of such records as above (`ProgramsAssumption`): any
  number of types with any sections, fields, methods and parameters, under any
  names; the wrong units and the buffer's length are any numbers, the latter
  not 0.

| Theorem | States | Condition | Inductive invariant |
|---|---|---|---|
| *`AdsClient_proofs`* | | | |
| `TypeCorrect` | `[]TypeOK` | | `Typed`: `TypeOK` and every caller inside `communicate` has a request number. Without it the frame a caller writes would not be known to be a request. |
| `Settlement`, `NoneStranded` | `[]SettleInv`, `[]NoStrandedCaller` | | `SettleInv`: a caller between registration and answer whose channel is empty is still the one registered under its ID, and the socket is shut from the drain on. So the drain reaches all who wait, and whoever comes later cannot write. |
| `Pairing`, `RepliesPaired` | `[]PairingInv`, `[]ReplyAnswersRequest` | `MaxRequests < IdMod` | `PairingInv`: until the counter wraps, the ID is the request's number in the map, on the wire and in the replies. |
| `StreamOrder`, `NotificationsFirst` | `[]StreamInv`, `[]NotificationsPrecedeReply` | | `StreamInv`: from the reader's count along the stream to the peer's count, no packet claims more notifications before it than there are. |
| `Implementation` | `ImplementsAdsCalls` | `MaxRequests < IdMod` | `RegInv`, with `PairingInv`: calls have distinct numbers, and a call that is not registered yet, or settled, is not in the map. |
| `OwnIdsKnown` | `[]OwnIdsAccepted` | `MaxRequests < IdMod`, `Honest` | `TrafficInv`: an ID is at one place, in the peer's hands or in the stream, once. `KnownInv`: while the reader reads, such an ID is in the map. |
| *`DeviceHandles_proofs`* | | | |
| `Tracking`, `DropDeletesAll` | `[]TrackingInv`, `[]DroppedMeansDeleted` | `~Reuse` | `TrackingInv`: what the device has is in the set, about to be inserted, with the drop, or hidden by an error; and who is about to remove a handle is the last to know it. `notif_reuse` shows that the condition is needed. |
| `NotificationsApart` | `HandlesSpec => Spec` | | none: a step of a file or symbol handle is a stutter of `NotifHandles`. |
| `DropDeletesAllBeside` | `[](TrackingInv /\ DroppedMeansDeleted)` | `~Reuse` | from the former |
| `Ownership`, `HeldStaysOpen` | `[]OwnershipInv`, `[]HeldIsOpen` | | `OwnershipInv`: a held handle is open for who holds it; a close on its way names a handle open for its sender and, if its call has failed, one the sender does not hold; no two closes name the same. So the late close of a call that failed cannot hit a handle given out again. |
| `Releases`, `AllReleased` | `[]ReleaseInv`, `[]ObjectsReleased` | | `ReleaseInv`: handles nobody holds and opens nobody awaits are together no more than `failed`, the opens sent that ended in Err without an answer and the closes that were not sent, were refused or ended in Err. |
| `ListsAreWhole` | `[]ListedWhole` | | `ListInv`: the list so far is the entries up to the offset. |
| *`Framing_proofs`* | | | |
| `PortReturned` | `PortGivenBack` | | `PortInv`: a live `Client` that has not opened a port has none. |
| `HandedOnInOrder` | `[]DispatchedInOrder` | | `FrameInv`: for some marks, one per packet sent, what is still to be read, arrived or not, is the rest of the packet begun followed by the packets after it, and the reader's state says where in the packet it is. |
| *`SumUp_proofs`* | | | |
| `FixupInBounds` | `[]CopyInBounds` | | `BoundsInv`: the offsets of a request are the sums of the lengths, asked for and returned, before it; the second never exceeds the first; and the piece being copied ends where its request's data not yet copied ends. |
| `EveryoneOwnData` | `[]OwnData` | | `OwnInv`: with the partial sums of the lengths as rigid witnesses, every unit of the data is where it was in the packed data, or at its final place; what is not final yet has not been overwritten. |
| *`NotifStream_proofs`* | | | |
| `SafeIteration`, `AllBytesRead` | `[]IterationSafe`, `[]NothingLeft` | | `WalkInv`: there is a set of places that holds the first and, with each place but the last, the one after it, and whatever is read there is within the message; the parser is at the last, and after it has accepted, the iterator is in the set. So the iterator only meets what the parser has checked. |
| `DeliveredWhole` | `[]Delivered` | | `DeviceInv`: parser and iterator stand between two samples or stamps of the encoded message, and what was returned are the samples before that. |
| *`TaskInfo_proofs`* | | | |
| `Decodes` | `[]AcceptedDecodes` | | `DecodeInv`: every reader there is was accepted by the constructors (`Sound`). |
| `KeptCurrent` | `[]KeptIsCurrent` | | `VersionInv` and `CurrentInv`: if the version of the cache is that of the target, the cached reader is of the current metadata, and so are all samples under way with a reader of the current generation; a sample whose second check agreed with the cache was taken in one state. |
| *`UdpMessage_proofs`* | | | |
| `ParsedSent`, `AnswerSent` | `[]ParsedIsSent`, `[]AnswerIsSent` | | `UdpInv`: the items recorded by the `add_` methods say where each entry lies in the message (`LaidOut`), what was received is a prefix (`Received`), and what the parser found are the first entries, two units further on (`Walked`). |
| *`SymbolUpload_proofs`* | | | |
| `Uploading` | `[]UploadInv` | | `UploadInv`: which answers there are in which phase (`Answers`); what is left of the table being decoded is the entries not decoded yet, less what was cut off at the end, and what was decoded are the records before them, but for the entry with the flaw (`Decoded`); an undisturbed upload fails only by overflow (`FailedFor`). |
| `ExactUpload`, `WholeEntries`, `ContainedFlaw` | `[]UploadExact`, `[]NoPartialEntries`, `[]FlawContained` | | from `UploadInv` |
| `NamedType` | `[]ByNameAgrees` | | `ByNameAgrees` with `UploadInv`, which tells a lookup's end from an upload's. |

*Why the conditions.* After a wrap, a late reply to the request that had the ID
before is given to the one that has it now; that takes 2^32 requests within one
timeout, so no run looks at it. `Honest` says no timeouts are set and the peer
sends neither duplicates nor invented replies; with a timeout, a reply that
comes late is refused by the reader, as [below](#what-the-checks-found). The
bounds `MaxRequests`, `MaxUnsolicited`, ... are any number, so they only limit a
behaviour's length.

*The refinement.* `SimInit` maps the initial states. Then one lemma per group of
actions shows that a step of `AdsClient` maps to a step of `AdsCalls` or changes
none of its variables: `FetchId` begins a call; `InsertPending`, writes and
notifications are stutters; the peer's answer comes under way when it
is sent; `ReadReply` settles the call registered under the ID, and `PairingInv`
says that it is the call the reply answers, `RegInv` that it is nobody else's
and not settled yet; the end of the reader takes the connection down, and the
drain settles what is left as failed. `callState` and `answersUnderWay`
are functions of one caller and of the stream (`CallStates`, `AnswersTail`,
`AnswersAppend`), which is what makes the steps small.

*The decoder.* Three arguments carry `SymbolUpload_proofs`. Reading back: of what
the device sends, each parser takes the units of its own section and leaves the
rest, so the sections, and the turns of a list, follow one another; only the
overflow of an array that ends at `i32::MAX` intervenes. Tables: what is left of a
table is whole entries and perhaps one that is cut (`Left`); the length field of
that one exceeds what is left, so it panics and nothing of it is kept, and a
flaw behind an entry's length field cannot move the next entry, whatever the
decoder makes of the spoilt one (`Sane`: it ends `ok`, `err` or `panic`). Lockstep, for the
lookup: with a part of an entry instead of all of it, the decoder reads the same
values from the same places until it fails (`Begins`, `Follows`); `read_str` alone goes on
with less than it asked for, so strings may differ, and nothing else (`Like`,
`TypeKinds`: the kind of each value read).

*Recursive data.* What a sequence of samples or items is encoded to is described
by where its parts lie: `Catenations` and `FlattenIsLast` show that `FlattenSeq` is
the last of the successive concatenations, and `Flat` that each part lies where
the lengths before it end; `SumsExist` gives the partial sums of lengths. The
turns of the decoder's `Times` are described by the states between them. These
need induction, which is done on a set of numbers (`Induct`, `LeastNat`, from the
well-foundedness of the natural numbers), since the library's induction
theorems take operators the provers cannot instantiate.

*Only model-checked.* `EveryRequestReturns`, `DropTerminates`, `Terminates`,
`EverythingRead` and `MalformedAborts` need fairness, which is beyond the prover
like ENABLED. The three runs that end in a violation have nothing to prove.
Every other property of the runs is stated by a theorem.

## What the checks found

Three runs end in a violation, each of something the repository says:

- `client_idle`: `timeouts.read` is documented as "Reply read timeout" and
  "receive timeout for the channel", but is also set on the socket the
  reader thread reads from (line 221). A connection on which nothing arrives
  for that long is shut down although nothing is awaited.
- `sumup_short`: `ensure` says it verifies "that the data was successfully
  written", but a reply that ends within the result list leaves the missing
  results zero, which means success (line 453 requires the first buffer only).
- `notif_reuse`: a notification not deleted explicitly "is deleted when the
  `Client` object is dropped", but `delete_notification` removes the handle from
  the set in a step after the reply (line 1057). If the device has meanwhile given
  the handle to another thread's add, that one is forgotten.

Behaviour the models include and the properties allow for, worth knowing:

- the result field of a reply is read before its presence is checked, so a
  reply shorter than that makes `communicate` panic (line 439);
- a failed write leaves its entry in `pending`, without a receiver (line 361);
  a reply to it ends the connection ("closed channel");
- the same holds for a reply that comes after its request timed out ("invalid
  invoke id"): one slow answer ends the connection for all threads;
- a router message of 32 bytes or more is taken to contain an AMS header, whose
  length field decides where the next packet begins (line 576); and a packet
  that announces more data than it has is awaited before its lengths are
  compared (line 570), forever without a read timeout;
- a port is leaked if the router's reply to the request for it times out
  (line 248), or if the message that gives it back cannot be written (line 162);
- a file or symbol handle stays open on the device if its release is not sent or
  is refused: `drop` ignores the result (`file.rs`, line 91; `symbol.rs`, line 68);
- `read_exact` compares the length the device announced: a reply that ends
  early leaves the rest of the buffer as it was (line 708);
- types of one program and symbols of another are returned as Ok if an online
  change between the requests leaves the sizes as they are (`symbol.rs`, line 646);
- `get_type_info_by_name` has a buffer of 4096 bytes (`symbol.rs`, line 711); a
  longer entry mostly fails or panics, but if no more than strings is missing
  (`read_str`, line 322, takes what there is) the type is returned as Ok with its
  name, comment or attributes cut;
- an array that ends at `i32::MAX` panics in a build with overflow checks
  (`symbol.rs`, line 581), an empty host name item always (`udp.rs`, line 159);
- the `get_` methods of a UDP message that is being built, unlike those of a
  parsed one, return the length field as part of the data (`udp.rs`, line 112).

## Not modelled

- `write`, `get_state`, `write_control` and `get_info` of `Device`, `File::delete`,
  `get_size` and `get_location`: one request with a fixed header each, nothing
  beyond the call `AdsClient` models.
- The contents of files, and errors mapped to `io::Error`.
- PLC strings: conversions without state generated by macros, whose delicate
  part, type layout and UTF encodings, a model would have to assume.
- Addresses, ports, errors and index groups: constants, formatting and parsing
  without state. Examples: programs that use the crate.
- Enum values of base type REAL and LREAL; OS and TwinCAT versions digit by digit.
- A `write_all` that blocks, with the socket lock held, because the peer does not
  read (line 357).
- The memory of the (unbounded) notification channel and of announced payloads,
  stack depth, wording of errors and logging.

## Plan

Modelled: the connection core with its abstract specification and proofs,
connecting and framing, notification, file and symbol handles, single and
sum-up requests, notification messages, UDP messages, task telemetry, symbol
and type tables. What is left out above stays out.

Proved: every invariant that a passing run checks, the action property
`PortGivenBack`, and the implementation of `AdsCalls`. The properties that need
fairness stay with TLC.

----------------------------- MODULE NotifStream -----------------------------
(***************************************************************************)
(* Notification messages (src/src/notif.rs).  Notification::new walks over *)
(* the message once, in the reader thread, and keeps it as bytes if it is  *)
(* well formed; SampleIter walks over the same bytes again, in whichever   *)
(* thread took the notification from the channel, with `expect` and        *)
(* split_at where the first walk returned an error.                        *)
(*                                                                         *)
(* A message is what follows the ADS header and the length field.  Each    *)
(* integer field (number of stamps, timestamp, number of samples, handle,  *)
(* length) and each data byte counts as one unit.                          *)
(***************************************************************************)
EXTENDS Naturals, SequencesExt

CONSTANTS
  MaxStamps,   \* bound: stamps in an encoded message
  MaxSamples,  \* bound: samples in a stamp
  MaxUnits,    \* bound: length of an arbitrary message
  MaxValue,    \* bound: value of a unit
  Datas        \* the data of a sample, in encoded messages

ASSUME ConstantsAssumption ==
  /\ MaxStamps \in Nat /\ MaxSamples \in Nat
  /\ MaxUnits \in Nat /\ MaxValue \in Nat
  /\ Datas \subseteq Seq(Nat)

VARIABLES
  sender,        \* ghost: "device" if a device encoded the message, or "any"
  msg,           \* ghost: what the device put into the message
  data,          \* the message
  phase,         \* new, parse, iter; or how it ended: rejected, end, panic
  ptr,           \* units consumed by the walk under way
  stamps_todo,   \* the counters of the two loops of Notification::new
  samples_todo,
  nstamps,       \* Notification.nstamps
  cur_timestamp, \* the fields of SampleIter
  stamps_left,
  samples_left,
  yielded        \* the samples the iterator returned so far

parseVars == <<stamps_todo, samples_todo, nstamps>>
iterVars == <<cur_timestamp, stamps_left, samples_left, yielded>>
vars == <<sender, msg, data, phase, ptr, parseVars, iterVars>>

-----------------------------------------------------------------------------
(* The sending device, not in this crate.                                  *)

Values == 0 .. MaxValue
SampleSet == [handle : Values, data : Datas]
StampSet == [time : Values, samples : BoundedSeq(SampleSet, MaxSamples)]

EncodeSample(s) == <<s.handle, Len(s.data)>> \o s.data
EncodeStamp(s) ==
  <<s.time, Len(s.samples)>>
    \o FlattenSeq([k \in DOMAIN s.samples |-> EncodeSample(s.samples[k])])
Encode(m) == <<Len(m)>> \o FlattenSeq([k \in DOMAIN m |-> EncodeStamp(m[k])])

(* The samples of a message, each with the time of its stamp.              *)
Timed(time, s) == [timestamp |-> time, handle |-> s.handle, data |-> s.data]
SamplesOf(m) ==
  FlattenSeq([k \in DOMAIN m |->
    [n \in DOMAIN m[k].samples |-> Timed(m[k].time, m[k].samples[n])]])

-----------------------------------------------------------------------------

Init ==
  /\ \/ /\ sender = "device"
        /\ msg \in BoundedSeq(StampSet, MaxStamps)
        /\ data = Encode(msg)
     \/ /\ sender = "any"
        /\ msg = <<>>
        /\ data \in BoundedSeq(Values, MaxUnits)
  /\ phase = "new"
  /\ ptr = 0
  /\ stamps_todo = 0
  /\ samples_todo = 0
  /\ nstamps = 0
  /\ cur_timestamp = 0
  /\ stamps_left = 0
  /\ samples_left = 0
  /\ yielded = <<>>

Has(n) == ptr + n <= Len(data)
Unit(n) == data[ptr + n]
Payload(n) == SubSeq(data, ptr + 3, ptr + 2 + n)

End(how) ==
  /\ phase' = how
  /\ UNCHANGED <<sender, msg, data, ptr, parseVars, iterVars>>

(* Notification::new: the number of stamps, if there is room for one.      *)
ParseHead ==
  /\ phase = "new"
  /\ \/ /\ Has(1)
        /\ phase' = "parse"
        /\ ptr' = 1
        /\ nstamps' = Unit(1)
        /\ stamps_todo' = Unit(1)
        /\ UNCHANGED <<sender, msg, data, samples_todo, iterVars>>
     \/ ~Has(1) /\ End("rejected")

(* The outer loop: timestamp and number of samples.                        *)
ParseStamp ==
  /\ phase = "parse"
  /\ samples_todo = 0
  /\ stamps_todo > 0
  /\ \/ /\ Has(2)
        /\ ptr' = ptr + 2
        /\ samples_todo' = Unit(2)
        /\ stamps_todo' = stamps_todo - 1
        /\ UNCHANGED <<sender, msg, data, phase, nstamps, iterVars>>
     \/ ~Has(2) /\ End("rejected")

(* The inner loop: handle, length, and as much data; `fits` is the check   *)
(* that the data is there, `skip` how far the walk goes.                   *)
ParseSampleWith(fits, skip) ==
  /\ phase = "parse"
  /\ samples_todo > 0
  /\ \/ /\ Has(2) /\ fits
        /\ ptr' = ptr + 2 + skip
        /\ samples_todo' = samples_todo - 1
        /\ UNCHANGED <<sender, msg, data, phase, stamps_todo, nstamps, iterVars>>
     \/ ~(Has(2) /\ fits) /\ End("rejected")

(* Mutant: data that runs past the end is cut off instead of refused.      *)
ParseSampleClamped ==
  ParseSampleWith(TRUE, IF Has(2 + Unit(2)) THEN Unit(2) ELSE Len(data) - ptr - 2)

ParseSample == ParseSampleWith(Has(2 + Unit(2)), Unit(2))

ParseDoneIf(complete) ==
  /\ phase = "parse"
  /\ samples_todo = 0
  /\ stamps_todo = 0
  /\ \/ /\ complete
        /\ phase' = "iter"
        /\ ptr' = 1
        /\ cur_timestamp' = 0
        /\ stamps_left' = nstamps
        /\ samples_left' = 0
        /\ UNCHANGED <<sender, msg, data, parseVars, yielded>>
     \/ ~complete /\ End("rejected")

(* Mutant: what follows the last sample is not looked at.                  *)
ParseDoneAnyway == ParseDoneIf(TRUE)

(* Nothing may follow the last sample.  samples() starts a second walk     *)
(* after the number of stamps, at byte 46.                                 *)
ParseDone == ParseDoneIf(~Has(1))

-----------------------------------------------------------------------------
(* SampleIter::next.                                                       *)

NextSample ==
  /\ phase = "iter"
  /\ samples_left > 0
  /\ \/ /\ Has(2) /\ Has(2 + Unit(2))
        /\ yielded' = Append(yielded,
                        [timestamp |-> cur_timestamp, handle |-> Unit(1),
                         data |-> Payload(Unit(2))])
        /\ ptr' = ptr + 2 + Unit(2)
        /\ samples_left' = samples_left - 1
        /\ UNCHANGED <<sender, msg, data, phase, parseVars, cur_timestamp, stamps_left>>
     \/ ~(Has(2) /\ Has(2 + Unit(2))) /\ End("panic")

(* The next stamp, then next() again; `then` is what becomes of the call.  *)
NextStampThen(then) ==
  /\ phase = "iter"
  /\ samples_left = 0
  /\ stamps_left > 0
  /\ \/ /\ Has(2)
        /\ cur_timestamp' = Unit(1)
        /\ samples_left' = Unit(2)
        /\ stamps_left' = stamps_left - 1
        /\ ptr' = ptr + 2
        /\ phase' = then
        /\ UNCHANGED <<sender, msg, data, parseVars, yielded>>
     \/ ~Has(2) /\ End("panic")

(* Mutant: a stamp without samples ends the iteration.                     *)
NextStampNoRetry == NextStampThen(IF Has(2) /\ Unit(2) = 0 THEN "end" ELSE "iter")

NextStamp == NextStampThen("iter")

NextNone ==
  /\ phase = "iter"
  /\ samples_left = 0
  /\ stamps_left = 0
  /\ End("end")

Finished == phase \in {"rejected", "end", "panic"} /\ UNCHANGED vars

Next ==
  \/ ParseHead \/ ParseStamp \/ ParseSample \/ ParseDone
  \/ NextSample \/ NextStamp \/ NextNone
  \/ Finished

Spec == Init /\ [][Next]_vars

-----------------------------------------------------------------------------
(* Properties.                                                             *)

(* Whatever arrives, iterating over the samples of a notification that     *)
(* Notification::new accepted never panics: the second walk makes the      *)
(* steps of the first.                                                     *)
IterationSafe == phase # "panic"

(* The iteration over an accepted message leaves none of its bytes unread. *)
NothingLeft == phase = "end" => ptr = Len(data)

(* A message a device encoded is accepted, and the iterator returns its    *)
(* samples, all of them, in order, each with the time of its own stamp,    *)
(* also when stamps without samples come between.                          *)
Delivered ==
  sender = "device" => phase # "rejected" /\ (phase = "end" => yielded = SamplesOf(msg))
=============================================================================

------------------------------ MODULE Timestamp ------------------------------
(***************************************************************************)
(* The timestamps of packets (timestamp.h, timestamp.cc).                  *)
(*                                                                         *)
(* A timestamp is a 64-bit integer whose three smallest and three largest  *)
(* values are special; what lies between is the range of ordinary packet   *)
(* timestamps.  The width is a parameter here: the range is                *)
(* RangeMin .. RangeMax and the special values sit around it in the order  *)
(* and at the distances they have in the code.                             *)
(***************************************************************************)
EXTENDS Integers

CONSTANTS RangeMin, \* Timestamp::Min(), kint64min + 3 in the code
          RangeMax  \* Timestamp::Max(), kint64max - 3 in the code

ASSUME RangeAssumption == RangeMin \in Int /\ RangeMax \in Int /\ RangeMin < RangeMax

Unset             == RangeMin - 3
Unstarted         == RangeMin - 2
PreStream         == RangeMin - 1
PostStream        == RangeMax + 1
OneOverPostStream == RangeMax + 2
Done              == RangeMax + 3

Timestamps == Unset .. Done

IsRangeValue(t) == RangeMin <= t /\ t <= RangeMax

IsAllowedInStream(t) == PreStream <= t /\ t <= PostStream

\* operator+: the sum is clamped to the range.
Plus(t, offset) ==
    IF t + offset >= RangeMax THEN RangeMax
    ELSE IF t + offset <= RangeMin THEN RangeMin
    ELSE t + offset

NextAllowedInStream(t) ==
    IF t >= RangeMax \/ t = PreStream THEN OneOverPostStream
    ELSE IF t < RangeMin THEN RangeMin
    ELSE Plus(t, 1)

PreviousAllowedInStream(t) ==
    IF t <= RangeMin \/ t = PostStream THEN Unstarted
    ELSE IF t > RangeMax THEN RangeMax
    ELSE Plus(t, -1)

Earlier(t, u) == IF t <= u THEN t ELSE u

Later(t, u) == IF t <= u THEN u ELSE t
=============================================================================

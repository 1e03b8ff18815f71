---------------------------- MODULE AudioObject ----------------------------
(***************************************************************************)
(* The property protocol of the audio server's plug-ins, as both plug-ins  *)
(* of this repository use it.  A property is addressed by a selector and a *)
(* scope; its value is fetched in two calls, one for the size and one for  *)
(* the data.  A reply carries the status, what the callee stored as the    *)
(* size (Unset when it stored nothing) and the value.  Sizes are in bytes. *)
(***************************************************************************)
EXTENDS Integers, Sequences

Scope == {"Global", "Input", "Output"}
Unset == -1

Word == 4                       \* UInt32, Float32, a class, scope or object ID
Ref == 8                        \* CFStringRef, CFURLRef, Float64
ValueRange == 16                \* AudioValueRange
Format == 40                    \* AudioStreamBasicDescription
RangedFormat == 56              \* AudioStreamRangedDescription
StereoLayout == 12 + 2 * 20     \* AudioChannelLayout with two descriptions

Failure(status) == [status |-> status, size |-> Unset, value |-> 0]
Success(size, value) == [status |-> "ok", size |-> size, value |-> value]

\* A value of a fixed size, given to a caller with room for "room" bytes.
Fixed(size, room, value) ==
    IF room < size THEN Failure("bad size") ELSE Success(size, value)

\* As many items of a list as there is room for.
Items(list, width, room) ==
    LET n == IF room \div width < Len(list) THEN room \div width ELSE Len(list)
    IN  Success(n * width, SubSeq(list, 1, n))
=============================================================================

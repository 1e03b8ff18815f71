------------------------- MODULE NullAudio_Controls -------------------------
(***************************************************************************)
(* NullAudio's controls and streams.  A setter changes the value under the *)
(* mutex and returns which properties changed; NullAudio_SetPropertyData   *)
(* tells the host of them after the mutex is left, so that the next setter *)
(* may come first.                                                         *)
(***************************************************************************)
EXTENDS NullAudio_Objects, FiniteSets

CONSTANTS
    Touched,        \* the controls and streams that are set
    MaxTelling      \* bound: setters that have not told the host yet

ASSUME TellingAssumption == MaxTelling \in Nat

VARIABLES
    gValue,         \* the value of each control and the activity of each stream
    telling         \* for each setter under way, the properties it will report

controlVars == <<gValue, telling>>

ControlState == [acquired |-> TRUE, name |-> 0, value |-> gValue]

ControlsInit ==
    /\ gValue = InitialValue
    /\ telling = {}

\* The common tail of the setters: a value that changes nothing is not reported.
Assign(o, v, sels) ==
    /\ o \in Touched
    /\ v # gValue[o]
    /\ Cardinality(telling) < MaxTelling
    /\ gValue' = [gValue EXCEPT ![o] = v]
    /\ telling' = telling \cup {{<<o, sel>> : sel \in sels}}

\* A volume out of range is clamped.
SetScalarVolume ==
    \E o \in Volume, v \in -1 .. VolumeSteps + 1 :
        Assign(o, Clamp(v, 0, VolumeSteps), {"ScalarValue", "DecibelValue"})
\* Faulty variant: reports one of the two properties.
SetDecibelVolumeOnly ==
    \E o \in Volume, d \in -1 .. VolumeSteps * VolumeSteps + 1 :
        Assign(o, DecibelsToScalar(Clamp(d, 0, VolumeSteps * VolumeSteps)), {"DecibelValue"})
SetDecibelVolume ==
    \E o \in Volume, d \in -1 .. VolumeSteps * VolumeSteps + 1 :
        Assign(o, DecibelsToScalar(Clamp(d, 0, VolumeSteps * VolumeSteps)),
               {"ScalarValue", "DecibelValue"})
SetMute == \E o \in Mute, v \in BOOLEAN : Assign(o, v, {"BooleanValue"})
SetDataSource ==
    \E o \in DataSource, v \in 0 .. kDataSource_NumberItems :
        v < kDataSource_NumberItems /\ Assign(o, v, {"CurrentItem"})
SetStreamIsActive == \E o \in Stream, v \in BOOLEAN : Assign(o, v, {"IsActive"})

TellHost ==
    \E t \in telling :
        /\ telling' = telling \ {t}
        /\ UNCHANGED gValue

ControlsNext ==
    \/ SetScalarVolume
    \/ SetDecibelVolume
    \/ SetMute
    \/ SetDataSource
    \/ SetStreamIsActive
    \/ TellHost
ControlsSpec == ControlsInit /\ [][ControlsNext]_controlVars
-----------------------------------------------------------------------------
\* The types, and the ranges the setters clamp or refuse values to.
ControlsTypeOK ==
    /\ \A o \in Volume : gValue[o] \in 0 .. VolumeSteps
    /\ \A o \in DataSource : gValue[o] \in 0 .. kDataSource_NumberItems - 1
    /\ \A o \in Mute \cup Stream : gValue[o] \in BOOLEAN
    /\ Cardinality(telling) <= MaxTelling

\* Every property of a control or a stream whose reply changes with a step is
\* among those that step will report: a volume is one value behind two of them.
ValueProperty == {p \in (Control \cup Stream) \X
                    [sel : ControlCommon \cup LevelSelector \cup StreamWord \cup StreamFormat \cup
                           {"BooleanValue", "CurrentItem", "AvailableItems", "ItemName"},
                     scope : {"Global"}] : HasProperty(p[1], p[2])}
Reads(p) == GetPropertyData(p[1], p[2], StereoLayout, Word, ControlState).value
ControlChangesAnnounced ==
    [][\/ gValue' = gValue
       \/ \A p \in ValueProperty :
            Reads(p)' # Reads(p) => <<p[1], p[2].sel>> \in UNION telling']_controlVars
=============================================================================

------------------------- MODULE NullAudio_Objects -------------------------
(***************************************************************************)
(* The property tables of the NullAudio plug-in: for each of its five      *)
(* kinds of object, which properties it has, which of them can be set, the *)
(* size it announces and the data it returns.  Each table is a switch of   *)
(* its own in the code, and nothing there makes the four agree.            *)
(*                                                                         *)
(* A property's address is a.sel and a.scope; "room" is inDataSize and     *)
(* "qualifier" inQualifierDataSize.  "s" is the state the answers depend   *)
(* on: whether the box is acquired, its name, the controls and streams.    *)
(***************************************************************************)
EXTENDS AudioObject

kAudioObjectUnknown == 0
kObjectID_PlugIn == 1
kObjectID_Box == 2
kObjectID_Device == 3
kObjectID_Stream_Input == 4
kObjectID_Volume_Input_Master == 5
kObjectID_Mute_Input_Master == 6
kObjectID_DataSource_Input_Master == 7
kObjectID_Stream_Output == 8
kObjectID_Volume_Output_Master == 9
kObjectID_Mute_Output_Master == 10
kObjectID_DataSource_Output_Master == 11

Stream == {kObjectID_Stream_Input, kObjectID_Stream_Output}
Volume == {kObjectID_Volume_Input_Master, kObjectID_Volume_Output_Master}
Mute == {kObjectID_Mute_Input_Master, kObjectID_Mute_Output_Master}
DataSource == {kObjectID_DataSource_Input_Master, kObjectID_DataSource_Output_Master}
Control == Volume \cup Mute \cup DataSource
ObjectID == kObjectID_PlugIn .. kObjectID_DataSource_Output_Master
kDataSource_NumberItems == 4

\* The volume scale: 0.0 .. 1.0 in steps of 1 / VolumeSteps, and the decibels
\* -96 .. 6 as the square of that, in steps of 102 / VolumeSteps^2.
VolumeSteps == 2
ScalarToDecibels(v) == v * v
DecibelsToScalar(d) == CHOOSE v \in 0 .. VolumeSteps : v * v <= d /\ (v + 1) * (v + 1) > d
Clamp(v, low, high) == IF v < low THEN low ELSE IF v > high THEN high ELSE v

Ids(first, n) == [i \in 1 .. n |-> first + i - 1]
InitialValue == [o \in Control \cup Stream |-> IF o \in Mute THEN FALSE
                                               ELSE IF o \in Stream THEN TRUE ELSE 0]

-----------------------------------------------------------------------------
(* The plug-in.                                                            *)

PlugInSelector ==
    {"BaseClass", "Class", "Owner", "Manufacturer", "OwnedObjects", "BoxList",
     "TranslateUIDToBox", "DeviceList", "TranslateUIDToDevice", "ResourceBundle"}

HasPlugInProperty(a) == a.sel \in PlugInSelector

\* "unknown" when the switch has no case for the selector.
IsPlugInPropertySettable(a) == IF a.sel \in PlugInSelector THEN "no" ELSE "unknown"

\* gBox_Acquired is read here, and in the two lists below, without the mutex.
GetPlugInPropertyDataSize(a, s) ==
    CASE a.sel \in {"BaseClass", "Class", "Owner", "BoxList", "TranslateUIDToBox",
                    "TranslateUIDToDevice"} -> Success(Word, 0)
      [] a.sel \in {"Manufacturer", "ResourceBundle"} -> Success(Ref, 0)
      [] a.sel = "OwnedObjects" -> Success(IF s.acquired THEN 2 * Word ELSE Word, 0)
      [] a.sel = "DeviceList" -> Success(IF s.acquired THEN Word ELSE 0, 0)
      [] OTHER -> Failure("unknown")

\* The number of items of the two lists: the count is compared with one
\* reading of gBox_Acquired and, when it is too large, replaced by another.
PlugInListLength(a, acquired) ==
    IF a.sel = "OwnedObjects" THEN (IF acquired THEN 2 ELSE 1)
                              ELSE (IF acquired THEN 1 ELSE 0)
\* Faulty variant: does not look at the caller's room.
ItemsToFetchUnlimited(a, room, first, second) == PlugInListLength(a, second)
ItemsToFetch(a, room, first, second) ==
    IF room \div Word > PlugInListLength(a, first)
    THEN PlugInListLength(a, second) ELSE room \div Word

\* Of two owned objects both are stored in the first place: the box is lost
\* and the second place keeps what the caller had there.
PlugInList(a, n) ==
    IF a.sel = "OwnedObjects"
    THEN CASE n = 0 -> <<>>
           [] n = 1 -> <<kObjectID_Box>>
           [] OTHER -> <<kObjectID_Device, Unset>>
    ELSE IF n = 0 THEN <<>> ELSE <<kObjectID_Device>>

\* The two readings of gBox_Acquired are "first" and "second".
GetPlugInPropertyData(a, room, qualifier, first, second) ==
    CASE a.sel \in {"BaseClass", "Class"} -> Fixed(Word, room, 0)
      [] a.sel = "Owner" -> Fixed(Word, room, kAudioObjectUnknown)
      [] a.sel = "Manufacturer" -> Fixed(Ref, room, 0)
      [] a.sel \in {"OwnedObjects", "DeviceList"} ->
            LET n == ItemsToFetch(a, room, first, second)
            IN  Success(n * Word, PlugInList(a, n))
      [] a.sel = "BoxList" -> Items(<<kObjectID_Box>>, Word, room)
      [] a.sel \in {"TranslateUIDToBox", "TranslateUIDToDevice"} ->
            IF room < Word \/ qualifier = Ref THEN Failure("bad size") ELSE Success(Word, 0)
      [] a.sel = "ResourceBundle" ->
            IF room < Word THEN Failure("bad size") ELSE Success(Ref, 0)
      [] OTHER -> Failure("unknown")

SetPlugInPropertyData(a) == "unknown"
-----------------------------------------------------------------------------
(* The box.                                                                *)

BoxWord == {"Identify", "TransportType", "HasAudio", "HasVideo", "HasMIDI", "IsProtected",
            "Acquired", "AcquisitionFailed"}

HasBoxProperty(a) ==
    a.sel \in BoxWord \cup {"BaseClass", "Class", "Owner", "Name", "ModelName", "Manufacturer",
        "OwnedObjects", "SerialNumber", "FirmwareVersion", "BoxUID", "DeviceList"}

\* Faulty variant: the acquisition cannot be set.
IsBoxPropertySettableButAcquired(a) ==
    IF ~HasBoxProperty(a) THEN "unknown" ELSE IF a.sel \in {"Name", "Identify"} THEN "yes" ELSE "no"
IsBoxPropertySettable(a) ==
    CASE a.sel \in {"BaseClass", "Class", "Owner", "ModelName", "Manufacturer", "OwnedObjects",
                    "SerialNumber", "FirmwareVersion", "BoxUID", "TransportType", "HasAudio",
                    "HasVideo", "HasMIDI", "IsProtected", "AcquisitionFailed", "DeviceList"} -> "no"
      [] a.sel \in {"Name", "Identify", "Acquired"} -> "yes"
      [] OTHER -> "unknown"

GetBoxPropertyDataSize(a, s) ==
    CASE a.sel \in BoxWord \cup {"BaseClass", "Class", "Owner"} -> Success(Word, 0)
      [] a.sel \in {"Name", "ModelName", "Manufacturer", "SerialNumber", "FirmwareVersion",
                    "BoxUID"} -> Success(Ref, 0)
      [] a.sel = "OwnedObjects" -> Success(0, 0)
      [] a.sel = "DeviceList" -> Success(IF s.acquired THEN Word ELSE 0, 0)
      [] OTHER -> Failure("unknown")

\* What names the box and its maker; the BoxUID is stored and its size is not.
GetBoxIdentity(a, room, s) ==
    CASE a.sel \in {"BaseClass", "Class"} -> Fixed(Word, room, 0)
      [] a.sel = "Owner" -> Fixed(Word, room, kObjectID_PlugIn)
      [] a.sel = "Name" -> Fixed(Ref, room, s.name)
      [] a.sel \in {"ModelName", "Manufacturer", "SerialNumber", "FirmwareVersion"} ->
            Fixed(Ref, room, 0)
      [] a.sel = "OwnedObjects" -> Success(0, <<>>)
      [] a.sel = "Identify" -> Fixed(Word, room, 0)
      [] a.sel = "BoxUID" -> IF room < Ref THEN Failure("bad size") ELSE Success(Unset, 0)

\* An acquired box whose caller has no room for the device fails here with the
\* mutex held: LeavesMutexHeld.
GetBoxStatus(a, room, s) ==
    CASE a.sel \in BoxWord \ {"Identify", "Acquired"} -> Fixed(Word, room, 0)
      [] a.sel = "Acquired" -> Fixed(Word, room, s.acquired)
      [] a.sel = "DeviceList" ->
            IF s.acquired THEN Fixed(Word, room, <<kObjectID_Device>>) ELSE Success(0, <<>>)
      [] OTHER -> Failure("unknown")

GetBoxPropertyData(a, room, s) ==
    IF a.sel \in {"BaseClass", "Class", "Owner", "Name", "ModelName", "Manufacturer",
                  "OwnedObjects", "Identify", "SerialNumber", "FirmwareVersion", "BoxUID"}
    THEN GetBoxIdentity(a, room, s) ELSE GetBoxStatus(a, room, s)

LeavesMutexHeld(o, a, room, s) ==
    o = kObjectID_Box /\ a.sel = "DeviceList" /\ s.acquired /\ room < Word

SetBoxPropertyData(a) == IF a.sel \in {"Name", "Identify", "Acquired"} THEN "ok" ELSE "unknown"
-----------------------------------------------------------------------------
(* The device.                                                             *)

ScopedSelector == {"DeviceCanBeDefaultDevice", "DeviceCanBeDefaultSystemDevice", "Latency",
                   "SafetyOffset", "PreferredChannelsForStereo", "PreferredChannelLayout"}

HasDeviceProperty(a) ==
    \/ a.sel \in {"BaseClass", "Class", "Owner", "Name", "Manufacturer", "OwnedObjects",
                  "DeviceUID", "ModelUID", "TransportType", "RelatedDevices", "ClockDomain",
                  "DeviceIsAlive", "DeviceIsRunning", "ControlList", "NominalSampleRate",
                  "AvailableNominalSampleRates", "IsHidden", "ZeroTimeStampPeriod", "Icon",
                  "Streams"}
    \/ a.sel \in ScopedSelector /\ a.scope \in {"Input", "Output"}

IsDevicePropertySettable(a) ==
    CASE a.sel \in ScopedSelector \cup
            {"BaseClass", "Class", "Owner", "Name", "Manufacturer", "OwnedObjects", "DeviceUID",
             "ModelUID", "TransportType", "RelatedDevices", "ClockDomain", "DeviceIsAlive",
             "DeviceIsRunning", "Streams", "ControlList", "AvailableNominalSampleRates",
             "IsHidden", "ZeroTimeStampPeriod", "Icon"} -> "no"
      [] a.sel = "NominalSampleRate" -> "yes"
      [] OTHER -> "unknown"

DeviceWord == {"BaseClass", "Class", "Owner", "TransportType", "ClockDomain", "DeviceIsAlive",
               "DeviceIsRunning", "DeviceCanBeDefaultDevice", "DeviceCanBeDefaultSystemDevice",
               "Latency", "SafetyOffset", "IsHidden", "ZeroTimeStampPeriod"}
DeviceRef == {"Name", "Manufacturer", "DeviceUID", "ModelUID", "NominalSampleRate", "Icon"}

GetDevicePropertyDataSize(a, s) ==
    CASE a.sel \in DeviceWord \cup {"RelatedDevices"} -> Success(Word, 0)
      [] a.sel \in DeviceRef -> Success(Ref, 0)
      [] a.sel = "OwnedObjects" -> Success((IF a.scope = "Global" THEN 8 ELSE 4) * Word, 0)
      [] a.sel = "Streams" -> Success((IF a.scope = "Global" THEN 2 ELSE 1) * Word, 0)
      [] a.sel = "ControlList" -> Success(6 * Word, 0)
      [] a.sel = "AvailableNominalSampleRates" -> Success(2 * ValueRange, 0)
      [] a.sel = "PreferredChannelsForStereo" -> Success(2 * Word, 0)
      [] a.sel = "PreferredChannelLayout" -> Success(StereoLayout, 0)
      [] OTHER -> Failure("unknown")

\* The objects a scope owns: the global scope lists the input and the output
\* objects, which have consecutive IDs.
DeviceOwnedObjects(scope) ==
    CASE scope = "Global" -> Ids(kObjectID_Stream_Input, 8)
      [] scope = "Input" -> Ids(kObjectID_Stream_Input, 4)
      [] scope = "Output" -> Ids(kObjectID_Stream_Output, 4)
DeviceStreams(scope) ==
    CASE scope = "Global" -> <<kObjectID_Stream_Input, kObjectID_Stream_Output>>
      [] scope = "Input" -> <<kObjectID_Stream_Input>>
      [] scope = "Output" -> <<kObjectID_Stream_Output>>
DeviceControlList == Ids(kObjectID_Volume_Input_Master, 3) \o Ids(kObjectID_Volume_Output_Master, 3)

\* The first cases of the switch: what names and locates the device.
GetDeviceIdentity(a, room) ==
    CASE a.sel \in {"BaseClass", "Class"} -> Fixed(Word, room, 0)
      [] a.sel = "Owner" -> Fixed(Word, room, kObjectID_PlugIn)
      [] a.sel \in {"Name", "Manufacturer"} -> Fixed(Ref, room, 0)
      [] a.sel = "OwnedObjects" -> Items(DeviceOwnedObjects(a.scope), Word, room)
      [] a.sel \in {"DeviceUID", "ModelUID"} -> Fixed(Ref, room, 0)
      [] a.sel = "TransportType" -> Fixed(Word, room, 0)

GetDeviceRelations(a, room, s) ==
    CASE a.sel = "RelatedDevices" -> Items(<<kObjectID_Device>>, Word, room)
      [] a.sel \in {"ClockDomain", "DeviceIsAlive", "DeviceIsRunning", "Latency",
                    "DeviceCanBeDefaultDevice", "DeviceCanBeDefaultSystemDevice"} ->
            Fixed(Word, room, 0)
      [] a.sel = "Streams" -> Items(DeviceStreams(a.scope), Word, room)

GetDeviceSettings(a, room, s) ==
    CASE a.sel = "ControlList" -> Items(DeviceControlList, Word, room)
      [] a.sel \in {"SafetyOffset", "IsHidden", "ZeroTimeStampPeriod"} -> Fixed(Word, room, 0)
      [] a.sel = "NominalSampleRate" -> Fixed(Ref, room, 0)
      [] a.sel = "AvailableNominalSampleRates" -> Items(<<44100, 48000>>, ValueRange, room)
      [] a.sel = "PreferredChannelsForStereo" -> Fixed(2 * Word, room, 0)
      [] a.sel = "PreferredChannelLayout" -> Fixed(StereoLayout, room, 0)
      [] a.sel = "Icon" -> Fixed(Ref, room, 0)
      [] OTHER -> Failure("unknown")

GetDevicePropertyData(a, room, s) ==
    CASE a.sel \in {"BaseClass", "Class", "Owner", "Name", "Manufacturer", "OwnedObjects",
                    "DeviceUID", "ModelUID", "TransportType"} -> GetDeviceIdentity(a, room)
      [] a.sel \in {"RelatedDevices", "ClockDomain", "DeviceIsAlive", "DeviceIsRunning",
                    "DeviceCanBeDefaultDevice", "DeviceCanBeDefaultSystemDevice", "Latency",
                    "Streams"} -> GetDeviceRelations(a, room, s)
      [] OTHER -> GetDeviceSettings(a, room, s)
-----------------------------------------------------------------------------
(* The streams.                                                            *)

StreamFormat == {"VirtualFormat", "PhysicalFormat"}
StreamFormats == {"AvailableVirtualFormats", "AvailablePhysicalFormats"}
StreamWord == {"IsActive", "Direction", "TerminalType", "StartingChannel", "Latency"}

HasStreamProperty(a) ==
    a.sel \in {"BaseClass", "Class", "Owner", "OwnedObjects"} \cup StreamWord
              \cup StreamFormat \cup StreamFormats

IsStreamPropertySettable(a) ==
    CASE a.sel \in {"BaseClass", "Class", "Owner", "OwnedObjects", "Direction", "TerminalType",
                    "StartingChannel", "Latency"} \cup StreamFormats -> "no"
      [] a.sel \in {"IsActive"} \cup StreamFormat -> "yes"
      [] OTHER -> "unknown"

GetStreamPropertyDataSize(a, s) ==
    CASE a.sel \in {"BaseClass", "Class", "Owner"} \cup StreamWord -> Success(Word, 0)
      [] a.sel = "OwnedObjects" -> Success(0, 0)
      [] a.sel \in StreamFormat -> Success(Format, 0)
      [] a.sel \in StreamFormats -> Success(2 * RangedFormat, 0)
      [] OTHER -> Failure("unknown")

GetStreamIdentity(o, a, room, s) ==
    CASE a.sel \in {"BaseClass", "Class"} -> Fixed(Word, room, 0)
      [] a.sel = "Owner" -> Fixed(Word, room, kObjectID_Device)
      [] a.sel = "OwnedObjects" -> Success(0, <<>>)
      [] a.sel = "IsActive" -> Fixed(Word, room, s.value[o])
      [] a.sel \in StreamWord \ {"IsActive"} -> Fixed(Word, room, 0)

GetStreamFormats(a, room) ==
    CASE a.sel \in StreamFormat -> Fixed(Format, room, 0)
      [] a.sel \in StreamFormats -> Items(<<44100, 48000>>, RangedFormat, room)
      [] OTHER -> Failure("unknown")

GetStreamPropertyData(o, a, room, s) ==
    IF a.sel \in {"BaseClass", "Class", "Owner", "OwnedObjects"} \cup StreamWord
    THEN GetStreamIdentity(o, a, room, s) ELSE GetStreamFormats(a, room)
-----------------------------------------------------------------------------
(* The controls.                                                           *)

ControlCommon == {"BaseClass", "Class", "Owner", "OwnedObjects", "Scope", "Element"}
LevelSelector == {"ScalarValue", "DecibelValue", "DecibelRange", "ConvertScalarToDecibels",
                  "ConvertDecibelsToScalar"}

HasControlProperty(o, a) ==
    \/ a.sel \in ControlCommon
    \/ o \in Volume /\ a.sel \in LevelSelector
    \/ o \in Mute /\ a.sel = "BooleanValue"
    \/ o \in DataSource /\ a.sel \in {"CurrentItem", "AvailableItems", "ItemName"}

IsControlPropertySettable(o, a) ==
    CASE a.sel \in ControlCommon -> "no"
      [] o \in Volume /\ a.sel \in {"DecibelRange", "ConvertScalarToDecibels",
                                    "ConvertDecibelsToScalar"} -> "no"
      [] o \in Volume /\ a.sel \in {"ScalarValue", "DecibelValue"} -> "yes"
      [] o \in Mute /\ a.sel = "BooleanValue" -> "yes"
      [] o \in DataSource /\ a.sel \in {"AvailableItems", "ItemName"} -> "no"
      [] o \in DataSource /\ a.sel = "CurrentItem" -> "yes"
      [] OTHER -> "unknown"

GetControlCommonSize(a) == IF a.sel = "OwnedObjects" THEN Success(0, 0) ELSE Success(Word, 0)

GetControlPropertyDataSize(o, a, s) ==
    CASE a.sel \in ControlCommon -> GetControlCommonSize(a)
      [] o \in Volume /\ a.sel = "DecibelRange" -> Success(ValueRange, 0)
      [] o \in Volume /\ a.sel \in LevelSelector \ {"DecibelRange"} -> Success(Word, 0)
      [] o \in Mute /\ a.sel = "BooleanValue" -> Success(Word, 0)
      [] o \in DataSource /\ a.sel = "CurrentItem" -> Success(Word, 0)
      [] o \in DataSource /\ a.sel = "AvailableItems" ->
            Success(kDataSource_NumberItems * Word, 0)
      [] o \in DataSource /\ a.sel = "ItemName" -> Success(Ref, 0)
      [] OTHER -> Failure("unknown")

GetControlCommon(a, room) ==
    CASE a.sel = "OwnedObjects" -> Success(0, <<>>)
      [] a.sel = "Owner" -> Fixed(Word, room, kObjectID_Device)
      [] OTHER -> Fixed(Word, room, 0)

GetVolumeData(o, a, room, s) ==
    CASE a.sel = "ScalarValue" -> Fixed(Word, room, s.value[o])
      [] a.sel = "DecibelValue" -> Fixed(Word, room, ScalarToDecibels(s.value[o]))
      [] a.sel = "DecibelRange" -> Fixed(ValueRange, room, 0)
      [] a.sel \in {"ConvertScalarToDecibels", "ConvertDecibelsToScalar"} -> Fixed(Word, room, 0)
      [] OTHER -> Failure("unknown")

GetMuteData(o, a, room, s) ==
    IF a.sel = "BooleanValue" THEN Fixed(Word, room, s.value[o]) ELSE Failure("unknown")

\* The name of an item needs the item's number as the qualifier.
GetDataSourceData(o, a, room, qualifier, s) ==
    CASE a.sel = "CurrentItem" -> Fixed(Word, room, s.value[o])
      [] a.sel = "AvailableItems" -> Items(Ids(0, kDataSource_NumberItems), Word, room)
      [] a.sel = "ItemName" ->
            IF qualifier # Word THEN Failure("bad size") ELSE Fixed(Ref, room, 0)
      [] OTHER -> Failure("unknown")

GetControlPropertyData(o, a, room, qualifier, s) ==
    CASE a.sel \in ControlCommon -> GetControlCommon(a, room)
      [] a.sel \notin ControlCommon /\ o \in Volume -> GetVolumeData(o, a, room, s)
      [] a.sel \notin ControlCommon /\ o \in Mute -> GetMuteData(o, a, room, s)
      [] a.sel \notin ControlCommon /\ o \in DataSource ->
            GetDataSourceData(o, a, room, qualifier, s)
-----------------------------------------------------------------------------
(* The dispatchers.                                                        *)

HasProperty(o, a) ==
    CASE o = kObjectID_PlugIn -> HasPlugInProperty(a)
      [] o = kObjectID_Box -> HasBoxProperty(a)
      [] o = kObjectID_Device -> HasDeviceProperty(a)
      [] o \in Stream -> HasStreamProperty(a)
      [] o \in Control -> HasControlProperty(o, a)

IsPropertySettable(o, a) ==
    CASE o = kObjectID_PlugIn -> IsPlugInPropertySettable(a)
      [] o = kObjectID_Box -> IsBoxPropertySettable(a)
      [] o = kObjectID_Device -> IsDevicePropertySettable(a)
      [] o \in Stream -> IsStreamPropertySettable(a)
      [] o \in Control -> IsControlPropertySettable(o, a)

GetPropertyDataSize(o, a, s) ==
    CASE o = kObjectID_PlugIn -> GetPlugInPropertyDataSize(a, s)
      [] o = kObjectID_Box -> GetBoxPropertyDataSize(a, s)
      [] o = kObjectID_Device -> GetDevicePropertyDataSize(a, s)
      [] o \in Stream -> GetStreamPropertyDataSize(a, s)
      [] o \in Control -> GetControlPropertyDataSize(o, a, s)

GetPropertyData(o, a, room, qualifier, s) ==
    CASE o = kObjectID_PlugIn ->
            GetPlugInPropertyData(a, room, qualifier, s.acquired, s.acquired)
      [] o = kObjectID_Box -> GetBoxPropertyData(a, room, s)
      [] o = kObjectID_Device -> GetDevicePropertyData(a, room, s)
      [] o \in Stream -> GetStreamPropertyData(o, a, room, s)
      [] o \in Control -> GetControlPropertyData(o, a, room, qualifier, s)
=============================================================================

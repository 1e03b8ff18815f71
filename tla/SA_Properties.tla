--------------------------- MODULE SA_Properties ---------------------------
(***************************************************************************)
(* The property tables of the SimpleAudio plug-in: those of the plug-in    *)
(* object, of the device and of the four objects that are parts of it (two *)
(* streams and two volume controls), each on top of the table every        *)
(* SA_Object has.  As in NullAudio, four switches must agree.              *)
(*                                                                         *)
(* "s" is the state the answers depend on: the devices of the plug-in, the *)
(* activity of each stream, the raw value of each control and the rate.    *)
(***************************************************************************)
EXTENDS AudioObject, VolumeCurve

SA_Stream == {"input stream", "output stream"}
SA_Control == {"input volume", "output volume"}
SA_DeviceObject == {"device"} \cup SA_Stream \cup SA_Control
SA_ObjectID == {"plug-in"} \cup SA_DeviceObject
-----------------------------------------------------------------------------
(* SA_Object.                                                              *)

SA_BaseWord == {"BaseClass", "Class", "Owner"}
SA_HasBaseProperty(a) == a.sel \in SA_BaseWord \cup {"OwnedObjects"}
SA_IsBasePropertySettable(a) == IF SA_HasBaseProperty(a) THEN "no" ELSE "unknown"
SA_GetBasePropertyDataSize(a) ==
    CASE a.sel \in SA_BaseWord -> Success(Word, 0)
      [] a.sel = "OwnedObjects" -> Success(0, 0)
      [] OTHER -> Failure("unknown")
SA_GetBasePropertyData(a, room) ==
    CASE a.sel \in SA_BaseWord -> Fixed(Word, room, 0)
      [] a.sel = "OwnedObjects" -> Success(0, <<>>)
      [] OTHER -> Failure("unknown")
SA_SetBasePropertyData(a) == "unknown"
-----------------------------------------------------------------------------
(* SA_PlugIn.  The two lists are both the list of devices.                 *)

SA_PlugInSelector == {"Manufacturer", "DeviceList", "TranslateUIDToDevice", "ResourceBundle"}

SA_HasPlugInProperty(a) == a.sel \in SA_PlugInSelector \/ SA_HasBaseProperty(a)
SA_IsPlugInPropertySettable(a) ==
    IF a.sel \in SA_PlugInSelector THEN "no" ELSE SA_IsBasePropertySettable(a)
SA_GetPlugInPropertyDataSize(a, s) ==
    CASE a.sel \in {"Manufacturer", "ResourceBundle"} -> Success(Ref, 0)
      [] a.sel \in {"OwnedObjects", "DeviceList"} -> Success(Len(s.devices) * Word, 0)
      [] a.sel = "TranslateUIDToDevice" -> Success(Word, 0)
      [] OTHER -> SA_GetBasePropertyDataSize(a)

\* A reference is stored wherever there is room for a word of it.
StoredRef(room, value) == IF room < Word THEN Failure("bad size") ELSE Success(Ref, value)

SA_GetPlugInPropertyData(a, room, qualifier, s) ==
    CASE a.sel = "Manufacturer" -> Fixed(Ref, room, 0)
      [] a.sel \in {"OwnedObjects", "DeviceList"} -> Items(s.devices, Word, room)
      [] a.sel = "TranslateUIDToDevice" ->
            IF qualifier < Ref THEN Failure("bad size") ELSE Fixed(Word, room, 0)
      [] a.sel = "ResourceBundle" -> StoredRef(room, 0)
      [] OTHER -> SA_GetBasePropertyData(a, room)
-----------------------------------------------------------------------------
(* The device.                                                             *)

SA_ScopedSelector == {"Latency", "SafetyOffset", "PreferredChannelsForStereo",
    "PreferredChannelLayout", "DeviceCanBeDefaultDevice", "DeviceCanBeDefaultSystemDevice"}
SA_DeviceSelector == {"Name", "Manufacturer", "DeviceUID", "ModelUID", "TransportType",
    "RelatedDevices", "ClockDomain", "DeviceIsAlive", "DeviceIsRunning", "ControlList",
    "NominalSampleRate", "AvailableNominalSampleRates", "IsHidden", "ZeroTimeStampPeriod",
    "Streams"}

SA_HasDeviceProperty(a) ==
    \/ a.sel \in SA_DeviceSelector
    \/ a.sel \in SA_ScopedSelector /\ a.scope \in {"Input", "Output"}
    \/ SA_HasBaseProperty(a)
SA_IsDevicePropertySettable(a) ==
    CASE a.sel = "NominalSampleRate" -> "yes"
      [] a.sel \in (SA_DeviceSelector \ {"NominalSampleRate"}) \cup SA_ScopedSelector -> "no"
      [] OTHER -> SA_IsBasePropertySettable(a)

\* What a scope has of the parts of the device.
SA_Parts(scope, input, output) ==
    CASE scope = "Global" -> input \o output
      [] scope = "Input" -> input
      [] scope = "Output" -> output
SA_Streams(scope) == SA_Parts(scope, <<"input stream">>, <<"output stream">>)
SA_ControlList == <<"input volume", "output volume">>
SA_OwnedObjects(scope) == SA_Streams(scope) \o SA_Parts(scope, <<"input volume">>, <<"output volume">>)

SA_GetDevicePropertyDataSize(a) ==
    CASE a.sel \in {"Name", "Manufacturer", "DeviceUID", "ModelUID", "NominalSampleRate"} -> Success(Ref, 0)
      [] a.sel = "OwnedObjects" -> Success((IF a.scope = "Global" THEN 4 ELSE 2) * Word, 0)
      [] a.sel = "Streams" -> Success((IF a.scope = "Global" THEN 2 ELSE 1) * Word, 0)
      [] a.sel = "ControlList" -> Success(2 * Word, 0)
      [] a.sel = "AvailableNominalSampleRates" -> Success(2 * ValueRange, 0)
      [] a.sel = "PreferredChannelsForStereo" -> Success(2 * Word, 0)
      [] a.sel = "PreferredChannelLayout" -> Success(StereoLayout, 0)
      [] a.sel \in {"TransportType", "RelatedDevices", "ClockDomain", "DeviceIsAlive",
                    "DeviceIsRunning", "DeviceCanBeDefaultDevice",
                    "DeviceCanBeDefaultSystemDevice", "Latency", "SafetyOffset", "IsHidden",
                    "ZeroTimeStampPeriod"} -> Success(Word, 0)
      [] OTHER -> SA_GetBasePropertyDataSize(a)

SA_DeviceIdentity == {"Name", "Manufacturer", "OwnedObjects", "DeviceUID", "ModelUID", "TransportType"}
SA_GetDeviceIdentity(a, room) ==
    CASE a.sel \in {"Name", "Manufacturer", "DeviceUID", "ModelUID"} -> StoredRef(room, 0)
      [] a.sel = "OwnedObjects" -> Items(SA_OwnedObjects(a.scope), Word, room)
      [] a.sel = "TransportType" -> Fixed(Word, room, 0)

SA_DeviceRelations == {"RelatedDevices", "ClockDomain", "DeviceIsAlive", "DeviceIsRunning",
    "DeviceCanBeDefaultDevice", "DeviceCanBeDefaultSystemDevice", "Latency", "Streams", "ControlList"}
SA_GetDeviceRelations(a, room) ==
    CASE a.sel = "RelatedDevices" -> Items(<<"device">>, Word, room)
      [] a.sel = "Streams" -> Items(SA_Streams(a.scope), Word, room)
      [] a.sel = "ControlList" -> Items(SA_ControlList, Word, room)
      [] OTHER -> Fixed(Word, room, 0)

SA_GetDeviceSettings(a, room, s) ==
    CASE a.sel \in {"SafetyOffset", "IsHidden", "ZeroTimeStampPeriod"} -> Fixed(Word, room, 0)
      [] a.sel = "NominalSampleRate" -> Fixed(Ref, room, s.rate)
      [] a.sel = "AvailableNominalSampleRates" -> Items(<<44100, 48000>>, ValueRange, room)
      [] a.sel = "PreferredChannelsForStereo" -> Fixed(2 * Word, room, 0)
      [] a.sel = "PreferredChannelLayout" -> Fixed(StereoLayout, room, 0)
      [] OTHER -> SA_GetBasePropertyData(a, room)

SA_GetDevicePropertyData(a, room, s) ==
    CASE a.sel \in SA_DeviceIdentity -> SA_GetDeviceIdentity(a, room)
      [] a.sel \in SA_DeviceRelations -> SA_GetDeviceRelations(a, room)
      [] OTHER -> SA_GetDeviceSettings(a, room, s)
-----------------------------------------------------------------------------
(* The streams.                                                            *)

SA_StreamWord == {"IsActive", "Direction", "TerminalType", "StartingChannel", "Latency"}
SA_StreamFormat == {"VirtualFormat", "PhysicalFormat"}
SA_StreamFormats == {"AvailableVirtualFormats", "AvailablePhysicalFormats"}

SA_HasStreamProperty(a) ==
    a.sel \in SA_StreamWord \cup SA_StreamFormat \cup SA_StreamFormats \/ SA_HasBaseProperty(a)
SA_IsStreamPropertySettable(a) ==
    CASE a.sel \in {"IsActive"} \cup SA_StreamFormat -> "yes"
      [] a.sel \in (SA_StreamWord \ {"IsActive"}) \cup SA_StreamFormats -> "no"
      [] OTHER -> SA_IsBasePropertySettable(a)
SA_GetStreamPropertyDataSize(a) ==
    CASE a.sel \in SA_StreamWord -> Success(Word, 0)
      [] a.sel \in SA_StreamFormat -> Success(Format, 0)
      [] a.sel \in SA_StreamFormats -> Success(2 * RangedFormat, 0)
      [] OTHER -> SA_GetBasePropertyDataSize(a)

\* A format is its rate and how a sample is kept; the device offers 16-bit
\* integers and accepts 32-bit floats.
FormatOf(rate, sample) == [rate |-> rate, sample |-> sample]
SA_GetStreamFormats(a, room, s) ==
    IF a.sel \in SA_StreamFormat THEN Fixed(Format, room, FormatOf(s.rate, "int16"))
    ELSE Items(<<FormatOf(44100, "int16"), FormatOf(48000, "int16")>>, RangedFormat, room)
SA_AcceptsFormat(f) == f.sample = "float32" /\ f.rate \in {44100, 48000}

\* The activity is that of the stream of the address's scope, whichever stream
\* is asked.
SA_GetIsActive(a, s) == s.active[IF a.scope = "Input" THEN "input stream" ELSE "output stream"]
SA_GetStreamPropertyData(a, room, s) ==
    CASE a.sel \in SA_BaseWord -> Fixed(Word, room, 0)
      [] a.sel = "IsActive" -> Fixed(Word, room, SA_GetIsActive(a, s))
      [] a.sel \in SA_StreamWord \ {"IsActive"} -> Fixed(Word, room, 0)
      [] a.sel \in SA_StreamFormat \cup SA_StreamFormats -> SA_GetStreamFormats(a, room, s)
      [] OTHER -> SA_GetBasePropertyData(a, room)
-----------------------------------------------------------------------------
(* The controls.                                                           *)

SA_LevelValue == {"ScalarValue", "DecibelValue"}
SA_LevelSelector == {"Scope", "Element", "DecibelRange", "ConvertScalarToDecibels",
                     "ConvertDecibelsToScalar"} \cup SA_LevelValue

SA_HasControlProperty(a) == a.sel \in SA_LevelSelector \/ SA_HasBaseProperty(a)
SA_IsControlPropertySettable(a) ==
    CASE a.sel \in SA_LevelValue -> "yes"
      [] a.sel \in SA_LevelSelector \ SA_LevelValue -> "no"
      [] OTHER -> SA_IsBasePropertySettable(a)
SA_GetControlPropertyDataSize(a) ==
    CASE a.sel = "DecibelRange" -> Success(ValueRange, 0)
      [] a.sel \in SA_LevelSelector \ {"DecibelRange"} -> Success(Word, 0)
      [] OTHER -> SA_GetBasePropertyDataSize(a)

\* The curve is in the state as s.curve and s.exponent.
SA_GetControlPropertyData(o, a, room, s) ==
    CASE a.sel \in SA_BaseWord \cup {"Scope", "Element"} -> Fixed(Word, room, 0)
      [] a.sel = "ScalarValue" ->
            Fixed(Word, room, ConvertRawToScalar(s.curve, s.exponent, s.raw[o]))
      [] a.sel = "DecibelValue" -> Fixed(Word, room, ConvertRawToDB(s.curve, s.raw[o]))
      [] a.sel = "DecibelRange" ->
            Fixed(ValueRange, room, <<GetMinimumDB(s.curve), GetMaximumDB(s.curve)>>)
      [] a.sel \in {"ConvertScalarToDecibels", "ConvertDecibelsToScalar"} -> Fixed(Word, room, 0)
      [] OTHER -> SA_GetBasePropertyData(a, room)
-----------------------------------------------------------------------------
(* The dispatchers of SA_Device, with the plug-in beside them.             *)

SA_HasProperty(o, a) ==
    CASE o = "plug-in" -> SA_HasPlugInProperty(a)
      [] o = "device" -> SA_HasDeviceProperty(a)
      [] o \in SA_Stream -> SA_HasStreamProperty(a)
      [] o \in SA_Control -> SA_HasControlProperty(a)
SA_IsPropertySettable(o, a) ==
    CASE o = "plug-in" -> SA_IsPlugInPropertySettable(a)
      [] o = "device" -> SA_IsDevicePropertySettable(a)
      [] o \in SA_Stream -> SA_IsStreamPropertySettable(a)
      [] o \in SA_Control -> SA_IsControlPropertySettable(a)
SA_GetPropertyDataSize(o, a, s) ==
    CASE o = "plug-in" -> SA_GetPlugInPropertyDataSize(a, s)
      [] o = "device" -> SA_GetDevicePropertyDataSize(a)
      [] o \in SA_Stream -> SA_GetStreamPropertyDataSize(a)
      [] o \in SA_Control -> SA_GetControlPropertyDataSize(a)
SA_GetPropertyData(o, a, room, qualifier, s) ==
    CASE o = "plug-in" -> SA_GetPlugInPropertyData(a, room, qualifier, s)
      [] o = "device" -> SA_GetDevicePropertyData(a, room, s)
      [] o \in SA_Stream -> SA_GetStreamPropertyData(a, room, s)
      [] o \in SA_Control -> SA_GetControlPropertyData(o, a, room, s)
=============================================================================

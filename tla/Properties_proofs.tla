-------------------------- MODULE Properties_proofs --------------------------
(***************************************************************************)
(* The two plug-ins' properties: the switches that say which there are,    *)
(* which can be set, how long they are and what they hold agree; an answer *)
(* fits in the announced room whatever has happened since; and the host    *)
(* learns of every change.                                                 *)
(*                                                                         *)
(* First the tables, which are about every state: an answer is compared    *)
(* with the announced size for each arm of each switch.  Then the box,     *)
(* whose invariant says where the size of a call under way comes from and  *)
(* that a refresh of the host has read nothing stale unless another        *)
(* notification is on its way.  Then the controls of NullAudio, and last   *)
(* SimpleAudio's tables and levels.                                        *)
(***************************************************************************)
EXTENDS AudioProperties, VolumeCurve_proofs

\* The lists the device announces have the lengths it announces.
LEMMA ListLengths ==
    /\ \A m, n \in Nat : Len(Ids(m, n)) = n
    /\ \A s \in Scope : Len(DeviceOwnedObjects(s)) = (IF s = "Global" THEN 8 ELSE 4)
    /\ \A s \in Scope : Len(DeviceStreams(s)) = (IF s = "Global" THEN 2 ELSE 1)
    /\ Len(DeviceControlList) = 6
<1>1. ASSUME NEW m \in Nat, NEW n \in Nat PROVE Ids(m, n) \in Seq(Int) /\ Len(Ids(m, n)) = n
  BY DEF Ids
<1>2. \A s \in Scope : Len(DeviceOwnedObjects(s)) = (IF s = "Global" THEN 8 ELSE 4)
  BY <1>1 DEF DeviceOwnedObjects, Scope, kObjectID_Stream_Input, kObjectID_Stream_Output
<1>3. \A s \in Scope : Len(DeviceStreams(s)) = (IF s = "Global" THEN 2 ELSE 1)
  BY DEF DeviceStreams, Scope
<1>4. Len(DeviceControlList) = 6
  BY <1>1 DEF DeviceControlList, kObjectID_Volume_Input_Master, kObjectID_Volume_Output_Master
<1> QED  BY <1>1, <1>2, <1>3, <1>4

\* The objects, by number.
LEMMA ObjectNumbers ==
    /\ kObjectID_PlugIn = 1 /\ kObjectID_Box = 2 /\ kObjectID_Device = 3
    /\ Stream = {4, 8} /\ Volume = {5, 9} /\ Mute = {6, 10} /\ DataSource = {7, 11}
    /\ Control = {5, 6, 7, 9, 10, 11} /\ ObjectID = 1 .. 11
BY DEF kObjectID_PlugIn, kObjectID_Box, kObjectID_Device, kObjectID_Stream_Input, kObjectID_Volume_Input_Master,
    kObjectID_Mute_Input_Master, kObjectID_DataSource_Input_Master, kObjectID_Stream_Output, ObjectID,
    kObjectID_Volume_Output_Master, kObjectID_Mute_Output_Master, kObjectID_DataSource_Output_Master,
    Stream, Volume, Mute, DataSource, Control

\* The parts of an answer.
LEMMA Replies ==
    /\ \A n, v : Success(n, v).status = "ok" /\ Success(n, v).size = n /\ Success(n, v).value = v
    /\ \A e : Failure(e).status = e /\ Failure(e).size = -1 /\ Failure(e).value = 0
    /\ \A v : Fixed(Word, Word, v) = Success(Word, v) /\ Fixed(Ref, Ref, v) = Success(Ref, v)
    /\ Word = 4 /\ Ref = 8
BY DEF Success, Failure, Fixed, Word, Ref, Unset

\* An answer that refuses returns nothing.
LEMMA Refusals ==
    ASSUME NEW reply, reply = Failure("bad size") \/ reply = Failure("unknown")
    PROVE  reply.size = -1
<1>1. CASE reply = Failure("bad size")
  BY <1>1 DEF Failure, Unset
<1>2. CASE reply = Failure("unknown")
  BY <1>2 DEF Failure, Unset
<1> QED  BY <1>1, <1>2

\* With room for all of a list, all of it is returned.
LEMMA AllItems ==
    ASSUME NEW list, Len(list) \in Nat, NEW width \in {Word, ValueRange, RangedFormat}, NEW room, room = Len(list) * width
    PROVE  Items(list, width, room).status = "ok" /\ Items(list, width, room).size = room
<1>1. width \in {4, 16, 56}
  BY DEF Word, ValueRange, RangedFormat
<1>2. room \div width = Len(list)
  <2>1. CASE width = 4   BY <2>1
  <2>2. CASE width = 16  BY <2>2
  <2>3. CASE width = 56  BY <2>3
  <2> QED  BY <1>1, <2>1, <2>2, <2>3
<1> QED  BY <1>2, Replies DEF Items

Exact(announced, reply) ==
    /\ announced.status = "ok" /\ announced.size \in Int
    /\ reply.status = "ok" /\ reply.size = announced.size

\* A value of fixed size, given the room that was announced for it.
LEMMA FixedExact ==
    ASSUME NEW size \in Int, NEW u, NEW v, NEW announced, NEW reply,
           announced = Success(size, u), reply = Fixed(size, size, v)
    PROVE  Exact(announced, reply)
<1>1. ~(size < size)
  OBVIOUS
<1>2. reply = Success(size, v)
  BY <1>1 DEF Fixed
<1> QED  BY <1>2, Replies DEF Exact

\* A list, given the room that was announced for all of it.
LEMMA ItemsExact ==
    ASSUME NEW list, Len(list) \in Nat, NEW width \in {Word, ValueRange, RangedFormat}, NEW u,
           NEW announced, NEW reply,
           announced = Success(Len(list) * width, u), reply = Items(list, width, Len(list) * width)
    PROVE  Exact(announced, reply)
<1> DEFINE room == Len(list) * width
<1>1. Items(list, width, room).status = "ok" /\ Items(list, width, room).size = room
  BY AllItems
<1> HIDE DEF room
<1>2. announced = Success(room, u) /\ reply = Items(list, width, room)
  BY DEF room
<1> QED  BY <1>1, <1>2, Replies DEF Exact

\* The device announces what it returns, or refuses both.
LEMMA DeviceExact ==
    ASSUME NEW a, a.scope \in Scope, NEW s, NEW t
    PROVE  LET announced == GetDevicePropertyDataSize(a, s)
               reply == GetDevicePropertyData(a, announced.size, t)
           IN  Exact(announced, reply) \/ (~HasDeviceProperty(a) /\ announced.size = Unset /\ reply.size = Unset)
<1> SUFFICES ASSUME NEW announced, announced = GetDevicePropertyDataSize(a, s),
                    NEW reply, reply = GetDevicePropertyData(a, announced.size, t)
             PROVE  Exact(announced, reply)
                    \/ (~HasDeviceProperty(a) /\ announced.size = Unset /\ reply.size = Unset)
  OBVIOUS
<1> DEFINE Reply(room) == GetDevicePropertyData(a, room, t)
           first == {"BaseClass", "Class", "Owner", "Name", "Manufacturer", "OwnedObjects",
                     "DeviceUID", "ModelUID", "TransportType"}
           second == {"RelatedDevices", "ClockDomain", "DeviceIsAlive", "DeviceIsRunning",
                      "DeviceCanBeDefaultDevice", "DeviceCanBeDefaultSystemDevice", "Latency", "Streams"}
<1>1. /\ a.sel \in first => \A room : Reply(room) = GetDeviceIdentity(a, room)
      /\ a.sel \in second => \A room : Reply(room) = GetDeviceRelations(a, room, t)
      /\ a.sel \notin first /\ a.sel \notin second => \A room : Reply(room) = GetDeviceSettings(a, room, t)
  BY DEF GetDevicePropertyData
<1>2. CASE a.sel \in DeviceWord
  <2>1. announced = Success(Word, 0)
    BY <1>2 DEF GetDevicePropertyDataSize, DeviceWord, DeviceRef
  <2>2. PICK v : Reply(Word) = Fixed(Word, Word, v)
    BY <1>1, <1>2 DEF DeviceWord, GetDeviceIdentity, GetDeviceRelations, GetDeviceSettings
  <2>3. reply = Reply(announced.size) /\ announced.size = Word /\ Word \in Int
    BY <2>1, Replies
  <2> HIDE DEF Reply
  <2> QED  BY <2>1, <2>2, <2>3, FixedExact
<1>3. CASE a.sel \in DeviceRef
  <2>1. announced = Success(Ref, 0)
    BY <1>3 DEF GetDevicePropertyDataSize, DeviceWord, DeviceRef
  <2>2. PICK v : Reply(Ref) = Fixed(Ref, Ref, v)
    BY <1>1, <1>3 DEF DeviceRef, GetDeviceIdentity, GetDeviceSettings
  <2>3. reply = Reply(announced.size) /\ announced.size = Ref /\ Ref \in Int
    BY <2>1, Replies
  <2> HIDE DEF Reply
  <2> QED  BY <2>1, <2>2, <2>3, FixedExact
<1>4. CASE a.sel \in {"OwnedObjects", "Streams", "RelatedDevices", "ControlList"}
  <2>1. PICK list : /\ announced = Success(Len(list) * Word, 0) /\ Len(list) \in Nat
                    /\ \A room : Reply(room) = Items(list, Word, room)
    <3>1. CASE a.sel = "OwnedObjects"
      <4>1. announced = Success(Len(DeviceOwnedObjects(a.scope)) * Word, 0)
        BY <3>1, ListLengths DEF GetDevicePropertyDataSize, DeviceWord, DeviceRef
      <4>2. \A room : Reply(room) = Items(DeviceOwnedObjects(a.scope), Word, room)
        BY <1>1, <3>1 DEF GetDeviceIdentity
      <4> QED  BY <4>1, <4>2, ListLengths
    <3>2. CASE a.sel = "Streams"
      <4>1. announced = Success(Len(DeviceStreams(a.scope)) * Word, 0)
        BY <3>2, ListLengths DEF GetDevicePropertyDataSize, DeviceWord, DeviceRef
      <4>2. \A room : Reply(room) = Items(DeviceStreams(a.scope), Word, room)
        BY <1>1, <3>2 DEF GetDeviceRelations
      <4> QED  BY <4>1, <4>2, ListLengths
    <3>3. CASE a.sel = "RelatedDevices"
      <4>1. announced = Success(Word, 0) /\ Len(<<kObjectID_Device>>) = 1
        BY <3>3 DEF GetDevicePropertyDataSize, DeviceWord, DeviceRef
      <4>2. \A room : Reply(room) = Items(<<kObjectID_Device>>, Word, room)
        BY <1>1, <3>3 DEF GetDeviceRelations
      <4>3. announced = Success(Len(<<kObjectID_Device>>) * Word, 0) /\ Len(<<kObjectID_Device>>) \in Nat
        BY <4>1, Replies
      <4> HIDE DEF Reply
      <4> QED  BY <4>2, <4>3
    <3>4. CASE a.sel = "ControlList"
      <4>1. announced = Success(6 * Word, 0)
        BY <3>4 DEF GetDevicePropertyDataSize, DeviceWord, DeviceRef
      <4>2. \A room : Reply(room) = Items(DeviceControlList, Word, room)
        BY <1>1, <3>4 DEF GetDeviceSettings
      <4> HIDE DEF Reply
      <4>3. announced = Success(Len(DeviceControlList) * Word, 0) /\ Len(DeviceControlList) \in Nat
        BY <4>1, ListLengths
      <4> QED  BY <4>2, <4>3
    <3> QED  BY <1>4, <3>1, <3>2, <3>3, <3>4
  <2>2. reply = Reply(announced.size) /\ announced.size = Len(list) * Word
    BY <2>1, Replies
  <2> HIDE DEF Reply
  <2> QED  BY <2>1, <2>2, ItemsExact
<1>5. CASE a.sel \in {"AvailableNominalSampleRates", "PreferredChannelsForStereo", "PreferredChannelLayout"}
  <2>1. CASE a.sel = "AvailableNominalSampleRates"
    <3>1. announced = Success(2 * ValueRange, 0) /\ Len(<<44100, 48000>>) = 2
      BY <2>1 DEF GetDevicePropertyDataSize, DeviceWord, DeviceRef
    <3>2. \A room : Reply(room) = Items(<<44100, 48000>>, ValueRange, room)
      BY <1>1, <2>1 DEF GetDeviceSettings
    <3>3. announced = Success(Len(<<44100, 48000>>) * ValueRange, 0) /\ Len(<<44100, 48000>>) \in Nat
      BY <3>1
    <3>4. reply = Reply(announced.size) /\ announced.size = Len(<<44100, 48000>>) * ValueRange
      BY <3>3, Replies
    <3> DEFINE list == <<44100, 48000>>
    <3> HIDE DEF Reply, list
    <3>5. /\ announced = Success(Len(list) * ValueRange, 0) /\ Len(list) \in Nat
          /\ reply = Items(list, ValueRange, Len(list) * ValueRange)
      BY <3>2, <3>3, <3>4 DEF list
    <3> QED  BY <3>5, ItemsExact
  <2>2. CASE a.sel = "PreferredChannelsForStereo"
    <3>1. announced = Success(2 * Word, 0) /\ Reply(2 * Word) = Fixed(2 * Word, 2 * Word, 0)
      BY <1>1, <2>2 DEF GetDevicePropertyDataSize, DeviceWord, DeviceRef, GetDeviceSettings
    <3>2. reply = Reply(announced.size) /\ announced.size = 2 * Word /\ 2 * Word \in Int
      BY <3>1, Replies
    <3> HIDE DEF Reply
    <3> QED  BY <3>1, <3>2, FixedExact
  <2>3. CASE a.sel = "PreferredChannelLayout"
    <3>1. announced = Success(StereoLayout, 0) /\ Reply(StereoLayout) = Fixed(StereoLayout, StereoLayout, 0)
      BY <1>1, <2>3 DEF GetDevicePropertyDataSize, DeviceWord, DeviceRef, GetDeviceSettings
    <3>2. reply = Reply(announced.size) /\ announced.size = StereoLayout /\ StereoLayout \in Int
      BY <3>1, Replies DEF StereoLayout
    <3> HIDE DEF Reply
    <3> QED  BY <3>1, <3>2, FixedExact
  <2> QED  BY <1>5, <2>1, <2>2, <2>3
<1>6. CASE a.sel \notin DeviceWord \cup DeviceRef \cup
            {"OwnedObjects", "Streams", "RelatedDevices", "ControlList", "AvailableNominalSampleRates",
             "PreferredChannelsForStereo", "PreferredChannelLayout"}
  <2>1. announced = Failure("unknown")
    BY <1>6 DEF GetDevicePropertyDataSize
  <2>2. \A room : Reply(room) = Failure("unknown")
    BY <1>1, <1>6 DEF DeviceWord, DeviceRef, GetDeviceSettings
  <2>3. ~HasDeviceProperty(a)
    BY <1>6 DEF HasDeviceProperty, DeviceWord, DeviceRef, ScopedSelector
  <2> QED  BY <2>1, <2>2, <2>3, Replies DEF Unset
<1> QED  BY <1>2, <1>3, <1>4, <1>5, <1>6

\* So does a stream,
LEMMA StreamExact ==
    ASSUME NEW o, NEW a, NEW s, NEW t
    PROVE  LET announced == GetStreamPropertyDataSize(a, s)
               reply == GetStreamPropertyData(o, a, announced.size, t)
           IN  Exact(announced, reply) \/ (~HasStreamProperty(a) /\ announced.size = Unset /\ reply.size = Unset)
<1> SUFFICES ASSUME NEW announced, announced = GetStreamPropertyDataSize(a, s),
                    NEW reply, reply = GetStreamPropertyData(o, a, announced.size, t)
             PROVE  Exact(announced, reply)
                    \/ (~HasStreamProperty(a) /\ announced.size = Unset /\ reply.size = Unset)
  OBVIOUS
<1> DEFINE Reply(room) == GetStreamPropertyData(o, a, room, t)
<1>1. CASE a.sel \in {"BaseClass", "Class", "Owner"} \cup StreamWord
  <2>1. announced = Success(Word, 0)
    BY <1>1 DEF GetStreamPropertyDataSize, StreamWord, StreamFormat, StreamFormats
  <2>2. PICK v : Reply(Word) = Fixed(Word, Word, v)
    BY <1>1 DEF StreamWord, GetStreamPropertyData, GetStreamIdentity
  <2>3. reply = Reply(announced.size) /\ announced.size = Word /\ Word \in Int
    BY <2>1, Replies
  <2> HIDE DEF Reply
  <2> QED  BY <2>1, <2>2, <2>3, FixedExact
<1>2. CASE a.sel = "OwnedObjects"
  BY <1>2, Replies DEF GetStreamPropertyDataSize, GetStreamPropertyData, GetStreamIdentity, StreamWord,
      StreamFormat, StreamFormats, Exact
<1>3. CASE a.sel \in StreamFormat
  <2>1. announced = Success(Format, 0) /\ Reply(Format) = Fixed(Format, Format, 0)
    BY <1>3 DEF GetStreamPropertyDataSize, GetStreamPropertyData, GetStreamFormats, StreamWord, StreamFormat,
        StreamFormats
  <2>2. reply = Reply(announced.size) /\ announced.size = Format /\ Format \in Int
    BY <2>1, Replies DEF Format
  <2> HIDE DEF Reply
  <2> QED  BY <2>1, <2>2, FixedExact
<1>4. CASE a.sel \in StreamFormats
  <2> DEFINE list == <<44100, 48000>>
  <2>1. announced = Success(2 * RangedFormat, 0) /\ Len(list) = 2
    BY <1>4 DEF GetStreamPropertyDataSize, StreamWord, StreamFormat, StreamFormats
  <2>2. \A room : Reply(room) = Items(list, RangedFormat, room)
    BY <1>4 DEF GetStreamPropertyData, GetStreamFormats, StreamWord, StreamFormat, StreamFormats
  <2>3. reply = Reply(announced.size) /\ announced.size = 2 * RangedFormat
    BY <2>1, Replies
  <2> HIDE DEF Reply, list
  <2>4. /\ announced = Success(Len(list) * RangedFormat, 0) /\ Len(list) \in Nat
        /\ reply = Items(list, RangedFormat, Len(list) * RangedFormat)
    BY <2>1, <2>2, <2>3
  <2> QED  BY <2>4, ItemsExact
<1>5. CASE a.sel \notin {"BaseClass", "Class", "Owner", "OwnedObjects"} \cup StreamWord
                          \cup StreamFormat \cup StreamFormats
  BY <1>5, Replies DEF GetStreamPropertyDataSize, GetStreamPropertyData, GetStreamFormats, HasStreamProperty, Unset
<1> QED  BY <1>1, <1>2, <1>3, <1>4, <1>5

\* and so does a control.
LEMMA ControlExact ==
    ASSUME NEW o \in Control, NEW a, NEW s, NEW t
    PROVE  LET announced == GetControlPropertyDataSize(o, a, s)
               reply == GetControlPropertyData(o, a, announced.size, Qualifier(a), t)
           IN  Exact(announced, reply) \/ (~HasControlProperty(o, a) /\ announced.size = Unset /\ reply.size = Unset)
<1> SUFFICES ASSUME NEW announced, announced = GetControlPropertyDataSize(o, a, s),
                    NEW reply, reply = GetControlPropertyData(o, a, announced.size, Qualifier(a), t)
             PROVE  Exact(announced, reply)
                    \/ (~HasControlProperty(o, a) /\ announced.size = Unset /\ reply.size = Unset)
  OBVIOUS
<1> DEFINE Reply(room) == GetControlPropertyData(o, a, room, Qualifier(a), t)
<1>1. /\ o \in Volume \/ o \in Mute \/ o \in DataSource
      /\ o \in Volume => o \notin Mute /\ o \notin DataSource
      /\ o \in Mute => o \notin DataSource
  BY ObjectNumbers
<1>2. CASE a.sel \in ControlCommon
  <2>1. announced = GetControlCommonSize(a) /\ \A room : Reply(room) = GetControlCommon(a, room)
    BY <1>2 DEF GetControlPropertyDataSize, GetControlPropertyData, ControlCommon, LevelSelector
  <2>2. CASE a.sel = "OwnedObjects"
    BY <2>1, <2>2, Replies DEF GetControlCommonSize, GetControlCommon, Exact
  <2>3. CASE a.sel # "OwnedObjects"
    <3>1. announced = Success(Word, 0)
      BY <2>1, <2>3 DEF GetControlCommonSize
    <3>2. PICK v : Reply(Word) = Fixed(Word, Word, v)
      BY <2>1, <2>3 DEF GetControlCommon
    <3>3. reply = Reply(announced.size) /\ announced.size = Word /\ Word \in Int
      BY <3>1, Replies
    <3> HIDE DEF Reply
    <3> QED  BY <3>1, <3>2, <3>3, FixedExact
  <2> QED  BY <2>2, <2>3
<1>3. CASE a.sel \notin ControlCommon /\ o \in Volume
  <2>1. \A room : Reply(room) = GetVolumeData(o, a, room, t)
    BY <1>1, <1>3 DEF GetControlPropertyData
  <2>2. CASE a.sel = "DecibelRange"
    <3>1. announced = Success(ValueRange, 0) /\ Reply(ValueRange) = Fixed(ValueRange, ValueRange, 0)
      <4>1. announced = Success(ValueRange, 0)
        BY <1>1, <1>3, <2>2 DEF GetControlPropertyDataSize
      <4>2. Reply(ValueRange) = Fixed(ValueRange, ValueRange, 0)
        BY <2>1, <2>2 DEF GetVolumeData
      <4> QED  BY <4>1, <4>2
    <3>2. reply = Reply(announced.size) /\ announced.size = ValueRange /\ ValueRange \in Int
      BY <3>1, Replies DEF ValueRange
    <3> HIDE DEF Reply
    <3> QED  BY <3>1, <3>2, FixedExact
  <2>3. CASE a.sel \in LevelSelector \ {"DecibelRange"}
    <3>1. announced = Success(Word, 0)
      BY <1>1, <1>3, <2>3 DEF GetControlPropertyDataSize
    <3>2. PICK v : Reply(Word) = Fixed(Word, Word, v)
      BY <2>1, <2>3 DEF GetVolumeData, LevelSelector
    <3>3. reply = Reply(announced.size) /\ announced.size = Word /\ Word \in Int
      BY <3>1, Replies
    <3> HIDE DEF Reply
    <3> QED  BY <3>1, <3>2, <3>3, FixedExact
  <2>4. CASE a.sel \notin LevelSelector
    <3>1. announced = Failure("unknown") /\ \A room : Reply(room) = Failure("unknown")
      BY <1>1, <1>3, <2>1, <2>4 DEF GetControlPropertyDataSize, GetVolumeData, LevelSelector
    <3> QED  BY <1>1, <1>3, <2>4, <3>1, Replies DEF HasControlProperty, Unset
  <2> QED  BY <2>2, <2>3, <2>4
<1>4. CASE a.sel \notin ControlCommon /\ o \in Mute
  <2>1. \A room : Reply(room) = GetMuteData(o, a, room, t)
    BY <1>1, <1>4 DEF GetControlPropertyData
  <2>2. CASE a.sel = "BooleanValue"
    <3>1. announced = Success(Word, 0)
      BY <1>1, <1>4, <2>2 DEF GetControlPropertyDataSize
    <3>2. PICK v : Reply(Word) = Fixed(Word, Word, v)
      BY <2>1, <2>2 DEF GetMuteData
    <3>3. reply = Reply(announced.size) /\ announced.size = Word /\ Word \in Int
      BY <3>1, Replies
    <3> HIDE DEF Reply
    <3> QED  BY <3>1, <3>2, <3>3, FixedExact
  <2>3. CASE a.sel # "BooleanValue"
    <3>1. announced = Failure("unknown") /\ \A room : Reply(room) = Failure("unknown")
      BY <1>1, <1>4, <2>1, <2>3 DEF GetControlPropertyDataSize, GetMuteData
    <3> QED  BY <1>1, <1>4, <2>3, <3>1, Replies DEF HasControlProperty, Unset
  <2> QED  BY <2>2, <2>3
<1>5. CASE a.sel \notin ControlCommon /\ o \in DataSource
  <2>1. \A room : Reply(room) = GetDataSourceData(o, a, room, Qualifier(a), t)
    BY <1>1, <1>5 DEF GetControlPropertyData
  <2>2. CASE a.sel = "CurrentItem"
    <3>1. announced = Success(Word, 0)
      BY <1>1, <1>5, <2>2 DEF GetControlPropertyDataSize
    <3>2. PICK v : Reply(Word) = Fixed(Word, Word, v)
      BY <2>1, <2>2 DEF GetDataSourceData
    <3>3. reply = Reply(announced.size) /\ announced.size = Word /\ Word \in Int
      BY <3>1, Replies
    <3> HIDE DEF Reply
    <3> QED  BY <3>1, <3>2, <3>3, FixedExact
  <2>3. CASE a.sel = "AvailableItems"
    <3> DEFINE list == Ids(0, kDataSource_NumberItems)
    <3>1. announced = Success(4 * Word, 0) /\ Len(list) = 4
      BY <1>1, <1>5, <2>3, ListLengths DEF GetControlPropertyDataSize, kDataSource_NumberItems
    <3>2. \A room : Reply(room) = Items(list, Word, room)
      BY <2>1, <2>3 DEF GetDataSourceData
    <3>3. reply = Reply(announced.size) /\ announced.size = 4 * Word
      BY <3>1, Replies
    <3> HIDE DEF Reply, list
    <3>4. /\ announced = Success(Len(list) * Word, 0) /\ Len(list) \in Nat
          /\ reply = Items(list, Word, Len(list) * Word)
      BY <3>1, <3>2, <3>3
    <3> QED  BY <3>4, ItemsExact
  <2>4. CASE a.sel = "ItemName"
    <3>1. announced = Success(Ref, 0)
      BY <1>1, <1>5, <2>4 DEF GetControlPropertyDataSize
    <3>2. Reply(Ref) = Fixed(Ref, Ref, 0)
      BY <2>1, <2>4 DEF GetDataSourceData, Qualifier
    <3>3. reply = Reply(announced.size) /\ announced.size = Ref /\ Ref \in Int
      BY <3>1, Replies
    <3> HIDE DEF Reply
    <3> QED  BY <3>1, <3>2, <3>3, FixedExact
  <2>5. CASE a.sel \notin {"CurrentItem", "AvailableItems", "ItemName"}
    <3>1. announced = Failure("unknown") /\ \A room : Reply(room) = Failure("unknown")
      BY <1>1, <1>5, <2>1, <2>5 DEF GetControlPropertyDataSize, GetDataSourceData
    <3> QED  BY <1>1, <1>5, <2>5, <3>1, Replies DEF HasControlProperty, Unset
  <2> QED  BY <2>2, <2>3, <2>4, <2>5
<1> QED  BY <1>1, <1>2, <1>3, <1>4, <1>5

\* The box answers within the announced size even when it has been acquired or
\* released since.
LEMMA BoxFits ==
    ASSUME NEW a, NEW s, NEW t, s.acquired \in BOOLEAN, t.acquired \in BOOLEAN
    PROVE  LET announced == GetBoxPropertyDataSize(a, s)
               reply == GetBoxPropertyData(a, announced.size, t)
           IN  /\ reply.size <= announced.size
               /\ HasBoxProperty(a) => announced.status = "ok"
               /\ HasBoxProperty(a) /\ a.sel # "BoxUID" /\ s = t => Exact(announced, reply)
<1> SUFFICES ASSUME NEW announced, announced = GetBoxPropertyDataSize(a, s),
                    NEW reply, reply = GetBoxPropertyData(a, announced.size, t)
             PROVE  /\ reply.size <= announced.size
                    /\ HasBoxProperty(a) => announced.status = "ok"
                    /\ HasBoxProperty(a) /\ a.sel # "BoxUID" /\ s = t => Exact(announced, reply)
  OBVIOUS
<1> DEFINE Reply(room) == GetBoxPropertyData(a, room, t)
<1>0. ASSUME announced.size \in Int, Exact(announced, reply)
      PROVE  reply.size <= announced.size /\ announced.status = "ok"
  BY <1>0 DEF Exact
<1>1. CASE a.sel \in {"BaseClass", "Class", "Owner"} \cup BoxWord
  <2>1. announced = Success(Word, 0)
    BY <1>1 DEF GetBoxPropertyDataSize, BoxWord
  <2>2. PICK v : Reply(Word) = Fixed(Word, Word, v)
    BY <1>1 DEF GetBoxPropertyData, GetBoxIdentity, GetBoxStatus, BoxWord
  <2>3. reply = Reply(announced.size) /\ announced.size = Word /\ Word \in Int
    BY <2>1, Replies
  <2> HIDE DEF Reply
  <2>4. Exact(announced, reply)
    BY <2>1, <2>2, <2>3, FixedExact
  <2> QED  BY <1>0, <2>3, <2>4
<1>2. CASE a.sel \in {"Name", "ModelName", "Manufacturer", "SerialNumber", "FirmwareVersion"}
  <2>1. announced = Success(Ref, 0)
    BY <1>2 DEF GetBoxPropertyDataSize, BoxWord
  <2>2. PICK v : Reply(Ref) = Fixed(Ref, Ref, v)
    BY <1>2 DEF GetBoxPropertyData, GetBoxIdentity
  <2>3. reply = Reply(announced.size) /\ announced.size = Ref /\ Ref \in Int
    BY <2>1, Replies
  <2> HIDE DEF Reply
  <2>4. Exact(announced, reply)
    BY <2>1, <2>2, <2>3, FixedExact
  <2> QED  BY <1>0, <2>3, <2>4
<1>3. CASE a.sel = "OwnedObjects"
  <2>1. announced = Success(0, 0) /\ reply = Success(0, <<>>)
    BY <1>3 DEF GetBoxPropertyDataSize, GetBoxPropertyData, GetBoxIdentity, BoxWord
  <2> QED  BY <2>1, Replies DEF Exact
<1>4. CASE a.sel = "DeviceList"
  <2>1. announced = Success(IF s.acquired THEN Word ELSE 0, 0)
    BY <1>4 DEF GetBoxPropertyDataSize, BoxWord
  <2>2. \A room : Reply(room) = IF t.acquired THEN Fixed(Word, room, <<kObjectID_Device>>) ELSE Success(0, <<>>)
    BY <1>4 DEF GetBoxPropertyData, GetBoxStatus, BoxWord
  <2>3. reply = Reply(announced.size)
    OBVIOUS
  <2> HIDE DEF Reply
  <2>4. CASE s.acquired /\ t.acquired
    <3>1. announced = Success(Word, 0) /\ announced.size = Word /\ Word \in Int
      BY <2>1, <2>4, Replies
    <3>2. Exact(announced, reply)
      BY <2>2, <2>3, <2>4, <3>1, FixedExact
    <3> QED  BY <1>0, <3>1, <3>2
  <2>5. CASE ~t.acquired
    BY <2>1, <2>2, <2>3, <2>5, Replies DEF Exact
  <2>6. CASE ~s.acquired /\ t.acquired
    <3>1. announced = Success(0, 0) /\ reply = Fixed(Word, 0, <<kObjectID_Device>>)
      BY <2>1, <2>2, <2>3, <2>6, Replies
    <3>2. 0 < Word
      BY Replies
    <3>3. reply = Failure("bad size")
      BY <3>1, <3>2, Zenon DEF Fixed
    <3>4. announced.size = 0 /\ announced.status = "ok"
      BY <3>1, Replies
    <3>6. reply.size = -1
      BY <3>3, Refusals
    <3>5. s # t
      BY <2>6
    <3> QED  BY <3>4, <3>5, <3>6
  <2> QED  BY <2>4, <2>5, <2>6
<1>5. CASE a.sel = "BoxUID"
  <2>1. announced = Success(Ref, 0)
    BY <1>5 DEF GetBoxPropertyDataSize, BoxWord
  <2>2. \A room : Reply(room) = IF room < Ref THEN Failure("bad size") ELSE Success(Unset, 0)
    BY <1>5 DEF GetBoxPropertyData, GetBoxIdentity
  <2>3. reply = Reply(announced.size) /\ announced.size = Ref /\ announced.status = "ok" /\ ~(Ref < Ref)
    BY <2>1, Replies
  <2> HIDE DEF Reply
  <2>4. reply = Success(Unset, 0)
    BY <2>2, <2>3
  <2>5. reply.size = -1
    BY <2>4, Replies DEF Unset
  <2> QED  BY <1>5, <2>3, <2>5, Replies
<1>6. CASE ~HasBoxProperty(a)
  <2>1. announced = Failure("unknown") /\ reply = Failure("unknown")
    BY <1>6 DEF HasBoxProperty, GetBoxPropertyDataSize, GetBoxPropertyData, GetBoxStatus, BoxWord
  <2> QED  BY <1>6, <2>1, Replies
<1> QED  BY <1>1, <1>2, <1>3, <1>4, <1>5, <1>6 DEF HasBoxProperty

\* So does the plug-in, between whose two readings the box may change as well.
LEMMA PlugInFits ==
    ASSUME NEW a, NEW s, s.acquired \in BOOLEAN, NEW first \in BOOLEAN, NEW second \in BOOLEAN,
           NEW qualifier
    PROVE  LET announced == GetPlugInPropertyDataSize(a, s)
               reply == GetPlugInPropertyData(a, announced.size, qualifier, first, second)
           IN  /\ reply.size <= announced.size
               /\ HasPlugInProperty(a) => announced.status = "ok"
               /\ HasPlugInProperty(a) /\ a.sel \notin Misanswered /\ first = s.acquired /\ second = s.acquired
                    => Exact(announced, reply)
<1> SUFFICES ASSUME NEW announced, announced = GetPlugInPropertyDataSize(a, s),
                    NEW reply, reply = GetPlugInPropertyData(a, announced.size, qualifier, first, second)
             PROVE  /\ reply.size <= announced.size
                    /\ HasPlugInProperty(a) => announced.status = "ok"
                    /\ HasPlugInProperty(a) /\ a.sel \notin Misanswered /\ first = s.acquired
                         /\ second = s.acquired => Exact(announced, reply)
  OBVIOUS
<1> DEFINE Reply(room) == GetPlugInPropertyData(a, room, qualifier, first, second)
<1>0. ASSUME announced.size \in Int, Exact(announced, reply)
      PROVE  reply.size <= announced.size /\ announced.status = "ok"
  BY <1>0 DEF Exact
<1>1. CASE a.sel \in {"BaseClass", "Class", "Owner"}
  <2>1. announced = Success(Word, 0)
    BY <1>1 DEF GetPlugInPropertyDataSize
  <2>2. PICK v : Reply(Word) = Fixed(Word, Word, v)
    BY <1>1 DEF GetPlugInPropertyData
  <2>3. reply = Reply(announced.size) /\ announced.size = Word /\ Word \in Int
    BY <2>1, Replies
  <2> HIDE DEF Reply
  <2>4. Exact(announced, reply)
    BY <2>1, <2>2, <2>3, FixedExact
  <2> QED  BY <1>0, <2>3, <2>4
<1>2. CASE a.sel \in {"Manufacturer", "ResourceBundle"}
  <2>1. announced = Success(Ref, 0) /\ announced.size = Ref
    BY <1>2, Replies DEF GetPlugInPropertyDataSize
  <2>2. Reply(Ref) = IF a.sel = "Manufacturer" THEN Fixed(Ref, Ref, 0)
                     ELSE IF Ref < Word THEN Failure("bad size") ELSE Success(Ref, 0)
    BY <1>2 DEF GetPlugInPropertyData
  <2>3. reply = Success(Ref, 0)
    BY <2>1, <2>2, Replies
  <2> QED  BY <2>1, <2>3, Replies DEF Exact
<1>3. CASE a.sel = "BoxList"
  <2> DEFINE list == <<kObjectID_Box>>
  <2>1. announced = Success(Word, 0) /\ Len(list) = 1
    BY <1>3 DEF GetPlugInPropertyDataSize
  <2>2. \A room : Reply(room) = Items(list, Word, room)
    BY <1>3 DEF GetPlugInPropertyData
  <2>3. reply = Reply(announced.size) /\ announced.size = Word
    BY <2>1, Replies
  <2> HIDE DEF Reply, list
  <2>4. Len(list) * Word = Word /\ Word \in Int
    BY <2>1, Replies
  <2>5. Exact(announced, reply)
    <3>1. /\ announced = Success(Len(list) * Word, 0) /\ Len(list) \in Nat
          /\ reply = Items(list, Word, Len(list) * Word)
      BY <2>1, <2>2, <2>3, <2>4
    <3> QED  BY <3>1, ItemsExact
  <2> QED  BY <1>0, <2>3, <2>4, <2>5
<1>4. CASE a.sel \in {"TranslateUIDToBox", "TranslateUIDToDevice"}
  <2>1. announced = Success(Word, 0)
    BY <1>4 DEF GetPlugInPropertyDataSize
  <2>2. \A room : Reply(room) = IF room < Word \/ qualifier = Ref THEN Failure("bad size") ELSE Success(Word, 0)
    BY <1>4 DEF GetPlugInPropertyData
  <2>3. reply = Failure("bad size") \/ reply = Success(Word, 0)
    BY <2>2
  <2>4. reply.size \in {-1, Word} /\ announced.size = Word /\ announced.status = "ok"
    <3>1. CASE reply = Failure("bad size")
      <4>1. reply.size = -1
        BY <3>1, Refusals
      <4> QED  BY <2>1, <4>1, Replies
    <3>2. CASE reply = Success(Word, 0)
      BY <2>1, <3>2, Replies
    <3> QED  BY <2>3, <3>1, <3>2
  <2>5. reply.size <= announced.size
    BY <2>4, Replies
  <2> QED  BY <1>4, <2>4, <2>5 DEF Misanswered
<1>5. CASE a.sel \in {"OwnedObjects", "DeviceList"}
  <2> DEFINE was == PlugInListLength(a, s.acquired)
             one == PlugInListLength(a, first)
             two == PlugInListLength(a, second)
             n == ItemsToFetch(a, announced.size, first, second)
  <2>1. announced = Success(was * Word, 0)
    BY <1>5, Replies DEF GetPlugInPropertyDataSize, PlugInListLength
  <2>2. reply = Success(n * Word, PlugInList(a, n))
    BY <1>5 DEF GetPlugInPropertyData
  <2>3. PICK top \in {1, 2} : {was, one, two} \subseteq {top, top - 1}
    <3>1. CASE a.sel = "OwnedObjects"
      BY <3>1 DEF PlugInListLength
    <3>2. CASE a.sel # "OwnedObjects"
      BY <3>2 DEF PlugInListLength
    <3> QED  BY <3>1, <3>2
  <2>4. n = IF announced.size \div Word > one THEN two ELSE announced.size \div Word
    BY DEF ItemsToFetch
  <2>5. first = s.acquired => one = was
    OBVIOUS
  <2>0. second = s.acquired => two = was
    OBVIOUS
  <2> HIDE DEF was, one, two, n
  <2>6. was \in {0, 1, 2} /\ one \in {0, 1, 2} /\ two \in {0, 1, 2}
    BY <2>3
  <2>7. Word = 4 /\ announced.size = was * Word /\ announced.status = "ok"
    BY <2>1, Replies
  <2>8. announced.size \div Word = was
    BY <2>6, <2>7
  <2>9. n \in {0, 1, 2} /\ n <= was
    BY <2>3, <2>4, <2>6, <2>8
  <2>10. reply.size = n * Word /\ reply.status = "ok"
    BY <2>2, Replies
  <2>11. reply.size <= announced.size
    BY <2>6, <2>7, <2>9, <2>10
  <2>12. first = s.acquired /\ second = s.acquired => reply.size = announced.size
    BY <2>0, <2>4, <2>5, <2>7, <2>8, <2>10
  <2>13. announced.size \in Int
    BY <2>6, <2>7
  <2> QED  BY <2>7, <2>10, <2>11, <2>12, <2>13 DEF Exact
<1>6. CASE ~HasPlugInProperty(a)
  <2>1. announced = Failure("unknown") /\ reply = Failure("unknown")
    BY <1>6 DEF HasPlugInProperty, PlugInSelector, GetPlugInPropertyDataSize, GetPlugInPropertyData
  <2> QED  BY <1>6, <2>1, Replies
<1> QED  BY <1>1, <1>2, <1>3, <1>4, <1>5, <1>6 DEF HasPlugInProperty, PlugInSelector
-----------------------------------------------------------------------------
\* The dispatchers choose one table for each object.
LEMMA Dispatched ==
    ASSUME NEW a, NEW s, NEW room, NEW qualifier
    PROVE  /\ HasProperty(kObjectID_PlugIn, a) = HasPlugInProperty(a)
           /\ IsPropertySettable(kObjectID_PlugIn, a) = IsPlugInPropertySettable(a)
           /\ GetPropertyDataSize(kObjectID_PlugIn, a, s) = GetPlugInPropertyDataSize(a, s)
           /\ GetPropertyData(kObjectID_PlugIn, a, room, qualifier, s)
                = GetPlugInPropertyData(a, room, qualifier, s.acquired, s.acquired)
           /\ HasProperty(kObjectID_Box, a) = HasBoxProperty(a)
           /\ IsPropertySettable(kObjectID_Box, a) = IsBoxPropertySettable(a)
           /\ GetPropertyDataSize(kObjectID_Box, a, s) = GetBoxPropertyDataSize(a, s)
           /\ GetPropertyData(kObjectID_Box, a, room, qualifier, s) = GetBoxPropertyData(a, room, s)
           /\ HasProperty(kObjectID_Device, a) = HasDeviceProperty(a)
           /\ IsPropertySettable(kObjectID_Device, a) = IsDevicePropertySettable(a)
           /\ GetPropertyDataSize(kObjectID_Device, a, s) = GetDevicePropertyDataSize(a, s)
           /\ GetPropertyData(kObjectID_Device, a, room, qualifier, s) = GetDevicePropertyData(a, room, s)
           /\ \A o \in Stream :
                /\ HasProperty(o, a) = HasStreamProperty(a)
                /\ IsPropertySettable(o, a) = IsStreamPropertySettable(a)
                /\ GetPropertyDataSize(o, a, s) = GetStreamPropertyDataSize(a, s)
                /\ GetPropertyData(o, a, room, qualifier, s) = GetStreamPropertyData(o, a, room, s)
           /\ \A o \in Control :
                /\ HasProperty(o, a) = HasControlProperty(o, a)
                /\ IsPropertySettable(o, a) = IsControlPropertySettable(o, a)
                /\ GetPropertyDataSize(o, a, s) = GetControlPropertyDataSize(o, a, s)
                /\ GetPropertyData(o, a, room, qualifier, s) = GetControlPropertyData(o, a, room, qualifier, s)
<1>1. ASSUME NEW o \in ObjectID
      PROVE  /\ o = kObjectID_PlugIn => o # kObjectID_Box /\ o # kObjectID_Device /\ o \notin Stream /\ o \notin Control
             /\ o = kObjectID_Box => o # kObjectID_PlugIn /\ o # kObjectID_Device /\ o \notin Stream /\ o \notin Control
             /\ o = kObjectID_Device => o # kObjectID_PlugIn /\ o # kObjectID_Box /\ o \notin Stream /\ o \notin Control
             /\ o \in Stream => o # kObjectID_PlugIn /\ o # kObjectID_Box /\ o # kObjectID_Device /\ o \notin Control
             /\ o \in Control => o # kObjectID_PlugIn /\ o # kObjectID_Box /\ o # kObjectID_Device /\ o \notin Stream
  BY ObjectNumbers
<1>2. kObjectID_PlugIn \in ObjectID /\ kObjectID_Box \in ObjectID /\ kObjectID_Device \in ObjectID
      /\ Stream \subseteq ObjectID /\ Control \subseteq ObjectID
  BY ObjectNumbers
<1>3. /\ HasProperty(kObjectID_PlugIn, a) = HasPlugInProperty(a)
      /\ IsPropertySettable(kObjectID_PlugIn, a) = IsPlugInPropertySettable(a)
      /\ GetPropertyDataSize(kObjectID_PlugIn, a, s) = GetPlugInPropertyDataSize(a, s)
      /\ GetPropertyData(kObjectID_PlugIn, a, room, qualifier, s)
                = GetPlugInPropertyData(a, room, qualifier, s.acquired, s.acquired)
  BY <1>1, <1>2 DEF HasProperty, IsPropertySettable, GetPropertyDataSize, GetPropertyData
<1>4. /\ HasProperty(kObjectID_Box, a) = HasBoxProperty(a)
      /\ IsPropertySettable(kObjectID_Box, a) = IsBoxPropertySettable(a)
      /\ GetPropertyDataSize(kObjectID_Box, a, s) = GetBoxPropertyDataSize(a, s)
      /\ GetPropertyData(kObjectID_Box, a, room, qualifier, s) = GetBoxPropertyData(a, room, s)
  BY <1>1, <1>2 DEF HasProperty, IsPropertySettable, GetPropertyDataSize, GetPropertyData
<1>5. /\ HasProperty(kObjectID_Device, a) = HasDeviceProperty(a)
      /\ IsPropertySettable(kObjectID_Device, a) = IsDevicePropertySettable(a)
      /\ GetPropertyDataSize(kObjectID_Device, a, s) = GetDevicePropertyDataSize(a, s)
      /\ GetPropertyData(kObjectID_Device, a, room, qualifier, s) = GetDevicePropertyData(a, room, s)
  BY <1>1, <1>2 DEF HasProperty, IsPropertySettable, GetPropertyDataSize, GetPropertyData
<1>6. ASSUME NEW o \in Stream
      PROVE  /\ HasProperty(o, a) = HasStreamProperty(a)
             /\ IsPropertySettable(o, a) = IsStreamPropertySettable(a)
             /\ GetPropertyDataSize(o, a, s) = GetStreamPropertyDataSize(a, s)
             /\ GetPropertyData(o, a, room, qualifier, s) = GetStreamPropertyData(o, a, room, s)
  BY <1>1, <1>2 DEF HasProperty, IsPropertySettable, GetPropertyDataSize, GetPropertyData
<1>7. ASSUME NEW o \in Control
      PROVE  /\ HasProperty(o, a) = HasControlProperty(o, a)
             /\ IsPropertySettable(o, a) = IsControlPropertySettable(o, a)
             /\ GetPropertyDataSize(o, a, s) = GetControlPropertyDataSize(o, a, s)
             /\ GetPropertyData(o, a, room, qualifier, s) = GetControlPropertyData(o, a, room, qualifier, s)
  BY <1>1, <1>2 DEF HasProperty, IsPropertySettable, GetPropertyDataSize, GetPropertyData
<1> QED  BY <1>3, <1>4, <1>5, <1>6, <1>7

\* The answer of any object fits in the announced room, whatever has happened
\* to the box in between.
LEMMA AnswerFits ==
    ASSUME NEW o \in ObjectID, NEW a, a.scope \in Scope, NEW s, s.acquired \in BOOLEAN,
           NEW t, t.acquired \in BOOLEAN
    PROVE  LET announced == GetPropertyDataSize(o, a, s)
           IN  GetPropertyData(o, a, announced.size, Qualifier(a), t).size <= announced.size
<1> DEFINE announced == GetPropertyDataSize(o, a, s)
           reply == GetPropertyData(o, a, announced.size, Qualifier(a), t)
<1>0. o = kObjectID_PlugIn \/ o = kObjectID_Box \/ o = kObjectID_Device \/ o \in Stream \/ o \in Control
  BY ObjectNumbers
<1>1. CASE o = kObjectID_PlugIn
  <2>1. /\ announced = GetPlugInPropertyDataSize(a, s)
        /\ reply = GetPlugInPropertyData(a, announced.size, Qualifier(a), t.acquired, t.acquired)
    BY <1>1, Dispatched
  <2> HIDE DEF announced, reply
  <2> QED  BY <2>1, PlugInFits DEF announced, reply
<1>2. CASE o = kObjectID_Box
  <2>1. announced = GetBoxPropertyDataSize(a, s) /\ reply = GetBoxPropertyData(a, announced.size, t)
    BY <1>2, Dispatched
  <2> HIDE DEF announced, reply
  <2> QED  BY <2>1, BoxFits DEF announced, reply
<1>3. CASE o \notin {kObjectID_PlugIn, kObjectID_Box}
  <2>1. Exact(announced, reply) \/ (announced.size = Unset /\ reply.size = Unset)
    <3>1. CASE o = kObjectID_Device
      <4>1. announced = GetDevicePropertyDataSize(a, s) /\ reply = GetDevicePropertyData(a, announced.size, t)
        BY <3>1, Dispatched
      <4> HIDE DEF announced, reply
      <4> QED  BY <4>1, DeviceExact
    <3>2. CASE o \in Stream
      <4>1. announced = GetStreamPropertyDataSize(a, s)
        BY <3>2, Dispatched
      <4>2. reply = GetStreamPropertyData(o, a, announced.size, t)
        BY ZenonT(20), <3>2, Dispatched
      <4> HIDE DEF announced, reply
      <4> QED  BY <4>1, <4>2, StreamExact
    <3>3. CASE o \in Control
      <4>1. announced = GetControlPropertyDataSize(o, a, s)
        BY <3>3, Dispatched
      <4>2. reply = GetControlPropertyData(o, a, announced.size, Qualifier(a), t)
        BY ZenonT(20), <3>3, Dispatched
      <4> HIDE DEF announced, reply
      <4> QED  BY <3>3, <4>1, <4>2, ControlExact
    <3> QED  BY <1>0, <1>3, <3>1, <3>2, <3>3
  <2>2. reply.size = announced.size /\ announced.size \in Int
    BY <2>1 DEF Exact, Unset
  <2> HIDE DEF announced, reply
  <2>3. reply.size <= announced.size
    BY <2>2
  <2> QED  BY <2>3 DEF announced, reply
<1> QED  BY <1>1, <1>2, <1>3

\* Which properties can be set is what the setters take.
LEMMA SettableAgrees ==
    ASSUME NEW o \in ObjectID, NEW a, a.scope \in Scope, HasProperty(o, a)
    PROVE  IsPropertySettable(o, a) = IF a.sel \in Setter(o) THEN "yes" ELSE "no"
<1>0. o = kObjectID_PlugIn \/ o = kObjectID_Box \/ o = kObjectID_Device \/ o \in Stream \/ o \in Control
  BY ObjectNumbers
<1>1. CASE o = kObjectID_PlugIn
  <2>1. Setter(o) = {}
    BY <1>1, ObjectNumbers DEF Setter
  <2> QED  BY <1>1, <2>1, Dispatched DEF HasPlugInProperty, IsPlugInPropertySettable
<1>2. CASE o = kObjectID_Box
  <2>1. Setter(o) = {"Name", "Identify", "Acquired"}
    BY <1>2, ObjectNumbers DEF Setter
  <2>2. HasBoxProperty(a) /\ IsPropertySettable(o, a) = IsBoxPropertySettable(a)
    BY <1>2, Dispatched
  <2> QED  BY <2>1, <2>2 DEF HasBoxProperty, IsBoxPropertySettable, BoxWord
<1>3. CASE o = kObjectID_Device
  <2>1. Setter(o) = {"NominalSampleRate"}
    BY <1>3, ObjectNumbers DEF Setter
  <2>2. HasDeviceProperty(a) /\ IsPropertySettable(o, a) = IsDevicePropertySettable(a)
    BY <1>3, Dispatched
  <2> QED  BY <2>1, <2>2 DEF HasDeviceProperty, IsDevicePropertySettable, ScopedSelector
<1>4. CASE o \in Stream
  <2>1. Setter(o) = {"IsActive"} \cup StreamFormat
    BY <1>4, ObjectNumbers DEF Setter
  <2>2. HasStreamProperty(a) /\ IsPropertySettable(o, a) = IsStreamPropertySettable(a)
    BY <1>4, Dispatched
  <2> QED  BY <2>1, <2>2 DEF HasStreamProperty, IsStreamPropertySettable, StreamWord, StreamFormat, StreamFormats
<1>5. CASE o \in Control
  <2>1. HasControlProperty(o, a) /\ IsPropertySettable(o, a) = IsControlPropertySettable(o, a)
    BY <1>5, Dispatched
  <2>2. /\ o \in Volume \/ o \in Mute \/ o \in DataSource
        /\ o \in Volume => o \notin Mute /\ o \notin DataSource
        /\ o \in Mute => o \notin DataSource
    BY <1>5, ObjectNumbers
  <2>3. CASE o \in Volume
    <3>1. Setter(o) = {"ScalarValue", "DecibelValue"}
      BY <2>3, ObjectNumbers DEF Setter
    <3> QED  BY <2>1, <2>2, <2>3, <3>1 DEF HasControlProperty, IsControlPropertySettable, ControlCommon, LevelSelector
  <2>4. CASE o \in Mute
    <3>1. Setter(o) = {"BooleanValue"}
      BY <2>4, ObjectNumbers DEF Setter
    <3> QED  BY <2>1, <2>2, <2>4, <3>1 DEF HasControlProperty, IsControlPropertySettable, ControlCommon, LevelSelector
  <2>5. CASE o \in DataSource
    <3>1. Setter(o) = {"CurrentItem"}
      BY <2>5, ObjectNumbers DEF Setter
    <3> QED  BY <2>1, <2>2, <2>5, <3>1 DEF HasControlProperty, IsControlPropertySettable, ControlCommon, LevelSelector
  <2> QED  BY <2>2, <2>3, <2>4, <2>5
<1> QED  BY <1>0, <1>1, <1>2, <1>3, <1>4, <1>5

\* The announced size is that of the answer.
LEMMA AnswerAgrees ==
    ASSUME NEW o \in ObjectID, NEW a, a.scope \in Scope, HasProperty(o, a), NEW s, s.acquired \in BOOLEAN
    PROVE  LET announced == GetPropertyDataSize(o, a, s)
               reply == GetPropertyData(o, a, announced.size, Qualifier(a), s)
           IN  /\ announced.status = "ok"
               /\ a.sel \notin Misanswered => reply.status = "ok" /\ reply.size = announced.size
<1> DEFINE announced == GetPropertyDataSize(o, a, s)
           reply == GetPropertyData(o, a, announced.size, Qualifier(a), s)
<1>0. o = kObjectID_PlugIn \/ o = kObjectID_Box \/ o = kObjectID_Device \/ o \in Stream \/ o \in Control
  BY ObjectNumbers
<1>1. announced.status = "ok" /\ (a.sel \notin Misanswered => Exact(announced, reply))
  <2>1. CASE o = kObjectID_PlugIn
    <3>1. /\ announced = GetPlugInPropertyDataSize(a, s) /\ HasPlugInProperty(a)
          /\ reply = GetPlugInPropertyData(a, announced.size, Qualifier(a), s.acquired, s.acquired)
      BY <2>1, Dispatched
    <3> HIDE DEF announced, reply
    <3> QED  BY <3>1, PlugInFits
  <2>2. CASE o = kObjectID_Box
    <3>1. /\ announced = GetBoxPropertyDataSize(a, s) /\ HasBoxProperty(a)
          /\ reply = GetBoxPropertyData(a, announced.size, s)
      BY <2>2, Dispatched
    <3>2. a.sel \notin Misanswered => a.sel # "BoxUID"
      BY DEF Misanswered
    <3> HIDE DEF announced, reply
    <3> QED  BY <3>1, <3>2, BoxFits
  <2>3. CASE o = kObjectID_Device
    <3>1. /\ announced = GetDevicePropertyDataSize(a, s) /\ HasDeviceProperty(a)
          /\ reply = GetDevicePropertyData(a, announced.size, s)
      BY <2>3, Dispatched
    <3> HIDE DEF announced, reply
    <3>2. Exact(announced, reply)
      BY <3>1, DeviceExact
    <3> QED  BY <3>2 DEF Exact
  <2>4. CASE o \in Stream
    <3>1. /\ announced = GetStreamPropertyDataSize(a, s) /\ HasStreamProperty(a)
          /\ reply = GetStreamPropertyData(o, a, announced.size, s)
      BY <2>4, Dispatched
    <3> HIDE DEF announced, reply
    <3>2. Exact(announced, reply)
      BY <3>1, StreamExact
    <3> QED  BY <3>2 DEF Exact
  <2>5. CASE o \in Control
    <3>1. /\ announced = GetControlPropertyDataSize(o, a, s) /\ HasControlProperty(o, a)
          /\ reply = GetControlPropertyData(o, a, announced.size, Qualifier(a), s)
      BY <2>5, Dispatched
    <3> HIDE DEF announced, reply
    <3>2. Exact(announced, reply)
      BY <2>5, <3>1, ControlExact
    <3> QED  BY <3>2 DEF Exact
  <2> QED  BY <1>0, <2>1, <2>2, <2>3, <2>4, <2>5
<1> HIDE DEF announced, reply
<1>2. /\ announced.status = "ok"
      /\ a.sel \notin Misanswered => reply.status = "ok" /\ reply.size = announced.size
  BY <1>1 DEF Exact
<1> QED  BY <1>2 DEF announced, reply

\* The tables agree in every state of the box.
LEMMA TablesAgreeAlways == gBox_Acquired \in BOOLEAN => TablesAgree
<1> SUFFICES ASSUME gBox_Acquired \in BOOLEAN, NEW p \in NullProperty
             PROVE  LET o == p[1]  a == p[2]
                        announced == GetPropertyDataSize(o, a, BoxState)
                        reply == GetPropertyData(o, a, announced.size, Qualifier(a), BoxState)
                    IN  /\ IsPropertySettable(o, a) = IF a.sel \in Setter(o) THEN "yes" ELSE "no"
                        /\ announced.status = "ok"
                        /\ a.sel \notin Misanswered => reply.status = "ok" /\ reply.size = announced.size
  BY DEF TablesAgree
<1>1. p[1] \in ObjectID /\ p[2].scope \in Scope /\ HasProperty(p[1], p[2])
  BY DEF NullProperty
<1>2. BoxState.acquired \in BOOLEAN
  BY DEF BoxState
<1> QED  BY <1>1, <1>2, SettableAgrees, AnswerAgrees
-----------------------------------------------------------------------------
(* The box.                                                                *)

BoxStates == [acquired : BOOLEAN, name : BoxNames \cup {NullBox, NullName}, value : {InitialValue}]

\* A call that has learned a size has it from some state of the box; one that
\* refreshes the host asks for the list of devices.
CallInv(r) ==
    /\ r.pc \in {"idle", "sized", "fetching", "replied", "storing", "announcing"}
    /\ r.pc \in {"sized", "fetching"} =>
        /\ r.o \in ObjectID /\ r.a.scope \in Scope /\ r.refresh \in BOOLEAN
        /\ \E s \in BoxStates : r.size = GetPropertyDataSize(r.o, r.a, s).size
        /\ r.refresh => r.o = kObjectID_PlugIn /\ r.a = Addr("DeviceList")
    /\ r.pc = "fetching" => Unlocked(r.o, r.a) /\ r.first \in BOOLEAN
    /\ r.pc = "replied" => r.reply.size <= r.asked

IsRefresh(r) == r.pc \in {"sized", "fetching"} /\ r.refresh

\* What a refresh has read so far is what the box is.
Current(r, acquired) ==
    IsRefresh(r) => /\ r.size = IF acquired THEN Word ELSE 0
                    /\ r.pc = "fetching" => r.first = acquired

NoStoring == \A c \in NullThread : boxCall[c].pc # "storing"
Settled == boxPending = 0 /\ NoStoring

CallsOK == boxCall = [c \in NullThread |-> boxCall[c]] /\ \A c \in NullThread : CallInv(boxCall[c])
StateOK ==
    /\ gBox_Acquired \in BOOLEAN
    /\ gBox_Name \in BoxNames \cup {NullBox, NullName}
    /\ gMutex \in NullThread \cup {Nobody, "left"}
    /\ boxPending \in 0 .. MaxPending
    /\ hostDevices \in {<<>>, <<kObjectID_Device>>}
    /\ storage \in {{}, {TRUE}, {FALSE}}
StoringOK == \A c \in NullThread : boxCall[c].pc = "storing" => gMutex = c /\ boxPending < MaxPending
RefreshesOK == Settled => \A c \in NullThread : Current(boxCall[c], gBox_Acquired)
HostOK ==
    Settled /\ (\A c \in NullThread : ~IsRefresh(boxCall[c]))
        => hostDevices = IF gBox_Acquired THEN <<kObjectID_Device>> ELSE <<>>
StorageOK == NoStoring => storage \subseteq {gBox_Acquired}
BoxInv == CallsOK /\ StateOK /\ StoringOK /\ RefreshesOK /\ HostOK /\ StorageOK

\* The state the answers are computed from.
LEMMA BoxStateTyped == StateOK => BoxState \in BoxStates /\ BoxState.acquired = gBox_Acquired
BY DEF StateOK, BoxState, BoxStates

\* The size of the plug-in's list of devices.
LEMMA DeviceListSize ==
    ASSUME NEW s PROVE GetPropertyDataSize(kObjectID_PlugIn, Addr("DeviceList"), s).size
                        = IF s.acquired THEN Word ELSE 0
<1>1. GetPlugInPropertyDataSize(Addr("DeviceList"), s) = Success(IF s.acquired THEN Word ELSE 0, 0)
  BY DEF GetPlugInPropertyDataSize, Addr
<1>2. \A n, v : Success(n, v).size = n
  BY Replies
<1>3. GetPropertyDataSize(kObjectID_PlugIn, Addr("DeviceList"), s) = GetPlugInPropertyDataSize(Addr("DeviceList"), s)
  BY Dispatched
<1> QED  BY <1>1, <1>2, <1>3

\* The plug-in's list of devices holds the device or nothing, and with a size
\* and two readings that agree, the device if the box is acquired.
LEMMA DeviceListValue ==
    ASSUME NEW room, NEW qualifier, NEW first \in BOOLEAN, NEW second \in BOOLEAN
    PROVE  LET reply == GetPlugInPropertyData(Addr("DeviceList"), room, qualifier, first, second)
           IN  /\ reply.value \in {<<>>, <<kObjectID_Device>>}
               /\ first = second /\ room = (IF first THEN Word ELSE 0)
                    => reply.value = IF first THEN <<kObjectID_Device>> ELSE <<>>
<1> DEFINE a == Addr("DeviceList")
           n == ItemsToFetch(a, room, first, second)
<1>1. GetPlugInPropertyData(a, room, qualifier, first, second) = Success(n * Word, PlugInList(a, n))
  BY DEF GetPlugInPropertyData, Addr
<1>2. PlugInList(a, n) = IF n = 0 THEN <<>> ELSE <<kObjectID_Device>>
  BY DEF PlugInList, Addr
<1>3. ASSUME first = second, room = IF first THEN Word ELSE 0
      PROVE  n = IF first THEN 1 ELSE 0
  <2>1. PlugInListLength(a, first) = IF first THEN 1 ELSE 0
    BY DEF PlugInListLength, Addr
  <2>2. room \div Word = IF first THEN 1 ELSE 0
    BY <1>3, Replies
  <2> QED  BY <1>3, <2>1, <2>2 DEF ItemsToFetch
<1> HIDE DEF n
<1> QED  BY <1>1, <1>2, <1>3, Replies

\* The box as the plug-in is loaded.
LEMMA BoxInitInv == BoxInit => BoxInv
<1> SUFFICES ASSUME BoxInit PROVE BoxInv
  OBVIOUS
<1>1. \A c \in NullThread : boxCall[c] = BoxIdle
  BY DEF BoxInit
<1>2. CallsOK
  BY <1>1 DEF BoxInit, CallsOK, CallInv, BoxIdle
<1>3. StateOK
  <2>1. Loaded(storage) \in BOOLEAN
    BY DEF Loaded
  <2>2. Scanned(storage) \in {<<>>, <<kObjectID_Device>>}
    BY DEF Scanned
  <2>3. 0 \in 0 .. MaxPending
    BY ThreadAssumption
  <2> QED  BY <2>1, <2>2, <2>3 DEF BoxInit, StateOK
<1>4. StoringOK /\ RefreshesOK
  BY <1>1 DEF StoringOK, RefreshesOK, Current, IsRefresh, BoxIdle
<1>5. HostOK
  BY DEF BoxInit, HostOK, Scanned
<1>6. StorageOK
  BY DEF BoxInit, StorageOK, Loaded
<1> QED  BY <1>2, <1>3, <1>4, <1>5, <1>6 DEF BoxInv

\* A step that gives one thread another call, which is no write to storage,
\* and leaves the rest alone.
LEMMA OneCall ==
    ASSUME BoxInv, NEW c \in NullThread, NEW r, CallInv(r), r.pc # "storing", boxCall[c].pc # "storing",
           boxCall' = [boxCall EXCEPT ![c] = r]
    PROVE  /\ CallsOK'
           /\ boxCall'[c] = r /\ \A d \in NullThread \ {c} : boxCall'[d] = boxCall[d]
           /\ NoStoring' <=> NoStoring
           /\ UNCHANGED <<gMutex, boxPending>> => StoringOK'
<1>1. boxCall'[c] = r /\ \A d \in NullThread \ {c} : boxCall'[d] = boxCall[d]
  BY DEF BoxInv, CallsOK
<1>2. CallsOK'
  BY <1>1 DEF BoxInv, CallsOK
<1>3. NoStoring' <=> NoStoring
  BY <1>1 DEF NoStoring
<1>4. UNCHANGED <<gMutex, boxPending>> => StoringOK'
  BY <1>1 DEF BoxInv, StoringOK
<1> QED  BY <1>1, <1>2, <1>3, <1>4

\* SetAcquired: no other thread writes to storage, since the mutex was free.
LEMMA Acquiring ==
    ASSUME BoxInv, NEW c \in NullThread, SetAcquired(c)
    PROVE  BoxInv'
<1>1. PICK acquired \in BOOLEAN :
        /\ boxCall[c].pc = "idle" /\ gMutex = Nobody /\ boxPending < MaxPending
        /\ gBox_Acquired' = acquired /\ gMutex' = c
        /\ boxCall' = [boxCall EXCEPT ![c] = [pc |-> "storing"]]
        /\ UNCHANGED <<gBox_Name, boxPending, storage, hostDevices>>
  BY DEF SetAcquired, BoxAt
<1>2. boxCall'[c].pc = "storing" /\ \A d \in NullThread \ {c} : boxCall'[d] = boxCall[d]
  BY <1>1 DEF BoxInv, CallsOK
<1>3. CallsOK'
  BY <1>1, <1>2 DEF BoxInv, CallsOK, CallInv
<1>4. StateOK'
  BY <1>1 DEF BoxInv, StateOK
<1>5. \A d \in NullThread : boxCall[d].pc # "storing"
  BY <1>1, ThreadAssumption DEF BoxInv, StoringOK
<1>6. StoringOK'
  BY <1>1, <1>2, <1>5 DEF StoringOK
<1>7. ~NoStoring'
  BY <1>2 DEF NoStoring
<1>8. RefreshesOK' /\ HostOK' /\ StorageOK'
  BY <1>7 DEF RefreshesOK, HostOK, StorageOK, Settled
<1> QED  BY <1>3, <1>4, <1>6, <1>8 DEF BoxInv

\* StoreAcquired: the notification it queues makes every earlier refresh harmless.
LEMMA Storing ==
    ASSUME BoxInv, NEW c \in NullThread, StoreAcquired(c)
    PROVE  BoxInv'
<1>1. /\ boxCall[c].pc = "storing" /\ storage' = {gBox_Acquired} /\ boxPending' = boxPending + 1 /\ gMutex' = Nobody
      /\ boxCall' = [boxCall EXCEPT ![c] = Announcing(Told(kObjectID_Box, {"Acquired", "DeviceList"}))]
      /\ UNCHANGED <<gBox_Acquired, gBox_Name, hostDevices>>
  BY DEF StoreAcquired, BoxAt
<1>2. boxCall'[c].pc = "announcing" /\ \A d \in NullThread \ {c} : boxCall'[d] = boxCall[d]
  BY <1>1 DEF BoxInv, CallsOK, Announcing
<1>3. CallsOK'
  BY <1>1, <1>2 DEF BoxInv, CallsOK, CallInv
<1>4. boxPending < MaxPending /\ \A d \in NullThread \ {c} : boxCall[d].pc # "storing"
  BY <1>1 DEF BoxInv, StoringOK
<1>5. StateOK'
  <2>1. boxPending' \in 0 .. MaxPending
    BY <1>1, <1>4, ThreadAssumption DEF BoxInv, StateOK
  <2> QED  BY <1>1, <2>1 DEF BoxInv, StateOK
<1>6. StoringOK' /\ NoStoring'
  BY <1>2, <1>4 DEF StoringOK, NoStoring
<1>7. boxPending' # 0
  BY <1>1 DEF BoxInv, StateOK
<1>8. RefreshesOK' /\ HostOK'
  BY <1>7 DEF RefreshesOK, HostOK, Settled
<1>9. StorageOK'
  BY <1>1 DEF StorageOK
<1> QED  BY <1>3, <1>5, <1>6, <1>8, <1>9 DEF BoxInv

\* A step of a thread that refreshes nothing, before or after, and writes
\* nothing to storage.
LEMMA OtherCalls ==
    ASSUME BoxInv, NEW c \in NullThread, NEW r, CallInv(r), r.pc # "storing", boxCall[c].pc # "storing",
           ~IsRefresh(r), ~IsRefresh(boxCall[c]), boxCall' = [boxCall EXCEPT ![c] = r],
           UNCHANGED <<gBox_Acquired, boxPending, storage, hostDevices>>,
           gMutex' = gMutex \/ (NoStoring /\ gMutex' = "left"),
           gBox_Name' \in BoxNames \cup {NullBox, NullName}
    PROVE  BoxInv'
<1>1. /\ CallsOK'
      /\ boxCall'[c] = r /\ \A d \in NullThread \ {c} : boxCall'[d] = boxCall[d]
      /\ NoStoring' <=> NoStoring
      /\ UNCHANGED gMutex => StoringOK'
  BY OneCall
<1>2. StateOK'
  BY DEF BoxInv, StateOK
<1>3. StoringOK'
  BY <1>1 DEF NoStoring, StoringOK
<1>4. \A d \in NullThread : IsRefresh(boxCall[d]') <=> IsRefresh(boxCall[d])
  BY <1>1
<1>5. RefreshesOK'
  BY <1>1 DEF BoxInv, RefreshesOK, Settled, Current
<1>6. HostOK'
  BY <1>1, <1>4 DEF BoxInv, HostOK, Settled
<1>7. StorageOK'
  BY <1>1 DEF BoxInv, StorageOK
<1> QED  BY <1>1, <1>2, <1>3, <1>5, <1>6, <1>7 DEF BoxInv

\* GetSize.
LEMMA Sizing ==
    ASSUME BoxInv, NEW c \in NullThread, GetSize(c)
    PROVE  BoxInv'
<1>1. PICK p \in Asked :
        /\ boxCall[c].pc = "idle"
        /\ boxCall' = [boxCall EXCEPT ![c] = [pc |-> "sized", o |-> p[1], a |-> p[2],
                            size |-> SizeNow(p[1], p[2]).size, refresh |-> FALSE]]
        /\ UNCHANGED <<gBox_Acquired, gBox_Name, gMutex, boxPending, storage, hostDevices>>
  BY DEF GetSize, BoxAt
<1> DEFINE r == [pc |-> "sized", o |-> p[1], a |-> p[2], size |-> SizeNow(p[1], p[2]).size, refresh |-> FALSE]
<1>2. CallInv(r) /\ ~IsRefresh(r) /\ r.pc = "sized"
  BY BoxStateTyped, AskedAssumption DEF BoxInv, CallInv, IsRefresh, SizeNow
<1>3. gBox_Name \in BoxNames \cup {NullBox, NullName}
  BY DEF BoxInv, StateOK
<1> HIDE DEF r
<1>4. boxCall' = [boxCall EXCEPT ![c] = r]
  BY <1>1 DEF r
<1>5. ~IsRefresh(boxCall[c]) /\ boxCall[c].pc # "storing" /\ r.pc # "storing"
  BY <1>1, <1>2 DEF IsRefresh
<1>6. gBox_Name' \in BoxNames \cup {NullBox, NullName}
  BY <1>1, <1>3
<1>7. gMutex' = gMutex /\ UNCHANGED <<gBox_Acquired, boxPending, storage, hostDevices>>
  BY <1>1
<1> QED  BY <1>2, <1>4, <1>5, <1>6, <1>7, OtherCalls

\* HandleNotification: the size a refresh begins with is that of now.
LEMMA Refresh ==
    ASSUME BoxInv, NEW c \in NullThread, HandleNotification(c)
    PROVE  BoxInv'
<1> DEFINE r == [pc |-> "sized", o |-> PlugInDevices[1], a |-> PlugInDevices[2],
                 size |-> SizeNow(PlugInDevices[1], PlugInDevices[2]).size, refresh |-> TRUE]
<1>1. /\ boxCall[c].pc = "idle" /\ boxPending > 0 /\ ~Refreshing /\ boxPending' = boxPending - 1
      /\ boxCall' = [boxCall EXCEPT ![c] = r]
      /\ UNCHANGED <<gBox_Acquired, gBox_Name, gMutex, storage, hostDevices>>
  BY DEF HandleNotification, BoxAt
<1>2. PlugInDevices[1] = kObjectID_PlugIn /\ PlugInDevices[2] = Addr("DeviceList")
  BY DEF PlugInDevices
<1>3. SizeNow(PlugInDevices[1], PlugInDevices[2]).size = IF gBox_Acquired THEN Word ELSE 0
  BY <1>2, BoxStateTyped, DeviceListSize DEF BoxInv, SizeNow
<1>4. CallInv(r)
  <2>1. Addr("DeviceList").scope \in Scope /\ kObjectID_PlugIn \in ObjectID
    BY ObjectNumbers DEF Addr, Scope
  <2>2. \E s \in BoxStates : r.size = GetPropertyDataSize(r.o, r.a, s).size
    BY BoxStateTyped DEF BoxInv, SizeNow
  <2> QED  BY <1>2, <2>1, <2>2 DEF CallInv
<1>5. r.pc = "sized" /\ IsRefresh(r) /\ Current(r, gBox_Acquired)
  BY <1>3 DEF IsRefresh, Current
<1> HIDE DEF r
<1>6. /\ CallsOK'
      /\ boxCall'[c] = r /\ \A d \in NullThread \ {c} : boxCall'[d] = boxCall[d]
      /\ NoStoring' <=> NoStoring
  BY <1>1, <1>4, <1>5, OneCall
<1>7. boxPending' \in 0 .. MaxPending /\ boxPending' < boxPending
  BY <1>1, ThreadAssumption DEF BoxInv, StateOK
<1>8. StateOK'
  BY <1>1, <1>7 DEF BoxInv, StateOK
<1>9. StoringOK'
  BY <1>1, <1>5, <1>6, <1>7, ThreadAssumption DEF BoxInv, StoringOK, StateOK
<1>10. \A d \in NullThread \ {c} : ~IsRefresh(boxCall[d])
  BY <1>1 DEF Refreshing, IsRefresh
<1>11. RefreshesOK'
  BY <1>1, <1>5, <1>6, <1>10 DEF RefreshesOK, Current
<1>12. HostOK'
  BY <1>5, <1>6 DEF HostOK
<1>13. StorageOK'
  BY <1>1, <1>6 DEF BoxInv, StorageOK
<1> QED  BY <1>6, <1>8, <1>9, <1>11, <1>12, <1>13 DEF BoxInv

\* GetData: the answer fits, and the mutex is lost only when it was free.
LEMMA Fetching ==
    ASSUME BoxInv, NEW c \in NullThread, GetData(c)
    PROVE  BoxInv'
<1> DEFINE o == boxCall[c].o  a == boxCall[c].a  room == boxCall[c].size
           reply == GetPropertyData(o, a, room, Qualifier(a), BoxState)
           r == Replied(c, reply)
<1>1. /\ boxCall[c].pc = "sized" /\ ~Unlocked(o, a) /\ (DataTakesMutex(o, a) => gMutex = Nobody)
      /\ boxCall' = [boxCall EXCEPT ![c] = r]
      /\ gMutex' = IF LeavesMutexHeld(o, a, room, BoxState) THEN "left" ELSE gMutex
      /\ UNCHANGED <<gBox_Acquired, gBox_Name, boxPending, storage, hostDevices>>
  BY DEF GetData, BoxAt
<1>2. /\ o \in ObjectID /\ a.scope \in Scope /\ boxCall[c].refresh \in BOOLEAN
      /\ boxCall[c].refresh => o = kObjectID_PlugIn /\ a = Addr("DeviceList")
  BY <1>1 DEF BoxInv, CallsOK, CallInv
<1>3. PICK s \in BoxStates : room = GetPropertyDataSize(o, a, s).size
  BY <1>1 DEF BoxInv, CallsOK, CallInv
<1>4. ~IsRefresh(boxCall[c])
  BY <1>1, <1>2 DEF IsRefresh, Unlocked, Addr
<1>5. reply.size <= room
  <2>1. s.acquired \in BOOLEAN /\ BoxState.acquired \in BOOLEAN
    BY BoxStateTyped DEF BoxInv, BoxStates
  <2> HIDE DEF o, a, room
  <2> QED  BY <1>2, <1>3, <2>1, AnswerFits
<1>6. gMutex' = gMutex \/ (NoStoring /\ gMutex' = "left")
  <2>1. LeavesMutexHeld(o, a, room, BoxState) => gMutex = Nobody
    BY <1>1 DEF LeavesMutexHeld, DataTakesMutex
  <2>2. gMutex = Nobody => NoStoring
    BY ThreadAssumption DEF BoxInv, StoringOK, NoStoring
  <2> QED  BY <1>1, <2>1, <2>2
<1>7. r.pc = "replied" /\ CallInv(r) /\ ~IsRefresh(r)
  <2> HIDE DEF reply, o, a
  <2>1. r = [pc |-> "replied", asked |-> room, reply |-> reply]
    BY DEF Replied
  <2> HIDE DEF r, room
  <2> QED  BY <1>5, <2>1 DEF CallInv, IsRefresh
<1>8. gBox_Name \in BoxNames \cup {NullBox, NullName}
  BY DEF BoxInv, StateOK
<1> HIDE DEF r, o, a, room, reply
<1>9. /\ boxCall[c].pc # "storing" /\ r.pc # "storing" /\ boxCall' = [boxCall EXCEPT ![c] = r]
      /\ UNCHANGED <<gBox_Acquired, boxPending, storage, hostDevices>>
      /\ gBox_Name' \in BoxNames \cup {NullBox, NullName}
  BY <1>1, <1>7, <1>8
<1> QED  BY <1>4, <1>6, <1>7, <1>9, OtherCalls

\* BeginList.
LEMMA Beginning ==
    ASSUME BoxInv, NEW c \in NullThread, BeginList(c)
    PROVE  BoxInv'
<1> DEFINE r == [pc |-> "fetching", o |-> boxCall[c].o, a |-> boxCall[c].a, size |-> boxCall[c].size,
                 refresh |-> boxCall[c].refresh, first |-> gBox_Acquired]
<1>1. /\ boxCall[c].pc = "sized" /\ Unlocked(boxCall[c].o, boxCall[c].a)
      /\ boxCall' = [boxCall EXCEPT ![c] = r]
      /\ UNCHANGED <<gBox_Acquired, gBox_Name, gMutex, boxPending, storage, hostDevices>>
  BY DEF BeginList, BoxAt
<1>2. CallInv(boxCall[c]) /\ gBox_Acquired \in BOOLEAN
  BY DEF BoxInv, CallsOK, StateOK
<1>3. /\ CallInv(r) /\ r.pc = "fetching" /\ (IsRefresh(r) <=> IsRefresh(boxCall[c]))
      /\ Current(boxCall[c], gBox_Acquired) => Current(r, gBox_Acquired)
  BY <1>1, <1>2 DEF CallInv, IsRefresh, Current
<1> HIDE DEF r
<1>4. boxCall[c].pc # "storing" /\ r.pc # "storing" /\ boxCall' = [boxCall EXCEPT ![c] = r]
  BY <1>1, <1>3
<1>5. /\ CallsOK'
      /\ boxCall'[c] = r /\ \A d \in NullThread \ {c} : boxCall'[d] = boxCall[d]
      /\ NoStoring' <=> NoStoring
      /\ StoringOK'
  BY <1>1, <1>3, <1>4, OneCall
<1>6. StateOK' /\ StorageOK'
  BY <1>1, <1>5 DEF BoxInv, StateOK, StorageOK
<1>7. \A d \in NullThread : Current(boxCall[d], gBox_Acquired) => Current(boxCall'[d], gBox_Acquired)
  BY <1>3, <1>5
<1>8. RefreshesOK'
  BY <1>1, <1>5, <1>7 DEF BoxInv, RefreshesOK, Settled
<1>9. HostOK'
  BY <1>1, <1>3, <1>5 DEF BoxInv, HostOK, Settled
<1> QED  BY <1>5, <1>6, <1>8, <1>9 DEF BoxInv

\* EndList: a refresh that nothing overtook gives the host the right list.
LEMMA Ending ==
    ASSUME BoxInv, NEW c \in NullThread, EndList(c)
    PROVE  BoxInv'
<1> DEFINE o == boxCall[c].o  a == boxCall[c].a  room == boxCall[c].size  first == boxCall[c].first
           reply == GetPlugInPropertyData(a, room, 0, first, gBox_Acquired)
           r == Replied(c, reply)
<1>1. /\ boxCall[c].pc = "fetching"
      /\ boxCall' = [boxCall EXCEPT ![c] = r]
      /\ hostDevices' = IF boxCall[c].refresh THEN reply.value ELSE hostDevices
      /\ UNCHANGED <<gBox_Acquired, gBox_Name, gMutex, boxPending, storage>>
  BY DEF EndList, BoxAt
<1>2. /\ o = kObjectID_PlugIn /\ first \in BOOLEAN /\ boxCall[c].refresh \in BOOLEAN
      /\ boxCall[c].refresh => a = Addr("DeviceList")
  BY <1>1 DEF BoxInv, CallsOK, CallInv, Unlocked
<1>3. PICK s \in BoxStates : room = GetPropertyDataSize(o, a, s).size
  BY <1>1 DEF BoxInv, CallsOK, CallInv
<1>4. gBox_Acquired \in BOOLEAN
  BY DEF BoxInv, StateOK
<1>5. reply.size <= room
  <2>1. s.acquired \in BOOLEAN
    BY DEF BoxStates
  <2>2. room = GetPlugInPropertyDataSize(a, s).size
    BY <1>2, <1>3, Dispatched
  <2> HIDE DEF o, a, room, first
  <2> QED  BY <1>2, <1>4, <2>1, <2>2, PlugInFits
<1>6. r.pc = "replied" /\ CallInv(r) /\ ~IsRefresh(r)
  <2> HIDE DEF reply, o, a
  <2>1. r = [pc |-> "replied", asked |-> room, reply |-> reply]
    BY DEF Replied
  <2> HIDE DEF r, room
  <2> QED  BY <1>5, <2>1 DEF CallInv, IsRefresh
<1>7. boxCall[c].refresh => reply.value \in {<<>>, <<kObjectID_Device>>}
  BY <1>2, <1>4, DeviceListValue
<1>8. ASSUME boxCall[c].refresh, Settled
      PROVE  reply.value = IF gBox_Acquired THEN <<kObjectID_Device>> ELSE <<>>
  <2>1. room = (IF gBox_Acquired THEN Word ELSE 0) /\ first = gBox_Acquired
    BY <1>1, <1>8 DEF BoxInv, RefreshesOK, Current, IsRefresh
  <2> QED  BY <1>2, <1>4, <1>8, <2>1, DeviceListValue
<1> HIDE DEF r, reply, o, a, room, first
<1>9. boxCall[c].pc # "storing" /\ r.pc # "storing" /\ boxCall' = [boxCall EXCEPT ![c] = r]
  BY <1>1, <1>6
<1>10. /\ CallsOK'
       /\ boxCall'[c] = r /\ \A d \in NullThread \ {c} : boxCall'[d] = boxCall[d]
       /\ NoStoring' <=> NoStoring
       /\ StoringOK'
  BY <1>1, <1>6, <1>9, OneCall
<1>11. StateOK' /\ StorageOK'
  BY <1>1, <1>7, <1>10 DEF BoxInv, StateOK, StorageOK
<1>12. RefreshesOK'
  BY <1>1, <1>6, <1>10 DEF BoxInv, RefreshesOK, Settled, Current
<1>13. HostOK'
  <2>1. CASE boxCall[c].refresh
    BY <1>1, <1>8, <1>10, <2>1 DEF HostOK, Settled
  <2>2. CASE ~boxCall[c].refresh
    <3>1. ~IsRefresh(boxCall[c])
      BY <2>2 DEF IsRefresh
    <3> QED  BY <1>1, <1>10, <2>2, <3>1 DEF BoxInv, HostOK, Settled
  <2> QED  BY <1>2, <2>1, <2>2
<1> QED  BY <1>10, <1>11, <1>12, <1>13 DEF BoxInv

\* RestartServer.
LEMMA Restarting == ASSUME BoxInv, RestartServer PROVE BoxInv'
<1>1. \A c \in NullThread : boxCall'[c] = BoxIdle
  BY DEF RestartServer
<1>2. storage \in {{}, {TRUE}, {FALSE}} /\ storage' = storage
  BY DEF BoxInv, StateOK, RestartServer
<1>3. CallsOK'
  BY <1>1 DEF RestartServer, CallsOK, CallInv, BoxIdle
<1>4. StateOK'
  <2>1. Loaded(storage) \in BOOLEAN
    BY DEF Loaded
  <2>2. Scanned(storage) \in {<<>>, <<kObjectID_Device>>}
    BY DEF Scanned
  <2>3. 0 \in 0 .. MaxPending
    BY ThreadAssumption
  <2> QED  BY <1>2, <2>1, <2>2, <2>3 DEF RestartServer, StateOK
<1>5. StoringOK' /\ RefreshesOK'
  BY <1>1 DEF StoringOK, RefreshesOK, Current, IsRefresh, BoxIdle
<1>6. HostOK'
  BY DEF RestartServer, HostOK, Scanned
<1>7. StorageOK'
  BY <1>2 DEF RestartServer, StorageOK, Loaded
<1> QED  BY <1>3, <1>4, <1>5, <1>6, <1>7 DEF BoxInv

\* A thread that begins or ends an announcement, or leaves its call.
LEMMA Renaming ==
    ASSUME BoxInv, NEW c \in NullThread, SetName(c) \/ Announce(c) \/ EndCall(c)
    PROVE  BoxInv'
<1>1. gBox_Name \in BoxNames \cup {NullBox, NullName}
  BY DEF BoxInv, StateOK
<1>2. PICK r :
        /\ r = BoxIdle \/ r = Announcing(Told(kObjectID_Box, {"Name"}))
        /\ boxCall[c].pc \in {"idle", "announcing", "replied"}
        /\ boxCall' = [boxCall EXCEPT ![c] = r]
        /\ gBox_Name' \in BoxNames \cup {NullBox, NullName}
        /\ gMutex' = gMutex /\ UNCHANGED <<gBox_Acquired, boxPending, storage, hostDevices>>
  <2>1. CASE SetName(c)
    BY <2>1 DEF SetName, BoxAt
  <2>2. CASE Announce(c)
    BY <1>1, <2>2 DEF Announce, BoxAt
  <2>3. CASE EndCall(c)
    BY <1>1, <2>3 DEF EndCall, BoxAt
  <2> QED  BY <2>1, <2>2, <2>3
<1>3. CallInv(r) /\ ~IsRefresh(r) /\ r.pc # "storing" /\ ~IsRefresh(boxCall[c]) /\ boxCall[c].pc # "storing"
  BY <1>2 DEF CallInv, IsRefresh, BoxIdle, Announcing
<1> QED  BY <1>2, <1>3, OtherCalls

\* Every step preserves the invariant.
LEMMA BoxStep == BoxInv /\ [BoxNext]_boxVars => BoxInv'
<1> SUFFICES ASSUME BoxInv, [BoxNext]_boxVars PROVE BoxInv'
  OBVIOUS
<1>1. CASE UNCHANGED boxVars
  BY <1>1 DEF boxVars, BoxInv, CallsOK, StateOK, StoringOK, RefreshesOK, HostOK, StorageOK, Settled, NoStoring
<1>2. ASSUME NEW c \in NullThread,
             \/ GetSize(c) \/ HandleNotification(c) \/ GetData(c) \/ BeginList(c) \/ EndList(c)
             \/ EndCall(c) \/ SetAcquired(c) \/ StoreAcquired(c) \/ SetName(c) \/ Announce(c)
      PROVE  BoxInv'
  BY <1>2, Sizing, Refresh, Fetching, Beginning, Ending, Acquiring, Storing, Renaming
<1>3. CASE RestartServer
  BY <1>3, Restarting
<1> QED  BY <1>1, <1>2, <1>3 DEF BoxNext

\* The box's invariant.
LEMMA BoxInvariant == BoxSpec => []BoxInv
BY BoxInitInv, BoxStep, PTL DEF BoxSpec

\* ReplyFits: a reply fits in the room its caller was told to make, though the
\* box is acquired and released meanwhile, and between the two readings of the
\* plug-in's lists (NullAudio_GetPlugInPropertyDataSize and ...Data).
THEOREM RepliesFit == BoxSpec => []ReplyFits
<1>1. BoxInv => ReplyFits
  BY DEF BoxInv, CallsOK, CallInv, ReplyFits, BoxAt
<1> QED  BY BoxInvariant, <1>1, PTL

\* TablesAgree: the four switches of each kind of object agree, in every state.
THEOREM TablesAlwaysAgree == BoxSpec => []TablesAgree
<1>1. BoxInv => TablesAgree
  BY TablesAgreeAlways DEF BoxInv, StateOK
<1> QED  BY BoxInvariant, <1>1, PTL

\* HostUpToDate: when no notification is on its way and no refresh under way
\* the host has the box's device exactly if the box is acquired, however the
\* refreshes of earlier notifications met later acquisitions.
THEOREM HostFollows == BoxSpec => []HostUpToDate
<1>1. BoxInv => HostUpToDate
  <2> SUFFICES ASSUME BoxInv, Settled, ~Refreshing PROVE (Len(hostDevices) = 1) = gBox_Acquired
    BY DEF HostUpToDate, Settled, NoStoring, BoxAt
  <2>1. hostDevices = IF gBox_Acquired THEN <<kObjectID_Device>> ELSE <<>>
    BY DEF BoxInv, HostOK, Refreshing, IsRefresh
  <2>2. gBox_Acquired \in BOOLEAN
    BY DEF BoxInv, StateOK
  <2>3. CASE gBox_Acquired
    BY <2>1, <2>3
  <2>4. CASE ~gBox_Acquired
    BY <2>1, <2>2, <2>4
  <2> QED  BY <2>2, <2>3, <2>4
<1> QED  BY BoxInvariant, <1>1, PTL

\* StoredIsCurrent: what a restart of the server would load is what the box is,
\* unless a thread is between the change and the write to storage.
THEOREM StorageFollows == BoxSpec => []StoredIsCurrent
<1>1. BoxInv => StoredIsCurrent
  BY DEF BoxInv, StorageOK, NoStoring, StoredIsCurrent, BoxAt
<1> QED  BY BoxInvariant, <1>1, PTL

\* BoxTypeOK: in particular the notifications stay within their bound, which
\* SetAcquired makes room for before StoreAcquired queues one.
THEOREM BoxTypeCorrect == BoxSpec => []BoxTypeOK
<1>1. BoxInv => BoxTypeOK
  BY DEF BoxInv, StateOK, CallsOK, CallInv, BoxTypeOK
<1> QED  BY BoxInvariant, <1>1, PTL

\* What an answer depends on: the acquisition is behind four properties, the
\* name behind one.
LEMMA ReadsSame ==
    ASSUME NEW o \in ObjectID, NEW a, NEW room, NEW qualifier, NEW s, NEW t, s.value = t.value,
           s.acquired = t.acquired
             \/ (/\ ~(o = kObjectID_PlugIn /\ a.sel \in {"OwnedObjects", "DeviceList"})
                 /\ ~(o = kObjectID_Box /\ a.sel \in {"Acquired", "DeviceList"})),
           s.name = t.name \/ ~(o = kObjectID_Box /\ a.sel = "Name")
    PROVE  GetPropertyData(o, a, room, qualifier, s) = GetPropertyData(o, a, room, qualifier, t)
<1>0. o = kObjectID_PlugIn \/ o = kObjectID_Box \/ o = kObjectID_Device \/ o \in Stream \/ o \in Control
  BY ObjectNumbers
<1>1. CASE o = kObjectID_PlugIn
  <2>1. GetPlugInPropertyData(a, room, qualifier, s.acquired, s.acquired)
          = GetPlugInPropertyData(a, room, qualifier, t.acquired, t.acquired)
    <3>1. CASE a.sel \in {"OwnedObjects", "DeviceList"}
      BY <1>1, <3>1
    <3>2. CASE a.sel \notin {"OwnedObjects", "DeviceList"}
      BY <3>2 DEF GetPlugInPropertyData
    <3> QED  BY <3>1, <3>2
  <2> QED  BY <1>1, <2>1, Dispatched
<1>2. CASE o = kObjectID_Box
  <2>1. a.sel \in {"Acquired", "DeviceList"} => s.acquired = t.acquired
    BY <1>2, ObjectNumbers
  <2>2. a.sel = "Name" => s.name = t.name
    BY <1>2
  <2>3. GetBoxIdentity(a, room, s) = GetBoxIdentity(a, room, t)
    BY <2>2 DEF GetBoxIdentity
  <2>4. GetBoxStatus(a, room, s) = GetBoxStatus(a, room, t)
    BY <2>1 DEF GetBoxStatus
  <2> QED  BY <1>2, <2>3, <2>4, Dispatched DEF GetBoxPropertyData
<1>3. CASE o = kObjectID_Device
  <2>1. GetDevicePropertyData(a, room, s) = GetDevicePropertyData(a, room, t)
    BY DEF GetDevicePropertyData, GetDeviceRelations, GetDeviceSettings
  <2> QED  BY <1>3, <2>1, Dispatched
<1>4. CASE o \in Stream
  <2>1. GetStreamPropertyData(o, a, room, s) = GetStreamPropertyData(o, a, room, t)
    BY DEF GetStreamPropertyData, GetStreamIdentity
  <2>2. GetPropertyData(o, a, room, qualifier, s) = GetStreamPropertyData(o, a, room, s)
    BY <1>4, Dispatched
  <2>3. GetPropertyData(o, a, room, qualifier, t) = GetStreamPropertyData(o, a, room, t)
    BY <1>4, Dispatched
  <2> QED  BY <2>1, <2>2, <2>3
<1>5. CASE o \in Control
  <2>1. GetControlPropertyData(o, a, room, qualifier, s) = GetControlPropertyData(o, a, room, qualifier, t)
    BY DEF GetControlPropertyData, GetVolumeData, GetMuteData, GetDataSourceData
  <2>2. GetPropertyData(o, a, room, qualifier, s) = GetControlPropertyData(o, a, room, qualifier, s)
    BY <1>5, Dispatched
  <2>3. GetPropertyData(o, a, room, qualifier, t) = GetControlPropertyData(o, a, room, qualifier, t)
    BY <1>5, Dispatched
  <2> QED  BY <2>1, <2>2, <2>3
<1> QED  BY <1>0, <1>1, <1>2, <1>3, <1>4, <1>5

\* BoxChangesAnnounced: a step that changes what a property of the box or of
\* the plug-in answers leaves somebody who will tell the host of it.
THEOREM BoxAnnounces == BoxSpec => BoxChangesAnnounced
<1> DEFINE Announced(p) == BoxReads(p[1], p[2])' # BoxReads(p[1], p[2]) => <<p[1], p[2].sel>> \in ToBeTold'
           Good == BoxState' = BoxState \/ RestartServer \/ \A p \in Announceable : Announced(p)
<1>1. ASSUME BoxInv, BoxNext, BoxState' # BoxState, ~RestartServer, NEW p \in Announceable PROVE Announced(p)
  <2>1. PICK c \in NullThread : SetAcquired(c) \/ SetName(c)
    BY <1>1 DEF BoxNext, GetSize, HandleNotification, GetData, BeginList, EndList, EndCall, StoreAcquired,
        Announce, BoxState
  <2>2. /\ p[1] \in ObjectID /\ p[2].scope = "Global" /\ p # <<kObjectID_PlugIn, Addr("OwnedObjects")>>
        /\ p = <<p[1], p[2]>> /\ p[2] = [sel |-> p[2].sel, scope |-> p[2].scope]
    BY DEF Announceable, NullProperty
  <2>3. ~(p[1] = kObjectID_PlugIn /\ p[2].sel = "OwnedObjects")
    BY <2>2 DEF Addr
  <2>4. BoxState'.value = BoxState.value /\ BoxState.acquired = gBox_Acquired /\ BoxState.name = gBox_Name
        /\ BoxState'.acquired = gBox_Acquired' /\ BoxState'.name = gBox_Name'
    BY DEF BoxState
  <2>5. /\ SetAcquired(c) => gBox_Name' = gBox_Name /\ boxCall'[c].pc = "storing"
        /\ SetName(c) => gBox_Acquired' = gBox_Acquired /\ boxCall'[c] = Announcing(Told(kObjectID_Box, {"Name"}))
    BY <1>1 DEF SetAcquired, SetName, BoxInv, CallsOK
  <2>6. CASE SetAcquired(c)
    <3>1. {<<kObjectID_PlugIn, "DeviceList">>} \cup Told(kObjectID_Box, {"Acquired", "DeviceList"}) \subseteq ToBeTold'
      BY <2>5, <2>6 DEF ToBeTold, BoxAt
    <3>2. CASE p[1] = kObjectID_PlugIn /\ p[2].sel = "DeviceList"
      BY <3>1, <3>2
    <3>3. CASE p[1] = kObjectID_Box /\ p[2].sel \in {"Acquired", "DeviceList"}
      BY <3>1, <3>3 DEF Told
    <3>4. CASE /\ ~(p[1] = kObjectID_PlugIn /\ p[2].sel = "DeviceList")
               /\ ~(p[1] = kObjectID_Box /\ p[2].sel \in {"Acquired", "DeviceList"})
      <4>1. BoxReads(p[1], p[2])' = BoxReads(p[1], p[2])
        BY <2>2, <2>3, <2>4, <2>5, <2>6, <3>4, ReadsSame DEF BoxReads
      <4> QED  BY <4>1
    <3> QED  BY <3>2, <3>3, <3>4
  <2>7. CASE SetName(c)
    <3>1. Told(kObjectID_Box, {"Name"}) \subseteq ToBeTold'
      BY <2>5, <2>7 DEF ToBeTold, BoxAt, Announcing
    <3>2. CASE p[1] = kObjectID_Box /\ p[2].sel = "Name"
      BY <3>1, <3>2 DEF Told
    <3>3. CASE ~(p[1] = kObjectID_Box /\ p[2].sel = "Name")
      <4>1. BoxReads(p[1], p[2])' = BoxReads(p[1], p[2])
        BY <2>2, <2>4, <2>5, <2>7, <3>3, ReadsSame DEF BoxReads
      <4> QED  BY <4>1
    <3> QED  BY <3>2, <3>3
  <2> QED  BY <2>1, <2>6, <2>7
<1>2. BoxInv /\ [BoxNext]_boxVars => [Good]_boxVars
  BY <1>1
<1> QED  BY BoxInvariant, <1>2, PTL DEF BoxSpec, BoxChangesAnnounced
-----------------------------------------------------------------------------
(* NullAudio's controls.                                                   *)

ValuesOK ==
    /\ gValue = [o \in Control \cup Stream |-> gValue[o]]
    /\ \A o \in Volume : gValue[o] \in 0 .. VolumeSteps
    /\ \A o \in DataSource : gValue[o] \in 0 .. kDataSource_NumberItems - 1
    /\ \A o \in Mute \cup Stream : gValue[o] \in BOOLEAN
TellingOK == IsFiniteSet(telling) /\ Cardinality(telling) <= MaxTelling

\* What is clamped to the volume's scale, in steps or in decibels, is a step of it.
LEMMA VolumeInRange ==
    /\ \A v \in -1 .. VolumeSteps + 1 : Clamp(v, 0, VolumeSteps) \in 0 .. VolumeSteps
    /\ \A d \in -1 .. VolumeSteps * VolumeSteps + 1 :
         DecibelsToScalar(Clamp(d, 0, VolumeSteps * VolumeSteps)) \in 0 .. VolumeSteps
<1>1. \A v \in -1 .. VolumeSteps + 1 : Clamp(v, 0, VolumeSteps) \in 0 .. VolumeSteps
  BY DEF VolumeSteps, Clamp
<1>2. ASSUME NEW d \in -1 .. VolumeSteps * VolumeSteps + 1
      PROVE  DecibelsToScalar(Clamp(d, 0, VolumeSteps * VolumeSteps)) \in 0 .. VolumeSteps
  <2> DEFINE k == Clamp(d, 0, VolumeSteps * VolumeSteps)
  <2>1. k \in 0 .. 4
    BY DEF VolumeSteps, Clamp
  <2> HIDE DEF k
  <2>2. \E v \in 0 .. 2 : v * v <= k /\ (v + 1) * (v + 1) > k
    <3>1. CASE k = 0
      <4>1. 0 * 0 <= k /\ (0 + 1) * (0 + 1) > k
        BY <3>1
      <4> QED  BY <4>1
    <3>2. CASE k \in 1 .. 3
      <4>1. 1 * 1 <= k /\ (1 + 1) * (1 + 1) > k
        BY <3>2
      <4> QED  BY <4>1
    <3>3. CASE k = 4
      <4>1. 2 * 2 <= k /\ (2 + 1) * (2 + 1) > k
        BY <3>3
      <4> QED  BY <4>1
    <3> QED  BY <2>1, <3>1, <3>2, <3>3
  <2>3. DecibelsToScalar(k) \in 0 .. 2
    BY <2>2 DEF DecibelsToScalar, VolumeSteps
  <2> QED  BY <2>3 DEF k, VolumeSteps
<1> QED  BY <1>1, <1>2

\* An assignment to a control or a stream: of a value in range, to be reported as
\* the properties it is behind.
Setting(o, v, sels) ==
    /\ Assign(o, v, sels)
    /\ o \in Volume => v \in 0 .. VolumeSteps /\ sels = {"ScalarValue", "DecibelValue"}
    /\ o \in Mute => v \in BOOLEAN /\ sels = {"BooleanValue"}
    /\ o \in DataSource => v \in 0 .. kDataSource_NumberItems - 1 /\ sels = {"CurrentItem"}
    /\ o \in Stream => v \in BOOLEAN /\ sels = {"IsActive"}

\* Every setter makes such an assignment.
LEMMA Setters == ControlsNext /\ ~TellHost => \E o \in Control \cup Stream : \E v, sels : Setting(o, v, sels)
<1> SUFFICES ASSUME ControlsNext, ~TellHost PROVE \E o \in Control \cup Stream : \E v, sels : Setting(o, v, sels)
  OBVIOUS
<1>0. /\ \A o \in Volume : o \in Control /\ o \notin Mute /\ o \notin DataSource /\ o \notin Stream
      /\ \A o \in Mute : o \in Control /\ o \notin Volume /\ o \notin DataSource /\ o \notin Stream
      /\ \A o \in DataSource : o \in Control /\ o \notin Volume /\ o \notin Mute /\ o \notin Stream
      /\ \A o \in Stream : o \notin Volume /\ o \notin Mute /\ o \notin DataSource
  BY ObjectNumbers
<1>1. CASE SetScalarVolume
  <2>1. PICK o \in Volume, v \in -1 .. VolumeSteps + 1 :
          Assign(o, Clamp(v, 0, VolumeSteps), {"ScalarValue", "DecibelValue"})
    BY <1>1 DEF SetScalarVolume
  <2>2. Clamp(v, 0, VolumeSteps) \in 0 .. VolumeSteps
    BY VolumeInRange
  <2>3. Setting(o, Clamp(v, 0, VolumeSteps), {"ScalarValue", "DecibelValue"}) /\ o \in Control
    BY <1>0, <2>1, <2>2 DEF Setting
  <2> QED  BY <2>3
<1>2. CASE SetDecibelVolume
  <2>1. PICK o \in Volume, d \in -1 .. VolumeSteps * VolumeSteps + 1 :
          Assign(o, DecibelsToScalar(Clamp(d, 0, VolumeSteps * VolumeSteps)), {"ScalarValue", "DecibelValue"})
    BY <1>2 DEF SetDecibelVolume
  <2> DEFINE w == DecibelsToScalar(Clamp(d, 0, VolumeSteps * VolumeSteps))
  <2>2. w \in 0 .. VolumeSteps
    BY VolumeInRange
  <2> HIDE DEF w
  <2>3. Assign(o, w, {"ScalarValue", "DecibelValue"})
    BY <2>1 DEF w
  <2>4. Setting(o, w, {"ScalarValue", "DecibelValue"}) /\ o \in Control
    BY <1>0, <2>2, <2>3 DEF Setting
  <2> QED  BY <2>4
<1>3. CASE SetMute
  <2>1. PICK o \in Mute, v \in BOOLEAN : Assign(o, v, {"BooleanValue"})
    BY <1>3 DEF SetMute
  <2>2. Setting(o, v, {"BooleanValue"}) /\ o \in Control
    BY <1>0, <2>1 DEF Setting
  <2> QED  BY <2>2
<1>4. CASE SetDataSource
  <2>1. PICK o \in DataSource, v \in 0 .. kDataSource_NumberItems :
          v < kDataSource_NumberItems /\ Assign(o, v, {"CurrentItem"})
    BY <1>4 DEF SetDataSource
  <2>2. v \in 0 .. kDataSource_NumberItems - 1
    BY <2>1 DEF kDataSource_NumberItems
  <2>3. Setting(o, v, {"CurrentItem"}) /\ o \in Control
    BY <1>0, <2>1, <2>2 DEF Setting
  <2> QED  BY <2>3
<1>5. CASE SetStreamIsActive
  <2>1. PICK o \in Stream, v \in BOOLEAN : Assign(o, v, {"IsActive"})
    BY <1>5 DEF SetStreamIsActive
  <2>2. Setting(o, v, {"IsActive"})
    BY <1>0, <2>1 DEF Setting
  <2> QED  BY <2>2
<1> QED  BY <1>1, <1>2, <1>3, <1>4, <1>5 DEF ControlsNext

\* Every step of a setter, and of one that tells the host, preserves the ranges.
LEMMA ControlsStep == ValuesOK /\ TellingOK /\ [ControlsNext]_controlVars => ValuesOK' /\ TellingOK'
<1> SUFFICES ASSUME ValuesOK, TellingOK, [ControlsNext]_controlVars PROVE ValuesOK' /\ TellingOK'
  OBVIOUS
<1>1. CASE UNCHANGED controlVars
  BY <1>1 DEF controlVars, ValuesOK, TellingOK
<1>2. CASE TellHost
  <2>1. PICK t \in telling : telling' = telling \ {t} /\ gValue' = gValue
    BY <1>2 DEF TellHost
  <2>2. IsFiniteSet(telling') /\ Cardinality(telling') = Cardinality(telling) - 1 /\ Cardinality(telling) \in Nat
    BY <2>1, FS_RemoveElement, FS_CardinalityType DEF TellingOK
  <2>3. TellingOK'
    BY <2>2, TellingAssumption DEF TellingOK
  <2> QED  BY <2>1, <2>3 DEF ValuesOK
<1>3. CASE ControlsNext /\ ~TellHost
  <2>0. PICK o \in Control \cup Stream : \E v, sels : Setting(o, v, sels)
    BY <1>3, Setters
  <2>1. PICK v, sels : Setting(o, v, sels)
    BY <2>0
  <2> DEFINE told == {<<o, sel>> : sel \in sels}
  <2>2. /\ Cardinality(telling) < MaxTelling /\ gValue' = [gValue EXCEPT ![o] = v]
        /\ telling' = telling \cup {told}
    BY <2>1 DEF Setting, Assign
  <2> HIDE DEF told
  <2>3. ValuesOK'
    <3>1. gValue'[o] = v /\ \A x \in (Control \cup Stream) \ {o} : gValue'[x] = gValue[x]
      BY <2>2 DEF ValuesOK
    <3>2. Volume \subseteq Control /\ Mute \subseteq Control /\ DataSource \subseteq Control
      BY DEF Control
    <3>3. \A x \in Volume : gValue'[x] \in 0 .. VolumeSteps
      BY <2>1, <3>1, <3>2 DEF ValuesOK, Setting
    <3>4. \A x \in DataSource : gValue'[x] \in 0 .. kDataSource_NumberItems - 1
      BY <2>1, <3>1, <3>2 DEF ValuesOK, Setting
    <3>5. \A x \in Mute \cup Stream : gValue'[x] \in BOOLEAN
      <4>1. \A x \in Mute \cup Stream : x \in Control \cup Stream /\ gValue[x] \in BOOLEAN
        BY <3>2 DEF ValuesOK
      <4>2. ASSUME NEW x \in Mute \cup Stream PROVE gValue'[x] \in BOOLEAN
        <5>1. CASE x = o
          BY <2>1, <3>1, <5>1 DEF Setting
        <5>2. CASE x # o
          <6>1. gValue'[x] = gValue[x]
            BY <3>1, <4>1, <5>2
          <6> QED  BY <4>1, <6>1
        <5> QED  BY <5>1, <5>2
      <4> QED  BY <4>2
    <3>6. gValue' = [x \in Control \cup Stream |-> gValue'[x]]
      BY <2>2 DEF ValuesOK
    <3> QED  BY <3>3, <3>4, <3>5, <3>6 DEF ValuesOK
  <2>4. /\ IsFiniteSet(telling') /\ Cardinality(telling) \in Nat
        /\ Cardinality(telling') = Cardinality(telling) \/ Cardinality(telling') = Cardinality(telling) + 1
    BY <2>2, FS_AddElement, FS_CardinalityType DEF TellingOK
  <2>5. TellingOK'
    BY <2>2, <2>4, TellingAssumption DEF TellingOK
  <2> QED  BY <2>3, <2>5
<1> QED  BY <1>1, <1>2, <1>3

\* The invariant of the controls.
LEMMA ControlsInvariant == ControlsSpec => [](ValuesOK /\ TellingOK)
<1>1. ControlsInit => ValuesOK /\ TellingOK
  <2> SUFFICES ASSUME ControlsInit PROVE ValuesOK /\ TellingOK
    OBVIOUS
  <2>1. TellingOK
    BY FS_EmptySet, TellingAssumption DEF ControlsInit, TellingOK
  <2>2. gValue = [o \in Control \cup Stream |-> IF o \in Mute THEN FALSE ELSE IF o \in Stream THEN TRUE ELSE 0]
    BY DEF ControlsInit, InitialValue
  <2>3. 0 \in 0 .. VolumeSteps /\ 0 \in 0 .. kDataSource_NumberItems - 1
    BY DEF VolumeSteps, kDataSource_NumberItems
  <2>4. /\ \A o \in Volume : o \in Control /\ o \notin Mute /\ o \notin Stream
        /\ \A o \in DataSource : o \in Control /\ o \notin Mute /\ o \notin Stream
        /\ Mute \subseteq Control
    BY ObjectNumbers
  <2>5. ValuesOK
    BY <2>2, <2>3, <2>4, Zenon DEF ValuesOK
  <2> QED  BY <2>1, <2>5
<1> QED  BY <1>1, ControlsStep, PTL DEF ControlsSpec

\* What an answer of a control or a stream depends on: its value, and that for
\* the properties the setter reports.
LEMMA ValueReads ==
    ASSUME NEW o \in Control \cup Stream, NEW a, NEW room, NEW qualifier, NEW s, NEW t,
           \/ s.value[o] = t.value[o]
           \/ /\ o \in Volume => a.sel \notin {"ScalarValue", "DecibelValue"}
              /\ o \in Mute => a.sel # "BooleanValue"
              /\ o \in DataSource => a.sel # "CurrentItem"
              /\ o \in Stream => a.sel # "IsActive"
    PROVE  GetPropertyData(o, a, room, qualifier, s) = GetPropertyData(o, a, room, qualifier, t)
<1>1. CASE o \in Stream
  <2>1. GetStreamIdentity(o, a, room, s) = GetStreamIdentity(o, a, room, t)
    <3>1. a.sel = "IsActive" => s.value[o] = t.value[o]
      BY <1>1, ObjectNumbers
    <3> QED  BY <3>1 DEF GetStreamIdentity
  <2>2. GetStreamPropertyData(o, a, room, s) = GetStreamPropertyData(o, a, room, t)
    BY <2>1 DEF GetStreamPropertyData
  <2>3. GetPropertyData(o, a, room, qualifier, s) = GetStreamPropertyData(o, a, room, s)
    BY <1>1, Dispatched
  <2>4. GetPropertyData(o, a, room, qualifier, t) = GetStreamPropertyData(o, a, room, t)
    BY <1>1, Dispatched
  <2> QED  BY <2>2, <2>3, <2>4
<1>2. CASE o \in Control
  <2>0. /\ o \in Volume /\ a.sel \in {"ScalarValue", "DecibelValue"} => s.value[o] = t.value[o]
        /\ o \in Mute /\ a.sel = "BooleanValue" => s.value[o] = t.value[o]
        /\ o \in DataSource /\ a.sel = "CurrentItem" => s.value[o] = t.value[o]
    OBVIOUS
  <2>1. o \in Volume => GetVolumeData(o, a, room, s) = GetVolumeData(o, a, room, t)
    BY <2>0 DEF GetVolumeData
  <2>2. o \in Mute => GetMuteData(o, a, room, s) = GetMuteData(o, a, room, t)
    BY <2>0 DEF GetMuteData
  <2>3. o \in DataSource => GetDataSourceData(o, a, room, qualifier, s) = GetDataSourceData(o, a, room, qualifier, t)
    BY <2>0 DEF GetDataSourceData
  <2>4. /\ o \in Volume \/ o \in Mute \/ o \in DataSource
        /\ o \in Volume => o \notin Mute /\ o \notin DataSource
        /\ o \in Mute => o \notin DataSource
    BY <1>2, ObjectNumbers
  <2>5. GetControlPropertyData(o, a, room, qualifier, s) = GetControlPropertyData(o, a, room, qualifier, t)
    BY <2>1, <2>2, <2>3, <2>4 DEF GetControlPropertyData
  <2>6. GetPropertyData(o, a, room, qualifier, s) = GetControlPropertyData(o, a, room, qualifier, s)
    BY <1>2, Dispatched
  <2>7. GetPropertyData(o, a, room, qualifier, t) = GetControlPropertyData(o, a, room, qualifier, t)
    BY <1>2, Dispatched
  <2> QED  BY <2>5, <2>6, <2>7
<1> QED  BY <1>1, <1>2

\* ControlsTypeOK: whatever is set, a volume stays on its scale and a data
\* source among its items.
THEOREM ControlsTypeCorrect == ControlsSpec => []ControlsTypeOK
<1>1. ValuesOK /\ TellingOK => ControlsTypeOK
  BY DEF ValuesOK, TellingOK, ControlsTypeOK
<1> QED  BY ControlsInvariant, <1>1, PTL

\* ControlChangesAnnounced: the two properties a volume is behind, and the one
\* every other value is behind, are among those the setter will report.
THEOREM ControlsAnnounce == ControlsSpec => ControlChangesAnnounced
<1> DEFINE Announced(p) == Reads(p)' # Reads(p) => <<p[1], p[2].sel>> \in UNION telling'
<1>1. ASSUME ValuesOK, ControlsNext, gValue' # gValue, NEW p \in ValueProperty PROVE Announced(p)
  <2>1. ~TellHost
    BY <1>1 DEF TellHost
  <2>0. PICK o \in Control \cup Stream : \E v, sels : Setting(o, v, sels)
    BY <1>1, <2>1, Setters
  <2>2. PICK v, sels : Setting(o, v, sels)
    BY <2>0
  <2>3. gValue' = [gValue EXCEPT ![o] = v] /\ telling' = telling \cup {{<<o, sel>> : sel \in sels}}
    BY <2>2 DEF Setting, Assign
  <2>4. p[1] \in Control \cup Stream
    BY DEF ValueProperty
  <2>5. CASE p[1] = o /\ p[2].sel \in sels
    BY <2>3, <2>5
  <2>6. CASE p[1] # o
    <3>1. gValue'[p[1]] = gValue[p[1]]
      BY <1>1, <2>3, <2>4, <2>6 DEF ValuesOK
    <3>2. ControlState'.value[p[1]] = ControlState.value[p[1]]
      BY <3>1 DEF ControlState
    <3>3. Reads(p)' = Reads(p)
      BY <2>4, <3>2, ValueReads DEF Reads
    <3> QED  BY <3>3
  <2>7. CASE p[1] = o /\ p[2].sel \notin sels
    <3>1. Reads(p)' = Reads(p)
      BY <2>2, <2>4, <2>7, ValueReads DEF Reads, Setting
    <3> QED  BY <3>1
  <2> QED  BY <2>5, <2>6, <2>7
<1>2. ValuesOK /\ TellingOK /\ [ControlsNext]_controlVars
        => [gValue' = gValue \/ \A p \in ValueProperty : Announced(p)]_controlVars
  BY <1>1
<1> QED  BY ControlsInvariant, <1>2, PTL DEF ControlsSpec, ControlChangesAnnounced
-----------------------------------------------------------------------------
(* SimpleAudio's properties.                                               *)

\* A reference is stored where one fits.
LEMMA StoredExact ==
    /\ ~(Ref < Word) /\ ~(Ref < Ref)
    /\ \A v : StoredRef(Ref, v) = Success(Ref, v)
BY Replies DEF StoredRef

\* What every object has.
LEMMA BaseExact ==
    ASSUME NEW a, SA_HasBaseProperty(a), NEW announced, NEW reply,
           announced = SA_GetBasePropertyDataSize(a), reply = SA_GetBasePropertyData(a, announced.size)
    PROVE  Exact(announced, reply)
<1>1. CASE a.sel \in SA_BaseWord
  <2>1. announced = Success(Word, 0) /\ announced.size = Word /\ Word \in Int
    BY <1>1, Replies DEF SA_GetBasePropertyDataSize, SA_BaseWord
  <2>2. SA_GetBasePropertyData(a, Word) = Fixed(Word, Word, 0)
    BY <1>1 DEF SA_GetBasePropertyData, SA_BaseWord
  <2> QED  BY <2>1, <2>2, FixedExact
<1>2. CASE a.sel = "OwnedObjects"
  <2>1. announced = Success(0, 0) /\ reply = Success(0, <<>>)
    BY <1>2 DEF SA_GetBasePropertyDataSize, SA_GetBasePropertyData, SA_BaseWord
  <2> QED  BY <2>1, Replies DEF Exact
<1> QED  BY <1>1, <1>2 DEF SA_HasBaseProperty

\* The plug-in announces what it returns;
LEMMA SA_PlugInExact ==
    ASSUME NEW a, SA_HasPlugInProperty(a), NEW s, Len(s.devices) = 1, NEW announced, NEW reply,
           announced = SA_GetPlugInPropertyDataSize(a, s),
           reply = SA_GetPlugInPropertyData(a, announced.size, Ref, s)
    PROVE  Exact(announced, reply)
<1>1. CASE a.sel = "Manufacturer"
  <2>1. announced = Success(Ref, 0) /\ announced.size = Ref /\ Ref \in Int
    BY <1>1, Replies DEF SA_GetPlugInPropertyDataSize
  <2>2. SA_GetPlugInPropertyData(a, Ref, Ref, s) = Fixed(Ref, Ref, 0)
    BY <1>1 DEF SA_GetPlugInPropertyData
  <2> QED  BY <2>1, <2>2, FixedExact
<1>2. CASE a.sel = "ResourceBundle"
  <2>1. announced = Success(Ref, 0) /\ announced.size = Ref /\ Ref \in Int
    BY <1>2, Replies DEF SA_GetPlugInPropertyDataSize
  <2>2. SA_GetPlugInPropertyData(a, Ref, Ref, s) = Success(Ref, 0)
    BY <1>2, StoredExact DEF SA_GetPlugInPropertyData
  <2> QED  BY <2>1, <2>2, Replies DEF Exact
<1>3. CASE a.sel = "TranslateUIDToDevice"
  <2>1. announced = Success(Word, 0) /\ announced.size = Word /\ Word \in Int
    BY <1>3, Replies DEF SA_GetPlugInPropertyDataSize
  <2>2. SA_GetPlugInPropertyData(a, Word, Ref, s) = Fixed(Word, Word, 0)
    BY <1>3, StoredExact DEF SA_GetPlugInPropertyData
  <2> QED  BY <2>1, <2>2, FixedExact
<1>4. CASE a.sel \in {"OwnedObjects", "DeviceList"}
  <2>1. announced = Success(Len(s.devices) * Word, 0) /\ announced.size = Len(s.devices) * Word
    BY <1>4, Replies DEF SA_GetPlugInPropertyDataSize
  <2>2. \A room : SA_GetPlugInPropertyData(a, room, Ref, s) = Items(s.devices, Word, room)
    BY <1>4 DEF SA_GetPlugInPropertyData
  <2>3. Len(s.devices) \in Nat
    OBVIOUS
  <2> DEFINE list == s.devices
  <2> HIDE DEF list
  <2>4. /\ announced = Success(Len(list) * Word, 0) /\ Len(list) \in Nat
        /\ reply = Items(list, Word, Len(list) * Word)
    BY <2>1, <2>2, <2>3 DEF list
  <2> QED  BY <2>4, ItemsExact
<1>5. CASE a.sel \notin SA_PlugInSelector \cup {"OwnedObjects"}
  <2>1. /\ SA_HasBaseProperty(a) /\ announced = SA_GetBasePropertyDataSize(a)
        /\ reply = SA_GetBasePropertyData(a, announced.size)
    BY <1>5 DEF SA_HasPlugInProperty, SA_PlugInSelector, SA_GetPlugInPropertyDataSize, SA_GetPlugInPropertyData
  <2> QED  BY <2>1, BaseExact
<1> QED  BY <1>1, <1>2, <1>3, <1>4, <1>5 DEF SA_PlugInSelector

\* The device's lists are as long as it announces.
LEMMA SA_ListLengths ==
    /\ \A s \in Scope : Len(SA_OwnedObjects(s)) = (IF s = "Global" THEN 4 ELSE 2)
    /\ \A s \in Scope : Len(SA_Streams(s)) = (IF s = "Global" THEN 2 ELSE 1)
    /\ Len(SA_ControlList) = 2
<1>1. \A s \in Scope : Len(SA_OwnedObjects(s)) = (IF s = "Global" THEN 4 ELSE 2)
  BY DEF SA_OwnedObjects, SA_Streams, SA_Parts, Scope
<1>2. \A s \in Scope : Len(SA_Streams(s)) = (IF s = "Global" THEN 2 ELSE 1)
  BY DEF SA_Streams, SA_Parts, Scope
<1>3. Len(SA_ControlList) = 2
  BY DEF SA_ControlList
<1> QED  BY <1>1, <1>2, <1>3

\* so does the device,
LEMMA SA_DeviceExact ==
    ASSUME NEW a, a.scope \in Scope, SA_HasDeviceProperty(a), NEW s, NEW announced, NEW reply,
           announced = SA_GetDevicePropertyDataSize(a),
           reply = SA_GetDevicePropertyData(a, announced.size, s)
    PROVE  Exact(announced, reply)
<1> DEFINE Reply(room) == SA_GetDevicePropertyData(a, room, s)
<1>1. /\ a.sel \in SA_DeviceIdentity => \A room : Reply(room) = SA_GetDeviceIdentity(a, room)
      /\ a.sel \in SA_DeviceRelations => \A room : Reply(room) = SA_GetDeviceRelations(a, room)
      /\ a.sel \notin SA_DeviceIdentity \cup SA_DeviceRelations => \A room : Reply(room) = SA_GetDeviceSettings(a, room, s)
  BY DEF SA_GetDevicePropertyData, SA_DeviceIdentity, SA_DeviceRelations
<1>2. CASE a.sel \in {"Name", "Manufacturer", "DeviceUID", "ModelUID"}
  <2>1. announced = Success(Ref, 0) /\ announced.size = Ref /\ Ref \in Int
    BY <1>2, Replies DEF SA_GetDevicePropertyDataSize
  <2>2. Reply(Ref) = StoredRef(Ref, 0)
    BY <1>1, <1>2 DEF SA_DeviceIdentity, SA_GetDeviceIdentity
  <2>3. reply = Success(Ref, 0)
    BY <2>1, <2>2, StoredExact
  <2> QED  BY <2>1, <2>3, Replies DEF Exact
<1>3. CASE a.sel = "NominalSampleRate"
  <2>1. announced = Success(Ref, 0) /\ announced.size = Ref /\ Ref \in Int
    BY <1>3, Replies DEF SA_GetDevicePropertyDataSize
  <2>2. Reply(Ref) = Fixed(Ref, Ref, s.rate)
    BY <1>1, <1>3 DEF SA_DeviceIdentity, SA_DeviceRelations, SA_GetDeviceSettings
  <2>3. reply = Reply(Ref)
    BY <2>1
  <2> HIDE DEF Reply
  <2> QED  BY <2>1, <2>2, <2>3, FixedExact
<1>4. CASE a.sel \in {"OwnedObjects", "Streams", "ControlList", "RelatedDevices"}
  <2>1. PICK list : /\ announced = Success(Len(list) * Word, 0) /\ Len(list) \in Nat
                    /\ \A room : Reply(room) = Items(list, Word, room)
    <3>1. CASE a.sel = "OwnedObjects"
      <4>1. announced = Success(Len(SA_OwnedObjects(a.scope)) * Word, 0)
        BY <3>1, SA_ListLengths DEF SA_GetDevicePropertyDataSize
      <4>2. \A room : Reply(room) = Items(SA_OwnedObjects(a.scope), Word, room)
        BY <1>1, <3>1 DEF SA_DeviceIdentity, SA_GetDeviceIdentity
      <4> QED  BY <4>1, <4>2, SA_ListLengths
    <3>2. CASE a.sel = "Streams"
      <4>1. announced = Success(Len(SA_Streams(a.scope)) * Word, 0)
        BY <3>2, SA_ListLengths DEF SA_GetDevicePropertyDataSize
      <4>2. \A room : Reply(room) = Items(SA_Streams(a.scope), Word, room)
        BY <1>1, <3>2 DEF SA_DeviceRelations, SA_GetDeviceRelations
      <4> QED  BY <4>1, <4>2, SA_ListLengths
    <3>3. CASE a.sel = "ControlList"
      <4>1. announced = Success(2 * Word, 0)
        BY <3>3 DEF SA_GetDevicePropertyDataSize
      <4>2. \A room : Reply(room) = Items(SA_ControlList, Word, room)
        BY <1>1, <3>3 DEF SA_DeviceRelations, SA_GetDeviceRelations
      <4> HIDE DEF Reply
      <4>3. announced = Success(Len(SA_ControlList) * Word, 0) /\ Len(SA_ControlList) \in Nat
        BY <4>1, SA_ListLengths
      <4> QED  BY <4>2, <4>3
    <3>4. CASE a.sel = "RelatedDevices"
      <4>1. announced = Success(Word, 0) /\ Len(<<"device">>) = 1
        BY <3>4 DEF SA_GetDevicePropertyDataSize
      <4>2. \A room : Reply(room) = Items(<<"device">>, Word, room)
        BY <1>1, <3>4 DEF SA_DeviceRelations, SA_GetDeviceRelations
      <4>3. announced = Success(Len(<<"device">>) * Word, 0) /\ Len(<<"device">>) \in Nat
        BY <4>1, Replies
      <4> HIDE DEF Reply
      <4> QED  BY <4>2, <4>3
    <3> QED  BY <1>4, <3>1, <3>2, <3>3, <3>4
  <2>2. reply = Reply(announced.size) /\ announced.size = Len(list) * Word
    BY <2>1, Replies
  <2> HIDE DEF Reply
  <2> QED  BY <2>1, <2>2, ItemsExact
<1>5. CASE a.sel = "AvailableNominalSampleRates"
  <2> DEFINE list == <<44100, 48000>>
  <2>1. announced = Success(2 * ValueRange, 0) /\ Len(list) = 2
    BY <1>5 DEF SA_GetDevicePropertyDataSize
  <2>2. \A room : Reply(room) = Items(list, ValueRange, room)
    BY <1>1, <1>5 DEF SA_DeviceIdentity, SA_DeviceRelations, SA_GetDeviceSettings
  <2>3. reply = Reply(announced.size) /\ announced.size = 2 * ValueRange
    BY <2>1, Replies
  <2> HIDE DEF Reply, list
  <2>4. /\ announced = Success(Len(list) * ValueRange, 0) /\ Len(list) \in Nat
        /\ reply = Items(list, ValueRange, Len(list) * ValueRange)
    BY <2>1, <2>2, <2>3
  <2> QED  BY <2>4, ItemsExact
<1>6. CASE a.sel = "PreferredChannelsForStereo"
  <2>1. announced = Success(2 * Word, 0) /\ announced.size = 2 * Word /\ 2 * Word \in Int
    BY <1>6, Replies DEF SA_GetDevicePropertyDataSize
  <2>2. Reply(2 * Word) = Fixed(2 * Word, 2 * Word, 0)
    BY <1>1, <1>6 DEF SA_DeviceIdentity, SA_DeviceRelations, SA_GetDeviceSettings
  <2>3. reply = Reply(2 * Word)
    BY <2>1
  <2> HIDE DEF Reply
  <2> QED  BY <2>1, <2>2, <2>3, FixedExact
<1>7. CASE a.sel = "PreferredChannelLayout"
  <2>1. announced = Success(StereoLayout, 0) /\ announced.size = StereoLayout /\ StereoLayout \in Int
    BY <1>7, Replies DEF SA_GetDevicePropertyDataSize, StereoLayout
  <2>2. Reply(StereoLayout) = Fixed(StereoLayout, StereoLayout, 0)
    BY <1>1, <1>7 DEF SA_DeviceIdentity, SA_DeviceRelations, SA_GetDeviceSettings
  <2>3. reply = Reply(StereoLayout)
    BY <2>1
  <2> HIDE DEF Reply
  <2> QED  BY <2>1, <2>2, <2>3, FixedExact
<1>8. CASE a.sel \in {"TransportType", "ClockDomain", "DeviceIsAlive", "DeviceIsRunning",
          "DeviceCanBeDefaultDevice", "DeviceCanBeDefaultSystemDevice", "Latency", "SafetyOffset", "IsHidden",
          "ZeroTimeStampPeriod"}
  <2>1. announced = Success(Word, 0) /\ announced.size = Word /\ Word \in Int
    BY <1>8, Replies DEF SA_GetDevicePropertyDataSize
  <2>2. Reply(Word) = Fixed(Word, Word, 0)
    BY <1>1, <1>8 DEF SA_DeviceIdentity, SA_DeviceRelations, SA_GetDeviceIdentity, SA_GetDeviceRelations,
        SA_GetDeviceSettings
  <2>3. reply = Reply(Word)
    BY <2>1
  <2> HIDE DEF Reply
  <2> QED  BY <2>1, <2>2, <2>3, FixedExact
<1>9. CASE a.sel \in SA_BaseWord
  <2>1. announced = SA_GetBasePropertyDataSize(a) /\ SA_HasBaseProperty(a)
    BY <1>9 DEF SA_GetDevicePropertyDataSize, SA_BaseWord, SA_HasBaseProperty
  <2>2. \A room : Reply(room) = SA_GetBasePropertyData(a, room)
    BY <1>1, <1>9 DEF SA_DeviceIdentity, SA_DeviceRelations, SA_GetDeviceSettings, SA_BaseWord
  <2> QED  BY <2>1, <2>2, BaseExact
<1> QED  BY <1>2, <1>3, <1>4, <1>5, <1>6, <1>7, <1>8, <1>9 DEF SA_HasDeviceProperty, SA_HasBaseProperty,
             SA_DeviceSelector, SA_ScopedSelector

\* a stream,
LEMMA SA_StreamExact ==
    ASSUME NEW a, SA_HasStreamProperty(a), NEW s, NEW announced, NEW reply,
           announced = SA_GetStreamPropertyDataSize(a),
           reply = SA_GetStreamPropertyData(a, announced.size, s)
    PROVE  Exact(announced, reply)
<1>1. CASE a.sel \in SA_StreamWord
  <2>1. announced = Success(Word, 0) /\ announced.size = Word /\ Word \in Int
    BY <1>1, Replies DEF SA_GetStreamPropertyDataSize, SA_StreamWord, SA_StreamFormat, SA_StreamFormats
  <2>2. PICK v : SA_GetStreamPropertyData(a, Word, s) = Fixed(Word, Word, v)
    BY <1>1 DEF SA_GetStreamPropertyData, SA_StreamWord, SA_StreamFormat, SA_StreamFormats, SA_BaseWord
  <2> QED  BY <2>1, <2>2, FixedExact
<1>2. CASE a.sel \in SA_StreamFormat
  <2>1. announced = Success(Format, 0) /\ announced.size = Format /\ Format \in Int
    BY <1>2, Replies DEF SA_GetStreamPropertyDataSize, SA_StreamWord, SA_StreamFormat, SA_StreamFormats, Format
  <2>2. PICK v : SA_GetStreamPropertyData(a, Format, s) = Fixed(Format, Format, v)
    BY <1>2 DEF SA_GetStreamPropertyData, SA_GetStreamFormats, SA_StreamWord, SA_StreamFormat, SA_StreamFormats,
        SA_BaseWord
  <2> QED  BY <2>1, <2>2, FixedExact
<1>3. CASE a.sel \in SA_StreamFormats
  <2> DEFINE list == <<FormatOf(44100, "int16"), FormatOf(48000, "int16")>>
  <2>1. announced = Success(2 * RangedFormat, 0) /\ announced.size = 2 * RangedFormat /\ Len(list) = 2
    BY <1>3, Replies DEF SA_GetStreamPropertyDataSize, SA_StreamWord, SA_StreamFormat, SA_StreamFormats
  <2>2. \A room : SA_GetStreamPropertyData(a, room, s) = Items(list, RangedFormat, room)
    BY <1>3 DEF SA_GetStreamPropertyData, SA_GetStreamFormats, SA_StreamWord, SA_StreamFormat, SA_StreamFormats,
        SA_BaseWord
  <2> HIDE DEF list
  <2>3. /\ announced = Success(Len(list) * RangedFormat, 0) /\ Len(list) \in Nat
        /\ reply = Items(list, RangedFormat, Len(list) * RangedFormat)
    BY <2>1, <2>2
  <2> QED  BY <2>3, ItemsExact
<1>4. CASE a.sel \notin SA_StreamWord \cup SA_StreamFormat \cup SA_StreamFormats
  <2>1. announced = SA_GetBasePropertyDataSize(a) /\ SA_HasBaseProperty(a)
    BY <1>4 DEF SA_GetStreamPropertyDataSize, SA_HasStreamProperty
  <2>2. SA_GetStreamPropertyData(a, announced.size, s) = SA_GetBasePropertyData(a, announced.size)
    BY <1>4, <2>1 DEF SA_GetStreamPropertyData, SA_GetBasePropertyData, SA_BaseWord, SA_HasBaseProperty,
        SA_StreamWord
  <2> QED  BY <2>1, <2>2, BaseExact
<1> QED  BY <1>1, <1>2, <1>3, <1>4

\* and a control.
LEMMA SA_ControlExact ==
    ASSUME NEW o, NEW a, SA_HasControlProperty(a), NEW s, NEW announced, NEW reply,
           announced = SA_GetControlPropertyDataSize(a),
           reply = SA_GetControlPropertyData(o, a, announced.size, s)
    PROVE  Exact(announced, reply)
<1>1. CASE a.sel \in SA_LevelSelector \ {"DecibelRange"}
  <2>1. announced = Success(Word, 0) /\ announced.size = Word /\ Word \in Int
    BY <1>1, Replies DEF SA_GetControlPropertyDataSize, SA_LevelSelector, SA_LevelValue
  <2>2. PICK v : SA_GetControlPropertyData(o, a, Word, s) = Fixed(Word, Word, v)
    BY <1>1 DEF SA_GetControlPropertyData, SA_LevelSelector, SA_LevelValue, SA_BaseWord
  <2> QED  BY <2>1, <2>2, FixedExact
<1>2. CASE a.sel = "DecibelRange"
  <2>1. announced = Success(ValueRange, 0) /\ announced.size = ValueRange /\ ValueRange \in Int
    BY <1>2, Replies DEF SA_GetControlPropertyDataSize, SA_LevelSelector, SA_LevelValue, ValueRange
  <2>2. PICK v : SA_GetControlPropertyData(o, a, ValueRange, s) = Fixed(ValueRange, ValueRange, v)
    BY <1>2 DEF SA_GetControlPropertyData, SA_BaseWord
  <2> QED  BY <2>1, <2>2, FixedExact
<1>3. CASE a.sel \notin SA_LevelSelector
  <2>1. announced = SA_GetBasePropertyDataSize(a) /\ SA_HasBaseProperty(a)
    BY <1>3 DEF SA_GetControlPropertyDataSize, SA_HasControlProperty, SA_LevelSelector
  <2>2. SA_GetControlPropertyData(o, a, announced.size, s) = SA_GetBasePropertyData(a, announced.size)
    BY <1>3, <2>1 DEF SA_GetControlPropertyData, SA_GetBasePropertyData, SA_BaseWord, SA_HasBaseProperty,
        SA_LevelSelector, SA_LevelValue
  <2> QED  BY <2>1, <2>2, BaseExact
<1> QED  BY <1>1, <1>2, <1>3 DEF SA_LevelSelector

\* What can be set is what a setter takes.
LEMMA SA_SettableAgrees ==
    ASSUME NEW o \in SA_ObjectID, NEW a, SA_HasProperty(o, a)
    PROVE  SA_IsPropertySettable(o, a) = IF a.sel \in SA_Settable(o) THEN "yes" ELSE "no"
<1>1. CASE o = "plug-in"
  BY <1>1 DEF SA_HasProperty, SA_IsPropertySettable, SA_Settable, SA_HasPlugInProperty, SA_IsPlugInPropertySettable,
      SA_IsBasePropertySettable, SA_Stream, SA_Control
<1>2. CASE o = "device"
  BY <1>2 DEF SA_HasProperty, SA_IsPropertySettable, SA_Settable, SA_HasDeviceProperty, SA_IsDevicePropertySettable,
      SA_IsBasePropertySettable, SA_HasBaseProperty, SA_BaseWord, SA_DeviceSelector, SA_ScopedSelector,
      SA_Stream, SA_Control
<1>3. CASE o \in SA_Stream
  BY <1>3 DEF SA_HasProperty, SA_IsPropertySettable, SA_Settable, SA_HasStreamProperty, SA_IsStreamPropertySettable,
      SA_IsBasePropertySettable, SA_HasBaseProperty, SA_BaseWord, SA_StreamWord, SA_StreamFormat, SA_StreamFormats,
      SA_Stream, SA_Control
<1>4. CASE o \in SA_Control
  BY <1>4 DEF SA_HasProperty, SA_IsPropertySettable, SA_Settable, SA_HasControlProperty, SA_IsControlPropertySettable,
      SA_IsBasePropertySettable, SA_HasBaseProperty, SA_BaseWord, SA_LevelSelector, SA_LevelValue,
      SA_Stream, SA_Control
<1> QED  BY <1>1, <1>2, <1>3, <1>4 DEF SA_ObjectID, SA_DeviceObject

\* SA_TablesAgree: the four tables of every SimpleAudio object agree
\* (SA_Device's and SA_PlugIn's Has, Is, Get size and Get data).
THEOREM SA_TablesAlwaysAgree == SA_Spec => []SA_TablesAgree
<1>1. SA_TablesAgree
  <2> SUFFICES ASSUME NEW o \in SA_ObjectID, NEW a \in [sel : SA_Selector, scope : Scope], SA_HasProperty(o, a),
                      NEW announced, announced = SA_GetPropertyDataSize(o, a, SA_State),
                      NEW reply, reply = SA_GetPropertyData(o, a, announced.size, Ref, SA_State)
               PROVE  /\ SA_IsPropertySettable(o, a) = IF a.sel \in SA_Settable(o) THEN "yes" ELSE "no"
                      /\ announced.status = "ok"
                      /\ reply.status = "ok" /\ reply.size = announced.size
    BY DEF SA_TablesAgree, SA_Property
  <2>1. Exact(announced, reply)
    <3>1. CASE o = "plug-in"
      <4>1. Len(SA_State.devices) = 1
        BY DEF SA_State
      <4>2. /\ SA_HasPlugInProperty(a) /\ announced = SA_GetPlugInPropertyDataSize(a, SA_State)
            /\ reply = SA_GetPlugInPropertyData(a, announced.size, Ref, SA_State)
        BY <3>1 DEF SA_HasProperty, SA_GetPropertyDataSize, SA_GetPropertyData, SA_Stream, SA_Control
      <4> QED  BY <4>1, <4>2, SA_PlugInExact
    <3>2. CASE o = "device"
      <4>1. /\ SA_HasDeviceProperty(a) /\ announced = SA_GetDevicePropertyDataSize(a)
            /\ reply = SA_GetDevicePropertyData(a, announced.size, SA_State)
        BY <3>2 DEF SA_HasProperty, SA_GetPropertyDataSize, SA_GetPropertyData, SA_Stream, SA_Control
      <4> QED  BY <4>1, SA_DeviceExact
    <3>3. CASE o \in SA_Stream
      <4>1. /\ SA_HasStreamProperty(a) /\ announced = SA_GetStreamPropertyDataSize(a)
            /\ reply = SA_GetStreamPropertyData(a, announced.size, SA_State)
        BY <3>3 DEF SA_HasProperty, SA_GetPropertyDataSize, SA_GetPropertyData, SA_Stream, SA_Control
      <4> QED  BY <4>1, SA_StreamExact
    <3>4. CASE o \in SA_Control
      <4>1. /\ SA_HasControlProperty(a) /\ announced = SA_GetControlPropertyDataSize(a)
            /\ reply = SA_GetControlPropertyData(o, a, announced.size, SA_State)
        BY <3>4 DEF SA_HasProperty, SA_GetPropertyDataSize, SA_GetPropertyData, SA_Stream, SA_Control
      <4> QED  BY <4>1, SA_ControlExact
    <3> QED  BY <3>1, <3>2, <3>3, <3>4 DEF SA_ObjectID, SA_DeviceObject
  <2>2. SA_IsPropertySettable(o, a) = IF a.sel \in SA_Settable(o) THEN "yes" ELSE "no"
    BY SA_SettableAgrees
  <2> QED  BY <2>1, <2>2 DEF Exact
<1> QED  BY <1>1, PTL

\* SimpleAudio's levels: a block that tells the host of a control.
Telling(o) == [pc |-> "telling", o |-> o]
Block == {Telling(o) : o \in SA_Control} \cup [pc : {"asking"}, rate : {44100, 48000}]

LevelsOK ==
    /\ driverVolume = [o \in SA_Control |-> driverVolume[o]]
    /\ hostLevel = [o \in SA_Control |-> [sel \in SA_LevelValue |-> hostLevel[o][sel]]]
    /\ toRead \subseteq SA_Control \X SA_LevelValue
    /\ setting \in [SA_Thread -> Block \cup {SA_Idle}]
    /\ serialQueue \in Seq(Block)
SA_Inv == LevelsOK /\ SA_HostUpToDate

\* The level of a control is what the table of the controls says.
LEMMA LevelIs ==
    ASSUME NEW o \in SA_Control, NEW sel \in SA_LevelValue
    PROVE  SA_Level(o, sel) = SA_GetControlPropertyData(o, [sel |-> sel, scope |-> "Global"], Word, SA_State).value
<1> DEFINE a == [sel |-> sel, scope |-> "Global"]
<1>1. \A s : SA_GetPropertyData(o, a, Word, 0, s) = SA_GetControlPropertyData(o, a, Word, s)
  BY DEF SA_GetPropertyData, SA_Control, SA_Stream
<1> QED  BY <1>1 DEF SA_Level

\* The level of a control is that of its own volume.
LEMMA LevelOf ==
    ASSUME NEW o \in SA_Control, NEW sel \in SA_LevelValue, driverVolume'[o] = driverVolume[o]
    PROVE  SA_Level(o, sel)' = SA_Level(o, sel)
<1> DEFINE a == [sel |-> sel, scope |-> "Global"]
<1>1. \A s : SA_GetPropertyData(o, a, Word, 0, s) = SA_GetControlPropertyData(o, a, Word, s)
  BY DEF SA_GetPropertyData, SA_Control, SA_Stream
<1>2. /\ SA_State'.curve = SA_State.curve /\ SA_State'.exponent = SA_State.exponent
      /\ SA_State'.raw[o] = SA_State.raw[o]
  BY DEF SA_State
<1>3. SA_GetControlPropertyData(o, a, Word, SA_State') = SA_GetControlPropertyData(o, a, Word, SA_State)
  BY <1>2 DEF SA_GetControlPropertyData, SA_LevelValue, SA_BaseWord
<1>4. SA_GetPropertyData(o, a, Word, 0, SA_State') = SA_GetPropertyData(o, a, Word, 0, SA_State)
  BY <1>1, <1>3
<1> QED  BY <1>4 DEF SA_Level

\* What a thread may have to dispatch.
LEMMA BlockKinds ==
    /\ SA_Idle \notin Block
    /\ \A b \in Block : b.pc = "telling" <=> \E o \in SA_Control : b = Telling(o)
    /\ \A o \in SA_Control : Telling(o) \in Block /\ Telling(o).o = o /\ Telling(o).pc = "telling"
<1>1. \A o \in SA_Control : Telling(o) \in Block /\ Telling(o).o = o /\ Telling(o).pc = "telling"
  BY DEF Block, Telling
<1>2. \A b \in [pc : {"asking"}, rate : {44100, 48000}] : b.pc = "asking"
  OBVIOUS
<1>3. \A b \in Block : b.pc = "asking" \/ \E o \in SA_Control : b = Telling(o)
  BY <1>2 DEF Block
<1>4. \A b \in Block : b.pc = "telling" <=> \E o \in SA_Control : b = Telling(o)
  BY <1>1, <1>3
<1>5. SA_Idle.pc = "idle"
  BY DEF SA_Idle
<1>6. SA_Idle \notin Block
  BY <1>1, <1>3, <1>5
<1> QED  BY <1>1, <1>4, <1>6

\* Every step preserves that a stale level will be read again.
LEMMA SA_StepInv == SA_Inv /\ [SA_Next]_saVars => SA_Inv'
<1> SUFFICES ASSUME SA_Inv, [SA_Next]_saVars PROVE SA_Inv'
  OBVIOUS
<1> DEFINE Fresh(o, sel) == \/ hostLevel[o][sel] = SA_Level(o, sel)
                            \/ <<o, sel>> \in toRead
                            \/ \E c \in SA_Thread : setting[c] = Telling(o)
                            \/ \E i \in DOMAIN serialQueue : serialQueue[i] = Telling(o)
<1>0. /\ SA_HostUpToDate <=> \A o \in SA_Control, sel \in SA_LevelValue : Fresh(o, sel)
      /\ SA_HostUpToDate' <=> \A o \in SA_Control, sel \in SA_LevelValue : Fresh(o, sel)'
  BY DEF SA_HostUpToDate, Telling
<1>1. \A o \in SA_Control, sel \in SA_LevelValue : Fresh(o, sel)
  BY <1>0 DEF SA_Inv
<1>2. ASSUME UNCHANGED <<driverVolume, queueVars, toRead, hostLevel>> PROVE SA_Inv'
  <2>1. LevelsOK'
    BY <1>2 DEF SA_Inv, LevelsOK, queueVars
  <2>2. ASSUME NEW o \in SA_Control, NEW sel \in SA_LevelValue PROVE Fresh(o, sel)'
    <3>1. SA_Level(o, sel)' = SA_Level(o, sel)
      BY <1>2, LevelOf
    <3> QED  BY <1>2, <1>1, <3>1 DEF queueVars
  <2> QED  BY <1>0, <2>1, <2>2 DEF SA_Inv
<1>3. ASSUME NEW c \in SA_Thread, NEW o \in SA_Control, NEW raw, SA_SetVolume(c, o, raw) PROVE SA_Inv'
  <2>1. /\ setting[c] = SA_Idle /\ driverVolume' = [driverVolume EXCEPT ![o] = raw]
        /\ setting' = [setting EXCEPT ![c] = Telling(o)]
        /\ UNCHANGED <<serialQueue, toRead, hostLevel>>
    BY <1>3 DEF SA_SetVolume, hostVars, Telling
  <2>2. LevelsOK'
    <3>1. Telling(o) \in Block
      BY BlockKinds
    <3>2. setting' \in [SA_Thread -> Block \cup {SA_Idle}]
      BY <2>1, <3>1 DEF SA_Inv, LevelsOK
    <3>3. driverVolume' = [x \in SA_Control |-> driverVolume'[x]]
      BY <2>1 DEF SA_Inv, LevelsOK
    <3> QED  BY <2>1, <3>2, <3>3 DEF SA_Inv, LevelsOK
  <2>3. ASSUME NEW x \in SA_Control, NEW sel \in SA_LevelValue PROVE Fresh(x, sel)'
    <3>1. CASE x = o
      BY <2>1, <3>1 DEF SA_Inv, LevelsOK
    <3>2. CASE x # o
      <4>1. driverVolume'[x] = driverVolume[x]
        BY <2>1, <3>2 DEF SA_Inv, LevelsOK
      <4>2. SA_Level(x, sel)' = SA_Level(x, sel)
        BY <4>1, LevelOf
      <4>3. \A d \in SA_Thread : setting[d] = Telling(x) => setting'[d] = Telling(x)
        BY <2>1, BlockKinds DEF SA_Inv, LevelsOK
      <4>4. Fresh(x, sel)
        BY <1>1
      <4>5. serialQueue' = serialQueue /\ toRead' = toRead /\ hostLevel' = hostLevel
        BY <2>1
      <4> QED  BY <4>2, <4>3, <4>4, <4>5
    <3> QED  BY <3>1, <3>2
  <2> QED  BY <1>0, <2>2, <2>3 DEF SA_Inv
<1>4. ASSUME NEW c \in SA_Thread, NEW rate \in {44100, 48000}, SA_AskRate(c, rate) PROVE SA_Inv'
  <2> DEFINE b == [pc |-> "asking", rate |-> rate]
  <2>1. /\ setting[c] = SA_Idle /\ setting' = [setting EXCEPT ![c] = b]
        /\ UNCHANGED <<driverVolume, serialQueue, toRead, hostLevel>>
    BY <1>4 DEF SA_AskRate, hostVars
  <2>2. b \in Block
    BY DEF Block
  <2> HIDE DEF b
  <2>3. LevelsOK'
    <3>1. setting' \in [SA_Thread -> Block \cup {SA_Idle}]
      BY <2>1, <2>2 DEF SA_Inv, LevelsOK
    <3> QED  BY <2>1, <3>1 DEF SA_Inv, LevelsOK
  <2>4. ASSUME NEW x \in SA_Control, NEW sel \in SA_LevelValue PROVE Fresh(x, sel)'
    <3>1. SA_Level(x, sel)' = SA_Level(x, sel)
      BY <2>1, LevelOf
    <3>2. \A d \in SA_Thread : setting[d] = Telling(x) => setting'[d] = Telling(x)
      BY <2>1, BlockKinds DEF SA_Inv, LevelsOK
    <3>3. Fresh(x, sel)
      BY <1>1
    <3>4. serialQueue' = serialQueue /\ toRead' = toRead /\ hostLevel' = hostLevel
      BY <2>1
    <3> QED  BY <3>1, <3>2, <3>3, <3>4
  <2> QED  BY <1>0, <2>3, <2>4 DEF SA_Inv
<1>5. ASSUME NEW c \in SA_Thread, SA_Dispatch(c) PROVE SA_Inv'
  <2>1. /\ setting[c] # SA_Idle /\ serialQueue' = Append(serialQueue, setting[c])
        /\ setting' = [setting EXCEPT ![c] = SA_Idle]
        /\ UNCHANGED <<driverVolume, toRead, hostLevel>>
    BY <1>5 DEF SA_Dispatch, hostVars
  <2>2. setting[c] \in Block /\ serialQueue \in Seq(Block)
    BY <2>1 DEF SA_Inv, LevelsOK
  <2>3. /\ serialQueue' \in Seq(Block) /\ Len(serialQueue') = Len(serialQueue) + 1
        /\ serialQueue'[Len(serialQueue')] = setting[c] /\ Len(serialQueue) \in Nat
        /\ \A i \in DOMAIN serialQueue : i \in DOMAIN serialQueue' /\ serialQueue'[i] = serialQueue[i]
        /\ Len(serialQueue') \in DOMAIN serialQueue'
    BY <2>1, <2>2
  <2>4. LevelsOK'
    <3>1. setting' \in [SA_Thread -> Block \cup {SA_Idle}]
      BY <2>1 DEF SA_Inv, LevelsOK
    <3> QED  BY <2>1, <2>3, <3>1 DEF SA_Inv, LevelsOK
  <2>5. ASSUME NEW x \in SA_Control, NEW sel \in SA_LevelValue PROVE Fresh(x, sel)'
    <3>1. SA_Level(x, sel)' = SA_Level(x, sel)
      BY <2>1, LevelOf
    <3>2. \A d \in SA_Thread \ {c} : setting'[d] = setting[d]
      BY <2>1 DEF SA_Inv, LevelsOK
    <3>3. Fresh(x, sel)
      BY <1>1
    <3>4. (\E d \in SA_Thread : setting[d] = Telling(x))
            => \/ \E d \in SA_Thread : setting'[d] = Telling(x)
               \/ \E i \in DOMAIN serialQueue' : serialQueue'[i] = Telling(x)
      BY <2>3, <3>2
    <3>5. (\E i \in DOMAIN serialQueue : serialQueue[i] = Telling(x))
            => \E i \in DOMAIN serialQueue' : serialQueue'[i] = Telling(x)
      BY <2>3
    <3>6. toRead' = toRead /\ hostLevel' = hostLevel
      BY <2>1
    <3> QED  BY <3>1, <3>3, <3>4, <3>5, <3>6
  <2> QED  BY <1>0, <2>4, <2>5 DEF SA_Inv
<1>6. CASE SA_RunBlock
  <2> DEFINE block == Head(serialQueue)
  <2>1. /\ serialQueue # <<>> /\ serialQueue' = Tail(serialQueue)
        /\ toRead' = IF block.pc = "telling" THEN toRead \cup {<<block.o, sel>> : sel \in SA_LevelValue} ELSE toRead
        /\ UNCHANGED <<driverVolume, setting, hostLevel>>
    BY <1>6 DEF SA_RunBlock
  <2>2. serialQueue \in Seq(Block)
    BY DEF SA_Inv, LevelsOK
  <2>3. /\ serialQueue' \in Seq(Block) /\ block \in Block /\ block = serialQueue[1]
        /\ \A i \in DOMAIN serialQueue : i # 1 => i - 1 \in DOMAIN serialQueue' /\ serialQueue'[i - 1] = serialQueue[i]
    BY <2>1, <2>2
  <2> HIDE DEF block
  <2>4. LevelsOK'
    <3>1. toRead' \subseteq SA_Control \X SA_LevelValue
      <4>1. block.pc = "telling" => block.o \in SA_Control
        BY <2>3, BlockKinds
      <4> QED  BY <2>1, <4>1 DEF SA_Inv, LevelsOK
    <3> QED  BY <2>1, <2>3, <3>1 DEF SA_Inv, LevelsOK
  <2>5. ASSUME NEW x \in SA_Control, NEW sel \in SA_LevelValue PROVE Fresh(x, sel)'
    <3>1. SA_Level(x, sel)' = SA_Level(x, sel)
      BY <2>1, LevelOf
    <3>2. Fresh(x, sel)
      BY <1>1
    <3>3. ASSUME NEW i \in DOMAIN serialQueue, serialQueue[i] = Telling(x)
          PROVE  <<x, sel>> \in toRead' \/ \E j \in DOMAIN serialQueue' : serialQueue'[j] = Telling(x)
      <4>1. CASE i = 1
        <5>1. block = Telling(x)
          BY <2>3, <3>3, <4>1
        <5>2. block.pc = "telling" /\ block.o = x
          BY <5>1, BlockKinds
        <5> QED  BY <2>1, <5>2
      <4>2. CASE i # 1
        BY <2>3, <3>3, <4>2
      <4> QED  BY <4>1, <4>2
    <3>4. toRead \subseteq toRead' /\ hostLevel' = hostLevel /\ setting' = setting
      BY <2>1
    <3> QED  BY <3>1, <3>2, <3>3, <3>4
  <2> QED  BY <1>0, <2>4, <2>5 DEF SA_Inv
<1>7. CASE SA_HostReads
  <2>1. PICK p \in toRead :
          /\ toRead' = toRead \ {p} /\ hostLevel' = [hostLevel EXCEPT ![p[1]][p[2]] = SA_Level(p[1], p[2])]
          /\ UNCHANGED <<driverVolume, queueVars>>
    BY <1>7 DEF SA_HostReads
  <2>2. p[1] \in SA_Control /\ p[2] \in SA_LevelValue /\ p = <<p[1], p[2]>>
    BY DEF SA_Inv, LevelsOK
  <2>3. \A x \in SA_Control, sel \in SA_LevelValue :
          hostLevel'[x][sel] = IF <<x, sel>> = p THEN SA_Level(x, sel) ELSE hostLevel[x][sel]
    <3>1. hostLevel' = [hostLevel EXCEPT ![p[1]] = [hostLevel[p[1]] EXCEPT ![p[2]] = SA_Level(p[1], p[2])]]
      BY <2>1
    <3>2. \A x \in SA_Control : hostLevel'[x] = IF x = p[1]
              THEN [hostLevel[p[1]] EXCEPT ![p[2]] = SA_Level(p[1], p[2])] ELSE hostLevel[x]
      BY <2>2, <3>1 DEF SA_Inv, LevelsOK
    <3>3. hostLevel[p[1]] = [sel \in SA_LevelValue |-> hostLevel[p[1]][sel]]
      BY <2>2 DEF SA_Inv, LevelsOK
    <3>4. \A sel \in SA_LevelValue : hostLevel'[p[1]][sel] = IF sel = p[2] THEN SA_Level(p[1], p[2]) ELSE hostLevel[p[1]][sel]
      BY <2>2, <3>2, <3>3
    <3> QED  BY <2>2, <3>2, <3>4
  <2>4. LevelsOK'
    <3>1. hostLevel' = [x \in SA_Control |-> [sel \in SA_LevelValue |-> hostLevel'[x][sel]]]
      BY <2>1, <2>2 DEF SA_Inv, LevelsOK
    <3> QED  BY <2>1, <3>1 DEF SA_Inv, LevelsOK, queueVars
  <2>5. ASSUME NEW x \in SA_Control, NEW sel \in SA_LevelValue PROVE Fresh(x, sel)'
    <3>1. SA_Level(x, sel)' = SA_Level(x, sel)
      BY <2>1, LevelOf
    <3>2. Fresh(x, sel)
      BY <1>1
    <3>3. setting' = setting /\ serialQueue' = serialQueue
      BY <2>1 DEF queueVars
    <3>4. CASE <<x, sel>> = p
      BY <2>3, <3>1, <3>4
    <3>5. CASE <<x, sel>> # p
      <4>1. hostLevel'[x][sel] = hostLevel[x][sel] /\ (<<x, sel>> \in toRead => <<x, sel>> \in toRead')
        BY <2>1, <2>3, <3>5
      <4> QED  BY <3>1, <3>2, <3>3, <4>1
    <3> QED  BY <3>4, <3>5
  <2> QED  BY <1>0, <2>4, <2>5 DEF SA_Inv
<1>8. CASE UNCHANGED saVars
  BY <1>2, <1>8 DEF saVars, hostVars
<1>9. CASE SA_SetIsActive
  BY <1>2, <1>9 DEF SA_SetIsActive, hostVars
<1>10. CASE SA_PerformConfigChange
  BY <1>2, <1>10 DEF SA_PerformConfigChange
<1>11. ASSUME NEW c \in SA_Thread, SA_SetScalar(c) \/ SA_SetDecibel(c) PROVE SA_Inv'
  BY <1>3, <1>11 DEF SA_SetScalar, SA_SetDecibel
<1>12. ASSUME NEW c \in SA_Thread, SA_SetRate(c) \/ SA_SetFormat(c) PROVE SA_Inv'
  BY <1>4, <1>12 DEF SA_SetRate, SA_SetFormat
<1> QED  BY <1>8, <1>9, <1>10, <1>11, <1>12, <1>5, <1>6, <1>7 DEF SA_Next

\* SimpleAudio's invariant.
LEMMA SA_Invariant == SA_Spec => []SA_Inv
<1>1. SA_Init => SA_Inv
  <2> SUFFICES ASSUME SA_Init PROVE SA_Inv
    OBVIOUS
  <2>1. hostLevel = [o \in SA_Control |-> [sel \in SA_LevelValue |-> SA_Level(o, sel)]]
    BY DEF SA_Init
  <2>2. LevelsOK
    <3>1. driverVolume = [o \in SA_Control |-> SA_Curve.min] /\ toRead = {} /\ serialQueue = <<>>
          /\ setting = [c \in SA_Thread |-> SA_Idle]
      BY DEF SA_Init
    <3>2. hostLevel = [o \in SA_Control |-> [sel \in SA_LevelValue |-> hostLevel[o][sel]]]
      BY <2>1
    <3> QED  BY <3>1, <3>2 DEF LevelsOK
  <2>3. \A o \in SA_Control, sel \in SA_LevelValue : hostLevel[o][sel] = SA_Level(o, sel)
    BY <2>1
  <2> QED  BY <2>2, <2>3 DEF SA_Inv, SA_HostUpToDate
<1> QED  BY <1>1, SA_StepInv, PTL DEF SA_Spec

\* SA_HostUpToDate: whatever order setters, the serial queue and the host's
\* readings take, a level the host has wrong is one it will yet be told to read.
THEOREM LevelsFollow == SA_Spec => []SA_HostUpToDate
<1>1. SA_Inv => SA_HostUpToDate
  BY DEF SA_Inv
<1> QED  BY SA_Invariant, <1>1, PTL
\* The curve of SimpleAudio's controls is of one range.
LEMMA SA_CurveIs ==
    /\ Continuous(mVolumeCurve) /\ Len(mVolumeCurve) = 1
    /\ GetMinimumRaw(mVolumeCurve) = SA_Curve.min /\ mVolumeCurve[1].min = SA_Curve.min
    /\ GetMaximumRaw(mVolumeCurve) = SA_Curve.max /\ mVolumeCurve[1].max = SA_Curve.max
    /\ SA_Curve.min \in Int /\ SA_Curve.max \in Int /\ SA_Curve.min < SA_Curve.max
    /\ SA_Exponent.num \in Nat \ {0}
<1>1. Len(mVolumeCurve) = 1 /\ mVolumeCurve[1] = SA_Curve
  BY DEF mVolumeCurve
<1>2. IsCurveRange(SA_Curve)
  BY LevelAssumption
<1>3. Continuous(mVolumeCurve)
  BY <1>1, <1>2 DEF Continuous, CheckForContinuity
<1>4. SA_Exponent.num \in Nat \ {0}
  BY DEF SA_Exponent, Exponent, Linear, kPow2Over1
<1>5. SA_Curve.min \in Int /\ SA_Curve.max \in Int /\ SA_Curve.min < SA_Curve.max
  BY <1>2 DEF IsCurveRange
<1> QED  BY <1>1, <1>3, <1>4, <1>5 DEF GetMinimumRaw, GetMaximumRaw

\* SA_TypeOK: whatever is set, the driver holds a step of the curve, and the
\* host is asked for one of the two rates.
THEOREM LevelsTyped == SA_Spec => []SA_TypeOK
<1> DEFINE Raws == SA_Curve.min .. SA_Curve.max
<1>1. SA_Init => SA_TypeOK
  <2> SUFFICES ASSUME SA_Init PROVE SA_TypeOK
    OBVIOUS
  <2>1. SA_Curve.min \in Raws
    BY SA_CurveIs
  <2>2. driverVolume \in [SA_Control -> Raws]
    <3> HIDE DEF Raws
    <3> QED  BY <2>1 DEF SA_Init
  <2>3. Len(serialQueue) <= MaxQueued
    BY LevelAssumption DEF SA_Init
  <2> QED  BY <2>2, <2>3 DEF SA_Init, SA_TypeOK
<1>2. SA_TypeOK /\ SA_Inv /\ [SA_Next]_saVars => SA_TypeOK'
  <2> SUFFICES ASSUME SA_TypeOK, LevelsOK, [SA_Next]_saVars PROVE SA_TypeOK'
    BY DEF SA_Inv
  <2>1. ASSUME NEW c \in SA_Thread, NEW o \in SA_Control, NEW raw \in Raws, SA_SetVolume(c, o, raw)
        PROVE  SA_TypeOK'
    <3>1. driverVolume' \in [SA_Control -> Raws]
      <4> HIDE DEF Raws
      <4> QED  BY <2>1 DEF SA_SetVolume, SA_TypeOK, Raws
    <3> QED  BY <2>1, <3>1 DEF SA_SetVolume, SA_TypeOK, hostVars
  <2>2. ASSUME NEW c \in SA_Thread, SA_SetScalar(c) PROVE SA_TypeOK'
    <3>1. PICK o \in SA_Control, scalar \in SA_Scalars :
              SA_SetVolume(c, o, ConvertScalarToRaw(mVolumeCurve, SA_Exponent, scalar))
      BY <2>2 DEF SA_SetScalar
    <3>2. scalar.p \in Int /\ scalar.q \in Nat \ {0}
      BY LevelAssumption
    <3>3. ConvertScalarToRaw(mVolumeCurve, SA_Exponent, scalar) \in Raws
      BY <3>2, SA_CurveIs, ScalarWithin
    <3> QED  BY <2>1, <3>1, <3>3
  <2>3. ASSUME NEW c \in SA_Thread, SA_SetDecibel(c) PROVE SA_TypeOK'
    <3>1. PICK o \in SA_Control, dB \in SA_Decibels : SA_SetVolume(c, o, ConvertDBToRaw(mVolumeCurve, dB))
      BY <2>3 DEF SA_SetDecibel
    <3>2. dB \in Int
      BY LevelAssumption
    <3>3. ConvertDBToRaw(mVolumeCurve, dB) \in Raws
      BY <3>2, SA_CurveIs, DBWithin
    <3> QED  BY <2>1, <3>1, <3>3
  <2>4. ASSUME NEW c \in SA_Thread, SA_SetRate(c) \/ SA_SetFormat(c) PROVE SA_TypeOK'
    <3>1. PICK rate \in {44100, 48000} : SA_AskRate(c, rate)
      BY <2>4 DEF SA_SetRate, SA_SetFormat
    <3> QED  BY <3>1 DEF SA_AskRate, SA_TypeOK, hostVars
  <2>5. ASSUME NEW c \in SA_Thread, SA_Dispatch(c) PROVE SA_TypeOK'
    <3>1. serialQueue \in Seq(Block) /\ setting[c] \in Block
      BY <2>5 DEF SA_Dispatch, LevelsOK
    <3>2. Len(serialQueue') = Len(serialQueue) + 1 /\ Len(serialQueue) \in Nat
      BY <2>5, <3>1 DEF SA_Dispatch
    <3>3. Len(serialQueue') <= MaxQueued
      BY <2>5, <3>2, LevelAssumption DEF SA_Dispatch
    <3> QED  BY <2>5, <3>3 DEF SA_Dispatch, SA_TypeOK, hostVars
  <2>6. CASE SA_RunBlock
    <3> DEFINE block == Head(serialQueue)
    <3>1. serialQueue \in Seq(Block) /\ serialQueue # <<>>
      BY <2>6 DEF SA_RunBlock, LevelsOK
    <3>2. block \in Block /\ Len(Tail(serialQueue)) = Len(serialQueue) - 1 /\ Len(serialQueue) \in Nat
      BY <3>1
    <3>3. Len(serialQueue') <= MaxQueued
      BY <2>6, <3>2, LevelAssumption DEF SA_RunBlock, SA_TypeOK
    <3>4. \A b \in Block : b.pc = "telling" => b.o \in SA_Control
      BY BlockKinds
    <3>5. \A b \in Block : b.pc # "telling" => b.rate \in {44100, 48000}
      <4>1. \A b \in [pc : {"asking"}, rate : {44100, 48000}] : b.rate \in {44100, 48000}
        OBVIOUS
      <4>2. \A b \in Block : b.pc # "telling" => b \in [pc : {"asking"}, rate : {44100, 48000}]
        BY BlockKinds DEF Block
      <4> QED  BY <4>1, <4>2
    <3>6. toRead' \subseteq SA_Control \X SA_LevelValue
      BY <2>6, <3>2, <3>4 DEF SA_RunBlock, SA_TypeOK
    <3>7. rateRequests' \subseteq {44100, 48000}
      <4>0. rateRequests \subseteq {44100, 48000}
        BY DEF SA_TypeOK
      <4>1. CASE block.pc = "telling"
        <5>1. rateRequests' = rateRequests
          BY <2>6, <4>1 DEF SA_RunBlock
        <5> QED  BY <4>0, <5>1
      <4>2. CASE block.pc # "telling"
        <5>1. rateRequests' = rateRequests \cup {block.rate}
          BY <2>6, <4>2 DEF SA_RunBlock
        <5>2. block.rate \in {44100, 48000}
          BY <3>2, <3>5, <4>2
        <5>3. ASSUME NEW x \in rateRequests' PROVE x \in {44100, 48000}
          <6>1. x \in rateRequests \/ x = block.rate
            BY <5>1
          <6>2. CASE x \in rateRequests
            BY <4>0, <6>2
          <6>3. CASE x = block.rate
            BY <5>2, <6>3
          <6> QED  BY <6>1, <6>2, <6>3
        <5> QED  BY <5>3
      <4> QED  BY <4>1, <4>2
    <3> QED  BY <2>6, <3>3, <3>6, <3>7 DEF SA_RunBlock, SA_TypeOK
  <2>7. CASE SA_SetIsActive
    BY <2>7 DEF SA_SetIsActive, SA_TypeOK, queueVars, hostVars
  <2>8. CASE SA_HostReads
    BY <2>8 DEF SA_HostReads, SA_TypeOK, queueVars
  <2>9. CASE SA_PerformConfigChange
    BY <2>9 DEF SA_PerformConfigChange, SA_TypeOK, queueVars
  <2>10. CASE UNCHANGED saVars
    BY <2>10 DEF saVars, SA_TypeOK, queueVars, hostVars
  <2> QED  BY <2>2, <2>3, <2>4, <2>5, <2>6, <2>7, <2>8, <2>9, <2>10 DEF SA_Next
<1> QED  BY <1>1, <1>2, SA_Invariant, PTL DEF SA_Spec

\* What a control answers, set again, changes nothing.
LevelsReadBack ==
    \A o \in SA_Control :
        /\ ConvertScalarToRaw(mVolumeCurve, SA_Exponent, SA_Level(o, "ScalarValue")) = driverVolume[o]
        /\ ConvertDBToRaw(mVolumeCurve, SA_Level(o, "DecibelValue")) = driverVolume[o]

\* The scalar and the decibels that SimpleAudio's GetPropertyData answers are
\* those its SetPropertyData takes for the volume the driver has.
THEOREM LevelsSetBack == SA_Spec => []LevelsReadBack
<1>1. SA_TypeOK => LevelsReadBack
  <2> SUFFICES ASSUME SA_TypeOK, NEW o \in SA_Control
               PROVE  /\ ConvertScalarToRaw(mVolumeCurve, SA_Exponent, SA_Level(o, "ScalarValue")) = driverVolume[o]
                      /\ ConvertDBToRaw(mVolumeCurve, SA_Level(o, "DecibelValue")) = driverVolume[o]
    BY DEF LevelsReadBack
  <2>1. driverVolume[o] \in SA_Curve.min .. SA_Curve.max
    BY DEF SA_TypeOK
  <2>2. ASSUME NEW sel \in SA_LevelValue
        PROVE  SA_Level(o, sel) = SA_GetControlPropertyData(o, [sel |-> sel, scope |-> "Global"], Word, SA_State).value
    BY LevelIs
  <2>3. SA_State.curve = mVolumeCurve /\ SA_State.exponent = SA_Exponent /\ SA_State.raw = driverVolume
    BY DEF SA_State
  <2>4. /\ \A v : Fixed(Word, Word, v).value = v
        /\ "ScalarValue" \in SA_LevelValue /\ "DecibelValue" \in SA_LevelValue
    BY DEF Fixed, Success, Word, SA_LevelValue
  <2>5. SA_Level(o, "ScalarValue") = ConvertRawToScalar(mVolumeCurve, SA_Exponent, driverVolume[o])
    <3> DEFINE a == [sel |-> "ScalarValue", scope |-> "Global"]
    <3>1. SA_GetControlPropertyData(o, a, Word, SA_State)
             = Fixed(Word, Word, ConvertRawToScalar(SA_State.curve, SA_State.exponent, SA_State.raw[o]))
      BY DEF SA_GetControlPropertyData, SA_BaseWord
    <3> QED  BY <2>2, <2>3, <2>4, <3>1
  <2>6. SA_Level(o, "DecibelValue") = ConvertRawToDB(mVolumeCurve, driverVolume[o])
    <3> DEFINE a == [sel |-> "DecibelValue", scope |-> "Global"]
    <3>1. SA_GetControlPropertyData(o, a, Word, SA_State)
             = Fixed(Word, Word, ConvertRawToDB(SA_State.curve, SA_State.raw[o]))
      BY DEF SA_GetControlPropertyData, SA_BaseWord
    <3> QED  BY <2>2, <2>3, <2>4, <3>1
  <2> QED  BY <2>1, <2>5, <2>6, SA_CurveIs, ScalarInverts, DBInverts
<1> QED  BY <1>1, LevelsTyped, PTL
-----------------------------------------------------------------------------
(* The two plug-ins beside each other.                                     *)

\* PropertyTablesAgree: in both plug-ins, and whatever has changed.
THEOREM BothTablesAgree == PropertiesSpec => PropertyTablesAgree
BY TablesAlwaysAgree, SA_TablesAlwaysAgree, PTL DEF PropertiesSpec, PropertyTablesAgree

\* HostsUpToDate: the devices, the stored acquisition and the levels at once.
THEOREM HostsFollow == PropertiesSpec => []HostsUpToDate
BY HostFollows, StorageFollows, LevelsFollow, PTL DEF PropertiesSpec, HostsUpToDate

\* ChangesAnnounced: by the box and by the controls.
THEOREM EveryChangeAnnounced == PropertiesSpec => ChangesAnnounced
BY BoxAnnounces, ControlsAnnounce, PTL DEF PropertiesSpec, ChangesAnnounced
=============================================================================

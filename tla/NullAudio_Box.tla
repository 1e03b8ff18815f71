--------------------------- MODULE NullAudio_Box ---------------------------
(***************************************************************************)
(* NullAudio's box as the threads of the audio server use it: it can be    *)
(* acquired, released and named, its device comes and goes with it, and    *)
(* the acquisition outlives a restart of the server in the host's storage. *)
(* Properties are read in the two calls of the protocol.                   *)
(*                                                                         *)
(* All state is said to be guarded by gPlugIn_StateMutex.  A call that     *)
(* takes it, works and leaves is one step; a call that can be seen halfway *)
(* (the plug-in's lists read gBox_Acquired twice without the mutex, a new  *)
(* acquisition is written to storage after it is visible, notifications    *)
(* are sent after the mutex is left) is several.                           *)
(***************************************************************************)
EXTENDS NullAudio_Objects

CONSTANTS
    NullThread,     \* the threads of the server that call the plug-in
    Asked,          \* the properties they ask for: pairs <<object, address>>
    BoxNames,       \* the names they give the box
    NullBox,        \* the default name, "Null Box"
    NullName,       \* the name of a box that was given the name NULL
    Nobody,
    MaxPending      \* bound: notifications that wait on the global queue

\* The server asks objects the plug-in has published, in one of the three scopes.
ASSUME AskedAssumption == \A p \in Asked : p[1] \in ObjectID /\ p[2].scope \in Scope
ASSUME ThreadAssumption == Nobody \notin NullThread /\ MaxPending \in Nat

VARIABLES
    gBox_Acquired,
    gBox_Name,
    gMutex,         \* gPlugIn_StateMutex: Nobody, its holder, or "left" for good
    boxCall,       \* what each thread is doing
    boxPending,    \* device list notifications on the global queue
    storage,        \* what the host has stored under "box acquired": {} or {value}
    hostDevices     \* the list of devices the host last read

boxVars == <<gBox_Acquired, gBox_Name, gMutex, boxCall, boxPending, storage, hostDevices>>

BoxIdle == [pc |-> "idle"]
BoxAt(c, pc) == boxCall[c].pc = pc
BoxState == [acquired |-> gBox_Acquired, name |-> gBox_Name, value |-> InitialValue]
Addr(sel) == [sel |-> sel, scope |-> "Global"]
PlugInDevices == <<kObjectID_PlugIn, Addr("DeviceList")>>

\* The qualifier a caller that follows the header passes.
Qualifier(a) ==
    CASE a.sel \in {"TranslateUIDToBox", "TranslateUIDToDevice"} -> Ref
      [] a.sel = "ItemName" -> Word
      [] OTHER -> 0

\* The two lists the plug-in object reads without the mutex.
Unlocked(o, a) == o = kObjectID_PlugIn /\ a.sel \in {"OwnedObjects", "DeviceList"}
SizeTakesMutex(o, a) == o = kObjectID_Box /\ a.sel = "DeviceList"
DataTakesMutex(o, a) ==
    \/ o = kObjectID_Box /\ a.sel \in {"Name", "Acquired", "DeviceList"}
    \/ o = kObjectID_Device /\ a.sel \in {"DeviceIsRunning", "NominalSampleRate"}
    \/ o \in Stream /\ a.sel \in {"IsActive"} \cup StreamFormat
    \/ o \in Control /\ a.sel \in {"ScalarValue", "DecibelValue", "BooleanValue", "CurrentItem"}

\* NullAudio_Initialize: the acquisition comes from storage; so would the name,
\* but for its being looked up under the key of the acquisition.  The host then
\* scans the lists of objects.
Loaded(stored) == stored = {} \/ TRUE \in stored
Scanned(stored) == IF Loaded(stored) THEN <<kObjectID_Device>> ELSE <<>>

BoxInit ==
    /\ storage \in {{}, {TRUE}, {FALSE}}
    /\ gBox_Acquired = Loaded(storage)
    /\ hostDevices = Scanned(storage)
    /\ gBox_Name = NullBox
    /\ gMutex = Nobody
    /\ boxCall = [c \in NullThread |-> BoxIdle]
    /\ boxPending = 0
-----------------------------------------------------------------------------
SizeNow(o, a) == GetPropertyDataSize(o, a, BoxState)

GetSize(c) ==
    \E p \in Asked :
        /\ BoxAt(c, "idle")
        /\ SizeTakesMutex(p[1], p[2]) => gMutex = Nobody
        /\ boxCall' = [boxCall EXCEPT ![c] =
              [pc |-> "sized", o |-> p[1], a |-> p[2], size |-> SizeNow(p[1], p[2]).size,
               refresh |-> FALSE]]
        /\ UNCHANGED <<gBox_Acquired, gBox_Name, gMutex, boxPending, storage, hostDevices>>

\* The host handles a notification: it reads the device list again, one
\* refresh at a time.
Refreshing == \E c \in NullThread : boxCall[c].pc \in {"sized", "fetching"} /\ boxCall[c].refresh
HandleNotification(c) ==
    /\ BoxAt(c, "idle")
    /\ boxPending > 0
    /\ ~Refreshing
    /\ boxPending' = boxPending - 1
    /\ boxCall' = [boxCall EXCEPT ![c] =
          [pc |-> "sized", o |-> PlugInDevices[1], a |-> PlugInDevices[2],
           size |-> SizeNow(PlugInDevices[1], PlugInDevices[2]).size, refresh |-> TRUE]]
    /\ UNCHANGED <<gBox_Acquired, gBox_Name, gMutex, storage, hostDevices>>

Replied(c, reply) == [pc |-> "replied", asked |-> boxCall[c].size, reply |-> reply]

\* The data of a property, asked for with the size announced before.
GetData(c) ==
    /\ BoxAt(c, "sized")
    /\ LET o == boxCall[c].o  a == boxCall[c].a  room == boxCall[c].size IN
        /\ ~Unlocked(o, a)
        /\ DataTakesMutex(o, a) => gMutex = Nobody
        /\ boxCall' = [boxCall EXCEPT ![c] =
              Replied(c, GetPropertyData(o, a, room, Qualifier(a), BoxState))]
        /\ gMutex' = IF LeavesMutexHeld(o, a, room, BoxState) THEN "left" ELSE gMutex
        /\ UNCHANGED <<gBox_Acquired, gBox_Name, boxPending, storage, hostDevices>>

\* The plug-in's lists: gBox_Acquired is read, and read again.
BeginList(c) ==
    /\ BoxAt(c, "sized")
    /\ Unlocked(boxCall[c].o, boxCall[c].a)
    /\ boxCall' = [boxCall EXCEPT ![c] =
          [pc |-> "fetching", o |-> boxCall[c].o, a |-> boxCall[c].a, size |-> boxCall[c].size,
           refresh |-> boxCall[c].refresh, first |-> gBox_Acquired]]
    /\ UNCHANGED <<gBox_Acquired, gBox_Name, gMutex, boxPending, storage, hostDevices>>
EndList(c) ==
    /\ BoxAt(c, "fetching")
    /\ LET reply == GetPlugInPropertyData(boxCall[c].a, boxCall[c].size, 0,
                                          boxCall[c].first, gBox_Acquired) IN
        /\ boxCall' = [boxCall EXCEPT ![c] = Replied(c, reply)]
        /\ hostDevices' = IF boxCall[c].refresh THEN reply.value ELSE hostDevices
    /\ UNCHANGED <<gBox_Acquired, gBox_Name, gMutex, boxPending, storage>>

EndCall(c) ==
    /\ BoxAt(c, "replied")
    /\ boxCall' = [boxCall EXCEPT ![c] = BoxIdle]
    /\ UNCHANGED <<gBox_Acquired, gBox_Name, gMutex, boxPending, storage, hostDevices>>
-----------------------------------------------------------------------------
Announcing(told) == [pc |-> "announcing", told |-> told]
Told(o, sels) == {<<o, sel>> : sel \in sels}

\* NullAudio_SetBoxPropertyData: the new acquisition, the write to storage
\* and the asynchronous notification are under the mutex.
SetAcquired(c) ==
    \E acquired \in BOOLEAN :
        /\ BoxAt(c, "idle")
        /\ gMutex = Nobody
        /\ acquired # gBox_Acquired
        /\ boxPending < MaxPending
        /\ gBox_Acquired' = acquired
        /\ gMutex' = c
        /\ boxCall' = [boxCall EXCEPT ![c] = [pc |-> "storing"]]
        /\ UNCHANGED <<gBox_Name, boxPending, storage, hostDevices>>
\* Faulty variant: leaves the notification out.
StoreAcquiredQuietly(c) ==
    /\ BoxAt(c, "storing")
    /\ storage' = {gBox_Acquired}
    /\ gMutex' = Nobody
    /\ boxCall' = [boxCall EXCEPT ![c] =
          Announcing(Told(kObjectID_Box, {"Acquired", "DeviceList"}))]
    /\ UNCHANGED <<gBox_Acquired, gBox_Name, boxPending, hostDevices>>
StoreAcquired(c) ==
    /\ BoxAt(c, "storing")
    /\ storage' = {gBox_Acquired}
    /\ boxPending' = boxPending + 1
    /\ gMutex' = Nobody
    /\ boxCall' = [boxCall EXCEPT ![c] =
          Announcing(Told(kObjectID_Box, {"Acquired", "DeviceList"}))]
    /\ UNCHANGED <<gBox_Acquired, gBox_Name, hostDevices>>

\* The old name is released and the new one retained; NULL is taken as well.
SetName(c) ==
    \E name \in BoxNames \cup {NullName} :
        /\ BoxAt(c, "idle")
        /\ gMutex = Nobody
        /\ gBox_Name' = name
        /\ boxCall' = [boxCall EXCEPT ![c] = Announcing(Told(kObjectID_Box, {"Name"}))]
        /\ UNCHANGED <<gBox_Acquired, gMutex, boxPending, storage, hostDevices>>

\* NullAudio_SetPropertyData: the host is told what the call has changed.
Announce(c) ==
    /\ BoxAt(c, "announcing")
    /\ boxCall' = [boxCall EXCEPT ![c] = BoxIdle]
    /\ UNCHANGED <<gBox_Acquired, gBox_Name, gMutex, boxPending, storage, hostDevices>>

\* The server dies and loads the plug-in again.
RestartServer ==
    /\ gBox_Acquired' = Loaded(storage)
    /\ hostDevices' = Scanned(storage)
    /\ gBox_Name' = NullBox
    /\ gMutex' = Nobody
    /\ boxCall' = [c \in NullThread |-> BoxIdle]
    /\ boxPending' = 0
    /\ UNCHANGED storage

BoxNext ==
    \/ \E c \in NullThread :
        \/ GetSize(c)
        \/ HandleNotification(c)
        \/ GetData(c)
        \/ BeginList(c)
        \/ EndList(c)
        \/ EndCall(c)
        \/ SetAcquired(c)
        \/ StoreAcquired(c)
        \/ SetName(c)
        \/ Announce(c)
    \/ RestartServer
BoxSpec == BoxInit /\ [][BoxNext]_boxVars
-----------------------------------------------------------------------------
BoxTypeOK ==
    /\ gBox_Acquired \in BOOLEAN
    /\ gBox_Name \in BoxNames \cup {NullBox, NullName}
    /\ gMutex \in NullThread \cup {Nobody, "left"}
    /\ \A c \in NullThread : boxCall[c].pc \in {"idle", "sized", "fetching", "replied",
                                                 "storing", "announcing"}
    /\ boxPending \in 0 .. MaxPending
    /\ hostDevices \in {<<>>, <<kObjectID_Device>>}

\* A reply fits in the room that was announced, although the box may have been
\* acquired or released since, and between the two unlocked readings.
ReplyFits ==
    \A c \in NullThread : BoxAt(c, "replied") => boxCall[c].reply.size <= boxCall[c].asked

\* The four tables agree, in every state: a property an object has is known to
\* the other three, can be set exactly if the setter takes it, and answers its
\* announced size with that much data.  BoxUID (no size) and the two
\* translations (the right qualifier is refused) do not, and are left out.
Setter(o) ==
    CASE o = kObjectID_Box -> {"Name", "Identify", "Acquired"}
      [] o = kObjectID_Device -> {"NominalSampleRate"}
      [] o \in Stream -> {"IsActive"} \cup StreamFormat
      [] o \in Volume -> {"ScalarValue", "DecibelValue"}
      [] o \in Mute -> {"BooleanValue"}
      [] o \in DataSource -> {"CurrentItem"}
      [] OTHER -> {}
NullSelector == PlugInSelector \cup BoxWord \cup ScopedSelector \cup DeviceWord \cup DeviceRef
    \cup StreamWord \cup StreamFormat \cup StreamFormats \cup ControlCommon \cup LevelSelector
    \cup {"ModelName", "SerialNumber", "FirmwareVersion", "BoxUID", "RelatedDevices",
          "ControlList", "AvailableNominalSampleRates", "Streams", "BooleanValue",
          "CurrentItem", "AvailableItems", "ItemName"}
NullProperty == {p \in ObjectID \X [sel : NullSelector, scope : Scope] : HasProperty(p[1], p[2])}
Misanswered == {"BoxUID", "TranslateUIDToBox", "TranslateUIDToDevice"}
TablesAgree ==
    LET s == BoxState IN
    \A p \in NullProperty :
        LET o == p[1]  a == p[2]
            announced == GetPropertyDataSize(o, a, s)
            reply == GetPropertyData(o, a, announced.size, Qualifier(a), s)
        IN  /\ IsPropertySettable(o, a) = IF a.sel \in Setter(o) THEN "yes" ELSE "no"
            /\ announced.status = "ok"
            /\ a.sel \notin Misanswered => reply.status = "ok" /\ reply.size = announced.size

\* A change of a property reaches the host: the step that changes it has it
\* announced by its caller, or leaves a notification on the queue or the thread
\* that will put one there.  The plug-in's owned objects, which change with the
\* device list, are announced by nobody and left out.
BoxReads(o, a) == GetPropertyData(o, a, 1000, Qualifier(a), BoxState).value
ToBeTold ==
    UNION {CASE BoxAt(c, "announcing") -> boxCall[c].told
             [] BoxAt(c, "storing") -> {<<kObjectID_PlugIn, "DeviceList">>} \cup
                                    Told(kObjectID_Box, {"Acquired", "DeviceList"})
             [] OTHER -> {} : c \in NullThread}
Announceable == {p \in NullProperty : p[2].scope = "Global" /\ p # <<kObjectID_PlugIn, Addr("OwnedObjects")>>}
BoxChangesAnnounced ==
    [][\/ BoxState' = BoxState
       \/ RestartServer
       \/ \A p \in Announceable :
             BoxReads(p[1], p[2])' # BoxReads(p[1], p[2]) => <<p[1], p[2].sel>> \in ToBeTold']_boxVars

\* When no notification is on its way the host has the right list of devices.
HostUpToDate ==
    (boxPending = 0 /\ ~Refreshing /\ \A c \in NullThread : ~BoxAt(c, "storing"))
    => (Len(hostDevices) = 1) = gBox_Acquired

\* What the host has stored for the next start is what the box is, whenever no
\* thread is between the two.
StoredIsCurrent ==
    (\A c \in NullThread : ~BoxAt(c, "storing")) => storage \subseteq {gBox_Acquired}

\* The mutex is free when no thread is inside a call.  It is not: the box's
\* device list, asked for with no room, leaves with the mutex held.
MutexReturned == gMutex # "left"
=============================================================================

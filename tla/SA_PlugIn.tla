----------------------------- MODULE SA_PlugIn -----------------------------
(***************************************************************************)
(* The life of the devices of the SimpleAudio plug-in.  An Object is both  *)
(* an IOKit service and the SA_Device the plug-in makes for it.  Three     *)
(* kinds of threads work on devices:                                       *)
(*   - Startup, the thread in StaticInitializer, scans the services that   *)
(*     are already there;                                                  *)
(*   - Queue, the plug-in's serial dispatch queue, runs the matching       *)
(*     handler for services that arrive and the interest handler for       *)
(*     services that terminate;                                            *)
(*   - the clients, threads of the host, look an object up by ID, use it   *)
(*     and release it.                                                     *)
(* A step is what a thread does under one mutex (the map's, the plug-in's, *)
(* or the device's two).                                                   *)
(***************************************************************************)
EXTENDS SA_ObjectMap, FiniteSets

CONSTANTS
    Client,
    Part,          \* a device's streams and controls
    Device,        \* names the device itself among its IDs
    Startup, Queue,
    EarlyUnplug    \* a service may terminate while Startup still scans

Worker == {Startup, Queue}
Nobody == "nobody"

ASSUME IDShape == ID = Object \X (Part \cup {Device}) /\ Device \notin Part
ASSUME ClientsFinite == IsFiniteSet(Client)
ASSUME ThreadsDiffer ==
    Startup # Queue /\ Worker \cap Client = {} /\ Device \notin Worker \cup Client
ASSUME NobodyDiffers == Nobody \notin Object
ASSUME EarlyUnplugType == EarlyUnplug \in BOOLEAN

VARIABLES
    service,           \* what IOKit knows of each service
    scanning,          \* Startup has not finished its scan
    taken,             \* the services the iterator has returned
    notified,          \* termination messages not yet handled
    object,            \* each SA_Device: built, active (mIsActive) or dead
    connected,         \* the devices with an open connection to their driver
    mDeviceInfoList,   \* the devices in the list, each with its interest notification
    listed,            \* history: devices that were ever in the list
    at, dev, left,     \* each worker: where, on which device, which parts are to do
    using,             \* the object a client holds, or Nobody
    owned              \* history: devices whose creation reference is not released
vars == <<mapVars, service, scanning, taken, notified, object, connected,
          mDeviceInfoList, listed, at, dev, left, using, owned>>

Scanner == {"add", "open", "map", "undo", "undoRelease"}
Remover == {"remove", "deactivate", "unmap", "drop", "dropRef"}

\* Every variable has its type; an object in the map has an ID and a reference.
TypeOK ==
    /\ MapTypeOK
    /\ service \in [Object -> {"absent", "present", "terminated"}]
    /\ scanning \in BOOLEAN
    /\ taken \subseteq Object
    /\ notified \subseteq Object
    /\ object \in [Object -> {"none", "built", "active", "dead"}]
    /\ connected \subseteq Object
    /\ mDeviceInfoList \subseteq Object
    /\ listed \subseteq Object
    /\ at \in [Worker -> {"idle"} \cup Scanner \cup Remover]
    /\ dev \in [Worker -> Object \cup {Nobody}]
    /\ left \in [Worker -> SUBSET (Part \cup {Device})]
    /\ using \in [Client -> Object \cup {Nobody}]
    /\ owned \subseteq Object
    /\ \A w \in Worker : at[w] = "idle" <=> dev[w] = Nobody

Init ==
    /\ MapInit
    /\ service = [s \in Object |-> "absent"]
    /\ scanning = TRUE
    /\ taken = {}
    /\ notified = {}
    /\ object = [s \in Object |-> "none"]
    /\ connected = {}
    /\ mDeviceInfoList = {}
    /\ listed = {}
    /\ at = [w \in Worker |-> "idle"]
    /\ dev = [w \in Worker |-> Nobody]
    /\ left = [w \in Worker |-> {}]
    /\ using = [c \in Client |-> Nobody]
    /\ owned = {}

Goto(w, loc) == at' = [at EXCEPT ![w] = loc] /\ UNCHANGED dev
GotoOn(w, loc, s) == at' = [at EXCEPT ![w] = loc] /\ dev' = [dev EXCEPT ![w] = s]
MapName(name, s) == MapObject(<<s, name>>, s)
UnmapName(name, s) == UnmapObject(<<s, name>>, s)

----------------------------------------------------------------------------
(* IOKit.                                                                  *)

Arrive(s) ==
    /\ service[s] = "absent"
    /\ service' = [service EXCEPT ![s] = "present"]
    /\ UNCHANGED <<mapVars, scanning, taken, notified, object, connected,
                   mDeviceInfoList, listed, at, dev, left, using, owned>>

\* A terminating service sends its message where an interest notification is installed.
Terminate(s) ==
    /\ service[s] = "present"
    /\ EarlyUnplug \/ ~scanning
    /\ service' = [service EXCEPT ![s] = "terminated"]
    /\ notified' = IF s \in mDeviceInfoList THEN notified \cup {s} ELSE notified
    /\ UNCHANGED <<mapVars, scanning, taken, object, connected,
                   mDeviceInfoList, listed, at, dev, left, using, owned>>

----------------------------------------------------------------------------
(* IOServiceMatchingHandler, on Startup for the first scan and then on     *)
(* Queue.  It keeps no reference of its own: it relies on the creation one. *)

TakeService(w, s) ==
    /\ w = IF scanning THEN Startup ELSE Queue
    /\ at[w] = "idle"
    /\ service[s] # "absent"
    /\ s \notin taken
    /\ taken' = taken \cup {s}
    /\ object' = [object EXCEPT ![s] = "built"]
    /\ MapName(Device, s)
    /\ owned' = owned \cup {s}
    /\ GotoOn(w, "add", s)
    /\ UNCHANGED <<service, scanning, notified, connected, mDeviceInfoList, listed,
                   left, using>>

\* AddDevice fails when the interest notification cannot be installed, as it cannot
\* on a service that is terminated.
AddDevice(w) ==
    /\ at[w] = "add"
    /\ \/ /\ service[dev[w]] = "present"
          /\ mDeviceInfoList' = mDeviceInfoList \cup {dev[w]}
          /\ listed' = listed \cup {dev[w]}
          /\ Goto(w, "open")
       \/ /\ Goto(w, "undo")
          /\ UNCHANGED <<mDeviceInfoList, listed>>
    /\ UNCHANGED <<mapVars, service, scanning, taken, notified, object, connected,
                   left, using, owned>>

\* Activate: _HW_Open opens the connection and maps the driver's memory, or throws,
\* before or after the connection is open.
OpenDevice(w) ==
    /\ at[w] = "open"
    /\ \/ /\ service[dev[w]] = "present"
          /\ Goto(w, "map")
          /\ left' = [left EXCEPT ![w] = Part]
          /\ connected' = connected \cup {dev[w]}
       \/ /\ Goto(w, "undo")
          /\ connected' \in {connected, connected \cup {dev[w]}}
          /\ UNCHANGED left
    /\ UNCHANGED <<mapVars, service, scanning, taken, notified, object,
                   mDeviceInfoList, listed, using, owned>>

\* Activate: maps the IDs of the parts to the device, then marks it active.
MapParts(w) ==
    /\ at[w] = "map"
    /\ \/ /\ \E part \in left[w] :
                /\ left' = [left EXCEPT ![w] = @ \ {part}]
                /\ MapName(part, dev[w])
          /\ UNCHANGED <<object, at, dev>>
       \/ /\ left[w] = {}
          /\ object' = [object EXCEPT ![dev[w]] = "active"]
          /\ GotoOn(w, "idle", Nobody)
          /\ UNCHANGED <<mapVars, left>>
    /\ UNCHANGED <<service, scanning, taken, notified, connected, mDeviceInfoList,
                   listed, using, owned>>

\* Faulty variant: leaves the device in the list.
UndoKeepListed(w) ==
    /\ at[w] = "undo"
    /\ Goto(w, "undoRelease")
    /\ UNCHANGED <<mDeviceInfoList, mapVars, service, scanning, taken, notified, object,
                   connected, listed, left, using, owned>>
\* The catch clause: RemoveDevice, then ReleaseObject.
Undo(w) ==
    /\ at[w] = "undo"
    /\ mDeviceInfoList' = mDeviceInfoList \ {dev[w]}
    /\ Goto(w, "undoRelease")
    /\ UNCHANGED <<mapVars, service, scanning, taken, notified, object, connected,
                   listed, left, using, owned>>
UndoRelease(w) ==
    /\ at[w] = "undoRelease"
    /\ ReleaseObject(dev[w])
    /\ owned' = owned \ {dev[w]}
    /\ GotoOn(w, "idle", Nobody)
    /\ UNCHANGED <<service, scanning, taken, notified, object, connected,
                   mDeviceInfoList, listed, left, using>>

\* The iterator is empty: StaticInitializer returns.
EndScan ==
    /\ scanning
    /\ at[Startup] = "idle"
    /\ \A s \in Object : service[s] # "absent" => s \in taken
    /\ scanning' = FALSE
    /\ UNCHANGED <<mapVars, service, taken, notified, object, connected,
                   mDeviceInfoList, listed, at, dev, left, using, owned>>

----------------------------------------------------------------------------
(* IOServiceInterestHandler, on Queue.                                     *)

\* CopyDeviceByIOObject: looks the device up in the list and takes a reference.
InterestMessage(s) ==
    /\ at[Queue] = "idle"
    /\ s \in notified
    /\ notified' = notified \ {s}
    /\ IF s \in mDeviceInfoList /\ <<s, Device>> \in mObjectIDList[s]
       THEN /\ CopyObjectByObjectID(<<s, Device>>, s)
            /\ GotoOn(Queue, "remove", s)
       ELSE UNCHANGED <<mapVars, at, dev>>
    /\ UNCHANGED <<service, scanning, taken, object, connected, mDeviceInfoList,
                   listed, left, using, owned>>

RemoveDevice ==
    /\ at[Queue] = "remove"
    /\ mDeviceInfoList' = mDeviceInfoList \ {dev[Queue]}
    /\ Goto(Queue, "deactivate")
    /\ UNCHANGED <<mapVars, service, scanning, taken, notified, object, connected,
                   listed, left, using, owned>>

\* Faulty variant: unmaps the device's own ID as well.
AllNames == Part \cup {Device}
\* The IDs Deactivate unmaps: not the device's own.
UnmappedNames == Part

Deactivate ==
    /\ at[Queue] = "deactivate"
    /\ object' = [object EXCEPT ![dev[Queue]] = "dead"]
    /\ left' = [left EXCEPT ![Queue] = UnmappedNames]
    /\ Goto(Queue, "unmap")
    /\ UNCHANGED <<mapVars, service, scanning, taken, notified, connected,
                   mDeviceInfoList, listed, using, owned>>

\* Deactivate: unmaps the parts, then closes the connection.
UnmapParts ==
    /\ at[Queue] = "unmap"
    /\ \/ /\ \E part \in left[Queue] :
                /\ left' = [left EXCEPT ![Queue] = @ \ {part}]
                /\ UnmapName(part, dev[Queue])
          /\ UNCHANGED <<connected, at, dev>>
       \/ /\ left[Queue] = {}
          /\ connected' = connected \ {dev[Queue]}
          /\ Goto(Queue, "drop")
          /\ UNCHANGED <<mapVars, left>>
    /\ UNCHANGED <<service, scanning, taken, notified, object, mDeviceInfoList,
                   listed, using, owned>>

\* Faulty variant: the creation reference is kept.
DropNothing ==
    /\ at[Queue] = "drop"
    /\ Goto(Queue, "dropRef")
    /\ UNCHANGED <<mapVars, service, scanning, taken, notified, object, connected,
                   mDeviceInfoList, listed, left, using, owned>>
\* ReleaseObject of the creation reference, then of the handler's own.
DropCreation ==
    /\ at[Queue] = "drop"
    /\ ReleaseObject(dev[Queue])
    /\ owned' = owned \ {dev[Queue]}
    /\ Goto(Queue, "dropRef")
    /\ UNCHANGED <<service, scanning, taken, notified, object, connected,
                   mDeviceInfoList, listed, left, using>>
DropReference ==
    /\ at[Queue] = "dropRef"
    /\ ReleaseObject(dev[Queue])
    /\ GotoOn(Queue, "idle", Nobody)
    /\ UNCHANGED <<service, scanning, taken, notified, object, connected,
                   mDeviceInfoList, listed, left, using, owned>>

----------------------------------------------------------------------------
(* The host's calls and the global serial queue.                           *)

\* An entry point looks its object up: the host knows the IDs of any device it
\* ever read from the device list.
Call(c, s, name) ==
    /\ ~scanning
    /\ using[c] = Nobody
    /\ s \in listed
    /\ CopyObjectByObjectID(<<s, name>>, s)
    /\ using' = [using EXCEPT ![c] = s]
    /\ UNCHANGED <<service, scanning, taken, notified, object, connected,
                   mDeviceInfoList, listed, at, dev, left, owned>>

Return(c) ==
    /\ using[c] # Nobody
    /\ ReleaseObject(using[c])
    /\ using' = [using EXCEPT ![c] = Nobody]
    /\ UNCHANGED <<service, scanning, taken, notified, object, connected,
                   mDeviceInfoList, listed, at, dev, left, owned>>

\* The destructor also closes a connection that is still open.
Destroy(s) ==
    /\ DestroyObject(s)
    /\ connected' = connected \ {s}
    /\ UNCHANGED <<service, scanning, taken, notified, object, mDeviceInfoList,
                   listed, at, dev, left, using, owned>>

----------------------------------------------------------------------------

MatchingStep(w) ==
    \/ \E s \in Object : TakeService(w, s)
    \/ AddDevice(w) \/ OpenDevice(w) \/ MapParts(w) \/ Undo(w) \/ UndoRelease(w)
InterestStep ==
    \/ \E s \in Object : InterestMessage(s)
    \/ RemoveDevice \/ Deactivate \/ UnmapParts \/ DropCreation \/ DropReference

Next ==
    \/ \E s \in Object : Arrive(s) \/ Terminate(s) \/ Destroy(s)
    \/ \E w \in Worker : MatchingStep(w)
    \/ EndScan
    \/ InterestStep
    \/ \E c \in Client :
          \/ \E s \in Object, name \in Part \cup {Device} : Call(c, s, name)
          \/ Return(c)

\* A queue runs what was dispatched to it, StaticInitializer finishes its scan and a
\* call of the host returns; services need not arrive or terminate.
Fairness ==
    /\ WF_vars(MatchingStep(Startup) \/ EndScan)
    /\ WF_vars(MatchingStep(Queue) \/ InterestStep)
    /\ \A s \in Object : WF_vars(Destroy(s))
    /\ \A c \in Client : WF_vars(Return(c))

Spec == Init /\ [][Next]_vars
FairSpec == Spec /\ Fairness

----------------------------------------------------------------------------
(* Properties.                                                             *)

\* Who holds a reference to the device of s: its creator, the interest handler
\* that removes it, the clients that use it.
Holding(s) ==
    (IF s \in owned THEN {Device} ELSE {})
        \cup {w \in Worker : at[w] \in Remover /\ dev[w] = s}
        \cup {c \in Client : using[c] = s}

\* The map's reference count is the number of holders, whatever the order in which
\* handlers and clients take and release.
RefsExact == \A s \in Object : mReferenceCount[s] = Cardinality(Holding(s))

\* A device is not deleted, nor queued for it, while a handler or a client works on
\* it, although the matching handler holds no reference of its own.
Gone(s) == s \in deleted \/ disposing[s] > 0
NoUseAfterDelete ==
    /\ \A w \in Worker : at[w] # "idle" => ~Gone(dev[w])
    /\ \A c \in Client : using[c] # Nobody => ~Gone(using[c])

\* A device in the map is not gone and a device is disposed of once: a lookup can
\* never return an object that a queued block will delete.
MapHoldsLiveDevices == \A s \in Object :
    /\ InMap(s) => ~Gone(s)
    /\ disposing[s] + (IF s \in deleted THEN 1 ELSE 0) <= 1

\* A device in the list has its creation reference, so every ID the host reads from
\* the list resolves.
ListedResolves == \A s \in mDeviceInfoList :
    s \in owned /\ <<s, Device>> \in mObjectIDList[s]

\* A device whose service terminated is deleted and disconnected if the clients leave
\* it alone in the end: no order of arrival, failure and termination leaks a reference.  The
\* device's own ID stays in the map until then, so clients whose calls overlap can
\* keep a dead device for ever.
TerminatedIsDeleted == \A s \in Object :
    <>[](\A c \in Client : using[c] # s) =>
        ((service[s] = "terminated" /\ s \in taken)
            ~> (s \in deleted /\ s \notin connected))

\* No client holds a device that Activate has not finished with ("Activate() is
\* called prior to any references to the object being handed out").  The matching
\* handler puts a device in the map and the list before it calls Activate.
NoEarlyReference == \A c \in Client :
    using[c] # Nobody => object[using[c]] # "built"

\* The map and the handlers implement a table of counted handles.
Handles == INSTANCE HandleTable WITH
              Holder  <- Client \cup Worker \cup {Device},
              Creator <- Device,
              state   <- [s \in Object |->
                             IF s \in deleted THEN "destroyed"
                             ELSE IF object[s] = "none" THEN "unborn" ELSE "alive"],
              holding <- [s \in Object |-> Holding(s)]
ImplementsHandles == Handles!Spec
=============================================================================

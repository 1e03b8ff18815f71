---------------------------- MODULE SA_ObjectMap ----------------------------
(***************************************************************************)
(* The audio plug-in's map from AudioObjectIDs to reference-counted        *)
(* objects.  Every operation runs under the map's mutex, so each is one    *)
(* step; an object that leaves the map is deleted later by a block on the  *)
(* global serial queue.  An object may have several IDs.                   *)
(***************************************************************************)
EXTENDS Naturals

CONSTANTS Object, ID

VARIABLES
    mReferenceCount,   \* mReferenceCount[o] of o's ObjectInfo, 0 when o has none
    mObjectIDList,     \* the IDs in o's ObjectInfo
    disposing,         \* how many DestroyObject(o) blocks are queued
    deleted            \* the objects DestroyObject has deleted
mapVars == <<mReferenceCount, mObjectIDList, disposing, deleted>>

MapTypeOK ==
    /\ mReferenceCount \in [Object -> Nat]
    /\ mObjectIDList \in [Object -> SUBSET ID]
    /\ disposing \in [Object -> Nat]
    /\ deleted \subseteq Object
    /\ \A o \in Object : mReferenceCount[o] = 0 <=> mObjectIDList[o] = {}

MapInit ==
    /\ mReferenceCount = [o \in Object |-> 0]
    /\ mObjectIDList = [o \in Object |-> {}]
    /\ disposing = [o \in Object |-> 0]
    /\ deleted = {}

InMap(o) == mReferenceCount[o] > 0

\* MapObject.  An ID that is already attached is refused; an object that is not in
\* the map gets an ObjectInfo with one reference, its creator's.
MapObject(id, o) ==
    IF \E p \in Object : id \in mObjectIDList[p]
    THEN UNCHANGED mapVars
    ELSE /\ mObjectIDList' = [mObjectIDList EXCEPT ![o] = @ \cup {id}]
         /\ mReferenceCount' = IF InMap(o) THEN mReferenceCount
                               ELSE [mReferenceCount EXCEPT ![o] = 1]
         /\ UNCHANGED <<disposing, deleted>>

\* Erase the ObjectInfo and dispatch the destruction of the object.
Erase(o) ==
    /\ mReferenceCount' = [mReferenceCount EXCEPT ![o] = 0]
    /\ mObjectIDList' = [mObjectIDList EXCEPT ![o] = {}]
    /\ disposing' = [disposing EXCEPT ![o] = @ + 1]
    /\ UNCHANGED deleted

\* UnmapObject.  The last ID to go takes the object with it, whatever its count.
UnmapObject(id, o) ==
    \/ /\ id \notin mObjectIDList[o]
       /\ UNCHANGED mapVars
    \/ /\ mObjectIDList[o] = {id}
       /\ Erase(o)
    \/ /\ id \in mObjectIDList[o]
       /\ mObjectIDList[o] # {id}
       /\ mObjectIDList' = [mObjectIDList EXCEPT ![o] = @ \ {id}]
       /\ UNCHANGED <<mReferenceCount, disposing, deleted>>

\* Faulty variant: takes no reference.
CopyUncounted(id, o) ==
    /\ id \in mObjectIDList[o]
    /\ UNCHANGED mapVars
\* CopyObjectByObjectID, when it finds o under id.
CopyObjectByObjectID(id, o) ==
    /\ id \in mObjectIDList[o]
    /\ mReferenceCount' = [mReferenceCount EXCEPT ![o] = @ + 1]
    /\ UNCHANGED <<mObjectIDList, disposing, deleted>>

\* Faulty variant: the last release leaves the object in the map.
ReleaseKeepingInfo(o) ==
    \/ mReferenceCount[o] = 0 /\ UNCHANGED mapVars
    \/ /\ mReferenceCount[o] = 1
       /\ disposing' = [disposing EXCEPT ![o] = @ + 1]
       /\ UNCHANGED <<mReferenceCount, mObjectIDList, deleted>>
    \/ /\ mReferenceCount[o] > 1
       /\ mReferenceCount' = [mReferenceCount EXCEPT ![o] = @ - 1]
       /\ UNCHANGED <<mObjectIDList, disposing, deleted>>
\* ReleaseObject: nothing for an object that is not in the map.
ReleaseObject(o) ==
    \/ mReferenceCount[o] = 0 /\ UNCHANGED mapVars
    \/ mReferenceCount[o] = 1 /\ Erase(o)
    \/ /\ mReferenceCount[o] > 1
       /\ mReferenceCount' = [mReferenceCount EXCEPT ![o] = @ - 1]
       /\ UNCHANGED <<mObjectIDList, disposing, deleted>>

\* A queued block runs.
DestroyObject(o) ==
    /\ disposing[o] > 0
    /\ disposing' = [disposing EXCEPT ![o] = @ - 1]
    /\ deleted' = deleted \cup {o}
    /\ UNCHANGED <<mReferenceCount, mObjectIDList>>
=============================================================================

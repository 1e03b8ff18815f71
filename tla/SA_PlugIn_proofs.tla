--------------------------- MODULE SA_PlugIn_proofs ---------------------------
(***************************************************************************)
(* The invariants of the plug-in's device handling for any number of       *)
(* services and parts and any finite set of clients, for the case in which *)
(* no service terminates during the startup scan.                          *)
(***************************************************************************)
EXTENDS SA_PlugIn, FiniteSetTheorems, TLAPS

----------------------------------------------------------------------------
(* The inductive invariant.                                                *)

\* A device's IDs are its own, and while it is in the map its own name is one: no
\* mapping is refused and no unmapping of a part empties the list.
NamesOwn == \A s \in Object :
    /\ mObjectIDList[s] \subseteq {s} \X (Part \cup {Device})
    /\ InMap(s) => <<s, Device>> \in mObjectIDList[s]

\* The device of a service that no thread took yet does not exist.
Untouched == \A s \in Object :
    /\ s \in taken => object[s] # "none"
    /\ s \notin taken =>
          object[s] = "none" /\ mReferenceCount[s] = 0 /\ ~Gone(s) /\ s \notin owned

\* Startup works only during the scan and Queue only after it; nothing terminates
\* during the scan.
Turns ==
    /\ at[Startup] # "idle" => scanning
    /\ at[Queue] # "idle" => ~scanning
    /\ at[Startup] \notin Remover
    /\ scanning => notified = {} /\ \A s \in Object : service[s] # "terminated"

\* The creation reference outlives the matching handler's use of the device, its
\* place in the list and the interest handler's use up to the release of it.
OwnedWhileUsed ==
    /\ mDeviceInfoList \subseteq owned
    /\ \A w \in Worker :
          /\ at[w] \in Scanner \cup {"remove", "deactivate", "unmap", "drop"} =>
                dev[w] \in owned
          /\ at[w] \in {"undoRelease", "deactivate", "unmap", "drop"} =>
                dev[w] \notin mDeviceInfoList
          /\ at[w] = "unmap" => left[w] \subseteq Part

IInv ==
    /\ TypeOK
    /\ NamesOwn
    /\ RefsExact
    /\ MapHoldsLiveDevices
    /\ Untouched
    /\ Turns
    /\ OwnedWhileUsed

----------------------------------------------------------------------------
(* The effect of the map's operations on the first four conjuncts.         *)

\* What the map's operations keep by themselves.
MapOK == MapTypeOK /\ NamesOwn /\ MapHoldsLiveDevices

LEMMA NameIsID ==
    ASSUME NEW s \in Object, NEW name \in Part \cup {Device}
    PROVE  <<s, name>> \in ID
BY IDShape

LEMMA MapSame == ASSUME MapOK, UNCHANGED mapVars PROVE MapOK'
BY DEF MapOK, mapVars, MapTypeOK, NamesOwn, MapHoldsLiveDevices, InMap, Gone

\* A lookup.
LEMMA CopyEffect ==
    ASSUME MapOK, NEW s \in Object, NEW name \in Part \cup {Device},
           CopyObjectByObjectID(<<s, name>>, s)
    PROVE  /\ MapOK'
           /\ mReferenceCount[s] \in Nat \ {0}
           /\ mReferenceCount' = [mReferenceCount EXCEPT ![s] = @ + 1]
           /\ UNCHANGED <<mObjectIDList, disposing, deleted>>
<1>1. /\ mReferenceCount' = [mReferenceCount EXCEPT ![s] = @ + 1]
      /\ UNCHANGED <<mObjectIDList, disposing, deleted>>
      /\ <<s, name>> \in mObjectIDList[s]
  BY DEF CopyObjectByObjectID
<1>2. mReferenceCount[s] \in Nat \ {0}
  BY <1>1 DEF MapOK, MapTypeOK
<1>3. MapTypeOK'
  BY <1>1, <1>2 DEF MapOK, MapTypeOK
<1>4. \A p \in Object : InMap(p)' <=> InMap(p)
  BY <1>1, <1>2 DEF InMap, MapOK, MapTypeOK
<1>5. NamesOwn' /\ MapHoldsLiveDevices'
  BY <1>1, <1>4 DEF MapOK, NamesOwn, MapHoldsLiveDevices, Gone
<1>6. QED
  BY <1>1, <1>2, <1>3, <1>5 DEF MapOK

\* Giving one of the references back.
LEMMA ReleaseEffect ==
    ASSUME MapOK, NEW s \in Object, mReferenceCount[s] # 0, ReleaseObject(s)
    PROVE  /\ MapOK'
           /\ mReferenceCount' = [mReferenceCount EXCEPT ![s] = @ - 1]
           /\ deleted' = deleted
           /\ \A p \in Object : Gone(p)' => Gone(p) \/ p = s
<1>0. mReferenceCount[s] \in Nat \ {0} /\ MapTypeOK
  BY DEF MapOK, MapTypeOK
<1>1. CASE mReferenceCount[s] = 1 /\ Erase(s)
  <2>1. /\ mReferenceCount' = [mReferenceCount EXCEPT ![s] = 0]
        /\ mObjectIDList' = [mObjectIDList EXCEPT ![s] = {}]
        /\ disposing' = [disposing EXCEPT ![s] = @ + 1]
        /\ deleted' = deleted
    BY <1>1 DEF Erase
  <2>2. mReferenceCount' = [mReferenceCount EXCEPT ![s] = @ - 1]
    BY <1>1, <2>1
  <2>3. MapTypeOK'
    BY <1>0, <2>1 DEF MapTypeOK
  <2>4. disposing[s] = 0 /\ s \notin deleted
    BY <1>0 DEF MapOK, MapHoldsLiveDevices, InMap, Gone, MapTypeOK
  <2>5. \A p \in Object : p # s =>
           /\ mReferenceCount'[p] = mReferenceCount[p]
           /\ mObjectIDList'[p] = mObjectIDList[p]
           /\ disposing'[p] = disposing[p]
    BY <1>0, <2>1 DEF MapTypeOK
  <2>6. mReferenceCount'[s] = 0 /\ mObjectIDList'[s] = {} /\ disposing'[s] = 1
    BY <1>0, <2>1, <2>4 DEF MapTypeOK
  <2>7. NamesOwn'
    BY <2>5, <2>6 DEF MapOK, NamesOwn, InMap
  <2>8. MapHoldsLiveDevices'
    BY <2>1, <2>4, <2>5, <2>6 DEF MapOK, MapHoldsLiveDevices, InMap, Gone
  <2>9. QED
    BY <2>1, <2>2, <2>3, <2>5, <2>7, <2>8 DEF MapOK, Gone
<1>2. CASE /\ mReferenceCount[s] > 1
           /\ mReferenceCount' = [mReferenceCount EXCEPT ![s] = @ - 1]
           /\ UNCHANGED <<mObjectIDList, disposing, deleted>>
  <2>1. MapTypeOK'
    BY <1>0, <1>2 DEF MapTypeOK
  <2>2. \A p \in Object : InMap(p)' <=> InMap(p)
    BY <1>0, <1>2 DEF InMap, MapTypeOK
  <2>3. NamesOwn' /\ MapHoldsLiveDevices'
    BY <1>2, <2>2 DEF MapOK, NamesOwn, MapHoldsLiveDevices, Gone
  <2>4. QED
    BY <1>2, <2>1, <2>3 DEF MapOK, Gone
<1>3. QED
  BY <1>0, <1>1, <1>2 DEF ReleaseObject

\* Mapping one more name of a device that is in the map.
LEMMA NameEffect ==
    ASSUME MapOK, NEW s \in Object, NEW name \in Part \cup {Device}, InMap(s),
           MapName(name, s)
    PROVE  MapOK' /\ UNCHANGED <<mReferenceCount, disposing, deleted>>
<1>1. CASE UNCHANGED mapVars
  BY <1>1, MapSame DEF mapVars
<1>2. CASE /\ mObjectIDList' = [mObjectIDList EXCEPT ![s] = @ \cup {<<s, name>>}]
           /\ UNCHANGED <<mReferenceCount, disposing, deleted>>
  <2>1. MapTypeOK'
    BY <1>2, NameIsID DEF MapOK, MapTypeOK, InMap
  <2>2. NamesOwn'
    BY <1>2 DEF MapOK, MapTypeOK, NamesOwn, InMap
  <2>3. MapHoldsLiveDevices'
    BY <1>2 DEF MapOK, MapHoldsLiveDevices, InMap, Gone
  <2>4. QED
    BY <1>2, <2>1, <2>2, <2>3 DEF MapOK
<1>3. QED
  BY <1>1, <1>2 DEF MapName, MapObject

\* Mapping a new device: it gets one reference.
LEMMA NewEffect ==
    ASSUME MapOK, NEW s \in Object, mReferenceCount[s] = 0, ~Gone(s), MapName(Device, s)
    PROVE  /\ MapOK'
           /\ mReferenceCount' = [mReferenceCount EXCEPT ![s] = 1]
           /\ UNCHANGED <<disposing, deleted>>
<1>0. mObjectIDList[s] = {}
  BY DEF MapOK, MapTypeOK
<1>1. ASSUME NEW p \in Object PROVE <<s, Device>> \notin mObjectIDList[p]
  <2>1. mObjectIDList[p] \subseteq {p} \X (Part \cup {Device})
    BY DEF MapOK, NamesOwn
  <2>2. p # s => <<s, Device>> \notin {p} \X (Part \cup {Device})
    OBVIOUS
  <2>3. QED
    BY <1>0, <2>1, <2>2
<1>2. /\ mObjectIDList' = [mObjectIDList EXCEPT ![s] = @ \cup {<<s, Device>>}]
      /\ mReferenceCount' = [mReferenceCount EXCEPT ![s] = 1]
      /\ UNCHANGED <<disposing, deleted>>
  BY <1>1 DEF MapName, MapObject, InMap
<1>3. MapTypeOK'
  <2>1. <<s, Device>> \in ID
    BY NameIsID
  <2>2. QED
    BY <1>0, <1>2, <2>1 DEF MapOK, MapTypeOK
<1>4. NamesOwn'
  BY <1>2 DEF MapOK, MapTypeOK, NamesOwn, InMap
<1>5. MapHoldsLiveDevices'
  BY <1>2 DEF MapOK, MapTypeOK, MapHoldsLiveDevices, InMap, Gone
<1>6. QED
  BY <1>2, <1>3, <1>4, <1>5 DEF MapOK

\* Unmapping a part: the device's own name remains, and so does the device.
LEMMA UnnameEffect ==
    ASSUME MapOK, NEW s \in Object, NEW part \in Part, InMap(s), UnmapName(part, s)
    PROVE  MapOK' /\ UNCHANGED <<mReferenceCount, disposing, deleted>>
<1>1. <<s, Device>> \in mObjectIDList[s] /\ part # Device
  BY IDShape DEF MapOK, NamesOwn
<1>2. mObjectIDList[s] # {<<s, part>>}
  BY <1>1
<1>3. CASE UNCHANGED mapVars
  BY <1>3, MapSame DEF mapVars
<1>4. CASE /\ mObjectIDList' = [mObjectIDList EXCEPT ![s] = @ \ {<<s, part>>}]
           /\ UNCHANGED <<mReferenceCount, disposing, deleted>>
  <2>1. MapTypeOK'
    BY <1>1, <1>4 DEF MapOK, MapTypeOK, InMap
  <2>2. NamesOwn'
    BY <1>1, <1>4 DEF MapOK, MapTypeOK, NamesOwn, InMap
  <2>3. MapHoldsLiveDevices'
    BY <1>4 DEF MapOK, MapHoldsLiveDevices, InMap, Gone
  <2>4. QED
    BY <1>4, <2>1, <2>2, <2>3 DEF MapOK
<1>5. QED
  BY <1>2, <1>3, <1>4 DEF UnmapName, UnmapObject

\* Deleting a device whose block is queued.
LEMMA DestroyEffect ==
    ASSUME MapOK, NEW s \in Object, DestroyObject(s)
    PROVE  /\ MapOK'
           /\ UNCHANGED mReferenceCount
           /\ \A p \in Object : Gone(p)' => Gone(p)
           /\ deleted' = deleted \cup {s} /\ s \notin deleted /\ mReferenceCount[s] = 0
<1>0. MapTypeOK /\ MapHoldsLiveDevices /\ NamesOwn
  BY DEF MapOK
<1>1. /\ disposing[s] > 0 /\ disposing' = [disposing EXCEPT ![s] = @ - 1]
      /\ deleted' = deleted \cup {s}
      /\ UNCHANGED <<mReferenceCount, mObjectIDList>>
  BY DEF DestroyObject
<1>2. Gone(s) /\ ~InMap(s)
  BY <1>0, <1>1 DEF Gone, MapHoldsLiveDevices
<1>3. disposing[s] = 1 /\ s \notin deleted /\ disposing'[s] = 0
  BY <1>0, <1>1 DEF MapHoldsLiveDevices, MapTypeOK
<1>4. \A p \in Object : p # s => disposing'[p] = disposing[p] /\ (p \in deleted' <=> p \in deleted)
  BY <1>0, <1>1 DEF MapTypeOK
<1>5. \A p \in Object : Gone(p)' <=> Gone(p)
  BY <1>1, <1>2, <1>3, <1>4 DEF Gone
<1>6. MapTypeOK'
  BY <1>0, <1>1 DEF MapTypeOK
<1>7. NamesOwn'
  BY <1>0, <1>1 DEF NamesOwn, InMap
<1>8. MapHoldsLiveDevices'
  BY <1>0, <1>1, <1>2, <1>3, <1>4, <1>5 DEF MapHoldsLiveDevices, InMap
<1>9. mReferenceCount[s] = 0
  BY <1>0, <1>2 DEF InMap, MapTypeOK
<1>10. QED
  BY <1>1, <1>3, <1>5, <1>6, <1>7, <1>8, <1>9 DEF MapOK

----------------------------------------------------------------------------
(* Counting the holders.                                                   *)

LEMMA HoldingFinite ==
    ASSUME NEW STATE s
    PROVE  IsFiniteSet(Holding(s)) /\ Cardinality(Holding(s)) \in Nat
<1>1. IsFiniteSet(Worker)
  <2>1. IsFiniteSet({Startup}) /\ {Startup, Queue} = {Startup} \cup {Queue}
    BY FS_Singleton
  <2>2. QED
    BY <2>1, FS_AddElement DEF Worker
<1>2. IsFiniteSet(Client \cup Worker \cup {Device})
  BY <1>1, ClientsFinite, FS_Union, FS_AddElement
<1>3. Holding(s) \subseteq Client \cup Worker \cup {Device}
  BY DEF Holding
<1>4. QED
  BY <1>2, <1>3, FS_Subset, FS_CardinalityType

\* A device with a holder is in the map and not gone.
LEMMA HeldIsLive ==
    ASSUME MapOK, RefsExact, NEW s \in Object, Holding(s) # {}
    PROVE  mReferenceCount[s] \in Nat \ {0} /\ InMap(s) /\ ~Gone(s)
<1>1. Cardinality(Holding(s)) \in Nat \ {0}
  BY HoldingFinite, FS_EmptySet
<1>2. mReferenceCount[s] \in Nat \ {0}
  BY <1>1 DEF RefsExact
<1>3. QED
  BY <1>2 DEF MapOK, MapHoldsLiveDevices, InMap

\* Nobody takes or drops a reference.
LEMMA SameHolders ==
    ASSUME RefsExact, UNCHANGED mReferenceCount,
           \A s \in Object : Holding(s)' = Holding(s)
    PROVE  RefsExact'
BY DEF RefsExact

\* One holder more, of one device.
LEMMA OneMore ==
    ASSUME MapTypeOK, RefsExact, NEW s \in Object, NEW STATE h, h \notin Holding(s),
           mReferenceCount' = [mReferenceCount EXCEPT ![s] = @ + 1],
           Holding(s)' = Holding(s) \cup {h},
           \A p \in Object \ {s} : Holding(p)' = Holding(p)
    PROVE  RefsExact'
<1>1. Cardinality(Holding(s)') = Cardinality(Holding(s)) + 1
  BY HoldingFinite, FS_AddElement
<1>2. QED
  BY <1>1, HoldingFinite DEF RefsExact, MapTypeOK

\* One less.
LEMMA OneLess ==
    ASSUME MapTypeOK, RefsExact, NEW s \in Object, NEW STATE h, h \in Holding(s),
           mReferenceCount' = [mReferenceCount EXCEPT ![s] = @ - 1],
           Holding(s)' = Holding(s) \ {h},
           \A p \in Object \ {s} : Holding(p)' = Holding(p)
    PROVE  RefsExact'
<1>1. Cardinality(Holding(s)') = Cardinality(Holding(s)) - 1
  BY HoldingFinite, FS_RemoveElement
<1>2. QED
  BY <1>1, HoldingFinite DEF RefsExact, MapTypeOK

\* What a step owes: the parts of the invariant, given what holds before it.
LEMMA Parts == IInv <=> /\ TypeOK /\ MapOK /\ RefsExact
                        /\ Untouched /\ Turns /\ OwnedWhileUsed
BY DEF IInv, MapOK, TypeOK

----------------------------------------------------------------------------
(* Steps that leave the map alone.                                         *)

\* They keep the map's part and, when no holder comes or goes, the counts.
LEMMA QuietStep ==
    ASSUME IInv, UNCHANGED mapVars, \A s \in Object : Holding(s)' = Holding(s)
    PROVE  MapOK' /\ RefsExact'
<1>1. MapOK /\ RefsExact
  BY Parts
<1>2. UNCHANGED mReferenceCount
  BY DEF mapVars
<1>3. QED
  BY <1>1, <1>2, MapSame, SameHolders

LEMMA ArriveKeeps == ASSUME IInv, NEW s \in Object, Arrive(s) PROVE IInv'
<1>1. MapOK' /\ RefsExact'
  BY QuietStep DEF Arrive, Holding
<1>2. TypeOK /\ Untouched /\ Turns /\ OwnedWhileUsed
  BY DEF IInv
<1>3. TypeOK'
  BY <1>1, <1>2 DEF TypeOK, MapOK, Arrive
<1>4. Untouched'
  BY <1>2 DEF Untouched, Arrive, mapVars, Gone
<1>5. Turns'
  BY <1>2 DEF Turns, Arrive, TypeOK
<1>6. OwnedWhileUsed'
  BY <1>2 DEF OwnedWhileUsed, Arrive
<1>7. QED
  BY <1>1, <1>3, <1>4, <1>5, <1>6 DEF IInv, MapOK

LEMMA TerminateKeeps ==
    ASSUME ~EarlyUnplug, IInv, NEW s \in Object, Terminate(s) PROVE IInv'
<1>1. MapOK' /\ RefsExact'
  BY QuietStep DEF Terminate, Holding
<1>2. TypeOK /\ Untouched /\ Turns /\ OwnedWhileUsed
  BY DEF IInv
<1>3. TypeOK'
  BY <1>1, <1>2 DEF TypeOK, MapOK, Terminate
<1>4. Untouched'
  BY <1>2 DEF Untouched, Terminate, mapVars, Gone
<1>5. Turns'
  BY <1>2 DEF Turns, Terminate, TypeOK
<1>6. OwnedWhileUsed'
  BY <1>2 DEF OwnedWhileUsed, Terminate
<1>7. QED
  BY <1>1, <1>3, <1>4, <1>5, <1>6 DEF IInv, MapOK

LEMMA EndScanKeeps == ASSUME IInv, EndScan PROVE IInv'
<1>1. MapOK' /\ RefsExact'
  BY QuietStep DEF EndScan, Holding
<1>2. TypeOK /\ Untouched /\ Turns /\ OwnedWhileUsed
  BY DEF IInv
<1>3. TypeOK'
  BY <1>1, <1>2 DEF TypeOK, MapOK, EndScan
<1>4. Untouched'
  BY <1>2 DEF Untouched, EndScan, mapVars, Gone
<1>5. Turns'
  BY <1>2 DEF Turns, EndScan, TypeOK
<1>6. OwnedWhileUsed'
  BY <1>2 DEF OwnedWhileUsed, EndScan
<1>7. QED
  BY <1>1, <1>3, <1>4, <1>5, <1>6 DEF IInv, MapOK

\* A worker moves on within its handler.
LEMMA GotoHolds ==
    ASSUME TypeOK, NEW w \in Worker, NEW loc, Goto(w, loc),
           at[w] \in Remover <=> loc \in Remover, UNCHANGED <<using, owned>>
    PROVE  \A s \in Object : Holding(s)' = Holding(s)
BY DEF TypeOK, Goto, Holding

LEMMA AddDeviceKeeps == ASSUME IInv, NEW w \in Worker, AddDevice(w) PROVE IInv'
<1>0. TypeOK /\ Untouched /\ Turns /\ OwnedWhileUsed
  BY DEF IInv
<1>1. MapOK' /\ RefsExact'
  <2>1. \A s \in Object : Holding(s)' = Holding(s)
    BY <1>0, GotoHolds DEF AddDevice, Remover
  <2>2. QED
    BY <2>1, QuietStep DEF AddDevice
<1>2. dev[w] \in Object /\ dev[w] \in owned
  BY <1>0 DEF AddDevice, TypeOK, OwnedWhileUsed, Scanner
<1>3. TypeOK'
  BY <1>0, <1>1, <1>2 DEF TypeOK, MapOK, AddDevice, Goto, Scanner
<1>4. Untouched'
  BY <1>0 DEF Untouched, AddDevice, mapVars, Gone
<1>5. Turns'
  BY <1>0, ThreadsDiffer DEF Turns, AddDevice, TypeOK, Goto, Remover, Worker
<1>6. OwnedWhileUsed'
  <2>1. \A v \in Worker : v # w => at[v] = "idle"
    BY <1>0 DEF Turns, AddDevice, Worker
  <2>2. QED
    BY <1>0, <1>2, <2>1 DEF OwnedWhileUsed, AddDevice, Goto, TypeOK, Scanner
<1>7. QED
  BY <1>1, <1>3, <1>4, <1>5, <1>6 DEF IInv, MapOK

LEMMA OpenDeviceKeeps == ASSUME IInv, NEW w \in Worker, OpenDevice(w) PROVE IInv'
<1>0. TypeOK /\ Untouched /\ Turns /\ OwnedWhileUsed
  BY DEF IInv
<1>1. MapOK' /\ RefsExact'
  <2>1. \A s \in Object : Holding(s)' = Holding(s)
    BY <1>0, GotoHolds DEF OpenDevice, Remover
  <2>2. QED
    BY <2>1, QuietStep DEF OpenDevice
<1>2. dev[w] \in Object /\ dev[w] \in owned
  BY <1>0 DEF OpenDevice, TypeOK, OwnedWhileUsed, Scanner
<1>3. TypeOK'
  BY <1>0, <1>1, <1>2 DEF TypeOK, MapOK, OpenDevice, Goto, Scanner
<1>4. Untouched'
  BY <1>0 DEF Untouched, OpenDevice, mapVars, Gone
<1>5. Turns'
  BY <1>0, ThreadsDiffer DEF Turns, OpenDevice, TypeOK, Goto, Remover, Worker
<1>6. OwnedWhileUsed'
  BY <1>0, <1>2 DEF OwnedWhileUsed, OpenDevice, Goto, TypeOK, Scanner
<1>7. QED
  BY <1>1, <1>3, <1>4, <1>5, <1>6 DEF IInv, MapOK

LEMMA UndoKeeps == ASSUME IInv, NEW w \in Worker, Undo(w) PROVE IInv'
<1>0. TypeOK /\ Untouched /\ Turns /\ OwnedWhileUsed
  BY DEF IInv
<1>1. MapOK' /\ RefsExact'
  <2>1. \A s \in Object : Holding(s)' = Holding(s)
    BY <1>0, GotoHolds DEF Undo, Remover
  <2>2. QED
    BY <2>1, QuietStep DEF Undo
<1>2. dev[w] \in Object /\ dev[w] \in owned
  BY <1>0 DEF Undo, TypeOK, OwnedWhileUsed, Scanner
<1>3. TypeOK'
  BY <1>0, <1>1, <1>2 DEF TypeOK, MapOK, Undo, Goto, Scanner
<1>4. Untouched'
  BY <1>0 DEF Untouched, Undo, mapVars, Gone
<1>5. Turns'
  BY <1>0, ThreadsDiffer DEF Turns, Undo, TypeOK, Goto, Remover, Worker
<1>6. OwnedWhileUsed'
  BY <1>0, <1>2 DEF OwnedWhileUsed, Undo, Goto, TypeOK, Scanner
<1>7. QED
  BY <1>1, <1>3, <1>4, <1>5, <1>6 DEF IInv, MapOK

LEMMA RemoveDeviceKeeps == ASSUME IInv, RemoveDevice PROVE IInv'
<1>0. TypeOK /\ Untouched /\ Turns /\ OwnedWhileUsed /\ Queue \in Worker
  BY DEF IInv, Worker
<1>1. MapOK' /\ RefsExact'
  <2>1. \A s \in Object : Holding(s)' = Holding(s)
    BY <1>0, GotoHolds DEF RemoveDevice, Remover
  <2>2. QED
    BY <2>1, QuietStep DEF RemoveDevice
<1>2. dev[Queue] \in Object /\ dev[Queue] \in owned
  BY <1>0 DEF RemoveDevice, TypeOK, OwnedWhileUsed
<1>3. TypeOK'
  BY <1>0, <1>1, <1>2 DEF TypeOK, MapOK, RemoveDevice, Goto, Remover
<1>4. Untouched'
  BY <1>0 DEF Untouched, RemoveDevice, mapVars, Gone
<1>5. Turns'
  BY <1>0, ThreadsDiffer DEF Turns, RemoveDevice, TypeOK, Goto
<1>6. OwnedWhileUsed'
  BY <1>0, <1>2 DEF OwnedWhileUsed, RemoveDevice, Goto, TypeOK, Scanner
<1>7. QED
  BY <1>1, <1>3, <1>4, <1>5, <1>6 DEF IInv, MapOK

LEMMA DeactivateKeeps == ASSUME IInv, Deactivate PROVE IInv'
<1>0. TypeOK /\ Untouched /\ Turns /\ OwnedWhileUsed /\ Queue \in Worker
  BY DEF IInv, Worker
<1>1. MapOK' /\ RefsExact'
  <2>1. \A s \in Object : Holding(s)' = Holding(s)
    BY <1>0, GotoHolds DEF Deactivate, Remover
  <2>2. QED
    BY <2>1, QuietStep DEF Deactivate
<1>2. dev[Queue] \in Object /\ dev[Queue] \in owned
  BY <1>0 DEF Deactivate, TypeOK, OwnedWhileUsed
<1>3. TypeOK'
  BY <1>0, <1>1, <1>2 DEF TypeOK, MapOK, Deactivate, Goto, Remover, UnmappedNames
<1>4. Untouched'
  <2>1. dev[Queue] \in taken
    BY <1>0, <1>2 DEF Untouched
  <2>2. QED
    BY <1>0, <1>2, <2>1 DEF Untouched, Deactivate, mapVars, Gone, TypeOK
<1>5. Turns'
  BY <1>0, ThreadsDiffer DEF Turns, Deactivate, TypeOK, Goto
<1>6. OwnedWhileUsed'
  BY <1>0, <1>2 DEF OwnedWhileUsed, Deactivate, Goto, TypeOK, Scanner, UnmappedNames
<1>7. QED
  BY <1>1, <1>3, <1>4, <1>5, <1>6 DEF IInv, MapOK

----------------------------------------------------------------------------
(* Steps that use the map.                                                 *)

\* A new device is mapped, held by its creator alone.
LEMMA TakeServiceKeeps ==
    ASSUME IInv, NEW w \in Worker, NEW s \in Object, TakeService(w, s) PROVE IInv'
<1>0. TypeOK /\ Untouched /\ Turns /\ OwnedWhileUsed /\ MapOK /\ RefsExact
  BY Parts
<1>1. mReferenceCount[s] = 0 /\ ~Gone(s) /\ s \notin owned /\ Holding(s) = {}
  <2>1. mReferenceCount[s] = 0 /\ ~Gone(s) /\ s \notin owned
    BY <1>0 DEF Untouched, TakeService
  <2>2. Cardinality(Holding(s)) = 0
    BY <1>0, <2>1 DEF RefsExact
  <2>3. QED
    BY <2>1, <2>2, HoldingFinite, FS_EmptySet
<1>2. /\ MapOK'
      /\ mReferenceCount' = [mReferenceCount EXCEPT ![s] = 1]
      /\ UNCHANGED <<disposing, deleted>>
  BY <1>0, <1>1, NewEffect DEF TakeService
<1>3. RefsExact'
  <2>1. Holding(s)' = Holding(s) \cup {Device} /\ Device \notin Holding(s)
    BY <1>0, <1>1 DEF Holding, TakeService, GotoOn, TypeOK, Scanner, Remover
  <2>2. \A p \in Object \ {s} : Holding(p)' = Holding(p)
    BY <1>0, <1>1 DEF Holding, TakeService, GotoOn, TypeOK, Scanner, Remover
  <2>3. mReferenceCount' = [mReferenceCount EXCEPT ![s] = @ + 1]
    BY <1>1, <1>2
  <2>4. QED
    BY <1>0, <2>1, <2>2, <2>3, OneMore DEF MapOK
<1>4. TypeOK'
  BY <1>0, <1>2, NobodyDiffers DEF TypeOK, MapOK, TakeService, GotoOn, Scanner
<1>5. Untouched'
  BY <1>0, <1>2 DEF Untouched, TakeService, TypeOK, Gone, MapOK, MapTypeOK
<1>6. Turns'
  BY <1>0, ThreadsDiffer DEF Turns, TakeService, TypeOK, GotoOn, Remover, Worker
<1>7. OwnedWhileUsed'
  BY <1>0 DEF OwnedWhileUsed, TakeService, TypeOK, GotoOn, Scanner
<1>8. QED
  BY <1>2, <1>3, <1>4, <1>5, <1>6, <1>7, Parts DEF IInv, MapOK

\* The device a worker is on is held, by its creator or by the worker.
LEMMA WorkerHolds ==
    ASSUME IInv, NEW w \in Worker, at[w] # "idle"
    PROVE  dev[w] \in Object /\ Holding(dev[w]) # {} /\ InMap(dev[w]) /\ ~Gone(dev[w])
<1>0. TypeOK /\ OwnedWhileUsed /\ MapOK /\ RefsExact
  BY Parts
<1>1. dev[w] \in Object /\ at[w] \in Scanner \cup Remover
  BY <1>0 DEF TypeOK
<1>2. Holding(dev[w]) # {}
  BY <1>0, <1>1 DEF Holding, OwnedWhileUsed
<1>3. QED
  BY <1>0, <1>1, <1>2, HeldIsLive

LEMMA MapPartsKeeps == ASSUME IInv, NEW w \in Worker, MapParts(w) PROVE IInv'
<1>0. TypeOK /\ Untouched /\ Turns /\ OwnedWhileUsed /\ MapOK /\ RefsExact
  BY Parts
<1>1. at[w] = "map" /\ dev[w] \in Object /\ InMap(dev[w]) /\ dev[w] \in owned
  BY <1>0, WorkerHolds DEF MapParts, OwnedWhileUsed, Scanner
<1>2. MapOK' /\ UNCHANGED <<mReferenceCount, disposing, deleted>>
  <2>1. CASE \E part \in left[w] : MapName(part, dev[w])
    <3>1. PICK part \in left[w] : MapName(part, dev[w])
      BY <2>1
    <3>2. part \in Part \cup {Device}
      BY <1>0 DEF TypeOK
    <3>3. QED
      BY <1>0, <1>1, <3>1, <3>2, NameEffect
  <2>2. CASE UNCHANGED mapVars
    BY <1>0, <2>2, MapSame DEF mapVars
  <2>3. QED
    BY <2>1, <2>2 DEF MapParts
<1>3. \A s \in Object : Holding(s)' = Holding(s)
  BY <1>0, <1>1 DEF Holding, MapParts, GotoOn, TypeOK, Remover
<1>4. RefsExact'
  BY <1>0, <1>2, <1>3, SameHolders
<1>5. TypeOK'
  BY <1>0, <1>1, <1>2, NobodyDiffers DEF TypeOK, MapOK, MapParts, GotoOn
<1>6. Untouched'
  <2>1. dev[w] \in taken
    BY <1>0, <1>1 DEF Untouched
  <2>2. QED
    BY <1>0, <1>1, <1>2, <2>1 DEF Untouched, MapParts, Gone, TypeOK
<1>7. Turns'
  BY <1>0 DEF Turns, MapParts, TypeOK, GotoOn, Remover, Worker
<1>8. OwnedWhileUsed'
  BY <1>0, <1>1 DEF OwnedWhileUsed, MapParts, TypeOK, GotoOn, Scanner
<1>9. QED
  BY <1>2, <1>4, <1>5, <1>6, <1>7, <1>8 DEF IInv, MapOK

LEMMA UnmapPartsKeeps == ASSUME IInv, UnmapParts PROVE IInv'
<1>0. TypeOK /\ Untouched /\ Turns /\ OwnedWhileUsed /\ MapOK /\ RefsExact /\ Queue \in Worker
  BY Parts DEF Worker
<1>1. at[Queue] = "unmap" /\ dev[Queue] \in Object /\ InMap(dev[Queue])
         /\ dev[Queue] \in owned /\ left[Queue] \subseteq Part
  BY <1>0, WorkerHolds DEF UnmapParts, OwnedWhileUsed
<1>2. MapOK' /\ UNCHANGED <<mReferenceCount, disposing, deleted>>
  <2>1. CASE \E part \in left[Queue] : UnmapName(part, dev[Queue])
    <3>1. PICK part \in left[Queue] : UnmapName(part, dev[Queue])
      BY <2>1
    <3>2. part \in Part
      BY <1>1
    <3>3. QED
      BY <1>0, <1>1, <3>1, <3>2, UnnameEffect
  <2>2. CASE UNCHANGED mapVars
    BY <1>0, <2>2, MapSame DEF mapVars
  <2>3. QED
    BY <2>1, <2>2 DEF UnmapParts
<1>3. \A s \in Object : Holding(s)' = Holding(s)
  BY <1>0, <1>1 DEF Holding, UnmapParts, Goto, TypeOK, Remover
<1>4. RefsExact'
  BY <1>0, <1>2, <1>3, SameHolders
<1>5. TypeOK'
  BY <1>0, <1>1, <1>2 DEF TypeOK, MapOK, UnmapParts, Goto, Remover
<1>6. Untouched'
  BY <1>0, <1>1, <1>2 DEF Untouched, UnmapParts, Gone
<1>7. Turns'
  BY <1>0, <1>1, ThreadsDiffer DEF Turns, UnmapParts, TypeOK, Goto, Worker
<1>8. OwnedWhileUsed'
  BY <1>0, <1>1 DEF OwnedWhileUsed, UnmapParts, TypeOK, Goto, Scanner
<1>9. QED
  BY <1>2, <1>4, <1>5, <1>6, <1>7, <1>8 DEF IInv, MapOK

\* A release by a holder.
LEMMA ReleaseKeeps ==
    ASSUME IInv, NEW s \in Object, NEW STATE h, h \in Holding(s), ReleaseObject(s),
           Holding(s)' = Holding(s) \ {h},
           \A p \in Object \ {s} : Holding(p)' = Holding(p),
           UNCHANGED <<object, taken>>, owned' \subseteq owned
    PROVE  MapOK' /\ RefsExact' /\ Untouched' /\ UNCHANGED deleted
<1>0. MapOK /\ RefsExact /\ Untouched /\ MapTypeOK
  BY Parts DEF MapOK
<1>1. mReferenceCount[s] \in Nat \ {0}
  BY <1>0, HeldIsLive
<1>2. /\ MapOK'
      /\ mReferenceCount' = [mReferenceCount EXCEPT ![s] = @ - 1]
      /\ deleted' = deleted
      /\ \A p \in Object : Gone(p)' => Gone(p) \/ p = s
  BY <1>0, <1>1, ReleaseEffect
<1>3. RefsExact'
  BY <1>0, <1>2, OneLess
<1>4. s \in taken
  BY <1>0, <1>1 DEF Untouched
<1>5. Untouched'
  BY <1>0, <1>2, <1>4 DEF Untouched, MapTypeOK
<1>6. QED
  BY <1>2, <1>3, <1>5

LEMMA UndoReleaseKeeps == ASSUME IInv, NEW w \in Worker, UndoRelease(w) PROVE IInv'
<1>0. TypeOK /\ Untouched /\ Turns /\ OwnedWhileUsed
  BY DEF IInv
<1>1. at[w] = "undoRelease" /\ dev[w] \in Object /\ dev[w] \in owned
         /\ dev[w] \notin mDeviceInfoList
  BY <1>0 DEF UndoRelease, TypeOK, OwnedWhileUsed, Scanner
<1>2. MapOK' /\ RefsExact' /\ Untouched'
  <2>0. PICK s \in Object : s = dev[w]
    BY <1>1
  <2>1. Device \in Holding(s)
    BY <2>0, <1>1 DEF Holding
  <2>2. Holding(s)' = Holding(s) \ {Device}
    BY <2>0, <1>0, <1>1, ThreadsDiffer DEF Holding, UndoRelease, GotoOn, TypeOK, Remover
  <2>3. \A p \in Object \ {s} : Holding(p)' = Holding(p)
    BY <2>0, <1>0, <1>1 DEF Holding, UndoRelease, GotoOn, TypeOK, Remover
  <2>4. QED
    BY <2>0, <1>1, <2>1, <2>2, <2>3, ReleaseKeeps DEF UndoRelease
<1>3. TypeOK'
  BY <1>0, <1>1, <1>2, NobodyDiffers DEF TypeOK, MapOK, UndoRelease, GotoOn
<1>4. Turns'
  BY <1>0 DEF Turns, UndoRelease, TypeOK, GotoOn, Remover
<1>5. OwnedWhileUsed'
  <2>1. \A v \in Worker : v # w => at[v] = "idle"
    BY <1>0, <1>1 DEF Turns, Worker
  <2>2. QED
    BY <1>0, <1>1, <2>1 DEF OwnedWhileUsed, UndoRelease, TypeOK, GotoOn, Scanner
<1>6. QED
  BY <1>2, <1>3, <1>4, <1>5 DEF IInv, MapOK

LEMMA DropCreationKeeps == ASSUME IInv, DropCreation PROVE IInv'
<1>0. TypeOK /\ Untouched /\ Turns /\ OwnedWhileUsed /\ Queue \in Worker
  BY DEF IInv, Worker
<1>1. at[Queue] = "drop" /\ dev[Queue] \in Object /\ dev[Queue] \in owned
         /\ dev[Queue] \notin mDeviceInfoList
  BY <1>0 DEF DropCreation, TypeOK, OwnedWhileUsed
<1>2. MapOK' /\ RefsExact' /\ Untouched'
  <2>0. PICK s \in Object : s = dev[Queue]
    BY <1>1
  <2>1. Device \in Holding(s)
    BY <2>0, <1>1 DEF Holding
  <2>2. Holding(s)' = Holding(s) \ {Device}
    BY <2>0, <1>0, <1>1, ThreadsDiffer DEF Holding, DropCreation, Goto, TypeOK, Remover
  <2>3. \A p \in Object \ {s} : Holding(p)' = Holding(p)
    BY <2>0, <1>0, <1>1 DEF Holding, DropCreation, Goto, TypeOK, Remover
  <2>4. QED
    BY <2>0, <1>1, <2>1, <2>2, <2>3, ReleaseKeeps DEF DropCreation
<1>3. TypeOK'
  BY <1>0, <1>1, <1>2 DEF TypeOK, MapOK, DropCreation, Goto, Remover
<1>4. Turns'
  BY <1>0, <1>1, ThreadsDiffer DEF Turns, DropCreation, TypeOK, Goto
<1>5. OwnedWhileUsed'
  <2>1. \A v \in Worker : v # Queue => at[v] = "idle"
    BY <1>0, <1>1 DEF Turns, Worker
  <2>2. QED
    BY <1>0, <1>1, <2>1 DEF OwnedWhileUsed, DropCreation, TypeOK, Goto, Scanner
<1>6. QED
  BY <1>2, <1>3, <1>4, <1>5 DEF IInv, MapOK

LEMMA DropReferenceKeeps == ASSUME IInv, DropReference PROVE IInv'
<1>0. TypeOK /\ Untouched /\ Turns /\ OwnedWhileUsed /\ Queue \in Worker
  BY DEF IInv, Worker
<1>1. at[Queue] = "dropRef" /\ dev[Queue] \in Object
  BY <1>0 DEF DropReference, TypeOK
<1>2. MapOK' /\ RefsExact' /\ Untouched'
  <2>0. PICK s \in Object : s = dev[Queue]
    BY <1>1
  <2>1. Queue \in Holding(s)
    BY <2>0, <1>0, <1>1 DEF Holding, Remover
  <2>2. Holding(s)' = Holding(s) \ {Queue}
    BY <2>0, <1>0, <1>1, ThreadsDiffer, NobodyDiffers
       DEF Holding, DropReference, GotoOn, TypeOK, Remover
  <2>3. \A p \in Object \ {s} : Holding(p)' = Holding(p)
    BY <2>0, <1>0, <1>1 DEF Holding, DropReference, GotoOn, TypeOK, Remover
  <2>4. QED
    BY <2>0, <1>1, <2>1, <2>2, <2>3, ReleaseKeeps DEF DropReference
<1>3. TypeOK'
  BY <1>0, <1>1, <1>2, NobodyDiffers DEF TypeOK, MapOK, DropReference, GotoOn
<1>4. Turns'
  BY <1>0, <1>1, ThreadsDiffer DEF Turns, DropReference, TypeOK, GotoOn
<1>5. OwnedWhileUsed'
  BY <1>0, <1>1 DEF OwnedWhileUsed, DropReference, TypeOK, GotoOn, Scanner
<1>6. QED
  BY <1>2, <1>3, <1>4, <1>5 DEF IInv, MapOK

LEMMA ReturnKeeps == ASSUME IInv, NEW c \in Client, Return(c) PROVE IInv'
<1>0. TypeOK /\ Untouched /\ Turns /\ OwnedWhileUsed
  BY DEF IInv
<1>1. using[c] \in Object
  BY <1>0 DEF Return, TypeOK
<1>2. MapOK' /\ RefsExact' /\ Untouched'
  <2>0. PICK s \in Object : s = using[c]
    BY <1>1
  <2>1. c \in Holding(s)
    BY <2>0 DEF Holding
  <2>2. Holding(s)' = Holding(s) \ {c}
    BY <2>0, <1>0, <1>1, ThreadsDiffer, NobodyDiffers DEF Holding, Return, TypeOK
  <2>3. \A p \in Object \ {s} : Holding(p)' = Holding(p)
    BY <2>0, <1>0, <1>1, NobodyDiffers DEF Holding, Return, TypeOK
  <2>4. QED
    BY <2>0, <1>1, <2>1, <2>2, <2>3, ReleaseKeeps DEF Return
<1>3. TypeOK'
  BY <1>0, <1>1, <1>2 DEF TypeOK, MapOK, Return
<1>4. Turns' /\ OwnedWhileUsed'
  BY <1>0 DEF Turns, OwnedWhileUsed, Return
<1>5. QED
  BY <1>2, <1>3, <1>4 DEF IInv, MapOK

\* A lookup that succeeds gives its caller a reference.
LEMMA CopyKeeps ==
    ASSUME IInv, NEW s \in Object, NEW name \in Part \cup {Device}, NEW h,
           CopyObjectByObjectID(<<s, name>>, s), h \notin Holding(s),
           Holding(s)' = Holding(s) \cup {h},
           \A p \in Object \ {s} : Holding(p)' = Holding(p),
           UNCHANGED <<object, taken, owned>>
    PROVE  MapOK' /\ RefsExact' /\ Untouched' /\ UNCHANGED deleted
<1>0. MapOK /\ RefsExact /\ Untouched /\ MapTypeOK
  BY Parts DEF MapOK
<1>1. /\ MapOK'
      /\ mReferenceCount[s] \in Nat \ {0}
      /\ mReferenceCount' = [mReferenceCount EXCEPT ![s] = @ + 1]
      /\ UNCHANGED <<mObjectIDList, disposing, deleted>>
  BY <1>0, CopyEffect
<1>2. RefsExact'
  BY <1>0, <1>1, OneMore
<1>3. s \in taken
  BY <1>0, <1>1 DEF Untouched
<1>4. Untouched'
  BY <1>0, <1>1, <1>3 DEF Untouched, MapTypeOK, Gone
<1>5. QED
  BY <1>1, <1>2, <1>4

LEMMA CallKeeps ==
    ASSUME IInv, NEW c \in Client, NEW s \in Object, NEW name \in Part \cup {Device},
           Call(c, s, name)
    PROVE  IInv'
<1>0. TypeOK /\ Untouched /\ Turns /\ OwnedWhileUsed
  BY DEF IInv
<1>1. MapOK' /\ RefsExact' /\ Untouched'
  <2>1. c \notin Holding(s)
    BY <1>0, ThreadsDiffer, NobodyDiffers DEF Holding, Call
  <2>2. Holding(s)' = Holding(s) \cup {c}
    BY <1>0 DEF Holding, Call, TypeOK
  <2>3. \A p \in Object \ {s} : Holding(p)' = Holding(p)
    BY <1>0, NobodyDiffers DEF Holding, Call, TypeOK
  <2>4. QED
    BY <2>1, <2>2, <2>3, CopyKeeps DEF Call
<1>2. TypeOK'
  BY <1>0, <1>1 DEF TypeOK, MapOK, Call
<1>3. Turns' /\ OwnedWhileUsed'
  BY <1>0 DEF Turns, OwnedWhileUsed, Call
<1>4. QED
  BY <1>1, <1>2, <1>3 DEF IInv, MapOK

LEMMA InterestMessageKeeps ==
    ASSUME IInv, NEW s \in Object, InterestMessage(s) PROVE IInv'
<1>0. TypeOK /\ Untouched /\ Turns /\ OwnedWhileUsed /\ Queue \in Worker
  BY DEF IInv, Worker
<1>1. CASE /\ s \in mDeviceInfoList
           /\ CopyObjectByObjectID(<<s, Device>>, s)
           /\ GotoOn(Queue, "remove", s)
  <2>1. MapOK' /\ RefsExact' /\ Untouched'
    <3>1. Queue \notin Holding(s)
      BY <1>0, ThreadsDiffer DEF Holding, InterestMessage, Remover
    <3>2. Holding(s)' = Holding(s) \cup {Queue}
      BY <1>0, <1>1 DEF Holding, InterestMessage, GotoOn, TypeOK, Remover
    <3>3. \A p \in Object \ {s} : Holding(p)' = Holding(p)
      BY <1>0, <1>1 DEF Holding, InterestMessage, GotoOn, TypeOK, Remover
    <3>4. QED
      BY <1>1, <3>1, <3>2, <3>3, CopyKeeps DEF InterestMessage
  <2>2. TypeOK'
    BY <1>0, <1>1, <2>1, NobodyDiffers
       DEF TypeOK, MapOK, InterestMessage, GotoOn, Remover
  <2>3. Turns'
    BY <1>0, <1>1, ThreadsDiffer DEF Turns, InterestMessage, GotoOn, TypeOK
  <2>4. OwnedWhileUsed'
    BY <1>0, <1>1 DEF OwnedWhileUsed, InterestMessage, GotoOn, TypeOK, Scanner
  <2>5. QED
    BY <2>1, <2>2, <2>3, <2>4 DEF IInv, MapOK
<1>2. CASE UNCHANGED <<mapVars, at, dev>>
  <2>1. MapOK' /\ RefsExact'
    BY <1>2, QuietStep DEF InterestMessage, Holding
  <2>2. TypeOK'
    BY <1>0, <1>2, <2>1 DEF TypeOK, MapOK, InterestMessage
  <2>3. Untouched' /\ Turns' /\ OwnedWhileUsed'
    BY <1>0, <1>2 DEF Untouched, Turns, OwnedWhileUsed, InterestMessage, mapVars, Gone
  <2>4. QED
    BY <2>1, <2>2, <2>3 DEF IInv, MapOK
<1>3. QED
  BY <1>1, <1>2 DEF InterestMessage

LEMMA DestroyKeeps == ASSUME IInv, NEW s \in Object, Destroy(s) PROVE IInv'
<1>0. TypeOK /\ Untouched /\ Turns /\ OwnedWhileUsed /\ MapOK /\ RefsExact
  BY Parts
<1>1. /\ MapOK'
      /\ UNCHANGED mReferenceCount
      /\ \A p \in Object : Gone(p)' => Gone(p)
  BY <1>0, DestroyEffect DEF Destroy
<1>2. RefsExact'
  <2>1. \A p \in Object : Holding(p)' = Holding(p)
    BY DEF Destroy, Holding
  <2>2. QED
    BY <1>0, <1>1, <2>1, SameHolders
<1>3. TypeOK'
  BY <1>0, <1>1 DEF TypeOK, MapOK, Destroy
<1>4. Untouched'
  BY <1>0, <1>1 DEF Untouched, Destroy
<1>5. Turns' /\ OwnedWhileUsed'
  BY <1>0 DEF Turns, OwnedWhileUsed, Destroy
<1>6. QED
  BY <1>1, <1>2, <1>3, <1>4, <1>5 DEF IInv, MapOK

----------------------------------------------------------------------------
(* Induction.                                                              *)

LEMMA InitInv == Init => IInv
<1> SUFFICES ASSUME Init PROVE IInv
  OBVIOUS
<1>1. \A s \in Object : Holding(s) = {}
  BY NobodyDiffers DEF Init, Holding, Remover
<1>2. RefsExact
  BY <1>1, FS_EmptySet DEF RefsExact, Init, MapInit
<1>3. TypeOK
  BY DEF TypeOK, MapTypeOK, Init, MapInit
<1>4. NamesOwn /\ MapHoldsLiveDevices /\ Untouched
  BY DEF NamesOwn, MapHoldsLiveDevices, Untouched, Init, MapInit, InMap, Gone
<1>5. Turns /\ OwnedWhileUsed
  BY DEF Turns, OwnedWhileUsed, Init, MapInit, Remover, Scanner, Worker
<1>6. QED
  BY <1>2, <1>3, <1>4, <1>5 DEF IInv

LEMMA StutterKeeps == ASSUME IInv, UNCHANGED vars PROVE IInv'
<1>1. MapOK' /\ RefsExact'
  BY QuietStep DEF vars, Holding
<1>2. TypeOK' /\ Untouched' /\ Turns' /\ OwnedWhileUsed'
  BY <1>1 DEF IInv, MapOK, TypeOK, Untouched, Turns, OwnedWhileUsed, vars, mapVars, Gone
<1>3. QED
  BY <1>1, <1>2 DEF IInv, MapOK

LEMMA Inductive == ASSUME ~EarlyUnplug PROVE IInv /\ [Next]_vars => IInv'
<1> SUFFICES ASSUME IInv, [Next]_vars PROVE IInv'
  OBVIOUS
<1>1. ASSUME NEW s \in Object, Arrive(s) \/ Terminate(s) \/ Destroy(s) PROVE IInv'
  BY <1>1, ArriveKeeps, TerminateKeeps, DestroyKeeps
<1>2. ASSUME NEW w \in Worker, MatchingStep(w) PROVE IInv'
  BY <1>2, TakeServiceKeeps, AddDeviceKeeps, OpenDeviceKeeps, MapPartsKeeps, UndoKeeps,
     UndoReleaseKeeps DEF MatchingStep
<1>3. CASE EndScan
  BY <1>3, EndScanKeeps
<1>4. CASE InterestStep
  BY <1>4, InterestMessageKeeps, RemoveDeviceKeeps, DeactivateKeeps, UnmapPartsKeeps,
     DropCreationKeeps, DropReferenceKeeps DEF InterestStep
<1>5. ASSUME NEW c \in Client, NEW s \in Object, NEW name \in Part \cup {Device},
             Call(c, s, name)
      PROVE  IInv'
  BY <1>5, CallKeeps
<1>6. ASSUME NEW c \in Client, Return(c) PROVE IInv'
  BY <1>6, ReturnKeeps
<1>7. CASE UNCHANGED vars
  BY <1>7, StutterKeeps
<1>8. QED
  BY <1>1, <1>2, <1>3, <1>4, <1>5, <1>6, <1>7 DEF Next

----------------------------------------------------------------------------
(* The results.  All assume that no service terminates during the startup  *)
(* scan.                                                                   *)

\* The conjunction is an invariant of the plug-in.
THEOREM Invariance == ASSUME ~EarlyUnplug PROVE Spec => []IInv
BY InitInv, Inductive, PTL DEF Spec

\* Every variable keeps its type; an object in the map has an ID and a reference.
THEOREM TypeCorrect == ASSUME ~EarlyUnplug PROVE Spec => []TypeOK
<1>1. IInv => TypeOK
  BY DEF IInv
<1>2. QED
  BY <1>1, Invariance, PTL

\* The reference count in the map is the number of holders.
THEOREM CountsExact == ASSUME ~EarlyUnplug PROVE Spec => []RefsExact
<1>1. IInv => RefsExact
  BY DEF IInv
<1>2. QED
  BY <1>1, Invariance, PTL

\* No handler and no client works on a device that is deleted or about to be.
THEOREM UseIsSafe == ASSUME ~EarlyUnplug PROVE Spec => []NoUseAfterDelete
<1>1. IInv => NoUseAfterDelete
  <2> SUFFICES ASSUME IInv PROVE NoUseAfterDelete
    OBVIOUS
  <2>1. \A w \in Worker : at[w] # "idle" => ~Gone(dev[w])
    BY WorkerHolds
  <2>2. ASSUME NEW c \in Client, using[c] # Nobody PROVE ~Gone(using[c])
    <3>1. using[c] \in Object /\ c \in Holding(using[c])
      BY <2>2 DEF IInv, TypeOK, Holding
    <3>2. QED
      BY <3>1, HeldIsLive, Parts
  <2>3. QED
    BY <2>1, <2>2 DEF NoUseAfterDelete
<1>2. QED
  BY <1>1, Invariance, PTL

\* A lookup never finds a device that a queued block will delete, and no device is
\* disposed of twice.
THEOREM MapIsLive == ASSUME ~EarlyUnplug PROVE Spec => []MapHoldsLiveDevices
<1>1. IInv => MapHoldsLiveDevices
  BY DEF IInv
<1>2. QED
  BY <1>1, Invariance, PTL

\* Every device in the list can be looked up by its ID.
THEOREM ListIsMapped == ASSUME ~EarlyUnplug PROVE Spec => []ListedResolves
<1>1. IInv => ListedResolves
  <2> SUFFICES ASSUME IInv, NEW s \in mDeviceInfoList
               PROVE  s \in owned /\ <<s, Device>> \in mObjectIDList[s]
    BY DEF ListedResolves
  <2>1. s \in Object /\ s \in owned
    BY DEF IInv, TypeOK, OwnedWhileUsed
  <2>2. InMap(s)
    BY <2>1, HeldIsLive, Parts DEF Holding
  <2>3. QED
    BY <2>1, <2>2 DEF IInv, NamesOwn
<1>2. QED
  BY <1>1, Invariance, PTL

----------------------------------------------------------------------------
(* The refinement of the table of counted handles.                         *)

StateOf(s) == IF s \in deleted THEN "destroyed"
              ELSE IF object[s] = "none" THEN "unborn" ELSE "alive"
States == [s \in Object |-> StateOf(s)]
Holdings == [s \in Object |-> Holding(s)]

\* A step that changes neither is a stutter of the table.
LEMMA SameHandles ==
    ASSUME \A s \in Object : StateOf(s)' = StateOf(s) /\ Holding(s)' = Holding(s)
    PROVE  [Handles!Next]_Handles!hvars
<1>1. States' = States /\ Holdings' = Holdings
  BY DEF States, Holdings
<1>2. QED
  BY <1>1 DEF States, Holdings, StateOf, Handles!hvars

\* A holder joins or leaves.
LEMMA TakeHandle ==
    ASSUME IInv, NEW s \in Object, NEW h \in Client \cup Worker \cup {Device},
           Holding(s) # {}, h \notin Holding(s), Holding(s)' = Holding(s) \cup {h},
           \A p \in Object \ {s} : Holding(p)' = Holding(p),
           \A p \in Object : StateOf(p)' = StateOf(p)
    PROVE  [Handles!Next]_Handles!hvars
<1>1. States' = States /\ Holdings' = [Holdings EXCEPT ![s] = @ \cup {h}]
  BY DEF States, Holdings
<1>2. Handles!Take(s, h)
  BY <1>1 DEF Handles!Take, States, Holdings, StateOf
<1>3. QED
  BY <1>2 DEF Handles!Next

LEMMA DropHandle ==
    ASSUME IInv, NEW s \in Object, NEW h \in Client \cup Worker \cup {Device},
           h \in Holding(s), Holding(s)' = Holding(s) \ {h},
           \A p \in Object \ {s} : Holding(p)' = Holding(p),
           \A p \in Object : StateOf(p)' = StateOf(p)
    PROVE  [Handles!Next]_Handles!hvars
<1>1. States' = States /\ Holdings' = [Holdings EXCEPT ![s] = @ \ {h}]
  BY DEF States, Holdings
<1>2. Handles!Drop(s, h)
  BY <1>1 DEF Handles!Drop, States, Holdings, StateOf
<1>3. QED
  BY <1>2 DEF Handles!Next

LEMMA CreateHandle ==
    ASSUME IInv, NEW w \in Worker, NEW s \in Object, TakeService(w, s)
    PROVE  [Handles!Next]_Handles!hvars
<1>0. TypeOK /\ Untouched /\ MapOK /\ RefsExact
  BY Parts
<1>1. /\ object[s] = "none" /\ mReferenceCount[s] = 0 /\ ~Gone(s) /\ s \notin owned
  BY <1>0 DEF Untouched, TakeService
<1>2. Holding(s) = {}
  <2>1. Cardinality(Holding(s)) = 0
    BY <1>0, <1>1 DEF RefsExact
  <2>2. QED
    BY <2>1, HoldingFinite, FS_EmptySet
<1>3. deleted' = deleted
  BY <1>0, <1>1, NewEffect DEF TakeService
<1>4. Holding(s)' = {Device} /\ \A p \in Object \ {s} : Holding(p)' = Holding(p)
  <2>1. \A p \in Object \ {s} : Holding(p)' = Holding(p)
    BY <1>0, <1>1 DEF Holding, TakeService, GotoOn, TypeOK, Scanner, Remover
  <2>2. Holding(s)' = Holding(s) \cup {Device}
    BY <1>0, <1>1 DEF Holding, TakeService, GotoOn, TypeOK, Scanner, Remover
  <2>3. QED
    BY <1>2, <2>1, <2>2
<1>5. StateOf(s)' = "alive" /\ \A p \in Object \ {s} : StateOf(p)' = StateOf(p)
  BY <1>0, <1>1, <1>3 DEF StateOf, TakeService, TypeOK, Gone
<1>6. /\ States[s] = "unborn" /\ States' = [States EXCEPT ![s] = "alive"]
      /\ Holdings' = [Holdings EXCEPT ![s] = {Device}]
  BY <1>1, <1>4, <1>5 DEF States, Holdings, StateOf, Gone
<1>7. Handles!Create(s)
  BY <1>6 DEF Handles!Create, States, Holdings, StateOf
<1>8. QED
  BY <1>7 DEF Handles!Next

LEMMA DestroyHandle ==
    ASSUME IInv, NEW s \in Object, Destroy(s) PROVE [Handles!Next]_Handles!hvars
<1>0. TypeOK /\ Untouched /\ MapOK /\ RefsExact
  BY Parts
<1>1. /\ deleted' = deleted \cup {s} /\ s \notin deleted /\ mReferenceCount[s] = 0
  BY <1>0, DestroyEffect DEF Destroy
<1>2. disposing[s] > 0 /\ object' = object
  BY DEF Destroy, DestroyObject
<1>3. s \in taken /\ object[s] # "none"
  BY <1>0, <1>2 DEF Untouched, Gone
<1>4. Holding(s) = {}
  BY <1>0, <1>1, HeldIsLive
<1>5. \A p \in Object : Holding(p)' = Holding(p)
  BY DEF Destroy, Holding
<1>6. /\ States[s] = "alive" /\ States' = [States EXCEPT ![s] = "destroyed"]
      /\ Holdings' = Holdings
  BY <1>1, <1>2, <1>3, <1>5 DEF States, Holdings, StateOf
<1>7. Handles!Destroy(s)
  BY <1>4, <1>6 DEF Handles!Destroy, States, Holdings, StateOf
<1>8. QED
  BY <1>7 DEF Handles!Next

\* The steps of the workers that take or drop nothing.
LEMMA WorkerStutters ==
    ASSUME IInv,
           \/ EndScan \/ RemoveDevice \/ Deactivate \/ UnmapParts
           \/ \E w \in Worker : AddDevice(w) \/ OpenDevice(w) \/ MapParts(w) \/ Undo(w)
    PROVE  [Handles!Next]_Handles!hvars
<1>0. TypeOK /\ Untouched /\ OwnedWhileUsed /\ MapOK /\ Queue \in Worker
  BY Parts DEF Worker
<1>1. deleted' = deleted
  BY DEF EndScan, RemoveDevice, Deactivate, UnmapParts, AddDevice, OpenDevice, MapParts,
         Undo, mapVars, MapName, MapObject, UnmapName, UnmapObject, Erase
<1>2. \A s \in Object : object[s] = "none" <=> object'[s] = "none"
  <2>1. ASSUME NEW w \in Worker, at[w] \in {"map", "deactivate"}
        PROVE  dev[w] \in Object /\ object[dev[w]] # "none"
    BY <1>0, <2>1, WorkerHolds DEF OwnedWhileUsed, Scanner, Untouched
  <2>2. CASE object' = object
    BY <2>2
  <2>3. CASE Deactivate
    BY <1>0, <2>1, <2>3 DEF Deactivate, TypeOK
  <2>4. ASSUME NEW w \in Worker, MapParts(w)
        PROVE  \A s \in Object : object[s] = "none" <=> object'[s] = "none"
    BY <1>0, <2>1, <2>4 DEF MapParts, TypeOK
  <2>5. QED
    BY <2>2, <2>3, <2>4 DEF EndScan, RemoveDevice, UnmapParts, AddDevice, OpenDevice, Undo
<1>3. \A s \in Object : StateOf(s)' = StateOf(s)
  BY <1>1, <1>2 DEF StateOf
<1>4. \A s \in Object : Holding(s)' = Holding(s)
  <2>1. CASE EndScan
    BY <2>1 DEF EndScan, Holding
  <2>2. CASE RemoveDevice \/ Deactivate \/ UnmapParts
    BY <1>0, <2>2 DEF RemoveDevice, Deactivate, UnmapParts, Goto, Holding, TypeOK, Remover
  <2>3. ASSUME NEW w \in Worker, AddDevice(w) \/ OpenDevice(w) \/ Undo(w)
        PROVE  \A s \in Object : Holding(s)' = Holding(s)
    BY <1>0, <2>3 DEF AddDevice, OpenDevice, Undo, Goto, Holding, TypeOK, Remover
  <2>4. ASSUME NEW w \in Worker, MapParts(w)
        PROVE  \A s \in Object : Holding(s)' = Holding(s)
    BY <1>0, <2>4 DEF MapParts, GotoOn, Holding, TypeOK, Remover
  <2>5. QED
    BY <2>1, <2>2, <2>3, <2>4
<1>5. QED
  BY <1>3, <1>4, SameHandles

\* The steps that take or drop a reference.
LEMMA ReferenceSteps ==
    ASSUME IInv,
           \/ \E w \in Worker : UndoRelease(w)
           \/ DropCreation \/ DropReference
           \/ \E s \in Object : InterestMessage(s)
           \/ \E c \in Client : Return(c)
           \/ \E c \in Client, s \in Object, name \in Part \cup {Device} : Call(c, s, name)
    PROVE  [Handles!Next]_Handles!hvars
<1>0. TypeOK /\ OwnedWhileUsed /\ MapOK /\ RefsExact /\ Queue \in Worker
  BY Parts DEF Worker
<1>1. ASSUME UNCHANGED object, UNCHANGED deleted
      PROVE  \A p \in Object : StateOf(p)' = StateOf(p)
  BY <1>1 DEF StateOf
<1>2. ASSUME NEW s \in Object, NEW h, h \in Holding(s), ReleaseObject(s)
      PROVE  UNCHANGED deleted
  <2>1. mReferenceCount[s] # 0
    BY <1>0, <1>2, HeldIsLive
  <2>2. QED
    BY <1>0, <1>2, <2>1, ReleaseEffect
<1>3. ASSUME NEW w \in Worker, UndoRelease(w) PROVE [Handles!Next]_Handles!hvars
  <2>1. PICK s \in Object : s = dev[w] /\ s \in owned
    BY <1>0, <1>3 DEF UndoRelease, TypeOK, OwnedWhileUsed, Scanner
  <2>2. Device \in Holding(s)
    BY <2>1 DEF Holding
  <2>3. Holding(s)' = Holding(s) \ {Device}
    BY <1>0, <1>3, <2>1, ThreadsDiffer DEF Holding, UndoRelease, GotoOn, TypeOK, Remover
  <2>4. \A p \in Object \ {s} : Holding(p)' = Holding(p)
    BY <1>0, <1>3, <2>1 DEF Holding, UndoRelease, GotoOn, TypeOK, Remover
  <2>5. \A p \in Object : StateOf(p)' = StateOf(p)
    BY <1>1, <1>2, <1>3, <2>1, <2>2 DEF UndoRelease
  <2>6. QED
    BY <2>2, <2>3, <2>4, <2>5, DropHandle
<1>4. ASSUME DropCreation PROVE [Handles!Next]_Handles!hvars
  <2>1. PICK s \in Object : s = dev[Queue] /\ s \in owned
    BY <1>0, <1>4 DEF DropCreation, TypeOK, OwnedWhileUsed
  <2>2. Device \in Holding(s)
    BY <2>1 DEF Holding
  <2>3. Holding(s)' = Holding(s) \ {Device}
    BY <1>0, <1>4, <2>1, ThreadsDiffer DEF Holding, DropCreation, Goto, TypeOK, Remover
  <2>4. \A p \in Object \ {s} : Holding(p)' = Holding(p)
    BY <1>0, <1>4, <2>1 DEF Holding, DropCreation, Goto, TypeOK, Remover
  <2>5. \A p \in Object : StateOf(p)' = StateOf(p)
    BY <1>1, <1>2, <1>4, <2>1, <2>2 DEF DropCreation
  <2>6. QED
    BY <2>2, <2>3, <2>4, <2>5, DropHandle
<1>5. ASSUME DropReference PROVE [Handles!Next]_Handles!hvars
  <2>1. PICK s \in Object : s = dev[Queue]
    BY <1>0, <1>5 DEF DropReference, TypeOK
  <2>2. Queue \in Holding(s)
    BY <1>0, <1>5, <2>1 DEF Holding, DropReference, Remover
  <2>3. Holding(s)' = Holding(s) \ {Queue}
    BY <1>0, <1>5, <2>1, ThreadsDiffer, NobodyDiffers
       DEF Holding, DropReference, GotoOn, TypeOK, Remover
  <2>4. \A p \in Object \ {s} : Holding(p)' = Holding(p)
    BY <1>0, <1>5, <2>1 DEF Holding, DropReference, GotoOn, TypeOK, Remover
  <2>5. \A p \in Object : StateOf(p)' = StateOf(p)
    BY <1>1, <1>2, <1>5, <2>1, <2>2 DEF DropReference
  <2>6. QED
    BY <1>0, <2>2, <2>3, <2>4, <2>5, DropHandle
<1>6. ASSUME NEW c \in Client, Return(c) PROVE [Handles!Next]_Handles!hvars
  <2>1. PICK s \in Object : s = using[c]
    BY <1>0, <1>6 DEF Return, TypeOK
  <2>2. c \in Holding(s)
    BY <2>1 DEF Holding
  <2>3. Holding(s)' = Holding(s) \ {c}
    BY <1>0, <1>6, <2>1, ThreadsDiffer, NobodyDiffers DEF Holding, Return, TypeOK
  <2>4. \A p \in Object \ {s} : Holding(p)' = Holding(p)
    BY <1>0, <1>6, <2>1, NobodyDiffers DEF Holding, Return, TypeOK
  <2>5. \A p \in Object : StateOf(p)' = StateOf(p)
    BY <1>1, <1>2, <1>6, <2>1, <2>2 DEF Return
  <2>6. QED
    BY <2>2, <2>3, <2>4, <2>5, DropHandle
<1>7. ASSUME NEW s \in Object, NEW name \in Part \cup {Device},
             CopyObjectByObjectID(<<s, name>>, s)
      PROVE  Holding(s) # {} /\ UNCHANGED deleted
  <2>1. mReferenceCount[s] # 0 /\ UNCHANGED deleted
    BY <1>0, <1>7, CopyEffect
  <2>2. QED
    BY <1>0, <2>1, HoldingFinite, FS_EmptySet DEF RefsExact
<1>8. ASSUME NEW c \in Client, NEW s \in Object, NEW name \in Part \cup {Device},
             Call(c, s, name)
      PROVE  [Handles!Next]_Handles!hvars
  <2>1. Holding(s) # {} /\ UNCHANGED deleted
    BY <1>7, <1>8 DEF Call
  <2>2. c \notin Holding(s)
    BY <1>0, <1>8, ThreadsDiffer, NobodyDiffers DEF Holding, Call
  <2>3. Holding(s)' = Holding(s) \cup {c}
    BY <1>0, <1>8 DEF Holding, Call, TypeOK
  <2>4. \A p \in Object \ {s} : Holding(p)' = Holding(p)
    BY <1>0, <1>8, NobodyDiffers DEF Holding, Call, TypeOK
  <2>5. \A p \in Object : StateOf(p)' = StateOf(p)
    BY <1>1, <1>8, <2>1 DEF Call
  <2>6. QED
    BY <2>1, <2>2, <2>3, <2>4, <2>5, TakeHandle
<1>9. ASSUME NEW s \in Object, InterestMessage(s) PROVE [Handles!Next]_Handles!hvars
  <2>1. CASE CopyObjectByObjectID(<<s, Device>>, s) /\ GotoOn(Queue, "remove", s)
    <3>1. Holding(s) # {} /\ UNCHANGED deleted
      BY <1>7, <2>1
    <3>2. Queue \notin Holding(s)
      BY <1>0, <1>9, ThreadsDiffer DEF Holding, InterestMessage, Remover
    <3>3. Holding(s)' = Holding(s) \cup {Queue}
      BY <1>0, <1>9, <2>1 DEF Holding, InterestMessage, GotoOn, TypeOK, Remover
    <3>4. \A p \in Object \ {s} : Holding(p)' = Holding(p)
      BY <1>0, <1>9, <2>1 DEF Holding, InterestMessage, GotoOn, TypeOK, Remover
    <3>5. \A p \in Object : StateOf(p)' = StateOf(p)
      BY <1>1, <1>9, <3>1 DEF InterestMessage
    <3>6. QED
      BY <1>0, <3>1, <3>2, <3>3, <3>4, <3>5, TakeHandle
  <2>2. CASE UNCHANGED <<mapVars, at, dev>>
    BY <1>1, <1>9, <2>2, SameHandles DEF InterestMessage, Holding, mapVars
  <2>3. QED
    BY <1>9, <2>1, <2>2 DEF InterestMessage
<1>10. QED
  BY <1>3, <1>4, <1>5, <1>6, <1>8, <1>9

LEMMA StepRefines ==
    ASSUME IInv, [Next]_vars PROVE [Handles!Next]_Handles!hvars
<1>1. CASE \/ UNCHANGED vars
           \/ \E s \in Object : Arrive(s) \/ Terminate(s)
  <2>1. UNCHANGED <<object, deleted, at, dev, using, owned>>
    BY <1>1 DEF vars, mapVars, Arrive, Terminate
  <2>2. QED
    BY <2>1, SameHandles DEF StateOf, Holding
<1>2. CASE \E s \in Object : Destroy(s)
  BY <1>2, DestroyHandle
<1>3. CASE \E w \in Worker : MatchingStep(w)
  BY <1>3, CreateHandle, WorkerStutters, ReferenceSteps DEF MatchingStep
<1>4. CASE EndScan \/ InterestStep
  BY <1>4, WorkerStutters, ReferenceSteps DEF InterestStep
<1>5. CASE \E c \in Client :
              \/ \E s \in Object, name \in Part \cup {Device} : Call(c, s, name)
              \/ Return(c)
  BY <1>5, ReferenceSteps
<1>6. QED
  BY <1>1, <1>2, <1>3, <1>4, <1>5 DEF Next

\* The plug-in implements a table of counted handles: a device is born held by its
\* creator, only something held is taken, and it is destroyed once, held by nobody.
THEOREM Refinement == ASSUME ~EarlyUnplug PROVE Spec => ImplementsHandles
<1>1. Init => Handles!Init
  BY NobodyDiffers DEF Init, MapInit, Handles!Init, Holding, Remover
<1>2. IInv /\ [Next]_vars => [Handles!Next]_Handles!hvars
  BY StepRefines
<1>3. QED
  BY <1>1, <1>2, Invariance, PTL DEF Spec, ImplementsHandles, Handles!Spec

=============================================================================

----------------------- MODULE IOKitTestPower_proofs -----------------------
(***************************************************************************)
(* The power driver's invariants for any finite set of readers.            *)
(***************************************************************************)
EXTENDS IOKitTestPower, FiniteSetTheorems, TLAPS

Reading == {r \in Readers : reader[r] = "reading"}

LEMMA ReadingFinite == IsFiniteSet(Reading) /\ Cardinality(Reading) \in Nat
<1>1. Reading \subseteq Readers
  BY DEF Reading
<1>2. QED
  BY <1>1, ReadersFinite, FS_Subset, FS_CardinalityType

\* No outstanding I/O means no reader at the device.
LEMMA NoneReading ==
    ASSUME CountsIO, m_outstandIO = 0
    PROVE  \A r \in Readers : reader[r] # "reading"
<1>1. Cardinality(Reading) = 0
  BY DEF CountsIO, Reading
<1>2. Reading = {}
  BY <1>1, ReadingFinite, FS_EmptySet
<1>3. QED
  BY <1>2 DEF Reading

\* Starting an I/O keeps the count.
LEMMA BeginCounts ==
    ASSUME TypeOK, CountsIO, NEW r \in Readers, reader[r] # "reading", BeginIO(r)
    PROVE  CountsIO' /\ m_outstandIO' \in Nat
<1>1. Reading' = Reading \cup {r} /\ r \notin Reading
  BY DEF Reading, BeginIO, Goto, TypeOK
<1>2. Cardinality(Reading') = Cardinality(Reading) + 1
  BY <1>1, ReadingFinite, FS_AddElement
<1>3. QED
  BY <1>2, ReadingFinite DEF CountsIO, Reading, BeginIO

\* Ending one keeps it, and there was one to end.
LEMMA EndCounts ==
    ASSUME TypeOK, CountsIO, NEW r \in Readers, EndIO(r)
    PROVE  CountsIO' /\ m_outstandIO' \in Nat
<1>1. Reading' = Reading \ {r} /\ r \in Reading
  BY DEF Reading, EndIO, Goto, TypeOK
<1>2. Cardinality(Reading') = Cardinality(Reading) - 1
  BY <1>1, ReadingFinite, FS_RemoveElement
<1>3. Cardinality(Reading) # 0
  BY <1>1, ReadingFinite, FS_EmptySet
<1>4. QED
  BY <1>2, <1>3, ReadingFinite DEF CountsIO, Reading, EndIO

\* Moving readers among the other locations keeps it.
LEMMA OthersCount ==
    ASSUME CountsIO, UNCHANGED m_outstandIO,
           \A r \in Readers : reader'[r] = "reading" <=> reader[r] = "reading"
    PROVE  CountsIO'
<1>1. Reading' = Reading
  BY DEF Reading
<1>2. QED
  BY <1>1 DEF CountsIO, Reading

----------------------------------------------------------------------------
(* The inductive invariant.                                                *)

\* Power management says "on" only of a device that is on, unless its answer is
\* stale: the driver records the state before the change is over.
OnMeansOn ==
    /\ pm = "settle" /\ target = kOnPowerState => m_devicePowerState = kOnPowerState
    /\ ~StaleTickle /\ pmState = kOnPowerState =>
          pm \in {"idle", "done"} /\ m_devicePowerState = kOnPowerState

\* Only a change to a lower state waits for I/O.
LowerDrains == Draining => target < kOnPowerState

IInv ==
    /\ TypeOK
    /\ CountsIO
    /\ OnMeansOn
    /\ LowerDrains
    /\ WaitersReadWhenOn
    /\ ~StaleTickle => ReadsWhenOn

LEMMA InitInv == Init => IInv
<1> SUFFICES ASSUME Init
             PROVE  IInv
  OBVIOUS
<1>1. TypeOK
  BY FreeNoReader DEF Init, TypeOK, PowerStates, kOffPowerState, kOnPowerState
<1>2. CountsIO
  <2>1. Reading = {}
    BY DEF Init, Reading
  <2>2. QED
    BY <2>1, FS_EmptySet DEF CountsIO, Init, Reading
<1>3. OnMeansOn /\ LowerDrains
  BY DEF Init, OnMeansOn, LowerDrains, Draining, kOffPowerState, kOnPowerState
<1>4. WaitersReadWhenOn /\ ReadsWhenOn
  BY DEF Init, WaitersReadWhenOn, ReadsWhenOn
<1>5. QED
  BY <1>1, <1>2, <1>3, <1>4 DEF IInv

\* The steps of power management.
LEMMA ChangeKeeps ==
    ASSUME IInv, BeginChange \/ DropRequest \/ ChangeStep
    PROVE  IInv'
<1> USE DEF IInv, PowerStates, kOffPowerState, kOnPowerState, OnMeansOn, LowerDrains, Draining
<1>1. CASE BeginChange
  <2>1. TypeOK' /\ OnMeansOn' /\ LowerDrains'
    <3>1. target' \in PowerStates /\ pmState' \in PowerStates
      BY <1>1, StaleTickleType DEF BeginChange, TypeOK
    <3>2. TypeOK'
      BY <1>1, <3>1 DEF BeginChange, TypeOK
    <3>3. OnMeansOn'
      BY <1>1, StaleTickleType DEF BeginChange, TypeOK
    <3>4. LowerDrains'
      BY <1>1 DEF BeginChange
    <3>5. QED
      BY <3>2, <3>3, <3>4
  <2>2. CountsIO'
    BY <1>1, OthersCount DEF BeginChange
  <2>3. WaitersReadWhenOn' /\ (~StaleTickle => ReadsWhenOn')
    BY <1>1 DEF BeginChange, WaitersReadWhenOn, ReadsWhenOn
  <2>4. QED
    BY <2>1, <2>2, <2>3
<1>2. CASE DropRequest
  <2>1. TypeOK' /\ OnMeansOn' /\ LowerDrains'
    BY <1>2 DEF DropRequest, TypeOK
  <2>2. CountsIO'
    BY <1>2, OthersCount DEF DropRequest
  <2>3. WaitersReadWhenOn' /\ (~StaleTickle => ReadsWhenOn')
    BY <1>2 DEF DropRequest, WaitersReadWhenOn, ReadsWhenOn
  <2>4. QED
    BY <2>1, <2>2, <2>3
<1>3. CASE LowerFirst
  <2>1. TypeOK' /\ OnMeansOn' /\ LowerDrains'
    <3>1. m_devicePowerState' \in PowerStates
      BY <1>3 DEF LowerFirst, TypeOK
    <3>2. pm' \in {"drain", "raise"} /\ (pm' = "drain" => target < kOnPowerState)
      BY <1>3 DEF LowerFirst, TypeOK
    <3>3. TypeOK'
      BY <1>3, <3>1, <3>2 DEF LowerFirst, TypeOK
    <3>4. OnMeansOn' /\ LowerDrains'
      BY <1>3, <3>2 DEF LowerFirst
    <3>5. QED
      BY <3>3, <3>4
  <2>2. CountsIO'
    BY <1>3, OthersCount DEF LowerFirst
  <2>3. m_devicePowerState = kOnPowerState =>
           m_devicePowerState' = kOnPowerState \/ Draining'
    BY <1>3 DEF LowerFirst, TypeOK
  <2>4. WaitersReadWhenOn' /\ (~StaleTickle => ReadsWhenOn')
    BY <1>3, <2>3 DEF LowerFirst, WaitersReadWhenOn, ReadsWhenOn
  <2>5. QED
    BY <2>1, <2>2, <2>4
<1>4. CASE DrainIO
  <2>1. TypeOK' /\ OnMeansOn' /\ LowerDrains'
    BY <1>4 DEF DrainIO, TypeOK
  <2>2. CountsIO'
    BY <1>4, OthersCount DEF DrainIO
  <2>3. Draining' \/ \A r \in Readers : reader'[r] # "reading"
    BY <1>4, NoneReading DEF DrainIO, IODone
  <2>4. WaitersReadWhenOn' /\ (~StaleTickle => ReadsWhenOn')
    BY <1>4, <2>3 DEF DrainIO, TypeOK, WaitersReadWhenOn, ReadsWhenOn
  <2>5. QED
    BY <2>1, <2>2, <2>4
<1>5. CASE RaiseLast
  <2>1. TypeOK' /\ OnMeansOn' /\ LowerDrains'
    BY <1>5 DEF RaiseLast, TypeOK
  <2>2. CountsIO'
    BY <1>5, OthersCount DEF RaiseLast
  <2>3. m_devicePowerState = kOnPowerState => m_devicePowerState' = kOnPowerState
    BY <1>5 DEF RaiseLast, TypeOK
  <2>4. WaitersReadWhenOn' /\ (~StaleTickle => ReadsWhenOn')
    BY <1>5, <2>3 DEF RaiseLast, WaitersReadWhenOn, ReadsWhenOn
  <2>5. QED
    BY <2>1, <2>2, <2>4
<1>6. CASE Settle
  <2>1. TypeOK' /\ OnMeansOn' /\ LowerDrains'
    BY <1>6 DEF Settle, TypeOK
  <2>2. CountsIO'
    BY <1>6, OthersCount DEF Settle
  <2>3. WaitersReadWhenOn' /\ (~StaleTickle => ReadsWhenOn')
    BY <1>6 DEF Settle, WaitersReadWhenOn, ReadsWhenOn
  <2>4. QED
    BY <2>1, <2>2, <2>3
<1>7. CASE PowerChangeDone
  <2>1. TypeOK' /\ OnMeansOn' /\ LowerDrains'
    BY <1>7 DEF PowerChangeDone, TypeOK
  <2>2. \A r \in Readers : reader'[r] = "reading" <=> reader[r] = "reading"
    BY <1>7 DEF PowerChangeDone
  <2>3. CountsIO'
    BY <1>7, <2>2, OthersCount DEF PowerChangeDone
  <2>4. WaitersReadWhenOn' /\ (~StaleTickle => ReadsWhenOn')
    BY <1>7, <2>2 DEF PowerChangeDone, TypeOK, WaitersReadWhenOn, ReadsWhenOn
  <2>5. QED
    BY <2>1, <2>3, <2>4
<1>8. QED
  BY <1>1, <1>2, <1>3, <1>4, <1>5, <1>6, <1>7 DEF ChangeStep

\* The steps of a reader.
LEMMA ReaderKeeps ==
    ASSUME IInv, NEW r \in Readers, ReaderStep(r)
    PROVE  IInv'
<1> USE DEF IInv, PowerStates, kOffPowerState, kOnPowerState, OnMeansOn, LowerDrains, Draining
<1>1. CASE Tickle(r) /\ pmState = kOnPowerState
  <2>1. BeginIO(r) /\ waited' = waited \ {r} /\ m_lock = Free /\ reader[r] = "idle"
    BY <1>1 DEF Tickle
  <2>2. UNCHANGED <<m_devicePowerState, pm, target, pmState, wantOn>>
    BY <1>1 DEF Tickle
  <2>3. CountsIO' /\ m_outstandIO' \in Nat
    BY <2>1, BeginCounts
  <2>4. TypeOK'
    BY <2>1, <2>2, <2>3, FreeNoReader DEF TypeOK, BeginIO, Goto
  <2>5. WaitersReadWhenOn' /\ (~StaleTickle => ReadsWhenOn')
    BY <1>1, <2>1, <2>2 DEF BeginIO, Goto, TypeOK, WaitersReadWhenOn, ReadsWhenOn
  <2>6. QED
    BY <2>2, <2>3, <2>4, <2>5
<1>2. CASE Tickle(r) /\ pmState # kOnPowerState
  <2>1. /\ Goto(r, "testing") /\ waited' = waited \cup {r} /\ m_lock = Free /\ m_lock' = r
        /\ wantOn' = TRUE /\ reader[r] = "idle"
        /\ UNCHANGED <<m_outstandIO, m_devicePowerState, pm, target, pmState>>
    BY <1>2 DEF Tickle
  <2>2. TypeOK'
    BY <2>1, FreeNoReader DEF TypeOK, Goto
  <2>3. \A q \in Readers : reader'[q] = "reading" <=> reader[q] = "reading"
    BY <2>1 DEF TypeOK, Goto
  <2>4. CountsIO'
    BY <2>1, <2>3, OthersCount
  <2>5. WaitersReadWhenOn' /\ (~StaleTickle => ReadsWhenOn')
    BY <2>1, <2>2, <2>3 DEF TypeOK, Goto, WaitersReadWhenOn, ReadsWhenOn
  <2>6. QED
    BY <2>1, <2>2, <2>4, <2>5
<1>3. CASE TestPower(r) /\ m_devicePowerState = kOnPowerState
  <2>1. BeginIO(r) /\ reader[r] = "testing"
    BY <1>3 DEF TestPower
  <2>2. UNCHANGED <<m_devicePowerState, waited, pm, target, pmState, wantOn>>
    BY <1>3 DEF TestPower
  <2>3. CountsIO' /\ m_outstandIO' \in Nat
    BY <2>1, BeginCounts
  <2>4. TypeOK'
    BY <2>1, <2>2, <2>3, FreeNoReader DEF TypeOK, BeginIO, Goto
  <2>5. WaitersReadWhenOn' /\ (~StaleTickle => ReadsWhenOn')
    BY <1>3, <2>1, <2>2 DEF BeginIO, Goto, TypeOK, WaitersReadWhenOn, ReadsWhenOn
  <2>6. QED
    BY <2>2, <2>3, <2>4, <2>5
<1>4. CASE /\ \/ TestPower(r) /\ m_devicePowerState # kOnPowerState
              \/ FallAsleep(r) \/ WakeUp(r)
  <2>1. /\ \E loc \in {"falling", "asleep", "testing"} : Goto(r, loc)
        /\ reader[r] # "reading"
        /\ UNCHANGED <<m_devicePowerState, m_outstandIO, waited, pm, target, pmState, wantOn>>
    BY <1>4 DEF TestPower, FallAsleep, WakeUp
  <2>2. TypeOK'
    BY <1>4, FreeNoReader DEF TypeOK, TestPower, FallAsleep, WakeUp, Goto
  <2>3. \A q \in Readers : reader'[q] = "reading" <=> reader[q] = "reading"
    BY <2>1 DEF TypeOK, Goto
  <2>4. CountsIO'
    BY <2>1, <2>3, OthersCount
  <2>5. WaitersReadWhenOn' /\ (~StaleTickle => ReadsWhenOn')
    BY <2>1, <2>3 DEF TypeOK, WaitersReadWhenOn, ReadsWhenOn
  <2>6. QED
    BY <2>1, <2>2, <2>4, <2>5
<1>5. CASE EndIO(r)
  <2>1. CountsIO' /\ m_outstandIO' \in Nat
    BY <1>5, EndCounts
  <2>2. TypeOK'
    BY <1>5, <2>1 DEF TypeOK, EndIO, Goto
  <2>3. \A q \in Readers : reader'[q] = "reading" => reader[q] = "reading"
    BY <1>5 DEF TypeOK, EndIO, Goto
  <2>4. /\ UNCHANGED <<m_devicePowerState, waited, target, pmState>>
        /\ Draining' <=> Draining
        /\ pm' = pm \/ Draining
    BY <1>5 DEF EndIO
  <2>5. WaitersReadWhenOn' /\ (~StaleTickle => ReadsWhenOn')
    BY <2>3, <2>4 DEF TypeOK, WaitersReadWhenOn, ReadsWhenOn
  <2>6. OnMeansOn' /\ LowerDrains'
    BY <1>5 DEF EndIO
  <2>7. QED
    BY <2>1, <2>2, <2>5, <2>6
<1>6. QED
  BY <1>1, <1>2, <1>3, <1>4, <1>5 DEF ReaderStep

LEMMA Inductive == IInv /\ [Next]_vars => IInv'
<1>1. IInv /\ UNCHANGED vars => IInv'
  BY DEF IInv, vars, TypeOK, CountsIO, OnMeansOn, LowerDrains, Draining,
         WaitersReadWhenOn, ReadsWhenOn
<1>2. QED
  BY <1>1, ChangeKeeps, ReaderKeeps DEF Next

----------------------------------------------------------------------------
(* The results.                                                            *)

\* The conjunction is an invariant of the driver.
THEOREM Invariance == Spec => []IInv
BY InitInv, Inductive, PTL DEF Spec

\* Every variable keeps its type; m_lock is held exactly by the reader in the
\* locked part of its call.
THEOREM TypeCorrect == Spec => []TypeOK
<1>1. IInv => TypeOK
  BY DEF IInv
<1>2. QED
  BY <1>1, Invariance, PTL

\* m_outstandIO is exact, whatever the number of readers.
THEOREM ExactCount == Spec => []CountsIO
<1>1. IInv => CountsIO
  BY DEF IInv
<1>2. QED
  BY <1>1, Invariance, PTL

\* A reader that waited uses the device only while it is on or being drained,
\* whatever activityTickle answers during a change.
THEOREM WaitersSafe == Spec => []WaitersReadWhenOn
<1>1. IInv => WaitersReadWhenOn
  BY DEF IInv
<1>2. QED
  BY <1>1, Invariance, PTL

\* Every reader does, provided activityTickle no longer answers TRUE once a change
\* to a lower state has begun.
THEOREM ReadersSafe == ASSUME ~StaleTickle PROVE Spec => []ReadsWhenOn
<1>1. IInv => ReadsWhenOn
  BY DEF IInv
<1>2. QED
  BY <1>1, Invariance, PTL

\* setPowerState leaves its waiting loop only when no reader uses the device.
THEOREM DrainIsComplete == Spec => DrainedBeforeLower
<1>1. ASSUME IInv, [Next]_vars, Draining, ~Draining'
      PROVE  \A r \in Readers : reader'[r] # "reading"
  <2>1. DrainIO
    BY <1>1 DEF Next, vars, ChangeStep, ReaderStep, Draining, BeginChange, DropRequest,
                LowerFirst, RaiseLast, Settle, PowerChangeDone, Tickle, TestPower,
                FallAsleep, WakeUp, EndIO
  <2>2. m_outstandIO = 0 /\ reader' = reader
    BY <1>1, <2>1 DEF DrainIO, IODone, Draining
  <2>3. QED
    BY <1>1, <2>2, NoneReading DEF IInv
<1>2. IInv /\ [Next]_vars =>
         [(Draining /\ ~Draining') => \A r \in Readers : reader'[r] # "reading"]_vars
  BY <1>1
<1>3. QED
  BY <1>2, Invariance, PTL DEF Spec, DrainedBeforeLower

=============================================================================

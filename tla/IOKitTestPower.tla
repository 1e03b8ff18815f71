--------------------------- MODULE IOKitTestPower ---------------------------
(***************************************************************************)
(* The power-managed driver of chapter 10.  Reader threads (user clients   *)
(* calling myReadDataFromDevice) and the one thread on which the system's  *)
(* power management calls setPowerState and powerChangeDone share          *)
(* m_devicePowerState, m_outstandIO and m_lock.  m_outstandIO is only used *)
(* under m_lock; m_devicePowerState is written, and its waiters are woken, *)
(* without it.                                                             *)
(***************************************************************************)
EXTENDS Naturals, FiniteSets

CONSTANTS
    Readers,       \* threads inside or about to call myReadDataFromDevice
    StaleTickle    \* activityTickle still answers TRUE while power management
                   \* is on its way to a lower state

ASSUME ReadersFinite == IsFiniteSet(Readers)
ASSUME StaleTickleType == StaleTickle \in BOOLEAN

kOffPowerState == 0
kOnPowerState == 3
PowerStates == kOffPowerState..kOnPowerState

Free == "free"    \* m_lock is not held
ASSUME FreeNoReader == Free \notin Readers

VARIABLES
    m_devicePowerState,
    m_outstandIO,
    m_lock,        \* the reader that holds the lock across steps, or Free
    reader,        \* where each reader is
    waited,        \* history: readers whose activityTickle answered FALSE
    pm,            \* where the power-management thread is
    target,        \* the power state it is moving to
    pmState,       \* the state power management says the device is in
    wantOn         \* a tickle has asked for the on state
vars == <<m_devicePowerState, m_outstandIO, m_lock, reader, waited,
          pm, target, pmState, wantOn>>

\* Every variable has its type, and m_lock is held exactly by the reader between
\* taking it and sleeping, reading or returning.
TypeOK ==
    /\ m_devicePowerState \in PowerStates
    /\ m_outstandIO \in Nat
    /\ m_lock \in Readers \cup {Free}
    /\ reader \in [Readers -> {"idle", "testing", "falling", "asleep", "awake", "reading"}]
    /\ waited \subseteq Readers
    /\ pm \in {"idle", "assign", "drain", "asleep", "raise", "settle", "done"}
    /\ target \in PowerStates
    /\ pmState \in PowerStates
    /\ wantOn \in BOOLEAN
    /\ \A r \in Readers : reader[r] \in {"testing", "falling"} <=> m_lock = r

\* start(): the fields are zero and makeUsable() asks for the highest state.
Init ==
    /\ m_devicePowerState = kOffPowerState
    /\ m_outstandIO = 0
    /\ m_lock = Free
    /\ reader = [r \in Readers |-> "idle"]
    /\ waited = {}
    /\ pm = "idle"
    /\ target = kOffPowerState
    /\ pmState = kOffPowerState
    /\ wantOn = TRUE

Goto(r, loc) == reader' = [reader EXCEPT ![r] = loc]

----------------------------------------------------------------------------
(* The power-management thread.  It makes one change at a time: the calls  *)
(* of one change are setPowerState, then powerChangeDone.                  *)

\* A request raises the device to the on state; the idle timer lowers it by one
\* state at a time.
BeginChange ==
    /\ pm = "idle"
    /\ \/ /\ wantOn
          /\ pmState < kOnPowerState
          /\ target' = kOnPowerState
       \/ /\ ~wantOn
          /\ pmState > kOffPowerState
          /\ target' = pmState - 1
    /\ pm' = "assign"
    /\ wantOn' = FALSE
    /\ pmState' = IF target' < pmState /\ ~StaleTickle THEN target' ELSE pmState
    /\ UNCHANGED <<m_devicePowerState, m_outstandIO, m_lock, reader, waited>>

\* A request that finds the device on is dropped.
DropRequest ==
    /\ pm = "idle"
    /\ wantOn
    /\ pmState = kOnPowerState
    /\ wantOn' = FALSE
    /\ UNCHANGED <<m_devicePowerState, m_outstandIO, m_lock, reader, waited,
                   pm, target, pmState>>

\* setPowerState up to its switch: a lower state is recorded before waiting.
LowerFirst ==
    /\ pm = "assign"
    /\ m_devicePowerState' =
          IF target < m_devicePowerState THEN target ELSE m_devicePowerState
    /\ pm' = IF target < kOnPowerState THEN "drain" ELSE "raise"
    /\ UNCHANGED <<m_outstandIO, m_lock, reader, waited, target, pmState, wantOn>>

\* Faulty variant: off by one.
IOAlmostDone == m_outstandIO <= 1
\* Faulty variant: does not wait.
IONotAwaited == TRUE
\* The condition of the loop that waits for outstanding I/O.
IODone == m_outstandIO = 0

\* Under m_lock: go on, or sleep on &m_outstandIO.
DrainIO ==
    /\ pm = "drain"
    /\ m_lock = Free
    /\ pm' = IF IODone THEN "raise" ELSE "asleep"
    /\ UNCHANGED <<m_devicePowerState, m_outstandIO, m_lock, reader, waited,
                   target, pmState, wantOn>>

\* The end of setPowerState: a higher state is recorded last.
RaiseLast ==
    /\ pm = "raise"
    /\ m_devicePowerState' =
          IF target > m_devicePowerState THEN target ELSE m_devicePowerState
    /\ pm' = "settle"
    /\ UNCHANGED <<m_outstandIO, m_lock, reader, waited, target, pmState, wantOn>>

Settle ==
    /\ pm = "settle"
    /\ pmState' = target
    /\ pm' = "done"
    /\ UNCHANGED <<m_devicePowerState, m_outstandIO, m_lock, reader, waited,
                   target, wantOn>>

\* powerChangeDone: wakes every reader asleep on &m_devicePowerState, without m_lock.
PowerChangeDone ==
    /\ pm = "done"
    /\ reader' = [r \in Readers |-> IF reader[r] = "asleep" THEN "awake" ELSE reader[r]]
    /\ pm' = "idle"
    /\ UNCHANGED <<m_devicePowerState, m_outstandIO, m_lock, waited,
                   target, pmState, wantOn>>

----------------------------------------------------------------------------
(* myReadDataFromDevice.                                                   *)

\* Faulty variant: not counted.
BeginIOUncounted(r) ==
    /\ m_lock' = Free
    /\ Goto(r, "reading")
    /\ UNCHANGED m_outstandIO
\* Count the I/O and unlock.
BeginIO(r) ==
    /\ m_outstandIO' = m_outstandIO + 1
    /\ m_lock' = Free
    /\ Goto(r, "reading")

\* Lock, then activityTickle: TRUE when the device is in the on state, otherwise
\* FALSE and the on state is requested.
Tickle(r) ==
    /\ reader[r] = "idle"
    /\ m_lock = Free
    /\ \/ /\ pmState = kOnPowerState
          /\ BeginIO(r)
          /\ waited' = waited \ {r}
          /\ UNCHANGED wantOn
       \/ /\ pmState # kOnPowerState
          /\ m_lock' = r
          /\ Goto(r, "testing")
          /\ waited' = waited \cup {r}
          /\ wantOn' = TRUE
          /\ UNCHANGED m_outstandIO
    /\ UNCHANGED <<m_devicePowerState, pm, target, pmState>>

\* The test of the waiting loop, with m_lock held.
TestPower(r) ==
    /\ reader[r] = "testing"
    /\ \/ /\ m_devicePowerState = kOnPowerState
          /\ BeginIO(r)
       \/ /\ m_devicePowerState # kOnPowerState
          /\ Goto(r, "falling")
          /\ UNCHANGED <<m_outstandIO, m_lock>>
    /\ UNCHANGED <<m_devicePowerState, waited, pm, target, pmState, wantOn>>

\* IOLockSleep: becomes a waiter and releases m_lock in one step.
FallAsleep(r) ==
    /\ reader[r] = "falling"
    /\ Goto(r, "asleep")
    /\ m_lock' = Free
    /\ UNCHANGED <<m_devicePowerState, m_outstandIO, waited, pm, target, pmState, wantOn>>

\* Faulty variant: does not re-test.
WakeUpReading(r) ==
    /\ reader[r] = "awake"
    /\ m_lock = Free
    /\ BeginIO(r)
    /\ UNCHANGED <<m_devicePowerState, waited, pm, target, pmState, wantOn>>
\* A woken reader takes m_lock again before it re-tests.
WakeUp(r) ==
    /\ reader[r] = "awake"
    /\ m_lock = Free
    /\ m_lock' = r
    /\ Goto(r, "testing")
    /\ UNCHANGED <<m_devicePowerState, m_outstandIO, waited, pm, target, pmState, wantOn>>

\* Faulty variant: wakes nobody.
EndIOQuietly(r) ==
    /\ reader[r] = "reading"
    /\ m_lock = Free
    /\ m_outstandIO' = m_outstandIO - 1
    /\ Goto(r, "idle")
    /\ UNCHANGED <<m_devicePowerState, m_lock, waited, pm, target, pmState, wantOn>>
\* Under m_lock: uncount the I/O and wake setPowerState.
EndIO(r) ==
    /\ reader[r] = "reading"
    /\ m_lock = Free
    /\ m_outstandIO' = m_outstandIO - 1
    /\ Goto(r, "idle")
    /\ pm' = IF pm = "asleep" THEN "drain" ELSE pm
    /\ UNCHANGED <<m_devicePowerState, m_lock, waited, target, pmState, wantOn>>

----------------------------------------------------------------------------

ReaderStep(r) == Tickle(r) \/ TestPower(r) \/ FallAsleep(r) \/ WakeUp(r) \/ EndIO(r)
ChangeStep == LowerFirst \/ DrainIO \/ RaiseLast \/ Settle \/ PowerChangeDone

Next == BeginChange \/ DropRequest \/ ChangeStep \/ \E r \in Readers : ReaderStep(r)

\* A change that began goes on, and so does a call that began; nobody has to start
\* a call and the idle timer does not have to fire, but a request is served.
Fairness ==
    /\ WF_vars(ChangeStep)
    /\ WF_vars(wantOn /\ BeginChange)
    /\ \A r \in Readers :
          WF_vars(TestPower(r) \/ FallAsleep(r) \/ WakeUp(r) \/ EndIO(r))

Spec == Init /\ [][Next]_vars
FairSpec == Spec /\ Fairness

----------------------------------------------------------------------------
(* Properties.                                                             *)

\* m_outstandIO counts the readers that are using the device.
CountsIO == m_outstandIO = Cardinality({r \in Readers : reader[r] = "reading"})

\* Between recording a lower state and having drained the I/O.
Draining == pm \in {"drain", "asleep"}

\* A reader that was told to wait uses the device only while it is on, or while
\* setPowerState still waits for it, although m_devicePowerState changes without
\* the lock the reader tested it under.
WaitersReadWhenOn == \A r \in waited :
    reader[r] = "reading" => m_devicePowerState = kOnPowerState \/ Draining

\* The same of every reader.
ReadsWhenOn == \A r \in Readers :
    reader[r] = "reading" => m_devicePowerState = kOnPowerState \/ Draining

\* setPowerState finishes lowering the device only when no reader uses it.
DrainedBeforeLower ==
    [][(Draining /\ ~Draining') => \A r \in Readers : reader'[r] # "reading"]_vars

\* A power change that began completes: neither the loop on m_outstandIO nor
\* readers contending for m_lock hold it up for ever.
ChangeCompletes == (pm # "idle") ~> (pm = "idle")

\* No reader is left asleep once the device is on and the power change is over.
\* powerChangeDone wakes the waiters without m_lock, so it can run between a
\* reader's test of m_devicePowerState and its becoming a waiter: this fails.
OnLeavesNobodyAsleep == \A r \in Readers :
    reader[r] = "asleep" /\ pm = "idle" => m_devicePowerState # kOnPowerState
=============================================================================

---------------------------- MODULE SA_DeviceIO ----------------------------
(***************************************************************************)
(* The I/O half of an active SA_Device, on top of its driver.  Several     *)
(* clients of the audio server start and stop I/O, which the device counts *)
(* under mStateMutex, one I/O thread reads the time stamps out of the      *)
(* driver's status buffer while the driver writes it, and a change of the  *)
(* sample rate goes through the server, which stops I/O around it.  The    *)
(* device is the driver's only client.                                     *)
(***************************************************************************)
EXTENDS SimpleAudioDriver, FiniteSets, Sequences

CONSTANTS
    Host,         \* the clients of the audio server
    Device,       \* the device's user client
    MaxRequests   \* bound on the requests on their way to the server

ASSUME SA_DeviceIOAssumption ==
    Client = {Device} /\ None \notin Host /\ IsFiniteSet(Host)

VARIABLES
    mStartCount,
    stateMutex,   \* who holds mStateMutex across a call to the driver
    doingIO,      \* the clients whose I/O the device has started
    setting,      \* the rate each client is about to request, past the comparison
    requests,     \* the blocks on the serial queue that ask for a change of rate
    change,       \* the rate of the change the server is performing, or None
    reader,       \* how far GetZeroTimeStamp is
    first, second,  \* its two readings of the status buffer
    window        \* history: the stamps that were current during the call

counting == <<mStartCount, stateMutex, doingIO>>
changing == <<setting, requests, change>>
reading == <<reader, first, second, window>>
deviceVars == <<driverVars, counting, changing, reading>>

NoStamp == [mSampleTime |-> 0, mHostTime |-> 0]

DeviceInit ==
    /\ Init
    /\ mStartCount = 0
    /\ stateMutex = None
    /\ doingIO = {}
    /\ setting = [h \in Host |-> None]
    /\ requests = << >>
    /\ change = None
    /\ reader = "idle"
    /\ first = NoStamp
    /\ second = NoStamp
    /\ window = {}

-----------------------------------------------------------------------------
(* The driver's own steps. *)

\* The stamp a whole run of timerFired left behind: inside the handler the
\* sample time is one buffer ahead, unless the stamp is the first.
Published ==
    IF gate = "fire" /\ status.mHostTime # 0
    THEN [status EXCEPT !.mSampleTime = @ - Frames]
    ELSE status

ClockTicks == Tick /\ UNCHANGED <<counting, changing, reading>>

Fires == TimerFired /\ UNCHANGED <<counting, changing, reading>>

Publishes ==
    /\ PublishStamp
    /\ window' = IF reader = "idle" THEN window ELSE window \cup {status'}
    /\ UNCHANGED <<counting, changing, reader, first, second>>

\* Termination, and the user client's answer to it.
Terminates ==
    /\ \/ Terminate
       \/ BeginClose(Device, "didTerminate")
       \/ CloseStops(Device, "didTerminate")
       \/ CloseEnds(Device, "didTerminate")
    /\ UNCHANGED <<counting, changing, reading>>

-----------------------------------------------------------------------------
(* Starting and stopping *)

\* _HW_Open: the device was opened when it was activated.
Activate ==
    /\ owner = None
    /\ OpenCall(Device) \/ Open(Device)
    /\ UNCHANGED <<counting, changing, reading>>

\* The server starts I/O on a device it has, for a client that is not doing it,
\* and not while it performs a change.
MayStart(h) ==
    /\ owner = Device \/ terminated
    /\ h \notin doingIO
    /\ change = None
    /\ stateMutex = None

Started(h) == mStartCount' = mStartCount + 1 /\ doingIO' = doingIO \cup {h}

\* StartIO for a device that runs.
StartAnother(h) ==
    /\ MayStart(h)
    /\ mStartCount # 0
    /\ Started(h)
    /\ UNCHANGED <<driverVars, stateMutex, changing, reading>>

\* StartIO for the first client: the state lock is held over the call.
StartFirst(h) ==
    /\ MayStart(h)
    /\ mStartCount = 0
    /\ StartHardware
    /\ stateMutex' = h
    /\ UNCHANGED <<mStartCount, doingIO, changing, reading>>

StartReturns(h) ==
    /\ stateMutex = h
    /\ StartTimer
    /\ Started(h)
    /\ stateMutex' = None
    /\ UNCHANGED <<changing, reading>>

\* Faulty variant: the hardware is left running by the last client.
LastStopEarly == mStartCount = 2

\* StopIO tells the hardware to stop for the last client.
LastStop == mStartCount = 1

\* StopIO.  The server ends the I/O thread before it stops the last client.
StopIO(h) ==
    /\ h \in doingIO
    /\ stateMutex = None
    /\ doingIO = {h} => reader = "idle"
    /\ IF LastStop THEN StopHardware /\ mStartCount' = 0
                   ELSE mStartCount' = mStartCount - 1 /\ UNCHANGED driverVars
    /\ doingIO' = doingIO \ {h}
    /\ UNCHANGED <<stateMutex, changing, reading>>

-----------------------------------------------------------------------------
(* Changing the sample rate *)

\* Device_SetPropertyData compares the rate with the driver's, under the lock.
SetNominalSampleRate(h, rate) ==
    /\ setting[h] = None
    /\ Len(requests) + Cardinality({g \in Host : setting[g] # None}) < MaxRequests
    /\ stateMutex = None
    /\ rate \in SupportedRates /\ rate # mSampleRate
    /\ setting' = [setting EXCEPT ![h] = rate]
    /\ UNCHANGED <<driverVars, counting, requests, change, reading>>

\* ... and, without it, dispatches the request.
DispatchRequest(h) ==
    /\ setting[h] # None
    /\ requests' = Append(requests, setting[h])
    /\ setting' = [setting EXCEPT ![h] = None]
    /\ UNCHANGED <<driverVars, counting, change, reading>>

\* The server takes the next request, and stops I/O (StopIO) before it goes on.
BeginChange ==
    /\ change = None /\ requests # << >>
    /\ stateMutex = None
    /\ change' = Head(requests)
    /\ requests' = Tail(requests)
    /\ UNCHANGED <<driverVars, counting, setting, reading>>

\* _HW_SetSampleRate, whose result PerformConfigChange ignores.
ApplyRate(rate) ==
    IF mIsRunning THEN UNCHANGED driverVars ELSE SetSampleRate(rate)

PerformConfigChange ==
    /\ change # None
    /\ doingIO = {} /\ stateMutex = None /\ gate = "free"
    /\ ApplyRate(change)
    /\ change' = None
    /\ UNCHANGED <<counting, setting, requests, reading>>

-----------------------------------------------------------------------------
(* GetZeroTimeStamp *)

\* The I/O thread runs while I/O does.
ReadHostTime1 ==
    /\ \/ reader = "idle" /\ doingIO # {} /\ window' = {Published}
       \/ reader = "retry" /\ UNCHANGED window
    /\ reader' = "sample1"
    /\ first' = [first EXCEPT !.mHostTime = status.mHostTime]
    /\ UNCHANGED <<driverVars, counting, changing, second>>

ReadSampleTime1 ==
    /\ reader = "sample1"
    /\ reader' = "host2"
    /\ first' = [first EXCEPT !.mSampleTime = status.mSampleTime]
    /\ UNCHANGED <<driverVars, counting, changing, second, window>>

ReadHostTime2 ==
    /\ reader = "host2"
    /\ reader' = "sample2"
    /\ second' = [second EXCEPT !.mHostTime = status.mHostTime]
    /\ UNCHANGED <<driverVars, counting, changing, first, window>>

\* Faulty variant: the first reading is taken as it is.
AgreeUnchecked(a, b) == TRUE

\* The loop's condition.  The readings are local to one turn of the loop.
Agree(a, b) == a = b

ReadSampleTime2 ==
    /\ reader = "sample2"
    /\ IF Agree(first, [second EXCEPT !.mSampleTime = status.mSampleTime])
          THEN reader' = "done" /\ UNCHANGED first
          ELSE reader' = "retry" /\ first' = NoStamp
    /\ second' = NoStamp
    /\ UNCHANGED <<driverVars, counting, changing, window>>

\* The call returns its first reading.
ReturnStamp ==
    /\ reader = "done"
    /\ reader' = "idle"
    /\ first' = NoStamp /\ window' = {}
    /\ UNCHANGED <<driverVars, counting, changing, second>>

ReadStep ==
    \/ ReadHostTime1 \/ ReadSampleTime1 \/ ReadHostTime2 \/ ReadSampleTime2
    \/ ReturnStamp

DeviceNext ==
    \/ ClockTicks \/ Fires \/ Publishes \/ Terminates \/ Activate
    \/ \E h \in Host :
        \/ StartAnother(h) \/ StartFirst(h) \/ StartReturns(h) \/ StopIO(h)
        \/ \E rate \in AskedRate : SetNominalSampleRate(h, rate)
        \/ DispatchRequest(h)
    \/ BeginChange \/ PerformConfigChange
    \/ ReadStep

DeviceSpec == DeviceInit /\ [][DeviceNext]_deviceVars

-----------------------------------------------------------------------------
(* Properties *)

\* Every variable of the device has its type.
DeviceTypeOK ==
    /\ mStartCount \in 0 .. Cardinality(Host)
    /\ stateMutex \in Host \cup {None}
    /\ doingIO \subseteq Host
    /\ setting \in [Host -> SupportedRates \cup {None}]
    /\ \A i \in DOMAIN requests : requests[i] \in SupportedRates
    /\ change \in SupportedRates \cup {None}
    /\ reader \in {"idle", "sample1", "host2", "sample2", "retry", "done"}
    /\ first \in [mSampleTime : Nat, mHostTime : Nat]
    /\ second \in [mSampleTime : Nat, mHostTime : Nat]

\* The count is the number of clients doing I/O, and while nobody is inside
\* StartIO the hardware runs exactly when it is not zero.  Once the driver is
\* being terminated it may have stopped, but it never runs for nobody.
CountMatchesHardware ==
    /\ mStartCount = Cardinality(doingIO)
    /\ mIsRunning => mStartCount > 0
    /\ (~terminated /\ mStartCount > 0) => mIsRunning

\* A change of the rate that the server performs takes effect: the driver, which
\* refuses it while it runs and whose refusal PerformConfigChange ignores, has
\* been stopped by then.
ConfigChangeApplies ==
    [][change # None /\ change' = None => mSampleRate' = change]_deviceVars

\* The host time that GetZeroTimeStamp returns is that of a stamp which was
\* current during the call, and the sample time is that stamp's or one buffer
\* more: this much its double reading of the shared buffer guarantees.
SkewAtMostOneBuffer ==
    reader = "done" =>
        \E stamp \in window :
            /\ first.mHostTime = stamp.mHostTime
            /\ first.mSampleTime \in {stamp.mSampleTime, stamp.mSampleTime + Frames}

\* GetZeroTimeStamp returns a sample time and a host time that belong together:
\* "read from the engine status struct in a loop to guarantee consistency".
StampIsConsistent == reader = "done" => first \in window
=============================================================================

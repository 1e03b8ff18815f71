------------------------- MODULE SA_DeviceIO_proofs -------------------------
(***************************************************************************)
(* Safety of the SimpleAudio driver, for any number of user clients, any   *)
(* buffer size and any clock rate that gives a buffer at least one tick,   *)
(* and of an active device's I/O on top of it, for any finite set of       *)
(* clients of the audio server and any bounds.                             *)
(*                                                                         *)
(* That the driver's stamp never runs ahead of the clock is not inductive: *)
(* it needs to know that the timer is armed exactly while the hardware runs *)
(* and no handler is under way, that it is due one buffer after the last   *)
(* stamp, and, inside timerFired, that this time has come.                 *)
(*                                                                         *)
(* A device's step takes a step of the driver or none, and so keeps the    *)
(* driver's invariant.  What the device adds is in three parts: the rates  *)
(* under way, the start count, and what a reading of the status buffer     *)
(* knows.                                                                  *)
(***************************************************************************)
EXTENDS SA_DeviceIO, FiniteSetTheorems, TLAPS

-----------------------------------------------------------------------------
(* The driver.                                                             *)

\* The timer, the stamp and the clock.
StampInv ==
    /\ mHostTicksPerBuffer = Ticks(mSampleRate)
    /\ gate = "free" => (timeout # Off <=> mIsRunning)
    /\ gate = "start" => ~mIsRunning /\ timeout = Off
    /\ gate = "fire" =>
        /\ mIsRunning /\ timeout = Off
        /\ theCurrentTime <= now
        /\ status.mHostTime # 0 => status.mHostTime + mHostTicksPerBuffer <= now
    /\ timeout # Off /\ status.mHostTime # 0 =>
        timeout = status.mHostTime + mHostTicksPerBuffer
    /\ StampNotInFuture

\* The sessions: a client that opens during its clientClose is remembered, and
\* once clientClose has called close() only such a client can be the owner.
SessionInv == \A c \in Client :
    /\ closing[c]["didTerminate"] # "idle" => terminated
    /\ closing[c]["didTerminate"] = "done" => owner # c
    /\ closing[c]["clientClose"] # "idle" /\ c \in opening => c \in overlapped
    /\ closing[c]["clientClose"] \in {"leaving", "done"} /\ owner = c => c \in overlapped

IInv == TypeOK /\ StampInv /\ SessionInv

Stage == {"idle", "stop", "close", "leaving", "done"}

-----------------------------------------------------------------------------

\* A buffer takes a positive whole number of ticks at each supported rate.
LEMMA TicksArePositive == \A rate \in SupportedRates : Ticks(rate) \in Nat \ {0}
  BY SimpleAudioDriverAssumption

\* The driver starts in a state of the invariant.
LEMMA InitInv == Init => IInv
<1> SUFFICES ASSUME Init PROVE IInv
  OBVIOUS
<1>1. 44100 \in SupportedRates
  BY DEF SupportedRates
<1>2. TypeOK
  <2>1. closing \in [Client -> [Closer -> Stage]]
    BY DEF Init, Stage
  <2>2. status \in [mSampleTime : Nat, mHostTime : Nat]
    BY DEF Init
  <2>3. mHostTicksPerBuffer \in Nat \ {0}
    BY <1>1, TicksArePositive DEF Init
  <2>4. now \in Nat /\ theCurrentTime \in Nat /\ timeout \in Nat
    BY DEF Init, Off
  <2>5. mSampleRate \in SupportedRates /\ owner \in Client \cup {None}
    BY <1>1 DEF Init
  <2>6. gate \in {"free", "start", "fire"} /\ opening \subseteq Client
        /\ overlapped \subseteq Client
    BY DEF Init
  <2>7. mIsRunning \in BOOLEAN /\ terminated \in BOOLEAN
    <3>1. mIsRunning = FALSE /\ terminated = FALSE
      BY DEF Init
    <3> QED
      BY <3>1
  <2> QED
    BY <2>1, <2>2, <2>3, <2>4, <2>5, <2>6, <2>7, Zenon DEF TypeOK, Stage
<1>3. StampInv
  BY <1>1, TicksArePositive DEF Init, StampInv, StampNotInFuture, Off
<1>4. SessionInv
  <2> SUFFICES ASSUME NEW c \in Client
               PROVE  /\ closing[c]["didTerminate"] = "idle"
                      /\ closing[c]["clientClose"] = "idle"
                      /\ opening = {}
    BY Zenon DEF SessionInv
  <2>1. closing[c] = [k \in Closer |-> "idle"] /\ opening = {}
    BY DEF Init
  <2> QED
    BY <2>1 DEF Closer
<1> QED
  BY <1>2, <1>3, <1>4 DEF IInv

\* What stopHardware can change keeps its type.
LEMMA StopTypes ==
  ASSUME TypeOK, StopHardwareGated
  PROVE  mIsRunning' \in BOOLEAN /\ timeout' \in Nat
<1>1. CASE mIsRunning
  <2>1. mIsRunning' = FALSE /\ timeout' = 0
    BY <1>1, Zenon DEF StopHardwareGated, Stop, Off
  <2> QED
    BY <2>1
<1>2. CASE ~mIsRunning
  <2>1. mIsRunning' = mIsRunning /\ timeout' = timeout
    BY <1>2, Zenon DEF StopHardwareGated
  <2> QED
    BY <2>1 DEF TypeOK
<1> QED
  BY <1>1, <1>2

\* No step of the hardware leaves the types, and none touches a session.
LEMMA HardwareTypes ==
  ASSUME TypeOK,
         \/ Tick \/ StartTimer \/ TimerFired \/ PublishStamp
         \/ HardwareCall
  PROVE  TypeOK'
<1>1. CASE Tick
  BY <1>1 DEF TypeOK, Tick, hardware, timing, session
<1>2. CASE StartTimer
  BY <1>2, TicksArePositive DEF TypeOK, StartTimer, FirstWakeTime, session
<1>3. CASE TimerFired
  <2>1. status' \in [mSampleTime : Nat, mHostTime : Nat]
    <3>1. CASE status.mHostTime # 0
      BY <1>3, <3>1, SimpleAudioDriverAssumption DEF TypeOK, TimerFired
    <3>2. CASE status.mHostTime = 0
      BY <1>3, <3>2 DEF TypeOK, TimerFired, FirstSampleTime
    <3> QED
      BY <3>1, <3>2
  <2> QED
    BY <1>3, <2>1 DEF TypeOK, TimerFired, Off, timing, session
<1>4. CASE PublishStamp
  BY <1>4 DEF TypeOK, PublishStamp, NextWakeTime, timing, session
<1>5. CASE StartHardware
  BY <1>5 DEF TypeOK, StartHardware, timing, session
<1>6. CASE StopHardware
  <2>1. mIsRunning' \in BOOLEAN /\ timeout' \in Nat
    BY <1>6, StopTypes DEF StopHardware
  <2> QED
    BY <1>6, <2>1, Zenon DEF TypeOK, StopHardware, StopHardwareGated, timing, session
<1>7. ASSUME NEW rate \in AskedRate, SetSampleRate(rate) PROVE TypeOK'
  BY <1>7, TicksArePositive DEF TypeOK, SetSampleRate, session
<1> QED
  BY <1>1, <1>2, <1>3, <1>4, <1>5, <1>6, <1>7 DEF HardwareCall

\* No step of the hardware lets the stamp run ahead or the timer go astray.
LEMMA HardwareStamps ==
  ASSUME TypeOK, StampInv,
         \/ Tick \/ StartTimer \/ TimerFired \/ PublishStamp
         \/ HardwareCall
  PROVE  StampInv'
<1> USE DEF StampInv, StampNotInFuture, TypeOK, Off
<1>1. CASE Tick
  BY <1>1 DEF Tick, hardware, timing
<1>2. CASE StartTimer
  BY <1>2, TicksArePositive DEF StartTimer, FirstWakeTime
<1>3. CASE TimerFired
  BY <1>3 DEF TimerFired, timing
<1>4. CASE PublishStamp
  <2>1. CASE status.mHostTime # 0
    BY <1>4, <2>1 DEF PublishStamp, NextWakeTime, timing
  <2>2. CASE status.mHostTime = 0
    BY <1>4, <2>2 DEF PublishStamp, NextWakeTime, timing
  <2> QED
    BY <2>1, <2>2
<1>5. CASE StartHardware
  BY <1>5 DEF StartHardware, timing
<1>6. CASE StopHardware
  BY <1>6 DEF StopHardware, StopHardwareGated, Stop, timing
<1>7. ASSUME NEW rate \in AskedRate, SetSampleRate(rate) PROVE StampInv'
  BY <1>7, TicksArePositive DEF SetSampleRate
<1> QED
  BY <1>1, <1>2, <1>3, <1>4, <1>5, <1>6, <1>7 DEF HardwareCall

\* No step of a session leaves the types.
LEMMA SessionTypes ==
  ASSUME TypeOK, NEW c \in Client,
         SessionCall(c) \/ Terminate
  PROVE  TypeOK'
<1>1. CASE OpenCall(c) \/ Open(c) \/ Terminate
  BY <1>1 DEF TypeOK, OpenCall, Open, Terminate, hardware, timing
<1>2. ASSUME NEW k \in Closer, BeginClose(c, k) PROVE TypeOK'
  <2>1. closing' \in [Client -> [Closer -> Stage]]
    BY <1>2 DEF TypeOK, BeginClose, Closed, Closer, Stage
  <2> QED
    BY <1>2, <2>1 DEF TypeOK, BeginClose, Stage, hardware, timing
<1>3. ASSUME NEW k \in Closer, CloseStops(c, k) PROVE TypeOK'
  <2>1. closing' \in [Client -> [Closer -> Stage]]
    BY <1>3 DEF TypeOK, CloseStops, AfterStop, Stage
  <2>2. mIsRunning' \in BOOLEAN /\ timeout' \in Nat
    BY <1>3, StopTypes DEF CloseStops
  <2> QED
    BY <1>3, <2>1, <2>2, Zenon DEF TypeOK, CloseStops, StopHardwareGated, Stage, timing
<1>4. ASSUME NEW k \in Closer, CloseEnds(c, k) PROVE TypeOK'
  <2>1. closing' \in [Client -> [Closer -> Stage]]
    <3>1. Closed(k) \in Stage
      BY DEF Closed, Closer, Stage
    <3> QED
      BY <1>4, <3>1 DEF TypeOK, CloseEnds, Stage
  <2> QED
    BY <1>4, <2>1 DEF TypeOK, CloseEnds, Stage, hardware, timing
<1>5. CASE Leave(c)
  <2>1. closing' \in [Client -> [Closer -> Stage]]
    BY <1>5 DEF TypeOK, Leave, Stage
  <2> QED
    BY <1>5, <2>1 DEF TypeOK, Leave, Stage, hardware, timing
<1> QED
  BY <1>1, <1>2, <1>3, <1>4, <1>5 DEF SessionCall

\* No step of a session disturbs the stamps: the only one that reaches the
\* hardware stops it.
LEMMA SessionStamps ==
  ASSUME TypeOK, StampInv, NEW c \in Client,
         SessionCall(c) \/ Terminate
  PROVE  StampInv'
<1> USE DEF StampInv, StampNotInFuture
<1>1. CASE \/ OpenCall(c) \/ Open(c) \/ Leave(c) \/ Terminate
           \/ \E k \in Closer : BeginClose(c, k) \/ CloseEnds(c, k)
  <2>1. UNCHANGED <<now, hardware>>
    BY <1>1 DEF OpenCall, Open, Leave, Terminate, BeginClose, CloseEnds
  <2> QED
    BY <2>1 DEF hardware, timing
<1>2. ASSUME NEW k \in Closer, CloseStops(c, k) PROVE StampInv'
  BY <1>2 DEF CloseStops, StopHardwareGated, Stop, Off, timing, TypeOK
<1> QED
  BY <1>1, <1>2 DEF SessionCall

\* No step of a session lets a client leave the driver open behind it, but for an
\* open that overlaps its clientClose.
LEMMA SessionsEnd ==
  ASSUME TypeOK, SessionInv, NEW c \in Client, SessionCall(c) \/ Terminate
  PROVE  SessionInv'
<1> USE SimpleAudioDriverAssumption DEF SessionInv, TypeOK, Closer
<1>1. CASE OpenCall(c)
  BY <1>1 DEF OpenCall
<1>2. CASE Open(c)
  BY <1>2 DEF Open
<1>3. CASE Terminate
  BY <1>3 DEF Terminate
<1>4. ASSUME NEW k \in Closer, BeginClose(c, k) PROVE SessionInv'
  <2>1. CASE k = "method_Close"
    BY <1>4, <2>1 DEF BeginClose, MayClose, Closed
  <2>2. CASE k = "clientClose"
    BY <1>4, <2>2 DEF BeginClose, MayClose, Closed
  <2>3. CASE k = "didTerminate"
    BY <1>4, <2>3 DEF BeginClose, MayClose, Closed
  <2> QED
    BY <2>1, <2>2, <2>3
<1>5. ASSUME NEW k \in Closer, CloseStops(c, k) PROVE SessionInv'
  BY <1>5 DEF CloseStops, AfterStop
<1>6. ASSUME NEW k \in Closer, CloseEnds(c, k) PROVE SessionInv'
  <2>1. CASE k = "method_Close"
    BY <1>6, <2>1 DEF CloseEnds, Closed
  <2>2. CASE k = "clientClose"
    BY <1>6, <2>2 DEF CloseEnds, Closed
  <2>3. CASE k = "didTerminate"
    BY <1>6, <2>3 DEF CloseEnds, Closed
  <2> QED
    BY <2>1, <2>2, <2>3
<1>7. CASE Leave(c)
  BY <1>7 DEF Leave
<1> QED
  BY <1>1, <1>2, <1>3, <1>4, <1>5, <1>6, <1>7 DEF SessionCall

\* A step of the hardware leaves the sessions as they are.
LEMMA HardwareSessions ==
  ASSUME SessionInv, UNCHANGED session
  PROVE  SessionInv'
  BY DEF SessionInv, session

\* Every step keeps the invariant.
LEMMA NextInv == IInv /\ [Next]_driverVars => IInv'
<1> SUFFICES ASSUME IInv, [Next]_driverVars PROVE IInv'
  OBVIOUS
<1> USE DEF IInv
<1>1. CASE \/ Tick \/ StartTimer \/ TimerFired \/ PublishStamp
           \/ HardwareCall
  <2>1. UNCHANGED session
    BY <1>1 DEF Tick, StartTimer, TimerFired, PublishStamp, HardwareCall,
                StartHardware, StopHardware, SetSampleRate
  <2> QED
    BY <1>1, <2>1, HardwareTypes, HardwareStamps, HardwareSessions
<1>2. ASSUME NEW c \in Client, SessionCall(c) PROVE IInv'
  BY <1>2, SessionTypes, SessionStamps, SessionsEnd
<1>3. CASE Terminate
  <2>1. TypeOK' /\ StampInv'
    BY <1>3 DEF Terminate, TypeOK, StampInv, StampNotInFuture, hardware, timing
  <2>2. SessionInv'
    BY <1>3 DEF Terminate, SessionInv
  <2> QED
    BY <2>1, <2>2
<1>4. CASE UNCHANGED driverVars
  BY <1>4 DEF driverVars, hardware, timing, session, TypeOK, StampInv,
              StampNotInFuture, SessionInv
<1> QED
  BY <1>1, <1>2, <1>3, <1>4 DEF Next

\* The invariant holds in every state of the driver.
THEOREM Invariance == SafetySpec => []IInv
<1>1. Init => IInv
  BY InitInv
<1>2. IInv /\ [Next]_driverVars => IInv'
  BY NextInv
<1> QED
  BY <1>1, <1>2, PTL DEF SafetySpec

-----------------------------------------------------------------------------

\* Every variable of the driver keeps its type (SimpleAudioDriver::start on).
THEOREM TypeCorrect == SafetySpec => []TypeOK
<1>1. IInv => TypeOK
  BY DEF IInv
<1> QED
  BY <1>1, Invariance, PTL

\* The host time that timerFired publishes has always passed.
THEOREM StampHasPassed == SafetySpec => []StampNotInFuture
<1>1. IInv => StampNotInFuture
  BY DEF IInv, StampInv
<1> QED
  BY <1>1, Invariance, PTL

\* A client that has left by didTerminate, or by clientClose with no open of its own
\* under way at any time since that began, has closed the driver.
THEOREM GoneClientHasClosed == SafetySpec => []GoneClientIsNotOwner
<1>1. IInv => GoneClientIsNotOwner
  BY DEF IInv, SessionInv, GoneClientIsNotOwner
<1> QED
  BY <1>1, Invariance, PTL

\* A stopped driver's status buffer is written by a start and by nothing else:
\* the timer that _stopHardware cancelled does not go off.
THEOREM StoppedIsQuiet == SafetySpec => QuietWhenStopped
<1> DEFINE Quiet == ~mIsRunning /\ gate = "free" /\ status' # status => gate' = "start"
<1>1. ASSUME IInv, [Next]_driverVars PROVE [Quiet]_driverVars
  <2> SUFFICES ASSUME ~mIsRunning, gate = "free", status' # status
               PROVE gate' = "start"
    OBVIOUS
  <2>1. timeout = Off
    BY <1>1 DEF IInv, StampInv
  <2>2. ~TimerFired /\ ~StartTimer /\ ~PublishStamp
    BY <2>1 DEF TimerFired, StartTimer, PublishStamp
  <2>3. ~Tick /\ ~Terminate /\ ~UNCHANGED driverVars
    BY DEF Tick, Terminate, driverVars, hardware
  <2>4. CASE HardwareCall
    BY <2>4 DEF HardwareCall, StartHardware, StopHardware, StopHardwareGated, SetSampleRate
  <2>5. ASSUME NEW c \in Client, SessionCall(c) PROVE gate' = "start"
    BY <2>5 DEF SessionCall, StopHardwareGated, OpenCall, Open, Leave, BeginClose,
                CloseStops, CloseEnds, hardware
  <2> QED
    BY <1>1, <2>2, <2>3, <2>4, <2>5 DEF Next
<1> QED
  BY <1>1, Invariance, PTL DEF SafetySpec, QuietWhenStopped

-----------------------------------------------------------------------------
(* The device.                                                             *)

Rates == SupportedRates \cap AskedRate

\* Every rate on its way to the driver was asked for and is supported.
RatesInv ==
    /\ setting \in [Host -> Rates \cup {None}]
    /\ requests \in Seq(Rates)
    /\ change \in Rates \cup {None}

\* The count is that of the clients doing I/O; inside a first start the mutex is
\* held and nobody does I/O yet.
CountInv ==
    /\ doingIO \subseteq Host
    /\ stateMutex \in Host \cup {None}
    /\ gate = "start" <=> stateMutex # None
    /\ stateMutex # None => doingIO = {}
    /\ CountMatchesHardware

\* A reading agrees with a stamp, up to one buffer in the sample time.
Fits(pair, stamp) ==
    /\ pair.mHostTime = stamp.mHostTime
    /\ pair.mSampleTime \in {stamp.mSampleTime, stamp.mSampleTime + Frames}

\* What GetZeroTimeStamp knows after each of its reads.  No start happens under it
\* and each stamp has a later host time than the one before: equal readings of the
\* host time have no stamp between them.
ReadInv ==
    /\ reader \in {"idle", "sample1", "host2", "sample2", "retry", "done"}
    /\ first \in [mSampleTime : Nat, mHostTime : Nat]
    /\ second \in [mSampleTime : Nat, mHostTime : Nat]
    /\ gate = "start" => status.mSampleTime = 0
    /\ gate # "start" /\ status.mHostTime = 0 => status.mSampleTime = 0
    /\ gate = "fire" => theCurrentTime > 0
    /\ reader # "idle" => doingIO # {} /\ Published \in window
    /\ reader \in {"sample1", "host2"} => first.mHostTime <= status.mHostTime
    /\ reader = "host2" =>
        (first.mHostTime = status.mHostTime => Fits(first, Published))
    /\ reader = "sample2" =>
        (first.mHostTime = second.mHostTime => \E stamp \in window : Fits(first, stamp))
    /\ SkewAtMostOneBuffer

DeviceInv == RatesInv /\ CountInv /\ ReadInv

-----------------------------------------------------------------------------
(* What a step of the device does to the driver. *)

\* A step of the device is a step of the driver or leaves it alone.  The rate of a
\* change is one that a client may ask the driver for.
LEMMA DriverStep ==
  ASSUME RatesInv, [DeviceNext]_deviceVars
  PROVE  [Next]_driverVars
<1>1. Device \in Client
  BY SA_DeviceIOAssumption
<1>2. CASE ClockTicks \/ Fires \/ Publishes
  BY <1>2, Zenon DEF ClockTicks, Fires, Publishes, Next
<1>3. CASE Terminates
  <2>1. "didTerminate" \in Closer
    BY DEF Closer
  <2> QED
    BY <1>1, <1>3, <2>1, Zenon DEF Terminates, Next, SessionCall
<1>4. CASE Activate
  BY <1>1, <1>4, Zenon DEF Activate, Next, SessionCall
<1>5. ASSUME NEW h \in Host,
             \/ StartAnother(h) \/ DispatchRequest(h)
             \/ \E rate \in AskedRate : SetNominalSampleRate(h, rate)
      PROVE  UNCHANGED driverVars
  BY <1>5, Zenon DEF StartAnother, DispatchRequest, SetNominalSampleRate
<1>6. ASSUME NEW h \in Host, StartFirst(h) \/ StartReturns(h) PROVE Next
  BY <1>6, Zenon DEF StartFirst, StartReturns, Next, HardwareCall
<1>7. ASSUME NEW h \in Host, StopIO(h) PROVE [Next]_driverVars
  BY <1>7, Zenon DEF StopIO, Next, HardwareCall
<1>8. CASE PerformConfigChange
  <2>1. change \in AskedRate
    BY <1>8 DEF PerformConfigChange, RatesInv, Rates
  <2> QED
    BY <1>8, <2>1, Zenon DEF PerformConfigChange, ApplyRate, Next, HardwareCall
<1>9. CASE BeginChange \/ ReadStep
  BY <1>9, Zenon DEF BeginChange, ReadStep, ReadHostTime1, ReadSampleTime1,
                     ReadHostTime2, ReadSampleTime2, ReturnStamp
<1>10. CASE UNCHANGED deviceVars
  BY <1>10, Zenon DEF deviceVars
<1> QED
  BY <1>2, <1>3, <1>4, <1>5, <1>6, <1>7, <1>8, <1>9, <1>10, Zenon DEF DeviceNext

-----------------------------------------------------------------------------
(* The parts of the invariant. *)

\* The rates: they enter by SetNominalSampleRate and are handed on.
LEMMA RatesKeep ==
  ASSUME RatesInv, [DeviceNext]_deviceVars
  PROVE  RatesInv'
<1> USE DEF RatesInv, Rates
<1>1. CASE UNCHANGED changing
  BY <1>1 DEF changing
<1>2. ASSUME NEW h \in Host, NEW rate \in AskedRate, SetNominalSampleRate(h, rate)
      PROVE  RatesInv'
  BY <1>2 DEF SetNominalSampleRate
<1>3. ASSUME NEW h \in Host, DispatchRequest(h) PROVE RatesInv'
  BY <1>3 DEF DispatchRequest
<1>4. CASE BeginChange
  BY <1>4 DEF BeginChange
<1>5. CASE PerformConfigChange
  BY <1>5 DEF PerformConfigChange
<1>6. ASSUME NEW h \in Host,
             StartAnother(h) \/ StartFirst(h) \/ StartReturns(h) \/ StopIO(h)
      PROVE  UNCHANGED changing
  BY <1>6, Zenon DEF StartAnother, StartFirst, StartReturns, StopIO
<1>7. CASE ClockTicks \/ Fires \/ Publishes \/ Terminates \/ Activate \/ ReadStep
  BY <1>1, <1>7, Zenon DEF ClockTicks, Fires, Publishes, Terminates, Activate, ReadStep,
    ReadHostTime1, ReadSampleTime1, ReadHostTime2, ReadSampleTime2, ReturnStamp
<1>8. CASE UNCHANGED deviceVars
  BY <1>1, <1>8, Zenon DEF deviceVars
<1> QED
  BY <1>1, <1>2, <1>3, <1>4, <1>5, <1>6, <1>7, <1>8, Zenon DEF DeviceNext

\* Any set of clients is finite, and one that is not empty has a positive count.
LEMMA HostsFinite ==
  ASSUME NEW S, S \subseteq Host
  PROVE  /\ IsFiniteSet(S)
         /\ Cardinality(S) \in Nat
         /\ Cardinality(S) <= Cardinality(Host)
         /\ Cardinality(S) = 0 <=> S = {}
         /\ \A h \in S : Cardinality(S \ {h}) = Cardinality(S) - 1
         /\ \A h \in Host \ S : Cardinality(S \cup {h}) = Cardinality(S) + 1
<1>1. IsFiniteSet(Host)
  BY SA_DeviceIOAssumption
<1>2. IsFiniteSet(S) /\ Cardinality(S) <= Cardinality(Host)
  BY <1>1, FS_Subset
<1> QED
  BY <1>2, FS_EmptySet, FS_CardinalityType, FS_AddElement, FS_RemoveElement

\* The start count through a first start, whose two halves are the driver's.
LEMMA StartsCount ==
  ASSUME TypeOK, StampInv, CountInv, NEW h \in Host,
         StartAnother(h) \/ StartFirst(h) \/ StartReturns(h)
  PROVE  CountInv'
<1> USE SA_DeviceIOAssumption DEF CountInv
<1>1. doingIO \subseteq Host
  OBVIOUS
<1>2. CASE StartAnother(h)
  <2>1. gate' = gate /\ mIsRunning' = mIsRunning /\ terminated' = terminated
    BY <1>2, Zenon DEF StartAnother, driverVars, hardware, session
  <2>2. mStartCount \in Nat /\ mStartCount' = mStartCount + 1 /\ stateMutex = None
        /\ stateMutex' = None /\ doingIO' = doingIO \cup {h} /\ h \notin doingIO
        /\ mStartCount # 0
    BY <1>2, <1>1, HostsFinite, Zenon DEF StartAnother, MayStart, Started, CountMatchesHardware
  <2>3. mStartCount' = Cardinality(doingIO')
    BY <2>2, <1>1, HostsFinite DEF CountMatchesHardware
  <2>4. CountMatchesHardware'
    <3>1. (mIsRunning => mStartCount' > 0) /\ (~terminated => mIsRunning)
      BY <2>2 DEF CountMatchesHardware
    <3> QED
      BY <2>1, <2>3, <3>1, Zenon DEF CountMatchesHardware
  <2> QED
    BY <2>1, <2>2, <2>4
<1>3. CASE StartFirst(h)
  <2>1. gate' = "start" /\ mIsRunning' = mIsRunning /\ terminated' = terminated
        /\ ~mIsRunning /\ stateMutex' = h /\ mStartCount' = mStartCount
        /\ doingIO' = doingIO /\ mStartCount = 0
    BY <1>3 DEF StartFirst, StartHardware, session
  <2>2. doingIO = {}
    BY <2>1, <1>1, HostsFinite DEF CountMatchesHardware
  <2> QED
    BY <2>1, <2>2 DEF CountMatchesHardware
<1>4. CASE StartReturns(h)
  <2>1. gate = "start" /\ gate' = "free" /\ mIsRunning' = TRUE /\ stateMutex' = None
        /\ doingIO = {} /\ doingIO' = doingIO \cup {h} /\ mStartCount' = mStartCount + 1
    BY <1>4 DEF StartReturns, StartTimer, Started
  <2>2. mStartCount = 0 /\ mStartCount' = 1 /\ Cardinality(doingIO') = 1
    BY <2>1, HostsFinite DEF CountMatchesHardware
  <2>3. mStartCount' = Cardinality(doingIO') /\ mStartCount' > 0 /\ mIsRunning'
    BY <2>1, <2>2
  <2>4. CountMatchesHardware'
    BY <2>3, Zenon DEF CountMatchesHardware
  <2> QED
    BY <2>1, <2>4
<1> QED
  BY <1>2, <1>3, <1>4

\* The start count through a stop: the last one stops the driver.
LEMMA StopsCount ==
  ASSUME TypeOK, CountInv, NEW h \in Host, StopIO(h)
  PROVE  CountInv'
<1> USE SA_DeviceIOAssumption DEF CountInv
<1>1. h \in doingIO /\ doingIO' = doingIO \ {h} /\ stateMutex = None /\ stateMutex' = None
  BY DEF StopIO
<1>2. mStartCount \in Nat \ {0} /\ Cardinality(doingIO') = mStartCount - 1
  BY <1>1, HostsFinite DEF CountMatchesHardware
<1>3. CASE mStartCount = 1
  <2>1. StopHardware /\ mStartCount' = 0
    BY <1>3 DEF StopIO, LastStop
  <2>2. gate' = gate /\ mIsRunning' = FALSE
    <3>1. CASE mIsRunning
      BY <2>1, <3>1, Zenon DEF StopHardware, StopHardwareGated, Stop
    <3>2. CASE ~mIsRunning
      <4>1. mIsRunning = FALSE
        BY <3>2 DEF TypeOK
      <4> QED
        BY <2>1, <3>2, <4>1, Zenon DEF StopHardware, StopHardwareGated
    <3> QED
      BY <3>1, <3>2
  <2>3. CountMatchesHardware'
    <3>1. mStartCount' = Cardinality(doingIO') /\ ~(mStartCount' > 0)
      BY <1>2, <1>3, <2>1
    <3> QED
      BY <2>2, <3>1, Zenon DEF CountMatchesHardware
  <2> QED
    BY <1>1, <2>2, <2>3
<1>4. CASE mStartCount # 1
  <2>1. UNCHANGED driverVars /\ mStartCount' = mStartCount - 1
    BY <1>4 DEF StopIO, LastStop
  <2>2. gate' = gate /\ mIsRunning' = mIsRunning /\ terminated' = terminated
    BY <2>1, Zenon DEF driverVars, hardware, session
  <2>3. mStartCount > 0 /\ mStartCount' > 0 /\ mStartCount' = Cardinality(doingIO')
    BY <1>2, <1>4, <2>1
  <2>4. CountMatchesHardware'
    BY <2>2, <2>3, Zenon DEF CountMatchesHardware
  <2> QED
    BY <1>1, <2>2, <2>4
<1> QED
  BY <1>3, <1>4

\* The start count through every other step: only termination stops the driver.
LEMMA OtherStepsCount ==
  ASSUME TypeOK, SessionInv, StampInv, CountInv, UNCHANGED counting,
         \/ ClockTicks \/ Fires \/ Publishes \/ Terminates \/ Activate
         \/ PerformConfigChange \/ UNCHANGED driverVars
  PROVE  CountInv'
<1> USE DEF CountInv, counting
<1>1. ASSUME gate' = "start" <=> gate = "start", mIsRunning' = mIsRunning,
             terminated => terminated'
      PROVE  CountInv'
  <2>1. mIsRunning' => mIsRunning
    BY <1>1, Zenon
  <2>2. (~terminated' => ~terminated) /\ (mIsRunning => mIsRunning')
    BY <1>1, Zenon
  <2>3. CountMatchesHardware'
    BY <2>1, <2>2, Zenon DEF CountMatchesHardware
  <2> QED
    BY <1>1, <2>3
<1>2. CASE ClockTicks
  BY <1>1, <1>2, Zenon DEF ClockTicks, Tick, hardware, session
<1>3. CASE Fires
  <2>1. gate = "free" /\ gate' = "fire" /\ mIsRunning' = mIsRunning
        /\ terminated' = terminated
    BY <1>3, Zenon DEF Fires, TimerFired, session
  <2> QED
    BY <1>1, <2>1
<1>4. CASE Publishes
  <2>1. gate = "fire" /\ gate' = "free" /\ mIsRunning' = mIsRunning
        /\ terminated' = terminated
    BY <1>4, Zenon DEF Publishes, PublishStamp, session
  <2> QED
    BY <1>1, <2>1
<1>5. CASE Activate
  BY <1>1, <1>5, Zenon DEF Activate, OpenCall, Open, hardware
<1>6. CASE PerformConfigChange
  <2>1. CASE mIsRunning
    <3>1. UNCHANGED driverVars
      BY <1>6, <2>1 DEF PerformConfigChange, ApplyRate
    <3> QED
      BY <1>1, <3>1, Zenon DEF driverVars, hardware, session
  <2>2. CASE ~mIsRunning
    BY <1>1, <1>6, <2>2, Zenon DEF PerformConfigChange, ApplyRate, SetSampleRate, session
  <2> QED
    BY <2>1, <2>2
<1>7. CASE UNCHANGED driverVars
  BY <1>1, <1>7, Zenon DEF driverVars, hardware, session
<1>8. CASE Terminates
  <2>1. CASE Terminate
    BY <1>1, <2>1, Zenon DEF Terminate, hardware
  <2>2. CASE BeginClose(Device, "didTerminate") \/ CloseEnds(Device, "didTerminate")
    BY <1>1, <2>2, Zenon DEF BeginClose, CloseEnds, hardware
  <2>3. CASE CloseStops(Device, "didTerminate")
    <3>1. terminated /\ terminated' = terminated /\ gate' = gate
      BY <2>3, SA_DeviceIOAssumption DEF CloseStops, StopHardwareGated, SessionInv
    <3>2. mIsRunning' => mIsRunning
      <4>1. CASE mIsRunning
        BY <4>1
      <4>2. CASE ~mIsRunning
        BY <2>3, <4>2, Zenon DEF CloseStops, StopHardwareGated
      <4> QED
        BY <4>1, <4>2
    <3>3. CountMatchesHardware'
      BY <3>1, <3>2, Zenon DEF CountMatchesHardware
    <3> QED
      BY <3>1, <3>3
  <2> QED
    BY <1>8, <2>1, <2>2, <2>3 DEF Terminates
<1> QED
  BY <1>2, <1>3, <1>4, <1>5, <1>6, <1>7, <1>8

\* The start count through every step.
LEMMA CountKeeps ==
  ASSUME IInv, CountInv, [DeviceNext]_deviceVars
  PROVE  CountInv'
<1> USE DEF IInv
<1>1. ASSUME NEW h \in Host, StartAnother(h) \/ StartFirst(h) \/ StartReturns(h)
      PROVE  CountInv'
  BY <1>1, StartsCount
<1>2. ASSUME NEW h \in Host, StopIO(h) PROVE CountInv'
  BY <1>2, StopsCount
<1>3. ASSUME NEW h \in Host,
             \/ DispatchRequest(h)
             \/ \E rate \in AskedRate : SetNominalSampleRate(h, rate)
      PROVE  UNCHANGED counting /\ UNCHANGED driverVars
  BY <1>3, Zenon DEF DispatchRequest, SetNominalSampleRate
<1>4. CASE BeginChange \/ ReadStep \/ UNCHANGED deviceVars
  <2>1. UNCHANGED counting /\ UNCHANGED driverVars
    BY <1>4, Zenon DEF BeginChange, deviceVars, ReadStep, ReadHostTime1, ReadSampleTime1,
                       ReadHostTime2, ReadSampleTime2, ReturnStamp
  <2> QED
    BY <2>1, OtherStepsCount
<1>5. CASE ClockTicks \/ Fires \/ Publishes \/ Terminates \/ Activate \/ PerformConfigChange
  <2>1. UNCHANGED counting
    BY <1>5, Zenon DEF ClockTicks, Fires, Publishes, Terminates, Activate, PerformConfigChange
  <2> QED
    BY <1>5, <2>1, OtherStepsCount
<1> QED
  BY <1>1, <1>2, <1>3, <1>4, <1>5, OtherStepsCount, Zenon DEF DeviceNext

\* What the published stamp is: the shared buffer, or, inside timerFired for any
\* stamp but the first, the buffer with the sample time one buffer back.
LEMMA PublishedFields ==
  ASSUME TypeOK
  PROVE  /\ Published.mHostTime = status.mHostTime
         /\ Published.mSampleTime = IF gate = "fire" /\ status.mHostTime # 0
                                    THEN status.mSampleTime - Frames
                                    ELSE status.mSampleTime
         /\ Published = [mSampleTime |-> Published.mSampleTime,
                         mHostTime |-> Published.mHostTime]
  BY SimpleAudioDriverAssumption DEF TypeOK, Published

\* A step that leaves the driver's buffer and the reading alone keeps what is known,
\* if I/O goes on.
LEMMA NotReading ==
  ASSUME ReadInv, UNCHANGED <<gate, status, theCurrentTime, reading>>,
         reader # "idle" => doingIO' # {}
  PROVE  ReadInv'
<1>1. Published' = Published
  BY DEF Published
<1> QED
  BY <1>1, Zenon DEF ReadInv, SkewAtMostOneBuffer, Fits, reading

\* timerFired's first write leaves the published stamp as it is.
LEMMA FiresRead ==
  ASSUME TypeOK, ReadInv, Fires, UNCHANGED doingIO
  PROVE  ReadInv'
<1> USE SimpleAudioDriverAssumption DEF TypeOK
<1>1. gate = "free" /\ gate' = "fire" /\ status'.mHostTime = status.mHostTime
      /\ theCurrentTime' = now /\ now > 0
  BY DEF Fires, TimerFired, Off
<1>2. Published' = Published /\ (status'.mHostTime = 0 => status'.mSampleTime = 0)
  <2>1. CASE status.mHostTime = 0
    <3>1. status.mSampleTime = 0
      BY <1>1, <2>1 DEF ReadInv
    <3>2. status' = [status EXCEPT !.mSampleTime = 0]
      BY <2>1 DEF Fires, TimerFired, FirstSampleTime
    <3>3. status' = status
      BY <3>1, <3>2
    <3> QED
      BY <1>1, <2>1, <3>1, <3>3 DEF Published
  <2>2. CASE status.mHostTime # 0
    <3>1. status' = [status EXCEPT !.mSampleTime = status.mSampleTime + Frames]
      BY <2>2 DEF Fires, TimerFired
    <3>2. Published = status
      BY <1>1 DEF Published
    <3>3. Published' = [status' EXCEPT !.mSampleTime = status'.mSampleTime - Frames]
      BY <1>1, <2>2 DEF Published
    <3>4. status'.mSampleTime - Frames = status.mSampleTime
      BY <3>1
    <3> QED
      BY <1>1, <2>2, <3>1, <3>2, <3>3, <3>4
  <2> QED
    BY <2>1, <2>2
<1>3. UNCHANGED <<reading, doingIO>>
  BY DEF Fires
<1> QED
  BY <1>1, <1>2, <1>3 DEF ReadInv, SkewAtMostOneBuffer, Fits, reading

\* timerFired's second write publishes a stamp later than all before it.
LEMMA PublishesRead ==
  ASSUME TypeOK, StampInv, ReadInv, Publishes, UNCHANGED doingIO
  PROVE  ReadInv'
<1> USE DEF TypeOK
<1>1. gate = "fire" /\ gate' = "free" /\ theCurrentTime' = 0
      /\ UNCHANGED <<reader, first, second>>
  BY DEF Publishes, PublishStamp
<1>2. status' = [status EXCEPT !.mHostTime = status'.mHostTime]
      /\ status'.mHostTime > status.mHostTime /\ status'.mHostTime \in Nat
  <2>1. CASE status.mHostTime = 0
    BY <1>1, <2>1 DEF Publishes, PublishStamp, ReadInv
  <2>2. CASE status.mHostTime # 0
    BY <2>2 DEF Publishes, PublishStamp
  <2> QED
    BY <2>1, <2>2
<1>3. Published' = status'
  BY <1>1 DEF Published
<1>4. reader # "idle" => window' = window \cup {status'}
  BY DEF Publishes
<1>5. reader' # "idle" => doingIO' # {} /\ Published' \in window'
  BY <1>1, <1>3, <1>4 DEF ReadInv
<1>6. reader' \in {"sample1", "host2"} => first'.mHostTime < status'.mHostTime
  <2> SUFFICES ASSUME reader \in {"sample1", "host2"}
               PROVE  first.mHostTime < status'.mHostTime
    BY <1>1
  <2>1. first.mHostTime <= status.mHostTime /\ first.mHostTime \in Nat
    BY DEF ReadInv
  <2> QED
    BY <1>2, <2>1
<1>7. reader' = "sample2" =>
        (first'.mHostTime = second'.mHostTime => \E stamp \in window' : Fits(first', stamp))
  BY <1>1, <1>4, Zenon DEF ReadInv
<1>8. SkewAtMostOneBuffer'
  BY <1>1, <1>4, Zenon DEF ReadInv, SkewAtMostOneBuffer
<1>9. status'.mHostTime # 0 /\ gate' # "start" /\ gate' # "fire"
  BY <1>1, <1>2
<1>10. reader' \in {"sample1", "host2"} =>
         first'.mHostTime <= status'.mHostTime /\ first'.mHostTime # status'.mHostTime
  <2> SUFFICES ASSUME reader' \in {"sample1", "host2"}
               PROVE first'.mHostTime <= status'.mHostTime
                     /\ first'.mHostTime # status'.mHostTime
    OBVIOUS
  <2>1. first'.mHostTime \in Nat
    BY <1>1 DEF ReadInv
  <2> QED
    BY <1>2, <1>6, <2>1
<1> QED
  BY <1>1, <1>5, <1>7, <1>8, <1>9, <1>10 DEF ReadInv

\* Nobody reads while the hardware is started for the first client.
LEMMA StartsRead ==
  ASSUME TypeOK, CountInv, ReadInv, NEW h \in Host, StartFirst(h) \/ StartReturns(h)
  PROVE  ReadInv'
<1>1. doingIO = {}
  <2>1. CASE StartFirst(h)
    BY <2>1, HostsFinite DEF StartFirst, CountInv, CountMatchesHardware
  <2>2. CASE StartReturns(h)
    BY <2>2, SA_DeviceIOAssumption DEF StartReturns, CountInv
  <2> QED
    BY <2>1, <2>2
<1>2. reader = "idle" /\ reader' = "idle" /\ first' = first /\ second' = second
  BY <1>1 DEF ReadInv, StartFirst, StartReturns, reading
<1>3. /\ gate' = "start" => status'.mSampleTime = 0
      /\ gate' # "start" => status'.mSampleTime = 0
      /\ gate' # "fire"
  <2>1. CASE StartFirst(h)
    BY <2>1 DEF StartFirst, StartHardware, TypeOK
  <2>2. CASE StartReturns(h)
    BY <2>2 DEF StartReturns, StartTimer, TypeOK, ReadInv
  <2> QED
    BY <2>1, <2>2
<1> QED
  BY <1>2, <1>3 DEF ReadInv, SkewAtMostOneBuffer

\* The four reads and the return.
LEMMA ReadsRead ==
  ASSUME TypeOK, ReadInv, ReadStep
  PROVE  ReadInv'
<1> USE SimpleAudioDriverAssumption DEF TypeOK
<1>1. UNCHANGED <<gate, status, theCurrentTime, doingIO>>
  BY DEF ReadStep, ReadHostTime1, ReadSampleTime1, ReadHostTime2, ReadSampleTime2,
         ReturnStamp, driverVars, hardware, counting
<1>2. Published' = Published
  BY <1>1 DEF Published
<1>3. CASE ReadHostTime1
  <2>1. reader' = "sample1" /\ first' = [first EXCEPT !.mHostTime = status.mHostTime]
        /\ second' = second
    BY <1>3 DEF ReadHostTime1
  <2>2. Published \in window' /\ doingIO # {}
    BY <1>3 DEF ReadHostTime1, ReadInv
  <2> QED
    BY <1>1, <1>2, <2>1, <2>2 DEF ReadInv, SkewAtMostOneBuffer
<1>4. CASE ReadSampleTime1
  <2>1. reader = "sample1" /\ reader' = "host2" /\ second' = second /\ window' = window
        /\ first' = [first EXCEPT !.mSampleTime = status.mSampleTime]
    BY <1>4 DEF ReadSampleTime1
  <2>2. first'.mHostTime = status.mHostTime => Fits(first', Published)
    BY <2>1, PublishedFields DEF Fits, ReadInv
  <2> QED
    BY <1>1, <1>2, <2>1, <2>2 DEF ReadInv, SkewAtMostOneBuffer, Fits
<1>5. CASE ReadHostTime2
  <2>1. reader = "host2" /\ reader' = "sample2" /\ first' = first /\ window' = window
        /\ second' = [second EXCEPT !.mHostTime = status.mHostTime]
    BY <1>5 DEF ReadHostTime2
  <2>2. second' \in [mSampleTime : Nat, mHostTime : Nat]
        /\ second'.mHostTime = status.mHostTime
    BY <2>1 DEF ReadInv
  <2>3. first'.mHostTime = second'.mHostTime => \E stamp \in window' : Fits(first', stamp)
    BY <2>1, <2>2 DEF ReadInv
  <2> QED
    BY <1>1, <1>2, <2>1, <2>2, <2>3 DEF ReadInv, SkewAtMostOneBuffer
<1>6. CASE ReadSampleTime2
  <2>1. reader = "sample2" /\ window' = window /\ second' = NoStamp
    BY <1>6 DEF ReadSampleTime2
  <2>2. CASE first = [second EXCEPT !.mSampleTime = status.mSampleTime]
    <3>1. reader' = "done" /\ first' = first
      BY <1>6, <2>2 DEF ReadSampleTime2, Agree
    <3>2. first.mHostTime = second.mHostTime
      BY <2>2 DEF ReadInv
    <3>3. SkewAtMostOneBuffer'
      BY <2>1, <3>1, <3>2, Zenon DEF ReadInv, SkewAtMostOneBuffer, Fits
    <3> QED
      BY <1>1, <1>2, <2>1, <3>1, <3>3 DEF ReadInv, NoStamp
  <2>3. CASE first # [second EXCEPT !.mSampleTime = status.mSampleTime]
    <3>1. reader' = "retry" /\ first' = NoStamp
      BY <1>6, <2>3 DEF ReadSampleTime2, Agree
    <3> QED
      BY <1>1, <1>2, <2>1, <3>1 DEF ReadInv, SkewAtMostOneBuffer, NoStamp
  <2> QED
    BY <2>2, <2>3
<1>7. CASE ReturnStamp
  BY <1>1, <1>7 DEF ReturnStamp, ReadInv, SkewAtMostOneBuffer, NoStamp
<1> QED
  BY <1>3, <1>4, <1>5, <1>6, <1>7 DEF ReadStep

\* What a reading knows, through every step.
LEMMA ReadKeeps ==
  ASSUME IInv, CountInv, ReadInv, [DeviceNext]_deviceVars
  PROVE  ReadInv'
<1> USE DEF IInv
<1>1. CASE Fires \/ Publishes
  <2>1. UNCHANGED doingIO
    BY <1>1 DEF Fires, Publishes, counting
  <2> QED
    BY <1>1, <2>1, FiresRead, PublishesRead
<1>2. ASSUME NEW h \in Host, StartFirst(h) \/ StartReturns(h) PROVE ReadInv'
  BY <1>2, StartsRead
<1>3. CASE ReadStep
  BY <1>3, ReadsRead
<1>4. CASE UNCHANGED driverVars /\ UNCHANGED reading /\ UNCHANGED doingIO
  BY <1>4, NotReading, Zenon DEF driverVars, hardware, ReadInv
<1>5. ASSUME NEW h \in Host, StartAnother(h) PROVE ReadInv'
  <2>1. UNCHANGED <<gate, status, theCurrentTime, reading>>
    BY <1>5, Zenon DEF StartAnother, driverVars, hardware
  <2>2. doingIO' # {}
    BY <1>5 DEF StartAnother, Started
  <2> QED
    BY <2>1, <2>2, NotReading
<1>6. ASSUME NEW h \in Host, StopIO(h) PROVE ReadInv'
  <2>1. UNCHANGED <<gate, status, theCurrentTime, reading>>
    <3>1. CASE LastStop
      BY <1>6, <3>1, Zenon DEF StopIO, StopHardware, StopHardwareGated
    <3>2. CASE ~LastStop
      BY <1>6, <3>2, Zenon DEF StopIO, driverVars, hardware
    <3> QED
      BY <3>1, <3>2
  <2>2. reader # "idle" => doingIO' # {}
    BY <1>6 DEF StopIO
  <2> QED
    BY <2>1, <2>2, NotReading
<1>7. ASSUME NEW h \in Host,
             \/ DispatchRequest(h)
             \/ \E rate \in AskedRate : SetNominalSampleRate(h, rate)
      PROVE  ReadInv'
  <2>1. UNCHANGED <<driverVars, reading, doingIO>>
    BY <1>7, Zenon DEF DispatchRequest, SetNominalSampleRate, counting
  <2> QED
    BY <1>4, <2>1
<1>8. CASE BeginChange \/ UNCHANGED deviceVars
  <2>1. UNCHANGED <<driverVars, reading, doingIO>>
    BY <1>8, Zenon DEF BeginChange, deviceVars, counting
  <2> QED
    BY <1>4, <2>1
<1>9. CASE PerformConfigChange
  <2>1. UNCHANGED <<gate, status, theCurrentTime>>
    <3>1. CASE mIsRunning
      <4>1. UNCHANGED driverVars
        BY <1>9, <3>1 DEF PerformConfigChange, ApplyRate
      <4> QED
        BY <4>1, Zenon DEF driverVars, hardware
    <3>2. CASE ~mIsRunning
      BY <1>9, <3>2, Zenon DEF PerformConfigChange, ApplyRate, SetSampleRate
    <3> QED
      BY <3>1, <3>2
  <2>2. UNCHANGED reading /\ UNCHANGED doingIO
    BY <1>9, Zenon DEF PerformConfigChange, counting
  <2> QED
    BY <2>1, <2>2, NotReading, Zenon DEF ReadInv
<1>10. CASE ClockTicks \/ Terminates \/ Activate
  <2>1. UNCHANGED <<gate, status, theCurrentTime>>
    BY <1>10, Zenon DEF ClockTicks, Tick, Terminates, Terminate, BeginClose, CloseStops,
      StopHardwareGated, CloseEnds, Activate, OpenCall, Open, hardware
  <2>2. UNCHANGED reading /\ UNCHANGED doingIO
    BY <1>10, Zenon DEF ClockTicks, Terminates, Activate, counting
  <2> QED
    BY <2>1, <2>2, NotReading, Zenon DEF ReadInv
<1> QED
  BY <1>1, <1>2, <1>3, <1>5, <1>6, <1>7, <1>8, <1>9, <1>10, Zenon DEF DeviceNext

-----------------------------------------------------------------------------

\* The device starts in a state of its invariant.
LEMMA DeviceInitInv == DeviceInit => IInv /\ DeviceInv
<1> SUFFICES ASSUME DeviceInit PROVE IInv /\ DeviceInv
  OBVIOUS
<1>1. IInv
  BY InitInv DEF DeviceInit
<1>2. RatesInv
  BY DEF DeviceInit, RatesInv
<1>3. CountInv
  <2>1. mStartCount = Cardinality(doingIO) /\ ~(mStartCount > 0)
    BY FS_EmptySet DEF DeviceInit
  <2>2. mIsRunning = FALSE /\ gate = "free" /\ stateMutex = None /\ doingIO = {}
    BY DEF DeviceInit, Init
  <2>3. CountMatchesHardware
    BY <2>1, <2>2, Zenon DEF CountMatchesHardware
  <2> QED
    BY <2>2, <2>3 DEF CountInv
<1>4. ReadInv
  BY DEF DeviceInit, Init, ReadInv, NoStamp, SkewAtMostOneBuffer
<1> QED
  BY <1>1, <1>2, <1>3, <1>4 DEF DeviceInv

\* Every step of the device keeps the driver's invariant and its own.
LEMMA DeviceNextInv ==
  IInv /\ DeviceInv /\ [DeviceNext]_deviceVars => IInv' /\ DeviceInv'
  BY DriverStep, NextInv, RatesKeep, CountKeeps, ReadKeeps DEF DeviceInv

\* The invariants hold in every state of the device.
THEOREM DeviceInvariance == DeviceSpec => [](IInv /\ DeviceInv)
<1>1. DeviceInit => IInv /\ DeviceInv
  BY DeviceInitInv
<1>2. (IInv /\ DeviceInv) /\ [DeviceNext]_deviceVars => (IInv /\ DeviceInv)'
  BY DeviceNextInv
<1> QED
  BY <1>1, <1>2, PTL DEF DeviceSpec

-----------------------------------------------------------------------------

\* Every variable of SA_Device's I/O keeps its type.
THEOREM DeviceTypeCorrect == DeviceSpec => []DeviceTypeOK
<1>1. DeviceInv => DeviceTypeOK
  <2> SUFFICES ASSUME DeviceInv PROVE DeviceTypeOK
    OBVIOUS
  <2>1. mStartCount \in 0 .. Cardinality(Host)
    <3>1. mStartCount \in Nat /\ mStartCount <= Cardinality(Host)
      BY HostsFinite DEF DeviceInv, CountInv, CountMatchesHardware
    <3>2. Cardinality(Host) \in Nat
      BY HostsFinite
    <3> QED
      BY <3>1, <3>2
  <2>2. setting \in [Host -> SupportedRates \cup {None}]
        /\ change \in SupportedRates \cup {None}
    BY DEF DeviceInv, RatesInv, Rates
  <2>3. \A i \in DOMAIN requests : requests[i] \in SupportedRates
    BY DEF DeviceInv, RatesInv, Rates
  <2> QED
    BY <2>1, <2>2, <2>3 DEF DeviceInv, CountInv, ReadInv, DeviceTypeOK
<1> QED
  BY <1>1, DeviceInvariance, PTL

\* mStartCount counts the clients doing I/O and agrees with the driver's mIsRunning.
THEOREM CountIsRight == DeviceSpec => []CountMatchesHardware
<1>1. DeviceInv => CountMatchesHardware
  BY DEF DeviceInv, CountInv
<1> QED
  BY <1>1, DeviceInvariance, PTL

\* A stamp from GetZeroTimeStamp's double reading is off by at most one buffer.
THEOREM SkewIsBounded == DeviceSpec => []SkewAtMostOneBuffer
<1>1. DeviceInv => SkewAtMostOneBuffer
  BY DEF DeviceInv, ReadInv
<1> QED
  BY <1>1, DeviceInvariance, PTL

\* A change of rate that PerformConfigChange passes on is never refused.
THEOREM ChangeIsApplied == DeviceSpec => ConfigChangeApplies
<1> DEFINE Applies == change # None /\ change' = None => mSampleRate' = change
<1>1. ASSUME DeviceInv, [DeviceNext]_deviceVars PROVE [Applies]_deviceVars
  <2> SUFFICES ASSUME change # None, change' = None PROVE mSampleRate' = change
    OBVIOUS
  <2>1. PerformConfigChange
    <3>1. ~UNCHANGED change
      OBVIOUS
    <3>2. ~BeginChange
      BY DEF BeginChange
    <3> QED
      BY <1>1, <3>1, <3>2, Zenon DEF DeviceNext, deviceVars, changing, ClockTicks, Fires,
        Publishes, Terminates, Activate, StartAnother, StartFirst, StartReturns, StopIO,
        SetNominalSampleRate, DispatchRequest, ReadStep, ReadHostTime1, ReadSampleTime1,
        ReadHostTime2, ReadSampleTime2, ReturnStamp
  <2>2. ~mIsRunning
    <3>1. mStartCount = 0
      BY <1>1, <2>1, FS_EmptySet DEF DeviceInv, CountInv, CountMatchesHardware,
                                      PerformConfigChange
    <3>2. ~(mStartCount > 0)
      BY <3>1
    <3> QED
      BY <1>1, <3>2, Zenon DEF DeviceInv, CountInv, CountMatchesHardware
  <2> QED
    BY <2>1, <2>2 DEF PerformConfigChange, ApplyRate, SetSampleRate
<1> QED
  BY <1>1, DeviceInvariance, PTL DEF DeviceSpec, ConfigChangeApplies
=============================================================================

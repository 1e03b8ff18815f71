------------------------- MODULE SimpleAudioDriver -------------------------
(***************************************************************************)
(* The SimpleAudio kernel driver with its user clients, from a successful  *)
(* start() on.  Every command runs through the driver's IOCommandGate and  *)
(* the timer that stands in for the hardware's interrupt runs on the same  *)
(* work loop, so at most one of them is under way: "gate" says which.  The *)
(* two fields of the status buffer are written one after the other, and    *)
(* the buffer is mapped into other tasks, so the state between the two     *)
(* writes is a state of its own.                                           *)
(*                                                                         *)
(* A user client serves several threads of its task, and closing is three  *)
(* calls (isOpen, stopHardware, close) that are not atomic together.       *)
(* Nothing keeps the calls of a connection apart: a client can be closed,  *)
(* by its task or because the task died, while its other calls are under   *)
(* way, and all but method_Open are served even after that.                *)
(***************************************************************************)
EXTENDS Integers

CONSTANTS
    Client,     \* the user clients
    None,       \* no client
    AskedRate,  \* the sample rates a client may ask for
    Frames,     \* mIOBufferFrameSize
    Second,     \* host ticks per second
    MaxTime     \* bound on the uptime clock

SupportedRates == {44100, 48000}

\* mHostTicksPerBuffer for a sample rate.
Ticks(rate) == (Frames * Second) \div rate

ASSUME SimpleAudioDriverAssumption ==
    /\ None \notin Client
    /\ Frames \in Nat \ {0}
    /\ MaxTime \in Nat
    /\ \A rate \in SupportedRates : Ticks(rate) \in Nat \ {0}

\* The paths that close a user client's session with the driver.
Closer == {"method_Close", "clientClose", "didTerminate"}

\* A timer that is not armed.
Off == 0

VARIABLES
    now,                  \* the uptime clock
    gate,                 \* the handler that holds the work loop between two of its writes
    mIsRunning, mSampleRate, mHostTicksPerBuffer,
    status,               \* the shared SimpleAudioDriverStatus
    theCurrentTime,       \* timerFired's reading of the clock, while it runs
    timeout,              \* when mTimerEventSource goes off
    owner,                \* the client that IOService::open let in
    opening,              \* the clients inside method_Open, past its checks
    closing,              \* how far each closing path of each client is
    terminated,           \* IOKit has begun to terminate the driver
    overlapped            \* history: the clients with an open under way at some
                          \* time since their clientClose began

timing == <<mSampleRate, mHostTicksPerBuffer>>
hardware == <<gate, mIsRunning, timing, status, theCurrentTime, timeout>>
session == <<owner, opening, closing, terminated, overlapped>>
driverVars == <<now, hardware, session>>

Init ==
    /\ now = 0
    /\ gate = "free"
    /\ mIsRunning = FALSE
    /\ mSampleRate = 44100
    /\ mHostTicksPerBuffer = Ticks(44100)
    /\ status = [mSampleTime |-> 0, mHostTime |-> 0]
    /\ theCurrentTime = 0
    /\ timeout = Off
    /\ owner = None
    /\ opening = {}
    /\ closing = [c \in Client |-> [k \in Closer |-> "idle"]]
    /\ terminated = FALSE
    /\ overlapped = {}

\* isInactive(): clientClose and the driver's termination make a client so.
Inactive(c) == terminated \/ closing[c]["clientClose"] = "done"

-----------------------------------------------------------------------------
(* The hardware, on the work loop. *)

\* Faulty variant: the timer is added and never set.
FirstWakeTimeUnset == Off

\* One buffer from now: the first stamp is taken when the timer goes off.
FirstWakeTime == now + Ticks(mSampleRate)

\* Faulty variant: the next wake-up is computed before the stamp advances.
NextWakeTimeStale(hostTime) == hostTime

\* One buffer after a stamp.
NextWakeTime(hostTime) == hostTime + mHostTicksPerBuffer

\* The sample time of the first stamp.
FirstSampleTime == 0

\* The clock is bounded, and leaves room for the first stamp of a start.
InTime(t) == t + Ticks(mSampleRate) <= MaxTime

Tick ==
    /\ now < MaxTime
    /\ gate = "start" => InTime(now + 1)
    /\ now' = now + 1
    /\ UNCHANGED <<hardware, session>>

\* startHardware, up to startTimer's first write.  A driver that runs already
\* is left alone.
StartHardware ==
    /\ gate = "free" /\ ~mIsRunning
    /\ InTime(now)
    /\ gate' = "start"
    /\ status' = [status EXCEPT !.mSampleTime = 0]
    /\ UNCHANGED <<now, mIsRunning, timing, theCurrentTime, timeout, session>>

\* The rest of startTimer and of _startHardware.
StartTimer ==
    /\ gate = "start"
    /\ gate' = "free"
    /\ status' = [status EXCEPT !.mHostTime = 0]
    /\ mHostTicksPerBuffer' = Ticks(mSampleRate)
    /\ timeout' = FirstWakeTime
    /\ mIsRunning' = TRUE
    /\ UNCHANGED <<now, mSampleRate, theCurrentTime, session>>

\* timerFired up to its first write.
TimerFired ==
    /\ gate = "free" /\ timeout # Off /\ timeout <= now
    /\ gate' = "fire"
    /\ timeout' = Off
    /\ theCurrentTime' = now
    /\ status' = [status EXCEPT !.mSampleTime =
                    IF status.mHostTime # 0 THEN @ + Frames ELSE FirstSampleTime]
    /\ UNCHANGED <<now, mIsRunning, timing, session>>

\* The rest of timerFired.
PublishStamp ==
    /\ gate = "fire"
    /\ gate' = "free"
    /\ status' = [status EXCEPT !.mHostTime =
                    IF @ # 0 THEN @ + mHostTicksPerBuffer ELSE theCurrentTime]
    /\ timeout' = NextWakeTime(status'.mHostTime)
    /\ theCurrentTime' = 0
    /\ UNCHANGED <<now, mIsRunning, timing, session>>

\* Faulty variant: the timer is left armed.
StopQuietly == mIsRunning' = FALSE /\ UNCHANGED timeout

\* What _stopHardware changes when the hardware runs.
Stop == mIsRunning' = FALSE /\ timeout' = Off

\* _stopHardware.
StopHardwareGated ==
    /\ gate = "free"
    /\ IF mIsRunning THEN Stop ELSE UNCHANGED <<mIsRunning, timeout>>
    /\ UNCHANGED <<now, gate, timing, status, theCurrentTime>>

\* stopHardware as a client calls it, open or not.
StopHardware == StopHardwareGated /\ UNCHANGED session

\* _setSampleRate.  A rate that is not supported is refused, and so is any
\* rate while the hardware runs.
SetSampleRate(rate) ==
    /\ gate = "free" /\ ~mIsRunning
    /\ rate \in SupportedRates
    /\ mSampleRate' = rate
    /\ mHostTicksPerBuffer' = Ticks(rate)
    /\ UNCHANGED <<now, gate, mIsRunning, status, theCurrentTime, timeout, session>>

-----------------------------------------------------------------------------
(* The user clients' sessions. *)

\* method_Open finds its client active.
OpenCall(c) ==
    /\ ~Inactive(c)
    /\ c \notin opening
    /\ opening' = opening \cup {c}
    /\ overlapped' = IF closing[c]["clientClose"] = "idle" THEN overlapped
                                                         ELSE overlapped \cup {c}
    /\ UNCHANGED <<now, hardware, owner, closing, terminated>>

\* IOService::open lets one client in, and nobody once termination has begun.
Open(c) ==
    /\ c \in opening
    /\ opening' = opening \ {c}
    /\ owner' = IF owner = None /\ ~terminated THEN c ELSE owner
    /\ UNCHANGED <<now, hardware, closing, terminated, overlapped>>

\* Where a closing path goes from its calls of the driver: the client can be
\* closed again, has terminate() still to call, or is done.
Closed(k) == CASE k = "method_Close" -> "idle"
               [] k = "clientClose"  -> "leaving"
               [] k = "didTerminate" -> "done"

\* Faulty variant: the hardware is stopped and the driver is left open.
AfterStopForgets(k) == Closed(k)

\* The stage after stopHardware.
AfterStop(k) == "close"

\* IOKit calls didTerminate once termination has begun, and not for a client
\* that has gone.  The other two paths begin at any time.
MayClose(c, k) ==
    k = "didTerminate" => terminated /\ closing[c]["clientClose"] # "done"

\* The isOpen test each closing path begins with.
BeginClose(c, k) ==
    /\ closing[c][k] = "idle"
    /\ MayClose(c, k)
    /\ closing' = [closing EXCEPT ![c][k] = IF owner = c THEN "stop" ELSE Closed(k)]
    /\ overlapped' = IF k = "clientClose" /\ c \in opening THEN overlapped \cup {c}
                                                           ELSE overlapped
    /\ UNCHANGED <<now, hardware, owner, opening, terminated>>

CloseStops(c, k) ==
    /\ closing[c][k] = "stop"
    /\ StopHardwareGated
    /\ closing' = [closing EXCEPT ![c][k] = AfterStop(k)]
    /\ UNCHANGED <<owner, opening, terminated, overlapped>>

\* IOService::close, which does nothing for a client that is not the owner.
CloseEnds(c, k) ==
    /\ closing[c][k] = "close"
    /\ closing' = [closing EXCEPT ![c][k] = Closed(k)]
    /\ owner' = IF owner = c THEN None ELSE owner
    /\ UNCHANGED <<now, hardware, opening, terminated, overlapped>>

\* The terminate() that ends clientClose: from here on the client is inactive.
Leave(c) ==
    /\ closing[c]["clientClose"] = "leaving"
    /\ closing' = [closing EXCEPT ![c]["clientClose"] = "done"]
    /\ UNCHANGED <<now, hardware, owner, opening, terminated, overlapped>>

\* IOKit makes the driver and its clients inactive before it calls didTerminate.
Terminate ==
    /\ ~terminated
    /\ terminated' = TRUE
    /\ UNCHANGED <<now, hardware, owner, opening, closing, overlapped>>

\* Calls that do not ask who makes them.
HardwareCall ==
    \/ StartHardware \/ StopHardware
    \/ \E rate \in AskedRate : SetSampleRate(rate)

SessionCall(c) ==
    \/ OpenCall(c) \/ Open(c) \/ Leave(c)
    \/ \E k \in Closer : BeginClose(c, k) \/ CloseStops(c, k) \/ CloseEnds(c, k)

Next ==
    \/ Tick \/ StartTimer \/ TimerFired \/ PublishStamp \/ HardwareCall
    \/ Terminate \/ \E c \in Client : SessionCall(c)

\* The clock runs, the timer goes off and the work loop finishes what it began.
Fairness ==
    /\ WF_driverVars(Tick)
    /\ WF_driverVars(StartTimer)
    /\ WF_driverVars(TimerFired)
    /\ WF_driverVars(PublishStamp)

SafetySpec == Init /\ [][Next]_driverVars
Spec == SafetySpec /\ Fairness

-----------------------------------------------------------------------------
(* Properties *)

\* Every variable has its type.
TypeOK ==
    /\ now \in Nat
    /\ gate \in {"free", "start", "fire"}
    /\ mIsRunning \in BOOLEAN
    /\ mSampleRate \in SupportedRates
    /\ mHostTicksPerBuffer \in Nat \ {0}
    /\ status \in [mSampleTime : Nat, mHostTime : Nat]
    /\ theCurrentTime \in Nat
    /\ timeout \in Nat
    /\ owner \in Client \cup {None}
    /\ opening \subseteq Client
    /\ closing \in [Client -> [Closer -> {"idle", "stop", "close", "leaving", "done"}]]
    /\ terminated \in BOOLEAN
    /\ overlapped \subseteq Client

\* The host time in the status buffer has passed.  timerFired never stores the
\* clock after the first stamp: it adds one buffer to the last stamp, so the
\* stamp keeps up with the clock, and never runs ahead, only because each
\* wake-up is one buffer after it and the rate stands still in between.
StampNotInFuture == status.mHostTime <= now

\* Once the hardware is stopped the status buffer stays as it is until the next
\* start: a cancelled timer does not stamp.
QuietWhenStopped ==
    [][~mIsRunning /\ gate = "free" /\ status' # status => gate' = "start"]_driverVars

\* A client that has left does not leave the driver open behind it, although its
\* isOpen tests, stops and closes interleave on several paths: never when it left
\* by didTerminate, and by clientClose only when an open of its own overlapped the
\* close.  Such an open, past its isInactive test, is served to a client that has
\* gone; the driver then stays closed to everybody else.
GoneClientIsNotOwner == \A c \in Client :
    /\ closing[c]["didTerminate"] = "done" => owner # c
    /\ closing[c]["clientClose"] = "done" /\ owner = c => c \in overlapped

\* Hardware that is started publishes its first stamp, unless it is stopped.
FirstStampComes == mIsRunning ~> (status.mHostTime # 0 \/ ~mIsRunning)
=============================================================================

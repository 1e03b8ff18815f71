--------------------------- MODULE MyAudioEngine ---------------------------
(***************************************************************************)
(* The audio engine: a timer that stands in for an interrupt moves through *)
(* the sample buffer one period at a time, tells the audio family when the *)
(* buffer wraps, and sets itself again against the time it should have     *)
(* fired, so that being late once does not make it late for good.          *)
(*                                                                         *)
(* start, stop, the rate change and the interrupt run on the work loop,    *)
(* one at a time.  Time is counted in ticks; frames, in periods.           *)
(***************************************************************************)
EXTENDS Integers

CONSTANTS
    Interval,       \* kAudioInterruptInterval, in ticks
    Periods,        \* kAudioInterruptHZ / 2, the periods in the buffer
    Latency,        \* how late a timer can fire, in ticks
    Wrap,           \* ticks in the 32 bits that setTimeoutUS takes
    MaxTime         \* bound: time

ASSUME EngineAssumption ==
    /\ Interval \in Nat \ {0} /\ Periods \in Nat \ {0}
    /\ Latency \in Nat
    /\ Wrap \in Nat /\ Wrap > Interval
    /\ MaxTime \in Nat

VARIABLES
    engine,             \* "stopped" or "running"
    fInterruptCount,
    fNextTimeout,
    due,                \* when the timer is to fire
    uptime,
    startTime,          \* when performAudioEngineStart last ran
    wrapped,            \* history: a time handed to setTimeoutUS since then was negative
    loops,              \* what takeTimeStamp has told the family: the loop count
    loopTime            \* and the time of its last stamp

stampVars == <<loops, loopTime>>
engineVars == <<engine, fInterruptCount, fNextTimeout, due, uptime, startTime, wrapped, stampVars>>

EngineInit ==
    /\ engine = "stopped"
    /\ fInterruptCount = 0
    /\ fNextTimeout = 0
    /\ due = 0
    /\ uptime = 0
    /\ startTime = 0
    /\ wrapped = FALSE
    /\ loops = 0
    /\ loopTime = 0
-----------------------------------------------------------------------------
\* Time passes; a timer fires at most Latency late.
Elapse ==
    /\ uptime < MaxTime
    /\ engine = "running" => uptime < due + Latency
    /\ uptime' = uptime + 1
    /\ UNCHANGED <<engine, fInterruptCount, fNextTimeout, due, startTime, wrapped, stampVars>>

\* The stamp that starts the engine does not count a loop.
performAudioEngineStart ==
    /\ engine = "stopped"
    /\ engine' = "running"
    /\ fInterruptCount' = 0
    /\ loops' = 0 /\ loopTime' = uptime
    /\ due' = uptime + Interval
    /\ fNextTimeout' = uptime + Interval
    /\ startTime' = uptime
    /\ wrapped' = FALSE
    /\ UNCHANGED uptime

performAudioEngineStop ==
    /\ engine = "running"
    /\ engine' = "stopped"
    /\ UNCHANGED <<fInterruptCount, fNextTimeout, due, uptime, startTime, wrapped, stampVars>>

\* handleAudioInterrupt: copy a period, stamp a wrap if it is the first of the
\* buffer, move on.
bufferPosition == fInterruptCount % Periods
handleAudioInterrupt ==
    /\ IF bufferPosition = 0
       THEN loops' = loops + 1 /\ loopTime' = uptime
       ELSE UNCHANGED stampVars
    /\ fInterruptCount' = fInterruptCount + 1

\* Faulty variant: counts from when the timer fired.
TimeoutPlain(time) == Interval
\* interruptOccured: the timer is set for the next interval from when it was due.
\* If it is later than that already the time left is negative, and the cast to
\* UInt32 makes it almost the longest there is.
TimeoutFrom(time) == (Interval + (fNextTimeout - time)) % Wrap
interruptOccured ==
    /\ engine = "running"
    /\ uptime >= due
    /\ handleAudioInterrupt
    /\ due' = uptime + TimeoutFrom(uptime)
    /\ fNextTimeout' = fNextTimeout + Interval
    /\ wrapped' = (wrapped \/ uptime - fNextTimeout > Interval)
    /\ UNCHANGED <<engine, uptime, startTime>>

\* The position the engine reports, in periods.
getCurrentSampleFrame == fInterruptCount % Periods

EngineNext ==
    \/ Elapse
    \/ performAudioEngineStart
    \/ performAudioEngineStop
    \/ interruptOccured
EngineSpec == EngineInit /\ [][EngineNext]_engineVars
-----------------------------------------------------------------------------
EngineTypeOK ==
    /\ engine \in {"stopped", "running"}
    /\ fInterruptCount \in Nat
    /\ fNextTimeout \in Nat
    /\ due \in Nat
    /\ uptime \in 0 .. MaxTime
    /\ startTime \in 0 .. uptime
    /\ wrapped \in BOOLEAN
    /\ loops \in Nat
    /\ loopTime \in 0 .. uptime

\* The engine's position is that of the time since it started: the interrupts it
\* has handled are those that were due, but for one that may be late now.  However
\* often a timer was late the lateness does not add up, as long as no timer has
\* been more than an interval late; after one that has, the position stands still
\* until the wrapped timeout has passed, but it is never ahead.
PositionTracksTime ==
    engine = "running" =>
        LET elapsed == uptime - startTime IN
        /\ fInterruptCount * Interval <= elapsed
        /\ ~wrapped => elapsed <= (fInterruptCount + 1) * Interval + Latency

\* A position that is extrapolated from the last stamp, as the family does, and
\* the one that the engine reports stay together on the circle of the buffer: the
\* reported one is behind by at most an interval and the lateness of the timer,
\* and ahead by at most two intervals.  One of the two is there without any
\* lateness: a wrap is stamped one period after the reported position has wrapped.
StampsNearPosition ==
    engine = "running" /\ ~wrapped =>
        LET extrapolated == uptime - loopTime IN
        \E turn \in {0, Periods} :
            (getCurrentSampleFrame + turn) * Interval - extrapolated
                \in -(Interval + Latency) .. 2 * Interval

\* The loops that the family has counted account for the time up to the last
\* stamp, within a buffer and not exactly: the first interrupt counts a loop when
\* one period has passed, so that a loop is never counted late by more than an
\* interval, and is counted early by up to a whole buffer.
LoopsNearTime ==
    engine = "running" /\ ~wrapped =>
        loops * Periods * Interval - (loopTime - startTime)
            \in -Interval .. Periods * Interval

EngineOnTime == PositionTracksTime /\ StampsNearPosition /\ LoopsNearTime
=============================================================================

---------------------------- MODULE NullAudio_IO ----------------------------
(***************************************************************************)
(* NullAudio's clock: clients start and stop I/O on the device and, while  *)
(* they run, ask for its zero time stamps; its sample rate is changed by a *)
(* request to the host that is performed later, with I/O stopped.          *)
(*                                                                         *)
(* The clock's state is written by StartIO under the state mutex and by    *)
(* GetZeroTimeStamp under the I/O mutex: no lock keeps the two apart.      *)
(***************************************************************************)
EXTENDS Integers, FiniteSets

CONSTANTS
    IOClient,
    Period,         \* host ticks a ring buffer takes at each rate
    MaxNow,         \* bound: host time
    MaxAsked        \* bound: requests for a rate that are not performed yet

Rate == {44100, 48000}

ASSUME PeriodAssumption == Period \in [Rate -> Nat \ {0}]
ASSUME ClientAssumption == IsFiniteSet(IOClient) /\ MaxNow \in Nat

VARIABLES
    gDevice_SampleRate,
    gDevice_HostTicks,          \* gDevice_HostTicksPerFrame * kDevice_RingBufferSize
    gDevice_IOIsRunning,
    gDevice_NumberTimeStamps,
    gDevice_AnchorHostTime,
    hostNow,                    \* mach_absolute_time
    running,                    \* the clients between StartIO and StopIO
    stamping,                   \* the client inside GetZeroTimeStamp, with the time it read
    lastStamp,                  \* the last stamp each running client got
    rateAsked                   \* rates on their way to RequestDeviceConfigurationChange

clockVars == <<gDevice_NumberTimeStamps, gDevice_AnchorHostTime>>
rateVars == <<gDevice_SampleRate, gDevice_HostTicks>>
ioVars == <<clockVars, rateVars, gDevice_IOIsRunning, hostNow, running, stamping, lastStamp, rateAsked>>

NoStamp == [sample |-> 0, host |-> 0, valid |-> FALSE]

IOInit ==
    /\ gDevice_SampleRate = 44100
    /\ gDevice_HostTicks = Period[44100]
    /\ gDevice_IOIsRunning = 0
    /\ gDevice_NumberTimeStamps = 0
    /\ gDevice_AnchorHostTime = 0
    /\ hostNow = 0
    /\ running = {}
    /\ stamping = {}
    /\ lastStamp = [c \in IOClient |-> NoStamp]
    /\ rateAsked = {}

Tick ==
    /\ hostNow < MaxNow
    /\ hostNow' = hostNow + 1
    /\ UNCHANGED <<clockVars, rateVars, gDevice_IOIsRunning, running, stamping, lastStamp, rateAsked>>

\* Faulty variant: every client starts the clock.
StartIOAnew(c) ==
    /\ c \notin running
    /\ running' = running \cup {c}
    /\ lastStamp' = [lastStamp EXCEPT ![c] = NoStamp]
    /\ gDevice_IOIsRunning' = gDevice_IOIsRunning + 1
    /\ gDevice_NumberTimeStamps' = 0 /\ gDevice_AnchorHostTime' = hostNow
    /\ UNCHANGED <<rateVars, hostNow, stamping, rateAsked>>
\* The first client starts the clock.
StartIO(c) ==
    /\ c \notin running
    /\ running' = running \cup {c}
    /\ lastStamp' = [lastStamp EXCEPT ![c] = NoStamp]
    /\ gDevice_IOIsRunning' = gDevice_IOIsRunning + 1
    /\ IF gDevice_IOIsRunning = 0
       THEN gDevice_NumberTimeStamps' = 0 /\ gDevice_AnchorHostTime' = hostNow
       ELSE UNCHANGED clockVars
    /\ UNCHANGED <<rateVars, hostNow, stamping, rateAsked>>

\* A client stops after its last call for a stamp has returned.
StopIO(c) ==
    /\ c \in running
    /\ \A s \in stamping : s.client # c
    /\ running' = running \ {c}
    /\ gDevice_IOIsRunning' = gDevice_IOIsRunning - 1
    /\ UNCHANGED <<clockVars, rateVars, hostNow, stamping, lastStamp, rateAsked>>

\* GetZeroTimeStamp takes the I/O mutex and reads the time ...
ReadHostTime(c) ==
    /\ c \in running
    /\ stamping = {}
    /\ stamping' = {[client |-> c, time |-> hostNow]}
    /\ UNCHANGED <<clockVars, rateVars, gDevice_IOIsRunning, hostNow, running, lastStamp, rateAsked>>

\* Faulty variant: off by one.
NumberAfterEarly(time) ==
    IF gDevice_AnchorHostTime + gDevice_NumberTimeStamps * gDevice_HostTicks <= time
    THEN gDevice_NumberTimeStamps + 1 ELSE gDevice_NumberTimeStamps
\* ... and moves the clock on by at most one ring buffer.
NumberAfter(time) ==
    IF gDevice_AnchorHostTime + (gDevice_NumberTimeStamps + 1) * gDevice_HostTicks <= time
    THEN gDevice_NumberTimeStamps + 1 ELSE gDevice_NumberTimeStamps
GetZeroTimeStamp ==
    \E s \in stamping :
        /\ gDevice_NumberTimeStamps' = NumberAfter(s.time)
        /\ lastStamp' = [lastStamp EXCEPT ![s.client] =
              [sample |-> gDevice_NumberTimeStamps',
               host |-> gDevice_AnchorHostTime + gDevice_NumberTimeStamps' * gDevice_HostTicks,
               valid |-> TRUE]]
        /\ stamping' = {}
        /\ UNCHANGED <<gDevice_AnchorHostTime, rateVars, gDevice_IOIsRunning, hostNow, running, rateAsked>>

\* The rate is set on the device or in a stream's format: it is compared with
\* the present one and handed to a concurrent queue.
SetRate(r) ==
    /\ r # gDevice_SampleRate
    /\ Cardinality(rateAsked \cup {r}) <= MaxAsked
    /\ rateAsked' = rateAsked \cup {r}
    /\ UNCHANGED <<clockVars, rateVars, gDevice_IOIsRunning, hostNow, running, stamping, lastStamp>>

\* The host performs a request with I/O stopped.
PerformDeviceConfigurationChange(r) ==
    /\ r \in rateAsked
    /\ running = {}
    /\ rateAsked' = rateAsked \ {r}
    /\ gDevice_SampleRate' = r
    /\ gDevice_HostTicks' = Period[r]
    /\ UNCHANGED <<clockVars, gDevice_IOIsRunning, hostNow, running, stamping, lastStamp>>
AbortDeviceConfigurationChange(r) ==
    /\ r \in rateAsked
    /\ rateAsked' = rateAsked \ {r}
    /\ UNCHANGED <<clockVars, rateVars, gDevice_IOIsRunning, hostNow, running, stamping, lastStamp>>

IONext ==
    \/ Tick
    \/ \E c \in IOClient : StartIO(c) \/ StopIO(c) \/ ReadHostTime(c)
    \/ GetZeroTimeStamp
    \/ \E r \in Rate :
        \/ SetRate(r)
        \/ PerformDeviceConfigurationChange(r)
        \/ AbortDeviceConfigurationChange(r)
IOSpec == IOInit /\ [][IONext]_ioVars
-----------------------------------------------------------------------------
IOTypeOK ==
    /\ gDevice_SampleRate \in Rate
    /\ gDevice_HostTicks = Period[gDevice_SampleRate]
    /\ gDevice_IOIsRunning = Cardinality(running)
    /\ gDevice_NumberTimeStamps \in Nat
    /\ gDevice_AnchorHostTime \in Nat
    /\ hostNow \in 0 .. MaxNow
    /\ running \subseteq IOClient
    /\ stamping \subseteq [client : running, time : 0 .. hostNow]
    /\ lastStamp \in [IOClient -> [sample : Nat, host : Nat, valid : BOOLEAN]]
    /\ rateAsked \subseteq Rate

Stamped == {c \in running : lastStamp[c].valid}

\* The clients that run see one clock: their last stamps lie on one line whose
\* slope is the rate they all run at, and none of them is in the future.
OneClock ==
    \A c, d \in Stamped :
        /\ lastStamp[c].host - lastStamp[d].host
              = (lastStamp[c].sample - lastStamp[d].sample) * Period[gDevice_SampleRate]
        /\ lastStamp[c].host <= hostNow

\* While a client runs its stamps never go back, whatever the other clients do.
StampsAdvance ==
    [][\A c \in Stamped : c \in running' /\ lastStamp'[c].valid =>
          lastStamp'[c].sample >= lastStamp[c].sample]_ioVars
=============================================================================

------------------------- MODULE Standalone_proofs -------------------------
(***************************************************************************)
(* Safety of four small components: the clocks of the two audio samples    *)
(* that keep their own, and the two network extensions.                    *)
(*                                                                         *)
(* NullAudio's clock is one line for all clients that run, whatever they   *)
(* do and however many they are, and it does not run ahead.  Neither lock  *)
(* keeps a start apart from a stamp; what does is that a start finds the   *)
(* count of clients above 0 while any of them can be inside a stamp.       *)
(*                                                                         *)
(* The audio engine's position and stamps follow the time since it was     *)
(* started, for every length of an interval and of the buffer and however  *)
(* late a timer can be.  fNextTimeout is the start plus a whole number of  *)
(* intervals, one more than the interrupts handled.  The timer is never    *)
(* due before it, and is due at it while none has been so late that the    *)
(* time left wrapped.                                                      *)
(*                                                                         *)
(* The wall holds and its cookies live, for any finite set of sockets.     *)
(* Both rest on what the flags say of the kernel's view of the filter: the *)
(* entries are freed when g_filter_registered is clear, and from the end   *)
(* of start() on that means that the kernel has no filter.                 *)
(*                                                                         *)
(* The Ethernet driver delivers what it accepts once and in order, for any *)
(* number of threads that raise interrupts and any bounds.  It rests on    *)
(* the queue being emptied before the driver lets the filter go.           *)
(***************************************************************************)
EXTENDS NullAudio_IO, MyAudioEngine, AppWall, MyEthernetDriver,
        FiniteSetTheorems, SequenceTheorems, TLAPS

-----------------------------------------------------------------------------
(* NullAudio's clock.                                                      *)

\* Where the clock stands after n ring buffers.
LineAt(n) == gDevice_AnchorHostTime + n * gDevice_HostTicks

\* While anybody runs the last ring buffer counted has passed.
ClockPassed == running # {} => LineAt(gDevice_NumberTimeStamps) <= hostNow

\* Every stamp a running client holds lies on the line and is not ahead of the count.
StampsOnLine ==
    \A c \in Stamped :
        /\ lastStamp[c].sample <= gDevice_NumberTimeStamps
        /\ lastStamp[c].host = LineAt(lastStamp[c].sample)
        /\ lastStamp[c].host <= hostNow

IOInv == IOTypeOK /\ ClockPassed /\ StampsOnLine
-----------------------------------------------------------------------------
\* The count of running clients is 0 exactly when nobody runs, and follows a
\* client that starts or stops.
LEMMA RunningCount ==
    ASSUME running \subseteq IOClient
    PROVE  /\ Cardinality(running) \in Nat
           /\ Cardinality(running) = 0 <=> running = {}
           /\ \A c \in IOClient \ running : Cardinality(running \cup {c}) = Cardinality(running) + 1
           /\ \A c \in running : Cardinality(running \ {c}) = Cardinality(running) - 1
<1>1. IsFiniteSet(running)
  BY ClientAssumption, FS_Subset
<1> QED  BY <1>1, FS_CardinalityType, FS_EmptySet, FS_AddElement, FS_RemoveElement

\* A buffer takes a whole number of ticks at either rate.
LEMMA HostTicks ==
    ASSUME IOTypeOK PROVE gDevice_HostTicks \in Nat
BY PeriodAssumption DEF IOTypeOK

\* A stamp moves the count on by one buffer that has passed, or not at all.
LEMMA NextNumber ==
    ASSUME IOTypeOK, NEW time \in Nat
    PROVE  /\ NumberAfter(time) \in Nat
           /\ NumberAfter(time) >= gDevice_NumberTimeStamps
           /\ \/ NumberAfter(time) = gDevice_NumberTimeStamps
              \/ LineAt(NumberAfter(time)) <= time
BY DEF IOTypeOK, NumberAfter, LineAt

LEMMA IOInvInit == IOInit => IOInv
<1> SUFFICES ASSUME IOInit PROVE IOInv
  OBVIOUS
<1>1. IOTypeOK
  BY PeriodAssumption, ClientAssumption, FS_EmptySet DEF IOInit, IOTypeOK, NoStamp, Rate
<1> QED  BY <1>1 DEF IOInit, IOInv, ClockPassed, StampsOnLine, Stamped
-----------------------------------------------------------------------------
LEMMA StartStep ==
    ASSUME IOInv, NEW c \in IOClient, StartIO(c)
    PROVE  IOInv'
<1> USE DEF IOInv
<1>0. /\ running \subseteq IOClient /\ c \notin running
      /\ running' = running \cup {c}
      /\ lastStamp' = [lastStamp EXCEPT ![c] = NoStamp]
      /\ UNCHANGED <<gDevice_SampleRate, gDevice_HostTicks, hostNow, stamping, rateAsked>>
  BY DEF IOTypeOK, StartIO, rateVars
<1>1. IOTypeOK'
  <2>1. gDevice_IOIsRunning' = Cardinality(running')
    BY <1>0, RunningCount DEF IOTypeOK, StartIO
  <2>2. gDevice_NumberTimeStamps' \in Nat /\ gDevice_AnchorHostTime' \in Nat
    BY DEF IOTypeOK, StartIO, clockVars
  <2> QED  BY <1>0, <2>1, <2>2 DEF IOTypeOK, NoStamp
<1>2. CASE running = {}
  <2>1. gDevice_NumberTimeStamps' = 0 /\ gDevice_AnchorHostTime' = hostNow
    BY <1>2, <1>0, RunningCount DEF IOTypeOK, StartIO
  <2>2. LineAt(gDevice_NumberTimeStamps)' = hostNow
    BY <1>0, <2>1, HostTicks DEF LineAt, IOTypeOK
  <2>3. Stamped' = {}
    BY <1>0, <1>2 DEF Stamped, NoStamp, IOTypeOK
  <2> QED  BY <1>0, <1>1, <2>2, <2>3 DEF ClockPassed, StampsOnLine, IOTypeOK
<1>3. CASE running # {}
  <2>1. UNCHANGED clockVars
    BY <1>3, <1>0, RunningCount DEF IOTypeOK, StartIO
  <2>2. ClockPassed'
    BY <1>0, <1>3, <2>1 DEF ClockPassed, LineAt, clockVars
  <2>3. \A d \in Stamped' : d \in Stamped /\ lastStamp'[d] = lastStamp[d]
    BY <1>0 DEF Stamped, NoStamp, IOTypeOK
  <2> QED  BY <1>0, <1>1, <2>1, <2>2, <2>3 DEF StampsOnLine, LineAt, clockVars
<1> QED  BY <1>2, <1>3

LEMMA StopStep ==
    ASSUME IOInv, NEW c \in IOClient, StopIO(c)
    PROVE  IOInv'
<1> USE DEF IOInv
<1>0. /\ running \subseteq IOClient /\ c \in running
      /\ running' = running \ {c}
      /\ UNCHANGED <<clockVars, rateVars, hostNow, stamping, lastStamp, rateAsked>>
  BY DEF IOTypeOK, StopIO
<1>1. gDevice_IOIsRunning' = Cardinality(running')
  BY <1>0, RunningCount DEF IOTypeOK, StopIO
<1>2. stamping \subseteq [client : running', time : 0 .. hostNow]
  BY <1>0 DEF IOTypeOK, StopIO
<1>3. IOTypeOK'
  BY <1>0, <1>1, <1>2 DEF IOTypeOK, clockVars, rateVars
<1>4. Stamped' \subseteq Stamped
  BY <1>0 DEF Stamped
<1> QED  BY <1>0, <1>3, <1>4 DEF ClockPassed, StampsOnLine, LineAt, clockVars, rateVars

LEMMA StampStep ==
    ASSUME IOInv, GetZeroTimeStamp
    PROVE  IOInv'
<1> USE DEF IOInv
<1> PICK s \in stamping :
        /\ gDevice_NumberTimeStamps' = NumberAfter(s.time)
        /\ lastStamp' = [lastStamp EXCEPT ![s.client] =
              [sample |-> gDevice_NumberTimeStamps',
               host |-> gDevice_AnchorHostTime + gDevice_NumberTimeStamps' * gDevice_HostTicks,
               valid |-> TRUE]]
        /\ stamping' = {}
        /\ UNCHANGED <<gDevice_AnchorHostTime, rateVars, gDevice_IOIsRunning, hostNow, running, rateAsked>>
  BY DEF GetZeroTimeStamp
<1>0. s.client \in running /\ s.client \in IOClient /\ s.time \in 0 .. hostNow /\ hostNow \in Nat
  BY ClientAssumption DEF IOTypeOK
<1>a. UNCHANGED <<gDevice_AnchorHostTime, gDevice_SampleRate, gDevice_HostTicks, gDevice_IOIsRunning,
                  hostNow, running, rateAsked>>
  BY DEF rateVars
<1> DEFINE n == gDevice_NumberTimeStamps'
<1>1. n \in Nat /\ n >= gDevice_NumberTimeStamps
      /\ (n = gDevice_NumberTimeStamps \/ LineAt(n) <= s.time)
  BY <1>0, NextNumber
<1>2. LineAt(n) \in Nat /\ LineAt(n) <= hostNow
  <2>1. LineAt(n) \in Nat
    <3>1. n * gDevice_HostTicks \in Nat
      <4> HIDE DEF n
      <4> QED  BY <1>1, HostTicks
    <3> HIDE DEF n
    <3> QED  BY <3>1 DEF LineAt, IOTypeOK
  <2>2. LineAt(gDevice_NumberTimeStamps) <= hostNow  BY <1>0 DEF ClockPassed
  <2> HIDE DEF n
  <2>3. CASE n = gDevice_NumberTimeStamps  BY <2>1, <2>2, <2>3
  <2>4. CASE LineAt(n) <= s.time  BY <1>0, <2>1, <2>4
  <2> QED  BY <1>1, <2>3, <2>4
<1>3. lastStamp' = [lastStamp EXCEPT ![s.client] = [sample |-> n, host |-> LineAt(n), valid |-> TRUE]]
  BY DEF LineAt
<1> HIDE DEF n
<1>b. gDevice_NumberTimeStamps' = n  BY DEF n
<1>4. IOTypeOK'
  BY <1>0, <1>a, <1>b, <1>1, <1>2, <1>3 DEF IOTypeOK
<1>7. ClockPassed'
  BY <1>a, <1>b, <1>2 DEF ClockPassed, LineAt
<1>8. StampsOnLine'
  <2> SUFFICES ASSUME NEW d \in Stamped'
               PROVE  /\ lastStamp'[d].sample <= n
                      /\ lastStamp'[d].host = gDevice_AnchorHostTime + lastStamp'[d].sample * gDevice_HostTicks
                      /\ lastStamp'[d].host <= hostNow
    BY <1>a, <1>b DEF StampsOnLine, LineAt
  <2>0. d \in IOClient /\ d \in running /\ lastStamp'[d].valid
    BY <1>a DEF Stamped, IOTypeOK
  <2>1. CASE d = s.client
    <3>1. lastStamp'[d] = [sample |-> n, host |-> LineAt(n), valid |-> TRUE]
      BY <1>3, <2>0, <2>1 DEF IOTypeOK
    <3>2. lastStamp'[d].sample = n /\ lastStamp'[d].host = LineAt(n)
      BY <3>1
    <3>3. LineAt(n) = gDevice_AnchorHostTime + n * gDevice_HostTicks
      BY DEF LineAt
    <3> QED  BY <3>2, <3>3, <1>1, <1>2
  <2>2. CASE d # s.client
    <3>1. lastStamp'[d] = lastStamp[d] /\ d \in Stamped
      BY <1>3, <2>0, <2>2 DEF IOTypeOK, Stamped
    <3>2. lastStamp[d].sample \in Nat /\ gDevice_NumberTimeStamps \in Nat
      BY <2>0 DEF IOTypeOK
    <3> QED  BY <3>1, <3>2, <1>1 DEF StampsOnLine, LineAt
  <2> QED  BY <2>1, <2>2
<1> QED  BY <1>4, <1>7, <1>8
-----------------------------------------------------------------------------
LEMMA IOInvStep == IOInv /\ [IONext]_ioVars => IOInv'
<1> SUFFICES ASSUME IOInv, [IONext]_ioVars PROVE IOInv'
  OBVIOUS
<1> USE DEF IOInv
<1>1. CASE Tick
  <2>1. /\ hostNow' = hostNow + 1 /\ hostNow' \in 0 .. MaxNow /\ hostNow \in Nat
        /\ UNCHANGED <<gDevice_NumberTimeStamps, gDevice_AnchorHostTime, gDevice_SampleRate, gDevice_HostTicks,
                       gDevice_IOIsRunning, running, stamping, lastStamp, rateAsked>>
    BY <1>1, ClientAssumption DEF Tick, IOTypeOK, clockVars, rateVars
  <2>2. IOTypeOK'
    <3>1. stamping \subseteq [client : running, time : 0 .. hostNow']
      BY <2>1 DEF IOTypeOK
    <3> QED  BY <2>1, <3>1 DEF IOTypeOK
  <2>3. ClockPassed'
    <3>1. LineAt(gDevice_NumberTimeStamps) \in Nat
      <4>1. gDevice_NumberTimeStamps * gDevice_HostTicks \in Nat  BY HostTicks DEF IOTypeOK
      <4> QED  BY <4>1 DEF LineAt, IOTypeOK
    <3> HIDE DEF IOInv
    <3>2. LineAt(gDevice_NumberTimeStamps)' = LineAt(gDevice_NumberTimeStamps)
      BY <2>1 DEF LineAt
    <3> QED  BY <2>1, <3>1, <3>2 DEF ClockPassed, IOInv
  <2>4. StampsOnLine'
    <3> SUFFICES ASSUME NEW d \in Stamped
                 PROVE  /\ lastStamp[d].sample <= gDevice_NumberTimeStamps
                        /\ lastStamp[d].host = LineAt(lastStamp[d].sample)
                        /\ lastStamp[d].host <= hostNow'
      BY <2>1 DEF StampsOnLine, LineAt, Stamped
    <3>1. lastStamp[d].host \in Nat  BY DEF IOTypeOK, Stamped
    <3> QED  BY <2>1, <3>1 DEF StampsOnLine
  <2> QED  BY <2>2, <2>3, <2>4
<1>2. ASSUME NEW c \in IOClient, StartIO(c) PROVE IOInv'
  BY <1>2, StartStep
<1>3. ASSUME NEW c \in IOClient, StopIO(c) PROVE IOInv'
  BY <1>3, StopStep
<1>4. ASSUME NEW c \in IOClient, ReadHostTime(c) PROVE IOInv'
  <2>1. /\ stamping' \subseteq [client : running, time : 0 .. hostNow]
        /\ UNCHANGED <<clockVars, rateVars, gDevice_IOIsRunning, hostNow, running, lastStamp, rateAsked>>
    BY <1>4, ClientAssumption DEF ReadHostTime, IOTypeOK
  <2> QED  BY <2>1 DEF IOTypeOK, ClockPassed, StampsOnLine, Stamped, LineAt, clockVars, rateVars
<1>5. CASE GetZeroTimeStamp
  BY <1>5, StampStep
<1>6. ASSUME NEW r \in Rate, SetRate(r) \/ AbortDeviceConfigurationChange(r) PROVE IOInv'
  BY <1>6 DEF SetRate, AbortDeviceConfigurationChange, IOTypeOK, ClockPassed, StampsOnLine, Stamped,
              LineAt, clockVars, rateVars
<1>7. ASSUME NEW r \in Rate, PerformDeviceConfigurationChange(r) PROVE IOInv'
  <2>1. /\ running = {} /\ gDevice_SampleRate' = r /\ gDevice_HostTicks' = Period[r]
        /\ rateAsked' = rateAsked \ {r}
        /\ UNCHANGED <<clockVars, gDevice_IOIsRunning, hostNow, running, stamping, lastStamp>>
    BY <1>7 DEF PerformDeviceConfigurationChange
  <2> QED  BY <2>1 DEF IOTypeOK, ClockPassed, StampsOnLine, Stamped, clockVars
<1>8. CASE UNCHANGED ioVars
  BY <1>8 DEF ioVars, IOTypeOK, ClockPassed, StampsOnLine, Stamped, LineAt, clockVars, rateVars
<1> QED  BY <1>1, <1>2, <1>3, <1>4, <1>5, <1>6, <1>7, <1>8 DEF IONext

LEMMA IOInvAlways == IOSpec => []IOInv
BY IOInvInit, IOInvStep, PTL DEF IOSpec
-----------------------------------------------------------------------------
\* Type correctness, with the count of clients and the ticks of the present rate.
THEOREM ClockTypeCorrect == IOSpec => []IOTypeOK
BY IOInvAlways, PTL DEF IOInv

\* The clients that run see one clock, and none of its stamps is in the future.
THEOREM ClientsShareClock == IOSpec => []OneClock
<1>1. IOInv => OneClock
  <2> SUFFICES ASSUME IOInv, NEW c \in Stamped, NEW d \in Stamped
               PROVE  /\ lastStamp[c].host - lastStamp[d].host
                            = (lastStamp[c].sample - lastStamp[d].sample) * Period[gDevice_SampleRate]
                      /\ lastStamp[c].host <= hostNow
    BY DEF OneClock
  <2> DEFINE m == lastStamp[c].sample
             n == lastStamp[d].sample
             T == gDevice_HostTicks
             A == gDevice_AnchorHostTime
  <2>1. m \in Nat /\ n \in Nat /\ T \in Nat /\ A \in Nat /\ Period[gDevice_SampleRate] = T
    BY HostTicks DEF IOInv, IOTypeOK, Stamped
  <2>2. lastStamp[c].host = A + m * T /\ lastStamp[d].host = A + n * T /\ lastStamp[c].host <= hostNow
    BY DEF IOInv, StampsOnLine, LineAt
  <2> HIDE DEF m, n, T, A
  <2>3. (A + m * T) - (A + n * T) = (m - n) * T  BY <2>1
  <2> QED  BY <2>1, <2>2, <2>3 DEF m, n, T, A
<1> QED  BY <1>1, IOInvAlways, PTL

\* No step takes a running client's clock back.
THEOREM ClockAdvances == IOSpec => StampsAdvance
<1> DEFINE Advance == \A c \in Stamped : c \in running' /\ lastStamp'[c].valid =>
                          lastStamp'[c].sample >= lastStamp[c].sample
<1>1. IOInv /\ [IONext]_ioVars => [Advance]_ioVars
  <2> SUFFICES ASSUME IOInv, IONext, NEW c \in Stamped, c \in running', lastStamp'[c].valid
               PROVE  lastStamp'[c].sample >= lastStamp[c].sample
    OBVIOUS
  <2>0. c \in running /\ c \in IOClient /\ lastStamp[c].sample \in Nat
    BY DEF IOInv, IOTypeOK, Stamped
  <2>1. CASE UNCHANGED lastStamp
    BY <2>0, <2>1
  <2>2. ASSUME NEW d \in IOClient, StartIO(d) PROVE lastStamp'[c].sample >= lastStamp[c].sample
    <3>1. d # c /\ lastStamp'[c] = lastStamp[c]
      BY <2>0, <2>2 DEF StartIO, IOInv, IOTypeOK
    <3> QED  BY <2>0, <3>1
  <2>3. CASE GetZeroTimeStamp
    <3> PICK s \in stamping :
            /\ gDevice_NumberTimeStamps' = NumberAfter(s.time)
            /\ lastStamp' = [lastStamp EXCEPT ![s.client] =
                  [sample |-> gDevice_NumberTimeStamps',
                   host |-> gDevice_AnchorHostTime + gDevice_NumberTimeStamps' * gDevice_HostTicks,
                   valid |-> TRUE]]
      BY <2>3 DEF GetZeroTimeStamp
    <3>1. s.time \in Nat  BY ClientAssumption DEF IOInv, IOTypeOK
    <3>2. gDevice_NumberTimeStamps' \in Nat /\ gDevice_NumberTimeStamps' >= gDevice_NumberTimeStamps
      BY <3>1, NextNumber DEF IOInv
    <3>3. lastStamp[c].sample <= gDevice_NumberTimeStamps /\ gDevice_NumberTimeStamps \in Nat
      BY DEF IOInv, IOTypeOK, StampsOnLine
    <3>4. CASE s.client = c
      <4>1. lastStamp'[c].sample = gDevice_NumberTimeStamps'
        BY <2>0, <3>4 DEF IOInv, IOTypeOK
      <4> QED  BY <2>0, <3>2, <3>3, <4>1
    <3>5. CASE s.client # c
      <4>1. lastStamp'[c] = lastStamp[c]
        BY <2>0, <3>5 DEF IOInv, IOTypeOK
      <4> QED  BY <2>0, <4>1
    <3> QED  BY <3>4, <3>5
  <2> QED
    BY <2>1, <2>2, <2>3 DEF IONext, Tick, StopIO, ReadHostTime, SetRate,
       PerformDeviceConfigurationChange, AbortDeviceConfigurationChange
<1> QED  BY <1>1, IOInvAlways, PTL DEF IOSpec, StampsAdvance

-----------------------------------------------------------------------------
(* The audio engine.                                                       *)

\* fNextTimeout is the time at which the next interrupt should come, and the timer
\* is set to it or, after a wrap, to a later one.
OnSchedule ==
    engine = "running" =>
        /\ fNextTimeout = startTime + (fInterruptCount + 1) * Interval
        /\ fNextTimeout <= due
        /\ fNextTimeout - Interval <= uptime
        /\ uptime <= due + Latency
        /\ ~wrapped => due = fNextTimeout

\* The last loop to be counted began, with an interrupt no more than an interval
\* late, a number of periods ago that its length bounds.
InLoop ==
    engine = "running" /\ ~wrapped =>
        IF fInterruptCount = 0 THEN loops = 0 /\ loopTime = startTime
        ELSE LET first == (loops - 1) * Periods IN
             /\ loops >= 1
             /\ fInterruptCount - first \in 1 .. Periods
             /\ loopTime - (startTime + (first + 1) * Interval) \in 0 .. Interval

EngineInv == EngineTypeOK /\ OnSchedule /\ InLoop
-----------------------------------------------------------------------------
\* A multiple of P less than P away from 0 is 0.
LEMMA SmallMultiple ==
    ASSUME NEW P \in Nat \ {0}, NEW x \in Int, -P < x * P, x * P < P
    PROVE  x = 0
<1>1. CASE x >= 1
  <2>1. (x - 1) * P >= 0  BY <1>1
  <2>2. x * P = (x - 1) * P + P  OBVIOUS
  <2> QED  BY <2>1, <2>2
<1>2. CASE x <= -1
  <2>1. (-1 - x) * P >= 0  BY <1>2
  <2>2. x * P = -((-1 - x) * P) - P  OBVIOUS
  <2> QED  BY <2>1, <2>2
<1> QED  BY <1>1, <1>2

\* The remainder of a multiple and less than one more.
LEMMA Remainder ==
    ASSUME NEW P \in Nat \ {0}, NEW q \in Int, NEW r \in 0 .. P - 1
    PROVE  (q * P + r) % P = r
<1> DEFINE a == q * P + r
<1> DEFINE d == a \div P
<1>1. a \in Int  OBVIOUS
<1>2. d \in Int /\ a % P \in 0 .. P - 1 /\ a = d * P + (a % P)
  <2> HIDE DEF a
  <2> QED  BY <1>1
<1>3. (q - d) * P = (a % P) - r
  <2>1. (q - d) * P = q * P - d * P  BY <1>2
  <2> QED  BY <1>2, <2>1
<1>4. q - d = 0
  <2> HIDE DEF a, d
  <2>1. q - d \in Int  BY <1>2
  <2>2. -P < (q - d) * P /\ (q - d) * P < P  BY <1>2, <1>3
  <2> QED  BY <2>1, <2>2, SmallMultiple
<1>5. (q - d) * P = 0  BY <1>2, <1>4
<1> QED  BY <1>2, <1>3, <1>5

\* A position in the loop with n - 1 loops before it, and whether it ends there.
LEMMA LoopEnds ==
    ASSUME NEW P \in Nat \ {0}, NEW n \in Int, NEW k \in Int, k - (n - 1) * P \in 1 .. P
    PROVE  /\ k % P = 0 <=> k = n * P
           /\ k % P = (k - (n - 1) * P) % P
<1> DEFINE r == k - (n - 1) * P
<1>0. (n - 1) * P \in Int /\ n * P = (n - 1) * P + P  OBVIOUS
<1>1. CASE r = P
  <2>1. k = n * P + 0  BY <1>0, <1>1
  <2>2. (n * P + 0) % P = 0  BY Remainder
  <2>3. (1 * P + 0) % P = 0  BY Remainder
  <2>4. P = 1 * P + 0  OBVIOUS
  <2> QED  BY <2>1, <2>2, <2>3, <2>4, <1>0, <1>1
<1>2. CASE r # P
  <2>1. r \in 1 .. P - 1 /\ r \in 0 .. P - 1  BY <1>0, <1>2
  <2>2. k = (n - 1) * P + r  BY <1>0
  <2>3. ((n - 1) * P + r) % P = r
    <3> HIDE DEF r
    <3>1. n - 1 \in Int  OBVIOUS
    <3> QED  BY <2>1, <3>1, Remainder
  <2>4. (0 * P + r) % P = r  BY <2>1, Remainder
  <2>5. r = 0 * P + r  BY <2>1
  <2> QED  BY <2>1, <2>2, <2>3, <2>4, <2>5, <1>0, <1>2
<1> QED  BY <1>1, <1>2
-----------------------------------------------------------------------------
\* A timer is not set for a time before the next interrupt should come, and one at
\* most an interval late is set for exactly that time.
LEMMA NextDue ==
    ASSUME EngineTypeOK, OnSchedule, interruptOccured
    PROVE  /\ due' \in Nat /\ fNextTimeout' = fNextTimeout + Interval
           /\ uptime' = uptime /\ uptime >= fNextTimeout /\ uptime <= due'
           /\ fNextTimeout' <= due'
           /\ uptime - fNextTimeout <= Interval => due' = fNextTimeout'
<1> USE EngineAssumption
<1> DEFINE left == Interval + (fNextTimeout - uptime)
           set == left % Wrap
<1>0. /\ fNextTimeout \in Nat /\ uptime \in Nat /\ uptime' = uptime
      /\ uptime >= fNextTimeout /\ fNextTimeout' = fNextTimeout + Interval
      /\ due' = uptime + set
  BY DEF EngineTypeOK, OnSchedule, interruptOccured, TimeoutFrom
<1>1. left \in Int /\ left <= Interval  BY <1>0
<1>2. set \in 0 .. Wrap - 1
  <2> HIDE DEF left
  <2> QED  BY <1>1
<1>3. left >= 0 => set = left
  <2>1. left >= 0 => Wrap \in Nat \ {0} /\ left \in 0 .. Wrap - 1  BY <1>1
  <2> HIDE DEF left
  <2>2. left >= 0 => (0 * Wrap + left) % Wrap = left  BY <2>1, Remainder
  <2> QED  BY <2>1, <2>2
<1>4. left >= 0 <=> uptime - fNextTimeout <= Interval  BY <1>0
<1>5. left >= 0 => uptime + left = fNextTimeout + Interval  BY <1>0
<1>6. left < 0 => uptime > fNextTimeout + Interval  BY <1>0
<1> HIDE DEF left, set
<1> QED  BY <1>0, <1>1, <1>2, <1>3, <1>4, <1>5, <1>6

LEMMA EngineInvInit == EngineInit => EngineInv
<1> SUFFICES ASSUME EngineInit PROVE EngineInv
  OBVIOUS
<1>1. wrapped = FALSE
  BY Zenon DEF EngineInit
<1>2. wrapped \in BOOLEAN
  BY <1>1, Zenon
<1> QED  BY <1>2, EngineAssumption DEF EngineInit, EngineInv, EngineTypeOK, OnSchedule, InLoop

\* An interrupt keeps the schedule.
LEMMA ScheduleKept ==
    ASSUME EngineTypeOK, OnSchedule, interruptOccured
    PROVE  OnSchedule'
<1> USE EngineAssumption
<1> DEFINE now == (fInterruptCount + 1) * Interval
           next == (fInterruptCount + 1 + 1) * Interval
<1>1. now \in Int /\ next = now + Interval  BY DEF EngineTypeOK
<1>2. /\ engine = "running" /\ fInterruptCount' = fInterruptCount + 1
      /\ UNCHANGED <<engine, startTime>>
      /\ wrapped' = (wrapped \/ uptime - fNextTimeout > Interval)
  BY DEF interruptOccured, handleAudioInterrupt
<1> HIDE DEF now, next
<1>3. fNextTimeout = startTime + now  BY <1>2 DEF OnSchedule, now
<1>4. fNextTimeout' = startTime' + next
  BY <1>1, <1>2, <1>3, NextDue DEF EngineTypeOK
<1>5. ~wrapped' => uptime - fNextTimeout <= Interval
  <2>1. ~wrapped' => ~(uptime - fNextTimeout > Interval)
    BY <1>2, Zenon
  <2> QED  BY <2>1 DEF EngineTypeOK
<1>6. uptime' <= due' + Latency /\ fNextTimeout' - Interval <= uptime'
  BY NextDue DEF EngineTypeOK
<1> QED  BY <1>2, <1>4, <1>5, <1>6, NextDue DEF OnSchedule, next

\* An interrupt keeps the place in the loop.
LEMMA LoopKept ==
    ASSUME EngineTypeOK, OnSchedule, InLoop, interruptOccured
    PROVE  InLoop'
<1> USE EngineAssumption
<1> SUFFICES ASSUME ~wrapped' PROVE InLoop'
  BY DEF InLoop
<1> DEFINE first == (loops - 1) * Periods
<1>a. ~wrapped /\ ~(uptime - fNextTimeout > Interval)
  BY Zenon DEF interruptOccured
<1>0. /\ engine = "running" /\ uptime >= due /\ ~wrapped
      /\ uptime - fNextTimeout <= Interval
      /\ fInterruptCount' = fInterruptCount + 1
      /\ startTime' = startTime /\ uptime' = uptime
  BY <1>a DEF interruptOccured, handleAudioInterrupt, EngineTypeOK
<1>1. /\ due = startTime + (fInterruptCount + 1) * Interval
      /\ uptime <= due + Interval
  BY <1>0 DEF OnSchedule, EngineTypeOK
<1>2. CASE fInterruptCount = 0
  <2>1. fInterruptCount % Periods = 0
    <3>1. (0 * Periods + 0) % Periods = 0  BY Remainder
    <3> QED  BY <1>2, <3>1
  <2>2. loops' = 1 /\ loopTime' = uptime
    BY <1>0, <1>2, <2>1 DEF InLoop, interruptOccured, handleAudioInterrupt, bufferPosition
  <2>3. (1 - 1) * Periods = 0  OBVIOUS
  <2> QED
    BY <1>0, <1>1, <1>2, <2>2, <2>3 DEF EngineTypeOK, InLoop
<1>3. CASE fInterruptCount # 0
  <2>0. /\ loops >= 1 /\ fInterruptCount - first \in 1 .. Periods
        /\ loopTime - (startTime + (first + 1) * Interval) \in 0 .. Interval
    BY <1>0, <1>3 DEF InLoop
  <2>a. first \in Int /\ loops * Periods = first + Periods /\ loops \in Int /\ fInterruptCount \in Int
    BY DEF EngineTypeOK
  <2>b. (fInterruptCount % Periods = 0) <=> fInterruptCount = loops * Periods
    BY <2>0, <2>a, LoopEnds
  <2>1. CASE fInterruptCount = loops * Periods
    <3>1. loops' = loops + 1 /\ loopTime' = uptime
      BY <2>1, <2>b DEF interruptOccured, handleAudioInterrupt, bufferPosition
    <3>2. (loops' - 1) * Periods = fInterruptCount
      BY <3>1, <2>1, <2>a
    <3> QED
      BY <1>0, <1>1, <1>3, <2>0, <3>1, <3>2 DEF EngineTypeOK, InLoop
  <2>2. CASE fInterruptCount # loops * Periods
    <3>1. loops' = loops /\ loopTime' = loopTime
      BY <2>2, <2>b DEF interruptOccured, handleAudioInterrupt, bufferPosition, stampVars
    <3>2. fInterruptCount + 1 - first \in 1 .. Periods
      BY <2>0, <2>a, <2>2
    <3> QED
      BY <1>0, <1>3, <2>0, <3>1, <3>2 DEF EngineTypeOK, InLoop
  <2> QED  BY <2>1, <2>2
<1> QED  BY <1>2, <1>3

LEMMA EngineInvStep == EngineInv /\ [EngineNext]_engineVars => EngineInv'
<1> USE EngineAssumption
<1> SUFFICES ASSUME EngineInv, [EngineNext]_engineVars PROVE EngineInv'
  OBVIOUS
<1>1. CASE Elapse
  BY <1>1 DEF EngineInv, EngineTypeOK, OnSchedule, InLoop, Elapse, stampVars
<1>2. CASE performAudioEngineStart
  <2>1. (0 + 1) * Interval = Interval  OBVIOUS
  <2>2. wrapped' \in BOOLEAN
    <3>1. wrapped' = FALSE
      BY <1>2, Zenon DEF performAudioEngineStart
    <3> QED  BY <3>1, Zenon
  <2> QED
    BY <1>2, <2>1, <2>2 DEF EngineInv, EngineTypeOK, OnSchedule, InLoop, performAudioEngineStart
<1>3. CASE performAudioEngineStop
  BY <1>3 DEF EngineInv, EngineTypeOK, OnSchedule, InLoop, performAudioEngineStop, stampVars
<1>4. CASE interruptOccured
  <2>1. wrapped' \in BOOLEAN
    BY <1>4, Zenon DEF interruptOccured
  <2>2. EngineTypeOK'
    BY <1>4, <2>1, NextDue DEF EngineInv, EngineTypeOK, interruptOccured, handleAudioInterrupt, stampVars
  <2> QED  BY <1>4, <2>2, ScheduleKept, LoopKept DEF EngineInv
<1>5. CASE UNCHANGED engineVars
  BY <1>5 DEF EngineInv, EngineTypeOK, OnSchedule, InLoop, engineVars, stampVars
<1> QED  BY <1>1, <1>2, <1>3, <1>4, <1>5 DEF EngineNext

LEMMA PositionFollows == EngineInv => PositionTracksTime
<1> USE EngineAssumption
<1> SUFFICES ASSUME EngineInv, engine = "running" PROVE PositionTracksTime
  BY DEF PositionTracksTime
<1> DEFINE now == fInterruptCount * Interval
           next == (fInterruptCount + 1) * Interval
<1>1. now \in Int /\ next = now + Interval  BY DEF EngineInv, EngineTypeOK
<1>2. fNextTimeout = startTime + next  BY DEF EngineInv, OnSchedule
<1> HIDE DEF now, next
<1>3. now <= uptime - startTime
  BY <1>1, <1>2 DEF EngineInv, EngineTypeOK, OnSchedule
<1>4. ~wrapped => uptime - startTime <= next + Latency
  BY <1>1, <1>2 DEF EngineInv, EngineTypeOK, OnSchedule
<1> QED  BY <1>3, <1>4 DEF PositionTracksTime, now, next

\* Where the last stamp lies: at most an interval after the interrupt it should
\* have come with, and that many intervals before the next.
LEMMA StampsFollow == EngineInv => StampsNearPosition /\ LoopsNearTime
<1> USE EngineAssumption
<1> SUFFICES ASSUME EngineInv, engine = "running", ~wrapped
             PROVE  StampsNearPosition /\ LoopsNearTime
  BY DEF StampsNearPosition, LoopsNearTime
<1>0. /\ fInterruptCount \in Nat /\ loops \in Nat /\ uptime \in Nat
      /\ startTime \in Nat /\ loopTime \in Nat
  BY DEF EngineInv, EngineTypeOK
<1>1. CASE fInterruptCount = 0
  <2>1. loops = 0 /\ loopTime = startTime
    BY <1>1 DEF EngineInv, InLoop
  <2>2. getCurrentSampleFrame = 0
    <3>1. (0 * Periods + 0) % Periods = 0  BY Remainder
    <3> QED  BY <1>1, <3>1 DEF getCurrentSampleFrame
  <2>3. (0 + 0) * Interval = 0 /\ (0 + 1) * Interval = Interval /\ 0 * Periods * Interval = 0
        /\ 0 * Interval = 0 /\ Periods * Interval \in Nat
    OBVIOUS
  <2>4. uptime - loopTime \in 0 .. Interval + Latency
    BY <1>0, <1>1, <2>1, <2>3, PositionFollows DEF PositionTracksTime
  <2>5. StampsNearPosition
    <3>1. (getCurrentSampleFrame + 0) * Interval - (uptime - loopTime)
            \in -(Interval + Latency) .. 2 * Interval
      BY <2>2, <2>3, <2>4
    <3> QED  BY <3>1 DEF StampsNearPosition
  <2>6. LoopsNearTime
    BY <1>0, <2>1, <2>3 DEF LoopsNearTime
  <2> QED  BY <2>5, <2>6
<1>2. CASE fInterruptCount # 0
  <2> DEFINE first == (loops - 1) * Periods
             since == fInterruptCount - first
             stamped == (first + 1) * Interval
             now == fInterruptCount * Interval
             moved == since * Interval
             buffer == Periods * Interval
  <2>1. /\ loops >= 1 /\ since \in 1 .. Periods
        /\ loopTime - (startTime + stamped) \in 0 .. Interval
    BY <1>2 DEF EngineInv, InLoop
  <2>2. first \in Int /\ buffer \in Nat  BY <1>0
  <2>3. stamped \in Int /\ now \in Int /\ moved \in Int /\ now = stamped + moved - Interval
    <3> HIDE DEF first
    <3> QED  BY <1>0, <2>2
  <2>4. now <= uptime - startTime /\ uptime - startTime <= now + Interval + Latency
    <3>1. (fInterruptCount + 1) * Interval = now + Interval  BY <1>0
    <3> QED  BY <1>0, <2>3, <3>1, PositionFollows DEF PositionTracksTime
  <2>5. StampsNearPosition
    <3>1. moved - (uptime - loopTime) \in -(Interval + Latency) .. 2 * Interval
      <4> HIDE DEF first, stamped, now, moved
      <4> QED  BY <1>0, <2>1, <2>3, <2>4
    <3>2. getCurrentSampleFrame = since % Periods
      <4>1. fInterruptCount \in Int /\ loops \in Int /\ Periods \in Nat \ {0}  BY <1>0
      <4>2. fInterruptCount - (loops - 1) * Periods \in 1 .. Periods  BY <2>1
      <4>3. fInterruptCount % Periods = (fInterruptCount - (loops - 1) * Periods) % Periods
        BY <4>1, <4>2, LoopEnds
      <4> QED  BY <4>3 DEF getCurrentSampleFrame
    <3>3. \E turn \in {0, Periods} : (since % Periods) + turn = since
      <4> HIDE DEF since
      <4>1. CASE since = Periods
        <5>1. (1 * Periods + 0) % Periods = 0  BY Remainder
        <5>2. since = 1 * Periods + 0  BY <4>1
        <5> QED  BY <4>1, <5>1, <5>2
      <4>2. CASE since # Periods
        <5>1. since \in 0 .. Periods - 1  BY <2>1, <4>2
        <5>2. (0 * Periods + since) % Periods = since  BY <5>1, Remainder
        <5> QED  BY <5>1, <5>2
      <4> QED  BY <4>1, <4>2
    <3> QED  BY <3>1, <3>2, <3>3 DEF StampsNearPosition
  <2>6. LoopsNearTime
    <3>1. loops * Periods = first + Periods  BY <1>0
    <3>2. loops * Periods * Interval = stamped - Interval + buffer
      <4> HIDE DEF first
      <4>1. (first + Periods) * Interval = first * Interval + Periods * Interval  BY <2>2
      <4>2. (first + 1) * Interval = first * Interval + Interval  BY <2>2
      <4> QED  BY <2>2, <3>1, <4>1, <4>2
    <3>3. buffer >= Interval
      <4>1. (Periods - 1) * Interval >= 0  OBVIOUS
      <4>2. buffer = (Periods - 1) * Interval + Interval  OBVIOUS
      <4> QED  BY <4>1, <4>2
    <3> DEFINE counted == loops * Periods * Interval
    <3>4. counted - (loopTime - startTime) \in -Interval .. buffer
      <4> HIDE DEF first, stamped, buffer, counted
      <4> QED  BY <1>0, <2>1, <2>2, <2>3, <3>2, <3>3 DEF counted
    <3> QED  BY <3>4 DEF LoopsNearTime
  <2> QED  BY <2>5, <2>6
<1> QED  BY <1>1, <1>2

\* Type correctness, for any bound on time.
THEOREM EngineTypeCorrect == EngineSpec => []EngineTypeOK
<1>1. EngineSpec => []EngineInv
  BY EngineInvInit, EngineInvStep, PTL DEF EngineSpec
<1> QED  BY <1>1, PTL DEF EngineInv

\* However late its timers are, the engine's position is never ahead of the time
\* since it started, and while none has been more than an interval late it follows
\* that time, and the stamps and the loops it tells the family of stay near it.
THEOREM StaysOnTime == EngineSpec => []EngineOnTime
<1>1. EngineSpec => []EngineInv
  BY EngineInvInit, EngineInvStep, PTL DEF EngineSpec
<1>2. EngineInv => EngineOnTime
  BY PositionFollows, StampsFollow DEF EngineOnTime
<1> QED  BY <1>1, <1>2, PTL
-----------------------------------------------------------------------------
(* The application firewall.                                               *)

\* The sockets that carry entry e.
Carrying(e) == {s \in Socket : Filtered(s) /\ socket[s].owner = e}

\* What the extension's progress and flag say of the filter.
FlagsTell ==
    /\ wall \in {"load", "failed", "unloaded"} => filter = "none"
    /\ wall \in {"add ssh", "add nc", "added"} => filter = "registered"
    /\ wall \in {"running", "stopping"} /\ ~g_filter_registered => filter = "none"

\* A socket has to do with the filter only while the kernel has one, and before
\* there was one there were no sockets.
FilterNeeded ==
    /\ filter = "none" => \A s \in Socket : socket[s].pc \in {"closed", "unfiltered"}
    /\ wall \in {"load", "failed"} => \A s \in Socket : socket[s] = Unopened

\* A filtered socket's entry is in memory.
CookieInMemory == \A s \in Socket : Filtered(s) => socket[s].owner \in g_block_list

\* The entries count their sockets.
UsersExact == \A e \in Listed : users[e] = Cardinality(Carrying(e))

\* While the filter is up, a socket whose program had an entry when it was opened
\* is on its way into the filter or in it.
KnownFiltered ==
    \A s \in Socket : socket[s].known /\ filter = "registered" =>
        socket[s].owner \in g_block_list /\ socket[s].pc # "unfiltered"

WallInv ==
    /\ WallTypeOK /\ FlagsTell /\ FilterNeeded
    /\ CookieInMemory /\ UsersExact /\ KnownFiltered /\ WallHolds
-----------------------------------------------------------------------------
\* A step that leaves the sockets' filtering alone leaves the counts alone.
LEMMA SameUsers ==
    ASSUME UsersExact, users' = users,
           \A s \in Socket : (Filtered(s)' <=> Filtered(s))
                          /\ (Filtered(s) => socket'[s].owner = socket[s].owner)
    PROVE  UsersExact'
<1>1. \A e \in Listed : Carrying(e)' = Carrying(e)
  BY DEF Carrying
<1> QED  BY <1>1 DEF UsersExact

\* A socket that is attached to its entry is counted by it once more.
LEMMA OneMoreUser ==
    ASSUME UsersExact, users \in [Listed -> Int],
           NEW t \in Socket, NEW e \in Listed, ~Filtered(t), Filtered(t)', socket'[t].owner = e,
           \A s \in Socket \ {t} : socket'[s] = socket[s],
           users' = [users EXCEPT ![e] = @ + 1]
    PROVE  UsersExact'
<1>1. Carrying(e)' = Carrying(e) \cup {t} /\ t \notin Carrying(e)
  BY DEF Carrying, Filtered
<1>2. \A f \in Listed \ {e} : Carrying(f)' = Carrying(f)
  BY DEF Carrying, Filtered
<1>3. IsFiniteSet(Carrying(e))
  BY SocketAssumption, FS_Subset DEF Carrying
<1>4. Cardinality(Carrying(e) \cup {t}) = Cardinality(Carrying(e)) + 1
  BY <1>1, <1>3, FS_AddElement
<1> QED  BY <1>1, <1>2, <1>4 DEF UsersExact

\* A socket that is detached is counted no more.
LEMMA OneLessUser ==
    ASSUME UsersExact, users \in [Listed -> Int],
           NEW t \in Socket, NEW e \in Listed, Filtered(t), ~Filtered(t)', socket[t].owner = e,
           \A s \in Socket \ {t} : socket'[s] = socket[s],
           users' = [users EXCEPT ![e] = @ - 1]
    PROVE  UsersExact'
<1>1. Carrying(e)' = Carrying(e) \ {t} /\ t \in Carrying(e)
  BY DEF Carrying, Filtered
<1>2. \A f \in Listed \ {e} : Carrying(f)' = Carrying(f)
  BY DEF Carrying, Filtered
<1>3. IsFiniteSet(Carrying(e))
  BY SocketAssumption, FS_Subset DEF Carrying
<1>4. Cardinality(Carrying(e) \ {t}) = Cardinality(Carrying(e)) - 1
  BY <1>1, <1>3, FS_RemoveElement
<1> QED  BY <1>1, <1>2, <1>4 DEF UsersExact

LEMMA WallInvInit == WallInit => WallInv
<1> SUFFICES ASSUME WallInit PROVE WallInv
  OBVIOUS
<1>1. UsersExact
  <2>1. \A e \in Listed : Carrying(e) = {}
    BY DEF WallInit, Carrying, Filtered, Unopened
  <2> QED  BY <2>1, FS_EmptySet DEF WallInit, UsersExact
<1>2. WallTypeOK
  <2>1. Unopened \in [pc : {"closed", "attaching", "attached", "connected", "unfiltered"},
                      owner : Program, known : BOOLEAN]
    BY DEF Unopened, Program
  <2>2. users \in [Listed -> Int]
    BY DEF WallInit
  <2> QED  BY <2>1, <2>2 DEF WallInit, WallTypeOK
<1>3. FlagsTell /\ FilterNeeded /\ CookieInMemory /\ KnownFiltered /\ WallHolds
  BY DEF WallInit, FlagsTell, FilterNeeded, CookieInMemory, KnownFiltered, WallHolds, Unopened, Filtered
<1> QED  BY <1>1, <1>2, <1>3 DEF WallInv
-----------------------------------------------------------------------------
\* The steps of start() and stop(): the sockets stay as they are.
LEMMA ModuleStep ==
    ASSUME WallInv, Register \/ AddEntries \/ EndStart \/ BeginStop \/ EndStop
    PROVE  WallInv'
<1> USE DEF WallInv
<1>0. UNCHANGED <<users, socket, passed>>
  BY DEF Register, AddEntries, AddEntry, EndStart, BeginStop, EndStop
<1>1. UsersExact'
  BY <1>0, SameUsers DEF Filtered
<1>2. CASE Register
  <2>1. \A s \in Socket : socket[s] = Unopened
    BY <1>2 DEF Register, FilterNeeded
  <2>2. WallTypeOK'
    BY <1>0, <1>2 DEF Register, WallTypeOK, flagVars
  <2>3. FlagsTell' /\ FilterNeeded' /\ CookieInMemory' /\ WallHolds'
    BY <1>0, <1>2, <2>1 DEF Register, FlagsTell, FilterNeeded, CookieInMemory, WallHolds, Unopened, Filtered,
       flagVars
  <2>4. KnownFiltered'
    BY <1>0, <1>2, <2>1 DEF KnownFiltered, Unopened
  <2> QED  BY <1>1, <2>2, <2>3, <2>4
<1>3. CASE AddEntries
  BY <1>0, <1>1, <1>3 DEF AddEntries, AddEntry, WallTypeOK, FlagsTell, FilterNeeded, CookieInMemory,
     KnownFiltered, WallHolds, Filtered, flagVars, Listed
<1>4. CASE EndStart
  BY <1>0, <1>1, <1>4 DEF EndStart, WallTypeOK, FlagsTell, FilterNeeded, CookieInMemory, KnownFiltered,
     WallHolds, Filtered
<1>5. CASE BeginStop
  BY <1>0, <1>1, <1>5 DEF BeginStop, WallTypeOK, FlagsTell, FilterNeeded, CookieInMemory, KnownFiltered,
     WallHolds, Filtered
<1>6. CASE EndStop
  <2>1. CASE g_filter_registered
    BY <1>0, <1>1, <1>6, <2>1 DEF EndStop, MayFree, WallTypeOK, FlagsTell, FilterNeeded, CookieInMemory,
       KnownFiltered, WallHolds, Filtered, flagVars
  <2>2. CASE ~g_filter_registered
    <3>1. filter = "none" /\ \A s \in Socket : ~Filtered(s)
      BY <1>6, <2>2 DEF EndStop, FlagsTell, FilterNeeded, Filtered
    <3> QED
      BY <1>0, <1>1, <1>6, <2>2, <3>1 DEF EndStop, MayFree, WallTypeOK, FlagsTell, FilterNeeded,
         CookieInMemory, KnownFiltered, WallHolds, Filtered, flagVars
  <2> QED  BY <2>1, <2>2
<1> QED  BY <1>2, <1>3, <1>4, <1>5, <1>6

\* The kernel's last word on the filter.
LEMMA UnregisteredStep ==
    ASSUME WallInv, Unregistered
    PROVE  WallInv'
<1> USE DEF WallInv
<1>0. UNCHANGED <<wall, g_block_list, users, socket, passed>>
  BY DEF Unregistered
<1>1. UsersExact'
  BY <1>0, SameUsers DEF Filtered
<1> QED
  BY <1>0, <1>1 DEF Unregistered, WallTypeOK, FlagsTell, FilterNeeded, CookieInMemory, KnownFiltered,
     WallHolds, Filtered

\* A step of one socket.
LEMMA SocketStep ==
    ASSUME WallInv, NEW t \in Socket,
           (\E p \in Program : Open(t, p)) \/ Attach(t) \/ Connect(t) \/ Detach(t) \/ Close(t)
    PROVE  WallInv'
<1> USE DEF WallInv
<1>0. UNCHANGED <<wall, g_filter_registered, g_filter_unregister_started, g_block_list, filter>>
  BY DEF Open, Attach, Connect, Detach, Close, flagVars
<1>a. /\ socket \in [Socket -> [pc : {"closed", "attaching", "attached", "connected", "unfiltered"},
                                owner : Program, known : BOOLEAN]]
      /\ g_block_list \subseteq Listed /\ users \in [Listed -> Int]
  BY DEF WallTypeOK
<1>b. FlagsTell'
  BY <1>0 DEF FlagsTell
<1>1. ASSUME NEW p \in Program, Open(t, p) PROVE WallInv'
  <2>1. /\ socket' = [socket EXCEPT ![t] =
              [pc |-> "attaching", owner |-> p, known |-> p \in g_block_list]]
        /\ socket[t].pc = "closed" /\ filter = "registered" /\ UNCHANGED <<users, passed>>
    BY <1>1 DEF Open
  <2>2. UsersExact'
    <3>1. \A s \in Socket : (Filtered(s)' <=> Filtered(s))
                         /\ (Filtered(s) => socket'[s].owner = socket[s].owner)
      BY <2>1, <1>a DEF Filtered
    <3> QED  BY <2>1, <3>1, SameUsers
  <2>3. (p \in g_block_list) \in BOOLEAN
    OBVIOUS
  <2>4. WallTypeOK'
    BY <1>0, <2>1, <2>3 DEF WallTypeOK
  <2>5. FilterNeeded'
    BY <1>0, <2>1 DEF FilterNeeded, FlagsTell
  <2>6. CookieInMemory'
    BY <1>0, <1>a, <2>1 DEF CookieInMemory, Filtered
  <2>7. KnownFiltered'
    <3>1. ASSUME NEW s \in Socket, socket'[s].known
          PROVE  socket'[s].owner \in g_block_list /\ socket'[s].pc # "unfiltered"
      <4>1. CASE s = t
        BY <1>a, <2>1, <3>1, <4>1
      <4>2. CASE s # t
        BY <1>a, <2>1, <3>1, <4>2 DEF KnownFiltered
      <4> QED  BY <4>1, <4>2
    <3> QED  BY <1>0, <3>1 DEF KnownFiltered
  <2> QED  BY <1>b, <2>1, <2>2, <2>4, <2>5, <2>6, <2>7 DEF WallHolds
<1>2. CASE Attach(t)
  <2>0. socket[t].pc = "attaching" /\ passed' = passed
    BY <1>2 DEF Attach
  <2>1. CASE socket[t].owner \in g_block_list
    <3>1. /\ socket' = [socket EXCEPT ![t].pc = "attached"]
          /\ users' = [users EXCEPT ![socket[t].owner] = @ + 1]
      BY <1>2, <2>1 DEF Attach
    <3>2. UsersExact'
      <4>1. socket[t].owner \in Listed /\ ~Filtered(t)
        BY <1>a, <2>0, <2>1 DEF Filtered
      <4>2. /\ Filtered(t)' /\ socket'[t].owner = socket[t].owner
            /\ \A s \in Socket \ {t} : socket'[s] = socket[s]
        BY <1>a, <3>1 DEF Filtered
      <4> QED  BY <1>a, <3>1, <4>1, <4>2, OneMoreUser
    <3>3. WallTypeOK'
      <4>1. users' \in [Listed -> Int]
        BY <1>a, <2>1, <3>1
      <4>2. socket' \in [Socket -> [pc : {"closed", "attaching", "attached", "connected", "unfiltered"},
                                    owner : Program, known : BOOLEAN]]
        BY <1>a, <3>1
      <4> QED  BY <1>0, <2>0, <4>1, <4>2 DEF WallTypeOK
    <3>4. FilterNeeded' /\ CookieInMemory' /\ KnownFiltered'
      BY <1>0, <1>a, <2>0, <2>1, <3>1 DEF FilterNeeded, CookieInMemory, KnownFiltered, Filtered, Unopened
    <3> QED  BY <1>b, <2>0, <3>2, <3>3, <3>4 DEF WallHolds
  <2>2. CASE socket[t].owner \notin g_block_list
    <3>1. socket' = [socket EXCEPT ![t].pc = "unfiltered"] /\ users' = users
      BY <1>2, <2>2 DEF Attach
    <3>2. UsersExact'
      <4>1. \A s \in Socket : (Filtered(s)' <=> Filtered(s))
                           /\ (Filtered(s) => socket'[s].owner = socket[s].owner)
        BY <1>a, <2>0, <3>1 DEF Filtered
      <4> QED  BY <3>1, <4>1, SameUsers
    <3>3. WallTypeOK'
      BY <1>0, <1>a, <2>0, <3>1 DEF WallTypeOK
    <3>4. FilterNeeded' /\ CookieInMemory' /\ KnownFiltered'
      BY <1>0, <1>a, <2>0, <2>2, <3>1 DEF FilterNeeded, CookieInMemory, KnownFiltered, Filtered, Unopened
    <3> QED  BY <1>b, <2>0, <3>2, <3>3, <3>4 DEF WallHolds
  <2> QED  BY <2>1, <2>2
<1>3. CASE Connect(t)
  <2>1. /\ socket[t].pc \in {"attached", "unfiltered"}
        /\ Filtered(t) => socket[t].owner \notin Blocked
        /\ socket' = [socket EXCEPT ![t].pc = IF @ = "attached" THEN "connected" ELSE @]
        /\ users' = users
        /\ passed' = IF socket[t].known /\ filter = "registered"
                     THEN passed \cup {socket[t].owner} ELSE passed
    BY <1>3 DEF Connect, Permitted
  <2>2. UsersExact'
    <3>1. \A s \in Socket : (Filtered(s)' <=> Filtered(s))
                         /\ (Filtered(s) => socket'[s].owner = socket[s].owner)
      BY <1>a, <2>1 DEF Filtered
    <3> QED  BY <2>1, <3>1, SameUsers
  <2>3. WallTypeOK'
    BY <1>0, <1>a, <2>1 DEF WallTypeOK
  <2>4. FilterNeeded' /\ CookieInMemory' /\ KnownFiltered'
    BY <1>0, <1>a, <2>1 DEF FilterNeeded, CookieInMemory, KnownFiltered, Filtered, Unopened
  <2>5. socket[t].known /\ filter = "registered" => socket[t].owner \notin Blocked
    BY <2>1 DEF KnownFiltered, Filtered
  <2>6. WallHolds'
    BY <2>1, <2>5 DEF WallHolds
  <2> QED  BY <1>b, <2>2, <2>3, <2>4, <2>6
<1>4. CASE Detach(t)
  <2>1. /\ Filtered(t) /\ passed' = passed
        /\ users' = [users EXCEPT ![socket[t].owner] = @ - 1]
        /\ socket' = [socket EXCEPT ![t] =
              IF filter = "unregistering" THEN [@ EXCEPT !.pc = "unfiltered"] ELSE Unopened]
    BY <1>4 DEF Detach
  <2>2. UsersExact'
    <3>1. socket[t].owner \in Listed
      BY <1>a, <2>1 DEF CookieInMemory
    <3>2. ~Filtered(t)' /\ \A s \in Socket \ {t} : socket'[s] = socket[s]
      BY <1>a, <2>1 DEF Filtered, Unopened
    <3> QED  BY <1>a, <2>1, <3>1, <3>2, OneLessUser
  <2>3. Unopened \in [pc : {"closed", "attaching", "attached", "connected", "unfiltered"},
                      owner : Program, known : BOOLEAN]
    BY DEF Unopened, Program
  <2>4. WallTypeOK'
    <3>1. users' \in [Listed -> Int]
      BY <1>a, <2>1 DEF CookieInMemory
    <3>2. socket' \in [Socket -> [pc : {"closed", "attaching", "attached", "connected", "unfiltered"},
                                  owner : Program, known : BOOLEAN]]
      BY <1>a, <2>1, <2>3
    <3> QED  BY <1>0, <2>1, <3>1, <3>2 DEF WallTypeOK
  <2>5. FilterNeeded'
    BY <1>0, <1>a, <2>1 DEF FilterNeeded, Filtered, Unopened
  <2>6. CookieInMemory'
    BY <1>0, <1>a, <2>1 DEF CookieInMemory, Filtered, Unopened
  <2>7. KnownFiltered'
    BY <1>0, <1>a, <2>1 DEF KnownFiltered, Unopened
  <2> QED  BY <1>b, <2>1, <2>2, <2>4, <2>5, <2>6, <2>7 DEF WallHolds
<1>5. CASE Close(t)
  <2>1. socket[t].pc = "unfiltered" /\ socket' = [socket EXCEPT ![t] = Unopened] /\ UNCHANGED <<users, passed>>
    BY <1>5 DEF Close
  <2>2. UsersExact'
    <3>1. \A s \in Socket : (Filtered(s)' <=> Filtered(s))
                         /\ (Filtered(s) => socket'[s].owner = socket[s].owner)
      BY <1>a, <2>1 DEF Filtered, Unopened
    <3> QED  BY <2>1, <3>1, SameUsers
  <2>3. Unopened \in [pc : {"closed", "attaching", "attached", "connected", "unfiltered"},
                      owner : Program, known : BOOLEAN]
    BY DEF Unopened, Program
  <2>4. WallTypeOK'
    BY <1>0, <2>1, <2>3 DEF WallTypeOK
  <2>5. FilterNeeded' /\ CookieInMemory' /\ KnownFiltered'
    BY <1>0, <1>a, <2>1 DEF FilterNeeded, CookieInMemory, KnownFiltered, Filtered, Unopened
  <2> QED  BY <1>b, <2>1, <2>2, <2>4, <2>5 DEF WallHolds
<1> QED  BY <1>1, <1>2, <1>3, <1>4, <1>5

LEMMA WallInvStep == WallInv /\ [WallNext]_wallVars => WallInv'
<1> SUFFICES ASSUME WallInv, [WallNext]_wallVars PROVE WallInv'
  OBVIOUS
<1>1. CASE UNCHANGED wallVars
  BY <1>1 DEF WallInv, wallVars, flagVars, WallTypeOK, FlagsTell, FilterNeeded, CookieInMemory,
     UsersExact, Carrying, KnownFiltered, WallHolds, Filtered
<1> QED  BY <1>1, ModuleStep, UnregisteredStep, SocketStep DEF WallNext

LEMMA WallInvAlways == WallSpec => []WallInv
BY WallInvInit, WallInvStep, PTL DEF WallSpec
-----------------------------------------------------------------------------
\* Type correctness.
THEOREM WallTypeCorrect == WallSpec => []WallTypeOK
BY WallInvAlways, PTL DEF WallInv

\* A blocked program that has an entry when it opens a socket never gets through.
THEOREM BlockedStaysOut == WallSpec => []WallHolds
BY WallInvAlways, PTL DEF WallInv

\* No callback runs into an entry that stop() has freed, and none runs at all once
\* the extension is unloaded.
THEOREM CookiesStayLive == WallSpec => []CookiesLive
<1>1. WallInv => CookiesLive
  BY DEF WallInv, CookiesLive, UsersExact, Carrying, CookieInMemory, FlagsTell, FilterNeeded, Filtered
<1> QED  BY <1>1, WallInvAlways, PTL

-----------------------------------------------------------------------------
(* The Ethernet driver.                                                    *)

\* The filter is on the other interface only while the driver has it registered,
\* which it has not when it is off; the queue is empty then.
OffIsQuiet ==
    /\ attached => filterRegistered /\ enabled # "off"
    /\ enabled = "off" => fRxPacketQueue = <<>>

\* The packets of a session are numbered as they arrive.
Numbered ==
    /\ \A i \in 1 .. Len(accepted) : accepted[i] < arrivals
    /\ \A i, k \in 1 .. Len(accepted) : i < k => accepted[i] < accepted[k]

NetInv == NetTypeOK /\ OffIsQuiet /\ Numbered /\ DeliveredInOrder
-----------------------------------------------------------------------------
\* A thread's raising of an interrupt keeps its type.
LEMMA RaiseTypes ==
    ASSUME NetTypeOK, NEW next \in Raising, next # NetIdle, NEW bit \in Bit
    PROVE  Step(next) \in Raising /\ OrIn(next, bit) \subseteq Bit
<1>0. next \in [pc : {"read", "write", "arm"}, status : SUBSET Bit]
  BY DEF Raising
<1>1. OrIn(next, bit) \subseteq Bit
  BY <1>0 DEF OrIn, NetTypeOK
<1>2. CASE next.pc = "read"
  <2>1. Step(next) = [pc |-> "write", status |-> interruptStatusRegister]
    BY <1>2 DEF Step
  <2> QED  BY <1>1, <2>1 DEF NetTypeOK, Raising
<1>3. CASE next.pc = "write"
  <2>1. Step(next) = [pc |-> "arm", status |-> {}]
    BY <1>3 DEF Step
  <2> QED  BY <1>1, <2>1 DEF Raising
<1>4. CASE next.pc = "arm"
  <2>1. Step(next) = NetIdle
    BY <1>4 DEF Step
  <2> QED  BY <1>1, <2>1 DEF Raising
<1> QED  BY <1>0, <1>2, <1>3, <1>4

\* A packet that is appended to the queue comes after all that were delivered.
LEMMA AppendAtEnd ==
    ASSUME NEW S, NEW s \in Seq(S), NEW t \in Seq(S), NEW e \in S
    PROVE  s \o Append(t, e) = Append(s \o t, e)
<1>1. Append(t, e) = t \o <<e>> /\ Append(s \o t, e) = (s \o t) \o <<e>>
  BY AppendIsConcat, ConcatProperties
<1>2. <<e>> \in Seq(S)
  OBVIOUS
<1> QED  BY <1>1, <1>2, ConcatAssociative

\* Moving the head of the queue to the end of what was delivered changes nothing
\* in their concatenation.
LEMMA MoveHead ==
    ASSUME NEW S, NEW s \in Seq(S), NEW t \in Seq(S), t # <<>>
    PROVE  Append(s, Head(t)) \o Tail(t) = s \o t
<1>1. Head(t) \in S /\ Tail(t) \in Seq(S) /\ <<Head(t)>> \in Seq(S)
  BY HeadTailProperties
<1>2. Append(s, Head(t)) = s \o <<Head(t)>>
  BY <1>1, AppendIsConcat
<1>3. (s \o <<Head(t)>>) \o Tail(t) = s \o (<<Head(t)>> \o Tail(t))
  BY <1>1, ConcatAssociative
<1>4. <<Head(t)>> \o Tail(t) = t
  BY <1>1
<1> QED  BY <1>2, <1>3, <1>4

LEMMA NetInvInit == NetInit => NetInv
<1>1. ASSUME NetInit PROVE NetTypeOK
  <2>1. 0 \in 0 .. MaxArrivals /\ 0 \in 0 .. MaxSent /\ NetIdle \in Raising
    BY BoundAssumption DEF Raising
  <2>2. handling \in [pc : {"idle", "clear", "drain"}, status : SUBSET Bit]
    BY <1>1 DEF NetInit, NetIdle
  <2>3. sending \in [Sender -> Raising] /\ receiving \in Raising
    BY <1>1, <2>1 DEF NetInit
  <2>4. fRxPacketQueue \in Seq(Nat) /\ accepted \in Seq(Nat) /\ delivered \in Seq(Nat)
    BY <1>1 DEF NetInit
  <2>5. arrivals \in 0 .. MaxArrivals /\ sent \in 0 .. MaxSent /\ outputPackets \in Nat
    BY <1>1, <2>1 DEF NetInit
  <2> QED  BY <1>1, <2>2, <2>3, <2>4, <2>5 DEF NetInit, NetTypeOK
<1>2. NetInit => DeliveredInOrder
  BY ConcatEmptySeq DEF NetInit, DeliveredInOrder
<1>3. ASSUME NetInit PROVE Numbered
  <2>1. accepted = <<>> /\ Len(<<>>) = 0
    BY <1>3 DEF NetInit
  <2> QED  BY <2>1 DEF Numbered
<1>4. NetInit => OffIsQuiet
  BY DEF NetInit, OffIsQuiet
<1> QED  BY <1>1, <1>2, <1>3, <1>4 DEF NetInv
-----------------------------------------------------------------------------
\* Every step keeps the invariant: packets enter the queue at its end, leave it at
\* its head for the stack, and are dropped with the session only.
LEMMA NetInvStep == NetInv /\ [NetNext]_netVars => NetInv'
<1> SUFFICES ASSUME NetInv, [NetNext]_netVars PROVE NetInv'
  OBVIOUS
<1> USE DEF NetInv
<1>1. CASE Enable
  <2>1. fRxPacketQueue = <<>>
    BY <1>1 DEF Enable, OffIsQuiet
  <2>2. /\ fRxPacketQueue' = fRxPacketQueue /\ filterRegistered' = TRUE
        /\ (attached' = TRUE /\ enabled' = "on") \/ UNCHANGED <<attached, enabled>>
        /\ UNCHANGED <<registerVars, arrivals, accepted, delivered, countVars, receiving, sending, handling>>
    BY <1>1, <2>1 DEF Enable
  <2> QED
    <3>1. NetTypeOK'
      BY <2>2 DEF NetTypeOK, registerVars, countVars
    <3>2. OffIsQuiet' /\ Numbered' /\ DeliveredInOrder'
      BY <2>1, <2>2 DEF OffIsQuiet, Numbered, DeliveredInOrder, countVars
    <3> QED  BY <3>1, <3>2
<1>2. CASE BeginDisable
  BY <1>2 DEF BeginDisable, NetTypeOK, OffIsQuiet, Numbered, DeliveredInOrder, registerVars, packetVars, countVars
<1>3. CASE FilterDisabled
  BY <1>3 DEF FilterDisabled, NetTypeOK, OffIsQuiet, Numbered, DeliveredInOrder, registerVars, packetVars, countVars
<1>4. CASE EndDisable
  <2>1. ~attached /\ fRxPacketQueue' = <<>> /\ accepted' = <<>> /\ delivered' = <<>>
    BY <1>4 DEF EndDisable, OffIsQuiet, Flushed
  <2>2. DeliveredInOrder'
    BY <2>1, ConcatEmptySeq DEF DeliveredInOrder
  <2> QED
    BY <1>4, <2>1, <2>2 DEF EndDisable, NetTypeOK, OffIsQuiet, Numbered, registerVars, countVars
<1>5. CASE Receive
  <2>0. arrivals \in Nat /\ arrivals' = arrivals + 1 /\ arrivals' \in 0 .. MaxArrivals
    BY <1>5, BoundAssumption DEF Receive, NetTypeOK
  <2>1. CASE UNCHANGED <<fRxPacketQueue, accepted, receiving>>
    BY <1>5, <2>0, <2>1 DEF Receive, NetTypeOK, OffIsQuiet, Numbered, DeliveredInOrder, switchVars,
       registerVars, countVars
  <2>2. CASE /\ fRxPacketQueue' = Append(fRxPacketQueue, arrivals)
             /\ accepted' = Append(accepted, arrivals)
             /\ receiving' = [pc |-> "read", status |-> {}]
    <3>1. UNCHANGED <<switchVars, registerVars, delivered, countVars, sending, handling>> /\ attached
      BY <1>5 DEF Receive
    <3>2. fRxPacketQueue' \in Seq(Nat) /\ accepted' \in Seq(Nat)
      BY <2>0, <2>2 DEF NetTypeOK
    <3>3. NetTypeOK'
      BY <2>0, <2>2, <3>1, <3>2 DEF NetTypeOK, switchVars, registerVars, countVars, Raising
    <3>4. OffIsQuiet'
      BY <3>1 DEF OffIsQuiet, switchVars
    <3>5. DeliveredInOrder'
      <4>0. delivered \in Seq(Nat) /\ fRxPacketQueue \in Seq(Nat) /\ arrivals \in Nat
        BY <2>0 DEF NetTypeOK
      <4>1. delivered \o Append(fRxPacketQueue, arrivals) = Append(delivered \o fRxPacketQueue, arrivals)
        BY <4>0, AppendAtEnd
      <4> QED  BY <2>2, <3>1, <4>1 DEF DeliveredInOrder
    <3>6. Numbered'
      <4>1. /\ Len(accepted') = Len(accepted) + 1 /\ Len(accepted) \in Nat
            /\ \A i \in 1 .. Len(accepted) : accepted'[i] = accepted[i] /\ accepted[i] \in Nat
            /\ accepted'[Len(accepted) + 1] = arrivals
        BY <2>0, <2>2 DEF NetTypeOK
      <4>2. \A i \in 1 .. Len(accepted') : accepted'[i] < arrivals'
        <5> TAKE i \in 1 .. Len(accepted')
        <5>1. CASE i = Len(accepted) + 1  BY <2>0, <4>1, <5>1
        <5>2. CASE i \in 1 .. Len(accepted)  BY <2>0, <4>1, <5>2 DEF Numbered
        <5> QED  BY <4>1, <5>1, <5>2
      <4>3. \A i, k \in 1 .. Len(accepted') : i < k => accepted'[i] < accepted'[k]
        <5> TAKE i, k \in 1 .. Len(accepted')
        <5> HAVE i < k
        <5>1. i \in 1 .. Len(accepted)  BY <4>1
        <5>2. CASE k = Len(accepted) + 1  BY <4>1, <5>1, <5>2 DEF Numbered
        <5>3. CASE k \in 1 .. Len(accepted)  BY <4>1, <5>1, <5>3 DEF Numbered
        <5> QED  BY <4>1, <5>2, <5>3
      <4> QED  BY <4>2, <4>3 DEF Numbered
    <3> QED  BY <3>3, <3>4, <3>5, <3>6
  <2> QED  BY <1>5, <2>1, <2>2 DEF Receive
<1>6. CASE RaiseRX
  <2>1. receiving' \in Raising /\ interruptStatusRegister' \subseteq Bit /\ armed' \in BOOLEAN
    BY <1>6, RaiseTypes DEF RaiseRX, NetTypeOK, Bit
  <2> QED
    BY <1>6, <2>1 DEF RaiseRX, NetTypeOK, OffIsQuiet, Numbered, DeliveredInOrder, switchVars, packetVars,
       countVars
<1>7. ASSUME NEW t \in Sender, OutputPacket(t) PROVE NetInv'
  <2>1. sent' \in 0 .. MaxSent /\ sending' \in [Sender -> Raising]
    <3>1. sent' \in 0 .. MaxSent
      BY <1>7, BoundAssumption DEF OutputPacket, NetTypeOK
    <3>2. [sending[t] EXCEPT !.pc = "read"] = [pc |-> "read", status |-> {}]
      BY <1>7 DEF OutputPacket, NetIdle
    <3>3. sending' = [sending EXCEPT ![t] = [pc |-> "read", status |-> {}]]
      BY <1>7, <3>2 DEF OutputPacket
    <3> QED  BY <3>1, <3>3 DEF NetTypeOK, Raising
  <2> QED
    BY <1>7, <2>1 DEF OutputPacket, NetTypeOK, OffIsQuiet, Numbered, DeliveredInOrder, switchVars, registerVars,
       packetVars
<1>8. ASSUME NEW t \in Sender, RaiseTX(t) PROVE NetInv'
  <2>1. interruptStatusRegister' \subseteq Bit /\ armed' \in BOOLEAN /\ sending' \in [Sender -> Raising]
    BY <1>8, RaiseTypes DEF RaiseTX, NetTypeOK, Bit
  <2> QED
    BY <1>8, <2>1 DEF RaiseTX, NetTypeOK, OffIsQuiet, Numbered, DeliveredInOrder, switchVars, packetVars,
       countVars
<1>9. CASE Interrupt
  BY <1>9 DEF Interrupt, NetTypeOK, OffIsQuiet, Numbered, DeliveredInOrder, switchVars, packetVars, countVars
<1>10. CASE ClearStatus
  BY <1>10 DEF ClearStatus, Cleared, NetTypeOK, OffIsQuiet, Numbered, DeliveredInOrder, switchVars, packetVars, countVars
<1>11. CASE InputPacket
  <2>1. /\ delivered' = Append(delivered, Head(fRxPacketQueue)) /\ fRxPacketQueue' = Tail(fRxPacketQueue)
        /\ fRxPacketQueue # <<>> /\ accepted' = accepted
    BY <1>11 DEF InputPacket
  <2>2. delivered' \in Seq(Nat) /\ fRxPacketQueue' \in Seq(Nat)
    BY <2>1, HeadTailProperties DEF NetTypeOK
  <2>3. DeliveredInOrder'
    BY <2>1, MoveHead DEF DeliveredInOrder, NetTypeOK
  <2> QED
    BY <1>11, <2>1, <2>2, <2>3 DEF InputPacket, NetTypeOK, OffIsQuiet, Numbered, switchVars, registerVars, countVars
<1>12. CASE EndInterrupt
  BY <1>12 DEF EndInterrupt, NetIdle, NetTypeOK, OffIsQuiet, Numbered, DeliveredInOrder, switchVars, registerVars, packetVars
<1>13. CASE UNCHANGED netVars
  BY <1>13 DEF netVars, switchVars, registerVars, packetVars, countVars, NetTypeOK, OffIsQuiet, Numbered, DeliveredInOrder
<1> QED  BY <1>1, <1>2, <1>3, <1>4, <1>5, <1>6, <1>7, <1>8, <1>9, <1>10, <1>11, <1>12, <1>13 DEF NetNext

LEMMA NetInvAlways == NetSpec => []NetInv
BY NetInvInit, NetInvStep, PTL DEF NetSpec
-----------------------------------------------------------------------------
\* Type correctness of the Ethernet driver, for any threads and numbers of packets.
THEOREM NetTypeCorrect == NetSpec => []NetTypeOK
BY NetInvAlways, PTL DEF NetInv

\* The stack gets the packets of a session in the order they arrived, without a
\* gap: what it was given and what is queued is what was accepted.
THEOREM PacketsInOrder == NetSpec => []DeliveredInOrder
BY NetInvAlways, PTL DEF NetInv

\* Nor is any of them there twice: the packets of a session are numbered in the
\* order they arrived.
THEOREM PacketsOnce == NetSpec => []Numbered
BY NetInvAlways, PTL DEF NetInv
=============================================================================

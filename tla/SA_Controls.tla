---------------------------- MODULE SA_Controls ----------------------------
(***************************************************************************)
(* The settable properties of the SimpleAudio device: the activity of its  *)
(* streams, its volumes, which are kept by the driver, and its sample      *)
(* rate, which the host has to be asked for.                               *)
(*                                                                         *)
(* A setter works under mStateMutex; what it tells the host or asks of it  *)
(* is dispatched to the global serial queue after the mutex is left, and   *)
(* runs there later.  The host is external: told that a control changed,   *)
(* it reads the control's values, one call for each.                       *)
(***************************************************************************)
EXTENDS SA_Properties

CONSTANTS
    SA_Thread,      \* the threads of the server that set properties
    SA_Touched,     \* the streams and controls they set
    SA_Curve,       \* the curve's one range
    SA_Thirty,      \* 30 dB in its unit
    SA_Scalars,     \* the scalars that are set
    SA_Decibels,    \* the decibels that are set
    MaxQueued       \* bound: blocks on the serial queue

ASSUME LevelAssumption ==
    /\ IsCurveRange(SA_Curve)
    /\ SA_Scalars \subseteq [p : Int, q : Nat \ {0}] /\ SA_Decibels \subseteq Int
    /\ MaxQueued \in Nat

VARIABLES
    mIsActive,      \* mInputStreamIsActive and mOutputStreamIsActive
    driverVolume,   \* the driver's mMasterInputVolume and mMasterOutputVolume
    driverRate,     \* the driver's sample rate
    setting,        \* what each thread has to dispatch yet
    serialQueue,
    toRead,         \* what the host has been told of and not read yet
    hostLevel,      \* the value of each control's properties that the host has
    rateRequests    \* the changes of rate the host has been asked for

queueVars == <<setting, serialQueue>>
hostVars == <<toRead, hostLevel, rateRequests>>
saVars == <<mIsActive, driverVolume, driverRate, queueVars, hostVars>>

mVolumeCurve == <<SA_Curve>>
kPow2Over1 == [num |-> 2, den |-> 1]
SA_Exponent == Exponent(mVolumeCurve, kPow2Over1, SA_Thirty)
SA_State == [devices |-> <<"device">>, active |-> mIsActive, raw |-> driverVolume, rate |-> driverRate,
             curve |-> mVolumeCurve, exponent |-> SA_Exponent]
SA_Level(o, sel) ==
    SA_GetPropertyData(o, [sel |-> sel, scope |-> "Global"], Word, 0, SA_State).value

SA_Idle == [pc |-> "idle"]
SA_Init ==
    /\ mIsActive = [o \in SA_Stream |-> TRUE]
    /\ driverVolume = [o \in SA_Control |-> SA_Curve.min]
    /\ driverRate = 44100
    /\ setting = [c \in SA_Thread |-> SA_Idle]
    /\ serialQueue = <<>>
    /\ toRead = {}
    /\ hostLevel = [o \in SA_Control |-> [sel \in SA_LevelValue |-> SA_Level(o, sel)]]
    /\ rateRequests = {}
-----------------------------------------------------------------------------
\* Nothing is told of a stream's activity.
SA_SetIsActive ==
    \E o \in SA_Stream \cap SA_Touched, active \in BOOLEAN :
        /\ mIsActive' = [mIsActive EXCEPT ![o] = active]
        /\ UNCHANGED <<driverVolume, driverRate, queueVars, hostVars>>

\* _HW_SetVolumeControlValue: the driver takes the value or the call fails, and
\* then there is nothing to tell.
SA_SetVolume(c, o, raw) ==
    /\ setting[c] = SA_Idle
    /\ driverVolume' = [driverVolume EXCEPT ![o] = raw]
    /\ setting' = [setting EXCEPT ![c] = [pc |-> "telling", o |-> o]]
    /\ UNCHANGED <<mIsActive, driverRate, serialQueue, hostVars>>
SA_SetScalar(c) ==
    \E o \in SA_Control \cap SA_Touched, scalar \in SA_Scalars :
        SA_SetVolume(c, o, ConvertScalarToRaw(mVolumeCurve, SA_Exponent, scalar))
SA_SetDecibel(c) ==
    \E o \in SA_Control \cap SA_Touched, dB \in SA_Decibels :
        SA_SetVolume(c, o, ConvertDBToRaw(mVolumeCurve, dB))

\* The rate of the device, or of a stream's new format, is compared with the
\* driver's; only the request for another one goes on.
SA_AskRate(c, rate) ==
    /\ setting[c] = SA_Idle
    /\ rate # driverRate
    /\ setting' = [setting EXCEPT ![c] = [pc |-> "asking", rate |-> rate]]
    /\ UNCHANGED <<mIsActive, driverVolume, driverRate, serialQueue, hostVars>>
SA_SetRate(c) == \E rate \in {44100, 48000} : SA_AskRate(c, rate)
SA_SetFormat(c) ==
    \E rate \in {44100, 48000}, sample \in {"int16", "float32"} :
        SA_AcceptsFormat(FormatOf(rate, sample)) /\ SA_AskRate(c, rate)

\* The dispatch, with the mutex left.
SA_Dispatch(c) ==
    /\ setting[c] # SA_Idle
    /\ Len(serialQueue) < MaxQueued
    /\ serialQueue' = Append(serialQueue, setting[c])
    /\ setting' = [setting EXCEPT ![c] = SA_Idle]
    /\ UNCHANGED <<mIsActive, driverVolume, driverRate, hostVars>>

\* The queue runs its blocks in order.
SA_RunBlock ==
    /\ serialQueue # <<>>
    /\ serialQueue' = Tail(serialQueue)
    /\ LET block == Head(serialQueue) IN
        IF block.pc = "telling"
        THEN toRead' = toRead \cup {<<block.o, sel>> : sel \in SA_LevelValue} /\ UNCHANGED rateRequests
        ELSE rateRequests' = rateRequests \cup {block.rate} /\ UNCHANGED toRead
    /\ UNCHANGED <<mIsActive, driverVolume, driverRate, setting, hostLevel>>

SA_HostReads ==
    \E p \in toRead :
        /\ toRead' = toRead \ {p}
        /\ hostLevel' = [hostLevel EXCEPT ![p[1]][p[2]] = SA_Level(p[1], p[2])]
        /\ UNCHANGED <<mIsActive, driverVolume, driverRate, queueVars, rateRequests>>

\* PerformConfigChange, or AbortConfigChange, which does nothing.
SA_PerformConfigChange ==
    \E rate \in rateRequests :
        /\ rateRequests' = rateRequests \ {rate}
        /\ driverRate' \in {rate, driverRate}
        /\ UNCHANGED <<mIsActive, driverVolume, queueVars, toRead, hostLevel>>

SA_Next ==
    \/ SA_SetIsActive
    \/ \E c \in SA_Thread :
        \/ SA_SetScalar(c)
        \/ SA_SetDecibel(c)
        \/ SA_SetRate(c)
        \/ SA_SetFormat(c)
        \/ SA_Dispatch(c)
    \/ SA_RunBlock
    \/ SA_HostReads
    \/ SA_PerformConfigChange
SA_Spec == SA_Init /\ [][SA_Next]_saVars
-----------------------------------------------------------------------------
SA_TypeOK ==
    /\ mIsActive \in [SA_Stream -> BOOLEAN]
    /\ driverVolume \in [SA_Control -> SA_Curve.min .. SA_Curve.max]
    /\ driverRate \in {44100, 48000}
    /\ Len(serialQueue) <= MaxQueued
    /\ toRead \subseteq SA_Control \X SA_LevelValue
    /\ rateRequests \subseteq {44100, 48000}

\* The four tables agree for every object, and every property that can be set
\* is one a setter takes: with the announced size and the qualifier the header
\* asks for, a property an object has answers with that much.
SA_Selector == SA_BaseWord \cup SA_PlugInSelector \cup SA_ScopedSelector \cup SA_DeviceSelector
    \cup SA_StreamWord \cup SA_StreamFormat \cup SA_StreamFormats \cup SA_LevelSelector \cup {"OwnedObjects"}
SA_Settable(o) ==
    CASE o = "plug-in" -> {}
      [] o = "device" -> {"NominalSampleRate"}
      [] o \in SA_Stream -> {"IsActive"} \cup SA_StreamFormat
      [] o \in SA_Control -> SA_LevelValue
SA_Property == {p \in SA_ObjectID \X [sel : SA_Selector, scope : Scope] : SA_HasProperty(p[1], p[2])}
SA_TablesAgree ==
    LET s == SA_State IN
    \A p \in SA_Property :
        LET o == p[1]  a == p[2]
            announced == SA_GetPropertyDataSize(o, a, s)
            reply == SA_GetPropertyData(o, a, announced.size, Ref, s)
        IN  /\ SA_IsPropertySettable(o, a) = IF a.sel \in SA_Settable(o) THEN "yes" ELSE "no"
            /\ announced.status = "ok"
            /\ reply.status = "ok" /\ reply.size = announced.size

\* The host has the level of a control as it is, unless a setter has yet to tell
\* of it, a block that tells waits on the queue, or the host has yet to read.
SA_HostUpToDate ==
    \A o \in SA_Control, sel \in SA_LevelValue :
        \/ hostLevel[o][sel] = SA_Level(o, sel)
        \/ <<o, sel>> \in toRead
        \/ \E c \in SA_Thread : setting[c] = [pc |-> "telling", o |-> o]
        \/ \E i \in DOMAIN serialQueue : serialQueue[i] = [pc |-> "telling", o |-> o]
=============================================================================

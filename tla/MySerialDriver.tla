--------------------------- MODULE MySerialDriver ---------------------------
(***************************************************************************)
(* The serial port driver of chapter 11.  Client threads call acquirePort, *)
(* releasePort, setState and watchState; every call runs in the driver's   *)
(* command gate, a monitor: runAction takes the gate, tests that it is     *)
(* enabled and calls the gated method.  commandSleep opens the gate until  *)
(* commandWakeup on the same event; the sleeper then takes the gate again  *)
(* and re-tests its condition.  stop() disables the gate without taking    *)
(* it, so it can fall between a thread's test of the gate and its work.    *)
(* runAction of a disabled gate opens the gate and sleeps; interrupted, it *)
(* returns kIOReturnAborted without having called the method.              *)
(*                                                                         *)
(* A state word is the set of the bits that are 1, so                      *)
(*    a & m is a \cap m,   a & ~m is a \ m,   a | m is a \cup m.           *)
(***************************************************************************)
CONSTANTS
    Thread,         \* the client threads
    PD_S_ACQUIRED,  \* the port is acquired
    PD_S_ACTIVE,    \* the port is active
    ModemBits,      \* the other bits of the state word (CTS, DTR, ...)
    SetCalls,       \* the arguments clients give setState
    WatchCalls      \* the arguments clients give watchState

Bits == {PD_S_ACQUIRED, PD_S_ACTIVE} \cup ModemBits
Arguments == [state : SUBSET Bits, mask : SUBSET Bits]

ASSUME BitsDistinct ==
    /\ PD_S_ACQUIRED # PD_S_ACTIVE
    /\ {PD_S_ACQUIRED, PD_S_ACTIVE} \cap ModemBits = {}

\* The clients of the serial family leave PD_S_ACQUIRED to acquirePort and
\* releasePort; nothing in the driver enforces it.
ASSUME ClientsKeepAcquired ==
    /\ WatchCalls \subseteq Arguments
    /\ SetCalls \subseteq Arguments
    /\ \A c \in SetCalls : c.state \subseteq c.mask /\ PD_S_ACQUIRED \notin c.mask

VARIABLES
    m_currentState,    \* the state word
    m_watchStateMask,  \* the bits some thread asleep in watchState waits for
    fWorkLoop,         \* TRUE until stop() sets the pointer to NULL
    gateEnabled,       \* fCommandGate is enabled
    pc,                \* where each thread is
    call,              \* the arguments of the call a thread is in
    holders            \* history: threads whose acquirePort returned Success
                       \* and whose releasePort has not since
vars == <<m_currentState, m_watchStateMask, fWorkLoop, gateEnabled,
          pc, call, holders>>

\* Where a thread can be.
Locations == {
    "idle",       \* in no call
    "entering",   \* in acquirePort, past the test of fWorkLoop
    "gated",      \* holds the gate, past the test that it is enabled
    "setting",    \* holds the gate, past the test of the nested setState
    "sleeping",   \* in commandSleep
    "woken",      \* out of commandSleep, waiting for the gate
    "blocked",    \* asleep in runAction of the disabled gate
    "nested"}     \* the same, in the setState of acquirePort or releasePort

NoCall == [op |-> "none"]
ReleaseCall == [op |-> "release"]
AcquireCall(sleep) == [op |-> "acquire", sleep |-> sleep,
                       state |-> {}, mask |-> {PD_S_ACQUIRED}]
SetCall(c) == [op |-> "set", state |-> c.state, mask |-> c.mask]

\* Faulty variant: no interest in ACTIVE.
WatchCallPlain(c) == [op |-> "watch", auto |-> FALSE, state |-> c.state, mask |-> c.mask]
\* A caller that watches neither ACQUIRED nor ACTIVE also waits for ACTIVE to
\* become 0 (autoActiveBit), so that it notices the port closing.
WatchCall(c) ==
    LET auto == c.mask \cap {PD_S_ACQUIRED, PD_S_ACTIVE} = {} IN
    [op |-> "watch", auto |-> auto,
     state |-> IF auto THEN c.state \ {PD_S_ACTIVE} ELSE c.state,
     mask |-> IF auto THEN c.mask \cup {PD_S_ACTIVE} ELSE c.mask]

\* What a thread can be in the middle of.
Calls == {NoCall, ReleaseCall} \cup {AcquireCall(s) : s \in BOOLEAN}
            \cup {SetCall(c) : c \in SetCalls} \cup {WatchCall(c) : c \in WatchCalls}

\* The bits of mask on which the word equals the watched state (XNOR, then AND).
Matched(c, word) == {b \in c.mask : b \in c.state <=> b \in word}

Acquired == PD_S_ACQUIRED \in m_currentState

\* Nobody is between taking the gate and giving it up.
GateFree == \A t \in Thread : pc[t] \notin {"gated", "setting"}

\* Every variable has its type, and a thread's arguments fit the place it is in.
TypeOK ==
    /\ m_currentState \subseteq Bits
    /\ m_watchStateMask \subseteq Bits
    /\ fWorkLoop \in BOOLEAN
    /\ gateEnabled \in BOOLEAN
    /\ pc \in [Thread -> Locations]
    /\ call \in [Thread -> Calls]
    /\ holders \subseteq Thread
    /\ \A t \in Thread :
          /\ pc[t] = "idle" => call[t] = NoCall
          /\ pc[t] \in {"sleeping", "woken"} => call[t].op \in {"acquire", "watch"}
          /\ pc[t] \in {"setting", "nested"} => call[t].op \in {"acquire", "release"}
          /\ pc[t] = "entering" => call[t].op = "acquire"
          /\ pc[t] = "gated" => call[t] # NoCall

Init ==
    /\ m_currentState = {}
    /\ m_watchStateMask = {}
    /\ fWorkLoop = TRUE
    /\ gateEnabled = TRUE
    /\ pc = [t \in Thread |-> "idle"]
    /\ call = [t \in Thread |-> NoCall]
    /\ holders = {}

----------------------------------------------------------------------------
(* Entering and leaving the gate.                                          *)

\* t is now at place p in its call.
Move(t, p) == pc' = [pc EXCEPT ![t] = p]

\* The call is over.  The code it returns is named and not recorded.
Return(t, code) == call' = [call EXCEPT ![t] = NoCall]

\* runAction takes the free gate and finds it enabled.
Enter(t, c) ==
    /\ GateFree
    /\ gateEnabled
    /\ Move(t, "gated")
    /\ call' = [call EXCEPT ![t] = c]
    /\ UNCHANGED <<m_currentState, m_watchStateMask, fWorkLoop, gateEnabled, holders>>

\* runAction takes the free gate, finds it disabled and sleeps, the gate open.
Block(t) ==
    /\ pc[t] \in {"idle", "entering"}
    /\ GateFree
    /\ ~gateEnabled
    /\ Move(t, "blocked")
    /\ UNCHANGED <<m_currentState, m_watchStateMask, fWorkLoop, gateEnabled,
                   call, holders>>

\* The sleep in runAction is interrupted: kIOReturnAborted to the caller.
Abort(t) ==
    /\ pc[t] = "blocked"
    /\ Move(t, "idle")
    /\ Return(t, "Aborted")
    /\ UNCHANGED <<m_currentState, m_watchStateMask, fWorkLoop, gateEnabled, holders>>

\* commandSleep is interrupted: watchState returns kIOReturnAborted.
Interrupt(t) ==
    /\ pc[t] = "sleeping"
    /\ Move(t, "idle")
    /\ Return(t, "Aborted")
    /\ UNCHANGED <<m_currentState, m_watchStateMask, fWorkLoop, gateEnabled, holders>>

----------------------------------------------------------------------------
(* What the gated methods do with the gate held.                           *)

\* Faulty variant: wakes one sleeper.
WakeOne(p) ==
    IF \E u \in DOMAIN p : p[u] = "sleeping"
    THEN [p EXCEPT ![CHOOSE u \in DOMAIN p : p[u] = "sleeping"] = "woken"]
    ELSE p
\* commandWakeup(&m_currentState): every sleeper, whatever it waits for.
Wake(p) == [u \in DOMAIN p |-> IF p[u] = "sleeping" THEN "woken" ELSE p[u]]

\* setStateGated past its test: write the state word and, when a watched bit
\* changed, empty the mask and wake all sleepers; t leaves the gate.
WriteState(t, state, mask) ==
    LET newState == (m_currentState \ mask) \cup (state \cap mask)
        delta == (newState \ m_currentState) \cup (m_currentState \ newState)
        p == [pc EXCEPT ![t] = "idle"]
    IN /\ m_currentState' = newState
       /\ Return(t, "Success")
       /\ IF delta \cap m_watchStateMask # {}
          THEN m_watchStateMask' = {} /\ pc' = Wake(p)
          ELSE m_watchStateMask' = m_watchStateMask /\ pc' = p

\* The gated method returns and has changed nothing.
Leave(t, code) ==
    /\ Move(t, "idle")
    /\ Return(t, code)
    /\ UNCHANGED <<m_currentState, m_watchStateMask>>

\* Faulty variant: forgets the bits others wait for.
SleepOverwriting(t) ==
    /\ m_watchStateMask' = call[t].mask
    /\ Move(t, "sleeping")
    /\ UNCHANGED <<m_currentState, call>>
\* Register the watched bits and sleep on &m_currentState.
Sleep(t) ==
    /\ m_watchStateMask' = m_watchStateMask \cup call[t].mask
    /\ Move(t, "sleeping")
    /\ UNCHANGED <<m_currentState, call>>

\* runAction of a call made with the gate held tests the gate once more: on to
\* place p, or asleep at place q with the gate open.
Reenter(t, p, q) ==
    /\ Move(t, IF gateEnabled THEN p ELSE q)
    /\ UNCHANGED <<m_currentState, m_watchStateMask, call>>

\* Faulty variant: if instead of while.
MustWaitOnce(t) == Acquired /\ pc[t] # "woken"
\* The condition of the while loop of acquirePortGated.
MustWait(t) == Acquired

\* acquirePortGated from the test of its while loop.  A thread that was woken is
\* inside watchState already; one that was not calls it, through the gate.
TryAcquire(t) ==
    \/ /\ ~MustWait(t)
       /\ Reenter(t, "setting", "nested")
    \/ /\ MustWait(t)
       /\ ~call[t].sleep
       /\ Leave(t, "ExclusiveAccess")
    \/ /\ MustWait(t)
       /\ call[t].sleep
       /\ IF gateEnabled \/ pc[t] = "woken"
          THEN Sleep(t)
          ELSE Reenter(t, "gated", "blocked")

\* watchStateGated from the head of its while loop.
TryWatch(t) ==
    LET matched == Matched(call[t], m_currentState) IN
    \/ /\ matched # {}
       /\ Leave(t, IF call[t].auto /\ PD_S_ACTIVE \in matched
                   THEN "IOError" ELSE "Success")
    \/ /\ matched = {}
       /\ Sleep(t)

----------------------------------------------------------------------------
(* The calls of a thread.                                                  *)

\* acquirePort tests fWorkLoop before it takes the gate.
AcquirePort(t) == \E sleep \in BOOLEAN :
    /\ pc[t] = "idle"
    /\ fWorkLoop
    /\ Move(t, "entering")
    /\ call' = [call EXCEPT ![t] = AcquireCall(sleep)]
    /\ UNCHANGED <<m_currentState, m_watchStateMask, fWorkLoop, gateEnabled, holders>>

EnterAcquire(t) == pc[t] = "entering" /\ Enter(t, call[t])

\* Only a holder gives the port back; a thread that holds nothing may still call
\* releasePort while nobody does.
ReleasePort(t) ==
    /\ pc[t] = "idle"
    /\ t \in holders \/ holders = {}
    /\ Enter(t, ReleaseCall)

SetState(t) == \E c \in SetCalls :
    pc[t] = "idle" /\ Enter(t, SetCall(c))

\* With an empty mask watchState returns Success before it takes the gate.
WatchState(t) == \E c \in WatchCalls :
    pc[t] = "idle" /\ c.mask # {} /\ Enter(t, WatchCall(c))

\* acquirePortGated, called or woken in its loop.
AcquirePortGated(t) ==
    /\ call[t].op = "acquire"
    /\ pc[t] = "gated" \/ (pc[t] = "woken" /\ GateFree)
    /\ TryAcquire(t)
    /\ UNCHANGED <<fWorkLoop, gateEnabled, holders>>

\* The setState nested in acquirePortGated, and Success whatever it returned.
SetAcquired(t) ==
    /\ call[t].op = "acquire"
    /\ \/ pc[t] = "setting" /\ WriteState(t, {PD_S_ACQUIRED}, Bits)
       \/ pc[t] = "nested" /\ Leave(t, "Success")
    /\ holders' = holders \cup {t}
    /\ UNCHANGED <<fWorkLoop, gateEnabled>>

ReleasePortGated(t) ==
    /\ call[t].op = "release"
    /\ pc[t] = "gated"
    /\ IF Acquired
       THEN Reenter(t, "setting", "nested") /\ UNCHANGED holders
       ELSE Leave(t, "NotOpen") /\ holders' = holders \ {t}
    /\ UNCHANGED <<fWorkLoop, gateEnabled>>

\* Faulty variant: clears one bit.
ReleaseAcquiredOnly == {PD_S_ACQUIRED}
\* The bits releasePort clears.
ReleaseMask == Bits

\* The setState nested in releasePortGated, and Success whatever it returned.
ClearState(t) ==
    /\ call[t].op = "release"
    /\ \/ pc[t] = "setting" /\ WriteState(t, {}, ReleaseMask)
       \/ pc[t] = "nested" /\ Leave(t, "Success")
    /\ holders' = holders \ {t}
    /\ UNCHANGED <<fWorkLoop, gateEnabled>>

SetStateGated(t) ==
    /\ call[t].op = "set"
    /\ pc[t] = "gated"
    /\ IF Acquired \/ PD_S_ACQUIRED \in call[t].state
       THEN WriteState(t, call[t].state, call[t].mask)
       ELSE Leave(t, "NotOpen")
    /\ UNCHANGED <<fWorkLoop, gateEnabled, holders>>

\* watchStateGated, called or woken in its loop; only the call tests that the
\* port is acquired.
WatchStateGated(t) ==
    /\ call[t].op = "watch"
    /\ \/ pc[t] = "gated" /\ Acquired /\ TryWatch(t)
       \/ pc[t] = "gated" /\ ~Acquired /\ Leave(t, "NotOpen")
       \/ pc[t] = "woken" /\ GateFree /\ TryWatch(t)
    /\ UNCHANGED <<fWorkLoop, gateEnabled, holders>>

----------------------------------------------------------------------------
(* stop() disables the gate, then drops the work loop.  It wakes nobody.   *)

Stop ==
    /\ gateEnabled
    /\ gateEnabled' = FALSE
    /\ UNCHANGED <<fWorkLoop, m_currentState, m_watchStateMask, pc, call, holders>>

\* Faulty variant: the work loop is dropped before the gate is disabled.
DropWorkLoopFirst ==
    /\ fWorkLoop
    /\ fWorkLoop' = FALSE
    /\ UNCHANGED <<gateEnabled, m_currentState, m_watchStateMask, pc, call, holders>>
DropWorkLoop ==
    /\ fWorkLoop
    /\ ~gateEnabled
    /\ fWorkLoop' = FALSE
    /\ UNCHANGED <<gateEnabled, m_currentState, m_watchStateMask, pc, call, holders>>

Next ==
    \/ Stop \/ DropWorkLoop
    \/ \E t \in Thread :
          \/ AcquirePort(t) \/ EnterAcquire(t) \/ ReleasePort(t)
          \/ SetState(t) \/ WatchState(t)
          \/ AcquirePortGated(t) \/ SetAcquired(t)
          \/ ReleasePortGated(t) \/ ClearState(t)
          \/ SetStateGated(t) \/ WatchStateGated(t)
          \/ Block(t) \/ Abort(t) \/ Interrupt(t)

\* A thread that holds the gate runs on, and the gate starves nobody who waits
\* for it.  No client is forced to make a call, and nothing interrupts a thread
\* asleep on the disabled gate.
Proceed(t) ==
    \/ EnterAcquire(t) \/ AcquirePortGated(t) \/ ReleasePortGated(t)
    \/ SetStateGated(t) \/ WatchStateGated(t)
    \/ pc[t] = "setting" /\ (SetAcquired(t) \/ ClearState(t))
Fairness == \A t \in Thread : SF_vars(Proceed(t))

Spec == Init /\ [][Next]_vars
FairSpec == Spec /\ Fairness

----------------------------------------------------------------------------
(* Properties.                                                             *)

\* While the gate is enabled at most one client holds the port, and the ACQUIRED
\* bit says whether one does: acquirers that sleep, wake together and re-test
\* never share it.  After stop() an acquire or a release that was aborted inside
\* its setState has still returned Success, so the bit may be wrong either way;
\* but a port whose bit is set has no second holder even then.
PortExclusive ==
    /\ gateEnabled => (Acquired <=> holders # {})
    /\ gateEnabled \/ Acquired => \A t, u \in holders : t = u

\* No sleeper is forgotten: each of its bits is registered in m_watchStateMask,
\* and none has the value it waits for.  The mask is shared, is emptied by every
\* wake-up and is rebuilt only as sleepers go back to sleep.
NoMissedWakeup == \A t \in Thread :
    pc[t] = "sleeping" =>
        /\ call[t].mask \subseteq m_watchStateMask
        /\ Matched(call[t], m_currentState) = {}

\* A closed port has an all-zero state word: releasePort clears all of it, and no
\* setState, however late, writes to a port that is closed.
ClosedPortIsClear == ~Acquired => m_currentState = {}

\* After stop() has dropped the work loop the state word changes at most once, by
\* the thread that had passed the gate's test before the gate was disabled: once
\* the gate is free the word is final, whichever sleepers wake, are interrupted
\* or are told that they acquired or released the port.
StopFreezesPort == [][~fWorkLoop /\ GateFree =>
                        m_currentState' = m_currentState /\ GateFree']_vars

\* A client waiting for a free port gets it, or another one does, unless it is
\* interrupted or the driver stops.
Waiting(t) == call[t].op = "acquire"
AcquireProgress == \A t \in Thread :
    (Waiting(t) /\ ~Acquired) ~> (Acquired \/ ~Waiting(t) \/ ~gateEnabled)

\* A thread that does not wait for the port to open does not outlive it: once the
\* port closes it returns, unless the port is acquired again before it runs.
Watching(t) ==
    /\ call[t].op = "watch"
    /\ call[t].state \cap call[t].mask \cap {PD_S_ACQUIRED, PD_S_ACTIVE} = {}
ClosedPortFreesWatchers == \A t \in Thread :
    (Watching(t) /\ ~Acquired) ~> (Acquired \/ ~Watching(t))

\* The comment on line 153 of acquirePortGated, reached whatever setState
\* returned: the serial port has been acquired.
HolderHasAcquired == holders # {} => Acquired

\* The driver implements the abstract port.  A client still waits to be let in
\* when stop() begins, and from then on only those inside the gate count.
Port == INSTANCE PortLock WITH
            Client    <- Thread,
            inService <- gateEnabled,
            owner     <- holders,
            waiting   <- {t \in Thread :
                            /\ call[t].op = "acquire"
                            /\ gateEnabled \/ pc[t] \notin {"entering", "blocked"}}
ImplementsPortLock == Port!Spec
=============================================================================

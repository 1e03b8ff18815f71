----------------------- MODULE MySerialDriver_proofs -----------------------
(***************************************************************************)
(* The serial driver's invariants hold for every set of threads, every set *)
(* of modem bits and every client that leaves PD_S_ACQUIRED alone.         *)
(***************************************************************************)
EXTENDS MySerialDriver, TLAPS

----------------------------------------------------------------------------
(* The arguments of a call.                                                *)

\* Every call's record is one of Calls, its op tells which, and its mask never
\* names bits that do not exist.
LEMMA CallTypes ==
    /\ NoCall \in Calls /\ NoCall.op = "none"
    /\ ReleaseCall \in Calls /\ ReleaseCall.op = "release"
    /\ \A s \in BOOLEAN : AcquireCall(s) \in Calls /\ AcquireCall(s).op = "acquire"
    /\ \A c \in SetCalls : SetCall(c) \in Calls /\ SetCall(c).op = "set"
    /\ \A c \in WatchCalls : WatchCall(c) \in Calls /\ WatchCall(c).op = "watch"
    /\ \A c \in Calls : c.op \in {"acquire", "watch"} => c.mask \subseteq Bits
<1>1. \A c \in WatchCalls : WatchCall(c).mask \subseteq Bits
  BY ClientsKeepAcquired DEF WatchCall, Arguments, Bits
<1>2. \A s \in BOOLEAN : AcquireCall(s).mask \subseteq Bits
  BY DEF AcquireCall, Bits
<1>3. /\ NoCall \in Calls /\ NoCall.op = "none"
      /\ ReleaseCall \in Calls /\ ReleaseCall.op = "release"
  BY DEF NoCall, ReleaseCall, Calls
<1>4. \A s \in BOOLEAN : AcquireCall(s) \in Calls /\ AcquireCall(s).op = "acquire"
  BY DEF AcquireCall, Calls
<1>5. \A c \in WatchCalls : WatchCall(c) \in Calls /\ WatchCall(c).op = "watch"
  BY DEF WatchCall, Calls
<1>6. \A c \in SetCalls : SetCall(c) \in Calls /\ SetCall(c).op = "set"
  BY DEF SetCall, Calls
<1>7. ASSUME NEW c \in Calls, c.op \in {"acquire", "watch"}
      PROVE  c.mask \subseteq Bits
  BY <1>1, <1>2, <1>3, <1>6, <1>7 DEF Calls
<1>8. QED
  BY <1>3, <1>4, <1>5, <1>6, <1>7

\* The arguments of acquirePort are those of AcquireCall: it waits for ACQUIRED to
\* become 0.
LEMMA AcquireArguments ==
    ASSUME NEW c \in Calls, c.op = "acquire"
    PROVE  Acquired => Matched(c, m_currentState) = {}
<1>1. PICK s \in BOOLEAN : c = AcquireCall(s)
  BY CallTypes DEF Calls
<1>2. QED
  BY <1>1 DEF AcquireCall, Matched, Acquired

\* The arguments of setState never name PD_S_ACQUIRED.
LEMMA SetArguments ==
    ASSUME NEW c \in Calls, c.op = "set"
    PROVE  /\ c.state \in SUBSET Bits /\ c.mask \in SUBSET Bits
           /\ PD_S_ACQUIRED \notin c.mask /\ PD_S_ACQUIRED \notin c.state
<1>1. PICK d \in SetCalls : c = SetCall(d)
  BY CallTypes DEF Calls
<1>2. c.state = d.state /\ c.mask = d.mask
  BY <1>1 DEF SetCall
<1>3. d \in Arguments /\ d.state \subseteq d.mask /\ PD_S_ACQUIRED \notin d.mask
  BY ClientsKeepAcquired
<1>4. QED
  BY <1>2, <1>3 DEF Arguments

----------------------------------------------------------------------------
(* The inductive invariant.                                                *)

Busy(t) == pc[t] \in {"gated", "setting"}

\* One thread at a time holds the gate; nobody sleeps on an enabled gate; and a
\* thread asleep on the disabled gate inside a gated method came there last.
GateInv ==
    /\ gateEnabled => fWorkLoop
    /\ \A t, u \in Thread : Busy(t) /\ Busy(u) => t = u
    /\ \A t \in Thread : pc[t] = "blocked" => ~gateEnabled
    /\ \A t \in Thread : pc[t] = "nested" => ~gateEnabled /\ GateFree

\* The holders are exact as long as no gated call can have been aborted.
Settled == gateEnabled \/ ~GateFree
OneHolder == \A t, u \in holders : t = u
PortInv ==
    /\ Settled => (Acquired <=> holders # {})
    /\ Settled \/ Acquired => OneHolder
    /\ \A t \in Thread :
          pc[t] \in {"setting", "nested"} /\ call[t].op = "acquire" => ~Acquired
    /\ \A t \in Thread : Busy(t) /\ call[t].op = "release" => holders \subseteq {t}

IInv == TypeOK /\ GateInv /\ PortInv /\ NoMissedWakeup /\ ClosedPortIsClear

----------------------------------------------------------------------------
(* The kinds of step.                                                      *)

\* A step that leaves the port, the mask and the holders alone and puts nobody to
\* sleep: t goes to place q of call c.
LEMMA QuietKeeps ==
    ASSUME IInv, TypeOK', NEW t \in Thread, NEW q \in Locations, NEW c \in Calls,
           pc' = [pc EXCEPT ![t] = q], call' = [call EXCEPT ![t] = c],
           UNCHANGED <<m_currentState, m_watchStateMask, fWorkLoop, gateEnabled, holders>>,
           q # "sleeping",
           q \in {"gated", "setting"} => Busy(t) \/ (GateFree /\ gateEnabled),
           q \in {"blocked", "nested"} => ~gateEnabled,
           q = "nested" => Busy(t) \/ GateFree,
           q \in {"setting", "nested"} /\ c.op = "acquire" => ~Acquired,
           q \in {"gated", "setting"} /\ c.op = "release" => holders \subseteq {t}
    PROVE  IInv'
<1> TypeOK
  BY DEF IInv
<1>1. /\ pc'[t] = q /\ call'[t] = c
      /\ \A u \in Thread \ {t} : pc'[u] = pc[u] /\ call'[u] = call[u]
  BY DEF TypeOK
<1>2. GateFree /\ q \notin {"gated", "setting"} => GateFree'
  BY <1>1 DEF GateFree
<1>3. Busy(t) /\ q \notin {"gated", "setting"} => GateFree'
  BY <1>1 DEF GateFree, Busy, IInv, GateInv
<1>4. GateFree /\ ~gateEnabled => GateFree'
  BY <1>1, <1>2 DEF GateFree, Busy
<1>5. GateInv'
  <2>1. (gateEnabled => fWorkLoop)'
    BY DEF IInv, GateInv
  <2>2. (\A u, v \in Thread : Busy(u) /\ Busy(v) => u = v)'
    BY <1>1 DEF IInv, GateInv, GateFree, Busy
  <2>3. (\A u \in Thread : pc[u] = "blocked" => ~gateEnabled)'
    BY <1>1 DEF IInv, GateInv
  <2>4. (\A u \in Thread : pc[u] = "nested" => ~gateEnabled /\ GateFree)'
    <3> SUFFICES ASSUME NEW u \in Thread, pc'[u] = "nested"
                 PROVE  ~gateEnabled /\ GateFree'
      BY DEF GateFree
    <3>1. CASE u = t
      BY <1>1, <1>2, <1>3, <3>1
    <3>2. CASE u # t
      BY <1>1, <1>4, <3>2 DEF IInv, GateInv
    <3>3. QED
      BY <3>1, <3>2
  <2>5. QED
    BY <2>1, <2>2, <2>3, <2>4 DEF GateInv
<1>6. Settled' => Settled
  BY <1>4 DEF Settled
<1>7. PortInv'
  <2>1. (Settled => (Acquired <=> holders # {}))'
    BY <1>6 DEF IInv, PortInv, Acquired
  <2>2. (Settled \/ Acquired => OneHolder)'
    BY <1>6 DEF IInv, PortInv, Acquired, OneHolder
  <2>3. (\A u \in Thread :
           pc[u] \in {"setting", "nested"} /\ call[u].op = "acquire" => ~Acquired)'
    BY <1>1 DEF IInv, PortInv, Acquired
  <2>4. (\A u \in Thread : Busy(u) /\ call[u].op = "release" => holders \subseteq {u})'
    BY <1>1 DEF IInv, PortInv, Busy
  <2>5. QED
    BY <2>1, <2>2, <2>3, <2>4 DEF PortInv
<1>8. NoMissedWakeup' /\ ClosedPortIsClear'
  BY <1>1 DEF IInv, NoMissedWakeup, ClosedPortIsClear, Matched, Acquired
<1>9. QED
  BY <1>5, <1>7, <1>8 DEF IInv

\* A thread that goes to sleep with no bit matched registers all of its bits and
\* leaves the other sleepers' bits registered.
LEMMA SleepKeeps ==
    ASSUME IInv, NEW t \in Thread, call[t].op \in {"acquire", "watch"},
           Matched(call[t], m_currentState) = {}, Sleep(t),
           UNCHANGED <<holders, fWorkLoop, gateEnabled>>
    PROVE  IInv'
<1> TypeOK
  BY DEF IInv
<1>1. /\ pc'[t] = "sleeping"
      /\ \A u \in Thread \ {t} : pc'[u] = pc[u]
      /\ UNCHANGED <<m_currentState, call>>
  BY DEF TypeOK, Sleep, Move
<1>2. m_watchStateMask' = m_watchStateMask \cup call[t].mask
  BY DEF Sleep
<1>3. call[t].mask \subseteq Bits
  BY CallTypes DEF TypeOK
<1>4. TypeOK'
  BY <1>1, <1>2, <1>3 DEF TypeOK, Sleep, Move, Locations
<1>5. GateFree => GateFree'
  BY <1>1 DEF GateFree
<1>6. GateInv'
  BY <1>1, <1>5 DEF IInv, GateInv, Busy
<1>7. PortInv'
  BY <1>1, <1>5 DEF IInv, PortInv, Settled, OneHolder, Acquired, Busy
<1>8. NoMissedWakeup' /\ ClosedPortIsClear'
  BY <1>1, <1>2 DEF IInv, NoMissedWakeup, ClosedPortIsClear, Acquired, Matched
<1>9. QED
  BY <1>4, <1>6, <1>7, <1>8 DEF IInv

\* WriteState stores the masked merge, sends t out of the gate and moves the others
\* only from "sleeping" to "woken"; whoever is still asleep has none of its bits
\* changed.
LEMMA WriteStateSteps ==
    ASSUME TypeOK, NoMissedWakeup, NEW t \in Thread, pc[t] \in {"gated", "setting"},
           NEW state \in SUBSET Bits, NEW mask \in SUBSET Bits, WriteState(t, state, mask)
    PROVE  /\ m_currentState' = (m_currentState \ mask) \cup (state \cap mask)
           /\ m_currentState' \subseteq Bits
           /\ m_watchStateMask' \subseteq Bits
           /\ pc' \in [Thread -> Locations]
           /\ call' = [call EXCEPT ![t] = NoCall]
           /\ pc'[t] = "idle"
           /\ \A u \in Thread \ {t} :
                 pc'[u] = pc[u] \/ (pc[u] = "sleeping" /\ pc'[u] = "woken")
           /\ NoMissedWakeup'
<1> DEFINE newState == (m_currentState \ mask) \cup (state \cap mask)
           delta == (newState \ m_currentState) \cup (m_currentState \ newState)
           p == [pc EXCEPT ![t] = "idle"]
<1>1. m_currentState' = newState /\ call' = [call EXCEPT ![t] = NoCall]
  BY DEF WriteState, Return
<1>2. newState \subseteq Bits
  BY DEF TypeOK
<1>3. /\ p \in [Thread -> Locations] /\ p[t] = "idle"
      /\ \A u \in Thread \ {t} : p[u] = pc[u]
  BY DEF TypeOK, Locations
<1>4. CASE delta \cap m_watchStateMask # {}
  <2>1. m_watchStateMask' = {} /\ pc' = Wake(p)
    BY <1>4 DEF WriteState
  <2>2. /\ pc' \in [Thread -> Locations] /\ pc'[t] = "idle"
        /\ \A u \in Thread : pc'[u] # "sleeping"
        /\ \A u \in Thread \ {t} :
              pc'[u] = pc[u] \/ (pc[u] = "sleeping" /\ pc'[u] = "woken")
    <3> HIDE DEF p
    <3>1. QED
      BY <1>3, <2>1 DEF Wake, Locations
  <2>3. NoMissedWakeup'
    BY <2>2 DEF NoMissedWakeup
  <2>4. QED
    BY <1>1, <1>2, <2>1, <2>2, <2>3
<1>5. CASE delta \cap m_watchStateMask = {}
  <2>1. m_watchStateMask' = m_watchStateMask /\ pc' = p
    BY <1>5 DEF WriteState
  <2>2. NoMissedWakeup'
    <3> SUFFICES ASSUME NEW u \in Thread, pc'[u] = "sleeping"
                 PROVE  /\ call'[u].mask \subseteq m_watchStateMask'
                        /\ Matched(call'[u], m_currentState') = {}
      BY DEF NoMissedWakeup, Matched
    <3>1. u # t /\ pc[u] = "sleeping" /\ call'[u] = call[u]
      BY <1>1, <1>3, <2>1 DEF TypeOK
    <3>2. /\ call[u].mask \subseteq m_watchStateMask
          /\ Matched(call[u], m_currentState) = {}
      BY <3>1 DEF NoMissedWakeup
    <3>3. \A b \in call[u].mask : b \in newState <=> b \in m_currentState
      BY <1>5, <3>2
    <3>4. Matched(call[u], newState) = {}
      BY <3>2, <3>3 DEF Matched
    <3>5. QED
      BY <1>1, <2>1, <3>1, <3>2, <3>4
  <2>3. QED
    BY <1>1, <1>2, <1>3, <2>1, <2>2 DEF TypeOK
<1>6. QED
  BY <1>4, <1>5

\* A write from inside the gate keeps the invariant when the holders follow it.
LEMMA WriteKeeps ==
    ASSUME IInv, NEW t \in Thread, pc[t] \in {"gated", "setting"},
           NEW state \in SUBSET Bits, NEW mask \in SUBSET Bits, WriteState(t, state, mask),
           UNCHANGED <<fWorkLoop, gateEnabled>>, holders' \subseteq Thread,
           Acquired' <=> holders' # {}, OneHolder', ClosedPortIsClear'
    PROVE  IInv'
<1> TypeOK /\ NoMissedWakeup
  BY DEF IInv
<1>1. /\ m_currentState' \subseteq Bits
      /\ m_watchStateMask' \subseteq Bits
      /\ pc' \in [Thread -> Locations]
      /\ call' = [call EXCEPT ![t] = NoCall]
      /\ pc'[t] = "idle"
      /\ \A u \in Thread \ {t} :
            pc'[u] = pc[u] \/ (pc[u] = "sleeping" /\ pc'[u] = "woken")
      /\ NoMissedWakeup'
  BY WriteStateSteps
<1>2. /\ call' \in [Thread -> Calls] /\ call'[t] = NoCall
      /\ \A u \in Thread \ {t} : call'[u] = call[u]
  BY <1>1, CallTypes DEF TypeOK
<1>3. TypeOK'
  BY <1>1, <1>2 DEF TypeOK
<1>4. /\ GateFree' /\ ~GateFree
      /\ \A u \in Thread : ~Busy(u)'
  <2>1. Busy(t) /\ \A u \in Thread \ {t} : ~Busy(u)
    BY DEF Busy, IInv, GateInv
  <2>2. QED
    BY <1>1, <2>1 DEF Busy, GateFree
<1>5. \A u \in Thread : pc[u] # "nested" /\ pc'[u] # "nested"
  BY <1>1, <1>4 DEF IInv, GateInv
<1>6. GateInv'
  BY <1>1, <1>4, <1>5 DEF IInv, GateInv
<1>7. PortInv'
  BY <1>4, <1>5 DEF PortInv, Busy
<1>8. QED
  BY <1>1, <1>3, <1>6, <1>7 DEF IInv

\* A thread aborted in its nested setState returns and only the holders change.
LEMMA AbortedKeeps ==
    ASSUME IInv, NEW t \in Thread, pc[t] = "nested", NEW code, Leave(t, code),
           UNCHANGED <<fWorkLoop, gateEnabled>>, holders' \subseteq Thread,
           Acquired => OneHolder'
    PROVE  IInv'
<1> TypeOK
  BY DEF IInv
<1>1. /\ pc'[t] = "idle" /\ call'[t] = NoCall
      /\ \A u \in Thread \ {t} : pc'[u] = pc[u] /\ call'[u] = call[u]
      /\ UNCHANGED <<m_currentState, m_watchStateMask>>
  BY DEF TypeOK, Leave, Move, Return
<1>2. TypeOK'
  BY <1>1, CallTypes DEF TypeOK, Leave, Move, Return, Locations
<1>3. ~gateEnabled /\ GateFree /\ GateFree'
  BY <1>1 DEF IInv, GateInv, GateFree
<1>4. GateInv'
  BY <1>1, <1>3 DEF IInv, GateInv, GateFree, Busy
<1>5. PortInv'
  BY <1>1, <1>3 DEF IInv, PortInv, Settled, GateFree, Busy, Acquired
<1>6. NoMissedWakeup' /\ ClosedPortIsClear'
  BY <1>1 DEF IInv, NoMissedWakeup, ClosedPortIsClear, Matched, Acquired
<1>7. QED
  BY <1>2, <1>4, <1>5, <1>6 DEF IInv

----------------------------------------------------------------------------
(* Every step keeps the invariant.                                         *)

LEMMA EnterKeeps ==
    ASSUME IInv, NEW t \in Thread, NEW c \in Calls, c # NoCall, Enter(t, c),
           c.op = "release" => holders \subseteq {t}
    PROVE  IInv'
<1> TypeOK
  BY DEF IInv
<1>1. TypeOK'
  BY DEF TypeOK, Enter, Move, Locations
<1>2. "gated" \in Locations
  BY DEF Locations
<1>3. QED
  BY <1>1, <1>2, QuietKeeps DEF Enter, Move

\* Leave with the gate held, or woken into it.
LEMMA LeaveKeeps ==
    ASSUME IInv, NEW t \in Thread, NEW code, Leave(t, code),
           UNCHANGED <<fWorkLoop, gateEnabled, holders>>
    PROVE  IInv'
<1> TypeOK
  BY DEF IInv
<1>1. TypeOK'
  BY CallTypes DEF TypeOK, Leave, Move, Return, Locations
<1>2. "idle" \in Locations
  BY DEF Locations
<1>3. QED
  BY <1>1, <1>2, CallTypes, QuietKeeps DEF Leave, Move, Return

\* The call made through the gate again, to place p or asleep at place q.
LEMMA ReenterKeeps ==
    ASSUME IInv, NEW t \in Thread, NEW p \in {"gated", "setting"},
           NEW q \in {"blocked", "nested"}, Reenter(t, p, q),
           UNCHANGED <<fWorkLoop, gateEnabled, holders>>,
           Busy(t) \/ (pc[t] = "woken" /\ GateFree),
           call[t].op \in {"acquire", "release"},
           p = "setting" <=> q = "nested",
           p = "setting" /\ call[t].op = "acquire" => ~Acquired,
           p = "gated" => ~gateEnabled
    PROVE  IInv'
<1> TypeOK
  BY DEF IInv
<1> DEFINE r == IF gateEnabled THEN p ELSE q
<1>1. /\ r \in Locations /\ pc' = [pc EXCEPT ![t] = r]
      /\ call' = [call EXCEPT ![t] = call[t]]
      /\ call[t] \in Calls
      /\ UNCHANGED <<m_currentState, m_watchStateMask>>
  BY DEF TypeOK, Reenter, Move, Locations
<1>2. TypeOK'
  BY <1>1 DEF TypeOK
<1>3. /\ r \in {"gated", "setting"} => r = "setting" /\ gateEnabled
      /\ r \in {"blocked", "nested"} => ~gateEnabled
      /\ r \in {"setting", "nested"} => p = "setting"
      /\ r # "sleeping"
  OBVIOUS
<1>4. call[t].op = "release" => holders \subseteq {t} \/ pc[t] = "woken"
  BY DEF IInv, PortInv
<1>5. pc[t] = "woken" => call[t].op # "release"
  BY DEF TypeOK
<1>6. QED
  <2> HIDE DEF r
  <2>1. QED
    BY <1>1, <1>2, <1>3, <1>4, <1>5, QuietKeeps

LEMMA AcquirePortGatedKeeps ==
    ASSUME IInv, NEW t \in Thread, AcquirePortGated(t)
    PROVE  IInv'
<1> TypeOK /\ call[t] \in Calls
  BY DEF IInv, TypeOK
<1>1. /\ call[t].op = "acquire"
      /\ Busy(t) \/ (pc[t] = "woken" /\ GateFree)
      /\ UNCHANGED <<fWorkLoop, gateEnabled, holders>>
  BY DEF AcquirePortGated, Busy
<1>2. CASE ~Acquired /\ Reenter(t, "setting", "nested")
  BY <1>1, <1>2, ReenterKeeps
<1>3. CASE Leave(t, "ExclusiveAccess")
  BY <1>1, <1>3, LeaveKeeps
<1>4. CASE Acquired /\ Sleep(t)
  BY <1>1, <1>4, AcquireArguments, SleepKeeps
<1>5. CASE ~gateEnabled /\ Reenter(t, "gated", "blocked")
  BY <1>1, <1>5, ReenterKeeps
<1>6. QED
  BY <1>2, <1>3, <1>4, <1>5 DEF AcquirePortGated, TryAcquire, MustWait

LEMMA SetAcquiredKeeps ==
    ASSUME IInv, NEW t \in Thread, SetAcquired(t)
    PROVE  IInv'
<1> TypeOK /\ NoMissedWakeup
  BY DEF IInv
<1>1. /\ call[t].op = "acquire" /\ holders' = holders \cup {t}
      /\ UNCHANGED <<fWorkLoop, gateEnabled>> /\ holders' \subseteq Thread
  BY DEF SetAcquired, TypeOK
<1>2. CASE pc[t] = "setting" /\ WriteState(t, {PD_S_ACQUIRED}, Bits)
  <2>1. {PD_S_ACQUIRED} \in SUBSET Bits /\ Bits \in SUBSET Bits
    BY DEF Bits
  <2>2. m_currentState' = (m_currentState \ Bits) \cup ({PD_S_ACQUIRED} \cap Bits)
    BY <1>2, <2>1, WriteStateSteps
  <2>3. Acquired'
    BY <2>1, <2>2 DEF Acquired
  <2>4. holders = {}
    BY <1>1, <1>2 DEF IInv, PortInv, Settled, GateFree
  <2>5. OneHolder' /\ ClosedPortIsClear' /\ holders' # {}
    BY <1>1, <2>3, <2>4 DEF OneHolder, ClosedPortIsClear
  <2>6. QED
    BY <1>1, <1>2, <2>1, <2>3, <2>5, WriteKeeps
<1>3. CASE pc[t] = "nested" /\ Leave(t, "Success")
  <2>1. ~Acquired
    BY <1>1, <1>3 DEF IInv, PortInv
  <2>2. QED
    BY <1>1, <1>3, <2>1, AbortedKeeps
<1>4. QED
  BY <1>2, <1>3 DEF SetAcquired

LEMMA ReleasePortGatedKeeps ==
    ASSUME IInv, NEW t \in Thread, ReleasePortGated(t)
    PROVE  IInv'
<1> TypeOK
  BY DEF IInv
<1>1. call[t].op = "release" /\ Busy(t) /\ UNCHANGED <<fWorkLoop, gateEnabled>>
  BY DEF ReleasePortGated, Busy
<1>2. CASE Acquired /\ Reenter(t, "setting", "nested") /\ UNCHANGED holders
  BY <1>1, <1>2, ReenterKeeps
<1>3. CASE ~Acquired /\ Leave(t, "NotOpen") /\ holders' = holders \ {t}
  <2>1. holders = {}
    BY <1>1, <1>3 DEF IInv, PortInv, Settled, GateFree, Busy
  <2>2. QED
    BY <1>1, <1>3, <2>1, LeaveKeeps
<1>4. QED
  BY <1>2, <1>3 DEF ReleasePortGated

LEMMA ClearStateKeeps ==
    ASSUME IInv, NEW t \in Thread, ClearState(t)
    PROVE  IInv'
<1> TypeOK /\ NoMissedWakeup
  BY DEF IInv
<1>1. /\ call[t].op = "release" /\ holders' = holders \ {t}
      /\ UNCHANGED <<fWorkLoop, gateEnabled>> /\ holders' \subseteq Thread
  BY DEF ClearState, TypeOK
<1>2. CASE pc[t] = "setting" /\ WriteState(t, {}, Bits)
  <2>1. {} \in SUBSET Bits /\ Bits \in SUBSET Bits
    OBVIOUS
  <2>2. m_currentState' = (m_currentState \ Bits) \cup ({} \cap Bits)
    BY <1>2, <2>1, WriteStateSteps
  <2>3. m_currentState' = {}
    BY <2>2 DEF TypeOK
  <2>4. holders' = {}
    BY <1>1, <1>2 DEF IInv, PortInv, Busy
  <2>5. ~Acquired' /\ OneHolder' /\ ClosedPortIsClear'
    BY <2>3, <2>4 DEF OneHolder, ClosedPortIsClear, Acquired
  <2>6. QED
    BY <1>1, <1>2, <2>1, <2>4, <2>5, WriteKeeps
<1>3. CASE pc[t] = "nested" /\ Leave(t, "Success")
  <2>1. Acquired => OneHolder'
    BY <1>1 DEF IInv, PortInv, OneHolder
  <2>2. QED
    BY <1>1, <1>3, <2>1, AbortedKeeps
<1>4. QED
  BY <1>2, <1>3 DEF ClearState, ReleaseMask

\* No client call of setState touches PD_S_ACQUIRED, so the holder is unchanged.
LEMMA SetStateGatedKeeps ==
    ASSUME IInv, NEW t \in Thread, SetStateGated(t)
    PROVE  IInv'
<1> TypeOK /\ NoMissedWakeup /\ call[t] \in Calls
  BY DEF IInv, TypeOK
<1>1. /\ call[t].op = "set" /\ pc[t] = "gated"
      /\ UNCHANGED <<fWorkLoop, gateEnabled, holders>>
  BY DEF SetStateGated
<1> DEFINE s == call[t].state
           m == call[t].mask
<1>2. /\ s \in SUBSET Bits /\ m \in SUBSET Bits
      /\ PD_S_ACQUIRED \notin m /\ PD_S_ACQUIRED \notin s
  BY <1>1, SetArguments
<1>3. CASE Acquired /\ WriteState(t, s, m)
  <2> HIDE DEF s, m
  <2>1. m_currentState' = (m_currentState \ m) \cup (s \cap m)
    BY <1>1, <1>2, <1>3, WriteStateSteps
  <2>2. Acquired'
    BY <1>2, <1>3, <2>1 DEF Acquired
  <2>3. holders # {} /\ OneHolder
    BY <1>3, <1>1 DEF IInv, PortInv, Settled, GateFree
  <2>4. OneHolder' /\ ClosedPortIsClear' /\ holders' # {} /\ holders' \subseteq Thread
    BY <1>1, <2>2, <2>3 DEF OneHolder, ClosedPortIsClear, TypeOK
  <2>5. QED
    BY <1>1, <1>2, <1>3, <2>2, <2>4, WriteKeeps
<1>4. CASE Leave(t, "NotOpen")
  BY <1>1, <1>4, LeaveKeeps
<1>5. QED
  BY <1>1, <1>2, <1>3, <1>4 DEF SetStateGated

LEMMA WatchStateGatedKeeps ==
    ASSUME IInv, NEW t \in Thread, WatchStateGated(t)
    PROVE  IInv'
<1>1. call[t].op = "watch" /\ UNCHANGED <<fWorkLoop, gateEnabled, holders>>
  BY DEF WatchStateGated
<1>2. CASE Leave(t, "NotOpen")
  BY <1>1, <1>2, LeaveKeeps
<1>3. CASE TryWatch(t)
  <2>1. CASE Matched(call[t], m_currentState) = {}
    BY <1>1, <1>3, <2>1, SleepKeeps DEF TryWatch
  <2>2. CASE Matched(call[t], m_currentState) # {}
    <3>1. PICK code \in {"IOError", "Success"} : Leave(t, code)
      BY <1>3, <2>2 DEF TryWatch
    <3>2. QED
      BY <1>1, <3>1, LeaveKeeps
  <2>3. QED
    BY <2>1, <2>2
<1>4. QED
  BY <1>2, <1>3 DEF WatchStateGated

LEMMA StopKeeps ==
    ASSUME IInv, Stop \/ DropWorkLoop \/ UNCHANGED vars
    PROVE  IInv'
<1>1. /\ UNCHANGED <<m_currentState, m_watchStateMask, pc, call, holders>>
      /\ gateEnabled' => gateEnabled
      /\ gateEnabled' => fWorkLoop'
  BY DEF Stop, DropWorkLoop, vars, IInv, GateInv
<1>2. TypeOK'
  <2>1. fWorkLoop' \in BOOLEAN /\ gateEnabled' \in BOOLEAN
    BY DEF IInv, TypeOK, Stop, DropWorkLoop, vars
  <2>2. QED
    BY <1>1, <2>1 DEF IInv, TypeOK
<1>3. GateFree' <=> GateFree
  BY <1>1 DEF GateFree
<1>4. GateInv'
  BY <1>1, <1>3 DEF IInv, GateInv, Busy
<1>5. PortInv'
  BY <1>1, <1>3 DEF IInv, PortInv, Settled, OneHolder, Acquired, Busy
<1>6. NoMissedWakeup' /\ ClosedPortIsClear'
  BY <1>1 DEF IInv, NoMissedWakeup, ClosedPortIsClear, Matched, Acquired
<1>7. QED
  BY <1>2, <1>4, <1>5, <1>6 DEF IInv

LEMMA Inductive == IInv /\ [Next]_vars => IInv'
<1> SUFFICES ASSUME IInv, [Next]_vars
             PROVE  IInv'
  OBVIOUS
<1> TypeOK
  BY DEF IInv
<1>1. CASE Stop \/ DropWorkLoop \/ UNCHANGED vars
  BY <1>1, StopKeeps
<1>2. ASSUME NEW t \in Thread, AcquirePort(t)
      PROVE  IInv'
  <2>1. PICK s \in BOOLEAN :
          /\ pc' = [pc EXCEPT ![t] = "entering"]
          /\ call' = [call EXCEPT ![t] = AcquireCall(s)]
          /\ UNCHANGED <<m_currentState, m_watchStateMask, fWorkLoop, gateEnabled, holders>>
    BY <1>2 DEF AcquirePort, Move
  <2>2. AcquireCall(s) \in Calls /\ AcquireCall(s).op = "acquire"
    BY CallTypes
  <2>3. "entering" \in Locations
    BY DEF Locations
  <2>4. TypeOK'
    BY <2>1, <2>2, <2>3 DEF TypeOK
  <2>5. QED
    BY <2>1, <2>2, <2>3, <2>4, QuietKeeps
<1>3. ASSUME NEW t \in Thread, EnterAcquire(t)
      PROVE  IInv'
  <2>1. call[t] \in Calls /\ call[t].op = "acquire" /\ Enter(t, call[t])
    BY <1>3 DEF TypeOK, EnterAcquire
  <2>2. QED
    BY <2>1, CallTypes, EnterKeeps
<1>4. ASSUME NEW t \in Thread, ReleasePort(t)
      PROVE  IInv'
  <2>1. holders \subseteq {t}
    BY <1>4 DEF ReleasePort, Enter, IInv, PortInv, Settled, OneHolder
  <2>2. QED
    BY <1>4, <2>1, CallTypes, EnterKeeps DEF ReleasePort
<1>5. ASSUME NEW t \in Thread, SetState(t)
      PROVE  IInv'
  BY <1>5, CallTypes, EnterKeeps DEF SetState
<1>6. ASSUME NEW t \in Thread, WatchState(t)
      PROVE  IInv'
  BY <1>6, CallTypes, EnterKeeps DEF WatchState
<1>7. ASSUME NEW t \in Thread, Block(t)
      PROVE  IInv'
  <2>1. /\ pc' = [pc EXCEPT ![t] = "blocked"] /\ call' = [call EXCEPT ![t] = call[t]]
        /\ ~gateEnabled /\ call[t] \in Calls
        /\ UNCHANGED <<m_currentState, m_watchStateMask, fWorkLoop, gateEnabled, holders>>
    BY <1>7 DEF Block, Move, TypeOK
  <2>2. "blocked" \in Locations
    BY DEF Locations
  <2>3. TypeOK'
    BY <2>1, <2>2 DEF TypeOK
  <2>4. QED
    BY <2>1, <2>2, <2>3, QuietKeeps
<1>8. ASSUME NEW t \in Thread, Abort(t) \/ Interrupt(t)
      PROVE  IInv'
  <2>1. Leave(t, "Aborted") /\ UNCHANGED <<fWorkLoop, gateEnabled, holders>>
    BY <1>8 DEF Abort, Interrupt, Leave
  <2>2. QED
    BY <2>1, LeaveKeeps
<1>9. ASSUME NEW t \in Thread,
             \/ AcquirePortGated(t) \/ SetAcquired(t) \/ ReleasePortGated(t)
             \/ ClearState(t) \/ SetStateGated(t) \/ WatchStateGated(t)
      PROVE  IInv'
  BY <1>9, AcquirePortGatedKeeps, SetAcquiredKeeps, ReleasePortGatedKeeps,
     ClearStateKeeps, SetStateGatedKeeps, WatchStateGatedKeeps
<1>10. QED
  BY <1>1, <1>2, <1>3, <1>4, <1>5, <1>6, <1>7, <1>8, <1>9 DEF Next

LEMMA InitInv == Init => IInv
<1> SUFFICES ASSUME Init
             PROVE  IInv
  OBVIOUS
<1>1. TypeOK
  BY CallTypes DEF Init, TypeOK, Locations
<1>2. GateInv
  BY DEF Init, GateInv, Busy
<1>3. PortInv /\ ClosedPortIsClear
  BY CallTypes DEF Init, PortInv, OneHolder, ClosedPortIsClear, Acquired, Busy
<1>4. NoMissedWakeup
  BY DEF Init, NoMissedWakeup
<1>5. QED
  BY <1>1, <1>2, <1>3, <1>4 DEF IInv

----------------------------------------------------------------------------
(* The results.                                                            *)

\* The conjunction is an invariant of the driver: the inductive one.
THEOREM Invariance == Spec => []IInv
BY InitInv, Inductive, PTL DEF Spec

\* Every variable keeps its type and a thread's arguments fit its place.
THEOREM TypeCorrect == Spec => []TypeOK
<1>1. IInv => TypeOK
  BY DEF IInv
<1>2. QED
  BY <1>1, Invariance, PTL

\* Until stop() acquirers that sleep, wake together and re-test never share the
\* port, and afterwards no port with its bit set has two holders, although aborted
\* calls report what they did not do.
THEOREM ExclusivePort == Spec => []PortExclusive
<1>1. IInv => PortExclusive
  BY DEF IInv, PortInv, Settled, OneHolder, PortExclusive
<1>2. QED
  BY <1>1, Invariance, PTL

\* A thread asleep in watchState is always registered for the bits it waits for,
\* and none of them has its value yet.
THEOREM NoLostWakeup == Spec => []NoMissedWakeup
<1>1. IInv => NoMissedWakeup
  BY DEF IInv
<1>2. QED
  BY <1>1, Invariance, PTL

\* The state word of a closed port is zero.
THEOREM ClosedClear == Spec => []ClosedPortIsClear
<1>1. IInv => ClosedPortIsClear
  BY DEF IInv
<1>2. QED
  BY <1>1, Invariance, PTL

\* Once stop() has dropped the work loop and the gate is free, nobody writes the
\* state word any more, although sleepers still wake and calls are still aborted.
THEOREM StopIsFinal == Spec => StopFreezesPort
<1>1. ASSUME IInv, [Next]_vars, ~fWorkLoop, GateFree
      PROVE  m_currentState' = m_currentState /\ GateFree'
  <2> ~gateEnabled /\ TypeOK
    BY <1>1 DEF IInv, GateInv
  <2>1. ASSUME NEW t \in Thread, NEW q \in Locations, q \notin {"gated", "setting"}, Move(t, q)
        PROVE  GateFree'
    BY <1>1, <2>1 DEF GateFree, Move, TypeOK
  <2>2. ASSUME NEW t \in Thread, NEW code, Leave(t, code)
        PROVE  m_currentState' = m_currentState /\ GateFree'
    BY <2>1, <2>2 DEF Leave, Locations
  <2>3. ASSUME NEW t \in Thread, Sleep(t)
        PROVE  m_currentState' = m_currentState /\ GateFree'
    BY <2>1, <2>3 DEF Sleep, Locations
  <2>4. ASSUME NEW t \in Thread, NEW p, NEW q \in {"blocked", "nested"}, Reenter(t, p, q)
        PROVE  m_currentState' = m_currentState /\ GateFree'
    BY <2>1, <2>4 DEF Reenter, Locations
  <2>5. ASSUME NEW t \in Thread,
               \/ EnterAcquire(t) \/ ReleasePort(t) \/ SetState(t) \/ WatchState(t)
        PROVE  FALSE
    BY <2>5 DEF EnterAcquire, ReleasePort, SetState, WatchState, Enter
  <2>6. ASSUME NEW t \in Thread, AcquirePort(t) \/ Block(t)
        PROVE  m_currentState' = m_currentState /\ GateFree'
    BY <2>1, <2>6 DEF AcquirePort, Block, Locations
  <2>7. ASSUME NEW t \in Thread, Abort(t) \/ Interrupt(t)
        PROVE  m_currentState' = m_currentState /\ GateFree'
    BY <2>2, <2>7 DEF Abort, Interrupt, Leave
  <2>8. ASSUME NEW t \in Thread, AcquirePortGated(t)
        PROVE  m_currentState' = m_currentState /\ GateFree'
    BY <2>2, <2>3, <2>4, <2>8 DEF AcquirePortGated, TryAcquire
  <2>9. ASSUME NEW t \in Thread, SetAcquired(t) \/ ClearState(t)
        PROVE  m_currentState' = m_currentState /\ GateFree'
    BY <1>1, <2>2, <2>9 DEF SetAcquired, ClearState, GateFree
  <2>10. ASSUME NEW t \in Thread, ReleasePortGated(t) \/ SetStateGated(t)
         PROVE  FALSE
    BY <1>1, <2>10 DEF ReleasePortGated, SetStateGated, GateFree
  <2>11. ASSUME NEW t \in Thread, WatchStateGated(t)
         PROVE  m_currentState' = m_currentState /\ GateFree'
    BY <2>2, <2>3, <2>11 DEF WatchStateGated, TryWatch
  <2>12. CASE Stop \/ DropWorkLoop \/ UNCHANGED vars
    BY <1>1, <2>12 DEF Stop, DropWorkLoop, vars, GateFree
  <2>13. QED
    BY <1>1, <2>5, <2>6, <2>7, <2>8, <2>9, <2>10, <2>11, <2>12 DEF Next
<1>2. IInv /\ [Next]_vars =>
        [~fWorkLoop /\ GateFree => m_currentState' = m_currentState /\ GateFree']_vars
  BY <1>1
<1>3. QED
  BY <1>2, Invariance, PTL DEF Spec, StopFreezesPort

----------------------------------------------------------------------------
(* The driver implements the abstract port.                                *)

\* A client the abstract port counts as waiting.
Asks(t) == call[t].op = "acquire" /\ (gateEnabled \/ pc[t] \notin {"entering", "blocked"})
Asking == {t \in Thread : Asks(t)}

\* What a step does to the abstract port follows from what it does to t alone.
LEMMA AskingChanges ==
    ASSUME TypeOK, NEW t \in Thread, gateEnabled' = gateEnabled,
           \A u \in Thread \ {t} : Asks(u)' <=> Asks(u)
    PROVE  Asking' = IF Asks(t)' THEN Asking \cup {t} ELSE Asking \ {t}
BY DEF Asking

\* Only the stepping thread's place and call change, but for sleepers that wake.
LEMMA StepIsLocal ==
    ASSUME IInv, NEW t \in Thread,
           \/ AcquirePort(t) \/ EnterAcquire(t) \/ ReleasePort(t)
           \/ SetState(t) \/ WatchState(t)
           \/ AcquirePortGated(t) \/ SetAcquired(t)
           \/ ReleasePortGated(t) \/ ClearState(t)
           \/ SetStateGated(t) \/ WatchStateGated(t)
           \/ Block(t) \/ Abort(t) \/ Interrupt(t)
    PROVE  /\ gateEnabled' = gateEnabled
           /\ \A u \in Thread \ {t} : Asks(u)' <=> Asks(u)
<1> TypeOK
  BY DEF IInv
<1>1. gateEnabled' = gateEnabled
  BY DEF AcquirePort, EnterAcquire, ReleasePort, SetState, WatchState, Enter,
         AcquirePortGated, SetAcquired, ReleasePortGated, ClearState,
         SetStateGated, WatchStateGated, Block, Abort, Interrupt
<1> SUFFICES ASSUME NEW u \in Thread \ {t}
             PROVE  Asks(u)' <=> Asks(u)
  BY <1>1
<1>2. ASSUME NEW q, Move(t, q)
      PROVE  pc'[u] = pc[u]
  BY <1>2 DEF Move, TypeOK
<1>3. ASSUME NEW c, call' = [call EXCEPT ![t] = c]
      PROVE  call'[u] = call[u]
  BY <1>3 DEF TypeOK
<1>4. ASSUME NEW code, Leave(t, code)
      PROVE  pc'[u] = pc[u] /\ call'[u] = call[u]
  BY <1>2, <1>3, <1>4 DEF Leave, Return
<1>5. ASSUME Sleep(t)
      PROVE  pc'[u] = pc[u] /\ call'[u] = call[u]
  BY <1>2, <1>5 DEF Sleep
<1>6. ASSUME NEW p, NEW q, Reenter(t, p, q)
      PROVE  pc'[u] = pc[u] /\ call'[u] = call[u]
  BY <1>2, <1>6 DEF Reenter
<1>7. ASSUME NEW state, NEW mask, WriteState(t, state, mask)
      PROVE  /\ call'[u] = call[u]
             /\ pc'[u] = pc[u] \/ (pc[u] = "sleeping" /\ pc'[u] = "woken")
  <2>1. call'[u] = call[u]
    BY <1>3, <1>7 DEF WriteState, Return
  <2> DEFINE p == [pc EXCEPT ![t] = "idle"]
  <2>2. pc' = p \/ pc' = Wake(p)
    BY <1>7 DEF WriteState
  <2>3. u \in DOMAIN p /\ p[u] = pc[u]
    BY DEF TypeOK
  <2>4. QED
    <3> HIDE DEF p
    <3>1. QED
      BY <2>1, <2>2, <2>3 DEF Wake
<1>8. ASSUME NEW c, Enter(t, c)
      PROVE  pc'[u] = pc[u] /\ call'[u] = call[u]
  BY <1>2, <1>3, <1>8 DEF Enter
<1>9. /\ call'[u] = call[u]
      /\ pc'[u] = pc[u] \/ (pc[u] = "sleeping" /\ pc'[u] = "woken")
  <2>1. CASE EnterAcquire(t) \/ ReleasePort(t) \/ SetState(t) \/ WatchState(t)
    BY <1>8, <2>1 DEF EnterAcquire, ReleasePort, SetState, WatchState
  <2>2. CASE AcquirePort(t) \/ Block(t) \/ Abort(t) \/ Interrupt(t)
    BY <1>2, <1>3, <2>2 DEF AcquirePort, Block, Abort, Interrupt, Return
  <2>3. CASE AcquirePortGated(t)
    BY <1>4, <1>5, <1>6, <2>3 DEF AcquirePortGated, TryAcquire
  <2>4. CASE SetAcquired(t) \/ ClearState(t)
    BY <1>4, <1>7, <2>4 DEF SetAcquired, ClearState
  <2>5. CASE ReleasePortGated(t) \/ SetStateGated(t)
    BY <1>4, <1>6, <1>7, <2>5 DEF ReleasePortGated, SetStateGated
  <2>6. CASE WatchStateGated(t)
    BY <1>4, <1>5, <2>6 DEF WatchStateGated, TryWatch
  <2>7. QED
    BY <2>1, <2>2, <2>3, <2>4, <2>5, <2>6
<1>10. QED
  BY <1>1, <1>9 DEF Asks

\* A step of t that leaves the holders alone asks, withdraws or is invisible.
LEMMA QuietRefines ==
    ASSUME IInv, NEW t \in Thread, holders' = holders, gateEnabled' = gateEnabled,
           \A u \in Thread \ {t} : Asks(u)' <=> Asks(u),
           Asks(t)' => Asks(t) \/ gateEnabled
    PROVE  \/ Port!Ask(t) \/ Port!Withdraw(t)
           \/ UNCHANGED <<gateEnabled, holders, Asking>>
<1>1. Asking' = IF Asks(t)' THEN Asking \cup {t} ELSE Asking \ {t}
  BY AskingChanges DEF IInv
<1>2. t \in Asking <=> Asks(t)
  BY DEF Asking
<1>3. Asking = {u \in Thread : call[u].op = "acquire"
                    /\ (gateEnabled \/ pc[u] \notin {"entering", "blocked"})}
  BY DEF Asking, Asks
<1>4. QED
  BY <1>1, <1>2, <1>3 DEF Port!Ask, Port!Withdraw, Asking, Asks

LEMMA StepRefines ==
    ASSUME IInv, [Next]_vars
    PROVE  \/ Port!Close
           \/ \E t \in Thread : Port!Ask(t) \/ Port!Grant(t)
                                 \/ Port!Withdraw(t) \/ Port!GiveBack(t)
           \/ UNCHANGED <<gateEnabled, holders, Asking>>
<1> TypeOK
  BY DEF IInv
<1>1. CASE Stop
  <2>1. /\ gateEnabled /\ gateEnabled' = FALSE /\ holders' = holders
        /\ UNCHANGED <<pc, call>>
    BY <1>1 DEF Stop
  <2>2. Asking' \subseteq Asking
    BY <2>1 DEF Asking, Asks
  <2>3. QED
    BY <2>1, <2>2 DEF Port!Close, Asking, Asks, TypeOK
<1>2. CASE DropWorkLoop \/ UNCHANGED vars
  BY <1>2 DEF DropWorkLoop, vars, Asking, Asks
<1>3. ASSUME NEW t \in Thread,
             \/ AcquirePort(t) \/ EnterAcquire(t) \/ ReleasePort(t)
             \/ SetState(t) \/ WatchState(t)
             \/ AcquirePortGated(t) \/ SetAcquired(t)
             \/ ReleasePortGated(t) \/ ClearState(t)
             \/ SetStateGated(t) \/ WatchStateGated(t)
             \/ Block(t) \/ Abort(t) \/ Interrupt(t)
      PROVE  \/ Port!Ask(t) \/ Port!Grant(t) \/ Port!Withdraw(t) \/ Port!GiveBack(t)
             \/ UNCHANGED <<gateEnabled, holders, Asking>>
  <2>1. /\ gateEnabled' = gateEnabled
        /\ \A u \in Thread \ {t} : Asks(u)' <=> Asks(u)
    BY <1>3, StepIsLocal
  <2>2. Asking' = IF Asks(t)' THEN Asking \cup {t} ELSE Asking \ {t}
    BY <2>1, AskingChanges
  <2>3. CASE SetAcquired(t)
    <3>1. call[t].op = "acquire" /\ holders' = holders \cup {t} /\ pc[t] \in {"setting", "nested"}
      BY <2>3 DEF SetAcquired
    <3>2. gateEnabled => holders = {}
      BY <3>1 DEF IInv, GateInv, PortInv, Settled
    <3>3. call' = [call EXCEPT ![t] = NoCall]
      BY <2>3 DEF SetAcquired, WriteState, Leave, Return
    <3>4. ~Asks(t)' /\ t \in Asking
      BY <3>1, <3>3, CallTypes DEF Asks, Asking, TypeOK
    <3>5. QED
      BY <2>1, <2>2, <3>1, <3>2, <3>4 DEF Port!Grant, Asking, Asks
  <2>4. CASE ClearState(t) \/ (ReleasePortGated(t) /\ holders' # holders)
    <3>1. call[t].op = "release" /\ holders' = holders \ {t}
      BY <2>4 DEF ClearState, ReleasePortGated
    <3>2. call' = [call EXCEPT ![t] = NoCall]
      BY <2>4 DEF ClearState, ReleasePortGated, WriteState, Leave, Return
    <3>3. Asking' = Asking
      BY <2>2, <3>1, <3>2, CallTypes DEF Asks, Asking, TypeOK
    <3>4. QED
      BY <2>1, <3>1, <3>3 DEF Port!GiveBack, Asking, Asks
  <2>5. CASE holders' = holders /\ ~SetAcquired(t) /\ ~ClearState(t)
    <3>1. Asks(t)' => Asks(t) \/ gateEnabled
      <4> SUFFICES ASSUME ~gateEnabled, Asks(t)'
                   PROVE  Asks(t)
        OBVIOUS
      <4>1. call'[t].op = "acquire" /\ pc'[t] \notin {"entering", "blocked"}
        BY <2>1 DEF Asks
      <4>2. ASSUME NEW c \in {NoCall}, call' = [call EXCEPT ![t] = c]
            PROVE  FALSE
        BY <4>1, <4>2, CallTypes DEF TypeOK
      <4>3. call' = call
        BY <1>3, <2>5, <4>1, <4>2
           DEF AcquirePort, EnterAcquire, ReleasePort, SetState, WatchState, Enter,
               AcquirePortGated, TryAcquire, ReleasePortGated, SetStateGated,
               WatchStateGated, TryWatch, WriteState, Leave, Sleep, Reenter,
               Block, Abort, Interrupt, Return, Move, TypeOK
      <4>4. pc[t] \notin {"entering", "blocked"}
        <5>1. ~AcquirePort(t) /\ ~Block(t)
          BY <4>1 DEF AcquirePort, Block, Move, TypeOK
        <5>2. ~Abort(t)
          BY <4>2 DEF Abort, Return
        <5>3. \/ EnterAcquire(t) \/ ReleasePort(t) \/ SetState(t) \/ WatchState(t)
              \/ Interrupt(t) \/ pc[t] \in {"gated", "woken"}
          BY <1>3, <2>5, <5>1, <5>2
             DEF AcquirePortGated, ReleasePortGated, SetStateGated, WatchStateGated
        <5>4. QED
          BY <5>3 DEF EnterAcquire, ReleasePort, SetState, WatchState, Enter, Interrupt
      <4>5. QED
        BY <4>1, <4>3, <4>4 DEF Asks
    <3>2. QED
      BY <2>1, <2>5, <3>1, QuietRefines
  <2>6. QED
    BY <1>3, <2>3, <2>4, <2>5
       DEF AcquirePort, EnterAcquire, ReleasePort, SetState, WatchState, Enter,
           AcquirePortGated, ReleasePortGated, SetStateGated, WatchStateGated,
           Block, Abort, Interrupt
<1>4. QED
  BY <1>1, <1>2, <1>3 DEF Next

\* Every step of the driver is a step of the abstract port or leaves it alone.
THEOREM Refinement == Spec => ImplementsPortLock
<1>1. Init => Port!Init
  BY CallTypes DEF Init, Port!Init
<1>2. IInv /\ [Next]_vars => [Port!Next]_Port!pvars
  BY StepRefines DEF Port!Next, Port!pvars, Asking, Asks
<1>3. QED
  BY <1>1, <1>2, Invariance, PTL DEF Spec, ImplementsPortLock, Port!Spec

=============================================================================

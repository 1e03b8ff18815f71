-------------------------- MODULE MyEthernetDriver --------------------------
(***************************************************************************)
(* The Ethernet driver and the hardware it pretends to have: packets that  *)
(* a filter sees on another interface are queued and announced through an  *)
(* interrupt status register, which the driver's timer, standing in for an *)
(* interrupt, reads and clears on the work loop.                           *)
(*                                                                         *)
(* Three kinds of thread meet in the register without a lock: the one that *)
(* receives on the other interface, those that send, and the work loop.    *)
(* Every read and write of it is a step.  enable and disable run on the    *)
(* work loop too, and only the queue has a lock of its own.                *)
(***************************************************************************)
EXTENDS Integers, Sequences, FiniteSets

CONSTANTS
    Sender,         \* threads of the network stack that call outputPacket
    MaxArrivals,    \* bound: packets that arrive
    MaxSent         \* bound: packets that are sent

ASSUME BoundAssumption == MaxArrivals \in Nat /\ MaxSent \in Nat

VARIABLES
    enabled,                    \* "off", "on" or "disabling"
    attached,                   \* external: the filter is on the other interface
    filterRegistered,
    fRxPacketQueue,
    interruptStatusRegister,    \* the bits that are set
    armed,                      \* fInterruptSource is due
    receiving,                  \* the thread in handleIncomingPacket
    sending,                    \* the threads in transmitPacketToHardware
    handling,                   \* the work loop in interruptOccured
    arrivals,
    accepted,                   \* packets for this interface since it was enabled
    delivered,                  \* those the stack was given
    sent,
    outputPackets

switchVars == <<enabled, attached, filterRegistered>>
registerVars == <<interruptStatusRegister, armed>>
packetVars == <<fRxPacketQueue, arrivals, accepted, delivered>>
countVars == <<sent, outputPackets>>
netVars == <<switchVars, registerVars, packetVars, countVars, receiving, sending, handling>>

NetIdle == [pc |-> "idle", status |-> {}]

NetInit ==
    /\ enabled = "off"
    /\ attached = FALSE
    /\ filterRegistered = FALSE
    /\ fRxPacketQueue = <<>>
    /\ interruptStatusRegister = {}
    /\ armed = FALSE
    /\ receiving = NetIdle
    /\ sending = [t \in Sender |-> NetIdle]
    /\ handling = NetIdle
    /\ arrivals = 0
    /\ accepted = <<>>
    /\ delivered = <<>>
    /\ sent = 0
    /\ outputPackets = 0
-----------------------------------------------------------------------------
\* enableHardware: iflt_attach may fail, and filterRegistered is set anyway.
Enable ==
    /\ enabled = "off"
    /\ handling = NetIdle
    /\ filterRegistered' = TRUE
    /\ fRxPacketQueue' = <<>>
    /\ \/ attached' = TRUE /\ enabled' = "on"
       \/ UNCHANGED <<attached, enabled>>
    /\ UNCHANGED <<registerVars, arrivals, accepted, delivered, countVars, receiving, sending, handling>>

\* disableHardware: detach the filter, spin until filterDisabled has run ...
BeginDisable ==
    /\ enabled = "on"
    /\ handling = NetIdle
    /\ enabled' = "disabling"
    /\ UNCHANGED <<attached, filterRegistered, registerVars, packetVars, countVars, receiving, sending, handling>>
\* Faulty variant: keeps filterRegistered.
FilterDisabledQuietly ==
    /\ enabled = "disabling"
    /\ receiving = NetIdle
    /\ attached' = FALSE
    /\ UNCHANGED <<enabled, filterRegistered, registerVars, packetVars, countVars, receiving, sending, handling>>
FilterDisabled ==
    /\ enabled = "disabling"
    /\ receiving = NetIdle
    /\ attached' = FALSE
    /\ filterRegistered' = FALSE
    /\ UNCHANGED <<enabled, registerVars, packetVars, countVars, receiving, sending, handling>>
\* Faulty variant: leaves the packets.
FlushedNothing == fRxPacketQueue
\* ... and drop what is still queued.
Flushed == <<>>
EndDisable ==
    /\ enabled = "disabling"
    /\ ~filterRegistered
    /\ enabled' = "off"
    /\ fRxPacketQueue' = Flushed
    /\ accepted' = <<>>
    /\ delivered' = <<>>
    /\ UNCHANGED <<attached, filterRegistered, registerVars, arrivals, countVars, receiving, sending, handling>>
-----------------------------------------------------------------------------
\* handleIncomingPacket: a packet for our address, the broadcast address or a
\* multicast address is copied and queued if there is memory for the copy ...
Copied == {"ours", "broadcast", "multicast"}
Receive ==
    /\ attached
    /\ receiving = NetIdle
    /\ arrivals < MaxArrivals
    /\ arrivals' = arrivals + 1
    /\ \E destination \in Copied \cup {"elsewhere"}, memory \in BOOLEAN :
          IF destination \in Copied /\ memory
          THEN /\ fRxPacketQueue' = Append(fRxPacketQueue, arrivals)
               /\ accepted' = Append(accepted, arrivals)
               /\ receiving' = [pc |-> "read", status |-> {}]
          ELSE UNCHANGED <<fRxPacketQueue, accepted, receiving>>
    /\ UNCHANGED <<switchVars, registerVars, delivered, countVars, sending, handling>>

\* ... kRXInterruptPending is or'ed into the register, and the timer set.
Step(next) ==
    CASE next.pc = "read" -> [pc |-> "write", status |-> interruptStatusRegister]
      [] next.pc = "write" -> [pc |-> "arm", status |-> {}]
      [] OTHER -> NetIdle
OrIn(next, bit) ==
    IF next.pc = "write" THEN next.status \cup {bit} ELSE interruptStatusRegister
RaiseRX ==
    /\ receiving # NetIdle
    /\ interruptStatusRegister' = OrIn(receiving, "RX")
    /\ armed' = (armed \/ receiving.pc = "arm")
    /\ receiving' = Step(receiving)
    /\ UNCHANGED <<switchVars, packetVars, countVars, sending, handling>>

\* outputPacket: the packet goes out on the other interface, or is dropped ...
OutputPacket(t) ==
    /\ enabled = "on"
    /\ sending[t] = NetIdle
    /\ sent < MaxSent
    /\ sent' = sent + 1
    /\ sending' = [sending EXCEPT ![t].pc = "read"]
    /\ UNCHANGED <<switchVars, registerVars, packetVars, outputPackets, receiving, handling>>
\* ... and kTXInterruptPending is or'ed in.
RaiseTX(t) ==
    /\ sending[t] # NetIdle
    /\ interruptStatusRegister' = OrIn(sending[t], "TX")
    /\ armed' = (armed \/ sending[t].pc = "arm")
    /\ sending' = [sending EXCEPT ![t] = Step(sending[t])]
    /\ UNCHANGED <<switchVars, packetVars, countVars, receiving, handling>>
-----------------------------------------------------------------------------
\* interruptOccured: the register is read ...
Interrupt ==
    /\ armed
    /\ enabled # "disabling"
    /\ handling = NetIdle
    /\ armed' = FALSE
    /\ handling' = [pc |-> "clear", status |-> interruptStatusRegister]
    /\ UNCHANGED <<switchVars, interruptStatusRegister, packetVars, countVars, receiving, sending>>
\* ... then cleared, whatever was or'ed in between ...
Cleared == {}
ClearStatus ==
    /\ handling.pc = "clear"
    /\ interruptStatusRegister' = Cleared
    /\ handling' = [handling EXCEPT !.pc = "drain"]
    /\ UNCHANGED <<switchVars, armed, packetVars, countVars, receiving, sending>>
\* ... the queue drained, one packet at a time, if RX was among the bits ...
Drains == "RX" \in handling.status
InputPacket ==
    /\ handling.pc = "drain"
    /\ Drains
    /\ fRxPacketQueue # <<>>
    /\ delivered' = Append(delivered, Head(fRxPacketQueue))
    /\ fRxPacketQueue' = Tail(fRxPacketQueue)
    /\ UNCHANGED <<switchVars, registerVars, arrivals, accepted, countVars, receiving, sending, handling>>
\* ... and one packet counted as sent if TX was.
EndInterrupt ==
    /\ handling.pc = "drain"
    /\ Drains => fRxPacketQueue = <<>>
    /\ outputPackets' = outputPackets + (IF "TX" \in handling.status THEN 1 ELSE 0)
    /\ handling' = NetIdle
    /\ UNCHANGED <<switchVars, registerVars, packetVars, sent, receiving, sending>>

NetNext ==
    \/ Enable
    \/ BeginDisable
    \/ FilterDisabled
    \/ EndDisable
    \/ Receive
    \/ RaiseRX
    \/ \E t \in Sender : OutputPacket(t) \/ RaiseTX(t)
    \/ Interrupt
    \/ ClearStatus
    \/ InputPacket
    \/ EndInterrupt

\* The threads run, and the timer fires.
NetFairness ==
    /\ WF_netVars(FilterDisabled)
    /\ WF_netVars(EndDisable)
    /\ WF_netVars(RaiseRX)
    /\ \A t \in Sender : WF_netVars(RaiseTX(t))
    /\ WF_netVars(Interrupt)
    /\ WF_netVars(ClearStatus)
    /\ WF_netVars(InputPacket)
    /\ WF_netVars(EndInterrupt)
NetSpec == NetInit /\ [][NetNext]_netVars /\ NetFairness
-----------------------------------------------------------------------------
Bit == {"RX", "TX"}
Raising == {NetIdle} \cup [pc : {"read", "write", "arm"}, status : SUBSET Bit]
NetTypeOK ==
    /\ enabled \in {"off", "on", "disabling"}
    /\ attached \in BOOLEAN
    /\ filterRegistered \in BOOLEAN
    /\ fRxPacketQueue \in Seq(Nat)
    /\ interruptStatusRegister \subseteq Bit
    /\ armed \in BOOLEAN
    /\ receiving \in Raising
    /\ sending \in [Sender -> Raising]
    /\ handling \in [pc : {"idle", "clear", "drain"}, status : SUBSET Bit]
    /\ arrivals \in 0 .. MaxArrivals
    /\ accepted \in Seq(Nat)
    /\ delivered \in Seq(Nat)
    /\ sent \in 0 .. MaxSent
    /\ outputPackets \in Nat

\* The stack gets the packets of this session of the interface, each once and in
\* the order they arrived, and the rest of them is still queued.
DeliveredInOrder == delivered \o fRxPacketQueue = accepted

\* disable comes back: it spins on the work loop until the filter is detached,
\* and nothing the detaching waits for needs the work loop.
DisableEnds == enabled = "disabling" ~> enabled = "off"

\* handleIncomingPacket raises an interrupt "to inform [the driver] of the new
\* packet": a queued packet leaves the queue.
PacketsTaken == (fRxPacketQueue # <<>>) ~> (fRxPacketQueue = <<>>)
=============================================================================

------------------------------ MODULE PortLock ------------------------------
(***************************************************************************)
(* What a serial port promises its clients.  In service it has at most one *)
(* owner and is granted only while nobody owns it, only to a client that   *)
(* asked; only an owner gives it back.  When the port goes out of service  *)
(* nobody new may ask, and the promise to the clients that were waiting is *)
(* void: any of them may be told that it owns the port.                    *)
(***************************************************************************)
CONSTANT Client
VARIABLES inService,  \* the port's driver has not begun to stop
          owner,      \* the clients that were told they own the port
          waiting     \* the clients inside a call that may grant it
pvars == <<inService, owner, waiting>>

Init == inService = TRUE /\ owner = {} /\ waiting = {}

Ask(c) ==
    /\ inService
    /\ c \notin waiting
    /\ waiting' = waiting \cup {c}
    /\ UNCHANGED <<inService, owner>>

Grant(c) ==
    /\ inService => owner = {}
    /\ c \in waiting
    /\ owner' = owner \cup {c}
    /\ waiting' = waiting \ {c}
    /\ UNCHANGED inService

\* Refused, interrupted or called off.
Withdraw(c) ==
    /\ c \in waiting
    /\ waiting' = waiting \ {c}
    /\ UNCHANGED <<inService, owner>>

GiveBack(c) ==
    /\ c \in owner
    /\ owner' = owner \ {c}
    /\ UNCHANGED <<inService, waiting>>

\* Clients that have not got as far as the driver's gate are turned away.
Close ==
    /\ inService
    /\ inService' = FALSE
    /\ waiting' \in SUBSET waiting
    /\ UNCHANGED owner

Next == Close \/ \E c \in Client : Ask(c) \/ Grant(c) \/ Withdraw(c) \/ GiveBack(c)

Spec == Init /\ [][Next]_pvars
=============================================================================

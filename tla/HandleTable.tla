---------------------------- MODULE HandleTable ----------------------------
(***************************************************************************)
(* What reference counting promises: an object is born held by its         *)
(* creator, a reference is only taken while another one is held, and the   *)
(* object is destroyed once, after the last reference is dropped.          *)
(***************************************************************************)
CONSTANTS Object, Holder, Creator

VARIABLES state,     \* state[o]: unborn, alive or destroyed
          holding    \* holding[o]: who holds a reference to o
hvars == <<state, holding>>

Init ==
    /\ state = [o \in Object |-> "unborn"]
    /\ holding = [o \in Object |-> {}]

Create(o) ==
    /\ state[o] = "unborn"
    /\ state' = [state EXCEPT ![o] = "alive"]
    /\ holding' = [holding EXCEPT ![o] = {Creator}]

Take(o, h) ==
    /\ holding[o] # {}
    /\ h \notin holding[o]
    /\ holding' = [holding EXCEPT ![o] = @ \cup {h}]
    /\ UNCHANGED state

Drop(o, h) ==
    /\ h \in holding[o]
    /\ holding' = [holding EXCEPT ![o] = @ \ {h}]
    /\ UNCHANGED state

Destroy(o) ==
    /\ state[o] = "alive"
    /\ holding[o] = {}
    /\ state' = [state EXCEPT ![o] = "destroyed"]
    /\ UNCHANGED holding

Next == \E o \in Object :
    \/ Create(o) \/ Destroy(o)
    \/ \E h \in Holder : Take(o, h) \/ Drop(o, h)

Spec == Init /\ [][Next]_hvars
=============================================================================

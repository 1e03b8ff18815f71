--------------------------- MODULE MCSerialClose ---------------------------
(***************************************************************************)
(* The serial driver with a history of which watchers lived through a      *)
(* release of the port, to check what watchStateGated says of itself:      *)
(* "register interest in the active state so that we can abort if the      *)
(* serial port closes".                                                    *)
(***************************************************************************)
EXTENDS MCMySerialDriver

VARIABLE closed   \* closed[t]: the port was released during t's current watch

InAutoWatch(c) == c.op = "watch" /\ c.auto

HInit == Init /\ closed = [t \in Thread |-> FALSE]

HNext ==
    /\ Next
    /\ closed' = [t \in Thread |->
                     /\ InAutoWatch(call'[t])
                     /\ closed[t] \/ (InAutoWatch(call[t]) /\ Acquired /\ ~Acquired')]

HSpec == HInit /\ [][HNext]_<<vars, closed>>

\* A watcher that registered interest in ACTIVE to notice the port closing never
\* goes back to sleep after the port closed.  The code wakes it but compares bits
\* only when it runs: if another client has by then acquired and activated the
\* port, ACTIVE is 1 again and the watcher sleeps on through the next session.
CloseAbortsWatch == \A t \in Thread : closed[t] => pc[t] # "sleeping"
=============================================================================

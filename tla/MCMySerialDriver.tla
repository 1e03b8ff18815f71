-------------------------- MODULE MCMySerialDriver --------------------------
(* Three threads, one modem bit, and the calls a terminal program makes. *)
EXTENDS MySerialDriver

CONSTANT CTS

Word(s, m) == [state |-> s, mask |-> m]

MCModemBits == {CTS}
MCSetCalls == {Word({PD_S_ACTIVE}, {PD_S_ACTIVE}), Word({CTS}, {CTS})}
\* Wait for CTS to rise, for the port to be released.
MCWatchCalls == {Word({CTS}, {CTS}), Word({}, {PD_S_ACQUIRED})}
=============================================================================

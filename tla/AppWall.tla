------------------------------ MODULE AppWall ------------------------------
(***************************************************************************)
(* AppWall, the socket filter that keeps programs off the network by name. *)
(*                                                                         *)
(* Its callbacks run for every new TCP socket, in the process that owns    *)
(* it; each takes g_mutex and is one step.  A socket that is filtered      *)
(* carries a cookie, the address of an entry of g_block_list, which stop   *)
(* frees.  The kernel runs start and stop one at a time and runs stop      *)
(* again while it answers EBUSY; what it does with a filter (callbacks,    *)
(* detaching on unregistration, the last callback) is external.            *)
(***************************************************************************)
EXTENDS Integers, FiniteSets

CONSTANT Socket

ASSUME SocketAssumption == IsFiniteSet(Socket)

\* The entries start() makes and those with do_block set.
Listed == {"ssh", "nc"}
Blocked == {"ssh"}
Program == Listed \cup {"another"}

VARIABLES
    wall,                   \* where the extension is between load and unload
    g_filter_registered,
    g_filter_unregister_started,
    g_block_list,           \* the entries in memory
    users,
    filter,                 \* external: the kernel's own view of the filter
    socket,                 \* external: each socket's state, owner and history
    passed                  \* programs that got through a filter that was up

flagVars == <<g_filter_registered, g_filter_unregister_started>>
wallVars == <<wall, flagVars, g_block_list, users, filter, socket, passed>>

Unopened == [pc |-> "closed", owner |-> "another", known |-> FALSE]

WallInit ==
    /\ wall = "load"
    /\ g_filter_registered = FALSE
    /\ g_filter_unregister_started = FALSE
    /\ g_block_list = {}
    /\ users = [e \in Listed |-> 0]
    /\ filter = "none"
    /\ socket = [s \in Socket |-> Unopened]
    /\ passed = {}
-----------------------------------------------------------------------------
\* AppWall_start, as far as sflt_register, which may fail.
Register ==
    /\ wall = "load"
    /\ \/ wall' = "add ssh" /\ filter' = "registered"
       \/ wall' = "failed" /\ UNCHANGED filter
    /\ UNCHANGED <<flagVars, g_block_list, users, socket, passed>>

\* An entry that cannot be allocated is left out: nobody reads the result.
AddEntry(e, next) ==
    /\ wall' = next
    /\ \/ g_block_list' = g_block_list \cup {e}
       \/ UNCHANGED g_block_list
    /\ UNCHANGED <<flagVars, users, filter, socket, passed>>
AddEntries ==
    \/ wall = "add ssh" /\ AddEntry("ssh", "add nc")
    \/ wall = "add nc" /\ AddEntry("nc", "added")

EndStart ==
    /\ wall = "added"
    /\ wall' = "running"
    /\ g_filter_registered' = TRUE
    /\ UNCHANGED <<g_filter_unregister_started, g_block_list, users, filter, socket, passed>>

\* AppWall_stop, the first time and again: unregister once ...
BeginStop ==
    /\ wall = "running"
    /\ wall' = "stopping"
    /\ IF g_filter_registered /\ ~g_filter_unregister_started
       THEN filter' = "unregistering" /\ g_filter_unregister_started' = TRUE
       ELSE UNCHANGED <<filter, g_filter_unregister_started>>
    /\ UNCHANGED <<g_filter_registered, g_block_list, users, socket, passed>>

\* Faulty variant: frees as soon as the filter is going.
MayFreeOnceUnregistering == g_filter_unregister_started
\* ... and free everything, unless the filter is still registered: EBUSY.
MayFree == ~g_filter_registered
EndStop ==
    /\ wall = "stopping"
    /\ IF MayFree
       THEN wall' = "unloaded" /\ g_block_list' = {}
       ELSE wall' = "running" /\ UNCHANGED g_block_list
    /\ UNCHANGED <<flagVars, users, filter, socket, passed>>
-----------------------------------------------------------------------------
Filtered(s) == socket[s].pc \in {"attached", "connected"}

\* A program opens a socket; the kernel asks the filter, if there is one.
Open(s, p) ==
    /\ socket[s].pc = "closed"
    /\ filter = "registered"
    /\ socket' = [socket EXCEPT ![s] =
          [pc |-> "attaching", owner |-> p, known |-> p \in g_block_list]]
    /\ UNCHANGED <<wall, flagVars, g_block_list, users, filter, passed>>

\* appwall_attach: the program's entry, or ENOPOLICY.
Attach(s) ==
    /\ socket[s].pc = "attaching"
    /\ IF socket[s].owner \in g_block_list
       THEN /\ socket' = [socket EXCEPT ![s].pc = "attached"]
            /\ users' = [users EXCEPT ![socket[s].owner] = @ + 1]
       ELSE /\ socket' = [socket EXCEPT ![s].pc = "unfiltered"]
            /\ UNCHANGED users
    /\ UNCHANGED <<wall, flagVars, g_block_list, filter, passed>>

\* Faulty variant: the connect callbacks do not test do_block.
Permitted_DataOnly(s) ==
    socket[s].pc = "connected" => socket[s].owner \notin Blocked
\* appwall_connect_in, _connect_out, _data_in, _data_out: EPERM if do_block.
Permitted(s) == Filtered(s) => socket[s].owner \notin Blocked
Connect(s) ==
    /\ socket[s].pc \in {"attached", "unfiltered"}
    /\ Permitted(s)
    /\ socket' = [socket EXCEPT ![s].pc = IF @ = "attached" THEN "connected" ELSE @]
    /\ passed' = IF socket[s].known /\ filter = "registered"
                 THEN passed \cup {socket[s].owner} ELSE passed
    /\ UNCHANGED <<wall, flagVars, g_block_list, users, filter>>

\* appwall_detach: the socket is closed, or the filter is going.
Detach(s) ==
    /\ Filtered(s)
    /\ users' = [users EXCEPT ![socket[s].owner] = @ - 1]
    /\ socket' = [socket EXCEPT ![s] =
          IF filter = "unregistering" THEN [@ EXCEPT !.pc = "unfiltered"] ELSE Unopened]
    /\ UNCHANGED <<wall, flagVars, g_block_list, filter, passed>>

\* A socket that is not filtered is closed.
Close(s) ==
    /\ socket[s].pc = "unfiltered"
    /\ socket' = [socket EXCEPT ![s] = Unopened]
    /\ UNCHANGED <<wall, flagVars, g_block_list, users, filter, passed>>

\* Faulty variant: keeps g_filter_registered.
UnregisteredQuietly ==
    /\ filter = "unregistering"
    /\ \A s \in Socket : socket[s].pc # "attaching" /\ ~Filtered(s)
    /\ filter' = "none"
    /\ UNCHANGED <<wall, flagVars, g_block_list, users, socket, passed>>
\* appwall_unregistered, once no callback is running and no socket attached.
Unregistered ==
    /\ filter = "unregistering"
    /\ \A s \in Socket : socket[s].pc # "attaching" /\ ~Filtered(s)
    /\ filter' = "none"
    /\ g_filter_registered' = FALSE
    /\ UNCHANGED <<wall, g_filter_unregister_started, g_block_list, users, socket, passed>>

WallNext ==
    \/ Register
    \/ AddEntries
    \/ EndStart
    \/ BeginStop
    \/ EndStop
    \/ \E s \in Socket :
        \/ \E p \in Program : Open(s, p)
        \/ Attach(s)
        \/ Connect(s)
        \/ Detach(s)
        \/ Close(s)
    \/ Unregistered

\* The kernel finishes the callbacks it has begun and detaches every socket of a
\* filter that goes; whoever unloads the extension tries again after EBUSY.
WallFairness ==
    /\ WF_wallVars(Unregistered)
    /\ WF_wallVars(EndStop)
    /\ WF_wallVars(g_filter_unregister_started /\ BeginStop)
    /\ \A s \in Socket :
        /\ WF_wallVars(Attach(s))
        /\ WF_wallVars(filter = "unregistering" /\ Detach(s))
WallSpec == WallInit /\ [][WallNext]_wallVars /\ WallFairness
-----------------------------------------------------------------------------
WallTypeOK ==
    /\ wall \in {"load", "failed", "add ssh", "add nc", "added", "running", "stopping", "unloaded"}
    /\ g_filter_registered \in BOOLEAN
    /\ g_filter_unregister_started \in BOOLEAN
    /\ g_block_list \subseteq Listed
    /\ users \in [Listed -> Int]
    /\ filter \in {"none", "registered", "unregistering"}
    /\ socket \in [Socket -> [pc : {"closed", "attaching", "attached", "connected", "unfiltered"},
                              owner : Program, known : BOOLEAN]]
    /\ passed \subseteq Program

\* No callback can run into what stop() has freed: a filtered socket's cookie is
\* an entry that is still in memory and counted, and once the extension is
\* unloaded the kernel has no filter and no callback of it left.
CookiesLive ==
    /\ \A e \in Listed : users[e] = Cardinality({s \in Socket : Filtered(s) /\ socket[s].owner = e})
    /\ \A s \in Socket : Filtered(s) => socket[s].owner \in g_block_list
    /\ wall = "unloaded" =>
         filter = "none" /\ \A s \in Socket : ~Filtered(s) /\ socket[s].pc # "attaching"

\* A blocked program never connects or transfers on a socket it opened after its
\* entry was made, as long as the filter is up.
WallHolds == passed \cap Blocked = {}

\* An unload that was begun ends, whatever the programs do with their sockets.
UnloadEnds == g_filter_unregister_started ~> wall = "unloaded"
=============================================================================

-------------------------- MODULE AudioProperties --------------------------
(***************************************************************************)
(* What the audio plug-ins promise the host of their properties:           *)
(* NullAudio's box and controls and SimpleAudio's device beside each       *)
(* other.  The three share no state.                                       *)
(***************************************************************************)
EXTENDS NullAudio_Box, NullAudio_Controls, SA_Controls

propertyVars == <<boxVars, controlVars, saVars>>
PropertiesSpec == BoxSpec /\ ControlsSpec /\ SA_Spec

\* The size, the data and the settability of every property agree in both
\* plug-ins, before and after every step that acquires or releases the box, or
\* changes a level.
PropertyTablesAgree ==
    [][/\ gBox_Acquired' # gBox_Acquired => TablesAgree /\ TablesAgree'
       /\ driverVolume' # driverVolume => SA_TablesAgree /\ SA_TablesAgree']_<<boxVars, saVars>>

\* The devices and the acquisition the host has are those of NullAudio's box,
\* and the levels those of SimpleAudio's driver, or it is on its way to be told.
HostsUpToDate == HostUpToDate /\ StoredIsCurrent /\ SA_HostUpToDate

\* NullAudio announces every property whose answer it changes.
ChangesAnnounced == BoxChangesAnnounced /\ ControlChangesAnnounced
=============================================================================

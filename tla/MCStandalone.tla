---------------------------- MODULE MCStandalone ----------------------------
(***************************************************************************)
(* The components that share no state with the rest, one loaded at a time: *)
(* an initial state chooses which, and only that one takes steps.          *)
(***************************************************************************)
EXTENDS AudioProperties, NullAudio_IO, CAVolumeCurve, AppWall, MyEthernetDriver, RAMDisk,
        MyAudioEngine, IOKitTestPower, TLC

VARIABLE loaded
allVars == <<loaded, vars, propertyVars, ioVars, curveVars, wallVars, netVars, diskVars, engineVars>>

\* Two rates whose ring buffers take different times.
MCPeriod == 44100 :> 3 @@ 48000 :> 2

\* The properties whose replies change, and one of each way of taking the mutex.
MCAsked == {PlugInDevices, <<kObjectID_PlugIn, Addr("OwnedObjects")>>,
            <<kObjectID_Box, Addr("DeviceList")>>, <<kObjectID_Box, Addr("Name")>>}
\* A stream, and one control of each kind.
MCTouched == {kObjectID_Stream_Input, kObjectID_Volume_Output_Master, kObjectID_Mute_Input_Master,
              kObjectID_DataSource_Output_Master}

\* A curve of 96 dB, set to values between two steps and out of range.
MCSA_Touched == {"output stream", "output volume"}
MCSA_Curve == [min |-> 0, max |-> 1, dBMin |-> -96, dBMax |-> 0]
MCSA_Scalars == [p : {5, 17}, q : {16}]
MCSA_Decibels == {-145, -30}

\* Ranges that continue each other, leave gaps, overlap, and differ in their step.
CurvePiece(min, max, dBMin, step) ==
    [min |-> min, max |-> max, dBMin |-> dBMin, dBMax |-> dBMin + step * (max - min)]
MCCurveRange == {CurvePiece(-1, 0, -43, 3), CurvePiece(0, 2, -40, 6), CurvePiece(2, 5, -28, 4),
                 CurvePiece(2, 4, -28, 8), CurvePiece(3, 4, -24, 4), CurvePiece(5, 6, -16, 16)}

\* Two partitions that touch, the second one encrypted.
MCTable == <<[blockStart |-> 1, blockCount |-> 1], [blockStart |-> 2, blockCount |-> 2]>>

\* The box's storage varies only where the box is what is checked.
MCInit ==
    /\ loaded \in {"box", "controls", "SA controls", "clock", "curve", "wall", "ethernet", "disk",
                  "engine", "power"}
    /\ BoxInit /\ (loaded # "box" => storage = {})
    /\ ControlsInit
    /\ SA_Init
    /\ IOInit
    /\ CurveInit
    /\ WallInit
    /\ NetInit
    /\ DiskInit
    /\ EngineInit
    /\ Init

MCNext ==
    \/ loaded = "box" /\ BoxNext
         /\ UNCHANGED <<loaded, vars, controlVars, saVars, ioVars, curveVars,
                        wallVars, netVars, diskVars, engineVars>>
    \/ loaded = "controls" /\ ControlsNext
         /\ UNCHANGED <<loaded, vars, boxVars, saVars, ioVars, curveVars,
                        wallVars, netVars, diskVars, engineVars>>
    \/ loaded = "SA controls" /\ SA_Next
         /\ UNCHANGED <<loaded, vars, boxVars, controlVars, ioVars, curveVars,
                        wallVars, netVars, diskVars, engineVars>>
    \/ loaded = "clock" /\ IONext
         /\ UNCHANGED <<loaded, vars, boxVars, controlVars, saVars, curveVars,
                        wallVars, netVars, diskVars, engineVars>>
    \/ loaded = "curve" /\ CurveNext
         /\ UNCHANGED <<loaded, vars, boxVars, controlVars, saVars, ioVars,
                        wallVars, netVars, diskVars, engineVars>>
    \/ loaded = "wall" /\ WallNext
         /\ UNCHANGED <<loaded, vars, boxVars, controlVars, saVars, ioVars,
                        curveVars, netVars, diskVars, engineVars>>
    \/ loaded = "ethernet" /\ NetNext
         /\ UNCHANGED <<loaded, vars, boxVars, controlVars, saVars, ioVars,
                        curveVars, wallVars, diskVars, engineVars>>
    \/ loaded = "disk" /\ DiskNext
         /\ UNCHANGED <<loaded, vars, boxVars, controlVars, saVars, ioVars,
                        curveVars, wallVars, netVars, engineVars>>
    \/ loaded = "engine" /\ EngineNext
         /\ UNCHANGED <<loaded, vars, boxVars, controlVars, saVars, ioVars,
                        curveVars, wallVars, netVars, diskVars>>
    \/ loaded = "power" /\ Next
         /\ UNCHANGED <<loaded, boxVars, controlVars, saVars, ioVars,
                        curveVars, wallVars, netVars, diskVars, engineVars>>

\* The fairness of the power-managed driver while it is what is loaded: nothing
\* is asked of a driver that is not.
PowerFairness ==
    /\ WF_vars(loaded = "power" /\ ChangeStep)
    /\ WF_vars(loaded = "power" /\ wantOn /\ BeginChange)
    /\ \A r \in Readers : WF_vars(loaded = "power" /\
          (TestPower(r) \/ FallAsleep(r) \/ WakeUp(r) \/ EndIO(r)))

MCSpec == MCInit /\ [][MCNext]_allVars /\ WallFairness /\ NetFairness
          /\ PowerFairness
=============================================================================

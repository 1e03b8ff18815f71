--------------------------- MODULE MCSA_DeviceIO ---------------------------
(***************************************************************************)
(* Two clients of the audio server; two ticks a buffer at 44100 frames a   *)
(* second and one at 48000.                                                *)
(***************************************************************************)
EXTENDS SA_DeviceIO, TLC

MCSecond == 88200
MCAskedRate == {44100, 48000, 96000}
HostSymmetry == Permutations(Host)
=============================================================================

------------------------ MODULE MCSimpleAudioDriver ------------------------
(***************************************************************************)
(* Two ticks a buffer at 44100 frames a second and one at 48000, with      *)
(* one frame a buffer.                                                     *)
(***************************************************************************)
EXTENDS SimpleAudioDriver

MCSecond == 88200
MCAskedRate == {44100, 48000, 96000}
=============================================================================

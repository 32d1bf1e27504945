---------------------------- MODULE MCLifecycle ----------------------------
(***************************************************************************)
(* Songs for module Lifecycle: notes on two ports and two channels, of     *)
(* which none is stopped; and two notes of one pitch.                      *)
(***************************************************************************)
EXTENDS Lifecycle

Midi(id, kind, pitch, frame, port, channel) ==
  [id |-> id, kind |-> kind, pitch |-> pitch, due |-> frame, time |-> frame % Wrap,
   port |-> port, channel |-> channel]

MCSong ==
  <<Midi(1, "on", 60, 2, "none", 0), Midi(2, "on", 62, 4, "b", 0),
    Midi(3, "on", 64, 14, "b", 1)>>

MCShortSong ==
  <<Midi(1, "on", 60, 2, "none", 0), Midi(2, "off", 60, 4, "none", 0),
    Midi(3, "on", 60, 5, "none", 0)>>

MCMessage == Range(MCSong)
MCShortMessage == Range(MCShortSong)

MCBlank == [id |-> 0, due |-> 0, time |-> 0, port |-> "none"]
=============================================================================

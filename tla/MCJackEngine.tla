---------------------------- MODULE MCJackEngine ----------------------------
(***************************************************************************)
(* Small instances of JackEngine: three messages on two ports, in three    *)
(* periods; and three around the frame where the 32 bit frame time wraps.  *)
(***************************************************************************)
EXTENDS JackEngine

Due(id, frame, port) == [id |-> id, due |-> frame, time |-> frame % Wrap, port |-> port]

MCFewMessages == {Due(1, 3, "none"), Due(2, 5, "b"), Due(3, 6, "none")}
MCWrapMessages == {Due(1, 29, "none"), Due(2, 33, "b"), Due(3, 34, "none")}

MCBlank == [id |-> 0, due |-> 0, time |-> 0, port |-> "none"]
=============================================================================

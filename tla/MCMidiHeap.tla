----------------------------- MODULE MCMidiHeap -----------------------------
(***************************************************************************)
(* Small instances of MidiHeap: five messages, two pairs of which are due  *)
(* at the same time, on one port or on two.                                *)
(***************************************************************************)
EXTENDS MidiHeapFaults

MCMessage ==
  { [id |-> 1, time |-> 1, port |-> 1], [id |-> 2, time |-> 1, port |-> 2],
    [id |-> 3, time |-> 2, port |-> 1], [id |-> 4, time |-> 3, port |-> 1],
    [id |-> 5, time |-> 3, port |-> 1] }

MCBlank == [id |-> 0, time |-> 0, port |-> 0]
=============================================================================

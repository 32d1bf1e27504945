--------------------------- MODULE MidiHeapFaults ---------------------------
(***************************************************************************)
(* Module MidiHeap takes pthread_cond_wait to return only after a          *)
(* broadcast.  POSIX also lets it return for no reason, and popMin,        *)
(* peekMin and insert guard their waits with if, not with while.           *)
(***************************************************************************)
EXTENDS MidiHeap

(* A thread leaves pthread_cond_wait although nobody signalled. *)
SpuriousWakeup ==
  /\ \E t \in blocked : blocked' = blocked \ {t}
  /\ UNCHANGED <<mArray, mTop, mMutex, writer, reader, i, msg, min>>

SpuriousSpec == Init /\ [][Next \/ SpuriousWakeup]_vars
=============================================================================

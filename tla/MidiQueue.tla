----------------------------- MODULE MidiQueue -----------------------------
(***************************************************************************)
(* What class MidiHeap promises its callers (src/midiheap.h): a bounded    *)
(* queue shared by the thread that plays the pattern and the thread that   *)
(* feeds the ringbuffer, from which the messages leave in time order.  The *)
(* tree in an array, the mutex and the condition variables behind it are   *)
(* in module MidiHeap, which implements this module.                       *)
(***************************************************************************)
EXTENDS Integers, FiniteSets

CONSTANTS
  Message,   (* what can be queued: records with a field time              *)
  Blank,     (* the result of a call that has not returned yet             *)
  Capacity   (* how many messages the queue holds                          *)

VARIABLES
  content,   (* the set of queued messages; two messages never are equal   *)
  out        (* what the last popMin or peekMin returned                   *)

vars == <<content, out>>

Init == content = {} /\ out = Blank

(* m is one of the earliest messages in the queue. *)
Earliest(m) == m \in content /\ \A n \in content : m.time <= n.time

(* A message is accepted only while there is space in the buffer. *)
Insert(m) ==
  /\ m \notin content
  /\ Cardinality(content) < Capacity
  /\ content' = content \cup {m}
  /\ UNCHANGED out

(* The queue gives up an earliest message, and no other. *)
PopMin(m) ==
  /\ Earliest(m)
  /\ content' = content \ {m}
  /\ out' = m

(* The queue shows an earliest message and keeps it. *)
PeekMin(m) ==
  /\ Earliest(m)
  /\ out' = m
  /\ UNCHANGED content

Next == \E m \in Message : Insert(m) \/ PopMin(m) \/ PeekMin(m)

Spec == Init /\ [][Next]_vars
=============================================================================

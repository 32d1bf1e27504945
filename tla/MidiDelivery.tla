---------------------------- MODULE MidiDelivery ----------------------------
(***************************************************************************)
(* What class JackEngine promises the sequencer (src/jackengine.h): a      *)
(* message that was queued sounds once, a period after it is due and not   *)
(* before, or is dropped; and as long as no message was queued too late,   *)
(* the messages sound in the order they are due.  The heap, the thread,    *)
(* the ringbuffer and the callback behind it are in module JackEngine,     *)
(* which implements this module.                                           *)
(***************************************************************************)
EXTENDS Integers

CONSTANTS
  Message,   (* what can be queued: records with a field due               *)
  Frame,     (* the frames a message may sound at                          *)
  Latency    (* the frames between the frame it is due at and its sound    *)

VARIABLES
  pending,   (* the messages accepted, and neither sounded nor dropped yet *)
  late,      (* the messages that came too late to be put in order         *)
  sounded,   (* the messages that sounded, each with its frame             *)
  dropped

vars == <<pending, late, sounded, dropped>>

Init == pending = {} /\ late = {} /\ sounded = {} /\ dropped = {}

Settled == {s.msg : s \in sounded} \cup dropped

(* A message is accepted once. *)
Accept(m) ==
  /\ m \notin pending \cup Settled
  /\ pending' = pending \cup {m}
  /\ late' = late \/ late' = late \cup {m}
  /\ UNCHANGED <<sounded, dropped>>

(* It sounds behind everything that was due before it. *)
Sound(m, frame) ==
  /\ m \in pending /\ pending' = pending \ {m}
  /\ frame >= m.due + Latency
  /\ late = {} => \A s \in sounded : s.msg.due <= m.due /\ s.frame <= frame
  /\ sounded' = sounded \cup {[msg |-> m, frame |-> frame]}
  /\ UNCHANGED <<late, dropped>>

Drop(m) ==
  /\ m \in pending /\ pending' = pending \ {m}
  /\ dropped' = dropped \cup {m}
  /\ UNCHANGED <<late, sounded>>

Next ==
  \E m \in Message : Accept(m) \/ Drop(m) \/ \E frame \in Frame : Sound(m, frame)

Spec == Init /\ [][Next]_vars
=============================================================================

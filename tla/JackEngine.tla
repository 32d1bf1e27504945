----------------------------- MODULE JackEngine -----------------------------
(***************************************************************************)
(* How a midi message travels through src/jackengine.cpp: the main thread  *)
(* puts it into the heap (queueMidiEvent), bufferProcessingThread moves it *)
(* to the ringbuffer when it becomes due, and JACK's thread takes it from  *)
(* there in jack_process_cb and puts it into the buffer of its port.       *)
(*                                                                         *)
(* The heap is module MidiQueue, which module MidiHeap implements.  The    *)
(* ringbuffer is a sequence with one writer and one reader.  Frame times   *)
(* are 32 bit numbers in the code: a message carries the frame it is due   *)
(* at (due) and what the code stores of it (time, modulo Wrap); now and    *)
(* last are counted without wrapping and read modulo Wrap by the code.     *)
(***************************************************************************)
EXTENDS Integers, Sequences, FiniteSets

CONSTANTS
  Message,      (* what is queued: records [id, due, time, port]           *)
  Blank,        (* what MidiMessage() constructs                           *)
  HeapCapacity, (* the messages the heap holds                             *)
  RingCapacity, (* the messages the ringbuffer holds                       *)
  Port,         (* the output ports                                        *)
  DefaultPort,  (* the port a message without a port goes to               *)
  NoPort,       (* the NULL port of such a message                         *)
  PortSpace,    (* the events JACK has space for in the buffer of a port   *)
  NFrames,      (* the frames of a period of JACK                          *)
  LookAhead,    (* how many frames ahead a message goes to the ringbuffer  *)
  SleepFrames,  (* the frames usleep takes                                 *)
  Wrap,         (* the number of frame times, 2^32                         *)
  StartFrame,   (* the frame the program starts at                         *)
  InsertUntil,  (* bound: no message is queued after this frame            *)
  MaxFrame      (* bound: the last frame                                   *)

ASSUME FrameAssumption ==
  /\ NFrames \in Nat \ {0} /\ LookAhead \in Nat /\ SleepFrames \in Nat
  /\ StartFrame \in Nat /\ InsertUntil \in Nat /\ MaxFrame \in Nat
  /\ Wrap \in Nat \ {0} /\ Wrap % 2 = 0
  /\ StartFrame <= MaxFrame

ASSUME CapacityAssumption ==
  HeapCapacity \in Nat /\ RingCapacity \in Nat /\ PortSpace \in Nat

ASSUME PortAssumption == DefaultPort \in Port /\ NoPort \notin Port

ASSUME QueuedAssumption ==
  \A m \in Message : m.due \in Nat /\ m.time = m.due % Wrap /\ m.port \in Port \cup {NoPort}

VARIABLES
  mMidiHeap,    (* the set of messages in the heap                         *)
  picked,       (* what bufferProcessingThread last peeked or popped       *)
  mRingbuffer,  (* the messages in the ringbuffer, oldest first            *)
  now,          (* the current frame                                       *)
  last,         (* the frame the current period started at                 *)
  callback,     (* jack_process_cb of this period: "waiting", "running" or *)
                (* "done"                                                  *)
  events,       (* the offsets of the events in the buffer of each port    *)
  thread,       (* where bufferProcessingThread is                         *)
  deadline,     (* what it computed from currentFrameTime()                *)
  wakeAt,       (* the frame usleep ends at                                *)
  gPlaying,
  queued,       (* history: the messages queued                            *)
  late,         (* history: those queued when later ones may have passed   *)
  heard,        (* history: the messages given to JACK, and for which frame*)
  lost,         (* history: the messages dropped                           *)
  delayed       (* history: whether bufferProcessingThread ever had to     *)
                (* wait for the processor while the clock went on          *)

heapVars == <<mMidiHeap, picked>>
jackVars == <<last, callback, events>>
threadVars == <<thread, deadline, wakeAt, gPlaying>>
history == <<queued, late, heard, lost, delayed>>
vars == <<heapVars, mRingbuffer, now, jackVars, threadVars, history>>

Heap == INSTANCE MidiQueue WITH
          Capacity <- HeapCapacity, content <- mMidiHeap, out <- picked
-----------------------------------------------------------------------------
(* The conversion of a 32 bit frame time to an int. *)
Signed(t) == IF t % Wrap >= Wrap \div 2 THEN (t % Wrap) - Wrap ELSE t % Wrap

Init ==
  /\ Heap!Init
  /\ mRingbuffer = <<>>
  /\ now = StartFrame /\ last = StartFrame
  /\ callback = "waiting" /\ events = [p \in Port |-> <<>>]
  /\ thread = "looping" /\ deadline = 0 /\ wakeAt = 0
  /\ gPlaying = TRUE
  /\ queued = {} /\ late = {} /\ heard = {} /\ lost = {} /\ delayed = FALSE

(* The main thread queues a message it has not queued yet; it waits while  *)
(* the heap is full.                                                       *)
QueueMidiEvent(m) ==
  /\ now <= InsertUntil
  /\ m \notin queued /\ queued' = queued \cup {m}
  /\ Heap!Insert(m)
  /\ late' = IF m.due <= now + LookAhead THEN late \cup {m} ELSE late
  /\ UNCHANGED <<mRingbuffer, now, jackVars, threadVars, heard, lost, delayed>>

(* main stops the program. *)
StopPlaying ==
  /\ gPlaying /\ gPlaying' = FALSE
  /\ UNCHANGED <<heapVars, mRingbuffer, now, jackVars, thread, deadline, wakeAt, history>>
-----------------------------------------------------------------------------
(* bufferProcessingThread.  The order in which the operands of <= in its   *)
(* loop are evaluated is the compiler's choice.                            *)

(* Mutated forms of Deadline, which look too far ahead and not at all. *)
DeadlineFar == (now + 2 * LookAhead) % Wrap
DeadlineNow == now % Wrap

Deadline == (now + LookAhead) % Wrap

Sleep == thread' = "sleeping" /\ wakeAt' = now + SleepFrames

(* The two outcomes of the comparison. *)
Compare(m, limit) ==
  \/ m.time <= limit /\ thread' = "popping" /\ UNCHANGED wakeAt
  \/ m.time > limit /\ Sleep

(* peekMin first: the message found is compared with a later clock. *)
PeekFirst ==
  /\ thread = "looping" /\ thread' = "peeked"
  /\ \E m \in Message : Heap!PeekMin(m)
  /\ UNCHANGED <<mRingbuffer, now, jackVars, deadline, wakeAt, gPlaying, history>>

ComparePeeked ==
  /\ thread = "peeked"
  /\ Compare(picked, Deadline)
  /\ UNCHANGED <<heapVars, mRingbuffer, now, jackVars, deadline, gPlaying, history>>

(* currentFrameTime first: peekMin may wait for a message in between. *)
ClockFirst ==
  /\ thread = "looping" /\ thread' = "clocked"
  /\ deadline' = Deadline
  /\ UNCHANGED <<heapVars, mRingbuffer, now, jackVars, wakeAt, gPlaying, history>>

PeekClocked ==
  /\ thread = "clocked"
  /\ \E m \in Message : Heap!PeekMin(m) /\ Compare(m, deadline)
  /\ UNCHANGED <<mRingbuffer, now, jackVars, deadline, gPlaying, history>>

(* The message popped is an earliest one by now: the main thread may have  *)
(* put another one before the one that was peeked.                         *)
PopDue ==
  /\ thread = "popping" /\ thread' = "writing"
  /\ \E m \in Message : Heap!PopMin(m)
  /\ UNCHANGED <<mRingbuffer, now, jackVars, deadline, wakeAt, gPlaying, history>>

(* Mutated form of HasSpace, which leaves one place of the ringbuffer free. *)
HasSpaceForTwo == Len(mRingbuffer) + 1 < RingCapacity

HasSpace == Len(mRingbuffer) < RingCapacity

(* writeMidiData drops the message when the ringbuffer has no space. *)
WriteMidiData(m) ==
  \/ /\ HasSpace
     /\ mRingbuffer' = Append(mRingbuffer, m)
     /\ UNCHANGED lost
  \/ /\ ~HasSpace
     /\ lost' = lost \cup {m}
     /\ UNCHANGED mRingbuffer

WritePopped ==
  /\ thread = "writing" /\ thread' = "looping"
  /\ WriteMidiData(picked)
  /\ UNCHANGED <<heapVars, now, jackVars, deadline, wakeAt, gPlaying>>
  /\ UNCHANGED <<queued, late, heard, delayed>>

(* After usleep the thread looks at gPlaying, and nowhere else. *)
Wake ==
  /\ thread = "sleeping" /\ now >= wakeAt
  /\ thread' = IF gPlaying THEN "looping" ELSE "returned"
  /\ UNCHANGED <<heapVars, mRingbuffer, now, jackVars, deadline, wakeAt, gPlaying, history>>
-----------------------------------------------------------------------------
(* jack_process_cb, one message at a time. *)

CallbackStart ==
  /\ callback = "waiting" /\ callback' = "running"
  /\ events' = [p \in Port |-> <<>>]
  /\ UNCHANGED <<heapVars, mRingbuffer, now, last, threadVars, history>>

(* What jack_ringbuffer_peek shows. *)
Oldest == mRingbuffer[1]

(* Mutated form of Offset, without the latency of a period. *)
OffsetOfThisPeriod == Signed(Oldest.time - last)

(* Where in this period the oldest message belongs. *)
Offset == Signed(Oldest.time + NFrames - last)

(* There is a message, and the oldest one does not belong to a later       *)
(* period.                                                                 *)
Readable == mRingbuffer # <<>> /\ Offset < NFrames

CallbackEnd ==
  /\ callback = "running" /\ callback' = "done"
  /\ ~Readable
  /\ UNCHANGED <<heapVars, mRingbuffer, now, last, events, threadVars, history>>

(* Mutated forms of Clipped, which keeps a negative offset, and which      *)
(* plays everything at the start of the period.                            *)
NotClipped(t) == t
AlwaysAtStart(t) == 0

(* A message that should have been played already is played at once. *)
Clipped(t) == IF t < 0 THEN 0 ELSE t

(* Mutated form of Advanced, which forgets to advance. *)
NotAdvanced == mRingbuffer

Advanced == Tail(mRingbuffer)

(* jack_midi_event_reserve wants the offsets of a port in ascending order  *)
(* and within the period.                                                  *)
CanReserve(p, t) ==
  /\ t < NFrames
  /\ Len(events[p]) < PortSpace
  /\ events[p] # <<>> => events[p][Len(events[p])] <= t

(* The oldest message leaves the ringbuffer, before it is known whether    *)
(* the port takes it; the callback returns if it does not.                 *)
CallbackRead ==
  /\ callback = "running"
  /\ Readable
  /\ mRingbuffer' = Advanced
  /\ LET p == IF Oldest.port = NoPort THEN DefaultPort ELSE Oldest.port
         t == Clipped(Offset)
     IN  \/ /\ CanReserve(p, t)
            /\ events' = [events EXCEPT ![p] = Append(@, t)]
            /\ heard' = heard \cup {[msg |-> Oldest, frame |-> last + t]}
            /\ UNCHANGED <<callback, lost>>
         \/ /\ ~CanReserve(p, t)
            /\ lost' = lost \cup {Oldest}
            /\ callback' = "done"
            /\ UNCHANGED <<events, heard>>
  /\ UNCHANGED <<heapVars, now, last, threadVars, queued, late, delayed>>
-----------------------------------------------------------------------------
(* JACK waits for the callback at the end of each period; the operating    *)
(* system may let a ready bufferProcessingThread wait.                     *)
ThreadRests ==
  \/ thread = "returned"
  \/ thread = "sleeping" /\ now < wakeAt
  \/ thread \in {"looping", "clocked"} /\ mMidiHeap = {}

PeriodEnds == now + 1 = last + NFrames

Tick ==
  /\ now < MaxFrame /\ now' = now + 1
  /\ delayed' = (delayed \/ ~ThreadRests)
  /\ \/ ~PeriodEnds /\ UNCHANGED <<last, callback>>
     \/ PeriodEnds /\ callback = "done" /\ last' = now + 1 /\ callback' = "waiting"
  /\ UNCHANGED <<heapVars, mRingbuffer, events, threadVars, queued, late, heard, lost>>

(* The bound of the clock is reached. *)
ClockStops == now = MaxFrame /\ UNCHANGED vars

Thread == PeekFirst \/ ComparePeeked \/ ClockFirst \/ PeekClocked \/ PopDue \/ WritePopped \/ Wake

Callback == CallbackStart \/ CallbackRead \/ CallbackEnd

Next ==
  \/ \E m \in Message : QueueMidiEvent(m)
  \/ StopPlaying
  \/ PeekFirst \/ ComparePeeked \/ ClockFirst \/ PeekClocked \/ PopDue \/ WritePopped \/ Wake
  \/ CallbackStart \/ CallbackRead \/ CallbackEnd
  \/ Tick \/ ClockStops

Spec == Init /\ [][Next]_vars
-----------------------------------------------------------------------------
InRing == {mRingbuffer[k] : k \in DOMAIN mRingbuffer}
Heard == {h.msg : h \in heard}
InFlight == IF thread = "writing" THEN {picked} ELSE {}

(* The types of the variables; neither buffer exceeds its capacity. *)
TypeOK ==
  /\ mMidiHeap \subseteq Message /\ Cardinality(mMidiHeap) <= HeapCapacity
  /\ picked \in Message \cup {Blank}
  /\ mRingbuffer \in Seq(Message) /\ Len(mRingbuffer) <= RingCapacity
  /\ now \in StartFrame .. MaxFrame
  /\ last \in StartFrame .. now /\ now < last + NFrames
  /\ callback \in {"waiting", "running", "done"}
  /\ events \in [Port -> Seq(0 .. NFrames - 1)]
  /\ thread \in {"looping", "peeked", "clocked", "popping", "writing", "sleeping", "returned"}
  /\ deadline \in 0 .. Wrap - 1
  /\ wakeAt \in 0 .. MaxFrame + SleepFrames
  /\ gPlaying \in BOOLEAN
  /\ late \subseteq queued /\ queued \subseteq Message /\ lost \subseteq Message
  /\ heard \subseteq [msg : Message, frame : Nat]
  /\ delayed \in BOOLEAN

(* Every message that was queued is at exactly one place: in the heap, in  *)
(* the hands of bufferProcessingThread, at one position of the ringbuffer, *)
(* given to JACK once, or dropped.  Peeking before popping and peeking     *)
(* before advancing the ringbuffer neither double nor lose a message.      *)
AccountedFor ==
  /\ queued = UNION {mMidiHeap, InFlight, InRing, Heard, lost}
  /\ Cardinality(queued) = Cardinality(mMidiHeap) + Cardinality(InFlight)
                             + Len(mRingbuffer) + Cardinality(heard) + Cardinality(lost)

(* The comparison is made with the message peeked, the message popped is   *)
(* another one if the main thread was faster; it is due all the same.      *)
PoppedIsDue == thread = "writing" => picked.due <= now + LookAhead

(* The messages reach JACK in the order they are due, as long as none was  *)
(* queued less than LookAhead frames before it is due: then a later one    *)
(* may be in the ringbuffer already.                                       *)
RingInOrder ==
  late = {} =>
    \A j, k \in DOMAIN mRingbuffer : j < k => mRingbuffer[j].due <= mRingbuffer[k].due

(* Then none is dropped either, if the ringbuffer and the buffers of the   *)
(* ports have space for it: JACK refuses nothing else but what precedes an *)
(* event already in the buffer of the port.                                *)
KeptIfInTime ==
  /\ late = {}
  /\ Cardinality(queued) <= RingCapacity /\ Cardinality(queued) <= PortSpace
  => lost = {}

(* No message sounds less than a period after the frame it is due at, not  *)
(* even a late one.                                                        *)
NotEarly == \A h \in heard : h.frame >= h.msg.due + NFrames

(* And none sounds later than that, so that the rhythm of the pattern is   *)
(* kept to the frame, if bufferProcessingThread was never delayed and no   *)
(* message dropped: a callback that cannot place a message returns, and    *)
(* leaves those behind it for the next period.                             *)
OnTime ==
  ~delayed /\ late = {} /\ lost = {} => \A h \in heard : h.frame = h.msg.due + NFrames

(* While the callback runs, all messages that belong to the buffer it      *)
(* fills have left the heap, as long as the program plays.                 *)
BufferIsComplete ==
  ~delayed /\ gPlaying /\ late = {} /\ callback = "running" =>
    \A m \in mMidiHeap : m.due >= last

(* The engine implements what it promises the sequencer: whatever is on    *)
(* its way sounds once, not early, behind all that was due before, or is   *)
(* dropped.                                                                *)
Delivery == INSTANCE MidiDelivery WITH
              Frame <- 0 .. MaxFrame + NFrames, Latency <- NFrames,
              pending <- mMidiHeap \cup InFlight \cup InRing,
              sounded <- heard, dropped <- lost

ImplementsMidiDelivery == Delivery!Spec
-----------------------------------------------------------------------------
(* The invariant behind the properties above, in parts.                    *)

(* The frame times of a run that ends before half of the range of the 32   *)
(* bits is used up compare like the frames they stand for.                 *)
BeforeTheWrap ==
  /\ MaxFrame + LookAhead + 2 * NFrames < Wrap \div 2
  /\ \A m \in Message : m.due < Wrap

(* The five places of AccountedFor have nothing in common, and no message  *)
(* is twice in the ringbuffer or twice with JACK.                          *)
OnePlace ==
  /\ IsFiniteSet(queued) /\ IsFiniteSet(heard)
  /\ mMidiHeap \cap (InFlight \cup InRing \cup Heard \cup lost) = {}
  /\ InFlight \cap (InRing \cup Heard \cup lost) = {}
  /\ InRing \cap (Heard \cup lost) = {}
  /\ Heard \cap lost = {}
  /\ \A j, k \in DOMAIN mRingbuffer : mRingbuffer[j] = mRingbuffer[k] => j = k
  /\ \A g, h \in heard : g.msg = h.msg => g = h

(* What bufferProcessingThread has seen of the heap and of the clock stays *)
(* true until it acts on it.                                               *)
ThreadKnows ==
  /\ thread = "peeked" => picked \in mMidiHeap
  /\ thread = "clocked" => deadline <= now + LookAhead
  /\ thread = "popping" => \E m \in mMidiHeap : m.due <= now + LookAhead

Passed == InFlight \cup InRing \cup Heard

(* Nothing passes the thread before it is due. *)
PassedIsDue == \A m \in Passed : m.due <= now + LookAhead

(* No message in S is due after one in T. *)
Before(S, T) == \A m \in S, n \in T : m.due <= n.due

(* The places follow each other in the order of the messages. *)
PassedInOrder ==
  late = {} =>
    /\ Before(Heard, mMidiHeap \cup InFlight \cup InRing)
    /\ Before(InRing, mMidiHeap \cup InFlight)
    /\ Before(InFlight, mMidiHeap)
    /\ RingInOrder

(* The events in the buffers of the ports are messages heard, each at the  *)
(* offset its frame has in this period.                                    *)
EventsAreHeard ==
  \A p \in Port :
    /\ Len(events[p]) <= Cardinality(heard)
    /\ callback = "running" =>
         \A k \in DOMAIN events[p] : \E h \in heard :
           events[p][k] = Clipped(h.msg.due + NFrames - last)

(* A message that is heard after the period has begun is heard at its      *)
(* frame.                                                                  *)
HeardAtItsFrame == \A h \in heard : h.frame <= last \/ h.frame = h.msg.due + NFrames

(* As long as the thread runs, nothing that it still has to move belongs   *)
(* to a period that is over.                                               *)
HeapInTime == thread # "returned" => \A m \in mMidiHeap \cup InFlight : m.due >= last

(* While it sleeps, nothing in the heap becomes due before it wakes.       *)
SleepsInTime ==
  thread = "sleeping" =>
    /\ now <= wakeAt /\ wakeAt <= now + SleepFrames
    /\ \A m \in mMidiHeap : m.due > wakeAt - SleepFrames + LookAhead

(* Whatever came between its two reads cannot be due.                      *)
ReadsInTime ==
  /\ thread = "peeked" =>
       \A m \in mMidiHeap : m.due >= picked.due \/ m.due > now + LookAhead
  /\ thread = "clocked" =>
       deadline = now + LookAhead \/ \A m \in mMidiHeap : m.due > now + LookAhead

(* The callback leaves nothing that it should have played.                 *)
RingInTime ==
  /\ \A m \in InRing : m.due + NFrames >= last
  /\ callback = "done" => \A m \in InRing : m.due >= last

(* So it is if the thread is not delayed, nothing is queued late and, for  *)
(* the ringbuffer, nothing was dropped.                                    *)
InTime ==
  ~delayed /\ late = {} =>
    /\ HeapInTime /\ SleepsInTime /\ ReadsInTime
    /\ lost = {} => RingInTime

(* The inductive invariant: the first line holds for all frame times, the  *)
(* rest before the wrap, and the last two if no sleep of the thread is     *)
(* longer than it looks ahead.                                             *)
IInv ==
  /\ TypeOK /\ OnePlace /\ AccountedFor
  /\ ThreadKnows /\ PassedIsDue /\ PassedInOrder /\ EventsAreHeard
  /\ KeptIfInTime /\ NotEarly /\ HeardAtItsFrame
  /\ gPlaying => thread # "returned"
  /\ SleepFrames <= LookAhead => InTime /\ OnTime
=============================================================================

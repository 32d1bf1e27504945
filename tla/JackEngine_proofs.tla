------------------------- MODULE JackEngine_proofs -------------------------
EXTENDS JackEngine, FiniteSetTheorems, TLAPS

(* The remainder of a number of either sign. *)
LEMMA ModFacts ==
  ASSUME NEW w \in Nat \ {0}, NEW x \in Int
  PROVE  /\ x % w \in 0 .. w - 1
         /\ 0 <= x /\ x < w => x % w = x
         /\ -w <= x /\ x < 0 => x % w = x + w
OBVIOUS

(* The int of a frame time is close to 0, whatever the frame time. *)
LEMMA SignedFacts ==
  ASSUME NEW x \in Int
  PROVE  /\ Signed(x) \in Int
         /\ -(Wrap \div 2) <= x /\ x < Wrap \div 2 => Signed(x) = x
<1> DEFINE r == x % Wrap
<1>1. Wrap \in Nat \ {0} /\ Wrap = 2 * (Wrap \div 2) /\ Wrap \div 2 \in Nat
  BY FrameAssumption
<1>2. /\ r \in 0 .. Wrap - 1
      /\ 0 <= x /\ x < Wrap => r = x
      /\ -Wrap <= x /\ x < 0 => r = x + Wrap
  BY <1>1, ModFacts
<1>3. Signed(x) = IF r >= Wrap \div 2 THEN r - Wrap ELSE r
  BY DEF Signed
<1> HIDE DEF r
<1> QED
  BY <1>1, <1>2, <1>3

(* What a read of the oldest message finds in it. *)
LEMMA OldestFacts ==
  ASSUME TypeOK, mRingbuffer # <<>>
  PROVE  /\ Oldest \in Message /\ 1 \in DOMAIN mRingbuffer /\ Oldest = mRingbuffer[1]
         /\ Len(mRingbuffer) \in Nat /\ Len(mRingbuffer) >= 1
         /\ Oldest.due \in Nat /\ Oldest.time \in Nat
         /\ Oldest.port \in Port \cup {NoPort}
         /\ Offset \in Int
<1>1. Oldest \in Message /\ Oldest = mRingbuffer[1] /\ 1 \in DOMAIN mRingbuffer
      /\ Len(mRingbuffer) \in Nat /\ Len(mRingbuffer) >= 1
  BY DEF TypeOK, Oldest
<1>2. Oldest.due \in Nat /\ Oldest.time = Oldest.due % Wrap
      /\ Oldest.port \in Port \cup {NoPort}
  BY <1>1, QueuedAssumption
<1>3. Oldest.time \in Nat
  BY <1>2, FrameAssumption
<1>4. Oldest.time + NFrames - last \in Int
  BY <1>3, FrameAssumption DEF TypeOK
<1>5. Offset \in Int
  BY <1>4, SignedFacts DEF Offset
<1> QED
  BY <1>1, <1>2, <1>3, <1>5

(* The offset of an event lies within the period. *)
LEMMA ClippedFacts ==
  ASSUME NEW t \in Int, t < NFrames
  PROVE  Clipped(t) \in 0 .. NFrames - 1
BY FrameAssumption DEF Clipped
-----------------------------------------------------------------------------
(* The types. *)

LEMMA InitType == Init => TypeOK
<1> SUFFICES ASSUME Init PROVE TypeOK
  OBVIOUS
<1>1. Cardinality(mMidiHeap) <= HeapCapacity /\ mMidiHeap = {} /\ picked = Blank
  BY FS_EmptySet, CapacityAssumption DEF Init, Heap!Init
<1>2. events \in [Port -> Seq(0 .. NFrames - 1)]
  BY DEF Init
<1>3. now \in StartFrame .. MaxFrame /\ last \in StartFrame .. now /\ now < last + NFrames
  BY FrameAssumption DEF Init
<1>4. deadline \in 0 .. Wrap - 1 /\ wakeAt \in 0 .. MaxFrame + SleepFrames
  BY FrameAssumption DEF Init
<1>5. mRingbuffer \in Seq(Message) /\ Len(mRingbuffer) <= RingCapacity
  BY CapacityAssumption DEF Init
<1> QED
  BY <1>1, <1>2, <1>3, <1>4, <1>5 DEF Init, TypeOK

LEMMA QueueType ==
  ASSUME TypeOK, IsFiniteSet(mMidiHeap), NEW m \in Message, QueueMidiEvent(m)
  PROVE  TypeOK'
<1>1. mMidiHeap' \subseteq Message /\ picked' = picked
  BY DEF TypeOK, QueueMidiEvent, Heap!Insert
<1>2. Cardinality(mMidiHeap') <= HeapCapacity
  <2>1. /\ m \notin mMidiHeap /\ mMidiHeap' = mMidiHeap \cup {m}
        /\ Cardinality(mMidiHeap) < HeapCapacity
    BY DEF QueueMidiEvent, Heap!Insert, Heap!Cardinality, Cardinality
  <2>2. Cardinality(mMidiHeap) \in Nat
    BY FS_CardinalityType
  <2>3. Cardinality(mMidiHeap') = Cardinality(mMidiHeap) + 1
    BY <2>1, FS_AddElement
  <2> QED
    BY <2>1, <2>2, <2>3, CapacityAssumption
<1>3. late' \subseteq queued' /\ queued' \subseteq Message
  BY DEF TypeOK, QueueMidiEvent
<1> QED
  BY <1>1, <1>2, <1>3 DEF TypeOK, QueueMidiEvent, jackVars, threadVars

LEMMA DeadlineType ==
  ASSUME TypeOK
  PROVE  Deadline \in 0 .. Wrap - 1 /\ now + SleepFrames \in 0 .. MaxFrame + SleepFrames
<1>1. now + LookAhead \in Int /\ Wrap \in Nat \ {0}
  BY FrameAssumption DEF TypeOK
<1>2. Deadline \in 0 .. Wrap - 1
  BY <1>1, ModFacts DEF Deadline
<1> QED
  BY <1>2, FrameAssumption DEF TypeOK

LEMMA ThreadType ==
  ASSUME TypeOK, IsFiniteSet(mMidiHeap),
         PeekFirst \/ ComparePeeked \/ ClockFirst \/ PeekClocked \/ Wake
  PROVE  TypeOK'
<1>1. CASE PeekFirst
  BY <1>1 DEF PeekFirst, Heap!PeekMin, Heap!Earliest, TypeOK, jackVars, history
<1>2. CASE ComparePeeked
  BY <1>2, DeadlineType DEF ComparePeeked, Compare, Sleep, TypeOK, jackVars, history, heapVars
<1>3. CASE ClockFirst
  BY <1>3, DeadlineType DEF ClockFirst, TypeOK, jackVars, history, heapVars
<1>4. CASE PeekClocked
  BY <1>4, DeadlineType
     DEF PeekClocked, Compare, Sleep, Heap!PeekMin, Heap!Earliest, TypeOK, jackVars, history
<1>5. CASE Wake
  BY <1>5 DEF Wake, TypeOK, jackVars, history, heapVars
<1> QED
  BY <1>1, <1>2, <1>3, <1>4, <1>5

LEMMA PopType ==
  ASSUME TypeOK, IsFiniteSet(mMidiHeap), PopDue
  PROVE  TypeOK'
<1>1. PICK m \in Message : Heap!PopMin(m)
  BY DEF PopDue
<1>2. mMidiHeap' \subseteq Message /\ picked' \in Message
  BY <1>1 DEF TypeOK, Heap!PopMin
<1>3. Cardinality(mMidiHeap') <= HeapCapacity
  <2>1. m \in mMidiHeap /\ mMidiHeap' = mMidiHeap \ {m}
    BY <1>1 DEF Heap!PopMin, Heap!Earliest
  <2>2. Cardinality(mMidiHeap) \in Nat /\ Cardinality(mMidiHeap) <= HeapCapacity
    BY FS_CardinalityType DEF TypeOK
  <2>3. Cardinality(mMidiHeap') = Cardinality(mMidiHeap) - 1
    BY <2>1, FS_RemoveElement
  <2> QED
    BY <2>2, <2>3, CapacityAssumption
<1> QED
  BY <1>2, <1>3 DEF TypeOK, PopDue, jackVars, history

LEMMA WriteType ==
  ASSUME TypeOK, picked \in Message, WritePopped
  PROVE  TypeOK'
<1>1. /\ mRingbuffer' \in Seq(Message) /\ Len(mRingbuffer') <= RingCapacity
      /\ lost' \subseteq Message
  <2>1. CASE HasSpace /\ mRingbuffer' = Append(mRingbuffer, picked) /\ UNCHANGED lost
    BY <2>1, CapacityAssumption DEF TypeOK, HasSpace
  <2>2. CASE ~HasSpace /\ lost' = lost \cup {picked} /\ UNCHANGED mRingbuffer
    BY <2>2 DEF TypeOK
  <2> QED
    BY <2>1, <2>2 DEF WritePopped, WriteMidiData
<1> QED
  BY <1>1 DEF TypeOK, WritePopped, jackVars, heapVars

LEMMA CallbackType ==
  ASSUME TypeOK, CallbackStart \/ CallbackRead \/ CallbackEnd
  PROVE  TypeOK'
<1>1. CASE CallbackStart
  BY <1>1 DEF CallbackStart, TypeOK, threadVars, history, heapVars
<1>2. CASE CallbackEnd
  BY <1>2 DEF CallbackEnd, TypeOK, threadVars, history, heapVars
<1>3. CASE CallbackRead
  <2> DEFINE p == IF Oldest.port = NoPort THEN DefaultPort ELSE Oldest.port
             t == Clipped(Offset)
  <2>1. mRingbuffer # <<>> /\ Offset < NFrames
    BY <1>3 DEF CallbackRead, Readable
  <2>2. Oldest \in Message /\ p \in Port /\ t \in 0 .. NFrames - 1
    BY <2>1, OldestFacts, ClippedFacts, PortAssumption
  <2>3. mRingbuffer' \in Seq(Message) /\ Len(mRingbuffer') <= RingCapacity
    BY <1>3, <2>1, CapacityAssumption DEF CallbackRead, Advanced, TypeOK
  <2>4. /\ events' \in [Port -> Seq(0 .. NFrames - 1)]
        /\ callback' \in {"waiting", "running", "done"}
        /\ lost' \subseteq Message
        /\ heard' \subseteq [msg : Message, frame : Nat]
    <3>1. CASE /\ events' = [events EXCEPT ![p] = Append(@, t)]
               /\ heard' = heard \cup {[msg |-> Oldest, frame |-> last + t]}
               /\ UNCHANGED <<callback, lost>>
      <4>1. last + t \in Nat
        BY <2>2, FrameAssumption DEF TypeOK
      <4>2. [msg |-> Oldest, frame |-> last + t] \in [msg : Message, frame : Nat]
        BY <2>2, <4>1
      <4>3. Append(events[p], t) \in Seq(0 .. NFrames - 1)
        BY <2>2 DEF TypeOK
      <4> HIDE DEF p, t
      <4> QED
        BY <3>1, <4>2, <4>3, <2>2 DEF TypeOK
    <3>2. CASE /\ lost' = lost \cup {Oldest}
               /\ callback' = "done"
               /\ UNCHANGED <<events, heard>>
      BY <3>2, <2>2 DEF TypeOK
    <3> QED
      BY <1>3, <3>1, <3>2 DEF CallbackRead
  <2> QED
    BY <1>3, <2>3, <2>4 DEF CallbackRead, TypeOK, threadVars, heapVars
<1> QED
  BY <1>1, <1>2, <1>3

LEMMA ClockType ==
  ASSUME TypeOK, StopPlaying \/ Tick \/ ClockStops \/ UNCHANGED vars
  PROVE  TypeOK'
<1>1. CASE StopPlaying
  BY <1>1 DEF StopPlaying, TypeOK, jackVars, history, heapVars
<1>2. CASE Tick
  <2>1. now' \in StartFrame .. MaxFrame
    BY <1>2, FrameAssumption DEF Tick, TypeOK
  <2>2. last' \in StartFrame .. now' /\ now' < last' + NFrames
        /\ callback' \in {"waiting", "running", "done"}
    BY <1>2, FrameAssumption DEF Tick, TypeOK, PeriodEnds
  <2>3. delayed' \in BOOLEAN
    BY <1>2 DEF Tick
  <2> QED
    BY <1>2, <2>1, <2>2, <2>3 DEF Tick, TypeOK, threadVars, heapVars
<1>3. CASE ClockStops \/ UNCHANGED vars
  BY <1>3 DEF ClockStops, vars, TypeOK, jackVars, threadVars, history, heapVars
<1> QED
  BY <1>1, <1>2, <1>3
-----------------------------------------------------------------------------
(* The ringbuffer. *)

LEMMA RingAppended ==
  ASSUME TypeOK, NEW m \in Message, mRingbuffer' = Append(mRingbuffer, m)
  PROVE  /\ Len(mRingbuffer) \in Nat /\ Len(mRingbuffer') = Len(mRingbuffer) + 1
         /\ DOMAIN mRingbuffer = 1 .. Len(mRingbuffer)
         /\ DOMAIN mRingbuffer' = 1 .. Len(mRingbuffer) + 1
         /\ \A k \in 1 .. Len(mRingbuffer) : mRingbuffer'[k] = mRingbuffer[k]
         /\ mRingbuffer'[Len(mRingbuffer) + 1] = m
         /\ InRing' = InRing \cup {m}
<1>1. /\ Len(mRingbuffer) \in Nat /\ Len(mRingbuffer') = Len(mRingbuffer) + 1
      /\ DOMAIN mRingbuffer = 1 .. Len(mRingbuffer)
      /\ DOMAIN mRingbuffer' = 1 .. Len(mRingbuffer) + 1
      /\ \A k \in 1 .. Len(mRingbuffer) : mRingbuffer'[k] = mRingbuffer[k]
      /\ mRingbuffer'[Len(mRingbuffer) + 1] = m
  BY DEF TypeOK
<1> HIDE DEF TypeOK
<1>2. InRing' \subseteq InRing \cup {m}
  BY <1>1 DEF InRing
<1>3. InRing \cup {m} \subseteq InRing'
  BY <1>1 DEF InRing
<1> QED
  BY <1>1, <1>2, <1>3

LEMMA RingAdvanced ==
  ASSUME TypeOK, mRingbuffer # <<>>, mRingbuffer' = Advanced
  PROVE  /\ Len(mRingbuffer) \in Nat /\ Len(mRingbuffer) >= 1
         /\ Len(mRingbuffer') = Len(mRingbuffer) - 1
         /\ DOMAIN mRingbuffer = 1 .. Len(mRingbuffer)
         /\ DOMAIN mRingbuffer' = 1 .. Len(mRingbuffer) - 1
         /\ \A k \in 1 .. Len(mRingbuffer) - 1 : mRingbuffer'[k] = mRingbuffer[k + 1]
         /\ InRing = InRing' \cup {Oldest}
<1>1. /\ Len(mRingbuffer) \in Nat /\ Len(mRingbuffer) >= 1
      /\ Len(mRingbuffer') = Len(mRingbuffer) - 1
      /\ DOMAIN mRingbuffer = 1 .. Len(mRingbuffer)
      /\ DOMAIN mRingbuffer' = 1 .. Len(mRingbuffer) - 1
      /\ \A k \in 1 .. Len(mRingbuffer) - 1 : mRingbuffer'[k] = mRingbuffer[k + 1]
  BY DEF TypeOK, Advanced
<1>2. InRing' \subseteq InRing /\ Oldest \in InRing
  BY <1>1 DEF InRing, Oldest
<1>3. ASSUME NEW k \in 1 .. Len(mRingbuffer)
      PROVE  mRingbuffer[k] \in InRing' \cup {Oldest}
  <2>1. CASE k = 1
    BY <2>1 DEF Oldest
  <2>2. CASE k # 1
    <3>1. k - 1 \in 1 .. Len(mRingbuffer) - 1 /\ mRingbuffer'[k - 1] = mRingbuffer[k]
      BY <1>1, <2>2
    <3> QED
      BY <3>1, <1>1 DEF InRing
  <2> QED
    BY <2>1, <2>2
<1> QED
  BY <1>1, <1>2, <1>3 DEF InRing
-----------------------------------------------------------------------------
(* Each message is at one place. *)

Placed == TypeOK /\ OnePlace /\ AccountedFor

LEMMA PlacedFacts ==
  ASSUME Placed
  PROVE  /\ TypeOK /\ IsFiniteSet(queued) /\ IsFiniteSet(heard)
         /\ IsFiniteSet(mMidiHeap) /\ IsFiniteSet(lost)
         /\ mMidiHeap \subseteq queued /\ InFlight \subseteq queued /\ InRing \subseteq queued
         /\ Heard \subseteq queued /\ lost \subseteq queued
         /\ Cardinality(queued) \in Nat /\ Cardinality(heard) \in Nat
         /\ Cardinality(mMidiHeap) \in Nat /\ Cardinality(lost) \in Nat
         /\ Cardinality(InFlight) = IF thread = "writing" THEN 1 ELSE 0
         /\ Cardinality(InFlight) \in Nat
         /\ Len(mRingbuffer) \in Nat
         /\ thread = "writing" => picked \in Message /\ picked \in InFlight
<1>1. /\ TypeOK /\ IsFiniteSet(queued) /\ IsFiniteSet(heard)
      /\ queued = UNION {mMidiHeap, InFlight, InRing, Heard, lost}
  BY DEF Placed, OnePlace, AccountedFor
<1>2. /\ mMidiHeap \subseteq queued /\ InFlight \subseteq queued /\ InRing \subseteq queued
      /\ Heard \subseteq queued /\ lost \subseteq queued
  BY <1>1
<1>3. IsFiniteSet(mMidiHeap) /\ IsFiniteSet(lost)
  BY <1>1, <1>2, FS_Subset
<1>4. /\ Cardinality(queued) \in Nat /\ Cardinality(heard) \in Nat
      /\ Cardinality(mMidiHeap) \in Nat /\ Cardinality(lost) \in Nat
  BY <1>1, <1>3, FS_CardinalityType
<1>5. Cardinality(InFlight) = IF thread = "writing" THEN 1 ELSE 0
  BY FS_Singleton, FS_EmptySet DEF InFlight
<1>6. thread = "writing" => picked \in Message /\ picked \in InFlight
  BY <1>1, <1>2 DEF InFlight, TypeOK
<1>7. Len(mRingbuffer) \in Nat
  BY <1>1 DEF TypeOK
<1> QED
  BY <1>1, <1>2, <1>3, <1>4, <1>5, <1>6, <1>7

LEMMA InitPlaced == Init => Placed
<1> SUFFICES ASSUME Init PROVE Placed
  OBVIOUS
<1>1. /\ mMidiHeap = {} /\ InFlight = {} /\ mRingbuffer = <<>> /\ heard = {} /\ lost = {}
      /\ queued = {}
  BY DEF Init, Heap!Init, InFlight
<1>2. InRing = {} /\ Heard = {}
  BY <1>1 DEF InRing, Heard
<1>3. OnePlace
  BY <1>1, <1>2, FS_EmptySet DEF OnePlace
<1>4. AccountedFor
  BY <1>1, <1>2, FS_EmptySet DEF AccountedFor
<1> QED
  BY <1>3, <1>4, InitType DEF Placed

(* A step that moves no message. *)
LEMMA NothingMoves ==
  ASSUME OnePlace, AccountedFor, InFlight' = InFlight,
         UNCHANGED <<mMidiHeap, mRingbuffer, queued, heard, lost>>
  PROVE  OnePlace' /\ AccountedFor'
BY DEF OnePlace, AccountedFor, InRing, Heard

LEMMA QueuePlaced ==
  ASSUME Placed, NEW m \in Message, QueueMidiEvent(m)
  PROVE  OnePlace' /\ AccountedFor'
<1>1. /\ m \notin queued /\ queued' = queued \cup {m} /\ mMidiHeap' = mMidiHeap \cup {m}
      /\ InFlight' = InFlight /\ mRingbuffer' = mRingbuffer /\ heard' = heard /\ lost' = lost
  BY DEF QueueMidiEvent, Heap!Insert, InFlight, threadVars
<1>2. InRing' = InRing /\ Heard' = Heard
  BY <1>1 DEF InRing, Heard
<1>3. m \notin mMidiHeap
  BY <1>1, PlacedFacts
<1>4. /\ IsFiniteSet(queued') /\ Cardinality(queued') = Cardinality(queued) + 1
      /\ Cardinality(mMidiHeap') = Cardinality(mMidiHeap) + 1
  BY <1>1, <1>3, PlacedFacts, FS_AddElement
<1>5. OnePlace'
  <2>1. mMidiHeap' \cap (InFlight \cup InRing \cup Heard \cup lost) = {}
    BY <1>1, PlacedFacts DEF Placed, OnePlace
  <2> QED
    BY <1>1, <1>2, <1>4, <2>1 DEF Placed, OnePlace
<1>6. AccountedFor'
  <2>1. queued' = UNION {mMidiHeap', InFlight, InRing, Heard, lost}
    BY <1>1 DEF Placed, AccountedFor
  <2>2. Cardinality(InFlight) \in Nat
    BY PlacedFacts
  <2>3. Cardinality(queued') = Cardinality(mMidiHeap') + Cardinality(InFlight)
                             + Len(mRingbuffer) + Cardinality(heard) + Cardinality(lost)
    BY <1>4, <2>2, PlacedFacts DEF Placed, AccountedFor
  <2> QED
    BY <1>1, <1>2, <2>1, <2>3 DEF AccountedFor
<1> QED
  BY <1>5, <1>6

LEMMA PopPlaced ==
  ASSUME Placed, PopDue
  PROVE  OnePlace' /\ AccountedFor'
<1>1. PICK m \in Message : Heap!PopMin(m)
  BY DEF PopDue
<1>2. /\ m \in mMidiHeap /\ mMidiHeap' = mMidiHeap \ {m}
      /\ InFlight = {} /\ InFlight' = {m}
      /\ mRingbuffer' = mRingbuffer /\ heard' = heard /\ lost' = lost /\ queued' = queued
  BY <1>1 DEF PopDue, Heap!PopMin, Heap!Earliest, InFlight, history
<1>3. InRing' = InRing /\ Heard' = Heard
  BY <1>2 DEF InRing, Heard
<1>4. /\ Cardinality(mMidiHeap') = Cardinality(mMidiHeap) - 1
      /\ Cardinality(InFlight) = 0 /\ Cardinality(InFlight') = 1
  BY <1>2, PlacedFacts, FS_RemoveElement, FS_EmptySet, FS_Singleton
<1>5. OnePlace'
  <2>1. /\ mMidiHeap' \cap (InFlight' \cup InRing \cup Heard \cup lost) = {}
        /\ InFlight' \cap (InRing \cup Heard \cup lost) = {}
    BY <1>2 DEF Placed, OnePlace
  <2> QED
    BY <1>2, <1>3, <2>1 DEF Placed, OnePlace
<1>6. AccountedFor'
  <2>1. queued = UNION {mMidiHeap', InFlight', InRing, Heard, lost}
    BY <1>2 DEF Placed, AccountedFor
  <2>2. Cardinality(queued) = Cardinality(mMidiHeap') + Cardinality(InFlight')
                             + Len(mRingbuffer) + Cardinality(heard) + Cardinality(lost)
    BY <1>4, PlacedFacts DEF Placed, AccountedFor
  <2> QED
    BY <1>2, <1>3, <2>1, <2>2 DEF AccountedFor
<1> QED
  BY <1>5, <1>6

LEMMA WritePlaced ==
  ASSUME Placed, WritePopped
  PROVE  OnePlace' /\ AccountedFor'
<1>1. /\ thread = "writing" /\ InFlight = {picked} /\ InFlight' = {} /\ picked \in Message
      /\ mMidiHeap' = mMidiHeap /\ queued' = queued /\ heard' = heard /\ Heard' = Heard
      /\ TypeOK /\ picked \notin InRing /\ picked \notin lost
      /\ Cardinality(InFlight) = 1 /\ Cardinality(InFlight') = 0
  BY PlacedFacts, FS_EmptySet
     DEF WritePopped, InFlight, heapVars, Heard, Placed, OnePlace
<1>2. CASE mRingbuffer' = Append(mRingbuffer, picked) /\ lost' = lost
  <2>1. /\ Len(mRingbuffer) \in Nat /\ Len(mRingbuffer') = Len(mRingbuffer) + 1
        /\ DOMAIN mRingbuffer = 1 .. Len(mRingbuffer)
        /\ DOMAIN mRingbuffer' = 1 .. Len(mRingbuffer) + 1
        /\ \A k \in 1 .. Len(mRingbuffer) : mRingbuffer'[k] = mRingbuffer[k]
        /\ mRingbuffer'[Len(mRingbuffer) + 1] = picked
        /\ InRing' = InRing \cup {picked}
    BY <1>1, <1>2, RingAppended
  <2>2. ASSUME NEW j \in DOMAIN mRingbuffer', NEW k \in DOMAIN mRingbuffer',
               mRingbuffer'[j] = mRingbuffer'[k]
        PROVE  j = k
    <3>1. \A n \in 1 .. Len(mRingbuffer) : mRingbuffer'[n] # picked
      BY <1>1, <2>1 DEF InRing
    <3>2. \A n \in DOMAIN mRingbuffer' :
            n \in 1 .. Len(mRingbuffer) \/ n = Len(mRingbuffer) + 1
      BY <2>1
    <3> QED
      BY <2>1, <2>2, <3>1, <3>2 DEF Placed, OnePlace
  <2>3. OnePlace'
    BY <1>1, <1>2, <2>1, <2>2 DEF Placed, OnePlace
  <2>4. AccountedFor'
    <3>1. queued = UNION {mMidiHeap, {}, InRing', Heard, lost}
      BY <1>1, <2>1 DEF Placed, AccountedFor
    <3>2. Cardinality(queued) = Cardinality(mMidiHeap) + 0
                             + Len(mRingbuffer') + Cardinality(heard) + Cardinality(lost)
      BY <1>1, <2>1, PlacedFacts DEF Placed, AccountedFor
    <3> QED
      BY <1>1, <1>2, <3>1, <3>2 DEF AccountedFor
  <2> QED
    BY <2>3, <2>4
<1>3. CASE lost' = lost \cup {picked} /\ mRingbuffer' = mRingbuffer
  <2>1. InRing' = InRing
    BY <1>3 DEF InRing
  <2>2. Cardinality(lost') = Cardinality(lost) + 1
    BY <1>1, <1>3, PlacedFacts, FS_AddElement
  <2>3. OnePlace'
    BY <1>1, <1>3, <2>1 DEF Placed, OnePlace
  <2>4. AccountedFor'
    <3>1. queued = UNION {mMidiHeap, {}, InRing, Heard, lost'}
      BY <1>1, <1>3 DEF Placed, AccountedFor
    <3>2. Cardinality(queued) = Cardinality(mMidiHeap) + 0
                             + Len(mRingbuffer) + Cardinality(heard) + Cardinality(lost')
      BY <1>1, <2>2, PlacedFacts DEF Placed, AccountedFor
    <3> QED
      BY <1>1, <1>3, <2>1, <3>1, <3>2 DEF AccountedFor
  <2> QED
    BY <2>3, <2>4
<1> QED
  BY <1>2, <1>3 DEF WritePopped, WriteMidiData

LEMMA ReadPlaced ==
  ASSUME Placed, CallbackRead
  PROVE  OnePlace' /\ AccountedFor'
<1>1. /\ mMidiHeap' = mMidiHeap /\ queued' = queued /\ InFlight' = InFlight
      /\ mRingbuffer # <<>> /\ mRingbuffer' = Advanced /\ TypeOK
  BY PlacedFacts DEF CallbackRead, Readable, InFlight, heapVars, threadVars
<1>2. /\ Len(mRingbuffer) \in Nat /\ Len(mRingbuffer) >= 1
      /\ Len(mRingbuffer') = Len(mRingbuffer) - 1
      /\ DOMAIN mRingbuffer = 1 .. Len(mRingbuffer)
      /\ DOMAIN mRingbuffer' = 1 .. Len(mRingbuffer) - 1
      /\ \A k \in 1 .. Len(mRingbuffer) - 1 : mRingbuffer'[k] = mRingbuffer[k + 1]
      /\ InRing = InRing' \cup {Oldest}
  BY <1>1, RingAdvanced
<1>3. \A j, k \in DOMAIN mRingbuffer : mRingbuffer[j] = mRingbuffer[k] => j = k
  BY DEF Placed, OnePlace
<1>4. \A j, k \in DOMAIN mRingbuffer' : mRingbuffer'[j] = mRingbuffer'[k] => j = k
  <2> SUFFICES ASSUME NEW j \in DOMAIN mRingbuffer', NEW k \in DOMAIN mRingbuffer',
                      mRingbuffer'[j] = mRingbuffer'[k]
               PROVE  j = k
    OBVIOUS
  <2>1. j + 1 \in DOMAIN mRingbuffer /\ k + 1 \in DOMAIN mRingbuffer
    BY <1>2
  <2>2. mRingbuffer[j + 1] = mRingbuffer[k + 1]
    BY <1>2
  <2> QED
    BY <2>1, <2>2, <1>2, <1>3
<1>5. Oldest \notin InRing'
  <2>1. ASSUME NEW k \in 1 .. Len(mRingbuffer) - 1
        PROVE  mRingbuffer[k + 1] # mRingbuffer[1]
    BY <1>2, <1>3
  <2> QED
    BY <1>2, <2>1 DEF InRing, Oldest
<1>6. /\ Oldest \notin mMidiHeap /\ Oldest \notin InFlight /\ Oldest \notin Heard
      /\ Oldest \notin lost /\ Oldest \in queued
  BY <1>2, PlacedFacts DEF Placed, OnePlace
<1>0. Cardinality(InFlight) \in Nat
  BY PlacedFacts
<1>7. CASE lost' = lost \cup {Oldest} /\ heard' = heard
  <2>1. Heard' = Heard /\ Cardinality(lost') = Cardinality(lost) + 1
    BY <1>6, <1>7, PlacedFacts, FS_AddElement DEF Heard
  <2>2. OnePlace'
    BY <1>1, <1>2, <1>4, <1>5, <1>6, <1>7, <2>1 DEF Placed, OnePlace
  <2>3. AccountedFor'
    <3>1. queued = UNION {mMidiHeap, InFlight, InRing', Heard, lost'}
      BY <1>2, <1>7 DEF Placed, AccountedFor
    <3>2. Cardinality(queued) = Cardinality(mMidiHeap) + Cardinality(InFlight)
                             + Len(mRingbuffer') + Cardinality(heard) + Cardinality(lost')
      BY <1>0, <1>2, <2>1, PlacedFacts DEF Placed, AccountedFor
    <3> QED
      BY <1>1, <1>7, <2>1, <3>1, <3>2 DEF AccountedFor
  <2> QED
    BY <2>2, <2>3
<1>8. CASE lost' = lost /\ \E frame : heard' = heard \cup {[msg |-> Oldest, frame |-> frame]}
  <2>1. PICK frame : heard' = heard \cup {[msg |-> Oldest, frame |-> frame]}
    BY <1>8
  <2> DEFINE new == [msg |-> Oldest, frame |-> frame]
  <2>2. new.msg = Oldest
    OBVIOUS
  <2>3. heard' = heard \cup {new}
    BY <2>1
  <2> HIDE DEF new
  <2>4. Heard' = Heard \cup {Oldest} /\ new \notin heard
    BY <2>2, <2>3, <1>6 DEF Heard
  <2>5. IsFiniteSet(heard') /\ Cardinality(heard') = Cardinality(heard) + 1
    BY <2>3, <2>4, PlacedFacts, FS_AddElement
  <2>6. ASSUME NEW g \in heard', NEW h \in heard', g.msg = h.msg
        PROVE  g = h
    <3>1. \A x \in heard : x.msg # Oldest
      BY <1>6 DEF Heard
    <3> QED
      BY <3>1, <2>2, <2>3, <2>6 DEF Placed, OnePlace
  <2>7. OnePlace'
    BY <1>1, <1>2, <1>4, <1>5, <1>6, <1>8, <2>4, <2>5, <2>6 DEF Placed, OnePlace
  <2>8. AccountedFor'
    <3>1. queued = UNION {mMidiHeap, InFlight, InRing', Heard', lost}
      BY <1>2, <2>4 DEF Placed, AccountedFor
    <3>2. Cardinality(queued) = Cardinality(mMidiHeap) + Cardinality(InFlight)
                             + Len(mRingbuffer') + Cardinality(heard') + Cardinality(lost)
      BY <1>0, <1>2, <2>5, PlacedFacts DEF Placed, AccountedFor
    <3> QED
      BY <1>1, <1>8, <3>1, <3>2 DEF AccountedFor
  <2> QED
    BY <2>7, <2>8
<1> QED
  BY <1>7, <1>8 DEF CallbackRead

LEMMA PlacedInductive ==
  ASSUME Placed, [Next]_vars
  PROVE  Placed'
<1>1. ASSUME NEW m \in Message, QueueMidiEvent(m)
      PROVE  Placed'
  BY <1>1, QueuePlaced, QueueType, PlacedFacts DEF Placed
<1>2. CASE PeekFirst \/ ComparePeeked \/ ClockFirst \/ PeekClocked \/ Wake
  <2>1. UNCHANGED <<mMidiHeap, mRingbuffer, queued, heard, lost>>
    BY <1>2 DEF PeekFirst, ComparePeeked, ClockFirst, PeekClocked, Wake, Heap!PeekMin,
                heapVars, history
  <2>2. InFlight' = InFlight
    BY <1>2 DEF PeekFirst, ComparePeeked, ClockFirst, PeekClocked, Wake, Compare, Sleep,
                InFlight
  <2> QED
    BY <1>2, <2>1, <2>2, NothingMoves, ThreadType, PlacedFacts DEF Placed
<1>3. CASE PopDue
  BY <1>3, PopPlaced, PopType, PlacedFacts DEF Placed
<1>4. CASE WritePopped
  BY <1>4, WritePlaced, WriteType, PlacedFacts DEF Placed, WritePopped
<1>5. CASE CallbackRead
  BY <1>5, ReadPlaced, CallbackType, PlacedFacts DEF Placed
<1>6. CASE CallbackStart \/ CallbackEnd
  <2>1. UNCHANGED <<mMidiHeap, mRingbuffer, queued, heard, lost, thread, picked>>
    BY <1>6 DEF CallbackStart, CallbackEnd, heapVars, threadVars, history
  <2> QED
    BY <1>6, <2>1, NothingMoves, CallbackType, PlacedFacts DEF Placed, InFlight
<1>7. CASE StopPlaying \/ Tick \/ ClockStops \/ UNCHANGED vars
  <2>1. UNCHANGED <<mMidiHeap, mRingbuffer, queued, heard, lost, thread, picked>>
    BY <1>7 DEF StopPlaying, Tick, ClockStops, vars, heapVars, threadVars, history
  <2> QED
    BY <1>7, <2>1, NothingMoves, ClockType, PlacedFacts DEF Placed, InFlight
<1> QED
  BY <1>1, <1>2, <1>3, <1>4, <1>5, <1>6, <1>7 DEF Next

LEMMA AlwaysPlaced == Spec => []Placed
BY InitPlaced, PlacedInductive, PTL DEF Spec

THEOREM TypeCorrect == Spec => []TypeOK
BY AlwaysPlaced, PTL DEF Placed

THEOREM EveryMessageAccountedFor == Spec => []AccountedFor
BY AlwaysPlaced, PTL DEF Placed
-----------------------------------------------------------------------------
(* What a step may change. *)

Stays ==
  /\ InFlight' = InFlight /\ InRing' = InRing /\ Heard' = Heard
  /\ UNCHANGED <<mMidiHeap, mRingbuffer, queued, late, heard, lost>>

LEMMA MovingSteps ==
  ASSUME [Next]_vars
  PROVE  \/ \E m \in Message : QueueMidiEvent(m)
         \/ PopDue \/ WritePopped \/ CallbackRead
         \/ Stays
<1>1. CASE PeekFirst \/ ComparePeeked \/ ClockFirst \/ PeekClocked \/ Wake
  <2>1. UNCHANGED <<mMidiHeap, mRingbuffer, queued, late, heard, lost>>
    BY <1>1 DEF PeekFirst, ComparePeeked, ClockFirst, PeekClocked, Wake, Heap!PeekMin,
                heapVars, history
  <2>2. InFlight' = InFlight
    BY <1>1 DEF PeekFirst, ComparePeeked, ClockFirst, PeekClocked, Wake, Compare, Sleep,
                InFlight
  <2> QED
    BY <2>1, <2>2 DEF Stays, InRing, Heard
<1>2. CASE CallbackStart \/ CallbackEnd
  BY <1>2 DEF CallbackStart, CallbackEnd, heapVars, threadVars, history, Stays, InRing, Heard,
              InFlight
<1>3. CASE StopPlaying \/ Tick \/ ClockStops \/ UNCHANGED vars
  BY <1>3 DEF StopPlaying, Tick, ClockStops, vars, heapVars, threadVars, history, Stays,
              InRing, Heard, InFlight
<1> QED
  BY <1>1, <1>2, <1>3 DEF Next

(* Only Tick touches the clock, and the period begins with it. *)
LEMMA ClockSteps ==
  ASSUME [Next]_vars
  PROVE  \/ Tick
         \/ UNCHANGED <<now, last, delayed>>
<1>1. ASSUME NEW m \in Message, QueueMidiEvent(m)
      PROVE  UNCHANGED <<now, last, delayed>>
  BY <1>1 DEF QueueMidiEvent, jackVars
<1>2. CASE PeekFirst \/ ComparePeeked \/ ClockFirst \/ PeekClocked \/ Wake \/ PopDue
  BY <1>2 DEF PeekFirst, ComparePeeked, ClockFirst, PeekClocked, Wake, PopDue, jackVars, history
<1>3. CASE WritePopped
  BY <1>3 DEF WritePopped, jackVars
<1>4. CASE CallbackStart \/ CallbackRead \/ CallbackEnd
  BY <1>4 DEF CallbackStart, CallbackRead, CallbackEnd, history
<1>5. CASE StopPlaying \/ ClockStops \/ UNCHANGED vars
  BY <1>5 DEF StopPlaying, ClockStops, vars, jackVars, history
<1> QED
  BY <1>1, <1>2, <1>3, <1>4, <1>5 DEF Next

LEMMA ClockGrows ==
  ASSUME TypeOK, [Next]_vars
  PROVE  /\ now \in Nat /\ last \in Nat /\ now' \in Nat /\ last' \in Nat
         /\ now <= now' /\ last <= last' /\ LookAhead \in Nat /\ NFrames \in Nat
<1>1. now \in Nat /\ last \in Nat /\ last <= now /\ LookAhead \in Nat /\ NFrames \in Nat
  BY FrameAssumption DEF TypeOK
<1>2. CASE Tick
  BY <1>1, <1>2 DEF Tick
<1>3. CASE UNCHANGED <<now, last, delayed>>
  BY <1>1, <1>3
<1> QED
  BY <1>1, <1>2, <1>3, ClockSteps

(* A message leaves the ringbuffer for JACK, or is dropped. *)
LEMMA ReadFacts ==
  ASSUME Placed, CallbackRead
  PROVE  LET p == IF Oldest.port = NoPort THEN DefaultPort ELSE Oldest.port
             t == Clipped(Offset)
         IN  /\ mRingbuffer # <<>> /\ mRingbuffer' = Advanced /\ callback = "running"
             /\ InRing = InRing' \cup {Oldest} /\ InFlight' = InFlight
             /\ UNCHANGED <<mMidiHeap, picked, thread, queued, late>>
             /\ Oldest \in Message /\ Oldest \in InRing /\ Oldest.due \in Nat
             /\ p \in Port /\ t \in 0 .. NFrames - 1 /\ Offset \in Int
             /\ \/ /\ heard' = heard \cup {[msg |-> Oldest, frame |-> last + t]}
                   /\ Heard' = Heard \cup {Oldest}
                   /\ events' = [events EXCEPT ![p] = Append(@, t)]
                   /\ callback' = "running" /\ lost' = lost
                \/ /\ heard' = heard /\ Heard' = Heard /\ events' = events
                   /\ callback' = "done" /\ lost' = lost \cup {Oldest}
                   /\ ~CanReserve(p, t)
<1> DEFINE p == IF Oldest.port = NoPort THEN DefaultPort ELSE Oldest.port
           t == Clipped(Offset)
           new == [msg |-> Oldest, frame |-> last + t]
<1>1. /\ mRingbuffer # <<>> /\ mRingbuffer' = Advanced /\ callback = "running" /\ TypeOK
      /\ UNCHANGED <<mMidiHeap, picked, thread, queued, late>> /\ Offset < NFrames
      /\ InFlight' = InFlight
  BY DEF CallbackRead, Readable, heapVars, threadVars, Placed, InFlight
<1>2. InRing = InRing' \cup {Oldest}
  BY <1>1, RingAdvanced
<1>3. Oldest \in Message /\ Oldest.due \in Nat /\ p \in Port /\ t \in 0 .. NFrames - 1
      /\ Offset \in Int
  BY <1>1, OldestFacts, ClippedFacts, PortAssumption
<1>4. \/ /\ heard' = heard \cup {new} /\ callback' = callback /\ lost' = lost
         /\ events' = [events EXCEPT ![p] = Append(@, t)]
      \/ /\ heard' = heard /\ events' = events /\ ~CanReserve(p, t)
         /\ callback' = "done" /\ lost' = lost \cup {Oldest}
  BY DEF CallbackRead
<1>5. new.msg = Oldest
  OBVIOUS
<1> HIDE DEF p, t, new
<1>6. heard' = heard \cup {new} => Heard' = Heard \cup {Oldest}
  BY <1>5 DEF Heard
<1>7. heard' = heard => Heard' = Heard
  BY DEF Heard
<1> QED
  BY <1>1, <1>2, <1>3, <1>4, <1>6, <1>7 DEF p, t, new
-----------------------------------------------------------------------------
(* The order of the frame times, before the wrap. *)

LEMMA TimeFacts ==
  ASSUME BeforeTheWrap, TypeOK
  PROVE  /\ Deadline = now + LookAhead
         /\ \A m \in Message : m.due \in Nat /\ m.time = m.due
         /\ now \in Nat /\ last \in Nat /\ LookAhead \in Nat /\ NFrames \in Nat
         /\ SleepFrames \in Nat /\ last <= now /\ now < last + NFrames /\ NFrames > 0
<1>1. /\ Wrap \in Nat \ {0} /\ Wrap \div 2 <= Wrap /\ now \in Nat /\ last \in Nat
      /\ LookAhead \in Nat /\ NFrames \in Nat /\ SleepFrames \in Nat
      /\ last <= now /\ now < last + NFrames /\ NFrames > 0
      /\ now <= MaxFrame /\ MaxFrame \in Nat
  BY FrameAssumption DEF TypeOK
<1>2. now + LookAhead \in Nat /\ now + LookAhead < Wrap
  BY <1>1, FrameAssumption DEF BeforeTheWrap
<1>3. Deadline = now + LookAhead
  <2>1. \A x \in Nat : x < Wrap => x % Wrap = x
    BY <1>1, ModFacts
  <2> QED
    BY <1>2, <2>1 DEF Deadline
<1>4. ASSUME NEW m \in Message
      PROVE  m.due \in Nat /\ m.time = m.due
  <2>1. m.due \in Nat /\ m.time = m.due % Wrap /\ m.due < Wrap
    BY QueuedAssumption DEF BeforeTheWrap
  <2>2. \A x \in Nat : x < Wrap => x % Wrap = x
    BY <1>1, ModFacts
  <2> QED
    BY <2>1, <2>2
<1> QED
  BY <1>1, <1>3, <1>4

(* The offset of the oldest message, in full. *)
LEMMA OffsetFacts ==
  ASSUME BeforeTheWrap, TypeOK, PassedIsDue, mRingbuffer # <<>>
  PROVE  Offset = Oldest.due + NFrames - last
<1> DEFINE x == Oldest.due + NFrames - last
<1>1. Oldest \in Message /\ Oldest \in InRing
  BY OldestFacts DEF InRing
<1>2. Oldest.due \in Nat /\ Oldest.time = Oldest.due
  BY <1>1, TimeFacts
<1>3. Oldest.due <= now + LookAhead
  BY <1>1 DEF PassedIsDue, Passed
<1>4. x \in Int /\ x <= 2 * NFrames + LookAhead /\ x >= -MaxFrame
      /\ MaxFrame + LookAhead + 2 * NFrames < Wrap \div 2
  BY <1>2, <1>3, FrameAssumption DEF TypeOK, BeforeTheWrap
<1>5. -(Wrap \div 2) <= x /\ x < Wrap \div 2
  <2>1. Wrap \div 2 \in Nat /\ MaxFrame \in Nat /\ LookAhead \in Nat /\ NFrames \in Nat
    BY FrameAssumption
  <2> HIDE DEF x
  <2> QED
    BY <2>1, <1>4
<1>6. Signed(x) = x
  BY <1>4, <1>5, SignedFacts
<1> QED
  BY <1>2, <1>6 DEF Offset

(* An earliest message of the heap is due first. *)
LEMMA EarliestFacts ==
  ASSUME BeforeTheWrap, TypeOK, NEW m, Heap!Earliest(m)
  PROVE  /\ m \in mMidiHeap /\ m \in Message /\ m.due \in Nat /\ m.time = m.due
         /\ \A n \in mMidiHeap : m.due <= n.due
<1>1. m \in mMidiHeap /\ \A n \in mMidiHeap : m.time <= n.time
  BY DEF Heap!Earliest
<1>2. mMidiHeap \subseteq Message
  BY DEF TypeOK
<1> QED
  BY <1>1, <1>2, TimeFacts

LEMMA ThreadKnowsInductive ==
  ASSUME BeforeTheWrap, TypeOK, ThreadKnows, [Next]_vars
  PROVE  ThreadKnows'
<1>1. ASSUME NEW m \in Message, QueueMidiEvent(m)
      PROVE  ThreadKnows'
  BY <1>1 DEF QueueMidiEvent, Heap!Insert, ThreadKnows, threadVars
<1>2. CASE PeekFirst
  BY <1>2, EarliestFacts DEF PeekFirst, Heap!PeekMin, Heap!Earliest, ThreadKnows
<1>3. CASE ComparePeeked
  <2>1. thread = "peeked" /\ picked \in mMidiHeap /\ picked \in Message
    BY <1>3 DEF ComparePeeked, ThreadKnows, TypeOK
  <2>2. CASE picked.time <= Deadline /\ thread' = "popping"
    BY <1>3, <2>1, <2>2, TimeFacts DEF ComparePeeked, ThreadKnows, heapVars
  <2>3. CASE thread' = "sleeping"
    BY <2>3 DEF ThreadKnows
  <2> QED
    BY <1>3, <2>2, <2>3 DEF ComparePeeked, Compare, Sleep
<1>4. CASE ClockFirst
  BY <1>4, TimeFacts DEF ClockFirst, ThreadKnows
<1>5. CASE PeekClocked
  <2>1. PICK m \in Message : Heap!PeekMin(m) /\ Compare(m, deadline)
    BY <1>5 DEF PeekClocked
  <2>2. m \in mMidiHeap /\ m.due \in Nat /\ m.time = m.due
    BY <2>1, EarliestFacts DEF Heap!PeekMin
  <2>3. deadline \in Nat /\ deadline <= now + LookAhead
    BY <1>5, FrameAssumption DEF PeekClocked, ThreadKnows, TypeOK
  <2>4. CASE m.time <= deadline /\ thread' = "popping"
    <3>1. m.due <= now + LookAhead
      BY <2>2, <2>3, <2>4, TimeFacts
    <3> QED
      BY <1>5, <2>1, <2>2, <2>4, <3>1 DEF PeekClocked, ThreadKnows, Heap!PeekMin
  <2>5. CASE thread' = "sleeping"
    BY <2>5 DEF ThreadKnows
  <2> QED
    BY <2>1, <2>4, <2>5 DEF Compare, Sleep
<1>6. CASE PopDue \/ WritePopped \/ Wake
  BY <1>6 DEF PopDue, WritePopped, Wake, ThreadKnows
<1>7. CASE CallbackStart \/ CallbackRead \/ CallbackEnd \/ StopPlaying \/ ClockStops
           \/ UNCHANGED vars
  <2>1. UNCHANGED <<mMidiHeap, picked, thread, deadline, now>>
    BY <1>7 DEF CallbackStart, CallbackRead, CallbackEnd, StopPlaying, ClockStops, vars,
                heapVars, threadVars
  <2> QED
    BY <2>1 DEF ThreadKnows
<1>8. CASE Tick
  <2>1. UNCHANGED <<mMidiHeap, picked, thread, deadline>> /\ now' = now + 1
    BY <1>8 DEF Tick, heapVars, threadVars
  <2>2. deadline \in Nat /\ \A m \in mMidiHeap : m.due \in Nat
    BY TimeFacts, FrameAssumption DEF TypeOK
  <2> QED
    BY <2>1, <2>2, TimeFacts DEF ThreadKnows
<1> QED
  BY <1>1, <1>2, <1>3, <1>4, <1>5, <1>6, <1>7, <1>8 DEF Next

(* What the thread pops is due: another message may be earlier by now than *)
(* the one it compared, none is later.                                     *)
LEMMA PopFacts ==
  ASSUME BeforeTheWrap, TypeOK, ThreadKnows, PopDue
  PROVE  /\ InFlight = {} /\ InFlight' = {picked'} /\ picked' \in mMidiHeap
         /\ mMidiHeap' = mMidiHeap \ {picked'}
         /\ InRing' = InRing /\ Heard' = Heard
         /\ UNCHANGED <<mRingbuffer, now, jackVars, history>>
         /\ picked'.due \in Nat /\ picked'.due <= now + LookAhead
         /\ \A n \in mMidiHeap : picked'.due <= n.due
<1>1. PICK m \in Message : Heap!PopMin(m)
  BY DEF PopDue
<1>2. /\ picked' = m /\ m \in mMidiHeap /\ m.due \in Nat /\ mMidiHeap' = mMidiHeap \ {m}
      /\ \A n \in mMidiHeap : m.due <= n.due
  BY <1>1, EarliestFacts DEF Heap!PopMin
<1>3. PICK n \in mMidiHeap : n.due <= now + LookAhead
  BY DEF PopDue, ThreadKnows
<1>4. m.due <= now + LookAhead
  <2>1. n.due \in Nat /\ now + LookAhead \in Nat
    BY TimeFacts DEF TypeOK
  <2> QED
    BY <1>2, <1>3, <2>1
<1> QED
  BY <1>2, <1>4 DEF PopDue, InFlight, InRing, Heard, history

LEMMA PassedIsDueInductive ==
  ASSUME BeforeTheWrap, Placed, ThreadKnows, PassedIsDue, [Next]_vars
  PROVE  PassedIsDue'
<1>0. TypeOK /\ now' \in Nat /\ now \in Nat /\ now <= now' /\ LookAhead \in Nat
  BY ClockGrows DEF Placed
<1>1. \A m \in Passed : m \in Message /\ m.due \in Nat
  <2>1. Passed \subseteq Message
    BY PlacedFacts DEF Passed, TypeOK
  <2> QED
    BY <2>1, <1>0, TimeFacts
<1>2. ASSUME Passed' \subseteq Passed
      PROVE  PassedIsDue'
  BY <1>0, <1>1, <1>2 DEF PassedIsDue
<1>3. ASSUME NEW m \in Message, QueueMidiEvent(m)
      PROVE  Passed' \subseteq Passed
  BY <1>3 DEF QueueMidiEvent, Passed, InFlight, InRing, Heard, threadVars, Heap!Insert
<1>4. CASE PopDue
  <2>1. Passed' = Passed \cup {picked'} /\ picked'.due <= now + LookAhead /\ now' = now
    BY <1>0, <1>4, PopFacts DEF Passed
  <2> QED
    BY <2>1 DEF PassedIsDue
<1>5. CASE WritePopped
  <2>1. /\ InFlight' = {} /\ InFlight = {picked} /\ Heard' = Heard
        /\ picked \in Message
    BY <1>5, PlacedFacts DEF WritePopped, InFlight, Heard
  <2>2. InRing' \subseteq InRing \cup {picked}
    <3>1. CASE mRingbuffer' = Append(mRingbuffer, picked)
      BY <1>0, <2>1, <3>1, RingAppended
    <3>2. CASE mRingbuffer' = mRingbuffer
      BY <3>2 DEF InRing
    <3> QED
      BY <1>5, <3>1, <3>2 DEF WritePopped, WriteMidiData
  <2>3. Passed' \subseteq Passed
    BY <2>1, <2>2 DEF Passed
  <2> QED
    BY <2>3, <1>2
<1>6. CASE CallbackRead
  <2>1. InFlight' = InFlight /\ InRing = InRing' \cup {Oldest} /\ Heard' \subseteq Heard \cup {Oldest}
    BY <1>6, ReadFacts
  <2>2. Passed' \subseteq Passed
    BY <2>1 DEF Passed
  <2> QED
    BY <2>2, <1>2
<1>7. CASE Stays
  BY <1>7, <1>2 DEF Stays, Passed
<1> QED
  BY <1>2, <1>3, <1>4, <1>5, <1>6, <1>7, MovingSteps

(* What WritePopped does to the places. *)
LEMMA WriteFacts ==
  ASSUME Placed, WritePopped
  PROVE  /\ InFlight = {picked} /\ InFlight' = {} /\ picked \in Message
         /\ Heard' = Heard
         /\ UNCHANGED <<mMidiHeap, queued, late, heard, now, jackVars, gPlaying, delayed>>
         /\ \/ /\ HasSpace /\ mRingbuffer' = Append(mRingbuffer, picked)
               /\ InRing' = InRing \cup {picked} /\ lost' = lost
            \/ /\ ~HasSpace /\ lost' = lost \cup {picked}
               /\ InRing' = InRing /\ mRingbuffer' = mRingbuffer
<1>1. /\ InFlight = {picked} /\ InFlight' = {} /\ picked \in Message /\ TypeOK
      /\ Heard' = Heard
      /\ UNCHANGED <<mMidiHeap, queued, late, heard, now, jackVars, gPlaying, delayed>>
  BY PlacedFacts DEF WritePopped, InFlight, Heard, heapVars
<1>2. CASE HasSpace /\ mRingbuffer' = Append(mRingbuffer, picked) /\ lost' = lost
  BY <1>1, <1>2, RingAppended
<1>3. CASE ~HasSpace /\ mRingbuffer' = mRingbuffer /\ lost' = lost \cup {picked}
  BY <1>1, <1>3 DEF InRing
<1> QED
  BY <1>1, <1>2, <1>3 DEF WritePopped, WriteMidiData

(* Each place gives to the next one only what is due before what it keeps. *)
LEMMA PassedInOrderInductive ==
  ASSUME BeforeTheWrap, Placed, ThreadKnows, PassedIsDue, PassedInOrder, [Next]_vars
  PROVE  PassedInOrder'
<1> SUFFICES ASSUME late' = {}
             PROVE  /\ Before(Heard', mMidiHeap' \cup InFlight' \cup InRing')
                    /\ Before(InRing', mMidiHeap' \cup InFlight')
                    /\ Before(InFlight', mMidiHeap')
                    /\ \A j, k \in DOMAIN mRingbuffer' :
                         j < k => mRingbuffer'[j].due <= mRingbuffer'[k].due
  BY DEF PassedInOrder, RingInOrder, Before
<1>0. /\ TypeOK /\ now \in Nat /\ LookAhead \in Nat
      /\ \A m \in Message : m.due \in Nat
  BY TimeFacts DEF Placed
<1>a. ASSUME late = {}
      PROVE  /\ Before(Heard, mMidiHeap \cup InFlight \cup InRing)
             /\ Before(InRing, mMidiHeap \cup InFlight)
             /\ Before(InFlight, mMidiHeap)
             /\ \A j, k \in DOMAIN mRingbuffer :
                  j < k => mRingbuffer[j].due <= mRingbuffer[k].due
  BY <1>a DEF PassedInOrder, RingInOrder
<1>1. ASSUME NEW m \in Message, QueueMidiEvent(m)
      PROVE  /\ Before(Heard', mMidiHeap' \cup InFlight' \cup InRing')
             /\ Before(InRing', mMidiHeap' \cup InFlight')
             /\ Before(InFlight', mMidiHeap')
             /\ \A j, k \in DOMAIN mRingbuffer' :
                  j < k => mRingbuffer'[j].due <= mRingbuffer'[k].due
  <2>1. late = {} /\ m.due > now + LookAhead /\ m.due \in Nat
    BY <1>0, <1>1 DEF QueueMidiEvent
  <2>2. /\ mMidiHeap' = mMidiHeap \cup {m} /\ mRingbuffer' = mRingbuffer
        /\ InFlight' = InFlight /\ InRing' = InRing /\ Heard' = Heard
    BY <1>1 DEF QueueMidiEvent, Heap!Insert, InFlight, InRing, Heard, threadVars
  <2>3. \A n \in Passed : n.due <= m.due
    <3>1. Passed \subseteq Message
      BY PlacedFacts DEF Passed, TypeOK
    <3> QED
      BY <1>0, <2>1, <3>1 DEF PassedIsDue
  <2> QED
    BY <1>a, <2>1, <2>2, <2>3 DEF Before, Passed
<1>2. CASE PopDue
  <2>1. late = {}
    BY <1>2, <1>0, PopFacts DEF history
  <2> QED
    BY <1>a, <1>0, <1>2, <2>1, PopFacts DEF Before
<1>3. CASE WritePopped
  <2>1. /\ late = {} /\ mMidiHeap' = mMidiHeap /\ Heard' = Heard /\ InFlight = {picked}
        /\ InFlight' = {} /\ picked \in Message
    BY <1>3, WriteFacts
  <2>2. CASE mRingbuffer' = Append(mRingbuffer, picked) /\ InRing' = InRing \cup {picked}
    <3>1. /\ Before(Heard', mMidiHeap' \cup InFlight' \cup InRing')
          /\ Before(InRing', mMidiHeap' \cup InFlight')
          /\ Before(InFlight', mMidiHeap')
      BY <1>a, <2>1, <2>2 DEF Before
    <3>2. /\ Len(mRingbuffer) \in Nat
          /\ DOMAIN mRingbuffer = 1 .. Len(mRingbuffer)
          /\ DOMAIN mRingbuffer' = 1 .. Len(mRingbuffer) + 1
          /\ \A k \in 1 .. Len(mRingbuffer) : mRingbuffer'[k] = mRingbuffer[k]
          /\ mRingbuffer'[Len(mRingbuffer) + 1] = picked
      BY <1>0, <2>1, <2>2, RingAppended
    <3>3. \A k \in 1 .. Len(mRingbuffer) : mRingbuffer[k].due <= picked.due
      BY <1>a, <2>1, <3>2 DEF Before, InRing
    <3>4. ASSUME NEW j \in DOMAIN mRingbuffer', NEW k \in DOMAIN mRingbuffer', j < k
          PROVE  mRingbuffer'[j].due <= mRingbuffer'[k].due
      <4>1. j \in 1 .. Len(mRingbuffer)
        BY <3>2, <3>4
      <4>2. CASE k \in 1 .. Len(mRingbuffer)
        BY <1>a, <2>1, <3>2, <3>4, <4>1, <4>2
      <4>3. CASE k = Len(mRingbuffer) + 1
        BY <3>2, <3>3, <4>1, <4>3
      <4> QED
        BY <3>2, <4>2, <4>3
    <3> QED
      BY <3>1, <3>4
  <2>3. CASE mRingbuffer' = mRingbuffer /\ InRing' = InRing
    BY <1>a, <2>1, <2>3 DEF Before
  <2> QED
    BY <1>3, <2>2, <2>3, WriteFacts
<1>4. CASE CallbackRead
  <2>1. /\ late = {} /\ mMidiHeap' = mMidiHeap /\ InFlight' = InFlight
        /\ Heard' \subseteq Heard \cup {Oldest} /\ InRing = InRing' \cup {Oldest}
        /\ mRingbuffer # <<>> /\ mRingbuffer' = Advanced
    BY <1>4, ReadFacts
  <2>2. /\ Len(mRingbuffer) \in Nat /\ Len(mRingbuffer) >= 1
        /\ DOMAIN mRingbuffer = 1 .. Len(mRingbuffer)
        /\ DOMAIN mRingbuffer' = 1 .. Len(mRingbuffer) - 1
        /\ \A k \in 1 .. Len(mRingbuffer) - 1 : mRingbuffer'[k] = mRingbuffer[k + 1]
    BY <1>0, <2>1, RingAdvanced
  <2>3. ASSUME NEW n \in InRing'
        PROVE  Oldest.due <= n.due
    <3>1. PICK k \in 1 .. Len(mRingbuffer) - 1 : n = mRingbuffer[k + 1]
      BY <2>2, <2>3 DEF InRing
    <3>2. 1 \in DOMAIN mRingbuffer /\ k + 1 \in DOMAIN mRingbuffer /\ 1 < k + 1
      BY <2>2
    <3> QED
      BY <1>a, <2>1, <3>1, <3>2 DEF Oldest
  <2>4. ASSUME NEW j \in DOMAIN mRingbuffer', NEW k \in DOMAIN mRingbuffer', j < k
        PROVE  mRingbuffer'[j].due <= mRingbuffer'[k].due
    <3>1. j + 1 \in DOMAIN mRingbuffer /\ k + 1 \in DOMAIN mRingbuffer /\ j + 1 < k + 1
      BY <2>2, <2>4
    <3>2. mRingbuffer[j + 1].due <= mRingbuffer[k + 1].due
      BY <1>a, <2>1, <3>1
    <3> QED
      BY <2>2, <3>2
  <2>5. Before(Heard', mMidiHeap' \cup InFlight' \cup InRing')
    BY <1>a, <2>1, <2>3 DEF Before
  <2>6. Before(InRing', mMidiHeap' \cup InFlight') /\ Before(InFlight', mMidiHeap')
    BY <1>a, <2>1 DEF Before
  <2> QED
    BY <2>4, <2>5, <2>6
<1>5. CASE Stays
  BY <1>a, <1>5 DEF Stays, Before
<1> QED
  BY <1>1, <1>2, <1>3, <1>4, <1>5, MovingSteps
-----------------------------------------------------------------------------
(* What is heard, and when. *)

(* A message that JACK takes is one more, at the offset of its frame. *)
LEMMA SoundFacts ==
  ASSUME BeforeTheWrap, Placed, PassedIsDue, CallbackRead, heard' # heard
  PROVE  \E p \in Port, t \in 0 .. NFrames - 1 :
           /\ t = Clipped(Oldest.due + NFrames - last)
           /\ heard' = heard \cup {[msg |-> Oldest, frame |-> last + t]}
           /\ Cardinality(heard') = Cardinality(heard) + 1
           /\ events' = [events EXCEPT ![p] = Append(@, t)]
           /\ callback' = "running" /\ lost' = lost
<1> DEFINE p == IF Oldest.port = NoPort THEN DefaultPort ELSE Oldest.port
           t == Clipped(Offset)
           new == [msg |-> Oldest, frame |-> last + t]
<1>1. /\ p \in Port /\ t \in 0 .. NFrames - 1 /\ mRingbuffer # <<>> /\ Oldest \in InRing
      /\ heard' = heard \cup {new}
      /\ events' = [events EXCEPT ![p] = Append(@, t)]
      /\ callback' = "running" /\ lost' = lost
  BY ReadFacts
<1>2. t = Clipped(Oldest.due + NFrames - last)
  BY <1>1, OffsetFacts DEF Placed
<1>3. new \notin heard
  <2>1. Oldest \notin Heard /\ new.msg = Oldest
    BY <1>1 DEF Placed, OnePlace
  <2> HIDE DEF new
  <2> QED
    BY <2>1 DEF Heard
<1> HIDE DEF p, t
<1>4. Cardinality(heard') = Cardinality(heard) + 1
  BY <1>1, <1>3, PlacedFacts, FS_AddElement
<1> QED
  BY <1>1, <1>2, <1>4

(* Every other step leaves JACK's messages alone. *)
LEMMA HeardSteps ==
  ASSUME [Next]_vars, heard' # heard
  PROVE  CallbackRead
<1>1. ASSUME NEW m \in Message, QueueMidiEvent(m)
      PROVE  heard' = heard
  BY <1>1 DEF QueueMidiEvent
<1>2. CASE PopDue \/ WritePopped
  BY <1>2 DEF PopDue, WritePopped, history
<1>3. CASE Stays
  BY <1>3 DEF Stays
<1> QED
  BY <1>1, <1>2, <1>3, MovingSteps

(* And the buffers of the ports, but for the start of the callback. *)
LEMMA EventsSteps ==
  ASSUME [Next]_vars
  PROVE  \/ CallbackStart \/ CallbackRead
         \/ Tick
         \/ /\ UNCHANGED <<events, last>>
            /\ callback' = callback \/ callback' = "done"
<1>1. ASSUME NEW m \in Message, QueueMidiEvent(m)
      PROVE  UNCHANGED jackVars
  BY <1>1 DEF QueueMidiEvent
<1>2. CASE PeekFirst \/ ComparePeeked \/ ClockFirst \/ PeekClocked \/ Wake \/ PopDue
           \/ WritePopped
  BY <1>2 DEF PeekFirst, ComparePeeked, ClockFirst, PeekClocked, Wake, PopDue, WritePopped,
              jackVars
<1>3. CASE CallbackEnd
  BY <1>3 DEF CallbackEnd
<1>4. CASE StopPlaying \/ ClockStops \/ UNCHANGED vars
  BY <1>4 DEF StopPlaying, ClockStops, vars, jackVars
<1> QED
  BY <1>1, <1>2, <1>3, <1>4 DEF Next, jackVars

LEMMA EventsAreHeardInductive ==
  ASSUME BeforeTheWrap, Placed, PassedIsDue, EventsAreHeard, [Next]_vars
  PROVE  EventsAreHeard'
<1>0. /\ TypeOK /\ IsFiniteSet(heard) /\ Cardinality(heard) \in Nat
      /\ \A p \in Port : /\ events[p] \in Seq(0 .. NFrames - 1) /\ Len(events[p]) \in Nat
                         /\ DOMAIN events[p] = 1 .. Len(events[p])
  BY PlacedFacts DEF TypeOK
<1>1. CASE CallbackStart
  BY <1>0, <1>1 DEF CallbackStart, EventsAreHeard, history
<1>2. CASE CallbackRead /\ heard' # heard
  <2>1. PICK q \in Port, t \in 0 .. NFrames - 1 :
           /\ t = Clipped(Oldest.due + NFrames - last)
           /\ heard' = heard \cup {[msg |-> Oldest, frame |-> last + t]}
           /\ Cardinality(heard') = Cardinality(heard) + 1
           /\ events' = [events EXCEPT ![q] = Append(@, t)]
           /\ callback' = "running"
    BY <1>2, SoundFacts
  <2>2. callback = "running" /\ last' = last
    BY <1>2 DEF CallbackRead
  <2>3. \E h \in heard' : h.msg = Oldest
    <3> DEFINE new == [msg |-> Oldest, frame |-> last + t]
    <3>1. new.msg = Oldest
      OBVIOUS
    <3>2. new \in heard'
      BY <2>1
    <3> QED
      BY <3>1, <3>2
  <2> SUFFICES ASSUME NEW p \in Port
               PROVE  /\ Len(events'[p]) <= Cardinality(heard')
                      /\ \A k \in DOMAIN events'[p] : \E h \in heard' :
                           events'[p][k] = Clipped(h.msg.due + NFrames - last)
    BY <2>2 DEF EventsAreHeard
  <2>4. CASE p # q
    <3>1. events'[p] = events[p]
      BY <1>0, <2>1, <2>4 DEF TypeOK
    <3>2. Len(events[p]) <= Cardinality(heard')
      BY <1>0, <2>1 DEF EventsAreHeard
    <3>3. \A k \in DOMAIN events[p] : \E h \in heard :
            events[p][k] = Clipped(h.msg.due + NFrames - last)
      BY <2>2 DEF EventsAreHeard
    <3>4. heard \subseteq heard'
      BY <2>1
    <3> QED
      BY <3>1, <3>2, <3>3, <3>4
  <2>5. CASE p = q
    <3>1. events'[p] = Append(events[p], t)
      BY <1>0, <2>1, <2>5 DEF TypeOK
    <3>2. /\ Len(events'[p]) = Len(events[p]) + 1
          /\ DOMAIN events'[p] = 1 .. Len(events[p]) + 1
          /\ \A k \in 1 .. Len(events[p]) : events'[p][k] = events[p][k]
          /\ events'[p][Len(events[p]) + 1] = t
      BY <1>0, <3>1
    <3>3. ASSUME NEW k \in DOMAIN events'[p]
          PROVE  \E h \in heard' : events'[p][k] = Clipped(h.msg.due + NFrames - last)
      <4>1. CASE k \in 1 .. Len(events[p])
        BY <1>0, <2>1, <2>2, <3>2, <4>1 DEF EventsAreHeard
      <4>2. CASE k = Len(events[p]) + 1
        BY <2>1, <2>3, <3>2, <4>2
      <4> QED
        BY <1>0, <3>2, <4>1, <4>2
    <3>4. Len(events'[p]) <= Cardinality(heard')
      BY <1>0, <2>1, <3>2 DEF EventsAreHeard
    <3> QED
      BY <3>3, <3>4
  <2> QED
    BY <2>4, <2>5
<1>3. CASE CallbackRead /\ heard' = heard
  <2>1. events' = events /\ callback' = "done"
    <3>1. Oldest \notin Heard
      BY <1>3, ReadFacts DEF Placed, OnePlace
    <3>2. Heard' = Heard
      BY <1>3 DEF Heard
    <3> QED
      BY <1>3, <3>1, <3>2, ReadFacts
  <2> QED
    BY <1>3, <2>1 DEF EventsAreHeard
<1>4. CASE ~CallbackStart /\ ~CallbackRead
  <2>1. heard' = heard
    BY <1>4, HeardSteps
  <2>2. events' = events /\ (callback' = "running" => callback = "running" /\ last' = last)
    BY <1>4, EventsSteps DEF Tick
  <2> QED
    BY <2>1, <2>2 DEF EventsAreHeard
<1> QED
  BY <1>1, <1>2, <1>3, <1>4

(* Who is clipped is not before who is not. *)
LEMMA ClippedMonotone ==
  ASSUME NEW s \in Int, NEW t \in Int, s <= t
  PROVE  Clipped(s) <= Clipped(t)
BY DEF Clipped

LEMMA KeptInductive ==
  ASSUME BeforeTheWrap, Placed, PassedIsDue, PassedInOrder, EventsAreHeard, KeptIfInTime,
         [Next]_vars
  PROVE  KeptIfInTime'
<1> SUFFICES ASSUME late' = {}, Cardinality(queued') <= RingCapacity,
                    Cardinality(queued') <= PortSpace
             PROVE  lost' = {}
  BY DEF KeptIfInTime
<1>0. /\ TypeOK /\ Cardinality(queued) \in Nat /\ Len(mRingbuffer) \in Nat
      /\ Cardinality(heard) \in Nat
      /\ RingCapacity \in Nat /\ PortSpace \in Nat
      /\ now \in Nat /\ last \in Nat /\ NFrames \in Nat
  BY PlacedFacts, CapacityAssumption, TimeFacts
<1>1. ASSUME NEW m \in Message, QueueMidiEvent(m)
      PROVE  lost' = {}
  <2>1. late = {} /\ lost' = lost
    BY <1>1 DEF QueueMidiEvent
  <2>2. Cardinality(queued') = Cardinality(queued) + 1
    BY <1>1, PlacedFacts, FS_AddElement DEF QueueMidiEvent
  <2> QED
    BY <1>0, <2>1, <2>2 DEF KeptIfInTime
<1>2. ASSUME UNCHANGED <<queued, late>>
      PROVE  late = {} /\ lost = {} /\ Cardinality(queued) <= RingCapacity
             /\ Cardinality(queued) <= PortSpace
  BY <1>2 DEF KeptIfInTime
<1>3. CASE PopDue
  BY <1>2, <1>3 DEF PopDue, history
<1>4. CASE WritePopped
  <2>1. /\ lost = {} /\ Cardinality(queued) <= RingCapacity
    BY <1>2, <1>4, WriteFacts
  <2>2. Cardinality(queued) >= 1 + Len(mRingbuffer)
    <3>1. Cardinality(InFlight) = 1 /\ Cardinality(mMidiHeap) \in Nat /\ Cardinality(lost) \in Nat
      BY <1>4, PlacedFacts DEF WritePopped
    <3> QED
      BY <1>0, <3>1 DEF Placed, AccountedFor
  <2>3. HasSpace
    BY <1>0, <2>1, <2>2 DEF HasSpace
  <2> QED
    BY <1>4, <2>1, <2>3, WriteFacts
<1>5. CASE CallbackRead
  <2> DEFINE p == IF Oldest.port = NoPort THEN DefaultPort ELSE Oldest.port
             t == Clipped(Offset)
  <2>1. /\ late = {} /\ lost = {} /\ Cardinality(queued) <= PortSpace
        /\ callback = "running" /\ mRingbuffer # <<>> /\ Oldest \in InRing
        /\ Oldest.due \in Nat
        /\ p \in Port /\ t \in 0 .. NFrames - 1
        /\ lost' = lost \/ ~CanReserve(p, t)
    BY <1>2, <1>5, ReadFacts
  <2>2. t = Clipped(Oldest.due + NFrames - last)
    BY <1>0, <2>1, OffsetFacts
  <2> HIDE DEF p, t
  <2>3. Len(events[p]) < PortSpace
    <3>1. Cardinality(queued) >= Cardinality(heard) + Len(mRingbuffer)
      <4>1. /\ Cardinality(InFlight) \in Nat /\ Cardinality(mMidiHeap) \in Nat
            /\ Cardinality(lost) \in Nat
        BY PlacedFacts
      <4> QED
        BY <1>0, <4>1 DEF Placed, AccountedFor
    <3>2. Len(mRingbuffer) >= 1
      BY <1>0, <2>1, OldestFacts
    <3>3. Len(events[p]) \in Nat /\ Len(events[p]) <= Cardinality(heard)
      BY <1>0, <2>1 DEF EventsAreHeard, TypeOK
    <3> QED
      BY <1>0, <2>1, <3>1, <3>2, <3>3
  <2>4. events[p] # <<>> => events[p][Len(events[p])] <= t
    <3> SUFFICES ASSUME events[p] # <<>>
                 PROVE  events[p][Len(events[p])] <= t
      OBVIOUS
    <3>1. Len(events[p]) \in DOMAIN events[p]
      BY <1>0, <2>1 DEF TypeOK
    <3>2. PICK h \in heard :
            events[p][Len(events[p])] = Clipped(h.msg.due + NFrames - last)
      BY <2>1, <3>1 DEF EventsAreHeard
    <3>3. h.msg \in Message /\ h.msg.due \in Nat
      BY <1>0, TimeFacts DEF TypeOK
    <3>4. h.msg.due <= Oldest.due
      BY <2>1 DEF PassedInOrder, Before, Heard
    <3> QED
      BY <1>0, <2>1, <2>2, <3>2, <3>3, <3>4, ClippedMonotone
  <2>5. CanReserve(p, t)
    BY <1>0, <2>1, <2>3, <2>4 DEF CanReserve
  <2> QED
    BY <2>1, <2>5
<1>6. CASE Stays
  BY <1>2, <1>6 DEF Stays
<1> QED
  BY <1>1, <1>3, <1>4, <1>5, <1>6, MovingSteps

LEMMA HeardInductive ==
  ASSUME BeforeTheWrap, Placed, PassedIsDue, NotEarly, HeardAtItsFrame, [Next]_vars
  PROVE  NotEarly' /\ HeardAtItsFrame'
<1>0. /\ TypeOK /\ last \in Nat /\ last' \in Nat /\ last <= last' /\ NFrames \in Nat
  BY ClockGrows DEF Placed
<1>1. \A h \in heard : h.frame \in Nat /\ h.msg.due \in Nat
  BY <1>0, TimeFacts DEF TypeOK
<1>2. \A h \in heard : /\ h.frame >= h.msg.due + NFrames
                       /\ h.frame <= last' \/ h.frame = h.msg.due + NFrames
  BY <1>0, <1>1 DEF NotEarly, HeardAtItsFrame
<1>3. CASE heard' = heard
  BY <1>2, <1>3 DEF NotEarly, HeardAtItsFrame
<1>4. CASE heard' # heard
  <2>1. CallbackRead
    BY <1>4, HeardSteps
  <2>2. PICK t \in 0 .. NFrames - 1 :
          /\ t = Clipped(Oldest.due + NFrames - last)
          /\ heard' = heard \cup {[msg |-> Oldest, frame |-> last + t]}
    BY <1>4, <2>1, SoundFacts
  <2>3. Oldest.due \in Nat /\ last' = last
    BY <2>1, ReadFacts DEF CallbackRead
  <2>4. last + t >= Oldest.due + NFrames /\ (last + t <= last \/ last + t = Oldest.due + NFrames)
    BY <1>0, <2>2, <2>3 DEF Clipped
  <2> QED
    BY <1>2, <2>2, <2>3, <2>4 DEF NotEarly, HeardAtItsFrame
<1> QED
  BY <1>3, <1>4
-----------------------------------------------------------------------------
(* The thread keeps up with the clock.                                     *)

(* Nobody takes back what makes InTime idle. *)
LEMMA InTimeSteps ==
  ASSUME TypeOK, InTime, [Next]_vars, ~delayed', late' = {}
  PROVE  /\ ~delayed /\ late = {} /\ HeapInTime /\ SleepsInTime /\ ReadsInTime
         /\ lost' = {} => lost = {} /\ RingInTime
<1>1. ~delayed
  <2>1. CASE Tick
    <3>1. delayed' = (delayed \/ ~ThreadRests)
      BY <2>1 DEF Tick
    <3> QED
      BY <3>1, Zenon
  <2>2. CASE UNCHANGED <<now, last, delayed>>
    BY <2>2
  <2> QED
    BY <2>1, <2>2, ClockSteps
<1>2. late = {} /\ (lost' = {} => lost = {})
  <2>1. CASE \E m \in Message : QueueMidiEvent(m)
    BY <2>1 DEF QueueMidiEvent
  <2>2. CASE PopDue \/ WritePopped
    BY <2>2 DEF PopDue, WritePopped, WriteMidiData, history
  <2>3. CASE CallbackRead
    BY <2>3 DEF CallbackRead
  <2>4. CASE Stays
    BY <2>4 DEF Stays
  <2> QED
    BY <2>1, <2>2, <2>3, <2>4, MovingSteps
<1> QED
  BY <1>1, <1>2 DEF InTime

(* A message that is not late is due after all that was read of the clock. *)
LEMMA QueueInTime ==
  ASSUME BeforeTheWrap, TypeOK, HeapInTime, SleepsInTime, ReadsInTime,
         NEW m \in Message, QueueMidiEvent(m), late' = {}
  PROVE  HeapInTime' /\ SleepsInTime' /\ ReadsInTime'
<1>1. /\ m.due \in Nat /\ m.due > now + LookAhead
      /\ now \in Nat /\ last \in Nat /\ LookAhead \in Nat /\ SleepFrames \in Nat
      /\ last <= now /\ wakeAt \in Int
  <2>1. /\ m.due \in Nat /\ now \in Nat /\ last \in Nat /\ LookAhead \in Nat
        /\ SleepFrames \in Nat /\ last <= now
    BY TimeFacts
  <2> QED
    BY <2>1 DEF QueueMidiEvent, TypeOK
<1>2. /\ mMidiHeap' = mMidiHeap \cup {m} /\ InFlight' = InFlight
      /\ UNCHANGED <<picked, thread, deadline, wakeAt, now, last>>
  BY DEF QueueMidiEvent, Heap!Insert, InFlight, threadVars, jackVars
<1>3. HeapInTime'
  BY <1>1, <1>2 DEF HeapInTime
<1>4. SleepsInTime'
  BY <1>1, <1>2 DEF SleepsInTime
<1>5. ReadsInTime'
  BY <1>1, <1>2 DEF ReadsInTime
<1> QED
  BY <1>3, <1>4, <1>5

(* The thread goes to sleep only when nothing is due for LookAhead frames. *)
LEMMA ThreadInTime ==
  ASSUME BeforeTheWrap, TypeOK, ThreadKnows, HeapInTime, SleepsInTime, ReadsInTime,
         PeekFirst \/ ComparePeeked \/ ClockFirst \/ PeekClocked \/ PopDue \/ WritePopped
           \/ Wake
  PROVE  HeapInTime' /\ SleepsInTime' /\ ReadsInTime'
<1>0. /\ now \in Nat /\ last \in Nat /\ LookAhead \in Nat /\ SleepFrames \in Nat
      /\ Deadline = now + LookAhead
      /\ \A m \in mMidiHeap : m \in Message /\ m.due \in Nat /\ m.time = m.due
  BY TimeFacts DEF TypeOK
<1>1. CASE PeekFirst
  <2>1. PICK m \in Message : Heap!PeekMin(m)
    BY <1>1 DEF PeekFirst
  <2>2. /\ \A n \in mMidiHeap : m.due <= n.due
        /\ picked' = m /\ mMidiHeap' = mMidiHeap /\ m.due \in Nat
    BY <2>1, EarliestFacts DEF Heap!PeekMin
  <2>3. InFlight = {} /\ InFlight' = {} /\ thread = "looping" /\ thread' = "peeked"
        /\ last' = last /\ now' = now
    BY <1>1 DEF PeekFirst, InFlight, jackVars
  <2> QED
    BY <1>0, <2>2, <2>3 DEF HeapInTime, SleepsInTime, ReadsInTime
<1>2. CASE ComparePeeked
  <2>1. /\ thread = "peeked" /\ InFlight' = {} /\ picked \in mMidiHeap
        /\ UNCHANGED <<mMidiHeap, now, last>>
    BY <1>2 DEF ComparePeeked, Compare, Sleep, InFlight, heapVars, jackVars, ThreadKnows
  <2>2. HeapInTime'
    BY <2>1 DEF HeapInTime
  <2>3. CASE thread' = "popping"
    BY <2>2, <2>3 DEF SleepsInTime, ReadsInTime
  <2>4. CASE thread' = "sleeping" /\ wakeAt' = now + SleepFrames /\ picked.time > Deadline
    <3>1. \A m \in mMidiHeap : m.due > now + LookAhead
      BY <1>0, <2>1, <2>4 DEF ReadsInTime
    <3> QED
      BY <1>0, <2>1, <2>2, <2>4, <3>1 DEF SleepsInTime, ReadsInTime
  <2> QED
    BY <1>2, <2>3, <2>4 DEF ComparePeeked, Compare, Sleep
<1>3. CASE ClockFirst
  BY <1>0, <1>3
     DEF ClockFirst, heapVars, jackVars, InFlight, HeapInTime, SleepsInTime, ReadsInTime
<1>4. CASE PeekClocked
  <2>1. PICK m \in Message : Heap!PeekMin(m) /\ Compare(m, deadline)
    BY <1>4 DEF PeekClocked
  <2>2. /\ m \in mMidiHeap /\ \A n \in mMidiHeap : m.due <= n.due
        /\ mMidiHeap' = mMidiHeap
    BY <2>1, EarliestFacts DEF Heap!PeekMin
  <2>3. thread = "clocked" /\ InFlight' = {} /\ UNCHANGED <<now, last>>
    BY <1>4 DEF PeekClocked, Compare, Sleep, InFlight, jackVars
  <2>4. HeapInTime'
    BY <2>2, <2>3 DEF HeapInTime
  <2>5. CASE thread' = "popping"
    BY <2>4, <2>5 DEF SleepsInTime, ReadsInTime
  <2>6. CASE thread' = "sleeping" /\ wakeAt' = now + SleepFrames /\ m.time > deadline
    <3>1. \A n \in mMidiHeap : n.due > now + LookAhead
      BY <1>0, <2>2, <2>3, <2>6 DEF ReadsInTime
    <3> QED
      BY <1>0, <2>2, <2>3, <2>4, <2>6, <3>1 DEF SleepsInTime, ReadsInTime
  <2> QED
    BY <2>1, <2>5, <2>6 DEF Compare, Sleep
<1>5. CASE PopDue
  <2>1. /\ thread = "popping" /\ thread' = "writing" /\ last' = last
        /\ mMidiHeap' \cup InFlight' \subseteq mMidiHeap
    BY <1>5, PopFacts DEF PopDue, jackVars
  <2> QED
    BY <2>1 DEF HeapInTime, SleepsInTime, ReadsInTime
<1>6. CASE WritePopped
  <2>1. /\ thread = "writing" /\ thread' = "looping" /\ last' = last
        /\ mMidiHeap' \cup InFlight' \subseteq mMidiHeap
    BY <1>6 DEF WritePopped, jackVars, heapVars, InFlight
  <2> QED
    BY <2>1 DEF HeapInTime, SleepsInTime, ReadsInTime
<1>7. CASE Wake
  <2>1. /\ thread = "sleeping" /\ thread' \in {"looping", "returned"} /\ last' = last
        /\ mMidiHeap' \cup InFlight' \subseteq mMidiHeap
    BY <1>7 DEF Wake, jackVars, heapVars, InFlight
  <2> QED
    BY <2>1 DEF HeapInTime, SleepsInTime, ReadsInTime
<1> QED
  BY <1>1, <1>2, <1>3, <1>4, <1>5, <1>6, <1>7

(* The clock goes on while the thread sleeps, or waits for a message. *)
LEMMA TickInTime ==
  ASSUME BeforeTheWrap, TypeOK, SleepFrames <= LookAhead,
         HeapInTime, SleepsInTime, ReadsInTime, Tick, ~delayed'
  PROVE  HeapInTime' /\ SleepsInTime' /\ ReadsInTime'
<1>0. /\ now \in Nat /\ last \in Nat /\ LookAhead \in Nat /\ SleepFrames \in Nat
      /\ last <= now /\ wakeAt \in Nat
      /\ \A m \in mMidiHeap : m.due \in Nat
  <2>1. mMidiHeap \subseteq Message /\ wakeAt \in Nat
    BY FrameAssumption DEF TypeOK
  <2> QED
    BY <2>1, TimeFacts
<1>1. /\ ThreadRests /\ now' = now + 1 /\ last' <= now + 1
      /\ UNCHANGED <<mMidiHeap, picked, thread, deadline, wakeAt>>
  <2>1. delayed' = (delayed \/ ~ThreadRests)
    BY DEF Tick
  <2>2. ThreadRests
    BY <2>1, Zenon
  <2>3. /\ now' = now + 1 /\ last' <= now + 1
        /\ UNCHANGED <<mMidiHeap, picked, thread, deadline, wakeAt>>
    BY <1>0 DEF Tick, heapVars, threadVars
  <2> QED
    BY <2>2, <2>3
<1>2. CASE thread = "returned"
  BY <1>1, <1>2 DEF HeapInTime, SleepsInTime, ReadsInTime
<1>3. CASE thread = "sleeping" /\ now < wakeAt
  <2>1. \A m \in mMidiHeap : m.due >= now + 1
    BY <1>0, <1>3 DEF SleepsInTime
  <2>2. last' \in Nat
    BY <1>0 DEF Tick
  <2>3. HeapInTime'
    BY <1>0, <1>1, <1>3, <2>1, <2>2 DEF HeapInTime, InFlight
  <2> QED
    BY <1>0, <1>1, <1>3, <2>3 DEF SleepsInTime, ReadsInTime
<1>4. CASE thread \in {"looping", "clocked"} /\ mMidiHeap = {}
  BY <1>1, <1>4 DEF HeapInTime, SleepsInTime, ReadsInTime, InFlight
<1> QED
  BY <1>1, <1>2, <1>3, <1>4 DEF ThreadRests

(* The callback reads what belongs to the period, and the clock goes on to *)
(* the next period behind it.                                              *)
LEMMA RingInTimeInductive ==
  ASSUME BeforeTheWrap, Placed, PassedIsDue, PassedInOrder, HeapInTime, RingInTime,
         late = {}, lost' = {}, [Next]_vars
  PROVE  RingInTime'
<1>0. /\ TypeOK /\ now \in Nat /\ last \in Nat /\ NFrames \in Nat
      /\ \A m \in InRing : m \in Message /\ m.due \in Nat
  <2>1. TypeOK /\ InRing \subseteq Message
    BY PlacedFacts DEF TypeOK
  <2> QED
    BY <2>1, TimeFacts
<1>1. CASE Tick
  <2>1. InRing' = InRing
    BY <1>1 DEF Tick, InRing
  <2>2. CASE UNCHANGED <<last, callback>>
    BY <2>1, <2>2 DEF RingInTime
  <2>3. CASE PeriodEnds /\ callback = "done" /\ last' = now + 1 /\ callback' = "waiting"
    BY <1>0, <2>1, <2>3 DEF RingInTime, PeriodEnds
  <2> QED
    BY <1>1, <2>2, <2>3 DEF Tick
<1>2. CASE WritePopped
  <2>1. /\ callback' = callback /\ last' = last /\ InRing' \subseteq InRing \cup {picked}
    BY <1>2, WriteFacts DEF jackVars
  <2>2. picked.due >= last /\ picked.due \in Nat
    BY <1>0, <1>2, WriteFacts, TimeFacts DEF WritePopped, HeapInTime
  <2>3. picked.due + NFrames >= last
    BY <1>0, <2>2
  <2> QED
    BY <1>0, <2>1, <2>2, <2>3 DEF RingInTime
<1>3. CASE CallbackRead
  <2>1. callback = "running" /\ callback' = "running" /\ last' = last /\ InRing' \subseteq InRing
    BY <1>3, ReadFacts DEF CallbackRead
  <2> QED
    BY <2>1 DEF RingInTime
<1>4. CASE CallbackEnd
  <2>1. /\ InRing' = InRing /\ last' = last /\ ~Readable
    BY <1>4 DEF CallbackEnd, InRing
  <2>2. ASSUME NEW m \in InRing
        PROVE  m.due >= last
    <3>1. PICK k \in DOMAIN mRingbuffer : m = mRingbuffer[k]
      BY DEF InRing
    <3>2. mRingbuffer # <<>> /\ Offset >= NFrames
      <4>1. mRingbuffer # <<>>
        BY <1>0, <3>1 DEF TypeOK
      <4>2. Offset \in Int
        BY <1>0, <4>1, OldestFacts
      <4> QED
        BY <1>0, <2>1, <4>1, <4>2 DEF Readable
    <3>3. Oldest.due \in Nat /\ Oldest.due >= last
      BY <1>0, <3>2, OffsetFacts, OldestFacts
    <3>4. Oldest.due <= m.due
      <4>1. k \in Nat /\ k >= 1 /\ 1 \in DOMAIN mRingbuffer
        BY <1>0, <3>1, <3>2, OldestFacts DEF TypeOK
      <4>2. k = 1 \/ 1 < k
        BY <4>1
      <4> QED
        BY <1>0, <3>1, <3>3, <4>1, <4>2 DEF PassedInOrder, RingInOrder, Oldest
    <3> QED
      BY <1>0, <3>3, <3>4
  <2> QED
    BY <2>1, <2>2 DEF RingInTime
<1>5. CASE CallbackStart
  BY <1>5 DEF CallbackStart, RingInTime, InRing
<1>6. CASE UNCHANGED <<mRingbuffer, last, callback>>
  BY <1>6 DEF RingInTime, InRing
<1>7. CASE PeekFirst \/ ComparePeeked \/ ClockFirst \/ PeekClocked \/ Wake \/ PopDue
           \/ StopPlaying \/ ClockStops \/ UNCHANGED vars
  BY <1>6, <1>7 DEF PeekFirst, ComparePeeked, ClockFirst, PeekClocked, Wake, PopDue,
                    StopPlaying, ClockStops, vars, jackVars
<1>8. ASSUME NEW m \in Message, QueueMidiEvent(m)
      PROVE  RingInTime'
  BY <1>6, <1>8 DEF QueueMidiEvent, jackVars
<1> QED
  BY <1>1, <1>2, <1>3, <1>4, <1>5, <1>7, <1>8 DEF Next

LEMMA InTimeInductive ==
  ASSUME BeforeTheWrap, SleepFrames <= LookAhead, Placed, ThreadKnows, PassedIsDue,
         PassedInOrder, InTime, [Next]_vars
  PROVE  InTime'
<1> SUFFICES ASSUME ~delayed', late' = {}
             PROVE  /\ HeapInTime' /\ SleepsInTime' /\ ReadsInTime'
                    /\ lost' = {} => RingInTime'
  BY DEF InTime
<1>0. /\ TypeOK /\ late = {} /\ HeapInTime /\ SleepsInTime /\ ReadsInTime
      /\ lost' = {} => RingInTime
  BY InTimeSteps DEF Placed
<1>1. lost' = {} => RingInTime'
  BY <1>0, RingInTimeInductive
<1>2. ASSUME NEW m \in Message, QueueMidiEvent(m)
      PROVE  HeapInTime' /\ SleepsInTime' /\ ReadsInTime'
  BY <1>0, <1>2, QueueInTime
<1>3. CASE PeekFirst \/ ComparePeeked \/ ClockFirst \/ PeekClocked \/ PopDue \/ WritePopped
             \/ Wake
  BY <1>0, <1>1, <1>3, ThreadInTime
<1>4. CASE Tick
  BY <1>0, <1>1, <1>4, TickInTime
<1>5. CASE CallbackStart \/ CallbackRead \/ CallbackEnd \/ StopPlaying \/ ClockStops
             \/ UNCHANGED vars
  <2>1. UNCHANGED <<mMidiHeap, picked, thread, deadline, wakeAt, now, last>>
    BY <1>5 DEF CallbackStart, CallbackRead, CallbackEnd, StopPlaying, ClockStops, vars,
                heapVars, threadVars, jackVars
  <2> QED
    BY <1>0, <1>1, <2>1 DEF HeapInTime, SleepsInTime, ReadsInTime, InFlight
<1> QED
  BY <1>1, <1>2, <1>3, <1>4, <1>5 DEF Next

(* A message that is read in the period it belongs to is heard at its      *)
(* frame.                                                                  *)
LEMMA OnTimeInductive ==
  ASSUME BeforeTheWrap, Placed, PassedIsDue, InTime, OnTime, [Next]_vars
  PROVE  OnTime'
<1> SUFFICES ASSUME ~delayed', late' = {}, lost' = {}
             PROVE  \A h \in heard' : h.frame = h.msg.due + NFrames
  BY DEF OnTime
<1>0. ~delayed /\ late = {} /\ lost = {} /\ RingInTime /\ TypeOK
  BY InTimeSteps DEF Placed
<1>1. \A h \in heard : h.frame = h.msg.due + NFrames
  BY <1>0 DEF OnTime
<1>2. CASE heard' = heard
  BY <1>1, <1>2
<1>3. CASE heard' # heard
  <2>1. CallbackRead
    BY <1>3, HeardSteps
  <2>2. PICK t \in 0 .. NFrames - 1 :
          /\ t = Clipped(Oldest.due + NFrames - last)
          /\ heard' = heard \cup {[msg |-> Oldest, frame |-> last + t]}
    BY <1>3, <2>1, SoundFacts
  <2>3. Oldest.due \in Nat /\ Oldest.due + NFrames >= last /\ last \in Nat /\ NFrames \in Nat
    BY <1>0, <2>1, ReadFacts, TimeFacts DEF RingInTime
  <2>4. last + t = Oldest.due + NFrames
    BY <2>2, <2>3 DEF Clipped
  <2> QED
    BY <1>1, <2>2, <2>4
<1> QED
  BY <1>2, <1>3
-----------------------------------------------------------------------------
(* The theorems. *)

(* The thread returns only when it has seen gPlaying become FALSE, and     *)
(* nothing sets it again.                                                  *)
LEMMA ReturnedInductive ==
  ASSUME gPlaying => thread # "returned", [Next]_vars
  PROVE  gPlaying' => thread' # "returned"
<1>1. ASSUME NEW m \in Message, QueueMidiEvent(m)
      PROVE  gPlaying' => thread' # "returned"
  BY <1>1 DEF QueueMidiEvent, threadVars
<1>2. CASE PeekFirst \/ ComparePeeked \/ ClockFirst \/ PeekClocked \/ PopDue \/ WritePopped
           \/ Wake
  BY <1>2 DEF PeekFirst, ComparePeeked, ClockFirst, PeekClocked, PopDue, WritePopped, Wake,
              Compare, Sleep
<1>3. CASE CallbackStart \/ CallbackRead \/ CallbackEnd
  BY <1>3 DEF CallbackStart, CallbackRead, CallbackEnd, threadVars
<1>4. CASE StopPlaying \/ Tick \/ ClockStops \/ UNCHANGED vars
  BY <1>4 DEF StopPlaying, Tick, ClockStops, vars, threadVars
<1> QED
  BY <1>1, <1>2, <1>3, <1>4 DEF Next

LEMMA InitIInv == Init => IInv
<1> SUFFICES ASSUME Init PROVE IInv
  OBVIOUS
<1>1. Placed /\ StartFrame \in Nat
  BY InitPlaced, FrameAssumption
<1>2. /\ mMidiHeap = {} /\ InFlight = {} /\ mRingbuffer = <<>> /\ heard = {} /\ lost = {}
      /\ thread = "looping" /\ callback = "waiting" /\ events = [p \in Port |-> <<>>]
  BY DEF Init, Heap!Init, InFlight
<1>3. InRing = {} /\ Heard = {}
  BY <1>2 DEF InRing, Heard
<1>4. ThreadKnows /\ PassedIsDue
  BY <1>2, <1>3 DEF ThreadKnows, PassedIsDue, Passed
<1>5. PassedInOrder
  BY <1>2, <1>3 DEF PassedInOrder, Before, RingInOrder
<1>6. EventsAreHeard
  BY <1>2, FS_EmptySet DEF EventsAreHeard
<1>7. /\ KeptIfInTime /\ NotEarly /\ HeardAtItsFrame /\ OnTime
      /\ (gPlaying => thread # "returned")
  BY <1>2 DEF KeptIfInTime, NotEarly, HeardAtItsFrame, OnTime
<1>8. InTime
  BY <1>2, <1>3 DEF InTime, HeapInTime, SleepsInTime, ReadsInTime, RingInTime
<1> QED
  BY <1>1, <1>4, <1>5, <1>6, <1>7, <1>8 DEF IInv, Placed

LEMMA IInvInductive ==
  ASSUME BeforeTheWrap, IInv, [Next]_vars
  PROVE  IInv'
<1>1. /\ Placed /\ ThreadKnows /\ PassedIsDue /\ PassedInOrder /\ EventsAreHeard
      /\ KeptIfInTime /\ NotEarly /\ HeardAtItsFrame
      /\ gPlaying => thread # "returned"
      /\ SleepFrames <= LookAhead => InTime /\ OnTime
  BY DEF IInv, Placed
<1>2. Placed' /\ TypeOK
  BY <1>1, PlacedInductive DEF Placed
<1>3. ThreadKnows'
  BY <1>1, <1>2, ThreadKnowsInductive
<1>4. PassedIsDue'
  BY <1>1, PassedIsDueInductive
<1>5. PassedInOrder'
  BY <1>1, PassedInOrderInductive
<1>6. EventsAreHeard'
  BY <1>1, EventsAreHeardInductive
<1>7. KeptIfInTime'
  BY <1>1, KeptInductive
<1>8. NotEarly' /\ HeardAtItsFrame'
  BY <1>1, HeardInductive
<1>9. gPlaying' => thread' # "returned"
  BY <1>1, ReturnedInductive
<1>10. SleepFrames <= LookAhead => InTime' /\ OnTime'
  BY <1>1, InTimeInductive, OnTimeInductive
<1> QED
  BY <1>2, <1>3, <1>4, <1>5, <1>6, <1>7, <1>8, <1>9, <1>10 DEF IInv, Placed

(* What the properties of the engine follow from holds for every number of *)
(* messages, ports, frames and places in the buffers, in every run that    *)
(* ends before half of the range of the frame times is used up.            *)
THEOREM Invariance ==
  ASSUME BeforeTheWrap
  PROVE  Spec => []IInv
<1>1. Init => IInv
  BY InitIInv
<1>2. IInv /\ [Next]_vars => IInv'
  BY IInvInductive
<1> QED
  BY <1>1, <1>2, PTL DEF Spec

(* The message that bufferProcessingThread pops is due, although the main  *)
(* thread may have queued another one since it looked.                     *)
THEOREM WhatIsPoppedIsDue ==
  ASSUME BeforeTheWrap
  PROVE  Spec => []PoppedIsDue
<1>1. IInv => PoppedIsDue
  BY DEF IInv, PassedIsDue, Passed, InFlight, PoppedIsDue
<1> QED
  BY <1>1, Invariance, PTL

(* The ringbuffer has the messages in the order they are due, if none was  *)
(* queued late.                                                            *)
THEOREM TheRingIsInOrder ==
  ASSUME BeforeTheWrap
  PROVE  Spec => []RingInOrder
<1>1. IInv => RingInOrder
  BY DEF IInv, PassedInOrder, RingInOrder
<1> QED
  BY <1>1, Invariance, PTL

(* And then none is dropped that the buffers have space for.               *)
THEOREM NothingInTimeIsDropped ==
  ASSUME BeforeTheWrap
  PROVE  Spec => []KeptIfInTime
<1>1. IInv => KeptIfInTime
  BY DEF IInv
<1> QED
  BY <1>1, Invariance, PTL

(* Nothing sounds before the period after the frame it is due at.          *)
THEOREM NothingIsEarly ==
  ASSUME BeforeTheWrap
  PROVE  Spec => []NotEarly
<1>1. IInv => NotEarly
  BY DEF IInv
<1> QED
  BY <1>1, Invariance, PTL

(* If the thread sleeps no longer than it looks ahead, what is queued in   *)
(* time sounds exactly a period after the frame it is due at.              *)
THEOREM EverythingIsOnTime ==
  ASSUME BeforeTheWrap, SleepFrames <= LookAhead
  PROVE  Spec => []OnTime
<1>1. IInv => OnTime
  BY DEF IInv
<1> QED
  BY <1>1, Invariance, PTL

(* And the ringbuffer has all that belongs to the period when the callback *)
(* reads it.                                                               *)
THEOREM TheBufferIsComplete ==
  ASSUME BeforeTheWrap, SleepFrames <= LookAhead
  PROVE  Spec => []BufferIsComplete
<1>1. IInv => BufferIsComplete
  BY DEF IInv, InTime, HeapInTime, BufferIsComplete
<1> QED
  BY <1>1, Invariance, PTL
-----------------------------------------------------------------------------
(* The engine implements MidiDelivery.                                     *)

Pending == mMidiHeap \cup InFlight \cup InRing

LEMMA InitDelivers == Init => Delivery!Init
<1> SUFFICES ASSUME Init PROVE Delivery!Init
  OBVIOUS
<1>1. mMidiHeap = {} /\ thread = "looping" /\ mRingbuffer = <<>>
      /\ late = {} /\ heard = {} /\ lost = {}
  BY DEF Init, Heap!Init
<1>2. InFlight = {} /\ InRing = {}
  BY <1>1 DEF InFlight, InRing
<1> QED
  BY <1>1, <1>2 DEF Delivery!Init

LEMMA QueueAccepts ==
  ASSUME Placed, NEW m \in Message, QueueMidiEvent(m)
  PROVE  Delivery!Accept(m)
<1>1. /\ mMidiHeap' = mMidiHeap \cup {m} /\ InFlight' = InFlight /\ InRing' = InRing
      /\ heard' = heard /\ lost' = lost
      /\ late' = late \/ late' = late \cup {m}
  BY DEF QueueMidiEvent, Heap!Insert, InFlight, InRing, threadVars
<1>2. m \notin Pending \cup Heard \cup lost
  BY PlacedFacts DEF QueueMidiEvent, Pending
<1> QED
  BY <1>1, <1>2 DEF Delivery!Accept, Delivery!Settled, Pending, Heard

LEMMA WriteDrops ==
  ASSUME Placed, WritePopped, Pending' # Pending \/ lost' # lost
  PROVE  Delivery!Drop(picked)
<1>1. /\ InFlight = {picked} /\ InFlight' = {} /\ mMidiHeap' = mMidiHeap
      /\ UNCHANGED <<late, heard>>
  BY WriteFacts
<1>2. lost' = lost \cup {picked} /\ InRing' = InRing
  BY <1>1, WriteFacts DEF Pending
<1>3. picked \notin mMidiHeap /\ picked \notin InRing
  BY <1>1 DEF Placed, OnePlace
<1> QED
  BY <1>1, <1>2, <1>3 DEF Delivery!Drop

LEMMA ReadDelivers ==
  ASSUME BeforeTheWrap, IInv, CallbackRead
  PROVE  \/ \E frame \in 0 .. MaxFrame + NFrames : Delivery!Sound(Oldest, frame)
         \/ Delivery!Drop(Oldest)
<1>0. /\ Placed /\ PassedIsDue /\ PassedInOrder /\ NotEarly /\ HeardAtItsFrame
      /\ TypeOK /\ [Next]_vars
  BY DEF IInv, Placed, Next
<1>1. /\ InRing = InRing' \cup {Oldest} /\ InFlight' = InFlight /\ mMidiHeap' = mMidiHeap
      /\ late' = late /\ Oldest \in InRing
  BY <1>0, ReadFacts
<1>2. Pending' = Pending \ {Oldest}
  <2>1. OnePlace'
    BY <1>0, PlacedInductive DEF Placed
  <2>2. Oldest \in Heard' \cup lost'
    BY <1>0, ReadFacts
  <2>3. Oldest \notin mMidiHeap' \cup InFlight' \cup InRing'
    BY <2>1, <2>2 DEF OnePlace
  <2> QED
    BY <1>1, <2>3 DEF Pending
<1>3. CASE heard' = heard
  <2>1. lost' = lost \cup {Oldest}
    <3>1. Heard' = Heard /\ Oldest \notin Heard
      BY <1>0, <1>1, <1>3 DEF Heard, Placed, OnePlace
    <3> QED
      BY <1>0, <3>1, ReadFacts
  <2> QED
    BY <1>1, <1>2, <1>3, <2>1 DEF Delivery!Drop, Pending
<1>4. CASE heard' # heard
  <2>1. PICK t \in 0 .. NFrames - 1 :
          /\ t = Clipped(Oldest.due + NFrames - last)
          /\ heard' = heard \cup {[msg |-> Oldest, frame |-> last + t]}
          /\ lost' = lost
    BY <1>0, <1>4, SoundFacts
  <2>2. /\ Oldest.due \in Nat /\ last \in Nat /\ NFrames \in Nat /\ MaxFrame \in Nat
        /\ last <= MaxFrame
    BY <1>0, ReadFacts, TimeFacts, FrameAssumption DEF TypeOK
  <2>3. last + t \in 0 .. MaxFrame + NFrames /\ last + t >= Oldest.due + NFrames
    BY <2>1, <2>2 DEF Clipped
  <2>4. ASSUME late = {}, NEW s \in heard
        PROVE  s.msg.due <= Oldest.due /\ s.frame <= last + t
    <3>1. s.msg.due <= Oldest.due
      BY <1>0, <1>1, <2>4 DEF PassedInOrder, Before, Heard
    <3>2. s.msg.due \in Nat /\ s.frame \in Nat
      BY <1>0, TimeFacts DEF TypeOK
    <3> QED
      BY <1>0, <2>2, <2>3, <3>1, <3>2 DEF HeardAtItsFrame
  <2>5. Delivery!Sound(Oldest, last + t)
    BY <1>1, <1>2, <2>1, <2>3, <2>4 DEF Delivery!Sound, Pending
  <2> QED
    BY <2>3, <2>5
<1> QED
  BY <1>3, <1>4

(* Each step accepts a message, lets one sound, drops one, or is none of   *)
(* the sequencer's business.                                               *)
LEMMA StepDelivers ==
  ASSUME BeforeTheWrap, IInv, [Next]_vars
  PROVE  [Delivery!Next]_(Delivery!vars)
<1>0. Placed /\ ThreadKnows /\ TypeOK
  BY DEF IInv, Placed
<1>1. ASSUME NEW m \in Message, QueueMidiEvent(m)
      PROVE  Delivery!Next
  BY <1>0, <1>1, QueueAccepts DEF Delivery!Next
<1>2. CASE PopDue
  <2>1. Pending' = Pending /\ UNCHANGED <<late, heard, lost>>
    BY <1>0, <1>2, PopFacts DEF Pending, history
  <2> QED
    BY <2>1 DEF Delivery!vars, Pending
<1>3. CASE WritePopped
  <2>1. CASE Pending' # Pending \/ lost' # lost
    <3>1. picked \in Message
      BY <1>0, <1>3, WriteFacts
    <3> QED
      BY <1>0, <1>3, <2>1, <3>1, WriteDrops DEF Delivery!Next
  <2>2. CASE Pending' = Pending /\ lost' = lost
    BY <1>0, <1>3, <2>2, WriteFacts DEF Delivery!vars, Pending
  <2> QED
    BY <2>1, <2>2
<1>4. CASE CallbackRead
  <2>1. Oldest \in Message
    BY <1>0, <1>4, ReadFacts
  <2> QED
    BY <1>4, <2>1, ReadDelivers DEF Delivery!Next
<1>5. CASE Stays
  BY <1>5 DEF Stays, Delivery!vars
<1> QED
  BY <1>1, <1>2, <1>3, <1>4, <1>5, MovingSteps

(* For the sequencer the engine is MidiDelivery: what it queues sounds     *)
(* once, not early and in order, or is dropped, whatever the threads do.   *)
THEOREM TheEngineDelivers ==
  ASSUME BeforeTheWrap
  PROVE  Spec => ImplementsMidiDelivery
<1>1. Init => Delivery!Init
  BY InitDelivers
<1>2. IInv /\ [Next]_vars => [Delivery!Next]_(Delivery!vars)
  BY StepDelivers
<1> QED
  BY <1>1, <1>2, Invariance, PTL DEF Spec, Delivery!Spec, ImplementsMidiDelivery
=============================================================================

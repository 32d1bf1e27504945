-------------------------- MODULE Lifecycle_proofs --------------------------
(***************************************************************************)
(* Proofs about module Lifecycle, for every song and whatever the frames   *)
(* that main and bufferProcessingThread wait for the processor, as long as *)
(* the thread, when it is ready to run, is run before main has slept once. *)
(* Without a signal main never writes to the ringbuffer at the same time   *)
(* as bufferProcessingThread, with the wrap of the frame times; and before *)
(* the wrap the program ends when everything was heard and is silent then. *)
(***************************************************************************)
EXTENDS Lifecycle, JackEngine_proofs, FiniteSetTheorems, TLAPS

(* The types that the argument needs. *)
Clocks ==
  /\ IsFiniteSet(mMidiHeap)
  /\ now \in Nat /\ mainWake \in Nat /\ waits \in 0 .. MaxWait

LEMMA FramesAreNumbers ==
  /\ StartFrame \in Nat /\ PollFrames \in Nat /\ SignalFrames \in Nat /\ MaxWait \in Nat
BY FrameAssumption, LifecycleAssumption

LEMMA InitLeft == LifecycleInit => Clocks /\ HeapIsLeftEmpty
<1> SUFFICES ASSUME LifecycleInit PROVE Clocks /\ HeapIsLeftEmpty
  OBVIOUS
<1>1. /\ mMidiHeap = {} /\ now = StartFrame /\ gPlaying = TRUE
      /\ main = "reading" /\ mainWake = StartFrame /\ waits = 0 /\ signalled = FALSE
  BY DEF LifecycleInit, Init, Heap!Init
<1>2. IsFiniteSet(mMidiHeap)
  BY <1>1, FS_EmptySet
<1>3. Clocks
  BY <1>1, <1>2, FramesAreNumbers DEF Clocks
<1>4. HeapIsLeftEmpty
  BY <1>1 DEF HeapIsLeftEmpty
<1> QED
  BY <1>3, <1>4

(* The song is played by main alone, while it plays. *)
LEMMA PlayNextLeft ==
  ASSUME Clocks, HeapIsLeftEmpty, PlayNext
  PROVE  Clocks' /\ HeapIsLeftEmpty'
<1>1. PICK m : mMidiHeap' = mMidiHeap \cup {m}
  BY DEF PlayNext, QueueMidiEvent, Heap!Insert
<1>2. /\ main = "playing"
      /\ UNCHANGED <<main, mainWake, signalled, waits, now, gPlaying, thread>>
  BY DEF waitVars, PlayNext, QueueMidiEvent, mainVars, threadVars
<1>3. IsFiniteSet(mMidiHeap')
  BY <1>1, FS_AddElement DEF Clocks
<1> QED
  BY <1>2, <1>3 DEF Clocks, HeapIsLeftEmpty

(* main leaves play only when it has found the heap empty. *)
LEMMA PollLeft ==
  ASSUME Clocks, HeapIsLeftEmpty, Poll
  PROVE  Clocks' /\ HeapIsLeftEmpty'
<1>1. /\ mainWake' = now + PollFrames /\ main = "polling" /\ main' \in {"polling", "waiting"}
      /\ UNCHANGED <<mMidiHeap, gPlaying, thread, now, signalled, waits>>
  BY DEF waitVars, Poll, vars, heapVars, threadVars
<1>2. Clocks'
  BY <1>1, FramesAreNumbers DEF Clocks
<1>3. ASSUME ~signalled, main' = "waiting"
      PROVE  mMidiHeap = {}
  <2>1. ~HasPendingEvents
    BY <1>1, <1>3 DEF Poll, HeapIsLeftEmpty
  <2>2. Cardinality(mMidiHeap) \in Nat
    BY FS_CardinalityType DEF Clocks
  <2>3. Cardinality(mMidiHeap) = 0
    BY <2>1, <2>2 DEF HasPendingEvents
  <2> QED
    BY <2>3, FS_EmptySet DEF Clocks
<1> QED
  BY <1>1, <1>2, <1>3 DEF Clocks, HeapIsLeftEmpty

(* While main sleeps, the thread has PollFrames to write what it popped.   *)
LEMMA PlayReturnsLeft ==
  ASSUME MaxWait < PollFrames, Clocks, HeapIsLeftEmpty, PlayReturns
  PROVE  Clocks' /\ HeapIsLeftEmpty'
<1>1. /\ main = "waiting" /\ now >= mainWake /\ main' = "ending"
      /\ UNCHANGED <<mMidiHeap, thread, now, mainWake, signalled, waits>>
  BY DEF waitVars, PlayReturns, heapVars, others
<1>2. ~signalled => thread # "writing"
  BY <1>1, FramesAreNumbers DEF Clocks, HeapIsLeftEmpty
<1> QED
  BY <1>1, <1>2 DEF Clocks, HeapIsLeftEmpty

(* What else main does leaves the heap alone, and so does the handler.     *)
LEMMA MainLeft ==
  ASSUME Clocks, HeapIsLeftEmpty,
         \/ \E p \in Port : RegisterOutputPort(p)
         \/ ReadToTheEnd \/ SongEnds \/ BeginStopSounds \/ StopSounds \/ SoundsStopped
         \/ Shutdown \/ Signal
  PROVE  Clocks' /\ HeapIsLeftEmpty'
<1>1. CASE \E p \in Port : RegisterOutputPort(p)
  BY <1>1 DEF waitVars, RegisterOutputPort, heapVars, others, Clocks, HeapIsLeftEmpty
<1>2. CASE ReadToTheEnd \/ Shutdown
  BY <1>2 DEF waitVars, ReadToTheEnd, Shutdown, vars, heapVars, threadVars, Clocks, HeapIsLeftEmpty
<1>3. CASE SongEnds
  BY <1>3 DEF waitVars, SongEnds, vars, heapVars, threadVars, Clocks, HeapIsLeftEmpty
<1>4. CASE BeginStopSounds
  BY <1>4 DEF waitVars, BeginStopSounds, vars, heapVars, threadVars, Clocks, HeapIsLeftEmpty
<1>5. CASE StopSounds
  <2>1. /\ main = "silencing" /\ thread' \in {thread, "looping"}
        /\ UNCHANGED <<mMidiHeap, now, gPlaying, main, mainWake, signalled, waits>>
    BY <1>5 DEF waitVars, StopSounds, heapVars
  <2> QED
    BY <2>1 DEF Clocks, HeapIsLeftEmpty
<1>6. CASE SoundsStopped
  <2>1. /\ main = "silencing" /\ main' = "closing"
        /\ mainWake' \in {now + SignalFrames, now + PollFrames}
        /\ UNCHANGED <<mMidiHeap, thread, now, signalled, waits>>
    BY <1>6 DEF waitVars, SoundsStopped, heapVars, others
  <2> QED
    BY <2>1, FramesAreNumbers DEF Clocks, HeapIsLeftEmpty
<1>7. CASE Signal
  <2>1. signalled' = TRUE /\ UNCHANGED <<mMidiHeap, now, mainWake, waits>>
    BY <1>7 DEF waitVars, Signal, vars, heapVars
  <2> QED
    BY <2>1 DEF Clocks, HeapIsLeftEmpty
<1> QED
  BY <1>1, <1>2, <1>3, <1>4, <1>5, <1>6, <1>7

(* The thread takes nothing out of an empty heap. *)
LEMMA ThreadLeft ==
  ASSUME Clocks, HeapIsLeftEmpty, ThreadStep
  PROVE  Clocks' /\ HeapIsLeftEmpty'
<1>1. waits' = 0 /\ UNCHANGED <<now, gPlaying, main, mainWake, signalled>>
  BY DEF waitVars, ThreadStep, Thread, PeekFirst, ComparePeeked, ClockFirst, PeekClocked, PopDue,
         WritePopped, Wake, mainVars
<1>2. CASE PopDue
  <2>1. PICK m : m \in mMidiHeap /\ mMidiHeap' = mMidiHeap \ {m}
    BY <1>2 DEF PopDue, Heap!PopMin, Heap!Earliest
  <2>2. IsFiniteSet(mMidiHeap')
    BY <2>1, FS_RemoveElement DEF Clocks
  <2> QED
    BY <1>1, <2>1, <2>2, FramesAreNumbers DEF Clocks, HeapIsLeftEmpty
<1>3. CASE PeekFirst \/ ComparePeeked \/ ClockFirst \/ PeekClocked \/ WritePopped \/ Wake
  <2>1. mMidiHeap' = mMidiHeap /\ thread' # "writing"
    BY <1>3 DEF PeekFirst, ComparePeeked, ClockFirst, PeekClocked, WritePopped, Wake,
                Heap!PeekMin, Compare, Sleep, heapVars
  <2> QED
    BY <1>1, <2>1, FramesAreNumbers DEF Clocks, HeapIsLeftEmpty
<1> QED
  BY <1>2, <1>3 DEF ThreadStep, Thread

(* In a frame the thread waits, when it has something to write. *)
LEMMA FrameLeft ==
  ASSUME Clocks, HeapIsLeftEmpty, Frame
  PROVE  Clocks' /\ HeapIsLeftEmpty'
<1>1. /\ now' = now + 1 /\ waits' \in {0, waits + 1} /\ waits' <= MaxWait
      /\ UNCHANGED <<mMidiHeap, thread, gPlaying, main, mainWake, signalled>>
  BY DEF waitVars, Frame, Tick, heapVars, threadVars, mainVars
<1>2. thread = "writing" => waits' = waits + 1
  BY DEF Frame, ThreadRests
<1>3. Clocks'
  BY <1>1, FramesAreNumbers DEF Clocks
<1>4. now + PollFrames <= mainWake + waits /\ thread = "writing"
        => now' + PollFrames <= mainWake + waits'
  BY <1>1, <1>2, FramesAreNumbers DEF Clocks
<1>5. HeapIsLeftEmpty'
  BY <1>1, <1>4 DEF HeapIsLeftEmpty
<1> QED
  BY <1>3, <1>5

LEMMA LeftInductive ==
  ASSUME MaxWait < PollFrames, Clocks, HeapIsLeftEmpty, [LifecycleNext]_lifecycleVars
  PROVE  Clocks' /\ HeapIsLeftEmpty'
<1>1. CASE MainStep
  BY <1>1, PlayNextLeft, PollLeft, PlayReturnsLeft, MainLeft DEF MainStep
<1>2. CASE Signal
  BY <1>2, MainLeft
<1>3. CASE ThreadStep
  BY <1>3, ThreadLeft
<1>4. CASE CallbackStep
  BY <1>4 DEF waitVars, CallbackStep, Callback, CallbackStart, CallbackRead, CallbackEnd, heapVars,
              threadVars, mainVars, Clocks, HeapIsLeftEmpty
<1>5. CASE Frame
  BY <1>5, FrameLeft
<1>6. CASE UNCHANGED lifecycleVars
  BY <1>6 DEF waitVars, lifecycleVars, vars, heapVars, threadVars, mainVars, Clocks, HeapIsLeftEmpty
<1> QED
  BY <1>1, <1>2, <1>3, <1>4, <1>5, <1>6 DEF LifecycleNext, Exited

LEMMA AlwaysLeft ==
  ASSUME MaxWait < PollFrames
  PROVE  LifecycleSpec => [](Clocks /\ HeapIsLeftEmpty)
<1>1. LifecycleInit => Clocks /\ HeapIsLeftEmpty
  BY InitLeft
<1>2. Clocks /\ HeapIsLeftEmpty /\ [LifecycleNext]_lifecycleVars
        => (Clocks /\ HeapIsLeftEmpty)'
  BY LeftInductive
<1> QED
  BY <1>1, <1>2, PTL DEF LifecycleSpec

(* main leaves play with an empty heap, and nothing enters it again.       *)
THEOREM NothingIsLeftInTheHeap ==
  ASSUME MaxWait < PollFrames
  PROVE  LifecycleSpec => []HeapIsLeftEmpty
BY AlwaysLeft, PTL

(* The ringbuffer is for one writer: if bufferProcessingThread, ready to   *)
(* run, never waits for the processor as long as play sleeps, stopSounds   *)
(* writes to it when the thread never will again.                          *)
THEOREM TheRingHasOneWriter ==
  ASSUME MaxWait < PollFrames
  PROVE  LifecycleSpec => []OneWriter
<1>1. HeapIsLeftEmpty => OneWriter
  BY DEF HeapIsLeftEmpty, OneWriter
<1> QED
  BY <1>1, AlwaysLeft, PTL
-----------------------------------------------------------------------------
(* The engine of module JackEngine goes on until main silences the ports.  *)

(* What main does, but for the song and the silencing of the ports, leaves *)
(* the engine alone.                                                       *)
LEMMA MainSteps ==
  ASSUME MainStep \/ Signal
  PROVE  \/ PlayNext
         \/ PlayReturns
         \/ StopSounds
         \/ SoundsStopped
         \/ UNCHANGED vars
<1>1. CASE \E p \in Port : RegisterOutputPort(p)
  BY <1>1 DEF RegisterOutputPort, vars, others, threadVars
<1>2. CASE ReadToTheEnd \/ SongEnds \/ Poll \/ BeginStopSounds \/ Shutdown \/ Signal
  BY <1>2 DEF ReadToTheEnd, SongEnds, Poll, BeginStopSounds, Shutdown, Signal
<1> QED
  BY <1>1, <1>2 DEF MainStep

(* main goes on, never back. *)
LEMMA MainGoesOn ==
  ASSUME [LifecycleNext]_lifecycleVars, main' \in Busy
  PROVE  main \in Busy
<1>1. CASE MainStep
  BY <1>1 DEF MainStep, RegisterOutputPort, ReadToTheEnd, PlayNext, SongEnds, Poll, PlayReturns,
              BeginStopSounds, StopSounds, SoundsStopped, Shutdown, Busy
<1>2. CASE Signal
  BY <1>2 DEF Signal, Busy
<1>3. CASE ThreadStep \/ CallbackStep \/ Frame
  BY <1>3 DEF ThreadStep, CallbackStep, Frame, mainVars
<1>4. CASE UNCHANGED lifecycleVars
  BY <1>4 DEF lifecycleVars, mainVars
<1> QED
  BY <1>1, <1>2, <1>3, <1>4 DEF LifecycleNext, Exited

(* The message that the sequencer queues next is one of the song. *)
LEMMA NextOfTheSong ==
  ASSUME SongIsQueued, PlayNext
  PROVE  /\ Song[Played + 1] \in Message /\ Song[Played + 1] \in Range(Song)
         /\ Played \in Nat /\ Played < Len(Song) /\ Len(Song) \in Nat
         /\ QueueMidiEvent(Song[Played + 1])
<1>1. Played \in Nat
  BY FS_CardinalityType DEF SongIsQueued, Played
<1>2. Played < Len(Song) /\ QueueMidiEvent(Song[Played + 1])
  BY DEF PlayNext
<1>3. Song \in Seq(Message)
  BY LifecycleAssumption
<1>4. Played + 1 \in DOMAIN Song /\ Song[Played + 1] \in Message /\ Len(Song) \in Nat
  BY <1>1, <1>2, <1>3
<1> QED
  BY <1>1, <1>2, <1>4 DEF Range

LEMMA EngineSteps ==
  ASSUME EngineKeeps, SongIsQueued, [LifecycleNext]_lifecycleVars, main \in Busy
  PROVE  [Next]_vars
<1>1. CASE MainStep \/ Signal
  <2>1. CASE PlayNext
    BY <2>1, NextOfTheSong DEF Next
  <2>2. CASE PlayReturns
    <3>1. UNCHANGED <<heapVars, mRingbuffer, now, jackVars, thread, deadline, wakeAt, history>>
          /\ gPlaying' = FALSE
      BY <2>2 DEF PlayReturns, others
    <3>2. gPlaying \in BOOLEAN
      BY DEF EngineKeeps, Busy, IInv, TypeOK
    <3>3. CASE gPlaying
      BY <3>1, <3>3 DEF StopPlaying, Next
    <3>4. CASE gPlaying = FALSE
      BY <3>1, <3>4 DEF vars, threadVars
    <3> QED
      BY <3>2, <3>3, <3>4
  <2>3. CASE StopSounds \/ SoundsStopped
    BY <2>3 DEF StopSounds, SoundsStopped, Busy
  <2> QED
    BY <1>1, <2>1, <2>2, <2>3, MainSteps
<1>2. CASE ThreadStep \/ CallbackStep \/ Frame
  BY <1>2 DEF ThreadStep, CallbackStep, Frame, Thread, Callback, Next
<1>3. CASE UNCHANGED lifecycleVars
  BY <1>3 DEF lifecycleVars
<1> QED
  BY <1>1, <1>2, <1>3 DEF LifecycleNext, Exited

LEMMA EngineKept ==
  ASSUME BeforeTheWrap, EngineKeeps, SongIsQueued, [LifecycleNext]_lifecycleVars
  PROVE  EngineKeeps'
<1> SUFFICES ASSUME main' \in Busy PROVE IInv'
  BY DEF EngineKeeps, Busy
<1>1. main \in Busy
  BY MainGoesOn
<1>2. IInv
  BY <1>1 DEF EngineKeeps, Busy
<1>3. [Next]_vars
  BY <1>1, EngineSteps
<1> QED
  BY <1>2, <1>3, IInvInductive

(* The clock and the ports. *)
LEMMA ClockAndPortsKept ==
  ASSUME ClockAndPorts, [LifecycleNext]_lifecycleVars
  PROVE  ClockAndPorts'
<1>1. CASE Frame
  <2>1. now < MaxFrame /\ now' = now + 1 /\ UNCHANGED <<mOutputPorts, toSilence>>
    BY <1>1 DEF Frame, Tick, mainVars
  <2>2. \/ ~PeriodEnds /\ last' = last
        \/ PeriodEnds /\ last' = now + 1
    BY <1>1 DEF Frame, Tick
  <2>3. /\ StartFrame \in Nat /\ MaxFrame \in Nat /\ NFrames \in Nat \ {0}
        /\ now \in Nat /\ last \in Nat
    BY FrameAssumption DEF ClockAndPorts
  <2>4. now' \in StartFrame .. MaxFrame
    BY <2>1, <2>3 DEF ClockAndPorts
  <2>5. last' \in StartFrame .. now' /\ now' < last' + NFrames
    BY <2>1, <2>2, <2>3 DEF ClockAndPorts, PeriodEnds
  <2> QED
    BY <2>1, <2>4, <2>5 DEF ClockAndPorts
<1>2. CASE UNCHANGED <<now, last>> /\ mOutputPorts' \in Seq(Port) /\ toSilence' \in Seq(Port)
  BY <1>2 DEF ClockAndPorts
<1>3. CASE MainStep
  <2>1. UNCHANGED <<now, last>>
    BY <1>3, MainSteps
       DEF PlayNext, QueueMidiEvent, PlayReturns, StopSounds, SoundsStopped, others, vars, jackVars
  <2>2. mOutputPorts' \in Seq(Port)
    <3>1. CASE \E p \in Port : RegisterOutputPort(p)
      BY <3>1 DEF RegisterOutputPort, Registered, ClockAndPorts
    <3>2. CASE UNCHANGED mOutputPorts
      BY <3>2 DEF ClockAndPorts
    <3> QED
      BY <1>3, <3>1, <3>2
         DEF MainStep, ReadToTheEnd, PlayNext, SongEnds, Poll, PlayReturns, BeginStopSounds,
             StopSounds, SoundsStopped, Shutdown, mainVars
  <2>3. toSilence' \in Seq(Port)
    <3>1. CASE BeginStopSounds
      BY <3>1 DEF BeginStopSounds, PortsToSilence, ClockAndPorts
    <3>2. CASE StopSounds
      BY <3>2 DEF StopSounds, ClockAndPorts
    <3>3. CASE UNCHANGED toSilence
      BY <3>3 DEF ClockAndPorts
    <3> QED
      BY <1>3, <3>1, <3>2, <3>3
         DEF MainStep, RegisterOutputPort, ReadToTheEnd, PlayNext, SongEnds, Poll, PlayReturns,
             SoundsStopped, Shutdown, mainVars
  <2> QED
    BY <1>2, <2>1, <2>2, <2>3
<1>4. CASE Signal
  BY <1>4 DEF Signal, vars, jackVars, PortsToSilence, ClockAndPorts
<1>5. CASE ThreadStep \/ CallbackStep
  <2>1. UNCHANGED <<now, last>>
    BY <1>5 DEF ThreadStep, Thread, PeekFirst, ComparePeeked, ClockFirst, PeekClocked, PopDue,
                WritePopped, Wake, CallbackStep, Callback, CallbackStart, CallbackRead,
                CallbackEnd, jackVars
  <2>2. UNCHANGED <<mOutputPorts, toSilence>>
    BY <1>5 DEF ThreadStep, CallbackStep, mainVars
  <2> QED
    BY <2>1, <2>2 DEF ClockAndPorts
<1>6. CASE UNCHANGED lifecycleVars
  BY <1>6 DEF lifecycleVars, vars, jackVars, mainVars, ClockAndPorts
<1> QED
  BY <1>1, <1>3, <1>4, <1>5, <1>6 DEF LifecycleNext, Exited
LEMMA RegisteredOnceKept ==
  ASSUME ClockAndPorts, RegisteredOnce, [LifecycleNext]_lifecycleVars
  PROVE  RegisteredOnce'
<1>1. mOutputPorts \in Seq(Port) /\ toSilence \in Seq(Port)
  BY DEF ClockAndPorts
<1>2. CASE UNCHANGED mOutputPorts /\ toSilence' \in {toSilence, mOutputPorts}
  BY <1>2 DEF RegisteredOnce
<1>3. CASE \E p \in Port : RegisterOutputPort(p)
  <2>1. PICK p \in Port : RegisterOutputPort(p)
    BY <1>3
  <2>2. UNCHANGED toSilence /\ (p \in Range(mOutputPorts) => UNCHANGED mOutputPorts)
    BY <2>1 DEF RegisterOutputPort, Registered
  <2>3. CASE p \notin Range(mOutputPorts)
    <3>1. mOutputPorts' = Append(mOutputPorts, p)
      BY <2>1, <2>3 DEF RegisterOutputPort, Registered
    <3>2. Range(mOutputPorts') = Range(mOutputPorts) \cup {p}
      BY <1>1, <3>1 DEF Range
    <3>3. IsInjective(mOutputPorts')
      BY <1>1, <2>3, <3>1 DEF RegisteredOnce, IsInjective, Range
    <3> QED
      BY <2>2, <3>2, <3>3 DEF RegisteredOnce
  <2> QED
    BY <1>2, <2>2, <2>3
<1>4. CASE StopSounds
  <2>1. UNCHANGED mOutputPorts /\ toSilence # <<>> /\ toSilence' = Tail(toSilence)
    BY <1>4 DEF StopSounds
  <2>2. Range(Tail(toSilence)) \subseteq Range(toSilence)
    BY <1>1, <2>1 DEF Range
  <2> QED
    BY <2>1, <2>2 DEF RegisteredOnce
<1>5. CASE MainStep /\ ~(\E p \in Port : RegisterOutputPort(p)) /\ ~StopSounds
  <2>1. UNCHANGED mOutputPorts /\ toSilence' \in {toSilence, mOutputPorts}
    BY <1>5 DEF MainStep, ReadToTheEnd, PlayNext, SongEnds, Poll, PlayReturns, BeginStopSounds,
                SoundsStopped, Shutdown, mainVars, PortsToSilence
  <2> QED
    BY <1>2, <2>1
<1>6. CASE Signal
  BY <1>2, <1>6 DEF Signal, PortsToSilence
<1>7. CASE ThreadStep \/ CallbackStep \/ Frame \/ UNCHANGED lifecycleVars
  BY <1>2, <1>7 DEF ThreadStep, CallbackStep, Frame, mainVars, lifecycleVars
<1> QED
  BY <1>3, <1>4, <1>5, <1>6, <1>7 DEF LifecycleNext, Exited
-----------------------------------------------------------------------------
(* The song. *)

(* What leaves the queue of the song alone. *)
LEMMA QueuedStays ==
  ASSUME [LifecycleNext]_lifecycleVars
  PROVE  PlayNext \/ queued' = queued
<1>1. CASE MainStep \/ Signal
  BY <1>1, MainSteps
     DEF PlayReturns, StopSounds, SoundsStopped, history, vars
<1>2. CASE ThreadStep \/ CallbackStep \/ Frame
  BY <1>2 DEF ThreadStep, Thread, PeekFirst, ComparePeeked, ClockFirst, PeekClocked, PopDue,
              WritePopped, Wake, CallbackStep, Callback, CallbackStart, CallbackRead,
              CallbackEnd, Frame, Tick, history
<1>3. CASE UNCHANGED lifecycleVars
  BY <1>3 DEF lifecycleVars, vars, history
<1> QED
  BY <1>1, <1>2, <1>3 DEF LifecycleNext, Exited

LEMMA TheSongGrows ==
  ASSUME SongIsQueued, [LifecycleNext]_lifecycleVars
  PROVE  /\ IsFiniteSet(queued') /\ Played' <= Len(Song)
         /\ queued' = {Song[k] : k \in 1 .. Played'}
<1>1. CASE PlayNext
  <2> DEFINE m == Song[Played + 1]
  <2>1. Played \in Nat /\ Played < Len(Song) /\ Len(Song) \in Nat
    BY <1>1, NextOfTheSong
  <2>2. m \notin queued /\ queued' = queued \cup {m}
    BY <1>1 DEF PlayNext, QueueMidiEvent
  <2>3. IsFiniteSet(queued') /\ Cardinality(queued') = Cardinality(queued) + 1
    BY <2>2, FS_AddElement DEF SongIsQueued
  <2>4. Played' = Played + 1
    BY <2>3 DEF Played
  <2>5. queued = {Song[k] : k \in 1 .. Played}
    BY DEF SongIsQueued
  <2>6. \A k : k \in 1 .. Played + 1 <=> k \in 1 .. Played \/ k = Played + 1
    BY <2>1
  <2>7. queued' = {Song[k] : k \in 1 .. Played + 1}
    BY <2>2, <2>5, <2>6
  <2> QED
    BY <2>1, <2>3, <2>4, <2>7
<1>2. CASE queued' = queued
  BY <1>2 DEF SongIsQueued, Played
<1> QED
  BY <1>1, <1>2, QueuedStays

(* What sounds has been queued, and what has been queued remains so. *)
LEMMA SoundingKept ==
  ASSUME EngineKeeps, SongIsQueued, [LifecycleNext]_lifecycleVars, main' \in Busy
  PROVE  sounding' \subseteq queued'
<1>1. main \in Busy /\ sounding \subseteq queued /\ IInv
  BY MainGoesOn DEF SongIsQueued, EngineKeeps
<1>2. queued \subseteq queued'
  BY QueuedStays, NextOfTheSong DEF QueueMidiEvent
<1>3. CASE sounding' = sounding
  BY <1>1, <1>2, <1>3
<1>4. CASE sounding' = Heeded(Oldest) /\ mRingbuffer # <<>>
  <2>1. Heeded(Oldest) \subseteq sounding \cup {Oldest}
    BY DEF Heeded
  <2>2. TypeOK /\ queued = UNION {mMidiHeap, InFlight, InRing, Heard, lost}
    BY <1>1 DEF IInv, AccountedFor
  <2>3. Oldest \in InRing
    BY <1>4, <2>2, OldestFacts DEF InRing
  <2> QED
    BY <1>1, <1>2, <1>4, <2>1, <2>2, <2>3
<1>5. sounding' = sounding \/ CallbackStep
  BY DEF LifecycleNext, MainStep, RegisterOutputPort, ReadToTheEnd, PlayNext, SongEnds, Poll,
         PlayReturns, BeginStopSounds, StopSounds, SoundsStopped, Shutdown, Signal, ThreadStep,
         Frame, Exited, lifecycleVars, others
<1>6. CallbackStep =>
        \/ sounding' = sounding
        \/ sounding' = Heeded(Oldest) /\ mRingbuffer # <<>>
  BY DEF CallbackStep, Callback, CallbackStart, CallbackRead, CallbackEnd, Readable
<1> QED
  BY <1>3, <1>4, <1>5, <1>6

LEMMA SongKept ==
  ASSUME EngineKeeps, SongIsQueued, [LifecycleNext]_lifecycleVars
  PROVE  SongIsQueued'
<1>1. /\ IsFiniteSet(queued') /\ Played' <= Len(Song)
      /\ queued' = {Song[k] : k \in 1 .. Played'}
  BY TheSongGrows
<1>2. main' \in Busy => sounding' \subseteq queued'
  BY SoundingKept
<1>3. \/ \E p \in Port : RegisterOutputPort(p)
      \/ ReadToTheEnd \/ PlayNext \/ SongEnds \/ Signal
      \/ /\ UNCHANGED <<queued, mOutputPorts, signalled>>
         /\ \/ main' = main
            \/ main' # "reading" /\ main \notin {"reading", "playing"}
  <2>1. CASE MainStep
    BY <2>1, QueuedStays
       DEF MainStep, ReadToTheEnd, Poll, PlayReturns, BeginStopSounds, StopSounds, SoundsStopped,
           Shutdown, vars, history
  <2>2. CASE ThreadStep \/ CallbackStep \/ Frame
    BY <2>2, QueuedStays DEF ThreadStep, CallbackStep, Frame, mainVars
  <2>3. CASE UNCHANGED lifecycleVars
    BY <2>3 DEF lifecycleVars, vars, history, mainVars
  <2> QED
    BY <2>1, <2>2, <2>3 DEF LifecycleNext, Exited
<1>4. ASSUME ~signalled', main' # "reading", NEW m \in Range(Song)
      PROVE  PortOf(m) \in Range(mOutputPorts')
  BY <1>3, <1>4
     DEF RegisterOutputPort, ReadToTheEnd, PlayNext, SongEnds, Signal, mainVars, SongIsQueued
<1>5. ASSUME ~signalled', main' \notin {"reading", "playing"}
      PROVE  Played' = Len(Song)
  BY <1>3, <1>5
     DEF RegisterOutputPort, ReadToTheEnd, PlayNext, SongEnds, Signal, mainVars, vars, history,
         SongIsQueued, Played
<1> QED
  BY <1>1, <1>2, <1>4, <1>5 DEF SongIsQueued

-----------------------------------------------------------------------------
(* The last sleep of play. *)

(* What is neither in the heap nor lost has passed the thread. *)
LEMMA PassedOrLost ==
  ASSUME IInv, mMidiHeap = {}
  PROVE  \A m \in queued \ lost : m \in Message /\ m.due \in Nat /\ m.due <= now + LookAhead
<1>1. queued = UNION {mMidiHeap, InFlight, InRing, Heard, lost} /\ queued \subseteq Message
  BY DEF IInv, AccountedFor, TypeOK
<1>2. \A m \in Passed : m.due <= now + LookAhead
  BY DEF IInv, PassedIsDue
<1>3. queued \ lost \subseteq Passed
  BY <1>1 DEF Passed
<1> QED
  BY <1>1, <1>2, <1>3, QueuedAssumption

LEMMA LostGrows ==
  ASSUME [LifecycleNext]_lifecycleVars
  PROVE  lost \subseteq lost'
<1>1. CASE MainStep \/ Signal
  BY <1>1, MainSteps
     DEF PlayNext, QueueMidiEvent, PlayReturns, StopSounds, WriteMidiData, SoundsStopped, history,
         vars
<1>2. CASE ThreadStep
  BY <1>2 DEF ThreadStep, Thread, PeekFirst, ComparePeeked, ClockFirst, PeekClocked, PopDue,
              WritePopped, WriteMidiData, Wake, history
<1>3. CASE CallbackStep \/ Frame
  BY <1>3 DEF CallbackStep, Callback, CallbackStart, CallbackRead, CallbackEnd, Frame, Tick,
              history
<1>4. CASE UNCHANGED lifecycleVars
  BY <1>4 DEF lifecycleVars, vars, history
<1> QED
  BY <1>1, <1>2, <1>3, <1>4 DEF LifecycleNext, Exited

(* The clock does not go back. *)
LEMMA NowGrows ==
  ASSUME ClockAndPorts, [LifecycleNext]_lifecycleVars
  PROVE  now \in Nat /\ now' \in Nat /\ now <= now'
<1>1. now \in Nat /\ now' \in Nat
  BY ClockAndPortsKept, FrameAssumption DEF ClockAndPorts
<1>2. now' = now \/ now' = now + 1
  <2>1. CASE MainStep \/ Signal
    BY <2>1, MainSteps
       DEF PlayNext, QueueMidiEvent, PlayReturns, StopSounds, SoundsStopped, others, vars
  <2>2. CASE ThreadStep
    BY <2>2 DEF ThreadStep, Thread, PeekFirst, ComparePeeked, ClockFirst, PeekClocked, PopDue,
                WritePopped, Wake
  <2>3. CASE CallbackStep \/ Frame
    BY <2>3 DEF CallbackStep, Callback, CallbackStart, CallbackRead, CallbackEnd, Frame, Tick
  <2>4. CASE UNCHANGED lifecycleVars
    BY <2>4 DEF lifecycleVars, vars
  <2> QED
    BY <2>1, <2>2, <2>3, <2>4 DEF LifecycleNext, Exited
<1> QED
  BY <1>1, <1>2

LEMMA AllIsDueKept ==
  ASSUME LookAhead <= PollFrames, Clocks, HeapIsLeftEmpty, EngineKeeps, ClockAndPorts,
         SongIsQueued, AllIsDue, [LifecycleNext]_lifecycleVars, Clocks', HeapIsLeftEmpty'
  PROVE  AllIsDue'
<1> SUFFICES ASSUME ~signalled', main' \in {"waiting", "ending"},
                    NEW m \in queued' \ lost'
             PROVE  /\ main' = "waiting" => m.due <= mainWake' - PollFrames + LookAhead
                    /\ main' = "ending" => m.due <= now'
  BY DEF AllIsDue
<1>1. main \in Busy /\ IInv /\ main' \in Busy
  BY MainGoesOn DEF EngineKeeps, Busy
<1>2. queued' = queued
  BY QueuedStays DEF PlayNext, mainVars
<1>3. m \in queued \ lost /\ m.due \in Nat
  <2>1. m \in queued \ lost
    BY <1>2, LostGrows
  <2> QED
    BY <1>1, <2>1, QueuedAssumption DEF IInv, TypeOK
<1>4. LookAhead \in Nat /\ PollFrames \in Nat /\ now \in Nat /\ now' \in Nat /\ now <= now'
      /\ mainWake \in Nat /\ mainWake' \in Nat
  BY NowGrows, FrameAssumption, FramesAreNumbers DEF Clocks
<1>5. CASE Poll
  <2>1. /\ main' = "waiting" /\ mMidiHeap' = mMidiHeap /\ ~signalled
        /\ mainWake' = now + PollFrames
    BY <1>5 DEF Poll, vars, heapVars
  <2>2. mMidiHeap = {}
    BY <2>1 DEF HeapIsLeftEmpty
  <2>3. m.due <= now + LookAhead
    BY <1>1, <1>3, <2>2, PassedOrLost
  <2> QED
    BY <1>3, <1>4, <2>1, <2>3
<1>6. CASE PlayReturns
  <2>1. main = "waiting" /\ now >= mainWake /\ main' = "ending" /\ ~signalled /\ now' = now
    BY <1>6 DEF PlayReturns, others
  <2>2. m.due <= mainWake - PollFrames + LookAhead
    BY <1>3, <2>1 DEF AllIsDue
  <2> QED
    BY <1>3, <1>4, <2>1, <2>2
<1>7. CASE main' = main /\ mainWake' = mainWake /\ signalled' = signalled
  <2>1. /\ main = "waiting" => m.due <= mainWake - PollFrames + LookAhead
        /\ main = "ending" => m.due <= now
    BY <1>3, <1>7 DEF AllIsDue
  <2> QED
    BY <1>3, <1>4, <1>7, <2>1
<1>8. \/ Poll \/ PlayReturns
      \/ main' = main /\ mainWake' = mainWake /\ signalled' = signalled
  <2>1. CASE MainStep \/ Signal
    BY <2>1 DEF MainStep, RegisterOutputPort, ReadToTheEnd, PlayNext, SongEnds, BeginStopSounds,
                StopSounds, SoundsStopped, Shutdown, Signal, mainVars
  <2>2. CASE ThreadStep \/ CallbackStep \/ Frame
    BY <2>2 DEF ThreadStep, CallbackStep, Frame, mainVars
  <2>3. CASE UNCHANGED lifecycleVars
    BY <2>3 DEF lifecycleVars, mainVars
  <2> QED
    BY <2>1, <2>2, <2>3 DEF LifecycleNext, Exited
<1> QED
  BY <1>5, <1>6, <1>7, <1>8

-----------------------------------------------------------------------------
(* The steps while the ports are silenced, and after it, without a signal: *)
(* the thread has nothing to do any more.                                  *)

Silences ==
  /\ main = "silencing" /\ toSilence # <<>> /\ toSilence' = Tail(toSilence)
  /\ WriteMidiData(SoundOff(Head(toSilence)))
  /\ UNCHANGED <<now, last, callback, heard, queued, sounding, main, mainWake>>

Reads ==
  /\ callback = "running" /\ Readable /\ mRingbuffer' = Tail(mRingbuffer)
  /\ \/ Heard' = Heard \cup {Oldest} /\ lost' = lost /\ sounding' = Heeded(Oldest)
     \/ Heard' = Heard /\ lost' = lost \cup {Oldest} /\ sounding' = sounding
  /\ callback' = "done" => lost' = lost \cup {Oldest}
  /\ UNCHANGED <<now, last, queued, toSilence, main, mainWake>>

Passes ==
  /\ main # "exited" /\ now' = now + 1
  /\ \/ UNCHANGED <<last, callback>>
     \/ PeriodEnds /\ callback = "done" /\ last' = now + 1 /\ callback' = "waiting"
  /\ UNCHANGED <<mRingbuffer, heard, lost, queued, sounding, toSilence, main, mainWake>>

Rests ==
  /\ \/ callback' = callback \/ callback' = "running"
     \/ callback' = "done" /\ ~Readable
  /\ UNCHANGED <<mRingbuffer, now, last, heard, lost, queued, sounding, toSilence, main, mainWake>>

LEMMA MainSilences ==
  ASSUME HeapIsLeftEmpty, MainStep, Leaving'
  PROVE  /\ ~signalled
         /\ \/ BeginStopSounds
            \/ Leaving /\ (Silences \/ SoundsStopped \/ Shutdown)
<1>1. CASE BeginStopSounds
  BY <1>1 DEF BeginStopSounds, Leaving
<1>2. CASE StopSounds
  <2>1. main = "silencing" /\ UNCHANGED <<main, mainWake, signalled, now, jackVars, heard, queued, sounding>>
        /\ toSilence # <<>> /\ toSilence' = Tail(toSilence)
    BY <1>2 DEF StopSounds
  <2>2. ~signalled
    BY <2>1 DEF Leaving
  <2>3. thread # "writing"
    BY <2>1, <2>2 DEF HeapIsLeftEmpty
  <2>4. WriteMidiData(SoundOff(Head(toSilence)))
    BY <1>2, <2>3 DEF StopSounds
  <2> QED
    BY <2>1, <2>2, <2>4 DEF Silences, Leaving, jackVars
<1>3. CASE SoundsStopped
  BY <1>3 DEF SoundsStopped, Leaving
<1>4. CASE Shutdown
  BY <1>4 DEF Shutdown, Leaving
<1>5. BeginStopSounds \/ StopSounds \/ SoundsStopped \/ Shutdown
  BY DEF MainStep, RegisterOutputPort, ReadToTheEnd, PlayNext, SongEnds, Poll, PlayReturns,
         mainVars, Leaving
<1> QED
  BY <1>1, <1>2, <1>3, <1>4, <1>5

LEMMA ThreadIsDone ==
  ASSUME HeapIsLeftEmpty, ThreadStep, Leaving'
  PROVE  ~signalled /\ Leaving /\ Rests
<1>1. main # "exited" /\ UNCHANGED <<mainVars, sounding>>
  BY DEF ThreadStep, Alive
<1>2. ~signalled /\ Leaving /\ main \in {"silencing", "closing"}
  BY <1>1 DEF mainVars, Leaving
<1>3. mMidiHeap = {} /\ thread # "writing"
  BY <1>2 DEF HeapIsLeftEmpty
<1>4. PeekFirst \/ ComparePeeked \/ ClockFirst \/ PeekClocked \/ Wake
  BY <1>3 DEF ThreadStep, Thread, PopDue, WritePopped, Heap!PopMin, Heap!Earliest
<1>5. UNCHANGED <<mRingbuffer, now, jackVars, history>>
  BY <1>4 DEF PeekFirst, ComparePeeked, ClockFirst, PeekClocked, Wake
<1> QED
  BY <1>1, <1>2, <1>5 DEF Rests, mainVars, jackVars, history

LEMMA CallbackGoesOn ==
  ASSUME CallbackStep, Leaving'
  PROVE  ~signalled /\ Leaving /\ (Reads \/ Rests)
<1>1. UNCHANGED <<main, mainWake, toSilence, signalled>>
  BY DEF CallbackStep, mainVars
<1>2. ~signalled /\ Leaving
  BY <1>1 DEF Leaving
<1>3. CASE CallbackStart
  BY <1>1, <1>2, <1>3 DEF CallbackStart, CallbackStep, Rests, history
<1>4. CASE CallbackEnd
  BY <1>1, <1>2, <1>4 DEF CallbackEnd, CallbackStep, Rests, history
<1>5. CASE CallbackRead
  <2> DEFINE frame == last + Clipped(Offset)
  <2>1. /\ callback = "running" /\ Readable /\ mRingbuffer' = Tail(mRingbuffer)
        /\ UNCHANGED <<now, last, queued>>
    BY <1>5 DEF CallbackRead, Advanced
  <2>2. \/ /\ heard' = heard \cup {[msg |-> Oldest, frame |-> frame]}
           /\ callback' = callback /\ lost' = lost
        \/ lost' = lost \cup {Oldest} /\ callback' = "done" /\ heard' = heard
    BY <1>5 DEF CallbackRead
  <2>3. CASE /\ heard' = heard \cup {[msg |-> Oldest, frame |-> frame]}
             /\ callback' = callback /\ lost' = lost
    <3>1. Heard' = Heard \cup {Oldest}
      <4> HIDE DEF frame
      <4>1. \A h : h \in heard' <=> h \in heard \/ h = [msg |-> Oldest, frame |-> frame]
        BY <2>3
      <4>2. [msg |-> Oldest, frame |-> frame].msg = Oldest
        OBVIOUS
      <4> QED
        BY <4>1, <4>2 DEF Heard
    <3>2. sounding' = Heeded(Oldest)
      BY <2>1, <2>3 DEF CallbackStep
    <3> QED
      BY <1>1, <1>2, <2>1, <2>3, <3>1, <3>2 DEF Reads
  <2>4. CASE lost' = lost \cup {Oldest} /\ callback' = "done" /\ heard' = heard
    <3>1. sounding' = sounding /\ Heard' = Heard
      BY <2>1, <2>4 DEF CallbackStep, Heard
    <3> QED
      BY <1>1, <1>2, <2>1, <2>4, <3>1 DEF Reads
  <2> QED
    BY <2>2, <2>3, <2>4
<1> QED
  BY <1>2, <1>3, <1>4, <1>5 DEF CallbackStep, Callback

LEMMA LeavingSteps ==
  ASSUME HeapIsLeftEmpty, [LifecycleNext]_lifecycleVars, Leaving'
  PROVE  /\ ~signalled
         /\ \/ BeginStopSounds
            \/ Leaving /\ (Silences \/ SoundsStopped \/ Shutdown \/ Reads \/ Passes \/ Rests)
<1>1. CASE MainStep
  BY <1>1, MainSilences
<1>2. CASE Signal
  BY <1>2 DEF Signal, Leaving
<1>3. CASE ThreadStep
  BY <1>3, ThreadIsDone
<1>4. CASE CallbackStep
  BY <1>4, CallbackGoesOn
<1>5. CASE Alive /\ Frame
  BY <1>5 DEF Frame, Tick, Alive, mainVars, Leaving, Passes
<1>6. CASE UNCHANGED lifecycleVars
  BY <1>6 DEF lifecycleVars, vars, jackVars, history, mainVars, Leaving, Rests
<1> QED
  BY <1>1, <1>2, <1>3, <1>4, <1>5, <1>6 DEF LifecycleNext, Exited

-----------------------------------------------------------------------------
(* The ringbuffer, with the messages of stopSounds in it. *)

LEMMA OneMore ==
  ASSUME NEW S, mRingbuffer \in Seq(S), NEW m \in S, mRingbuffer' = Append(mRingbuffer, m)
  PROVE  /\ mRingbuffer' \in Seq(S) /\ Len(mRingbuffer) \in Nat
         /\ DOMAIN mRingbuffer = 1 .. Len(mRingbuffer)
         /\ DOMAIN mRingbuffer' = 1 .. Len(mRingbuffer) + 1
         /\ \A k \in 1 .. Len(mRingbuffer) : mRingbuffer'[k] = mRingbuffer[k]
         /\ mRingbuffer'[Len(mRingbuffer) + 1] = m
         /\ InRing' = InRing \cup {m}
<1>1. /\ mRingbuffer' \in Seq(S) /\ Len(mRingbuffer) \in Nat
      /\ DOMAIN mRingbuffer = 1 .. Len(mRingbuffer)
      /\ DOMAIN mRingbuffer' = 1 .. Len(mRingbuffer) + 1
      /\ \A k \in 1 .. Len(mRingbuffer) : mRingbuffer'[k] = mRingbuffer[k]
      /\ mRingbuffer'[Len(mRingbuffer) + 1] = m
  OBVIOUS
<1>2. \A k : k \in DOMAIN mRingbuffer' <=> k \in DOMAIN mRingbuffer \/ k = Len(mRingbuffer) + 1
  BY <1>1
<1>3. InRing' = InRing \cup {m}
  BY <1>1, <1>2 DEF InRing
<1> QED
  BY <1>1, <1>3

LEMMA OneLess ==
  ASSUME NEW S, mRingbuffer \in Seq(S), mRingbuffer # <<>>, mRingbuffer' = Tail(mRingbuffer)
  PROVE  /\ mRingbuffer' \in Seq(S) /\ Len(mRingbuffer) \in Nat \ {0}
         /\ DOMAIN mRingbuffer = 1 .. Len(mRingbuffer)
         /\ DOMAIN mRingbuffer' = 1 .. Len(mRingbuffer) - 1
         /\ \A k \in 1 .. Len(mRingbuffer) - 1 : mRingbuffer'[k] = mRingbuffer[k + 1]
         /\ Oldest = mRingbuffer[1] /\ Oldest \in InRing
         /\ InRing = InRing' \cup {Oldest}
<1>1. /\ mRingbuffer' \in Seq(S) /\ Len(mRingbuffer) \in Nat \ {0}
      /\ DOMAIN mRingbuffer = 1 .. Len(mRingbuffer)
      /\ DOMAIN mRingbuffer' = 1 .. Len(mRingbuffer) - 1
      /\ \A k \in 1 .. Len(mRingbuffer) - 1 : mRingbuffer'[k] = mRingbuffer[k + 1]
  OBVIOUS
<1>2. Oldest = mRingbuffer[1] /\ Oldest \in InRing
  BY <1>1 DEF Oldest, InRing
<1>3. InRing' \subseteq InRing
  BY <1>1 DEF InRing
<1>4. ASSUME NEW m \in InRing, m # Oldest PROVE m \in InRing'
  <2>1. PICK k \in DOMAIN mRingbuffer : m = mRingbuffer[k]
    BY DEF InRing
  <2>2. k - 1 \in DOMAIN mRingbuffer' /\ mRingbuffer'[k - 1] = m
    BY <1>1, <1>2, <1>4, <2>1
  <2> QED
    BY <2>2 DEF InRing
<1> QED
  BY <1>1, <1>2, <1>3, <1>4

LEMMA SoundOffFacts ==
  ASSUME BeforeTheWrap, ClockAndPorts, NEW p \in Port
  PROVE  /\ SoundOff(p) \in SoundOffs /\ PortOf(SoundOff(p)) = p
         /\ SoundOff(p).due = now /\ SoundOff(p).time = now
         /\ SoundOff(p).kind = "sound off" /\ SoundOff(p).channel = 0
<1>1. now \in Nat /\ now < Wrap /\ Wrap \in Nat \ {0}
  BY FrameAssumption DEF ClockAndPorts, BeforeTheWrap
<1>2. now % Wrap = now
  BY <1>1, ModFacts
<1>3. SoundOff(p).port = p /\ p # NoPort
  BY PortAssumption DEF SoundOff
<1> QED
  BY <1>1, <1>2, <1>3 DEF SoundOff, SoundOffs, PortOf

(* Where stopSounds begins, the ringbuffer holds what the thread left. *)
LEMMA RingAtTheEnd ==
  ASSUME BeforeTheWrap, HeapIsLeftEmpty, EngineKeeps, AllIsDue, ~signalled, main = "ending"
  PROVE  /\ queued \subseteq InRing \cup Heard \cup lost
         /\ InRing \subseteq queued /\ mRingbuffer \in Seq(Message)
         /\ \A m \in InRing : m.due \in Nat /\ m.time = m.due /\ m.due <= now
<1>1. IInv /\ TypeOK
  BY DEF EngineKeeps, Busy, IInv
<1>2. mMidiHeap = {} /\ InFlight = {}
  BY DEF HeapIsLeftEmpty, InFlight
<1>3. queued = UNION {mMidiHeap, InFlight, InRing, Heard, lost} /\ InRing \cap lost = {}
  BY <1>1 DEF IInv, AccountedFor, OnePlace
<1>4. queued \subseteq InRing \cup Heard \cup lost /\ InRing \subseteq queued \ lost
  BY <1>2, <1>3
<1>5. \A m \in queued \ lost : m.due <= now
  BY DEF AllIsDue
<1>6. mRingbuffer \in Seq(Message) /\ queued \subseteq Message
  BY <1>1 DEF TypeOK
<1>7. \A m \in Message : m.due \in Nat /\ m.time = m.due
  BY <1>1, TimeFacts
<1> QED
  BY <1>4, <1>5, <1>6, <1>7

LEMMA RingIsDueKept ==
  ASSUME BeforeTheWrap, HeapIsLeftEmpty, EngineKeeps, ClockAndPorts, AllIsDue, RingIsDue,
         [LifecycleNext]_lifecycleVars
  PROVE  RingIsDue'
<1> SUFFICES ASSUME Leaving'
             PROVE  /\ queued' \subseteq InRing' \cup Heard' \cup lost'
                    /\ mRingbuffer' \in Seq(Message \cup SoundOffs)
                    /\ \A m \in InRing' : m.due \in Nat /\ m.time = m.due /\ m.due <= now'
  BY DEF RingIsDue
<1> DEFINE S == Message \cup SoundOffs
<1>1. CASE ~signalled /\ BeginStopSounds
  <2>1. main = "ending" /\ UNCHANGED <<mRingbuffer, now, queued, heard, lost>>
    BY <1>1 DEF BeginStopSounds, vars, history
  <2>2. InRing' = InRing /\ Heard' = Heard
    BY <2>1 DEF InRing, Heard
  <2>3. mRingbuffer \in Seq(Message \cup SoundOffs)
    BY <1>1, <2>1, RingAtTheEnd
  <2> QED
    BY <1>1, <2>1, <2>2, <2>3, RingAtTheEnd
<1>2. ASSUME Leaving
      PROVE  /\ queued \subseteq InRing \cup Heard \cup lost
             /\ mRingbuffer \in Seq(S)
             /\ \A m \in InRing : m.due \in Nat /\ m.time = m.due /\ m.due <= now
  BY <1>2 DEF RingIsDue
<1>3. now \in Nat /\ now' \in Nat /\ now <= now'
  BY NowGrows
<1> HIDE DEF S
<1>4. CASE Leaving /\ Silences
  <2> DEFINE off == SoundOff(Head(toSilence))
  <2>1. Head(toSilence) \in Port
    BY <1>4 DEF Silences, ClockAndPorts
  <2>2. off \in S /\ off.due = now /\ off.time = now
    BY <2>1, SoundOffFacts DEF S
  <2>3. Heard' = Heard /\ queued' = queued /\ now' = now
    BY <1>4 DEF Silences, Heard
  <2>4. \/ mRingbuffer' = Append(mRingbuffer, off) /\ lost' = lost
        \/ mRingbuffer' = mRingbuffer /\ lost' = lost \cup {off}
    BY <1>4 DEF Silences, WriteMidiData
  <2> HIDE DEF off
  <2>5. CASE mRingbuffer' = Append(mRingbuffer, off) /\ lost' = lost
    <3>1. mRingbuffer' \in Seq(S) /\ InRing' = InRing \cup {off}
      BY <1>2, <1>4, <2>2, <2>5, OneMore
    <3> QED
      BY <1>2, <1>3, <1>4, <2>2, <2>3, <2>5, <3>1 DEF S
  <2>6. CASE mRingbuffer' = mRingbuffer /\ lost' = lost \cup {off}
    <3>1. InRing' = InRing
      BY <2>6 DEF InRing
    <3> QED
      BY <1>2, <1>4, <2>3, <2>6, <3>1 DEF S
  <2> QED
    BY <2>4, <2>5, <2>6
<1>5. CASE Leaving /\ Reads
  <2>1. mRingbuffer # <<>> /\ mRingbuffer' = Tail(mRingbuffer) /\ queued' = queued /\ now' = now
    BY <1>5 DEF Reads, Readable
  <2>2. mRingbuffer' \in Seq(S) /\ InRing = InRing' \cup {Oldest}
    BY <1>2, <1>5, <2>1, OneLess
  <2>3. Heard \cup lost \cup {Oldest} = Heard' \cup lost'
    BY <1>5 DEF Reads
  <2> QED
    BY <1>2, <1>5, <2>1, <2>2, <2>3 DEF S
<1>6. CASE Leaving /\ (SoundsStopped \/ Shutdown \/ Passes \/ Rests)
  <2>1. UNCHANGED <<mRingbuffer, queued, heard, lost>>
    BY <1>6 DEF SoundsStopped, Shutdown, Passes, Rests, vars, history
  <2>2. InRing' = InRing /\ Heard' = Heard
    BY <2>1 DEF InRing, Heard
  <2>3. \A m \in InRing : m.due <= now'
    BY <1>2, <1>3, <1>6
  <2> QED
    BY <1>2, <1>6, <2>1, <2>2, <2>3 DEF S
<1> QED
  BY <1>1, <1>4, <1>5, <1>6, LeavingSteps
-----------------------------------------------------------------------------
(* The last periods. *)

(* A message that was due before the period began belongs into it. *)
LEMMA PastIsReadable ==
  ASSUME BeforeTheWrap, ClockAndPorts, RingIsDue, Leaving, mRingbuffer # <<>>,
         \A m \in InRing : m.due < last
  PROVE  Readable
<1>1. Oldest \in InRing
  BY OneLess DEF RingIsDue, Oldest, InRing
<1>2. Oldest.due \in Nat /\ Oldest.time = Oldest.due /\ Oldest.due < last
  BY <1>1 DEF RingIsDue
<1> DEFINE x == Oldest.time + NFrames - last
<1>3. /\ last \in Nat /\ last <= MaxFrame /\ MaxFrame \in Nat /\ LookAhead \in Nat
      /\ NFrames \in Nat \ {0} /\ Wrap \div 2 \in Nat
      /\ MaxFrame + LookAhead + 2 * NFrames < Wrap \div 2
  BY FrameAssumption DEF ClockAndPorts, BeforeTheWrap
<1>4. x \in Int /\ x < NFrames /\ -(Wrap \div 2) <= x /\ x < Wrap \div 2
  BY <1>2, <1>3
<1>5. Signed(x) = x
  BY <1>4, SignedFacts
<1> QED
  BY <1>4, <1>5 DEF Readable, Offset

LEMMA RingIsFlushedKept ==
  ASSUME BeforeTheWrap, Clocks, HeapIsLeftEmpty, ClockAndPorts, RingIsDue, RingIsFlushed,
         [LifecycleNext]_lifecycleVars
  PROVE  RingIsFlushed'
<1> DEFINE asleep == mainWake - PollFrames
<1> SUFFICES ASSUME Leaving', main' # "silencing"
             PROVE  /\ \A m \in InRing' : m.due <= asleep'
                    /\ lost' = {} /\ asleep' < last' /\ callback' = "done" => mRingbuffer' = <<>>
                    /\ lost' = {} /\ asleep' + NFrames < last' => mRingbuffer' = <<>>
                    /\ main' = "exited" => now' >= mainWake'
  BY DEF RingIsFlushed
<1>1. /\ PollFrames \in Nat /\ NFrames \in Nat \ {0} /\ now \in Nat /\ last \in Nat /\ last <= now
      /\ mainWake \in Nat /\ asleep \in Int
  BY FrameAssumption, FramesAreNumbers DEF Clocks, ClockAndPorts
<1>2. ASSUME Leaving, main # "silencing"
      PROVE  /\ \A m \in InRing : m.due <= asleep
             /\ lost = {} /\ asleep < last /\ callback = "done" => mRingbuffer = <<>>
             /\ lost = {} /\ asleep + NFrames < last => mRingbuffer = <<>>
             /\ main = "exited" => now >= mainWake
  BY <1>2 DEF RingIsFlushed
<1>3. ASSUME Leaving PROVE \A m \in InRing : m.due \in Nat /\ m.due <= now
  BY <1>3 DEF RingIsDue
<1>4. CASE Leaving /\ SoundsStopped
  <2>1. /\ main' = "closing" /\ mainWake' = now + PollFrames
        /\ UNCHANGED <<mRingbuffer, last, now>>
    BY <1>4 DEF SoundsStopped, Leaving, others, jackVars
  <2>2. InRing' = InRing
    BY <2>1 DEF InRing
  <2> QED
    BY <1>1, <1>3, <1>4, <2>1, <2>2
<1>5. CASE Leaving /\ Shutdown
  <2>1. /\ main = "closing" /\ now >= mainWake /\ mainWake' = mainWake
        /\ UNCHANGED <<mRingbuffer, last, now, callback, lost>>
    BY <1>5 DEF Shutdown, vars, jackVars, history
  <2>2. InRing' = InRing
    BY <2>1 DEF InRing
  <2> QED
    BY <1>2, <1>5, <2>1, <2>2
<1>6. CASE Leaving /\ Reads
  <2>1. /\ mRingbuffer # <<>> /\ mRingbuffer' = Tail(mRingbuffer)
        /\ UNCHANGED <<main, mainWake, now, last>>
        /\ lost \subseteq lost' /\ (callback' = "done" => lost' # {})
    BY <1>6 DEF Reads, Readable
  <2>2. InRing' \subseteq InRing
    BY <1>6, <2>1, OneLess DEF RingIsDue
  <2> QED
    BY <1>2, <1>6, <2>1, <2>2
<1>7. CASE Leaving /\ Passes
  <2>1. /\ now' = now + 1 /\ UNCHANGED <<mRingbuffer, lost, main, mainWake>> /\ main # "exited"
        /\ \/ UNCHANGED <<last, callback>>
           \/ now + 1 = last + NFrames /\ callback = "done" /\ last' = now + 1
              /\ callback' = "waiting"
    BY <1>7 DEF Passes, PeriodEnds
  <2>2. InRing' = InRing
    BY <2>1 DEF InRing
  <2> QED
    BY <1>1, <1>2, <1>7, <2>1, <2>2
<1>8. CASE Leaving /\ Rests
  <2>1. /\ UNCHANGED <<mRingbuffer, now, last, lost, main, mainWake>>
        /\ callback' = "done" => callback = "done" \/ ~Readable
    BY <1>8 DEF Rests
  <2>2. InRing' = InRing
    BY <2>1 DEF InRing
  <2>3. asleep < last /\ ~Readable => mRingbuffer = <<>>
    <3> SUFFICES ASSUME asleep < last, mRingbuffer # <<>> PROVE Readable
      OBVIOUS
    <3>1. \A m \in InRing : m.due < last
      BY <1>1, <1>2, <1>3, <1>8, <2>1
    <3> QED
      BY <1>8, <3>1, PastIsReadable
  <2> QED
    BY <1>2, <1>8, <2>1, <2>2, <2>3
<1> QED
  BY <1>4, <1>5, <1>6, <1>7, <1>8, LeavingSteps DEF BeginStopSounds, Silences

-----------------------------------------------------------------------------
(* The silence after the song. *)

LEMMA SilencedFirst ==
  ASSUME BeforeTheWrap, HeapIsLeftEmpty, EngineKeeps, SongIsQueued, AllIsDue,
         ~signalled, BeginStopSounds
  PROVE  SoundsEnd'
<1>1. /\ main = "ending" /\ main' = "silencing" /\ toSilence' = mOutputPorts
      /\ UNCHANGED <<mRingbuffer, sounding>>
  BY DEF BeginStopSounds, PortsToSilence, vars
<1>2. \A m \in queued : PortOf(m) \in Range(toSilence')
  <2>1. \A m \in Range(Song) : PortOf(m) \in Range(toSilence')
    BY <1>1 DEF SongIsQueued
  <2>2. Song \in Seq(Message) /\ Played \in Nat /\ Played <= Len(Song)
    BY LifecycleAssumption, FS_CardinalityType DEF SongIsQueued, Played
  <2>3. \A k \in 1 .. Played : k \in DOMAIN Song
    BY <2>2
  <2>4. queued = {Song[k] : k \in 1 .. Played}
    BY DEF SongIsQueued
  <2>5. queued \subseteq Range(Song)
    BY <2>3, <2>4 DEF Range
  <2> QED
    BY <2>1, <2>5
<1>3. sounding \subseteq queued /\ InRing \subseteq queued
  BY <1>1, RingAtTheEnd DEF SongIsQueued, Busy
<1>4. \A m \in sounding' : WillBeSilent(PortOf(m), mRingbuffer', 0, toSilence')
  BY <1>1, <1>2, <1>3 DEF WillBeSilent
<1>5. \A k \in DOMAIN mRingbuffer' :
        WillBeSilent(PortOf(mRingbuffer'[k]), mRingbuffer', k, toSilence')
  BY <1>1, <1>2, <1>3 DEF WillBeSilent, InRing
<1> QED
  BY <1>1, <1>4, <1>5 DEF SoundsEnd

(* A port that is silenced has its message at the end of the ringbuffer,   *)
(* behind all others.                                                      *)
LEMMA SilencedNext ==
  ASSUME BeforeTheWrap, ClockAndPorts, RingIsDue, SoundsEnd, Leaving, Silences
  PROVE  SoundsEnd'
<1> DEFINE off == SoundOff(Head(toSilence))
           S == Message \cup SoundOffs
<1> SUFFICES ASSUME lost' = {} PROVE SoundsEnd'
  BY DEF SoundsEnd
<1>1. /\ main = "silencing" /\ main' = "silencing" /\ sounding' = sounding
      /\ toSilence # <<>> /\ toSilence' = Tail(toSilence) /\ toSilence \in Seq(Port)
  BY DEF Silences, ClockAndPorts
<1>2. /\ Head(toSilence) \in Port
      /\ \A p \in Range(toSilence) : p = Head(toSilence) \/ p \in Range(toSilence')
  <2>1. /\ Head(toSilence) = toSilence[1] /\ Head(toSilence) \in Port
        /\ DOMAIN toSilence = 1 .. Len(toSilence) /\ Len(toSilence) \in Nat
        /\ DOMAIN toSilence' = 1 .. Len(toSilence) - 1
        /\ \A k \in 1 .. Len(toSilence) - 1 : toSilence'[k] = toSilence[k + 1]
    BY <1>1
  <2>2. ASSUME NEW p \in Range(toSilence), p # Head(toSilence)
        PROVE  p \in Range(toSilence')
    <3>1. PICK k \in DOMAIN toSilence : p = toSilence[k]
      BY DEF Range
    <3>2. k - 1 \in DOMAIN toSilence' /\ toSilence'[k - 1] = p
      BY <2>1, <2>2, <3>1
    <3> QED
      BY <3>2 DEF Range
  <2> QED
    BY <2>1, <2>2
<1>3. /\ off \in S /\ PortOf(off) = Head(toSilence)
      /\ off.kind = "sound off" /\ off.channel = 0
  BY <1>2, SoundOffFacts
<1> HIDE DEF off, S
<1>4. mRingbuffer' = Append(mRingbuffer, off) /\ lost = {}
  <2>1. \/ mRingbuffer' = Append(mRingbuffer, off) /\ lost' = lost
        \/ lost' = lost \cup {off}
    BY DEF Silences, WriteMidiData, off
  <2> QED
    BY <2>1
<1>5. mRingbuffer \in Seq(S)
  BY DEF RingIsDue, S
<1>6. /\ Len(mRingbuffer) \in Nat
      /\ DOMAIN mRingbuffer = 1 .. Len(mRingbuffer)
      /\ DOMAIN mRingbuffer' = 1 .. Len(mRingbuffer) + 1
      /\ \A k \in 1 .. Len(mRingbuffer) : mRingbuffer'[k] = mRingbuffer[k]
      /\ mRingbuffer'[Len(mRingbuffer) + 1] = off
  BY <1>3, <1>4, <1>5, OneMore
<1>7. ASSUME NEW p, NEW k \in 0 .. Len(mRingbuffer), WillBeSilent(p, mRingbuffer, k, toSilence)
      PROVE  WillBeSilent(p, mRingbuffer', k, toSilence')
  <2>1. CASE p = Head(toSilence)
    <3>1. Len(mRingbuffer) + 1 \in DOMAIN mRingbuffer' /\ Len(mRingbuffer) + 1 > k
      BY <1>6
    <3>2. PortOf(mRingbuffer'[Len(mRingbuffer) + 1]) = p
      BY <1>3, <1>6, <2>1
    <3> QED
      BY <1>3, <1>6, <3>1, <3>2 DEF WillBeSilent
  <2>2. CASE p \in Range(toSilence')
    BY <2>2 DEF WillBeSilent
  <2>3. CASE \E j \in DOMAIN mRingbuffer :
               /\ j > k /\ PortOf(mRingbuffer[j]) = p
               /\ mRingbuffer[j].kind = "sound off" /\ mRingbuffer[j].channel = 0
    <3>1. PICK j \in DOMAIN mRingbuffer :
            /\ j > k /\ PortOf(mRingbuffer[j]) = p
            /\ mRingbuffer[j].kind = "sound off" /\ mRingbuffer[j].channel = 0
      BY <2>3
    <3>2. j \in DOMAIN mRingbuffer' /\ mRingbuffer'[j] = mRingbuffer[j]
      BY <1>6
    <3> QED
      BY <3>1, <3>2 DEF WillBeSilent
  <2> QED
    BY <1>2, <1>7, <2>1, <2>2, <2>3 DEF WillBeSilent
<1>8. /\ \A m \in sounding :
           m.channel = 0 => WillBeSilent(PortOf(m), mRingbuffer, 0, toSilence)
      /\ \A k \in DOMAIN mRingbuffer :
           mRingbuffer[k].kind = "on" /\ mRingbuffer[k].channel = 0
             => WillBeSilent(PortOf(mRingbuffer[k]), mRingbuffer, k, toSilence)
  BY <1>4 DEF SoundsEnd
<1>9. ASSUME NEW m \in sounding', m.channel = 0
      PROVE  WillBeSilent(PortOf(m), mRingbuffer', 0, toSilence')
  BY <1>1, <1>6, <1>7, <1>8, <1>9
<1>10. ASSUME NEW k \in DOMAIN mRingbuffer',
              mRingbuffer'[k].kind = "on", mRingbuffer'[k].channel = 0
       PROVE  WillBeSilent(PortOf(mRingbuffer'[k]), mRingbuffer', k, toSilence')
  <2>1. k # Len(mRingbuffer) + 1
    BY <1>3, <1>6, <1>10
  <2>2. k \in 1 .. Len(mRingbuffer) /\ mRingbuffer'[k] = mRingbuffer[k]
    BY <1>6, <1>10, <2>1
  <2>3. WillBeSilent(PortOf(mRingbuffer[k]), mRingbuffer, k, toSilence)
    BY <1>6, <1>8, <1>10, <2>2
  <2> QED
    BY <1>7, <2>2, <2>3
<1> QED
  BY <1>1, <1>9, <1>10 DEF SoundsEnd


(* A message that leaves the ringbuffer for JACK ends the notes of its     *)
(* port, or is a note that one behind it ends.                             *)
LEMMA SilencedByReading ==
  ASSUME RingIsDue, SoundsEnd, Leaving, Reads
  PROVE  SoundsEnd'
<1> DEFINE S == Message \cup SoundOffs
<1> SUFFICES ASSUME lost' = {} PROVE SoundsEnd'
  BY DEF SoundsEnd
<1>1. /\ UNCHANGED <<main, toSilence>> /\ mRingbuffer # <<>> /\ mRingbuffer' = Tail(mRingbuffer)
      /\ lost = {} /\ sounding' = Heeded(Oldest)
  <2>1. lost' # lost \cup {Oldest}
    OBVIOUS
  <2> QED
    BY <2>1 DEF Reads, Readable
<1>2. mRingbuffer \in Seq(S)
  BY DEF RingIsDue
<1> HIDE DEF S
<1>3. /\ Len(mRingbuffer) \in Nat \ {0}
      /\ DOMAIN mRingbuffer = 1 .. Len(mRingbuffer)
      /\ DOMAIN mRingbuffer' = 1 .. Len(mRingbuffer) - 1
      /\ \A k \in 1 .. Len(mRingbuffer) - 1 : mRingbuffer'[k] = mRingbuffer[k + 1]
      /\ Oldest = mRingbuffer[1]
  BY <1>1, <1>2, OneLess
<1>4. /\ \A m \in sounding :
           m.channel = 0 => WillBeSilent(PortOf(m), mRingbuffer, 0, toSilence)
      /\ \A k \in DOMAIN mRingbuffer :
           mRingbuffer[k].kind = "on" /\ mRingbuffer[k].channel = 0
             => WillBeSilent(PortOf(mRingbuffer[k]), mRingbuffer, k, toSilence)
      /\ main # "silencing" => toSilence = <<>>
  BY <1>1 DEF SoundsEnd
<1>5. ASSUME NEW p, NEW k \in 1 .. Len(mRingbuffer), WillBeSilent(p, mRingbuffer, k, toSilence)
      PROVE  WillBeSilent(p, mRingbuffer', k - 1, toSilence')
  <2>1. CASE p \in Range(toSilence)
    BY <1>1, <2>1 DEF WillBeSilent
  <2>2. CASE \E j \in DOMAIN mRingbuffer :
               /\ j > k /\ PortOf(mRingbuffer[j]) = p
               /\ mRingbuffer[j].kind = "sound off" /\ mRingbuffer[j].channel = 0
    <3>1. PICK j \in DOMAIN mRingbuffer :
            /\ j > k /\ PortOf(mRingbuffer[j]) = p
            /\ mRingbuffer[j].kind = "sound off" /\ mRingbuffer[j].channel = 0
      BY <2>2
    <3>2. /\ j - 1 \in DOMAIN mRingbuffer' /\ mRingbuffer'[j - 1] = mRingbuffer[j]
          /\ j - 1 > k - 1
      <4>1. k \in Nat /\ k >= 1
        OBVIOUS
      <4>2. j \in 1 .. Len(mRingbuffer) /\ Len(mRingbuffer) \in Nat
        BY <1>3, <3>1
      <4>3. j > k
        BY <3>1
      <4>4. j - 1 \in 1 .. Len(mRingbuffer) - 1 /\ (j - 1) + 1 = j /\ j - 1 > k - 1
        BY <4>1, <4>2, <4>3
      <4> QED
        BY <1>3, <4>4
    <3> QED
      BY <3>1, <3>2 DEF WillBeSilent
  <2> QED
    BY <1>5, <2>1, <2>2 DEF WillBeSilent
<1>6. ASSUME NEW m \in sounding', m.channel = 0
      PROVE  WillBeSilent(PortOf(m), mRingbuffer', 0, toSilence')
  <2>1. CASE Oldest.kind = "on" /\ m = Oldest
    <3>1. WillBeSilent(PortOf(m), mRingbuffer, 1, toSilence)
      BY <1>3, <1>4, <1>6, <2>1
    <3>2. WillBeSilent(PortOf(m), mRingbuffer', 1 - 1, toSilence')
      BY <1>3, <1>5, <3>1
    <3> QED
      BY <3>2
  <2>2. CASE m \in sounding
    <3>1. WillBeSilent(PortOf(m), mRingbuffer, 0, toSilence)
      BY <1>4, <1>6, <2>2
    <3>2. CASE PortOf(m) \in Range(toSilence)
      BY <1>1, <3>2 DEF WillBeSilent
    <3>3. CASE \E j \in DOMAIN mRingbuffer :
                 /\ j > 0 /\ PortOf(mRingbuffer[j]) = PortOf(m)
                 /\ mRingbuffer[j].kind = "sound off" /\ mRingbuffer[j].channel = 0
      <4>1. PICK j \in DOMAIN mRingbuffer :
              /\ j > 0 /\ PortOf(mRingbuffer[j]) = PortOf(m)
              /\ mRingbuffer[j].kind = "sound off" /\ mRingbuffer[j].channel = 0
        BY <3>3
      <4>2. j # 1
        <5> SUFFICES ASSUME j = 1 PROVE FALSE
          OBVIOUS
        <5>1. /\ Oldest.kind = "sound off" /\ Oldest.channel = 0
              /\ PortOf(Oldest) = PortOf(m)
          BY <1>3, <4>1
        <5>2. m \notin Heeded(Oldest)
          BY <1>6, <5>1 DEF Heeded
        <5> QED
          BY <1>1, <5>2
      <4>3. j > 1 /\ 1 \in 1 .. Len(mRingbuffer)
        BY <1>3, <4>2
      <4>4. WillBeSilent(PortOf(m), mRingbuffer, 1, toSilence)
        BY <4>1, <4>3 DEF WillBeSilent
      <4>5. WillBeSilent(PortOf(m), mRingbuffer', 1 - 1, toSilence')
        BY <1>5, <4>3, <4>4
      <4> QED
        BY <4>5
    <3> QED
      BY <3>1, <3>2, <3>3 DEF WillBeSilent
  <2>3. m \in sounding \/ (Oldest.kind = "on" /\ m = Oldest)
    BY <1>1 DEF Heeded
  <2> QED
    BY <2>1, <2>2, <2>3
<1>7. ASSUME NEW k \in DOMAIN mRingbuffer',
             mRingbuffer'[k].kind = "on", mRingbuffer'[k].channel = 0
      PROVE  WillBeSilent(PortOf(mRingbuffer'[k]), mRingbuffer', k, toSilence')
  <2>1. /\ k + 1 \in DOMAIN mRingbuffer /\ k + 1 \in 1 .. Len(mRingbuffer)
        /\ mRingbuffer'[k] = mRingbuffer[k + 1] /\ (k + 1) - 1 = k
    BY <1>3
  <2>2. WillBeSilent(PortOf(mRingbuffer[k + 1]), mRingbuffer, k + 1, toSilence)
    BY <1>4, <1>7, <2>1
  <2>3. WillBeSilent(PortOf(mRingbuffer[k + 1]), mRingbuffer', (k + 1) - 1, toSilence')
    BY <1>5, <2>1, <2>2
  <2> QED
    BY <2>1, <2>3
<1> QED
  BY <1>1, <1>4, <1>6, <1>7 DEF SoundsEnd

LEMMA SoundsEndKept ==
  ASSUME BeforeTheWrap, HeapIsLeftEmpty, EngineKeeps, ClockAndPorts, SongIsQueued, AllIsDue,
         RingIsDue, SoundsEnd, [LifecycleNext]_lifecycleVars
  PROVE  SoundsEnd'
<1> SUFFICES ASSUME Leaving' PROVE SoundsEnd'
  BY DEF SoundsEnd
<1>1. CASE ~signalled /\ BeginStopSounds
  BY <1>1, SilencedFirst
<1>2. CASE Leaving /\ Silences
  BY <1>2, SilencedNext
<1>3. CASE Leaving /\ Reads
  BY <1>3, SilencedByReading
<1>4. CASE Leaving /\ (SoundsStopped \/ Shutdown \/ Passes \/ Rests)
  <2>1. /\ UNCHANGED <<mRingbuffer, lost, sounding, toSilence>>
        /\ main' # "silencing" => main # "silencing" \/ toSilence = <<>>
    BY <1>4 DEF SoundsStopped, Shutdown, Passes, Rests, vars, history, others
  <2> QED
    BY <1>4, <2>1 DEF SoundsEnd
<1> QED
  BY <1>1, <1>2, <1>3, <1>4, LeavingSteps
-----------------------------------------------------------------------------
(* The invariant of the program. *)

LEMMA LifecycleInitial == LifecycleInit => LifecycleIInv
<1> SUFFICES ASSUME LifecycleInit PROVE LifecycleIInv
  OBVIOUS
<1>1. /\ Init /\ main = "reading" /\ mOutputPorts = <<DefaultPort>> /\ toSilence = <<>>
      /\ now = StartFrame /\ last = StartFrame /\ queued = {} /\ sounding = {}
  BY DEF LifecycleInit, Init
<1>2. HeapIsLeftEmpty
  BY InitLeft
<1>3. EngineKeeps
  BY <1>1, InitIInv DEF EngineKeeps
<1>4. ClockAndPorts /\ RegisteredOnce
  BY <1>1, FrameAssumption, PortAssumption DEF ClockAndPorts, RegisteredOnce, IsInjective, Range
<1>5. SongIsQueued
  <2>1. IsFiniteSet(queued) /\ Played = 0
    BY <1>1, FS_EmptySet DEF Played
  <2>2. Len(Song) \in Nat
    BY LifecycleAssumption
  <2>3. queued = {Song[k] : k \in 1 .. Played}
    BY <1>1, <2>1
  <2> QED
    BY <1>1, <2>1, <2>2, <2>3 DEF SongIsQueued
<1>6. AllIsDue /\ ~Leaving
  BY <1>1 DEF AllIsDue, Leaving
<1> QED
  BY <1>2, <1>3, <1>4, <1>5, <1>6 DEF LifecycleIInv, RingIsDue, RingIsFlushed, SoundsEnd

LEMMA LifecycleInductive ==
  ASSUME BeforeTheWrap, MaxWait < PollFrames, LookAhead <= PollFrames,
         Clocks, LifecycleIInv, [LifecycleNext]_lifecycleVars
  PROVE  Clocks' /\ LifecycleIInv'
<1>1. /\ HeapIsLeftEmpty /\ EngineKeeps /\ ClockAndPorts /\ RegisteredOnce
      /\ SongIsQueued /\ AllIsDue /\ RingIsDue /\ RingIsFlushed /\ SoundsEnd
  BY DEF LifecycleIInv
<1>2. Clocks' /\ HeapIsLeftEmpty'
  BY <1>1, LeftInductive
<1>3. EngineKeeps' /\ ClockAndPorts' /\ RegisteredOnce' /\ SongIsQueued'
  BY <1>1, EngineKept, ClockAndPortsKept, RegisteredOnceKept, SongKept
<1>4. AllIsDue'
  BY <1>1, <1>2, AllIsDueKept
<1>5. RingIsDue' /\ RingIsFlushed'
  BY <1>1, RingIsDueKept, RingIsFlushedKept
<1>6. SoundsEnd'
  BY <1>1, SoundsEndKept
<1> QED
  BY <1>2, <1>3, <1>4, <1>5, <1>6 DEF LifecycleIInv

LEMMA AlwaysKept ==
  ASSUME BeforeTheWrap, MaxWait < PollFrames, LookAhead <= PollFrames
  PROVE  LifecycleSpec => [](Clocks /\ LifecycleIInv)
<1>1. LifecycleInit => Clocks /\ LifecycleIInv
  BY InitLeft, LifecycleInitial
<1>2. Clocks /\ LifecycleIInv /\ [LifecycleNext]_lifecycleVars => (Clocks /\ LifecycleIInv)'
  BY LifecycleInductive
<1> QED
  BY <1>1, <1>2, PTL DEF LifecycleSpec

(* The inductive invariant of the whole program: the engine keeps its own  *)
(* until the ports are silenced, and what follows is due, in the ring, and *)
(* ends what sounds.                                                       *)
THEOREM LifecycleInvariance ==
  ASSUME BeforeTheWrap, MaxWait < PollFrames, LookAhead <= PollFrames
  PROVE  LifecycleSpec => []LifecycleIInv
BY AlwaysKept, PTL

(* The last sleep of main is longer than two periods. *)
LEMMA RingIsEmptyAtTheEnd ==
  ASSUME 2 * NFrames <= PollFrames, Clocks, LifecycleIInv,
         main = "exited", ~signalled, lost = {}
  PROVE  mRingbuffer = <<>>
<1>1. ClockAndPorts /\ RingIsFlushed
  BY DEF LifecycleIInv
<1>2. /\ mainWake - PollFrames + NFrames < last => mRingbuffer = <<>>
      /\ now >= mainWake
  BY <1>1 DEF RingIsFlushed, Leaving
<1>3. /\ NFrames \in Nat /\ PollFrames \in Nat /\ mainWake \in Nat /\ now \in Nat
      /\ last \in Nat /\ now < last + NFrames
  BY <1>1, FrameAssumption, FramesAreNumbers DEF Clocks, ClockAndPorts
<1> QED
  BY <1>2, <1>3

(* When the process ends by itself, JACK has been given every message of   *)
(* the song: the sleeps of play and of main are longer than the look-ahead *)
(* and than two periods.                                                   *)
THEOREM TheWholeSongIsHeard ==
  ASSUME BeforeTheWrap, MaxWait < PollFrames, LookAhead <= PollFrames,
         2 * NFrames <= PollFrames
  PROVE  LifecycleSpec => [](lost = {} => NothingLeftBehind)
<1>1. Clocks /\ LifecycleIInv => (lost = {} => NothingLeftBehind)
  <2> SUFFICES ASSUME Clocks, LifecycleIInv, lost = {}, main = "exited", ~signalled
               PROVE  queued = Range(Song) /\ queued \subseteq Heard \cup lost
    BY DEF NothingLeftBehind
  <2>1. SongIsQueued /\ RingIsDue
    BY DEF LifecycleIInv
  <2>2. queued = {Song[k] : k \in 1 .. Len(Song)}
    BY <2>1 DEF SongIsQueued
  <2>3. DOMAIN Song = 1 .. Len(Song)
    BY LifecycleAssumption
  <2>4. queued = Range(Song)
    BY <2>2, <2>3 DEF Range
  <2>5. queued \subseteq InRing \cup Heard \cup lost
    BY <2>1 DEF RingIsDue, Leaving
  <2>6. mRingbuffer = <<>>
    BY RingIsEmptyAtTheEnd
  <2>7. InRing = {}
    BY <2>6 DEF InRing
  <2> QED
    BY <2>4, <2>5, <2>7
<1> QED
  BY <1>1, AlwaysKept, PTL

(* And nothing sounds on channel 0 of any port, although the sequencer     *)
(* leaves the notes of the last line on.                                   *)
THEOREM SilenceFollowsTheSong ==
  ASSUME BeforeTheWrap, MaxWait < PollFrames, LookAhead <= PollFrames,
         2 * NFrames <= PollFrames
  PROVE  LifecycleSpec => [](lost = {} => SilentAfterTheSong)
<1>1. Clocks /\ LifecycleIInv => (lost = {} => SilentAfterTheSong)
  <2> SUFFICES ASSUME Clocks, LifecycleIInv, lost = {}, main = "exited", ~signalled,
                      NEW m \in sounding, m.channel = 0
               PROVE  FALSE
    BY DEF SilentAfterTheSong
  <2>1. SoundsEnd
    BY DEF LifecycleIInv
  <2>2. WillBeSilent(PortOf(m), mRingbuffer, 0, toSilence) /\ toSilence = <<>>
    BY <2>1 DEF SoundsEnd, Leaving
  <2>3. mRingbuffer = <<>>
    BY RingIsEmptyAtTheEnd
  <2> QED
    BY <2>2, <2>3 DEF WillBeSilent, Range
<1> QED
  BY <1>1, AlwaysKept, PTL
=============================================================================

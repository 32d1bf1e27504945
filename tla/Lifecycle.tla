----------------------------- MODULE Lifecycle -----------------------------
(***************************************************************************)
(* The program from its start to its exit: main, play and signalHandler    *)
(* (src/main.cpp) with what they call of src/jackengine.cpp, composed with *)
(* the threads of module JackEngine.  main reads the song, which registers *)
(* ports, queues the messages of the song, waits until the heap is empty,  *)
(* silences the ports and closes the client; a signal silences the ports   *)
(* and closes the client wherever main is.                                 *)
(*                                                                         *)
(* The kernel delivers a signal to the main thread, which does not block   *)
(* it: main does not go on while the handler runs, and never after.        *)
(***************************************************************************)
EXTENDS JackEngine, SequencesExt

CONSTANTS
  Song,         (* what the sequencer queues: messages, with the kind "on" *)
                (* or "off" and the channel                                *)
  PollFrames,   (* the frames of the usleep in play and in main            *)
  SignalFrames, (* the frames of the usleep in signalHandler               *)
  Signals,      (* whether a signal may arrive                             *)
  MaxWait,      (* the frames that bufferProcessingThread, when it is      *)
                (* ready to run, waits at most until it is run             *)
  MaxDelays     (* bound: the frames that main and bufferProcessingThread, *)
                (* all in all, wait for the processor or for the input     *)

ASSUME LifecycleAssumption ==
  /\ Song \in Seq(Message)
  /\ PollFrames \in Nat /\ SignalFrames \in Nat /\ MaxWait \in Nat /\ MaxDelays \in Nat
  /\ Signals \in BOOLEAN

VARIABLES
  main,         (* where main or the handler is: "reading", "playing",     *)
                (* "polling", "waiting", "ending", "silencing", "closing", *)
                (* or "exited"                                             *)
  mainWake,     (* the frame its usleep ends at                            *)
  mOutputPorts, (* the ports registered                                    *)
  toSilence,    (* the ports that stopSounds still has to visit            *)
  signalled,    (* whether the handler runs                                *)
  sounding,     (* history: the NOTE_ONs given to JACK and not stopped     *)
  waits,        (* history: the frames that bufferProcessingThread has now *)
                (* been waiting for the processor                          *)
  delays        (* history: the frames waited by main or the thread so far *)

mainVars == <<main, mainWake, mOutputPorts, toSilence, signalled>>
waitVars == <<waits, delays>>
lifecycleVars == <<vars, mainVars, sounding, waitVars>>

(* What main and the handler share with the threads, apart from the heap,  *)
(* the ringbuffer and gPlaying.                                            *)
others == <<now, jackVars, thread, deadline, wakeAt, sounding, waitVars>>
-----------------------------------------------------------------------------
PortOf(m) == IF m.port = NoPort THEN DefaultPort ELSE m.port

LifecycleInit ==
  /\ Init
  /\ main = "reading" /\ mainWake = StartFrame
  /\ mOutputPorts = <<DefaultPort>> /\ toSilence = <<>>
  /\ signalled = FALSE /\ sounding = {} /\ waits = 0 /\ delays = 0

(* Mutated form of Registered, which registers a name again. *)
RegisteredAgain(p) == Append(mOutputPorts, p)

Registered(p) == IF p \in Range(mOutputPorts) THEN mOutputPorts ELSE Append(mOutputPorts, p)

(* The parser registers the ports of the song; a name that is registered   *)
(* gives the port it has.                                                  *)
RegisterOutputPort(p) ==
  /\ main = "reading"
  /\ \E m \in Range(Song) : PortOf(m) = p
  /\ mOutputPorts' = Registered(p)
  /\ UNCHANGED <<heapVars, mRingbuffer, gPlaying, history, others>>
  /\ UNCHANGED <<main, mainWake, toSilence, signalled>>

(* The end of the input. *)
ReadToTheEnd ==
  /\ main = "reading" /\ main' = "playing"
  /\ \A m \in Range(Song) : PortOf(m) \in Range(mOutputPorts)
  /\ UNCHANGED <<vars, mainWake, mOutputPorts, toSilence, signalled, sounding, waitVars>>

(* How far the song has been played. *)
Played == Cardinality(queued)

(* The sequencer queues the next message, and waits while the heap is full. *)
PlayNext ==
  /\ main = "playing" /\ Played < Len(Song)
  /\ QueueMidiEvent(Song[Played + 1])
  /\ UNCHANGED <<mainVars, sounding, waitVars>>

SongEnds ==
  /\ main = "playing" /\ Played = Len(Song)
  /\ main' = "polling" /\ mainWake' = now
  /\ UNCHANGED <<vars, mOutputPorts, toSilence, signalled, sounding, waitVars>>

(* Mutated forms of HasPendingEvents: count() >= 0, and no wait at all. *)
HasPendingAlways == Cardinality(mMidiHeap) >= 0
HasPendingNever == FALSE

HasPendingEvents == Cardinality(mMidiHeap) > 0

(* play looks at the heap, and sleeps before it looks again. *)
Poll ==
  /\ main = "polling" /\ now >= mainWake
  /\ mainWake' = now + PollFrames
  /\ main' = IF HasPendingEvents /\ gPlaying THEN "polling" ELSE "waiting"
  /\ UNCHANGED <<vars, mOutputPorts, toSilence, signalled, sounding, waitVars>>

(* The last usleep of play is over. *)
PlayReturns ==
  /\ main = "waiting" /\ now >= mainWake
  /\ main' = "ending" /\ gPlaying' = FALSE
  /\ UNCHANGED <<heapVars, mRingbuffer, history, others>>
  /\ UNCHANGED <<mainWake, mOutputPorts, toSilence, signalled>>
-----------------------------------------------------------------------------
(* stopSounds, called by main and by the handler. *)

(* Mutated form of PortsToSilence, which knows the default port only. *)
DefaultToSilence == <<DefaultPort>>

PortsToSilence == mOutputPorts

SoundOff(p) ==
  [id |-> "sound off", due |-> now, time |-> now % Wrap, port |-> p,
   kind |-> "sound off", channel |-> 0]

BeginStopSounds ==
  /\ main = "ending"
  /\ main' = "silencing" /\ toSilence' = PortsToSilence
  /\ UNCHANGED <<vars, mainWake, mOutputPorts, signalled, sounding, waitVars>>

(* One message of stopSounds goes straight to the ringbuffer.  When        *)
(* bufferProcessingThread is writing there at the same time, both write to *)
(* the same place, and one of the two messages is lost.                    *)
StopSounds ==
  /\ main = "silencing" /\ toSilence # <<>>
  /\ toSilence' = Tail(toSilence)
  /\ LET off == SoundOff(Head(toSilence))
     IN  \/ WriteMidiData(off) /\ UNCHANGED thread
         \/ /\ thread = "writing"
            /\ thread' = "looping"
            /\ HasSpace
            /\ \E m \in {off, picked} :
                 /\ mRingbuffer' = Append(mRingbuffer, m)
                 /\ lost' = lost \cup ({off, picked} \ {m})
  /\ UNCHANGED <<heapVars, now, jackVars, deadline, wakeAt, gPlaying>>
  /\ UNCHANGED <<queued, late, heard, delayed>>
  /\ UNCHANGED <<main, mainWake, mOutputPorts, signalled, sounding, waitVars>>

(* The handler clears gPlaying when the ports are silenced; main has done  *)
(* so before.                                                              *)
SoundsStopped ==
  /\ main = "silencing" /\ toSilence = <<>>
  /\ main' = "closing"
  /\ gPlaying' = FALSE
  /\ mainWake' = now + (IF signalled THEN SignalFrames ELSE PollFrames)
  /\ UNCHANGED <<heapVars, mRingbuffer, history, others>>
  /\ UNCHANGED <<mOutputPorts, toSilence, signalled>>

(* shutdown closes the client, and the process ends with all its threads. *)
Shutdown ==
  /\ main = "closing" /\ now >= mainWake
  /\ main' = "exited"
  /\ UNCHANGED <<vars, mainWake, mOutputPorts, toSilence, signalled, sounding, waitVars>>

(* A signal arrives: whatever main does, the handler silences the ports. *)
Signal ==
  /\ Signals /\ ~signalled /\ main # "exited"
  /\ signalled' = TRUE /\ main' = "silencing" /\ toSilence' = PortsToSilence
  /\ UNCHANGED <<vars, mainWake, mOutputPorts, sounding, waitVars>>
-----------------------------------------------------------------------------
MainRests ==
  \/ main = "playing" /\ Played < Len(Song) /\ Cardinality(mMidiHeap) = HeapCapacity
  \/ main \in {"polling", "waiting", "closing"} /\ now < mainWake

(* A frame passes.  The thread does not wait for the processor for more    *)
(* than MaxWait frames on end; main may.                                   *)
Frame ==
  /\ Tick
  /\ waits' = IF ThreadRests THEN 0 ELSE waits + 1
  /\ waits' <= MaxWait
  /\ delays' = IF MainRests /\ ThreadRests THEN delays ELSE delays + 1
  /\ delays' <= MaxDelays
  /\ UNCHANGED <<mainVars, sounding>>

Alive == main # "exited"

ThreadStep == Alive /\ Thread /\ waits' = 0 /\ UNCHANGED <<mainVars, sounding, delays>>

(* What a message does to the notes that the synthesizers hear: those of   *)
(* its port and channel end, all of them or those of its pitch.            *)
Heeded(m) ==
  LET same == {n \in sounding : PortOf(n) = PortOf(m) /\ n.channel = m.channel}
  IN  IF m.kind = "on" THEN sounding \cup {m}
      ELSE IF m.kind = "off" THEN sounding \ {n \in same : n.pitch = m.pitch}
      ELSE sounding \ same

(* The callback goes on when JACK took the message. *)
CallbackStep ==
  /\ Alive /\ Callback
  /\ sounding' = IF callback = "running" /\ callback' = "running" THEN Heeded(Oldest) ELSE sounding
  /\ UNCHANGED <<mainVars, waitVars>>

MainStep ==
  \/ \E p \in Port : RegisterOutputPort(p)
  \/ ReadToTheEnd \/ PlayNext \/ SongEnds \/ Poll \/ PlayReturns
  \/ BeginStopSounds \/ StopSounds \/ SoundsStopped \/ Shutdown

(* The process is gone, or the bound of the clock is reached. *)
Exited == (~Alive \/ now = MaxFrame) /\ UNCHANGED lifecycleVars

LifecycleNext ==
  \/ MainStep \/ Signal
  \/ ThreadStep \/ CallbackStep
  \/ Alive /\ Frame
  \/ Exited

LifecycleSpec == LifecycleInit /\ [][LifecycleNext]_lifecycleVars

(* The clock goes on, JACK calls the callback in every period, and the     *)
(* operating system runs main and bufferProcessingThread sooner or later.  *)
FairLifecycle ==
  /\ LifecycleSpec
  /\ WF_lifecycleVars(MainStep) /\ WF_lifecycleVars(ThreadStep)
  /\ WF_lifecycleVars(CallbackStep) /\ WF_lifecycleVars(Alive /\ Frame)
-----------------------------------------------------------------------------
(* When the program ends by itself, nothing that was queued is left        *)
(* behind: play looks at the heap only, but the message that has just left *)
(* it is still heard before the client is closed.                          *)
NothingLeftBehind ==
  main = "exited" /\ ~signalled => queued = Range(Song) /\ queued \subseteq Heard \cup lost

(* And nothing sounds then on channel 0, on any port, although the         *)
(* sequencer does not stop the notes of its last line.                     *)
SilentAfterTheSong ==
  main = "exited" /\ ~signalled => \A m \in sounding : m.channel # 0

(* The ringbuffer is for one writer and one reader: without a signal, main *)
(* writes to it only when bufferProcessingThread has nothing to write.     *)
OneWriter ==
  main = "silencing" /\ ~signalled => thread # "writing" /\ mMidiHeap = {}

(* Why it has: main leaves play when it has seen the heap empty, nobody    *)
(* fills it again, and a message that was still in the hands of the thread *)
(* had the last sleep of play to leave them.                               *)
HeapIsLeftEmpty ==
  ~signalled =>
    /\ main \in {"reading", "playing", "polling"} => gPlaying
    /\ main \in {"waiting", "ending", "silencing", "closing"} => mMidiHeap = {}
    /\ main = "waiting" /\ thread = "writing" => now + PollFrames <= mainWake + waits
    /\ main \in {"ending", "silencing", "closing"} => thread # "writing"

Busy == {"reading", "playing", "polling", "waiting", "ending"}

(* Until main silences the ports, the engine is that of JackEngine. *)
EngineKeeps == main \in Busy => IInv

(* Only registered ports are silenced; the clock is always in its period.  *)
ClockAndPorts ==
  /\ now \in StartFrame .. MaxFrame /\ last \in StartFrame .. now /\ now < last + NFrames
  /\ mOutputPorts \in Seq(Port) /\ toSilence \in Seq(Port)

(* However often a song names a port, it is registered once, and silenced  *)
(* only when it is registered; the default port always is.                 *)
RegisteredOnce ==
  /\ DefaultPort \in Range(mOutputPorts) /\ IsInjective(mOutputPorts)
  /\ Range(toSilence) \subseteq Range(mOutputPorts)

(* What is queued are the first messages of the song, whose ports are      *)
(* registered by then, and all of it when play ends; nothing else sounds.  *)
SongIsQueued ==
  /\ IsFiniteSet(queued) /\ Played <= Len(Song)
  /\ queued = {Song[k] : k \in 1 .. Played}
  /\ main \in Busy => sounding \subseteq queued
  /\ ~signalled /\ main # "reading" =>
       \A m \in Range(Song) : PortOf(m) \in Range(mOutputPorts)
  /\ ~signalled /\ main \notin {"reading", "playing"} => Played = Len(Song)

(* When main has seen the heap empty, nothing is further ahead than the    *)
(* thread looks, and the last sleep of play lets the clock catch up.       *)
AllIsDue ==
  ~signalled =>
    /\ main = "waiting" =>
         \A m \in queued \ lost : m.due <= mainWake - PollFrames + LookAhead
    /\ main = "ending" => \A m \in queued \ lost : m.due <= now

Leaving == ~signalled /\ main \in {"silencing", "closing", "exited"}

(* What stopSounds writes, whenever it does. *)
SoundOffs ==
  [id : {"sound off"}, due : Nat, time : Nat, port : Port, kind : {"sound off"}, channel : {0}]

(* Then everything is in the ringbuffer or has left it, and is due. *)
RingIsDue ==
  Leaving =>
    /\ queued \subseteq InRing \cup Heard \cup lost
    /\ mRingbuffer \in Seq(Message \cup SoundOffs)
    /\ \A m \in InRing : m.due \in Nat /\ m.time = m.due /\ m.due <= now

(* The callback of the first period that begins after main has gone to     *)
(* sleep for the last time empties the ringbuffer; the sleep is longer.    *)
RingIsFlushed ==
  Leaving /\ main # "silencing" =>
    LET asleep == mainWake - PollFrames
    IN  /\ \A m \in InRing : m.due <= asleep
        /\ lost = {} /\ asleep < last /\ callback = "done" => mRingbuffer = <<>>
        /\ lost = {} /\ asleep + NFrames < last => mRingbuffer = <<>>
        /\ main = "exited" => now >= mainWake

(* Behind position k of the ringbuffer ring, or when stopSounds visits the *)
(* ports that it still has to, the sounds of port p end.                   *)
WillBeSilent(p, ring, k, ports) ==
  \/ p \in Range(ports)
  \/ \E j \in DOMAIN ring :
       /\ j > k /\ PortOf(ring[j]) = p
       /\ ring[j].kind = "sound off" /\ ring[j].channel = 0

(* So ends every note of channel 0 that sounds, or will.                   *)
SoundsEnd ==
  Leaving /\ lost = {} =>
    /\ \A m \in sounding :
         m.channel = 0 => WillBeSilent(PortOf(m), mRingbuffer, 0, toSilence)
    /\ \A k \in DOMAIN mRingbuffer :
         LET m == mRingbuffer[k]
         IN  m.kind = "on" /\ m.channel = 0
               => WillBeSilent(PortOf(m), mRingbuffer, k, toSilence)
    /\ main # "silencing" => toSilence = <<>>

(* The inductive invariant, with the engine's own inside it. *)
LifecycleIInv ==
  /\ HeapIsLeftEmpty /\ EngineKeeps /\ ClockAndPorts /\ RegisteredOnce
  /\ SongIsQueued /\ AllIsDue /\ RingIsDue /\ RingIsFlushed /\ SoundsEnd

(* "Send a control midi message to stop all sounds": when the process is   *)
(* gone, whatever ended it, no note sounds, unless the message was dropped. *)
AllSoundsStopped == main = "exited" /\ lost = {} => sounding = {}

(* The program ends: main waits for the heap, which the thread empties     *)
(* only while gPlaying is set.                                             *)
ProgramEnds == <>(main = "exited")
=============================================================================

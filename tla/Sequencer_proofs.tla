-------------------------- MODULE Sequencer_proofs --------------------------
(***************************************************************************)
(* Proofs about module Sequencer, for every song, every subpatterns and    *)
(* every number of columns.                                                *)
(***************************************************************************)
EXTENDS Sequencer, FiniteSetTheorems, WellFoundedInduction, TLAPS

(* The folds of module Sequencer, each an instance of module Iteration.    *)
EventStep(b, nested, s, a, e) == PlayEvent(nested, a, s, e)
EventFold == INSTANCE Iteration WITH Op <- EventStep
-----------------------------------------------------------------------------
(* What a call leaves of the world it meets.  F are the fields of the main *)
(* sequencer that stay as they are; the messages are in M, for the most    *)
(* part those that are not the end of a note of the main song.             *)
FieldNames == {"mCurrentPos", "mCurrentTime", "mTempo", "mQuantSize", "mActiveNotesVec"}

NonStops == {m \in Messages : ~(m.type = "off" /\ m.volume = 0 /\ m.seq = Main)}

Adds(out, more, M) ==
  /\ Len(more) >= Len(out)
  /\ \A i \in 1 .. Len(out) : more[i] = out[i]
  /\ \A i \in 1 .. Len(more) : i > Len(out) => more[i] \in M

Kept(w, v, F, M) ==
  /\ v \in Worlds /\ v.at = w.at
  /\ \A x \in F : v.seq[Main][x] = w.seq[Main][x]
  /\ Adds(w.out, v.out, M)

(* The main song is a sequencer and no subpattern. *)
LEMMA MainIs == Main \in Sequencers /\ Main \notin Sub
BY SequencerAssumption DEF Sequencers

(* A world, by its parts. *)
LEMMA WorldIs ==
  ASSUME NEW w \in Worlds
  PROVE  /\ w.seq \in [Sequencers -> States] /\ w.out \in Seq(Messages) /\ w.at \in Seq(Nat)
         /\ w = [seq |-> w.seq, out |-> w.out, at |-> w.at]
         /\ Len(w.out) \in Nat
BY DEF Worlds

(* A call that does nothing leaves everything. *)
LEMMA KeptSelf ==
  ASSUME NEW w \in Worlds, NEW F, NEW M
  PROVE  Kept(w, w, F, M)
BY WorldIs DEF Kept, Adds

(* Messages added twice are added. *)
LEMMA AddsMore ==
  ASSUME NEW M, NEW a, NEW b, NEW c, Len(a) \in Nat, Len(b) \in Nat, Len(c) \in Nat,
         Adds(a, b, M), Adds(b, c, M)
  PROVE  Adds(a, c, M)
BY DEF Adds

(* What two calls leave, one after the other leaves. *)
LEMMA KeptTwice ==
  ASSUME NEW F, NEW M, NEW w \in Worlds, NEW v, NEW u, Kept(w, v, F, M), Kept(v, u, F, M)
  PROVE  Kept(w, u, F, M)
<1>1. Len(w.out) \in Nat /\ Len(v.out) \in Nat /\ Len(u.out) \in Nat
  BY WorldIs DEF Kept
<1>2. Adds(w.out, u.out, M)
  BY <1>1, AddsMore DEF Kept
<1> QED BY <1>2 DEF Kept

(* Less is kept, and more messages are allowed. *)
LEMMA KeptLess ==
  ASSUME NEW F, NEW M, NEW w, NEW v, Kept(w, v, F, M), NEW G \in SUBSET F, NEW N, M \subseteq N
  PROVE  Kept(w, v, G, N)
BY DEF Kept, Adds

(* Another message. *)
LEMMA QueueKept ==
  ASSUME NEW w \in Worlds, NEW F, NEW M, NEW m \in Messages, m \in M
  PROVE  Kept(w, Queue(w, m), F, M) /\ Queue(w, m).seq = w.seq
<1>1. Queue(w, m) = [seq |-> w.seq, out |-> Append(w.out, m), at |-> w.at]
  <2> SUFFICES ASSUME NEW a, NEW b, NEW c, a = w.seq, b = w.out, c = w.at
               PROVE  Queue(w, m) = [seq |-> a, out |-> Append(b, m), at |-> c]
    OBVIOUS
  <2>1. w = [seq |-> a, out |-> b, at |-> c]
    BY WorldIs
  <2> QED BY <2>1 DEF Queue
<1>2. Append(w.out, m) \in Seq(Messages)
  BY WorldIs
<1>3. Queue(w, m) \in Worlds
  BY <1>1, <1>2, WorldIs DEF Worlds
<1>4. Adds(w.out, Append(w.out, m), M)
  BY WorldIs DEF Adds
<1> QED BY <1>1, <1>3, <1>4 DEF Kept

(* Another state of a sequencer. *)
SetState(w, s, q) == [w EXCEPT !.seq[s] = q]

LEMMA StateKept ==
  ASSUME NEW w \in Worlds, NEW F, NEW M, NEW s \in Sequencers, NEW q \in States,
         s = Main => \A x \in F : q[x] = w.seq[Main][x]
  PROVE  /\ Kept(w, SetState(w, s, q), F, M)
         /\ SetState(w, s, q).seq = [w.seq EXCEPT ![s] = q]
         /\ SetState(w, s, q).out = w.out
<1>1. SetState(w, s, q) = [seq |-> [w.seq EXCEPT ![s] = q], out |-> w.out, at |-> w.at]
  <2> SUFFICES ASSUME NEW a, NEW b, NEW c, a = w.seq, b = w.out, c = w.at
               PROVE  SetState(w, s, q) = [seq |-> [a EXCEPT ![s] = q], out |-> b, at |-> c]
    OBVIOUS
  <2>1. w = [seq |-> a, out |-> b, at |-> c]
    BY WorldIs
  <2> QED BY <2>1 DEF SetState
<1>2. [w.seq EXCEPT ![s] = q] \in [Sequencers -> States]
  BY WorldIs
<1>3. SetState(w, s, q) \in Worlds
  BY <1>1, <1>2, WorldIs DEF Worlds
<1>4. \A x \in F : SetState(w, s, q).seq[Main][x] = w.seq[Main][x]
  BY <1>1, WorldIs, MainIs
<1>5. Adds(w.out, w.out, M)
  BY WorldIs DEF Adds
<1> QED BY <1>1, <1>3, <1>4, <1>5 DEF Kept

(* A fold of steps that keep something keeps it. *)
LEMMA FoldKeeps ==
  ASSUME NEW w \in Worlds, NEW F, NEW M, NEW n \in Nat, NEW f, f[0] = w,
         \A i \in 1 .. n : f[i - 1] \in Worlds => Kept(f[i - 1], f[i], F, M)
  PROVE  Kept(w, f[n], F, M)
<1> DEFINE T == {i \in Nat : i <= n => Kept(w, f[i], F, M)}
<1>1. 0 \in T
  BY KeptSelf
<1>2. ASSUME NEW i \in T PROVE i + 1 \in T
  <2> SUFFICES ASSUME i + 1 <= n PROVE Kept(w, f[i + 1], F, M)
    OBVIOUS
  <2>1. Kept(w, f[i], F, M)
    OBVIOUS
  <2>2. f[i] \in Worlds
    BY <2>1 DEF Kept
  <2>3. i + 1 \in 1 .. n /\ (i + 1) - 1 = i
    OBVIOUS
  <2>4. Kept(f[i], f[i + 1], F, M)
    BY <2>2, <2>3
  <2> QED BY <2>1, <2>4, KeptTwice
<1>3. T = Nat
  <2> HIDE DEF T
  <2>1. T \in SUBSET Nat
    BY DEF T
  <2> QED BY <1>1, <1>2, <2>1, EventFold!SetInduction
<1> QED BY <1>3
-----------------------------------------------------------------------------
(* Integer division, here and in the next lemmas, stays in Nat. *)
LEMMA Quotient ==
  ASSUME NEW a \in Nat, NEW b \in Nat \ {0}
  PROVE  a \div b \in Nat
OBVIOUS

LEMMA MsAreFrames ==
  ASSUME NEW ms \in Nat
  PROVE  MsToNframes(ms) \in Nat
BY Quotient, SequencerAssumption DEF MsToNframes

LEMMA LineTimeIs ==
  ASSUME NEW q \in States
  PROVE  LineTime(q) \in Nat
<1>1. ((60 * 1000) \div q.mTempo) \in Nat
  BY Quotient DEF States
<1>2. (((60 * 1000) \div q.mTempo) \div q.mQuantSize) \in Nat
  BY <1>1, Quotient DEF States
<1> QED BY <1>2, MsAreFrames DEF LineTime

(* The fields of a note. *)
LEMMA NoteIs ==
  ASSUME NEW e \in NoteEvents
  PROVE  /\ e.kind = "note" /\ e.column \in Columns /\ e.pitch \in Nat /\ e.volume \in Nat
         /\ e.delay \in Nat /\ e.time \in Nat /\ e.partDelay \in Nat /\ e.partTime \in Nat
         /\ e.partDiv \in Nat
BY DEF NoteEvents

LEMMA PartIs ==
  ASSUME NEW q \in States, NEW e \in NoteEvents, NEW num \in Nat
  PROVE  Part(q, e, num) \in Nat
<1>1. LineTime(q) \in Nat /\ e.partDiv \in Nat
  BY LineTimeIs, NoteIs
<1>2. LineTime(q) * num \in Nat
  BY <1>1
<1> QED BY <1>1, <1>2, Quotient DEF Part

(* The fields of a sequencer. *)
LEMMA StateIs ==
  ASSUME NEW w \in Worlds, NEW s \in Sequencers
  PROVE  /\ w.seq[s] \in States
         /\ w.seq[s].mCurrentPos \in Nat /\ w.seq[s].mCurrentTime \in Nat
         /\ w.seq[s].mCurrentTime >= StartTime
         /\ w.seq[s].mActiveNotesVec \in ActiveLists
         /\ DOMAIN w.seq[s] = FieldNames
BY WorldIs DEF States, FieldNames

(* The time is later than the first columns. *)
LEMMA TimeIs ==
  ASSUME NEW w \in Worlds, NEW s \in Sequencers, NEW c \in Columns
  PROVE  /\ w.seq[s].mCurrentTime - 1 - c \in Nat /\ w.seq[s].mCurrentTime - 2 \in Nat
         /\ w.seq[s].mCurrentTime + c \in Nat
BY StateIs, SequencerAssumption DEF Columns
-----------------------------------------------------------------------------
(* The fields of the main sequencer that stay as they are when s changes   *)
(* only X of itself, and the messages that s may add.                      *)
Owned(s, X) == IF s = Main THEN FieldNames \ X ELSE FieldNames

Mine(s) == IF s = Main THEN Messages ELSE NonStops

(* The end of a timed note looks like a stop when its volume is 0. *)
Ghost(e) == e.kind = "note" /\ IsTimed(e) /\ e.volume = 0

Loud(s, e) == IF s = Main /\ Ghost(e) THEN Messages ELSE NonStops

(* What kind of messages a note queues. *)
LEMMA MessageIs ==
  ASSUME NEW s \in Sequencers, NEW e \in NoteEvents, NEW volume \in Nat, NEW time \in Nat
  PROVE  /\ Message(s, e, "on", volume, time) \in NonStops
         /\ Message(s, e, "off", volume, time) \in Mine(s)
         /\ volume # 0 => Message(s, e, "off", volume, time) \in NonStops
BY NoteIs DEF Message, Messages, NonStops, Mine

(* No message of a note is before frame 0. *)
LEMMA NoteTimes ==
  ASSUME NEW w \in Worlds, NEW s \in Sequencers, NEW e \in NoteEvents, NEW q, q = w.seq[s]
  PROVE  NoteStart(q, e) + e.column \in Nat /\ NoteEnd(q, e) \in Nat
<1>1. q \in States /\ q.mCurrentTime \in Nat /\ q.mCurrentTime - 2 \in Nat /\ e.column \in Nat
  BY StateIs, TimeIs, NoteIs DEF Columns
<1>2. MsToNframes(e.delay) \in Nat /\ MsToNframes(e.time) \in Nat
  BY NoteIs, MsAreFrames
<1>3. e.partDelay + e.partTime \in Nat /\ e.partDelay \in Nat
  BY NoteIs
<1>4. Part(q, e, e.partDelay) \in Nat /\ Part(q, e, e.partDelay + e.partTime) \in Nat
  BY <1>1, <1>3, PartIs
<1>5. NoteStart(q, e) + e.column \in Nat
  BY <1>1, <1>2, <1>4 DEF NoteStart
<1>6. NoteEnd(q, e) \in Nat
  BY <1>1, <1>2, <1>4 DEF NoteEnd
<1> QED BY <1>5, <1>6

(* NoteEvent::execute only queues messages. *)
LEMMA NoteKept ==
  ASSUME NEW w \in Worlds, NEW s \in Sequencers, NEW e \in NoteEvents
  PROVE  Kept(w, ExecuteNote(w, s, e), FieldNames, Loud(s, e))
<1> DEFINE q == w.seq[s]
           m == Message(s, e, "on", e.volume, NoteStart(q, e) + e.column)
           o == Message(s, e, "off", e.volume, NoteEnd(q, e))
           on == Queue(w, m)
<1>1. NoteStart(q, e) + e.column \in Nat /\ NoteEnd(q, e) \in Nat /\ e.volume \in Nat
  BY NoteTimes, NoteIs
<1>2. ExecuteNote(w, s, e) = IF IsTimed(e) THEN Queue(on, o) ELSE on
  BY DEF ExecuteNote
<1>3. m \in NonStops /\ o \in Mine(s) /\ (e.volume # 0 => o \in NonStops)
  BY <1>1, MessageIs
<1>4. NonStops \subseteq Messages /\ Mine(s) \subseteq Messages /\ NonStops \subseteq Loud(s, e)
  BY DEF NonStops, Mine, Loud
<1>5. IsTimed(e) => o \in Loud(s, e)
  BY <1>3, <1>4, NoteIs DEF Loud, Ghost, Mine
<1> HIDE DEF m, o
<1>6. Kept(w, on, FieldNames, Loud(s, e))
  BY <1>3, <1>4, QueueKept
<1>7. on \in Worlds
  BY <1>6 DEF Kept
<1>8. IsTimed(e) => Kept(on, Queue(on, o), FieldNames, Loud(s, e))
  BY <1>3, <1>4, <1>5, <1>7, QueueKept
<1> QED BY <1>2, <1>6, <1>8, KeptTwice

(* NoteEvent::stop too. *)
LEMMA StopNoteKept ==
  ASSUME NEW w \in Worlds, NEW s \in Sequencers, NEW e \in NoteEvents
  PROVE  /\ Kept(w, StopNote(w, s, e), FieldNames, Mine(s))
         /\ StopNote(w, s, e).seq = w.seq
<1> DEFINE m == Message(s, e, "off", 0, w.seq[s].mCurrentTime - 1 - e.column)
<1>1. w.seq[s].mCurrentTime - 1 - e.column \in Nat
  BY TimeIs, NoteIs
<1>2. m \in Mine(s) /\ m \in Messages
  BY <1>1, MessageIs DEF Mine, NonStops
<1>3. StopNote(w, s, e) = Queue(w, m)
  BY DEF StopNote
<1> HIDE DEF m
<1> QED BY <1>2, <1>3, QueueKept

(* The fields of a control. *)
LEMMA CtlIs ==
  ASSUME NEW e \in CtlEvents
  PROVE  /\ e.kind = "ctl" /\ e.column \in Columns /\ e.type \in {"control", "pitchbend"}
         /\ e.controller \in Nat /\ e.initValue \in 0 .. Word - 1 /\ e.value \in 0 .. Word - 1
         /\ e.step \in Nat /\ e.time \in Nat /\ e.delay \in Nat /\ e.delayDiv \in Nat \ {0}
BY DEF CtlEvents

(* No message of a control looks like a stop. *)
LEMMA MidiMsgIs ==
  ASSUME NEW s \in Sequencers, NEW e \in CtlEvents, NEW value \in Nat, NEW time \in Nat
  PROVE  MidiMsg(s, e, value, time) \in NonStops
<1>1. value % 128 \in Nat /\ (value \div 128) % 128 \in Nat
  OBVIOUS
<1> QED BY <1>1, CtlIs DEF MidiMsg, NonStops, Messages

(* The distance of two unsigned values is a number, and 0 only if they are *)
(* the same.                                                               *)
LEMMA DistanceIs ==
  ASSUME NEW a \in Int, NEW b \in Int
  PROVE  /\ Distance(a, b) \in Nat
         /\ a \in 0 .. Word - 1 /\ b \in 0 .. Word - 1 /\ a # b => Distance(a, b) # 0
<1>1. (a - b) % Word \in 0 .. Word - 1
  BY SequencerAssumption
<1>2. a \in 0 .. Word - 1 /\ b \in 0 .. Word - 1 /\ a # b => (a - b) % Word # 0
  BY SequencerAssumption
<1> QED BY <1>1, <1>2, SequencerAssumption DEF Distance

(* The times of a ramp: its distance is no 0 to divide by. *)
LEMMA CtlTimes ==
  ASSUME NEW e \in CtlEvents, NEW line \in Nat
  PROVE  /\ (line * e.delay) \div e.delayDiv \in Nat
         /\ IsRamp(e) => ((line * e.time) \div e.delayDiv) \div Distance(e.initValue, e.value) \in Nat
<1>1. line * e.delay \in Nat /\ line * e.time \in Nat
  BY CtlIs
<1>2. (line * e.delay) \div e.delayDiv \in Nat /\ (line * e.time) \div e.delayDiv \in Nat
  BY <1>1, CtlIs, Quotient
<1>3. IsRamp(e) => Distance(e.initValue, e.value) \in Nat \ {0}
  <2>1. /\ e.initValue \in 0 .. Word - 1 /\ e.value \in 0 .. Word - 1
        /\ e.initValue \in Int /\ e.value \in Int
    BY CtlIs, SequencerAssumption
  <2> QED BY ONLY <2>1, DistanceIs DEF IsRamp
<1> QED BY <1>2, <1>3, Quotient

(* Many messages at once. *)
LEMMA ManyKept ==
  ASSUME NEW w \in Worlds, NEW F, NEW M \in SUBSET Messages, NEW n \in Nat, NEW ms,
         ms = [k \in 1 .. n |-> ms[k]], \A k \in 1 .. n : ms[k] \in M
  PROVE  Kept(w, [w EXCEPT !.out = @ \o ms], F, M)
<1> SUFFICES ASSUME NEW a, NEW b, NEW c, a = w.seq, b = w.out, c = w.at
             PROVE  Kept(w, [w EXCEPT !.out = w.out \o ms], F, M)
  OBVIOUS
<1>1. w = [seq |-> a, out |-> b, at |-> c] /\ b \in Seq(Messages)
  BY WorldIs
<1>2. [w EXCEPT !.out = w.out \o ms] = [seq |-> a, out |-> b \o ms, at |-> c]
  <2>1. \A x : [w EXCEPT !.out = x] = [seq |-> a, out |-> x, at |-> c]
    BY <1>1
  <2> QED BY <2>1
<1>3. ms \in Seq(M) /\ Len(ms) = n /\ ms \in Seq(Messages)
  OBVIOUS
<1>4. b \o ms \in Seq(Messages)
  BY <1>1, <1>3
<1>5. Adds(b, b \o ms, M)
  <2>1. Len(b) \in Nat /\ Len(b \o ms) = Len(b) + n
    BY <1>1, <1>3
  <2>2. \A i \in 1 .. Len(b) : (b \o ms)[i] = b[i]
    BY <1>1, <1>3
  <2>3. \A i \in 1 .. Len(b) + n : i > Len(b) => (b \o ms)[i] = ms[i - Len(b)] /\ i - Len(b) \in 1 .. n
    BY <1>1, <1>3, <2>1
  <2> QED BY <2>1, <2>2, <2>3 DEF Adds
<1>6. [w EXCEPT !.out = w.out \o ms] \in Worlds
  BY <1>2, <1>4, WorldIs DEF Worlds
<1> QED BY <1>1, <1>2, <1>5, <1>6 DEF Kept

(* MidiCtlEvent::execute only queues messages. *)
LEMMA CtlKept ==
  ASSUME NEW w \in Worlds, NEW s \in Sequencers, NEW e \in CtlEvents
  PROVE  Kept(w, ExecuteCtl(w, s, e), FieldNames, NonStops)
<1> DEFINE line == LineTime(w.seq[s])
           start == w.seq[s].mCurrentTime + (line * e.delay) \div e.delayDiv
           timeStep == ((line * e.time) \div e.delayDiv) \div Distance(e.initValue, e.value)
           message(i) == MidiMsg(s, e, i, start + ((timeStep * Distance(e.initValue, i)) % Word))
           places == Cardinality(RampPlaces(e))
           value(k) == IF k <= places THEN RampValue(e, k - 1) ELSE e.value
           ms == [k \in 1 .. places + 1 |-> message(value(k))]
<1>1. ExecuteCtl(w, s, e) = IF IsRamp(e) THEN [w EXCEPT !.out = @ \o ms]
                            ELSE Queue(w, MidiMsg(s, e, e.value, start))
  BY DEF ExecuteCtl
<1>2. line \in Nat
  BY LineTimeIs, StateIs
<1>3. start \in Nat /\ (IsRamp(e) => timeStep \in Nat)
  <2> HIDE DEF line
  <2> QED BY <1>2, CtlTimes, StateIs
<1> HIDE DEF start, timeStep
<1>4. \A i \in Nat : Distance(e.initValue, i) \in Nat
  <2>1. e.initValue \in Int
    BY CtlIs, SequencerAssumption
  <2> SUFFICES ASSUME NEW i \in Nat PROVE Distance(e.initValue, i) \in Nat
    OBVIOUS
  <2>2. i \in Int
    OBVIOUS
  <2> QED BY ONLY <2>1, <2>2, DistanceIs
<1>5. places \in Nat
  <2>1. IsFiniteSet(0 .. MaxRamp - 1) /\ RampPlaces(e) \subseteq 0 .. MaxRamp - 1
    BY FS_Interval, SequencerAssumption DEF RampPlaces
  <2> QED BY <2>1, FS_Subset, FS_CardinalityType
<1> HIDE DEF places
<1>6. \A k \in 1 .. places + 1 : value(k) \in Nat
  <2>1. \A k \in Int : RampValue(e, k) \in Nat
    BY CtlIs, SequencerAssumption DEF RampValue
  <2> QED BY <1>5, <2>1, CtlIs
<1> HIDE DEF value
<1>7. ASSUME IsRamp(e), NEW i \in Nat PROVE message(i) \in NonStops
  <2>1. timeStep * Distance(e.initValue, i) \in Nat
    BY <1>3, <1>4, <1>7
  <2>2. (timeStep * Distance(e.initValue, i)) % Word \in Nat
    BY <2>1, SequencerAssumption
  <2> QED BY <1>3, <2>2, MidiMsgIs
<1> HIDE DEF message
<1>8. IsRamp(e) => \A k \in 1 .. places + 1 : ms[k] \in NonStops
  BY <1>6, <1>7
<1>9. ms = [k \in 1 .. places + 1 |-> ms[k]] /\ places + 1 \in Nat
  BY <1>5
<1>10. NonStops \in SUBSET Messages
  BY DEF NonStops
<1> HIDE DEF ms
<1>11. IsRamp(e) => Kept(w, [w EXCEPT !.out = @ \o ms], FieldNames, NonStops)
  BY <1>8, <1>9, <1>10, ManyKept
<1>12. MidiMsg(s, e, e.value, start) \in NonStops
  BY <1>3, CtlIs, MidiMsgIs
<1>13. Kept(w, Queue(w, MidiMsg(s, e, e.value, start)), FieldNames, NonStops)
  BY <1>10, <1>12, QueueKept
<1> QED BY <1>1, <1>11, <1>13
-----------------------------------------------------------------------------
(* What the subpatterns do, which the calls below may rest on. *)
NestedOK(nested) ==
  \A w \in Worlds : \A sub \in Sub : /\ Kept(w, nested[sub].line[w], FieldNames, NonStops)
                                    /\ Kept(w, nested[sub].silence[w], FieldNames, NonStops)

(* The time of a subpattern is none of the main song. *)
LEMMA SetTimeKept ==
  ASSUME NEW w \in Worlds, NEW s \in Sequencers, NEW sub \in Sub
  PROVE  Kept(w, SetTime(w, s, sub), FieldNames, NonStops)
<1> DEFINE q == [w.seq[sub] EXCEPT !.mCurrentTime = w.seq[s].mCurrentTime]
<1>1. SetTime(w, s, sub) = SetState(w, sub, q)
  BY DEF SetTime, SetState
<1>2. sub \in Sequencers /\ sub # Main
  BY MainIs DEF Sequencers
<1>3. q \in States
  BY <1>2, StateIs DEF States
<1> HIDE DEF q
<1>4. Kept(w, SetState(w, sub, q), FieldNames, NonStops)
  BY <1>2, <1>3, StateKept
<1> QED BY <1>1, <1>4

(* SubpatternPlayEvent::sustain leaves the main song alone, at whatever depth. *)
LEMMA SustainKept ==
  ASSUME NEW nested, NestedOK(nested), NEW w \in Worlds, NEW s \in Sequencers,
         NEW e \in NoteEvents \cup PlayEvents
  PROVE  Kept(w, SustainEvent(nested, w, s, e), FieldNames, NonStops)
<1>1. CASE e.kind = "play"
  <2>1. e.sub \in Sub
    BY <1>1 DEF NoteEvents, PlayEvents
  <2> DEFINE v == SetTime(w, s, e.sub)
  <2>2. Kept(w, v, FieldNames, NonStops) /\ v \in Worlds
    BY <2>1, SetTimeKept DEF Kept
  <2> HIDE DEF v
  <2>3. Kept(v, nested[e.sub].line[v], FieldNames, NonStops)
    BY <2>1, <2>2 DEF NestedOK
  <2>4. SustainEvent(nested, w, s, e) = nested[e.sub].line[v]
    BY <1>1 DEF SustainEvent, v
  <2> QED BY <2>2, <2>3, <2>4, KeptTwice
<1>2. CASE e.kind # "play"
  BY <1>2, KeptSelf DEF SustainEvent
<1> QED BY <1>1, <1>2

(* Stopping an event queues at most messages of its sequencer. *)
LEMMA StopKept ==
  ASSUME NEW nested, NestedOK(nested), NEW w \in Worlds, NEW s \in Sequencers,
         NEW e \in NoteEvents \cup PlayEvents
  PROVE  /\ Kept(w, StopEvent(nested, w, s, e), FieldNames, Mine(s))
         /\ e.kind = "play" => Kept(w, StopEvent(nested, w, s, e), FieldNames, NonStops)
<1>1. CASE e.kind = "play"
  <2>1. e.sub \in Sub
    BY <1>1 DEF NoteEvents, PlayEvents
  <2> DEFINE v == SetTime(w, s, e.sub)
  <2>2. Kept(w, v, FieldNames, NonStops) /\ v \in Worlds
    BY <2>1, SetTimeKept DEF Kept
  <2> HIDE DEF v
  <2>3. Kept(v, nested[e.sub].silence[v], FieldNames, NonStops)
    BY <2>1, <2>2 DEF NestedOK
  <2>4. StopEvent(nested, w, s, e) = nested[e.sub].silence[v]
    BY <1>1 DEF StopEvent, v
  <2>5. Kept(w, StopEvent(nested, w, s, e), FieldNames, NonStops)
    BY <2>2, <2>3, <2>4, KeptTwice
  <2>6. NonStops \subseteq Mine(s) /\ FieldNames \in SUBSET FieldNames
    BY DEF NonStops, Mine
  <2> QED BY <2>5, <2>6, KeptLess
<1>2. CASE e.kind # "play"
  <2>1. e \in NoteEvents
    BY <1>2 DEF PlayEvents
  <2> QED BY <1>2, <2>1, StopNoteKept DEF StopEvent
<1> QED BY <1>1, <1>2

(* SubpatternPlayEvent::execute leaves the main song alone. *)
LEMMA PlaySubKept ==
  ASSUME NEW nested, NestedOK(nested), NEW w \in Worlds, NEW s \in Sequencers, NEW e \in PlayEvents
  PROVE  Kept(w, PlaySub(nested, w, s, e), FieldNames, NonStops)
<1>1. e.kind = "play" /\ e.sub \in Sub /\ e.sub \in Sequencers /\ e.sub # Main
  BY MainIs DEF PlayEvents, Sequencers
<1> DEFINE q == [w.seq[e.sub] EXCEPT !.mCurrentPos = 0]
           v == SetState(w, e.sub, q)
<1>2. q \in States
  BY <1>1, StateIs DEF States
<1>3. v = [w EXCEPT !.seq[e.sub].mCurrentPos = 0]
  BY DEF SetState
<1> HIDE DEF q
<1>4. Kept(w, v, FieldNames, NonStops)
  BY <1>1, <1>2, StateKept
<1>5. PlaySub(nested, w, s, e) = SustainEvent(nested, v, s, e)
  BY <1>3 DEF PlaySub
<1> HIDE DEF v
<1>6. v \in Worlds
  BY <1>4 DEF Kept
<1>7. Kept(v, SustainEvent(nested, v, s, e), FieldNames, NonStops)
  BY <1>6, SustainKept
<1> QED BY <1>4, <1>5, <1>7, KeptTwice

(* The active events of a column. *)
LEMMA ActivesAre ==
  ASSUME NEW a \in ActiveLists, NEW c \in Columns
  PROVE  /\ DOMAIN a[c] = 1 .. Len(a[c]) /\ Len(a[c]) \in Nat
         /\ a[c] \in Seq({e \in NoteEvents \cup PlayEvents : NeedsStopping(e)})
         /\ \A i \in 1 .. Len(a[c]) : /\ a[c][i] \in NoteEvents \cup PlayEvents
                                      /\ NeedsStopping(a[c][i]) /\ a[c][i].column = c
BY DEF ActiveLists

(* Time goes on for s. *)
LEMMA TimeKept ==
  ASSUME NEW w \in Worlds, NEW s \in Sequencers, NEW t \in Nat
  PROVE  Kept(w, [w EXCEPT !.seq[s].mCurrentTime = @ + t], Owned(s, {"mCurrentTime"}), NonStops)
<1> DEFINE q == [w.seq[s] EXCEPT !.mCurrentTime = @ + t]
           F == Owned(s, {"mCurrentTime"})
<1>1. [w EXCEPT !.seq[s].mCurrentTime = @ + t] = SetState(w, s, q)
  BY DEF SetState
<1>2. q \in States
  BY StateIs, SequencerAssumption DEF States
<1>3. s = Main => \A x \in F : q[x] = w.seq[Main][x]
  BY StateIs DEF Owned, FieldNames
<1> HIDE DEF q, F
<1>4. Kept(w, SetState(w, s, q), F, NonStops)
  BY <1>2, <1>3, StateKept
<1> QED BY <1>1, <1>4 DEF F

Continued(nested, s, v, a) ==
  LET x == SustainEvent(nested, v, s, a)
  IN  [x EXCEPT !.seq[s].mCurrentTime = @ + LineTime(x.seq[s])]

(* An active event of a column that is continued takes a line of time. *)
LEMMA ContinuedKept ==
  ASSUME NEW nested, NestedOK(nested), NEW w \in Worlds, NEW s \in Sequencers,
         NEW e \in NoteEvents \cup PlayEvents
  PROVE  Kept(w, Continued(nested, s, w, e), Owned(s, {"mCurrentTime"}), NonStops)
<1> DEFINE x == SustainEvent(nested, w, s, e)
           F == Owned(s, {"mCurrentTime"})
<1>1. Kept(w, x, FieldNames, NonStops)
  BY SustainKept
<1>2. F \in SUBSET FieldNames
  BY DEF Owned
<1> HIDE DEF x
<1>3. Kept(w, x, F, NonStops)
  BY <1>1, <1>2, KeptLess
<1>4. x \in Worlds
  BY <1>1 DEF Kept
<1>5. LineTime(x.seq[s]) \in Nat
  BY <1>4, StateIs, LineTimeIs
<1>6. Kept(x, [x EXCEPT !.seq[s].mCurrentTime = @ + LineTime(x.seq[s])], F, NonStops)
  BY <1>4, <1>5, TimeKept
<1>7. Continued(nested, s, w, e) = [x EXCEPT !.seq[s].mCurrentTime = @ + LineTime(x.seq[s])]
  BY DEF Continued, x
<1> HIDE DEF F
<1>8. Kept(w, Continued(nested, s, w, e), F, NonStops)
  BY <1>3, <1>6, <1>7, KeptTwice
<1> QED BY <1>8 DEF F
-----------------------------------------------------------------------------
(* The three loops of WaitEvent::execute. *)
ContinueStep(b, nested, s, v, a) == Continued(nested, s, v, a)
ContinueFold == INSTANCE Iteration WITH Op <- ContinueStep

ColumnStep(b, nested, s, v, events) == ContinueFold!Iterated(b, nested, s, v, events)
ColumnFold == INSTANCE Iteration WITH Op <- ColumnStep

TurnStep(b, nested, s, v, columns) == ColumnFold!Iterated(b, nested, s, v, columns)
TurnFold == INSTANCE Iteration WITH Op <- TurnStep

AreEvents(events) ==
  /\ DOMAIN events = 1 .. Len(events) /\ Len(events) \in Nat
  /\ \A i \in 1 .. Len(events) : events[i] \in NoteEvents \cup PlayEvents

AreColumns(columns) ==
  /\ DOMAIN columns = 1 .. Len(columns) /\ Len(columns) \in Nat
  /\ \A i \in 1 .. Len(columns) : AreEvents(columns[i])

LEMMA ColumnKept ==
  ASSUME NEW nested, NestedOK(nested), NEW s \in Sequencers, NEW b,
         NEW w \in Worlds, NEW events, AreEvents(events)
  PROVE  Kept(w, ColumnStep(b, nested, s, w, events), Owned(s, {"mCurrentTime"}), NonStops)
<1>1. PICK f : /\ f[0] = w
               /\ \A i \in 1 .. Len(events) : f[i] = ContinueStep(b, nested, s, f[i - 1], events[i])
               /\ ContinueFold!Iterated(b, nested, s, w, events) = f[Len(events)]
  BY ContinueFold!Unfolds DEF AreEvents
<1> DEFINE n == Len(events)
           F == Owned(s, {"mCurrentTime"})
<1>2. ASSUME NEW i \in 1 .. n, f[i - 1] \in Worlds PROVE Kept(f[i - 1], f[i], F, NonStops)
  BY <1>1, <1>2, ContinuedKept DEF AreEvents, ContinueStep
<1>3. n \in Nat
  BY DEF AreEvents
<1> HIDE DEF F
<1>4. Kept(w, f[n], F, NonStops)
  <2> HIDE DEF n
  <2> QED BY <1>1, <1>2, <1>3, FoldKeeps
<1> QED BY <1>1, <1>4 DEF ColumnStep, F

LEMMA TurnKept ==
  ASSUME NEW nested, NestedOK(nested), NEW s \in Sequencers, NEW b,
         NEW w \in Worlds, NEW columns, AreColumns(columns)
  PROVE  Kept(w, TurnStep(b, nested, s, w, columns), Owned(s, {"mCurrentTime"}), NonStops)
<1>1. PICK f : /\ f[0] = w
               /\ \A i \in 1 .. Len(columns) : f[i] = ColumnStep(b, nested, s, f[i - 1], columns[i])
               /\ ColumnFold!Iterated(b, nested, s, w, columns) = f[Len(columns)]
  BY ColumnFold!Unfolds DEF AreColumns
<1> DEFINE n == Len(columns)
           F == Owned(s, {"mCurrentTime"})
<1>2. ASSUME NEW i \in 1 .. n, f[i - 1] \in Worlds PROVE Kept(f[i - 1], f[i], F, NonStops)
  BY <1>1, <1>2, ColumnKept DEF AreColumns
<1>3. n \in Nat
  BY DEF AreColumns
<1> HIDE DEF F
<1>4. Kept(w, f[n], F, NonStops)
  <2> HIDE DEF n
  <2> QED BY <1>1, <1>2, <1>3, FoldKeeps
<1> QED BY <1>1, <1>4 DEF TurnStep, F

LEMMA ActivesAreColumns ==
  ASSUME NEW q \in States
  PROVE  AreColumns(ActiveNotes(q))
<1> DEFINE a == q.mActiveNotesVec
           columns == [c \in 1 .. MaxColumn + 1 |-> a[c - 1]]
<1>1. a \in ActiveLists
  BY DEF States
<1>2. ActiveNotes(q) = columns
  BY DEF ActiveNotes
<1> HIDE DEF a
<1>3. Len(columns) = MaxColumn + 1 /\ MaxColumn + 1 \in Nat
  BY SequencerAssumption
<1>4. ASSUME NEW i \in 1 .. MaxColumn + 1 PROVE AreEvents(a[i - 1])
  <2>1. i - 1 \in Columns
    BY SequencerAssumption DEF Columns
  <2> QED BY <1>1, <2>1, ActivesAre DEF AreEvents
<1> QED BY <1>2, <1>3, <1>4 DEF AreColumns

(* WaitEvent::execute changes only the time. *)
LEMMA WaitKept ==
  ASSUME NEW nested, NestedOK(nested), NEW s \in Sequencers, NEW w \in Worlds,
         NEW e, e.n \in Nat
  PROVE  Kept(w, ExecuteWait(nested, w, s, e), Owned(s, {"mCurrentTime"}), NonStops)
<1> DEFINE columns == ActiveNotes(w.seq[s])
           turns == [i \in 1 .. e.n |-> columns]
<1>1. AreColumns(columns)
  BY StateIs, ActivesAreColumns
<1>2. ExecuteWait(nested, w, s, e) = TurnFold!Iterated(e, nested, s, w, turns)
  BY DEF ExecuteWait, FoldLeft, MapThenFoldSet, Max, Continued,
         TurnFold!Iterated, TurnFold!FoldLeft, TurnFold!MapThenFoldSet, TurnFold!Max, TurnStep,
         ColumnFold!Iterated, ColumnFold!FoldLeft, ColumnFold!MapThenFoldSet, ColumnFold!Max, ColumnStep,
         ContinueFold!Iterated, ContinueFold!FoldLeft, ContinueFold!MapThenFoldSet, ContinueFold!Max,
         ContinueStep
<1> HIDE DEF columns
<1>3. DOMAIN turns = 1 .. Len(turns) /\ Len(turns) \in Nat
      /\ \A i \in 1 .. Len(turns) : AreColumns(turns[i])
  BY <1>1
<1> HIDE DEF turns
<1>4. PICK f : /\ f[0] = w
               /\ \A i \in 1 .. Len(turns) : f[i] = TurnStep(e, nested, s, f[i - 1], turns[i])
               /\ TurnFold!Iterated(e, nested, s, w, turns) = f[Len(turns)]
  BY <1>3, TurnFold!Unfolds
<1> DEFINE n == Len(turns)
           F == Owned(s, {"mCurrentTime"})
<1>5. ASSUME NEW i \in 1 .. n, f[i - 1] \in Worlds PROVE Kept(f[i - 1], f[i], F, NonStops)
  BY <1>3, <1>4, <1>5, TurnKept
<1> HIDE DEF F
<1>6. Kept(w, f[n], F, NonStops)
  <2>1. n \in Nat
    BY <1>3
  <2> HIDE DEF n
  <2> QED BY <1>4, <1>5, <2>1, FoldKeeps
<1> QED BY <1>2, <1>4, <1>6 DEF F
-----------------------------------------------------------------------------
(* The events of a song that is read. *)
PedalEvents == [kind : {"pedal"}, column : Columns, event : NoteEvents \cup PlayEvents]

ReadEvents == NoteEvents \cup CtlEvents \cup PlayEvents \cup SkipEvents \cup Commands \cup PedalEvents

(* What an event changes of the sequencer that executes it. *)
Changes(e) ==
  CASE e.kind = "wait"  -> {"mCurrentTime"}
    [] e.kind = "tempo" -> {"mTempo"}
    [] e.kind = "bar"   -> {"mQuantSize"}
    [] OTHER            -> {}

(* The kind of an event tells its fields. *)
LEMMA KindsAre ==
  ASSUME NEW e \in ReadEvents
  PROVE  /\ e.kind \in {"note", "ctl", "play", "skip", "tempo", "bar", "wait", "pedal"}
         /\ e.kind = "note" => e \in NoteEvents
         /\ e.kind = "ctl" => e \in CtlEvents
         /\ e.kind = "play" => e \in PlayEvents
         /\ e.kind = "pedal" => e.event \in NoteEvents \cup PlayEvents
         /\ e.kind \in {"tempo", "bar", "wait"} <=> e \in Commands
         /\ e.kind \in {"tempo", "bar", "wait"} => e.n \in Nat
         /\ e.kind = "tempo" => e.n # 0
         /\ e.kind \notin {"tempo", "bar", "wait"} => e.column \in Columns
BY DEF ReadEvents, NoteEvents, CtlEvents, PlayEvents, SkipEvents, Commands, PedalEvents

(* A tempo or the size of a bar. *)
LEMMA FieldKept ==
  ASSUME NEW w \in Worlds, NEW s \in Sequencers, NEW n \in Nat \ {0},
         NEW x \in {"mTempo", "mQuantSize"}
  PROVE  Kept(w, [w EXCEPT !.seq[s][x] = n], Owned(s, {x}), NonStops)
<1> DEFINE q == [w.seq[s] EXCEPT ![x] = n]
           F == Owned(s, {x})
<1>1. [w EXCEPT !.seq[s][x] = n] = SetState(w, s, q)
  BY DEF SetState
<1>2. q \in States
  BY StateIs DEF States
<1>3. s = Main => \A y \in F : q[y] = w.seq[Main][y]
  BY StateIs DEF Owned, FieldNames
<1> HIDE DEF q, F
<1>4. Kept(w, SetState(w, s, q), F, NonStops)
  BY <1>2, <1>3, StateKept
<1> QED BY <1>1, <1>4 DEF F

(* An event changes only what Changes says of its sequencer. *)
LEMMA ExecuteKept ==
  ASSUME NEW nested, NestedOK(nested), NEW s \in Sequencers, NEW w \in Worlds, NEW e \in ReadEvents
  PROVE  Kept(w, Execute(nested, w, s, e), Owned(s, Changes(e)), Loud(s, e))
<1> DEFINE v == Execute(nested, w, s, e)
<1>1. /\ Owned(s, Changes(e)) \in SUBSET FieldNames
      /\ NonStops \subseteq Loud(s, e)
  BY DEF Owned, Loud, NonStops
<1>2. CASE e.kind = "note"
  <2>1. v = ExecuteNote(w, s, e)
    BY <1>2 DEF Execute
  <2> HIDE DEF v
  <2>2. Kept(w, v, FieldNames, Loud(s, e))
    BY <1>2, <2>1, KindsAre, NoteKept
  <2> QED BY <1>1, <2>2, KeptLess DEF v
<1>3. CASE e.kind \in {"ctl", "play", "pedal"}
  <2>1. v = CASE e.kind = "ctl" -> ExecuteCtl(w, s, e) [] e.kind = "play" -> PlaySub(nested, w, s, e)
              [] OTHER -> SustainEvent(nested, w, s, e.event)
    BY <1>3 DEF Execute
  <2> HIDE DEF v
  <2>2. Kept(w, v, FieldNames, NonStops)
    <3>1. CASE e.kind = "ctl"
      BY <2>1, <3>1, KindsAre, CtlKept
    <3>2. CASE e.kind = "play"
      BY <2>1, <3>2, KindsAre, PlaySubKept
    <3>3. CASE e.kind = "pedal"
      BY <2>1, <3>3, KindsAre, SustainKept
    <3> QED BY <1>3, <3>1, <3>2, <3>3
  <2> QED BY <1>1, <2>2, KeptLess DEF v
<1>4. CASE e.kind = "wait"
  <2>1. v = ExecuteWait(nested, w, s, e) /\ Changes(e) = {"mCurrentTime"}
    BY <1>4 DEF Execute, Changes
  <2>2. e.n \in Nat
    BY <1>4, KindsAre
  <2> HIDE DEF v
  <2>3. Kept(w, v, Owned(s, Changes(e)), NonStops)
    BY <2>1, <2>2, WaitKept
  <2> QED BY <1>1, <2>3, KeptLess DEF v
<1>5. CASE e.kind = "tempo"
  <2>1. v = [w EXCEPT !.seq[s]["mTempo"] = e.n] /\ Changes(e) = {"mTempo"}
    BY <1>5 DEF Execute, Changes
  <2>2. e.n \in Nat \ {0}
    BY <1>5, KindsAre
  <2> HIDE DEF v
  <2>3. Kept(w, v, Owned(s, Changes(e)), NonStops)
    BY <2>1, <2>2, FieldKept
  <2> QED BY <1>1, <2>3, KeptLess DEF v
<1>6. CASE e.kind = "bar" /\ e.n > 0
  <2>1. v = [w EXCEPT !.seq[s]["mQuantSize"] = e.n] /\ Changes(e) = {"mQuantSize"}
    BY <1>6 DEF Execute, Changes
  <2>2. e.n \in Nat \ {0}
    BY <1>6, KindsAre
  <2> HIDE DEF v
  <2>3. Kept(w, v, Owned(s, Changes(e)), NonStops)
    BY <2>1, <2>2, FieldKept
  <2> QED BY <1>1, <2>3, KeptLess DEF v
<1>7. CASE e.kind = "skip" \/ (e.kind = "bar" /\ ~(e.n > 0))
  <2>1. v = w
    BY <1>7 DEF Execute
  <2> QED BY <2>1, KeptSelf
<1> QED BY <1>2, <1>3, <1>4, <1>5, <1>6, <1>7, KindsAre
-----------------------------------------------------------------------------
StopStep(b, nested, s, v, e) == StopEvent(nested, v, s, e)
StopFold == INSTANCE Iteration WITH Op <- StopStep

AreList(events) == DOMAIN events = 1 .. Len(events) /\ Len(events) \in Nat

(* The stops of a column as a sequence of worlds. *)
LEMMA StopsFolded ==
  ASSUME NEW b, NEW nested, NEW s, NEW w, NEW events, AreList(events)
  PROVE  \E f : /\ f[0] = w
                /\ \A i \in 1 .. Len(events) : f[i] = StopStep(b, nested, s, f[i - 1], events[i])
                /\ StopFold!Iterated(b, nested, s, w, events) = f[Len(events)]
BY StopFold!Unfolds DEF AreList

(* The stops of a column, one by one. *)
LEMMA StopByStop ==
  ASSUME NEW nested, NEW w, NEW s, NEW c,
         NEW events, events = w.seq[s].mActiveNotesVec[c], AreList(events)
  PROVE  \E f : /\ f[0] = w
                /\ \A i \in 1 .. Len(events) : f[i] = StopEvent(nested, f[i - 1], s, events[i])
                /\ SilenceColumn(nested, w, s, c) = Forget(f[Len(events)], s, c)
<1>1. SilenceColumn(nested, w, s, c) = Forget(StopFold!Iterated(c, nested, s, w, events), s, c)
  BY DEF SilenceColumn, FoldLeft, StopFold!Iterated, StopFold!FoldLeft, MapThenFoldSet,
         StopFold!MapThenFoldSet, Max, StopFold!Max, StopStep
<1> QED BY <1>1, StopsFolded DEF StopStep

(* Forgetting the active events of a column. *)
LEMMA ForgetKept ==
  ASSUME NEW w \in Worlds, NEW s \in Sequencers, NEW c \in Columns
  PROVE  /\ Kept(w, Forget(w, s, c), Owned(s, {"mActiveNotesVec"}), NonStops)
         /\ Forget(w, s, c).seq[s].mActiveNotesVec = [w.seq[s].mActiveNotesVec EXCEPT ![c] = <<>>]
         /\ Forget(w, s, c).out = w.out
<1> DEFINE a == [w.seq[s].mActiveNotesVec EXCEPT ![c] = <<>>]
           q == [w.seq[s] EXCEPT !.mActiveNotesVec = a]
           F == Owned(s, {"mActiveNotesVec"})
<1>1. Forget(w, s, c) = SetState(w, s, q)
  BY DEF Forget, SetState
<1>2. a \in ActiveLists
  BY StateIs DEF ActiveLists
<1> HIDE DEF a
<1>3. q \in States /\ q.mActiveNotesVec = a
  BY <1>2, StateIs DEF States
<1>4. s = Main => \A x \in F : q[x] = w.seq[Main][x]
  BY StateIs DEF Owned, FieldNames
<1> HIDE DEF q, F
<1>5. /\ Kept(w, SetState(w, s, q), F, NonStops)
      /\ SetState(w, s, q).seq = [w.seq EXCEPT ![s] = q] /\ SetState(w, s, q).out = w.out
  BY <1>3, <1>4, StateKept
<1>6. SetState(w, s, q).seq[s] = q
  BY <1>5, WorldIs
<1> QED BY <1>1, <1>3, <1>5, <1>6 DEF F, a

(* Silencing a column changes the active events, and queues stops. *)
LEMMA SilenceColumnKept ==
  ASSUME NEW nested, NestedOK(nested), NEW w \in Worlds, NEW s \in Sequencers, NEW c \in Columns
  PROVE  Kept(w, SilenceColumn(nested, w, s, c), Owned(s, {"mActiveNotesVec"}), Mine(s))
<1> DEFINE F == Owned(s, {"mActiveNotesVec"})
<1> SUFFICES ASSUME NEW events, events = w.seq[s].mActiveNotesVec[c], NEW n, n = Len(events)
             PROVE  Kept(w, SilenceColumn(nested, w, s, c), F, Mine(s))
  OBVIOUS
<1>1. /\ n \in Nat /\ AreList(events)
      /\ \A i \in 1 .. n : events[i] \in NoteEvents \cup PlayEvents
  BY StateIs, ActivesAre DEF AreList
<1>2. PICK f : /\ f[0] = w
               /\ \A i \in 1 .. n : f[i] = StopEvent(nested, f[i - 1], s, events[i])
               /\ SilenceColumn(nested, w, s, c) = Forget(f[n], s, c)
  BY <1>1, StopByStop
<1>3. ASSUME NEW i \in 1 .. n, f[i - 1] \in Worlds PROVE Kept(f[i - 1], f[i], FieldNames, Mine(s))
  BY <1>1, <1>2, <1>3, StopKept
<1>4. Kept(w, f[n], FieldNames, Mine(s))
  BY <1>1, <1>2, <1>3, FoldKeeps
<1>5. F \in SUBSET FieldNames /\ NonStops \subseteq Mine(s)
  BY DEF Owned, Mine, NonStops
<1>6. f[n] \in Worlds
  BY <1>4 DEF Kept
<1>7. Kept(f[n], Forget(f[n], s, c), F, NonStops)
  BY <1>6, ForgetKept
<1> HIDE DEF F
<1>8. Kept(w, f[n], F, Mine(s))
  BY <1>4, <1>5, KeptLess
<1>9. Kept(f[n], Forget(f[n], s, c), F, Mine(s))
  BY <1>5, <1>7, KeptLess
<1> QED BY <1>2, <1>8, <1>9, KeptTwice DEF F

(* Sequencer::silence, of every column. *)
SilenceStep(b, nested, s, v, c) == SilenceColumn(nested, v, s, c)
SilenceFold == INSTANCE Iteration WITH Op <- SilenceStep

(* The columns of silence as a sequence of worlds. *)
LEMMA ColumnsFolded ==
  ASSUME NEW b, NEW nested, NEW s, NEW w, NEW columns, AreList(columns)
  PROVE  \E f : /\ f[0] = w
                /\ \A i \in 1 .. Len(columns) : f[i] = SilenceStep(b, nested, s, f[i - 1], columns[i])
                /\ SilenceFold!Iterated(b, nested, s, w, columns) = f[Len(columns)]
BY SilenceFold!Unfolds DEF AreList

(* Sequencer::silence changes the active events, and queues stops. *)
LEMMA SilenceKept ==
  ASSUME NEW nested, NestedOK(nested), NEW w \in Worlds, NEW s \in Sequencers
  PROVE  Kept(w, Silence(nested, w, s), Owned(s, {"mActiveNotesVec"}), Mine(s))
<1> DEFINE F == Owned(s, {"mActiveNotesVec"})
           list == [c \in 1 .. MaxColumn + 1 |-> c - 1]
<1>1. Silence(nested, w, s) = SilenceFold!Iterated(s, nested, s, w, list)
  BY DEF Silence, FoldLeft, SilenceFold!Iterated, SilenceFold!FoldLeft, MapThenFoldSet,
         SilenceFold!MapThenFoldSet, Max, SilenceFold!Max, SilenceStep
<1>2. /\ AreList(list) /\ Len(list) \in Nat
      /\ \A i \in 1 .. Len(list) : list[i] \in Columns
  BY SequencerAssumption DEF AreList, Columns
<1> HIDE DEF list, F
<1>3. PICK f : /\ f[0] = w
               /\ \A i \in 1 .. Len(list) : f[i] = SilenceStep(s, nested, s, f[i - 1], list[i])
               /\ SilenceFold!Iterated(s, nested, s, w, list) = f[Len(list)]
  BY <1>2, ColumnsFolded
<1>4. ASSUME NEW i \in 1 .. Len(list), f[i - 1] \in Worlds PROVE Kept(f[i - 1], f[i], F, Mine(s))
  BY <1>2, <1>3, <1>4, SilenceColumnKept DEF SilenceStep, F
<1>5. Kept(w, f[Len(list)], F, Mine(s))
  BY <1>2, <1>3, <1>4, FoldKeeps
<1> QED BY <1>1, <1>3, <1>5 DEF F
-----------------------------------------------------------------------------
(* What playNextLine has when it is at an event of a line. *)
LineStates ==
  {a \in [w : Worlds, next : ActiveLists, advance : BOOLEAN] : ~a.advance => a.next = NoActives}

LEMMA LineStateIs ==
  ASSUME NEW a \in LineStates
  PROVE  /\ a.w \in Worlds /\ a.next \in ActiveLists /\ a.advance \in BOOLEAN
         /\ ~a.advance => a.next = NoActives
         /\ a = [w |-> a.w, next |-> a.next, advance |-> a.advance]
BY DEF LineStates

(* The events of a line leave where s is in its song. *)
Place(s) == Owned(s, FieldNames \ {"mCurrentPos"})

(* An event remembered is in the list of its column. *)
LEMMA RememberIs ==
  ASSUME NEW next \in ActiveLists, NEW e \in NoteEvents \cup PlayEvents, NeedsStopping(e)
  PROVE  Remember(next, e) \in ActiveLists
<1> DEFINE list == Append(next[e.column], e)
           E == {x \in NoteEvents \cup PlayEvents : NeedsStopping(x)}
<1>1. e.column \in Columns /\ e \in E
  BY DEF NoteEvents, PlayEvents
<1>2. next \in [Columns -> Seq(E)]
  BY DEF ActiveLists
<1>3. next[e.column] \in Seq(E)
  BY <1>1, <1>2
<1>4. list \in Seq(E)
  <2> HIDE DEF E
  <2> QED BY <1>1, <1>3
<1>5. \A i \in DOMAIN list : list[i].column = e.column
  <2>1. \A i \in DOMAIN next[e.column] : next[e.column][i].column = e.column
    BY <1>1 DEF ActiveLists
  <2>2. \A i \in DOMAIN list : \/ i \in DOMAIN next[e.column] /\ list[i] = next[e.column][i]
                             \/ list[i] = e
    <3> HIDE DEF E
    <3> QED BY <1>3
  <2> QED BY <2>1, <2>2
<1>6. Remember(next, e) = [next EXCEPT ![e.column] = list]
  BY DEF Remember
<1> HIDE DEF list
<1>7. [next EXCEPT ![e.column] = list] \in [Columns -> Seq(E)]
  BY <1>2, <1>4
<1>8. \A c \in Columns : \A i \in DOMAIN [next EXCEPT ![e.column] = list][c] :
        [next EXCEPT ![e.column] = list][c][i].column = c
  BY <1>2, <1>5 DEF ActiveLists
<1> QED BY <1>6, <1>7, <1>8 DEF ActiveLists

(* The members of two sequences joined. *)
LEMMA JoinedIs ==
  ASSUME NEW E, NEW x \in Seq(E), NEW y \in Seq(E)
  PROVE  /\ x \o y \in Seq(E)
         /\ \A i \in DOMAIN (x \o y) :
              \/ i \in DOMAIN x /\ (x \o y)[i] = x[i]
              \/ i - Len(x) \in DOMAIN y /\ (x \o y)[i] = y[i - Len(x)]
OBVIOUS

(* Active events merged stay in their columns. *)
LEMMA MergedIs ==
  ASSUME NEW a \in ActiveLists, NEW b \in ActiveLists
  PROVE  Merged(a, b) \in ActiveLists
<1> DEFINE E == {x \in NoteEvents \cup PlayEvents : NeedsStopping(x)}
<1>1. a \in [Columns -> Seq(E)] /\ b \in [Columns -> Seq(E)]
  BY DEF ActiveLists
<1>2. ASSUME NEW c \in Columns
      PROVE  /\ a[c] \o b[c] \in Seq(E)
             /\ \A i \in DOMAIN (a[c] \o b[c]) : (a[c] \o b[c])[i].column = c
  <2>1. a[c] \in Seq(E) /\ b[c] \in Seq(E)
    BY <1>1, <1>2
  <2>2. /\ \A i \in DOMAIN a[c] : a[c][i].column = c
        /\ \A i \in DOMAIN b[c] : b[c][i].column = c
    BY <1>2 DEF ActiveLists
  <2> HIDE DEF E
  <2> SUFFICES ASSUME NEW x, x = a[c], NEW y, y = b[c]
               PROVE  x \o y \in Seq(E) /\ \A i \in DOMAIN (x \o y) : (x \o y)[i].column = c
    OBVIOUS
  <2>3. /\ x \o y \in Seq(E)
        /\ \A i \in DOMAIN (x \o y) :
              \/ i \in DOMAIN x /\ (x \o y)[i] = x[i]
              \/ i - Len(x) \in DOMAIN y /\ (x \o y)[i] = y[i - Len(x)]
    <3>1. x \in Seq(E) /\ y \in Seq(E)
      BY <2>1
    <3> QED BY ONLY <3>1, JoinedIs
  <2> QED BY <2>2, <2>3
<1> QED BY <1>2 DEF ActiveLists, Merged

(* An event leaves the position of its sequencer. *)
LEMMA EventKept ==
  ASSUME NEW nested, NestedOK(nested), NEW s \in Sequencers, NEW a \in LineStates,
         NEW e \in ReadEvents
  PROVE  /\ PlayEvent(nested, a, s, e) \in LineStates
         /\ Kept(a.w, PlayEvent(nested, a, s, e).w, Place(s), Mine(s))
<1> DEFINE done == Execute(nested, a.w, s, e)
           v == IF SilencesPrevious(e) THEN SilenceColumn(nested, done, s, e.column) ELSE done
           next == IF NeedsStopping(e) THEN Remember(a.next, e) ELSE a.next
           advance == a.advance \/ TakesTime(e)
<1>1. PlayEvent(nested, a, s, e) = [w |-> v, next |-> next, advance |-> advance]
  BY DEF PlayEvent
<1>2. Kept(a.w, done, Place(s), Mine(s)) /\ done \in Worlds
  <2>1. Kept(a.w, done, Owned(s, Changes(e)), Loud(s, e))
    BY LineStateIs, ExecuteKept
  <2>2. Place(s) \in SUBSET Owned(s, Changes(e)) /\ Loud(s, e) \subseteq Mine(s)
    BY DEF Place, Owned, Loud, Mine, NonStops, Changes, FieldNames
  <2> HIDE DEF done
  <2> QED BY <2>1, <2>2, KeptLess DEF Kept
<1> HIDE DEF done
<1>3. Kept(a.w, v, Place(s), Mine(s))
  <2>1. CASE SilencesPrevious(e)
    <3>1. e.column \in Columns
      BY <2>1, KindsAre DEF SilencesPrevious
    <3>2. Kept(done, SilenceColumn(nested, done, s, e.column), Owned(s, {"mActiveNotesVec"}), Mine(s))
      BY <1>2, <3>1, SilenceColumnKept
    <3>3. Place(s) \in SUBSET Owned(s, {"mActiveNotesVec"})
      BY DEF Place, Owned, FieldNames
    <3>4. v = SilenceColumn(nested, done, s, e.column)
      BY <2>1
    <3> HIDE DEF v
    <3>5. Kept(done, v, Place(s), Mine(s))
      BY <3>2, <3>3, <3>4, KeptLess
    <3> QED BY <1>2, <3>5, LineStateIs, KeptTwice
  <2>2. CASE ~SilencesPrevious(e)
    BY <1>2, <2>2
  <2> QED BY <2>1, <2>2
<1>4. next \in ActiveLists
  <2>1. NeedsStopping(e) => e \in NoteEvents \cup PlayEvents
    BY KindsAre DEF NeedsStopping
  <2> QED BY <2>1, LineStateIs, RememberIs
<1>5. advance \in BOOLEAN /\ (~advance => next = NoActives)
  BY LineStateIs DEF TakesTime, NeedsStopping
<1> HIDE DEF v, next, advance
<1>6. v \in Worlds
  BY <1>3 DEF Kept
<1> QED BY <1>1, <1>3, <1>4, <1>5, <1>6 DEF LineStates
-----------------------------------------------------------------------------
(* A fold of events keeps what each of them keeps. *)
LEMMA EventsFolded ==
  ASSUME NEW b, NEW nested, NEW s, NEW a, NEW line, AreList(line)
  PROVE  \E f : /\ f[0] = a
                /\ \A i \in 1 .. Len(line) : f[i] = PlayEvent(nested, f[i - 1], s, line[i])
                /\ EventFold!Iterated(b, nested, s, a, line) = f[Len(line)]
BY EventFold!Unfolds DEF AreList, EventStep

(* So do the events of a line. *)
LEMMA EventsKept ==
  ASSUME NEW nested, NestedOK(nested), NEW s \in Sequencers, NEW a \in LineStates,
         NEW line, AreList(line), \A i \in 1 .. Len(line) : line[i] \in ReadEvents,
         NEW f, f[0] = a, \A i \in 1 .. Len(line) : f[i] = PlayEvent(nested, f[i - 1], s, line[i])
  PROVE  \A i \in 0 .. Len(line) : f[i] \in LineStates /\ Kept(a.w, f[i].w, Place(s), Mine(s))
<1> DEFINE OK(i) == f[i] \in LineStates /\ Kept(a.w, f[i].w, Place(s), Mine(s))
           T == {i \in Nat : i <= Len(line) => OK(i)}
<1>1. 0 \in T
  BY LineStateIs, KeptSelf
<1>2. ASSUME NEW i \in T PROVE i + 1 \in T
  <2> SUFFICES ASSUME i + 1 <= Len(line) PROVE OK(i + 1)
    OBVIOUS
  <2>1. OK(i) /\ i + 1 \in 1 .. Len(line) /\ (i + 1) - 1 = i
    BY DEF AreList
  <2>2. /\ PlayEvent(nested, f[i], s, line[i + 1]) \in LineStates
        /\ Kept(f[i].w, PlayEvent(nested, f[i], s, line[i + 1]).w, Place(s), Mine(s))
    BY <2>1, EventKept
  <2>3. f[i + 1] = PlayEvent(nested, f[i], s, line[i + 1])
    BY <2>1
  <2>4. Kept(f[i].w, f[i + 1].w, Place(s), Mine(s)) /\ f[i + 1] \in LineStates
    BY <2>2, <2>3
  <2> QED BY <2>1, <2>4, LineStateIs, KeptTwice
<1>3. T = Nat
  <2> HIDE DEF T
  <2>1. T \in SUBSET Nat
    BY DEF T
  <2> QED BY <1>1, <1>2, <2>1, EventFold!SetInduction
<1> QED BY <1>3 DEF AreList

(* The time of a line of the main song is noted before its events. *)
LEMMA BeginLineIs ==
  ASSUME NEW a \in LineStates, NEW s \in Sequencers
  PROVE  /\ BeginLine(a, s) \in LineStates
         /\ BeginLine(a, s).w.seq = a.w.seq /\ BeginLine(a, s).w.out = a.w.out
         /\ BeginLine(a, s).next = a.next /\ BeginLine(a, s).advance = a.advance
         /\ s = Main => BeginLine(a, s).w.at = Append(a.w.at, a.w.seq[Main].mCurrentTime)
         /\ s # Main => BeginLine(a, s) = a
<1> DEFINE more == IF s = Main THEN Append(a.w.at, a.w.seq[s].mCurrentTime) ELSE a.w.at
<1>1. BeginLine(a, s) = [w |-> [seq |-> a.w.seq, out |-> a.w.out, at |-> more],
                         next |-> a.next, advance |-> a.advance]
  <2> SUFFICES ASSUME NEW x, NEW y, NEW z, x = a.w.seq, y = a.w.out, z = a.w.at,
                      NEW n, NEW d, n = a.next, d = a.advance
               PROVE  BeginLine(a, s) = [w |-> [seq |-> x, out |-> y, at |-> more],
                                         next |-> n, advance |-> d]
    OBVIOUS
  <2>1. a = [w |-> [seq |-> x, out |-> y, at |-> z], next |-> n, advance |-> d]
    BY LineStateIs, WorldIs
  <2>2. \A r : [a EXCEPT !.w.at = r] = [w |-> [seq |-> x, out |-> y, at |-> r],
                                       next |-> n, advance |-> d]
    BY <2>1
  <2>3. BeginLine(a, s) = [a EXCEPT !.w.at = more]
    BY DEF BeginLine
  <2> HIDE DEF more
  <2> QED BY <2>2, <2>3
<1>2. more \in Seq(Nat)
  BY LineStateIs, WorldIs, StateIs
<1> HIDE DEF more
<1>3. [seq |-> a.w.seq, out |-> a.w.out, at |-> more] \in Worlds
  BY <1>2, LineStateIs, WorldIs DEF Worlds
<1>4. BeginLine(a, s) \in LineStates
  BY <1>1, <1>3, LineStateIs DEF LineStates
<1>5. s # Main => BeginLine(a, s) = a
  <2> SUFFICES ASSUME s # Main PROVE BeginLine(a, s) = a
    OBVIOUS
  <2>1. more = a.w.at
    BY DEF more
  <2> QED BY <1>1, <2>1, LineStateIs, WorldIs
<1>6. s = Main => more = Append(a.w.at, a.w.seq[Main].mCurrentTime)
  BY DEF more
<1> QED BY <1>1, <1>4, <1>5, <1>6

With(q, p, m, t) == [q EXCEPT !.mCurrentPos = p, !.mActiveNotesVec = m, !.mCurrentTime = t]

(* The fields that a line sets at its end. *)
LEMMA StateWith ==
  ASSUME NEW q \in States, NEW p \in Nat, NEW m \in ActiveLists, NEW t \in Nat, t >= StartTime
  PROVE  /\ With(q, p, m, t) \in States
         /\ With(q, p, m, t).mCurrentPos = p
         /\ With(q, p, m, t).mActiveNotesVec = m
         /\ With(q, p, m, t).mCurrentTime = t
<1>1. With(q, p, m, t) \in States
  BY DEF States, With
<1>2. DOMAIN q = FieldNames
  BY DEF States, FieldNames
<1> QED BY <1>1, <1>2 DEF With, FieldNames

EndState(a, s, k) ==
  LET q == a.w.seq[s]
  IN  With(q, k + 1, Merged(q.mActiveNotesVec, a.next),
           IF a.advance THEN q.mCurrentTime + LineTime(q) ELSE q.mCurrentTime)

(* The end of a line: the position is the next, and time does not go back. *)
LEMMA EndLineIs ==
  ASSUME NEW a \in LineStates, NEW s \in Sequencers, NEW k \in Nat
  PROVE  /\ EndLine(a, s, k) = [w |-> SetState(a.w, s, EndState(a, s, k)),
                                next |-> a.next, advance |-> a.advance]
         /\ EndState(a, s, k) \in States
         /\ EndState(a, s, k).mCurrentPos = k + 1
         /\ EndState(a, s, k).mActiveNotesVec = Merged(a.w.seq[s].mActiveNotesVec, a.next)
         /\ EndState(a, s, k).mCurrentTime >= a.w.seq[s].mCurrentTime
         /\ EndLine(a, s, k) \in LineStates
<1> DEFINE q == EndState(a, s, k)
           m == Merged(a.w.seq[s].mActiveNotesVec, a.next)
           t == IF a.advance THEN a.w.seq[s].mCurrentTime + LineTime(a.w.seq[s])
                ELSE a.w.seq[s].mCurrentTime
<1>1. EndLine(a, s, k) = [w |-> SetState(a.w, s, q), next |-> a.next, advance |-> a.advance]
  <2> SUFFICES ASSUME NEW w, NEW n, NEW d, w = a.w, n = a.next, d = a.advance
               PROVE  EndLine(a, s, k) = [w |-> SetState(w, s, q), next |-> n, advance |-> d]
    OBVIOUS
  <2>1. a = [w |-> w, next |-> n, advance |-> d]
    BY LineStateIs
  <2>2. EndLine(a, s, k) = [a EXCEPT !.w.seq[s] = q]
    BY DEF EndLine, EndState, With
  <2> HIDE DEF q
  <2> QED BY <2>1, <2>2 DEF SetState
<1>2. a.w.seq[s] \in States
  BY LineStateIs, StateIs
<1>3. m \in ActiveLists
  BY LineStateIs, StateIs, MergedIs
<1>4. t \in Nat /\ t >= a.w.seq[s].mCurrentTime /\ t >= StartTime
  BY <1>2, LineStateIs, StateIs, LineTimeIs, SequencerAssumption
<1>5. q = With(a.w.seq[s], k + 1, m, t) /\ k + 1 \in Nat
  BY DEF EndState
<1> HIDE DEF q, m, t
<1>6. q \in States /\ q.mCurrentPos = k + 1 /\ q.mActiveNotesVec = m /\ q.mCurrentTime = t
  BY <1>2, <1>3, <1>4, <1>5, StateWith
<1>7. SetState(a.w, s, q) \in Worlds
  <2>1. Kept(a.w, SetState(a.w, s, q), {}, Messages)
    BY <1>6, LineStateIs, StateKept
  <2> QED BY <2>1 DEF Kept
<1>8. EndLine(a, s, k) \in LineStates
  BY <1>1, <1>7, LineStateIs DEF LineStates
<1> QED BY <1>1, <1>4, <1>6, <1>8 DEF q, m
-----------------------------------------------------------------------------
IsLine(line) == AreList(line) /\ \A i \in 1 .. Len(line) : line[i] \in ReadEvents

(* A song that is read. *)
IsSong(song) == AreList(song) /\ \A k \in 1 .. Len(song) : IsLine(song[k])

(* A line as a sequence of what its events leave. *)
LEMMA LineByEvents ==
  ASSUME NEW nested, NEW song, NEW a, NEW s, NEW k, NEW line, line = song[k + 1], AreList(line)
  PROVE  \E f : /\ f[0] = BeginLine(a, s)
                /\ \A i \in 1 .. Len(line) : f[i] = PlayEvent(nested, f[i - 1], s, line[i])
                /\ PlayLine(nested, song, a, s, k) = EndLine(f[Len(line)], s, k)
<1>1. PlayLine(nested, song, a, s, k)
        = EndLine(EventFold!Iterated(k, nested, s, BeginLine(a, s), line), s, k)
  BY DEF PlayLine, FoldLeft, EventFold!Iterated, EventFold!FoldLeft, MapThenFoldSet,
         EventFold!MapThenFoldSet, Max, EventFold!Max, EventStep
<1> QED BY <1>1, EventsFolded

(* A line moves its own sequencer by one, and the main song only if it is its own. *)
LEMMA PlayLineIs ==
  ASSUME NEW nested, NestedOK(nested), NEW song, NEW s \in Sequencers, NEW a \in LineStates,
         NEW k \in Nat, IsLine(song[k + 1]), NEW x, x = PlayLine(nested, song, a, s, k)
  PROVE  /\ x \in LineStates
         /\ x.w.seq[s].mCurrentPos = k + 1
         /\ s # Main => Kept(a.w, x.w, FieldNames, NonStops)
         /\ s = Main => x.w.at = Append(a.w.at, a.w.seq[Main].mCurrentTime)
<1> SUFFICES ASSUME NEW line, line = song[k + 1], NEW n, n = Len(line), NEW b, b = BeginLine(a, s)
             PROVE  /\ x \in LineStates
                    /\ x.w.seq[s].mCurrentPos = k + 1
                    /\ s # Main => Kept(a.w, x.w, FieldNames, NonStops)
                    /\ s = Main => x.w.at = Append(a.w.at, a.w.seq[Main].mCurrentTime)
  OBVIOUS
<1>1. AreList(line) /\ IsLine(line) /\ n \in Nat
  BY DEF IsLine, AreList
<1>2. PICK f : /\ f[0] = b
               /\ \A i \in 1 .. Len(line) : f[i] = PlayEvent(nested, f[i - 1], s, line[i])
               /\ x = EndLine(f[n], s, k)
  <2>1. PICK f : /\ f[0] = BeginLine(a, s)
                 /\ \A i \in 1 .. Len(line) : f[i] = PlayEvent(nested, f[i - 1], s, line[i])
                 /\ PlayLine(nested, song, a, s, k) = EndLine(f[Len(line)], s, k)
    BY ONLY <1>1, line = song[k + 1], LineByEvents
  <2> QED BY <2>1
<1>3. /\ b \in LineStates
      /\ s = Main => b.w.at = Append(a.w.at, a.w.seq[Main].mCurrentTime)
      /\ s # Main => b = a
  BY BeginLineIs
<1>4. f[n] \in LineStates /\ Kept(b.w, f[n].w, Place(s), Mine(s))
  <2>0. \A i \in 1 .. Len(line) : line[i] \in ReadEvents
    BY <1>1 DEF IsLine
  <2>1. \A i \in 0 .. Len(line) : f[i] \in LineStates /\ Kept(b.w, f[i].w, Place(s), Mine(s))
    BY ONLY NestedOK(nested), s \in Sequencers, <2>0, <1>1, <1>2, <1>3, EventsKept
  <2> QED BY <1>1, <2>1
<1> SUFFICES ASSUME NEW c, c = f[n], NEW q, q = EndState(c, s, k)
             PROVE  /\ x \in LineStates
                    /\ x.w.seq[s].mCurrentPos = k + 1
                    /\ s # Main => Kept(a.w, x.w, FieldNames, NonStops)
                    /\ s = Main => x.w.at = Append(a.w.at, a.w.seq[Main].mCurrentTime)
  OBVIOUS
<1>5. /\ x = [w |-> SetState(c.w, s, q), next |-> c.next, advance |-> c.advance]
      /\ q \in States /\ q.mCurrentPos = k + 1 /\ x \in LineStates
  BY <1>2, <1>4, EndLineIs
<1>6. c.w \in Worlds
  BY <1>4, LineStateIs
<1>7. /\ Kept(c.w, x.w, {}, NonStops)
      /\ s # Main => Kept(c.w, x.w, FieldNames, NonStops)
      /\ x.w.seq = [c.w.seq EXCEPT ![s] = q]
  <2>1. x.w = SetState(c.w, s, q)
    BY <1>5
  <2>2. /\ Kept(c.w, SetState(c.w, s, q), {}, NonStops)
        /\ SetState(c.w, s, q).seq = [c.w.seq EXCEPT ![s] = q]
    BY ONLY s \in Sequencers, <1>5, <1>6, StateKept
  <2>3. s # Main => Kept(c.w, SetState(c.w, s, q), FieldNames, NonStops)
    BY <1>5, <1>6, StateKept
  <2> QED BY <2>1, <2>2, <2>3
<1>8. x.w.seq[s] = q
  BY <1>6, <1>7, WorldIs
<1>9. s # Main => Kept(a.w, x.w, FieldNames, NonStops)
  <2> SUFFICES ASSUME s # Main PROVE Kept(a.w, x.w, FieldNames, NonStops)
    OBVIOUS
  <2>1. Place(s) = FieldNames /\ Mine(s) = NonStops
    BY DEF Place, Owned, Mine
  <2>2. Kept(a.w, c.w, FieldNames, NonStops)
    BY <1>3, <1>4, <2>1
  <2> QED BY <1>7, <2>2, LineStateIs, KeptTwice
<1>10. s = Main => x.w.at = Append(a.w.at, a.w.seq[Main].mCurrentTime)
  BY <1>3, <1>4, <1>7 DEF Kept
<1> QED BY <1>5, <1>8, <1>9, <1>10
-----------------------------------------------------------------------------
(* The lines of a song, until one takes time. *)
LineStep(song, nested, s, a, k) == IF a.advance THEN a ELSE PlayLine(nested, song, a, s, k)
LineFold == INSTANCE Iteration WITH Op <- LineStep

(* The lines of playNextLine as a sequence of what they leave. *)
LEMMA LinesFolded ==
  ASSUME NEW song, NEW nested, NEW s, NEW a, NEW list, AreList(list)
  PROVE  \E f : /\ f[0] = a
                /\ \A i \in 1 .. Len(list) : f[i] = LineStep(song, nested, s, f[i - 1], list[i])
                /\ LineFold!Iterated(song, nested, s, a, list) = f[Len(list)]
BY LineFold!Unfolds DEF AreList

Start(w) == [w |-> w, next |-> NoActives, advance |-> FALSE]

LineStays(nested, song, s, S) ==
  \A a \in S : \A k \in Nat :
    ~a.advance /\ a.w.seq[s].mCurrentPos = k /\ k < Len(song) =>
      /\ PlayLine(nested, song, a, s, k) \in S
      /\ PlayLine(nested, song, a, s, k).w.seq[s].mCurrentPos = k + 1

(* What holds before the first line, and after a line when it does before, *)
(* holds after playNextLine.                                               *)
LEMMA LinesReach ==
  ASSUME NEW nested, NEW song, Len(song) \in Nat, NEW w, NEW s, w.seq[s].mCurrentPos \in Nat,
         NEW S, Start(w) \in S, LineStays(nested, song, s, S)
  PROVE  \E a \in S : PlayNextLine(nested, song, w, s) = a.w
<1> SUFFICES ASSUME NEW first, first = w.seq[s].mCurrentPos, NEW n, n = Len(song) - first
             PROVE  \E a \in S : PlayNextLine(nested, song, w, s) = a.w
  OBVIOUS
<1> DEFINE list == [i \in 1 .. n |-> first + i - 1]
<1>1. PlayNextLine(nested, song, w, s) = LineFold!Iterated(song, nested, s, Start(w), list).w
  BY DEF PlayNextLine, FoldLeft, LineFold!Iterated, LineFold!FoldLeft, MapThenFoldSet,
         LineFold!MapThenFoldSet, Max, LineFold!Max, LineStep, Start
<1>2. /\ AreList(list) /\ (n \in Nat => Len(list) = n) /\ (n \notin Nat => Len(list) = 0)
      /\ \A i \in 1 .. Len(list) : list[i] = first + i - 1 /\ n \in Nat
  <2>1. CASE n \in Nat
    BY <2>1 DEF AreList
  <2>2. CASE n \notin Nat
    <3>1. 1 .. n = {}
      BY <2>2
    <3>2. list = <<>>
      BY <3>1
    <3> HIDE DEF list
    <3>3. DOMAIN list = 1 .. 0 /\ Len(list) = 0
      BY <3>2
    <3> QED BY <2>2, <3>3 DEF AreList
  <2> QED BY <2>1, <2>2
<1> HIDE DEF list
<1>3. PICK f : /\ f[0] = Start(w)
               /\ \A i \in 1 .. Len(list) : f[i] = LineStep(song, nested, s, f[i - 1], list[i])
               /\ LineFold!Iterated(song, nested, s, Start(w), list) = f[Len(list)]
  BY ONLY <1>2, LinesFolded
<1> DEFINE OK(i) == f[i] \in S /\ (~f[i].advance => f[i].w.seq[s].mCurrentPos = first + i)
           T == {i \in Nat : i <= Len(list) => OK(i)}
<1>4. 0 \in T
  BY <1>3 DEF Start
<1>5. ASSUME NEW i \in T PROVE i + 1 \in T
  <2> SUFFICES ASSUME i + 1 <= Len(list) PROVE OK(i + 1)
    OBVIOUS
  <2>1. OK(i) /\ i + 1 \in 1 .. Len(list) /\ (i + 1) - 1 = i /\ n \in Nat /\ i + 1 <= n
    BY <1>2 DEF AreList
  <2>2. f[i + 1] = LineStep(song, nested, s, f[i], first + i) /\ first + i \in Nat /\ first + i < Len(song)
    BY <1>2, <1>3, <2>1
  <2> SUFFICES ASSUME NEW a, a = f[i], NEW k, k = first + i PROVE OK(i + 1)
    OBVIOUS
  <2>3. CASE a.advance
    BY <2>1, <2>2, <2>3 DEF LineStep
  <2>4. CASE ~a.advance
    <3>1. a.w.seq[s].mCurrentPos = k /\ a \in S /\ k \in Nat /\ k < Len(song)
      BY <2>1, <2>2, <2>4
    <3>2. f[i + 1] = PlayLine(nested, song, a, s, k)
      BY <2>2, <2>4 DEF LineStep
    <3>3. f[i + 1] \in S /\ f[i + 1].w.seq[s].mCurrentPos = k + 1
      BY <2>4, <3>1, <3>2 DEF LineStays
    <3>4. k + 1 = first + (i + 1)
      <4>1. i \in Nat /\ first \in Nat
        OBVIOUS
      <4> QED BY ONLY <4>1, k = first + i
    <3> QED BY ONLY <3>3, <3>4
  <2> QED BY <2>3, <2>4
<1>6. T = Nat
  <2> HIDE DEF T
  <2>1. T \in SUBSET Nat
    BY DEF T
  <2> QED BY <1>4, <1>5, <2>1, EventFold!SetInduction
<1>7. f[Len(list)] \in S
  BY <1>2, <1>6 DEF AreList
<1> QED BY <1>1, <1>3, <1>7
-----------------------------------------------------------------------------
(* The next line of a subpattern leaves the song that plays it as it is.   *)
LEMMA SubpatternKept ==
  ASSUME NEW nested, NestedOK(nested), NEW song, IsSong(song), NEW s \in Sub, NEW w \in Worlds
  PROVE  Kept(w, PlayNextLine(nested, song, w, s), FieldNames, NonStops)
<1> DEFINE S == {a \in LineStates : Kept(w, a.w, FieldNames, NonStops)}
<1>1. s \in Sequencers /\ s # Main
  BY MainIs DEF Sequencers
<1>2. Len(song) \in Nat /\ w.seq[s].mCurrentPos \in Nat
  BY <1>1, StateIs DEF IsSong, AreList
<1>3. Start(w) \in S
  <2>1. NoActives \in ActiveLists
    BY DEF NoActives, ActiveLists
  <2>2. Start(w) \in LineStates /\ Start(w).w = w
    BY <2>1 DEF Start, LineStates
  <2> QED BY <2>2, KeptSelf
<1>4. ASSUME NEW a \in S, NEW k \in Nat, k < Len(song), NEW x, x = PlayLine(nested, song, a, s, k)
      PROVE  x \in S /\ x.w.seq[s].mCurrentPos = k + 1
  <2>1. IsLine(song[k + 1])
    BY <1>2, <1>4 DEF IsSong
  <2>2. a \in LineStates /\ Kept(w, a.w, FieldNames, NonStops)
    OBVIOUS
  <2> HIDE DEF S
  <2>3. /\ x \in LineStates /\ x.w.seq[s].mCurrentPos = k + 1
        /\ Kept(a.w, x.w, FieldNames, NonStops)
    BY <1>1, <1>4, <2>1, <2>2, PlayLineIs
  <2>4. Kept(w, x.w, FieldNames, NonStops)
    BY <2>2, <2>3, KeptTwice
  <2> QED BY <2>3, <2>4 DEF S
<1> HIDE DEF S
<1>5. LineStays(nested, song, s, S)
  BY <1>4 DEF LineStays
<1>6. PICK a \in S : PlayNextLine(nested, song, w, s) = a.w
  BY <1>2, <1>3, <1>5, LinesReach
<1> QED BY <1>6 DEF S
-----------------------------------------------------------------------------
(* A set of small numbers has a greatest. *)
LEMMA GreatestIs ==
  ASSUME NEW n \in Nat, NEW s \in SUBSET (1 .. n), s # {}
  PROVE  \E x \in s : \A y \in s : x >= y
<1> DEFINE T == {k \in Nat : s \cap (1 .. k) # {} => \E x \in s \cap (1 .. k) : \A y \in s \cap (1 .. k) : x >= y}
<1>1. 0 \in T
  OBVIOUS
<1>2. ASSUME NEW k \in T PROVE k + 1 \in T
  <2>1. CASE k + 1 \in s
    BY <2>1
  <2>2. CASE k + 1 \notin s
    <3>1. s \cap (1 .. k + 1) = s \cap (1 .. k)
      BY <2>2
    <3> QED BY <3>1
  <2> QED BY <2>1, <2>2
<1>3. T = Nat
  <2>1. T \in SUBSET Nat
    OBVIOUS
  <2> HIDE DEF T
  <2> QED BY <1>1, <1>2, <2>1, EventFold!SetInduction
<1>4. s \cap (1 .. n) = s /\ n \in T
  BY <1>3
<1> QED BY <1>4

(* A set of places has a last one. *)
LEMMA LastIs ==
  ASSUME NEW n \in Nat, NEW s \in SUBSET (1 .. n), s # {}
  PROVE  Max(s) \in s
BY EventFold!MaxIsIn DEF Max, EventFold!Max

TextEvents == NoteEvents \cup CtlEvents \cup PlayEvents \cup SkipEvents \cup Commands
                \cup [kind : {"pedal"}, column : Columns]

(* The event at a place of a text. *)
LEMMA PlacesAre ==
  ASSUME NEW text, IsText(text), NEW p \in Places(text)
  PROVE  /\ text \in Seq(Seq(TextEvents)) /\ Len(text) \in Nat
         /\ p[1] \in 1 .. Len(text) /\ p[2] \in 1 .. Len(text[p[1]])
         /\ Len(text[p[1]]) \in Nat
         /\ text[p[1]][p[2]] \in TextEvents
<1>1. text \in Seq(Seq(TextEvents))
  BY DEF IsText, TextEvents
<1>2. p[1] \in DOMAIN text /\ p[2] \in DOMAIN text[p[1]]
  BY DEF Places
<1>3. p[1] \in 1 .. Len(text) /\ Len(text) \in Nat /\ text[p[1]] \in Seq(TextEvents)
  BY <1>1, <1>2
<1> SUFFICES ASSUME NEW line, line = text[p[1]]
             PROVE  p[2] \in 1 .. Len(line) /\ Len(line) \in Nat /\ line[p[2]] \in TextEvents
  BY <1>1, <1>3
<1> QED BY <1>2, <1>3

(* What "|" continues is a note or a subpattern of its column, written     *)
(* before it.                                                              *)
LEMMA LastNoteIs ==
  ASSUME NEW text, IsText(text), NEW k \in Nat, NEW i \in Nat, NEW column,
         NotesBefore(text, k, i, column) # {}
  PROVE  \E p \in NotesBefore(text, k, i, column) :
           LastNote(text, k, i, column) = text[p[1]][p[2]]
<1> DEFINE before == NotesBefore(text, k, i, column)
           lines == {p[1] : p \in before}
           line == Max(lines)
           places == {p[2] : p \in {o \in before : o[1] = line}}
<1>1. LastNote(text, k, i, column) = text[line][Max(places)]
  BY DEF LastNote
<1>2. before \in SUBSET Places(text)
  BY DEF NotesBefore
<1> HIDE DEF before
<1>3. lines \in SUBSET (1 .. Len(text)) /\ lines # {} /\ Len(text) \in Nat
  BY <1>2, PlacesAre DEF before
<1>4. line \in lines
  <2> HIDE DEF lines
  <2> QED BY <1>3, LastIs
<1> HIDE DEF line
<1>5. places # {} /\ places \in SUBSET (1 .. Len(text[line])) /\ Len(text[line]) \in Nat
  BY <1>2, <1>4, PlacesAre
<1>6. Max(places) \in places
  <2> HIDE DEF places
  <2> QED BY <1>5, LastIs
<1>7. PICK o \in before : o[1] = line /\ o[2] = Max(places)
  BY <1>6
<1> QED BY <1>1, <1>7 DEF before

(* The events of a text, but for "|", are those of the song read. *)
LEMMA TextKinds ==
  ASSUME NEW e \in TextEvents
  PROVE  /\ e.kind \in {"note", "play"} => e \in NoteEvents \cup PlayEvents
         /\ e.kind # "pedal" => e \in ReadEvents
         /\ e.kind = "pedal" => e.column \in Columns
BY DEF TextEvents, NoteEvents, CtlEvents, PlayEvents, SkipEvents, Commands, ReadEvents

(* A text is read line by line and event by event. *)
LEMMA ReadIs ==
  ASSUME NEW text, IsText(text)
  PROVE  /\ IsSong(Read(text)) /\ Len(Read(text)) = Len(text) /\ Len(text) \in Nat
         /\ \A k \in 1 .. Len(text) : Len(Read(text)[k]) = Len(text[k])
<1> DEFINE e(k, i) == text[k][i]
           event(k, i) == IF e(k, i).kind = "pedal"
                          THEN [kind |-> "pedal", column |-> e(k, i).column,
                                event |-> LastNote(text, k, i, e(k, i).column)]
                          ELSE e(k, i)
           line(k) == [i \in DOMAIN text[k] |-> event(k, i)]
<1>1. Read(text) = [k \in DOMAIN text |-> line(k)]
  BY DEF Read
<1>2. text \in Seq(Seq(TextEvents))
  BY DEF IsText, TextEvents
<1>3. ASSUME NEW k \in DOMAIN text, NEW i \in DOMAIN text[k]
      PROVE  event(k, i) \in ReadEvents
  <2>1. <<k, i>> \in Places(text)
    BY <1>3 DEF Places
  <2>2. e(k, i) \in TextEvents /\ k \in Nat /\ i \in Nat
    BY <2>1, PlacesAre
  <2>3. CASE e(k, i).kind = "pedal"
    <3>1. NotesBefore(text, k, i, e(k, i).column) # {}
      BY <2>1, <2>3 DEF IsText
    <3> HIDE DEF e
    <3>2. PICK p \in NotesBefore(text, k, i, e(k, i).column) :
                 LastNote(text, k, i, e(k, i).column) = text[p[1]][p[2]]
      BY <2>2, <3>1, LastNoteIs
    <3>3. p \in Places(text) /\ text[p[1]][p[2]].kind \in {"note", "play"}
      BY DEF NotesBefore
    <3>4. LastNote(text, k, i, e(k, i).column) \in NoteEvents \cup PlayEvents
      BY <3>2, <3>3, PlacesAre, TextKinds
    <3>5. e(k, i).column \in Columns
      BY <2>2, <2>3, TextKinds
    <3> QED BY <2>3, <3>4, <3>5 DEF ReadEvents, PedalEvents
  <2>4. CASE e(k, i).kind # "pedal"
    <3> HIDE DEF e
    <3> QED BY <2>2, <2>4, TextKinds
  <2> QED BY <2>3, <2>4
<1> HIDE DEF event
<1>4. DOMAIN text = 1 .. Len(text) /\ Len(text) \in Nat
  BY <1>2
<1>5. ASSUME NEW k \in DOMAIN text
      PROVE  IsLine(line(k)) /\ Len(line(k)) = Len(text[k])
  <2> SUFFICES ASSUME NEW t, t = text[k]
               PROVE  IsLine(line(k)) /\ Len(line(k)) = Len(t)
    OBVIOUS
  <2>1. DOMAIN t = 1 .. Len(t) /\ Len(t) \in Nat
    BY <1>2
  <2>2. line(k) = [i \in 1 .. Len(t) |-> event(k, i)]
    BY <2>1
  <2>3. DOMAIN line(k) = 1 .. Len(t) /\ Len(line(k)) = Len(t)
    BY <2>1, <2>2
  <2> QED BY <1>3, <2>1, <2>2, <2>3 DEF IsLine, AreList
<1> HIDE DEF line
<1>6. DOMAIN Read(text) = 1 .. Len(text) /\ Len(Read(text)) = Len(text)
  BY <1>1, <1>4
<1> QED BY <1>1, <1>4, <1>5, <1>6 DEF IsSong, AreList
-----------------------------------------------------------------------------
(* What subpatterns do, at any depth, leaves the main song alone. *)
LEMMA DeeperOK ==
  ASSUME NEW nested, NestedOK(nested), NEW depth
  PROVE  NestedOK(Deeper(nested, depth))
<1> SUFFICES ASSUME NEW w \in Worlds, NEW sub \in Sub,
                    NEW line, line = PlayNextLine(nested, Read(SubSong[sub]), w, sub),
                    NEW silence, silence = Silence(nested, w, sub)
             PROVE  Kept(w, line, FieldNames, NonStops) /\ Kept(w, silence, FieldNames, NonStops)
  BY DEF NestedOK, Deeper
<1>1. IsSong(Read(SubSong[sub]))
  BY SongsAssumption, ReadIs
<1>2. Kept(w, line, FieldNames, NonStops)
  BY <1>1, SubpatternKept
<1>3. sub \in Sequencers /\ Owned(sub, {"mActiveNotesVec"}) = FieldNames /\ Mine(sub) = NonStops
  BY MainIs DEF Sequencers, Owned, Mine
<1>4. Kept(w, silence, Owned(sub, {"mActiveNotesVec"}), Mine(sub))
  BY <1>3, SilenceKept
<1> QED BY <1>2, <1>3, <1>4

DeeperStep(b, c, d, nested, depth) == Deeper(nested, depth)
DeeperFold == INSTANCE Iteration WITH Op <- DeeperStep

(* Asked as a sequence, one depth after the other. *)
LEMMA DeeperFolded ==
  ASSUME NEW b, NEW base, NEW list, AreList(list)
  PROVE  \E f : /\ f[0] = base
                /\ \A i \in 1 .. Len(list) : f[i] = Deeper(f[i - 1], list[i])
                /\ DeeperFold!Iterated(b, b, b, base, list) = f[Len(list)]
BY DeeperFold!Unfolds DEF AreList, DeeperStep

(* No subpattern, at any depth, touches the main song. *)
LEMMA AskedOK == NestedOK(Asked)
<1> DEFINE base == [s \in Sub |-> [line |-> [w \in Worlds |-> w], silence |-> [w \in Worlds |-> w]]]
           list == [depth \in 1 .. Cardinality(Sub) |-> depth]
<1>1. Asked = DeeperFold!Iterated(Main, Main, Main, base, list)
  BY DEF Asked, FoldLeft, DeeperFold!Iterated, DeeperFold!FoldLeft, MapThenFoldSet,
         DeeperFold!MapThenFoldSet, Max, DeeperFold!Max, DeeperStep
<1>2. AreList(list) /\ Len(list) \in Nat
  <2>1. Cardinality(Sub) \in Nat
    BY SequencerAssumption, FS_CardinalityType
  <2> QED BY <2>1 DEF AreList
<1>3. NestedOK(base)
  BY KeptSelf DEF NestedOK
<1> HIDE DEF base, list
<1>4. PICK f : /\ f[0] = base
               /\ \A i \in 1 .. Len(list) : f[i] = Deeper(f[i - 1], list[i])
               /\ DeeperFold!Iterated(Main, Main, Main, base, list) = f[Len(list)]
  BY <1>2, DeeperFolded
<1> DEFINE T == {i \in Nat : i <= Len(list) => NestedOK(f[i])}
<1>5. 0 \in T
  BY <1>3, <1>4
<1>6. ASSUME NEW i \in T PROVE i + 1 \in T
  <2> SUFFICES ASSUME i + 1 <= Len(list) PROVE NestedOK(f[i + 1])
    OBVIOUS
  <2>1. NestedOK(f[i]) /\ i + 1 \in 1 .. Len(list) /\ (i + 1) - 1 = i
    BY <1>2
  <2>2. f[i + 1] = Deeper(f[i], list[i + 1])
    BY <1>4, <2>1
  <2> QED BY <2>1, <2>2, DeeperOK
<1>7. T = Nat
  <2> HIDE DEF T
  <2>1. T \in SUBSET Nat
    BY DEF T
  <2> QED BY <1>5, <1>6, <2>1, EventFold!SetInduction
<1>8. NestedOK(f[Len(list)])
  BY <1>2, <1>7
<1> QED BY <1>1, <1>4, <1>8
-----------------------------------------------------------------------------
(* The song is one that was read, and the variables have their types. *)
Inv == IsSong(mSong) /\ TypeOK

LEMMA NoActivesAre == NoActives \in ActiveLists
BY DEF NoActives, ActiveLists

(* Initially. *)
LEMMA InitInv == Init => Inv
<1> SUFFICES ASSUME Init PROVE Inv
  OBVIOUS
<1>1. IsSong(mSong)
  BY SongsAssumption, ReadIs DEF Init
<1> DEFINE q == [mCurrentPos |-> 0, mCurrentTime |-> StartTime, mTempo |-> 100, mQuantSize |-> 4,
                 mActiveNotesVec |-> NoActives]
<1>2. q \in States
  BY NoActivesAre, SequencerAssumption DEF States
<1>3. sequencer = [s \in Sequencers |-> q] /\ queued = <<>> /\ at = <<>>
  BY DEF Init
<1>4. q.mCurrentPos = 0
  OBVIOUS
<1> HIDE DEF q
<1>5. World \in Worlds
  BY <1>2, <1>3 DEF World, Worlds
<1>6. Len(at) = sequencer[Main].mCurrentPos
  BY <1>3, <1>4, MainIs
<1> QED BY <1>1, <1>5, <1>6 DEF Inv, TypeOK

(* A line of the main song, when playNextLine is at it. *)
Noted == {a \in LineStates : Len(a.w.at) = a.w.seq[Main].mCurrentPos}

(* A line of the main song is noted, and the next is at hand. *)
LEMMA LineNoted ==
  ASSUME NEW song, IsSong(song), NEW a \in Noted, NEW k \in Nat,
         a.w.seq[Main].mCurrentPos = k, k < Len(song),
         NEW x, x = PlayLine(Asked, song, a, Main, k)
  PROVE  x \in Noted /\ x.w.seq[Main].mCurrentPos = k + 1
<1>1. IsLine(song[k + 1])
  BY DEF IsSong, AreList
<1>2. a \in LineStates
  BY DEF Noted
<1>3. /\ x \in LineStates /\ x.w.seq[Main].mCurrentPos = k + 1
      /\ x.w.at = Append(a.w.at, a.w.seq[Main].mCurrentTime)
  BY ONLY k \in Nat, <1>1, <1>2, MainIs, AskedOK, PlayLineIs, x = PlayLine(Asked, song, a, Main, k)
<1>4. Len(x.w.at) = k + 1
  BY <1>2, <1>3, LineStateIs, WorldIs DEF Noted
<1> QED BY <1>3, <1>4 DEF Noted

(* A step keeps the types and the song. *)
LEMMA NextInv == Inv /\ [Next]_vars => Inv'
<1> SUFFICES ASSUME Inv, [Next]_vars PROVE Inv'
  OBVIOUS
<1>1. CASE UNCHANGED vars
  BY <1>1 DEF Inv, TypeOK, World, vars
<1>2. CASE SongOver
  BY <1>2 DEF Inv, TypeOK, World, vars, SongOver
<1>3. CASE PlayMain
  <2> SUFFICES ASSUME NEW w, w = World PROVE Inv'
    OBVIOUS
  <2>1. /\ w \in Worlds /\ w.seq = sequencer /\ w.at = at /\ IsSong(mSong)
        /\ Len(w.at) = w.seq[Main].mCurrentPos
    BY DEF Inv, TypeOK, World
  <2>2. Start(w) \in Noted
    BY <2>1, NoActivesAre DEF Noted, LineStates, Start
  <2>3. LineStays(Asked, mSong, Main, Noted)
    BY <2>1, LineNoted DEF LineStays
  <2>4. Len(mSong) \in Nat /\ w.seq[Main].mCurrentPos \in Nat
    BY <2>1, MainIs, StateIs DEF IsSong, AreList
  <2>5. PICK a \in Noted : PlayNextLine(Asked, mSong, w, Main) = a.w
    BY <2>2, <2>3, <2>4, LinesReach
  <2>6. a.w \in Worlds /\ Len(a.w.at) = a.w.seq[Main].mCurrentPos
    BY LineStateIs DEF Noted
  <2>7. sequencer' = a.w.seq /\ queued' = a.w.out /\ at' = a.w.at /\ mSong' = mSong
    BY <1>3, <2>5 DEF PlayMain
  <2>8. World' = a.w
    BY <2>6, <2>7, WorldIs DEF World
  <2> QED BY <2>1, <2>6, <2>7, <2>8 DEF Inv, TypeOK
<1> QED BY <1>1, <1>2, <1>3 DEF Next

(* The variables have their types in every state, and the main song is as  *)
(* far as it has been executed: no call of a subpattern, at any depth,     *)
(* moves the song that plays it, and no time is before the first.          *)
THEOREM Types == Spec => []TypeOK
<1>1. Inv => TypeOK
  BY DEF Inv
<1> QED BY InitInv, NextInv, <1>1, PTL DEF Spec
-----------------------------------------------------------------------------
(* Pairs of the members of A and B, each in one.                           *)
Pairs(A, B, R) ==
  /\ R \subseteq A \X B
  /\ \A x \in A : \E y \in B : <<x, y>> \in R
  /\ \A y \in B : \E x \in A : <<x, y>> \in R
  /\ \A r, q \in R : (r[1] = q[1]) <=> (r[2] = q[2])

(* Pairs of nothing, of one, of two sets joined, and of pairs composed. *)
LEMMA NoPairs == Pairs({}, {}, {})
BY DEF Pairs

LEMMA OnePair ==
  ASSUME NEW x, NEW y
  PROVE  Pairs({x}, {y}, {<<x, y>>})
BY DEF Pairs

LEMMA PairsJoined ==
  ASSUME NEW A, NEW B, NEW R, NEW C, NEW D, NEW Q, Pairs(A, B, R), Pairs(C, D, Q),
         A \cap C = {}, B \cap D = {}
  PROVE  Pairs(A \cup C, B \cup D, R \cup Q)
<1>1. R \cup Q \subseteq (A \cup C) \X (B \cup D)
  BY DEF Pairs
<1>2. \A x \in A \cup C : \E y \in B \cup D : <<x, y>> \in R \cup Q
  BY DEF Pairs
<1>3. \A y \in B \cup D : \E x \in A \cup C : <<x, y>> \in R \cup Q
  BY DEF Pairs
<1>4. ASSUME NEW r \in R \cup Q, NEW q \in R \cup Q PROVE (r[1] = q[1]) <=> (r[2] = q[2])
  <2>1. CASE r \in R /\ q \in R
    BY <2>1 DEF Pairs
  <2>2. CASE r \in Q /\ q \in Q
    BY <2>2 DEF Pairs
  <2>3. \A a \in R : a[1] \in A /\ a[2] \in B
    BY DEF Pairs
  <2>4. \A a \in Q : a[1] \in C /\ a[2] \in D
    BY DEF Pairs
  <2>5. CASE r \in R /\ q \in Q
    BY <2>3, <2>4, <2>5
  <2>6. CASE r \in Q /\ q \in R
    BY <2>3, <2>4, <2>6
  <2>7. (r \in R \/ r \in Q) /\ (q \in R \/ q \in Q)
    OBVIOUS
  <2> QED BY ONLY <2>1, <2>2, <2>5, <2>6, <2>7, Zenon
<1> QED BY <1>1, <1>2, <1>3, <1>4 DEF Pairs

Composed(A, B, C, R, Q) ==
  {p \in A \X C : \E y \in B : <<p[1], y>> \in R /\ <<y, p[2]>> \in Q}

LEMMA PairsComposed ==
  ASSUME NEW A, NEW B, NEW R, NEW C, NEW Q, Pairs(A, B, R), Pairs(B, C, Q)
  PROVE  Pairs(A, C, Composed(A, B, C, R, Q))
<1> DEFINE P == Composed(A, B, C, R, Q)
<1>1. P \subseteq A \X C
  BY DEF Composed
<1>2. ASSUME NEW x \in A PROVE \E z \in C : <<x, z>> \in P
  <2>1. PICK y \in B : <<x, y>> \in R
    BY DEF Pairs
  <2>2. PICK z \in C : <<y, z>> \in Q
    BY DEF Pairs
  <2> QED BY <2>1, <2>2 DEF Composed
<1>3. ASSUME NEW z \in C PROVE \E x \in A : <<x, z>> \in P
  <2>1. PICK y \in B : <<y, z>> \in Q
    BY DEF Pairs
  <2>2. PICK x \in A : <<x, y>> \in R
    BY DEF Pairs
  <2> QED BY <2>1, <2>2 DEF Composed
<1>4. ASSUME NEW r \in P, NEW q \in P PROVE (r[1] = q[1]) <=> (r[2] = q[2])
  <2>1. PICK y \in B : <<r[1], y>> \in R /\ <<y, r[2]>> \in Q
    BY DEF Composed
  <2>2. PICK x \in B : <<q[1], x>> \in R /\ <<x, q[2]>> \in Q
    BY DEF Composed
  <2>3. (r[1] = q[1]) <=> (y = x)
    <3>1. \A a, b \in R : (a[1] = b[1]) <=> (a[2] = b[2])
      BY DEF Pairs
    <3> QED BY <2>1, <2>2, <3>1
  <2>4. (y = x) <=> (r[2] = q[2])
    <3>1. \A a, b \in Q : (a[1] = b[1]) <=> (a[2] = b[2])
      BY DEF Pairs
    <3> QED BY <2>1, <2>2, <3>1
  <2> QED BY <2>3, <2>4
<1> HIDE DEF P
<1> QED BY <1>1, <1>2, <1>3, <1>4 DEF Pairs, P

(* Sets in pairs are equally large. *)
LEMMA PairsCount ==
  ASSUME NEW A, NEW B, NEW R, Pairs(A, B, R), IsFiniteSet(A)
  PROVE  IsFiniteSet(B) /\ Cardinality(A) = Cardinality(B)
<1> DEFINE g(x) == CHOOSE y \in B : <<x, y>> \in R
           f == [x \in A |-> g(x)]
<1>0. \A x \in A : g(x) \in B /\ <<x, g(x)>> \in R
  BY DEF Pairs
<1> HIDE DEF g
<1>1. \A x \in A : f[x] \in B /\ <<x, f[x]>> \in R
  BY <1>0
<1>3. f \in [A -> B]
  BY <1>0
<1> HIDE DEF f
<1>4. \A x, y \in A : f[x] = f[y] => x = y
  <2> SUFFICES ASSUME NEW x \in A, NEW y \in A, f[x] = f[y] PROVE x = y
    OBVIOUS
  <2>1. <<x, f[x]>> \in R /\ <<y, f[y]>> \in R
    BY <1>1
  <2>2. \A r, q \in R : (r[1] = q[1]) <=> (r[2] = q[2])
    BY DEF Pairs
  <2> QED BY <2>1, <2>2
<1>5. \A y \in B : \E x \in A : f[x] = y
  <2> SUFFICES ASSUME NEW y \in B PROVE \E x \in A : f[x] = y
    OBVIOUS
  <2>1. PICK x \in A : <<x, y>> \in R
    BY DEF Pairs
  <2>2. <<x, f[x]>> \in R
    BY <1>1
  <2>3. \A r, q \in R : (r[1] = q[1]) <=> (r[2] = q[2])
    BY DEF Pairs
  <2> QED BY <2>1, <2>2, <2>3
<1>6. ExistsBijection(A, B)
  <2>1. f \in Injection(A, B)
    BY <1>3, <1>4, Zenon DEF Injection, IsInjective
  <2>2. f \in Surjection(A, B)
    BY <1>3, <1>5, Zenon DEF Surjection
  <2> QED BY <2>1, <2>2 DEF ExistsBijection, Bijection
<1> QED BY <1>6, FS_Bijection
-----------------------------------------------------------------------------
(* The places of a song up to event j of line k, the lines whose event in  *)
(* column c ends what sounds there, the notes whose end is due, and those  *)
(* that still sound.                                                       *)
Ev(song, p) == song[p[1]][p[2]]

Seen(song, k, j) == {p \in Places(song) : p[1] < k \/ (p[1] = k /\ p[2] <= j)}

Untimed(song, p) == Ev(song, p).kind = "note" /\ ~IsTimed(Ev(song, p))

EndersIn(song, seen, line, c) ==
  {p[1] : p \in {q \in seen : q[1] > line /\ Ends(Ev(song, q)) /\ Ev(song, q).column = c}}

Due(song, seen) ==
  {d \in seen : Untimed(song, d) /\ EndersIn(song, seen, d[1], Ev(song, d).column) # {}}

Pending(song, seen, c) ==
  {d \in seen : Untimed(song, d) /\ Ev(song, d).column = c /\ EndersIn(song, seen, d[1], c) = {}}

Earlier(places, k) == {d \in places : d[1] < k}

Here(places, k) == {d \in places : d[1] = k}

StopTime(song, seen, times, d) ==
  times[Min(EndersIn(song, seen, d[1], Ev(song, d).column))] - 1 - Ev(song, d).column

(* The event at place p of line k is next. *)
IsNext(song, seen, k, p) ==
  /\ k \in Nat /\ p[1] = k /\ p \notin seen
  /\ \A q \in seen : q[1] \in Nat /\ q[1] <= k

(* One event more has been seen. *)
LEMMA SeenMore ==
  ASSUME NEW song, IsSong(song), NEW k \in 1 .. Len(song), NEW j \in Nat, j + 1 <= Len(song[k])
  PROVE  /\ Seen(song, k, j + 1) = Seen(song, k, j) \cup {<<k, j + 1>>}
         /\ IsNext(song, Seen(song, k, j), k, <<k, j + 1>>)
<1>1. \A p \in Places(song) : p[1] \in Nat /\ p[2] \in Nat /\ p = <<p[1], p[2]>>
  BY DEF Places, IsSong, IsLine, AreList
<1>2. <<k, j + 1>> \in Places(song) /\ k \in Nat
  BY DEF Places, IsSong, IsLine, AreList
<1> QED BY <1>1, <1>2 DEF Seen, IsNext

(* An event seen ends what sounds in its column, or nothing. *)
LEMMA EndersMore ==
  ASSUME NEW song, NEW seen, NEW k, NEW p, IsNext(song, seen, k, p),
         NEW more, more = seen \cup {p}
  PROVE  /\ Ends(Ev(song, p)) =>
              \A line, c : c = Ev(song, p).column /\ k > line =>
                EndersIn(song, more, line, c) = EndersIn(song, seen, line, c) \cup {k}
         /\ Ends(Ev(song, p)) =>
              \A line, c : ~(c = Ev(song, p).column /\ k > line) =>
                EndersIn(song, more, line, c) = EndersIn(song, seen, line, c)
         /\ ~Ends(Ev(song, p)) =>
              \A line, c : EndersIn(song, more, line, c) = EndersIn(song, seen, line, c)
BY DEF EndersIn, IsNext

(* An event that ends nothing makes nothing due. *)
LEMMA OtherEvents ==
  ASSUME NEW song, NEW seen, NEW k, NEW p, IsNext(song, seen, k, p), ~Ends(Ev(song, p)),
         NEW more, more = seen \cup {p}
  PROVE  /\ Due(song, more) = Due(song, seen)
         /\ \A c : Pending(song, more, c) = Pending(song, seen, c)
         /\ \A times, d : StopTime(song, more, times, d) = StopTime(song, seen, times, d)
<1>1. \A line, c : EndersIn(song, more, line, c) = EndersIn(song, seen, line, c)
  BY EndersMore
<1>2. ~Untimed(song, p)
  BY DEF Untimed, Ends
<1> QED BY <1>1, <1>2 DEF Due, Pending, StopTime

(* The least member of a set. *)
LEMMA MinIs ==
  ASSUME NEW n, NEW s, n \in s, \A x \in s : x \in Nat /\ n <= x
  PROVE  Min(s) = n
<1>1. \A x \in s : (\A y \in s : x <= y) => x = n
  OBVIOUS
<1> QED BY <1>1 DEF Min

(* An event that ends makes due the notes of earlier lines in its column. *)
LEMMA EndingEvents ==
  ASSUME NEW song, NEW seen, NEW k, NEW p, IsNext(song, seen, k, p), NEW e, e = Ev(song, p), Ends(e),
         NEW c, c = e.column, NEW more, more = seen \cup {p}
  PROVE  /\ Due(song, more) = Due(song, seen) \cup Earlier(Pending(song, seen, c), k)
         /\ Due(song, seen) \cap Earlier(Pending(song, seen, c), k) = {}
         /\ Earlier(Pending(song, more, c), k) = {}
         /\ Here(Pending(song, more, c), k)
              = Here(Pending(song, seen, c), k) \cup (IF Untimed(song, p) THEN {p} ELSE {})
         /\ p \notin Here(Pending(song, seen, c), k)
         /\ \A x : x # c => Pending(song, more, x) = Pending(song, seen, x)
<1>1. /\ \A line, x : c = x /\ k > line =>
              EndersIn(song, more, line, x) = EndersIn(song, seen, line, x) \cup {k}
      /\ \A line, x : ~(c = x /\ k > line) =>
              EndersIn(song, more, line, x) = EndersIn(song, seen, line, x)
  BY EndersMore
<1>2. EndersIn(song, seen, k, c) = {}
  BY DEF EndersIn, IsNext
<1>3. /\ \A d \in seen : d[1] \in Nat /\ d[1] <= k
      /\ p \notin seen /\ p[1] = k /\ k \in Nat
  BY DEF IsNext
<1>4. Due(song, more) = Due(song, seen) \cup Earlier(Pending(song, seen, c), k)
  <2>1. \A d \in more : EndersIn(song, more, d[1], Ev(song, d).column) # {}
                        <=> \/ EndersIn(song, seen, d[1], Ev(song, d).column) # {}
                            \/ c = Ev(song, d).column /\ k > d[1]
    BY <1>1
  <2>2. ASSUME NEW d \in seen
        PROVE  d \in Due(song, more) <=> d \in Due(song, seen) \cup Earlier(Pending(song, seen, c), k)
    BY <1>3, <2>1 DEF Due, Pending, Earlier
  <2>3. p \notin Due(song, more)
    BY <1>1, <1>2, <1>3 DEF Due
  <2>4. /\ Due(song, more) \subseteq more /\ Due(song, seen) \subseteq seen
        /\ Earlier(Pending(song, seen, c), k) \subseteq seen
    BY DEF Due, Pending, Earlier
  <2> QED BY <2>2, <2>3, <2>4
<1>5. Due(song, seen) \cap Earlier(Pending(song, seen, c), k) = {}
  BY DEF Due, Pending, Earlier
<1>6. Earlier(Pending(song, more, c), k) = {}
  BY <1>1, <1>3 DEF Pending, Earlier
<1>7. Here(Pending(song, more, c), k)
        = Here(Pending(song, seen, c), k) \cup (IF Untimed(song, p) THEN {p} ELSE {})
  BY <1>1, <1>2, <1>3 DEF Pending, Here
<1>8. \A x : x # c => Pending(song, more, x) = Pending(song, seen, x)
  BY <1>1, <1>3 DEF Pending
<1> QED BY <1>3, <1>4, <1>5, <1>6, <1>7, <1>8 DEF Pending, Here

(* Numbers have a least. *)
LEMMA LeastIs ==
  ASSUME NEW s \in SUBSET Nat, s # {}
  PROVE  Min(s) \in s /\ \A x \in s : Min(s) <= x
<1> DEFINE R == OpToRel(<, Nat)
<1>1. IsWellFoundedOn(R, Nat)
  BY NatLessThanWellFounded DEF OpToRel
<1>2. PICK n \in s : \A y \in s : <<y, n>> \notin R
  <2> HIDE DEF R
  <2> QED BY <1>1, WFMin
<1>3. \A y \in s : n <= y
  <2>1. \A y \in s : ~(y < n)
    BY <1>2 DEF OpToRel
  <2> QED BY <2>1
<1>4. Min(s) = n
  <2>1. \A x \in s : (\A y \in s : x <= y) => x = n
    BY <1>3
  <2> QED BY <1>3, <2>1 DEF Min
<1> QED BY <1>3, <1>4

(* The end of a note that was due is where it was, that of one which becomes due is now. *)
LEMMA StopTimes ==
  ASSUME NEW song, NEW seen, NEW k, NEW p, IsNext(song, seen, k, p), NEW e, e = Ev(song, p), Ends(e),
         NEW c, c = e.column, NEW more, more = seen \cup {p}, NEW times
  PROVE  /\ \A d \in Due(song, seen) : StopTime(song, more, times, d) = StopTime(song, seen, times, d)
         /\ \A d \in Earlier(Pending(song, seen, c), k) :
              StopTime(song, more, times, d) = times[k] - 1 - c
<1>1. /\ \A line, x : c = x /\ k > line =>
              EndersIn(song, more, line, x) = EndersIn(song, seen, line, x) \cup {k}
      /\ \A line, x : ~(c = x /\ k > line) =>
              EndersIn(song, more, line, x) = EndersIn(song, seen, line, x)
  BY EndersMore
<1>2. \A line, x : \A n \in EndersIn(song, seen, line, x) : n \in Nat /\ n <= k
  BY DEF EndersIn, IsNext
<1>3. k \in Nat
  BY DEF IsNext
<1>4. ASSUME NEW d \in Due(song, seen)
      PROVE  StopTime(song, more, times, d) = StopTime(song, seen, times, d)
  <2> SUFFICES ASSUME NEW s, s = EndersIn(song, seen, d[1], Ev(song, d).column),
                      NEW t, t = EndersIn(song, more, d[1], Ev(song, d).column)
               PROVE  Min(t) = Min(s)
    BY DEF StopTime
  <2>1. s # {} /\ (t = s \/ t = s \cup {k})
    BY <1>1 DEF Due
  <2>2. s \in SUBSET Nat /\ \A x \in s : x <= k
    BY <1>2
  <2>3. Min(s) \in s /\ \A x \in s : Min(s) <= x
    BY <2>1, <2>2, LeastIs
  <2> QED
    <3> SUFFICES ASSUME NEW n, n = Min(s) PROVE Min(t) = n
      OBVIOUS
    <3>1. n \in t /\ \A x \in t : x \in Nat /\ n <= x
      BY <1>3, <2>1, <2>2, <2>3
    <3> QED BY ONLY <3>1, MinIs
<1>5. ASSUME NEW d \in Earlier(Pending(song, seen, c), k)
      PROVE  StopTime(song, more, times, d) = times[k] - 1 - c
  <2>1. Ev(song, d).column = c /\ EndersIn(song, seen, d[1], c) = {} /\ k > d[1]
    BY <1>3 DEF Earlier, Pending, IsNext
  <2>2. EndersIn(song, more, d[1], c) = {k}
    BY <1>1, <2>1
  <2>3. Min({k}) = k
    BY ONLY <1>3, MinIs
  <2> QED BY <2>1, <2>2, <2>3 DEF StopTime
<1> QED BY <1>4, <1>5
-----------------------------------------------------------------------------
(* The ends of notes of the main song that were queued, and the notes of a *)
(* list of active events.                                                  *)
StopsIn(out) == {i \in 1 .. Len(out) : out[i].type = "off" /\ out[i].volume = 0 /\ out[i].seq = Main}

NotesIn(list, n) == {l \in 1 .. n : list[l].kind = "note"}

(* From a to b the first n events of the list were stopped, at time t. *)
Stopped(a, b, list, n, t) ==
  \E Q : /\ Pairs(StopsIn(b) \ StopsIn(a), NotesIn(list, n), Q)
         /\ \A q \in Q : b[q[1]].pitch = list[q[2]].pitch /\ b[q[1]].time = t

(* Messages added leave the stops where they are. *)
LEMMA StopsStay ==
  ASSUME NEW a, NEW b, NEW M, Adds(a, b, M), Len(a) \in Nat, Len(b) \in Nat
  PROVE  /\ StopsIn(a) \subseteq StopsIn(b) /\ \A i \in StopsIn(a) : b[i] = a[i]
         /\ M = NonStops => StopsIn(b) = StopsIn(a)
BY DEF StopsIn, Adds, NonStops

(* One more stop, the last message of b. *)
OneStop(a, b, pitch, time) ==
  /\ StopsIn(b) = StopsIn(a) \cup {Len(a) + 1} /\ Len(a) + 1 \notin StopsIn(a)
  /\ b[Len(a) + 1].pitch = pitch /\ b[Len(a) + 1].time = time

(* NoteEvent::stop queues one stop. *)
LEMMA StopAdded ==
  ASSUME NEW w \in Worlds, NEW e \in NoteEvents
  PROVE  OneStop(w.out, StopNote(w, Main, e).out, e.pitch, w.seq[Main].mCurrentTime - 1 - e.column)
<1> SUFFICES ASSUME NEW v, v = StopNote(w, Main, e)
             PROVE  OneStop(w.out, v.out, e.pitch, w.seq[Main].mCurrentTime - 1 - e.column)
  OBVIOUS
<1> DEFINE m == Message(Main, e, "off", 0, w.seq[Main].mCurrentTime - 1 - e.column)
<1>1. /\ m.type = "off" /\ m.volume = 0 /\ m.seq = Main /\ m.pitch = e.pitch
      /\ m.time = w.seq[Main].mCurrentTime - 1 - e.column
  BY DEF Message
<1>2. v.out = Append(w.out, m)
  <2> HIDE DEF m
  <2>1. v = [w EXCEPT !.out = Append(@, m)]
    BY DEF StopNote, Queue, m
  <2>2. "out" \in DOMAIN w
    BY DEF Worlds
  <2> QED BY <2>1, <2>2
<1>3. w.out \in Seq(Messages) /\ Len(w.out) \in Nat
  BY WorldIs
<1> HIDE DEF m
<1> SUFFICES ASSUME NEW out, out = w.out, NEW more, more = v.out
             PROVE  /\ StopsIn(more) = StopsIn(out) \cup {Len(out) + 1}
                    /\ Len(out) + 1 \notin StopsIn(out)
                    /\ more[Len(out) + 1] = m
  BY <1>1 DEF OneStop
<1>4. /\ Len(more) = Len(out) + 1 /\ more[Len(out) + 1] = m
      /\ \A i \in 1 .. Len(out) : more[i] = out[i]
  BY <1>2, <1>3
<1> QED BY <1>1, <1>3, <1>4 DEF StopsIn

(* One active event more is stopped. *)
LEMMA StoppedMore ==
  ASSUME NEW nested, NestedOK(nested), NEW w \in Worlds, NEW v \in Worlds, NEW c \in Columns,
         NEW list, NEW n \in Nat, list[n + 1] \in NoteEvents \cup PlayEvents,
         list[n + 1].column = c,
         NEW t, t = w.seq[Main].mCurrentTime - 1 - c,
         Kept(w, v, FieldNames, Messages), Stopped(w.out, v.out, list, n, t),
         NEW x, x = StopEvent(nested, v, Main, list[n + 1])
  PROVE  Stopped(w.out, x.out, list, n + 1, t)
<1> SUFFICES ASSUME NEW e, e = list[n + 1] PROVE Stopped(w.out, x.out, list, n + 1, t)
  OBVIOUS
<1>1. PICK Q : /\ Pairs(StopsIn(v.out) \ StopsIn(w.out), NotesIn(list, n), Q)
               /\ \A q \in Q : v.out[q[1]].pitch = list[q[2]].pitch /\ v.out[q[1]].time = t
  BY DEF Stopped
<1>2. Len(w.out) \in Nat /\ Len(v.out) \in Nat /\ StopsIn(w.out) \subseteq StopsIn(v.out)
  BY WorldIs, StopsStay DEF Kept
<1>3. \A q \in Q : q[1] \in StopsIn(v.out)
  BY <1>1 DEF Pairs
<1>4. CASE e.kind = "play"
  <2>1. Kept(v, x, FieldNames, NonStops)
    BY <1>4, MainIs, StopKept
  <2>2. Adds(v.out, x.out, NonStops) /\ Len(x.out) \in Nat
    BY <2>1, WorldIs DEF Kept
  <2>3. StopsIn(x.out) = StopsIn(v.out) /\ \A i \in StopsIn(v.out) : x.out[i] = v.out[i]
    BY <1>2, <2>2, StopsStay
  <2>4. NotesIn(list, n + 1) = NotesIn(list, n)
    BY <1>4 DEF NotesIn
  <2> QED BY <1>1, <1>3, <2>3, <2>4 DEF Stopped
<1>5. CASE e.kind # "play"
  <2>1. e \in NoteEvents /\ e.kind = "note"
    BY <1>5 DEF NoteEvents, PlayEvents
  <2>2. x = StopNote(v, Main, e)
    BY <1>5 DEF StopEvent
  <2>3. v.seq[Main].mCurrentTime = w.seq[Main].mCurrentTime
    BY DEF Kept, FieldNames
  <2> SUFFICES ASSUME NEW l, l = Len(v.out) + 1 PROVE Stopped(w.out, x.out, list, n + 1, t)
    OBVIOUS
  <2>4. /\ StopsIn(x.out) = StopsIn(v.out) \cup {l} /\ l \notin StopsIn(v.out)
        /\ x.out[l].pitch = e.pitch /\ x.out[l].time = t
    <3>1. OneStop(v.out, x.out, e.pitch, v.seq[Main].mCurrentTime - 1 - e.column)
      BY <2>1, <2>2, StopAdded
    <3> QED BY <2>3, <3>1 DEF OneStop
  <2>5. \A i \in StopsIn(v.out) : x.out[i] = v.out[i]
    <3>1. Kept(v, x, FieldNames, Mine(Main))
      BY <2>1, <2>2, MainIs, StopNoteKept
    <3>2. Adds(v.out, x.out, Mine(Main)) /\ Len(x.out) \in Nat
      BY <3>1, WorldIs DEF Kept
    <3> QED BY <1>2, <3>2, StopsStay
  <2> DEFINE P == Q \cup {<<l, n + 1>>}
  <2>6. NotesIn(list, n + 1) = NotesIn(list, n) \cup {n + 1} /\ n + 1 \notin NotesIn(list, n)
    BY <2>1 DEF NotesIn
  <2>7. StopsIn(x.out) \ StopsIn(w.out) = (StopsIn(v.out) \ StopsIn(w.out)) \cup {l}
    BY <1>2, <2>4
  <2>8. Pairs({l}, {n + 1}, {<<l, n + 1>>})
    BY OnePair
  <2>9. Pairs((StopsIn(v.out) \ StopsIn(w.out)) \cup {l}, NotesIn(list, n) \cup {n + 1}, P)
    BY <1>1, <2>4, <2>6, <2>8, PairsJoined
  <2>10. ASSUME NEW q \in P
         PROVE  x.out[q[1]].pitch = list[q[2]].pitch /\ x.out[q[1]].time = t
    <3>1. CASE q \in Q
      BY <1>1, <1>3, <2>5, <3>1
    <3>2. CASE q = <<l, n + 1>>
      BY <2>4, <3>2
    <3> QED BY <3>1, <3>2
  <2> HIDE DEF P
  <2> QED BY <2>6, <2>7, <2>9, <2>10 DEF Stopped
<1> QED BY <1>4, <1>5

(* From w to v the events of column c of the main song were stopped.       *)
ColumnEnds(w, v, c) ==
  LET list == w.seq[Main].mActiveNotesVec[c]
  IN  /\ Kept(w, v, FieldNames \ {"mActiveNotesVec"}, Messages)
      /\ v.seq[Main].mActiveNotesVec = [w.seq[Main].mActiveNotesVec EXCEPT ![c] = <<>>]
      /\ Stopped(w.out, v.out, list, Len(list), w.seq[Main].mCurrentTime - 1 - c)

(* Silencing a column stops each of its notes once. *)
LEMMA ColumnStopped ==
  ASSUME NEW nested, NestedOK(nested), NEW w \in Worlds, NEW c \in Columns
  PROVE  ColumnEnds(w, SilenceColumn(nested, w, Main, c), c)
<1> SUFFICES ASSUME NEW v, v = SilenceColumn(nested, w, Main, c),
                    NEW list, list = w.seq[Main].mActiveNotesVec[c],
                    NEW t, t = w.seq[Main].mCurrentTime - 1 - c, NEW n, n = Len(list)
             PROVE  /\ Kept(w, v, FieldNames \ {"mActiveNotesVec"}, Messages)
                    /\ v.seq[Main].mActiveNotesVec = [w.seq[Main].mActiveNotesVec EXCEPT ![c] = <<>>]
                    /\ Stopped(w.out, v.out, list, n, t)
  BY DEF ColumnEnds
<1>1. /\ n \in Nat /\ AreList(list)
      /\ \A i \in 1 .. n : list[i] \in NoteEvents \cup PlayEvents /\ list[i].column = c
  BY MainIs, StateIs, ActivesAre DEF AreList
<1>2. Owned(Main, {"mActiveNotesVec"}) = FieldNames \ {"mActiveNotesVec"} /\ Mine(Main) = Messages
  BY DEF Owned, Mine
<1>3. Kept(w, v, FieldNames \ {"mActiveNotesVec"}, Messages)
  BY <1>2, MainIs, SilenceColumnKept
<1>4. PICK f : /\ f[0] = w
               /\ \A i \in 1 .. n : f[i] = StopEvent(nested, f[i - 1], Main, list[i])
               /\ v = Forget(f[n], Main, c)
  <2>1. PICK f : /\ f[0] = w
                 /\ \A i \in 1 .. Len(list) : f[i] = StopEvent(nested, f[i - 1], Main, list[i])
                 /\ SilenceColumn(nested, w, Main, c) = Forget(f[Len(list)], Main, c)
    BY <1>1, StopByStop
  <2> QED BY <2>1
<1> DEFINE OK(i) == Kept(w, f[i], FieldNames, Messages) /\ Stopped(w.out, f[i].out, list, i, t)
           T == {i \in Nat : i <= n => OK(i)}
<1>5. 0 \in T
  <2>1. NotesIn(list, 0) = {} /\ StopsIn(w.out) \ StopsIn(w.out) = {}
    BY DEF NotesIn
  <2>2. Stopped(w.out, w.out, list, 0, t)
    BY <2>1, NoPairs DEF Stopped
  <2> QED BY <1>4, <2>2, KeptSelf
<1>6. ASSUME NEW i \in T PROVE i + 1 \in T
  <2> SUFFICES ASSUME i + 1 <= n PROVE OK(i + 1)
    OBVIOUS
  <2>1. OK(i) /\ i + 1 \in 1 .. n /\ (i + 1) - 1 = i /\ i \in Nat
    BY <1>1
  <2>2. f[i + 1] = StopEvent(nested, f[i], Main, list[i + 1])
    BY <1>4, <2>1
  <2>3. f[i] \in Worlds /\ list[i + 1] \in NoteEvents \cup PlayEvents /\ list[i + 1].column = c
    BY <1>1, <2>1 DEF Kept
  <2>4. Kept(f[i], f[i + 1], FieldNames, Messages)
    BY <1>2, <2>2, <2>3, MainIs, StopKept
  <2>5. Kept(w, f[i + 1], FieldNames, Messages)
    BY <2>1, <2>4, KeptTwice
  <2>6. Stopped(w.out, f[i + 1].out, list, i + 1, t)
    BY <2>1, <2>2, <2>3, StoppedMore
  <2> QED BY <2>5, <2>6
<1>7. T = Nat
  <2> HIDE DEF T
  <2>1. T \in SUBSET Nat
    BY DEF T
  <2> QED BY <1>5, <1>6, <2>1, EventFold!SetInduction
<1>8. Kept(w, f[n], FieldNames, Messages) /\ Stopped(w.out, f[n].out, list, n, t)
  BY <1>1, <1>7
<1>9. f[n] \in Worlds
  BY <1>8 DEF Kept
<1>10. /\ v.seq[Main].mActiveNotesVec = [f[n].seq[Main].mActiveNotesVec EXCEPT ![c] = <<>>]
       /\ v.out = f[n].out
  <2>1. /\ Forget(f[n], Main, c).seq[Main].mActiveNotesVec = [f[n].seq[Main].mActiveNotesVec EXCEPT ![c] = <<>>]
        /\ Forget(f[n], Main, c).out = f[n].out
    BY ONLY c \in Columns, <1>9, MainIs, ForgetKept
  <2> QED BY <1>4, <2>1
<1>11. f[n].seq[Main].mActiveNotesVec = w.seq[Main].mActiveNotesVec
  BY <1>8 DEF Kept, FieldNames
<1>12. Stopped(w.out, v.out, list, n, t)
  BY <1>8, <1>10
<1> QED BY <1>3, <1>10, <1>11, <1>12
-----------------------------------------------------------------------------
(* The notes of a list are those at these places, each once.               *)
ListPairs(song, list, places, R) ==
  /\ Pairs(NotesIn(list, Len(list)), places, R)
  /\ \A r \in R : list[r[1]] = Ev(song, r[2])

ListMatch(song, list, places) == \E R : ListPairs(song, list, places, R)

(* The stops are the ends of the notes that are due, each once.            *)
StopPairs(song, seen, times, out, R) ==
  /\ Pairs(StopsIn(out), Due(song, seen), R)
  /\ \A r \in R : /\ out[r[1]].pitch = Ev(song, r[2]).pitch
                  /\ out[r[1]].time = StopTime(song, seen, times, r[2])

StopsMatch(song, seen, times, out) == \E R : StopPairs(song, seen, times, out, R)

(* The notes of no list, of a list with one more, and of two lists joined. *)
LEMMA ListEmpty ==
  ASSUME NEW song
  PROVE  ListMatch(song, <<>>, {})
<1>1. NotesIn(<<>>, Len(<<>>)) = {}
  BY DEF NotesIn
<1> QED BY <1>1, NoPairs DEF ListMatch, ListPairs

LEMMA ListAppended ==
  ASSUME NEW song, NEW E, NEW list \in Seq(E), NEW places, ListMatch(song, list, places),
         NEW p, NEW e \in E, e = Ev(song, p)
  PROVE  /\ e.kind # "note" => ListMatch(song, Append(list, e), places)
         /\ e.kind = "note" /\ p \notin places => ListMatch(song, Append(list, e), places \cup {p})
<1> SUFFICES ASSUME NEW n, n = Len(list), NEW more, more = Append(list, e)
             PROVE  /\ e.kind # "note" => ListMatch(song, more, places)
                    /\ e.kind = "note" /\ p \notin places => ListMatch(song, more, places \cup {p})
  OBVIOUS
<1>1. PICK R : Pairs(NotesIn(list, n), places, R) /\ \A r \in R : list[r[1]] = Ev(song, r[2])
  BY DEF ListMatch, ListPairs
<1>2. /\ n \in Nat /\ Len(more) = n + 1 /\ more[n + 1] = e
      /\ \A i \in 1 .. n : more[i] = list[i]
  OBVIOUS
<1>3. \A r \in R : more[r[1]] = Ev(song, r[2])
  BY <1>1, <1>2 DEF Pairs, NotesIn
<1>4. ASSUME e.kind # "note" PROVE ListMatch(song, more, places)
  <2>1. NotesIn(more, n + 1) = NotesIn(list, n)
    BY <1>2, <1>4 DEF NotesIn
  <2>2. ListPairs(song, more, places, R)
    BY <1>1, <1>2, <1>3, <2>1 DEF ListPairs
  <2> QED BY <2>2 DEF ListMatch
<1>5. ASSUME e.kind = "note", p \notin places PROVE ListMatch(song, more, places \cup {p})
  <2> DEFINE P == R \cup {<<n + 1, p>>}
  <2>1. NotesIn(more, n + 1) = NotesIn(list, n) \cup {n + 1} /\ n + 1 \notin NotesIn(list, n)
    BY <1>2, <1>5 DEF NotesIn
  <2>2. Pairs({n + 1}, {p}, {<<n + 1, p>>})
    BY OnePair
  <2>3. Pairs(NotesIn(list, n) \cup {n + 1}, places \cup {p}, P)
    BY <1>1, <1>5, <2>1, <2>2, PairsJoined
  <2>4. ASSUME NEW r \in P PROVE more[r[1]] = Ev(song, r[2])
    <3>1. CASE r \in R
      BY <1>3, <3>1
    <3>2. CASE r = <<n + 1, p>>
      BY <1>2, <3>2
    <3> QED BY <3>1, <3>2
  <2> HIDE DEF P
  <2>5. ListPairs(song, more, places \cup {p}, P)
    BY <1>2, <2>1, <2>3, <2>4 DEF ListPairs
  <2> QED BY <2>5 DEF ListMatch
<1> QED BY <1>4, <1>5

LEMMA ListJoined ==
  ASSUME NEW song, NEW E, NEW x \in Seq(E), NEW y \in Seq(E), NEW A, NEW B, A \cap B = {},
         ListMatch(song, x, A), ListMatch(song, y, B)
  PROVE  ListMatch(song, x \o y, A \cup B)
<1> SUFFICES ASSUME NEW n, n = Len(x), NEW m, m = Len(y), NEW z, z = x \o y
             PROVE  ListMatch(song, z, A \cup B)
  OBVIOUS
<1>1. /\ n \in Nat /\ m \in Nat /\ Len(z) = n + m
      /\ \A i \in 1 .. n : z[i] = x[i]
      /\ \A i \in 1 .. m : z[i + n] = y[i]
  OBVIOUS
<1>2. PICK R : Pairs(NotesIn(x, n), A, R) /\ \A r \in R : x[r[1]] = Ev(song, r[2])
  BY DEF ListMatch, ListPairs
<1>3. PICK Q : Pairs(NotesIn(y, m), B, Q) /\ \A r \in Q : y[r[1]] = Ev(song, r[2])
  BY DEF ListMatch, ListPairs
<1> DEFINE S == {<<r[1] + n, r[2]>> : r \in Q}
           C == {i + n : i \in NotesIn(y, m)}
<1>4. Pairs(C, B, S)
  <2>0. /\ \A r \in Q : r[1] \in NotesIn(y, m) /\ r[2] \in B
        /\ \A i \in NotesIn(y, m) : \E d \in B : <<i, d>> \in Q
        /\ \A d \in B : \E i \in NotesIn(y, m) : <<i, d>> \in Q
    BY <1>3 DEF Pairs
  <2>1. S \subseteq C \X B
    BY <2>0
  <2>2. \A i \in C : \E d \in B : <<i, d>> \in S
    <3> SUFFICES ASSUME NEW i \in NotesIn(y, m) PROVE \E d \in B : <<i + n, d>> \in S
      OBVIOUS
    <3>1. PICK d \in B : <<i, d>> \in Q
      BY <2>0
    <3>2. <<(<<i, d>>)[1] + n, (<<i, d>>)[2]>> \in S
      BY <3>1
    <3> QED BY <3>2
  <2>3. \A d \in B : \E i \in C : <<i, d>> \in S
    <3> SUFFICES ASSUME NEW d \in B PROVE \E i \in C : <<i, d>> \in S
      OBVIOUS
    <3>1. PICK i \in NotesIn(y, m) : <<i, d>> \in Q
      BY <2>0
    <3>2. <<(<<i, d>>)[1] + n, (<<i, d>>)[2]>> \in S /\ i + n \in C
      BY <3>1
    <3> QED BY <3>2
  <2>4. ASSUME NEW r \in S, NEW q \in S PROVE (r[1] = q[1]) <=> (r[2] = q[2])
    <3>1. PICK a \in Q : r = <<a[1] + n, a[2]>>
      OBVIOUS
    <3>2. PICK b \in Q : q = <<b[1] + n, b[2]>>
      OBVIOUS
    <3>3. (a[1] = b[1]) <=> (a[2] = b[2])
      BY <1>3 DEF Pairs
    <3>4. a[1] \in Nat /\ b[1] \in Nat
      BY <1>3 DEF Pairs, NotesIn
    <3>5. (a[1] + n = b[1] + n) <=> (a[1] = b[1])
      BY <1>1, <3>4
    <3> QED BY <3>1, <3>2, <3>3, <3>5
  <2> HIDE DEF S, C
  <2> QED BY <2>1, <2>2, <2>3, <2>4 DEF Pairs
<1>5. NotesIn(z, n + m) = NotesIn(x, n) \cup C /\ NotesIn(x, n) \cap C = {}
  <2>1. \A i \in 1 .. n + m : i \in 1 .. n \/ (i - n \in 1 .. m /\ (i - n) + n = i)
    BY <1>1
  <2> QED BY <1>1, <2>1 DEF NotesIn
<1>6. \A r \in R : z[r[1]] = Ev(song, r[2])
  BY <1>1, <1>2 DEF Pairs, NotesIn
<1>7. \A r \in S : z[r[1]] = Ev(song, r[2])
  BY <1>1, <1>3 DEF Pairs, NotesIn
<1> HIDE DEF S, C
<1>8. Pairs(NotesIn(x, n) \cup C, A \cup B, R \cup S)
  BY <1>2, <1>4, <1>5, PairsJoined
<1>9. \A r \in R \cup S : z[r[1]] = Ev(song, r[2])
  BY <1>6, <1>7
<1>10. ListPairs(song, z, A \cup B, R \cup S)
  BY <1>1, <1>5, <1>8, <1>9 DEF ListPairs
<1> QED BY <1>10 DEF ListMatch

(* The notes of a column that are stopped become due. *)
LEMMA StopsJoined ==
  ASSUME NEW song, NEW seen, NEW more, NEW times, NEW a, NEW b, NEW list, NEW places, NEW t,
         StopsMatch(song, seen, times, a), ListMatch(song, list, places),
         Stopped(a, b, list, Len(list), t),
         StopsIn(a) \subseteq StopsIn(b), \A i \in StopsIn(a) : b[i] = a[i],
         Due(song, more) = Due(song, seen) \cup places, Due(song, seen) \cap places = {},
         \A d \in Due(song, seen) : StopTime(song, more, times, d) = StopTime(song, seen, times, d),
         \A d \in places : StopTime(song, more, times, d) = t
  PROVE  StopsMatch(song, more, times, b)
<1>1. PICK R : /\ Pairs(StopsIn(a), Due(song, seen), R)
               /\ \A r \in R : /\ a[r[1]].pitch = Ev(song, r[2]).pitch
                               /\ a[r[1]].time = StopTime(song, seen, times, r[2])
  BY DEF StopsMatch, StopPairs
<1>2. PICK L : /\ Pairs(NotesIn(list, Len(list)), places, L)
               /\ \A r \in L : list[r[1]] = Ev(song, r[2])
  BY DEF ListMatch, ListPairs
<1>3. PICK Q : /\ Pairs(StopsIn(b) \ StopsIn(a), NotesIn(list, Len(list)), Q)
               /\ \A q \in Q : b[q[1]].pitch = list[q[2]].pitch /\ b[q[1]].time = t
  BY DEF Stopped
<1> SUFFICES ASSUME NEW new, new = StopsIn(b) \ StopsIn(a), NEW notes, notes = NotesIn(list, Len(list)),
                    NEW P, P = Composed(new, notes, places, Q, L)
             PROVE  StopsMatch(song, more, times, b)
  OBVIOUS
<1>4. Pairs(new, places, P)
  BY <1>2, <1>3, PairsComposed
<1>5. new \cap StopsIn(a) = {} /\ StopsIn(b) = StopsIn(a) \cup new
  OBVIOUS
<1>6. Pairs(StopsIn(b), Due(song, more), R \cup P)
  <2>1. Pairs(StopsIn(a) \cup new, Due(song, seen) \cup places, R \cup P)
    BY ONLY <1>1, <1>4, <1>5, Due(song, seen) \cap places = {}, PairsJoined
  <2> QED BY <1>5, <2>1
<1>7. \A r \in R : /\ b[r[1]].pitch = Ev(song, r[2]).pitch
                   /\ b[r[1]].time = StopTime(song, more, times, r[2])
  BY <1>1 DEF Pairs
<1>8. ASSUME NEW r \in P
      PROVE  /\ b[r[1]].pitch = Ev(song, r[2]).pitch
             /\ b[r[1]].time = StopTime(song, more, times, r[2])
  <2>1. PICK y \in notes : <<r[1], y>> \in Q /\ <<y, r[2]>> \in L
    BY DEF Composed
  <2>2. b[r[1]].pitch = list[y].pitch /\ b[r[1]].time = t
    BY <1>3, <2>1
  <2>3. list[y] = Ev(song, r[2])
    BY <1>2, <2>1
  <2>4. r[2] \in places
    BY DEF Composed
  <2> QED BY <2>2, <2>3, <2>4
<1>9. StopPairs(song, more, times, b, R \cup P)
  BY <1>6, <1>7, <1>8 DEF StopPairs
<1> QED BY <1>9 DEF StopsMatch
-----------------------------------------------------------------------------
(* What playNextLine has at an event of line k, when it has seen those     *)
(* before: the ends that were queued are those of the notes that are due,  *)
(* the active lists have the notes of earlier lines that still sound, and  *)
(* next those of this line.                                                *)
Books(song, seen, k, w, next) ==
  /\ StopsMatch(song, seen, w.at, w.out)
  /\ \A c \in Columns :
       /\ ListMatch(song, w.seq[Main].mActiveNotesVec[c], Earlier(Pending(song, seen, c), k))
       /\ ListMatch(song, next[c], Here(Pending(song, seen, c), k))

(* A call that queues no stop of the main song leaves the books right. *)
LEMMA BooksKept ==
  ASSUME NEW song, NEW seen, NEW k, NEW w \in Worlds, NEW v, NEW next, NEW F,
         Books(song, seen, k, w, next), Kept(w, v, F, NonStops), "mActiveNotesVec" \in F
  PROVE  Books(song, seen, k, v, next)
<1>1. /\ StopsIn(v.out) = StopsIn(w.out) /\ \A i \in StopsIn(w.out) : v.out[i] = w.out[i]
  BY WorldIs, StopsStay DEF Kept
<1>2. v.at = w.at /\ v.seq[Main].mActiveNotesVec = w.seq[Main].mActiveNotesVec
  BY DEF Kept
<1>3. PICK R : StopPairs(song, seen, w.at, w.out, R)
  BY DEF Books, StopsMatch
<1>4. \A r \in R : r[1] \in StopsIn(w.out)
  BY <1>3 DEF StopPairs, Pairs
<1>5. StopPairs(song, seen, v.at, v.out, R)
  BY <1>1, <1>2, <1>3, <1>4 DEF StopPairs
<1>6. StopsMatch(song, seen, v.at, v.out)
  BY <1>5 DEF StopsMatch
<1> QED BY <1>2, <1>6 DEF Books

(* So does an event that ends nothing. *)
LEMMA BooksOfOthers ==
  ASSUME NEW song, NEW seen, NEW k, NEW p, IsNext(song, seen, k, p), ~Ends(Ev(song, p)),
         NEW w, NEW next, Books(song, seen, k, w, next)
  PROVE  Books(song, seen \cup {p}, k, w, next)
<1> SUFFICES ASSUME NEW more, more = seen \cup {p} PROVE Books(song, more, k, w, next)
  OBVIOUS
<1>1. /\ Due(song, more) = Due(song, seen)
      /\ \A c : Pending(song, more, c) = Pending(song, seen, c)
      /\ \A times, d : StopTime(song, more, times, d) = StopTime(song, seen, times, d)
  BY OtherEvents
<1>2. PICK R : StopPairs(song, seen, w.at, w.out, R)
  BY DEF Books, StopsMatch
<1>3. StopPairs(song, more, w.at, w.out, R)
  BY <1>1, <1>2 DEF StopPairs
<1>4. StopsMatch(song, more, w.at, w.out)
  BY <1>3 DEF StopsMatch
<1> QED BY <1>1, <1>4 DEF Books

(* An event that ends: its column is silenced, and it is remembered. *)
LEMMA BooksOfEnders ==
  ASSUME NEW nested, NestedOK(nested), NEW song, NEW seen, NEW k, NEW p, IsNext(song, seen, k, p),
         NEW e \in ReadEvents, e = Ev(song, p), Ends(e),
         NEW w \in Worlds, NEW next \in ActiveLists, Books(song, seen, k, w, next),
         w.at[k] = w.seq[Main].mCurrentTime,
         NEW v, v = SilenceColumn(nested, w, Main, e.column),
         NEW new, new = IF NeedsStopping(e) THEN Remember(next, e) ELSE next
  PROVE  Books(song, seen \cup {p}, k, v, new)
<1> SUFFICES ASSUME NEW more, more = seen \cup {p}, NEW c, c = e.column,
                    NEW t, t = w.seq[Main].mCurrentTime - 1 - c,
                    NEW list, list = w.seq[Main].mActiveNotesVec[c],
                    NEW places, places = Earlier(Pending(song, seen, c), k)
             PROVE  Books(song, more, k, v, new)
  OBVIOUS
<1>1. c \in Columns
  BY KindsAre DEF Ends
<1>2. /\ Kept(w, v, FieldNames \ {"mActiveNotesVec"}, Messages)
      /\ v.seq[Main].mActiveNotesVec = [w.seq[Main].mActiveNotesVec EXCEPT ![c] = <<>>]
      /\ Stopped(w.out, v.out, list, Len(list), t)
  <2>1. ColumnEnds(w, v, c)
    BY <1>1, ColumnStopped
  <2> QED BY <2>1 DEF ColumnEnds
<1>3. /\ Due(song, more) = Due(song, seen) \cup places
      /\ Due(song, seen) \cap places = {}
      /\ Earlier(Pending(song, more, c), k) = {}
      /\ Here(Pending(song, more, c), k)
           = Here(Pending(song, seen, c), k) \cup (IF Untimed(song, p) THEN {p} ELSE {})
      /\ p \notin Here(Pending(song, seen, c), k)
      /\ \A x : x # c => Pending(song, more, x) = Pending(song, seen, x)
  <2>1. /\ Due(song, more) = Due(song, seen) \cup Earlier(Pending(song, seen, c), k)
        /\ Due(song, seen) \cap Earlier(Pending(song, seen, c), k) = {}
        /\ Earlier(Pending(song, more, c), k) = {}
        /\ Here(Pending(song, more, c), k)
             = Here(Pending(song, seen, c), k) \cup (IF Untimed(song, p) THEN {p} ELSE {})
        /\ p \notin Here(Pending(song, seen, c), k)
        /\ \A x : x # c => Pending(song, more, x) = Pending(song, seen, x)
    BY ONLY IsNext(song, seen, k, p), e = Ev(song, p), Ends(e), c = e.column, more = seen \cup {p},
            EndingEvents
  <2> QED BY <2>1
<1>4. /\ \A d \in Due(song, seen) : StopTime(song, more, w.at, d) = StopTime(song, seen, w.at, d)
      /\ \A d \in places : StopTime(song, more, w.at, d) = t
  BY StopTimes
<1>5. StopsIn(w.out) \subseteq StopsIn(v.out) /\ \A i \in StopsIn(w.out) : v.out[i] = w.out[i]
  BY <1>2, WorldIs, StopsStay DEF Kept
<1>6. StopsMatch(song, seen, w.at, w.out) /\ ListMatch(song, list, places)
  BY <1>1 DEF Books
<1>7. StopsMatch(song, more, w.at, v.out)
  BY ONLY <1>2, <1>3, <1>4, <1>5, <1>6, StopsJoined
<1>8. v.at = w.at
  BY <1>2 DEF Kept
<1>9. ASSUME NEW x \in Columns
      PROVE  ListMatch(song, v.seq[Main].mActiveNotesVec[x], Earlier(Pending(song, more, x), k))
  <2>1. w.seq[Main].mActiveNotesVec \in ActiveLists
    BY MainIs, StateIs
  <2>2. DOMAIN w.seq[Main].mActiveNotesVec = Columns
    BY <2>1 DEF ActiveLists
  <2>3. CASE x = c
    <3>1. v.seq[Main].mActiveNotesVec[x] = <<>>
      BY <1>2, <2>2, <2>3
    <3> QED BY <1>3, <2>3, <3>1, ListEmpty
  <2>4. CASE x # c
    <3>1. v.seq[Main].mActiveNotesVec[x] = w.seq[Main].mActiveNotesVec[x]
      BY <1>2, <2>2, <2>4
    <3> QED BY <1>3, <2>4, <3>1 DEF Books
  <2> QED BY <2>3, <2>4
<1>10. ASSUME NEW x \in Columns
       PROVE  ListMatch(song, new[x], Here(Pending(song, more, x), k))
  <2> DEFINE E == {y \in NoteEvents \cup PlayEvents : NeedsStopping(y)}
  <2>1. next \in [Columns -> Seq(E)]
    BY DEF ActiveLists
  <2>2. ListMatch(song, next[x], Here(Pending(song, seen, x), k))
    BY DEF Books
  <2>3. CASE x # c
    <3>1. new[x] = next[x]
      BY <2>1, <2>3 DEF Remember
    <3> QED BY <1>3, <2>2, <2>3, <3>1
  <2>4. CASE x = c /\ ~NeedsStopping(e)
    <3>1. ~Untimed(song, p)
      BY <2>4 DEF Untimed, NeedsStopping
    <3> QED BY <1>3, <2>2, <2>4, <3>1
  <2>5. CASE x = c /\ NeedsStopping(e)
    <3>1. new[x] = Append(next[x], e)
      BY <2>1, <2>5 DEF Remember
    <3>2. e \in E
      BY <2>5, KindsAre DEF NeedsStopping
    <3>3. next[x] \in Seq(E)
      BY <2>1
    <3> HIDE DEF E
    <3>4. /\ e.kind # "note" => ListMatch(song, new[x], Here(Pending(song, seen, x), k))
          /\ e.kind = "note" => ListMatch(song, new[x], Here(Pending(song, seen, x), k) \cup {p})
      <4>1. p \notin Here(Pending(song, seen, x), k)
        BY <1>3, <2>5
      <4> SUFFICES ASSUME NEW here, here = Here(Pending(song, seen, x), k)
                   PROVE  /\ e.kind # "note" => ListMatch(song, Append(next[x], e), here)
                          /\ e.kind = "note" => ListMatch(song, Append(next[x], e), here \cup {p})
        BY <3>1
      <4>2. ListMatch(song, next[x], here) /\ p \notin here
        BY <2>2, <4>1
      <4> QED BY ONLY <3>2, <3>3, <4>2, e = Ev(song, p), ListAppended
    <3>5. Untimed(song, p) <=> e.kind = "note"
      BY <2>5 DEF Untimed, NeedsStopping
    <3> QED BY <1>3, <2>5, <3>4, <3>5
  <2> QED BY <2>3, <2>4, <2>5
<1> QED BY <1>7, <1>8, <1>9, <1>10 DEF Books

(* At an event of line k, and the time of the main song is that of the     *)
(* line, which is noted.                                                   *)
AtEvent(song, seen, k, a) == a \in LineStates /\ Books(song, seen, k, a.w, a.next)

InTime(k, a) == a.w.at[k] = a.w.seq[Main].mCurrentTime

(* PlayEvent, of any event, leaves the books right. *)
LEMMA EventBooks ==
  ASSUME NEW nested, NestedOK(nested), NEW song, NEW seen, NEW k, NEW p, IsNext(song, seen, k, p),
         NEW e \in ReadEvents, e = Ev(song, p), ~Ghost(e),
         NEW a, AtEvent(song, seen, k, a), InTime(k, a)
  PROVE  /\ AtEvent(song, seen \cup {p}, k, PlayEvent(nested, a, Main, e))
         /\ e.kind # "wait" => InTime(k, PlayEvent(nested, a, Main, e))
<1> SUFFICES ASSUME NEW x, x = PlayEvent(nested, a, Main, e)
             PROVE  /\ Books(song, seen \cup {p}, k, x.w, x.next)
                    /\ e.kind # "wait" => x.w.seq[Main].mCurrentTime = a.w.seq[Main].mCurrentTime
  <2> SUFFICES ASSUME NEW x, x = PlayEvent(nested, a, Main, e),
                      /\ Books(song, seen \cup {p}, k, x.w, x.next)
                      /\ e.kind # "wait" => x.w.seq[Main].mCurrentTime = a.w.seq[Main].mCurrentTime
               PROVE  AtEvent(song, seen \cup {p}, k, x) /\ (e.kind # "wait" => InTime(k, x))
    OBVIOUS
  <2>1. x \in LineStates /\ Kept(a.w, x.w, Place(Main), Mine(Main))
    BY MainIs, EventKept DEF AtEvent
  <2>2. x.w.at = a.w.at
    BY <2>1 DEF Kept
  <2> QED BY <2>1, <2>2 DEF AtEvent, InTime
<1>0. a \in LineStates /\ Books(song, seen, k, a.w, a.next) /\ a.w.at[k] = a.w.seq[Main].mCurrentTime
  BY DEF AtEvent, InTime
<1> SUFFICES ASSUME NEW done, done = Execute(nested, a.w, Main, e),
                    NEW v, v = SilenceColumn(nested, done, Main, e.column),
                    NEW new, new = IF NeedsStopping(e) THEN Remember(a.next, e) ELSE a.next
             PROVE  /\ Books(song, seen \cup {p}, k, x.w, x.next)
                    /\ e.kind # "wait" => x.w.seq[Main].mCurrentTime = a.w.seq[Main].mCurrentTime
  OBVIOUS
<1>1. x.w = (IF SilencesPrevious(e) THEN v ELSE done) /\ x.next = new
  BY DEF PlayEvent
<1>2. Kept(a.w, done, FieldNames \ Changes(e), NonStops)
  <2>1. Owned(Main, Changes(e)) = FieldNames \ Changes(e) /\ Loud(Main, e) = NonStops
    BY DEF Owned, Loud
  <2> QED BY <1>0, <2>1, LineStateIs, MainIs, ExecuteKept
<1>3. done \in Worlds /\ a.w \in Worlds /\ a.next \in ActiveLists
  BY <1>0, <1>2, LineStateIs DEF Kept
<1>4. "mActiveNotesVec" \in FieldNames \ Changes(e)
  BY DEF FieldNames, Changes
<1>5. Books(song, seen, k, done, a.next)
  BY <1>0, <1>2, <1>3, <1>4, BooksKept
<1>6. e.kind # "wait" => done.seq[Main].mCurrentTime = a.w.seq[Main].mCurrentTime
  BY <1>2 DEF Kept, FieldNames, Changes
<1>7. CASE Ends(e)
  <2>1. SilencesPrevious(e) /\ e.kind # "wait" /\ e.column \in Columns
    BY <1>7, KindsAre DEF Ends, SilencesPrevious
  <2>2. done.at[k] = done.seq[Main].mCurrentTime
    BY <1>0, <1>2, <1>6, <2>1 DEF Kept
  <2>3. Books(song, seen \cup {p}, k, v, new)
    BY <1>3, <1>5, <1>7, <2>2, BooksOfEnders
  <2>4. Kept(done, v, FieldNames \ {"mActiveNotesVec"}, Messages)
    BY <1>3, <2>1, ColumnStopped DEF ColumnEnds
  <2>5. v.seq[Main].mCurrentTime = done.seq[Main].mCurrentTime
    BY <2>4 DEF Kept, FieldNames
  <2> QED BY <1>1, <1>6, <2>1, <2>3, <2>5
<1>8. CASE ~Ends(e)
  <2>1. ~SilencesPrevious(e) /\ ~NeedsStopping(e)
    BY <1>8 DEF Ends, SilencesPrevious, NeedsStopping
  <2>2. Books(song, seen \cup {p}, k, done, a.next)
    BY <1>5, <1>8, BooksOfOthers
  <2> QED BY <1>1, <1>6, <2>1, <2>2
<1> QED BY <1>7, <1>8
-----------------------------------------------------------------------------
(* No note with a length has an end that looks like a stop, and a command  *)
(* is alone in its line.                                                   *)
NoGhosts(song) == \A p \in Places(song) : ~Ghost(Ev(song, p))

CommandsAlone(song) ==
  \A k \in 1 .. Len(song) : \A i \in 1 .. Len(song[k]) :
    song[k][i] \in Commands => Len(song[k]) = 1

(* The places seen are in the lines so far. *)
LEMMA SeenIs ==
  ASSUME NEW song, IsSong(song), NEW k \in Nat, NEW j
  PROVE  \A p \in Seen(song, k, j) : p[1] \in 1 .. Len(song) /\ p[1] <= k
BY DEF Seen, Places, IsSong, AreList

(* A line seen to its end is the next seen to its beginning. *)
LEMMA SeenNext ==
  ASSUME NEW song, IsSong(song), NEW k \in 1 .. Len(song)
  PROVE  Seen(song, k + 1, 0) = Seen(song, k, Len(song[k]))
<1>1. ASSUME NEW p \in Places(song)
      PROVE  /\ p[1] \in 1 .. Len(song) /\ p[2] \in 1 .. Len(song[p[1]])
             /\ Len(song[p[1]]) \in Nat
  BY <1>1 DEF Places, IsSong, IsLine, AreList
<1>2. k \in Nat
  BY DEF IsSong, AreList
<1> QED BY <1>1, <1>2 DEF Seen

(* From w to v the time t of line k was noted. *)
LineNotes(w, v, k, t) ==
  /\ w \in Worlds /\ k = Len(w.at) + 1
  /\ v.seq = w.seq /\ v.out = w.out /\ v.at = Append(w.at, t)

(* The time of a line is noted. *)
LEMMA BeginBooks ==
  ASSUME NEW song, IsSong(song), NEW k \in Nat, NEW w, NEW v, NEW t, LineNotes(w, v, k, t),
         NEW next, Books(song, Seen(song, k, 0), k, w, next)
  PROVE  Books(song, Seen(song, k, 0), k, v, next) /\ v.at[k] = t
<1> SUFFICES ASSUME NEW n, n = Len(w.at), NEW times, times = w.at, NEW more, more = v.at,
                    NEW seen, seen = Seen(song, k, 0)
             PROVE  StopsMatch(song, seen, more, w.out) /\ more[k] = t
  BY DEF Books, LineNotes
<1>0. /\ w \in Worlds /\ k = Len(w.at) + 1 /\ more = Append(times, t)
      /\ Books(song, seen, k, w, next)
  BY DEF LineNotes
<1>1. /\ n \in Nat /\ more[k] = t /\ \A i \in 1 .. n : more[i] = times[i]
  BY <1>0, WorldIs
<1>2. PICK R : StopPairs(song, seen, times, w.out, R)
  BY <1>0 DEF Books, StopsMatch
<1>3. ASSUME NEW d \in Due(song, seen)
      PROVE  StopTime(song, seen, more, d) = StopTime(song, seen, times, d)
  <2> SUFFICES ASSUME NEW s, s = EndersIn(song, seen, d[1], Ev(song, d).column)
               PROVE  more[Min(s)] = times[Min(s)]
    BY DEF StopTime
  <2>1. s # {}
    BY DEF Due
  <2>2. s \in SUBSET (1 .. n)
    <3>1. ASSUME NEW p \in seen PROVE p[1] \in 1 .. n
      <4>1. p[1] \in 1 .. Len(song) /\ p[2] \in 1 .. Len(song[p[1]]) /\ Len(song[p[1]]) \in Nat
        BY DEF Seen, Places, IsSong, IsLine, AreList
      <4>2. p[1] < k \/ p[2] <= 0
        BY DEF Seen
      <4>3. Len(song) \in Nat
        BY DEF IsSong, AreList
      <4> QED BY ONLY <1>0, <1>1, <4>1, <4>2, <4>3, n = Len(w.at)
    <3> QED BY <3>1 DEF EndersIn
  <2>3. Min(s) \in s
    BY <2>1, <2>2, LeastIs
  <2> QED BY <1>1, <2>2, <2>3
<1>4. \A r \in R : r[2] \in Due(song, seen)
  BY <1>2 DEF StopPairs, Pairs
<1>5. StopPairs(song, seen, more, w.out, R)
  BY <1>2, <1>3, <1>4 DEF StopPairs
<1> QED BY <1>1, <1>5 DEF StopsMatch

(* All events of a line leave the books right. *)
LEMMA EventsBooks ==
  ASSUME NEW nested, NestedOK(nested), NEW song, IsSong(song), NoGhosts(song), CommandsAlone(song),
         NEW k \in 1 .. Len(song), NEW line, line = song[k],
         NEW f, AtEvent(song, Seen(song, k, 0), k, f[0]), InTime(k, f[0]),
         \A i \in 1 .. Len(line) : f[i] = PlayEvent(nested, f[i - 1], Main, line[i])
  PROVE  AtEvent(song, Seen(song, k, Len(line)), k, f[Len(line)])
<1> SUFFICES ASSUME NEW n, n = Len(line) PROVE AtEvent(song, Seen(song, k, n), k, f[n])
  OBVIOUS
<1>1. /\ k \in Nat /\ n \in Nat
      /\ \A i \in 1 .. n : line[i] \in ReadEvents
  BY DEF IsSong, IsLine, AreList
<1> DEFINE OK(i) == AtEvent(song, Seen(song, k, i), k, f[i]) /\ (i < n => InTime(k, f[i]))
           T == {i \in Nat : i <= n => OK(i)}
<1>2. 0 \in T
  OBVIOUS
<1>3. ASSUME NEW i \in T PROVE i + 1 \in T
  <2> SUFFICES ASSUME i + 1 <= n PROVE OK(i + 1)
    OBVIOUS
  <2>1. OK(i) /\ i \in Nat /\ i + 1 \in 1 .. n /\ (i + 1) - 1 = i /\ i < n
    BY <1>1
  <2> SUFFICES ASSUME NEW p, p = <<k, i + 1>>, NEW e, e = Ev(song, p),
                      NEW seen, seen = Seen(song, k, i)
               PROVE  OK(i + 1)
    OBVIOUS
  <2>2. e = line[i + 1] /\ e \in ReadEvents
    BY <1>1, <2>1 DEF Ev
  <2>3. f[i + 1] = PlayEvent(nested, f[i], Main, e)
    BY <2>1, <2>2
  <2>4. Seen(song, k, i + 1) = seen \cup {p} /\ IsNext(song, seen, k, p)
    <3>1. i + 1 <= Len(song[k])
      OBVIOUS
    <3>2. /\ Seen(song, k, i + 1) = Seen(song, k, i) \cup {<<k, i + 1>>}
          /\ IsNext(song, Seen(song, k, i), k, <<k, i + 1>>)
      BY ONLY IsSong(song), k \in 1 .. Len(song), <2>1, <3>1, SeenMore
    <3> QED BY <3>2
  <2>5. ~Ghost(e)
    <3>1. p \in Places(song)
      BY <1>1, <2>1 DEF Places, IsSong, IsLine, AreList
    <3> QED BY <3>1 DEF NoGhosts
  <2>6. AtEvent(song, seen, k, f[i]) /\ InTime(k, f[i])
    BY <2>1
  <2>7. /\ AtEvent(song, seen \cup {p}, k, PlayEvent(nested, f[i], Main, e))
        /\ e.kind # "wait" => InTime(k, PlayEvent(nested, f[i], Main, e))
    BY ONLY NestedOK(nested), <2>2, <2>4, <2>5, <2>6, e = Ev(song, p), EventBooks
  <2>8. e.kind = "wait" => n = 1
    BY <1>1, <2>1, <2>2, KindsAre DEF CommandsAlone
  <2>9. AtEvent(song, Seen(song, k, i + 1), k, f[i + 1])
    BY <2>3, <2>4, <2>7
  <2>10. i + 1 < n => InTime(k, f[i + 1])
    BY <2>1, <2>3, <2>7, <2>8
  <2> QED BY <2>9, <2>10
<1>4. T = Nat
  <2> HIDE DEF T
  <2>1. T \in SUBSET Nat
    BY DEF T
  <2> QED BY <1>2, <1>3, <2>1, EventFold!SetInduction
<1>5. OK(n)
  BY <1>1, <1>4
<1> QED BY <1>5

(* The events that the next lines have to stop join the active ones. *)
LEMMA EndBooks ==
  ASSUME NEW song, NEW k \in Nat, NEW seen, \A p \in seen : p[1] \in Nat /\ p[1] <= k,
         NEW w \in Worlds, NEW next \in ActiveLists, Books(song, seen, k, w, next),
         NEW v, v.out = w.out, v.at = w.at,
         v.seq[Main].mActiveNotesVec = Merged(w.seq[Main].mActiveNotesVec, next)
  PROVE  Books(song, seen, k + 1, v, NoActives)
<1> SUFFICES ASSUME NEW a, a = w.seq[Main].mActiveNotesVec, NEW c \in Columns,
                    NEW places, places = Pending(song, seen, c)
             PROVE  /\ ListMatch(song, Merged(a, next)[c], Earlier(places, k + 1))
                    /\ ListMatch(song, NoActives[c], Here(places, k + 1))
  BY DEF Books
<1>1. places \subseteq seen
  BY DEF Pending
<1>2. /\ Earlier(places, k + 1) = Earlier(places, k) \cup Here(places, k)
      /\ Earlier(places, k) \cap Here(places, k) = {}
      /\ Here(places, k + 1) = {}
  BY <1>1 DEF Earlier, Here
<1>3. ListMatch(song, NoActives[c], {})
  BY ListEmpty DEF NoActives
<1>4. ListMatch(song, a[c], Earlier(places, k)) /\ ListMatch(song, next[c], Here(places, k))
  BY DEF Books
<1> DEFINE E == {y \in NoteEvents \cup PlayEvents : NeedsStopping(y)}
<1>5. a[c] \in Seq(E) /\ next[c] \in Seq(E)
  <2>1. a \in ActiveLists
    BY MainIs, StateIs
  <2> QED BY <2>1, ActivesAre
<1> HIDE DEF E
<1>6. ListMatch(song, a[c] \o next[c], Earlier(places, k) \cup Here(places, k))
  <2> SUFFICES ASSUME NEW x, x = a[c], NEW y, y = next[c], NEW A, A = Earlier(places, k),
                      NEW B, B = Here(places, k)
               PROVE  ListMatch(song, x \o y, A \cup B)
    OBVIOUS
  <2>1. x \in Seq(E) /\ y \in Seq(E) /\ A \cap B = {} /\ ListMatch(song, x, A) /\ ListMatch(song, y, B)
    BY <1>2, <1>4, <1>5
  <2> QED BY ONLY <2>1, ListJoined
<1>7. Merged(a, next)[c] = a[c] \o next[c]
  BY DEF Merged
<1> QED BY <1>2, <1>3, <1>6, <1>7

(* Before the next line of the main song. *)
BetweenLines(song, w) ==
  LET k == w.seq[Main].mCurrentPos + 1
  IN  k <= Len(song) + 1 /\ Books(song, Seen(song, k, 0), k, w, NoActives)

(* A whole line leaves the books right. *)
LEMMA LineBooks ==
  ASSUME NEW nested, NestedOK(nested), NEW song, IsSong(song), NoGhosts(song), CommandsAlone(song),
         NEW a \in Noted, NEW n \in Nat, a.w.seq[Main].mCurrentPos = n, n < Len(song),
         ~a.advance, BetweenLines(song, a.w)
  PROVE  BetweenLines(song, PlayLine(nested, song, a, Main, n).w)
<1> SUFFICES ASSUME NEW x, x = PlayLine(nested, song, a, Main, n), NEW k, k = n + 1,
                    NEW line, line = song[k], NEW b, b = BeginLine(a, Main)
             PROVE  BetweenLines(song, x.w)
  OBVIOUS
<1>1. /\ k \in 1 .. Len(song) /\ k \in Nat /\ Len(song) \in Nat /\ k - 1 = n
      /\ AreList(line) /\ Len(line) \in Nat
  BY DEF IsSong, IsLine, AreList
<1>2. a \in LineStates /\ a.w \in Worlds /\ a.next = NoActives /\ Len(a.w.at) = n
  BY LineStateIs DEF Noted
<1>3. PICK f : /\ f[0] = b
               /\ \A i \in 1 .. Len(line) : f[i] = PlayEvent(nested, f[i - 1], Main, line[i])
               /\ x = EndLine(f[Len(line)], Main, n)
  <2>1. line = song[n + 1]
    OBVIOUS
  <2>2. \E f : /\ f[0] = BeginLine(a, Main)
               /\ \A i \in 1 .. Len(line) : f[i] = PlayEvent(nested, f[i - 1], Main, line[i])
               /\ PlayLine(nested, song, a, Main, n) = EndLine(f[Len(line)], Main, n)
    BY ONLY <1>1, <2>1, LineByEvents
  <2> QED BY <2>2
<1>4. /\ b \in LineStates /\ b.w.seq = a.w.seq /\ b.w.out = a.w.out /\ b.next = NoActives
      /\ b.w.at = Append(a.w.at, a.w.seq[Main].mCurrentTime)
  BY <1>2, MainIs, BeginLineIs
<1>5. AtEvent(song, Seen(song, k, 0), k, f[0]) /\ InTime(k, f[0])
  <2>1. Books(song, Seen(song, k, 0), k, a.w, NoActives)
    BY DEF BetweenLines
  <2>2. LineNotes(a.w, b.w, k, a.w.seq[Main].mCurrentTime)
    BY <1>2, <1>4 DEF LineNotes
  <2>3. Books(song, Seen(song, k, 0), k, b.w, NoActives) /\ b.w.at[k] = a.w.seq[Main].mCurrentTime
    BY <1>1, <2>1, <2>2, BeginBooks
  <2> QED BY <1>3, <1>4, <2>3 DEF AtEvent, InTime
<1>6. AtEvent(song, Seen(song, k, Len(line)), k, f[Len(line)])
  BY ONLY NestedOK(nested), IsSong(song), NoGhosts(song), CommandsAlone(song), <1>1, <1>3, <1>5,
          line = song[k], EventsBooks
<1> SUFFICES ASSUME NEW c, c = f[Len(line)], NEW q, q = EndState(c, Main, n),
                    NEW seen, seen = Seen(song, k + 1, 0)
             PROVE  BetweenLines(song, x.w)
  OBVIOUS
<1>7. c \in LineStates /\ c.w \in Worlds /\ c.next \in ActiveLists /\ Books(song, seen, k, c.w, c.next)
  <2>1. seen = Seen(song, k, Len(line))
    BY <1>1, SeenNext
  <2> QED BY <1>6, <2>1, LineStateIs DEF AtEvent
<1>8. /\ x = [w |-> SetState(c.w, Main, q), next |-> c.next, advance |-> c.advance]
      /\ q \in States /\ q.mCurrentPos = k
      /\ q.mActiveNotesVec = Merged(c.w.seq[Main].mActiveNotesVec, c.next)
  BY <1>3, <1>7, MainIs, EndLineIs
<1>9. /\ x.w.seq = [c.w.seq EXCEPT ![Main] = q] /\ x.w.out = c.w.out /\ x.w.at = c.w.at
  <2>1. /\ Kept(c.w, SetState(c.w, Main, q), {}, Messages)
        /\ SetState(c.w, Main, q).seq = [c.w.seq EXCEPT ![Main] = q]
        /\ SetState(c.w, Main, q).out = c.w.out
    BY ONLY <1>7, <1>8, MainIs, StateKept
  <2> QED BY <1>8, <2>1 DEF Kept
<1>10. x.w.seq[Main] = q
  BY <1>7, <1>9, WorldIs, MainIs
<1>11. Books(song, seen, k + 1, x.w, NoActives)
  <2>1. \A p \in seen : p[1] \in Nat /\ p[1] <= k
    <3>1. \A p \in Seen(song, k, Len(line)) : p[1] \in 1 .. Len(song) /\ p[1] <= k
      BY <1>1, SeenIs
    <3> QED BY <1>1, <3>1, SeenNext
  <2>2. x.w.seq[Main].mActiveNotesVec = Merged(c.w.seq[Main].mActiveNotesVec, c.next)
    BY <1>8, <1>10
  <2> QED BY ONLY <1>1, <1>7, <1>9, <2>1, <2>2, EndBooks
<1> QED BY <1>1, <1>8, <1>10, <1>11 DEF BetweenLines
-----------------------------------------------------------------------------
(* A song that is read has its commands alone, as its text has. *)
LEMMA ReadAlone ==
  ASSUME NEW text, IsText(text)
  PROVE  CommandsAlone(Read(text))
<1> SUFFICES ASSUME NEW k \in 1 .. Len(text), NEW i \in 1 .. Len(text[k]),
                    Read(text)[k][i] \in Commands
             PROVE  Len(text[k]) = 1
  BY ReadIs DEF CommandsAlone
<1>1. text \in Seq(Seq(TextEvents))
  BY DEF IsText, TextEvents
<1>2. k \in DOMAIN text /\ i \in DOMAIN text[k]
  BY <1>1
<1>3. <<k, i>> \in Places(text)
  BY <1>2 DEF Places
<1>4. Read(text)[k][i] = IF text[k][i].kind = "pedal"
                         THEN [kind |-> "pedal", column |-> text[k][i].column,
                               event |-> LastNote(text, k, i, text[k][i].column)]
                         ELSE text[k][i]
  BY <1>2 DEF Read
<1>5. text[k][i] \in Commands
  BY <1>4 DEF Commands
<1> QED BY <1>3, <1>5 DEF IsText

(* The main song is one that was read, the variables have their types, and *)
(* the books are right.                                                    *)
BooksInv ==
  /\ Inv /\ CommandsAlone(mSong)
  /\ NoGhosts(mSong) => BetweenLines(mSong, World)

(* Initially nothing is queued, due or active. *)
LEMMA InitBooks == Init => BooksInv
<1> SUFFICES ASSUME Init PROVE BooksInv
  OBVIOUS
<1>1. Inv
  BY InitInv
<1>2. CommandsAlone(mSong)
  BY SongsAssumption, ReadAlone DEF Init
<1>3. World.out = <<>> /\ World.seq[Main].mCurrentPos = 0 /\ World.seq[Main].mActiveNotesVec = NoActives
  BY MainIs DEF Init, World
<1>4. Seen(mSong, 1, 0) = {}
  <2>1. \A p \in Places(mSong) : p[1] \in Nat /\ p[1] >= 1 /\ p[2] \in Nat /\ p[2] >= 1
    BY <1>1 DEF Inv, IsSong, IsLine, AreList, Places
  <2> QED BY <2>1 DEF Seen
<1>5. Due(mSong, {}) = {} /\ \A c : Earlier(Pending(mSong, {}, c), 1) = {} /\ Here(Pending(mSong, {}, c), 1) = {}
  BY DEF Due, Pending, Earlier, Here
<1>6. StopsIn(World.out) = {}
  BY <1>3 DEF StopsIn
<1>7. StopsMatch(mSong, {}, World.at, World.out)
  <2>1. StopPairs(mSong, {}, World.at, World.out, {})
    BY <1>5, <1>6, NoPairs DEF StopPairs
  <2> QED BY <2>1 DEF StopsMatch
<1>8. \A c \in Columns : ListMatch(mSong, NoActives[c], {})
  BY ListEmpty DEF NoActives
<1>9. Books(mSong, {}, 1, World, NoActives)
  BY <1>3, <1>5, <1>7, <1>8 DEF Books
<1>10. Len(mSong) \in Nat
  BY <1>1 DEF Inv, IsSong, AreList
<1>11. BetweenLines(mSong, World)
  <2> SUFFICES ASSUME NEW w, w = World, NEW k, k = w.seq[Main].mCurrentPos + 1
               PROVE  k <= Len(mSong) + 1 /\ Books(mSong, Seen(mSong, k, 0), k, w, NoActives)
    BY DEF BetweenLines
  <2>1. k = 1
    BY <1>3
  <2> QED BY <1>4, <1>9, <1>10, <2>1
<1> QED BY <1>1, <1>2, <1>11 DEF BooksInv

(* A call of playNextLine leaves the books right. *)
LEMMA NextBooks == BooksInv /\ [Next]_vars => BooksInv'
<1> SUFFICES ASSUME BooksInv, [Next]_vars PROVE BooksInv'
  OBVIOUS
<1>1. Inv'
  BY NextInv DEF BooksInv
<1>2. CASE UNCHANGED vars
  BY <1>1, <1>2 DEF BooksInv, World, vars
<1>3. CASE SongOver
  BY <1>1, <1>3 DEF BooksInv, World, vars, SongOver
<1>4. CASE PlayMain
  <2> SUFFICES ASSUME NEW w, w = World, NEW song, song = mSong PROVE BooksInv'
    OBVIOUS
  <2>1. /\ w \in Worlds /\ w.seq = sequencer /\ w.at = at /\ IsSong(song)
        /\ Len(w.at) = w.seq[Main].mCurrentPos /\ CommandsAlone(song)
    BY DEF BooksInv, Inv, TypeOK, World
  <2> DEFINE S == {a \in Noted : NoGhosts(song) => BetweenLines(song, a.w)}
  <2>2. Start(w) \in S
    BY <2>1, NoActivesAre DEF Noted, LineStates, Start, BooksInv
  <2>3. ASSUME NEW a \in S, NEW k \in Nat, ~a.advance, a.w.seq[Main].mCurrentPos = k, k < Len(song)
        PROVE  /\ PlayLine(Asked, song, a, Main, k) \in S
               /\ PlayLine(Asked, song, a, Main, k).w.seq[Main].mCurrentPos = k + 1
    <3>1. a \in Noted /\ (NoGhosts(song) => BetweenLines(song, a.w))
      OBVIOUS
    <3> HIDE DEF S
    <3>2. /\ PlayLine(Asked, song, a, Main, k) \in Noted
          /\ PlayLine(Asked, song, a, Main, k).w.seq[Main].mCurrentPos = k + 1
      BY <2>1, <2>3, <3>1, LineNoted
    <3>3. NoGhosts(song) => BetweenLines(song, PlayLine(Asked, song, a, Main, k).w)
      BY <2>1, <2>3, <3>1, AskedOK, LineBooks
    <3> QED BY <3>2, <3>3 DEF S
  <2> HIDE DEF S
  <2>4. LineStays(Asked, song, Main, S)
    BY <2>3 DEF LineStays
  <2>5. Len(song) \in Nat /\ w.seq[Main].mCurrentPos \in Nat
    BY <2>1, MainIs, StateIs DEF IsSong, AreList
  <2>6. PICK a \in S : PlayNextLine(Asked, song, w, Main) = a.w
    BY <2>2, <2>4, <2>5, LinesReach
  <2>7. a.w \in Worlds /\ (NoGhosts(song) => BetweenLines(song, a.w))
    BY LineStateIs DEF S, Noted
  <2>8. sequencer' = a.w.seq /\ queued' = a.w.out /\ at' = a.w.at /\ mSong' = song
    BY <1>4, <2>6 DEF PlayMain
  <2>9. World' = a.w
    BY <2>7, <2>8, WorldIs DEF World
  <2> QED BY <1>1, <2>1, <2>7, <2>8, <2>9 DEF BooksInv
<1> QED BY <1>2, <1>3, <1>4 DEF Next

(* Right books are what the property says. *)
LEMMA BooksAreRight == BooksInv => NotesLastUntilTheNextEvent
<1> SUFFICES ASSUME BooksInv, NotesAreOrdinary
             PROVE  LET due == {d \in Places(mSong) : LET e == mSong[d[1]][d[2]]
                                     IN  /\ d[1] \in Executed /\ e.kind = "note"
                                         /\ ~IsTimed(e) /\ Enders(d[1], e.column) # {}}
                        stops == {i \in DOMAIN queued :
                                    /\ queued[i].type = "off" /\ queued[i].volume = 0
                                    /\ queued[i].seq = Main}
                        stop(d) == LET e == mSong[d[1]][d[2]]
                                   IN  <<e.pitch, at[Min(Enders(d[1], e.column))] - 1 - e.column>>
                    IN  /\ {<<queued[i].pitch, queued[i].time>> : i \in stops} = {stop(d) : d \in due}
                        /\ Cardinality(stops) = Cardinality(due)
  BY DEF NotesLastUntilTheNextEvent
<1> DEFINE n == Len(at)
           seen == Seen(mSong, n + 1, 0)
           due == {d \in Places(mSong) : LET e == mSong[d[1]][d[2]]
                                     IN  /\ d[1] \in Executed /\ e.kind = "note"
                                         /\ ~IsTimed(e) /\ Enders(d[1], e.column) # {}}
           stops == {i \in DOMAIN queued :
                       /\ queued[i].type = "off" /\ queued[i].volume = 0
                       /\ queued[i].seq = Main}
           stop(d) == LET e == mSong[d[1]][d[2]]
                      IN  <<e.pitch, at[Min(Enders(d[1], e.column))] - 1 - e.column>>
<1>1. NoGhosts(mSong)
  BY DEF NotesAreOrdinary, NoGhosts, Ghost, Ev
<1>2. /\ n \in Nat /\ DOMAIN at = 1 .. n /\ IsSong(mSong) /\ Len(mSong) \in Nat
      /\ queued \in Seq(Messages) /\ Len(queued) \in Nat /\ DOMAIN queued = 1 .. Len(queued)
      /\ n = sequencer[Main].mCurrentPos
  BY WorldIs DEF BooksInv, Inv, TypeOK, World, IsSong, AreList
<1>3. n <= Len(mSong) /\ StopsMatch(mSong, seen, at, queued)
  BY <1>1, <1>2 DEF BooksInv, BetweenLines, Books, World
<1>4. ASSUME NEW p \in Places(mSong)
      PROVE  (p \in seen <=> p[1] \in 1 .. n) /\ p[1] \in Nat
  <2>1. /\ p[1] \in 1 .. Len(mSong) /\ p[2] \in 1 .. Len(mSong[p[1]]) /\ Len(mSong[p[1]]) \in Nat
    BY <1>2 DEF Places, IsSong, IsLine, AreList
  <2>2. p \in seen <=> p[1] < n + 1 \/ (p[1] = n + 1 /\ p[2] <= 0)
    BY DEF Seen
  <2> HIDE DEF n, seen
  <2> QED BY <1>2, <2>1, <2>2
<1> HIDE DEF n
<1>5. seen \subseteq Places(mSong)
  BY DEF Seen
<1> HIDE DEF seen
<1>6. ASSUME NEW k, NEW c
      PROVE  Enders(k, c) = EndersIn(mSong, seen, k, c)
  <2>1. \A j \in 1 .. n : DOMAIN mSong[j] = 1 .. Len(mSong[j]) /\ j \in DOMAIN mSong
    BY <1>2, <1>3 DEF IsSong, IsLine, AreList
  <2>2. Enders(k, c) = {j \in 1 .. n : j > k /\ \E i \in DOMAIN mSong[j] :
                                        Ends(mSong[j][i]) /\ mSong[j][i].column = c}
    BY <1>2 DEF Enders, Has, Executed
  <2>3. ASSUME NEW j \in 1 .. n, NEW i \in DOMAIN mSong[j]
        PROVE  <<j, i>> \in seen
    BY <1>4, <2>1, <2>3 DEF Places
  <2>4. ASSUME NEW q \in seen
        PROVE  q[1] \in 1 .. n /\ q[2] \in DOMAIN mSong[q[1]]
    BY <1>4, <1>5 DEF Places
  <2>5. ASSUME NEW j \in EndersIn(mSong, seen, k, c)
        PROVE  j \in Enders(k, c)
    <3>1. PICK q \in seen : j = q[1] /\ q[1] > k /\ Ends(Ev(mSong, q)) /\ Ev(mSong, q).column = c
      BY DEF EndersIn
    <3> QED BY <2>2, <2>4, <3>1 DEF Ev
  <2>6. ASSUME NEW j \in Enders(k, c)
        PROVE  j \in EndersIn(mSong, seen, k, c)
    <3>1. PICK i \in DOMAIN mSong[j] : Ends(mSong[j][i]) /\ mSong[j][i].column = c
      BY <2>2
    <3>2. j \in 1 .. n /\ j > k
      BY <2>2
    <3>3. <<j, i>> \in seen
      BY <2>3, <3>2
    <3>4. <<j, i>>[1] = j /\ Ev(mSong, <<j, i>>) = mSong[j][i]
      BY DEF Ev
    <3> QED BY <3>1, <3>2, <3>3, <3>4 DEF EndersIn
  <2> QED BY <2>5, <2>6
<1>7. due = Due(mSong, seen)
  BY <1>2, <1>4, <1>5, <1>6 DEF Due, Untimed, Ev, Executed
<1>8. stops = StopsIn(queued)
  BY <1>2 DEF StopsIn
<1>9. \A d : stop(d) = <<Ev(mSong, d).pitch, StopTime(mSong, seen, at, d)>>
  BY <1>6 DEF StopTime, Ev
<1> HIDE DEF due, stops, stop
<1>10. PICK R : /\ Pairs(stops, due, R)
                /\ \A r \in R : /\ queued[r[1]].pitch = Ev(mSong, r[2]).pitch
                                /\ queued[r[1]].time = StopTime(mSong, seen, at, r[2])
  BY <1>3, <1>7, <1>8 DEF StopsMatch, StopPairs
<1>11. Cardinality(stops) = Cardinality(due)
  <2>1. IsFiniteSet(1 .. Len(queued)) /\ stops \subseteq 1 .. Len(queued)
    BY <1>2, <1>8, FS_Interval DEF StopsIn
  <2>2. IsFiniteSet(stops)
    BY <2>1, FS_Subset
  <2> QED BY <1>10, <2>2, PairsCount
<1>12. \A r \in R : <<queued[r[1]].pitch, queued[r[1]].time>> = stop(r[2])
  BY <1>9, <1>10
<1>13. {<<queued[i].pitch, queued[i].time>> : i \in stops} = {stop(d) : d \in due}
  <2>1. \A i \in stops : \E d \in due : <<queued[i].pitch, queued[i].time>> = stop(d)
    <3> SUFFICES ASSUME NEW i \in stops PROVE \E d \in due : <<queued[i].pitch, queued[i].time>> = stop(d)
      OBVIOUS
    <3>1. PICK d \in due : <<i, d>> \in R
      BY <1>10 DEF Pairs
    <3> QED BY <1>12, <3>1
  <2>2. \A d \in due : \E i \in stops : <<queued[i].pitch, queued[i].time>> = stop(d)
    <3> SUFFICES ASSUME NEW d \in due PROVE \E i \in stops : <<queued[i].pitch, queued[i].time>> = stop(d)
      OBVIOUS
    <3>1. PICK i \in stops : <<i, d>> \in R
      BY <1>10 DEF Pairs
    <3> QED BY <1>12, <3>1
  <2> QED BY <2>1, <2>2
<1> QED BY <1>11, <1>13 DEF due, stops, stop

(* The ends of notes that were queued are those that the song asks for, at *)
(* the times of its lines: with any number of subpatterns, waits, ramps    *)
(* and changes of tempo between a note and its end.  (Of songs without     *)
(* endless notes, as NotesLastUntilTheNextEvent says.)                     *)
THEOREM NotesEnd == Spec => []NotesLastUntilTheNextEvent
BY InitBooks, NextBooks, BooksAreRight, PTL DEF Spec
=============================================================================

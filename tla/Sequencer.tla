----------------------------- MODULE Sequencer -----------------------------
(***************************************************************************)
(* The sequencer: playNextLine (src/sequencer.cpp) executes the events of  *)
(* a line, stops the notes of the columns that get a new event, remembers  *)
(* what the next lines have to stop, and advances the time of the line.    *)
(* A subpattern is a sequencer of its own, which the event that plays it   *)
(* starts, goes on with and silences.                                      *)
(*                                                                         *)
(* The lines of a song are played in the order written: how loops change   *)
(* that order is module SongLoops.  One step is one call of playNextLine   *)
(* on the main song, with the calls it makes on the subpatterns.           *)
(***************************************************************************)
EXTENDS Integers, Sequences, SequencesExt, FiniteSetsExt, FiniteSets

CONSTANTS
  Songs,        (* the texts of the main song: sequences of lines          *)
  Sub,          (* the names of the subpatterns                            *)
  SubSong,      (* the text of each                                        *)
  MaxColumn,    (* the columns are 0 .. MaxColumn                          *)
  SampleRate,   (* frames in a second                                      *)
  StartTime,    (* the frame time, of a server that runs, when the         *)
                (* sequencer is made                                       *)
  Word,         (* the values of an unsigned, 2^32                         *)
  MaxRamp       (* bound: the messages of a ramp that does not end         *)

Main == "main"

Sequencers == {Main} \cup Sub

Columns == 0 .. MaxColumn

ASSUME SequencerAssumption ==
  /\ Main \notin Sub /\ IsFiniteSet(Sub)
  /\ SampleRate \in Nat \ {0}
  /\ MaxColumn \in Nat /\ Word \in Nat \ {0} /\ MaxRamp \in Nat
  /\ StartTime \in Nat /\ StartTime > MaxColumn + 1

(* The events the parser makes, with the fields it reads.                  *)
NoteEvents ==
  [kind : {"note"}, column : Columns, pitch : Nat, volume : Nat, delay : Nat, time : Nat,
   partDelay : Nat, partTime : Nat, partDiv : Nat, endless : BOOLEAN]

CtlEvents ==
  [kind : {"ctl"}, column : Columns, type : {"control", "pitchbend"}, controller : Nat,
   initValue : 0 .. Word - 1, value : 0 .. Word - 1, step : Nat, time : Nat, delay : Nat,
   delayDiv : Nat \ {0}]

PlayEvents == [kind : {"play"}, column : Columns, sub : Sub]

SkipEvents == [kind : {"skip"}, column : Columns]

(* The events of the commands, which stand alone in their line: a tempo of *)
(* 0 would be a division by it.                                            *)
Commands == [kind : {"tempo"}, n : Nat \ {0}] \cup [kind : {"bar", "wait"}, n : Nat]

VARIABLES
  mSong,
  sequencer,    (* for each sequencer the fields that change               *)
  queued,       (* history: the messages given to queueMidiEvent, in order *)
  at            (* history: when each line of the main song was executed   *)

vars == <<mSong, sequencer, queued, at>>

(* What a call reads and writes: the sequencers, the messages, the times.  *)
World == [seq |-> sequencer, out |-> queued, at |-> at]
-----------------------------------------------------------------------------
(* The places of a text: its lines, and the events of each.                *)
Places(text) == UNION {{k} \X DOMAIN text[k] : k \in DOMAIN text}

(* The notes and subpatterns of a column that are written before event i   *)
(* of line k.                                                              *)
NotesBefore(text, k, i, column) ==
  {p \in Places(text) : /\ p[1] < k \/ (p[1] = k /\ p[2] < i)
                        /\ text[p[1]][p[2]].kind \in {"note", "play"}
                        /\ text[p[1]][p[2]].column = column}

(* The last one, which the parser keeps for "|".                           *)
LastNote(text, k, i, column) ==
  LET before == NotesBefore(text, k, i, column)
      line == Max({p[1] : p \in before})
  IN  text[line][Max({p[2] : p \in {o \in before : o[1] = line}})]

(* What the parser lets a text be: every "|" has something to continue,    *)
(* and a command is alone in its line.                                     *)
IsText(text) ==
  /\ text \in Seq(Seq(NoteEvents \cup CtlEvents \cup PlayEvents \cup SkipEvents \cup Commands
                         \cup [kind : {"pedal"}, column : Columns]))
  /\ \A p \in Places(text) : LET e == text[p[1]][p[2]]
                             IN  /\ e.kind = "pedal" => NotesBefore(text, p[1], p[2], e.column) # {}
                                 /\ e \in Commands => Len(text[p[1]]) = 1

ASSUME SongsAssumption ==
  /\ \A text \in Songs : IsText(text)
  /\ \A sub \in Sub : IsText(SubSong[sub])

(* The song as it is read: every "|" knows the event it continues. *)
Read(text) ==
  [k \in DOMAIN text |->
    [i \in DOMAIN text[k] |->
      IF text[k][i].kind = "pedal"
      THEN [kind |-> "pedal", column |-> text[k][i].column,
            event |-> LastNote(text, k, i, text[k][i].column)]
      ELSE text[k][i]]]
-----------------------------------------------------------------------------
MsToNframes(ms) == (ms * SampleRate) \div 1000

(* The frames of one line. *)
LineTime(q) == MsToNframes(((60 * 1000) \div q.mTempo) \div q.mQuantSize)

(* The part num / e.partDiv of a line. *)
Part(q, e, num) ==
  IF e.partDiv # 0 THEN (LineTime(q) * num) \div e.partDiv ELSE 0

IsTimed(e) == ~e.endless /\ (e.time # 0 \/ e.partTime # 0)

(* What an event asks of playNextLine: whether the line takes time, whether *)
(* the previous notes of the column are stopped, and whether it has to be   *)
(* stopped later.                                                           *)
TakesTime(e) == e.kind \in {"note", "skip", "pedal", "ctl", "play"}

(* Mutated form of SilencesPrevious, where the pedal mutes too. *)
PedalSilences(e) == e.kind \in {"note", "skip", "ctl", "play", "pedal"}

SilencesPrevious(e) == e.kind \in {"note", "skip", "ctl", "play"}

NeedsStopping(e) ==
  \/ e.kind = "play"
  \/ e.kind = "note" /\ ~IsTimed(e)

Message(s, e, type, volume, time) ==
  [type |-> type, pitch |-> e.pitch, volume |-> volume, time |-> time,
   seq |-> s, column |-> e.column]

Queue(w, m) == [w EXCEPT !.out = Append(@, m)]

NoteStart(q, e) == q.mCurrentTime + MsToNframes(e.delay) + Part(q, e, e.partDelay)

(* The end of a note with a length. *)
NoteEnd(q, e) ==
  q.mCurrentTime + MsToNframes(e.delay) + MsToNframes(e.time)
  + Part(q, e, e.partDelay + e.partTime) - 2

(* A note with a length gets its NOTE_OFF at once. *)
ExecuteNote(w, s, e) ==
  LET q == w.seq[s]
      on == Queue(w, Message(s, e, "on", e.volume, NoteStart(q, e) + e.column))
      off == NoteEnd(q, e)
  IN  IF IsTimed(e) THEN Queue(on, Message(s, e, "off", e.volume, off)) ELSE on

StopNote(w, s, e) ==
  Queue(w, Message(s, e, "off", 0, w.seq[s].mCurrentTime - 1 - e.column))

(* abs((int)(a - b)) of unsigned values.  (At half of Word it is abs of    *)
(* INT_MIN, which is undefined, and here what the machine gives.)          *)
Distance(a, b) ==
  LET d == (a - b) % Word
  IN  IF 2 * d < Word THEN d ELSE Word - d

(* midiMsg: the two data bytes of a value. *)
MidiMsg(s, e, value, time) ==
  [type |-> e.type, time |-> time, seq |-> s, column |-> e.column,
   pitch  |-> IF e.type = "pitchbend" THEN value % 128 ELSE e.controller,
   volume |-> IF e.type = "pitchbend" THEN (value \div 128) % 128 ELSE value]

(* The value at place k of a ramp, in unsigned arithmetic. *)
RampValue(e, k) ==
  (e.initValue + (IF e.value > e.initValue THEN k * e.step ELSE 0 - k * e.step)) % Word

(* Mutated form of RampGoesOn, which compares for equality. *)
RampGoesOnUntilEqual(e, i) == i # e.value

RampGoesOn(e, i) == IF e.value > e.initValue THEN i < e.value ELSE i > e.value

(* The places of a ramp before the one that ends its loop. *)
RampPlaces(e) == {k \in 0 .. MaxRamp - 1 : \A j \in 0 .. k : RampGoesOn(e, RampValue(e, j))}

(* A control is one message, or a ramp from initValue to value. *)
IsRamp(e) == e.initValue # Word - 1 /\ e.time # 0 /\ e.value # e.initValue

ExecuteCtl(w, s, e) ==
  LET start == w.seq[s].mCurrentTime + (LineTime(w.seq[s]) * e.delay) \div e.delayDiv
      timeStep == ((LineTime(w.seq[s]) * e.time) \div e.delayDiv)
                    \div Distance(e.initValue, e.value)
      message(i) == MidiMsg(s, e, i, start + ((timeStep * Distance(e.initValue, i)) % Word))
      places == Cardinality(RampPlaces(e))
  IN  IF IsRamp(e)
      THEN [w EXCEPT !.out = @ \o [k \in 1 .. places + 1 |->
                                    message(IF k <= places THEN RampValue(e, k - 1) ELSE e.value)]]
      ELSE Queue(w, MidiMsg(s, e, e.value, start))

(* The active events, column by column. *)
ActiveNotes(q) == [c \in 1 .. MaxColumn + 1 |-> q.mActiveNotesVec[c - 1]]

(* A subpattern is another sequencer, whose events may play subpatterns:   *)
(* what s does to the world when it is asked for its next line, or to be   *)
(* silent, is nested[s].line and nested[s].silence, the Asked below.       *)

(* Mutated form of SetTime, which leaves the subpattern where it is. *)
KeepTime(w, s, sub) == w

(* The subpattern takes over the time of the sequencer that plays it. *)
SetTime(w, s, sub) ==
  [w EXCEPT !.seq[sub].mCurrentTime = w.seq[s].mCurrentTime]

(* SubpatternPlayEvent::sustain, and nothing for a note. *)
SustainEvent(nested, w, s, e) ==
  IF e.kind = "play" THEN nested[e.sub].line[SetTime(w, s, e.sub)] ELSE w

(* SubpatternPlayEvent::stop and NoteEvent::stop. *)
StopEvent(nested, w, s, e) ==
  IF e.kind = "play" THEN nested[e.sub].silence[SetTime(w, s, e.sub)]
  ELSE StopNote(w, s, e)

(* SubpatternPlayEvent::execute goes on from the start. *)
PlaySub(nested, w, s, e) ==
  SustainEvent(nested, [w EXCEPT !.seq[e.sub].mCurrentPos = 0], s, e)

(* Every turn continues every active note, and every note takes a line.    *)
ExecuteWait(nested, w, s, e) ==
  LET continue(v, a) == LET x == SustainEvent(nested, v, s, a)
                        IN  [x EXCEPT !.seq[s].mCurrentTime = @ + LineTime(x.seq[s])]
      column(v, events) == FoldLeft(continue, v, events)
      turn(v, columns) == FoldLeft(column, v, columns)
  IN  FoldLeft(turn, w, [i \in 1 .. e.n |-> ActiveNotes(w.seq[s])])

(* Event::execute of each kind of event. *)
Execute(nested, w, s, e) ==
  CASE e.kind = "note"  -> ExecuteNote(w, s, e)
    [] e.kind = "ctl"   -> ExecuteCtl(w, s, e)
    [] e.kind = "play"  -> PlaySub(nested, w, s, e)
    [] e.kind = "pedal" -> SustainEvent(nested, w, s, e.event)
    [] e.kind = "wait"  -> ExecuteWait(nested, w, s, e)
    [] e.kind = "tempo" -> [w EXCEPT !.seq[s].mTempo = e.n]
    [] e.kind = "bar" /\ e.n > 0 -> [w EXCEPT !.seq[s].mQuantSize = e.n]
    [] OTHER -> w
-----------------------------------------------------------------------------
NoActives == [c \in Columns |-> <<>>]

Forget(w, s, column) == [w EXCEPT !.seq[s].mActiveNotesVec[column] = <<>>]

(* Stop and forget the active events of a column. *)
SilenceColumn(nested, w, s, column) ==
  LET stop(v, e) == StopEvent(nested, v, s, e)
  IN  Forget(FoldLeft(stop, w, w.seq[s].mActiveNotesVec[column]), s, column)

(* Sequencer::silence. *)
Silence(nested, w, s) ==
  LET column(v, c) == SilenceColumn(nested, v, s, c)
  IN  FoldLeft(column, w, [c \in 1 .. MaxColumn + 1 |-> c - 1])

(* Mutated form of Remember, with one column for all. *)
RememberInFirst(next, e) == [next EXCEPT ![0] = Append(@, e)]

Remember(next, e) == [next EXCEPT ![e.column] = Append(@, e)]

(* One event of a line: a is [w, next, advance], where next are the events *)
(* that the next lines have to stop.                                       *)
PlayEvent(nested, a, s, e) ==
  LET done == Execute(nested, a.w, s, e)
  IN  [w       |-> IF SilencesPrevious(e) THEN SilenceColumn(nested, done, s, e.column) ELSE done,
       next    |-> IF NeedsStopping(e) THEN Remember(a.next, e) ELSE a.next,
       advance |-> a.advance \/ TakesTime(e)]

(* Mutated form of Merged, where the new events replace the old ones. *)
MergedOver(actives, next) == next

Merged(actives, next) == [c \in Columns |-> actives[c] \o next[c]]

BeginLine(a, s) ==
  [a EXCEPT !.w.at = IF s = Main THEN Append(@, a.w.seq[s].mCurrentTime) ELSE @]

(* The merge of the active events, and the time that the line takes.       *)
EndLine(a, s, k) ==
  LET q == a.w.seq[s]
  IN  [a EXCEPT !.w.seq[s] =
         [q EXCEPT !.mCurrentPos = k + 1,
                   !.mActiveNotesVec = Merged(@, a.next),
                   !.mCurrentTime = IF a.advance THEN @ + LineTime(q) ELSE @]]

(* The line at position k, 0 the first. *)
PlayLine(nested, song, a, s, k) ==
  LET event(x, e) == PlayEvent(nested, x, s, e)
  IN  EndLine(FoldLeft(event, BeginLine(a, s), song[k + 1]), s, k)

(* Sequencer::playNextLine: lines until one takes time or the song is over. *)
PlayNextLine(nested, song, w, s) ==
  LET first == w.seq[s].mCurrentPos
      line(a, k) == IF a.advance THEN a ELSE PlayLine(nested, song, a, s, k)
      start == [w |-> w, next |-> NoActives, advance |-> FALSE]
  IN  FoldLeft(line, start, [i \in 1 .. Len(song) - first |-> first + i - 1]).w

(* The active events are notes and subpatterns, each in its own column.    *)
ActiveLists ==
  {a \in [Columns -> Seq({e \in NoteEvents \cup PlayEvents : NeedsStopping(e)})] :
     \A c \in Columns : \A i \in DOMAIN a[c] : a[c][i].column = c}

States ==
  [mCurrentPos : Nat, mCurrentTime : {t \in Nat : t >= StartTime},
   mTempo : Nat \ {0}, mQuantSize : Nat \ {0}, mActiveNotesVec : ActiveLists]

Messages ==
  [type : {"on", "off", "control", "pitchbend"}, pitch : Nat, volume : Nat, time : Nat,
   seq : Sequencers, column : Columns]

(* The worlds a call may meet. *)
Worlds == [seq : [Sequencers -> States], out : Seq(Messages), at : Seq(Nat)]

(* What the subpatterns do that are asked for their next line, or to be    *)
(* silent, when those they play do what nested says.                       *)
Deeper(nested, depth) ==
  [s \in Sub |-> [line    |-> [w \in Worlds |-> PlayNextLine(nested, Read(SubSong[s]), w, s)],
                  silence |-> [w \in Worlds |-> Silence(nested, w, s)]]]

(* No subpattern plays itself: there are no more of them in one another    *)
(* than there are.                                                         *)
Asked ==
  FoldLeft(Deeper, [s \in Sub |-> [line    |-> [w \in Worlds |-> w],
                                   silence |-> [w \in Worlds |-> w]]],
           [depth \in 1 .. Cardinality(Sub) |-> depth])
-----------------------------------------------------------------------------
Init ==
  /\ mSong \in {Read(text) : text \in Songs}
  /\ sequencer = [s \in Sequencers |->
                   [mCurrentPos |-> 0, mCurrentTime |-> StartTime,
                    mTempo |-> 100, mQuantSize |-> 4,
                    mActiveNotesVec |-> NoActives]]
  /\ queued = <<>> /\ at = <<>>

(* play() asks for the next line while there is one. *)
PlayMain ==
  /\ sequencer[Main].mCurrentPos < Len(mSong)
  /\ LET w == PlayNextLine(Asked, mSong, World, Main)
     IN  sequencer' = w.seq /\ queued' = w.out /\ at' = w.at
  /\ UNCHANGED mSong

(* The song is over. *)
SongOver ==
  /\ sequencer[Main].mCurrentPos >= Len(mSong)
  /\ UNCHANGED vars

Next == PlayMain \/ SongOver

Spec == Init /\ [][Next]_vars
-----------------------------------------------------------------------------
(* The types of the variables. *)
TypeOK == World \in Worlds /\ Len(at) = sequencer[Main].mCurrentPos

(* The lines of the main song that have been executed. *)
Executed == DOMAIN at

Has(line, P(_)) == \E i \in DOMAIN line : P(line[i])

(* An event that ends what sounds in its column: any but "|" that has one. *)
Ends(e) == e.kind \in {"note", "skip", "ctl", "play"}

(* The lines after k whose event in column c ends what sounds there.       *)
Enders(k, c) ==
  {j \in Executed : j > k /\ Has(mSong[j], LAMBDA e :
                              Ends(e) /\ e.column = c)}

(* No note is endless: noteevent.h promises those no NOTE_OFF, and the next *)
(* event of their column sends one all the same.  A note with a length has *)
(* a volume: the end of one without looks like a stop.                     *)
NotesAreOrdinary ==
  \A p \in Places(mSong) :
    LET e == mSong[p[1]][p[2]]
    IN  e.kind = "note" => ~e.endless /\ (IsTimed(e) => e.volume # 0)

(* A note of the main song without a length of its own sounds until the    *)
(* next line with an event in its column that is not "|": the stops that   *)
(* were queued are those, each once, a frame and the column before that    *)
(* line.  The active lists are not mentioned, only the song.               *)
NotesLastUntilTheNextEvent ==
  NotesAreOrdinary =>
    LET due == {d \in Places(mSong) : LET e == mSong[d[1]][d[2]]
                                     IN  /\ d[1] \in Executed /\ e.kind = "note"
                                         /\ ~IsTimed(e) /\ Enders(d[1], e.column) # {}}
        stops == {i \in DOMAIN queued :
                    /\ queued[i].type = "off" /\ queued[i].volume = 0
                    /\ queued[i].seq = Main}
        stop(d) == LET e == mSong[d[1]][d[2]]
                   IN  <<e.pitch, at[Min(Enders(d[1], e.column))] - 1 - e.column>>
    IN  /\ {<<queued[i].pitch, queued[i].time>> : i \in stops} = {stop(d) : d \in due}
        /\ Cardinality(stops) = Cardinality(due)

(* A pitch sounds when no NOTE_OFF is as late as its last NOTE_ON. *)
Times(pitch, type) ==
  {queued[i].time : i \in {j \in DOMAIN queued :
                             queued[j].pitch = pitch /\ queued[j].type = type}}

Sounding ==
  {p \in {queued[i].pitch : i \in DOMAIN queued} :
     \E t \in Times(p, "on") : \A u \in Times(p, "on") \cup Times(p, "off") : u <= t /\
                                 (u \in Times(p, "off") => u < t)}

Active(s) ==
  UNION {Range(sequencer[s].mActiveNotesVec[c]) : c \in Columns}

(* The main song, the subpatterns it has active, those these have active,  *)
(* and so on.                                                              *)
Reached ==
  LET subs(s) == {e.sub : e \in {f \in Active(s) : f.kind = "play"}}
      further(set, i) == set \cup UNION {subs(s) : s \in set}
  IN  FoldLeft(further, {Main}, [i \in 1 .. Cardinality(Sub) |-> i])

(* No note hangs: whatever sounds when a line has been played is an active *)
(* note of the main song, or of a subpattern that is itself active, so     *)
(* that a later line still stops it.                                       *)
NoHangingNote ==
  \A p \in Sounding : \E s \in Reached : \E e \in Active(s) : e.kind = "note" /\ e.pitch = p

(* The lines of a subpattern that take time, which are its turns. *)
Turns(sub) == SelectSeq(Read(SubSong[sub]), LAMBDA line : Has(line, TakesTime))

(* The event of line k that plays or continues the subpattern. *)
Drives(e, sub) ==
  \/ e.kind = "play" /\ e.sub = sub
  \/ e.kind = "pedal" /\ e.event.kind = "play" /\ e.event.sub = sub

Driving(k, sub) == Has(mSong[k], LAMBDA e : Drives(e, sub))

Starting(k, sub) == Has(mSong[k], LAMBDA e : e.kind = "play" /\ e.sub = sub)

(* Which turn of the subpattern line k plays, 1 the first. *)
Turn(k, sub) ==
  LET from == Max({j \in 1 .. k : Starting(j, sub)})
  IN  Cardinality({j \in from .. k : Driving(j, sub)})

(* The song has no line of this kind. *)
Without(kind) ==
  \A k \in DOMAIN mSong : ~Has(mSong[k], LAMBDA e : e.kind = kind)

(* A subpattern keeps in step with the song that plays it: each line that  *)
(* plays or continues it plays its next turn, at the time of that line,    *)
(* and nothing else of it is ever played.  (Of songs without "wait", and   *)
(* subpatterns of the main song.)                                          *)
SubpatternInStep ==
  Without("wait") =>
    \A sub \in {d \in Sub : \E k \in Executed : Driving(k, d)} :
      {<<queued[i].pitch, queued[i].time>> : i \in
         {j \in DOMAIN queued : queued[j].seq = sub /\ queued[j].type = "on"}}
      = UNION {{<<e.pitch, at[k] + e.column>> : e \in
                  {f \in Range(Turns(sub)[Turn(k, sub)]) : f.kind = "note"}} :
               k \in {j \in Executed : Driving(j, sub)
                                       /\ Turn(j, sub) <= Len(Turns(sub))}}

(* The ramps of the main song that have begun: the line and the event. *)
Ramps ==
  {r \in UNION {{k} \X Range(mSong[k]) : k \in Executed} : r[2].kind = "ctl" /\ IsRamp(r[2])}

(* The messages of a control: value and time. *)
Controls(e) ==
  {<<IF e.type = "pitchbend" THEN queued[i].pitch + 128 * queued[i].volume ELSE queued[i].volume,
     queued[i].time>> : i \in
     {j \in DOMAIN queued : /\ queued[j].seq = Main /\ queued[j].type = e.type
                            /\ e.type = "control" => queued[j].pitch = e.controller}}

(* The time of a ramp in line k, when the next line tells how long k took. *)
Within(k, e, time) ==
  k + 1 \in Executed =>
    (time - at[k]) * e.delayDiv <= (at[k + 1] - at[k]) * (e.delay + e.time)

(* "Change gradually from 0 to 127 within 3/2 of current note time": the   *)
(* messages of a ramp have its first value, its last, those a number of    *)
(* steps from the first, and no other; each is later than those nearer to  *)
(* the first, and none is before its line or behind the time of the ramp.  *)
RampsAreGradual ==
  \A r \in Ramps :
    LET e == r[2]
        values == {c[1] : c \in Controls(e)}
        way(v) == Max({v, e.initValue}) - Min({v, e.initValue})
    IN  /\ values = {e.value} \cup {v \in Min({e.initValue, e.value}) .. Max({e.initValue, e.value}) :
                                    way(v) % e.step = 0}
        /\ \A v, u \in values : way(v) < way(u) =>
             \E c, d \in Controls(e) : c[1] = v /\ d[1] = u /\ at[r[1]] <= c[2] /\ c[2] < d[2]
        /\ \A c \in Controls(e) : \E k \in Executed :
             <<k, e>> \in Ramps /\ at[k] <= c[2] /\ Within(k, e, c[2])
=============================================================================

---------------------------- MODULE MCSequencer ----------------------------
(***************************************************************************)
(* Songs for module Sequencer: every text of at most MaxLines lines taken  *)
(* from a list of lines, with a subpattern of three turns in column 0 that *)
(* plays a subpattern of its own.  A second has 1000 frames; tempo 100 and *)
(* 4/4 give a line of 150 frames.                                          *)
(***************************************************************************)
EXTENDS Sequencer

CONSTANTS MaxLines, Text

Note(column, pitch) ==
  [kind |-> "note", column |-> column, pitch |-> pitch, volume |-> 64,
   delay |-> 0, time |-> 0, partDelay |-> 0, partTime |-> 0, partDiv |-> 1,
   endless |-> FALSE]

Timed(column, pitch) ==
  [Note(column, pitch) EXCEPT !.delay = 10, !.time = 20, !.partTime = 1, !.partDiv = 3]

Endless(column, pitch) == [Timed(column, pitch) EXCEPT !.endless = TRUE]

Skip(column) == [kind |-> "skip", column |-> column]
Pedal(column) == [kind |-> "pedal", column |-> column]
Ctl(column, controller, from, to, step, time) ==
  [kind |-> "ctl", column |-> column, type |-> "control", controller |-> controller,
   initValue |-> from, value |-> to, step |-> step, time |-> time, delay |-> 0, delayDiv |-> 2]
Bend(column, from, to, step, time) ==
  [Ctl(column, 0, from, to, step, time) EXCEPT !.type = "pitchbend", !.delay = 1]
Play(column) == [kind |-> "play", column |-> column, sub |-> "S"]
Tempo(n) == [kind |-> "tempo", n |-> n]
Bar(n) == [kind |-> "bar", n |-> n]
Wait(n) == [kind |-> "wait", n |-> n]

MCSub == {"S", "T"}

(* define S / define T / f / g / end                                       *)
(*          d e / tempo 50 / . T / (f d) | / end                           *)
MCSubSong ==
  [s \in MCSub |->
     IF s = "T" THEN <<<<Note(0, 77)>>, <<Note(0, 79)>>>>
     ELSE <<<<Note(0, 72), Note(1, 74)>>, <<Tempo(50)>>,
            <<Skip(0), [Play(1) EXCEPT !.sub = "T"]>>,
            <<Note(0, 75), Note(0, 72), Pedal(1)>>>>]

(* What the lines of the main song may be. *)
SongLines ==
  {<<Note(0, 60)>>, <<Note(0, 62), Note(1, 60)>>, <<Note(0, 60), Note(0, 64)>>,
   <<Endless(0, 62), Pedal(1)>>, <<Timed(0, 65), Skip(1)>>,
   <<Pedal(0)>>, <<Pedal(0), Note(1, 60)>>, <<Skip(0), Pedal(1)>>,
   <<Ctl(0, 7, 0, 10, 3, 3)>>, <<Ctl(0, 4, 9, 9, 1, 3), Bend(1, 300, 200, 50, 3)>>, <<Play(0)>>, <<Play(0), Note(1, 64)>>,
   <<Tempo(200)>>, <<Bar(3)>>, <<Wait(2)>>}

(* $7=10..0..3:3/2, a step that does not divide the way *)
RampLines == {<<Note(0, 60)>>, <<Ctl(0, 7, 10, 0, 3, 3)>>, <<Ctl(0, 4, 0, 10, 3, 3)>>, <<Tempo(200)>>}

Lines == IF Text = "ramps" THEN RampLines ELSE SongLines

Texts == UNION {[1 .. n -> Lines] : n \in 1 .. MaxLines}

(* What the event in column c of the last line before k with one is. *)
Before(text, k, c) ==
  LET lines == {j \in 1 .. k - 1 : Has(text[j], LAMBDA e : e.kind # "tempo" /\
                  e.kind # "wait" /\ e.kind # "bar" /\ e.kind # "pedal" /\ e.column = c)}
  IN  IF lines = {} THEN "none"
      ELSE (CHOOSE e \in Range(text[Max(lines)]) : e.column = c).kind

(* The parser stops with an assertion at a "|" with nothing to continue. *)
Readable(text) ==
  \A k \in DOMAIN text : \A i \in DOMAIN text[k] : text[k][i].kind = "pedal" =>
    \E p \in NotesBefore(text, k, i, text[k][i].column) : p[1] < k

(* A subpattern is not started again while it plays. *)
NoReplay(text) ==
  \A k \in DOMAIN text : text[k][1].kind = "play" => Before(text, k, 0) # "play"

(* A subpattern that was stopped is not continued. *)
NoRevival(text) ==
  \A k \in DOMAIN text : text[k][1] = Pedal(0) =>
    LET last == LastNote(text, k, 1, 0)
    IN  last.kind = "play" => Before(text, k, 0) = "play"

MCSongs ==
  LET readable == {text \in Texts : Readable(text)}
  IN  CASE Text = "plain"   -> {t \in readable : NoReplay(t) /\ NoRevival(t)}
        [] Text = "replay"  -> {t \in readable : NoRevival(t)}
        [] OTHER            -> readable
=============================================================================

------------------------------- MODULE Parser -------------------------------
(***************************************************************************)
(* How the text of a song becomes the songs that the sequencers play:      *)
(* Sequencer::readFromStream (src/sequencer.cpp), Parser::parseLine        *)
(* (src/parser.cpp) and the constructors that parse a note and a control.  *)
(* One step reads one line.  A definition of a subpattern is read by a     *)
(* sequencer and a parser of its own, to its "end".                        *)
(*                                                                         *)
(* A line is a record with what kind of line it is, a word of a pattern    *)
(* a record [is, base, tail, open, close, ...]: is tells what it is as it  *)
(* stands ("note", "rest" for ".", "pedal" for "|", "default" for "*",     *)
(* "last" for "^", "ctl", "comment" for what begins with ";", "bad" for a  *)
(* word that is none of these), base is its text up to the first of        *)
(* !%@/\#., tail what follows, and open and close are its parentheses.     *)
(* What the code never initialises is a value of junk.                     *)
(*                                                                         *)
(* Of a note the pitch and the volume are followed, of a control the       *)
(* column.  A modifier of a note has its number, a word that is an alias   *)
(* of another has no parentheses, and no name ends with one.               *)
(***************************************************************************)
EXTENDS Integers, Sequences, SequencesExt, FiniteSetsExt, Functions

CONSTANTS
  Line,         (* what each line of the input may be: a sequence of sets  *)
  MaxColumn,    (* the columns are 0 .. MaxColumn                          *)
  Word,         (* the values of an unsigned, 2^32                         *)
  NoPort,       (* the NULL port                                           *)
  Junk          (* what memory that is never initialised may hold: records *)
                (* [column, channel]                                       *)

MaxLines == Len(Line)

Columns == 0 .. MaxColumn

(* (unsigned)-1, the volume of a note that has none of its own, and the    *)
(* number of repetitions of a loop without one.                            *)
Unset == Word - 1

NoEvent == [kind |-> "null"]

NoName == ""

ASSUME ParserAssumption ==
  /\ MaxColumn \in Nat /\ Word \in Nat \ {0}
  /\ \A j \in Junk : j.column \in Nat /\ j.channel \in Nat

NoTail ==
  [empty |-> TRUE, alter |-> 0, octave |-> Unset, natural |-> FALSE, mods |-> [name \in {} |-> 0]]

(* A word has a kind, and the fields of a note, whatever it is: bare if it *)
(* is a letter and nothing more.  Its tail is empty or adds a sharp (alter *)
(* is 1, or 0 when a flat follows), an octave and modifiers.               *)
IsWord(w) ==
  /\ {"is", "base", "tail", "open", "close", "mods", "class", "octave", "natural", "bare"}
       \subseteq DOMAIN w
  /\ w.is \in {"note", "rest", "pedal", "default", "last", "ctl", "comment", "bad"}
  /\ w.class \in Nat /\ w.octave \in Nat
  /\ w.tail.alter \in {0, 1} /\ w.tail.octave \in Nat
  /\ w.tail.empty => w.tail = NoTail

IsWords(words) == words \in Seq(Range(words)) /\ \A w \in Range(words) : IsWord(w)

(* A line has a kind, and what follows the name of a directive: a name is  *)
(* read with >> and not empty, the words of a pattern fit into the columns.*)
IsLine(line) ==
  CASE line.is = "words" -> IsWords(line.words) /\ Len(line.words) <= MaxColumn + 1
    [] line.is = "bar" ->
         \A signs \in {line.signs, line.comment} :
           /\ signs \in Seq(Range(signs))
           /\ \A sign \in Range(signs) : sign.class \in Nat /\ sign.mod \in {-1, 0, 1}
    [] line.is = "default" -> IsWord(line.word) /\ ~line.word.open
    [] line.is = "alias" ->
         line.name # NoName /\ IsWord(line.word) /\ ~line.word.open /\ ~line.word.close
    [] line.is \in {"define", "unalias"} -> line.name # NoName
    [] line.is = "volume" -> line.n \in 0 .. Unset
    [] line.is = "transpose" -> line.n \in Int
    [] line.is = "port" -> line.first \in Nat \ {0} /\ line.last \in Nat
    [] line.is \in {"end", "loop", "endloop", "tempo", "wait"} -> TRUE
    [] OTHER -> FALSE

ASSUME LineAssumption ==
  Line \in Seq(Range(Line)) /\ \A lines \in Range(Line) : \A line \in lines : IsLine(line)

VARIABLES
  text,         (* history: the lines read to their end                    *)
  state,        (* "reading", "ended" at the end of the input, "done", or  *)
                (* "aborted" by an assertion                               *)
  open,         (* the sequencers that are reading: [id, name], the        *)
                (* innermost last; id is the number of the line of its     *)
                (* define, 0 for the main song                             *)
  parser,       (* for each sequencer its song, and the fields of its      *)
                (* parser                                                  *)
  junk          (* what memory holds that is never initialised             *)

vars == <<text, state, open, parser, junk>>

Empty == [name \in {} |-> 0]

(* A map g with the entries of f put over its own: f @@ g of module TLC,   *)
(* which the proofs cannot look into.                                      *)
Overlaid(f, g) ==
  [x \in DOMAIN f \cup DOMAIN g |-> IF x \in DOMAIN f THEN f[x] ELSE g[x]]

Put(map, name, value) == Overlaid([n \in {name} |-> value], map)

(* A sequencer that has just been made, with its parser. *)
Fresh ==
  [mSong |-> <<>>, mSubSeqMap |-> Empty,
   mLastNote |-> [c \in Columns |-> NoEvent],
   mDfltNote |-> [pitch |-> 0, volume |-> 0],
   mVolume |-> 64, mTranspose |-> 0, mSigns |-> [class \in 0 .. 11 |-> 0],
   mAliases |-> Empty, mColumnMap |-> <<>>]
-----------------------------------------------------------------------------
(* The words of a pattern. *)

(* A modifier of a word, or what the constructor sets before it parses. *)
Mod(w, name, default) == IF name \in DOMAIN w.mods THEN w.mods[name] ELSE default

(* The constructor of a note: the fourth octave if none is given. *)
NoteEvent(w, column) ==
  [kind |-> "note", column |-> column,
   pitch   |-> w.class + 12 * ((IF w.octave = Unset THEN 4 ELSE w.octave) + 1),
   volume  |-> Mod(w, "volume", Unset),
   natural |-> w.natural]

MidiCtlEvent(w, column) == [kind |-> "ctl", column |-> column]

(* NoteEvent::clone copies the column that nobody has set. *)
CloneDefault(q) ==
  [kind |-> "note", column |-> junk.column, pitch |-> q.mDfltNote.pitch,
   volume |-> q.mDfltNote.volume, natural |-> FALSE]

(* Mutated form of Signed, which applies the signs after transposition. *)
SignedLate(q, n) ==
  [n EXCEPT !.pitch = (@ + (IF n.natural THEN 0 ELSE q.mSigns[(@ + q.mTranspose) % 12])
                         + q.mTranspose) % Word]

(* The signs of the bar, then the transposition. *)
Signed(q, n) ==
  [n EXCEPT !.pitch = (@ + (IF n.natural THEN 0 ELSE q.mSigns[@ % 12]) + q.mTranspose) % Word]

Voiced(q, n) == [n EXCEPT !.volume = IF @ = Unset THEN q.mVolume ELSE @]

(* "(c)": the ")" stays at the end of the word.  A note and a control do   *)
(* not mind it there; in "(c!40)" it is behind the base.                   *)
Seen(w) ==
  IF w.open /\ w.close /\ w.tail.empty
  THEN [w EXCEPT !.base = NoName, !.is = IF @ \in {"note", "ctl"} THEN @ ELSE "bad"]
  ELSE w

(* The word r with a tail behind it.  A sharp and an octave are read only  *)
(* behind a letter, modifiers always; "." and a tail are no rest any more. *)
Joined(r, tail) ==
  [r EXCEPT !.is      = IF @ \in {"note", "ctl"} \/ (tail.empty /\ @ # "comment")
                        THEN @ ELSE "bad",
            !.class   = IF r.bare THEN @ + tail.alter ELSE @,
            !.octave  = IF r.bare THEN tail.octave ELSE @,
            !.natural = IF r.bare THEN tail.natural ELSE @,
            !.mods    = Overlaid(tail.mods, @)]

(* The alias takes the place of the base; the tail stays behind it. *)
Replaced(q, w) ==
  IF w.base \in DOMAIN q.mAliases THEN Joined(q.mAliases[w.base], w.tail) ELSE w

Push(a, e) == [a EXCEPT !.events = Append(@, e)]

(* Mutated form of PushNew, which forgets a subpattern. *)
PushNewNote(a, e) ==
  [Push(a, e) EXCEPT !.q.mLastNote[a.column] = IF e.kind = "note" THEN e ELSE @]

(* Mutated form of PushNew, with one last note for all columns. *)
PushNewFirst(a, e) == [Push(a, e) EXCEPT !.q.mLastNote[0] = e]

(* An event that "|" and "^" of its column refer to from now on. *)
PushNew(a, e) == [Push(a, e) EXCEPT !.q.mLastNote[a.column] = e]

(* What a word adds to the line: a is the parser, the events of the line,  *)
(* the column, whether a group is open, and what stopped the line.  A      *)
(* subpattern is looked up by the word as written, not by its alias.       *)
ParseChunk(a, base, w) ==
  LET last == a.q.mLastNote[a.column]
  IN  CASE base \in DOMAIN a.q.mSubSeqMap ->
             PushNew(a, [kind |-> "play", column |-> a.column, sub |-> a.q.mSubSeqMap[base]])
        [] base \notin DOMAIN a.q.mSubSeqMap ->
             CASE w.is = "rest"    -> Push(a, [kind |-> "skip", column |-> a.column])
               [] w.is = "pedal"   -> IF last = NoEvent THEN [a EXCEPT !.stop = "assert"]
                                      ELSE Push(a, [kind |-> "pedal", column |-> a.column,
                                                    event |-> last])
               [] w.is = "default" -> Push(a, CloneDefault(a.q))
               [] w.is = "last"    -> Push(a, last)
               [] w.is = "ctl"     -> Push(a, MidiCtlEvent(w, a.column))
               [] w.is = "note"    -> PushNew(a, Signed(a.q, Voiced(a.q, NoteEvent(w, a.column))))
               [] OTHER            -> [a EXCEPT !.stop = "throw"]

(* Mutated form of Grouped, where ")" opens the group again. *)
GroupedForEver(grouped, w) == w.open \/ grouped

Grouped(grouped, w) == IF w.open THEN TRUE ELSE IF w.close THEN FALSE ELSE grouped

ParseWord(a, word) ==
  IF a.stop # "no" THEN a
  ELSE IF word.is = "comment" THEN [a EXCEPT !.stop = "comment"]
  ELSE LET w == Seen(word)
           grouped == Grouped(a.grouped, w)
           b == ParseChunk(a, w.base, Replaced(a.q, w))
       IN  [b EXCEPT !.grouped = grouped, !.column = IF grouped THEN @ ELSE @ + 1]
-----------------------------------------------------------------------------
(* The other lines: what a line does to the parser q, the events it gives, *)
(* and whether it throws.                                                  *)

Gives(q, events) == [q |-> q, events |-> events, stop |-> "no"]

(* The words behind the size of a bar: a sign, or a word that begins like  *)
(* one and is no note, which throws.  The words of a comment are read      *)
(* like all others.                                                        *)
ParseSign(a, sign) ==
  IF a.stop # "no" THEN a
  ELSE IF sign.class = Unset THEN [a EXCEPT !.stop = "throw"]
  ELSE [a EXCEPT !.q.mSigns[sign.class % 12] = sign.mod]

ParseBar(q, line) ==
  FoldLeft(ParseSign, Gives(q, <<[kind |-> "bar", n |-> line.n]>>), line.signs \o line.comment)

(* Mutated form of Widened, which forgets the columns there are. *)
WidenedAnew(map, n) == [c \in 1 .. n |-> [channel |-> 0, port |-> NoPort]]

(* The map of the columns, with at least n of them. *)
Widened(map, n) ==
  map \o [c \in 1 .. n - Len(map) |-> [channel |-> 0, port |-> NoPort]]

(* port: the columns first .. last get the port; a channel that is not     *)
(* given is not initialised.                                               *)
ParsePort(q, line) ==
  LET given == [channel |-> IF line.channel = Unset THEN junk.channel ELSE line.channel,
                port |-> line.port]
      map == Widened(q.mColumnMap, line.last)
  IN  [q EXCEPT !.mColumnMap = [c \in DOMAIN map |-> IF c \in line.first .. line.last
                                                     THEN given ELSE map[c]]]

GetPortMap(q, column) ==
  IF column >= Len(q.mColumnMap) THEN [channel |-> 0, port |-> NoPort]
  ELSE q.mColumnMap[column + 1]

ParsePattern(q, line) ==
  FoldLeft(ParseWord,
           [q |-> q, events |-> <<>>, column |-> 0, grouped |-> FALSE, stop |-> "no"],
           line.words)

ParseDefault(q, w) ==
  LET n == NoteEvent(w, 0)
  IN  IF w.is # "note" THEN [Gives(q, <<>>) EXCEPT !.stop = "throw"]
      ELSE Gives([q EXCEPT !.mDfltNote = [pitch |-> n.pitch, volume |-> n.volume]], <<>>)

ParseLine(q, line) ==
  CASE line.is = "bar"       -> ParseBar(q, line)
    [] line.is = "define"    -> Gives(q, <<[kind |-> "define", name |-> line.name]>>)
    [] line.is = "end"       -> Gives(q, <<[kind |-> "end"]>>)
    [] line.is = "default"   -> ParseDefault(q, line.word)
    [] line.is = "volume"    -> Gives([q EXCEPT !.mVolume = line.n], <<>>)
    [] line.is = "transpose" -> Gives([q EXCEPT !.mTranspose = line.n], <<>>)
    [] line.is = "port"      -> Gives(ParsePort(q, line), <<>>)
    [] line.is = "alias"     -> Gives([q EXCEPT !.mAliases = Put(@, line.name, line.word)], <<>>)
    [] line.is = "unalias"   -> Gives([q EXCEPT !.mAliases =
                                         Restrict(@, DOMAIN @ \ {line.name})], <<>>)
    [] line.is = "loop"      -> Gives(q, <<[kind |-> "loop", count |-> line.n]>>)
    [] line.is = "endloop"   -> Gives(q, <<[kind |-> "endloop"]>>)
    [] line.is \in {"tempo", "wait"} -> Gives(q, <<[kind |-> line.is, n |-> line.n]>>)
    [] line.is = "words"     -> ParsePattern(q, line)
-----------------------------------------------------------------------------
Init ==
  /\ text = <<>> /\ state = "reading"
  /\ open = <<[id |-> 0, name |-> NoName]>>
  /\ parser = [s \in {0} |-> Fresh]
  /\ junk \in Junk

Current == Last(open).id

Parsed(line) == ParseLine(parser[Current], line)

(* What the next line may be. *)
NextLines == IF Len(text) < MaxLines THEN Line[Len(text) + 1] ELSE {}

ReadLine(line) ==
  /\ state = "reading"
  /\ text' = Append(text, line)
  /\ UNCHANGED junk

(* A line that gives no events, or throws, which leaves what it has done   *)
(* to the parser so far.                                                   *)
KeepNothing(line) ==
  /\ ReadLine(line)
  /\ LET r == Parsed(line)
     IN  /\ r.stop = "throw" \/ (r.stop # "assert" /\ r.events = <<>>)
         /\ parser' = [parser EXCEPT ![Current] = r.q]
  /\ UNCHANGED <<state, open>>

(* The assertion of PedalEvent stops the program in the middle of a line. *)
Abort(line) ==
  /\ state = "reading"
  /\ Parsed(line).stop = "assert"
  /\ state' = "aborted"
  /\ UNCHANGED <<text, open, parser, junk>>

KeepsEvents(r) == r.stop \in {"no", "comment"} /\ r.events # <<>>

(* Mutated form of FreshFor, which goes on with the parser there is. *)
FreshForInherits(q) == [q EXCEPT !.mSong = <<>>]

(* The sequencer of a definition begins with nothing of the one around it. *)
FreshFor(q) == Fresh

(* define: a new sequencer reads on. *)
Define(line) ==
  /\ ReadLine(line)
  /\ LET r == Parsed(line)
     IN  /\ KeepsEvents(r) /\ r.events[1].kind = "define"
         /\ open' = Append(open, [id |-> Len(text'), name |-> line.name])
         /\ parser' = Put(parser, Len(text'), FreshFor(r.q))
  /\ UNCHANGED state

(* Mutated form of Bound, where the first definition of a name stays. *)
BoundOnce(map, name, id) == Overlaid(map, Put(Empty, name, id))

(* The map of the subpatterns, with the name of a new one. *)
Bound(map, name, id) == Put(map, name, id)

(* The innermost sequencer has read its song; the one around it knows it   *)
(* by its name from now on.                                                *)
Return ==
  /\ open' = Front(open)
  /\ IF Len(open) = 1 THEN UNCHANGED parser
     ELSE LET around == open[Len(open) - 1].id
          IN  parser' = [parser EXCEPT ![around].mSubSeqMap = Bound(@, Last(open).name, Current)]

(* end: in the main song it ends the reading. *)
End(line) ==
  /\ ReadLine(line)
  /\ LET r == Parsed(line) IN KeepsEvents(r) /\ r.events[1].kind = "end"
  /\ Return
  /\ state' = IF Len(open) = 1 THEN "done" ELSE "reading"

(* Any other line is a line of the song. *)
Store(line) ==
  /\ ReadLine(line)
  /\ LET r == Parsed(line)
     IN  /\ KeepsEvents(r) /\ r.events[1].kind \notin {"define", "end"}
         /\ parser' = [parser EXCEPT ![Current] = [r.q EXCEPT !.mSong = Append(@, r.events)]]
  /\ UNCHANGED <<state, open>>

(* The end of the input ends every definition that is open. *)
EndOfInput ==
  /\ state \in {"reading", "ended"}
  /\ Return
  /\ state' = IF Len(open) = 1 THEN "done" ELSE "ended"
  /\ UNCHANGED <<text, junk>>

Over == state \in {"done", "aborted"} /\ UNCHANGED vars

Next ==
  \/ \E line \in NextLines : KeepNothing(line)
  \/ \E line \in NextLines : Abort(line)
  \/ \E line \in NextLines : Define(line)
  \/ \E line \in NextLines : End(line)
  \/ \E line \in NextLines : Store(line)
  \/ EndOfInput
  \/ Over

Spec == Init /\ [][Next]_vars
=============================================================================

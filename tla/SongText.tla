------------------------------ MODULE SongText ------------------------------
(***************************************************************************)
(* What src/README says the text of a song means, read off the text as a   *)
(* whole, and the properties that compare with it what the parser makes of *)
(* the text line by line.                                                  *)
(***************************************************************************)
EXTENDS Parser

LinesOf(kind) == {k \in DOMAIN text : text[k].is = kind}

(* The number of lines d .. i of some kind. *)
Count(kind, d, i) == Cardinality({j \in LinesOf(kind) : d <= j /\ j <= i})

(* The definition that begins in line d is open before line k. *)
OpenAt(d, k) == \A i \in d .. k - 1 : Count("define", d, i) > Count("end", d, i)

(* The definition that line k stands in, 0 for the main song. *)
Owner(k) == Max({0} \cup {d \in LinesOf("define") : d < k /\ OpenAt(d, k)})

(* The lines of some kind that stand in definition s above line k. *)
Above(s, k, kind) == {j \in LinesOf(kind) : j < k /\ Owner(j) = s}

LastAbove(s, k, kind, default) ==
  IF Above(s, k, kind) = {} THEN default ELSE text[Max(Above(s, k, kind))].n

(* The signs behind a bar for a class of pitches. *)
SignsFor(line, class) == {i \in DOMAIN line.signs : line.signs[i].class % 12 = class}

Signing(s, k, class) == {j \in Above(s, k, "bar") : SignsFor(text[j], class) # {}}

(* The sign of a class of pitches above line k. *)
SignAt(s, k, class) ==
  IF Signing(s, k, class) = {} THEN 0
  ELSE LET line == text[Max(Signing(s, k, class))]
       IN  line.signs[Max(SignsFor(line, class))].mod

(* The lines that define or erase an alias. *)
Aliasing(s, k, name) ==
  {j \in Above(s, k, "alias") \cup Above(s, k, "unalias") : text[j].name = name}

IsAlias(s, k, name) ==
  Aliasing(s, k, name) # {} /\ text[Max(Aliasing(s, k, name))].is = "alias"

AliasOf(s, k, name) == text[Max(Aliasing(s, k, name))].word

(* The pitch of a word that is a note, without signs. *)
Pitch(w) == w.class + 12 * ((IF w.octave = Unset THEN 4 ELSE w.octave) + 1)

(* The lines with a default note that can be read, and the pitch of "*".   *)
Defaults(s, k) == {j \in Above(s, k, "default") : text[j].word.is = "note"}

DefaultPitch(s, k) ==
  IF Defaults(s, k) = {} THEN 0 ELSE Pitch(text[Max(Defaults(s, k))].word)

(* The definitions of a subpattern above line k, which are complete when   *)
(* line k stands in s itself.                                              *)
Definitions(s, k, name) == {d \in Above(s, k, "define") : text[d].name = name}

(* A word in parentheses of its own is a name of its own: "(x)" is no      *)
(* alias, no subpattern, no rest; only a note or a control can be read.    *)
(* With something behind the name, "(x!40)", it is x.                      *)
Alone(w) == w.open /\ w.close /\ w.tail.empty

(* What a note n is with a tail behind it: a letter and a tail is a note   *)
(* like any other; of a note with more to it the modifiers change.         *)
Behind(n, tail) ==
  LET mods == Overlaid(tail.mods, n.mods)
  IN  IF n.bare
      THEN [n EXCEPT !.class = @ + tail.alter, !.octave = tail.octave,
                     !.natural = tail.natural, !.mods = mods]
      ELSE [n EXCEPT !.mods = mods]

(* What a word stands for in line k of s.  The sign of a rest, a pedal,    *)
(* the default or the last note has nothing behind it.                     *)
Spelled(s, k, w) ==
  IF IsAlias(s, k, w.base) /\ ~Alone(w)
  THEN LET r == AliasOf(s, k, w.base)
       IN  [Behind(r, w.tail) EXCEPT
              !.is = IF r.is \in {"note", "ctl"} \/ w.tail.empty THEN @ ELSE "bad"]
  ELSE w

Kind(s, k, w) ==
  IF Alone(w) THEN IF w.is \in {"note", "ctl"} THEN w.is ELSE "bad"
  ELSE IF Definitions(s, k, w.base) # {} THEN "play" ELSE Spelled(s, k, w).is

(* The words of a line before its comment. *)
Words(line) ==
  LET i == SelectInSeq(line.words, LAMBDA w : w.is = "comment")
  IN  IF i = 0 THEN line.words ELSE SubSeq(line.words, 1, i - 1)

(* Its volume in line k of s, if it is a note: its own or the last above.   *)
Volume(s, k, w) ==
  LET own == Mod(w, "volume", Unset)
  IN  IF own = Unset THEN LastAbove(s, k, "volume", 64) ELSE own

Readable(s, k, words) == \A i \in DOMAIN words : Kind(s, k, words[i]) \notin {"bad", "comment"}

(* In "(a b) c" the words a and b are of the first column, c of the next.  *)
(* A word that opens a group does not close it.                            *)
InGroup(words, i) ==
  \E j \in 1 .. i : words[j].open /\ \A l \in j + 1 .. i : words[l].close => words[l].open

ColumnOf(words, i) == Cardinality({j \in 1 .. i - 1 : ~InGroup(words, j)})

(* Line k of s, as it stands in the text, is a line of the song. *)
IsSongLine(s, k, line) ==
  \/ line.is \in {"bar", "tempo", "wait", "loop", "endloop"}
  \/ line.is = "words" /\ Words(line) # <<>> /\ Readable(s, k, Words(line))

(* The lines of the song that begins behind line s. *)
SongLines(s) == {k \in DOMAIN text : Owner(k) = s /\ IsSongLine(s, k, text[k])}

(* The events of line k in the song of s. *)
EventsOf(s, k) == parser[s].mSong[Cardinality({j \in SongLines(s) : j <= k})]

(* The words of a song: <<line, place in the line>>. *)
Places(s) ==
  UNION {{k} \X DOMAIN Words(text[k]) : k \in {j \in SongLines(s) : text[j].is = "words"}}

WordAt(p) == Words(text[p[1]])[p[2]]
KindAt(s, p) == Kind(s, p[1], WordAt(p))
ColumnAt(p) == ColumnOf(Words(text[p[1]]), p[2])
EventAt(s, p) == EventsOf(s, p[1])[p[2]]
-----------------------------------------------------------------------------
(* The types of the variables. *)
TypeOK ==
  /\ state \in {"reading", "ended", "done", "aborted"}
  /\ open = <<>> <=> state = "done"
  /\ DOMAIN parser = {0} \cup LinesOf("define")
  /\ \A s \in DOMAIN parser :
       /\ parser[s].mVolume \in Nat /\ parser[s].mTranspose \in Int
       /\ parser[s].mSigns \in [0 .. 11 -> {-1, 0, 1}]
       /\ Range(parser[s].mSubSeqMap) \subseteq DOMAIN parser \ {0}
       /\ \A c \in Columns : parser[s].mLastNote[c] # NoEvent => parser[s].mLastNote[c].column = c

(* The identities of the definitions that are being read. *)
Reading == {open[j].id : j \in DOMAIN open}

Complete(s, k, name) == Definitions(s, k, name) \ Reading

(* What an event plays when it is executed or continued. *)
Heard(e) == IF e.kind = "pedal" THEN e.event ELSE e

(* A subpattern is played only by the song that it is defined in, when it  *)
(* is complete.  So no subpattern plays itself, and playNextLine, which    *)
(* calls itself for every subpattern of a line, comes back.                *)
NoSubpatternPlaysItself ==
  \A s \in DOMAIN parser : \A line \in Range(parser[s].mSong) : \A i \in DOMAIN line :
    LET e == Heard(line[i])
    IN  e.kind = "play" => e.sub \in DOMAIN parser \ Reading /\ s < e.sub /\ Owner(e.sub) = s

Names(kind) == {text[j].name : j \in LinesOf(kind)}

(* What the parser of s knows before line k is what the lines of s say.    *)
Knows(s, k) ==
  LET q == parser[s]
  IN  /\ q.mVolume = LastAbove(s, k, "volume", 64)
      /\ q.mTranspose = LastAbove(s, k, "transpose", 0)
      /\ q.mDfltNote.pitch = DefaultPitch(s, k)
      /\ \A class \in 0 .. 11 : q.mSigns[class] = SignAt(s, k, class)
      /\ DOMAIN q.mAliases = {name \in Names("alias") : IsAlias(s, k, name)}
      /\ \A name \in DOMAIN q.mAliases : q.mAliases[name] = AliasOf(s, k, name)
      /\ DOMAIN q.mSubSeqMap = {name \in Names("define") : Complete(s, k, name) # {}}
      /\ \A name \in DOMAIN q.mSubSeqMap : q.mSubSeqMap[name] = Max(Complete(s, k, name))

(* The bars of the input have no comments, and signs that can be read: what *)
(* the words of a comment do is shown by CommentsSayNothing.               *)
BarsAreBare ==
  \A lines \in Range(Line) : \A line \in lines :
    line.is = "bar" => /\ line.comment = <<>>
                       /\ \A i \in DOMAIN line.signs : line.signs[i].class # Unset

(* What a parser knows is what the lines of its own definition say: nothing *)
(* leaks into it from the song around it, or from the definitions inside.  *)
ParsersKnowTheirText == \A s \in DOMAIN parser : Knows(s, Len(text) + 1)

(* Every line lands in the song of the definition it stands in, in order,  *)
(* as many events as it has words before the comment, each in the column   *)
(* its groups give it; an unreadable line leaves no events, and a          *)
(* definition never takes lines of the song around it.                     *)
SongsAsWritten ==
  \A s \in DOMAIN parser :
    /\ Len(parser[s].mSong) = Cardinality(SongLines(s))
    /\ \A k \in SongLines(s) :
         LET events == EventsOf(s, k)
             words == Words(text[k])
         IN  IF text[k].is # "words" THEN Len(events) = 1 /\ events[1].kind = text[k].is
             ELSE /\ Len(events) = Len(words)
                  /\ \A i \in DOMAIN events :
                       \/ Kind(s, k, words[i]) = "default"
                       \/ events[i] = NoEvent /\ Kind(s, k, words[i]) = "last"
                       \/ events[i].column = ColumnOf(words, i)

(* "transpose, default, volume and alias modifiers are static": a note has *)
(* the pitch and the volume that the lines above it in its definition give *)
(* it, signs before transposition, whatever is read later or inside of     *)
(* other definitions.                                                      *)
ModifiersAreStatic ==
  \A s \in DOMAIN parser : \A p \in Places(s) :
    LET k == p[1]
        w == Spelled(s, k, WordAt(p))
        sign == IF w.natural THEN 0 ELSE SignAt(s, k, Pitch(w) % 12)
    IN  /\ KindAt(s, p) = "note" =>
             /\ EventAt(s, p).pitch = (Pitch(w) + sign + LastAbove(s, k, "transpose", 0)) % Word
             /\ EventAt(s, p).volume = Volume(s, k, w)
        /\ KindAt(s, p) = "default" => EventAt(s, p).pitch = DefaultPitch(s, k)

(* Place q is before place p. *)
Earlier(q, p) == q[1] < p[1] \/ (q[1] = p[1] /\ q[2] < p[2])

(* The last place before p with a note or a subpattern in its column, as a *)
(* set.                                                                    *)
Previous(s, p) ==
  LET before == {q \in Places(s) : /\ Earlier(q, p) /\ KindAt(s, q) \in {"note", "play"}
                                   /\ ColumnAt(q) = ColumnAt(p)}
  IN  {q \in before : \A r \in before : ~Earlier(q, r)}

(* What sounds last in the column of p before p is a note that "*" plays.  *)
BehindDefault(s, p) ==
  \E d \in Places(s) :
    /\ KindAt(s, d) = "default" /\ ColumnAt(d) = ColumnAt(p) /\ Earlier(d, p)
    /\ \A q \in Previous(s, p) : Earlier(q, d)

(* "|" and "^" refer to the last note or subpattern that the song has in   *)
(* the column, of this line or of one above, and never to one of another   *)
(* definition.  (Of a definition without unreadable lines, which leave     *)
(* their notes behind; and not behind "*", whose note the parser does not  *)
(* remember: "|" and "^" refer to the one before it, although README says  *)
(* that "^" repeats the last note.)                                        *)
ContinuesTheColumn ==
  \A s \in DOMAIN parser :
    (\A k \in LinesOf("words") : Owner(k) = s => Readable(s, k, Words(text[k]))) =>
      \A p \in {r \in Places(s) : ~BehindDefault(s, r)} :
        LET events == {EventAt(s, q) : q \in Previous(s, p)}
        IN  /\ KindAt(s, p) = "pedal" => events = {EventAt(s, p).event}
            /\ KindAt(s, p) = "last" => events = {EventAt(s, p)} \ {NoEvent}

(* A subpattern is played as it was defined last above the line, in the    *)
(* same definition; defining it again changes nothing that was read.       *)
SubpatternsAreBound ==
  \A s \in DOMAIN parser : \A p \in Places(s) :
    KindAt(s, p) = "play" => EventAt(s, p).sub = Max(Definitions(s, p[1], WordAt(p).base))

(* The ports of a definition in the lines read so far. *)
Ports(s, c) ==
  {k \in LinesOf("port") : Owner(k) = s /\ c + 1 \in text[k].first .. text[k].last}

(* A column belongs to the port and the channel that its definition says   *)
(* last, and to the default port if it says nothing, even next to columns  *)
(* that have one.  (The channel if it is given.)                           *)
ColumnsHaveTheirPorts ==
  \A s \in DOMAIN parser : \A c \in Columns :
    LET map == GetPortMap(parser[s], c)
        line == text[Max(Ports(s, c))]
    IN  IF Ports(s, c) = {} THEN map = [channel |-> 0, port |-> NoPort]
        ELSE map.port = line.port /\ (line.channel # Unset => map.channel = line.channel)

(* "The comments start with ; sign": a comment behind a bar separator      *)
(* neither changes a sign nor takes the separator away.                    *)
CommentsSayNothing ==
  \A s \in DOMAIN parser :
    /\ \A class \in 0 .. 11 :
         state = "reading" /\ Owner(Len(text) + 1) = s =>
           parser[s].mSigns[class] = SignAt(s, Len(text) + 1, class)
    /\ Cardinality({n \in DOMAIN parser[s].mSong : parser[s].mSong[n][1].kind = "bar"})
         = Cardinality({k \in LinesOf("bar") : Owner(k) = s})
=============================================================================

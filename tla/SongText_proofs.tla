-------------------------- MODULE SongText_proofs --------------------------
(***************************************************************************)
(* Theorems about module SongText: what the parser makes of a text, line   *)
(* by line, is what the text says as a whole.  First what one line does to *)
(* a parser, whatever the parser and the line are; then whole texts.       *)
(***************************************************************************)
EXTENDS SongText, FiniteSetTheorems, TLAPS

WordStep(b, c, d, a, w) == ParseWord(a, w)
WordFold == INSTANCE Iteration WITH Op <- WordStep

SignStep(b, c, d, a, sign) == ParseSign(a, sign)
SignFold == INSTANCE Iteration WITH Op <- SignStep
-----------------------------------------------------------------------------
(* Sequences of anything. *)

IsSeq(s) == Len(s) \in Nat /\ s = [i \in 1 .. Len(s) |-> s[i]]

(* The lines of a song and the words of a line are sequences in the sense  *)
(* of the library.                                                         *)
LEMMA IsSeqIn ==
  ASSUME NEW s, IsSeq(s)
  PROVE  s \in Seq(Range(s)) /\ DOMAIN s = 1 .. Len(s)
<1>1. DOMAIN s = 1 .. Len(s)
  BY DEF IsSeq
<1>2. \A i \in 1 .. Len(s) : s[i] \in Range(s)
  BY <1>1 DEF Range
<1>3. s \in [(1 .. Len(s)) -> Range(s)]
  BY <1>2 DEF IsSeq
<1>4. s \in Seq(Range(s))
  BY <1>3 DEF IsSeq
<1> QED
  BY <1>1, <1>4

(* And those of the library are sequences in this sense. *)
LEMMA SeqIsSeq ==
  ASSUME NEW S, NEW s \in Seq(S)
  PROVE  IsSeq(s) /\ \A i \in 1 .. Len(s) : s[i] \in S
BY DEF IsSeq

(* An event behind those of a line, a line behind those of a song. *)
LEMMA Appended ==
  ASSUME NEW s, IsSeq(s), NEW e
  PROVE  /\ IsSeq(Append(s, e)) /\ Len(Append(s, e)) = Len(s) + 1
         /\ DOMAIN Append(s, e) = 1 .. Len(s) + 1
         /\ \A i \in 1 .. Len(s) : Append(s, e)[i] = s[i]
         /\ Append(s, e)[Len(s) + 1] = e
<1> DEFINE S == Range(s) \cup {e}
<1>0. \A i \in 1 .. Len(s) : s[i] \in S
  BY IsSeqIn DEF Range
<1>1. s \in Seq(S)
  <2> HIDE DEF S
  <2>1. s \in [1 .. Len(s) -> S]
    BY <1>0 DEF IsSeq
  <2> QED
    BY <2>1 DEF IsSeq
<1>2. e \in S
  OBVIOUS
<1> HIDE DEF S
<1>3. Append(s, e) \in Seq(S)
  BY <1>1, <1>2
<1>4. IsSeq(Append(s, e))
  BY <1>3, SeqIsSeq
<1> QED
  BY <1>1, <1>2, <1>3, <1>4, IsSeqIn

(* The beginning of a sequence. *)
LEMMA Subs ==
  ASSUME NEW s, IsSeq(s), NEW n \in 0 .. Len(s)
  PROVE  /\ IsSeq(SubSeq(s, 1, n)) /\ Len(SubSeq(s, 1, n)) = n
         /\ DOMAIN SubSeq(s, 1, n) = 1 .. n
         /\ \A i \in 1 .. n : SubSeq(s, 1, n)[i] = s[i]
<1> DEFINE S == Range(s)
<1>1. s \in Seq(S) /\ Len(s) \in Nat
  BY IsSeqIn DEF IsSeq
<1> HIDE DEF S
<1>2. SubSeq(s, 1, n) \in Seq(S)
  BY <1>1
<1>3. IsSeq(SubSeq(s, 1, n))
  BY <1>2, SeqIsSeq
<1> QED
  BY <1>1, <1>2, <1>3, IsSeqIn

(* The sequencers that are reading, without the innermost. *)
LEMMA Fronts ==
  ASSUME NEW s, IsSeq(s), Len(s) > 0
  PROVE  /\ IsSeq(Front(s)) /\ Len(Front(s)) = Len(s) - 1
         /\ DOMAIN Front(s) = 1 .. Len(s) - 1
         /\ \A i \in 1 .. Len(s) - 1 : Front(s)[i] = s[i]
         /\ Last(s) = s[Len(s)]
<1>1. Len(s) \in Nat /\ Len(s) - 1 \in 0 .. Len(s)
  BY DEF IsSeq
<1> QED
  BY <1>1, Subs DEF Front, Last

(* A map with one more entry, which takes the place of one of its name. *)
LEMMA PutIs ==
  ASSUME NEW map, NEW name, NEW value
  PROVE  /\ DOMAIN Put(map, name, value) = DOMAIN map \cup {name}
         /\ Put(map, name, value)[name] = value
         /\ \A n \in DOMAIN map \ {name} : Put(map, name, value)[n] = map[n]
BY DEF Put, Overlaid
-----------------------------------------------------------------------------
(* What a parser is, and what its events are, when Subs are the            *)
(* subpatterns it may know.                                                *)

IsLast(e, subs) ==
  /\ e.kind \in {"note", "play"}
  /\ e.kind = "play" => e.sub \in subs

IsEvent(e, subs) ==
  /\ e.kind \in {"null", "note", "play", "skip", "pedal", "ctl",
                 "bar", "tempo", "wait", "loop", "endloop"}
  /\ e.kind = "play" => e.sub \in subs
  /\ e.kind = "pedal" => IsLast(e.event, subs)

IsLastNote(lasts, subs) ==
  /\ DOMAIN lasts = Columns
  /\ \A c \in Columns : lasts[c] # NoEvent => IsLast(lasts[c], subs) /\ lasts[c].column = c

Fields == {"mSong", "mSubSeqMap", "mLastNote", "mDfltNote", "mVolume", "mTranspose", "mSigns",
           "mAliases", "mColumnMap"}

IsParser(q, subs) ==
  /\ DOMAIN q = Fields /\ q = [x \in Fields |-> q[x]]
  /\ IsSeq(q.mSong)
  /\ \A name \in DOMAIN q.mSubSeqMap : name # NoName /\ q.mSubSeqMap[name] \in subs
  /\ IsLastNote(q.mLastNote, subs)
  /\ "pitch" \in DOMAIN q.mDfltNote
  /\ q.mVolume \in Nat /\ q.mTranspose \in Int
  /\ q.mSigns \in [0 .. 11 -> {-1, 0, 1}]
  /\ \A name \in DOMAIN q.mAliases : name # NoName /\ IsWord(q.mAliases[name])
  /\ IsSeq(q.mColumnMap)

(* The values of a on the way through the words of a line: q was the       *)
(* parser before the line, and n words are read.                           *)
IsReading(q, subs, a, n) ==
  /\ DOMAIN a = {"q", "events", "column", "grouped", "stop"}
  /\ a.q = [q EXCEPT !.mLastNote = a.q.mLastNote]
  /\ IsLastNote(a.q.mLastNote, subs)
  /\ IsSeq(a.events)
  /\ \A j \in 1 .. Len(a.events) : IsEvent(a.events[j], subs)
  /\ a.column \in 0 .. n /\ a.grouped \in BOOLEAN
  /\ a.stop \in {"no", "comment", "throw", "assert"}

JunkOK == junk \in Junk
-----------------------------------------------------------------------------
(* The events that words make. *)

(* The pitch of a note, before signs and transposition, is a number. *)
LEMMA PitchIs ==
  ASSUME NEW w, IsWord(w), NEW column
  PROVE  /\ NoteEvent(w, column).pitch = Pitch(w) /\ Pitch(w) \in Nat
         /\ NoteEvent(w, column).kind = "note"
         /\ NoteEvent(w, column).column = column
         /\ NoteEvent(w, column).natural = w.natural
         /\ NoteEvent(w, column).volume = Mod(w, "volume", Unset)
BY DEF NoteEvent, Pitch, IsWord

SignFor(q, w) == IF w.natural THEN 0 ELSE q.mSigns[Pitch(w) % 12]

VolumeFor(q, w) ==
  IF Mod(w, "volume", Unset) = Unset THEN q.mVolume ELSE Mod(w, "volume", Unset)

(* A note as a pattern has it: its volume, its sign, its transposition. *)
LEMMA NoteIsAll ==
  ASSUME NEW q, NEW w, IsWord(w), NEW column
  PROVE  /\ Signed(q, Voiced(q, NoteEvent(w, column))).kind = "note"
         /\ Signed(q, Voiced(q, NoteEvent(w, column))).column = column
         /\ Signed(q, Voiced(q, NoteEvent(w, column))).pitch
              = (Pitch(w) + SignFor(q, w) + q.mTranspose) % Word
         /\ Signed(q, Voiced(q, NoteEvent(w, column))).volume = VolumeFor(q, w)
<1> DEFINE n == NoteEvent(w, column)
           v == Voiced(q, n)
           e == Signed(q, v)
<1>1. /\ DOMAIN n = {"kind", "column", "pitch", "volume", "natural"}
  BY DEF NoteEvent
<1>2. /\ n.pitch = Pitch(w) /\ n.kind = "note" /\ n.column = column
      /\ n.natural = w.natural /\ n.volume = Mod(w, "volume", Unset)
  BY PitchIs
<1> HIDE DEF n
<1>3. /\ DOMAIN v = DOMAIN n /\ v.pitch = n.pitch /\ v.kind = n.kind /\ v.column = n.column
      /\ v.natural = n.natural /\ v.volume = IF n.volume = Unset THEN q.mVolume ELSE n.volume
  BY <1>1 DEF Voiced
<1> HIDE DEF v
<1>4. /\ e.kind = v.kind /\ e.column = v.column /\ e.volume = v.volume
      /\ e.pitch = (v.pitch + (IF v.natural THEN 0 ELSE q.mSigns[v.pitch % 12]) + q.mTranspose) % Word
  BY <1>1, <1>3 DEF Signed
<1> HIDE DEF e
<1>5. /\ e.kind = "note" /\ e.column = column
      /\ e.pitch = (Pitch(w) + SignFor(q, w) + q.mTranspose) % Word
      /\ e.volume = VolumeFor(q, w)
  BY <1>2, <1>3, <1>4 DEF SignFor, VolumeFor
<1> QED
  BY <1>5 DEF e, v, n

(* The same in parts: it is a note, in its column, with its pitch and its  *)
(* volume.                                                                 *)
LEMMA NoteKind ==
  ASSUME NEW q, NEW w, IsWord(w), NEW column
  PROVE  Signed(q, Voiced(q, NoteEvent(w, column))).kind = "note"
BY DEF NoteEvent, Voiced, Signed

LEMMA NoteColumn ==
  ASSUME NEW q, NEW w, IsWord(w), NEW column
  PROVE  Signed(q, Voiced(q, NoteEvent(w, column))).column = column
BY NoteIsAll

LEMMA NotePitch ==
  ASSUME NEW q, NEW w, IsWord(w), NEW column
  PROVE  Signed(q, Voiced(q, NoteEvent(w, column))).pitch
           = (Pitch(w) + SignFor(q, w) + q.mTranspose) % Word
BY NoteIsAll

LEMMA NoteVolume ==
  ASSUME NEW q, NEW w, IsWord(w), NEW column
  PROVE  Signed(q, Voiced(q, NoteEvent(w, column))).volume = VolumeFor(q, w)
BY NoteIsAll

(* "*" is a note of the pitch that was set. *)
LEMMA DefaultIs ==
  ASSUME NEW q
  PROVE  /\ CloneDefault(q).kind = "note"
         /\ CloneDefault(q).pitch = q.mDfltNote.pitch
BY DEF CloneDefault

(* A control is no note. *)
LEMMA CtlIs ==
  ASSUME NEW w, NEW column
  PROVE  MidiCtlEvent(w, column).kind = "ctl" /\ MidiCtlEvent(w, column).column = column
BY DEF MidiCtlEvent
-----------------------------------------------------------------------------
(* One word of a line. *)

(* The parentheses of a word leave a word. *)
LEMMA SeenIs ==
  ASSUME NEW w, IsWord(w)
  PROVE  /\ IsWord(Seen(w)) /\ Seen(w).open = w.open /\ Seen(w).close = w.close
         /\ ~Alone(w) => Seen(w) = w
         /\ Alone(w) => /\ Seen(w) = [w EXCEPT !.base = NoName, !.is = Seen(w).is]
                        /\ Seen(w).base = NoName
                        /\ Seen(w).is = IF w.is \in {"note", "ctl"} THEN w.is ELSE "bad"
<1>1. CASE Alone(w)
  <2> DEFINE is == IF w.is \in {"note", "ctl"} THEN w.is ELSE "bad"
             v == [w EXCEPT !.base = NoName, !.is = is]
  <2>1. Seen(w) = v
    BY <1>1 DEF Seen, Alone
  <2>2. /\ DOMAIN v = DOMAIN w /\ v.base = NoName /\ v.is = is
        /\ \A n \in DOMAIN w \ {"base", "is"} : v[n] = w[n]
        /\ v.class = w.class /\ v.octave = w.octave /\ v.tail = w.tail
    BY DEF IsWord
  <2>3. v.open = w.open /\ v.close = w.close
    BY <2>2 DEF IsWord
  <2>4. IsWord(v)
    <3> HIDE DEF v
    <3> QED BY <2>2 DEF IsWord
  <2>5. v = [w EXCEPT !.base = NoName, !.is = v.is]
    BY <2>2
  <2> HIDE DEF v
  <2> QED BY <1>1, <2>1, <2>2, <2>3, <2>4, <2>5
<1>2. CASE ~Alone(w)
  BY <1>2 DEF Seen, Alone
<1> QED
  BY <1>1, <1>2

(* A word with a tail behind it is a word, and no comment. *)
LEMMA JoinedIs ==
  ASSUME NEW r, IsWord(r), NEW w, IsWord(w)
  PROVE  LET v == Joined(r, w.tail)
         IN  /\ IsWord(v) /\ v.is # "comment"
             /\ v.is = IF r.is \in {"note", "ctl"} \/ (w.tail.empty /\ r.is # "comment")
                       THEN r.is ELSE "bad"
             /\ v.class = IF r.bare THEN r.class + w.tail.alter ELSE r.class
             /\ v.octave = IF r.bare THEN w.tail.octave ELSE r.octave
             /\ v.natural = IF r.bare THEN w.tail.natural ELSE r.natural
             /\ v.mods = Overlaid(w.tail.mods, r.mods)
<1> SUFFICES ASSUME NEW v, v = Joined(r, w.tail), NEW mods, mods = Overlaid(w.tail.mods, r.mods),
                    NEW is, is = IF r.is \in {"note", "ctl"} \/ (w.tail.empty /\ r.is # "comment")
                                 THEN r.is ELSE "bad",
                    NEW class, class = IF r.bare THEN r.class + w.tail.alter ELSE r.class,
                    NEW octave, octave = IF r.bare THEN w.tail.octave ELSE r.octave,
                    NEW natural, natural = IF r.bare THEN w.tail.natural ELSE r.natural
             PROVE  /\ IsWord(v) /\ v.is # "comment" /\ v.is = is /\ v.class = class
                    /\ v.octave = octave /\ v.natural = natural /\ v.mods = mods
  OBVIOUS
<1>1. v = [r EXCEPT !.is = is, !.class = class, !.octave = octave, !.natural = natural,
                    !.mods = mods]
  BY DEF Joined
<1>2. {"is", "tail", "class", "octave", "natural", "mods"} \subseteq DOMAIN r
  BY DEF IsWord
<1>3. /\ DOMAIN v = DOMAIN r /\ v.is = is /\ v.class = class /\ v.octave = octave
      /\ v.natural = natural /\ v.mods = mods /\ v.tail = r.tail
  BY <1>1, <1>2
<1>4. class \in Nat /\ octave \in Nat
  BY DEF IsWord
<1>5. is \in {"note", "rest", "pedal", "default", "last", "ctl", "bad"}
  BY DEF IsWord
<1>6. IsWord(v)
  <2>1. r.tail.alter \in {0, 1} /\ r.tail.octave \in Nat /\ (r.tail.empty => r.tail = NoTail)
    BY DEF IsWord
  <2>2. {"is", "base", "tail", "open", "close", "mods", "class", "octave", "natural", "bare"}
          \subseteq DOMAIN v
    BY <1>3 DEF IsWord
  <2>3. v.is \in {"note", "rest", "pedal", "default", "last", "ctl", "comment", "bad"}
    BY <1>3, <1>5
  <2> QED BY <1>3, <1>4, <2>1, <2>2, <2>3 DEF IsWord
<1> QED BY <1>3, <1>5, <1>6

(* What an alias puts in its place is a word, with the tail of the word    *)
(* behind it, and no comment.                                              *)
LEMMA ReplacedIs ==
  ASSUME NEW q, NEW subs, IsParser(q, subs), NEW w, IsWord(w), w.is # "comment"
  PROVE  /\ IsWord(Replaced(q, w)) /\ Replaced(q, w).is # "comment"
         /\ w.base \notin DOMAIN q.mAliases => Replaced(q, w) = w
         /\ w.base \in DOMAIN q.mAliases =>
              Replaced(q, w) = Joined(q.mAliases[w.base], w.tail)
<1>1. CASE w.base \in DOMAIN q.mAliases
  <2>1. IsWord(q.mAliases[w.base])
    BY <1>1 DEF IsParser, Fields
  <2>2. Replaced(q, w) = Joined(q.mAliases[w.base], w.tail)
    BY <1>1 DEF Replaced
  <2>3. IsWord(Joined(q.mAliases[w.base], w.tail)) /\ Joined(q.mAliases[w.base], w.tail).is # "comment"
    BY ONLY <2>1, IsWord(w), JoinedIs
  <2> QED BY <1>1, <2>2, <2>3
<1>2. CASE w.base \notin DOMAIN q.mAliases
  BY <1>2 DEF Replaced
<1> QED
  BY <1>1, <1>2

IsLineState(a) == DOMAIN a = {"q", "events", "column", "grouped", "stop"}

(* An event behind the others. *)
LEMMA PushIs ==
  ASSUME NEW a, IsLineState(a), NEW e
  PROVE  LET b == Push(a, e)
         IN  /\ IsLineState(b) /\ b.q = a.q /\ b.events = Append(a.events, e)
             /\ b.column = a.column /\ b.grouped = a.grouped /\ b.stop = a.stop
BY DEF Push, IsLineState

(* The parser with e as the last note of a column. *)
Remembering(q, column, e) == [q EXCEPT !.mLastNote = [@ EXCEPT ![column] = e]]

(* An event that is remembered for its column. *)
LEMMA PushNewIs ==
  ASSUME NEW a, IsLineState(a), NEW e, "mLastNote" \in DOMAIN a.q
  PROVE  LET b == PushNew(a, e)
         IN  /\ IsLineState(b) /\ b.q = Remembering(a.q, a.column, e)
             /\ b.events = Append(a.events, e)
             /\ b.column = a.column /\ b.grouped = a.grouped /\ b.stop = a.stop
<1> DEFINE p == Push(a, e)
<1>1. /\ IsLineState(p) /\ p.q = a.q /\ p.events = Append(a.events, e)
      /\ p.column = a.column /\ p.grouped = a.grouped /\ p.stop = a.stop
  BY PushIs
<1>2. PushNew(a, e) = [p EXCEPT !.q.mLastNote[a.column] = e]
  BY DEF PushNew
<1> HIDE DEF p
<1> QED
  BY <1>1, <1>2 DEF IsLineState, Remembering

(* A line that stops. *)
LEMMA StopIs ==
  ASSUME NEW a, IsLineState(a), NEW why
  PROVE  LET b == [a EXCEPT !.stop = why]
         IN  /\ IsLineState(b) /\ b.q = a.q /\ b.events = a.events
             /\ b.column = a.column /\ b.grouped = a.grouped /\ b.stop = why
BY DEF IsLineState

(* What ParseWord does with a word that is no comment. *)
LEMMA WordIsRead ==
  ASSUME NEW a, a.stop = "no", NEW w, w.is # "comment"
  PROVE  LET g == Grouped(a.grouped, Seen(w))
         IN  ParseWord(a, w) = [ParseChunk(a, Seen(w).base, Replaced(a.q, Seen(w)))
                                 EXCEPT !.grouped = g, !.column = IF g THEN @ ELSE @ + 1]
BY Zenon DEF ParseWord

(* What the parser q takes a word for, and what event it makes of it when  *)
(* last is the last note of the column.                                    *)

Meant(q, w) == Replaced(q, Seen(w))

KindFor(q, w) ==
  IF Alone(w) THEN IF w.is \in {"note", "ctl"} THEN w.is ELSE "bad"
  ELSE IF w.base \in DOMAIN q.mSubSeqMap THEN "play" ELSE Meant(q, w).is

EventFor(q, w, column, last) ==
  CASE KindFor(q, w) = "play"    -> [kind |-> "play", column |-> column,
                                     sub |-> q.mSubSeqMap[w.base]]
    [] KindFor(q, w) = "rest"    -> [kind |-> "skip", column |-> column]
    [] KindFor(q, w) = "pedal"   -> [kind |-> "pedal", column |-> column, event |-> last]
    [] KindFor(q, w) = "default" -> CloneDefault(q)
    [] KindFor(q, w) = "last"    -> last
    [] KindFor(q, w) = "ctl"     -> MidiCtlEvent(Meant(q, w), column)
    [] KindFor(q, w) = "note"    -> Signed(q, Voiced(q, NoteEvent(Meant(q, w), column)))

(* During a line a parser changes in nothing but its last notes. *)
LEMMA SameMeaning ==
  ASSUME NEW q, NEW subs, IsParser(q, subs), NEW p, p = [q EXCEPT !.mLastNote = p.mLastNote],
         NEW w, NEW column
  PROVE  /\ DOMAIN p = DOMAIN q /\ p.mSubSeqMap = q.mSubSeqMap /\ p.mAliases = q.mAliases
         /\ Replaced(p, w) = Replaced(q, w) /\ CloneDefault(p) = CloneDefault(q)
         /\ Signed(p, Voiced(p, NoteEvent(w, column)))
              = Signed(q, Voiced(q, NoteEvent(w, column)))
<1>1. /\ DOMAIN p = DOMAIN q /\ p.mSubSeqMap = q.mSubSeqMap /\ p.mAliases = q.mAliases
      /\ p.mVolume = q.mVolume /\ p.mTranspose = q.mTranspose /\ p.mSigns = q.mSigns
      /\ p.mDfltNote = q.mDfltNote
  BY DEF IsParser, Fields
<1>2. Replaced(p, w) = Replaced(q, w)
  BY <1>1 DEF Replaced
<1>3. CloneDefault(p) = CloneDefault(q)
  BY <1>1 DEF CloneDefault
<1>4. Signed(p, Voiced(p, NoteEvent(w, column))) = Signed(q, Voiced(q, NoteEvent(w, column)))
  BY <1>1 DEF Signed, Voiced
<1> QED
  BY <1>1, <1>2, <1>3, <1>4

(* The whole step for one word that is no comment. *)
LEMMA WordIs ==
  ASSUME NEW q, NEW subs, IsParser(q, subs),
         NEW a, IsLineState(a), a.stop = "no", a.q = [q EXCEPT !.mLastNote = a.q.mLastNote],
         NEW w, IsWord(w), w.is # "comment"
  PROVE  LET b == ParseWord(a, w)
             last == a.q.mLastNote[a.column]
             g == Grouped(a.grouped, w)
             e == EventFor(q, w, a.column, last)
         IN  /\ IsLineState(b) /\ b.grouped = g
             /\ b.column = IF g THEN a.column ELSE a.column + 1
             /\ IsWord(Meant(q, w))
             /\ KindFor(q, w) \in {"play", "rest", "pedal", "default", "last", "ctl", "note", "bad"}
             /\ b.stop = IF KindFor(q, w) = "bad" THEN "throw"
                         ELSE IF KindFor(q, w) = "pedal" /\ last = NoEvent THEN "assert" ELSE "no"
             /\ b.events = IF b.stop = "no" THEN Append(a.events, e) ELSE a.events
             /\ b.q = IF KindFor(q, w) \in {"play", "note"} THEN Remembering(a.q, a.column, e)
                      ELSE a.q
<1> DEFINE b == ParseWord(a, w)
           last == a.q.mLastNote[a.column]
           g == Grouped(a.grouped, w)
           e == EventFor(q, w, a.column, last)
           v == Seen(w)
           m == Meant(q, w)
           d == ParseChunk(a, v.base, m)
           kind == KindFor(q, w)
<1>1. /\ IsWord(v) /\ v.is # "comment"
      /\ Alone(w) => v.base = NoName
      /\ ~Alone(w) => v = w
      /\ Alone(w) => v.is = IF w.is \in {"note", "ctl"} THEN w.is ELSE "bad"
  BY SeenIs DEF IsWord
<1>2. /\ IsWord(m) /\ m.is # "comment"
      /\ Alone(w) => m = v
  <2>1. IsWord(m) /\ m.is # "comment" /\ (v.base \notin DOMAIN q.mAliases => m = v)
    BY <1>1, ReplacedIs DEF Meant
  <2>2. Alone(w) => v.base \notin DOMAIN q.mAliases
    BY <1>1 DEF IsParser, Fields
  <2> QED BY <2>1, <2>2
<1>3. b = [d EXCEPT !.grouped = g, !.column = IF g THEN @ ELSE @ + 1]
  <2>1. Replaced(a.q, v) = m
    BY SameMeaning DEF Meant
  <2>2. g = Grouped(a.grouped, v)
    BY <1>1, SeenIs DEF Grouped
  <2> HIDE DEF g, m, v, kind, e, last
  <2> QED BY <2>1, <2>2, WordIsRead, Zenon DEF v
<1>4. /\ kind = "play" <=> v.base \in DOMAIN a.q.mSubSeqMap
      /\ kind # "play" => kind = m.is
      /\ kind = "play" => v.base = w.base
  <2>1. a.q.mSubSeqMap = q.mSubSeqMap
    BY SameMeaning
  <2>2. NoName \notin DOMAIN q.mSubSeqMap
    BY DEF IsParser, Fields
  <2>3. m.is # "play" /\ w.is # "play"
    BY <1>2 DEF IsWord
  <2>4. CASE Alone(w)
    BY <1>1, <1>2, <2>1, <2>2, <2>4 DEF KindFor
  <2>5. CASE ~Alone(w)
    BY <1>1, <2>1, <2>3, <2>5 DEF KindFor
  <2> QED BY <2>4, <2>5
<1>5. kind \in {"play", "rest", "pedal", "default", "last", "ctl", "note", "bad"}
  BY <1>2, <1>4 DEF IsWord
<1>6. /\ IsLineState(d) /\ d.column = a.column
      /\ d.stop = IF kind = "bad" THEN "throw"
                  ELSE IF kind = "pedal" /\ last = NoEvent THEN "assert" ELSE "no"
      /\ d.events = IF d.stop = "no" THEN Append(a.events, e) ELSE a.events
      /\ d.q = IF kind \in {"play", "note"} THEN Remembering(a.q, a.column, e) ELSE a.q
  <2>0. "mLastNote" \in DOMAIN a.q /\ a.q.mSubSeqMap = q.mSubSeqMap
    BY SameMeaning DEF IsParser, Fields
  <2>1. CASE kind = "play"
    <3>1. e = [kind |-> "play", column |-> a.column, sub |-> a.q.mSubSeqMap[v.base]]
      BY <2>0, <2>1, <1>4 DEF EventFor
    <3>2. d = PushNew(a, e)
      BY <2>1, <3>1, <1>4 DEF ParseChunk
    <3> HIDE DEF e, d, kind
    <3> QED BY <2>0, <2>1, <3>2, PushNewIs
  <2>2. CASE kind = "rest"
    <3>1. e = [kind |-> "skip", column |-> a.column]
      BY <2>2 DEF EventFor
    <3>2. d = Push(a, e)
      BY <2>2, <3>1, <1>4 DEF ParseChunk
    <3> HIDE DEF e, d, kind
    <3> QED BY <2>0, <2>2, <3>2, PushIs
  <2>3. CASE kind = "pedal"
    <3>1. CASE last = NoEvent
      <4>1. d = [a EXCEPT !.stop = "assert"]
        BY <2>3, <3>1, <1>4 DEF ParseChunk
      <4> HIDE DEF e, d, kind
      <4> QED BY <2>3, <3>1, <4>1, StopIs
    <3>2. CASE last # NoEvent
      <4>1. e = [kind |-> "pedal", column |-> a.column, event |-> last]
        BY <2>3 DEF EventFor
      <4>2. d = Push(a, e)
        BY <2>3, <3>2, <4>1, <1>4 DEF ParseChunk
      <4> HIDE DEF e, d, kind
      <4> QED BY <2>0, <2>3, <3>2, <4>2, PushIs
    <3> QED BY <3>1, <3>2
  <2>4. CASE kind = "default"
    <3>1. e = CloneDefault(a.q)
      BY <2>4, SameMeaning DEF EventFor
    <3>2. d = Push(a, e)
      BY <2>4, <3>1, <1>4 DEF ParseChunk
    <3> HIDE DEF e, d, kind
    <3> QED BY <2>0, <2>4, <3>2, PushIs
  <2>5. CASE kind = "last"
    <3>1. e = last
      BY <2>5 DEF EventFor
    <3>2. d = Push(a, e)
      BY <2>5, <3>1, <1>4 DEF ParseChunk
    <3> HIDE DEF e, d, kind
    <3> QED BY <2>0, <2>5, <3>2, PushIs
  <2>6. CASE kind = "ctl"
    <3>1. e = MidiCtlEvent(m, a.column)
      BY <2>6 DEF EventFor
    <3>2. d = Push(a, e)
      BY <2>6, <3>1, <1>4 DEF ParseChunk
    <3> HIDE DEF e, d, kind
    <3> QED BY <2>0, <2>6, <3>2, PushIs
  <2>7. CASE kind = "note"
    <3>1. e = Signed(a.q, Voiced(a.q, NoteEvent(m, a.column)))
      BY <2>7, SameMeaning DEF EventFor
    <3>2. d = PushNew(a, e)
      BY <2>7, <3>1, <1>4 DEF ParseChunk
    <3> HIDE DEF e, d, kind
    <3> QED BY <2>0, <2>7, <3>2, PushNewIs
  <2>8. CASE kind = "bad"
    <3>1. d = [a EXCEPT !.stop = "throw"]
      BY <2>8, <1>4 DEF ParseChunk
    <3> HIDE DEF e, d, kind
    <3> QED BY <2>8, <3>1, StopIs
  <2> HIDE DEF e, d, kind
  <2> QED BY <1>5, <2>1, <2>2, <2>3, <2>4, <2>5, <2>6, <2>7, <2>8
<1>7. /\ IsLineState(b) /\ b.q = d.q /\ b.events = d.events /\ b.stop = d.stop
      /\ b.grouped = g /\ b.column = IF g THEN d.column ELSE d.column + 1
  <2> HIDE DEF d, b, g
  <2>1. IsLineState(d)
    BY <1>6
  <2> QED BY <1>3, <2>1 DEF IsLineState
<1> HIDE DEF d, b, g, e, kind
<1>8. /\ IsLineState(b) /\ b.grouped = g /\ b.column = IF g THEN a.column ELSE a.column + 1
      /\ b.stop = IF kind = "bad" THEN "throw"
                  ELSE IF kind = "pedal" /\ last = NoEvent THEN "assert" ELSE "no"
      /\ b.events = IF b.stop = "no" THEN Append(a.events, e) ELSE a.events
      /\ b.q = IF kind \in {"play", "note"} THEN Remembering(a.q, a.column, e) ELSE a.q
  BY <1>6, <1>7
<1> QED
  BY <1>2, <1>5, <1>8 DEF b, g, e, kind

(* A word that stops nothing gives an event that a song may have, and one  *)
(* that is remembered can be continued by "|".                             *)
LEMMA EventForIs ==
  ASSUME NEW q, NEW subs, IsParser(q, subs), NEW w, IsWord(Meant(q, w)),
         NEW column \in Columns, NEW lasts, IsLastNote(lasts, subs),
         KindFor(q, w) \in {"play", "rest", "pedal", "default", "last", "ctl", "note"},
         KindFor(q, w) = "pedal" => lasts[column] # NoEvent
  PROVE  LET e == EventFor(q, w, column, lasts[column])
         IN  /\ IsEvent(e, subs)
             /\ KindFor(q, w) \in {"play", "note"} => IsLast(e, subs) /\ e.column = column
<1> DEFINE e == EventFor(q, w, column, lasts[column])
<1>0. /\ lasts[column] # NoEvent => IsLast(lasts[column], subs)
      /\ lasts[column] = NoEvent => lasts[column].kind = "null"
  BY DEF IsLastNote, NoEvent
<1>1. CASE KindFor(q, w) = "play"
  <2>1. e = [kind |-> "play", column |-> column, sub |-> q.mSubSeqMap[w.base]]
    BY <1>1 DEF EventFor
  <2>2. w.base \in DOMAIN q.mSubSeqMap
    <3>1. ~Alone(w)
      BY <1>1 DEF KindFor
    <3>2. Meant(q, w).is # "play"
      BY DEF IsWord
    <3> QED BY <1>1, <3>1, <3>2 DEF KindFor
  <2>3. q.mSubSeqMap[w.base] \in subs
    BY <2>2 DEF IsParser, Fields
  <2> QED BY <1>1, <2>1, <2>3 DEF IsEvent, IsLast
<1>2. CASE KindFor(q, w) = "rest"
  BY <1>2 DEF EventFor, IsEvent
<1>3. CASE KindFor(q, w) = "pedal"
  <2>1. e = [kind |-> "pedal", column |-> column, event |-> lasts[column]]
    BY <1>3 DEF EventFor
  <2> QED BY <1>0, <1>3, <2>1 DEF IsEvent
<1>4. CASE KindFor(q, w) = "default"
  <2>1. e = CloneDefault(q)
    BY <1>4 DEF EventFor
  <2> QED BY <1>4, <2>1, DefaultIs DEF IsEvent
<1>5. CASE KindFor(q, w) = "last"
  <2>1. e = lasts[column]
    BY <1>5 DEF EventFor
  <2> QED BY <1>0, <1>5, <2>1 DEF IsEvent, IsLast
<1>6. CASE KindFor(q, w) = "ctl"
  <2>1. e = MidiCtlEvent(Meant(q, w), column)
    BY <1>6 DEF EventFor
  <2> QED BY <1>6, <2>1, CtlIs DEF IsEvent
<1>7. CASE KindFor(q, w) = "note"
  <2>1. e = Signed(q, Voiced(q, NoteEvent(Meant(q, w), column)))
    BY <1>7 DEF EventFor
  <2>2. e.kind = "note" /\ e.column = column
    <3> HIDE DEF e
    <3> QED BY <2>1, NoteKind, NoteColumn
  <2> QED BY <2>2 DEF IsEvent, IsLast
<1> QED BY <1>1, <1>2, <1>3, <1>4, <1>5, <1>6, <1>7

(* One more word. *)
LEMMA ReadingGoesOn ==
  ASSUME NEW q, NEW subs, IsParser(q, subs), NEW n \in 0 .. MaxColumn, NEW a,
         IsReading(q, subs, a, n), NEW w, IsWord(w)
  PROVE  IsReading(q, subs, ParseWord(a, w), n + 1)
<1>0. a.column \in 0 .. n + 1 /\ a.column \in Columns
  BY ParserAssumption DEF IsReading, Columns
<1>1. CASE a.stop # "no"
  <2>1. ParseWord(a, w) = a
    BY <1>1 DEF ParseWord
  <2> QED BY <1>0, <2>1 DEF IsReading
<1>2. CASE a.stop = "no" /\ w.is = "comment"
  <2> DEFINE b == [a EXCEPT !.stop = "comment"]
  <2>1. ParseWord(a, w) = b
    BY <1>2, Zenon DEF ParseWord
  <2>2. /\ IsLineState(b) /\ b.q = a.q /\ b.events = a.events
        /\ b.column = a.column /\ b.grouped = a.grouped /\ b.stop = "comment"
    BY DEF IsReading, IsLineState
  <2> HIDE DEF b
  <2> QED BY <1>0, <2>1, <2>2 DEF IsReading, IsLineState
<1>3. CASE a.stop = "no" /\ w.is # "comment"
  <2> DEFINE b == ParseWord(a, w)
             lasts == a.q.mLastNote
             last == lasts[a.column]
             kind == KindFor(q, w)
             e == EventFor(q, w, a.column, last)
  <2>1. /\ IsLineState(b) /\ b.grouped = Grouped(a.grouped, w)
        /\ b.column = IF b.grouped THEN a.column ELSE a.column + 1
        /\ IsWord(Meant(q, w))
        /\ kind \in {"play", "rest", "pedal", "default", "last", "ctl", "note", "bad"}
        /\ b.stop = IF kind = "bad" THEN "throw"
                    ELSE IF kind = "pedal" /\ last = NoEvent THEN "assert" ELSE "no"
        /\ b.events = IF b.stop = "no" THEN Append(a.events, e) ELSE a.events
        /\ b.q = IF kind \in {"play", "note"} THEN Remembering(a.q, a.column, e) ELSE a.q
    <3>1. IsLineState(a) /\ a.q = [q EXCEPT !.mLastNote = a.q.mLastNote]
      BY DEF IsReading, IsLineState
    <3> QED BY <1>3, <3>1, WordIs
  <2>2. b.grouped \in BOOLEAN
    BY <2>1 DEF Grouped, IsReading
  <2>3. b.column \in 0 .. n + 1
    <3>1. a.column \in 0 .. n
      BY DEF IsReading
    <3> QED BY <2>1, <3>1
  <2>4. IsLastNote(lasts, subs)
    BY DEF IsReading
  <2>5. b.stop = "no" => /\ IsEvent(e, subs)
                         /\ kind \in {"play", "note"} => IsLast(e, subs) /\ e.column = a.column
    <3> HIDE DEF lasts, b
    <3> QED BY <1>0, <2>1, <2>4, EventForIs
  <2>6. IsSeq(b.events) /\ \A j \in 1 .. Len(b.events) : IsEvent(b.events[j], subs)
    <3>1. IsSeq(a.events) /\ \A j \in 1 .. Len(a.events) : IsEvent(a.events[j], subs)
      BY DEF IsReading
    <3>2. CASE b.stop = "no"
      <4> DEFINE s == a.events
                 t == Append(s, e)
      <4>1. b.events = t
        BY <2>1, <3>2
      <4>2. /\ IsSeq(t) /\ Len(t) = Len(s) + 1 /\ \A i \in 1 .. Len(s) : t[i] = s[i]
            /\ t[Len(s) + 1] = e /\ Len(s) \in Nat
        BY <3>1, Appended DEF IsSeq
      <4> HIDE DEF t, s, e, b
      <4>3. \A j \in 1 .. Len(t) : IsEvent(t[j], subs)
        <5> SUFFICES ASSUME NEW j \in 1 .. Len(t) PROVE IsEvent(t[j], subs)
          OBVIOUS
        <5>1. IsEvent(e, subs)
          BY <2>5, <3>2
        <5>2. \A i \in 1 .. Len(s) : IsEvent(s[i], subs)
          BY <3>1 DEF s
        <5>3. CASE j \in 1 .. Len(s)
          BY <4>2, <5>2, <5>3
        <5>4. CASE j = Len(s) + 1
          BY <4>2, <5>1, <5>4
        <5> QED BY <4>2, <5>3, <5>4
      <4> QED BY <4>1, <4>2, <4>3
    <3>3. CASE b.stop # "no"
      BY <2>1, <3>1, <3>3
    <3> QED BY <3>2, <3>3
  <2>7. /\ b.q = [q EXCEPT !.mLastNote = b.q.mLastNote]
        /\ IsLastNote(b.q.mLastNote, subs)
    <3>1. /\ a.q = [q EXCEPT !.mLastNote = lasts]
          /\ "mLastNote" \in DOMAIN q
      BY DEF IsReading, IsParser, Fields
    <3>2. CASE kind \in {"play", "note"}
      <4> DEFINE new == [lasts EXCEPT ![a.column] = e]
      <4>1. b.q = [a.q EXCEPT !.mLastNote = new]
        BY <2>1, <3>2 DEF Remembering
      <4>2. b.stop = "no"
        BY <2>1, <3>2
      <4>3. IsLastNote(new, subs)
        <5> HIDE DEF e, lasts, b
        <5>1. IsLast(e, subs) /\ e.column = a.column
          BY <2>5, <3>2, <4>2
        <5>2. DOMAIN new = Columns /\ new[a.column] = e
          BY <1>0, <2>4 DEF IsLastNote
        <5>3. \A c \in Columns \ {a.column} : new[c] = lasts[c]
          BY <1>0, <2>4 DEF IsLastNote
        <5> HIDE DEF new
        <5> QED BY <2>4, <5>1, <5>2, <5>3 DEF IsLastNote
      <4> HIDE DEF new, b, lasts
      <4>4. b.q = [q EXCEPT !.mLastNote = new] /\ b.q.mLastNote = new
        BY <3>1, <4>1
      <4> QED BY <4>3, <4>4
    <3>3. CASE kind \notin {"play", "note"}
      BY <2>1, <2>4, <3>1, <3>3
    <3> QED BY <3>2, <3>3
  <2>8. b.stop \in {"no", "comment", "throw", "assert"}
    BY <2>1
  <2> HIDE DEF b
  <2>9. IsReading(q, subs, b, n + 1)
    BY <2>1, <2>2, <2>3, <2>6, <2>7, <2>8 DEF IsReading, IsLineState
  <2> QED BY <2>9 DEF b
<1> QED BY <1>1, <1>2, <1>3

(* Before the first word. *)
Start(q) == [q |-> q, events |-> <<>>, column |-> 0, grouped |-> FALSE, stop |-> "no"]

(* A line of words, word by word. *)
LEMMA WordsFolded ==
  ASSUME NEW base, NEW words, IsSeq(words)
  PROVE  \E f : /\ f[0] = base
                /\ \A i \in 1 .. Len(words) : f[i] = ParseWord(f[i - 1], words[i])
                /\ WordFold!Iterated(words, words, words, base, words) = f[Len(words)]
<1>1. DOMAIN words = 1 .. Len(words) /\ Len(words) \in Nat
  BY DEF IsSeq
<1>2. PICK f : /\ f[0] = base
               /\ \A i \in 1 .. Len(words) : f[i] = WordStep(words, words, words, f[i - 1], words[i])
               /\ WordFold!Iterated(words, words, words, base, words) = f[Len(words)]
  BY <1>1, WordFold!Unfolds
<1> QED BY <1>1, <1>2 DEF WordStep

LEMMA WordByWord ==
  ASSUME NEW q, NEW line, IsSeq(line.words)
  PROVE  \E f : /\ f[0] = Start(q)
                /\ \A i \in 1 .. Len(line.words) : f[i] = ParseWord(f[i - 1], line.words[i])
                /\ ParsePattern(q, line) = f[Len(line.words)]
<1> DEFINE words == line.words
<1>0. IsSeq(words)
  OBVIOUS
<1> HIDE DEF words
<1>1. PICK f : /\ f[0] = Start(q)
               /\ \A i \in 1 .. Len(words) : f[i] = ParseWord(f[i - 1], words[i])
               /\ WordFold!Iterated(words, words, words, Start(q), words) = f[Len(words)]
  BY <1>0, WordsFolded
<1>2. WordFold!Iterated(words, words, words, Start(q), words) = ParsePattern(q, line)
  BY DEF words, ParsePattern, Start, FoldLeft, WordFold!Iterated, WordFold!FoldLeft, MapThenFoldSet,
         WordFold!MapThenFoldSet, Max, WordFold!Max, WordStep
<1> QED BY <1>1, <1>2 DEF words

(* A set of numbers with 0 and, below n, the next of each has all up to n. *)
LEMMA UpTo ==
  ASSUME NEW n \in Nat, NEW T, 0 \in T, \A i \in 0 .. n - 1 : i \in T => i + 1 \in T
  PROVE  \A i \in 0 .. n : i \in T
<1> DEFINE U == {i \in Nat : i <= n => i \in T}
<1>1. 0 \in U /\ U \in SUBSET Nat
  OBVIOUS
<1>2. \A i \in U : i + 1 \in U
  OBVIOUS
<1> HIDE DEF U
<1>3. U = Nat
  BY <1>1, <1>2, WordFold!SetInduction
<1> QED BY <1>3 DEF U

(* A line of words, read as far as it goes, is what a line may be. *)
LEMMA PatternIs ==
  ASSUME NEW q, NEW subs, IsParser(q, subs), NEW line, IsWords(line.words),
         Len(line.words) <= MaxColumn + 1
  PROVE  /\ IsReading(q, subs, ParsePattern(q, line), Len(line.words))
<1> DEFINE words == line.words
           n == Len(words)
<1>1. /\ IsSeq(words) /\ \A i \in 1 .. n : IsWord(words[i])
  BY SeqIsSeq DEF IsWords
<1>2. PICK f : /\ f[0] = Start(q)
               /\ \A i \in 1 .. n : f[i] = ParseWord(f[i - 1], words[i])
               /\ ParsePattern(q, line) = f[n]
  BY <1>1, WordByWord
<1>3. n \in Nat /\ n <= MaxColumn + 1 /\ MaxColumn \in Nat
  BY <1>1, ParserAssumption DEF IsSeq
<1> HIDE DEF words, n
<1> DEFINE T == {i \in Nat : IsReading(q, subs, f[i], i)}
<1>4. 0 \in T
  <2>1. q = [q EXCEPT !.mLastNote = q.mLastNote]
    BY DEF IsParser, Fields
  <2>2. IsReading(q, subs, Start(q), 0)
    BY <2>1 DEF IsReading, IsParser, Fields, Start, IsSeq
  <2> QED BY <1>2, <2>2
<1>5. \A i \in 0 .. n - 1 : i \in T => i + 1 \in T
  <2> SUFFICES ASSUME NEW i \in 0 .. n - 1, i \in T PROVE i + 1 \in T
    OBVIOUS
  <2>1. /\ i \in 0 .. MaxColumn /\ i + 1 \in 1 .. n /\ (i + 1) - 1 = i /\ i + 1 \in Nat
    BY <1>3
  <2>2. f[i + 1] = ParseWord(f[i], words[i + 1]) /\ IsWord(words[i + 1])
    BY <1>1, <1>2, <2>1 DEF n
  <2>3. IsReading(q, subs, f[i + 1], i + 1)
    BY <2>1, <2>2, ReadingGoesOn
  <2> QED BY <2>1, <2>3
<1>6. n \in T
  <2> HIDE DEF T
  <2>1. \A i \in 0 .. n : i \in T
    BY <1>3, <1>4, <1>5, UpTo
  <2> QED BY <2>1, <1>3
<1> QED BY <1>2, <1>6 DEF n, words
-----------------------------------------------------------------------------
(* The other lines. *)

SignsOf(line) == line.signs \o line.comment

SignsStart(q, line) == Gives(q, <<[kind |-> "bar", n |-> line.n]>>)

IsSignState(q, line, a) ==
  /\ DOMAIN a = {"q", "events", "stop"}
  /\ a.q = [q EXCEPT !.mSigns = a.q.mSigns] /\ a.q.mSigns \in [0 .. 11 -> {-1, 0, 1}]
  /\ a.events = <<[kind |-> "bar", n |-> line.n]>>
  /\ a.stop \in {"no", "throw"}

(* The signs of a bar, one by one. *)
LEMMA SignsFolded ==
  ASSUME NEW base, NEW signs, IsSeq(signs)
  PROVE  \E f : /\ f[0] = base
                /\ \A i \in 1 .. Len(signs) : f[i] = ParseSign(f[i - 1], signs[i])
                /\ SignFold!Iterated(signs, signs, signs, base, signs) = f[Len(signs)]
<1>1. DOMAIN signs = 1 .. Len(signs) /\ Len(signs) \in Nat
  BY DEF IsSeq
<1>2. PICK f : /\ f[0] = base
               /\ \A i \in 1 .. Len(signs) : f[i] = SignStep(signs, signs, signs, f[i - 1], signs[i])
               /\ SignFold!Iterated(signs, signs, signs, base, signs) = f[Len(signs)]
  BY <1>1, SignFold!Unfolds
<1> QED BY <1>1, <1>2 DEF SignStep

LEMMA SignBySign ==
  ASSUME NEW q, NEW line, IsSeq(SignsOf(line))
  PROVE  \E f : /\ f[0] = SignsStart(q, line)
                /\ \A i \in 1 .. Len(SignsOf(line)) :
                     f[i] = ParseSign(f[i - 1], SignsOf(line)[i])
                /\ ParseBar(q, line) = f[Len(SignsOf(line))]
<1> DEFINE signs == SignsOf(line)
<1> HIDE DEF signs
<1>0. IsSeq(signs)
  BY DEF signs
<1>1. PICK f : /\ f[0] = SignsStart(q, line)
               /\ \A i \in 1 .. Len(signs) : f[i] = ParseSign(f[i - 1], signs[i])
               /\ SignFold!Iterated(signs, signs, signs, SignsStart(q, line), signs) = f[Len(signs)]
  BY <1>0, SignsFolded
<1>2. SignFold!Iterated(signs, signs, signs, SignsStart(q, line), signs) = ParseBar(q, line)
  BY DEF signs, SignsOf, ParseBar, SignsStart, FoldLeft, SignFold!Iterated, SignFold!FoldLeft, MapThenFoldSet,
         SignFold!MapThenFoldSet, Max, SignFold!Max, SignStep
<1>3. ParseBar(q, line) = f[Len(signs)]
  BY <1>1, <1>2
<1> QED BY <1>1, <1>3 DEF signs

(* One sign sets the sign of its class, or throws. *)
LEMMA SignIs ==
  ASSUME NEW q, DOMAIN q = Fields, NEW line, NEW a, IsSignState(q, line, a),
         NEW sign, sign.class \in Nat, sign.mod \in {-1, 0, 1}, NEW b0, b0 = ParseSign(a, sign)
  PROVE  /\ IsSignState(q, line, b0)
         /\ a.stop = "no" /\ sign.class # Unset =>
              /\ b0.stop = "no"
              /\ b0.q.mSigns = [a.q.mSigns EXCEPT ![sign.class % 12] = sign.mod]
<1>1. CASE a.stop # "no"
  BY <1>1 DEF ParseSign
<1>2. CASE a.stop = "no" /\ sign.class = Unset
  <2> DEFINE b == [a EXCEPT !.stop = "throw"]
  <2>1. ParseSign(a, sign) = b
    BY <1>2, Zenon DEF ParseSign
  <2>2. DOMAIN b = DOMAIN a /\ b.q = a.q /\ b.events = a.events /\ b.stop = "throw"
    BY DEF IsSignState
  <2> HIDE DEF b
  <2> QED BY <1>2, <2>1, <2>2 DEF IsSignState
<1>3. CASE a.stop = "no" /\ sign.class # Unset
  <2> DEFINE b == [a EXCEPT !.q.mSigns[sign.class % 12] = sign.mod]
             new == [a.q.mSigns EXCEPT ![sign.class % 12] = sign.mod]
  <2>1. ParseSign(a, sign) = b
    BY <1>3, Zenon DEF ParseSign
  <2>2. /\ DOMAIN b = DOMAIN a /\ b.q = [a.q EXCEPT !.mSigns = new] /\ b.events = a.events
        /\ b.stop = a.stop
    BY DEF IsSignState
  <2>3. sign.class % 12 \in 0 .. 11
    OBVIOUS
  <2>4. new \in [0 .. 11 -> {-1, 0, 1}]
    BY <2>3 DEF IsSignState
  <2> HIDE DEF b, new
  <2>5. b.q = [q EXCEPT !.mSigns = new] /\ b.q.mSigns = new
    BY <2>2 DEF IsSignState, Fields
  <2>6. IsSignState(q, line, b)
    BY <1>3, <2>2, <2>4, <2>5 DEF IsSignState
  <2> QED BY <1>3, <2>1, <2>2, <2>5, <2>6 DEF new
<1> QED BY <1>1, <1>2, <1>3

(* What the signs behind a bar are. *)
BarOK(line) ==
  \A signs \in {line.signs, line.comment} :
    /\ signs \in Seq(Range(signs))
    /\ \A sign \in Range(signs) : sign.class \in Nat /\ sign.mod \in {-1, 0, 1}

LEMMA AllSigns ==
  ASSUME NEW line, BarOK(line)
  PROVE  /\ IsSeq(SignsOf(line))
         /\ \A i \in 1 .. Len(SignsOf(line)) :
              SignsOf(line)[i].class \in Nat /\ SignsOf(line)[i].mod \in {-1, 0, 1}
<1> DEFINE S == Range(line.signs) \cup Range(line.comment)
           a == line.signs
           b == line.comment
<1>1. a \in Seq(Range(a)) /\ b \in Seq(Range(b))
  BY DEF BarOK
<1>2. a \in Seq(S) /\ b \in Seq(S)
  <2>1. Range(a) \subseteq S /\ Range(b) \subseteq S
    OBVIOUS
  <2> HIDE DEF S, a, b
  <2> QED BY <1>1, <2>1
<1>3. \A sign \in S : sign.class \in Nat /\ sign.mod \in {-1, 0, 1}
  BY DEF BarOK
<1> HIDE DEF S, a, b
<1>4. a \o b \in Seq(S)
  BY <1>2
<1>5. IsSeq(a \o b) /\ \A i \in 1 .. Len(a \o b) : (a \o b)[i] \in S
  BY <1>4, SeqIsSeq
<1> QED BY <1>3, <1>5 DEF a, b, SignsOf

(* A bar changes the signs and nothing else. *)
LEMMA BarIs ==
  ASSUME NEW q, NEW subs, IsParser(q, subs), NEW line, BarOK(line)
  PROVE  IsSignState(q, line, ParseBar(q, line))
<1> DEFINE signs == SignsOf(line)
           n == Len(signs)
<1>1. /\ IsSeq(signs) /\ n \in Nat
      /\ \A i \in 1 .. n : signs[i].class \in Nat /\ signs[i].mod \in {-1, 0, 1}
  BY AllSigns DEF IsSeq
<1>2. PICK f : /\ f[0] = SignsStart(q, line)
               /\ \A i \in 1 .. n : f[i] = ParseSign(f[i - 1], signs[i])
               /\ ParseBar(q, line) = f[n]
  BY <1>1, SignBySign
<1> HIDE DEF signs, n
<1> DEFINE T == {i \in Nat : IsSignState(q, line, f[i])}
<1>3. 0 \in T
  <2>1. q = [q EXCEPT !.mSigns = q.mSigns]
    BY DEF IsParser, Fields
  <2>2. IsSignState(q, line, SignsStart(q, line))
    BY <2>1 DEF IsSignState, SignsStart, Gives, IsParser
  <2> QED BY <1>2, <2>2
<1>4. \A i \in 0 .. n - 1 : i \in T => i + 1 \in T
  <2> SUFFICES ASSUME NEW i \in 0 .. n - 1, i \in T PROVE i + 1 \in T
    OBVIOUS
  <2>1. /\ i + 1 \in 1 .. n /\ (i + 1) - 1 = i /\ i + 1 \in Nat
    BY <1>1
  <2>2. /\ f[i + 1] = ParseSign(f[i], signs[i + 1]) /\ signs[i + 1].class \in Nat
        /\ signs[i + 1].mod \in {-1, 0, 1}
    BY <1>1, <1>2, <2>1
  <2>3. DOMAIN q = Fields /\ IsSignState(q, line, f[i])
    BY DEF IsParser
  <2>4. IsSignState(q, line, f[i + 1])
    <3> DEFINE sign == signs[i + 1]
               a == f[i]
               b == f[i + 1]
    <3> HIDE DEF sign, a, b, T
    <3> USE <2>2, <2>3 DEF sign, a, b
    <3>1. /\ b = ParseSign(a, sign) /\ sign.class \in Nat /\ sign.mod \in {-1, 0, 1}
          /\ DOMAIN q = Fields /\ IsSignState(q, line, a)
      OBVIOUS
    <3>2. IsSignState(q, line, b)
      <4> HIDE <2>2, <2>3 DEF sign, a, b
      <4> QED BY <3>1, SignIs
    <3> QED BY <3>2
  <2> QED BY <2>1, <2>4
<1>5. n \in T
  <2> HIDE DEF T
  <2>1. \A i \in 0 .. n : i \in T
    BY <1>1, <1>3, <1>4, UpTo
  <2> QED BY <2>1, <1>1
<1> QED BY <1>2, <1>5 DEF n

(* What a bar without a comment, and with signs that can be read, does to  *)
(* the sign of a class: the last sign for it, if there is one.             *)
LEMMA BareBarIs ==
  ASSUME NEW q, NEW subs, IsParser(q, subs), NEW line, BarOK(line), line.comment = <<>>,
         \A i \in 1 .. Len(line.signs) : line.signs[i].class # Unset
  PROVE  LET r == ParseBar(q, line)
             signs == line.signs
         IN  /\ r.stop = "no"
             /\ \A class \in 0 .. 11 :
                  /\ \A j \in 1 .. Len(signs) :
                       /\ signs[j].class % 12 = class
                       /\ \A l \in j + 1 .. Len(signs) : signs[l].class % 12 # class
                       => r.q.mSigns[class] = signs[j].mod
                  /\ (\A j \in 1 .. Len(signs) : signs[j].class % 12 # class)
                       => r.q.mSigns[class] = q.mSigns[class]
<1> DEFINE signs == line.signs
           n == Len(signs)
<1>0. SignsOf(line) = signs
  <2>1. signs \in Seq(Range(signs))
    BY DEF BarOK
  <2> HIDE DEF signs
  <2>2. signs \o <<>> = signs
    BY <2>1
  <2> QED BY <2>2 DEF signs, SignsOf
<1>1. /\ IsSeq(signs) /\ n \in Nat
      /\ \A i \in 1 .. n : signs[i].class \in Nat /\ signs[i].mod \in {-1, 0, 1}
  BY <1>0, AllSigns DEF IsSeq
<1>2. PICK f : /\ f[0] = SignsStart(q, line)
               /\ \A i \in 1 .. n : f[i] = ParseSign(f[i - 1], signs[i])
               /\ ParseBar(q, line) = f[n]
  BY <1>0, <1>1, SignBySign
<1>x. \A i \in 1 .. n : signs[i].class # Unset
  OBVIOUS
<1> HIDE DEF signs, n
<1> DEFINE Said(i) ==
             \A class \in 0 .. 11 :
               /\ \A j \in 1 .. i :
                    (/\ signs[j].class % 12 = class
                     /\ \A l \in j + 1 .. i : signs[l].class % 12 # class)
                    => f[i].q.mSigns[class] = signs[j].mod
               /\ (\A j \in 1 .. i : signs[j].class % 12 # class)
                    => f[i].q.mSigns[class] = q.mSigns[class]
           T == {i \in Nat : IsSignState(q, line, f[i]) /\ f[i].stop = "no" /\ Said(i)}
<1>3. 0 \in T
  <2>1. q = [q EXCEPT !.mSigns = q.mSigns]
    BY DEF IsParser, Fields
  <2>2. /\ IsSignState(q, line, SignsStart(q, line)) /\ SignsStart(q, line).stop = "no"
        /\ SignsStart(q, line).q = q
    BY <2>1 DEF IsSignState, SignsStart, Gives, IsParser
  <2>3. Said(0)
    BY <1>2, <2>2
  <2> HIDE DEF Said
  <2> QED BY <1>2, <2>2, <2>3
<1>4. \A i \in 0 .. n - 1 : i \in T => i + 1 \in T
  <2> SUFFICES ASSUME NEW i \in 0 .. n - 1, i \in T PROVE i + 1 \in T
    OBVIOUS
  <2> DEFINE k == i + 1
             a == f[i]
             b == f[i + 1]
  <2>1. /\ i + 1 \in 1 .. n /\ (i + 1) - 1 = i /\ i + 1 \in Nat
    BY <1>1
  <2>2. /\ b = ParseSign(a, signs[k]) /\ signs[k].class \in Nat
        /\ signs[k].class # Unset
        /\ signs[k].mod \in {-1, 0, 1}
    BY <1>1, <1>2, <1>x, <2>1
  <2>3. IsSignState(q, line, a) /\ a.stop = "no" /\ Said(i)
    OBVIOUS
  <2>4. /\ IsSignState(q, line, b) /\ b.stop = "no"
        /\ b.q.mSigns = [a.q.mSigns EXCEPT ![signs[k].class % 12] = signs[k].mod]
    <3> DEFINE sign == signs[k]
    <3>1. /\ b = ParseSign(a, sign) /\ sign.class \in Nat /\ sign.mod \in {-1, 0, 1}
          /\ DOMAIN q = Fields /\ IsSignState(q, line, a) /\ a.stop = "no" /\ sign.class # Unset
      BY <2>2, <2>3 DEF IsParser
    <3> HIDE DEF Said, sign, a, b, T
    <3>2. /\ IsSignState(q, line, b) /\ b.stop = "no"
          /\ b.q.mSigns = [a.q.mSigns EXCEPT ![sign.class % 12] = sign.mod]
      BY <3>1, SignIs
    <3> QED BY <3>2 DEF sign
  <2>5. signs[k].class % 12 \in 0 .. 11
    <3> DEFINE class == signs[k].class
    <3>1. class \in Nat
      BY <2>2
    <3> HIDE DEF class
    <3>2. class % 12 \in 0 .. 11
      BY <3>1
    <3> QED BY <3>2 DEF class
  <2>6. DOMAIN a.q.mSigns = 0 .. 11
    BY <2>3 DEF IsSignState
  <2>7. Said(k)
    <3> SUFFICES ASSUME NEW class \in 0 .. 11
                 PROVE  /\ \A j \in 1 .. k :
                             (/\ signs[j].class % 12 = class
                              /\ \A l \in j + 1 .. k : signs[l].class % 12 # class)
                             => b.q.mSigns[class] = signs[j].mod
                        /\ (\A j \in 1 .. k : signs[j].class % 12 # class)
                             => b.q.mSigns[class] = q.mSigns[class]
      OBVIOUS
    <3>1. b.q.mSigns[class] = IF signs[k].class % 12 = class THEN signs[k].mod
                              ELSE a.q.mSigns[class]
      BY <2>4, <2>5, <2>6
    <3>2. \A j \in 1 .. i :
            (/\ signs[j].class % 12 = class
             /\ \A l \in j + 1 .. i : signs[l].class % 12 # class)
            => a.q.mSigns[class] = signs[j].mod
      BY <2>3
    <3>3. (\A j \in 1 .. i : signs[j].class % 12 # class) => a.q.mSigns[class] = q.mSigns[class]
      BY <2>3
    <3> HIDE DEF a, b, Said
    <3>4. CASE signs[k].class % 12 = class
      BY <2>1, <3>1, <3>4
    <3>5. CASE signs[k].class % 12 # class
      BY <2>1, <3>1, <3>2, <3>3, <3>5
    <3> QED BY <3>4, <3>5
  <2> HIDE DEF Said
  <2> QED BY <2>1, <2>4, <2>7
<1>5. n \in T
  <2> HIDE DEF T
  <2>1. \A i \in 0 .. n : i \in T
    BY <1>1, <1>3, <1>4, UpTo
  <2> QED BY <2>1, <1>1
<1>6. f[n].stop = "no" /\ Said(n)
  BY <1>5
<1> QED BY <1>2, <1>6 DEF n, signs

(* A port map with more columns. *)
LEMMA WidenedIs ==
  ASSUME NEW map, IsSeq(map), NEW n \in Nat
  PROVE  LET wide == Widened(map, n)
         IN  /\ IsSeq(wide)
             /\ Len(wide) = IF n > Len(map) THEN n ELSE Len(map)
             /\ \A c \in 1 .. Len(map) : wide[c] = map[c]
             /\ \A c \in Len(map) + 1 .. n : wide[c] = [channel |-> 0, port |-> NoPort]
<1> DEFINE none == [channel |-> 0, port |-> NoPort]
           m == n - Len(map)
           more == [c \in 1 .. m |-> none]
           wide == map \o more
           S == Range(map) \cup {none}
<1>1. map \in Seq(S) /\ none \in S /\ Len(map) \in Nat
  <2>1. map \in Seq(Range(map)) /\ Range(map) \subseteq S /\ Len(map) \in Nat
    BY IsSeqIn DEF IsSeq
  <2> HIDE DEF S
  <2>2. map \in Seq(S)
    BY <2>1
  <2> QED BY <2>1, <2>2 DEF S
<1> HIDE DEF S, none
<1>2. CASE n > Len(map)
  <2>1. m \in Nat /\ m = n - Len(map)
    BY <1>1, <1>2
  <2> HIDE DEF m
  <2>2. more \in Seq(S) /\ Len(more) = m /\ \A c \in 1 .. m : more[c] = none
    BY <1>1, <2>1
  <2> HIDE DEF more
  <2>3. /\ wide \in Seq(S) /\ Len(wide) = Len(map) + m
        /\ \A c \in 1 .. Len(wide) : wide[c] = IF c <= Len(map) THEN map[c]
                                               ELSE more[c - Len(map)]
    BY <1>1, <2>1, <2>2
  <2> HIDE DEF wide
  <2>4. IsSeq(wide)
    BY <2>3, SeqIsSeq
  <2>5. Len(wide) = n
    BY <1>1, <2>1, <2>3
  <2>6. \A c \in 1 .. Len(map) : wide[c] = map[c]
    BY <1>1, <2>1, <2>3
  <2>7. \A c \in Len(map) + 1 .. n : wide[c] = none
    <3> SUFFICES ASSUME NEW c \in Len(map) + 1 .. n PROVE wide[c] = none
      OBVIOUS
    <3>1. c \in 1 .. Len(wide) /\ ~(c <= Len(map)) /\ c - Len(map) \in 1 .. m
      BY <1>1, <2>1, <2>5
    <3> QED BY <2>2, <2>3, <3>1
  <2> QED BY <1>2, <2>4, <2>5, <2>6, <2>7 DEF wide, more, m, none, Widened
<1>3. CASE ~(n > Len(map))
  <2>1. more = <<>>
    <3>1. 1 .. m = {}
      BY <1>1, <1>3
    <3> QED BY <3>1
  <2> HIDE DEF more
  <2>2. wide = map
    BY <1>1, <2>1
  <2>3. Len(map) + 1 .. n = {}
    BY <1>1, <1>3
  <2> QED BY <1>3, <2>2, <2>3 DEF more, m, none, Widened
<1> QED BY <1>2, <1>3

(* A port for some columns leaves all others their own. *)
LEMMA PortIs ==
  ASSUME NEW q, NEW subs, IsParser(q, subs), NEW line,
         line.first \in Nat \ {0}, line.last \in Nat
  PROVE  /\ ParsePort(q, line) = [q EXCEPT !.mColumnMap = ParsePort(q, line).mColumnMap]
         /\ IsSeq(ParsePort(q, line).mColumnMap)
         /\ \A c \in Columns :
              GetPortMap(ParsePort(q, line), c)
                = IF c + 1 \in line.first .. line.last
                  THEN [channel |-> IF line.channel = Unset THEN junk.channel ELSE line.channel,
                        port |-> line.port]
                  ELSE GetPortMap(q, c)
<1> DEFINE given == [channel |-> IF line.channel = Unset THEN junk.channel ELSE line.channel,
                     port |-> line.port]
           none == [channel |-> 0, port |-> NoPort]
           old == q.mColumnMap
           map == Widened(old, line.last)
           new == [c \in DOMAIN map |-> IF c \in line.first .. line.last THEN given ELSE map[c]]
           r == ParsePort(q, line)
<1>1. r = [q EXCEPT !.mColumnMap = new]
  BY DEF ParsePort
<1>2. IsSeq(old)
  BY DEF IsParser
<1> HIDE DEF old
<1>3. /\ IsSeq(map) /\ Len(map) = IF line.last > Len(old) THEN line.last ELSE Len(old)
      /\ \A c \in 1 .. Len(old) : map[c] = old[c]
      /\ \A c \in Len(old) + 1 .. line.last : map[c] = none
  BY <1>2, WidenedIs
<1> HIDE DEF map, given, none
<1>4. Len(old) \in Nat /\ Len(map) \in Nat /\ DOMAIN map = 1 .. Len(map)
  BY <1>2, <1>3 DEF IsSeq
<1>5. new \in Seq(Range(new)) /\ Len(new) = Len(map)
  <2>1. new \in [1 .. Len(map) -> Range(new)]
    BY <1>4 DEF Range
  <2> HIDE DEF new
  <2> QED BY <1>4, <2>1
<1>6. \A c \in 1 .. Len(map) : new[c] = IF c \in line.first .. line.last THEN given ELSE map[c]
  BY <1>4
<1> HIDE DEF new, r
<1>7. r.mColumnMap = new /\ q.mColumnMap = old
  BY <1>1 DEF IsParser, Fields, old
<1>8. IsSeq(new)
  BY <1>5, SeqIsSeq
<1>9. ASSUME NEW c \in Columns
      PROVE  GetPortMap(r, c) = IF c + 1 \in line.first .. line.last THEN given
                                ELSE GetPortMap(q, c)
  <2>0. c \in Nat
    BY ParserAssumption DEF Columns
  <2>1. GetPortMap(r, c) = IF c >= Len(new) THEN none ELSE new[c + 1]
    BY <1>7 DEF GetPortMap, none
  <2>2. GetPortMap(q, c) = IF c >= Len(old) THEN none ELSE old[c + 1]
    BY <1>7 DEF GetPortMap, none
  <2>3. CASE c + 1 \in line.first .. line.last
    <3>1. c + 1 \in 1 .. Len(map) /\ ~(c >= Len(map))
      BY <1>3, <1>4, <2>0, <2>3
    <3> QED BY <1>5, <1>6, <2>1, <2>3, <3>1
  <2>4. CASE c + 1 \notin line.first .. line.last
    <3>1. CASE c >= Len(map)
      <4>1. c >= Len(old)
        BY <1>3, <1>4, <2>0, <3>1
      <4> QED BY <1>5, <2>1, <2>2, <2>4, <3>1, <4>1
    <3>2. CASE ~(c >= Len(map)) /\ c >= Len(old)
      <4>1. c + 1 \in Len(old) + 1 .. line.last /\ c + 1 \in 1 .. Len(map)
        BY <1>3, <1>4, <2>0, <3>2
      <4>2. new[c + 1] = none
        BY <1>3, <1>6, <2>4, <4>1
      <4> QED BY <1>5, <2>1, <2>2, <2>4, <3>2, <4>2
    <3>3. CASE ~(c >= Len(map)) /\ ~(c >= Len(old))
      <4>1. c + 1 \in 1 .. Len(old) /\ c + 1 \in 1 .. Len(map)
        BY <1>4, <2>0, <3>3
      <4>2. new[c + 1] = old[c + 1]
        BY <1>3, <1>6, <2>4, <4>1
      <4> QED BY <1>5, <2>1, <2>2, <2>4, <3>3, <4>2
    <3> QED BY <3>1, <3>2, <3>3
  <2> QED BY <2>3, <2>4
<1> QED BY <1>1, <1>7, <1>8, <1>9 DEF r, given

(* A default note sets what "*" stands for, if it can be read. *)
LEMMA DefaultLineIs ==
  ASSUME NEW q, NEW subs, IsParser(q, subs), NEW w, IsWord(w)
  PROVE  LET r == ParseDefault(q, w)
         IN  /\ DOMAIN r = {"q", "events", "stop"} /\ r.events = <<>>
             /\ r.stop = IF w.is = "note" THEN "no" ELSE "throw"
             /\ r.q = [q EXCEPT !.mDfltNote = r.q.mDfltNote]
             /\ "pitch" \in DOMAIN r.q.mDfltNote
             /\ r.q.mDfltNote.pitch = IF w.is = "note" THEN Pitch(w) ELSE q.mDfltNote.pitch
<1> DEFINE n == NoteEvent(w, 0)
           new == [pitch |-> n.pitch, volume |-> n.volume]
           r == ParseDefault(q, w)
<1>1. n.pitch = Pitch(w)
  BY PitchIs
<1> HIDE DEF n
<1>2. DOMAIN new = {"pitch", "volume"} /\ new.pitch = Pitch(w)
  BY <1>1
<1>3. CASE w.is = "note"
  <2>1. r = Gives([q EXCEPT !.mDfltNote = new], <<>>)
    BY <1>3 DEF ParseDefault, n
  <2> HIDE DEF new, r
  <2>2. /\ DOMAIN r = {"q", "events", "stop"} /\ r.events = <<>> /\ r.stop = "no"
        /\ r.q = [q EXCEPT !.mDfltNote = new]
    BY <2>1 DEF Gives
  <2>3. r.q.mDfltNote = new
    BY <2>2 DEF IsParser, Fields
  <2> QED BY <1>2, <1>3, <2>2, <2>3 DEF r
<1>4. CASE w.is # "note"
  <2>1. r = [Gives(q, <<>>) EXCEPT !.stop = "throw"]
    BY <1>4 DEF ParseDefault
  <2> HIDE DEF r
  <2>2. /\ DOMAIN r = {"q", "events", "stop"} /\ r.events = <<>> /\ r.stop = "throw" /\ r.q = q
    BY <2>1 DEF Gives
  <2>3. q = [q EXCEPT !.mDfltNote = q.mDfltNote] /\ "pitch" \in DOMAIN q.mDfltNote
    BY DEF IsParser, Fields
  <2> QED BY <1>4, <2>2, <2>3 DEF r
<1> QED BY <1>3, <1>4

LineKinds ==
  {"words", "bar", "default", "alias", "define", "unalias", "volume", "transpose", "port",
   "end", "loop", "endloop", "tempo", "wait"}

(* What kinds of lines there are. *)
LEMMA LineKind ==
  ASSUME NEW line, IsLine(line)
  PROVE  line.is \in LineKinds
BY DEF IsLine, LineKinds

(* What each kind of line does. *)
LEMMA ByKind ==
  ASSUME NEW q, NEW line
  PROVE  /\ line.is = "bar" => ParseLine(q, line) = ParseBar(q, line)
         /\ line.is = "define" =>
              ParseLine(q, line) = Gives(q, <<[kind |-> "define", name |-> line.name]>>)
         /\ line.is = "end" => ParseLine(q, line) = Gives(q, <<[kind |-> "end"]>>)
         /\ line.is = "default" => ParseLine(q, line) = ParseDefault(q, line.word)
         /\ line.is = "volume" =>
              ParseLine(q, line) = Gives([q EXCEPT !.mVolume = line.n], <<>>)
         /\ line.is = "transpose" =>
              ParseLine(q, line) = Gives([q EXCEPT !.mTranspose = line.n], <<>>)
         /\ line.is = "port" => ParseLine(q, line) = Gives(ParsePort(q, line), <<>>)
         /\ line.is = "alias" =>
              ParseLine(q, line)
                = Gives([q EXCEPT !.mAliases = Put(@, line.name, line.word)], <<>>)
         /\ line.is = "unalias" =>
              ParseLine(q, line)
                = Gives([q EXCEPT !.mAliases = Restrict(@, DOMAIN @ \ {line.name})], <<>>)
         /\ line.is = "loop" =>
              ParseLine(q, line) = Gives(q, <<[kind |-> "loop", count |-> line.n]>>)
         /\ line.is = "endloop" => ParseLine(q, line) = Gives(q, <<[kind |-> "endloop"]>>)
         /\ line.is \in {"tempo", "wait"} =>
              ParseLine(q, line) = Gives(q, <<[kind |-> line.is, n |-> line.n]>>)
         /\ line.is = "words" => ParseLine(q, line) = ParsePattern(q, line)
BY DEF ParseLine

(* What the parts of a line may be. *)
LEMMA LineParts ==
  ASSUME NEW line, IsLine(line)
  PROVE  /\ line.is = "words" => IsWords(line.words) /\ Len(line.words) <= MaxColumn + 1
         /\ line.is = "bar" => BarOK(line)
         /\ line.is = "default" => IsWord(line.word)
         /\ line.is = "alias" => line.name # NoName /\ IsWord(line.word)
         /\ line.is \in {"define", "unalias"} => line.name # NoName
         /\ line.is = "volume" => line.n \in 0 .. Unset
         /\ line.is = "transpose" => line.n \in Int
         /\ line.is = "port" => line.first \in Nat \ {0} /\ line.last \in Nat
BY DEF IsLine, BarOK

(* One event is a sequence of events. *)
LEMMA OneEvent ==
  ASSUME NEW e
  PROVE  IsSeq(<<e>>) /\ Len(<<e>>) = 1 /\ <<e>>[1] = e /\ IsSeq(<<>>) /\ Len(<<>>) = 0
BY DEF IsSeq

(* What a line leaves of the parser, and its events, when subs are the     *)
(* subpatterns that the parser knows.                                      *)
LineKeeps(q, line, subs, r) ==
  /\ IsParser(r.q, subs) /\ IsSeq(r.events)
  /\ r.stop \in {"no", "comment", "throw", "assert"}
  /\ r.q.mSong = q.mSong /\ r.q.mSubSeqMap = q.mSubSeqMap
  /\ line.is = "define" => /\ r.events = <<[kind |-> "define", name |-> line.name]>>
                           /\ r.stop = "no"
  /\ line.is = "end" => r.events = <<[kind |-> "end"]>> /\ r.stop = "no"
  /\ line.is \notin {"define", "end"} => \A j \in 1 .. Len(r.events) : IsEvent(r.events[j], subs)
  /\ line.is # "words" => r.q.mLastNote = q.mLastNote
  /\ line.is # "bar" => r.q.mSigns = q.mSigns
  /\ line.is # "port" => r.q.mColumnMap = q.mColumnMap
  /\ r.q.mVolume = IF line.is = "volume" THEN line.n ELSE q.mVolume
  /\ r.q.mTranspose = IF line.is = "transpose" THEN line.n ELSE q.mTranspose
  /\ r.q.mDfltNote.pitch = IF line.is = "default" /\ line.word.is = "note" THEN Pitch(line.word)
                           ELSE q.mDfltNote.pitch
  /\ line.is = "alias" => r.q.mAliases = Put(q.mAliases, line.name, line.word)
  /\ line.is = "unalias" =>
       r.q.mAliases = Restrict(q.mAliases, DOMAIN q.mAliases \ {line.name})
  /\ line.is \notin {"alias", "unalias"} => r.q.mAliases = q.mAliases

LEMMA LineIs ==
  ASSUME NEW q, NEW subs, IsParser(q, subs), NEW line, IsLine(line)
  PROVE  LineKeeps(q, line, subs, ParseLine(q, line))
<1> DEFINE r == ParseLine(q, line)
<1>0. line.is \in LineKinds
  BY LineKind
<1>1. CASE line.is = "bar"
  <2>1. IsSignState(q, line, ParseBar(q, line))
    BY <1>1, BarIs, LineParts
  <2>2. IsSignState(q, line, r)
    BY <1>1, <2>1, ByKind
  <2> HIDE DEF r
  <2>3. IsParser(r.q, subs) /\ \A x \in Fields \ {"mSigns"} : r.q[x] = q[x]
    BY <2>2 DEF IsSignState, IsParser, Fields
  <2>4. IsSeq(r.events) /\ \A j \in 1 .. Len(r.events) : IsEvent(r.events[j], subs)
    BY <2>2, OneEvent DEF IsSignState, IsEvent
  <2> QED BY <1>1, <2>2, <2>3, <2>4 DEF LineKeeps, IsSignState, Fields, r
<1>2. CASE line.is \in {"define", "end", "loop", "endloop", "tempo", "wait"}
  <2>1. PICK e : /\ r = Gives(q, <<e>>)
                 /\ e.kind = line.is
                 /\ line.is = "define" => e = [kind |-> "define", name |-> line.name]
                 /\ line.is = "end" => e = [kind |-> "end"]
    <3>1. CASE line.is = "define"
      <4> WITNESS [kind |-> "define", name |-> line.name]
      <4> QED BY <3>1, ByKind
    <3>2. CASE line.is = "end"
      <4> WITNESS [kind |-> "end"]
      <4> QED BY <3>2, ByKind
    <3>3. CASE line.is = "loop"
      <4> WITNESS [kind |-> "loop", count |-> line.n]
      <4> QED BY <3>3, ByKind
    <3>4. CASE line.is = "endloop"
      <4> WITNESS [kind |-> "endloop"]
      <4> QED BY <3>4, ByKind
    <3>5. CASE line.is \in {"tempo", "wait"}
      <4> WITNESS [kind |-> line.is, n |-> line.n]
      <4> QED BY <3>5, ByKind
    <3> QED BY <1>2, <3>1, <3>2, <3>3, <3>4, <3>5
  <2> HIDE DEF r
  <2>2. r.q = q /\ r.events = <<e>> /\ r.stop = "no"
    BY <2>1 DEF Gives
  <2>3. IsSeq(r.events) /\ Len(r.events) = 1 /\ r.events[1] = e
    BY <2>2, OneEvent
  <2>4. line.is \notin {"define", "end"} => IsEvent(e, subs)
    BY <1>2, <2>1 DEF IsEvent
  <2> QED BY <1>2, <2>1, <2>2, <2>3, <2>4 DEF LineKeeps, r
<1>3. CASE line.is = "default"
  <2> DEFINE d == ParseDefault(q, line.word)
  <2>1. r = d /\ IsWord(line.word)
    BY <1>3, ByKind, LineParts
  <2>2. /\ d.events = <<>>
        /\ d.stop = IF line.word.is = "note" THEN "no" ELSE "throw"
        /\ d.q = [q EXCEPT !.mDfltNote = d.q.mDfltNote]
        /\ "pitch" \in DOMAIN d.q.mDfltNote
        /\ d.q.mDfltNote.pitch = IF line.word.is = "note" THEN Pitch(line.word)
                                 ELSE q.mDfltNote.pitch
    BY <2>1, DefaultLineIs
  <2> HIDE DEF d, r
  <2>3. IsParser(d.q, subs) /\ \A x \in Fields \ {"mDfltNote"} : d.q[x] = q[x]
    BY <2>2 DEF IsParser, Fields
  <2>4. IsSeq(d.events) /\ Len(d.events) = 0
    BY <2>2, OneEvent
  <2> QED BY <1>3, <2>1, <2>2, <2>3, <2>4 DEF LineKeeps, Fields, r
<1>4. CASE line.is = "volume"
  <2>1. r = Gives([q EXCEPT !.mVolume = line.n], <<>>) /\ line.n \in Nat
    <3>1. line.n \in 0 .. Unset /\ Unset \in Int
      BY <1>4, LineParts, ParserAssumption DEF Unset
    <3>2. line.n \in Nat
      BY <3>1
    <3> QED BY <1>4, <3>2, ByKind
  <2> HIDE DEF r
  <2>2. r.q = [q EXCEPT !.mVolume = line.n] /\ r.events = <<>> /\ r.stop = "no"
    BY <2>1 DEF Gives
  <2>3. /\ IsParser(r.q, subs) /\ r.q.mVolume = line.n
        /\ \A x \in Fields \ {"mVolume"} : r.q[x] = q[x]
    BY <2>1, <2>2 DEF IsParser, Fields
  <2>4. IsSeq(r.events) /\ Len(r.events) = 0
    BY <2>2, OneEvent
  <2> QED BY <1>4, <2>2, <2>3, <2>4 DEF LineKeeps, Fields, r
<1>5. CASE line.is = "transpose"
  <2>1. r = Gives([q EXCEPT !.mTranspose = line.n], <<>>) /\ line.n \in Int
    BY <1>5, ByKind, LineParts
  <2> HIDE DEF r
  <2>2. r.q = [q EXCEPT !.mTranspose = line.n] /\ r.events = <<>> /\ r.stop = "no"
    BY <2>1 DEF Gives
  <2>3. /\ IsParser(r.q, subs) /\ r.q.mTranspose = line.n
        /\ \A x \in Fields \ {"mTranspose"} : r.q[x] = q[x]
    BY <2>1, <2>2 DEF IsParser, Fields
  <2>4. IsSeq(r.events) /\ Len(r.events) = 0
    BY <2>2, OneEvent
  <2> QED BY <1>5, <2>2, <2>3, <2>4 DEF LineKeeps, Fields, r
<1>6. CASE line.is = "port"
  <2> DEFINE p == ParsePort(q, line)
  <2>1. r = Gives(p, <<>>)
    BY <1>6, ByKind
  <2>2. p = [q EXCEPT !.mColumnMap = p.mColumnMap] /\ IsSeq(p.mColumnMap)
    BY <1>6, LineParts, PortIs
  <2> HIDE DEF r, p
  <2>3. r.q = p /\ r.events = <<>> /\ r.stop = "no"
    BY <2>1 DEF Gives
  <2>4. IsParser(p, subs) /\ \A x \in Fields \ {"mColumnMap"} : p[x] = q[x]
    BY <2>2 DEF IsParser, Fields
  <2>5. IsSeq(r.events) /\ Len(r.events) = 0
    BY <2>3, OneEvent
  <2> QED BY <1>6, <2>3, <2>4, <2>5 DEF LineKeeps, Fields, r
<1>7. CASE line.is = "alias"
  <2> DEFINE new == Put(q.mAliases, line.name, line.word)
  <2>1. /\ r = Gives([q EXCEPT !.mAliases = new], <<>>)
        /\ line.name # NoName /\ IsWord(line.word)
    BY <1>7, ByKind, LineParts
  <2>2. \A name \in DOMAIN new : name # NoName /\ IsWord(new[name])
    <3> DEFINE old == q.mAliases
               name == line.name
               word == line.word
    <3>1. \A x \in DOMAIN old : x # NoName /\ IsWord(old[x])
      BY DEF IsParser
    <3> HIDE DEF old, name, word
    <3>2. /\ DOMAIN Put(old, name, word) = DOMAIN old \cup {name}
          /\ Put(old, name, word)[name] = word
          /\ \A x \in DOMAIN old \ {name} : Put(old, name, word)[x] = old[x]
      BY DEF Put, Overlaid
    <3>3. name # NoName /\ IsWord(word)
      BY <2>1 DEF name, word
    <3>4. \A x \in DOMAIN Put(old, name, word) : x # NoName /\ IsWord(Put(old, name, word)[x])
      BY <3>1, <3>2, <3>3
    <3> QED BY <3>4 DEF old, name, word
  <2> HIDE DEF r, new
  <2>3. r.q = [q EXCEPT !.mAliases = new] /\ r.events = <<>> /\ r.stop = "no"
    BY <2>1 DEF Gives
  <2>4. /\ IsParser(r.q, subs) /\ r.q.mAliases = new
        /\ \A x \in Fields \ {"mAliases"} : r.q[x] = q[x]
    BY <2>2, <2>3 DEF IsParser, Fields
  <2>5. IsSeq(r.events) /\ Len(r.events) = 0
    BY <2>3, OneEvent
  <2> QED BY <1>7, <2>3, <2>4, <2>5 DEF LineKeeps, Fields, r, new
<1>8. CASE line.is = "unalias"
  <2> DEFINE new == Restrict(q.mAliases, DOMAIN q.mAliases \ {line.name})
  <2>1. r = Gives([q EXCEPT !.mAliases = new], <<>>)
    BY <1>8, ByKind
  <2>2. \A name \in DOMAIN new : name # NoName /\ IsWord(new[name])
    BY DEF IsParser, Restrict
  <2> HIDE DEF r, new
  <2>3. r.q = [q EXCEPT !.mAliases = new] /\ r.events = <<>> /\ r.stop = "no"
    BY <2>1 DEF Gives
  <2>4. /\ IsParser(r.q, subs) /\ r.q.mAliases = new
        /\ \A x \in Fields \ {"mAliases"} : r.q[x] = q[x]
    BY <2>2, <2>3 DEF IsParser, Fields
  <2>5. IsSeq(r.events) /\ Len(r.events) = 0
    BY <2>3, OneEvent
  <2> QED BY <1>8, <2>3, <2>4, <2>5 DEF LineKeeps, Fields, r, new
<1>9. CASE line.is = "words"
  <2>1. IsReading(q, subs, ParsePattern(q, line), Len(line.words))
    BY <1>9, LineParts, PatternIs
  <2>2. r = ParsePattern(q, line)
    BY <1>9, ByKind
  <2> DEFINE n == Len(line.words)
  <2> HIDE DEF r, n
  <2>3. IsReading(q, subs, r, n)
    BY <2>1, <2>2 DEF n
  <2>4. IsParser(r.q, subs) /\ \A x \in Fields \ {"mLastNote"} : r.q[x] = q[x]
    BY <2>3 DEF IsReading, IsParser, Fields
  <2> QED BY <1>9, <2>3, <2>4 DEF LineKeeps, IsReading, Fields, r
<1> QED BY <1>0, <1>1, <1>2, <1>3, <1>4, <1>5, <1>6, <1>7, <1>8, <1>9 DEF LineKinds
-----------------------------------------------------------------------------
(* The largest of a set of line numbers. *)

(* A set of numbers that has an upper bound has a largest one. *)
LEMMA MaxOf ==
  ASSUME NEW n \in Nat, NEW S, S \subseteq 0 .. n, S # {}
  PROVE  Max(S) \in S /\ \A x \in S : x <= Max(S)
<1> DEFINE T == {k \in Nat : S \cap (0 .. k) # {} =>
                               \E x \in S \cap (0 .. k) : \A y \in S \cap (0 .. k) : x >= y}
<1>1. 0 \in T
  <2>1. S \cap (0 .. 0) # {} => 0 \in S \cap (0 .. 0) /\ \A y \in S \cap (0 .. 0) : 0 >= y
    OBVIOUS
  <2> QED BY <2>1
<1>2. ASSUME NEW k \in T PROVE k + 1 \in T
  <2>1. CASE k + 1 \in S
    BY <2>1
  <2>2. CASE k + 1 \notin S
    <3>1. S \cap (0 .. k + 1) = S \cap (0 .. k)
      BY <2>2
    <3> QED BY <3>1
  <2> QED BY <2>1, <2>2
<1>3. T \in SUBSET Nat
  OBVIOUS
<1>4. T = Nat
  <2> HIDE DEF T
  <2> QED BY <1>1, <1>2, <1>3, WordFold!SetInduction
<1>5. n \in T /\ S \cap (0 .. n) = S
  BY <1>4
<1>6. \E x \in S : \A y \in S : x >= y
  BY <1>5
<1>7. Max(S) \in S /\ \A y \in S : Max(S) >= y
  BY <1>6 DEF Max
<1> QED BY <1>7

(* And there is only one. *)
LEMMA MaxIs ==
  ASSUME NEW S, S \subseteq Int, NEW x \in S, \A y \in S : y <= x
  PROVE  Max(S) = x
<1>1. \A z \in S : (\A y \in S : z >= y) => z = x
  OBVIOUS
<1> QED BY <1>1 DEF Max
-----------------------------------------------------------------------------
(* A text and the text with one more line. *)

TextOK == IsSeq(text) /\ \A k \in 1 .. Len(text) : IsLine(text[k])

(* The lines of a text are numbered from 1. *)
LEMMA LinesAre ==
  ASSUME TextOK, NEW kind
  PROVE  LinesOf(kind) \subseteq 1 .. Len(text) /\ Len(text) \in Nat
         /\ DOMAIN text = 1 .. Len(text)
BY DEF TextOK, LinesOf, IsSeq

Grows(line) == text' = Append(text, line) /\ IsLine(line)

(* One more line leaves the lines above it. *)
LEMMA Grown ==
  ASSUME TextOK, NEW line, Grows(line), NEW n, n = Len(text)
  PROVE  /\ n \in Nat /\ Len(text') = n + 1 /\ TextOK'
         /\ \A k \in 1 .. n : text'[k] = text[k]
         /\ text'[n + 1] = line
         /\ DOMAIN text = 1 .. n /\ DOMAIN text' = 1 .. n + 1
         /\ \A kind : LinesOf(kind) \subseteq 1 .. n
         /\ \A kind : LinesOf(kind)' = LinesOf(kind) \cup (IF line.is = kind THEN {n + 1} ELSE {})
<1>1. /\ Len(text) \in Nat /\ DOMAIN text = 1 .. Len(text)
      /\ IsSeq(text') /\ Len(text') = Len(text) + 1 /\ DOMAIN text' = 1 .. Len(text) + 1
      /\ \A k \in 1 .. Len(text) : text'[k] = text[k]
      /\ text'[Len(text) + 1] = line
  BY Appended, IsSeqIn DEF TextOK, Grows, IsSeq
<1>2. \A k \in 1 .. n + 1 : k \in 1 .. n \/ k = n + 1
  BY <1>1
<1>3. TextOK'
  BY <1>1, <1>2 DEF TextOK, Grows
<1>4. ASSUME NEW kind
      PROVE  /\ LinesOf(kind) \subseteq 1 .. n
             /\ LinesOf(kind)' = LinesOf(kind) \cup (IF line.is = kind THEN {n + 1} ELSE {})
  <2>1. LinesOf(kind)' = {k \in 1 .. n + 1 : text'[k].is = kind}
    BY <1>1 DEF LinesOf
  <2>2. LinesOf(kind) = {k \in 1 .. n : text[k].is = kind}
    BY <1>1 DEF LinesOf
  <2>3. \A k : k \in LinesOf(kind)' <=> (k \in LinesOf(kind) \/ (k = n + 1 /\ line.is = kind))
    BY <1>1, <1>2, <2>1, <2>2
  <2> QED BY <2>2, <2>3
<1> QED BY <1>1, <1>3, <1>4

(* What there is of a text and of the text with one more line. *)
LEMMA GrownText ==
  ASSUME TextOK, NEW line, Grows(line), NEW n, n = Len(text)
  PROVE  /\ n \in Nat /\ DOMAIN text = 1 .. n
         /\ Len(text') = n + 1 /\ Len(text)' = n + 1 /\ DOMAIN text' = 1 .. n + 1
         /\ \A k \in 1 .. n : text'[k] = text[k]
         /\ text'[n + 1] = line
BY Appended, IsSeqIn DEF TextOK, Grows, IsSeq

(* Nothing changes in the numbers of lines up to line n. *)
LEMMA CountStable ==
  ASSUME TextOK, NEW line, Grows(line), NEW n, n = Len(text),
         NEW kind, NEW d, NEW i \in Int, i <= n
  PROVE  Count(kind, d, i)' = Count(kind, d, i)
<1>1. {j \in LinesOf(kind)' : d <= j /\ j <= i} = {j \in LinesOf(kind) : d <= j /\ j <= i}
  <2>1. /\ n \in Nat /\ LinesOf(kind) \subseteq 1 .. n
        /\ LinesOf(kind)' = LinesOf(kind) \cup (IF line.is = kind THEN {n + 1} ELSE {})
    BY Grown
  <2>2. ~(n + 1 <= i)
    BY <2>1
  <2> QED BY <2>1, <2>2
<1> QED BY <1>1 DEF Count

(* A definition that is open before line k stays so. *)
LEMMA OpenAtStable ==
  ASSUME TextOK, NEW line, Grows(line), NEW n, n = Len(text),
         NEW d \in Nat, NEW k \in 1 .. n + 1
  PROVE  OpenAt(d, k)' = OpenAt(d, k)
<1>0. n \in Nat
  BY Grown
<1>1. \A i \in d .. k - 1 : i \in Int /\ i <= n
  BY <1>0
<1>2. \A i \in d .. k - 1 : /\ Count("define", d, i)' = Count("define", d, i)
                            /\ Count("end", d, i)' = Count("end", d, i)
  BY <1>1, CountStable
<1> QED BY <1>2 DEF OpenAt

(* The owner of a line is decided by the lines above it. *)
LEMMA OwnerStable ==
  ASSUME TextOK, NEW line, Grows(line), NEW n, n = Len(text), NEW k \in 1 .. n + 1
  PROVE  Owner(k)' = Owner(k)
<1>1. /\ n \in Nat /\ LinesOf("define") \subseteq 1 .. n
      /\ LinesOf("define")'
           = LinesOf("define") \cup (IF line.is = "define" THEN {n + 1} ELSE {})
  BY Grown
<1>2. \A d \in LinesOf("define") : OpenAt(d, k)' = OpenAt(d, k)
  <2>1. \A d \in LinesOf("define") : d \in Nat
    BY <1>1
  <2> QED BY <2>1, OpenAtStable
<1>3. {d \in LinesOf("define")' : d < k /\ OpenAt(d, k)'}
        = {d \in LinesOf("define") : d < k /\ OpenAt(d, k)}
  BY <1>1, <1>2
<1> QED BY <1>3 DEF Owner

(* The owner of a line is above it: the last definition that is open. *)
LEMMA OwnerIs ==
  ASSUME TextOK, NEW k \in Nat \ {0}
  PROVE  /\ Owner(k) \in 0 .. k - 1
         /\ Owner(k) = 0 \/ (Owner(k) \in LinesOf("define") /\ OpenAt(Owner(k), k))
         /\ \A d \in LinesOf("define") : d < k /\ OpenAt(d, k) => d <= Owner(k)
<1> DEFINE S == {0} \cup {d \in LinesOf("define") : d < k /\ OpenAt(d, k)}
<1>1. S \subseteq 0 .. k - 1 /\ S # {} /\ k - 1 \in Nat
  BY LinesAre
<1>2. Max(S) \in S /\ \A x \in S : x <= Max(S)
  <2> HIDE DEF S
  <2> QED BY <1>1, MaxOf
<1>3. Owner(k) = Max(S)
  BY DEF Owner
<1> QED BY <1>1, <1>2, <1>3

(* One more line counts from its own number on. *)
LEMMA CountNext ==
  ASSUME TextOK, NEW line, Grows(line), NEW n, n = Len(text),
         NEW kind, NEW d \in 1 .. n + 1
  PROVE  /\ Count(kind, d, n) \in Nat
         /\ Count(kind, n + 1, n) = 0
         /\ Count(kind, d, n + 1)' = Count(kind, d, n) + (IF line.is = kind THEN 1 ELSE 0)
<1> DEFINE S(e) == {j \in LinesOf(kind) : e <= j /\ j <= n}
           U == {j \in LinesOf(kind)' : d <= j /\ j <= n + 1}
<1>1. /\ n \in Nat /\ LinesOf(kind) \subseteq 1 .. n
      /\ LinesOf(kind)' = LinesOf(kind) \cup (IF line.is = kind THEN {n + 1} ELSE {})
  BY Grown
<1>2. IsFiniteSet(S(d)) /\ Cardinality(S(d)) \in Nat /\ n + 1 \notin S(d)
  <2>1. IsFiniteSet(1 .. n) /\ S(d) \subseteq 1 .. n
    BY <1>1, FS_Interval
  <2> HIDE DEF S
  <2>2. IsFiniteSet(S(d))
    BY <2>1, FS_Subset
  <2> QED BY <1>1, <2>1, <2>2, FS_CardinalityType
<1>3. S(n + 1) = {}
  BY <1>1
<1>4. Cardinality(U) = Cardinality(S(d)) + (IF line.is = kind THEN 1 ELSE 0)
  <2>1. CASE line.is = kind
    <3>1. U = S(d) \cup {n + 1}
      BY <1>1, <2>1
    <3> HIDE DEF U, S
    <3>2. Cardinality(S(d) \cup {n + 1}) = Cardinality(S(d)) + 1
      BY <1>2, FS_AddElement
    <3> QED BY <2>1, <3>1, <3>2
  <2>2. CASE line.is # kind
    <3>1. U = S(d)
      BY <1>1, <2>2
    <3> HIDE DEF U, S
    <3> QED BY <1>2, <2>2, <3>1
  <2> QED BY <2>1, <2>2
<1>5. Cardinality({}) = 0
  BY FS_EmptySet
<1> QED BY <1>2, <1>3, <1>4, <1>5 DEF Count

(* A definition stays open behind one more line if more definitions begin  *)
(* than end up to that line.                                               *)
LEMMA OpenAtNext ==
  ASSUME TextOK, NEW line, Grows(line), NEW n, n = Len(text), NEW d \in 1 .. n + 1
  PROVE  OpenAt(d, n + 2)'
           <=> /\ d <= n => OpenAt(d, n + 1)
               /\ Count("define", d, n) + (IF line.is = "define" THEN 1 ELSE 0)
                    > Count("end", d, n) + (IF line.is = "end" THEN 1 ELSE 0)
<1>0. n \in Nat
  BY Grown
<1>1. \A i \in d .. n : /\ Count("define", d, i)' = Count("define", d, i)
                        /\ Count("end", d, i)' = Count("end", d, i)
  <2>1. \A i \in d .. n : i \in Int /\ i <= n
    BY <1>0
  <2> QED BY <2>1, CountStable
<1>2. /\ Count("define", d, n + 1)'
           = Count("define", d, n) + (IF line.is = "define" THEN 1 ELSE 0)
      /\ Count("end", d, n + 1)' = Count("end", d, n) + (IF line.is = "end" THEN 1 ELSE 0)
  BY CountNext
<1>3. OpenAt(d, n + 2)'
        <=> \A i \in d .. (n + 2) - 1 : Count("define", d, i)' > Count("end", d, i)'
  BY DEF OpenAt
<1>4. \A i : i \in d .. (n + 2) - 1 <=> (i \in d .. n \/ i = n + 1)
  BY <1>0
<1>5. OpenAt(d, n + 1) <=> \A i \in d .. n : Count("define", d, i) > Count("end", d, i)
  <2>1. (n + 1) - 1 = n
    BY <1>0
  <2> QED BY <2>1 DEF OpenAt
<1>6. OpenAt(d, n + 2)'
        <=> /\ \A i \in d .. n : Count("define", d, i)' > Count("end", d, i)'
            /\ Count("define", d, n + 1)' > Count("end", d, n + 1)'
  BY <1>3, <1>4
<1>7. (\A i \in d .. n : Count("define", d, i)' > Count("end", d, i)') <=> OpenAt(d, n + 1)
  BY <1>1, <1>5
<1>8. d <= n \/ d .. n = {}
  BY <1>0
<1> QED BY <1>2, <1>5, <1>6, <1>7, <1>8
-----------------------------------------------------------------------------
(* The definitions that are being read, and the parsers there are. *)

StillReading == state \in {"reading", "aborted"}

OpenOK ==
  /\ state \in {"reading", "ended", "done", "aborted"} /\ junk \in Junk
  /\ IsSeq(open) /\ (Len(open) = 0 <=> state = "done")
  /\ Len(open) > 0 => open[1].id = 0
  /\ \A j \in 2 .. Len(open) : /\ open[j].id \in LinesOf("define")
                               /\ open[j].name = text[open[j].id].name
  /\ \A i, j \in 1 .. Len(open) : i < j => open[i].id < open[j].id

(* Each definition that is being read is open to the end of the text read  *)
(* so far, stands in the one before it, and has as many definitions that   *)
(* have begun and not ended as are being read inside of it; no other       *)
(* definition is open.                                                     *)
NestOK ==
  \A n : n = Len(text) =>
    /\ \A j \in 2 .. Len(open) : \A d, e :
         d = open[j].id /\ e = open[j - 1].id =>
           /\ OpenAt(d, n + 1) /\ Owner(d) = e
           /\ StillReading => Count("define", d, n) = Count("end", d, n) + (Len(open) - j + 1)
    /\ StillReading => \A d \in LinesOf("define") : OpenAt(d, n + 1) => d \in Reading

(* The subpatterns that the song of s may play. *)
Playable(s) == {d \in LinesOf("define") \ Reading : Owner(d) = s}

SongOK(song, subs) ==
  \A i \in 1 .. Len(song) :
    IsSeq(song[i]) /\ \A j \in 1 .. Len(song[i]) : IsEvent(song[i][j], subs)

SongsOK ==
  /\ parser = [s \in {0} \cup LinesOf("define") |-> parser[s]]
  /\ \A s \in DOMAIN parser : /\ IsParser(parser[s], Playable(s))
                              /\ SongOK(parser[s].mSong, Playable(s))

Structure == TextOK /\ OpenOK /\ NestOK /\ SongsOK

(* The innermost definition that is being read is the owner of the next    *)
(* line.                                                                   *)
LEMMA Innermost ==
  ASSUME Structure, StillReading, NEW n, n = Len(text)
  PROVE  /\ Owner(n + 1) = Current /\ Current \in DOMAIN parser /\ Current \in 0 .. n
         /\ Len(open) \in Nat \ {0} /\ Current = open[Len(open)].id
         /\ \A i \in 1 .. Len(open) : open[i].id <= Current
<1>1. /\ IsSeq(open) /\ Len(open) # 0 /\ Len(open) \in Nat /\ open[1].id = 0
      /\ DOMAIN open = 1 .. Len(open)
  BY IsSeqIn DEF Structure, OpenOK, StillReading, IsSeq
<1>2. Current = open[Len(open)].id
  BY <1>1, Fronts DEF Current
<1>3. n \in Nat /\ LinesOf("define") \subseteq 1 .. n
  BY LinesAre DEF Structure
<1>4. Current \in {0} \cup LinesOf("define")
  BY <1>1, <1>2 DEF Structure, OpenOK
<1>5. \A i \in 1 .. Len(open) : open[i].id \in Int /\ open[i].id <= Current
  BY <1>1, <1>2, <1>3 DEF Structure, OpenOK
<1>6. /\ Owner(n + 1) \in 0 .. n
      /\ Owner(n + 1) = 0 \/ (Owner(n + 1) \in LinesOf("define") /\ OpenAt(Owner(n + 1), n + 1))
      /\ \A d \in LinesOf("define") : d < n + 1 /\ OpenAt(d, n + 1) => d <= Owner(n + 1)
  <2>1. n + 1 \in Nat \ {0} /\ (n + 1) - 1 = n
    BY <1>3
  <2> QED BY <2>1, OwnerIs DEF Structure
<1>7. Owner(n + 1) \in Reading
  <2>1. 0 \in Reading
    BY <1>1 DEF Reading
  <2> QED BY <1>6, <2>1 DEF Structure, NestOK
<1>8. Owner(n + 1) <= Current
  BY <1>1, <1>5, <1>7 DEF Reading
<1>9. Current <= Owner(n + 1)
  <2>1. CASE Len(open) = 1
    BY <1>1, <1>2, <1>6, <2>1
  <2>2. CASE Len(open) \in 2 .. Len(open)
    <3>1. Current \in LinesOf("define") /\ OpenAt(Current, n + 1)
      BY <1>2, <2>2 DEF Structure, OpenOK, NestOK
    <3> QED BY <1>3, <1>6, <3>1
  <2> QED BY <1>1, <2>1, <2>2
<1>10. Current \in DOMAIN parser
  BY <1>4 DEF Structure, SongsOK
<1> QED BY <1>1, <1>2, <1>3, <1>4, <1>5, <1>6, <1>8, <1>9, <1>10
-----------------------------------------------------------------------------
(* One step. *)

(* A parser that knows some subpatterns may know more. *)
LEMMA MoreSubs ==
  ASSUME NEW subs, NEW more, subs \subseteq more
  PROVE  /\ \A e : IsEvent(e, subs) => IsEvent(e, more)
         /\ \A q : IsParser(q, subs) => IsParser(q, more)
         /\ \A song : SongOK(song, subs) => SongOK(song, more)
<1>1. \A e : IsLast(e, subs) => IsLast(e, more)
  BY DEF IsLast
<1>2. \A e : IsEvent(e, subs) => IsEvent(e, more)
  BY <1>1 DEF IsEvent
<1>3. \A lasts : IsLastNote(lasts, subs) => IsLastNote(lasts, more)
  BY <1>1 DEF IsLastNote
<1>4. \A q : IsParser(q, subs) => IsParser(q, more)
  BY <1>3 DEF IsParser
<1>5. \A song : SongOK(song, subs) => SongOK(song, more)
  BY <1>2 DEF SongOK
<1> QED BY <1>2, <1>4, <1>5

(* A parser that has just been made knows nothing. *)
LEMMA FreshIs ==
  ASSUME NEW subs
  PROVE  IsParser(Fresh, subs) /\ SongOK(Fresh.mSong, subs) /\ Fresh.mSong = <<>>
<1>1. /\ DOMAIN Fresh = Fields /\ Fresh = [x \in Fields |-> Fresh[x]]
  BY DEF Fresh, Fields
<1>2. /\ IsSeq(Fresh.mSong) /\ Len(Fresh.mSong) = 0 /\ IsSeq(Fresh.mColumnMap)
      /\ Fresh.mSong = <<>>
  BY OneEvent DEF Fresh
<1>3. /\ Fresh.mSubSeqMap = Empty /\ Fresh.mAliases = Empty
      /\ Fresh.mLastNote = [c \in Columns |-> NoEvent]
      /\ Fresh.mDfltNote = [pitch |-> 0, volume |-> 0]
      /\ Fresh.mVolume = 64 /\ Fresh.mTranspose = 0
      /\ Fresh.mSigns = [class \in 0 .. 11 |-> 0]
  BY DEF Fresh
<1>4. DOMAIN Empty = {}
  BY DEF Empty
<1>5. IsLastNote([c \in Columns |-> NoEvent], subs)
  BY DEF IsLastNote
<1>6. /\ "pitch" \in DOMAIN [pitch |-> 0, volume |-> 0]
      /\ [class \in 0 .. 11 |-> 0] \in [0 .. 11 -> {-1, 0, 1}]
  OBVIOUS
<1> HIDE DEF Fresh
<1>7. IsParser(Fresh, subs)
  BY <1>1, <1>2, <1>3, <1>4, <1>5, <1>6 DEF IsParser
<1> QED BY <1>2, <1>7 DEF SongOK

(* Only a line that says define gives an event that defines a subpattern,  *)
(* only one that says end gives the event that ends it.                    *)
LEMMA KindOfLine ==
  ASSUME NEW q, NEW line, NEW subs, NEW r, LineKeeps(q, line, subs, r)
  PROVE  /\ KeepsEvents(r) /\ r.events[1].kind = "define" => line.is = "define"
         /\ KeepsEvents(r) /\ r.events[1].kind = "end" => line.is = "end"
         /\ KeepsEvents(r) /\ r.events[1].kind \notin {"define", "end"}
              => line.is \notin {"define", "end"}
         /\ r.stop = "throw" \/ r.events = <<>> => line.is \notin {"define", "end"}
<1>1. r.events # <<>> => 1 \in 1 .. Len(r.events)
  <2>1. IsSeq(r.events)
    BY DEF LineKeeps
  <2>2. Len(r.events) \in Nat /\ (Len(r.events) = 0 => r.events = <<>>)
    <3> DEFINE s == r.events
    <3>1. s \in Seq(Range(s)) /\ Len(s) \in Nat
      BY <2>1, IsSeqIn DEF IsSeq
    <3> HIDE DEF s
    <3>2. Len(s) = 0 => s = <<>>
      BY <3>1
    <3> QED BY <3>1, <3>2 DEF s
  <2> QED BY <2>2
<1>2. line.is = "define" => r.events[1].kind = "define" /\ r.stop = "no" /\ r.events # <<>>
  <2> DEFINE e == [kind |-> "define", name |-> line.name]
  <2>1. line.is = "define" => r.events = <<e>> /\ r.stop = "no"
    BY DEF LineKeeps
  <2>2. e.kind = "define"
    OBVIOUS
  <2> HIDE DEF e
  <2>3. <<e>> # <<>> /\ <<e>>[1].kind = e.kind
    OBVIOUS
  <2> QED BY <2>1, <2>2, <2>3, Zenon
<1>3. line.is = "end" => r.events[1].kind = "end" /\ r.stop = "no" /\ r.events # <<>>
  <2> DEFINE e == [kind |-> "end"]
  <2>1. line.is = "end" => r.events = <<e>> /\ r.stop = "no"
    BY DEF LineKeeps
  <2>2. e.kind = "end"
    OBVIOUS
  <2> HIDE DEF e
  <2>3. <<e>> # <<>> /\ <<e>>[1].kind = e.kind
    OBVIOUS
  <2> QED BY <2>1, <2>2, <2>3, Zenon
<1>4. line.is \notin {"define", "end"} /\ r.events # <<>>
        => r.events[1].kind \notin {"define", "end"}
  BY <1>1 DEF LineKeeps, IsEvent
<1> QED BY <1>2, <1>3, <1>4 DEF KeepsEvents

(* What one more line changes for a definition. *)
LEMMA OldDefinition ==
  ASSUME TextOK, NEW line, Grows(line), NEW n, n = Len(text), NEW d \in LinesOf("define")
  PROVE  /\ d \in 1 .. n /\ Owner(d)' = Owner(d)
         /\ Count("define", d, n) \in Nat /\ Count("end", d, n) \in Nat
         /\ Count("define", d, n + 1)'
              = Count("define", d, n) + (IF line.is = "define" THEN 1 ELSE 0)
         /\ Count("end", d, n + 1)'
              = Count("end", d, n) + (IF line.is = "end" THEN 1 ELSE 0)
         /\ OpenAt(d, n + 2)' <=> /\ OpenAt(d, n + 1)
                                  /\ Count("define", d, n + 1)' > Count("end", d, n + 1)'
<1>1. n \in Nat /\ d \in 1 .. n /\ d \in 1 .. n + 1 /\ d <= n
  BY LinesAre
<1>2. Owner(d)' = Owner(d)
  BY <1>1, OwnerStable
<1>3. \A kind : /\ Count(kind, d, n) \in Nat
                /\ Count(kind, d, n + 1)'
                     = Count(kind, d, n) + (IF line.is = kind THEN 1 ELSE 0)
  BY <1>1, CountNext
<1>4. OpenAt(d, n + 2)'
        <=> /\ d <= n => OpenAt(d, n + 1)
            /\ Count("define", d, n) + (IF line.is = "define" THEN 1 ELSE 0)
                 > Count("end", d, n) + (IF line.is = "end" THEN 1 ELSE 0)
  BY <1>1, OpenAtNext
<1> QED BY <1>1, <1>2, <1>3, <1>4

(* A line that is neither a define nor an end leaves the definitions that  *)
(* are being read.                                                         *)
LEMMA NestStays ==
  ASSUME Structure, StillReading, NEW line, Grows(line), line.is \notin {"define", "end"},
         open' = open, state' = state, junk' = junk, NEW n, n = Len(text)
  PROVE  /\ OpenOK' /\ NestOK' /\ Reading' = Reading /\ LinesOf("define")' = LinesOf("define")
         /\ \A s : Playable(s)' = Playable(s)
<1>1. TextOK
  BY DEF Structure
<1>2. /\ n \in Nat /\ Len(text)' = n + 1 /\ LinesOf("define") \subseteq 1 .. n
      /\ LinesOf("define")' = LinesOf("define")
      /\ \A k \in 1 .. n : text'[k] = text[k]
  <2>1. LinesOf("define")' = LinesOf("define") \cup (IF line.is = "define" THEN {n + 1} ELSE {})
    BY <1>1, Grown
  <2> QED BY <1>1, <2>1, GrownText, LinesAre
<1>3. \A d \in LinesOf("define") :
        /\ d \in 1 .. n /\ Owner(d)' = Owner(d)
        /\ OpenAt(d, n + 2)' <=> OpenAt(d, n + 1) /\ Count("define", d, n) > Count("end", d, n)
        /\ Count("define", d, n + 1)' = Count("define", d, n)
        /\ Count("end", d, n + 1)' = Count("end", d, n)
        /\ Count("define", d, n) \in Nat /\ Count("end", d, n) \in Nat
  BY <1>1, OldDefinition
<1>4. Reading' = Reading
  BY DEF Reading
<1>5. \A s : Playable(s)' = Playable(s)
  BY <1>2, <1>3, <1>4 DEF Playable
<1>6. OpenOK'
  BY <1>2 DEF Structure, OpenOK
<1>7. NestOK'
  <2>1. ASSUME NEW j \in 2 .. Len(open), NEW d, NEW e, d = open[j].id, e = open[j - 1].id
        PROVE  /\ OpenAt(d, n + 2)' /\ Owner(d)' = e
               /\ Count("define", d, n + 1)' = Count("end", d, n + 1)' + (Len(open) - j + 1)
    <3>1. d \in LinesOf("define")
      BY <2>1 DEF Structure, OpenOK
    <3>2. /\ OpenAt(d, n + 1) /\ Owner(d) = e
          /\ Count("define", d, n) = Count("end", d, n) + (Len(open) - j + 1)
      BY <2>1 DEF Structure, NestOK
    <3>3. Len(open) \in Nat
      BY DEF Structure, OpenOK, IsSeq
    <3> QED BY <1>3, <3>1, <3>2, <3>3
  <2>2. \A d \in LinesOf("define") : OpenAt(d, n + 2)' => d \in Reading
    BY <1>3 DEF Structure, NestOK
  <2>3. (n + 1) + 1 = n + 2
    BY <1>2
  <2> QED BY <1>2, <1>4, <2>1, <2>2, <2>3 DEF NestOK
<1> QED BY <1>2, <1>4, <1>5, <1>6, <1>7

(* A define begins a definition that stands in the innermost one. *)
LEMMA NestGrows ==
  ASSUME Structure, StillReading, NEW line, Grows(line), line.is = "define",
         NEW n, n = Len(text), open' = Append(open, [id |-> n + 1, name |-> line.name]),
         state' = state, junk' = junk
  PROVE  /\ OpenOK' /\ NestOK' /\ LinesOf("define")' = LinesOf("define") \cup {n + 1}
         /\ \A s : Playable(s)' = Playable(s)
<1> DEFINE new == [id |-> n + 1, name |-> line.name]
           m == Len(open)
<1>1. TextOK
  BY DEF Structure
<1>2. /\ n \in Nat /\ Len(text)' = n + 1 /\ LinesOf("define") \subseteq 1 .. n
      /\ LinesOf("define")' = LinesOf("define") \cup {n + 1}
      /\ \A k \in 1 .. n : text'[k] = text[k]
      /\ text'[n + 1] = line
  <2>1. LinesOf("define")' = LinesOf("define") \cup (IF line.is = "define" THEN {n + 1} ELSE {})
    BY <1>1, Grown
  <2> QED BY <1>1, <2>1, GrownText, LinesAre
<1>3. \A d \in LinesOf("define") :
        /\ d \in 1 .. n /\ Owner(d)' = Owner(d)
        /\ Count("define", d, n) \in Nat /\ Count("end", d, n) \in Nat
        /\ Count("define", d, n + 1)' = Count("define", d, n) + 1
        /\ Count("end", d, n + 1)' = Count("end", d, n)
        /\ OpenAt(d, n + 2)' <=> /\ OpenAt(d, n + 1)
                                 /\ Count("define", d, n + 1)' > Count("end", d, n + 1)'
  BY <1>1, OldDefinition, SMTT(60)
<1>4. /\ Owner(n + 1)' = Current
      /\ Count("define", n + 1, n + 1)' = 1 /\ Count("end", n + 1, n + 1)' = 0
      /\ OpenAt(n + 1, n + 2)'
  <2>1. n + 1 \in 1 .. n + 1 /\ ~(n + 1 <= n)
    BY <1>2
  <2>2. Owner(n + 1)' = Owner(n + 1)
    BY <1>1, <2>1, OwnerStable
  <2>3. \A kind : /\ Count(kind, n + 1, n) = 0
                  /\ Count(kind, n + 1, n + 1)'
                       = Count(kind, n + 1, n) + (IF line.is = kind THEN 1 ELSE 0)
    BY <1>1, <2>1, CountNext
  <2>4. OpenAt(n + 1, n + 2)'
          <=> /\ n + 1 <= n => OpenAt(n + 1, n + 1)
              /\ Count("define", n + 1, n) + (IF line.is = "define" THEN 1 ELSE 0)
                   > Count("end", n + 1, n) + (IF line.is = "end" THEN 1 ELSE 0)
    BY <1>1, <2>1, OpenAtNext
  <2> QED BY <2>1, <2>2, <2>3, <2>4, Innermost
<1>5. /\ IsSeq(open) /\ m \in Nat \ {0} /\ IsSeq(open') /\ Len(open') = m + 1
      /\ \A j \in 1 .. m : open'[j] = open[j]
      /\ open'[m + 1] = new /\ open[m].id = Current
      /\ DOMAIN open = 1 .. m /\ DOMAIN open' = 1 .. m + 1
      /\ new.id = n + 1 /\ new.name = line.name
  <2>1. IsSeq(open)
    BY DEF Structure, OpenOK
  <2>2. m \in Nat \ {0} /\ open[m].id = Current
    BY Innermost
  <2>3. DOMAIN open = 1 .. m
    BY <2>1, IsSeqIn
  <2> QED BY <2>1, <2>2, <2>3, Appended
<1> HIDE DEF new, m
<1>6. Reading' = Reading \cup {n + 1}
  <2>1. Reading' = {open'[j].id : j \in 1 .. m + 1} /\ Reading = {open[j].id : j \in 1 .. m}
    BY <1>5 DEF Reading
  <2>2. \A j : j \in 1 .. m + 1 <=> (j \in 1 .. m \/ j = m + 1)
    BY <1>5
  <2> QED BY <1>5, <2>1, <2>2
<1>7. \A s : Playable(s)' = Playable(s)
  <2>1. n + 1 \notin LinesOf("define")
    BY <1>2
  <2> QED BY <1>2, <1>3, <1>6, <2>1 DEF Playable
<1>8. \A j \in 1 .. m : /\ open[j].id \in 0 .. n
                        /\ j # 1 => /\ open[j].id \in LinesOf("define")
                                    /\ open[j].name = text[open[j].id].name
  <2>1. open[1].id = 0 /\ \A j \in 2 .. m : /\ open[j].id \in LinesOf("define")
                                            /\ open[j].name = text[open[j].id].name
    BY <1>5 DEF Structure, OpenOK, m
  <2> QED BY <1>2, <1>5, <2>1
<1>9. OpenOK'
  <2>1. /\ state \in {"reading", "ended", "done", "aborted"} /\ junk \in Junk
        /\ open[1].id = 0 /\ state # "done"
        /\ \A i, j \in 1 .. m : i < j => open[i].id < open[j].id
    BY <1>5 DEF Structure, OpenOK, m, StillReading
  <2>2. \A j \in 2 .. m + 1 : /\ open'[j].id \in LinesOf("define")'
                              /\ open'[j].name = text'[open'[j].id].name
    <3> SUFFICES ASSUME NEW j \in 2 .. m + 1
                 PROVE  /\ open'[j].id \in LinesOf("define")'
                        /\ open'[j].name = text'[open'[j].id].name
      OBVIOUS
    <3>1. CASE j = m + 1
      BY <1>2, <1>5, <3>1
    <3>2. CASE j # m + 1
      <4>1. j \in 1 .. m /\ j # 1
        BY <1>5, <3>2
      <4> QED BY <1>2, <1>5, <1>8, <4>1
    <3> QED BY <3>1, <3>2
  <2>3. \A i, j \in 1 .. m + 1 : i < j => open'[i].id < open'[j].id
    <3> SUFFICES ASSUME NEW i \in 1 .. m + 1, NEW j \in 1 .. m + 1, i < j
                 PROVE  open'[i].id < open'[j].id
      OBVIOUS
    <3>1. i \in 1 .. m /\ open[i].id \in 0 .. n /\ open'[i] = open[i]
      BY <1>5, <1>8
    <3>2. CASE j = m + 1
      BY <1>2, <1>5, <3>1, <3>2
    <3>3. CASE j # m + 1
      BY <1>5, <2>1, <3>1, <3>3
    <3> QED BY <3>2, <3>3
  <2>4. open'[1] = open[1]
    BY <1>5
  <2> QED BY <1>5, <2>1, <2>2, <2>3, <2>4 DEF OpenOK
<1>10. NestOK'
  <2>1. ASSUME NEW j \in 2 .. m + 1, NEW d, NEW e, d = open'[j].id, e = open'[j - 1].id
        PROVE  /\ OpenAt(d, n + 2)' /\ Owner(d)' = e
               /\ Count("define", d, n + 1)' = Count("end", d, n + 1)' + ((m + 1) - j + 1)
    <3>1. CASE j = m + 1
      <4>1. d = n + 1 /\ e = Current /\ (m + 1) - j + 1 = 1
        BY <1>5, <2>1, <3>1
      <4> QED BY <1>4, <4>1
    <3>2. CASE j # m + 1
      <4>1. /\ j \in 2 .. m /\ j \in 1 .. m /\ j - 1 \in 1 .. m
            /\ d = open[j].id /\ e = open[j - 1].id
        BY <1>5, <2>1, <3>2
      <4>2. d \in LinesOf("define")
        BY <1>8, <4>1
      <4>3. /\ OpenAt(d, n + 1) /\ Owner(d) = e
            /\ Count("define", d, n) = Count("end", d, n) + (m - j + 1)
        BY <4>1 DEF Structure, NestOK, m
      <4> QED BY <1>3, <1>5, <4>1, <4>2, <4>3
    <3> QED BY <3>1, <3>2
  <2>2. \A d \in LinesOf("define")' : OpenAt(d, n + 2)' => d \in Reading'
    <3>1. \A d \in LinesOf("define") : OpenAt(d, n + 1) => d \in Reading
      BY DEF Structure, NestOK
    <3> QED BY <1>2, <1>3, <1>6, <3>1
  <2>3. (n + 1) + 1 = n + 2
    BY <1>2
  <2> QED BY <1>2, <1>5, <2>1, <2>2, <2>3 DEF NestOK
<1> QED BY <1>2, <1>7, <1>9, <1>10

(* The definitions that are being read, without the innermost. *)
LEMMA WithoutInnermost ==
  ASSUME Structure, NEW m, m = Len(open), m # 0, open' = Front(open)
  PROVE  /\ m \in Nat \ {0} /\ IsSeq(open') /\ Len(open') = m - 1
         /\ \A j \in 1 .. m - 1 : open'[j] = open[j]
         /\ Current = open[m].id /\ Last(open) = open[m]
         /\ Reading' = Reading \ {Current}
<1>1. /\ IsSeq(open) /\ m \in Nat \ {0} /\ m > 0
      /\ \A i, j \in 1 .. m : i < j => open[i].id < open[j].id
      /\ open[1].id = 0
      /\ \A j \in 2 .. m : open[j].id \in LinesOf("define")
  BY DEF Structure, OpenOK, IsSeq
<1>2. /\ IsSeq(open') /\ Len(open') = m - 1 /\ DOMAIN open' = 1 .. m - 1
      /\ \A j \in 1 .. m - 1 : open'[j] = open[j]
      /\ Last(open) = open[m] /\ DOMAIN open = 1 .. m
  BY <1>1, Fronts, IsSeqIn
<1>3. Current = open[m].id
  BY <1>2 DEF Current
<1>4. \A j \in 1 .. m : open[j].id \in Int
  <2>1. LinesOf("define") \subseteq Int
    BY LinesAre DEF Structure
  <2> QED BY <1>1, <2>1
<1>5. \A j \in 1 .. m - 1 : open[j].id # Current
  BY <1>1, <1>3, <1>4
<1>6. Reading' = {open[j].id : j \in 1 .. m - 1} /\ Reading = {open[j].id : j \in 1 .. m}
  BY <1>2 DEF Reading
<1>7. \A j : j \in 1 .. m <=> (j \in 1 .. m - 1 \/ j = m)
  BY <1>1
<1>8. Reading' = Reading \ {Current}
  BY <1>3, <1>5, <1>6, <1>7
<1> QED BY <1>1, <1>2, <1>3, <1>8

(* What stays of OpenOK when the innermost definition has been read, if    *)
(* the text is as it was or has one more line.                             *)
LEMMA OpenReturns ==
  ASSUME Structure, NEW m, m = Len(open), m # 0, open' = Front(open), junk' = junk,
         state' \in {"reading", "ended", "done"}, m = 1 <=> state' = "done",
         \A d \in LinesOf("define") : d \in LinesOf("define")' /\ text'[d] = text[d]
  PROVE  OpenOK'
<1>1. /\ m \in Nat \ {0} /\ IsSeq(open') /\ Len(open') = m - 1
      /\ \A j \in 1 .. m - 1 : open'[j] = open[j]
  BY WithoutInnermost
<1>2. /\ junk \in Junk
      /\ open[1].id = 0
      /\ \A j \in 2 .. m : /\ open[j].id \in LinesOf("define")
                           /\ open[j].name = text[open[j].id].name
      /\ \A i, j \in 1 .. m : i < j => open[i].id < open[j].id
  BY DEF Structure, OpenOK
<1>3. \A j \in 2 .. m - 1 : /\ open'[j].id \in LinesOf("define")'
                            /\ open'[j].name = text'[open'[j].id].name
  <2> SUFFICES ASSUME NEW j \in 2 .. m - 1
               PROVE  /\ open'[j].id \in LinesOf("define")'
                      /\ open'[j].name = text'[open'[j].id].name
    OBVIOUS
  <2>1. j \in 2 .. m /\ j \in 1 .. m - 1
    BY <1>1
  <2> QED BY <1>1, <1>2, <2>1
<1>4. \A i, j \in 1 .. m - 1 : i < j => open'[i].id < open'[j].id
  BY <1>1, <1>2
<1>5. m - 1 > 0 => open'[1].id = 0
  BY <1>1, <1>2
<1>6. m - 1 = 0 <=> state' = "done"
  BY <1>1
<1> QED BY <1>1, <1>2, <1>3, <1>4, <1>5, <1>6 DEF OpenOK

(* The song around a definition that has been read may play it. *)
LEMMA PlayableReturns ==
  ASSUME Structure, NEW m, m = Len(open), m # 0, open' = Front(open),
         LinesOf("define")' = LinesOf("define"),
         \A d \in LinesOf("define") : Owner(d)' = Owner(d)
  PROVE  /\ \A s : Playable(s) \subseteq Playable(s)'
         /\ \A s : m > 1 /\ s = open[m - 1].id => Current \in Playable(s)'
<1>1. m \in Nat \ {0} /\ Reading' = Reading \ {Current} /\ Current = open[m].id
  BY WithoutInnermost
<1>2. \A s : Playable(s) \subseteq Playable(s)'
  BY <1>1 DEF Playable
<1>3. ASSUME m > 1, NEW s, s = open[m - 1].id PROVE Current \in Playable(s)'
  <2>1. m \in 2 .. m
    BY <1>1, <1>3
  <2>2. Current \in LinesOf("define") /\ Owner(Current) = s
    BY <1>1, <1>3, <2>1 DEF Structure, OpenOK, NestOK
  <2>3. Current \in LinesOf("define")' \ Reading'
    BY <1>1, <2>2
  <2>4. \A d : d = Current => Owner(d)' = s
    BY <2>2
  <2>5. \A d : d \in Playable(s)' <=> d \in LinesOf("define")' \ Reading' /\ Owner(d)' = s
    BY DEF Playable
  <2> QED BY <2>3, <2>4, <2>5
<1> QED BY <1>2, <1>3

(* An end, which is the end of the innermost definition. *)
LEMMA NestEnds ==
  ASSUME Structure, StillReading, NEW line, Grows(line), line.is = "end",
         NEW n, n = Len(text), NEW m, m = Len(open), open' = Front(open), junk' = junk,
         state' = IF m = 1 THEN "done" ELSE "reading"
  PROVE  /\ OpenOK' /\ NestOK' /\ LinesOf("define")' = LinesOf("define")
         /\ \A s : Playable(s) \subseteq Playable(s)'
         /\ \A s : m > 1 /\ s = open[m - 1].id => Current \in Playable(s)'
<1>1. TextOK
  BY DEF Structure
<1>2. /\ n \in Nat /\ Len(text)' = n + 1 /\ LinesOf("define") \subseteq 1 .. n
      /\ LinesOf("define")' = LinesOf("define")
      /\ \A k \in 1 .. n : text'[k] = text[k]
  <2>1. LinesOf("define")' = LinesOf("define") \cup (IF line.is = "define" THEN {n + 1} ELSE {})
    BY <1>1, Grown
  <2> QED BY <1>1, <2>1, GrownText, LinesAre
<1>3. \A d \in LinesOf("define") :
        /\ d \in 1 .. n /\ Owner(d)' = Owner(d)
        /\ Count("define", d, n) \in Nat /\ Count("end", d, n) \in Nat
        /\ Count("define", d, n + 1)' = Count("define", d, n)
        /\ Count("end", d, n + 1)' = Count("end", d, n) + 1
        /\ OpenAt(d, n + 2)' <=> /\ OpenAt(d, n + 1)
                                 /\ Count("define", d, n + 1)' > Count("end", d, n + 1)'
  BY <1>1, OldDefinition
<1>4. m # 0
  BY DEF Structure, OpenOK, StillReading
<1>5. /\ m \in Nat \ {0} /\ IsSeq(open') /\ Len(open') = m - 1
      /\ \A j \in 1 .. m - 1 : open'[j] = open[j]
      /\ Current = open[m].id /\ Reading' = Reading \ {Current}
  BY <1>4, WithoutInnermost
<1>6. OpenOK'
  BY <1>2, <1>3, <1>4, <1>5, OpenReturns
<1>7. /\ \A s : Playable(s) \subseteq Playable(s)'
      /\ \A s : m > 1 /\ s = open[m - 1].id => Current \in Playable(s)'
  BY <1>2, <1>3, <1>4, PlayableReturns
<1>8. \A j \in 2 .. m : LET d == open[j].id
                        IN  /\ d \in LinesOf("define")
                            /\ OpenAt(d, n + 1) /\ Owner(d) = open[j - 1].id
                            /\ Count("define", d, n) = Count("end", d, n) + (m - j + 1)
  BY ZenonT(60) DEF Structure, NestOK, OpenOK
<1>9. NestOK'
  <2>1. ASSUME NEW j \in 2 .. m - 1, NEW d, NEW e, d = open'[j].id, e = open'[j - 1].id
        PROVE  /\ OpenAt(d, n + 2)' /\ Owner(d)' = e
               /\ Count("define", d, n + 1)' = Count("end", d, n + 1)' + ((m - 1) - j + 1)
    <3>0. j \in 2 .. m /\ j \in 1 .. m - 1 /\ j - 1 \in 1 .. m - 1 /\ m - j > 0 /\ m - j \in Int
      BY <1>5
    <3>1. /\ j \in 2 .. m /\ d = open[j].id /\ e = open[j - 1].id
          /\ (m - 1) - j + 1 = m - j
      BY <1>5, <2>1, <3>0
    <3>2. /\ d \in LinesOf("define") /\ OpenAt(d, n + 1) /\ Owner(d) = e
          /\ Count("define", d, n) = Count("end", d, n) + (m - j + 1)
      BY <1>8, <3>1
    <3>3. /\ Owner(d)' = e
          /\ Count("define", d, n + 1)' = Count("end", d, n) + ((m - j) + 1)
          /\ Count("end", d, n + 1)' = Count("end", d, n) + 1 /\ Count("end", d, n) \in Nat
          /\ OpenAt(d, n + 2)' <=> Count("define", d, n + 1)' > Count("end", d, n + 1)'
      BY <1>3, <3>2
    <3> QED BY <3>0, <3>1, <3>3, SMTT(60)
  <2>2. \A d \in LinesOf("define")' : OpenAt(d, n + 2)' /\ StillReading' => d \in Reading'
    <3> SUFFICES ASSUME NEW d \in LinesOf("define"), OpenAt(d, n + 2)', StillReading'
                 PROVE  d \in Reading'
      BY <1>2
    <3>1. \A x \in LinesOf("define") : OpenAt(x, n + 1) => x \in Reading
      BY DEF Structure, NestOK
    <3>2. d \in Reading
      BY <1>3, <3>1
    <3>3. m \in 2 .. m
      BY <1>5 DEF StillReading
    <3>4. d # Current
      <4>1. Count("define", open[m].id, n) = Count("end", open[m].id, n) + (m - m + 1)
        BY <1>8, <3>3
      <4>2. SUFFICES ASSUME d = Current PROVE FALSE
        OBVIOUS
      <4>3. Count("define", d, n) = Count("end", d, n) + 1
        BY <1>5, <4>1, <4>2
      <4> QED BY <1>3, <4>3
    <3> QED BY <1>5, <3>2, <3>4
  <2>3. (n + 1) + 1 = n + 2
    BY <1>2
  <2>4. \A j \in 2 .. Len(open') : \A d, e :
          d = open'[j].id /\ e = open'[j - 1].id =>
            /\ OpenAt(d, (n + 1) + 1)' /\ Owner(d)' = e
            /\ Count("define", d, n + 1)' = Count("end", d, n + 1)' + (Len(open') - j + 1)
    BY <1>5, <2>1, <2>3
  <2>5. StillReading' =>
          \A d \in LinesOf("define")' : OpenAt(d, (n + 1) + 1)' => d \in Reading'
    BY <2>2, <2>3
  <2>6. Len(text)' = n + 1
    BY <1>2
  <2> QED BY <2>4, <2>5, <2>6 DEF NestOK
<1> QED BY <1>2, <1>6, <1>7, <1>9

(* The end of the input, which ends the innermost definition. *)
LEMMA NestCloses ==
  ASSUME Structure, NEW m, m = Len(open), m # 0, open' = Front(open), junk' = junk,
         text' = text, state' = IF m = 1 THEN "done" ELSE "ended"
  PROVE  /\ OpenOK' /\ NestOK' /\ LinesOf("define")' = LinesOf("define")
         /\ \A s : Playable(s) \subseteq Playable(s)'
         /\ \A s : m > 1 /\ s = open[m - 1].id => Current \in Playable(s)'
<1>1. \A kind : LinesOf(kind)' = LinesOf(kind)
  BY DEF LinesOf
<1>2. \A kind, d, i : Count(kind, d, i)' = Count(kind, d, i)
  BY <1>1 DEF Count
<1>3. \A d, k : OpenAt(d, k)' = OpenAt(d, k)
  BY <1>2 DEF OpenAt
<1>4. \A k : Owner(k)' = Owner(k)
  BY <1>1, <1>3 DEF Owner
<1>5. /\ m \in Nat \ {0} /\ IsSeq(open') /\ Len(open') = m - 1
      /\ \A j \in 1 .. m - 1 : open'[j] = open[j]
  BY WithoutInnermost
<1>6. OpenOK'
  BY <1>1, <1>5, OpenReturns
<1>7. /\ \A s : Playable(s) \subseteq Playable(s)'
      /\ \A s : m > 1 /\ s = open[m - 1].id => Current \in Playable(s)'
  BY <1>1, <1>4, PlayableReturns
<1>8. ~StillReading'
  BY DEF StillReading
<1>9. NestOK'
  <2> DEFINE n == Len(text)
  <2>1. ASSUME NEW j \in 2 .. m - 1, NEW d, NEW e, d = open'[j].id, e = open'[j - 1].id
        PROVE  OpenAt(d, n + 1) /\ Owner(d) = e
    <3>1. /\ j \in 2 .. m /\ d = open[j].id /\ e = open[j - 1].id
      BY <1>5, <2>1
    <3> QED BY <3>1 DEF Structure, NestOK
  <2> HIDE DEF n
  <2>2. Len(text)' = n
    BY DEF n
  <2> QED BY <1>3, <1>4, <1>5, <1>8, <2>1, <2>2 DEF NestOK
<1> QED BY <1>1, <1>6, <1>7, <1>9

(* A step that changes one parser, to one that a song may have. *)
LEMMA OneParser ==
  ASSUME SongsOK, NEW c \in DOMAIN parser, NEW q, parser' = [parser EXCEPT ![c] = q],
         LinesOf("define")' = LinesOf("define"), \A s : Playable(s) \subseteq Playable(s)',
         IsParser(q, Playable(c)'), SongOK(q.mSong, Playable(c)')
  PROVE  /\ SongsOK' /\ DOMAIN parser' = DOMAIN parser
         /\ parser'[c] = q /\ \A s \in DOMAIN parser \ {c} : parser'[s] = parser[s]
<1>1. /\ parser = [s \in {0} \cup LinesOf("define") |-> parser[s]]
      /\ DOMAIN parser = {0} \cup LinesOf("define")
      /\ \A s \in DOMAIN parser : /\ IsParser(parser[s], Playable(s))
                                  /\ SongOK(parser[s].mSong, Playable(s))
  BY DEF SongsOK
<1>2. /\ DOMAIN parser' = DOMAIN parser /\ parser'[c] = q
      /\ \A s \in DOMAIN parser \ {c} : parser'[s] = parser[s]
      /\ parser' = [s \in DOMAIN parser |-> parser'[s]]
  BY <1>1
<1>3. ASSUME NEW s \in DOMAIN parser
      PROVE  IsParser(parser'[s], Playable(s)') /\ SongOK(parser'[s].mSong, Playable(s)')
  <2>1. CASE s = c
    BY <1>2, <2>1
  <2>2. CASE s # c
    <3>1. parser'[s] = parser[s] /\ Playable(s) \subseteq Playable(s)'
      BY <1>2, <2>2
    <3>2. IsParser(parser[s], Playable(s)) /\ SongOK(parser[s].mSong, Playable(s))
      BY <1>1
    <3> QED BY <3>1, <3>2, MoreSubs
  <2> QED BY <2>1, <2>2
<1>4. SongsOK'
  BY <1>1, <1>2, <1>3 DEF SongsOK
<1> QED BY <1>2, <1>4

(* What Parsed does with a line. *)
LEMMA ParsedIs ==
  ASSUME Structure, StillReading, NEW line, IsLine(line)
  PROVE  /\ LineKeeps(parser[Current], line, Playable(Current), Parsed(line))
         /\ Current \in DOMAIN parser /\ IsParser(parser[Current], Playable(Current))
         /\ SongOK(parser[Current].mSong, Playable(Current))
<1>1. Current \in DOMAIN parser
  BY Innermost
<1>2. /\ IsParser(parser[Current], Playable(Current))
      /\ SongOK(parser[Current].mSong, Playable(Current))
  BY <1>1 DEF Structure, SongsOK
<1> QED BY <1>1, <1>2, LineIs DEF Parsed

(* The lines of the input are lines. *)
LEMMA NextLinesAre ==
  ASSUME NEW line \in NextLines, TextOK
  PROVE  IsLine(line)
<1>1. Len(text) < Len(Line) /\ line \in Line[Len(text) + 1]
  BY DEF NextLines, MaxLines
<1>2. Line \in Seq(Range(Line)) /\ \A lines \in Range(Line) : \A l \in lines : IsLine(l)
  BY LineAssumption
<1>3. Len(text) \in Nat /\ Len(Line) \in Nat
  BY <1>2 DEF TextOK, IsSeq
<1>4. Len(text) + 1 \in 1 .. Len(Line)
  BY <1>1, <1>3
<1>5. Line[Len(text) + 1] \in Range(Line)
  <2> DEFINE R == Range(Line)
  <2>1. Line \in Seq(R)
    BY <1>2
  <2> HIDE DEF R
  <2>2. Line[Len(text) + 1] \in R
    BY <1>4, <2>1
  <2> QED BY <2>2 DEF R
<1> QED BY <1>1, <1>2, <1>5

(* A line that gives no event. *)
LEMMA KeepNothingKeeps ==
  ASSUME Structure, NEW line, IsLine(line), KeepNothing(line)
  PROVE  Structure' /\ line.is \notin {"define", "end"} /\ StillReading
<1>1. /\ StillReading /\ Grows(line) /\ open' = open /\ state' = state /\ junk' = junk
      /\ parser' = [parser EXCEPT ![Current] = Parsed(line).q]
      /\ Parsed(line).stop = "throw" \/ Parsed(line).events = <<>>
  BY DEF KeepNothing, ReadLine, StillReading, Grows
<1> DEFINE c == Current
           q == parser[c]
           r == Parsed(line)
<1>2. /\ LineKeeps(q, line, Playable(c), r)
      /\ c \in DOMAIN parser /\ IsParser(q, Playable(c)) /\ SongOK(q.mSong, Playable(c))
  BY <1>1, ParsedIs
<1>3. line.is \notin {"define", "end"}
  <2> HIDE DEF r, q
  <2> QED BY <1>1, <1>2, KindOfLine DEF r
<1>4. /\ OpenOK' /\ NestOK' /\ LinesOf("define")' = LinesOf("define")
      /\ \A s : Playable(s)' = Playable(s)
  BY <1>1, <1>3, NestStays
<1>5. IsParser(r.q, Playable(c)) /\ SongOK(r.q.mSong, Playable(c))
  BY <1>2 DEF LineKeeps
<1>6. TextOK'
  BY <1>1, Grown DEF Structure
<1>7. SongsOK'
  <2> SUFFICES ASSUME NEW d, d = Current PROVE SongsOK'
    OBVIOUS
  <2>1. Playable(d)' = Playable(d)
    BY <1>4
  <2>2. IsParser(r.q, Playable(d)') /\ SongOK(r.q.mSong, Playable(d)')
    BY <1>5, <2>1
  <2>3. d \in DOMAIN parser /\ parser' = [parser EXCEPT ![d] = r.q]
    BY <1>1, <1>2
  <2>4. \A s : Playable(s) \subseteq Playable(s)'
    BY <1>4
  <2> HIDE DEF r
  <2>5. SongsOK
    BY DEF Structure
  <2> QED BY <1>4, <2>2, <2>3, <2>4, <2>5, OneParser
<1> QED BY <1>1, <1>3, <1>4, <1>6, <1>7 DEF Structure

(* A line of the song. *)
LEMMA StoreKeeps ==
  ASSUME Structure, NEW line, IsLine(line), Store(line)
  PROVE  Structure' /\ line.is \notin {"define", "end"} /\ StillReading
<1> DEFINE c == Current
           q == parser[c]
           r == Parsed(line)
           new == [r.q EXCEPT !.mSong = Append(@, r.events)]
<1>1. /\ StillReading /\ Grows(line) /\ open' = open /\ state' = state /\ junk' = junk
      /\ parser' = [parser EXCEPT ![c] = new]
      /\ KeepsEvents(r) /\ r.events[1].kind \notin {"define", "end"}
  BY DEF Store, ReadLine, StillReading, Grows
<1>2. /\ LineKeeps(q, line, Playable(c), r)
      /\ c \in DOMAIN parser /\ IsParser(q, Playable(c)) /\ SongOK(q.mSong, Playable(c))
  BY <1>1, ParsedIs
<1>3. line.is \notin {"define", "end"}
  <2> HIDE DEF r, q, c, new
  <2> QED BY <1>1, <1>2, KindOfLine
<1>4. /\ OpenOK' /\ NestOK' /\ LinesOf("define")' = LinesOf("define")
      /\ \A s : Playable(s)' = Playable(s)
  BY <1>1, <1>3, NestStays
<1>5. IsParser(new, Playable(c)) /\ SongOK(new.mSong, Playable(c))
  <2> HIDE DEF r, q, c
  <2>1. /\ IsParser(r.q, Playable(c)) /\ r.q.mSong = q.mSong /\ IsSeq(r.events)
        /\ \A j \in 1 .. Len(r.events) : IsEvent(r.events[j], Playable(c))
    BY <1>2, <1>3 DEF LineKeeps
  <2> DEFINE song == Append(q.mSong, r.events)
  <2>2. /\ IsSeq(q.mSong) /\ Len(q.mSong) \in Nat
        /\ IsSeq(song) /\ Len(song) = Len(q.mSong) + 1
        /\ \A i \in 1 .. Len(q.mSong) : song[i] = q.mSong[i]
        /\ song[Len(q.mSong) + 1] = r.events
    BY <1>2, Appended, SMTT(60) DEF IsParser, IsSeq
  <2>3. new = [r.q EXCEPT !.mSong = song]
    BY <2>1
  <2> HIDE DEF song, new
  <2>4. /\ DOMAIN new = Fields /\ new.mSong = song
        /\ \A x \in Fields \ {"mSong"} : new[x] = r.q[x]
        /\ new = [x \in Fields |-> new[x]]
    BY <2>1, <2>3 DEF IsParser, Fields
  <2>5. IsParser(new, Playable(c))
    BY <2>1, <2>2, <2>4 DEF IsParser, Fields
  <2>6. SongOK(song, Playable(c))
    <3> SUFFICES ASSUME NEW i \in 1 .. Len(song)
                 PROVE  /\ IsSeq(song[i])
                        /\ \A j \in 1 .. Len(song[i]) : IsEvent(song[i][j], Playable(c))
      BY DEF SongOK
    <3>1. CASE i = Len(q.mSong) + 1
      BY <2>1, <2>2, <3>1
    <3>2. CASE i # Len(q.mSong) + 1
      <4>1. i \in 1 .. Len(q.mSong) /\ song[i] = q.mSong[i]
        BY <2>2, <3>2
      <4> QED BY <1>2, <4>1 DEF SongOK
    <3> QED BY <3>1, <3>2
  <2> QED BY <2>4, <2>5, <2>6
<1>6. TextOK'
  BY <1>1, Grown DEF Structure
<1>7. SongsOK'
  <2> SUFFICES ASSUME NEW d, d = Current PROVE SongsOK'
    OBVIOUS
  <2>1. Playable(d)' = Playable(d)
    BY <1>4
  <2>2. IsParser(new, Playable(d)') /\ SongOK(new.mSong, Playable(d)')
    BY <1>5, <2>1
  <2>3. d \in DOMAIN parser /\ parser' = [parser EXCEPT ![d] = new]
    BY <1>1, <1>2
  <2>4. \A s : Playable(s) \subseteq Playable(s)'
    BY <1>4
  <2> HIDE DEF r, new
  <2>5. SongsOK
    BY DEF Structure
  <2> QED BY <1>4, <2>2, <2>3, <2>4, <2>5, OneParser
<1> QED BY <1>1, <1>3, <1>4, <1>6, <1>7 DEF Structure

(* The beginning of a definition, with a parser of its own. *)
LEMMA DefineKeeps ==
  ASSUME Structure, NEW line, IsLine(line), Define(line)
  PROVE  Structure' /\ line.is = "define" /\ StillReading
<1> DEFINE c == Current
           r == Parsed(line)
           n == Len(text)
<1>1. /\ StillReading /\ Grows(line) /\ state' = state /\ junk' = junk
      /\ open' = Append(open, [id |-> Len(text'), name |-> line.name])
      /\ parser' = Put(parser, Len(text'), Fresh)
      /\ KeepsEvents(r) /\ r.events[1].kind = "define"
  BY DEF Define, ReadLine, StillReading, Grows, FreshFor
<1>2. LineKeeps(parser[c], line, Playable(c), r)
  BY <1>1, ParsedIs
<1>3. line.is = "define"
  <2> HIDE DEF r, c
  <2> QED BY <1>1, <1>2, KindOfLine
<1>4. n \in Nat /\ Len(text') = n + 1 /\ LinesOf("define") \subseteq 1 .. n /\ TextOK'
  BY <1>1, Grown, GrownText, LinesAre DEF Structure
<1>5. /\ OpenOK' /\ NestOK' /\ LinesOf("define")' = LinesOf("define") \cup {n + 1}
      /\ \A s : Playable(s)' = Playable(s)
  <2> HIDE DEF n
  <2>1. open' = Append(open, [id |-> n + 1, name |-> line.name]) /\ n = Len(text)
    BY <1>1, <1>4 DEF n
  <2> QED BY <1>1, <1>3, <2>1, NestGrows
<1>6. SongsOK'
  <2> HIDE DEF n
  <2>1. /\ DOMAIN parser = {0} \cup LinesOf("define")
        /\ \A s \in DOMAIN parser : /\ IsParser(parser[s], Playable(s))
                                    /\ SongOK(parser[s].mSong, Playable(s))
    BY DEF Structure, SongsOK
  <2>2. n + 1 \notin DOMAIN parser
    BY <1>4, <2>1
  <2>3. /\ DOMAIN parser' = DOMAIN parser \cup {n + 1} /\ parser'[n + 1] = Fresh
        /\ \A s \in DOMAIN parser : parser'[s] = parser[s]
        /\ parser' = [s \in DOMAIN parser \cup {n + 1} |-> parser'[s]]
    BY <1>1, <1>4, <2>2 DEF Put, Overlaid
  <2>4. ASSUME NEW s \in DOMAIN parser'
        PROVE  IsParser(parser'[s], Playable(s)') /\ SongOK(parser'[s].mSong, Playable(s)')
    <3>1. Playable(s)' = Playable(s)
      BY <1>5
    <3>2. CASE s = n + 1
      BY <2>3, <3>2, FreshIs
    <3>3. CASE s # n + 1
      BY <2>1, <2>3, <3>1, <3>3
    <3> QED BY <3>2, <3>3
  <2>5. DOMAIN parser' = {0} \cup LinesOf("define")'
    BY <1>5, <2>1, <2>3
  <2> QED BY <2>3, <2>4, <2>5 DEF SongsOK
<1> QED BY <1>1, <1>3, <1>4, <1>5, <1>6 DEF Structure

(* The end of a definition, which the parser around it learns. *)
LEMMA ReturnKeeps ==
  ASSUME Structure, NEW m, m = Len(open), m > 1, Return,
         LinesOf("define")' = LinesOf("define"), \A s : Playable(s) \subseteq Playable(s)',
         \A s : m > 1 /\ s = open[m - 1].id => Current \in Playable(s)'
  PROVE  SongsOK'
<1>1. /\ IsSeq(open) /\ m \in Nat /\ open[1].id = 0
      /\ \A j \in 2 .. m : /\ open[j].id \in LinesOf("define")
                           /\ open[j].name = text[open[j].id].name
  BY DEF Structure, OpenOK, IsSeq
<1> DEFINE name == open[m].name
           map == parser[open[m - 1].id].mSubSeqMap
<1>2. Last(open) = open[m] /\ Current = open[m].id /\ open' = Front(open)
  BY <1>1, Fronts DEF Current, Return
<1>3. name # NoName
  <2>1. m \in 2 .. m
    BY <1>1
  <2>2. open[m].id \in LinesOf("define") /\ name = text[open[m].id].name
    BY <1>1, <2>1
  <2>3. \A k \in LinesOf("define") : IsLine(text[k]) /\ text[k].is = "define"
    BY LinesAre DEF Structure, TextOK, LinesOf
  <2> QED BY <2>2, <2>3, LineParts
<1>4. SUFFICES ASSUME NEW a, a = open[m - 1].id, NEW d, d = Current
               PROVE  SongsOK'
  OBVIOUS
<1>5. a \in DOMAIN parser
  <2>1. m - 1 = 1 \/ m - 1 \in 2 .. m
    BY <1>1
  <2> QED BY <1>1, <1>4, <2>1 DEF Structure, SongsOK
<1> DEFINE q == parser[a]
           newMap == Put(q.mSubSeqMap, name, d)
           new == [q EXCEPT !.mSubSeqMap = newMap]
<1>6. IsParser(q, Playable(a)) /\ SongOK(q.mSong, Playable(a))
  BY <1>5 DEF Structure, SongsOK
<1>7. parser' = [parser EXCEPT ![a] = new]
  <2>1. parser' = [parser EXCEPT ![a].mSubSeqMap = Bound(@, Last(open).name, Current)]
    BY <1>1, <1>4 DEF Return
  <2> QED BY <1>2, <1>4, <2>1 DEF Bound
<1>8. Playable(a) \subseteq Playable(a)' /\ d \in Playable(a)'
  BY <1>4
<1> DEFINE subs == Playable(a)'
<1> HIDE DEF q, new, subs, name
<1>9. IsParser(q, subs) /\ SongOK(q.mSong, subs) /\ d \in subs
  BY <1>6, <1>8, MoreSubs DEF subs
<1>10. \A x \in DOMAIN newMap : x # NoName /\ newMap[x] \in subs
  <2> DEFINE old == q.mSubSeqMap
  <2>1. \A x \in DOMAIN old : x # NoName /\ old[x] \in subs
    BY <1>9 DEF IsParser
  <2> HIDE DEF old
  <2>2. /\ DOMAIN Put(old, name, d) = DOMAIN old \cup {name}
        /\ Put(old, name, d)[name] = d
        /\ \A x \in DOMAIN old \ {name} : Put(old, name, d)[x] = old[x]
    BY DEF Put, Overlaid
  <2>3. \A x \in DOMAIN Put(old, name, d) : x # NoName /\ Put(old, name, d)[x] \in subs
    BY <1>3, <1>9, <2>1, <2>2
  <2> QED BY <2>3 DEF old
<1> HIDE DEF newMap
<1>11. /\ DOMAIN new = Fields /\ new.mSubSeqMap = newMap
       /\ \A x \in Fields \ {"mSubSeqMap"} : new[x] = q[x]
       /\ new = [x \in Fields |-> new[x]]
  BY <1>9 DEF new, IsParser, Fields
<1>12. IsParser(new, subs) /\ SongOK(new.mSong, subs)
  BY <1>9, <1>10, <1>11 DEF IsParser, Fields
<1>13. SongsOK
  BY DEF Structure
<1>14. IsParser(new, Playable(a)') /\ SongOK(new.mSong, Playable(a)')
  BY <1>12 DEF subs
<1> QED BY <1>5, <1>7, <1>13, <1>14, OneParser

(* The end of the main song changes no parser. *)
LEMMA LastReturnKeeps ==
  ASSUME Structure, Len(open) = 1, Return, LinesOf("define")' = LinesOf("define"),
         \A s : Playable(s) \subseteq Playable(s)'
  PROVE  SongsOK'
<1>1. parser' = parser
  BY DEF Return
<1>2. /\ parser = [s \in {0} \cup LinesOf("define") |-> parser[s]]
      /\ \A s \in DOMAIN parser : /\ IsParser(parser[s], Playable(s))
                                  /\ SongOK(parser[s].mSong, Playable(s))
  BY DEF Structure, SongsOK
<1>3. ASSUME NEW s \in DOMAIN parser
      PROVE  IsParser(parser[s], Playable(s)') /\ SongOK(parser[s].mSong, Playable(s)')
  <2>1. Playable(s) \subseteq Playable(s)'
    OBVIOUS
  <2>2. IsParser(parser[s], Playable(s)) /\ SongOK(parser[s].mSong, Playable(s))
    BY <1>2
  <2> QED BY <2>1, <2>2, MoreSubs
<1> QED BY <1>1, <1>2, <1>3 DEF SongsOK

LEMMA EndKeeps ==
  ASSUME Structure, NEW line, IsLine(line), End(line)
  PROVE  Structure' /\ line.is = "end" /\ StillReading
<1> DEFINE r == Parsed(line)
<1> SUFFICES ASSUME NEW m, m = Len(open) PROVE Structure' /\ line.is = "end" /\ StillReading
  OBVIOUS
<1>1. /\ StillReading /\ Grows(line) /\ junk' = junk /\ Return /\ open' = Front(open)
      /\ state' = IF m = 1 THEN "done" ELSE "reading"
      /\ KeepsEvents(r) /\ r.events[1].kind = "end"
  BY DEF End, Return, ReadLine, StillReading, Grows
<1>2. LineKeeps(parser[Current], line, Playable(Current), r)
  BY <1>1, ParsedIs
<1>3. line.is = "end"
  <2> HIDE DEF r
  <2> QED BY <1>1, <1>2, KindOfLine
<1>4. /\ OpenOK' /\ NestOK' /\ LinesOf("define")' = LinesOf("define")
      /\ \A s : Playable(s) \subseteq Playable(s)'
      /\ \A s : m > 1 /\ s = open[m - 1].id => Current \in Playable(s)'
  BY <1>1, <1>3, NestEnds
<1>5. m \in Nat \ {0}
  BY <1>1 DEF Structure, OpenOK, IsSeq, StillReading
<1>6. SongsOK'
  <2>1. CASE m = 1
    BY <1>1, <1>4, <2>1, LastReturnKeeps
  <2>2. CASE m > 1
    BY <1>1, <1>4, <2>2, ReturnKeeps
  <2> QED BY <1>5, <2>1, <2>2
<1>7. TextOK'
  BY <1>1, Grown DEF Structure
<1> QED BY <1>1, <1>3, <1>4, <1>6, <1>7 DEF Structure

LEMMA EndOfInputKeeps ==
  ASSUME Structure, EndOfInput
  PROVE  Structure'
<1> SUFFICES ASSUME NEW m, m = Len(open) PROVE Structure'
  OBVIOUS
<1>1. /\ junk' = junk /\ text' = text /\ Return /\ open' = Front(open)
      /\ state' = IF m = 1 THEN "done" ELSE "ended"
  BY DEF EndOfInput, Return
<1>2. m \in Nat \ {0} /\ m # 0
  BY DEF Structure, OpenOK, IsSeq, EndOfInput
<1>3. /\ OpenOK' /\ NestOK' /\ LinesOf("define")' = LinesOf("define")
      /\ \A s : Playable(s) \subseteq Playable(s)'
      /\ \A s : m > 1 /\ s = open[m - 1].id => Current \in Playable(s)'
  BY <1>1, <1>2, NestCloses
<1>4. SongsOK'
  <2>1. CASE m = 1
    BY <1>1, <1>3, <2>1, LastReturnKeeps
  <2>2. CASE m > 1
    BY <1>1, <1>3, <2>2, ReturnKeeps
  <2> QED BY <1>2, <2>1, <2>2
<1>5. TextOK'
  BY <1>1 DEF Structure, TextOK
<1> QED BY <1>3, <1>4, <1>5 DEF Structure

LEMMA StructureInit == Init => Structure
<1> SUFFICES ASSUME Init PROVE Structure
  OBVIOUS
<1> DEFINE main == [id |-> 0, name |-> NoName]
<1>1. /\ text = <<>> /\ state = "reading" /\ open = <<main>> /\ junk \in Junk
      /\ parser = [s \in {0} |-> Fresh] /\ main.id = 0
  BY DEF Init
<1> HIDE DEF main
<1>2. TextOK /\ Len(text) = 0
  BY <1>1, OneEvent DEF TextOK
<1>3. \A kind : LinesOf(kind) = {}
  BY <1>2, LinesAre
<1>4. IsSeq(open) /\ Len(open) = 1 /\ open[1] = main
  BY <1>1, OneEvent
<1>5. OpenOK
  BY <1>1, <1>3, <1>4 DEF OpenOK
<1>6. NestOK
  BY <1>3, <1>4 DEF NestOK
<1>7. SongsOK
  <2>1. /\ DOMAIN parser = {0} /\ parser[0] = Fresh
        /\ parser = [s \in {0} \cup LinesOf("define") |-> parser[s]]
    BY <1>1, <1>3
  <2> QED BY <2>1, FreshIs DEF SongsOK
<1> QED BY <1>2, <1>5, <1>6, <1>7 DEF Structure

(* Steps that change nothing of the text and of the parsers. *)
LEMMA StructureStays ==
  ASSUME Structure, UNCHANGED <<text, open, parser, junk>>,
         state' = state \/ (state = "reading" /\ state' = "aborted")
  PROVE  Structure'
<1>1. \A kind : LinesOf(kind)' = LinesOf(kind)
  BY DEF LinesOf
<1>2. \A kind, d, i : Count(kind, d, i)' = Count(kind, d, i)
  BY <1>1 DEF Count
<1>3. \A d, k : OpenAt(d, k)' = OpenAt(d, k)
  BY <1>2 DEF OpenAt
<1>4. \A k : Owner(k)' = Owner(k)
  BY <1>1, <1>3 DEF Owner
<1>5. Reading' = Reading /\ StillReading' = StillReading
  BY DEF Reading, StillReading
<1>6. \A s : Playable(s)' = Playable(s)
  BY <1>1, <1>4, <1>5 DEF Playable
<1>7. TextOK'
  BY DEF Structure, TextOK
<1>8. OpenOK'
  BY <1>1 DEF Structure, OpenOK
<1>9. NestOK'
  <2>1. Len(text)' = Len(text)
    OBVIOUS
  <2> QED BY <1>1, <1>2, <1>3, <1>4, <1>5, <2>1 DEF Structure, NestOK
<1>10. SongsOK'
  BY <1>1, <1>6 DEF Structure, SongsOK
<1> QED BY <1>7, <1>8, <1>9, <1>10 DEF Structure

(* The structure of the text and of the parsers is an invariant. *)
LEMMA StructureNext ==
  ASSUME Structure, [Next]_vars
  PROVE  Structure'
<1>1. \A line \in NextLines : IsLine(line)
  BY NextLinesAre DEF Structure
<1>2. CASE \E line \in NextLines : KeepNothing(line)
  BY <1>1, <1>2, KeepNothingKeeps
<1>3. CASE \E line \in NextLines : Abort(line)
  BY <1>3, StructureStays DEF Abort
<1>4. CASE \E line \in NextLines : Define(line)
  BY <1>1, <1>4, DefineKeeps
<1>5. CASE \E line \in NextLines : End(line)
  BY <1>1, <1>5, EndKeeps
<1>6. CASE \E line \in NextLines : Store(line)
  BY <1>1, <1>6, StoreKeeps
<1>7. CASE EndOfInput
  BY <1>7, EndOfInputKeeps
<1>8. CASE Over \/ UNCHANGED vars
  BY <1>8, StructureStays DEF Over, vars
<1> QED BY <1>2, <1>3, <1>4, <1>5, <1>6, <1>7, <1>8 DEF Next

LEMMA StructureAlways == Spec => []Structure
<1>1. Structure /\ [Next]_vars => Structure'
  BY StructureNext
<1> QED BY <1>1, StructureInit, PTL DEF Spec
-----------------------------------------------------------------------------
(* What the structure says. *)

(* THEOREM: the variables have their types, whatever the lines of a song   *)
(* are.                                                                    *)
THEOREM Types == Spec => []TypeOK
<1>1. Structure => TypeOK
  <2> SUFFICES ASSUME Structure PROVE TypeOK
    OBVIOUS
  <2>1. state \in {"reading", "ended", "done", "aborted"} /\ (open = <<>> <=> state = "done")
    <3>1. IsSeq(open) /\ (Len(open) = 0 <=> state = "done")
      BY DEF Structure, OpenOK
    <3>2. Len(open) = 0 <=> open = <<>>
      <4> DEFINE R == Range(open)
      <4>1. open \in Seq(R)
        BY <3>1, IsSeqIn
      <4> HIDE DEF R
      <4> QED BY <4>1
    <3> QED BY <3>1, <3>2 DEF Structure, OpenOK
  <2>2. DOMAIN parser = {0} \cup LinesOf("define")
    BY DEF Structure, SongsOK
  <2>3. ASSUME NEW s \in DOMAIN parser
        PROVE  /\ parser[s].mVolume \in Nat /\ parser[s].mTranspose \in Int
               /\ parser[s].mSigns \in [0 .. 11 -> {-1, 0, 1}]
               /\ Range(parser[s].mSubSeqMap) \subseteq DOMAIN parser \ {0}
               /\ \A c \in Columns :
                    parser[s].mLastNote[c] # NoEvent => parser[s].mLastNote[c].column = c
    <3> DEFINE q == parser[s]
    <3>1. IsParser(q, Playable(s))
      BY <2>3 DEF Structure, SongsOK
    <3>2. Playable(s) \subseteq DOMAIN parser \ {0}
      <4>1. LinesOf("define") \subseteq 1 .. Len(text) /\ Len(text) \in Nat
        BY LinesAre DEF Structure
      <4>2. 0 \notin LinesOf("define")
        BY <4>1
      <4> QED BY <2>2, <4>2 DEF Playable
    <3> HIDE DEF q
    <3>3. Range(q.mSubSeqMap) \subseteq DOMAIN parser \ {0}
      BY <3>1, <3>2 DEF IsParser, Range
    <3> QED BY <3>1, <3>3 DEF IsParser, IsLastNote, q
  <2> QED BY <2>1, <2>2, <2>3 DEF TypeOK
<1> QED BY <1>1, StructureAlways, PTL

(* THEOREM: a song plays only subpatterns that are defined in it and       *)
(* complete, so that no subpattern plays itself, however the definitions   *)
(* are nested and named.                                                   *)
THEOREM SubpatternsEnd == Spec => []NoSubpatternPlaysItself
<1>1. Structure => NoSubpatternPlaysItself
  <2> SUFFICES ASSUME Structure, NEW s \in DOMAIN parser, NEW line \in Range(parser[s].mSong),
                      NEW i \in DOMAIN line, Heard(line[i]).kind = "play"
               PROVE  LET e == Heard(line[i])
                      IN  e.sub \in DOMAIN parser \ Reading /\ s < e.sub /\ Owner(e.sub) = s
    BY DEF NoSubpatternPlaysItself
  <2>1. IsParser(parser[s], Playable(s)) /\ SongOK(parser[s].mSong, Playable(s))
    BY DEF Structure, SongsOK
  <2>2. PICK k \in 1 .. Len(parser[s].mSong) : line = parser[s].mSong[k]
    <3>1. DOMAIN parser[s].mSong = 1 .. Len(parser[s].mSong)
      BY <2>1, IsSeqIn DEF IsParser
    <3> QED BY <3>1 DEF Range
  <2>3. IsSeq(line) /\ \A j \in 1 .. Len(line) : IsEvent(line[j], Playable(s))
    BY <2>1, <2>2 DEF SongOK
  <2>4. DOMAIN line = 1 .. Len(line)
    BY <2>3, IsSeqIn
  <2>5. IsEvent(line[i], Playable(s))
    BY <2>3, <2>4
  <2> DEFINE e == Heard(line[i])
  <2>6. e.sub \in Playable(s)
    BY <2>5 DEF IsEvent, IsLast, Heard
  <2>7. e.sub \in LinesOf("define") \ Reading /\ Owner(e.sub) = s
    BY <2>6 DEF Playable
  <2>8. e.sub \in Nat \ {0}
    <3>1. LinesOf("define") \subseteq 1 .. Len(text) /\ Len(text) \in Nat
      BY LinesAre DEF Structure
    <3> QED BY <2>7, <3>1
  <2>9. s \in 0 .. e.sub - 1
    BY <2>7, <2>8, OwnerIs DEF Structure
  <2>10. s < e.sub
    BY <2>8, <2>9
  <2>11. e.sub \in DOMAIN parser
    BY <2>7 DEF Structure, SongsOK
  <2> QED BY <2>7, <2>10, <2>11
<1> QED BY <1>1, StructureAlways, PTL
-----------------------------------------------------------------------------
(* What the lines say, and one more line. *)

(* A set of numbers of lines up to n, which takes in line n + 1 or not. *)
Extends(A, B, n, here) ==
  /\ A \subseteq 1 .. n /\ n \in Nat
  /\ B = IF here THEN A \cup {n + 1} ELSE A

(* The lines of a definition, with one more. *)
LEMMA AboveNext ==
  ASSUME Structure, StillReading, NEW line, Grows(line), NEW n, n = Len(text),
         NEW s, NEW kind
  PROVE  Extends(Above(s, n + 1, kind), Above(s, n + 2, kind)', n,
                 line.is = kind /\ s = Current)
<1>1. TextOK /\ n \in Nat /\ LinesOf(kind) \subseteq 1 .. n
      /\ LinesOf(kind)' = LinesOf(kind) \cup (IF line.is = kind THEN {n + 1} ELSE {})
  BY Grown DEF Structure
<1>2. \A j \in 1 .. n + 1 : Owner(j)' = Owner(j)
  BY <1>1, OwnerStable
<1>3. Owner(n + 1) = Current
  BY Innermost
<1>4. Above(s, n + 2, kind)' = {j \in LinesOf(kind)' : j < n + 2 /\ Owner(j)' = s}
  BY DEF Above
<1>5. Above(s, n + 1, kind) = {j \in LinesOf(kind) : Owner(j) = s}
  BY <1>1 DEF Above
<1>6. \A j \in LinesOf(kind) : j \in 1 .. n /\ j < n + 2 /\ Owner(j)' = Owner(j)
  BY <1>1, <1>2
<1>7. Owner(n + 1)' = Current
  BY <1>1, <1>2, <1>3
<1>8. Above(s, n + 1, kind) \subseteq 1 .. n /\ n \in Nat
  BY <1>1, <1>5
<1>9. CASE line.is = kind
  <2>1. \A j : j \in Above(s, n + 2, kind)'
                 <=> j \in Above(s, n + 1, kind) \/ (j = n + 1 /\ s = Current)
    BY <1>1, <1>4, <1>5, <1>6, <1>7, <1>9
  <2> QED BY <1>1, <1>5, <1>9, <2>1 DEF Extends
<1>10. CASE line.is # kind
  <2>1. \A j : j \in Above(s, n + 2, kind)' <=> j \in Above(s, n + 1, kind)
    BY <1>1, <1>4, <1>5, <1>6, <1>10
  <2> QED BY <1>1, <1>5, <1>10, <2>1 DEF Extends
<1> QED BY <1>8, <1>9, <1>10 DEF Extends

(* The last of some lines, with one more. *)
LEMMA MaxNext ==
  ASSUME NEW n, NEW A, NEW B, NEW here, Extends(A, B, n, here)
  PROVE  /\ here => B # {} /\ Max(B) = n + 1
         /\ ~here => B = A
         /\ A # {} => Max(A) \in A /\ Max(A) \in 1 .. n
<1>1. n \in Nat /\ A \subseteq 1 .. n /\ A \subseteq 0 .. n
  BY DEF Extends
<1>2. A # {} => Max(A) \in A /\ Max(A) \in 1 .. n
  BY <1>1, MaxOf
<1>3. here => n + 1 \in B /\ B \subseteq Int /\ \A y \in B : y <= n + 1
  BY <1>1 DEF Extends
<1>4. here => Max(B) = n + 1
  <2> DEFINE x == n + 1
  <2> HIDE DEF x
  <2>1. here => Max(B) = x
    BY <1>3, MaxIs DEF x
  <2> QED BY <2>1 DEF x
<1> QED BY <1>2, <1>3, <1>4 DEF Extends

(* The number that a kind of directive gives last. *)
LEMMA LastAboveNext ==
  ASSUME Structure, StillReading, NEW line, Grows(line), NEW n, n = Len(text),
         NEW s, NEW kind, NEW default
  PROVE  LastAbove(s, n + 2, kind, default)'
           = IF line.is = kind /\ s = Current THEN line.n ELSE LastAbove(s, n + 1, kind, default)
<1> DEFINE A == Above(s, n + 1, kind)
           B == Above(s, n + 2, kind)'
           here == line.is = kind /\ s = Current
<1>1. Extends(A, B, n, here)
  BY AboveNext
<1>2. (\A k \in 1 .. n : text'[k] = text[k]) /\ text'[n + 1] = line
  BY GrownText DEF Structure
<1>3. LastAbove(s, n + 2, kind, default)' = IF B = {} THEN default ELSE text'[Max(B)].n
  BY DEF LastAbove
<1>4. LastAbove(s, n + 1, kind, default) = IF A = {} THEN default ELSE text[Max(A)].n
  BY DEF LastAbove
<1> HIDE DEF A, B, here
<1>5. /\ here => B # {} /\ Max(B) = n + 1
      /\ ~here => B = A
      /\ A # {} => Max(A) \in 1 .. n
  BY <1>1, MaxNext
<1>6. LastAbove(s, n + 2, kind, default)'
        = IF here THEN line.n ELSE LastAbove(s, n + 1, kind, default)
  BY <1>2, <1>3, <1>4, <1>5
<1> QED BY <1>6 DEF here

(* The pitch of "*". *)
LEMMA DefaultPitchNext ==
  ASSUME Structure, StillReading, NEW line, Grows(line), NEW n, n = Len(text), NEW s
  PROVE  DefaultPitch(s, n + 2)'
           = IF line.is = "default" /\ line.word.is = "note" /\ s = Current THEN Pitch(line.word)
             ELSE DefaultPitch(s, n + 1)
<1> DEFINE C == Above(s, n + 1, "default")
           D == Above(s, n + 2, "default")'
           A == Defaults(s, n + 1)
           B == Defaults(s, n + 2)'
           here == line.is = "default" /\ line.word.is = "note" /\ s = Current
<1>1. Extends(C, D, n, line.is = "default" /\ s = Current)
  BY AboveNext
<1>2. (\A k \in 1 .. n : text'[k] = text[k]) /\ text'[n + 1] = line
  BY GrownText DEF Structure
<1>3. Extends(A, B, n, here)
  <2>1. /\ A = {j \in C : text[j].word.is = "note"}
        /\ B = {j \in D : text'[j].word.is = "note"}
    BY DEF Defaults
  <2> HIDE DEF A, B, C, D
  <2>2. A \subseteq 1 .. n /\ n \in Nat
    BY <1>1, <2>1 DEF Extends
  <2>3. \A j : j \in B <=> j \in A \/ (j = n + 1 /\ here)
    BY <1>1, <1>2, <2>1 DEF Extends
  <2> HIDE DEF here
  <2> QED BY <2>2, <2>3 DEF Extends
<1>4. DefaultPitch(s, n + 2)' = IF B = {} THEN 0 ELSE Pitch(text'[Max(B)].word)
  BY DEF DefaultPitch, Pitch
<1>5. DefaultPitch(s, n + 1) = IF A = {} THEN 0 ELSE Pitch(text[Max(A)].word)
  BY DEF DefaultPitch
<1> HIDE DEF A, B, here
<1>6. /\ here => B # {} /\ Max(B) = n + 1
      /\ ~here => B = A
      /\ A # {} => Max(A) \in 1 .. n
  BY <1>3, MaxNext
<1>7. DefaultPitch(s, n + 2)' = IF here THEN Pitch(line.word) ELSE DefaultPitch(s, n + 1)
  BY <1>2, <1>4, <1>5, <1>6
<1> QED BY <1>7 DEF here

(* The sign of a class. *)
LEMMA SignAtNext ==
  ASSUME Structure, StillReading, NEW line, Grows(line), NEW n, n = Len(text), NEW s, NEW class
  PROVE  SignAt(s, n + 2, class)'
           = IF line.is = "bar" /\ SignsFor(line, class) # {} /\ s = Current
             THEN line.signs[Max(SignsFor(line, class))].mod
             ELSE SignAt(s, n + 1, class)
<1> DEFINE C == Above(s, n + 1, "bar")
           D == Above(s, n + 2, "bar")'
           A == Signing(s, n + 1, class)
           B == Signing(s, n + 2, class)'
           here == line.is = "bar" /\ SignsFor(line, class) # {} /\ s = Current
<1>1. Extends(C, D, n, line.is = "bar" /\ s = Current)
  BY AboveNext
<1>2. (\A k \in 1 .. n : text'[k] = text[k]) /\ text'[n + 1] = line
  BY GrownText DEF Structure
<1>3. Extends(A, B, n, here)
  <2>1. /\ A = {j \in C : SignsFor(text[j], class) # {}}
        /\ B = {j \in D : SignsFor(text'[j], class) # {}}
    BY DEF Signing, SignsFor
  <2> HIDE DEF A, B, C, D
  <2>2. A \subseteq 1 .. n /\ n \in Nat
    BY <1>1, <2>1 DEF Extends
  <2>3. \A j : j \in B <=> j \in A \/ (j = n + 1 /\ here)
    BY <1>1, <1>2, <2>1 DEF Extends
  <2> HIDE DEF here
  <2> QED BY <2>2, <2>3 DEF Extends
<1>4. SignAt(s, n + 2, class)'
        = IF B = {} THEN 0
          ELSE text'[Max(B)].signs[Max(SignsFor(text'[Max(B)], class))].mod
  BY DEF SignAt, SignsFor
<1>5. SignAt(s, n + 1, class)
        = IF A = {} THEN 0
          ELSE text[Max(A)].signs[Max(SignsFor(text[Max(A)], class))].mod
  BY DEF SignAt
<1> HIDE DEF A, B, here
<1>6. /\ here => B # {} /\ Max(B) = n + 1
      /\ ~here => B = A
      /\ A # {} => Max(A) \in 1 .. n
  BY <1>3, MaxNext
<1>7. SignAt(s, n + 2, class)'
        = IF here THEN line.signs[Max(SignsFor(line, class))].mod ELSE SignAt(s, n + 1, class)
  BY <1>2, <1>4, <1>5, <1>6
<1> QED BY <1>7 DEF here

(* What a parser q knows, in parts: it is the parser of s before line k. *)

NumbersKnown(q, s, k) ==
  /\ q.mVolume = LastAbove(s, k, "volume", 64)
  /\ q.mTranspose = LastAbove(s, k, "transpose", 0)
  /\ q.mDfltNote.pitch = DefaultPitch(s, k)

SignsKnown(q, s, k) == \A class \in 0 .. 11 : q.mSigns[class] = SignAt(s, k, class)

AliasesKnown(q, s, k) ==
  /\ DOMAIN q.mAliases = {name \in Names("alias") : IsAlias(s, k, name)}
  /\ \A name \in DOMAIN q.mAliases : q.mAliases[name] = AliasOf(s, k, name)

SubsKnown(q, s, k) ==
  /\ DOMAIN q.mSubSeqMap = {name \in Names("define") : Complete(s, k, name) # {}}
  /\ \A name \in DOMAIN q.mSubSeqMap : q.mSubSeqMap[name] = Max(Complete(s, k, name))

LEMMA KnowsIs ==
  ASSUME NEW s, NEW k
  PROVE  Knows(s, k) <=> /\ NumbersKnown(parser[s], s, k) /\ SignsKnown(parser[s], s, k)
                         /\ AliasesKnown(parser[s], s, k) /\ SubsKnown(parser[s], s, k)
BY DEF Knows, NumbersKnown, SignsKnown, AliasesKnown, SubsKnown

(* The numbers after one more line. *)
LEMMA NumbersNext ==
  ASSUME Structure, StillReading, NEW line, Grows(line), NEW n, n = Len(text),
         NEW s, NEW q, NEW r, NumbersKnown(q, s, n + 1),
         r.mVolume = IF line.is = "volume" /\ s = Current THEN line.n ELSE q.mVolume,
         r.mTranspose = IF line.is = "transpose" /\ s = Current THEN line.n ELSE q.mTranspose,
         r.mDfltNote.pitch = IF line.is = "default" /\ line.word.is = "note" /\ s = Current
                             THEN Pitch(line.word) ELSE q.mDfltNote.pitch
  PROVE  NumbersKnown(r, s, n + 2)'
<1>1. r.mVolume = LastAbove(s, n + 2, "volume", 64)'
  <2>1. LastAbove(s, n + 2, "volume", 64)'
          = IF line.is = "volume" /\ s = Current THEN line.n
            ELSE LastAbove(s, n + 1, "volume", 64)
    BY LastAboveNext
  <2> QED BY <2>1 DEF NumbersKnown
<1>2. r.mTranspose = LastAbove(s, n + 2, "transpose", 0)'
  <2>1. LastAbove(s, n + 2, "transpose", 0)'
          = IF line.is = "transpose" /\ s = Current THEN line.n
            ELSE LastAbove(s, n + 1, "transpose", 0)
    BY LastAboveNext
  <2> QED BY <2>1 DEF NumbersKnown
<1>3. r.mDfltNote.pitch = DefaultPitch(s, n + 2)'
  <2>1. DefaultPitch(s, n + 2)'
          = IF line.is = "default" /\ line.word.is = "note" /\ s = Current THEN Pitch(line.word)
            ELSE DefaultPitch(s, n + 1)
    BY DefaultPitchNext
  <2> QED BY <2>1 DEF NumbersKnown
<1> QED BY <1>1, <1>2, <1>3 DEF NumbersKnown

(* The signs after one more line. *)
LEMMA SignsNext ==
  ASSUME Structure, StillReading, NEW line, Grows(line), NEW n, n = Len(text),
         NEW s, NEW q, NEW r, SignsKnown(q, s, n + 1),
         \A class \in 0 .. 11 :
           r.mSigns[class] = IF line.is = "bar" /\ SignsFor(line, class) # {} /\ s = Current
                             THEN line.signs[Max(SignsFor(line, class))].mod
                             ELSE q.mSigns[class]
  PROVE  SignsKnown(r, s, n + 2)'
<1>1. \A class : SignAt(s, n + 2, class)'
                    = IF line.is = "bar" /\ SignsFor(line, class) # {} /\ s = Current
                      THEN line.signs[Max(SignsFor(line, class))].mod
                      ELSE SignAt(s, n + 1, class)
  BY SignAtNext, ZenonT(60)
<1>2. \A class \in 0 .. 11 : q.mSigns[class] = SignAt(s, n + 1, class)
  BY DEF SignsKnown
<1>3. \A class \in 0 .. 11 : r.mSigns[class] = SignAt(s, n + 2, class)'
  BY <1>1, <1>2
<1> QED BY <1>3 DEF SignsKnown

(* Whether a line is about the name of an alias, and what it does to it. *)

AliasHere(line, s, name) ==
  line.is \in {"alias", "unalias"} /\ s = Current /\ line.name = name

AliasStep(line, s, n, name) ==
  /\ IsAlias(s, n + 2, name)'
       <=> IF AliasHere(line, s, name) THEN line.is = "alias" ELSE IsAlias(s, n + 1, name)
  /\ AliasHere(line, s, name) => AliasOf(s, n + 2, name)' = line.word
  /\ ~AliasHere(line, s, name) /\ IsAlias(s, n + 1, name) =>
       AliasOf(s, n + 2, name)' = AliasOf(s, n + 1, name)

(* A name after one more line. *)
LEMMA AliasNext ==
  ASSUME Structure, StillReading, NEW line, Grows(line), NEW n, n = Len(text), NEW s, NEW name
  PROVE  AliasStep(line, s, n, name)
<1> DEFINE C1 == Above(s, n + 1, "alias")
           D1 == Above(s, n + 2, "alias")'
           C2 == Above(s, n + 1, "unalias")
           D2 == Above(s, n + 2, "unalias")'
           A == Aliasing(s, n + 1, name)
           B == Aliasing(s, n + 2, name)'
           here == AliasHere(line, s, name)
<1>1. /\ Extends(C1, D1, n, line.is = "alias" /\ s = Current)
      /\ Extends(C2, D2, n, line.is = "unalias" /\ s = Current)
  BY AboveNext
<1>2. (\A k \in 1 .. n : text'[k] = text[k]) /\ text'[n + 1] = line
  BY GrownText DEF Structure
<1>3. Extends(A, B, n, here)
  <2>1. /\ A = {j \in C1 \cup C2 : text[j].name = name}
        /\ B = {j \in D1 \cup D2 : text'[j].name = name}
    BY DEF Aliasing
  <2> HIDE DEF A, B, C1, D1, C2, D2
  <2>2. A \subseteq 1 .. n /\ n \in Nat
    BY <1>1, <2>1 DEF Extends
  <2>3. \A j : j \in B <=> j \in A \/ (j = n + 1 /\ here)
    BY <1>1, <1>2, <2>1 DEF Extends, AliasHere
  <2> HIDE DEF here
  <2> QED BY <2>2, <2>3 DEF Extends
<1>4. IsAlias(s, n + 2, name)' <=> B # {} /\ text'[Max(B)].is = "alias"
  BY DEF IsAlias
<1>5. IsAlias(s, n + 1, name) <=> A # {} /\ text[Max(A)].is = "alias"
  BY DEF IsAlias
<1>6. /\ AliasOf(s, n + 2, name)' = text'[Max(B)].word
      /\ AliasOf(s, n + 1, name) = text[Max(A)].word
  BY DEF AliasOf
<1> HIDE DEF A, B, here
<1>7. /\ here => B # {} /\ Max(B) = n + 1
      /\ ~here => B = A
      /\ A # {} => Max(A) \in 1 .. n
  BY <1>3, MaxNext
<1>8. /\ IsAlias(s, n + 2, name)' <=> IF here THEN line.is = "alias" ELSE IsAlias(s, n + 1, name)
      /\ here => AliasOf(s, n + 2, name)' = line.word
      /\ ~here /\ IsAlias(s, n + 1, name) =>
           AliasOf(s, n + 2, name)' = AliasOf(s, n + 1, name)
  BY <1>2, <1>4, <1>5, <1>6, <1>7
<1> QED BY <1>8 DEF here, AliasStep

(* The names that some kind of line gives. *)
LEMMA NamesNext ==
  ASSUME TextOK, NEW line, Grows(line), NEW n, n = Len(text), NEW kind
  PROVE  Names(kind)' = Names(kind) \cup (IF line.is = kind THEN {line.name} ELSE {})
<1>1. LinesOf(kind)' = LinesOf(kind) \cup (IF line.is = kind THEN {n + 1} ELSE {})
  BY Grown
<1>2. /\ LinesOf(kind) \subseteq 1 .. n
      /\ \A k \in 1 .. n : text'[k] = text[k]
      /\ text'[n + 1] = line
  BY GrownText, LinesAre
<1>3. Names(kind)' = {text'[j].name : j \in LinesOf(kind)'}
  BY DEF Names
<1>4. Names(kind) = {text[j].name : j \in LinesOf(kind)}
  BY DEF Names
<1>5. \A x : x \in Names(kind)' <=> x \in Names(kind) \/ (line.is = kind /\ x = line.name)
  BY <1>1, <1>2, <1>3, <1>4
<1> QED BY <1>5

(* A name that is an alias is named by a line. *)
LEMMA AliasIsNamed ==
  ASSUME TextOK, NEW s, NEW k \in Nat \ {0}, k <= Len(text) + 1, NEW name, IsAlias(s, k, name)
  PROVE  name \in Names("alias")
<1> DEFINE A == Aliasing(s, k, name)
           n == Len(text)
<1>1. A # {} /\ text[Max(A)].is = "alias"
  BY DEF IsAlias
<1>2. A \subseteq 0 .. n /\ n \in Nat /\ DOMAIN text = 1 .. n
  BY LinesAre DEF Aliasing, Above
<1>3. \A j \in A : text[j].name = name /\ j \in DOMAIN text
  BY DEF Aliasing, Above, LinesOf
<1> HIDE DEF A, n
<1>4. Max(A) \in A
  BY <1>1, <1>2, MaxOf
<1>5. Max(A) \in LinesOf("alias") /\ text[Max(A)].name = name
  BY <1>1, <1>3, <1>4 DEF LinesOf
<1> QED BY <1>5 DEF Names

(* The aliases after one more line. *)
LEMMA AliasesNext ==
  ASSUME Structure, StillReading, NEW line, Grows(line), NEW n, n = Len(text),
         NEW s, NEW q, NEW r, AliasesKnown(q, s, n + 1),
         line.is = "alias" /\ s = Current => r.mAliases = Put(q.mAliases, line.name, line.word),
         line.is = "unalias" /\ s = Current =>
           r.mAliases = Restrict(q.mAliases, DOMAIN q.mAliases \ {line.name}),
         ~(line.is \in {"alias", "unalias"} /\ s = Current) => r.mAliases = q.mAliases
  PROVE  AliasesKnown(r, s, n + 2)'
<1> DEFINE here(name) == AliasHere(line, s, name)
           old == q.mAliases
           new == r.mAliases
<1>0. n \in Nat /\ TextOK
  BY Grown DEF Structure
<1>1. \A name : /\ IsAlias(s, n + 2, name)'
                     <=> IF here(name) THEN line.is = "alias" ELSE IsAlias(s, n + 1, name)
                /\ here(name) => AliasOf(s, n + 2, name)' = line.word
                /\ ~here(name) /\ IsAlias(s, n + 1, name) =>
                     AliasOf(s, n + 2, name)' = AliasOf(s, n + 1, name)
  BY AliasNext DEF AliasStep
<1>2. /\ DOMAIN old = {name \in Names("alias") : IsAlias(s, n + 1, name)}
      /\ \A name \in DOMAIN old : old[name] = AliasOf(s, n + 1, name)
  BY DEF AliasesKnown
<1>3. \A name : IsAlias(s, n + 1, name) => name \in Names("alias")
  BY <1>0, AliasIsNamed
<1>4. Names("alias")' = Names("alias") \cup (IF line.is = "alias" THEN {line.name} ELSE {})
  BY <1>0, NamesNext
<1> HIDE DEF old, new
<1>5. \A name : /\ name \in DOMAIN new <=> IF here(name) THEN line.is = "alias"
                                           ELSE name \in DOMAIN old
                /\ here(name) /\ line.is = "alias" => new[name] = line.word
                /\ ~here(name) /\ name \in DOMAIN old => new[name] = old[name]
  <2>1. CASE line.is = "alias" /\ s = Current
    <3>1. new = Put(old, line.name, line.word)
      BY <2>1 DEF new, old
    <3> DEFINE x == line.name
               w == line.word
    <3> HIDE DEF x, w
    <3>2. new = Put(old, x, w)
      BY <3>1 DEF x, w
    <3>3. /\ DOMAIN new = DOMAIN old \cup {x} /\ new[x] = w
          /\ \A name \in DOMAIN old \ {x} : new[name] = old[name]
      BY <3>2 DEF Put, Overlaid
    <3> QED BY <2>1, <3>3 DEF x, w, AliasHere
  <2>2. CASE line.is = "unalias" /\ s = Current
    <3>1. new = Restrict(old, DOMAIN old \ {line.name})
      BY <2>2 DEF new, old
    <3>2. /\ DOMAIN new = DOMAIN old \ {line.name}
          /\ \A name \in DOMAIN old \ {line.name} : new[name] = old[name]
      BY <3>1 DEF Restrict
    <3> QED BY <2>2, <3>2 DEF AliasHere
  <2>3. CASE ~(line.is \in {"alias", "unalias"} /\ s = Current)
    BY <2>3 DEF new, old, AliasHere
  <2> QED BY <2>1, <2>2, <2>3
<1>6. \A name : name \in DOMAIN new <=> name \in Names("alias")' /\ IsAlias(s, n + 2, name)'
  <2> SUFFICES ASSUME NEW name
               PROVE  name \in DOMAIN new <=> name \in Names("alias")' /\ IsAlias(s, n + 2, name)'
    OBVIOUS
  <2>1. CASE here(name)
    BY <1>1, <1>4, <1>5, <2>1 DEF AliasHere
  <2>2. CASE ~here(name)
    <3>1. IsAlias(s, n + 2, name)' <=> IsAlias(s, n + 1, name)
      BY <1>1, <2>2
    <3>2. name \in DOMAIN new <=> name \in DOMAIN old
      BY <1>5, <2>2
    <3> QED BY <1>2, <1>3, <1>4, <3>1, <3>2
  <2> QED BY <2>1, <2>2
<1>7. \A name \in DOMAIN new : new[name] = AliasOf(s, n + 2, name)'
  <2> SUFFICES ASSUME NEW name \in DOMAIN new PROVE new[name] = AliasOf(s, n + 2, name)'
    OBVIOUS
  <2>1. CASE here(name)
    BY <1>1, <1>5, <2>1
  <2>2. CASE ~here(name)
    BY <1>1, <1>2, <1>5, <2>2
  <2> QED BY <2>1, <2>2
<1>8. DOMAIN new = {name \in Names("alias")' : IsAlias(s, n + 2, name)'}
  BY <1>6
<1> QED BY <1>7, <1>8 DEF AliasesKnown, new

(* A definition that is complete has a name. *)
LEMMA CompleteIsNamed ==
  ASSUME NEW s, NEW k, NEW name
  PROVE  /\ Complete(s, k, name) \subseteq Above(s, k, "define")
         /\ Complete(s, k, name) # {} => name \in Names("define")
BY DEF Complete, Definitions, Names, Above

(* The subpatterns after one more line that is no end: a definition that   *)
(* begins is not complete.                                                 *)
LEMMA SubsNext ==
  ASSUME Structure, StillReading, NEW line, Grows(line), NEW n, n = Len(text),
         line.is # "end", Reading' = Reading \cup (IF line.is = "define" THEN {n + 1} ELSE {}),
         NEW s, NEW q, NEW r, SubsKnown(q, s, n + 1), r.mSubSeqMap = q.mSubSeqMap
  PROVE  SubsKnown(r, s, n + 2)'
<1> DEFINE C == Above(s, n + 1, "define")
           D == Above(s, n + 2, "define")'
<1>1. Extends(C, D, n, line.is = "define" /\ s = Current)
  BY AboveNext
<1>2. (\A k \in 1 .. n : text'[k] = text[k]) /\ text'[n + 1] = line /\ TextOK
  BY GrownText DEF Structure
<1>3. \A name : Complete(s, n + 2, name)' = Complete(s, n + 1, name)
  <2> SUFFICES ASSUME NEW name PROVE Complete(s, n + 2, name)' = Complete(s, n + 1, name)
    OBVIOUS
  <2>1. /\ Complete(s, n + 2, name)' = {d \in D : text'[d].name = name} \ Reading'
        /\ Complete(s, n + 1, name) = {d \in C : text[d].name = name} \ Reading
    BY DEF Complete, Definitions
  <2> HIDE DEF C, D
  <2>2. /\ C \subseteq 1 .. n /\ n + 1 \notin C
        /\ \A d \in C : d \in D /\ text'[d] = text[d] /\ (d \in Reading' <=> d \in Reading)
        /\ \A d \in D : d \in C \/ (d = n + 1 /\ line.is = "define")
    BY <1>1, <1>2 DEF Extends
  <2>3. line.is = "define" => n + 1 \in Reading'
    OBVIOUS
  <2>4. \A d : d \in Complete(s, n + 2, name)' <=> d \in Complete(s, n + 1, name)
    BY <2>1, <2>2, <2>3
  <2> QED BY <2>1, <2>4
<1>4. Names("define")' = Names("define") \cup (IF line.is = "define" THEN {line.name} ELSE {})
  BY <1>2, NamesNext
<1>5. \A name : Complete(s, n + 1, name) # {} => name \in Names("define")
  BY CompleteIsNamed
<1>6. /\ DOMAIN q.mSubSeqMap = {name \in Names("define") : Complete(s, n + 1, name) # {}}
      /\ \A name \in DOMAIN q.mSubSeqMap : q.mSubSeqMap[name] = Max(Complete(s, n + 1, name))
  BY DEF SubsKnown
<1>7. DOMAIN r.mSubSeqMap = {name \in Names("define")' : Complete(s, n + 2, name)' # {}}
  BY <1>3, <1>4, <1>5, <1>6
<1>8. \A name \in DOMAIN r.mSubSeqMap : r.mSubSeqMap[name] = Max(Complete(s, n + 2, name)')
  BY <1>3, <1>6
<1> QED BY <1>7, <1>8 DEF SubsKnown

(* The innermost definition is the last in the one around it. *)
LEMMA InnermostIsLast ==
  ASSUME Structure, NEW m, m = Len(open), m > 1, NEW n, n = Len(text), NEW d, d = Current,
         NEW s
  PROVE  /\ n \in Nat /\ d \in LinesOf("define") /\ text[d].name = Last(open).name
         /\ Owner(d) = open[m - 1].id /\ d \in Reading
         /\ d \in Above(s, n + 1, "define") <=> s = open[m - 1].id
         /\ s = open[m - 1].id => \A e \in Above(s, n + 1, "define") : e <= d
<1>0. IsSeq(open) /\ m \in Nat /\ m \in 2 .. m /\ DOMAIN open = 1 .. m
  BY IsSeqIn DEF Structure, OpenOK, IsSeq
<1>1. d = open[m].id /\ Last(open) = open[m]
  BY <1>0, Fronts DEF Current
<1>2. /\ d \in LinesOf("define") /\ text[d].name = open[m].name
      /\ OpenAt(d, n + 1) /\ Owner(d) = open[m - 1].id
  BY <1>0, <1>1 DEF Structure, OpenOK, NestOK
<1>3. n \in Nat /\ LinesOf("define") \subseteq 1 .. n /\ TextOK
  BY LinesAre DEF Structure
<1>4. d \in Reading
  BY <1>0, <1>1 DEF Reading
<1>5. Above(s, n + 1, "define") = {j \in LinesOf("define") : Owner(j) = s}
  BY <1>3 DEF Above
<1>6. ASSUME s = open[m - 1].id, NEW e \in Above(s, n + 1, "define") PROVE e <= d
  <2>1. e \in LinesOf("define") /\ Owner(e) = s /\ e \in 1 .. n /\ d \in 1 .. n
    BY <1>2, <1>3, <1>5, <1>6
  <2>2. SUFFICES ASSUME d < e PROVE FALSE
    BY <2>1
  <2>3. OpenAt(d, e)
    <3>1. \A i \in d .. (n + 1) - 1 : Count("define", d, i) > Count("end", d, i)
      BY <1>2 DEF OpenAt
    <3>2. \A i \in d .. e - 1 : i \in d .. (n + 1) - 1
      BY <1>3, <2>1
    <3> QED BY <3>1, <3>2 DEF OpenAt
  <2>4. d <= Owner(e)
    <3>1. e \in Nat \ {0}
      BY <2>1
    <3> QED BY <1>2, <1>3, <2>2, <2>3, <3>1, OwnerIs
  <2>5. Owner(d) \in 0 .. d - 1
    <3>1. d \in Nat \ {0}
      BY <2>1
    <3> QED BY <1>3, <3>1, OwnerIs
  <2> QED BY <1>2, <1>6, <2>1, <2>4, <2>5
<1> QED BY <1>1, <1>2, <1>3, <1>4, <1>5, <1>6

(* The end of the innermost definition d of some name, after line n of the *)
(* text: q becomes r, and the lines of s up to line k are the same.        *)
Returning(m, n, d, name, k, s, q, r) ==
  /\ m = Len(open) /\ m > 1 /\ n = Len(text) /\ d = Current /\ name = Last(open).name
  /\ Above(s, k, "define")' = Above(s, n + 1, "define")
  /\ \A j \in 1 .. n : text'[j] = text[j]
  /\ Names("define")' = Names("define") /\ Reading' = Reading \ {d}
  /\ SubsKnown(q, s, n + 1)
  /\ s = open[m - 1].id => r.mSubSeqMap = Put(q.mSubSeqMap, name, d)
  /\ s # open[m - 1].id => r.mSubSeqMap = q.mSubSeqMap

(* The subpatterns after it, of the parser around it and of any other.     *)
LEMMA SubsReturn ==
  ASSUME Structure, NEW m, NEW n, NEW d, NEW name, NEW k, NEW s, NEW q, NEW r,
         Returning(m, n, d, name, k, s, q, r)
  PROVE  SubsKnown(r, s, k)'
<1> SUFFICES ASSUME m = Len(open), m > 1, n = Len(text), d = Current, name = Last(open).name,
                    Above(s, k, "define")' = Above(s, n + 1, "define"),
                    \A j \in 1 .. n : text'[j] = text[j],
                    Names("define")' = Names("define"), Reading' = Reading \ {d},
                    SubsKnown(q, s, n + 1),
                    s = open[m - 1].id => r.mSubSeqMap = Put(q.mSubSeqMap, name, d),
                    s # open[m - 1].id => r.mSubSeqMap = q.mSubSeqMap
             PROVE  SubsKnown(r, s, k)'
  BY DEF Returning
<1> DEFINE C == Above(s, n + 1, "define")
           around == s = open[m - 1].id
           old == q.mSubSeqMap
           new == r.mSubSeqMap
<1>1. /\ n \in Nat /\ d \in LinesOf("define") /\ text[d].name = name /\ d \in Reading
      /\ d \in C <=> around
      /\ around => \A e \in C : e <= d
  BY InnermostIsLast, ZenonT(60)
<1>2. C \subseteq 1 .. n
  BY LinesAre DEF Above, Structure
<1>3. \A x : /\ Complete(s, k, x)' = {e \in C : text'[e].name = x} \ Reading'
             /\ Complete(s, n + 1, x) = {e \in C : text[e].name = x} \ Reading
  BY DEF Complete, Definitions
<1>4. /\ DOMAIN old = {x \in Names("define") : Complete(s, n + 1, x) # {}}
      /\ \A x \in DOMAIN old : old[x] = Max(Complete(s, n + 1, x))
  BY DEF SubsKnown
<1>5. name \in Names("define")
  BY <1>1 DEF Names
<1>a. /\ around => new = Put(old, name, d)
      /\ ~around => new = old
  OBVIOUS
<1> HIDE DEF C, old, new, around
<1>6. \A x : Complete(s, k, x)' = IF around /\ x = name THEN Complete(s, n + 1, x) \cup {d}
                                  ELSE Complete(s, n + 1, x)
  <2> SUFFICES ASSUME NEW x
               PROVE  Complete(s, k, x)' = IF around /\ x = name THEN Complete(s, n + 1, x) \cup {d}
                                           ELSE Complete(s, n + 1, x)
    OBVIOUS
  <2>1. \A e \in C : text'[e] = text[e]
    BY <1>2
  <2>2. \A e : e \in Complete(s, k, x)'
                 <=> e \in Complete(s, n + 1, x) \/ (e = d /\ around /\ x = name)
    BY <1>1, <1>3, <2>1
  <2> QED BY <1>3, <2>2
<1>7. around => Max(Complete(s, n + 1, name) \cup {d}) = d
  <2> DEFINE U == Complete(s, n + 1, name)
             T == U \cup {d}
  <2>0. U \subseteq C /\ d \in Int /\ d <= d
    <3>1. LinesOf("define") \subseteq Int
      BY LinesAre DEF Structure
    <3> QED BY <1>1, <1>3, <3>1
  <2> HIDE DEF U
  <2>1. C \subseteq Int
    BY <1>2
  <2>3. T \subseteq Int /\ d \in T
    BY <2>0, <2>1
  <2>4. around => \A e \in T : e <= d
    BY <1>1, <2>0
  <2> HIDE DEF T
  <2>2. around => Max(T) = d
    BY <2>3, <2>4, MaxIs
  <2> QED BY <2>2 DEF T, U
<1>8. CASE around
  <2>1. /\ DOMAIN new = DOMAIN old \cup {name} /\ new[name] = d
        /\ \A x \in DOMAIN old \ {name} : new[x] = old[x]
    BY <1>8, <1>a DEF Put, Overlaid
  <2>2. DOMAIN new = {x \in Names("define")' : Complete(s, k, x)' # {}}
    BY <1>4, <1>5, <1>6, <1>8, <2>1
  <2>3. \A x \in DOMAIN new : new[x] = Max(Complete(s, k, x)')
    BY <1>4, <1>6, <1>7, <1>8, <2>1
  <2> QED BY <2>2, <2>3 DEF SubsKnown, new
<1>9. CASE ~around
  <2>1. DOMAIN new = {x \in Names("define")' : Complete(s, k, x)' # {}}
    BY <1>4, <1>6, <1>9, <1>a
  <2>2. \A x \in DOMAIN new : new[x] = Max(Complete(s, k, x)')
    BY <1>4, <1>6, <1>9, <1>a
  <2> QED BY <2>1, <2>2 DEF SubsKnown, new
<1> QED BY <1>8, <1>9

(* What a parser learns from a line of its own definition, and does not    *)
(* learn from any other line.                                              *)
Learns(q, line, r, here) ==
  /\ r.mVolume = IF line.is = "volume" /\ here THEN line.n ELSE q.mVolume
  /\ r.mTranspose = IF line.is = "transpose" /\ here THEN line.n ELSE q.mTranspose
  /\ r.mDfltNote.pitch = IF line.is = "default" /\ line.word.is = "note" /\ here
                         THEN Pitch(line.word) ELSE q.mDfltNote.pitch
  /\ \A class \in 0 .. 11 :
       r.mSigns[class] = IF line.is = "bar" /\ SignsFor(line, class) # {} /\ here
                         THEN line.signs[Max(SignsFor(line, class))].mod
                         ELSE q.mSigns[class]
  /\ line.is = "alias" /\ here => r.mAliases = Put(q.mAliases, line.name, line.word)
  /\ line.is = "unalias" /\ here =>
       r.mAliases = Restrict(q.mAliases, DOMAIN q.mAliases \ {line.name})
  /\ ~(line.is \in {"alias", "unalias"} /\ here) => r.mAliases = q.mAliases

LEMMA LearnsNothing ==
  ASSUME NEW q, NEW line, NEW r, NEW here, r.mVolume = q.mVolume,
         r.mTranspose = q.mTranspose, r.mDfltNote = q.mDfltNote, r.mSigns = q.mSigns,
         r.mAliases = q.mAliases, ~here \/ line.is \in {"define", "end"}
  PROVE  Learns(q, line, r, here)
BY DEF Learns

BareLine(line) ==
  line.is = "bar" => /\ line.comment = <<>>
                     /\ \A i \in DOMAIN line.signs : line.signs[i].class # Unset

(* The signs behind a bar, the last of a class. *)
LEMMA BarSigns ==
  ASSUME NEW q, NEW subs, IsParser(q, subs), NEW line, line.is = "bar", IsLine(line),
         BareLine(line), NEW class \in 0 .. 11
  PROVE  ParseLine(q, line).q.mSigns[class]
           = IF SignsFor(line, class) # {} THEN line.signs[Max(SignsFor(line, class))].mod
             ELSE q.mSigns[class]
<1> DEFINE signs == line.signs
           new == ParseBar(q, line).q.mSigns
           S == SignsFor(line, class)
<1>1. BarOK(line) /\ ParseLine(q, line) = ParseBar(q, line)
  BY LineParts, ByKind
<1>2. DOMAIN signs = 1 .. Len(signs) /\ Len(signs) \in Nat
  <2>1. signs \in Seq(Range(signs))
    BY <1>1 DEF BarOK
  <2> HIDE DEF signs
  <2> QED BY <2>1
<1>3. /\ line.comment = <<>>
      /\ \A i \in 1 .. Len(line.signs) : line.signs[i].class # Unset
  BY <1>2 DEF BareLine
<1>4. /\ \A j \in 1 .. Len(signs) :
           /\ signs[j].class % 12 = class
           /\ \A l \in j + 1 .. Len(signs) : signs[l].class % 12 # class
           => new[class] = signs[j].mod
      /\ (\A j \in 1 .. Len(signs) : signs[j].class % 12 # class)
           => new[class] = q.mSigns[class]
  BY <1>1, <1>3, BareBarIs, ZenonT(60)
<1>5. S = {i \in 1 .. Len(signs) : signs[i].class % 12 = class}
  BY <1>2 DEF SignsFor
<1> HIDE DEF signs, S, new
<1>6. S = {} => new[class] = q.mSigns[class]
  BY <1>4, <1>5
<1>7. S # {} => new[class] = signs[Max(S)].mod
  <2> SUFFICES ASSUME S # {} PROVE new[class] = signs[Max(S)].mod
    OBVIOUS
  <2>1. S \subseteq 0 .. Len(signs)
    BY <1>2, <1>5
  <2> DEFINE j == Max(S)
  <2>2. j \in S /\ \A x \in S : x <= j
    BY <1>2, <2>1, MaxOf
  <2> HIDE DEF j
  <2>3. j \in 1 .. Len(signs) /\ signs[j].class % 12 = class
    BY <1>5, <2>2
  <2>4. \A l \in j + 1 .. Len(signs) : signs[l].class % 12 # class
    <3> SUFFICES ASSUME NEW l \in j + 1 .. Len(signs), signs[l].class % 12 = class PROVE FALSE
      OBVIOUS
    <3>1. l \in 1 .. Len(signs) /\ ~(l <= j)
      BY <1>2, <2>3
    <3>2. l \in S
      BY <1>5, <3>1
    <3> QED BY <2>2, <3>1, <3>2
  <2>5. new[class] = signs[j].mod
    BY <1>4, <2>3, <2>4
  <2> QED BY <2>5 DEF j
<1> QED BY <1>1, <1>6, <1>7 DEF new, S, signs

(* Parser r is parser p, perhaps with another song. *)
SameButSong(r, p) == \A x \in Fields \ {"mSong"} : r[x] = p[x]

(* What a line of its definition teaches a parser. *)
LEMMA LearnsItsLine ==
  ASSUME NEW q, NEW subs, IsParser(q, subs), NEW line, IsLine(line), BareLine(line),
         NEW r, SameButSong(r, ParseLine(q, line).q)
  PROVE  Learns(q, line, r, TRUE) /\ r.mSubSeqMap = q.mSubSeqMap
<1> DEFINE p == ParseLine(q, line).q
<1>1. LineKeeps(q, line, subs, ParseLine(q, line))
  BY LineIs
<1>2. /\ p.mSubSeqMap = q.mSubSeqMap
      /\ p.mVolume = IF line.is = "volume" THEN line.n ELSE q.mVolume
      /\ p.mTranspose = IF line.is = "transpose" THEN line.n ELSE q.mTranspose
      /\ p.mDfltNote.pitch = IF line.is = "default" /\ line.word.is = "note"
                             THEN Pitch(line.word) ELSE q.mDfltNote.pitch
      /\ line.is = "alias" => p.mAliases = Put(q.mAliases, line.name, line.word)
      /\ line.is = "unalias" =>
           p.mAliases = Restrict(q.mAliases, DOMAIN q.mAliases \ {line.name})
      /\ line.is \notin {"alias", "unalias"} => p.mAliases = q.mAliases
      /\ line.is # "bar" => p.mSigns = q.mSigns
  BY <1>1 DEF LineKeeps
<1>3. \A class \in 0 .. 11 :
        p.mSigns[class] = IF line.is = "bar" /\ SignsFor(line, class) # {}
                          THEN line.signs[Max(SignsFor(line, class))].mod
                          ELSE q.mSigns[class]
  BY <1>2, BarSigns, SMTT(60)
<1>4. /\ r.mVolume = p.mVolume /\ r.mTranspose = p.mTranspose /\ r.mDfltNote = p.mDfltNote
      /\ r.mSigns = p.mSigns /\ r.mAliases = p.mAliases /\ r.mSubSeqMap = p.mSubSeqMap
  BY DEF Fields, SameButSong
<1> QED BY <1>2, <1>3, <1>4 DEF Learns

(* What a parser knows after one more line, but for the subpatterns. *)
LEMMA KnowsMore ==
  ASSUME Structure, StillReading, NEW line, Grows(line), NEW n, n = Len(text),
         NEW s, NEW q, NEW r, Learns(q, line, r, s = Current), NumbersKnown(q, s, n + 1),
         SignsKnown(q, s, n + 1), AliasesKnown(q, s, n + 1)
  PROVE  /\ NumbersKnown(r, s, n + 2)' /\ SignsKnown(r, s, n + 2)'
         /\ AliasesKnown(r, s, n + 2)'
<1>1. NumbersKnown(r, s, n + 2)'
  <2>1. /\ r.mVolume = IF line.is = "volume" /\ s = Current THEN line.n ELSE q.mVolume
        /\ r.mTranspose = IF line.is = "transpose" /\ s = Current THEN line.n ELSE q.mTranspose
        /\ r.mDfltNote.pitch = IF line.is = "default" /\ line.word.is = "note" /\ s = Current
                               THEN Pitch(line.word) ELSE q.mDfltNote.pitch
    BY DEF Learns
  <2> QED BY <2>1, NumbersNext
<1>2. SignsKnown(r, s, n + 2)'
  <2>1. \A class \in 0 .. 11 :
          r.mSigns[class] = IF line.is = "bar" /\ SignsFor(line, class) # {} /\ s = Current
                            THEN line.signs[Max(SignsFor(line, class))].mod
                            ELSE q.mSigns[class]
    BY DEF Learns
  <2> QED BY <2>1, SignsNext
<1>3. AliasesKnown(r, s, n + 2)'
  <2>1. /\ line.is = "alias" /\ s = Current =>
             r.mAliases = Put(q.mAliases, line.name, line.word)
        /\ line.is = "unalias" /\ s = Current =>
             r.mAliases = Restrict(q.mAliases, DOMAIN q.mAliases \ {line.name})
        /\ ~(line.is \in {"alias", "unalias"} /\ s = Current) => r.mAliases = q.mAliases
    BY DEF Learns
  <2> QED BY <2>1, AliasesNext
<1> QED BY <1>1, <1>2, <1>3
-----------------------------------------------------------------------------
(* What every parser knows. *)

(* A parser that has just been made knows what no lines say. *)
LEMMA FreshKnows ==
  ASSUME NEW s, NEW k, \A kind : Above(s, k, kind) = {}
  PROVE  /\ NumbersKnown(Fresh, s, k) /\ SignsKnown(Fresh, s, k)
         /\ AliasesKnown(Fresh, s, k) /\ SubsKnown(Fresh, s, k)
<1>1. /\ Fresh.mVolume = 64 /\ Fresh.mTranspose = 0 /\ Fresh.mDfltNote.pitch = 0
      /\ \A class \in 0 .. 11 : Fresh.mSigns[class] = 0
      /\ DOMAIN Fresh.mAliases = {} /\ DOMAIN Fresh.mSubSeqMap = {}
  BY DEF Fresh, Empty
<1> HIDE DEF Fresh
<1>2. NumbersKnown(Fresh, s, k)
  BY <1>1 DEF NumbersKnown, LastAbove, DefaultPitch, Defaults
<1>3. SignsKnown(Fresh, s, k)
  <2>1. \A class : Signing(s, k, class) = {}
    BY DEF Signing
  <2> QED BY <1>1, <2>1 DEF SignsKnown, SignAt
<1>4. AliasesKnown(Fresh, s, k)
  <2>1. \A name : ~IsAlias(s, k, name)
    BY DEF IsAlias, Aliasing
  <2> QED BY <1>1, <2>1 DEF AliasesKnown
<1>5. SubsKnown(Fresh, s, k)
  <2>1. \A name : Complete(s, k, name) = {}
    BY DEF Complete, Definitions
  <2> QED BY <1>1, <2>1 DEF SubsKnown
<1> QED BY <1>2, <1>3, <1>4, <1>5

(* The same of the state after a step. *)
LEMMA FreshKnowsNext ==
  ASSUME NEW s, NEW k, \A kind : Above(s, k, kind)' = {}
  PROVE  /\ NumbersKnown(Fresh, s, k)' /\ SignsKnown(Fresh, s, k)'
         /\ AliasesKnown(Fresh, s, k)' /\ SubsKnown(Fresh, s, k)'
<1>1. /\ Fresh.mVolume = 64 /\ Fresh.mTranspose = 0 /\ Fresh.mDfltNote.pitch = 0
      /\ \A class \in 0 .. 11 : Fresh.mSigns[class] = 0
      /\ DOMAIN Fresh.mAliases = {} /\ DOMAIN Fresh.mSubSeqMap = {}
  BY DEF Fresh, Empty
<1> HIDE DEF Fresh
<1>2. NumbersKnown(Fresh, s, k)'
  BY <1>1 DEF NumbersKnown, LastAbove, DefaultPitch, Defaults
<1>3. SignsKnown(Fresh, s, k)'
  <2>1. \A class : Signing(s, k, class)' = {}
    BY DEF Signing
  <2> QED BY <1>1, <2>1 DEF SignsKnown, SignAt
<1>4. AliasesKnown(Fresh, s, k)'
  <2>1. \A name : ~IsAlias(s, k, name)'
    BY DEF IsAlias, Aliasing
  <2> QED BY <1>1, <2>1 DEF AliasesKnown
<1>5. SubsKnown(Fresh, s, k)'
  <2>1. \A name : Complete(s, k, name)' = {}
    BY DEF Complete, Definitions
  <2> QED BY <1>1, <2>1 DEF SubsKnown
<1> QED BY <1>2, <1>3, <1>4, <1>5

(* A step that leaves the text leaves what its lines say. *)
LEMMA TextStays ==
  ASSUME text' = text, NEW s, NEW k
  PROVE  /\ \A kind : Above(s, k, kind)' = Above(s, k, kind) /\ Names(kind)' = Names(kind)
         /\ \A q : /\ NumbersKnown(q, s, k)' <=> NumbersKnown(q, s, k)
                   /\ SignsKnown(q, s, k)' <=> SignsKnown(q, s, k)
                   /\ AliasesKnown(q, s, k)' <=> AliasesKnown(q, s, k)
<1>1. \A kind : LinesOf(kind)' = LinesOf(kind)
  BY DEF LinesOf
<1>2. \A kind, d, i : Count(kind, d, i)' = Count(kind, d, i)
  BY <1>1 DEF Count
<1>3. \A d, j : OpenAt(d, j)' = OpenAt(d, j)
  BY <1>2 DEF OpenAt
<1>4. \A j : Owner(j)' = Owner(j)
  BY <1>1, <1>3 DEF Owner
<1>5. \A kind : Above(s, k, kind)' = Above(s, k, kind) /\ Names(kind)' = Names(kind)
  BY <1>1, <1>4 DEF Above, Names
<1>6. \A q : NumbersKnown(q, s, k)' <=> NumbersKnown(q, s, k)
  BY <1>5 DEF NumbersKnown, LastAbove, DefaultPitch, Defaults, Pitch
<1>7. \A q : SignsKnown(q, s, k)' <=> SignsKnown(q, s, k)
  <2>1. \A class : Signing(s, k, class)' = Signing(s, k, class)
    BY <1>5 DEF Signing, SignsFor
  <2>2. \A class : SignAt(s, k, class)' = SignAt(s, k, class)
    <3> SUFFICES ASSUME NEW class, NEW A, A = Signing(s, k, class), NEW t, t = text
                 PROVE  SignAt(s, k, class)' = SignAt(s, k, class)
      OBVIOUS
    <3> DEFINE line == t[Max(A)]
               sign == IF A = {} THEN 0 ELSE line.signs[Max(SignsFor(line, class))].mod
    <3>1. SignAt(s, k, class) = sign
      BY DEF SignAt
    <3>2. SignAt(s, k, class)' = sign
      BY <2>1 DEF SignAt
    <3> QED BY <3>1, <3>2
  <2> QED BY <2>2 DEF SignsKnown
<1>8. \A q : AliasesKnown(q, s, k)' <=> AliasesKnown(q, s, k)
  <2>1. \A name : Aliasing(s, k, name)' = Aliasing(s, k, name)
    BY <1>5 DEF Aliasing
  <2> QED BY <1>5, <2>1 DEF AliasesKnown, IsAlias, AliasOf
<1> QED BY <1>5, <1>6, <1>7, <1>8

(* The subpatterns stay if neither the definitions in s nor those of them  *)
(* that are being read change.                                             *)
LEMMA SubsStay ==
  ASSUME Structure, NEW n, n = Len(text), NEW k, NEW s,
         Above(s, k, "define")' = Above(s, n + 1, "define"),
         \A j \in 1 .. n : text'[j] = text[j],
         Names("define")' = Names("define"),
         \A d \in LinesOf("define") : d \in Reading' <=> d \in Reading,
         NEW q, NEW r, SubsKnown(q, s, n + 1), r.mSubSeqMap = q.mSubSeqMap
  PROVE  SubsKnown(r, s, k)'
<1> DEFINE C == Above(s, n + 1, "define")
<1>1. C \subseteq 1 .. n /\ C \subseteq LinesOf("define")
  BY LinesAre DEF Above, Structure
<1>2. \A x : /\ Complete(s, k, x)' = {e \in C : text'[e].name = x} \ Reading'
             /\ Complete(s, n + 1, x) = {e \in C : text[e].name = x} \ Reading
  BY DEF Complete, Definitions
<1> HIDE DEF C
<1>3. \A x : Complete(s, k, x)' = Complete(s, n + 1, x)
  <2> SUFFICES ASSUME NEW x PROVE Complete(s, k, x)' = Complete(s, n + 1, x)
    OBVIOUS
  <2>1. \A e \in C : text'[e] = text[e] /\ (e \in Reading' <=> e \in Reading)
    BY <1>1
  <2>2. \A e : e \in Complete(s, k, x)' <=> e \in Complete(s, n + 1, x)
    BY <1>2, <2>1
  <2> QED BY <1>2, <2>2
<1>4. /\ DOMAIN r.mSubSeqMap = {x \in Names("define") : Complete(s, n + 1, x) # {}}
      /\ \A x \in DOMAIN r.mSubSeqMap : r.mSubSeqMap[x] = Max(Complete(s, n + 1, x))
  BY DEF SubsKnown
<1>5. DOMAIN r.mSubSeqMap = {x \in Names("define")' : Complete(s, k, x)' # {}}
  BY <1>3, <1>4
<1>6. \A x \in DOMAIN r.mSubSeqMap : r.mSubSeqMap[x] = Max(Complete(s, k, x)')
  BY <1>3, <1>4
<1> QED BY <1>5, <1>6 DEF SubsKnown

(* What the parsers know of the text read so far. *)
Knowledge == \A n : n = Len(text) => \A s \in DOMAIN parser : Knows(s, n + 1)

(* What is known of one parser. *)
KnownAll(q, s, k) ==
  /\ NumbersKnown(q, s, k) /\ SignsKnown(q, s, k)
  /\ AliasesKnown(q, s, k) /\ SubsKnown(q, s, k)

LEMMA KnowledgeIs ==
  ASSUME NEW n, n = Len(text)
  PROVE  Knowledge <=> \A s \in DOMAIN parser : KnownAll(parser[s], s, n + 1)
BY KnowsIs DEF Knowledge, KnownAll

LEMMA KnowledgeIsNext ==
  ASSUME NEW n, n = Len(text)',
         \A s \in DOMAIN parser' : \A r : r = parser'[s] => KnownAll(r, s, n + 1)'
  PROVE  Knowledge'
<1>1. SUFFICES ASSUME NEW s \in DOMAIN parser', NEW r, r = parser'[s]
               PROVE  Knows(s, n + 1)'
  BY DEF Knowledge
<1>2. /\ NumbersKnown(r, s, n + 1)' /\ SignsKnown(r, s, n + 1)'
      /\ AliasesKnown(r, s, n + 1)' /\ SubsKnown(r, s, n + 1)'
  BY <1>1 DEF KnownAll
<1>3. NumbersKnown(parser[s], s, n + 1)' /\ SignsKnown(parser[s], s, n + 1)'
  BY <1>1, <1>2 DEF NumbersKnown, SignsKnown
<1>4. AliasesKnown(parser[s], s, n + 1)' /\ SubsKnown(parser[s], s, n + 1)'
  BY <1>1, <1>2 DEF AliasesKnown, SubsKnown
<1>5. (Knows(s, n + 1) <=> /\ NumbersKnown(parser[s], s, n + 1) /\ SignsKnown(parser[s], s, n + 1)
                           /\ AliasesKnown(parser[s], s, n + 1) /\ SubsKnown(parser[s], s, n + 1))'
  BY DEF Knows, NumbersKnown, SignsKnown, AliasesKnown, SubsKnown
<1> QED BY <1>3, <1>4, <1>5

(* The parsers that a line that is no end leaves as they were, or teaches  *)
(* what it says.                                                           *)
LEMMA LineLearnt ==
  ASSUME Structure, StillReading, NEW line, Grows(line), NEW n, n = Len(text),
         line.is # "end", Reading' = Reading \cup (IF line.is = "define" THEN {n + 1} ELSE {}),
         NEW s, NEW q, NEW r, KnownAll(q, s, n + 1), Learns(q, line, r, s = Current),
         r.mSubSeqMap = q.mSubSeqMap
  PROVE  KnownAll(r, s, n + 2)'
<1>1. /\ NumbersKnown(r, s, n + 2)' /\ SignsKnown(r, s, n + 2)' /\ AliasesKnown(r, s, n + 2)'
  BY KnowsMore DEF KnownAll
<1>2. SubsKnown(r, s, n + 2)'
  BY SubsNext DEF KnownAll
<1> QED BY <1>1, <1>2 DEF KnownAll

(* A line that the innermost parser reads, and perhaps keeps.              *)
LEMMA ParserLearns ==
  ASSUME Structure, StillReading, Knowledge, NEW line, Grows(line), IsLine(line), BareLine(line),
         line.is \notin {"define", "end"}, open' = open, NEW c, c = Current,
         NEW new, parser' = [parser EXCEPT ![c] = new],
         SameButSong(new, Parsed(line).q)
  PROVE  Knowledge'
<1> SUFFICES ASSUME NEW n, n = Len(text) PROVE Knowledge'
  OBVIOUS
<1>1. \A s \in DOMAIN parser : KnownAll(parser[s], s, n + 1)
  BY KnowledgeIs
<1>2. c \in DOMAIN parser /\ IsParser(parser[c], Playable(c))
  BY ParsedIs
<1>3. /\ DOMAIN parser' = DOMAIN parser /\ parser'[c] = new
      /\ \A s \in DOMAIN parser \ {c} : parser'[s] = parser[s]
  BY <1>2
<1>4. Reading' = Reading \cup (IF line.is = "define" THEN {n + 1} ELSE {})
  BY DEF Reading
<1>5. Parsed(line) = ParseLine(parser[c], line)
  BY DEF Parsed
<1>6. Learns(parser[c], line, new, TRUE) /\ new.mSubSeqMap = parser[c].mSubSeqMap
  <2> DEFINE q == parser[c]
             subs == Playable(c)
  <2>1. SameButSong(new, ParseLine(q, line).q) /\ IsParser(q, subs)
    BY <1>2, <1>5
  <2> HIDE DEF q, subs
  <2> QED BY <2>1, LearnsItsLine DEF q
<1>7. ASSUME NEW s \in DOMAIN parser, NEW r, r = parser'[s] PROVE KnownAll(r, s, n + 2)'
  <2> DEFINE q == parser[s]
  <2>1. CASE s = c
    <3>1. Learns(q, line, r, s = Current) /\ r.mSubSeqMap = q.mSubSeqMap
      BY <1>3, <1>6, <1>7, <2>1 DEF Learns
    <3> QED BY <1>1, <1>4, <3>1, LineLearnt
  <2>2. CASE s # c
    <3>1. r = q
      BY <1>3, <1>7, <2>2
    <3>2. Learns(q, line, r, s = Current)
      BY <2>2, <3>1, LearnsNothing
    <3> QED BY <1>1, <1>4, <3>1, <3>2, LineLearnt
  <2> QED BY <2>1, <2>2
<1>8. Len(text)' = n + 1 /\ n \in Nat
  BY GrownText DEF Structure
<1>9. (n + 1) + 1 = n + 2
  BY <1>8
<1> QED BY <1>3, <1>7, <1>8, <1>9, KnowledgeIsNext

(* A line that gives nothing, or a line of the song. *)
LEMMA KeptLearnt ==
  ASSUME Structure, Knowledge, NEW line, IsLine(line), BareLine(line),
         KeepNothing(line) \/ Store(line)
  PROVE  Knowledge'
<1>1. StillReading /\ Grows(line) /\ open' = open /\ line.is \notin {"define", "end"}
  BY KeepNothingKeeps, StoreKeeps DEF KeepNothing, Store, ReadLine, Grows
<1>2. SUFFICES ASSUME NEW c, c = Current PROVE Knowledge'
  OBVIOUS
<1>3. LineKeeps(parser[c], line, Playable(c), Parsed(line))
  BY <1>1, <1>2, ParsedIs
<1>4. CASE KeepNothing(line)
  <2> DEFINE new == Parsed(line).q
  <2>1. parser' = [parser EXCEPT ![c] = new]
    BY <1>2, <1>4 DEF KeepNothing
  <2>2. SameButSong(new, Parsed(line).q)
    BY DEF SameButSong
  <2> HIDE DEF new
  <2> QED BY <1>1, <1>2, <2>1, <2>2, ParserLearns
<1>5. CASE Store(line)
  <2> DEFINE r == Parsed(line)
             new == [r.q EXCEPT !.mSong = Append(@, r.events)]
  <2>1. parser' = [parser EXCEPT ![c] = new]
    BY <1>2, <1>5 DEF Store
  <2>2. SameButSong(new, r.q)
    <3>1. DOMAIN r.q = Fields
      BY <1>3 DEF LineKeeps, IsParser
    <3> QED BY <3>1 DEF SameButSong, Fields
  <2> HIDE DEF new
  <2> QED BY <1>1, <1>2, <2>1, <2>2, ParserLearns
<1> QED BY <1>4, <1>5

(* A definition begins with a parser that knows nothing, and takes nothing *)
(* from the parser around it.                                              *)
LEMMA DefineLearnt ==
  ASSUME Structure, Knowledge, NEW line, IsLine(line), Define(line)
  PROVE  Knowledge'
<1> SUFFICES ASSUME NEW n, n = Len(text) PROVE Knowledge'
  OBVIOUS
<1>1. StillReading /\ line.is = "define"
  BY DefineKeeps
<1>2. /\ Grows(line) /\ parser' = Put(parser, Len(text'), Fresh)
      /\ open' = Append(open, [id |-> Len(text'), name |-> line.name])
  BY DEF Define, ReadLine, Grows, FreshFor
<1>3. /\ n \in Nat /\ Len(text') = n + 1 /\ Len(text)' = n + 1
      /\ LinesOf("define") \subseteq 1 .. n
  BY <1>2, GrownText, LinesAre DEF Structure
<1>4. \A s \in DOMAIN parser : KnownAll(parser[s], s, n + 1)
  BY KnowledgeIs
<1>5. n + 1 \notin DOMAIN parser
  BY <1>3 DEF Structure, SongsOK
<1>6. /\ DOMAIN parser' = DOMAIN parser \cup {n + 1} /\ parser'[n + 1] = Fresh
      /\ \A s \in DOMAIN parser : parser'[s] = parser[s]
  BY <1>2, <1>3, <1>5 DEF Put, Overlaid
<1>7. Reading' = Reading \cup (IF line.is = "define" THEN {n + 1} ELSE {})
  <2> DEFINE m == Len(open)
             new == [id |-> n + 1, name |-> line.name]
  <2>1. /\ IsSeq(open) /\ IsSeq(open') /\ Len(open') = m + 1 /\ m \in Nat
        /\ \A j \in 1 .. m : open'[j] = open[j]
        /\ open'[m + 1] = new
        /\ DOMAIN open = 1 .. m /\ DOMAIN open' = 1 .. m + 1
    BY <1>2, <1>3, Appended, IsSeqIn DEF Structure, OpenOK, IsSeq
  <2>2. new.id = n + 1
    OBVIOUS
  <2> HIDE DEF m, new
  <2>3. Reading' = {open'[j].id : j \in 1 .. m + 1} /\ Reading = {open[j].id : j \in 1 .. m}
    BY <2>1 DEF Reading
  <2>4. \A j : j \in 1 .. m + 1 <=> (j \in 1 .. m \/ j = m + 1)
    BY <2>1
  <2> QED BY <1>1, <2>1, <2>2, <2>3, <2>4
<1>8. ASSUME NEW s \in DOMAIN parser, NEW r, r = parser'[s] PROVE KnownAll(r, s, n + 2)'
  <2>1. r = parser[s]
    BY <1>6, <1>8
  <2>2. Learns(parser[s], line, r, s = Current)
    BY <1>1, <2>1, LearnsNothing
  <2> QED BY <1>1, <1>2, <1>4, <1>7, <2>1, <2>2, LineLearnt
<1>9. KnownAll(Fresh, n + 1, n + 2)'
  <2> SUFFICES ASSUME NEW s, s = n + 1 PROVE KnownAll(Fresh, s, n + 2)'
    OBVIOUS
  <2>1. s # Current
    <3>1. Current \in 0 .. n
      BY <1>1, Innermost
    <3> QED BY <1>3, <3>1
  <2>2. ASSUME NEW kind PROVE Above(s, n + 2, kind)' = {}
    <3>1. Extends(Above(s, n + 1, kind), Above(s, n + 2, kind)', n,
                  line.is = kind /\ s = Current)
      BY <1>1, <1>2, AboveNext
    <3>2. Above(s, n + 1, kind) = {}
      <4>1. \A j \in LinesOf(kind) : j \in Nat \ {0} /\ j <= n
        BY LinesAre DEF Structure
      <4>2. \A j \in LinesOf(kind) : Owner(j) \in 0 .. j - 1
        BY <4>1, OwnerIs DEF Structure
      <4>3. \A j \in LinesOf(kind) : Owner(j) # s
        BY <1>3, <4>1, <4>2
      <4> QED BY <4>3 DEF Above
    <3> QED BY <2>1, <3>1, <3>2 DEF Extends
  <2> QED BY <2>2, FreshKnowsNext DEF KnownAll
<1>10. (n + 1) + 1 = n + 2
  BY <1>3
<1>11. \A s \in DOMAIN parser' : \A r : r = parser'[s] => KnownAll(r, s, n + 2)'
  BY <1>6, <1>8, <1>9
<1> QED BY <1>3, <1>10, <1>11, KnowledgeIsNext

(* What the end of a definition changes of the parsers. *)
LEMMA AfterReturn ==
  ASSUME Structure, Return, NEW m, m = Len(open), m > 1
  PROVE  /\ DOMAIN parser' = DOMAIN parser
         /\ \A s \in DOMAIN parser :
              /\ \A x \in Fields \ {"mSubSeqMap"} : parser'[s][x] = parser[s][x]
              /\ s = open[m - 1].id =>
                   parser'[s].mSubSeqMap = Put(parser[s].mSubSeqMap, Last(open).name, Current)
              /\ s # open[m - 1].id => parser'[s].mSubSeqMap = parser[s].mSubSeqMap
<1> DEFINE a == open[m - 1].id
           map == Put(parser[a].mSubSeqMap, Last(open).name, Current)
<1>1. m # 1
  OBVIOUS
<1>2. parser' = [parser EXCEPT ![a].mSubSeqMap = map]
  BY <1>1 DEF Return, Bound
<1>3. \A s \in DOMAIN parser : DOMAIN parser[s] = Fields
  BY DEF Structure, SongsOK, IsParser
<1> HIDE DEF a, map
<1>4. "mSubSeqMap" \in Fields
  BY DEF Fields
<1>5. /\ DOMAIN parser' = DOMAIN parser
      /\ \A s \in DOMAIN parser :
           /\ \A x \in Fields \ {"mSubSeqMap"} : parser'[s][x] = parser[s][x]
           /\ s = a => parser'[s].mSubSeqMap = map
           /\ s # a => parser'[s].mSubSeqMap = parser[s].mSubSeqMap
  BY <1>2, <1>3, <1>4
<1> QED BY <1>5 DEF a, map

(* The end of the innermost definition, which the parser around it learns. *)
LEMMA SubsReturned ==
  ASSUME Structure, Return, NEW m, m = Len(open), m # 0, NEW n, n = Len(text), NEW k,
         \A s : Above(s, k, "define")' = Above(s, n + 1, "define"),
         \A j \in 1 .. n : text'[j] = text[j], Names("define")' = Names("define"),
         NEW s \in DOMAIN parser, SubsKnown(parser[s], s, n + 1), NEW r, r = parser'[s]
  PROVE  SubsKnown(r, s, k)'
<1>1. m \in Nat \ {0} /\ Reading' = Reading \ {Current} /\ Current = open[m].id
  BY WithoutInnermost DEF Return
<1>2. CASE m = 1
  <2>1. r = parser[s]
    BY <1>2 DEF Return
  <2>2. Current = 0
    BY <1>1, <1>2 DEF Structure, OpenOK
  <2>3. 0 \notin LinesOf("define")
    BY LinesAre DEF Structure
  <2>4. \A d \in LinesOf("define") : d \in Reading' <=> d \in Reading
    BY <1>1, <2>2, <2>3
  <2> QED BY <2>1, <2>4, SubsStay
<1>3. CASE m # 1
  <2>1. m > 1
    BY <1>1, <1>3
  <2>2. /\ s = open[m - 1].id =>
             r.mSubSeqMap = Put(parser[s].mSubSeqMap, Last(open).name, Current)
        /\ s # open[m - 1].id => r.mSubSeqMap = parser[s].mSubSeqMap
    BY <2>1, AfterReturn
  <2> SUFFICES ASSUME NEW d, d = Current, NEW name, name = Last(open).name,
                      NEW q, q = parser[s]
               PROVE  SubsKnown(r, s, k)'
    OBVIOUS
  <2>3. /\ s = open[m - 1].id => r.mSubSeqMap = Put(q.mSubSeqMap, name, d)
        /\ s # open[m - 1].id => r.mSubSeqMap = q.mSubSeqMap
    BY <2>2
  <2>4. SubsKnown(q, s, n + 1) /\ Reading' = Reading \ {d}
    BY <1>1
  <2>5. Returning(m, n, d, name, k, s, q, r)
    BY <2>1, <2>3, <2>4 DEF Returning
  <2> QED BY <2>5, SubsReturn
<1> QED BY <1>2, <1>3

(* The end of the innermost definition changes nothing else of a parser. *)
LEMMA OthersReturned ==
  ASSUME Structure, Return, NEW m, m = Len(open), m # 0, NEW s \in DOMAIN parser
  PROVE  /\ DOMAIN parser' = DOMAIN parser
         /\ \A x \in Fields \ {"mSubSeqMap"} : parser'[s][x] = parser[s][x]
<1>1. m \in Nat
  BY DEF Structure, OpenOK, IsSeq
<1>2. CASE m = 1
  BY <1>2 DEF Return
<1>3. CASE m # 1
  <2>1. m > 1
    BY <1>1, <1>3
  <2> QED BY <2>1, AfterReturn
<1> QED BY <1>2, <1>3

(* An end: the parsers learn nothing else from it. *)
LEMMA EndLearnt ==
  ASSUME Structure, Knowledge, NEW line, IsLine(line), End(line)
  PROVE  Knowledge'
<1> SUFFICES ASSUME NEW n, n = Len(text), NEW m, m = Len(open) PROVE Knowledge'
  OBVIOUS
<1>1. StillReading /\ line.is = "end" /\ Grows(line) /\ Return /\ m # 0
  BY EndKeeps DEF End, ReadLine, Grows, Structure, OpenOK, StillReading
<1>2. /\ n \in Nat /\ Len(text)' = n + 1 /\ (n + 1) + 1 = n + 2
      /\ \A j \in 1 .. n : text'[j] = text[j]
  BY <1>1, GrownText DEF Structure
<1>3. \A s \in DOMAIN parser : KnownAll(parser[s], s, n + 1)
  BY KnowledgeIs
<1>4. \A s : Above(s, n + 2, "define")' = Above(s, n + 1, "define")
  <2>1. \A s : Extends(Above(s, n + 1, "define"), Above(s, n + 2, "define")', n,
                       line.is = "define" /\ s = Current)
    BY <1>1, AboveNext
  <2> QED BY <1>1, <2>1 DEF Extends
<1>5. Names("define")' = Names("define")
  <2>1. Names("define")' = Names("define") \cup (IF line.is = "define" THEN {line.name} ELSE {})
    BY <1>1, NamesNext DEF Structure
  <2> QED BY <1>1, <2>1
<1>6. DOMAIN parser' = DOMAIN parser
  <2>1. 0 \in DOMAIN parser
    BY DEF Structure, SongsOK
  <2> QED BY <1>1, <2>1, OthersReturned
<1>7. ASSUME NEW s \in DOMAIN parser, NEW r, r = parser'[s] PROVE KnownAll(r, s, n + 2)'
  <2>1. SubsKnown(r, s, n + 2)'
    <3>1. SubsKnown(parser[s], s, n + 1)
      BY <1>3 DEF KnownAll
    <3> QED BY <1>1, <1>2, <1>4, <1>5, <1>7, <3>1, SubsReturned
  <2>2. Learns(parser[s], line, r, s = Current)
    <3>1. \A x \in Fields \ {"mSubSeqMap"} : r[x] = parser[s][x]
      BY <1>1, <1>7, OthersReturned
    <3>2. /\ r.mVolume = parser[s].mVolume /\ r.mTranspose = parser[s].mTranspose
          /\ r.mDfltNote = parser[s].mDfltNote /\ r.mSigns = parser[s].mSigns
          /\ r.mAliases = parser[s].mAliases
      BY <3>1 DEF Fields
    <3> QED BY <1>1, <3>2, LearnsNothing
  <2>3. /\ NumbersKnown(r, s, n + 2)' /\ SignsKnown(r, s, n + 2)'
        /\ AliasesKnown(r, s, n + 2)'
    <3>1. /\ NumbersKnown(parser[s], s, n + 1) /\ SignsKnown(parser[s], s, n + 1)
          /\ AliasesKnown(parser[s], s, n + 1)
      BY <1>3 DEF KnownAll
    <3> QED BY <1>1, <2>2, <3>1, KnowsMore
  <2> QED BY <2>1, <2>3 DEF KnownAll
<1>8. \A s \in DOMAIN parser' : \A r : r = parser'[s] => KnownAll(r, s, n + 2)'
  BY <1>6, <1>7
<1> QED BY <1>2, <1>8, KnowledgeIsNext

(* The end of the input. *)
LEMMA EndOfInputLearnt ==
  ASSUME Structure, Knowledge, EndOfInput
  PROVE  Knowledge'
<1> SUFFICES ASSUME NEW n, n = Len(text), NEW m, m = Len(open) PROVE Knowledge'
  OBVIOUS
<1>1. text' = text /\ Return /\ m # 0
  BY DEF EndOfInput, Structure, OpenOK
<1>3. \A s \in DOMAIN parser : KnownAll(parser[s], s, n + 1)
  BY KnowledgeIs
<1>4. /\ \A s : Above(s, n + 1, "define")' = Above(s, n + 1, "define")
      /\ Names("define")' = Names("define")
  BY <1>1, TextStays
<1>6. DOMAIN parser' = DOMAIN parser
  <2>1. 0 \in DOMAIN parser
    BY DEF Structure, SongsOK
  <2> QED BY <1>1, <2>1, OthersReturned
<1>7. ASSUME NEW s \in DOMAIN parser, NEW r, r = parser'[s] PROVE KnownAll(r, s, n + 1)'
  <2>1. SubsKnown(r, s, n + 1)'
    <3>1. SubsKnown(parser[s], s, n + 1) /\ \A j \in 1 .. n : text'[j] = text[j]
      BY <1>1, <1>3 DEF KnownAll
    <3> QED BY <1>1, <1>4, <1>7, <3>1, SubsReturned
  <2>2. /\ r.mVolume = parser[s].mVolume /\ r.mTranspose = parser[s].mTranspose
        /\ r.mDfltNote = parser[s].mDfltNote /\ r.mSigns = parser[s].mSigns
        /\ r.mAliases = parser[s].mAliases
    <3>1. \A x \in Fields \ {"mSubSeqMap"} : r[x] = parser[s][x]
      BY <1>1, <1>7, OthersReturned
    <3> QED BY <3>1 DEF Fields
  <2>3. /\ NumbersKnown(r, s, n + 1) /\ SignsKnown(r, s, n + 1) /\ AliasesKnown(r, s, n + 1)
    BY <1>3, <2>2 DEF KnownAll, NumbersKnown, SignsKnown, AliasesKnown
  <2>4. /\ NumbersKnown(r, s, n + 1)' /\ SignsKnown(r, s, n + 1)' /\ AliasesKnown(r, s, n + 1)'
    BY <1>1, <2>3, TextStays
  <2> QED BY <2>1, <2>4 DEF KnownAll
<1>8. Len(text)' = n
  BY <1>1
<1>9. \A s \in DOMAIN parser' : \A r : r = parser'[s] => KnownAll(r, s, n + 1)'
  BY <1>6, <1>7
<1> QED BY <1>8, <1>9, KnowledgeIsNext

(* Steps that change nothing of the text and of the parsers. *)
LEMMA KnowledgeStays ==
  ASSUME Structure, Knowledge, UNCHANGED <<text, open, parser, junk>>
  PROVE  Knowledge'
<1> SUFFICES ASSUME NEW n, n = Len(text) PROVE Knowledge'
  OBVIOUS
<1>1. \A s \in DOMAIN parser : KnownAll(parser[s], s, n + 1)
  BY KnowledgeIs
<1>2. ASSUME NEW s \in DOMAIN parser, NEW r, r = parser'[s] PROVE KnownAll(r, s, n + 1)'
  <2>1. r = parser[s] /\ Reading' = Reading /\ text' = text
    BY <1>2 DEF Reading
  <2>2. /\ Above(s, n + 1, "define")' = Above(s, n + 1, "define")
        /\ Names("define")' = Names("define")
    BY <2>1, TextStays
  <2>3. SubsKnown(r, s, n + 1)'
    BY <1>1, <2>1, <2>2, SubsStay DEF KnownAll
  <2>4. /\ NumbersKnown(r, s, n + 1)' /\ SignsKnown(r, s, n + 1)' /\ AliasesKnown(r, s, n + 1)'
    BY <1>1, <2>1, TextStays DEF KnownAll
  <2> QED BY <2>3, <2>4 DEF KnownAll
<1>3. DOMAIN parser' = DOMAIN parser /\ Len(text)' = n
  OBVIOUS
<1>4. \A s \in DOMAIN parser' : \A r : r = parser'[s] => KnownAll(r, s, n + 1)'
  BY <1>2, <1>3
<1> QED BY <1>3, <1>4, KnowledgeIsNext

(* The lines of the input have bare bars if all lines have. *)
LEMMA NextLinesAreBare ==
  ASSUME NEW line \in NextLines, TextOK, BarsAreBare
  PROVE  BareLine(line)
<1>1. Len(text) < Len(Line) /\ line \in Line[Len(text) + 1]
  BY DEF NextLines, MaxLines
<1>2. Line \in Seq(Range(Line))
  BY LineAssumption
<1>3. Len(text) \in Nat /\ Len(Line) \in Nat
  BY <1>2 DEF TextOK, IsSeq
<1>4. Len(text) + 1 \in 1 .. Len(Line)
  BY <1>1, <1>3
<1>5. Line[Len(text) + 1] \in Range(Line)
  <2> DEFINE R == Range(Line)
  <2>1. Line \in Seq(R)
    BY <1>2
  <2> HIDE DEF R
  <2>2. Line[Len(text) + 1] \in R
    BY <1>4, <2>1
  <2> QED BY <2>2 DEF R
<1> QED BY <1>1, <1>5 DEF BarsAreBare, BareLine

LEMMA KnowledgeInit == Init => Knowledge
<1> SUFFICES ASSUME Init, NEW n, n = Len(text), NEW s \in DOMAIN parser PROVE Knows(s, n + 1)
  BY DEF Knowledge
<1>1. parser[s] = Fresh /\ Len(text) = 0 /\ TextOK
  BY OneEvent, StructureInit DEF Init, Structure
<1>2. \A kind : LinesOf(kind) = {}
  BY <1>1, LinesAre
<1>3. \A kind : Above(s, n + 1, kind) = {}
  BY <1>2 DEF Above
<1>4. /\ NumbersKnown(Fresh, s, n + 1) /\ SignsKnown(Fresh, s, n + 1)
      /\ AliasesKnown(Fresh, s, n + 1) /\ SubsKnown(Fresh, s, n + 1)
  BY <1>3, FreshKnows
<1> QED BY <1>1, <1>4, KnowsIs

LEMMA KnowledgeNext ==
  ASSUME BarsAreBare, Structure, Knowledge, [Next]_vars
  PROVE  Knowledge'
<1>1. \A line \in NextLines : IsLine(line) /\ BareLine(line)
  BY NextLinesAre, NextLinesAreBare DEF Structure
<1>2. CASE \E line \in NextLines : KeepNothing(line) \/ Store(line)
  BY <1>1, <1>2, KeptLearnt
<1>3. CASE \E line \in NextLines : Abort(line)
  BY <1>3, KnowledgeStays DEF Abort
<1>4. CASE \E line \in NextLines : Define(line)
  BY <1>1, <1>4, DefineLearnt
<1>5. CASE \E line \in NextLines : End(line)
  BY <1>1, <1>5, EndLearnt
<1>6. CASE EndOfInput
  BY <1>6, EndOfInputLearnt
<1>7. CASE Over \/ UNCHANGED vars
  BY <1>7, KnowledgeStays DEF Over, vars
<1> QED BY <1>2, <1>3, <1>4, <1>5, <1>6, <1>7 DEF Next

(* THEOREM: a parser knows what the lines of its own definition say above  *)
(* the next line, and nothing else: the volume, the transposition, the     *)
(* signs, the default note, the aliases and the subpatterns.  It is so for *)
(* every input whose bars have no comments behind them; with such comments *)
(* it is not so, as run ParserComment shows.                               *)
THEOREM NothingLeaks ==
  ASSUME BarsAreBare
  PROVE  Spec => []ParsersKnowTheirText
<1>1. Structure /\ Knowledge /\ [Next]_vars => Knowledge'
  BY KnowledgeNext
<1>2. Knowledge => ParsersKnowTheirText
  BY DEF Knowledge, ParsersKnowTheirText
<1> QED BY <1>1, <1>2, KnowledgeInit, StructureAlways, PTL DEF Spec
-----------------------------------------------------------------------------
(* The ports of the columns. *)

(* What parser q, the parser of s, knows of a column. *)
PortKnown(q, s, c) ==
  IF Ports(s, c) = {} THEN GetPortMap(q, c) = [channel |-> 0, port |-> NoPort]
  ELSE LET line == text[Max(Ports(s, c))]
       IN  /\ GetPortMap(q, c).port = line.port
           /\ line.channel # Unset => GetPortMap(q, c).channel = line.channel

LEMMA PortsAreKnown ==
  ColumnsHaveTheirPorts
    <=> \A s \in DOMAIN parser : \A c \in Columns : PortKnown(parser[s], s, c)
BY DEF ColumnsHaveTheirPorts, PortKnown

(* Whether a line gives a column its port, and what it does to the column. *)

PortHere(line, s, c) == line.is = "port" /\ s = Current /\ c + 1 \in line.first .. line.last

PortStep(q, line, r, s, c) ==
  /\ PortHere(line, s, c) =>
       /\ GetPortMap(r, c).port = line.port
       /\ line.channel # Unset => GetPortMap(r, c).channel = line.channel
  /\ ~PortHere(line, s, c) => GetPortMap(r, c) = GetPortMap(q, c)

(* A column after one more line. *)
LEMMA PortNext ==
  ASSUME Structure, StillReading, NEW line, Grows(line), NEW s, NEW c \in Columns,
         NEW q, NEW r, PortKnown(q, s, c), PortStep(q, line, r, s, c)
  PROVE  PortKnown(r, s, c)'
<1> SUFFICES ASSUME NEW n, n = Len(text) PROVE PortKnown(r, s, c)'
  OBVIOUS
<1> DEFINE C == Above(s, n + 1, "port")
           D == Above(s, n + 2, "port")'
           A == Ports(s, c)
           B == Ports(s, c)'
           here == PortHere(line, s, c)
<1>1. Extends(C, D, n, line.is = "port" /\ s = Current)
  BY AboveNext
<1>2. /\ n \in Nat /\ LinesOf("port") \subseteq 1 .. n /\ LinesOf("port")' \subseteq 1 .. n + 1
      /\ \A k \in 1 .. n : text'[k] = text[k]
      /\ text'[n + 1] = line
  <2>1. LinesOf("port")' = LinesOf("port") \cup (IF line.is = "port" THEN {n + 1} ELSE {})
    BY Grown DEF Structure
  <2>2. n \in Nat /\ LinesOf("port") \subseteq 1 .. n
    BY LinesAre DEF Structure
  <2>3. LinesOf("port")' \subseteq 1 .. n + 1
    BY <2>1, <2>2
  <2> QED BY <2>2, <2>3, GrownText DEF Structure
<1>3. A = {k \in C : c + 1 \in text[k].first .. text[k].last}
  <2>1. C = {k \in LinesOf("port") : Owner(k) = s}
    BY <1>2 DEF Above
  <2> QED BY <2>1 DEF Ports
<1>4. B = {k \in D : c + 1 \in text'[k].first .. text'[k].last}
  <2>1. D = {k \in LinesOf("port")' : k < n + 2 /\ Owner(k)' = s}
    BY DEF Above
  <2>2. D = {k \in LinesOf("port")' : Owner(k)' = s}
    BY <1>2, <2>1
  <2>3. B = {k \in LinesOf("port")' : Owner(k)' = s /\ c + 1 \in text'[k].first .. text'[k].last}
    BY DEF Ports
  <2> QED BY <2>2, <2>3
<1>5. Extends(A, B, n, here)
  <2> HIDE DEF A, B, C, D
  <2>1. A \subseteq 1 .. n
    BY <1>1, <1>3 DEF Extends
  <2>2. \A k : k \in B <=> k \in A \/ (k = n + 1 /\ here)
    BY <1>1, <1>2, <1>3, <1>4 DEF Extends, PortHere
  <2> HIDE DEF here
  <2> QED BY <1>2, <2>1, <2>2 DEF Extends
<1>6. PortKnown(r, s, c)'
        <=> IF B = {} THEN GetPortMap(r, c) = [channel |-> 0, port |-> NoPort]
            ELSE /\ GetPortMap(r, c).port = text'[Max(B)].port
                 /\ text'[Max(B)].channel # Unset =>
                      GetPortMap(r, c).channel = text'[Max(B)].channel
  BY DEF PortKnown, GetPortMap
<1>7. IF A = {} THEN GetPortMap(q, c) = [channel |-> 0, port |-> NoPort]
      ELSE /\ GetPortMap(q, c).port = text[Max(A)].port
           /\ text[Max(A)].channel # Unset => GetPortMap(q, c).channel = text[Max(A)].channel
  BY DEF PortKnown
<1> HIDE DEF A, B, here
<1>8. /\ here => B # {} /\ Max(B) = n + 1
      /\ ~here => B = A
      /\ A # {} => Max(A) \in 1 .. n
  BY <1>5, MaxNext
<1>9. CASE here
  BY <1>2, <1>6, <1>8, <1>9 DEF PortStep, here
<1>10. CASE ~here
  <2>1. GetPortMap(r, c) = GetPortMap(q, c)
    BY <1>10 DEF PortStep, here
  <2>2. A # {} => text'[Max(B)] = text[Max(A)]
    BY <1>2, <1>8, <1>10
  <2> QED BY <1>6, <1>7, <1>8, <1>10, <2>1, <2>2
<1> QED BY <1>9, <1>10

(* What a line does to the columns of its own parser. *)
LEMMA PortLine ==
  ASSUME NEW q, NEW subs, IsParser(q, subs), NEW line, IsLine(line), NEW c \in Columns,
         NEW r, r.mColumnMap = ParseLine(q, line).q.mColumnMap
  PROVE  PortStep(q, line, r, Current, c)
<1>1. CASE line.is = "port"
  <2> DEFINE p == ParsePort(q, line)
             given == [channel |-> IF line.channel = Unset THEN junk.channel ELSE line.channel,
                       port |-> line.port]
  <2>1. ParseLine(q, line).q = p
    <3>1. ParseLine(q, line) = Gives(p, <<>>)
      BY <1>1, ByKind
    <3> HIDE DEF p
    <3>2. Gives(p, <<>>).q = p
      BY DEF Gives
    <3> QED BY <3>1, <3>2
  <2>2. GetPortMap(p, c) = IF c + 1 \in line.first .. line.last THEN given ELSE GetPortMap(q, c)
    BY <1>1, LineParts, PortIs
  <2> HIDE DEF p
  <2>3. GetPortMap(r, c) = GetPortMap(p, c)
    BY <2>1 DEF GetPortMap
  <2>4. given.port = line.port /\ (line.channel # Unset => given.channel = line.channel)
    OBVIOUS
  <2> HIDE DEF given
  <2> QED BY <1>1, <2>2, <2>3, <2>4 DEF PortStep, PortHere
<1>2. CASE line.is # "port"
  <2>1. LineKeeps(q, line, subs, ParseLine(q, line))
    BY LineIs
  <2>2. r.mColumnMap = q.mColumnMap
    BY <1>2, <2>1 DEF LineKeeps
  <2> QED BY <1>2, <2>2 DEF PortStep, PortHere, GetPortMap
<1> QED BY <1>1, <1>2

LEMMA PortsAreKnownNext ==
  ASSUME \A s \in DOMAIN parser', c \in Columns : \A r : r = parser'[s] => PortKnown(r, s, c)'
  PROVE  ColumnsHaveTheirPorts'
<1>1. SUFFICES ASSUME NEW s \in DOMAIN parser', NEW c \in Columns
               PROVE  PortKnown(parser[s], s, c)'
  BY DEF ColumnsHaveTheirPorts, PortKnown
<1>2. SUFFICES ASSUME NEW r, r = parser'[s] PROVE PortKnown(parser[s], s, c)'
  OBVIOUS
<1>3. PortKnown(r, s, c)'
  BY <1>2
<1> QED BY <1>2, <1>3 DEF PortKnown

(* A parser that has just been made has no columns. *)
LEMMA NoColumns ==
  ASSUME NEW c \in Columns
  PROVE  GetPortMap(Fresh, c) = [channel |-> 0, port |-> NoPort]
<1>1. Fresh.mColumnMap = <<>> /\ c \in Nat /\ Len(<<>>) = 0
  BY ParserAssumption, OneEvent DEF Fresh, Columns
<1> HIDE DEF Fresh
<1>2. c >= Len(Fresh.mColumnMap)
  BY <1>1
<1> QED BY <1>2 DEF GetPortMap

(* A line that gives nothing, or a line of the song. *)
LEMMA PortsKept ==
  ASSUME Structure, ColumnsHaveTheirPorts, NEW line, IsLine(line),
         KeepNothing(line) \/ Store(line)
  PROVE  ColumnsHaveTheirPorts'
<1>1. StillReading /\ Grows(line)
  BY KeepNothingKeeps, StoreKeeps DEF KeepNothing, Store, ReadLine, Grows
<1>2. SUFFICES ASSUME NEW d, d = Current PROVE ColumnsHaveTheirPorts'
  OBVIOUS
<1>3. /\ LineKeeps(parser[d], line, Playable(d), Parsed(line)) /\ d \in DOMAIN parser
      /\ IsParser(parser[d], Playable(d)) /\ Parsed(line) = ParseLine(parser[d], line)
  BY <1>1, <1>2, ParsedIs DEF Parsed
<1>4. /\ DOMAIN parser' = DOMAIN parser
      /\ \A s \in DOMAIN parser \ {d} : parser'[s] = parser[s]
      /\ parser'[d].mColumnMap = ParseLine(parser[d], line).q.mColumnMap
  <2> DEFINE r == Parsed(line)
             stored == [r.q EXCEPT !.mSong = Append(@, r.events)]
  <2>1. /\ KeepNothing(line) => parser' = [parser EXCEPT ![d] = r.q]
        /\ Store(line) => parser' = [parser EXCEPT ![d] = stored]
    BY <1>2 DEF KeepNothing, Store
  <2>2. stored.mColumnMap = r.q.mColumnMap
    <3>1. "mColumnMap" \in DOMAIN r.q
      BY <1>3 DEF LineKeeps, IsParser, Fields
    <3> QED BY <3>1
  <2> HIDE DEF r, stored
  <2>3. r.q.mColumnMap = ParseLine(parser[d], line).q.mColumnMap
    BY <1>3 DEF r
  <2> QED BY <1>3, <2>1, <2>2, <2>3
<1>5. ASSUME NEW s \in DOMAIN parser, NEW c \in Columns, NEW r, r = parser'[s]
      PROVE  PortKnown(r, s, c)'
  <2> DEFINE q == parser[s]
  <2>1. PortKnown(q, s, c)
    BY PortsAreKnown
  <2>2. PortStep(q, line, r, s, c)
    <3>1. CASE s = d
      <4> DEFINE subs == Playable(d)
      <4>1. IsParser(q, subs) /\ r.mColumnMap = ParseLine(q, line).q.mColumnMap
        BY <1>3, <1>4, <1>5, <3>1
      <4> HIDE DEF q, subs
      <4>2. PortStep(q, line, r, Current, c)
        BY <4>1, PortLine
      <4> QED BY <1>2, <3>1, <4>2
    <3>2. CASE s # d
      <4>1. r = q /\ ~PortHere(line, s, c)
        BY <1>2, <1>4, <1>5, <3>2 DEF PortHere
      <4> QED BY <4>1 DEF PortStep
    <3> QED BY <3>1, <3>2
  <2> HIDE DEF q
  <2> QED BY <1>1, <2>1, <2>2, PortNext
<1> QED BY <1>4, <1>5, PortsAreKnownNext

(* The beginning of a definition, whose columns have the default port. *)
LEMMA PortsBegin ==
  ASSUME Structure, ColumnsHaveTheirPorts, NEW line, IsLine(line), Define(line)
  PROVE  ColumnsHaveTheirPorts'
<1> SUFFICES ASSUME NEW n, n = Len(text) PROVE ColumnsHaveTheirPorts'
  OBVIOUS
<1>1. StillReading /\ line.is = "define"
  BY DefineKeeps
<1>2. Grows(line) /\ parser' = Put(parser, Len(text'), Fresh)
  BY DEF Define, ReadLine, Grows, FreshFor
<1>3. /\ n \in Nat /\ Len(text') = n + 1 /\ LinesOf("define") \subseteq 1 .. n
      /\ LinesOf("port") \subseteq 1 .. n /\ TextOK
  BY <1>2, GrownText, LinesAre DEF Structure
<1>4. n + 1 \notin DOMAIN parser
  BY <1>3 DEF Structure, SongsOK
<1>5. /\ DOMAIN parser' = DOMAIN parser \cup {n + 1} /\ parser'[n + 1] = Fresh
      /\ \A s \in DOMAIN parser : parser'[s] = parser[s]
  BY <1>2, <1>3, <1>4 DEF Put, Overlaid
<1>6. ASSUME NEW s \in DOMAIN parser, NEW c \in Columns, NEW r, r = parser'[s]
      PROVE  PortKnown(r, s, c)'
  <2> DEFINE q == parser[s]
  <2>1. PortKnown(q, s, c)
    BY PortsAreKnown
  <2>2. PortStep(q, line, r, s, c)
    BY <1>1, <1>5, <1>6 DEF PortStep, PortHere
  <2> HIDE DEF q
  <2> QED BY <1>1, <1>2, <2>1, <2>2, PortNext
<1>7. ASSUME NEW s, s = n + 1, NEW c \in Columns PROVE PortKnown(Fresh, s, c)'
  <2>1. PortKnown(Fresh, s, c)
    <3>1. \A j \in LinesOf("port") : j \in Nat \ {0} /\ j <= n
      BY <1>3
    <3>2. \A j \in LinesOf("port") : Owner(j) \in 0 .. j - 1
      BY <1>3, <3>1, OwnerIs
    <3>3. \A j \in LinesOf("port") : Owner(j) # s
      BY <1>3, <1>7, <3>1, <3>2
    <3>4. Ports(s, c) = {}
      BY <3>3 DEF Ports
    <3>5. GetPortMap(Fresh, c) = [channel |-> 0, port |-> NoPort]
      BY NoColumns
    <3> QED BY <3>4, <3>5 DEF PortKnown
  <2>2. PortStep(Fresh, line, Fresh, s, c)
    BY <1>1 DEF PortStep, PortHere
  <2> QED BY <1>1, <1>2, <2>1, <2>2, PortNext
<1> QED BY <1>5, <1>6, <1>7, PortsAreKnownNext

(* An end, which gives no column a port. *)
LEMMA PortsEnd ==
  ASSUME Structure, ColumnsHaveTheirPorts, NEW line, IsLine(line), End(line)
  PROVE  ColumnsHaveTheirPorts'
<1> SUFFICES ASSUME NEW m, m = Len(open) PROVE ColumnsHaveTheirPorts'
  OBVIOUS
<1>1. StillReading /\ line.is = "end" /\ Grows(line) /\ Return /\ m # 0
  BY EndKeeps DEF End, ReadLine, Grows, Structure, OpenOK, StillReading
<1>2. DOMAIN parser' = DOMAIN parser
  <2>1. 0 \in DOMAIN parser
    BY DEF Structure, SongsOK
  <2> QED BY <1>1, <2>1, OthersReturned
<1>3. ASSUME NEW s \in DOMAIN parser, NEW c \in Columns, NEW r, r = parser'[s]
      PROVE  PortKnown(r, s, c)'
  <2> DEFINE q == parser[s]
  <2>1. PortKnown(q, s, c)
    BY PortsAreKnown
  <2>2. r.mColumnMap = q.mColumnMap
    <3>1. \A x \in Fields \ {"mSubSeqMap"} : r[x] = q[x]
      BY <1>1, <1>3, OthersReturned
    <3> QED BY <3>1 DEF Fields
  <2>3. PortStep(q, line, r, s, c)
    BY <1>1, <2>2 DEF PortStep, PortHere, GetPortMap
  <2> HIDE DEF q
  <2> QED BY <1>1, <2>1, <2>3, PortNext
<1> QED BY <1>2, <1>3, PortsAreKnownNext

(* Steps that leave the text and the columns. *)
LEMMA PortsStay ==
  ASSUME ColumnsHaveTheirPorts, text' = text, DOMAIN parser' = DOMAIN parser,
         \A s \in DOMAIN parser : parser'[s].mColumnMap = parser[s].mColumnMap
  PROVE  ColumnsHaveTheirPorts'
<1>1. \A kind : LinesOf(kind)' = LinesOf(kind)
  BY DEF LinesOf
<1>2. \A kind, d, i : Count(kind, d, i)' = Count(kind, d, i)
  BY <1>1 DEF Count
<1>3. \A d, j : OpenAt(d, j)' = OpenAt(d, j)
  BY <1>2 DEF OpenAt
<1>4. \A j : Owner(j)' = Owner(j)
  BY <1>1, <1>3 DEF Owner
<1>5. \A s, c : Ports(s, c)' = Ports(s, c)
  BY <1>1, <1>4 DEF Ports
<1>6. ASSUME NEW s \in DOMAIN parser, NEW c \in Columns, NEW r, r = parser'[s]
      PROVE  PortKnown(r, s, c)'
  <2>1. PortKnown(parser[s], s, c)
    BY PortsAreKnown
  <2>2. GetPortMap(r, c) = GetPortMap(parser[s], c)
    BY <1>6 DEF GetPortMap
  <2>3. PortKnown(r, s, c)
    BY <2>1, <2>2 DEF PortKnown
  <2> QED BY <1>5, <2>3 DEF PortKnown, GetPortMap
<1> QED BY <1>6, PortsAreKnownNext

(* THEOREM: a column has the port and the channel that its own definition  *)
(* gives it last, or the default port, whatever ports the song around the  *)
(* definition or the definitions inside of it have.                        *)
THEOREM PortsAsWritten == Spec => []ColumnsHaveTheirPorts
<1>1. Init => ColumnsHaveTheirPorts
  <2> SUFFICES ASSUME Init, NEW s \in DOMAIN parser, NEW c \in Columns
               PROVE  PortKnown(parser[s], s, c)
    BY PortsAreKnown
  <2>1. parser[s] = Fresh /\ Len(text) = 0 /\ TextOK
    BY OneEvent, StructureInit DEF Init, Structure
  <2>2. LinesOf("port") = {}
    BY <2>1, LinesAre
  <2>3. GetPortMap(Fresh, c) = [channel |-> 0, port |-> NoPort]
    BY NoColumns
  <2> QED BY <2>1, <2>2, <2>3 DEF PortKnown, Ports
<1>2. Structure /\ ColumnsHaveTheirPorts /\ [Next]_vars => ColumnsHaveTheirPorts'
  <2> SUFFICES ASSUME Structure, ColumnsHaveTheirPorts, [Next]_vars
               PROVE  ColumnsHaveTheirPorts'
    OBVIOUS
  <2>1. \A line \in NextLines : IsLine(line)
    BY NextLinesAre DEF Structure
  <2>2. CASE \E line \in NextLines : KeepNothing(line) \/ Store(line)
    BY <2>1, <2>2, PortsKept
  <2>3. CASE \E line \in NextLines : Abort(line)
    BY <2>3, PortsStay DEF Abort
  <2>4. CASE \E line \in NextLines : Define(line)
    BY <2>1, <2>4, PortsBegin
  <2>5. CASE \E line \in NextLines : End(line)
    BY <2>1, <2>5, PortsEnd
  <2>6. CASE EndOfInput
    <3> SUFFICES ASSUME NEW m, m = Len(open) PROVE ColumnsHaveTheirPorts'
      OBVIOUS
    <3>1. text' = text /\ Return /\ m # 0
      BY <2>6 DEF EndOfInput, Structure, OpenOK
    <3>2. 0 \in DOMAIN parser
      BY DEF Structure, SongsOK
    <3>3. /\ DOMAIN parser' = DOMAIN parser
          /\ \A s \in DOMAIN parser : \A x \in Fields \ {"mSubSeqMap"} :
               parser'[s][x] = parser[s][x]
      BY <3>1, <3>2, OthersReturned
    <3>4. \A s \in DOMAIN parser : parser'[s].mColumnMap = parser[s].mColumnMap
      BY <3>3 DEF Fields
    <3> QED BY <3>1, <3>3, <3>4, PortsStay
  <2>7. CASE Over \/ UNCHANGED vars
    BY <2>7, PortsStay DEF Over, vars
  <2> QED BY <2>2, <2>3, <2>4, <2>5, <2>6, <2>7 DEF Next
<1> QED BY <1>1, <1>2, StructureAlways, PTL DEF Spec
=============================================================================

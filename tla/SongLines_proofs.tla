-------------------------- MODULE SongLines_proofs --------------------------
(***************************************************************************)
(* Theorems about module SongText, from the parser to the songs: the lines *)
(* of a song, their events and the columns these stand in are what the     *)
(* text says, whatever is read later.                                      *)
(***************************************************************************)
EXTENDS SongText_proofs
-----------------------------------------------------------------------------
(* What a text says of a line is not changed by the lines below it. *)

LEMMA AboveStays ==
  ASSUME TextOK, NEW line, Grows(line), NEW n, n = Len(text), NEW k \in 1 .. n + 1,
         NEW s, NEW kind
  PROVE  /\ Above(s, k, kind)' = Above(s, k, kind)
         /\ Above(s, k, kind) \subseteq 1 .. n
<1>1. /\ n \in Nat /\ LinesOf(kind) \subseteq 1 .. n
      /\ LinesOf(kind)' = LinesOf(kind) \cup (IF line.is = kind THEN {n + 1} ELSE {})
  BY Grown
<1>2. \A j \in 1 .. n : Owner(j)' = Owner(j)
  <2>1. \A j \in 1 .. n : j \in 1 .. n + 1
    BY <1>1
  <2> QED BY <2>1, OwnerStable
<1>3. \A j : j \in LinesOf(kind)' /\ j < k /\ Owner(j)' = s
               <=> j \in LinesOf(kind) /\ j < k /\ Owner(j) = s
  BY <1>1, <1>2
<1> QED BY <1>1, <1>3 DEF Above

(* The last of some lines stays the last, and what it says stays. *)
LEMMA LastStays ==
  ASSUME TextOK, NEW line, Grows(line), NEW n, n = Len(text), NEW A, A \subseteq 1 .. n, A # {}
  PROVE  Max(A) \in A /\ text'[Max(A)] = text[Max(A)]
<1>1. n \in Nat /\ \A k \in 1 .. n : text'[k] = text[k]
  BY GrownText
<1>2. A \subseteq 0 .. n
  BY <1>1
<1>3. Max(A) \in A
  BY <1>1, <1>2, MaxOf
<1> QED BY <1>1, <1>3

LEMMA LastAboveStays ==
  ASSUME TextOK, NEW line, Grows(line), NEW n, n = Len(text), NEW k \in 1 .. n + 1,
         NEW s, NEW kind, NEW default
  PROVE  LastAbove(s, k, kind, default)' = LastAbove(s, k, kind, default)
<1> DEFINE A == Above(s, k, kind)
<1>1. A' = A /\ A \subseteq 1 .. n
  BY AboveStays
<1>2. /\ LastAbove(s, k, kind, default)' = IF A' = {} THEN default ELSE text'[Max(A')].n
      /\ LastAbove(s, k, kind, default) = IF A = {} THEN default ELSE text[Max(A)].n
  BY DEF LastAbove
<1> HIDE DEF A
<1>3. A # {} => text'[Max(A)] = text[Max(A)]
  BY <1>1, LastStays
<1> QED BY <1>1, <1>2, <1>3

LEMMA SignAtStays ==
  ASSUME TextOK, NEW line, Grows(line), NEW n, n = Len(text), NEW k \in 1 .. n + 1,
         NEW s, NEW class
  PROVE  SignAt(s, k, class)' = SignAt(s, k, class)
<1> DEFINE B == Above(s, k, "bar")
           A == Signing(s, k, class)
<1>1. B' = B /\ B \subseteq 1 .. n
  BY AboveStays
<1>2. A' = {j \in B' : SignsFor(text'[j], class) # {}}
  BY DEF Signing, SignsFor
<1>3. A = {j \in B : SignsFor(text[j], class) # {}}
  BY DEF Signing
<1>4. /\ SignAt(s, k, class)'
           = IF A' = {} THEN 0 ELSE text'[Max(A')].signs[Max(SignsFor(text'[Max(A')], class))].mod
      /\ SignAt(s, k, class)
           = IF A = {} THEN 0 ELSE text[Max(A)].signs[Max(SignsFor(text[Max(A)], class))].mod
  BY DEF SignAt, SignsFor
<1> HIDE DEF A, B
<1>5. A' = A /\ A \subseteq 1 .. n
  BY <1>1, <1>2, <1>3, GrownText
<1>6. A # {} => text'[Max(A)] = text[Max(A)]
  BY <1>5, LastStays
<1> QED BY <1>4, <1>5, <1>6

LEMMA AliasStays ==
  ASSUME TextOK, NEW line, Grows(line), NEW n, n = Len(text), NEW k \in 1 .. n + 1,
         NEW s, NEW name
  PROVE  /\ IsAlias(s, k, name)' <=> IsAlias(s, k, name)
         /\ IsAlias(s, k, name) => AliasOf(s, k, name)' = AliasOf(s, k, name)
<1> DEFINE B == Above(s, k, "alias")
           C == Above(s, k, "unalias")
           A == Aliasing(s, k, name)
<1>1. B' = B /\ B \subseteq 1 .. n /\ C' = C /\ C \subseteq 1 .. n
  BY AboveStays
<1>2. A' = {j \in B' \cup C' : text'[j].name = name}
  BY DEF Aliasing
<1>3. A = {j \in B \cup C : text[j].name = name}
  BY DEF Aliasing
<1>4. /\ IsAlias(s, k, name)' <=> A' # {} /\ text'[Max(A')].is = "alias"
      /\ IsAlias(s, k, name) <=> A # {} /\ text[Max(A)].is = "alias"
      /\ AliasOf(s, k, name)' = text'[Max(A')].word
      /\ AliasOf(s, k, name) = text[Max(A)].word
  BY DEF IsAlias, AliasOf
<1> HIDE DEF A, B, C
<1>5. A' = A /\ A \subseteq 1 .. n
  BY <1>1, <1>2, <1>3, GrownText
<1>6. A # {} => text'[Max(A)] = text[Max(A)]
  BY <1>5, LastStays
<1> QED BY <1>4, <1>5, <1>6

LEMMA DefaultPitchStays ==
  ASSUME TextOK, NEW line, Grows(line), NEW n, n = Len(text), NEW k \in 1 .. n + 1, NEW s
  PROVE  DefaultPitch(s, k)' = DefaultPitch(s, k)
<1> DEFINE B == Above(s, k, "default")
           A == Defaults(s, k)
<1>1. B' = B /\ B \subseteq 1 .. n
  BY AboveStays
<1>2. A' = {j \in B' : text'[j].word.is = "note"}
  BY DEF Defaults
<1>3. A = {j \in B : text[j].word.is = "note"}
  BY DEF Defaults
<1>4. /\ DefaultPitch(s, k)' = IF A' = {} THEN 0 ELSE Pitch(text'[Max(A')].word)
      /\ DefaultPitch(s, k) = IF A = {} THEN 0 ELSE Pitch(text[Max(A)].word)
  BY DEF DefaultPitch, Pitch
<1> HIDE DEF A, B
<1>5. A' = A /\ A \subseteq 1 .. n
  BY <1>1, <1>2, <1>3, GrownText
<1>6. A # {} => text'[Max(A)] = text[Max(A)]
  BY <1>5, LastStays
<1> QED BY <1>4, <1>5, <1>6

LEMMA DefinitionsStay ==
  ASSUME TextOK, NEW line, Grows(line), NEW n, n = Len(text), NEW k \in 1 .. n + 1,
         NEW s, NEW name
  PROVE  Definitions(s, k, name)' = Definitions(s, k, name)
<1> DEFINE B == Above(s, k, "define")
<1>1. B' = B /\ B \subseteq 1 .. n
  BY AboveStays
<1>2. Definitions(s, k, name)' = {d \in B' : text'[d].name = name}
  BY DEF Definitions
<1>3. Definitions(s, k, name) = {d \in B : text[d].name = name}
  BY DEF Definitions
<1> HIDE DEF B
<1> QED BY <1>1, <1>2, <1>3, GrownText

(* So a word keeps its meaning. *)
LEMMA KindStays ==
  ASSUME TextOK, NEW line, Grows(line), NEW n, n = Len(text), NEW k \in 1 .. n + 1,
         NEW s, NEW w
  PROVE  /\ Spelled(s, k, w)' = Spelled(s, k, w)
         /\ Kind(s, k, w)' = Kind(s, k, w)
<1>1. /\ IsAlias(s, k, w.base)' <=> IsAlias(s, k, w.base)
      /\ IsAlias(s, k, w.base) => AliasOf(s, k, w.base)' = AliasOf(s, k, w.base)
      /\ Definitions(s, k, w.base)' = Definitions(s, k, w.base)
  BY AliasStays, DefinitionsStay
<1>2. Spelled(s, k, w)' = Spelled(s, k, w)
  BY <1>1 DEF Spelled, Alone
<1> QED BY <1>1, <1>2 DEF Kind, Alone
-----------------------------------------------------------------------------
(* The words of a line and their columns. *)

(* The words before the comment, if there is one. *)
WordsAre(line, words) ==
  /\ IsSeq(words) /\ Len(words) \in 0 .. Len(line.words)
  /\ \A i \in 1 .. Len(words) : words[i] = line.words[i] /\ words[i].is # "comment"
  /\ Len(words) < Len(line.words) => line.words[Len(words) + 1].is = "comment"

LEMMA WordsBeforeComment ==
  ASSUME NEW line, IsSeq(line.words)
  PROVE  WordsAre(line, Words(line))
<1> DEFINE ws == line.words
           n == Len(ws)
           I == {i \in 1 .. n : ws[i].is = "comment"}
           at == SelectInSeq(ws, LAMBDA w : w.is = "comment")
<1>1. n \in Nat /\ n = Len(ws) /\ IsSeq(ws)
  BY DEF IsSeq
<1>2. at = IF I # {} THEN Min(I) ELSE 0
  BY DEF SelectInSeq
<1>3. Words(line) = IF at = 0 THEN ws ELSE SubSeq(ws, 1, at - 1)
  BY DEF Words
<1> HIDE DEF n, ws, at
<1>4. I # {} => Min(I) \in I /\ \A i \in I : Min(I) <= i
  <2> SUFFICES ASSUME I # {} PROVE Min(I) \in I /\ \A i \in I : Min(I) <= i
    OBVIOUS
  <2> DEFINE D == {n - i : i \in I}
  <2>1. D \subseteq 0 .. n
    BY <1>1
  <2>2. D # {}
    <3>1. PICK x \in I : TRUE
      OBVIOUS
    <3>2. n - x \in D
      OBVIOUS
    <3> QED BY <3>2
  <2> HIDE DEF D
  <2>3. Max(D) \in D /\ \A x \in D : x <= Max(D)
    BY <1>1, <2>1, <2>2, MaxOf
  <2>4. PICK x \in I : Max(D) = n - x
    BY <2>3 DEF D
  <2>5. \A i \in I : x <= i
    <3> SUFFICES ASSUME NEW i \in I PROVE x <= i
      OBVIOUS
    <3>1. n - i \in D
      BY DEF D
    <3>2. n - i <= n - x
      BY <2>3, <2>4, <3>1
    <3> QED BY <1>1, <3>2
  <2> QED BY <2>5 DEF Min
<1>5. CASE I = {}
  <2>1. Words(line) = ws
    BY <1>2, <1>3, <1>5
  <2> QED BY <1>1, <1>5, <2>1 DEF WordsAre, ws, n
<1>6. CASE I # {}
  <2>0. at \in I /\ \A i \in I : at <= i
    BY <1>2, <1>4, <1>6
  <2>1. /\ at \in 1 .. n /\ ws[at].is = "comment" /\ at - 1 \in 0 .. n
        /\ \A i \in 1 .. at - 1 : i \in 1 .. n /\ ws[i].is # "comment"
    BY <1>1, <2>0
  <2>2. Words(line) = SubSeq(ws, 1, at - 1)
    BY <1>3, <2>1
  <2>3. /\ IsSeq(SubSeq(ws, 1, at - 1)) /\ Len(SubSeq(ws, 1, at - 1)) = at - 1
        /\ \A i \in 1 .. at - 1 : SubSeq(ws, 1, at - 1)[i] = ws[i]
    BY <1>1, <2>1, Subs
  <2>4. (at - 1) + 1 = at
    BY <2>1
  <2> HIDE DEF ws, n
  <2> QED BY <2>1, <2>2, <2>3, <2>4 DEF WordsAre, ws, n
<1> QED BY <1>5, <1>6

(* Whether a group is open behind a word depends on it and the one before. *)
LEMMA GroupNext ==
  ASSUME NEW words, NEW i \in Nat
  PROVE  /\ ~InGroup(words, 0)
         /\ InGroup(words, i + 1) <=> Grouped(InGroup(words, i), words[i + 1])
<1>1. ~InGroup(words, 0)
  BY DEF InGroup
<1> DEFINE w == words[i + 1]
<1>2. CASE w.open
  <2>1. i + 1 \in 1 .. i + 1 /\ (i + 1) + 1 .. i + 1 = {}
    OBVIOUS
  <2>2. InGroup(words, i + 1)
    BY <1>2, <2>1 DEF InGroup
  <2> QED BY <1>1, <1>2, <2>2 DEF Grouped
<1>3. CASE ~w.open /\ w.close
  <2>1. ASSUME NEW j \in 1 .. i + 1, words[j].open,
               \A l \in j + 1 .. i + 1 : words[l].close => words[l].open
        PROVE  FALSE
    <3>1. j # i + 1
      BY <1>3, <2>1
    <3>2. i + 1 \in j + 1 .. i + 1
      BY <2>1, <3>1
    <3> QED BY <1>3, <2>1, <3>2
  <2>2. ~InGroup(words, i + 1)
    BY <2>1 DEF InGroup
  <2> QED BY <1>1, <1>3, <2>2 DEF Grouped
<1>4. CASE ~w.open /\ ~w.close
  <2>1. ASSUME NEW j \in 1 .. i + 1, words[j].open,
               \A l \in j + 1 .. i + 1 : words[l].close => words[l].open
        PROVE  InGroup(words, i)
    <3>1. j \in 1 .. i /\ \A l \in j + 1 .. i : l \in j + 1 .. i + 1
      BY <1>4, <2>1
    <3> QED BY <2>1, <3>1 DEF InGroup
  <2>2. ASSUME InGroup(words, i) PROVE InGroup(words, i + 1)
    <3>1. PICK j \in 1 .. i : /\ words[j].open
                              /\ \A l \in j + 1 .. i : words[l].close => words[l].open
      BY <2>2 DEF InGroup
    <3>2. j \in 1 .. i + 1 /\ \A l \in j + 1 .. i + 1 : l \in j + 1 .. i \/ l = i + 1
      OBVIOUS
    <3> QED BY <1>4, <3>1, <3>2 DEF InGroup
  <2>3. InGroup(words, i + 1) <=> InGroup(words, i)
    BY <2>1, <2>2 DEF InGroup
  <2> QED BY <1>1, <1>4, <2>3 DEF Grouped
<1> QED BY <1>2, <1>3, <1>4

(* And the column goes on behind a word that leaves no group open. *)
LEMMA ColumnNext ==
  ASSUME NEW words, NEW i \in Nat
  PROVE  /\ ColumnOf(words, 1) = 0 /\ ColumnOf(words, i + 1) \in 0 .. i
         /\ ColumnOf(words, i + 2)
              = IF InGroup(words, i + 1) THEN ColumnOf(words, i + 1)
                ELSE ColumnOf(words, i + 1) + 1
<1> DEFINE A == {j \in 1 .. i : ~InGroup(words, j)}
           B == {j \in 1 .. i + 1 : ~InGroup(words, j)}
<1>1. IsFiniteSet(A) /\ Cardinality(A) \in 0 .. i
  <2>1. IsFiniteSet(1 .. i) /\ Cardinality(1 .. i) = i
    BY FS_Interval
  <2>2. IsFiniteSet(A) /\ Cardinality(A) <= i
    BY <2>1, FS_Subset
  <2> QED BY <2>2, FS_CardinalityType
<1>2. B = IF InGroup(words, i + 1) THEN A ELSE A \cup {i + 1}
  BY \A j \in 1 .. i + 1 : j \in 1 .. i \/ j = i + 1
<1>3. Cardinality(B) = IF InGroup(words, i + 1) THEN Cardinality(A) ELSE Cardinality(A) + 1
  <2>1. i + 1 \notin A
    OBVIOUS
  <2> QED BY <1>1, <1>2, <2>1, FS_AddElement
<1>4. ColumnOf(words, 1) = 0
  <2>1. {j \in 1 .. 1 - 1 : ~InGroup(words, j)} = {}
    OBVIOUS
  <2> QED BY <2>1, FS_EmptySet DEF ColumnOf
<1>5. ColumnOf(words, i + 1) = Cardinality(A) /\ ColumnOf(words, i + 2) = Cardinality(B)
  <2>1. (i + 1) - 1 = i /\ (i + 2) - 1 = i + 1
    OBVIOUS
  <2> QED BY <2>1 DEF ColumnOf
<1> QED BY <1>1, <1>3, <1>4, <1>5
-----------------------------------------------------------------------------
(* The events of a line of words, word by word. *)

(* The words up to i that "|" and "^" of column c may refer to. *)
NewIn(q, words, i, c) ==
  {j \in 1 .. i : KindFor(q, words[j]) \in {"note", "play"} /\ ColumnOf(words, j) = c}

(* The last note of column c behind word i. *)
LastIn(q, words, events, i, c) ==
  IF NewIn(q, words, i, c) = {} THEN q.mLastNote[c] ELSE events[Max(NewIn(q, words, i, c))]

(* What parser q makes of word j in its column. *)
MadeOf(q, words, events, j) ==
  EventFor(q, words[j], ColumnOf(words, j),
           LastIn(q, words, events, j - 1, ColumnOf(words, j)))

(* There is a note to go on with. *)
HasLast(q, words, events, j) ==
  KindFor(q, words[j]) = "pedal" => LastIn(q, words, events, j - 1, ColumnOf(words, j)) # NoEvent

(* The line after i words: q is the parser before it, a how far it is. *)
ReadTo(q, words, a, i) ==
  /\ a.stop \in {"no", "throw", "assert"}
  /\ a.stop = "no" =>
       /\ Len(a.events) = i /\ a.column = ColumnOf(words, i + 1)
       /\ a.grouped = InGroup(words, i)
       /\ \A j \in 1 .. i : /\ KindFor(q, words[j]) # "bad"
                            /\ a.events[j] = MadeOf(q, words, a.events, j)
                            /\ HasLast(q, words, a.events, j)
       /\ \A c \in Columns : a.q.mLastNote[c] = LastIn(q, words, a.events, i, c)
  /\ a.stop = "throw" => \E j \in 1 .. i : KindFor(q, words[j]) = "bad"

(* One more word and one more event. *)
LEMMA LastInNext ==
  ASSUME NEW q, NEW words, NEW i \in Nat, NEW events, IsSeq(events), Len(events) = i,
         NEW e, NEW c
  PROVE  /\ \A j \in 0 .. i :
              LastIn(q, words, Append(events, e), j, c) = LastIn(q, words, events, j, c)
         /\ LastIn(q, words, Append(events, e), i + 1, c)
              = IF KindFor(q, words[i + 1]) \in {"note", "play"} /\ ColumnOf(words, i + 1) = c
                THEN e ELSE LastIn(q, words, events, i, c)
<1> DEFINE new == Append(events, e)
           here == KindFor(q, words[i + 1]) \in {"note", "play"} /\ ColumnOf(words, i + 1) = c
<1>1. (\A j \in 1 .. i : new[j] = events[j]) /\ new[i + 1] = e
  BY Appended
<1> HIDE DEF new
<1>2. ASSUME NEW j \in 0 .. i PROVE LastIn(q, words, new, j, c) = LastIn(q, words, events, j, c)
  <2> DEFINE A == NewIn(q, words, j, c)
  <2>1. A \subseteq 0 .. i /\ A \subseteq 1 .. i
    BY DEF NewIn
  <2>2. /\ LastIn(q, words, new, j, c) = IF A = {} THEN q.mLastNote[c] ELSE new[Max(A)]
        /\ LastIn(q, words, events, j, c) = IF A = {} THEN q.mLastNote[c] ELSE events[Max(A)]
    BY DEF LastIn
  <2> HIDE DEF A
  <2>3. A # {} => Max(A) \in 1 .. i
    BY <2>1, MaxOf
  <2> QED BY <1>1, <2>2, <2>3
<1>3. LastIn(q, words, new, i + 1, c) = IF here THEN e ELSE LastIn(q, words, events, i, c)
  <2> DEFINE A == NewIn(q, words, i, c)
             B == NewIn(q, words, i + 1, c)
  <2>1. Extends(A, B, i, here)
    <3>1. \A j : j \in 1 .. i + 1 <=> (j \in 1 .. i \/ j = i + 1)
      OBVIOUS
    <3>2. B = {j \in 1 .. i + 1 : /\ KindFor(q, words[j]) \in {"note", "play"}
                                  /\ ColumnOf(words, j) = c}
      BY DEF NewIn
    <3>3. A = {j \in 1 .. i : /\ KindFor(q, words[j]) \in {"note", "play"}
                              /\ ColumnOf(words, j) = c}
      BY DEF NewIn
    <3> HIDE DEF A, B
    <3>4. A \subseteq 1 .. i /\ B = IF here THEN A \cup {i + 1} ELSE A
      BY <3>1, <3>2, <3>3
    <3> QED BY <3>4 DEF Extends
  <2>2. /\ LastIn(q, words, new, i + 1, c) = IF B = {} THEN q.mLastNote[c] ELSE new[Max(B)]
        /\ LastIn(q, words, events, i, c) = IF A = {} THEN q.mLastNote[c] ELSE events[Max(A)]
    BY DEF LastIn
  <2> HIDE DEF A, B, here
  <2>3. /\ here => B # {} /\ Max(B) = i + 1
        /\ ~here => B = A
        /\ A # {} => Max(A) \in 1 .. i
    BY <2>1, MaxNext
  <2> QED BY <1>1, <2>2, <2>3
<1> QED BY <1>2, <1>3 DEF new

LEMMA ReadOn ==
  ASSUME NEW q, NEW subs, IsParser(q, subs), NEW n \in 0 .. MaxColumn, NEW a,
         IsReading(q, subs, a, n), NEW words, NEW w, w = words[n + 1], IsWord(w),
         w.is # "comment", ReadTo(q, words, a, n)
  PROVE  ReadTo(q, words, ParseWord(a, w), n + 1)
<1> DEFINE b == ParseWord(a, w)
           kind == KindFor(q, w)
           c == a.column
           last == a.q.mLastNote[c]
           e == EventFor(q, w, c, last)
<1>0. n \in Nat /\ n + 1 \in Nat /\ (n + 1) - 1 = n /\ (n + 1) + 1 = n + 2
      /\ n + 1 \in 1 .. n + 1
      /\ \A j \in 1 .. n + 1 : (j \in 1 .. n /\ j - 1 \in 0 .. n) \/ j = n + 1
  BY ParserAssumption
<1>1. CASE a.stop # "no"
  <2>1. b = a
    BY <1>1 DEF ParseWord
  <2>2. \A j \in 1 .. n : j \in 1 .. n + 1
    BY <1>0
  <2> QED BY <1>1, <2>1, <2>2 DEF ReadTo
<1>2. CASE a.stop = "no"
  <2>1. /\ IsLineState(b) /\ b.grouped = Grouped(a.grouped, w)
        /\ b.column = IF b.grouped THEN c ELSE c + 1
        /\ b.stop = IF kind = "bad" THEN "throw"
                    ELSE IF kind = "pedal" /\ last = NoEvent THEN "assert" ELSE "no"
        /\ b.events = IF b.stop = "no" THEN Append(a.events, e) ELSE a.events
        /\ b.q = IF kind \in {"play", "note"} THEN Remembering(a.q, c, e) ELSE a.q
    <3>1. IsLineState(a) /\ a.q = [q EXCEPT !.mLastNote = a.q.mLastNote]
      BY DEF IsReading, IsLineState
    <3> QED BY <1>2, <3>1, WordIs
  <2>2. /\ Len(a.events) = n /\ c = ColumnOf(words, n + 1) /\ a.grouped = InGroup(words, n)
        /\ \A j \in 1 .. n : /\ KindFor(q, words[j]) # "bad"
                             /\ a.events[j] = MadeOf(q, words, a.events, j)
                             /\ HasLast(q, words, a.events, j)
        /\ \A x \in Columns : a.q.mLastNote[x] = LastIn(q, words, a.events, n, x)
        /\ IsSeq(a.events) /\ DOMAIN a.q.mLastNote = Columns /\ c \in Columns
        /\ "mLastNote" \in DOMAIN a.q
    <3>1. a.column \in Columns
      BY <1>0, ParserAssumption DEF IsReading, Columns
    <3>2. "mLastNote" \in DOMAIN a.q
      BY DEF IsReading, IsParser, Fields
    <3> QED BY <1>2, <3>1, <3>2 DEF ReadTo, IsReading, IsLastNote
  <2>3. b.grouped = InGroup(words, n + 1) /\ b.column = ColumnOf(words, n + 2)
    <3> HIDE DEF b, c
    <3>1. InGroup(words, n + 1) <=> Grouped(InGroup(words, n), w)
      BY <1>0, GroupNext
    <3>2. InGroup(words, n + 1) \in BOOLEAN /\ Grouped(a.grouped, w) \in BOOLEAN
      BY <2>2 DEF InGroup, Grouped
    <3>3. b.grouped = InGroup(words, n + 1)
      BY <2>1, <2>2, <3>1, <3>2
    <3>4. ColumnOf(words, n + 2)
            = IF InGroup(words, n + 1) THEN ColumnOf(words, n + 1) ELSE ColumnOf(words, n + 1) + 1
      BY <1>0, ColumnNext
    <3> QED BY <2>1, <2>2, <3>3, <3>4
  <2>4. CASE b.stop = "no"
    <3> DEFINE new == Append(a.events, e)
    <3>1. /\ b.events = new /\ kind # "bad"
          /\ Len(new) = n + 1 /\ new[n + 1] = e /\ \A j \in 1 .. n : new[j] = a.events[j]
      <4>1. b.events = new /\ kind # "bad"
        BY <2>1, <2>4
      <4>2. Len(new) = n + 1 /\ new[n + 1] = e /\ \A j \in 1 .. n : new[j] = a.events[j]
        <5> HIDE DEF e
        <5> QED BY <2>2, Appended
      <4> QED BY <4>1, <4>2
    <3> HIDE DEF e, b, c, last
    <3>2. ASSUME NEW x
          PROVE  /\ \A j \in 0 .. n : LastIn(q, words, new, j, x) = LastIn(q, words, a.events, j, x)
                 /\ LastIn(q, words, new, n + 1, x)
                      = IF kind \in {"note", "play"} /\ x = c
                        THEN e ELSE LastIn(q, words, a.events, n, x)
      <4>1. n \in Nat /\ IsSeq(a.events) /\ Len(a.events) = n
        BY <1>0, <2>2
      <4>2. /\ \A j \in 0 .. n : LastIn(q, words, new, j, x) = LastIn(q, words, a.events, j, x)
            /\ LastIn(q, words, new, n + 1, x)
                 = IF KindFor(q, words[n + 1]) \in {"note", "play"} /\ ColumnOf(words, n + 1) = x
                   THEN e ELSE LastIn(q, words, a.events, n, x)
        BY <4>1, LastInNext
      <4>3. kind = KindFor(q, words[n + 1]) /\ c = ColumnOf(words, n + 1)
        BY <2>2
      <4> HIDE DEF new, kind
      <4> QED BY <4>2, <4>3
    <3> HIDE DEF new, kind
    <3>3. \A j \in 1 .. n : /\ KindFor(q, words[j]) # "bad"
                            /\ new[j] = MadeOf(q, words, new, j)
                            /\ HasLast(q, words, new, j)
      <4> SUFFICES ASSUME NEW j \in 1 .. n
                   PROVE  /\ KindFor(q, words[j]) # "bad" /\ new[j] = MadeOf(q, words, new, j)
                          /\ HasLast(q, words, new, j)
        OBVIOUS
      <4> DEFINE x == ColumnOf(words, j)
      <4>1. LastIn(q, words, new, j - 1, x) = LastIn(q, words, a.events, j - 1, x)
        <5>1. j - 1 \in 0 .. n
          BY <1>0
        <5> QED BY <3>2, <5>1
      <4>2. MadeOf(q, words, new, j) = MadeOf(q, words, a.events, j)
        BY <4>1 DEF MadeOf
      <4>3. HasLast(q, words, new, j) <=> HasLast(q, words, a.events, j)
        BY <4>1 DEF HasLast
      <4> QED BY <2>2, <3>1, <4>2, <4>3
    <3>4. new[n + 1] = MadeOf(q, words, new, n + 1) /\ HasLast(q, words, new, n + 1)
      <4>1. LastIn(q, words, new, n, c) = last
        BY <1>0, <2>2, <3>2 DEF last
      <4>2. MadeOf(q, words, new, n + 1) = EventFor(q, w, c, LastIn(q, words, new, n, c))
        BY <1>0, <2>2 DEF MadeOf
      <4>3. e = EventFor(q, w, c, last)
        BY DEF e
      <4>4. kind = "pedal" => last # NoEvent
        BY <2>1, <2>4 DEF b
      <4>5. HasLast(q, words, new, n + 1)
        BY <1>0, <2>2, <4>1, <4>4 DEF HasLast, kind
      <4> QED BY <3>1, <4>1, <4>2, <4>3, <4>5
    <3>5. \A j \in 1 .. n + 1 : /\ KindFor(q, words[j]) # "bad"
                                /\ new[j] = MadeOf(q, words, new, j)
                                /\ HasLast(q, words, new, j)
      BY <1>0, <3>1, <3>3, <3>4 DEF kind
    <3>6. \A x \in Columns : b.q.mLastNote[x] = LastIn(q, words, new, n + 1, x)
      <4>1. CASE kind \in {"play", "note"}
        <5>1. b.q.mLastNote = [a.q.mLastNote EXCEPT ![c] = e]
          BY <2>1, <2>2, <4>1 DEF Remembering
        <5> QED BY <2>2, <3>2, <4>1, <5>1
      <4>2. CASE kind \notin {"play", "note"}
        BY <2>1, <2>2, <3>2, <4>2
      <4> QED BY <4>1, <4>2
    <3>7. ReadTo(q, words, b, n + 1)
      BY <1>0, <2>3, <2>4, <3>1, <3>5, <3>6 DEF ReadTo
    <3> QED BY <3>7 DEF b
  <2>5. CASE b.stop # "no"
    <3>1. b.stop \in {"throw", "assert"} /\ (b.stop = "throw" => kind = "bad")
      BY <2>1, <2>5
    <3> HIDE DEF b
    <3>2. ReadTo(q, words, b, n + 1)
      BY <1>0, <3>1 DEF ReadTo
    <3> QED BY <3>2 DEF b
  <2> QED BY <2>4, <2>5
<1> QED BY <1>1, <1>2

(* A line, when a is how far it is behind the words before its comment. *)
Stopped(line, a, r) ==
  /\ r.q = a.q /\ r.events = a.events
  /\ r.stop = IF a.stop = "no" /\ Len(Words(line)) < Len(line.words) THEN "comment" ELSE a.stop

(* The comment, and what is behind it, is not read. *)
LEMMA PatternReads ==
  ASSUME NEW q, NEW subs, IsParser(q, subs), NEW line, IsWords(line.words),
         Len(line.words) <= MaxColumn + 1
  PROVE  \E a : /\ ReadTo(q, Words(line), a, Len(Words(line)))
                /\ Stopped(line, a, ParsePattern(q, line))
<1> DEFINE all == line.words
           n == Len(all)
           words == Words(line)
           m == Len(words)
<1>1. IsSeq(all) /\ \A i \in 1 .. n : IsWord(all[i])
  BY SeqIsSeq DEF IsWords
<1>2. /\ IsSeq(words) /\ m \in 0 .. n
      /\ \A i \in 1 .. m : words[i] = all[i] /\ words[i].is # "comment"
      /\ m < n => all[m + 1].is = "comment"
  BY <1>1, WordsBeforeComment DEF WordsAre
<1>3. PICK f : /\ f[0] = Start(q)
               /\ \A i \in 1 .. n : f[i] = ParseWord(f[i - 1], all[i])
               /\ ParsePattern(q, line) = f[n]
  BY <1>1, WordByWord
<1>4. n \in Nat /\ m \in Nat /\ m <= n /\ n <= MaxColumn + 1 /\ MaxColumn \in Nat
  BY <1>1, <1>2, ParserAssumption DEF IsSeq
<1> HIDE DEF all, n, words, m
<1>5. IsReading(q, subs, f[m], m) /\ ReadTo(q, words, f[m], m)
  <2> DEFINE T == {i \in Nat : IsReading(q, subs, f[i], i) /\ ReadTo(q, words, f[i], i)}
  <2>1. 0 \in T
    <3>1. q = [q EXCEPT !.mLastNote = q.mLastNote]
      BY DEF IsParser, Fields
    <3>2. IsReading(q, subs, Start(q), 0)
      BY <3>1 DEF IsReading, IsParser, Fields, Start, IsSeq
    <3> DEFINE a == Start(q)
    <3>3. a.stop = "no" /\ a.events = <<>> /\ a.column = 0 /\ a.grouped = FALSE /\ a.q = q
      BY DEF Start
    <3> HIDE DEF a
    <3>4. ColumnOf(words, 1) = 0 /\ InGroup(words, 0) = FALSE
      <4>1. ~InGroup(words, 0) /\ ColumnOf(words, 1) = 0
        BY GroupNext, ColumnNext
      <4>2. InGroup(words, 0) \in BOOLEAN
        BY DEF InGroup
      <4> QED BY <4>1, <4>2
    <3>5. \A c : LastIn(q, words, a.events, 0, c) = q.mLastNote[c]
      BY DEF LastIn, NewIn
    <3>6. ReadTo(q, words, a, 0)
      <4>1. Len(a.events) = 0 /\ 0 + 1 = 1 /\ 1 .. 0 = {}
        BY <3>3, OneEvent
      <4>2. /\ a.column = ColumnOf(words, 0 + 1) /\ a.grouped = InGroup(words, 0)
            /\ a.stop = "no"
            /\ \A x \in Columns : a.q.mLastNote[x] = LastIn(q, words, a.events, 0, x)
        BY <3>3, <3>4, <3>5, <4>1
      <4>3. \A j \in 1 .. 0 : /\ KindFor(q, words[j]) # "bad"
                             /\ a.events[j] = MadeOf(q, words, a.events, j)
                             /\ HasLast(q, words, a.events, j)
        BY <4>1
      <4> QED BY <4>1, <4>2, <4>3, Zenon DEF ReadTo
    <3> QED BY <1>3, <3>2, <3>6 DEF a
  <2>2. \A i \in 0 .. m - 1 : i \in T => i + 1 \in T
    <3> SUFFICES ASSUME NEW i \in 0 .. m - 1, i \in T PROVE i + 1 \in T
      OBVIOUS
    <3>1. /\ i \in 0 .. MaxColumn /\ i + 1 \in 1 .. n /\ i + 1 \in 1 .. m /\ (i + 1) - 1 = i
          /\ i + 1 \in Nat
      BY <1>4
    <3>2. /\ f[i + 1] = ParseWord(f[i], words[i + 1]) /\ IsWord(words[i + 1])
          /\ words[i + 1].is # "comment"
      BY <1>1, <1>2, <1>3, <3>1 DEF n
    <3> DEFINE w == words[i + 1]
               a == f[i]
    <3>3. /\ f[i + 1] = ParseWord(a, w) /\ IsWord(w) /\ w.is # "comment" /\ w = words[i + 1]
          /\ IsReading(q, subs, a, i) /\ ReadTo(q, words, a, i)
      BY <3>2
    <3> HIDE DEF w, a, T
    <3>4. IsReading(q, subs, ParseWord(a, w), i + 1)
      BY <3>1, <3>3, ReadingGoesOn
    <3>5. ReadTo(q, words, ParseWord(a, w), i + 1)
      BY <3>1, <3>3, ReadOn
    <3> QED BY <3>1, <3>3, <3>4, <3>5 DEF T
  <2>3. m \in T
    <3> HIDE DEF T
    <3>1. \A i \in 0 .. m : i \in T
      BY <1>4, <2>1, <2>2, UpTo
    <3> QED BY <1>4, <3>1
  <2> QED BY <2>3
<1> DEFINE a == f[m]
           r == f[n]
<1>6. Stopped(line, a, r)
  <2>1. CASE m = n
    BY <1>4, <2>1 DEF Stopped, m, n, words, all
  <2>2. CASE m < n
    <3> DEFINE g == f[m + 1]
    <3>1. m + 1 \in 1 .. n /\ (m + 1) - 1 = m /\ all[m + 1].is = "comment"
      BY <1>2, <1>4, <2>2
    <3>2. g = ParseWord(a, all[m + 1])
      BY <1>3, <3>1
    <3>3. g.q = a.q /\ g.events = a.events
          /\ g.stop = IF a.stop = "no" THEN "comment" ELSE a.stop
      <4> HIDE DEF g, a
      <4>1. CASE a.stop # "no"
        BY <3>2, <4>1 DEF ParseWord
      <4>2. CASE a.stop = "no"
        <5>1. g = [a EXCEPT !.stop = "comment"]
          BY <3>1, <3>2, <4>2 DEF ParseWord
        <5>2. DOMAIN a = {"q", "events", "column", "grouped", "stop"}
          BY <1>5 DEF IsReading, a
        <5> QED BY <4>2, <5>1, <5>2
      <4> QED BY <4>1, <4>2
    <3>4. g.stop # "no"
      <4>1. a.stop = "no" \/ a.stop # "no"
        OBVIOUS
      <4> QED BY <3>3
    <3> HIDE DEF a, g
    <3> DEFINE T == {i \in Nat : m + 1 <= i => f[i] = g}
    <3>5. 0 \in T
      BY <1>4
    <3>6. \A i \in 0 .. n - 1 : i \in T => i + 1 \in T
      <4> SUFFICES ASSUME NEW i \in 0 .. n - 1, i \in T PROVE i + 1 \in T
        OBVIOUS
      <4>1. i + 1 \in Nat /\ i + 1 \in 1 .. n /\ (i + 1) - 1 = i /\ i \in Nat
        BY <1>4
      <4>2. f[i + 1] = ParseWord(f[i], all[i + 1])
        BY <1>3, <4>1
      <4>3. CASE m + 1 <= i
        <5>1. f[i] = g
          BY <4>3
        <5>2. f[i + 1] = g
          BY <3>4, <4>2, <5>1 DEF ParseWord
        <5> QED BY <4>1, <5>2
      <4>4. CASE i = m
        BY <4>1, <4>4 DEF g
      <4>5. CASE i < m
        BY <1>4, <4>1, <4>5
      <4> QED BY <1>4, <4>1, <4>3, <4>4, <4>5
    <3>7. n \in T
      <4> HIDE DEF T
      <4>1. \A i \in 0 .. n : i \in T
        BY <1>4, <3>5, <3>6, UpTo
      <4> QED BY <1>4, <4>1
    <3>8. r = g
      BY <1>4, <2>2, <3>7
    <3> HIDE DEF r
    <3> QED BY <2>2, <3>3, <3>8 DEF Stopped, m, n, words, all
  <2> QED BY <1>4, <2>1, <2>2
<1> HIDE DEF a, r
<1>7. ReadTo(q, words, a, m) /\ ParsePattern(q, line) = r
  BY <1>3, <1>5 DEF a, r
<1> QED BY <1>6, <1>7 DEF words, m

(* What an event is that a word makes, when last is the last note of the   *)
(* column.                                                                 *)
LEMMA MadeIs ==
  ASSUME NEW q, NEW subs, IsParser(q, subs), NEW w, IsWord(w), w.is # "comment",
         NEW column, NEW last, last = NoEvent \/ last.column = column,
         KindFor(q, w) # "bad", NEW e, e = EventFor(q, w, column, last)
  PROVE  /\ KindFor(q, w) \in {"play", "rest", "pedal", "default", "last", "ctl", "note"}
         /\ IsWord(Meant(q, w))
         /\ \/ KindFor(q, w) = "default"
            \/ e = NoEvent /\ KindFor(q, w) = "last"
            \/ e.column = column
         /\ KindFor(q, w) \in {"note", "play"} => e.column = column /\ e # NoEvent
         /\ KindFor(q, w) = "default" => e.pitch = q.mDfltNote.pitch
         /\ KindFor(q, w) = "play" => e.sub = q.mSubSeqMap[w.base]
         /\ KindFor(q, w) = "pedal" => e.event = last
         /\ KindFor(q, w) = "last" => e = last
         /\ KindFor(q, w) = "note" =>
              /\ e.pitch = (Pitch(Meant(q, w)) + SignFor(q, Meant(q, w)) + q.mTranspose) % Word
              /\ e.volume = VolumeFor(q, Meant(q, w))
<1> DEFINE m == Meant(q, w)
           kind == KindFor(q, w)
<1>1. IsWord(m) /\ m.is # "comment"
  <2> DEFINE v == Seen(w)
  <2>1. IsWord(v) /\ v.is # "comment"
    BY SeenIs
  <2> HIDE DEF v
  <2>2. IsWord(Replaced(q, v)) /\ Replaced(q, v).is # "comment"
    BY <2>1, ReplacedIs
  <2> QED BY <2>2 DEF Meant, v
<1>2. kind \in {"play", "rest", "pedal", "default", "last", "ctl", "note"}
  <2>1. kind \in {"note", "ctl", "play"} \/ kind = m.is
    BY DEF KindFor
  <2>2. m.is \in {"note", "rest", "pedal", "default", "last", "ctl", "comment", "bad"}
    BY <1>1 DEF IsWord
  <2> QED BY <1>1, <2>1, <2>2
<1>3. CASE kind = "play"
  <2>1. e = [kind |-> "play", column |-> column, sub |-> q.mSubSeqMap[w.base]]
    BY <1>3 DEF EventFor
  <2>2. e # NoEvent
    BY <2>1 DEF NoEvent
  <2> QED BY <1>1, <1>3, <2>1, <2>2
<1>4. CASE kind = "rest"
  <2>1. e = [kind |-> "skip", column |-> column]
    BY <1>4 DEF EventFor
  <2> QED BY <1>1, <1>4, <2>1
<1>5. CASE kind = "pedal"
  <2>1. e = [kind |-> "pedal", column |-> column, event |-> last]
    BY <1>5 DEF EventFor
  <2> QED BY <1>1, <1>5, <2>1
<1>6. CASE kind = "default"
  <2>1. e = CloneDefault(q)
    BY <1>6 DEF EventFor
  <2>2. e.pitch = q.mDfltNote.pitch
    BY <2>1, DefaultIs DEF IsParser
  <2> QED BY <1>1, <1>6, <2>2
<1>7. CASE kind = "last"
  <2>1. e = last
    BY <1>7 DEF EventFor
  <2> QED BY <1>1, <1>7, <2>1
<1>8. CASE kind = "ctl"
  <2>1. e = MidiCtlEvent(m, column)
    BY <1>8 DEF EventFor
  <2>2. e.column = column
    BY <2>1, CtlIs
  <2> QED BY <1>1, <1>8, <2>2
<1>9. CASE kind = "note"
  <2>1. e = Signed(q, Voiced(q, NoteEvent(m, column)))
    BY <1>9 DEF EventFor
  <2> HIDE DEF m
  <2>2. /\ e.column = column
        /\ e.pitch = (Pitch(m) + SignFor(q, m) + q.mTranspose) % Word
        /\ e.volume = VolumeFor(q, m)
        /\ e.kind = "note"
    BY <1>1, <2>1, NoteIsAll
  <2>3. e # NoEvent
    BY <2>2 DEF NoEvent
  <2> QED BY <1>1, <1>9, <2>2, <2>3 DEF m
<1> QED BY <1>2, <1>3, <1>4, <1>5, <1>6, <1>7, <1>8, <1>9
-----------------------------------------------------------------------------
(* What the parser of s takes a word for is what the text says of it. *)

(* No definition that the innermost one has begun is still being read. *)
LEMMA AllComplete ==
  ASSUME Structure, StillReading, NEW n, n = Len(text), NEW name, NEW s, s = Current
  PROVE  Complete(s, n + 1, name) = Definitions(s, n + 1, name)
<1> SUFFICES ASSUME NEW d \in Definitions(s, n + 1, name), d \in Reading PROVE FALSE
  BY DEF Complete
<1>1. d \in LinesOf("define") /\ Owner(d) = s
  BY DEF Definitions, Above
<1>2. /\ Len(open) \in Nat \ {0} /\ n \in Nat /\ DOMAIN open = 1 .. Len(open)
      /\ \A i \in 1 .. Len(open) : open[i].id <= s
      /\ \A i, j \in 1 .. Len(open) : i < j => open[i].id < open[j].id
      /\ open[1].id = 0 /\ LinesOf("define") \subseteq 1 .. n
      /\ \A j \in 2 .. Len(open) : open[j].id \in LinesOf("define")
      /\ s \in 0 .. n
  BY Innermost, LinesAre, IsSeqIn, SMTT(60) DEF Structure, OpenOK
<1>3. PICK j \in 1 .. Len(open) : d = open[j].id
  BY <1>2 DEF Reading
<1>4. j \in 2 .. Len(open) /\ j - 1 \in 1 .. Len(open) /\ j - 1 < j
  BY <1>1, <1>2, <1>3
<1>5. Owner(d) = open[j - 1].id
  BY <1>3, <1>4 DEF Structure, NestOK
<1>6. open[j - 1].id < open[j].id /\ open[j].id <= s /\ open[j].id \in Int
  BY <1>2, <1>4
<1>7. open[j - 1].id = s
  BY <1>1, <1>5
<1> QED BY <1>2, <1>6, <1>7

(* The fields of a word that its event is made of. *)
SameNote(m, v) ==
  /\ m.class = v.class /\ m.octave = v.octave /\ m.natural = v.natural /\ m.mods = v.mods

(* Parser q takes w for what it is in line k of s. *)
TakenAsSpelled(q, s, k, w) ==
  LET m == Meant(q, w)
      v == Spelled(s, k, w)
  IN  /\ SameNote(m, v)
      /\ ~Alone(w) => m.is = IF v.is = "comment" THEN "bad" ELSE v.is
      /\ Alone(w) => m.is = IF w.is \in {"note", "ctl"} THEN w.is ELSE "bad"

(* A note with a tail behind it, field by field. *)
LEMMA BehindIs ==
  ASSUME NEW r, IsWord(r), NEW tail
  PROVE  LET u == Behind(r, tail)
         IN  /\ DOMAIN u = DOMAIN r /\ "is" \in DOMAIN u /\ u.is = r.is
             /\ u.class = IF r.bare THEN r.class + tail.alter ELSE r.class
             /\ u.octave = IF r.bare THEN tail.octave ELSE r.octave
             /\ u.natural = IF r.bare THEN tail.natural ELSE r.natural
             /\ u.mods = Overlaid(tail.mods, r.mods)
<1>1. {"is", "class", "octave", "natural", "mods"} \subseteq DOMAIN r
  BY DEF IsWord
<1>2. CASE r.bare
  BY <1>1, <1>2 DEF Behind
<1>3. CASE ~r.bare
  BY <1>1, <1>3 DEF Behind
<1> QED BY <1>2, <1>3

LEMMA MeantIsSpelled ==
  ASSUME TextOK, NEW n, n = Len(text), NEW s, NEW q, NEW subs, IsParser(q, subs),
         AliasesKnown(q, s, n + 1), NEW w, IsWord(w), w.is # "comment"
  PROVE  TakenAsSpelled(q, s, n + 1, w)
<1> DEFINE m == Meant(q, w)
           v == Spelled(s, n + 1, w)
<1>1. w.base \in DOMAIN q.mAliases <=> IsAlias(s, n + 1, w.base)
  <2>1. n + 1 \in Nat \ {0} /\ n + 1 <= Len(text) + 1
    BY DEF TextOK, IsSeq
  <2>2. IsAlias(s, n + 1, w.base) => w.base \in Names("alias")
    BY <2>1, AliasIsNamed
  <2> QED BY <2>2 DEF AliasesKnown
<1>2. CASE Alone(w)
  <2> DEFINE u == Seen(w)
  <2>1. /\ u = [w EXCEPT !.base = NoName, !.is = u.is] /\ u.base = NoName /\ IsWord(u)
        /\ u.is = IF w.is \in {"note", "ctl"} THEN w.is ELSE "bad"
    BY <1>2, SeenIs
  <2> HIDE DEF u
  <2>2. NoName \notin DOMAIN q.mAliases /\ u.is # "comment"
    BY <2>1 DEF IsParser
  <2>3. Replaced(q, u) = u
    BY <2>1, <2>2, ReplacedIs
  <2>4. m = u /\ v = w
    BY <1>2, <2>3 DEF Meant, Spelled, u
  <2>5. SameNote(u, w)
    BY <2>1 DEF SameNote, IsWord
  <2> HIDE DEF m, v
  <2>6. SameNote(m, v) /\ (Alone(w) => m.is = IF w.is \in {"note", "ctl"} THEN w.is ELSE "bad")
    BY <2>1, <2>4, <2>5
  <2> QED BY <1>2, <2>6 DEF m, v, TakenAsSpelled
<1>3. CASE ~Alone(w) /\ w.base \in DOMAIN q.mAliases
  <2> DEFINE r == q.mAliases[w.base]
             is == IF r.is \in {"note", "ctl"} \/ w.tail.empty THEN r.is ELSE "bad"
             u == Behind(r, w.tail)
             j == Joined(r, w.tail)
  <2>1. Seen(w) = w
    BY <1>3, SeenIs
  <2>2. m = j
    BY <1>3, <2>1, ReplacedIs, ZenonT(60) DEF Meant
  <2>3. r = AliasOf(s, n + 1, w.base) /\ IsWord(r)
    BY <1>3 DEF AliasesKnown, IsParser
  <2>4. v = [u EXCEPT !.is = is]
    <3>1. v = [u EXCEPT !.is = IF r.is \in {"note", "ctl"} \/ w.tail.empty THEN @ ELSE "bad"]
      BY <1>1, <1>3, <2>3 DEF Spelled
    <3>2. u.is = r.is
      BY <2>3, BehindIs
    <3> HIDE DEF u, r, v
    <3> QED BY <3>1, <3>2
  <2>5. SameNote(j, u) /\ "is" \in DOMAIN u
    <3>1. /\ "is" \in DOMAIN u
          /\ u.class = IF r.bare THEN r.class + w.tail.alter ELSE r.class
          /\ u.octave = IF r.bare THEN w.tail.octave ELSE r.octave
          /\ u.natural = IF r.bare THEN w.tail.natural ELSE r.natural
          /\ u.mods = Overlaid(w.tail.mods, r.mods)
      BY <2>3, BehindIs
    <3>2. /\ j.class = IF r.bare THEN r.class + w.tail.alter ELSE r.class
          /\ j.octave = IF r.bare THEN w.tail.octave ELSE r.octave
          /\ j.natural = IF r.bare THEN w.tail.natural ELSE r.natural
          /\ j.mods = Overlaid(w.tail.mods, r.mods)
      BY <2>3, JoinedIs
    <3> HIDE DEF u, r, j
    <3> QED BY <3>1, <3>2 DEF SameNote
  <2>6. j.is = IF r.is \in {"note", "ctl"} \/ (w.tail.empty /\ r.is # "comment")
               THEN r.is ELSE "bad"
    BY <2>3, JoinedIs
  <2> HIDE DEF m, v, r, u, j
  <2>7. SameNote(m, v) /\ v.is = is
    BY <2>2, <2>4, <2>5 DEF SameNote
  <2>8. m.is = IF v.is = "comment" THEN "bad" ELSE v.is
    BY <2>2, <2>6, <2>7
  <2> QED BY <1>3, <2>7, <2>8 DEF m, v, TakenAsSpelled
<1>4. CASE ~Alone(w) /\ w.base \notin DOMAIN q.mAliases
  <2>1. Seen(w) = w
    BY <1>4, SeenIs
  <2>2. m = w
    BY <1>4, <2>1, ReplacedIs DEF Meant
  <2>3. v = w
    BY <1>1, <1>4 DEF Spelled
  <2> HIDE DEF m, v
  <2>4. SameNote(m, v) /\ m.is = v.is /\ v.is # "comment"
    BY <2>2, <2>3 DEF SameNote
  <2> QED BY <1>4, <2>4 DEF m, v, TakenAsSpelled
<1> QED BY <1>2, <1>3, <1>4

(* The kind of a word. *)
LEMMA KindIsKnown ==
  ASSUME Structure, StillReading, NEW n, n = Len(text), NEW s, s = Current,
         NEW q, NEW subs, IsParser(q, subs), KnownAll(q, s, n + 1),
         NEW w, IsWord(w), w.is # "comment"
  PROVE  /\ Kind(s, n + 1, w) \in {"bad", "comment"} <=> KindFor(q, w) = "bad"
         /\ KindFor(q, w) # "bad" => Kind(s, n + 1, w) = KindFor(q, w)
         /\ KindFor(q, w) = "play" => q.mSubSeqMap[w.base] = Max(Definitions(s, n + 1, w.base))
<1> DEFINE m == Meant(q, w)
           v == Spelled(s, n + 1, w)
           k == n + 1
<1>1. /\ ~Alone(w) => m.is = IF v.is = "comment" THEN "bad" ELSE v.is
      /\ Alone(w) => m.is = IF w.is \in {"note", "ctl"} THEN w.is ELSE "bad"
  <2>1. TextOK /\ AliasesKnown(q, s, n + 1)
    BY DEF Structure, KnownAll
  <2>2. TakenAsSpelled(q, s, n + 1, w)
    BY <2>1, MeantIsSpelled
  <2> QED BY <2>2 DEF TakenAsSpelled
<1>2. Complete(s, k, w.base) = Definitions(s, k, w.base)
  BY AllComplete
<1>3. /\ w.base \in DOMAIN q.mSubSeqMap <=> Definitions(s, k, w.base) # {}
      /\ w.base \in DOMAIN q.mSubSeqMap =>
           q.mSubSeqMap[w.base] = Max(Definitions(s, k, w.base))
  <2>1. Complete(s, k, w.base) # {} => w.base \in Names("define")
    BY CompleteIsNamed
  <2> QED BY <1>2, <2>1 DEF KnownAll, SubsKnown
<1>4. m.is # "play" /\ m.is # "comment"
  <2>1. IsWord(m) /\ m.is # "comment"
    <3> DEFINE u == Seen(w)
    <3>1. IsWord(u) /\ u.is # "comment"
      BY SeenIs
    <3> HIDE DEF u
    <3>2. IsWord(Replaced(q, u)) /\ Replaced(q, u).is # "comment"
      BY <3>1, ReplacedIs
    <3> QED BY <3>2 DEF Meant, u
  <2> QED BY <2>1 DEF IsWord
<1>5. /\ KindFor(q, w) = IF Alone(w) THEN IF w.is \in {"note", "ctl"} THEN w.is ELSE "bad"
                         ELSE IF w.base \in DOMAIN q.mSubSeqMap THEN "play" ELSE m.is
      /\ Kind(s, k, w) = IF Alone(w) THEN IF w.is \in {"note", "ctl"} THEN w.is ELSE "bad"
                         ELSE IF Definitions(s, k, w.base) # {} THEN "play" ELSE v.is
  BY DEF KindFor, Kind
<1> HIDE DEF m, v, k
<1>6. CASE Alone(w)
  BY <1>5, <1>6 DEF k
<1>7. CASE ~Alone(w)
  BY <1>1, <1>3, <1>4, <1>5, <1>7 DEF k
<1> QED BY <1>6, <1>7

(* What the text says of the event of word w in line k of s, in column c.  *)
WordSays(s, k, w, c, e) ==
  LET kind == Kind(s, k, w)
      v == Spelled(s, k, w)
      sign == IF v.natural THEN 0 ELSE SignAt(s, k, Pitch(v) % 12)
  IN  /\ kind = "default" \/ (e = NoEvent /\ kind = "last") \/ e.column = c
      /\ kind = "note" => /\ e.pitch = (Pitch(v) + sign + LastAbove(s, k, "transpose", 0)) % Word
                          /\ e.volume = Volume(s, k, v)
      /\ kind = "default" => e.pitch = DefaultPitch(s, k)
      /\ kind = "play" => e.sub = Max(Definitions(s, k, w.base))

LEMMA SaysWhatItMakes ==
  ASSUME Structure, StillReading, NEW n, n = Len(text), NEW s, s = Current,
         NEW q, NEW subs, IsParser(q, subs), KnownAll(q, s, n + 1),
         NEW w, IsWord(w), w.is # "comment", KindFor(q, w) # "bad",
         NEW c, NEW last, last = NoEvent \/ last.column = c, NEW e, e = EventFor(q, w, c, last)
  PROVE  WordSays(s, n + 1, w, c, e)
<1> DEFINE m == Meant(q, w)
           v == Spelled(s, n + 1, w)
           kind == KindFor(q, w)
<1>1. /\ Kind(s, n + 1, w) = kind
      /\ kind = "play" => q.mSubSeqMap[w.base] = Max(Definitions(s, n + 1, w.base))
  BY KindIsKnown
<1>2. SameNote(m, v)
  <2>1. TextOK /\ AliasesKnown(q, s, n + 1)
    BY DEF Structure, KnownAll
  <2>2. TakenAsSpelled(q, s, n + 1, w)
    BY <2>1, MeantIsSpelled
  <2> QED BY <2>2 DEF TakenAsSpelled
<1>3. /\ IsWord(m)
      /\ kind = "default" \/ (e = NoEvent /\ kind = "last") \/ e.column = c
      /\ kind = "default" => e.pitch = q.mDfltNote.pitch
      /\ kind = "play" => e.sub = q.mSubSeqMap[w.base]
      /\ kind = "note" => /\ e.pitch = (Pitch(m) + SignFor(q, m) + q.mTranspose) % Word
                          /\ e.volume = VolumeFor(q, m)
  BY MadeIs
<1>4. /\ q.mVolume = LastAbove(s, n + 1, "volume", 64)
      /\ q.mTranspose = LastAbove(s, n + 1, "transpose", 0)
      /\ q.mDfltNote.pitch = DefaultPitch(s, n + 1)
      /\ \A class \in 0 .. 11 : q.mSigns[class] = SignAt(s, n + 1, class)
  BY DEF KnownAll, NumbersKnown, SignsKnown
<1> DEFINE k == n + 1
           sign == IF v.natural THEN 0 ELSE SignAt(s, k, Pitch(v) % 12)
<1> HIDE DEF m, v, kind, k
<1>5. Pitch(m) = Pitch(v) /\ Pitch(m) \in Nat /\ Pitch(m) % 12 \in 0 .. 11
  <2>1. Pitch(m) \in Nat
    BY <1>3, PitchIs
  <2>2. Pitch(m) = Pitch(v)
    BY <1>2 DEF SameNote, Pitch
  <2> QED BY <2>1, <2>2
<1>6. SignFor(q, m) = sign
  BY <1>2, <1>4, <1>5 DEF SameNote, SignFor, k
<1>7. VolumeFor(q, m) = Volume(s, k, v)
  <2>1. Mod(m, "volume", Unset) = Mod(v, "volume", Unset)
    BY <1>2 DEF SameNote, Mod
  <2> QED BY <1>4, <2>1 DEF VolumeFor, Volume, k
<1>8. kind = "note" => /\ e.pitch = (Pitch(v) + sign + LastAbove(s, k, "transpose", 0)) % Word
                       /\ e.volume = Volume(s, k, v)
  BY <1>3, <1>4, <1>5, <1>6, <1>7 DEF k
<1>9. kind = "default" => e.pitch = DefaultPitch(s, k)
  BY <1>3, <1>4 DEF k
<1>10. kind = "play" => e.sub = Max(Definitions(s, k, w.base))
  BY <1>1, <1>3 DEF k
<1> HIDE DEF sign
<1>11. Kind(s, k, w) = kind /\ v = Spelled(s, k, w)
       /\ sign = IF v.natural THEN 0 ELSE SignAt(s, k, Pitch(v) % 12)
  BY <1>1 DEF k, sign, v
<1>12. WordSays(s, k, w, c, e)
  BY <1>3, <1>8, <1>9, <1>10, <1>11 DEF WordSays
<1> QED BY <1>12 DEF k

(* What the text says of the events of line k in the song of s. *)
LineSays(s, k, line, events) ==
  IF line.is # "words" THEN Len(events) = 1 /\ events[1].kind = line.is
  ELSE /\ Len(events) = Len(Words(line))
       /\ \A i \in 1 .. Len(Words(line)) :
            WordSays(s, k, Words(line)[i], ColumnOf(Words(line), i), events[i])

(* A line of words that is kept is a line of the song, and says what it    *)
(* gives; one that is not kept is none.                                    *)
KeptAsSaid(s, k, line, r) ==
  /\ KeepsEvents(r) => IsSongLine(s, k, line) /\ LineSays(s, k, line, r.events)
  /\ r.stop = "throw" \/ (r.stop # "assert" /\ r.events = <<>>) => ~IsSongLine(s, k, line)

(* The last note of a column is none or stands in it. *)
LEMMA LastInColumn ==
  ASSUME NEW q, NEW subs, IsParser(q, subs), NEW words, NEW events, NEW m \in Nat,
         \A j \in 1 .. m : /\ IsWord(words[j]) /\ words[j].is # "comment"
                           /\ KindFor(q, words[j]) # "bad"
                           /\ events[j] = MadeOf(q, words, events, j),
         NEW i \in 0 .. m, NEW c \in Columns
  PROVE  LastIn(q, words, events, i, c) = NoEvent \/ LastIn(q, words, events, i, c).column = c
<1> DEFINE A == NewIn(q, words, i, c)
<1>1. CASE A = {}
  BY <1>1 DEF LastIn, IsParser, IsLastNote
<1>2. CASE A # {}
  <2> DEFINE j == Max(A)
             w == words[j]
             last == LastIn(q, words, events, j - 1, c)
  <2>1. A \subseteq 0 .. m
    BY DEF NewIn
  <2>2. j \in A
    <3> HIDE DEF A
    <3> QED BY <1>2, <2>1, MaxOf
  <2>3. /\ j \in 1 .. m /\ ColumnOf(words, j) = c /\ KindFor(q, w) \in {"note", "play"}
    BY <2>2 DEF NewIn
  <2>4. LastIn(q, words, events, i, c) = events[j]
    BY <1>2 DEF LastIn
  <2>5. events[j] = EventFor(q, w, c, last)
    BY <2>3 DEF MadeOf
  <2> HIDE DEF A, j
  <2>6. events[j].column = c
    <3>1. CASE KindFor(q, w) = "play"
      <4>1. events[j] = [kind |-> "play", column |-> c, sub |-> q.mSubSeqMap[w.base]]
        BY <2>5, <3>1 DEF EventFor
      <4> QED BY <4>1
    <3>2. CASE KindFor(q, w) = "note"
      <4> DEFINE n == Meant(q, w)
      <4>1. events[j] = Signed(q, Voiced(q, NoteEvent(n, c)))
        BY <2>5, <3>2 DEF EventFor
      <4>2. IsWord(n)
        <5>1. IsWord(w) /\ w.is # "comment" /\ KindFor(q, w) # "bad"
          BY <2>3
        <5>2. NoEvent = NoEvent \/ NoEvent.column = c
          OBVIOUS
        <5> HIDE DEF w
        <5> QED BY <5>1, <5>2, MadeIs
      <4> HIDE DEF n, w
      <4> QED BY <4>1, <4>2, NoteColumn
    <3> QED BY <2>3, <3>1, <3>2
  <2> QED BY <2>4, <2>6
<1> QED BY <1>1, <1>2

LEMMA WordsAreKept ==
  ASSUME Structure, StillReading, NEW n, n = Len(text), NEW s, s = Current,
         NEW q, NEW subs, IsParser(q, subs), KnownAll(q, s, n + 1),
         NEW line, IsLine(line), line.is = "words"
  PROVE  KeptAsSaid(s, n + 1, line, ParseLine(q, line))
<1> DEFINE words == Words(line)
           m == Len(words)
           r == ParseLine(q, line)
           k == n + 1
<1>1. IsWords(line.words) /\ Len(line.words) <= MaxColumn + 1 /\ r = ParsePattern(q, line)
  BY LineParts, ByKind
<1>2. PICK a : ReadTo(q, words, a, m) /\ Stopped(line, a, r)
  BY <1>1, PatternReads
<1>3. /\ IsSeq(words) /\ m \in Nat /\ m <= MaxColumn + 1 /\ (m = 0 <=> words = <<>>)
      /\ \A i \in 1 .. m : IsWord(words[i]) /\ words[i].is # "comment"
      /\ DOMAIN words = 1 .. m
  <2>1. IsSeq(line.words) /\ \A i \in 1 .. Len(line.words) : IsWord(line.words[i])
    BY <1>1, SeqIsSeq DEF IsWords
  <2>2. WordsAre(line, words)
    BY <2>1, WordsBeforeComment
  <2>3. Len(line.words) \in Nat /\ MaxColumn \in Nat
    BY <2>1, ParserAssumption DEF IsSeq
  <2> HIDE DEF words
  <2>4. words \in Seq(Range(words)) /\ DOMAIN words = 1 .. m
    BY <2>2, IsSeqIn DEF WordsAre
  <2>5. m = 0 <=> words = <<>>
    <3> DEFINE R == Range(words)
    <3> HIDE DEF R
    <3> QED BY <2>4 DEF R
  <2> QED BY <1>1, <2>1, <2>2, <2>3, <2>4, <2>5 DEF WordsAre
<1> HIDE DEF words, m, r
<1>4. ASSUME NEW i \in 1 .. m
      PROVE  /\ Kind(s, k, words[i]) \in {"bad", "comment"} <=> KindFor(q, words[i]) = "bad"
  BY <1>3, KindIsKnown
<1>5. IsSongLine(s, k, line) <=> words # <<>> /\ \A i \in 1 .. m : KindFor(q, words[i]) # "bad"
  <2>1. IsSongLine(s, k, line) <=> words # <<>> /\ Readable(s, k, words)
    BY DEF IsSongLine, words
  <2>2. Readable(s, k, words) <=> \A i \in 1 .. m : KindFor(q, words[i]) # "bad"
    BY <1>3, <1>4 DEF Readable
  <2> QED BY <2>1, <2>2
<1>6. ASSUME a.stop = "no"
      PROVE  /\ Len(r.events) = m
             /\ \A i \in 1 .. m : /\ KindFor(q, words[i]) # "bad"
                                  /\ r.events[i] = MadeOf(q, words, r.events, i)
                                  /\ WordSays(s, k, words[i], ColumnOf(words, i), r.events[i])
  <2> DEFINE events == r.events
  <2>1. /\ Len(events) = m
        /\ \A j \in 1 .. m : /\ KindFor(q, words[j]) # "bad"
                             /\ events[j] = MadeOf(q, words, events, j)
    BY <1>2, <1>6 DEF ReadTo, Stopped
  <2> HIDE DEF events
  <2>2. ASSUME NEW i \in 1 .. m
        PROVE  WordSays(s, k, words[i], ColumnOf(words, i), events[i])
    <3> DEFINE w == words[i]
               c == ColumnOf(words, i)
               last == LastIn(q, words, events, i - 1, c)
               e == events[i]
    <3>1. c \in Columns /\ i - 1 \in 0 .. m
      <4>1. /\ i - 1 \in Nat /\ (i - 1) + 1 = i /\ i - 1 <= MaxColumn /\ MaxColumn \in Nat
            /\ i - 1 \in 0 .. m
        BY <1>3, ParserAssumption
      <4>2. ColumnOf(words, (i - 1) + 1) \in 0 .. i - 1
        <5> DEFINE x == i - 1
        <5>1. x \in Nat
          BY <4>1
        <5> HIDE DEF x
        <5>2. ColumnOf(words, x + 1) \in 0 .. x
          BY <5>1, ColumnNext
        <5> QED BY <5>2 DEF x
      <4>3. c \in 0 .. i - 1
        BY <4>1, <4>2
      <4> HIDE DEF c
      <4> QED BY <4>1, <4>3 DEF Columns
    <3> HIDE DEF c
    <3>2. last = NoEvent \/ last.column = c
      BY <1>3, <2>1, <3>1, LastInColumn
    <3>3. e = EventFor(q, w, c, last)
      BY <2>1 DEF MadeOf, c
    <3>4. IsWord(w) /\ w.is # "comment" /\ KindFor(q, w) # "bad"
      BY <1>3, <2>1
    <3> HIDE DEF e, w, last
    <3>5. WordSays(s, n + 1, w, c, e)
      BY <3>2, <3>3, <3>4, SaysWhatItMakes
    <3> QED BY <3>5 DEF w, c, e
  <2> QED BY <2>1, <2>2 DEF events
<1>7. ASSUME KeepsEvents(r)
      PROVE  IsSongLine(s, k, line) /\ LineSays(s, k, line, r.events)
  <2>1. r.stop \in {"no", "comment"} /\ r.events # <<>>
    BY <1>7 DEF KeepsEvents
  <2>2. a.stop = "no"
    BY <1>2, <2>1 DEF Stopped, ReadTo
  <2>3. words # <<>>
    <3> SUFFICES ASSUME words = <<>> PROVE FALSE
      OBVIOUS
    <3>1. Len(r.events) = 0
      BY <1>3, <1>6, <2>2
    <3>2. IsSeq(r.events)
      <4>1. LineKeeps(q, line, subs, r)
        BY LineIs DEF r
      <4> QED BY <4>1 DEF LineKeeps
    <3>3. r.events \in Seq(Range(r.events))
      BY <3>2, IsSeqIn
    <3> DEFINE ev == r.events
               R == Range(ev)
    <3>4. Len(ev) = 0 /\ ev \in Seq(R) /\ ev # <<>>
      BY <2>1, <3>1, <3>3
    <3> HIDE DEF ev, R
    <3> QED BY <3>4
  <2>4. IsSongLine(s, k, line)
    BY <1>5, <1>6, <2>2, <2>3
  <2>5. LineSays(s, k, line, r.events)
    BY <1>6, <2>2 DEF LineSays, words, m
  <2> QED BY <2>4, <2>5
<1>8. ASSUME r.stop = "throw" \/ (r.stop # "assert" /\ r.events = <<>>)
      PROVE  ~IsSongLine(s, k, line)
  <2>1. CASE a.stop = "throw"
    BY <1>2, <1>5, <2>1 DEF ReadTo
  <2>2. CASE a.stop = "assert"
    BY <1>2, <1>8, <2>2 DEF Stopped
  <2>3. CASE a.stop = "no"
    <3>1. r.events = <<>>
      BY <1>2, <1>8, <2>3 DEF Stopped
    <3>2. m = 0
      BY <1>6, <2>3, <3>1, OneEvent
    <3> QED BY <1>3, <1>5, <3>2
  <2> QED BY <1>2, <2>1, <2>2, <2>3 DEF ReadTo
<1>9. KeptAsSaid(s, k, line, r)
  BY <1>7, <1>8 DEF KeptAsSaid
<1> QED BY <1>9 DEF r

(* Any line of a song but define and end; one that is no words gives one   *)
(* event of its kind, or none.                                             *)
LEMMA LinesAreKept ==
  ASSUME Structure, StillReading, NEW n, n = Len(text), NEW s, s = Current,
         NEW q, NEW subs, IsParser(q, subs), KnownAll(q, s, n + 1),
         NEW line, IsLine(line), BareLine(line), line.is \notin {"define", "end"}
  PROVE  KeptAsSaid(s, n + 1, line, ParseLine(q, line))
<1> DEFINE r == ParseLine(q, line)
           k == n + 1
<1>0. line.is \in LineKinds
  BY LineKind
<1>1. CASE line.is = "words"
  BY <1>1, WordsAreKept
<1>2. CASE line.is \in {"bar", "loop", "endloop", "tempo", "wait"}
  <2>1. r.stop = "no" /\ Len(r.events) = 1 /\ r.events[1].kind = line.is /\ r.events # <<>>
    <3>1. CASE line.is = "bar"
      <4>1. BarOK(line) /\ r = ParseBar(q, line)
        BY <3>1, LineParts, ByKind
      <4>2. IsSignState(q, line, ParseBar(q, line))
        BY <4>1, BarIs
      <4>3. line.comment = <<>> /\ \A i \in 1 .. Len(line.signs) : line.signs[i].class # Unset
        <5> DEFINE signs == line.signs
        <5>1. signs \in Seq(Range(signs))
          BY <4>1 DEF BarOK
        <5>2. DOMAIN signs = 1 .. Len(signs)
          <6> HIDE DEF signs
          <6> QED BY <5>1
        <5> QED BY <3>1, <5>2 DEF BareLine
      <4>4. ParseBar(q, line).stop = "no"
        BY <4>1, <4>3, BareBarIs
      <4> HIDE DEF r
      <4>5. r.stop = "no" /\ r.events = <<[kind |-> "bar", n |-> line.n]>>
        BY <4>1, <4>2, <4>4 DEF IsSignState
      <4> QED BY <3>1, <4>5
    <3>2. CASE line.is = "loop"
      <4>1. r = Gives(q, <<[kind |-> "loop", count |-> line.n]>>)
        BY <3>2, ByKind, ZenonT(60)
      <4> HIDE DEF r
      <4> QED BY <3>2, <4>1 DEF Gives
    <3>3. CASE line.is = "endloop"
      <4>1. r = Gives(q, <<[kind |-> "endloop"]>>)
        BY <3>3, ByKind
      <4> HIDE DEF r
      <4> QED BY <3>3, <4>1 DEF Gives
    <3>4. CASE line.is \in {"tempo", "wait"}
      <4>1. r = Gives(q, <<[kind |-> line.is, n |-> line.n]>>)
        BY <3>4, ByKind
      <4> HIDE DEF r
      <4> QED BY <3>4, <4>1 DEF Gives
    <3> QED BY <1>2, <3>1, <3>2, <3>3, <3>4
  <2> HIDE DEF r
  <2>2. IsSongLine(s, k, line) /\ LineSays(s, k, line, r.events)
    BY <1>2, <2>1 DEF IsSongLine, LineSays
  <2>3. KeptAsSaid(s, k, line, r)
    BY <2>1, <2>2 DEF KeptAsSaid
  <2> QED BY <2>3 DEF r
<1>3. CASE line.is \in {"default", "volume", "transpose", "port", "alias", "unalias"}
  <2>1. r.events = <<>>
    <3>1. CASE line.is = "default"
      <4>1. r = ParseDefault(q, line.word)
        BY <3>1, ByKind
      <4>2. ParseDefault(q, line.word).events = <<>>
        BY DEF ParseDefault, Gives
      <4> HIDE DEF r
      <4> QED BY <4>1, <4>2
    <3>2. CASE line.is # "default"
      <4>1. \A p : Gives(p, <<>>).events = <<>>
        BY DEF Gives
      <4>2. \/ r = Gives([q EXCEPT !.mVolume = line.n], <<>>)
            \/ r = Gives([q EXCEPT !.mTranspose = line.n], <<>>)
            \/ r = Gives(ParsePort(q, line), <<>>)
            \/ r = Gives([q EXCEPT !.mAliases = Put(@, line.name, line.word)], <<>>)
            \/ r = Gives([q EXCEPT !.mAliases = Restrict(@, DOMAIN @ \ {line.name})], <<>>)
        BY <1>3, <3>2, ByKind
      <4> HIDE DEF r
      <4> QED BY <4>1, <4>2, Zenon
    <3> QED BY <3>1, <3>2
  <2>2. ~IsSongLine(s, k, line)
    BY <1>3 DEF IsSongLine
  <2> HIDE DEF r
  <2>3. KeptAsSaid(s, k, line, r)
    BY <2>1, <2>2 DEF KeptAsSaid, KeepsEvents
  <2> QED BY <2>3 DEF r
<1> QED BY <1>0, <1>1, <1>2, <1>3 DEF LineKinds
-----------------------------------------------------------------------------
(* The lines of a song. *)

(* What the text says of an event is not changed by the lines below. *)
LEMMA WordSaysStays ==
  ASSUME TextOK, NEW line, Grows(line), NEW n, n = Len(text), NEW k \in 1 .. n + 1,
         NEW s, NEW w, NEW c, NEW e
  PROVE  WordSays(s, k, w, c, e)' <=> WordSays(s, k, w, c, e)
<1>1. \A x : Kind(s, k, x)' = Kind(s, k, x) /\ Spelled(s, k, x)' = Spelled(s, k, x)
  BY KindStays
<1>2. /\ \A class : SignAt(s, k, class)' = SignAt(s, k, class)
      /\ DefaultPitch(s, k)' = DefaultPitch(s, k)
      /\ \A kind, default : LastAbove(s, k, kind, default)' = LastAbove(s, k, kind, default)
      /\ \A name : Definitions(s, k, name)' = Definitions(s, k, name)
  BY SignAtStays, DefaultPitchStays, LastAboveStays, DefinitionsStay
<1>3. \A v : Volume(s, k, v)' = Volume(s, k, v)
  BY <1>2 DEF Volume
<1> QED BY <1>1, <1>2, <1>3 DEF WordSays

LEMMA LineSaysStays ==
  ASSUME TextOK, NEW line, Grows(line), NEW n, n = Len(text), NEW k \in 1 .. n + 1,
         NEW s, NEW l, NEW events
  PROVE  /\ LineSays(s, k, l, events)' <=> LineSays(s, k, l, events)
         /\ IsSongLine(s, k, l)' <=> IsSongLine(s, k, l)
<1>1. \A w, c, e : WordSays(s, k, w, c, e)' <=> WordSays(s, k, w, c, e)
  BY WordSaysStays
<1>2. LineSays(s, k, l, events)' <=> LineSays(s, k, l, events)
  BY <1>1 DEF LineSays
<1>3. \A w : Kind(s, k, w)' = Kind(s, k, w)
  BY KindStays
<1>4. IsSongLine(s, k, l)' <=> IsSongLine(s, k, l)
  BY <1>3 DEF IsSongLine, Readable
<1> QED BY <1>2, <1>4

(* One more line of the text is one more line of a song or none. *)
LEMMA SongLinesNext ==
  ASSUME Structure, StillReading, NEW line, Grows(line), NEW n, n = Len(text), NEW s
  PROVE  Extends(SongLines(s), SongLines(s)', n, s = Current /\ IsSongLine(s, n + 1, line))
<1> DEFINE here == s = Current /\ IsSongLine(s, n + 1, line)
<1>1. /\ TextOK /\ n \in Nat /\ DOMAIN text = 1 .. n /\ DOMAIN text' = 1 .. n + 1
      /\ \A k \in 1 .. n : text'[k] = text[k]
      /\ text'[n + 1] = line
  BY GrownText DEF Structure
<1>2. /\ \A k \in 1 .. n + 1 : Owner(k)' = Owner(k)
      /\ Owner(n + 1) = Current
  BY <1>1, OwnerStable, Innermost
<1>3. \A k \in 1 .. n + 1 : \A l : IsSongLine(s, k, l)' <=> IsSongLine(s, k, l)
  BY <1>1, LineSaysStays
<1>4. SongLines(s) = {k \in 1 .. n : Owner(k) = s /\ IsSongLine(s, k, text[k])}
  BY <1>1 DEF SongLines
<1>5. \A k : k \in SongLines(s)' <=> /\ k \in 1 .. n + 1 /\ Owner(k)' = s
                                     /\ \A l : l = text'[k] => IsSongLine(s, k, l)'
  BY <1>1 DEF SongLines
<1>6. \A k : k \in 1 .. n + 1 <=> (k \in 1 .. n \/ k = n + 1)
  BY <1>1
<1>7. \A k : k \in SongLines(s)' <=> k \in SongLines(s) \/ (k = n + 1 /\ here)
  <2>1. ASSUME NEW k \in 1 .. n PROVE k \in SongLines(s)' <=> k \in SongLines(s)
    BY <1>1, <1>2, <1>3, <1>4, <1>5, <1>6
  <2>2. n + 1 \in SongLines(s)' <=> here
    BY <1>1, <1>2, <1>3, <1>5, <1>6
  <2>3. n + 1 \notin SongLines(s)
    BY <1>1, <1>4
  <2> QED BY <1>4, <1>5, <1>6, <2>1, <2>2, <2>3
<1> HIDE DEF here
<1>8. Extends(SongLines(s), SongLines(s)', n, here)
  BY <1>1, <1>4, <1>7 DEF Extends
<1> QED BY <1>8 DEF here

(* How many of the lines A there are up to line k. *)
Rank(A, k) == Cardinality({j \in A : j <= k})

LEMMA RankNext ==
  ASSUME NEW n, NEW A, NEW B, NEW here, Extends(A, B, n, here)
  PROVE  /\ Cardinality(A) \in Nat
         /\ Cardinality(B) = Cardinality(A) + (IF here THEN 1 ELSE 0)
         /\ \A k \in A : Rank(A, k) \in 1 .. Cardinality(A) /\ Rank(B, k) = Rank(A, k)
         /\ here => Rank(B, n + 1) = Cardinality(A) + 1
<1>1. A \subseteq 1 .. n /\ n \in Nat /\ B = IF here THEN A \cup {n + 1} ELSE A
  BY DEF Extends
<1>2. IsFiniteSet(A)
  <2>1. IsFiniteSet(1 .. n)
    BY <1>1, FS_Interval
  <2> QED BY <1>1, <2>1, FS_Subset
<1>3. Cardinality(A) \in Nat
  BY <1>2, FS_CardinalityType
<1>4. here => Cardinality(B) = Cardinality(A) + 1
  <2>1. n + 1 \notin A
    BY <1>1
  <2> QED BY <1>1, <1>2, <2>1, FS_AddElement
<1>5. ASSUME NEW k \in A
      PROVE  Rank(A, k) \in 1 .. Cardinality(A) /\ Rank(B, k) = Rank(A, k)
  <2> DEFINE S == {j \in A : j <= k}
  <2>1. k \in S /\ S \subseteq A
    BY <1>1
  <2>2. {j \in B : j <= k} = S
    BY <1>1
  <2> HIDE DEF S
  <2>3. IsFiniteSet(S) /\ Cardinality(S) <= Cardinality(A)
    BY <1>2, <2>1, FS_Subset
  <2>4. Cardinality(S) \in Nat /\ Cardinality(S) # 0
    BY <2>1, <2>3, FS_CardinalityType, FS_EmptySet
  <2>5. Rank(A, k) = Cardinality(S) /\ Rank(B, k) = Cardinality(S)
    BY <2>2 DEF Rank, S
  <2> QED BY <1>3, <2>3, <2>4, <2>5
<1>6. here => Rank(B, n + 1) = Cardinality(B)
  <2>1. \A j \in B : j <= n + 1
    BY <1>1
  <2>2. {j \in B : j <= n + 1} = B
    BY <2>1
  <2> QED BY <2>2 DEF Rank
<1> QED BY <1>1, <1>3, <1>4, <1>5, <1>6

(* A song has the lines that the text says, with the events it says.       *)
SongSays(s, song) ==
  /\ Len(song) = Cardinality(SongLines(s))
  /\ \A k \in SongLines(s) : LineSays(s, k, text[k], song[Rank(SongLines(s), k)])

LEMMA SongSaysNext ==
  ASSUME Structure, StillReading, NEW line, Grows(line), NEW n, n = Len(text),
         NEW s, NEW song, IsSeq(song), SongSays(s, song), NEW new, NEW events, NEW here,
         here <=> s = Current /\ IsSongLine(s, n + 1, line),
         here => new = Append(song, events) /\ LineSays(s, n + 1, line, events),
         ~here => new = song
  PROVE  SongSays(s, new)'
<1> DEFINE A == SongLines(s)
           B == SongLines(s)'
<1>1. Extends(A, B, n, s = Current /\ IsSongLine(s, n + 1, line))
  BY SongLinesNext
<1>2. Extends(A, B, n, here)
  BY <1>1 DEF Extends
<1>3. /\ TextOK /\ n \in Nat /\ (\A k \in 1 .. n : text'[k] = text[k]) /\ text'[n + 1] = line
  BY GrownText DEF Structure
<1>4. Len(song) = Cardinality(A) /\ \A k \in A : LineSays(s, k, text[k], song[Rank(A, k)])
  BY DEF SongSays
<1>5. ASSUME Len(new) = Cardinality(B),
             \A k \in B : \A l, e : l = text'[k] /\ e = new[Rank(B, k)] => LineSays(s, k, l, e)'
      PROVE  SongSays(s, new)'
  BY <1>5 DEF SongSays, Rank
<1>6. \A k \in 1 .. n + 1 : \A l, e : LineSays(s, k, l, e)' <=> LineSays(s, k, l, e)
  BY <1>3, LineSaysStays
<1> HIDE DEF A, B
<1>7. /\ Cardinality(A) \in Nat
      /\ Cardinality(B) = Cardinality(A) + (IF here THEN 1 ELSE 0)
      /\ \A k \in A : Rank(A, k) \in 1 .. Cardinality(A) /\ Rank(B, k) = Rank(A, k)
      /\ here => Rank(B, n + 1) = Cardinality(A) + 1
  BY <1>2, RankNext
<1>8. A \subseteq 1 .. n /\ B = IF here THEN A \cup {n + 1} ELSE A
  BY <1>2 DEF Extends
<1>9. /\ Len(new) = Cardinality(B)
      /\ \A i \in 1 .. Len(song) : new[i] = song[i]
      /\ here => new[Len(song) + 1] = events
  BY <1>4, <1>7, Appended
<1>10. ASSUME NEW k \in B, NEW l, NEW e, l = text'[k], e = new[Rank(B, k)]
       PROVE  LineSays(s, k, l, e)'
  <2>1. CASE k \in A
    <3>0. k \in 1 .. n /\ Rank(A, k) \in 1 .. Len(song) /\ Rank(B, k) = Rank(A, k)
      BY <1>4, <1>7, <1>8, <2>1
    <3>1. l = text[k] /\ e = song[Rank(A, k)] /\ k \in 1 .. n + 1
      BY <1>3, <1>9, <1>10, <3>0
    <3>2. LineSays(s, k, l, e)
      BY <1>4, <2>1, <3>1
    <3> QED BY <1>6, <3>1, <3>2
  <2>2. CASE k \notin A
    <3>1. k = n + 1 /\ here /\ l = line /\ e = events /\ k \in 1 .. n + 1
      BY <1>3, <1>4, <1>7, <1>8, <1>9, <1>10, <2>2
    <3>2. LineSays(s, k, l, e)
      BY <3>1
    <3> QED BY <1>6, <3>1, <3>2
  <2> QED BY <2>1, <2>2
<1> QED BY <1>5, <1>9, <1>10

Songs == \A s \in DOMAIN parser : SongSays(s, parser[s].mSong)

LEMMA SongIsASeq ==
  ASSUME Structure
  PROVE  \A s \in DOMAIN parser : IsSeq(parser[s].mSong)
<1> SUFFICES ASSUME NEW s \in DOMAIN parser PROVE IsSeq(parser[s].mSong)
  OBVIOUS
<1>1. IsParser(parser[s], Playable(s))
  BY DEF Structure, SongsOK
<1> QED BY <1>1 DEF IsParser

LEMMA SongsNext ==
  ASSUME \A s \in DOMAIN parser' : \A song : song = parser'[s].mSong => SongSays(s, song)'
  PROVE  Songs'
<1> SUFFICES ASSUME NEW s \in DOMAIN parser', NEW song, song = parser'[s].mSong
             PROVE  (SongSays(s, parser[s].mSong))'
  BY DEF Songs
<1>1. SongSays(s, song)'
  OBVIOUS
<1> QED BY <1>1 DEF SongSays

(* What a line that is no define and no end does to the parsers: the one   *)
(* that reads it takes it into its song, as the text says, or leaves it.   *)
LEMMA LineKept ==
  ASSUME Structure, Knowledge, NEW line, IsLine(line), BareLine(line),
         KeepNothing(line) \/ Store(line),
         NEW n, n = Len(text), NEW c, c = Current, NEW q, q = parser[c],
         NEW r, r = ParseLine(q, line)
  PROVE  /\ StillReading /\ Grows(line) /\ line.is \notin {"define", "end"}
         /\ c \in DOMAIN parser /\ IsParser(q, Playable(c)) /\ KnownAll(q, c, n + 1)
         /\ LineKeeps(q, line, Playable(c), r) /\ r.stop # "assert"
         /\ DOMAIN parser' = DOMAIN parser
         /\ \A s \in DOMAIN parser \ {c} : parser'[s] = parser[s]
         /\ parser'[c].mLastNote = r.q.mLastNote
         /\ IsSongLine(c, n + 1, line) =>
              /\ parser'[c].mSong = Append(q.mSong, r.events)
              /\ LineSays(c, n + 1, line, r.events)
         /\ ~IsSongLine(c, n + 1, line) => parser'[c].mSong = q.mSong
<1>1. StillReading /\ Grows(line) /\ line.is \notin {"define", "end"}
  BY KeepNothingKeeps, StoreKeeps DEF KeepNothing, Store, ReadLine, Grows
<1>2. /\ LineKeeps(q, line, Playable(c), r) /\ c \in DOMAIN parser
      /\ IsParser(q, Playable(c)) /\ r = Parsed(line)
  BY <1>1, ParsedIs DEF Parsed
<1>3. KnownAll(q, c, n + 1)
  BY <1>2, KnowledgeIs
<1>4. KeptAsSaid(c, n + 1, line, r)
  BY <1>1, <1>2, <1>3, LinesAreKept
<1> DEFINE stored == [r.q EXCEPT !.mSong = Append(@, r.events)]
<1>5. /\ KeepNothing(line) => /\ parser' = [parser EXCEPT ![c] = r.q]
                              /\ r.stop = "throw" \/ (r.stop # "assert" /\ r.events = <<>>)
      /\ Store(line) => parser' = [parser EXCEPT ![c] = stored] /\ KeepsEvents(r)
  BY <1>2 DEF KeepNothing, Store
<1>6. /\ stored.mSong = Append(q.mSong, r.events) /\ r.q.mSong = q.mSong
      /\ stored.mLastNote = r.q.mLastNote
  BY <1>2 DEF LineKeeps, IsParser, Fields
<1> HIDE DEF stored
<1>7. /\ Store(line) => IsSongLine(c, n + 1, line) /\ LineSays(c, n + 1, line, r.events)
      /\ KeepNothing(line) => ~IsSongLine(c, n + 1, line)
      /\ r.stop # "assert"
  BY <1>4, <1>5 DEF KeptAsSaid, KeepsEvents
<1>8. /\ DOMAIN parser' = DOMAIN parser
      /\ \A s \in DOMAIN parser \ {c} : parser'[s] = parser[s]
      /\ KeepNothing(line) => parser'[c] = r.q
      /\ Store(line) => parser'[c] = stored
  BY <1>2, <1>5
<1>9. parser'[c].mLastNote = r.q.mLastNote
  BY <1>6, <1>8
<1>10. IsSongLine(c, n + 1, line) => /\ parser'[c].mSong = Append(q.mSong, r.events)
                                    /\ LineSays(c, n + 1, line, r.events)
  BY <1>6, <1>7, <1>8
<1>11. ~IsSongLine(c, n + 1, line) => parser'[c].mSong = q.mSong
  BY <1>6, <1>7, <1>8
<1> QED BY <1>1, <1>2, <1>3, <1>7, <1>8, <1>9, <1>10, <1>11

LEMMA SongsKept ==
  ASSUME Structure, Knowledge, Songs, NEW line, IsLine(line), BareLine(line),
         KeepNothing(line) \/ Store(line)
  PROVE  Songs'
<1> SUFFICES ASSUME NEW n, n = Len(text), NEW c, c = Current, NEW q, q = parser[c],
                    NEW r, r = ParseLine(q, line)
             PROVE  Songs'
  OBVIOUS
<1>1. /\ StillReading /\ Grows(line) /\ c \in DOMAIN parser
      /\ DOMAIN parser' = DOMAIN parser
      /\ \A s \in DOMAIN parser \ {c} : parser'[s] = parser[s]
      /\ IsSongLine(c, n + 1, line) =>
           /\ parser'[c].mSong = Append(q.mSong, r.events)
           /\ LineSays(c, n + 1, line, r.events)
      /\ ~IsSongLine(c, n + 1, line) => parser'[c].mSong = q.mSong
  BY LineKept
<1>2. ASSUME NEW s \in DOMAIN parser
      PROVE  SongSays(s, parser[s].mSong) /\ IsSeq(parser[s].mSong)
  BY SongIsASeq DEF Songs
<1>3. ASSUME NEW s \in DOMAIN parser', NEW new, new = parser'[s].mSong
      PROVE  SongSays(s, new)'
  <2> DEFINE song == parser[s].mSong
             events == r.events
             here == s = Current /\ IsSongLine(s, n + 1, line)
  <2>1. IsSeq(song) /\ SongSays(s, song)
    BY <1>1, <1>2, <1>3
  <2>2. /\ here => new = Append(song, events) /\ LineSays(s, n + 1, line, events)
        /\ ~here => new = song
    BY <1>1, <1>3
  <2>3. here <=> s = Current /\ IsSongLine(s, n + 1, line)
    OBVIOUS
  <2> HIDE DEF song, events, here
  <2> QED BY <1>1, <2>1, <2>2, <2>3, SongSaysNext
<1> QED BY <1>3, SongsNext

(* What the lines above say stays when the text stays. *)
LEMMA SaidStays ==
  ASSUME text' = text
  PROVE  /\ \A s, song : SongSays(s, song)' <=> SongSays(s, song)
         /\ \A s : SongLines(s)' = SongLines(s)
         /\ \A s, k, w : Kind(s, k, w)' = Kind(s, k, w)
         /\ \A j : Owner(j)' = Owner(j)
<1>1. \A kind : LinesOf(kind)' = LinesOf(kind)
  BY DEF LinesOf
<1>2. \A kind, d, i : Count(kind, d, i)' = Count(kind, d, i)
  BY <1>1 DEF Count
<1>3. \A d, j : OpenAt(d, j)' = OpenAt(d, j)
  BY <1>2 DEF OpenAt
<1>4. \A j : Owner(j)' = Owner(j)
  BY <1>1, <1>3 DEF Owner
<1>5. \A s, k, kind : Above(s, k, kind)' = Above(s, k, kind)
  BY <1>1, <1>4 DEF Above
<1>6. \A s, k, class : SignAt(s, k, class)' = SignAt(s, k, class)
  <2>1. \A s, k, class : Signing(s, k, class)' = Signing(s, k, class)
    BY <1>5 DEF Signing, SignsFor
  <2> QED BY <2>1, ZenonT(60) DEF SignAt, SignsFor
<1>7. \A s, k, name : /\ IsAlias(s, k, name)' <=> IsAlias(s, k, name)
                      /\ AliasOf(s, k, name)' = AliasOf(s, k, name)
                      /\ Definitions(s, k, name)' = Definitions(s, k, name)
  <2>1. \A s, k, name : Aliasing(s, k, name)' = Aliasing(s, k, name)
    BY <1>5 DEF Aliasing
  <2> QED BY <1>5, <2>1 DEF IsAlias, AliasOf, Definitions
<1>8. /\ \A s, k : DefaultPitch(s, k)' = DefaultPitch(s, k)
      /\ \A s, k, w : Volume(s, k, w)' = Volume(s, k, w)
      /\ \A s, k, kind, default : LastAbove(s, k, kind, default)' = LastAbove(s, k, kind, default)
  BY <1>5 DEF DefaultPitch, Defaults, Pitch, LastAbove, Volume
<1>9. /\ \A s, k, w : Spelled(s, k, w)' = Spelled(s, k, w)
      /\ \A s, k, w : Kind(s, k, w)' = Kind(s, k, w)
  BY <1>7 DEF Spelled, Kind
<1>10. \A s, k, w, c, e : WordSays(s, k, w, c, e)' <=> WordSays(s, k, w, c, e)
  BY <1>6, <1>7, <1>8, <1>9 DEF WordSays
<1>11. \A s, k, l, events : LineSays(s, k, l, events)' <=> LineSays(s, k, l, events)
  BY <1>10 DEF LineSays
<1>12. \A s, k, l : IsSongLine(s, k, l)' <=> IsSongLine(s, k, l)
  BY <1>9 DEF IsSongLine, Readable
<1>13. \A s : SongLines(s)' = SongLines(s)
  BY <1>4, <1>12 DEF SongLines
<1>14. \A s, song : SongSays(s, song)' <=> SongSays(s, song)
  BY <1>11, <1>13 DEF SongSays, Rank
<1> QED BY <1>4, <1>9, <1>13, <1>14

(* Steps that leave the text and the songs. *)
LEMMA SongsStay ==
  ASSUME Songs, text' = text, DOMAIN parser' = DOMAIN parser,
         \A s \in DOMAIN parser : parser'[s].mSong = parser[s].mSong
  PROVE  Songs'
<1>1. ASSUME NEW s \in DOMAIN parser', NEW song, song = parser'[s].mSong
      PROVE  SongSays(s, song)'
  <2>1. SongSays(s, song)
    BY <1>1 DEF Songs
  <2> QED BY <2>1, SaidStays
<1> QED BY <1>1, SongsNext

(* A define or an end is no line of a song. *)
LEMMA SongSaysTheSame ==
  ASSUME Structure, StillReading, NEW line, Grows(line), line.is \in {"define", "end"},
         NEW s, NEW song, IsSeq(song), SongSays(s, song)
  PROVE  SongSays(s, song)'
<1> SUFFICES ASSUME NEW n, n = Len(text) PROVE SongSays(s, song)'
  OBVIOUS
<1> DEFINE here == s = Current /\ IsSongLine(s, n + 1, line)
<1>1. ~here /\ (here <=> s = Current /\ IsSongLine(s, n + 1, line))
  BY DEF IsSongLine
<1> HIDE DEF here
<1> QED BY <1>1, SongSaysNext

(* A definition begins with a song that has no lines. *)
LEMMA SongsBegin ==
  ASSUME Structure, Songs, NEW line, IsLine(line), Define(line)
  PROVE  Songs'
<1> SUFFICES ASSUME NEW n, n = Len(text) PROVE Songs'
  OBVIOUS
<1>1. StillReading /\ line.is = "define"
  BY DefineKeeps
<1>2. Grows(line) /\ parser' = Put(parser, Len(text'), Fresh)
  BY DEF Define, ReadLine, Grows, FreshFor
<1>3. /\ n \in Nat /\ Len(text') = n + 1 /\ LinesOf("define") \subseteq 1 .. n
      /\ DOMAIN text = 1 .. n /\ TextOK
  BY <1>2, GrownText, LinesAre DEF Structure
<1>4. n + 1 \notin DOMAIN parser
  BY <1>3 DEF Structure, SongsOK
<1>5. /\ DOMAIN parser' = DOMAIN parser \cup {n + 1} /\ parser'[n + 1] = Fresh
      /\ \A s \in DOMAIN parser : parser'[s] = parser[s]
  BY <1>2, <1>3, <1>4 DEF Put, Overlaid
<1>6. ASSUME NEW s \in DOMAIN parser, NEW song, song = parser'[s].mSong
      PROVE  SongSays(s, song)'
  <2>1. SongSays(s, song) /\ IsSeq(song)
    BY <1>5, <1>6, SongIsASeq DEF Songs
  <2> QED BY <1>1, <1>2, <2>1, SongSaysTheSame
<1>7. ASSUME NEW s, s = n + 1, NEW song, song = Fresh.mSong PROVE SongSays(s, song)'
  <2>1. SongLines(s) = {}
    <3>1. \A j \in 1 .. n : j \in Nat \ {0} /\ j <= n
      BY <1>3
    <3>2. \A j \in 1 .. n : Owner(j) \in 0 .. j - 1
      BY <1>3, <3>1, OwnerIs
    <3>3. \A j \in 1 .. n : Owner(j) # s
      BY <1>3, <1>7, <3>1, <3>2
    <3> QED BY <1>3, <3>3 DEF SongLines
  <2>2. song = <<>> /\ IsSeq(song) /\ Len(song) = 0
    BY <1>7 DEF Fresh, IsSeq
  <2>3. SongSays(s, song)
    BY <2>1, <2>2, FS_EmptySet DEF SongSays
  <2> QED BY <1>1, <1>2, <2>2, <2>3, SongSaysTheSame
<1>8. \A s \in DOMAIN parser' : \A song : song = parser'[s].mSong => SongSays(s, song)'
  BY <1>5, <1>6, <1>7
<1> QED BY <1>8, SongsNext

(* An end leaves all songs as they are. *)
LEMMA SongsEnd ==
  ASSUME Structure, Songs, NEW line, IsLine(line), End(line)
  PROVE  Songs'
<1> SUFFICES ASSUME NEW m, m = Len(open) PROVE Songs'
  OBVIOUS
<1>1. StillReading /\ line.is = "end" /\ Grows(line) /\ Return /\ m # 0
  BY EndKeeps DEF End, ReadLine, Grows, Structure, OpenOK, StillReading
<1>2. DOMAIN parser' = DOMAIN parser
  <2>1. 0 \in DOMAIN parser
    BY DEF Structure, SongsOK
  <2> QED BY <1>1, <2>1, OthersReturned
<1>3. ASSUME NEW s \in DOMAIN parser', NEW song, song = parser'[s].mSong
      PROVE  SongSays(s, song)'
  <2>1. song = parser[s].mSong
    <3>1. \A x \in Fields \ {"mSubSeqMap"} : parser'[s][x] = parser[s][x]
      BY <1>1, <1>2, <1>3, OthersReturned
    <3> QED BY <1>3, <3>1 DEF Fields
  <2>2. SongSays(s, song) /\ IsSeq(song)
    BY <1>2, <1>3, <2>1, SongIsASeq DEF Songs
  <2> QED BY <1>1, <2>2, SongSaysTheSame
<1> QED BY <1>3, SongsNext

LEMMA SongsInit == Init => Songs
<1> SUFFICES ASSUME Init, NEW s \in DOMAIN parser, NEW song, song = parser[s].mSong
             PROVE  SongSays(s, song)
  BY DEF Songs
<1>1. parser[s] = Fresh /\ Len(text) = 0 /\ TextOK
  BY OneEvent, StructureInit DEF Init, Structure
<1>2. song = <<>> /\ Len(song) = 0
  BY <1>1 DEF Fresh
<1>3. DOMAIN text = 1 .. 0
  BY <1>1 DEF TextOK, IsSeq
<1>4. SongLines(s) = {}
  BY <1>3 DEF SongLines
<1> QED BY <1>2, <1>4, FS_EmptySet DEF SongSays

LEMMA SongsOfStep ==
  ASSUME BarsAreBare, Structure, Knowledge, Songs, [Next]_vars
  PROVE  Songs'
<1>1. \A line \in NextLines : IsLine(line) /\ BareLine(line)
  BY NextLinesAre, NextLinesAreBare DEF Structure
<1>2. CASE \E line \in NextLines : KeepNothing(line) \/ Store(line)
  BY <1>1, <1>2, SongsKept
<1>3. CASE \E line \in NextLines : Abort(line)
  BY <1>3, SongsStay DEF Abort
<1>4. CASE \E line \in NextLines : Define(line)
  BY <1>1, <1>4, SongsBegin
<1>5. CASE \E line \in NextLines : End(line)
  BY <1>1, <1>5, SongsEnd
<1>6. CASE EndOfInput
  <2> SUFFICES ASSUME NEW m, m = Len(open) PROVE Songs'
    OBVIOUS
  <2>1. text' = text /\ Return /\ m # 0
    BY <1>6 DEF EndOfInput, Structure, OpenOK
  <2>2. 0 \in DOMAIN parser
    BY DEF Structure, SongsOK
  <2>3. /\ DOMAIN parser' = DOMAIN parser
        /\ \A s \in DOMAIN parser : \A x \in Fields \ {"mSubSeqMap"} :
             parser'[s][x] = parser[s][x]
    BY <2>1, <2>2, OthersReturned
  <2>4. \A s \in DOMAIN parser : parser'[s].mSong = parser[s].mSong
    BY <2>3 DEF Fields
  <2> QED BY <2>1, <2>3, <2>4, SongsStay
<1>7. CASE Over \/ UNCHANGED vars
  BY <1>7, SongsStay DEF Over, vars
<1> QED BY <1>2, <1>3, <1>4, <1>5, <1>6, <1>7 DEF Next

(* The invariant of the songs, of an input whose bars have no comments. *)
LEMMA SongsAlways ==
  ASSUME BarsAreBare
  PROVE  Spec => [](Structure /\ Knowledge /\ Songs)
<1>1. Init => Knowledge
  BY KnowledgeInit
<1>2. Structure /\ Knowledge /\ [Next]_vars => Knowledge'
  BY KnowledgeNext
<1>3. Structure /\ Knowledge /\ Songs /\ [Next]_vars => Songs'
  BY SongsOfStep
<1> QED BY <1>1, <1>2, <1>3, SongsInit, StructureAlways, PTL DEF Spec

(* The events of a line that is in the song. *)
LEMMA EventsAre ==
  ASSUME Structure, Songs, NEW s \in DOMAIN parser, NEW k \in SongLines(s)
  PROVE  /\ LineSays(s, k, text[k], EventsOf(s, k)) /\ IsSeq(EventsOf(s, k))
         /\ Rank(SongLines(s), k) \in 1 .. Len(parser[s].mSong)
<1> DEFINE A == SongLines(s)
           song == parser[s].mSong
           i == Rank(A, k)
<1>1. Len(song) = Cardinality(A) /\ LineSays(s, k, text[k], song[i])
  BY DEF Songs, SongSays
<1>2. EventsOf(s, k) = song[i]
  BY DEF EventsOf, Rank
<1>3. SongOK(song, Playable(s))
  BY DEF Structure, SongsOK
<1>4. \E n : Extends(A, A, n, FALSE)
  <2>1. Len(text) \in Nat /\ DOMAIN text = 1 .. Len(text)
    BY DEF Structure, TextOK, IsSeq
  <2>2. A \subseteq 1 .. Len(text)
    BY <2>1 DEF SongLines
  <2> HIDE DEF A
  <2> QED BY <2>1, <2>2 DEF Extends
<1> HIDE DEF A
<1>5. i \in 1 .. Cardinality(A)
  <2>1. PICK n : Extends(A, A, n, FALSE)
    BY <1>4
  <2> QED BY <2>1, RankNext DEF A
<1>6. IsSeq(song[i])
  BY <1>1, <1>3, <1>5 DEF SongOK
<1> QED BY <1>1, <1>2, <1>5, <1>6 DEF A
-----------------------------------------------------------------------------
(* What the songs say. *)

(* The words of a line of words. *)
LEMMA WordsOf ==
  ASSUME Structure, NEW k \in DOMAIN text, text[k].is = "words"
  PROVE  /\ Len(Words(text[k])) \in Nat
         /\ DOMAIN Words(text[k]) = 1 .. Len(Words(text[k]))
<1>1. IsLine(text[k])
  BY DEF Structure, TextOK, IsSeq
<1>2. IsSeq(text[k].words)
  BY <1>1, LineParts, SeqIsSeq DEF IsWords
<1>3. IsSeq(Words(text[k]))
  BY <1>2, WordsBeforeComment DEF WordsAre
<1> QED BY <1>3, IsSeqIn DEF IsSeq

(* The event of a word says what the text says. *)
LEMMA PlacesSay ==
  ASSUME Structure, Songs, NEW s \in DOMAIN parser, NEW p \in Places(s)
  PROVE  WordSays(s, p[1], WordAt(p), ColumnAt(p), EventAt(s, p))
<1>1. PICK k \in SongLines(s) : text[k].is = "words" /\ p \in {k} \X DOMAIN Words(text[k])
  BY DEF Places
<1>2. p[1] = k /\ p[2] \in DOMAIN Words(text[k])
  BY <1>1
<1>3. k \in DOMAIN text
  BY DEF SongLines
<1>4. p[2] \in 1 .. Len(Words(text[k]))
  BY <1>1, <1>2, <1>3, WordsOf
<1>5. LineSays(s, k, text[k], EventsOf(s, k))
  BY EventsAre
<1> QED BY <1>1, <1>2, <1>4, <1>5 DEF LineSays, WordAt, ColumnAt, EventAt

(* THEOREM: every line lands in the song of the definition it stands in,   *)
(* in order, with one event for each word before the comment, each in the  *)
(* column that the groups give it; an unreadable line leaves no events.    *)
(* It is so for every input whose bars have no comments behind them.       *)
THEOREM LinesLand ==
  ASSUME BarsAreBare
  PROVE  Spec => []SongsAsWritten
<1>1. Structure /\ Songs => SongsAsWritten
  <2> SUFFICES ASSUME Structure, Songs, NEW s \in DOMAIN parser
               PROVE  /\ Len(parser[s].mSong) = Cardinality(SongLines(s))
                      /\ \A k \in SongLines(s) :
                           LET events == EventsOf(s, k)
                               words == Words(text[k])
                           IN  IF text[k].is # "words"
                               THEN Len(events) = 1 /\ events[1].kind = text[k].is
                               ELSE /\ Len(events) = Len(words)
                                    /\ \A i \in DOMAIN events :
                                         \/ Kind(s, k, words[i]) = "default"
                                         \/ events[i] = NoEvent /\ Kind(s, k, words[i]) = "last"
                                         \/ events[i].column = ColumnOf(words, i)
    BY DEF SongsAsWritten
  <2>1. Len(parser[s].mSong) = Cardinality(SongLines(s))
    BY DEF Songs, SongSays
  <2>2. ASSUME NEW k \in SongLines(s), NEW events, events = EventsOf(s, k),
               NEW words, words = Words(text[k])
        PROVE  IF text[k].is # "words" THEN Len(events) = 1 /\ events[1].kind = text[k].is
               ELSE /\ Len(events) = Len(words)
                    /\ \A i \in DOMAIN events :
                         \/ Kind(s, k, words[i]) = "default"
                         \/ events[i] = NoEvent /\ Kind(s, k, words[i]) = "last"
                         \/ events[i].column = ColumnOf(words, i)
    <3>1. LineSays(s, k, text[k], events) /\ IsSeq(events)
      BY <2>2, EventsAre
    <3>2. DOMAIN events = 1 .. Len(events)
      BY <3>1, IsSeqIn
    <3> QED BY <2>2, <3>1, <3>2 DEF LineSays, WordSays
  <2> QED BY <2>1, <2>2
<1> QED BY <1>1, SongsAlways, PTL

(* THEOREM: the modifiers are static: a note has the pitch and the volume  *)
(* that the lines above it in its own definition give it, whatever is read *)
(* later or inside of other definitions.  It is so for every input whose   *)
(* bars have no comments behind them.                                      *)
THEOREM NotesAsModified ==
  ASSUME BarsAreBare
  PROVE  Spec => []ModifiersAreStatic
<1>1. Structure /\ Songs => ModifiersAreStatic
  <2> SUFFICES ASSUME Structure, Songs, NEW s \in DOMAIN parser, NEW p \in Places(s)
               PROVE  LET k == p[1]
                          w == Spelled(s, k, WordAt(p))
                          sign == IF w.natural THEN 0 ELSE SignAt(s, k, Pitch(w) % 12)
                      IN  /\ KindAt(s, p) = "note" =>
                               /\ EventAt(s, p).pitch
                                    = (Pitch(w) + sign + LastAbove(s, k, "transpose", 0)) % Word
                               /\ EventAt(s, p).volume = Volume(s, k, w)
                          /\ KindAt(s, p) = "default" => EventAt(s, p).pitch = DefaultPitch(s, k)
    BY DEF ModifiersAreStatic
  <2>1. WordSays(s, p[1], WordAt(p), ColumnAt(p), EventAt(s, p))
    BY PlacesSay
  <2> QED BY <2>1 DEF WordSays, KindAt
<1> QED BY <1>1, SongsAlways, PTL

(* THEOREM: a subpattern is played as it was defined last above the line,  *)
(* in the same definition; defining it again changes nothing that was      *)
(* read.  It is so for every input whose bars have no comments behind them.*)
THEOREM SubpatternsAsDefined ==
  ASSUME BarsAreBare
  PROVE  Spec => []SubpatternsAreBound
<1>1. Structure /\ Songs => SubpatternsAreBound
  <2> SUFFICES ASSUME Structure, Songs, NEW s \in DOMAIN parser, NEW p \in Places(s),
                      KindAt(s, p) = "play"
               PROVE  EventAt(s, p).sub = Max(Definitions(s, p[1], WordAt(p).base))
    BY DEF SubpatternsAreBound
  <2>1. WordSays(s, p[1], WordAt(p), ColumnAt(p), EventAt(s, p))
    BY PlacesSay
  <2> QED BY <2>1 DEF WordSays, KindAt
<1> QED BY <1>1, SongsAlways, PTL
-----------------------------------------------------------------------------
(* The notes that "|" and "^" go on with. *)

(* The notes and subpatterns of column c among the first i words of a line *)
(* of words that stands as line k in s.                                    *)
NotesIn(s, k, line, c, i) ==
  {j \in 1 .. i : /\ Kind(s, k, Words(line)[j]) \in {"note", "play"}
                  /\ ColumnOf(Words(line), j) = c}

(* The last of them, or else the last of the lines above. *)
LastWithin(s, k, line, events, c, i, last) ==
  IF NotesIn(s, k, line, c, i) = {} THEN last ELSE events[Max(NotesIn(s, k, line, c, i))]

(* What a kind of word makes of the last note of its column. *)
WordContinues(kind, e, last) ==
  /\ kind = "pedal" => last # NoEvent /\ e.event = last
  /\ kind = "last" => e = last
  /\ kind \in {"note", "play"} => e # NoEvent

LineContinues(s, k, line, events, lasts) ==
  \A i \in 1 .. Len(Words(line)), c \in Columns :
    c = ColumnOf(Words(line), i) =>
      WordContinues(Kind(s, k, Words(line)[i]), events[i],
                    LastWithin(s, k, line, events, c, i - 1, lasts[c]))

LEMMA WordsContinue ==
  ASSUME Structure, StillReading, NEW n, n = Len(text), NEW s, s = Current,
         NEW q, NEW subs, IsParser(q, subs), KnownAll(q, s, n + 1),
         NEW line, IsLine(line), line.is = "words", Readable(s, n + 1, Words(line)),
         NEW r, r = ParseLine(q, line), r.stop # "assert"
  PROVE  /\ LineContinues(s, n + 1, line, r.events, q.mLastNote)
         /\ \A c \in Columns :
              r.q.mLastNote[c]
                = LastWithin(s, n + 1, line, r.events, c, Len(Words(line)), q.mLastNote[c])
<1> DEFINE words == Words(line)
           m == Len(words)
           k == n + 1
           events == r.events
<1>1. IsWords(line.words) /\ Len(line.words) <= MaxColumn + 1 /\ r = ParsePattern(q, line)
  BY LineParts, ByKind
<1>2. PICK a : ReadTo(q, words, a, m) /\ Stopped(line, a, r)
  BY <1>1, PatternReads
<1>3. /\ m \in Nat /\ m <= MaxColumn + 1
      /\ \A i \in 1 .. m : IsWord(words[i]) /\ words[i].is # "comment"
      /\ DOMAIN words = 1 .. m
  <2>1. IsSeq(line.words) /\ \A i \in 1 .. Len(line.words) : IsWord(line.words[i])
    BY <1>1, SeqIsSeq DEF IsWords
  <2>2. WordsAre(line, words)
    BY <2>1, WordsBeforeComment
  <2>3. Len(line.words) \in Nat /\ MaxColumn \in Nat
    BY <2>1, ParserAssumption DEF IsSeq
  <2> HIDE DEF words
  <2>4. DOMAIN words = 1 .. m
    BY <2>2, IsSeqIn DEF WordsAre
  <2> QED BY <1>1, <2>1, <2>2, <2>3, <2>4 DEF WordsAre
<1>4. Readable(s, k, words)
  OBVIOUS
<1> HIDE DEF words, m, events
<1>5. ASSUME NEW i \in 1 .. m
      PROVE  Kind(s, k, words[i]) = KindFor(q, words[i]) /\ KindFor(q, words[i]) # "bad"
  <2>1. Kind(s, k, words[i]) \notin {"bad", "comment"}
    BY <1>3, <1>4, <1>5 DEF Readable
  <2> DEFINE w == words[i]
  <2>2. IsWord(w) /\ w.is # "comment" /\ Kind(s, k, w) \notin {"bad", "comment"}
    BY <1>3, <1>5, <2>1
  <2> HIDE DEF w
  <2>3. Kind(s, k, w) = KindFor(q, w) /\ KindFor(q, w) # "bad"
    BY <2>2, KindIsKnown
  <2> QED BY <2>3 DEF w
<1>6. /\ \A i \in 1 .. m : events[i] = MadeOf(q, words, events, i) /\ HasLast(q, words, events, i)
      /\ \A c \in Columns : r.q.mLastNote[c] = LastIn(q, words, events, m, c)
  <2>1. a.stop = "no"
    BY <1>2, <1>5 DEF ReadTo, Stopped
  <2> QED BY <1>2, <2>1 DEF ReadTo, Stopped, events
<1>7. ASSUME NEW i \in 0 .. m, NEW c
      PROVE  LastWithin(s, k, line, events, c, i, q.mLastNote[c]) = LastIn(q, words, events, i, c)
  <2>1. \A j \in 1 .. i : j \in 1 .. m
    BY <1>3
  <2>2. NotesIn(s, k, line, c, i) = NewIn(q, words, i, c)
    BY <1>5, <2>1 DEF NotesIn, NewIn, words
  <2> QED BY <2>2 DEF LastWithin, LastIn
<1>8. ASSUME NEW i \in 1 .. m, NEW c \in Columns, c = ColumnOf(words, i)
      PROVE  WordContinues(Kind(s, k, words[i]), events[i],
                           LastWithin(s, k, line, events, c, i - 1, q.mLastNote[c]))
  <2> DEFINE w == words[i]
             e == events[i]
             last == LastIn(q, words, events, i - 1, c)
  <2>1. i - 1 \in 0 .. m
    BY <1>3
  <2>2. LastWithin(s, k, line, events, c, i - 1, q.mLastNote[c]) = last
    BY <1>7, <2>1
  <2>3. e = EventFor(q, w, c, last) /\ (KindFor(q, w) = "pedal" => last # NoEvent)
    BY <1>6, <1>8 DEF MadeOf, HasLast
  <2>4. last = NoEvent \/ last.column = c
    <3>1. \A j \in 1 .. m : /\ IsWord(words[j]) /\ words[j].is # "comment"
                            /\ KindFor(q, words[j]) # "bad"
                            /\ events[j] = MadeOf(q, words, events, j)
      BY <1>3, <1>5, <1>6
    <3> QED BY <1>3, <2>1, <3>1, LastInColumn
  <2>5. IsWord(w) /\ w.is # "comment" /\ KindFor(q, w) # "bad" /\ Kind(s, k, w) = KindFor(q, w)
    BY <1>3, <1>5
  <2> HIDE DEF w, e, last
  <2>6. WordContinues(KindFor(q, w), e, last)
    BY <2>3, <2>4, <2>5, MadeIs DEF WordContinues
  <2> QED BY <2>2, <2>5, <2>6 DEF w, e
<1>9. LineContinues(s, k, line, events, q.mLastNote)
  BY <1>8 DEF LineContinues, words, m
<1>10. \A c \in Columns :
         r.q.mLastNote[c] = LastWithin(s, k, line, events, c, m, q.mLastNote[c])
  <2>1. m \in 0 .. m
    BY <1>3
  <2> QED BY <1>6, <1>7, <2>1
<1> QED BY <1>9, <1>10 DEF words, m, events

(* The events of line k in a song of s. *)
LineIn(s, k, song) == song[Rank(SongLines(s), k)]

(* One more line of the text, and of the song of s if it is here. *)
SongGrows(s, n, line, song, events, new) ==
  /\ IsSeq(song) /\ Len(song) = Cardinality(SongLines(s))
  /\ s = Current /\ IsSongLine(s, n + 1, line) => new = Append(song, events)
  /\ ~(s = Current /\ IsSongLine(s, n + 1, line)) => new = song

LEMMA LineInNext ==
  ASSUME Structure, StillReading, NEW line, Grows(line), NEW n, n = Len(text),
         NEW s, NEW song, NEW events, NEW new, SongGrows(s, n, line, song, events, new)
  PROVE  /\ \A k \in SongLines(s) : LineIn(s, k, new)' = LineIn(s, k, song)
         /\ s = Current /\ IsSongLine(s, n + 1, line) => LineIn(s, n + 1, new)' = events
<1> DEFINE A == SongLines(s)
           B == SongLines(s)'
           here == s = Current /\ IsSongLine(s, n + 1, line)
<1>1. Extends(A, B, n, here)
  BY SongLinesNext
<1>2. /\ IsSeq(song) /\ Len(song) = Cardinality(A)
      /\ here => new = Append(song, events)
      /\ ~here => new = song
  BY DEF SongGrows
<1>3. /\ \A k : LineIn(s, k, new)' = new[Rank(B, k)]
      /\ \A k : LineIn(s, k, song) = song[Rank(A, k)]
  BY DEF LineIn, Rank
<1> HIDE DEF A, B, here
<1>4. /\ \A k \in A : Rank(A, k) \in 1 .. Cardinality(A) /\ Rank(B, k) = Rank(A, k)
      /\ here => Rank(B, n + 1) = Cardinality(A) + 1
  BY <1>1, RankNext
<1>5. /\ \A i \in 1 .. Len(song) : new[i] = song[i]
      /\ here => new[Len(song) + 1] = events
  BY <1>2, Appended
<1>6. /\ \A k \in A : new[Rank(B, k)] = song[Rank(A, k)]
      /\ here => new[Rank(B, n + 1)] = events
  BY <1>2, <1>4, <1>5
<1> QED BY <1>3, <1>6 DEF A, here

(* What the text says of the notes of a line stays. *)
LEMMA ContinuingStays ==
  ASSUME TextOK, NEW line, Grows(line), NEW n, n = Len(text), NEW k \in 1 .. n + 1, NEW s, NEW l
  PROVE  /\ \A c, i : NotesIn(s, k, l, c, i)' = NotesIn(s, k, l, c, i)
         /\ \A events, c, i, last :
              LastWithin(s, k, l, events, c, i, last)' = LastWithin(s, k, l, events, c, i, last)
         /\ \A events, lasts :
              LineContinues(s, k, l, events, lasts)' <=> LineContinues(s, k, l, events, lasts)
         /\ \A words : Readable(s, k, words)' <=> Readable(s, k, words)
<1>1. \A w : Kind(s, k, w)' = Kind(s, k, w)
  BY KindStays
<1>2. \A c, i : NotesIn(s, k, l, c, i)' = NotesIn(s, k, l, c, i)
  BY <1>1 DEF NotesIn
<1>3. \A events, c, i, last :
        LastWithin(s, k, l, events, c, i, last)' = LastWithin(s, k, l, events, c, i, last)
  BY <1>2 DEF LastWithin
<1>4. \A events, lasts :
        LineContinues(s, k, l, events, lasts)' <=> LineContinues(s, k, l, events, lasts)
  BY <1>1, <1>3 DEF LineContinues
<1>5. \A words : Readable(s, k, words)' <=> Readable(s, k, words)
  BY <1>1 DEF Readable
<1> QED BY <1>2, <1>3, <1>4, <1>5

(* The lines of the song of s with a note in column c. *)
NotedIn(s, k, line, c) ==
  line.is = "words" /\ NotesIn(s, k, line, c, Len(Words(line))) # {}

Noting(s, c) == {k \in SongLines(s) : NotedIn(s, k, text[k], c)}

LEMMA NotingNext ==
  ASSUME Structure, StillReading, NEW line, Grows(line), NEW n, n = Len(text), NEW s, NEW c
  PROVE  Extends(Noting(s, c), Noting(s, c)', n,
                 s = Current /\ IsSongLine(s, n + 1, line) /\ NotedIn(s, n + 1, line, c))
<1> DEFINE here == s = Current /\ IsSongLine(s, n + 1, line)
           A == SongLines(s)
           B == SongLines(s)'
           C == Noting(s, c)
           D == Noting(s, c)'
           noted == here /\ NotedIn(s, n + 1, line, c)
<1>1. Extends(A, B, n, here)
  BY SongLinesNext
<1>2. /\ TextOK /\ n \in Nat /\ (\A k \in 1 .. n : text'[k] = text[k]) /\ text'[n + 1] = line
  BY GrownText DEF Structure
<1>3. \A k \in 1 .. n + 1 : \A l : NotedIn(s, k, l, c)' <=> NotedIn(s, k, l, c)
  BY <1>2, ContinuingStays DEF NotedIn
<1>4. /\ C = {k \in A : NotedIn(s, k, text[k], c)}
      /\ \A k : k \in D <=> k \in B /\ \A l : l = text'[k] => NotedIn(s, k, l, c)'
  BY DEF Noting, NotedIn, NotesIn
<1> HIDE DEF A, B, C, D, here
<1>5. ASSUME NEW k PROVE k \in D <=> k \in C \/ (k = n + 1 /\ noted)
  <2>1. A \subseteq 1 .. n /\ (k \in B <=> k \in A \/ (k = n + 1 /\ here))
    BY <1>1 DEF Extends
  <2>2. CASE k \in A
    <3>1. k \in 1 .. n /\ k \in 1 .. n + 1 /\ k # n + 1
      BY <1>2, <2>1, <2>2
    <3>2. k \in D <=> \A l : l = text'[k] => NotedIn(s, k, l, c)'
      BY <1>4, <2>1, <2>2
    <3>3. k \in D <=> NotedIn(s, k, text[k], c)
      BY <1>2, <1>3, <3>1, <3>2
    <3> QED BY <1>4, <2>2, <3>1, <3>3
  <2>3. CASE k \notin A /\ k = n + 1
    <3>1. k \in 1 .. n + 1
      BY <1>2, <2>3
    <3>2. k \in D <=> here /\ \A l : l = text'[k] => NotedIn(s, k, l, c)'
      BY <1>4, <2>1, <2>3
    <3>3. k \in D <=> here /\ NotedIn(s, n + 1, line, c)
      BY <1>2, <1>3, <2>3, <3>1, <3>2
    <3> QED BY <1>4, <2>3, <3>3
  <2>4. CASE k \notin A /\ k # n + 1
    BY <1>4, <2>1, <2>4
  <2> QED BY <2>2, <2>3, <2>4
<1>6. C \subseteq 1 .. n /\ n \in Nat
  BY <1>1, <1>4 DEF Extends
<1> HIDE DEF noted
<1>7. Extends(C, D, n, noted)
  BY <1>5, <1>6 DEF Extends
<1> QED BY <1>7 DEF C, D, noted, here

(* The last note of column c above line k of s. *)
NotingAbove(s, k, c) == {j \in Noting(s, c) : j < k}

NoteIn(s, j, c, song) ==
  LastWithin(s, j, text[j], LineIn(s, j, song), c, Len(Words(text[j])), NoEvent)

LastOf(s, k, c, song) ==
  IF NotingAbove(s, k, c) = {} THEN NoEvent ELSE NoteIn(s, Max(NotingAbove(s, k, c)), c, song)

(* It stays when there are more lines, and the new line may have the last. *)
LEMMA LastOfNext ==
  ASSUME Structure, StillReading, NEW line, Grows(line), NEW n, n = Len(text),
         NEW s, NEW song, NEW events, NEW new, SongGrows(s, n, line, song, events, new), NEW c
  PROVE  /\ \A k \in 1 .. n + 1 : LastOf(s, k, c, new)' = LastOf(s, k, c, song)
         /\ LastOf(s, n + 2, c, new)'
              = IF s = Current /\ IsSongLine(s, n + 1, line) /\ NotedIn(s, n + 1, line, c)
                THEN LastWithin(s, n + 1, line, events, c, Len(Words(line)), NoEvent)
                ELSE LastOf(s, n + 1, c, song)
<1> DEFINE A == Noting(s, c)
           B == Noting(s, c)'
           here == s = Current /\ IsSongLine(s, n + 1, line) /\ NotedIn(s, n + 1, line, c)
<1>1. Extends(A, B, n, here)
  BY NotingNext
<1>2. /\ TextOK /\ n \in Nat /\ (\A k \in 1 .. n : text'[k] = text[k]) /\ text'[n + 1] = line
      /\ n + 1 \in 1 .. n + 1
  <2>1. /\ TextOK /\ n \in Nat /\ (\A k \in 1 .. n : text'[k] = text[k]) /\ text'[n + 1] = line
    BY GrownText DEF Structure
  <2> QED BY <2>1
<1>3. /\ A \subseteq SongLines(s)
      /\ \A k \in SongLines(s) : LineIn(s, k, new)' = LineIn(s, k, song)
      /\ here => LineIn(s, n + 1, new)' = events
  BY LineInNext DEF Noting
<1>4. ASSUME NEW j \in 1 .. n + 1, NEW l, l = text'[j], NEW ev, ev = LineIn(s, j, new)'
      PROVE  NoteIn(s, j, c, new)' = LastWithin(s, j, l, ev, c, Len(Words(l)), NoEvent)
  <2>1. NoteIn(s, j, c, new)' = LastWithin(s, j, l, ev, c, Len(Words(l)), NoEvent)'
    BY <1>4 DEF NoteIn, LastWithin, NotesIn
  <2> QED BY <1>2, <2>1, ContinuingStays
<1>5. ASSUME NEW k
      PROVE  /\ NotingAbove(s, k, c) = {j \in A : j < k}
             /\ NotingAbove(s, k, c)' = {j \in B : j < k}
             /\ \A j : j = Max(NotingAbove(s, k, c)') =>
                  LastOf(s, k, c, new)'
                    = IF NotingAbove(s, k, c)' = {} THEN NoEvent ELSE NoteIn(s, j, c, new)'
  BY DEF NotingAbove, LastOf
<1> HIDE DEF A, B, here
<1>6. A \subseteq 1 .. n /\ B = IF here THEN A \cup {n + 1} ELSE A
  BY <1>1 DEF Extends
<1>7. ASSUME NEW j \in A PROVE NoteIn(s, j, c, new)' = NoteIn(s, j, c, song)
  <2>1. j \in 1 .. n + 1 /\ j \in 1 .. n /\ j \in SongLines(s)
    BY <1>2, <1>3, <1>6
  <2>2. text'[j] = text[j] /\ LineIn(s, j, new)' = LineIn(s, j, song)
    BY <1>2, <1>3, <2>1
  <2> QED BY <1>4, <2>1, <2>2 DEF NoteIn
<1>8. ASSUME NEW k, NEW C, C = NotingAbove(s, k, c), C = NotingAbove(s, k, c)'
      PROVE  LastOf(s, k, c, new)' = LastOf(s, k, c, song)
  <2>1. C # {} => Max(C) \in C
    <3>1. \A j \in A : j \in 0 .. n
      BY <1>2, <1>6
    <3>2. C \subseteq 0 .. n
      BY <1>5, <1>8, <3>1
    <3> QED BY <1>2, <3>2, MaxOf
  <2>2. C # {} => NoteIn(s, Max(C), c, new)' = NoteIn(s, Max(C), c, song)
    BY <1>5, <1>7, <1>8, <2>1
  <2> QED BY <1>5, <1>8, <2>2 DEF LastOf
<1>9. ASSUME NEW k \in 1 .. n + 1 PROVE LastOf(s, k, c, new)' = LastOf(s, k, c, song)
  <2>1. {j \in B : j < k} = {j \in A : j < k}
    BY <1>2, <1>6
  <2> QED BY <1>5, <1>8, <2>1
<1>10. CASE here
  <2>1. NotingAbove(s, n + 2, c)' = B
    <3>1. \A j \in B : j < n + 2
      BY <1>2, <1>6
    <3> QED BY <1>5, <3>1
  <2>2. B # {} /\ Max(B) = n + 1
    BY <1>1, <1>10, MaxNext
  <2>3. LastOf(s, n + 2, c, new)' = NoteIn(s, n + 1, c, new)'
    BY <1>5, <2>1, <2>2
  <2>4. NoteIn(s, n + 1, c, new)'
          = LastWithin(s, n + 1, line, events, c, Len(Words(line)), NoEvent)
    BY <1>2, <1>3, <1>4, <1>10
  <2> QED BY <1>9, <1>10, <2>3, <2>4 DEF here
<1>11. CASE ~here
  <2>1. B = A /\ {j \in A : j < n + 1} = A /\ {j \in A : j < n + 2} = A
    <3>1. \A j \in A : j < n + 1 /\ j < n + 2
      BY <1>2, <1>6
    <3> QED BY <1>6, <1>11, <3>1
  <2>2. NotingAbove(s, n + 2, c)' = A /\ NotingAbove(s, n + 1, c) = A
    BY <1>5, <2>1
  <2>3. LastOf(s, n + 2, c, new)' = LastOf(s, n + 1, c, song)
    <3> SUFFICES ASSUME NEW j, j = Max(A) PROVE LastOf(s, n + 2, c, new)' = LastOf(s, n + 1, c, song)
      OBVIOUS
    <3>1. A # {} => j \in A
      BY <1>1, MaxNext
    <3>2. A # {} => NoteIn(s, j, c, new)' = NoteIn(s, j, c, song)
      BY <1>7, <3>1
    <3>3. LastOf(s, n + 1, c, song) = IF A = {} THEN NoEvent ELSE NoteIn(s, j, c, song)
      BY <2>2 DEF LastOf
    <3>4. LastOf(s, n + 2, c, new)' = IF A = {} THEN NoEvent ELSE NoteIn(s, j, c, new)'
      BY <1>5, <2>2
    <3> QED BY <3>2, <3>3, <3>4
  <2> QED BY <1>9, <1>11, <2>3 DEF here
<1> QED BY <1>10, <1>11

(* All lines of words in s can be read. *)
AllRead(s) ==
  \A k \in LinesOf("words") : Owner(k) = s => Readable(s, k, Words(text[k]))

LEMMA AllReadNext ==
  ASSUME Structure, StillReading, NEW line, Grows(line), NEW n, n = Len(text),
         NEW s, AllRead(s)'
  PROVE  /\ AllRead(s)
         /\ s = Current /\ line.is = "words" => Readable(s, n + 1, Words(line))
<1>1. /\ TextOK /\ n \in Nat /\ (\A k \in 1 .. n : text'[k] = text[k]) /\ text'[n + 1] = line
      /\ LinesOf("words") \subseteq 1 .. n
      /\ LinesOf("words")' = LinesOf("words") \cup (IF line.is = "words" THEN {n + 1} ELSE {})
  BY Grown DEF Structure
<1>2. \A k \in 1 .. n : k \in 1 .. n + 1
  BY <1>1
<1>3. n + 1 \in 1 .. n + 1
  BY <1>1
<1>4. /\ \A k \in 1 .. n + 1 : Owner(k)' = Owner(k)
      /\ Owner(n + 1) = Current
  BY <1>1, OwnerStable, Innermost
<1>5. \A k \in LinesOf("words")' : \A l : l = text'[k] /\ Owner(k)' = s => Readable(s, k, Words(l))'
  BY DEF AllRead, Readable
<1>6. \A k \in 1 .. n + 1 : \A words : Readable(s, k, words)' <=> Readable(s, k, words)
  BY <1>1, ContinuingStays
<1>7. ASSUME NEW k \in LinesOf("words"), Owner(k) = s PROVE Readable(s, k, Words(text[k]))
  <2>1. k \in LinesOf("words")' /\ k \in 1 .. n /\ k \in 1 .. n + 1
    BY <1>1, <1>2
  <2> QED BY <1>1, <1>4, <1>5, <1>6, <1>7, <2>1
<1>8. ASSUME s = Current, line.is = "words" PROVE Readable(s, n + 1, Words(line))
  <2>1. n + 1 \in LinesOf("words")'
    BY <1>1, <1>8
  <2> QED BY <1>1, <1>3, <1>4, <1>5, <1>6, <1>8, <2>1
<1> QED BY <1>7, <1>8 DEF AllRead

(* The notes of s go on as they should, and lasts are those to go on with. *)
Continued(s, lasts, song) ==
  AllRead(s) =>
    /\ \A n : \A c \in Columns : n = Len(text) => lasts[c] = LastOf(s, n + 1, c, song)
    /\ \A k \in SongLines(s) : \A f :
         text[k].is = "words" /\ (\A c \in Columns : f[c] = LastOf(s, k, c, song)) =>
           LineContinues(s, k, text[k], LineIn(s, k, song), f)

(* What a line of words makes of the last notes. *)
NewLasts(s, k, line, events, lasts, new) ==
  /\ line.is # "words" \/ s # Current => new = lasts
  /\ s = Current /\ line.is = "words" /\ Readable(s, k, Words(line)) =>
       /\ LineContinues(s, k, line, events, lasts)
       /\ \A c \in Columns :
            new[c] = LastWithin(s, k, line, events, c, Len(Words(line)), lasts[c])

LEMMA ContinuedNext ==
  ASSUME Structure, StillReading, NEW line, Grows(line), NEW n, n = Len(text),
         NEW s, NEW song, NEW events, NEW new, SongGrows(s, n, line, song, events, new),
         NEW lasts, NEW now, Continued(s, lasts, song), NewLasts(s, n + 1, line, events, lasts, now)
  PROVE  Continued(s, now, new)'
<1> SUFFICES ASSUME AllRead(s)'
             PROVE  /\ \A m : \A c \in Columns : m = Len(text') => now[c] = LastOf(s, m + 1, c, new)'
                    /\ \A k \in SongLines(s)' : \A f, l, e :
                         /\ l = text'[k] /\ e = LineIn(s, k, new)' /\ l.is = "words"
                         /\ \A c \in Columns : f[c] = LastOf(s, k, c, new)'
                         => LineContinues(s, k, l, e, f)'
  BY SMTT(60) DEF Continued, LineContinues, LastWithin, NotesIn
<1> DEFINE here == s = Current /\ IsSongLine(s, n + 1, line)
<1>1. /\ TextOK /\ n \in Nat /\ (\A k \in 1 .. n : text'[k] = text[k]) /\ text'[n + 1] = line
      /\ Len(text') = n + 1
  BY GrownText DEF Structure
<1>2. /\ AllRead(s)
      /\ s = Current /\ line.is = "words" => Readable(s, n + 1, Words(line))
  BY AllReadNext
<1>3. /\ \A c \in Columns : lasts[c] = LastOf(s, n + 1, c, song)
      /\ \A k \in SongLines(s) : \A f :
           text[k].is = "words" /\ (\A c \in Columns : f[c] = LastOf(s, k, c, song)) =>
             LineContinues(s, k, text[k], LineIn(s, k, song), f)
  BY <1>2 DEF Continued
<1>4. \A c : /\ \A k \in 1 .. n + 1 : LastOf(s, k, c, new)' = LastOf(s, k, c, song)
             /\ LastOf(s, n + 2, c, new)'
                  = IF here /\ NotedIn(s, n + 1, line, c)
                    THEN LastWithin(s, n + 1, line, events, c, Len(Words(line)), NoEvent)
                    ELSE LastOf(s, n + 1, c, song)
  BY LastOfNext
<1>5. /\ \A k \in SongLines(s) : LineIn(s, k, new)' = LineIn(s, k, song)
      /\ here => LineIn(s, n + 1, new)' = events
      /\ Extends(SongLines(s), SongLines(s)', n, here)
  BY LineInNext, SongLinesNext
<1>6. ASSUME NEW c \in Columns PROVE now[c] = LastOf(s, n + 2, c, new)'
  <2>1. CASE s = Current /\ line.is = "words"
    <3>1. now[c] = LastWithin(s, n + 1, line, events, c, Len(Words(line)), lasts[c])
      BY <1>2, <2>1 DEF NewLasts
    <3>2. CASE here /\ NotedIn(s, n + 1, line, c)
      BY <1>4, <3>1, <3>2 DEF LastWithin, NotedIn
    <3>3. CASE ~(here /\ NotedIn(s, n + 1, line, c))
      <4>1. NotesIn(s, n + 1, line, c, Len(Words(line))) = {}
        <5>1. CASE ~NotedIn(s, n + 1, line, c)
          BY <2>1, <5>1 DEF NotedIn
        <5>2. CASE ~here
          <6>1. Words(line) = <<>>
            BY <1>2, <2>1, <5>2 DEF IsSongLine
          <6>2. Len(Words(line)) = 0
            BY <6>1, OneEvent
          <6> QED BY <6>2 DEF NotesIn
        <5> QED BY <3>3, <5>1, <5>2
      <4>2. now[c] = lasts[c]
        BY <3>1, <4>1 DEF LastWithin
      <4> QED BY <1>3, <1>4, <3>3, <4>2
    <3> QED BY <3>2, <3>3
  <2>2. CASE ~(s = Current /\ line.is = "words")
    <3>1. now = lasts
      BY <2>2 DEF NewLasts
    <3>2. ~(here /\ NotedIn(s, n + 1, line, c))
      BY <2>2 DEF NotedIn
    <3> QED BY <1>3, <1>4, <3>1, <3>2
  <2> QED BY <2>1, <2>2
<1>7. ASSUME NEW k \in SongLines(s)', NEW f, NEW l, NEW e, l = text'[k], e = LineIn(s, k, new)',
             l.is = "words", \A c \in Columns : f[c] = LastOf(s, k, c, new)'
      PROVE  LineContinues(s, k, l, e, f)'
  <2>1. CASE k \in SongLines(s)
    <3>1. k \in 1 .. n /\ k \in 1 .. n + 1
      <4>1. k \in 1 .. n
        BY <1>5, <2>1 DEF Extends
      <4> QED BY <1>1, <4>1
    <3>2. /\ l = text[k] /\ e = LineIn(s, k, song)
          /\ \A c \in Columns : f[c] = LastOf(s, k, c, song)
      BY <1>1, <1>4, <1>5, <1>7, <2>1, <3>1
    <3>3. LineContinues(s, k, l, e, f)
      BY <1>3, <1>7, <2>1, <3>2
    <3> QED BY <1>1, <3>1, <3>3, ContinuingStays
  <2>2. CASE k \notin SongLines(s)
    <3>1. k = n + 1 /\ here /\ n + 1 \in 1 .. n + 1
      <4>1. k = n + 1 /\ here
        BY <1>5, <1>7, <2>2 DEF Extends
      <4> QED BY <1>1, <4>1
    <3>2. /\ l = line /\ e = events
          /\ \A c \in Columns : f[c] = lasts[c]
      BY <1>1, <1>3, <1>4, <1>5, <1>7, <3>1
    <3>3. LineContinues(s, n + 1, line, events, lasts)
      BY <1>2, <1>7, <3>1, <3>2 DEF NewLasts
    <3>4. LineContinues(s, k, l, e, f)
      BY <3>1, <3>2, <3>3 DEF LineContinues
    <3> QED BY <1>1, <3>1, <3>4, ContinuingStays
  <2> QED BY <2>1, <2>2
<1>8. ASSUME NEW m, NEW c \in Columns, m = Len(text') PROVE now[c] = LastOf(s, m + 1, c, new)'
  <2>1. m + 1 = n + 2 /\ m = n + 1
    BY <1>1, <1>8
  <2> QED BY <1>6, <2>1
<1> QED BY <1>7, <1>8

Continuing == \A s \in DOMAIN parser : Continued(s, parser[s].mLastNote, parser[s].mSong)

LEMMA ContinuingNext ==
  ASSUME \A s \in DOMAIN parser' : \A lasts, song :
           lasts = parser'[s].mLastNote /\ song = parser'[s].mSong => Continued(s, lasts, song)'
  PROVE  Continuing'
<1> SUFFICES ASSUME NEW s \in DOMAIN parser', NEW lasts, lasts = parser'[s].mLastNote,
                    NEW song, song = parser'[s].mSong
             PROVE  Continued(s, parser[s].mLastNote, parser[s].mSong)'
  BY DEF Continuing
<1>1. Continued(s, lasts, song)'
  OBVIOUS
<1> QED BY <1>1 DEF Continued, LastOf, NoteIn, LineIn, LastWithin, LineContinues

(* Steps that leave the text, the songs and their last notes. *)
LEMMA ContinuingStay ==
  ASSUME Continuing, text' = text, DOMAIN parser' = DOMAIN parser,
         \A s \in DOMAIN parser : /\ parser'[s].mSong = parser[s].mSong
                                  /\ parser'[s].mLastNote = parser[s].mLastNote
  PROVE  Continuing'
<1>1. /\ \A s : SongLines(s)' = SongLines(s)
      /\ \A s, k, w : Kind(s, k, w)' = Kind(s, k, w)
      /\ \A j : Owner(j)' = Owner(j)
  BY SaidStays
<1>2. \A s, k, l, c, i : NotesIn(s, k, l, c, i)' = NotesIn(s, k, l, c, i)
  BY <1>1 DEF NotesIn
<1>3. \A s, k, l, events, c, i, last :
        LastWithin(s, k, l, events, c, i, last)' = LastWithin(s, k, l, events, c, i, last)
  BY <1>2 DEF LastWithin
<1>4. \A s, k, l, events, lasts :
        LineContinues(s, k, l, events, lasts)' <=> LineContinues(s, k, l, events, lasts)
  BY <1>1, <1>3 DEF LineContinues
<1>5. \A s, k, song : LineIn(s, k, song)' = LineIn(s, k, song)
  BY <1>1 DEF LineIn, Rank
<1>6. \A s, k, c, song : LastOf(s, k, c, song)' = LastOf(s, k, c, song)
  <2>1. \A s, k, c : NotingAbove(s, k, c)' = NotingAbove(s, k, c)
    BY <1>1, <1>2 DEF NotingAbove, Noting, NotedIn
  <2>2. \A s, j, c, song : NoteIn(s, j, c, song)' = NoteIn(s, j, c, song)
    BY <1>3, <1>5 DEF NoteIn
  <2> QED BY <2>1, <2>2 DEF LastOf
<1>7. \A s : AllRead(s)' <=> AllRead(s)
  BY <1>1 DEF AllRead, Readable, LinesOf
<1>8. \A s, lasts, song : Continued(s, lasts, song)' <=> Continued(s, lasts, song)
  BY <1>1, <1>4, <1>5, <1>6, <1>7 DEF Continued
<1>9. ASSUME NEW s \in DOMAIN parser', NEW lasts, NEW song,
             lasts = parser'[s].mLastNote, song = parser'[s].mSong
      PROVE  Continued(s, lasts, song)'
  <2>1. Continued(s, lasts, song)
    BY <1>9 DEF Continuing
  <2> QED BY <1>8, <2>1
<1> QED BY <1>9, ContinuingNext

(* A define or an end has no notes. *)
LEMMA ContinuedTheSame ==
  ASSUME Structure, StillReading, NEW line, Grows(line), line.is \in {"define", "end"},
         NEW s, NEW lasts, NEW song, IsSeq(song), SongSays(s, song), Continued(s, lasts, song)
  PROVE  Continued(s, lasts, song)'
<1> SUFFICES ASSUME NEW n, n = Len(text) PROVE Continued(s, lasts, song)'
  OBVIOUS
<1>1. ~IsSongLine(s, n + 1, line)
  BY DEF IsSongLine
<1>2. SongGrows(s, n, line, song, song, song)
  BY <1>1 DEF SongGrows, SongSays
<1>3. NewLasts(s, n + 1, line, song, lasts, lasts)
  BY DEF NewLasts
<1> QED BY <1>2, <1>3, ContinuedNext

(* A definition has no notes to go on with when it begins. *)
LEMMA ContinuingBegin ==
  ASSUME Structure, Songs, Continuing, NEW line, IsLine(line), Define(line)
  PROVE  Continuing'
<1> SUFFICES ASSUME NEW n, n = Len(text) PROVE Continuing'
  OBVIOUS
<1>1. StillReading /\ line.is = "define"
  BY DefineKeeps
<1>2. Grows(line) /\ parser' = Put(parser, Len(text'), Fresh)
  BY DEF Define, ReadLine, Grows, FreshFor
<1>3. /\ n \in Nat /\ Len(text') = n + 1 /\ LinesOf("define") \subseteq 1 .. n
      /\ DOMAIN text = 1 .. n /\ TextOK
  BY <1>2, GrownText, LinesAre DEF Structure
<1>4. n + 1 \notin DOMAIN parser
  BY <1>3 DEF Structure, SongsOK
<1>5. /\ DOMAIN parser' = DOMAIN parser \cup {n + 1} /\ parser'[n + 1] = Fresh
      /\ \A s \in DOMAIN parser : parser'[s] = parser[s]
  BY <1>2, <1>3, <1>4 DEF Put, Overlaid
<1>6. ASSUME NEW s \in DOMAIN parser, NEW lasts, NEW song,
             lasts = parser'[s].mLastNote, song = parser'[s].mSong
      PROVE  Continued(s, lasts, song)'
  <2>1. SongSays(s, song) /\ IsSeq(song) /\ Continued(s, lasts, song)
    BY <1>5, <1>6, SongIsASeq DEF Songs, Continuing
  <2> QED BY <1>1, <1>2, <2>1, ContinuedTheSame
<1>7. ASSUME NEW s, s = n + 1, NEW lasts, NEW song, lasts = Fresh.mLastNote, song = Fresh.mSong
      PROVE  Continued(s, lasts, song)'
  <2>1. SongLines(s) = {}
    <3>1. \A j \in 1 .. n : j \in Nat \ {0} /\ j <= n
      BY <1>3
    <3>2. \A j \in 1 .. n : Owner(j) \in 0 .. j - 1
      BY <1>3, <3>1, OwnerIs
    <3>3. \A j \in 1 .. n : Owner(j) # s
      BY <1>3, <1>7, <3>1, <3>2
    <3> QED BY <1>3, <3>3 DEF SongLines
  <2>2. /\ song = <<>> /\ IsSeq(song) /\ Len(song) = 0
        /\ \A c \in Columns : lasts[c] = NoEvent
    BY <1>7 DEF Fresh, IsSeq
  <2>3. SongSays(s, song)
    BY <2>1, <2>2, FS_EmptySet DEF SongSays
  <2>4. Continued(s, lasts, song)
    BY <2>1, <2>2 DEF Continued, LastOf, NotingAbove, Noting
  <2> QED BY <1>1, <1>2, <2>2, <2>3, <2>4, ContinuedTheSame
<1>8. \A s \in DOMAIN parser' : \A lasts, song :
        lasts = parser'[s].mLastNote /\ song = parser'[s].mSong => Continued(s, lasts, song)'
  BY <1>5, <1>6, <1>7
<1> QED BY <1>8, ContinuingNext

LEMMA ContinuingEnd ==
  ASSUME Structure, Songs, Continuing, NEW line, IsLine(line), End(line)
  PROVE  Continuing'
<1> SUFFICES ASSUME NEW m, m = Len(open) PROVE Continuing'
  OBVIOUS
<1>1. StillReading /\ line.is = "end" /\ Grows(line) /\ Return /\ m # 0
  BY EndKeeps DEF End, ReadLine, Grows, Structure, OpenOK, StillReading
<1>2. DOMAIN parser' = DOMAIN parser
  <2>1. 0 \in DOMAIN parser
    BY DEF Structure, SongsOK
  <2> QED BY <1>1, <2>1, OthersReturned
<1>3. ASSUME NEW s \in DOMAIN parser', NEW lasts, NEW song,
             lasts = parser'[s].mLastNote, song = parser'[s].mSong
      PROVE  Continued(s, lasts, song)'
  <2>1. song = parser[s].mSong /\ lasts = parser[s].mLastNote
    <3>1. \A x \in Fields \ {"mSubSeqMap"} : parser'[s][x] = parser[s][x]
      BY <1>1, <1>2, <1>3, OthersReturned
    <3> QED BY <1>3, <3>1 DEF Fields
  <2>2. SongSays(s, song) /\ Continued(s, lasts, song)
    BY <1>2, <1>3, <2>1 DEF Songs, Continuing
  <2>3. IsSeq(song)
    BY <1>2, <1>3, <2>1, SongIsASeq
  <2> QED BY <1>1, <2>2, <2>3, ContinuedTheSame
<1> QED BY <1>3, ContinuingNext

(* Any other line: what the notes of the line go on with, and the last     *)
(* notes of its columns.                                                   *)
LEMMA ContinuingKept ==
  ASSUME Structure, Knowledge, Songs, Continuing, NEW line, IsLine(line), BareLine(line),
         KeepNothing(line) \/ Store(line)
  PROVE  Continuing'
<1> SUFFICES ASSUME NEW n, n = Len(text), NEW c, c = Current, NEW q, q = parser[c],
                    NEW r, r = ParseLine(q, line)
             PROVE  Continuing'
  OBVIOUS
<1>1. /\ StillReading /\ Grows(line) /\ c \in DOMAIN parser
      /\ IsParser(q, Playable(c)) /\ KnownAll(q, c, n + 1)
      /\ LineKeeps(q, line, Playable(c), r) /\ r.stop # "assert"
      /\ DOMAIN parser' = DOMAIN parser
      /\ \A s \in DOMAIN parser \ {c} : parser'[s] = parser[s]
      /\ parser'[c].mLastNote = r.q.mLastNote
      /\ IsSongLine(c, n + 1, line) => parser'[c].mSong = Append(q.mSong, r.events)
      /\ ~IsSongLine(c, n + 1, line) => parser'[c].mSong = q.mSong
  BY LineKept
<1>2. NewLasts(c, n + 1, line, r.events, q.mLastNote, r.q.mLastNote)
  <2>1. line.is # "words" => r.q.mLastNote = q.mLastNote
    BY <1>1 DEF LineKeeps
  <2>2. ASSUME line.is = "words", Readable(c, n + 1, Words(line))
        PROVE  /\ LineContinues(c, n + 1, line, r.events, q.mLastNote)
               /\ \A x \in Columns :
                    r.q.mLastNote[x]
                      = LastWithin(c, n + 1, line, r.events, x, Len(Words(line)), q.mLastNote[x])
    BY <1>1, <2>2, WordsContinue
  <2> QED BY <2>1, <2>2 DEF NewLasts
<1>3. ASSUME NEW s \in DOMAIN parser', NEW now, NEW new,
             now = parser'[s].mLastNote, new = parser'[s].mSong
      PROVE  Continued(s, now, new)'
  <2> DEFINE song == parser[s].mSong
             lasts == parser[s].mLastNote
             events == r.events
  <2>1. Continued(s, lasts, song) /\ SongSays(s, song)
    BY <1>1, <1>3 DEF Continuing, Songs
  <2>2. IsSeq(song)
    BY <1>1, <1>3, SongIsASeq
  <2>3. SongGrows(s, n, line, song, events, new)
    BY <1>1, <1>3, <2>1, <2>2 DEF SongGrows, SongSays
  <2>4. NewLasts(s, n + 1, line, events, lasts, now)
    <3>1. CASE s = c
      BY <1>1, <1>2, <1>3, <3>1
    <3>2. CASE s # c
      BY <1>1, <1>3, <3>2 DEF NewLasts
    <3> QED BY <3>1, <3>2
  <2> HIDE DEF song, lasts, events
  <2> QED BY <1>1, <2>1, <2>3, <2>4, ContinuedNext
<1> QED BY <1>3, ContinuingNext

LEMMA ContinuingInit == Init => Continuing
<1> SUFFICES ASSUME Init, NEW s \in DOMAIN parser, NEW song, song = parser[s].mSong,
                    NEW lasts, lasts = parser[s].mLastNote
             PROVE  Continued(s, lasts, song)
  BY DEF Continuing
<1>1. parser[s] = Fresh /\ Len(text) = 0 /\ TextOK
  BY OneEvent, StructureInit DEF Init, Structure
<1>2. \A c \in Columns : lasts[c] = NoEvent
  BY <1>1 DEF Fresh
<1>3. DOMAIN text = 1 .. 0
  BY <1>1 DEF TextOK, IsSeq
<1>4. SongLines(s) = {}
  BY <1>3 DEF SongLines
<1> QED BY <1>2, <1>4 DEF Continued, LastOf, NotingAbove, Noting

LEMMA ContinuingOfStep ==
  ASSUME BarsAreBare, Structure, Knowledge, Songs, Continuing, [Next]_vars
  PROVE  Continuing'
<1>1. \A line \in NextLines : IsLine(line) /\ BareLine(line)
  BY NextLinesAre, NextLinesAreBare DEF Structure
<1>2. CASE \E line \in NextLines : KeepNothing(line) \/ Store(line)
  BY <1>1, <1>2, ContinuingKept
<1>3. CASE \E line \in NextLines : Abort(line)
  BY <1>3, ContinuingStay DEF Abort
<1>4. CASE \E line \in NextLines : Define(line)
  BY <1>1, <1>4, ContinuingBegin
<1>5. CASE \E line \in NextLines : End(line)
  BY <1>1, <1>5, ContinuingEnd
<1>6. CASE EndOfInput
  <2> SUFFICES ASSUME NEW m, m = Len(open) PROVE Continuing'
    OBVIOUS
  <2>1. text' = text /\ Return /\ m # 0
    BY <1>6 DEF EndOfInput, Structure, OpenOK
  <2>2. 0 \in DOMAIN parser
    BY DEF Structure, SongsOK
  <2>3. /\ DOMAIN parser' = DOMAIN parser
        /\ \A s \in DOMAIN parser : \A x \in Fields \ {"mSubSeqMap"} :
             parser'[s][x] = parser[s][x]
    BY <2>1, <2>2, OthersReturned
  <2>4. \A s \in DOMAIN parser : /\ parser'[s].mSong = parser[s].mSong
                                 /\ parser'[s].mLastNote = parser[s].mLastNote
    BY <2>3 DEF Fields
  <2> QED BY <2>1, <2>3, <2>4, ContinuingStay
<1>7. CASE Over \/ UNCHANGED vars
  BY <1>7, ContinuingStay DEF Over, vars
<1> QED BY <1>2, <1>3, <1>4, <1>5, <1>6, <1>7 DEF Next

(* The last place before p with a note of its column is the last of its    *)
(* line, or else the last of the last line above that has one.             *)
LEMMA OneLast ==
  ASSUME NEW B, B \subseteq Nat \X Nat, NEW q \in B, \A r \in B : ~Earlier(q, r)
  PROVE  {x \in B : \A r \in B : ~Earlier(x, r)} = {q}
<1>1. ASSUME NEW x \in B, ~Earlier(x, q), ~Earlier(q, x) PROVE x = q
  <2>1. x[1] \in Nat /\ x[2] \in Nat /\ q[1] \in Nat /\ q[2] \in Nat
        /\ x = <<x[1], x[2]>> /\ q = <<q[1], q[2]>>
    OBVIOUS
  <2>2. x[1] = q[1] /\ x[2] = q[2]
    BY <1>1, <2>1 DEF Earlier
  <2> QED BY <2>1, <2>2
<1> QED BY <1>1

LEMMA ThePlaces ==
  ASSUME Structure, NEW s
  PROVE  /\ Places(s) \subseteq Nat \X Nat
         /\ \A k, i : <<k, i>> \in Places(s) <=>
              k \in SongLines(s) /\ text[k].is = "words" /\ i \in 1 .. Len(Words(text[k]))
<1>1. ASSUME NEW k \in SongLines(s), text[k].is = "words"
      PROVE  k \in Nat /\ DOMAIN Words(text[k]) = 1 .. Len(Words(text[k]))
             /\ Len(Words(text[k])) \in Nat
  <2>1. k \in DOMAIN text /\ DOMAIN text = 1 .. Len(text) /\ Len(text) \in Nat
    BY DEF SongLines, Structure, TextOK, IsSeq
  <2> QED BY <1>1, <2>1, WordsOf
<1>2. \A p : p \in Places(s) <=>
        \E k \in SongLines(s) : text[k].is = "words" /\ p \in {k} \X DOMAIN Words(text[k])
  BY DEF Places
<1>3. ASSUME NEW p \in Places(s) PROVE p \in Nat \X Nat
  <2>1. PICK k \in SongLines(s) : text[k].is = "words" /\ p \in {k} \X DOMAIN Words(text[k])
    BY <1>2, <1>3
  <2> DEFINE m == Len(Words(text[k]))
  <2>2. k \in Nat /\ m \in Nat /\ p \in {k} \X (1 .. m)
    BY <1>1, <2>1
  <2> HIDE DEF m
  <2> QED BY <2>2
<1>4. ASSUME NEW k, NEW i
      PROVE  <<k, i>> \in Places(s) <=>
               k \in SongLines(s) /\ text[k].is = "words" /\ i \in 1 .. Len(Words(text[k]))
  <2>1. <<k, i>> \in Places(s) <=>
          k \in SongLines(s) /\ text[k].is = "words" /\ i \in DOMAIN Words(text[k])
    BY <1>2
  <2> QED BY <1>1, <2>1
<1> QED BY <1>3, <1>4

(* The places of the notes and subpatterns of column c. *)
Notes(s, c) == {q \in Places(s) : KindAt(s, q) \in {"note", "play"} /\ ColumnAt(q) = c}

LEMMA NotesAre ==
  ASSUME Structure, NEW s, NEW c
  PROVE  /\ Notes(s, c) \subseteq Nat \X Nat
         /\ \A k, i : <<k, i>> \in Notes(s, c) <=>
              /\ k \in SongLines(s) /\ text[k].is = "words"
              /\ i \in NotesIn(s, k, text[k], c, Len(Words(text[k])))
<1>1. Notes(s, c) \subseteq Nat \X Nat
  BY ThePlaces DEF Notes
<1>2. ASSUME NEW k, NEW i
      PROVE  <<k, i>> \in Notes(s, c) <=>
              /\ k \in SongLines(s) /\ text[k].is = "words"
              /\ i \in NotesIn(s, k, text[k], c, Len(Words(text[k])))
  <2> DEFINE q == <<k, i>>
  <2>1. KindAt(s, q) = Kind(s, k, Words(text[k])[i]) /\ ColumnAt(q) = ColumnOf(Words(text[k]), i)
    BY DEF KindAt, WordAt, ColumnAt
  <2>2. q \in Places(s) <=>
          k \in SongLines(s) /\ text[k].is = "words" /\ i \in 1 .. Len(Words(text[k]))
    BY ThePlaces
  <2> QED BY <2>1, <2>2 DEF Notes, NotesIn
<1> QED BY <1>1, <1>2

(* What a place goes on with. *)
LEMMA LastPlace ==
  ASSUME Structure, NEW s, NEW p \in Places(s), NEW k, k = p[1], NEW i, i = p[2],
         NEW c, c = ColumnAt(p), NEW song, song = parser[s].mSong, NEW l,
         l = LastWithin(s, k, text[k], EventsOf(s, k), c, i - 1, LastOf(s, k, c, song))
  PROVE  \/ Previous(s, p) = {} /\ l = NoEvent
         \/ \E q \in Notes(s, c) : Previous(s, p) = {q} /\ l = EventAt(s, q)
<1> DEFINE B == {q \in Notes(s, c) : Earlier(q, p)}
           A == NotesIn(s, k, text[k], c, i - 1)
           C == NotingAbove(s, k, c)
           In(j) == NotesIn(s, j, text[j], c, Len(Words(text[j])))
<1>1. /\ k \in SongLines(s) /\ k \in Nat /\ text[k].is = "words" /\ i \in Nat \ {0}
      /\ Len(Words(text[k])) \in Nat /\ i <= Len(Words(text[k])) /\ p = <<k, i>>
  <2>1. p \in Nat \X Nat
    BY ThePlaces
  <2>2. p = <<k, i>> /\ k \in Nat /\ i \in Nat
    BY <2>1
  <2>3. k \in SongLines(s) /\ text[k].is = "words" /\ i \in 1 .. Len(Words(text[k]))
    BY <2>2, ThePlaces
  <2>4. Len(Words(text[k])) \in Nat
    BY <2>3, WordsOf DEF SongLines
  <2> QED BY <2>2, <2>3, <2>4
<1>2. Previous(s, p) = {q \in B : \A r \in B : ~Earlier(q, r)}
  BY DEF Previous, Notes
<1>3. /\ Notes(s, c) \subseteq Nat \X Nat
      /\ \A j, x : <<j, x>> \in Notes(s, c) <=>
           j \in SongLines(s) /\ text[j].is = "words" /\ x \in In(j)
  BY NotesAre
<1>4. \A j, x : <<j, x>> \in B <=>
        /\ j \in SongLines(s) /\ text[j].is = "words" /\ x \in In(j)
        /\ j < k \/ (j = k /\ x < i)
  BY <1>1, <1>3 DEF Earlier
<1>5. B \subseteq Nat \X Nat
  BY <1>3
<1>6. \A x : x \in A <=> x \in In(k) /\ x < i
  BY <1>1 DEF NotesIn
<1>7. \A j : /\ j \in C <=> /\ j \in SongLines(s) /\ text[j].is = "words" /\ In(j) # {}
                            /\ j < k
             /\ In(j) \subseteq 1 .. Len(Words(text[j]))
  BY DEF NotingAbove, Noting, NotedIn, NotesIn
<1>8. \A j \in SongLines(s) : text[j].is = "words" => Len(Words(text[j])) \in Nat /\ j \in Nat
  <2>1. SongLines(s) \subseteq DOMAIN text /\ DOMAIN text = 1 .. Len(text) /\ Len(text) \in Nat
    BY DEF SongLines, Structure, TextOK, IsSeq
  <2> QED BY <2>1, WordsOf
<1>9. \A j, ev : ev = EventsOf(s, j) => ev = LineIn(s, j, song)
  BY DEF EventsOf, LineIn, Rank
<1>10. l = IF A = {} THEN IF C = {} THEN NoEvent ELSE NoteIn(s, Max(C), c, song)
           ELSE EventsOf(s, k)[Max(A)]
  BY DEF LastWithin, LastOf
<1> HIDE DEF A, B, C, In
<1>11. \A q \in B : q = <<q[1], q[2]>> /\ q[1] \in Nat /\ q[2] \in Nat
  BY <1>5
<1>12. CASE A # {}
  <2> SUFFICES ASSUME NEW x, x = Max(A)
               PROVE  \E q \in Notes(s, c) : Previous(s, p) = {q} /\ l = EventAt(s, q)
    OBVIOUS
  <2>1. x \in A /\ \A y \in A : y <= x
    <3>1. A \subseteq 0 .. i
      BY <1>1, <1>6, <1>7
    <3> QED BY <1>1, <1>12, <3>1, MaxOf
  <2>2. x \in Nat /\ x < i /\ x \in In(k)
    BY <1>1, <1>6, <1>7, <2>1
  <2> DEFINE q == <<k, x>>
  <2>3. q \in B /\ q \in Notes(s, c)
    BY <1>1, <1>3, <1>4, <2>2
  <2>4. ASSUME NEW r \in B PROVE ~Earlier(q, r)
    <3>1. r[1] <= k /\ (r[1] = k => r[2] \in A) /\ r[1] \in Nat /\ r[2] \in Nat
      BY <1>1, <1>4, <1>6, <1>11
    <3>2. r[1] = k => r[2] <= x
      BY <2>1, <3>1
    <3> QED BY <1>1, <2>2, <3>1, <3>2 DEF Earlier
  <2>5. Previous(s, p) = {q}
    BY <1>2, <1>5, <2>3, <2>4, OneLast
  <2>6. l = EventAt(s, q)
    BY <1>10, <1>12 DEF EventAt
  <2> QED BY <2>3, <2>5, <2>6
<1>13. CASE A = {} /\ C # {}
  <2> SUFFICES ASSUME NEW j, j = Max(C), NEW x, x = Max(In(j))
               PROVE  \E q \in Notes(s, c) : Previous(s, p) = {q} /\ l = EventAt(s, q)
    OBVIOUS
  <2>1. j \in C /\ \A y \in C : y <= j
    <3>1. C \subseteq 0 .. k
      <4>1. \A y \in C : y \in Nat /\ y < k
        BY <1>7, <1>8
      <4> QED BY <1>1, <4>1
    <3> QED BY <1>1, <1>13, <3>1, MaxOf
  <2>2. j \in SongLines(s) /\ text[j].is = "words" /\ j \in Nat /\ j < k /\ In(j) # {}
    BY <1>7, <1>8, <2>1
  <2>3. x \in In(j) /\ (\A y \in In(j) : y <= x) /\ x \in Nat
    <3> DEFINE m == Len(Words(text[j]))
    <3>1. m \in Nat /\ In(j) \subseteq 1 .. m
      BY <1>7, <1>8, <2>2
    <3> HIDE DEF m
    <3>2. In(j) \subseteq 0 .. m
      BY <3>1
    <3>3. x \in In(j) /\ \A y \in In(j) : y <= x
      BY <2>2, <3>1, <3>2, MaxOf
    <3> QED BY <3>1, <3>3
  <2> DEFINE q == <<j, x>>
  <2>4. q \in B /\ q \in Notes(s, c)
    BY <1>3, <1>4, <2>2, <2>3
  <2>5. ASSUME NEW r \in B PROVE ~Earlier(q, r)
    <3>1. /\ r[1] \in SongLines(s) /\ text[r[1]].is = "words" /\ r[2] \in In(r[1])
          /\ r[1] < k \/ (r[1] = k /\ r[2] < i)
          /\ r[1] \in Nat /\ r[2] \in Nat
      BY <1>4, <1>11
    <3>2. r[1] # k
      BY <1>6, <1>13, <3>1
    <3>3. r[1] \in C
      BY <1>7, <3>1, <3>2
    <3>4. r[1] <= j /\ (r[1] = j => r[2] <= x)
      BY <2>1, <2>3, <3>1, <3>3
    <3> QED BY <2>2, <2>3, <3>1, <3>4 DEF Earlier
  <2>6. Previous(s, p) = {q}
    BY <1>2, <1>5, <2>4, <2>5, OneLast
  <2>7. l = EventAt(s, q)
    <3>1. l = NoteIn(s, j, c, song)
      BY <1>10, <1>13
    <3>2. l = LineIn(s, j, song)[x]
      BY <2>2, <3>1 DEF NoteIn, LastWithin, In
    <3> QED BY <1>9, <3>2 DEF EventAt
  <2> QED BY <2>4, <2>6, <2>7
<1>14. CASE A = {} /\ C = {}
  <2>1. l = NoEvent
    BY <1>10, <1>14
  <2>2. ASSUME NEW r \in B PROVE FALSE
    <3>1. /\ r[1] \in SongLines(s) /\ text[r[1]].is = "words" /\ r[2] \in In(r[1])
          /\ r[1] < k \/ (r[1] = k /\ r[2] < i)
      BY <1>4, <1>11
    <3> QED BY <1>6, <1>7, <1>14, <3>1
  <2> QED BY <1>2, <2>1, <2>2
<1> QED BY <1>12, <1>13, <1>14

(* The columns of the words of the song. *)
LEMMA PlaceColumn ==
  ASSUME Structure, NEW s, NEW p \in Places(s)
  PROVE  ColumnAt(p) \in Columns
<1> SUFFICES ASSUME NEW k, k = p[1], NEW i, i = p[2] PROVE ColumnAt(p) \in Columns
  OBVIOUS
<1>1. p \in Nat \X Nat /\ p = <<k, i>> /\ i \in Nat
  <2>1. p \in Nat \X Nat
    BY ThePlaces
  <2> QED BY <2>1
<1>2. k \in SongLines(s) /\ text[k].is = "words" /\ i \in 1 .. Len(Words(text[k]))
  BY <1>1, ThePlaces
<1>3. Len(Words(text[k])) \in Nat /\ Len(Words(text[k])) <= MaxColumn + 1
  <2>1. IsLine(text[k])
    BY <1>2 DEF SongLines, Structure, TextOK, IsSeq
  <2>2. IsWords(text[k].words) /\ Len(text[k].words) <= MaxColumn + 1
    BY <1>2, <2>1, LineParts
  <2>3. WordsAre(text[k], Words(text[k])) /\ IsSeq(text[k].words)
    BY <2>2, SeqIsSeq, WordsBeforeComment DEF IsWords
  <2>4. Len(text[k].words) \in Nat
    BY <2>3 DEF IsSeq
  <2>5. Len(Words(text[k])) \in 0 .. Len(text[k].words)
    BY <2>3 DEF WordsAre
  <2> QED BY <2>2, <2>4, <2>5, ParserAssumption
<1>4. ColumnOf(Words(text[k]), i) \in 0 .. i - 1
  <2>1. i - 1 \in Nat /\ (i - 1) + 1 = i
    BY <1>1, <1>2, <1>3
  <2>2. ColumnOf(Words(text[k]), (i - 1) + 1) \in 0 .. i - 1
    BY <2>1, ColumnNext
  <2> QED BY <2>1, <2>2
<1>5. ColumnAt(p) = ColumnOf(Words(text[k]), i)
  BY DEF ColumnAt
<1> QED BY <1>1, <1>2, <1>3, <1>4, <1>5, ParserAssumption DEF Columns

(* The event of a word of a definition that can be read goes on as it      *)
(* should with the last of its column.                                     *)
LEMMA PlaceContinues ==
  ASSUME Structure, Continuing, NEW s \in DOMAIN parser, AllRead(s), NEW p \in Places(s),
         NEW l, l = LastWithin(s, p[1], text[p[1]], EventsOf(s, p[1]), ColumnAt(p), p[2] - 1,
                               LastOf(s, p[1], ColumnAt(p), parser[s].mSong))
  PROVE  WordContinues(KindAt(s, p), EventAt(s, p), l)
<1> DEFINE k == p[1]
           i == p[2]
           c == ColumnAt(p)
           song == parser[s].mSong
           f == [x \in Columns |-> LastOf(s, k, x, song)]
<1>1. p = <<k, i>>
  <2>1. p \in Nat \X Nat
    BY ThePlaces
  <2> QED BY <2>1
<1>2. k \in SongLines(s) /\ text[k].is = "words" /\ i \in 1 .. Len(Words(text[k]))
  <2> HIDE DEF k, i
  <2> QED BY <1>1, ThePlaces
<1>3. c \in Columns /\ c = ColumnOf(Words(text[k]), i)
  BY PlaceColumn DEF ColumnAt
<1>4. LineContinues(s, k, text[k], LineIn(s, k, song), f)
  <2>1. Continued(s, parser[s].mLastNote, song)
    BY DEF Continuing
  <2>2. \A x \in Columns : f[x] = LastOf(s, k, x, song)
    OBVIOUS
  <2> HIDE DEF f, song, k
  <2> QED BY <1>2, <2>1, <2>2 DEF Continued
<1>5. EventsOf(s, k) = LineIn(s, k, song)
  BY DEF EventsOf, LineIn, Rank
<1>6. f[c] = LastOf(s, k, c, song)
  BY <1>3
<1>7. l = LastWithin(s, k, text[k], LineIn(s, k, song), c, i - 1, f[c])
  BY <1>5, <1>6
<1>8. KindAt(s, p) = Kind(s, k, Words(text[k])[i]) /\ EventAt(s, p) = LineIn(s, k, song)[i]
  BY <1>5 DEF KindAt, WordAt, EventAt
<1> HIDE DEF k, i, c, song, f
<1> QED BY <1>2, <1>3, <1>4, <1>7, <1>8 DEF LineContinues

(* THEOREM: "|" and "^" go on with the last note or subpattern that the    *)
(* song has in the column, of this line or of one above, and never with    *)
(* one of another definition, unless "*" has played a note in the column   *)
(* since then, which is not remembered: ContinuesTheColumn says nothing of *)
(* a "|" or "^" behind it.  It is so for every input whose bars have no    *)
(* comments behind them.                                                   *)
THEOREM NotesGoOn ==
  ASSUME BarsAreBare
  PROVE  Spec => []ContinuesTheColumn
<1>1. Structure /\ Continuing => ContinuesTheColumn
  <2> SUFFICES ASSUME Structure, Continuing, NEW s \in DOMAIN parser, AllRead(s),
                      NEW p \in Places(s), NEW events,
                      events = {EventAt(s, q) : q \in Previous(s, p)}
               PROVE  /\ KindAt(s, p) = "pedal" => events = {EventAt(s, p).event}
                      /\ KindAt(s, p) = "last" => events = {EventAt(s, p)} \ {NoEvent}
    BY DEF ContinuesTheColumn, AllRead
  <2> SUFFICES ASSUME NEW c, c = ColumnAt(p), NEW l,
                      l = LastWithin(s, p[1], text[p[1]], EventsOf(s, p[1]), c, p[2] - 1,
                                     LastOf(s, p[1], c, parser[s].mSong))
               PROVE  /\ KindAt(s, p) = "pedal" => events = {EventAt(s, p).event}
                      /\ KindAt(s, p) = "last" => events = {EventAt(s, p)} \ {NoEvent}
    OBVIOUS
  <2>1. WordContinues(KindAt(s, p), EventAt(s, p), l)
    BY PlaceContinues
  <2>2. CASE Previous(s, p) = {} /\ l = NoEvent
    <3>1. events = {}
      BY <2>2
    <3> QED BY <2>1, <2>2, <3>1 DEF WordContinues
  <2>3. CASE \E q \in Notes(s, c) : Previous(s, p) = {q} /\ l = EventAt(s, q)
    <3>1. PICK q \in Notes(s, c) : Previous(s, p) = {q} /\ l = EventAt(s, q)
      BY <2>3
    <3>2. q \in Places(s) /\ KindAt(s, q) \in {"note", "play"}
      BY <3>1 DEF Notes
    <3>3. l # NoEvent
      BY <3>1, <3>2, PlaceContinues DEF WordContinues
    <3>4. events = {l}
      BY <3>1
    <3> QED BY <2>1, <3>3, <3>4 DEF WordContinues
  <2> QED BY <2>2, <2>3, LastPlace
<1>2. Structure /\ Knowledge /\ Songs /\ Continuing /\ [Next]_vars => Continuing'
  BY ContinuingOfStep
<1> QED BY <1>1, <1>2, ContinuingInit, SongsAlways, PTL DEF Spec
=============================================================================

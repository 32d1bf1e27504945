------------------------------ MODULE MCParser ------------------------------
(***************************************************************************)
(* Texts for module Parser: six lines, each of a list, so that definitions *)
(* are opened, closed, nested and given again, between lines that change   *)
(* what the notes mean.                                                    *)
(***************************************************************************)
EXTENDS SongText, TLC

CONSTANT Comments

NoMods == [name \in {} |-> 0]

Plain(is, base) ==
  [is |-> is, base |-> base, tail |-> NoTail, open |-> FALSE, close |-> FALSE, mods |-> NoMods,
   class |-> 0, octave |-> Unset, natural |-> FALSE, bare |-> FALSE]

(* A sharp, or a volume, behind the base of a word. *)
Sharp(w) == [w EXCEPT !.tail = [@ EXCEPT !.empty = FALSE, !.alter = 1], !.bare = FALSE]
Loud(w, n) ==
  [w EXCEPT !.tail = [@ EXCEPT !.empty = FALSE, !.mods = "volume" :> n],
            !.mods = "volume" :> n, !.bare = FALSE]
Quiet(w) == Loud(w, 40)

Note(base, class, octave) == [Plain("note", base) EXCEPT !.class = class, !.octave = octave]
c == [Note("c", 0, Unset) EXCEPT !.bare = TRUE]
c5 == Note("c5", 0, 5)
cis == Sharp(Note("c", 1, Unset))
cn == [Note("cn", 0, Unset) EXCEPT !.natural = TRUE]
drum == Note("drum", 2, Unset)
rest == Plain("rest", NoName)
pedal == Plain("pedal", "|")
default == Plain("default", "*")
last == Plain("last", "^")
remark == Plain("comment", ";")
bad == Plain("bad", "x")
S == Plain("bad", "S")
ctl == Plain("ctl", "$7=0")
Open(w) == [w EXCEPT !.open = TRUE]
Close(w) == [w EXCEPT !.close = TRUE]

Pattern(words) == [is |-> "words", words |-> words]
Number(is, n) == [is |-> is, n |-> n]
Bar(signs) == [is |-> "bar", n |-> 3, signs |-> signs, comment |-> <<>>]
Remarked(comment) == [Bar(<<>>) EXCEPT !.comment = comment]
Sign(mod, class) == [mod |-> mod, class |-> class]
Named(is) == [is |-> is, name |-> "S"]
Port(first, end, port, channel) ==
  [is |-> "port", first |-> first, last |-> end, port |-> port, channel |-> channel]
Alias(word) == [is |-> "alias", name |-> "drum", word |-> word]

DefineLine == Named("define")
EndLine == [is |-> "end"]

(* What changes the meaning of the lines below. *)
Directives ==
  {Number("volume", 50), Number("transpose", -1), Bar(<<Sign(1, 0), Sign(-1, 0)>>),
   Alias(Quiet(cis)), Alias(c), Port(1, 2, "p", Unset), Port(3, 3, "q", 1)}

(* Lines of a song. *)
Patterns ==
  {Pattern(<<c, pedal>>), Pattern(<<Open(c5), Close(cis), Loud(Sharp(drum), 30)>>),
   Pattern(<<S, pedal, remark, bad>>), Pattern(<<last, cn, bad>>)}

Others ==
  {[is |-> "unalias", name |-> "drum"], Alias(remark), Alias(rest), [is |-> "default", word |-> c5],
   [is |-> "default", word |-> rest], Number("tempo", 60), Number("wait", 2),
   Number("loop", 2), [is |-> "endloop"], Pattern(<<remark>>),
   Pattern(<<default, Close(rest), Open(Close(drum))>>),
   Pattern(<<Open(Quiet(c)), ctl, Close(ctl), last>>), Pattern(<<Open(Close(rest))>>),
   Pattern(<<Open(Close(Quiet(drum))), Sharp(drum)>>)}

MCLine ==
  IF Comments
  THEN <<{Bar(<<Sign(1, 0)>>), Remarked(<<Sign(-1, 9), Sign(0, Unset)>>)},
         {Pattern(<<c>>), Remarked(<<Sign(0, 0)>>)}>>
  ELSE <<Directives \cup {DefineLine, Pattern(<<c5, c>>)},
         {DefineLine, EndLine, [is |-> "default", word |-> c5], Number("transpose", -1), Bar(<<Sign(1, 0), Sign(-1, 0)>>),
          Port(1, 2, "p", Unset), Pattern(<<S, pedal, remark, bad>>)},
         Patterns \cup Others \cup {DefineLine},
         {EndLine, DefineLine, Pattern(<<c, c5>>)},
         {EndLine, Number("volume", 60), Pattern(<<S, c>>)},
         {EndLine, Pattern(<<Open(pedal), Close(last), S, drum>>)}>>

ASSUME WithoutComments == ~Comments => BarsAreBare

MCJunk == {[column |-> 0, channel |-> 0],
           [column |-> 1, channel |-> 9]}
=============================================================================

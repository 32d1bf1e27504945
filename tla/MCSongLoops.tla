---------------------------- MODULE MCSongLoops ----------------------------
(***************************************************************************)
(* The songs SongLoops is checked with, built as trees: a block is a       *)
(* sequence of lines and of loops around blocks.  The text of a song is    *)
(* its tree flattened; what should be played is its tree expanded, which   *)
(* is what "Play the block for n times" (README:83) means.                 *)
(***************************************************************************)
EXTENDS SongLoops, SequencesExt

CONSTANTS
  Count,        (* the counts of the loops                                 *)
  Rounds        (* how often an endless loop is expanded                   *)

MCEndless == -1
MCCount == {-1, 1, 3}

Line(n) == [kind |-> "line", n |-> n]

(* An endloop that ends no loop. *)
Stray == [kind |-> "endloop", n |-> 0]

(* The blocks without a loop, and those with loops around given blocks.    *)
Lines == {<<>>, <<Line(1)>>, <<Line(1), Line(2)>>}
Around(blocks) == [kind : {"tree"}, n : Count, body : blocks]

Inner == Lines \cup {<<t>> : t \in Around(Lines)}
                \cup {<<t, Line(3)>> : t \in Around(Lines)}
Block == {<<Line(4), t, Line(5)>> : t \in Around(Inner)}
           \cup {<<s, t>> : s, t \in Around(Lines)}
           \cup {<<Line(4), Stray, Line(5)>>}

RECURSIVE Flatten(_)
Flatten(block) ==
  FlattenSeq([k \in DOMAIN block |->
    IF block[k].kind # "tree" THEN <<block[k]>>
    ELSE <<[kind |-> "loop", n |-> block[k].n]>> \o Flatten(block[k].body)
           \o <<[kind |-> "endloop", n |-> 0]>>])

RECURSIVE Expand(_)
Expand(block) ==
  FlattenSeq([k \in DOMAIN block |->
    IF block[k].kind = "line" THEN <<block[k].n>>
    ELSE IF block[k] = Stray THEN <<>>
    ELSE LET times == IF block[k].n = Endless THEN Rounds ELSE block[k].n
         IN  FlattenSeq([j \in 1 .. times |-> Expand(block[k].body)])])

(* A loop for ever around no line at all makes getNextLine call itself for *)
(* ever; such songs are left out.                                          *)
RECURSIVE HasEmptyLoop(_)
HasEmptyLoop(block) ==
  \E k \in DOMAIN block :
    /\ block[k].kind = "tree"
    /\ \/ block[k].n = Endless /\ Expand(block[k].body) = <<>>
       \/ HasEmptyLoop(block[k].body)

Playable == {block \in Block : ~HasEmptyLoop(block)}

(* The text of each song, and what should be played. *)
Pairs == {<<Flatten(block), Expand(block)>> : block \in Playable}

MCSong == {pair[1] : pair \in Pairs}

Expected == [song \in MCSong |-> (CHOOSE pair \in Pairs : pair[1] = song)[2]]

(* What is played since the last start is what the tree says, whatever     *)
(* earlier starts left on the stack; and all of it when the song is over.  *)
PlaysExpansion ==
  /\ IsPrefix(played, Expected[mSong])
  /\ mCurrentPos = Len(mSong) => played = Expected[mSong]
=============================================================================

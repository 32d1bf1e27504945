----------------------------- MODULE SongLoops -----------------------------
(***************************************************************************)
(* How Sequencer::getNextLine (src/sequencer.cpp) walks through a song     *)
(* with loops: a position, and a stack of the loops that are open.  Every  *)
(* call of the recursive function is a step here.  A subpattern is played  *)
(* from its start again and again by initPosition, which moves the         *)
(* position and leaves the stack alone.                                    *)
(***************************************************************************)
EXTENDS Integers, Sequences, FiniteSets

CONSTANTS
  Song,         (* the songs: sequences of records [kind, n] where kind is *)
                (* "line", "loop" (n times, Endless for ever) or "endloop" *)
  Endless,      (* the count of a loop without a number, (unsigned)-1      *)
  MaxPlayed,    (* bound: the lines played after a start                   *)
  MaxStarts     (* bound: the calls of initPosition                        *)

ASSUME EndlessAssumption == Endless = -1

ASSUME SongAssumption ==
  /\ Song \subseteq Seq([kind : {"line", "loop", "endloop"}, n : Int])
  /\ MaxPlayed \in Nat /\ MaxStarts \in Nat

VARIABLES
  mSong,
  mCurrentPos,  (* from 0                                                  *)
  mLoopStack,   (* the open loops, innermost last: [count, pos]            *)
  played,       (* history: the lines returned since the last start        *)
  stale,        (* history: the entries on the stack at the last start     *)
  starts        (* history: the calls of initPosition                      *)

vars == <<mSong, mCurrentPos, mLoopStack, played, stale, starts>>
-----------------------------------------------------------------------------
Current == mSong[mCurrentPos + 1]

At(kind) == mCurrentPos < Len(mSong) /\ Current.kind = kind

Top == mLoopStack[Len(mLoopStack)]

Below == SubSeq(mLoopStack, 1, Len(mLoopStack) - 1)

Init ==
  /\ mSong \in Song
  /\ mCurrentPos = 0 /\ mLoopStack = <<>>
  /\ played = <<>> /\ stale = 0 /\ starts = 0

(* A line that is neither is returned. *)
ReturnLine ==
  /\ At("line") /\ Len(played) < MaxPlayed
  /\ played' = Append(played, Current.n)
  /\ mCurrentPos' = mCurrentPos + 1
  /\ UNCHANGED <<mSong, mLoopStack, stale, starts>>

(* Mutated form of LoopStart, the line after it. *)
AfterLoopStart == mCurrentPos + 1

LoopStart == mCurrentPos

(* The beginning of a loop. *)
BeginLoop ==
  /\ At("loop")
  /\ mLoopStack' = Append(mLoopStack, [count |-> Current.n, pos |-> LoopStart])
  /\ mCurrentPos' = mCurrentPos + 1
  /\ UNCHANGED <<mSong, played, stale, starts>>

(* Mutated form of GoesOn, one iteration too many. *)
GoesOnOnceMore(count) == count = Endless \/ count - 1 >= 0

GoesOn(count) == count = Endless \/ count - 1 > 0

(* Mutated form of Counted, which forgets to count. *)
NotCounted(count) == count

Counted(count) == IF count = Endless THEN count ELSE count - 1

(* The end of a loop: once more. *)
RepeatLoop ==
  /\ At("endloop") /\ mLoopStack # <<>>
  /\ GoesOn(Top.count)
  /\ mLoopStack' = Append(Below, [Top EXCEPT !.count = Counted(Top.count)])
  /\ mCurrentPos' = Top.pos + 1
  /\ UNCHANGED <<mSong, played, stale, starts>>

(* Mutated form of Popped, which leaves the loop open. *)
NotPopped == mLoopStack

Popped == Below

(* The end of a loop that is done. *)
LeaveLoop ==
  /\ At("endloop") /\ mLoopStack # <<>>
  /\ ~GoesOn(Top.count)
  /\ mLoopStack' = Popped
  /\ mCurrentPos' = mCurrentPos + 1
  /\ UNCHANGED <<mSong, played, stale, starts>>

(* The end of no loop is ignored. *)
SkipEndLoop ==
  /\ At("endloop") /\ mLoopStack = <<>>
  /\ mCurrentPos' = mCurrentPos + 1
  /\ UNCHANGED <<mSong, mLoopStack, played, stale, starts>>

(* The subpattern is played again, wherever it was. *)
InitPosition ==
  /\ starts < MaxStarts /\ starts' = starts + 1
  /\ mCurrentPos' = 0
  /\ played' = <<>> /\ stale' = Len(mLoopStack)
  /\ UNCHANGED <<mSong, mLoopStack>>

(* The song is over, or the bound is reached. *)
SongOver ==
  /\ mCurrentPos >= Len(mSong) \/ Len(played) = MaxPlayed
  /\ UNCHANGED vars

Step == ReturnLine \/ BeginLoop \/ RepeatLoop \/ LeaveLoop \/ SkipEndLoop

Next ==
  \/ ReturnLine \/ BeginLoop \/ RepeatLoop \/ LeaveLoop \/ SkipEndLoop
  \/ InitPosition \/ SongOver

Spec == Init /\ [][Next]_vars

(* play() asks for the next line again and again. *)
FairSpec == Spec /\ WF_vars(Step)
-----------------------------------------------------------------------------
(* The types of the variables: the position stays in the song, and the     *)
(* entries of the stack point to loops.                                    *)
TypeOK ==
  /\ mSong \in Song
  /\ mCurrentPos \in 0 .. Len(mSong)
  /\ mLoopStack \in Seq([count : Int, pos : Nat])
  /\ \A k \in 1 .. Len(mLoopStack) :
       /\ mLoopStack[k].pos < Len(mSong)
       /\ mSong[mLoopStack[k].pos + 1].kind = "loop"
  /\ played \in Seq(Int)
  /\ stale \in Nat /\ starts \in 0 .. MaxStarts

(* How many loops the song has open at position pos.                       *)
Opened(pos) == {k \in 1 .. pos : mSong[k].kind = "loop"}
Closed(pos) == {k \in 1 .. pos : mSong[k].kind = "endloop"}
Depth(pos) == Cardinality(Opened(pos)) - Cardinality(Closed(pos))

(* No endloop of the song is without a loop.                               *)
WellNested == \A pos \in 0 .. Len(mSong) : Depth(pos) >= 0

(* The loops open at the position are on the stack, on top of what was     *)
(* there at the start: a loop never closes the loop around it.             *)
StackFollowsNesting ==
  WellNested => Len(mLoopStack) = stale + Depth(mCurrentPos)

(* And each of them points to the loop that it is at its depth: then       *)
(* endloop finds the one it ends on top, and goes back behind its line.    *)
LoopsAtTheirDepth ==
  WellNested =>
    \A k \in 1 .. Len(mLoopStack) :
      k > stale => Depth(mLoopStack[k].pos) = k - stale - 1

(* A song without an endless loop is played to its end, however often it   *)
(* is started again on the way.                                            *)
ComesToAnEnd ==
  (\A k \in DOMAIN mSong : mSong[k].n # Endless) ~> mCurrentPos = Len(mSong)
=============================================================================

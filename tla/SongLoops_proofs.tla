-------------------------- MODULE SongLoops_proofs --------------------------
(***************************************************************************)
(* Proofs about module SongLoops, for every set of songs, well nested or   *)
(* not: the position never leaves the song, although endloop takes it from *)
(* a stack that initPosition does not clear.                               *)
(***************************************************************************)
EXTENDS SongLoops, FiniteSetTheorems, TLAPS

(* The shapes of a loop entry and of a line. *)
Entry == [count : Int, pos : Nat]
Line == [kind : {"line", "loop", "endloop"}, n : Int]

(* What the stack promises of the song. *)
PointsToLoops(stack) ==
  \A k \in 1 .. Len(stack) :
    stack[k].pos < Len(mSong) /\ mSong[stack[k].pos + 1].kind = "loop"

(* A song is a sequence of lines, loops and endloops. *)
LEMMA SongFacts ==
  ASSUME mSong \in Song
  PROVE  mSong \in Seq(Line) /\ Len(mSong) \in Nat
BY SongAssumption DEF Line

(* What the guard At says of the position. *)
LEMMA AtFacts ==
  ASSUME mSong \in Song, mCurrentPos \in 0 .. Len(mSong), NEW kind, At(kind)
  PROVE  /\ Current \in Line
         /\ Current.kind = kind
         /\ mCurrentPos \in Nat /\ mCurrentPos < Len(mSong)
         /\ mCurrentPos + 1 \in 0 .. Len(mSong)
BY SongFacts DEF At, Current

(* The part of a stack below its top. *)
LEMMA BelowFacts ==
  ASSUME mLoopStack \in Seq(Entry), mLoopStack # <<>>
  PROVE  /\ Below \in Seq(Entry) /\ Top \in Entry
         /\ Len(mLoopStack) \in 1 .. Len(mLoopStack)
         /\ Len(Below) = Len(mLoopStack) - 1
         /\ \A k \in 1 .. Len(Below) : Below[k] = mLoopStack[k]
<1> DEFINE n == Len(mLoopStack)
<1>1. n \in Nat /\ n >= 1
  OBVIOUS
<1>2. n - 1 \in Nat
  BY <1>1
<1>3. \A k \in 1 .. n - 1 : k \in 1 .. n /\ mLoopStack[k] \in Entry
  BY <1>1
<1>4. Below = [k \in 1 .. n - 1 |-> mLoopStack[k]]
  BY <1>2, SMT DEF Below
<1>5. Below \in Seq(Entry) /\ Len(Below) = n - 1
  BY <1>2, <1>3, <1>4
<1> QED
  BY <1>1, <1>3, <1>4, <1>5 DEF Top

(* Every step keeps the types. *)
LEMMA TypeInductive ==
  ASSUME TypeOK, [Next]_vars
  PROVE  TypeOK'
<1>0. /\ mSong \in Song /\ mCurrentPos \in 0 .. Len(mSong)
      /\ mLoopStack \in Seq(Entry) /\ PointsToLoops(mLoopStack)
      /\ played \in Seq(Int)
      /\ stale \in Nat /\ starts \in 0 .. MaxStarts
  BY DEF TypeOK, Entry, PointsToLoops
<1>q. SUFFICES /\ mSong' = mSong /\ mCurrentPos' \in 0 .. Len(mSong)
               /\ mLoopStack' \in Seq(Entry) /\ PointsToLoops(mLoopStack')
               /\ played' \in Seq(Int)
               /\ stale' \in Nat /\ starts' \in 0 .. MaxStarts
  BY <1>0 DEF TypeOK, Entry, PointsToLoops
<1>1. CASE ReturnLine
  <2>1. At("line") /\ Current.n \in Int
    BY <1>0, <1>1, AtFacts DEF ReturnLine, Line
  <2> QED
    BY <1>0, <1>1, <2>1, AtFacts DEF ReturnLine
<1>2. CASE BeginLoop
  <2> DEFINE new == [count |-> Current.n, pos |-> mCurrentPos]
  <2>1. At("loop")
    BY <1>2 DEF BeginLoop
  <2>2. /\ Current \in Line /\ Current.kind = "loop"
        /\ mCurrentPos \in Nat /\ mCurrentPos < Len(mSong)
        /\ mCurrentPos + 1 \in 0 .. Len(mSong)
    BY <1>0, <2>1, AtFacts
  <2>3. new \in Entry
    BY <2>2 DEF Entry, Line
  <2>4. mSong[new.pos + 1].kind = "loop" /\ new.pos < Len(mSong)
    BY <2>2 DEF Current
  <2> HIDE DEF new
  <2>5. Append(mLoopStack, new) \in Seq(Entry)
    BY <1>0, <2>3
  <2>6. \A k \in 1 .. Len(Append(mLoopStack, new)) :
          Append(mLoopStack, new)[k] =
            IF k = Len(mLoopStack) + 1 THEN new ELSE mLoopStack[k]
    BY <1>0, <2>3
  <2>7. Len(Append(mLoopStack, new)) = Len(mLoopStack) + 1 /\ Len(mLoopStack) \in Nat
    BY <1>0, <2>3
  <2>8. PointsToLoops(Append(mLoopStack, new))
    BY <1>0, <2>4, <2>6, <2>7 DEF PointsToLoops
  <2>9. mLoopStack' = Append(mLoopStack, new)
    BY <1>2 DEF BeginLoop, LoopStart, new
  <2> QED
    BY <1>0, <1>2, <2>2, <2>5, <2>8, <2>9 DEF BeginLoop
<1>3. CASE RepeatLoop
  <2> DEFINE new == [Top EXCEPT !.count = Counted(Top.count)]
  <2>1. mLoopStack # <<>>
    BY <1>3 DEF RepeatLoop
  <2>2. /\ Below \in Seq(Entry) /\ Top \in Entry
        /\ Len(mLoopStack) \in 1 .. Len(mLoopStack)
        /\ Len(Below) = Len(mLoopStack) - 1
        /\ \A k \in 1 .. Len(Below) : Below[k] = mLoopStack[k]
    BY <1>0, <2>1, BelowFacts
  <2>3. Top.pos \in Nat /\ Top.pos < Len(mSong) /\ mSong[Top.pos + 1].kind = "loop"
    BY <1>0, <2>2 DEF Top, PointsToLoops, Entry
  <2>4. Counted(Top.count) \in Int
    BY <2>2 DEF Counted, Entry
  <2>5. new \in Entry /\ new.pos = Top.pos
    BY <2>2, <2>4 DEF Entry
  <2> HIDE DEF new
  <2>6. Append(Below, new) \in Seq(Entry)
    BY <2>2, <2>5
  <2>7. /\ Len(Append(Below, new)) = Len(mLoopStack)
        /\ \A k \in 1 .. Len(mLoopStack) :
             Append(Below, new)[k] =
               IF k = Len(mLoopStack) THEN new ELSE mLoopStack[k]
    BY <1>0, <2>2, <2>5
  <2>8. PointsToLoops(Append(Below, new))
    BY <1>0, <2>3, <2>5, <2>7 DEF PointsToLoops
  <2>9. mLoopStack' = Append(Below, new)
    BY <1>3 DEF RepeatLoop, new
  <2>10. mCurrentPos' \in 0 .. Len(mSong)
    BY <1>0, <1>3, <2>3, SongFacts DEF RepeatLoop
  <2> QED
    BY <1>0, <1>3, <2>6, <2>8, <2>9, <2>10 DEF RepeatLoop
<1>4. CASE LeaveLoop
  <2>1. mLoopStack # <<>> /\ At("endloop") /\ mLoopStack' = Below
    BY <1>4 DEF LeaveLoop, Popped
  <2>2. /\ Below \in Seq(Entry)
        /\ Len(Below) = Len(mLoopStack) - 1
        /\ \A k \in 1 .. Len(Below) : Below[k] = mLoopStack[k]
    BY <1>0, <2>1, BelowFacts
  <2>3. PointsToLoops(Below)
    BY <1>0, <2>2 DEF PointsToLoops
  <2> QED
    BY <1>0, <1>4, <2>1, <2>2, <2>3, AtFacts DEF LeaveLoop
<1>5. CASE SkipEndLoop
  BY <1>0, <1>5, AtFacts DEF SkipEndLoop
<1>6. CASE InitPosition
  <2>1. 0 \in 0 .. Len(mSong) /\ Len(mLoopStack) \in Nat
    BY <1>0, SongFacts
  <2>2. starts' \in 0 .. MaxStarts
    BY <1>0, <1>6, SongAssumption DEF InitPosition
  <2> QED
    BY <1>0, <1>6, <2>1, <2>2 DEF InitPosition
<1>7. CASE SongOver \/ UNCHANGED vars
  BY <1>0, <1>7 DEF SongOver, vars
<1> QED
  BY <1>1, <1>2, <1>3, <1>4, <1>5, <1>6, <1>7 DEF Next

(* Whatever the song, well nested or not, and however often it is started  *)
(* again in the middle of a loop: getNextLine indexes mSong inside its     *)
(* bounds, and a loop is continued behind a line that opens one.           *)
THEOREM PositionInSong == Spec => []TypeOK
<1>1. Init => TypeOK
  <2> SUFFICES ASSUME Init PROVE TypeOK
    OBVIOUS
  <2>1. 0 \in 0 .. Len(mSong) /\ 0 \in 0 .. MaxStarts
    BY SongFacts, SongAssumption DEF Init
  <2> QED
    BY <2>1 DEF Init, TypeOK
<1>2. TypeOK /\ [Next]_vars => TypeOK'
  BY TypeInductive
<1> QED
  BY <1>1, <1>2, PTL DEF Spec
-----------------------------------------------------------------------------
(* The nesting of the loops.                                               *)

(* A line opens a loop, closes one or does neither. *)
LEMMA DepthFacts ==
  ASSUME mSong \in Song, NEW pos \in 0 .. Len(mSong)
  PROVE  /\ Depth(pos) \in Int
         /\ pos = 0 => Depth(pos) = 0
         /\ pos < Len(mSong) =>
              /\ mSong[pos + 1].kind = "loop" => Depth(pos + 1) = Depth(pos) + 1
              /\ mSong[pos + 1].kind = "endloop" => Depth(pos + 1) = Depth(pos) - 1
              /\ mSong[pos + 1].kind = "line" => Depth(pos + 1) = Depth(pos)
<1>1. pos \in Nat /\ Len(mSong) \in Nat /\ IsFiniteSet(1 .. pos)
  BY SongFacts, FS_Interval
<1>2. Opened(pos) \subseteq 1 .. pos /\ Closed(pos) \subseteq 1 .. pos
  BY DEF Opened, Closed
<1>3. /\ IsFiniteSet(Opened(pos)) /\ Cardinality(Opened(pos)) \in Nat
      /\ IsFiniteSet(Closed(pos)) /\ Cardinality(Closed(pos)) \in Nat
  BY <1>1, <1>2, FS_Subset, FS_CardinalityType
<1>0. Depth(pos) \in Int
  BY <1>3 DEF Depth
<1>4. ASSUME pos = 0
      PROVE  Depth(pos) = 0
  <2>1. Opened(pos) = {} /\ Closed(pos) = {}
    BY <1>4 DEF Opened, Closed
  <2> QED
    BY <2>1, FS_EmptySet DEF Depth
<1>5. pos + 1 \notin Opened(pos) /\ pos + 1 \notin Closed(pos)
  BY <1>1, <1>2
<1>6. \A k : k \in 1 .. pos + 1 <=> k \in 1 .. pos \/ k = pos + 1
  BY <1>1
<1>7. /\ Cardinality(Opened(pos) \cup {pos + 1}) = Cardinality(Opened(pos)) + 1
      /\ Cardinality(Closed(pos) \cup {pos + 1}) = Cardinality(Closed(pos)) + 1
  BY <1>3, <1>5, FS_AddElement
<1>8. CASE mSong[pos + 1].kind = "loop"
  <2>1. Opened(pos + 1) = Opened(pos) \cup {pos + 1} /\ Closed(pos + 1) = Closed(pos)
    BY <1>6, <1>8 DEF Opened, Closed
  <2>2. /\ Cardinality(Opened(pos + 1)) = Cardinality(Opened(pos)) + 1
        /\ Cardinality(Closed(pos + 1)) = Cardinality(Closed(pos))
    BY <1>7, <2>1, Zenon
  <2>3. Depth(pos + 1) = Depth(pos) + 1
    BY <1>3, <2>2 DEF Depth
  <2> QED
    BY <1>4, <1>8, <1>0, <2>3
<1>9. CASE mSong[pos + 1].kind = "endloop"
  <2>1. Opened(pos + 1) = Opened(pos) /\ Closed(pos + 1) = Closed(pos) \cup {pos + 1}
    BY <1>6, <1>9 DEF Opened, Closed
  <2>2. /\ Cardinality(Opened(pos + 1)) = Cardinality(Opened(pos))
        /\ Cardinality(Closed(pos + 1)) = Cardinality(Closed(pos)) + 1
    BY <1>7, <2>1, Zenon
  <2>3. Depth(pos + 1) = Depth(pos) - 1
    BY <1>3, <2>2 DEF Depth
  <2> QED
    BY <1>4, <1>9, <1>0, <2>3
<1>10. CASE mSong[pos + 1].kind \notin {"loop", "endloop"}
  <2>1. Opened(pos + 1) = Opened(pos) /\ Closed(pos + 1) = Closed(pos)
    BY <1>6, <1>10 DEF Opened, Closed
  <2> QED
    BY <1>3, <1>4, <1>10, <2>1 DEF Depth
<1> QED
  BY <1>8, <1>9, <1>10

(* At the end of a loop of a well nested song, the loop it ends is on top. *)
LEMMA EndLoopFacts ==
  ASSUME TypeOK, WellNested, StackFollowsNesting, LoopsAtTheirDepth, At("endloop")
  PROVE  /\ mLoopStack # <<>> /\ Len(mLoopStack) \in Nat /\ Len(mLoopStack) > stale
         /\ Depth(mCurrentPos + 1) = Depth(mCurrentPos) - 1
         /\ Depth(mCurrentPos) = Len(mLoopStack) - stale
         /\ Top.pos \in Nat /\ Top.pos < Len(mSong) /\ mSong[Top.pos + 1].kind = "loop"
         /\ Depth(Top.pos) = Depth(mCurrentPos) - 1
<1>1. /\ mSong \in Song /\ mCurrentPos \in 0 .. Len(mSong) /\ stale \in Nat
      /\ mLoopStack \in Seq(Entry) /\ Len(mLoopStack) \in Nat /\ PointsToLoops(mLoopStack)
  BY DEF TypeOK, Entry, PointsToLoops
<1>2. /\ mCurrentPos < Len(mSong) /\ mCurrentPos + 1 \in 0 .. Len(mSong)
      /\ mSong[mCurrentPos + 1].kind = "endloop"
  BY <1>1, AtFacts DEF Current
<1>3. Depth(mCurrentPos) \in Int /\ Depth(mCurrentPos + 1) = Depth(mCurrentPos) - 1
  BY <1>1, <1>2, DepthFacts
<1>4. Depth(mCurrentPos + 1) >= 0
  BY <1>2 DEF WellNested
<1>5. Depth(mCurrentPos) = Len(mLoopStack) - stale /\ Len(mLoopStack) > stale
  BY <1>1, <1>3, <1>4 DEF StackFollowsNesting
<1>6. mLoopStack # <<>> /\ Len(mLoopStack) \in 1 .. Len(mLoopStack)
  <2>1. Len(mLoopStack) >= 1
    BY <1>1, <1>5
  <2>2. Len(<<>>) = 0
    OBVIOUS
  <2> QED
    BY <1>1, <2>1, <2>2
<1>7. Top.pos \in Nat /\ Top.pos < Len(mSong) /\ mSong[Top.pos + 1].kind = "loop"
  <2>1. Top \in Entry
    BY <1>1, <1>6, BelowFacts
  <2> QED
    BY <1>1, <1>6, <2>1 DEF Top, PointsToLoops, Entry
<1>8. Depth(Top.pos) = Len(mLoopStack) - stale - 1
  BY <1>5, <1>6 DEF Top, LoopsAtTheirDepth
<1> QED
  BY <1>1, <1>3, <1>5, <1>6, <1>7, <1>8

(* Every step keeps the stack with the nesting. *)
LEMMA NestingInductive ==
  ASSUME TypeOK, StackFollowsNesting, LoopsAtTheirDepth, [Next]_vars
  PROVE  StackFollowsNesting' /\ LoopsAtTheirDepth'
<1>0. /\ mSong \in Song /\ mCurrentPos \in 0 .. Len(mSong) /\ stale \in Nat
      /\ mLoopStack \in Seq(Entry) /\ Len(mLoopStack) \in Nat /\ mSong' = mSong
  <2>1. mSong' = mSong
    BY DEF Next, ReturnLine, BeginLoop, RepeatLoop, LeaveLoop, SkipEndLoop, InitPosition,
           SongOver, vars
  <2> QED
    BY <2>1 DEF TypeOK, Entry
<1>1. WellNested' <=> WellNested
  BY <1>0 DEF WellNested, Depth, Opened, Closed
<1>2. StackFollowsNesting' <=>
        (WellNested => Len(mLoopStack') = stale' + Depth(mCurrentPos'))
  BY <1>0, <1>1 DEF StackFollowsNesting, Depth, Opened, Closed
<1>3. LoopsAtTheirDepth' <=>
        (WellNested =>
           \A k \in 1 .. Len(mLoopStack') :
             k > stale' => Depth(mLoopStack'[k].pos) = k - stale' - 1)
  BY <1>0, <1>1 DEF LoopsAtTheirDepth, Depth, Opened, Closed
<1> SUFFICES ASSUME WellNested
             PROVE  /\ Len(mLoopStack') = stale' + Depth(mCurrentPos')
                    /\ \A k \in 1 .. Len(mLoopStack') :
                         k > stale' => Depth(mLoopStack'[k].pos) = k - stale' - 1
  BY <1>2, <1>3
<1>4. /\ Len(mLoopStack) = stale + Depth(mCurrentPos)
      /\ \A k \in 1 .. Len(mLoopStack) :
           k > stale => Depth(mLoopStack[k].pos) = k - stale - 1
      /\ Depth(mCurrentPos) \in Int
  BY <1>0, DepthFacts DEF StackFollowsNesting, LoopsAtTheirDepth
<1>5. CASE ReturnLine
  <2>1. Depth(mCurrentPos + 1) = Depth(mCurrentPos)
    BY <1>0, <1>5, AtFacts, DepthFacts DEF ReturnLine, Current
  <2> QED
    BY <1>4, <1>5, <2>1 DEF ReturnLine
<1>6. CASE BeginLoop
  <2> DEFINE new == [count |-> Current.n, pos |-> mCurrentPos]
  <2>1. Current \in Line /\ Depth(mCurrentPos + 1) = Depth(mCurrentPos) + 1
        /\ mCurrentPos \in Nat
    BY <1>0, <1>6, AtFacts, DepthFacts DEF BeginLoop, Current
  <2>2. new \in Entry /\ new.pos = mCurrentPos
    BY <2>1 DEF Entry, Line
  <2>3. mLoopStack' = Append(mLoopStack, new)
    BY <1>6 DEF BeginLoop, LoopStart
  <2> HIDE DEF new
  <2>4. /\ Len(mLoopStack') = Len(mLoopStack) + 1
        /\ \A k \in 1 .. Len(mLoopStack') :
             mLoopStack'[k] = IF k = Len(mLoopStack) + 1 THEN new ELSE mLoopStack[k]
    BY <1>0, <2>2, <2>3
  <2>5. mCurrentPos' = mCurrentPos + 1 /\ stale' = stale
    BY <1>6 DEF BeginLoop
  <2>6. ASSUME NEW k \in 1 .. Len(mLoopStack'), k > stale'
        PROVE  Depth(mLoopStack'[k].pos) = k - stale' - 1
    BY <1>0, <1>4, <2>2, <2>4, <2>5, <2>6
  <2> QED
    BY <1>0, <1>4, <2>1, <2>4, <2>5, <2>6
<1>7. CASE RepeatLoop
  <2> DEFINE new == [Top EXCEPT !.count = Counted(Top.count)]
  <2>1. At("endloop") /\ mCurrentPos' = Top.pos + 1 /\ stale' = stale
    BY <1>7 DEF RepeatLoop
  <2>2. /\ mLoopStack # <<>> /\ Top.pos \in Nat /\ Top.pos < Len(mSong)
        /\ mSong[Top.pos + 1].kind = "loop"
        /\ Depth(Top.pos) = Depth(mCurrentPos) - 1
        /\ Len(mLoopStack) > stale
    BY <2>1, EndLoopFacts
  <2>3. Depth(Top.pos + 1) = Depth(mCurrentPos)
    <3>1. Top.pos \in 0 .. Len(mSong)
      BY <1>0, <2>2, SongFacts
    <3> QED
      BY <1>0, <1>4, <2>2, <3>1, DepthFacts
  <2>4. Below \in Seq(Entry) /\ new \in Entry /\ new.pos = Top.pos
    BY <1>0, <2>2, BelowFacts DEF Entry, Counted
  <2>5. mLoopStack' = Append(Below, new)
    BY <1>7 DEF RepeatLoop
  <2> HIDE DEF new
  <2>6. /\ Len(mLoopStack') = Len(mLoopStack)
        /\ \A k \in 1 .. Len(mLoopStack) :
             mLoopStack'[k] = IF k = Len(mLoopStack) THEN new ELSE mLoopStack[k]
    <3>1. /\ Len(Below) = Len(mLoopStack) - 1
          /\ \A k \in 1 .. Len(Below) : Below[k] = mLoopStack[k]
      BY <1>0, <2>2, BelowFacts
    <3> QED
      BY <1>0, <2>4, <2>5, <3>1
  <2>7. ASSUME NEW k \in 1 .. Len(mLoopStack'), k > stale'
        PROVE  Depth(mLoopStack'[k].pos) = k - stale' - 1
    <3>1. CASE k = Len(mLoopStack)
      BY <1>0, <1>4, <2>1, <2>2, <2>4, <2>6, <3>1
    <3>2. CASE k # Len(mLoopStack)
      BY <1>0, <1>4, <2>1, <2>6, <2>7, <3>2
    <3> QED
      BY <3>1, <3>2
  <2> QED
    BY <1>4, <2>1, <2>3, <2>6, <2>7
<1>8. CASE LeaveLoop
  <2>1. /\ At("endloop") /\ mCurrentPos' = mCurrentPos + 1 /\ stale' = stale
        /\ mLoopStack' = Below
    BY <1>8 DEF LeaveLoop, Popped
  <2>2. mLoopStack # <<>> /\ Depth(mCurrentPos + 1) = Depth(mCurrentPos) - 1
    BY <2>1, EndLoopFacts
  <2>3. /\ Len(mLoopStack') = Len(mLoopStack) - 1
        /\ \A k \in 1 .. Len(mLoopStack') : mLoopStack'[k] = mLoopStack[k]
    BY <1>0, <2>1, <2>2, BelowFacts
  <2> QED
    BY <1>0, <1>4, <2>1, <2>2, <2>3
<1>9. CASE SkipEndLoop
  BY <1>9, EndLoopFacts DEF SkipEndLoop
<1>10. CASE InitPosition
  <2>1. Depth(0) = 0
    BY <1>0, SongFacts, DepthFacts
  <2> QED
    BY <1>0, <1>10, <2>1 DEF InitPosition
<1>11. CASE SongOver \/ UNCHANGED vars
  BY <1>4, <1>11 DEF SongOver, vars
<1> QED
  BY <1>5, <1>6, <1>7, <1>8, <1>9, <1>10, <1>11 DEF Next

LEMMA AlwaysNested == Spec => [](StackFollowsNesting /\ LoopsAtTheirDepth)
<1>1. Init => StackFollowsNesting /\ LoopsAtTheirDepth
  <2> SUFFICES ASSUME Init PROVE StackFollowsNesting /\ LoopsAtTheirDepth
    OBVIOUS
  <2>1. Depth(0) = 0
    BY SongFacts, DepthFacts DEF Init
  <2> QED
    BY <2>1 DEF Init, StackFollowsNesting, LoopsAtTheirDepth
<1>2. /\ TypeOK /\ StackFollowsNesting /\ LoopsAtTheirDepth /\ [Next]_vars
      => (StackFollowsNesting /\ LoopsAtTheirDepth)'
  BY NestingInductive
<1> QED
  BY <1>1, <1>2, PositionInSong, PTL DEF Spec

(* In every song whose loops are nested, and however often it is started   *)
(* again in the middle of one, the stack has one entry for each loop that  *)
(* is open at the position, above what the starts before left there.       *)
THEOREM TheStackFollowsTheNesting == Spec => []StackFollowsNesting
BY AlwaysNested, PTL

(* And they are these loops, in their order: endloop never goes back to    *)
(* the line of another loop than the one it ends.                          *)
THEOREM TheStackHasTheOpenLoops == Spec => []LoopsAtTheirDepth
BY AlwaysNested, PTL
=============================================================================

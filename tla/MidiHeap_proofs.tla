-------------------------- MODULE MidiHeap_proofs --------------------------
(***************************************************************************)
(* Proofs about module MidiHeap, for every array size and every set of     *)
(* messages: the inductive invariant IInv, the safety properties it        *)
(* implies, and that the class implements module MidiQueue.  They assume   *)
(* that mTop starts at 0, which the code leaves to the allocator.          *)
(***************************************************************************)
EXTENDS MidiHeap, WellFoundedInduction, FiniteSetTheorems, TLAPS

(* The shape of the tree: every index but 0 is a child of its parent. *)
LEMMA ParentFacts ==
  ASSUME NEW k \in Nat, k > 0
  PROVE  /\ Parent(k) \in Nat /\ Parent(k) < k
         /\ k = LChild(Parent(k)) \/ k = RChild(Parent(k))
BY DEF Parent, LChild, RChild

LEMMA RootFacts == Parent(0) = -1
BY DEF Parent

LEMMA ChildFacts ==
  ASSUME NEW k \in Nat
  PROVE  /\ LChild(k) \in Nat /\ LChild(k) > k /\ Parent(LChild(k)) = k
         /\ RChild(k) \in Nat /\ RChild(k) > k /\ Parent(RChild(k)) = k
BY DEF Parent, LChild, RChild

(* The times of the elements are comparable. *)
LEMMA Times ==
  ASSUME TypeOK, NEW k \in Index
  PROVE  mArray[k] \in Message \cup {Blank} /\ mArray[k].time \in Nat /\ mArray[k].port \in Nat
<1>1. mArray[k] \in Message \cup {Blank}
  BY DEF TypeOK
<1> QED
  BY <1>1, MessageAssumption

(* The function swap exchanges two elements and touches no other. *)
LEMMA SwapFacts ==
  ASSUME TypeOK, NEW j \in Index, NEW k \in Index, j # k
  PROVE  /\ Swapped(mArray, j, k) \in [Index -> Message \cup {Blank}]
         /\ Swapped(mArray, j, k)[j] = mArray[k]
         /\ Swapped(mArray, j, k)[k] = mArray[j]
         /\ \A n \in Index \ {j, k} : Swapped(mArray, j, k)[n] = mArray[n]
BY DEF TypeOK, Swapped

(* Swapping two elements of the heap keeps its contents. *)
LEMMA SwapContents ==
  ASSUME TypeOK, NEW j \in Index, NEW k \in Index, j # k, j < mTop, k < mTop,
         mArray' = Swapped(mArray, j, k), mTop' = mTop
  PROVE  Contents' = Contents
<1>1. ASSUME NEW n \in Index, n < mTop
      PROVE  mArray'[n] \in Contents
  BY <1>1, SwapFacts DEF Contents
<1>2. ASSUME NEW n \in Index, n < mTop
      PROVE  mArray[n] \in Contents'
  <2>1. CASE n = j
    BY <2>1, SwapFacts DEF Contents
  <2>2. CASE n = k
    BY <2>2, SwapFacts DEF Contents
  <2>3. CASE n # j /\ n # k
    BY <2>3, <1>2, SwapFacts DEF Contents
  <2> QED
    BY <2>1, <2>2, <2>3
<1> QED
  BY <1>1, <1>2 DEF Contents

(* Swapping two elements of the heap keeps each element at one place. *)
LEMMA SwapDistinct ==
  ASSUME TypeOK, Distinct, NEW j \in Index, NEW k \in Index, j # k, j < mTop, k < mTop,
         mArray' = Swapped(mArray, j, k), mTop' = mTop
  PROVE  Distinct'
<1>1. mTop \in 0 .. mSize - 1 /\ mSize \in Nat
  BY SizeAssumption DEF TypeOK
<1>2. 0 .. mTop - 1 \subseteq Index /\ j \in 0 .. mTop - 1 /\ k \in 0 .. mTop - 1
  BY <1>1 DEF Index
<1>3. /\ mArray'[j] = mArray[k] /\ mArray'[k] = mArray[j]
      /\ \A n \in Index \ {j, k} : mArray'[n] = mArray[n]
  BY SwapFacts
<1>4. ASSUME NEW n \in 0 .. mTop - 1
      PROVE  mArray'[n] \in Message
  BY <1>2, <1>3 DEF Distinct
<1>5. ASSUME NEW m \in 0 .. mTop - 1, NEW n \in 0 .. mTop - 1, mArray'[m] = mArray'[n]
      PROVE  m = n
  BY <1>2, <1>3, <1>5 DEF Distinct
<1> QED
  BY <1>4, <1>5 DEF Distinct

(* imin picks a child, if there is one, and no child is earlier. *)
LEMMA EarlierChildFacts ==
  ASSUME TypeOK
  PROVE  /\ EarlierChild # -1 => /\ EarlierChild \in Index /\ EarlierChild < mTop
                                 /\ EarlierChild > i /\ Parent(EarlierChild) = i
         /\ \A k \in 1 .. mTop - 1 :
              Parent(k) = i => /\ EarlierChild # -1
                               /\ mArray[EarlierChild].time <= mArray[k].time
<1>1. i \in Nat /\ mTop \in 0 .. mSize - 1 /\ mSize \in Nat
  BY SizeAssumption DEF TypeOK, Index
<1> DEFINE l == LChild(i)
           r == RChild(i)
<1>2. l \in Nat /\ r \in Nat /\ l > i /\ r > i /\ Parent(l) = i /\ Parent(r) = i
  BY <1>1, ChildFacts
<1>3. l < mTop => l \in Index /\ mArray[l].time \in Nat /\ mArray[l].port \in Nat
  BY <1>1, <1>2, Times DEF Index
<1>4. r < mTop => r \in Index /\ mArray[r].time \in Nat /\ mArray[r].port \in Nat
  BY <1>1, <1>2, Times DEF Index
<1>5. ASSUME NEW k \in 1 .. mTop - 1, Parent(k) = i
      PROVE  k = l \/ k = r
  BY <1>1, <1>5, ParentFacts
<1>6. EarlierChild = IMin(l, r)
  BY DEF EarlierChild
<1> HIDE DEF l, r
<1>7. EarlierChild # -1 => /\ EarlierChild = l \/ EarlierChild = r
                           /\ EarlierChild < mTop
  BY <1>6, <1>2 DEF IMin
<1>8. l < mTop => EarlierChild # -1 /\ mArray[EarlierChild].time <= mArray[l].time
  BY <1>6, <1>1, <1>2, <1>3, <1>4 DEF IMin
<1>9. r < mTop => EarlierChild # -1 /\ mArray[EarlierChild].time <= mArray[r].time
  BY <1>6, <1>1, <1>2, <1>3, <1>4 DEF IMin
<1> QED
  BY <1>1, <1>2, <1>3, <1>4, <1>5, <1>7, <1>8, <1>9
-----------------------------------------------------------------------------
(* The initial states satisfy the inductive invariant. *)
LEMMA InitIInv ==
  ASSUME FreshTop = {0}, Init
  PROVE  IInv
<1>1. 0 \in Index /\ mTop = 0
  BY SizeAssumption DEF Init, Index
<1>2. TypeOK
  BY <1>1, SizeAssumption DEF Init, TypeOK
<1> QED
  BY <1>1, <1>2, SizeAssumption
     DEF Init, IInv, Ownership, Distinct, HeapOrder, Rising, Sinking, NoLostWakeup,
         WokenFindsItsCondition, Waiting

LEMMA InsertWaitIInv ==
  ASSUME IInv, NEW m \in Message, InsertWait(m)
  PROVE  IInv'
<1>1. TypeOK'
  BY DEF IInv, TypeOK, InsertWait
<1>2. Contents' = Contents
  BY DEF InsertWait, Contents
<1>3. IsFull' = IsFull
  BY DEF InsertWait, IsFull
<1>4. Ownership' /\ NoLostWakeup' /\ WokenFindsItsCondition'
  BY <1>2, <1>3 DEF IInv, TypeOK, InsertWait, Ownership, NoLostWakeup, WokenFindsItsCondition,
                    Waiting
<1>5. Distinct' /\ HeapOrder' /\ Rising' /\ Sinking'
  BY DEF IInv, InsertWait, Distinct, HeapOrder, Rising, Sinking, Ownership, InOrder
<1> QED
  BY <1>1, <1>4, <1>5 DEF IInv

(* Storing at the end of a heap with space starts the loop of insert. *)
LEMMA StoreIInv ==
  ASSUME IInv, NEW m \in Message \ Contents, ~IsFull, ~Waiting("writer"),
         Store(m), UNCHANGED <<blocked, reader, msg, min>>
  PROVE  IInv'
<1>1. /\ mSize \in Nat /\ mTop \in 0 .. mSize - 2 /\ mTop \in Index /\ mTop' = mTop + 1
      /\ i' = mTop /\ reader # "sifting" /\ reader' = reader /\ blocked' = blocked
      /\ mMutex' = "writer" /\ writer' = "sifting" /\ mMutex = "free"
  BY SizeAssumption DEF IInv, TypeOK, IsFull, Store, Index, Ownership
<1>2. /\ mArray' \in [Index -> Message \cup {Blank}] /\ mArray'[mTop] = m
      /\ \A k \in Index \ {mTop} : mArray'[k] = mArray[k]
  BY <1>1 DEF Store, IInv, TypeOK
<1>3. TypeOK'
  BY <1>1, <1>2 DEF IInv, TypeOK
<1>4. Ownership' /\ NoLostWakeup' /\ WokenFindsItsCondition'
  BY <1>1 DEF IInv, TypeOK, Ownership, NoLostWakeup, WokenFindsItsCondition, Waiting
<1>5. Distinct'
  <2>1. \A k \in 0 .. mTop - 1 : k \in Index /\ k # mTop /\ mArray[k] \in Contents
    BY <1>1 DEF Contents, Index
  <2>2. \A k \in 0 .. mTop - 1 : mArray'[k] = mArray[k] /\ mArray'[k] # m
    BY <2>1, <1>2
  <2>3. \A k \in 0 .. mTop' - 1 : k = mTop \/ k \in 0 .. mTop - 1
    BY <1>1
  <2> QED
    BY <2>2, <2>3, <1>2 DEF Distinct, IInv
<1>6. Rising'
  <2>1. ASSUME NEW k \in 1 .. mTop' - 1
        PROVE  Parent(k) # mTop
    BY <2>1, <1>1, ParentFacts
  <2>2. ASSUME NEW k \in 1 .. mTop' - 1, k # mTop
        PROVE  InOrder(k)'
    <3>1. Parent(k) \in Nat /\ Parent(k) < k /\ k \in 1 .. mTop - 1
      BY <2>2, <1>1, ParentFacts
    <3>2. mArray[Parent(k)].time <= mArray[k].time
      BY <3>1, <1>1 DEF IInv, HeapOrder
    <3>3. mArray'[k] = mArray[k] /\ mArray'[Parent(k)] = mArray[Parent(k)]
      BY <3>1, <1>1, <1>2 DEF Index
    <3> QED
      BY <3>2, <3>3 DEF InOrder
  <2> QED
    BY <2>1, <2>2, <1>1 DEF Rising, Bridge
<1> QED
  BY <1>1, <1>3, <1>4, <1>5, <1>6 DEF IInv, HeapOrder, Sinking

LEMMA InsertStoreIInv ==
  ASSUME IInv, NEW m \in Message, InsertStore(m)
  PROVE  IInv'
<1>1. ~Waiting("writer") /\ m \notin Contents
  BY DEF InsertStore, IInv, Ownership
<1> QED
  BY <1>1, StoreIInv DEF InsertStore

LEMMA InsertResumeIInv ==
  ASSUME IInv, InsertResume
  PROVE  IInv'
<1>1. ~IsFull /\ msg \in Message \ Contents
  BY DEF InsertResume, IInv, WokenFindsItsCondition, Ownership
<1> QED
  BY <1>1, StoreIInv DEF InsertResume

(* Swapping the element at i with its parent moves the one pair that may   *)
(* be out of order one level up.                                           *)
LEMMA SiftUpIInv ==
  ASSUME IInv, SiftUp
  PROVE  IInv'
<1> DEFINE p == Parent(i)
<1>1. /\ mSize \in Nat /\ mTop \in 0 .. mSize - 1 /\ i \in Index /\ i \in Nat /\ i < mTop
      /\ writer = "sifting" /\ mTop' = mTop /\ i' = p
      /\ mArray[i].time < mArray[p].time /\ p # -1
  BY SizeAssumption DEF IInv, TypeOK, SiftUp, MustRise, Rising, Index
<1>2. i > 0 /\ p \in Nat /\ p < i /\ p \in Index
  BY <1>1, ParentFacts, RootFacts DEF Index
<1>3. /\ mArray' \in [Index -> Message \cup {Blank}]
      /\ mArray'[i] = mArray[p] /\ mArray'[p] = mArray[i]
      /\ \A k \in Index \ {i, p} : mArray'[k] = mArray[k]
  BY <1>1, <1>2, SwapFacts DEF IInv, SiftUp
<1> HIDE DEF p
<1>4. TypeOK'
  BY <1>1, <1>2, <1>3 DEF IInv, TypeOK, SiftUp
<1>5. Contents' = Contents /\ Distinct'
  BY <1>1, <1>2, SwapContents, SwapDistinct DEF IInv, SiftUp, p
<1>6. Ownership' /\ NoLostWakeup' /\ WokenFindsItsCondition' /\ HeapOrder' /\ Sinking'
  BY <1>1, <1>5 DEF IInv, TypeOK, SiftUp, Ownership, NoLostWakeup, WokenFindsItsCondition,
                    Waiting, HeapOrder, Sinking, IsFull
<1>7. Rising'
  <2>1. ASSUME NEW k \in 1 .. mTop - 1
        PROVE  /\ k \in Index /\ Parent(k) \in Nat /\ Parent(k) < k /\ Parent(k) \in Index
               /\ mArray[k].time \in Nat /\ mArray[Parent(k)].time \in Nat
    <3>1. k \in Index /\ Parent(k) \in Nat /\ Parent(k) < k /\ Parent(k) \in Index
      BY <1>1, ParentFacts DEF Index
    <3> QED
      BY <3>1, Times DEF IInv
  <2>2. \A k \in 1 .. mTop - 1 : k # i => mArray[Parent(k)].time <= mArray[k].time
    BY <1>1 DEF IInv, Rising, InOrder
  <2>3. ASSUME NEW k \in 1 .. mTop - 1, Parent(k) = p
        PROVE  mArray[p].time <= mArray'[k].time
    <3>1. CASE k = i
      BY <3>1, <2>1, <2>3, <1>3, <1>2
    <3>2. CASE k # i
      BY <3>2, <2>1, <2>2, <2>3, <1>3
    <3> QED
      BY <3>1, <3>2
  <2>4. Bridge'
    <3> SUFFICES ASSUME NEW k \in 1 .. mTop - 1, Parent(k) = p, p > 0
                 PROVE  mArray'[Parent(p)].time <= mArray'[k].time
      BY <1>1 DEF Bridge
    <3>1. p \in 1 .. mTop - 1
      BY <1>1, <1>2
    <3>2. mArray[Parent(p)].time <= mArray[p].time /\ mArray'[Parent(p)] = mArray[Parent(p)]
      BY <3>1, <2>1, <2>2, <1>2, <1>3
    <3>3. mArray'[k].time \in Nat
      BY <2>1, <1>2, <1>3, Times DEF IInv
    <3> QED
      BY <3>1, <3>2, <3>3, <2>1, <2>3
  <2>5. ASSUME NEW k \in 1 .. mTop - 1, k # p
        PROVE  mArray'[Parent(k)].time <= mArray'[k].time
    <3>1. CASE k = i
      BY <3>1, <2>1, <1>1, <1>2, <1>3 DEF p
    <3>2. CASE Parent(k) = i
      <4>1. mArray[p].time <= mArray[k].time
        BY <3>2, <1>2, <1>1 DEF IInv, Rising, Bridge, p
      <4>2. k # i /\ mArray'[i] = mArray[p] /\ mArray'[k] = mArray[k]
        BY <2>1, <2>5, <3>2, <1>3
      <4> QED
        BY <3>2, <4>1, <4>2
    <3>3. CASE k # i /\ Parent(k) = p
      <4>1. mArray[p].time <= mArray[k].time
        BY <3>3, <2>2
      <4>2. mArray'[k] = mArray[k] /\ mArray'[Parent(k)] = mArray[i]
        BY <3>3, <2>1, <2>5, <1>3
      <4> QED
        BY <4>1, <4>2, <3>3, <2>1, <1>1, Times DEF IInv
    <3>4. CASE k # i /\ Parent(k) # i /\ Parent(k) # p
      BY <3>4, <2>1, <2>2, <2>5, <1>3
    <3> QED
      BY <3>1, <3>2, <3>3, <3>4
  <2> QED
    BY <2>4, <2>5, <1>1, <1>2 DEF Rising, InOrder
<1> QED
  BY <1>4, <1>5, <1>6, <1>7 DEF IInv

LEMMA InsertEndIInv ==
  ASSUME IInv, InsertEnd
  PROVE  IInv'
<1>1. TypeOK' /\ Ownership' /\ Distinct' /\ NoLostWakeup' /\ WokenFindsItsCondition'
  BY DEF IInv, TypeOK, InsertEnd, Ownership, Distinct, NoLostWakeup, WokenFindsItsCondition,
         Waiting, WakeReader, Rising, IsFull, Contents, Index
<1>2. HeapOrder'
  <2>1. ASSUME NEW k \in 1 .. mTop - 1
        PROVE  mArray[Parent(k)].time <= mArray[k].time
    <3>1. /\ k \in Index /\ Parent(k) \in Nat /\ Parent(k) \in Index
      BY SizeAssumption, ParentFacts DEF IInv, TypeOK, Index
    <3>2. mArray[k].time \in Nat /\ mArray[Parent(k)].time \in Nat
      BY <3>1, Times DEF IInv
    <3> QED
      BY <3>1, <3>2 DEF IInv, InsertEnd, MustRise, Rising, InOrder
  <2> QED
    BY <2>1 DEF InsertEnd, HeapOrder
<1> QED
  BY <1>1, <1>2 DEF IInv, InsertEnd, Rising, Sinking, Ownership

LEMMA ReadWaitIInv ==
  ASSUME IInv, NEW call \in {"pop", "peek"}, ReadWait(call)
  PROVE  IInv'
<1>1. TypeOK' /\ Ownership' /\ NoLostWakeup' /\ WokenFindsItsCondition'
  BY DEF IInv, TypeOK, ReadWait, Ownership, NoLostWakeup, WokenFindsItsCondition, Waiting,
         IsFull, Contents
<1>2. Distinct' /\ HeapOrder' /\ Rising' /\ Sinking'
  BY DEF IInv, ReadWait, Distinct, HeapOrder, Rising, Sinking, Ownership, InOrder
<1> QED
  BY <1>1, <1>2 DEF IInv

(* A thread that reads finds an element. *)
LEMMA ReadingFacts ==
  ASSUME IInv, NEW call \in {"pop", "peek"}, Reading(call)
  PROVE  /\ mSize \in Nat /\ mTop \in 1 .. mSize - 1 /\ mMutex = "free"
         /\ 0 \in Index /\ LastSlot \in Index /\ mArray[0] \in Contents
         /\ ~Waiting("reader") /\ writer # "sifting" /\ reader # "sifting"
<1>1. mSize \in Nat /\ mTop \in 1 .. mSize - 1 /\ mMutex = "free"
  BY SizeAssumption DEF IInv, TypeOK, Reading, WokenFindsItsCondition
<1>2. 0 \in Index /\ LastSlot \in Index /\ mArray[0] \in Contents
  BY <1>1 DEF Index, LastSlot, Contents
<1> QED
  BY <1>1, <1>2 DEF IInv, Reading, Ownership

LEMMA PopTakeIInv ==
  ASSUME IInv, PopTake
  PROVE  IInv'
<1>1. /\ mSize \in Nat /\ mTop \in 1 .. mSize - 1 /\ mMutex = "free" /\ mTop' = mTop - 1
      /\ 0 \in Index /\ LastSlot \in Index /\ LastSlot = mTop - 1 /\ i' = 0
      /\ ~Waiting("reader") /\ writer # "sifting" /\ writer' = writer
      /\ reader' = "sifting" /\ mMutex' = "reader" /\ blocked' = blocked /\ msg' = msg
  BY ReadingFacts DEF PopTake, LastSlot
<1>2. /\ mArray' \in [Index -> Message \cup {Blank}] /\ mArray'[0] = mArray[mTop - 1]
      /\ \A k \in Index \ {0} : mArray'[k] = mArray[k]
  BY <1>1 DEF PopTake, IInv, TypeOK
<1>3. TypeOK'
  BY <1>1, <1>2 DEF IInv, TypeOK, PopTake
<1>4. Contents' \subseteq Contents
  BY <1>1, <1>2 DEF Contents, Index
<1>5. Ownership' /\ NoLostWakeup' /\ WokenFindsItsCondition'
  BY <1>1, <1>4 DEF IInv, TypeOK, Ownership, NoLostWakeup, WokenFindsItsCondition, Waiting,
                    IsFull
<1>6. Distinct'
  <2>1. 0 .. mTop - 2 \subseteq 0 .. mTop - 1 /\ 0 .. mTop - 2 \subseteq Index
        /\ mTop - 1 \in 0 .. mTop - 1 /\ mTop' - 1 = mTop - 2
    BY <1>1 DEF Index
  <2>2. ASSUME NEW k \in 0 .. mTop - 2
        PROVE  mArray'[k] \in Message
    BY <2>1, <1>2 DEF IInv, Distinct
  <2>3. ASSUME NEW j \in 0 .. mTop - 2, NEW k \in 0 .. mTop - 2, mArray'[j] = mArray'[k]
        PROVE  j = k
    <3>1. j # mTop - 1 /\ k # mTop - 1
      BY <1>1
    <3> QED
      BY <3>1, <2>1, <2>3, <1>2 DEF IInv, Distinct
  <2> QED
    BY <2>1, <2>2, <2>3 DEF Distinct
<1>7. Sinking'
  <2>1. ASSUME NEW k \in 1 .. mTop' - 1, Parent(k) # 0
        PROVE  InOrder(k)'
    <3>1. k \in 1 .. mTop - 1 /\ k \in Index \ {0} /\ Parent(k) \in Index \ {0}
      BY <1>1, <2>1, ParentFacts DEF Index
    <3> QED
      BY <3>1, <1>1, <1>2 DEF IInv, HeapOrder, InOrder
  <2> QED
    BY <2>1, <1>1 DEF Sinking, Bridge
<1> QED
  BY <1>1, <1>3, <1>5, <1>6, <1>7 DEF IInv, HeapOrder, Rising

(* Swapping the element at i with its earlier child moves the pairs that   *)
(* may be out of order one level down.                                     *)
LEMMA SiftDownIInv ==
  ASSUME IInv, SiftDown
  PROVE  IInv'
<1> DEFINE c == EarlierChild
<1>1. /\ mSize \in Nat /\ mTop \in 0 .. mSize - 2 /\ i \in Index /\ i \in Nat
      /\ reader = "sifting" /\ mTop' = mTop /\ i' = c /\ c # -1
      /\ mArray[i].time > mArray[c].time
  BY SizeAssumption DEF IInv, TypeOK, SiftDown, MustSink, Sinking, Index
<1>2. /\ c \in Index /\ c \in Nat /\ c < mTop /\ c > i /\ Parent(c) = i
      /\ \A k \in 1 .. mTop - 1 : Parent(k) = i => mArray[c].time <= mArray[k].time
  BY <1>1, EarlierChildFacts DEF IInv, Index
<1>3. /\ mArray' \in [Index -> Message \cup {Blank}]
      /\ mArray'[i] = mArray[c] /\ mArray'[c] = mArray[i]
      /\ \A k \in Index \ {i, c} : mArray'[k] = mArray[k]
  BY <1>1, <1>2, SwapFacts DEF IInv, SiftDown
<1>4. Contents' = Contents /\ Distinct'
  BY <1>1, <1>2, SwapContents, SwapDistinct DEF IInv, SiftDown
<1> HIDE DEF c
<1>5. TypeOK'
  BY <1>1, <1>2, <1>3 DEF IInv, TypeOK, SiftDown
<1>6. Ownership' /\ NoLostWakeup' /\ WokenFindsItsCondition' /\ HeapOrder' /\ Rising'
  BY <1>1, <1>4 DEF IInv, TypeOK, SiftDown, Ownership, NoLostWakeup, WokenFindsItsCondition,
                    Waiting, HeapOrder, Rising, IsFull
<1>7. Sinking'
  <2>1. ASSUME NEW k \in 1 .. mTop - 1
        PROVE  /\ k \in Index /\ Parent(k) \in Nat /\ Parent(k) < k /\ Parent(k) \in Index
               /\ mArray[k].time \in Nat /\ mArray[Parent(k)].time \in Nat
    <3>1. k \in Index /\ Parent(k) \in Nat /\ Parent(k) < k /\ Parent(k) \in Index
      BY <1>1, ParentFacts DEF Index
    <3> QED
      BY <3>1, Times DEF IInv
  <2>2. \A k \in 1 .. mTop - 1 : Parent(k) # i => mArray[Parent(k)].time <= mArray[k].time
    BY <1>1 DEF IInv, Sinking, InOrder
  <2>3. \A k \in 1 .. mTop - 1 :
          Parent(k) = i /\ i > 0 => mArray[Parent(i)].time <= mArray[k].time
    BY <1>1 DEF IInv, Sinking, Bridge
  <2>4. c \in 1 .. mTop - 1 /\ (i > 0 => i \in 1 .. mTop - 1)
    BY <1>1, <1>2
  <2>5. Bridge'
    <3> SUFFICES ASSUME NEW k \in 1 .. mTop - 1, Parent(k) = c
                 PROVE  mArray'[Parent(c)].time <= mArray'[k].time
      BY <1>1 DEF Bridge
    <3>1. k # c /\ k # i /\ mArray'[k] = mArray[k] /\ mArray[c].time <= mArray[k].time
      BY <2>1, <2>2, <1>1, <1>2, <1>3
    <3> QED
      BY <3>1, <1>2, <1>3
  <2>6. ASSUME NEW k \in 1 .. mTop - 1, Parent(k) # c
        PROVE  mArray'[Parent(k)].time <= mArray'[k].time
    <3>1. CASE k = c
      BY <3>1, <2>1, <2>4, <1>1, <1>2, <1>3
    <3>2. CASE k # c /\ Parent(k) = i
      <4>1. mArray'[k] = mArray[k] /\ mArray'[Parent(k)] = mArray[c]
        BY <3>2, <2>1, <1>3
      <4> QED
        BY <4>1, <3>2, <1>2
    <3>3. CASE k = i
      <4>1. mArray[Parent(i)].time <= mArray[c].time
        BY <3>3, <2>3, <2>4, <1>2
      <4>2. mArray'[Parent(i)] = mArray[Parent(i)]
        BY <3>3, <2>1, <2>6, <1>3
      <4> QED
        BY <4>1, <4>2, <3>3, <1>3
    <3>4. CASE k # c /\ k # i /\ Parent(k) # i
      BY <3>4, <2>1, <2>2, <2>6, <1>3
    <3> QED
      BY <3>1, <3>2, <3>3, <3>4
  <2> QED
    BY <2>5, <2>6, <1>1 DEF Sinking, InOrder
<1> QED
  BY <1>4, <1>5, <1>6, <1>7 DEF IInv

LEMMA PopEndIInv ==
  ASSUME IInv, PopEnd
  PROVE  IInv'
<1>1. TypeOK' /\ Ownership' /\ Distinct' /\ NoLostWakeup' /\ WokenFindsItsCondition'
  BY SizeAssumption
     DEF IInv, TypeOK, PopEnd, Ownership, Distinct, NoLostWakeup, WokenFindsItsCondition,
         Waiting, WakeWriter, Sinking, IsFull, Contents, Index
<1>2. HeapOrder'
  <2>1. ASSUME NEW k \in 1 .. mTop - 1
        PROVE  mArray[Parent(k)].time <= mArray[k].time
    <3>1. CASE Parent(k) # i
      BY <3>1 DEF IInv, PopEnd, Sinking, InOrder
    <3>2. CASE Parent(k) = i
      <4>1. /\ EarlierChild \in Index /\ mArray[EarlierChild].time <= mArray[k].time
            /\ ~(mArray[i].time > mArray[EarlierChild].time)
        BY <3>2, EarlierChildFacts DEF IInv, PopEnd, MustSink
      <4>2. k \in Index /\ i \in Index
        BY SizeAssumption DEF IInv, TypeOK, Index
      <4>3. mArray[k].time \in Nat /\ mArray[i].time \in Nat /\ mArray[EarlierChild].time \in Nat
        BY <4>1, <4>2, Times DEF IInv
      <4> QED
        BY <3>2, <4>1, <4>3
    <3> QED
      BY <3>1, <3>2
  <2> QED
    BY <2>1 DEF PopEnd, HeapOrder
<1> QED
  BY <1>1, <1>2 DEF IInv, PopEnd, Rising, Sinking, Ownership

LEMMA PeekIInv ==
  ASSUME IInv, Peek
  PROVE  IInv'
<1>1. 0 \in Index /\ mMutex = "free" /\ ~Waiting("reader") /\ reader # "sifting"
  BY ReadingFacts DEF Peek
<1>2. TypeOK' /\ Ownership' /\ NoLostWakeup' /\ WokenFindsItsCondition'
  BY <1>1 DEF IInv, TypeOK, Peek, Ownership, NoLostWakeup, WokenFindsItsCondition, Waiting,
              IsFull, Contents
<1>3. Distinct' /\ HeapOrder' /\ Rising' /\ Sinking'
  BY <1>1 DEF IInv, Peek, Distinct, HeapOrder, Rising, Sinking, Ownership, InOrder, Bridge
<1> QED
  BY <1>2, <1>3 DEF IInv

LEMMA StutterIInv ==
  ASSUME IInv, UNCHANGED vars
  PROVE  IInv'
BY DEF IInv, vars, TypeOK, Ownership, Distinct, HeapOrder, Rising, Sinking, NoLostWakeup,
       WokenFindsItsCondition, Waiting, Contents, IsFull, Bridge, InOrder
-----------------------------------------------------------------------------
(* IInv holds in every reachable state of the class: the tree, the mutex   *)
(* and the two condition variables stay consistent through every           *)
(* interleaving of insert with popMin and peekMin.                         *)
THEOREM Invariance ==
  ASSUME FreshTop = {0}
  PROVE  Spec => []IInv
<1>1. Init => IInv
  BY InitIInv
<1>2. IInv /\ [Next]_vars => IInv'
  <2> SUFFICES ASSUME IInv, [Next]_vars
               PROVE  IInv'
    OBVIOUS
  <2>1. ASSUME NEW m \in Message, InsertWait(m)
        PROVE  IInv'
    BY <2>1, InsertWaitIInv
  <2>2. ASSUME NEW m \in Message, InsertStore(m)
        PROVE  IInv'
    BY <2>2, InsertStoreIInv
  <2>3. CASE InsertResume
    BY <2>3, InsertResumeIInv
  <2>4. CASE SiftUp
    BY <2>4, SiftUpIInv
  <2>5. CASE InsertEnd
    BY <2>5, InsertEndIInv
  <2>6. ASSUME NEW call \in {"pop", "peek"}, ReadWait(call)
        PROVE  IInv'
    BY <2>6, ReadWaitIInv
  <2>7. CASE PopTake
    BY <2>7, PopTakeIInv
  <2>8. CASE SiftDown
    BY <2>8, SiftDownIInv
  <2>9. CASE PopEnd
    BY <2>9, PopEndIInv
  <2>10. CASE Peek
    BY <2>10, PeekIInv
  <2>11. CASE UNCHANGED vars
    BY <2>11, StutterIInv
  <2> QED
    BY <2>1, <2>2, <2>3, <2>4, <2>5, <2>6, <2>7, <2>8, <2>9, <2>10, <2>11 DEF Next
<1> QED
  BY <1>1, <1>2, PTL DEF Spec

(* The array is never indexed outside its bounds, whatever its size. *)
THEOREM TypeCorrect ==
  ASSUME FreshTop = {0}
  PROVE  Spec => []TypeOK
<1>1. IInv => TypeOK
  BY DEF IInv
<1> QED
  BY <1>1, Invariance, PTL

(* Whoever takes the mutex finds a heap. *)
THEOREM Ordered ==
  ASSUME FreshTop = {0}
  PROVE  Spec => []HeapOrder
<1>1. IInv => HeapOrder
  BY DEF IInv
<1> QED
  BY <1>1, Invariance, PTL

(* No thread sleeps while what it waits for is there and nobody is about   *)
(* to say so.                                                              *)
THEOREM NoSleeperMissed ==
  ASSUME FreshTop = {0}
  PROVE  Spec => []NoLostWakeup
<1>1. IInv => NoLostWakeup
  BY DEF IInv
<1> QED
  BY <1>1, Invariance, PTL

(* The if around pthread_cond_wait is enough for one reader and one writer *)
(* as long as nothing but a broadcast ends the wait.                       *)
THEOREM IfIsEnough ==
  ASSUME FreshTop = {0}
  PROVE  Spec => []WokenFindsItsCondition
<1>1. IInv => WokenFindsItsCondition
  BY DEF IInv
<1> QED
  BY <1>1, Invariance, PTL
-----------------------------------------------------------------------------
(* A set of indices that is not empty has a least element. *)
LEMMA LeastIndex ==
  ASSUME NEW S \in SUBSET Nat, S # {}
  PROVE  \E k \in S : \A j \in S : ~ (j < k)
<1> DEFINE R == {jk \in Nat \X Nat : jk[1] < jk[2]}
<1>1. IsWellFoundedOn(R, Nat)
  BY NatLessThanWellFounded DEF OpToRel
<1> HIDE DEF R
<1>2. \E k \in S : \A j \in S : ~ (<<j, k>> \in R)
  BY <1>1, WFMin
<1> QED
  BY <1>2 DEF R

(* In a heap no element is earlier than the root: the first element that   *)
(* were earlier would be earlier than its parent, too.                     *)
LEMMA RootIsEarliest ==
  ASSUME TypeOK, HeapOrder, mMutex = "free", NEW n \in 0 .. mTop - 1
  PROVE  mArray[0].time <= mArray[n].time
<1> DEFINE Early == {k \in 0 .. mTop - 1 : mArray[k].time < mArray[0].time}
<1>1. \A k \in 0 .. mTop - 1 : k \in Index /\ mArray[k].time \in Nat
  <2>1. 0 .. mTop - 1 \subseteq Index
    BY SizeAssumption DEF TypeOK, Index
  <2> QED
    BY <2>1, Times
<1>2. 0 \in 0 .. mTop - 1 /\ mTop \in Nat
  BY SizeAssumption DEF TypeOK
<1>3. Early = {}
  <2> SUFFICES ASSUME Early # {}
               PROVE  FALSE
    OBVIOUS
  <2>1. Early \in SUBSET Nat
    OBVIOUS
  <2> HIDE DEF Early
  <2>2. PICK k \in Early : \A j \in Early : ~ (j < k)
    BY <2>1, LeastIndex
  <2> USE DEF Early
  <2>3. k # 0 /\ k \in 1 .. mTop - 1
    BY <1>1, <1>2
  <2>4. Parent(k) \in 0 .. mTop - 1 /\ Parent(k) < k
    BY <2>3, <1>2, ParentFacts
  <2>5. mArray[Parent(k)].time <= mArray[k].time
    BY <2>3 DEF HeapOrder
  <2>6. Parent(k) \in Early
    BY <2>4, <2>5, <1>1, <1>2
  <2> QED
    BY <2>2, <2>4, <2>6
<1> QED
  BY <1>1, <1>2, <1>3

(* The root is an earliest message in the sense of the queue. *)
LEMMA RootEarliest ==
  ASSUME IInv, NEW call \in {"pop", "peek"}, Reading(call)
  PROVE  mArray[0] \in Message /\ Queue!Earliest(mArray[0])
<1>1. mSize \in Nat /\ mTop \in 1 .. mSize - 1 /\ mMutex = "free" /\ mArray[0] \in Contents
  BY ReadingFacts
<1>2. mArray[0] \in Message
  BY <1>1 DEF IInv, Distinct
<1>3. ASSUME NEW m \in Contents
      PROVE  mArray[0].time <= m.time
  <2>1. PICK n \in Index : n < mTop /\ m = mArray[n]
    BY <1>3 DEF Contents
  <2>2. n \in 0 .. mTop - 1
    BY <2>1, <1>1 DEF Index
  <2> QED
    BY <2>1, <2>2, <1>1, RootIsEarliest DEF IInv
<1> QED
  BY <1>1, <1>2, <1>3 DEF Queue!Earliest

(* The heap holds no more messages than elements. *)
LEMMA ContentsBound ==
  ASSUME TypeOK
  PROVE  Cardinality(Contents) \in Nat /\ Cardinality(Contents) <= mTop
<1> DEFINE Used == 0 .. mTop - 1
           f == [k \in Used |-> mArray[k]]
<1>1. mTop \in Nat /\ mSize \in Nat /\ mTop \in 0 .. mSize - 1
  BY SizeAssumption DEF TypeOK
<1>2. IsFiniteSet(Used) /\ Cardinality(Used) = mTop
  BY <1>1, FS_Interval
<1>3. f \in Surjection(Used, Contents)
  <2>1. \A k \in Used : k \in Index /\ k < mTop
    BY <1>1 DEF Index
  <2>2. f \in [Used -> Contents]
    BY <2>1 DEF Contents
  <2>3. ASSUME NEW m \in Contents
        PROVE  \E k \in Used : f[k] = m
    <3>1. PICK k \in Index : k < mTop /\ m = mArray[k]
      BY <2>3 DEF Contents
    <3>2. k \in Used
      BY <3>1, <1>1 DEF Index
    <3> QED
      BY <3>1, <3>2
  <2> QED
    BY <2>2, <2>3 DEF Surjection
<1> HIDE DEF Used, f
<1>4. IsFiniteSet(Contents) /\ Cardinality(Contents) <= Cardinality(Used)
  BY <1>2, <1>3, FS_Surjection
<1> QED
  BY <1>2, <1>4, FS_CardinalityType

(* Storing a message is the Insert of the queue. *)
LEMMA StoreInserts ==
  ASSUME IInv, NEW m \in Message \ Contents, ~IsFull, Store(m), UNCHANGED min
  PROVE  Queue!Insert(m)
<1>1. mSize \in Nat /\ mTop \in 0 .. mSize - 2 /\ mTop \in Index /\ mTop' = mTop + 1
  BY SizeAssumption DEF IInv, TypeOK, IsFull, Store, Index
<1>2. mArray'[mTop] = m /\ \A k \in Index \ {mTop} : mArray'[k] = mArray[k]
  BY <1>1 DEF IInv, TypeOK, Store
<1>3. Contents' = Contents \cup {m}
  <2>1. \A k \in Index : k < mTop' <=> k < mTop \/ k = mTop
    BY <1>1 DEF Index
  <2> QED
    BY <1>1, <1>2, <2>1 DEF Contents
<1>4. Cardinality(Contents) < mSize - 1
  BY <1>1, ContentsBound DEF IInv
<1>5. Queue!Cardinality(Contents) = Cardinality(Contents)
  BY DEF Cardinality, Queue!Cardinality
<1> QED
  BY <1>3, <1>4, <1>5 DEF Queue!Insert

(* popMin takes an earliest message out and keeps the others. *)
LEMMA PopTakePops ==
  ASSUME IInv, PopTake
  PROVE  mArray[0] \in Message /\ Queue!PopMin(mArray[0])
<1>1. mArray[0] \in Message /\ Queue!Earliest(mArray[0])
  BY RootEarliest DEF PopTake
<1>2. /\ mSize \in Nat /\ mTop \in 1 .. mSize - 1 /\ mTop' = mTop - 1
      /\ mTop - 1 \in Index /\ 0 \in Index /\ LastSlot = mTop - 1
  BY ReadingFacts DEF PopTake, LastSlot
<1>3. mArray'[0] = mArray[mTop - 1] /\ \A k \in Index \ {0} : mArray'[k] = mArray[k]
  BY <1>2 DEF PopTake, IInv, TypeOK
<1>4. \A j, k \in 0 .. mTop - 1 : mArray[j] = mArray[k] => j = k
  BY DEF IInv, Distinct
<1>5. Contents' = Contents \ {mArray[0]}
  <2>1. ASSUME NEW k \in Index, k < mTop'
        PROVE  mArray'[k] \in Contents /\ mArray'[k] # mArray[0]
    <3>1. CASE k = 0
      <4>1. mTop - 1 \in 0 .. mTop - 1 /\ 0 \in 0 .. mTop - 1 /\ mTop - 1 # 0
        BY <3>1, <2>1, <1>2
      <4>2. mArray[mTop - 1] # mArray[0]
        BY <4>1, <1>4
      <4>3. mArray[mTop - 1] \in Contents
        BY <1>2 DEF Contents
      <4> QED
        BY <3>1, <4>2, <4>3, <1>3
    <3>2. CASE k # 0
      <4>1. k \in 0 .. mTop - 1 /\ 0 \in 0 .. mTop - 1 /\ k < mTop
        BY <2>1, <1>2 DEF Index
      <4>2. mArray'[k] = mArray[k]
        BY <3>2, <1>3
      <4> QED
        BY <3>2, <4>1, <4>2, <1>4 DEF Contents
    <3> QED
      BY <3>1, <3>2
  <2>2. ASSUME NEW k \in Index, k < mTop, mArray[k] # mArray[0]
        PROVE  mArray[k] \in Contents'
    <3>1. CASE k = mTop - 1
      <4>1. 0 < mTop' /\ mArray'[0] = mArray[k]
        BY <3>1, <2>2, <1>2, <1>3
      <4> QED
        BY <4>1, <1>2 DEF Contents
    <3>2. CASE k # mTop - 1
      <4>1. k < mTop' /\ mArray'[k] = mArray[k]
        BY <3>2, <2>2, <1>2, <1>3 DEF Index
      <4> QED
        BY <4>1 DEF Contents
    <3> QED
      BY <3>1, <3>2
  <2>3. \A m \in Contents' : m \in Contents /\ m # mArray[0]
    BY <2>1 DEF Contents
  <2>4. \A m \in Contents : m # mArray[0] => m \in Contents'
    <3> SUFFICES ASSUME NEW m \in Contents, m # mArray[0]
                 PROVE  m \in Contents'
      OBVIOUS
    <3>1. PICK k \in Index : k < mTop /\ m = mArray[k]
      BY DEF Contents
    <3> QED
      BY <3>1, <2>2
  <2> QED
    BY <2>3, <2>4
<1> QED
  BY <1>1, <1>5 DEF PopTake, Queue!PopMin

(* The class implements the queue of module MidiQueue: every interleaving  *)
(* of insert, popMin and peekMin, with their waits and their loops, looks  *)
(* like a sequence of atomic calls that return an earliest message, lose   *)
(* none and never hold more than mSize - 1 of them.                        *)
THEOREM ImplementsQueue ==
  ASSUME FreshTop = {0}
  PROVE  Spec => ImplementsMidiQueue
<1>1. Init => Queue!Init
  BY DEF Init, Queue!Init, Contents, Index
<1>2. IInv /\ [Next]_vars => [Queue!Next]_(Queue!vars)
  <2> SUFFICES ASSUME IInv, [Next]_vars
               PROVE  Queue!Next \/ UNCHANGED Queue!vars
    OBVIOUS
  <2>1. ASSUME NEW m \in Message, InsertWait(m)
        PROVE  UNCHANGED Queue!vars
    BY <2>1 DEF InsertWait, Contents, Queue!vars
  <2>2. ASSUME NEW m \in Message, InsertStore(m)
        PROVE  Queue!Insert(m)
    BY <2>2, StoreInserts DEF InsertStore
  <2>3. CASE InsertResume
    <3>1. msg \in Message \ Contents /\ ~IsFull
      BY <2>3 DEF InsertResume, IInv, Ownership, WokenFindsItsCondition
    <3>2. Queue!Insert(msg)
      BY <3>1, <2>3, StoreInserts DEF InsertResume
    <3> QED
      BY <3>1, <3>2 DEF Queue!Next
  <2>4. CASE SiftUp
    <3>1. i \in Index /\ i \in Nat /\ i < mTop /\ i > 0
      BY <2>4, RootFacts DEF SiftUp, MustRise, IInv, TypeOK, Rising, Index
    <3>2. Parent(i) \in Index /\ Parent(i) < mTop /\ Parent(i) # i
      BY <3>1, ParentFacts, SizeAssumption DEF IInv, TypeOK, Index
    <3> QED
      BY <3>1, <3>2, <2>4, SwapContents DEF SiftUp, IInv, Queue!vars
  <2>5. CASE InsertEnd
    BY <2>5 DEF InsertEnd, Contents, Queue!vars
  <2>6. ASSUME NEW call \in {"pop", "peek"}, ReadWait(call)
        PROVE  UNCHANGED Queue!vars
    BY <2>6 DEF ReadWait, Contents, Queue!vars
  <2>7. CASE PopTake
    BY <2>7, PopTakePops DEF Queue!Next
  <2>8. CASE SiftDown
    <3>1. /\ i \in Index /\ EarlierChild \in Index /\ EarlierChild # i
          /\ i < EarlierChild /\ EarlierChild < mTop
      BY <2>8, EarlierChildFacts DEF SiftDown, MustSink, IInv, TypeOK, Index
    <3>2. i < mTop
      BY <3>1, SizeAssumption DEF IInv, TypeOK, Index
    <3> QED
      BY <3>1, <3>2, <2>8, SwapContents DEF SiftDown, IInv, Queue!vars
  <2>9. CASE PopEnd
    BY <2>9 DEF PopEnd, Contents, Queue!vars
  <2>10. CASE Peek
    <3>1. mArray[0] \in Message /\ Queue!PeekMin(mArray[0])
      BY <2>10, RootEarliest DEF Peek, Queue!PeekMin, Contents
    <3> QED
      BY <3>1 DEF Queue!Next
  <2>11. CASE UNCHANGED vars
    BY <2>11 DEF vars, Contents, Queue!vars
  <2> QED
    BY <2>1, <2>2, <2>3, <2>4, <2>5, <2>6, <2>7, <2>8, <2>9, <2>10, <2>11
       DEF Next, Queue!Next
<1> QED
  BY <1>1, <1>2, Invariance, PTL DEF Spec, ImplementsMidiQueue, Queue!Spec
=============================================================================

------------------------------ MODULE MidiHeap ------------------------------
(***************************************************************************)
(* Class MidiHeap (src/midiheap.cpp): a binary heap in an array, guarded   *)
(* by a mutex and two condition variables.  Two threads use it: the        *)
(* "writer" is the main thread, which inserts, and the "reader" is         *)
(* bufferProcessingThread, which peeks and pops (src/jackengine.cpp).      *)
(*                                                                         *)
(* Every iteration of the two sifting loops is a step.  What a call does   *)
(* between taking the mutex and its loop is one step, because no other     *)
(* thread touches the heap while the mutex is held.  The local variables   *)
(* of the thread inside its loop (i) and of the call that waits (msg) are  *)
(* state.  (size_t)-1, which the code uses for "no such index", is -1.     *)
(***************************************************************************)
EXTENDS Integers, FiniteSets

CONSTANTS
  Message,   (* what the writer inserts: records [id, time, port]          *)
  Blank,     (* what MidiMessage() constructs                              *)
  mSize,     (* the size of the array                                      *)
  FreshTop   (* the values of mTop, which no constructor sets, after new   *)

ASSUME SizeAssumption == mSize \in Nat /\ mSize >= 2

ASSUME MessageAssumption ==
  /\ Blank \notin Message
  /\ \A m \in Message \cup {Blank} : m.time \in Nat /\ m.port \in Nat

ASSUME FreshTopAssumption == FreshTop \subseteq Nat

VARIABLES
  mArray,    (* the array, indexed from 0                                  *)
  mTop,      (* the number of elements                                     *)
  mMutex,    (* who holds the mutex: "free", "writer" or "reader"          *)
  blocked,   (* the threads inside pthread_cond_wait                       *)
  writer,    (* the writer is "idle", past the wait of an "insert", or     *)
             (* "sifting" in its loop                                      *)
  reader,    (* the reader is "idle", past the wait of a "pop" or a        *)
             (* "peek", or "sifting" in bubbleDown                         *)
  i,         (* the index the sifting thread is at                         *)
  msg,       (* the argument of the insert that waits                      *)
  min        (* the message the last popMin or peekMin picked              *)

vars == <<mArray, mTop, mMutex, blocked, writer, reader, i, msg, min>>

-----------------------------------------------------------------------------
Index == 0 .. mSize - 1

Parent(k) == (k + 1) \div 2 - 1
LChild(k) == (k + 1) * 2 - 1
RChild(k) == (k + 1) * 2

Swapped(a, j, k) == [a EXCEPT ![j] = a[k], ![k] = a[j]]

Contents == {mArray[k] : k \in {k \in Index : k < mTop}}

(* Mutated form of IMin, which forgets to compare the two children. *)
IMinFirst(j, k) == IF j < mTop THEN j ELSE IF k < mTop THEN k ELSE -1

(* The index of the earlier of two elements, by time and then by port; the *)
(* one that exists when only one does; -1 when neither does.               *)
IMin(j, k) ==
  IF j < mTop /\ k < mTop
  THEN IF \/ mArray[j].time < mArray[k].time
          \/ mArray[j].time = mArray[k].time /\ mArray[j].port < mArray[k].port
       THEN j ELSE k
  ELSE IF j < mTop THEN j ELSE IF k < mTop THEN k ELSE -1

(* Mutated form of IsFull, which fills the array past its end. *)
IsFullOffByTwo == mTop - 1 >= mSize

(* One slot of the array always stays empty. *)
IsFull == mTop + 1 >= mSize

(* Mutated form of LastSlot, one too far. *)
PastLastSlot == mTop

LastSlot == mTop - 1

(* Mutated form of WakeReader and of WakeWriter, which forgets to signal. *)
WakeNobody == blocked' = blocked

(* The broadcasts of mbCanRead and mbCanWrite. *)
WakeReader == blocked' = blocked \ {"reader"}
WakeWriter == blocked' = blocked \ {"writer"}

(* Mutated form of Waiting, where nobody waits. *)
NoWait(t) == FALSE

(* Whether the thread is still inside pthread_cond_wait. *)
Waiting(t) == t \in blocked
-----------------------------------------------------------------------------
Init ==
  /\ mArray = [k \in Index |-> Blank]
  /\ mTop \in FreshTop
  /\ mMutex = "free"
  /\ blocked = {}
  /\ writer = "idle" /\ reader = "idle"
  /\ i = 0
  /\ msg = Blank /\ min = Blank

(* insert finds no space: pthread_cond_wait releases the mutex. *)
InsertWait(m) ==
  /\ writer = "idle" /\ mMutex = "free"
  /\ m \notin Contents
  /\ IsFull
  /\ writer' = "insert" /\ msg' = m
  /\ blocked' = blocked \cup {"writer"}
  /\ UNCHANGED <<mArray, mTop, mMutex, reader, i, min>>

(* The new element goes to the end of the array. *)
Store(m) ==
  /\ mMutex = "free" /\ mMutex' = "writer"
  /\ mArray' = [mArray EXCEPT ![mTop] = m]
  /\ i' = mTop /\ mTop' = mTop + 1
  /\ writer' = "sifting"

(* insert finds space at once. *)
InsertStore(m) ==
  /\ writer = "idle"
  /\ m \notin Contents
  /\ ~IsFull
  /\ Store(m)
  /\ UNCHANGED <<blocked, reader, msg, min>>

(* The insert that waited goes on; the code does not look again (if, not   *)
(* while) at whether there is space.                                       *)
InsertResume ==
  /\ writer = "insert" /\ ~Waiting("writer")
  /\ Store(msg)
  /\ UNCHANGED <<blocked, reader, msg, min>>

MustRise == Parent(i) # -1 /\ mArray[i].time < mArray[Parent(i)].time

(* One iteration of the loop of insert. *)
SiftUp ==
  /\ writer = "sifting"
  /\ MustRise
  /\ mArray' = Swapped(mArray, i, Parent(i))
  /\ i' = Parent(i)
  /\ UNCHANGED <<mTop, mMutex, blocked, writer, reader, msg, min>>

(* The loop of insert ends, mbCanRead is signalled and the mutex released. *)
InsertEnd ==
  /\ writer = "sifting"
  /\ ~MustRise
  /\ WakeReader
  /\ writer' = "idle" /\ mMutex' = "free"
  /\ UNCHANGED <<mArray, mTop, reader, i, msg, min>>

(* popMin or peekMin finds the heap empty and waits. *)
ReadWait(call) ==
  /\ reader = "idle" /\ mMutex = "free"
  /\ mTop = 0
  /\ reader' = call
  /\ blocked' = blocked \cup {"reader"}
  /\ UNCHANGED <<mArray, mTop, mMutex, writer, i, msg, min>>

(* The reader is in the call, past its wait if it had to wait. *)
Reading(call) ==
  /\ mMutex = "free"
  /\ \/ reader = "idle" /\ mTop # 0
     \/ reader = call /\ ~Waiting("reader")

(* popMin takes the root and moves the last element there. *)
PopTake ==
  /\ Reading("pop")
  /\ min' = mArray[0]
  /\ mArray' = [mArray EXCEPT ![0] = mArray[LastSlot]]
  /\ mTop' = mTop - 1
  /\ i' = 0
  /\ reader' = "sifting" /\ mMutex' = "reader"
  /\ UNCHANGED <<blocked, writer, msg>>

EarlierChild == IMin(LChild(i), RChild(i))

MustSink == EarlierChild # -1 /\ mArray[i].time > mArray[EarlierChild].time

(* One iteration of the loop of bubbleDown. *)
SiftDown ==
  /\ reader = "sifting"
  /\ MustSink
  /\ mArray' = Swapped(mArray, i, EarlierChild)
  /\ i' = EarlierChild
  /\ UNCHANGED <<mTop, mMutex, blocked, writer, reader, msg, min>>

(* bubbleDown ends, mbCanWrite is signalled and the mutex released. *)
PopEnd ==
  /\ reader = "sifting"
  /\ ~MustSink
  /\ WakeWriter
  /\ reader' = "idle" /\ mMutex' = "free"
  /\ UNCHANGED <<mArray, mTop, writer, i, msg, min>>

(* peekMin copies the root. *)
Peek ==
  /\ Reading("peek")
  /\ min' = mArray[0]
  /\ reader' = "idle"
  /\ UNCHANGED <<mArray, mTop, mMutex, blocked, writer, i, msg>>

Next ==
  \/ \E m \in Message : InsertWait(m) \/ InsertStore(m)
  \/ InsertResume \/ SiftUp \/ InsertEnd
  \/ \E call \in {"pop", "peek"} : ReadWait(call)
  \/ PopTake \/ SiftDown \/ PopEnd
  \/ Peek

Spec == Init /\ [][Next]_vars

(* No thread stops inside a call, and the reader goes on popping what      *)
(* there is, which is what bufferProcessingThread does as long as messages *)
(* become due.  Nothing makes the writer insert.                           *)
FairSpec ==
  /\ Spec
  /\ WF_vars(InsertResume) /\ WF_vars(SiftUp) /\ WF_vars(InsertEnd)
  /\ WF_vars(PopTake) /\ WF_vars(SiftDown) /\ WF_vars(PopEnd) /\ WF_vars(Peek)
-----------------------------------------------------------------------------
(* The types of the variables; the array is never indexed outside its      *)
(* bounds, and one of its slots stays free.                                *)
TypeOK ==
  /\ mArray \in [Index -> Message \cup {Blank}]
  /\ mTop \in 0 .. mSize - 1
  /\ mMutex \in {"free", "writer", "reader"}
  /\ blocked \subseteq {"writer", "reader"}
  /\ writer \in {"idle", "insert", "sifting"}
  /\ reader \in {"idle", "pop", "peek", "sifting"}
  /\ i \in Index
  /\ msg \in Message \cup {Blank}
  /\ min \in Message \cup {Blank}

(* Whoever finds the mutex free finds a heap: no element is earlier than   *)
(* its parent.  Both sifting loops have repaired the whole tree before the *)
(* mutex is released.                                                      *)
HeapOrder ==
  mMutex = "free" =>
    \A k \in 1 .. mTop - 1 : mArray[Parent(k)].time <= mArray[k].time

(* Nobody waits in vain: a thread sleeps on a condition variable only      *)
(* while the condition it waits for is false, or while the thread that has *)
(* just made it true still holds the mutex and is about to signal.         *)
NoLostWakeup ==
  /\ Waiting("writer") => IsFull \/ mMutex = "reader"
  /\ Waiting("reader") => mTop = 0 \/ mMutex = "writer"

(* A thread that has stopped waiting finds what it waited for, although    *)
(* the code does not look again: with one reader and one writer nobody can *)
(* take the element or the slot between the signal and the wakeup.         *)
WokenFindsItsCondition ==
  /\ writer = "insert" /\ ~Waiting("writer") => ~IsFull
  /\ reader \in {"pop", "peek"} /\ ~Waiting("reader") => mTop > 0

(* The class implements the queue its header describes, one slot smaller   *)
(* than the array: what is accepted is kept until it is popped, popMin and *)
(* peekMin return an earliest element, also across concurrent calls.       *)
Queue == INSTANCE MidiQueue WITH
           Capacity <- mSize - 1, content <- Contents, out <- min

ImplementsMidiQueue == Queue!Spec

(* An insert that finds the heap full returns as long as the reader pops:  *)
(* the if around pthread_cond_wait neither loses the signal nor the slot.  *)
InsertReturns == writer = "insert" ~> writer = "idle"
-----------------------------------------------------------------------------
(* The invariant behind the properties above, in parts.                    *)

(* The order between k and its parent. *)
InOrder(k) == mArray[Parent(k)].time <= mArray[k].time

(* The children of the element at i are not earlier than the parent of i,  *)
(* so that swapping i away, up or down, leaves no other pair out of order. *)
Bridge ==
  \A k \in 1 .. mTop - 1 :
    Parent(k) = i /\ i > 0 => mArray[Parent(i)].time <= mArray[k].time

(* In the loop of insert only the element at i may precede its parent.     *)
Rising ==
  writer = "sifting" =>
    /\ i < mTop
    /\ Bridge
    /\ \A k \in 1 .. mTop - 1 : k # i => InOrder(k)

(* In bubbleDown only the children of the element at i may precede it; a   *)
(* slot has just been freed.                                               *)
Sinking ==
  reader = "sifting" =>
    /\ mTop <= mSize - 2
    /\ Bridge
    /\ \A k \in 1 .. mTop - 1 : Parent(k) # i => InOrder(k)

(* The mutex belongs to the thread in a loop; only a thread inside a call  *)
(* waits; the message that waits is not in the heap yet.                   *)
Ownership ==
  /\ mMutex = "writer" <=> writer = "sifting"
  /\ mMutex = "reader" <=> reader = "sifting"
  /\ Waiting("writer") => writer = "insert"
  /\ Waiting("reader") => reader \in {"pop", "peek"}
  /\ writer = "insert" => msg \in Message \ Contents

(* The elements are inserted messages, each of them at one place.          *)
Distinct ==
  /\ \A k \in 0 .. mTop - 1 : mArray[k] \in Message
  /\ \A j, k \in 0 .. mTop - 1 : mArray[j] = mArray[k] => j = k

(* The inductive invariant of the heap: it implies HeapOrder,              *)
(* NoLostWakeup and WokenFindsItsCondition and is kept by every step.      *)
IInv ==
  /\ TypeOK /\ Ownership /\ Distinct
  /\ HeapOrder /\ Rising /\ Sinking
  /\ NoLostWakeup /\ WokenFindsItsCondition
=============================================================================

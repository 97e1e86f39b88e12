------------------------ MODULE BlockingQueueProofs ------------------------
(***************************************************************************)
(* Proofs about module BlockingQueue, for any number of producers,         *)
(* consumers and items and any bound on the number of put calls.           *)
(*                                                                         *)
(* None of TypeOK, MutexInv and PopSafe is inductive alone.  That the      *)
(* queue is still not empty when pull pops (PopSafe) rests on mutual       *)
(* exclusion (MutexInv); that the queue holds items, and no more than were *)
(* put (TypeOK), on what a put carries between its lock and its push       *)
(* (ValInv, PutCount).  IInv is their conjunction.                         *)
(***************************************************************************)
EXTENDS BlockingQueue, SequenceTheorems, FiniteSetTheorems, TLAPS

\* A producer carries an item until put returns; a consumer has one exactly
\* between its pop and its return.
ValInv == /\ \A p \in Producers : pc[p] \in {"push", "signal", "unlock"} => val[p] \in Values
          /\ \A c \in Consumers : val[c] \in Values <=> pc[c] = "unlock"

\* A put that is counted and not yet pushed leaves room for its item.
PutCount == \A p \in Producers : pc[p] = "push" => Len(queue) < puts

IInv == TypeOK /\ MutexInv /\ PopSafe /\ ValInv /\ PutCount

USE ThreadsAssumption, ValuesAssumption, MaxPutsAssumption

\* Appending to and removing from the queue of items.
LEMMA QueueFacts ==
  ASSUME NEW q \in Seq(Values), NEW v \in Values
  PROVE  /\ Append(q, v) \in Seq(Values)
         /\ Len(Append(q, v)) = Len(q) + 1
         /\ Append(q, v) # <<>>
         /\ Len(q) \in Nat
         /\ q # <<>> => /\ Head(q) \in Values
                        /\ Tail(q) \in Seq(Values)
                        /\ Len(Tail(q)) = Len(q) - 1
<1>1. /\ Append(q, v) \in Seq(Values)
      /\ Len(Append(q, v)) = Len(q) + 1
      /\ Len(q) \in Nat
  BY AppendProperties, LenProperties
<1>2. Append(q, v) # <<>>
  BY <1>1, EmptySeq
<1>3. ASSUME q # <<>>
      PROVE  Head(q) \in Values /\ Tail(q) \in Seq(Values) /\ Len(Tail(q)) = Len(q) - 1
  BY <1>3, HeadTailProperties
<1> QED
  BY <1>1, <1>2, <1>3

\* The initial state satisfies the inductive invariant.
LEMMA InitIInv == Init => IInv
  BY DEF Init, IInv, TypeOK, MutexInv, PopSafe, ValInv, PutCount, Threads, InLock, PutPC, PullPC

\* Every step preserves the inductive invariant.
LEMMA NextIInv == IInv /\ [Next]_vars => IInv'
<1> SUFFICES ASSUME IInv, [Next]_vars PROVE IInv'
  OBVIOUS
<1> USE DEF IInv, TypeOK, Threads, PutPC, PullPC
<1>1. ASSUME NEW p \in Producers, NEW v \in Values, PutLock(p, v) PROVE IInv'
  <2>1. TypeOK'
    BY <1>1 DEF PutLock, PopSafe, ValInv, PutCount
  <2>2. MutexInv'
    BY <1>1 DEF PutLock, MutexInv, InLock
  <2>3. PopSafe'
    BY <1>1 DEF PutLock, PopSafe, MutexInv, InLock
  <2>4. ValInv'
    BY <1>1 DEF PutLock, ValInv, MutexInv, InLock
  <2>5. PutCount'
    BY <1>1 DEF PutLock, PutCount, MutexInv, InLock
  <2> QED
    BY <2>1, <2>2, <2>3, <2>4, <2>5
<1>2. ASSUME NEW p \in Producers, PutPush(p) PROVE IInv'
  <2>1. TypeOK'
    BY <1>2, QueueFacts DEF PutPush, PopSafe, ValInv, PutCount
  <2>2. MutexInv'
    BY <1>2, QueueFacts DEF PutPush, MutexInv, InLock
  <2>3. PopSafe'
    BY <1>2, QueueFacts DEF PutPush, PopSafe, MutexInv, InLock
  <2>4. ValInv'
    BY <1>2, QueueFacts DEF PutPush, ValInv, MutexInv, InLock
  <2>5. PutCount'
    BY <1>2, QueueFacts DEF PutPush, PutCount, MutexInv, InLock
  <2> QED
    BY <2>1, <2>2, <2>3, <2>4, <2>5
<1>3. ASSUME NEW p \in Producers, PutSignal(p) PROVE IInv'
  <2>1. TypeOK'
    BY <1>3 DEF PutSignal, Waiting, PopSafe, ValInv, PutCount
  <2>2. MutexInv'
    BY <1>3 DEF PutSignal, Waiting, MutexInv, InLock
  <2>3. PopSafe'
    BY <1>3 DEF PutSignal, Waiting, PopSafe, MutexInv, InLock
  <2>4. ValInv'
    BY <1>3 DEF PutSignal, Waiting, ValInv, MutexInv, InLock
  <2>5. PutCount'
    BY <1>3 DEF PutSignal, Waiting, PutCount, MutexInv, InLock
  <2> QED
    BY <2>1, <2>2, <2>3, <2>4, <2>5
<1>4. ASSUME NEW t \in Threads, Unlock(t) PROVE IInv'
  <2>1. TypeOK'
    BY <1>4 DEF Unlock, PopSafe, ValInv, PutCount
  <2>2. MutexInv'
    BY <1>4 DEF Unlock, MutexInv, InLock
  <2>3. PopSafe'
    BY <1>4 DEF Unlock, PopSafe, MutexInv, InLock
  <2>4. ValInv'
    BY <1>4 DEF Unlock, ValInv, MutexInv, InLock
  <2>5. PutCount'
    BY <1>4 DEF Unlock, PutCount, MutexInv, InLock
  <2> QED
    BY <2>1, <2>2, <2>3, <2>4, <2>5
<1>5. ASSUME NEW c \in Consumers, PullLock(c) PROVE IInv'
  <2>1. TypeOK'
    BY <1>5 DEF PullLock, PopSafe, ValInv, PutCount
  <2>2. MutexInv'
    BY <1>5 DEF PullLock, MutexInv, InLock
  <2>3. PopSafe'
    BY <1>5 DEF PullLock, PopSafe, MutexInv, InLock
  <2>4. ValInv'
    BY <1>5 DEF PullLock, ValInv, MutexInv, InLock
  <2>5. PutCount'
    BY <1>5 DEF PullLock, PutCount, MutexInv, InLock
  <2> QED
    BY <2>1, <2>2, <2>3, <2>4, <2>5
<1>6. ASSUME NEW c \in Consumers, PullTest(c) PROVE IInv'
  <2>1. TypeOK'
    BY <1>6 DEF PullTest, PopSafe, ValInv, PutCount
  <2>2. MutexInv'
    BY <1>6 DEF PullTest, MutexInv, InLock
  <2>3. PopSafe'
    BY <1>6 DEF PullTest, PopSafe, MutexInv, InLock
  <2>4. ValInv'
    BY <1>6 DEF PullTest, ValInv, MutexInv, InLock
  <2>5. PutCount'
    BY <1>6 DEF PullTest, PutCount, MutexInv, InLock
  <2> QED
    BY <2>1, <2>2, <2>3, <2>4, <2>5
<1>7. ASSUME NEW c \in Consumers, WaitReturn(c) PROVE IInv'
  <2>1. TypeOK'
    BY <1>7 DEF WaitReturn, PopSafe, ValInv, PutCount
  <2>2. MutexInv'
    BY <1>7 DEF WaitReturn, MutexInv, InLock
  <2>3. PopSafe'
    BY <1>7 DEF WaitReturn, PopSafe, MutexInv, InLock
  <2>4. ValInv'
    BY <1>7 DEF WaitReturn, ValInv, MutexInv, InLock
  <2>5. PutCount'
    BY <1>7 DEF WaitReturn, PutCount, MutexInv, InLock
  <2> QED
    BY <2>1, <2>2, <2>3, <2>4, <2>5
<1>8. ASSUME NEW c \in Consumers, PullPop(c) PROVE IInv'
  <2>1. TypeOK'
    BY <1>8, QueueFacts DEF PullPop, PopSafe, ValInv, PutCount
  <2>2. MutexInv'
    BY <1>8, QueueFacts DEF PullPop, MutexInv, InLock
  <2>3. PopSafe'
    BY <1>8, QueueFacts DEF PullPop, PopSafe, MutexInv, InLock
  <2>4. ValInv'
    BY <1>8, QueueFacts DEF PullPop, ValInv, MutexInv, InLock, PopSafe
  <2>5. PutCount'
    BY <1>8, QueueFacts DEF PullPop, PutCount, MutexInv, InLock
  <2> QED
    BY <2>1, <2>2, <2>3, <2>4, <2>5
<1>9. ASSUME NEW c \in Consumers, SpuriousWakeup(c) PROVE IInv'
  <2>1. TypeOK'
    BY <1>9 DEF SpuriousWakeup, PopSafe, ValInv, PutCount
  <2>2. MutexInv'
    BY <1>9 DEF SpuriousWakeup, MutexInv, InLock
  <2>3. PopSafe'
    BY <1>9 DEF SpuriousWakeup, PopSafe, MutexInv, InLock
  <2>4. ValInv'
    BY <1>9 DEF SpuriousWakeup, ValInv, MutexInv, InLock
  <2>5. PutCount'
    BY <1>9 DEF SpuriousWakeup, PutCount, MutexInv, InLock
  <2> QED
    BY <2>1, <2>2, <2>3, <2>4, <2>5
<1>10. CASE UNCHANGED vars
  BY <1>10 DEF vars, MutexInv, PopSafe, ValInv, PutCount, InLock
<1> QED
  BY <1>1, <1>2, <1>3, <1>4, <1>5, <1>6, <1>7, <1>8, <1>9, <1>10 DEF Next, Put, Pull

\* The inductive invariant holds in every reachable state.
LEMMA Invariance == Spec => []IInv
  BY InitIInv, NextIInv, PTL DEF Spec

-----------------------------------------------------------------------------
(* Theorems *)

\* The variables of the queue always have their types, and the queue never
\* holds more items than put was called with.
THEOREM TypeCorrect == Spec => []TypeOK
  BY Invariance, PTL DEF IInv

\* put and pull exclude each other: the owner of mtx is the one thread between
\* its lock and its unlock.
THEOREM MutualExclusion == Spec => []MutexInv
  BY Invariance, PTL DEF IInv

\* pull never takes front() of an empty queue, however many threads are woken.
THEOREM PopIsSafe == Spec => []PopSafe
  BY Invariance, PTL DEF IInv

-----------------------------------------------------------------------------
(* Wakeups.  NoLostWakeup compares the length of the queue with the number *)
(* of threads on their way to it, so each step is measured by what it does *)
(* to the two sets of threads.                                             *)

Awake      == {c \in Consumers : pc[c] \in {"woken", "test", "pop"}}
Signalling == {p \in Producers : pc[p] = "signal"}

\* Cardinalities of a finite set, of a subset and of a set with an element
\* more or less.
LEMMA CardFacts ==
  ASSUME NEW S, IsFiniteSet(S), NEW x
  PROVE  /\ Cardinality(S) \in Nat
         /\ IsFiniteSet(S \cup {x}) /\ IsFiniteSet(S \ {x})
         /\ x \notin S => Cardinality(S \cup {x}) = Cardinality(S) + 1
         /\ x \in S => Cardinality(S \ {x}) = Cardinality(S) - 1
  BY FS_CardinalityType, FS_AddElement, FS_RemoveElement

\* The sets are finite.
LEMMA ThreadSetsFinite == /\ IsFiniteSet(Awake) /\ IsFiniteSet(Signalling)
                          /\ Cardinality(Awake) \in Nat /\ Cardinality(Signalling) \in Nat
<1>1. Awake \subseteq Consumers /\ Signalling \subseteq Producers
  BY DEF Awake, Signalling
<1> QED
  BY <1>1, FiniteAssumption, FS_Subset, FS_CardinalityType

\* Every step keeps the wakeups.
LEMMA NextNoLostWakeup == IInv /\ NoLostWakeup /\ [Next]_vars => NoLostWakeup'
<1> SUFFICES ASSUME IInv, NoLostWakeup, [Next]_vars PROVE NoLostWakeup'
  OBVIOUS
<1> DEFINE A == Cardinality(Awake)
           S == Cardinality(Signalling)
           L == Len(queue)
<1>1. A \in Nat /\ S \in Nat /\ L \in Nat
  BY ThreadSetsFinite, LenProperties DEF IInv, TypeOK
<1>2. NoLostWakeup <=> (Waiting # {} => L <= A + S)
  BY DEF NoLostWakeup, Awake, Signalling
<1>3. NoLostWakeup' <=> (Waiting' # {} => L' <= A' + S')
  BY DEF NoLostWakeup, Awake, Signalling
<1>4. ASSUME Waiting' \subseteq Waiting, L' = L, Awake' = Awake, Signalling' = Signalling PROVE NoLostWakeup'
  BY <1>1, <1>2, <1>3, <1>4
<1> HIDE DEF A, S, L
<1>5. ASSUME NEW c \in Consumers, c \notin Awake, Awake' = Awake \cup {c}, Signalling' = Signalling, L' = L,
             Waiting' \subseteq Waiting
      PROVE  NoLostWakeup'
  <2>1. A' = A + 1 /\ S' = S
    BY <1>5, CardFacts, ThreadSetsFinite DEF A, S
  <2> QED
    BY <1>1, <1>2, <1>3, <1>5, <2>1
<1> USE DEF IInv, TypeOK, Threads, PutPC, PullPC
<1>6. ASSUME NEW p \in Producers, NEW v \in Values, PutLock(p, v) PROVE NoLostWakeup'
  BY <1>4, <1>6 DEF PutLock, Awake, Signalling, Waiting, L
<1>7. ASSUME NEW p \in Producers, PutPush(p) PROVE NoLostWakeup'
  <2>1. Waiting' = Waiting /\ Awake' = Awake
    BY <1>7 DEF PutPush, Waiting, Awake
  <2>2. p \notin Signalling /\ Signalling' = Signalling \cup {p}
    BY <1>7 DEF PutPush, Signalling
  <2>3. L' = L + 1
    BY <1>7, QueueFacts DEF PutPush, ValInv, L
  <2>4. S' = S + 1 /\ A' = A
    BY <2>1, <2>2, CardFacts, ThreadSetsFinite DEF S, A
  <2> QED
    BY <1>1, <1>2, <1>3, <2>1, <2>3, <2>4
<1>8. ASSUME NEW p \in Producers, PutSignal(p) PROVE NoLostWakeup'
  <2>1. L' = L
    BY <1>8 DEF PutSignal, L
  <2>2. CASE Waiting = {} /\ pc' = [pc EXCEPT ![p] = "unlock"]
    <3>1. Waiting' = {}
      BY <2>2 DEF Waiting
    <3> QED
      BY <1>3, <3>1
  <2>3. ASSUME NEW c \in Waiting, pc' = [pc EXCEPT ![p] = "unlock", ![c] = "woken"] PROVE NoLostWakeup'
    <3>1. c \in Consumers /\ pc[c] = "wait" /\ p # c /\ pc[p] = "signal"
      BY <1>8 DEF Waiting, PutSignal
    <3>2. c \notin Awake /\ Awake' = Awake \cup {c}
      BY <2>3, <3>1 DEF Awake
    <3>3. p \in Signalling /\ Signalling' = Signalling \ {p}
      BY <2>3, <3>1 DEF Signalling
    <3>4. A' = A + 1 /\ S' = S - 1
      BY <3>2, <3>3, CardFacts, ThreadSetsFinite DEF A, S
    <3> QED
      BY <1>1, <1>2, <1>3, <2>1, <2>3, <3>4
  <2> QED
    BY <1>8, <2>2, <2>3 DEF PutSignal
<1>9. ASSUME NEW t \in Threads, Unlock(t) PROVE NoLostWakeup'
  BY <1>4, <1>9 DEF Unlock, Awake, Signalling, Waiting, L
<1>10. ASSUME NEW c \in Consumers, PullLock(c) PROVE NoLostWakeup'
  <2>1. c \notin Awake /\ Awake' = Awake \cup {c} /\ Signalling' = Signalling /\ Waiting' = Waiting /\ L' = L
    BY <1>10 DEF PullLock, Awake, Signalling, Waiting, L
  <2> QED
    BY <1>5, <2>1
<1>11. ASSUME NEW c \in Consumers, PullTest(c) PROVE NoLostWakeup'
  <2>1. CASE queue = <<>>
    <3>1. L' = 0
      BY <1>11, <2>1 DEF PullTest, L
    <3>2. A' \in Nat /\ S' \in Nat
      <4>1. Awake' \subseteq Consumers /\ Signalling' \subseteq Producers
        BY DEF Awake, Signalling
      <4> QED
        BY <4>1, FiniteAssumption, FS_Subset, FS_CardinalityType DEF A, S
    <3>3. L' <= A' + S'
      <4>1. \A a, s \in Nat : 0 <= a + s
        OBVIOUS
      <4>2. 0 <= A' + S'
        BY ONLY <3>2, <4>1, Zenon
      <4> QED
        BY ONLY <3>1, <4>2, Zenon
    <3> QED
      BY <1>3, <3>3
  <2>2. CASE queue # <<>>
    BY <1>4, <1>11, <2>2 DEF PullTest, Awake, Signalling, Waiting, L
  <2> QED
    BY <2>1, <2>2
<1>12. ASSUME NEW c \in Consumers, WaitReturn(c) PROVE NoLostWakeup'
  BY <1>4, <1>12 DEF WaitReturn, Awake, Signalling, Waiting, L
<1>13. ASSUME NEW c \in Consumers, PullPop(c) PROVE NoLostWakeup'
  <2>1. Waiting' = Waiting /\ Signalling' = Signalling
    BY <1>13 DEF PullPop, Waiting, Signalling
  <2>2. c \in Awake /\ Awake' = Awake \ {c}
    BY <1>13 DEF PullPop, Awake
  <2>3. L' = L - 1
    <3>1. queue # <<>> /\ queue \in Seq(Values)
      BY <1>13 DEF PullPop, PopSafe
    <3> QED
      BY <1>13, <3>1, HeadTailProperties DEF PullPop, L
  <2>4. A' = A - 1 /\ S' = S
    BY <2>1, <2>2, CardFacts, ThreadSetsFinite DEF S, A
  <2> QED
    BY <1>1, <1>2, <1>3, <2>1, <2>3, <2>4
<1>14. ASSUME NEW c \in Consumers, SpuriousWakeup(c) PROVE NoLostWakeup'
  <2>1. c \notin Awake /\ Awake' = Awake \cup {c} /\ Signalling' = Signalling /\ Waiting' \subseteq Waiting /\ L' = L
    BY <1>14 DEF SpuriousWakeup, Awake, Signalling, Waiting, L
  <2> QED
    BY <1>5, <2>1
<1>15. CASE UNCHANGED vars
  BY <1>4, <1>15 DEF vars, Awake, Signalling, Waiting, L
<1> QED
  BY <1>6, <1>7, <1>8, <1>9, <1>10, <1>11, <1>12, <1>13, <1>14, <1>15 DEF Next, Put, Pull

\* put's signal is never lost: while a pull waits, every queued item has a
\* thread awake on its way to it, or a put about to signal.
THEOREM WakeupsKept == Spec => []NoLostWakeup
<1>1. Init => NoLostWakeup
  BY DEF Init, NoLostWakeup, Waiting, Threads
<1> QED
  BY <1>1, Invariance, NextNoLostWakeup, PTL DEF Spec

-----------------------------------------------------------------------------
(* Refinement *)

Taken == [c \in Consumers |-> val[c]]

\* Steps that change neither the queue nor a consumer's item stutter in the
\* abstract queue.
LEMMA Stutter ==
  ASSUME queue' = queue, \A c \in Consumers : val'[c] = val[c]
  PROVE  [Fifo!Next]_(Fifo!vars)
<1>1. Taken' = Taken
  BY DEF Taken
<1> QED
  BY <1>1 DEF Fifo!vars, Taken

\* Every step of the queue is one of the abstract queue, or a stutter.
LEMMA StepRefines == IInv /\ [Next]_vars => [Fifo!Next]_(Fifo!vars)
<1> SUFFICES ASSUME IInv, [Next]_vars PROVE [Fifo!Next]_(Fifo!vars)
  OBVIOUS
<1> USE DEF IInv, TypeOK, Threads
<1>1. ASSUME NEW p \in Producers, NEW v \in Values, PutLock(p, v) PROVE [Fifo!Next]_(Fifo!vars)
  BY <1>1, Stutter DEF PutLock
<1>2. ASSUME NEW p \in Producers, PutPush(p) PROVE [Fifo!Next]_(Fifo!vars)
  <2>1. val[p] \in Values
    BY <1>2 DEF PutPush, ValInv
  <2>2. Fifo!Enqueue(val[p])
    BY <1>2 DEF PutPush, Fifo!Enqueue
  <2> QED
    BY <2>1, <2>2 DEF Fifo!Next
<1>3. ASSUME NEW p \in Producers, PutSignal(p) PROVE [Fifo!Next]_(Fifo!vars)
  BY <1>3, Stutter DEF PutSignal
<1>4. ASSUME NEW p \in Producers, Unlock(p) PROVE [Fifo!Next]_(Fifo!vars)
  BY <1>4, Stutter DEF Unlock
<1>5. ASSUME NEW c \in Consumers, Unlock(c) PROVE [Fifo!Next]_(Fifo!vars)
  <2>1. Taken[c] # NoValue
    BY <1>5 DEF Unlock, ValInv, Taken
  <2>2. Taken' = [Taken EXCEPT ![c] = NoValue]
    BY <1>5 DEF Unlock, Taken
  <2>3. Fifo!Return(c)
    BY <1>5, <2>1, <2>2 DEF Unlock, Taken, Fifo!Return
  <2> QED
    BY <2>3 DEF Fifo!Next
<1>6. ASSUME NEW c \in Consumers, PullLock(c) PROVE [Fifo!Next]_(Fifo!vars)
  BY <1>6, Stutter DEF PullLock
<1>7. ASSUME NEW c \in Consumers, PullTest(c) PROVE [Fifo!Next]_(Fifo!vars)
  BY <1>7, Stutter DEF PullTest
<1>8. ASSUME NEW c \in Consumers, WaitReturn(c) PROVE [Fifo!Next]_(Fifo!vars)
  BY <1>8, Stutter DEF WaitReturn
<1>9. ASSUME NEW c \in Consumers, PullPop(c) PROVE [Fifo!Next]_(Fifo!vars)
  <2>1. queue # <<>>
    BY <1>9 DEF PullPop, PopSafe
  <2>2. Taken[c] = NoValue
    BY <1>9 DEF PullPop, ValInv, Taken
  <2>3. Taken' = [Taken EXCEPT ![c] = Head(queue)]
    BY <1>9 DEF PullPop, Taken
  <2>4. Fifo!Dequeue(c)
    BY <1>9, <2>1, <2>2, <2>3 DEF PullPop, Taken, Fifo!Dequeue
  <2> QED
    BY <2>4 DEF Fifo!Next
<1>10. ASSUME NEW c \in Consumers, SpuriousWakeup(c) PROVE [Fifo!Next]_(Fifo!vars)
  BY <1>10, Stutter DEF SpuriousWakeup
<1>11. CASE UNCHANGED vars
  BY <1>11, Stutter DEF vars
<1> QED
  BY <1>1, <1>2, <1>3, <1>4, <1>5, <1>6, <1>7, <1>8, <1>9, <1>10, <1>11 DEF Next, Put, Pull

\* The blocking queue implements a first-in first-out queue with atomic put and
\* pull: no item is lost, duplicated, reordered or handed to two threads.
THEOREM Refinement == Spec => ImplementsFifo
<1>1. Init => Fifo!Init
  BY DEF Init, Fifo!Init, Threads
<1> QED
  BY <1>1, Invariance, StepRefines, PTL DEF Spec, ImplementsFifo, Fifo!Spec

=============================================================================

--------------------------- MODULE BlockingQueue ---------------------------
(***************************************************************************)
(* The blocking queue of user ids between the GPS data server (and the     *)
(* stop handler) and the broadcast threads: include/thread/BlockingQueue.h *)
(* over Mutex, ScopeLock and ConditionVariable (src/thread).               *)
(*                                                                         *)
(* One step is one call on the mutex, the condition variable or the        *)
(* std::queue.  ScopeLock's constructor is the lock step and its           *)
(* destructor, at the end of put and pull, the unlock step.  The pthread   *)
(* primitives are external: a lock step waits until the mutex has no       *)
(* owner; pthread_cond_wait gives the mutex up and starts waiting in one   *)
(* step and takes the mutex back before it returns; pthread_cond_signal    *)
(* wakes a waiting thread if there is one; a wait may end spuriously.      *)
(***************************************************************************)
EXTENDS Naturals, Sequences, FiniteSets

CONSTANTS Producers,  \* threads that call put
          Consumers,  \* threads that call pull
          Values,     \* queue items
          NoValue,    \* "no item"
          NoThread,   \* "mutex is free"
          MaxPuts     \* bound: number of put calls

Threads == Producers \cup Consumers

ASSUME ThreadsAssumption == Producers \cap Consumers = {} /\ NoThread \notin Threads
ASSUME FiniteAssumption  == IsFiniteSet(Producers) /\ IsFiniteSet(Consumers)
ASSUME ValuesAssumption  == NoValue \notin Values
ASSUME MaxPutsAssumption == MaxPuts \in Nat

VARIABLES queue,  \* BlockingQueue::queue, front first
          owner,  \* the thread that owns BlockingQueue::mtx
          pc,     \* where each thread is in put or pull; "out" when in neither
          val,    \* val[t]: put's argument, or the item pull is about to return
          puts    \* number of put calls so far

vars == <<queue, owner, pc, val, puts>>

PutPC  == {"out", "push", "signal", "unlock"}
PullPC == {"out", "test", "wait", "woken", "pop", "unlock"}

\* A thread between its lock and its unlock, other than in pthread_cond_wait.
InLock(t) == pc[t] \in {"push", "signal", "test", "pop", "unlock"}

Waiting == {c \in Consumers : pc[c] = "wait"}

Init == /\ queue = <<>>
        /\ owner = NoThread
        /\ pc = [t \in Threads |-> "out"]
        /\ val = [t \in Threads |-> NoValue]
        /\ puts = 0

-----------------------------------------------------------------------------
(* put(t): lock, push, signal, unlock *)

PutLock(p, v) == /\ pc[p] = "out" /\ puts < MaxPuts
                 /\ owner = NoThread
                 /\ owner' = p
                 /\ pc' = [pc EXCEPT ![p] = "push"]
                 /\ val' = [val EXCEPT ![p] = v]
                 /\ puts' = puts + 1
                 /\ UNCHANGED queue

\* Mutation: the item is pushed twice.
PushTwice(p) == /\ pc[p] = "push"
                /\ queue' = queue \o <<val[p], val[p]>>
                /\ pc' = [pc EXCEPT ![p] = "signal"]
                /\ UNCHANGED <<owner, val, puts>>

PutPush(p) == /\ pc[p] = "push"
              /\ queue' = Append(queue, val[p])
              /\ pc' = [pc EXCEPT ![p] = "signal"]
              /\ UNCHANGED <<owner, val, puts>>

\* Mutation: put signals only when the queue was empty before its push.
SignalOnlyFirst(p) == /\ pc[p] = "signal"
                      /\ \/ /\ Waiting = {} \/ Len(queue) > 1
                            /\ pc' = [pc EXCEPT ![p] = "unlock"]
                         \/ /\ Len(queue) = 1
                            /\ \E c \in Waiting :
                                 pc' = [pc EXCEPT ![p] = "unlock", ![c] = "woken"]
                      /\ UNCHANGED <<queue, owner, val, puts>>

\* Mutation: put does not signal.
SignalForgotten(p) == /\ pc[p] = "signal"
                      /\ pc' = [pc EXCEPT ![p] = "unlock"]
                      /\ UNCHANGED <<queue, owner, val, puts>>

PutSignal(p) == /\ pc[p] = "signal"
                /\ \/ /\ Waiting = {}
                      /\ pc' = [pc EXCEPT ![p] = "unlock"]
                   \/ \E c \in Waiting :
                        pc' = [pc EXCEPT ![p] = "unlock", ![c] = "woken"]
                /\ UNCHANGED <<queue, owner, val, puts>>

-----------------------------------------------------------------------------
(* pull(): lock, wait while the queue is empty, front and pop, unlock *)

PullLock(c) == /\ pc[c] = "out"
               /\ owner = NoThread
               /\ owner' = c
               /\ pc' = [pc EXCEPT ![c] = "test"]
               /\ UNCHANGED <<queue, val, puts>>

\* while(queue.empty()) cond.wait(lock)
PullTest(c) == /\ pc[c] = "test"
               /\ IF queue = <<>>
                  THEN /\ pc' = [pc EXCEPT ![c] = "wait"]
                       /\ owner' = NoThread
                  ELSE /\ pc' = [pc EXCEPT ![c] = "pop"]
                       /\ UNCHANGED owner
               /\ UNCHANGED <<queue, val, puts>>

SpuriousWakeup(c) == /\ pc[c] = "wait"
                     /\ pc' = [pc EXCEPT ![c] = "woken"]
                     /\ UNCHANGED <<queue, owner, val, puts>>

\* Mutation: if(queue.empty()) instead of while: a woken thread pops at once.
WaitReturnNoRetest(c) == /\ pc[c] = "woken"
                         /\ owner = NoThread
                         /\ owner' = c
                         /\ pc' = [pc EXCEPT ![c] = "pop"]
                         /\ UNCHANGED <<queue, val, puts>>

\* Mutation: the wait ends without taking the mutex back.
WaitReturnUnlocked(c) == /\ pc[c] = "woken"
                         /\ pc' = [pc EXCEPT ![c] = "test"]
                         /\ UNCHANGED <<queue, owner, val, puts>>

WaitReturn(c) == /\ pc[c] = "woken"
                 /\ owner = NoThread
                 /\ owner' = c
                 /\ pc' = [pc EXCEPT ![c] = "test"]
                 /\ UNCHANGED <<queue, val, puts>>

\* Mutation: the newest item is taken instead of the oldest.
PopNewest(c) == /\ pc[c] = "pop"
                /\ val' = [val EXCEPT ![c] = queue[Len(queue)]]
                /\ queue' = SubSeq(queue, 1, Len(queue) - 1)
                /\ pc' = [pc EXCEPT ![c] = "unlock"]
                /\ UNCHANGED <<owner, puts>>

PullPop(c) == /\ pc[c] = "pop"
              /\ val' = [val EXCEPT ![c] = Head(queue)]
              /\ queue' = Tail(queue)
              /\ pc' = [pc EXCEPT ![c] = "unlock"]
              /\ UNCHANGED <<owner, puts>>

\* ~ScopeLock, and the return from put or pull.
Unlock(t) == /\ pc[t] = "unlock"
             /\ owner' = NoThread
             /\ pc' = [pc EXCEPT ![t] = "out"]
             /\ val' = [val EXCEPT ![t] = NoValue]
             /\ UNCHANGED <<queue, puts>>

-----------------------------------------------------------------------------
Put(p) == \/ \E v \in Values : PutLock(p, v)
          \/ PutPush(p)
          \/ PutSignal(p)
          \/ Unlock(p)

Pull(c) == \/ PullLock(c)
           \/ PullTest(c)
           \/ WaitReturn(c)
           \/ PullPop(c)
           \/ Unlock(c)

Next == \/ \E p \in Producers : Put(p)
        \/ \E c \in Consumers : Pull(c) \/ SpuriousWakeup(c)

Spec == Init /\ [][Next]_vars

\* A thread inside put finishes it and a broadcast thread keeps calling pull:
\* the operating system runs every runnable thread.  Nothing obliges a
\* producer to call put, or a wait to end spuriously.
Fairness == /\ \A p \in Producers : WF_vars(PutPush(p) \/ PutSignal(p) \/ Unlock(p))
            /\ \A c \in Consumers : WF_vars(Pull(c))

FairSpec == Spec /\ Fairness

-----------------------------------------------------------------------------
(* Properties *)

\* Types of the variables; the queue never holds more items than put was
\* called with.
TypeOK == /\ queue \in Seq(Values)
          /\ owner \in Threads \cup {NoThread}
          /\ pc \in [Threads -> PutPC \cup PullPC]
          /\ \A p \in Producers : pc[p] \in PutPC
          /\ \A c \in Consumers : pc[c] \in PullPC
          /\ val \in [Threads -> Values \cup {NoValue}]
          /\ puts \in 0..MaxPuts
          /\ Len(queue) <= puts

\* The thread that owns mtx is exactly the one between lock and unlock, so at
\* most one thread is in the body of put or pull.
MutexInv == \A t \in Threads : InLock(t) <=> owner = t

\* front() and pop() are never called on an empty queue: what pull's loop
\* tested still holds when it pops, however many pulls were woken.
PopSafe == \A c \in Consumers : pc[c] = "pop" => queue # <<>>

\* No wakeup is lost: while a pull waits, every queued item has an awake pull
\* on its way to it or a put about to signal.  Otherwise a position would sit
\* in the queue beside an idle broadcast thread.
NoLostWakeup ==
    Waiting # {} => Len(queue) <= Cardinality({c \in Consumers : pc[c] \in {"woken", "test", "pop"}})
                                + Cardinality({p \in Producers : pc[p] = "signal"})

\* Refinement mapping: put takes effect at its push, pull at its pop.
Fifo == INSTANCE FifoQueue WITH items <- queue, taken <- [c \in Consumers |-> val[c]]

\* Every behaviour of the queue is one of a first-in first-out queue with
\* atomic put and pull.
ImplementsFifo == Fifo!Spec

\* Whatever is put is eventually pulled.
Drained == queue # <<>> ~> queue = <<>>
=============================================================================

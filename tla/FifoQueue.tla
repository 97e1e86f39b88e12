----------------------------- MODULE FifoQueue -----------------------------
(***************************************************************************)
(* What BlockingQueue<T> promises its callers                              *)
(* (include/thread/BlockingQueue.h): a first-in first-out queue whose put  *)
(* and pull each take effect at one instant.  A pull takes effect only     *)
(* when there is an item, hands the oldest item to exactly one caller, and *)
(* the caller holds it until pull() returns.                               *)
(***************************************************************************)
EXTENDS Sequences

CONSTANTS Consumers,  \* threads that pull
          Values,     \* items
          NoValue     \* "this consumer holds no item"

VARIABLES items,  \* the queued items, oldest first
          taken   \* taken[c]: the item pull() is about to return to c

vars == <<items, taken>>

Init == /\ items = <<>>
        /\ taken = [c \in Consumers |-> NoValue]

Enqueue(v) == /\ items' = Append(items, v)
              /\ UNCHANGED taken

Dequeue(c) == /\ items # <<>>
              /\ taken[c] = NoValue
              /\ taken' = [taken EXCEPT ![c] = Head(items)]
              /\ items' = Tail(items)

Return(c) == /\ taken[c] # NoValue
             /\ taken' = [taken EXCEPT ![c] = NoValue]
             /\ UNCHANGED items

Next == \/ \E v \in Values : Enqueue(v)
        \/ \E c \in Consumers : Dequeue(c) \/ Return(c)

Spec == Init /\ [][Next]_vars
=============================================================================

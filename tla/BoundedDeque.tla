---------------------------- MODULE BoundedDeque ----------------------------
(***************************************************************************)
(* What CircularBufferQueue<T> promises: a double-ended queue of at most   *)
(* Capacity items.  enqueue adds at the back, reverseEnqueue at the front, *)
(* dequeue takes from the front; each call returns a result.               *)
(***************************************************************************)
EXTENDS DequeOperators

CONSTANTS Items,    \* the values the queue may hold
          Default   \* T{}, what dequeue returns on an empty queue

VARIABLES contents, \* the items, front first
          returned  \* what the last call returned

vars == <<contents, returned>>

TypeOK ==
    /\ contents \in Seq(Items)
    /\ Len(contents) <= Capacity
    /\ returned \in Items \cup {Default} \cup BOOLEAN

Init ==
    /\ contents = <<>>
    /\ returned = Default

Enqueue(item) ==
    /\ contents' = PushBack(contents, item)
    /\ returned' = (Len(contents) # Capacity)

ReverseEnqueue(item) ==
    /\ contents' = PushFront(contents, item)
    /\ returned' = (Len(contents) # Capacity)

Dequeue ==
    \/ /\ contents # <<>>
       /\ contents' = Tail(contents)
       /\ returned' = Head(contents)
    \/ /\ contents = <<>>
       /\ contents' = contents
       /\ returned' = Default

Next ==
    \/ \E item \in Items : Enqueue(item) \/ ReverseEnqueue(item)
    \/ Dequeue

Spec == Init /\ [][Next]_vars
=============================================================================

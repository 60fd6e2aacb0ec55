--------------------------- MODULE DequeOperators ---------------------------
(***************************************************************************)
(* The operations of CircularBufferQueue<T> (circularBufferQueue.hpp) as   *)
(* functions on the sequence of its items, front first.  A queue at its    *)
(* capacity refuses an item and reports false; nobody in src/ looks at     *)
(* that result, so refusing is the same as dropping.                       *)
(***************************************************************************)
EXTENDS Naturals, Sequences

CONSTANT Capacity   \* the constructor's argument, 1024 for outgoingToSendStack

ASSUME CapacityAssumption == Capacity \in Nat \ {0}

Room(queue) == Capacity - Len(queue)

\* enqueue and reverseEnqueue of one item.
PushBack(queue, item) ==
    IF Len(queue) = Capacity THEN queue ELSE Append(queue, item)

PushFront(queue, item) ==
    IF Len(queue) = Capacity THEN queue ELSE <<item>> \o queue

\* enqueue of each item of a sequence, first to last: the ones that no longer
\* fit are the last ones.
PushAllBack(queue, items) ==
    queue \o SubSeq(items, 1, IF Len(items) <= Room(queue)
                              THEN Len(items) ELSE Room(queue))

\* reverseEnqueue of each item of a sequence, last to first: the ones that no
\* longer fit are the first ones.
PushAllFront(queue, items) ==
    SubSeq(items, IF Len(items) <= Room(queue)
                  THEN 1 ELSE Len(items) - Room(queue) + 1, Len(items)) \o queue
=============================================================================

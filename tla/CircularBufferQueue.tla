------------------------ MODULE CircularBufferQueue -------------------------
(***************************************************************************)
(* CircularBufferQueue<T>: a vector of fixed size, the cursor the next     *)
(* enqueue writes (head), the cursor the next dequeue reads (tail) and the *)
(* number of items.  Two of the three determine the third, yet the code    *)
(* keeps all three, and reverseEnqueue moves the tail backwards.           *)
(*                                                                         *)
(* dequeue moves the item out: the slot keeps a moved-from value, which    *)
(* for the CapsuleCache of this program is the old value.                  *)
(***************************************************************************)
EXTENDS Naturals, Sequences

CONSTANTS Capacity, Items, Default

VARIABLES buffer,     \* buffer_: slot -> item
          headCursor, \* headCursor_
          tailCursor, \* tailCursor_
          size,       \* size_
          returned    \* what the last call returned

vars == <<buffer, headCursor, tailCursor, size, returned>>

ASSUME CapacityAssumption == Capacity \in Nat \ {0}

Slots == 0 .. Capacity - 1

Init ==
    /\ buffer = [slot \in Slots |-> Default]
    /\ headCursor = 0
    /\ tailCursor = 0
    /\ size = 0
    /\ returned = Default

NextSlot(slot) == (slot + 1) % Capacity

\* Mutant of PreviousSlot: the step back is forgotten.
PreviousSlotNoStep(slot) == (Capacity + slot) % Capacity

PreviousSlot(slot) == (Capacity + slot - 1) % Capacity

\* size_ == buffer_.size(): both enqueues return false and change nothing.
Full == size = Capacity

Refuse ==
    /\ Full
    /\ returned' = FALSE
    /\ UNCHANGED <<buffer, headCursor, tailCursor, size>>

ReverseEnqueue(item) ==
    \/ Refuse
    \/ /\ ~ Full
       /\ tailCursor' = PreviousSlot(tailCursor)
       /\ buffer' = [buffer EXCEPT ![tailCursor'] = item]
       /\ size' = size + 1
       /\ returned' = TRUE
       /\ UNCHANGED headCursor

Enqueue(item) ==
    \/ Refuse
    \/ /\ ~ Full
       /\ buffer' = [buffer EXCEPT ![headCursor] = item]
       /\ headCursor' = NextSlot(headCursor)
       /\ size' = size + 1
       /\ returned' = TRUE
       /\ UNCHANGED tailCursor

\* Mutant of Dequeue: the tail moves, the size does not.
DequeueKeepsSize ==
    /\ size # 0
    /\ returned' = buffer[tailCursor]
    /\ tailCursor' = NextSlot(tailCursor)
    /\ UNCHANGED <<buffer, headCursor, size>>

Dequeue ==
    \/ /\ size = 0
       /\ returned' = Default
       /\ UNCHANGED <<buffer, headCursor, tailCursor, size>>
    \/ /\ size # 0
       /\ returned' = buffer[tailCursor]
       /\ tailCursor' = NextSlot(tailCursor)
       /\ size' = size - 1
       /\ UNCHANGED <<buffer, headCursor>>

Next ==
    \/ \E item \in Items : Enqueue(item) \/ ReverseEnqueue(item)
    \/ Dequeue

Spec == Init /\ [][Next]_vars
-----------------------------------------------------------------------------
\* The cursors stay in the vector, the size within the capacity.
TypeOK ==
    /\ buffer \in [Slots -> Items \cup {Default}]
    /\ headCursor \in Slots
    /\ tailCursor \in Slots
    /\ size \in 0 .. Capacity
    /\ returned \in Items \cup {Default} \cup BOOLEAN

\* The redundant third field always agrees with the other two, across
\* wrap-around in both directions (enqueue, reverseEnqueue and dequeue).
CursorsAgree == headCursor = (tailCursor + size) % Capacity

\* The slots from the tail on, as far as size says.
Contents == [i \in 1 .. size |-> buffer[(tailCursor + i - 1) % Capacity]]

Deque == INSTANCE BoundedDeque WITH contents <- Contents

\* Every call does to the ring what the same call does to a bounded deque:
\* no item is overwritten, duplicated or reordered by the cursor arithmetic.
ImplementsDeque == Deque!Spec
=============================================================================

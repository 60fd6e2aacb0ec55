----------------------- MODULE RingAndCursor_proofs -------------------------
(***************************************************************************)
(* For every capacity and every set of items: the ring's cursors agree     *)
(* with its size, and the ring implements the bounded deque.               *)
(*                                                                         *)
(* For every width of a byte, of an int and of a long, and all values that *)
(* fit them: what the binary cursor writes it reads back.  That needs the  *)
(* powers of two from their recursive equation, digits and what they make  *)
(* up, the number of groups of a variable-length integer, then each kind   *)
(* of value, then where the values lie in the stream.                      *)
(***************************************************************************)
EXTENDS CircularBufferQueue, BinaryCursor, WellFoundedInduction, TLAPS

(***************************************************************************)
(* The ring.                                                               *)
(***************************************************************************)

Ring == TypeOK /\ CursorsAgree

-----------------------------------------------------------------------------
(* Arithmetic modulo the capacity, within one turn of the ring.            *)

\* A slot number below the capacity is itself.
LEMMA ModWithin ==
    ASSUME NEW C \in Nat \ {0}, NEW a \in 0 .. C - 1
    PROVE  a % C = a
  OBVIOUS

\* One turn further it is C less.
LEMMA ModOnce ==
    ASSUME NEW C \in Nat \ {0}, NEW a \in C .. 2 * C - 1
    PROVE  a % C = a - C
  OBVIOUS

\* A sum of two slot numbers wraps around at most once.
Wrapped(a) == IF a < Capacity THEN a ELSE a - Capacity

\* One subtraction is the remainder, for what is added to an index.
LEMMA ModWrapped ==
    ASSUME NEW a \in 0 .. 2 * Capacity - 1
    PROVE  a % Capacity = Wrapped(a)
<1>1. CASE a < Capacity
  <2>1. a \in 0 .. Capacity - 1
    BY <1>1, CapacityAssumption
  <2>2. a % Capacity = a
    BY <2>1, CapacityAssumption, ModWithin, Zenon
  <2> QED
    BY <1>1, <2>2, Zenon DEF Wrapped
<1>2. CASE ~ (a < Capacity)
  <2>1. a \in Capacity .. 2 * Capacity - 1
    BY <1>2, CapacityAssumption
  <2>2. a % Capacity = a - Capacity
    BY <2>1, CapacityAssumption, ModOnce, Zenon
  <2> QED
    BY <1>2, <2>2, Zenon DEF Wrapped
<1> QED
  BY <1>1, <1>2, Zenon

-----------------------------------------------------------------------------
(* The inductive invariant.                                                *)

\* The empty ring satisfies the invariant.
LEMMA InitRing == Init => Ring
<1> SUFFICES ASSUME Init PROVE Ring
  OBVIOUS
<1>1. 0 \in 0 .. Capacity - 1
  BY CapacityAssumption
<1>2. 0 % Capacity = 0
  BY <1>1, CapacityAssumption, ModWithin, Zenon
<1> QED
  BY <1>1, <1>2, CapacityAssumption DEF Init, Ring, TypeOK, CursorsAgree, Slots

\* Every call keeps the ring's invariant.
LEMMA StepRing == Ring /\ [Next]_vars => Ring'
<1> SUFFICES ASSUME Ring, [Next]_vars PROVE Ring'
  OBVIOUS
<1> USE CapacityAssumption
<1>1. /\ headCursor \in 0 .. Capacity - 1
      /\ tailCursor \in 0 .. Capacity - 1
      /\ size \in 0 .. Capacity
      /\ tailCursor + size \in 0 .. 2 * Capacity - 1
  BY DEF Ring, TypeOK, Slots
<1>2. headCursor = Wrapped(tailCursor + size)
  BY <1>1, ModWrapped DEF Ring, CursorsAgree
<1>3. ASSUME Refuse PROVE Ring'
  BY <1>3 DEF Refuse, Ring, TypeOK, CursorsAgree
<1>4. ASSUME NEW item \in Items, ReverseEnqueue(item), ~ Refuse PROVE Ring'
  <2>1. /\ size \in 0 .. Capacity - 1
        /\ size' = size + 1
        /\ headCursor' = headCursor
        /\ tailCursor' = (Capacity + tailCursor - 1) % Capacity
        /\ buffer' = [buffer EXCEPT ![tailCursor'] = item]
        /\ returned' = TRUE
    BY <1>1, <1>4 DEF ReverseEnqueue, Full, PreviousSlot
  <2>2. Capacity + tailCursor - 1 \in 0 .. 2 * Capacity - 1
    BY <1>1
  <2>3. tailCursor' = Wrapped(Capacity + tailCursor - 1)
    BY <2>1, <2>2, ModWrapped
  <2>4. /\ tailCursor' \in 0 .. Capacity - 1
        /\ tailCursor' + size' \in 0 .. 2 * Capacity - 1
        /\ headCursor' = Wrapped(tailCursor' + size')
    <3>1. CASE tailCursor = 0
      <4>1. tailCursor' = Capacity - 1
        BY <2>3, <3>1 DEF Wrapped
      <4> QED
        BY <1>1, <1>2, <2>1, <3>1, <4>1 DEF Wrapped
    <3>2. CASE tailCursor # 0
      <4>1. tailCursor' = tailCursor - 1
        BY <1>1, <2>3, <3>2 DEF Wrapped
      <4> QED
        BY <1>1, <1>2, <2>1, <3>2, <4>1 DEF Wrapped
    <3> QED
      BY <3>1, <3>2
  <2>5. CursorsAgree'
    BY <2>4, ModWrapped DEF CursorsAgree
  <2> QED
    BY <1>1, <2>1, <2>4, <2>5 DEF Ring, TypeOK, Slots
<1>5. ASSUME NEW item \in Items, Enqueue(item), ~ Refuse PROVE Ring'
  <2>1. /\ size \in 0 .. Capacity - 1
        /\ size' = size + 1
        /\ tailCursor' = tailCursor
        /\ headCursor' = (headCursor + 1) % Capacity
        /\ buffer' = [buffer EXCEPT ![headCursor] = item]
        /\ returned' = TRUE
    BY <1>1, <1>5 DEF Enqueue, Full, NextSlot
  <2>2. headCursor + 1 \in 0 .. 2 * Capacity - 1
    BY <1>1
  <2>3. headCursor' = Wrapped(headCursor + 1)
    BY <2>1, <2>2, ModWrapped
  <2>4. /\ headCursor' \in 0 .. Capacity - 1
        /\ tailCursor' + size' \in 0 .. 2 * Capacity - 1
        /\ headCursor' = Wrapped(tailCursor' + size')
    BY <1>1, <1>2, <2>1, <2>3 DEF Wrapped
  <2>5. CursorsAgree'
    BY <2>4, ModWrapped DEF CursorsAgree
  <2> QED
    BY <1>1, <2>1, <2>4, <2>5 DEF Ring, TypeOK, Slots
<1>6. CASE Dequeue /\ size = 0
  BY <1>6 DEF Dequeue, Ring, TypeOK, CursorsAgree
<1>7. CASE Dequeue /\ size # 0
  <2>1. /\ size \in 1 .. Capacity
        /\ size' = size - 1
        /\ headCursor' = headCursor
        /\ tailCursor' = (tailCursor + 1) % Capacity
        /\ buffer' = buffer
        /\ returned' = buffer[tailCursor]
    BY <1>1, <1>7 DEF Dequeue, NextSlot
  <2>2. tailCursor + 1 \in 0 .. 2 * Capacity - 1
    BY <1>1
  <2>3. tailCursor' = Wrapped(tailCursor + 1)
    BY <2>1, <2>2, ModWrapped
  <2>4. /\ tailCursor' \in 0 .. Capacity - 1
        /\ tailCursor' + size' \in 0 .. 2 * Capacity - 1
        /\ headCursor' = Wrapped(tailCursor' + size')
    BY <1>1, <1>2, <2>1, <2>3 DEF Wrapped
  <2>5. CursorsAgree'
    BY <2>4, ModWrapped DEF CursorsAgree
  <2> QED
    BY <1>1, <2>1, <2>4, <2>5 DEF Ring, TypeOK, Slots
<1>8. CASE UNCHANGED vars
  BY <1>8 DEF vars, Ring, TypeOK, CursorsAgree
<1> QED
  BY <1>3, <1>4, <1>5, <1>6, <1>7, <1>8 DEF Next

\* The ring's fields keep their ranges, for every capacity.
THEOREM RingTypeCorrect == Spec => []TypeOK
<1>1. Ring => TypeOK
  BY DEF Ring
<1> QED
  BY <1>1, InitRing, StepRing, PTL DEF Spec

\* The head cursor is always size slots after the tail, whatever sequence of
\* calls wrapped the two around.
THEOREM CursorsAlwaysAgree == Spec => []CursorsAgree
<1>1. Ring => CursorsAgree
  BY DEF Ring
<1> QED
  BY <1>1, InitRing, StepRing, PTL DEF Spec

-----------------------------------------------------------------------------
(* The refinement: each call maps to the deque's call of the same name.    *)

\* Contents as a function of the three fields it reads.
ContentsOf(b, t, n) == [i \in 1 .. n |-> b[(t + i - 1) % Capacity]]

\* The first item is in the tail's slot.
LEMMA FirstSlot == \A t \in Slots : Wrapped(t + 1 - 1) = t
  BY CapacityAssumption DEF Wrapped, Slots

\* The contents are as many as counted, read from the tail on and around the end.
LEMMA ContentsShape ==
    ASSUME NEW b \in [Slots -> Items \cup {Default}],
           NEW t \in Slots, NEW n \in 0 .. Capacity
    PROVE  /\ ContentsOf(b, t, n) \in Seq(Items \cup {Default})
           /\ Len(ContentsOf(b, t, n)) = n
           /\ \A i \in 1 .. n :
                 /\ Wrapped(t + i - 1) \in Slots
                 /\ ContentsOf(b, t, n)[i] = b[Wrapped(t + i - 1)]
<1> USE CapacityAssumption
<1>1. ASSUME NEW i \in 1 .. n
      PROVE  /\ (t + i - 1) % Capacity = Wrapped(t + i - 1)
             /\ Wrapped(t + i - 1) \in Slots
  <2>1. t + i - 1 \in 0 .. 2 * Capacity - 1
    BY DEF Slots
  <2>2. (t + i - 1) % Capacity = Wrapped(t + i - 1)
    BY <2>1, ModWrapped
  <2>3. Wrapped(t + i - 1) \in Slots
    BY <2>1 DEF Wrapped, Slots
  <2> QED
    BY <2>2, <2>3
<1>2. ContentsOf(b, t, n) = [i \in 1 .. n |-> b[Wrapped(t + i - 1)]]
  BY <1>1, Zenon DEF ContentsOf
<1>3. n \in Nat
  OBVIOUS
<1> QED
  BY <1>1, <1>2, <1>3

\* A call on the ring is the call of that name on a deque.
LEMMA StepDeque == Ring /\ Ring' /\ [Next]_vars => [Deque!Next]_(Deque!vars)
<1> SUFFICES ASSUME Ring, Ring', [Next]_vars PROVE [Deque!Next]_(Deque!vars)
  OBVIOUS
<1> USE CapacityAssumption
<1>1. /\ headCursor \in Slots
      /\ tailCursor \in Slots
      /\ size \in 0 .. Capacity
      /\ buffer \in [Slots -> Items \cup {Default}]
      /\ tailCursor' \in Slots
      /\ size' \in 0 .. Capacity
      /\ buffer' \in [Slots -> Items \cup {Default}]
  BY DEF Ring, TypeOK, Slots
<1>2. headCursor = Wrapped(tailCursor + size)
  <2>1. tailCursor + size \in 0 .. 2 * Capacity - 1
    BY <1>1 DEF Slots
  <2> QED
    BY <2>1, ModWrapped DEF Ring, CursorsAgree
<1>3. /\ Contents = ContentsOf(buffer, tailCursor, size)
      /\ Contents' = ContentsOf(buffer', tailCursor', size')
  BY DEF Contents, ContentsOf
<1>4. /\ Contents \in Seq(Items \cup {Default})
      /\ Len(Contents) = size
      /\ \A i \in 1 .. size : Contents[i] = buffer[Wrapped(tailCursor + i - 1)]
  <2>1. /\ ContentsOf(buffer, tailCursor, size) \in Seq(Items \cup {Default})
        /\ Len(ContentsOf(buffer, tailCursor, size)) = size
        /\ \A i \in 1 .. size :
              /\ Wrapped(tailCursor + i - 1) \in Slots
              /\ ContentsOf(buffer, tailCursor, size)[i]
                   = buffer[Wrapped(tailCursor + i - 1)]
    BY <1>1, ContentsShape, Zenon
  <2> QED
    BY <1>3, <2>1, Zenon
<1>5. /\ Contents' \in Seq(Items \cup {Default})
      /\ Len(Contents') = size'
      /\ \A i \in 1 .. size' :
            Contents'[i] = buffer'[Wrapped(tailCursor' + i - 1)]
  <2>1. /\ ContentsOf(buffer', tailCursor', size') \in Seq(Items \cup {Default})
        /\ Len(ContentsOf(buffer', tailCursor', size')) = size'
        /\ \A i \in 1 .. size' :
              /\ Wrapped(tailCursor' + i - 1) \in Slots
              /\ ContentsOf(buffer', tailCursor', size')[i]
                   = buffer'[Wrapped(tailCursor' + i - 1)]
    BY <1>1, ContentsShape, Zenon
  <2> QED
    BY <1>3, <2>1, Zenon
<1>6. ASSUME Refuse PROVE /\ Len(Contents) = Capacity
                          /\ Contents' = Contents
                          /\ returned' = FALSE
  BY <1>1, <1>3, <1>4, <1>6 DEF Refuse, Full
<1>7. ASSUME NEW item \in Items, ReverseEnqueue(item)
      PROVE  Deque!ReverseEnqueue(item)
  <2>1. CASE Refuse
    BY <1>6, <2>1 DEF Deque!ReverseEnqueue, Deque!PushFront
  <2>2. CASE ~ Refuse
    <3>1. /\ size \in 0 .. Capacity - 1
          /\ size' = size + 1
          /\ tailCursor' = (Capacity + tailCursor - 1) % Capacity
          /\ buffer' = [buffer EXCEPT ![tailCursor'] = item]
          /\ returned' = TRUE
      BY <1>1, <1>7, <2>2 DEF ReverseEnqueue, Full, PreviousSlot
    <3>2. tailCursor' = IF tailCursor = 0 THEN Capacity - 1 ELSE tailCursor - 1
      <4>1. Capacity + tailCursor - 1 \in 0 .. 2 * Capacity - 1
        BY <1>1 DEF Slots
      <4>2. tailCursor' = Wrapped(Capacity + tailCursor - 1)
        BY <3>1, <4>1, ModWrapped
      <4>3. CASE tailCursor = 0
        BY <4>2, <4>3 DEF Wrapped
      <4>4. CASE tailCursor # 0
        BY <1>1, <4>2, <4>4 DEF Wrapped, Slots
      <4> QED
        BY <4>3, <4>4
    <3>3. Contents'[1] = item
      <4>1. Wrapped(tailCursor' + 1 - 1) = tailCursor'
        BY <1>1, FirstSlot, Zenon
      <4> QED
        BY <1>1, <1>5, <3>1, <4>1
    <3>4. ASSUME NEW i \in 1 .. size PROVE Contents'[i + 1] = Contents[i]
      <4>1. /\ Wrapped(tailCursor' + (i + 1) - 1) = Wrapped(tailCursor + i - 1)
            /\ Wrapped(tailCursor + i - 1) # tailCursor'
            /\ Wrapped(tailCursor + i - 1) \in Slots
        BY <1>1, <3>1, <3>2 DEF Wrapped, Slots
      <4>2. Contents'[i + 1] = buffer'[Wrapped(tailCursor + i - 1)]
        BY <1>1, <1>5, <3>1, <4>1
      <4> QED
        BY <1>1, <1>4, <3>1, <4>1, <4>2
    <3>5. Contents' = <<item>> \o Contents
      BY <1>4, <1>5, <3>1, <3>3, <3>4
    <3>6. Len(Contents) # Capacity
      BY <1>4, <3>1
    <3> QED
      BY <3>1, <3>5, <3>6, Zenon DEF Deque!ReverseEnqueue, Deque!PushFront
  <2> QED
    BY <2>1, <2>2
<1>8. ASSUME NEW item \in Items, Enqueue(item) PROVE Deque!Enqueue(item)
  <2>1. CASE Refuse
    BY <1>6, <2>1 DEF Deque!Enqueue, Deque!PushBack
  <2>2. CASE ~ Refuse
    <3>1. /\ size \in 0 .. Capacity - 1
          /\ size' = size + 1
          /\ tailCursor' = tailCursor
          /\ buffer' = [buffer EXCEPT ![headCursor] = item]
          /\ returned' = TRUE
      BY <1>1, <1>8, <2>2 DEF Enqueue, Full
    <3>2. Contents'[size + 1] = item
      <4>1. tailCursor' + (size + 1) - 1 = tailCursor + size
        BY <1>1, <3>1 DEF Slots
      <4> QED
        BY <1>1, <1>2, <1>5, <3>1, <4>1
    <3>3. ASSUME NEW i \in 1 .. size PROVE Contents'[i] = Contents[i]
      <4>1. /\ Wrapped(tailCursor + i - 1) # headCursor
            /\ Wrapped(tailCursor + i - 1) \in Slots
        BY <1>1, <1>2, <3>1 DEF Wrapped, Slots
      <4> QED
        BY <1>1, <1>4, <1>5, <3>1, <4>1
    <3>4. Contents' = Append(Contents, item)
      BY <1>4, <1>5, <3>1, <3>2, <3>3
    <3>5. Len(Contents) # Capacity
      BY <1>4, <3>1
    <3> QED
      BY <3>1, <3>4, <3>5, Zenon DEF Deque!Enqueue, Deque!PushBack
  <2> QED
    BY <2>1, <2>2
<1>9. ASSUME Dequeue PROVE Deque!Dequeue
  <2>1. CASE size = 0
    <3>1. Contents = <<>>
      BY <1>4, <2>1
    <3>2. Contents' = Contents /\ returned' = Default
      BY <1>3, <1>9, <2>1 DEF Dequeue
    <3> QED
      BY <3>1, <3>2 DEF Deque!Dequeue
  <2>2. CASE size # 0
    <3>1. /\ size \in 1 .. Capacity
          /\ size' = size - 1
          /\ buffer' = buffer
          /\ tailCursor' = (tailCursor + 1) % Capacity
          /\ returned' = buffer[tailCursor]
      BY <1>1, <1>9, <2>2 DEF Dequeue, NextSlot
    <3>2. tailCursor' = Wrapped(tailCursor + 1)
      <4>1. tailCursor + 1 \in 0 .. 2 * Capacity - 1
        BY <1>1 DEF Slots
      <4> QED
        BY <3>1, <4>1, ModWrapped
    <3>3. Contents # <<>> /\ Head(Contents) = buffer[tailCursor]
      <4>1. Wrapped(tailCursor + 1 - 1) = tailCursor
        BY <1>1 DEF Wrapped, Slots
      <4> QED
        BY <1>4, <3>1, <4>1
    <3>4. ASSUME NEW i \in 1 .. size' PROVE Contents'[i] = Contents[i + 1]
      <4>1. Wrapped(tailCursor' + i - 1) = Wrapped(tailCursor + (i + 1) - 1)
        BY <1>1, <3>1, <3>2 DEF Wrapped, Slots
      <4>2. i \in 1 .. size' /\ i + 1 \in 1 .. size
        BY <1>1, <3>1
      <4>3. Contents'[i] = buffer[Wrapped(tailCursor + (i + 1) - 1)]
        BY <1>5, <3>1, <4>1, <4>2, Zenon
      <4> QED
        BY <1>4, <4>2, <4>3, Zenon
    <3>5. Contents' = Tail(Contents)
      BY <1>4, <1>5, <3>1, <3>3, <3>4
    <3> QED
      BY <3>1, <3>3, <3>5 DEF Deque!Dequeue
  <2> QED
    BY <2>1, <2>2
<1>10. CASE UNCHANGED vars
  BY <1>3, <1>10 DEF vars, Deque!vars
<1>11. CASE Next
  BY <1>7, <1>8, <1>9, <1>11 DEF Next, Deque!Next
<1> QED
  BY <1>10, <1>11

\* The ring buffer implements the bounded deque, for every capacity and every
\* set of items: each of the code's calls does to the items in the ring what
\* the call of the same name does to a sequence.
THEOREM RingImplementsDeque == Spec => ImplementsDeque
<1>1. Init => Deque!Init
  <2> SUFFICES ASSUME Init PROVE Deque!Init
    OBVIOUS
  <2>1. size = 0 /\ returned = Default
    BY DEF Init
  <2>2. Contents = <<>>
    BY <2>1 DEF Contents
  <2> QED
    BY <2>1, <2>2 DEF Deque!Init
<1> QED
  BY <1>1, InitRing, StepRing, StepDeque, PTL DEF Spec, ImplementsDeque, Deque!Spec

(***************************************************************************)
(* The cursor: numbers.                                                    *)
(***************************************************************************)

\* A quotient and a remainder are the only ones.
LEMMA DivisionUnique ==
  ASSUME NEW n \in Int, NEW d \in Nat \ {0}, NEW q \in Int, NEW r \in 0 .. d - 1,
         n = q * d + r
  PROVE  n \div d = q /\ n % d = r
<1> DEFINE p == n \div d
           s == n % d
<1>1. q * d \in Int /\ n \in Int
  OBVIOUS
<1>2. p \in Int /\ s \in 0 .. d - 1 /\ n = p * d + s
  BY <1>1
<1>3. p * d \in Int /\ p * d + s = q * d + r
  BY <1>2
<1> HIDE DEF p, s
<1>4. CASE p > q
  <2>1. (p - q) * d >= d
    BY <1>2, <1>4
  <2>2. (p - q) * d = p * d - q * d
    BY <1>2
  <2> QED
    BY <1>1, <1>2, <1>3, <2>1, <2>2
<1>5. CASE p < q
  <2>1. (q - p) * d >= d
    BY <1>2, <1>5
  <2>2. (q - p) * d = q * d - p * d
    BY <1>2
  <2> QED
    BY <1>1, <1>2, <1>3, <2>1, <2>2
<1>6. CASE p = q
  BY <1>1, <1>2, <1>3, <1>6 DEF p, s
<1> QED
  BY <1>2, <1>4, <1>5, <1>6

\* A set of numbers has a smallest one.
LEMMA SmallestOf ==
  ASSUME NEW S, S \subseteq Nat, S # {}
  PROVE  \E x \in S : \A y \in S : x <= y
<1> DEFINE R == {ss \in Nat \X Nat : ss[1] < ss[2]}
<1>1. R = OpToRel(<, Nat)
  BY Zenon DEF OpToRel
<1>2. IsWellFoundedOn(OpToRel(<, Nat), Nat)
  BY NatLessThanWellFounded, Zenon
<1>3. IsWellFoundedOn(R, Nat)
  BY <1>1, <1>2, Zenon
<1> HIDE DEF R
<1>4. PICK x \in S : \A y \in S : ~ (<<y, x>> \in R)
  BY WFMin, <1>3
<1>5. ASSUME NEW y \in S PROVE x <= y
  <2>1. x \in Nat /\ y \in Nat
    OBVIOUS
  <2>2. <<y, x>> \notin R
    BY <1>4
  <2> QED
    BY <2>1, <2>2 DEF R
<1> QED
  BY <1>5

-----------------------------------------------------------------------------
(* Powers of two.                                                          *)

\* What has 0, and with a number the next one, has every number.
LEMMA NatSetInduction ==
  ASSUME NEW S, 0 \in S, \A n \in Nat : n \in S => n + 1 \in S
  PROVE  Nat \subseteq S
<1> SUFFICES ASSUME Nat \ S # {} PROVE FALSE
  OBVIOUS
<1>1. PICK x \in Nat \ S : \A y \in Nat \ S : x <= y
  BY SmallestOf
<1>2. x # 0 /\ x - 1 \in Nat
  OBVIOUS
<1>3. x - 1 \in S
  BY <1>1, <1>2
<1> QED
  BY <1>2, <1>3

\* The recursive equation of the powers up to the n-th, and on all numbers.
PowersTo(n, f) == f = [i \in 0 .. n |-> IF i = 0 THEN 1 ELSE 2 * f[i - 1]]

\* It has a solution up to every number.
LEMMA PowersExist == \A n \in Nat : \E f : PowersTo(n, f)
<1> DEFINE S == {n \in Nat : \E f : PowersTo(n, f)}
<1>1. 0 \in S
  <2> DEFINE f == [i \in 0 .. 0 |-> 1]
  <2>1. f = [i \in 0 .. 0 |-> IF i = 0 THEN 1 ELSE 2 * f[i - 1]]
    OBVIOUS
  <2> QED
    BY <2>1 DEF PowersTo
<1>2. ASSUME NEW n \in Nat, n \in S PROVE n + 1 \in S
  <2>1. PICK f : PowersTo(n, f)
    BY <1>2
  <2>2. /\ f = [i \in 0 .. n |-> f[i]] /\ f[0] = 1
        /\ \A i \in 1 .. n : f[i] = 2 * f[i - 1]
    BY <2>1 DEF PowersTo
  <2> DEFINE g == [i \in 0 .. n + 1 |-> IF i = n + 1 THEN 2 * f[n] ELSE f[i]]
  <2>3. /\ \A i \in 0 .. n : g[i] = f[i]
        /\ g[n + 1] = 2 * f[n]
        /\ n \in 0 .. n
    OBVIOUS
  <2>4. g = [i \in 0 .. n + 1 |-> g[i]]
    OBVIOUS
  <2> HIDE DEF g
  <2>5. ASSUME NEW i \in 0 .. n + 1 PROVE g[i] = IF i = 0 THEN 1 ELSE 2 * g[i - 1]
    <3>1. CASE i = 0
      BY <2>2, <2>3, <3>1
    <3>2. CASE i \in 1 .. n
      <4>1. i - 1 \in 0 .. n /\ i \in 0 .. n /\ i # 0
        BY <3>2
      <4> QED
        BY <2>2, <2>3, <3>2, <4>1
    <3>3. CASE i = n + 1
      <4>1. i - 1 = n /\ i # 0
        BY <3>3
      <4>2. g[i] = 2 * g[n]
        BY <2>3, <3>3
      <4> QED
        BY <4>1, <4>2
    <3> QED
      BY <3>1, <3>2, <3>3
  <2>6. PowersTo(n + 1, g)
    BY <2>4, <2>5 DEF PowersTo
  <2> QED
    BY <2>6
<1>3. Nat \subseteq S
  <2> HIDE DEF S
  <2> QED
    BY <1>1, <1>2, NatSetInduction
<1> QED
  BY <1>3

\* Two solutions agree as far as both go.
LEMMA PowersAgree ==
  ASSUME NEW m \in Nat, NEW n \in Nat, NEW f, NEW g, PowersTo(m, f), PowersTo(n, g)
  PROVE  \A i \in 0 .. m : i <= n => f[i] = g[i]
<1> DEFINE Wrong == {i \in 0 .. m : i <= n /\ f[i] # g[i]}
<1>1. /\ f[0] = 1 /\ \A i \in 1 .. m : f[i] = 2 * f[i - 1]
      /\ g[0] = 1 /\ \A i \in 1 .. n : g[i] = 2 * g[i - 1]
  BY DEF PowersTo
<1> SUFFICES ASSUME Wrong # {} PROVE FALSE
  OBVIOUS
<1>2. Wrong \subseteq Nat
  OBVIOUS
<1>3. PICK i \in Wrong : \A j \in Wrong : i <= j
  <2> HIDE DEF Wrong
  <2> QED
    BY <1>2, SmallestOf
<1>4. i \in 1 .. m /\ i \in 1 .. n /\ i - 1 \notin Wrong /\ i - 1 \in 0 .. m /\ i - 1 <= n
  BY <1>1, <1>3
<1> QED
  BY <1>1, <1>3, <1>4

\* The recursive equation holds for all numbers.
LEMMA TwoToDef == TwoTo[0] = 1 /\ \A n \in Nat : TwoTo[n + 1] = 2 * TwoTo[n]
<1> DEFINE f(n) == CHOOSE f : PowersTo(n, f)
           g == [n \in Nat |-> f(n)[n]]
           Solves(h) == h = [n \in Nat |-> IF n = 0 THEN 1 ELSE 2 * h[n - 1]]
<1>1. \A n \in Nat : PowersTo(n, f(n))
  BY PowersExist
<1> HIDE DEF f
<1>2. ASSUME NEW n \in Nat PROVE g[n] = IF n = 0 THEN 1 ELSE 2 * g[n - 1]
  <2>1. f(n)[0] = 1 /\ \A i \in 1 .. n : f(n)[i] = 2 * f(n)[i - 1]
    BY <1>1 DEF PowersTo
  <2>2. CASE n = 0
    BY <2>1, <2>2
  <2>3. CASE n # 0
    <3>1. n - 1 \in Nat /\ n - 1 \in 0 .. n /\ n - 1 \in 0 .. n - 1 /\ n \in 1 .. n
      BY <2>3
    <3>2. f(n - 1)[n - 1] = f(n)[n - 1]
      BY <1>1, <3>1, PowersAgree
    <3> QED
      BY <2>1, <2>3, <3>1, <3>2
  <2> QED
    BY <2>2, <2>3
<1>3. Solves(g)
  BY <1>2
<1>4. Solves(TwoTo)
  <2> HIDE DEF g
  <2> QED
    BY <1>3 DEF TwoTo
<1>5. ASSUME NEW n \in Nat PROVE TwoTo[n + 1] = 2 * TwoTo[n]
  <2>1. n + 1 \in Nat /\ n + 1 # 0 /\ n + 1 - 1 = n
    OBVIOUS
  <2>2. TwoTo[n + 1] = IF n + 1 = 0 THEN 1 ELSE 2 * TwoTo[n + 1 - 1]
    BY <1>4, <2>1
  <2> QED
    BY <2>1, <2>2
<1> QED
  BY <1>4, <1>5

\* Powers are positive numbers.
LEMMA TwoToType == \A n \in Nat : TwoTo[n] \in Nat \ {0}
<1> DEFINE S == {n \in Nat : TwoTo[n] \in Nat \ {0}}
<1>1. 0 \in S /\ \A n \in Nat : n \in S => n + 1 \in S
  BY TwoToDef
<1>2. Nat \subseteq S
  <2> HIDE DEF S
  <2> QED
    BY <1>1, NatSetInduction
<1> QED
  BY <1>2

\* Shifting twice is shifting by the sum.
LEMMA TwoToSum == \A a, b \in Nat : TwoTo[a + b] = TwoTo[a] * TwoTo[b]
<1> SUFFICES ASSUME NEW a \in Nat PROVE \A b \in Nat : TwoTo[a + b] = TwoTo[a] * TwoTo[b]
  OBVIOUS
<1> DEFINE S == {b \in Nat : TwoTo[a + b] = TwoTo[a] * TwoTo[b]}
<1>1. 0 \in S
  BY TwoToDef, TwoToType
<1>2. ASSUME NEW b \in Nat, b \in S PROVE b + 1 \in S
  <2>1. TwoTo[a + b] = TwoTo[a] * TwoTo[b] /\ a + b \in Nat /\ a + (b + 1) = (a + b) + 1
    BY <1>2
  <2>2. TwoTo[(a + b) + 1] = 2 * TwoTo[a + b] /\ TwoTo[b + 1] = 2 * TwoTo[b]
    BY <2>1, TwoToDef
  <2>3. TwoTo[a] \in Nat /\ TwoTo[b] \in Nat
    BY TwoToType
  <2>4. 2 * (TwoTo[a] * TwoTo[b]) = TwoTo[a] * (2 * TwoTo[b])
    BY <2>3
  <2> QED
    BY <2>1, <2>2, <2>4
<1>3. Nat \subseteq S
  <2> HIDE DEF S
  <2> QED
    BY <1>1, <1>2, NatSetInduction
<1> QED
  BY <1>3

\* Powers grow.
LEMMA TwoToGrows == \A a, b \in Nat : a <= b => TwoTo[a] <= TwoTo[b]
<1> SUFFICES ASSUME NEW a \in Nat, NEW b \in Nat, a <= b PROVE TwoTo[a] <= TwoTo[b]
  OBVIOUS
<1>1. b - a \in Nat /\ a + (b - a) = b
  OBVIOUS
<1>2. TwoTo[b] = TwoTo[a] * TwoTo[b - a]
  BY <1>1, TwoToSum
<1>3. TwoTo[a] \in Nat /\ TwoTo[b - a] \in Nat \ {0}
  BY <1>1, TwoToType
<1>4. TwoTo[a] * TwoTo[b - a] >= TwoTo[a]
  BY <1>3
<1> QED
  BY <1>2, <1>3, <1>4

-----------------------------------------------------------------------------
(* Digits.                                                                 *)

\* One digit more of a number.
LEMMA OneDigitMore ==
  ASSUME NEW v \in Nat, NEW P \in Nat \ {0}, NEW B \in Nat \ {0}
  PROVE  v % (P * B) = (v % P) + ((v \div P) % B) * P
<1> DEFINE q == v \div P
           r == v % P
           p == q \div B
           s == q % B
<1>1. q \in Nat /\ r \in 0 .. P - 1 /\ v = q * P + r
  OBVIOUS
<1>2. p \in Nat /\ s \in 0 .. B - 1 /\ q = p * B + s
  BY <1>1
<1> HIDE DEF q, r, p, s
<1>3. v = p * (P * B) + (s * P + r)
  <2>1. q * P = (p * B + s) * P
    BY <1>2
  <2>2. (p * B + s) * P = p * (P * B) + s * P
    BY <1>2
  <2> QED
    BY <1>1, <1>2, <2>1, <2>2
<1>4. s * P + r \in 0 .. P * B - 1 /\ P * B \in Nat \ {0}
  <2>1. s * P \in Nat /\ (B - 1 - s) * P \in Nat
    BY <1>2
  <2>2. (B - 1 - s) * P = B * P - P - s * P
    BY <1>2
  <2>3. P * B = B * P /\ P * B \in Nat
    OBVIOUS
  <2> QED
    BY <1>1, <2>1, <2>2, <2>3
<1>5. v % (P * B) = s * P + r
  <2>1. PICK m : m = P * B
    OBVIOUS
  <2>2. PICK t : t = s * P + r
    OBVIOUS
  <2>3. m \in Nat \ {0} /\ t \in 0 .. m - 1 /\ v = p * m + t /\ p \in Int
    BY <1>2, <1>3, <1>4, <2>1, <2>2
  <2>4. v % m = t
    BY <2>3, DivisionUnique
  <2> QED
    BY <2>1, <2>2, <2>4
<1>6. s * P \in Nat
  BY <1>2
<1> QED
  BY <1>1, <1>5, <1>6 DEF q, r, s

\* A number below another is its own remainder.
LEMMA RemainderOfLess ==
  ASSUME NEW m \in Nat \ {0}, NEW n \in 0 .. m - 1
  PROVE  n % m = n /\ n \div m = 0
<1>1. n = 0 * m + n
  OBVIOUS
<1> QED
  BY <1>1, DivisionUnique


\* The sums g of digits after each of them.
PartialSums(digits, bits, g) ==
  /\ Len(digits) \in Nat
  /\ g = [i \in 0 .. Len(digits) |-> g[i]]
  /\ g[0] = 0
  /\ \A i \in 1 .. Len(digits) : g[i] = g[i - 1] + digits[i] * TwoTo[bits * (i - 1)]

\* What digits make up is the last of these sums.
LEMMA JoinedIs ==
  ASSUME NEW bits, NEW digits, NEW g, PartialSums(digits, bits, g)
  PROVE  Joined(digits, bits) = g[Len(digits)]
<1>1. PICK n : n = Len(digits)
  OBVIOUS
<1>2. /\ n \in Nat /\ g = [i \in 0 .. n |-> g[i]] /\ g[0] = 0
      /\ \A i \in 1 .. n : g[i] = g[i - 1] + digits[i] * TwoTo[bits * (i - 1)]
  BY <1>1 DEF PartialSums
<1> DEFINE Term(i) == digits[i] * TwoTo[bits * (i - 1)]
           Solves(f) == f = [i \in 0 .. n |-> IF i = 0 THEN 0 ELSE f[i - 1] + Term(i)]
           sum == CHOOSE f : Solves(f)
<1>3. \A i \in 1 .. n : g[i] = g[i - 1] + Term(i)
  BY <1>2
<1>4. Solves(g)
  <2> HIDE DEF Term
  <2>1. ASSUME NEW i \in 0 .. n PROVE g[i] = IF i = 0 THEN 0 ELSE g[i - 1] + Term(i)
    <3>1. g[0] = 0 /\ (i = 0 \/ i \in 1 .. n) /\ ~ (0 \in 1 .. n)
      BY <1>2
    <3> HIDE DEF Solves
    <3> QED
      BY ONLY <3>1, <1>3
  <2> QED
    BY <1>2, <2>1
<1>5. Solves(sum)
  <2> HIDE DEF Solves
  <2> QED
    BY <1>4
<1>6. Joined(digits, bits) = sum[n]
  BY <1>1 DEF Joined
<1>7. sum[n] = g[n]
  <2> HIDE DEF sum, Term
  <2>1. sum = [i \in 0 .. n |-> IF i = 0 THEN 0 ELSE sum[i - 1] + Term(i)]
    BY <1>5
  <2>2. /\ sum[0] = 0 /\ \A i \in 1 .. n : sum[i] = sum[i - 1] + Term(i)
    <3> HIDE DEF Solves
    <3>1. \A i \in 0 .. n : sum[i] = IF i = 0 THEN 0 ELSE sum[i - 1] + Term(i)
      BY ONLY <2>1
    <3>2. n \in Nat
      BY <1>2
    <3>3. 0 \in 0 .. n /\ \A i \in 1 .. n : i \in 0 .. n /\ i # 0
      BY ONLY <3>2
    <3> QED
      BY ONLY <3>1, <3>3
  <2>3. \A i \in 1 .. n : g[i] = g[i - 1] + Term(i)
    BY <1>3
  <2>4. g[0] = sum[0]
    BY <1>2, <2>2
  <2> HIDE DEF Solves
  <2> DEFINE Wrong == {i \in 0 .. n : sum[i] # g[i]}
  <2> SUFFICES ASSUME Wrong # {} PROVE FALSE
    BY <1>2
  <2>5. Wrong \subseteq Nat
    BY <1>2
  <2>6. PICK i \in Wrong : \A j \in Wrong : i <= j
    <3> HIDE DEF Wrong
    <3> QED
      BY <2>5, SmallestOf
  <2>7. i \in 1 .. n /\ i - 1 \in 0 .. n /\ i - 1 \notin Wrong
    BY <1>2, <2>4, <2>6
  <2> QED
    BY <1>2, <2>2, <2>3, <2>6, <2>7
<1> QED
  BY <1>1, <1>6, <1>7

\* The digits of a number.
LEMMA DigitsType ==
  ASSUME NEW v \in Nat, NEW bits \in Nat, NEW n \in Nat
  PROVE  /\ Digits(v, bits, n) \in Seq(Nat) /\ Len(Digits(v, bits, n)) = n
         /\ \A i \in 1 .. n : /\ Digits(v, bits, n)[i] \in 0 .. TwoTo[bits] - 1
                             /\ Digits(v, bits, n)[i] = (v \div TwoTo[bits * (i - 1)]) % TwoTo[bits]
<1>1. ASSUME NEW i \in 1 .. n
      PROVE  (v \div TwoTo[bits * (i - 1)]) % TwoTo[bits] \in 0 .. TwoTo[bits] - 1
  <2>1. i - 1 \in Nat
    OBVIOUS
  <2>2. bits * (i - 1) \in Nat
    BY <2>1
  <2>3. TwoTo[bits * (i - 1)] \in Nat \ {0} /\ TwoTo[bits] \in Nat \ {0}
    BY <2>2, TwoToType
  <2>4. v \div TwoTo[bits * (i - 1)] \in Nat
    BY <2>3
  <2> QED
    BY <2>3, <2>4
<1> DEFINE digit(i) == (v \div TwoTo[bits * (i - 1)]) % TwoTo[bits]
<1>2. \A i \in 1 .. n : digit(i) \in 0 .. TwoTo[bits] - 1
  BY <1>1
<1>3. TwoTo[bits] \in Nat
  BY TwoToType
<1>4. Digits(v, bits, n) = [i \in 1 .. n |-> digit(i)]
  BY DEF Digits
<1> HIDE DEF digit
<1>5. \A i \in 1 .. n : digit(i) \in Nat
  BY <1>2, <1>3
<1>6. [i \in 1 .. n |-> digit(i)] \in Seq(Nat) /\ Len([i \in 1 .. n |-> digit(i)]) = n
  BY <1>5
<1> QED
  BY <1>2, <1>4, <1>6 DEF digit

\* Digits joined again are the number, if there are enough of them.
LEMMA JoinedDigits ==
  ASSUME NEW v \in Nat, NEW bits \in Nat, NEW n \in Nat, v < TwoTo[bits * n]
  PROVE  Joined(Digits(v, bits, n), bits) = v
<1> DEFINE g == [i \in 0 .. n |-> v % TwoTo[bits * i]]
           d == Digits(v, bits, n)
<1>1. /\ d \in Seq(Nat) /\ Len(d) = n
      /\ \A i \in 1 .. n : d[i] = (v \div TwoTo[bits * (i - 1)]) % TwoTo[bits]
  <2> HIDE DEF g
  <2> QED
    BY DigitsType
<1>2. g[0] = 0
  <2>1. bits * 0 = 0 /\ v % 1 = 0
    OBVIOUS
  <2> QED
    BY <2>1, TwoToDef
<1>3. ASSUME NEW i \in 1 .. n PROVE g[i] = g[i - 1] + d[i] * TwoTo[bits * (i - 1)]
  <2>1. i - 1 \in Nat /\ bits * i = bits * (i - 1) + bits
    OBVIOUS
  <2>2. bits * (i - 1) \in Nat
    BY <2>1
  <2>3. TwoTo[bits * i] = TwoTo[bits * (i - 1)] * TwoTo[bits]
    BY <2>1, <2>2, TwoToSum
  <2>4. TwoTo[bits * (i - 1)] \in Nat \ {0} /\ TwoTo[bits] \in Nat \ {0}
    BY <2>2, TwoToType
  <2>5. PICK P : P = TwoTo[bits * (i - 1)]
    OBVIOUS
  <2>6. PICK B : B = TwoTo[bits]
    OBVIOUS
  <2>7. v % (P * B) = (v % P) + ((v \div P) % B) * P
    <3>1. P \in Nat \ {0} /\ B \in Nat \ {0}
      BY <2>4, <2>5, <2>6
    <3> QED
      BY <3>1, OneDigitMore
  <2>8. d[i] = (v \div P) % B
    BY <1>1, <2>5, <2>6
  <2>9. v % TwoTo[bits * i] = (v % TwoTo[bits * (i - 1)]) + d[i] * TwoTo[bits * (i - 1)]
    BY <2>3, <2>5, <2>6, <2>7, <2>8
  <2>10. i \in 0 .. n /\ i - 1 \in 0 .. n
    OBVIOUS
  <2> QED
    BY <2>9, <2>10
<1>4. g[n] = v
  <2>1. bits * n \in Nat /\ n \in 0 .. n
    OBVIOUS
  <2>2. TwoTo[bits * n] \in Nat \ {0} /\ v \in 0 .. TwoTo[bits * n] - 1
    BY <2>1, TwoToType
  <2> QED
    BY <2>1, <2>2, RemainderOfLess
<1>5. DOMAIN g = 0 .. n /\ g = [i \in 0 .. n |-> g[i]]
  OBVIOUS
<1> HIDE DEF g, d
<1>6. PartialSums(d, bits, g)
  BY <1>1, <1>2, <1>3, <1>5 DEF PartialSums
<1>7. Joined(d, bits) = g[n]
  BY <1>1, <1>6, JoinedIs
<1> QED
  BY <1>4, <1>7 DEF d

-----------------------------------------------------------------------------
(* Integers of a fixed number of bytes.                                    *)

\* A sequence reversed, and reversed again.
LEMMA ReverseFacts ==
  ASSUME NEW S, NEW s \in Seq(S)
  PROVE  Reverse(s) \in Seq(S) /\ Len(Reverse(s)) = Len(s) /\ Reverse(Reverse(s)) = s
<1>1. PICK n \in Nat : n = Len(s)
  OBVIOUS
<1>2. Reverse(s) = [i \in 1 .. n |-> s[n - i + 1]]
  BY <1>1 DEF Reverse
<1>3. \A i \in 1 .. n : n - i + 1 \in 1 .. n /\ s[n - i + 1] \in S
  BY <1>1
<1>4. Reverse(s) \in Seq(S) /\ Len(Reverse(s)) = n
  BY <1>2, <1>3
<1>5. Reverse(Reverse(s)) = [i \in 1 .. n |-> Reverse(s)[n - i + 1]]
  BY <1>4 DEF Reverse
<1>6. \A i \in 1 .. n : Reverse(s)[n - i + 1] = s[i]
  <2> SUFFICES ASSUME NEW i \in 1 .. n PROVE Reverse(s)[n - i + 1] = s[i]
    OBVIOUS
  <2>1. n - (n - i + 1) + 1 = i
    BY <1>1
  <2> QED
    BY <1>2, <1>3, <2>1
<1>7. s = [i \in 1 .. n |-> s[i]]
  BY <1>1
<1>8. Reverse(Reverse(s)) = [i \in 1 .. n |-> s[i]]
  BY <1>5, <1>6
<1> QED
  BY <1>1, <1>4, <1>7, <1>8

\* There are as many values as bytes can tell apart, a power of two.
LEMMA RangeSize ==
  ASSUME NEW n \in Nat \ {0}
  PROVE  /\ ByteBits * n \in Nat \ {0} /\ ByteBits * n - 1 \in Nat
         /\ TwoTo[ByteBits * n] \in Nat \ {0}
         /\ TwoTo[ByteBits * n - 1] \in Nat \ {0}
         /\ TwoTo[ByteBits * n] = 2 * TwoTo[ByteBits * n - 1]
         /\ UnsignedRange(n) \subseteq Nat
<1>1. ByteBits * n \in Nat
  BY ByteAssumption
<1>2. ByteBits * n >= n
  BY ByteAssumption
<1>3. ByteBits * n \in Nat \ {0} /\ ByteBits * n - 1 \in Nat /\ (ByteBits * n - 1) + 1 = ByteBits * n
  BY <1>1, <1>2
<1> QED
  BY <1>3, TwoToDef, TwoToType DEF UnsignedRange

\* The bytes of a number, in either order, and the number of these bytes.
LEMMA FixedBytes ==
  ASSUME NEW n \in Nat \ {0}, NEW v \in UnsignedRange(n)
  PROVE  /\ LittleEndian(v, n) \in Seq(Nat) /\ Len(LittleEndian(v, n)) = n
         /\ BigEndian(v, n) \in Seq(Nat) /\ Len(BigEndian(v, n)) = n
         /\ FromLittleEndian(LittleEndian(v, n)) = v
         /\ FromBigEndian(BigEndian(v, n)) = v
<1>1. v \in Nat /\ n \in Nat /\ ByteBits \in Nat /\ v < TwoTo[ByteBits * n]
  BY RangeSize, ByteAssumption DEF UnsignedRange
<1>2. LittleEndian(v, n) \in Seq(Nat) /\ Len(LittleEndian(v, n)) = n
  BY <1>1, DigitsType DEF LittleEndian
<1>3. FromLittleEndian(LittleEndian(v, n)) = v
  BY <1>1, JoinedDigits DEF LittleEndian, FromLittleEndian
<1> QED
  BY <1>2, <1>3, ReverseFacts DEF BigEndian, FromBigEndian

\* A signed number as an unsigned one, and back.
LEMMA SignedBack ==
  ASSUME NEW n \in Nat \ {0}, NEW v \in SignedRange(n)
  PROVE  /\ v >= 0 => Unsigned(v, n) = v
         /\ v < 0 => Unsigned(v, n) = v + TwoTo[ByteBits * n]
         /\ Unsigned(v, n) \in UnsignedRange(n)
         /\ Signed(Unsigned(v, n), n) = v
<1>1. PICK M : M = TwoTo[ByteBits * n]
  OBVIOUS
<1>2. PICK H : H = TwoTo[ByteBits * n - 1]
  OBVIOUS
<1>3. M \in Nat \ {0} /\ H \in Nat \ {0} /\ M = 2 * H
  BY <1>1, <1>2, RangeSize
<1>4. v \in Int /\ v >= - H /\ v <= H - 1
  BY <1>2, <1>3 DEF SignedRange
<1>5. Unsigned(v, n) = v % M
  BY <1>1 DEF Unsigned
<1>6. \A u : Signed(u, n) = IF u >= H THEN u - M ELSE u
  BY <1>1, <1>2 DEF Signed
<1>7. UnsignedRange(n) = 0 .. M - 1
  BY <1>1 DEF UnsignedRange
<1>8. CASE v >= 0
  <2>1. v = 0 * M + v /\ v \in 0 .. M - 1
    BY <1>3, <1>4, <1>8
  <2>2. v % M = v
    BY <1>3, <2>1, DivisionUnique
  <2> QED
    BY <1>1, <1>3, <1>4, <1>5, <1>6, <1>7, <1>8, <2>2
<1>9. CASE v < 0
  <2>1. PICK r : r = v + M
    OBVIOUS
  <2>2. PICK q : q = -1
    OBVIOUS
  <2>3. v = q * M + r /\ r \in 0 .. M - 1 /\ q \in Int
    BY <1>3, <1>4, <1>9, <2>1, <2>2
  <2>4. v % M = v + M
    BY <1>3, <1>4, <2>1, <2>3, DivisionUnique
  <2> QED
    BY <1>1, <1>3, <1>4, <1>5, <1>6, <1>7, <1>9, <2>4
<1> QED
  BY <1>4, <1>8, <1>9

\* A zig-zagged number, and back.
LEMMA ZigZagBack ==
  ASSUME NEW n \in Nat \ {0}, NEW v \in SignedRange(n)
  PROVE  /\ ZigZag(v, n) = IF v >= 0 THEN 2 * v ELSE -2 * v - 1
         /\ ZigZag(v, n) \in UnsignedRange(n)
         /\ UnZigZag(ZigZag(v, n)) = v
<1>1. PICK M : M = TwoTo[ByteBits * n]
  OBVIOUS
<1>2. PICK H : H = TwoTo[ByteBits * n - 1]
  OBVIOUS
<1>3. M \in Nat \ {0} /\ H \in Nat \ {0} /\ M = 2 * H
  BY <1>1, <1>2, RangeSize
<1>4. v \in Int /\ v >= - H /\ v <= H - 1
  BY <1>2, <1>3 DEF SignedRange
<1>5. UnsignedRange(n) = 0 .. M - 1
  BY <1>1 DEF UnsignedRange
<1>6. CASE v >= 0
  <2>1. ZigZag(v, n) = 2 * v
    BY <1>6 DEF ZigZag
  <2>2. (2 * v) % 2 = 0 /\ (2 * v) \div 2 = v
    BY <1>4, <1>6
  <2> QED
    BY <1>3, <1>4, <1>5, <1>6, <2>1, <2>2 DEF UnZigZag
<1>7. CASE v < 0
  <2>1. PICK r : r = -2 * v - 1
    OBVIOUS
  <2>2. r \in 0 .. M - 1
    BY <1>3, <1>4, <1>7, <2>1
  <2>3. r % M = r
    BY <1>3, <2>2, RemainderOfLess
  <2>4. ZigZag(v, n) = -2 * v - 1
    BY <1>1, <1>4, <1>7, <2>1, <2>3 DEF ZigZag, Unsigned
  <2>5. (-2 * v - 1) % 2 = 1 /\ (-2 * v - 1) \div 2 = - v - 1
    BY <1>4, <1>7
  <2>6. UnZigZag(-2 * v - 1) = -(-v - 1) - 1
    BY <2>5 DEF UnZigZag
  <2> QED
    BY <1>4, <1>5, <1>7, <2>1, <2>2, <2>4, <2>6
<1> QED
  BY <1>4, <1>6, <1>7
-----------------------------------------------------------------------------
(* Variable-length integers.                                               *)

\* The turns of the loops are the least that hold all bits.
LEMMA MaxGroupsFacts ==
  ASSUME NEW n \in Nat \ {0}
  PROVE  /\ MaxGroups(n) \in Nat \ {0}
         /\ (ByteBits - 1) * MaxGroups(n) >= ByteBits * n
         /\ (ByteBits - 1) * (MaxGroups(n) - 1) <= ByteBits * n - 1
<1>1. PICK g : g = ByteBits - 1
  OBVIOUS
<1>2. g \in Nat \ {0} /\ ByteBits = g + 1
  BY <1>1, ByteAssumption
<1>3. PICK a : a = n * ByteBits
  OBVIOUS
<1>4. a = ByteBits * n /\ a \in Nat /\ a >= ByteBits
  BY <1>3, ByteAssumption
<1>5. PICK q : q = (a + ByteBits - 2) \div g
  OBVIOUS
<1>6. q \in Nat /\ q * g <= a + ByteBits - 2 /\ a + ByteBits - 2 < q * g + g
  <2>1. PICK m : m = a + ByteBits - 2
    OBVIOUS
  <2>2. m \in Nat
    BY <1>2, <1>4, <2>1
  <2>3. m \div g \in Nat /\ (m \div g) * g <= m /\ m < (m \div g) * g + g
    BY <1>2, <2>2
  <2> QED
    BY <1>5, <2>1, <2>3
<1>7. MaxGroups(n) = q
  BY <1>1, <1>3, <1>5 DEF MaxGroups
<1>8. q * g \in Nat /\ q * g = g * q
  BY <1>2, <1>6
<1>9. g * q >= a
  BY <1>2, <1>4, <1>6, <1>8
<1>10. q # 0
  BY <1>2, <1>4, <1>8, <1>9
<1>11. g * (q - 1) = q * g - g
  BY <1>2, <1>6
<1>12. g * (q - 1) <= a - 1
  BY <1>2, <1>4, <1>6, <1>8, <1>11
<1> QED
  BY <1>1, <1>4, <1>6, <1>7, <1>9, <1>10, <1>12

\* What holds of the number of groups.
FitsIn(u, k) ==
  /\ u < TwoTo[(ByteBits - 1) * k]
  /\ \A j \in 1 .. k - 1 : u >= TwoTo[(ByteBits - 1) * j]

\* A number that has so many bytes takes no more groups than the loops have turns.
LEMMA GroupsExist ==
  ASSUME NEW n \in Nat \ {0}, NEW u \in UnsignedRange(n)
  PROVE  GroupsOf(u, n) \in 1 .. MaxGroups(n) /\ FitsIn(u, GroupsOf(u, n))
<1>1. PICK m : m = MaxGroups(n)
  OBVIOUS
<1>2. m \in Nat \ {0} /\ (ByteBits - 1) * m >= ByteBits * n
  BY <1>1, MaxGroupsFacts
<1>3. ByteBits - 1 \in Nat
  BY ByteAssumption
<1>4. \A j \in Nat : TwoTo[(ByteBits - 1) * j] \in Nat
  <2> SUFFICES ASSUME NEW j \in Nat PROVE TwoTo[(ByteBits - 1) * j] \in Nat
    OBVIOUS
  <2>1. (ByteBits - 1) * j \in Nat
    BY <1>3
  <2> QED
    BY <2>1, TwoToType
<1>5. u \in Nat /\ u < TwoTo[ByteBits * n]
  BY RangeSize DEF UnsignedRange
<1>6. u < TwoTo[(ByteBits - 1) * m]
  <2>1. (ByteBits - 1) * m \in Nat /\ ByteBits * n \in Nat
    BY <1>2, <1>3, RangeSize
  <2>2. TwoTo[ByteBits * n] <= TwoTo[(ByteBits - 1) * m]
    BY <1>2, <2>1, TwoToGrows
  <2>3. TwoTo[ByteBits * n] \in Nat /\ TwoTo[(ByteBits - 1) * m] \in Nat
    BY <2>1, TwoToType
  <2> QED
    BY <1>5, <2>2, <2>3
<1> DEFINE Enough == {k \in 1 .. m : u < TwoTo[(ByteBits - 1) * k]}
<1>7. Enough \subseteq Nat /\ Enough # {}
  BY <1>2, <1>6
<1>8. PICK k \in Enough : \A y \in Enough : k <= y
  <2> HIDE DEF Enough
  <2> QED
    BY <1>7, SmallestOf
<1>9. k \in 1 .. m /\ FitsIn(u, k)
  <2>1. k \in 1 .. m /\ u < TwoTo[(ByteBits - 1) * k]
    BY <1>8
  <2>2. ASSUME NEW j \in 1 .. k - 1 PROVE u >= TwoTo[(ByteBits - 1) * j]
    <3>1. j \in 1 .. m /\ j < k /\ j \in Nat
      BY <1>2, <2>1
    <3>2. j \notin Enough
      BY <1>8, <3>1
    <3>3. ~ (u < TwoTo[(ByteBits - 1) * j])
      BY <3>1, <3>2
    <3> QED
      BY <1>4, <1>5, <3>1, <3>3
  <2> QED
    BY <2>1, <2>2 DEF FitsIn
<1>10. GroupsOf(u, n) = CHOOSE kk \in 1 .. m : FitsIn(u, kk)
  BY <1>1 DEF GroupsOf, FitsIn
<1> QED
  BY <1>1, <1>9, <1>10

\* That number is the only one.
LEMMA GroupsUnique ==
  ASSUME NEW u \in Nat, NEW k \in Nat \ {0}, NEW l \in Nat \ {0}, FitsIn(u, k), FitsIn(u, l)
  PROVE  k = l
<1>1. \A j \in Nat : TwoTo[(ByteBits - 1) * j] \in Nat
  <2> SUFFICES ASSUME NEW j \in Nat PROVE TwoTo[(ByteBits - 1) * j] \in Nat
    OBVIOUS
  <2>1. ByteBits - 1 \in Nat
    BY ByteAssumption
  <2>2. (ByteBits - 1) * j \in Nat
    BY <2>1
  <2> QED
    BY <2>2, TwoToType
<1>2. ~ (k < l)
  <2> SUFFICES ASSUME k < l PROVE FALSE
    OBVIOUS
  <2>1. k \in 1 .. l - 1
    OBVIOUS
  <2> QED
    BY <1>1, <2>1 DEF FitsIn
<1>3. ~ (l < k)
  <2> SUFFICES ASSUME l < k PROVE FALSE
    OBVIOUS
  <2>1. l \in 1 .. k - 1
    OBVIOUS
  <2> QED
    BY <1>1, <2>1 DEF FitsIn
<1> QED
  BY <1>2, <1>3

\* The bytes of a variable-length integer: only the last one is below Group.
LEMMA VarBytesFacts ==
  ASSUME NEW n \in Nat \ {0}, NEW u \in UnsignedRange(n), NEW k, k = GroupsOf(u, n)
  PROVE  /\ VarBytes(u, n) \in Seq(Nat) /\ Len(VarBytes(u, n)) = k
         /\ Group \in Nat \ {0}
         /\ \A i \in 1 .. k : /\ VarBytes(u, n)[i] < Group <=> i = k
                              /\ VarBytes(u, n)[i] % Group = Digits(u, ByteBits - 1, k)[i]
<1>1. k \in Nat \ {0} /\ u \in Nat /\ ByteBits - 1 \in Nat
  <2>1. MaxGroups(n) \in Nat
    BY MaxGroupsFacts
  <2>2. k \in 1 .. MaxGroups(n)
    BY GroupsExist
  <2>3. u \in Nat
    BY RangeSize
  <2> QED
    BY <2>1, <2>2, <2>3, ByteAssumption
<1> DEFINE d == Digits(u, ByteBits - 1, k)
<1>2. Group \in Nat \ {0}
  BY <1>1, TwoToType DEF Group
<1>3. \A i \in 1 .. k : d[i] \in 0 .. Group - 1
  BY <1>1, DigitsType DEF Group
<1>4. VarBytes(u, n) = [i \in 1 .. k |-> d[i] + (IF i < k THEN Group ELSE 0)]
  BY DEF VarBytes
<1> HIDE DEF d
<1>5. \A i \in 1 .. k : d[i] + (IF i < k THEN Group ELSE 0) \in Nat
  BY <1>2, <1>3
<1>6. VarBytes(u, n) \in Seq(Nat) /\ Len(VarBytes(u, n)) = k
  BY <1>1, <1>4, <1>5
<1>7. ASSUME NEW i \in 1 .. k
      PROVE  /\ VarBytes(u, n)[i] < Group <=> i = k
             /\ VarBytes(u, n)[i] % Group = d[i]
  <2>1. d[i] \in 0 .. Group - 1
    BY <1>3
  <2>2. CASE i < k
    <3>1. VarBytes(u, n)[i] = d[i] + Group
      BY <1>4, <2>2
    <3>2. PICK t : t = d[i] + Group
      OBVIOUS
    <3>3. PICK q : q = 1
      OBVIOUS
    <3>4. t \in Int /\ q \in Int /\ t = q * Group + d[i]
      BY <1>2, <2>1, <3>2, <3>3
    <3>5. t % Group = d[i]
      BY <1>2, <2>1, <3>4, DivisionUnique
    <3>6. ~ (t < Group) /\ i # k
      BY <1>1, <1>2, <2>1, <2>2, <3>2
    <3> QED
      BY <3>1, <3>2, <3>5, <3>6
  <2>3. CASE i = k
    <3>1. VarBytes(u, n)[i] = d[i] + 0
      BY <1>1, <1>4, <2>3
    <3>2. d[i] + 0 = d[i]
      BY <1>2, <2>1
    <3>3. d[i] % Group = d[i]
      BY <1>2, <2>1, RemainderOfLess
    <3>4. d[i] < Group
      BY <1>2, <2>1
    <3> QED
      BY <2>3, <3>1, <3>2, <3>3, <3>4
  <2>4. i < k \/ i = k
    BY <1>1
  <2> QED
    BY <2>2, <2>3, <2>4
<1> QED
  BY <1>2, <1>6, <1>7 DEF d

\* The bytes from the pointer on begin with these.
Starts(bytes, front) ==
  /\ bytes \in Seq(Nat) /\ front \in Seq(Nat)
  /\ Len(front) <= Len(bytes)
  /\ \A i \in 1 .. Len(front) : bytes[i] = front[i]

\* What has been written as a variable-length integer is read as it was.
LEMMA ReadVarBack ==
  ASSUME NEW n \in Nat \ {0}, NEW u \in UnsignedRange(n), NEW bytes,
         Starts(bytes, VarBytes(u, n))
  PROVE  ReadVar(bytes, n) = [value |-> u, size |-> Len(VarBytes(u, n))]
<1>1. PICK k : k = GroupsOf(u, n)
  OBVIOUS
<1>2. /\ MaxGroups(n) \in Nat /\ k \in 1 .. MaxGroups(n) /\ FitsIn(u, k)
      /\ u \in Nat /\ ByteBits - 1 \in Nat
  BY <1>1, MaxGroupsFacts, GroupsExist, RangeSize, ByteAssumption
<1>3. /\ Len(VarBytes(u, n)) = k /\ Group \in Nat \ {0}
      /\ \A i \in 1 .. k : /\ VarBytes(u, n)[i] < Group <=> i = k
                           /\ VarBytes(u, n)[i] % Group = Digits(u, ByteBits - 1, k)[i]
  BY <1>1, VarBytesFacts
<1>4. /\ bytes \in Seq(Nat) /\ k <= Len(bytes)
      /\ \A i \in 1 .. k : bytes[i] = VarBytes(u, n)[i]
  BY <1>3 DEF Starts
<1>5. \A i \in 1 .. k : /\ bytes[i] < Group <=> i = k
                        /\ bytes[i] % Group = Digits(u, ByteBits - 1, k)[i]
  BY <1>3, <1>4
<1> DEFINE ends == {i \in 1 .. MaxGroups(n) : i \in DOMAIN bytes /\ bytes[i] < Group}
           length == CHOOSE i \in ends : \A j \in ends : i <= j
<1>6. k \in ends
  <2>1. k \in 1 .. k /\ k \in DOMAIN bytes
    BY <1>2, <1>4
  <2> QED
    BY <1>2, <1>5, <2>1
<1>7. \A j \in ends : j \in Nat /\ k <= j
  <2> SUFFICES ASSUME NEW j \in ends PROVE j \in Nat /\ k <= j
    OBVIOUS
  <2>1. j \in Nat \ {0} /\ bytes[j] < Group
    BY <1>2
  <2>2. j < k => j \in 1 .. k /\ j # k
    BY <1>2, <2>1
  <2> HIDE DEF ends
  <2> QED
    BY <1>2, <1>5, <2>1, <2>2
<1>8. length = k
  <2> HIDE DEF ends
  <2>1. length \in ends /\ length <= k
    BY <1>6, <1>7
  <2>2. length \in Nat /\ k <= length /\ k \in Nat
    BY <1>6, <1>7, <2>1
  <2> QED
    BY <2>1, <2>2
<1>9. ReadVar(bytes, n) =
        [value |-> Joined([i \in 1 .. k |-> bytes[i] % Group], ByteBits - 1)
                      % TwoTo[ByteBits * n],
         size |-> k]
  BY <1>6, <1>8 DEF ReadVar
<1>10. [i \in 1 .. k |-> bytes[i] % Group] = Digits(u, ByteBits - 1, k)
  <2>1. Digits(u, ByteBits - 1, k) = [i \in 1 .. k |-> Digits(u, ByteBits - 1, k)[i]]
    BY DEF Digits
  <2> HIDE DEF ends, length
  <2> QED
    BY <1>5, <2>1
<1>11. Joined(Digits(u, ByteBits - 1, k), ByteBits - 1) = u
  <2>1. u < TwoTo[(ByteBits - 1) * k] /\ k \in Nat
    BY <1>2 DEF FitsIn
  <2> QED
    BY <1>2, <2>1, JoinedDigits
<1>12. u % TwoTo[ByteBits * n] = u
  <2>1. TwoTo[ByteBits * n] \in Nat \ {0} /\ u \in 0 .. TwoTo[ByteBits * n] - 1
    BY RangeSize DEF UnsignedRange
  <2> QED
    BY <2>1, RemainderOfLess
<1> QED
  BY <1>3, <1>9, <1>10, <1>11, <1>12

-----------------------------------------------------------------------------
(* Each kind of value.                                                     *)

\* What bytes begin with is their first part, and a part of it is a part of them.
LEMMA StartsWith ==
  ASSUME NEW bytes, NEW front, Starts(bytes, front),
         NEW a \in Nat \ {0}, NEW b \in Nat, b <= Len(front)
  PROVE  SubSeq(bytes, a, b) = SubSeq(front, a, b)
<1>1. /\ bytes \in Seq(Nat) /\ front \in Seq(Nat) /\ Len(front) <= Len(bytes)
      /\ \A i \in 1 .. Len(front) : bytes[i] = front[i]
  BY DEF Starts
<1>2. CASE a > b
  BY <1>1, <1>2
<1>3. CASE a <= b
  <2>1. SubSeq(bytes, a, b) = [i \in 1 .. b - a + 1 |-> bytes[i + a - 1]]
    BY <1>1, <1>3
  <2>2. SubSeq(front, a, b) = [i \in 1 .. b - a + 1 |-> front[i + a - 1]]
    BY <1>1, <1>3
  <2>3. \A i \in 1 .. b - a + 1 : i + a - 1 \in 1 .. Len(front)
    BY <1>1, <1>3
  <2>4. \A i \in 1 .. b - a + 1 : bytes[i + a - 1] = front[i + a - 1]
    BY <1>1, <2>3
  <2> QED
    BY <2>1, <2>2, <2>4
<1> QED
  BY <1>2, <1>3

\* The whole of it.
LEMMA StartsWithAll ==
  ASSUME NEW bytes, NEW front, Starts(bytes, front)
  PROVE  SubSeq(bytes, 1, Len(front)) = front
<1>1. front \in Seq(Nat) /\ Len(front) \in Nat
  BY DEF Starts
<1>2. SubSeq(front, 1, Len(front)) = front
  BY <1>1
<1>3. SubSeq(bytes, 1, Len(front)) = SubSeq(front, 1, Len(front))
  BY <1>1, StartsWith
<1> QED
  BY <1>2, <1>3

\* What is asked of a kind of value: something is written, and it is read back in
\* the same number of bytes, whatever comes after it.
Stored(kind, v) == IF kind = "uuid" THEN Padded(v) ELSE v

\* These bytes, whatever comes after them, are read as this value, of this size.
ReadsAs(kind, code, value, n) ==
  \A bytes : Starts(bytes, code) => Read(kind, bytes) = [value |-> value, size |-> n]

RoundTrip(kind, v) ==
  /\ Encode(kind, v) \in Seq(Nat) /\ Len(Encode(kind, v)) \in Nat \ {0}
  /\ \A bytes : Starts(bytes, Encode(kind, v)) =>
        Read(kind, bytes) = [value |-> Stored(kind, v), size |-> Len(Encode(kind, v))]

\* The same of the bytes that are written, and of their number.
RoundTripAs(kind, v, code, n) ==
  /\ Encode(kind, v) = code /\ code \in Seq(Nat) /\ Len(code) = n /\ n \in Nat \ {0}
  /\ ReadsAs(kind, code, Stored(kind, v), n)

\* It is enough to say what the bytes are.
LEMMA RoundTripIf ==
  ASSUME NEW kind, NEW v, NEW code, NEW n, RoundTripAs(kind, v, code, n)
  PROVE  RoundTrip(kind, v)
<1>1. /\ Encode(kind, v) = code /\ code \in Seq(Nat) /\ Len(code) \in Nat \ {0}
      /\ \A bytes : Starts(bytes, code) =>
             Read(kind, bytes) = [value |-> Stored(kind, v), size |-> Len(code)]
  BY DEF RoundTripAs, ReadsAs
<1> QED
  BY <1>1, Zenon DEF RoundTrip

\* One byte.
LEMMA ByteKinds ==
  /\ \A v \in KindRange["uint8"] : RoundTrip("uint8", v)
  /\ \A v \in KindRange["bool"] : RoundTrip("bool", v)
<1>1. ASSUME NEW v \in KindRange["uint8"] PROVE RoundTrip("uint8", v)
  <2>1. v \in Nat
    BY RangeSize DEF KindRange
  <2>2. Encode("uint8", v) = <<v>> /\ Stored("uint8", v) = v
    BY DEF Encode, Stored
  <2>3. \A bytes : Read("uint8", bytes) = [value |-> Head(SubSeq(bytes, 1, 1)), size |-> 1]
    BY DEF Read, Fixed
  <2>4. ASSUME NEW bytes, Starts(bytes, <<v>>) PROVE SubSeq(bytes, 1, 1) = <<v>>
    <3>1. Len(<<v>>) = 1
      OBVIOUS
    <3> QED
      BY <2>4, <3>1, StartsWithAll
  <2>5. <<v>> \in Seq(Nat) /\ Len(<<v>>) = 1 /\ Head(<<v>>) = v
    BY <2>1
  <2>6. ReadsAs("uint8", <<v>>, v, 1)
    BY <2>3, <2>4, <2>5 DEF ReadsAs
  <2>7. RoundTripAs("uint8", v, <<v>>, 1)
    BY <2>2, <2>5, <2>6 DEF RoundTripAs
  <2> QED
    BY <2>7, RoundTripIf
<1>2. ASSUME NEW v \in KindRange["bool"] PROVE RoundTrip("bool", v)
  <2>1. v \in BOOLEAN
    BY DEF KindRange
  <2>2. Encode("bool", v) = <<IF v THEN 1 ELSE 0>> /\ Stored("bool", v) = v
    BY DEF Encode, WriteBool, Stored
  <2>3. \A bytes : Read("bool", bytes) = [value |-> Head(SubSeq(bytes, 1, 1)) # 0, size |-> 1]
    BY DEF Read, Fixed
  <2>4. ASSUME NEW bytes, NEW b \in {0, 1}, Starts(bytes, <<b>>) PROVE SubSeq(bytes, 1, 1) = <<b>>
    <3>1. Len(<<b>>) = 1
      OBVIOUS
    <3> QED
      BY <2>4, <3>1, StartsWithAll
  <2>5. PICK b \in {0, 1} : b = IF v THEN 1 ELSE 0
    OBVIOUS
  <2>6. (b # 0) = v
    BY <2>1, <2>5
  <2>7. ReadsAs("bool", <<b>>, v, 1)
    <3>1. ASSUME NEW bytes, Starts(bytes, <<b>>)
          PROVE  Read("bool", bytes) = [value |-> v, size |-> 1]
      <4>1. SubSeq(bytes, 1, 1) = <<b>> /\ Head(<<b>>) = b
        BY <2>4, <3>1
      <4> QED
        BY <2>3, <2>6, <4>1
    <3> QED
      BY <3>1 DEF ReadsAs
  <2>8. Encode("bool", v) = <<b>> /\ Len(<<b>>) = 1 /\ <<b>> \in Seq(Nat)
    BY <2>2, <2>5
  <2>9. RoundTripAs("bool", v, <<b>>, 1)
    BY <2>2, <2>7, <2>8 DEF RoundTripAs
  <2> QED
    BY <2>9, RoundTripIf
<1> QED
  BY <1>1, <1>2

\* Kinds of n bytes, in either order, of signed or unsigned numbers.
EncodedAs(v, n, big, signed) ==
  LET u == IF signed THEN Unsigned(v, n) ELSE v
  IN IF big THEN BigEndian(u, n) ELSE LittleEndian(u, n)

DecodedAs(bytes, n, big, signed) ==
  LET u == IF big THEN FromBigEndian(bytes) ELSE FromLittleEndian(bytes)
  IN IF signed THEN Signed(u, n) ELSE u

FixedKind(kind, n, big, signed) ==
  /\ n \in Nat \ {0}
  /\ KindRange[kind] = IF signed THEN SignedRange(n) ELSE UnsignedRange(n)
  /\ \A v : Encode(kind, v) = EncodedAs(v, n, big, signed) /\ Stored(kind, v) = v
  /\ \A bytes : Read(kind, bytes) =
                  [value |-> DecodedAs(SubSeq(bytes, 1, n), n, big, signed), size |-> n]

\* They come back as they were written.
LEMMA FixedKindBack ==
  ASSUME NEW kind, NEW n, NEW big \in BOOLEAN, NEW signed \in BOOLEAN,
         FixedKind(kind, n, big, signed), NEW v \in KindRange[kind]
  PROVE  RoundTrip(kind, v)
<1>1. /\ n \in Nat \ {0}
      /\ v \in IF signed THEN SignedRange(n) ELSE UnsignedRange(n)
      /\ Encode(kind, v) = EncodedAs(v, n, big, signed) /\ Stored(kind, v) = v
      /\ \A bytes : Read(kind, bytes) =
                      [value |-> DecodedAs(SubSeq(bytes, 1, n), n, big, signed), size |-> n]
  BY DEF FixedKind
<1>2. PICK u : u = IF signed THEN Unsigned(v, n) ELSE v
  OBVIOUS
<1>3. u \in UnsignedRange(n) /\ v = IF signed THEN Signed(u, n) ELSE u
  BY <1>1, <1>2, SignedBack
<1>4. PICK code : code = IF big THEN BigEndian(u, n) ELSE LittleEndian(u, n)
  OBVIOUS
<1>5. /\ code \in Seq(Nat) /\ Len(code) = n
      /\ u = IF big THEN FromBigEndian(code) ELSE FromLittleEndian(code)
  BY <1>1, <1>3, <1>4, FixedBytes
<1>6. Encode(kind, v) = code
  BY <1>1, <1>2, <1>4 DEF EncodedAs
<1>7. DecodedAs(code, n, big, signed) = v
  BY <1>3, <1>5 DEF DecodedAs
<1>8. ReadsAs(kind, code, v, n)
  <2>1. ASSUME NEW bytes, Starts(bytes, code)
        PROVE  Read(kind, bytes) = [value |-> v, size |-> n]
    <3>1. SubSeq(bytes, 1, n) = code
      BY <1>5, <2>1, StartsWithAll
    <3> QED
      BY <1>1, <1>7, <3>1
  <2> QED
    BY <2>1 DEF ReadsAs
<1>9. RoundTripAs(kind, v, code, n)
  BY <1>1, <1>5, <1>6, <1>8 DEF RoundTripAs
<1> QED
  BY <1>9, RoundTripIf

\* The kinds of this form.
LEMMA FixedKinds ==
  /\ FixedKind("uint16", 2, TRUE, FALSE) /\ FixedKind("int16LE", 2, FALSE, TRUE)
  /\ FixedKind("uint24", 3, TRUE, FALSE) /\ FixedKind("uint24LE", 3, FALSE, FALSE)
  /\ FixedKind("int32", IntBytes, TRUE, TRUE)
  /\ FixedKind("uint32LE", IntBytes, FALSE, FALSE)
  /\ FixedKind("int64", LongBytes, TRUE, TRUE)
  /\ FixedKind("uint64LE", LongBytes, FALSE, FALSE)
<1>1. FixedKind("uint16", 2, TRUE, FALSE)
  BY DEF FixedKind, EncodedAs, DecodedAs, Encode, Read, Fixed, Stored, KindRange
<1>2. FixedKind("int16LE", 2, FALSE, TRUE)
  BY DEF FixedKind, EncodedAs, DecodedAs, Encode, Read, Fixed, Stored, KindRange
<1>3. FixedKind("uint24", 3, TRUE, FALSE)
  BY DEF FixedKind, EncodedAs, DecodedAs, Encode, Read, Fixed, Stored, KindRange
<1>4. FixedKind("uint24LE", 3, FALSE, FALSE)
  BY DEF FixedKind, EncodedAs, DecodedAs, Encode, Read, Fixed, Stored, KindRange
<1>5. FixedKind("int32", IntBytes, TRUE, TRUE)
  BY WidthAssumption
     DEF FixedKind, EncodedAs, DecodedAs, Encode, Read, Fixed, Stored, KindRange
<1>6. FixedKind("uint32LE", IntBytes, FALSE, FALSE)
  BY WidthAssumption
     DEF FixedKind, EncodedAs, DecodedAs, Encode, Read, Fixed, Stored, KindRange
<1>7. FixedKind("int64", LongBytes, TRUE, TRUE)
  BY WidthAssumption
     DEF FixedKind, EncodedAs, DecodedAs, Encode, Read, Fixed, Stored, KindRange
<1>8. FixedKind("uint64LE", LongBytes, FALSE, FALSE)
  BY WidthAssumption
     DEF FixedKind, EncodedAs, DecodedAs, Encode, Read, Fixed, Stored, KindRange
<1> QED
  BY <1>1, <1>2, <1>3, <1>4, <1>5, <1>6, <1>7, <1>8

\* Kinds of variable length, as wide as n bytes, zig-zagged or not.
Raw(v, n, zigZag) == IF zigZag THEN ZigZag(v, n) ELSE Unsigned(v, n)

Cooked(u, n, zigZag) == IF zigZag THEN UnZigZag(u) ELSE Signed(u, n)

VarKind(kind, n, zigZag) ==
  /\ n \in Nat \ {0}
  /\ KindRange[kind] = SignedRange(n)
  /\ \A v : Encode(kind, v) = VarBytes(Raw(v, n, zigZag), n) /\ Stored(kind, v) = v
  /\ \A bytes, u, k : ReadVar(bytes, n) = [value |-> u, size |-> k] /\ k # 0 =>
        Read(kind, bytes) = [value |-> Cooked(u, n, zigZag), size |-> k]

\* What such a kind writes fits its type, and is taken back to the value.
LEMMA RawFacts ==
  ASSUME NEW n \in Nat \ {0}, NEW zigZag \in BOOLEAN, NEW v \in SignedRange(n)
  PROVE  Raw(v, n, zigZag) \in UnsignedRange(n) /\ Cooked(Raw(v, n, zigZag), n, zigZag) = v
BY SignedBack, ZigZagBack DEF Raw, Cooked

\* Kinds of variable length come back as they were written.
LEMMA VarKindBack ==
  ASSUME NEW kind, NEW n, NEW zigZag \in BOOLEAN,
         VarKind(kind, n, zigZag), NEW v \in KindRange[kind]
  PROVE  RoundTrip(kind, v)
<1>1. /\ n \in Nat \ {0} /\ v \in SignedRange(n)
      /\ Encode(kind, v) = VarBytes(Raw(v, n, zigZag), n) /\ Stored(kind, v) = v
      /\ \A bytes, u, k : ReadVar(bytes, n) = [value |-> u, size |-> k] /\ k # 0 =>
            Read(kind, bytes) = [value |-> Cooked(u, n, zigZag), size |-> k]
  BY DEF VarKind
<1>2. PICK u : u = Raw(v, n, zigZag)
  OBVIOUS
<1>3. u \in UnsignedRange(n) /\ Cooked(u, n, zigZag) = v
  BY <1>1, <1>2, RawFacts
<1>4. PICK code : code = VarBytes(u, n)
  OBVIOUS
<1>5. PICK k : k = Len(code)
  OBVIOUS
<1>6. code \in Seq(Nat) /\ k \in Nat \ {0}
  <2>1. GroupsOf(u, n) \in 1 .. MaxGroups(n) /\ MaxGroups(n) \in Nat
    BY <1>1, <1>3, GroupsExist, MaxGroupsFacts
  <2>2. code \in Seq(Nat) /\ k = GroupsOf(u, n)
    BY <1>1, <1>3, <1>4, <1>5, VarBytesFacts
  <2> QED
    BY <2>1, <2>2
<1>7. ReadsAs(kind, code, v, k)
  <2>1. ASSUME NEW bytes, Starts(bytes, code)
        PROVE  Read(kind, bytes) = [value |-> v, size |-> k]
    <3>1. ReadVar(bytes, n) = [value |-> u, size |-> k]
      BY <1>1, <1>3, <1>4, <1>5, <2>1, ReadVarBack
    <3> QED
      BY <1>1, <1>3, <1>6, <3>1
  <2> QED
    BY <2>1 DEF ReadsAs
<1>8. RoundTripAs(kind, v, code, k)
  BY <1>1, <1>2, <1>4, <1>5, <1>6, <1>7 DEF RoundTripAs
<1> QED
  BY <1>8, RoundTripIf

\* The kinds of this form.
LEMMA VarKinds ==
  /\ VarKind("varInt32", IntBytes, FALSE) /\ VarKind("varInt64", LongBytes, FALSE)
  /\ VarKind("zigZag32", IntBytes, TRUE) /\ VarKind("zigZag64", LongBytes, TRUE)
<1>1. VarKind("varInt32", IntBytes, FALSE)
  <2>1. ASSUME NEW bytes, NEW u, NEW k, ReadVar(bytes, IntBytes) = [value |-> u, size |-> k], k # 0
        PROVE  Read("varInt32", bytes) = [value |-> Cooked(u, IntBytes, FALSE), size |-> k]
    <3>1. PICK raw : raw = ReadVar(bytes, IntBytes)
      OBVIOUS
    <3>2. Read("varInt32", bytes) = IF raw.size = 0 THEN Thrown
                                  ELSE [raw EXCEPT !.value = Signed(raw.value, IntBytes)]
      BY <3>1 DEF Read, Converted
    <3>3. raw = [value |-> u, size |-> k]
      BY <2>1, <3>1
    <3> QED
      BY <2>1, <3>2, <3>3 DEF Cooked
  <2>2. KindRange["varInt32"] = SignedRange(IntBytes)
    BY DEF KindRange
  <2>3. \A v : Encode("varInt32", v) = VarBytes(Raw(v, IntBytes, FALSE), IntBytes) /\ Stored("varInt32", v) = v
    BY DEF Encode, Raw, Stored
  <2> QED
    BY <2>1, <2>2, <2>3, WidthAssumption DEF VarKind
<1>2. VarKind("varInt64", LongBytes, FALSE)
  <2>1. ASSUME NEW bytes, NEW u, NEW k, ReadVar(bytes, LongBytes) = [value |-> u, size |-> k], k # 0
        PROVE  Read("varInt64", bytes) = [value |-> Cooked(u, LongBytes, FALSE), size |-> k]
    <3>1. PICK raw : raw = ReadVar(bytes, LongBytes)
      OBVIOUS
    <3>2. Read("varInt64", bytes) = IF raw.size = 0 THEN Thrown
                                  ELSE [raw EXCEPT !.value = Signed(raw.value, LongBytes)]
      BY <3>1 DEF Read, Converted
    <3>3. raw = [value |-> u, size |-> k]
      BY <2>1, <3>1
    <3> QED
      BY <2>1, <3>2, <3>3 DEF Cooked
  <2>2. KindRange["varInt64"] = SignedRange(LongBytes)
    BY DEF KindRange
  <2>3. \A v : Encode("varInt64", v) = VarBytes(Raw(v, LongBytes, FALSE), LongBytes) /\ Stored("varInt64", v) = v
    BY DEF Encode, Raw, Stored
  <2> QED
    BY <2>1, <2>2, <2>3, WidthAssumption DEF VarKind
<1>3. VarKind("zigZag32", IntBytes, TRUE)
  <2>1. ASSUME NEW bytes, NEW u, NEW k, ReadVar(bytes, IntBytes) = [value |-> u, size |-> k], k # 0
        PROVE  Read("zigZag32", bytes) = [value |-> Cooked(u, IntBytes, TRUE), size |-> k]
    <3>1. PICK raw : raw = ReadVar(bytes, IntBytes)
      OBVIOUS
    <3>2. Read("zigZag32", bytes) = IF raw.size = 0 THEN Thrown
                                  ELSE [raw EXCEPT !.value = UnZigZag(raw.value)]
      BY <3>1 DEF Read, Converted
    <3>3. raw = [value |-> u, size |-> k]
      BY <2>1, <3>1
    <3> QED
      BY <2>1, <3>2, <3>3 DEF Cooked
  <2>2. KindRange["zigZag32"] = SignedRange(IntBytes)
    BY DEF KindRange
  <2>3. \A v : Encode("zigZag32", v) = VarBytes(Raw(v, IntBytes, TRUE), IntBytes) /\ Stored("zigZag32", v) = v
    BY DEF Encode, Raw, Stored
  <2> QED
    BY <2>1, <2>2, <2>3, WidthAssumption DEF VarKind
<1>4. VarKind("zigZag64", LongBytes, TRUE)
  <2>1. ASSUME NEW bytes, NEW u, NEW k, ReadVar(bytes, LongBytes) = [value |-> u, size |-> k], k # 0
        PROVE  Read("zigZag64", bytes) = [value |-> Cooked(u, LongBytes, TRUE), size |-> k]
    <3>1. PICK raw : raw = ReadVar(bytes, LongBytes)
      OBVIOUS
    <3>2. Read("zigZag64", bytes) = IF raw.size = 0 THEN Thrown
                                  ELSE [raw EXCEPT !.value = UnZigZag(raw.value)]
      BY <3>1 DEF Read, Converted
    <3>3. raw = [value |-> u, size |-> k]
      BY <2>1, <3>1
    <3> QED
      BY <2>1, <3>2, <3>3 DEF Cooked
  <2>2. KindRange["zigZag64"] = SignedRange(LongBytes)
    BY DEF KindRange
  <2>3. \A v : Encode("zigZag64", v) = VarBytes(Raw(v, LongBytes, TRUE), LongBytes) /\ Stored("zigZag64", v) = v
    BY DEF Encode, Raw, Stored
  <2> QED
    BY <2>1, <2>2, <2>3, WidthAssumption DEF VarKind
<1> QED
  BY <1>1, <1>2, <1>3, <1>4

\* One after the other.
LEMMA ConcatFacts ==
  ASSUME NEW S, NEW a \in Seq(S), NEW b \in Seq(S)
  PROVE  a \o b \in Seq(S) /\ Len(a \o b) = Len(a) + Len(b)
OBVIOUS

\* What is in them.
LEMMA ConcatItems ==
  ASSUME NEW a \in Seq(Nat), NEW b \in Seq(Nat)
  PROVE  /\ \A i \in 1 .. Len(a) : (a \o b)[i] = a[i]
         /\ \A i \in 1 .. Len(b) : (a \o b)[Len(a) + i] = b[i]
<1>1. PICK m \in Nat : m = Len(a)
  OBVIOUS
<1>2. PICK n \in Nat : n = Len(b)
  OBVIOUS
<1>3. PICK code : code = a \o b
  OBVIOUS
<1>4. /\ code \in Seq(Nat) /\ Len(code) = m + n
      /\ \A i \in 1 .. m : code[i] = a[i]
      /\ \A i \in 1 .. n : code[m + i] = b[i]
  BY <1>1, <1>2, <1>3
<1> QED
  BY <1>1, <1>2, <1>3, <1>4

\* The first of two parts that bytes begin with, and where the second one is.
LEMMA StartsInParts ==
  ASSUME NEW bytes, NEW a \in Seq(Nat), NEW b \in Seq(Nat), Starts(bytes, a \o b)
  PROVE  /\ Starts(bytes, a)
         /\ SubSeq(bytes, Len(a) + 1, Len(a) + Len(b)) = b
<1>1. PICK m \in Nat : m = Len(a)
  OBVIOUS
<1>2. PICK n \in Nat : n = Len(b)
  OBVIOUS
<1>3. PICK code : code = a \o b
  OBVIOUS
<1>4. /\ code \in Seq(Nat) /\ Len(code) = m + n
      /\ \A i \in 1 .. m : code[i] = a[i]
      /\ \A i \in 1 .. n : code[m + i] = b[i]
  BY <1>1, <1>2, <1>3
<1>5. /\ bytes \in Seq(Nat) /\ m + n <= Len(bytes)
      /\ \A i \in 1 .. m + n : bytes[i] = code[i]
  BY <1>3, <1>4 DEF Starts
<1>6. Starts(bytes, a)
  <2>1. m <= Len(bytes)
    BY <1>5
  <2>2. \A i \in 1 .. m : i \in 1 .. m + n
    OBVIOUS
  <2>3. \A i \in 1 .. m : bytes[i] = a[i]
    BY <1>4, <1>5, <2>2
  <2> QED
    BY <1>1, <1>5, <2>1, <2>3 DEF Starts
<1>7. SubSeq(bytes, m + 1, m + n) = SubSeq(code, m + 1, m + n)
  <2>1. PICK p \in Nat \ {0} : p = m + 1
    OBVIOUS
  <2>2. PICK q \in Nat : q = m + n
    OBVIOUS
  <2>3. Starts(bytes, code) /\ q <= Len(code)
    BY <1>3, <1>4, <2>2
  <2>4. SubSeq(bytes, p, q) = SubSeq(code, p, q)
    BY <2>3, StartsWith
  <2> QED
    BY <2>1, <2>2, <2>4
<1>8. SubSeq(code, m + 1, m + n) = b
  <2>1. SubSeq(code, m + 1, m + n) = [i \in 1 .. n |-> code[m + i]]
    <3>1. SubSeq(code, m + 1, m + n) = [i \in 1 .. (m + n) - (m + 1) + 1 |-> code[i + (m + 1) - 1]]
      BY <1>4
    <3>2. (m + n) - (m + 1) + 1 = n /\ \A i \in 1 .. n : i + (m + 1) - 1 = m + i
      OBVIOUS
    <3> QED
      BY <3>1, <3>2
  <2>2. b = [i \in 1 .. n |-> b[i]]
    BY <1>2
  <2> QED
    BY <1>4, <2>1, <2>2
<1> QED
  BY <1>1, <1>2, <1>6, <1>7, <1>8

\* A string comes back, its length and its characters.
LEMMA StringBack == \A v \in KindRange["string"] : RoundTrip("string", v)
<1> SUFFICES ASSUME NEW v \in KindRange["string"] PROVE RoundTrip("string", v)
  OBVIOUS
<1>1. PICK n : n = IntBytes
  OBVIOUS
<1>2. n \in Nat \ {0}
  BY <1>1, WidthAssumption
<1>3. v \in Seq(UnsignedRange(1)) /\ Len(v) < TwoTo[ByteBits * n - 1]
  BY <1>1 DEF KindRange
<1>4. PICK l \in Nat : l = Len(v)
  BY <1>3
<1>5. v \in Seq(Nat) /\ l \in SignedRange(n)
  <2>1. UnsignedRange(1) \subseteq Nat /\ TwoTo[ByteBits * n - 1] \in Nat
    BY <1>2, RangeSize
  <2>2. v \in Seq(Nat)
    BY <1>3, <2>1
  <2>3. l >= - TwoTo[ByteBits * n - 1] /\ l <= TwoTo[ByteBits * n - 1] - 1
    BY <1>3, <1>4, <2>1
  <2> QED
    BY <2>1, <2>2, <2>3 DEF SignedRange
<1>6. PICK u : u = Unsigned(l, n)
  OBVIOUS
<1>7. u \in UnsignedRange(n) /\ Signed(u, n) = l
  BY <1>2, <1>5, <1>6, SignedBack
<1>8. PICK front : front = VarBytes(u, n)
  OBVIOUS
<1>9. PICK k : k = Len(front)
  OBVIOUS
<1>10. front \in Seq(Nat) /\ k \in Nat \ {0}
  <2>1. GroupsOf(u, n) \in 1 .. MaxGroups(n) /\ MaxGroups(n) \in Nat
    BY <1>2, <1>7, GroupsExist, MaxGroupsFacts
  <2>2. front \in Seq(Nat) /\ k = GroupsOf(u, n)
    BY <1>2, <1>7, <1>8, <1>9, VarBytesFacts
  <2> QED
    BY <2>1, <2>2
<1>11. Encode("string", v) = front \o v /\ Stored("string", v) = v
  BY <1>1, <1>4, <1>6, <1>8 DEF Encode, WriteString, Stored
<1>12. front \o v \in Seq(Nat) /\ Len(front \o v) = k + l /\ k + l \in Nat \ {0}
  BY <1>4, <1>5, <1>9, <1>10
<1>13. ReadsAs("string", front \o v, v, k + l)
  <2>1. ASSUME NEW bytes, Starts(bytes, front \o v)
        PROVE  Read("string", bytes) = [value |-> v, size |-> k + l]
    <3>1. Starts(bytes, front) /\ SubSeq(bytes, k + 1, k + l) = v
      BY <1>4, <1>5, <1>9, <1>10, <2>1, StartsInParts
    <3>2. PICK raw : raw = ReadVar(bytes, n)
      OBVIOUS
    <3>3. raw = [value |-> u, size |-> k]
      BY <1>2, <1>7, <1>8, <1>9, <3>1, <3>2, ReadVarBack
    <3>4. PICK length : length = IF raw.size = 0 THEN Thrown
                                 ELSE [raw EXCEPT !.value = Signed(raw.value, n)]
      OBVIOUS
    <3>5. length.value = l /\ length.size = k
      BY <1>7, <1>10, <3>3, <3>4
    <3>6. Read("string", bytes) =
            [value |-> SubSeq(bytes, length.size + 1, length.size + length.value),
             size |-> length.size + length.value]
      BY <1>1, <3>2, <3>4 DEF Read, ReadString, Converted
    <3> QED
      BY <3>1, <3>5, <3>6
  <2> QED
    BY <2>1 DEF ReadsAs
<1>14. RoundTripAs("string", v, front \o v, k + l)
  BY <1>11, <1>12, <1>13 DEF RoundTripAs
<1> QED
  BY <1>14, RoundTripIf

\* Two pairs one after the other.
LEMMA PairsJoined ==
  ASSUME NEW a \in Nat, NEW b \in Nat, NEW c \in Nat, NEW d \in Nat
  PROVE  <<a, b>> \o <<c, d>> = <<a, b, c, d>>
<1>1. PICK x : x = <<a, b>>
  OBVIOUS
<1>2. PICK y : y = <<c, d>>
  OBVIOUS
<1>3. x \in Seq(Nat) /\ Len(x) = 2 /\ x[1] = a /\ x[2] = b
  BY <1>1
<1>4. y \in Seq(Nat) /\ Len(y) = 2 /\ y[1] = c /\ y[2] = d
  BY <1>2
<1>5. PICK z : z = x \o y
  OBVIOUS
<1>6. z \in Seq(Nat)
  BY <1>3, <1>4, <1>5, ConcatFacts
<1>7. Len(z) = 2 + 2
  BY <1>3, <1>4, <1>5, ConcatFacts
<1>8. /\ \A i \in 1 .. Len(x) : z[i] = x[i]
      /\ \A i \in 1 .. Len(y) : z[Len(x) + i] = y[i]
  <2>1. x \in Seq(Nat) /\ y \in Seq(Nat)
    BY <1>3, <1>4
  <2>2. /\ \A i \in 1 .. Len(x) : (x \o y)[i] = x[i]
        /\ \A i \in 1 .. Len(y) : (x \o y)[Len(x) + i] = y[i]
    BY <2>1, ConcatItems, Zenon
  <2> QED
    BY <1>5, <2>2
<1>9. 2 + 1 = 3 /\ 2 + 2 = 4 /\ 1 \in 1 .. 2 /\ 2 \in 1 .. 2
  OBVIOUS
<1>10. z[1] = a /\ z[2] = b
  BY ONLY <1>3, <1>8, <1>9
<1>11. z[2 + 1] = c /\ z[2 + 2] = d
  BY ONLY <1>3, <1>4, <1>8, <1>9
<1>12. z = <<z[1], z[2], z[3], z[4]>>
  BY <1>6, <1>7
<1> QED
  BY <1>1, <1>2, <1>5, <1>9, <1>10, <1>11, <1>12

\* Reversing the halves of a UUID twice leaves it as it was.
LEMMA HalvesTwice ==
  ASSUME NEW s \in Seq(Nat), Len(s) = UuidBytes
  PROVE  /\ HalvesReversed(s) \in Seq(Nat) /\ Len(HalvesReversed(s)) = UuidBytes
         /\ HalvesReversed(HalvesReversed(s)) = s
<1>1. ASSUME NEW t \in Seq(Nat), Len(t) = 4
      PROVE  HalvesReversed(t) = <<t[2], t[1], t[4], t[3]>>
  <2>1. SubSeq(t, 1, 2) = <<t[1], t[2]>> /\ SubSeq(t, 3, 4) = <<t[3], t[4]>>
    <3>1. PICK x : x = SubSeq(t, 1, 2)
      OBVIOUS
    <3>2. PICK y : y = SubSeq(t, 3, 4)
      OBVIOUS
    <3>3. \A i \in 1 .. Len(t) : t[i] \in Nat
      OBVIOUS
    <3>4. \A i \in 1 .. 4 : t[i] \in Nat
      BY <1>1, <3>3
    <3>5. x = [i \in 1 .. 2 |-> t[i]] /\ y = [i \in 1 .. 2 |-> t[i + 2]]
      <4>1. /\ x = [i \in 1 .. 2 - 1 + 1 |-> t[i + 1 - 1]]
            /\ y = [i \in 1 .. 4 - 3 + 1 |-> t[i + 3 - 1]]
        BY <1>1, <3>1, <3>2
      <4>2. 2 - 1 + 1 = 2 /\ 4 - 3 + 1 = 2 /\ \A i \in 1 .. 2 : i + 1 - 1 = i /\ i + 3 - 1 = i + 2
        OBVIOUS
      <4> QED
        BY <4>1, <4>2
    <3>6. x \in Seq(Nat) /\ Len(x) = 2 /\ x[1] = t[1] /\ x[2] = t[2]
      BY ONLY <3>4, <3>5
    <3>7. y \in Seq(Nat) /\ Len(y) = 2 /\ y[1] = t[3] /\ y[2] = t[4]
      BY ONLY <3>4, <3>5
    <3>8. x = <<x[1], x[2]>> /\ y = <<y[1], y[2]>>
      BY <3>6, <3>7
    <3> QED
      BY <3>1, <3>2, <3>6, <3>7, <3>8
  <2>2. ASSUME NEW a, NEW b PROVE Reverse(<<a, b>>) = <<b, a>>
    <3>1. Reverse(<<a, b>>) = [i \in 1 .. 2 |-> <<a, b>>[2 - i + 1]]
      BY DEF Reverse
    <3>2. <<a, b>>[2 - 1 + 1] = b /\ <<a, b>>[2 - 2 + 1] = a
      OBVIOUS
    <3> QED
      BY <3>1, <3>2
  <2>3. HalvesReversed(t) = Reverse(SubSeq(t, 1, 2)) \o Reverse(SubSeq(t, 3, 4))
    <3>1. 4 \div 2 = 2 /\ 2 + 1 = 3
      OBVIOUS
    <3> QED
      BY <1>1, <3>1 DEF HalvesReversed
  <2>4. HalvesReversed(t) = <<t[2], t[1]>> \o <<t[4], t[3]>>
    BY <2>1, <2>2, <2>3
  <2>5. \A i \in 1 .. Len(t) : t[i] \in Nat
    OBVIOUS
  <2>6. t[1] \in Nat /\ t[2] \in Nat /\ t[3] \in Nat /\ t[4] \in Nat
    BY <1>1, <2>5
  <2>7. <<t[2], t[1]>> \o <<t[4], t[3]>> = <<t[2], t[1], t[4], t[3]>>
    BY <2>6, PairsJoined
  <2> QED
    BY <2>4, <2>7
<1>2. Len(s) = 4 /\ s = <<s[1], s[2], s[3], s[4]>> /\ s[1] \in Nat /\ s[2] \in Nat
      /\ s[3] \in Nat /\ s[4] \in Nat
  <2>1. Len(s) = 4
    BY DEF UuidBytes
  <2>2. \A i \in 1 .. Len(s) : s[i] \in Nat
    OBVIOUS
  <2>3. Len(s) = 4 /\ s[1] \in Nat /\ s[2] \in Nat /\ s[3] \in Nat /\ s[4] \in Nat
    BY ONLY <2>1, <2>2
  <2> QED
    BY <2>3
<1>3. HalvesReversed(s) = <<s[2], s[1], s[4], s[3]>>
  BY <1>1, <1>2
<1>4. PICK t : t = <<s[2], s[1], s[4], s[3]>>
  OBVIOUS
<1>5. t \in Seq(Nat) /\ Len(t) = 4 /\ t[1] = s[2] /\ t[2] = s[1] /\ t[3] = s[4] /\ t[4] = s[3]
  BY <1>2, <1>4
<1>6. HalvesReversed(t) = <<t[2], t[1], t[4], t[3]>>
  BY <1>1, <1>5
<1> QED
  BY <1>2, <1>3, <1>4, <1>5, <1>6 DEF UuidBytes

\* A UUID comes back padded.
LEMMA UuidBack == \A v \in KindRange["uuid"] : RoundTrip("uuid", v)
<1> SUFFICES ASSUME NEW v \in KindRange["uuid"] PROVE RoundTrip("uuid", v)
  OBVIOUS
<1>1. v \in Seq(UnsignedRange(1)) /\ Len(v) <= 4
  BY DEF KindRange, UuidBytes
<1>2. PICK s : s = Padded(v)
  OBVIOUS
<1>3. s \in Seq(Nat) /\ Len(s) = UuidBytes
  <2>1. v \in Seq(Nat)
    BY <1>1, RangeSize
  <2>2. PICK l \in Nat : l = Len(v)
    BY <1>1
  <2>3. 4 - l \in Nat
    BY <1>1, <2>2
  <2>4. PICK zeros : zeros = [i \in 1 .. 4 - l |-> 0]
    OBVIOUS
  <2>5. zeros \in Seq(Nat) /\ Len(zeros) = 4 - l
    BY <2>3, <2>4
  <2>6. s = zeros \o v
    BY <1>2, <2>2, <2>4 DEF Padded, UuidBytes
  <2> QED
    BY <2>1, <2>2, <2>5, <2>6 DEF UuidBytes
<1>4. PICK code : code = HalvesReversed(s)
  OBVIOUS
<1>5. code \in Seq(Nat) /\ Len(code) = UuidBytes /\ HalvesReversed(code) = s
  BY <1>3, <1>4, HalvesTwice
<1>6. Encode("uuid", v) = code /\ Stored("uuid", v) = s
  BY <1>2, <1>4 DEF Encode, Stored
<1>7. ReadsAs("uuid", code, s, UuidBytes)
  <2>1. ASSUME NEW bytes, Starts(bytes, code)
        PROVE  Read("uuid", bytes) = [value |-> s, size |-> UuidBytes]
    <3>1. SubSeq(bytes, 1, UuidBytes) = code
      BY <1>5, <2>1, StartsWithAll
    <3>2. Read("uuid", bytes) =
            [value |-> HalvesReversed(SubSeq(bytes, 1, UuidBytes)), size |-> UuidBytes]
      BY DEF Read, Fixed
    <3> QED
      BY <1>5, <3>1, <3>2
  <2> QED
    BY <2>1 DEF ReadsAs
<1>8. UuidBytes \in Nat \ {0}
  BY DEF UuidBytes
<1>9. RoundTripAs("uuid", v, code, UuidBytes)
  BY <1>5, <1>6, <1>7, <1>8 DEF RoundTripAs
<1> QED
  BY <1>9, RoundTripIf

\* An address comes back, its family, its host and its port.
LEMMA AddressBack == \A v \in KindRange["address"] : RoundTrip("address", v)
<1> SUFFICES ASSUME NEW v \in KindRange["address"] PROVE RoundTrip("address", v)
  OBVIOUS
<1>1. PICK n : n = IntBytes
  OBVIOUS
<1>2. n \in Nat \ {0} /\ 2 \in Nat \ {0}
  BY <1>1, WidthAssumption
<1>3. v \in [family : UnsignedRange(1), ip : UnsignedRange(n), port : UnsignedRange(2)]
  BY <1>1 DEF KindRange
<1>4. PICK a : a = <<v.family>>
  OBVIOUS
<1>5. PICK b : b = BigEndian(v.ip, n)
  OBVIOUS
<1>6. PICK c : c = BigEndian(v.port, 2)
  OBVIOUS
<1>7. /\ a \in Seq(Nat) /\ Len(a) = 1 /\ a[1] = v.family
      /\ b \in Seq(Nat) /\ Len(b) = n /\ FromBigEndian(b) = v.ip
      /\ c \in Seq(Nat) /\ Len(c) = 2 /\ FromBigEndian(c) = v.port
  <2>1. v.family \in Nat
    BY <1>3, RangeSize
  <2>2. /\ b \in Seq(Nat) /\ Len(b) = n /\ FromBigEndian(b) = v.ip
        /\ c \in Seq(Nat) /\ Len(c) = 2 /\ FromBigEndian(c) = v.port
    BY <1>2, <1>3, <1>5, <1>6, FixedBytes
  <2> QED
    BY <1>4, <2>1, <2>2
<1>8. PICK code : code = (a \o b) \o c
  OBVIOUS
<1>9. code \in Seq(Nat) /\ Len(code) = 3 + n /\ a \o b \in Seq(Nat) /\ Len(a \o b) = 1 + n
  <2>1. PICK ab : ab = a \o b
    OBVIOUS
  <2>2. ab \in Seq(Nat) /\ Len(ab) = 1 + n
    BY <1>7, <2>1, ConcatFacts
  <2>3. code = ab \o c
    BY <1>8, <2>1
  <2>4. code \in Seq(Nat) /\ Len(code) = (1 + n) + 2
    <3>1. c \in Seq(Nat) /\ Len(c) = 2 /\ ab \in Seq(Nat)
      BY <1>7, <2>2
    <3>2. ab \o c \in Seq(Nat) /\ Len(ab \o c) = Len(ab) + Len(c)
      BY <3>1, ConcatFacts
    <3> QED
      BY <2>2, <2>3, <3>1, <3>2
  <2> QED
    BY <1>2, <2>1, <2>2, <2>4
<1>10. Encode("address", v) = code /\ Stored("address", v) = v
  BY <1>1, <1>4, <1>5, <1>6, <1>8 DEF Encode, WriteAddress, Stored
<1>11. ReadsAs("address", code, v, 3 + n)
  <2>1. ASSUME NEW bytes, Starts(bytes, code)
        PROVE  Read("address", bytes) = [value |-> v, size |-> 3 + n]
    <3>1. PICK ab : ab = a \o b
      OBVIOUS
    <3>2. ab \in Seq(Nat) /\ Len(ab) = 1 + n /\ Starts(bytes, ab \o c) /\ c \in Seq(Nat)
      BY <1>7, <1>8, <1>9, <2>1, <3>1
    <3>3. Starts(bytes, ab) /\ SubSeq(bytes, Len(ab) + 1, Len(ab) + Len(c)) = c
      BY <3>2, StartsInParts
    <3>4. SubSeq(bytes, (1 + n) + 1, (1 + n) + 2) = c
      BY <1>7, <3>2, <3>3
    <3>5. Starts(bytes, a \o b) /\ a \in Seq(Nat) /\ b \in Seq(Nat)
      BY <1>7, <3>1, <3>3
    <3>6. Starts(bytes, a) /\ SubSeq(bytes, Len(a) + 1, Len(a) + Len(b)) = b
      BY <3>5, StartsInParts
    <3>7. Starts(bytes, a) /\ SubSeq(bytes, 1 + 1, 1 + n) = b
      BY <1>7, <3>6
    <3>8. bytes[1] = v.family
      BY <1>7, <3>7 DEF Starts
    <3>9. SubSeq(bytes, 2, 1 + n) = b /\ SubSeq(bytes, 2 + n, 3 + n) = c
      <4>1. (1 + n) + 1 = 2 + n /\ (1 + n) + 2 = 3 + n /\ 1 + 1 = 2
        BY <1>2
      <4> QED
        BY <3>4, <3>7, <4>1
    <3>10. Read("address", bytes) =
            [value |-> [family |-> bytes[1],
                        ip |-> FromBigEndian(SubSeq(bytes, 2, 1 + n)),
                        port |-> FromBigEndian(SubSeq(bytes, 2 + n, 3 + n))],
             size |-> 3 + n]
      BY <1>1 DEF Read, ReadAddress
    <3>11. Read("address", bytes) =
            [value |-> [family |-> v.family, ip |-> v.ip, port |-> v.port], size |-> 3 + n]
      BY <1>7, <3>8, <3>9, <3>10
    <3>12. v = [family |-> v.family, ip |-> v.ip, port |-> v.port]
      BY <1>3
    <3> QED
      BY <3>11, <3>12
  <2> QED
    BY <2>1 DEF ReadsAs
<1>12. RoundTripAs("address", v, code, 3 + n)
  <2>1. 3 + n \in Nat \ {0}
    BY <1>2
  <2> QED
    BY <1>9, <1>10, <1>11, <2>1 DEF RoundTripAs
<1> QED
  BY <1>12, RoundTripIf

\* Nothing is made of the magic.
LEMMA MagicBack == \A v \in KindRange["magic"] : RoundTrip("magic", v)
<1> SUFFICES ASSUME NEW v \in KindRange["magic"] PROVE RoundTrip("magic", v)
  OBVIOUS
<1>1. v = {}
  BY DEF KindRange
<1>2. MAGIC \in Seq(Nat) /\ Len(MAGIC) = 4
  <2>1. Base - 1 \in Nat
    BY TwoToType, ByteAssumption DEF Base
  <2> QED
    BY <2>1 DEF MAGIC
<1>3. Encode("magic", v) = MAGIC /\ Stored("magic", v) = v
  BY DEF Encode, Stored
<1>4. ReadsAs("magic", MAGIC, v, 4)
  BY <1>1, <1>2 DEF ReadsAs, Read, Fixed
<1>5. RoundTripAs("magic", v, MAGIC, 4)
  BY <1>2, <1>3, <1>4 DEF RoundTripAs
<1> QED
  BY <1>5, RoundTripIf

\* Whatever can be written comes back, in as many bytes as it was written in.
LEMMA EveryKindBack ==
  ASSUME NEW kind \in DOMAIN KindRange, NEW v \in KindRange[kind]
  PROVE  RoundTrip(kind, v)
<1>1. kind \in {"uint8", "bool", "uint16", "int16LE", "uint24", "uint24LE", "int32",
                "uint32LE", "int64", "uint64LE", "varInt32", "varInt64", "zigZag32",
                "zigZag64", "string", "uuid", "address", "magic"}
  BY DEF KindRange
<1>2. CASE kind \in {"uint8", "bool"}
  BY <1>2, ByteKinds
<1>3. CASE kind \in {"uint16", "int16LE", "uint24", "uint24LE", "int32", "uint32LE",
                     "int64", "uint64LE"}
  <2>1. \E n, big, signed : big \in BOOLEAN /\ signed \in BOOLEAN /\ FixedKind(kind, n, big, signed)
    BY <1>3, FixedKinds
  <2> QED
    BY <2>1, FixedKindBack
<1>4. CASE kind \in {"varInt32", "varInt64", "zigZag32", "zigZag64"}
  <2>1. \E n, zigZag : zigZag \in BOOLEAN /\ VarKind(kind, n, zigZag)
    BY <1>4, VarKinds
  <2> QED
    BY <2>1, VarKindBack
<1>5. CASE kind \in {"string", "uuid", "address", "magic"}
  BY <1>5, StringBack, UuidBack, AddressBack, MagicBack
<1> QED
  BY <1>1, <1>2, <1>3, <1>4, <1>5

-----------------------------------------------------------------------------
(* What holds of the lengths, and of the two widths.                       *)

\* Between two powers a number has so many groups.
LEMMA GroupsBetween ==
  ASSUME NEW u \in Nat, NEW k \in Nat \ {0}, NEW l \in Nat \ {0}, FitsIn(u, k),
         u >= TwoTo[(ByteBits - 1) * l]
  PROVE  k > l
<1>1. PICK g \in Nat : g = ByteBits - 1
  BY ByteAssumption
<1>2. SUFFICES ASSUME k <= l PROVE FALSE
  OBVIOUS
<1>3. g * k \in Nat /\ g * l \in Nat /\ g * k <= g * l
  <2>1. g * (l - k) \in Nat /\ g * (l - k) = g * l - g * k
    BY <1>2
  <2> QED
    BY <2>1
<1>4. TwoTo[g * k] <= TwoTo[g * l] /\ TwoTo[g * k] \in Nat /\ TwoTo[g * l] \in Nat
  BY <1>3, TwoToGrows, TwoToType
<1>5. u < TwoTo[g * k] /\ u >= TwoTo[g * l]
  BY <1>1 DEF FitsIn
<1> QED
  BY <1>4, <1>5

\* A negative number that is not zig-zagged takes all bytes.
LEMMA NegativeTakesAll ==
  ASSUME NEW n \in Nat \ {0}, NEW v \in SignedRange(n), v < 0
  PROVE  GroupsOf(Unsigned(v, n), n) = MaxGroups(n)
<1>1. PICK u : u = Unsigned(v, n)
  OBVIOUS
<1>2. PICK m : m = MaxGroups(n)
  OBVIOUS
<1>3. PICK k : k = GroupsOf(u, n)
  OBVIOUS
<1>4. u \in UnsignedRange(n) /\ u \in Nat /\ u >= TwoTo[ByteBits * n - 1]
  <2>1. u \in UnsignedRange(n) /\ u = v + TwoTo[ByteBits * n]
    BY <1>1, SignedBack
  <2>2. PICK H : H = TwoTo[ByteBits * n - 1]
    OBVIOUS
  <2>3. H \in Nat /\ TwoTo[ByteBits * n] = 2 * H
    BY <2>2, RangeSize
  <2>4. v \in Int /\ v >= - H
    BY <2>2, <2>3 DEF SignedRange
  <2>5. u >= H
    BY <2>1, <2>3, <2>4
  <2> QED
    BY <2>1, <2>2, <2>5, RangeSize
<1>5. k \in 1 .. m /\ FitsIn(u, k) /\ m \in Nat \ {0} /\ (ByteBits - 1) * (m - 1) <= ByteBits * n - 1
  BY <1>2, <1>3, <1>4, GroupsExist, MaxGroupsFacts
<1>6. CASE m = 1
  BY <1>1, <1>2, <1>3, <1>5, <1>6
<1>7. CASE m # 1
  <2>1. m - 1 \in Nat \ {0} /\ (ByteBits - 1) * (m - 1) \in Nat /\ ByteBits * n - 1 \in Nat
    <3>1. m - 1 \in Nat \ {0} /\ ByteBits - 1 \in Nat
      BY <1>5, <1>7, ByteAssumption
    <3> QED
      BY <3>1, RangeSize
  <2>2. TwoTo[(ByteBits - 1) * (m - 1)] <= TwoTo[ByteBits * n - 1]
    BY <1>5, <2>1, TwoToGrows
  <2>3. u >= TwoTo[(ByteBits - 1) * (m - 1)]
    BY <1>4, <2>1, <2>2, TwoToType
  <2>4. k > m - 1
    BY <1>4, <1>5, <2>1, <2>3, GroupsBetween
  <2> QED
    BY <1>1, <1>2, <1>3, <1>5, <2>4
<1> QED
  BY <1>6, <1>7

\* One byte is enough for what zig-zags to less than a group.
LEMMA ZigZagInOneByte ==
  ASSUME NEW n \in Nat \ {0}, NEW v \in SignedRange(n)
  PROVE  GroupsOf(ZigZag(v, n), n) = 1 <=> v \in -(Group \div 2) .. Group \div 2 - 1
<1>1. PICK u : u = ZigZag(v, n)
  OBVIOUS
<1>2. PICK k : k = GroupsOf(u, n)
  OBVIOUS
<1>3. u = (IF v >= 0 THEN 2 * v ELSE -2 * v - 1) /\ u \in UnsignedRange(n) /\ u \in Nat
  BY <1>1, ZigZagBack, RangeSize
<1>4. k \in Nat \ {0} /\ FitsIn(u, k)
  <2>1. k \in 1 .. MaxGroups(n) /\ FitsIn(u, k) /\ MaxGroups(n) \in Nat
    BY <1>2, <1>3, GroupsExist, MaxGroupsFacts
  <2> QED
    BY <2>1
<1>5. PICK h : h = TwoTo[ByteBits - 2]
  OBVIOUS
<1>6. h \in Nat \ {0} /\ Group = 2 * h /\ Group \div 2 = h
  <2>1. ByteBits - 2 \in Nat /\ ByteBits - 1 = (ByteBits - 2) + 1
    BY ByteAssumption
  <2>2. h \in Nat \ {0} /\ TwoTo[ByteBits - 1] = 2 * h
    BY <1>5, <2>1, TwoToDef, TwoToType
  <2>3. (2 * h) \div 2 = h
    BY <2>2
  <2> QED
    BY <2>2, <2>3 DEF Group
<1>7. (ByteBits - 1) * 1 = ByteBits - 1
  BY ByteAssumption
<1>8. k = 1 => u < Group
  BY <1>4, <1>7 DEF FitsIn, Group
<1>9. u < Group => k = 1
  <2>1. u < Group => FitsIn(u, 1)
    BY <1>7 DEF FitsIn, Group
  <2> QED
    BY <1>3, <1>4, <2>1, GroupsUnique
<1>10. u < Group <=> v \in -h .. h - 1
  <2>1. v \in Int
    BY RangeSize DEF SignedRange
  <2> QED
    BY <1>3, <1>6, <2>1
<1> QED
  BY <1>1, <1>2, <1>6, <1>8, <1>9, <1>10

\* What is an int has the same bytes as a long.
LEMMA SameBytes ==
  ASSUME NEW m \in Nat \ {0}, NEW n \in Nat \ {0}, NEW u \in UnsignedRange(m),
         u \in UnsignedRange(n)
  PROVE  VarBytes(u, m) = VarBytes(u, n)
<1>1. u \in Nat
  BY RangeSize
<1>2. /\ GroupsOf(u, m) \in 1 .. MaxGroups(m) /\ FitsIn(u, GroupsOf(u, m))
      /\ GroupsOf(u, n) \in 1 .. MaxGroups(n) /\ FitsIn(u, GroupsOf(u, n))
      /\ MaxGroups(m) \in Nat /\ MaxGroups(n) \in Nat
  BY GroupsExist, MaxGroupsFacts
<1>3. GroupsOf(u, m) \in Nat \ {0} /\ GroupsOf(u, n) \in Nat \ {0}
  BY <1>2
<1>4. GroupsOf(u, m) = GroupsOf(u, n)
  BY <1>1, <1>2, <1>3, GroupsUnique
<1> QED
  BY <1>4 DEF VarBytes

\* An int is a long.
LEMMA IntsAreLongs ==
  /\ UnsignedRange(IntBytes) \subseteq UnsignedRange(LongBytes)
  /\ SignedRange(IntBytes) \subseteq SignedRange(LongBytes)
  /\ ByteBits * IntBytes <= ByteBits * LongBytes - ByteBits
<1>1. IntBytes \in Nat \ {0} /\ LongBytes \in Nat \ {0} /\ IntBytes < LongBytes
      /\ ByteBits \in Nat \ {0}
  BY WidthAssumption, ByteAssumption
<1>2. PICK a : a = ByteBits * IntBytes
  OBVIOUS
<1>3. PICK b : b = ByteBits * LongBytes
  OBVIOUS
<1>4. a <= b - ByteBits /\ a \in Nat \ {0} /\ b \in Nat \ {0}
  <2>1. ByteBits * (LongBytes - IntBytes) >= ByteBits
    BY <1>1
  <2>2. ByteBits * (LongBytes - IntBytes) = b - a
    BY <1>1, <1>2, <1>3
  <2>3. a \in Nat \ {0} /\ b \in Nat \ {0}
    BY <1>1, <1>2, <1>3, RangeSize
  <2> QED
    BY <1>1, <2>1, <2>2, <2>3
<1>5. a - 1 \in Nat /\ b - 1 \in Nat /\ a - 1 <= b - 1 /\ a <= b
  BY <1>1, <1>4
<1>6. TwoTo[a] <= TwoTo[b] /\ TwoTo[a - 1] <= TwoTo[b - 1]
  BY <1>4, <1>5, TwoToGrows
<1>7. TwoTo[a] \in Nat /\ TwoTo[b] \in Nat /\ TwoTo[a - 1] \in Nat /\ TwoTo[b - 1] \in Nat
  BY <1>4, <1>5, TwoToType
<1>8. UnsignedRange(IntBytes) = 0 .. TwoTo[a] - 1 /\ UnsignedRange(LongBytes) = 0 .. TwoTo[b] - 1
  BY <1>2, <1>3 DEF UnsignedRange
<1>9. /\ SignedRange(IntBytes) = -TwoTo[a - 1] .. TwoTo[a - 1] - 1
      /\ SignedRange(LongBytes) = -TwoTo[b - 1] .. TwoTo[b - 1] - 1
  BY <1>2, <1>3 DEF SignedRange
<1>10. UnsignedRange(IntBytes) \subseteq UnsignedRange(LongBytes)
  BY <1>6, <1>7, <1>8
<1>11. SignedRange(IntBytes) \subseteq SignedRange(LongBytes)
  BY <1>6, <1>7, <1>9
<1>12. ByteBits * IntBytes <= ByteBits * LongBytes - ByteBits
  BY <1>2, <1>3, <1>4
<1> QED
  BY <1>10, <1>11, <1>12

\* The bytes of a negative long are too many for the read of an int.
LEMMA NegativeLongRefused ==
  ASSUME NEW v \in SignedRange(IntBytes), v < 0
  PROVE  Read("varInt32", VarBytes(Unsigned(v, LongBytes), LongBytes)).size = 0
<1>1. PICK n : n = LongBytes
  OBVIOUS
<1>2. PICK m : m = MaxGroups(IntBytes)
  OBVIOUS
<1>3. PICK u : u = Unsigned(v, n)
  OBVIOUS
<1>4. PICK k : k = GroupsOf(u, n)
  OBVIOUS
<1>5. n \in Nat \ {0} /\ IntBytes \in Nat \ {0} /\ v \in SignedRange(n)
  BY <1>1, WidthAssumption, IntsAreLongs
<1>6. k = MaxGroups(n) /\ u \in UnsignedRange(n)
  BY <1>3, <1>4, <1>5, NegativeTakesAll, SignedBack
<1>7. m < k
  <2>1. PICK g : g = ByteBits - 1
    OBVIOUS
  <2>2. g \in Nat \ {0} /\ ByteBits = g + 1
    BY <2>1, ByteAssumption
  <2>3. m \in Nat \ {0} /\ g * (m - 1) <= ByteBits * IntBytes - 1
    BY <1>2, <1>5, <2>1, MaxGroupsFacts
  <2>4. k \in Nat \ {0} /\ g * k >= ByteBits * n
    BY <1>5, <1>6, <2>1, MaxGroupsFacts
  <2>5. ByteBits * IntBytes \in Nat /\ ByteBits * n \in Nat
        /\ ByteBits * IntBytes <= ByteBits * n - ByteBits
    BY <1>1, <1>5, RangeSize, IntsAreLongs
  <2>6. g * (m - 1) = g * m - g /\ g * m \in Nat /\ g * k \in Nat
    BY <2>2, <2>3, <2>4
  <2>7. g * m < g * k
    BY <2>2, <2>3, <2>4, <2>5, <2>6
  <2>8. k <= m => g * (m - k) \in Nat /\ g * (m - k) = g * m - g * k
    BY <2>2, <2>3, <2>4
  <2> QED
    BY <2>3, <2>4, <2>6, <2>7, <2>8
<1>8. PICK bytes : bytes = VarBytes(u, n)
  OBVIOUS
<1>9. \A i \in 1 .. k : bytes[i] < Group <=> i = k
  <2>1. \A i \in 1 .. k : VarBytes(u, n)[i] < Group <=> i = k
    BY <1>4, <1>5, <1>6, VarBytesFacts
  <2> QED
    BY <1>8, <2>1
<1>10. m \in Nat /\ k \in Nat
  BY <1>2, <1>5, <1>6, MaxGroupsFacts
<1>11. {i \in 1 .. m : i \in DOMAIN bytes /\ bytes[i] < Group} = {}
  <2> SUFFICES ASSUME NEW i \in 1 .. m, bytes[i] < Group PROVE FALSE
    OBVIOUS
  <2>1. i \in 1 .. k /\ i # k
    BY <1>7, <1>10
  <2> QED
    BY <1>9, <2>1
<1>12. ReadVar(bytes, IntBytes) = Thrown
  BY <1>2, <1>11 DEF ReadVar
<1>13. Read("varInt32", bytes) = IF ReadVar(bytes, IntBytes).size = 0 THEN Thrown
         ELSE [ReadVar(bytes, IntBytes) EXCEPT !.value = Signed(@, IntBytes)]
  BY DEF Read, Converted
<1> QED
  BY <1>1, <1>3, <1>8, <1>12, <1>13 DEF Thrown

-----------------------------------------------------------------------------
(* The invariant.                                                          *)

\* What has been written, the bytes of it, and what reading it gives.
Entries == UNION {[kind : {k}, value : KindRange[k]] : k \in DOMAIN KindRange}

Code(e) == Encode(e.kind, e.value)

Result(e) == [value |-> Stored(e.kind, e.value), size |-> Len(Code(e))]

\* Whatever has been written comes back.
LEMMA EntryFacts ==
  ASSUME NEW e \in Entries
  PROVE  /\ Code(e) \in Seq(Nat) /\ Len(Code(e)) \in Nat \ {0}
         /\ \A bytes : Starts(bytes, Code(e)) => Read(e.kind, bytes) = Result(e)
<1>1. e.kind \in DOMAIN KindRange /\ e.value \in KindRange[e.kind]
  <2>1. PICK k \in DOMAIN KindRange : e \in [kind : {k}, value : KindRange[k]]
    BY DEF Entries
  <2> QED
    BY <2>1
<1>2. RoundTrip(e.kind, e.value)
  BY <1>1, EveryKindBack
<1> QED
  BY <1>2 DEF RoundTrip, Code, Result

\* The values lie in the stream one after the other, each between two ends.
LaidOut(ends) ==
  /\ ends \in [0 .. Len(written) -> Nat]
  /\ ends[0] = 0 /\ ends[Len(written)] = Len(stream)
  /\ \A i \in 1 .. Len(written) : ends[i] = ends[i - 1] + Len(Code(written[i]))
  /\ \A i \in 0 .. Len(written) : i < Len(written) => ends[i] < ends[Len(written)]
  /\ \A i \in 1 .. Len(written) :
        \A j \in 1 .. Len(Code(written[i])) : stream[ends[i - 1] + j] = Code(written[i])[j]

Results == {Result(e) : e \in Entries}

CursorInv ==
  /\ stream \in Seq(Nat) /\ written \in Seq(Entries) /\ got \in Seq(Results)
  /\ reading \in BOOLEAN /\ (~ reading => got = <<>>)
  /\ Len(got) <= Len(written)
  /\ \A i \in 1 .. Len(got) : got[i] = Result(written[i])
  /\ \E ends : LaidOut(ends) /\ (reading => pointer = ends[Len(got)])

\* The first state.
LEMMA CursorStarts == CursorInit => CursorInv
<1> SUFFICES ASSUME CursorInit PROVE CursorInv
  OBVIOUS
<1>1. PICK ends : ends = [i \in 0 .. 0 |-> 0]
  OBVIOUS
<1>2. /\ stream = <<>> /\ written = <<>> /\ got = <<>> /\ reading = FALSE
      /\ Len(stream) = 0 /\ Len(written) = 0 /\ Len(got) = 0
      /\ stream \in Seq(Nat) /\ written \in Seq(Entries) /\ got \in Seq(Results)
  BY DEF CursorInit
<1>3. LaidOut(ends)
  BY <1>1, <1>2 DEF LaidOut
<1>4. \E e : LaidOut(e) /\ (reading => pointer = e[Len(got)])
  BY <1>2, <1>3, Zenon
<1>5. /\ Len(got) <= Len(written) /\ reading \in BOOLEAN /\ (~ reading => got = <<>>)
      /\ \A i \in 1 .. Len(got) : got[i] = Result(written[i])
  <2>1. Len(got) <= Len(written)
    BY <1>2
  <2>2. reading \in BOOLEAN /\ (~ reading => got = <<>>)
    BY <1>2, Zenon
  <2>3. Len(got) <= Len(written) /\ reading \in BOOLEAN /\ (~ reading => got = <<>>)
    BY <2>1, <2>2
  <2>4. \A i \in 1 .. 0 : FALSE
    OBVIOUS
  <2>5. Len(got) = 0
    BY <1>2
  <2> QED
    BY <2>3, <2>4, <2>5
<1> QED
  BY <1>2, <1>4, <1>5, Zenon DEF CursorInv

\* Writing puts one more value behind the last one.
LEMMA WriteKeeps ==
  ASSUME CursorInv, NEW kind \in DOMAIN Values, NEW v \in Values[kind], Write(kind, v)
  PROVE  CursorInv'
<1>1. PICK e : e = [kind |-> kind, value |-> v]
  OBVIOUS
<1>2. e \in Entries /\ e.kind = kind /\ e.value = v
  <2>1. kind \in DOMAIN KindRange /\ v \in KindRange[kind]
    BY ValuesAssumption
  <2>2. e \in [kind : {kind}, value : KindRange[kind]]
    BY <1>1, <2>1
  <2> QED
    BY <1>1, <2>1, <2>2 DEF Entries
<1>3. PICK code : code = Code(e)
  OBVIOUS
<1>4. code \in Seq(Nat) /\ Len(code) \in Nat \ {0}
  BY <1>2, <1>3, EntryFacts
<1>5. PICK c \in Nat \ {0} : c = Len(code)
  BY <1>4
<1>6. PICK n \in Nat : n = Len(written)
  BY DEF CursorInv
<1>7. PICK ends : LaidOut(ends)
  BY DEF CursorInv
<1>8. /\ stream \in Seq(Nat) /\ written \in Seq(Entries)
      /\ stream' = stream \o code /\ written' = Append(written, e)
      /\ got = <<>> /\ got' = got /\ reading = FALSE /\ reading' = reading
  BY <1>1, <1>2, <1>3 DEF Write, CursorInv, Code
<1>9. PICK s \in Nat : s = Len(stream)
  BY <1>8
<1>10. /\ ends \in [0 .. n -> Nat] /\ ends[0] = 0 /\ ends[n] = s
       /\ \A i \in 1 .. n : ends[i] = ends[i - 1] + Len(Code(written[i]))
       /\ \A i \in 0 .. n : i < n => ends[i] < ends[n]
       /\ \A i \in 1 .. n : \A j \in 1 .. Len(Code(written[i])) :
             stream[ends[i - 1] + j] = Code(written[i])[j]
  BY <1>6, <1>7, <1>9 DEF LaidOut
<1>11. /\ stream' \in Seq(Nat) /\ Len(stream') = s + c
       /\ \A j \in 1 .. s : stream'[j] = stream[j]
       /\ \A j \in 1 .. c : stream'[s + j] = code[j]
  BY <1>4, <1>5, <1>8, <1>9, ConcatFacts, ConcatItems
<1>12. /\ written' \in Seq(Entries) /\ Len(written') = n + 1
       /\ \A i \in 1 .. n : written'[i] = written[i] /\ written[i] \in Entries
       /\ written'[n + 1] = e
  BY <1>2, <1>6, <1>8
<1>13. PICK next : next = [i \in 0 .. n + 1 |-> IF i = n + 1 THEN s + c ELSE ends[i]]
  OBVIOUS
<1>14. /\ next \in [0 .. n + 1 -> Nat] /\ next[n + 1] = s + c
       /\ \A i \in 0 .. n : next[i] = ends[i] /\ ends[i] \in Nat
  <2>1. \A i \in 0 .. n : ends[i] \in Nat /\ i # n + 1 /\ i \in 0 .. n + 1
    BY <1>10
  <2>2. s + c \in Nat
    OBVIOUS
  <2>3. \A i \in 0 .. n + 1 : i # n + 1 => i \in 0 .. n
    OBVIOUS
  <2> QED
    BY <1>13, <2>1, <2>2, <2>3
<1>15. next[0] = 0
  BY <1>10, <1>14
<1>16. ASSUME NEW i \in 1 .. n + 1
       PROVE  /\ next[i] = next[i - 1] + Len(Code(written'[i]))
              /\ \A j \in 1 .. Len(Code(written'[i])) :
                    stream'[next[i - 1] + j] = Code(written'[i])[j]
  <2>1. CASE i \in 1 .. n
    <3>1. i \in 0 .. n /\ i - 1 \in 0 .. n
      BY <2>1
    <3>2. PICK a \in Nat : a = ends[i - 1]
      BY <1>14, <3>1
    <3>3. PICK b \in Nat : b = ends[i]
      BY <1>14, <3>1
    <3>4. PICK l : l = Len(Code(written[i]))
      OBVIOUS
    <3>5. l \in Nat /\ b = a + l
      BY <1>10, <1>12, <2>1, <3>2, <3>3, <3>4, EntryFacts
    <3>6. b <= s
      <4>1. i < n \/ i = n
        BY <2>1
      <4> QED
        BY <1>10, <3>1, <3>3, <4>1
    <3>7. \A j \in 1 .. l : a + j \in 1 .. s
      BY <3>5, <3>6
    <3>8. \A j \in 1 .. l : stream'[a + j] = Code(written[i])[j]
      <4>1. \A j \in 1 .. l : stream[a + j] = Code(written[i])[j]
        BY <1>10, <2>1, <3>2, <3>4
      <4> QED
        BY <1>11, <3>7, <4>1
    <3>9. next[i] = b /\ next[i - 1] = a /\ written'[i] = written[i]
      BY <1>12, <1>14, <2>1, <3>1, <3>2, <3>3
    <3> QED
      BY <3>4, <3>5, <3>8, <3>9
  <2>2. CASE i = n + 1
    <3>1. i - 1 = n /\ n \in 0 .. n
      BY <2>2
    <3>2. next[i] = s + c /\ next[i - 1] = s /\ written'[i] = e
      BY <1>10, <1>12, <1>14, <2>2, <3>1
    <3> QED
      BY <1>3, <1>5, <1>11, <3>2
  <2> QED
    BY <2>1, <2>2
<1>17. ASSUME NEW i \in 0 .. n + 1, i < n + 1 PROVE next[i] < next[n + 1]
  <2>1. i \in 0 .. n
    BY <1>17
  <2>2. ends[i] <= s /\ ends[i] \in Nat
    <3>1. i < n \/ i = n
      BY <2>1
    <3>2. i < n => ends[i] < s
      BY <1>10, <2>1
    <3>3. i = n => ends[i] = s
      BY <1>10
    <3> QED
      BY <1>14, <2>1, <3>1, <3>2, <3>3
  <2> QED
    BY <1>14, <2>1, <2>2
<1>18. LaidOut(next)'
  BY <1>11, <1>12, <1>14, <1>15, <1>16, <1>17 DEF LaidOut, Code
<1> QED
  BY <1>8, <1>11, <1>12, <1>18 DEF CursorInv, Result, Results

\* Handing the bytes on puts the pointer to the front of them.
LEMMA ResetKeeps == ASSUME CursorInv, Reset PROVE CursorInv'
<1>1. /\ stream \in Seq(Nat) /\ written \in Seq(Entries) /\ got = <<>>
      /\ reading' = TRUE /\ pointer' = 0
      /\ stream' = stream /\ written' = written /\ got' = got
  BY DEF CursorInv, Reset
<1>2. PICK ends : LaidOut(ends)
  BY DEF CursorInv
<1>3. LaidOut(ends)' /\ ends[0] = 0
  BY <1>1, <1>2 DEF LaidOut, Code
<1>4. Len(got') = 0 /\ got' \in Seq(Results')
  BY <1>1
<1>5. \E e : LaidOut(e)' /\ (reading' => pointer' = e[Len(got')])
  BY <1>1, <1>3, <1>4
<1>6. Len(got') <= Len(written') /\ \A i \in 1 .. Len(got') : got'[i] = Result(written[i])
  BY <1>1, <1>4
<1> QED
  BY <1>1, <1>4, <1>5, <1>6 DEF CursorInv, Result, Results, Code

\* Where the next value is, and what a read of it gives.
LEMMA NextIsRead ==
  ASSUME CursorInv, reading, Len(got) < Len(written), NEW ends, LaidOut(ends),
         pointer = ends[Len(got)]
  PROVE  /\ Read(written[Len(got) + 1].kind, RemainingBytes) = Result(written[Len(got) + 1])
         /\ pointer + Result(written[Len(got) + 1]).size = ends[Len(got) + 1]
         /\ Result(written[Len(got) + 1]) \in Results
<1>1. PICK n \in Nat : n = Len(written)
  BY DEF CursorInv
<1>2. PICK g \in Nat : g = Len(got)
  BY DEF CursorInv
<1>3. PICK e : e = written[g + 1]
  OBVIOUS
<1>4. PICK s \in Nat : s = Len(stream)
  BY DEF CursorInv
<1>5. g < n /\ g + 1 \in 1 .. n /\ g \in 0 .. n /\ g + 1 \in 0 .. n
  BY <1>1, <1>2
<1>6. e \in Entries /\ written \in Seq(Entries) /\ stream \in Seq(Nat)
  BY <1>1, <1>3, <1>5 DEF CursorInv
<1>7. PICK c \in Nat \ {0} : c = Len(Code(e))
  BY <1>6, EntryFacts
<1>8. /\ ends \in [0 .. n -> Nat] /\ ends[n] = s
      /\ ends[g + 1] = ends[g] + c
      /\ g + 1 < n => ends[g + 1] < ends[n]
      /\ \A j \in 1 .. c : stream[ends[g] + j] = Code(e)[j]
  <2>1. /\ ends \in [0 .. n -> Nat] /\ ends[n] = s
        /\ \A i \in 1 .. n : ends[i] = ends[i - 1] + Len(Code(written[i]))
        /\ \A i \in 0 .. n : i < n => ends[i] < ends[n]
        /\ \A i \in 1 .. n : \A j \in 1 .. Len(Code(written[i])) :
              stream[ends[i - 1] + j] = Code(written[i])[j]
    BY <1>1, <1>4 DEF LaidOut
  <2>2. (g + 1) - 1 = g
    OBVIOUS
  <2>3. ends[g + 1] = ends[(g + 1) - 1] + c
    BY <1>3, <1>5, <1>7, <2>1
  <2>4. \A j \in 1 .. c : stream[ends[(g + 1) - 1] + j] = Code(e)[j]
    BY <1>3, <1>5, <1>7, <2>1
  <2> QED
    BY <1>5, <2>1, <2>2, <2>3, <2>4
<1>9. PICK a \in Nat : a = ends[g]
  BY <1>5, <1>8
<1>10. a + c <= s
  <2>1. g + 1 < n \/ g + 1 = n
    BY <1>5
  <2>2. ends[g + 1] = a + c
    BY <1>8, <1>9
  <2> QED
    BY <1>8, <2>1, <2>2
<1>11. PICK bytes : bytes = RemainingBytes
  OBVIOUS
<1>12. bytes = SubSeq(stream, a + 1, s)
  BY <1>2, <1>4, <1>9, <1>11 DEF RemainingBytes
<1>13. /\ bytes \in Seq(Nat) /\ Len(bytes) = s - a
       /\ \A j \in 1 .. s - a : bytes[j] = stream[a + j]
  <2>1. PICK p \in Nat \ {0} : p = a + 1
    OBVIOUS
  <2>2. bytes = SubSeq(stream, p, s) /\ p <= s /\ s <= Len(stream) /\ p \in 1 .. Len(stream)
    BY <1>4, <1>7, <1>10, <1>12, <2>1
  <2>3. bytes \in Seq(Nat) /\ Len(bytes) = s - p + 1
    BY <1>4, <1>6, <2>2
  <2>4. bytes = [j \in 1 .. s - p + 1 |-> stream[j + p - 1]]
    BY <1>4, <1>6, <2>2
  <2>5. s - p + 1 = s - a /\ \A j \in 1 .. s - a : j + p - 1 = a + j
    BY <2>1
  <2> QED
    BY <2>3, <2>4, <2>5
<1>14. Starts(bytes, Code(e))
  <2>1. Code(e) \in Seq(Nat)
    BY <1>6, EntryFacts
  <2>2. c <= s - a
    BY <1>10
  <2>3. \A j \in 1 .. c : j \in 1 .. s - a
    BY <2>2
  <2>4. \A j \in 1 .. c : bytes[j] = Code(e)[j]
    BY <1>8, <1>9, <1>13, <2>3
  <2> QED
    BY <1>7, <1>13, <2>1, <2>2, <2>4 DEF Starts
<1>15. Read(e.kind, bytes) = Result(e)
  BY <1>6, <1>14, EntryFacts
<1>16. Result(e).size = c
  BY <1>7 DEF Result
<1>17. Result(e) \in Results
  BY <1>6 DEF Results
<1> QED
  BY <1>2, <1>3, <1>8, <1>11, <1>15, <1>16, <1>17

\* Reading moves the pointer to the end of the value.
LEMMA ReadNextKeeps == ASSUME CursorInv, ReadNext PROVE CursorInv'
<1>1. /\ stream \in Seq(Nat) /\ written \in Seq(Entries) /\ got \in Seq(Results)
      /\ reading = TRUE /\ Len(got) < Len(written)
      /\ \A i \in 1 .. Len(got) : got[i] = Result(written[i])
      /\ stream' = stream /\ reading' = reading /\ written' = written
  BY DEF CursorInv, ReadNext
<1>2. PICK ends : LaidOut(ends) /\ pointer = ends[Len(got)]
  BY <1>1 DEF CursorInv
<1>3. PICK g \in Nat : g = Len(got)
  BY <1>1
<1>4. PICK result : result = Result(written[g + 1])
  OBVIOUS
<1>5. /\ Read(written[g + 1].kind, RemainingBytes) = result
      /\ pointer + result.size = ends[g + 1]
      /\ result \in Results
  BY <1>1, <1>2, <1>3, <1>4, NextIsRead
<1>6. pointer' = ends[g + 1] /\ got' = Append(got, result)
  BY <1>3, <1>5 DEF ReadNext
<1>7. /\ got' \in Seq(Results) /\ Len(got') = g + 1 /\ got'[g + 1] = result
      /\ \A i \in 1 .. g : got'[i] = got[i]
  BY <1>1, <1>3, <1>5, <1>6
<1>8. PICK n \in Nat : n = Len(written)
  BY <1>1
<1>9. g + 1 <= n
  BY <1>1, <1>3, <1>8
<1>10. \A i \in 1 .. g + 1 : got'[i] = Result(written[i])
  <2> SUFFICES ASSUME NEW i \in 1 .. g + 1 PROVE got'[i] = Result(written[i])
    OBVIOUS
  <2>1. i \in 1 .. g \/ i = g + 1
    OBVIOUS
  <2>2. \A j \in 1 .. g : got[j] = Result(written[j])
    BY <1>1, <1>3
  <2> QED
    BY <1>4, <1>7, <2>1, <2>2
<1>11. LaidOut(ends)'
  BY <1>1, <1>2 DEF LaidOut, Code
<1>12. \E e : LaidOut(e)' /\ (reading' => pointer' = e[Len(got')])
  BY <1>6, <1>7, <1>11
<1> QED
  BY <1>1, <1>7, <1>8, <1>9, <1>10, <1>12 DEF CursorInv, Result, Results, Code

\* Every step keeps the invariant.
LEMMA CursorStepKeeps == CursorInv /\ [CursorNext]_cursorVars => CursorInv'
<1> SUFFICES ASSUME CursorInv, [CursorNext]_cursorVars PROVE CursorInv'
  OBVIOUS
<1>1. CASE \E kind \in DOMAIN Values : \E v \in Values[kind] : Write(kind, v)
  BY <1>1, WriteKeeps
<1>2. CASE Reset
  BY <1>2, ResetKeeps
<1>3. CASE ReadNext
  BY <1>3, ReadNextKeeps
<1>4. CASE UNCHANGED cursorVars
  BY <1>4 DEF cursorVars, CursorInv, LaidOut, Code, Result, Results
<1> QED
  BY <1>1, <1>2, <1>3, <1>4 DEF CursorNext

\* The invariant says that what is read is what was written.
LEMMA InvReadsBack == CursorInv => ReadsBack
<1> SUFFICES ASSUME CursorInv, NEW i \in DOMAIN got
             PROVE  /\ got[i].size > 0
                    /\ got[i].value = IF written[i].kind = "uuid" THEN Padded(written[i].value)
                                      ELSE written[i].value
  BY DEF ReadsBack
<1>1. /\ got \in Seq(Results) /\ written \in Seq(Entries) /\ Len(got) <= Len(written)
      /\ \A j \in 1 .. Len(got) : got[j] = Result(written[j])
  BY DEF CursorInv
<1>2. i \in 1 .. Len(got) /\ i \in 1 .. Len(written)
  BY <1>1
<1>3. written[i] \in Entries /\ got[i] = Result(written[i])
  BY <1>1, <1>2
<1>4. Len(Code(written[i])) \in Nat \ {0}
  BY <1>3, EntryFacts
<1> QED
  BY <1>3, <1>4 DEF Result, Stored

\* It says where the pointer is.
LEMMA InvReadsToTheEnd == CursorInv => ReadsToTheEnd
<1> SUFFICES ASSUME CursorInv, reading
             PROVE  /\ pointer <= Len(stream)
                    /\ IsEndOfStream <=> Len(got) = Len(written)
  BY DEF ReadsToTheEnd
<1>1. PICK ends : LaidOut(ends) /\ pointer = ends[Len(got)]
  BY DEF CursorInv
<1>2. PICK n \in Nat : n = Len(written)
  BY DEF CursorInv
<1>3. PICK g \in Nat : g = Len(got)
  BY DEF CursorInv
<1>4. g <= n
  BY <1>2, <1>3 DEF CursorInv
<1>5. PICK s \in Nat : s = Len(stream)
  BY DEF CursorInv
<1>6. /\ ends \in [0 .. n -> Nat] /\ ends[n] = s
      /\ \A i \in 0 .. n : i < n => ends[i] < ends[n]
  BY <1>1, <1>2, <1>5 DEF LaidOut
<1>7. g \in 0 .. n /\ (g < n \/ g = n) /\ ends[g] \in Nat
  BY <1>4, <1>6
<1>8. pointer = ends[g]
  BY <1>1, <1>3
<1>9. g < n => pointer < s
  BY <1>6, <1>7, <1>8
<1>10. g = n => pointer = s
  BY <1>6, <1>8
<1> QED
  BY <1>2, <1>3, <1>5, <1>7, <1>8, <1>9, <1>10 DEF IsEndOfStream

\* The lengths of what has been written.
LEMMA InvLengths == CursorInv => LengthsAsPlanned
<1> SUFFICES ASSUME CursorInv, NEW i \in DOMAIN written PROVE
       LET kind == written[i].kind
           v == written[i].value
           length == Len(Encode(kind, v))
       IN /\ kind \in {"varInt32", "zigZag32"} => length <= MaxGroups(IntBytes)
          /\ kind \in {"varInt64", "zigZag64"} => length <= MaxGroups(LongBytes)
          /\ kind \in {"zigZag32", "zigZag64"} =>
               (length = 1 <=> v \in -(Group \div 2) .. Group \div 2 - 1)
          /\ kind = "varInt32" /\ v < 0 => length = MaxGroups(IntBytes)
  BY DEF LengthsAsPlanned
<1>1. PICK kind : kind = written[i].kind
  OBVIOUS
<1>2. PICK v : v = written[i].value
  OBVIOUS
<1>3. kind \in DOMAIN KindRange /\ v \in KindRange[kind]
  <2>1. written \in Seq(Entries)
    BY DEF CursorInv
  <2>2. written[i] \in Entries
    BY <2>1
  <2>3. PICK k \in DOMAIN KindRange : written[i] \in [kind : {k}, value : KindRange[k]]
    BY <2>2 DEF Entries
  <2> QED
    BY <1>1, <1>2, <2>3
<1>4. ASSUME NEW n \in Nat \ {0}, NEW u \in UnsignedRange(n)
      PROVE  Len(VarBytes(u, n)) = GroupsOf(u, n) /\ GroupsOf(u, n) <= MaxGroups(n)
  BY VarBytesFacts, GroupsExist, MaxGroupsFacts
<1>5. IntBytes \in Nat \ {0} /\ LongBytes \in Nat \ {0}
  BY WidthAssumption
<1>6. ASSUME kind = "varInt32"
      PROVE  /\ Len(Encode(kind, v)) <= MaxGroups(IntBytes)
             /\ v < 0 => Len(Encode(kind, v)) = MaxGroups(IntBytes)
  <2>1. v \in SignedRange(IntBytes)
    BY <1>3, <1>6 DEF KindRange
  <2>2. Encode(kind, v) = VarBytes(Unsigned(v, IntBytes), IntBytes)
    BY <1>6 DEF Encode
  <2>3. Unsigned(v, IntBytes) \in UnsignedRange(IntBytes)
    BY <1>5, <2>1, SignedBack
  <2> QED
    BY <1>4, <1>5, <2>1, <2>2, <2>3, NegativeTakesAll
<1>7. ASSUME kind = "varInt64" PROVE Len(Encode(kind, v)) <= MaxGroups(LongBytes)
  <2>1. v \in SignedRange(LongBytes)
    BY <1>3, <1>7 DEF KindRange
  <2>2. Encode(kind, v) = VarBytes(Unsigned(v, LongBytes), LongBytes)
    BY <1>7 DEF Encode
  <2>3. Unsigned(v, LongBytes) \in UnsignedRange(LongBytes)
    BY <1>5, <2>1, SignedBack
  <2> QED
    BY <1>4, <1>5, <2>2, <2>3
<1>8. ASSUME kind = "zigZag32"
      PROVE  /\ Len(Encode(kind, v)) <= MaxGroups(IntBytes)
             /\ Len(Encode(kind, v)) = 1 <=> v \in -(Group \div 2) .. Group \div 2 - 1
  <2>1. v \in SignedRange(IntBytes)
    BY <1>3, <1>8 DEF KindRange
  <2>2. Encode(kind, v) = VarBytes(ZigZag(v, IntBytes), IntBytes)
    BY <1>8 DEF Encode
  <2>3. ZigZag(v, IntBytes) \in UnsignedRange(IntBytes)
    BY <1>5, <2>1, ZigZagBack
  <2> QED
    BY <1>4, <1>5, <2>1, <2>2, <2>3, ZigZagInOneByte
<1>9. ASSUME kind = "zigZag64"
      PROVE  /\ Len(Encode(kind, v)) <= MaxGroups(LongBytes)
             /\ Len(Encode(kind, v)) = 1 <=> v \in -(Group \div 2) .. Group \div 2 - 1
  <2>1. v \in SignedRange(LongBytes)
    BY <1>3, <1>9 DEF KindRange
  <2>2. Encode(kind, v) = VarBytes(ZigZag(v, LongBytes), LongBytes)
    BY <1>9 DEF Encode
  <2>3. ZigZag(v, LongBytes) \in UnsignedRange(LongBytes)
    BY <1>5, <2>1, ZigZagBack
  <2> QED
    BY <1>4, <1>5, <2>1, <2>2, <2>3, ZigZagInOneByte
<1> QED
  BY <1>1, <1>2, <1>6, <1>7, <1>8, <1>9

\* The widths of what has been written.
LEMMA InvWidths == CursorInv => WidthsAgree
<1> SUFFICES ASSUME CursorInv, NEW i \in DOMAIN written PROVE
       LET v == written[i].value
       IN /\ written[i].kind = "zigZag32" => Encode("zigZag64", v) = Encode("zigZag32", v)
          /\ written[i].kind = "varInt32" =>
               IF v >= 0 THEN Encode("varInt64", v) = Encode("varInt32", v)
               ELSE Read("varInt32", Encode("varInt64", v)).size = 0
  BY DEF WidthsAgree
<1>1. PICK kind : kind = written[i].kind
  OBVIOUS
<1>2. PICK v : v = written[i].value
  OBVIOUS
<1>3. kind \in {"zigZag32", "varInt32"} => v \in SignedRange(IntBytes)
  <2>1. written \in Seq(Entries)
    BY DEF CursorInv
  <2>2. written[i] \in Entries
    BY <2>1
  <2>3. PICK k \in DOMAIN KindRange : written[i] \in [kind : {k}, value : KindRange[k]]
    BY <2>2 DEF Entries
  <2>4. v \in KindRange[kind]
    BY <1>1, <1>2, <2>3
  <2> QED
    BY <2>4 DEF KindRange
<1>4. /\ Encode("zigZag64", v) = VarBytes(ZigZag(v, LongBytes), LongBytes)
      /\ Encode("zigZag32", v) = VarBytes(ZigZag(v, IntBytes), IntBytes)
      /\ Encode("varInt64", v) = VarBytes(Unsigned(v, LongBytes), LongBytes)
      /\ Encode("varInt32", v) = VarBytes(Unsigned(v, IntBytes), IntBytes)
  BY DEF Encode
<1>5. IntBytes \in Nat \ {0} /\ LongBytes \in Nat \ {0}
  BY WidthAssumption
<1>6. ASSUME v \in SignedRange(IntBytes)
      PROVE  VarBytes(ZigZag(v, LongBytes), LongBytes) = VarBytes(ZigZag(v, IntBytes), IntBytes)
  <2>1. v \in SignedRange(LongBytes)
    BY <1>6, IntsAreLongs
  <2>2. /\ ZigZag(v, LongBytes) \in UnsignedRange(LongBytes)
        /\ ZigZag(v, IntBytes) \in UnsignedRange(IntBytes)
        /\ ZigZag(v, LongBytes) = ZigZag(v, IntBytes)
    BY <1>5, <1>6, <2>1, ZigZagBack
  <2> QED
    BY <1>5, <2>2, SameBytes
<1>7. ASSUME v \in SignedRange(IntBytes), v >= 0
      PROVE  VarBytes(Unsigned(v, LongBytes), LongBytes) = VarBytes(Unsigned(v, IntBytes), IntBytes)
  <2>1. v \in SignedRange(LongBytes)
    BY <1>7, IntsAreLongs
  <2>2. /\ Unsigned(v, LongBytes) \in UnsignedRange(LongBytes)
        /\ Unsigned(v, IntBytes) \in UnsignedRange(IntBytes)
        /\ Unsigned(v, LongBytes) = Unsigned(v, IntBytes)
    BY <1>5, <1>7, <2>1, SignedBack
  <2> QED
    BY <1>5, <2>2, SameBytes
<1>8. ASSUME v \in SignedRange(IntBytes), ~ (v >= 0)
      PROVE  Read("varInt32", VarBytes(Unsigned(v, LongBytes), LongBytes)).size = 0
  <2>1. v < 0
    BY <1>5, <1>8, RangeSize DEF SignedRange
  <2> QED
    BY <1>8, <2>1, NegativeLongRefused
<1> QED
  BY <1>1, <1>2, <1>3, <1>4, <1>6, <1>7, <1>8

\* CursorFaithful: for every width of a byte, of an int and of a long, and whatever
\* values of these kinds are written one after the other, what is read back is what
\* was written, the pointer meets the end of the stream with the last value, and the
\* lengths and the bytes of the variable-length integers are what the code counts on.
THEOREM CursorAlwaysFaithful == CursorSpec => []CursorFaithful
<1>1. CursorInit => CursorInv
  BY CursorStarts
<1>2. CursorInv /\ [CursorNext]_cursorVars => CursorInv'
  BY CursorStepKeeps
<1>3. CursorInv => CursorFaithful
  BY InvReadsBack, InvReadsToTheEnd, InvLengths, InvWidths DEF CursorFaithful
<1> QED
  BY <1>1, <1>2, <1>3, PTL DEF CursorSpec
=============================================================================

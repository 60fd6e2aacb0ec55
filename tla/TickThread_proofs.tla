-------------------------- MODULE TickThread_proofs --------------------------
(***************************************************************************)
(* The clock of the tick thread, the buffer its callback fills, and the    *)
(* two together, for every set of intervals and every size of the buffer.  *)
(*                                                                         *)
(* NoBurst is about three ticks; what carries it from one to the next is   *)
(* where the deadline lies from the last two beginnings at each point of   *)
(* the loop (Paced): never before the last one, and an interval after the  *)
(* one before it, which the give-up of overdue ticks keeps up as it only   *)
(* moves the deadline on.                                                  *)
(*                                                                         *)
(* WithinBuffer alone is not inductive: that a write stays in the buffer   *)
(* rests on the estimate, so that the piece in hand is one whose estimate  *)
(* it does not exceed (Estimated), and on the guard of Write; and the      *)
(* pointer is only ever behind the end once there is nothing left to write.*)
(***************************************************************************)
EXTENDS TickThread, TLAPS

-----------------------------------------------------------------------------
(* The clock.                                                              *)

AfterBoth ==
    /\ begun >= 1 => next >= started
    /\ begun >= 2 => next - startedBefore >= Shortest

Paced ==
    /\ at = "check" => AfterBoth /\ now >= next
    /\ at = "due" => /\ begun >= 1 => next - started >= Shortest
                     /\ begun >= 2 => now - startedBefore >= Shortest
    /\ at = "calling" /\ begun >= 2 => next - startedBefore >= Shortest
    /\ at = "asleep" => AfterBoth
    /\ at = "new" => begun = 0

Stopped ==
    /\ stopping => ~ running
    /\ at = "due" /\ stopping => late = 0
    /\ late <= 1

TickInv == TypeOK /\ Paced /\ Stopped

\* There is a shortest interval, and it is not nothing.
LEMMA ShortestIsShortest ==
  /\ Shortest \in Intervals /\ Shortest \in Nat \ {0}
  /\ \A i \in Intervals : i \in Nat \ {0} /\ Shortest <= i
<1>1. \E i \in Intervals : \A j \in Intervals : i <= j
  BY IntervalsAssumption
<1>2. Shortest \in Intervals /\ \A j \in Intervals : Shortest <= j
  BY <1>1 DEF Shortest
<1> QED
  BY <1>2, IntervalsAssumption

\* Nothing has begun.
LEMMA InitTickInv == Init => TickInv
<1> SUFFICES ASSUME Init PROVE TickInv
  OBVIOUS
<1>1. TypeOK
  <2>1. running \in BOOLEAN /\ stopping \in BOOLEAN
    BY Zenon DEF Init
  <2>2. 0 \in Nat /\ 0 \in 0 .. 0
    OBVIOUS
  <2> QED
    BY <2>1, <2>2 DEF Init, TypeOK
<1>2. Paced
  BY DEF Init, Paced
<1>3. Stopped
  BY DEF Init, Stopped
<1> QED
  BY <1>1, <1>2, <1>3 DEF TickInv

\* Neither the owner nor the thread nor time leaves the invariant.
LEMMA NextTickInv == TickInv /\ [Next]_vars => TickInv'
<1> SUFFICES ASSUME TickInv, [Next]_vars PROVE TickInv'
  OBVIOUS
<1> USE DEF TickInv
<1>0. Shortest' = Shortest
  BY DEF Shortest
<1>1. CASE Start
  <2>1. running' \in BOOLEAN /\ stopping' \in BOOLEAN
    BY <1>1, Zenon DEF Start, TypeOK
  <2>2. TypeOK'
    BY <1>1, <2>1 DEF Start, TypeOK
  <2>3. Paced'
    BY <1>1 DEF Start, Paced
  <2>4. Stopped'
    BY <1>1 DEF Start, Stopped
  <2> QED
    BY <2>2, <2>3, <2>4
<1>2. CASE Stop
  <2>1. running' \in BOOLEAN /\ stopping' \in BOOLEAN
    BY <1>2, Zenon DEF Stop, TypeOK
  <2>2. TypeOK'
    BY <1>2, <2>1 DEF Stop, TypeOK
  <2>3. Paced'
    BY <1>0, <1>2 DEF Stop, Paced, AfterBoth
  <2>4. Stopped'
    BY <1>2 DEF Stop, Stopped
  <2> QED
    BY <2>2, <2>3, <2>4
<1>3. CASE Join
  BY <1>0, <1>3 DEF Join, history, TypeOK, Paced, AfterBoth, Stopped
<1>4. CASE SetTicksPerSecond
  BY <1>0, <1>4 DEF SetTicksPerSecond, history, TypeOK, Paced, AfterBoth, Stopped
<1>5. CASE Begin
  BY <1>0, <1>5 DEF Begin, history, TypeOK, Paced, AfterBoth, Stopped
<1>6. CASE Check
  <2>1. CASE at' = "due"
    <3>1. next' = next + interval /\ running /\ ~ stopping
      BY <1>6, <2>1 DEF Check, Running, Stopped
    <3>2. interval \in Nat /\ Shortest \in Nat /\ Shortest <= interval
      BY ShortestIsShortest DEF TypeOK
    <3>3. TypeOK'
      BY <1>6, <2>1, <3>1, <3>2 DEF Check, history, TypeOK
    <3>4. Paced'
      BY <1>0, <1>6, <2>1, <3>1, <3>2 DEF Check, history, TypeOK, Paced, AfterBoth
    <3> QED
      BY <1>6, <2>1, <3>1, <3>3, <3>4 DEF Check, history, Stopped
  <2>2. CASE at' = "ended"
    BY <1>0, <1>6, <2>2 DEF Check, history, TypeOK, Paced, AfterBoth, Stopped
  <2> QED
    BY <1>6, <2>1, <2>2 DEF Check
<1>7. CASE Call
  <2>1. TypeOK'
    BY <1>7 DEF Call, TypeOK
  <2>2. Paced'
    BY <1>0, <1>7 DEF Call, TypeOK, Paced, AfterBoth
  <2>3. Stopped'
    BY <1>7 DEF Call, TypeOK, Stopped
  <2> QED
    BY <2>1, <2>2, <2>3
<1>8. CASE Return
  <2>1. Shortest \in Nat
    BY ShortestIsShortest
  <2>2. TypeOK'
    BY <1>8 DEF Return, Overrun, history, TypeOK
  <2>3. Paced'
    BY <1>0, <1>8, <2>1 DEF Return, Overrun, history, TypeOK, Paced, AfterBoth
  <2>4. Stopped'
    BY <1>8 DEF Return, history, Stopped
  <2> QED
    BY <2>2, <2>3, <2>4
<1>9. CASE Wake
  BY <1>0, <1>9 DEF Wake, history, TypeOK, Paced, AfterBoth, Stopped
<1>10. CASE Advance
  <2>1. Shortest \in Nat
    BY ShortestIsShortest
  <2>2. TypeOK' /\ Stopped'
    BY <1>10 DEF Advance, history, TypeOK, Stopped
  <2>3. Paced'
    BY <1>0, <1>10, <2>1 DEF Advance, history, TypeOK, Paced, AfterBoth
  <2> QED
    BY <2>2, <2>3
<1>11. CASE UNCHANGED vars
  BY <1>0, <1>11 DEF vars, history, TypeOK, Paced, AfterBoth, Stopped
<1> QED
  BY <1>1, <1>2, <1>3, <1>4, <1>5, <1>6, <1>7, <1>8, <1>9, <1>10, <1>11 DEF Next, Thread

\* A thread about to call has waited the interval out since the tick before last.
LEMMA CallIsPaced ==
  TickInv /\ [Next]_vars => [Call /\ begun >= 2 => now - startedBefore >= Shortest]_vars
  BY DEF TickInv, Paced, Call

\* However long callbacks take, no three ticks begin within the shortest interval.
THEOREM NeverABurst == Spec => NoBurst
<1>1. Init => TickInv
  BY InitTickInv
<1>2. TickInv /\ [Next]_vars => TickInv'
  BY NextTickInv
<1>3. TickInv /\ [Next]_vars => [Call /\ begun >= 2 => now - startedBefore >= Shortest]_vars
  BY CallIsPaced
<1> QED
  BY <1>1, <1>2, <1>3, PTL DEF Spec, NoBurst

\* At most one tick begins once stop() was called.
THEOREM StopSeesOneMoreTick == Spec => []OneMoreTick
<1>1. Init => TickInv
  BY InitTickInv
<1>2. TickInv /\ [Next]_vars => TickInv'
  BY NextTickInv
<1>3. TickInv => OneMoreTick
  BY DEF TickInv, Stopped, OneMoreTick
<1> QED
  BY <1>1, <1>2, <1>3, PTL DEF Spec

\* The clock, the thread and its owner keep to their types.
THEOREM TickTypeCorrect == Spec => []TypeOK
<1>1. Init => TickInv
  BY InitTickInv
<1>2. TickInv /\ [Next]_vars => TickInv'
  BY NextTickInv
<1>3. TickInv => TypeOK
  BY DEF TickInv
<1> QED
  BY <1>1, <1>2, <1>3, PTL DEF Spec

-----------------------------------------------------------------------------
(* The column's buffer.                                                    *)


Estimated ==
    /\ piece.written <= piece.needed
    /\ stage = "done" \/ subChunks = 0 => piece = Nothing

BufferInv == BufferTypeOK /\ Estimated /\ WithinBuffer

\* The column's state is of its type from the beginning, and what the buffer starts
\* with is within its largest size.
LEMMA InitBufferInv == BufferInit => BufferInv
  BY SizeAssumption, ColumnAssumption
     DEF BufferInit, BufferInv, BufferTypeOK, Estimated, WithinBuffer, Nothing, Piece

\* A larger buffer is still no larger than the largest.
LEMMA NewSizeBounds ==
  ASSUME size \in Nat \ {0}, size <= MaxSize
  PROVE  NewSize \in Nat \ {0} /\ size <= NewSize /\ NewSize <= MaxSize
  BY SizeAssumption DEF NewSize

\* The pieces serialize asks room for are no larger than it asks.
LEMMA PiecesEstimated ==
  ASSUME NEW p \in Layers \cup {BiomePiece, Piece(2, 2), Nothing}
  PROVE  p \in [needed : Nat, written : Nat] /\ p.written <= p.needed
  BY LayersAssumption DEF BiomePiece, Piece, Nothing

\* No step of the serialisation leaves the invariant: one case for each action.
LEMMA NextBufferInv == BufferInv /\ [BufferNext]_bufferVars => BufferInv'
<1> SUFFICES ASSUME BufferInv, [BufferNext]_bufferVars PROVE BufferInv'
  OBVIOUS
<1> USE DEF BufferInv
<1>1. CASE Grow
  <2>1. size' \in Nat \ {0} /\ size <= size' /\ size' <= MaxSize
    BY <1>1, NewSizeBounds DEF Grow, BufferTypeOK, WithinBuffer
  <2> QED
    BY <1>1, <2>1 DEF Grow, BufferTypeOK, Estimated, WithinBuffer
<1>2. CASE Write
  <2>1. stage # "done"
    BY <1>2 DEF Write, Estimated
  <2>2. pointer + piece.written \in Nat /\ pointer + piece.written <= size
    BY <1>2 DEF Write, Fits, BufferTypeOK, Estimated
  <2>3. Nothing \in [needed : Nat, written : Nat] /\ Nothing.written <= Nothing.needed
    BY PiecesEstimated
  <2> QED
    BY <1>2, <2>1, <2>2, <2>3 DEF Write, BufferTypeOK, Estimated, WithinBuffer
<1>3. CASE SubChunk
  <2>1. /\ Piece(2, 2) \in [needed : Nat, written : Nat]
        /\ Piece(2, 2).written <= Piece(2, 2).needed
    BY PiecesEstimated
  <2>2. /\ subChunks + 1 \in 0 .. MaxSubChunks /\ 0 \in 0 .. MaxLayers
        /\ biomes \in 0 .. subChunks + 1
    BY <1>3, ColumnAssumption DEF SubChunk, BufferTypeOK
  <2> QED
    BY <1>3, <2>1, <2>2 DEF SubChunk, BufferTypeOK, Estimated, WithinBuffer
<1>4. CASE Layer
  <2>1. piece' \in [needed : Nat, written : Nat] /\ piece'.written <= piece'.needed
    BY <1>4, PiecesEstimated DEF Layer
  <2>2. layers + 1 \in 0 .. MaxLayers
    BY <1>4, ColumnAssumption DEF Layer, BufferTypeOK
  <2> QED
    BY <1>4, <2>1, <2>2 DEF Layer, BufferTypeOK, Estimated, WithinBuffer
<1>5. CASE EndOfSubChunks
  BY <1>5 DEF EndOfSubChunks, BufferTypeOK, Estimated, WithinBuffer
<1>6. CASE Biome
  <2>1. BiomePiece \in [needed : Nat, written : Nat] /\ BiomePiece.written <= BiomePiece.needed
    BY PiecesEstimated
  <2>2. biomes + 1 \in 0 .. subChunks
    BY <1>6 DEF Biome, BufferTypeOK
  <2> QED
    BY <1>6, <2>1, <2>2 DEF Biome, BufferTypeOK, Estimated, WithinBuffer
<1>7. CASE LastByte
  BY <1>7 DEF LastByte, BufferTypeOK, Estimated, WithinBuffer
<1>8. CASE UNCHANGED bufferVars
  BY <1>8 DEF bufferVars, BufferTypeOK, Estimated, WithinBuffer
<1> QED
  BY <1>1, <1>2, <1>3, <1>4, <1>5, <1>6, <1>7, <1>8 DEF BufferNext

\* Nothing but the column's last byte is ever written behind the buffer's end, and
\* the buffer never outgrows its largest size.
THEOREM WritesWithinBuffer == BufferSpec => []WithinBuffer
<1>1. BufferInit => BufferInv
  BY InitBufferInv
<1>2. BufferInv /\ [BufferNext]_bufferVars => BufferInv'
  BY NextBufferInv
<1>3. BufferInv => WithinBuffer
  BY DEF BufferInv
<1> QED
  BY <1>1, <1>2, <1>3, PTL DEF BufferSpec

\* The cursor and the stages of the serialisation are of their types.
THEOREM ColumnTypeCorrect == BufferSpec => []BufferTypeOK
<1>1. BufferInit => BufferInv
  BY InitBufferInv
<1>2. BufferInv /\ [BufferNext]_bufferVars => BufferInv'
  BY NextBufferInv
<1>3. BufferInv => BufferTypeOK
  BY DEF BufferInv
<1> QED
  BY <1>1, <1>2, <1>3, PTL DEF BufferSpec

-----------------------------------------------------------------------------
(* The two together.                                                       *)

\* A step of the thread, of its owner or of time is one of TickManager's, or leaves
\* the clock alone: what the callback does with its buffer, and the column it has.
LEMMA ThreadStepIsTickStep == ThreadNext => [Next]_vars
<1> SUFFICES ASSUME ThreadNext PROVE [Next]_vars
  OBVIOUS
<1>1. CASE Callback \/ NoColumn
  BY <1>1 DEF Callback, NoColumn, vars
<1>2. CASE CallbackReturns
  BY <1>2 DEF CallbackReturns, Next, Thread
<1>3. CASE LoopStep
  BY <1>3 DEF LoopStep, Next, Thread
<1>4. CASE OwnerStep
  BY <1>4 DEF OwnerStep, Next
<1>5. CASE Advance
  BY <1>5 DEF Next
<1> QED
  BY <1>1, <1>2, <1>3, <1>4, <1>5 DEF ThreadNext

\* With the callback that may hang the thread is still a TickManager: what its
\* callback does is, to the clock, only time that passes.
THEOREM ThreadIsTickManager == ThreadSpec => Spec
<1>1. ThreadInit => Init
  BY DEF ThreadInit
<1>2. [ThreadNext]_threadVars => [Next]_vars
  <2>1. CASE ThreadNext
    BY <2>1, ThreadStepIsTickStep
  <2>2. CASE UNCHANGED threadVars
    BY <2>2 DEF threadVars
  <2> QED
    BY <2>1, <2>2
<1> QED
  BY <1>1, <1>2, PTL DEF ThreadSpec, Spec

\* Columns serialised one after the other by the ticks of one thread keep the buffer's
\* invariant: a tick without a column ends with an empty buffer, and the next starts
\* with a fresh one.
LEMMA NextThreadInv == BufferInv /\ [ThreadNext]_threadVars => BufferInv'
<1> SUFFICES ASSUME BufferInv, [ThreadNext]_threadVars PROVE BufferInv'
  OBVIOUS
<1>1. CASE Callback
  BY <1>1, NextBufferInv DEF Callback
<1>2. CASE NoColumn
  BY <1>2 DEF NoColumn, BufferInv, BufferTypeOK, Estimated, WithinBuffer
<1>3. CASE CallbackReturns
  <2>1. BufferInit'
    BY <1>3 DEF CallbackReturns, BufferInit, Nothing, Piece
  <2>2. BufferInit' => BufferInv'
    BY SizeAssumption, ColumnAssumption
       DEF BufferInit, BufferInv, BufferTypeOK, Estimated, WithinBuffer, Nothing, Piece
  <2> QED
    BY <2>1, <2>2
<1>4. CASE UNCHANGED bufferVars
  BY <1>4, NextBufferInv
<1> QED
  BY <1>1, <1>2, <1>3, <1>4
     DEF ThreadNext, threadVars, LoopStep, OwnerStep

\* However many columns the ticks of a thread serialise, whatever its owner does, none
\* is written behind its buffer's end.
THEOREM ThreadWritesWithinBuffer == ThreadSpec => []WithinBuffer
<1>1. ThreadInit => BufferInv
  BY InitBufferInv DEF ThreadInit
<1>2. BufferInv /\ [ThreadNext]_threadVars => BufferInv'
  BY NextThreadInv
<1>3. BufferInv => WithinBuffer
  BY DEF BufferInv
<1> QED
  BY <1>1, <1>2, <1>3, PTL DEF ThreadSpec

\* Whatever a callback does with its column, and however long it grows its buffer, the
\* thread never catches up in a burst.
THEOREM ThreadNeverBursts == ThreadSpec => NoBurst
  BY ThreadIsTickManager, NeverABurst, PTL

\* stop() of a thread whose callback may hang sees one more tick begin at most.
THEOREM ThreadStopsAfterOne == ThreadSpec => []OneMoreTick
  BY ThreadIsTickManager, StopSeesOneMoreTick, PTL
=============================================================================

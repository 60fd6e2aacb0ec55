------------------------------ MODULE TickThread ------------------------------
(***************************************************************************)
(* The tick thread with what its callback may hang in: handleTick          *)
(* serialises columns, and TickManager cannot end the thread before it     *)
(* returns.  A tick here serialises one column or none.                    *)
(***************************************************************************)
EXTENDS TickManager, ColumnBuffer

threadVars == <<vars, bufferVars>>

ThreadInit == Init /\ BufferInit

\* The callback: its column is a fresh one, or it has none to send.
Callback ==
    /\ at = "calling" /\ BufferNext
    /\ UNCHANGED vars

NoColumn ==
    /\ at = "calling" /\ stage # "done" /\ subChunks = 0
    /\ stage' = "done"
    /\ UNCHANGED <<vars, size, pointer, piece, subChunks, layers, biomes>>

\* The buffer goes with serialize's frame.
CallbackReturns ==
    /\ Return /\ stage = "done"
    /\ size' = StartSize /\ pointer' = 0 /\ piece' = Nothing
    /\ stage' = "subchunks" /\ subChunks' = 0 /\ layers' = 0 /\ biomes' = 0

LoopStep == (Begin \/ Check \/ Call \/ Wake) /\ UNCHANGED bufferVars

OwnerStep == (Start \/ Stop \/ Join \/ SetTicksPerSecond) /\ UNCHANGED bufferVars

ThreadNext ==
    \/ Callback \/ NoColumn \/ CallbackReturns
    \/ LoopStep
    \/ OwnerStep
    \/ Advance /\ UNCHANGED bufferVars

\* The thread is scheduled, the owner's join is, and time passes.
ThreadSpec ==
    /\ ThreadInit /\ [][ThreadNext]_threadVars
    /\ WF_threadVars(Callback \/ NoColumn \/ CallbackReturns \/ LoopStep)
    /\ WF_threadVars(Join /\ UNCHANGED bufferVars)
    /\ WF_threadVars(Advance /\ UNCHANGED bufferVars)
-----------------------------------------------------------------------------
\* A callback returns unless its column has a piece for which even the largest buffer
\* has no room: growToFit never waits for room there will be.
EndsIfItFits == at = "calling" ~> (at # "calling" \/ TooLarge)

\* stop() returns, whenever it is called, unless a callback hangs in growToFit.
StopReturns == stopping ~> (~ stopping \/ TooLarge)
=============================================================================

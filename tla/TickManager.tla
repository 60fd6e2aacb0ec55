----------------------------- MODULE TickManager -----------------------------
(***************************************************************************)
(* TickManager: the tick thread's clock, and its owner, which starts and   *)
(* stops it and sets its rate while it runs.  The callback takes any time, *)
(* and a sleeper may wake late.                                            *)
(***************************************************************************)
EXTENDS Integers

CONSTANTS
    Intervals,  \* that ticksPerSecond may stand for
    MaxTime,    \* bound: the time, but for a sleeper's sake
    MaxTicks    \* bound: ticks while the thread is to run

ASSUME IntervalsAssumption ==
    /\ Intervals \subseteq Nat \ {0} /\ Intervals # {}
    /\ \E shortest \in Intervals : \A i \in Intervals : shortest <= i

ASSUME BoundsAssumption == MaxTime \in Nat /\ MaxTicks \in Nat

VARIABLES
    now,       \* the steady clock
    running, interval,
    currentTick,
    at,        \* where the thread is, "none" if it is not joinable
    next,      \* when the next tick is due
    stopping,  \* stop() waits for the thread
    (* history *)
    begun,     \* ticks begun since start()
    started, startedBefore,  \* when the last one and the one before it did
    late       \* ticks begun since stop() was called

history == <<begun, started, startedBefore, late>>
vars == <<now, running, interval, currentTick, at, next, stopping, history>>

Shortest == CHOOSE i \in Intervals : \A j \in Intervals : i <= j

Init ==
    /\ now = 0
    /\ running = FALSE
    /\ interval \in Intervals
    /\ currentTick = 0
    /\ at = "none" /\ next = 0 /\ stopping = FALSE
    /\ begun = 0 /\ started = 0 /\ startedBefore = 0 /\ late = 0
-----------------------------------------------------------------------------
(* The owner.                                                              *)

\* A thread that is still joinable may not be replaced: the owner starts it once, or
\* again after it stopped it.
Start ==
    /\ at = "none" /\ ~ stopping
    /\ running' = TRUE /\ at' = "new"
    /\ begun' = 0 /\ late' = 0
    /\ UNCHANGED <<now, interval, currentTick, next, stopping, started, startedBefore>>

\* Mutant of Stop: the thread is joined and not told to end.
StopWithoutFlag ==
    /\ at # "none" /\ ~ stopping
    /\ stopping' = TRUE
    /\ late' = 0
    /\ UNCHANGED <<now, running, interval, currentTick, at, next, begun, started, startedBefore>>

Stop ==
    /\ at # "none" /\ ~ stopping
    /\ running' = FALSE /\ stopping' = TRUE
    /\ late' = 0
    /\ UNCHANGED <<now, interval, currentTick, at, next, begun, started, startedBefore>>

Join ==
    /\ stopping /\ at = "ended"
    /\ at' = "none" /\ stopping' = FALSE
    /\ UNCHANGED <<now, running, interval, currentTick, next, history>>

SetTicksPerSecond ==
    /\ interval' \in Intervals
    /\ UNCHANGED <<now, running, currentTick, at, next, stopping, history>>
-----------------------------------------------------------------------------
(* run().                                                                  *)

Begin ==
    /\ at = "new"
    /\ next' = now /\ at' = "check"
    /\ UNCHANGED <<now, running, interval, currentTick, stopping, history>>

\* Mutant of Running: the flag is read once, before the loop.
RunningAtFirst == running \/ begun > 0

Running == running

\* The loop's condition, and when the tick after this one will be due.
Check ==
    /\ at = "check"
    /\ \/ /\ Running /\ (running => currentTick < MaxTicks)
          /\ next' = next + interval /\ at' = "due"
       \/ /\ ~ Running
          /\ at' = "ended" /\ UNCHANGED next
    /\ UNCHANGED <<now, running, interval, currentTick, stopping, history>>

Call ==
    /\ at = "due"
    /\ at' = "calling"
    /\ begun' = begun + 1 /\ started' = now /\ startedBefore' = started
    /\ late' = late + (IF stopping THEN 1 ELSE 0)
    /\ UNCHANGED <<now, running, interval, currentTick, next, stopping>>

\* Mutant of Overrun: ticks that are overdue are made up for.
OverrunMadeUp == UNCHANGED next

\* What is overdue is given up, and the next tick begins at once.
Overrun == next' = now

Return ==
    /\ at = "calling"
    /\ currentTick' = currentTick + 1
    /\ \/ now < next /\ at' = "asleep" /\ UNCHANGED next
       \/ now >= next /\ at' = "check" /\ Overrun
    /\ UNCHANGED <<now, running, interval, stopping, history>>

Wake ==
    /\ at = "asleep" /\ now >= next
    /\ at' = "check"
    /\ UNCHANGED <<now, running, interval, currentTick, next, stopping, history>>

Thread == Begin \/ Check \/ Call \/ Return \/ Wake

Advance ==
    /\ now < MaxTime \/ (at = "asleep" /\ now < next)
    /\ now' = now + 1
    /\ UNCHANGED <<running, interval, currentTick, at, next, stopping, history>>

Next == Start \/ Stop \/ Join \/ SetTicksPerSecond \/ Thread \/ Advance

Spec == Init /\ [][Next]_vars
-----------------------------------------------------------------------------
TypeOK ==
    /\ now \in Nat /\ next \in Nat
    /\ running \in BOOLEAN /\ stopping \in BOOLEAN
    /\ interval \in Intervals
    /\ currentTick \in Nat
    /\ at \in {"none", "new", "check", "due", "calling", "asleep", "ended"}
    /\ begun \in Nat /\ late \in Nat
    /\ started \in 0 .. now /\ startedBefore \in 0 .. now

\* However long callbacks take, however late the thread wakes and whenever its rate
\* is set, no three ticks begin within the shortest interval: a server that fell
\* behind does not catch up in a burst.
NoBurst == [][Call /\ begun >= 2 => now - startedBefore >= Shortest]_vars

\* stop() sees at most one more tick begin.
OneMoreTick == late <= 1
=============================================================================

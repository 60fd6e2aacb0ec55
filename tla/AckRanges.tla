----------------------------- MODULE AckRanges ------------------------------
(***************************************************************************)
(* getRangesFromSequence, its loop one turn at a time, and what a reader   *)
(* of the ranges (handleAck, or the client's counterpart) makes of them.   *)
(***************************************************************************)
EXTENDS Integers, Sequences, FiniteSets, Functions

CONSTANT Sequences  \* the id sequences passed in

ASSUME SequencesAssumption == \A ids \in Sequences : ids \in Seq(Nat)

VARIABLES
    sequence,  \* the argument
    i,         \* the loop index, from 1
    min, max,  \* the range being grown
    ranges,    \* the ranges finished
    done       \* the function has returned

vars == <<sequence, i, min, max, ranges, done>>

Init ==
    /\ sequence \in Sequences
    /\ i = 2
    /\ min = IF sequence = <<>> THEN 0 ELSE Head(sequence)
    /\ max = min
    /\ ranges = <<>>
    /\ done = (sequence = <<>>)

InLoop == ~ done /\ i <= Len(sequence)

\* Mutant of Continues: any later id continues the range.
ContinuesLoosely(current) == current > max

Continues(current) == current = max + 1

Extend ==
    /\ InLoop
    /\ Continues(sequence[i])
    /\ max' = sequence[i]
    /\ i' = i + 1
    /\ UNCHANGED <<sequence, min, ranges, done>>

Split ==
    /\ InLoop
    /\ ~ Continues(sequence[i])
    /\ ranges' = Append(ranges, <<min, max>>)
    /\ min' = sequence[i]
    /\ max' = sequence[i]
    /\ i' = i + 1
    /\ UNCHANGED <<sequence, done>>

\* The last range is added after the loop.
Return ==
    /\ ~ done
    /\ i > Len(sequence)
    /\ ranges' = Append(ranges, <<min, max>>)
    /\ done' = TRUE
    /\ UNCHANGED <<sequence, i, min, max>>

Next == Extend \/ Split \/ Return

Spec == Init /\ [][Next]_vars
-----------------------------------------------------------------------------
\* The ids a reader visits: the loop from min to max of handleAck.
IdsOf(range) == range[1] .. range[2]

TypeOK ==
    /\ sequence \in Seq(Nat)
    /\ i \in Nat
    /\ min \in Nat
    /\ max \in Nat
    /\ ranges \in Seq(Nat \X Nat)
    /\ done \in BOOLEAN

\* The reader visits exactly the ids of the sequence, whatever its order: none
\* is lost at a split or at the end, and none is made up.
RoundTrip == done => UNION {IdsOf(range) : range \in Range(ranges)} = Range(sequence)

=============================================================================

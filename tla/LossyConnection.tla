--------------------------- MODULE LossyConnection ---------------------------
(***************************************************************************)
(* RaknetSender with a peer and a network between them.  The peer answers  *)
(* a frame set the way handleFrameSet of this code does: with an ACK of    *)
(* its id and a NACK of the ids it jumped over.  The network reorders both *)
(* ways, and loses frame sets and answers.                                 *)
(*                                                                         *)
(* RaknetSender lets ACKs and NACKs say anything; here they say what the   *)
(* peer saw, which is what loss is repaired by.                            *)
(***************************************************************************)
EXTENDS RaknetSender

CONSTANTS
    MaxLost,        \* bound: frame sets lost
    MaxLostAnswers  \* bound: ACKs and NACKs lost

ASSUME LossAssumption == MaxLost \in Nat /\ MaxLostAnswers \in Nat

VARIABLES
    network,  \* the ids of the frame sets on their way
    last,     \* the peer's last id
    highest,  \* history: the highest it received
    arrived,  \* history: the reliable indices it received
    answers,  \* ACKs and NACKs on their way back
    answer,   \* the range of the one being handled
    lost,     \* frame sets lost, which MaxLost bounds
    lostAnswers  \* ACKs and NACKs lost, of which MaxLostAnswers bounds the number

peer == <<last, highest, arrived>>
losses == <<lost, lostAnswers>>
allVars == <<vars, network, peer, answers, answer, losses>>

Ack(id) == [type |-> "ACK", range |-> <<id, id>>]
Nack(low, high) == [type |-> "NACK", range |-> <<low, high>>]

NoAnswer == <<1, 0>>

ConnectionInit ==
    /\ Init
    /\ network = {} /\ last = -1 /\ highest = -1 /\ arrived = {}
    /\ answers = {} /\ answer = NoAnswer
    /\ lost = 0 /\ lostAnswers = {}
-----------------------------------------------------------------------------
(* The server.                                                             *)

\* Whatever the sender does on its own; what it sends is on its way.
Send ==
    /\ \/ ReceiveFrame \/ FinishFrame
       \/ \E thread \in Threads : Sending(thread)
    /\ network' = network \cup (Len(wire) .. Len(wire') - 1)
    /\ UNCHANGED <<peer, answers, answer, losses>>

HandleAnswer(a) ==
    /\ a \in answers
    /\ IF a.type = "ACK" THEN HandleAck ELSE HandleNack
    /\ packet'.left = 1
    /\ answers' = answers \ {a} /\ answer' = a.range
    /\ UNCHANGED <<network, peer, losses>>

ReadAnswer ==
    /\ ReadRange(answer[1], answer[2]) \/ AckDatagram \/ NackDatagram \/ EndPacket
    /\ UNCHANGED <<network, peer, answers, answer, losses>>
-----------------------------------------------------------------------------
(* The network and the peer.                                               *)

\* Mutant of Answers: only the id before this one is asked for.
AnswersOneMissing(id) ==
    {Ack(id)} \cup {Nack(low, id - 1) : low \in {l \in {id - 1} : l > last}}

\* A NACK follows the ACK if ids were jumped over.
Answers(id) == {Ack(id)} \cup {Nack(low, id - 1) : low \in {l \in {last + 1} : l < id}}

Deliver(id) ==
    /\ id \in network
    /\ network' = network \ {id}
    /\ arrived' = arrived \cup
                   {capsule.reliableIndex : capsule \in ReliableOf(wire[id + 1])}
    /\ answers' = answers \cup Answers(id)
    /\ last' = id /\ highest' = IF id > highest THEN id ELSE highest
    /\ UNCHANGED <<vars, answer, losses>>

Lose ==
    /\ \/ /\ lost < MaxLost
          /\ \E id \in network : network' = network \ {id}
          /\ lost' = lost + 1 /\ UNCHANGED <<answers, lostAnswers>>
       \/ /\ Cardinality(lostAnswers) < MaxLostAnswers
          /\ \E a \in answers :
               answers' = answers \ {a} /\ lostAnswers' = lostAnswers \cup {a}
          /\ UNCHANGED <<network, lost>>
    /\ UNCHANGED <<vars, peer, answer>>

ConnectionNext ==
    \/ Send
    \/ \E a \in answers : HandleAnswer(a)
    \/ ReadAnswer
    \/ \E id \in network : Deliver(id)
    \/ Lose

ConnectionSpec == ConnectionInit /\ [][ConnectionNext]_allVars

\* Of the threads as in RaknetSender; frames keep coming, and what is not lost is
\* delivered and handled.
ConnectionFairness ==
    /\ \A thread \in Threads :
         WF_allVars(Send /\ (RollDatagram(thread) \/ PackCapsule(thread) \/ FinishQueue(thread)))
    /\ SF_allVars(Send /\ FinishFrame)
    /\ SF_allVars(Send /\ ReceiveFrame)
    /\ WF_allVars(ReadAnswer)
    /\ SF_allVars(\E a \in answers : HandleAnswer(a))
    /\ WF_allVars(\E id \in network : Deliver(id))

LiveConnectionSpec == ConnectionSpec /\ ConnectionFairness
-----------------------------------------------------------------------------
\* The sender forgets a capsule only once the peer has it: whatever is lost,
\* overtaken or asked for again, an ACK is about the frame set the capsule was in.
AckedArrived == acked \subseteq arrived

Held == Indices(toSendStack) \cup Indices(unackedStack) \cup Flying

\* What is in frame sets beyond the highest id the peer has seen: it cannot miss
\* them, and nobody asks for them.  Nor is a lost NACK repeated.
Overlooked ==
    UNION {Indices(unackedCache[id]) :
             id \in {i \in DOMAIN unackedCache :
                      \/ i > highest
                      \/ \E a \in lostAnswers :
                           a.type = "NACK" /\ i \in a.range[1] .. a.range[2]}}

\* A lost capsule is sent again until it arrives, however often that is lost in turn,
\* in whatever order things arrive and though ACKs are lost too: all but the last ones
\* sent, for which the code has no timeout, those of a lost NACK, and those that find
\* the window shut: by these, by slots NACKs cost, or where an ACK was lost.
LossRepaired ==
    <>[](\A i \in Held \ arrived :
           \/ i \in Overlooked
           \/ /\ i \in Indices(toSendStack)
              /\ nacked + Cardinality(Overlooked \cup (Flying \cap arrived)) >= WindowSize)
=============================================================================

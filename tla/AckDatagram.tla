----------------------------- MODULE AckDatagram -----------------------------
(***************************************************************************)
(* From the ids of an ACK or NACK to the ids its reader looks up: after    *)
(* getRangesFromSequence (AckRanges), sendAck writes the ranges byte by    *)
(* byte into a buffer it has sized before, and handleAck or handleNack     *)
(* reads the same bytes.  These walk the ids of each range in opposite     *)
(* directions and in integers of different sign.                           *)
(***************************************************************************)
EXTENDS AckRanges

CONSTANTS
    Base,  \* values of a byte, 256
    Uint32Values   \* values of a uint32_t

\* A uint24_t has fewer values than an int32_t has positive ones.
Uint24Values == Base * Base * Base

ASSUME WidthAssumption ==
    Base \in Nat \ {0, 1} /\ Uint32Values \in Nat /\ Uint24Values < Uint32Values \div 2

\* Where one of the first n ids does not follow the one before it.
Breaks(ids, n) == {k \in 2 .. n : ids[k] # ids[k - 1] + 1}

\* The ids there are on the wire, and no more ranges than their count of two bytes
\* says: a frame set is one id to acknowledge and at most one gap, of any length, and
\* handleFrameSet sends both before the next one; more add up only while its capsules
\* throw, one frame set after the other.
ASSUME IdAssumption ==
    \A ids \in Sequences :
        /\ Range(ids) \subseteq 0 .. Uint24Values - 1
        /\ Cardinality(Breaks(ids, Len(ids))) + 1 < Base * Base

VARIABLES
    type,     \* "ACK" or "NACK"
    writing,  \* ranges sendAck has written, -1 before the header
    bytes,    \* written so far
    at,       \* "writing", "sent", "range", "ids", "read"
    pointer,  \* bytes read
    rangesLeft,
    low, high, id,  \* the reader's min, max and j
    visited   \* history: ids looked up in the cache

reader == <<pointer, rangesLeft, low, high, id, visited>>
datagram == <<type, writing, bytes, at, reader>>

DatagramInit ==
    /\ Init
    /\ type \in {"ACK", "NACK"}
    /\ writing = -1 /\ bytes = <<>> /\ at = "writing"
    /\ pointer = 0 /\ rangesLeft = 0
    /\ low = 0 /\ high = 0 /\ id = 0 /\ visited = {}
-----------------------------------------------------------------------------
(* sendAck.                                                                *)

IsSingle(range) == range[1] = range[2]

\* The second id of a range is written if it is another one.
BufferSize ==
    1 + 2 + (1 + 3) * Len(ranges)
      + 3 * Cardinality({k \in DOMAIN ranges : ~ IsSingle(ranges[k])})

Uint16(n) == <<(n \div Base) % Base, n % Base>>

\* Mutant of Uint24: the highest byte first.
Uint24BigEndian(n) == <<(n \div (Base * Base)) % Base, (n \div Base) % Base, n % Base>>

\* The lowest byte first.
Uint24(n) == <<n % Base, (n \div Base) % Base, (n \div (Base * Base)) % Base>>

WriteHeader ==
    /\ done /\ sequence # <<>>
    /\ at = "writing" /\ writing = -1
    /\ bytes' = <<type>> \o Uint16(Len(ranges))
    /\ writing' = 0
    /\ UNCHANGED <<vars, type, at, reader>>

WriteRange ==
    /\ at = "writing" /\ writing \in 0 .. Len(ranges) - 1
    /\ LET range == ranges[writing + 1]
       IN bytes' = bytes \o <<IF IsSingle(range) THEN 1 ELSE 0>> \o Uint24(range[1])
                     \o IF IsSingle(range) THEN <<>> ELSE Uint24(range[2])
    /\ writing' = writing + 1
    /\ UNCHANGED <<vars, type, at, reader>>

Send ==
    /\ at = "writing" /\ writing = Len(ranges)
    /\ at' = "sent"
    /\ UNCHANGED <<vars, type, writing, bytes, reader>>
-----------------------------------------------------------------------------
(* handleAck and handleNack.                                               *)

ReadUint16(p) == bytes[p + 1] * Base + bytes[p + 2]

ReadUint24(p) == bytes[p + 1] + bytes[p + 2] * Base + bytes[p + 3] * (Base * Base)

\* The id is skipped.
ReadCount ==
    /\ at = "sent"
    /\ rangesLeft' = ReadUint16(1) /\ pointer' = 3
    /\ at' = "range"
    /\ UNCHANGED <<vars, type, writing, bytes, low, high, id, visited>>

ReadRange ==
    /\ at = "range" /\ rangesLeft > 0
    /\ rangesLeft' = rangesLeft - 1
    /\ LET single == bytes[pointer + 1] # 0
       IN /\ low' = ReadUint24(pointer + 1)
          /\ high' = IF single THEN low' ELSE ReadUint24(pointer + 4)
          /\ pointer' = pointer + (IF single THEN 4 ELSE 7)
    /\ id' = IF type = "ACK" THEN low' ELSE high'
    /\ at' = "ids"
    /\ UNCHANGED <<vars, type, writing, bytes, visited>>

\* Mutant of StepDown: in the type the id was read in.
StepDownUnsigned == (id - 1) % Uint32Values

\* An int32_t, which may step below zero.
StepDown == id - 1

Visit ==
    /\ at = "ids"
    /\ IF type = "ACK" THEN id <= high ELSE id >= low
    /\ visited' = visited \cup {id}
    /\ id' = IF type = "ACK" THEN (id + 1) % Uint32Values ELSE StepDown
    /\ UNCHANGED <<vars, type, writing, bytes, at, pointer, rangesLeft, low, high>>

EndOfRange ==
    /\ at = "ids"
    /\ IF type = "ACK" THEN id > high ELSE id < low
    /\ at' = "range"
    /\ UNCHANGED <<vars, type, writing, bytes, reader>>

EndOfPacket ==
    /\ at = "range" /\ rangesLeft = 0
    /\ at' = "read"
    /\ UNCHANGED <<vars, type, writing, bytes, reader>>

DatagramNext ==
    \/ Next /\ UNCHANGED datagram
    \/ WriteHeader \/ WriteRange \/ Send
    \/ ReadCount \/ ReadRange \/ Visit \/ EndOfRange \/ EndOfPacket

\* All of it runs without waiting for anything.
DatagramSpec ==
    DatagramInit /\ [][DatagramNext]_<<vars, datagram>> /\ WF_<<vars, datagram>>(DatagramNext)
-----------------------------------------------------------------------------
\* A reader looks up the ids that were to be sent and no others, at both ends of the
\* id space too, and reads the datagram to its end; what was written fills the
\* buffer that was sized before: no byte is behind its end, none is left unwritten.
IdsVisited ==
    /\ Len(bytes) <= BufferSize
    /\ at # "writing" => Len(bytes) = BufferSize
    /\ visited \subseteq Range(sequence)
    /\ at = "read" => visited = Range(sequence) /\ pointer = Len(bytes)

\* Both loops end: the one that counts down at id 0 as well.
ReadToTheEnd == sequence # <<>> ~> at = "read"
=============================================================================

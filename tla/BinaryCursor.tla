---------------------------- MODULE BinaryCursor ----------------------------
(***************************************************************************)
(* Cursor of binary/cursor.hpp: a buffer with a pointer, values written to *)
(* it one after the other and read back with the read of the same kind.    *)
(* A byte has ByteBits bits, an int IntBytes bytes, a long LongBytes       *)
(* (8, 4 and 8 in the code).  A float is its bits, a character a byte.     *)
(***************************************************************************)
EXTENDS Integers, SequencesExt

CONSTANTS
    ByteBits, IntBytes, LongBytes,
    Values,     \* kind -> the values of that kind that are written
    MaxValues   \* bound: values written

ASSUME ByteAssumption == ByteBits \in Nat /\ ByteBits > 1

ASSUME WidthAssumption ==
    /\ IntBytes \in Nat \ {0} /\ LongBytes \in Nat \ {0}
    /\ IntBytes < LongBytes

VARIABLES
    stream,     \* buffer_, the bytes, up to the end of what was written
    pointer,    \* pointer_, bytes read or written so far
    reading,    \* whether the buffer is being read back
    written,    \* history: the values written, with their kinds
    got         \* history: what was read back, with its size; 0 when it threw

cursorVars == <<stream, pointer, reading, written, got>>

\* 1 << n.
TwoTo[n \in Nat] == IF n = 0 THEN 1 ELSE 2 * TwoTo[n - 1]

Base == TwoTo[ByteBits]
Group == TwoTo[ByteBits - 1]  \* what one byte of a variable-length integer holds

\* What a type of n bytes holds.
UnsignedRange(n) == 0 .. TwoTo[ByteBits * n] - 1
SignedRange(n) == -TwoTo[ByteBits * n - 1] .. TwoTo[ByteBits * n - 1] - 1

UuidBytes == 4

\* Kinds of values, and what their C++ types can hold; a string is shorter than the
\* length written with it can say.
KindRange ==
    [uint8 |-> UnsignedRange(1), bool |-> BOOLEAN,
     uint16 |-> UnsignedRange(2), int16LE |-> SignedRange(2),
     uint24 |-> UnsignedRange(3), uint24LE |-> UnsignedRange(3),
     int32 |-> SignedRange(IntBytes), uint32LE |-> UnsignedRange(IntBytes),
     int64 |-> SignedRange(LongBytes), uint64LE |-> UnsignedRange(LongBytes),
     varInt32 |-> SignedRange(IntBytes), varInt64 |-> SignedRange(LongBytes),
     zigZag32 |-> SignedRange(IntBytes), zigZag64 |-> SignedRange(LongBytes),
     string |-> {v \in Seq(UnsignedRange(1)) : Len(v) < TwoTo[ByteBits * IntBytes - 1]},
     uuid |-> {v \in Seq(UnsignedRange(1)) : Len(v) <= UuidBytes},
     address |-> [family : UnsignedRange(1), ip : UnsignedRange(IntBytes),
                  port : UnsignedRange(2)],
     magic |-> {{}}]

ASSUME ValuesAssumption ==
    \A kind \in DOMAIN Values :
       kind \in DOMAIN KindRange /\ \A v \in Values[kind] : v \in KindRange[kind]

\* A read that throws.
Thrown == [value |-> "thrown", size |-> 0]
-----------------------------------------------------------------------------
(* Integers of a fixed number of bytes.                                    *)

\* n digits of so many bits, from the lowest, and what they make up again.
Digits(v, bits, n) == [i \in 1 .. n |-> (v \div TwoTo[bits * (i - 1)]) % TwoTo[bits]]

Joined(digits, bits) ==
    LET sum[i \in 0 .. Len(digits)] ==
          IF i = 0 THEN 0 ELSE sum[i - 1] + digits[i] * TwoTo[bits * (i - 1)]
    IN sum[Len(digits)]

LittleEndian(v, n) == Digits(v, ByteBits, n)

BigEndian(v, n) == Reverse(LittleEndian(v, n))

FromLittleEndian(bytes) == Joined(bytes, ByteBits)

FromBigEndian(bytes) == FromLittleEndian(Reverse(bytes))

\* static_cast to an unsigned type, and back to the signed one.
Unsigned(v, n) == v % TwoTo[ByteBits * n]

Signed(u, n) == IF u >= TwoTo[ByteBits * n - 1] THEN u - TwoTo[ByteBits * n] ELSE u

-----------------------------------------------------------------------------
(* Variable-length integers: groups of bits from the lowest, each but the  *)
(* last one with the continuation bit.                                     *)

\* The turns of the loops: 5 for an int, 10 for a long.
MaxGroups(n) == (n * ByteBits + ByteBits - 2) \div (ByteBits - 1)

\* How many turns writing u takes.
GroupsOf(u, n) ==
    CHOOSE k \in 1 .. MaxGroups(n) :
       /\ u < TwoTo[(ByteBits - 1) * k]
       /\ \A j \in 1 .. k - 1 : u >= TwoTo[(ByteBits - 1) * j]

VarBytes(u, n) ==
    LET k == GroupsOf(u, n)
        groups == Digits(u, ByteBits - 1, k)
    IN [i \in 1 .. k |-> groups[i] + (IF i < k THEN Group ELSE 0)]

\* Reading stops at the first byte without a continuation bit, and throws when
\* there is none among the first MaxGroups; what is shifted out is lost.
ReadVar(bytes, n) ==
    LET ends == {i \in 1 .. MaxGroups(n) : i \in DOMAIN bytes /\ bytes[i] < Group}
        size == CHOOSE i \in ends : \A j \in ends : i <= j
    IN IF ends = {} THEN Thrown
       ELSE [value |-> Joined([i \in 1 .. size |-> bytes[i] % Group], ByteBits - 1)
                         % TwoTo[ByteBits * n],
             size |-> size]

\* Mutant of ZigZag: the sign is not folded into the lowest bit.
ZigZagShifted(v, n) == Unsigned(2 * v, n)

\* (v << 1) ^ (v >> 31): 0, -1, 1, -2, ... become 0, 1, 2, 3, ...
ZigZag(v, n) == IF v >= 0 THEN 2 * v ELSE Unsigned(-2 * v - 1, n)

\* (u >> 1) ^ -(u & 1)
UnZigZag(u) == IF u % 2 = 0 THEN u \div 2 ELSE -(u \div 2) - 1
-----------------------------------------------------------------------------
(* What each kind of write puts into the buffer.                           *)

\* A UUID is 16 bytes, here 4, each half written from its last byte.
HalvesReversed(bytes) ==
    LET half == Len(bytes) \div 2
    IN Reverse(SubSeq(bytes, 1, half)) \o Reverse(SubSeq(bytes, half + 1, Len(bytes)))

\* writeUuid pads on the left what is too short.
Padded(bytes) ==
    [i \in 1 .. UuidBytes - Len(bytes) |-> 0] \o bytes

MAGIC == <<0, Base - 1, Base - 1, 1>>

WriteBool(v) == <<IF v THEN 1 ELSE 0>>

WriteString(v) == VarBytes(Unsigned(Len(v), IntBytes), IntBytes) \o v

WriteAddress(v) == <<v.family>> \o BigEndian(v.ip, IntBytes) \o BigEndian(v.port, 2)

Encode(kind, v) ==
    CASE kind = "uint8"     -> <<v>>
      [] kind = "bool"      -> WriteBool(v)
      [] kind = "uint16"    -> BigEndian(v, 2)
      [] kind = "int16LE"   -> LittleEndian(Unsigned(v, 2), 2)
      [] kind = "uint24"    -> BigEndian(v, 3)
      [] kind = "uint24LE"  -> LittleEndian(v, 3)
      [] kind = "int32"     -> BigEndian(Unsigned(v, IntBytes), IntBytes)
      [] kind = "uint32LE"  -> LittleEndian(v, IntBytes)
      [] kind = "int64"     -> BigEndian(Unsigned(v, LongBytes), LongBytes)
      [] kind = "uint64LE"  -> LittleEndian(v, LongBytes)
      [] kind = "varInt32"  -> VarBytes(Unsigned(v, IntBytes), IntBytes)
      [] kind = "varInt64"  -> VarBytes(Unsigned(v, LongBytes), LongBytes)
      [] kind = "zigZag32"  -> VarBytes(ZigZag(v, IntBytes), IntBytes)
      [] kind = "zigZag64"  -> VarBytes(ZigZag(v, LongBytes), LongBytes)
      [] kind = "string"    -> WriteString(v)
      [] kind = "uuid"      -> HalvesReversed(Padded(v))
      [] kind = "address"   -> WriteAddress(v)
      [] kind = "magic"     -> MAGIC

-----------------------------------------------------------------------------
(* What each kind of read makes of the bytes from the pointer on.          *)

Fixed(bytes, n, Decode(_)) == [value |-> Decode(SubSeq(bytes, 1, n)), size |-> n]

\* A variable-length integer, converted once it is read.
Converted(raw, Decode(_)) ==
    IF raw.size = 0 THEN Thrown ELSE [raw EXCEPT !.value = Decode(@)]

ReadString(bytes) ==
    LET length == Converted(ReadVar(bytes, IntBytes), LAMBDA u : Signed(u, IntBytes))
    IN [value |-> SubSeq(bytes, length.size + 1, length.size + length.value),
        size |-> length.size + length.value]

ReadAddress(bytes) ==
    [value |-> [family |-> bytes[1],
                ip |-> FromBigEndian(SubSeq(bytes, 2, 1 + IntBytes)),
                port |-> FromBigEndian(SubSeq(bytes, 2 + IntBytes, 3 + IntBytes))],
     size |-> 3 + IntBytes]

Read(kind, bytes) ==
    CASE kind = "uint8"     -> Fixed(bytes, 1, Head)
      [] kind = "bool"      -> Fixed(bytes, 1, LAMBDA b : Head(b) # 0)
      [] kind = "uint16"    -> Fixed(bytes, 2, FromBigEndian)
      [] kind = "int16LE"   -> Fixed(bytes, 2, LAMBDA b : Signed(FromLittleEndian(b), 2))
      [] kind = "uint24"    -> Fixed(bytes, 3, FromBigEndian)
      [] kind = "uint24LE"  -> Fixed(bytes, 3, FromLittleEndian)
      [] kind = "int32"     -> Fixed(bytes, IntBytes,
                                     LAMBDA b : Signed(FromBigEndian(b), IntBytes))
      [] kind = "uint32LE"  -> Fixed(bytes, IntBytes, FromLittleEndian)
      [] kind = "int64"     -> Fixed(bytes, LongBytes,
                                     LAMBDA b : Signed(FromBigEndian(b), LongBytes))
      [] kind = "uint64LE"  -> Fixed(bytes, LongBytes, FromLittleEndian)
      [] kind = "varInt32"  -> Converted(ReadVar(bytes, IntBytes),
                                         LAMBDA u : Signed(u, IntBytes))
      [] kind = "varInt64"  -> Converted(ReadVar(bytes, LongBytes),
                                         LAMBDA u : Signed(u, LongBytes))
      [] kind = "zigZag32"  -> Converted(ReadVar(bytes, IntBytes), UnZigZag)
      [] kind = "zigZag64"  -> Converted(ReadVar(bytes, LongBytes), UnZigZag)
      [] kind = "string"    -> ReadString(bytes)
      [] kind = "uuid"      -> Fixed(bytes, UuidBytes, HalvesReversed)
      [] kind = "address"   -> ReadAddress(bytes)
      [] kind = "magic"     -> Fixed(bytes, Len(MAGIC), LAMBDA b : {})
-----------------------------------------------------------------------------
CursorInit ==
    /\ stream = <<>>
    /\ pointer = 0
    /\ reading = FALSE
    /\ written = <<>>
    /\ got = <<>>

Write(kind, v) ==
    /\ ~ reading
    /\ Len(written) < MaxValues
    /\ stream' = stream \o Encode(kind, v)
    /\ pointer' = pointer + Len(Encode(kind, v))
    /\ written' = Append(written, [kind |-> kind, value |-> v])
    /\ UNCHANGED <<reading, got>>

\* The bytes written are handed on, a cursor over them starts at their front.
Reset ==
    /\ ~ reading
    /\ reading' = TRUE
    /\ pointer' = 0
    /\ UNCHANGED <<stream, written, got>>

IsEndOfStream == pointer >= Len(stream)

RemainingBytes == SubSeq(stream, pointer + 1, Len(stream))

ReadNext ==
    /\ reading
    /\ Len(got) < Len(written)
    /\ LET result == Read(written[Len(got) + 1].kind, RemainingBytes)
       IN /\ pointer' = pointer + result.size
          /\ got' = Append(got, result)
    /\ UNCHANGED <<stream, reading, written>>

CursorNext ==
    \/ \E kind \in DOMAIN Values : \E v \in Values[kind] : Write(kind, v)
    \/ Reset
    \/ ReadNext

CursorSpec == CursorInit /\ [][CursorNext]_cursorVars
-----------------------------------------------------------------------------
\* Every value is read as it was written, and from where it was written: what
\* comes before it takes neither more nor fewer bytes to read than to write.  A
\* short UUID comes back padded, and nothing is read of the magic.
ReadsBack ==
    \A i \in DOMAIN got :
       /\ got[i].size > 0
       /\ got[i].value = IF written[i].kind = "uuid" THEN Padded(written[i].value)
                         ELSE written[i].value

\* The end of the stream, which the loops over a datagram and over a batch of
\* packets ask for, is reached with the last value: not before, nor passed.
ReadsToTheEnd ==
    reading => /\ pointer <= Len(stream)
               /\ IsEndOfStream <=> Len(got) = Len(written)

\* No variable-length integer takes more bytes than a reader accepts, nor than
\* send() and growToFit() set aside for one (5 for an int); one of small
\* magnitude takes a single byte when it is zig-zagged, and a negative one that
\* is not takes them all.
LengthsAsPlanned ==
    \A i \in DOMAIN written :
       LET kind == written[i].kind
           v == written[i].value
           size == Len(Encode(kind, v))
       IN /\ kind \in {"varInt32", "zigZag32"} => size <= MaxGroups(IntBytes)
          /\ kind \in {"varInt64", "zigZag64"} => size <= MaxGroups(LongBytes)
          /\ kind \in {"zigZag32", "zigZag64"} =>
               (size = 1 <=> v \in -(Group \div 2) .. Group \div 2 - 1)
          /\ kind = "varInt32" /\ v < 0 => size = MaxGroups(IntBytes)

\* Which of the two widths a call uses does not matter as long as the value is
\* an int and, without zig-zag, not negative: the bytes are the same, and either
\* read accepts them.  (A negative varInt64 is too long for readVarInt32.)
WidthsAgree ==
    \A i \in DOMAIN written :
       LET v == written[i].value
       IN /\ written[i].kind = "zigZag32" => Encode("zigZag64", v) = Encode("zigZag32", v)
          /\ written[i].kind = "varInt32" =>
               IF v >= 0 THEN Encode("varInt64", v) = Encode("varInt32", v)
               ELSE Read("varInt32", Encode("varInt64", v)).size = 0

\* What is written is read as it was, from where it was written, up to the end of
\* the stream and in the lengths the code sets aside, by either width.
CursorFaithful == ReadsBack /\ ReadsToTheEnd /\ LengthsAsPlanned /\ WidthsAgree
=============================================================================

-------------------------- MODULE MCSequentialParts --------------------------
(***************************************************************************)
(* The parts that one thread calls on data of its own, side by side: a     *)
(* behaviour is one of the ring, the cursor, the login or the column, or   *)
(* of one of the others, which share the variables of this module.         *)
(***************************************************************************)
EXTENDS CircularBufferQueue, BinaryCursor, LoginPacket, ChunkColumn

VARIABLES part, v1, v2, v3, v4, v5

shared == <<v1, v2, v3, v4, v5>>

Unused ==
    /\ v1 = "unused" /\ v2 = "unused" /\ v3 = "unused" /\ v4 = "unused" /\ v5 = "unused"
-----------------------------------------------------------------------------
\* Bytes of 4 bits: a group has 3, an int 16 bits in at most 6 groups of which
\* the last holds one bit, a long 28 bits in at most 10.
UnsignedValues(n) == {0, 1, 2 ^ (4 * n - 1) - 1, 2 ^ (4 * n - 1), 2 ^ (4 * n) - 1}
SignedValues(n) == {0, 1, -1, 2 ^ (4 * n - 1) - 1, -(2 ^ (4 * n - 1))}
AroundGroups == UNION {{2 ^ k - 1, 2 ^ k, -(2 ^ k), -(2 ^ k) - 1} : k \in {1, 2, 3, 6, 14}}

CursorValues ==
    [uint8 |-> {0, 7, 8, 15}, bool |-> BOOLEAN,
     uint16 |-> UnsignedValues(2), int16LE |-> SignedValues(2),
     uint24 |-> UnsignedValues(3), uint24LE |-> UnsignedValues(3),
     int32 |-> SignedValues(4), uint32LE |-> UnsignedValues(4),
     int64 |-> SignedValues(7), uint64LE |-> UnsignedValues(7),
     varInt32 |-> SignedValues(4) \cup AroundGroups,
     varInt64 |-> SignedValues(7) \cup AroundGroups,
     zigZag32 |-> SignedValues(4) \cup AroundGroups,
     zigZag64 |-> SignedValues(7) \cup AroundGroups,
     string |-> {<<>>, <<9>>, <<15, 8, 0, 1, 2, 3, 4, 5, 6>>},
     uuid |-> {<<1, 2, 3, 4>>, <<15, 0, 0, 1>>, <<3, 4>>},
     address |-> {[family |-> 4, ip |-> 258, port |-> 19],
                  [family |-> 6, ip |-> 65535, port |-> 255]},
     magic |-> {{}}]

Packets ==
    INSTANCE PacketCodec WITH
      Samples <- 729, packet <- v1, fields <- v2, stream <- v3, result <- v4, stage <- v5
-----------------------------------------------------------------------------
Scalar(type, v) == [type |-> type, v |-> v]
ListOf(of, entries) == [type |-> "List", of |-> of, entries |-> entries]
Compound(entries) == [type |-> "Compound", entries |-> entries]
Field(name, value) == [name |-> name, value |-> value]

\* Scalars, and an array.
Leaves == {Scalar("Int32", "1"), Scalar("String", "s"), Scalar("Int8List", "-")}

\* Lists and compounds of none, one or two leaves, with a name twice.
Flat ==
    {ListOf("EndOfCompound", <<>>), Compound(<<>>)}
      \cup {ListOf(v.type, <<v, v>>) : v \in Leaves}
      \cup {Compound(<<Field("a", v), Field(n, w)>>) :
              v \in Leaves, w \in Leaves, n \in {"a", "b"}}

\* And those once more: the palettes' form is a compound in a compound.
NbtValues ==
    Leaves \cup Flat
      \cup {Compound(<<Field("a", v), Field("b", w)>>) : v \in Flat, w \in Leaves}
      \cup {ListOf(v.type, <<v, v>>) : v \in Flat}

NbtStream ==
    INSTANCE Nbt WITH
      Values <- NbtValues, MaxValues <- 2,
      written <- v1, tokens <- v2, pointer <- v3, read <- v4, thrown <- v5
-----------------------------------------------------------------------------

NoState == <<>>

Plain(name) == [name |-> name, states |-> <<>>]
Log(axis) == [name |-> 1, states |-> <<<<1, axis>>, <<2, 5>>>>]
LogOtherOrder(axis) == [name |-> 1, states |-> <<<<2, 5>>, <<1, axis>>>>]

Uniform(block) ==
    [bits |-> 0, palette |-> <<block>>, blocks |-> [c \in 0 .. Cells - 1 |-> 0]]
Mixed(bits, palette) ==
    [bits |-> bits, palette |-> palette,
     blocks |-> [c \in 0 .. Cells - 1 |-> c % Len(palette)]]

\* Air alone; one block alone; two blocks below water in a second layer; three
\* blocks in an older version, one of them twice with its states in another order.
StoredSubChunks ==
    {[version |-> 9, storages |-> <<Uniform(Plain(0))>>],
     [version |-> 9, storages |-> <<Uniform(Plain(2))>>],
     [version |-> 9, storages |-> <<Mixed(1, <<Plain(2), Log(1)>>), Mixed(3, <<Plain(0), Plain(3)>>)>>],
     [version |-> 8, storages |-> <<Mixed(2, <<Log(1), Plain(2), LogOtherOrder(1)>>)>>]}

SomeBlocks == {Plain(n) : n \in {0, 2, 3}} \cup {Log(1), LogOtherOrder(1)}
-----------------------------------------------------------------------------
\* The parts that have variables of their own rest where they begin.
OneLogin == CHOOSE one \in Logins : one.document = "broken"

RestingLogin == login = OneLogin /\ LoginInit

RestingColumn == disk = [saved |-> FALSE, at |-> [y \in Height |-> Missing]] /\ ColumnInit

Resting == Init /\ CursorInit /\ RestingLogin /\ RestingColumn

PartsInit ==
    \/ part \in {"ring", "cursor"} /\ Resting /\ Unused
    \/ part = "login" /\ LoginInit /\ Init /\ CursorInit /\ RestingColumn /\ Unused
    \/ part = "column" /\ ColumnInit /\ Init /\ CursorInit /\ RestingLogin /\ Unused
    \/ part = "packets" /\ Packets!Init /\ Resting
    \/ part = "nbt" /\ NbtStream!Init /\ Resting

PartsNext ==
    /\ UNCHANGED part
    /\ \/ part = "ring" /\ Next /\ UNCHANGED <<cursorVars, loginVars, columnVars, shared>>
       \/ part = "cursor" /\ CursorNext /\ UNCHANGED <<vars, loginVars, columnVars, shared>>
       \/ part = "login" /\ LoginNext /\ UNCHANGED <<vars, cursorVars, columnVars, shared>>
       \/ part = "column" /\ ColumnNext /\ UNCHANGED <<vars, cursorVars, loginVars, shared>>
       \/ /\ UNCHANGED <<vars, cursorVars, loginVars, columnVars>>
          /\ \/ part = "packets" /\ Packets!Next
             \/ part = "nbt" /\ NbtStream!Next

PartsSpec ==
    PartsInit /\ [][PartsNext]_<<part, vars, cursorVars, loginVars, columnVars, shared>>
-----------------------------------------------------------------------------
\* Packets: deserialize gives back the fields it keeps of what serialize was given (all
\* but an item's NBT and the upper half of a tick), and nothing is left of a packet that
\* could be taken for the next one; items after the first and chunks with more than 64
\* blobs are written and not read back.
PacketsRoundTrip == part = "packets" => Packets!RoundTrip /\ Packets!NothingLeft

\* NBT: values are read as written, the cursor stands right behind them.
NbtFaithful == part = "nbt" => NbtStream!EveryValueKept /\ NbtStream!BehindTheLast
=============================================================================

--------------------------------- MODULE Nbt ---------------------------------
(***************************************************************************)
(* NBT::next and its table of readers, over values one behind the other as *)
(* the palettes on disk have them.  A type, a name, a size and a payload   *)
(* are one token each; their bytes are the cursor's affair.                *)
(*                                                                         *)
(* Who wrote the values is external.  A value is as it was written: a      *)
(* compound is a sequence of named values, in which a name may come twice. *)
(***************************************************************************)
EXTENDS Integers
LOCAL INSTANCE SequencesExt

CONSTANTS
    Values,    \* written, each with a name of its own
    MaxValues  \* bound: values in a stream

VARIABLES
    written,  \* the values
    tokens,   \* and the tokens they take
    pointer,  \* tokens read
    read,     \* the values next() returned
    thrown

vars == <<written, tokens, pointer, read, thrown>>

Arrays == {"Int8List", "Int32List", "Int64List"}
Scalars == {"Int8", "Int16", "Int32", "Int64", "Float", "Double", "String"}

Token(kind, v) == [kind |-> kind, v |-> v]
Size(n) == [kind |-> "size", n |-> n]
End == Token("type", "EndOfCompound")

Scalar(type, v) == [type |-> type, v |-> v]
List(of, entries) == [type |-> "List", of |-> of, entries |-> entries]
Compound(entries) == [type |-> "Compound", entries |-> entries]

RECURSIVE Payload(_)
Payload(value) ==
    CASE value.type = "List" ->
           <<Token("type", value.of), Size(Len(value.entries))>>
             \o FlattenSeq([i \in DOMAIN value.entries |-> Payload(value.entries[i])])
      [] value.type = "Compound" ->
           FlattenSeq([i \in DOMAIN value.entries |->
                         <<Token("type", value.entries[i].value.type),
                           Token("name", value.entries[i].name)>> \o Payload(value.entries[i].value)])
             \o <<End>>
      [] OTHER -> <<Token(value.type, value.v)>>

Tokens(value) == <<Token("type", value.type), Token("name", "")>> \o Payload(value)

Init ==
    /\ \E n \in 1 .. MaxValues : written \in [1 .. n -> Values]
    /\ tokens = FlattenSeq([i \in DOMAIN written |-> Tokens(written[i])])
    /\ pointer = 0 /\ read = <<>> /\ thrown = FALSE
-----------------------------------------------------------------------------
(* The readers.  Each leaves the value and where the cursor is.            *)

\* NBTData{}, which has the type 0.
Empty == Scalar("EndOfCompound", "0")

Result(value, at) == [value |-> value, at |-> at, thrown |-> FALSE]

Thrown(at) == [value |-> Empty, at |-> at, thrown |-> TRUE]

\* vector(size) has that many entries before the first is pushed back.
NewList(size) == [i \in 1 .. size |-> Empty]

\* Mutant of Emplace: the last entry of a name is kept.
InsertOrAssign(map, name, value) ==
    [n \in DOMAIN map \cup {name} |-> IF n = name THEN value ELSE map[n]]

\* The first entry of a name is kept.
Emplace(map, name, value) ==
    [n \in DOMAIN map \cup {name} |-> IF n \in DOMAIN map THEN map[n] ELSE value]

RECURSIVE Read(_, _), ReadEntries(_, _, _, _), ReadFields(_, _)

\* getReader(type), called with the cursor at the token `at`.
Read(type, at) ==
    CASE type = "EndOfCompound" -> Result(Empty, at)
      [] type \in Arrays -> Thrown(at)
      [] type \in Scalars -> Result(Scalar(type, tokens[at].v), at + 1)
      [] type = "List" ->
           ReadEntries(tokens[at].v, tokens[at + 1].n, NewList(tokens[at + 1].n), at + 2)
      [] type = "Compound" -> ReadFields([n \in {} |-> Empty], at)

ReadEntries(of, left, entries, at) ==
    IF left = 0 THEN Result(List(of, entries), at)
    ELSE LET entry == Read(of, at)
         IN IF entry.thrown THEN entry
            ELSE ReadEntries(of, left - 1, Append(entries, entry.value), entry.at)

ReadFields(map, at) ==
    IF tokens[at] = End THEN Result([type |-> "Compound", at |-> map], at + 1)
    ELSE LET field == Read(tokens[at].v, at + 2)
         IN IF field.thrown THEN field
            ELSE ReadFields(Emplace(map, tokens[at + 1].v, field.value), field.at)

\* next(): an end has no name; what was thrown reaches whoever called.
ReadNext ==
    /\ ~ thrown /\ pointer < Len(tokens)
    /\ LET first == pointer + 1
           result == IF tokens[first] = End THEN Result(Empty, first + 1)
                     ELSE Read(tokens[first].v, first + 2)
       IN /\ pointer' = result.at - 1
          /\ thrown' = result.thrown
          /\ read' = IF result.thrown THEN read ELSE Append(read, result.value)
    /\ UNCHANGED <<written, tokens>>

Next == ReadNext

Spec == Init /\ [][Next]_vars
-----------------------------------------------------------------------------
\* What a reader may make of a value: a list's entries come behind as many empty
\* ones, a compound has the first value of each name.
RECURSIVE Kept(_)
Kept(value) ==
    CASE value.type = "List" ->
           List(value.of, [i \in DOMAIN value.entries |-> Empty]
                            \o [i \in DOMAIN value.entries |-> Kept(value.entries[i])])
      [] value.type = "Compound" ->
           [type |-> "Compound",
            at |-> [n \in {value.entries[i].name : i \in DOMAIN value.entries} |->
                      Kept(value.entries[CHOOSE i \in DOMAIN value.entries :
                             /\ value.entries[i].name = n
                             /\ \A j \in 1 .. i - 1 : value.entries[j].name # n].value)]]
      [] OTHER -> value

RECURSIVE HasArray(_)
HasArray(value) ==
    CASE value.type = "List" -> \E i \in DOMAIN value.entries : HasArray(value.entries[i])
      [] value.type = "Compound" ->
           \E i \in DOMAIN value.entries : HasArray(value.entries[i].value)
      [] OTHER -> value.type \in Arrays

\* However values nest, each is read as it was written, but for a list's leading
\* empty entries and a name's later values.
EveryValueKept == \A i \in DOMAIN read : read[i] = Kept(written[i])

\* The cursor stands right behind the values read, where the next palette entry or
\* storage begins, and reading fails of arrays only.
BehindTheLast ==
    /\ thrown => HasArray(written[Len(read) + 1])
    /\ ~ thrown => pointer = Len(FlattenSeq([i \in DOMAIN read |-> Tokens(written[i])]))
=============================================================================

---------------------------- MODULE PacketFormat ----------------------------
(***************************************************************************)
(* What a serialize or deserialize of protocol/packets/ does, as data: a   *)
(* layout is a sequence of items, each one a call of the cursor, a loop or *)
(* a condition.  A stream is a sequence of tokens [kind, value], one per   *)
(* value written; the bytes of a kind are BinaryCursor's business, and a   *)
(* read of another kind than was written is a failure here.                *)
(* TLC-only: the interpreters are recursive.                               *)
(***************************************************************************)
EXTENDS Integers, Sequences, TLC
LOCAL INSTANCE SequencesExt

\* Consecutive fields of one kind.
Fields(kind, names) ==
    [i \in DOMAIN names |-> [form |-> "field", kind |-> kind, name |-> names[i]]]

\* A field whose value, one of values, decides what follows.
Choice(kind, name, values) ==
    <<[form |-> "choice", kind |-> kind, name |-> name, values |-> values]>>

\* A literal.
Constant(kind, value) == <<[form |-> "constant", kind |-> kind, value |-> value]>>

\* A value read and thrown away.
Skipped(kind) == <<[form |-> "skipped", kind |-> kind]>>

\* A field, or the half of one, that is on no stream: it is empty, or 0, once read.
Lost(name) == <<[form |-> "lost", name |-> name]>>

\* A nested struct.
Struct(name, format) == <<[form |-> "struct", name |-> name, format |-> format]>>

\* A count and that many elements: lengths are those of the samples, and the reader
\* throws at a count above most.
ListUpTo(most, lengths, count, name, format) ==
    <<[form |-> "list", kind |-> count, name |-> name, format |-> format,
       most |-> most, lengths |-> lengths]>>

MaxInt32 == 2147483647

List(count, name, format) == ListUpTo(MaxInt32, <<0, 1, 2>>, count, name, format)

\* A flag, and the list when it is not empty.
ListIfAny(count, name, format) ==
    <<[List(count, name, format)[1] EXCEPT !.form = "listIfAny"]>>

\* What is there only if a field of the same struct has one of the values.
When(name, values, format) ==
    <<[form |-> "when", name |-> name, values |-> values, format |-> format]>>

\* std::optional: a flag and, when it is set, the value.
Optional(flag, format) == Choice("bool", flag, <<0, 1>>) \o When(flag, {1}, format)

\* Two strings in one, with Separator between them.
Joined(first, second) == <<[form |-> "joined", name |-> first, second |-> second]>>

Separator == 0

\* The parts of one integer, from the highest.
Packed(kind, names) == <<[form |-> "packed", kind |-> kind, names |-> names]>>

PartBase == 16

Holds(item, r) == item.name \in DOMAIN r /\ r[item.name] \in item.values

Token(kind, value) == [kind |-> kind, value |-> value]
-----------------------------------------------------------------------------
RECURSIVE Write(_, _)

WriteList(item, elements) ==
    <<Token(item.kind, Len(elements))>>
      \o FlattenSeq([i \in DOMAIN elements |-> Write(item.format, elements[i])])

WriteItem(item, r) ==
    CASE item.form \in {"field", "choice"} -> <<Token(item.kind, r[item.name])>>
      [] item.form = "constant"  -> <<Token(item.kind, item.value)>>
      [] item.form = "lost"      -> <<>>
      [] item.form = "struct"    -> Write(item.format, r[item.name])
      [] item.form = "list"      -> WriteList(item, r[item.name])
      [] item.form = "listIfAny" ->
           IF r[item.name] = <<>> THEN <<Token("bool", 0)>>
           ELSE <<Token("bool", 1)>> \o WriteList(item, r[item.name])
      [] item.form = "when"      -> IF Holds(item, r) THEN Write(item.format, r) ELSE <<>>
      [] item.form = "joined"    ->
           <<Token("string", r[item.name] \o <<Separator>> \o r[item.second])>>
      [] item.form = "packed"    ->
           <<Token(item.kind,
                   FoldLeft(LAMBDA sum, name : sum * PartBase + r[name], 0, item.names))>>

\* The tokens a serialize following the format writes for the fields r.
Write(format, r) ==
    FlattenSeq([i \in DOMAIN format |-> WriteItem(format[i], r)])
-----------------------------------------------------------------------------
\* A reader p has read the fields p.r and has the tokens p.rest in front of it,
\* or has failed.
Reader(tokens) == [r |-> <<>>, rest |-> tokens, ok |-> TRUE]

Failed(p) == [p EXCEPT !.ok = FALSE]

\* One byte either way, and one variable-length integer either way.
SameBytes(kind) ==
    CASE kind = "bool" -> "uint8" [] kind = "varInt64" -> "varInt32" [] OTHER -> kind

Expects(p, kind) ==
    p.ok /\ p.rest # <<>> /\ SameBytes(Head(p.rest).kind) = SameBytes(kind)

\* The next token, if it is of the kind, becomes the field name.
TakeInto(p, kind, name) ==
    IF Expects(p, kind)
    THEN [p EXCEPT !.r = (name :> Head(p.rest).value) @@ @, !.rest = Tail(@)]
    ELSE Failed(p)

RECURSIVE Read(_, _)

\* The fields of a nested struct, or of an element, are read into one of its own.
ReadOne(format, p) == Read(format, [p EXCEPT !.r = <<>>])

\* rfind: the last separator splits the string, none leaves the second one empty.
SplitJoined(s) ==
    LET separators == {i \in DOMAIN s : s[i] = Separator}
        last == CHOOSE i \in separators : \A j \in separators : j <= i
    IN IF separators = {} THEN <<s, <<>>>>
       ELSE <<SubSeq(s, 1, last - 1), SubSeq(s, last + 1, Len(s))>>

ReadList(item, p) ==
    IF ~ Expects(p, item.kind) \/ Head(p.rest).value > item.most THEN Failed(p)
    ELSE LET Element(q, i) ==
                 LET one == ReadOne(item.format, [q EXCEPT !.r = <<>>])
                 IN [one EXCEPT !.r = Append(q.r, one.r)]
             all == FoldLeft(Element, [p EXCEPT !.r = <<>>, !.rest = Tail(@)],
                             [i \in 1 .. Head(p.rest).value |-> i])
         IN [all EXCEPT !.r = (item.name :> all.r) @@ p.r]

ReadItem(p, item) ==
    CASE ~ p.ok -> p
      [] item.form \in {"field", "choice"} -> TakeInto(p, item.kind, item.name)
      [] item.form = "constant"  ->
           IF Expects(p, item.kind) /\ Head(p.rest).value = item.value
           THEN [p EXCEPT !.rest = Tail(@)] ELSE Failed(p)
      [] item.form = "skipped"   ->
           IF Expects(p, item.kind) THEN [p EXCEPT !.rest = Tail(@)] ELSE Failed(p)
      [] item.form = "lost"      -> [p EXCEPT !.r = (item.name :> 0) @@ @]
      [] item.form = "struct"    ->
           LET one == ReadOne(item.format, p)
           IN [one EXCEPT !.r = (item.name :> one.r) @@ p.r]
      [] item.form = "list"      -> ReadList(item, p)
      [] item.form = "listIfAny" ->
           IF ~ Expects(p, "bool") THEN Failed(p)
           ELSE LET q == [p EXCEPT !.rest = Tail(@)]
                IN IF Head(p.rest).value # 0 THEN ReadList(item, q)
                   ELSE [q EXCEPT !.r = (item.name :> <<>>) @@ @]
      [] item.form = "when"      -> IF Holds(item, p.r) THEN Read(item.format, p) ELSE p
      [] item.form = "joined"    ->
           IF ~ Expects(p, "string") THEN Failed(p)
           ELSE LET parts == SplitJoined(Head(p.rest).value)
                IN [p EXCEPT !.r = (item.name :> parts[1]) @@ (item.second :> parts[2]) @@ @,
                             !.rest = Tail(@)]
      [] item.form = "packed"    ->
           IF ~ Expects(p, item.kind) THEN Failed(p)
           ELSE LET n == Len(item.names)
                    PartOf(i) == (Head(p.rest).value \div PartBase ^ (n - i)) % PartBase
                IN [p EXCEPT !.r = [name \in {item.names[i] : i \in 1 .. n} |->
                                       PartOf(CHOOSE i \in 1 .. n : item.names[i] = name)] @@ @,
                             !.rest = Tail(@)]

Read(format, p) == FoldLeft(ReadItem, p, format)
-----------------------------------------------------------------------------
(* Inputs: the n-th sample of what a format can be given.  Each field has a *)
(* value of its own, so that two exchanged are noticed; choices and lengths *)
(* vary with n, each with a digit of n of its own as far as there are any.  *)
RECURSIVE Sample(_, _, _)

Digit(n, i, size) == (n \div 3 ^ (i % 6)) % size

\* The part of the sample the i-th item of a format stands for, after the
\* fields r.
SampleItem(r, item, i, base, n) ==
    LET own == 10 * (base + i)
    IN CASE item.form = "field"    -> item.name :> own
         [] item.form = "choice"   ->
              item.name :> item.values[1 + Digit(n, i, Len(item.values))]
         [] item.form = "constant" -> <<>>
         [] item.form = "lost"     -> item.name :> Digit(n, i, 2)
         [] item.form = "struct"   -> item.name :> Sample(item.format, own, n)
         [] item.form \in {"list", "listIfAny"} ->
              LET length == item.lengths[1 + Digit(n, i, Len(item.lengths))]
              IN item.name :> [j \in 1 .. length |-> Sample(item.format, own + j, n + 7 * j)]
         [] item.form = "when"     ->
              IF Holds(item, r) THEN Sample(item.format, own, n) ELSE <<>>
         [] item.form = "joined"   ->
              (item.name :> IF n % 2 = 0 THEN <<1>> ELSE <<1, Separator, 2>>)
                @@ (item.second :> IF n % 3 = 0 THEN <<>> ELSE <<own>>)
         [] item.form = "packed"   ->
              [name \in {item.names[k] : k \in DOMAIN item.names} |->
                 CHOOSE k \in DOMAIN item.names : item.names[k] = name]

Sample(format, base, n) ==
    FoldLeft(LAMBDA r, i : SampleItem(r, format[i], i, base, n) @@ r, <<>>,
             [i \in DOMAIN format |-> i])
=============================================================================

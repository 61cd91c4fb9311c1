------------------------------ MODULE Serializer ------------------------------
(***************************************************************************)
(* The archives of zpp_bits.h: how an item of any of the supported types   *)
(* is serialised into a buffer, of fixed size or growing, and deserialised *)
(* into an object that already has a value.  A type is a record, a buffer  *)
(* a sequence of bytes.  What an error leaves behind is kept, for the      *)
(* object of a failed deserialisation lives on.                            *)
(***************************************************************************)
EXTENDS Integers, Sequences, FiniteSets, SequencesExt

CONSTANTS Items,        \* a sequence of [type, values, others]: types, their values, other bytes to read
          Options       \* of an archive: [grows, swapped, fit, mul, div, limit]

VARIABLES
    stage,      \* "write", "written", "read"; "other" when other bytes were read
    type,       \* of the item
    value,      \* what is serialised
    object,     \* what is deserialised into
    before,     \* the output archive as it was at first
    output,     \* the output archive
    input       \* the input archive

serializerVars == <<stage, type, value, object, before, output, input>>

-----------------------------------------------------------------------------
(* Types. A container knows the type of its size. *)

Fixed(w)            == [k |-> "fixed", w |-> w]
Varint(w, zigzag)   == [k |-> "varint", w |-> w, zigzag |-> zigzag]
Bits(n)             == [k |-> "bits", n |-> n]
Array(n, of)        == [k |-> "array", n |-> n, of |-> of]
Vector(size, of)    == [k |-> "vector", size |-> size, of |-> of]
SetOf(size, of)     == [k |-> "set", size |-> size, of |-> of]
MapOf(size, of)     == [k |-> "map", size |-> size, of |-> of]
Tuple(of)           == [k |-> "tuple", of |-> of]
Optional(of)        == [k |-> "optional", of |-> of]
Variant(of)         == [k |-> "variant", of |-> of]
Pointer(of)         == [k |-> "pointer", of |-> of]

Byte == Fixed(1)

RECURSIVE Default(_)
Default(t) ==
    CASE t.k \in {"fixed", "varint"}     -> 0
      [] t.k = "bits"                  -> [i \in 1 .. t.n |-> FALSE]
      [] t.k = "array"                 -> [i \in 1 .. t.n |-> Default(t.of)]
      [] t.k \in {"vector", "optional"} -> <<>>
      [] t.k \in {"set", "map"}        -> {}
      [] t.k = "tuple"                 -> [i \in 1 .. Len(t.of) |-> Default(t.of[i])]
      [] t.k = "variant"               -> [index |-> 1, is |-> Default(t.of[1])]
      [] t.k = "pointer"               -> Default(t.of)

\* A set, or a map by its keys, in the order of its iterators.
InOrderOf(t, S) ==
    SetToSortSeq(S, LAMBDA x, y : IF t.k = "map" THEN x[1] < y[1] ELSE x < y)

-----------------------------------------------------------------------------
(* Archives. After an error nothing more is done. *)

Ok == "ok"
Unlimited == -1

OpenArchive(data, pos, opts) == [data |-> data, pos |-> pos, opts |-> opts, err |-> Ok]
Failed(a, err) == [a EXCEPT !.err = err]
RoomLeft(a)    == Len(a.data) - a.pos
Resize(data, n) == [i \in 1 .. n |-> IF i <= Len(data) THEN data[i] ELSE 0]

\* enlarge_for: n more bytes than there is room for; an archive over a fixed
\* buffer fails.
Grow(a, n) ==
    LET newSize == ((Len(a.data) + n) * a.opts.mul) \div a.opts.div
    IN  IF ~ a.opts.grows THEN Failed(a, "result_out_of_range")
        ELSE IF a.opts.limit # Unlimited /\ newSize > a.opts.limit THEN Failed(a, "no_buffer_space")
        ELSE [a EXCEPT !.data = Resize(@, newSize)]

Enlarge_Whole(a, n) == IF a.err # Ok \/ n <= Len(a.data) THEN a ELSE Grow(a, n)
Enlarge(a, n)       == IF a.err # Ok \/ n <= RoomLeft(a) THEN a ELSE Grow(a, n)

\* Copy bytes to the position and move it on.
Copy(a, bytes) ==
    [a EXCEPT !.pos = @ + Len(bytes),
              !.data = [i \in 1 .. Len(@) |->
                           IF i \in a.pos + 1 .. a.pos + Len(bytes) THEN bytes[i - a.pos] ELSE @[i]]]

Write(a, bytes) ==
    LET b == Enlarge(a, Len(bytes)) IN IF b.err # Ok THEN b ELSE Copy(b, bytes)

\* The bytes of an integer, in the order of the archive.
Little(v, w) == [i \in 1 .. w |-> (v \div 256 ^ (i - 1)) % 256]
Ordered(a, bytes) == IF a.opts.swapped THEN Reverse(bytes) ELSE bytes
FromLittle(bytes) == FoldRight(LAMBDA b, v : b + 256 * v, bytes, 0)

PutInt(a, w, v) == Write(a, Ordered(a, Little(v, w)))

\* Whether n bytes are left to be read, and a fixed part of an input archive.
Short(a, n) == n > Len(a.data) - a.pos
NextBytes(a, n) == SubSeq(a.data, a.pos + 1, a.pos + n)

GetInt(a, w, old) ==
    IF a.err # Ok THEN [a |-> a, v |-> old]
    ELSE IF Short(a, w) THEN [a |-> Failed(a, "result_out_of_range"), v |-> old]
    ELSE [a |-> [a EXCEPT !.pos = @ + w], v |-> FromLittle(Ordered(a, NextBytes(a, w)))]

-----------------------------------------------------------------------------
(* Varints: seven bits in a byte, the lowest first. *)

VarintMaxSize(w) == (w * 8) \div 7 + 1
ZigZag(v)   == IF v >= 0 THEN 2 * v ELSE -2 * v - 1
UnZigZag(u) == IF u % 2 = 0 THEN u \div 2 ELSE -((u + 1) \div 2)

Sevens(u) ==
    LET bytes[x \in 0 .. u] ==
            IF x >= 128 THEN <<128 + (x % 128)>> \o bytes[x \div 128] ELSE <<x>>
    IN  bytes[u]

\* A growing archive makes room for the longest varint; a fixed one that is
\* too short for that must have room for this one.
PutVarint(a, t, v) ==
    LET bytes == Sevens(IF t.zigzag THEN ZigZag(v) ELSE v)
        b     == Enlarge(a, IF a.opts.grows THEN VarintMaxSize(t.w) ELSE Len(bytes))
    IN  IF b.err # Ok THEN b ELSE Copy(b, bytes)

\* A varint ends at its first byte below 128, among the first VarintMaxSize.
GetVarint(a, t, old) ==
    LET size == VarintMaxSize(t.w)
        most == IF RoomLeft(a) < size THEN RoomLeft(a) ELSE size
        ends == {i \in 1 .. most : a.data[a.pos + i] < 128}
        n    == CHOOSE i \in ends : \A j \in ends : i <= j
        u    == FoldRight(LAMBDA b, v : (b % 128) + 128 * v, NextBytes(a, n), 0) % 256 ^ t.w
    IN  IF a.err # Ok THEN [a |-> a, v |-> old]
        ELSE IF ends = {}
        THEN [a |-> Failed(a, IF most < size THEN "result_out_of_range" ELSE "value_too_large"),
              v |-> old]
        ELSE [a |-> [a EXCEPT !.pos = @ + n], v |-> IF t.zigzag THEN UnZigZag(u) ELSE u]

-----------------------------------------------------------------------------
(* Bitsets: eight bits in a byte.  They are or-ed into the buffer, which    *)
(* must be zero there.                                                     *)

BitBytes(n) == (n + 7) \div 8
BitByte(bits, j, was) ==
    FoldLeft(LAMBDA b, i : IF 8 * j + i < Len(bits) /\ bits[8 * j + i + 1] /\ (b \div 2 ^ i) % 2 = 0
                           THEN b + 2 ^ i ELSE b,
             was, [i \in 1 .. 8 |-> i - 1])

PutBits(a, bits) ==
    LET b == Enlarge(a, BitBytes(Len(bits)))
    IN  IF b.err # Ok THEN b
        ELSE Copy(b, [j \in 1 .. BitBytes(Len(bits)) |-> BitByte(bits, j - 1, b.data[b.pos + j])])

GetBits(a, n, old) ==
    IF a.err # Ok THEN [a |-> a, v |-> old]
    ELSE IF Short(a, BitBytes(n)) THEN [a |-> Failed(a, "result_out_of_range"), v |-> old]
    ELSE [a |-> [a EXCEPT !.pos = @ + BitBytes(n)],
          v |-> [i \in 1 .. n |-> (a.data[a.pos + 1 + (i - 1) \div 8] \div 2 ^ ((i - 1) % 8)) % 2 = 1]]

-----------------------------------------------------------------------------
(* Serialising. *)

RECURSIVE SerializeOne(_, _, _)

\* Items one after the other.
OutMany(a, types, values) ==
    FoldLeft(LAMBDA b, i : SerializeOne(b, types[i], values[i]), a, [i \in 1 .. Len(values) |-> i])
OutAll(a, t, values) == OutMany(a, [i \in 1 .. Len(values) |-> t], values)

\* Numbers that need not be swapped are copied as one block.
AsBytes(a, t) == t.k = "fixed" /\ (t.w = 1 \/ ~ a.opts.swapped)
OutBlock(a, t, values) ==
    IF AsBytes(a, t) THEN Write(a, FlattenSeq([i \in 1 .. Len(values) |-> Little(values[i], t.w)]))
    ELSE OutAll(a, t, values)

\* A container: its size, then what it holds.
OutVector(a, t, values) == OutBlock(SerializeOne(a, t.size, Len(values)), t.of, values)
OutSet(a, t, S)         == OutAll(SerializeOne(a, t.size, Cardinality(S)), t.of, InOrderOf(t, S))

OutOptional(a, t, v) ==
    IF v = <<>> THEN SerializeOne(a, Byte, 0) ELSE SerializeOne(SerializeOne(a, Byte, 1), t.of, v[1])

\* A variant: the id of its alternative, counted from zero, then its value.
OutVariant(a, t, v) == SerializeOne(SerializeOne(a, Byte, v.index - 1), t.of[v.index], v.is)

SerializeOne(a, t, v) ==
    CASE t.k = "fixed"          -> PutInt(a, t.w, v)
      [] t.k = "varint"         -> PutVarint(a, t, v)
      [] t.k = "bits"           -> PutBits(a, v)
      [] t.k = "array"          -> OutBlock(a, t.of, v)
      [] t.k = "vector"         -> OutVector(a, t, v)
      [] t.k \in {"set", "map"} -> OutSet(a, t, v)
      [] t.k = "tuple"          -> OutMany(a, t.of, v)
      [] t.k = "optional"       -> OutOptional(a, t, v)
      [] t.k = "variant"        -> OutVariant(a, t, v)
      [] t.k = "pointer"        -> SerializeOne(a, t.of, v)

\* out(item): a buffer that grew is cut to what was written.
OutCall(a, t, v) ==
    LET b == SerializeOne(a, t, v)
    IN  IF a.opts.grows /\ a.opts.fit /\ <<a.opts.mul, a.opts.div>> # <<1, 1>> /\ b.pos >= Len(a.data)
        THEN [b EXCEPT !.data = Resize(@, b.pos)] ELSE b

-----------------------------------------------------------------------------
(* Deserialising: the archive, and what the object becomes. *)

RECURSIVE DeserializeOne(_, _, _)

\* Items one after the other, into the objects of a sequence.
InMany(a, types, olds) ==
    FoldLeft(LAMBDA s, i : LET got == DeserializeOne(s.a, types[i], s.v[i])
                           IN  [a |-> got.a, v |-> [s.v EXCEPT ![i] = got.v]],
             [a |-> a, v |-> olds], [i \in 1 .. Len(olds) |-> i])
InAll(a, t, olds) == InMany(a, [i \in 1 .. Len(olds) |-> t], olds)

\* A block is there as a whole, or nothing of it is read.
InBlock(a, t, olds) ==
    LET n == t.w * Len(olds)
    IN  IF a.err # Ok \/ ~ AsBytes(a, t) THEN InAll(a, t, olds)
        ELSE IF Short(a, n) THEN [a |-> Failed(a, "result_out_of_range"), v |-> olds]
        ELSE [a |-> [a EXCEPT !.pos = @ + n],
              v |-> [i \in 1 .. Len(olds) |-> FromLittle(SubSeq(NextBytes(a, n), t.w * (i - 1) + 1, t.w * i))]]

\* How much memory an element takes; a limit is used with integers only.
SizeOf(t) == t.w

\* A vector is resized, and what it held is read into.
InVector(a, t, old) ==
    LET size == DeserializeOne(a, t.size, 0)
    IN  IF size.a.err # Ok THEN [a |-> size.a, v |-> old]
        ELSE IF a.opts.limit # Unlimited /\ size.v > a.opts.limit \div SizeOf(t.of)
        THEN [a |-> Failed(size.a, "message_size"), v |-> old]
        ELSE InBlock(size.a, t.of,
                   [i \in 1 .. size.v |-> IF i <= Len(old) THEN old[i] ELSE Default(t.of)])

\* insert: an element, or a key, that is there already stays as it is.
Inserted(t, S, x) ==
    IF t.k = "map" /\ (\E y \in S : y[1] = x[1]) THEN S ELSE S \cup {x}

\* A set or a map, cleared after its size is known; a new element is read and
\* inserted.
InSetFrom(a, t, start) ==
    LET size == DeserializeOne(a, t.size, 0)
        next(s) == LET got == DeserializeOne(s.a, t.of, Default(t.of))
                   IN  [a |-> got.a, v |-> IF got.a.err = Ok THEN Inserted(t, s.v, got.v) ELSE s.v]
    IN  IF size.a.err # Ok THEN [a |-> size.a, v |-> start]
        ELSE FoldLeft(LAMBDA s, i : next(s), [a |-> size.a, v |-> start], [i \in 1 .. size.v |-> i])
InSet_Keeps(a, t, old) == InSetFrom(a, t, old)
InSet(a, t, old) ==
    LET size == DeserializeOne(a, t.size, 0).a
    IN  IF size.err # Ok THEN [a |-> size, v |-> old] ELSE InSetFrom(a, t, {})

\* An optional that has a value is read into.
InOptional(a, t, old) ==
    LET has == DeserializeOne(a, Byte, 0)
        got == DeserializeOne(has.a, t.of, IF old = <<>> THEN Default(t.of) ELSE old[1])
    IN  IF has.a.err # Ok THEN [a |-> has.a, v |-> old]
        ELSE IF has.v = 0 THEN [a |-> has.a, v |-> <<>>]
        ELSE [a |-> got.a, v |-> <<got.v>>]

\* A variant becomes of the alternative that has the id, unless it is.
InVariant(a, t, old) ==
    LET id  == DeserializeOne(a, Byte, 0)
        i   == id.v + 1
        got == DeserializeOne(id.a, t.of[i], IF old.index = i THEN old.is ELSE Default(t.of[i]))
    IN  IF id.a.err # Ok THEN [a |-> id.a, v |-> old]
        ELSE IF i > Len(t.of) THEN [a |-> Failed(id.a, "bad_message"), v |-> old]
        ELSE [a |-> got.a, v |-> [index |-> i, is |-> got.v]]

\* A pointer is set to a new object once that has been read.
InPointer(a, t, old) ==
    LET got == DeserializeOne(a, t.of, Default(t.of))
    IN  [a |-> got.a, v |-> IF got.a.err = Ok THEN got.v ELSE old]

DeserializeOne(a, t, old) ==
    CASE t.k = "fixed"          -> GetInt(a, t.w, old)
      [] t.k = "varint"         -> GetVarint(a, t, old)
      [] t.k = "bits"           -> GetBits(a, t.n, old)
      [] t.k = "array"          -> InBlock(a, t.of, old)
      [] t.k = "vector"         -> InVector(a, t, old)
      [] t.k \in {"set", "map"} -> InSet(a, t, old)
      [] t.k = "tuple"          -> InMany(a, t.of, old)
      [] t.k = "optional"       -> InOptional(a, t, old)
      [] t.k = "variant"        -> InVariant(a, t, old)
      [] t.k = "pointer"        -> InPointer(a, t, old)

-----------------------------------------------------------------------------

\* An archive over what a buffer had: from its begin, or appending to it.
Archives ==
    {OpenArchive(data, pos, opts) : data \in {<<>>, <<0, 0, 0>>, <<7, 0, 0, 0, 0, 0>>},
                                    pos \in {0, 1, 3}, opts \in Options}

SerializerInit ==
    /\ stage = "write"
    /\ \E i \in 1 .. Len(Items) :
          /\ type = Items[i].type
          /\ value \in Items[i].values
          /\ object \in Items[i].values \cup {Default(type)}
    /\ output \in {a \in Archives : a.pos <= Len(a.data)}
    /\ type.k = "bits" => \A i \in output.pos + 1 .. Len(output.data) : output.data[i] = 0
    /\ output.opts.limit # Unlimited =>
           type.k = "vector" /\ type.of.k = "fixed" /\ output.data = <<>>
    /\ before = output
    /\ input = output

SerializerIdle ==
    /\ stage = "idle" /\ type = Byte /\ value = 0 /\ object = 0
    /\ before = OpenArchive(<<>>, 0, <<>>) /\ output = before /\ input = before

Serialize ==
    /\ stage = "write"
    /\ output' = OutCall(output, type, value)
    /\ stage' = "written"
    /\ UNCHANGED <<type, value, object, before, input>>

\* Deserialise from where was written, from all of it or from what is left of
\* it when the end is lost.
Deserialize ==
    /\ stage = "written" /\ output.err = Ok
    /\ \E n \in before.pos .. output.pos :
          LET got == DeserializeOne(OpenArchive(SubSeq(output.data, 1, n), before.pos, output.opts), type, object)
          IN  /\ input' = got.a
              /\ object' = got.v
    /\ stage' = "read"
    /\ UNCHANGED <<type, value, before, output>>

\* Deserialise what was never serialised.
DeserializeOther ==
    /\ stage = "write" /\ output.data = <<>> /\ output.opts.limit = Unlimited /\ ~ output.opts.swapped
    /\ \E i \in 1 .. Len(Items) : Items[i].type = type /\ \E bytes \in Items[i].others :
          LET got == DeserializeOne(OpenArchive(bytes, 0, output.opts), type, object)
          IN  input' = got.a /\ object' = got.v
    /\ stage' = "other"
    /\ UNCHANGED <<type, value, before, output>>

SerializerNext == Serialize \/ Deserialize \/ DeserializeOther

-----------------------------------------------------------------------------
(* Properties. *)

\* What was serialised comes back whole, whatever the object held before, in
\* either byte order, behind what the buffer had and with or without its being
\* cut to size, and the reader ends where the writer did
\* (zpp_bits.h:1994-2285, 2553-3038).
RoundTrips ==
    stage = "read" /\ Len(input.data) = output.pos =>
        input.err = Ok /\ object = value /\ input.pos = output.pos

\* How many bytes an item takes in an archive with these options.
Needed(opts) == SerializeOne(OpenArchive(Resize(<<>>, 64), 0, opts), type, value).pos

\* Too short a buffer is an error and never an access beyond it: a fixed buffer
\* takes an item exactly when it has the room, and keeps what lies before and
\* behind it; an item with its end missing is refused, and whatever the bytes
\* say of sizes and alternatives, none is read but what there is
\* (zpp_bits.h:1918-1955, 2004-2012, 2563-2566).
ShortRefused ==
    /\ stage # "idle" => output.pos <= Len(output.data) /\ input.pos <= Len(input.data)
    /\ stage = "written" /\ ~ output.opts.grows =>
           /\ output.err = IF Needed(output.opts) <= RoomLeft(before) THEN Ok ELSE "result_out_of_range"
           /\ Len(output.data) = Len(before.data)
           /\ \A i \in 1 .. Len(before.data) :
                 i \notin before.pos + 1 .. output.pos => output.data[i] = before.data[i]
    /\ stage = "written" /\ output.opts.grows =>
           output.err = Ok \/ (output.err = "no_buffer_space" /\ output.opts.limit # Unlimited)
    /\ stage = "read" /\ Len(input.data) < output.pos => input.err = "result_out_of_range"

=============================================================================

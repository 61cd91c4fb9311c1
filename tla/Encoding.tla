------------------------------- MODULE Encoding -------------------------------
(***************************************************************************)
(* Delta encoding (delta_encoding.hpp) into a varint_compressor            *)
(* (varint_encoding.hpp) and back: a stream to which values are added      *)
(* while an iterator decodes it, which encodes nothing but the differences *)
(* of neighbours, modulo the machine word.                                 *)
(***************************************************************************)
EXTENDS Integers, Sequences, SequencesExt

CONSTANTS WordLimit,    \* words are 0 .. WordLimit - 1
          Inputs,       \* the values that are encoded
          MaxInputs     \* how many

ASSUME EncodingAssumption ==
    WordLimit \in Nat \ {0} /\ Inputs \subseteq 0 .. WordLimit - 1 /\ MaxInputs \in Nat

VARIABLES
    inputs,     \* what has been encoded
    buffer,     \* buffer_, its bytes
    encPrev,    \* prev_ of the encoder
    iter,       \* the iterator, or NoIterator; its count_ goes down to zero
    fetched,    \* what the last dereference since the last increment returned
    decPrev,    \* prev_ of the decoder
    outputs     \* what has been decoded

encodingVars == <<inputs, buffer, encPrev, iter, fetched, decPrev, outputs>>

NoIterator == [count |-> -1]
NotFetched == -1
Incomplete == -2        \* what decode_varint throws

\* Seven bits of the value in each byte, the lowest first; the last byte is
\* below 128.
EncodeVarint(v) ==
    LET enc[x \in 0 .. v] == IF x >= 128 THEN <<128 + (x % 128)>> \o enc[x \div 128] ELSE <<x>>
    IN  enc[v]

\* The varint that begins behind index, and the index behind it.
DecodeVarint(bytes, index) ==
    LET ends == {i \in index + 1 .. Len(bytes) : bytes[i] < 128}
        last == CHOOSE i \in ends : \A j \in ends : i <= j
        val[i \in index + 1 .. last] ==
            (bytes[i] % 128) + (IF i = last THEN 0 ELSE 128 * val[i + 1])
    IN  IF ends = {} THEN [value |-> Incomplete, index |-> Len(bytes)]
        ELSE [value |-> val[index + 1] % WordLimit, index |-> last]

-----------------------------------------------------------------------------

EncodingInit ==
    /\ inputs = <<>> /\ buffer = <<>> /\ encPrev = 0
    /\ iter = NoIterator /\ fetched = NotFetched /\ decPrev = 0 /\ outputs = <<>>

\* delta_encoder::encode, varint_compressor::encode.
Encode(v) ==
    /\ Len(inputs) < MaxInputs
    /\ inputs' = Append(inputs, v)
    /\ buffer' = buffer \o EncodeVarint((v - encPrev) % WordLimit)
    /\ encPrev' = v
    /\ UNCHANGED <<iter, fetched, decPrev, outputs>>

\* begin(), and a new decoder: the iterator is for what has been encoded by now.
BeginDecoding ==
    /\ iter' = [count |-> Len(inputs), index |-> 0, next |-> 0]
    /\ fetched' = NotFetched
    /\ decPrev' = 0
    /\ outputs' = <<>>
    /\ UNCHANGED <<inputs, buffer, encPrev>>

\* *it, any number of times: remembers where the next value begins.
Dereference ==
    /\ iter.count > 0
    /\ LET got == DecodeVarint(buffer, iter.index)
       IN  /\ fetched' = got.value
           /\ iter' = [iter EXCEPT !.next = got.index]
    /\ UNCHANGED <<inputs, buffer, encPrev, decPrev, outputs>>

\* ++it, and delta_decoder::decode of what was fetched.
Increment ==
    /\ fetched >= 0
    /\ iter' = [iter EXCEPT !.index = iter.next, !.count = @ - 1]
    /\ outputs' = Append(outputs, (fetched + decPrev) % WordLimit)
    /\ decPrev' = (fetched + decPrev) % WordLimit
    /\ fetched' = NotFetched
    /\ UNCHANGED <<inputs, buffer, encPrev>>

EncodingNext == (\E v \in Inputs : Encode(v)) \/ BeginDecoding \/ Dereference \/ Increment

EncodingSpec == EncodingInit /\ [][EncodingNext]_encodingVars

-----------------------------------------------------------------------------
(* Properties. *)

\* The values come back one by one and as they were, over every boundary of
\* seven bits and every wrap-around of a difference, with values added behind
\* a live iterator and a dereference repeated; none is ever incomplete, and an
\* iterator over all of the values ends where the buffer does.
StreamDecodes ==
    /\ outputs = SubSeq(inputs, 1, Len(outputs))
    /\ fetched # Incomplete
    /\ iter.count = 0 /\ Len(outputs) = Len(inputs) => iter.index = Len(buffer)

=============================================================================

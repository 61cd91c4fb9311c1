----------------------------- MODULE MCUtilities -----------------------------
\* The parts that serve the burst buffer and know nothing of each other, each
\* checked by itself: while one is in use the others are idle.
EXTENDS SparseExtent, DeferredFile, Archive, Pmem, Encoding, Clocks, Serializer,
        Handles, ThreadLocal, Runtime, Powers, WholeFile

VARIABLE part   \* which one is in use

vars == <<part, sparseVars, fileVars, archiveVars, pmemVars, encodingVars, welfordVars, clocksVars,
          serializerVars, handlesVars, localVars, runtimeVars, powersVars, wholeVars>>

MCSparseExtents ==
    {Sparse(b, s, h, c) : b \in {0, 2}, s \in 1 .. 3, h \in 0 .. 2, c \in 1 .. 3}

MCPayload == <<1, 2>>

MCTrees == UNION {[1 .. n -> 5 .. 6] : n \in 0 .. 2}
MCIndices ==
    UNION {[1 .. n -> [ino : {7}, global : MCTrees, local : {<<>>, <<5>>}]] : n \in 0 .. 3}
MCWorlds == UNION {[1 .. n -> MCTrees] : n \in 2 .. 3}

MCInputs == {0, 1, 127, 128, 16384, 65535}

\* Growing and fixed archives in both byte orders, and growing ones with and
\* without a limit that do not enlarge by more than they must.
MCOptions ==
    {[grows |-> g, swapped |-> s, fit |-> f, mul |-> 3, div |-> 2, limit |-> Unlimited] : g, s, f \in BOOLEAN}
    \cup {[grows |-> TRUE, swapped |-> FALSE, fit |-> TRUE, mul |-> 1, div |-> 1, limit |-> l] : l \in {3, Unlimited}}

MCItem(type_, values, others) == [type |-> type_, values |-> values, others |-> others]
MCItems ==
    <<MCItem(Fixed(2), {0, 258, 65535}, {<<>>}),
     MCItem(Varint(2, FALSE), {0, 127, 128, 16384, 65535}, {<<128, 128>>, <<128, 128, 128>>, <<255, 255, 127>>}),
     MCItem(Varint(1, TRUE), {0, -1, 64, -128, 127}, {<<128, 128>>}),
     MCItem(Bits(9), {[i \in 1 .. 9 |-> i \in s] : s \in {{}, {1, 9}, {8}}}, {<<255>>}),
     MCItem(Vector(Fixed(2), Fixed(1)), {<<>>, <<5>>, <<5, 6>>}, {<<4, 0, 1, 2, 3>>}),
     MCItem(Vector(Varint(2, FALSE), Vector(Byte, Byte)), {<<>>, <<<<>>, <<5>>>>, <<<<7>>>>},
            {<<2, 1, 5>>, <<2, 9, 5>>}),
     MCItem(SetOf(Byte, Fixed(2)), {{}, {256}, {1, 256}}, {<<2, 5, 0, 5, 0>>, <<2, 5, 0, 6>>}),
     MCItem(MapOf(Byte, Tuple(<<Byte, Byte>>)), {{}, {<<1, 2>>}, {<<1, 3>>, <<2, 2>>}}, {<<2, 1, 7, 1, 8>>}),
     MCItem(Optional(SetOf(Byte, Byte)), {<<>>, <<{}>>, <<{1, 2}>>}, {<<5, 1>>}),
     MCItem(Variant(<<Fixed(2), Optional(Byte)>>),
            {[index |-> 1, is |-> 9], [index |-> 2, is |-> <<>>], [index |-> 2, is |-> <<3>>]},
            {<<2, 0, 0>>, <<255>>}),
     MCItem(Tuple(<<Pointer(Byte), Array(2, Varint(1, FALSE))>>), {<<1, <<2, 200>>>>, <<0, <<0, 0>>>>}, {<<1, 2>>})>>

MCTexts == {<<"_", "/", "a", "_", "b">>, <<"5", "0", "K">>, <<"-", "1">>, <<"_">>, <<"9", "9">>}

Parts == {"sparse", "file", "archive", "pmem", "encoding", "welford", "tsc", "stopwatch",
          "serializer", "handles", "local", "runtime", "powers", "whole"}

Init ==
    /\ part \in Parts
    /\ IF part = "sparse" THEN SparseInit ELSE SparseIdle
    /\ IF part = "file" THEN FileInit ELSE FileIdle
    /\ IF part = "archive" THEN ArchiveInit ELSE ArchiveIdle
    /\ PmemInit /\ EncodingInit /\ WelfordInit /\ LocalInit
    /\ IF part = "tsc" THEN ClocksInit ELSE ClocksIdle
    /\ IF part = "serializer" THEN SerializerInit ELSE SerializerIdle
    /\ IF part = "handles" THEN HandlesInit ELSE HandlesIdle
    /\ IF part = "runtime" THEN RuntimeInit ELSE RuntimeIdle
    /\ IF part = "powers" THEN PowersInit ELSE PowersIdle
    /\ IF part = "whole" THEN WholeInit ELSE WholeIdle

\* Part p is in use, and the others stay as they are.
Only(p) ==
    /\ part = p /\ UNCHANGED part
    /\ IF p = "sparse" THEN TRUE ELSE UNCHANGED sparseVars
    /\ IF p = "file" THEN TRUE ELSE UNCHANGED fileVars
    /\ IF p = "archive" THEN TRUE ELSE UNCHANGED archiveVars
    /\ IF p = "pmem" THEN TRUE ELSE UNCHANGED pmemVars
    /\ IF p = "encoding" THEN TRUE ELSE UNCHANGED encodingVars
    /\ IF p = "welford" THEN TRUE ELSE UNCHANGED welfordVars
    /\ IF p \in {"tsc", "stopwatch"} THEN TRUE ELSE UNCHANGED clocksVars
    /\ IF p = "serializer" THEN TRUE ELSE UNCHANGED serializerVars
    /\ IF p = "handles" THEN TRUE ELSE UNCHANGED handlesVars
    /\ IF p = "local" THEN TRUE ELSE UNCHANGED localVars
    /\ IF p = "runtime" THEN TRUE ELSE UNCHANGED runtimeVars
    /\ IF p = "powers" THEN TRUE ELSE UNCHANGED powersVars
    /\ IF p = "whole" THEN TRUE ELSE UNCHANGED wholeVars

Next ==
    \/ Only("sparse") /\ TakeSlice
    \/ Only("file") /\ FileNext
    \/ Only("archive") /\ ArchiveNext
    \/ Only("pmem") /\ PmemNext
    \/ Only("encoding") /\ EncodingNext
    \/ Only("welford") /\ WelfordNext
    \/ Only("tsc") /\ TscNext
    \/ Only("stopwatch") /\ StopwatchNext
    \/ Only("serializer") /\ SerializerNext
    \/ Only("handles") /\ HandlesNext
    \/ Only("local") /\ LocalNext
    \/ Only("runtime") /\ RuntimeNext
    \/ Only("powers") /\ PowersNext
    \/ Only("whole") /\ WholeNext

Spec == Init /\ [][Next]_vars

Symmetry == Permutations(Objects)

-----------------------------------------------------------------------------
(* Properties. *)

\* What is opened or allocated belongs to one that will close or delete it.
OwnedOnce == DescriptorsOwned /\ ThreadsApart


\* Encoded streams decode to what was encoded, and powers and units are exact
\* where they are words.
NumbersExact == StreamDecodes /\ PowersExact

=============================================================================

------------------------------ MODULE MCSerdes ------------------------------
(* Struct types to serialise: the two of serdes.benchmark.cpp, and those   *)
(* that have variable integers, alone and in a vector, or a wide string.   *)
(* The byte sizes are the real ones; the lengths are small and on both     *)
(* sides of the first that takes two bytes.                                *)
EXTENDS Serdes

CONSTANTS
    Words,    \* the values of variable integers
    Seeds     \* what the bytes of plain values count up from

Plain(kind, bytes) == <<[kind |-> kind, bytes |-> bytes, lengths |-> {}]>>
Fundamental(bytes) == Plain("fundamental", bytes)
Enum(bytes) == Plain("enum", bytes)
VarInt == Plain("varint", 0)
Vector(t, lengths) == <<[kind |-> "vector", bytes |-> 0, lengths |-> lengths]>> \o t
String(bytes, lengths) ==
    <<[kind |-> "string", bytes |-> 0, lengths |-> lengths]>> \o Fundamental(bytes)

MyStructSimple == <<Fundamental(4), Fundamental(4), Fundamental(8), Enum(2)>>

MyStructComplex ==
    <<Fundamental(4), Fundamental(4), Enum(2),
      Vector(Fundamental(1), {0, 4}), String(1, {0, 1}), Vector(Fundamental(2), {1}),
      Vector(String(1, {0, 1}), {0, 2})>>

IntegerShape == <<Fundamental(2), VarInt, VarInt, Enum(2)>>
NestedShape == <<Vector(VarInt, {0, 2}), String(2, {0, 1, 4})>>

StringShape == <<String(2, {0, 1, 4}), Fundamental(2)>>

(* A struct type without the lengths to check it with.                     *)
ShapeOf(members) ==
    [i \in DOMAIN members |-> [n \in DOMAIN members[i] |->
        [kind |-> members[i][n].kind, bytes |-> members[i][n].bytes]]]

Cases == {MyStructSimple, MyStructComplex, IntegerShape, NestedShape, StringShape}
AllShapes == {ShapeOf(members) : members \in Cases}

(* The structs of a type: one choice at each of n places, together.        *)
Together(n, Of(_)) ==
    FoldLeft(LAMBDA vs, k : {v @@ w : v \in vs, w \in Of(k)}, {<< >>}, [k \in 1 .. n |-> k])

RECURSIVE ValuesAt(_, _, _, _)
ValuesAt(t, p, seed, words) ==
    LET level == t[Len(p)]
    IN  IF level.kind \in Fixed
        THEN {p :> [j \in 1 .. level.bytes |-> (seed + Last(p) + j) % (2 * Continuation)]}
        ELSE IF level.kind = "varint" THEN {p :> word : word \in words}
        ELSE UNION {{(p :> n) @@ v : v \in Together(n, LAMBDA k :
                        ValuesAt(t, Append(p, k), seed + Last(p), words))} :
                    n \in level.lengths}

StructsOf(seeds, words) ==
    [s \in AllShapes |->
        LET members == CHOOSE members \in Cases : ShapeOf(members) = s
        IN  UNION {Together(Len(s), LAMBDA i : ValuesAt(members[i], <<i>>, seed, words)) :
                   seed \in seeds}]

AllStructs == StructsOf(Seeds, Words)
AllTargets == StructsOf({0}, {0})

=============================================================================

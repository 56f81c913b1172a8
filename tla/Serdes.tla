------------------------------- MODULE Serdes -------------------------------
(***************************************************************************)
(* A struct on its way through Serialisable<T>: its minimum and its actual *)
(* size are calculated, it is written into a span of bytes                 *)
(* (libsmipc/serdes/serialise.hpp) and read from it into another struct of *)
(* the same type (deserialise.hpp).  Every one of these operations visits  *)
(* the members in the order processMembers() names them, and a vector or a *)
(* string's elements after the vector or string.                           *)
(***************************************************************************)
EXTENDS VariableInteger, SequencesExt

CONSTANTS
    Shapes,    \* the struct types
    Structs,   \* the structs of each type to serialise
    Targets,   \* the structs of each type to deserialise into
    Spans      \* the sizes of the spans given to serialiseInto()

(* A member's type is a sequence of levels, each with the size of a plain  *)
(* value: a vector's or a string's elements are of the next level.  A      *)
(* struct type is the sequence of its members' types.                      *)
Fixed == {"fundamental", "enum"}
Dynamic == {"vector", "string"}
Levels == [kind : Fixed \cup {"varint"} \cup Dynamic, bytes : Nat]

IsType(t) ==
    /\ t \in Seq(Levels) /\ t # << >>
    /\ \A n \in DOMAIN t :
         /\ t[n].kind \in Dynamic <=> n < Len(t)
         /\ t[n].kind = "string" => t[n + 1].kind = "fundamental"

(* A place in a struct is the path to it: <<i>> is member i, and           *)
(* Append(p, k) the k-th element of what is at p.                          *)
TypeAt(s, p) == s[p[1]][Len(p)]

(* A struct gives every place its value: the bytes of a plain value, the   *)
(* number in a variable integer, the length of a vector or a string.       *)
ValuesOf(t) == IF t.kind \in Fixed THEN [1 .. t.bytes -> ByteValues] ELSE IntegerValues

IsStruct(s, v) ==
    /\ v = [p \in DOMAIN v |-> v[p]] /\ \A i \in DOMAIN s : <<i>> \in DOMAIN v
    /\ \A p \in DOMAIN v :
         /\ p \in Seq(Nat) /\ p # << >>
         /\ p[1] \in DOMAIN s /\ Len(p) <= Len(s[p[1]])
         /\ v[p] \in ValuesOf(TypeAt(s, p))
         /\ TypeAt(s, p).kind \in Dynamic => \A k \in 1 .. v[p] : Append(p, k) \in DOMAIN v
         /\ \A n \in 1 .. Len(p) - 1 :
              SubSeq(p, 1, n) \in DOMAIN v /\ p[n + 1] \in 1 .. v[SubSeq(p, 1, n)]

ASSUME SerdesAssumption ==
    /\ \A s \in Shapes : s \in Seq(Seq(Levels)) /\ \A i \in DOMAIN s : IsType(s[i])
    /\ \A s \in Shapes : \A v \in Structs[s] \cup Targets[s] : IsStruct(s, v)
    /\ Spans \subseteq Nat

VARIABLES
    shape,     \* the struct's type
    sent,      \* the struct that is serialised
    got,       \* the struct that is deserialised into
    minimum,   \* m_size of CalculateMinimumSize
    size,      \* m_size of CalculateActualSize
    data,      \* the span
    pointer,   \* m_pointer of Serialise, then of Deserialise
    todo,      \* the places still to be visited
    mode       \* the operation, or how it ended

serdesVars == <<shape, sent, got, minimum, size, data, pointer, todo, mode>>

-----------------------------------------------------------------------------
(* The members, in the order processMembers() hands them to an operation,  *)
(* and the elements at a place.                                            *)
Members(s) == [i \in DOMAIN s |-> <<i>>]
Elements(s, v, p) ==
    IF TypeAt(s, p).kind \in Dynamic THEN [k \in 1 .. v[p] |-> Append(p, k)] ELSE << >>

(* CalculateMinimumSize takes every vector and string for an empty one.    *)
MinimumSizeOf(s, v, p) ==
    LET t == TypeAt(s, p)
    IN  IF t.kind \in Fixed THEN t.bytes
        ELSE IF t.kind \in Dynamic THEN EncodedSize(0) ELSE EncodedSize(v[p])

(* CalculateActualSize does not visit a string's elements.                 *)
CountsElements(t) == t.kind = "string"

(* Mutated form of ActualSizeOf: every character of a string is one byte.  *)
ActualSizeOfNarrow(s, v, p) ==
    LET t == TypeAt(s, p)
    IN  IF t.kind \in Fixed THEN t.bytes
        ELSE EncodedSize(v[p]) + (IF CountsElements(t) THEN v[p] ELSE 0)

ActualSizeOf(s, v, p) ==
    LET t == TypeAt(s, p)
    IN  IF t.kind \in Fixed THEN t.bytes
        ELSE EncodedSize(v[p])
             + (IF CountsElements(t) THEN s[p[1]][Len(p) + 1].bytes * v[p] ELSE 0)

(* Mutated form of ChecksDynamic: strings are overlooked.                  *)
ChecksDynamicButStrings(t) == t.kind \in {"vector", "varint"}
ChecksDynamic(t) == t.kind \in Dynamic \cup {"varint"}

isDynamic(s) == \E i \in DOMAIN s : ChecksDynamic(s[i][1])
isStatic(s) == ~isDynamic(s)

-----------------------------------------------------------------------------
Init ==
    /\ shape \in Shapes
    /\ sent \in Structs[shape] /\ got \in Targets[shape]
    /\ minimum = 0 /\ size = 0
    /\ data = << >> /\ pointer = 0
    /\ todo = Members(shape)
    /\ mode = "getMinimumSize"

AddMinimum ==
    /\ mode = "getMinimumSize" /\ todo # << >>
    /\ minimum' = minimum + MinimumSizeOf(shape, sent, Head(todo))
    /\ todo' = Tail(todo)
    /\ UNCHANGED <<shape, sent, got, size, data, pointer, mode>>

GetSize ==
    /\ mode = "getMinimumSize" /\ todo = << >>
    /\ mode' = "getSize"
    /\ todo' = Members(shape)
    /\ UNCHANGED <<shape, sent, got, minimum, size, data, pointer>>

AddSize ==
    /\ mode = "getSize" /\ todo # << >>
    /\ size' = size + ActualSizeOf(shape, sent, Head(todo))
    /\ todo' = (IF CountsElements(TypeAt(shape, Head(todo))) THEN << >>
                ELSE Elements(shape, sent, Head(todo))) \o Tail(todo)
    /\ UNCHANGED <<shape, sent, got, minimum, data, pointer, mode>>

(* serialise() makes room for getSize() bytes, serialiseInto() takes what  *)
(* it is given.                                                            *)
Begin ==
    /\ mode = "getSize" /\ todo = << >>
    /\ mode' = "serialise"
    /\ \E n \in Spans \cup {size} : data' = [j \in 1 .. n |-> 0]
    /\ pointer' = 0
    /\ todo' = Members(shape)
    /\ UNCHANGED <<shape, sent, got, minimum, size>>

(* The bytes of a plain value, and a variable integer for every other one. *)
Chunk(s, v, p) == IF TypeAt(s, p).kind \in Fixed THEN v[p] ELSE Encode(v[p])

(* Mutated form of HasRoom: the chunk is compared with the whole span.     *)
HasRoomAtAll(chunk) == Len(chunk) <= Len(data)
HasRoom(chunk) == pointer + Len(chunk) <= Len(data)

(* writeBytes()                                                            *)
Write ==
    /\ mode = "serialise" /\ todo # << >>
    /\ LET chunk == Chunk(shape, sent, Head(todo))
       IN  /\ HasRoom(chunk)
           /\ data' = [j \in DOMAIN data |->
                          IF j - pointer \in DOMAIN chunk THEN chunk[j - pointer] ELSE data[j]]
           /\ pointer' = pointer + Len(chunk)
    /\ todo' = Elements(shape, sent, Head(todo)) \o Tail(todo)
    /\ UNCHANGED <<shape, sent, got, minimum, size, mode>>

(* throw without an exception to rethrow ends the program; what has been   *)
(* written stays in the span.                                              *)
NoRoom ==
    /\ mode = "serialise" /\ todo # << >>
    /\ ~HasRoom(Chunk(shape, sent, Head(todo)))
    /\ mode' = "terminated"
    /\ UNCHANGED <<shape, sent, got, minimum, size, data, pointer, todo>>

-----------------------------------------------------------------------------
HandOver ==
    /\ mode = "serialise" /\ todo = << >>
    /\ mode' = "deserialise"
    /\ pointer' = 0
    /\ todo' = Members(shape)
    /\ UNCHANGED <<shape, sent, got, minimum, size, data>>

Left == SubSeq(data, pointer + 1, Len(data))

(* readBytes() of a plain value.                                           *)
ReadPlain(p, t) ==
    /\ t.kind \in Fixed /\ t.bytes <= Len(Left)
    /\ got' = [got EXCEPT ![p] = SubSeq(Left, 1, t.bytes)]
    /\ pointer' = pointer + t.bytes
    /\ UNCHANGED mode

(* A variable integer, or the length of a vector or string, of which no    *)
(* use is made: the elements visited are those the struct has already.     *)
ReadInteger(p, t) ==
    /\ t.kind \notin Fixed /\ Stops(Left) # {}
    /\ got' = IF t.kind = "varint" THEN [got EXCEPT ![p] = Decode(Left)] ELSE got
    /\ pointer' = pointer + Min(Stops(Left))
    /\ UNCHANGED mode

(* No read looks where the span ends.                                      *)
ReadBeyond(t) ==
    /\ IF t.kind \in Fixed THEN t.bytes > Len(Left) ELSE Stops(Left) = {}
    /\ mode' = "overread"
    /\ UNCHANGED <<got, pointer>>

Read ==
    /\ mode = "deserialise" /\ todo # << >>
    /\ LET p == Head(todo)  t == TypeAt(shape, p)
       IN  ReadPlain(p, t) \/ ReadInteger(p, t) \/ ReadBeyond(t)
    /\ todo' = Elements(shape, got, Head(todo)) \o Tail(todo)
    /\ UNCHANGED <<shape, sent, minimum, size, data>>

Finish ==
    /\ mode = "deserialise" /\ todo = << >>
    /\ mode' = "done"
    /\ UNCHANGED <<shape, sent, got, minimum, size, data, pointer, todo>>

Next ==
    \/ AddMinimum \/ GetSize \/ AddSize
    \/ Begin \/ Write \/ NoRoom
    \/ HandOver \/ Read \/ Finish

Spec == Init /\ [][Next]_serdesVars

-----------------------------------------------------------------------------
TypeOK ==
    /\ shape \in Shapes
    /\ IsStruct(shape, sent) /\ IsStruct(shape, got)
    /\ minimum \in Nat /\ size \in Nat
    /\ data \in Seq(ByteValues) /\ pointer \in 0 .. Len(data)
    /\ \/ /\ mode \in {"getMinimumSize", "getSize", "serialise", "terminated"}
          /\ todo \in Seq(DOMAIN sent)
       \/ /\ mode \in {"deserialise", "done", "overread"}
          /\ todo \in Seq(DOMAIN got)

(* getSize() is exactly what is written: serialise() never runs out of the *)
(* room it made and leaves none over, and serialiseInto() ends the program *)
(* only in a span that is smaller.                                         *)
SizeIsExact ==
    /\ mode = "terminated" => Len(data) < size
    /\ mode = "serialise" /\ todo = << >> => pointer = size

(* A struct that says it is static has one size whatever its values, so a  *)
(* span of getMinimumSize() holds it (serialisable.hpp:75-83, :124-132);   *)
(* of any other struct that is a lower bound.                              *)
MinimumHolds ==
    mode \notin {"getMinimumSize", "getSize"} =>
        minimum <= size /\ (isStatic(shape) => minimum = size)

LengthsAgree ==
    /\ DOMAIN got = DOMAIN sent
    /\ \A p \in DOMAIN sent : TypeAt(shape, p).kind \in Dynamic => got[p] = sent[p]

(* A struct whose vectors and strings are as long as those of the one that *)
(* was sent is read back as that, from exactly the bytes written, whatever *)
(* the sizes its integers and lengths took.                                *)
ReadBack ==
    LengthsAgree =>
        /\ mode # "overread"
        /\ mode = "done" => got = sent /\ pointer = size

(* deserialise() turns the bytes back into the struct that was serialised  *)
(* (serialisable.hpp:66, serdes.test.cpp:174-183), whatever the struct     *)
(* held before.                                                            *)
Deserialised == mode = "done" => got = sent

=============================================================================

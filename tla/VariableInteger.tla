--------------------------- MODULE VariableInteger ---------------------------
(***************************************************************************)
(* Unsigned integers in as few bytes as they need                          *)
(* (libsmipc/serdes/variable-integer.hpp): groups of low bits with a       *)
(* continuation bit each, lowest group first, and after all of them a last *)
(* byte without one.  The code has 8 groups of 7 bits on a little-endian   *)
(* machine.                                                                *)
(***************************************************************************)
EXTENDS Integers, FiniteSetsExt

CONSTANTS
    Continuation,   \* the continuation bit: 0x80; the bits below it are a group
    Groups          \* the groups before the last byte: 8

ASSUME IntegerAssumption == Continuation \in Nat /\ Continuation > 1 /\ Groups \in Nat \ {0}

(* What a group counts for, and the numbers a byte and an integer hold.    *)
Weight[i \in 0 .. Groups] == IF i = 0 THEN 1 ELSE Continuation * Weight[i - 1]
ByteValues == 0 .. 2 * Continuation - 1
IntegerValues == 0 .. 2 * Continuation * Weight[Groups] - 1

(* The value as it is shifted down, one group at a time.                   *)
Shifted(value) ==
    LET left[i \in 0 .. Groups] == IF i = 0 THEN value ELSE left[i - 1] \div Continuation
    IN  left

(* m_count: one byte, and one more for every continuation bit.             *)
EncodedSize(value) == 1 + Cardinality({i \in 1 .. Groups : Shifted(value)[i] # 0})

(* The last byte is what is left of the value, without a bit of its own.   *)
EncodedByte(value, i) ==
    IF i = Groups THEN Shifted(value)[i]
    ELSE (Shifted(value)[i] % Continuation)
         + (IF Shifted(value)[i + 1] # 0 THEN Continuation ELSE 0)

Encode(value) == [i \in 1 .. EncodedSize(value) |-> EncodedByte(value, i - 1)]

(* Reading: the integer ends with the first group that has no continuation *)
(* bit, or with the last byte.                                             *)
Stops(bytes) == {i \in DOMAIN bytes : bytes[i] < Continuation \/ i = Groups + 1}

(* Mutated form of Group: the last byte has a continuation bit, too.       *)
GroupMasked(bytes, i) == bytes[i] % Continuation
Group(bytes, i) == IF i = Groups + 1 THEN bytes[i] ELSE bytes[i] % Continuation

Decode(bytes) ==
    LET total[i \in 0 .. Min(Stops(bytes))] ==
            IF i = 0 THEN 0 ELSE total[i - 1] + Group(bytes, i) * Weight[i - 1]
    IN  total[Min(Stops(bytes))]

=============================================================================

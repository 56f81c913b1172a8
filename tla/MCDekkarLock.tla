---------------------------- MODULE MCDekkarLock ----------------------------
(* The instance of DekkarLock that is checked: one thread at each end.      *)
EXTENDS DekkarLock

CONSTANTS r1, t1

Pair == {r1, t1}
PairSides == [t \in Pair |-> IF t = r1 THEN "rx" ELSE "tx"]

Nobody == {}

=============================================================================

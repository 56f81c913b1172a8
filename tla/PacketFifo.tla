----------------------------- MODULE PacketFifo -----------------------------
(***************************************************************************)
(* What the two ends of a ring buffer promise their callers: a bounded     *)
(* first-in first-out queue of packets, whose operations answer as if it   *)
(* were the queue.  RingBuffer implements it in shared memory.             *)
(***************************************************************************)
EXTENDS Integers, Sequences

CONSTANTS
    Payloads,   \* what a caller can push: records with a "size"
    Capacity,   \* the room in the queue
    Room        \* the room a payload takes, a function of its size

VARIABLES
    queue,      \* the payloads sent and not yet received, oldest first
    taken,      \* the room they take
    result      \* the answer of the last call

fifoVars == <<queue, taken, result>>

Init ==
    /\ queue = << >>
    /\ taken = 0
    /\ result = [called |-> FALSE]

Answer(r) == result' = r /\ UNCHANGED <<queue, taken>>

Send(p) ==
    /\ p.size > 0
    /\ taken + Room[p.size] <= Capacity
    /\ queue' = Append(queue, p)
    /\ taken' = taken + Room[p.size]
    /\ result' = [push |-> p, answer |-> "stored"]

(* A payload that does not fit is refused and the queue is left alone.     *)
Refuse(p) ==
    /\ p.size > 0
    /\ taken + Room[p.size] > Capacity
    /\ Answer([push |-> p, answer |-> "overflow"])

(* An empty payload is accepted and dropped.                               *)
Drop(p) == p.size = 0 /\ Answer([push |-> p, answer |-> "ignored"])

Receive ==
    /\ queue # << >>
    /\ queue' = Tail(queue)
    /\ taken' = taken - Room[Head(queue).size]
    /\ result' = [pulled |-> Head(queue)]

ReceiveNothing == queue = << >> /\ Answer([noPackets |-> TRUE])

AskEmpty == Answer([isEmpty |-> queue = << >>])
AskCount == Answer([messageCount |-> Len(queue)])
AskFull == Answer([isFull |-> taken = Capacity])

Next ==
    \/ \E p \in Payloads : Send(p) \/ Refuse(p) \/ Drop(p)
    \/ Receive
    \/ ReceiveNothing
    \/ AskEmpty
    \/ AskCount
    \/ AskFull

Spec == Init /\ [][Next]_fifoVars

=============================================================================

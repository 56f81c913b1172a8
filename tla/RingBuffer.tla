----------------------------- MODULE RingBuffer -----------------------------
(***************************************************************************)
(* The ring of packets in shared memory, seen one call at a time: the      *)
(* constructor, push() and isFull() of the tx end                          *)
(* (libsmipc/ring-buffer/tx-ring-buffer.cpp) and pull(), isEmpty() and     *)
(* getMessageCount() of the rx end (rx-ring-buffer.cpp).  Each call holds  *)
(* the ring's lock, so here it is one step; LockedRing takes the calls     *)
(* apart.                                                                  *)
(***************************************************************************)
EXTENDS RingLayout, Sequences

CONSTANTS
    Ids,        \* transfer ids, which tell packets apart; 0 is no packet
    Sizes,      \* the payload sizes the program pushes
    Builds,     \* the builds of the program that are looked at: TRUE is debug
    Orderly     \* both ends are attached, once each, before the first call

ASSUME RingAssumption ==
    /\ Ids \subseteq Nat \ {0}
    /\ Sizes \subseteq Nat
    /\ {Orderly} \cup Builds \subseteq BOOLEAN

VARIABLES
    debug,         \* IsDebugBuild(): pull() wipes what it has read
    front,         \* RingBufferHeader: where the oldest packet starts,
    next,          \*     where the next packet goes,
    freeSpace,     \*     the bytes no packet takes
    messageCount,  \*     and the packets in the ring
    mem,           \* the data area
    attached,      \* the ends whose constructor has run
    overrun,       \* a copy went outside the data area
    pending,       \* history: the packets pushed and not yet pulled, each
                   \*     with its distance from front
    result         \* the answer of the last call

header == <<front, next, freeSpace, messageCount>>
ringVars == <<debug, header, mem, attached, overrun, pending, result>>

-----------------------------------------------------------------------------
(* Packets and their bytes.                                                *)

(* A packet object: who it is, its payload's size, and header.size.        *)
Packet(id, size, declared) == [id |-> id, size |-> size, declared |-> declared]

(* Packet(span) fills header.size from the payload.                        *)
Fresh(id, size) == Packet(id, size, U32(size))

(* The second word of a packet's header is its size field.                 *)
SizeField == Alignment .. 2 * Alignment - 1

(* A byte in the ring: whose it is, which of its bytes, and for a byte of  *)
(* the size field the value stored there.                                  *)
Byte(id, at, size) == [id |-> id, at |-> at, size |-> size]
Blank == Byte(0, 0, 0)

HeaderBytes(p) ==
    [i \in 0 .. HeaderSize - 1 |-> Byte(p.id, i, IF i \in SizeField THEN p.declared ELSE 0)]

DataBytes(p) == [i \in 0 .. p.size - 1 |-> Byte(p.id, HeaderSize + i, 0)]

Payload(p) == [id |-> p.id, size |-> p.size]

(* A call of push() and how it ended.                                      *)
Pushed(p, answer) == [push |-> Payload(p), answer |-> answer]

(* The values header.size can have when the size field is read from these  *)
(* bytes: payload bytes there can spell any number.                        *)
SizesRead(bytes) ==
    LET b == bytes[Alignment]
    IN  IF b = Blank THEN {0}
        ELSE IF b.at = Alignment THEN {b.size}
        ELSE 0 .. WordSize - 1

(* packet.header.size = 0, which pull() does in a debug build              *)
Returned(bytes) ==
    [i \in DOMAIN bytes |->
        IF debug /\ i \in SizeField THEN [bytes[i] EXCEPT !.size = 0] ELSE bytes[i]]

(* What pull() hands over for p: its header and its payload.               *)
Delivered(p) == [header |-> Returned(HeaderBytes(p)), data |-> DataBytes(p)]

-----------------------------------------------------------------------------
(* Attaching an end.                                                       *)

(* The memory of a new mapping is zero.                                    *)
Init ==
    /\ debug \in Builds
    /\ front = 0
    /\ next = 0
    /\ freeSpace = 0
    /\ messageCount = 0
    /\ mem = [a \in Addresses |-> Blank]
    /\ attached = {}
    /\ overrun = FALSE
    /\ pending = << >>
    /\ result = [called |-> FALSE]

Ends == {"rx", "tx"}

(* RingBuffer's constructor: it writes freeSpace and nothing else.         *)
Attach(end) ==
    /\ Orderly => end \notin attached
    /\ freeSpace' = DataSize
    /\ attached' = attached \cup {end}
    /\ UNCHANGED <<front, next, messageCount, mem, overrun, pending, result>>

(* A caller has an end to call.  After a copy out of bounds the program's  *)
(* behaviour is undefined and nothing more is said about it.               *)
Ready(end) ==
    /\ end \in attached
    /\ Orderly => attached = Ends
    /\ ~overrun

Answer(r) ==
    /\ result' = r
    /\ UNCHANGED <<header, mem, attached, overrun, pending>>

-----------------------------------------------------------------------------
(* TxRingBuffer                                                            *)

isFull == Ready("tx") /\ Answer([isFull |-> freeSpace <= 0])

(* Mutated forms of Fits: the packet's header is forgotten, or a packet    *)
(* that fills the ring exactly is refused.                                 *)
FitsPayload(size) == AlignedSize(U32(size)) <= freeSpace
FitsBelow(size) == PacketSize(size) < freeSpace

(* packetSize > freeSpace is an overflow.                                  *)
Fits(size) == PacketSize(size) <= freeSpace

PushNothing(p) == p.size = 0 /\ Answer(Pushed(p, "ignored"))

PushOverflow(p) ==
    /\ p.size # 0
    /\ ~Fits(p.size)
    /\ Answer(Pushed(p, "overflow"))

PushStore(p) ==
    LET size == U32(p.size)
        dataStart == Advance(next, HeaderSize)
        headerWraps == PushHeaderWraps(front, next)
        dataWraps == PushDataWraps(front, dataStart, size)
        copied == IF dataWraps THEN size ELSE p.size  \* else: begin to end
    IN  /\ p.size # 0
        /\ Fits(p.size)
        /\ next' = Advance(dataStart, AlignedSize(size))
        /\ freeSpace' = U32(freeSpace - HeaderSize - AlignedSize(size))
        /\ messageCount' = U32(messageCount + 1)
        /\ mem' = CopyIn(CopyIn(mem, next, headerWraps, HeaderBytes(p), HeaderSize),
                         dataStart, dataWraps, DataBytes(p), copied)
        /\ overrun' = ~(/\ InBounds(next, headerWraps, HeaderSize)
                        /\ InBounds(dataStart, dataWraps, copied))
        /\ pending' = Append(pending, [packet |-> p, offset |-> DataSize - freeSpace])
        /\ result' = Pushed(p, "stored")
        /\ UNCHANGED <<front, attached>>

push(p) == Ready("tx") /\ (PushNothing(p) \/ PushOverflow(p) \/ PushStore(p))

-----------------------------------------------------------------------------
(* RxRingBuffer                                                            *)

Empty == freeSpace = DataSize

isEmpty == Ready("rx") /\ Answer([isEmpty |-> Empty])

getMessageCount == Ready("rx") /\ Answer([messageCount |-> messageCount])

PullNothing == Empty /\ Answer([noPackets |-> TRUE])

(* A debug build zeroes the bytes it has copied out.                       *)
Wiped(m, start, wraps, len) == IF debug THEN Fill(m, start, wraps, len, Blank) ELSE m

(* The packets left once the oldest is gone, their distances from the new  *)
(* front.                                                                  *)
Rest(size) ==
    [i \in 1 .. Len(pending) - 1 |->
        [pending[i + 1] EXCEPT !.offset = @ - HeaderSize - AlignedSize(size)]]

(* With nothing left in the ring both positions go back to its beginning.  *)
Rewound(position, free) == IF free = DataSize THEN 0 ELSE position

PullTake ==
    LET headerWraps == PullWraps(front, HeaderSize)
        head == CopyOut(mem, front, headerWraps, HeaderSize)
        dataStart == Advance(front, HeaderSize)
    IN  /\ ~Empty
        /\ \E size \in SizesRead(head) :
             LET dataWraps == PullWraps(dataStart, size)
                 free == U32(freeSpace + HeaderSize + AlignedSize(size))
             IN  /\ front' = Rewound(Advance(dataStart, AlignedSize(size)), free)
                 /\ next' = Rewound(next, free)
                 /\ freeSpace' = free
                 /\ messageCount' = U32(messageCount - 1)
                 /\ mem' = Wiped(Wiped(mem, front, headerWraps, HeaderSize),
                                 dataStart, dataWraps, size)
                 /\ overrun' = ~(/\ InBounds(front, headerWraps, HeaderSize)
                                 /\ InBounds(dataStart, dataWraps, size))
                 /\ result' =
                      [pulled |-> [header |-> Returned(head),
                                   data   |-> CopyOut(mem, dataStart, dataWraps, size)]]
                 /\ pending' = Rest(size)
        /\ UNCHANGED attached

pull == Ready("rx") /\ (PullNothing \/ PullTake)

-----------------------------------------------------------------------------
(* The packet objects a program pushes: new ones.  One that pull() of a    *)
(* debug build returned says size 0 in its header and is not among them.   *)
FreshPackets == {Fresh(id, size) : id \in Ids, size \in Sizes}

Next ==
    /\ UNCHANGED debug
    /\ \/ \E end \in Ends : Attach(end)
       \/ \E p \in FreshPackets : push(p)
       \/ isFull
       \/ pull
       \/ isEmpty
       \/ getMessageCount

Spec == Init /\ [][Next]_ringVars

-----------------------------------------------------------------------------
(* Properties.                                                             *)

Bytes == [id : Ids \cup {0}, at : 0 .. HeaderSize + WordSize, size : 0 .. WordSize - 1]

TypeOK ==
    /\ {front, next} \subseteq Addresses
    /\ freeSpace \in 0 .. DataSize
    /\ messageCount \in 0 .. WordSize - 1
    /\ mem \in [Addresses -> Bytes]
    /\ attached \subseteq Ends
    /\ overrun \in BOOLEAN

Taken == IF attached = {} THEN 0 ELSE DataSize - freeSpace

(* The room a packet takes, in numbers that cannot overflow.               *)
Footprint(size) ==
    HeaderSize + size + ((Alignment - (size % Alignment)) % Alignment)

Extent(i) == Footprint(pending[i].packet.size)

(* The four numbers of the header agree with each other and with the       *)
(* packets in the ring: these lie one behind the other from front, fill    *)
(* exactly the room freeSpace leaves, end at next, and are as many as      *)
(* messageCount says, whatever order of pushes, pulls and wraps led here.  *)
HeaderDescribesRing ==
    /\ messageCount = Len(pending)
    /\ next = (front + Taken) % DataSize
    /\ pending = << >> => front = 0 /\ Taken = 0
    /\ \A i \in DOMAIN pending :
         /\ pending[i].offset = IF i = 1 THEN 0 ELSE pending[i - 1].offset + Extent(i - 1)
         /\ i = Len(pending) => Taken = pending[i].offset + Extent(i)

(* Where byte k of the i-th packet in the ring is, counted around the end. *)
Place(i, k) == (front + pending[i].offset + k) % DataSize

(* Every packet in the ring is whole: no later push, pull or wipe has      *)
(* touched a byte of its header or payload.                                *)
PacketsIntact ==
    \A i \in DOMAIN pending :
        LET p == pending[i].packet
        IN  /\ \A k \in 0 .. HeaderSize - 1 : mem[Place(i, k)] = HeaderBytes(p)[k]
            /\ \A k \in 0 .. p.size - 1 : mem[Place(i, HeaderSize + k)] = DataBytes(p)[k]

(* No copy or wipe of push() or pull() leaves the data area.               *)
CopiesInBounds == ~overrun

(* A debug build leaves nothing of a packet that has been pulled behind:   *)
(* whatever the wraps, every byte that is not of a packet in the ring is   *)
(* blank.                                                                  *)
PulledWiped ==
    debug =>
        \A a \in Addresses : mem[a] # Blank =>
            \E i \in DOMAIN pending :
                \E k \in 0 .. HeaderSize + pending[i].packet.size - 1 : a = Place(i, k)

(* The ring is a bounded first-in first-out queue: pull() hands over the   *)
(* oldest packet pushed, byte for byte, push() refuses a packet exactly    *)
(* when it does not fit, and the queries answer as the queue would.        *)
Payloads == {Payload(p) : p \in FreshPackets}

Decoded(delivered) ==
    IF \E p \in FreshPackets : delivered = Delivered(p)
    THEN Payload(CHOOSE p \in FreshPackets : delivered = Delivered(p))
    ELSE [id |-> 0, size |-> 0]

(* The queue and the answer callers see.                                   *)
Queue == [i \in DOMAIN pending |-> Payload(pending[i].packet)]
Room == [size \in Sizes |-> Footprint(size)]

Reply ==
    IF "pulled" \in DOMAIN result
    THEN [pulled |-> Decoded(result.pulled)] ELSE result

Fifo == INSTANCE PacketFifo WITH
    Capacity <- DataSize,
    queue    <- Queue,
    taken    <- Taken,
    result   <- Reply

FifoSpec == Fifo!Spec

(* The two ends operate independently (doc/design_notes.md:28-31): an end  *)
(* that attaches to a ring never makes the packets in it disappear.        *)
PacketsOutliveAttach ==
    [][\A end \in Ends : Attach(end) /\ pending # << >> => ~Empty']_ringVars

=============================================================================

----------------------------- MODULE LockedRing -----------------------------
(***************************************************************************)
(* The two ends of a ring at work: push() and pull() taken apart into the  *)
(* steps between which the other end can run, with DekkarLock around the   *)
(* accesses of the ring's header and data (tx-ring-buffer.cpp,             *)
(* rx-ring-buffer.cpp).  One thread uses each end; both ends are attached  *)
(* before the first call.  It implements RingBuffer, whose calls are one   *)
(* step each.                                                              *)
(***************************************************************************)
EXTENDS RingLayout, Sequences

CONSTANTS Ids, Sizes, Builds    \* as in RingBuffer

ASSUME LockedAssumption ==
    /\ Ids \subseteq Nat \ {0}
    /\ Sizes \subseteq Nat
    /\ Builds \subseteq BOOLEAN

VARIABLES
    debug,            \* the build of the program, as in RingBuffer
    flag, turn, pc,   \* the lock (DekkarLock); its threads are the two ends
    ring,             \* the ring's header: front, next, freeSpace, messageCount
    mem,              \* the data area
    at,               \* how far each end is in its call
    call,             \* the call it is in
    tmp,              \* its local copy of the header
    got,              \* the packet pull() is putting together
    done              \* history: the ring and the answer of the last call that
                      \* finished, as RingBuffer sees them

Ends == {"rx", "tx"}

Lock == INSTANCE DekkarLock WITH
    Threads <- Ends, SideOf <- [end \in Ends |-> end], TryLockers <- {}, Mortal <- {}

Ring == INSTANCE RingBuffer WITH
    Orderly      <- TRUE,
    front        <- done.ring.front,
    next         <- done.ring.next,
    freeSpace    <- done.ring.freeSpace,
    messageCount <- done.ring.messageCount,
    mem          <- done.mem,
    attached     <- {end \in Ends : at[end] # "detached"},
    overrun      <- FALSE,
    pending      <- done.pending,
    result       <- done.result

lockVars == <<flag, turn, pc>>
lockedVars == <<debug, lockVars, ring, mem, at, call, tmp, got, done>>

NoPacket == [header |-> << >>, data |-> << >>]
NoCall == [op |-> "none"]
ZeroHeader == [front |-> 0, next |-> 0, freeSpace |-> 0, messageCount |-> 0]

(* A push, the queries, and pull(), which looks for a packet and takes it  *)
(* under two holds of the lock.                                            *)
Calls(end) ==
    IF end = "tx"
    THEN [op : {"push"}, packet : Ring!FreshPackets] \cup [op : {"isFull"}]
    ELSE [op : {"isEmpty", "getMessageCount", "pull"}]

Init ==
    /\ debug \in Builds
    /\ Lock!Init
    /\ ring = ZeroHeader
    /\ mem = [a \in Addresses |-> Ring!Blank]
    /\ at = [end \in Ends |-> "detached"]
    /\ call = [end \in Ends |-> NoCall]
    /\ tmp = [end \in Ends |-> ZeroHeader]
    /\ got = NoPacket
    /\ done = [ring |-> ring, mem |-> mem, pending |-> << >>, result |-> [called |-> FALSE]]

-----------------------------------------------------------------------------
(* The steps' common shapes.                                               *)

Move(end, from, to) == at[end] = from /\ at' = [at EXCEPT ![end] = to]

(* The call has its effect: the ring is what the step makes it.            *)
Finish(pending, result) ==
    done' = [ring |-> ring', mem |-> mem', pending |-> pending, result |-> result]

Answer(result) == done' = [done EXCEPT !.result = result] /\ UNCHANGED <<ring, mem>>

-----------------------------------------------------------------------------
(* Entering and leaving a call.                                            *)

(* The constructor writes freeSpace without the lock.                      *)
Attach(end) ==
    /\ Move(end, "detached", "out")
    /\ ring' = [ring EXCEPT !.freeSpace = DataSize]
    /\ UNCHANGED <<lockVars, mem, call, tmp, got>>
    /\ Finish(done.pending, done.result)

Begin(end) ==
    /\ \A other \in Ends : at[other] # "detached"
    /\ Move(end, "out", "lock")
    /\ \E c \in Calls(end) :
         /\ c.op = "push" => c.packet.size # 0
         /\ call' = [call EXCEPT ![end] = c]
    /\ UNCHANGED <<lockVars, ring, mem, tmp, got, done>>

(* A push of nothing returns before it takes the lock.                     *)
PushNothing ==
    /\ \A other \in Ends : at[other] # "detached"
    /\ at["tx"] = "out"
    /\ \E p \in Ring!FreshPackets :
         /\ p.size = 0
         /\ done' = [done EXCEPT !.result = Ring!Pushed(p, "ignored")]
    /\ UNCHANGED <<lockVars, ring, mem, at, call, tmp, got>>

(* m_lock.lock(), by the std::lock_guard                                   *)
Locking(end) ==
    /\ at[end] = "lock"
    /\ Lock!LockRaise(end) \/ Lock!LockRest(end)
    /\ at' = IF pc'[end] = "held" THEN [at EXCEPT ![end] = "enter"] ELSE at
    /\ UNCHANGED <<ring, mem, call, tmp, got, done>>

(* The std::lock_guard's destructor, also when the call throws.            *)
Unlocking(end) ==
    /\ at[end] = "unlock"
    /\ Lock!UnlockTurn(end)
    /\ UNCHANGED <<ring, mem, at, call, tmp, got, done>>

(* The call is over and its locals are gone, or it is pull(), which has    *)
(* seen that there is a packet and takes the lock again.                   *)
Unlocked(end) ==
    /\ at[end] = "unlock"
    /\ Lock!UnlockFlag(end)
    /\ IF call[end].op = "take"
       THEN Move(end, "unlock", "lock") /\ UNCHANGED <<call, tmp, got>>
       ELSE /\ Move(end, "unlock", "out")
            /\ call' = [call EXCEPT ![end] = NoCall]
            /\ tmp' = [tmp EXCEPT ![end] = ZeroHeader]
            /\ got' = IF end = "rx" THEN NoPacket ELSE got
    /\ UNCHANGED <<ring, mem, done>>

-----------------------------------------------------------------------------
(* The queries: one read under the lock.                                   *)

Query(end) ==
    /\ Move(end, "enter", "unlock")
    /\ \/ /\ call[end].op = "isFull"
          /\ Answer([isFull |-> ring.freeSpace <= 0])
       \/ /\ call[end].op = "isEmpty"
          /\ Answer([isEmpty |-> ring.freeSpace = DataSize])
       \/ /\ call[end].op = "getMessageCount"
          /\ Answer([messageCount |-> ring.messageCount])
    /\ UNCHANGED <<lockVars, call, tmp, got>>

-----------------------------------------------------------------------------
(* push()                                                                  *)

(* Mutated form of PushRead: a push that does not fit empties the ring.    *)
PushReadMakesRoom ==
    /\ call["tx"].op = "push"
    /\ tmp' = [tmp EXCEPT !["tx"] = ring]
    /\ IF Ring!PacketSize(call["tx"].packet.size) <= ring.freeSpace
       THEN /\ Move("tx", "enter", "publish")
            /\ UNCHANGED <<ring, mem, done>>
       ELSE /\ Move("tx", "enter", "unlock")
            /\ ring' = [ZeroHeader EXCEPT !.freeSpace = DataSize]
            /\ UNCHANGED mem
            /\ Finish(<< >>, Ring!Pushed(call["tx"].packet, "overflow"))
    /\ UNCHANGED <<lockVars, call, got>>

(* Mutated form of PushRead: the room is taken before the check.           *)
PushReadTakesRoomFirst ==
    LET room == Ring!PacketSize(call["tx"].packet.size)
    IN  /\ call["tx"].op = "push"
        /\ tmp' = [tmp EXCEPT !["tx"] = ring]
        /\ IF room <= ring.freeSpace
           THEN /\ Move("tx", "enter", "publish")
                /\ UNCHANGED <<ring, done>>
           ELSE /\ Move("tx", "enter", "unlock")
                /\ ring' = [ring EXCEPT !.freeSpace = U32(@ - room)]
                /\ done' = [done EXCEPT !.result = Ring!Pushed(call["tx"].packet, "overflow")]
        /\ UNCHANGED <<lockVars, mem, call, got>>

(* The header is read, and the packet refused when it does not fit.        *)
PushRead ==
    /\ call["tx"].op = "push"
    /\ tmp' = [tmp EXCEPT !["tx"] = ring]
    /\ IF Ring!PacketSize(call["tx"].packet.size) <= ring.freeSpace
       THEN /\ Move("tx", "enter", "publish")
            /\ UNCHANGED <<ring, mem, done>>
       ELSE Move("tx", "enter", "unlock") /\ Answer(Ring!Pushed(call["tx"].packet, "overflow"))
    /\ UNCHANGED <<lockVars, call, got>>

(* Mutated form of PushPublish: the lock goes with the publication, as the *)
(* comment in the code has it.                                             *)
PushPublishUnlocks ==
    LET size == U32(call["tx"].packet.size)
        dataStart == Advance(tmp["tx"].next, HeaderSize)
    IN  /\ Move("tx", "publish", "copyHeader")
        /\ ring' = [front        |-> tmp["tx"].front,
                    next         |-> Advance(dataStart, AlignedSize(size)),
                    freeSpace    |-> U32(tmp["tx"].freeSpace - HeaderSize - AlignedSize(size)),
                    messageCount |-> U32(tmp["tx"].messageCount + 1)]
        /\ flag' = [flag EXCEPT !["tx"] = FALSE]
        /\ turn' = TRUE
        /\ UNCHANGED <<pc, mem, call, tmp, got, done>>

(* The header is written before the packet is in the ring.                 *)
PushPublish ==
    LET size == U32(call["tx"].packet.size)
        dataStart == Advance(tmp["tx"].next, HeaderSize)
    IN  /\ Move("tx", "publish", "copyHeader")
        /\ ring' = [front        |-> tmp["tx"].front,
                    next         |-> Advance(dataStart, AlignedSize(size)),
                    freeSpace    |-> U32(tmp["tx"].freeSpace - HeaderSize - AlignedSize(size)),
                    messageCount |-> U32(tmp["tx"].messageCount + 1)]
        /\ UNCHANGED <<lockVars, mem, call, tmp, got, done>>

PushHeader ==
    LET h == tmp["tx"]
    IN  /\ Move("tx", "copyHeader", "copyData")
        /\ mem' = CopyIn(mem, h.next, PushHeaderWraps(h.front, h.next),
                         Ring!HeaderBytes(call["tx"].packet), HeaderSize)
        /\ UNCHANGED <<lockVars, ring, call, tmp, got, done>>

PushData ==
    LET h == tmp["tx"]
        p == call["tx"].packet
        dataStart == Advance(h.next, HeaderSize)
        wraps == PushDataWraps(h.front, dataStart, U32(p.size))
    IN  /\ Move("tx", "copyData", "unlock")
        /\ mem' = CopyIn(mem, dataStart, wraps, Ring!DataBytes(p),
                         IF wraps THEN U32(p.size) ELSE p.size)
        /\ UNCHANGED <<lockVars, ring, call, tmp, got>>
        /\ Finish(Append(done.pending,
                         [packet |-> p, offset |-> DataSize - h.freeSpace]),
                  Ring!Pushed(p, "stored"))

-----------------------------------------------------------------------------
(* pull()                                                                  *)

(* isEmpty(), under a hold of the lock of its own                          *)
PullCheck ==
    /\ call["rx"].op = "pull"
    /\ Move("rx", "enter", "unlock")
    /\ IF ring.freeSpace = DataSize
       THEN Answer([noPackets |-> TRUE]) /\ UNCHANGED call
       ELSE call' = [call EXCEPT !["rx"].op = "take"] /\ UNCHANGED <<ring, mem, done>>
    /\ UNCHANGED <<lockVars, tmp, got>>

PullRead ==
    /\ call["rx"].op = "take"
    /\ Move("rx", "enter", "takeHeader")
    /\ tmp' = [tmp EXCEPT !["rx"] = ring]
    /\ UNCHANGED <<lockVars, ring, mem, call, got, done>>

(* The header is copied and wiped, and the local header moved past it.     *)
PullHeader ==
    LET h == tmp["rx"]
        wraps == PullWraps(h.front, HeaderSize)
    IN  /\ Move("rx", "takeHeader", "takeData")
        /\ got' = [NoPacket EXCEPT !.header = CopyOut(mem, h.front, wraps, HeaderSize)]
        /\ mem' = Ring!Wiped(mem, h.front, wraps, HeaderSize)
        /\ tmp' = [tmp EXCEPT !["rx"].front = Advance(h.front, HeaderSize),
                              !["rx"].freeSpace = U32(h.freeSpace + HeaderSize)]
        /\ UNCHANGED <<lockVars, ring, call, done>>

(* The payload, as long as the header says, is copied and wiped.           *)
PullData ==
    LET h == tmp["rx"]
    IN  /\ Move("rx", "takeData", "takeStore")
        /\ \E size \in Ring!SizesRead(got.header) :
             LET wraps == PullWraps(h.front, size)
                 free == U32(h.freeSpace + AlignedSize(size))
             IN  /\ got' = [header |-> Ring!Returned(got.header),
                            data   |-> CopyOut(mem, h.front, wraps, size)]
                 /\ mem' = Ring!Wiped(mem, h.front, wraps, size)
                 /\ tmp' = [tmp EXCEPT !["rx"] =
                       [front        |-> Ring!Rewound(Advance(h.front, AlignedSize(size)), free),
                        next         |-> Ring!Rewound(h.next, free),
                        freeSpace    |-> free,
                        messageCount |-> U32(h.messageCount - 1)]]
        /\ UNCHANGED <<lockVars, ring, call, done>>

PullStore ==
    /\ Move("rx", "takeStore", "unlock")
    /\ ring' = tmp["rx"]
    /\ call' = [call EXCEPT !["rx"].op = "taken"]
    /\ UNCHANGED <<lockVars, mem, tmp, got>>
    /\ Finish(LET freed == tmp["rx"].freeSpace - done.ring.freeSpace
              IN  [i \in 1 .. Len(done.pending) - 1 |->
                      [done.pending[i + 1] EXCEPT !.offset = @ - freed]],
              [pulled |-> got])

-----------------------------------------------------------------------------
Next ==
    /\ UNCHANGED debug
    /\ \/ \E end \in Ends :
            Attach(end) \/ Begin(end) \/ Locking(end) \/ Query(end) \/ Unlocking(end) \/ Unlocked(end)
       \/ PushNothing
       \/ PushRead
       \/ PushPublish
       \/ PushHeader
       \/ PushData
       \/ PullCheck
       \/ PullRead
       \/ PullHeader
       \/ PullData
       \/ PullStore

Spec == Init /\ [][Next]_lockedVars

-----------------------------------------------------------------------------
(* Properties.                                                             *)

(* Every interleaving of the two ends' steps is a sequence of whole calls: *)
(* no push or pull is ever seen half done, although push() announces its   *)
(* packet in the ring's header before the packet's bytes are there.        *)
CallsAtomic == Ring!Spec

(* pull() looks for a packet, lets go of the lock and takes it again       *)
(* before it reads the packet.  The packet it saw is still there then.     *)
CheckStillHolds ==
    call["rx"].op = "take" /\ at["rx"] \in {"lock", "enter"} =>
        done.pending # << >> /\ ring.freeSpace # DataSize

(* Whoever leaves the lock - a query, a finished call, or a push() that    *)
(* throws - leaves the ring as the last finished call made it.             *)
NothingHalfDone ==
    (\A end \in Ends : at[end] \in {"detached", "out", "lock", "unlock"}) =>
        ring = done.ring /\ mem = done.mem

=============================================================================

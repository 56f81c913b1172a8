--------------------------- MODULE SharedMemoryPipe ---------------------------
(***************************************************************************)
(* A connection: a pair of segments, ".rx" and ".tx", with a ring buffer   *)
(* in each.  The server creates both and a client opens both with the      *)
(* names exchanged (shared-memory/shared-memory-pipe.hpp,                  *)
(* rx-shared-memory-pipe.hpp, tx-shared-memory-pipe.hpp).  A step is one   *)
(* call of a segment or of a ring; what happens inside these calls is in   *)
(* WindowsSharedMemory, PosixSharedMemory and RingBuffer.  A name lives as *)
(* long as a handle does, as on Windows, where the rings are aligned.      *)
(***************************************************************************)
EXTENDS Integers, FiniteSets, Sequences

CONSTANTS
    Server,       \* the process that creates the pipe, again and again
    Clients,      \* the processes that open it
    Mortal,       \* the processes that may be killed between two steps
    Orderly,      \* nobody writes before both ends are there, nobody makes a pipe
                  \* of rings with packets in them or creates a segment in use,
                  \* one client at a time
    Faults,       \* create and open may fail
    DataOffset,   \* kSharedMemoryViewDataOffset: where the ring begins
    Alignment,    \* kAlignment
    RingHeader,   \* sizeof(RingBufferHeader)
    MaxRing,      \* the largest ring
    Sizes,        \* the sizes asked of CreateSharedMemoryPipe()
    PacketRoom,   \* the room a packet takes in a ring
    MaxWrites,    \* bound: packets an end writes
    MaxLost       \* bound: references never given back in a segment

Processes == {Server} \cup Clients
Names == {"rx", "tx"}

ASSUME PipeAssumption ==
    /\ Server \notin Clients /\ IsFiniteSet(Clients) /\ Mortal \subseteq Processes
    /\ Orderly \in BOOLEAN /\ Faults \subseteq {"create", "open"}
    /\ Sizes \subseteq Nat \ {0}
    /\ {DataOffset, RingHeader, MaxRing, PacketRoom, Alignment} \subseteq Nat \ {0}
    /\ {MaxWrites, MaxLost} \subseteq Nat

VARIABLES
    segs,    \* the segments: bytes (0: there is none), size as its header tells it,
             \* refCount, the processes that forgot a handle of it, the ring
             \* (freeSpace, messageCount, packets); and, as a history, the
             \* references that nobody will give back
    at,      \* how far each process is in making or ending its pipe
    wrote,   \* history: the packets each process has written since the last
             \* client began to open the pipe
    got      \* history: and those it has read

pipeVars == <<segs, at, wrote, got>>

NoSegment ==
    [bytes |-> 0, size |-> 0, refCount |-> 0, forgotBy |-> {}, lost |-> 0,
     freeSpace |-> 0, messageCount |-> 0, packets |-> << >>]

Init ==
    /\ segs = [n \in Names |-> NoSegment]
    /\ at = [p \in Processes |-> "none"]
    /\ wrote = [p \in Processes |-> << >>]
    /\ got = [p \in Processes |-> << >>]

-----------------------------------------------------------------------------
(* The server reads what comes in on ".rx"; a client, on ".tx".            *)
RxNameUncrossed(p) == "rx"    \* mutant: the client opens the names as they are
RxName(p) == IF p = Server THEN "rx" ELSE "tx"
TxName(p) == CHOOSE n \in Names : n # RxName(p)

(* Both functions get the segment of the rx end first.                     *)
FirstNameOfTx(p) == TxName(p)    \* mutant: that of the tx end first
FirstName(p) == RxName(p)
SecondName(p) == CHOOSE n \in Names : n # FirstName(p)

(* Which segments the parts of a pipe hold, a pipe in the making included. *)
HoldsBoth == {"attachRx", "attachTx", "ready"}
Holds(p, n) ==
    \/ at[p] \in HoldsBoth
    \/ at[p] = "second" /\ n = FirstName(p)
    \/ at[p] = "closeRx" /\ n = RxName(p)
Holders(n) == {p \in Processes : Holds(p, n)}

Exists(n) == segs[n].bytes > 0
Move(p, from, to) == at[p] \in from /\ at' = [at EXCEPT ![p] = to]
Idle == {"none", "threw"}

(* A segment goes with the last handle of it.                              *)
Settle(f) ==
    segs' = [n \in Names |->
                IF Holders(n)' = {} /\ f[n].forgotBy = {} THEN NoSegment ELSE f[n]]

(* p's ends of the segments in ns are destroyed without a close(): the     *)
(* base class has no destructor that closes, so the handle stays open as   *)
(* long as the process lives, and the reference is never given back.       *)
Forgets(p, ns) ==
    [n \in Names |-> IF n \in ns THEN [segs[n] EXCEPT !.forgotBy = @ \cup {p}, !.lost = @ + 1]
                                 ELSE segs[n]]
MayForget(ns) == \A n \in ns : segs[n].lost < MaxLost

(* create(): the segment's header is written anew, be the segment a new    *)
(* one or one that somebody forgot, whose bytes it keeps.                  *)
Created(n, size) ==
    [segs EXCEPT ![n].bytes = IF @ = 0 THEN size ELSE @, ![n].size = size,
                 ![n].refCount = 1, ![n].lost = 0]
Opened(n) == [segs EXCEPT ![n].refCount = @ + 1]
Closed(n) == [segs EXCEPT ![n].refCount = IF @ > 0 THEN @ - 1 ELSE @]

RingsEmpty == \A n \in Names : segs[n].packets = << >>
CanCreate(n, size) == Exists(n) => size <= segs[n].bytes

-----------------------------------------------------------------------------
(* CreateSharedMemoryPipe() and OpenSharedMemoryPipe().                    *)

Fresh(ps) ==
    /\ wrote' = [p \in Processes |-> IF p \in ps THEN << >> ELSE wrote[p]]
    /\ got' = [p \in Processes |-> IF p \in ps THEN << >> ELSE got[p]]
Keep == UNCHANGED <<wrote, got>>

CreateFirst(size) ==
    /\ CanCreate(FirstName(Server), size)
    /\ Orderly => RingsEmpty /\ \A n \in Names : Holders(n) = {}
    /\ Move(Server, Idle, "second")
    /\ segs' = Created(FirstName(Server), size)
    /\ Fresh({Server})

CreateSecond(size) ==
    /\ CanCreate(SecondName(Server), size) /\ size = segs[FirstName(Server)].size
    /\ Orderly => Holders(SecondName(Server)) = {}
    /\ Move(Server, {"second"}, "attachRx")
    /\ segs' = Created(SecondName(Server), size)
    /\ Keep

OpenFirst(c) ==
    /\ Exists(FirstName(c))
    /\ Orderly => RingsEmpty /\ \A n \in Names : Holders(n) \subseteq {Server}
    /\ Move(c, Idle, "second")
    /\ segs' = Opened(FirstName(c))
    /\ Fresh(Processes)

OpenSecond(c) ==
    /\ Exists(SecondName(c))
    /\ Move(c, {"second"}, "attachRx")
    /\ segs' = Opened(SecondName(c))
    /\ Keep

(* The second segment cannot be had: the exception destroys the first one. *)
SecondFails(p) ==
    /\ \/ p = Server /\ ("create" \in Faults \/ ~CanCreate(SecondName(p), segs[FirstName(p)].size))
       \/ p \in Clients /\ (~Exists(SecondName(p)) \/ "open" \in Faults)
    /\ MayForget({FirstName(p)})
    /\ Move(p, {"second"}, "none")
    /\ Settle(Forgets(p, {FirstName(p)}))
    /\ Keep

(* RingBuffer::RingBuffer(): what it asks of the memory and of the size it *)
(* is given, which is the whole segment's, and what it writes.             *)
RingAccepts(size) ==
    DataOffset % Alignment = 0 /\ size % Alignment = 0 /\ size > RingHeader /\ size <= MaxRing
getMemoryBlockSize(n) == segs[n].size
DataSize(n) == getMemoryBlockSize(n) - RingHeader
Attach(n) == segs' = [segs EXCEPT ![n].freeSpace = DataSize(n)]

AttachRx(p) ==
    /\ RingAccepts(segs[RxName(p)].size)
    /\ Move(p, {"attachRx"}, "attachTx")
    /\ Attach(RxName(p))
    /\ Keep

AttachTxToRx(p) ==    \* mutant: the second ring is made on the first one's memory
    /\ RingAccepts(segs[TxName(p)].size)
    /\ Move(p, {"attachTx"}, "ready")
    /\ Attach(RxName(p))
    /\ Keep
AttachTx(p) ==
    /\ RingAccepts(segs[TxName(p)].size)
    /\ Move(p, {"attachTx"}, "ready")
    /\ Attach(TxName(p))
    /\ Keep

(* The first ring throws: neither of the pipe's ends is there to close().  *)
RingThrows(p) ==
    /\ ~RingAccepts(segs[RxName(p)].size)
    /\ MayForget(Names)
    /\ Move(p, {"attachRx"}, "threw")
    /\ Settle(Forgets(p, Names))
    /\ Keep

(* The second ring throws, which has another size than the first when the  *)
(* two segments come from different pipes: the rx end is there, and is     *)
(* destroyed.                                                              *)
SecondRingThrows(p) ==
    /\ ~RingAccepts(segs[TxName(p)].size)
    /\ MayForget({TxName(p)})
    /\ Move(p, {"attachTx"}, "closeRx")
    /\ Settle(Forgets(p, {TxName(p)}))
    /\ Keep

-----------------------------------------------------------------------------
(* write(), read() and the destructor.                                     *)

BothReady == at[Server] = "ready" /\ \E c \in Clients : at[c] = "ready"
Packet(p) == [from |-> p, number |-> Len(wrote[p]) + 1]

(* push() throws when the packet does not fit.                             *)
WriteOverflow(p) ==
    /\ at[p] = "ready" /\ segs[TxName(p)].freeSpace < PacketRoom
    /\ UNCHANGED pipeVars

WriteAnyhow(p) ==    \* mutant: the room is not looked at
    /\ at[p] = "ready" /\ Len(wrote[p]) < MaxWrites
    /\ Orderly => BothReady
    /\ segs' = [segs EXCEPT ![TxName(p)].packets = Append(@, Packet(p)),
                            ![TxName(p)].freeSpace = @ - PacketRoom,
                            ![TxName(p)].messageCount = @ + 1]
    /\ wrote' = [wrote EXCEPT ![p] = Append(@, Packet(p))]
    /\ UNCHANGED <<at, got>>
Write(p) ==
    /\ at[p] = "ready" /\ Len(wrote[p]) < MaxWrites
    /\ Orderly => BothReady
    /\ segs[TxName(p)].freeSpace >= PacketRoom
    /\ segs' = [segs EXCEPT ![TxName(p)].packets = Append(@, Packet(p)),
                            ![TxName(p)].freeSpace = @ - PacketRoom,
                            ![TxName(p)].messageCount = @ + 1]
    /\ wrote' = [wrote EXCEPT ![p] = Append(@, Packet(p))]
    /\ UNCHANGED <<at, got>>

(* A ring whose space is all free is empty to pull().                      *)
ReadEmpty(n) == segs[n].freeSpace = DataSize(n)
ReadNothing(p) == at[p] = "ready" /\ ReadEmpty(RxName(p)) /\ UNCHANGED pipeVars

Read(p) ==
    /\ at[p] = "ready" /\ ~ReadEmpty(RxName(p))
    /\ segs' = [segs EXCEPT ![RxName(p)].packets = Tail(@),
                            ![RxName(p)].freeSpace = @ + PacketRoom,
                            ![RxName(p)].messageCount = @ - 1]
    /\ got' = [got EXCEPT ![p] = Append(@, Head(segs[RxName(p)].packets))]
    /\ UNCHANGED <<at, wrote>>

(* ~SharedMemoryPipe(): the tx end is destroyed first, then the rx end.    *)
CloseTx(p) ==
    /\ Move(p, {"ready"}, "closeRx")
    /\ Settle(Closed(TxName(p)))
    /\ Keep
CloseRxOnly(p) ==    \* mutant: the rx end's destructor does not give its reference back
    /\ Move(p, {"closeRx"}, "none")
    /\ Settle(segs)
    /\ Keep
CloseRx(p) ==
    /\ Move(p, {"closeRx"}, "none")
    /\ Settle(Closed(RxName(p)))
    /\ Keep

(* A process ends, and starts again: its handles go, its references stay.  *)
Kill(p) ==
    /\ p \in Mortal
    /\ \A n \in Names : Holds(p, n) => segs[n].lost < MaxLost
    /\ Move(p, {at[p]}, "none")
    /\ Settle([n \in Names |-> [segs[n] EXCEPT !.lost = @ + (IF Holds(p, n) THEN 1 ELSE 0),
                                               !.forgotBy = @ \ {p}]])
    /\ Keep

-----------------------------------------------------------------------------
Next ==
    \/ \E size \in Sizes : CreateFirst(size) \/ CreateSecond(size)
    \/ \E c \in Clients : OpenFirst(c) \/ OpenSecond(c)
    \/ \E p \in Processes :
         \/ SecondFails(p) \/ AttachRx(p) \/ AttachTx(p)
         \/ RingThrows(p) \/ SecondRingThrows(p)
         \/ Write(p) \/ WriteOverflow(p) \/ Read(p) \/ ReadNothing(p)
         \/ CloseTx(p) \/ CloseRx(p) \/ Kill(p)

Spec == Init /\ [][Next]_pipeVars

-----------------------------------------------------------------------------
Packets == [from : Processes, number : 1 .. MaxWrites]

TypeOK ==
    /\ segs \in [Names -> [bytes : {0} \cup Sizes, size : {0} \cup Sizes, refCount : Nat,
                           forgotBy : SUBSET Processes, lost : 0 .. MaxLost,
                           freeSpace : Nat, messageCount : Nat, packets : Seq(Packets)]]
    /\ at \in [Processes -> Idle \cup HoldsBoth \cup {"second", "closeRx"}]
    /\ wrote \in [Processes -> Seq(Packets)] /\ got \in [Processes -> Seq(Packets)]

(* The reference count of a segment is the number of pipes that hold it,   *)
(* those in the making included (shared-memory.test.cpp:42, :75, :105),    *)
(* plus the references of calls that threw and of processes that died.     *)
RefCounts == \A n \in Names : segs[n].refCount = Cardinality(Holders(n)) + segs[n].lost

(* A client that found the first segment while the server holds it finds   *)
(* the second one as well: the server makes the one that clients open last *)
(* before the one that they open first (shared-memory-pipe.hpp:80-81,      *)
(* :90-91), and drops them the other way round.                            *)
OpenFindsBoth ==
    \A c \in Clients : at[c] = "second" /\ Holds(Server, FirstName(c)) => Exists(SecondName(c))

(* The header of each ring that is in use agrees with the packets in it,   *)
(* whoever has attached to it and left it in the meantime.                 *)
InUse(n) == \E p \in Processes : at[p] = "ready" /\ Holds(p, n)
RingsAgree ==
    \A n \in Names : InUse(n) =>
        /\ segs[n].messageCount = Len(segs[n].packets)
        /\ segs[n].freeSpace + PacketRoom * Len(segs[n].packets) = DataSize(n)

(* What a client has read, and what waits for it, is what the server wrote *)
(* since the client came, and the other way round: nothing is lost,        *)
(* swapped, read twice or read by its own writer, nor lost when the server *)
(* closes its pipe first.                                                  *)
Delivered ==
    \A c \in Clients : at[c] = "ready" =>
        /\ got[c] \o segs[TxName(Server)].packets = wrote[Server]
        /\ got[Server] \o segs[RxName(Server)].packets = wrote[c]

(* CreateSharedMemoryPipe() makes a pipe of any size a ring can have       *)
(* (shared-memory.test.cpp:34-37: a pipe of 256 bytes is made).            *)
PipeMade ==
    at[Server] = "threw" =>
        \E size \in Sizes : size % Alignment # 0 \/ size <= RingHeader \/ size > MaxRing

=============================================================================

-------------------------- MODULE LockedRing_proofs --------------------------
(***************************************************************************)
(* The two ends' interleaved steps are a sequence of whole calls, for      *)
(* every ring and all payload sizes that do not wrap uint32_t, and with    *)
(* RingFifo_proofs: what two processes push and pull through the lock is a *)
(* first-in first-out queue.                                               *)
(***************************************************************************)
EXTENDS LockedRing, TLAPS

(* RingBuffer's proofs, about the ring the last finished call left.        *)
Calm == INSTANCE RingFifo_proofs WITH
    Orderly      <- TRUE,
    front        <- done.ring.front,
    next         <- done.ring.next,
    freeSpace    <- done.ring.freeSpace,
    messageCount <- done.ring.messageCount,
    mem          <- done.mem,
    attached     <- {end \in Ends : at[end] # "detached"},
    overrun      <- FALSE,
    pending      <- done.pending,
    result       <- done.result

(* No payload is so close to 4 GiB that its size wraps.                    *)
SizesFit == \A size \in Sizes : Ring!Footprint(size) < WordSize

-----------------------------------------------------------------------------
(* The inductive invariant.                                                *)

(* The ends whose constructor has run.                                     *)
Attached == {end \in Ends : at[end] # "detached"}

(* How far the two ends can be; Inside is between the lock and the unlock. *)
TxPoints == {"detached", "out", "lock", "enter", "publish", "copyHeader", "copyData", "unlock"}
RxPoints == {"detached", "out", "lock", "enter", "takeHeader", "takeData", "takeStore", "unlock"}
Pushing == {"publish", "copyHeader", "copyData"}
Taking == {"takeHeader", "takeData", "takeStore"}
Inside == {"enter"} \cup Pushing \cup Taking
FlagUpPcs == {"lockTest", "lockOwn", "lockDrop", "held", "unlockFlag"}

(* Who is where in the lock fits where he is in his call, whoever competes *)
(* for the lock or holds it has his flag up, and one end at most holds it. *)
LockInv ==
    /\ flag \in [Ends -> BOOLEAN]
    /\ pc \in [Ends -> {"idle", "held", "unlockFlag"} \cup Lock!LockPcs]
    /\ at \in [Ends -> TxPoints \cup RxPoints]
    /\ at["tx"] \in TxPoints /\ at["rx"] \in RxPoints
    /\ \A end \in Ends :
         /\ at[end] \in {"detached", "out"} => pc[end] = "idle"
         /\ at[end] = "lock" => pc[end] \in {"idle"} \cup Lock!LockPcs
         /\ at[end] \in Inside => pc[end] = "held"
         /\ at[end] = "unlock" => pc[end] \in {"held", "unlockFlag"}
         /\ pc[end] \in FlagUpPcs => flag[end]
    /\ ~(pc["rx"] = "held" /\ pc["tx"] = "held")

(* A call of push() is with a new packet that is not empty.                *)
Asks(c) == c.op = "push" => c.packet \in Ring!FreshPackets /\ c.packet.size # 0

(* What an end knows of the ring stays true until it acts on it: the       *)
(* header push() has read is the ring's, and there is room; pull() has     *)
(* seen a packet, and there is one.                                        *)
CallInv ==
    /\ DOMAIN call = Ends /\ DOMAIN tmp = Ends
    /\ \A end, other \in Ends : at[end] \notin {"detached", "out"} => at[other] # "detached"
    /\ at["tx"] \in {"lock", "enter"} => Asks(call["tx"])
    /\ at["tx"] \in Pushing =>
         /\ call["tx"].op = "push" /\ Asks(call["tx"])
         /\ tmp["tx"] = done.ring
         /\ Ring!PacketSize(call["tx"].packet.size) <= done.ring.freeSpace
    /\ call["rx"] \in [op : {"none", "isEmpty", "getMessageCount", "pull", "take", "taken"}]
    /\ at["rx"] \in {"detached", "out"} => call["rx"].op # "take"
    /\ at["rx"] \in Taking => call["rx"].op = "take"
    /\ call["rx"].op = "take" => done.ring.freeSpace # DataSize

IsHeader(h) ==
    h = [front |-> h.front, next |-> h.next, freeSpace |-> h.freeSpace,
         messageCount |-> h.messageCount]

(* The header push() of p writes, and the data area with p's header in it. *)
Published(h, p) ==
    LET size == U32(p.size)
    IN  [front        |-> h.front,
         next         |-> Advance(Advance(h.next, HeaderSize), AlignedSize(size)),
         freeSpace    |-> U32(h.freeSpace - HeaderSize - AlignedSize(size)),
         messageCount |-> U32(h.messageCount + 1)]

WithHeader(h, p) ==
    CopyIn(done.mem, h.next, PushHeaderWraps(h.front, h.next), Ring!HeaderBytes(p), HeaderSize)

(* The same of pull(): the oldest packet's size, what has been copied out  *)
(* and wiped of it, and the local header moved past it.                    *)
PastHeader(h) ==
    [front |-> Advance(h.front, HeaderSize), next |-> h.next,
     freeSpace |-> U32(h.freeSpace + HeaderSize), messageCount |-> h.messageCount]

Oldest == done.pending[1].packet.size
HeaderOut(h) == CopyOut(done.mem, h.front, PullWraps(h.front, HeaderSize), HeaderSize)
HeaderGone(h) == Ring!Wiped(done.mem, h.front, PullWraps(h.front, HeaderSize), HeaderSize)
PastData(h, size) ==
    LET free == U32(h.freeSpace + AlignedSize(size))
    IN  [front        |-> Ring!Rewound(Advance(h.front, AlignedSize(size)), free),
         next         |-> Ring!Rewound(h.next, free),
         freeSpace    |-> free,
         messageCount |-> U32(h.messageCount - 1)]

(* How far the call has got whose holder is inside; without one the ring   *)
(* is what the last call made it.                                          *)
EffectInv ==
    LET h == done.ring
        p == call["tx"].packet
        start == Advance(h.front, HeaderSize)
        wraps == PullWraps(start, Oldest)
    IN  /\ done = [ring |-> h, mem |-> done.mem, pending |-> done.pending, result |-> done.result]
        /\ IsHeader(h)
        /\ ring = IF at["tx"] \in {"copyHeader", "copyData"} THEN Published(h, p) ELSE h
        /\ at["tx"] = "copyData" => mem = WithHeader(h, p)
        /\ at["rx"] = "takeHeader" => tmp["rx"] = h
        /\ at["rx"] = "takeData" =>
             tmp["rx"] = PastHeader(h) /\ got.header = HeaderOut(h) /\ mem = HeaderGone(h)
        /\ at["rx"] = "takeStore" =>
             /\ tmp["rx"] = PastData(PastHeader(h), Oldest)
             /\ got = [header |-> Ring!Returned(HeaderOut(h)),
                       data   |-> CopyOut(HeaderGone(h), start, wraps, Oldest)]
             /\ mem = Ring!Wiped(HeaderGone(h), start, wraps, Oldest)
        /\ at["tx"] # "copyData" /\ at["rx"] \notin {"takeData", "takeStore"} => mem = done.mem

-----------------------------------------------------------------------------
(* RingBuffer's proofs, taken over.                                        *)

(* The assumptions RingBuffer_proofs is under hold here.                   *)
LEMMA Grounds ==
  /\ Ids \subseteq Nat \ {0}
  /\ Sizes \subseteq Nat
  /\ {TRUE} \cup Builds \subseteq BOOLEAN
BY LockedAssumption DEF LockedAssumption

(* Sizes that do not wrap here do not wrap there.                          *)
LEMMA SameSizes == SizesFit => Calm!SizesFit
BY DEF SizesFit, Calm!SizesFit, Ring!Footprint, Calm!Footprint

(* RingBuffer's invariant holds at the start.                              *)
LEMMA InitCalm == Calm!Init => Calm!RingInv
BY Calm!InitRing, Grounds, LayoutAssumption

(* Every step of RingBuffer keeps RingBuffer's invariant.                  *)
LEMMA StepCalm == ASSUME Calm!SizesFit, Calm!RingInv, [Calm!Next]_Calm!ringVars
  PROVE Calm!RingInv'
BY Calm!StepKeeps, Grounds, LayoutAssumption

(* Where push() finds room, its copies stay in the data area and it does   *)
(* not leave the ring looking empty.                                       *)
LEMMA CalmRoom ==
  ASSUME Calm!SizesFit, Calm!RingInv, Attached = Calm!Ends, NEW p \in Calm!FreshPackets,
         p.size # 0, Calm!Fits(p.size)
  PROVE  LET h == done.ring
             size == Calm!U32(p.size)
             start == Calm!Advance(h.next, HeaderSize)
             dw == Calm!PushDataWraps(h.front, start, size)
         IN  /\ Calm!InBounds(h.next, Calm!PushHeaderWraps(h.front, h.next), HeaderSize)
             /\ Calm!InBounds(start, dw, IF dw THEN size ELSE p.size)
             /\ Calm!U32(h.freeSpace - HeaderSize - Calm!AlignedSize(size)) # DataSize
BY Calm!PushRoom, Grounds, LayoutAssumption DEF Attached

USE DEF Ring!Ready, Ring!Answer, Ring!Fits, Ring!Empty, Ring!Pushed,
        Ring!Payload, Ring!SizesRead, Ring!Returned, Ring!SizeField,
        Ring!HeaderBytes, Ring!DataBytes, Ring!Byte, Ring!Blank, Ring!Wiped,
        Ring!Rest, Ring!Rewound, Ring!header, Ring!Ends, Ring!Fresh,
        Ring!Packet, Ring!FreshPackets, Ring!U32, Ring!Addresses,
        Ring!AlignedSize, Ring!PacketSize, Ring!Slot, Ring!ByteAt,
        Ring!InBounds, Ring!CopyIn, Ring!CopyOut, Ring!Fill,
        Ring!PushHeaderWraps, Ring!PushDataWraps, Ring!PullWraps, Ring!Advance,
        Calm!Ready, Calm!Answer, Calm!Fits, Calm!Empty, Calm!Pushed,
        Calm!Payload, Calm!SizesRead, Calm!Returned, Calm!SizeField,
        Calm!HeaderBytes, Calm!DataBytes, Calm!Byte, Calm!Blank, Calm!Wiped,
        Calm!Rest, Calm!Rewound, Calm!header, Calm!Ends, Calm!Fresh,
        Calm!Packet, Calm!FreshPackets, Calm!U32, Calm!Addresses,
        Calm!AlignedSize, Calm!PacketSize, Calm!Slot, Calm!ByteAt,
        Calm!InBounds, Calm!CopyIn, Calm!CopyOut, Calm!Fill,
        Calm!PushHeaderWraps, Calm!PushDataWraps, Calm!PullWraps, Calm!Advance,
        U32, Addresses, AlignedSize, PacketSize, Slot, ByteAt, InBounds,
        CopyIn, CopyOut, Fill, PushHeaderWraps, PushDataWraps, PullWraps,
        Advance

(* The two instances of RingBuffer have the same steps: storing a packet,  *)
LEMMA SamePush == ASSUME NEW p, Ring!PushStore(p) PROVE Calm!PushStore(p)
BY DEF Ring!PushStore, Calm!PushStore

(* taking one,                                                             *)
LEMMA SamePull == ASSUME Ring!PullTake PROVE Calm!PullTake
BY DEF Ring!PullTake, Calm!PullTake

(* attaching an end,                                                       *)
LEMMA SameAttach == ASSUME NEW end, Ring!Attach(end) PROVE Calm!Attach(end)
BY DEF Ring!Attach, Calm!Attach

(* the packets that are pushed,                                            *)
LEMMA SamePackets == Ring!FreshPackets = Calm!FreshPackets
OBVIOUS

(* the calls that only answer,                                             *)
LEMMA SameAnswers ==
  /\ \A p : Ring!PushNothing(p) => Calm!PushNothing(p)
  /\ \A p : Ring!PushOverflow(p) => Calm!PushOverflow(p)
  /\ Ring!PullNothing => Calm!PullNothing
  /\ Ring!isFull => Calm!isFull
  /\ Ring!isEmpty => Calm!isEmpty
  /\ Ring!getMessageCount => Calm!getMessageCount
BY DEF Ring!PushNothing, Calm!PushNothing, Ring!PushOverflow, Calm!PushOverflow,
       Ring!PullNothing, Calm!PullNothing, Ring!isFull, Calm!isFull, Ring!isEmpty,
       Calm!isEmpty, Ring!getMessageCount, Calm!getMessageCount

(* the ends that may call                                                  *)
LEMMA SameReady == Ring!Ready("tx") = Calm!Ready("tx") /\ Ring!Ready("rx") = Calm!Ready("rx")
OBVIOUS

(* and the steps that change nothing.                                      *)
LEMMA SameVars == UNCHANGED Ring!ringVars => UNCHANGED Calm!ringVars
BY DEF Ring!ringVars, Calm!ringVars

(* Where push() finds room, its copies stay in the data area and it does   *)
(* not leave the ring looking empty.                                       *)
LEMMA RoomToPush ==
  ASSUME Calm!SizesFit, Calm!RingInv, Attached = Ends, NEW p \in Ring!FreshPackets,
         p.size # 0, Ring!PacketSize(p.size) <= done.ring.freeSpace
  PROVE  LET h == done.ring
             size == U32(p.size)
             start == Advance(h.next, HeaderSize)
             dw == PushDataWraps(h.front, start, size)
         IN  /\ InBounds(h.next, PushHeaderWraps(h.front, h.next), HeaderSize)
             /\ InBounds(start, dw, IF dw THEN size ELSE p.size)
             /\ U32(h.freeSpace - HeaderSize - AlignedSize(size)) # DataSize
<1>1. p \in Calm!FreshPackets
  BY SamePackets
<1>2. Calm!Fits(p.size)
  OBVIOUS
<1>3. Attached = Calm!Ends
  BY DEF Ends
<1>4. LET h == done.ring
          size == Calm!U32(p.size)
          start == Calm!Advance(h.next, HeaderSize)
          dw == Calm!PushDataWraps(h.front, start, size)
      IN  /\ Calm!InBounds(h.next, Calm!PushHeaderWraps(h.front, h.next), HeaderSize)
          /\ Calm!InBounds(start, dw, IF dw THEN size ELSE p.size)
          /\ Calm!U32(h.freeSpace - HeaderSize - Calm!AlignedSize(size)) # DataSize
  <2> HIDE DEF Calm!FreshPackets, Calm!Fits, Calm!U32, Calm!Advance, Calm!PushDataWraps,
               Calm!PushHeaderWraps, Calm!InBounds, Calm!AlignedSize, Calm!Ends
  <2> QED BY <1>1, <1>2, <1>3, CalmRoom
<1> QED BY <1>4

(* Where pull() finds a packet, it reads its size, its copies stay in the  *)
(* data area, its sums do not wrap, and wiping the header spares the       *)
(* payload.                                                                *)
LEMMA RoomToPull ==
  ASSUME Calm!SizesFit, Calm!RingInv, Attached = Ends, done.ring.freeSpace # DataSize
  PROVE  LET h == done.ring
             hw == PullWraps(h.front, HeaderSize)
             start == Advance(h.front, HeaderSize)
             dw == PullWraps(start, Oldest)
             free == h.freeSpace + HeaderSize + AlignedSize(Oldest)
         IN  /\ 1 \in DOMAIN done.pending
             /\ Ring!SizesRead(HeaderOut(h)) = {Oldest}
             /\ InBounds(h.front, hw, HeaderSize)
             /\ InBounds(start, dw, Oldest)
             /\ {h.freeSpace, AlignedSize(Oldest), free} \subseteq Nat
             /\ U32(free) = free /\ U32(h.freeSpace + HeaderSize) = h.freeSpace + HeaderSize
             /\ CopyOut(HeaderGone(h), start, dw, Oldest) = CopyOut(done.mem, start, dw, Oldest)
<1>1. {end \in Ends : at[end] # "detached"} = Calm!Ends
  BY DEF Attached, Ends
<1>2. LET p == done.pending[1].packet
          start == Calm!Advance(done.ring.front, HeaderSize)
          free == done.ring.freeSpace + HeaderSize + Calm!AlignedSize(p.size)
      IN  /\ 1 \in DOMAIN done.pending
          /\ Calm!SizesRead(Calm!CopyOut(done.mem, done.ring.front,
                                           Calm!PullWraps(done.ring.front, HeaderSize),
                                           HeaderSize)) = {p.size}
          /\ Calm!InBounds(done.ring.front, Calm!PullWraps(done.ring.front, HeaderSize), HeaderSize)
          /\ Calm!InBounds(start, Calm!PullWraps(start, p.size), p.size)
          /\ {done.ring.freeSpace, Calm!AlignedSize(p.size), free} \subseteq Nat
          /\ Calm!U32(free) = free
          /\ Calm!U32(done.ring.freeSpace + HeaderSize) = done.ring.freeSpace + HeaderSize
  BY <1>1, Calm!PullRoom, Grounds, LayoutAssumption
<1>3. LET p == done.pending[1].packet
          hw == Calm!PullWraps(done.ring.front, HeaderSize)
          start == Calm!Advance(done.ring.front, HeaderSize)
          dw == Calm!PullWraps(start, p.size)
      IN  Calm!CopyOut(Calm!Wiped(done.mem, done.ring.front, hw, HeaderSize), start, dw, p.size)
            = Calm!CopyOut(done.mem, start, dw, p.size)
  BY <1>1, Calm!PullApart, Grounds, LayoutAssumption
<1> QED BY <1>2, <1>3 DEF Oldest, HeaderOut, HeaderGone

HIDE DEF Ring!Ready, Ring!Answer, Ring!Fits, Ring!Empty, Ring!Pushed,
         Ring!Payload, Ring!SizesRead, Ring!Returned, Ring!SizeField,
         Ring!HeaderBytes, Ring!DataBytes, Ring!Byte, Ring!Blank, Ring!Wiped,
         Ring!Rest, Ring!Rewound, Ring!header, Ring!Ends, Ring!Fresh,
         Ring!Packet, Ring!FreshPackets, Ring!U32, Ring!Addresses,
         Ring!AlignedSize, Ring!PacketSize, Ring!Slot, Ring!ByteAt,
         Ring!InBounds, Ring!CopyIn, Ring!CopyOut, Ring!Fill,
         Ring!PushHeaderWraps, Ring!PushDataWraps, Ring!PullWraps,
         Ring!Advance, Calm!Ready, Calm!Answer, Calm!Fits, Calm!Empty,
         Calm!Pushed, Calm!Payload, Calm!SizesRead, Calm!Returned,
         Calm!SizeField, Calm!HeaderBytes, Calm!DataBytes, Calm!Byte,
         Calm!Blank, Calm!Wiped, Calm!Rest, Calm!Rewound, Calm!header,
         Calm!Ends, Calm!Fresh, Calm!Packet, Calm!FreshPackets, Calm!U32,
         Calm!Addresses, Calm!AlignedSize, Calm!PacketSize, Calm!Slot,
         Calm!ByteAt, Calm!InBounds, Calm!CopyIn, Calm!CopyOut, Calm!Fill,
         Calm!PushHeaderWraps, Calm!PushDataWraps, Calm!PullWraps,
         Calm!Advance, U32, Addresses, AlignedSize, PacketSize, Slot, ByteAt,
         InBounds, CopyIn, CopyOut, Fill, PushHeaderWraps, PushDataWraps,
         PullWraps, Advance

-----------------------------------------------------------------------------
(* An end that goes on inside its critical section, leaves the constructor *)
(* or begins a call keeps the lock's part of the invariant.                *)
LEMMA MoveKeepsLock ==
  ASSUME LockInv, UNCHANGED lockVars, NEW end \in Ends, NEW from, NEW to, Move(end, from, to),
         to \in IF end = "tx" THEN TxPoints ELSE RxPoints,
         \/ from \in Inside /\ to \in Inside \cup {"unlock"}
         \/ from = "detached" /\ to = "out"
         \/ from = "out" /\ to = "lock"
  PROVE  LockInv'
<1>1. end = "rx" \/ end = "tx"
  BY DEF Ends
<1>2. flag' = flag /\ pc' = pc /\ at[end] = from /\ at' = [at EXCEPT ![end] = to]
  BY DEF lockVars, Move
<1>3. CASE end = "rx"
  BY <1>2, <1>3 DEF LockInv, Ends, Inside, Pushing, Taking, TxPoints, RxPoints, FlagUpPcs
<1>4. CASE end = "tx"
  BY <1>2, <1>4 DEF LockInv, Ends, Inside, Pushing, Taking, TxPoints, RxPoints, FlagUpPcs
<1> QED BY <1>1, <1>3, <1>4

(* So does every access of lock(),                                         *)
LEMMA LockingKeepsLock == ASSUME LockInv, NEW end \in Ends, Locking(end) PROVE LockInv'
<1>1. end = "rx" \/ end = "tx"
  BY DEF Ends
<1> USE DEF LockInv, Ends, Inside, Pushing, Taking, TxPoints, RxPoints, FlagUpPcs, Lock!LockPcs,
            Lock!Goto, Lock!StoreOwn, Lock!Own, Lock!Others, Lock!Other, Locking
<1>2. CASE Lock!LockRaise(end)
  BY <1>1, <1>2 DEF Lock!LockRaise
<1>3. CASE Lock!LockEnter(end)
  BY <1>1, <1>3 DEF Lock!LockEnter
<1>4. CASE Lock!LockContend(end)
  BY <1>1, <1>4 DEF Lock!LockContend
<1>5. CASE Lock!LockOwn(end)
  BY <1>1, <1>5 DEF Lock!LockOwn
<1>6. CASE Lock!LockDrop(end)
  BY <1>1, <1>6 DEF Lock!LockDrop
<1>7. CASE Lock!LockTurn(end)
  BY <1>1, <1>7 DEF Lock!LockTurn
<1>8. CASE Lock!LockReraise(end)
  BY <1>1, <1>8 DEF Lock!LockReraise
<1> QED BY <1>2, <1>3, <1>4, <1>5, <1>6, <1>7, <1>8 DEF Lock!LockRest

(* both accesses of unlock(),                                              *)
LEMMA UnlockingKeepsLock ==
  ASSUME LockInv, NEW end \in Ends, Unlocking(end) \/ Unlocked(end)
  PROVE  LockInv'
<1>1. end = "rx" \/ end = "tx"
  BY DEF Ends
<1> USE DEF LockInv, Ends, Inside, Pushing, Taking, TxPoints, RxPoints, FlagUpPcs, Lock!LockPcs,
            Lock!Goto, Lock!StoreOwn, Lock!HeldPcs
<1>2. CASE Unlocking(end)
  BY <1>1, <1>2 DEF Unlocking, Lock!UnlockTurn
<1>3. CASE Unlocked(end)
  BY <1>1, <1>3 DEF Unlocked, Lock!UnlockFlag, Move
<1> QED BY <1>2, <1>3

(* and hence every step.                                                   *)
LEMMA LockKeeps == ASSUME LockInv, [Next]_lockedVars PROVE LockInv'
<1>1. CASE UNCHANGED lockedVars
  BY <1>1 DEF lockedVars, lockVars, LockInv
<1>2. ASSUME NEW end \in Ends, Attach(end) \/ Begin(end) \/ Query(end) PROVE LockInv'
  BY <1>2, MoveKeepsLock DEF Attach, Begin, Query, Ends, Inside, TxPoints, RxPoints
<1>3. ASSUME NEW end \in Ends, Locking(end) PROVE LockInv'
  BY <1>3, LockingKeepsLock
<1>4. ASSUME NEW end \in Ends, Unlocking(end) \/ Unlocked(end) PROVE LockInv'
  BY <1>4, UnlockingKeepsLock
<1>5. ASSUME PushNothing PROVE LockInv'
  BY <1>5 DEF PushNothing, LockInv, lockVars
<1>6. ASSUME PushRead \/ PushPublish \/ PushHeader \/ PushData PROVE LockInv'
  BY <1>6, MoveKeepsLock
     DEF PushRead, PushPublish, PushHeader, PushData, Ends, Inside, Pushing, TxPoints
<1>7. ASSUME PullCheck \/ PullRead \/ PullHeader \/ PullData \/ PullStore PROVE LockInv'
  BY <1>7, MoveKeepsLock
     DEF PullCheck, PullRead, PullHeader, PullData, PullStore, Ends, Inside, Taking, RxPoints
<1> QED BY <1>1, <1>2, <1>3, <1>4, <1>5, <1>6, <1>7 DEF Next

(* At most one end is between its lock and its unlock.                     *)
LEMMA OneInside == ASSUME LockInv PROVE ~(at["rx"] \in Inside /\ at["tx"] \in Inside)
BY DEF LockInv, Ends

-----------------------------------------------------------------------------
(* The two instances of RingBuffer have the same next-state relation.      *)
LEMMA SameNext == ASSUME [Ring!Next]_Ring!ringVars PROVE [Calm!Next]_Calm!ringVars
<1>1. CASE UNCHANGED Ring!ringVars
  BY <1>1, SameVars
<1>2. ASSUME Ring!Next, NEW end \in Ring!Ends, Ring!Attach(end) PROVE Calm!Next
  BY <1>2, SameAttach DEF Ring!Next, Calm!Next, Ring!Ends, Calm!Ends
<1>3. ASSUME Ring!Next, NEW p \in Ring!FreshPackets, Ring!push(p) PROVE Calm!Next
  <2>1. p \in Calm!FreshPackets
    BY <1>3, SamePackets
  <2>2. Calm!push(p)
    BY <1>3, SamePush, SameAnswers, SameReady DEF Ring!push, Calm!push
  <2> QED BY <1>3, <2>1, <2>2 DEF Ring!Next, Calm!Next
<1>4. ASSUME Ring!Next, Ring!pull PROVE Calm!Next
  BY <1>4, SamePull, SameAnswers, SameReady DEF Ring!pull, Calm!pull, Ring!Next, Calm!Next
<1>5. ASSUME Ring!Next, Ring!isFull \/ Ring!isEmpty \/ Ring!getMessageCount PROVE Calm!Next
  BY <1>5, SameAnswers DEF Ring!Next, Calm!Next
<1> QED BY <1>1, <1>2, <1>3, <1>4, <1>5 DEF Ring!Next

(* A step that finishes no call is none of RingBuffer's.                   *)
LEMMA Quiet ==
  ASSUME debug' = debug, done' = done, Attached' = Attached
  PROVE  UNCHANGED Ring!ringVars
BY DEF Attached, Ring!ringVars, Ring!header

(* An answer that changes nothing but the result.                          *)
LEMMA Answered ==
  ASSUME EffectInv, debug' = debug, Attached' = Attached, NEW r,
         done' = [done EXCEPT !.result = r]
  PROVE  Ring!Answer(r)
BY DEF Attached, EffectInv, Ring!Answer, Ring!header

-----------------------------------------------------------------------------
(* A step that leaves the ring as it is, and an end that pushes or takes   *)
(* where it is, keeps what has been done of the calls.                     *)
LEMMA StillKeepsEffect ==
  ASSUME EffectInv, debug' = debug, ring' = ring, mem' = mem,
         done' = done \/ \E r : done' = [done EXCEPT !.result = r],
         at["tx"] \in {"copyHeader", "copyData"} =>
           at'["tx"] = at["tx"] /\ call'["tx"] = call["tx"],
         at["tx"] \notin {"copyHeader", "copyData"} => at'["tx"] \notin {"copyHeader", "copyData"},
         at["rx"] \in Taking => at'["rx"] = at["rx"] /\ tmp'["rx"] = tmp["rx"] /\ got' = got,
         at["rx"] \notin Taking => at'["rx"] \notin Taking
  PROVE  EffectInv'
<1>1. /\ done'.ring = done.ring /\ done'.mem = done.mem /\ done'.pending = done.pending
      /\ done' = [ring |-> done'.ring, mem |-> done'.mem, pending |-> done'.pending,
                  result |-> done'.result]
  BY DEF EffectInv
<1> QED BY <1>1 DEF EffectInv, Taking, IsHeader, Published, WithHeader, HeaderOut, HeaderGone,
                    Oldest, PastHeader, PastData, Ring!Returned, Ring!Wiped, Ring!Rewound

(* A step that finishes a call leaves the ring as that call made it.       *)
LEMMA FinishedKeepsEffect ==
  ASSUME NEW p, NEW r, Finish(p, r), IsHeader(ring'),
         at'["tx"] \notin {"copyHeader", "copyData"}, at'["rx"] \notin Taking
  PROVE  EffectInv'
BY DEF Finish, EffectInv, IsHeader, Taking

-----------------------------------------------------------------------------
(* Once a call has begun, both ends are attached for good.                 *)
LEMMA BothAttached ==
  ASSUME LockInv, CallInv, NEW end \in Ends, at[end] \notin {"detached", "out"}
  PROVE  Attached = Ends
BY DEF LockInv, CallInv, Ends, Attached

(* No step of a call detaches an end.                                      *)
LEMMA StaysAttached ==
  ASSUME LockInv, NEW end \in Ends, NEW from, NEW to, Move(end, from, to),
         from # "detached", to # "detached"
  PROVE  Attached' = Attached
BY DEF LockInv, Ends, Attached, Move

(* Beginning a call, taking the lock and letting go of it leave the ring   *)
(* and the packet in hand alone.                                           *)
LEMMA AroundKeepsCall ==
  ASSUME LockInv, CallInv, debug' = debug, NEW end \in Ends,
         Begin(end) \/ Locking(end) \/ Unlocking(end) \/ Unlocked(end)
  PROVE  CallInv'
<1>1. end = "rx" \/ end = "tx"
  BY DEF Ends
<1> USE DEF CallInv, LockInv, Ends, Asks, Pushing, Taking, TxPoints, RxPoints
<1>2. CASE Begin(end)
  BY <1>1, <1>2 DEF Begin, Move, Calls
<1>3. CASE Locking(end)
  BY <1>1, <1>3 DEF Locking
<1>4. CASE Unlocking(end)
  BY <1>1, <1>4 DEF Unlocking
<1>5. CASE Unlocked(end)
  BY <1>1, <1>5 DEF Unlocked, Move, NoCall
<1> QED BY <1>2, <1>3, <1>4, <1>5

(* They are no steps of RingBuffer either.                                 *)
LEMMA AroundKeepsEffect ==
  ASSUME LockInv, CallInv, EffectInv, debug' = debug, NEW end \in Ends,
         Begin(end) \/ Locking(end) \/ Unlocking(end) \/ Unlocked(end)
  PROVE  EffectInv' /\ UNCHANGED Ring!ringVars
<1>1. end = "rx" \/ end = "tx"
  BY DEF Ends
<1>2. done' = done /\ ring' = ring /\ mem' = mem
  BY DEF Begin, Locking, Unlocking, Unlocked
<1>3. Attached' = Attached
  BY DEF Begin, Locking, Unlocking, Unlocked, Move, Attached, LockInv, Ends
<1>4. /\ at["tx"] \in {"copyHeader", "copyData"} =>
           at'["tx"] = at["tx"] /\ call'["tx"] = call["tx"]
      /\ at["tx"] \notin {"copyHeader", "copyData"} => at'["tx"] \notin {"copyHeader", "copyData"}
      /\ at["rx"] \in Taking => at'["rx"] = at["rx"] /\ tmp'["rx"] = tmp["rx"] /\ got' = got
      /\ at["rx"] \notin Taking => at'["rx"] \notin Taking
  BY <1>1 DEF Begin, Locking, Unlocking, Unlocked, Move, LockInv, CallInv, Ends, Taking,
              TxPoints, RxPoints
<1> QED BY <1>2, <1>3, <1>4, StillKeepsEffect, Quiet

-----------------------------------------------------------------------------
(* The constructors run before any call has begun.                         *)
LEMMA AttachMaps ==
  ASSUME LockInv, CallInv, EffectInv, debug' = debug, NEW end \in Ends, Attach(end)
  PROVE  CallInv' /\ EffectInv' /\ Ring!Next
<1>1. end = "rx" \/ end = "tx"
  BY DEF Ends
<1>2. /\ \A e \in Ends : at[e] \in {"detached", "out"} /\ at'[e] \in {"detached", "out"}
      /\ at[end] = "detached" /\ Attached' = Attached \cup {end} /\ end \notin Attached
  BY <1>1 DEF LockInv, CallInv, Attach, Move, Ends, Attached
<1>3. /\ ring = done.ring /\ mem = done.mem
      /\ ring' = [done.ring EXCEPT !.freeSpace = DataSize] /\ mem' = mem
      /\ Finish(done.pending, done.result)
  BY <1>2 DEF EffectInv, Attach, Ends
<1>4. /\ IsHeader(done.ring) /\ IsHeader(ring')
      /\ ring'.front = done.ring.front /\ ring'.next = done.ring.next
      /\ ring'.freeSpace = DataSize /\ ring'.messageCount = done.ring.messageCount
  <2> DEFINE h == done.ring
  <2>1. IsHeader(h)
    BY DEF EffectInv
  <2>2. ring' = [front |-> h.front, next |-> h.next, freeSpace |-> DataSize,
                 messageCount |-> h.messageCount]
    BY <1>3, <2>1 DEF IsHeader
  <2> QED BY <2>1, <2>2 DEF IsHeader
<1>5. CallInv'
  BY <1>1, <1>2, <1>3 DEF CallInv, Attach, Ends, Pushing, Taking, Asks
<1>6. EffectInv'
  BY <1>2, <1>3, <1>4, FinishedKeepsEffect DEF Ends, Taking
<1>7. Ring!Attach(end)
  BY <1>2, <1>3, <1>4 DEF Ring!Attach, Finish, Attached
<1> QED BY <1>1, <1>5, <1>6, <1>7 DEF Ring!Next, Ring!Ends

(* A push of nothing is answered without the lock.                         *)
LEMMA PushNothingMaps ==
  ASSUME LockInv, CallInv, EffectInv, debug' = debug, PushNothing
  PROVE  CallInv' /\ EffectInv' /\ Ring!Next
<1>1. PICK p \in Ring!FreshPackets :
        p.size = 0 /\ done' = [done EXCEPT !.result = Ring!Pushed(p, "ignored")]
  BY DEF PushNothing
<1>2. /\ at' = at /\ call' = call /\ tmp' = tmp /\ got' = got /\ ring' = ring /\ mem' = mem
      /\ Attached = Ends /\ Attached' = Attached
  BY DEF PushNothing, Attached
<1>3. EffectInv'
  BY <1>1, <1>2, StillKeepsEffect
<1>4. CallInv'
  BY <1>1, <1>2 DEF CallInv, EffectInv, Asks
<1>5. Ring!Answer(Ring!Pushed(p, "ignored"))
  BY <1>1, <1>2, Answered
<1>6. Ring!Ready("tx")
  BY <1>2 DEF Ring!Ready, Attached, Ends, Ring!Ends
<1> QED BY <1>1, <1>3, <1>4, <1>5, <1>6 DEF Ring!Next, Ring!push, Ring!PushNothing

-----------------------------------------------------------------------------
(* What a call finds when it has the lock is what the last call left.      *)
LEMMA Found ==
  ASSUME LockInv, CallInv, EffectInv, NEW end \in Ends, at[end] = "enter"
  PROVE  /\ ring = done.ring /\ mem = done.mem /\ Attached = Ends
         /\ Ring!Ready("rx") /\ Ring!Ready("tx")
         /\ at["tx"] \notin Pushing /\ at["rx"] \notin Taking
<1>1. at["tx"] \notin Pushing /\ at["rx"] \notin Taking
  BY OneInside DEF Ends, Inside, Pushing, Taking
<1>2. ring = done.ring /\ mem = done.mem
  BY <1>1 DEF EffectInv, Pushing, Taking
<1>3. Attached = Ends
  BY BothAttached
<1> QED BY <1>1, <1>2, <1>3 DEF Ring!Ready, Attached, Ends, Ring!Ends

(* A call that only answers leaves everything else as it is.               *)
LEMMA AnswerKeeps ==
  ASSUME LockInv, CallInv, EffectInv, debug' = debug, NEW end \in Ends,
         Move(end, "enter", "unlock"), NEW r, Answer(r),
         call' = call, got' = got, DOMAIN tmp' = Ends
  PROVE  CallInv' /\ EffectInv' /\ Ring!Answer(r)
<1>1. end = "rx" \/ end = "tx"
  BY DEF Ends
<1>2. at[end] = "enter" /\ at' = [at EXCEPT ![end] = "unlock"]
  BY DEF Move
<1>3. at["tx"] \notin Pushing /\ at["rx"] \notin Taking
  BY <1>2, Found
<1>4. at'["tx"] \notin Pushing /\ at'["rx"] \notin Taking
  BY <1>1, <1>2, <1>3 DEF LockInv, Ends, Pushing, Taking
<1>5. EffectInv'
  BY <1>3, <1>4, StillKeepsEffect DEF Answer, Pushing
<1>6. CallInv'
  <2>1. done'.ring = done.ring /\ call' = call
    BY DEF Answer, EffectInv
  <2>2. \A e, other \in Ends : at'[e] \notin {"detached", "out"} => at'[other] # "detached"
    BY <1>1, <1>2 DEF CallInv, LockInv, Ends
  <2>3. at'["tx"] \notin {"lock", "enter"} \/ at'["tx"] = at["tx"]
    BY <1>1, <1>2 DEF LockInv, Ends
  <2>4. at'["rx"] \notin {"detached", "out"} \/ at'["rx"] = at["rx"]
    BY <1>1, <1>2 DEF LockInv, Ends
  <2> QED BY <1>4, <2>1, <2>2, <2>3, <2>4 DEF CallInv, Asks
<1>7. Attached' = Attached
  BY StaysAttached
<1>8. Ring!Answer(r)
  BY <1>7, Answered DEF Answer
<1> QED BY <1>5, <1>6, <1>8

(* The queries read the ring and answer.                                   *)
LEMMA QueryMaps ==
  ASSUME LockInv, CallInv, EffectInv, debug' = debug, NEW end \in Ends, Query(end)
  PROVE  CallInv' /\ EffectInv' /\ Ring!Next
<1>1. PICK r : Answer(r) /\ UNCHANGED <<lockVars, call, tmp, got>>
        /\ \/ call[end].op = "isFull" /\ r = [isFull |-> ring.freeSpace <= 0]
           \/ call[end].op = "isEmpty" /\ r = [isEmpty |-> ring.freeSpace = DataSize]
           \/ call[end].op = "getMessageCount" /\ r = [messageCount |-> ring.messageCount]
  BY DEF Query
<1>2. Move(end, "enter", "unlock") /\ at[end] = "enter"
  BY DEF Query, Move
<1>3. ring = done.ring /\ Ring!Ready("rx") /\ Ring!Ready("tx")
  BY <1>2, Found
<1>4. CallInv' /\ EffectInv' /\ Ring!Answer(r)
  BY <1>1, <1>2, AnswerKeeps DEF CallInv
<1>5. Ring!isFull \/ Ring!isEmpty \/ Ring!getMessageCount
  BY <1>1, <1>3, <1>4 DEF Ring!isFull, Ring!isEmpty, Ring!getMessageCount, Ring!Empty
<1> QED BY <1>4, <1>5 DEF Ring!Next

(* pull() that finds the ring empty answers; otherwise it goes on with the *)
(* packet it has seen.                                                     *)
LEMMA PullCheckMaps ==
  ASSUME LockInv, CallInv, EffectInv, debug' = debug, PullCheck
  PROVE  CallInv' /\ EffectInv' /\ [Ring!Next]_Ring!ringVars
<1>1. Move("rx", "enter", "unlock") /\ at["rx"] = "enter" /\ "rx" \in Ends
      /\ at' = [at EXCEPT !["rx"] = "unlock"]
  BY DEF PullCheck, Move, Ends
<1>2. /\ ring = done.ring /\ Ring!Ready("rx")
      /\ at["tx"] \notin Pushing /\ at["rx"] \notin Taking
  BY <1>1, Found
<1>3. CASE ring.freeSpace = DataSize
  <2>1. CallInv' /\ EffectInv' /\ Ring!Answer([noPackets |-> TRUE])
    BY <1>1, <1>3, AnswerKeeps DEF PullCheck, CallInv
  <2> QED BY <1>2, <1>3, <2>1 DEF Ring!Next, Ring!pull, Ring!PullNothing, Ring!Empty
<1>4. CASE ring.freeSpace # DataSize
  <2>1. done' = done /\ ring' = ring /\ mem' = mem /\ tmp' = tmp /\ got' = got
        /\ call' = [call EXCEPT !["rx"].op = "take"]
    BY <1>4 DEF PullCheck
  <2>2. at'["tx"] = at["tx"] /\ at'["rx"] = "unlock"
    BY <1>1 DEF LockInv, Ends
  <2>3. EffectInv'
    BY <1>2, <2>1, <2>2, StillKeepsEffect DEF Pushing, Taking
  <2>4. CallInv'
    BY <1>1, <1>2, <1>4, <2>1, <2>2 DEF CallInv, LockInv, Asks, Ends, Pushing, Taking
  <2>5. Attached' = Attached
    BY <1>1, StaysAttached
  <2> QED BY <2>1, <2>3, <2>4, <2>5, Quiet
<1> QED BY <1>3, <1>4

-----------------------------------------------------------------------------
(* push() reads the header and refuses a packet that does not fit.         *)
LEMMA PushReadMaps ==
  ASSUME LockInv, CallInv, EffectInv, debug' = debug, PushRead
  PROVE  CallInv' /\ EffectInv' /\ [Ring!Next]_Ring!ringVars
<1> DEFINE p == call["tx"].packet
<1>1. at["tx"] = "enter" /\ "tx" \in Ends /\ p \in Ring!FreshPackets /\ p.size # 0
      /\ call["tx"].op = "push"
  BY DEF PushRead, Move, Ends, CallInv, Asks
<1>2. /\ ring = done.ring /\ Ring!Ready("tx")
      /\ at["tx"] \notin Pushing /\ at["rx"] \notin Taking
  BY <1>1, Found
<1>3. CASE ~(Ring!PacketSize(p.size) <= ring.freeSpace)
  <2>1. Move("tx", "enter", "unlock") /\ Answer(Ring!Pushed(p, "overflow"))
        /\ call' = call /\ got' = got /\ DOMAIN tmp' = Ends
    BY <1>3 DEF PushRead, CallInv
  <2>2. CallInv' /\ EffectInv' /\ Ring!Answer(Ring!Pushed(p, "overflow"))
    BY <1>1, <2>1, AnswerKeeps
  <2>3. Ring!PushOverflow(p)
    BY <1>1, <1>2, <1>3, <2>2 DEF Ring!PushOverflow, Ring!Fits
  <2> QED BY <1>1, <1>2, <2>2, <2>3 DEF Ring!Next, Ring!push
<1>4. CASE Ring!PacketSize(p.size) <= ring.freeSpace
  <2>1. done' = done /\ ring' = ring /\ mem' = mem /\ call' = call /\ got' = got
        /\ tmp' = [tmp EXCEPT !["tx"] = ring] /\ Move("tx", "enter", "publish")
    BY <1>4 DEF PushRead
  <2>2. at'["rx"] = at["rx"] /\ at'["tx"] = "publish" /\ at' = [at EXCEPT !["tx"] = "publish"]
    BY <2>1 DEF LockInv, Ends, Move
  <2>3. EffectInv'
    BY <1>2, <2>1, <2>2, StillKeepsEffect DEF Pushing
  <2>4. tmp'["tx"] = done.ring /\ DOMAIN tmp' = Ends
    BY <1>2, <2>1 DEF CallInv, Ends
  <2>5. CallInv'
    BY <1>1, <1>2, <1>4, <2>1, <2>2, <2>4 DEF CallInv, LockInv, Asks, Ends, Pushing, Taking
  <2>6. Attached' = Attached
    BY <1>1, <2>1, StaysAttached
  <2> QED BY <2>1, <2>3, <2>5, <2>6, Quiet
<1> QED BY <1>3, <1>4

(* A push that has room goes on with the header it has read, as pull()     *)
(* cannot be inside as well.                                               *)
LEMMA PushGoesOn ==
  ASSUME LockInv, CallInv, EffectInv, debug' = debug, NEW from \in Pushing, NEW to \in Pushing,
         Move("tx", from, to), call' = call, tmp' = tmp, done' = done
  PROVE  /\ CallInv' /\ UNCHANGED Ring!ringVars
         /\ at["tx"] = from /\ at'["tx"] = to /\ at'["rx"] = at["rx"] /\ at["rx"] \notin Taking
         /\ tmp["tx"] = done.ring
<1>1. /\ at["tx"] = from /\ at' = [at EXCEPT !["tx"] = to] /\ "tx" \in Ends
      /\ from # "detached" /\ to # "detached"
  BY DEF Move, Ends, Pushing
<1>2. at'["tx"] = to /\ at'["rx"] = at["rx"]
  BY <1>1 DEF LockInv, Ends
<1>3. at["rx"] \notin Taking
  BY <1>1, OneInside DEF Inside, Pushing, Taking
<1>4. CallInv'
  BY <1>1, <1>2, <1>3 DEF CallInv, LockInv, Asks, Ends, Pushing, Taking
<1>5. Attached' = Attached
  BY <1>1, StaysAttached
<1> QED BY <1>1, <1>2, <1>3, <1>4, <1>5, Quiet DEF CallInv

(* The packet is in the header before its bytes are there.                 *)
LEMMA PushPublishMaps ==
  ASSUME LockInv, CallInv, EffectInv, debug' = debug, PushPublish
  PROVE  CallInv' /\ EffectInv' /\ UNCHANGED Ring!ringVars
<1>1. Move("tx", "publish", "copyHeader") /\ call' = call /\ tmp' = tmp /\ done' = done
      /\ mem' = mem /\ got' = got
  BY DEF PushPublish
<1>2. /\ CallInv' /\ UNCHANGED Ring!ringVars
      /\ at["tx"] = "publish" /\ at'["tx"] = "copyHeader"
      /\ at'["rx"] = at["rx"] /\ at["rx"] \notin Taking /\ tmp["tx"] = done.ring
  BY <1>1, PushGoesOn DEF Pushing
<1>3. ring' = Published(done.ring, call["tx"].packet)
  BY <1>2 DEF PushPublish, Published
<1>4. EffectInv'
  BY <1>1, <1>2, <1>3 DEF EffectInv, Taking, IsHeader, Published
<1> QED BY <1>2, <1>4

(* The packet's header is in the data area, its payload is not.            *)
LEMMA PushHeaderMaps ==
  ASSUME LockInv, CallInv, EffectInv, debug' = debug, PushHeader
  PROVE  CallInv' /\ EffectInv' /\ UNCHANGED Ring!ringVars
<1>1. Move("tx", "copyHeader", "copyData") /\ call' = call /\ tmp' = tmp /\ done' = done
      /\ ring' = ring /\ got' = got
  BY DEF PushHeader
<1>2. /\ CallInv' /\ UNCHANGED Ring!ringVars
      /\ at["tx"] = "copyHeader" /\ at'["tx"] = "copyData"
      /\ at'["rx"] = at["rx"] /\ at["rx"] \notin Taking /\ tmp["tx"] = done.ring
  BY <1>1, PushGoesOn DEF Pushing
<1>3. mem = done.mem
  BY <1>2 DEF EffectInv, Taking
<1>4. mem' = WithHeader(done.ring, call["tx"].packet)
  BY <1>2, <1>3 DEF PushHeader, WithHeader
<1>5. EffectInv'
  BY <1>1, <1>2, <1>4 DEF EffectInv, Taking, IsHeader, Published, WithHeader
<1> QED BY <1>2, <1>5

-----------------------------------------------------------------------------
(* RingBuffer's arithmetic is the ring's own.                              *)
LEMMA SameLayout ==
  /\ \A n : Ring!U32(n) = U32(n) /\ Ring!AlignedSize(n) = AlignedSize(n)
  /\ \A n : Ring!PacketSize(n) = PacketSize(n)
  /\ \A start, size : Ring!Advance(start, size) = Advance(start, size)
  /\ \A front, start : Ring!PushHeaderWraps(front, start) = PushHeaderWraps(front, start)
  /\ \A front, start, size :
       Ring!PushDataWraps(front, start, size) = PushDataWraps(front, start, size)
  /\ \A start, size : Ring!PullWraps(start, size) = PullWraps(start, size)
  /\ \A start, wraps, len : Ring!InBounds(start, wraps, len) = InBounds(start, wraps, len)
  /\ \A m, start, wraps, bytes, len :
       Ring!CopyIn(m, start, wraps, bytes, len) = CopyIn(m, start, wraps, bytes, len)
  /\ \A m, start, wraps, len :
       Ring!CopyOut(m, start, wraps, len) = CopyOut(m, start, wraps, len)
BY DEF Ring!U32, Ring!AlignedSize, Ring!PacketSize, Ring!Advance, Ring!PushHeaderWraps,
       Ring!PushDataWraps, Ring!PullWraps, Ring!InBounds, Ring!Slot, Ring!Addresses,
       Ring!CopyIn, Ring!CopyOut, Ring!ByteAt, U32, AlignedSize, PacketSize, Advance,
       PushHeaderWraps, PushDataWraps, PullWraps, InBounds, Slot, Addresses, CopyIn,
       CopyOut, ByteAt

(* The last step of push() is RingBuffer's push.                           *)
LEMMA PushDataStores ==
  ASSUME LockInv, CallInv, EffectInv, Calm!SizesFit, Calm!RingInv, debug' = debug, PushData
  PROVE  Ring!PushStore(call["tx"].packet)
<1> DEFINE h == done.ring
           p == call["tx"].packet
           size == U32(p.size)
           start == Advance(h.next, HeaderSize)
           dw == PushDataWraps(h.front, start, size)
           hw == PushHeaderWraps(h.front, h.next)
<1>1. /\ at["tx"] = "copyData" /\ "tx" \in Ends /\ Attached = Ends
      /\ p \in Ring!FreshPackets /\ p.size # 0 /\ tmp["tx"] = h
      /\ Ring!PacketSize(p.size) <= h.freeSpace
  BY BothAttached DEF PushData, Move, Ends, CallInv, Asks, Pushing
<1>2. /\ InBounds(h.next, hw, HeaderSize)
      /\ InBounds(start, dw, IF dw THEN size ELSE p.size)
  BY <1>1, RoomToPush
<1>3. /\ ring = Published(h, p) /\ mem = WithHeader(h, p)
  BY <1>1 DEF EffectInv
<1>4. /\ mem' = CopyIn(WithHeader(h, p), start, dw, Ring!DataBytes(p),
                       IF dw THEN size ELSE p.size)
      /\ ring' = Published(h, p)
      /\ done' = [ring    |-> Published(h, p), mem |-> mem',
                  pending |-> Append(done.pending,
                                     [packet |-> p, offset |-> DataSize - h.freeSpace]),
                  result  |-> Ring!Pushed(p, "stored")]
  BY <1>1, <1>3 DEF PushData, Finish
<1>5. Attached' = Attached
  BY <1>1, StaysAttached DEF PushData
<1>6. /\ size = Ring!U32(p.size)
      /\ start = Ring!Advance(h.next, HeaderSize)
      /\ hw = Ring!PushHeaderWraps(h.front, h.next)
      /\ dw = Ring!PushDataWraps(h.front, start, size)
  <2>1. size = Ring!U32(p.size) /\ start = Ring!Advance(h.next, HeaderSize)
    BY SameLayout
  <2>2. hw = Ring!PushHeaderWraps(h.front, h.next)
    BY SameLayout
  <2>3. dw = Ring!PushDataWraps(h.front, start, size)
    BY SameLayout
  <2> QED BY <2>1, <2>2, <2>3
<1>7. /\ done'.ring.next = Ring!Advance(start, Ring!AlignedSize(size))
      /\ done'.ring.freeSpace = Ring!U32(h.freeSpace - HeaderSize - Ring!AlignedSize(size))
      /\ done'.ring.messageCount = Ring!U32(h.messageCount + 1)
      /\ done'.ring.front = h.front
  BY <1>4, SameLayout DEF Published
<1>8. done'.mem = Ring!CopyIn(Ring!CopyIn(done.mem, h.next, hw, Ring!HeaderBytes(p), HeaderSize),
                              start, dw, Ring!DataBytes(p), IF dw THEN size ELSE p.size)
  BY <1>4, SameLayout DEF WithHeader
<1>9. /\ Ring!InBounds(h.next, hw, HeaderSize)
      /\ Ring!InBounds(start, dw, IF dw THEN size ELSE p.size)
  BY <1>2, SameLayout
<1> HIDE DEF size, start, dw, hw
<1> QED BY <1>1, <1>4, <1>5, <1>6, <1>7, <1>8, <1>9
        DEF Ring!PushStore, Ring!Fits, Attached

(* With the payload, the push is done as a whole.                          *)
LEMMA PushDataMaps ==
  ASSUME LockInv, CallInv, EffectInv, Calm!SizesFit, Calm!RingInv, debug' = debug, PushData
  PROVE  CallInv' /\ EffectInv' /\ Ring!Next
<1> DEFINE h == done.ring
           p == call["tx"].packet
<1>1. /\ at["tx"] = "copyData" /\ "tx" \in Ends /\ Attached = Ends /\ at["tx"] \in Pushing
      /\ at' = [at EXCEPT !["tx"] = "unlock"]
      /\ p \in Ring!FreshPackets /\ p.size # 0
      /\ Ring!PacketSize(p.size) <= h.freeSpace
  BY BothAttached DEF PushData, Move, Ends, CallInv, Asks, Pushing
<1>2. PacketSize(p.size) <= h.freeSpace
  BY <1>1, SameLayout
<1>3. U32(h.freeSpace - HeaderSize - AlignedSize(U32(p.size))) # DataSize
  BY <1>1, RoomToPush
<1>4. /\ call' = call /\ tmp' = tmp
      /\ ring' = Published(h, p) /\ done'.ring = Published(h, p)
      /\ \E pending, r : Finish(pending, r)
  BY <1>1 DEF EffectInv, PushData, Finish
<1>5. at'["tx"] = "unlock" /\ at'["rx"] = at["rx"] /\ at["rx"] \notin Taking
  <2>1. at["rx"] \notin Taking
    BY <1>1, OneInside DEF Inside, Pushing, Taking
  <2> QED BY <1>1, <2>1 DEF LockInv, Ends
<1>6. EffectInv'
  <2>1. IsHeader(ring')
    BY <1>4 DEF IsHeader, Published
  <2> QED BY <1>4, <1>5, <2>1, FinishedKeepsEffect
<1>7. CallInv'
  <2>1. done'.ring.freeSpace # DataSize
    BY <1>3, <1>4 DEF Published
  <2> QED BY <1>1, <1>4, <1>5, <2>1 DEF CallInv, LockInv, Asks, Ends, Pushing
<1>8. Ring!PushStore(p)
  BY PushDataStores
<1>9. Ring!Ready("tx")
  BY <1>1 DEF Ring!Ready, Attached, Ends, Ring!Ends
<1> QED BY <1>1, <1>6, <1>7, <1>8, <1>9 DEF Ring!Next, Ring!push

-----------------------------------------------------------------------------
(* pull(), once it has seen a packet, takes it step by step.               *)
LEMMA PullReadMaps ==
  ASSUME LockInv, CallInv, EffectInv, debug' = debug, PullRead
  PROVE  CallInv' /\ EffectInv' /\ UNCHANGED Ring!ringVars
<1>1. /\ at["rx"] = "enter" /\ "rx" \in Ends /\ Move("rx", "enter", "takeHeader")
      /\ at' = [at EXCEPT !["rx"] = "takeHeader"]
      /\ call["rx"].op = "take"
      /\ done' = done /\ ring' = ring /\ mem' = mem /\ call' = call /\ got' = got
      /\ tmp' = [tmp EXCEPT !["rx"] = ring]
  BY DEF PullRead, Move, Ends
<1>2. /\ ring = done.ring /\ mem = done.mem
      /\ at["tx"] \notin Pushing /\ at["rx"] \notin Taking
  BY <1>1, Found
<1>3. /\ at'["tx"] = at["tx"] /\ at'["rx"] = "takeHeader"
      /\ tmp'["rx"] = done.ring /\ DOMAIN tmp' = Ends
  BY <1>1, <1>2 DEF LockInv, CallInv, Ends
<1>4. EffectInv'
  BY <1>1, <1>2, <1>3 DEF EffectInv, Pushing, IsHeader
<1>5. CallInv'
  BY <1>1, <1>2, <1>3 DEF CallInv, LockInv, Asks, Ends, Pushing, Taking
<1>6. Attached' = Attached
  BY <1>1, StaysAttached
<1> QED BY <1>1, <1>4, <1>5, <1>6, Quiet

(* A pull that has seen a packet goes on with it, as push() cannot be      *)
(* inside as well.                                                         *)
LEMMA PullGoesOn ==
  ASSUME LockInv, CallInv, EffectInv, debug' = debug, NEW from \in Taking, NEW to \in Taking,
         Move("rx", from, to), call' = call, DOMAIN tmp' = Ends, done' = done
  PROVE  /\ CallInv' /\ UNCHANGED Ring!ringVars
         /\ at["rx"] = from /\ at'["rx"] = to /\ at'["tx"] = at["tx"] /\ at["tx"] \notin Pushing
<1>1. /\ at["rx"] = from /\ at' = [at EXCEPT !["rx"] = to] /\ "rx" \in Ends
      /\ from # "detached" /\ to # "detached"
  BY DEF Move, Ends, Taking
<1>2. at'["rx"] = to /\ at'["tx"] = at["tx"]
  BY <1>1 DEF LockInv, Ends
<1>3. at["tx"] \notin Pushing
  BY <1>1, OneInside DEF Inside, Pushing, Taking
<1>4. CallInv'
  BY <1>1, <1>2, <1>3 DEF CallInv, LockInv, Asks, Ends, Pushing, Taking
<1>5. Attached' = Attached
  BY <1>1, StaysAttached
<1> QED BY <1>1, <1>2, <1>3, <1>4, <1>5, Quiet

(* The packet's header is copied out and wiped; the shared header is as it *)
(* was.                                                                    *)
LEMMA PullHeaderMaps ==
  ASSUME LockInv, CallInv, EffectInv, debug' = debug, PullHeader
  PROVE  CallInv' /\ EffectInv' /\ UNCHANGED Ring!ringVars
<1> DEFINE h == done.ring
<1>1. /\ Move("rx", "takeHeader", "takeData") /\ at["rx"] = "takeHeader"
      /\ call' = call /\ done' = done /\ ring' = ring
      /\ DOMAIN tmp' = Ends
  BY DEF PullHeader, CallInv, Move
<1>2. /\ CallInv' /\ UNCHANGED Ring!ringVars
      /\ at'["rx"] = "takeData" /\ at'["tx"] = at["tx"] /\ at["tx"] \notin Pushing
  BY <1>1, PullGoesOn DEF Taking
<1>3. tmp["rx"] = h /\ mem = done.mem /\ IsHeader(h)
  BY <1>1, <1>2 DEF EffectInv, Pushing
<1>4. tmp'["rx"] = PastHeader(h) /\ got'.header = HeaderOut(h) /\ mem' = HeaderGone(h)
  <2>1. tmp' = [tmp EXCEPT !["rx"].front = Advance(h.front, HeaderSize),
                           !["rx"].freeSpace = U32(h.freeSpace + HeaderSize)]
    BY <1>3 DEF PullHeader
  <2>2. tmp'["rx"] = [[h EXCEPT !.front = Advance(h.front, HeaderSize)]
                        EXCEPT !.freeSpace = U32(h.freeSpace + HeaderSize)]
    BY <1>3, <2>1 DEF CallInv, Ends
  <2>3. tmp'["rx"] = PastHeader(h)
    BY <1>3, <2>2 DEF PastHeader, IsHeader
  <2> QED BY <1>3, <2>3 DEF PullHeader, HeaderOut, HeaderGone, NoPacket
<1>5. EffectInv'
  BY <1>1, <1>2, <1>4 DEF EffectInv, Pushing, Taking, IsHeader, PastHeader, HeaderOut, HeaderGone,
     Ring!Wiped
<1> QED BY <1>2, <1>5

(* pull() copies as many bytes as the header it took out says, which is    *)
(* the oldest packet's size.                                               *)
LEMMA PullDataMaps ==
  ASSUME LockInv, CallInv, EffectInv, Calm!SizesFit, Calm!RingInv, debug' = debug, PullData
  PROVE  CallInv' /\ EffectInv' /\ UNCHANGED Ring!ringVars
<1> DEFINE h == done.ring
           start == Advance(h.front, HeaderSize)
           wraps == PullWraps(start, Oldest)
<1>1. /\ Move("rx", "takeData", "takeStore") /\ at["rx"] = "takeData" /\ "rx" \in Ends
      /\ call' = call /\ done' = done /\ ring' = ring
      /\ Attached = Ends /\ h.freeSpace # DataSize
  BY BothAttached DEF PullData, CallInv, Move, Ends, Taking
<1>2. /\ tmp["rx"] = PastHeader(h) /\ got.header = HeaderOut(h) /\ mem = HeaderGone(h)
  BY <1>1 DEF EffectInv
<1>3. Ring!SizesRead(got.header) = {Oldest}
  BY <1>1, <1>2, RoomToPull
<1>4. PastHeader(h).front = start
  BY DEF PastHeader
<1>5. /\ got' = [header |-> Ring!Returned(HeaderOut(h)),
                 data   |-> CopyOut(HeaderGone(h), start, wraps, Oldest)]
      /\ mem' = Ring!Wiped(HeaderGone(h), start, wraps, Oldest)
      /\ tmp' = [tmp EXCEPT !["rx"] = PastData(PastHeader(h), Oldest)]
  BY <1>2, <1>3, <1>4 DEF PullData, PastData
<1>6. DOMAIN tmp' = Ends /\ tmp'["rx"] = PastData(PastHeader(h), Oldest)
  BY <1>1, <1>5 DEF CallInv
<1>7. /\ CallInv' /\ UNCHANGED Ring!ringVars
      /\ at'["rx"] = "takeStore" /\ at'["tx"] = at["tx"] /\ at["tx"] \notin Pushing
  BY <1>1, <1>6, PullGoesOn DEF Taking
<1>8. Oldest' = Oldest /\ HeaderOut(h)' = HeaderOut(h) /\ HeaderGone(h)' = HeaderGone(h)
      /\ PastData(PastHeader(h), Oldest)' = PastData(PastHeader(h), Oldest)
      /\ Ring!Returned(HeaderOut(h))' = Ring!Returned(HeaderOut(h))
      /\ Ring!Wiped(HeaderGone(h), start, wraps, Oldest)'
           = Ring!Wiped(HeaderGone(h), start, wraps, Oldest)
  BY <1>1 DEF Oldest, HeaderOut, HeaderGone, PastData, PastHeader, Ring!Rewound, Ring!Returned,
              Ring!Wiped
<1>9. EffectInv'
  BY <1>1, <1>5, <1>6, <1>7, <1>8 DEF EffectInv, Pushing, IsHeader
<1> QED BY <1>7, <1>9

(* The packets that are left lie nearer to front by what was freed.        *)
LEMMA RestOfPending ==
  ASSUME Calm!SizesFit, Calm!RingInv, NEW a \in Nat, NEW freed, freed = HeaderSize + a
  PROVE  [i \in 1 .. Len(done.pending) - 1 |->
               [done.pending[i + 1] EXCEPT !.offset = @ - freed]]
         = [i \in 1 .. Len(done.pending) - 1 |->
               [done.pending[i + 1] EXCEPT !.offset = @ - HeaderSize - a]]
<1>1. done.pending \in Seq(Calm!Stored)
  BY DEF Calm!RingInv, Calm!Shape
<1>2. ASSUME NEW i \in 1 .. Len(done.pending) - 1
      PROVE  done.pending[i + 1] \in Calm!Stored
  BY <1>1, <1>2
<1>3. ASSUME NEW i \in 1 .. Len(done.pending) - 1
      PROVE  [done.pending[i + 1] EXCEPT !.offset = @ - freed]
             = [done.pending[i + 1] EXCEPT !.offset = @ - HeaderSize - a]
  <2>1. done.pending[i + 1].offset \in Nat
    BY <1>2 DEF Calm!Stored
  <2>2. done.pending[i + 1].offset - freed = done.pending[i + 1].offset - HeaderSize - a
    BY <2>1, LayoutAssumption DEF LayoutAssumption
  <2> QED BY <2>2
<1> QED BY <1>3

(* The last step of pull() is RingBuffer's pull.                           *)
LEMMA PullStoreTakes ==
  ASSUME LockInv, CallInv, EffectInv, Calm!SizesFit, Calm!RingInv, debug' = debug, PullStore
  PROVE  Ring!PullTake
<1> DEFINE h == done.ring
           start == Advance(h.front, HeaderSize)
           hw == PullWraps(h.front, HeaderSize)
           dw == PullWraps(start, Oldest)
           free == h.freeSpace + HeaderSize + AlignedSize(Oldest)
           head == HeaderOut(h)
           clean == HeaderGone(h)
<1>1. /\ at["rx"] = "takeStore" /\ "rx" \in Ends /\ Move("rx", "takeStore", "unlock")
      /\ Attached = Ends /\ h.freeSpace # DataSize
  BY BothAttached DEF PullStore, CallInv, Move, Ends, Taking
<1>2. /\ tmp["rx"] = PastData(PastHeader(h), Oldest)
      /\ got = [header |-> Ring!Returned(head), data |-> CopyOut(clean, start, dw, Oldest)]
      /\ mem = Ring!Wiped(clean, start, dw, Oldest)
  BY <1>1 DEF EffectInv
<1>3. /\ Ring!SizesRead(head) = {Oldest}
      /\ InBounds(h.front, hw, HeaderSize)
      /\ InBounds(start, dw, Oldest)
      /\ {h.freeSpace, AlignedSize(Oldest), free} \subseteq Nat
      /\ U32(free) = free /\ U32(h.freeSpace + HeaderSize) = h.freeSpace + HeaderSize
      /\ CopyOut(clean, start, dw, Oldest) = CopyOut(done.mem, start, dw, Oldest)
  BY <1>1, RoomToPull
<1>4. PastData(PastHeader(h), Oldest)
        = [front |-> Ring!Rewound(Advance(start, AlignedSize(Oldest)), free),
           next |-> Ring!Rewound(h.next, free), freeSpace |-> free,
           messageCount |-> U32(h.messageCount - 1)]
  BY <1>3 DEF PastData, PastHeader
<1>5. free - h.freeSpace = HeaderSize + AlignedSize(Oldest)
  BY <1>3, LayoutAssumption DEF LayoutAssumption
<1>6. done'.pending = [i \in 1 .. Len(done.pending) - 1 |->
         [done.pending[i + 1] EXCEPT !.offset = @ - (free - h.freeSpace)]]
  BY <1>2, <1>4 DEF PullStore, Finish
<1>7. done'.pending = Ring!Rest(Oldest)
  <2>1. AlignedSize(Oldest) \in Nat
    BY <1>3
  <2>2. done'.pending = [i \in 1 .. Len(done.pending) - 1 |->
           [done.pending[i + 1] EXCEPT !.offset = @ - HeaderSize - AlignedSize(Oldest)]]
    BY <1>5, <1>6, <2>1, RestOfPending
  <2> QED BY <2>2, SameLayout DEF Ring!Rest
<1>8. /\ done'.ring = PastData(PastHeader(h), Oldest) /\ done'.mem = mem
      /\ done'.result = [pulled |-> got]
  BY <1>2 DEF PullStore, Finish
<1>9. Attached' = Attached
  BY <1>1, StaysAttached
<1>10. /\ start = Ring!Advance(h.front, HeaderSize)
       /\ hw = Ring!PullWraps(h.front, HeaderSize)
       /\ dw = Ring!PullWraps(start, Oldest)
       /\ AlignedSize(Oldest) = Ring!AlignedSize(Oldest)
       /\ free = Ring!U32(h.freeSpace + HeaderSize + Ring!AlignedSize(Oldest))
       /\ Advance(start, AlignedSize(Oldest)) = Ring!Advance(start, Ring!AlignedSize(Oldest))
       /\ U32(h.messageCount - 1) = Ring!U32(h.messageCount - 1)
  <2>1. start = Ring!Advance(h.front, HeaderSize) /\ AlignedSize(Oldest) = Ring!AlignedSize(Oldest)
    BY SameLayout
  <2>2. hw = Ring!PullWraps(h.front, HeaderSize)
    BY SameLayout
  <2>3. dw = Ring!PullWraps(start, Oldest)
    BY SameLayout
  <2>4. /\ free = Ring!U32(h.freeSpace + HeaderSize + Ring!AlignedSize(Oldest))
        /\ Advance(start, AlignedSize(Oldest)) = Ring!Advance(start, Ring!AlignedSize(Oldest))
        /\ U32(h.messageCount - 1) = Ring!U32(h.messageCount - 1)
    BY <1>3, SameLayout
  <2> QED BY <2>1, <2>2, <2>3, <2>4
<1>11. /\ head = Ring!CopyOut(done.mem, h.front, hw, HeaderSize)
       /\ clean = Ring!Wiped(done.mem, h.front, hw, HeaderSize)
       /\ CopyOut(done.mem, start, dw, Oldest) = Ring!CopyOut(done.mem, start, dw, Oldest)
  BY SameLayout DEF HeaderOut, HeaderGone
<1>12. Ring!InBounds(h.front, hw, HeaderSize) /\ Ring!InBounds(start, dw, Oldest)
  BY <1>3, SameLayout
<1>13. /\ done'.ring.front = Ring!Rewound(Ring!Advance(start, Ring!AlignedSize(Oldest)), free)
       /\ done'.ring.next = Ring!Rewound(h.next, free)
       /\ done'.ring.freeSpace = free
       /\ done'.ring.messageCount = Ring!U32(h.messageCount - 1)
       /\ done'.mem = Ring!Wiped(Ring!Wiped(done.mem, h.front, hw, HeaderSize), start, dw, Oldest)
       /\ done'.result = [pulled |-> [header |-> Ring!Returned(head),
                                      data |-> Ring!CopyOut(done.mem, start, dw, Oldest)]]
  BY <1>2, <1>3, <1>4, <1>8, <1>10, <1>11
<1> HIDE DEF start, hw, dw, free, head, clean
<1> QED BY <1>1, <1>3, <1>7, <1>9, <1>10, <1>11, <1>12, <1>13
        DEF Ring!PullTake, Ring!Empty, Attached

(* When the header is stored back, the pull is done as a whole.            *)
LEMMA PullStoreMaps ==
  ASSUME LockInv, CallInv, EffectInv, Calm!SizesFit, Calm!RingInv, debug' = debug, PullStore
  PROVE  CallInv' /\ EffectInv' /\ Ring!Next
<1>1. /\ at["rx"] = "takeStore" /\ "rx" \in Ends /\ at["rx"] \in Taking /\ at["rx"] \in Inside
      /\ at' = [at EXCEPT !["rx"] = "unlock"]
      /\ call' = [call EXCEPT !["rx"].op = "taken"] /\ tmp' = tmp
      /\ ring' = tmp["rx"] /\ Attached = Ends
      /\ \E pending, r : Finish(pending, r)
  BY BothAttached DEF PullStore, Move, Ends, Taking, Inside
<1>2. at'["rx"] = "unlock" /\ at'["tx"] = at["tx"] /\ at["tx"] \notin Pushing
  <2>1. at["tx"] \notin Pushing
    BY <1>1, OneInside DEF Inside, Pushing, Taking
  <2> QED BY <1>1, <2>1 DEF LockInv, Ends
<1>3. EffectInv'
  <2>1. IsHeader(ring')
    BY <1>1 DEF EffectInv, PastData, IsHeader
  <2> QED BY <1>1, <1>2, <2>1, FinishedKeepsEffect DEF Taking, Pushing
<1>4. CallInv'
  BY <1>1, <1>2 DEF CallInv, LockInv, Asks, Ends, Pushing, Taking
<1>5. Ring!PullTake
  BY PullStoreTakes
<1>6. Ring!Ready("rx")
  BY <1>1 DEF Ring!Ready, Attached, Ends, Ring!Ends
<1> QED BY <1>3, <1>4, <1>5, <1>6 DEF Ring!Next, Ring!pull

-----------------------------------------------------------------------------
(* The results.                                                            *)

(* The inductive invariant, with RingBuffer's for the last finished call.  *)
IInv == LockInv /\ CallInv /\ EffectInv /\ Calm!RingInv

(* The two instances of RingBuffer have the same initial states.           *)
LEMMA SameInit == Ring!Init => Calm!Init
BY DEF Ring!Init, Calm!Init, Ring!Addresses, Calm!Addresses, Ring!Blank, Calm!Blank,
       Ring!Byte, Calm!Byte

(* The invariant holds at the start, which is a start of RingBuffer.       *)
LEMMA InitHolds == ASSUME Init PROVE IInv /\ Ring!Init
<1>1. LockInv
  BY DEF Init, Lock!Init, LockInv, Ends, Lock!Sides, TxPoints, RxPoints, Inside, Pushing,
         Taking, FlagUpPcs
<1>2. CallInv
  BY DEF Init, CallInv, Ends, Pushing, Taking, NoCall
<1>3. EffectInv
  BY DEF Init, EffectInv, IsHeader, Ends, Taking, ZeroHeader
<1>4. Ring!Init
  BY DEF Init, Ring!Init, ZeroHeader, Ends, Addresses, Ring!Addresses
<1>5. Calm!Init
  BY <1>4, SameInit
<1> QED BY <1>1, <1>2, <1>3, <1>4, <1>5, InitCalm DEF IInv

(* Every step is one of RingBuffer's, or none that callers can see.        *)
LEMMA StepMaps ==
  ASSUME LockInv, CallInv, EffectInv, Calm!SizesFit, Calm!RingInv, Next
  PROVE  CallInv' /\ EffectInv' /\ [Ring!Next]_Ring!ringVars
<1>1. debug' = debug
  BY DEF Next
<1>2. ASSUME NEW end \in Ends, Attach(end) PROVE CallInv' /\ EffectInv' /\ Ring!Next
  BY <1>1, <1>2, AttachMaps
<1>3. ASSUME NEW end \in Ends,
             Begin(end) \/ Locking(end) \/ Unlocking(end) \/ Unlocked(end)
      PROVE  CallInv' /\ EffectInv' /\ UNCHANGED Ring!ringVars
  BY <1>1, <1>3, AroundKeepsCall, AroundKeepsEffect
<1>4. ASSUME NEW end \in Ends, Query(end) PROVE CallInv' /\ EffectInv' /\ Ring!Next
  BY <1>1, <1>4, QueryMaps
<1>5. CASE PushNothing
  BY <1>1, <1>5, PushNothingMaps
<1>6. CASE PushRead \/ PushPublish \/ PushHeader \/ PushData
  BY <1>1, <1>6, PushReadMaps, PushPublishMaps, PushHeaderMaps, PushDataMaps
<1>7. CASE PullCheck \/ PullRead \/ PullHeader \/ PullData \/ PullStore
  BY <1>1, <1>7, PullCheckMaps, PullReadMaps, PullHeaderMaps, PullDataMaps, PullStoreMaps
<1> QED BY <1>2, <1>3, <1>4, <1>5, <1>6, <1>7 DEF Next

(* And it keeps the invariant.                                             *)
LEMMA StepHolds ==
  ASSUME SizesFit, IInv, [Next]_lockedVars
  PROVE  IInv' /\ [Ring!Next]_Ring!ringVars
<1>1. LockInv'
  BY LockKeeps DEF IInv
<1>2. Calm!SizesFit
  BY SameSizes
<1>3. CASE Next
  <2>1. CallInv' /\ EffectInv' /\ [Ring!Next]_Ring!ringVars
    BY <1>2, <1>3, StepMaps DEF IInv
  <2>2. [Calm!Next]_Calm!ringVars
    BY <2>1, SameNext
  <2>3. Calm!RingInv'
    BY <1>2, <2>2, StepCalm DEF IInv
  <2> QED BY <1>1, <2>1, <2>3 DEF IInv
<1>4. CASE UNCHANGED lockedVars
  <2>1. UNCHANGED Ring!ringVars
    BY <1>4, Quiet DEF lockedVars, Attached
  <2>2. CallInv' /\ EffectInv'
    BY <1>4 DEF lockedVars, IInv, CallInv, EffectInv, Asks, WithHeader, HeaderOut, HeaderGone,
                Oldest, PastData, PastHeader, Ring!Rewound, Ring!Returned, Ring!Wiped
  <2>3. [Calm!Next]_Calm!ringVars
    BY <2>1, SameVars
  <2>4. Calm!RingInv'
    BY <1>2, <2>3, StepCalm DEF IInv
  <2> QED BY <1>1, <2>1, <2>2, <2>4 DEF IInv
<1> QED BY <1>3, <1>4

(* The invariant holds of every behaviour.                                 *)
THEOREM LockedCorrect == ASSUME SizesFit PROVE Spec => []IInv
<1>1. Init => IInv
  BY InitHolds
<1>2. IInv /\ [Next]_lockedVars => IInv'
  BY StepHolds
<1> QED BY <1>1, <1>2, PTL DEF Spec

(* Every interleaving of the two ends' steps is a sequence of whole calls: *)
(* push() and pull() of LockedRing implement those of RingBuffer, although *)
(* push() announces its packet before the bytes are there.                 *)
THEOREM CallsAreAtomic == ASSUME SizesFit PROVE Spec => CallsAtomic
<1>1. Init => Ring!Init
  BY InitHolds
<1>2. IInv /\ [Next]_lockedVars => [Ring!Next]_Ring!ringVars
  BY StepHolds
<1> QED BY <1>1, <1>2, LockedCorrect, PTL DEF Spec, CallsAtomic, Ring!Spec

(* Whoever leaves the lock, a push() that throws included, leaves the ring *)
(* as the last finished call made it.                                      *)
THEOREM NothingLeftHalfDone == ASSUME SizesFit PROVE Spec => []NothingHalfDone
<1>1. IInv => NothingHalfDone
  BY DEF IInv, EffectInv, NothingHalfDone, Ends, Taking
<1> QED BY <1>1, LockedCorrect, PTL

(* The packet pull() saw under its first hold of the lock is there under   *)
(* the second.                                                             *)
THEOREM PacketStillThere == ASSUME SizesFit PROVE Spec => []CheckStillHolds
<1>1. ASSUME IInv PROVE CheckStillHolds
  <2> SUFFICES ASSUME call["rx"].op = "take", at["rx"] \in {"lock", "enter"}
               PROVE  done.pending # << >> /\ ring.freeSpace # DataSize
    BY DEF CheckStillHolds
  <2>1. done.ring.freeSpace # DataSize /\ Attached = Ends
    BY <1>1, BothAttached DEF IInv, CallInv, Ends
  <2>2. Calm!SizesFit /\ Calm!RingInv
    BY <1>1, SameSizes DEF IInv
  <2>3. done.pending # << >>
    BY <2>1, <2>2, RoomToPull
  <2>4. CASE at["tx"] \in {"copyHeader", "copyData"}
    <3> DEFINE p == call["tx"].packet
    <3>1. /\ p \in Ring!FreshPackets /\ p.size # 0
          /\ Ring!PacketSize(p.size) <= done.ring.freeSpace
      BY <1>1, <2>4 DEF IInv, CallInv, Asks, Pushing
    <3>2. U32(done.ring.freeSpace - HeaderSize - AlignedSize(U32(p.size))) # DataSize
      BY <2>1, <2>2, <3>1, RoomToPush
    <3>3. ring = Published(done.ring, p)
      BY <1>1, <2>4 DEF IInv, EffectInv
    <3> QED BY <2>3, <3>2, <3>3 DEF Published
  <2>5. CASE at["tx"] \notin {"copyHeader", "copyData"}
    BY <1>1, <2>1, <2>3, <2>5 DEF IInv, EffectInv
  <2> QED BY <2>4, <2>5
<1> QED BY <1>1, LockedCorrect, PTL

(* What the two ends do through the lock, step by step, is what a bounded  *)
(* first-in first-out queue does: RingIsFifo for whole calls, and calls    *)
(* are whole.                                                              *)
THEOREM LockedIsFifo == ASSUME SizesFit PROVE Spec => Calm!FifoSpec
<1>1. Ring!Init => Calm!Init
  BY SameInit
<1>2. [Ring!Next]_Ring!ringVars => [Calm!Next]_Calm!ringVars
  BY SameNext
<1>3. Calm!Spec => Calm!FifoSpec
  BY Calm!RingIsFifo, SameSizes, Grounds, LayoutAssumption
<1> QED BY <1>1, <1>2, <1>3, CallsAreAtomic, PTL DEF CallsAtomic, Ring!Spec, Calm!Spec

=============================================================================

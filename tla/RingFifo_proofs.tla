--------------------------- MODULE RingFifo_proofs ---------------------------
(***************************************************************************)
(* The ring implements the bounded first-in first-out queue of PacketFifo, *)
(* for every size of its data area, of the packet header, of the alignment *)
(* and of the payloads.                                                    *)
(***************************************************************************)
EXTENDS RingBuffer_proofs, SequenceTheorems

(* What pull() has handed over is a packet that was pushed, in full.       *)
WholeDelivered ==
    "pulled" \in DOMAIN result => \E p \in FreshPackets : result.pulled = Delivered(p)

(* The payloads of some packets in a ring.                                 *)
Contents(s) == [i \in DOMAIN s |-> Payload(s[i].packet)]

-----------------------------------------------------------------------------
(* Packets.                                                                *)

(* A header and a payload tell whose they are.                             *)
LEMMA DeliveredInjective ==
  ASSUME SizesFit, NEW p \in FreshPackets, NEW q \in FreshPackets,
         Delivered(p) = Delivered(q)
  PROVE  Payload(p) = Payload(q)
<1>1. p.size \in Nat /\ q.size \in Nat
  BY FreshFacts
<1>2. DataBytes(p) = DataBytes(q) /\ Returned(HeaderBytes(p)) = Returned(HeaderBytes(q))
  BY DEF Delivered
<1>3. p.size = q.size
  <2>1. 0 .. p.size - 1 = 0 .. q.size - 1
    BY <1>2 DEF DataBytes
  <2>2. p.size > q.size => q.size \in 0 .. p.size - 1 /\ q.size \notin 0 .. q.size - 1
    BY <1>1
  <2>3. q.size > p.size => p.size \in 0 .. q.size - 1 /\ p.size \notin 0 .. p.size - 1
    BY <1>1
  <2> QED BY <1>1, <2>1, <2>2, <2>3
<1>4. ASSUME NEW r \in FreshPackets PROVE Returned(HeaderBytes(r))[0].id = r.id
  <2>1. 0 \in 0 .. HeaderSize - 1 /\ 0 \notin SizeField
    BY Layout DEF SizeField
  <2>2. /\ 0 \in DOMAIN HeaderBytes(r)
        /\ HeaderBytes(r)[0] = Byte(r.id, 0, 0)
    BY <2>1 DEF HeaderBytes
  <2> QED BY <2>1, <2>2 DEF Returned, Byte
<1>5. p.id = q.id
  BY <1>2, <1>4
<1> QED BY <1>3, <1>5 DEF Payload

(* Hence what is delivered is decoded to the packet it was.                *)
LEMMA DecodedDelivered ==
  SizesFit => \A p \in FreshPackets : Decoded(Delivered(p)) = Payload(p)
<1> SUFFICES ASSUME SizesFit, NEW p \in FreshPackets
             PROVE  Decoded(Delivered(p)) = Payload(p)
  OBVIOUS
<1> DEFINE q == CHOOSE q \in FreshPackets : Delivered(p) = Delivered(q)
<1>1. q \in FreshPackets /\ Delivered(p) = Delivered(q)
  OBVIOUS
<1>2. Decoded(Delivered(p)) = Payload(q)
  BY DEF Decoded
<1> HIDE DEF q
<1> QED BY <1>1, <1>2, DeliveredInjective

(* The same after a step.                                                  *)
LEMMA DecodedDeliveredNext ==
  (SizesFit => \A p \in FreshPackets : Decoded(Delivered(p)) = Payload(p))'
BY DecodedDelivered, PTL

-----------------------------------------------------------------------------
(* The queue.                                                              *)

(* The contents of a ring are as many as its packets.                      *)
LEMMA ContentsFacts ==
  ASSUME NEW s \in Seq(Stored)
  PROVE  /\ Contents(s) \in Seq(Payloads)
         /\ Len(Contents(s)) = Len(s)
         /\ \A i \in 1 .. Len(s) : Contents(s)[i] = Payload(s[i].packet)
<1>1. Len(s) \in Nat /\ DOMAIN s = 1 .. Len(s)
  BY LenProperties
<1>2. ASSUME NEW i \in 1 .. Len(s) PROVE Payload(s[i].packet) \in Payloads
  <2>1. s[i] \in Stored
    BY ElementOfSeq
  <2> QED BY <2>1 DEF Stored, Payloads
<1>3. Contents(s) \in [1 .. Len(s) -> Payloads]
  BY <1>1, <1>2 DEF Contents
<1> QED BY <1>1, <1>3, SeqDef DEF Contents

(* One packet more in the ring is one payload more in the queue.           *)
LEMMA ContentsOfAppend ==
  ASSUME NEW s \in Seq(Stored), NEW e \in Stored
  PROVE  Contents(Append(s, e)) = Append(Contents(s), Payload(e.packet))
<1> DEFINE t == Append(s, e)
           u == Append(Contents(s), Payload(e.packet))
<1>1. t \in Seq(Stored) /\ Len(t) = Len(s) + 1 /\ Len(s) \in Nat
  BY LenProperties
<1>2. /\ \A i \in 1 .. Len(s) : t[i] = s[i]
      /\ t[Len(s) + 1] = e
  BY <1>1
<1>3. /\ Contents(s) \in Seq(Payloads) /\ Len(Contents(s)) = Len(s)
      /\ \A i \in 1 .. Len(s) : Contents(s)[i] = Payload(s[i].packet)
  BY ContentsFacts
<1>4. Payload(e.packet) \in Payloads
  BY DEF Stored, Payloads
<1>5. u \in Seq(Payloads) /\ Len(u) = Len(s) + 1
  BY <1>3, <1>4
<1>6. /\ \A i \in 1 .. Len(s) : u[i] = Contents(s)[i]
      /\ u[Len(s) + 1] = Payload(e.packet)
  BY <1>3, <1>4
<1> HIDE DEF t, u
<1>7. /\ Contents(t) \in Seq(Payloads) /\ Len(Contents(t)) = Len(t)
      /\ \A i \in 1 .. Len(t) : Contents(t)[i] = Payload(t[i].packet)
  BY <1>1, ContentsFacts
<1>8. ASSUME NEW i \in 1 .. Len(t) PROVE Contents(t)[i] = u[i]
  <2>1. CASE i \in 1 .. Len(s)
    BY <1>2, <1>3, <1>6, <1>7, <2>1
  <2>2. CASE i = Len(s) + 1
    BY <1>2, <1>6, <1>7, <2>2
  <2> QED BY <1>1, <2>1, <2>2
<1>9. Contents(t) = u
  BY <1>1, <1>5, <1>7, <1>8, SeqEqual
<1> QED BY <1>9 DEF t, u

(* The packets that are left are those behind the oldest.                  *)
LEMMA ContentsOfRest ==
  ASSUME pending \in Seq(Stored), pending # << >>, NEW size,
         Rest(size) \in Seq(Stored)
  PROVE  Contents(Rest(size)) = Tail(Contents(pending))
<1> DEFINE t == Rest(size)
           c == Contents(pending)
           n == Len(pending)
<1>1. n \in Nat \ {0} /\ DOMAIN pending = 1 .. n
  BY EmptySeq, LenProperties
<1> HIDE DEF n
<1>2. /\ c \in Seq(Payloads) /\ Len(c) = n
      /\ \A i \in 1 .. n : c[i] = Payload(pending[i].packet)
  BY ContentsFacts DEF n
<1> HIDE DEF c
<1>3. Len(t) = n - 1
  <2>1. DOMAIN t = 1 .. n - 1
    BY DEF Rest, n
  <2> QED BY <1>1, <2>1, LenProperties
<1>4. ASSUME NEW i \in 1 .. n - 1 PROVE t[i].packet = pending[i + 1].packet
  <2>1. i + 1 \in 1 .. n
    BY <1>1
  <2>2. pending[i + 1] \in Stored
    BY <1>1, <2>1, ElementOfSeq DEF n
  <2>3. t[i] = [pending[i + 1] EXCEPT !.offset = @ - HeaderSize - AlignedSize(size)]
    BY DEF Rest, n
  <2> QED BY <2>2, <2>3 DEF Stored
<1> HIDE DEF t
<1>5. /\ Contents(t) \in Seq(Payloads) /\ Len(Contents(t)) = n - 1
      /\ \A i \in 1 .. n - 1 : Contents(t)[i] = Payload(t[i].packet)
  BY <1>3, ContentsFacts DEF t
<1>6. c # << >>
  BY <1>1, <1>2, EmptySeq
<1>7. /\ Tail(c) \in Seq(Payloads) /\ Len(Tail(c)) = n - 1
      /\ \A i \in 1 .. n - 1 : Tail(c)[i] = c[i + 1]
  BY <1>2, <1>6, HeadTailProperties
<1>8. ASSUME NEW i \in 1 .. n - 1 PROVE Contents(t)[i] = Tail(c)[i]
  BY <1>1, <1>2, <1>4, <1>5, <1>7
<1>9. Contents(t) = Tail(c)
  BY <1>5, <1>7, <1>8, SeqEqual
<1> QED BY <1>9 DEF t, c

-----------------------------------------------------------------------------
(* Calls.                                                                  *)

(* pull() copies out the header and the payload of the oldest packet.      *)
LEMMA OldestDelivered ==
  ASSUME SizesFit, RingInv, attached = Ends, PullTake
  PROVE  /\ pending # << >> /\ pending[1] \in Stored
         /\ pending' = Rest(pending[1].packet.size)
         /\ result' = [pulled |-> Delivered(pending[1].packet)]
         /\ freeSpace' = freeSpace + Extent(1)
<1> DEFINE p == pending[1].packet
           fp == Footprint(p.size)
           start == Advance(front, HeaderSize)
           hw == PullWraps(front, HeaderSize)
           dw == PullWraps(start, p.size)
           head == CopyOut(mem, front, hw, HeaderSize)
           data == CopyOut(mem, start, dw, p.size)
<1>1. /\ 1 \in DOMAIN pending /\ pending[1].offset = 0
      /\ SizesRead(head) = {p.size}
  BY OldestSize DEF PullTake, Empty
<1>2. /\ result' = [pulled |-> [header |-> Returned(head), data |-> data]]
      /\ pending' = Rest(p.size)
      /\ freeSpace' = U32(freeSpace + HeaderSize + AlignedSize(p.size))
  BY <1>1 DEF PullTake
<1>3. pending \in Seq(Stored) /\ pending # << >> /\ pending[1] \in Stored
  BY <1>1 DEF RingInv, Shape
<1>4. /\ p \in FreshPackets /\ p.size \in Nat \ {0} /\ fp \in Nat
      /\ HeaderSize + p.size <= fp /\ AlignedSize(p.size) = fp - HeaderSize
  BY <1>3, FreshFacts, FootprintFacts DEF Stored
<1>5. /\ Taken = DataSize - freeSpace /\ freeSpace \in Nat /\ front \in Addresses
      /\ Taken <= DataSize /\ fp <= Taken
  <2>1. pending[1].offset + Extent(1) <= Taken
    BY <1>1 DEF RingInv, Shape, Within
  <2> QED BY <1>1, <1>4, <2>1, Layout DEF RingInv, TypeOK, Taken, Ends, Extent
<1>6. freeSpace' = freeSpace + Extent(1)
  <2>1. freeSpace + HeaderSize + AlignedSize(p.size) = freeSpace + fp
    BY <1>4, <1>5, Layout
  <2>2. freeSpace + fp < WordSize
    BY <1>4, <1>5, Layout
  <2> QED BY <1>2, <1>4, <1>5, <2>1, <2>2, Unwrapped DEF Extent
<1> HIDE DEF fp, p
<1>7. /\ start \in Addresses /\ start = (front + HeaderSize) % DataSize
      /\ front + HeaderSize > DataSize => hw
      /\ start + p.size > DataSize => dw
  <2>1. fp <= DataSize
    BY <1>4, <1>5, Layout
  <2> QED BY <1>4, <1>5, <2>1, PullGeometry
<1>8. HeaderSize \in 0 .. DataSize /\ p.size \in 0 .. DataSize /\ hw \in BOOLEAN /\ dw \in BOOLEAN
  BY <1>4, <1>5, Layout DEF PullWraps
<1>9. head = HeaderBytes(p)
  <2>1. DOMAIN head = 0 .. HeaderSize - 1
    BY <1>5, <1>7, <1>8, SlotInRing DEF CopyOut
  <2>2. ASSUME NEW k \in 0 .. HeaderSize - 1 PROVE head[k] = HeaderBytes(p)[k]
    <3>1. head[k] = mem[(front + k) % DataSize]
      BY <1>5, <1>7, <1>8, CopyOutAt
    <3>2. Place(1, k) = (front + k) % DataSize
      BY <1>1, <1>5, Layout DEF Place, Addresses
    <3>3. mem[Place(1, k)] = HeaderBytes(p)[k]
      BY <1>1 DEF RingInv, PacketsIntact, p
    <3> QED BY <3>1, <3>2, <3>3
  <2>3. head = [k \in 0 .. HeaderSize - 1 |-> head[k]]
    BY <2>1 DEF CopyOut
  <2> HIDE DEF head
  <2> QED BY <2>2, <2>3 DEF HeaderBytes
<1>10. data = DataBytes(p)
  <2>1. DOMAIN data = 0 .. p.size - 1
    BY <1>7, <1>8, SlotInRing DEF CopyOut
  <2>2. ASSUME NEW k \in 0 .. p.size - 1 PROVE data[k] = DataBytes(p)[k]
    <3>1. data[k] = mem[(start + k) % DataSize]
      BY <1>7, <1>8, CopyOutAt
    <3>2. (start + k) % DataSize = (front + (HeaderSize + k)) % DataSize
      <4>1. k \in Nat /\ HeaderSize + k < DataSize
        BY <1>4, <1>5, Layout
      <4> QED BY <1>5, <1>7, <4>1, AroundOnce
    <3>3. Place(1, HeaderSize + k) = (front + (HeaderSize + k)) % DataSize
      BY <1>1, <1>5, Layout DEF Place, Addresses
    <3>4. mem[Place(1, HeaderSize + k)] = DataBytes(p)[k]
      BY <1>1 DEF RingInv, PacketsIntact, p
    <3> QED BY <3>1, <3>2, <3>3, <3>4
  <2>3. data = [k \in 0 .. p.size - 1 |-> data[k]]
    BY <2>1 DEF CopyOut
  <2> HIDE DEF data
  <2> QED BY <2>2, <2>3 DEF DataBytes
<1> HIDE DEF head, data
<1> QED BY <1>2, <1>3, <1>6, <1>9, <1>10 DEF Delivered, p

-----------------------------------------------------------------------------
(* A packet in the ring takes room.                                        *)
LEMMA OldestTakesRoom ==
  ASSUME SizesFit, pending[1] \in Stored
  PROVE  /\ Extent(1) \in Nat /\ 0 < Extent(1)
         /\ pending[1].packet \in FreshPackets
         /\ pending[1].packet.size \in Nat \ {0} /\ pending[1].packet.size \in Sizes
         /\ Extent(1) = Room[pending[1].packet.size]
BY FreshFacts, FootprintFacts, Layout DEF Stored, Extent, Room

(* What the queue looks like in a ring that RingInv holds of.              *)
LEMMA QueueFacts ==
  ASSUME SizesFit, RingInv
  PROVE  /\ pending \in Seq(Stored)
         /\ Queue = Contents(pending) /\ Queue \in Seq(Payloads)
         /\ Len(Queue) = Len(pending)
         /\ Queue = << >> <=> pending = << >>
         /\ Taken \in Nat /\ Taken <= DataSize
         /\ attached = Ends => Taken = DataSize - freeSpace /\ freeSpace \in Nat
         /\ pending = << >> <=> Taken = 0
<1>1. pending \in Seq(Stored)
  BY DEF RingInv, Shape
<1>2. Queue = Contents(pending)
  BY DEF Queue, Contents
<1>3. Queue \in Seq(Payloads) /\ Len(Queue) = Len(pending)
  BY <1>1, <1>2, ContentsFacts
<1>4. Queue = << >> <=> pending = << >>
  BY <1>1, <1>3, EmptySeq
<1>5. /\ Taken \in Nat /\ Taken <= DataSize
      /\ attached = Ends => Taken = DataSize - freeSpace /\ freeSpace \in Nat
  BY Layout DEF RingInv, TypeOK, Taken, Ends
<1>6. pending = << >> <=> Taken = 0
  <2>1. pending = << >> => Taken = 0
    BY DEF RingInv, HeaderDescribesRing
  <2>2. ASSUME pending # << >> PROVE Taken # 0
    <3>1. 1 \in DOMAIN pending /\ pending[1] \in Stored
      BY <1>1, <2>2
    <3>2. pending[1].offset \in Nat /\ pending[1].offset + Extent(1) <= Taken
      BY <3>1 DEF RingInv, Shape, Within, Stored
    <3> QED BY <1>5, <3>1, <3>2, OldestTakesRoom
  <2> QED BY <2>1, <2>2
<1> QED BY <1>1, <1>2, <1>3, <1>4, <1>5, <1>6

(* push() of a packet that fits is sending it.                             *)
LEMMA PushMaps ==
  ASSUME SizesFit, RingInv, attached = Ends, NEW p \in FreshPackets, PushStore(p)
  PROVE  Fifo!Send(Payload(p))
<1> DEFINE e == [packet |-> p, offset |-> DataSize - freeSpace]
           fp == Footprint(p.size)
<1>1. /\ p.size \in Nat \ {0} /\ p.size \in Sizes
      /\ fp \in Nat /\ fp < WordSize /\ HeaderSize + p.size <= fp
      /\ U32(p.size) = p.size /\ AlignedSize(p.size) = fp - HeaderSize
      /\ PacketSize(p.size) = fp
  BY FreshFacts, FootprintFacts DEF PushStore
<1> HIDE DEF fp
<1>2. /\ Taken = DataSize - freeSpace /\ freeSpace \in Nat /\ Taken \in Nat
      /\ pending \in Seq(Stored) /\ Queue = Contents(pending)
  BY QueueFacts
<1>3. fp <= freeSpace
  BY <1>1 DEF PushStore, Fits
<1>4. e \in Stored
  BY <1>1, <1>2 DEF Stored
<1>5. Queue' = Append(Queue, Payload(p))
  <2>1. pending' = Append(pending, e)
    BY DEF PushStore
  <2>2. Queue' = Contents(Append(pending, e))
    BY <2>1 DEF Queue, Contents
  <2> QED BY <1>2, <1>4, <2>2, ContentsOfAppend
<1>6. freeSpace' = freeSpace - fp
  <2>1. freeSpace - HeaderSize - AlignedSize(p.size) = freeSpace - fp
    BY <1>1, <1>2, Layout
  <2>2. freeSpace - fp \in Nat /\ freeSpace - fp < WordSize
    BY <1>1, <1>2, <1>3, Layout
  <2>3. freeSpace' = U32(freeSpace - HeaderSize - AlignedSize(p.size))
    BY <1>1 DEF PushStore
  <2> QED BY <2>1, <2>2, <2>3, Unwrapped
<1>7. Taken' = Taken + fp
  <2>1. attached' = Ends
    BY DEF PushStore
  <2>2. Taken' = DataSize - freeSpace'
    BY <2>1 DEF Taken, Ends
  <2> QED BY <1>1, <1>2, <1>6, <2>2, Layout
<1>8. Reply' = [push |-> Payload(p), answer |-> "stored"]
  <2>1. result' = [push |-> Payload(p), answer |-> "stored"]
    BY DEF PushStore, Pushed
  <2> QED BY <2>1 DEF Reply
<1>9. Payload(p).size = p.size /\ Room[p.size] = fp
  BY <1>1 DEF Payload, Room, fp
<1>10. Payload(p).size > 0 /\ Taken + Room[Payload(p).size] <= DataSize
  BY <1>1, <1>2, <1>3, <1>9, Layout
<1> QED BY <1>5, <1>7, <1>8, <1>9, <1>10 DEF Fifo!Send

(* pull() of a packet is receiving it.                                     *)
LEMMA PullMaps ==
  ASSUME SizesFit, RingInv, RingInv', attached = Ends, PullTake, debug' = debug
  PROVE  Fifo!Receive /\ WholeDelivered'
<1> DEFINE p == pending[1].packet
<1>1. /\ pending # << >> /\ pending[1] \in Stored
      /\ pending' = Rest(p.size)
      /\ result' = [pulled |-> Delivered(p)]
      /\ freeSpace' = freeSpace + Extent(1)
  BY OldestDelivered
<1>2. /\ p \in FreshPackets /\ Extent(1) \in Nat /\ 0 < Extent(1)
      /\ Extent(1) = Room[p.size]
  BY <1>1, OldestTakesRoom
<1>3. /\ Taken = DataSize - freeSpace /\ freeSpace \in Nat
      /\ pending \in Seq(Stored) /\ Queue = Contents(pending) /\ Queue # << >>
      /\ Queue \in Seq(Payloads) /\ Len(Queue) = Len(pending)
  BY <1>1, QueueFacts
<1>4. Queue' = Tail(Queue)
  <2>1. pending' \in Seq(Stored)
    BY DEF RingInv, Shape
  <2>2. Queue' = Contents(Rest(p.size))
    BY <1>1 DEF Queue, Contents
  <2>3. Contents(Rest(p.size)) = Tail(Contents(pending))
    <3>1. Rest(p.size) \in Seq(Stored)
      BY <1>1, <2>1
    <3> HIDE DEF p
    <3> QED BY <1>1, <1>3, <3>1, ContentsOfRest
  <2> QED BY <1>3, <2>2, <2>3
<1>5. Head(Queue) = Payload(p)
  <2>1. 1 \in 1 .. Len(pending)
    BY <1>1, <1>3
  <2>2. Contents(pending)[1] = Payload(p)
    BY <1>3, <2>1, ContentsFacts
  <2> QED BY <1>3, <2>2
<1> HIDE DEF p
<1>6. Taken' = Taken - Room[p.size]
  <2>1. attached' = Ends
    BY DEF PullTake
  <2>2. Taken' = DataSize - freeSpace'
    BY <2>1 DEF Taken, Ends
  <2> QED BY <1>1, <1>2, <1>3, <2>2, Layout
<1>7. PICK q \in FreshPackets : q = p
  BY <1>2
<1>8. result' = [pulled |-> Delivered(q)']
  BY <1>1, <1>7 DEF Delivered, Returned, p
<1>9. WholeDelivered'
  BY <1>7, <1>8 DEF WholeDelivered
<1>10. Reply' = [pulled |-> Payload(p)]
  <2>1. Reply' = [pulled |-> Decoded(Delivered(q))']
    BY <1>8 DEF Reply
  <2>2. Decoded(Delivered(q))' = Payload(q)
    BY <1>7, DecodedDeliveredNext DEF SizesFit
  <2> QED BY <1>7, <2>1, <2>2
<1>11. Payload(p).size = p.size
  BY DEF Payload
<1> QED BY <1>3, <1>4, <1>5, <1>6, <1>9, <1>10, <1>11 DEF Fifo!Receive

(* A call that only answers answers as the queue would.                    *)
LEMMA AnswersMap ==
  ASSUME SizesFit, RingInv, attached = Ends, debug' = debug,
         \/ \E p \in FreshPackets : PushNothing(p) \/ PushOverflow(p)
         \/ isFull \/ PullNothing \/ isEmpty \/ getMessageCount
  PROVE  Fifo!Next /\ WholeDelivered'
<1>1. Queue' = Queue /\ Taken' = Taken
  BY DEF PushNothing, PushOverflow, isFull, PullNothing, isEmpty, getMessageCount, Answer,
         Queue, Taken, header
<1>2. /\ Taken = DataSize - freeSpace /\ freeSpace \in Nat /\ Taken \in Nat
      /\ Len(Queue) = Len(pending)
      /\ Queue = << >> <=> Taken = 0
  BY QueueFacts
<1>3. ASSUME NEW p \in FreshPackets, PushNothing(p)
      PROVE  Fifo!Drop(Payload(p)) /\ WholeDelivered'
  <2>1. result' = [push |-> Payload(p), answer |-> "ignored"]
    BY <1>3 DEF PushNothing, Answer, Pushed
  <2>2. Reply' = [push |-> Payload(p), answer |-> "ignored"] /\ WholeDelivered'
    BY <2>1 DEF Reply, WholeDelivered
  <2>3. Payload(p).size = 0
    BY <1>3 DEF PushNothing, Payload
  <2> QED BY <1>1, <2>2, <2>3 DEF Fifo!Drop, Fifo!Answer
<1>4. ASSUME NEW p \in FreshPackets, PushOverflow(p)
      PROVE  Fifo!Refuse(Payload(p)) /\ WholeDelivered'
  <2>1. result' = [push |-> Payload(p), answer |-> "overflow"]
    BY <1>4 DEF PushOverflow, Answer, Pushed
  <2>2. Reply' = [push |-> Payload(p), answer |-> "overflow"] /\ WholeDelivered'
    BY <2>1 DEF Reply, WholeDelivered
  <2>3. /\ p.size \in Nat \ {0} /\ p.size \in Sizes /\ Footprint(p.size) \in Nat
        /\ PacketSize(p.size) = Footprint(p.size)
    BY <1>4, FreshFacts, FootprintFacts DEF PushOverflow
  <2>4. ~(Footprint(p.size) <= freeSpace)
    BY <1>4, <2>3 DEF PushOverflow, Fits
  <2>5. Payload(p).size = p.size /\ Room[p.size] = Footprint(p.size)
    BY <2>3 DEF Payload, Room
  <2>6. Payload(p).size > 0 /\ Taken + Room[Payload(p).size] > DataSize
    BY <1>2, <2>3, <2>4, <2>5, Layout
  <2> QED BY <1>1, <2>2, <2>6 DEF Fifo!Refuse, Fifo!Answer
<1>5. ASSUME isFull PROVE Fifo!AskFull /\ WholeDelivered'
  <2>1. result' = [isFull |-> freeSpace <= 0]
    BY <1>5 DEF isFull, Answer
  <2>2. Reply' = [isFull |-> freeSpace <= 0] /\ WholeDelivered'
    BY <2>1 DEF Reply, WholeDelivered
  <2>3. (freeSpace <= 0) <=> (Taken = DataSize)
    BY <1>2, Layout
  <2> QED BY <1>1, <2>2, <2>3 DEF Fifo!AskFull, Fifo!Answer
<1>6. ASSUME PullNothing PROVE Fifo!ReceiveNothing /\ WholeDelivered'
  <2>1. result' = [noPackets |-> TRUE] /\ freeSpace = DataSize
    BY <1>6 DEF PullNothing, Answer, Empty
  <2>2. Reply' = [noPackets |-> TRUE] /\ WholeDelivered'
    BY <2>1 DEF Reply, WholeDelivered
  <2>3. Queue = << >>
    BY <1>2, <2>1, Layout
  <2> QED BY <1>1, <2>2, <2>3 DEF Fifo!ReceiveNothing, Fifo!Answer
<1>7. ASSUME isEmpty PROVE Fifo!AskEmpty /\ WholeDelivered'
  <2>1. result' = [isEmpty |-> freeSpace = DataSize]
    BY <1>7 DEF isEmpty, Answer, Empty
  <2>2. Reply' = [isEmpty |-> freeSpace = DataSize] /\ WholeDelivered'
    BY <2>1 DEF Reply, WholeDelivered
  <2>3. (freeSpace = DataSize) <=> (Queue = << >>)
    BY <1>2, Layout
  <2> QED BY <1>1, <2>2, <2>3 DEF Fifo!AskEmpty, Fifo!Answer
<1>8. ASSUME getMessageCount PROVE Fifo!AskCount /\ WholeDelivered'
  <2>1. result' = [messageCount |-> messageCount]
    BY <1>8 DEF getMessageCount, Answer
  <2>2. Reply' = [messageCount |-> messageCount] /\ WholeDelivered'
    BY <2>1 DEF Reply, WholeDelivered
  <2>3. messageCount = Len(Queue)
    BY <1>2 DEF RingInv, HeaderDescribesRing
  <2> QED BY <1>1, <2>2, <2>3 DEF Fifo!AskCount, Fifo!Answer
<1>9. ASSUME NEW p \in FreshPackets PROVE Payload(p) \in Payloads
  BY DEF Payloads
<1> QED BY <1>3, <1>4, <1>5, <1>6, <1>7, <1>8, <1>9 DEF Fifo!Next

(* Where nothing is called and no end attached the queue is left alone.    *)
LEMMA NothingMaps ==
  ASSUME SizesFit, RingInv, WholeDelivered, UNCHANGED <<debug, Queue, Taken, result>>
  PROVE  UNCHANGED Fifo!fifoVars /\ WholeDelivered'
<1>1. WholeDelivered'
  BY DEF WholeDelivered, Delivered, Returned
<1>2. Reply' = Reply
  <2>1. CASE "pulled" \in DOMAIN result
    <3>1. PICK p \in FreshPackets : result.pulled = Delivered(p)
      BY <2>1 DEF WholeDelivered
    <3>2. Reply = [pulled |-> Payload(p)]
      BY <2>1, <3>1, DecodedDelivered DEF Reply
    <3>3. (Delivered(p))' = Delivered(p)
      BY DEF Delivered, Returned
    <3>4. Reply' = [pulled |-> Payload(p)]
      BY <2>1, <3>1, <3>3, DecodedDeliveredNext DEF Reply, SizesFit
    <3> QED BY <3>2, <3>4
  <2>2. CASE "pulled" \notin DOMAIN result
    BY <2>2 DEF Reply
  <2> QED BY <2>1, <2>2
<1> QED BY <1>1, <1>2 DEF Fifo!fifoVars

-----------------------------------------------------------------------------
(* A new ring is an empty queue.                                           *)
LEMMA InitMaps == Init => Fifo!Init /\ WholeDelivered
<1> SUFFICES ASSUME Init PROVE Fifo!Init /\ WholeDelivered
  OBVIOUS
<1>1. Queue = << >>
  BY DEF Init, Queue
<1>2. Taken = 0
  BY DEF Init, Taken
<1>3. Reply = [called |-> FALSE] /\ WholeDelivered
  BY DEF Init, Reply, WholeDelivered
<1> QED BY <1>1, <1>2, <1>3 DEF Fifo!Init

(* Every step of the ring is one step of the queue, or none.               *)
LEMMA StepMaps ==
  ASSUME SizesFit, Orderly, RingInv, RingInv', WholeDelivered, [Next]_ringVars
  PROVE  [Fifo!Next]_Fifo!fifoVars /\ WholeDelivered'
<1>1. CASE UNCHANGED ringVars
  BY <1>1, NothingMaps DEF ringVars, header, Queue, Taken
<1>2. ASSUME Next, NEW end \in Ends, Attach(end)
      PROVE  [Fifo!Next]_Fifo!fifoVars /\ WholeDelivered'
  <2>1. attached # Ends
    BY <1>2 DEF Attach
  <2>2. pending = << >> /\ pending' = << >>
    BY <1>2, <2>1 DEF Attach, RingInv, Shape
  <2>3. Taken = 0 /\ Taken' = 0
    BY <2>2 DEF RingInv, HeaderDescribesRing
  <2>4. Queue' = Queue /\ result' = result /\ debug' = debug
    BY <1>2, <2>2 DEF Queue, Attach, Next
  <2> QED BY <2>3, <2>4, NothingMaps
<1>3. ASSUME Next, NEW p \in FreshPackets, push(p)
      PROVE  Fifo!Next /\ WholeDelivered'
  <2>1. attached = Ends /\ debug' = debug
    BY <1>3 DEF Next, push, Ready
  <2>2. CASE PushNothing(p) \/ PushOverflow(p)
    BY <2>1, <2>2, AnswersMap
  <2>3. CASE PushStore(p)
    <3>1. Fifo!Send(Payload(p)) /\ Payload(p) \in Payloads
      BY <2>1, <2>3, PushMaps DEF Payloads
    <3>2. result' = [push |-> Payload(p), answer |-> "stored"]
      BY <2>3 DEF PushStore, Pushed
    <3> QED BY <3>1, <3>2 DEF Fifo!Next, WholeDelivered
  <2> QED BY <1>3, <2>2, <2>3 DEF push
<1>4. ASSUME Next, pull
      PROVE  Fifo!Next /\ WholeDelivered'
  <2>1. attached = Ends /\ debug' = debug
    BY <1>4 DEF Next, pull, Ready
  <2>2. CASE PullNothing
    BY <2>1, <2>2, AnswersMap
  <2>3. CASE PullTake
    BY <2>1, <2>3, PullMaps DEF Fifo!Next
  <2> QED BY <1>4, <2>2, <2>3 DEF pull
<1>5. ASSUME Next, isFull \/ isEmpty \/ getMessageCount
      PROVE  Fifo!Next /\ WholeDelivered'
  <2>1. attached = Ends /\ debug' = debug
    BY <1>5 DEF Next, isFull, isEmpty, getMessageCount, Ready
  <2> QED BY <1>5, <2>1, AnswersMap
<1> QED BY <1>1, <1>2, <1>3, <1>4, <1>5 DEF Next

(* Callers of the ring see a bounded first-in first-out queue: whatever    *)
(* has been pushed and pulled and however the copies wrapped, pull() hands *)
(* over the oldest packet byte for byte, push() refuses a packet exactly   *)
(* when it does not fit, and the queries tell the truth.                   *)
THEOREM RingIsFifo == ASSUME SizesFit, Orderly PROVE Spec => FifoSpec
<1>1. Init => Fifo!Init /\ WholeDelivered
  BY InitMaps
<1>2. RingInv /\ RingInv' /\ WholeDelivered /\ [Next]_ringVars
        => [Fifo!Next]_Fifo!fifoVars /\ WholeDelivered'
  BY StepMaps
<1> QED BY <1>1, <1>2, RingCorrect, PTL DEF Spec, FifoSpec, Fifo!Spec

=============================================================================

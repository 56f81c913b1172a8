-------------------------- MODULE RingBuffer_proofs --------------------------
(***************************************************************************)
(* Proofs about the ring for every size of its data area, of the packet    *)
(* header, of the alignment and of the payloads: packets stay whole, the   *)
(* header describes them and no copy leaves the data area, whatever pushes *)
(* and pulls have gone round the ring.                                     *)
(***************************************************************************)
EXTENDS RingBuffer, TLAPS

(* No payload is so long that its size wraps around in uint32_t.           *)
SizesFit == \A size \in Sizes : Footprint(size) < WordSize

(* The distance from one address to another, going up and around the end.  *)
Distance(from, to) == IF from <= to THEN to - from ELSE to - from + DataSize

(* What push() puts into the ring.                                         *)
Stored == [packet : {p \in FreshPackets : p.size # 0}, offset : Nat]

(* Packets lie one behind the other, each at least a byte long, and before *)
(* the end of the room that is taken.                                      *)
Chained ==
    \A i, j \in DOMAIN pending :
        i < j => pending[i].offset + Extent(i) + (j - i - 1) <= pending[j].offset

Within == \A i \in DOMAIN pending : pending[i].offset + Extent(i) <= Taken

(* The strengthening: the header's numbers and the bytes of the packets    *)
(* depend on each other, because pull() frees as much as the size field it *)
(* finds in the data area says.                                            *)
Shape ==
    /\ pending \in Seq(Stored)
    /\ attached = {} => freeSpace = 0
    /\ attached # Ends => pending = << >>
    /\ Chained
    /\ Within

RingInv ==
    /\ TypeOK
    /\ debug \in BOOLEAN
    /\ Shape
    /\ HeaderDescribesRing
    /\ PacketsIntact
    /\ PulledWiped
    /\ ~overrun

-----------------------------------------------------------------------------
(* Arithmetic.                                                             *)

(* The layout's assumption, one inequation at a time.                      *)
LEMMA Layout ==
  /\ DataSize \in Nat /\ HeaderSize \in Nat /\ Alignment \in Nat /\ WordSize \in Nat
  /\ 0 < DataSize /\ 0 < Alignment /\ 2 * Alignment <= HeaderSize
  /\ HeaderSize + 2 * DataSize <= WordSize
BY LayoutAssumption DEF LayoutAssumption

(* Going around the end at most once takes off the ring's size.            *)
LEMMA ModOnce ==
  ASSUME NEW x \in Nat, x < 2 * DataSize
  PROVE  x % DataSize = IF x < DataSize THEN x ELSE x - DataSize
BY Layout

(* Going around the end in two parts or in one comes to the same.          *)
LEMMA AroundOnce ==
  ASSUME NEW f \in Addresses, NEW s \in Addresses, s = (f + HeaderSize) % DataSize,
         NEW k \in Nat, HeaderSize + k < DataSize
  PROVE  (s + k) % DataSize = (f + (HeaderSize + k)) % DataSize
<1>1. f \in Nat /\ f < DataSize /\ s \in Nat /\ s < DataSize /\ HeaderSize \in Nat
  BY Layout DEF Addresses
<1>2. s = IF f + HeaderSize < DataSize THEN f + HeaderSize ELSE f + HeaderSize - DataSize
  BY <1>1, ModOnce, Layout
<1>3. (s + k) % DataSize = IF s + k < DataSize THEN s + k ELSE s + k - DataSize
  BY <1>1, ModOnce, Layout
<1>4. (f + (HeaderSize + k)) % DataSize =
        IF f + (HeaderSize + k) < DataSize
        THEN f + (HeaderSize + k) ELSE f + (HeaderSize + k) - DataSize
  BY <1>1, ModOnce, Layout
<1> QED BY <1>1, <1>2, <1>3, <1>4, Layout

(* A small number is stored as it is.                                      *)
LEMMA Unwrapped ==
  ASSUME NEW x \in Nat, x < WordSize
  PROVE  U32(x) = x
BY Layout DEF U32

(* The room push() computes is the footprint, when nothing wraps.          *)
LEMMA FootprintFacts ==
  ASSUME NEW size \in Nat, Footprint(size) < WordSize
  PROVE  /\ Footprint(size) \in Nat
         /\ HeaderSize + size <= Footprint(size)
         /\ U32(size) = size
         /\ AlignedSize(size) = Footprint(size) - HeaderSize
         /\ PacketSize(size) = Footprint(size)
<1> DEFINE pad == (Alignment - (size % Alignment)) % Alignment
<1>1. pad \in Nat
  <2>1. size % Alignment \in 0 .. Alignment - 1
    BY Layout
  <2>2. Alignment - (size % Alignment) \in Nat
    BY <2>1, Layout
  <2> HIDE DEF pad
  <2> QED BY <2>2, Layout DEF pad
<1>2. Footprint(size) = HeaderSize + size + pad
  BY DEF Footprint
<1>3. AlignedSize(size) = U32(size + pad)
  BY DEF AlignedSize
<1> HIDE DEF pad
<1>4. U32(size) = size /\ U32(size + pad) = size + pad
  BY <1>1, <1>2, Unwrapped, Layout
<1>5. PacketSize(size) = U32(HeaderSize + AlignedSize(size))
  BY <1>4 DEF PacketSize
<1>6. PacketSize(size) = U32(HeaderSize + size + pad)
  BY <1>1, <1>3, <1>4, <1>5, Layout
<1> QED BY <1>1, <1>2, <1>3, <1>4, <1>6, Unwrapped, Layout

(* What lies before the last of a chain lies before the end of its room.   *)
LEMMA OneMoreBehind ==
  ASSUME NEW n \in Nat, NEW i \in Nat, NEW j, j = n + 1,
         NEW offset \in Nat, NEW extent \in Nat, NEW last \in Nat, NEW room \in Nat,
         NEW t \in Nat, 0 < room, last + room <= t,
         offset + extent + (n - i - 1) <= last
  PROVE  offset + extent + (j - i - 1) <= t
OBVIOUS

(* An address is at one distance from another, and no two are at the same. *)
LEMMA DistanceInjective ==
  ASSUME NEW start \in Addresses, NEW a \in Addresses, NEW b \in Addresses,
         Distance(start, a) = Distance(start, b)
  PROVE  a = b
BY Layout DEF Distance, Addresses

-----------------------------------------------------------------------------
(* Copies.                                                                 *)

(* A copy that wraps when it has to changes the addresses at a distance    *)
(* below its length from where it starts, and no other.                    *)
LEMMA CopiedByte ==
  ASSUME NEW start \in Addresses, NEW wraps \in BOOLEAN,
         NEW len \in 0 .. DataSize, start + len > DataSize => wraps,
         NEW a \in Addresses
  PROVE  /\ Distance(start, a) \in Nat
         /\ Distance(start, a) < len =>
              ByteAt(start, wraps, a) \in 0 .. len - 1 /\ ByteAt(start, wraps, a) = Distance(start, a)
         /\ len <= Distance(start, a) => ByteAt(start, wraps, a) \notin 0 .. len - 1
BY Layout DEF ByteAt, Distance, Addresses

(* Such a copy stays in the data area and goes around its end.             *)
LEMMA SlotInRing ==
  ASSUME NEW start \in Addresses, NEW wraps \in BOOLEAN, NEW len \in 0 .. DataSize,
         start + len > DataSize => wraps, NEW i \in 0 .. len - 1
  PROVE  /\ Slot(start, wraps, i) \in Addresses
         /\ Slot(start, wraps, i) = (start + i) % DataSize
<1>1. (start + i) % DataSize = IF start + i < DataSize THEN start + i ELSE start + i - DataSize
  BY ModOnce, Layout DEF Addresses
<1> QED BY <1>1, Layout DEF Slot, Addresses

(* Hence it is in bounds.                                                  *)
LEMMA StaysInBounds ==
  ASSUME NEW start \in Addresses, NEW wraps \in BOOLEAN, NEW len \in 0 .. DataSize,
         start + len > DataSize => wraps
  PROVE  InBounds(start, wraps, len)
BY SlotInRing DEF InBounds

(* Byte i of a copy out of the ring comes from i bytes behind its start.   *)
LEMMA CopyOutAt ==
  ASSUME NEW m, NEW start \in Addresses, NEW wraps \in BOOLEAN, NEW len \in 0 .. DataSize,
         start + len > DataSize => wraps, NEW i \in 0 .. len - 1
  PROVE  CopyOut(m, start, wraps, len)[i] = m[(start + i) % DataSize]
BY SlotInRing DEF CopyOut

-----------------------------------------------------------------------------
(* Where the copies of push() go: f is front, t the room taken, n next and *)
(* fp the room the packet takes.  The header wraps when it has to, then    *)
(* the payload; both stay away from the packets in the ring.               *)
LEMMA PushGeometry ==
  ASSUME NEW f \in Addresses, NEW t \in Nat, NEW n, n = (f + t) % DataSize,
         NEW size \in Nat \ {0}, NEW fp \in Nat, HeaderSize + size <= fp,
         t + fp <= DataSize
  PROVE  LET start == Advance(n, HeaderSize)
         IN  /\ n \in Addresses /\ start \in Addresses
             /\ n + HeaderSize > DataSize => PushHeaderWraps(f, n)
             /\ start + size > DataSize => PushDataWraps(f, start, size)
             /\ Advance(start, fp - HeaderSize) = (f + (t + fp)) % DataSize
             /\ \A d \in 0 .. t - 1 :
                  /\ (f + d) % DataSize \in Addresses
                  /\ Distance(n, (f + d) % DataSize) >= HeaderSize
                  /\ Distance(start, (f + d) % DataSize) >= size
             /\ \A k \in 0 .. HeaderSize - 1 :
                  /\ (f + t + k) % DataSize \in Addresses
                  /\ Distance(n, (f + t + k) % DataSize) = k
                  /\ Distance(start, (f + t + k) % DataSize) >= size
             /\ \A k \in 0 .. size - 1 :
                  /\ (f + t + (HeaderSize + k)) % DataSize \in Addresses
                  /\ Distance(start, (f + t + (HeaderSize + k)) % DataSize) = k
<1> DEFINE start == Advance(n, HeaderSize)
<1>0. f \in Nat /\ f < DataSize /\ t < DataSize /\ HeaderSize < DataSize /\ size < DataSize
  BY Layout DEF Addresses
<1>1. n = (IF f + t < DataSize THEN f + t ELSE f + t - DataSize) /\ n \in Addresses /\ n \in Nat
  BY <1>0, ModOnce, Layout DEF Addresses
<1>2. start = (n + HeaderSize) % DataSize
  BY <1>0, <1>1, Unwrapped, Layout DEF Advance, Addresses
<1>3. start = IF n + HeaderSize < DataSize THEN n + HeaderSize ELSE n + HeaderSize - DataSize
  BY <1>0, <1>1, <1>2, ModOnce, Layout DEF Addresses
<1>4. start \in Addresses /\ start \in Nat /\ start < DataSize
  BY <1>0, <1>1, <1>3, Layout DEF Addresses
<1> HIDE DEF start
<1>5. n + HeaderSize > DataSize => PushHeaderWraps(f, n)
  <2>1. U32(n + HeaderSize) = n + HeaderSize
    BY <1>0, <1>1, Unwrapped, Layout DEF Addresses
  <2> QED BY <1>0, <1>1, <2>1, Layout DEF PushHeaderWraps, Addresses
<1>6. start + size > DataSize => PushDataWraps(f, start, size)
  <2>1. U32(start + size) = start + size
    BY <1>0, <1>4, Unwrapped, Layout
  <2> QED BY <1>0, <1>1, <1>3, <1>4, <2>1, Layout DEF PushDataWraps, Addresses
<1>7. Advance(start, fp - HeaderSize) = (f + (t + fp)) % DataSize
  <2>1. U32(start + (fp - HeaderSize)) = start + (fp - HeaderSize)
    BY <1>0, <1>4, Unwrapped, Layout
  <2>2. (start + (fp - HeaderSize)) % DataSize =
          IF start + (fp - HeaderSize) < DataSize
          THEN start + (fp - HeaderSize) ELSE start + (fp - HeaderSize) - DataSize
    BY <1>0, <1>4, ModOnce, Layout
  <2>3. (f + (t + fp)) % DataSize =
          IF f + (t + fp) < DataSize THEN f + (t + fp) ELSE f + (t + fp) - DataSize
    BY <1>0, ModOnce, Layout
  <2> QED BY <1>0, <1>1, <1>3, <1>4, <2>1, <2>2, <2>3, Layout DEF Advance
<1>8. ASSUME NEW d \in Nat, d < DataSize
      PROVE  /\ (f + d) % DataSize = (IF f + d < DataSize THEN f + d ELSE f + d - DataSize)
             /\ (f + d) % DataSize \in Addresses
  BY <1>0, <1>8, ModOnce, Layout DEF Addresses
<1>9. ASSUME NEW d \in 0 .. t - 1
      PROVE  /\ (f + d) % DataSize \in Addresses
             /\ Distance(n, (f + d) % DataSize) >= HeaderSize
             /\ Distance(start, (f + d) % DataSize) >= size
  <2>1. d \in Nat /\ d < t /\ d < DataSize
    BY <1>0, Layout
  <2>2. /\ (f + d) % DataSize = (IF f + d < DataSize THEN f + d ELSE f + d - DataSize)
        /\ (f + d) % DataSize \in Addresses
    BY <1>8, <2>1
  <2> QED BY <1>0, <1>1, <1>3, <1>4, <2>1, <2>2, Layout DEF Distance
<1>10. ASSUME NEW k \in 0 .. HeaderSize - 1
       PROVE  /\ (f + t + k) % DataSize \in Addresses
              /\ Distance(n, (f + t + k) % DataSize) = k
              /\ Distance(start, (f + t + k) % DataSize) >= size
  <2> DEFINE e == t + k
  <2>1. e \in Nat /\ e < DataSize
    BY <1>0, Layout
  <2>2. f + t + k = f + e
    BY <1>0, Layout
  <2> HIDE DEF e
  <2>3. /\ (f + e) % DataSize = (IF f + e < DataSize THEN f + e ELSE f + e - DataSize)
        /\ (f + e) % DataSize \in Addresses
    BY <1>8, <2>1
  <2>4. /\ Distance(n, (f + e) % DataSize) = e - t
        /\ Distance(start, (f + e) % DataSize) >= size
    BY <1>0, <1>1, <1>3, <1>4, <2>1, <2>3, Layout DEF Distance, e
  <2> QED BY <2>2, <2>3, <2>4 DEF e
<1>11. ASSUME NEW k \in 0 .. size - 1
       PROVE  /\ (f + t + (HeaderSize + k)) % DataSize \in Addresses
              /\ Distance(start, (f + t + (HeaderSize + k)) % DataSize) = k
  <2> DEFINE e == t + HeaderSize + k
  <2>1. e \in Nat /\ e < DataSize
    BY <1>0, Layout
  <2>2. f + t + (HeaderSize + k) = f + e
    BY <1>0, Layout
  <2> HIDE DEF e
  <2>3. /\ (f + e) % DataSize = (IF f + e < DataSize THEN f + e ELSE f + e - DataSize)
        /\ (f + e) % DataSize \in Addresses
    BY <1>8, <2>1
  <2>4. Distance(start, (f + e) % DataSize) = e - t - HeaderSize
    BY <1>0, <1>1, <1>3, <1>4, <2>1, <2>3, Layout DEF Distance, e
  <2> QED BY <1>0, <2>1, <2>2, <2>3, <2>4, Layout DEF e
<1> QED BY <1>1, <1>4, <1>5, <1>6, <1>7, <1>9, <1>10, <1>11 DEF start

(* Where the copies and wipes of pull() go: f is front, t the room taken   *)
(* and fp that of the oldest packet.                                       *)
LEMMA PullGeometry ==
  ASSUME NEW f \in Addresses, NEW t \in Nat, NEW size \in Nat \ {0}, NEW fp \in Nat,
         HeaderSize + size <= fp, fp <= t, t <= DataSize
  PROVE  LET start == Advance(f, HeaderSize)
         IN  /\ start \in Addresses
             /\ start = (f + HeaderSize) % DataSize
             /\ f + HeaderSize > DataSize => PullWraps(f, HeaderSize)
             /\ start + size > DataSize => PullWraps(start, size)
             /\ Advance(start, fp - HeaderSize) = (f + fp) % DataSize
             /\ \A d \in fp .. DataSize - 1 :
                  /\ (f + d) % DataSize \in Addresses
                  /\ Distance(f, (f + d) % DataSize) >= HeaderSize
                  /\ Distance(start, (f + d) % DataSize) >= size
             /\ \A d \in 0 .. HeaderSize - 1 : Distance(f, (f + d) % DataSize) = d
             /\ \A d \in HeaderSize .. fp - 1 :
                  Distance(start, (f + d) % DataSize) = d - HeaderSize
             /\ (f + fp) % DataSize \in Addresses
             /\ \A d \in 0 .. DataSize - fp :
                  (((f + fp) % DataSize) + d) % DataSize = (f + (fp + d)) % DataSize
<1> DEFINE start == Advance(f, HeaderSize)
<1>0. f \in Nat /\ f < DataSize /\ HeaderSize < DataSize /\ size < DataSize
  BY Layout DEF Addresses
<1>1. start = (f + HeaderSize) % DataSize
  BY <1>0, Unwrapped, Layout DEF Advance
<1>2. start = IF f + HeaderSize < DataSize THEN f + HeaderSize ELSE f + HeaderSize - DataSize
  BY <1>0, <1>1, ModOnce, Layout
<1>3. start \in Addresses /\ start \in Nat /\ start < DataSize
  BY <1>0, <1>2, Layout DEF Addresses
<1> HIDE DEF start
<1>4. f + HeaderSize > DataSize => PullWraps(f, HeaderSize)
  BY <1>0, Unwrapped, Layout DEF PullWraps
<1>5. start + size > DataSize => PullWraps(start, size)
  BY <1>0, <1>3, Unwrapped, Layout DEF PullWraps
<1>6. (f + fp) % DataSize = (IF f + fp < DataSize THEN f + fp ELSE f + fp - DataSize)
      /\ (f + fp) % DataSize \in Addresses
  BY <1>0, ModOnce, Layout DEF Addresses
<1>7. Advance(start, fp - HeaderSize) = (f + fp) % DataSize
  <2>1. U32(start + (fp - HeaderSize)) = start + (fp - HeaderSize)
    BY <1>0, <1>3, Unwrapped, Layout
  <2>2. (start + (fp - HeaderSize)) % DataSize =
          IF start + (fp - HeaderSize) < DataSize
          THEN start + (fp - HeaderSize) ELSE start + (fp - HeaderSize) - DataSize
    BY <1>0, <1>3, ModOnce, Layout
  <2> QED BY <1>0, <1>2, <1>3, <1>6, <2>1, <2>2, Layout DEF Advance
<1>8. ASSUME NEW d \in fp .. DataSize - 1
      PROVE  /\ (f + d) % DataSize \in Addresses
             /\ Distance(f, (f + d) % DataSize) >= HeaderSize
             /\ Distance(start, (f + d) % DataSize) >= size
  <2>1. (f + d) % DataSize = (IF f + d < DataSize THEN f + d ELSE f + d - DataSize)
        /\ (f + d) % DataSize \in Addresses
    BY <1>0, ModOnce, Layout DEF Addresses
  <2> QED BY <1>0, <1>2, <1>3, <2>1, Layout DEF Distance
<1>9. ASSUME NEW d \in 0 .. DataSize - fp
      PROVE  (((f + fp) % DataSize) + d) % DataSize = (f + (fp + d)) % DataSize
  <2> DEFINE g == (f + fp) % DataSize
  <2>1. g \in Nat /\ g < DataSize
        /\ g = IF f + fp < DataSize THEN f + fp ELSE f + fp - DataSize
    BY <1>6, Layout DEF Addresses
  <2> HIDE DEF g
  <2>2. (g + d) % DataSize = IF g + d < DataSize THEN g + d ELSE g + d - DataSize
    BY <2>1, ModOnce, Layout
  <2>3. (f + (fp + d)) % DataSize =
          IF f + (fp + d) < DataSize THEN f + (fp + d) ELSE f + (fp + d) - DataSize
    BY <1>0, ModOnce, Layout
  <2>4. (g + d) % DataSize = (f + (fp + d)) % DataSize
    BY <1>0, <2>1, <2>2, <2>3, Layout
  <2> QED BY <2>4 DEF g
<1>10. ASSUME NEW d \in 0 .. fp - 1
       PROVE  /\ d < HeaderSize => Distance(f, (f + d) % DataSize) = d
              /\ HeaderSize <= d => Distance(start, (f + d) % DataSize) = d - HeaderSize
  <2>1. (f + d) % DataSize = (IF f + d < DataSize THEN f + d ELSE f + d - DataSize)
    BY <1>0, ModOnce, Layout
  <2> QED BY <1>0, <1>2, <1>3, <2>1, Layout DEF Distance
<1>11. /\ \A d \in 0 .. HeaderSize - 1 : Distance(f, (f + d) % DataSize) = d
       /\ \A d \in HeaderSize .. fp - 1 :
            Distance(start, (f + d) % DataSize) = d - HeaderSize
  BY <1>10, Layout
<1> QED BY <1>1, <1>3, <1>4, <1>5, <1>6, <1>7, <1>8, <1>9, <1>11 DEF start

-----------------------------------------------------------------------------
(* Packets.                                                                *)

(* A new packet's header says the size of its payload.                     *)
LEMMA FreshFacts ==
  ASSUME SizesFit, NEW p \in FreshPackets
  PROVE  /\ p.id \in Ids /\ p.id \in Nat /\ p.id # 0
         /\ p.size \in Sizes /\ p.size \in Nat
         /\ p.declared = p.size
         /\ Footprint(p.size) < WordSize
<1>1. PICK id \in Ids, size \in Sizes : p = [id |-> id, size |-> size, declared |-> U32(size)]
  BY DEF FreshPackets, Fresh, Packet
<1>2. size \in Nat /\ id \in Nat /\ id # 0 /\ Footprint(size) < WordSize
  BY RingAssumption DEF RingAssumption, SizesFit
<1>3. U32(size) = size
  BY <1>2, FootprintFacts
<1> QED BY <1>1, <1>2, <1>3

(* The bytes of a packet that fits into the ring are bytes of the ring.    *)
LEMMA PacketBytes ==
  ASSUME SizesFit, NEW p \in FreshPackets
  PROVE  /\ \A k \in 0 .. HeaderSize - 1 : HeaderBytes(p)[k] \in Bytes
         /\ \A k \in 0 .. p.size - 1 : DataBytes(p)[k] \in Bytes
         /\ Blank \in Bytes
<1>1. /\ p.id \in Ids /\ p.size \in Nat /\ p.declared = p.size
      /\ HeaderSize + p.size < WordSize
  BY FreshFacts, FootprintFacts, Layout
<1>2. ASSUME NEW k \in 0 .. HeaderSize - 1 PROVE HeaderBytes(p)[k] \in Bytes
  <2>1. HeaderBytes(p)[k] = Byte(p.id, k, IF k \in SizeField THEN p.declared ELSE 0)
    BY DEF HeaderBytes
  <2> QED BY <1>1, <2>1, Layout DEF Byte, Bytes
<1>3. ASSUME NEW k \in 0 .. p.size - 1 PROVE DataBytes(p)[k] \in Bytes
  <2>1. DataBytes(p)[k] = Byte(p.id, HeaderSize + k, 0)
    BY DEF DataBytes
  <2> QED BY <1>1, <2>1, Layout DEF Byte, Bytes
<1>4. Blank \in Bytes
  BY Layout DEF Blank, Byte, Bytes
<1> QED BY <1>2, <1>3, <1>4

-----------------------------------------------------------------------------
(* A call that only answers leaves the ring as it was.                     *)
LEMMA AnswerKeeps ==
  ASSUME RingInv, UNCHANGED <<debug, header, mem, attached, overrun, pending>>
  PROVE  RingInv'
BY DEF RingInv, TypeOK, Shape, Chained, Within, HeaderDescribesRing, PacketsIntact, PulledWiped,
       Taken, Extent, Place, header

(* A new mapping is an empty ring nobody is attached to.                   *)
LEMMA InitRing == Init => RingInv
<1> SUFFICES ASSUME Init PROVE RingInv
  OBVIOUS
<1>1. 0 % DataSize = 0 /\ 0 \in Addresses
  BY ModOnce, Layout DEF Addresses
<1>2. Blank \in Bytes
  BY Layout DEF Blank, Byte, Bytes
<1>3. TypeOK
  <2>1. mem \in [Addresses -> Bytes]
    BY <1>2 DEF Init
  <2>2. freeSpace \in 0 .. DataSize /\ messageCount \in 0 .. WordSize - 1
    BY Layout DEF Init
  <2> QED BY <1>1, <2>1, <2>2 DEF Init, TypeOK
<1>4. Taken = 0
  BY DEF Init, Taken
<1>5. Shape
  BY DEF Init, Shape, Chained, Within, Ends
<1>6. HeaderDescribesRing
  BY <1>1, <1>4 DEF Init, HeaderDescribesRing
<1>7. PacketsIntact /\ PulledWiped /\ ~overrun /\ debug \in BOOLEAN
  BY RingAssumption DEF Init, PacketsIntact, PulledWiped, RingAssumption
<1> QED BY <1>3, <1>5, <1>6, <1>7 DEF RingInv

(* Both ends attach to a ring that is still empty.                         *)
LEMMA AttachKeeps ==
  ASSUME Orderly, RingInv, NEW end \in Ends, Attach(end), debug' = debug
  PROVE  RingInv'
<1>1. pending = << >> /\ pending' = << >>
  BY DEF RingInv, Shape, Attach
<1>2. front = 0 /\ next = (0 + 0) % DataSize /\ messageCount = 0
  BY <1>1 DEF RingInv, HeaderDescribesRing
<1>3. 0 % DataSize = 0 /\ 0 \in Addresses
  BY ModOnce, Layout DEF Addresses
<1>4. freeSpace' = DataSize /\ attached' # {} /\ attached' \subseteq Ends
  BY DEF Attach, RingInv, TypeOK
<1>5. Taken' = 0
  BY <1>4, Layout DEF Taken
<1>6. TypeOK'
  BY <1>3, <1>4, Layout DEF Attach, RingInv, TypeOK
<1>7. Shape'
  BY <1>1, <1>4 DEF Shape, Chained, Within
<1>8. HeaderDescribesRing'
  BY <1>1, <1>2, <1>3, <1>5 DEF HeaderDescribesRing, Attach
<1>9. PacketsIntact' /\ PulledWiped' /\ ~overrun' /\ debug' \in BOOLEAN
  BY <1>1 DEF PacketsIntact, PulledWiped, Attach, RingInv
<1> QED BY <1>6, <1>7, <1>8, <1>9 DEF RingInv

-----------------------------------------------------------------------------
(* push() puts a whole packet behind those in the ring and touches none of *)
(* them.                                                                   *)
LEMMA PushKeeps ==
  ASSUME SizesFit, RingInv, attached = Ends, NEW p \in FreshPackets, PushStore(p),
         debug' = debug
  PROVE  RingInv'
<1> DEFINE fp == Footprint(p.size)
           start == Advance(next, HeaderSize)
           hw == PushHeaderWraps(front, next)
           dw == PushDataWraps(front, start, p.size)
           m1 == CopyIn(mem, next, hw, HeaderBytes(p), HeaderSize)
           n == Len(pending)
           new == [packet |-> p, offset |-> Taken]
<1> USE DEF RingInv
<1>1. /\ p.size \in Nat \ {0} /\ p.declared = p.size /\ fp < WordSize
      /\ fp \in Nat /\ HeaderSize + p.size <= fp
      /\ U32(p.size) = p.size
      /\ AlignedSize(p.size) = fp - HeaderSize
      /\ PacketSize(p.size) = fp
  BY FreshFacts, FootprintFacts DEF PushStore
<1>2. /\ Taken = DataSize - freeSpace /\ Taken \in Nat /\ Taken <= DataSize
      /\ freeSpace \in Nat /\ messageCount \in Nat
      /\ front \in Addresses /\ next = (front + Taken) % DataSize
  BY Layout DEF Taken, TypeOK, HeaderDescribesRing, Ends
<1>3. fp <= freeSpace
  BY <1>1 DEF PushStore, Fits
<1>4. Taken + fp <= DataSize
  BY <1>1, <1>2, <1>3, Layout
<1> HIDE DEF fp
<1>5. /\ next \in Addresses /\ start \in Addresses
      /\ next + HeaderSize > DataSize => hw
      /\ start + p.size > DataSize => dw
      /\ Advance(start, fp - HeaderSize) = (front + (Taken + fp)) % DataSize
      /\ \A d \in 0 .. Taken - 1 :
           /\ (front + d) % DataSize \in Addresses
           /\ Distance(next, (front + d) % DataSize) >= HeaderSize
           /\ Distance(start, (front + d) % DataSize) >= p.size
      /\ \A k \in 0 .. HeaderSize - 1 :
           /\ (front + Taken + k) % DataSize \in Addresses
           /\ Distance(next, (front + Taken + k) % DataSize) = k
           /\ Distance(start, (front + Taken + k) % DataSize) >= p.size
      /\ \A k \in 0 .. p.size - 1 :
           /\ (front + Taken + (HeaderSize + k)) % DataSize \in Addresses
           /\ Distance(start, (front + Taken + (HeaderSize + k)) % DataSize) = k
  BY <1>1, <1>2, <1>4, PushGeometry
<1>6. HeaderSize \in 0 .. DataSize /\ p.size \in 0 .. DataSize
  BY <1>1, <1>2, <1>4, Layout
<1>7. hw \in BOOLEAN /\ dw \in BOOLEAN
  BY DEF PushHeaderWraps, PushDataWraps
<1>8. /\ next' = Advance(start, fp - HeaderSize)
      /\ freeSpace' = U32(freeSpace - HeaderSize - (fp - HeaderSize))
      /\ messageCount' = U32(messageCount + 1)
      /\ mem' = CopyIn(m1, start, dw, DataBytes(p), p.size)
      /\ overrun' = ~(InBounds(next, hw, HeaderSize) /\ InBounds(start, dw, p.size))
      /\ pending' = Append(pending, new)
      /\ front' = front /\ attached' = attached
  BY <1>1, <1>2 DEF PushStore
<1>9. ~overrun'
  BY <1>5, <1>6, <1>7, <1>8, StaysInBounds
<1>10. freeSpace' = freeSpace - fp /\ freeSpace' \in 0 .. DataSize
  <2>1. freeSpace - HeaderSize - (fp - HeaderSize) = freeSpace - fp
    BY <1>1, <1>2, Layout
  <2>2. freeSpace - fp \in Nat /\ freeSpace - fp < WordSize
    BY <1>1, <1>2, <1>3, Layout
  <2> QED BY <1>1, <1>2, <1>3, <1>8, <2>1, <2>2, Unwrapped, Layout
<1>11. Taken' = Taken + fp
  <2>1. Taken' = DataSize - freeSpace'
    BY <1>8 DEF Taken, Ends
  <2> QED BY <1>1, <1>2, <1>10, <2>1, Layout
(* The data area, byte by byte.                                            *)
<1> HIDE DEF start, hw, dw, m1
<1>12. ASSUME NEW a \in Addresses, NEW d \in Int, NEW e \in Int,
              d = Distance(next, a), e = Distance(start, a)
       PROVE  /\ e < p.size => mem'[a] = DataBytes(p)[e]
              /\ p.size <= e /\ d < HeaderSize => mem'[a] = HeaderBytes(p)[d]
              /\ p.size <= e /\ HeaderSize <= d => mem'[a] = mem[a]
  <2>1. /\ next \in Addresses /\ start \in Addresses
        /\ next + HeaderSize > DataSize => hw
        /\ start + p.size > DataSize => dw
    BY <1>5
  <2>2. /\ d < HeaderSize =>
             ByteAt(next, hw, a) \in 0 .. HeaderSize - 1 /\ ByteAt(next, hw, a) = d
        /\ HeaderSize <= d => ByteAt(next, hw, a) \notin 0 .. HeaderSize - 1
    BY <1>6, <1>7, <1>12, <2>1, CopiedByte
  <2>3. /\ e < p.size =>
             ByteAt(start, dw, a) \in 0 .. p.size - 1 /\ ByteAt(start, dw, a) = e
        /\ p.size <= e => ByteAt(start, dw, a) \notin 0 .. p.size - 1
    BY <1>6, <1>7, <1>12, <2>1, CopiedByte
  <2>4. /\ d < HeaderSize => m1[a] = HeaderBytes(p)[d]
        /\ HeaderSize <= d => m1[a] = mem[a]
    BY <2>2 DEF CopyIn, m1
  <2>5. /\ e < p.size => mem'[a] = DataBytes(p)[e]
        /\ p.size <= e => mem'[a] = m1[a]
    BY <1>8, <2>3 DEF CopyIn
  <2> QED BY <1>1, <2>4, <2>5
<1>13. ASSUME NEW a \in Addresses
       PROVE  /\ Distance(start, a) \in Nat /\ Distance(next, a) \in Nat
              /\ Distance(start, a) \in Int /\ Distance(next, a) \in Int
  BY <1>5, Layout DEF Distance, Addresses
<1>14. ASSUME NEW d \in 0 .. Taken - 1
       PROVE  mem'[(front + d) % DataSize] = mem[(front + d) % DataSize]
  BY <1>1, <1>5, <1>12, <1>13, Layout
<1>15. ASSUME NEW k \in 0 .. HeaderSize - 1
       PROVE  mem'[(front + Taken + k) % DataSize] = HeaderBytes(p)[k]
  BY <1>1, <1>5, <1>12, <1>13, Layout
<1>16. ASSUME NEW k \in 0 .. p.size - 1
       PROVE  mem'[(front + Taken + (HeaderSize + k)) % DataSize] = DataBytes(p)[k]
  BY <1>1, <1>5, <1>12, <1>13, Layout
<1>17. mem' \in [Addresses -> Bytes]
  <2>1. ASSUME NEW a \in Addresses PROVE mem'[a] \in Bytes
    <3>1. mem[a] \in Bytes
      BY DEF TypeOK
    <3>2. Distance(start, a) < p.size => DataBytes(p)[Distance(start, a)] \in Bytes
      BY <1>1, <1>13, PacketBytes
    <3>3. Distance(next, a) < HeaderSize => HeaderBytes(p)[Distance(next, a)] \in Bytes
      BY <1>13, PacketBytes, Layout
    <3> QED BY <1>1, <1>12, <1>13, <3>1, <3>2, <3>3, Layout
  <2> QED BY <1>8, <2>1 DEF CopyIn
(* The packets in the ring.                                                *)
<1>18. /\ pending \in Seq(Stored) /\ new \in Stored /\ n \in Nat
       /\ pending' \in Seq(Stored)
       /\ Len(pending') = n + 1
       /\ \A i \in 1 .. n : pending'[i] = pending[i]
       /\ pending'[n + 1] = new
       /\ DOMAIN pending = 1 .. n /\ DOMAIN pending' = 1 .. n + 1
  <2>1. new \in Stored
    BY <1>1, <1>2 DEF Stored
  <2> QED BY <1>8, <2>1 DEF Shape
<1> HIDE DEF n
<1>19. ASSUME NEW i \in 1 .. n
       PROVE  /\ pending[i] \in Stored /\ pending'[i] = pending[i]
              /\ pending[i].packet \in FreshPackets /\ pending[i].offset \in Nat
              /\ pending[i].packet.size \in Nat
              /\ Extent(i) \in Nat /\ HeaderSize + pending[i].packet.size <= Extent(i)
              /\ Extent(i)' = Extent(i)
              /\ pending[i].offset + Extent(i) <= Taken
  <2>1. pending[i] \in Stored /\ pending'[i] = pending[i]
    BY <1>18
  <2>2. pending[i].packet \in FreshPackets /\ pending[i].offset \in Nat
    BY <2>1 DEF Stored
  <2>3. pending[i].offset + Extent(i) <= Taken
    BY <1>18 DEF Shape, Within
  <2>4. Extent(i)' = Extent(i)
    BY <2>1 DEF Extent
  <2> QED BY <2>1, <2>2, <2>3, <2>4, FreshFacts, FootprintFacts DEF Extent
<1>20. ASSUME NEW i, i = n + 1
       PROVE  pending'[i].packet = p /\ pending'[i].offset = Taken /\ Extent(i)' = fp
  BY <1>18, <1>20 DEF Extent, new, fp
<1> HIDE DEF new
<1>21. n <= Taken /\ messageCount = n
  <2>1. messageCount = n
    BY DEF HeaderDescribesRing, n
  <2>2. CASE n = 0
    BY <1>2, <2>1, <2>2
  <2>3. CASE n = 1
    <3>1. 1 \in 1 .. n
      BY <2>3
    <3> QED BY <1>2, <1>19, <2>1, <2>3, <3>1, Layout
  <2>4. CASE n > 1
    <3>1. 1 \in 1 .. n /\ n \in 1 .. n /\ 1 < n
      BY <1>18, <2>4
    <3>2. pending[1].offset + Extent(1) + (n - 1 - 1) <= pending[n].offset
      BY <1>18, <3>1 DEF Shape, Chained
    <3>3. pending[1].offset \in Nat /\ Extent(1) \in Nat /\ 0 < Extent(1)
      BY <1>19, <3>1, Layout
    <3>4. pending[n].offset \in Nat /\ Extent(n) \in Nat /\ 0 < Extent(n)
          /\ pending[n].offset + Extent(n) <= Taken
      BY <1>19, <3>1, Layout
    <3>5. n <= Taken
      BY <1>2, <1>18, <3>2, <3>3, <3>4
    <3> QED BY <2>1, <3>5
  <2> QED BY <1>18, <2>2, <2>3, <2>4
<1>22. Shape'
  <2>1. ASSUME NEW i \in 1 .. n + 1, NEW j \in 1 .. n + 1, i < j
        PROVE  pending'[i].offset + Extent(i)' + (j - i - 1) <= pending'[j].offset
    <3>1. i \in 1 .. n /\ i \in Nat
      BY <1>18, <2>1
    <3>2. /\ pending'[i].offset = pending[i].offset /\ Extent(i)' = Extent(i)
          /\ pending[i].offset \in Nat /\ Extent(i) \in Nat
          /\ pending[i].offset + Extent(i) <= Taken
      BY <1>19, <3>1
    <3>3. CASE j \in 1 .. n
      <4>1. pending[i].offset + Extent(i) + (j - i - 1) <= pending[j].offset
        BY <1>18, <2>1, <3>1, <3>3 DEF Shape, Chained
      <4>2. pending'[j].offset = pending[j].offset
        BY <1>19, <3>3
      <4> QED BY <3>2, <4>1, <4>2
    <3>4. CASE j = n + 1 /\ i = n
      <4>1. pending'[j].offset = Taken
        BY <1>20, <3>4
      <4>2. j - i - 1 = 0
        BY <1>18, <3>4
      <4> QED BY <1>2, <3>2, <4>1, <4>2
    <3>5. CASE j = n + 1 /\ i < n
      <4>1. pending'[j].offset = Taken
        BY <1>20, <3>5
      <4>2. n \in 1 .. n
        BY <1>18, <3>1
      <4>3. pending[i].offset + Extent(i) + (n - i - 1) <= pending[n].offset
        BY <1>18, <3>1, <3>5, <4>2 DEF Shape, Chained
      <4>4. /\ pending[n].offset \in Nat /\ Extent(n) \in Nat /\ 0 < Extent(n)
            /\ pending[n].offset + Extent(n) <= Taken
        BY <1>19, <4>2, Layout
      <4>5. pending[i].offset + Extent(i) + (j - i - 1) <= Taken
        <5>1. n \in Nat /\ i \in Nat /\ j = n + 1 /\ Taken \in Nat
          BY <1>2, <1>18, <3>1, <3>5
        <5> HIDE DEF RingInv
        <5> QED BY <3>2, <4>3, <4>4, <5>1, OneMoreBehind
      <4> QED BY <3>2, <4>1, <4>5
    <3> QED BY <1>18, <2>1, <3>1, <3>3, <3>4, <3>5
  <2>2. ASSUME NEW i \in 1 .. n + 1
        PROVE  pending'[i].offset + Extent(i)' <= Taken'
    <3>1. CASE i \in 1 .. n
      BY <1>1, <1>2, <1>11, <1>19, <3>1
    <3>2. CASE i = n + 1
      BY <1>1, <1>2, <1>11, <1>20, <3>2
    <3> QED BY <1>18, <3>1, <3>2
  <2>3. Chained' /\ Within'
    BY <1>18, <2>1, <2>2 DEF Chained, Within
  <2> QED BY <1>8, <1>18, <2>3 DEF Shape, Ends
<1>23. HeaderDescribesRing'
  <2>1. messageCount' = Len(pending')
    BY <1>1, <1>2, <1>4, <1>8, <1>18, <1>21, Unwrapped, Layout
  <2>2. next' = (front' + Taken') % DataSize
    BY <1>5, <1>8, <1>11
  <2>3. pending' # << >>
    BY <1>18
  <2>4. ASSUME NEW i \in 1 .. n + 1
        PROVE  /\ pending'[i].offset = IF i = 1 THEN 0 ELSE pending'[i - 1].offset + Extent(i - 1)'
               /\ i = n + 1 => Taken' = pending'[i].offset + Extent(i)'
    <3>1. CASE i \in 1 .. n
      <4>1. pending[i].offset = IF i = 1 THEN 0 ELSE pending[i - 1].offset + Extent(i - 1)
        BY <1>18, <3>1 DEF HeaderDescribesRing
      <4>2. i # 1 => i - 1 \in 1 .. n
        BY <1>18, <3>1
      <4> QED BY <1>18, <1>19, <3>1, <4>1, <4>2
    <3>2. CASE i = n + 1
      <4>1. CASE n = 0
        <5>1. Taken = 0
          BY <1>18, <4>1 DEF HeaderDescribesRing, n
        <5> QED BY <1>1, <1>11, <1>20, <3>2, <4>1, <5>1
      <4>2. CASE n # 0
        <5>1. n \in 1 .. n
          BY <1>18, <4>2
        <5>2. Taken = pending[n].offset + Extent(n)
          BY <1>18, <5>1 DEF HeaderDescribesRing, n
        <5>3. i - 1 = n /\ i - 1 \in 1 .. n
          BY <1>18, <3>2, <5>1
        <5>4. pending'[i - 1].offset + Extent(i - 1)' = Taken
          BY <1>19, <5>2, <5>3
        <5> QED BY <1>1, <1>2, <1>11, <1>18, <1>20, <3>2, <4>2, <5>4
      <4> QED BY <4>1, <4>2
    <3> QED BY <1>18, <3>1, <3>2
  <2> QED BY <1>18, <2>1, <2>2, <2>3, <2>4 DEF HeaderDescribesRing
<1>24. PacketsIntact'
  <2>1. ASSUME NEW i \in 1 .. n
        PROVE  LET q == pending'[i].packet
               IN  /\ \A k \in 0 .. HeaderSize - 1 : mem'[Place(i, k)'] = HeaderBytes(q)[k]
                   /\ \A k \in 0 .. q.size - 1 :
                        mem'[Place(i, HeaderSize + k)'] = DataBytes(q)[k]
    <3> DEFINE q == pending[i].packet
    <3>1. /\ \A k \in 0 .. HeaderSize - 1 : mem[Place(i, k)] = HeaderBytes(q)[k]
          /\ \A k \in 0 .. q.size - 1 : mem[Place(i, HeaderSize + k)] = DataBytes(q)[k]
      BY <1>18 DEF PacketsIntact
    <3>2. ASSUME NEW k \in Nat, k < HeaderSize + q.size
          PROVE  mem'[Place(i, k)'] = mem[Place(i, k)]
      <4>1. pending[i].offset + k \in 0 .. Taken - 1
        BY <1>2, <1>19, <3>2, Layout
      <4>2. front + pending[i].offset + k = front + (pending[i].offset + k)
        BY <1>2, <1>19, <3>2, Layout DEF Addresses
      <4>3. Place(i, k)' = Place(i, k)
        BY <1>8, <1>19 DEF Place
      <4>4. Place(i, k) = (front + (pending[i].offset + k)) % DataSize
        BY <4>2 DEF Place
      <4> QED BY <1>14, <4>1, <4>3, <4>4
    <3>3. ASSUME NEW k \in 0 .. HeaderSize - 1
          PROVE  mem'[Place(i, k)'] = HeaderBytes(q)[k]
      BY <1>19, <3>1, <3>2, Layout
    <3>4. ASSUME NEW k \in 0 .. q.size - 1
          PROVE  mem'[Place(i, HeaderSize + k)'] = DataBytes(q)[k]
      <4>1. HeaderSize + k \in Nat /\ HeaderSize + k < HeaderSize + q.size
        BY <1>19, Layout
      <4> QED BY <3>1, <3>2, <4>1
    <3> QED BY <1>19, <3>3, <3>4
  <2>2. ASSUME NEW i, i = n + 1
        PROVE  LET q == pending'[i].packet
               IN  /\ \A k \in 0 .. HeaderSize - 1 : mem'[Place(i, k)'] = HeaderBytes(q)[k]
                   /\ \A k \in 0 .. q.size - 1 :
                        mem'[Place(i, HeaderSize + k)'] = DataBytes(q)[k]
    <3>1. ASSUME NEW k PROVE Place(i, k)' = (front + Taken + k) % DataSize
      BY <1>8, <1>20, <2>2 DEF Place
    <3> QED BY <1>15, <1>16, <1>20, <2>2, <3>1
  <2> QED BY <1>18, <2>1, <2>2 DEF PacketsIntact
<1>25. TypeOK'
  <2>1. next' \in Addresses
    BY <1>1, <1>2, <1>4, <1>5, <1>8, ModOnce, Layout DEF Addresses
  <2>2. messageCount' \in 0 .. WordSize - 1
    BY <1>1, <1>2, <1>4, <1>8, <1>21, Unwrapped, Layout
  <2> QED BY <1>2, <1>8, <1>9, <1>10, <1>17, <2>1, <2>2 DEF TypeOK
<1>26. PulledWiped'
  <2>1. ASSUME debug', NEW a \in Addresses, mem'[a] # Blank
        PROVE  \E i \in 1 .. n + 1 :
                 \E k \in 0 .. HeaderSize + pending'[i].packet.size - 1 : a = Place(i, k)'
    <3> DEFINE d == Distance(next, a)
               e == Distance(start, a)
    <3>0. d \in Nat /\ e \in Nat
      BY <1>13
    <3>1. /\ e < p.size => mem'[a] = DataBytes(p)[e]
          /\ p.size <= e /\ d < HeaderSize => mem'[a] = HeaderBytes(p)[d]
          /\ p.size <= e /\ HeaderSize <= d => mem'[a] = mem[a]
      BY <1>12, <1>13
    <3> HIDE DEF d, e
    <3>2. n + 1 \in 1 .. n + 1
      BY <1>18
    <3>3. ASSUME NEW k \in Nat, k <= HeaderSize + p.size - 1, a = (front + Taken + k) % DataSize
          PROVE  \E i \in 1 .. n + 1 :
                   \E l \in 0 .. HeaderSize + pending'[i].packet.size - 1 : a = Place(i, l)'
      <4>1. PICK i \in 1 .. n + 1 : pending'[i].packet = p /\ pending'[i].offset = Taken
        BY <1>20, <3>2
      <4>2. Place(i, k)' = (front + Taken + k) % DataSize
        BY <1>8, <4>1 DEF Place
      <4>3. k \in 0 .. HeaderSize + pending'[i].packet.size - 1
        BY <1>1, <3>3, <4>1, Layout
      <4> QED BY <3>3, <4>1, <4>2, <4>3
    <3>4. CASE e < p.size
      <4>1. /\ (front + Taken + (HeaderSize + e)) % DataSize \in Addresses
            /\ Distance(start, (front + Taken + (HeaderSize + e)) % DataSize) = e
        BY <1>1, <1>5, <3>0, <3>4
      <4>2. a = (front + Taken + (HeaderSize + e)) % DataSize
        BY <1>5, <4>1, DistanceInjective DEF e
      <4>3. HeaderSize + e \in Nat /\ HeaderSize + e <= HeaderSize + p.size - 1
        BY <1>1, <3>0, <3>4, Layout
      <4> QED BY <3>3, <4>2, <4>3
    <3>5. CASE p.size <= e /\ d < HeaderSize
      <4>1. /\ (front + Taken + d) % DataSize \in Addresses
            /\ Distance(next, (front + Taken + d) % DataSize) = d
        BY <1>5, <3>0, <3>5, Layout
      <4>2. a = (front + Taken + d) % DataSize
        BY <1>5, <4>1, DistanceInjective DEF d
      <4>3. d \in Nat /\ d <= HeaderSize + p.size - 1
        BY <1>1, <3>0, <3>5, Layout
      <4> QED BY <3>3, <4>2, <4>3
    <3>6. CASE p.size <= e /\ HeaderSize <= d
      <4>1. debug /\ mem[a] # Blank
        BY <2>1, <3>1, <3>6
      <4>2. PICK i \in 1 .. n : \E k \in 0 .. HeaderSize + pending[i].packet.size - 1 :
                                  a = Place(i, k)
        BY <1>18, <4>1 DEF PulledWiped
      <4>3. PICK k \in 0 .. HeaderSize + pending[i].packet.size - 1 : a = Place(i, k)
        BY <4>2
      <4>4. Place(i, k)' = Place(i, k) /\ pending'[i].packet = pending[i].packet
        BY <1>8, <1>19 DEF Place
      <4>5. i \in 1 .. n + 1
        BY <1>18
      <4> QED BY <4>3, <4>4, <4>5
    <3> QED BY <1>1, <3>0, <3>4, <3>5, <3>6, Layout
  <2> QED BY <1>18, <2>1 DEF PulledWiped
<1> QED
  BY <1>9, <1>22, <1>23, <1>24, <1>25, <1>26

-----------------------------------------------------------------------------
(* The bytes where pull() reads the size of the oldest packet are still    *)
(* that packet's, so it reads the size that was pushed.                    *)
LEMMA OldestSize ==
  ASSUME SizesFit, RingInv, attached = Ends, freeSpace # DataSize
  PROVE  /\ 1 \in DOMAIN pending
         /\ pending[1].offset = 0
         /\ SizesRead(CopyOut(mem, front, PullWraps(front, HeaderSize), HeaderSize))
              = {pending[1].packet.size}
<1> DEFINE hw == PullWraps(front, HeaderSize)
           head == CopyOut(mem, front, hw, HeaderSize)
           p == pending[1].packet
<1>1. /\ Taken = DataSize - freeSpace /\ freeSpace \in 0 .. DataSize /\ Taken # 0
      /\ front \in Addresses /\ hw \in BOOLEAN
  BY Layout DEF RingInv, TypeOK, Taken, Ends, PullWraps
<1>2. pending \in Seq(Stored) /\ pending # << >>
  BY <1>1 DEF RingInv, Shape, HeaderDescribesRing
<1>3. 1 \in DOMAIN pending /\ pending[1] \in Stored
  BY <1>2
<1>4. pending[1].offset = 0
  BY <1>3 DEF RingInv, HeaderDescribesRing
<1>5. /\ p \in FreshPackets /\ p.size \in Nat /\ p.declared = p.size /\ p.id # 0
      /\ HeaderSize + p.size <= Footprint(p.size) /\ Footprint(p.size) \in Nat
  BY <1>3, FreshFacts, FootprintFacts DEF Stored
<1>6. Footprint(p.size) <= Taken
  BY <1>3, <1>4, <1>5 DEF RingInv, Shape, Within, Extent
<1>7. HeaderSize \in 0 .. DataSize /\ Alignment \in 0 .. HeaderSize - 1
  BY <1>1, <1>5, <1>6, Layout
<1>8. front + HeaderSize > DataSize => hw
  BY <1>1, <1>7, Unwrapped, Layout DEF PullWraps, Addresses
<1>9. head[Alignment] = mem[(front + Alignment) % DataSize]
  BY <1>1, <1>7, <1>8, CopyOutAt
<1>10. Place(1, Alignment) = (front + Alignment) % DataSize
  BY <1>1, <1>4, Layout DEF Place, Addresses
<1>11. mem[Place(1, Alignment)] = HeaderBytes(p)[Alignment]
  BY <1>3, <1>7 DEF RingInv, PacketsIntact
<1>12. HeaderBytes(p)[Alignment] = Byte(p.id, Alignment, p.size)
  BY <1>5, <1>7, Layout DEF HeaderBytes, SizeField
<1>13. head[Alignment] = Byte(p.id, Alignment, p.size)
  BY <1>9, <1>10, <1>11, <1>12
<1> HIDE DEF head, p
<1>14. SizesRead(head) = {p.size}
  BY <1>5, <1>13 DEF SizesRead, Byte, Blank
<1> QED BY <1>3, <1>4, <1>14 DEF head, p

(* pull() frees just the room of the oldest packet and wipes no byte of    *)
(* another; the packets that are left are now measured from the new front. *)
LEMMA PullKeeps ==
  ASSUME SizesFit, RingInv, attached = Ends, PullTake, debug' = debug
  PROVE  RingInv'
<1> DEFINE p == pending[1].packet
           fp == Footprint(p.size)
           n == Len(pending)
           start == Advance(front, HeaderSize)
           hw == PullWraps(front, HeaderSize)
           dw == PullWraps(start, p.size)
           m1 == Wiped(mem, front, hw, HeaderSize)
           free == U32(freeSpace + HeaderSize + AlignedSize(p.size))
<1>1. freeSpace # DataSize
  BY DEF PullTake, Empty
<1>2. /\ 1 \in DOMAIN pending /\ pending[1].offset = 0
      /\ SizesRead(CopyOut(mem, front, hw, HeaderSize)) = {p.size}
  BY <1>1, OldestSize
<1>3. /\ front' = Rewound(Advance(start, AlignedSize(p.size)), free)
      /\ next' = Rewound(next, free)
      /\ freeSpace' = free
      /\ messageCount' = U32(messageCount - 1)
      /\ mem' = Wiped(m1, start, dw, p.size)
      /\ overrun' = ~(InBounds(front, hw, HeaderSize) /\ InBounds(start, dw, p.size))
      /\ pending' = Rest(p.size)
      /\ attached' = attached
  BY <1>2 DEF PullTake
<1>4. /\ Taken = DataSize - freeSpace /\ Taken \in Nat /\ Taken <= DataSize
      /\ freeSpace \in Nat /\ freeSpace <= DataSize
      /\ front \in Addresses /\ next \in Addresses /\ next = (front + Taken) % DataSize
      /\ messageCount = n /\ n < WordSize /\ debug \in BOOLEAN
      /\ mem \in [Addresses -> Bytes]
  BY Layout DEF RingInv, TypeOK, Taken, Ends, HeaderDescribesRing
<1>5. pending \in Seq(Stored) /\ n \in Nat /\ DOMAIN pending = 1 .. n /\ 1 <= n
  BY <1>2 DEF RingInv, Shape
<1> HIDE DEF n
<1>6. ASSUME NEW i \in 1 .. n
      PROVE  /\ pending[i] \in Stored
             /\ pending[i].packet \in FreshPackets /\ pending[i].offset \in Nat
             /\ pending[i].packet.size \in Nat
             /\ Extent(i) \in Nat /\ HeaderSize + pending[i].packet.size <= Extent(i)
             /\ 0 < Extent(i)
             /\ pending[i].offset + Extent(i) <= Taken
  <2>1. pending[i] \in Stored
    BY <1>5
  <2>2. pending[i].packet \in FreshPackets /\ pending[i].offset \in Nat
    BY <2>1 DEF Stored
  <2>3. pending[i].offset + Extent(i) <= Taken
    BY <1>5 DEF RingInv, Shape, Within
  <2>4. /\ pending[i].packet.size \in Nat
        /\ Extent(i) \in Nat /\ HeaderSize + pending[i].packet.size <= Extent(i)
    BY <2>2, FreshFacts, FootprintFacts DEF Extent
  <2> QED BY <2>1, <2>2, <2>3, <2>4, Layout
<1>7. 1 \in 1 .. n /\ Extent(1) = fp /\ pending[1] \in Stored /\ p \in FreshPackets
  BY <1>5, <1>6 DEF Extent
<1>8. /\ p.size \in Nat \ {0} /\ fp \in Nat /\ HeaderSize + p.size <= fp
      /\ AlignedSize(p.size) = fp - HeaderSize
      /\ 0 < fp /\ fp <= Taken
  <2>1. p.size # 0
    BY <1>7 DEF Stored
  <2>2. /\ p.size \in Nat /\ fp \in Nat /\ HeaderSize + p.size <= fp
        /\ AlignedSize(p.size) = fp - HeaderSize
    BY <1>7, FreshFacts, FootprintFacts
  <2>3. pending[1].offset + Extent(1) <= Taken /\ 0 < Extent(1)
    BY <1>6, <1>7
  <2> QED BY <1>2, <1>4, <1>7, <2>1, <2>2, <2>3
<1> HIDE DEF fp, p
<1>9. /\ start \in Addresses
      /\ front + HeaderSize > DataSize => hw
      /\ start + p.size > DataSize => dw
      /\ Advance(start, fp - HeaderSize) = (front + fp) % DataSize
      /\ \A d \in fp .. DataSize - 1 :
           /\ (front + d) % DataSize \in Addresses
           /\ Distance(front, (front + d) % DataSize) >= HeaderSize
           /\ Distance(start, (front + d) % DataSize) >= p.size
      /\ \A d \in 0 .. HeaderSize - 1 : Distance(front, (front + d) % DataSize) = d
      /\ \A d \in HeaderSize .. fp - 1 :
           Distance(start, (front + d) % DataSize) = d - HeaderSize
      /\ (front + fp) % DataSize \in Addresses
      /\ \A d \in 0 .. DataSize - fp :
           (((front + fp) % DataSize) + d) % DataSize = (front + (fp + d)) % DataSize
  BY <1>4, <1>8, PullGeometry
<1>10. HeaderSize \in 0 .. DataSize /\ p.size \in 0 .. DataSize
  BY <1>4, <1>8, Layout
<1>11. hw \in BOOLEAN /\ dw \in BOOLEAN
  BY DEF PullWraps
<1>12. ~overrun'
  BY <1>3, <1>4, <1>9, <1>10, <1>11, StaysInBounds
(* The room.                                                               *)
<1>13. freeSpace' = freeSpace + fp /\ free = freeSpace + fp
  <2>1. freeSpace + HeaderSize + AlignedSize(p.size) = freeSpace + fp
    BY <1>4, <1>8, Layout
  <2>2. freeSpace + fp \in Nat /\ freeSpace + fp < WordSize
    BY <1>4, <1>8, Layout
  <2> QED BY <1>3, <2>1, <2>2, Unwrapped
<1> HIDE DEF start, hw, dw, m1, free
<1>14. Taken' = Taken - fp /\ Taken' \in Nat /\ freeSpace' \in 0 .. DataSize
  <2>1. Taken' = DataSize - freeSpace'
    BY <1>3 DEF Taken, Ends
  <2> QED BY <1>4, <1>8, <1>13, <2>1, Layout
<1>15. n = 1 => Taken = fp
  <2>1. n = 1 => Taken = pending[1].offset + Extent(1)
    BY <1>5, <1>7 DEF RingInv, HeaderDescribesRing, n
  <2> QED BY <1>2, <1>7, <1>8, <2>1
(* The packets that are left.                                              *)
<1>16. ASSUME NEW i \in 1 .. n, i # 1
       PROVE  fp + (i - 2) <= pending[i].offset
  <2>1. pending[1].offset + Extent(1) + (i - 1 - 1) <= pending[i].offset
    BY <1>5, <1>7, <1>16 DEF RingInv, Shape, Chained
  <2>2. pending[i].offset \in Nat /\ i \in Nat
    BY <1>6
  <2> QED BY <1>2, <1>7, <1>8, <2>1, <2>2
<1>17. n # 1 => fp < Taken
  <2>1. ASSUME n # 1 PROVE fp < Taken
    <3>1. n \in 1 .. n
      BY <1>5
    <3>2. fp + (n - 2) <= pending[n].offset
      BY <1>16, <2>1, <3>1
    <3>3. pending[n].offset + Extent(n) <= Taken /\ 0 < Extent(n)
          /\ Extent(n) \in Nat /\ pending[n].offset \in Nat
      BY <1>6, <3>1
    <3> QED BY <1>4, <1>5, <1>8, <2>1, <3>2, <3>3
  <2> QED BY <2>1
<1>18. /\ front' = IF n = 1 THEN 0 ELSE (front + fp) % DataSize
       /\ next' = IF n = 1 THEN 0 ELSE next
  <2>1. free = DataSize <=> n = 1
    BY <1>4, <1>8, <1>13, <1>15, <1>17, Layout
  <2> QED BY <1>3, <1>8, <1>9, <2>1 DEF Rewound
<1>19. /\ Len(pending') = n - 1 /\ DOMAIN pending' = 1 .. n - 1
       /\ pending' = [i \in 1 .. n - 1 |->
                        [pending[i + 1] EXCEPT !.offset = @ - HeaderSize - (fp - HeaderSize)]]
  <2>1. pending' = [i \in 1 .. n - 1 |->
                      [pending[i + 1] EXCEPT !.offset = @ - HeaderSize - (fp - HeaderSize)]]
    BY <1>3, <1>8 DEF Rest, n
  <2> QED BY <1>5, <2>1
<1>20. ASSUME NEW i \in 1 .. n - 1, NEW j, j = i + 1
       PROVE  /\ j \in 1 .. n /\ j # 1 /\ i \in Nat
              /\ pending'[i].packet = pending[j].packet
              /\ pending'[i].offset = pending[j].offset - fp
              /\ pending'[i].offset \in Nat
              /\ Extent(i)' = Extent(j)
              /\ pending'[i] \in Stored
  <2>1. j \in 1 .. n /\ j # 1 /\ i \in Nat
    BY <1>5, <1>20
  <2>2. /\ pending[j] \in Stored /\ pending[j].offset \in Nat
        /\ pending[j].offset - fp \in Nat
    BY <1>6, <1>8, <1>16, <2>1
  <2>3. pending'[i] = [pending[j] EXCEPT !.offset = @ - HeaderSize - (fp - HeaderSize)]
    BY <1>19, <1>20
  <2>4. pending[j].offset - HeaderSize - (fp - HeaderSize) = pending[j].offset - fp
    BY <1>8, <2>2, Layout
  <2>5. /\ pending'[i].packet = pending[j].packet
        /\ pending'[i].offset = pending[j].offset - fp
        /\ pending'[i] \in Stored
    BY <2>2, <2>3, <2>4 DEF Stored
  <2>6. Extent(i)' = Extent(j)
    BY <2>5 DEF Extent
  <2> QED BY <2>1, <2>2, <2>5, <2>6
<1>21. pending' \in Seq(Stored)
  <2>1. \A i \in 1 .. n - 1 : pending'[i] \in Stored
    BY <1>20
  <2>2. n - 1 \in Nat
    BY <1>5
  <2>3. pending' = [i \in 1 .. n - 1 |-> pending'[i]]
    BY <1>19
  <2> DEFINE l == n - 1
  <2>4. l \in Nat /\ (\A i \in 1 .. l : pending'[i] \in Stored)
        /\ pending' = [i \in 1 .. l |-> pending'[i]]
    BY <2>1, <2>2, <2>3
  <2> HIDE DEF l
  <2> QED BY <2>4
<1>22. Shape'
  <2>1. ASSUME NEW i \in 1 .. n - 1, NEW k \in 1 .. n - 1, i < k
        PROVE  pending'[i].offset + Extent(i)' + (k - i - 1) <= pending'[k].offset
    <3> DEFINE j == i + 1
               l == k + 1
    <3>1. /\ j \in 1 .. n /\ pending'[i].offset = pending[j].offset - fp
          /\ Extent(i)' = Extent(j) /\ i \in Nat
      BY <1>20
    <3>2. l \in 1 .. n /\ pending'[k].offset = pending[l].offset - fp /\ k \in Nat
      BY <1>20
    <3>3. l - j - 1 = k - i - 1 /\ j < l
      BY <2>1, <3>1, <3>2
    <3> HIDE DEF j, l
    <3>4. pending[j].offset + Extent(j) + (l - j - 1) <= pending[l].offset
      BY <1>5, <3>1, <3>2, <3>3 DEF RingInv, Shape, Chained
    <3>5. pending[j].offset \in Nat /\ Extent(j) \in Nat /\ pending[l].offset \in Nat
      BY <1>6, <3>1, <3>2
    <3> QED BY <1>8, <3>1, <3>2, <3>3, <3>4, <3>5
  <2>2. ASSUME NEW i \in 1 .. n - 1
        PROVE  pending'[i].offset + Extent(i)' <= Taken'
    <3> DEFINE j == i + 1
    <3>1. /\ j \in 1 .. n /\ pending'[i].offset = pending[j].offset - fp
          /\ Extent(i)' = Extent(j)
      BY <1>20
    <3> HIDE DEF j
    <3>2. /\ pending[j].offset + Extent(j) <= Taken
          /\ pending[j].offset \in Nat /\ Extent(j) \in Nat
      BY <1>6, <3>1
    <3> QED BY <1>4, <1>8, <1>14, <3>1, <3>2
  <2>3. Chained' /\ Within'
    BY <1>19, <2>1, <2>2 DEF Chained, Within
  <2> QED BY <1>3, <1>21, <2>3 DEF Shape, Ends
<1>23. messageCount' = n - 1 /\ messageCount' \in 0 .. WordSize - 1
  <2>1. n - 1 \in Nat /\ n - 1 < WordSize
    BY <1>4, <1>5, Layout
  <2>2. messageCount' = U32(n - 1)
    BY <1>3, <1>4
  <2> QED BY <2>1, <2>2, Unwrapped, Layout
<1>24. HeaderDescribesRing'
  <2>1. messageCount' = Len(pending')
    BY <1>19, <1>23
  <2>2. next' = (front' + Taken') % DataSize
    <3>1. CASE n = 1
      <4>1. Taken' = 0
        BY <1>8, <1>14, <1>15, <3>1
      <4>2. 0 % DataSize = 0
        BY ModOnce, Layout
      <4> QED BY <1>18, <3>1, <4>1, <4>2
    <3>2. CASE n # 1
      <4>1. Taken' \in 0 .. DataSize - fp /\ fp + Taken' = Taken
        BY <1>4, <1>8, <1>14, Layout
      <4>2. (((front + fp) % DataSize) + Taken') % DataSize = (front + (fp + Taken')) % DataSize
        BY <1>9, <4>1
      <4> QED BY <1>4, <1>18, <3>2, <4>1, <4>2
    <3> QED BY <3>1, <3>2
  <2>3. pending' = << >> => front' = 0 /\ Taken' = 0
    <3>1. pending' = << >> => n = 1
      BY <1>5, <1>19
    <3> QED BY <1>8, <1>14, <1>15, <1>18, <3>1
  <2>4. ASSUME NEW i \in 1 .. n - 1
        PROVE  pending'[i].offset = IF i = 1 THEN 0 ELSE pending'[i - 1].offset + Extent(i - 1)'
    <3> DEFINE j == i + 1
               k == i - 1
    <3>1. /\ j \in 1 .. n /\ j # 1 /\ pending'[i].offset = pending[j].offset - fp
          /\ i \in Nat /\ j - 1 = i
      BY <1>20
    <3>2. pending[j].offset = pending[i].offset + Extent(i)
      BY <1>5, <3>1 DEF RingInv, HeaderDescribesRing
    <3>3. CASE i = 1
      <4>1. pending[i].offset = 0 /\ Extent(i) = fp
        BY <1>2, <1>7, <3>3
      <4>2. pending[j].offset = fp
        BY <1>8, <3>2, <4>1
      <4> HIDE DEF j
      <4>3. pending'[i].offset = 0
        BY <1>8, <3>1, <4>2
      <4> QED BY <3>3, <4>3
    <3>4. CASE i # 1
      <4>1. k \in 1 .. n - 1 /\ i = k + 1
        BY <1>5, <3>1, <3>4
      <4>2. /\ pending'[k].offset = pending[i].offset - fp /\ Extent(k)' = Extent(i)
            /\ i \in 1 .. n
        BY <1>20, <4>1
      <4>3. pending[i].offset \in Nat /\ Extent(i) \in Nat
        BY <1>6, <4>2
      <4> QED BY <1>8, <3>1, <3>2, <3>4, <4>2, <4>3
    <3> QED BY <3>3, <3>4
  <2>5. ASSUME NEW i \in 1 .. n - 1, i = n - 1
        PROVE  Taken' = pending'[i].offset + Extent(i)'
    <3>1. /\ n \in 1 .. n /\ pending'[i].offset = pending[n].offset - fp
          /\ Extent(i)' = Extent(n)
      <4>1. n = i + 1
        BY <1>5, <2>5
      <4> QED BY <1>20, <4>1
    <3>2. Taken = pending[n].offset + Extent(n)
      BY <1>5, <3>1 DEF RingInv, HeaderDescribesRing, n
    <3>3. pending[n].offset \in Nat /\ Extent(n) \in Nat
      BY <1>6, <3>1
    <3> QED BY <1>8, <1>14, <3>1, <3>2, <3>3
  <2> QED BY <1>19, <2>1, <2>2, <2>3, <2>4, <2>5 DEF HeaderDescribesRing
(* The data area, byte by byte.                                            *)
<1>25. ASSUME NEW m, NEW s \in Addresses, NEW w \in BOOLEAN, NEW len \in 0 .. DataSize,
              s + len > DataSize => w, NEW a \in Addresses
       PROVE  /\ Distance(s, a) \in Nat
              /\ Wiped(m, s, w, len)[a] \in {m[a], Blank}
              /\ len <= Distance(s, a) => Wiped(m, s, w, len)[a] = m[a]
              /\ debug /\ Distance(s, a) < len => Wiped(m, s, w, len)[a] = Blank
  <2>1. /\ Distance(s, a) \in Nat
        /\ len <= Distance(s, a) => ByteAt(s, w, a) \notin 0 .. len - 1
        /\ Distance(s, a) < len => ByteAt(s, w, a) \in 0 .. len - 1
    BY <1>25, CopiedByte
  <2>2. Fill(m, s, w, len, Blank)[a] =
          IF ByteAt(s, w, a) \in 0 .. len - 1 THEN Blank ELSE m[a]
    <3> DEFINE b == ByteAt(s, w, a)
               blanks == [i \in 0 .. len - 1 |-> Blank]
    <3>1. Fill(m, s, w, len, Blank)[a] = IF b \in 0 .. len - 1 THEN blanks[b] ELSE m[a]
      BY DEF Fill, CopyIn
    <3> HIDE DEF b
    <3>2. b \in 0 .. len - 1 => blanks[b] = Blank
      OBVIOUS
    <3> QED BY <3>1, <3>2 DEF b
  <2>3. CASE debug
    <3>1. Wiped(m, s, w, len) = Fill(m, s, w, len, Blank)
      BY <2>3 DEF Wiped
    <3> QED BY <2>1, <2>2, <2>3, <3>1
  <2>4. CASE ~debug
    <3>1. Wiped(m, s, w, len) = m
      BY <2>4 DEF Wiped
    <3> QED BY <2>1, <2>4, <3>1
  <2> QED BY <2>3, <2>4
<1>26. ASSUME NEW a \in Addresses
       PROVE  /\ mem'[a] \in {mem[a], Blank}
              /\ HeaderSize <= Distance(front, a) /\ p.size <= Distance(start, a)
                   => mem'[a] = mem[a]
              /\ debug /\ (Distance(front, a) < HeaderSize \/ Distance(start, a) < p.size)
                   => mem'[a] = Blank
  <2>1. /\ m1[a] \in {mem[a], Blank}
        /\ HeaderSize <= Distance(front, a) => m1[a] = mem[a]
        /\ debug /\ Distance(front, a) < HeaderSize => m1[a] = Blank
    <3>1. /\ front \in Addresses /\ hw \in BOOLEAN /\ HeaderSize \in 0 .. DataSize
          /\ front + HeaderSize > DataSize => hw
      BY <1>4, <1>9, <1>10, <1>11
    <3>2. LET m == Wiped(mem, front, hw, HeaderSize)
          IN  /\ m[a] \in {mem[a], Blank}
              /\ HeaderSize <= Distance(front, a) => m[a] = mem[a]
              /\ debug /\ Distance(front, a) < HeaderSize => m[a] = Blank
      BY <1>25, <3>1
    <3> QED BY <3>2 DEF m1
  <2>2. /\ mem'[a] \in {m1[a], Blank}
        /\ p.size <= Distance(start, a) => mem'[a] = m1[a]
        /\ debug /\ Distance(start, a) < p.size => mem'[a] = Blank
    <3>1. /\ start \in Addresses /\ dw \in BOOLEAN /\ p.size \in 0 .. DataSize
          /\ start + p.size > DataSize => dw
      BY <1>9, <1>10, <1>11
    <3>2. LET m == Wiped(m1, start, dw, p.size)
          IN  /\ m[a] \in {m1[a], Blank}
              /\ p.size <= Distance(start, a) => m[a] = m1[a]
              /\ debug /\ Distance(start, a) < p.size => m[a] = Blank
      BY <1>25, <3>1
    <3> QED BY <1>3, <3>2
  <2> QED BY <2>1, <2>2
<1>27. mem' \in [Addresses -> Bytes]
  <2>1. ASSUME NEW a \in Addresses PROVE mem'[a] \in Bytes
    BY <1>4, <1>7, <1>26, PacketBytes
  <2>2. m1 = [a \in Addresses |-> m1[a]]
    BY <1>4 DEF m1, Wiped, Fill, CopyIn
  <2>3. mem' = [a \in Addresses |-> mem'[a]]
    BY <1>3, <2>2 DEF Wiped, Fill, CopyIn
  <2> QED BY <2>1, <2>3
<1>28. ASSUME NEW d \in fp .. DataSize - 1
       PROVE  mem'[(front + d) % DataSize] = mem[(front + d) % DataSize]
  <2>1. /\ (front + d) % DataSize \in Addresses
        /\ Distance(front, (front + d) % DataSize) >= HeaderSize
        /\ Distance(start, (front + d) % DataSize) >= p.size
    BY <1>9
  <2>2. /\ Distance(front, (front + d) % DataSize) \in Nat
        /\ Distance(start, (front + d) % DataSize) \in Nat
    BY <1>4, <1>9, <2>1, Layout DEF Distance, Addresses
  <2> QED BY <1>8, <1>26, <2>1, <2>2, Layout
(* The places of the packets that are left are the same.                   *)
<1>29. ASSUME NEW i \in 1 .. n - 1, NEW j, j = i + 1, NEW k \in Nat,
              k < HeaderSize + pending[j].packet.size
       PROVE  /\ Place(i, k)' = Place(j, k)
              /\ mem'[Place(i, k)'] = mem[Place(j, k)]
  <2> DEFINE d == pending[j].offset - fp + k
             size == pending[j].packet.size
  <2>1. /\ j \in 1 .. n /\ j # 1 /\ front \in Nat
        /\ pending'[i].offset = pending[j].offset - fp /\ pending'[i].offset \in Nat
    BY <1>4, <1>20, <1>29 DEF Addresses
  <2>2. n # 1 /\ front' = (front + fp) % DataSize
    BY <1>5, <1>18, <2>1
  <2>3. /\ size \in Nat /\ pending[j].offset \in Nat /\ Extent(j) \in Nat
        /\ HeaderSize + size <= Extent(j) /\ pending[j].offset + Extent(j) <= Taken
    BY <1>6, <2>1
  <2>4. d \in 0 .. DataSize - fp /\ fp + d \in fp .. DataSize - 1
    <3>1. k < HeaderSize + size
      BY <1>29
    <3> HIDE DEF size
    <3> QED BY <1>4, <1>8, <2>1, <2>3, <3>1, Layout
  <2>5. (front + fp) % DataSize \in Nat
    BY <1>9, Layout DEF Addresses
  <2>6. Place(i, k)' = (((front + fp) % DataSize) + d) % DataSize
    <3>1. ((front + fp) % DataSize) + (pending[j].offset - fp) + k
            = ((front + fp) % DataSize) + d
      BY <1>8, <2>3, <2>5
    <3>2. Place(i, k)' = (front' + pending'[i].offset + k) % DataSize
      BY DEF Place
    <3> QED BY <2>1, <2>2, <3>1, <3>2
  <2>7. Place(j, k) = (front + (fp + d)) % DataSize
    <3>1. front + pending[j].offset + k = front + (fp + d)
      BY <1>8, <2>1, <2>3
    <3> QED BY <3>1 DEF Place
  <2> HIDE DEF d
  <2>8. (((front + fp) % DataSize) + d) % DataSize = (front + (fp + d)) % DataSize
    BY <1>9, <2>4
  <2> QED BY <1>28, <2>4, <2>6, <2>7, <2>8
<1>30. PacketsIntact'
  <2>1. ASSUME NEW i \in 1 .. n - 1
        PROVE  LET q == pending'[i].packet
               IN  /\ \A k \in 0 .. HeaderSize - 1 : mem'[Place(i, k)'] = HeaderBytes(q)[k]
                   /\ \A k \in 0 .. q.size - 1 :
                        mem'[Place(i, HeaderSize + k)'] = DataBytes(q)[k]
    <3> DEFINE j == i + 1
               q == pending[j].packet
    <3>1. /\ j \in 1 .. n /\ j # 1 /\ pending'[i].packet = q
          /\ pending'[i].offset = pending[j].offset - fp /\ pending'[i].offset \in Nat
      BY <1>20
    <3>2. n # 1 /\ front' = (front + fp) % DataSize
      BY <1>5, <1>18
    <3> HIDE DEF j
    <3>3. /\ q.size \in Nat /\ pending[j].offset \in Nat /\ Extent(j) \in Nat
          /\ HeaderSize + q.size <= Extent(j) /\ pending[j].offset + Extent(j) <= Taken
      BY <1>6, <3>1
    <3>4. /\ \A k \in 0 .. HeaderSize - 1 : mem[Place(j, k)] = HeaderBytes(q)[k]
          /\ \A k \in 0 .. q.size - 1 : mem[Place(j, HeaderSize + k)] = DataBytes(q)[k]
      BY <1>5, <3>1 DEF RingInv, PacketsIntact
    <3> HIDE DEF q
    <3>5. ASSUME NEW k \in Nat, k < HeaderSize + q.size
          PROVE  mem'[Place(i, k)'] = mem[Place(j, k)]
      BY <1>29, <3>5 DEF j, q
    <3>6. ASSUME NEW k \in 0 .. HeaderSize - 1
          PROVE  mem'[Place(i, k)'] = HeaderBytes(q)[k]
      BY <3>3, <3>4, <3>5, Layout
    <3>7. ASSUME NEW k \in 0 .. q.size - 1
          PROVE  mem'[Place(i, HeaderSize + k)'] = DataBytes(q)[k]
      <4>1. HeaderSize + k \in Nat /\ HeaderSize + k < HeaderSize + q.size
        BY <3>3, Layout
      <4> QED BY <3>4, <3>5, <4>1
    <3> QED BY <3>1, <3>6, <3>7
  <2> QED BY <1>19, <2>1 DEF PacketsIntact
<1>31. TypeOK'
  <2>1. front' \in Addresses /\ next' \in Addresses
    BY <1>4, <1>9, <1>18, Layout DEF Addresses
  <2> QED BY <1>3, <1>12, <1>14, <1>23, <1>27, <2>1 DEF RingInv, TypeOK
<1>32. PulledWiped'
  <2>1. ASSUME debug', NEW a \in Addresses, mem'[a] # Blank
        PROVE  \E i \in 1 .. n - 1 :
                 \E k \in 0 .. HeaderSize + pending'[i].packet.size - 1 : a = Place(i, k)'
    <3>1. debug /\ mem[a] # Blank
      BY <1>26, <2>1
    <3>2. ~(Distance(front, a) < HeaderSize) /\ ~(Distance(start, a) < p.size)
      BY <1>26, <2>1, <3>1
    <3>3. PICK j \in 1 .. n : \E k \in 0 .. HeaderSize + pending[j].packet.size - 1 :
                                a = Place(j, k)
      BY <1>5, <3>1 DEF RingInv, PulledWiped
    <3>4. PICK k \in 0 .. HeaderSize + pending[j].packet.size - 1 : a = Place(j, k)
      BY <3>3
    <3>5. pending[j].packet.size \in Nat /\ front \in Nat
      BY <1>4, <1>6 DEF Addresses
    <3>6. j # 1
      <4>1. SUFFICES ASSUME j = 1 PROVE FALSE
        OBVIOUS
      <4>2. k \in 0 .. HeaderSize + p.size - 1 /\ a = (front + k) % DataSize
        <5>1. front + pending[1].offset + k = front + k
          BY <1>2, <3>5, Layout
        <5> QED BY <3>4, <4>1, <5>1 DEF Place, p
      <4>3. CASE k < HeaderSize
        <5>1. k \in 0 .. HeaderSize - 1
          BY <1>8, <4>2, <4>3, Layout
        <5>2. Distance(front, a) = k
          BY <1>9, <4>2, <5>1
        <5> QED BY <3>2, <4>3, <5>2
      <4>4. CASE ~(k < HeaderSize)
        <5>1. k \in HeaderSize .. fp - 1 /\ k - HeaderSize < p.size
          BY <1>8, <4>2, <4>4, Layout
        <5>2. Distance(start, a) = k - HeaderSize
          BY <1>9, <4>2, <5>1
        <5> QED BY <3>2, <5>1, <5>2
      <4> QED BY <4>3, <4>4
    <3> DEFINE i == j - 1
    <3>7. i \in 1 .. n - 1 /\ j = i + 1
      BY <1>5, <3>6
    <3>8. k \in Nat /\ k < HeaderSize + pending[j].packet.size
      BY <3>5, Layout
    <3> HIDE DEF i
    <3>9. Place(i, k)' = Place(j, k) /\ pending'[i].packet = pending[j].packet
      BY <1>20, <1>29, <3>7, <3>8
    <3> QED BY <3>4, <3>7, <3>9
  <2> QED BY <1>19, <2>1 DEF PulledWiped
<1> QED
  BY <1>4, <1>12, <1>22, <1>24, <1>30, <1>31, <1>32 DEF RingInv

-----------------------------------------------------------------------------
(* A packet that fits goes into the data area, and takes some of its room. *)
LEMMA PushRoom ==
  ASSUME SizesFit, RingInv, attached = Ends, NEW p \in FreshPackets,
         p.size # 0, Fits(p.size)
  PROVE  LET size == U32(p.size)
             start == Advance(next, HeaderSize)
             dw == PushDataWraps(front, start, size)
         IN  /\ InBounds(next, PushHeaderWraps(front, next), HeaderSize)
             /\ InBounds(start, dw, IF dw THEN size ELSE p.size)
             /\ U32(freeSpace - HeaderSize - AlignedSize(size)) # DataSize
<1> DEFINE fp == Footprint(p.size)
           start == Advance(next, HeaderSize)
           hw == PushHeaderWraps(front, next)
           dw == PushDataWraps(front, start, p.size)
<1>1. /\ p.size \in Nat \ {0} /\ fp < WordSize
      /\ fp \in Nat /\ HeaderSize + p.size <= fp
      /\ U32(p.size) = p.size
      /\ AlignedSize(p.size) = fp - HeaderSize
      /\ PacketSize(p.size) = fp
  BY FreshFacts, FootprintFacts
<1>2. /\ Taken = DataSize - freeSpace /\ Taken \in Nat
      /\ freeSpace \in Nat /\ freeSpace <= DataSize
      /\ front \in Addresses /\ next = (front + Taken) % DataSize
  BY Layout DEF RingInv, Taken, TypeOK, HeaderDescribesRing, Ends
<1>3. fp <= freeSpace
  BY <1>1 DEF Fits
<1>4. Taken + fp <= DataSize
  BY <1>1, <1>2, <1>3, Layout
<1> HIDE DEF fp
<1>5. /\ next \in Addresses /\ start \in Addresses
      /\ next + HeaderSize > DataSize => hw
      /\ start + p.size > DataSize => dw
  BY <1>1, <1>2, <1>4, PushGeometry
<1>6. /\ HeaderSize \in 0 .. DataSize /\ p.size \in 0 .. DataSize
      /\ hw \in BOOLEAN /\ dw \in BOOLEAN
  BY <1>1, <1>2, <1>4, Layout DEF PushHeaderWraps, PushDataWraps
<1>7. InBounds(next, hw, HeaderSize) /\ InBounds(start, dw, p.size)
  BY <1>5, <1>6, StaysInBounds
<1>8. U32(freeSpace - HeaderSize - AlignedSize(p.size)) # DataSize
  <2>1. freeSpace - HeaderSize - AlignedSize(p.size) = freeSpace - fp
    BY <1>1, <1>2, Layout
  <2>2. freeSpace - fp \in Nat /\ freeSpace - fp < DataSize /\ freeSpace - fp < WordSize
    BY <1>1, <1>2, <1>3, Layout
  <2> QED BY <2>1, <2>2, Unwrapped, Layout
<1> QED BY <1>1, <1>7, <1>8

(* The oldest packet comes out of the data area, and the room it frees is  *)
(* added to freeSpace without a carry.                                     *)
LEMMA PullRoom ==
  ASSUME SizesFit, RingInv, attached = Ends, freeSpace # DataSize
  PROVE  LET p == pending[1].packet
             start == Advance(front, HeaderSize)
             free == freeSpace + HeaderSize + AlignedSize(p.size)
         IN  /\ 1 \in DOMAIN pending
             /\ SizesRead(CopyOut(mem, front, PullWraps(front, HeaderSize), HeaderSize))
                   = {p.size}
             /\ InBounds(front, PullWraps(front, HeaderSize), HeaderSize)
             /\ InBounds(start, PullWraps(start, p.size), p.size)
             /\ {freeSpace, AlignedSize(p.size), free} \subseteq Nat
             /\ U32(free) = free /\ U32(freeSpace + HeaderSize) = freeSpace + HeaderSize
<1> DEFINE p == pending[1].packet
           fp == Footprint(p.size)
           start == Advance(front, HeaderSize)
           hw == PullWraps(front, HeaderSize)
           dw == PullWraps(start, p.size)
<1>1. /\ 1 \in DOMAIN pending /\ pending[1].offset = 0
      /\ SizesRead(CopyOut(mem, front, hw, HeaderSize)) = {p.size}
  BY OldestSize
<1>2. pending[1] \in Stored
  BY <1>1 DEF RingInv, Shape
<1>3. /\ p \in FreshPackets /\ p.size \in Nat \ {0} /\ fp \in Nat
      /\ HeaderSize + p.size <= fp /\ AlignedSize(p.size) = fp - HeaderSize
  BY <1>2, FreshFacts, FootprintFacts DEF Stored
<1>4. /\ Taken = DataSize - freeSpace /\ freeSpace \in Nat /\ front \in Addresses
      /\ fp <= Taken
  <2>1. pending[1].offset + Extent(1) <= Taken
    BY <1>1 DEF RingInv, Shape, Within
  <2> QED BY <1>1, <1>3, <2>1, Layout DEF RingInv, TypeOK, Taken, Ends, Extent
<1> HIDE DEF fp, p
<1>5. /\ start \in Addresses
      /\ front + HeaderSize > DataSize => hw
      /\ start + p.size > DataSize => dw
  <2>1. fp <= DataSize
    BY <1>3, <1>4, Layout
  <2> QED BY <1>3, <1>4, <2>1, PullGeometry
<1>6. /\ HeaderSize \in 0 .. DataSize /\ p.size \in 0 .. DataSize
      /\ hw \in BOOLEAN /\ dw \in BOOLEAN
  BY <1>3, <1>4, Layout DEF PullWraps
<1>7. InBounds(front, hw, HeaderSize) /\ InBounds(start, dw, p.size)
  BY <1>4, <1>5, <1>6, StaysInBounds
<1>8. /\ AlignedSize(p.size) \in Nat /\ freeSpace + HeaderSize + AlignedSize(p.size) \in Nat
      /\ freeSpace + HeaderSize + AlignedSize(p.size) < WordSize
      /\ freeSpace + HeaderSize \in Nat /\ freeSpace + HeaderSize < WordSize
  BY <1>3, <1>4, Layout
<1> HIDE DEF start, hw, dw
<1> QED BY <1>1, <1>4, <1>7, <1>8, Unwrapped DEF p, start, hw, dw

(* Wiping the header of the oldest packet leaves its payload alone.        *)
LEMMA PullApart ==
  ASSUME SizesFit, RingInv, attached = Ends, freeSpace # DataSize
  PROVE  LET p == pending[1].packet
             hw == PullWraps(front, HeaderSize)
             start == Advance(front, HeaderSize)
             dw == PullWraps(start, p.size)
         IN  CopyOut(Wiped(mem, front, hw, HeaderSize), start, dw, p.size)
               = CopyOut(mem, start, dw, p.size)
<1> DEFINE p == pending[1].packet
           fp == Footprint(p.size)
           start == Advance(front, HeaderSize)
           hw == PullWraps(front, HeaderSize)
           dw == PullWraps(start, p.size)
           m == Wiped(mem, front, hw, HeaderSize)
<1>1. 1 \in DOMAIN pending /\ pending[1].offset = 0 /\ pending[1] \in Stored
  BY OldestSize DEF RingInv, Shape
<1>2. /\ p \in FreshPackets /\ p.size \in Nat \ {0} /\ fp \in Nat
      /\ HeaderSize + p.size <= fp
  BY <1>1, FreshFacts, FootprintFacts DEF Stored
<1>3. front \in Addresses /\ fp <= DataSize
  <2>1. pending[1].offset + Extent(1) <= Taken
    BY <1>1 DEF RingInv, Shape, Within
  <2> QED BY <1>1, <1>2, <2>1, Layout DEF RingInv, TypeOK, Taken, Ends, Extent
<1> HIDE DEF fp, p
<1>4. /\ start \in Addresses /\ start = (front + HeaderSize) % DataSize
      /\ front + HeaderSize > DataSize => hw
      /\ start + p.size > DataSize => dw
  BY <1>2, <1>3, PullGeometry
<1>5. /\ HeaderSize \in 0 .. DataSize /\ p.size \in 0 .. DataSize
      /\ hw \in BOOLEAN /\ dw \in BOOLEAN
  BY <1>2, <1>3, Layout DEF PullWraps
<1> HIDE DEF start, hw, dw
<1>6. ASSUME NEW k \in 0 .. p.size - 1
      PROVE  m[Slot(start, dw, k)] = mem[Slot(start, dw, k)]
  <2> DEFINE a == Slot(start, dw, k)
             d == HeaderSize + k
  <2>1. d \in Nat /\ d < DataSize /\ HeaderSize <= d /\ k \in Nat
    BY <1>2, <1>3, Layout
  <2>2. a \in Addresses /\ a = (front + d) % DataSize
    <3>1. a \in Addresses /\ a = (start + k) % DataSize
      BY <1>4, <1>5, SlotInRing
    <3> QED BY <1>3, <1>4, <2>1, <3>1, AroundOnce
  <2> HIDE DEF a, d
  <2>3. Distance(front, a) = d
    <3>1. a = IF front + d < DataSize THEN front + d ELSE front + d - DataSize
      BY <1>3, <2>1, <2>2, ModOnce, Layout DEF Addresses
    <3> QED BY <1>3, <2>1, <3>1, Layout DEF Distance, Addresses
  <2>4. ByteAt(front, hw, a) \notin 0 .. HeaderSize - 1
    BY <1>3, <1>4, <1>5, <2>1, <2>2, <2>3, CopiedByte
  <2> QED BY <2>2, <2>4 DEF Wiped, Fill, CopyIn, a
<1> HIDE DEF m
<1>7. CopyOut(m, start, dw, p.size) = CopyOut(mem, start, dw, p.size)
  BY <1>6 DEF CopyOut
<1> QED BY <1>7 DEF p, start, hw, dw, m

(* Every call and every constructor keeps the invariant.                   *)
LEMMA StepKeeps ==
  ASSUME SizesFit, Orderly, RingInv, [Next]_ringVars
  PROVE  RingInv'
<1>1. CASE UNCHANGED ringVars
  BY <1>1, AnswerKeeps DEF ringVars, header
<1>2. ASSUME Next, NEW end \in Ends, Attach(end) PROVE RingInv'
  BY <1>2, AttachKeeps DEF Next
<1>3. ASSUME Next, NEW p \in FreshPackets, push(p) PROVE RingInv'
  <2>1. p \in FreshPackets /\ attached = Ends /\ debug' = debug
    BY <1>3 DEF Next, FreshPackets, push, Ready
  <2>2. CASE PushNothing(p) \/ PushOverflow(p)
    BY <2>1, <2>2, AnswerKeeps DEF PushNothing, PushOverflow, Answer
  <2>3. CASE PushStore(p)
    BY <2>1, <2>3, PushKeeps
  <2> QED BY <1>3, <2>2, <2>3 DEF push
<1>4. ASSUME Next, pull PROVE RingInv'
  <2>1. attached = Ends /\ debug' = debug
    BY <1>4 DEF Next, pull, Ready
  <2>2. CASE PullNothing
    BY <2>1, <2>2, AnswerKeeps DEF PullNothing, Answer
  <2>3. CASE PullTake
    BY <2>1, <2>3, PullKeeps
  <2> QED BY <1>4, <2>2, <2>3 DEF pull
<1>5. ASSUME Next, isFull \/ isEmpty \/ getMessageCount PROVE RingInv'
  BY <1>5, AnswerKeeps DEF Next, isFull, isEmpty, getMessageCount, Answer
<1> QED BY <1>1, <1>2, <1>3, <1>4, <1>5 DEF Next

(* When both ends are attached once before the first call, no sequence of  *)
(* pushes of new packets and of pulls leads out of RingInv, whatever the   *)
(* sizes, however the copies wrap.                                         *)
THEOREM RingCorrect == ASSUME SizesFit, Orderly PROVE Spec => []RingInv
<1>1. Init => RingInv
  BY InitRing
<1>2. RingInv /\ [Next]_ringVars => RingInv'
  BY StepKeeps
<1> QED BY <1>1, <1>2, PTL DEF Spec

(* front and next stay addresses, freeSpace and messageCount in range.     *)
THEOREM RingTypeCorrect == ASSUME SizesFit, Orderly PROVE Spec => []TypeOK
<1>1. RingInv => TypeOK
  BY DEF RingInv
<1> QED BY <1>1, RingCorrect, PTL

(* Whatever has been pushed and pulled, every packet in the ring is whole. *)
THEOREM RingKeepsPackets == ASSUME SizesFit, Orderly PROVE Spec => []PacketsIntact
<1>1. RingInv => PacketsIntact
  BY DEF RingInv
<1> QED BY <1>1, RingCorrect, PTL

(* The header's four numbers describe the packets in the ring.             *)
THEOREM HeaderCorrect == ASSUME SizesFit, Orderly PROVE Spec => []HeaderDescribesRing
<1>1. RingInv => HeaderDescribesRing
  BY DEF RingInv
<1> QED BY <1>1, RingCorrect, PTL

(* A debug build leaves nothing of a pulled packet in the data area.       *)
THEOREM PulledAreWiped == ASSUME SizesFit, Orderly PROVE Spec => []PulledWiped
<1>1. RingInv => PulledWiped
  BY DEF RingInv
<1> QED BY <1>1, RingCorrect, PTL

(* No copy of push() or pull() leaves the data area.                       *)
THEOREM CopiesCorrect == ASSUME SizesFit, Orderly PROVE Spec => []CopiesInBounds
<1>1. RingInv => CopiesInBounds
  BY DEF RingInv, CopiesInBounds
<1> QED BY <1>1, RingCorrect, PTL

=============================================================================

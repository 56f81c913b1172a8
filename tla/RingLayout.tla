----------------------------- MODULE RingLayout -----------------------------
(***************************************************************************)
(* The arithmetic of a packet in the ring's data area: how much room it    *)
(* takes and which bytes the copies of push() and pull() touch             *)
(* (libsmipc/ring-buffer/ring-buffer.hpp, tx-ring-buffer.cpp,              *)
(* rx-ring-buffer.cpp).                                                    *)
(***************************************************************************)
EXTENDS Integers

CONSTANTS
    DataSize,    \* data.size(): the bytes behind the ring's header
    HeaderSize,  \* sizeof(PacketHeader), 20 in the code
    Alignment,   \* kAlignment, 4 in the code
    WordSize     \* 2^32: one more than the largest uint32_t

(* What RingBuffer's constructor and the types guarantee: the data area is *)
(* a multiple of the alignment and below 2 GiB, and a packet header is a   *)
(* few aligned words of which the second is its size field.                *)
ASSUME LayoutAssumption ==
    /\ {DataSize, HeaderSize, Alignment, WordSize} \subseteq Nat \ {0}
    /\ DataSize % Alignment = 0
    /\ HeaderSize % Alignment = 0
    /\ 2 * Alignment <= HeaderSize
    /\ HeaderSize + 2 * DataSize <= WordSize

Addresses == 0 .. DataSize - 1

(* Storing a value in a uint32_t.                                          *)
U32(n) == n % WordSize

(* Mutated form of AlignedSize: an aligned size grows too.                 *)
AlignedSizeUp(size) == U32(size + (Alignment - (size % Alignment)))

AlignedSize(size) == U32(size + ((Alignment - (size % Alignment)) % Alignment))

(* The room push() asks for: the payload's size goes through uint32_t.     *)
PacketSize(size) == U32(HeaderSize + AlignedSize(U32(size)))

-----------------------------------------------------------------------------
(* A copy of "len" bytes that starts at "start" and, when "wraps" says so, *)
(* continues at the beginning of the data area.                            *)

(* Where byte i of the copy goes.                                          *)
Slot(start, wraps, i) ==
    IF wraps /\ i >= DataSize - start THEN i - (DataSize - start) ELSE start + i

(* Which byte of the copy an address holds.                                *)
ByteAt(start, wraps, a) ==
    IF wraps /\ a < start THEN a + (DataSize - start) ELSE a - start

InBounds(start, wraps, len) ==
    \A i \in 0 .. len - 1 : Slot(start, wraps, i) \in Addresses

(* std::copy_n from a packet into the ring                                 *)
CopyIn(mem, start, wraps, bytes, len) ==
    [a \in Addresses |->
        IF ByteAt(start, wraps, a) \in 0 .. len - 1
        THEN bytes[ByteAt(start, wraps, a)]
        ELSE mem[a]]

(* std::copy_n from the ring into a packet; what a copy that runs out of   *)
(* the ring finds there is left open.                                      *)
CopyOut(mem, start, wraps, len) ==
    [i \in {j \in 0 .. len - 1 : Slot(start, wraps, j) \in Addresses} |->
        mem[Slot(start, wraps, i)]]

(* Mutated form of Fill: it stops at the end of the data area.             *)
FillToEnd(mem, start, wraps, len, byte) ==
    CopyIn(mem, start, FALSE, [i \in 0 .. len - 1 |-> byte], len)

(* std::fill_n over the bytes just read                                    *)
Fill(mem, start, wraps, len, byte) ==
    CopyIn(mem, start, wraps, [i \in 0 .. len - 1 |-> byte], len)

-----------------------------------------------------------------------------
(* Mutated forms of the decisions below: room for the first word of the    *)
(* header is taken for room for all of it, or the payload never wraps.     *)
PushHeaderWrapsLate(front, start) ==
    front <= start /\ U32(start + Alignment) > DataSize

PushDataWrapsNever(front, start, size) == FALSE

(* push() decides on wrapping with the payload's full uint32_t size.  Only *)
(* a free area that runs over the end of the ring can make a copy wrap.    *)
PushHeaderWraps(front, start) ==
    front <= start /\ U32(start + HeaderSize) > DataSize

PushDataWraps(front, start, size) ==
    front <= start /\ U32(start + size) > DataSize

(* pull() looks at the end of the ring only.                               *)
PullWraps(start, size) == U32(start + size) > DataSize

(* Moving front or next past "size" bytes.                                 *)
Advance(start, size) == U32(start + size) % DataSize

=============================================================================

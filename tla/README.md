# A TLA+ model of smipc

smipc is a C++20 library for messages between processes through shared memory.
This directory holds TLA+ modules translated from its source, TLC
configurations that check them on small instances, and proofs for all
instances. Paths below are relative to `src/libsmipc/libsmipc/` unless they
start with `src/`. `PROJECT.json` maps every definition to the lines it stands
for, and lists the runs, the hazards, the findings and the theorems.

    tlc -workers 2 -config ring.cfg RingBuffer.tla     # one run
    tlapm DekkarLock_proofs.tla                        # the proofs
    tlapm RingBuffer_proofs.tla                        # and the same for
                                                       # RingFifo_proofs, LockedRing_proofs,
                                                       # PosixSharedMemory_proofs,
                                                       # WindowsSharedMemory_proofs,
                                                       # SharedMemoryPipe_proofs,
                                                       # Serdes_proofs

## 1. Inventory of the system

    SharedMemoryPipe                     one end of a connection: two one-way pipes
      '-- Rx / TxSharedMemoryPipe
            |-- SharedMemory             a named segment, POSIX or Windows
            '-- RingBuffer (rx / tx)     packets in the segment's data area
                  |-- DekkarLock         three booleans in the ring's header
                  '-- Packet             header + payload bytes
    Serialisable<T>                      structs <-> payload bytes
    Server, Client, channels             declared, not implemented

| Component | State | Operations | What makes it correct |
|---|---|---|---|
| `DekkarLock` (`ring-buffer/dekkar-lock.cpp`) | `rxWaiting`, `txWaiting`, `turn`, atomic booleans in shared memory | `lock`, `unlock`, `tryLock` | two ends never inside together; calls return; a dead holder never lets two in |
| `RingBuffer` (`ring-buffer/ring-buffer.hpp`, `.cpp`) | `front`, `next`, `freeSpace`, `messageCount`, the data area | constructor | attaching leaves a ring in use as it is |
| `TxRingBuffer` | - | `push`, `isFull` | packets stored whole and in order; refused exactly when they do not fit |
| `RxRingBuffer` | - | `pull`, `isEmpty`, `getMessageCount` | hands over the oldest packet byte for byte; frees exactly its room |
| `Packet` | header (size, checksum, transfer id, count), payload | constructors, `print` | the header describes the payload |
| `PosixSharedMemory` | name, segment with spin lock, `refCount`, close signal, `dataSize`; per object handle, size, view | `create`, `open`, `close`, `closeAll` | exact reference count, also when a call fails half way; opened segments have their full size; no name left behind, none taken away early; the lock is released on every path |
| `WindowsSharedMemory` | the same, the name living as long as a handle | the same | the same, and every handle is closed |
| pipes (`shared-memory/*-pipe.hpp`) | two segments, ".rx" and ".tx", and a ring in each | `CreateSharedMemoryPipe`, `OpenSharedMemoryPipe`, `write`, `read`, destructors | a client that finds one segment of a server's pipe finds the other; the count is right on every exit; each end reads what the other wrote |
| `VariableInteger` | value, bytes, count | encode, decode, `size` | decode inverts encode |
| `Serialisable` (`serdes/`) | a span and a pointer into it | `serialise`, `serialiseInto`, `deserialise`, `getSize`, `getMinimumSize`, `isDynamic` | sizes agree with what is written; what is read is what was written |
| `AtomicSpinLock` | a boolean | `lock`, `unlock`, `tryLock` | not used anywhere |
| InTime shared memory | - | commented out | - |
| `Server`, `Client`, channels, broker | - | declarations; `src/doc/design_notes.md` only | - |
| `src/smipcc` | - | parses a JSON service description and prints it | - |

How they interact: the two ends of a ring are objects in two processes that
share nothing but the segment. Every operation of either end takes a
`DekkarLock` through `std::lock_guard`; `pull()` takes it twice. The segment
has a lock of its own, a spin lock on an `atomic_flag`, around its reference
count. There are no messages, callbacks or timers.

What is hard about it: every load and store of the lock, of the ring's header
and of the segment's header interleaves with the other process; either process
may die at any of them, with the shared state staying as it was; packets wrap
around the end of the ring in several ways; sizes are `uint32_t`; system calls
fail half way through a call; a connection is two segments, which come and go
one after the other; an object may be used again, with what its last use left in
it; the size of a struct is computed by one walk over
its members and used by another. `PROJECT.json` lists these hazards at their
lines with the properties that cover them, or the reason why none does.

## 2. The modules

    DekkarLock  <--- MCDekkarLock, DekkarLock_proofs
        ^
        | INSTANCE
    LockedRing --refines--> RingBuffer --refines--> PacketFifo
        ^                      |   ^
        |                      |   RingBuffer_proofs <--- RingFifo_proofs
        |                  RingLayout                          |
    LockedRing_proofs  <----------------- INSTANCE ------------'
    PosixSharedMemory  <--- MCPosixSharedMemory, PosixSharedMemory_proofs
    WindowsSharedMemory  <--- WindowsSharedMemory_proofs
    SharedMemoryPipe  <--- SharedMemoryPipe_proofs
    VariableInteger <--- Serdes  <--- MCSerdes, Serdes_proofs

**DekkarLock.** One action per atomic access: `LockRaise` is `m_flag1.store`
at line 34, `LockEnter`/`LockContend` the two outcomes of `m_flag2.load` at 36,
`LockOwn` 38, `LockDrop` 40, `LockTurn` the loop at 41, and so on for
`unlock()` and `tryLock()`. `pc` says which access comes next. The accesses use
the default, sequentially consistent order, so a global interleaving of them
is the code's semantics. `Restart` kills a process between two accesses; its successor's lock object is built on the flags as they
were. `Threads`, `SideOf`, `TryLockers` and `Mortal` are
parameters.

**RingLayout.** The arithmetic: `AlignedSize`, the room a packet takes, the
decisions whether a copy wraps, and the copies and fills themselves, as
functions over addresses. Every size goes through `U32`, which is modulo
`WordSize`, where the code stores it in a `uint32_t`.

**RingBuffer.** The constructor, `push`, `isFull`, `pull`, `isEmpty` and
`getMessageCount`, each one step. A byte of the ring is a record that says
which packet's which byte it is, so a byte out of place is seen; the bytes of
the size field also carry the number stored there, and `pull()` believes what
it finds, as the code does. If payload bytes lie where the size field should
be, any number may be read. `debug` is `IsDebugBuild()`: a debug build zeroes
what it has read, and the size in the packet it returns (line 127). `pending`
is a history variable, the packets stored and not yet pulled; the code never
sees it. With `Orderly` both ends are attached once before the first call.
Packets that are pushed are new ones: the one a debug build's `pull()` returned
says size 0 in its header, and pushing it breaks the ring.

**LockedRing.** The same calls taken apart where the other end can run: each
access of the lock (by `INSTANCE DekkarLock`), reading the header, publishing
it, copying the packet's header and its payload, storing the header back.
`push()` really publishes before it copies; `pull()` really looks for a packet
under one hold of the lock and takes it under another.

**PacketFifo.** What callers are promised: a bounded queue of packets. An
implementer of another ring could check against the same module.

**PosixSharedMemory.** A name, segments, one object per process, and one
action per access of something shared. `CreateOpen` is `shm_open` with
`O_CREAT` and without `O_EXCL`, `Truncate` the unchecked `ftruncate`,
`Initialise` the clearing of the lock, `LockNew`, `Fill` and `Release` the
rest of `create()`; `OpenFound`, `Peek` (the size read from a first mapping,
without the lock), `LockOpened`, `Join`, `Joined`, `Release` are `open()`;
`Close`, `LockClose`, `Leave`, `Left`, `ReleaseClose`, `CloseUnlink` are
`close()`; `CloseAll`, `LockAll`, `SignalClose`, `WaitAlone` and then the
steps of `close()` are `closeAll()`. The count is read and written in two
steps, so that a lost update would be possible. The error paths, for the system
calls in `Faults`, are `CreateFails` and `OpenMissing` (`shm_open`), `MapFails`
(`mmap`; the object gives its handle up and unlinks the name, and does not look
whether that worked), `PeekUnmapFails` (`munmap` in `open()`, which throws and
leaves a handle without a view: point `noView`), `CloseUnmapFails` (`munmap` in
`close()`, which throws with the reference given back and the handle and the
view kept, so that the next `close()` gives back another) and `CloseUnlinkFails`
(`shm_unlink` in `close()`, which throws with the view gone and the handle
kept). `Refused` is the object that has a handle already, `CloseNothing` the
`close()` or `closeAll()` without a view, which dereferences a null pointer,
`TouchesNothing` the fatal access of a mapped segment without bytes, `Kill` a
killed process. `shm_unlink` removes the name, whichever segment it
refers to by then. Histories, which no guard but a bound reads, say what the
properties exempt: `lost` and `orphaned` what a killed process left, `counted`
whether an object's reference is in the count, `overdrawn` that one was given
back twice, `unlinkFailed` that a `shm_unlink` of the name failed.

**WindowsSharedMemory.** The same class on Windows, in the same style. A file
mapping has its name as long as a handle is open, and `CreateFileMapping` of a
name in use gives the mapping in use, so there is one segment, which goes with
its last handle (`CloseHandle`). `m_size` survives a `close()` and is what the
next `open()` maps (`LockOpened`), and a failed mapping closes the handle and
keeps its number (`MapFails`), so that the object refuses every retry
(`Refused`). `closeAll()` looks at the count before it takes the lock
(`CloseAll`).

**SharedMemoryPipe.** A connection of a server and one client after another:
what `CreateSharedMemoryPipe()` and `OpenSharedMemoryPipe()` do with two names,
step by step - the first segment, the second, the ring on each - and what is
left when one of the steps throws: `SecondFails`, `RingThrows` and
`SecondRingThrows` (the segments of two pipes of different sizes, paired by a
client between whose two opens the server made its pipe anew) destroy the
segments in hand without a `close()`, as the base class has no destructor that
closes, so references and handles stay (`Forgets`). `Attach` is the
ring's constructor, `RingAccepts` what it asks of its memory, `Write` and `Read`
a ring's call, `CloseTx` and `CloseRx` the members' destructors in the order of
C++. A segment's call is one step here; its inside is the subject of the two
modules above. Segments live as on Windows, because on Linux the alignment lets
no pipe come into being (`pipe_made`).

**VariableInteger, Serdes.** The integer of 8 groups of 7 bits and a last byte
of 8 is parameterised by both: `Continuation` is the continuation bit, 0x80,
below which a group's bits lie, `Groups` the 8. `Serdes` takes a struct through
`getMinimumSize()`, `getSize()`, `serialise()` or `serialiseInto()` and reads it
into another struct; a step is the visit of one member or element: `AddMinimum`
and `AddSize` add its size, `Write` is one `writeBytes`, `Read` one read. A
struct type is a sequence of member types, which nest (a vector of strings); a
struct maps each place in it - member 4, its second element, that one's third -
to the bytes, the number or the length there, and `todo` holds the places still
to be visited in the order the code's `for_each` and `processMembers()` do. Bytes
are numbers. Writing without room ends the
program (`throw;` with nothing to rethrow); reading does not look where the span
ends, which is `ReadBeyond`, after which the behaviour is undefined and the
model stops. `MCSerdes` has the two struct types of `serdes.benchmark.cpp` and
three more for what these leave out.

Definitions whose comment says "mutated form" or "mutant" belong to no
specification. Each is a plausible bug in the definition that follows it;
putting it in that definition's place must break the property listed with it in
`PROJECT.json`, which shows the property depends on that code.

## 3. The runs

Runs that must find no error:

| Run | Instance | States | What it shows |
|---|---|---|---|
| `lock_threads` | one thread at each end; both call `lock`, `tryLock` and `unlock` and may be killed anywhere | 438 | two threads that came through `lock()` never hold it together, whatever `tryLock` and restarts do; once the turn is set, a `lock()` call returns or comes to rest at line 41 with its flag down, and never goes round its loop for ever |
| `ring` | 14 bytes of data, packet header 4, alignment 2, payloads of 0, 1 and 4 bytes, words of 32; debug and release | 114 330 | the header's four numbers describe the packets in the ring; packets stay whole; copies stay in bounds; a debug build leaves nothing of a pulled packet and a release build never hands leftovers over; the calls answer like `PacketFifo` |
| `locked_ring` | the same with payloads of 0, 1 and 3, debug | 1 052 378 | the interleaved steps implement `RingBuffer`; the packet `pull()` saw is still there when it takes it; nobody leaves the lock with the ring half changed, a `push()` that throws included |
| `shm_orderly` | a server that may call `closeAll`, two segments, nobody creates a name in use or opens one being created; either two clients, where `shm_open`, `ftruncate` and `mmap` may fail, or one, where `munmap` and `shm_unlink` may fail as well; clients may be killed anywhere | 235 432 | the reference count is the number of users plus the references of the killed, until a `close()` that threw after giving its reference back is called again, and never too high; opened segments have their full size, and no name is left behind, unless a `shm_unlink` of the name failed or the segment is without bytes; every hold of the lock ends unless its holder is killed |
| `windows` | two servers and two clients in any order (one process is both), a client or server killed anywhere, mappings that fail, `closeAll` | 66 464 | the same on Windows, and every handle that stays open belongs to an object that will close it |
| `pipes` | a server that makes its pipe again and again, two clients one after the other, any of the three killed anywhere, either end closing first, failing system calls, a size no ring accepts | 173 101 | the reference counts are right on every exit, the references that throwing calls leave behind booked as lost (the leak itself is the code's and is not flagged); a client that finds the first segment while the server holds it finds the second; the rings agree with their packets; each end reads exactly what the other wrote |
| `serdes` | five struct types, vectors of strings and of integers among them, lengths 0 to 4, integers around every length boundary, spans of 0, 8, 20 and the exact size | 143 676 | `getSize()` is exact; `getMinimumSize()` is the size of a static struct; a struct whose lengths agree with what was sent is read back, from exactly the bytes written |

Runs that must find a violation, each a disagreement with what the
repository says of the program:

| Run | Property | The behaviour TLC shows |
|---|---|---|
| `lock_returns` | `LockReturns` | `unlock()` sets `turn` (`dekkar-lock.cpp:52`) and nothing clears it, so after the first `unlock()` a caller that meets the other flag lowers its own and spins at line 41 for ever |
| `ring_attach` | `PacketsOutliveAttach` | the constructor writes `freeSpace` (`ring-buffer.cpp:53`) on a ring that holds packets, which then looks empty |
| `shm_name` | `OwnerKeepsName` | a client's `close()` unlinks the name of the server's segment |
| `pipe_made` | `PipeMade` | on Linux the ring starts 17 bytes into the mapping (1 + 4 + 8 + 4, `shared-memory-view.hpp:45-49`), is not aligned, and its constructor throws: no pipe can be made, although `shared-memory.test.cpp:34` makes one |
| `serdes_lengths` | `Deserialised` | a vector or string keeps the length it had, and what follows is read from the wrong bytes |

### Bounds, and why they are enough

* *The ring.* 14 bytes hold two packets of the middle size (header 4, payload
  1 padded to 2) and 2 bytes besides, or one large one and one header short of
  another. Since 6 does not divide 14, front and next reach every even
  address, so headers and payloads are split by the end of the ring after each
  of their alignment units, and not at all. A payload of 4 after one of 1 or 4 fills the ring
  exactly or is refused by 2 bytes. `WordSize` 32 is the least the layout's
  assumption allows, so an arithmetic slip that produced a negative number
  would appear as a large one. Two transfer ids tell packets apart.
* *The lock.* The code has one thread at each end by construction of the two
  ring classes; the instance is complete for that use, and the theorem
  covers any set of threads with one at each end.
* *LockedRing* uses the debug build, which writes in `pull()` as well and so
  interferes more. Constructors run before the first call, because a
  constructor does not take the lock (`ring_attach` is about that).
* *Shared memory.* Two clients are the fewest that can update the count
  against each other while a server does, too. `MaxSegments` 2 lets a new
  segment take the name while an old one is still open. `MaxLost` 1 bounds the
  references lost per segment; a killed process acts on the count only by
  leaving it too high. With two clients, two segments and all five failing calls
  in one behaviour there are millions of states, so in `MCPosixSharedMemory` a behaviour has
  either two clients and the calls that fail before an object counts, or one client
  and the calls that fail afterwards or in undoing something as well
  (`undoFails`): server and client are enough for a reference given back twice,
  for a name that stays and is found again, and for a segment that was given up
  half made. The theorems have no such bound.
  Sizes are opaque: 17 is the header and 32 stands for
  any size above it. In `windows` one process plays both parts, and two sizes
  let a segment be followed by a longer or a shorter one.
* *Orderly.* Both platforms' runs leave out one thing the code does not prevent:
  a `create()` of a name in use, or an `open()` of a name being created. Without
  it the reference count is wrong (the second creator writes 1 over it), and a
  client can read a size of 0 (`posix-shared-memory.cpp:110`). `OpenedWhole` says
  nothing of that race.
* *Pipes.* A ring of 28 bytes of data and packets of 12: two fit, so the third
  of `MaxWrites` 3 meets a full ring; 48 is a size a ring accepts and 50 one it
  refuses. `Orderly` is what a broker would have to see to: nobody writes before
  both ends are there, one client at a time, a pipe is made again only when
  nobody holds the old one and no packets are left in it. Each is needed: the
  constructor of an end that comes late makes the packets in the ring disappear
  (`ring_attach`).
* *Integers.* With `Continuation` 4, groups of 2 bits, and 2 groups a number has 7 bits, three
  lengths and a last byte with one bit more than a group: each boundary of the
  real 7-bit, 8-group encoding has its counterpart, and the values are on both
  sides of each.
* `CHECK_DEADLOCK FALSE` is set in the serialisation runs, where a struct has
  been read and the program ends, and in `locked_ring` and `lock_returns`, where both ends
  can wait for the turn for ever: the code really stops there.

### Fairness

`DekkarLock!FairSpec` gives a thread inside `lock()`, `tryLock()` or `unlock()` weak
fairness: the scheduler runs it again, and a holder leaves, because critical
sections are bounded and end in a `std::lock_guard`'s destructor. No thread has
to start a call, and no process has to die. `PosixSharedMemory!FairSpec` and
`WindowsSharedMemory!FairSpec` give
the same to the steps of a call that has begun, and a process that is killed
while it holds the lock is exempted by `orphaned`. The spin loops have no
fairness of their own: a loop iteration that finds its variable unchanged
changes nothing, and weak fairness asks only for the step that leaves it, once
it stays possible. `ring`, `locked_ring`, `pipes` and
`serdes` check safety only.

## 4. The proofs

`DekkarLock_proofs` proves, for every set of threads and every choice of who
calls `tryLock` and who may be killed:

* `TypeCorrect`: `Spec => []TypeOK`, from `LockAssumption` alone.
* `LockExclusion`: with one thread at each end, `Spec => []LockHoldersExclusive`,
  the safety property of `lock_threads`, with `tryLock` callers and restarts.
* `Exclusion`: with one thread at each end and no `tryLock` callers,
  `Spec => []MutualExclusion`, which is what the ring relies on.

*The argument.* `LockHoldersExclusive` is not inductive: a state in which one
thread holds the lock with its flag down satisfies it, and the other end may
enter. The strengthening is `FlagUp`: a thread at one of the points of
`FlagUpPcs` - it competes, holds or is leaving - has its flag up. A step of
thread t leaves every other thread's point and flag alone
(`OthersUntouched`, the only place that needs one thread at each end) and
re-establishes t's part (`OwnFlagUp`). The only way to `held` is `LockEnter`
(`EntryIsLockEnter`), which reads the other flag down; by `FlagUp` nobody at
the other end holds. A killed process leaves its flag up or down at a point
where the invariant says nothing about it, so restarts do no harm.

`tryLock()` is a different matter. Having lowered its flag it reads the turn, raises the flag
and returns true without looking at the other flag again (line 79), so
`MutualExclusion` fails with `TryLockers` = `Threads`. Nothing in the
repository calls it, and `LockExclusion` shows that it cannot break the
exclusion of two `lock()` callers.

`RingBuffer_proofs` proves the ring for every size of the data area, of the
packet header, of the alignment and of the payloads, in debug and release
builds, from `LayoutAssumption`, `RingAssumption` and two conditions on the
constants: both ends are attached once before the first call (`Orderly`, without
which the code does go wrong, `ring_attach`), and no payload is
so close to 4 GiB that its size wraps (`SizesFit`; without it the aligned size
of such a payload is 0, and `push()` finds room for it in any ring):

* `RingCorrect`: `Spec => []RingInv`, the inductive invariant.
* `RingKeepsPackets`, `HeaderCorrect`, `PulledAreWiped`, `CopiesCorrect`,
  `RingTypeCorrect`: it contains `PacketsIntact`, `HeaderDescribesRing`,
  `PulledWiped`, `CopiesInBounds` and `TypeOK` of run `ring`.

*The argument.* None of these is inductive alone. `pull()` frees as much room
as the size field it finds in the data area says, so the header stays right
only while the bytes of the oldest packet are its own; `push()` spares these
bytes only if `next` and `freeSpace` are right. `RingInv` therefore joins them,
with `Chained` (packets do not overlap) and `Within` (they lie in the room that
is taken). The work is in few lemmas: `CopiedByte` - a copy changes the addresses at
a distance below its length from its start, counted around the end, and no
other - and `PushGeometry` and `PullGeometry`, which place the header and the
payload by that distance and show that the wrap decisions of the code
(`PushHeaderWraps`, `PushDataWraps`, `PullWraps`) say yes whenever a copy runs over
the end. `OldestSize` is what `pull()` reads; `PushKeeps` and `PullKeeps`
put them together, one step per conjunct.

`RingFifo_proofs` proves `RingIsFifo`: under the same conditions
`Spec => FifoSpec`, the refinement of `PacketFifo`. The queue is `pending`
without the packets' places (`Queue`), its taken bytes are `Taken`. What
`RingInv` does not say is what `pull()` hands over: `OldestDelivered` follows
header and payload byte by byte through both copies, the second of which reads a
data area the first may have wiped (`PullApart`), and finds them to be
`Delivered` of the oldest packet; `DeliveredInjective` says that no other packet
looks the same, so that `Decoded` is what callers make of it; and
`WholeDelivered` is the part of the invariant that keeps this true of the last
answer. Each kind of step - push, overflow, pull, a query, an attaching end -
then maps to the queue's or to none.

`LockedRing_proofs` proves what `locked_ring` checks, for every ring, every
payload and both builds, with `SizesFit` alone:

* `CallsAreAtomic`: `Spec => CallsAtomic`, the refinement of `RingBuffer`.
* `NothingLeftHalfDone` and `PacketStillThere`: `NothingHalfDone`,
  `CheckStillHolds`.
* `LockedIsFifo`: two ends that run their calls access by access, with the lock
  the code has, implement `PacketFifo`.

*The argument.* The inductive invariant has four parts. `LockInv` is the lock's:
an end between lock and unlock has its flag up, and one at most is there
(the argument of `Exclusion`, for the calls the ring makes). `CallInv` is what
an end knows and acts on later: the header `push()` has read is still the
ring's and has room, the packet `pull()` has seen is still there. `EffectInv`
says exactly how far the call inside has got - which header is published, which
bytes are copied or wiped - compared with the ring as the last finished call
left it, and that there is no difference when nobody is inside. The fourth part
is `RingInv` of that last ring: since every step maps to a step of `RingBuffer`
or to none, `StepKeeps` of `RingBuffer_proofs` carries it along, and it gives
back what the steps of a call need (`RoomToPush`, `RoomToPull`): the copies stay
in bounds, `pull()` reads the oldest packet's size, wiping its header spares its
payload.

`PosixSharedMemory_proofs` proves the segments' safety for every set of
processes, sizes and segments:

* `MemoryTypeCorrect`: `TypeOK`, under no condition.
* `MemoryCorrect`, `RefCountCorrect`: `RefCountCounts`, under `Orderly`. The count
  is exact but for a `close()` that is called again after its `munmap` failed;
  what is proved beyond that is that it is never too high.
* `WholeCorrect`, `OpenedCorrect`, `NameCorrect`: `OpenedWhole` and
  `NamedWhileHeld`, under `Orderly` and when no creator is killed. `Orderly` takes
  the race of `open()`'s unlocked read of the size away, so that `OpenedCorrect`
  is about failed calls, killed clients and names used again, not about the
  missing lock; and both properties exempt a name that `shm_unlink` failed to
  remove.

They hold for any of the five system calls failing at any of the points where
the code asks for its answer (and `ftruncate`, where it does not).

*The argument.* `RefCountCounts` is not inductive: a join reads the count, and
adds to what it has read.
`Locked` ties the segment's lock to the object that is between taking and
clearing it, `Exclusive` says there is one such object, `CountStands` that the
count it has read is the count, and `Alone` that nobody else uses a segment
while its creator sets it up, which is where `Orderly` is used. The history
`counted` says whose reference is in the count (`Given`: at which points an
object's can be), so that a `close()` retried after a failed `munmap` is a step
of its own kind in `CountRule`. The steps are of five kinds - the object's own,
a process that lets go of a segment, the calls of `shm_open`, a failed
`shm_unlink` that throws, and those that touch none of this - and each kind is
one lemma. For the name, `CreatorNames` says which creator holds it and
`LeftNames` that a creator left without a view has a name whose `shm_unlink` failed.

`WindowsSharedMemory_proofs` proves the four invariants of run `windows` for
every set of processes and sizes, whatever fails and whoever is killed, all of
them under `Orderly`, from `WindowsAssumption`:

* `SegmentCorrect`: the inductive invariant `SegmentInv`.
* `SegmentTypeCorrect`, `ReferencesCorrect`, `OpenedCorrect`, `HandlesCorrect`:
  `TypeOK`, `RefCountCounts`, `OpenedWhole`, `HandlesReturned`.

*The argument.* The count goes as on POSIX (`Locked`, `Exclusive`, `CountStands`,
`Alone`). No condition on the creators' deaths is needed here: a segment whose
creator dies while it sets it up has no other handle, and goes with it (`Alone`
with `HandlesReturned`), where on POSIX the name would keep it. So there is
either a creator at work or a header that is filled in (`Whole`), `open()` finds
the latter, and what an object believes of the size is right from
then on (`Sized`). Steps are of four kinds: `Own`, of an object that has a
handle and keeps it; `Drops`, when it lets go of it; `Gets`, when it gets one;
`Outside`, when it has none before or after.

`SharedMemoryPipe_proofs` proves the five invariants of run `pipes` for every
set of clients, all sizes, any room a packet takes and any number of packets,
whatever fails and whoever is killed, all of them under `Orderly`, from
`PipeAssumption`:

* `PipeCorrect`: the inductive invariant `PipeInv`.
* `PipeTypeCorrect`, `CountsCorrect`, `PairCorrect`, `RingsCorrect`,
  `DeliveryCorrect`: `TypeOK`, `RefCounts`, `OpenFindsBoth`, `RingsAgree`,
  `Delivered`.

*The argument.* `RingsAgree` and `Delivered` speak of pipes that are ready, and
what makes them true happens before: a ring's space is right from the moment the
first end attaches to it (`Accounted`, the only part of the header that the
constructor writes; `MessagesCounted` holds all the time), and the second end's
attaching changes nothing because the rings are empty while somebody makes a
pipe (`Quiet`) and nothing was written or read that the client could miss
(`Unheard`). A write keeps `Quiet` because both ends being ready, and there being
one client (`OneClient`), means that nobody is making a pipe (`NobodyMaking`). A
read finds a packet when space is missing, which is `Accounted` again. The
server makes first the segment that clients find last, and gives it back last:
holding one that clients find first means holding both, and what is held is
there (`HeldExist`), which is `OpenFindsBoth`. Steps are of four kinds - a
segment is taken, a ring attached to, a segment let go of with or without its
reference, a packet passed - and each kind is one lemma.

`Serdes_proofs` proves the four invariants of run `serdes` and the integers'
round trip, for every `Continuation` and number of `Groups`, every set of struct
types and of structs, and every size of span, from `IntegerAssumption` and
`SerdesAssumption` (a struct type has the shape C++ gives it, a struct has a
value at each of its places):

* `IntegersReadBack`: decoding is the inverse of encoding, whatever bytes follow.
* `SerdesTypes`: `TypeOK`.
* `MinimumIsLowerBound`: `MinimumHolds`.
* `SizesAgree`: `SizeIsExact`.
* `SentIsReadBack`: `ReadBack`.

*The argument.* The module's recursion is all over numbers with a bound
(`Weight`, `Shifted`, `Decode`). The library's induction theorem takes an
operator, which the provers cannot instantiate; `NatSet` and `Upwards` get the same
for a set of numbers from the well-foundedness of `<`, and `Iterated` that a function
defined step by step exists. With these, `GroupsAddUp` says that after every group
the value is what was read plus what is left, `LastByteFits` that what is left in
the end is a byte, and `EncodedSizeFacts` that the continuation bits are set up to
the last byte and no further, so that `Recovered` finds the end and the value.

`SizeIsExact` says where two walks over a struct end, and neither walk's place
says how far it has come in bytes. What is inductive is that there *is* a walk (`IsWalk`:
after each visit, the places left and the bytes written) which `getSize()` is on
(`SizeInv`) and `serialise()` follows (`WriteInv`), with the bytes of every visit
so far in the span (`Written`), since a later chunk goes behind the earlier ones
(`WalkClimbs`). `getSize()` does not visit a string's characters but counts them
at once; `WalkPastString` shows that it comes out where the walk does.
`deserialise()` is on the same walk as long as the lengths agree (`ReadInv`), so
that each read finds the chunk of its own place (`ReadsChunk`), and every value
has been read or lies at or below a place still to be visited (`AllRead`), where
nothing is left in the end. `MinimumHolds` compares the sums of the members'
minimum sizes (`MinimumSums`) with a size that has the elements of the members
so far on top (`SizeSoFar`).

The invariants with a walk in them quantify over functions and are out of TLC's
reach; what it checks is what follows from them.

*Only model-checked*: the liveness properties `LockReleased` (both platforms) and
`LockSettles`, since TLAPS proves none under fairness. Every other
property of a run that must find no error is a theorem.

## 5. Not modelled, and why

* `AtomicSpinLock`: nothing uses it. Its `tryLock()` returns the old value of
  `exchange(true)`, which is true when the lock was already taken.
* InTime shared memory is commented out; server, client, channels and the
  broker have no implementation; `smipcc` is a stub.
* `Packet`: `print()` formats; the checksum is never computed or checked; the
  transfer id is a label here.
* Memory orders: all are sequentially consistent in the source. The ring's
  header and data are plain memory; the lock's accesses order them.
* Serialisation of big-endian machines, and the byte order of plain values.
* Bytes read behind the end of a span, or written outside the ring: the models
  stop there, or show that it does not happen.
* Packets that were pulled and are pushed again: in a debug build their header
  says size 0 (`rx-ring-buffer.cpp:127`). `FreshPackets` leaves them out.
* The address space of a process: `munmap` is called with the length of the
  segment for a mapping of its header (`posix-shared-memory.cpp:112`).
* A killed process in the middle of `push()` or `pull()`: its lock flag stays
  up, and when it comes back its constructor wipes the ring's accounting; no
  document promises anything for this case.
* Two threads at one end: they share one flag and `lock()` does not exclude
  them from each other. One thread at each end is the assumption of the proofs.

## 6. Plan

What is left, in this order:

1. *Extend.* Two creators of one name, once the code says what should happen;
   the retry after an `open()` that failed; whether `closeAll()` is alone when
   it closes and whether it returns. No document promises anything for these
   today, so that there is no property to state.
2. The server, the client and the broker, when they are implemented.

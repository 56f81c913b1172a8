-------------------------- MODULE PosixSharedMemory --------------------------
(***************************************************************************)
(* A named shared-memory segment on POSIX systems and the objects, one per *)
(* process, that create it, open it and close it                           *)
(* (shared-memory/platform/posix-shared-memory.cpp).  A step is one access *)
(* of what the processes share: the name, the segment's size or its header *)
(* (lock, reference count, signals, size of the data); calls that concern  *)
(* one process only (mmap, munmap) belong to the step that follows them,   *)
(* unless they fail.                                                       *)
(*                                                                         *)
(* A descriptor stands for the segment it is open on, so m_handle is 0, -1 *)
(* or a segment's number.  A segment lives as long as it has a name or an  *)
(* object has it open.                                                     *)
(***************************************************************************)
EXTENDS Integers, FiniteSets

CONSTANTS
    Creators,     \* the objects that call create(): the servers' ends
    Openers,      \* the objects that call open(): the clients' ends
    AllClosers,   \* the objects that may call closeAll()
    Mortal,       \* the objects whose process may be killed at any step
    Orderly,      \* nobody creates a name in use, or opens one while it is created
    Faults,       \* the system calls that may fail
    HeaderBytes,  \* kSharedMemoryViewDataOffset
    Sizes,        \* the sizes asked of create()
    MaxSegments,  \* bound: segments alive at once
    MaxLost       \* bound: references of killed processes in one segment

Objects == Creators \cup Openers

ASSUME MemoryAssumption ==
    /\ Creators \cap Openers = {}
    /\ IsFiniteSet(Objects)
    /\ AllClosers \subseteq Objects /\ Mortal \subseteq Objects
    /\ Orderly \in BOOLEAN
    /\ Faults \subseteq {"shm_open", "ftruncate", "mmap", "munmap", "shm_unlink"}
    /\ HeaderBytes \in Nat \ {0} /\ MaxSegments \in Nat /\ MaxLost \in Nat
    /\ \A s \in Sizes : s \in Nat /\ s > HeaderBytes

VARIABLES
    name,     \* the segment the name refers to, 0 if none
    segs,     \* the segments: bytes, lock, refCount, closing, dataSize; and, as
              \* a history, how many references were lost with their process,
              \* and whether the lock was, a reference was given back twice,
              \* or the name could not be unlinked
    obj,      \* the objects: handle, size, the reference count being updated,
              \* and, as a history, whether its reference is in the count
    at        \* how far each object is in its call

memoryVars == <<name, segs, obj, at>>

None == 0
Bad == -1
Segments == 1 .. MaxSegments
NewSegment ==
    [bytes |-> 0, lock |-> FALSE, refCount |-> 0, closing |-> FALSE, dataSize |-> 0, lost |-> 0,
     orphaned |-> FALSE, overdrawn |-> FALSE, unlinkFailed |-> FALSE]
NewObject == [handle |-> None, size |-> 0, count |-> 0, counted |-> FALSE]

Init ==
    /\ name = None
    /\ segs = [s \in Segments |-> NewSegment]
    /\ obj = [p \in Objects |-> NewObject]
    /\ at = [p \in Objects |-> "idle"]

-----------------------------------------------------------------------------
(* What the steps have in common.                                          *)

Seg(p) == segs[obj[p].handle]
IsOpen(p) == obj[p].handle \in Segments
getSize(p) == obj[p].size
Move(p, from, to) == at[p] = from /\ at' = [at EXCEPT ![p] = to]
SetSeg(p, s) == segs' = [segs EXCEPT ![obj[p].handle] = s]
SetObj(p, o) == obj' = [obj EXCEPT ![p] = o]

(* The objects that count in refCount: their open() or create() has        *)
(* written the count and no close() has since.                             *)
Members(s) == {p \in Objects : obj[p].handle = s /\ obj[p].counted}

(* The system takes back a segment that has no name and no user left.      *)
InUse(s) == s = name \/ \E p \in Objects : obj[p].handle = s
KeepSegments(f) == segs' = [s \in Segments |-> IF InUse(s)' THEN f[s] ELSE NewSegment]

Holding ==
    {"fill", "releaseNew", "join", "joining", "release", "signal", "leave", "leaving", "releaseClose"}

(* A process is killed, or dies of a signal, and starts again with an      *)
(* object of its own; its reference, if it had one, stays.                 *)
Dies(p) ==
    /\ Move(p, at[p], "idle")
    /\ SetObj(p, NewObject)
    /\ UNCHANGED name
    /\ KeepSegments([s \in Segments |->
           IF s = obj[p].handle
           THEN [segs[s] EXCEPT !.lost = @ + (IF p \in Members(s) THEN 1 ELSE 0),
                                !.orphaned = @ \/ at[p] \in Holding]
           ELSE segs[s]])

Kill(p) ==
    /\ p \in Mortal /\ obj[p] # NewObject
    /\ \A s \in Segments : p \in Members(s) => segs[s].lost < MaxLost
    /\ Dies(p)

(* The loop over test_and_set(): the step that finds the lock clear.       *)
TakeLockAnyhow(p, from, to) ==    \* mutant: the answer of test_and_set is ignored
    Move(p, from, to) /\ SetSeg(p, [Seg(p) EXCEPT !.lock = TRUE])
TakeLock(p, from, to) ==
    Move(p, from, to) /\ ~Seg(p).lock /\ SetSeg(p, [Seg(p) EXCEPT !.lock = TRUE])

(* shm_unlink() takes the name away, whatever segment it refers to by now; *)
(* that it is missing is no error.  When the call fails, the name stays.   *)
Unlink == name' = None /\ KeepSegments(segs)
UnlinkFailed == [segs EXCEPT ![name].unlinkFailed = TRUE]
UnlinkFails == "shm_unlink" \in Faults /\ name # None /\ UNCHANGED name

-----------------------------------------------------------------------------
(* create().                                                               *)

(* An object outside its calls.  "noView": a call threw and left it with   *)
(* a handle, but without a view.                                           *)
Resting == {"idle", "noView"}

(* create() and open() throw at once when the object has a handle, be it   *)
(* the -1 of a call that failed.                                           *)
Refused(p) == at[p] \in Resting /\ obj[p].handle # None /\ UNCHANGED memoryVars

(* O_CREAT without O_EXCL: a name in use gives its segment.                *)
CreateOpen(p) ==
    /\ obj[p].handle = None
    /\ Orderly => name = None
    /\ Move(p, "idle", "truncate")
    /\ IF name = None THEN \E s \in Segments : ~InUse(s) /\ name' = s ELSE UNCHANGED name
    /\ \E size \in Sizes : SetObj(p, [NewObject EXCEPT !.handle = name', !.size = size])
    /\ UNCHANGED segs

CreateFails(p) ==
    /\ "shm_open" \in Faults /\ obj[p].handle = None
    /\ Move(p, "idle", "idle")
    /\ SetObj(p, [obj[p] EXCEPT !.handle = Bad])
    /\ UNCHANGED <<name, segs>>

(* The answer of ftruncate() is not looked at.                             *)
Truncate(p) ==
    /\ Move(p, "truncate", "initialise")
    /\ \/ SetSeg(p, [Seg(p) EXCEPT !.bytes = obj[p].size])
       \/ "ftruncate" \in Faults /\ UNCHANGED segs
    /\ UNCHANGED <<name, obj>>

(* The mapping fails: the object gives its handle up and unlinks the name; *)
(* what else it keeps will be written again before it is read.  It does    *)
(* not look at the answer of shm_unlink().                                 *)
MapFails(p) ==
    /\ "mmap" \in Faults
    /\ \E from \in {"initialise", "peek", "lock"} : Move(p, from, "idle")
    /\ SetObj(p, NewObject)
    /\ Unlink \/ (UnlinkFails /\ KeepSegments(UnlinkFailed))

(* A mapped segment without bytes: the first access is fatal (SIGBUS).     *)
TouchesNothing(p) == at[p] \in {"initialise", "peek"} /\ Seg(p).bytes = 0 /\ Dies(p)

(* The lock is cleared first, whoever holds it, then taken.                *)
Initialise(p) ==
    /\ Move(p, "initialise", "lockNew") /\ Seg(p).bytes > 0
    /\ SetSeg(p, [Seg(p) EXCEPT !.lock = FALSE, !.orphaned = FALSE])
    /\ UNCHANGED <<name, obj>>

LockNew(p) == TakeLock(p, "lockNew", "fill") /\ UNCHANGED <<name, obj>>

FillWholeSize(p) ==    \* mutant: the header's bytes are counted as data
    /\ Move(p, "fill", "releaseNew")
    /\ SetSeg(p, [Seg(p) EXCEPT !.closing = FALSE, !.refCount = 1, !.dataSize = obj[p].size,
                                !.lost = 0, !.overdrawn = FALSE])
    /\ SetObj(p, [obj[p] EXCEPT !.counted = TRUE])
    /\ UNCHANGED name
Fill(p) ==
    /\ Move(p, "fill", "releaseNew")
    /\ SetSeg(p, [Seg(p) EXCEPT !.closing = FALSE, !.refCount = 1,
                                !.dataSize = obj[p].size - HeaderBytes,
                                !.lost = 0, !.overdrawn = FALSE])
    /\ SetObj(p, [obj[p] EXCEPT !.counted = TRUE])
    /\ UNCHANGED name

(* The end of create() and of open(): the lock is cleared.                 *)
Release(p) ==
    /\ \E from \in {"releaseNew", "release"} : Move(p, from, "idle")
    /\ SetSeg(p, [Seg(p) EXCEPT !.lock = FALSE])
    /\ UNCHANGED <<name, obj>>

Create(p) == Refused(p) \/ CreateOpen(p) \/ CreateFails(p)

-----------------------------------------------------------------------------
(* open().                                                                 *)

(* shm_open() without O_CREAT; its -1 stays in m_handle.                   *)
OpenMissing(p) ==
    /\ obj[p].handle = None
    /\ name = None \/ "shm_open" \in Faults
    /\ Move(p, "idle", "idle")
    /\ SetObj(p, [obj[p] EXCEPT !.handle = Bad])
    /\ UNCHANGED <<name, segs>>

BeingCreated == \E p \in Objects : at[p] \in {"truncate", "initialise", "lockNew", "fill", "releaseNew"}

OpenFound(p) ==
    /\ obj[p].handle = None /\ name # None
    /\ Orderly => ~BeingCreated
    /\ Move(p, "idle", "peek")
    /\ SetObj(p, [obj[p] EXCEPT !.handle = name])
    /\ UNCHANGED <<name, segs>>

(* The size of the data is read from a first mapping, without the lock.    *)
MeasureDataOnly(p) ==    \* mutant: the header's bytes are left out
    /\ Seg(p).bytes > 0
    /\ SetObj(p, [obj[p] EXCEPT !.size = Seg(p).dataSize])
    /\ UNCHANGED <<name, segs>>
Measure(p) ==
    /\ Seg(p).bytes > 0
    /\ SetObj(p, [obj[p] EXCEPT !.size = Seg(p).dataSize + HeaderBytes])
    /\ UNCHANGED <<name, segs>>
Peek(p) == Move(p, "peek", "lock") /\ Measure(p)

(* That mapping cannot be given back: open() throws and keeps the handle.  *)
PeekUnmapFails(p) == "munmap" \in Faults /\ Move(p, "peek", "noView") /\ Measure(p)

LockOpened(p) == TakeLock(p, "lock", "join") /\ UNCHANGED <<name, obj>>

(* The count is read and then written, here and in close().                *)
ReadCount(p, from, to) ==
    /\ Move(p, from, to)
    /\ SetObj(p, [obj[p] EXCEPT !.count = Seg(p).refCount])
    /\ UNCHANGED <<name, segs>>

Wrote(p, counted) == SetObj(p, [obj[p] EXCEPT !.count = 0, !.counted = counted])

Join(p) == ReadCount(p, "join", "joining")
Joined(p) ==
    /\ Move(p, "joining", "release")
    /\ SetSeg(p, [Seg(p) EXCEPT !.refCount = obj[p].count + 1])
    /\ Wrote(p, TRUE)
    /\ UNCHANGED name

Open(p) == Refused(p) \/ OpenMissing(p) \/ OpenFound(p)

-----------------------------------------------------------------------------
(* close() and closeAll().                                                 *)

Close(p) == IsOpen(p) /\ Move(p, "idle", "lockClose") /\ UNCHANGED <<name, segs, obj>>

(* Either call on an object without a view dereferences a null pointer.    *)
CloseNothing(p) == (at[p] = "noView" \/ (at[p] = "idle" /\ obj[p].handle = Bad)) /\ Dies(p)

LockClose(p) == TakeLock(p, "lockClose", "leave") /\ UNCHANGED <<name, obj>>
Leave(p) == ReadCount(p, "leave", "leaving")
Left(p) ==
    /\ Move(p, "leaving", "releaseClose")
    /\ SetSeg(p, [Seg(p) EXCEPT !.refCount = IF obj[p].count > 0 THEN obj[p].count - 1 ELSE @,
                                !.overdrawn = @ \/ ~obj[p].counted])
    /\ Wrote(p, FALSE)
    /\ UNCHANGED name

ReleaseCloseUnlessLast(p) ==    \* mutant: the last one out leaves the lock taken
    /\ Move(p, "releaseClose", "unlink")
    /\ SetSeg(p, [Seg(p) EXCEPT !.lock = Seg(p).refCount = 0])
    /\ UNCHANGED <<name, obj>>
ReleaseClose(p) ==
    /\ Move(p, "releaseClose", "unlink")
    /\ SetSeg(p, [Seg(p) EXCEPT !.lock = FALSE])
    /\ UNCHANGED <<name, obj>>

CloseUnmapForgets(p) ==    \* mutant: the handle is given up, not the name
    /\ "munmap" \in Faults
    /\ Move(p, "unlink", "idle")
    /\ SetObj(p, NewObject)
    /\ UNCHANGED name /\ KeepSegments(segs)
(* The segment cannot be unmapped: close() throws with its reference given *)
(* back, and keeps the handle and the view, so that it can be called again *)
(* and gives back one more.                                                *)
CloseUnmapFails(p) ==
    /\ "munmap" \in Faults
    /\ Move(p, "unlink", "idle")
    /\ UNCHANGED <<name, segs, obj>>

(* Every close() unlinks the name.                                         *)
CloseUnlink(p) ==
    /\ Move(p, "unlink", "idle")
    /\ SetObj(p, NewObject)
    /\ Unlink

(* It cannot: close() throws with the view gone and the handle kept.       *)
CloseUnlinkFails(p) ==
    /\ Move(p, "unlink", "noView")
    /\ UnlinkFails
    /\ segs' = UnlinkFailed
    /\ UNCHANGED obj

CloseAll(p) ==
    /\ p \in AllClosers /\ IsOpen(p) /\ Move(p, "idle", "lockAll")
    /\ UNCHANGED <<name, segs, obj>>
LockAll(p) == TakeLock(p, "lockAll", "signal") /\ UNCHANGED <<name, obj>>
SignalClose(p) ==
    /\ Move(p, "signal", "wait")
    /\ SetSeg(p, [Seg(p) EXCEPT !.closing = TRUE, !.lock = FALSE])
    /\ UNCHANGED <<name, obj>>

(* The count is read without the lock until it is at most 1.               *)
WaitAlone(p) ==
    /\ Move(p, "wait", "lockClose") /\ Seg(p).refCount <= 1
    /\ UNCHANGED <<name, segs, obj>>

-----------------------------------------------------------------------------
Begin(p) ==
    \/ p \in Creators /\ Create(p)
    \/ p \in Openers /\ Open(p)
    \/ Close(p) \/ CloseAll(p) \/ CloseNothing(p)

(* The steps inside a call, in the order of the code.                      *)
Advance(p) ==
    \/ Truncate(p) \/ Initialise(p) \/ LockNew(p) \/ Fill(p)
    \/ Peek(p) \/ LockOpened(p) \/ Join(p) \/ Joined(p) \/ Release(p)
    \/ LockAll(p) \/ SignalClose(p) \/ WaitAlone(p)
    \/ LockClose(p) \/ Leave(p) \/ Left(p) \/ ReleaseClose(p) \/ CloseUnlink(p)

(* A system call fails, or the process ends.                               *)
Fails(p) ==
    \/ MapFails(p) \/ PeekUnmapFails(p) \/ CloseUnmapFails(p) \/ CloseUnlinkFails(p)
    \/ TouchesNothing(p) \/ Kill(p)

Next == \E p \in Objects : Begin(p) \/ Advance(p) \/ Fails(p)

Spec == Init /\ [][Next]_memoryVars

(* A call that has begun goes on as long as it can; nothing makes a        *)
(* process begin one.                                                      *)
FairSpec == Spec /\ \A p \in Objects : WF_memoryVars(Advance(p))

-----------------------------------------------------------------------------
Points ==
    Resting \cup Holding \cup
        {"truncate", "initialise", "lockNew", "peek", "lock", "lockAll", "wait", "lockClose", "unlink"}

TypeOK ==
    /\ name \in {None} \cup Segments
    /\ segs \in [Segments ->
           [bytes : {0} \cup Sizes, lock : BOOLEAN, refCount : Nat, closing : BOOLEAN,
            dataSize : Nat, lost : Nat, orphaned : BOOLEAN, overdrawn : BOOLEAN,
            unlinkFailed : BOOLEAN]]
    /\ obj \in [Objects -> [handle : {Bad, None} \cup Segments,
                            size : {0, HeaderBytes} \cup Sizes, count : Nat, counted : BOOLEAN]]
    /\ at \in [Objects -> Points]

(* refCount is the number of objects that use the segment, plus the        *)
(* references of processes that were killed; no update is ever lost        *)
(* (posix-shared-memory.cpp:136 and :149, under the lock in the segment).  *)
(* It is exact until an object whose close() threw because munmap() failed *)
(* (:158) closes again and gives back a second reference; from then on it  *)
(* may be too low and is still never too high, so that closeAll() (:187)   *)
(* never waits for a reference that was given back.                        *)
RefCountCounts ==
    \A s \in Segments :
        LET users == Cardinality(Members(s)) + segs[s].lost
        IN  segs[s].refCount <= users /\ (segs[s].refCount = users \/ segs[s].overdrawn)

(* An object that open() has returned has the size of the segment          *)
(* (shared-memory.test.cpp:73: getSize() is the size it was created with), *)
(* whichever segments had the name before and whichever calls failed.      *)
(* With Orderly, open() finds no name that is being created, so that this  *)
(* says nothing of the race between :110 and :77; and a segment whose name *)
(* could not be unlinked may be one that create() gave up half made (:59). *)
OpenedWhole ==
    \A p \in Openers :
        at[p] = "idle" /\ IsOpen(p) => getSize(p) = Seg(p).bytes \/ Seg(p).unlinkFailed

(* A name does not outlive the objects that have its segment open: every   *)
(* way out of create(), open() and close() that lets go of the segment     *)
(* unlinks it (:59, :105, :122, :167), so that nothing is left behind      *)
(* which only a reboot would remove.  Two names are left: that of a        *)
(* segment without bytes, whose creator dies of it because create() does   *)
(* not look at ftruncate()'s answer (:52); and one that shm_unlink()       *)
(* itself failed to remove, which is not tried again: a failed mapping     *)
(* does not look at its answer, and the next close() of an object whose    *)
(* close() threw for it (:172) dies of the view that is gone (:145).       *)
NamedWhileHeld ==
    name # None =>
        \/ \E p \in Objects : obj[p].handle = name
        \/ segs[name].bytes = 0
        \/ segs[name].unlinkFailed

(* Every hold of a segment's lock ends (:80, :140, :152, :184), unless the *)
(* process that holds it is killed.                                        *)
LockReleased ==
    \A s \in Segments : segs[s].lock ~> ~segs[s].lock \/ segs[s].orphaned

(* While a creator has its segment and is not closing it, the name refers  *)
(* to it: the server owns the shared memory and clients connect to it and  *)
(* disconnect (doc/design_notes.md:10-13, :134-139).                       *)
OwnerKeepsName ==
    \A p \in Creators : at[p] = "idle" /\ IsOpen(p) => name = obj[p].handle

=============================================================================

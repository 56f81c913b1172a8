------------------------- MODULE WindowsSharedMemory -------------------------
(***************************************************************************)
(* A named shared-memory segment on Windows and the objects, one per       *)
(* process, that create it, open it and close it                           *)
(* (shared-memory/platform/windows-shared-memory.cpp).  As in              *)
(* PosixSharedMemory a step is one access of what the processes share.     *)
(*                                                                         *)
(* A file mapping object has its name as long as a handle of it is open,   *)
(* and CreateFileMapping() of a name in use gives the object in use, so    *)
(* that there is one segment at a time.                                    *)
(***************************************************************************)
EXTENDS Integers, FiniteSets

CONSTANTS
    Creators,     \* the objects that call create(): the servers' ends
    Openers,      \* the objects that call open(): the clients' ends
    AllClosers,   \* the objects that may call closeAll()
    Mortal,       \* the objects whose process may be killed at any step
    Orderly,      \* nobody creates a name in use, or opens one while it is created
    Faults,       \* what may fail: CreateFileMapping, OpenFileMapping, MapViewOfFile
    HeaderBytes,  \* kSharedMemoryViewDataOffset
    Sizes,        \* the sizes asked of create(), no two within the same pages
    MaxLost       \* bound: references of killed processes in the segment

Objects == Creators \cup Openers

ASSUME WindowsAssumption ==
    /\ IsFiniteSet(Objects)
    /\ AllClosers \subseteq Objects /\ Mortal \subseteq Objects
    /\ Orderly \in BOOLEAN
    /\ Faults \subseteq {"CreateFileMapping", "OpenFileMapping", "MapViewOfFile"}
    /\ HeaderBytes \in Nat \ {0} /\ MaxLost \in Nat
    /\ \A s \in Sizes : s \in Nat /\ s > HeaderBytes

VARIABLES
    seg,    \* the segment: the handles open on it, its bytes, its header (lock,
            \* refCount, closing, dataSize); and, as a history, the references lost
            \* with their process, and whether one died that held the lock
    obj,    \* the objects: handle, bytes mapped, size, the reference count being
            \* updated; and, as a history, whether open() met the size of an earlier use
    at      \* how far each object is in its call

windowsVars == <<seg, obj, at>>

NoSegment ==
    [handles |-> 0, bytes |-> 0, lock |-> FALSE, refCount |-> 0, closing |-> FALSE,
     dataSize |-> 0, lost |-> 0, orphaned |-> FALSE]
NewObject == [handle |-> "none", mapped |-> 0, size |-> 0, count |-> 0, reused |-> FALSE]

Init ==
    /\ seg = NoSegment
    /\ obj = [p \in Objects |-> NewObject]
    /\ at = [p \in Objects |-> "idle"]

-----------------------------------------------------------------------------
(* What the steps have in common.                                          *)

Exists == seg.handles > 0
HasView(p) == obj[p].mapped > 0
getSize(p) == obj[p].size
Move(p, from, to) == at[p] = from /\ at' = [at EXCEPT ![p] = to]
SetObj(p, o) == obj' = [obj EXCEPT ![p] = o]

(* The segment goes with the last handle.                                  *)
CloseHandle(s) == seg' = IF s.handles > 1 THEN [s EXCEPT !.handles = @ - 1] ELSE NoSegment

(* As in PosixSharedMemory: who counts in refCount, and who has the lock.  *)
Counted ==
    {"idle", "releaseNew", "release", "lockClose", "leave", "leaving", "lockAll", "signal", "wait"}
Members == {p \in Objects : HasView(p) /\ at[p] \in Counted}
Holding ==
    {"fill", "releaseNew", "join", "joining", "release", "signal", "leave", "leaving", "releaseClose"}

(* A process is killed, or dies of an access violation, and starts again.  *)
(* The system closes its handle; its reference, if it had one, stays.      *)
Dies(p) ==
    /\ Move(p, at[p], "idle")
    /\ SetObj(p, NewObject)
    /\ IF obj[p].handle = "open"
       THEN CloseHandle([seg EXCEPT !.lost = @ + (IF p \in Members THEN 1 ELSE 0),
                                    !.orphaned = @ \/ at[p] \in Holding])
       ELSE UNCHANGED seg

Kill(p) ==
    /\ p \in Mortal /\ obj[p] # NewObject
    /\ p \in Members => seg.lost < MaxLost
    /\ Dies(p)

TakeLockAnyhow(p, from, to) ==    \* mutant: the answer of test_and_set is ignored
    Move(p, from, to) /\ seg' = [seg EXCEPT !.lock = TRUE]
TakeLock(p, from, to) ==
    Move(p, from, to) /\ ~seg.lock /\ seg' = [seg EXCEPT !.lock = TRUE]

(* create() and open() throw at once when the object has a handle.         *)
Refused(p) == at[p] = "idle" /\ obj[p].handle # "none" /\ UNCHANGED windowsVars

(* MapViewOfFile() fails, be it because an object that was used before     *)
(* asks for more than the segment has.  The handle is closed, and m_handle *)
(* keeps its number.                                                       *)
MapFailsKeepsHandle(p) ==    \* mutant: the handle is not closed
    /\ \E from \in {"initialise", "lock"} : Move(p, from, "idle")
    /\ "MapViewOfFile" \in Faults \/ obj[p].size > seg.bytes
    /\ SetObj(p, [obj[p] EXCEPT !.handle = "stale"])
    /\ UNCHANGED seg
MapFails(p) ==
    /\ \E from \in {"initialise", "lock"} : Move(p, from, "idle")
    /\ "MapViewOfFile" \in Faults \/ obj[p].size > seg.bytes
    /\ SetObj(p, [obj[p] EXCEPT !.handle = "stale"])
    /\ CloseHandle(seg)

-----------------------------------------------------------------------------
(* create().                                                               *)

(* A name in use gives its segment, whose size stays; the object believes  *)
(* in the size it asked for.                                               *)
CreateMapping(p) ==
    /\ obj[p].handle = "none"
    /\ Orderly => ~Exists
    /\ Move(p, "idle", "initialise")
    /\ \E size \in Sizes :
         /\ SetObj(p, [obj[p] EXCEPT !.handle = "open", !.size = size])
         /\ seg' = [seg EXCEPT !.handles = @ + 1, !.bytes = IF Exists THEN @ ELSE size]

CreateFails(p) ==
    /\ "CreateFileMapping" \in Faults /\ obj[p].handle = "none"
    /\ Move(p, "idle", "idle")
    /\ \E size \in Sizes : SetObj(p, [obj[p] EXCEPT !.size = size])
    /\ UNCHANGED seg

(* The view is mapped and the lock cleared, whoever holds it.              *)
Initialise(p) ==
    /\ Move(p, "initialise", "lockNew") /\ obj[p].size <= seg.bytes
    /\ SetObj(p, [obj[p] EXCEPT !.mapped = obj[p].size])
    /\ seg' = [seg EXCEPT !.lock = FALSE, !.orphaned = FALSE]

LockNew(p) == TakeLock(p, "lockNew", "fill") /\ UNCHANGED obj

Fill(p) ==
    /\ Move(p, "fill", "releaseNew")
    /\ seg' = [seg EXCEPT !.closing = FALSE, !.refCount = 1,
                          !.dataSize = obj[p].size - HeaderBytes, !.lost = 0]
    /\ UNCHANGED obj

(* The end of create() and of open().                                      *)
Release(p) ==
    /\ \E from \in {"releaseNew", "release"} : Move(p, from, "idle")
    /\ seg' = [seg EXCEPT !.lock = FALSE]
    /\ UNCHANGED obj

Create(p) == Refused(p) \/ CreateMapping(p) \/ CreateFails(p)

-----------------------------------------------------------------------------
(* open().                                                                 *)

(* The null handle is m_handle's initial value, so that a retry may follow.*)
OpenMissing(p) ==
    /\ at[p] = "idle" /\ obj[p].handle = "none"
    /\ ~Exists \/ "OpenFileMapping" \in Faults
    /\ UNCHANGED windowsVars

BeingCreated == \E p \in Objects : at[p] \in {"initialise", "lockNew", "fill", "releaseNew"}

OpenMapping(p) ==
    /\ obj[p].handle = "none" /\ Exists
    /\ Orderly => ~BeingCreated
    /\ Move(p, "idle", "lock")
    /\ SetObj(p, [obj[p] EXCEPT !.handle = "open", !.reused = getSize(p) > 0])
    /\ seg' = [seg EXCEPT !.handles = @ + 1]

(* The view is mapped with m_size bytes: all of the segment the first time *)
(* (0), the size of the last use ever after.                               *)
LockOpened(p) ==
    /\ obj[p].size <= seg.bytes
    /\ TakeLock(p, "lock", "join")
    /\ SetObj(p, [obj[p] EXCEPT !.mapped = IF obj[p].size = 0 THEN seg.bytes ELSE obj[p].size])

(* The count is read and then written, here and in close().                *)
ReadCount(p, from, to) ==
    /\ Move(p, from, to)
    /\ SetObj(p, [obj[p] EXCEPT !.count = seg.refCount])
    /\ UNCHANGED seg

Join(p) == ReadCount(p, "join", "joining")
JoinedDataOnly(p) ==    \* mutant: the header's bytes are left out
    /\ Move(p, "joining", "release")
    /\ seg' = [seg EXCEPT !.refCount = obj[p].count + 1]
    /\ SetObj(p, [obj[p] EXCEPT !.count = 0, !.size = seg.dataSize])
JoinedKeepsSize(p) ==    \* mutant: m_size stays what it was
    /\ Move(p, "joining", "release")
    /\ seg' = [seg EXCEPT !.refCount = obj[p].count + 1]
    /\ SetObj(p, [obj[p] EXCEPT !.count = 0])
Joined(p) ==
    /\ Move(p, "joining", "release")
    /\ seg' = [seg EXCEPT !.refCount = obj[p].count + 1]
    /\ SetObj(p, [obj[p] EXCEPT !.count = 0, !.size = seg.dataSize + HeaderBytes])

Open(p) == Refused(p) \/ OpenMissing(p) \/ OpenMapping(p)

-----------------------------------------------------------------------------
(* close() and closeAll().                                                 *)

Close(p) == HasView(p) /\ Move(p, "idle", "lockClose") /\ UNCHANGED <<seg, obj>>

(* Either call on an object without a view dereferences a null pointer.    *)
CloseNothing(p) == at[p] = "idle" /\ ~HasView(p) /\ obj[p] # NewObject /\ Dies(p)

LockClose(p) == TakeLock(p, "lockClose", "leave") /\ UNCHANGED obj
Leave(p) == ReadCount(p, "leave", "leaving")
Left(p) ==
    /\ Move(p, "leaving", "releaseClose")
    /\ seg' = [seg EXCEPT !.refCount = IF obj[p].count > 0 THEN obj[p].count - 1 ELSE @]
    /\ SetObj(p, [obj[p] EXCEPT !.count = 0])
ReleaseClose(p) ==
    /\ Move(p, "releaseClose", "unmap")
    /\ seg' = [seg EXCEPT !.lock = FALSE]
    /\ UNCHANGED obj

(* The view and the handle go; m_size stays.                               *)
Unmap(p) ==
    /\ Move(p, "unmap", "idle")
    /\ SetObj(p, [NewObject EXCEPT !.size = getSize(p)])
    /\ CloseHandle(seg)

(* Only an object that sees others sets the signal and waits for them.     *)
CloseAll(p) ==
    /\ p \in AllClosers /\ HasView(p)
    /\ Move(p, "idle", IF seg.refCount > 1 THEN "lockAll" ELSE "lockClose")
    /\ UNCHANGED <<seg, obj>>
LockAll(p) == TakeLock(p, "lockAll", "signal") /\ UNCHANGED obj
SignalCloseLocked(p) ==    \* mutant: the wait begins with the lock taken
    /\ Move(p, "signal", "wait")
    /\ seg' = [seg EXCEPT !.closing = TRUE]
    /\ UNCHANGED obj
SignalClose(p) ==
    /\ Move(p, "signal", "wait")
    /\ seg' = [seg EXCEPT !.closing = TRUE, !.lock = FALSE]
    /\ UNCHANGED obj
WaitAlone(p) == seg.refCount <= 1 /\ Move(p, "wait", "lockClose") /\ UNCHANGED <<seg, obj>>

-----------------------------------------------------------------------------
Begin(p) ==
    \/ p \in Creators /\ Create(p)
    \/ p \in Openers /\ Open(p)
    \/ Close(p) \/ CloseAll(p) \/ CloseNothing(p)

Advance(p) ==
    \/ Initialise(p) \/ LockNew(p) \/ Fill(p)
    \/ LockOpened(p) \/ Join(p) \/ Joined(p) \/ Release(p)
    \/ LockAll(p) \/ SignalClose(p) \/ WaitAlone(p)
    \/ LockClose(p) \/ Leave(p) \/ Left(p) \/ ReleaseClose(p) \/ Unmap(p)

Next == \E p \in Objects : Begin(p) \/ Advance(p) \/ MapFails(p) \/ Kill(p)

Spec == Init /\ [][Next]_windowsVars

(* A call that has begun goes on as long as it can; nothing makes a        *)
(* process begin one.                                                      *)
FairSpec == Spec /\ \A p \in Objects : WF_windowsVars(Advance(p))

-----------------------------------------------------------------------------
TypeOK ==
    /\ seg \in [handles : Nat, bytes : {0} \cup Sizes, lock : BOOLEAN, refCount : Nat,
                closing : BOOLEAN, dataSize : {0} \cup {s - HeaderBytes : s \in Sizes},
                lost : Nat, orphaned : BOOLEAN]
    /\ obj \in [Objects -> [handle : {"none", "open", "stale"}, mapped : {0} \cup Sizes,
                            size : {0} \cup Sizes, count : Nat, reused : BOOLEAN]]
    /\ at \in [Objects -> Counted \cup Holding \cup {"initialise", "lockNew", "lock", "unmap"}]

(* refCount is the number of objects that use the segment, plus the        *)
(* references of processes that were killed; no update is lost (:108 and   *)
(* :122, under the lock in the segment).                                   *)
RefCountCounts == seg.refCount = Cardinality(Members) + seg.lost

(* An object that open() has returned has the size of the segment          *)
(* (shared-memory.test.cpp:73), and its view reaches all of it - unless    *)
(* the object has been used before: its view is as long as the last one.   *)
OpenedWhole ==
    \A p \in Openers : at[p] = "idle" /\ HasView(p) =>
        getSize(p) = seg.bytes /\ (obj[p].reused \/ obj[p].mapped = seg.bytes)

(* Every handle of the segment belongs to an object that will close it, on *)
(* the paths through a failed mapping too, so that the segment goes when   *)
(* nobody uses it any more (:55, :97, :136).                               *)
HandlesReturned == seg.handles = Cardinality({p \in Objects : obj[p].handle = "open"})

(* Every hold of the segment's lock ends (:73, :113, :125, :148), unless   *)
(* the process that holds it is killed.                                    *)
LockReleased == seg.lock ~> ~seg.lock \/ seg.orphaned

=============================================================================

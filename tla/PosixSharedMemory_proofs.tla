----------------------- MODULE PosixSharedMemory_proofs -----------------------
(***************************************************************************)
(* Proofs about the segments for any number of processes, segments and     *)
(* sizes, and any of the system calls of Faults failing: the types; when   *)
(* nobody creates a name in use or opens one being created, the reference  *)
(* count; and, when besides no creator's process is killed, the sizes and  *)
(* the name.                                                               *)
(***************************************************************************)
EXTENDS PosixSharedMemory, FiniteSetTheorems, TLAPS

SegmentType ==
    [bytes : {0} \cup Sizes, lock : BOOLEAN, refCount : Nat, closing : BOOLEAN,
     dataSize : Nat, lost : Nat, orphaned : BOOLEAN, overdrawn : BOOLEAN, unlinkFailed : BOOLEAN]
ObjectType ==
    [handle : {Bad, None} \cup Segments, size : {0, HeaderBytes} \cup Sizes, count : Nat,
     counted : BOOLEAN]
DataSizes == {0} \cup {size - HeaderBytes : size \in Sizes}

(* The steps of create() after shm_open().                                 *)
Creating == {"truncate", "initialise", "lockNew", "fill", "releaseNew"}

(* An object inside a call has a segment's descriptor.                     *)
Inside == \A p \in Objects : at[p] # "idle" => obj[p].handle \in Segments

(* An object that counts has a segment, and is not between letting go of   *)
(* its reference and the end of close(), nor before taking one in open().  *)
Counted ==
    {"idle", "releaseNew", "release", "lockClose", "leave", "leaving", "lockAll", "signal", "wait"}
Given == \A p \in Objects : obj[p].counted => at[p] \in Counted /\ obj[p].handle \in Segments

(* The size asked for is kept until create() returns, and dataSize is one  *)
(* that was asked for.                                                     *)
Asked == \A p \in Objects : at[p] \in Creating => obj[p].size \in Sizes
Filled == \A s \in Segments : segs[s].dataSize \in DataSizes

(* A segment nobody uses is taken back.                                    *)
Reclaimed == \A s \in Segments : ~InUse(s) => segs[s] = NewSegment

(* A segment that is being created has no second user.                     *)
Alone ==
    \A p, q \in Objects : at[p] \in Creating /\ obj[q].handle = obj[p].handle => q = p

(* Between taking and clearing the lock it is taken, and by nobody else.   *)
Locked == \A p \in Objects : at[p] \in Holding => segs[obj[p].handle].lock
Exclusive ==
    \A p, q \in Objects :
        at[p] \in Holding /\ at[q] \in Holding /\ obj[q].handle = obj[p].handle => q = p

(* The count an object has read is still the segment's when it writes.     *)
Counting == {"joining", "leaving"}
CountStands == \A p \in Objects : at[p] \in Counting => obj[p].count = segs[obj[p].handle].refCount

TypeInv == TypeOK /\ Inside /\ Given /\ Asked /\ Filled
MemoryInv == TypeInv /\ Reclaimed /\ Alone /\ Locked /\ Exclusive /\ CountStands /\ RefCountCounts

(* When the process of a creator is not killed, dataSize is right from     *)
(* Fill on, and the name is held by a creator.  (A segment without bytes   *)
(* is one whose ftruncate() failed.)                                       *)
Filling == {"truncate", "initialise", "lockNew", "fill"}
FillingBytes ==
    \A p \in Objects : at[p] \in Filling =>
        /\ p \in Creators
        /\ at[p] = "truncate" => segs[obj[p].handle].bytes = 0
        /\ at[p] = "initialise" => segs[obj[p].handle].bytes \in {0, obj[p].size}
        /\ at[p] \in {"lockNew", "fill"} => segs[obj[p].handle].bytes = obj[p].size
Whole ==
    \A s \in Segments :
        \/ \E p \in Objects : at[p] \in Filling /\ obj[p].handle = s
        \/ segs[s].bytes \in {0, segs[s].dataSize + HeaderBytes}
        \/ segs[s].unlinkFailed
Peeking == \A p \in Objects : at[p] = "peek" => p \in Openers
OpenersWhole ==
    \A p \in Openers :
        IsOpen(p) /\ at[p] # "peek" => getSize(p) = Seg(p).bytes \/ Seg(p).unlinkFailed
CreatorNames ==
    name # None =>
        \/ \E p \in Creators : obj[p].handle = name
        \/ segs[name].bytes = 0
        \/ segs[name].unlinkFailed
LeftNames ==
    \A p \in Creators : at[p] = "noView" => obj[p].handle # name \/ segs[name].unlinkFailed

WholeInv == FillingBytes /\ Whole /\ Peeking /\ OpenersWhole /\ CreatorNames /\ LeftNames

USE DEF None, Bad, Segments, Objects

-----------------------------------------------------------------------------
(* Types.                                                                  *)

(* The parts of TypeOK, and what Points has.                               *)
LEMMA Typed ==
  ASSUME TypeOK
  PROVE  /\ name \in {None} \cup Segments
         /\ segs \in [Segments -> SegmentType]
         /\ obj \in [Objects -> ObjectType]
         /\ at \in [Objects -> Points]
BY DEF TypeOK, SegmentType, ObjectType

(* The sets of points are parts of Points.                                 *)
LEMMA KnownPoints ==
  /\ Counted \subseteq Points /\ Holding \subseteq Points /\ Creating \subseteq Points
  /\ {"peek", "lock", "unlink", "noView"} \subseteq Points
BY DEF Points, Counted, Holding, Creating, Resting

(* A step of p's own: only p, and the segment it has open, change.         *)
OwnStep(p, to, g, o) ==
    /\ obj[p].handle \in Segments /\ o.handle = obj[p].handle
    /\ at' = [at EXCEPT ![p] = to]
    /\ obj' = [obj EXCEPT ![p] = o]
    /\ segs' = [segs EXCEPT ![obj[p].handle] = g]
    /\ name' = name

(* A step of p's own keeps the types.                                      *)
LEMMA OwnTypes ==
  ASSUME TypeInv, NEW p \in Objects, NEW to \in Points, NEW g \in SegmentType,
         NEW o \in ObjectType, OwnStep(p, to, g, o), g.dataSize \in DataSizes,
         to \in Creating => o.size \in Sizes, o.counted => to \in Counted
  PROVE  TypeInv'
<1>1. TypeOK'
  <2>1. /\ name' \in {None} \cup Segments
        /\ segs' \in [Segments -> SegmentType]
        /\ obj' \in [Objects -> ObjectType]
        /\ at' \in [Objects -> Points]
    BY Typed DEF TypeInv, OwnStep
  <2> QED BY <2>1 DEF TypeOK, SegmentType, ObjectType
<1>2. Inside'
  BY Typed DEF TypeInv, OwnStep, Inside
<1>3. Asked'
  BY Typed DEF TypeInv, OwnStep, Asked
<1>4. Filled'
  BY Typed DEF TypeInv, OwnStep, Filled
<1>5. Given'
  BY Typed DEF TypeInv, OwnStep, Given
<1> QED BY <1>1, <1>2, <1>3, <1>4, <1>5 DEF TypeInv

-----------------------------------------------------------------------------
(* The reference count.                                                    *)

(* A segment's users can be counted.                                       *)
LEMMA MembersFinite ==
  ASSUME NEW s
  PROVE  IsFiniteSet(Members(s)) /\ Cardinality(Members(s)) \in Nat
<1>1. IsFiniteSet(Objects) /\ Members(s) \subseteq Objects
  BY MemoryAssumption DEF Members
<1>2. IsFiniteSet(Members(s))
  BY <1>1, FS_Subset
<1> QED BY <1>2, FS_CardinalityType

(* What a step of p's own must see to: it may take the lock when it is     *)
(* free, and write the count and the lock when it has it or is alone.      *)
LockRule(p, to, g) ==
    LET s == segs[obj[p].handle]
    IN  /\ to \in Holding => g.lock /\ (at[p] \in Holding \/ ~s.lock)
        /\ at[p] \in Holding \cup Creating \/ (s.lock => g.lock)
        /\ at[p] \in Holding \/ g.refCount = s.refCount

CountRule(p, to, g, o) ==
    LET s == segs[obj[p].handle]
    IN  \/ /\ o.counted = obj[p].counted /\ g.refCount = s.refCount
           /\ g.lost = s.lost /\ g.overdrawn = s.overdrawn
        \/ /\ ~obj[p].counted /\ o.counted /\ g.refCount = s.refCount + 1
           /\ g.lost = s.lost /\ g.overdrawn = s.overdrawn
        \/ /\ ~o.counted /\ g.refCount = (IF s.refCount > 0 THEN s.refCount - 1 ELSE s.refCount)
           /\ g.lost = s.lost /\ g.overdrawn = (s.overdrawn \/ ~obj[p].counted)
        \/ at[p] = "fill" /\ ~obj[p].counted /\ o.counted /\ g.refCount = 1 /\ g.lost = 0

(* What RefCountCounts says of one segment.                                *)
Fits(s) ==
    LET users == Cardinality(Members(s)) + segs[s].lost
    IN  segs[s].refCount <= users /\ (segs[s].refCount = users \/ segs[s].overdrawn)

(* A step of p's own that keeps CountRule keeps the count right.           *)
LEMMA OwnCounts ==
  ASSUME MemoryInv, NEW p \in Objects, NEW to \in Points, NEW g \in SegmentType,
         NEW o \in ObjectType, OwnStep(p, to, g, o), CountRule(p, to, g, o)
  PROVE  RefCountCounts'
<1>h. PICK h \in Segments : h = obj[p].handle
  BY DEF OwnStep
<1>0. /\ segs \in [Segments -> SegmentType] /\ obj \in [Objects -> ObjectType]
      /\ at \in [Objects -> Points] /\ h \in Segments
  BY <1>h, Typed DEF MemoryInv, TypeInv, OwnStep
<1>1. ASSUME NEW s \in Segments, s # h
      PROVE  Fits(s)'
  <2>1. Members(s)' = Members(s) /\ segs'[s] = segs[s]
    BY <1>h, <1>0, <1>1 DEF OwnStep, Members
  <2>2. Fits(s)
    BY DEF MemoryInv, RefCountCounts, Fits
  <2> QED BY <2>1, <2>2 DEF Fits
<1>2. segs'[h] = g
  BY <1>h, <1>0 DEF OwnStep
<1>3. Members(h)' = IF o.counted THEN Members(h) \cup {p} ELSE Members(h) \ {p}
  BY <1>h, <1>0 DEF OwnStep, Members
<1>4. p \in Members(h) <=> obj[p].counted
  BY <1>h DEF Members
<1>5. /\ segs[h].refCount <= Cardinality(Members(h)) + segs[h].lost
      /\ segs[h].refCount = Cardinality(Members(h)) + segs[h].lost \/ segs[h].overdrawn
  BY <1>0 DEF MemoryInv, RefCountCounts
<1>6. segs[h].lost \in Nat /\ segs[h].refCount \in Nat
  BY <1>0 DEF SegmentType
<1>7. IsFiniteSet(Members(h)) /\ Cardinality(Members(h)) \in Nat
  BY MembersFinite
<1>8. /\ Cardinality(Members(h) \cup {p}) =
            (IF p \in Members(h) THEN Cardinality(Members(h)) ELSE Cardinality(Members(h)) + 1)
      /\ Cardinality(Members(h) \ {p}) =
            (IF p \in Members(h) THEN Cardinality(Members(h)) - 1 ELSE Cardinality(Members(h)))
      /\ Cardinality(Members(h) \ {p}) \in Nat
  <2>1. IsFiniteSet(Members(h) \ {p})
    BY <1>7, FS_RemoveElement
  <2> QED BY <1>7, <2>1, FS_AddElement, FS_RemoveElement, FS_CardinalityType
<1>9. /\ g.refCount <= Cardinality(Members(h)') + g.lost
      /\ g.refCount = Cardinality(Members(h)') + g.lost \/ g.overdrawn
  <2>1. CASE /\ o.counted = obj[p].counted /\ g.refCount = segs[h].refCount
             /\ g.lost = segs[h].lost /\ g.overdrawn = segs[h].overdrawn
    <3>1. Members(h)' = Members(h)
      BY <1>3, <1>4, <2>1
    <3> QED BY <2>1, <3>1, <1>5
  <2>2. CASE /\ ~obj[p].counted /\ o.counted /\ g.refCount = segs[h].refCount + 1
             /\ g.lost = segs[h].lost /\ g.overdrawn = segs[h].overdrawn
    BY <2>2, <1>3, <1>4, <1>5, <1>6, <1>7, <1>8
  <2>3. CASE /\ ~o.counted /\ g.lost = segs[h].lost
             /\ g.refCount = (IF segs[h].refCount > 0 THEN segs[h].refCount - 1
                              ELSE segs[h].refCount)
             /\ g.overdrawn = (segs[h].overdrawn \/ ~obj[p].counted)
    <3>1. Cardinality(Members(h)') =
            (IF obj[p].counted THEN Cardinality(Members(h)) - 1 ELSE Cardinality(Members(h)))
      BY <1>3, <1>4, <1>8, <2>3
    <3>2. Cardinality(Members(h)') \in Nat
      BY <1>3, <1>8, <2>3
    <3>3. CASE obj[p].counted
      <4>0. segs[h].overdrawn => g.overdrawn
        <5>1. segs[h].overdrawn \in BOOLEAN /\ g.overdrawn \in BOOLEAN
          BY <1>0 DEF SegmentType
        <5> QED BY <2>3, <5>1
      <4>1. Cardinality(Members(h)') = Cardinality(Members(h)) - 1
        BY <3>1, <3>3
      <4>2. Cardinality(Members(h)) >= 1 /\ Cardinality(Members(h)) \in Nat
        BY <1>7, <3>2, <4>1
      <4>3. CASE segs[h].refCount > 0
        <5>1. g.refCount = segs[h].refCount - 1
          BY <2>3, <4>3
        <5> QED BY <2>3, <4>0, <4>1, <4>2, <5>1, <1>5, <1>6
      <4>4. CASE segs[h].refCount = 0
        <5>1. g.refCount = 0
          BY <2>3, <4>4
        <5> QED BY <2>3, <4>0, <4>1, <4>2, <4>4, <5>1, <1>5, <1>6
      <4> QED BY <4>3, <4>4, <1>6
    <3>4. CASE ~obj[p].counted
      <4>1. Cardinality(Members(h)') = Cardinality(Members(h)) /\ g.overdrawn
        BY <2>3, <3>1, <3>4
      <4> QED BY <2>3, <4>1, <1>5, <1>6, <1>7
    <3> QED BY <3>3, <3>4
  <2>4. CASE at[p] = "fill" /\ ~obj[p].counted /\ o.counted /\ g.refCount = 1 /\ g.lost = 0
    <3>1. Members(h) \subseteq {p} /\ p \notin Members(h)
      BY <1>h, <2>4, <1>4 DEF MemoryInv, Alone, Creating, Members
    <3>2. Members(h)' = {p}
      BY <2>4, <3>1, <1>3
    <3>3. Cardinality({p}) = 1
      BY FS_Singleton
    <3> QED BY <2>4, <3>2, <3>3
  <2> QED BY <1>h, <2>1, <2>2, <2>3, <2>4 DEF CountRule
<1>10. \A s \in Segments : Fits(s)'
  <2>1. Fits(h)'
    BY <1>2, <1>9 DEF Fits
  <2> QED BY <1>1, <2>1
<1> QED BY <1>10 DEF RefCountCounts, Fits

(* A step of p's own that keeps the rules keeps the invariant.             *)
LEMMA OwnKeeps ==
  ASSUME MemoryInv, NEW p \in Objects, NEW to \in Points, NEW g \in SegmentType,
         NEW o \in ObjectType, OwnStep(p, to, g, o), g.dataSize \in DataSizes,
         to \in Creating => at[p] \in Creating /\ o.size \in Sizes, o.counted => to \in Counted,
         LockRule(p, to, g), CountRule(p, to, g, o),
         to \in Counting => o.count = g.refCount
  PROVE  MemoryInv'
<1> DEFINE h == obj[p].handle
<1>0. /\ segs \in [Segments -> SegmentType] /\ obj \in [Objects -> ObjectType]
      /\ at \in [Objects -> Points] /\ h \in Segments /\ Inside
  BY Typed DEF MemoryInv, TypeInv, OwnStep
<1>1. TypeInv'
  BY OwnTypes DEF MemoryInv
<1>2. \A q \in Objects : obj'[q].handle = obj[q].handle /\ (q # p => at'[q] = at[q] /\ obj'[q] = obj[q])
  BY <1>0 DEF OwnStep
<1>3. at'[p] = to /\ obj'[p] = o /\ segs'[h] = g /\ \A s \in Segments : s # h => segs'[s] = segs[s]
  BY <1>0 DEF OwnStep
<1>4. Reclaimed'
  <2>1. \A s \in Segments : InUse(s)' = InUse(s)
    BY <1>2 DEF InUse, OwnStep
  <2>2. InUse(h)
    BY DEF InUse
  <2> QED BY <2>1, <2>2, <1>3 DEF Reclaimed, MemoryInv
<1>5. Alone'
  BY <1>2, <1>3 DEF Alone, MemoryInv
<1>6. ASSUME NEW q \in Objects, q # p, at[q] \in Holding, obj[q].handle = h
      PROVE  at[p] \notin Holding \cup Creating
  BY <1>6 DEF MemoryInv, Exclusive, Alone
<1>7. Locked'
  <2>1. ASSUME NEW q \in Objects, at'[q] \in Holding
        PROVE  segs'[obj'[q].handle].lock
    <3>1. CASE q = p
      BY <3>1, <2>1, <1>2, <1>3 DEF LockRule
    <3>2. CASE q # p /\ obj[q].handle = h
      BY <3>2, <2>1, <1>2, <1>3, <1>6 DEF LockRule, Locked, MemoryInv
    <3>3. CASE q # p /\ obj[q].handle # h
      <4>1. obj[q].handle \in Segments
        BY <3>3, <2>1, <1>0, <1>2 DEF Inside, Holding
      <4> QED BY <3>3, <4>1, <2>1, <1>2, <1>3 DEF Locked, MemoryInv
    <3> QED BY <3>1, <3>2, <3>3
  <2> QED BY <2>1 DEF Locked
<1>8. Exclusive'
  <2>1. ASSUME NEW q \in Objects, q # p, at[q] \in Holding, obj[q].handle = h
        PROVE  to \notin Holding
    BY <2>1, <1>6 DEF LockRule, Locked, MemoryInv
  <2> QED BY <2>1, <1>2, <1>3 DEF Exclusive, MemoryInv
<1>9. CountStands'
  <2>1. ASSUME NEW q \in Objects, at'[q] \in Counting
        PROVE  obj'[q].count = segs'[obj'[q].handle].refCount
    <3>0. at'[q] \in Holding
      BY <2>1 DEF Counting, Holding
    <3>1. CASE q = p
      BY <3>1, <2>1, <1>2, <1>3
    <3>2. CASE q # p /\ obj[q].handle = h
      BY <3>0, <3>2, <2>1, <1>2, <1>3, <1>6 DEF LockRule, CountStands, MemoryInv
    <3>3. CASE q # p /\ obj[q].handle # h
      <4>1. obj[q].handle \in Segments
        BY <3>3, <3>0, <1>0, <1>2 DEF Inside, Holding
      <4> QED BY <3>3, <4>1, <2>1, <1>2, <1>3 DEF CountStands, MemoryInv
    <3> QED BY <3>1, <3>2, <3>3
  <2> QED BY <2>1 DEF CountStands
<1>10. RefCountCounts'
  BY OwnCounts
<1> QED BY <1>1, <1>4, <1>5, <1>7, <1>8, <1>9, <1>10 DEF MemoryInv

-----------------------------------------------------------------------------
(* The steps.                                                              *)

OwnTyped(p, to, g, o) ==
    /\ OwnStep(p, to, g, o) /\ g.dataSize \in DataSizes
    /\ to \in Creating => at[p] \in Creating /\ o.size \in Sizes
    /\ o.counted => to \in Counted

OwnRules(p, to, g, o) ==
    LockRule(p, to, g) /\ CountRule(p, to, g, o) /\ (to \in Counting => o.count = g.refCount)

Own(p) ==
    \E to \in Points, g \in SegmentType, o \in ObjectType :
        OwnTyped(p, to, g, o) /\ (Locked /\ CountStands => OwnRules(p, to, g, o))

(* Every step of Advance but the last of close(), a failing munmap(), and  *)
(* the beginnings of close() and closeAll(), change only their object and  *)
(* its segment, and keep the rules.                                        *)
InCall(p) == (Advance(p) /\ ~CloseUnlink(p)) \/ PeekUnmapFails(p) \/ CloseUnmapFails(p)

LEMMA AdvanceOwn ==
  ASSUME TypeInv, NEW p \in Objects, InCall(p)
  PROVE  Own(p)
<1> DEFINE h == obj[p].handle  s == segs[h]  o == obj[p]
<1>0. /\ segs \in [Segments -> SegmentType] /\ obj \in [Objects -> ObjectType]
      /\ at \in [Objects -> Points] /\ o \in ObjectType /\ (o.counted => at[p] \in Counted)
  BY Typed DEF TypeInv, Given
<1> USE DEF Move, SetSeg, SetObj, Seg, TakeLock, ReadCount, Wrote, Measure
<1>1. CASE Truncate(p)
  <2> DEFINE o2 == o
  <2> DEFINE g1 == [s EXCEPT !.bytes = o.size]
  <2> DEFINE g2 == s
  <2>0. h \in Segments /\ s \in SegmentType /\ s.dataSize \in DataSizes
    BY <1>0, <1>1 DEF Truncate, TypeInv, Inside, Filled
  <2>1. o.size \in Sizes
    BY <1>1 DEF Truncate, TypeInv, Asked, Creating
  <2>2. g1 \in SegmentType /\ o2 \in ObjectType /\ g1.dataSize \in DataSizes
    BY <1>0, <2>0, <2>1 DEF SegmentType, ObjectType
  <2>3. ("initialise" \in Creating => at[p] \in Creating /\ o2.size \in Sizes) /\ (o2.counted => "initialise" \in Counted)
    BY <1>0, <1>1 DEF Truncate, TypeInv, Asked, Creating, ObjectType, Counted
  <2>4. Locked /\ CountStands => OwnRules(p, "initialise", g1, o2)
    BY <1>0, <1>1, <2>0 DEF Truncate, OwnRules, LockRule, CountRule, Locked, CountStands, Counting, Counted, Holding, Creating, SegmentType, ObjectType
  <2>5. g2 \in SegmentType /\ o2 \in ObjectType /\ g2.dataSize \in DataSizes
    BY <1>0, <2>0, <2>1 DEF SegmentType, ObjectType
  <2>6. ("initialise" \in Creating => at[p] \in Creating /\ o2.size \in Sizes) /\ (o2.counted => "initialise" \in Counted)
    BY <1>0, <1>1 DEF Truncate, TypeInv, Asked, Creating, ObjectType, Counted
  <2>7. Locked /\ CountStands => OwnRules(p, "initialise", g2, o2)
    BY <1>0, <1>1, <2>0 DEF Truncate, OwnRules, LockRule, CountRule, Locked, CountStands, Counting, Counted, Holding, Creating, SegmentType, ObjectType
  <2>8. OwnStep(p, "initialise", g1, o2) \/ OwnStep(p, "initialise", g2, o2)
    BY <1>0, <1>1, <2>0 DEF Truncate, OwnStep, ObjectType
  <2> QED BY <2>2, <2>3, <2>4, <2>5, <2>6, <2>7, <2>8 DEF Own, OwnTyped, Points, Resting, Holding
<1>2. CASE Initialise(p)
  <2> DEFINE o2 == o
  <2> DEFINE g1 == [s EXCEPT !.lock = FALSE, !.orphaned = FALSE]
  <2>0. h \in Segments /\ s \in SegmentType /\ s.dataSize \in DataSizes
    BY <1>0, <1>2 DEF Initialise, TypeInv, Inside, Filled
  <2>2. g1 \in SegmentType /\ o2 \in ObjectType /\ g1.dataSize \in DataSizes
    BY <1>0, <2>0 DEF SegmentType, ObjectType
  <2>3. ("lockNew" \in Creating => at[p] \in Creating /\ o2.size \in Sizes) /\ (o2.counted => "lockNew" \in Counted)
    BY <1>0, <1>2 DEF Initialise, TypeInv, Asked, Creating, ObjectType, Counted
  <2>4. Locked /\ CountStands => OwnRules(p, "lockNew", g1, o2)
    BY <1>0, <1>2, <2>0 DEF Initialise, OwnRules, LockRule, CountRule, Locked, CountStands, Counting, Counted, Holding, Creating, SegmentType, ObjectType
  <2>5. OwnStep(p, "lockNew", g1, o2)
    BY <1>0, <1>2, <2>0 DEF Initialise, OwnStep, ObjectType
  <2> QED BY <2>2, <2>3, <2>4, <2>5 DEF Own, OwnTyped, Points, Resting, Holding
<1>3. CASE LockNew(p)
  <2> DEFINE o2 == o
  <2> DEFINE g1 == [s EXCEPT !.lock = TRUE]
  <2>0. h \in Segments /\ s \in SegmentType /\ s.dataSize \in DataSizes
    BY <1>0, <1>3 DEF LockNew, TypeInv, Inside, Filled
  <2>2. g1 \in SegmentType /\ o2 \in ObjectType /\ g1.dataSize \in DataSizes
    BY <1>0, <2>0 DEF SegmentType, ObjectType
  <2>3. ("fill" \in Creating => at[p] \in Creating /\ o2.size \in Sizes) /\ (o2.counted => "fill" \in Counted)
    BY <1>0, <1>3 DEF LockNew, TypeInv, Asked, Creating, ObjectType, Counted
  <2>4. Locked /\ CountStands => OwnRules(p, "fill", g1, o2)
    BY <1>0, <1>3, <2>0 DEF LockNew, OwnRules, LockRule, CountRule, Locked, CountStands, Counting, Counted, Holding, Creating, SegmentType, ObjectType
  <2>5. OwnStep(p, "fill", g1, o2)
    BY <1>0, <1>3, <2>0 DEF LockNew, OwnStep, ObjectType
  <2> QED BY <2>2, <2>3, <2>4, <2>5 DEF Own, OwnTyped, Points, Resting, Holding
<1>4. CASE Fill(p)
  <2> DEFINE o2 == [o EXCEPT !.counted = TRUE]
  <2> DEFINE g1 == [s EXCEPT !.closing = FALSE, !.refCount = 1, !.dataSize = o.size - HeaderBytes,
                       !.lost = 0, !.overdrawn = FALSE]
  <2>0. h \in Segments /\ s \in SegmentType /\ s.dataSize \in DataSizes
    BY <1>0, <1>4 DEF Fill, TypeInv, Inside, Filled
  <2>1. o.size \in Sizes /\ o.size - HeaderBytes \in Nat /\ o.size - HeaderBytes \in DataSizes
    BY <1>0, <1>4, MemoryAssumption DEF Fill, TypeInv, Asked, Creating, DataSizes
  <2>2. g1 \in SegmentType /\ o2 \in ObjectType /\ g1.dataSize \in DataSizes
    BY <1>0, <2>0, <2>1 DEF SegmentType, ObjectType
  <2>3. ("releaseNew" \in Creating => at[p] \in Creating /\ o2.size \in Sizes) /\ (o2.counted => "releaseNew" \in Counted)
    BY <1>0, <1>4 DEF Fill, TypeInv, Asked, Creating, ObjectType, Counted
  <2>4. Locked /\ CountStands => OwnRules(p, "releaseNew", g1, o2)
    BY <1>0, <1>4, <2>0 DEF Fill, OwnRules, LockRule, CountRule, Locked, CountStands, Counting, Counted, Holding, Creating, SegmentType, ObjectType
  <2>5. OwnStep(p, "releaseNew", g1, o2)
    BY <1>0, <1>4, <2>0 DEF Fill, OwnStep, ObjectType
  <2> QED BY <2>2, <2>3, <2>4, <2>5 DEF Own, OwnTyped, Points, Resting, Holding
<1>5. CASE Peek(p)
  <2> DEFINE o2 == [o EXCEPT !.size = s.dataSize + HeaderBytes]
  <2> DEFINE g1 == s
  <2>0. h \in Segments /\ s \in SegmentType /\ s.dataSize \in DataSizes
    BY <1>0, <1>5 DEF Peek, TypeInv, Inside, Filled
  <2>1. s.dataSize + HeaderBytes \in {HeaderBytes} \cup Sizes
    BY <2>0, MemoryAssumption DEF DataSizes
  <2>2. g1 \in SegmentType /\ o2 \in ObjectType /\ g1.dataSize \in DataSizes
    BY <1>0, <2>0, <2>1 DEF SegmentType, ObjectType
  <2>3. ("lock" \in Creating => at[p] \in Creating /\ o2.size \in Sizes) /\ (o2.counted => "lock" \in Counted)
    BY <1>0, <1>5 DEF Peek, TypeInv, Asked, Creating, ObjectType, Counted
  <2>4. Locked /\ CountStands => OwnRules(p, "lock", g1, o2)
    BY <1>0, <1>5, <2>0 DEF Peek, OwnRules, LockRule, CountRule, Locked, CountStands, Counting, Counted, Holding, Creating, SegmentType, ObjectType
  <2>5. OwnStep(p, "lock", g1, o2)
    BY <1>0, <1>5, <2>0 DEF Peek, OwnStep, ObjectType
  <2> QED BY <2>2, <2>3, <2>4, <2>5 DEF Own, OwnTyped, Points, Resting, Holding
<1>6. CASE LockOpened(p)
  <2> DEFINE o2 == o
  <2> DEFINE g1 == [s EXCEPT !.lock = TRUE]
  <2>0. h \in Segments /\ s \in SegmentType /\ s.dataSize \in DataSizes
    BY <1>0, <1>6 DEF LockOpened, TypeInv, Inside, Filled
  <2>2. g1 \in SegmentType /\ o2 \in ObjectType /\ g1.dataSize \in DataSizes
    BY <1>0, <2>0 DEF SegmentType, ObjectType
  <2>3. ("join" \in Creating => at[p] \in Creating /\ o2.size \in Sizes) /\ (o2.counted => "join" \in Counted)
    BY <1>0, <1>6 DEF LockOpened, TypeInv, Asked, Creating, ObjectType, Counted
  <2>4. Locked /\ CountStands => OwnRules(p, "join", g1, o2)
    BY <1>0, <1>6, <2>0 DEF LockOpened, OwnRules, LockRule, CountRule, Locked, CountStands, Counting, Counted, Holding, Creating, SegmentType, ObjectType
  <2>5. OwnStep(p, "join", g1, o2)
    BY <1>0, <1>6, <2>0 DEF LockOpened, OwnStep, ObjectType
  <2> QED BY <2>2, <2>3, <2>4, <2>5 DEF Own, OwnTyped, Points, Resting, Holding
<1>7. CASE Join(p)
  <2> DEFINE o2 == [o EXCEPT !.count = s.refCount]
  <2> DEFINE g1 == s
  <2>0. h \in Segments /\ s \in SegmentType /\ s.dataSize \in DataSizes
    BY <1>0, <1>7 DEF Join, TypeInv, Inside, Filled
  <2>2. g1 \in SegmentType /\ o2 \in ObjectType /\ g1.dataSize \in DataSizes
    BY <1>0, <2>0 DEF SegmentType, ObjectType
  <2>3. ("joining" \in Creating => at[p] \in Creating /\ o2.size \in Sizes) /\ (o2.counted => "joining" \in Counted)
    BY <1>0, <1>7 DEF Join, TypeInv, Asked, Creating, ObjectType, Counted
  <2>4. Locked /\ CountStands => OwnRules(p, "joining", g1, o2)
    BY <1>0, <1>7, <2>0 DEF Join, OwnRules, LockRule, CountRule, Locked, CountStands, Counting, Counted, Holding, Creating, SegmentType, ObjectType
  <2>5. OwnStep(p, "joining", g1, o2)
    BY <1>0, <1>7, <2>0 DEF Join, OwnStep, ObjectType
  <2> QED BY <2>2, <2>3, <2>4, <2>5 DEF Own, OwnTyped, Points, Resting, Holding
<1>8. CASE Joined(p)
  <2> DEFINE o2 == [o EXCEPT !.count = 0, !.counted = TRUE]
  <2> DEFINE g1 == [s EXCEPT !.refCount = o.count + 1]
  <2>0. h \in Segments /\ s \in SegmentType /\ s.dataSize \in DataSizes
    BY <1>0, <1>8 DEF Joined, TypeInv, Inside, Filled
  <2>1. o.count + 1 \in Nat
    BY <1>0 DEF ObjectType
  <2>2. g1 \in SegmentType /\ o2 \in ObjectType /\ g1.dataSize \in DataSizes
    BY <1>0, <2>0, <2>1 DEF SegmentType, ObjectType
  <2>3. ("release" \in Creating => at[p] \in Creating /\ o2.size \in Sizes) /\ (o2.counted => "release" \in Counted)
    BY <1>0, <1>8 DEF Joined, TypeInv, Asked, Creating, ObjectType, Counted
  <2>4. Locked /\ CountStands => OwnRules(p, "release", g1, o2)
    BY <1>0, <1>8, <2>0 DEF Joined, OwnRules, LockRule, CountRule, Locked, CountStands, Counting, Counted, Holding, Creating, SegmentType, ObjectType
  <2>5. OwnStep(p, "release", g1, o2)
    BY <1>0, <1>8, <2>0 DEF Joined, OwnStep, ObjectType
  <2> QED BY <2>2, <2>3, <2>4, <2>5 DEF Own, OwnTyped, Points, Resting, Holding
<1>9. CASE Release(p)
  <2> DEFINE o2 == o
  <2> DEFINE g1 == [s EXCEPT !.lock = FALSE]
  <2>0. h \in Segments /\ s \in SegmentType /\ s.dataSize \in DataSizes
    BY <1>0, <1>9 DEF Release, TypeInv, Inside, Filled
  <2>2. g1 \in SegmentType /\ o2 \in ObjectType /\ g1.dataSize \in DataSizes
    BY <1>0, <2>0 DEF SegmentType, ObjectType
  <2>3. ("idle" \in Creating => at[p] \in Creating /\ o2.size \in Sizes) /\ (o2.counted => "idle" \in Counted)
    BY <1>0, <1>9 DEF Release, TypeInv, Asked, Creating, ObjectType, Counted
  <2>4. Locked /\ CountStands => OwnRules(p, "idle", g1, o2)
    BY <1>0, <1>9, <2>0 DEF Release, OwnRules, LockRule, CountRule, Locked, CountStands, Counting, Counted, Holding, Creating, SegmentType, ObjectType
  <2>5. OwnStep(p, "idle", g1, o2)
    BY <1>0, <1>9, <2>0 DEF Release, OwnStep, ObjectType
  <2> QED BY <2>2, <2>3, <2>4, <2>5 DEF Own, OwnTyped, Points, Resting, Holding
<1>10. CASE LockAll(p)
  <2> DEFINE o2 == o
  <2> DEFINE g1 == [s EXCEPT !.lock = TRUE]
  <2>0. h \in Segments /\ s \in SegmentType /\ s.dataSize \in DataSizes
    BY <1>0, <1>10 DEF LockAll, TypeInv, Inside, Filled
  <2>2. g1 \in SegmentType /\ o2 \in ObjectType /\ g1.dataSize \in DataSizes
    BY <1>0, <2>0 DEF SegmentType, ObjectType
  <2>3. ("signal" \in Creating => at[p] \in Creating /\ o2.size \in Sizes) /\ (o2.counted => "signal" \in Counted)
    BY <1>0, <1>10 DEF LockAll, TypeInv, Asked, Creating, ObjectType, Counted
  <2>4. Locked /\ CountStands => OwnRules(p, "signal", g1, o2)
    BY <1>0, <1>10, <2>0 DEF LockAll, OwnRules, LockRule, CountRule, Locked, CountStands, Counting, Counted, Holding, Creating, SegmentType, ObjectType
  <2>5. OwnStep(p, "signal", g1, o2)
    BY <1>0, <1>10, <2>0 DEF LockAll, OwnStep, ObjectType
  <2> QED BY <2>2, <2>3, <2>4, <2>5 DEF Own, OwnTyped, Points, Resting, Holding
<1>11. CASE SignalClose(p)
  <2> DEFINE o2 == o
  <2> DEFINE g1 == [s EXCEPT !.closing = TRUE, !.lock = FALSE]
  <2>0. h \in Segments /\ s \in SegmentType /\ s.dataSize \in DataSizes
    BY <1>0, <1>11 DEF SignalClose, TypeInv, Inside, Filled
  <2>2. g1 \in SegmentType /\ o2 \in ObjectType /\ g1.dataSize \in DataSizes
    BY <1>0, <2>0 DEF SegmentType, ObjectType
  <2>3. ("wait" \in Creating => at[p] \in Creating /\ o2.size \in Sizes) /\ (o2.counted => "wait" \in Counted)
    BY <1>0, <1>11 DEF SignalClose, TypeInv, Asked, Creating, ObjectType, Counted
  <2>4. Locked /\ CountStands => OwnRules(p, "wait", g1, o2)
    BY <1>0, <1>11, <2>0 DEF SignalClose, OwnRules, LockRule, CountRule, Locked, CountStands, Counting, Counted, Holding, Creating, SegmentType, ObjectType
  <2>5. OwnStep(p, "wait", g1, o2)
    BY <1>0, <1>11, <2>0 DEF SignalClose, OwnStep, ObjectType
  <2> QED BY <2>2, <2>3, <2>4, <2>5 DEF Own, OwnTyped, Points, Resting, Holding
<1>12. CASE WaitAlone(p)
  <2> DEFINE o2 == o
  <2> DEFINE g1 == s
  <2>0. h \in Segments /\ s \in SegmentType /\ s.dataSize \in DataSizes
    BY <1>0, <1>12 DEF WaitAlone, TypeInv, Inside, Filled
  <2>2. g1 \in SegmentType /\ o2 \in ObjectType /\ g1.dataSize \in DataSizes
    BY <1>0, <2>0 DEF SegmentType, ObjectType
  <2>3. ("lockClose" \in Creating => at[p] \in Creating /\ o2.size \in Sizes) /\ (o2.counted => "lockClose" \in Counted)
    BY <1>0, <1>12 DEF WaitAlone, TypeInv, Asked, Creating, ObjectType, Counted
  <2>4. Locked /\ CountStands => OwnRules(p, "lockClose", g1, o2)
    BY <1>0, <1>12, <2>0 DEF WaitAlone, OwnRules, LockRule, CountRule, Locked, CountStands, Counting, Counted, Holding, Creating, SegmentType, ObjectType
  <2>5. OwnStep(p, "lockClose", g1, o2)
    BY <1>0, <1>12, <2>0 DEF WaitAlone, OwnStep, ObjectType
  <2> QED BY <2>2, <2>3, <2>4, <2>5 DEF Own, OwnTyped, Points, Resting, Holding
<1>13. CASE LockClose(p)
  <2> DEFINE o2 == o
  <2> DEFINE g1 == [s EXCEPT !.lock = TRUE]
  <2>0. h \in Segments /\ s \in SegmentType /\ s.dataSize \in DataSizes
    BY <1>0, <1>13 DEF LockClose, TypeInv, Inside, Filled
  <2>2. g1 \in SegmentType /\ o2 \in ObjectType /\ g1.dataSize \in DataSizes
    BY <1>0, <2>0 DEF SegmentType, ObjectType
  <2>3. ("leave" \in Creating => at[p] \in Creating /\ o2.size \in Sizes) /\ (o2.counted => "leave" \in Counted)
    BY <1>0, <1>13 DEF LockClose, TypeInv, Asked, Creating, ObjectType, Counted
  <2>4. Locked /\ CountStands => OwnRules(p, "leave", g1, o2)
    BY <1>0, <1>13, <2>0 DEF LockClose, OwnRules, LockRule, CountRule, Locked, CountStands, Counting, Counted, Holding, Creating, SegmentType, ObjectType
  <2>5. OwnStep(p, "leave", g1, o2)
    BY <1>0, <1>13, <2>0 DEF LockClose, OwnStep, ObjectType
  <2> QED BY <2>2, <2>3, <2>4, <2>5 DEF Own, OwnTyped, Points, Resting, Holding
<1>14. CASE Leave(p)
  <2> DEFINE o2 == [o EXCEPT !.count = s.refCount]
  <2> DEFINE g1 == s
  <2>0. h \in Segments /\ s \in SegmentType /\ s.dataSize \in DataSizes
    BY <1>0, <1>14 DEF Leave, TypeInv, Inside, Filled
  <2>2. g1 \in SegmentType /\ o2 \in ObjectType /\ g1.dataSize \in DataSizes
    BY <1>0, <2>0 DEF SegmentType, ObjectType
  <2>3. ("leaving" \in Creating => at[p] \in Creating /\ o2.size \in Sizes) /\ (o2.counted => "leaving" \in Counted)
    BY <1>0, <1>14 DEF Leave, TypeInv, Asked, Creating, ObjectType, Counted
  <2>4. Locked /\ CountStands => OwnRules(p, "leaving", g1, o2)
    BY <1>0, <1>14, <2>0 DEF Leave, OwnRules, LockRule, CountRule, Locked, CountStands, Counting, Counted, Holding, Creating, SegmentType, ObjectType
  <2>5. OwnStep(p, "leaving", g1, o2)
    BY <1>0, <1>14, <2>0 DEF Leave, OwnStep, ObjectType
  <2> QED BY <2>2, <2>3, <2>4, <2>5 DEF Own, OwnTyped, Points, Resting, Holding
<1>15. CASE Left(p)
  <2> DEFINE o2 == [o EXCEPT !.count = 0, !.counted = FALSE]
  <2> DEFINE g1 == [s EXCEPT !.refCount = IF o.count > 0 THEN o.count - 1 ELSE @,
                       !.overdrawn = @ \/ ~o.counted]
  <2>0. h \in Segments /\ s \in SegmentType /\ s.dataSize \in DataSizes
    BY <1>0, <1>15 DEF Left, TypeInv, Inside, Filled
  <2>1. (IF o.count > 0 THEN o.count - 1 ELSE s.refCount) \in Nat
    BY <1>0, <2>0 DEF ObjectType, SegmentType
  <2>2. g1 \in SegmentType /\ o2 \in ObjectType /\ g1.dataSize \in DataSizes
    BY <1>0, <2>0, <2>1 DEF SegmentType, ObjectType
  <2>3. ("releaseClose" \in Creating => at[p] \in Creating /\ o2.size \in Sizes) /\ (o2.counted => "releaseClose" \in Counted)
    BY <1>0, <1>15 DEF Left, TypeInv, Asked, Creating, ObjectType, Counted
  <2>4. Locked /\ CountStands => OwnRules(p, "releaseClose", g1, o2)
    BY <1>0, <1>15, <2>0 DEF Left, OwnRules, LockRule, CountRule, Locked, CountStands, Counting, Counted, Holding, Creating, SegmentType, ObjectType
  <2>5. OwnStep(p, "releaseClose", g1, o2)
    BY <1>0, <1>15, <2>0 DEF Left, OwnStep, ObjectType
  <2> QED BY <2>2, <2>3, <2>4, <2>5 DEF Own, OwnTyped, Points, Resting, Holding
<1>16. CASE ReleaseClose(p)
  <2> DEFINE o2 == o
  <2> DEFINE g1 == [s EXCEPT !.lock = FALSE]
  <2>0. h \in Segments /\ s \in SegmentType /\ s.dataSize \in DataSizes
    BY <1>0, <1>16 DEF ReleaseClose, TypeInv, Inside, Filled
  <2>2. g1 \in SegmentType /\ o2 \in ObjectType /\ g1.dataSize \in DataSizes
    BY <1>0, <2>0 DEF SegmentType, ObjectType
  <2>3. ("unlink" \in Creating => at[p] \in Creating /\ o2.size \in Sizes) /\ (o2.counted => "unlink" \in Counted)
    BY <1>0, <1>16 DEF ReleaseClose, TypeInv, Asked, Creating, ObjectType, Counted
  <2>4. Locked /\ CountStands => OwnRules(p, "unlink", g1, o2)
    BY <1>0, <1>16, <2>0 DEF ReleaseClose, OwnRules, LockRule, CountRule, Locked, CountStands, Counting, Counted, Holding, Creating, SegmentType, ObjectType
  <2>5. OwnStep(p, "unlink", g1, o2)
    BY <1>0, <1>16, <2>0 DEF ReleaseClose, OwnStep, ObjectType
  <2> QED BY <2>2, <2>3, <2>4, <2>5 DEF Own, OwnTyped, Points, Resting, Holding
<1>17. CASE PeekUnmapFails(p)
  <2> DEFINE o2 == [o EXCEPT !.size = s.dataSize + HeaderBytes]
  <2> DEFINE g1 == s
  <2>0. h \in Segments /\ s \in SegmentType /\ s.dataSize \in DataSizes
    BY <1>0, <1>17 DEF PeekUnmapFails, TypeInv, Inside, Filled
  <2>1. s.dataSize + HeaderBytes \in {HeaderBytes} \cup Sizes
    BY <2>0, MemoryAssumption DEF DataSizes
  <2>2. g1 \in SegmentType /\ o2 \in ObjectType /\ g1.dataSize \in DataSizes
    BY <1>0, <2>0, <2>1 DEF SegmentType, ObjectType
  <2>3. ("noView" \in Creating => at[p] \in Creating /\ o2.size \in Sizes) /\ (o2.counted => "noView" \in Counted)
    BY <1>0, <1>17 DEF PeekUnmapFails, TypeInv, Asked, Creating, ObjectType, Counted
  <2>4. Locked /\ CountStands => OwnRules(p, "noView", g1, o2)
    BY <1>0, <1>17, <2>0 DEF PeekUnmapFails, OwnRules, LockRule, CountRule, Locked, CountStands, Counting, Counted, Holding, Creating, SegmentType, ObjectType
  <2>5. OwnStep(p, "noView", g1, o2)
    BY <1>0, <1>17, <2>0 DEF PeekUnmapFails, OwnStep, ObjectType
  <2> QED BY <2>2, <2>3, <2>4, <2>5 DEF Own, OwnTyped, Points, Resting, Holding
<1>18. CASE CloseUnmapFails(p)
  <2> DEFINE o2 == o
  <2> DEFINE g1 == s
  <2>0. h \in Segments /\ s \in SegmentType /\ s.dataSize \in DataSizes
    BY <1>0, <1>18 DEF CloseUnmapFails, TypeInv, Inside, Filled
  <2>2. g1 \in SegmentType /\ o2 \in ObjectType /\ g1.dataSize \in DataSizes
    BY <1>0, <2>0 DEF SegmentType, ObjectType
  <2>3. ("idle" \in Creating => at[p] \in Creating /\ o2.size \in Sizes) /\ (o2.counted => "idle" \in Counted)
    BY <1>0, <1>18 DEF CloseUnmapFails, TypeInv, Asked, Creating, ObjectType, Counted
  <2>4. Locked /\ CountStands => OwnRules(p, "idle", g1, o2)
    BY <1>0, <1>18, <2>0 DEF CloseUnmapFails, OwnRules, LockRule, CountRule, Locked, CountStands, Counting, Counted, Holding, Creating, SegmentType, ObjectType
  <2>5. OwnStep(p, "idle", g1, o2)
    BY <1>0, <1>18, <2>0 DEF CloseUnmapFails, OwnStep, ObjectType
  <2> QED BY <2>2, <2>3, <2>4, <2>5 DEF Own, OwnTyped, Points, Resting, Holding
<1> QED BY <1>1, <1>2, <1>3, <1>4, <1>5, <1>6, <1>7, <1>8, <1>9, <1>10, <1>11, <1>12, <1>13, <1>14, <1>15, <1>16, <1>17, <1>18 DEF Advance, InCall

(* The beginning of close() and of closeAll() is a step of p's own.        *)
LEMMA CloseOwn ==
  ASSUME TypeInv, NEW p \in Objects, Close(p) \/ CloseAll(p)
  PROVE  Own(p)
<1> DEFINE s == segs[obj[p].handle]  o == obj[p]
<1>0. /\ segs \in [Segments -> SegmentType] /\ obj \in [Objects -> ObjectType]
      /\ at \in [Objects -> Points] /\ o \in ObjectType
  BY Typed DEF TypeInv
<1>1. /\ obj[p].handle \in Segments /\ s \in SegmentType /\ s.dataSize \in DataSizes /\ at[p] = "idle"
  BY <1>0 DEF Close, CloseAll, IsOpen, Move, TypeInv, Filled
<1>2. ASSUME NEW to \in {"lockClose", "lockAll"}, Move(p, "idle", to), UNCHANGED <<name, segs, obj>>
      PROVE  Own(p)
  <2>1. OwnStep(p, to, s, o)
    BY <1>0, <1>1, <1>2 DEF OwnStep, Move
  <2>2. OwnTyped(p, to, s, o)
    BY <1>1, <2>1 DEF OwnTyped, Creating, Counted
  <2>3. OwnRules(p, to, s, o)
    BY <1>1 DEF OwnRules, LockRule, CountRule, Counting, Counted, Holding
  <2> QED BY <1>0, <1>1, <2>2, <2>3 DEF Own, Points
<1> QED BY <1>2 DEF Close, CloseAll

(* Steps of p's own keep the types ...                                     *)
LEMMA OwnKeepsTypes ==
  ASSUME TypeInv, NEW p \in Objects, Own(p)
  PROVE  TypeInv'
<1>1. PICK to \in Points, g \in SegmentType, o \in ObjectType : OwnTyped(p, to, g, o)
  BY DEF Own
<1> QED BY <1>1, OwnTypes DEF OwnTyped

(* ... and, when the lock and the counts are right, the invariant.         *)
LEMMA OwnKeepsAll ==
  ASSUME MemoryInv, NEW p \in Objects, Own(p)
  PROVE  MemoryInv'
<1>1. PICK to \in Points, g \in SegmentType, o \in ObjectType :
          OwnTyped(p, to, g, o) /\ OwnRules(p, to, g, o)
  BY DEF Own, MemoryInv
<1> QED BY <1>1, OwnKeeps DEF OwnTyped, OwnRules

-----------------------------------------------------------------------------
(* p lets go of its segment: it closes it, a mapping fails, or it is       *)
(* killed.  The name stays or goes; a reference p had is lost.             *)
Drops(p, f) ==
    /\ at' = [at EXCEPT ![p] = "idle"]
    /\ obj' = [obj EXCEPT ![p] = NewObject]
    /\ name' \in {name, None}
    /\ KeepSegments(f)
    /\ f \in [Segments -> SegmentType]
    /\ \A s \in Segments :
         /\ f[s].lock = segs[s].lock /\ f[s].refCount = segs[s].refCount
         /\ f[s].overdrawn = segs[s].overdrawn
         /\ segs[s].unlinkFailed => f[s].unlinkFailed
         /\ f[s].dataSize = segs[s].dataSize /\ f[s].bytes = segs[s].bytes
         /\ f[s].lost = segs[s].lost + (IF p \in Members(s) THEN 1 ELSE 0)

(* A shm_unlink() that fails is only noted.                                *)
LEMMA FlagTyped ==
  ASSUME segs \in [Segments -> SegmentType], name \in Segments
  PROVE  /\ UnlinkFailed \in [Segments -> SegmentType]
         /\ UnlinkFailed[name].unlinkFailed
         /\ \A s \in Segments :
              /\ UnlinkFailed[s].lock = segs[s].lock /\ UnlinkFailed[s].refCount = segs[s].refCount
              /\ UnlinkFailed[s].overdrawn = segs[s].overdrawn
              /\ segs[s].unlinkFailed => UnlinkFailed[s].unlinkFailed
              /\ UnlinkFailed[s].dataSize = segs[s].dataSize /\ UnlinkFailed[s].bytes = segs[s].bytes
              /\ UnlinkFailed[s].lost = segs[s].lost
BY DEF UnlinkFailed, SegmentType

(* The end of close() and a failed mapping let go of the segment ...       *)
LEMMA UnlinkDrops ==
  ASSUME TypeInv, NEW p \in Objects, CloseUnlink(p) \/ MapFails(p)
  PROVE  \E f : Drops(p, f) /\ (name' = None \/ (name # None /\ f[name].unlinkFailed))
<1>1. segs \in [Segments -> SegmentType] /\ name \in {None} \cup Segments
  BY Typed DEF TypeInv
<1>2. /\ at[p] \in {"unlink", "initialise", "peek", "lock"} /\ at' = [at EXCEPT ![p] = "idle"]
      /\ obj' = [obj EXCEPT ![p] = NewObject]
      /\ Unlink \/ (UnlinkFails /\ KeepSegments(UnlinkFailed))
  BY DEF CloseUnlink, MapFails, Move, SetObj
<1>3. \A s \in Segments : p \notin Members(s)
  BY <1>2 DEF Members, Counted, TypeInv, Given
<1>4. \A s \in Segments : segs[s].lost \in Nat
  BY <1>1 DEF SegmentType
<1>5. CASE Unlink
  <2>1. Drops(p, segs)
    BY <1>1, <1>2, <1>3, <1>4, <1>5 DEF Drops, Unlink
  <2> QED BY <1>5, <2>1 DEF Unlink
<1>6. CASE UnlinkFails /\ KeepSegments(UnlinkFailed)
  <2>1. name \in Segments /\ name' = name
    BY <1>1, <1>6 DEF UnlinkFails
  <2>2. Drops(p, UnlinkFailed)
    BY <1>2, <1>3, <1>4, <1>6, <2>1, <1>1, FlagTyped DEF Drops
  <2> QED BY <1>1, <2>1, <2>2, FlagTyped
<1> QED BY <1>2, <1>5, <1>6

(* ... and so does a process that dies.                                    *)
LEMMA DeathDrops ==
  ASSUME TypeInv, NEW p \in Objects, Dies(p)
  PROVE  \E f : Drops(p, f)
<1> DEFINE f == [s \in Segments |->
           IF s = obj[p].handle
           THEN [segs[s] EXCEPT !.lost = @ + (IF p \in Members(s) THEN 1 ELSE 0),
                                !.orphaned = @ \/ at[p] \in Holding]
           ELSE segs[s]]
<1>1. segs \in [Segments -> SegmentType]
  BY Typed DEF TypeInv
<1>2. ASSUME NEW s \in Segments
      PROVE  /\ f[s] \in SegmentType
             /\ f[s].lock = segs[s].lock /\ f[s].refCount = segs[s].refCount
             /\ f[s].overdrawn = segs[s].overdrawn
             /\ segs[s].unlinkFailed => f[s].unlinkFailed
             /\ f[s].dataSize = segs[s].dataSize /\ f[s].bytes = segs[s].bytes
             /\ f[s].lost = segs[s].lost + (IF p \in Members(s) THEN 1 ELSE 0)
  <2>1. segs[s] \in SegmentType /\ segs[s].lost \in Nat
        /\ segs[s].lost + (IF p \in Members(s) THEN 1 ELSE 0) \in Nat
    BY <1>1 DEF SegmentType
  <2>2. CASE s = obj[p].handle
    BY <2>1, <2>2 DEF SegmentType
  <2>3. CASE s # obj[p].handle
    BY <2>1, <2>3 DEF Members
  <2> QED BY <2>2, <2>3
<1>3. f \in [Segments -> SegmentType]
  BY <1>2
<1>4. KeepSegments(f) /\ name' = name /\ at' = [at EXCEPT ![p] = "idle"]
      /\ obj' = [obj EXCEPT ![p] = NewObject]
  BY DEF Dies, Move, SetObj
<1>5. Drops(p, f)
  <2> HIDE DEF f
  <2> QED BY <1>2, <1>3, <1>4 DEF Drops
<1> QED BY <1>5

(* What Init and a reclaimed segment hold has its type.                    *)
LEMMA NewTyped == NewSegment \in SegmentType /\ NewObject \in ObjectType
BY DEF NewSegment, NewObject, SegmentType, ObjectType

(* Letting go of a segment keeps the types ...                             *)
LEMMA DropKeepsTypes ==
  ASSUME TypeInv, NEW p \in Objects, NEW f, Drops(p, f)
  PROVE  TypeInv'
<1>0. /\ segs \in [Segments -> SegmentType] /\ obj \in [Objects -> ObjectType]
      /\ at \in [Objects -> Points] /\ name \in {None} \cup Segments
  BY Typed DEF TypeInv
<1>1. /\ segs' \in [Segments -> SegmentType]
      /\ \A s \in Segments : segs'[s] = NewSegment \/ segs'[s] = f[s]
  BY NewTyped DEF Drops, KeepSegments
<1>2. /\ obj' \in [Objects -> ObjectType] /\ at' \in [Objects -> Points]
      /\ name' \in {None} \cup Segments
  BY <1>0, NewTyped DEF Drops, Points, Resting
<1>3. TypeOK'
  BY <1>1, <1>2 DEF TypeOK, SegmentType, ObjectType
<1>4. Inside' /\ Given' /\ Asked'
  BY <1>0 DEF TypeInv, Inside, Given, Asked, Drops, Creating, NewObject
<1>5. Filled'
  <2>1. NewSegment.dataSize = 0 /\ 0 \in DataSizes
    BY DEF NewSegment, DataSizes
  <2> QED BY <1>1, <2>1 DEF Drops, Filled, TypeInv
<1> QED BY <1>3, <1>4, <1>5 DEF TypeInv

(* ... and the invariant.                                                  *)
LEMMA DropKeepsAll ==
  ASSUME MemoryInv, NEW p \in Objects, NEW f, Drops(p, f)
  PROVE  MemoryInv'
<1>0. /\ segs \in [Segments -> SegmentType] /\ obj \in [Objects -> ObjectType]
      /\ at \in [Objects -> Points] /\ Inside
  BY Typed DEF MemoryInv, TypeInv
<1>1. TypeInv'
  BY DropKeepsTypes DEF MemoryInv
<1>2. /\ at'[p] = "idle" /\ obj'[p].handle = None
      /\ \A q \in Objects : q # p => at'[q] = at[q] /\ obj'[q] = obj[q]
  BY <1>0 DEF Drops, NewObject
<1>3. \A s \in Segments : segs'[s] = IF InUse(s)' THEN f[s] ELSE NewSegment
  BY DEF Drops, KeepSegments
<1>4. Reclaimed'
  BY <1>3 DEF Reclaimed
<1>5. ASSUME NEW q \in Objects, at'[q] # "idle"
      PROVE  /\ q # p /\ at'[q] = at[q] /\ obj'[q] = obj[q]
             /\ obj[q].handle \in Segments /\ segs'[obj[q].handle] = f[obj[q].handle]
  <2>1. q # p /\ at'[q] = at[q] /\ obj'[q] = obj[q] /\ obj[q].handle \in Segments
    BY <1>0, <1>2, <1>5 DEF Inside
  <2>2. PICK s \in Segments : s = obj[q].handle
    BY <2>1
  <2>3. InUse(s)'
    BY <2>1, <2>2 DEF InUse
  <2> QED BY <1>3, <2>1, <2>2, <2>3
<1>6. \A q \in Objects : at'[q] \in Holding \cup Creating => at'[q] # "idle"
  BY DEF Holding, Creating
<1>7. Alone'
  <2>1. ASSUME NEW q \in Objects, NEW r \in Objects, at'[q] \in Creating, obj'[r].handle = obj'[q].handle
        PROVE  r = q
    <3>1. q # p /\ at'[q] = at[q] /\ obj'[q] = obj[q] /\ obj[q].handle \in Segments
      BY <1>5, <1>6, <2>1
    <3>2. r # p
      BY <1>2, <2>1, <3>1
    <3> QED BY <1>2, <2>1, <3>1, <3>2 DEF Alone, MemoryInv
  <2> QED BY <2>1 DEF Alone
<1>8. Exclusive'
  BY <1>5, <1>6 DEF Exclusive, MemoryInv
<1>9. Locked'
  BY <1>5, <1>6 DEF Locked, MemoryInv, Drops
<1>10. CountStands'
  BY <1>5, <1>6 DEF CountStands, MemoryInv, Drops, Counting, Holding
<1>11. RefCountCounts'
  <2>1. ASSUME NEW s \in Segments
        PROVE  Fits(s)'
    <3>1. Members(s)' = Members(s) \ {p}
      BY <1>0, <1>2 DEF Members, NewObject, Drops
    <3>2. /\ f[s].refCount = segs[s].refCount /\ f[s].overdrawn = segs[s].overdrawn
          /\ f[s].lost = segs[s].lost + (IF p \in Members(s) THEN 1 ELSE 0)
          /\ segs[s].lost \in Nat
      BY <1>0 DEF Drops, SegmentType
    <3>3. /\ IsFiniteSet(Members(s)) /\ Cardinality(Members(s)) \in Nat
          /\ Cardinality(Members(s) \ {p}) =
                IF p \in Members(s) THEN Cardinality(Members(s)) - 1 ELSE Cardinality(Members(s))
      BY MembersFinite, FS_RemoveElement
    <3>4. /\ segs[s].refCount <= Cardinality(Members(s)) + segs[s].lost
          /\ segs[s].refCount = Cardinality(Members(s)) + segs[s].lost \/ segs[s].overdrawn
      BY DEF MemoryInv, RefCountCounts
    <3>5. CASE InUse(s)'
      <4>1. segs'[s] = f[s]
        BY <1>3, <3>5
      <4>2. Cardinality(Members(s)') + f[s].lost = Cardinality(Members(s)) + segs[s].lost
        BY <3>1, <3>2, <3>3
      <4> QED BY <4>1, <4>2, <3>2, <3>4 DEF Fits
    <3>6. CASE ~InUse(s)'
      <4>1. Members(s)' = {}
        BY <3>6 DEF Members, InUse
      <4>2. Cardinality({}) = 0
        BY FS_EmptySet
      <4> QED BY <1>3, <3>6, <4>1, <4>2 DEF NewSegment, Fits
    <3> QED BY <3>5, <3>6
  <2> QED BY <2>1 DEF RefCountCounts, Fits
<1> QED BY <1>1, <1>4, <1>7, <1>8, <1>9, <1>10, <1>11 DEF MemoryInv

-----------------------------------------------------------------------------
(* p's shm_open(): it gets the segment the name refers to, the -1 of a     *)
(* failure, or a new segment.                                              *)
Gets(p, to, o) ==
    /\ at[p] = "idle" /\ obj[p].handle = None
    /\ at' = [at EXCEPT ![p] = to]
    /\ obj' = [obj EXCEPT ![p] = o]
    /\ segs' = segs

(* shm_open() keeps the types, given what it gets.                         *)
LEMMA GetKeepsTypes ==
  ASSUME TypeInv, NEW p \in Objects, NEW to \in Points, NEW o \in ObjectType, Gets(p, to, o),
         name' \in {None} \cup Segments,
         to # "idle" => o.handle \in Segments, to \in Creating => o.size \in Sizes, ~o.counted
  PROVE  TypeInv'
<1>0. /\ segs \in [Segments -> SegmentType] /\ obj \in [Objects -> ObjectType]
      /\ at \in [Objects -> Points]
  BY Typed DEF TypeInv
<1>1. TypeOK'
  <2>1. /\ segs' \in [Segments -> SegmentType] /\ obj' \in [Objects -> ObjectType]
        /\ at' \in [Objects -> Points]
    BY <1>0 DEF Gets
  <2> QED BY <2>1 DEF TypeOK, SegmentType, ObjectType
<1>2. Inside' /\ Given' /\ Asked' /\ Filled'
  BY <1>0 DEF TypeInv, Gets, Inside, Given, Asked, Filled
<1> QED BY <1>1, <1>2 DEF TypeInv

(* All four calls, and what they get.                                      *)
LEMMA Gotten ==
  ASSUME TypeInv, NEW p \in Objects,
         CreateOpen(p) \/ CreateFails(p) \/ OpenMissing(p) \/ OpenFound(p)
  PROVE  \E to \in Points, o \in ObjectType :
           /\ Gets(p, to, o) /\ ~o.counted
           /\ name' \in {None} \cup Segments
           /\ \/ to = "idle" /\ o.handle = Bad /\ name' = name
              \/ to = "peek" /\ o.handle = name /\ name # None /\ name' = name
                 /\ (Orderly => ~BeingCreated)
              \/ to = "truncate" /\ o.handle = name' /\ name' # None /\ o.size \in Sizes
                 /\ (Orderly => name = None /\ ~InUse(name'))
<1>0. /\ segs \in [Segments -> SegmentType] /\ obj \in [Objects -> ObjectType]
      /\ at \in [Objects -> Points] /\ name \in {None} \cup Segments
  BY Typed DEF TypeInv
<1>1. {"idle", "peek", "truncate"} \subseteq Points
  BY DEF Points, Resting
<1>c. obj[p].handle = None => ~obj[p].counted
  BY DEF TypeInv, Given
<1>2. CASE CreateFails(p) \/ OpenMissing(p)
  <2> DEFINE o == [obj[p] EXCEPT !.handle = Bad]
  <2>1. o \in ObjectType /\ o.handle = Bad /\ Gets(p, "idle", o) /\ name' = name /\ ~o.counted
    BY <1>0, <1>c, <1>2 DEF CreateFails, OpenMissing, ObjectType, Gets, Move, SetObj
  <2> QED BY <1>0, <1>1, <2>1
<1>3. CASE OpenFound(p)
  <2> DEFINE o == [obj[p] EXCEPT !.handle = name]
  <2>1. /\ o \in ObjectType /\ o.handle = name /\ Gets(p, "peek", o) /\ name' = name
        /\ name # None /\ (Orderly => ~BeingCreated) /\ ~o.counted
    BY <1>0, <1>c, <1>3 DEF OpenFound, ObjectType, Gets, Move, SetObj
  <2> QED BY <1>0, <1>1, <2>1
<1>4. CASE CreateOpen(p)
  <2>1. PICK size \in Sizes : SetObj(p, [NewObject EXCEPT !.handle = name', !.size = size])
    BY <1>4 DEF CreateOpen
  <2> DEFINE o == [NewObject EXCEPT !.handle = name', !.size = size]
  <2>2. name' \in Segments /\ (Orderly => name = None /\ ~InUse(name'))
    <3>1. CASE name = None
      <4>1. PICK s \in Segments : ~InUse(s) /\ name' = s
        BY <1>4, <3>1 DEF CreateOpen
      <4> QED BY <3>1, <4>1 DEF InUse
    <3>2. CASE name # None
      BY <1>0, <1>4, <3>2 DEF CreateOpen
    <3> QED BY <3>1, <3>2
  <2>3. o \in ObjectType /\ o.handle = name' /\ o.size \in Sizes /\ ~o.counted
    BY <2>2 DEF ObjectType, NewObject
  <2>4. Gets(p, "truncate", o)
    BY <1>4, <2>1 DEF CreateOpen, Gets, Move, SetObj
  <2>5. name' \in {None} \cup Segments /\ name' # None
    BY <2>2
  <2> HIDE DEF o
  <2> QED BY <1>1, <2>2, <2>3, <2>4, <2>5
<1> QED BY <1>2, <1>3, <1>4

(* The four calls keep the types ...                                       *)
LEMMA GottenKeepsTypes ==
  ASSUME TypeInv, NEW p \in Objects,
         CreateOpen(p) \/ CreateFails(p) \/ OpenMissing(p) \/ OpenFound(p)
  PROVE  TypeInv'
<1>1. PICK to \in Points, o \in ObjectType :
        /\ Gets(p, to, o) /\ name' \in {None} \cup Segments /\ ~o.counted
        /\ to # "idle" => o.handle \in Segments
        /\ to \in Creating => o.size \in Sizes
  <2>1. name \in {None} \cup Segments
    BY Typed DEF TypeInv
  <2> QED BY <2>1, Gotten DEF Creating
<1> QED BY <1>1, GetKeepsTypes

(* ... and, when they are orderly, the invariant.                          *)
LEMMA GottenKeepsAll ==
  ASSUME Orderly, MemoryInv, NEW p \in Objects,
         CreateOpen(p) \/ CreateFails(p) \/ OpenMissing(p) \/ OpenFound(p)
  PROVE  MemoryInv'
<1>0. /\ segs \in [Segments -> SegmentType] /\ obj \in [Objects -> ObjectType]
      /\ at \in [Objects -> Points] /\ name \in {None} \cup Segments
  BY Typed DEF MemoryInv, TypeInv
<1>1. TypeInv'
  BY GottenKeepsTypes DEF MemoryInv
<1>2. PICK to \in Points, o \in ObjectType :
         /\ Gets(p, to, o) /\ ~o.counted
         /\ \/ to = "idle" /\ o.handle = Bad /\ name' = name
            \/ to = "peek" /\ o.handle = name /\ name # None /\ name' = name /\ ~BeingCreated
            \/ to = "truncate" /\ o.handle = name' /\ name' # None /\ name = None /\ ~InUse(name')
  BY Gotten DEF MemoryInv
<1>3. /\ at[p] = "idle" /\ obj[p].handle = None /\ at'[p] = to /\ obj'[p] = o /\ segs' = segs
      /\ \A q \in Objects : q # p => at'[q] = at[q] /\ obj'[q] = obj[q]
  BY <1>0, <1>2 DEF Gets
<1>4. to \notin Holding /\ ~o.counted
  BY <1>2 DEF Holding
<1>5. Reclaimed'
  <2>1. ASSUME NEW s \in Segments, ~(s = name' \/ \E q \in Objects : obj'[q].handle = s)
        PROVE  ~(s = name \/ \E q \in Objects : obj[q].handle = s)
    BY <1>2, <1>3, <2>1
  <2> QED BY <1>3, <2>1 DEF Reclaimed, InUse, MemoryInv
<1>6. Alone'
  <2>1. CASE to = "peek"
    BY <1>2, <1>3, <2>1 DEF Alone, BeingCreated, Creating
  <2>2. CASE to = "truncate"
    <3>1. \A q \in Objects : obj[q].handle # o.handle
      BY <1>2, <2>2 DEF InUse
    <3> QED BY <1>3, <3>1 DEF Alone, MemoryInv
  <2>3. CASE to = "idle"
    <3>1. \A q \in Objects : at[q] \in Creating => obj[q].handle # Bad
      BY DEF MemoryInv, TypeInv, Inside, Creating
    <3> QED BY <1>2, <1>3, <2>3, <3>1 DEF Alone, MemoryInv, Creating
  <2> QED BY <1>2, <2>1, <2>2, <2>3
<1>7. Locked' /\ Exclusive'
  BY <1>3, <1>4 DEF Locked, Exclusive, MemoryInv
<1>8. CountStands'
  BY <1>3, <1>4 DEF CountStands, MemoryInv, Counting, Holding
<1>9. RefCountCounts'
  <2>1. \A s \in Segments : Members(s)' = Members(s)
    BY <1>3, <1>4 DEF Members
  <2> QED BY <1>3, <2>1 DEF RefCountCounts, MemoryInv
<1> QED BY <1>1, <1>5, <1>6, <1>7, <1>8, <1>9 DEF MemoryInv

-----------------------------------------------------------------------------
(* close() throws because shm_unlink() failed.  That keeps the types ...   *)
LEMMA FlagKeepsTypes ==
  ASSUME TypeInv, NEW p \in Objects, CloseUnlinkFails(p)
  PROVE  TypeInv'
<1>0. /\ segs \in [Segments -> SegmentType] /\ obj \in [Objects -> ObjectType]
      /\ at \in [Objects -> Points] /\ name \in Segments
  BY Typed DEF TypeInv, CloseUnlinkFails, UnlinkFails
<1>1. /\ at[p] = "unlink" /\ at' = [at EXCEPT ![p] = "noView"]
      /\ segs' = UnlinkFailed /\ obj' = obj /\ name' = name
  BY DEF CloseUnlinkFails, UnlinkFails, Move
<1>2. TypeOK'
  <2>1. /\ segs' \in [Segments -> SegmentType] /\ obj' \in [Objects -> ObjectType]
        /\ at' \in [Objects -> Points] /\ name' \in {None} \cup Segments
    BY <1>0, <1>1, FlagTyped DEF Points, Resting
  <2> QED BY <2>1 DEF TypeOK, SegmentType, ObjectType
<1>3. Inside' /\ Given' /\ Asked'
  BY <1>0, <1>1 DEF TypeInv, Inside, Given, Asked, Counted, Creating
<1>4. Filled'
  BY <1>0, <1>1, FlagTyped DEF TypeInv, Filled
<1> QED BY <1>2, <1>3, <1>4 DEF TypeInv

(* ... and the invariant.                                                  *)
LEMMA FlagKeepsAll ==
  ASSUME MemoryInv, NEW p \in Objects, CloseUnlinkFails(p)
  PROVE  MemoryInv'
<1>0. /\ segs \in [Segments -> SegmentType] /\ obj \in [Objects -> ObjectType]
      /\ at \in [Objects -> Points] /\ name \in Segments /\ Inside
  BY Typed DEF MemoryInv, TypeInv, CloseUnlinkFails, UnlinkFails
<1>1. /\ at[p] = "unlink" /\ at' = [at EXCEPT ![p] = "noView"]
      /\ segs' = UnlinkFailed /\ obj' = obj /\ name' = name
  BY DEF CloseUnlinkFails, UnlinkFails, Move
<1>2. \A s \in Segments :
        /\ segs'[s].lock = segs[s].lock /\ segs'[s].refCount = segs[s].refCount
        /\ segs'[s].lost = segs[s].lost /\ segs'[s].overdrawn = segs[s].overdrawn
  BY <1>0, <1>1, FlagTyped
<1>3. \A q \in Objects : at'[q] # at[q] => q = p /\ at'[q] = "noView" /\ at[q] = "unlink"
  BY <1>0, <1>1
<1>4. TypeInv'
  BY FlagKeepsTypes DEF MemoryInv
<1>5. Reclaimed'
  <2>1. \A s \in Segments : s # name => segs'[s] = segs[s]
    BY <1>0, <1>1 DEF UnlinkFailed
  <2>2. InUse(name)
    BY DEF InUse
  <2> QED BY <1>1, <2>1, <2>2 DEF Reclaimed, InUse, MemoryInv
<1>6. Alone' /\ Exclusive'
  BY <1>1, <1>3 DEF Alone, Exclusive, MemoryInv, Creating, Holding
<1>7. Locked'
  <2>1. ASSUME NEW q \in Objects, at'[q] \in Holding
        PROVE  segs'[obj'[q].handle].lock
    <3>1. at[q] \in Holding /\ obj[q].handle \in Segments
      BY <1>0, <1>3, <2>1 DEF Holding, Inside
    <3> QED BY <1>1, <1>2, <3>1 DEF Locked, MemoryInv
  <2> QED BY <2>1 DEF Locked
<1>8. CountStands'
  <2>1. ASSUME NEW q \in Objects, at'[q] \in Counting
        PROVE  obj'[q].count = segs'[obj'[q].handle].refCount
    <3>1. at[q] \in Counting /\ obj[q].handle \in Segments
      BY <1>0, <1>3, <2>1 DEF Counting, Inside
    <3> QED BY <1>1, <1>2, <3>1 DEF CountStands, MemoryInv
  <2> QED BY <2>1 DEF CountStands
<1>9. RefCountCounts'
  <2>1. \A s \in Segments : Members(s)' = Members(s)
    BY <1>1 DEF Members
  <2> QED BY <1>2, <2>1 DEF RefCountCounts, MemoryInv
<1> QED BY <1>4, <1>5, <1>6, <1>7, <1>8, <1>9 DEF MemoryInv

-----------------------------------------------------------------------------
(* A stuttering step keeps the types ...                                   *)
LEMMA NothingTypes ==
  ASSUME TypeInv, UNCHANGED memoryVars
  PROVE  TypeInv'
BY DEF memoryVars, TypeInv, TypeOK, Inside, Given, Asked, Filled

(* ... and the invariant.                                                  *)
LEMMA NothingKeeps ==
  ASSUME MemoryInv, UNCHANGED memoryVars
  PROVE  MemoryInv'
<1>1. \A s \in Segments : Members(s)' = Members(s) /\ InUse(s)' = InUse(s)
  BY DEF memoryVars, Members, InUse
<1> QED BY <1>1, NothingTypes DEF memoryVars, MemoryInv, Reclaimed, Alone, Locked, Exclusive,
     CountStands, RefCountCounts

(* Every step is of one of five kinds.                                     *)
LEMMA StepKinds ==
  ASSUME TypeInv, Next
  PROVE  \E p \in Objects :
           \/ Own(p)
           \/ \E f : Drops(p, f)
           \/ CreateOpen(p) \/ CreateFails(p) \/ OpenMissing(p) \/ OpenFound(p)
           \/ CloseUnlinkFails(p)
           \/ UNCHANGED memoryVars
<1>1. PICK p \in Objects : Begin(p) \/ Advance(p) \/ Fails(p)
  BY DEF Next
<1>2. CASE InCall(p)
  BY <1>2, AdvanceOwn
<1>3. CASE Close(p) \/ CloseAll(p)
  BY <1>3, CloseOwn
<1>4. CASE CloseUnlink(p) \/ MapFails(p)
  BY <1>4, UnlinkDrops
<1>5. CASE Dies(p)
  BY <1>5, DeathDrops
<1>6. CASE CreateOpen(p) \/ CreateFails(p) \/ OpenMissing(p) \/ OpenFound(p) \/ Refused(p)
  BY <1>6 DEF Refused
<1> QED BY <1>1, <1>2, <1>3, <1>4, <1>5, <1>6
     DEF Begin, InCall, Fails, Create, Open, Kill, TouchesNothing, CloseNothing

(* The initial state has the types ...                                     *)
LEMMA InitTypes == Init => TypeInv
<1> SUFFICES ASSUME Init PROVE TypeInv
  OBVIOUS
<1>1. /\ segs \in [Segments -> SegmentType] /\ obj \in [Objects -> ObjectType]
      /\ at \in [Objects -> Points] /\ name \in {None} \cup Segments
  BY NewTyped DEF Init, Points, Resting
<1>2. TypeOK
  BY <1>1 DEF TypeOK, SegmentType, ObjectType
<1>3. NewSegment.dataSize = 0 /\ 0 \in DataSizes
  BY DEF NewSegment, DataSizes
<1>4. Inside /\ Given /\ Asked /\ Filled
  BY <1>3 DEF Init, Inside, Given, Asked, Filled, Creating, NewObject
<1> QED BY <1>2, <1>4 DEF TypeInv

(* ... and the invariant.                                                  *)
LEMMA InitMemory == Init => MemoryInv
<1> SUFFICES ASSUME Init PROVE MemoryInv
  OBVIOUS
<1>1. Reclaimed /\ Alone /\ Locked /\ Exclusive /\ CountStands
  BY DEF Init, Reclaimed, Alone, Locked, Exclusive, CountStands, Counting, Holding, Creating
<1>2. RefCountCounts
  <2>1. \A s \in Segments : Members(s) = {}
    BY DEF Init, Members, NewObject
  <2>2. Cardinality({}) = 0
    BY FS_EmptySet
  <2>3. \A s \in Segments : segs[s].refCount = 0 /\ segs[s].lost = 0
    BY DEF Init, NewSegment
  <2>4. \A s \in Segments : Cardinality(Members(s)) = 0
    BY <2>1, <2>2
  <2> QED BY <2>3, <2>4 DEF RefCountCounts
<1> QED BY <1>1, <1>2, InitTypes DEF MemoryInv

(* Names, handles, sizes and counts keep their types and calls their       *)
(* points, whoever creates and opens what, whichever of Faults fail.       *)
THEOREM MemoryTypeCorrect == Spec => []TypeOK
<1>1. Init => TypeInv
  BY InitTypes
<1>2. TypeInv /\ [Next]_memoryVars => TypeInv'
  <2> SUFFICES ASSUME TypeInv, [Next]_memoryVars PROVE TypeInv'
    OBVIOUS
  <2>1. CASE UNCHANGED memoryVars
    BY <2>1, NothingTypes
  <2>2. CASE Next
    BY <2>2, StepKinds, OwnKeepsTypes, DropKeepsTypes, GottenKeepsTypes, FlagKeepsTypes,
       NothingTypes
  <2> QED BY <2>1, <2>2
<1>3. TypeInv => TypeOK
  BY DEF TypeInv
<1> QED BY <1>1, <1>2, <1>3, PTL DEF Spec

(* Every step keeps the invariant.                                         *)
LEMMA MemoryStep ==
  ASSUME Orderly, MemoryInv, [Next]_memoryVars
  PROVE  MemoryInv'
<1>1. CASE UNCHANGED memoryVars
  BY <1>1, NothingKeeps
<1>2. CASE Next
  <2>1. TypeInv
    BY DEF MemoryInv
  <2> QED BY <1>2, <2>1, StepKinds, OwnKeepsAll, DropKeepsAll, GottenKeepsAll, FlagKeepsAll,
       NothingKeeps
<1> QED BY <1>1, <1>2

(* When nobody creates a name in use or opens one being created, nobody    *)
(* else is between taking and clearing a segment's lock, and so no update  *)
(* of the count is lost.                                                   *)
THEOREM MemoryCorrect == ASSUME Orderly PROVE Spec => []MemoryInv
<1>1. Init => MemoryInv
  BY InitMemory
<1>2. MemoryInv /\ [Next]_memoryVars => MemoryInv'
  BY MemoryStep
<1> QED BY <1>1, <1>2, PTL DEF Spec

(* The reference count is the number of users and of references lost,      *)
(* until a close() that threw because munmap() failed is called again      *)
(* (posix-shared-memory.cpp:149, :158); from then on it is never more.     *)
THEOREM RefCountCorrect == ASSUME Orderly PROVE Spec => []RefCountCounts
<1>1. MemoryInv => RefCountCounts
  BY DEF MemoryInv
<1> QED BY <1>1, MemoryCorrect, PTL

-----------------------------------------------------------------------------
(* The sizes and the name.                                                 *)

(* What a step of p's own does to the sizes: bytes change in Truncate,     *)
(* dataSize in Fill, the object's size in Peek.                            *)
Resized(p) ==
    LET h == obj[p].handle
    IN  /\ segs'[h].bytes \in {segs[h].bytes} \cup (IF at[p] = "truncate" THEN {obj[p].size} ELSE {})
        /\ IF at[p] = "fill" THEN segs'[h].dataSize = obj[p].size - HeaderBytes
           ELSE segs'[h].dataSize = segs[h].dataSize
        /\ IF at[p] = "peek" THEN segs[h].bytes > 0 /\ obj'[p].size = segs[h].dataSize + HeaderBytes
           ELSE obj'[p].size = obj[p].size
        /\ at[p] = "truncate" => at'[p] = "initialise"
        /\ at[p] = "initialise" => at'[p] = "lockNew"
        /\ at[p] = "lockNew" => at'[p] = "fill"
        /\ at[p] \notin {"truncate", "initialise", "lockNew"} => at'[p] \notin Filling
        /\ at[p] = "initialise" => segs[h].bytes > 0
        /\ at'[p] # "peek"
        /\ at'[p] = "noView" => at[p] = "peek"
        /\ segs'[h].unlinkFailed = segs[h].unlinkFailed

(* The steps inside a call change the sizes as Resized says.               *)
LEMMA AdvanceResized ==
  ASSUME TypeInv, NEW p \in Objects,
         InCall(p) \/ Close(p) \/ CloseAll(p)
  PROVE  Resized(p)
<1> DEFINE h == obj[p].handle
<1>0. /\ segs \in [Segments -> SegmentType] /\ obj \in [Objects -> ObjectType]
      /\ at \in [Objects -> Points] /\ (at[p] # "idle" => h \in Segments)
  BY Typed DEF TypeInv, Inside
<1>1. h \in Segments
  BY <1>0 DEF Close, CloseAll, IsOpen, Move, TypeInv, Inside, Advance, Truncate, Initialise,
     LockNew, Fill, InCall, Peek, PeekUnmapFails, CloseUnmapFails, LockOpened, Join, Joined, Release, LockAll, SignalClose, WaitAlone,
     LockClose, Leave, Left, ReleaseClose, TakeLock, ReadCount
<1>2. segs[h] \in SegmentType /\ obj[p] \in ObjectType
  BY <1>0, <1>1
<1>3. CASE Truncate(p)
  <2>1. /\ at[p] = "truncate" /\ at'[p] = "initialise"
        /\ segs'[h] \in {segs[h], [segs[h] EXCEPT !.bytes = obj[p].size]}
        /\ obj'[p] = obj[p]
    BY <1>0, <1>1, <1>3 DEF Truncate, Move, SetSeg, SetObj, Seg
  <2> QED BY <1>2, <2>1 DEF Resized, Filling, SegmentType, ObjectType
<1>4. CASE Initialise(p)
  <2>1. /\ at[p] = "initialise" /\ at'[p] = "lockNew" /\ segs[h].bytes > 0
        /\ segs'[h] = [segs[h] EXCEPT !.lock = FALSE, !.orphaned = FALSE]
        /\ obj'[p] = obj[p]
    BY <1>0, <1>1, <1>4 DEF Initialise, Move, SetSeg, SetObj, Seg
  <2> QED BY <1>2, <2>1 DEF Resized, Filling, SegmentType, ObjectType
<1>5. CASE LockNew(p)
  <2>1. /\ at[p] = "lockNew" /\ at'[p] = "fill"
        /\ segs'[h] = [segs[h] EXCEPT !.lock = TRUE]
        /\ obj'[p] = obj[p]
    BY <1>0, <1>1, <1>5 DEF LockNew, Move, SetSeg, SetObj, Seg, TakeLock
  <2> QED BY <1>2, <2>1 DEF Resized, Filling, SegmentType, ObjectType
<1>6. CASE Fill(p)
  <2>1. /\ at[p] = "fill" /\ at'[p] = "releaseNew"
        /\ segs'[h] = [segs[h] EXCEPT !.closing = FALSE, !.refCount = 1, !.dataSize = obj[p].size - HeaderBytes,
                              !.lost = 0, !.overdrawn = FALSE]
        /\ obj'[p] = [obj[p] EXCEPT !.counted = TRUE]
    BY <1>0, <1>1, <1>6 DEF Fill, Move, SetSeg, SetObj, Seg
  <2> QED BY <1>2, <2>1 DEF Resized, Filling, SegmentType, ObjectType
<1>7. CASE Peek(p)
  <2>1. /\ at[p] = "peek" /\ at'[p] = "lock" /\ segs[h].bytes > 0
        /\ segs'[h] = segs[h]
        /\ obj'[p] = [obj[p] EXCEPT !.size = segs[h].dataSize + HeaderBytes]
    BY <1>0, <1>1, <1>7 DEF Peek, Measure, Move, SetSeg, SetObj, Seg
  <2> QED BY <1>2, <2>1 DEF Resized, Filling, SegmentType, ObjectType
<1>8. CASE LockOpened(p)
  <2>1. /\ at[p] = "lock" /\ at'[p] = "join"
        /\ segs'[h] = [segs[h] EXCEPT !.lock = TRUE]
        /\ obj'[p] = obj[p]
    BY <1>0, <1>1, <1>8 DEF LockOpened, Move, SetSeg, SetObj, Seg, TakeLock
  <2> QED BY <1>2, <2>1 DEF Resized, Filling, SegmentType, ObjectType
<1>9. CASE Join(p)
  <2>1. /\ at[p] = "join" /\ at'[p] = "joining"
        /\ segs'[h] = segs[h]
        /\ obj'[p] = [obj[p] EXCEPT !.count = segs[h].refCount]
    BY <1>0, <1>1, <1>9 DEF Join, Move, SetSeg, SetObj, Seg, ReadCount
  <2> QED BY <1>2, <2>1 DEF Resized, Filling, SegmentType, ObjectType
<1>10. CASE Joined(p)
  <2>1. /\ at[p] = "joining" /\ at'[p] = "release"
        /\ segs'[h] = [segs[h] EXCEPT !.refCount = obj[p].count + 1]
        /\ obj'[p] = [obj[p] EXCEPT !.count = 0, !.counted = TRUE]
    BY <1>0, <1>1, <1>10 DEF Joined, Move, SetSeg, SetObj, Seg, Wrote
  <2> QED BY <1>2, <2>1 DEF Resized, Filling, SegmentType, ObjectType
<1>11. CASE Release(p)
  <2>1. /\ at[p] \in {"releaseNew", "release"} /\ at'[p] = "idle"
        /\ segs'[h] = [segs[h] EXCEPT !.lock = FALSE]
        /\ obj'[p] = obj[p]
    BY <1>0, <1>1, <1>11 DEF Release, Move, SetSeg, SetObj, Seg
  <2> QED BY <1>2, <2>1 DEF Resized, Filling, SegmentType, ObjectType
<1>12. CASE LockAll(p)
  <2>1. /\ at[p] = "lockAll" /\ at'[p] = "signal"
        /\ segs'[h] = [segs[h] EXCEPT !.lock = TRUE]
        /\ obj'[p] = obj[p]
    BY <1>0, <1>1, <1>12 DEF LockAll, Move, SetSeg, SetObj, Seg, TakeLock
  <2> QED BY <1>2, <2>1 DEF Resized, Filling, SegmentType, ObjectType
<1>13. CASE SignalClose(p)
  <2>1. /\ at[p] = "signal" /\ at'[p] = "wait"
        /\ segs'[h] = [segs[h] EXCEPT !.closing = TRUE, !.lock = FALSE]
        /\ obj'[p] = obj[p]
    BY <1>0, <1>1, <1>13 DEF SignalClose, Move, SetSeg, SetObj, Seg
  <2> QED BY <1>2, <2>1 DEF Resized, Filling, SegmentType, ObjectType
<1>14. CASE WaitAlone(p)
  <2>1. /\ at[p] = "wait" /\ at'[p] = "lockClose"
        /\ segs'[h] = segs[h]
        /\ obj'[p] = obj[p]
    BY <1>0, <1>1, <1>14 DEF WaitAlone, Move, SetSeg, SetObj, Seg
  <2> QED BY <1>2, <2>1 DEF Resized, Filling, SegmentType, ObjectType
<1>15. CASE LockClose(p)
  <2>1. /\ at[p] = "lockClose" /\ at'[p] = "leave"
        /\ segs'[h] = [segs[h] EXCEPT !.lock = TRUE]
        /\ obj'[p] = obj[p]
    BY <1>0, <1>1, <1>15 DEF LockClose, Move, SetSeg, SetObj, Seg, TakeLock
  <2> QED BY <1>2, <2>1 DEF Resized, Filling, SegmentType, ObjectType
<1>16. CASE Leave(p)
  <2>1. /\ at[p] = "leave" /\ at'[p] = "leaving"
        /\ segs'[h] = segs[h]
        /\ obj'[p] = [obj[p] EXCEPT !.count = segs[h].refCount]
    BY <1>0, <1>1, <1>16 DEF Leave, Move, SetSeg, SetObj, Seg, ReadCount
  <2> QED BY <1>2, <2>1 DEF Resized, Filling, SegmentType, ObjectType
<1>17. CASE Left(p)
  <2>1. /\ at[p] = "leaving" /\ at'[p] = "releaseClose"
        /\ segs'[h] = [segs[h] EXCEPT !.refCount = IF obj[p].count > 0 THEN obj[p].count - 1 ELSE @,
                              !.overdrawn = @ \/ ~obj[p].counted]
        /\ obj'[p] = [obj[p] EXCEPT !.count = 0, !.counted = FALSE]
    BY <1>0, <1>1, <1>17 DEF Left, Move, SetSeg, SetObj, Seg, Wrote
  <2> QED BY <1>2, <2>1 DEF Resized, Filling, SegmentType, ObjectType
<1>18. CASE ReleaseClose(p)
  <2>1. /\ at[p] = "releaseClose" /\ at'[p] = "unlink"
        /\ segs'[h] = [segs[h] EXCEPT !.lock = FALSE]
        /\ obj'[p] = obj[p]
    BY <1>0, <1>1, <1>18 DEF ReleaseClose, Move, SetSeg, SetObj, Seg
  <2> QED BY <1>2, <2>1 DEF Resized, Filling, SegmentType, ObjectType
<1>19. CASE Close(p) \/ CloseAll(p)
  <2>1. at[p] = "idle" /\ at'[p] \in {"lockClose", "lockAll"} /\ segs' = segs /\ obj' = obj
    BY <1>0, <1>19 DEF Close, CloseAll, Move
  <2> QED BY <2>1 DEF Resized, Filling
<1>20. CASE PeekUnmapFails(p)
  <2>1. /\ at[p] = "peek" /\ at'[p] = "noView" /\ segs[h].bytes > 0
        /\ segs'[h] = segs[h]
        /\ obj'[p] = [obj[p] EXCEPT !.size = segs[h].dataSize + HeaderBytes]
    BY <1>0, <1>1, <1>20 DEF PeekUnmapFails, Measure, Move, SetSeg, SetObj, Seg
  <2> QED BY <1>2, <2>1 DEF Resized, Filling, SegmentType, ObjectType
<1>21. CASE CloseUnmapFails(p)
  <2>1. /\ at[p] = "unlink" /\ at'[p] = "idle"
        /\ segs'[h] = segs[h]
        /\ obj'[p] = obj[p]
    BY <1>0, <1>1, <1>21 DEF CloseUnmapFails, Move, SetSeg, SetObj, Seg
  <2> QED BY <1>2, <2>1 DEF Resized, Filling, SegmentType, ObjectType
<1> QED BY <1>3, <1>4, <1>5, <1>6, <1>7, <1>8, <1>9, <1>10, <1>11, <1>12, <1>13, <1>14, <1>15, <1>16, <1>17, <1>18, <1>19, <1>20, <1>21 DEF Advance, InCall

(* Who lets go of a segment has unlinked the name, or tried to in vain, is *)
(* a client, had a segment without bytes, or had not the named one.        *)
Leaves(p, f) ==
    \/ name' = None
    \/ name # None /\ f[name].unlinkFailed
    \/ p \notin Creators
    \/ obj[p].handle # name /\ at[p] \notin Filling
    \/ segs[obj[p].handle].bytes = 0

(* Such a step keeps the sizes right and the name held.                    *)
LEMMA OwnKeepsWhole ==
  ASSUME MemoryInv, WholeInv, NEW p \in Objects, Own(p), Resized(p)
  PROVE  WholeInv'
<1> DEFINE h == obj[p].handle
<1>0. /\ segs \in [Segments -> SegmentType] /\ obj \in [Objects -> ObjectType]
      /\ at \in [Objects -> Points] /\ Inside /\ name \in {None} \cup Segments
  BY Typed DEF MemoryInv, TypeInv
<1>1. /\ h \in Segments /\ name' = name /\ obj'[p].handle = h
      /\ \A q \in Objects : q # p => at'[q] = at[q] /\ obj'[q] = obj[q]
      /\ \A s \in Segments : s # h => segs'[s] = segs[s]
  BY <1>0 DEF Own, OwnTyped, OwnStep
<1>2. /\ segs[h].bytes \in Nat /\ segs[h].dataSize \in Nat /\ HeaderBytes \in Nat
      /\ at[p] \in Creating => obj[p].size \in Nat /\ obj[p].size > HeaderBytes
  BY <1>0, <1>1, MemoryAssumption DEF SegmentType, MemoryInv, TypeInv, Asked
<1>3. ASSUME NEW q \in Objects, q # p, obj[q].handle = h
      PROVE  at[p] \notin Creating /\ at[q] \notin Creating
  BY <1>3 DEF MemoryInv, Alone
<1>4. Filling \subseteq Creating /\ at[p] \in Points
  BY <1>0 DEF Filling, Creating
<1>5. FillingBytes'
  <2>1. ASSUME NEW q \in Objects, q # p, at'[q] \in Filling
        PROVE  segs'[obj'[q].handle] = segs[obj[q].handle] /\ at'[q] = at[q] /\ obj'[q] = obj[q]
    <3>1. at[q] \in Creating /\ at[q] # "idle"
      BY <1>1, <1>4, <2>1 DEF Filling
    <3>2. obj[q].handle \in Segments /\ obj[q].handle # h
      BY <1>0, <1>3, <2>1, <3>1 DEF Inside
    <3> QED BY <1>1, <2>1, <3>2
  <2>2. ASSUME at'[p] \in Filling
        PROVE  /\ p \in Creators
               /\ at'[p] # "truncate"
               /\ at'[p] = "initialise" => segs'[h].bytes \in {0, obj'[p].size}
               /\ at'[p] \in {"lockNew", "fill"} => segs'[h].bytes = obj'[p].size
    BY <1>2, <1>4, <2>2 DEF Resized, FillingBytes, WholeInv, Filling
  <2> QED BY <1>1, <2>1, <2>2 DEF FillingBytes, WholeInv
<1>6. Whole'
  <2>1. ASSUME NEW s \in Segments, s # h
        PROVE  \/ \E q \in Objects : at'[q] \in Filling /\ obj'[q].handle = s
               \/ segs'[s].bytes \in {0, segs'[s].dataSize + HeaderBytes}
               \/ segs'[s].unlinkFailed
    BY <1>1, <2>1 DEF Whole, WholeInv
  <2>2. CASE at'[p] \in Filling
    BY <1>1, <2>1, <2>2 DEF Whole
  <2>3. CASE at'[p] \notin Filling /\ at[p] = "fill"
    <3>1. segs'[h].bytes = obj[p].size /\ segs'[h].dataSize = obj[p].size - HeaderBytes
      BY <2>3 DEF Resized, FillingBytes, WholeInv, Filling
    <3>2. segs'[h].bytes = segs'[h].dataSize + HeaderBytes
      BY <1>2, <2>3, <3>1 DEF Creating
    <3> QED BY <2>1, <3>2 DEF Whole
  <2>4. CASE at'[p] \notin Filling /\ at[p] # "fill"
    <3>1. at[p] \notin Filling
      BY <2>4 DEF Resized, Filling
    <3>2. /\ segs'[h].bytes = segs[h].bytes /\ segs'[h].dataSize = segs[h].dataSize
          /\ segs'[h].unlinkFailed = segs[h].unlinkFailed
      BY <2>4, <3>1 DEF Resized, Filling
    <3>3. \/ \E q \in Objects : at'[q] \in Filling /\ obj'[q].handle = h
          \/ segs'[h].bytes \in {0, segs'[h].dataSize + HeaderBytes}
          \/ segs'[h].unlinkFailed
      BY <1>1, <3>1, <3>2 DEF Whole, WholeInv
    <3> QED BY <2>1, <3>3 DEF Whole
  <2> QED BY <2>2, <2>3, <2>4
<1>7. OpenersWhole'
  <2>1. ASSUME NEW q \in Openers, obj'[q].handle \in Segments, at'[q] # "peek"
        PROVE  obj'[q].size = segs'[obj'[q].handle].bytes \/ segs'[obj'[q].handle].unlinkFailed
    <3>0. q \in Objects
      OBVIOUS
    <3>1. CASE q # p /\ obj[q].handle # h
      BY <1>1, <2>1, <3>0, <3>1 DEF OpenersWhole, WholeInv, IsOpen, Seg, getSize
    <3>2. CASE q # p /\ obj[q].handle = h
      <4>1. segs'[h].bytes = segs[h].bytes /\ segs'[h].unlinkFailed = segs[h].unlinkFailed
        BY <1>3, <3>0, <3>2 DEF Resized, Creating
      <4> QED BY <1>1, <2>1, <3>0, <3>2, <4>1 DEF OpenersWhole, WholeInv, IsOpen, Seg, getSize
    <3>3. CASE q = p
      <4>1. at[p] \notin Filling
        BY <3>3, MemoryAssumption DEF FillingBytes, WholeInv
      <4>2. segs'[h].bytes = segs[h].bytes /\ segs'[h].unlinkFailed = segs[h].unlinkFailed
        BY <4>1 DEF Resized, Filling
      <4>3. CASE at[p] # "peek"
        BY <1>1, <3>3, <4>1, <4>2, <4>3 DEF Resized, OpenersWhole, WholeInv, IsOpen, Seg, getSize
      <4>4. CASE at[p] = "peek"
        <5>1. ASSUME NEW r \in Objects, obj[r].handle = h
              PROVE  at[r] \notin Filling
          BY <1>3, <1>4, <4>1, <5>1
        <5>2. segs[h].bytes = segs[h].dataSize + HeaderBytes \/ segs[h].unlinkFailed
          BY <1>1, <1>2, <4>4, <5>1 DEF Whole, WholeInv, Resized
        <5> QED BY <1>1, <3>3, <4>2, <4>4, <5>2 DEF Resized
      <4> QED BY <4>3, <4>4
    <3> QED BY <3>1, <3>2, <3>3
  <2> QED BY <2>1 DEF OpenersWhole, IsOpen, Seg, getSize
<1>8. \A s \in Segments : segs[s].unlinkFailed => segs'[s].unlinkFailed
  BY <1>1 DEF Resized
<1>9. CreatorNames'
  <2>1. ASSUME name # None
        PROVE  \/ \E q \in Creators : obj'[q].handle = name
               \/ segs'[name].bytes = 0
               \/ segs'[name].unlinkFailed
    <3>1. CASE \E q \in Creators : obj[q].handle = name
      BY <1>1, <3>1
    <3>2. CASE segs[name].bytes = 0 /\ name # h
      BY <1>0, <1>1, <2>1, <3>2
    <3>3. CASE segs[name].bytes = 0 /\ name = h
      <4>1. at[p] = "truncate" => p \in Creators
        BY DEF FillingBytes, WholeInv, Filling
      <4> QED BY <1>1, <3>3, <4>1 DEF Resized
    <3>4. CASE segs[name].unlinkFailed
      BY <1>0, <1>8, <2>1, <3>4
    <3> QED BY <2>1, <3>1, <3>2, <3>3, <3>4 DEF CreatorNames, WholeInv
  <2> QED BY <1>1, <2>1 DEF CreatorNames
<1>10. Peeking' /\ LeftNames'
  <2>1. ASSUME NEW q \in Objects, q # p
        PROVE  at'[q] = at[q] /\ obj'[q].handle = obj[q].handle
    BY <1>1, <2>1
  <2>2. p \in Creators => at'[p] # "noView"
    BY MemoryAssumption DEF Resized, Peeking, WholeInv
  <2>3. Peeking'
    BY <2>1 DEF Peeking, WholeInv, Resized
  <2>4. ASSUME NEW q \in Creators, at'[q] = "noView", obj'[q].handle = name
        PROVE  segs'[name].unlinkFailed
    <3>1. q # p /\ at[q] = "noView" /\ obj[q].handle = name /\ obj[q].handle \in Segments
      BY <1>0, <2>1, <2>2, <2>4 DEF Inside
    <3> QED BY <1>8, <3>1 DEF LeftNames, WholeInv
  <2> QED BY <1>1, <2>3, <2>4 DEF LeftNames
<1> QED BY <1>5, <1>6, <1>7, <1>9, <1>10 DEF WholeInv

(* So does letting go of a segment, ...                                    *)
LEMMA DropKeepsWhole ==
  ASSUME MemoryInv, WholeInv, NEW p \in Objects, NEW f, Drops(p, f), Leaves(p, f)
  PROVE  WholeInv'
<1>0. /\ segs \in [Segments -> SegmentType] /\ obj \in [Objects -> ObjectType]
      /\ at \in [Objects -> Points] /\ Inside /\ name \in {None} \cup Segments
  BY Typed DEF MemoryInv, TypeInv
<1>1. /\ at'[p] = "idle" /\ obj'[p].handle = None /\ name' \in {name, None}
      /\ \A q \in Objects : q # p => at'[q] = at[q] /\ obj'[q] = obj[q]
  BY <1>0 DEF Drops, NewObject
<1>2. /\ \A s \in Segments : segs'[s] = IF InUse(s)' THEN f[s] ELSE NewSegment
      /\ \A s \in Segments : f[s].bytes = segs[s].bytes /\ f[s].dataSize = segs[s].dataSize
      /\ \A s \in Segments : segs[s].unlinkFailed => f[s].unlinkFailed
      /\ NewSegment.bytes = 0
  BY DEF Drops, KeepSegments, NewSegment
<1>3. ASSUME NEW q \in Objects, q # p, obj[q].handle \in Segments
      PROVE  /\ at'[q] = at[q] /\ obj'[q] = obj[q]
             /\ segs'[obj[q].handle].bytes = segs[obj[q].handle].bytes
             /\ segs[obj[q].handle].unlinkFailed => segs'[obj[q].handle].unlinkFailed
  <2>1. PICK s \in Segments : s = obj[q].handle
    BY <1>3
  <2>2. InUse(s)'
    BY <1>1, <1>3, <2>1 DEF InUse
  <2> QED BY <1>1, <1>2, <1>3, <2>1, <2>2
<1>4. \A q \in Objects : at[q] \in Filling => q \in Creators /\ obj[q].handle \in Segments
  BY <1>0 DEF FillingBytes, WholeInv, Inside, Filling
<1>5. FillingBytes'
  BY <1>1, <1>3, <1>4 DEF FillingBytes, WholeInv, Filling
<1>6. Whole'
  <2>1. ASSUME NEW s \in Segments, InUse(s)'
        PROVE  \/ \E q \in Objects : at'[q] \in Filling /\ obj'[q].handle = s
               \/ segs'[s].bytes \in {0, segs'[s].dataSize + HeaderBytes}
               \/ segs'[s].unlinkFailed
    <3>1. /\ segs'[s].bytes = segs[s].bytes /\ segs'[s].dataSize = segs[s].dataSize
          /\ segs[s].unlinkFailed => segs'[s].unlinkFailed
          /\ segs'[s] = f[s]
      BY <1>2, <2>1
    <3>2. CASE at[p] \in Filling /\ obj[p].handle = s
      <4>1. \A q \in Objects : obj'[q].handle # s
        BY <1>1, <3>2 DEF MemoryInv, Alone, Filling, Creating
      <4>2. name' = s /\ name = s
        BY <1>0, <1>1, <2>1, <4>1 DEF InUse
      <4>3. segs[s].bytes = 0 \/ f[s].unlinkFailed
        BY <1>4, <3>2, <4>2 DEF Leaves
      <4> QED BY <3>1, <4>3
    <3>3. CASE ~(at[p] \in Filling /\ obj[p].handle = s)
      <4>1. CASE \E q \in Objects : at[q] \in Filling /\ obj[q].handle = s
        BY <1>1, <3>3, <4>1
      <4>2. CASE segs[s].bytes \in {0, segs[s].dataSize + HeaderBytes}
        BY <3>1, <4>2
      <4>3. CASE segs[s].unlinkFailed
        BY <3>1, <4>3
      <4> QED BY <4>1, <4>2, <4>3 DEF Whole, WholeInv
    <3> QED BY <3>2, <3>3
  <2>2. ASSUME NEW s \in Segments, ~InUse(s)'
        PROVE  segs'[s].bytes = 0
    BY <1>2, <2>2
  <2> QED BY <2>1, <2>2 DEF Whole
<1>7. OpenersWhole'
  <2>1. ASSUME NEW q \in Openers, obj'[q].handle \in Segments, at'[q] # "peek"
        PROVE  obj'[q].size = segs'[obj'[q].handle].bytes \/ segs'[obj'[q].handle].unlinkFailed
    <3>1. q \in Objects /\ q # p
      BY <1>1, <2>1
    <3>2. obj'[q] = obj[q] /\ at'[q] = at[q]
      BY <1>1, <3>1
    <3> QED BY <1>3, <2>1, <3>1, <3>2 DEF OpenersWhole, WholeInv, IsOpen, Seg, getSize
  <2> QED BY <2>1 DEF OpenersWhole, IsOpen, Seg, getSize
<1>8. ASSUME name' # None
      PROVE  /\ name' = name /\ name \in Segments /\ segs'[name] = f[name]
             /\ segs'[name].bytes = segs[name].bytes
             /\ segs[name].unlinkFailed => segs'[name].unlinkFailed
  <2>1. name' = name /\ name \in Segments
    BY <1>0, <1>1, <1>8
  <2>2. PICK s \in Segments : s = name
    BY <2>1
  <2>3. InUse(s)'
    BY <2>1, <2>2 DEF InUse
  <2> QED BY <1>2, <2>1, <2>2, <2>3
<1>9. CreatorNames'
  <2>1. ASSUME name' # None
        PROVE  \/ \E q \in Creators : obj'[q].handle = name'
               \/ segs'[name'].bytes = 0
               \/ segs'[name'].unlinkFailed
    <3>1. CASE segs[name].bytes = 0 \/ segs[name].unlinkFailed \/ f[name].unlinkFailed
      BY <1>8, <2>1, <3>1
    <3>2. CASE segs[name].bytes # 0 /\ ~segs[name].unlinkFailed /\ ~f[name].unlinkFailed
      <4>1. PICK q \in Creators : obj[q].handle = name
        BY <1>8, <2>1, <3>2 DEF CreatorNames, WholeInv
      <4>2. q # p
        BY <1>8, <2>1, <3>2, <4>1 DEF Leaves
      <4> QED BY <1>1, <1>8, <2>1, <4>1, <4>2
    <3> QED BY <3>1, <3>2
  <2> QED BY <2>1 DEF CreatorNames
<1>10. Peeking'
  BY <1>1 DEF Peeking, WholeInv
<1>11. LeftNames'
  <2>1. ASSUME NEW q \in Creators, at'[q] = "noView", obj'[q].handle = name'
        PROVE  segs'[name'].unlinkFailed
    <3>1. q # p /\ at[q] = "noView" /\ obj[q].handle = name'
      BY <1>1, <2>1
    <3>2. name' # None
      BY <1>0, <3>1 DEF Inside
    <3> QED BY <1>8, <3>1, <3>2 DEF LeftNames, WholeInv
  <2> QED BY <2>1 DEF LeftNames
<1> QED BY <1>5, <1>6, <1>7, <1>9, <1>10, <1>11 DEF WholeInv

(* ... and shm_open().                                                     *)
LEMMA GottenKeepsWhole ==
  ASSUME Orderly, MemoryInv, WholeInv, NEW p \in Objects,
         \/ p \in Creators /\ (CreateOpen(p) \/ CreateFails(p))
         \/ p \in Openers /\ (OpenMissing(p) \/ OpenFound(p))
  PROVE  WholeInv'
<1>0. /\ segs \in [Segments -> SegmentType] /\ obj \in [Objects -> ObjectType]
      /\ at \in [Objects -> Points] /\ Inside /\ name \in {None} \cup Segments
  BY Typed DEF MemoryInv, TypeInv
<1>1. PICK to \in Points, o \in ObjectType :
         /\ Gets(p, to, o) /\ name' \in {None} \cup Segments
         /\ \/ to = "idle" /\ o.handle = Bad /\ name' = name
            \/ to = "peek" /\ o.handle = name /\ name # None /\ name' = name
            \/ to = "truncate" /\ o.handle = name' /\ name' # None /\ ~InUse(name')
               /\ name = None
  BY Gotten DEF MemoryInv
<1>2. /\ at[p] = "idle" /\ obj[p].handle = None /\ at'[p] = to /\ obj'[p] = o /\ segs' = segs
      /\ \A q \in Objects : q # p => at'[q] = at[q] /\ obj'[q] = obj[q]
  BY <1>0, <1>1 DEF Gets
<1>3. to = "truncate" => p \in Creators /\ segs[name'].bytes = 0 /\ obj'[p].handle = name'
  <2>1. p \in Openers => to # "truncate"
    BY <1>0, <1>2, MemoryAssumption DEF OpenMissing, OpenFound, CreateOpen, CreateFails, Move
  <2>2. to = "truncate" => segs[name'] = NewSegment
    BY <1>1 DEF MemoryInv, Reclaimed
  <2> QED BY <1>1, <1>2, <2>1, <2>2 DEF NewSegment
<1>4. FillingBytes'
  BY <1>1, <1>2, <1>3 DEF FillingBytes, WholeInv, Filling
<1>5. Whole'
  <2>1. \A q \in Objects : at[q] \in Filling => q # p
    BY <1>2 DEF Filling
  <2> QED BY <1>2, <2>1 DEF Whole, WholeInv
<1>6. OpenersWhole'
  <2>1. p \in Openers => at'[p] = "peek" \/ obj'[p].handle = Bad
    BY <1>1, <1>2, <1>3, MemoryAssumption
  <2> QED BY <1>2, <2>1 DEF OpenersWhole, WholeInv, IsOpen, Seg, getSize
<1>7. CreatorNames'
  <2>1. CASE to = "truncate"
    BY <1>3, <2>1 DEF CreatorNames
  <2>2. CASE to # "truncate"
    BY <1>1, <1>2, <2>2 DEF CreatorNames, WholeInv
  <2> QED BY <2>1, <2>2
<1>8. Peeking'
  <2>1. p \in Creators => to # "peek"
    BY <1>0, <1>2, MemoryAssumption DEF OpenMissing, OpenFound, CreateOpen, CreateFails, Move
  <2> QED BY <1>2, <2>1 DEF Peeking, WholeInv
<1>9. LeftNames'
  <2>1. ASSUME NEW q \in Creators, at'[q] = "noView", obj'[q].handle = name'
        PROVE  segs'[name'].unlinkFailed
    <3>1. q # p /\ at[q] = "noView" /\ obj[q].handle = name'
      BY <1>1, <1>2, <2>1
    <3>2. name' = name
      BY <1>1, <3>1 DEF InUse
    <3> QED BY <1>2, <3>1, <3>2 DEF LeftNames, WholeInv
  <2> QED BY <2>1 DEF LeftNames
<1> QED BY <1>4, <1>5, <1>6, <1>7, <1>8, <1>9 DEF WholeInv

(* ... and a close() that throws because shm_unlink() failed.              *)
LEMMA FlagKeepsWhole ==
  ASSUME MemoryInv, WholeInv, NEW p \in Objects, CloseUnlinkFails(p)
  PROVE  WholeInv'
<1>0. /\ segs \in [Segments -> SegmentType] /\ obj \in [Objects -> ObjectType]
      /\ at \in [Objects -> Points] /\ name \in Segments /\ Inside
  BY Typed DEF MemoryInv, TypeInv, CloseUnlinkFails, UnlinkFails
<1>1. /\ at[p] = "unlink" /\ at' = [at EXCEPT ![p] = "noView"]
      /\ segs' = UnlinkFailed /\ obj' = obj /\ name' = name
  BY DEF CloseUnlinkFails, UnlinkFails, Move
<1>2. /\ segs'[name].unlinkFailed
      /\ \A s \in Segments :
           /\ segs'[s].bytes = segs[s].bytes /\ segs'[s].dataSize = segs[s].dataSize
           /\ segs[s].unlinkFailed => segs'[s].unlinkFailed
  BY <1>0, <1>1, FlagTyped
<1>3. \A q \in Objects : at'[q] # at[q] => q = p /\ at'[q] = "noView" /\ at[q] = "unlink"
  BY <1>0, <1>1
<1>4. FillingBytes'
  <2>1. ASSUME NEW q \in Objects, at'[q] \in Filling
        PROVE  at[q] = at'[q] /\ obj[q].handle \in Segments
    BY <1>0, <1>3, <2>1 DEF Filling, Inside
  <2> QED BY <1>1, <1>2, <2>1 DEF FillingBytes, WholeInv
<1>5. Whole'
  <2>1. \A q \in Objects : at[q] \in Filling => at'[q] \in Filling
    BY <1>3 DEF Filling
  <2> QED BY <1>1, <1>2, <2>1 DEF Whole, WholeInv
<1>6. Peeking' /\ OpenersWhole'
  <2>1. \A q \in Objects : at'[q] = "peek" <=> at[q] = "peek"
    BY <1>3
  <2> QED BY <1>1, <1>2, <2>1 DEF Peeking, OpenersWhole, WholeInv, IsOpen, Seg, getSize
<1>7. CreatorNames' /\ LeftNames'
  BY <1>1, <1>2 DEF CreatorNames, LeftNames
<1> QED BY <1>4, <1>5, <1>6, <1>7 DEF WholeInv

(* A process that ends leaves no name of its own, as no creator is killed. *)
LEMMA DeathLeaves ==
  ASSUME Mortal \cap Creators = {}, MemoryInv, WholeInv, NEW p \in Objects, NEW f, Drops(p, f),
         TouchesNothing(p) \/ Kill(p) \/ CloseNothing(p)
  PROVE  Leaves(p, f)
<1>0. name \in {None} \cup Segments /\ Inside
  BY Typed DEF MemoryInv, TypeInv
<1>1. CASE TouchesNothing(p)
  BY <1>1 DEF Leaves, TouchesNothing, Seg
<1>2. CASE Kill(p)
  BY <1>2 DEF Leaves, Kill
<1>3. CASE CloseNothing(p)
  <2>1. at[p] \notin Filling
    BY <1>3 DEF CloseNothing, Filling
  <2>2. CASE p \notin Creators \/ obj[p].handle # name
    BY <2>1, <2>2 DEF Leaves
  <2>3. CASE p \in Creators /\ obj[p].handle = name
    <3>1. name # Bad
      BY <1>0
    <3>2. at[p] = "noView"
      BY <1>3, <2>3, <3>1 DEF CloseNothing
    <3>3. name \in Segments
      BY <1>0, <2>3, <3>2 DEF Inside
    <3>4. segs[name].unlinkFailed
      BY <2>3, <3>2 DEF LeftNames, WholeInv
    <3>5. f[name].unlinkFailed
      BY <3>3, <3>4 DEF Drops
    <3> QED BY <3>3, <3>5 DEF Leaves
  <2> QED BY <2>2, <2>3
<1> QED BY <1>1, <1>2, <1>3

(* A stuttering step keeps the sizes.                                      *)
LEMMA NothingWhole ==
  ASSUME WholeInv, UNCHANGED memoryVars
  PROVE  WholeInv'
BY DEF memoryVars, WholeInv, FillingBytes, Whole, Peeking, OpenersWhole, CreatorNames, LeftNames,
   IsOpen, Seg, getSize

(* Every step keeps the sizes right and the name held.                     *)
LEMMA WholeStep ==
  ASSUME Orderly, Mortal \cap Creators = {}, MemoryInv, WholeInv, [Next]_memoryVars
  PROVE  WholeInv'
<1>0. TypeInv
  BY DEF MemoryInv
<1>1. CASE UNCHANGED memoryVars
  BY <1>1, NothingWhole
<1>2. ASSUME NEW p \in Objects,
             Begin(p) \/ Advance(p) \/ Fails(p)
      PROVE  WholeInv'
  <2>1. CASE InCall(p)
    BY <1>0, <2>1, AdvanceOwn, AdvanceResized, OwnKeepsWhole
  <2>2. CASE Close(p) \/ CloseAll(p)
    BY <1>0, <2>2, CloseOwn, AdvanceResized, OwnKeepsWhole
  <2>3. CASE CloseUnlink(p) \/ MapFails(p)
    <3>1. PICK f : Drops(p, f) /\ (name' = None \/ (name # None /\ f[name].unlinkFailed))
      BY <1>0, <2>3, UnlinkDrops
    <3>2. Leaves(p, f)
      BY <3>1 DEF Leaves
    <3> QED BY <3>1, <3>2, DropKeepsWhole
  <2>4. CASE TouchesNothing(p) \/ Kill(p) \/ CloseNothing(p)
    <3>1. PICK f : Drops(p, f)
      BY <1>0, <2>4, DeathDrops DEF TouchesNothing, Kill, CloseNothing
    <3>4. Leaves(p, f)
      BY <2>4, <3>1, DeathLeaves
    <3> QED BY <3>1, <3>4, DropKeepsWhole
  <2>7. CASE CloseUnlinkFails(p)
    BY <2>7, FlagKeepsWhole
  <2>5. CASE \/ p \in Creators /\ (CreateOpen(p) \/ CreateFails(p))
             \/ p \in Openers /\ (OpenMissing(p) \/ OpenFound(p))
    BY <2>5, GottenKeepsWhole
  <2>6. CASE Refused(p)
    BY <2>6, NothingWhole DEF Refused
  <2> QED BY <1>2, <2>1, <2>2, <2>3, <2>4, <2>5, <2>6, <2>7 DEF Begin, InCall, Fails, Create, Open
<1> QED BY <1>1, <1>2 DEF Next

(* The initial state has no sizes and no name.                             *)
LEMMA InitWhole == Init => WholeInv
<1> SUFFICES ASSUME Init PROVE WholeInv
  OBVIOUS
<1>1. \A s \in Segments : segs[s].bytes = 0
  BY DEF Init, NewSegment
<1>2. \A p \in Objects : at[p] = "idle" /\ obj[p].handle = None
  BY DEF Init, NewObject
<1>3. FillingBytes /\ Whole /\ Peeking /\ CreatorNames /\ LeftNames
  BY <1>1, <1>2 DEF Init, FillingBytes, Whole, Peeking, CreatorNames, LeftNames, Filling
<1>4. OpenersWhole
  BY <1>2 DEF OpenersWhole, IsOpen
<1> QED BY <1>3, <1>4 DEF WholeInv

(* Both invariants together, when no creator's process is killed.          *)
THEOREM WholeCorrect ==
  ASSUME Orderly, Mortal \cap Creators = {}
  PROVE  Spec => [](MemoryInv /\ WholeInv)
<1>1. Init => MemoryInv /\ WholeInv
  BY InitMemory, InitWhole
<1>2. MemoryInv /\ WholeInv /\ [Next]_memoryVars => (MemoryInv /\ WholeInv)'
  BY MemoryStep, WholeStep
<1> QED BY <1>1, <1>2, PTL DEF Spec

(* An object that open() has returned has the size of the segment, unless  *)
(* the segment's name could not be unlinked.  Orderly keeps open() away    *)
(* from a segment whose creator has not written the size yet, the case in  *)
(* which reading it without the lock (posix-shared-memory.cpp:110) goes    *)
(* wrong; what is left is that no other step spoils size or bytes: neither *)
(* a failed call, nor a client that dies, nor another segment of the name. *)
THEOREM OpenedCorrect ==
  ASSUME Orderly, Mortal \cap Creators = {}
  PROVE  Spec => []OpenedWhole
<1>1. WholeInv => OpenedWhole
  BY DEF WholeInv, OpenersWhole, OpenedWhole
<1> QED BY <1>1, WholeCorrect, PTL

(* A name with bytes behind it is held by an object, whichever clients die *)
(* and whichever of shm_open, ftruncate, mmap and munmap fail at whatever  *)
(* point, unless a shm_unlink() has failed to take it away.                *)
THEOREM NameCorrect ==
  ASSUME Orderly, Mortal \cap Creators = {}
  PROVE  Spec => []NamedWhileHeld
<1>1. WholeInv => NamedWhileHeld
  BY DEF WholeInv, CreatorNames, NamedWhileHeld
<1> QED BY <1>1, WholeCorrect, PTL

=============================================================================

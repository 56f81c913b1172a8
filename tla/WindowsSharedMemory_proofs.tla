---------------------- MODULE WindowsSharedMemory_proofs ----------------------
(***************************************************************************)
(* Proofs about the segment on Windows for any number of processes and any *)
(* sizes, whatever fails and whoever is killed, when nobody creates a name *)
(* in use or opens one being created: the reference count, the sizes that  *)
(* open() gives, and the handles.                                          *)
(***************************************************************************)
EXTENDS WindowsSharedMemory, FiniteSetTheorems, TLAPS

Points == Counted \cup Holding \cup {"initialise", "lockNew", "lock", "unmap"}
DataSizes == {0} \cup {s - HeaderBytes : s \in Sizes}
SegmentType ==
    [handles : Nat, bytes : {0} \cup Sizes, lock : BOOLEAN, refCount : Nat,
     closing : BOOLEAN, dataSize : DataSizes, lost : Nat, orphaned : BOOLEAN]
ObjectType ==
    [handle : {"none", "open", "stale"}, mapped : {0} \cup Sizes, size : {0} \cup Sizes,
     count : Nat, reused : BOOLEAN]

Opened == {p \in Objects : obj[p].handle = "open"}

(* The steps of create() after CreateFileMapping(), those of them before   *)
(* the header is filled in, and the steps before the view is mapped.       *)
Creating == {"initialise", "lockNew", "fill", "releaseNew"}
Filling == {"initialise", "lockNew", "fill"}
Unmapped == {"initialise", "lock"}

(* An object inside a call has a handle, and from the mapping on a view.   *)
Inside == \A p \in Objects : at[p] # "idle" => p \in Opened
Viewed == \A p \in Objects : HasView(p) <=> p \in Opened /\ at[p] \notin Unmapped

(* A segment that is being created has no second user.                     *)
Alone == \A p, q \in Objects : at[p] \in Creating /\ q \in Opened => q = p

(* Once the header is filled in it has the size of the segment.            *)
Whole ==
    Exists => \/ \E p \in Objects : at[p] \in Filling
              \/ seg.bytes \in Sizes /\ seg.dataSize = seg.bytes - HeaderBytes

(* What an object with a handle believes of the size, and how much of the  *)
(* segment it has mapped.                                                  *)
Sized ==
    \A p \in Opened :
        /\ at[p] = "lock" /\ ~obj[p].reused => obj[p].size = 0
        /\ at[p] \notin Unmapped => obj[p].reused \/ obj[p].mapped = seg.bytes
        /\ at[p] \notin {"lock", "join", "joining"} => obj[p].size = seg.bytes
        /\ at[p] \in Creating => obj[p].size \in Sizes

(* Between taking and clearing the lock it is taken, and by nobody else.   *)
Locked == \A p \in Objects : at[p] \in Holding => seg.lock
Exclusive == \A p, q \in Objects : at[p] \in Holding /\ at[q] \in Holding => q = p

(* The count an object has read is still the segment's when it writes.     *)
Counting == {"joining", "leaving"}
CountStands == \A p \in Objects : at[p] \in Counting => obj[p].count = seg.refCount

SegmentInv ==
    /\ TypeOK /\ Inside /\ Viewed /\ Alone /\ Whole /\ Sized
    /\ Locked /\ Exclusive /\ CountStands
    /\ RefCountCounts /\ HandlesReturned

USE DEF Objects

-----------------------------------------------------------------------------
(* Types and numbers.                                                      *)

(* The parts of TypeOK.                                                    *)
LEMMA Typed ==
  TypeOK <=> seg \in SegmentType /\ obj \in [Objects -> ObjectType] /\ at \in [Objects -> Points]
BY DEF TypeOK, SegmentType, ObjectType, DataSizes, Points

(* A size is more than the header, and not 0.                              *)
LEMMA SizeFacts ==
  /\ HeaderBytes \in Nat /\ HeaderBytes > 0
  /\ \A s \in Sizes : s \in Nat /\ s > HeaderBytes /\ s > 0
BY WindowsAssumption

(* Segments' users and handles can be counted.                             *)
LEMMA Countable ==
  ASSUME NEW S, S \subseteq Objects
  PROVE  IsFiniteSet(S) /\ Cardinality(S) \in Nat
BY WindowsAssumption, FS_Subset, FS_CardinalityType

(* One object more, or one less.                                           *)
LEMMA OneMore ==
  ASSUME NEW S, S \subseteq Objects, NEW p \in Objects
  PROVE  /\ Cardinality(S \cup {p}) = (IF p \in S THEN Cardinality(S) ELSE Cardinality(S) + 1)
         /\ Cardinality(S \ {p}) = (IF p \in S THEN Cardinality(S) - 1 ELSE Cardinality(S))
         /\ p \in S => Cardinality(S) > 0
<1>1. IsFiniteSet(S) /\ Cardinality(S) \in Nat /\ IsFiniteSet(S \ {p}) /\ Cardinality(S \ {p}) \in Nat
  BY Countable
<1>2. Cardinality(S \cup {p}) = (IF p \in S THEN Cardinality(S) ELSE Cardinality(S) + 1)
  BY <1>1, FS_AddElement
<1>3. Cardinality(S \ {p}) = (IF p \in S THEN Cardinality(S) - 1 ELSE Cardinality(S))
  BY <1>1, FS_RemoveElement
<1> QED BY <1>1, <1>2, <1>3

(* The users of a segment have it open.                                    *)
LEMMA MembersOpened ==
  ASSUME Viewed
  PROVE  Members = {p \in Opened : at[p] \in Counted}
BY DEF Members, Viewed, Opened, Counted, Unmapped

-----------------------------------------------------------------------------
(* A step of p's own: nobody else changes, and nobody opens or closes a    *)
(* handle.                                                                 *)
OwnStep(p, to, g, o) ==
    /\ obj[p].handle = "open" /\ o.handle = "open"
    /\ at' = [at EXCEPT ![p] = to]
    /\ obj' = [obj EXCEPT ![p] = o]
    /\ seg' = g /\ g.handles = seg.handles /\ g.bytes = seg.bytes

(* What such a step must see to: it takes the lock when it is free, and    *)
(* writes the count when it has the lock; ...                              *)
LockRule(p, to, g) ==
    /\ to \in Holding => g.lock /\ (at[p] \in Holding \/ ~seg.lock)
    /\ at[p] \in Holding \cup Creating \/ (seg.lock => g.lock)
    /\ at[p] \in Holding \/ g.refCount = seg.refCount

CountRule(p, to, g) ==
    \/ (at[p] \in Counted <=> to \in Counted) /\ g.refCount = seg.refCount /\ g.lost = seg.lost
    \/ /\ at[p] \notin Counted /\ to \in Counted
       /\ g.refCount = seg.refCount + 1 /\ g.lost = seg.lost
    \/ /\ at[p] \in Counted /\ to \notin Counted
       /\ g.refCount = (IF seg.refCount > 0 THEN seg.refCount - 1 ELSE seg.refCount)
       /\ g.lost = seg.lost
    \/ at[p] = "fill" /\ to \in Counted /\ g.refCount = 1 /\ g.lost = 0

(* ... it has a view afterwards, and only create() goes on creating; and   *)
(* the sizes are right, of the object and in the header.                   *)
SizeRule(p, to, g, o) ==
    /\ to \notin Unmapped /\ o.mapped > 0
    /\ o.reused \/ o.mapped = seg.bytes
    /\ to \notin {"join", "joining"} => o.size = seg.bytes
    /\ to \in Creating => at[p] \in Creating /\ o.size \in Sizes
    /\ to \in Filling \/ (g.bytes \in Sizes /\ g.dataSize = g.bytes - HeaderBytes)

Own(p) ==
    \E to \in Points, g \in SegmentType, o \in ObjectType :
        /\ OwnStep(p, to, g, o)
        /\ LockRule(p, to, g) /\ CountRule(p, to, g) /\ SizeRule(p, to, g, o)
        /\ to \in Counting => o.count = g.refCount

(* A step of p's own keeps the count right.                                *)
LEMMA OwnCounts ==
  ASSUME SegmentInv, Viewed', NEW p \in Objects, NEW to \in Points, NEW g \in SegmentType,
         NEW o \in ObjectType, OwnStep(p, to, g, o), CountRule(p, to, g)
  PROVE  RefCountCounts'
<1>0. seg \in SegmentType /\ obj \in [Objects -> ObjectType] /\ at \in [Objects -> Points]
  BY Typed DEF SegmentInv
<1>1. Opened' = Opened /\ p \in Opened
  BY <1>0 DEF OwnStep, Opened
<1>2. Members = {q \in Opened : at[q] \in Counted} /\ Members' = {q \in Opened : at'[q] \in Counted}
  <2>1. Members = {q \in Opened : at[q] \in Counted}
    BY MembersOpened DEF SegmentInv
  <2>2. Members' = {q \in Opened : at'[q] \in Counted}
    BY <1>1 DEF Viewed, Members, Counted, Unmapped, Opened
  <2> QED BY <2>1, <2>2
<1>3. p \in Members <=> at[p] \in Counted
  BY <1>1, <1>2
<1>4. Members' = IF to \in Counted THEN Members \cup {p} ELSE Members \ {p}
  BY <1>0, <1>1, <1>2 DEF OwnStep
<1>5. /\ seg.refCount = Cardinality(Members) + seg.lost
      /\ seg.lost \in Nat /\ seg.refCount \in Nat
      /\ Cardinality(Members) \in Nat
      /\ Cardinality(Members \cup {p}) =
            (IF p \in Members THEN Cardinality(Members) ELSE Cardinality(Members) + 1)
      /\ Cardinality(Members \ {p}) =
            (IF p \in Members THEN Cardinality(Members) - 1 ELSE Cardinality(Members))
      /\ p \in Members => Cardinality(Members) > 0
  <2>1. Members \subseteq Objects
    BY DEF Members
  <2> QED BY <1>0, <2>1, Countable, OneMore DEF SegmentInv, RefCountCounts, SegmentType
<1>6. g.refCount = Cardinality(Members') + g.lost
  <2>1. CASE (at[p] \in Counted <=> to \in Counted) /\ g.refCount = seg.refCount /\ g.lost = seg.lost
    <3>1. Members' = Members
      BY <1>3, <1>4, <2>1
    <3> QED BY <1>5, <2>1, <3>1
  <2>2. CASE at[p] \notin Counted /\ to \in Counted
             /\ g.refCount = seg.refCount + 1 /\ g.lost = seg.lost
    BY <1>3, <1>4, <1>5, <2>2
  <2>3. CASE at[p] \in Counted /\ to \notin Counted /\ g.lost = seg.lost
             /\ g.refCount = (IF seg.refCount > 0 THEN seg.refCount - 1 ELSE seg.refCount)
    BY <1>3, <1>4, <1>5, <2>3
  <2>4. CASE at[p] = "fill" /\ to \in Counted /\ g.refCount = 1 /\ g.lost = 0
    <3>1. Members' = {p}
      BY <1>1, <1>2, <1>4, <2>4 DEF SegmentInv, Alone, Creating, Opened
    <3> QED BY <2>4, <3>1, FS_Singleton
  <2> QED BY <2>1, <2>2, <2>3, <2>4 DEF CountRule
<1> QED BY <1>6 DEF RefCountCounts, OwnStep

(* A step of p's own keeps the invariant.                                  *)
LEMMA OwnKeeps ==
  ASSUME SegmentInv, NEW p \in Objects, Own(p)
  PROVE  SegmentInv'
<1>p. PICK to \in Points, g \in SegmentType, o \in ObjectType :
        /\ OwnStep(p, to, g, o)
        /\ LockRule(p, to, g) /\ CountRule(p, to, g) /\ SizeRule(p, to, g, o)
        /\ to \in Counting => o.count = g.refCount
  BY DEF Own
<1>0. seg \in SegmentType /\ obj \in [Objects -> ObjectType] /\ at \in [Objects -> Points]
  BY Typed DEF SegmentInv
<1>1. /\ at'[p] = to /\ obj'[p] = o /\ seg' = g /\ g.handles = seg.handles /\ g.bytes = seg.bytes
      /\ \A q \in Objects : q # p => at'[q] = at[q] /\ obj'[q] = obj[q]
  BY <1>0, <1>p DEF OwnStep
<1>2. Opened' = Opened /\ p \in Opened
  BY <1>0, <1>p DEF OwnStep, Opened
<1>3. TypeOK'
  <2>1. seg' \in SegmentType /\ obj' \in [Objects -> ObjectType] /\ at' \in [Objects -> Points]
    BY <1>0, <1>p DEF OwnStep
  <2> QED BY <2>1 DEF TypeOK, SegmentType, ObjectType, DataSizes, Points
<1>4. Inside'
  BY <1>1, <1>2 DEF SegmentInv, Inside
<1>5. Viewed'
  BY <1>p, <1>1, <1>2 DEF SegmentInv, Viewed, HasView, SizeRule
<1>6. Alone'
  BY <1>p, <1>1, <1>2 DEF SegmentInv, Alone, SizeRule
<1>7. Whole'
  BY <1>p, <1>1 DEF SizeRule, Whole
<1>8. Sized'
  <2>1. ASSUME NEW q \in Opened, q # p
        PROVE  at'[q] = at[q] /\ obj'[q] = obj[q] /\ q \in Objects
    BY <1>1, <2>1 DEF Opened
  <2>2. /\ to \notin Unmapped /\ "lock" \in Unmapped
        /\ o.reused \/ o.mapped = seg.bytes
        /\ to \notin {"lock", "join", "joining"} => o.size = seg.bytes
        /\ to \in Creating => o.size \in Sizes
    BY <1>p DEF SizeRule, Unmapped
  <2> QED BY <1>1, <1>2, <2>1, <2>2 DEF SegmentInv, Sized
<1>9. ASSUME NEW q \in Objects, q # p, at[q] \in Holding
      PROVE  at[p] \notin Holding \cup Creating /\ seg.lock /\ to \notin Holding
  <2>1. q \in Opened
    BY <1>9 DEF SegmentInv, Inside, Holding
  <2> QED BY <1>p, <1>2, <1>9, <2>1 DEF SegmentInv, Exclusive, Alone, Locked, LockRule
<1>10. Locked'
  BY <1>p, <1>1, <1>9 DEF SegmentInv, Locked, LockRule
<1>11. Exclusive'
  BY <1>1, <1>9 DEF SegmentInv, Exclusive
<1>12. CountStands'
  <2>1. Counting \subseteq Holding
    BY DEF Counting, Holding
  <2> QED BY <1>p, <1>1, <1>9, <2>1 DEF SegmentInv, CountStands, LockRule
<1>13. RefCountCounts'
  BY <1>p, <1>5, OwnCounts
<1>14. HandlesReturned'
  BY <1>1, <1>2 DEF SegmentInv, HandlesReturned, Opened
<1> QED BY <1>3, <1>4, <1>5, <1>6, <1>7, <1>8, <1>10, <1>11, <1>12, <1>13, <1>14 DEF SegmentInv

(* What the invariant says of an object inside a call, or with a view.     *)
Here(p) ==
    /\ obj[p].handle = "open" /\ obj[p] \in ObjectType /\ seg \in SegmentType
    /\ at \in [Objects -> Points] /\ obj \in [Objects -> ObjectType]
    /\ at[p] \in Holding => seg.lock
    /\ at[p] \in Counting => obj[p].count = seg.refCount
    /\ at[p] = "lock" /\ ~obj[p].reused => obj[p].size = 0
    /\ at[p] \notin Unmapped =>
         obj[p].mapped > 0 /\ (obj[p].reused \/ obj[p].mapped = seg.bytes)
    /\ at[p] \notin {"lock", "join", "joining"} => obj[p].size = seg.bytes
    /\ at[p] \in Creating => obj[p].size \in Sizes
    /\ at[p] \notin Filling => seg.bytes \in Sizes /\ seg.dataSize = seg.bytes - HeaderBytes

LEMMA HereHolds ==
  ASSUME SegmentInv, NEW p \in Objects, at[p] # "idle" \/ HasView(p)
  PROVE  Here(p)
<1>1. p \in Opened
  BY DEF SegmentInv, Inside, Viewed
<1>2. seg \in SegmentType /\ obj \in [Objects -> ObjectType] /\ at \in [Objects -> Points]
  BY Typed DEF SegmentInv
<1>3. ASSUME at[p] \notin Filling
      PROVE  seg.bytes \in Sizes /\ seg.dataSize = seg.bytes - HeaderBytes
  <2>1. Cardinality(Opened) > 0
    BY <1>1, OneMore DEF Opened
  <2>2. Exists
    BY <2>1 DEF Exists, SegmentInv, HandlesReturned, Opened
  <2>3. \A q \in Objects : at[q] \notin Filling
    BY <1>1, <1>3 DEF SegmentInv, Alone, Creating, Filling
  <2> QED BY <2>2, <2>3 DEF SegmentInv, Whole
<1>4. at[p] \notin Unmapped => obj[p].mapped > 0
  BY <1>1 DEF SegmentInv, Viewed, HasView
<1> QED BY <1>1, <1>2, <1>3, <1>4 DEF SegmentInv, Locked, CountStands, Sized, Opened, Here

(* Every step of a call but the last of close() is a step of p's own that  *)
(* keeps the rules.                                                        *)
LEMMA AdvanceOwn ==
  ASSUME SegmentInv, NEW p \in Objects, Advance(p), ~Unmap(p)
  PROVE  Own(p)
<1> DEFINE o == obj[p]
<1> USE DEF Move, SetObj, TakeLock, ReadCount
<1>1. CASE Initialise(p)
  <2> DEFINE g == [seg EXCEPT !.lock = FALSE, !.orphaned = FALSE]
  <2> DEFINE o2 == [o EXCEPT !.mapped = o.size]
  <2>1. at[p] = "initialise"
    BY <1>1 DEF Initialise
  <2>2. Here(p)
    BY <2>1, HereHolds
  <2>3. g \in SegmentType /\ o2 \in ObjectType
    BY <2>1, <2>2, SizeFacts DEF Here, SegmentType, ObjectType, DataSizes, Creating,
       Filling, Counting
  <2>4. OwnStep(p, "lockNew", g, o2)
    BY <1>1, <2>2 DEF Here, Initialise, OwnStep, SegmentType, ObjectType
  <2>5. LockRule(p, "lockNew", g) /\ CountRule(p, "lockNew", g)
    BY <1>1, <2>1, <2>2 DEF Here, Initialise, LockRule, CountRule, Counted, Counting,
       Holding, Creating, SegmentType, ObjectType
  <2>6. SizeRule(p, "lockNew", g, o2)
    BY <1>1, <2>1, <2>2, SizeFacts DEF Here, Initialise, SizeRule, Unmapped, Creating,
       Filling, SegmentType, ObjectType
  <2>7. "lockNew" \in Points /\ ("lockNew" \in Counting => o2.count = g.refCount)
    BY <2>2 DEF Here, Points, Counted, Holding, Counting, ObjectType
  <2> QED BY <2>3, <2>4, <2>5, <2>6, <2>7 DEF Own
<1>2. CASE LockNew(p)
  <2> DEFINE g == [seg EXCEPT !.lock = TRUE]
  <2> DEFINE o2 == o
  <2>1. at[p] = "lockNew"
    BY <1>2 DEF LockNew
  <2>2. Here(p)
    BY <2>1, HereHolds
  <2>3. g \in SegmentType /\ o2 \in ObjectType
    BY <2>1, <2>2, SizeFacts DEF Here, SegmentType, ObjectType, DataSizes, Creating,
       Filling, Counting
  <2>4. OwnStep(p, "fill", g, o2)
    BY <1>2, <2>2 DEF Here, LockNew, OwnStep, SegmentType, ObjectType
  <2>5. LockRule(p, "fill", g) /\ CountRule(p, "fill", g)
    BY <1>2, <2>1, <2>2 DEF Here, LockNew, LockRule, CountRule, Counted, Counting, Holding,
       Creating, SegmentType, ObjectType
  <2>6. SizeRule(p, "fill", g, o2)
    BY <1>2, <2>1, <2>2, SizeFacts DEF Here, LockNew, SizeRule, Unmapped, Creating, Filling,
       SegmentType, ObjectType
  <2>7. "fill" \in Points /\ ("fill" \in Counting => o2.count = g.refCount)
    BY <2>2 DEF Here, Points, Counted, Holding, Counting, ObjectType
  <2> QED BY <2>3, <2>4, <2>5, <2>6, <2>7 DEF Own
<1>3. CASE Fill(p)
  <2> DEFINE g == [seg EXCEPT !.closing = FALSE, !.refCount = 1,
                        !.dataSize = o.size - HeaderBytes, !.lost = 0]
  <2> DEFINE o2 == o
  <2>1. at[p] = "fill"
    BY <1>3 DEF Fill
  <2>2. Here(p)
    BY <2>1, HereHolds
  <2>3. g \in SegmentType /\ o2 \in ObjectType
    BY <2>1, <2>2, SizeFacts DEF Here, SegmentType, ObjectType, DataSizes, Creating,
       Filling, Counting
  <2>4. OwnStep(p, "releaseNew", g, o2)
    BY <1>3, <2>2 DEF Here, Fill, OwnStep, SegmentType, ObjectType
  <2>5. LockRule(p, "releaseNew", g) /\ CountRule(p, "releaseNew", g)
    BY <1>3, <2>1, <2>2 DEF Here, Fill, LockRule, CountRule, Counted, Counting, Holding,
       Creating, SegmentType, ObjectType
  <2>6. SizeRule(p, "releaseNew", g, o2)
    BY <1>3, <2>1, <2>2, SizeFacts DEF Here, Fill, SizeRule, Unmapped, Creating, Filling,
       SegmentType, ObjectType
  <2>7. "releaseNew" \in Points /\ ("releaseNew" \in Counting => o2.count = g.refCount)
    BY <2>2 DEF Here, Points, Counted, Holding, Counting, ObjectType
  <2> QED BY <2>3, <2>4, <2>5, <2>6, <2>7 DEF Own
<1>4. CASE LockOpened(p)
  <2> DEFINE g == [seg EXCEPT !.lock = TRUE]
  <2> DEFINE o2 == [o EXCEPT !.mapped = IF o.size = 0 THEN seg.bytes ELSE o.size]
  <2>1. at[p] = "lock"
    BY <1>4 DEF LockOpened
  <2>2. Here(p)
    BY <2>1, HereHolds
  <2>3. g \in SegmentType /\ o2 \in ObjectType
    BY <2>1, <2>2, SizeFacts DEF Here, SegmentType, ObjectType, DataSizes, Creating,
       Filling, Counting
  <2>4. OwnStep(p, "join", g, o2)
    BY <1>4, <2>2 DEF Here, LockOpened, OwnStep, SegmentType, ObjectType
  <2>5. LockRule(p, "join", g) /\ CountRule(p, "join", g)
    BY <1>4, <2>1, <2>2 DEF Here, LockOpened, LockRule, CountRule, Counted, Counting,
       Holding, Creating, SegmentType, ObjectType
  <2>6. SizeRule(p, "join", g, o2)
    BY <1>4, <2>1, <2>2, SizeFacts DEF Here, LockOpened, SizeRule, Unmapped, Creating,
       Filling, SegmentType, ObjectType
  <2>7. "join" \in Points /\ ("join" \in Counting => o2.count = g.refCount)
    BY <2>2 DEF Here, Points, Counted, Holding, Counting, ObjectType
  <2> QED BY <2>3, <2>4, <2>5, <2>6, <2>7 DEF Own
<1>5. CASE Join(p)
  <2> DEFINE g == seg
  <2> DEFINE o2 == [o EXCEPT !.count = seg.refCount]
  <2>1. at[p] = "join"
    BY <1>5 DEF Join
  <2>2. Here(p)
    BY <2>1, HereHolds
  <2>3. g \in SegmentType /\ o2 \in ObjectType
    BY <2>1, <2>2, SizeFacts DEF Here, SegmentType, ObjectType, DataSizes, Creating,
       Filling, Counting
  <2>4. OwnStep(p, "joining", g, o2)
    BY <1>5, <2>2 DEF Here, Join, OwnStep, SegmentType, ObjectType
  <2>5. LockRule(p, "joining", g) /\ CountRule(p, "joining", g)
    BY <1>5, <2>1, <2>2 DEF Here, Join, LockRule, CountRule, Counted, Counting, Holding,
       Creating, SegmentType, ObjectType
  <2>6. SizeRule(p, "joining", g, o2)
    BY <1>5, <2>1, <2>2, SizeFacts DEF Here, Join, SizeRule, Unmapped, Creating, Filling,
       SegmentType, ObjectType
  <2>7. "joining" \in Points /\ ("joining" \in Counting => o2.count = g.refCount)
    BY <2>2 DEF Here, Points, Counted, Holding, Counting, ObjectType
  <2> QED BY <2>3, <2>4, <2>5, <2>6, <2>7 DEF Own
<1>6. CASE Joined(p)
  <2> DEFINE g == [seg EXCEPT !.refCount = o.count + 1]
  <2> DEFINE o2 == [o EXCEPT !.count = 0, !.size = seg.dataSize + HeaderBytes]
  <2>1. at[p] = "joining"
    BY <1>6 DEF Joined
  <2>2. Here(p)
    BY <2>1, HereHolds
  <2>8. seg.dataSize + HeaderBytes = seg.bytes /\ seg.bytes \in Sizes /\ o.count + 1 \in Nat
    BY <2>1, <2>2, SizeFacts DEF Here, Filling, ObjectType
  <2>3. g \in SegmentType /\ o2 \in ObjectType
    BY <2>8, <2>1, <2>2, SizeFacts DEF Here, SegmentType, ObjectType, DataSizes, Creating,
       Filling, Counting
  <2>4. OwnStep(p, "release", g, o2)
    BY <1>6, <2>2 DEF Here, Joined, OwnStep, SegmentType, ObjectType
  <2>5. LockRule(p, "release", g) /\ CountRule(p, "release", g)
    BY <1>6, <2>1, <2>2 DEF Here, Joined, LockRule, CountRule, Counted, Counting, Holding,
       Creating, SegmentType, ObjectType
  <2>6. SizeRule(p, "release", g, o2)
    BY <2>8, <1>6, <2>1, <2>2, SizeFacts DEF Here, Joined, SizeRule, Unmapped, Creating,
       Filling, SegmentType, ObjectType
  <2>7. "release" \in Points /\ ("release" \in Counting => o2.count = g.refCount)
    BY <2>2 DEF Here, Points, Counted, Holding, Counting, ObjectType
  <2> QED BY <2>3, <2>4, <2>5, <2>6, <2>7 DEF Own
<1>7. CASE Release(p)
  <2> DEFINE g == [seg EXCEPT !.lock = FALSE]
  <2> DEFINE o2 == o
  <2>1. at[p] \in {"releaseNew", "release"}
    BY <1>7 DEF Release
  <2>2. Here(p)
    BY <2>1, HereHolds
  <2>3. g \in SegmentType /\ o2 \in ObjectType
    BY <2>1, <2>2, SizeFacts DEF Here, SegmentType, ObjectType, DataSizes, Creating,
       Filling, Counting
  <2>4. OwnStep(p, "idle", g, o2)
    BY <1>7, <2>2 DEF Here, Release, OwnStep, SegmentType, ObjectType
  <2>5. LockRule(p, "idle", g) /\ CountRule(p, "idle", g)
    BY <1>7, <2>1, <2>2 DEF Here, Release, LockRule, CountRule, Counted, Counting, Holding,
       Creating, SegmentType, ObjectType
  <2>6. SizeRule(p, "idle", g, o2)
    BY <1>7, <2>1, <2>2, SizeFacts DEF Here, Release, SizeRule, Unmapped, Creating, Filling,
       SegmentType, ObjectType
  <2>7. "idle" \in Points /\ ("idle" \in Counting => o2.count = g.refCount)
    BY <2>2 DEF Here, Points, Counted, Holding, Counting, ObjectType
  <2> QED BY <2>3, <2>4, <2>5, <2>6, <2>7 DEF Own
<1>8. CASE LockAll(p)
  <2> DEFINE g == [seg EXCEPT !.lock = TRUE]
  <2> DEFINE o2 == o
  <2>1. at[p] = "lockAll"
    BY <1>8 DEF LockAll
  <2>2. Here(p)
    BY <2>1, HereHolds
  <2>3. g \in SegmentType /\ o2 \in ObjectType
    BY <2>1, <2>2, SizeFacts DEF Here, SegmentType, ObjectType, DataSizes, Creating,
       Filling, Counting
  <2>4. OwnStep(p, "signal", g, o2)
    BY <1>8, <2>2 DEF Here, LockAll, OwnStep, SegmentType, ObjectType
  <2>5. LockRule(p, "signal", g) /\ CountRule(p, "signal", g)
    BY <1>8, <2>1, <2>2 DEF Here, LockAll, LockRule, CountRule, Counted, Counting, Holding,
       Creating, SegmentType, ObjectType
  <2>6. SizeRule(p, "signal", g, o2)
    BY <1>8, <2>1, <2>2, SizeFacts DEF Here, LockAll, SizeRule, Unmapped, Creating, Filling,
       SegmentType, ObjectType
  <2>7. "signal" \in Points /\ ("signal" \in Counting => o2.count = g.refCount)
    BY <2>2 DEF Here, Points, Counted, Holding, Counting, ObjectType
  <2> QED BY <2>3, <2>4, <2>5, <2>6, <2>7 DEF Own
<1>9. CASE SignalClose(p)
  <2> DEFINE g == [seg EXCEPT !.closing = TRUE, !.lock = FALSE]
  <2> DEFINE o2 == o
  <2>1. at[p] = "signal"
    BY <1>9 DEF SignalClose
  <2>2. Here(p)
    BY <2>1, HereHolds
  <2>3. g \in SegmentType /\ o2 \in ObjectType
    BY <2>1, <2>2, SizeFacts DEF Here, SegmentType, ObjectType, DataSizes, Creating,
       Filling, Counting
  <2>4. OwnStep(p, "wait", g, o2)
    BY <1>9, <2>2 DEF Here, SignalClose, OwnStep, SegmentType, ObjectType
  <2>5. LockRule(p, "wait", g) /\ CountRule(p, "wait", g)
    BY <1>9, <2>1, <2>2 DEF Here, SignalClose, LockRule, CountRule, Counted, Counting,
       Holding, Creating, SegmentType, ObjectType
  <2>6. SizeRule(p, "wait", g, o2)
    BY <1>9, <2>1, <2>2, SizeFacts DEF Here, SignalClose, SizeRule, Unmapped, Creating,
       Filling, SegmentType, ObjectType
  <2>7. "wait" \in Points /\ ("wait" \in Counting => o2.count = g.refCount)
    BY <2>2 DEF Here, Points, Counted, Holding, Counting, ObjectType
  <2> QED BY <2>3, <2>4, <2>5, <2>6, <2>7 DEF Own
<1>10. CASE WaitAlone(p)
  <2> DEFINE g == seg
  <2> DEFINE o2 == o
  <2>1. at[p] = "wait"
    BY <1>10 DEF WaitAlone
  <2>2. Here(p)
    BY <2>1, HereHolds
  <2>3. g \in SegmentType /\ o2 \in ObjectType
    BY <2>1, <2>2, SizeFacts DEF Here, SegmentType, ObjectType, DataSizes, Creating,
       Filling, Counting
  <2>4. OwnStep(p, "lockClose", g, o2)
    BY <1>10, <2>2 DEF Here, WaitAlone, OwnStep, SegmentType, ObjectType
  <2>5. LockRule(p, "lockClose", g) /\ CountRule(p, "lockClose", g)
    BY <1>10, <2>1, <2>2 DEF Here, WaitAlone, LockRule, CountRule, Counted, Counting,
       Holding, Creating, SegmentType, ObjectType
  <2>6. SizeRule(p, "lockClose", g, o2)
    BY <1>10, <2>1, <2>2, SizeFacts DEF Here, WaitAlone, SizeRule, Unmapped, Creating,
       Filling, SegmentType, ObjectType
  <2>7. "lockClose" \in Points /\ ("lockClose" \in Counting => o2.count = g.refCount)
    BY <2>2 DEF Here, Points, Counted, Holding, Counting, ObjectType
  <2> QED BY <2>3, <2>4, <2>5, <2>6, <2>7 DEF Own
<1>11. CASE LockClose(p)
  <2> DEFINE g == [seg EXCEPT !.lock = TRUE]
  <2> DEFINE o2 == o
  <2>1. at[p] = "lockClose"
    BY <1>11 DEF LockClose
  <2>2. Here(p)
    BY <2>1, HereHolds
  <2>3. g \in SegmentType /\ o2 \in ObjectType
    BY <2>1, <2>2, SizeFacts DEF Here, SegmentType, ObjectType, DataSizes, Creating,
       Filling, Counting
  <2>4. OwnStep(p, "leave", g, o2)
    BY <1>11, <2>2 DEF Here, LockClose, OwnStep, SegmentType, ObjectType
  <2>5. LockRule(p, "leave", g) /\ CountRule(p, "leave", g)
    BY <1>11, <2>1, <2>2 DEF Here, LockClose, LockRule, CountRule, Counted, Counting,
       Holding, Creating, SegmentType, ObjectType
  <2>6. SizeRule(p, "leave", g, o2)
    BY <1>11, <2>1, <2>2, SizeFacts DEF Here, LockClose, SizeRule, Unmapped, Creating,
       Filling, SegmentType, ObjectType
  <2>7. "leave" \in Points /\ ("leave" \in Counting => o2.count = g.refCount)
    BY <2>2 DEF Here, Points, Counted, Holding, Counting, ObjectType
  <2> QED BY <2>3, <2>4, <2>5, <2>6, <2>7 DEF Own
<1>12. CASE Leave(p)
  <2> DEFINE g == seg
  <2> DEFINE o2 == [o EXCEPT !.count = seg.refCount]
  <2>1. at[p] = "leave"
    BY <1>12 DEF Leave
  <2>2. Here(p)
    BY <2>1, HereHolds
  <2>3. g \in SegmentType /\ o2 \in ObjectType
    BY <2>1, <2>2, SizeFacts DEF Here, SegmentType, ObjectType, DataSizes, Creating,
       Filling, Counting
  <2>4. OwnStep(p, "leaving", g, o2)
    BY <1>12, <2>2 DEF Here, Leave, OwnStep, SegmentType, ObjectType
  <2>5. LockRule(p, "leaving", g) /\ CountRule(p, "leaving", g)
    BY <1>12, <2>1, <2>2 DEF Here, Leave, LockRule, CountRule, Counted, Counting, Holding,
       Creating, SegmentType, ObjectType
  <2>6. SizeRule(p, "leaving", g, o2)
    BY <1>12, <2>1, <2>2, SizeFacts DEF Here, Leave, SizeRule, Unmapped, Creating, Filling,
       SegmentType, ObjectType
  <2>7. "leaving" \in Points /\ ("leaving" \in Counting => o2.count = g.refCount)
    BY <2>2 DEF Here, Points, Counted, Holding, Counting, ObjectType
  <2> QED BY <2>3, <2>4, <2>5, <2>6, <2>7 DEF Own
<1>13. CASE Left(p)
  <2> DEFINE g == [seg EXCEPT !.refCount = IF o.count > 0 THEN o.count - 1 ELSE seg.refCount]
  <2> DEFINE o2 == [o EXCEPT !.count = 0]
  <2>1. at[p] = "leaving"
    BY <1>13 DEF Left
  <2>2. Here(p)
    BY <2>1, HereHolds
  <2>3. g \in SegmentType /\ o2 \in ObjectType
    BY <2>1, <2>2, SizeFacts DEF Here, SegmentType, ObjectType, DataSizes, Creating,
       Filling, Counting
  <2>4. OwnStep(p, "releaseClose", g, o2)
    BY <1>13, <2>2 DEF Here, Left, OwnStep, SegmentType, ObjectType
  <2>5. LockRule(p, "releaseClose", g) /\ CountRule(p, "releaseClose", g)
    BY <1>13, <2>1, <2>2 DEF Here, Left, LockRule, CountRule, Counted, Counting, Holding,
       Creating, SegmentType, ObjectType
  <2>6. SizeRule(p, "releaseClose", g, o2)
    BY <1>13, <2>1, <2>2, SizeFacts DEF Here, Left, SizeRule, Unmapped, Creating, Filling,
       SegmentType, ObjectType
  <2>7. "releaseClose" \in Points /\ ("releaseClose" \in Counting => o2.count = g.refCount)
    BY <2>2 DEF Here, Points, Counted, Holding, Counting, ObjectType
  <2> QED BY <2>3, <2>4, <2>5, <2>6, <2>7 DEF Own
<1>14. CASE ReleaseClose(p)
  <2> DEFINE g == [seg EXCEPT !.lock = FALSE]
  <2> DEFINE o2 == o
  <2>1. at[p] = "releaseClose"
    BY <1>14 DEF ReleaseClose
  <2>2. Here(p)
    BY <2>1, HereHolds
  <2>3. g \in SegmentType /\ o2 \in ObjectType
    BY <2>1, <2>2, SizeFacts DEF Here, SegmentType, ObjectType, DataSizes, Creating,
       Filling, Counting
  <2>4. OwnStep(p, "unmap", g, o2)
    BY <1>14, <2>2 DEF Here, ReleaseClose, OwnStep, SegmentType, ObjectType
  <2>5. LockRule(p, "unmap", g) /\ CountRule(p, "unmap", g)
    BY <1>14, <2>1, <2>2 DEF Here, ReleaseClose, LockRule, CountRule, Counted, Counting,
       Holding, Creating, SegmentType, ObjectType
  <2>6. SizeRule(p, "unmap", g, o2)
    BY <1>14, <2>1, <2>2, SizeFacts DEF Here, ReleaseClose, SizeRule, Unmapped, Creating,
       Filling, SegmentType, ObjectType
  <2>7. "unmap" \in Points /\ ("unmap" \in Counting => o2.count = g.refCount)
    BY <2>2 DEF Here, Points, Counted, Holding, Counting, ObjectType
  <2> QED BY <2>3, <2>4, <2>5, <2>6, <2>7 DEF Own
<1> QED BY <1>1, <1>2, <1>3, <1>4, <1>5, <1>6, <1>7, <1>8, <1>9, <1>10, <1>11, <1>12, <1>13,
   <1>14 DEF Advance

(* The beginning of close() and of closeAll() is one, too.                 *)
LEMMA CloseOwn ==
  ASSUME SegmentInv, NEW p \in Objects, Close(p) \/ CloseAll(p)
  PROVE  Own(p)
<1>1. at[p] = "idle" /\ Here(p)
  BY HereHolds DEF Close, CloseAll, Move
<1>2. ASSUME NEW to \in {"lockClose", "lockAll"}, Move(p, "idle", to), UNCHANGED <<seg, obj>>
      PROVE  Own(p)
  <2>1. OwnStep(p, to, seg, obj[p])
    BY <1>1, <1>2 DEF OwnStep, Move, Here
  <2>2. LockRule(p, to, seg) /\ CountRule(p, to, seg)
    BY <1>1, <1>2 DEF LockRule, CountRule, Counted, Holding
  <2>3. SizeRule(p, to, seg, obj[p])
    BY <1>1, <1>2 DEF SizeRule, Here, Unmapped, Creating, Filling
  <2>4. to \in Points /\ to \notin Counting
    BY <1>2 DEF Points, Counted, Counting
  <2> QED BY <1>1, <2>1, <2>2, <2>3, <2>4 DEF Own, Here
<1> QED BY <1>2 DEF Close, CloseAll

-----------------------------------------------------------------------------
(* p lets go of its handle: it closes the segment, a mapping fails, or it  *)
(* is killed, and then a reference it had is lost.                         *)
Drops(p, s, o) ==
    /\ p \in Opened
    /\ at' = [at EXCEPT ![p] = "idle"]
    /\ obj' = [obj EXCEPT ![p] = o] /\ o.handle # "open" /\ ~(o.mapped > 0)
    /\ CloseHandle(s)
    /\ s.handles = seg.handles /\ s.bytes = seg.bytes /\ s.dataSize = seg.dataSize
    /\ s.lock = seg.lock /\ s.refCount = seg.refCount
    /\ s.lost = seg.lost + (IF p \in Members THEN 1 ELSE 0)

(* The end of close() and a failed mapping let go of the segment ...       *)
LEMMA CloseDrops ==
  ASSUME SegmentInv, NEW p \in Objects, Unmap(p) \/ MapFails(p)
  PROVE  \E s \in SegmentType, o \in ObjectType : Drops(p, s, o)
<1>1. at[p] \in {"unmap", "initialise", "lock"} /\ at' = [at EXCEPT ![p] = "idle"] /\ CloseHandle(seg)
  BY DEF Unmap, MapFails, Move
<1>2. Here(p) /\ p \in Opened /\ p \notin Members
  BY <1>1, HereHolds DEF Here, Opened, Members, Counted
<1>3. \E o \in ObjectType : obj' = [obj EXCEPT ![p] = o] /\ o.handle # "open" /\ ~(o.mapped > 0)
  <2>1. CASE Unmap(p)
    <3> DEFINE o == [NewObject EXCEPT !.size = getSize(p)]
    <3>1. o \in ObjectType /\ o.handle # "open" /\ ~(o.mapped > 0)
      <4>1. obj[p].size \in {0} \cup Sizes
        BY <1>2 DEF Here, ObjectType
      <4>2. NewObject \in ObjectType /\ NewObject.handle = "none" /\ NewObject.mapped = 0
        BY DEF NewObject, ObjectType
      <4> QED BY <4>1, <4>2 DEF ObjectType, getSize
    <3>2. obj' = [obj EXCEPT ![p] = o]
      BY <2>1 DEF Unmap, SetObj
    <3> HIDE DEF o
    <3> QED BY <3>1, <3>2
  <2>2. CASE MapFails(p)
    <3> DEFINE o == [obj[p] EXCEPT !.handle = "stale"]
    <3>1. ~HasView(p)
      BY <2>2 DEF MapFails, Move, SegmentInv, Viewed, Unmapped
    <3>2. o \in ObjectType /\ o.handle # "open" /\ ~(o.mapped > 0)
      BY <1>2, <3>1 DEF HasView, Here, ObjectType
    <3>3. obj' = [obj EXCEPT ![p] = o]
      BY <2>2 DEF MapFails, SetObj
    <3> HIDE DEF o
    <3> QED BY <3>2, <3>3
  <2> QED BY <2>1, <2>2
<1>4. seg \in SegmentType /\ seg.lost = seg.lost + (IF p \in Members THEN 1 ELSE 0)
  BY <1>2 DEF Here, SegmentType
<1>5. PICK o \in ObjectType : obj' = [obj EXCEPT ![p] = o] /\ o.handle # "open" /\ ~(o.mapped > 0)
  BY <1>3
<1>6. Drops(p, seg, o)
  BY <1>1, <1>2, <1>4, <1>5 DEF Drops
<1> QED BY <1>4, <1>6

(* ... and so does a process that dies with a handle.                      *)
LEMMA DeathDrops ==
  ASSUME SegmentInv, NEW p \in Objects, Dies(p), p \in Opened
  PROVE  \E s \in SegmentType, o \in ObjectType : Drops(p, s, o)
<1> DEFINE s == [seg EXCEPT !.lost = @ + (IF p \in Members THEN 1 ELSE 0),
                            !.orphaned = @ \/ at[p] \in Holding]
<1>1. seg \in SegmentType /\ seg.lost + (IF p \in Members THEN 1 ELSE 0) \in Nat
  BY Typed DEF SegmentInv, SegmentType
<1>2. /\ s \in SegmentType
      /\ s.handles = seg.handles /\ s.bytes = seg.bytes /\ s.dataSize = seg.dataSize
      /\ s.lock = seg.lock /\ s.refCount = seg.refCount
      /\ s.lost = seg.lost + (IF p \in Members THEN 1 ELSE 0)
  BY <1>1 DEF SegmentType
<1>3. /\ at' = [at EXCEPT ![p] = "idle"] /\ obj' = [obj EXCEPT ![p] = NewObject]
      /\ CloseHandle(s)
  BY DEF Dies, Move, SetObj, Opened
<1>4. NewObject \in ObjectType /\ NewObject.handle # "open" /\ ~(NewObject.mapped > 0)
  BY DEF NewObject, ObjectType
<1> HIDE DEF s
<1> QED BY <1>2, <1>3, <1>4 DEF Drops

(* Letting go of a handle keeps the invariant.                             *)
LEMMA DropKeeps ==
  ASSUME SegmentInv, NEW p \in Objects, NEW s \in SegmentType, NEW o \in ObjectType, Drops(p, s, o)
  PROVE  SegmentInv'
<1>0. seg \in SegmentType /\ obj \in [Objects -> ObjectType] /\ at \in [Objects -> Points]
  BY Typed DEF SegmentInv
<1>1. /\ at'[p] = "idle" /\ obj'[p] = o
      /\ \A q \in Objects : q # p => at'[q] = at[q] /\ obj'[q] = obj[q]
  BY <1>0 DEF Drops
<1>2. Opened' = Opened \ {p} /\ p \in Opened
  BY <1>1 DEF Drops, Opened
<1>3. /\ seg.handles = Cardinality(Opened) /\ Cardinality(Opened) > 0
      /\ Cardinality(Opened') = seg.handles - 1 /\ seg.handles \in Nat
  <2>1. Opened \subseteq Objects
    BY DEF Opened
  <2>2. seg.handles = Cardinality(Opened)
    BY DEF SegmentInv, HandlesReturned, Opened
  <2> QED BY <1>0, <1>2, <2>1, <2>2, OneMore, Countable
<1>4. IF seg.handles > 1 THEN seg' = [s EXCEPT !.handles = @ - 1] ELSE seg' = NoSegment
  BY DEF Drops, CloseHandle
<1>5. ASSUME NEW q \in Objects, q \in Opened'
      PROVE  /\ q # p /\ q \in Opened /\ at'[q] = at[q] /\ obj'[q] = obj[q]
             /\ seg' = [s EXCEPT !.handles = @ - 1] /\ seg.handles > 1
  <2>1. Opened' \subseteq Objects
    BY <1>2 DEF Opened
  <2>2. Cardinality(Opened') > 0
    BY <1>5, <2>1, OneMore
  <2> QED BY <1>1, <1>2, <1>3, <1>4, <1>5, <2>2
<1>6. seg.handles > 1 =>
        /\ seg'.bytes = seg.bytes /\ seg'.dataSize = seg.dataSize /\ seg'.lock = seg.lock
        /\ seg'.refCount = seg.refCount
        /\ seg'.lost = seg.lost + (IF p \in Members THEN 1 ELSE 0)
        /\ seg'.handles = seg.handles - 1
  BY <1>4 DEF Drops, SegmentType
<1>7. TypeOK'
  <2>1. seg' \in SegmentType
    <3>1. NoSegment \in SegmentType
      BY DEF NoSegment, SegmentType, DataSizes
    <3>2. seg.handles > 1 => [s EXCEPT !.handles = @ - 1] \in SegmentType
      BY <1>3 DEF Drops, SegmentType
    <3> QED BY <1>4, <3>1, <3>2
  <2>2. obj' \in [Objects -> ObjectType] /\ at' \in [Objects -> Points]
    BY <1>0 DEF Drops, Points, Counted
  <2> QED BY <2>1, <2>2 DEF TypeOK, SegmentType, ObjectType, DataSizes, Points
<1>8. Inside'
  BY <1>1, <1>2 DEF SegmentInv, Inside
<1>9. Viewed'
  <2>1. ASSUME NEW q \in Objects, q # p
        PROVE  HasView(q)' <=> q \in Opened' /\ at'[q] \notin Unmapped
    BY <1>1, <1>2, <2>1 DEF SegmentInv, Viewed, HasView
  <2>2. ~HasView(p)' /\ p \notin Opened'
    BY <1>1, <1>2 DEF HasView, Drops
  <2> QED BY <2>1, <2>2 DEF Viewed
<1>10. Alone'
  <2>1. \A q \in Objects : at'[q] \in Creating => q # p /\ at'[q] = at[q]
    BY <1>1 DEF Creating
  <2> QED BY <1>2, <2>1 DEF SegmentInv, Alone
<1>11. Whole'
  <2>1. CASE seg.handles > 1
    <3>1. at[p] \notin Filling
      <4>1. ASSUME at[p] \in Creating
            PROVE  FALSE
        <5>1. Opened = {p}
          BY <1>2, <4>1 DEF SegmentInv, Alone, Opened
        <5>2. Cardinality({p}) = 1
          BY FS_Singleton
        <5> QED BY <1>3, <2>1, <5>1, <5>2
      <4> QED BY <4>1 DEF Creating, Filling
    <3>2. \A q \in Objects : at[q] \in Filling => at'[q] \in Filling
      BY <1>1, <3>1
    <3>3. Exists
      BY <1>3 DEF Exists
    <3>4. \/ \E q \in Objects : at[q] \in Filling
          \/ seg.bytes \in Sizes /\ seg.dataSize = seg.bytes - HeaderBytes
      BY <3>3 DEF SegmentInv, Whole
    <3>5. seg'.bytes = seg.bytes /\ seg'.dataSize = seg.dataSize
      BY <1>6, <2>1
    <3> QED BY <3>2, <3>4, <3>5 DEF Whole
  <2>2. CASE ~(seg.handles > 1)
    BY <1>4, <2>2 DEF Whole, Exists, NoSegment
  <2> QED BY <2>1, <2>2
<1>12. Sized'
  <2>1. ASSUME NEW q \in Opened'
        PROVE  /\ q \in Opened /\ at'[q] = at[q] /\ obj'[q] = obj[q] /\ seg'.bytes = seg.bytes
    BY <1>2, <1>5, <1>6, <2>1 DEF Opened
  <2> QED BY <2>1 DEF SegmentInv, Sized
<1>13. ASSUME NEW q \in Objects, at'[q] \in Holding
       PROVE  at[q] = at'[q] /\ obj'[q] = obj[q] /\ seg'.lock = seg.lock /\ seg'.refCount = seg.refCount
  <2>1. q # p /\ at'[q] # "idle"
    BY <1>1, <1>13 DEF Holding
  <2>2. q \in Opened'
    BY <1>8, <2>1 DEF Inside
  <2> QED BY <1>5, <1>6, <2>2
<1>14. Locked' /\ Exclusive'
  BY <1>13 DEF SegmentInv, Locked, Exclusive
<1>15. CountStands'
  <2>1. Counting \subseteq Holding
    BY DEF Counting, Holding
  <2> QED BY <1>13, <2>1 DEF SegmentInv, CountStands
<1>16. RefCountCounts'
  <2>1. Members' = Members \ {p}
    <3>1. ~HasView(p)'
      BY <1>1 DEF HasView, Drops
    <3>2. \A q \in Objects : q # p => (HasView(q)' <=> HasView(q)) /\ at'[q] = at[q]
      BY <1>1 DEF HasView
    <3> QED BY <3>1, <3>2 DEF Members
  <2>2. Members \subseteq Objects /\ seg.lost \in Nat
    BY <1>0 DEF Members, SegmentType
  <2>3. seg.refCount = Cardinality(Members) + seg.lost
    BY DEF SegmentInv, RefCountCounts
  <2>4. CASE seg.handles > 1
    <3>1. /\ Cardinality(Members) \in Nat
          /\ Cardinality(Members') =
                (IF p \in Members THEN Cardinality(Members) - 1 ELSE Cardinality(Members))
      BY <2>1, <2>2, OneMore, Countable
    <3>2. seg'.refCount = seg.refCount /\ seg'.lost = seg.lost + (IF p \in Members THEN 1 ELSE 0)
      BY <1>6, <2>4
    <3> QED BY <2>2, <2>3, <3>1, <3>2 DEF RefCountCounts
  <2>5. CASE ~(seg.handles > 1)
    <3>1. \A q \in Objects : q \notin Opened'
      BY <1>5, <2>5
    <3>2. Members' = {}
      BY <1>9, <3>1 DEF Viewed, Members
    <3> QED BY <1>4, <2>5, <3>2, FS_EmptySet DEF RefCountCounts, NoSegment
  <2> QED BY <2>4, <2>5
<1>17. HandlesReturned'
  <2>1. CASE seg.handles > 1
    BY <1>3, <1>6, <2>1 DEF HandlesReturned, Opened
  <2>2. CASE ~(seg.handles > 1)
    <3>1. seg'.handles = 0 /\ Cardinality(Opened') = 0
      BY <1>3, <1>4, <2>2 DEF NoSegment
    <3> QED BY <3>1 DEF HandlesReturned, Opened
  <2> QED BY <2>1, <2>2
<1> QED BY <1>7, <1>8, <1>9, <1>10, <1>11, <1>12, <1>14, <1>15, <1>16, <1>17 DEF SegmentInv

-----------------------------------------------------------------------------
(* p has no handle and gets none: CreateFileMapping() fails, or a process  *)
(* that has none dies.                                                     *)
Outside(p, o) ==
    /\ p \notin Opened /\ at' = at /\ seg' = seg
    /\ obj' = [obj EXCEPT ![p] = o] /\ o.handle # "open" /\ ~(o.mapped > 0)

(* Such steps are those of a create() that fails and of a process that     *)
(* dies without a handle.                                                  *)
LEMMA OutsideSteps ==
  ASSUME SegmentInv, NEW p \in Objects, CreateFails(p) \/ (Dies(p) /\ p \notin Opened)
  PROVE  \E o \in ObjectType : Outside(p, o)
<1>0. obj \in [Objects -> ObjectType] /\ at \in [Objects -> Points]
  BY Typed DEF SegmentInv
<1>1. CASE CreateFails(p)
  <2>1. PICK size \in Sizes : obj' = [obj EXCEPT ![p] = [obj[p] EXCEPT !.size = size]]
    BY <1>1 DEF CreateFails, SetObj
  <2> DEFINE o == [obj[p] EXCEPT !.size = size]
  <2>2. at[p] = "idle" /\ at' = at /\ seg' = seg /\ p \notin Opened
    BY <1>0, <1>1 DEF CreateFails, Move, Opened
  <2>3. ~(obj[p].mapped > 0)
    BY <2>2 DEF SegmentInv, Viewed, HasView
  <2>4. o \in ObjectType /\ o.handle # "open" /\ ~(o.mapped > 0)
    BY <1>0, <2>2, <2>3 DEF Opened, ObjectType
  <2> QED BY <2>1, <2>2, <2>4 DEF Outside
<1>2. CASE Dies(p) /\ p \notin Opened
  <2>1. at[p] = "idle"
    BY <1>2 DEF SegmentInv, Inside
  <2>2. at' = at /\ seg' = seg /\ obj' = [obj EXCEPT ![p] = NewObject]
    BY <1>0, <1>2, <2>1 DEF Dies, Move, SetObj, Opened
  <2>3. NewObject \in ObjectType /\ NewObject.handle # "open" /\ ~(NewObject.mapped > 0)
    BY DEF NewObject, ObjectType
  <2> QED BY <1>2, <2>2, <2>3 DEF Outside
<1> QED BY <1>1, <1>2

(* They keep the invariant.                                                *)
LEMMA OutsideKeeps ==
  ASSUME SegmentInv, NEW p \in Objects, NEW o \in ObjectType, Outside(p, o)
  PROVE  SegmentInv'
<1>0. seg \in SegmentType /\ obj \in [Objects -> ObjectType] /\ at \in [Objects -> Points]
  BY Typed DEF SegmentInv
<1>1. /\ at' = at /\ seg' = seg /\ obj'[p] = o /\ at[p] = "idle"
      /\ \A q \in Objects : q # p => obj'[q] = obj[q]
  BY <1>0 DEF Outside, SegmentInv, Inside
<1>2. Opened' = Opened /\ p \notin Opened
  BY <1>1 DEF Outside, Opened
<1>3. \A q \in Objects : HasView(q)' <=> HasView(q)
  BY <1>1 DEF Outside, HasView, SegmentInv, Viewed
<1>4. TypeOK'
  <2>1. seg' \in SegmentType /\ obj' \in [Objects -> ObjectType] /\ at' \in [Objects -> Points]
    BY <1>0 DEF Outside
  <2> QED BY <2>1 DEF TypeOK, SegmentType, ObjectType, DataSizes, Points
<1>5. Inside' /\ Viewed' /\ Alone'
  BY <1>1, <1>2, <1>3 DEF SegmentInv, Inside, Viewed, Alone
<1>6. Whole' /\ Locked' /\ Exclusive'
  BY <1>1 DEF SegmentInv, Whole, Exists, Locked, Exclusive
<1>7. Sized'
  <2>1. \A q \in Opened : q # p /\ q \in Objects
    BY <1>2 DEF Opened
  <2> QED BY <1>1, <1>2, <2>1 DEF SegmentInv, Sized
<1>8. CountStands'
  BY <1>1 DEF SegmentInv, CountStands, Counting
<1>9. RefCountCounts'
  <2>1. Members' = Members
    BY <1>1, <1>3 DEF Members
  <2> QED BY <1>1, <2>1 DEF SegmentInv, RefCountCounts
<1>10. HandlesReturned'
  BY <1>1, <1>2 DEF SegmentInv, HandlesReturned, Opened
<1> QED BY <1>4, <1>5, <1>6, <1>7, <1>8, <1>9, <1>10 DEF SegmentInv

-----------------------------------------------------------------------------
(* p gets a handle, of the segment there is or of a new one: who creates   *)
(* it is alone, and who opens it finds it filled in.                       *)
Gets(p, to, g, o) ==
    /\ p \notin Opened /\ at[p] = "idle"
    /\ at' = [at EXCEPT ![p] = to] /\ to \in Unmapped
    /\ obj' = [obj EXCEPT ![p] = o] /\ o.handle = "open" /\ ~(o.mapped > 0)
    /\ seg' = g /\ g.handles = seg.handles + 1
    /\ g.lock = seg.lock /\ g.refCount = seg.refCount /\ g.lost = seg.lost
    /\ \/ /\ to = "initialise" /\ Opened = {}
          /\ o.size \in Sizes /\ o.size = g.bytes
       \/ /\ to = "lock" /\ \A q \in Objects : at[q] \notin Creating
          /\ g.bytes = seg.bytes /\ g.dataSize = seg.dataSize
          /\ g.bytes \in Sizes /\ g.dataSize = g.bytes - HeaderBytes
          /\ ~o.reused => o.size = 0

(* So do create() of a name that is not in use ...                         *)
LEMMA CreateGets ==
  ASSUME Orderly, SegmentInv, NEW p \in Objects, CreateMapping(p)
  PROVE  \E to \in Points, g \in SegmentType, o \in ObjectType : Gets(p, to, g, o)
<1>0. seg \in SegmentType /\ obj \in [Objects -> ObjectType] /\ at \in [Objects -> Points]
  BY Typed DEF SegmentInv
<1>1. PICK size \in Sizes :
        /\ obj' = [obj EXCEPT ![p] = [obj[p] EXCEPT !.handle = "open", !.size = size]]
        /\ seg' = [seg EXCEPT !.handles = @ + 1, !.bytes = IF Exists THEN @ ELSE size]
  BY DEF CreateMapping, SetObj
<1> DEFINE o == [obj[p] EXCEPT !.handle = "open", !.size = size]
           g == [seg EXCEPT !.handles = @ + 1, !.bytes = size]
<1>2. ~Exists /\ at[p] = "idle" /\ at' = [at EXCEPT ![p] = "initialise"] /\ p \notin Opened
  BY DEF CreateMapping, Move, Opened
<1>3. ~(obj[p].mapped > 0)
  BY <1>2 DEF SegmentInv, Viewed, HasView
<1>4. Opened = {}
  <2>1. seg.handles \in Nat /\ seg.handles = 0
    BY <1>0, <1>2 DEF Exists, SegmentType
  <2>2. Cardinality(Opened) = 0 /\ IsFiniteSet(Opened)
    <3>1. Opened \subseteq Objects
      BY DEF Opened
    <3> QED BY <2>1, <3>1, Countable DEF SegmentInv, HandlesReturned, Opened
  <2> QED BY <2>2, FS_EmptySet
<1>5. o \in ObjectType /\ o.handle = "open" /\ ~(o.mapped > 0) /\ o.size = size
  BY <1>0, <1>3 DEF ObjectType
<1>6. seg' = g
  <2>1. (IF Exists THEN seg.bytes ELSE size) = size
    BY <1>2
  <2> QED BY <1>1, <2>1
<1>7. g \in SegmentType
  <2>1. size \in {0} \cup Sizes /\ seg.handles + 1 \in Nat
    BY <1>0 DEF SegmentType
  <2> QED BY <1>0, <2>1, SizeFacts DEF SegmentType, DataSizes
<1>8. /\ g.handles = seg.handles + 1 /\ g.bytes = size
      /\ g.lock = seg.lock /\ g.refCount = seg.refCount /\ g.lost = seg.lost
  BY <1>0 DEF SegmentType
<1>9. "initialise" \in Points /\ "initialise" \in Unmapped
  BY DEF Points, Unmapped
<1> HIDE DEF g
<1>10. obj' = [obj EXCEPT ![p] = o]
  BY <1>1
<1> HIDE DEF o
<1>11. Gets(p, "initialise", g, o)
  BY <1>2, <1>4, <1>5, <1>6, <1>8, <1>9, <1>10 DEF Gets
<1> QED BY <1>5, <1>7, <1>9, <1>11

(* ... and open() of a segment that is not being created.                  *)
LEMMA OpenGets ==
  ASSUME Orderly, SegmentInv, NEW p \in Objects, OpenMapping(p)
  PROVE  \E to \in Points, g \in SegmentType, o \in ObjectType : Gets(p, to, g, o)
<1> DEFINE o == [obj[p] EXCEPT !.handle = "open", !.reused = getSize(p) > 0]
           g == [seg EXCEPT !.handles = @ + 1]
<1>0. seg \in SegmentType /\ obj \in [Objects -> ObjectType] /\ at \in [Objects -> Points]
  BY Typed DEF SegmentInv
<1>1. /\ at[p] = "idle" /\ at' = [at EXCEPT ![p] = "lock"] /\ p \notin Opened
      /\ obj' = [obj EXCEPT ![p] = o] /\ seg' = g
  BY DEF OpenMapping, Move, SetObj, Opened
<1>2. Exists /\ \A q \in Objects : at[q] \notin Creating
  BY DEF OpenMapping, BeingCreated, Creating
<1>3. ~(obj[p].mapped > 0)
  BY <1>1 DEF SegmentInv, Viewed, HasView
<1>4. seg.bytes \in Sizes /\ seg.dataSize = seg.bytes - HeaderBytes
  <2>1. Filling \subseteq Creating
    BY DEF Filling, Creating
  <2> QED BY <1>2, <2>1 DEF SegmentInv, Whole
<1>5. obj[p].size \in Nat /\ (obj[p].size > 0) \in BOOLEAN
  BY <1>0, SizeFacts DEF ObjectType
<1>6. o \in ObjectType /\ o.handle = "open" /\ ~(o.mapped > 0)
  BY <1>0, <1>3, <1>5 DEF ObjectType, getSize
<1>7. ~o.reused => o.size = 0
  <2>1. o.size = obj[p].size /\ (o.reused <=> obj[p].size > 0)
    BY <1>0 DEF ObjectType, getSize
  <2> HIDE DEF o
  <2> QED BY <1>5, <2>1
<1>8. /\ g \in SegmentType /\ g.handles = seg.handles + 1 /\ g.bytes = seg.bytes
      /\ g.dataSize = seg.dataSize
      /\ g.lock = seg.lock /\ g.refCount = seg.refCount /\ g.lost = seg.lost
  BY <1>0 DEF SegmentType
<1>9. "lock" \in Points /\ "lock" \in Unmapped
  BY DEF Points, Unmapped
<1> HIDE DEF o, g
<1>10. Gets(p, "lock", g, o)
  BY <1>1, <1>2, <1>4, <1>6, <1>7, <1>8, <1>9 DEF Gets
<1> QED BY <1>6, <1>8, <1>9, <1>10

(* Getting a handle keeps the invariant.                                   *)
LEMMA GetKeeps ==
  ASSUME SegmentInv, NEW p \in Objects, NEW to \in Points, NEW g \in SegmentType,
         NEW o \in ObjectType, Gets(p, to, g, o)
  PROVE  SegmentInv'
<1>0. seg \in SegmentType /\ obj \in [Objects -> ObjectType] /\ at \in [Objects -> Points]
  BY Typed DEF SegmentInv
<1>1. /\ at'[p] = to /\ obj'[p] = o /\ seg' = g /\ at[p] = "idle" /\ to \in Unmapped
      /\ \A q \in Objects : q # p => at'[q] = at[q] /\ obj'[q] = obj[q]
  BY <1>0 DEF Gets
<1>2. Opened' = Opened \cup {p} /\ p \notin Opened
  BY <1>1 DEF Gets, Opened
<1>3. TypeOK'
  <2>1. seg' \in SegmentType /\ obj' \in [Objects -> ObjectType] /\ at' \in [Objects -> Points]
    BY <1>0 DEF Gets
  <2> QED BY <2>1 DEF TypeOK, SegmentType, ObjectType, DataSizes, Points
<1>4. Inside'
  BY <1>1, <1>2 DEF SegmentInv, Inside
<1>5. \A q \in Objects : HasView(q)' <=> HasView(q)
  BY <1>1, <1>2 DEF Gets, HasView, SegmentInv, Viewed
<1>6. Viewed'
  BY <1>1, <1>2, <1>5 DEF SegmentInv, Viewed
<1>7. Alone'
  <2>1. CASE Opened = {}
    BY <1>1, <1>2, <1>4, <2>1 DEF Alone, Inside, Creating
  <2>2. CASE to = "lock" /\ \A q \in Objects : at[q] \notin Creating
    BY <1>1, <2>2 DEF Alone, Creating
  <2> QED BY <2>1, <2>2 DEF Gets
<1>8. Whole'
  <2>1. CASE to = "initialise"
    BY <1>1, <2>1 DEF Whole, Filling
  <2>2. CASE g.bytes \in Sizes /\ g.dataSize = g.bytes - HeaderBytes
    BY <1>1, <2>2 DEF Whole
  <2> QED BY <2>1, <2>2 DEF Gets
<1>9. Sized'
  <2>1. CASE to = "initialise" /\ Opened = {} /\ o.size \in Sizes /\ o.size = g.bytes
    BY <1>1, <1>2, <2>1 DEF Sized, Unmapped
  <2>2. CASE to = "lock" /\ g.bytes = seg.bytes /\ (~o.reused => o.size = 0)
    <3>1. \A q \in Opened : q # p /\ q \in Objects
      BY <1>2 DEF Opened
    <3>2. to \notin Creating
      BY <2>2 DEF Creating
    <3> QED BY <1>1, <1>2, <2>2, <3>1, <3>2 DEF SegmentInv, Sized
  <2> QED BY <2>1, <2>2 DEF Gets
<1>10. to \notin Holding \cup Counting \cup Counted /\ "idle" \notin Holding \cup Counting
  BY <1>1 DEF Holding, Counting, Counted, Unmapped
<1>11. Locked' /\ Exclusive'
  <2>1. g.lock = seg.lock
    BY DEF Gets
  <2> QED BY <1>1, <1>10, <2>1 DEF SegmentInv, Locked, Exclusive
<1>12. CountStands'
  <2>1. g.refCount = seg.refCount
    BY DEF Gets
  <2> QED BY <1>1, <1>10, <2>1 DEF SegmentInv, CountStands
<1>13. RefCountCounts'
  <2>1. Members' = Members
    <3>1. ~HasView(p)
      BY <1>2 DEF SegmentInv, Viewed
    <3> QED BY <1>1, <1>5, <3>1 DEF Members
  <2>2. g.refCount = seg.refCount /\ g.lost = seg.lost
    BY DEF Gets
  <2> QED BY <1>1, <2>1, <2>2 DEF SegmentInv, RefCountCounts
<1>14. HandlesReturned'
  <2>1. Opened \subseteq Objects
    BY DEF Opened
  <2>2. Cardinality(Opened') = Cardinality(Opened) + 1
    BY <1>2, <2>1, OneMore
  <2>3. seg.handles = Cardinality(Opened) /\ g.handles = seg.handles + 1
    BY DEF SegmentInv, HandlesReturned, Opened, Gets
  <2> QED BY <1>1, <2>2, <2>3 DEF HandlesReturned, Opened
<1> QED BY <1>3, <1>4, <1>6, <1>7, <1>8, <1>9, <1>11, <1>12, <1>13, <1>14 DEF SegmentInv

-----------------------------------------------------------------------------
(* The whole of Next.                                                      *)

(* A stuttering step keeps the invariant.                                  *)
LEMMA NothingKeeps ==
  ASSUME SegmentInv, UNCHANGED windowsVars
  PROVE  SegmentInv'
<1>1. seg' = seg /\ obj' = obj /\ at' = at
  BY DEF windowsVars
<1>2. Opened' = Opened /\ Members' = Members /\ \A q \in Objects : HasView(q)' <=> HasView(q)
  BY <1>1 DEF Opened, Members, HasView
<1>3. TypeOK' /\ HandlesReturned' /\ RefCountCounts'
  BY <1>1, <1>2 DEF SegmentInv, TypeOK, HandlesReturned, RefCountCounts
<1>4. Inside' /\ Viewed' /\ Alone' /\ Sized'
  BY <1>1, <1>2 DEF SegmentInv, Inside, Viewed, Alone, Sized
<1>5. Whole' /\ Locked' /\ Exclusive' /\ CountStands'
  BY <1>1 DEF SegmentInv, Whole, Exists, Locked, Exclusive, CountStands
<1> QED BY <1>3, <1>4, <1>5 DEF SegmentInv

(* The initial state has no segment and nobody in a call.                  *)
LEMMA InitInv == Init => SegmentInv
<1> SUFFICES ASSUME Init PROVE SegmentInv
  OBVIOUS
<1>1. /\ seg = NoSegment /\ NoSegment \in SegmentType
      /\ NewObject \in ObjectType /\ "idle" \in Points
  BY DEF Init, NoSegment, NewObject, SegmentType, ObjectType, DataSizes, Points, Counted
<1>2. /\ obj \in [Objects -> ObjectType] /\ at \in [Objects -> Points]
      /\ \A p \in Objects : at[p] = "idle" /\ obj[p] = NewObject
  BY <1>1 DEF Init
<1>3. TypeOK
  BY <1>1, <1>2, Typed
<1>4. Opened = {} /\ Members = {} /\ \A p \in Objects : ~HasView(p)
  BY <1>2 DEF Opened, Members, HasView, NewObject
<1>5. Inside /\ Viewed /\ Alone /\ Sized
  BY <1>2, <1>4 DEF Inside, Viewed, Alone, Sized, Creating
<1>6. Locked /\ Exclusive /\ CountStands
  BY <1>2 DEF Locked, Exclusive, CountStands, Holding, Counting
<1>7. Whole
  BY <1>1 DEF Whole, Exists, NoSegment
<1>8. RefCountCounts /\ HandlesReturned
  <2>1. Cardinality(Opened) = 0 /\ Cardinality(Members) = 0
    BY <1>4, FS_EmptySet
  <2> QED BY <1>1, <2>1 DEF RefCountCounts, HandlesReturned, Opened, NoSegment
<1> QED BY <1>3, <1>5, <1>6, <1>7, <1>8 DEF SegmentInv

(* Every step keeps the invariant.                                         *)
LEMMA NextKeeps ==
  ASSUME Orderly, SegmentInv, [Next]_windowsVars
  PROVE  SegmentInv'
<1>1. CASE UNCHANGED windowsVars
  BY <1>1, NothingKeeps
<1>2. ASSUME NEW p \in Objects, Begin(p) \/ Advance(p) \/ MapFails(p) \/ Kill(p)
      PROVE  SegmentInv'
  <2>1. CASE Advance(p) /\ ~Unmap(p)
    BY <2>1, AdvanceOwn, OwnKeeps
  <2>2. CASE Close(p) \/ CloseAll(p)
    BY <2>2, CloseOwn, OwnKeeps
  <2>3. CASE Unmap(p) \/ MapFails(p)
    BY <2>3, CloseDrops, DropKeeps
  <2>4. CASE Dies(p) /\ p \in Opened
    BY <2>4, DeathDrops, DropKeeps
  <2>5. CASE CreateFails(p) \/ (Dies(p) /\ p \notin Opened)
    BY <2>5, OutsideSteps, OutsideKeeps
  <2>6. CASE CreateMapping(p)
    BY <2>6, CreateGets, GetKeeps
  <2>7. CASE OpenMapping(p)
    BY <2>7, OpenGets, GetKeeps
  <2>8. CASE Refused(p) \/ OpenMissing(p)
    BY <2>8, NothingKeeps DEF Refused, OpenMissing
  <2> QED BY <1>2, <2>1, <2>2, <2>3, <2>4, <2>5, <2>6, <2>7, <2>8 DEF Begin, Create, Open,
     CloseNothing, Kill
<1> QED BY <1>1, <1>2 DEF Next

(* The inductive invariant holds, when nobody creates a name in use or     *)
(* opens one that is being created.                                        *)
THEOREM SegmentCorrect == ASSUME Orderly PROVE Spec => []SegmentInv
<1>1. Init => SegmentInv
  BY InitInv
<1>2. SegmentInv /\ [Next]_windowsVars => SegmentInv'
  BY NextKeeps
<1> QED BY <1>1, <1>2, PTL DEF Spec

(* Every variable keeps its type: what open() reads is a size somebody     *)
(* asked for (windows-shared-memory.cpp:109).                              *)
THEOREM SegmentTypeCorrect == ASSUME Orderly PROVE Spec => []TypeOK
<1>1. SegmentInv => TypeOK
  BY DEF SegmentInv
<1> QED BY <1>1, SegmentCorrect, PTL

(* No update of the reference count is lost (windows-shared-memory.cpp:108 *)
(* and :122), though it is read in one step and written in another.        *)
THEOREM ReferencesCorrect == ASSUME Orderly PROVE Spec => []RefCountCounts
<1>1. SegmentInv => RefCountCounts
  BY DEF SegmentInv
<1> QED BY <1>1, SegmentCorrect, PTL

(* The segment goes when nobody uses it any more, through every failure    *)
(* (windows-shared-memory.cpp:55, :97, :136).                              *)
THEOREM HandlesCorrect == ASSUME Orderly PROVE Spec => []HandlesReturned
<1>1. SegmentInv => HandlesReturned
  BY DEF SegmentInv
<1> QED BY <1>1, SegmentCorrect, PTL

(* open() gives the size of the segment (windows-shared-memory.cpp:111)    *)
(* and, to an object that was not used before, a view of all of it.        *)
THEOREM OpenedCorrect == ASSUME Orderly PROVE Spec => []OpenedWhole
<1>1. SegmentInv => OpenedWhole
  BY DEF SegmentInv, OpenedWhole, Sized, Viewed, Unmapped, getSize
<1> QED BY <1>1, SegmentCorrect, PTL

=============================================================================

------------------------ MODULE SharedMemoryPipe_proofs ------------------------
(***************************************************************************)
(* Proofs about pipes for any number of clients, any sizes and any room a  *)
(* packet takes, whatever fails and whoever is killed, one client at a     *)
(* time: segments are counted and found in pairs, rings stay consistent,   *)
(* and each end reads what the other one wrote.                            *)
(***************************************************************************)
EXTENDS SharedMemoryPipe, FiniteSetTheorems, TLAPS

SegmentType ==
    [bytes : {0} \cup Sizes, size : {0} \cup Sizes, refCount : Nat,
     forgotBy : SUBSET Processes, lost : 0 .. MaxLost,
     freeSpace : Nat, messageCount : Nat, packets : Seq(Packets)]
Points == Idle \cup HoldsBoth \cup {"second", "closeRx"}

(* The steps of making a pipe, and the rings a process has attached to.    *)
Making == {"second", "attachRx", "attachTx"}
AttachedTo(p, n) == at[p] = "ready" \/ (at[p] = "attachTx" /\ n = RxName(p))

(* A segment that somebody holds is there.                                 *)
HeldExist == \A p \in Processes, n \in Names : Holds(p, n) => segs[n].bytes > 0

(* The ring's header agrees with the packets in it, from the moment on at  *)
(* which an end has attached to it.                                        *)
MessagesCounted == \A n \in Names : segs[n].messageCount = Len(segs[n].packets)
Agrees(n) == segs[n].freeSpace + PacketRoom * Len(segs[n].packets) = segs[n].size - RingHeader
Accounted == \A p \in Processes, n \in Names : AttachedTo(p, n) => Agrees(n)

(* While a pipe is being made there are no packets, and while a client     *)
(* makes its own, nothing has been written or read that it could miss.     *)
Quiet == \A p \in Processes : at[p] \in Making => RingsEmpty
Unheard ==
    \A c \in Clients, p \in Processes : at[c] \in Making => wrote[p] = << >> /\ got[p] = << >>

(* One client has a pipe at a time.                                        *)
OneClient == \A c, d \in Clients, n, m \in Names : Holds(c, n) /\ Holds(d, m) => c = d

PipeInv ==
    /\ TypeOK /\ HeldExist /\ RefCounts
    /\ MessagesCounted /\ Accounted /\ Quiet
    /\ Unheard /\ OneClient /\ Delivered

-----------------------------------------------------------------------------
(* Names, types and numbers.                                               *)

(* The parts of TypeOK.                                                    *)
LEMMA Typed ==
  TypeOK <=> /\ segs \in [Names -> SegmentType] /\ at \in [Processes -> Points]
             /\ wrote \in [Processes -> Seq(Packets)] /\ got \in [Processes -> Seq(Packets)]
BY DEF TypeOK, SegmentType, Points

(* The two segments of an end are the two there are.                       *)
LEMMA NameFacts ==
  ASSUME NEW p \in Processes
  PROVE  /\ RxName(p) \in Names /\ TxName(p) \in Names /\ RxName(p) # TxName(p)
         /\ \A n \in Names : n = RxName(p) \/ n = TxName(p)
         /\ FirstName(p) = RxName(p) /\ SecondName(p) = TxName(p)
<1>1. RxName(p) \in {"rx", "tx"}
  BY DEF RxName
<1>2. \A x \in Names : \E n \in Names : n # x
  BY DEF Names
<1>3. TxName(p) \in Names /\ TxName(p) # RxName(p)
  BY <1>1, <1>2 DEF TxName, Names
<1>4. FirstName(p) = RxName(p) /\ SecondName(p) = TxName(p)
  BY DEF FirstName, SecondName, TxName
<1> QED BY <1>1, <1>3, <1>4 DEF Names

(* The two ends of a pipe have them crossed.                               *)
LEMMA Crossed ==
  ASSUME NEW c \in Clients
  PROVE  /\ c \in Processes /\ c # Server /\ Server \in Processes
         /\ RxName(c) = TxName(Server) /\ TxName(c) = RxName(Server)
<1>1. c \in Processes /\ c # Server /\ Server \in Processes
  BY PipeAssumption DEF Processes
<1>2. RxName(Server) = "rx" /\ RxName(c) = "tx"
  BY <1>1 DEF RxName
<1> QED BY <1>1, <1>2, NameFacts DEF Names

(* What the constants are.                                                 *)
LEMMA Constant ==
  /\ DataOffset \in Nat /\ RingHeader \in Nat /\ MaxRing \in Nat /\ PacketRoom \in Nat
  /\ PacketRoom > 0 /\ MaxLost \in Nat /\ MaxWrites \in Nat
  /\ \A s \in Sizes : s \in Nat /\ s > 0
BY PipeAssumption

(* The holders of a segment can be counted; one more, or one less.         *)
LEMMA HolderCount ==
  ASSUME NEW S, S \subseteq Processes, NEW p \in Processes
  PROVE  /\ Cardinality(S) \in Nat
         /\ Cardinality(S \cup {p}) = (IF p \in S THEN Cardinality(S) ELSE Cardinality(S) + 1)
         /\ Cardinality(S \ {p}) = (IF p \in S THEN Cardinality(S) - 1 ELSE Cardinality(S))
         /\ p \in S => Cardinality(S) > 0
<1>1. IsFiniteSet(Processes)
  BY PipeAssumption, FS_Singleton, FS_Union DEF Processes
<1>2. IsFiniteSet(S) /\ IsFiniteSet(S \ {p})
  BY <1>1, FS_Subset
<1>3. Cardinality(S) \in Nat /\ Cardinality(S \ {p}) \in Nat
  BY <1>2, FS_CardinalityType
<1>4. Cardinality(S \cup {p}) = (IF p \in S THEN Cardinality(S) ELSE Cardinality(S) + 1)
  BY <1>2, FS_AddElement
<1>5. Cardinality(S \ {p}) = (IF p \in S THEN Cardinality(S) - 1 ELSE Cardinality(S))
  BY <1>2, FS_RemoveElement
<1> QED BY <1>3, <1>4, <1>5

(* A packet that is read moves from the front of what waits to the end of  *)
(* what was read; one that is written goes behind both.                    *)
LEMMA MoveOne ==
  ASSUME NEW S, NEW s \in Seq(S), NEW t \in Seq(S), t # << >>
  PROVE  Append(s, Head(t)) \o Tail(t) = s \o t
OBVIOUS

LEMMA AddOne ==
  ASSUME NEW S, NEW s \in Seq(S), NEW t \in Seq(S), NEW e \in S
  PROVE  s \o Append(t, e) = Append(s \o t, e)
OBVIOUS

(* A process with both rings, or in the making of them, holds segments.    *)
LEMMA Grip ==
  ASSUME NEW p \in Processes, NEW n \in Names
  PROVE  /\ AttachedTo(p, n) => Holds(p, n)
         /\ at[p] \in Making => Holds(p, FirstName(p)) /\ FirstName(p) \in Names
         /\ at[p] = "ready" => Holds(p, n)
BY NameFacts DEF AttachedTo, Holds, HoldsBoth, Making

-----------------------------------------------------------------------------
(* A process gets a segment, the first or the second of its pipe.          *)
Takes(p, n, g, to) ==
    /\ at' = [at EXCEPT ![p] = to] /\ to \in {"second", "attachRx"}
    /\ segs' = [segs EXCEPT ![n] = g]
    /\ g.bytes > 0 /\ g.packets = segs[n].packets
    /\ g.freeSpace = segs[n].freeSpace /\ g.messageCount = segs[n].messageCount
    /\ g.size = segs[n].size \/ Holders(n) = {}
    /\ g.refCount = Cardinality(Holders(n)) + 1 + g.lost
    /\ RingsEmpty
    /\ ~Holds(p, n) /\ \A m \in Names : Holds(p, m)' <=> Holds(p, m) \/ m = n
    /\ \/ at[p] = "second" /\ Keep
       \/ p = Server /\ Fresh({Server}) /\ \A m \in Names : Holders(m) = {}
       \/ p \in Clients /\ Fresh(Processes) /\ \A m \in Names : Holders(m) \subseteq {Server}

(* Getting a segment keeps the invariant.                                  *)
LEMMA TakeKeeps ==
  ASSUME PipeInv, NEW p \in Processes, NEW n \in Names, NEW g \in SegmentType, NEW to \in Points,
         Takes(p, n, g, to)
  PROVE  PipeInv'
<1>0. /\ segs \in [Names -> SegmentType] /\ at \in [Processes -> Points]
      /\ wrote \in [Processes -> Seq(Packets)] /\ got \in [Processes -> Seq(Packets)]
  BY Typed DEF PipeInv
<1>1. /\ at'[p] = to /\ segs'[n] = g
      /\ \A q \in Processes : q # p => at'[q] = at[q]
      /\ \A m \in Names : m # n => segs'[m] = segs[m]
  BY <1>0 DEF Takes
<1>2. /\ \A q \in Processes, m \in Names : q # p => (Holds(q, m)' <=> Holds(q, m))
      /\ \A m \in Names : Holds(p, m)' <=> Holds(p, m) \/ m = n
      /\ ~Holds(p, n)
  BY <1>1 DEF Takes, Holds
<1>3. TypeOK'
  <2>1. segs' \in [Names -> SegmentType] /\ at' \in [Processes -> Points]
    BY <1>0 DEF Takes
  <2>2. wrote' \in [Processes -> Seq(Packets)] /\ got' \in [Processes -> Seq(Packets)]
    <3>1. << >> \in Seq(Packets)
      OBVIOUS
    <3>2. ASSUME NEW ps, Fresh(ps)
          PROVE  wrote' \in [Processes -> Seq(Packets)] /\ got' \in [Processes -> Seq(Packets)]
      BY <1>0, <3>1, <3>2, Zenon DEF Fresh
    <3> QED BY <1>0, <3>2, Zenon DEF Takes, Keep
  <2> QED BY <2>1, <2>2 DEF TypeOK, SegmentType, Points
<1>4. HeldExist'
  BY <1>1, <1>2 DEF PipeInv, HeldExist, Takes
<1>5. RefCounts'
  <2>1. ASSUME NEW m \in Names, m # n
        PROVE  segs'[m].refCount = Cardinality(Holders(m)') + segs'[m].lost
    <3>1. Holders(m)' = Holders(m)
      BY <1>2, <2>1 DEF Holders
    <3> QED BY <1>1, <2>1, <3>1 DEF PipeInv, RefCounts
  <2>2. Holders(n)' = Holders(n) \cup {p} /\ p \notin Holders(n) /\ Holders(n) \subseteq Processes
    BY <1>2 DEF Holders
  <2>3. Cardinality(Holders(n)') = Cardinality(Holders(n)) + 1 /\ Cardinality(Holders(n)) \in Nat
    BY <2>2, HolderCount
  <2>4. g.lost \in Nat /\ g.refCount = Cardinality(Holders(n)) + 1 + g.lost
    BY Constant DEF Takes, SegmentType
  <2> QED BY <1>1, <2>1, <2>3, <2>4 DEF RefCounts
<1>6. MessagesCounted'
  BY <1>1 DEF PipeInv, MessagesCounted, Takes
<1>7. Accounted'
  <2>1. ASSUME NEW q \in Processes, NEW m \in Names, AttachedTo(q, m)'
        PROVE  Agrees(m)'
    <3>1. q # p
      BY <1>1, <2>1 DEF AttachedTo, Takes
    <3>2. AttachedTo(q, m) /\ Holds(q, m)
      BY <1>1, <2>1, <3>1, Grip DEF AttachedTo
    <3>3. segs'[m].size = segs[m].size
      BY <1>1, <3>2 DEF Takes, Holders
    <3>4. segs'[m].freeSpace = segs[m].freeSpace /\ segs'[m].packets = segs[m].packets
      BY <1>1 DEF Takes
    <3> QED BY <3>2, <3>3, <3>4 DEF PipeInv, Accounted, Agrees
  <2> QED BY <2>1 DEF Accounted
<1>8. Quiet'
  BY <1>1 DEF Quiet, Takes, RingsEmpty
<1>9. Unheard'
  <2>1. CASE at[p] = "second" /\ Keep
    BY <1>1, <2>1 DEF PipeInv, Unheard, Making, Keep, Takes
  <2>2. CASE p = Server /\ Fresh({Server})
    BY <1>1, <2>2, Crossed DEF PipeInv, Unheard, Fresh
  <2>3. CASE Fresh(Processes)
    BY <2>3 DEF Unheard, Fresh
  <2> QED BY <2>1, <2>2, <2>3 DEF Takes
<1>10. OneClient'
  <2>1. CASE at[p] = "second"
    <3>1. Holds(p, FirstName(p)) /\ FirstName(p) \in Names
      BY <2>1, Grip DEF Making
    <3> QED BY <1>2, <3>1, Crossed DEF PipeInv, OneClient
  <2>2. CASE p = Server
    BY <1>2, <2>2, Crossed DEF PipeInv, OneClient
  <2>3. CASE \A m \in Names : Holders(m) \subseteq {Server}
    <3>1. \A c \in Clients, m \in Names : ~Holds(c, m)
      BY <2>3, Crossed DEF Holders
    <3> QED BY <1>2, <3>1, Crossed DEF OneClient
  <2> QED BY <2>1, <2>2, <2>3 DEF Takes
<1>11. Delivered'
  <2>1. ASSUME NEW c \in Clients, at'[c] = "ready"
        PROVE  /\ (got[c] \o segs[TxName(Server)].packets = wrote[Server])'
               /\ (got[Server] \o segs[RxName(Server)].packets = wrote[c])'
    <3>1. c # p /\ at[c] = "ready" /\ c \in Processes /\ c # Server
      BY <1>1, <2>1, Crossed DEF Takes
    <3>2. Holds(c, n) /\ c \in Holders(n)
      BY <3>1, Grip DEF Holders
    <3>3. wrote' = wrote /\ got' = got
      BY <3>1, <3>2 DEF Takes, Keep
    <3>4. \A m \in Names : segs'[m].packets = segs[m].packets
      BY <1>1 DEF Takes
    <3> QED BY <3>1, <3>3, <3>4, Crossed, NameFacts DEF PipeInv, Delivered
  <2> QED BY <2>1 DEF Delivered
<1> QED BY <1>3, <1>4, <1>5, <1>6, <1>7, <1>8, <1>9, <1>10, <1>11 DEF PipeInv

-----------------------------------------------------------------------------
(* A process builds the ring of one of its segments.                       *)
Attaches(p, n) ==
    /\ RingAccepts(segs[n].size) /\ Attach(n) /\ Keep
    /\ \/ at[p] = "attachRx" /\ n = RxName(p) /\ at' = [at EXCEPT ![p] = "attachTx"]
       \/ at[p] = "attachTx" /\ n = TxName(p) /\ at' = [at EXCEPT ![p] = "ready"]

(* Attaching to a ring keeps the invariant: nothing is in it.              *)
LEMMA AttachKeeps ==
  ASSUME PipeInv, NEW p \in Processes, NEW n \in Names, Attaches(p, n)
  PROVE  PipeInv'
<1>0. /\ segs \in [Names -> SegmentType] /\ at \in [Processes -> Points]
      /\ wrote \in [Processes -> Seq(Packets)] /\ got \in [Processes -> Seq(Packets)]
  BY Typed DEF PipeInv
<1> DEFINE g == [segs[n] EXCEPT !.freeSpace = segs[n].size - RingHeader]
<1>1. segs[n].size - RingHeader \in Nat
  <2>1. segs[n].size \in Nat
    BY <1>0, Constant DEF SegmentType
  <2> QED BY <2>1, Constant DEF Attaches, RingAccepts
<1>2. /\ g \in SegmentType /\ g.freeSpace = segs[n].size - RingHeader
      /\ g.bytes = segs[n].bytes /\ g.size = segs[n].size /\ g.refCount = segs[n].refCount
      /\ g.lost = segs[n].lost /\ g.messageCount = segs[n].messageCount
      /\ g.packets = segs[n].packets
  BY <1>0, <1>1 DEF SegmentType
<1>3. segs' = [segs EXCEPT ![n] = g]
  BY <1>0 DEF Attaches, Attach, DataSize, getMemoryBlockSize
<1> HIDE DEF g
<1>4. /\ segs'[n] = g /\ wrote' = wrote /\ got' = got
      /\ \A m \in Names : m # n => segs'[m] = segs[m]
      /\ \A q \in Processes : q # p => at'[q] = at[q]
      /\ \/ at[p] = "attachRx" /\ n = RxName(p) /\ at'[p] = "attachTx"
         \/ at[p] = "attachTx" /\ n = TxName(p) /\ at'[p] = "ready"
  BY <1>0, <1>3 DEF Attaches, Keep
<1>5. \A q \in Processes, m \in Names : Holds(q, m)' <=> Holds(q, m)
  BY <1>4 DEF Holds, HoldsBoth
<1>6. \A m \in Names : segs[m].packets = << >> /\ segs'[m].packets = << >>
  BY <1>2, <1>4 DEF PipeInv, Quiet, Making, RingsEmpty
<1>7. TypeOK'
  <2>1. segs' \in [Names -> SegmentType]
    BY <1>0, <1>2, <1>3
  <2>2. at' \in [Processes -> Points]
    BY <1>0 DEF Attaches, Points, HoldsBoth
  <2> QED BY <1>0, <1>4, <2>1, <2>2 DEF TypeOK, SegmentType, Points
<1>8. HeldExist'
  BY <1>2, <1>4, <1>5 DEF PipeInv, HeldExist
<1>9. RefCounts'
  <2>1. \A m \in Names : Holders(m)' = Holders(m)
    BY <1>5 DEF Holders
  <2> QED BY <1>2, <1>4, <2>1 DEF PipeInv, RefCounts
<1>10. MessagesCounted'
  BY <1>2, <1>4 DEF PipeInv, MessagesCounted
<1>11. Accounted'
  <2>1. ASSUME NEW q \in Processes, NEW m \in Names, AttachedTo(q, m)'
        PROVE  Agrees(m)'
    <3>1. CASE m = n
      <4>1. PacketRoom * Len(segs'[m].packets) = 0
        <5>1. Len(segs'[m].packets) = 0
          BY <1>6
        <5> QED BY <5>1, Constant
      <4> QED BY <1>1, <1>2, <1>4, <3>1, <4>1, Constant DEF Agrees
    <3>2. CASE m # n
      <4>1. AttachedTo(q, m)
        BY <1>4, <2>1, <3>2, NameFacts DEF AttachedTo
      <4> QED BY <1>4, <3>2, <4>1 DEF PipeInv, Accounted, Agrees
    <3> QED BY <3>1, <3>2
  <2> QED BY <2>1 DEF Accounted
<1>12. Quiet'
  BY <1>6, Zenon DEF Quiet, RingsEmpty
<1>13. Unheard'
  <2>1. \A c \in Clients : at'[c] \in Making => at[c] \in Making
    BY <1>4, Crossed DEF Making
  <2>2. \A c \in Clients, q \in Processes : at[c] \in Making => wrote[q] = << >> /\ got[q] = << >>
    BY DEF PipeInv, Unheard
  <2>3. wrote' = wrote /\ got' = got
    BY <1>4
  <2> QED BY <2>1, <2>2, <2>3, Zenon DEF Unheard
<1>14. OneClient'
  BY <1>5, Crossed DEF PipeInv, OneClient
<1>15. Delivered'
  <2>1. ASSUME NEW c \in Clients, at'[c] = "ready"
        PROVE  /\ (got[c] \o segs[TxName(Server)].packets = wrote[Server])'
               /\ (got[Server] \o segs[RxName(Server)].packets = wrote[c])'
    <3>1. CASE c = p
      <4>1. /\ got[c] = << >> /\ got[Server] = << >> /\ wrote[c] = << >> /\ wrote[Server] = << >>
        BY <1>4, <3>1, Crossed DEF PipeInv, Unheard, Making
      <4>2. << >> \o << >> = << >>
        OBVIOUS
      <4> QED BY <1>4, <1>6, <4>1, <4>2, Crossed, NameFacts
    <3>2. CASE c # p
      BY <1>4, <1>6, <2>1, <3>2, Crossed, NameFacts DEF PipeInv, Delivered
    <3> QED BY <3>1, <3>2
  <2> QED BY <2>1 DEF Delivered
<1> QED BY <1>7, <1>8, <1>9, <1>10, <1>11, <1>12, <1>13, <1>14, <1>15 DEF PipeInv

-----------------------------------------------------------------------------
(* A process lets go of one segment or of both: it gives the references    *)
(* back, or leaves them behind.                                            *)
Gone(p, n) == Holds(p, n) /\ ~Holds(p, n)'
LetsGo(p, f, to) ==
    /\ at' = [at EXCEPT ![p] = to] /\ to \in {"none", "threw", "closeRx"}
    /\ Settle(f) /\ Keep
    /\ f \in [Names -> SegmentType]
    /\ \A n \in Names :
         /\ f[n].bytes = segs[n].bytes /\ f[n].size = segs[n].size
         /\ f[n].freeSpace = segs[n].freeSpace
         /\ f[n].messageCount = segs[n].messageCount /\ f[n].packets = segs[n].packets
         /\ Holds(p, n)' => Holds(p, n)
         /\ f[n].refCount + segs[n].lost + (IF Gone(p, n) THEN 1 ELSE 0)
              = segs[n].refCount + f[n].lost

(* Letting go of segments keeps the invariant.                             *)
LEMMA LetGoKeeps ==
  ASSUME PipeInv, NEW p \in Processes, NEW f, NEW to, LetsGo(p, f, to)
  PROVE  PipeInv'
<1>0. /\ segs \in [Names -> SegmentType] /\ at \in [Processes -> Points]
      /\ wrote \in [Processes -> Seq(Packets)] /\ got \in [Processes -> Seq(Packets)]
      /\ f \in [Names -> SegmentType]
  BY Typed DEF PipeInv, LetsGo
<1>1. /\ at'[p] = to /\ wrote' = wrote /\ got' = got
      /\ \A q \in Processes : q # p => at'[q] = at[q]
      /\ \A n \in Names : segs'[n] = NoSegment \/ segs'[n] = f[n]
      /\ \A n \in Names : Holders(n)' # {} => segs'[n] = f[n]
  BY <1>0 DEF LetsGo, Settle, Keep
<1>2. /\ \A q \in Processes, n \in Names : q # p => (Holds(q, n)' <=> Holds(q, n))
      /\ \A q \in Processes, n \in Names : Holds(q, n)' => Holds(q, n)
      /\ \A q \in Processes, n \in Names : Holds(q, n)' => segs'[n] = f[n]
  <2>1. \A q \in Processes, n \in Names : q # p => (Holds(q, n)' <=> Holds(q, n))
    BY <1>1 DEF Holds
  <2>2. \A q \in Processes, n \in Names : Holds(q, n)' => segs'[n] = f[n]
    BY <1>1 DEF Holders
  <2> QED BY <2>1, <2>2 DEF LetsGo
<1>3. \A n \in Names : segs'[n].packets = << >> \/ segs'[n].packets = segs[n].packets
  BY <1>1 DEF LetsGo, NoSegment
<1>4. TypeOK'
  <2>1. NoSegment \in SegmentType
    <3>1. << >> \in Seq(Packets)
      OBVIOUS
    <3> QED BY <3>1, Constant DEF NoSegment, SegmentType
  <2>2. segs' \in [Names -> SegmentType]
    BY <1>0, <2>1 DEF LetsGo, Settle
  <2>3. at' \in [Processes -> Points]
    BY <1>0 DEF LetsGo, Points, Idle
  <2> QED BY <1>0, <1>1, <2>2, <2>3 DEF TypeOK, SegmentType, Points
<1>5. HeldExist'
  BY <1>2 DEF PipeInv, HeldExist, LetsGo
<1>6. RefCounts'
  <2>1. ASSUME NEW n \in Names
        PROVE  segs'[n].refCount = Cardinality(Holders(n)') + segs'[n].lost
    <3>1. CASE segs'[n] # f[n]
      <4>1. segs'[n] = NoSegment /\ Holders(n)' = {}
        BY <1>1, <3>1
      <4>2. Cardinality({}) = 0
        BY FS_EmptySet
      <4> QED BY <4>1, <4>2 DEF NoSegment
    <3>2. CASE segs'[n] = f[n]
      <4>1. /\ segs[n].refCount = Cardinality(Holders(n)) + segs[n].lost
            /\ f[n].refCount + segs[n].lost + (IF Gone(p, n) THEN 1 ELSE 0)
                 = segs[n].refCount + f[n].lost
            /\ segs[n].lost \in Nat /\ f[n].lost \in Nat
            /\ segs[n].refCount \in Nat /\ f[n].refCount \in Nat
        BY <1>0, Constant DEF PipeInv, RefCounts, LetsGo, SegmentType
      <4>2. CASE Gone(p, n)
        <5>1. Holders(n)' = Holders(n) \ {p} /\ p \in Holders(n) /\ Holders(n) \subseteq Processes
          BY <1>2, <4>2 DEF Holders, Gone
        <5>2. /\ Cardinality(Holders(n)') = Cardinality(Holders(n)) - 1
              /\ Cardinality(Holders(n)) \in Nat
          BY <5>1, HolderCount
        <5> QED BY <3>2, <4>1, <4>2, <5>2
      <4>3. CASE ~Gone(p, n)
        <5>1. Holders(n)' = Holders(n) /\ Holders(n) \subseteq Processes
          BY <1>2, <4>3 DEF Holders, Gone
        <5>2. Cardinality(Holders(n)) \in Nat
          BY <5>1, HolderCount
        <5> QED BY <3>2, <4>1, <4>3, <5>1, <5>2
      <4> QED BY <4>2, <4>3
    <3> QED BY <3>1, <3>2
  <2> QED BY <2>1 DEF RefCounts
<1>7. MessagesCounted'
  <2>1. Len(<< >>) = 0
    OBVIOUS
  <2> QED BY <1>1, <2>1 DEF PipeInv, MessagesCounted, LetsGo, NoSegment
<1>8. Accounted'
  <2>1. ASSUME NEW q \in Processes, NEW n \in Names, AttachedTo(q, n)'
        PROVE  Agrees(n)'
    <3>1. q # p
      BY <1>1, <2>1 DEF AttachedTo, LetsGo
    <3>2. AttachedTo(q, n) /\ Holds(q, n) /\ Holds(q, n)'
      BY <1>1, <1>2, <2>1, <3>1, Grip DEF AttachedTo
    <3>3. segs'[n] = f[n]
      BY <1>2, <3>2
    <3> QED BY <3>2, <3>3 DEF PipeInv, Accounted, Agrees, LetsGo
  <2> QED BY <2>1 DEF Accounted
<1>9. Quiet'
  <2>1. \A q \in Processes : at'[q] \in Making => at[q] \in Making
    BY <1>1 DEF LetsGo, Making
  <2>2. RingsEmpty => RingsEmpty'
    BY <1>3 DEF RingsEmpty
  <2> QED BY <2>1, <2>2 DEF PipeInv, Quiet
<1>10. Unheard'
  <2>1. \A c \in Clients : at'[c] \in Making => at[c] \in Making
    BY <1>1, Crossed DEF LetsGo, Making
  <2>2. \A c \in Clients, q \in Processes : at[c] \in Making => wrote[q] = << >> /\ got[q] = << >>
    BY DEF PipeInv, Unheard
  <2> QED BY <1>1, <2>1, <2>2, Zenon DEF Unheard
<1>11. OneClient'
  BY <1>2, Crossed DEF PipeInv, OneClient
<1>12. Delivered'
  <2>1. ASSUME NEW c \in Clients, at'[c] = "ready"
        PROVE  /\ (got[c] \o segs[TxName(Server)].packets = wrote[Server])'
               /\ (got[Server] \o segs[RxName(Server)].packets = wrote[c])'
    <3>1. c # p /\ at[c] = "ready" /\ c \in Processes
      BY <1>1, <2>1, Crossed DEF LetsGo
    <3>2. \A n \in Names : segs'[n].packets = segs[n].packets
      BY <1>2, <3>1, Grip DEF LetsGo
    <3> QED BY <1>1, <3>1, <3>2, Crossed, NameFacts DEF PipeInv, Delivered
  <2> QED BY <2>1 DEF Delivered
<1> QED BY <1>4, <1>5, <1>6, <1>7, <1>8, <1>9, <1>10, <1>11, <1>12 DEF PipeInv

-----------------------------------------------------------------------------
(* Packets.                                                                *)

(* When a packet is written, nobody is making a pipe: the server has its   *)
(* own, and so has the one client there is.                                *)
LEMMA NobodyMaking ==
  ASSUME PipeInv, BothReady
  PROVE  \A q \in Processes : at[q] \notin Making
<1>1. PICK c \in Clients : at[c] = "ready"
  BY DEF BothReady
<1>2. ASSUME NEW q \in Processes, at[q] \in Making
      PROVE  FALSE
  <2>1. q # Server
    BY <1>2 DEF BothReady, Making
  <2>2. q \in Clients
    BY <2>1 DEF Processes
  <2>3. Holds(q, FirstName(q)) /\ FirstName(q) \in Names
    BY <1>2, NameFacts DEF Making, Holds, HoldsBoth
  <2>4. Holds(c, FirstName(q))
    BY <1>1, <2>3, Crossed, Grip
  <2>5. q = c
    BY <2>2, <2>3, <2>4 DEF PipeInv, OneClient
  <2> QED BY <1>1, <1>2, <2>5 DEF Making
<1> QED BY <1>2

(* A client that is ready is the only one that is.                         *)
LEMMA OnlyReady ==
  ASSUME PipeInv, NEW p \in Processes, NEW c \in Clients, at[p] = "ready", at[c] = "ready"
  PROVE  p = Server \/ p = c
<1>1. Holds(p, "rx") /\ Holds(c, "rx") /\ "rx" \in Names
  BY Crossed, Grip DEF Names
<1> QED BY <1>1 DEF PipeInv, OneClient, Processes

(* A step of a ring: a packet more or less in segment n, nothing else of   *)
(* the segments or of who holds them.                                      *)
Passes(n, g) ==
    /\ segs' = [segs EXCEPT ![n] = g] /\ at' = at
    /\ g.bytes = segs[n].bytes /\ g.size = segs[n].size
    /\ g.refCount = segs[n].refCount /\ g.lost = segs[n].lost
    /\ g.messageCount = Len(g.packets)
    /\ Agrees(n) => g.freeSpace + PacketRoom * Len(g.packets) = g.size - RingHeader
    /\ \A q \in Processes : at[q] \notin Making

(* Such a step keeps all of the invariant that is not about histories.     *)
LEMMA PassKeeps ==
  ASSUME PipeInv, NEW n \in Names, NEW g \in SegmentType, Passes(n, g),
         wrote' \in [Processes -> Seq(Packets)], got' \in [Processes -> Seq(Packets)],
         Delivered'
  PROVE  PipeInv'
<1>0. segs \in [Names -> SegmentType] /\ at \in [Processes -> Points]
  BY Typed DEF PipeInv
<1>1. segs'[n] = g /\ \A m \in Names : m # n => segs'[m] = segs[m]
  BY <1>0 DEF Passes
<1>2. /\ \A q \in Processes, m \in Names : Holds(q, m)' <=> Holds(q, m)
      /\ \A q \in Processes, m \in Names : AttachedTo(q, m)' <=> AttachedTo(q, m)
      /\ \A m \in Names : Holders(m)' = Holders(m)
  BY DEF Passes, Holds, AttachedTo, Holders
<1>3. TypeOK'
  BY <1>0 DEF Passes, TypeOK, SegmentType, Points
<1>4. HeldExist'
  BY <1>1, <1>2 DEF PipeInv, HeldExist, Passes
<1>5. RefCounts'
  BY <1>1, <1>2 DEF PipeInv, RefCounts, Passes
<1>6. MessagesCounted'
  BY <1>1 DEF PipeInv, MessagesCounted, Passes
<1>7. Accounted'
  <2>1. ASSUME NEW q \in Processes, NEW m \in Names, AttachedTo(q, m)'
        PROVE  Agrees(m)'
    <3>1. Agrees(m)
      BY <1>2, <2>1 DEF PipeInv, Accounted
    <3> QED BY <1>1, <3>1 DEF Agrees, Passes
  <2> QED BY <2>1 DEF Accounted
<1>8. Quiet' /\ Unheard'
  BY Crossed DEF Quiet, Unheard, Passes
<1>9. OneClient'
  BY <1>2, Crossed DEF PipeInv, OneClient
<1> QED BY <1>3, <1>4, <1>5, <1>6, <1>7, <1>8, <1>9 DEF PipeInv

(* An end that writes keeps the invariant: what it adds to what it has     *)
(* written comes last of what the other one will read.                     *)
LEMMA WriteKeeps ==
  ASSUME Orderly, PipeInv, NEW p \in Processes, Write(p)
  PROVE  PipeInv'
<1>0. /\ segs \in [Names -> SegmentType] /\ at \in [Processes -> Points]
      /\ wrote \in [Processes -> Seq(Packets)] /\ got \in [Processes -> Seq(Packets)]
  BY Typed DEF PipeInv
<1> DEFINE n == TxName(p)
           s == segs[n]
           g == [s EXCEPT !.packets = Append(s.packets, Packet(p)),
                          !.freeSpace = s.freeSpace - PacketRoom,
                          !.messageCount = s.messageCount + 1]
<1>1. n \in Names
  BY NameFacts
<1>2. Packet(p) \in Packets
  <2>1. Len(wrote[p]) \in Nat /\ Len(wrote[p]) < MaxWrites
    BY <1>0 DEF Write
  <2> QED BY <2>1, Constant DEF Packet, Packets
<1>3. /\ s \in SegmentType /\ s.packets \in Seq(Packets) /\ s.freeSpace \in Nat
      /\ s.freeSpace >= PacketRoom /\ s.messageCount = Len(s.packets)
      /\ s.size \in Nat /\ s.messageCount \in Nat /\ s.freeSpace - PacketRoom \in Nat
  <2>1. s \in SegmentType /\ s.messageCount = Len(s.packets)
    BY <1>0, <1>1 DEF PipeInv, MessagesCounted
  <2>2. s.packets \in Seq(Packets) /\ s.freeSpace \in Nat /\ s.messageCount \in Nat
    BY <2>1 DEF SegmentType
  <2>3. s.size \in Nat
    BY <2>1, Constant DEF SegmentType
  <2>4. s.freeSpace >= PacketRoom
    BY DEF Write
  <2> QED BY <2>1, <2>2, <2>3, <2>4, Constant
<1>4. segs' = [segs EXCEPT ![n] = g]
  BY <1>0, <1>1, <1>3 DEF Write
<1>5. /\ g \in SegmentType /\ g.packets = Append(s.packets, Packet(p))
      /\ g.freeSpace = s.freeSpace - PacketRoom /\ g.messageCount = s.messageCount + 1
      /\ g.bytes = s.bytes /\ g.size = s.size /\ g.refCount = s.refCount /\ g.lost = s.lost
  <2>1. Append(s.packets, Packet(p)) \in Seq(Packets) /\ s.messageCount + 1 \in Nat
    BY <1>2, <1>3
  <2> QED BY <1>3, <2>1 DEF SegmentType
<1> HIDE DEF g
<1>a. \A r \in Seq(Packets) : r \o Append(s.packets, Packet(p)) = Append(r \o s.packets, Packet(p))
  <2>1. s.packets \in Seq(Packets)
    BY <1>3
  <2> QED BY <1>2, <2>1, AddOne
<1>6. Len(g.packets) = Len(s.packets) + 1 /\ Len(s.packets) \in Nat
  BY <1>2, <1>3, <1>5
<1>7. Agrees(n) => g.freeSpace + PacketRoom * Len(g.packets) = g.size - RingHeader
  <2>1. PacketRoom * (Len(s.packets) + 1) = PacketRoom * Len(s.packets) + PacketRoom
    BY <1>6, Constant
  <2>2. PacketRoom * Len(s.packets) \in Nat
    BY <1>6, Constant
  <2> QED BY <1>3, <1>5, <1>6, <2>1, <2>2, Constant DEF Agrees
<1>8. Passes(n, g)
  <2>1. BothReady
    BY DEF Write
  <2>2. \A q \in Processes : at[q] \notin Making
    BY <2>1, NobodyMaking
  <2> QED BY <1>3, <1>4, <1>5, <1>6, <1>7, <2>2 DEF Passes, Write
<1>9. /\ wrote' = [wrote EXCEPT ![p] = Append(@, Packet(p))] /\ got' = got
      /\ at[p] = "ready" /\ at' = at
  BY DEF Write
<1>10. wrote' \in [Processes -> Seq(Packets)] /\ got' \in [Processes -> Seq(Packets)]
  <2>1. Append(wrote[p], Packet(p)) \in Seq(Packets)
    BY <1>0, <1>2
  <2> QED BY <1>0, <1>9, <2>1
<1>11. Delivered'
  <2>1. ASSUME NEW c \in Clients, at[c] = "ready"
        PROVE  /\ (got[c] \o segs[TxName(Server)].packets = wrote[Server])'
               /\ (got[Server] \o segs[RxName(Server)].packets = wrote[c])'
    <3>0. /\ got[c] \o segs[TxName(Server)].packets = wrote[Server]
          /\ got[Server] \o segs[RxName(Server)].packets = wrote[c]
          /\ got[c] \in Seq(Packets) /\ got[Server] \in Seq(Packets)
          /\ c \in Processes /\ Server \in Processes /\ c # Server
          /\ TxName(Server) \in Names /\ RxName(Server) \in Names /\ RxName(Server) # TxName(Server)
      BY <1>0, <2>1, Crossed, NameFacts DEF PipeInv, Delivered
    <3>1. CASE p = Server
      <4>1. /\ segs'[TxName(Server)].packets = Append(segs[TxName(Server)].packets, Packet(p))
            /\ segs'[RxName(Server)].packets = segs[RxName(Server)].packets
        BY <1>0, <1>4, <1>5, <3>0, <3>1
      <4>2. wrote'[Server] = Append(wrote[Server], Packet(p)) /\ wrote'[c] = wrote[c]
        BY <1>0, <1>9, <3>0, <3>1
      <4>3. got[c] \o Append(segs[TxName(Server)].packets, Packet(p))
              = Append(got[c] \o segs[TxName(Server)].packets, Packet(p))
        BY <1>a, <3>0, <3>1
      <4> QED BY <1>9, <3>0, <4>1, <4>2, <4>3
    <3>2. CASE p = c
      <4>1. n = RxName(Server)
        BY <3>2, Crossed
      <4>2. /\ segs'[RxName(Server)].packets = Append(segs[RxName(Server)].packets, Packet(p))
            /\ segs'[TxName(Server)].packets = segs[TxName(Server)].packets
        BY <1>0, <1>4, <1>5, <3>0, <4>1
      <4>3. wrote'[c] = Append(wrote[c], Packet(p)) /\ wrote'[Server] = wrote[Server]
        BY <1>0, <1>9, <3>0, <3>2
      <4>4. got[Server] \o Append(segs[RxName(Server)].packets, Packet(p))
              = Append(got[Server] \o segs[RxName(Server)].packets, Packet(p))
        BY <1>a, <3>0, <4>1
      <4> QED BY <1>9, <3>0, <4>2, <4>3, <4>4
    <3> QED BY <1>9, <2>1, <3>1, <3>2, OnlyReady
  <2> QED BY <1>9, <2>1 DEF Delivered
<1> QED BY <1>1, <1>5, <1>8, <1>10, <1>11, PassKeeps

(* An end that reads keeps the invariant: it has attached to the ring, so  *)
(* that space is missing only if there is a packet, and it gets the oldest *)
(* of what waits for it.                                                   *)
LEMMA ReadKeeps ==
  ASSUME PipeInv, NEW p \in Processes, Read(p)
  PROVE  PipeInv'
<1>0. /\ segs \in [Names -> SegmentType] /\ at \in [Processes -> Points]
      /\ wrote \in [Processes -> Seq(Packets)] /\ got \in [Processes -> Seq(Packets)]
  BY Typed DEF PipeInv
<1> DEFINE n == RxName(p)
           s == segs[n]
           g == [s EXCEPT !.packets = Tail(s.packets),
                          !.freeSpace = s.freeSpace + PacketRoom,
                          !.messageCount = s.messageCount - 1]
<1>1. n \in Names
  BY NameFacts
<1>2. /\ s \in SegmentType /\ s.packets \in Seq(Packets) /\ s.freeSpace \in Nat
      /\ s.messageCount = Len(s.packets) /\ s.size \in Nat /\ s.messageCount \in Nat
  <2>1. s \in SegmentType /\ s.messageCount = Len(s.packets)
    BY <1>0, <1>1 DEF PipeInv, MessagesCounted
  <2>2. s.packets \in Seq(Packets) /\ s.freeSpace \in Nat /\ s.messageCount \in Nat
    BY <2>1 DEF SegmentType
  <2>3. s.size \in Nat
    BY <2>1, Constant DEF SegmentType
  <2> QED BY <2>1, <2>2, <2>3
<1>3. s.packets # << >> /\ Agrees(n)
  <2>1. Agrees(n) /\ s.freeSpace # s.size - RingHeader
    BY <1>1 DEF Read, AttachedTo, PipeInv, Accounted, ReadEmpty, DataSize, getMemoryBlockSize
  <2>2. ASSUME s.packets = << >>
        PROVE  FALSE
    <3>1. Len(s.packets) = 0
      BY <2>2
    <3>2. PacketRoom * Len(s.packets) = 0
      BY <3>1, Constant
    <3> QED BY <1>2, <2>1, <3>2, Constant DEF Agrees
  <2> QED BY <2>1, <2>2
<1>4. segs' = [segs EXCEPT ![n] = g]
  BY <1>0, <1>1, <1>2 DEF Read
<1>5. /\ Tail(s.packets) \in Seq(Packets) /\ Head(s.packets) \in Packets
      /\ Len(Tail(s.packets)) = Len(s.packets) - 1 /\ Len(s.packets) - 1 \in Nat
  BY <1>2, <1>3
<1>6. /\ g \in SegmentType /\ g.packets = Tail(s.packets)
      /\ g.freeSpace = s.freeSpace + PacketRoom /\ g.messageCount = s.messageCount - 1
      /\ g.bytes = s.bytes /\ g.size = s.size /\ g.refCount = s.refCount /\ g.lost = s.lost
  <2>1. s.freeSpace + PacketRoom \in Nat /\ s.messageCount - 1 \in Nat
    BY <1>2, <1>5, Constant
  <2> QED BY <1>2, <1>5, <2>1 DEF SegmentType
<1> HIDE DEF g
<1>7. Agrees(n) => g.freeSpace + PacketRoom * Len(g.packets) = g.size - RingHeader
  <2>1. PacketRoom * (Len(s.packets) - 1) = PacketRoom * Len(s.packets) - PacketRoom
    BY <1>2, <1>5, Constant
  <2>2. PacketRoom * Len(s.packets) \in Nat
    BY <1>2, Constant
  <2> QED BY <1>2, <1>5, <1>6, <2>1, <2>2, Constant DEF Agrees
<1>8. Passes(n, g)
  <2>1. ~RingsEmpty
    BY <1>1, <1>3 DEF RingsEmpty
  <2>2. \A q \in Processes : at[q] \notin Making
    BY <2>1 DEF PipeInv, Quiet
  <2> QED BY <1>2, <1>4, <1>5, <1>6, <1>7, <2>2 DEF Passes, Read
<1>9. /\ got' = [got EXCEPT ![p] = Append(@, Head(s.packets))] /\ wrote' = wrote
      /\ at[p] = "ready" /\ at' = at
  BY DEF Read
<1>10. wrote' \in [Processes -> Seq(Packets)] /\ got' \in [Processes -> Seq(Packets)]
  <2>1. Append(got[p], Head(s.packets)) \in Seq(Packets)
    BY <1>0, <1>5
  <2> QED BY <1>0, <1>9, <2>1
<1>11. Delivered'
  <2>1. ASSUME NEW c \in Clients, at[c] = "ready"
        PROVE  /\ (got[c] \o segs[TxName(Server)].packets = wrote[Server])'
               /\ (got[Server] \o segs[RxName(Server)].packets = wrote[c])'
    <3>0. /\ got[c] \o segs[TxName(Server)].packets = wrote[Server]
          /\ got[Server] \o segs[RxName(Server)].packets = wrote[c]
          /\ got[p] \in Seq(Packets)
          /\ c \in Processes /\ Server \in Processes /\ c # Server
          /\ TxName(Server) \in Names /\ RxName(Server) \in Names /\ RxName(Server) # TxName(Server)
      BY <1>0, <2>1, Crossed, NameFacts DEF PipeInv, Delivered
    <3>1. Append(got[p], Head(s.packets)) \o Tail(s.packets) = got[p] \o s.packets
      BY <1>2, <1>3, <3>0, MoveOne
    <3>2. CASE p = Server
      <4>1. /\ segs'[RxName(Server)].packets = Tail(s.packets)
            /\ segs'[TxName(Server)].packets = segs[TxName(Server)].packets
        BY <1>0, <1>4, <1>6, <3>0, <3>2
      <4>2. got'[Server] = Append(got[p], Head(s.packets)) /\ got'[c] = got[c]
        BY <1>0, <1>9, <3>0, <3>2
      <4> QED BY <1>9, <3>0, <3>1, <3>2, <4>1, <4>2
    <3>3. CASE p = c
      <4>1. n = TxName(Server)
        BY <3>3, Crossed
      <4>2. /\ segs'[TxName(Server)].packets = Tail(s.packets)
            /\ segs'[RxName(Server)].packets = segs[RxName(Server)].packets
        BY <1>0, <1>4, <1>6, <3>0, <4>1
      <4>3. got'[c] = Append(got[p], Head(s.packets)) /\ got'[Server] = got[Server]
        BY <1>0, <1>9, <3>0, <3>3
      <4> QED BY <1>9, <3>0, <3>1, <3>3, <4>1, <4>2, <4>3
    <3> QED BY <1>9, <2>1, <3>2, <3>3, OnlyReady
  <2> QED BY <1>9, <2>1 DEF Delivered
<1> QED BY <1>1, <1>6, <1>8, <1>10, <1>11, PassKeeps

-----------------------------------------------------------------------------
(* The steps, by their kind.                                               *)

Anew(s, size) == [s EXCEPT !.bytes = IF @ = 0 THEN size ELSE @, !.size = size,
                           !.refCount = 1, !.lost = 0]

(* create() takes a segment nobody holds.                                  *)
LEMMA CreateTakes ==
  ASSUME Orderly, PipeInv, NEW size \in Sizes, CreateFirst(size) \/ CreateSecond(size)
  PROVE  PipeInv'
<1>0. Server \in Processes /\ segs \in [Names -> SegmentType] /\ at \in [Processes -> Points]
  BY Typed DEF PipeInv, Processes
<1>1. size \in Nat /\ size > 0
  BY Constant
<1>2. ASSUME NEW n \in Names, NEW g, g = Anew(segs[n], size), Holders(n) = {}
      PROVE  /\ g \in SegmentType /\ g.bytes > 0
             /\ g.packets = segs[n].packets /\ g.freeSpace = segs[n].freeSpace
             /\ g.messageCount = segs[n].messageCount
             /\ g.refCount = Cardinality(Holders(n)) + 1 + g.lost
  <2>1. segs[n] \in SegmentType
    BY <1>0
  <2>2. segs[n].bytes \in {0} \cup Sizes
    BY <2>1 DEF SegmentType
  <2>3. PICK b \in Sizes : b = (IF segs[n].bytes = 0 THEN size ELSE segs[n].bytes)
    BY <2>2
  <2>4. g \in SegmentType
    <3>1. g = [segs[n] EXCEPT !.bytes = b, !.size = size, !.refCount = 1, !.lost = 0]
      BY <1>2, <2>3 DEF Anew
    <3>2. 1 \in Nat /\ 0 \in 0 .. MaxLost /\ b \in {0} \cup Sizes /\ size \in {0} \cup Sizes
      BY Constant
    <3> QED BY <2>1, <3>1, <3>2 DEF SegmentType
  <2>5. /\ g.bytes = b
        /\ g.packets = segs[n].packets /\ g.freeSpace = segs[n].freeSpace
        /\ g.messageCount = segs[n].messageCount /\ g.refCount = 1 /\ g.lost = 0
    BY <1>2, <2>1, <2>3 DEF SegmentType, Anew
  <2>6. Cardinality(Holders(n)) = 0
    BY <1>2, FS_EmptySet
  <2> QED BY <2>3, <2>4, <2>5, <2>6, Constant
<1>3. CASE CreateFirst(size)
  <2> DEFINE n == FirstName(Server)
  <2>1. n \in Names
    BY <1>0, NameFacts
  <2>2. PICK g : g = Anew(segs[n], size) /\ segs' = [segs EXCEPT ![n] = g]
    BY <1>3, <1>0, <2>1 DEF CreateFirst, Created, Anew
  <2>3. /\ RingsEmpty /\ \A m \in Names : Holders(m) = {}
        /\ at[Server] \in Idle /\ at' = [at EXCEPT ![Server] = "second"] /\ Fresh({Server})
    BY <1>3 DEF CreateFirst, Move
  <2>4. /\ ~Holds(Server, n)
        /\ \A m \in Names : Holds(Server, m)' <=> Holds(Server, m) \/ m = n
    BY <1>0, <2>3 DEF Holds, HoldsBoth, Idle
  <2>5. g \in SegmentType /\ Takes(Server, n, g, "second")
    <3>1. /\ g \in SegmentType /\ g.bytes > 0 /\ Holders(n) = {}
          /\ g.packets = segs[n].packets /\ g.freeSpace = segs[n].freeSpace
          /\ g.messageCount = segs[n].messageCount
          /\ g.refCount = Cardinality(Holders(n)) + 1 + g.lost
      BY <1>2, <2>1, <2>2, <2>3
    <3> HIDE DEF n
    <3> QED BY <2>2, <2>3, <2>4, <3>1 DEF Takes
  <2>6. "second" \in Points
    BY DEF Points
  <2> QED BY <1>0, <2>1, <2>5, <2>6, TakeKeeps
<1>4. CASE CreateSecond(size)
  <2> DEFINE n == SecondName(Server)
  <2>1. n \in Names /\ FirstName(Server) # n /\ \A m \in Names : m = n \/ m = FirstName(Server)
    BY <1>0, NameFacts
  <2>2. PICK g : g = Anew(segs[n], size) /\ segs' = [segs EXCEPT ![n] = g]
    BY <1>4, <1>0, <2>1 DEF CreateSecond, Created, Anew
  <2>3. /\ Holders(n) = {}
        /\ at[Server] = "second" /\ at' = [at EXCEPT ![Server] = "attachRx"] /\ Keep
    BY <1>4 DEF CreateSecond, Move
  <2>4. RingsEmpty
    BY <1>0, <2>3 DEF PipeInv, Quiet, Making
  <2>5. /\ ~Holds(Server, n)
        /\ \A m \in Names : Holds(Server, m)' <=> Holds(Server, m) \/ m = n
    BY <1>0, <2>1, <2>3 DEF Holds, HoldsBoth
  <2>6. g \in SegmentType /\ Takes(Server, n, g, "attachRx")
    <3>1. /\ g \in SegmentType /\ g.bytes > 0
          /\ g.packets = segs[n].packets /\ g.freeSpace = segs[n].freeSpace
          /\ g.messageCount = segs[n].messageCount
          /\ g.refCount = Cardinality(Holders(n)) + 1 + g.lost
      BY <1>2, <2>1, <2>2, <2>3
    <3>2. at[Server] = "second" /\ Keep /\ Holders(n) = {}
      BY <2>3
    <3> HIDE DEF n
    <3> QED BY <2>2, <2>3, <2>4, <2>5, <3>1, <3>2 DEF Takes
  <2>7. "attachRx" \in Points
    BY DEF Points, HoldsBoth
  <2> QED BY <1>0, <2>1, <2>6, <2>7, TakeKeeps
<1> QED BY <1>3, <1>4

(* open() takes a segment that is there.                                   *)
LEMMA OpenTakes ==
  ASSUME Orderly, PipeInv, NEW c \in Clients, OpenFirst(c) \/ OpenSecond(c)
  PROVE  PipeInv'
<1>0. c \in Processes /\ segs \in [Names -> SegmentType] /\ at \in [Processes -> Points]
  BY Typed, Crossed DEF PipeInv
<1>1. ASSUME NEW n \in Names, NEW g, g = [segs[n] EXCEPT !.refCount = @ + 1], Exists(n)
      PROVE  /\ g \in SegmentType /\ g.bytes > 0 /\ g.size = segs[n].size
             /\ g.packets = segs[n].packets /\ g.freeSpace = segs[n].freeSpace
             /\ g.messageCount = segs[n].messageCount
             /\ g.refCount = Cardinality(Holders(n)) + 1 + g.lost
  <2>1. segs[n] \in SegmentType /\ segs[n].refCount \in Nat
    BY <1>0 DEF SegmentType
  <2>2. /\ g \in SegmentType /\ g.refCount = segs[n].refCount + 1 /\ g.lost = segs[n].lost
        /\ g.bytes = segs[n].bytes /\ g.size = segs[n].size
        /\ g.packets = segs[n].packets /\ g.freeSpace = segs[n].freeSpace
        /\ g.messageCount = segs[n].messageCount
    BY <1>1, <2>1 DEF SegmentType
  <2>3. segs[n].refCount = Cardinality(Holders(n)) + segs[n].lost
    BY DEF PipeInv, RefCounts
  <2>4. Cardinality(Holders(n)) \in Nat /\ segs[n].lost \in Nat
    <3>1. Holders(n) \subseteq Processes
      BY DEF Holders
    <3>2. Cardinality(Holders(n)) \in Nat
      BY <1>0, <3>1, HolderCount
    <3> QED BY <2>1, <3>2, Constant DEF SegmentType
  <2>5. g.refCount = Cardinality(Holders(n)) + 1 + g.lost
    BY <2>2, <2>3, <2>4
  <2>6. g.bytes > 0
    BY <1>1, <2>2 DEF Exists
  <2> QED BY <2>2, <2>5, <2>6
<1>2. CASE OpenFirst(c)
  <2> DEFINE n == FirstName(c)
  <2>1. n \in Names
    BY <1>0, NameFacts
  <2>2. PICK g : g = [segs[n] EXCEPT !.refCount = @ + 1] /\ segs' = [segs EXCEPT ![n] = g]
    BY <1>2, <1>0, <2>1 DEF OpenFirst, Opened
  <2>3. /\ Exists(n) /\ RingsEmpty /\ \A m \in Names : Holders(m) \subseteq {Server}
        /\ at[c] \in Idle /\ at' = [at EXCEPT ![c] = "second"] /\ Fresh(Processes)
    BY <1>2 DEF OpenFirst, Move
  <2>4. ~Holds(c, n) /\ \A m \in Names : Holds(c, m)' <=> Holds(c, m) \/ m = n
    BY <1>0, <2>3 DEF Holds, HoldsBoth, Idle
  <2>5. g \in SegmentType /\ Takes(c, n, g, "second")
    BY <1>1, <2>1, <2>2, <2>3, <2>4 DEF Takes
  <2>6. "second" \in Points
    BY DEF Points
  <2> QED BY <1>0, <2>1, <2>5, <2>6, TakeKeeps
<1>3. CASE OpenSecond(c)
  <2> DEFINE n == SecondName(c)
  <2>1. n \in Names /\ FirstName(c) # n /\ \A m \in Names : m = n \/ m = FirstName(c)
    BY <1>0, NameFacts
  <2>2. PICK g : g = [segs[n] EXCEPT !.refCount = @ + 1] /\ segs' = [segs EXCEPT ![n] = g]
    BY <1>3, <1>0, <2>1 DEF OpenSecond, Opened
  <2>3. /\ Exists(n)
        /\ at[c] = "second" /\ at' = [at EXCEPT ![c] = "attachRx"] /\ Keep
    BY <1>3 DEF OpenSecond, Move
  <2>4. RingsEmpty
    BY <1>0, <2>3 DEF PipeInv, Quiet, Making
  <2>5. ~Holds(c, n) /\ \A m \in Names : Holds(c, m)' <=> Holds(c, m) \/ m = n
    BY <1>0, <2>1, <2>3 DEF Holds, HoldsBoth
  <2>6. g \in SegmentType /\ Takes(c, n, g, "attachRx")
    BY <1>1, <2>1, <2>2, <2>3, <2>4, <2>5 DEF Takes
  <2>7. "attachRx" \in Points
    BY DEF Points, HoldsBoth
  <2> QED BY <1>0, <2>1, <2>6, <2>7, TakeKeeps
<1> QED BY <1>2, <1>3

(* A process that throws leaves behind the segments that it has in hand.   *)
LEMMA ThrowLetsGo ==
  ASSUME PipeInv, NEW p \in Processes, SecondFails(p) \/ RingThrows(p) \/ SecondRingThrows(p)
  PROVE  PipeInv'
<1>0. segs \in [Names -> SegmentType] /\ at \in [Processes -> Points]
  BY Typed DEF PipeInv
<1>1. PICK ns \in SUBSET Names, to \in {"none", "threw", "closeRx"} :
        /\ at' = [at EXCEPT ![p] = to] /\ Settle(Forgets(p, ns)) /\ Keep /\ MayForget(ns)
        /\ \A n \in Names : (Holds(p, n)' => Holds(p, n)) /\ (Gone(p, n) <=> n \in ns)
  <2>1. CASE SecondFails(p)
    <3>1. {FirstName(p)} \in SUBSET Names
      BY NameFacts
    <3>2. \A n \in Names : Holds(p, n) <=> n = FirstName(p)
      BY <2>1 DEF SecondFails, Move, Holds, HoldsBoth
    <3>3. \A n \in Names : ~Holds(p, n)'
      BY <1>0, <2>1 DEF SecondFails, Move, Holds, HoldsBoth
    <3> QED BY <2>1, <3>1, <3>2, <3>3 DEF SecondFails, Move, Gone
  <2>2. CASE RingThrows(p)
    <3>1. \A n \in Names : Holds(p, n)
      BY <2>2 DEF RingThrows, Move, Holds, HoldsBoth
    <3>2. \A n \in Names : ~Holds(p, n)'
      BY <1>0, <2>2 DEF RingThrows, Move, Holds, HoldsBoth
    <3> QED BY <2>2, <3>1, <3>2 DEF RingThrows, Move, Gone
  <2>3. CASE SecondRingThrows(p)
    <3>1. {TxName(p)} \in SUBSET Names
      BY NameFacts
    <3>2. \A n \in Names : Holds(p, n)
      BY <2>3 DEF SecondRingThrows, Move, Holds, HoldsBoth
    <3>3. \A n \in Names : Holds(p, n)' <=> n = RxName(p)
      BY <1>0, <2>3 DEF SecondRingThrows, Move, Holds, HoldsBoth
    <3>4. \A n \in Names : n # RxName(p) <=> n = TxName(p)
      BY NameFacts
    <3> QED BY <2>3, <3>1, <3>2, <3>3, <3>4 DEF SecondRingThrows, Move, Gone
  <2> QED BY <2>1, <2>2, <2>3
<1> DEFINE f == Forgets(p, ns)
<1>2. f \in [Names -> SegmentType]
  <2>1. ASSUME NEW n \in Names, n \in ns
        PROVE  [segs[n] EXCEPT !.forgotBy = @ \cup {p}, !.lost = @ + 1] \in SegmentType
    <3>1. segs[n] \in SegmentType /\ segs[n].lost < MaxLost
      BY <1>0, <1>1, <2>1 DEF MayForget
    <3>2. segs[n].lost + 1 \in 0 .. MaxLost /\ segs[n].forgotBy \cup {p} \in SUBSET Processes
      BY <3>1, Constant DEF SegmentType
    <3> QED BY <3>1, <3>2 DEF SegmentType
  <2> QED BY <1>0, <2>1 DEF Forgets
<1>3. ASSUME NEW n \in Names
      PROVE  /\ f[n].bytes = segs[n].bytes /\ f[n].size = segs[n].size
             /\ f[n].freeSpace = segs[n].freeSpace
             /\ f[n].messageCount = segs[n].messageCount /\ f[n].packets = segs[n].packets
             /\ f[n].refCount + segs[n].lost + (IF Gone(p, n) THEN 1 ELSE 0)
                  = segs[n].refCount + f[n].lost
  <2>1. /\ segs[n] \in SegmentType /\ segs[n].lost \in Nat /\ segs[n].refCount \in Nat
    BY <1>0, Constant DEF SegmentType
  <2>2. CASE n \in ns
    <3>1. f[n] = [segs[n] EXCEPT !.forgotBy = @ \cup {p}, !.lost = @ + 1]
      BY <2>2 DEF Forgets
    <3>2. /\ f[n].bytes = segs[n].bytes /\ f[n].size = segs[n].size
          /\ f[n].freeSpace = segs[n].freeSpace
          /\ f[n].messageCount = segs[n].messageCount /\ f[n].packets = segs[n].packets
          /\ f[n].lost = segs[n].lost + 1 /\ f[n].refCount = segs[n].refCount
      BY <2>1, <3>1 DEF SegmentType
    <3> QED BY <1>1, <2>1, <2>2, <3>2
  <2>3. CASE n \notin ns
    <3>1. f[n] = segs[n]
      BY <2>3 DEF Forgets
    <3> QED BY <1>1, <2>1, <2>3, <3>1
  <2> QED BY <2>2, <2>3
<1> HIDE DEF f
<1>4. LetsGo(p, f, to)
  <2>1. Settle(f)
    BY <1>1 DEF f
  <2> QED BY <1>1, <1>2, <1>3, <2>1 DEF LetsGo
<1> QED BY <1>4, LetGoKeeps

(* A pipe that ends gives back the reference of one segment, then of the   *)
(* other.                                                                  *)
LEMMA CloseLetsGo ==
  ASSUME PipeInv, NEW p \in Processes, CloseTx(p) \/ CloseRx(p)
  PROVE  PipeInv'
<1>0. segs \in [Names -> SegmentType] /\ at \in [Processes -> Points]
  BY Typed DEF PipeInv
<1>1. PICK n \in Names, to \in {"none", "closeRx"} :
        /\ at' = [at EXCEPT ![p] = to] /\ Settle(Closed(n)) /\ Keep
        /\ \A m \in Names : (Holds(p, m)' => Holds(p, m)) /\ (Gone(p, m) <=> m = n)
  <2>1. CASE CloseTx(p)
    <3>1. \A m \in Names : Holds(p, m)
      BY <2>1 DEF CloseTx, Move, Holds, HoldsBoth
    <3>2. \A m \in Names : Holds(p, m)' <=> m = RxName(p)
      BY <1>0, <2>1 DEF CloseTx, Move, Holds, HoldsBoth
    <3>3. TxName(p) \in Names /\ \A m \in Names : m # RxName(p) <=> m = TxName(p)
      BY NameFacts
    <3> QED BY <2>1, <3>1, <3>2, <3>3 DEF CloseTx, Move, Gone
  <2>2. CASE CloseRx(p)
    <3>1. \A m \in Names : Holds(p, m) <=> m = RxName(p)
      BY <2>2 DEF CloseRx, Move, Holds, HoldsBoth
    <3>2. \A m \in Names : ~Holds(p, m)'
      BY <1>0, <2>2 DEF CloseRx, Move, Holds, HoldsBoth
    <3>3. RxName(p) \in Names
      BY NameFacts
    <3> QED BY <2>2, <3>1, <3>2, <3>3 DEF CloseRx, Move, Gone
  <2> QED BY <2>1, <2>2
<1> DEFINE f == Closed(n)
           g == [segs[n] EXCEPT !.refCount = segs[n].refCount - 1]
<1>2. segs[n].refCount > 0 /\ segs[n].refCount \in Nat /\ segs[n].lost \in Nat
  <2>1. p \in Holders(n) /\ Holders(n) \subseteq Processes
    BY <1>1 DEF Holders, Gone
  <2>2. Cardinality(Holders(n)) \in Nat /\ Cardinality(Holders(n)) > 0
    BY <2>1, HolderCount
  <2>3. segs[n].lost \in Nat
    BY <1>0, Constant DEF SegmentType
  <2> QED BY <2>2, <2>3 DEF PipeInv, RefCounts
<1>3. f = [segs EXCEPT ![n] = g]
  BY <1>2 DEF Closed
<1>4. /\ g \in SegmentType /\ g.refCount = segs[n].refCount - 1 /\ g.lost = segs[n].lost
      /\ g.bytes = segs[n].bytes /\ g.size = segs[n].size /\ g.freeSpace = segs[n].freeSpace
      /\ g.messageCount = segs[n].messageCount /\ g.packets = segs[n].packets
  <2>1. segs[n] \in SegmentType /\ segs[n].refCount - 1 \in Nat
    BY <1>0, <1>2
  <2> QED BY <2>1 DEF SegmentType
<1>5. Settle(f)
  BY <1>1
<1> HIDE DEF f, g
<1>6. f \in [Names -> SegmentType] /\ f[n] = g /\ \A m \in Names : m # n => f[m] = segs[m]
  BY <1>0, <1>3, <1>4
<1>7. ASSUME NEW m \in Names
      PROVE  /\ f[m].bytes = segs[m].bytes /\ f[m].size = segs[m].size
             /\ f[m].freeSpace = segs[m].freeSpace
             /\ f[m].messageCount = segs[m].messageCount /\ f[m].packets = segs[m].packets
             /\ f[m].refCount + segs[m].lost + (IF Gone(p, m) THEN 1 ELSE 0)
                  = segs[m].refCount + f[m].lost
  <2>1. CASE m = n
    BY <1>1, <1>2, <1>4, <1>6, <2>1
  <2>2. CASE m # n
    <3>1. segs[m].lost \in Nat /\ segs[m].refCount \in Nat
      BY <1>0, Constant DEF SegmentType
    <3> QED BY <1>1, <1>6, <2>2, <3>1
  <2> QED BY <2>1, <2>2
<1>8. LetsGo(p, f, to)
  BY <1>1, <1>5, <1>6, <1>7 DEF LetsGo
<1> QED BY <1>8, LetGoKeeps

(* A process that ends lets go of its handles and leaves its references.   *)
LEMMA KillLetsGo ==
  ASSUME PipeInv, NEW p \in Processes, Kill(p)
  PROVE  PipeInv'
<1>0. segs \in [Names -> SegmentType] /\ at \in [Processes -> Points]
  BY Typed DEF PipeInv
<1> DEFINE more(n) == IF Holds(p, n) THEN 1 ELSE 0
           f == [n \in Names |-> [segs[n] EXCEPT !.lost = @ + more(n), !.forgotBy = @ \ {p}]]
<1>1. at' = [at EXCEPT ![p] = "none"] /\ Settle(f) /\ Keep
  BY DEF Kill, Move
<1>2. \A n \in Names : ~Holds(p, n)' /\ (Gone(p, n) <=> Holds(p, n))
  BY <1>0, <1>1 DEF Holds, HoldsBoth, Gone
<1>3. ASSUME NEW n \in Names
      PROVE  /\ f[n] \in SegmentType
             /\ f[n].bytes = segs[n].bytes /\ f[n].size = segs[n].size
             /\ f[n].freeSpace = segs[n].freeSpace
             /\ f[n].messageCount = segs[n].messageCount /\ f[n].packets = segs[n].packets
             /\ f[n].refCount + segs[n].lost + (IF Gone(p, n) THEN 1 ELSE 0)
                  = segs[n].refCount + f[n].lost
  <2>1. segs[n] \in SegmentType /\ segs[n].lost \in Nat /\ segs[n].refCount \in Nat
    BY <1>0, Constant DEF SegmentType
  <2>2. Holds(p, n) => segs[n].lost < MaxLost
    BY DEF Kill
  <2>3. PICK k \in {0, 1} : k = more(n) /\ (k = 1 <=> Holds(p, n))
    OBVIOUS
  <2>4. f[n] = [segs[n] EXCEPT !.lost = segs[n].lost + k, !.forgotBy = segs[n].forgotBy \ {p}]
    BY <2>3
  <2>5. segs[n].lost + k \in 0 .. MaxLost /\ segs[n].forgotBy \ {p} \in SUBSET Processes
    BY <2>1, <2>2, <2>3, Constant DEF SegmentType
  <2> HIDE DEF f, more
  <2>6. /\ f[n] \in SegmentType /\ f[n].lost = segs[n].lost + k
        /\ f[n].refCount = segs[n].refCount
        /\ f[n].bytes = segs[n].bytes /\ f[n].size = segs[n].size
        /\ f[n].freeSpace = segs[n].freeSpace
        /\ f[n].messageCount = segs[n].messageCount /\ f[n].packets = segs[n].packets
    BY <2>1, <2>4, <2>5 DEF SegmentType
  <2>7. k = (IF Gone(p, n) THEN 1 ELSE 0)
    BY <1>2, <2>3
  <2> QED BY <2>1, <2>3, <2>6, <2>7
<1>4. f \in [Names -> SegmentType]
  BY <1>3
<1> HIDE DEF f
<1>5. LetsGo(p, f, "none")
  BY <1>1, <1>2, <1>3, <1>4 DEF LetsGo
<1> QED BY <1>5, LetGoKeeps

-----------------------------------------------------------------------------
(* The invariant, and what it gives.                                       *)

(* At first there is nothing.                                              *)
LEMMA InitInv == Init => PipeInv
<1> SUFFICES ASSUME Init PROVE PipeInv
  OBVIOUS
<1>1. << >> \in Seq(Packets) /\ Len(<< >>) = 0
  OBVIOUS
<1>2. NoSegment \in SegmentType
  BY <1>1, Constant DEF NoSegment, SegmentType
<1>3. TypeOK
  BY <1>1, <1>2, Typed DEF Init, Points, Idle
<1>4. \A p \in Processes : at[p] = "none"
  BY DEF Init
<1>5. \A p \in Processes, n \in Names : ~Holds(p, n) /\ ~AttachedTo(p, n)
  BY <1>4 DEF Holds, HoldsBoth, AttachedTo
<1>6. RefCounts
  <2>1. \A n \in Names : Holders(n) = {}
    BY <1>5 DEF Holders
  <2>2. \A n \in Names : segs[n].refCount = 0 /\ segs[n].lost = 0
    BY DEF Init, NoSegment
  <2> QED BY <2>1, <2>2, FS_EmptySet DEF RefCounts
<1>7. MessagesCounted /\ HeldExist /\ Accounted /\ OneClient
  BY <1>1, <1>5, Crossed DEF MessagesCounted, HeldExist, Accounted, OneClient, Init, NoSegment
<1>8. Quiet /\ Unheard /\ Delivered
  BY <1>4, Crossed DEF Quiet, Unheard, Delivered, Making
<1> QED BY <1>3, <1>6, <1>7, <1>8 DEF PipeInv

(* Every step keeps the invariant.                                         *)
LEMMA NextKeeps ==
  ASSUME Orderly, PipeInv, [Next]_pipeVars
  PROVE  PipeInv'
<1>1. CASE \E size \in Sizes : CreateFirst(size) \/ CreateSecond(size)
  BY <1>1, CreateTakes
<1>2. CASE \E c \in Clients : OpenFirst(c) \/ OpenSecond(c)
  BY <1>2, OpenTakes
<1>3. ASSUME NEW p \in Processes, AttachRx(p) \/ AttachTx(p)
      PROVE  PipeInv'
  <2>1. CASE AttachRx(p)
    <3>1. RxName(p) \in Names /\ Attaches(p, RxName(p))
      BY <2>1, NameFacts DEF AttachRx, Attaches, Move
    <3> QED BY <3>1, AttachKeeps
  <2>2. CASE AttachTx(p)
    <3>1. TxName(p) \in Names /\ Attaches(p, TxName(p))
      BY <2>2, NameFacts DEF AttachTx, Attaches, Move
    <3> QED BY <3>1, AttachKeeps
  <2> QED BY <1>3, <2>1, <2>2
<1>4. ASSUME NEW p \in Processes, SecondFails(p) \/ RingThrows(p) \/ SecondRingThrows(p)
      PROVE  PipeInv'
  BY <1>4, ThrowLetsGo
<1>5. ASSUME NEW p \in Processes, Write(p) \/ Read(p)
      PROVE  PipeInv'
  BY <1>5, WriteKeeps, ReadKeeps
<1>6. ASSUME NEW p \in Processes, CloseTx(p) \/ CloseRx(p) \/ Kill(p)
      PROVE  PipeInv'
  BY <1>6, CloseLetsGo, KillLetsGo
<1>7. ASSUME UNCHANGED pipeVars
      PROVE  PipeInv'
  <2>1. segs' = segs /\ at' = at /\ wrote' = wrote /\ got' = got
    BY <1>7 DEF pipeVars
  <2>2. /\ \A p \in Processes, n \in Names : Holds(p, n)' <=> Holds(p, n)
        /\ \A p \in Processes, n \in Names : AttachedTo(p, n)' <=> AttachedTo(p, n)
        /\ \A n \in Names : Holders(n)' = Holders(n)
    BY <2>1 DEF Holds, AttachedTo, Holders
  <2>3. TypeOK' /\ HeldExist' /\ RefCounts' /\ MessagesCounted'
    BY <2>1, <2>2 DEF PipeInv, TypeOK, HeldExist, RefCounts, MessagesCounted
  <2>4. Accounted' /\ Quiet' /\ Unheard'
    BY <2>1, <2>2 DEF PipeInv, Accounted, Agrees, Quiet, Unheard, RingsEmpty
  <2>5. OneClient' /\ Delivered'
    BY <2>1, <2>2, Crossed DEF PipeInv, OneClient, Delivered
  <2> QED BY <2>3, <2>4, <2>5 DEF PipeInv
<1>8. ASSUME NEW p \in Processes, WriteOverflow(p) \/ ReadNothing(p)
      PROVE  PipeInv'
  BY <1>7, <1>8 DEF WriteOverflow, ReadNothing
<1> QED BY <1>1, <1>2, <1>3, <1>4, <1>5, <1>6, <1>7, <1>8 DEF Next

(* The invariant holds of the server and its clients, when one client at a *)
(* time uses a pipe and nobody writes before both ends are there.          *)
THEOREM PipeCorrect ==
  ASSUME Orderly
  PROVE  Spec => []PipeInv
<1>1. PipeInv /\ [Next]_pipeVars => PipeInv'
  BY NextKeeps
<1> QED BY InitInv, <1>1, PTL DEF Spec

(* Segments, rings and histories have their types.                         *)
THEOREM PipeTypeCorrect ==
  ASSUME Orderly
  PROVE  Spec => []TypeOK
<1>1. PipeInv => TypeOK
  BY DEF PipeInv
<1> QED BY PipeCorrect, <1>1, PTL

(* The reference count of a segment is right on every way out of           *)
(* CreateSharedMemoryPipe() and OpenSharedMemoryPipe(), whoever is killed. *)
THEOREM CountsCorrect ==
  ASSUME Orderly
  PROVE  Spec => []RefCounts
<1>1. PipeInv => RefCounts
  BY DEF PipeInv
<1> QED BY PipeCorrect, <1>1, PTL

(* A client that has found the first segment while the server holds it     *)
(* finds the second one: the server that holds the one it makes last holds *)
(* the other one too.                                                      *)
THEOREM PairCorrect ==
  ASSUME Orderly
  PROVE  Spec => []OpenFindsBoth
<1>1. ASSUME PipeInv, NEW c \in Clients, Holds(Server, FirstName(c))
      PROVE  Exists(SecondName(c))
  <2>1. /\ c \in Processes /\ Server \in Processes
        /\ FirstName(c) = TxName(Server) /\ SecondName(c) = RxName(Server)
        /\ RxName(Server) \in Names /\ TxName(Server) \in Names
        /\ FirstName(Server) = RxName(Server) /\ RxName(Server) # TxName(Server)
    BY Crossed, NameFacts
  <2>2. at[Server] \in HoldsBoth
    BY <1>1, <2>1 DEF Holds
  <2> QED BY <1>1, <2>1, <2>2 DEF PipeInv, HeldExist, Holds, Exists
<1>2. PipeInv => OpenFindsBoth
  BY <1>1 DEF OpenFindsBoth
<1> QED BY PipeCorrect, <1>2, PTL

(* The header of a ring that is in use agrees with the packets in it.      *)
THEOREM RingsCorrect ==
  ASSUME Orderly
  PROVE  Spec => []RingsAgree
<1>1. ASSUME PipeInv, NEW n \in Names, NEW p \in Processes, at[p] = "ready"
      PROVE  /\ segs[n].messageCount = Len(segs[n].packets)
             /\ segs[n].freeSpace + PacketRoom * Len(segs[n].packets) = DataSize(n)
  <2>1. AttachedTo(p, n)
    BY <1>1 DEF AttachedTo
  <2> QED BY <1>1, <2>1 DEF PipeInv, MessagesCounted, Accounted, Agrees, DataSize,
                            getMemoryBlockSize
<1>2. PipeInv => RingsAgree
  BY <1>1 DEF RingsAgree, InUse
<1> QED BY PipeCorrect, <1>2, PTL

(* Each end of a pipe reads what the other one wrote since the client came,*)
(* in that order, and what it has not read yet waits for it.               *)
THEOREM DeliveryCorrect ==
  ASSUME Orderly
  PROVE  Spec => []Delivered
<1>1. PipeInv => Delivered
  BY DEF PipeInv
<1> QED BY PipeCorrect, <1>1, PTL

=============================================================================

-------------------------- MODULE DekkarLock_proofs --------------------------
(***************************************************************************)
(* Proofs about the lock for any set of threads: its type invariant, and   *)
(* mutual exclusion when each end is used by one thread.                   *)
(***************************************************************************)
EXTENDS DekkarLock, TLAPS

(* A thread at one of these points raised its flag and has not lowered it. *)
FlagUpPcs == {"lockTest", "lockOwn", "lockDrop", "held", "tryHeld", "unlockFlag"}

(* The strengthening that makes exclusion inductive: the flag of a thread  *)
(* that competes for the lock, holds it or is leaving it is up, so the     *)
(* other end cannot read it down and enter.                                *)
FlagUp == \A t \in Threads : pc[t] \in FlagUpPcs => flag[SideOf[t]]

LockInv == TypeOK /\ FlagUp /\ LockHoldersExclusive

(* Nobody is inside tryLock when no thread calls it.                       *)
NoTry == \A t \in Threads : pc[t] \notin TryPcs \cup {"tryHeld"}

USE DEF LockAssumption, Sides, Goto, StoreOwn, Own, Others

-----------------------------------------------------------------------------
(* The flags and the turn stay boolean: an access stores a constant in the *)
(* thread's own flag, sets the turn, or only reads.                        *)
LEMMA FlagsBoolean ==
  ASSUME TypeOK, NEW t \in Threads,
         LockRaise(t) \/ TryRaise(t) \/ LockRest(t) \/ TryRest(t) \/ Unlock(t)
           \/ Restart(t)
  PROVE  flag' \in [Sides -> BOOLEAN] /\ turn' \in BOOLEAN
<1> HIDE DEF Goto, StoreOwn
<1>1. \/ \E value \in BOOLEAN : StoreOwn(t, value)
      \/ flag' = flag /\ turn' = TRUE
      \/ flag' = flag /\ turn' = turn
  <2>1. CASE LockRaise(t) \/ TryRaise(t) \/ Unlock(t) \/ Restart(t)
    BY <2>1 DEF LockRaise, TryRaise, Unlock, UnlockTurn, UnlockFlag, Restart
  <2>2. CASE LockRest(t)
    BY <2>2 DEF LockRest, LockEnter, LockContend, LockOwn, LockDrop, LockTurn, LockReraise
  <2>3. CASE TryRest(t)
    BY <2>3 DEF TryRest, TryTest, TryOwn, TryFail, TryDrop, TryTurn, TryReraise
  <2> QED BY <2>1, <2>2, <2>3
<1>2. ASSUME NEW value \in BOOLEAN, StoreOwn(t, value)
      PROVE  flag' \in [Sides -> BOOLEAN] /\ turn' \in BOOLEAN
  BY <1>2, LockAssumption DEF StoreOwn, TypeOK
<1> QED BY <1>1, <1>2 DEF TypeOK

(* Every access leaves its thread at a known point.                        *)
LEMMA PointsKnown ==
  ASSUME TypeOK, NEW t \in Threads,
         LockRaise(t) \/ TryRaise(t) \/ LockRest(t) \/ TryRest(t) \/ Unlock(t)
           \/ Restart(t)
  PROVE  pc' \in [Threads -> Pcs]
<1> USE DEF TypeOK
<1>1. /\ {"idle", "unlockFlag", "held", "tryHeld"} \subseteq Pcs
      /\ {"lockTest", "lockOwn", "lockDrop", "lockTurn", "lockReraise"} \subseteq Pcs
      /\ {"tryTest", "tryOwn", "tryFail", "tryDrop", "tryTurn", "tryReraise"} \subseteq Pcs
  BY DEF Pcs, LockPcs, TryPcs, HeldPcs
<1>2. CASE LockRaise(t) \/ TryRaise(t) \/ Unlock(t) \/ Restart(t)
  BY <1>1, <1>2 DEF LockRaise, TryRaise, Unlock, UnlockTurn, UnlockFlag, Restart
<1>3. CASE LockRest(t)
  BY <1>1, <1>3 DEF LockRest, LockEnter, LockContend, LockOwn, LockDrop, LockTurn, LockReraise
<1>4. CASE TryRest(t)
  BY <1>1, <1>4 DEF TryRest, TryTest, TryOwn, TryFail, TryDrop, TryTurn, TryReraise
<1> QED BY <1>2, <1>3, <1>4

(* Every access keeps the flags and the turn boolean and the threads at    *)
(* known points, for any threads, restarts and tryLock callers.            *)
THEOREM TypeCorrect == Spec => []TypeOK
<1>1. Init => TypeOK
  BY DEF Init, TypeOK, Pcs
<1>2. ASSUME TypeOK, [Next]_lockVars PROVE TypeOK'
  <2>1. CASE UNCHANGED lockVars
    BY <1>2, <2>1 DEF lockVars, TypeOK
  <2>2. CASE Next
    BY <1>2, <2>2, FlagsBoolean, PointsKnown DEF Next, TypeOK
  <2> QED BY <1>2, <2>1, <2>2
<1> QED BY <1>1, <1>2, PTL DEF Spec

-----------------------------------------------------------------------------
(* A step of thread t leaves every other thread's point alone, and with    *)
(* one thread at each end it leaves their flags alone as well.             *)
LEMMA OthersUntouched ==
  ASSUME OneThreadPerSide, TypeOK, NEW t \in Threads, NEW u \in Threads, t # u,
         LockRaise(t) \/ TryRaise(t) \/ LockRest(t) \/ TryRest(t) \/ Unlock(t)
           \/ Restart(t)
  PROVE  pc'[u] = pc[u] /\ flag'[SideOf[u]] = flag[SideOf[u]]
<1>1. SideOf[t] # SideOf[u]
  BY DEF OneThreadPerSide
<1>2. CASE LockRaise(t) \/ TryRaise(t) \/ Unlock(t) \/ Restart(t)
  BY <1>1, <1>2, LockAssumption
     DEF TypeOK, LockRaise, TryRaise, Unlock, UnlockTurn, UnlockFlag, Restart
<1>3. CASE LockRest(t)
  BY <1>1, <1>3, LockAssumption
     DEF TypeOK, LockRest, LockEnter, LockContend, LockOwn, LockDrop, LockTurn, LockReraise
<1>4. CASE TryRest(t)
  BY <1>1, <1>4, LockAssumption
     DEF TypeOK, TryRest, TryTest, TryOwn, TryFail, TryDrop, TryTurn, TryReraise
<1> QED BY <1>2, <1>3, <1>4

(* The stepping thread re-establishes its own part of FlagUp.              *)
LEMMA OwnFlagUp ==
  ASSUME TypeOK, FlagUp, NEW t \in Threads, pc'[t] \in FlagUpPcs,
         LockRaise(t) \/ TryRaise(t) \/ LockRest(t) \/ TryRest(t) \/ Unlock(t)
           \/ Restart(t)
  PROVE  flag'[SideOf[t]]
<1> USE LockAssumption DEF TypeOK, FlagUp, FlagUpPcs, HeldPcs
<1>1. CASE LockRaise(t) \/ TryRaise(t) \/ Unlock(t) \/ Restart(t)
  BY <1>1 DEF LockRaise, TryRaise, Unlock, UnlockTurn, UnlockFlag, Restart
<1>2. CASE LockRest(t)
  BY <1>2 DEF LockRest, LockEnter, LockContend, LockOwn, LockDrop, LockTurn, LockReraise
<1>3. CASE TryRest(t)
  BY <1>3 DEF TryRest, TryTest, TryOwn, TryFail, TryDrop, TryTurn, TryReraise
<1> QED BY <1>1, <1>2, <1>3

(* The only way to "held" is LockEnter, which read the other flag down.    *)
LEMMA EntryIsLockEnter ==
  ASSUME TypeOK, NEW t \in Threads, pc[t] # "held", pc'[t] = "held",
         LockRaise(t) \/ TryRaise(t) \/ LockRest(t) \/ TryRest(t) \/ Unlock(t)
           \/ Restart(t)
  PROVE  ~Others(t)
<1> USE DEF TypeOK
<1>1. CASE LockRaise(t) \/ TryRaise(t) \/ Unlock(t) \/ Restart(t)
  BY <1>1 DEF LockRaise, TryRaise, Unlock, UnlockTurn, UnlockFlag, Restart
<1>2. CASE LockRest(t)
  BY <1>2 DEF LockRest, LockEnter, LockContend, LockOwn, LockDrop, LockTurn, LockReraise
<1>3. CASE TryRest(t)
  BY <1>3 DEF TryRest, TryTest, TryOwn, TryFail, TryDrop, TryTurn, TryReraise
<1> QED BY <1>1, <1>2, <1>3

(* With one thread at each end two threads that came through lock() never  *)
(* hold the lock together, even when threads also call tryLock, and across *)
(* restarts that find a flag left up.                                      *)
THEOREM LockExclusion ==
  ASSUME OneThreadPerSide
  PROVE  Spec => []LockHoldersExclusive
<1>1. Init => FlagUp /\ LockHoldersExclusive
  BY DEF Init, FlagUp, FlagUpPcs, LockHoldersExclusive
<1>2. ASSUME TypeOK, FlagUp, LockHoldersExclusive, [Next]_lockVars
      PROVE  FlagUp' /\ LockHoldersExclusive'
  <2>1. CASE UNCHANGED lockVars
    BY <1>2, <2>1 DEF lockVars, FlagUp, LockHoldersExclusive
  <2>2. ASSUME NEW t \in Threads,
               LockRaise(t) \/ TryRaise(t) \/ LockRest(t) \/ TryRest(t)
                 \/ Unlock(t) \/ Restart(t)
        PROVE  FlagUp' /\ LockHoldersExclusive'
    <3> USE <1>2
    <3>1. FlagUp'
      BY <2>2, OthersUntouched, OwnFlagUp DEF FlagUp
    <3>2. ASSUME NEW u \in Threads, u # t, pc'[t] = "held", pc'[u] = "held"
          PROVE  FALSE
      <4>1. pc[u] = "held" /\ flag[SideOf[u]]
        BY <2>2, <3>2, OthersUntouched DEF FlagUp, FlagUpPcs
      <4>2. pc[t] # "held"
        BY <3>2, <4>1 DEF LockHoldersExclusive
      <4>3. ~Others(t)
        BY <2>2, <3>2, <4>2, EntryIsLockEnter
      <4>4. SideOf[u] = Other(SideOf[t])
        BY <3>2, LockAssumption DEF OneThreadPerSide, Other
      <4> QED BY <4>1, <4>3, <4>4
    <3>3. ASSUME NEW u \in Threads, NEW v \in Threads, u # t, v # t,
                 pc'[u] = "held", pc'[v] = "held"
          PROVE  u = v
      BY <2>2, <3>3, OthersUntouched DEF LockHoldersExclusive
    <3>4. LockHoldersExclusive'
      BY <3>2, <3>3 DEF LockHoldersExclusive
    <3> QED BY <3>1, <3>4
  <2> QED BY <1>2, <2>1, <2>2 DEF Next
<1> QED BY <1>1, <1>2, TypeCorrect, PTL DEF Spec

(* The ring buffers' use of the lock - one thread at each end and no       *)
(* tryLock - is mutually exclusive for any threads and restarts.           *)
THEOREM Exclusion ==
  ASSUME OneThreadPerSide, TryLockers = {}
  PROVE  Spec => []MutualExclusion
<1>1. Init => NoTry
  BY DEF Init, NoTry, TryPcs
<1>2. ASSUME NoTry, TypeOK, [Next]_lockVars PROVE NoTry'
  <2> USE <1>2 DEF NoTry, TryPcs, TypeOK
  <2>1. CASE UNCHANGED lockVars
    BY <2>1 DEF lockVars
  <2>2. ASSUME NEW t \in Threads, LockRaise(t) \/ Unlock(t) \/ Restart(t)
        PROVE  NoTry'
    BY <2>2 DEF LockRaise, Unlock, UnlockTurn, UnlockFlag, Restart
  <2>3. ASSUME NEW t \in Threads, LockRest(t) PROVE NoTry'
    BY <2>3 DEF LockRest, LockEnter, LockContend, LockOwn, LockDrop, LockTurn, LockReraise
  <2>4. ASSUME NEW t \in Threads, TryRaise(t) \/ TryRest(t) PROVE FALSE
    BY <2>4 DEF TryRaise, TryRest, TryTest, TryOwn, TryFail, TryDrop, TryTurn, TryReraise
  <2> QED BY <2>1, <2>2, <2>3, <2>4 DEF Next
<1>3. NoTry /\ LockHoldersExclusive => MutualExclusion
  BY DEF NoTry, LockHoldersExclusive, MutualExclusion, Holding, HeldPcs
<1> QED BY <1>1, <1>2, <1>3, TypeCorrect, LockExclusion, PTL DEF Spec

=============================================================================

----------------------------- MODULE DekkarLock -----------------------------
(***************************************************************************)
(* The lock both ends of a ring buffer take around every access to the     *)
(* ring's header (libsmipc/ring-buffer/dekkar-lock.cpp).  Its state is     *)
(* three atomic booleans in the shared memory: the two ends' "waiting"     *)
(* flags and a turn.  An end's lock object calls its own flag m_flag1 and  *)
(* the other end's m_flag2.  Every load and every store is sequentially    *)
(* consistent (the default memory order) and is one step here.             *)
(***************************************************************************)
EXTENDS Naturals

CONSTANTS
    Threads,      \* the threads that call the lock objects
    SideOf,       \* the end of the ring, hence the lock object, a thread uses
    TryLockers,   \* the threads that also call tryLock
    Mortal        \* the threads whose process may be killed and started again

(* RxRingBuffer and TxRingBuffer each build one lock object on the header. *)
Sides == {"rx", "tx"}

Other(s) == IF s = "rx" THEN "tx" ELSE "rx"

ASSUME LockAssumption ==
    /\ SideOf \in [Threads -> Sides]
    /\ TryLockers \subseteq Threads
    /\ Mortal \subseteq Threads

(* The way the ring buffers are meant to be used: one thread at each end.  *)
OneThreadPerSide == \A t, u \in Threads : SideOf[t] = SideOf[u] => t = u

VARIABLES
    flag,   \* RingBufferHeader.rxWaiting and .txWaiting, by side
    turn,   \* RingBufferHeader.turn
    pc      \* the next atomic access of each thread

lockVars == <<flag, turn, pc>>

LockPcs == {"lockTest", "lockOwn", "lockDrop", "lockTurn", "lockReraise"}
TryPcs == {"tryTest", "tryOwn", "tryFail", "tryDrop", "tryTurn", "tryReraise"}
HeldPcs == {"held", "tryHeld"}
Pcs == {"idle", "unlockFlag"} \cup LockPcs \cup TryPcs \cup HeldPcs

(* A fresh ring header has every boolean false.                            *)
Init ==
    /\ flag = [s \in Sides |-> FALSE]
    /\ turn = FALSE
    /\ pc = [t \in Threads |-> "idle"]

-----------------------------------------------------------------------------
(* The steps' common shapes.                                               *)

Goto(t, from, to) == pc[t] = from /\ pc' = [pc EXCEPT ![t] = to]

(* m_flag1.store(value)                                                    *)
StoreOwn(t, value) == flag' = [flag EXCEPT ![SideOf[t]] = value] /\ UNCHANGED turn

(* m_flag1.load() and m_flag2.load()                                       *)
Own(t) == flag[SideOf[t]]
Others(t) == flag[Other(SideOf[t])]

-----------------------------------------------------------------------------
(* lock()                                                                  *)

(* Mutated form of LockRaise: a flag for every thread, not for every side. *)
LockRaiseOfThread(t) ==
    /\ Goto(t, "idle", "lockTest")
    /\ flag' = [s \in Sides \cup {t} |-> s = t \/ flag[s]]
    /\ UNCHANGED turn

LockRaise(t) == Goto(t, "idle", "lockTest") /\ StoreOwn(t, TRUE)

LockEnter(t) ==
    /\ ~Others(t)
    /\ Goto(t, "lockTest", "held")
    /\ UNCHANGED <<flag, turn>>

LockContend(t) ==
    /\ Others(t)
    /\ Goto(t, "lockTest", "lockOwn")
    /\ UNCHANGED <<flag, turn>>

LockOwn(t) ==
    /\ Goto(t, "lockOwn", IF Own(t) THEN "lockDrop" ELSE "lockTest")
    /\ UNCHANGED <<flag, turn>>

LockDrop(t) == Goto(t, "lockDrop", "lockTurn") /\ StoreOwn(t, FALSE)

(* Mutated form of LockTurn: the test of the turn the other way round.     *)
LockTurnInverted(t) ==
    /\ turn
    /\ Goto(t, "lockTurn", "lockReraise")
    /\ UNCHANGED <<flag, turn>>

(* While turn reads true the thread spins here, which changes nothing.     *)
LockTurn(t) ==
    /\ ~turn
    /\ Goto(t, "lockTurn", "lockReraise")
    /\ UNCHANGED <<flag, turn>>

(* Mutated form of LockReraise: it enters like tryLock(), without another  *)
(* look at the other flag.                                                 *)
LockReraiseEnters(t) == Goto(t, "lockReraise", "held") /\ StoreOwn(t, TRUE)

LockReraise(t) == Goto(t, "lockReraise", "lockTest") /\ StoreOwn(t, TRUE)

-----------------------------------------------------------------------------
(* unlock()                                                                *)

UnlockTurn(t) ==
    /\ \E held \in HeldPcs : Goto(t, held, "unlockFlag")
    /\ turn' = TRUE
    /\ UNCHANGED flag

UnlockFlag(t) == Goto(t, "unlockFlag", "idle") /\ StoreOwn(t, FALSE)

-----------------------------------------------------------------------------
(* tryLock()                                                               *)

TryRaise(t) ==
    /\ t \in TryLockers
    /\ Goto(t, "idle", "tryTest")
    /\ StoreOwn(t, TRUE)

TryTest(t) ==
    /\ Goto(t, "tryTest", IF Others(t) THEN "tryFail" ELSE "tryOwn")
    /\ UNCHANGED <<flag, turn>>

TryOwn(t) ==
    /\ Goto(t, "tryOwn", IF Own(t) THEN "tryDrop" ELSE "tryFail")
    /\ UNCHANGED <<flag, turn>>

TryFail(t) == Goto(t, "tryFail", "idle") /\ StoreOwn(t, FALSE)

TryDrop(t) == Goto(t, "tryDrop", "tryTurn") /\ StoreOwn(t, FALSE)

TryTurn(t) ==
    /\ Goto(t, "tryTurn", IF turn THEN "idle" ELSE "tryReraise")
    /\ UNCHANGED <<flag, turn>>

(* The own flag goes up again and tryLock returns true: the other flag is  *)
(* not looked at any more.                                                 *)
TryReraise(t) == Goto(t, "tryReraise", "tryHeld") /\ StoreOwn(t, TRUE)

-----------------------------------------------------------------------------
(* A process is killed between two accesses and started again: its new     *)
(* lock object is built on the header as it is (the constructor only keeps *)
(* references), so the flag stays as the dead process left it.             *)
Restart(t) ==
    /\ t \in Mortal
    /\ \E at \in Pcs \ {"idle"} : Goto(t, at, "idle")
    /\ UNCHANGED <<flag, turn>>

-----------------------------------------------------------------------------
(* The accesses of a lock() call after its first store.                    *)
LockRest(t) ==
    \/ LockEnter(t)
    \/ LockContend(t)
    \/ LockOwn(t)
    \/ LockDrop(t)
    \/ LockTurn(t)
    \/ LockReraise(t)

TryRest(t) ==
    \/ TryTest(t)
    \/ TryOwn(t)
    \/ TryFail(t)
    \/ TryDrop(t)
    \/ TryTurn(t)
    \/ TryReraise(t)

Unlock(t) == UnlockTurn(t) \/ UnlockFlag(t)

Next ==
    \E t \in Threads :
        \/ LockRaise(t)
        \/ TryRaise(t)
        \/ LockRest(t)
        \/ TryRest(t)
        \/ Unlock(t)
        \/ Restart(t)

Spec == Init /\ [][Next]_lockVars

(* A thread inside a call keeps running and a holder, whose critical       *)
(* sections are bounded and end in a std::lock_guard destructor, unlocks.  *)
(* Nobody has to start a call.                                             *)
Fairness ==
    \A t \in Threads :
        WF_lockVars(LockRest(t)) /\ WF_lockVars(TryRest(t)) /\ WF_lockVars(Unlock(t))

FairSpec == Spec /\ Fairness

-----------------------------------------------------------------------------
(* Properties.                                                             *)

TypeOK ==
    /\ flag \in [Sides -> BOOLEAN]
    /\ turn \in BOOLEAN
    /\ pc \in [Threads -> Pcs]

Holding(t) == pc[t] \in HeldPcs

(* Two threads never hold the lock at once, so the two ends' critical      *)
(* sections over the ring header never overlap.                            *)
MutualExclusion ==
    \A t, u \in Threads : Holding(t) /\ Holding(u) => t = u

(* Whatever tryLock does on either end, two holders that both came through *)
(* lock() never coexist: tryLock can let a second holder in, never a       *)
(* second lock() caller.                                                   *)
LockHoldersExclusive ==
    \A t, u \in Threads : pc[t] = "held" /\ pc[u] = "held" => t = u

(* At line 41 while the turn is set: unlock() never gives it back, so that *)
(* the thread waits for good.                                              *)
Stranded(t) == pc[t] = "lockTurn" /\ turn

(* Once an unlock() has set the turn (:52), no lock() call goes round its  *)
(* loop (:36-45) for ever, whatever the other end does and at whatever     *)
(* access it is killed: each returns, or its process is killed, or it      *)
(* comes to rest at line 41 for good.  It rests there with its flag down,  *)
(* so that it keeps out nobody who looks from then on.  (Both ends may     *)
(* come to rest.)                                                          *)
LockSettles ==
    \A t \in Threads :
        <>turn => []<>(pc[t] \notin LockPcs) \/ <>[](Stranded(t) /\ ~Own(t))

(* Every lock() call returns with the lock held.                           *)
LockReturns == \A t \in Threads : pc[t] \in LockPcs ~> pc[t] = "held"

=============================================================================

----------------------------- MODULE SimpleLock -----------------------------
(***************************************************************************)
(* nn::os::SimpleLock: a lock in one 32-bit counter and an address         *)
(* arbiter.  The counter holds two things at once: its sign says whether   *)
(* the lock is held, its magnitude is one more than the number of threads  *)
(* registered as waiting for it.                                           *)
(*                                                                         *)
(* Each action is one AtomicUpdateConditional on the counter (a load-      *)
(* exclusive / store-exclusive loop: nothing intervenes in the iteration   *)
(* that succeeds) or one call of the arbiter.  Between two of them any     *)
(* other thread may run.                                                   *)
(***************************************************************************)
EXTENDS AddressArbiter

CONSTANT Threads

ASSUME ThreadsFinite == IsFiniteSet(Threads)

VARIABLES
  counter,          \* m_Counter
  pc                \* pc[t]: where t is in its use of the lock

vars == <<counter, pc>>

(***************************************************************************)
(* Where a thread can be.  "register" and "retry" are the two updates of   *)
(* the first loop of LockImpl, "wait" and "take" those of the second,      *)
(* "asleep" is inside the arbiter, "signal" is the end of Unlock.          *)
(***************************************************************************)
Places == {"idle", "register", "retry", "wait", "asleep", "take", "held", "signal"}

Registered == {t \in Threads : pc[t] \in {"wait", "asleep", "take"}}
Asleep     == {t \in Threads : pc[t] = "asleep"}
Holders    == {t \in Threads : pc[t] = "held"}

Goto(t, place) == pc' = [pc EXCEPT ![t] = place]

Init ==
  /\ counter = 1
  /\ pc = [t \in Threads |-> "idle"]

(* ReverseIfPositiveUpdater: a free lock, and only a free one, is taken.   *)
ReverseIfPositive ==
  /\ counter > 0
  /\ counter' = -counter

(* ReverseUpdater: the holder gives the lock back, whoever is counted.      *)
Reverse == counter' = -counter

(* DecrementIfNegativeUpdater: while the lock is held, one more waiter.    *)
DecrementIfNegative ==
  /\ counter < 0
  /\ counter' = counter - 1

(* ReverseAndIncrementIfPositiveUpdater: a free lock is taken by a waiter, *)
(* which is one waiter less.                                               *)
ReverseAndIncrementIfPositive ==
  /\ counter > 0
  /\ counter' = -counter + 1

(* TryLock as its callers use it alone: a failure returns FALSE.           *)
TryLock(t) ==
  /\ pc[t] = "idle"
  /\ \/ ReverseIfPositive /\ Goto(t, "held")
     \/ counter <= 0 /\ UNCHANGED vars

(* Lock: TryLock, then LockImpl when that fails.                           *)
Lock(t) ==
  /\ pc[t] = "idle"
  /\ \/ ReverseIfPositive /\ Goto(t, "held")
     \/ counter <= 0 /\ Goto(t, "register") /\ UNCHANGED counter

(* Fault: a waiter is registered whatever the sign of the counter.         *)
RegisterUnconditionally(t) ==
  /\ pc[t] = "register"
  /\ counter' = counter - 1
  /\ Goto(t, "wait")

(* LockImpl, the first loop: count oneself a waiter, or find the lock free.*)
Register(t) ==
  /\ pc[t] = "register"
  /\ \/ DecrementIfNegative /\ Goto(t, "wait")
     \/ counter >= 0 /\ Goto(t, "retry") /\ UNCHANGED counter

Retry(t) ==
  /\ pc[t] = "retry"
  /\ \/ ReverseIfPositive /\ Goto(t, "held")
     \/ counter <= 0 /\ Goto(t, "register") /\ UNCHANGED counter

(* Fault: the thread sleeps on what it saw when it registered.             *)
WaitUncompared(t) ==
  /\ pc[t] = "wait"
  /\ Goto(t, "asleep")
  /\ UNCHANGED counter

(* The second loop.  WaitIfLessThan(0): sleep while the lock is held.      *)
Wait(t) ==
  /\ pc[t] = "wait"
  /\ Goto(t, IF Sleeps(counter, 0) THEN "asleep" ELSE "take")
  /\ UNCHANGED counter

(* Fault: the waiter that takes the lock stays counted.                    *)
TakeStaysCounted(t) ==
  /\ pc[t] = "take"
  /\ \/ ReverseIfPositive /\ Goto(t, "held")
     \/ counter <= 0 /\ Goto(t, "wait") /\ UNCHANGED counter

(* Fault: the waiter does not test again after its wakeup.                 *)
TakeUntested(t) ==
  /\ pc[t] = "take"
  /\ counter' = -counter + 1
  /\ Goto(t, "held")

(* The end of the second loop: take the lock if it is free, or wait again. *)
Take(t) ==
  /\ pc[t] = "take"
  /\ \/ ReverseAndIncrementIfPositive /\ Goto(t, "held")
     \/ counter <= 0 /\ Goto(t, "wait") /\ UNCHANGED counter

(* Fault: the only waiter is not counted as one.                           *)
UnlockOffByOne(t) ==
  /\ pc[t] = "held"
  /\ counter' = -counter
  /\ Goto(t, IF counter' > 2 THEN "signal" ELSE "idle")

(* Unlock reverses the counter, and signals when anyone is registered.     *)
Unlock(t) ==
  /\ pc[t] = "held"
  /\ Reverse
  /\ Goto(t, IF counter' > 1 THEN "signal" ELSE "idle")

Signal(t) ==
  /\ pc[t] = "signal"
  /\ \E woken \in WakeSets(Asleep, 1) :
       pc' = [u \in Threads |-> IF u \in woken THEN "take"
                                ELSE IF u = t THEN "idle" ELSE pc[u]]
  /\ UNCHANGED counter

(* What a thread inside a call, or a holder, does next; and what it is     *)
(* free never to do: call Lock or TryLock again.                           *)
Step(t) ==
  Register(t) \/ Retry(t) \/ Wait(t) \/ Take(t) \/ Unlock(t) \/ Signal(t)

Next == \E t \in Threads : Lock(t) \/ TryLock(t) \/ Step(t)

Spec == Init /\ [][Next]_vars

(* A thread in the middle of a call runs on, and a holder unlocks.         *)
FairSpec == Spec /\ \A t \in Threads : WF_vars(Step(t))

-----------------------------------------------------------------------------
(* Type invariant.  The magnitude of the counter never exceeds one more    *)
(* than the number of threads, and the counter is never zero, the value    *)
(* on which no update of the lock succeeds.                                *)
TypeOK ==
  /\ counter \in -(Cardinality(Threads) + 1) .. (Cardinality(Threads) + 1)
  /\ counter # 0
  /\ pc \in [Threads -> Places]

(* The counter tells the truth about the threads: it is negative exactly   *)
(* while some thread holds the lock, no two threads hold it, and its       *)
(* magnitude counts every thread that LockImpl registered and no other.    *)
MutualExclusion == \A t, u \in Holders : t = u

CounterEncodesState ==
  /\ MutualExclusion
  /\ counter < 0 <=> Holders # {}
  /\ Cardinality(Registered) = (IF counter < 0 THEN -counter ELSE counter) - 1

(* No lost wakeup: the lock is never left free over a sleeping thread      *)
(* unless a thread that will look at it again is awake, either an Unlock   *)
(* that has yet to signal or a registered waiter on its way to the lock.   *)
NoLostWakeup ==
  counter > 0 /\ Asleep # {} =>
    \E t \in Threads : pc[t] \in {"signal", "take", "wait"}

(* Seen from outside, the counter protocol is a mutex: whatever the        *)
(* interleaving of the updates, threads get in one at a time.              *)
ModeOf(place) ==
  CASE place \in {"idle", "signal"} -> "out"
    [] place = "held"               -> "in"
    [] OTHER                        -> "waiting"

Mode == [t \in Threads |-> ModeOf(pc[t])]

Abstract == INSTANCE Mutex WITH mode <- Mode

ImplementsMutex == Abstract!Spec

(* While any thread is inside Lock, the lock keeps being taken: Unlock's   *)
(* single signal is enough to pass it on.  (Which thread gets it is open:  *)
(* a thread in TryLock may overtake the one that was woken.)               *)
LockIsPassedOn ==
  (\E t \in Threads : Mode[t] = "waiting") ~> (\E t \in Threads : Mode[t] = "in")

=============================================================================

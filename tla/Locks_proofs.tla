---------------------------- MODULE Locks_proofs ----------------------------
(***************************************************************************)
(* Proofs about SimpleLock, and about CriticalSection, whose lock is a     *)
(* SimpleLock, for every finite set of threads and every depth of nesting. *)
(***************************************************************************)
EXTENDS CriticalSection, FiniteSetTheorems, TLAPS

(***************************************************************************)
(* SimpleLock.                                                             *)
(***************************************************************************)

(* The part of the type invariant that needs no counting.                  *)
TypeInv ==
  /\ counter \in Int
  /\ pc \in [Threads -> Places]

(* The inductive invariant: types, and the meaning of the counter.         *)
IInv == TypeInv /\ CounterEncodesState

USE DEF Holders

(* A step that registers nobody, takes nobody off and keeps the holders    *)
(* and the counter keeps the meaning of the counter.                       *)
LEMMA SameHoldersSameCount ==
  ASSUME CounterEncodesState, counter' = counter,
         Holders' = Holders, Registered' = Registered
  PROVE  CounterEncodesState'
  BY DEF CounterEncodesState, MutualExclusion

(* The sets of threads the meaning is about are finite, so that they can   *)
(* be counted.                                                             *)
LEMMA RegisteredFinite ==
  /\ IsFiniteSet(Registered)
  /\ Cardinality(Registered) \in Nat
  /\ Cardinality(Registered) <= Cardinality(Threads)
<1>1. Registered \in SUBSET Threads
  BY DEF Registered
<1>2. IsFiniteSet(Registered) /\ Cardinality(Registered) <= Cardinality(Threads)
  BY <1>1, ThreadsFinite, FS_Subset
<1>3. QED
  BY <1>2, FS_CardinalityType

(* Taking a free lock from outside the waiters makes its taker the only    *)
(* holder.                                                                 *)
LEMMA TakenFromOutside ==
  ASSUME IInv, NEW t \in Threads, pc[t] \in {"idle", "retry"},
         ReverseIfPositive, Goto(t, "held")
  PROVE  IInv'
<1> USE DEF IInv, TypeInv, Goto, ReverseIfPositive, Places
<1>1. TypeInv'
  OBVIOUS
<1>2. Holders = {}
  BY DEF CounterEncodesState
<1>3. Holders' = {t}
  BY <1>2
<1>4. Registered' = Registered
  BY DEF Registered
<1>5. counter' < 0 /\ -counter' = counter
  OBVIOUS
<1>6. CounterEncodesState'
  BY <1>3, <1>4, <1>5 DEF CounterEncodesState, MutualExclusion
<1>7. QED
  BY <1>1, <1>6

LEMMA LockKeepsIInv ==
  ASSUME IInv, NEW t \in Threads, Lock(t) \/ TryLock(t)
  PROVE  IInv'
<1> USE DEF IInv, TypeInv, Goto, Places
<1>1. CASE ReverseIfPositive /\ Goto(t, "held")
  BY <1>1, TakenFromOutside DEF Lock, TryLock
<1>2. CASE counter <= 0 /\ Goto(t, "register") /\ UNCHANGED counter
  <2>1. TypeInv' /\ Holders' = Holders /\ Registered' = Registered
    BY <1>2 DEF Lock, TryLock, Registered, vars
  <2>2. QED
    BY <1>2, <2>1, SameHoldersSameCount
<1>3. CASE UNCHANGED vars
  BY <1>3 DEF vars, CounterEncodesState, MutualExclusion, Registered
<1>4. QED
  BY <1>1, <1>2, <1>3 DEF Lock, TryLock

LEMMA RegisterKeepsIInv ==
  ASSUME IInv, NEW t \in Threads, Register(t)
  PROVE  IInv'
<1> USE DEF IInv, TypeInv, Goto, Places
<1>1. CASE counter < 0 /\ counter' = counter - 1 /\ Goto(t, "wait")
  <2>1. TypeInv' /\ Holders' = Holders
    BY <1>1 DEF Register, DecrementIfNegative
  <2>2. t \notin Registered /\ Registered' = Registered \cup {t}
    BY <1>1 DEF Register, DecrementIfNegative, Registered
  <2>3. Cardinality(Registered') = Cardinality(Registered) + 1
    BY <2>2, RegisteredFinite, FS_AddElement
  <2>4. CounterEncodesState'
    BY <1>1, <2>1, <2>3, RegisteredFinite DEF CounterEncodesState, MutualExclusion
  <2>5. QED
    BY <2>1, <2>4
<1>2. CASE counter >= 0 /\ Goto(t, "retry") /\ UNCHANGED counter
  <2>1. TypeInv' /\ Holders' = Holders /\ Registered' = Registered
    BY <1>2 DEF Register, DecrementIfNegative, Registered
  <2>2. QED
    BY <1>2, <2>1, SameHoldersSameCount
<1>3. QED
  BY <1>1, <1>2 DEF Register, DecrementIfNegative

LEMMA RetryKeepsIInv ==
  ASSUME IInv, NEW t \in Threads, Retry(t)
  PROVE  IInv'
<1> USE DEF IInv, TypeInv, Goto, Places
<1>1. CASE ReverseIfPositive /\ Goto(t, "held")
  BY <1>1, TakenFromOutside DEF Retry
<1>2. CASE counter <= 0 /\ Goto(t, "register") /\ UNCHANGED counter
  <2>1. TypeInv' /\ Holders' = Holders /\ Registered' = Registered
    BY <1>2 DEF Retry, Registered
  <2>2. QED
    BY <1>2, <2>1, SameHoldersSameCount
<1>3. QED
  BY <1>1, <1>2 DEF Retry

LEMMA WaitKeepsIInv ==
  ASSUME IInv, NEW t \in Threads, Wait(t)
  PROVE  IInv'
<1> USE DEF IInv, TypeInv, Goto, Places
<1>1. TypeInv' /\ Holders' = Holders /\ Registered' = Registered
  BY DEF Wait, Registered
<1>2. QED
  BY <1>1, SameHoldersSameCount DEF Wait

LEMMA TakeKeepsIInv ==
  ASSUME IInv, NEW t \in Threads, Take(t)
  PROVE  IInv'
<1> USE DEF IInv, TypeInv, Goto, Places
<1>1. CASE counter > 0 /\ counter' = -counter + 1 /\ Goto(t, "held")
  <2>1. TypeInv'
    BY <1>1 DEF Take, ReverseAndIncrementIfPositive
  <2>2. Holders = {}
    BY <1>1 DEF CounterEncodesState
  <2>3. Holders' = {t}
    BY <1>1, <2>2 DEF Take, ReverseAndIncrementIfPositive
  <2>4. t \in Registered /\ Registered' = Registered \ {t}
    BY <1>1 DEF Take, ReverseAndIncrementIfPositive, Registered
  <2>5. Cardinality(Registered') = Cardinality(Registered) - 1
    BY <2>4, RegisteredFinite, FS_RemoveElement
  <2>6. Cardinality(Registered) >= 1
    BY <2>4, RegisteredFinite, FS_EmptySet
  <2>7. CounterEncodesState'
    BY <1>1, <2>3, <2>5, <2>6, RegisteredFinite DEF CounterEncodesState, MutualExclusion
  <2>8. QED
    BY <2>1, <2>7
<1>2. CASE counter <= 0 /\ Goto(t, "wait") /\ UNCHANGED counter
  <2>1. TypeInv' /\ Holders' = Holders /\ Registered' = Registered
    BY <1>2 DEF Take, ReverseAndIncrementIfPositive, Registered
  <2>2. QED
    BY <1>2, <2>1, SameHoldersSameCount
<1>3. QED
  BY <1>1, <1>2 DEF Take, ReverseAndIncrementIfPositive

LEMMA UnlockKeepsIInv ==
  ASSUME IInv, NEW t \in Threads, Unlock(t)
  PROVE  IInv'
<1> USE DEF IInv, TypeInv, Goto, Places
<1>1. TypeInv' /\ Registered' = Registered
  BY DEF Unlock, Reverse, Registered
<1>2. counter < 0
  BY DEF Unlock, Reverse, CounterEncodesState
<1>3. counter' > 0 /\ counter' = -counter
  BY <1>2 DEF Unlock, Reverse
<1>4. Holders' = {}
  BY DEF Unlock, Reverse, CounterEncodesState, MutualExclusion
<1>5. CounterEncodesState'
  BY <1>1, <1>2, <1>3, <1>4 DEF CounterEncodesState, MutualExclusion
<1>6. QED
  BY <1>1, <1>5

LEMMA SignalKeepsIInv ==
  ASSUME IInv, NEW t \in Threads, Signal(t)
  PROVE  IInv'
<1> USE DEF IInv, TypeInv, Places
<1>1. PICK woken \in WakeSets(Asleep, 1) :
        pc' = [u \in Threads |-> IF u \in woken THEN "take"
                                 ELSE IF u = t THEN "idle" ELSE pc[u]]
  BY DEF Signal
<1>2. \A u \in woken : u \in Threads /\ pc[u] = "asleep"
  BY DEF WakeSets, Asleep
<1>3. TypeInv' /\ Holders' = Holders /\ Registered' = Registered
  BY <1>1, <1>2 DEF Signal, Registered
<1>4. QED
  BY <1>3, SameHoldersSameCount DEF Signal

-----------------------------------------------------------------------------
LEMMA InitIInv == Init => IInv
<1> SUFFICES ASSUME Init PROVE IInv
  OBVIOUS
<1>1. TypeInv /\ Holders = {} /\ Registered = {}
  BY DEF Init, TypeInv, Places, Registered
<1>2. Cardinality(Registered) = 0
  BY <1>1, FS_EmptySet
<1>3. QED
  BY <1>1, <1>2 DEF Init, IInv, CounterEncodesState, MutualExclusion

LEMMA NextIInv == IInv /\ [Next]_vars => IInv'
<1> SUFFICES ASSUME IInv, [Next]_vars PROVE IInv'
  OBVIOUS
<1>1. CASE UNCHANGED vars
  BY <1>1 DEF vars, IInv, TypeInv, CounterEncodesState, MutualExclusion, Registered
<1>2. ASSUME NEW t \in Threads, Lock(t) \/ TryLock(t)
      PROVE  IInv'
  BY <1>2, LockKeepsIInv
<1>3. ASSUME NEW t \in Threads, Step(t)
      PROVE  IInv'
  BY <1>3, RegisterKeepsIInv, RetryKeepsIInv, WaitKeepsIInv, TakeKeepsIInv,
     UnlockKeepsIInv, SignalKeepsIInv DEF Step
<1>4. QED
  BY <1>1, <1>2, <1>3 DEF Next

(* The counter always encodes the state of the lock: its sign is whether   *)
(* it is held, its magnitude the number of registered waiters plus one,    *)
(* and at most one thread holds it, for any number of threads.             *)
THEOREM CounterCorrect == Spec => []CounterEncodesState
<1>1. IInv => CounterEncodesState
  BY DEF IInv
<1>2. QED
  BY <1>1, InitIInv, NextIInv, PTL DEF Spec

THEOREM IInvCorrect == Spec => []IInv
  BY InitIInv, NextIInv, PTL DEF Spec

LEMMA IInvImpliesTypeOK == IInv => TypeOK
<1> SUFFICES ASSUME IInv PROVE TypeOK
  OBVIOUS
<1>1. Cardinality(Threads) \in Nat
  BY ThreadsFinite, FS_CardinalityType
<1>2. counter # 0 /\ counter \in -(Cardinality(Threads) + 1) .. (Cardinality(Threads) + 1)
  BY <1>1, RegisteredFinite DEF IInv, TypeInv, CounterEncodesState
<1>3. QED
  BY <1>2 DEF IInv, TypeInv, TypeOK

(* Types, with the bounds on the counter: its magnitude stays within the   *)
(* number of threads plus one, so that 32 bits are enough, and it is never *)
(* zero, where no update would succeed.                                    *)
THEOREM TypeCorrect == Spec => []TypeOK
  BY IInvImpliesTypeOK, IInvCorrect, PTL

-----------------------------------------------------------------------------
(* No wakeup is lost.  NoLostWakeup is inductive once the counter is known *)
(* to encode the state: a lock freed over a sleeping thread has a counter  *)
(* above 1, so that its Unlock goes on to signal.                          *)
LEMMA NextNoLostWakeup ==
  ASSUME IInv, NoLostWakeup, [Next]_vars
  PROVE  NoLostWakeup'
<1> USE DEF IInv, TypeInv, Places, Goto, Asleep, NoLostWakeup
<1>1. CASE UNCHANGED vars
  BY <1>1 DEF vars
<1>2. ASSUME NEW t \in Threads, Lock(t) \/ TryLock(t)
      PROVE  NoLostWakeup'
  BY <1>2 DEF Lock, TryLock, ReverseIfPositive, vars
<1>3. ASSUME NEW t \in Threads, Register(t)
      PROVE  NoLostWakeup'
  BY <1>3 DEF Register, DecrementIfNegative
<1>4. ASSUME NEW t \in Threads, Retry(t)
      PROVE  NoLostWakeup'
  BY <1>4 DEF Retry, ReverseIfPositive
<1>5. ASSUME NEW t \in Threads, Wait(t)
      PROVE  NoLostWakeup'
  BY <1>5 DEF Wait, Sleeps
<1>6. ASSUME NEW t \in Threads, Take(t)
      PROVE  NoLostWakeup'
  BY <1>6 DEF Take, ReverseAndIncrementIfPositive
<1>7. ASSUME NEW t \in Threads, Unlock(t)
      PROVE  NoLostWakeup'
  <2>1. counter < 0
    BY <1>7 DEF Unlock, Reverse, CounterEncodesState
  <2>2. CASE Asleep' = {}
    BY <2>2
  <2>3. CASE Asleep' # {}
    <3>1. Registered # {}
      BY <1>7, <2>3 DEF Unlock, Reverse, Registered
    <3>2. Cardinality(Registered) >= 1
      BY <3>1, RegisteredFinite, FS_EmptySet
    <3>3. counter' > 1
      BY <1>7, <2>1, <3>2, RegisteredFinite DEF Unlock, Reverse, CounterEncodesState
    <3>4. pc'[t] = "signal"
      BY <1>7, <3>3 DEF Unlock, Reverse
    <3>5. QED
      BY <3>4
  <2>4. QED
    BY <2>2, <2>3
<1>8. ASSUME NEW t \in Threads, Signal(t)
      PROVE  NoLostWakeup'
  <2>1. PICK woken \in WakeSets(Asleep, 1) :
          pc' = [u \in Threads |-> IF u \in woken THEN "take"
                                   ELSE IF u = t THEN "idle" ELSE pc[u]]
    BY <1>8 DEF Signal
  <2>2. woken \subseteq Asleep /\ t \notin Asleep
    BY <1>8 DEF WakeSets, Signal
  <2>3. CASE Asleep = {}
    BY <2>1, <2>2, <2>3
  <2>4. CASE Asleep # {}
    <3>1. woken # {}
      <4>1. IsFiniteSet(Asleep)
        BY ThreadsFinite, FS_Subset
      <4>2. Cardinality(Asleep) \in Nat /\ Cardinality(Asleep) # 0
        BY <2>4, <4>1, FS_EmptySet, FS_CardinalityType
      <4>3. Cardinality(woken) = 1
        BY <4>2 DEF WakeSets, NumWoken
      <4>4. QED
        BY <4>3, FS_EmptySet
    <3>2. PICK u \in woken : pc'[u] = "take"
      BY <2>1, <2>2, <3>1
    <3>3. QED
      BY <2>2, <3>2
  <2>5. QED
    BY <2>3, <2>4
<1>9. QED
  BY <1>1, <1>2, <1>3, <1>4, <1>5, <1>6, <1>7, <1>8 DEF Next, Step

(* The lock is never left free over a sleeping thread with nobody awake    *)
(* that will pass it on: Unlock's separate update and signal, and the      *)
(* separate registration and sleep of LockImpl, lose no wakeup.            *)
THEOREM NoWakeupIsLost == Spec => []NoLostWakeup
<1>1. Init => NoLostWakeup
  BY DEF Init, NoLostWakeup, Asleep
<1>2. IInv /\ NoLostWakeup /\ [Next]_vars => NoLostWakeup'
  BY NextNoLostWakeup
<1>3. QED
  BY <1>1, <1>2, IInvCorrect, PTL DEF Spec

-----------------------------------------------------------------------------
(* What the mapping to the abstract mutex says of a place.                 *)
LEMMA ModeOfPlace ==
  /\ \A p \in {"idle", "signal"} : ModeOf(p) = "out"
  /\ ModeOf("held") = "in"
  /\ \A p \in {"register", "retry", "wait", "asleep", "take"} : ModeOf(p) = "waiting"
  BY DEF ModeOf

(* A step that moves one thread to a place changes its mode alone.         *)
LEMMA ModeAfterGoto ==
  ASSUME TypeInv, NEW t \in Threads, NEW p, Goto(t, p)
  PROVE  Mode' = [Mode EXCEPT ![t] = ModeOf(p)]
  BY DEF Mode, Goto, TypeInv

(* The abstract mutex is free exactly when the counter is positive.        *)
LEMMA FreeIsPositive ==
  ASSUME IInv
  PROVE  Abstract!Free <=> counter > 0
<1>1. \A t \in Threads : Mode[t] = "in" <=> t \in Holders
  BY ModeOfPlace DEF Mode, IInv, TypeInv, Places
<1>2. counter # 0
  BY RegisteredFinite DEF IInv, TypeInv, CounterEncodesState
<1>3. QED
  BY <1>1, <1>2 DEF Abstract!Free, IInv, TypeInv, CounterEncodesState

(* Every way to take the lock is a step of the abstract mutex that lets a  *)
(* thread in.                                                              *)
LEMMA TakingLetsIn ==
  ASSUME IInv, NEW t \in Threads, pc[t] \in Places \ {"held"}, counter > 0,
         Goto(t, "held")
  PROVE  Abstract!LetIn(t)
<1>1. Mode' = [Mode EXCEPT ![t] = "in"]
  BY ModeAfterGoto, ModeOfPlace DEF IInv
<1>2. Mode[t] # "in"
  BY ModeOfPlace DEF Mode, Places
<1>3. QED
  BY <1>1, <1>2, FreeIsPositive DEF Abstract!LetIn

(* A step from one waiting place to another is invisible.                  *)
LEMMA WaitingStaysWaiting ==
  ASSUME IInv, NEW t \in Threads,
         pc[t] \in {"register", "retry", "wait", "asleep", "take"},
         NEW p \in {"register", "retry", "wait", "asleep", "take"}, Goto(t, p)
  PROVE  UNCHANGED Mode
<1>1. ModeOf(pc[t]) = ModeOf(p)
  BY ModeOfPlace
<1>2. \A u \in Threads : ModeOf(pc'[u]) = ModeOf(pc[u])
  BY <1>1 DEF Goto, IInv, TypeInv
<1>3. QED
  BY <1>2 DEF Mode

LEMMA StepImplementsMutex ==
  ASSUME IInv, [Next]_vars
  PROVE  [Abstract!Next]_Mode
<1> USE DEF Abstract!Next
<1>1. CASE UNCHANGED vars
  BY <1>1 DEF vars, Mode
<1>2. ASSUME NEW t \in Threads, Lock(t) \/ TryLock(t)
      PROVE  [Abstract!Next]_Mode
  <2>1. CASE ReverseIfPositive /\ Goto(t, "held")
    BY <1>2, <2>1, TakingLetsIn DEF Lock, TryLock, Places, ReverseIfPositive
  <2>2. CASE Goto(t, "register")
    <3>1. pc[t] = "idle"
      BY <1>2 DEF Lock, TryLock
    <3>2. Mode[t] = "out" /\ Mode' = [Mode EXCEPT ![t] = "waiting"]
      BY <2>2, <3>1, ModeAfterGoto, ModeOfPlace DEF Mode, IInv
    <3>3. Abstract!Ask(t)
      BY <3>2 DEF Abstract!Ask
    <3>4. QED
      BY <3>3
  <2>3. CASE UNCHANGED vars
    BY <2>3 DEF vars, Mode
  <2>4. QED
    BY <1>2, <2>1, <2>2, <2>3 DEF Lock, TryLock
<1>3. ASSUME NEW t \in Threads, Register(t) \/ Retry(t) \/ Wait(t) \/ Take(t)
      PROVE  [Abstract!Next]_Mode
  <2>1. CASE Goto(t, "held")
    BY <1>3, <2>1, TakingLetsIn DEF Register, DecrementIfNegative, Retry, Wait, Take,
       ReverseAndIncrementIfPositive, Places,
       ReverseIfPositive, Goto, IInv, TypeInv
  <2>2. CASE \E p \in {"register", "retry", "wait", "asleep", "take"} : Goto(t, p)
    BY <1>3, <2>2, WaitingStaysWaiting DEF Register, DecrementIfNegative, Retry,
       Wait, Take, ReverseAndIncrementIfPositive
  <2>3. QED
    BY <1>3, <2>1, <2>2 DEF Register, DecrementIfNegative, Retry, Wait, Take,
       ReverseAndIncrementIfPositive
<1>4. ASSUME NEW t \in Threads, Unlock(t)
      PROVE  [Abstract!Next]_Mode
  <2>1. Mode[t] = "in"
    BY <1>4, ModeOfPlace DEF Unlock, Reverse, Mode
  <2>2. Mode' = [Mode EXCEPT ![t] = "out"]
    BY <1>4, ModeAfterGoto, ModeOfPlace DEF Unlock, Reverse, IInv
  <2>3. Abstract!GetOut(t)
    BY <2>1, <2>2 DEF Abstract!GetOut
  <2>4. QED
    BY <2>3
<1>5. ASSUME NEW t \in Threads, Signal(t)
      PROVE  [Abstract!Next]_Mode
  <2>1. PICK woken \in WakeSets(Asleep, 1) :
          pc' = [u \in Threads |-> IF u \in woken THEN "take"
                                   ELSE IF u = t THEN "idle" ELSE pc[u]]
    BY <1>5 DEF Signal
  <2>2. \A u \in woken : pc[u] = "asleep"
    BY DEF WakeSets, Asleep
  <2>3. \A u \in Threads : ModeOf(pc'[u]) = ModeOf(pc[u])
    BY <1>5, <2>1, <2>2, ModeOfPlace DEF Signal
  <2>4. QED
    BY <2>3 DEF Mode
<1>6. QED
  BY <1>1, <1>2, <1>3, <1>4, <1>5 DEF Next, Step

(* SimpleLock implements the abstract mutex: threads get in one at a time, *)
(* and every update of the counter is a step of the mutex or invisible.    *)
THEOREM SimpleLockIsAMutex == Spec => ImplementsMutex
<1>1. Init => Abstract!Init
  BY ModeOfPlace DEF Init, Abstract!Init, Mode
<1>2. IInv /\ [Next]_vars => [Abstract!Next]_Mode
  BY StepImplementsMutex
<1>3. QED
  BY <1>1, <1>2, IInvCorrect, PTL DEF Spec, ImplementsMutex, Abstract!Spec

-----------------------------------------------------------------------------
(***************************************************************************)
(* CriticalSection.                                                        *)
(***************************************************************************)

SectionTypeInv ==
  /\ threadUniqueValue \in Threads \cup {Invalid, Nobody}
  /\ lockCount \in Int
  /\ csPc \in [Threads -> SectionPlaces]
  /\ depth \in [Threads -> 0 .. MaxDepth]

(* Where a thread can be in the lock, given where it is in the section.    *)
Waiting == {"idle", "register", "retry", "wait", "asleep", "take"}

InLock(t) ==
  /\ csPc[t] = "lock" => pc[t] \in Waiting
  /\ csPc[t] = "try" => pc[t] = "idle"
  /\ csPc[t] \in {"onLocked", "count", "clear"} => pc[t] = "held"
  /\ csPc[t] = "unlock" => pc[t] \in {"held", "signal"}
  /\ csPc[t] = "out" => pc[t] = IF depth[t] > 0 THEN "held" ELSE "idle"

DepthAt(t) ==
  /\ csPc[t] \in {"lock", "try", "onLocked", "clear", "unlock"} => depth[t] = 0
  /\ csPc[t] = "count" => depth[t] < MaxDepth

(* The identity names a thread exactly while that thread is between        *)
(* OnLocked and the clearing of the identity.                              *)
Owns(t) == csPc[t] \in {"count", "clear"} \/ (csPc[t] = "out" /\ depth[t] > 0)

Identity == \A t \in Threads : threadUniqueValue = t <=> Owns(t)

(* The count is the depth of the thread that holds the lock, or zero.      *)
Count ==
  /\ \A t \in Threads : pc[t] = "held" => lockCount = depth[t]
  /\ (\A t \in Threads : pc[t] # "held") => lockCount = 0

SectionIInv ==
  /\ IInv
  /\ SectionTypeInv
  /\ \A t \in Threads : InLock(t) /\ DepthAt(t)
  /\ Identity
  /\ Count

-----------------------------------------------------------------------------
(* What the invariant of the lock says in terms of its variables.          *)
LEMMA LockMeaning ==
  ASSUME IInv
  PROVE  /\ counter \in Int
         /\ pc \in [Threads -> Places]
         /\ \A t, u \in Threads : pc[t] = "held" /\ pc[u] = "held" => t = u
         /\ \A t \in Threads : pc[t] = "held" => counter < 0
         /\ counter < 0 => \E t \in Threads : pc[t] = "held"
  BY DEF IInv, TypeInv, CounterEncodesState, MutualExclusion, Holders, Places

(* The steps of the lock that the section takes are steps of SimpleLock.   *)
LEMMA LockStepKeepsLock ==
  ASSUME IInv, NEW t \in Threads, Lock(t) \/ TryLock(t) \/ Step(t)
  PROVE  IInv'
  BY NextIInv DEF Next

LEMMA LockUnchangedKeepsLock ==
  ASSUME IInv, UNCHANGED vars
  PROVE  IInv'
  BY NextIInv

-----------------------------------------------------------------------------
(* A step that leaves the lock alone, and moves one thread.                *)
LEMMA CallerStepKeepsIInv ==
  ASSUME SectionIInv, NEW t \in Threads,
         Enter(t) \/ TryEnter(t) \/ OnLocked(t) \/ CountEntry(t) \/ Leave(t) \/ ClearOwner(t)
  PROVE  SectionIInv'
<1> USE MaxDepthIsNat, NotThreads
    DEF SectionIInv, SectionTypeInv, SectionPlaces, GoOn, vars, LockedByCurrentThread,
        InLock, DepthAt, Identity, Owns, Count, Waiting
<1>0. IInv' /\ pc' = pc
  BY LockUnchangedKeepsLock DEF Enter, TryEnter, OnLocked, CountEntry, Leave, ClearOwner
<1>1. CASE Enter(t) \/ TryEnter(t)
  <2>1. /\ csPc[t] = "out" /\ depth[t] < MaxDepth
        /\ UNCHANGED <<threadUniqueValue, lockCount, depth>>
        /\ \E p \in {"count", "lock", "try"} :
             GoOn(t, p) /\ (p = "count" <=> threadUniqueValue = t)
    BY <1>1 DEF Enter, TryEnter
  <2>2. threadUniqueValue = t <=> depth[t] > 0
    BY <2>1
  <2>3. SectionTypeInv'
    BY <2>1
  <2>4. InLock(t)' /\ DepthAt(t)'
    <3>1. PICK p \in {"count", "lock", "try"} :
            csPc'[t] = p /\ (p = "count" <=> threadUniqueValue = t)
      BY <2>1
    <3>2. pc[t] = IF depth[t] > 0 THEN "held" ELSE "idle"
      BY <2>1
    <3>3. depth[t] \in 0 .. MaxDepth
      OBVIOUS
    <3>4. CASE p = "count"
      BY <1>0, <2>1, <2>2, <3>1, <3>2, <3>4
    <3>5. CASE p # "count"
      BY <1>0, <2>1, <2>2, <3>1, <3>2, <3>3, <3>5
    <3>6. QED
      BY <3>4, <3>5
  <2>5. \A u \in Threads \ {t} : InLock(u)' /\ DepthAt(u)'
    BY <1>0, <2>1
  <2>6. Identity'
    BY <2>1, <2>2
  <2>7. Count'
    BY <1>0, <2>1
  <2>8. QED
    BY <1>0, <2>3, <2>4, <2>5, <2>6, <2>7
<1>2. CASE OnLocked(t)
  <2>1. SectionTypeInv' /\ \A u \in Threads : InLock(u)' /\ DepthAt(u)'
    <3>1. SectionTypeInv'
      BY <1>2 DEF OnLocked
    <3>2. InLock(t)' /\ DepthAt(t)'
      BY <1>0, <1>2 DEF OnLocked
    <3>3. \A u \in Threads \ {t} : InLock(u)' /\ DepthAt(u)'
      BY <1>0, <1>2 DEF OnLocked
    <3>4. QED
      BY <3>1, <3>2, <3>3
  <2>2. \A u \in Threads : u # t => ~Owns(u)
    BY <1>2, LockMeaning DEF OnLocked
  <2>3. Identity'
    <3>1. threadUniqueValue' = t <=> Owns(t)'
      <4>1. threadUniqueValue' = t
        BY <1>2 DEF OnLocked
      <4>2. csPc'[t] = "count" \/ csPc'[t] = "clear" \/ (csPc'[t] = "out" /\ depth'[t] > 0)
        BY <1>2, <2>2 DEF OnLocked
      <4>3. QED
        BY <4>1, <4>2
    <3>2. \A u \in Threads \ {t} : threadUniqueValue' = u <=> Owns(u)'
      BY <1>2, <2>2 DEF OnLocked
    <3>3. QED
      BY <3>1, <3>2
  <2>4. Count'
    BY <1>0, <1>2 DEF OnLocked
  <2>5. QED
    BY <1>0, <2>1, <2>3, <2>4
<1>3. CASE CountEntry(t)
  <2>1. SectionTypeInv' /\ \A u \in Threads : InLock(u)' /\ DepthAt(u)'
    <3>1. SectionTypeInv'
      BY <1>3 DEF CountEntry
    <3>2. InLock(t)' /\ DepthAt(t)'
      BY <1>0, <1>3 DEF CountEntry
    <3>3. \A u \in Threads \ {t} : InLock(u)' /\ DepthAt(u)'
      BY <1>0, <1>3 DEF CountEntry
    <3>4. QED
      BY <3>1, <3>2, <3>3
  <2>2. Identity'
    <3>1. threadUniqueValue' = t <=> Owns(t)'
      <4>1. threadUniqueValue' = t
        BY <1>3 DEF CountEntry
      <4>2. csPc'[t] = "count" \/ csPc'[t] = "clear" \/ (csPc'[t] = "out" /\ depth'[t] > 0)
        BY <1>3 DEF CountEntry
      <4>3. QED
        BY <4>1, <4>2
    <3>2. \A u \in Threads \ {t} : threadUniqueValue' = u <=> Owns(u)'
      BY <1>3 DEF CountEntry
    <3>3. QED
      BY <3>1, <3>2
  <2>3. Count'
    BY <1>0, <1>3, LockMeaning DEF CountEntry
  <2>4. QED
    BY <1>0, <2>1, <2>2, <2>3
<1>4. CASE Leave(t)
  <2>1. pc[t] = "held" /\ lockCount = depth[t]
    BY <1>4 DEF Leave
  <2>2. SectionTypeInv' /\ \A u \in Threads : InLock(u)' /\ DepthAt(u)'
    <3>1. SectionTypeInv'
      BY <1>4, <2>1 DEF Leave
    <3>2. InLock(t)' /\ DepthAt(t)'
      BY <1>0, <1>4, <2>1 DEF Leave
    <3>3. \A u \in Threads \ {t} : InLock(u)' /\ DepthAt(u)'
      BY <1>0, <1>4 DEF Leave
    <3>4. QED
      BY <3>1, <3>2, <3>3
  <2>3. Identity'
    <3>1. threadUniqueValue' = t <=> Owns(t)'
      <4>1. threadUniqueValue' = t
        BY <1>4 DEF Leave
      <4>2. csPc'[t] = "count" \/ csPc'[t] = "clear" \/ (csPc'[t] = "out" /\ depth'[t] > 0)
        BY <1>4, <2>1 DEF Leave
      <4>3. QED
        BY <4>1, <4>2
    <3>2. \A u \in Threads \ {t} : threadUniqueValue' = u <=> Owns(u)'
      BY <1>4, <2>1 DEF Leave
    <3>3. QED
      BY <3>1, <3>2
  <2>4. Count'
    BY <1>0, <1>4, <2>1, LockMeaning DEF Leave
  <2>5. QED
    BY <1>0, <2>2, <2>3, <2>4
<1>5. CASE ClearOwner(t)
  <2>1. SectionTypeInv' /\ \A u \in Threads : InLock(u)' /\ DepthAt(u)'
    <3>1. SectionTypeInv'
      BY <1>5 DEF ClearOwner
    <3>2. InLock(t)' /\ DepthAt(t)'
      BY <1>0, <1>5 DEF ClearOwner
    <3>3. \A u \in Threads \ {t} : InLock(u)' /\ DepthAt(u)'
      BY <1>0, <1>5 DEF ClearOwner
    <3>4. QED
      BY <3>1, <3>2, <3>3
  <2>2. Identity'
    BY <1>5 DEF ClearOwner
  <2>3. QED
    BY <1>0, <1>5, <2>1, <2>2 DEF ClearOwner
<1>6. QED
  BY <1>1, <1>2, <1>3, <1>4, <1>5

(* A step of the lock within Enter or TryEnter.                            *)
LEMMA LockingStepKeepsIInv ==
  ASSUME SectionIInv, NEW t \in Threads, CallLock(t) \/ CallTryLock(t)
  PROVE  SectionIInv'
<1> USE DEF SectionIInv, SectionTypeInv, SectionPlaces, GoOn, InLock, DepthAt, Identity,
            Owns, Count, Waiting
<1>1. IInv'
  BY LockStepKeepsLock DEF CallLock, CallTryLock, Step
<1>2. /\ \A u \in Threads \ {t} : pc'[u] = pc[u]
      /\ pc'[t] \in Waiting \cup {"held"}
      /\ csPc[t] = "try" => pc'[t] \in {"idle", "held"}
      /\ pc[t] # "held"
  BY LockMeaning DEF CallLock, CallTryLock, Lock, TryLock, Register,
     DecrementIfNegative, Retry, Wait, Take,
     ReverseAndIncrementIfPositive, ReverseIfPositive, Goto, vars
<1>3. pc'[t] = "held" => \A u \in Threads : pc[u] # "held"
  <2>1. pc'[t] = "held" => counter > 0
    BY LockMeaning DEF CallLock, CallTryLock, Lock, TryLock, Register,
       DecrementIfNegative, Retry, Wait, Take,
       ReverseAndIncrementIfPositive, ReverseIfPositive, Goto, vars
  <2>2. QED
    BY <2>1, LockMeaning
<1>4. SectionTypeInv' /\ \A u \in Threads : InLock(u)' /\ DepthAt(u)'
  BY <1>2 DEF CallLock, CallTryLock
<1>5. Identity'
  BY <1>2 DEF CallLock, CallTryLock
<1>6. Count'
  BY <1>2, <1>3 DEF CallLock, CallTryLock
<1>7. QED
  BY <1>1, <1>4, <1>5, <1>6

(* A step of the lock within Leave.                                        *)
LEMMA UnlockingStepKeepsIInv ==
  ASSUME SectionIInv, NEW t \in Threads, CallUnlock(t)
  PROVE  SectionIInv'
<1> USE DEF SectionIInv, SectionTypeInv, SectionPlaces, GoOn, InLock, DepthAt, Identity,
            Owns, Count, Waiting
<1>1. IInv'
  BY LockStepKeepsLock DEF CallUnlock, Step
<1>2. /\ \A u \in Threads \ {t} : \/ pc'[u] = pc[u]
                                  \/ pc[u] = "asleep" /\ pc'[u] = "take"
      /\ pc'[t] \in {"idle", "signal"}
  <2>1. CASE Unlock(t)
    BY <2>1, LockMeaning DEF Unlock, Reverse, Goto
  <2>2. CASE Signal(t)
    <3>1. PICK woken \in WakeSets(Asleep, 1) :
            pc' = [u \in Threads |-> IF u \in woken THEN "take"
                                         ELSE IF u = t THEN "idle" ELSE pc[u]]
      BY <2>2, Zenon DEF Signal
    <3>2. \A u \in woken : pc[u] = "asleep"
      BY DEF WakeSets, Asleep
    <3>3. t \notin woken
      BY <2>2, <3>2 DEF Signal
    <3>4. pc'[t] = "idle"
      BY <3>1, <3>3
    <3>5. ASSUME NEW u \in Threads \ {t}
          PROVE  pc'[u] = IF u \in woken THEN "take" ELSE pc[u]
      BY <3>1, <3>5
    <3>6. QED
      BY <3>2, <3>4, <3>5
  <2>3. QED
    BY <2>1, <2>2 DEF CallUnlock
<1>3. SectionTypeInv' /\ \A u \in Threads : InLock(u)' /\ DepthAt(u)'
  <2>1. SectionTypeInv'
    BY DEF CallUnlock
  <2>2. InLock(t)' /\ DepthAt(t)'
    BY <1>2 DEF CallUnlock
  <2>3. \A u \in Threads \ {t} : InLock(u)' /\ DepthAt(u)'
    BY <1>2 DEF CallUnlock
  <2>4. QED
    BY <2>1, <2>2, <2>3
<1>4. Identity'
  BY DEF CallUnlock
<1>5. Count'
  <2>1. CASE pc[t] = "held"
    <3>1. \A u \in Threads : pc'[u] # "held"
      BY <1>2, <2>1, LockMeaning
    <3>2. lockCount' = 0
      BY <2>1 DEF CallUnlock
    <3>3. QED
      BY <3>1, <3>2
  <2>2. CASE pc[t] # "held"
    <3>1. \A u \in Threads : pc'[u] = "held" <=> pc[u] = "held"
      BY <1>2, <2>2
    <3>2. QED
      BY <3>1 DEF CallUnlock
  <2>3. QED
    BY <2>1, <2>2
<1>6. QED
  BY <1>1, <1>3, <1>4, <1>5

-----------------------------------------------------------------------------
LEMMA InitSectionIInv == SectionInit => SectionIInv
<1> SUFFICES ASSUME SectionInit PROVE SectionIInv
  OBVIOUS
<1>1. IInv
  BY InitIInv DEF SectionInit
<1>2. /\ \A t \in Threads : pc[t] = "idle" /\ csPc[t] = "out" /\ depth[t] = 0
      /\ SectionTypeInv
  BY MaxDepthIsNat DEF SectionInit, Init, SectionTypeInv, SectionPlaces
<1>3. (\A t \in Threads : InLock(t) /\ DepthAt(t)) /\ Identity /\ Count
  BY <1>2, NotThreads DEF SectionInit, InLock, DepthAt, Identity, Owns, Count
<1>4. QED
  BY <1>1, <1>2, <1>3 DEF SectionIInv

LEMMA NextSectionIInv == SectionIInv /\ [SectionNext]_sectionVars => SectionIInv'
<1> SUFFICES ASSUME SectionIInv, [SectionNext]_sectionVars PROVE SectionIInv'
  OBVIOUS
<1>1. CASE UNCHANGED sectionVars
  <2>1. IInv'
    BY <1>1, LockUnchangedKeepsLock DEF sectionVars, vars, SectionIInv
  <2>2. QED
    BY <1>1, <2>1 DEF sectionVars, SectionIInv, SectionTypeInv, InLock, DepthAt, Identity,
       Owns, Count
<1>2. ASSUME NEW t \in Threads, Enter(t) \/ TryEnter(t) \/ Leave(t)
      PROVE  SectionIInv'
  BY <1>2, CallerStepKeepsIInv
<1>3. ASSUME NEW t \in Threads, SectionStep(t)
      PROVE  SectionIInv'
  BY <1>3, CallerStepKeepsIInv, LockingStepKeepsIInv, UnlockingStepKeepsIInv DEF SectionStep
<1>4. QED
  BY <1>1, <1>2, <1>3 DEF SectionNext

LEMMA SectionIInvCorrect == SectionSpec => []SectionIInv
  BY InitSectionIInv, NextSectionIInv, PTL DEF SectionSpec

(* Types, the bounds of the counter of the lock and of the count of        *)
(* entries included.                                                       *)
THEOREM SectionTypeCorrect == SectionSpec => []SectionTypeOK
<1>1. SectionIInv => SectionTypeOK
  <2> SUFFICES ASSUME SectionIInv PROVE SectionTypeOK
    OBVIOUS
  <2>1. TypeOK
    BY IInvImpliesTypeOK DEF SectionIInv
  <2>2. lockCount \in 0 .. MaxDepth
    BY MaxDepthIsNat DEF SectionIInv, SectionTypeInv, Count
  <2>3. QED
    BY <2>1, <2>2 DEF SectionIInv, SectionTypeInv, SectionTypeOK
<1>2. QED
  BY <1>1, SectionIInvCorrect, PTL

(* Whoever is inside holds the lock: the comparison of the identity that   *)
(* Enter makes without holding anything is safe for any number of threads  *)
(* and any nesting.                                                        *)
THEOREM InsideIsSafe == SectionSpec => []InsideHoldsLock
<1>1. SectionIInv => InsideHoldsLock
  BY DEF SectionIInv, SectionTypeInv, SectionPlaces, InLock, DepthAt, InsideHoldsLock, Inside
<1>2. QED
  BY <1>1, SectionIInvCorrect, PTL

(* The count is the depth of the thread that is inside.                    *)
THEOREM CountIsRight == SectionSpec => []CountIsDepth
<1>1. SectionIInv => CountIsDepth
  <2> SUFFICES ASSUME SectionIInv PROVE CountIsDepth
    OBVIOUS
  <2>1. \A t \in Threads : depth[t] > 0 => pc[t] = "held"
    BY DEF SectionIInv, SectionTypeInv, SectionPlaces, InLock, DepthAt
  <2>2. QED
    BY <2>1 DEF SectionIInv, Count, CountIsDepth
<1>2. QED
  BY <1>1, SectionIInvCorrect, PTL

(* No assertion of Leave fires for callers that leave what they entered.   *)
THEOREM AssertionsNeverFire == SectionSpec => []AssertionsHold
<1>1. SectionIInv => AssertionsHold
  BY LockMeaning DEF SectionIInv, SectionTypeInv, InLock, DepthAt, Identity, Owns, Count,
     AssertionsHold, LockedByCurrentThread
<1>2. QED
  BY <1>1, SectionIInvCorrect, PTL

(* The section uses its lock as SimpleLock says a lock is used: what it    *)
(* does to m_Lock are steps of SimpleLock, whose threads unlock only what  *)
(* they hold.  So no last Leave leaves a thread of Enter asleep over a     *)
(* free lock.                                                              *)
THEOREM SectionUsesSimpleLock == SectionSpec => Spec /\ []NoLostWakeup
<1>1. SectionInit => Init
  BY DEF SectionInit
<1>2. [SectionNext]_sectionVars => [Next]_vars
  BY DEF SectionNext, SectionStep, sectionVars, Next, Step, vars, Enter, TryEnter, CallLock,
     CallTryLock, OnLocked, CountEntry, Leave, ClearOwner, CallUnlock
<1>3. SectionSpec => Spec
  BY <1>1, <1>2, PTL DEF SectionSpec, Spec
<1>4. QED
  BY <1>3, NoWakeupIsLost, PTL

(* CriticalSection implements the recursive mutex: the count of entries    *)
(* goes up only for a thread that is alone inside.                         *)
THEOREM CriticalSectionIsAReentrantMutex == SectionSpec => ImplementsReentrantMutex
<1>1. SectionInit => Reentrant!Init
  BY DEF SectionInit, Reentrant!Init
<1>2. SectionIInv /\ [SectionNext]_sectionVars => [Reentrant!Next]_depth
  <2> SUFFICES ASSUME SectionIInv, [SectionNext]_sectionVars PROVE [Reentrant!Next]_depth
    OBVIOUS
  <2>1. ASSUME NEW t \in Threads, CountEntry(t) PROVE Reentrant!EnterOnce(t)
    <3>1. \A u \in Threads \ {t} : depth[u] = 0
      BY <2>1, LockMeaning
         DEF CountEntry, SectionIInv, SectionTypeInv, SectionPlaces, InLock, DepthAt
    <3>2. QED
      BY <2>1, <3>1 DEF CountEntry, Reentrant!EnterOnce
  <2>2. ASSUME NEW t \in Threads, Leave(t) PROVE Reentrant!LeaveOnce(t)
    BY <2>2 DEF Leave, Reentrant!LeaveOnce
  <2>3. ASSUME NEW t \in Threads,
               Enter(t) \/ TryEnter(t) \/ CallLock(t) \/ CallTryLock(t) \/ OnLocked(t)
                 \/ ClearOwner(t) \/ CallUnlock(t)
        PROVE  UNCHANGED depth
    BY <2>3 DEF Enter, TryEnter, CallLock, CallTryLock, OnLocked, ClearOwner, CallUnlock
  <2>4. QED
    BY <2>1, <2>2, <2>3 DEF SectionNext, SectionStep, sectionVars, Reentrant!Next
<1>3. QED
  BY <1>1, <1>2, SectionIInvCorrect, PTL DEF SectionSpec, ImplementsReentrantMutex, Reentrant!Spec

=============================================================================

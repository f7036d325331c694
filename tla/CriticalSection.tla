-------------------------- MODULE CriticalSection ---------------------------
(***************************************************************************)
(* nn::os::CriticalSection: a recursive lock made of a SimpleLock, the     *)
(* identity of the thread that took it and a count of its entries.  Enter  *)
(* and TryEnter compare the identity with their own before they hold       *)
(* anything, and skip the lock when it matches.  Leave clears the identity *)
(* before it unlocks.                                                      *)
(*                                                                         *)
(* The lock is the SimpleLock module itself, step for step: its counter is *)
(* that of m_Lock and its pc says where each thread is in m_Lock, so that  *)
(* the unprotected comparison is interleaved with every update of the      *)
(* lock.  What SimpleLock names too begins with Section here.              *)
(*                                                                         *)
(* The count is updated by plain loads and stores, in one action here:     *)
(* only a thread that holds the lock touches it (InsideHoldsLock).         *)
(***************************************************************************)
EXTENDS SimpleLock

CONSTANTS
  Invalid,          \* GetInvalidThreadUniqueValue, what Initialize stores
  Nobody,           \* 0, what Leave stores
  MaxDepth          \* bound: how deep a thread nests its entries

ASSUME NotThreads    == Invalid \notin Threads /\ Nobody \notin Threads
ASSUME MaxDepthIsNat == MaxDepth \in Nat \ {0}

VARIABLES
  threadUniqueValue,    \* m_ThreadUniqueValue
  lockCount,            \* m_LockCount
  csPc,                 \* csPc[t]: where t is in a call of the section
  depth                 \* depth[t]: calls of Enter t has not left (the callers')

sectionVars == <<counter, pc, threadUniqueValue, lockCount, csPc, depth>>

SectionPlaces == {"out", "lock", "try", "onLocked", "count", "clear", "unlock"}

GoOn(t, place) == csPc' = [csPc EXCEPT ![t] = place]

SectionInit ==
  /\ Init
  /\ threadUniqueValue = Invalid
  /\ lockCount = 0
  /\ csPc = [t \in Threads |-> "out"]
  /\ depth = [t \in Threads |-> 0]

(* Fault: the section is taken for the caller's when it is anybody's.      *)
LockedByAnyThread(t) == threadUniqueValue \notin {Invalid, Nobody}

LockedByCurrentThread(t) == threadUniqueValue = t

(* Enter, up to its branch; the nesting of the callers is bounded here.    *)
Enter(t) ==
  /\ csPc[t] = "out" /\ depth[t] < MaxDepth
  /\ GoOn(t, IF LockedByCurrentThread(t) THEN "count" ELSE "lock")
  /\ UNCHANGED <<vars, threadUniqueValue, lockCount, depth>>

TryEnter(t) ==
  /\ csPc[t] = "out" /\ depth[t] < MaxDepth
  /\ GoOn(t, IF LockedByCurrentThread(t) THEN "count" ELSE "try")
  /\ UNCHANGED <<vars, threadUniqueValue, lockCount, depth>>

(* A step of m_Lock.Lock() within Enter; the last one takes the lock.      *)
CallLock(t) ==
  /\ csPc[t] = "lock"
  /\ Lock(t) \/ Register(t) \/ Retry(t) \/ Wait(t) \/ Take(t)
  /\ GoOn(t, IF pc'[t] = "held" THEN "onLocked" ELSE "lock")
  /\ UNCHANGED <<threadUniqueValue, lockCount, depth>>

(* Fault: TryEnter does not set the identity.                              *)
CallTryLockOnly(t) ==
  /\ csPc[t] = "try"
  /\ TryLock(t)
  /\ GoOn(t, IF pc'[t] = "held" THEN "count" ELSE "out")
  /\ UNCHANGED <<threadUniqueValue, lockCount, depth>>

(* m_Lock.TryLock() within TryEnter, which returns false when it fails.    *)
CallTryLock(t) ==
  /\ csPc[t] = "try"
  /\ TryLock(t)
  /\ GoOn(t, IF pc'[t] = "held" THEN "onLocked" ELSE "out")
  /\ UNCHANGED <<threadUniqueValue, lockCount, depth>>

OnLocked(t) ==
  /\ csPc[t] = "onLocked"
  /\ threadUniqueValue' = t
  /\ GoOn(t, "count")
  /\ UNCHANGED <<vars, lockCount, depth>>

(* Fault: the count is set, not incremented.                               *)
CountFirstEntry(t) ==
  /\ csPc[t] = "count"
  /\ lockCount' = 1
  /\ depth' = [depth EXCEPT ![t] = @ + 1]
  /\ GoOn(t, "out")
  /\ UNCHANGED <<vars, threadUniqueValue>>

(* m_LockCount++, the end of Enter and of TryEnter.                        *)
CountEntry(t) ==
  /\ csPc[t] = "count"
  /\ lockCount' = lockCount + 1
  /\ depth' = [depth EXCEPT ![t] = @ + 1]
  /\ GoOn(t, "out")
  /\ UNCHANGED <<vars, threadUniqueValue>>

(* Fault: the count is tested and not decremented.                         *)
LeaveUncounted(t) ==
  /\ csPc[t] = "out" /\ depth[t] > 0
  /\ depth' = [depth EXCEPT ![t] = @ - 1]
  /\ GoOn(t, IF lockCount = 1 THEN "clear" ELSE "out")
  /\ UNCHANGED <<vars, threadUniqueValue, lockCount>>

(* Fault: m_LockCount-- == 0, the count tested before the decrement.       *)
LeaveTestsFirst(t) ==
  /\ csPc[t] = "out" /\ depth[t] > 0
  /\ lockCount' = lockCount - 1
  /\ depth' = [depth EXCEPT ![t] = @ - 1]
  /\ GoOn(t, IF lockCount = 0 THEN "clear" ELSE "out")
  /\ UNCHANGED <<vars, threadUniqueValue>>

(* Leave, called once for every Enter, up to the test of the count.        *)
Leave(t) ==
  /\ csPc[t] = "out" /\ depth[t] > 0
  /\ lockCount' = lockCount - 1
  /\ depth' = [depth EXCEPT ![t] = @ - 1]
  /\ GoOn(t, IF lockCount' = 0 THEN "clear" ELSE "out")
  /\ UNCHANGED <<vars, threadUniqueValue>>

(* Fault: the identity of the last holder is left behind.                  *)
KeepOwner(t) ==
  /\ csPc[t] = "clear"
  /\ GoOn(t, "unlock")
  /\ UNCHANGED <<vars, threadUniqueValue, lockCount, depth>>

ClearOwner(t) ==
  /\ csPc[t] = "clear"
  /\ threadUniqueValue' = Nobody
  /\ GoOn(t, "unlock")
  /\ UNCHANGED <<vars, lockCount, depth>>

(* A step of m_Lock.Unlock() within Leave.                                 *)
CallUnlock(t) ==
  /\ csPc[t] = "unlock"
  /\ Unlock(t) \/ Signal(t)
  /\ GoOn(t, IF pc'[t] = "idle" THEN "out" ELSE "unlock")
  /\ UNCHANGED <<threadUniqueValue, lockCount, depth>>

SectionStep(t) ==
  \/ CallLock(t) \/ CallTryLock(t) \/ OnLocked(t) \/ CountEntry(t)
  \/ ClearOwner(t) \/ CallUnlock(t)

SectionNext == \E t \in Threads : Enter(t) \/ TryEnter(t) \/ Leave(t) \/ SectionStep(t)

SectionSpec == SectionInit /\ [][SectionNext]_sectionVars

(* A thread in the middle of a call runs on.  Callers promise nothing.     *)
SectionFairSpec == SectionSpec /\ \A t \in Threads : WF_sectionVars(SectionStep(t))

-----------------------------------------------------------------------------
SectionTypeOK ==
  /\ TypeOK
  /\ threadUniqueValue \in Threads \cup {Invalid, Nobody}
  /\ lockCount \in 0 .. MaxDepth
  /\ csPc \in [Threads -> SectionPlaces]
  /\ depth \in [Threads -> 0 .. MaxDepth]

(* Whoever is past the lock holds it, the threads that skipped it because  *)
(* the identity matched included: the unprotected comparison of Enter      *)
(* never matches for a thread that does not hold the lock.                 *)
Inside(t) == depth[t] > 0 \/ csPc[t] \in {"onLocked", "count", "clear"}

InsideHoldsLock == \A t \in Threads : Inside(t) => pc[t] = "held"

(* The shared count is the nesting depth of the thread that is inside, so  *)
(* the lock is given back exactly with the last Leave.                     *)
CountIsDepth ==
  /\ \A t \in Threads : depth[t] > 0 => lockCount = depth[t]
  /\ (\A t \in Threads : depth[t] = 0) => lockCount = 0

(* The assertions of Leave where it evaluates them: "CriticalSection is    *)
(* not entered on the current thread." and "CriticalSection is not         *)
(* entered." never fire for callers that leave as often as they enter.     *)
AssertionsHold ==
  \A t \in Threads :
    /\ csPc[t] = "out" /\ depth[t] > 0 => LockedByCurrentThread(t) /\ lockCount > 0
    /\ csPc[t] = "clear" => counter < 0

(* The section is a recursive mutex for its callers.                       *)
Reentrant == INSTANCE ReentrantMutex

ImplementsReentrantMutex == Reentrant!Spec

(* As long as callers keep leaving the section altogether, a thread        *)
(* blocked in Enter means that the section is taken again: no last Leave   *)
(* gives the lock back without waking a thread that sleeps on it.          *)
SectionIsPassedOn ==
  []<>(\A t \in Threads : depth[t] = 0) =>
    ((\E t \in Threads : csPc[t] = "lock") ~> (\E t \in Threads : csPc[t] = "onLocked"))

=============================================================================

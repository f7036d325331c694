-------------------------- MODULE LightEvent_proofs --------------------------
(***************************************************************************)
(* Proofs about LightEvent for every finite set of threads, for an event   *)
(* reset by hand and for one reset by the wait.                            *)
(***************************************************************************)
EXTENDS LightEvent, FiniteSetTheorems, TLAPS

(* An event keeps to its way of reset, and a thread to the branches that   *)
(* belong to it.                                                           *)
ManualPlaces == {"idle", "load", "waitManual", "asleepManual", "signal", "lockToSet",
                 "wakeAll", "clear", "lockToClear", "unlock"}
AutoPlaces == {"idle", "load", "cas", "waitAuto", "asleepAuto", "signal", "storeAuto",
               "wakeOne", "clear", "clearAuto"}

ManualInv ==
  /\ counter \in {NOT_RESETED_MANUAL, RESETED_MANUAL}
  /\ \A t \in Threads : pc[t] \in ManualPlaces

AutoInv ==
  /\ counter \in {NOT_RESETED_AUTO, RESETED_AUTO}
  /\ \A t \in Threads : pc[t] \in AutoPlaces

(* Whoever holds the lock is between its store and its way out, and the    *)
(* event stays signalled until it has woken the others.                    *)
LockInv ==
  /\ \A t \in Threads : pc[t] \in {"wakeAll", "unlock"} <=> holder = t
  /\ \A t \in Threads : pc[t] = "wakeAll" => counter = RESETED_MANUAL

(* A thread in Wait has seen the signal that is there.                     *)
SeenInv == IsSignaled => \A t \in Threads : pc[t] \in WaitPlaces => seen[t]

(* What NoLostSignal says is inductive for an event reset by the wait, but *)
(* not for one reset by hand: there, a thread that is about to load the    *)
(* counter passes by and wakes nobody.  Only the signalling thread does.   *)
NoLostManualSignal ==
  counter = RESETED_MANUAL /\ Asleep # {} => \E t \in Threads : pc[t] = "wakeAll"

IInv ==
  /\ TypeOK /\ (ManualInv \/ AutoInv) /\ LockInv /\ SeenInv
  /\ NoLostSignal /\ NoLostManualSignal

USE DEF NOT_RESETED_MANUAL, NOT_RESETED_AUTO, RESETED_AUTO, RESETED_MANUAL, IsSignaled,
        Places, WaitPlaces, ManualPlaces, AutoPlaces, TypeOK, ManualInv, AutoInv, LockInv,
        SeenInv, NoLostManualSignal, IInv, Goto

LEMMA BeginKeepsIInv ==
  ASSUME IInv, NEW t \in Threads, Begin(t)
  PROVE  IInv'
<1> USE DEF Begin
<1>1. TypeOK' /\ SeenInv'
  <2>1. CASE seen' = [seen EXCEPT ![t] = IsSignaled]
    <3>1. \A u \in Threads : seen'[u] = IF u = t THEN IsSignaled ELSE seen[u]
      BY <2>1
    <3>2. seen' \in [Threads -> BOOLEAN]
      BY <2>1
    <3>3. UNCHANGED counter /\ TypeOK'
      BY <3>2
    <3>4. SeenInv'
      BY <3>1, <3>3
    <3>5. QED
      BY <3>3, <3>4
  <2>2. CASE UNCHANGED seen
    BY <2>2
  <2>3. QED
    BY <2>1, <2>2
<1>2. ManualInv' \/ AutoInv'
  OBVIOUS
<1>3. LockInv'
  BY NoThreadIsNone
<1>4. NoLostSignal' /\ NoLostManualSignal'
  BY DEF NoLostSignal, Asleep
<1>5. QED
  BY <1>1, <1>2, <1>3, <1>4

LEMMA LoadKeepsIInv ==
  ASSUME IInv, NEW t \in Threads, Load(t)
  PROVE  IInv'
<1> USE DEF Load
<1>1. TypeOK' /\ SeenInv'
  OBVIOUS
<1>2. ManualInv' \/ AutoInv'
  OBVIOUS
<1>3. LockInv'
  BY NoThreadIsNone
<1>4. NoLostSignal' /\ NoLostManualSignal'
  <2>1. Asleep' = Asleep
    BY DEF Asleep
  <2>2. IsSignaled => pc' = [pc EXCEPT ![t] = IF counter = RESETED_AUTO THEN "cas" ELSE "idle"]
    OBVIOUS
  <2>3. CASE AutoInv
    BY <2>1, <2>2, <2>3 DEF NoLostSignal
  <2>4. CASE ManualInv
    BY <2>1, <2>2, <2>4 DEF NoLostSignal
  <2>5. QED
    BY <2>3, <2>4
<1>5. QED
  BY <1>1, <1>2, <1>3, <1>4

LEMMA CasKeepsIInv ==
  ASSUME IInv, NEW t \in Threads, Cas(t)
  PROVE  IInv'
  BY NoThreadIsNone DEF Cas, ConsumeAuto, NoLostSignal, Asleep

LEMMA TryWaitKeepsIInv ==
  ASSUME IInv, NEW t \in Threads, TryWait(t)
  PROVE  IInv'
  BY NoThreadIsNone DEF TryWait, ConsumeAuto, NoLostSignal, Asleep

LEMMA WaitManualKeepsIInv ==
  ASSUME IInv, NEW t \in Threads, WaitManual(t)
  PROVE  IInv'
  BY NoThreadIsNone DEF WaitManual, Sleeps, NoLostSignal, Asleep

LEMMA WaitAutoKeepsIInv ==
  ASSUME IInv, NEW t \in Threads, WaitAuto(t)
  PROVE  IInv'
  BY NoThreadIsNone DEF WaitAuto, Sleeps, NoLostSignal, Asleep

LEMMA SignalKeepsIInv ==
  ASSUME IInv, NEW t \in Threads, Signal(t)
  PROVE  IInv'
  BY NoThreadIsNone DEF Signal, NoLostSignal, Asleep

LEMMA StoreAutoKeepsIInv ==
  ASSUME IInv, NEW t \in Threads, StoreAuto(t)
  PROVE  IInv'
  BY NoThreadIsNone DEF StoreAuto, Set, NoLostSignal, Asleep

LEMMA LockToSetKeepsIInv ==
  ASSUME IInv, NEW t \in Threads, LockToSet(t)
  PROVE  IInv'
  BY NoThreadIsNone DEF LockToSet, Set, Enter, NoLostSignal, Asleep

LEMMA ClearKeepsIInv ==
  ASSUME IInv, NEW t \in Threads, Clear(t)
  PROVE  IInv'
  BY NoThreadIsNone DEF Clear, NoLostSignal, Asleep

LEMMA ClearAutoKeepsIInv ==
  ASSUME IInv, NEW t \in Threads, ClearAuto(t)
  PROVE  IInv'
  BY NoThreadIsNone DEF ClearAuto, NoLostSignal, Asleep

LEMMA LockToClearKeepsIInv ==
  ASSUME IInv, NEW t \in Threads, LockToClear(t)
  PROVE  IInv'
  BY NoThreadIsNone DEF LockToClear, Enter, NoLostSignal, Asleep

LEMMA UnlockKeepsIInv ==
  ASSUME IInv, NEW t \in Threads, Unlock(t)
  PROVE  IInv'
  BY NoThreadIsNone DEF Unlock, NoLostSignal, Asleep

(* The arbiter wakes somebody when somebody sleeps, and everybody when it  *)
(* is told to.                                                             *)
LEMMA WokenByOne ==
  ASSUME NEW woken \in WakeSets(Asleep, 1)
  PROVE  /\ woken \subseteq Asleep
         /\ Asleep # {} => woken # {}
<1>1. Asleep \in SUBSET Threads /\ woken \in SUBSET Asleep
  BY DEF Asleep, WakeSets
<1>2. IsFiniteSet(Asleep) /\ Cardinality(Asleep) \in Nat
  BY <1>1, ThreadsFinite, FS_Subset, FS_CardinalityType
<1>3. Asleep # {} => Cardinality(woken) # 0
  <2>1. Asleep # {} => Cardinality(Asleep) # 0
    BY <1>2, FS_EmptySet
  <2>2. QED
    BY <1>2, <2>1 DEF WakeSets, NumWoken
<1>4. QED
  BY <1>1, <1>3, FS_EmptySet

LEMMA WokenByAll ==
  ASSUME NEW woken \in WakeSets(Asleep, -1)
  PROVE  woken = Asleep
<1>1. Asleep \in SUBSET Threads /\ woken \in SUBSET Asleep
  BY DEF Asleep, WakeSets
<1>2. IsFiniteSet(Asleep)
  BY <1>1, ThreadsFinite, FS_Subset
<1>3. Cardinality(woken) = Cardinality(Asleep)
  BY DEF WakeSets, NumWoken
<1>4. QED
  BY <1>1, <1>2, <1>3, FS_Subset

(* A woken thread looks again, or takes the wakeup for its answer.         *)
LEMMA WakeOneKeepsIInv ==
  ASSUME IInv, NEW t \in Threads, WakeOne(t)
  PROVE  IInv'
<1>1. PICK woken \in WakeSets(Asleep, 1) :
        pc' = [u \in Threads |-> IF u = t THEN "idle"
                                 ELSE IF u \notin woken THEN pc[u]
                                 ELSE IF pc[u] = "asleepAuto" THEN "load" ELSE "idle"]
  BY DEF WakeOne, Wake
<1>2. /\ pc[t] = "wakeOne" /\ UNCHANGED <<counter, holder, seen>>
      /\ AutoInv /\ \A u \in woken : u \in Threads /\ pc[u] = "asleepAuto"
  BY WokenByOne DEF WakeOne, Asleep
<1>3. /\ \A u \in Threads : pc'[u] = IF u = t THEN "idle" ELSE IF u \in woken THEN "load" ELSE pc[u]
      /\ pc' \in [Threads -> Places]
  BY <1>1, <1>2
<1>4. TypeOK' /\ AutoInv' /\ LockInv' /\ SeenInv'
  BY <1>2, <1>3
<1>5. NoLostSignal' /\ NoLostManualSignal'
  <2>1. CASE Asleep = {}
    BY <1>2, <1>3, <2>1 DEF NoLostSignal, Asleep
  <2>2. CASE Asleep # {}
    <3>1. PICK u \in woken : u \in Asleep
      BY <2>2, WokenByOne
    <3>2. u \in Threads /\ pc'[u] = "load"
      BY <1>2, <1>3, <3>1
    <3>3. QED
      BY <1>2, <3>2 DEF NoLostSignal
  <2>3. QED
    BY <2>1, <2>2
<1>6. QED
  BY <1>4, <1>5

LEMMA WakeAllKeepsIInv ==
  ASSUME IInv, NEW t \in Threads, WakeAll(t)
  PROVE  IInv'
<1>1. PICK woken \in WakeSets(Asleep, -1) :
        pc' = [u \in Threads |-> IF u = t THEN "unlock"
                                 ELSE IF u \notin woken THEN pc[u]
                                 ELSE IF pc[u] = "asleepAuto" THEN "load" ELSE "idle"]
  BY DEF WakeAll, Wake
<1>2. /\ pc[t] = "wakeAll" /\ UNCHANGED <<counter, holder, seen>>
      /\ ManualInv /\ woken = {u \in Threads : pc[u] = "asleepManual"}
  BY WokenByAll DEF WakeAll, Asleep
<1>3. /\ \A u \in Threads : pc'[u] = IF u = t THEN "unlock" ELSE IF u \in woken THEN "idle" ELSE pc[u]
      /\ pc' \in [Threads -> Places]
  BY <1>1, <1>2
<1>4. TypeOK' /\ ManualInv' /\ LockInv' /\ SeenInv'
  BY <1>2, <1>3
<1>5. Asleep' = {}
  BY <1>2, <1>3 DEF Asleep
<1>6. QED
  BY <1>4, <1>5 DEF NoLostSignal

-----------------------------------------------------------------------------
LEMMA InitIInv == Init => IInv
  BY NoThreadIsNone DEF Init, NoLostSignal

LEMMA NextIInv == IInv /\ [Next]_vars => IInv'
<1> SUFFICES ASSUME IInv, [Next]_vars PROVE IInv'
  OBVIOUS
<1> USE DEF vars
<1>1. CASE UNCHANGED vars
  BY <1>1 DEF NoLostSignal, Asleep
<1> HIDE DEF IInv
<1>2. ASSUME NEW t \in Threads, Begin(t) \/ TryWait(t) \/ Step(t)
      PROVE  IInv'
  BY <1>2, BeginKeepsIInv, TryWaitKeepsIInv, LoadKeepsIInv, CasKeepsIInv, WaitManualKeepsIInv,
     WaitAutoKeepsIInv, SignalKeepsIInv, StoreAutoKeepsIInv, WakeOneKeepsIInv,
     LockToSetKeepsIInv, WakeAllKeepsIInv, ClearKeepsIInv, ClearAutoKeepsIInv,
     LockToClearKeepsIInv, UnlockKeepsIInv DEF Step
<1>3. QED
  BY <1>1, <1>2 DEF Next

LEMMA IInvCorrect == Spec => []IInv
  BY InitIInv, NextIInv, PTL DEF Spec

(* The types of the variables, and with them that the counter never has    *)
(* another value than the four that it can be compared with.               *)
THEOREM TypeCorrect == Spec => []TypeOK
<1>1. IInv => TypeOK
  OBVIOUS
<1>2. QED
  BY <1>1, IInvCorrect, PTL

(* No Signal is lost on a thread that was just about to sleep, whichever   *)
(* way the event is reset and however many threads signal and clear it.    *)
THEOREM SignalsAreNotLost == Spec => []NoLostSignal
<1>1. IInv => NoLostSignal
  OBVIOUS
<1>2. QED
  BY <1>1, IInvCorrect, PTL

(* The wakeup that a Signal owes is given while the event is signalled, so *)
(* that a Wait which was called after a ClearSignal is not let through by  *)
(* the Signal before it.                                                   *)
THEOREM WaitsAreLetThroughBySignals == Spec => WaitReturnsOnASignal
<1>1. ASSUME IInv, [Next]_vars, NEW u \in Threads, pc[u] \in WaitPlaces, pc'[u] = "idle"
      PROVE  seen[u]
  <2>1. CASE UNCHANGED vars
    BY <1>1, <2>1 DEF vars
  <2>2. ASSUME NEW t \in Threads, Begin(t) \/ TryWait(t) \/ Step(t)
        PROVE  seen[u]
    <3>1. CASE Begin(t) \/ TryWait(t)
      BY <1>1, <3>1 DEF Begin, TryWait
    <3>2. CASE Load(t) \/ Cas(t) \/ WaitManual(t) \/ WaitAuto(t)
      BY <1>1, <3>2 DEF Load, Cas, ConsumeAuto, WaitManual, WaitAuto, Sleeps
    <3>3. CASE Signal(t) \/ StoreAuto(t) \/ LockToSet(t)
      BY <1>1, <3>3 DEF Signal, StoreAuto, LockToSet
    <3>4. CASE Clear(t) \/ ClearAuto(t) \/ LockToClear(t) \/ Unlock(t)
      BY <1>1, <3>4 DEF Clear, ClearAuto, LockToClear, Unlock
    <3>5. CASE WakeOne(t)
      BY <1>1, <3>5, WokenByOne DEF WakeOne, Wake, Asleep
    <3>6. CASE WakeAll(t)
      BY <1>1, <3>6 DEF WakeAll, Wake
    <3>7. QED
      BY <2>2, <3>1, <3>2, <3>3, <3>4, <3>5, <3>6 DEF Step
  <2>3. QED
    BY <1>1, <2>1, <2>2 DEF Next
<1>2. IInv /\ [Next]_vars =>
        [\A t \in Threads : pc[t] \in WaitPlaces /\ pc'[t] = "idle" => seen[t]]_vars
  BY <1>1
<1>3. QED
  BY <1>2, IInvCorrect, PTL DEF Spec, WaitReturnsOnASignal

=============================================================================

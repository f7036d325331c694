----------------------------- MODULE LightEvent -----------------------------
(***************************************************************************)
(* nn::os::LightEvent: an event in one counter and an address arbiter.     *)
(* The counter says both whether the event is signalled and whether it is  *)
(* reset by hand or by the wait that it lets through.                      *)
(*                                                                         *)
(* Each operation loads the counter, decides, and then acts: whatever      *)
(* other threads do may come in between.  (Signal and ClearSignal compare  *)
(* two loads; an event never changes its way of reset, so that one of the  *)
(* two comparisons fails whenever it is made and one load decides.)        *)
(*                                                                         *)
(* For an event reset by hand, the store and the wakeup of Signal, and the *)
(* store of ClearSignal, are made under m_Lock, a SimpleLock, which stands *)
(* here for the mutex it implements: at most one thread is in it.          *)
(***************************************************************************)
EXTENDS AddressArbiter

CONSTANTS Threads, NoThread

ASSUME ThreadsFinite == IsFiniteSet(Threads)
ASSUME NoThreadIsNone == NoThread \notin Threads

NOT_RESETED_MANUAL == -2
NOT_RESETED_AUTO   == -1
RESETED_AUTO       == 0
RESETED_MANUAL     == 1

VARIABLES
  counter,          \* m_Counter
  holder,           \* the thread in m_Lock, or NoThread
  pc,               \* pc[t]: where t is in a call
  seen              \* seen[t]: signalled at some time since t's Wait began

vars == <<counter, holder, pc, seen>>

(***************************************************************************)
(* Wait goes through "load", "cas", and "waitManual" or "waitAuto";        *)
(* "asleepManual" and "asleepAuto" are inside the arbiter.  Signal goes    *)
(* through "signal", then "storeAuto" and "wakeOne", or "lockToSet" and    *)
(* "wakeAll"; ClearSignal through "clear", then "clearAuto" or "lockToClear" *)
(***************************************************************************)
WaitPlaces == {"load", "cas", "waitManual", "waitAuto", "asleepManual", "asleepAuto"}

Places == WaitPlaces \cup {"idle", "signal", "storeAuto", "wakeOne", "lockToSet", "wakeAll",
                           "clear", "clearAuto", "lockToClear", "unlock"}

Asleep == {t \in Threads : pc[t] \in {"asleepManual", "asleepAuto"}}

IsSignaled == counter >= 0

Goto(t, place) == pc' = [pc EXCEPT ![t] = place]

(* Initialize(isManualReset).                                              *)
Init ==
  /\ counter \in {NOT_RESETED_MANUAL, NOT_RESETED_AUTO}
  /\ holder = NoThread
  /\ pc = [t \in Threads |-> "idle"]
  /\ seen = [t \in Threads |-> FALSE]

Begin(t) ==
  /\ pc[t] = "idle"
  /\ \/ Goto(t, "load") /\ seen' = [seen EXCEPT ![t] = IsSignaled]
     \/ Goto(t, "signal") /\ UNCHANGED seen
     \/ Goto(t, "clear") /\ UNCHANGED seen
  /\ UNCHANGED <<counter, holder>>

(* The switch of Wait on one load of the counter.                          *)
Load(t) ==
  /\ pc[t] = "load"
  /\ \/ counter = NOT_RESETED_MANUAL /\ Goto(t, "waitManual")
     \/ counter = RESETED_MANUAL     /\ Goto(t, "idle")
     \/ counter = NOT_RESETED_AUTO   /\ Goto(t, "waitAuto")
     \/ counter = RESETED_AUTO       /\ Goto(t, "cas")
  /\ UNCHANGED <<counter, holder, seen>>

(* CompareAndSwap(RESETED_AUTO, NOT_RESETED_AUTO): one wait takes the      *)
(* signal.                                                                 *)
ConsumeAuto ==
  /\ counter = RESETED_AUTO
  /\ counter' = NOT_RESETED_AUTO

Cas(t) ==
  /\ pc[t] = "cas"
  /\ \/ ConsumeAuto /\ Goto(t, "idle")
     \/ counter # RESETED_AUTO /\ Goto(t, "waitAuto") /\ UNCHANGED counter
  /\ UNCHANGED <<holder, seen>>

(* TryWait: one load, and a compare-and-swap when that does not decide.    *)
TryWait(t) ==
  /\ pc[t] = "idle"
  /\ ConsumeAuto \/ (counter # RESETED_AUTO /\ UNCHANGED counter)
  /\ UNCHANGED <<holder, pc, seen>>

(* Fault: the thread sleeps on the value it loaded.                        *)
WaitManualUncompared(t) ==
  /\ pc[t] = "waitManual"
  /\ Goto(t, "asleepManual")
  /\ UNCHANGED <<counter, holder, seen>>

(* WaitIfLessThan(0).  An event reset by hand is not looked at again after *)
(* it; one reset by the wait is.                                           *)
WaitManual(t) ==
  /\ pc[t] = "waitManual"
  /\ Goto(t, IF Sleeps(counter, 0) THEN "asleepManual" ELSE "idle")
  /\ UNCHANGED <<counter, holder, seen>>

WaitAuto(t) ==
  /\ pc[t] = "waitAuto"
  /\ Goto(t, IF Sleeps(counter, 0) THEN "asleepAuto" ELSE "load")
  /\ UNCHANGED <<counter, holder, seen>>

(* Signal: the branch on the counter.                                      *)
Signal(t) ==
  /\ pc[t] = "signal"
  /\ \/ counter = NOT_RESETED_AUTO   /\ Goto(t, "storeAuto")
     \/ counter = NOT_RESETED_MANUAL /\ Goto(t, "lockToSet")
     \/ IsSignaled                   /\ Goto(t, "idle")
  /\ UNCHANGED <<counter, holder, seen>>

Set(value) ==
  /\ counter' = value
  /\ seen' = [t \in Threads |-> TRUE]

StoreAuto(t) ==
  /\ pc[t] = "storeAuto"
  /\ Set(RESETED_AUTO)
  /\ Goto(t, "wakeOne")
  /\ UNCHANGED holder

Enter(t) == holder = NoThread /\ holder' = t

LockToSet(t) ==
  /\ pc[t] = "lockToSet"
  /\ Enter(t)
  /\ Set(RESETED_MANUAL)
  /\ Goto(t, "wakeAll")

(* The arbiter wakes n threads; t goes on to place.                        *)
Wake(t, n, place) ==
  \E woken \in WakeSets(Asleep, n) :
    pc' = [u \in Threads |-> IF u = t THEN place
                             ELSE IF u \notin woken THEN pc[u]
                             ELSE IF pc[u] = "asleepAuto" THEN "load" ELSE "idle"]

WakeOne(t) ==
  /\ pc[t] = "wakeOne"
  /\ Wake(t, 1, "idle")
  /\ UNCHANGED <<counter, holder, seen>>

(* Fault: one thread is woken by the signal of an event reset by hand.     *)
WakeOneOfAll(t) ==
  /\ pc[t] = "wakeAll"
  /\ Wake(t, 1, "unlock")
  /\ UNCHANGED <<counter, holder, seen>>

WakeAll(t) ==
  /\ pc[t] = "wakeAll"
  /\ Wake(t, -1, "unlock")
  /\ UNCHANGED <<counter, holder, seen>>

(* ClearSignal: the branch on the counter.                                 *)
Clear(t) ==
  /\ pc[t] = "clear"
  /\ \/ counter = RESETED_MANUAL /\ Goto(t, "lockToClear")
     \/ counter = RESETED_AUTO   /\ Goto(t, "clearAuto")
     \/ ~IsSignaled              /\ Goto(t, "idle")
  /\ UNCHANGED <<counter, holder, seen>>

ClearAuto(t) ==
  /\ pc[t] = "clearAuto"
  /\ counter' = NOT_RESETED_AUTO
  /\ Goto(t, "idle")
  /\ UNCHANGED <<holder, seen>>

(* Fault: the store of ClearSignal takes no lock.                          *)
ClearUnlocked(t) ==
  /\ pc[t] = "lockToClear"
  /\ counter' = NOT_RESETED_MANUAL
  /\ Goto(t, "idle")
  /\ UNCHANGED <<holder, seen>>

(* Fault: the event is cleared relative to the value tested before.        *)
ClearBySubtraction(t) ==
  /\ pc[t] = "lockToClear"
  /\ Enter(t)
  /\ counter' = counter + NOT_RESETED_MANUAL - RESETED_MANUAL
  /\ Goto(t, "unlock")
  /\ UNCHANGED seen

LockToClear(t) ==
  /\ pc[t] = "lockToClear"
  /\ Enter(t)
  /\ counter' = NOT_RESETED_MANUAL
  /\ Goto(t, "unlock")
  /\ UNCHANGED seen

Unlock(t) ==
  /\ pc[t] = "unlock"
  /\ holder' = NoThread
  /\ Goto(t, "idle")
  /\ UNCHANGED <<counter, seen>>

Step(t) ==
  \/ Load(t) \/ Cas(t) \/ WaitManual(t) \/ WaitAuto(t)
  \/ Signal(t) \/ StoreAuto(t) \/ WakeOne(t) \/ LockToSet(t) \/ WakeAll(t)
  \/ Clear(t) \/ ClearAuto(t) \/ LockToClear(t) \/ Unlock(t)

Next == \E t \in Threads : Begin(t) \/ TryWait(t) \/ Step(t)

Spec == Init /\ [][Next]_vars

(* A thread in the middle of a call runs on.                               *)
FairSpec == Spec /\ \A t \in Threads : WF_vars(Step(t))

-----------------------------------------------------------------------------
TypeOK ==
  /\ counter \in {NOT_RESETED_MANUAL, NOT_RESETED_AUTO, RESETED_AUTO, RESETED_MANUAL}
  /\ holder \in Threads \cup {NoThread}
  /\ pc \in [Threads -> Places]
  /\ seen \in [Threads -> BOOLEAN]

(* Wait never returns on an event that was not signalled at any time since *)
(* it was called: the wakeup of a Signal that a ClearSignal has already    *)
(* undone does not let a later Wait through.                               *)
WaitReturnsOnASignal ==
  [][\A t \in Threads : pc[t] \in WaitPlaces /\ pc'[t] = "idle" => seen[t]]_vars

(* No thread sleeps on a signalled event unless somebody is awake to deal  *)
(* with the signal: a Signal that has yet to wake, or a Wait that has yet  *)
(* to take it.                                                             *)
NoLostSignal ==
  IsSignaled /\ Asleep # {} =>
    \E t \in Threads : pc[t] \in {"wakeOne", "wakeAll", "load", "cas", "waitAuto"}

(* A signalled event does not stay signalled over sleeping threads.        *)
SleepersAreWoken == (IsSignaled /\ Asleep # {}) ~> (~IsSignaled \/ Asleep = {})

=============================================================================

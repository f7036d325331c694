--------------------------- MODULE LightSemaphore ---------------------------
(***************************************************************************)
(* nn::os::LightSemaphore: a counting semaphore in a counter and an        *)
(* address arbiter, with a second counter of the threads that wait, by     *)
(* which Release decides whether to call the arbiter at all.               *)
(*                                                                         *)
(* The two counters are updated separately: a waiter announces itself      *)
(* before it sleeps, a releaser adds its permits before it looks.          *)
(***************************************************************************)
EXTENDS AddressArbiter

CONSTANTS
  Threads,
  InitialCount,     \* Initialize's initialCount
  MaxCount,         \* m_Max
  ReleaseCounts     \* the counts callers pass to Release

ASSUME ThreadsFinite == IsFiniteSet(Threads)
ASSUME CountsAreLegal ==    \* the assertions of Initialize and Release
  /\ MaxCount \in Nat \ {0} /\ MaxCount <= 32767
  /\ InitialCount \in 0 .. MaxCount
  /\ ReleaseCounts \subseteq Nat \ {0}

VARIABLES
  count,            \* m_Counter
  numWaiting,       \* m_NumWaiting
  pc,               \* pc[t]: where t is in a call
  adding            \* adding[t]: the releaseCount of t's call of Release, or 0

vars == <<count, numWaiting, pc, adding>>

(***************************************************************************)
(* Acquire goes round "announce", "wait", "withdraw" and "retry".  Release *)
(* goes on to "look" at m_NumWaiting unless the old count already says     *)
(* that threads may be asleep, and from there to "signal".                 *)
(***************************************************************************)
Places == {"idle", "announce", "wait", "asleep", "withdraw", "retry", "look", "signal"}

Asleep == {t \in Threads : pc[t] = "asleep"}

Goto(t, place) == pc' = [pc EXCEPT ![t] = place]

Init ==
  /\ count = InitialCount
  /\ numWaiting = 0
  /\ pc = [t \in Threads |-> "idle"]
  /\ adding = [t \in Threads |-> 0]

DecrementIfPositive ==
  /\ count > 0
  /\ count' = count - 1

(* TryAcquire as its callers use it alone.                                 *)
TryAcquire(t) ==
  /\ pc[t] = "idle"
  /\ DecrementIfPositive \/ (count <= 0 /\ UNCHANGED count)
  /\ UNCHANGED <<numWaiting, pc, adding>>

(* The test of Acquire's loop, the first time and after each wait.         *)
Acquire(t) ==
  /\ pc[t] \in {"idle", "retry"}
  /\ \/ DecrementIfPositive /\ Goto(t, "idle")
     \/ count <= 0 /\ Goto(t, "announce") /\ UNCHANGED count
  /\ UNCHANGED <<numWaiting, adding>>

Announce(t) ==
  /\ pc[t] = "announce"
  /\ numWaiting' = numWaiting + 1
  /\ Goto(t, "wait")
  /\ UNCHANGED <<count, adding>>

(* WaitIfLessThan(1): sleep while there is no permit.                      *)
Wait(t) ==
  /\ pc[t] = "wait"
  /\ Goto(t, IF Sleeps(count, 1) THEN "asleep" ELSE "withdraw")
  /\ UNCHANGED <<count, numWaiting, adding>>

Withdraw(t) ==
  /\ pc[t] = "withdraw"
  /\ numWaiting' = numWaiting - 1
  /\ Goto(t, "retry")
  /\ UNCHANGED <<count, adding>>

(* Fault: the cap is tested before n is added.                             *)
AddBelowMax(n) ==
  count' = IF count >= MaxCount THEN MaxCount ELSE count + n

(* Release(n): LimitedAdd, and the first half of the test.                 *)
LimitedAdd(n) ==
  count' = IF count > MaxCount - n THEN MaxCount ELSE count + n

Release(t, n) ==
  /\ pc[t] = "idle"
  /\ LimitedAdd(n)
  /\ adding' = [adding EXCEPT ![t] = n]
  /\ Goto(t, IF count <= 0 THEN "signal" ELSE "look")
  /\ UNCHANGED numWaiting

(* Fault: the only waiter is not looked for.                               *)
LookOffByOne(t) ==
  /\ pc[t] = "look"
  /\ \/ numWaiting > 1 /\ Goto(t, "signal") /\ UNCHANGED adding
     \/ numWaiting <= 1 /\ Goto(t, "idle") /\ adding' = [adding EXCEPT ![t] = 0]
  /\ UNCHANGED <<count, numWaiting>>

(* The second half of the test, when the count was positive.               *)
LookForWaiters(t) ==
  /\ pc[t] = "look"
  /\ \/ numWaiting > 0 /\ Goto(t, "signal") /\ UNCHANGED adding
     \/ numWaiting <= 0 /\ Goto(t, "idle") /\ adding' = [adding EXCEPT ![t] = 0]
  /\ UNCHANGED <<count, numWaiting>>

(* Fault: a woken thread does not withdraw its announcement.               *)
SignalToRetry(t) ==
  /\ pc[t] = "signal"
  /\ \E woken \in WakeSets(Asleep, adding[t]) :
       pc' = [u \in Threads |-> IF u \in woken THEN "retry"
                                ELSE IF u = t THEN "idle" ELSE pc[u]]
  /\ adding' = [adding EXCEPT ![t] = 0]
  /\ UNCHANGED <<count, numWaiting>>

(* Fault: one thread is woken, however many permits were released.         *)
SignalOne(t) ==
  /\ pc[t] = "signal"
  /\ \E woken \in WakeSets(Asleep, 1) :
       pc' = [u \in Threads |-> IF u \in woken THEN "withdraw"
                                ELSE IF u = t THEN "idle" ELSE pc[u]]
  /\ adding' = [adding EXCEPT ![t] = 0]
  /\ UNCHANGED <<count, numWaiting>>

Signal(t) ==
  /\ pc[t] = "signal"
  /\ \E woken \in WakeSets(Asleep, adding[t]) :
       pc' = [u \in Threads |-> IF u \in woken THEN "withdraw"
                                ELSE IF u = t THEN "idle" ELSE pc[u]]
  /\ adding' = [adding EXCEPT ![t] = 0]
  /\ UNCHANGED <<count, numWaiting>>

(* What a thread inside a call does next.                                  *)
Step(t) ==
  \/ pc[t] = "retry" /\ Acquire(t)
  \/ Announce(t) \/ Wait(t) \/ Withdraw(t) \/ LookForWaiters(t) \/ Signal(t)

Call(t) ==
  \/ pc[t] = "idle" /\ Acquire(t)
  \/ TryAcquire(t)
  \/ \E n \in ReleaseCounts : Release(t, n)

Next == \E t \in Threads : Call(t) \/ Step(t)

Spec == Init /\ [][Next]_vars

(* A thread in the middle of a call runs on.                               *)
FairSpec == Spec /\ \A t \in Threads : WF_vars(Step(t))

-----------------------------------------------------------------------------
TypeOK ==
  /\ count \in 0 .. MaxCount
  /\ numWaiting \in 0 .. Cardinality(Threads)
  /\ pc \in [Threads -> Places]
  /\ adding \in [Threads -> ReleaseCounts \cup {0}]

(* m_NumWaiting counts the threads between their announcement and their    *)
(* withdrawal, neither more nor fewer, however the two counters are        *)
(* interleaved; in particular it is never zero over a sleeping thread.     *)
NumWaitingIsExact ==
  numWaiting = Cardinality({t \in Threads : pc[t] \in {"wait", "asleep", "withdraw"}})

(* No permit is left lying over a sleeping thread: while a thread sleeps,  *)
(* there are no more permits than threads on their way to take one plus    *)
(* permits that Releases under way have added and are going to wake        *)
(* threads for, each of them a pair of the thread and a number.            *)
OnTheirWay == {t \in Threads : pc[t] \in {"announce", "wait", "withdraw", "retry"}}

PermitsAdded(releaseCounts) == UNION {{t} \X (1 .. releaseCounts[t]) : t \in Threads}

NoPermitStranded ==
  Asleep # {} => count <= Cardinality(OnTheirWay) + Cardinality(PermitsAdded(adding))

(* A thread does not sleep on while permits last: it is woken, or others   *)
(* take the last permit.  Release, which does not always call the arbiter, *)
(* calls it whenever it must.                                              *)
SleepersWakeOrPermitsRunOut ==
  \A t \in Threads :
    (pc[t] = "asleep" /\ count > 0) ~> (pc[t] # "asleep" \/ count = 0)

=============================================================================

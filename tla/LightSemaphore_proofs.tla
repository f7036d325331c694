------------------------ MODULE LightSemaphore_proofs -----------------------
(***************************************************************************)
(* Proofs about LightSemaphore for every finite set of threads, every      *)
(* maximum and every set of counts that callers release.                   *)
(***************************************************************************)
EXTENDS LightSemaphore, FiniteSetTheorems, TLAPS

TypeInv ==
  /\ count \in 0 .. MaxCount
  /\ numWaiting \in Int
  /\ pc \in [Threads -> Places]
  /\ adding \in [Threads -> ReleaseCounts \cup {0}]

(* The threads between their announcement and their withdrawal.            *)
Announced == {t \in Threads : pc[t] \in {"wait", "asleep", "withdraw"}}

Exact == numWaiting = Cardinality(Announced)

IInv == TypeInv /\ Exact

LEMMA AnnouncedFinite ==
  /\ IsFiniteSet(Announced)
  /\ Cardinality(Announced) \in 0 .. Cardinality(Threads)
<1>1. Announced \in SUBSET Threads
  BY DEF Announced
<1>2. IsFiniteSet(Announced) /\ Cardinality(Announced) <= Cardinality(Threads)
  BY <1>1, ThreadsFinite, FS_Subset
<1>3. Cardinality(Announced) \in Nat /\ Cardinality(Threads) \in Nat
  BY <1>2, ThreadsFinite, FS_CardinalityType
<1>4. QED
  BY <1>2, <1>3

(* A step in which nobody announces itself or withdraws.                   *)
LEMMA SameAnnouncedSameCount ==
  ASSUME Exact, Announced' = Announced, UNCHANGED numWaiting
  PROVE  Exact'
  BY DEF Exact

LEMMA AcquireKeepsIInv ==
  ASSUME IInv, NEW t \in Threads, Acquire(t)
  PROVE  IInv'
<1> USE DEF IInv, TypeInv, Places, Goto, Acquire, DecrementIfPositive
<1>1. TypeInv'
  BY CountsAreLegal
<1>2. Announced' = Announced
  BY DEF Announced
<1>3. QED
  BY <1>1, <1>2, SameAnnouncedSameCount

LEMMA AnnounceKeepsIInv ==
  ASSUME IInv, NEW t \in Threads, Announce(t)
  PROVE  IInv'
<1> USE DEF IInv, TypeInv, Places, Goto, Announce
<1>1. TypeInv'
  OBVIOUS
<1>2. t \notin Announced /\ Announced' = Announced \cup {t}
  BY DEF Announced
<1>3. Cardinality(Announced') = Cardinality(Announced) + 1
  BY <1>2, AnnouncedFinite, FS_AddElement
<1>4. QED
  BY <1>1, <1>3 DEF Exact

LEMMA WaitKeepsIInv ==
  ASSUME IInv, NEW t \in Threads, Wait(t)
  PROVE  IInv'
<1> USE DEF IInv, TypeInv, Places, Goto, Wait
<1>1. TypeInv' /\ Announced' = Announced
  BY DEF Announced
<1>2. QED
  BY <1>1, SameAnnouncedSameCount

LEMMA WithdrawKeepsIInv ==
  ASSUME IInv, NEW t \in Threads, Withdraw(t)
  PROVE  IInv'
<1> USE DEF IInv, TypeInv, Places, Goto, Withdraw
<1>1. TypeInv'
  OBVIOUS
<1>2. t \in Announced /\ Announced' = Announced \ {t}
  BY DEF Announced
<1>3. Cardinality(Announced') = Cardinality(Announced) - 1
  BY <1>2, AnnouncedFinite, FS_RemoveElement
<1>4. QED
  BY <1>1, <1>3 DEF Exact

LEMMA ReleaseKeepsIInv ==
  ASSUME IInv, NEW t \in Threads, NEW n \in ReleaseCounts, Release(t, n)
  PROVE  IInv'
<1> USE DEF IInv, TypeInv, Places, Goto, Release
<1>1. count' \in 0 .. MaxCount
  BY CountsAreLegal DEF LimitedAdd
<1>2. TypeInv'
  BY <1>1
<1>3. Announced' = Announced
  BY DEF Announced
<1>4. QED
  BY <1>2, <1>3, SameAnnouncedSameCount

LEMMA LookForWaitersKeepsIInv ==
  ASSUME IInv, NEW t \in Threads, LookForWaiters(t)
  PROVE  IInv'
<1> USE DEF IInv, TypeInv, Places, Goto, LookForWaiters
<1>1. TypeInv' /\ Announced' = Announced
  BY DEF Announced
<1>2. QED
  BY <1>1, SameAnnouncedSameCount

(* The threads a signal wakes stay announced.                              *)
LEMMA SignalKeepsIInv ==
  ASSUME IInv, NEW t \in Threads, Signal(t)
  PROVE  IInv'
<1> USE DEF IInv, TypeInv, Places
<1>1. PICK woken \in WakeSets(Asleep, adding[t]) :
        pc' = [u \in Threads |-> IF u \in woken THEN "withdraw"
                                 ELSE IF u = t THEN "idle" ELSE pc[u]]
  BY DEF Signal
<1>2. \A u \in woken : u \in Threads /\ pc[u] = "asleep"
  BY DEF WakeSets, Asleep
<1>3. TypeInv' /\ Announced' = Announced
  BY <1>1, <1>2 DEF Signal, Announced
<1>4. QED
  BY <1>3, SameAnnouncedSameCount DEF Signal

-----------------------------------------------------------------------------
LEMMA InitIInv == Init => IInv
<1> SUFFICES ASSUME Init PROVE IInv
  OBVIOUS
<1>1. TypeInv /\ Announced = {}
  BY CountsAreLegal DEF Init, TypeInv, Places, Announced
<1>2. QED
  BY <1>1, FS_EmptySet DEF Init, IInv, Exact

LEMMA NextIInv == IInv /\ [Next]_vars => IInv'
<1> SUFFICES ASSUME IInv, [Next]_vars PROVE IInv'
  OBVIOUS
<1>1. CASE UNCHANGED vars
  BY <1>1 DEF vars, IInv, TypeInv, Exact, Announced
<1>2. ASSUME NEW t \in Threads, Step(t)
      PROVE  IInv'
  BY <1>2, AcquireKeepsIInv, AnnounceKeepsIInv, WaitKeepsIInv, WithdrawKeepsIInv,
     LookForWaitersKeepsIInv, SignalKeepsIInv DEF Step
<1>3. ASSUME NEW t \in Threads, Call(t)
      PROVE  IInv'
  <2>1. CASE TryAcquire(t)
    <3>1. TypeInv' /\ Announced' = Announced
      BY <2>1, CountsAreLegal DEF TryAcquire, DecrementIfPositive, IInv, TypeInv, Announced
    <3>2. QED
      BY <2>1, <3>1, SameAnnouncedSameCount DEF TryAcquire, IInv
  <2>2. QED
    BY <1>3, <2>1, AcquireKeepsIInv, ReleaseKeepsIInv DEF Call
<1>4. QED
  BY <1>1, <1>2, <1>3 DEF Next

LEMMA IInvCorrect == Spec => []IInv
  BY InitIInv, NextIInv, PTL DEF Spec

(* m_NumWaiting is, at every moment, the number of threads that have       *)
(* announced themselves and not withdrawn: the second word by which        *)
(* Release decides never overlooks a sleeping thread.                      *)
THEOREM NumWaitingCorrect == Spec => []NumWaitingIsExact
<1>1. IInv => NumWaitingIsExact
  BY DEF IInv, Exact, Announced, NumWaitingIsExact
<1>2. QED
  BY <1>1, IInvCorrect, PTL

(* Types, with the bounds on both words: the permits stay within m_Max,    *)
(* which LimitedAdd sees to, and the waiting threads between zero and all. *)
THEOREM TypeCorrect == Spec => []TypeOK
<1>1. IInv => TypeOK
  BY AnnouncedFinite DEF IInv, TypeInv, Exact, TypeOK
<1>2. QED
  BY <1>1, IInvCorrect, PTL

-----------------------------------------------------------------------------
(* One thread's permits, as pairs.                                         *)
LEMMA PermitsOfOne ==
  ASSUME NEW t, NEW n \in Nat
  PROVE  IsFiniteSet({t} \X (1 .. n)) /\ Cardinality({t} \X (1 .. n)) = n
<1> DEFINE T == {t}
           N == 1 .. n
<1>1. IsFiniteSet(T) /\ Cardinality(T) = 1
  BY FS_Singleton
<1>2. IsFiniteSet(N) /\ Cardinality(N) = n
  BY FS_Interval
<1>3. IsFiniteSet(T \X N) /\ Cardinality(T \X N) = Cardinality(T) * Cardinality(N)
  <2> HIDE DEF T, N
  <2>1. QED
    BY <1>1, <1>2, FS_Product
<1>4. Cardinality(T) * Cardinality(N) = n
  BY <1>1, <1>2
<1>5. QED
  BY <1>3, <1>4

(* The permits that threads are adding, for any function that says how     *)
(* many each adds: finitely many, and as many more as one thread adds.     *)
LEMMA PermitsAddedFinite ==
  ASSUME NEW f \in [Threads -> Nat]
  PROVE  IsFiniteSet(PermitsAdded(f)) /\ Cardinality(PermitsAdded(f)) \in Nat
<1> DEFINE pairs == [t \in Threads |-> {t} \X (1 .. f[t])]
           all   == {{t} \X (1 .. f[t]) : t \in Threads}
<1>1. IsFiniteSet(all)
  <2>1. pairs \in Surjection(Threads, all)
    BY DEF Surjection
  <2> HIDE DEF pairs, all
  <2>2. QED
    BY <2>1, ThreadsFinite, FS_Surjection
<1>2. \A T \in all : IsFiniteSet(T)
  <2>1. ASSUME NEW t \in Threads
        PROVE  IsFiniteSet({t} \X (1 .. f[t]))
    <3>1. f[t] \in Nat
      OBVIOUS
    <3>2. QED
      BY <3>1, PermitsOfOne
  <2>2. QED
    BY <2>1
<1>3. IsFiniteSet(UNION all)
  <2> HIDE DEF all
  <2>1. QED
    BY <1>1, <1>2, FS_UNION
<1>4. PermitsAdded(f) = UNION all
  BY DEF PermitsAdded
<1>5. QED
  <2> HIDE DEF all
  <2>1. QED
    BY <1>3, <1>4, FS_CardinalityType

LEMMA AddPermits ==
  ASSUME NEW f \in [Threads -> Nat], NEW t \in Threads, f[t] = 0, NEW n \in Nat
  PROVE  Cardinality(PermitsAdded([f EXCEPT ![t] = n])) = Cardinality(PermitsAdded(f)) + n
<1> DEFINE g   == [f EXCEPT ![t] = n]
           old == PermitsAdded(f)
           new == {t} \X (1 .. n)
<1>1. PermitsAdded(g) = old \cup new
  <2>1. 1 .. f[t] = {} /\ g[t] = n
    OBVIOUS
  <2>2. \A u \in Threads : u # t => g[u] = f[u]
    OBVIOUS
  <2> HIDE DEF g
  <2>3. QED
    BY <2>1, <2>2 DEF PermitsAdded
<1>2. old \cap new = {}
  BY DEF PermitsAdded
<1>3. IsFiniteSet(new) /\ Cardinality(new) = n
  BY PermitsOfOne
<1>4. IsFiniteSet(old) /\ Cardinality(old) \in Nat
  BY PermitsAddedFinite
<1>5. Cardinality(old \cup new) = Cardinality(old) + n
  <2> HIDE DEF old, new
  <2>1. Cardinality(old \cap new) = 0
    BY <1>2, FS_EmptySet
  <2>2. Cardinality(old \cup new) = Cardinality(old) + Cardinality(new) - Cardinality(old \cap new)
    BY <1>3, <1>4, FS_Union
  <2>3. QED
    BY <1>3, <1>4, <2>1, <2>2
<1>6. QED
  BY <1>1, <1>5

(* The inductive form: a thread adds permits only in a Release, and no    *)
(* more permits are left than are on their way to be taken, or added.      *)
AddsInRelease == \A t \in Threads : adding[t] # 0 => pc[t] \in {"look", "signal"}

PermitsInv == AddsInRelease /\ NoPermitStranded

LEMMA OnTheirWayFinite ==
  IsFiniteSet(OnTheirWay) /\ Cardinality(OnTheirWay) \in Nat
<1>1. OnTheirWay \in SUBSET Threads
  BY DEF OnTheirWay
<1>2. QED
  BY <1>1, ThreadsFinite, FS_Subset, FS_CardinalityType

LEMMA AddingIsNat ==
  ASSUME IInv
  PROVE  adding \in [Threads -> Nat] /\ Cardinality(PermitsAdded(adding)) \in Nat
<1>1. adding \in [Threads -> Nat]
  <2>1. ReleaseCounts \cup {0} \subseteq Nat
    BY CountsAreLegal
  <2>2. adding \in [Threads -> ReleaseCounts \cup {0}]
    BY DEF IInv, TypeInv
  <2>3. QED
    BY <2>1, <2>2
<1>2. QED
  BY <1>1, PermitsAddedFinite

(* Steps after which no fewer threads are on their way, no more are asleep *)
(* and no more permits are left.                                           *)
LEMMA NoneLeftBehind ==
  ASSUME IInv, NoPermitStranded, UNCHANGED adding, count' \in Int, count' <= count,
         Asleep' \subseteq Asleep, OnTheirWay \subseteq OnTheirWay', OnTheirWay' \subseteq Threads
  PROVE  NoPermitStranded'
<1>1. OnTheirWay' \in SUBSET Threads /\ OnTheirWay \in SUBSET OnTheirWay'
  OBVIOUS
<1>2. /\ Cardinality(OnTheirWay') \in Nat
      /\ Cardinality(OnTheirWay) <= Cardinality(OnTheirWay')
  <2>1. IsFiniteSet(OnTheirWay')
    BY <1>1, ThreadsFinite, FS_Subset
  <2>2. QED
    BY <1>1, <2>1, FS_Subset, FS_CardinalityType
<1>3. PermitsAdded(adding)' = PermitsAdded(adding)
  BY DEF PermitsAdded
<1>4. Asleep' # {} => Asleep # {}
  OBVIOUS
<1>5. count \in Int
  BY DEF IInv, TypeInv
<1>6. QED
  BY <1>2, <1>3, <1>4, <1>5, AddingIsNat, OnTheirWayFinite DEF NoPermitStranded

LEMMA AcquireKeepsPermitsInv ==
  ASSUME IInv, PermitsInv, NEW t \in Threads, Acquire(t)
  PROVE  PermitsInv'
<1> USE DEF IInv, TypeInv, PermitsInv, AddsInRelease, Places, Goto, Acquire, DecrementIfPositive
<1>1. AddsInRelease'
  OBVIOUS
<1>2. UNCHANGED adding /\ count' \in Int /\ Asleep' \subseteq Asleep
  BY DEF Asleep
<1>3. CASE pc[t] = "retry" /\ pc' = [pc EXCEPT ![t] = "idle"] /\ count' = count - 1
  (* A thread on its way takes a permit. *)
  <2>1. t \in OnTheirWay /\ OnTheirWay' = OnTheirWay \ {t}
    BY <1>3 DEF OnTheirWay
  <2>2. Cardinality(OnTheirWay') = Cardinality(OnTheirWay) - 1
    BY <2>1, OnTheirWayFinite, FS_RemoveElement
  <2>3. PermitsAdded(adding)' = PermitsAdded(adding)
    BY <1>2 DEF PermitsAdded
  <2>4. Asleep # {} => count <= Cardinality(OnTheirWay) + Cardinality(PermitsAdded(adding))
    BY DEF NoPermitStranded
  <2>5. count \in Int
    OBVIOUS
  <2> HIDE DEF IInv, TypeInv, PermitsInv, Acquire
  <2>6. NoPermitStranded'
    BY <1>2, <1>3, <2>2, <2>3, <2>4, <2>5, OnTheirWayFinite, AddingIsNat DEF NoPermitStranded
  <2>7. QED
    BY <1>1, <2>6 DEF PermitsInv
<1>4. CASE ~(pc[t] = "retry" /\ pc' = [pc EXCEPT ![t] = "idle"] /\ count' = count - 1)
  <2>1. OnTheirWay \subseteq OnTheirWay' /\ OnTheirWay' \subseteq Threads /\ count' <= count
    BY <1>4 DEF OnTheirWay
  <2>2. NoPermitStranded'
    BY <1>2, <2>1, NoneLeftBehind
  <2>3. QED
    BY <1>1, <2>2
<1>5. QED
  BY <1>3, <1>4

LEMMA AnnounceKeepsPermitsInv ==
  ASSUME IInv, PermitsInv, NEW t \in Threads, Announce(t)
  PROVE  PermitsInv'
<1> USE DEF IInv, TypeInv, PermitsInv, AddsInRelease, Places, Goto, Announce
<1>1. AddsInRelease'
  OBVIOUS
<1>2. /\ Asleep' \subseteq Asleep
      /\ OnTheirWay \subseteq OnTheirWay' /\ OnTheirWay' \subseteq Threads
  BY DEF Asleep, OnTheirWay
<1>3. QED
  BY <1>1, <1>2, NoneLeftBehind

(* A thread goes to sleep only when no permit is left.                     *)
LEMMA WaitKeepsPermitsInv ==
  ASSUME IInv, PermitsInv, NEW t \in Threads, Wait(t)
  PROVE  PermitsInv'
<1> USE DEF IInv, TypeInv, PermitsInv, AddsInRelease, Places, Goto, Wait, Sleeps
<1>1. AddsInRelease' /\ UNCHANGED <<count, adding>>
  OBVIOUS
<1>2. PermitsAdded(adding)' = PermitsAdded(adding)
  BY DEF PermitsAdded
<1>3. CASE count < 1
  <2>1. OnTheirWay' \in SUBSET Threads
    BY DEF OnTheirWay
  <2>2. Cardinality(OnTheirWay') \in Nat
    BY <2>1, ThreadsFinite, FS_Subset, FS_CardinalityType
  <2>3. NoPermitStranded'
    BY <1>1, <1>2, <1>3, <2>2, AddingIsNat DEF NoPermitStranded
  <2>4. QED
    BY <1>1, <2>3
<1>4. CASE ~(count < 1)
  <2>1. /\ Asleep' \subseteq Asleep
        /\ OnTheirWay \subseteq OnTheirWay' /\ OnTheirWay' \subseteq Threads
    BY <1>4 DEF Asleep, OnTheirWay
  <2>2. NoPermitStranded'
    BY <2>1, NoneLeftBehind
  <2>3. QED
    BY <1>1, <2>2
<1>5. QED
  BY <1>3, <1>4

LEMMA WithdrawKeepsPermitsInv ==
  ASSUME IInv, PermitsInv, NEW t \in Threads, Withdraw(t)
  PROVE  PermitsInv'
<1> USE DEF IInv, TypeInv, PermitsInv, AddsInRelease, Places, Goto, Withdraw
<1>1. AddsInRelease'
  OBVIOUS
<1>2. /\ Asleep' \subseteq Asleep
      /\ OnTheirWay \subseteq OnTheirWay' /\ OnTheirWay' \subseteq Threads
  BY DEF Asleep, OnTheirWay
<1>3. QED
  BY <1>1, <1>2, NoneLeftBehind

(* The permits of a Release are announced as they are added.               *)
LEMMA ReleaseKeepsPermitsInv ==
  ASSUME IInv, PermitsInv, NEW t \in Threads, NEW n \in ReleaseCounts, Release(t, n)
  PROVE  PermitsInv'
<1> USE DEF IInv, TypeInv, PermitsInv, AddsInRelease, Places, Goto, Release
<1>1. AddsInRelease'
  OBVIOUS
<1>2. Asleep' = Asleep /\ OnTheirWay' = OnTheirWay
  BY DEF Asleep, OnTheirWay
<1>3. n \in Nat /\ count' \in Int /\ count' <= count + n
  BY CountsAreLegal DEF LimitedAdd
<1>4. adding[t] = 0 /\ adding' = [adding EXCEPT ![t] = n]
  OBVIOUS
<1>5. Cardinality(PermitsAdded(adding)') = Cardinality(PermitsAdded(adding)) + n
  <2>1. PermitsAdded(adding)' = PermitsAdded([adding EXCEPT ![t] = n])
    BY <1>4 DEF PermitsAdded
  <2>2. adding \in [Threads -> Nat]
    BY AddingIsNat
  <2> HIDE DEF IInv, PermitsInv, AddsInRelease, Release
  <2>3. Cardinality(PermitsAdded([adding EXCEPT ![t] = n])) = Cardinality(PermitsAdded(adding)) + n
    BY <1>3, <1>4, <2>2, AddPermits
  <2>4. QED
    BY <2>1, <2>3
<1>6. NoPermitStranded'
  BY <1>2, <1>3, <1>5, OnTheirWayFinite, AddingIsNat DEF NoPermitStranded
<1>7. QED
  BY <1>1, <1>6

LEMMA LookForWaitersKeepsPermitsInv ==
  ASSUME IInv, PermitsInv, NEW t \in Threads, LookForWaiters(t)
  PROVE  PermitsInv'
<1> USE DEF IInv, TypeInv, PermitsInv, AddsInRelease, Places, Goto, LookForWaiters
<1>1. AddsInRelease'
  OBVIOUS
<1>2. Asleep' = Asleep /\ OnTheirWay' = OnTheirWay /\ OnTheirWay \subseteq Threads
  BY DEF Asleep, OnTheirWay
<1>3. CASE numWaiting > 0
  <2>1. NoPermitStranded'
    BY <1>2, <1>3, NoneLeftBehind
  <2>2. QED
    BY <1>1, <2>1
(* The count of waiting threads is exact: when it is zero, nobody sleeps.  *)
<1>4. CASE numWaiting <= 0
  <2>1. Announced = {}
    BY <1>4, AnnouncedFinite, FS_EmptySet DEF Exact
  <2>2. Asleep = {}
    BY <2>1 DEF Asleep, Announced
  <2>3. NoPermitStranded'
    BY <1>2, <2>2 DEF NoPermitStranded
  <2>4. QED
    BY <1>1, <2>3
<1>5. QED
  BY <1>3, <1>4

(* Either everybody wakes, or as many threads are on their way as there    *)
(* were permits announced.                                                 *)
LEMMA SignalKeepsPermitsInv ==
  ASSUME IInv, PermitsInv, NEW t \in Threads, Signal(t)
  PROVE  PermitsInv'
<1>1. PICK woken \in WakeSets(Asleep, adding[t]) :
        pc' = [u \in Threads |-> IF u \in woken THEN "withdraw"
                                 ELSE IF u = t THEN "idle" ELSE pc[u]]
  BY DEF Signal
<1>2. pc[t] = "signal" /\ adding' = [adding EXCEPT ![t] = 0] /\ count' = count
  BY DEF Signal
<1>3. pc \in [Threads -> Places] /\ count \in Int /\ adding \in [Threads -> Nat]
  BY AddingIsNat DEF IInv, TypeInv
<1>4. woken \in SUBSET Asleep /\ Cardinality(woken) = NumWoken(Asleep, adding[t])
  BY DEF WakeSets
<1>5. Asleep \in SUBSET Threads /\ IsFiniteSet(Asleep)
  BY ThreadsFinite, FS_Subset DEF Asleep
<1>6. AddsInRelease'
  BY <1>1, <1>2, <1>3, <1>4 DEF PermitsInv, AddsInRelease, Asleep
<1>7. OnTheirWay' = OnTheirWay \cup woken /\ OnTheirWay \cap woken = {}
  BY <1>1, <1>2, <1>3, <1>4, <1>5 DEF OnTheirWay, Asleep
<1>8. Asleep' = Asleep \ woken
  BY <1>1, <1>2, <1>3, <1>4, <1>5 DEF Asleep
<1>9. CASE adding[t] > Cardinality(Asleep)
  <2>1. Cardinality(woken) = Cardinality(Asleep)
    BY <1>4, <1>9 DEF NumWoken
  <2>2. woken = Asleep
    BY <1>4, <1>5, <2>1, FS_Subset
  <2>3. NoPermitStranded'
    BY <1>8, <2>2 DEF NoPermitStranded
  <2>4. QED
    BY <1>6, <2>3 DEF PermitsInv
<1>10. CASE ~(adding[t] > Cardinality(Asleep))
  <2>1. Cardinality(woken) = adding[t] /\ adding[t] \in Nat
    BY <1>3, <1>4, <1>10 DEF NumWoken
  <2>2. Cardinality(OnTheirWay') = Cardinality(OnTheirWay) + adding[t]
    <3>1. IsFiniteSet(woken)
      BY <1>4, <1>5, FS_Subset
    <3>2. Cardinality(OnTheirWay \cap woken) = 0
      BY <1>7, FS_EmptySet
    <3>3. Cardinality(OnTheirWay \cup woken)
            = Cardinality(OnTheirWay) + Cardinality(woken) - Cardinality(OnTheirWay \cap woken)
      BY <3>1, OnTheirWayFinite, FS_Union
    <3>4. QED
      BY <1>7, <2>1, <3>2, <3>3, OnTheirWayFinite
  <2>3. Cardinality(PermitsAdded(adding)) = Cardinality(PermitsAdded(adding')) + adding[t]
    <3> DEFINE after == [adding EXCEPT ![t] = 0]
    <3>1. after \in [Threads -> Nat] /\ after[t] = 0 /\ [after EXCEPT ![t] = adding[t]] = adding
      BY <1>3
    <3> HIDE DEF after
    <3>2. Cardinality(PermitsAdded([after EXCEPT ![t] = adding[t]]))
            = Cardinality(PermitsAdded(after)) + adding[t]
      BY <2>1, <3>1, AddPermits
    <3>3. QED
      BY <1>2, <3>1, <3>2 DEF after
  <2>4. Cardinality(PermitsAdded(adding')) \in Nat
    BY <1>2, <1>3, PermitsAddedFinite
  <2>5. PermitsAdded(adding)' = PermitsAdded(adding')
    BY DEF PermitsAdded
  <2>6. Asleep' # {} => Asleep # {}
    BY <1>8
  <2>7. NoPermitStranded'
    BY <1>2, <1>3, <2>1, <2>2, <2>3, <2>4, <2>5, <2>6, OnTheirWayFinite
    DEF PermitsInv, NoPermitStranded
  <2>8. QED
    BY <1>6, <2>7 DEF PermitsInv
<1>11. QED
  BY <1>9, <1>10

-----------------------------------------------------------------------------
LEMMA InitPermitsInv == Init => PermitsInv
  BY DEF Init, PermitsInv, AddsInRelease, NoPermitStranded, Asleep

LEMMA NextPermitsInv == IInv /\ PermitsInv /\ [Next]_vars => PermitsInv'
<1> SUFFICES ASSUME IInv, PermitsInv, [Next]_vars PROVE PermitsInv'
  OBVIOUS
<1>1. CASE UNCHANGED vars
  BY <1>1 DEF vars, PermitsInv, AddsInRelease, NoPermitStranded, Asleep, OnTheirWay, PermitsAdded
<1>2. ASSUME NEW t \in Threads, Step(t)
      PROVE  PermitsInv'
  BY <1>2, AcquireKeepsPermitsInv, AnnounceKeepsPermitsInv, WaitKeepsPermitsInv,
     WithdrawKeepsPermitsInv, LookForWaitersKeepsPermitsInv, SignalKeepsPermitsInv DEF Step
<1>3. ASSUME NEW t \in Threads, Call(t)
      PROVE  PermitsInv'
  <2>1. CASE TryAcquire(t)
    <3>1. AddsInRelease' /\ UNCHANGED adding
      BY <2>1 DEF TryAcquire, PermitsInv, AddsInRelease
    <3>2. /\ count' \in Int /\ count' <= count
          /\ Asleep' \subseteq Asleep
          /\ OnTheirWay \subseteq OnTheirWay' /\ OnTheirWay' \subseteq Threads
      BY <2>1 DEF TryAcquire, DecrementIfPositive, IInv, TypeInv, Asleep, OnTheirWay
    <3>3. QED
      BY <3>1, <3>2, NoneLeftBehind DEF PermitsInv
  <2>2. QED
    BY <1>3, <2>1, AcquireKeepsPermitsInv, ReleaseKeepsPermitsInv DEF Call
<1>4. QED
  BY <1>1, <1>2, <1>3 DEF Next

(* No permit is left lying over a sleeping thread, however many permits    *)
(* are released at once and whatever the maximum cuts off: Release calls   *)
(* the arbiter whenever it must, although it looks at the second word      *)
(* after it has changed the first.                                         *)
THEOREM PermitsAreTaken == Spec => []NoPermitStranded
<1>1. PermitsInv => NoPermitStranded
  BY DEF PermitsInv
<1>2. QED
  BY <1>1, IInvCorrect, InitPermitsInv, NextPermitsInv, PTL DEF Spec

=============================================================================

------------------------- MODULE BlockingQueue_proofs ------------------------
(***************************************************************************)
(* Proofs about BlockingQueue for every finite set of threads, every size  *)
(* of the ring buffer, every set of values and every division of labour.   *)
(***************************************************************************)
EXTENDS BlockingQueue, FiniteSetTheorems, SequenceTheorems, TLAPS

(* The ring buffer as data: n items from slot f on, of the buffer b.       *)
Slots == 0 .. Size - 1
Cells == Values \cup {None}
RingOf(b, f, n) == [i \in 1 .. n |-> b[(f + i - 1) % Size]]

(* c is b after a store of e in one slot.                                  *)
Stored(b, c, slot, e) == \A k \in Slots : c[k] = IF k = slot THEN e ELSE b[k]

(* Remainders of what a slot and a distance add up to.                     *)
LEMMA Wrapped ==
  ASSUME NEW f \in Slots, NEW k \in 0 .. Size
  PROVE  /\ (f + k) % Size = IF f + k < Size THEN f + k ELSE f + k - Size
         /\ (f + k) % Size \in Slots
<1> USE SizeIsPositive DEF Slots
<1>1. CASE f + k < Size
  BY <1>1
<1>2. CASE f + k >= Size
  <2>1. f + k = Size + (f + k - Size) /\ f + k - Size \in 0 .. Size - 1
    BY <1>2
  <2>2. (Size + (f + k - Size)) % Size = f + k - Size
    BY <2>1
  <2>3. QED
    BY <1>2, <2>1, <2>2
<1>3. QED
  BY <1>1, <1>2

LEMMA RingIsASeq ==
  ASSUME NEW b \in [Slots -> Cells], NEW f \in Slots, NEW n \in 0 .. Size
  PROVE  /\ RingOf(b, f, n) \in Seq(Cells) /\ Len(RingOf(b, f, n)) = n
         /\ \A i \in 1 .. n : RingOf(b, f, n)[i]
              = b[IF f + (i - 1) < Size THEN f + (i - 1) ELSE f + (i - 1) - Size]
<1>0. n \in Nat
  BY SizeIsPositive
<1>1. ASSUME NEW i \in 1 .. n
      PROVE  /\ (f + i - 1) % Size = IF f + (i - 1) < Size THEN f + (i - 1) ELSE f + (i - 1) - Size
             /\ (f + i - 1) % Size \in Slots
  <2>1. i - 1 \in 0 .. Size /\ f + i - 1 = f + (i - 1)
    BY SizeIsPositive DEF Slots
  <2>2. QED
    BY <2>1, Wrapped
<1>2. RingOf(b, f, n) \in [1 .. n -> Cells]
  BY <1>1 DEF RingOf
<1>3. QED
  BY <1>0, <1>1, <1>2 DEF RingOf

(* To store behind the last item is to append.                             *)
LEMMA RingAppend ==
  ASSUME NEW b \in [Slots -> Cells], NEW c \in [Slots -> Cells], NEW f \in Slots,
         NEW n \in Slots, NEW e \in Cells, Stored(b, c, (f + n) % Size, e)
  PROVE  RingOf(c, f, n + 1) = Append(RingOf(b, f, n), e)
<1> DEFINE slot == IF f + n < Size THEN f + n ELSE f + n - Size
           old  == RingOf(b, f, n)
           new  == RingOf(c, f, n + 1)
<1>1. n \in 0 .. Size /\ n + 1 \in 0 .. Size /\ n \in Nat
  BY SizeIsPositive DEF Slots
<1>2. (f + n) % Size = slot /\ slot \in Slots
  BY <1>1, Wrapped
<1>3. \A k \in Slots : c[k] = IF k = slot THEN e ELSE b[k]
  BY <1>2 DEF Stored
<1>4. /\ old \in Seq(Cells) /\ Len(old) = n
      /\ \A i \in 1 .. n : old[i]
           = b[IF f + (i - 1) < Size THEN f + (i - 1) ELSE f + (i - 1) - Size]
  BY <1>1, RingIsASeq
<1>5. /\ new \in Seq(Cells) /\ Len(new) = n + 1
      /\ \A i \in 1 .. n + 1 : new[i]
           = c[IF f + (i - 1) < Size THEN f + (i - 1) ELSE f + (i - 1) - Size]
  BY <1>1, RingIsASeq
<1>6. ASSUME NEW i \in 1 .. n
      PROVE  new[i] = old[i]
  <2> DEFINE k == IF f + (i - 1) < Size THEN f + (i - 1) ELSE f + (i - 1) - Size
  <2>1. k \in Slots /\ k # slot /\ i \in 1 .. n + 1
    BY <1>1, SizeIsPositive DEF Slots
  <2>2. c[k] = b[k]
    BY <1>3, <2>1
  <2> HIDE DEF new, old
  <2>3. QED
    BY <1>4, <1>5, <2>1, <2>2
<1>7. new[n + 1] = e
  <2>1. n + 1 - 1 = n /\ n + 1 \in 1 .. n + 1
    BY <1>1
  <2>2. c[slot] = e
    <3> HIDE DEF slot
    <3>1. QED
      BY <1>2, <1>3
  <2> HIDE DEF new
  <2>3. QED
    BY <1>5, <2>1, <2>2
<1>8. QED
  <2> HIDE DEF new, old
  <2>1. /\ Append(old, e) \in Seq(Cells) /\ Len(Append(old, e)) = n + 1
        /\ \A i \in 1 .. n : Append(old, e)[i] = old[i]
        /\ Append(old, e)[n + 1] = e
    BY <1>4, AppendProperties
  <2>2. \A i \in 1 .. n + 1 : new[i] = Append(old, e)[i]
    BY <1>1, <1>6, <1>7, <2>1
  <2>3. new = Append(old, e)
    BY <1>5, <2>1, <2>2, SeqEqual
  <2>4. QED
    BY <2>3 DEF new, old

(* To move the front on is to take the first item off.                     *)
LEMMA RingTail ==
  ASSUME NEW b \in [Slots -> Cells], NEW f \in Slots, NEW n \in 1 .. Size
  PROVE  /\ RingOf(b, f, n) # << >>
         /\ Head(RingOf(b, f, n)) = b[f]
         /\ Tail(RingOf(b, f, n)) = RingOf(b, (f + 1) % Size, n - 1)
<1> DEFINE next == IF f + 1 < Size THEN f + 1 ELSE f + 1 - Size
           all  == RingOf(b, f, n)
           rest == RingOf(b, next, n - 1)
<1>1. n \in 0 .. Size /\ n - 1 \in 0 .. Size /\ n \in Nat /\ 1 \in 0 .. Size
  BY SizeIsPositive
<1>2. (f + 1) % Size = next /\ next \in Slots
  BY <1>1, Wrapped
<1>3. /\ all \in Seq(Cells) /\ Len(all) = n
      /\ \A i \in 1 .. n : all[i]
           = b[IF f + (i - 1) < Size THEN f + (i - 1) ELSE f + (i - 1) - Size]
  BY <1>1, RingIsASeq
<1>4. /\ rest \in Seq(Cells) /\ Len(rest) = n - 1
      /\ \A i \in 1 .. n - 1 : rest[i]
           = b[IF next + (i - 1) < Size THEN next + (i - 1) ELSE next + (i - 1) - Size]
  <2> HIDE DEF next
  <2>1. QED
    BY <1>1, <1>2, RingIsASeq
<1>5. all[1] = b[f]
  <2>1. 1 \in 1 .. n /\ f + (1 - 1) = f /\ f < Size
    BY SizeIsPositive DEF Slots
  <2> HIDE DEF all
  <2>2. QED
    BY <1>3, <2>1
<1>6. ASSUME NEW i \in 1 .. n - 1
      PROVE  all[i + 1] = rest[i]
  <2>1. i + 1 \in 1 .. n /\ i + 1 - 1 = i
    BY <1>1
  <2>2. (IF f + i < Size THEN f + i ELSE f + i - Size)
          = IF next + (i - 1) < Size THEN next + (i - 1) ELSE next + (i - 1) - Size
    BY <1>1, SizeIsPositive DEF Slots
  <2> HIDE DEF next, all, rest
  <2>3. QED
    BY <1>3, <1>4, <2>1, <2>2
<1>7. all # << >> /\ Head(all) = b[f] /\ Tail(all) = rest
  <2> HIDE DEF next, all, rest
  <2>1. all # << >> /\ Head(all) = all[1]
    BY <1>1, <1>3
  <2>2. /\ Tail(all) \in Seq(Cells) /\ Len(Tail(all)) = n - 1
        /\ \A i \in 1 .. n - 1 : Tail(all)[i] = all[i + 1]
    BY <1>3, <2>1, HeadTailProperties
  <2>3. Tail(all) = rest
    BY <1>4, <1>6, <2>2, SeqEqual
  <2>4. QED
    BY <1>5, <2>1, <2>3
<1>8. QED
  BY <1>2, <1>7

(* A store in the slot before the first item leaves the items alone, when  *)
(* the ring is not full.                                                   *)
LEMMA RingElsewhere ==
  ASSUME NEW b \in [Slots -> Cells], NEW c \in [Slots -> Cells], NEW f \in Slots,
         NEW n \in Slots, NEW e,
         Stored(b, c, IF f = 0 THEN Size - 1 ELSE f - 1, e)
  PROVE  RingOf(c, f, n) = RingOf(b, f, n)
<1>1. n \in 0 .. Size
  BY SizeIsPositive DEF Slots
<1>2. /\ RingOf(b, f, n) \in Seq(Cells) /\ Len(RingOf(b, f, n)) = n
      /\ \A i \in 1 .. n : RingOf(b, f, n)[i]
           = b[IF f + (i - 1) < Size THEN f + (i - 1) ELSE f + (i - 1) - Size]
  BY <1>1, RingIsASeq
<1>3. /\ RingOf(c, f, n) \in Seq(Cells) /\ Len(RingOf(c, f, n)) = n
      /\ \A i \in 1 .. n : RingOf(c, f, n)[i]
           = c[IF f + (i - 1) < Size THEN f + (i - 1) ELSE f + (i - 1) - Size]
  BY <1>1, RingIsASeq
<1>4. ASSUME NEW i \in 1 .. n
      PROVE  RingOf(c, f, n)[i] = RingOf(b, f, n)[i]
  <2> DEFINE k == IF f + (i - 1) < Size THEN f + (i - 1) ELSE f + (i - 1) - Size
  <2>1. k \in Slots /\ k # IF f = 0 THEN Size - 1 ELSE f - 1
    BY SizeIsPositive DEF Slots
  <2>2. c[k] = b[k]
    BY <2>1 DEF Stored
  <2>3. QED
    BY <1>2, <1>3, <2>2
<1>5. QED
  BY <1>2, <1>3, <1>4, SeqEqual

(* To move the front back and to store there is to put before the first    *)
(* item.                                                                   *)
LEMMA RingPush ==
  ASSUME NEW b \in [Slots -> Cells], NEW c \in [Slots -> Cells], NEW f \in Slots,
         NEW n \in Slots, NEW e \in Cells, Stored(b, c, (f + Size - 1) % Size, e)
  PROVE  /\ (f + Size - 1) % Size \in Slots
         /\ RingOf(c, (f + Size - 1) % Size, n + 1) = <<e>> \o RingOf(b, f, n)
<1> DEFINE g   == (f + Size - 1) % Size
           all == RingOf(c, g, n + 1)
           old == RingOf(b, f, n)
<1>1. g = (IF f = 0 THEN Size - 1 ELSE f - 1) /\ g \in Slots
  <2>1. f + Size - 1 = f + (Size - 1) /\ Size - 1 \in 0 .. Size
    BY SizeIsPositive DEF Slots
  <2>2. (f + (Size - 1)) % Size
          = IF f + (Size - 1) < Size THEN f + (Size - 1) ELSE f + (Size - 1) - Size
    BY <2>1, Wrapped
  <2>3. QED
    BY <2>1, <2>2, SizeIsPositive DEF Slots
<1> HIDE DEF g
<1>2. n + 1 \in 1 .. Size /\ n + 1 \in 0 .. Size /\ n \in Nat /\ n \in 0 .. Size /\ n + 1 - 1 = n
  BY SizeIsPositive DEF Slots
<1>3. (g + 1) % Size = f
  <2>1. 1 \in 0 .. Size
    BY SizeIsPositive
  <2>2. (g + 1) % Size = IF g + 1 < Size THEN g + 1 ELSE g + 1 - Size
    BY <1>1, <2>1, Wrapped
  <2>3. QED
    BY <1>1, <2>2, SizeIsPositive DEF Slots
<1>4. c[g] = e
  BY <1>1 DEF Stored, g
<1>5. all # << >> /\ Head(all) = e /\ Tail(all) = RingOf(c, f, n)
  <2> DEFINE m == n + 1
  <2>1. g \in Slots /\ m \in 1 .. Size /\ m - 1 = n
    BY <1>1, <1>2
  <2> HIDE DEF m, all
  <2>2. /\ RingOf(c, g, m) # << >> /\ Head(RingOf(c, g, m)) = c[g]
        /\ Tail(RingOf(c, g, m)) = RingOf(c, (g + 1) % Size, m - 1)
    BY <2>1, RingTail
  <2>3. all = RingOf(c, g, m)
    BY DEF all, m
  <2>4. QED
    BY <1>3, <1>4, <2>1, <2>2, <2>3
<1>6. RingOf(c, f, n) = old
  <2>1. Stored(b, c, IF f = 0 THEN Size - 1 ELSE f - 1, e)
    BY <1>1 DEF Stored, g
  <2>2. QED
    BY <2>1, RingElsewhere
<1>7. all \in Seq(Cells) /\ Len(all) = n + 1
  <2>1. g \in Slots
    BY <1>1
  <2>2. n + 1 \in 0 .. Size
    BY <1>2
  <2>3. QED
    BY <2>1, <2>2, RingIsASeq
<1>8. old \in Seq(Cells) /\ Len(old) = n
  BY <1>2, RingIsASeq
<1>9. all = <<e>> \o old
  <2> HIDE DEF all, old
  <2>1. <<e>> \in Seq(Cells) /\ Len(<<e>>) = 1 /\ <<e>>[1] = e
    OBVIOUS
  <2>2. /\ <<e>> \o old \in Seq(Cells) /\ Len(<<e>> \o old) = 1 + n
        /\ \A i \in 1 .. 1 + n : (<<e>> \o old)[i] = IF i <= 1 THEN <<e>>[i] ELSE old[i - 1]
    BY <1>8, <2>1, ConcatProperties
  <2>3. all[1] = e /\ \A i \in 1 .. n : all[i + 1] = old[i]
    <3>1. Head(all) = all[1]
      BY <1>2, <1>7
    <3>2. \A i \in 1 .. Len(Tail(all)) : Tail(all)[i] = all[i + 1]
      BY <1>5, <1>7, HeadTailProperties
    <3>3. QED
      BY <1>5, <1>6, <1>8, <3>1, <3>2
  <2>4. ASSUME NEW i \in 1 .. n + 1
        PROVE  all[i] = (<<e>> \o old)[i]
    <3>1. CASE i = 1
      BY <1>2, <2>1, <2>2, <2>3, <3>1
    <3>2. CASE i # 1
      <4>1. i - 1 \in 1 .. n /\ i - 1 + 1 = i /\ i \in 1 .. 1 + n /\ ~(i <= 1)
        BY <1>2, <3>2
      <4>2. QED
        BY <2>2, <2>3, <4>1
    <3>3. QED
      BY <3>1, <3>2
  <2>5. QED
    BY <1>2, <1>7, <2>2, <2>4, SeqEqual
<1>10. QED
  BY <1>1, <1>9 DEF g

(* To overwrite the first item of a full ring and to move the front on is  *)
(* to take it off and to append.                                           *)
LEMMA RingDisplace ==
  ASSUME NEW b \in [Slots -> Cells], NEW c \in [Slots -> Cells], NEW f \in Slots,
         NEW e \in Cells, Stored(b, c, f, e)
  PROVE  /\ (f + Size) % Size = f
         /\ RingOf(c, (f + 1) % Size, Size) = Append(Tail(RingOf(b, f, Size)), e)
<1> DEFINE g == (f + 1) % Size
           n == Size - 1
<1>1. /\ Size \in 0 .. Size /\ Size \in 1 .. Size /\ 1 \in 0 .. Size
      /\ n \in Slots /\ n \in 0 .. Size /\ n + 1 = Size
  BY SizeIsPositive DEF Slots
<1>2. (f + Size) % Size = f
  <2>1. (f + Size) % Size = IF f + Size < Size THEN f + Size ELSE f + Size - Size
    BY <1>1, Wrapped
  <2>2. QED
    BY <2>1, SizeIsPositive DEF Slots
<1>3. g = (IF f + 1 < Size THEN f + 1 ELSE f + 1 - Size) /\ g \in Slots
  BY <1>1, Wrapped
<1>4. Tail(RingOf(b, f, Size)) = RingOf(b, g, n)
  BY <1>1, RingTail
<1>5. (g + n) % Size = f
  <2> HIDE DEF g
  <2>1. (g + n) % Size = IF g + n < Size THEN g + n ELSE g + n - Size
    BY <1>1, <1>3, Wrapped
  <2>2. QED
    BY <1>3, <2>1, SizeIsPositive DEF Slots
<1>6. RingOf(c, g, n + 1) = Append(RingOf(b, g, n), e)
  <2> HIDE DEF g, n
  <2>1. Stored(b, c, (g + n) % Size, e)
    BY <1>5
  <2>2. g \in Slots /\ n \in Slots
    BY <1>1, <1>3
  <2>3. QED
    BY <2>1, <2>2, RingAppend
<1>7. QED
  BY <1>1, <1>2, <1>4, <1>6

-----------------------------------------------------------------------------
(* What is proved about LightSemaphore, for the two semaphores.            *)
EqP ==
  INSTANCE LightSemaphore_proofs WITH
    count <- eqCount, numWaiting <- eqNumWaiting, pc <- eqPc, adding <- eqAdding,
    InitialCount <- 0, MaxCount <- MaxTokens, ReleaseCounts <- {1}

DqP ==
  INSTANCE LightSemaphore_proofs WITH
    count <- dqCount, numWaiting <- dqNumWaiting, pc <- dqPc, adding <- dqAdding,
    InitialCount <- 0, MaxCount <- MaxTokens, ReleaseCounts <- {1}

LEMMA EnqueueSemaphoreAssumptions ==
  /\ EqP!IsFiniteSet(Threads)
  /\ MaxTokens \in Nat \ {0} /\ MaxTokens <= 32767
  /\ 0 \in 0 .. MaxTokens /\ {1} \subseteq Nat \ {0}
  BY ThreadsFinite, TokensSuffice DEF IsFiniteSet, EqP!IsFiniteSet

(* The steps of the semaphore that calls take.                             *)
EnqueueSemaphoreStep(t) ==
  \/ EnqueueSemaphore!Release(t, 1) \/ EnqueueSemaphore!LookForWaiters(t) \/ EnqueueSemaphore!Signal(t)
  \/ EnqueueSemaphore!Acquire(t) \/ EnqueueSemaphore!Announce(t) \/ EnqueueSemaphore!Wait(t) \/ EnqueueSemaphore!Withdraw(t)

LEMMA EnqueueSemaphoreStepIsNext ==
  ASSUME NEW t \in Threads, EnqueueSemaphoreStep(t)
  PROVE  EqP!Next
<1> USE DEF EqP!Goto, EnqueueSemaphore!Goto, EqP!DecrementIfPositive, EnqueueSemaphore!DecrementIfPositive
<1>1. ASSUME EnqueueSemaphore!Acquire(t) \/ EnqueueSemaphore!Announce(t) \/ EnqueueSemaphore!Wait(t) \/ EnqueueSemaphore!Withdraw(t)
      PROVE  EqP!Call(t) \/ EqP!Step(t)
  BY <1>1 DEF EqP!Call, EqP!Step, EnqueueSemaphore!Acquire, EqP!Acquire, EnqueueSemaphore!Announce, EqP!Announce,
     EnqueueSemaphore!Wait, EqP!Wait, EnqueueSemaphore!Withdraw, EqP!Withdraw, EnqueueSemaphore!Sleeps, EqP!Sleeps
<1>2. ASSUME EnqueueSemaphore!Release(t, 1)
      PROVE  EqP!Call(t)
  BY <1>2 DEF EqP!Call, EnqueueSemaphore!Release, EqP!Release, EnqueueSemaphore!LimitedAdd, EqP!LimitedAdd
<1>3. ASSUME EnqueueSemaphore!LookForWaiters(t)
      PROVE  EqP!Step(t)
  BY <1>3 DEF EqP!Step, EnqueueSemaphore!LookForWaiters, EqP!LookForWaiters
<1>4. ASSUME EnqueueSemaphore!Signal(t)
      PROVE  EqP!Step(t)
  <2>1. EnqueueSemaphore!WakeSets(EnqueueSemaphore!Asleep, eqAdding[t]) = EqP!WakeSets(EqP!Asleep, eqAdding[t])
    BY DEF EqP!WakeSets, EnqueueSemaphore!WakeSets, EqP!Asleep, EnqueueSemaphore!Asleep,
       EqP!NumWoken, EnqueueSemaphore!NumWoken, EqP!Cardinality, EnqueueSemaphore!Cardinality
  <2>2. QED
    BY <1>4, <2>1, Zenon DEF EqP!Step, EqP!Signal, EnqueueSemaphore!Signal
<1>5. QED
  BY <1>1, <1>2, <1>3, <1>4 DEF EqP!Next, EnqueueSemaphoreStep

LEMMA DequeueSemaphoreAssumptions ==
  /\ DqP!IsFiniteSet(Threads)
  /\ MaxTokens \in Nat \ {0} /\ MaxTokens <= 32767
  /\ 0 \in 0 .. MaxTokens /\ {1} \subseteq Nat \ {0}
  BY ThreadsFinite, TokensSuffice DEF IsFiniteSet, DqP!IsFiniteSet

(* The steps of the semaphore that calls take.                             *)
DequeueSemaphoreStep(t) ==
  \/ DequeueSemaphore!Release(t, 1) \/ DequeueSemaphore!LookForWaiters(t) \/ DequeueSemaphore!Signal(t)
  \/ DequeueSemaphore!Acquire(t) \/ DequeueSemaphore!Announce(t) \/ DequeueSemaphore!Wait(t) \/ DequeueSemaphore!Withdraw(t)

LEMMA DequeueSemaphoreStepIsNext ==
  ASSUME NEW t \in Threads, DequeueSemaphoreStep(t)
  PROVE  DqP!Next
<1> USE DEF DqP!Goto, DequeueSemaphore!Goto, DqP!DecrementIfPositive, DequeueSemaphore!DecrementIfPositive
<1>1. ASSUME DequeueSemaphore!Acquire(t) \/ DequeueSemaphore!Announce(t) \/ DequeueSemaphore!Wait(t) \/ DequeueSemaphore!Withdraw(t)
      PROVE  DqP!Call(t) \/ DqP!Step(t)
  BY <1>1 DEF DqP!Call, DqP!Step, DequeueSemaphore!Acquire, DqP!Acquire, DequeueSemaphore!Announce, DqP!Announce,
     DequeueSemaphore!Wait, DqP!Wait, DequeueSemaphore!Withdraw, DqP!Withdraw, DequeueSemaphore!Sleeps, DqP!Sleeps
<1>2. ASSUME DequeueSemaphore!Release(t, 1)
      PROVE  DqP!Call(t)
  BY <1>2 DEF DqP!Call, DequeueSemaphore!Release, DqP!Release, DequeueSemaphore!LimitedAdd, DqP!LimitedAdd
<1>3. ASSUME DequeueSemaphore!LookForWaiters(t)
      PROVE  DqP!Step(t)
  BY <1>3 DEF DqP!Step, DequeueSemaphore!LookForWaiters, DqP!LookForWaiters
<1>4. ASSUME DequeueSemaphore!Signal(t)
      PROVE  DqP!Step(t)
  <2>1. DequeueSemaphore!WakeSets(DequeueSemaphore!Asleep, dqAdding[t]) = DqP!WakeSets(DqP!Asleep, dqAdding[t])
    BY DEF DqP!WakeSets, DequeueSemaphore!WakeSets, DqP!Asleep, DequeueSemaphore!Asleep,
       DqP!NumWoken, DequeueSemaphore!NumWoken, DqP!Cardinality, DequeueSemaphore!Cardinality
  <2>2. QED
    BY <1>4, <2>1, Zenon DEF DqP!Step, DqP!Signal, DequeueSemaphore!Signal
<1>5. QED
  BY <1>1, <1>2, <1>3, <1>4 DEF DqP!Next, DequeueSemaphoreStep

-----------------------------------------------------------------------------
(* The inductive invariant.  The ring holds values where it counts them.   *)
RingInv ==
  /\ buffer \in [Slots -> Cells] /\ firstIndex \in Slots /\ usedCount \in 0 .. Size
  /\ Items \in Seq(Values)

CallTypes ==
  /\ op \in [Threads -> Deque!Puts \cup Deque!Gets \cup {None}]
  /\ data \in [Threads -> Cells] /\ out \in [Threads -> Cells]
  /\ pc \in [Threads -> Places]
  /\ holder \in Threads \cup {None}

(* What a call has in hand at each of its places: before it has taken      *)
(* effect, the item to put or no item; after it, the other way round.      *)
InHand(t) ==
  /\ pc[t] = "idle" => op[t] = None /\ data[t] = None /\ out[t] = None
  /\ pc[t] # "idle" => op[t] \in Calls[t]
  /\ pc[t] \in {"try", "wait"} => out[t] = None /\ (op[t] \in Deque!Puts => data[t] \in Values)
  /\ pc[t] \in {"notify", "release", "done"} =>
       /\ op[t] \in Deque!Puts => data[t] = None
       /\ op[t] \in Deque!Gets => out[t] \in Values
  /\ pc[t] = "wait" => op[t] \in Deque!Blocking

(* A thread is in a semaphore only where it waits for it or releases it.   *)
InSemaphore(t) ==
  /\ eqPc[t] # "idle" => \/ pc[t] = "wait" /\ op[t] \in Deque!Gets
                         \/ pc[t] = "release" /\ op[t] \in Deque!Puts
  /\ dqPc[t] # "idle" => \/ pc[t] = "wait" /\ op[t] \in Deque!Puts
                         \/ pc[t] = "release" /\ op[t] \in Deque!Gets

(* The two counts are exact, although no lock protects them.               *)
BlockedGets == {t \in Threads : op[t] \in Deque!Gets \cap Deque!Blocking}
BlockedPuts == {t \in Threads : op[t] \in Deque!Puts \cap Deque!Blocking}

CountsAreExact ==
  /\ waitingEnqueueCount = Cardinality(BlockedGets)
  /\ waitingDequeueCount = Cardinality(BlockedPuts)

CallInv == CallTypes /\ \A t \in Threads : InHand(t) /\ InSemaphore(t)

IInv == EqP!IInv /\ DqP!IInv /\ RingInv /\ CallInv /\ CountsAreExact

-----------------------------------------------------------------------------
(* What the changes of the ring mean for the items.                        *)
LEMMA ItemsLength ==
  ASSUME RingInv
  PROVE  Len(Items) = usedCount
<1>1. Items = RingOf(buffer, firstIndex, usedCount)
  BY DEF Items, RingOf
<1>2. QED
  BY <1>1, RingIsASeq DEF RingInv

LEMMA StoredIsStored ==
  ASSUME RingInv, NEW slot \in Slots, NEW e \in Values, buffer' = [buffer EXCEPT ![slot] = e]
  PROVE  buffer' \in [Slots -> Cells] /\ Stored(buffer, buffer', slot, e) /\ e \in Cells
  BY DEF RingInv, Stored, Cells

LEMMA PutBackItems ==
  ASSUME RingInv, NEW e \in Values, usedCount < Size,
         buffer' = [buffer EXCEPT ![(firstIndex + usedCount) % Size] = e],
         usedCount' = usedCount + 1, firstIndex' = firstIndex
  PROVE  RingInv' /\ Items' = Append(Items, e)
<1>1. usedCount \in Slots /\ usedCount' \in 0 .. Size /\ firstIndex \in Slots
      /\ (firstIndex + usedCount) % Size \in Slots
  BY Wrapped, SizeIsPositive DEF RingInv, Slots
<1>2. /\ buffer' \in [Slots -> Cells] /\ e \in Cells
      /\ Stored(buffer, buffer', (firstIndex + usedCount) % Size, e)
  BY <1>1, StoredIsStored
<1>3. RingOf(buffer', firstIndex, usedCount + 1) = Append(RingOf(buffer, firstIndex, usedCount), e)
  <2>1. buffer \in [Slots -> Cells] /\ firstIndex \in Slots
    BY DEF RingInv
  <2>2. usedCount \in Slots
    BY <1>1
  <2>3. buffer' \in [Slots -> Cells]
    BY <1>2
  <2>4. e \in Cells
    BY <1>2
  <2>5. Stored(buffer, buffer', (firstIndex + usedCount) % Size, e)
    BY <1>2
  <2>6. QED
    BY ONLY <2>1, <2>2, <2>3, <2>4, <2>5, RingAppend
<1>4. Items' = Append(Items, e)
  BY <1>3 DEF Items, RingOf
<1>5. Append(Items, e) \in Seq(Values)
  BY AppendProperties DEF RingInv
<1>6. QED
  BY <1>1, <1>2, <1>4, <1>5 DEF RingInv

LEMMA PutFrontItems ==
  ASSUME RingInv, NEW e \in Values, usedCount < Size,
         firstIndex' = (firstIndex + Size - 1) % Size,
         buffer' = [buffer EXCEPT ![firstIndex'] = e], usedCount' = usedCount + 1
  PROVE  RingInv' /\ Items' = <<e>> \o Items
<1>1. usedCount \in Slots /\ usedCount' \in 0 .. Size /\ firstIndex \in Slots
  BY SizeIsPositive DEF RingInv, Slots
<1>2. firstIndex' \in Slots
  <2>1. Size - 1 \in 0 .. Size /\ firstIndex + Size - 1 = firstIndex + (Size - 1)
    BY <1>1, SizeIsPositive DEF Slots
  <2>2. QED
    BY <1>1, <2>1, Wrapped
<1>3. /\ buffer' \in [Slots -> Cells] /\ e \in Cells
      /\ Stored(buffer, buffer', (firstIndex + Size - 1) % Size, e)
  BY <1>2, StoredIsStored
<1>4. RingOf(buffer', (firstIndex + Size - 1) % Size, usedCount + 1)
        = <<e>> \o RingOf(buffer, firstIndex, usedCount)
  <2>1. buffer \in [Slots -> Cells] /\ firstIndex \in Slots
    BY DEF RingInv
  <2>2. usedCount \in Slots
    BY <1>1
  <2>3. buffer' \in [Slots -> Cells]
    BY <1>3
  <2>4. e \in Cells
    BY <1>3
  <2>5. Stored(buffer, buffer', (firstIndex + Size - 1) % Size, e)
    BY <1>3
  <2>6. QED
    BY ONLY <2>1, <2>2, <2>3, <2>4, <2>5, RingPush
<1>5. Items' = <<e>> \o Items
  BY <1>4 DEF Items, RingOf
<1>6. <<e>> \o Items \in Seq(Values)
  <2>1. <<e>> \in Seq(Values)
    OBVIOUS
  <2>2. QED
    BY <2>1, ConcatProperties DEF RingInv
<1>7. QED
  BY <1>1, <1>2, <1>3, <1>5, <1>6 DEF RingInv

LEMMA FirstItem ==
  ASSUME RingInv, usedCount > 0
  PROVE  Items # << >> /\ Head(Items) = buffer[firstIndex] /\ buffer[firstIndex] \in Values
<1>1. usedCount \in 1 .. Size /\ Items = RingOf(buffer, firstIndex, usedCount)
  BY DEF RingInv, Items, RingOf
<1>2. Items # << >> /\ Head(Items) = buffer[firstIndex]
  BY <1>1, RingTail DEF RingInv
<1>3. Head(Items) \in Values
  BY <1>2, HeadTailProperties DEF RingInv
<1>4. QED
  BY <1>2, <1>3

LEMMA TakeItems ==
  ASSUME RingInv, usedCount > 0, firstIndex' = (firstIndex + 1) % Size,
         usedCount' = usedCount - 1, UNCHANGED buffer
  PROVE  RingInv' /\ Items' = Tail(Items)
<1>1. usedCount \in 1 .. Size /\ Items = RingOf(buffer, firstIndex, usedCount)
  BY DEF RingInv, Items, RingOf
<1>2. Tail(Items) = RingOf(buffer, (firstIndex + 1) % Size, usedCount - 1)
  BY <1>1, RingTail DEF RingInv
<1>3. Items' = Tail(Items)
  BY <1>2 DEF Items, RingOf
<1>4. Tail(Items) \in Seq(Values)
  BY FirstItem, HeadTailProperties DEF RingInv
<1>5. firstIndex' \in Slots /\ usedCount' \in 0 .. Size
  <2>1. 1 \in 0 .. Size /\ usedCount - 1 \in 0 .. Size
    BY <1>1, SizeIsPositive
  <2>2. firstIndex \in Slots
    BY DEF RingInv
  <2>3. (firstIndex + 1) % Size \in Slots
    BY ONLY <2>1, <2>2, Wrapped
  <2>4. QED
    BY <2>1, <2>3
<1>6. QED
  BY <1>3, <1>4, <1>5 DEF RingInv

LEMMA DisplaceItems ==
  ASSUME RingInv, NEW e \in Values, usedCount >= Size,
         buffer' = [buffer EXCEPT ![(firstIndex + usedCount) % Size] = e],
         firstIndex' = (firstIndex + 1) % Size, UNCHANGED usedCount
  PROVE  /\ RingInv' /\ Items' = Append(Tail(Items), e)
         /\ buffer[(firstIndex + usedCount) % Size] = Head(Items)
         /\ Head(Items) \in Values
<1>1. usedCount = Size /\ usedCount > 0 /\ firstIndex \in Slots
      /\ Items = RingOf(buffer, firstIndex, Size)
  BY SizeIsPositive DEF RingInv, Items, RingOf
<1>2. (firstIndex + Size) % Size = firstIndex
  <2>1. Size \in 0 .. Size
    BY SizeIsPositive
  <2>2. (firstIndex + Size) % Size
          = IF firstIndex + Size < Size THEN firstIndex + Size ELSE firstIndex + Size - Size
    BY <1>1, <2>1, Wrapped
  <2>3. QED
    BY <1>1, <2>2, SizeIsPositive DEF Slots
<1>3. /\ buffer' \in [Slots -> Cells] /\ e \in Cells
      /\ Stored(buffer, buffer', firstIndex, e)
  BY <1>1, <1>2, StoredIsStored
<1>4. RingOf(buffer', (firstIndex + 1) % Size, Size) = Append(Tail(RingOf(buffer, firstIndex, Size)), e)
  <2>1. buffer \in [Slots -> Cells]
    BY DEF RingInv
  <2>2. firstIndex \in Slots
    BY <1>1
  <2>3. buffer' \in [Slots -> Cells]
    BY <1>3
  <2>4. e \in Cells
    BY <1>3
  <2>5. Stored(buffer, buffer', firstIndex, e)
    BY <1>3
  <2>6. QED
    BY ONLY <2>1, <2>2, <2>3, <2>4, <2>5, RingDisplace
<1>5. Items' = Append(Tail(Items), e)
  BY <1>1, <1>4 DEF Items, RingOf
<1>6. Append(Tail(Items), e) \in Seq(Values)
  <2>1. Tail(Items) \in Seq(Values)
    BY <1>1, FirstItem, HeadTailProperties DEF RingInv
  <2>2. QED
    BY <2>1, AppendProperties
<1>7. firstIndex' \in Slots
  <2>1. 1 \in 0 .. Size
    BY SizeIsPositive
  <2>2. QED
    BY <1>1, <2>1, Wrapped
<1>8. QED
  BY <1>1, <1>2, <1>3, <1>5, <1>6, <1>7, FirstItem DEF RingInv

-----------------------------------------------------------------------------
(* What a step of a semaphore leaves as it was.                            *)
LEMMA EnqueueSemaphoreEffect ==
  ASSUME EqP!IInv, NEW t \in Threads, EnqueueSemaphoreStep(t)
  PROVE  EqP!IInv' /\ \A u \in Threads \ {t} : eqPc'[u] = "idle" <=> eqPc[u] = "idle"
<1>1. EqP!IInv'
  BY EnqueueSemaphoreStepIsNext, EnqueueSemaphoreAssumptions, EqP!NextIInv
<1>2. eqPc \in [Threads -> EqP!Places]
  BY DEF EqP!IInv, EqP!TypeInv
<1>3. CASE EnqueueSemaphore!Signal(t)
  <2>1. PICK woken \in EnqueueSemaphore!WakeSets(EnqueueSemaphore!Asleep, eqAdding[t]) :
          eqPc' = [u \in Threads |-> IF u \in woken THEN "withdraw"
                                     ELSE IF u = t THEN "idle" ELSE eqPc[u]]
    BY <1>3 DEF EnqueueSemaphore!Signal
  <2>2. \A u \in woken : u \in Threads /\ eqPc[u] = "asleep"
    BY DEF EnqueueSemaphore!WakeSets, EnqueueSemaphore!Asleep
  <2>3. \A u \in Threads \ {t} : eqPc'[u] = "idle" <=> eqPc[u] = "idle"
    BY <2>1, <2>2
  <2>4. QED
    BY <1>1, <2>3
<1>4. CASE ~EnqueueSemaphore!Signal(t)
  <2>1. \A u \in Threads \ {t} : eqPc'[u] = eqPc[u]
    BY <1>2, <1>4 DEF EnqueueSemaphoreStep, EnqueueSemaphore!Goto, EnqueueSemaphore!Release,
       EnqueueSemaphore!LookForWaiters, EnqueueSemaphore!Acquire, EnqueueSemaphore!Announce,
       EnqueueSemaphore!Wait, EnqueueSemaphore!Withdraw
  <2>2. QED
    BY <1>1, <2>1
<1>5. QED
  BY <1>3, <1>4

LEMMA EnqueueSemaphoreStutter ==
  ASSUME EqP!IInv, UNCHANGED eqVars
  PROVE  EqP!IInv'
  BY EnqueueSemaphoreAssumptions, EqP!NextIInv DEF EqP!vars, eqVars

LEMMA DequeueSemaphoreEffect ==
  ASSUME DqP!IInv, NEW t \in Threads, DequeueSemaphoreStep(t)
  PROVE  DqP!IInv' /\ \A u \in Threads \ {t} : dqPc'[u] = "idle" <=> dqPc[u] = "idle"
<1>1. DqP!IInv'
  BY DequeueSemaphoreStepIsNext, DequeueSemaphoreAssumptions, DqP!NextIInv
<1>2. dqPc \in [Threads -> DqP!Places]
  BY DEF DqP!IInv, DqP!TypeInv
<1>3. CASE DequeueSemaphore!Signal(t)
  <2>1. PICK woken \in DequeueSemaphore!WakeSets(DequeueSemaphore!Asleep, dqAdding[t]) :
          dqPc' = [u \in Threads |-> IF u \in woken THEN "withdraw"
                                     ELSE IF u = t THEN "idle" ELSE dqPc[u]]
    BY <1>3 DEF DequeueSemaphore!Signal
  <2>2. \A u \in woken : u \in Threads /\ dqPc[u] = "asleep"
    BY DEF DequeueSemaphore!WakeSets, DequeueSemaphore!Asleep
  <2>3. \A u \in Threads \ {t} : dqPc'[u] = "idle" <=> dqPc[u] = "idle"
    BY <2>1, <2>2
  <2>4. QED
    BY <1>1, <2>3
<1>4. CASE ~DequeueSemaphore!Signal(t)
  <2>1. \A u \in Threads \ {t} : dqPc'[u] = dqPc[u]
    BY <1>2, <1>4 DEF DequeueSemaphoreStep, DequeueSemaphore!Goto, DequeueSemaphore!Release,
       DequeueSemaphore!LookForWaiters, DequeueSemaphore!Acquire, DequeueSemaphore!Announce,
       DequeueSemaphore!Wait, DequeueSemaphore!Withdraw
  <2>2. QED
    BY <1>1, <2>1
<1>5. QED
  BY <1>3, <1>4

LEMMA DequeueSemaphoreStutter ==
  ASSUME DqP!IInv, UNCHANGED dqVars
  PROVE  DqP!IInv'
  BY DequeueSemaphoreAssumptions, DqP!NextIInv DEF DqP!vars, dqVars

-----------------------------------------------------------------------------
(* A step of one thread leaves the calls of the others alone.              *)
OthersKeepTheirs(t) ==
  \A u \in Threads \ {t} :
    /\ op'[u] = op[u] /\ data'[u] = data[u] /\ out'[u] = out[u] /\ pc'[u] = pc[u]
    /\ eqPc'[u] = "idle" <=> eqPc[u] = "idle"
    /\ dqPc'[u] = "idle" <=> dqPc[u] = "idle"

LEMMA CallStep ==
  ASSUME CallInv, NEW t \in Threads, CallTypes', InHand(t)', InSemaphore(t)',
         OthersKeepTheirs(t)
  PROVE  CallInv'
<1>1. ASSUME NEW u \in Threads \ {t}
      PROVE  InHand(u)' /\ InSemaphore(u)'
  <2>1. InHand(u) /\ InSemaphore(u)
    BY DEF CallInv
  <2>2. /\ op'[u] = op[u] /\ data'[u] = data[u] /\ out'[u] = out[u] /\ pc'[u] = pc[u]
        /\ eqPc'[u] = "idle" <=> eqPc[u] = "idle"
        /\ dqPc'[u] = "idle" <=> dqPc[u] = "idle"
    BY DEF OthersKeepTheirs
  <2>3. InHand(u)'
    BY <2>1, <2>2 DEF InHand
  <2>4. InSemaphore(u)'
    BY <2>1, <2>2 DEF InSemaphore
  <2>5. QED
    BY <2>3, <2>4
<1>2. QED
  BY <1>1 DEF CallInv

(* The kinds of calls.                                                     *)
LEMMA Kinds ==
  /\ Deque!Puts \cap Deque!Gets = {} /\ None \notin Deque!Puts \cup Deque!Gets
  /\ None \notin Values /\ None \notin Threads
  /\ Deque!Blocking \subseteq Deque!Puts \cup Deque!Gets
  /\ \A t \in Threads : Calls[t] \subseteq Deque!Puts \cup Deque!Gets
<1>1. /\ Deque!Puts \cap Deque!Gets = {}
      /\ Deque!Blocking \subseteq Deque!Puts \cup Deque!Gets
  BY DEF Deque!Puts, Deque!Gets, Deque!PutBack, Deque!PutFront, Deque!Take, Deque!Front,
     Deque!Blocking
<1>2. QED
  BY <1>1, NoneIsNothing, CallsAreOps

LEMMA CountsStutter ==
  ASSUME CountsAreExact, UNCHANGED waitCounts,
         \A u \in Threads : op'[u] \in Deque!Blocking \/ op[u] \in Deque!Blocking => op'[u] = op[u]
  PROVE  CountsAreExact'
<1>1. BlockedGets' = BlockedGets /\ BlockedPuts' = BlockedPuts
  BY DEF BlockedGets, BlockedPuts
<1>2. QED
  BY <1>1 DEF CountsAreExact, waitCounts

(* One more caller, or one fewer, in a set of callers.                     *)
LEMMA OneMore ==
  ASSUME NEW S \in SUBSET Threads, NEW T \in SUBSET Threads, NEW t \in Threads,
         t \notin S, T = S \cup {t}
  PROVE  Cardinality(T) = Cardinality(S) + 1 /\ Cardinality(S) = Cardinality(T) - 1
         /\ Cardinality(S) \in Nat
<1>1. IsFiniteSet(S)
  BY ThreadsFinite, FS_Subset
<1>2. Cardinality(S) \in Nat
  BY <1>1, FS_CardinalityType
<1>3. Cardinality(T) = Cardinality(S) + 1
  BY <1>1, FS_AddElement
<1>4. QED
  BY <1>2, <1>3

LEMMA RingStutter ==
  ASSUME RingInv, UNCHANGED ring
  PROVE  RingInv' /\ Items' = Items
  BY DEF RingInv, ring, Items

-----------------------------------------------------------------------------
(* The actions, one lemma each, and first what several of them do.         *)
LEMMA BeginPutKeepsIInv ==
  ASSUME IInv, NEW t \in Threads, BeginPut(t)
  PROVE  IInv'
<1>1. PICK o \in Calls[t] \cap Deque!Puts, v \in Values :
        /\ op' = [op EXCEPT ![t] = o] /\ data' = [data EXCEPT ![t] = v]
        /\ waitingDequeueCount' = waitingDequeueCount + (IF o \in Deque!Blocking THEN 1 ELSE 0)
  BY DEF BeginPut
<1>2. /\ pc[t] = "idle" /\ pc' = [pc EXCEPT ![t] = "try"]
      /\ UNCHANGED <<ring, holder, waitingEnqueueCount, eqVars, dqVars, out>>
  BY DEF BeginPut, Goto
<1>3. CallTypes /\ InHand(t) /\ InSemaphore(t)
  BY DEF IInv, CallInv
<1>4. /\ o \in Deque!Puts /\ o \notin Deque!Gets /\ op[t] = None /\ out[t] = None
      /\ None \notin Deque!Puts \cup Deque!Gets
  BY <1>1, <1>2, <1>3, Kinds DEF InHand
<1>5. EqP!IInv' /\ DqP!IInv' /\ RingInv'
  BY <1>2, EnqueueSemaphoreStutter, DequeueSemaphoreStutter, RingStutter DEF IInv
<1>6. CallTypes' /\ op'[t] = o /\ data'[t] = v /\ out'[t] = None /\ pc'[t] = "try"
  BY <1>1, <1>2, <1>3, <1>4 DEF CallTypes, Cells, Places
<1>7. InHand(t)'
  BY <1>1, <1>4, <1>6 DEF InHand
<1>8. InSemaphore(t)'
  BY <1>2, <1>3, <1>4, <1>6 DEF InSemaphore, eqVars, dqVars
<1>9. OthersKeepTheirs(t)
  BY <1>1, <1>2, <1>3 DEF OthersKeepTheirs, CallTypes, eqVars, dqVars
<1>10. CallInv'
  BY <1>6, <1>7, <1>8, <1>9, CallStep DEF IInv, CallInv
<1>11. CountsAreExact'
  <2>1. BlockedGets' = BlockedGets
    BY <1>4, <1>6, <1>9 DEF BlockedGets, OthersKeepTheirs
  <2>2. CASE o \in Deque!Blocking
    <3>1. t \notin BlockedPuts /\ BlockedPuts' = BlockedPuts \cup {t}
      BY <1>4, <1>6, <1>9, <2>2 DEF BlockedPuts, OthersKeepTheirs
    <3>2. BlockedPuts \in SUBSET Threads /\ BlockedPuts' \in SUBSET Threads
      BY DEF BlockedPuts
    <3>3. Cardinality(BlockedPuts') = Cardinality(BlockedPuts) + 1
      BY <3>1, <3>2, OneMore
    <3>4. QED
      BY <1>1, <1>2, <2>1, <2>2, <3>3 DEF IInv, CountsAreExact
  <2>3. CASE o \notin Deque!Blocking
    <3>1. BlockedPuts' = BlockedPuts
      BY <1>4, <1>6, <1>9, <2>3 DEF BlockedPuts, OthersKeepTheirs
    <3>2. Cardinality(BlockedPuts) \in Nat
      BY ThreadsFinite, FS_Subset, FS_CardinalityType DEF BlockedPuts
    <3>3. QED
      BY <1>1, <1>2, <2>1, <2>3, <3>1, <3>2 DEF IInv, CountsAreExact
  <2>4. QED
    BY <2>2, <2>3
<1>12. QED
  BY <1>5, <1>10, <1>11 DEF IInv

LEMMA BeginGetKeepsIInv ==
  ASSUME IInv, NEW t \in Threads, BeginGet(t)
  PROVE  IInv'
<1>1. PICK o \in Calls[t] \cap Deque!Gets :
        /\ op' = [op EXCEPT ![t] = o]
        /\ waitingEnqueueCount' = waitingEnqueueCount + (IF o \in Deque!Blocking THEN 1 ELSE 0)
  BY DEF BeginGet
<1>2. /\ pc[t] = "idle" /\ pc' = [pc EXCEPT ![t] = "try"]
      /\ UNCHANGED <<ring, holder, waitingDequeueCount, eqVars, dqVars, data, out>>
  BY DEF BeginGet, Goto
<1>3. CallTypes /\ InHand(t) /\ InSemaphore(t)
  BY DEF IInv, CallInv
<1>4. /\ o \in Deque!Gets /\ o \notin Deque!Puts /\ op[t] = None /\ out[t] = None
      /\ None \notin Deque!Puts \cup Deque!Gets
  BY <1>1, <1>2, <1>3, Kinds DEF InHand
<1>5. EqP!IInv' /\ DqP!IInv' /\ RingInv'
  BY <1>2, EnqueueSemaphoreStutter, DequeueSemaphoreStutter, RingStutter DEF IInv
<1>6. CallTypes' /\ op'[t] = o /\ out'[t] = None /\ pc'[t] = "try"
  BY <1>1, <1>2, <1>3, <1>4 DEF CallTypes, Cells, Places
<1>7. InHand(t)'
  BY <1>1, <1>4, <1>6 DEF InHand
<1>8. InSemaphore(t)'
  BY <1>2, <1>3, <1>4, <1>6 DEF InSemaphore, eqVars, dqVars
<1>9. OthersKeepTheirs(t)
  BY <1>1, <1>2, <1>3 DEF OthersKeepTheirs, CallTypes, eqVars, dqVars
<1>10. CallInv'
  BY <1>6, <1>7, <1>8, <1>9, CallStep DEF IInv, CallInv
<1>11. CountsAreExact'
  <2>1. BlockedPuts' = BlockedPuts
    BY <1>4, <1>6, <1>9 DEF BlockedPuts, OthersKeepTheirs
  <2>2. CASE o \in Deque!Blocking
    <3>1. t \notin BlockedGets /\ BlockedGets' = BlockedGets \cup {t}
      BY <1>4, <1>6, <1>9, <2>2 DEF BlockedGets, OthersKeepTheirs
    <3>2. BlockedGets \in SUBSET Threads /\ BlockedGets' \in SUBSET Threads
      BY DEF BlockedGets
    <3>3. Cardinality(BlockedGets') = Cardinality(BlockedGets) + 1
      BY <3>1, <3>2, OneMore
    <3>4. QED
      BY <1>1, <1>2, <2>1, <2>2, <3>3 DEF IInv, CountsAreExact
  <2>3. CASE o \notin Deque!Blocking
    <3>1. BlockedGets' = BlockedGets
      BY <1>4, <1>6, <1>9, <2>3 DEF BlockedGets, OthersKeepTheirs
    <3>2. Cardinality(BlockedGets) \in Nat
      BY ThreadsFinite, FS_Subset, FS_CardinalityType DEF BlockedGets
    <3>3. QED
      BY <1>1, <1>2, <2>1, <2>3, <3>1, <3>2 DEF IInv, CountsAreExact
  <2>4. QED
    BY <2>2, <2>3
<1>12. QED
  BY <1>5, <1>10, <1>11 DEF IInv

(* A refused try.                                                          *)
LEMMA RefusedKeepsIInv ==
  ASSUME IInv, NEW t \in Threads, pc[t] = "try", Refused(t),
         UNCHANGED <<waitCounts, eqVars, dqVars>>
  PROVE  IInv'
<1>1. CallTypes /\ InHand(t) /\ InSemaphore(t)
  BY DEF IInv, CallInv
<1>2. EqP!IInv' /\ DqP!IInv' /\ RingInv'
  BY EnqueueSemaphoreStutter, DequeueSemaphoreStutter, RingStutter DEF IInv, Refused
<1>3. UNCHANGED holder
  BY DEF Refused
<1>4. op[t] \in Calls[t]
  BY <1>1 DEF InHand
<1>5. CASE op[t] \in Deque!Blocking /\ pc' = [pc EXCEPT ![t] = "wait"] /\ UNCHANGED call
  <2>1. CallTypes' /\ pc'[t] = "wait"
    BY <1>1, <1>3, <1>5 DEF CallTypes, Places, call
  <2>2. InHand(t)'
    BY <1>1, <1>5, <2>1 DEF InHand, call
  <2>3. InSemaphore(t)'
    BY <1>1, <1>5, <2>1 DEF InSemaphore, eqVars, dqVars
  <2>4. OthersKeepTheirs(t)
    BY <1>1, <1>5 DEF OthersKeepTheirs, CallTypes, call, eqVars, dqVars
  <2>5. CallInv'
    BY <2>1, <2>2, <2>3, <2>4, CallStep DEF IInv, CallInv
  <2>6. CountsAreExact'
    BY <1>5, CountsStutter DEF IInv, call
  <2>7. QED
    BY <1>2, <2>5, <2>6 DEF IInv
<1>6. CASE op[t] \notin Deque!Blocking /\ pc' = [pc EXCEPT ![t] = "idle"] /\ Finished(t)
  <2>1. CallTypes' /\ op'[t] = None /\ data'[t] = None /\ out'[t] = None /\ pc'[t] = "idle"
    BY <1>1, <1>3, <1>6 DEF CallTypes, Cells, Places, Finished
  <2>2. InHand(t)'
    BY <2>1 DEF InHand
  <2>3. InSemaphore(t)'
    BY <1>1, <2>1 DEF InSemaphore, eqVars, dqVars
  <2>4. OthersKeepTheirs(t)
    BY <1>1, <1>6 DEF OthersKeepTheirs, CallTypes, Finished, eqVars, dqVars
  <2>5. CallInv'
    BY <2>1, <2>2, <2>3, <2>4, CallStep DEF IInv, CallInv
  <2>6. CountsAreExact'
    <3>1. None \notin Deque!Blocking
      BY Kinds
    <3>2. \A u \in Threads : op'[u] \in Deque!Blocking \/ op[u] \in Deque!Blocking => op'[u] = op[u]
      BY <1>6, <2>1, <2>4, <3>1 DEF OthersKeepTheirs
    <3>3. QED
      BY <3>2, CountsStutter DEF IInv
  <2>7. QED
    BY <1>2, <2>5, <2>6 DEF IInv
<1>7. QED
  BY <1>5, <1>6 DEF Refused, Goto

(* A put that has taken effect.                                            *)
LEMMA StoredKeepsIInv ==
  ASSUME IInv, NEW t \in Threads, pc[t] = "try", op[t] \in Deque!Puts,
         RingInv', data' = [data EXCEPT ![t] = None], holder' = t, Goto(t, "notify"), UNCHANGED op,
         out' \in [Threads -> Cells], \A u \in Threads \ {t} : out'[u] = out[u],
         UNCHANGED <<waitCounts, eqVars, dqVars>>
  PROVE  IInv'
<1>1. CallTypes /\ InHand(t) /\ InSemaphore(t)
  BY DEF IInv, CallInv
<1>2. EqP!IInv' /\ DqP!IInv'
  BY EnqueueSemaphoreStutter, DequeueSemaphoreStutter DEF IInv
<1>3. CallTypes' /\ op'[t] = op[t] /\ data'[t] = None /\ pc'[t] = "notify"
  BY <1>1 DEF CallTypes, Cells, Places, Goto
<1>4. InHand(t)'
  BY <1>1, <1>3, Kinds DEF InHand
<1>5. InSemaphore(t)'
  BY <1>1, <1>3 DEF InSemaphore, eqVars, dqVars
<1>6. OthersKeepTheirs(t)
  BY <1>1 DEF OthersKeepTheirs, CallTypes, Goto, eqVars, dqVars
<1>7. CallInv'
  BY <1>3, <1>4, <1>5, <1>6, CallStep DEF IInv, CallInv
<1>8. CountsAreExact'
  BY CountsStutter DEF IInv
<1>9. QED
  BY <1>2, <1>7, <1>8 DEF IInv

(* A get that has taken effect.                                            *)
LEMMA GotKeepsIInv ==
  ASSUME IInv, NEW t \in Threads, pc[t] = "try", op[t] \in Deque!Gets,
         RingInv', NEW v \in Values, out' = [out EXCEPT ![t] = v],
         holder' \in Threads \cup {None}, NEW place \in {"notify", "done"}, Goto(t, place),
         UNCHANGED <<op, data, waitCounts, eqVars, dqVars>>
  PROVE  IInv'
<1>1. CallTypes /\ InHand(t) /\ InSemaphore(t)
  BY DEF IInv, CallInv
<1>2. EqP!IInv' /\ DqP!IInv'
  BY EnqueueSemaphoreStutter, DequeueSemaphoreStutter DEF IInv
<1>3. CallTypes' /\ op'[t] = op[t] /\ out'[t] = v /\ pc'[t] = place
  BY <1>1 DEF CallTypes, Cells, Places, Goto
<1>4. InHand(t)'
  BY <1>1, <1>3, Kinds DEF InHand
<1>5. InSemaphore(t)'
  BY <1>1, <1>3 DEF InSemaphore, eqVars, dqVars
<1>6. OthersKeepTheirs(t)
  BY <1>1 DEF OthersKeepTheirs, CallTypes, Goto, eqVars, dqVars
<1>7. CallInv'
  BY <1>3, <1>4, <1>5, <1>6, CallStep DEF IInv, CallInv
<1>8. CountsAreExact'
  BY CountsStutter DEF IInv
<1>9. QED
  BY <1>2, <1>7, <1>8 DEF IInv

-----------------------------------------------------------------------------
(* Each action keeps the invariant and is, for the deque the ring stands   *)
(* for, one of its steps or none.                                          *)
DequeStep == Deque!Next \/ UNCHANGED Deque!vars

(* A try is refused only by a full or an empty queue.                      *)
LEMMA RefusedIsRefusal ==
  ASSUME IInv, NEW t \in Threads, pc[t] = "try", op[t] # "ForceEnqueue", Refused(t),
         op[t] \in Deque!Puts => Size <= usedCount, op[t] \in Deque!Gets => 0 >= usedCount
  PROVE  DequeStep
<1>1. CallTypes /\ InHand(t) /\ RingInv
  BY DEF IInv, CallInv
<1>2. Items' = Items /\ Len(Items) = usedCount /\ Items \in Seq(Values)
  BY <1>1, RingStutter, ItemsLength DEF Refused, RingInv
<1>3. CASE UNCHANGED call
  BY <1>2, <1>3 DEF DequeStep, Deque!vars, call
<1>4. CASE op[t] \notin Deque!Blocking /\ Finished(t)
  <2>1. op[t] \in Deque!Puts \cup Deque!Gets
    BY <1>1, Kinds DEF InHand
  <2>2. op[t] \in Deque!MayRefuse
    BY <1>4, <2>1 DEF Deque!Puts, Deque!Gets, Deque!PutBack, Deque!PutFront, Deque!Take,
       Deque!Front, Deque!Blocking, Deque!MayRefuse
  <2>3. ASSUME op[t] \in Deque!Puts
        PROVE  data[t] # None /\ Len(Items) = Size
    BY <1>1, <1>2, <2>3, Kinds, SizeIsPositive DEF InHand, RingInv
  <2>4. ASSUME op[t] \in Deque!Gets
        PROVE  out[t] = None /\ Items = << >>
    <3>1. usedCount = 0
      BY <1>1, <2>4, SizeIsPositive DEF RingInv
    <3>2. QED
      BY <1>1, <1>2, <3>1 DEF InHand
  <2>5. Deque!Refuse(t)
    BY <1>2, <1>4, <2>1, <2>2, <2>3, <2>4 DEF Deque!Refuse, Deque!Finish, Finished
  <2>6. QED
    BY <2>5 DEF DequeStep, Deque!Next
<1>5. QED
  BY <1>3, <1>4 DEF Refused

LEMMA TryEnqueueStep ==
  ASSUME IInv, NEW t \in Threads, TryEnqueue(t)
  PROVE  IInv' /\ DequeStep
<1>1. /\ pc[t] = "try" /\ op[t] \in Deque!PutBack /\ op[t] \in Deque!Puts
      /\ op[t] # "ForceEnqueue" /\ UNCHANGED <<waitCounts, eqVars, dqVars>>
  BY DEF TryEnqueue, Deque!Puts, Deque!PutBack
<1>2. CallTypes /\ InHand(t) /\ RingInv
  BY DEF IInv, CallInv
<1>3. CASE Size <= usedCount /\ Refused(t)
  <2>1. op[t] \notin Deque!Gets
    BY <1>1, Kinds
  <2>2. QED
    BY <1>1, <1>3, <2>1, RefusedKeepsIInv, RefusedIsRefusal
<1>4. CASE /\ Size > usedCount /\ Store(t, (firstIndex + usedCount) % Size)
           /\ usedCount' = usedCount + 1 /\ UNCHANGED <<firstIndex, out>>
  <2>1. data[t] \in Values /\ data[t] # None
    BY <1>1, <1>2, Kinds DEF InHand
  <2>2. usedCount < Size
    BY <1>2, <1>4, SizeIsPositive DEF RingInv
  <2>3. buffer' = [buffer EXCEPT ![(firstIndex + usedCount) % Size] = data[t]]
    BY <1>4 DEF Store
  <2>4. RingInv' /\ Items' = Append(Items, data[t])
    BY <1>2, <1>4, <2>1, <2>2, <2>3, PutBackItems
  <2>5. Len(Items) < Size
    BY <1>2, <2>2, ItemsLength
  <2>6. Deque!Put(t)
    BY <1>1, <1>4, <2>1, <2>4, <2>5 DEF Deque!Put, Store
  <2>7. out' \in [Threads -> Cells]
    BY <1>2, <1>4 DEF CallTypes
  <2>8. IInv'
    BY <1>1, <1>4, <2>4, <2>7, StoredKeepsIInv DEF Store
  <2>9. QED
    BY <2>6, <2>8 DEF DequeStep, Deque!Next
<1>5. QED
  BY <1>3, <1>4 DEF TryEnqueue

LEMMA TryJamStep ==
  ASSUME IInv, NEW t \in Threads, TryJam(t)
  PROVE  IInv' /\ DequeStep
<1>1. /\ pc[t] = "try" /\ op[t] \notin Deque!PutBack /\ op[t] \in Deque!Puts
      /\ op[t] # "ForceEnqueue" /\ UNCHANGED <<waitCounts, eqVars, dqVars>>
  BY DEF TryJam, Deque!Puts, Deque!PutBack, Deque!PutFront
<1>2. CallTypes /\ InHand(t) /\ RingInv
  BY DEF IInv, CallInv
<1>3. CASE Size <= usedCount /\ Refused(t)
  <2>1. op[t] \notin Deque!Gets
    BY <1>1, Kinds
  <2>2. QED
    BY <1>1, <1>3, <2>1, RefusedKeepsIInv, RefusedIsRefusal
<1>4. CASE /\ Size > usedCount /\ firstIndex' = (firstIndex + Size - 1) % Size
           /\ Store(t, firstIndex') /\ usedCount' = usedCount + 1 /\ UNCHANGED out
  <2>1. data[t] \in Values /\ data[t] # None
    BY <1>1, <1>2, Kinds DEF InHand
  <2>2. usedCount < Size
    BY <1>2, <1>4, SizeIsPositive DEF RingInv
  <2>3. buffer' = [buffer EXCEPT ![firstIndex'] = data[t]]
    BY <1>4 DEF Store
  <2>4. RingInv' /\ Items' = <<data[t]>> \o Items
    BY <1>2, <1>4, <2>1, <2>2, <2>3, PutFrontItems
  <2>5. Len(Items) < Size
    BY <1>2, <2>2, ItemsLength
  <2>6. Deque!Put(t)
    BY <1>1, <1>4, <2>1, <2>4, <2>5 DEF Deque!Put, Store
  <2>7. out' \in [Threads -> Cells]
    BY <1>2, <1>4 DEF CallTypes
  <2>8. IInv'
    BY <1>1, <1>4, <2>4, <2>7, StoredKeepsIInv DEF Store
  <2>9. QED
    BY <2>6, <2>8 DEF DequeStep, Deque!Next
<1>5. QED
  BY <1>3, <1>4 DEF TryJam

LEMMA ForceEnqueueStep ==
  ASSUME IInv, NEW t \in Threads, ForceEnqueue(t)
  PROVE  IInv' /\ DequeStep
<1>1. /\ pc[t] = "try" /\ op[t] \in Deque!PutBack /\ op[t] \in Deque!Puts
      /\ op[t] = "ForceEnqueue" /\ UNCHANGED <<waitCounts, eqVars, dqVars>>
  BY DEF ForceEnqueue, Deque!Puts, Deque!PutBack
<1>2. CallTypes /\ InHand(t) /\ RingInv
  BY DEF IInv, CallInv
<1>3. data[t] \in Values /\ data[t] # None
  BY <1>1, <1>2, Kinds DEF InHand
<1>4. /\ buffer' = [buffer EXCEPT ![(firstIndex + usedCount) % Size] = data[t]]
      /\ data' = [data EXCEPT ![t] = None] /\ holder' = t /\ Goto(t, "notify") /\ UNCHANGED op
  BY DEF ForceEnqueue, Store
<1>5. CASE Size > usedCount /\ usedCount' = usedCount + 1 /\ UNCHANGED <<firstIndex, out>>
  <2>1. usedCount < Size
    BY <1>2, <1>5, SizeIsPositive DEF RingInv
  <2>2. RingInv' /\ Items' = Append(Items, data[t])
    BY <1>2, <1>3, <1>4, <1>5, <2>1, PutBackItems
  <2>3. Len(Items) < Size
    BY <1>2, <2>1, ItemsLength
  <2>4. Deque!Put(t)
    BY <1>1, <1>3, <1>4, <1>5, <2>2, <2>3 DEF Deque!Put
  <2>5. out' \in [Threads -> Cells]
    BY <1>2, <1>5 DEF CallTypes
  <2>6. IInv'
    BY <1>1, <1>4, <1>5, <2>2, <2>5, StoredKeepsIInv
  <2>7. QED
    BY <2>4, <2>6 DEF DequeStep, Deque!Next
<1>6. CASE /\ Size <= usedCount
           /\ out' = [out EXCEPT ![t] = buffer[(firstIndex + usedCount) % Size]]
           /\ firstIndex' = (firstIndex + 1) % Size /\ UNCHANGED usedCount
  <2>1. usedCount >= Size /\ usedCount = Size
    BY <1>2, <1>6, SizeIsPositive DEF RingInv
  <2>2. /\ RingInv' /\ Items' = Append(Tail(Items), data[t])
        /\ buffer[(firstIndex + usedCount) % Size] = Head(Items) /\ Head(Items) \in Values
    BY <1>2, <1>3, <1>4, <1>6, <2>1, DisplaceItems
  <2>3. Len(Items) = Size
    BY <1>2, <2>1, ItemsLength
  <2>4. out' = [out EXCEPT ![t] = Head(Items)]
    BY <1>6, <2>2
  <2>5. Deque!Displace(t)
    BY <1>1, <1>3, <1>4, <2>2, <2>3, <2>4 DEF Deque!Displace
  <2>6. out' \in [Threads -> Cells] /\ \A u \in Threads \ {t} : out'[u] = out[u]
    BY <1>2, <2>2, <2>4 DEF CallTypes, Cells
  <2>7. IInv'
    BY <1>1, <1>4, <2>2, <2>6, StoredKeepsIInv
  <2>8. QED
    BY <2>5, <2>7 DEF DequeStep, Deque!Next
<1>7. QED
  BY <1>5, <1>6 DEF ForceEnqueue

LEMMA TryDequeueStep ==
  ASSUME IInv, NEW t \in Threads, TryDequeue(t)
  PROVE  IInv' /\ DequeStep
<1>1. /\ pc[t] = "try" /\ op[t] \in Deque!Take /\ op[t] \in Deque!Gets
      /\ op[t] # "ForceEnqueue" /\ UNCHANGED <<waitCounts, eqVars, dqVars>>
  BY DEF TryDequeue, Deque!Gets, Deque!Take
<1>2. CallTypes /\ InHand(t) /\ RingInv
  BY DEF IInv, CallInv
<1>3. CASE 0 >= usedCount /\ Refused(t)
  <2>1. op[t] \notin Deque!Puts
    BY <1>1, Kinds
  <2>2. QED
    BY <1>1, <1>3, <2>1, RefusedKeepsIInv, RefusedIsRefusal
<1>4. CASE /\ 0 < usedCount /\ out' = [out EXCEPT ![t] = buffer[firstIndex]]
           /\ firstIndex' = (firstIndex + 1) % Size /\ usedCount' = usedCount - 1
           /\ holder' = t /\ Goto(t, "notify") /\ UNCHANGED <<buffer, op, data>>
  <2>1. usedCount > 0
    BY <1>2, <1>4, SizeIsPositive DEF RingInv
  <2>2. Items # << >> /\ Head(Items) = buffer[firstIndex] /\ buffer[firstIndex] \in Values
    BY <1>2, <2>1, FirstItem
  <2>3. RingInv' /\ Items' = Tail(Items)
    BY <1>2, <1>4, <2>1, TakeItems
  <2>4. Deque!Get(t)
    BY <1>1, <1>2, <1>4, <2>2, <2>3 DEF Deque!Get, InHand
  <2>5. holder' \in Threads \cup {None}
    BY <1>4
  <2>6. IInv'
    BY <1>1, <1>4, <2>2, <2>3, <2>5, GotKeepsIInv
  <2>7. QED
    BY <2>4, <2>6 DEF DequeStep, Deque!Next
<1>5. QED
  BY <1>3, <1>4 DEF TryDequeue

LEMMA TryGetFrontStep ==
  ASSUME IInv, NEW t \in Threads, TryGetFront(t)
  PROVE  IInv' /\ DequeStep
<1>1. /\ pc[t] = "try" /\ op[t] \notin Deque!Take /\ op[t] \in Deque!Gets
      /\ op[t] # "ForceEnqueue" /\ UNCHANGED <<waitCounts, eqVars, dqVars>>
  BY DEF TryGetFront, Deque!Gets, Deque!Take, Deque!Front
<1>2. CallTypes /\ InHand(t) /\ RingInv
  BY DEF IInv, CallInv
<1>3. CASE 0 >= usedCount /\ Refused(t)
  <2>1. op[t] \notin Deque!Puts
    BY <1>1, Kinds
  <2>2. QED
    BY <1>1, <1>3, <2>1, RefusedKeepsIInv, RefusedIsRefusal
<1>4. CASE /\ 0 < usedCount /\ out' = [out EXCEPT ![t] = buffer[firstIndex]]
           /\ Goto(t, "done") /\ UNCHANGED <<ring, holder, op, data>>
  <2>1. usedCount > 0
    BY <1>2, <1>4, SizeIsPositive DEF RingInv
  <2>2. Items # << >> /\ Head(Items) = buffer[firstIndex] /\ buffer[firstIndex] \in Values
    BY <1>2, <2>1, FirstItem
  <2>3. RingInv' /\ Items' = Items
    BY <1>2, <1>4, RingStutter
  <2>4. Deque!Get(t)
    BY <1>1, <1>2, <1>4, <2>2, <2>3 DEF Deque!Get, InHand
  <2>5. holder' \in Threads \cup {None}
    BY <1>2, <1>4 DEF CallTypes
  <2>6. IInv'
    BY <1>1, <1>4, <2>2, <2>3, <2>5, GotKeepsIInv
  <2>7. QED
    BY <2>4, <2>6 DEF DequeStep, Deque!Next
<1>5. QED
  BY <1>3, <1>4 DEF TryGetFront

LEMMA BeginIsCall ==
  ASSUME IInv, NEW t \in Threads, BeginPut(t) \/ BeginGet(t)
  PROVE  DequeStep
<1>1. op[t] = None
  BY DEF BeginPut, BeginGet, IInv, CallInv, InHand
<1>2. Items' = Items
  BY RingStutter DEF BeginPut, BeginGet, IInv
<1>3. Deque!Call(t)
  BY <1>1, <1>2 DEF Deque!Call, BeginPut, BeginGet
<1>4. QED
  BY <1>3 DEF DequeStep, Deque!Next

(* A step within a call that neither puts nor gets.                        *)
LEMMA MoveKeepsIInv ==
  ASSUME IInv, NEW t \in Threads, NEW place \in Places, pc' = [pc EXCEPT ![t] = place],
         holder' \in Threads \cup {None}, UNCHANGED <<ring, waitCounts, call>>,
         EqP!IInv', DqP!IInv',
         \A u \in Threads \ {t} : (eqPc'[u] = "idle" <=> eqPc[u] = "idle")
                                  /\ (dqPc'[u] = "idle" <=> dqPc[u] = "idle"),
         InHand(t)', InSemaphore(t)'
  PROVE  IInv' /\ DequeStep
<1>1. CallTypes /\ RingInv
  BY DEF IInv, CallInv
<1>2. RingInv' /\ Items' = Items
  BY <1>1, RingStutter
<1>3. CallTypes'
  BY <1>1 DEF CallTypes, call
<1>4. OthersKeepTheirs(t)
  BY <1>1 DEF OthersKeepTheirs, CallTypes, call
<1>5. CallInv'
  BY <1>3, <1>4, CallStep DEF IInv
<1>6. CountsAreExact'
  BY CountsStutter DEF IInv, call
<1>7. UNCHANGED Deque!vars
  BY <1>2 DEF Deque!vars, call
<1>8. QED
  BY <1>2, <1>5, <1>6, <1>7 DEF IInv, DequeStep

LEMMA NotifyStep ==
  ASSUME IInv, NEW t \in Threads, Notify(t)
  PROVE  IInv' /\ DequeStep
<1>1. PICK place \in {"release", "done"} :
        pc' = [pc EXCEPT ![t] = place] /\ holder' \in {holder, None}
  BY DEF Notify, Goto
<1>2. pc[t] = "notify" /\ UNCHANGED <<ring, waitCounts, eqVars, dqVars, call>>
  BY DEF Notify
<1>3. CallTypes /\ InHand(t) /\ InSemaphore(t)
  BY DEF IInv, CallInv
<1>4. EqP!IInv' /\ DqP!IInv'
  BY <1>2, EnqueueSemaphoreStutter, DequeueSemaphoreStutter DEF IInv
<1>5. place \in Places /\ holder' \in Threads \cup {None} /\ pc'[t] = place
  BY <1>1, <1>3 DEF CallTypes, Places
<1>6. InHand(t)'
  BY <1>2, <1>3, <1>5 DEF InHand, call
<1>7. InSemaphore(t)'
  BY <1>2, <1>3, <1>5 DEF InSemaphore, eqVars, dqVars
<1>8. \A u \in Threads \ {t} : (eqPc'[u] = "idle" <=> eqPc[u] = "idle")
                               /\ (dqPc'[u] = "idle" <=> dqPc[u] = "idle")
  BY <1>2 DEF eqVars, dqVars
<1>9. QED
  BY <1>1, <1>2, <1>4, <1>5, <1>6, <1>7, <1>8, MoveKeepsIInv

LEMMA ReleaseEnqueueSemaphoreStep ==
  ASSUME IInv, NEW t \in Threads, ReleaseEnqueueSemaphore(t)
  PROVE  IInv' /\ DequeStep
<1>1. CallTypes /\ InHand(t) /\ InSemaphore(t)
  BY DEF IInv, CallInv
<1>2. /\ pc[t] = "release" /\ op[t] \in Deque!Puts /\ Released(t, eqPc'[t])
      /\ UNCHANGED <<ring, waitCounts, dqVars, call>>
  BY DEF ReleaseEnqueueSemaphore
<1>3. PICK place \in {"release", "done"} :
        /\ pc' = [pc EXCEPT ![t] = place] /\ holder' \in {holder, None}
        /\ place = "done" => eqPc'[t] = "idle"
  <2>1. pc = [pc EXCEPT ![t] = "release"]
    BY <1>1, <1>2 DEF CallTypes
  <2>2. QED
    BY <1>2, <2>1 DEF Released, Goto
<1>4. EnqueueSemaphoreStep(t)
  BY DEF ReleaseEnqueueSemaphore, EnqueueSemaphoreStep
<1>5. EqP!IInv' /\ \A u \in Threads \ {t} : eqPc'[u] = "idle" <=> eqPc[u] = "idle"
  BY <1>4, EnqueueSemaphoreEffect DEF IInv
<1>6. DqP!IInv'
  BY <1>2, DequeueSemaphoreStutter DEF IInv
<1>7. place \in Places /\ holder' \in Threads \cup {None} /\ pc'[t] = place
  BY <1>1, <1>3 DEF CallTypes, Places
<1>8. InHand(t)'
  BY <1>1, <1>2, <1>3, <1>7 DEF InHand, call
<1>9. InSemaphore(t)'
  BY <1>1, <1>2, <1>3, <1>7, Kinds DEF InSemaphore, dqVars, call
<1>10. \A u \in Threads \ {t} : (eqPc'[u] = "idle" <=> eqPc[u] = "idle")
                                /\ (dqPc'[u] = "idle" <=> dqPc[u] = "idle")
  BY <1>2, <1>5 DEF dqVars
<1>11. QED
  BY <1>2, <1>3, <1>5, <1>6, <1>7, <1>8, <1>9, <1>10, MoveKeepsIInv

LEMMA ReleaseDequeueSemaphoreStep ==
  ASSUME IInv, NEW t \in Threads, ReleaseDequeueSemaphore(t)
  PROVE  IInv' /\ DequeStep
<1>1. CallTypes /\ InHand(t) /\ InSemaphore(t)
  BY DEF IInv, CallInv
<1>2. /\ pc[t] = "release" /\ op[t] \in Deque!Gets /\ Released(t, dqPc'[t])
      /\ UNCHANGED <<ring, waitCounts, eqVars, call>>
  BY DEF ReleaseDequeueSemaphore
<1>3. PICK place \in {"release", "done"} :
        /\ pc' = [pc EXCEPT ![t] = place] /\ holder' \in {holder, None}
        /\ place = "done" => dqPc'[t] = "idle"
  <2>1. pc = [pc EXCEPT ![t] = "release"]
    BY <1>1, <1>2 DEF CallTypes
  <2>2. QED
    BY <1>2, <2>1 DEF Released, Goto
<1>4. DequeueSemaphoreStep(t)
  BY DEF ReleaseDequeueSemaphore, DequeueSemaphoreStep
<1>5. DqP!IInv' /\ \A u \in Threads \ {t} : dqPc'[u] = "idle" <=> dqPc[u] = "idle"
  BY <1>4, DequeueSemaphoreEffect DEF IInv
<1>6. EqP!IInv'
  BY <1>2, EnqueueSemaphoreStutter DEF IInv
<1>7. place \in Places /\ holder' \in Threads \cup {None} /\ pc'[t] = place
  BY <1>1, <1>3 DEF CallTypes, Places
<1>8. InHand(t)'
  BY <1>1, <1>2, <1>3, <1>7 DEF InHand, call
<1>9. InSemaphore(t)'
  BY <1>1, <1>2, <1>3, <1>7, Kinds DEF InSemaphore, eqVars, call
<1>10. \A u \in Threads \ {t} : (eqPc'[u] = "idle" <=> eqPc[u] = "idle")
                                /\ (dqPc'[u] = "idle" <=> dqPc[u] = "idle")
  BY <1>2, <1>5 DEF eqVars
<1>11. QED
  BY <1>2, <1>3, <1>5, <1>6, <1>7, <1>8, <1>9, <1>10, MoveKeepsIInv

LEMMA AcquireEnqueueSemaphoreStep ==
  ASSUME IInv, NEW t \in Threads, AcquireEnqueueSemaphore(t)
  PROVE  IInv' /\ DequeStep
<1> DEFINE place == IF eqPc'[t] = "idle" THEN "try" ELSE "wait"
<1>1. CallTypes /\ InHand(t) /\ InSemaphore(t)
  BY DEF IInv, CallInv
<1>2. /\ pc[t] = "wait" /\ op[t] \in Deque!Gets /\ pc' = [pc EXCEPT ![t] = place]
      /\ UNCHANGED <<ring, holder, waitCounts, dqVars, call>>
  BY DEF AcquireEnqueueSemaphore, Goto
<1>3. EnqueueSemaphoreStep(t)
  BY DEF AcquireEnqueueSemaphore, EnqueueSemaphoreStep
<1>4. EqP!IInv' /\ \A u \in Threads \ {t} : eqPc'[u] = "idle" <=> eqPc[u] = "idle"
  BY <1>3, EnqueueSemaphoreEffect DEF IInv
<1>5. DqP!IInv'
  BY <1>2, DequeueSemaphoreStutter DEF IInv
<1>6. place \in Places /\ holder' \in Threads \cup {None} /\ pc'[t] = place
  BY <1>1, <1>2 DEF CallTypes, Places
<1>7. InHand(t)'
  BY <1>1, <1>2, <1>6 DEF InHand, call
<1>8. InSemaphore(t)'
  BY <1>1, <1>2, <1>6, Kinds DEF InSemaphore, dqVars, call
<1>9. \A u \in Threads \ {t} : (eqPc'[u] = "idle" <=> eqPc[u] = "idle")
                               /\ (dqPc'[u] = "idle" <=> dqPc[u] = "idle")
  BY <1>2, <1>4 DEF dqVars
<1> HIDE DEF place
<1>10. QED
  BY <1>2, <1>4, <1>5, <1>6, <1>7, <1>8, <1>9, MoveKeepsIInv

LEMMA AcquireDequeueSemaphoreStep ==
  ASSUME IInv, NEW t \in Threads, AcquireDequeueSemaphore(t)
  PROVE  IInv' /\ DequeStep
<1> DEFINE place == IF dqPc'[t] = "idle" THEN "try" ELSE "wait"
<1>1. CallTypes /\ InHand(t) /\ InSemaphore(t)
  BY DEF IInv, CallInv
<1>2. /\ pc[t] = "wait" /\ op[t] \in Deque!Puts /\ pc' = [pc EXCEPT ![t] = place]
      /\ UNCHANGED <<ring, holder, waitCounts, eqVars, call>>
  BY DEF AcquireDequeueSemaphore, Goto
<1>3. DequeueSemaphoreStep(t)
  BY DEF AcquireDequeueSemaphore, DequeueSemaphoreStep
<1>4. DqP!IInv' /\ \A u \in Threads \ {t} : dqPc'[u] = "idle" <=> dqPc[u] = "idle"
  BY <1>3, DequeueSemaphoreEffect DEF IInv
<1>5. EqP!IInv'
  BY <1>2, EnqueueSemaphoreStutter DEF IInv
<1>6. place \in Places /\ holder' \in Threads \cup {None} /\ pc'[t] = place
  BY <1>1, <1>2 DEF CallTypes, Places
<1>7. InHand(t)'
  BY <1>1, <1>2, <1>6 DEF InHand, call
<1>8. InSemaphore(t)'
  BY <1>1, <1>2, <1>6, Kinds DEF InSemaphore, eqVars, call
<1>9. \A u \in Threads \ {t} : (eqPc'[u] = "idle" <=> eqPc[u] = "idle")
                               /\ (dqPc'[u] = "idle" <=> dqPc[u] = "idle")
  BY <1>2, <1>4 DEF eqVars
<1> HIDE DEF place
<1>10. QED
  BY <1>2, <1>4, <1>5, <1>6, <1>7, <1>8, <1>9, MoveKeepsIInv

LEMMA DoneStep ==
  ASSUME IInv, NEW t \in Threads, Done(t)
  PROVE  IInv' /\ DequeStep
<1>1. CallTypes /\ InHand(t) /\ InSemaphore(t) /\ RingInv
  BY DEF IInv, CallInv
<1>2. /\ pc[t] = "done" /\ pc' = [pc EXCEPT ![t] = "idle"] /\ Finished(t)
      /\ UNCHANGED <<ring, holder, eqVars, dqVars>>
  BY DEF Done, Goto
<1>3. op[t] \in Calls[t] /\ op[t] \in Deque!Puts \cup Deque!Gets
  BY <1>1, <1>2, Kinds DEF InHand
<1>4. EqP!IInv' /\ DqP!IInv' /\ RingInv' /\ Items' = Items
  BY <1>1, <1>2, EnqueueSemaphoreStutter, DequeueSemaphoreStutter, RingStutter DEF IInv
<1>5. CallTypes' /\ op'[t] = None /\ data'[t] = None /\ out'[t] = None /\ pc'[t] = "idle"
  BY <1>1, <1>2 DEF CallTypes, Cells, Places, Finished
<1>6. InHand(t)'
  BY <1>5 DEF InHand
<1>7. InSemaphore(t)'
  BY <1>1, <1>2, <1>5 DEF InSemaphore, eqVars, dqVars
<1>8. OthersKeepTheirs(t)
  BY <1>1, <1>2 DEF OthersKeepTheirs, CallTypes, Finished, eqVars, dqVars
<1>9. CallInv'
  BY <1>5, <1>6, <1>7, <1>8, CallStep DEF IInv, CallInv
<1>10. waitingDequeueCount' = Cardinality(BlockedPuts')
  <2>1. CASE op[t] \in Deque!Puts \cap Deque!Blocking
    <3>1. t \notin BlockedPuts' /\ BlockedPuts = BlockedPuts' \cup {t}
      BY <1>5, <1>8, <2>1, Kinds DEF BlockedPuts, OthersKeepTheirs
    <3>2. BlockedPuts \in SUBSET Threads /\ BlockedPuts' \in SUBSET Threads
      BY DEF BlockedPuts
    <3>3. Cardinality(BlockedPuts') = Cardinality(BlockedPuts) - 1
      BY <3>1, <3>2, OneMore
    <3>4. QED
      BY <2>1, <3>3 DEF IInv, CountsAreExact, Done
  <2>2. CASE op[t] \notin Deque!Puts \cap Deque!Blocking
    <3>1. BlockedPuts' = BlockedPuts
      BY <1>5, <1>8, <2>2, Kinds DEF BlockedPuts, OthersKeepTheirs
    <3>2. Cardinality(BlockedPuts) \in Nat
      BY ThreadsFinite, FS_Subset, FS_CardinalityType DEF BlockedPuts
    <3>3. QED
      BY <2>2, <3>1, <3>2 DEF IInv, CountsAreExact, Done
  <2>3. QED
    BY <2>1, <2>2
<1>11. waitingEnqueueCount' = Cardinality(BlockedGets')
  <2>1. CASE op[t] \in Deque!Gets \cap Deque!Blocking
    <3>1. t \notin BlockedGets' /\ BlockedGets = BlockedGets' \cup {t}
      BY <1>5, <1>8, <2>1, Kinds DEF BlockedGets, OthersKeepTheirs
    <3>2. BlockedGets \in SUBSET Threads /\ BlockedGets' \in SUBSET Threads
      BY DEF BlockedGets
    <3>3. Cardinality(BlockedGets') = Cardinality(BlockedGets) - 1
      BY <3>1, <3>2, OneMore
    <3>4. QED
      BY <2>1, <3>3 DEF IInv, CountsAreExact, Done
  <2>2. CASE op[t] \notin Deque!Gets \cap Deque!Blocking
    <3>1. BlockedGets' = BlockedGets
      BY <1>5, <1>8, <2>2, Kinds DEF BlockedGets, OthersKeepTheirs
    <3>2. Cardinality(BlockedGets) \in Nat
      BY ThreadsFinite, FS_Subset, FS_CardinalityType DEF BlockedGets
    <3>3. QED
      BY <2>2, <3>1, <3>2 DEF IInv, CountsAreExact, Done
  <2>3. QED
    BY <2>1, <2>2
<1>12. Deque!Return(t)
  <2>1. \/ op[t] \in Deque!Puts /\ data[t] = None
        \/ op[t] \in Deque!Gets /\ out[t] # None
    BY <1>1, <1>2, <1>3, Kinds DEF InHand
  <2>2. QED
    BY <1>2, <1>4, <2>1 DEF Deque!Return, Deque!Finish, Finished
<1>13. QED
  BY <1>4, <1>9, <1>10, <1>11, <1>12 DEF IInv, CountsAreExact, DequeStep, Deque!Next

-----------------------------------------------------------------------------
LEMMA InitIInv == Init => IInv /\ Deque!Init
<1> SUFFICES ASSUME Init PROVE IInv /\ Deque!Init
  OBVIOUS
<1>1. EqP!IInv
  <2>1. EqP!Init
    BY DEF Init, EnqueueSemaphore!Init, EqP!Init
  <2>2. QED
    BY <2>1, EnqueueSemaphoreAssumptions, EqP!InitIInv
<1>2. DqP!IInv
  <2>1. DqP!Init
    BY DEF Init, DequeueSemaphore!Init, DqP!Init
  <2>2. QED
    BY <2>1, DequeueSemaphoreAssumptions, DqP!InitIInv
<1>3. Items = << >>
  <2>1. firstIndex \in Slots /\ usedCount \in 0 .. Size /\ usedCount = 0
    BY SizeIsPositive DEF Init, Slots
  <2>2. buffer \in [Slots -> Cells]
    BY DEF Init, Slots, Cells
  <2>3. RingOf(buffer, firstIndex, usedCount) \in Seq(Cells)
        /\ Len(RingOf(buffer, firstIndex, usedCount)) = usedCount
    BY <2>1, <2>2, RingIsASeq
  <2>4. Items = RingOf(buffer, firstIndex, usedCount)
    BY DEF Items, RingOf
  <2>5. QED
    BY <2>1, <2>3, <2>4
<1>4. RingInv
  BY <1>3, SizeIsPositive DEF Init, RingInv, Slots, Cells
<1>5. CallInv
  BY DEF Init, EnqueueSemaphore!Init, DequeueSemaphore!Init, CallInv, CallTypes, Cells, Places,
     InHand, InSemaphore
<1>6. CountsAreExact
  <2>1. BlockedGets = {} /\ BlockedPuts = {}
    BY Kinds DEF Init, BlockedGets, BlockedPuts
  <2>2. QED
    BY <2>1, FS_EmptySet DEF Init, CountsAreExact
<1>7. Deque!Init
  BY <1>3 DEF Init, Deque!Init
<1>8. QED
  BY <1>1, <1>2, <1>4, <1>5, <1>6, <1>7 DEF IInv

LEMMA NextIInv == IInv /\ [Next]_vars => IInv' /\ DequeStep
<1> SUFFICES ASSUME IInv, [Next]_vars PROVE IInv' /\ DequeStep
  OBVIOUS
<1>1. CASE UNCHANGED vars
  <2>1. UNCHANGED <<ring, waitCounts, eqVars, dqVars, call, pc, holder>>
    BY <1>1 DEF vars
  <2>2. EqP!IInv' /\ DqP!IInv' /\ RingInv' /\ Items' = Items
    BY <2>1, EnqueueSemaphoreStutter, DequeueSemaphoreStutter, RingStutter DEF IInv
  <2>3. CallInv'
    BY <2>1 DEF IInv, CallInv, CallTypes, InHand, InSemaphore, call, eqVars, dqVars
  <2>4. CountsAreExact'
    BY <2>1, CountsStutter DEF IInv, call
  <2>5. UNCHANGED Deque!vars
    BY <2>1, <2>2 DEF Deque!vars, call
  <2>6. QED
    BY <2>2, <2>3, <2>4, <2>5 DEF IInv, DequeStep
<1>2. ASSUME NEW t \in Threads, BeginPut(t) \/ BeginGet(t)
      PROVE  IInv' /\ DequeStep
  BY <1>2, BeginPutKeepsIInv, BeginGetKeepsIInv, BeginIsCall
<1>3. ASSUME NEW t \in Threads, Step(t)
      PROVE  IInv' /\ DequeStep
  BY <1>3, TryEnqueueStep, TryJamStep, ForceEnqueueStep, TryDequeueStep, TryGetFrontStep,
     NotifyStep, DoneStep, ReleaseEnqueueSemaphoreStep, ReleaseDequeueSemaphoreStep,
     AcquireEnqueueSemaphoreStep, AcquireDequeueSemaphoreStep DEF Step, Try
<1>4. QED
  BY <1>1, <1>2, <1>3 DEF Next

LEMMA IInvCorrect == Spec => []IInv
<1>1. Init => IInv
  BY InitIInv
<1>2. IInv /\ [Next]_vars => IInv'
  BY NextIInv
<1>3. QED
  BY <1>1, <1>2, PTL DEF Spec

(* Types, and with them the bounds that are not plain: the ring never      *)
(* holds more than Size items, both counts of waiting callers stay between *)
(* zero and the number of threads, and both semaphores keep their own      *)
(* types, under calls of every kind by any number of threads.              *)
THEOREM TypeCorrect == Spec => []TypeOK
<1>1. ASSUME IInv
      PROVE  TypeOK
  <2>1. EnqueueSemaphore!TypeOK
    <3>1. EqP!Cardinality(EqP!Announced) \in 0 .. EqP!Cardinality(Threads)
      BY EnqueueSemaphoreAssumptions, EqP!AnnouncedFinite
    <3>2. QED
      BY <1>1, <3>1 DEF IInv, EqP!IInv, EqP!TypeInv, EqP!Exact, EnqueueSemaphore!TypeOK,
         EqP!Places, EnqueueSemaphore!Places, EqP!Cardinality, EnqueueSemaphore!Cardinality
  <2>2. DequeueSemaphore!TypeOK
    <3>1. DqP!Cardinality(DqP!Announced) \in 0 .. DqP!Cardinality(Threads)
      BY DequeueSemaphoreAssumptions, DqP!AnnouncedFinite
    <3>2. QED
      BY <1>1, <3>1 DEF IInv, DqP!IInv, DqP!TypeInv, DqP!Exact, DequeueSemaphore!TypeOK,
         DqP!Places, DequeueSemaphore!Places, DqP!Cardinality, DequeueSemaphore!Cardinality
  <2>3. /\ waitingEnqueueCount \in 0 .. Cardinality(Threads)
        /\ waitingDequeueCount \in 0 .. Cardinality(Threads)
    <3>1. BlockedGets \in SUBSET Threads /\ BlockedPuts \in SUBSET Threads
      BY DEF BlockedGets, BlockedPuts
    <3>2. ASSUME NEW S \in SUBSET Threads
          PROVE  Cardinality(S) \in 0 .. Cardinality(Threads)
      <4>1. IsFiniteSet(S) /\ Cardinality(S) <= Cardinality(Threads)
        BY ThreadsFinite, FS_Subset
      <4>2. Cardinality(S) \in Nat /\ Cardinality(Threads) \in Nat
        BY <4>1, ThreadsFinite, FS_CardinalityType
      <4>3. QED
        BY <4>1, <4>2
    <3>3. QED
      BY <1>1, <3>1, <3>2 DEF IInv, CountsAreExact
  <2>4. op \in [Threads -> (UNION {Calls[t] : t \in Threads}) \cup {None}]
    <3>1. op \in [Threads -> Deque!Puts \cup Deque!Gets \cup {None}]
      BY <1>1 DEF IInv, CallInv, CallTypes
    <3>2. \A t \in Threads : op[t] = None \/ op[t] \in Calls[t]
      BY <1>1 DEF IInv, CallInv, InHand
    <3>3. \A t \in Threads : op[t] \in (UNION {Calls[u] : u \in Threads}) \cup {None}
      BY <3>2
    <3>4. op = [t \in Threads |-> op[t]]
      BY <3>1
    <3>5. QED
      BY ONLY <3>3, <3>4
  <2>5. QED
    BY <1>1, <2>1, <2>2, <2>3, <2>4
    DEF TypeOK, IInv, CallInv, CallTypes, RingInv, Slots, Cells
<1>2. QED
  BY <1>1, IInvCorrect, PTL

(* The ring buffer implements a bounded queue with two ends: every call of *)
(* every thread takes effect once, between its start and its return, at    *)
(* the right end; ForceEnqueue displaces the front of a full queue and     *)
(* nothing else does; a Try variant refuses only a full or an empty queue. *)
THEOREM ImplementationCorrect == Spec => ImplementsBoundedDeque
<1>1. Init => Deque!Init
  BY InitIInv
<1>2. IInv /\ [Next]_vars => [Deque!Next]_(Deque!vars)
  BY NextIInv DEF DequeStep
<1>3. QED
  BY <1>1, <1>2, IInvCorrect, PTL DEF Spec, ImplementsBoundedDeque, Deque!Spec

(* Both counts of waiting callers, which no lock protects and by which a   *)
(* put or a take decides whether to wake anybody, are exact at every       *)
(* moment: the number of threads inside a blocking get, or put.            *)
THEOREM CountsCorrect == Spec => []CountsAreExact
<1>1. IInv => CountsAreExact
  BY DEF IInv
<1>2. QED
  BY <1>1, IInvCorrect, PTL

-----------------------------------------------------------------------------
(* No item is left lying.  The invariant is inductive on top of the one    *)
(* above as it stands: what is left is to count, action by action.         *)
GettersTrying == {t \in Threads : op[t] \in Deque!Take /\ pc[t] = "try"}
PutsNotified  == {t \in Threads : /\ op[t] \in Deque!Puts
                                  /\ pc[t] \in {"notify", "release"}
                                  /\ eqPc[t] = "idle"}
WaitsForAnItem(t) == op[t] \in Deque!Take /\ pc[t] = "wait"

LEMMA StepOfOne ==
  ASSUME IInv, NEW t \in Threads, BeginPut(t) \/ BeginGet(t) \/ Step(t)
  PROVE  OthersKeepTheirs(t)
<1>1. CallTypes
  BY DEF IInv, CallInv
<1>2. CASE BeginPut(t) \/ BeginGet(t)
  BY <1>1, <1>2 DEF OthersKeepTheirs, CallTypes, BeginPut, BeginGet, Goto, eqVars, dqVars
<1>3. CASE TryEnqueue(t) \/ TryJam(t) \/ TryDequeue(t)
  BY <1>1, <1>3 DEF OthersKeepTheirs, CallTypes, TryEnqueue, TryJam, TryDequeue, Store, Refused,
     Finished, Goto, call, eqVars, dqVars
<1>4. CASE ForceEnqueue(t) \/ TryGetFront(t)
  BY <1>1, <1>4 DEF OthersKeepTheirs, CallTypes, ForceEnqueue, TryGetFront, Store, Refused,
     Finished, Goto, call, eqVars, dqVars
<1>5. CASE Notify(t) \/ Done(t)
  BY <1>1, <1>5 DEF OthersKeepTheirs, CallTypes, Notify, Done, Finished, Goto, call, eqVars, dqVars
<1>6. CASE ReleaseEnqueueSemaphore(t) \/ AcquireEnqueueSemaphore(t)
  <2>1. EnqueueSemaphoreStep(t)
    BY <1>6 DEF ReleaseEnqueueSemaphore, AcquireEnqueueSemaphore, EnqueueSemaphoreStep
  <2>2. \A u \in Threads \ {t} : eqPc'[u] = "idle" <=> eqPc[u] = "idle"
    BY <2>1, EnqueueSemaphoreEffect DEF IInv
  <2>3. QED
    BY <1>1, <1>6, <2>2 DEF OthersKeepTheirs, CallTypes, ReleaseEnqueueSemaphore,
       AcquireEnqueueSemaphore, Released, Goto, call, dqVars
<1>7. CASE ReleaseDequeueSemaphore(t) \/ AcquireDequeueSemaphore(t)
  <2>1. DequeueSemaphoreStep(t)
    BY <1>7 DEF ReleaseDequeueSemaphore, AcquireDequeueSemaphore, DequeueSemaphoreStep
  <2>2. \A u \in Threads \ {t} : dqPc'[u] = "idle" <=> dqPc[u] = "idle"
    BY <2>1, DequeueSemaphoreEffect DEF IInv
  <2>3. QED
    BY <1>1, <1>7, <2>2 DEF OthersKeepTheirs, CallTypes, ReleaseDequeueSemaphore,
       AcquireDequeueSemaphore, Released, Goto, call, eqVars
<1>8. QED
  BY <1>2, <1>3, <1>4, <1>5, <1>6, <1>7 DEF Step, Try

(* How a set of threads counts when one thread's membership may change.    *)
LEMMA CountWithOneChange ==
  ASSUME NEW S \in SUBSET Threads, NEW T \in SUBSET Threads, NEW t \in Threads,
         \A u \in Threads \ {t} : u \in T <=> u \in S
  PROVE  /\ Cardinality(S) \in Nat /\ Cardinality(T) \in Nat
         /\ Cardinality(T) + (IF t \in S THEN 1 ELSE 0) = Cardinality(S) + (IF t \in T THEN 1 ELSE 0)
<1>1. Cardinality(S) \in Nat /\ Cardinality(T) \in Nat
  BY ThreadsFinite, FS_Subset, FS_CardinalityType
<1>2. CASE (t \in S) <=> (t \in T)
  <2>1. S = T
    BY <1>2
  <2>2. QED
    BY <1>1, <2>1
<1>3. CASE t \in S /\ t \notin T
  <2>1. S = T \cup {t}
    BY <1>3
  <2>2. Cardinality(S) = Cardinality(T) + 1
    BY <1>3, <2>1, OneMore
  <2>3. QED
    BY <1>1, <1>3, <2>2
<1>4. CASE t \notin S /\ t \in T
  <2>1. T = S \cup {t}
    BY <1>4
  <2>2. Cardinality(T) = Cardinality(S) + 1
    BY <1>4, <2>1, OneMore
  <2>3. QED
    BY <1>1, <1>4, <2>2
<1>5. QED
  BY <1>2, <1>3, <1>4

LEMMA NumbersInOrder ==
  ASSUME IInv
  PROVE  /\ usedCount \in Nat /\ Size \in Nat /\ MaxTokens \in Nat
         /\ usedCount <= Size /\ Size <= MaxTokens /\ usedCount <= MaxTokens
         /\ eqCount \in Nat /\ eqPc \in [Threads -> EqP!Places]
         /\ dqCount \in Nat /\ dqPc \in [Threads -> DqP!Places]
<1>1. /\ usedCount \in 0 .. Size
      /\ eqCount \in 0 .. MaxTokens /\ eqPc \in [Threads -> EqP!Places]
      /\ dqCount \in 0 .. MaxTokens /\ dqPc \in [Threads -> DqP!Places]
  BY DEF IInv, RingInv, EqP!IInv, EqP!TypeInv, DqP!IInv, DqP!TypeInv
<1>2. Size \in Nat /\ MaxTokens \in Nat /\ Size <= MaxTokens
  BY SizeIsPositive, TokensSuffice
<1>3. QED
  BY <1>1, <1>2

LEMMA NumbersAreNat ==
  ASSUME IInv
  PROVE  /\ NumGettersTrying = Cardinality(GettersTrying) /\ NumGettersTrying \in Nat
         /\ NumPutsNotified = Cardinality(PutsNotified) /\ NumPutsNotified \in Nat
         /\ eqCount \in 0 .. MaxTokens /\ usedCount \in 0 .. Size
<1>1. GettersTrying \in SUBSET Threads /\ PutsNotified \in SUBSET Threads
  BY DEF GettersTrying, PutsNotified
<1>2. Cardinality(GettersTrying) \in Nat /\ Cardinality(PutsNotified) \in Nat
  BY <1>1, ThreadsFinite, FS_Subset, FS_CardinalityType
<1>3. QED
  BY <1>2 DEF GettersTrying, PutsNotified, NumGettersTrying, NumPutsNotified, IInv, RingInv,
     EqP!IInv, EqP!TypeInv

LEMMA NumbersAreNatNext ==
  ASSUME IInv'
  PROVE  /\ NumGettersTrying' = Cardinality(GettersTrying') /\ NumGettersTrying' \in Nat
         /\ NumPutsNotified' = Cardinality(PutsNotified') /\ NumPutsNotified' \in Nat
         /\ eqCount' \in 0 .. MaxTokens /\ usedCount' \in 0 .. Size
<1>1. GettersTrying' \in SUBSET Threads /\ PutsNotified' \in SUBSET Threads
  BY DEF GettersTrying, PutsNotified
<1>2. Cardinality(GettersTrying') \in Nat /\ Cardinality(PutsNotified') \in Nat
  BY <1>1, ThreadsFinite, FS_Subset, FS_CardinalityType
<1>3. QED
  BY <1>2 DEF GettersTrying, PutsNotified, NumGettersTrying, NumPutsNotified, IInv, RingInv,
     EqP!IInv, EqP!TypeInv

(* Tokens alone cover the items.                                           *)
LEMMA CoveredByTokens ==
  ASSUME IInv', usedCount' <= eqCount'
  PROVE  NoItemStranded'
<1>1. /\ NumGettersTrying' \in Nat /\ NumPutsNotified' \in Nat
      /\ eqCount' \in 0 .. MaxTokens /\ usedCount' \in 0 .. Size
  BY NumbersAreNatNext
<1>2. usedCount' <= eqCount' + NumGettersTrying' + NumPutsNotified'
  <2>1. PICK n \in 0 .. Size, e \in 0 .. MaxTokens, g \in Nat, p \in Nat :
          n = usedCount' /\ e = eqCount' /\ g = NumGettersTrying' /\ p = NumPutsNotified'
    BY <1>1
  <2>2. n <= e
    BY <2>1
  <2>3. n <= e + g + p
    BY ONLY <2>2, SizeIsPositive, TokensSuffice
  <2>4. QED
    BY <2>1, <2>3
<1>3. QED
  BY <1>2 DEF NoItemStranded

(* What a step of t adds to the tokens and to the callers about to try or  *)
(* to release makes up for what it adds to the items.                      *)
LEMMA StaysMatched ==
  ASSUME IInv, IInv', NoItemStranded, NEW t \in Threads, OthersKeepTheirs(t),
         WaitsForAnItem(t)' => WaitsForAnItem(t),
         usedCount' + eqCount
             + (IF t \in GettersTrying THEN 1 ELSE 0) + (IF t \in PutsNotified THEN 1 ELSE 0)
           <= usedCount + eqCount'
             + (IF t \in GettersTrying' THEN 1 ELSE 0) + (IF t \in PutsNotified' THEN 1 ELSE 0)
  PROVE  NoItemStranded'
<1> SUFFICES ASSUME NEW w \in Threads, WaitsForAnItem(w)'
             PROVE  usedCount' <= eqCount' + NumGettersTrying' + NumPutsNotified'
  BY DEF NoItemStranded, WaitsForAnItem
<1>1. WaitsForAnItem(w)
  BY DEF OthersKeepTheirs, WaitsForAnItem
<1>2. usedCount <= eqCount + NumGettersTrying + NumPutsNotified
  BY <1>1 DEF NoItemStranded, WaitsForAnItem
<1>3. /\ NumGettersTrying = Cardinality(GettersTrying) /\ NumPutsNotified = Cardinality(PutsNotified)
      /\ eqCount \in 0 .. MaxTokens /\ usedCount \in 0 .. Size
  BY NumbersAreNat
<1>4. /\ NumGettersTrying' = Cardinality(GettersTrying') /\ NumPutsNotified' = Cardinality(PutsNotified')
      /\ eqCount' \in 0 .. MaxTokens /\ usedCount' \in 0 .. Size
  BY NumbersAreNatNext
<1>5. /\ Cardinality(GettersTrying) \in Nat /\ Cardinality(GettersTrying') \in Nat
      /\ Cardinality(GettersTrying') + (IF t \in GettersTrying THEN 1 ELSE 0)
           = Cardinality(GettersTrying) + (IF t \in GettersTrying' THEN 1 ELSE 0)
  <2>1. GettersTrying \in SUBSET Threads /\ GettersTrying' \in SUBSET Threads
    BY DEF GettersTrying
  <2>2. \A u \in Threads \ {t} : u \in GettersTrying' <=> u \in GettersTrying
    BY DEF GettersTrying, OthersKeepTheirs
  <2>3. QED
    BY <2>1, <2>2, CountWithOneChange
<1>6. /\ Cardinality(PutsNotified) \in Nat /\ Cardinality(PutsNotified') \in Nat
      /\ Cardinality(PutsNotified') + (IF t \in PutsNotified THEN 1 ELSE 0)
           = Cardinality(PutsNotified) + (IF t \in PutsNotified' THEN 1 ELSE 0)
  <2>1. PutsNotified \in SUBSET Threads /\ PutsNotified' \in SUBSET Threads
    BY DEF PutsNotified
  <2>2. \A u \in Threads \ {t} : u \in PutsNotified' <=> u \in PutsNotified
    BY DEF PutsNotified, OthersKeepTheirs
  <2>3. QED
    BY <2>1, <2>2, CountWithOneChange
<1>7. PICK n1 \in 0 .. Size, e1 \in 0 .. MaxTokens, g1 \in Nat, p1 \in Nat :
        /\ n1 = usedCount' /\ e1 = eqCount'
        /\ g1 = Cardinality(GettersTrying') /\ p1 = Cardinality(PutsNotified')
  BY <1>4, <1>5, <1>6
<1>8. PICK n \in 0 .. Size, e \in 0 .. MaxTokens, g \in Nat, p \in Nat :
        /\ n = usedCount /\ e = eqCount
        /\ g = Cardinality(GettersTrying) /\ p = Cardinality(PutsNotified)
  BY <1>3, <1>5, <1>6
<1>9. PICK gBefore \in Nat, gAfter \in Nat, pBefore \in Nat, pAfter \in Nat :
        /\ gBefore = (IF t \in GettersTrying THEN 1 ELSE 0)
        /\ gAfter = (IF t \in GettersTrying' THEN 1 ELSE 0)
        /\ pBefore = (IF t \in PutsNotified THEN 1 ELSE 0)
        /\ pAfter = (IF t \in PutsNotified' THEN 1 ELSE 0)
  OBVIOUS
<1>10. /\ n <= e + g + p /\ g1 + gBefore = g + gAfter /\ p1 + pBefore = p + pAfter
       /\ n1 + e + gBefore + pBefore <= n + e1 + gAfter + pAfter
  BY <1>2, <1>3, <1>5, <1>6, <1>7, <1>8, <1>9
<1>11. n1 <= e1 + g1 + p1
  BY <1>10, SizeIsPositive, TokensSuffice
<1>12. QED
  BY <1>4, <1>7, <1>11

LEMMA BeginKeepsMatch ==
  ASSUME IInv, IInv', NoItemStranded, NEW t \in Threads, BeginPut(t) \/ BeginGet(t)
  PROVE  NoItemStranded'
<1>1. OthersKeepTheirs(t)
  BY StepOfOne
<1>2. CallTypes /\ pc[t] = "idle" /\ pc' = [pc EXCEPT ![t] = "try"]
      /\ UNCHANGED <<ring, eqVars>>
  BY DEF BeginPut, BeginGet, Goto, IInv, CallInv
<1>3. pc'[t] = "try" /\ usedCount' = usedCount /\ eqCount' = eqCount
  BY <1>2 DEF CallTypes, ring, eqVars
<1>4. t \notin GettersTrying /\ t \notin PutsNotified /\ t \notin PutsNotified' /\ ~WaitsForAnItem(t)'
  BY <1>2, <1>3 DEF GettersTrying, PutsNotified, WaitsForAnItem
<1>5. eqCount \in Nat /\ usedCount \in Nat
  BY NumbersInOrder
<1>6. QED
  BY <1>1, <1>3, <1>4, <1>5, StaysMatched

LEMMA TryPutKeepsMatch ==
  ASSUME IInv, IInv', NoItemStranded, NEW t \in Threads,
         TryEnqueue(t) \/ TryJam(t) \/ ForceEnqueue(t)
  PROVE  NoItemStranded'
<1>1. OthersKeepTheirs(t)
  BY StepOfOne DEF Step, Try
<1>2. CallTypes /\ pc[t] = "try" /\ op[t] \in Deque!Puts /\ op[t] \notin Deque!Take /\ eqPc[t] = "idle"
  <2>1. pc[t] = "try" /\ op[t] \in Deque!Puts
    BY DEF TryEnqueue, TryJam, ForceEnqueue, Deque!Puts, Deque!PutBack, Deque!PutFront
  <2>2. CallTypes /\ InSemaphore(t)
    BY DEF IInv, CallInv
  <2>3. QED
    BY <2>1, <2>2, Kinds DEF InSemaphore, Deque!Gets
<1>3. eqCount' = eqCount /\ eqPc' = eqPc /\ eqCount \in Nat /\ usedCount \in Nat
  BY NumbersInOrder DEF TryEnqueue, TryJam, ForceEnqueue, eqVars
<1>4. CASE Refused(t) /\ UNCHANGED usedCount
  <2>1. \/ op'[t] = op[t]
        \/ op'[t] = None
    BY <1>2, <1>4 DEF Refused, Finished, CallTypes, call
  <2>2. pc'[t] \in {"wait", "idle"}
    BY <1>2, <1>4 DEF Refused, Goto, CallTypes
  <2>3. op'[t] \notin Deque!Take
    BY <1>2, <2>1, Kinds DEF Deque!Gets
  <2>4. t \notin GettersTrying /\ t \notin PutsNotified /\ t \notin PutsNotified'
        /\ t \notin GettersTrying' /\ ~WaitsForAnItem(t)'
    BY <1>2, <2>2, <2>3 DEF GettersTrying, PutsNotified, WaitsForAnItem
  <2>5. QED
    BY <1>1, <1>3, <1>4, <2>4, StaysMatched
<1>5. CASE /\ pc' = [pc EXCEPT ![t] = "notify"] /\ UNCHANGED op
           /\ usedCount' = usedCount + 1 \/ usedCount' = usedCount
  <2>1. pc'[t] = "notify" /\ op'[t] = op[t]
    BY <1>2, <1>5 DEF CallTypes
  <2>2. t \notin GettersTrying /\ t \notin GettersTrying' /\ t \notin PutsNotified
        /\ t \in PutsNotified' /\ ~WaitsForAnItem(t)'
    BY <1>2, <1>3, <2>1 DEF GettersTrying, PutsNotified, WaitsForAnItem
  <2>3. usedCount' + eqCount + 0 + 0 <= usedCount + eqCount' + 0 + 1
    BY <1>3, <1>5
  <2>4. QED
    BY <1>1, <2>2, <2>3, StaysMatched
<1>6. QED
  BY <1>4, <1>5 DEF TryEnqueue, TryJam, ForceEnqueue, Store, Goto, Refused, ring

LEMMA TryGetKeepsMatch ==
  ASSUME IInv, IInv', NoItemStranded, NEW t \in Threads, TryDequeue(t) \/ TryGetFront(t)
  PROVE  NoItemStranded'
<1>1. OthersKeepTheirs(t)
  BY StepOfOne DEF Step, Try
<1>2. CallTypes /\ pc[t] = "try" /\ op[t] \in Deque!Gets /\ op[t] \notin Deque!Puts
  <2>1. pc[t] = "try" /\ op[t] \in Deque!Gets
    BY DEF TryDequeue, TryGetFront, Deque!Gets
  <2>2. QED
    BY <2>1, Kinds DEF IInv, CallInv
<1>3. eqCount' = eqCount /\ eqCount \in Nat /\ usedCount \in Nat
  BY NumbersInOrder DEF TryDequeue, TryGetFront, eqVars
<1>4. CASE 0 >= usedCount /\ UNCHANGED usedCount
  <2>1. usedCount' <= eqCount'
    BY <1>3, <1>4
  <2>2. QED
    BY <2>1, CoveredByTokens
<1>5. CASE /\ op[t] \in Deque!Take /\ usedCount' = usedCount - 1
           /\ pc' = [pc EXCEPT ![t] = "notify"] /\ UNCHANGED op
  <2>1. pc'[t] = "notify" /\ op'[t] = op[t]
    BY <1>2, <1>5 DEF CallTypes
  <2>2. t \in GettersTrying /\ t \notin GettersTrying' /\ t \notin PutsNotified
        /\ t \notin PutsNotified' /\ ~WaitsForAnItem(t)'
    BY <1>2, <1>5, <2>1 DEF GettersTrying, PutsNotified, WaitsForAnItem
  <2>3. usedCount' + eqCount + 1 + 0 <= usedCount + eqCount' + 0 + 0
    BY <1>3, <1>5
  <2>4. QED
    BY <1>1, <2>2, <2>3, StaysMatched
<1>6. CASE /\ op[t] \in Deque!Front /\ usedCount' = usedCount
           /\ pc' = [pc EXCEPT ![t] = "done"] /\ UNCHANGED op
  <2>1. pc'[t] = "done" /\ op'[t] = op[t] /\ op[t] \notin Deque!Take
    BY <1>2, <1>6 DEF CallTypes, Deque!Front, Deque!Take
  <2>2. t \notin GettersTrying /\ t \notin GettersTrying' /\ t \notin PutsNotified
        /\ t \notin PutsNotified' /\ ~WaitsForAnItem(t)'
    BY <1>2, <2>1 DEF GettersTrying, PutsNotified, WaitsForAnItem
  <2>3. QED
    BY <1>1, <1>3, <1>6, <2>2, StaysMatched
<1>7. QED
  BY <1>4, <1>5, <1>6 DEF TryDequeue, TryGetFront, Goto, Refused, ring

(* A put that notifies nobody leaves no getter behind: a getter that waits *)
(* has counted itself.                                                     *)
LEMMA NotifyKeepsMatch ==
  ASSUME IInv, IInv', NoItemStranded, NEW t \in Threads, Notify(t)
  PROVE  NoItemStranded'
<1>1. OthersKeepTheirs(t)
  BY StepOfOne DEF Step
<1>2. /\ CallTypes /\ InHand(t) /\ pc[t] = "notify"
      /\ UNCHANGED <<ring, waitCounts, eqVars, dqVars, call>>
  BY DEF IInv, CallInv, Notify
<1>3. usedCount' = usedCount /\ eqCount' = eqCount /\ eqPc' = eqPc /\ op' = op
      /\ eqCount \in Nat /\ usedCount \in Nat
  BY <1>2, NumbersInOrder DEF ring, eqVars, call
<1>4. pc'[t] \in {"release", "done"}
  BY <1>2 DEF Notify, Goto, CallTypes
<1>5. t \notin GettersTrying /\ t \notin GettersTrying' /\ ~WaitsForAnItem(t)'
  BY <1>2, <1>4 DEF GettersTrying, WaitsForAnItem
<1>6. CASE pc'[t] = "release" \/ op[t] \notin Deque!Puts
  <2>1. t \in PutsNotified' <=> t \in PutsNotified
    BY <1>2, <1>3, <1>6 DEF PutsNotified
  <2>2. QED
    BY <1>1, <1>3, <1>5, <2>1, StaysMatched
<1>7. CASE pc'[t] = "done" /\ op[t] \in Deque!Puts
  <2>1. ~(waitingEnqueueCount > 0)
    BY <1>2, <1>7 DEF Notify, Goto, CallTypes
  <2>2. BlockedGets = {}
    <3>1. BlockedGets \in SUBSET Threads
      BY DEF BlockedGets
    <3>2. IsFiniteSet(BlockedGets)
      BY <3>1, ThreadsFinite, FS_Subset
    <3>3. Cardinality(BlockedGets) \in Nat /\ (Cardinality(BlockedGets) = 0 <=> BlockedGets = {})
      BY <3>2, FS_CardinalityType, FS_EmptySet
    <3>4. QED
      BY <2>1, <3>3 DEF IInv, CountsAreExact
  <2>3. ASSUME NEW w \in Threads
        PROVE  ~WaitsForAnItem(w)'
    <3>1. CASE w = t
      BY <1>5, <3>1
    <3>2. CASE w # t
      <4>1. InHand(w)
        BY DEF IInv, CallInv
      <4>2. WaitsForAnItem(w)' => WaitsForAnItem(w)
        BY <1>1, <3>2 DEF OthersKeepTheirs, WaitsForAnItem
      <4>3. QED
        BY <2>2, <4>1, <4>2 DEF WaitsForAnItem, InHand, BlockedGets, Deque!Gets
    <3>3. QED
      BY <3>1, <3>2
  <2>4. QED
    BY <2>3 DEF NoItemStranded, WaitsForAnItem
<1>8. QED
  BY <1>4, <1>6, <1>7

(* A token is added for the item, or there are as many as can be, and no   *)
(* fewer than slots.                                                       *)
LEMMA ReleaseEnqueueSemaphoreKeepsMatch ==
  ASSUME IInv, IInv', NoItemStranded, NEW t \in Threads, ReleaseEnqueueSemaphore(t)
  PROVE  NoItemStranded'
<1>1. OthersKeepTheirs(t)
  BY StepOfOne DEF Step
<1>2. /\ CallTypes /\ pc[t] = "release" /\ op[t] \in Deque!Puts /\ op[t] \notin Deque!Take
      /\ Released(t, eqPc'[t]) /\ UNCHANGED <<ring, waitCounts, dqVars, call>>
  BY Kinds DEF IInv, CallInv, ReleaseEnqueueSemaphore, Deque!Gets
<1>3. usedCount' = usedCount /\ op' = op /\ eqCount \in Nat /\ usedCount \in Nat /\ usedCount <= MaxTokens
      /\ MaxTokens \in Nat /\ eqPc \in [Threads -> EqP!Places]
  BY <1>2, NumbersInOrder DEF ring, call
<1>4. pc'[t] = IF eqPc'[t] = "idle" THEN "done" ELSE "release"
  BY <1>2 DEF Released, Goto, CallTypes
<1>5. t \notin GettersTrying /\ t \notin GettersTrying' /\ ~WaitsForAnItem(t)' /\ t \notin PutsNotified'
  BY <1>2, <1>3, <1>4 DEF GettersTrying, WaitsForAnItem, PutsNotified
<1>6. CASE EnqueueSemaphore!Release(t, 1)
  <2>1. eqCount' = IF eqCount > MaxTokens - 1 THEN MaxTokens ELSE eqCount + 1
    BY <1>6 DEF EnqueueSemaphore!Release, EnqueueSemaphore!LimitedAdd
  <2>2. CASE eqCount > MaxTokens - 1
    <3>1. usedCount' <= eqCount'
      BY <1>3, <2>1, <2>2
    <3>2. QED
      BY <3>1, CoveredByTokens
  <2>3. CASE ~(eqCount > MaxTokens - 1)
    <3>1. eqCount' = eqCount + 1
      BY <2>1, <2>3
    <3>2. usedCount' + eqCount + 0 + (IF t \in PutsNotified THEN 1 ELSE 0)
            <= usedCount + eqCount' + 0 + 0
      BY <1>3, <3>1
    <3>3. QED
      BY <1>1, <1>5, <3>2, StaysMatched
  <2>4. QED
    BY <2>2, <2>3
<1>7. CASE EnqueueSemaphore!LookForWaiters(t) \/ EnqueueSemaphore!Signal(t)
  <2>1. eqCount' = eqCount /\ eqPc[t] # "idle"
    BY <1>7 DEF EnqueueSemaphore!LookForWaiters, EnqueueSemaphore!Signal
  <2>2. t \notin PutsNotified
    BY <2>1 DEF PutsNotified
  <2>3. QED
    BY <1>1, <1>3, <1>5, <2>1, <2>2, StaysMatched
<1>8. QED
  BY <1>6, <1>7 DEF ReleaseEnqueueSemaphore

(* Whoever takes a token tries.                                            *)
LEMMA AcquireEnqueueSemaphoreKeepsMatch ==
  ASSUME \A u \in Threads : "GetFront" \notin Calls[u],
         IInv, IInv', NoItemStranded, NEW t \in Threads, AcquireEnqueueSemaphore(t)
  PROVE  NoItemStranded'
<1>1. OthersKeepTheirs(t)
  BY StepOfOne DEF Step
<1>2. /\ CallTypes /\ InHand(t) /\ pc[t] = "wait" /\ op[t] \in Deque!Gets /\ op[t] \notin Deque!Puts
      /\ pc' = [pc EXCEPT ![t] = IF eqPc'[t] = "idle" THEN "try" ELSE "wait"]
      /\ UNCHANGED <<ring, holder, waitCounts, dqVars, call>>
  BY Kinds DEF IInv, CallInv, AcquireEnqueueSemaphore, Goto
<1>3. op[t] \in Deque!Take
  <2>1. op[t] \in Deque!Blocking /\ op[t] \in Calls[t] /\ op[t] # "GetFront"
    BY <1>2 DEF InHand
  <2>2. QED
    BY <1>2, <2>1 DEF Deque!Blocking, Deque!Gets, Deque!Take, Deque!Front
<1>4. usedCount' = usedCount /\ op' = op /\ eqCount \in Nat /\ usedCount \in Nat
      /\ eqPc \in [Threads -> EqP!Places]
  BY <1>2, NumbersInOrder DEF ring, call
<1>5. pc'[t] = IF eqPc'[t] = "idle" THEN "try" ELSE "wait"
  BY <1>2 DEF CallTypes
<1>6. /\ t \notin PutsNotified /\ t \notin PutsNotified' /\ t \notin GettersTrying /\ WaitsForAnItem(t)
      /\ t \in GettersTrying' <=> eqPc'[t] = "idle"
  BY <1>2, <1>3, <1>4, <1>5 DEF PutsNotified, GettersTrying, WaitsForAnItem
<1>7. CASE eqCount' = eqCount - 1 /\ eqPc'[t] = "idle"
  <2>1. usedCount' + eqCount + 0 + 0 <= usedCount + eqCount' + 1 + 0
    BY <1>4, <1>7
  <2>2. QED
    BY <1>1, <1>6, <1>7, <2>1, StaysMatched
<1>8. CASE eqCount' = eqCount
  <2>1. usedCount' + eqCount + 0 + 0
          <= usedCount + eqCount' + (IF t \in GettersTrying' THEN 1 ELSE 0) + 0
    BY <1>4, <1>8
  <2>2. QED
    BY <1>1, <1>6, <2>1, StaysMatched
<1>9. QED
  BY <1>4, <1>7, <1>8 DEF AcquireEnqueueSemaphore, EnqueueSemaphore!Acquire, EnqueueSemaphore!Announce,
     EnqueueSemaphore!Wait, EnqueueSemaphore!Withdraw, EnqueueSemaphore!DecrementIfPositive,
     EnqueueSemaphore!Goto

LEMMA DequeueSemaphoreKeepsMatch ==
  ASSUME IInv, IInv', NoItemStranded, NEW t \in Threads,
         ReleaseDequeueSemaphore(t) \/ AcquireDequeueSemaphore(t)
  PROVE  NoItemStranded'
<1>1. OthersKeepTheirs(t)
  BY StepOfOne DEF Step
<1>2. /\ CallTypes /\ UNCHANGED <<ring, eqVars, call>>
      /\ \/ pc[t] = "release" /\ op[t] \in Deque!Gets /\ pc'[t] \in {"release", "done"}
         \/ pc[t] = "wait" /\ op[t] \in Deque!Puts /\ pc'[t] \in {"wait", "try"}
  <2>1. CallTypes
    BY DEF IInv, CallInv
  <2>2. QED
    BY <2>1 DEF ReleaseDequeueSemaphore, AcquireDequeueSemaphore, Released, Goto, CallTypes
<1>3. usedCount' = usedCount /\ eqCount' = eqCount /\ eqPc' = eqPc /\ op' = op
      /\ eqCount \in Nat /\ usedCount \in Nat
  BY <1>2, NumbersInOrder DEF ring, eqVars, call
<1>4. op[t] \in Deque!Puts => op[t] \notin Deque!Take /\ op[t] \notin Deque!Gets
  BY Kinds DEF Deque!Gets
<1>5. t \notin GettersTrying /\ t \notin GettersTrying' /\ ~WaitsForAnItem(t)'
      /\ t \notin PutsNotified /\ t \notin PutsNotified'
  BY <1>2, <1>3, <1>4 DEF GettersTrying, PutsNotified, WaitsForAnItem
<1>6. QED
  BY <1>1, <1>3, <1>5, StaysMatched

LEMMA DoneKeepsMatch ==
  ASSUME IInv, IInv', NoItemStranded, NEW t \in Threads, Done(t)
  PROVE  NoItemStranded'
<1>1. OthersKeepTheirs(t)
  BY StepOfOne DEF Step
<1>2. /\ CallTypes /\ pc[t] = "done" /\ pc' = [pc EXCEPT ![t] = "idle"]
      /\ UNCHANGED <<ring, eqVars>>
  BY DEF IInv, CallInv, Done, Goto
<1>3. pc'[t] = "idle" /\ usedCount' = usedCount /\ eqCount' = eqCount
      /\ eqCount \in Nat /\ usedCount \in Nat
  BY <1>2, NumbersInOrder DEF CallTypes, ring, eqVars
<1>4. t \notin GettersTrying /\ t \notin GettersTrying' /\ ~WaitsForAnItem(t)'
      /\ t \notin PutsNotified /\ t \notin PutsNotified'
  BY <1>2, <1>3 DEF GettersTrying, PutsNotified, WaitsForAnItem
<1>5. QED
  BY <1>1, <1>3, <1>4, StaysMatched

(* While nobody calls GetFront, no item is left lying: as long as a caller *)
(* of Dequeue waits, every item has a token, a getter about to try or a    *)
(* putter about to release a token to answer for it.  With GetFront the    *)
(* promise does not hold: it takes a token and leaves the item.            *)
THEOREM ItemsReachGetters ==
  ASSUME \A t \in Threads : "GetFront" \notin Calls[t]
  PROVE  Spec => []NoItemStranded
<1>1. ASSUME Init
      PROVE  NoItemStranded
  BY <1>1 DEF Init, NoItemStranded
<1>2. ASSUME IInv, IInv', NoItemStranded, [Next]_vars
      PROVE  NoItemStranded'
  <2>1. CASE UNCHANGED vars
    BY <1>2, <2>1 DEF vars, ring, call, eqVars, NoItemStranded, NumGettersTrying, NumPutsNotified
  <2>2. ASSUME NEW t \in Threads, BeginPut(t) \/ BeginGet(t)
        PROVE  NoItemStranded'
    BY <1>2, <2>2, BeginKeepsMatch
  <2>3. ASSUME NEW t \in Threads, Step(t)
        PROVE  NoItemStranded'
    BY <1>2, <2>3, TryPutKeepsMatch, TryGetKeepsMatch, NotifyKeepsMatch, DoneKeepsMatch,
       ReleaseEnqueueSemaphoreKeepsMatch, AcquireEnqueueSemaphoreKeepsMatch,
       DequeueSemaphoreKeepsMatch DEF Step, Try
  <2>4. QED
    BY <1>2, <2>1, <2>2, <2>3 DEF Next
<1>3. QED
  BY <1>1, <1>2, IInvCorrect, PTL DEF Spec

-----------------------------------------------------------------------------
(* No free slot is left to itself.  While a caller that found the queue    *)
(* full still waits for the semaphore, every free slot is matched by a     *)
(* token in the semaphore, by a blocking putter that is about to try, or   *)
(* by a getter that is about to release a token.                           *)
PuttersTrying  == {t \in Threads : op[t] \in Deque!Puts \cap Deque!Blocking /\ pc[t] = "try"}
TakesNotified  == {t \in Threads : /\ op[t] \in Deque!Gets
                                   /\ pc[t] \in {"notify", "release"}
                                   /\ dqPc[t] = "idle"}
WaitsForASlot(t) == op[t] \in Deque!Puts /\ pc[t] = "wait"

NoSlotStranded ==
  (\E t \in Threads : WaitsForASlot(t)) =>
    Size - usedCount <= dqCount + Cardinality(PuttersTrying) + Cardinality(TakesNotified)

LEMMA SlotNumbersAreNat ==
  ASSUME IInv
  PROVE  /\ Cardinality(PuttersTrying) \in Nat /\ Cardinality(TakesNotified) \in Nat
         /\ dqCount \in 0 .. MaxTokens /\ usedCount \in 0 .. Size
<1>1. PuttersTrying \in SUBSET Threads /\ TakesNotified \in SUBSET Threads
  BY DEF PuttersTrying, TakesNotified
<1>2. Cardinality(PuttersTrying) \in Nat /\ Cardinality(TakesNotified) \in Nat
  BY <1>1, ThreadsFinite, FS_Subset, FS_CardinalityType
<1>3. QED
  BY <1>2 DEF IInv, RingInv, DqP!IInv, DqP!TypeInv

LEMMA SlotNumbersAreNatNext ==
  ASSUME IInv'
  PROVE  /\ Cardinality(PuttersTrying') \in Nat /\ Cardinality(TakesNotified') \in Nat
         /\ dqCount' \in 0 .. MaxTokens /\ usedCount' \in 0 .. Size
<1>1. PuttersTrying' \in SUBSET Threads /\ TakesNotified' \in SUBSET Threads
  BY DEF PuttersTrying, TakesNotified
<1>2. Cardinality(PuttersTrying') \in Nat /\ Cardinality(TakesNotified') \in Nat
  BY <1>1, ThreadsFinite, FS_Subset, FS_CardinalityType
<1>3. QED
  BY <1>2 DEF IInv, RingInv, DqP!IInv, DqP!TypeInv

(* Tokens alone cover the slots.                                           *)
LEMMA SlotsCoveredByTokens ==
  ASSUME IInv', Size - usedCount' <= dqCount'
  PROVE  NoSlotStranded'
<1>1. PICK n \in 0 .. Size, d \in 0 .. MaxTokens, g \in Nat, p \in Nat :
        /\ n = usedCount' /\ d = dqCount'
        /\ g = Cardinality(PuttersTrying') /\ p = Cardinality(TakesNotified')
  BY SlotNumbersAreNatNext
<1>2. Size - n <= d
  BY <1>1
<1>3. Size - n <= d + g + p
  BY ONLY <1>2, SizeIsPositive, TokensSuffice
<1>4. Size - usedCount' <= dqCount' + Cardinality(PuttersTrying') + Cardinality(TakesNotified')
  BY <1>1, <1>3
<1>5. QED
  BY <1>4 DEF NoSlotStranded

(* What a step of t adds to the tokens and to the callers about to try or  *)
(* to release makes up for what it takes from the items.                   *)
LEMMA SlotsStayMatched ==
  ASSUME IInv, IInv', NoSlotStranded, NEW t \in Threads, OthersKeepTheirs(t),
         WaitsForASlot(t)' => WaitsForASlot(t),
         usedCount + dqCount
             + (IF t \in PuttersTrying THEN 1 ELSE 0) + (IF t \in TakesNotified THEN 1 ELSE 0)
           <= usedCount' + dqCount'
             + (IF t \in PuttersTrying' THEN 1 ELSE 0) + (IF t \in TakesNotified' THEN 1 ELSE 0)
  PROVE  NoSlotStranded'
<1> SUFFICES ASSUME NEW w \in Threads, WaitsForASlot(w)'
             PROVE  Size - usedCount'
                      <= dqCount' + Cardinality(PuttersTrying') + Cardinality(TakesNotified')
  BY DEF NoSlotStranded
<1>1. WaitsForASlot(w)
  BY DEF OthersKeepTheirs, WaitsForASlot
<1>2. Size - usedCount <= dqCount + Cardinality(PuttersTrying) + Cardinality(TakesNotified)
  BY <1>1 DEF NoSlotStranded
<1>3. dqCount \in 0 .. MaxTokens /\ usedCount \in 0 .. Size
      /\ dqCount' \in 0 .. MaxTokens /\ usedCount' \in 0 .. Size
  BY SlotNumbersAreNat, SlotNumbersAreNatNext
<1>4. /\ Cardinality(PuttersTrying) \in Nat /\ Cardinality(PuttersTrying') \in Nat
      /\ Cardinality(PuttersTrying') + (IF t \in PuttersTrying THEN 1 ELSE 0)
           = Cardinality(PuttersTrying) + (IF t \in PuttersTrying' THEN 1 ELSE 0)
  <2>1. PuttersTrying \in SUBSET Threads /\ PuttersTrying' \in SUBSET Threads
    BY DEF PuttersTrying
  <2>2. \A u \in Threads \ {t} : u \in PuttersTrying' <=> u \in PuttersTrying
    BY DEF PuttersTrying, OthersKeepTheirs
  <2>3. QED
    BY <2>1, <2>2, CountWithOneChange
<1>5. /\ Cardinality(TakesNotified) \in Nat /\ Cardinality(TakesNotified') \in Nat
      /\ Cardinality(TakesNotified') + (IF t \in TakesNotified THEN 1 ELSE 0)
           = Cardinality(TakesNotified) + (IF t \in TakesNotified' THEN 1 ELSE 0)
  <2>1. TakesNotified \in SUBSET Threads /\ TakesNotified' \in SUBSET Threads
    BY DEF TakesNotified
  <2>2. \A u \in Threads \ {t} : u \in TakesNotified' <=> u \in TakesNotified
    BY DEF TakesNotified, OthersKeepTheirs
  <2>3. QED
    BY <2>1, <2>2, CountWithOneChange
<1>6. PICK n1 \in 0 .. Size, d1 \in 0 .. MaxTokens, g1 \in Nat, p1 \in Nat :
        /\ n1 = usedCount' /\ d1 = dqCount'
        /\ g1 = Cardinality(PuttersTrying') /\ p1 = Cardinality(TakesNotified')
  BY <1>3, <1>4, <1>5
<1>7. PICK n \in 0 .. Size, d \in 0 .. MaxTokens, g \in Nat, p \in Nat :
        /\ n = usedCount /\ d = dqCount
        /\ g = Cardinality(PuttersTrying) /\ p = Cardinality(TakesNotified)
  BY <1>3, <1>4, <1>5
<1>8. PICK gBefore \in Nat, gAfter \in Nat, pBefore \in Nat, pAfter \in Nat :
        /\ gBefore = (IF t \in PuttersTrying THEN 1 ELSE 0)
        /\ gAfter = (IF t \in PuttersTrying' THEN 1 ELSE 0)
        /\ pBefore = (IF t \in TakesNotified THEN 1 ELSE 0)
        /\ pAfter = (IF t \in TakesNotified' THEN 1 ELSE 0)
  OBVIOUS
<1>9. /\ Size - n <= d + g + p /\ g1 + gBefore = g + gAfter /\ p1 + pBefore = p + pAfter
      /\ n + d + gBefore + pBefore <= n1 + d1 + gAfter + pAfter
  BY <1>2, <1>4, <1>5, <1>6, <1>7, <1>8
<1>10. Size - n1 <= d1 + g1 + p1
  BY <1>9, SizeIsPositive, TokensSuffice
<1>11. QED
  BY <1>6, <1>10

LEMMA BeginKeepsSlots ==
  ASSUME IInv, IInv', NoSlotStranded, NEW t \in Threads, BeginPut(t) \/ BeginGet(t)
  PROVE  NoSlotStranded'
<1>1. OthersKeepTheirs(t)
  BY StepOfOne
<1>2. CallTypes /\ pc[t] = "idle" /\ pc' = [pc EXCEPT ![t] = "try"]
      /\ UNCHANGED <<ring, dqVars>>
  BY DEF BeginPut, BeginGet, Goto, IInv, CallInv
<1>3. pc'[t] = "try" /\ usedCount' = usedCount /\ dqCount' = dqCount
  BY <1>2 DEF CallTypes, ring, dqVars
<1>4. t \notin PuttersTrying /\ t \notin TakesNotified /\ t \notin TakesNotified' /\ ~WaitsForASlot(t)'
  BY <1>2, <1>3 DEF PuttersTrying, TakesNotified, WaitsForASlot
<1>5. dqCount \in Nat /\ usedCount \in Nat
  BY NumbersInOrder
<1>6. QED
  BY <1>1, <1>3, <1>4, <1>5, SlotsStayMatched

LEMMA TryPutKeepsSlots ==
  ASSUME IInv, IInv', NoSlotStranded, NEW t \in Threads,
         TryEnqueue(t) \/ TryJam(t) \/ ForceEnqueue(t)
  PROVE  NoSlotStranded'
<1>1. OthersKeepTheirs(t)
  BY StepOfOne DEF Step, Try
<1>2. CallTypes /\ pc[t] = "try" /\ op[t] \in Deque!Puts /\ op[t] \notin Deque!Gets
  <2>1. pc[t] = "try" /\ op[t] \in Deque!Puts
    BY DEF TryEnqueue, TryJam, ForceEnqueue, Deque!Puts, Deque!PutBack, Deque!PutFront
  <2>2. QED
    BY <2>1, Kinds DEF IInv, CallInv
<1>3. dqCount' = dqCount /\ dqCount \in Nat /\ usedCount \in Nat /\ usedCount <= Size
  BY NumbersInOrder DEF TryEnqueue, TryJam, ForceEnqueue, dqVars
<1>4. CASE Size <= usedCount /\ UNCHANGED usedCount
  <2>1. Size - usedCount' <= dqCount'
    BY <1>3, <1>4, SizeIsPositive
  <2>2. QED
    BY <2>1, SlotsCoveredByTokens
<1>5. CASE pc' = [pc EXCEPT ![t] = "notify"] /\ UNCHANGED op /\ usedCount' = usedCount + 1
  <2>1. pc'[t] = "notify" /\ op'[t] = op[t]
    BY <1>2, <1>5 DEF CallTypes
  <2>2. t \notin PuttersTrying' /\ t \notin TakesNotified
        /\ t \notin TakesNotified' /\ ~WaitsForASlot(t)'
    BY <1>2, <2>1 DEF PuttersTrying, TakesNotified, WaitsForASlot
  <2>3. usedCount + dqCount + (IF t \in PuttersTrying THEN 1 ELSE 0) + 0
          <= usedCount' + dqCount' + 0 + 0
    BY <1>3, <1>5
  <2>4. QED
    BY <1>1, <2>2, <2>3, SlotsStayMatched
<1>6. QED
  BY <1>4, <1>5 DEF TryEnqueue, TryJam, ForceEnqueue, Store, Goto, Refused, ring

LEMMA TryGetKeepsSlots ==
  ASSUME IInv, IInv', NoSlotStranded, NEW t \in Threads, TryDequeue(t) \/ TryGetFront(t)
  PROVE  NoSlotStranded'
<1>1. OthersKeepTheirs(t)
  BY StepOfOne DEF Step, Try
<1>2. CallTypes /\ pc[t] = "try" /\ op[t] \in Deque!Gets /\ op[t] \notin Deque!Puts /\ dqPc[t] = "idle"
  <2>1. pc[t] = "try" /\ op[t] \in Deque!Gets
    BY DEF TryDequeue, TryGetFront, Deque!Gets
  <2>2. CallTypes /\ InSemaphore(t)
    BY DEF IInv, CallInv
  <2>3. QED
    BY <2>1, <2>2, Kinds DEF InSemaphore
<1>3. dqCount' = dqCount /\ dqPc' = dqPc /\ dqCount \in Nat /\ usedCount \in Nat
  BY NumbersInOrder DEF TryDequeue, TryGetFront, dqVars
<1>4. CASE Refused(t) /\ UNCHANGED usedCount
  <2>1. \/ op'[t] = op[t]
        \/ op'[t] = None
    BY <1>2, <1>4 DEF Refused, Finished, CallTypes, call
  <2>2. pc'[t] \in {"wait", "idle"}
    BY <1>2, <1>4 DEF Refused, Goto, CallTypes
  <2>3. op'[t] \notin Deque!Puts
    BY <1>2, <2>1, Kinds
  <2>4. t \notin PuttersTrying /\ t \notin TakesNotified /\ t \notin TakesNotified'
        /\ t \notin PuttersTrying' /\ ~WaitsForASlot(t)'
    BY <1>2, <2>2, <2>3 DEF PuttersTrying, TakesNotified, WaitsForASlot
  <2>5. QED
    BY <1>1, <1>3, <1>4, <2>4, SlotsStayMatched
<1>5. CASE /\ usedCount' = usedCount - 1
           /\ pc' = [pc EXCEPT ![t] = "notify"] /\ UNCHANGED op
  <2>1. pc'[t] = "notify" /\ op'[t] = op[t]
    BY <1>2, <1>5 DEF CallTypes
  <2>2. t \notin PuttersTrying /\ t \notin PuttersTrying' /\ t \notin TakesNotified
        /\ t \in TakesNotified' /\ ~WaitsForASlot(t)'
    BY <1>2, <1>3, <2>1 DEF PuttersTrying, TakesNotified, WaitsForASlot
  <2>3. usedCount + dqCount + 0 + 0 <= usedCount' + dqCount' + 0 + 1
    BY <1>3, <1>5
  <2>4. QED
    BY <1>1, <2>2, <2>3, SlotsStayMatched
<1>6. CASE /\ usedCount' = usedCount
           /\ pc' = [pc EXCEPT ![t] = "done"] /\ UNCHANGED op
  <2>1. pc'[t] = "done" /\ op'[t] = op[t]
    BY <1>2, <1>6 DEF CallTypes
  <2>2. t \notin PuttersTrying /\ t \notin PuttersTrying' /\ t \notin TakesNotified
        /\ t \notin TakesNotified' /\ ~WaitsForASlot(t)'
    BY <1>2, <2>1 DEF PuttersTrying, TakesNotified, WaitsForASlot
  <2>3. QED
    BY <1>1, <1>3, <1>6, <2>2, SlotsStayMatched
<1>7. QED
  BY <1>4, <1>5, <1>6 DEF TryDequeue, TryGetFront, Goto, Refused, ring

(* A take that notifies nobody leaves no putter behind: a putter that      *)
(* waits has counted itself.                                               *)
LEMMA NotifyKeepsSlots ==
  ASSUME IInv, IInv', NoSlotStranded, NEW t \in Threads, Notify(t)
  PROVE  NoSlotStranded'
<1>1. OthersKeepTheirs(t)
  BY StepOfOne DEF Step
<1>2. /\ CallTypes /\ InHand(t) /\ pc[t] = "notify"
      /\ UNCHANGED <<ring, waitCounts, eqVars, dqVars, call>>
  BY DEF IInv, CallInv, Notify
<1>3. usedCount' = usedCount /\ dqCount' = dqCount /\ dqPc' = dqPc /\ op' = op
      /\ dqCount \in Nat /\ usedCount \in Nat
  BY <1>2, NumbersInOrder DEF ring, dqVars, call
<1>4. pc'[t] \in {"release", "done"}
  BY <1>2 DEF Notify, Goto, CallTypes
<1>5. t \notin PuttersTrying /\ t \notin PuttersTrying' /\ ~WaitsForASlot(t)'
  BY <1>2, <1>4 DEF PuttersTrying, WaitsForASlot
<1>6. CASE pc'[t] = "release" \/ op[t] \notin Deque!Gets
  <2>1. t \in TakesNotified' <=> t \in TakesNotified
    BY <1>2, <1>3, <1>6 DEF TakesNotified
  <2>2. QED
    BY <1>1, <1>3, <1>5, <2>1, SlotsStayMatched
<1>7. CASE pc'[t] = "done" /\ op[t] \in Deque!Gets
  <2>1. ~(waitingDequeueCount > 0)
    BY <1>2, <1>7, Kinds DEF Notify, Goto, CallTypes
  <2>2. BlockedPuts = {}
    <3>1. BlockedPuts \in SUBSET Threads
      BY DEF BlockedPuts
    <3>2. IsFiniteSet(BlockedPuts)
      BY <3>1, ThreadsFinite, FS_Subset
    <3>3. Cardinality(BlockedPuts) \in Nat /\ (Cardinality(BlockedPuts) = 0 <=> BlockedPuts = {})
      BY <3>2, FS_CardinalityType, FS_EmptySet
    <3>4. QED
      BY <2>1, <3>3 DEF IInv, CountsAreExact
  <2>3. ASSUME NEW w \in Threads
        PROVE  ~WaitsForASlot(w)'
    <3>1. CASE w = t
      BY <1>5, <3>1
    <3>2. CASE w # t
      <4>1. InHand(w)
        BY DEF IInv, CallInv
      <4>2. WaitsForASlot(w)' => WaitsForASlot(w)
        BY <1>1, <3>2 DEF OthersKeepTheirs, WaitsForASlot
      <4>3. QED
        BY <2>2, <4>1, <4>2 DEF WaitsForASlot, InHand, BlockedPuts
    <3>3. QED
      BY <3>1, <3>2
  <2>4. QED
    BY <2>3 DEF NoSlotStranded
<1>8. QED
  BY <1>4, <1>6, <1>7

(* A token is added for the slot, or there are as many as can be, and no   *)
(* fewer than slots.                                                       *)
LEMMA ReleaseDequeueSemaphoreKeepsSlots ==
  ASSUME IInv, IInv', NoSlotStranded, NEW t \in Threads, ReleaseDequeueSemaphore(t)
  PROVE  NoSlotStranded'
<1>1. OthersKeepTheirs(t)
  BY StepOfOne DEF Step
<1>2. /\ CallTypes /\ pc[t] = "release" /\ op[t] \in Deque!Gets /\ op[t] \notin Deque!Puts
      /\ Released(t, dqPc'[t]) /\ UNCHANGED <<ring, waitCounts, eqVars, call>>
  BY Kinds DEF IInv, CallInv, ReleaseDequeueSemaphore
<1>3. usedCount' = usedCount /\ op' = op /\ dqCount \in Nat /\ usedCount \in Nat
      /\ MaxTokens \in Nat /\ Size \in Nat /\ Size <= MaxTokens /\ dqPc \in [Threads -> DqP!Places]
  BY <1>2, NumbersInOrder DEF ring, call
<1>4. pc'[t] = IF dqPc'[t] = "idle" THEN "done" ELSE "release"
  BY <1>2 DEF Released, Goto, CallTypes
<1>5. t \notin PuttersTrying /\ t \notin PuttersTrying' /\ ~WaitsForASlot(t)' /\ t \notin TakesNotified'
  BY <1>2, <1>3, <1>4 DEF PuttersTrying, WaitsForASlot, TakesNotified
<1>6. CASE DequeueSemaphore!Release(t, 1)
  <2>1. dqCount' = IF dqCount > MaxTokens - 1 THEN MaxTokens ELSE dqCount + 1
    BY <1>6 DEF DequeueSemaphore!Release, DequeueSemaphore!LimitedAdd
  <2>2. CASE dqCount > MaxTokens - 1
    <3>1. Size - usedCount' <= dqCount'
      BY <1>3, <2>1, <2>2
    <3>2. QED
      BY <3>1, SlotsCoveredByTokens
  <2>3. CASE ~(dqCount > MaxTokens - 1)
    <3>1. dqCount' = dqCount + 1
      BY <2>1, <2>3
    <3>2. usedCount + dqCount + 0 + (IF t \in TakesNotified THEN 1 ELSE 0)
            <= usedCount' + dqCount' + 0 + 0
      BY <1>3, <3>1
    <3>3. QED
      BY <1>1, <1>5, <3>2, SlotsStayMatched
  <2>4. QED
    BY <2>2, <2>3
<1>7. CASE DequeueSemaphore!LookForWaiters(t) \/ DequeueSemaphore!Signal(t)
  <2>1. dqCount' = dqCount /\ dqPc[t] # "idle"
    BY <1>7 DEF DequeueSemaphore!LookForWaiters, DequeueSemaphore!Signal
  <2>2. t \notin TakesNotified
    BY <2>1 DEF TakesNotified
  <2>3. QED
    BY <1>1, <1>3, <1>5, <2>1, <2>2, SlotsStayMatched
<1>8. QED
  BY <1>6, <1>7 DEF ReleaseDequeueSemaphore

(* Whoever takes a token tries.                                            *)
LEMMA AcquireDequeueSemaphoreKeepsSlots ==
  ASSUME IInv, IInv', NoSlotStranded, NEW t \in Threads, AcquireDequeueSemaphore(t)
  PROVE  NoSlotStranded'
<1>1. OthersKeepTheirs(t)
  BY StepOfOne DEF Step
<1>2. /\ CallTypes /\ InHand(t) /\ pc[t] = "wait" /\ op[t] \in Deque!Puts /\ op[t] \notin Deque!Gets
      /\ pc' = [pc EXCEPT ![t] = IF dqPc'[t] = "idle" THEN "try" ELSE "wait"]
      /\ UNCHANGED <<ring, holder, waitCounts, eqVars, call>>
  BY Kinds DEF IInv, CallInv, AcquireDequeueSemaphore, Goto
<1>3. op[t] \in Deque!Puts \cap Deque!Blocking
  BY <1>2 DEF InHand
<1>4. usedCount' = usedCount /\ op' = op /\ dqCount \in Nat /\ usedCount \in Nat
      /\ dqPc \in [Threads -> DqP!Places]
  BY <1>2, NumbersInOrder DEF ring, call
<1>5. pc'[t] = IF dqPc'[t] = "idle" THEN "try" ELSE "wait"
  BY <1>2 DEF CallTypes
<1>6. /\ t \notin TakesNotified /\ t \notin TakesNotified' /\ t \notin PuttersTrying /\ WaitsForASlot(t)
      /\ t \in PuttersTrying' <=> dqPc'[t] = "idle"
  BY <1>2, <1>3, <1>4, <1>5 DEF TakesNotified, PuttersTrying, WaitsForASlot
<1>7. CASE dqCount' = dqCount - 1 /\ dqPc'[t] = "idle"
  <2>1. usedCount + dqCount + 0 + 0 <= usedCount' + dqCount' + 1 + 0
    BY <1>4, <1>7
  <2>2. QED
    BY <1>1, <1>6, <1>7, <2>1, SlotsStayMatched
<1>8. CASE dqCount' = dqCount
  <2>1. usedCount + dqCount + 0 + 0
          <= usedCount' + dqCount' + (IF t \in PuttersTrying' THEN 1 ELSE 0) + 0
    BY <1>4, <1>8
  <2>2. QED
    BY <1>1, <1>6, <2>1, SlotsStayMatched
<1>9. QED
  BY <1>4, <1>7, <1>8 DEF AcquireDequeueSemaphore, DequeueSemaphore!Acquire, DequeueSemaphore!Announce,
     DequeueSemaphore!Wait, DequeueSemaphore!Withdraw, DequeueSemaphore!DecrementIfPositive,
     DequeueSemaphore!Goto

LEMMA EnqueueSemaphoreKeepsSlots ==
  ASSUME IInv, IInv', NoSlotStranded, NEW t \in Threads,
         ReleaseEnqueueSemaphore(t) \/ AcquireEnqueueSemaphore(t)
  PROVE  NoSlotStranded'
<1>1. OthersKeepTheirs(t)
  BY StepOfOne DEF Step
<1>2. /\ CallTypes /\ UNCHANGED <<ring, dqVars, call>>
      /\ \/ pc[t] = "release" /\ op[t] \in Deque!Puts /\ pc'[t] \in {"release", "done"}
         \/ pc[t] = "wait" /\ op[t] \in Deque!Gets /\ pc'[t] \in {"wait", "try"}
  <2>1. CallTypes
    BY DEF IInv, CallInv
  <2>2. QED
    BY <2>1 DEF ReleaseEnqueueSemaphore, AcquireEnqueueSemaphore, Released, Goto, CallTypes
<1>3. usedCount' = usedCount /\ dqCount' = dqCount /\ dqPc' = dqPc /\ op' = op
      /\ dqCount \in Nat /\ usedCount \in Nat
  BY <1>2, NumbersInOrder DEF ring, dqVars, call
<1>4. op[t] \in Deque!Puts => op[t] \notin Deque!Gets
  BY Kinds
<1>5. t \notin PuttersTrying /\ t \notin PuttersTrying' /\ ~WaitsForASlot(t)'
      /\ t \notin TakesNotified /\ t \notin TakesNotified'
  BY <1>2, <1>3, <1>4 DEF PuttersTrying, TakesNotified, WaitsForASlot
<1>6. QED
  BY <1>1, <1>3, <1>5, SlotsStayMatched

LEMMA DoneKeepsSlots ==
  ASSUME IInv, IInv', NoSlotStranded, NEW t \in Threads, Done(t)
  PROVE  NoSlotStranded'
<1>1. OthersKeepTheirs(t)
  BY StepOfOne DEF Step
<1>2. /\ CallTypes /\ pc[t] = "done" /\ pc' = [pc EXCEPT ![t] = "idle"]
      /\ UNCHANGED <<ring, dqVars>>
  BY DEF IInv, CallInv, Done, Goto
<1>3. pc'[t] = "idle" /\ usedCount' = usedCount /\ dqCount' = dqCount
      /\ dqCount \in Nat /\ usedCount \in Nat
  BY <1>2, NumbersInOrder DEF CallTypes, ring, dqVars
<1>4. t \notin PuttersTrying /\ t \notin PuttersTrying' /\ ~WaitsForASlot(t)'
      /\ t \notin TakesNotified /\ t \notin TakesNotified'
  BY <1>2, <1>3 DEF PuttersTrying, TakesNotified, WaitsForASlot
<1>5. QED
  BY <1>1, <1>3, <1>4, SlotsStayMatched

(* No free slot is left to itself, whatever the calls: as long as a caller *)
(* of Enqueue or Jam waits, every free slot has a token, a blocking putter *)
(* about to try, or a getter about to release a token to answer for it.    *)
(* ForceEnqueue fills a slot and takes no token, which can only leave more *)
(* tokens than there are slots.                                            *)
THEOREM SlotsReachPutters == Spec => []NoSlotStranded
<1>1. ASSUME Init
      PROVE  NoSlotStranded
  BY <1>1 DEF Init, NoSlotStranded, WaitsForASlot
<1>2. ASSUME IInv, IInv', NoSlotStranded, [Next]_vars
      PROVE  NoSlotStranded'
  <2>1. CASE UNCHANGED vars
    BY <1>2, <2>1 DEF vars, ring, call, dqVars, NoSlotStranded, WaitsForASlot, PuttersTrying,
       TakesNotified
  <2>2. ASSUME NEW t \in Threads, BeginPut(t) \/ BeginGet(t)
        PROVE  NoSlotStranded'
    BY <1>2, <2>2, BeginKeepsSlots
  <2>3. ASSUME NEW t \in Threads, Step(t)
        PROVE  NoSlotStranded'
    BY <1>2, <2>3, TryPutKeepsSlots, TryGetKeepsSlots, NotifyKeepsSlots, DoneKeepsSlots,
       ReleaseDequeueSemaphoreKeepsSlots, AcquireDequeueSemaphoreKeepsSlots,
       EnqueueSemaphoreKeepsSlots DEF Step, Try
  <2>4. QED
    BY <1>2, <2>1, <2>2, <2>3 DEF Next
<1>3. QED
  BY <1>1, <1>2, IInvCorrect, PTL DEF Spec

-----------------------------------------------------------------------------
(* The queue uses its semaphores as they are meant to be used.             *)
LEMMA SemaphoresTakeTheirSteps == Spec => EqP!Spec /\ DqP!Spec
<1>1. Init => EqP!Init /\ DqP!Init
  BY DEF Init, EnqueueSemaphore!Init, EqP!Init, DequeueSemaphore!Init, DqP!Init
<1>2. [Next]_vars => [EqP!Next]_(EqP!vars) /\ [DqP!Next]_(DqP!vars)
  <2> SUFFICES ASSUME [Next]_vars
               PROVE  (EqP!Next \/ UNCHANGED eqVars) /\ (DqP!Next \/ UNCHANGED dqVars)
    BY DEF EqP!vars, DqP!vars, eqVars, dqVars
  <2>1. CASE UNCHANGED vars
    BY <2>1 DEF vars
  <2>2. ASSUME NEW t \in Threads, BeginPut(t) \/ BeginGet(t) \/ Try(t) \/ Notify(t) \/ Done(t)
        PROVE  UNCHANGED <<eqVars, dqVars>>
    BY <2>2 DEF BeginPut, BeginGet, Try, TryEnqueue, TryJam, ForceEnqueue, TryDequeue, TryGetFront,
       Notify, Done
  <2>3. ASSUME NEW t \in Threads, ReleaseEnqueueSemaphore(t) \/ AcquireEnqueueSemaphore(t)
        PROVE  EqP!Next /\ UNCHANGED dqVars
    <3>1. EnqueueSemaphoreStep(t) /\ UNCHANGED dqVars
      BY <2>3 DEF ReleaseEnqueueSemaphore, AcquireEnqueueSemaphore, EnqueueSemaphoreStep
    <3>2. QED
      BY <3>1, EnqueueSemaphoreStepIsNext
  <2>4. ASSUME NEW t \in Threads, ReleaseDequeueSemaphore(t) \/ AcquireDequeueSemaphore(t)
        PROVE  DqP!Next /\ UNCHANGED eqVars
    <3>1. DequeueSemaphoreStep(t) /\ UNCHANGED eqVars
      BY <2>4 DEF ReleaseDequeueSemaphore, AcquireDequeueSemaphore, DequeueSemaphoreStep
    <3>2. QED
      BY <3>1, DequeueSemaphoreStepIsNext
  <2>5. QED
    BY <2>1, <2>2, <2>3, <2>4 DEF Next, Step
<1>3. QED
  BY <1>1, <1>2, PTL DEF Spec, EqP!Spec, DqP!Spec

(* What is proved of a light semaphore alone holds of both of the queue's, *)
(* under every schedule of its callers: the word by which Release decides  *)
(* counts the waiting threads exactly, and no token is left lying over a   *)
(* thread that sleeps for one.                                             *)
THEOREM SemaphoresCorrect ==
  Spec => /\ [](EqP!NumWaitingIsExact /\ EqP!NoPermitStranded)
          /\ [](DqP!NumWaitingIsExact /\ DqP!NoPermitStranded)
<1>1. EqP!Spec => [](EqP!NumWaitingIsExact) /\ [](EqP!NoPermitStranded)
  BY EnqueueSemaphoreAssumptions, EqP!NumWaitingCorrect, EqP!PermitsAreTaken
<1>2. DqP!Spec => [](DqP!NumWaitingIsExact) /\ [](DqP!NoPermitStranded)
  BY DequeueSemaphoreAssumptions, DqP!NumWaitingCorrect, DqP!PermitsAreTaken
<1>3. QED
  BY <1>1, <1>2, SemaphoresTakeTheirSteps, PTL
=============================================================================

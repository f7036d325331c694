---------------------- MODULE InterruptReceiver_proofs ----------------------
(***************************************************************************)
(* Proofs about InterruptReceiver for every set of interrupts and handlers *)
(* and every length of the queue.                                          *)
(***************************************************************************)
EXTENDS InterruptReceiver, SequenceTheorems, TLAPS

(* The relay queue: n items from place h on, of the places of d.           *)
Places == 0 .. QUEUE_LENGTH - 1
QueueOf(d, h, n) == [k \in 1 .. n |-> d[(h + k - 1) % QUEUE_LENGTH]]

LEMMA ModPlace ==
  ASSUME NEW h \in Places, NEW k \in 0 .. QUEUE_LENGTH
  PROVE  (h + k) % QUEUE_LENGTH \in Places
<1>1. h + k \in Nat
  BY QueueHasRoom DEF Places
<1>2. QED
  BY <1>1, QueueHasRoom DEF Places

(* Where an item is does not depend on how far the head has moved.        *)
LEMMA NextPlace ==
  ASSUME NEW h \in Places, NEW k \in Places
  PROVE  (((h + 1) % QUEUE_LENGTH) + k) % QUEUE_LENGTH = (h + (k + 1)) % QUEUE_LENGTH
<1> USE QueueHasRoom DEF Places
<1>1. CASE h + 1 < QUEUE_LENGTH
  <2>1. (h + 1) % QUEUE_LENGTH = h + 1
    BY <1>1
  <2>2. QED
    BY <2>1
<1>2. CASE h + 1 = QUEUE_LENGTH
  <2>1. (h + 1) % QUEUE_LENGTH = 0
    BY <1>2
  <2>2. k % QUEUE_LENGTH = k
    OBVIOUS
  <2>3. (h + (k + 1)) % QUEUE_LENGTH = k
    <3>1. h + (k + 1) = QUEUE_LENGTH + k
      BY <1>2
    <3>2. (QUEUE_LENGTH + k) % QUEUE_LENGTH = k
      OBVIOUS
    <3>3. QED
      BY <3>1, <3>2
  <2>4. QED
    BY <2>1, <2>2, <2>3
<1>3. QED
  BY <1>1, <1>2

LEMMA PlacesDiffer ==
  ASSUME NEW h \in Places, NEW j \in Places, NEW k \in Places, j # k
  PROVE  (h + j) % QUEUE_LENGTH # (h + k) % QUEUE_LENGTH
<1> USE QueueHasRoom DEF Places
<1>1. CASE h + j < QUEUE_LENGTH /\ h + k < QUEUE_LENGTH
  BY <1>1
<1>2. CASE h + j < QUEUE_LENGTH /\ h + k >= QUEUE_LENGTH
  BY <1>2
<1>3. CASE h + j >= QUEUE_LENGTH /\ h + k < QUEUE_LENGTH
  BY <1>3
<1>4. CASE h + j >= QUEUE_LENGTH /\ h + k >= QUEUE_LENGTH
  BY <1>4
<1>5. QED
  BY <1>1, <1>2, <1>3, <1>4

LEMMA QueueOfIsASeq ==
  ASSUME NEW S, NEW d \in [Places -> S], NEW h \in Places, NEW n \in 0 .. QUEUE_LENGTH
  PROVE  /\ QueueOf(d, h, n) \in Seq(S) /\ Len(QueueOf(d, h, n)) = n
         /\ \A k \in 1 .. n : QueueOf(d, h, n)[k] = d[(h + (k - 1)) % QUEUE_LENGTH]
<1>0. n \in Nat
  BY QueueHasRoom
<1>1. ASSUME NEW k \in 1 .. n
      PROVE  /\ h + k - 1 = h + (k - 1)
             /\ (h + (k - 1)) % QUEUE_LENGTH \in Places
  <2>1. k - 1 \in 0 .. QUEUE_LENGTH
    BY QueueHasRoom
  <2>2. h + k - 1 = h + (k - 1)
    BY QueueHasRoom DEF Places
  <2>3. QED
    BY <2>1, <2>2, ModPlace
<1>2. \A k \in 1 .. n : QueueOf(d, h, n)[k] = d[(h + (k - 1)) % QUEUE_LENGTH]
  BY <1>1 DEF QueueOf
<1>3. QueueOf(d, h, n) \in [1 .. n -> S]
  BY <1>1, <1>2 DEF QueueOf
<1>4. QED
  BY <1>0, <1>2, <1>3

(* To put an item behind the last one is to append it.                     *)
LEMMA QueueOfAppend ==
  ASSUME NEW S, NEW d \in [Places -> S], NEW h \in Places, NEW n \in Places, NEW i \in S
  PROVE  QueueOf([d EXCEPT ![(h + n) % QUEUE_LENGTH] = i], h, n + 1)
           = Append(QueueOf(d, h, n), i)
<1> DEFINE e == [d EXCEPT ![(h + n) % QUEUE_LENGTH] = i]
           old == QueueOf(d, h, n)
           new == QueueOf(e, h, n + 1)
<1>1. n \in 0 .. QUEUE_LENGTH /\ n + 1 \in 0 .. QUEUE_LENGTH /\ n \in Nat
  BY QueueHasRoom DEF Places
<1>2. (h + n) % QUEUE_LENGTH \in Places
  BY <1>1, ModPlace
<1>3. e \in [Places -> S]
  OBVIOUS
<1>4. /\ new \in Seq(S) /\ Len(new) = n + 1
      /\ \A k \in 1 .. n + 1 : new[k] = e[(h + (k - 1)) % QUEUE_LENGTH]
  <2> HIDE DEF e
  <2>1. QED
    BY <1>1, <1>3, QueueOfIsASeq, ZenonT(60)
<1>5. /\ old \in Seq(S) /\ Len(old) = n
      /\ \A k \in 1 .. n : old[k] = d[(h + (k - 1)) % QUEUE_LENGTH]
  BY <1>1, QueueOfIsASeq, ZenonT(60)
<1>6. \A k \in 1 .. n : new[k] = old[k]
  <2>1. TAKE k \in 1 .. n
  <2>2. k - 1 \in Places /\ k - 1 # n /\ k \in 1 .. n + 1
    BY <1>1, QueueHasRoom DEF Places
  <2>3. (h + (k - 1)) % QUEUE_LENGTH \in Places
    BY <2>2, ModPlace, QueueHasRoom DEF Places
  <2>4. (h + (k - 1)) % QUEUE_LENGTH # (h + n) % QUEUE_LENGTH
    BY <2>2, PlacesDiffer
  <2>5. e[(h + (k - 1)) % QUEUE_LENGTH] = d[(h + (k - 1)) % QUEUE_LENGTH]
    BY <2>3, <2>4
  <2> HIDE DEF e, new, old
  <2>6. QED
    BY <1>4, <1>5, <2>2, <2>5
<1>7. new[n + 1] = i
  <2>1. new[n + 1] = e[(h + (n + 1 - 1)) % QUEUE_LENGTH]
    <3> HIDE DEF e, new
    <3>1. QED
      BY <1>1, <1>4
  <2>2. n + 1 - 1 = n
    BY <1>1
  <2>3. QED
    BY <1>2, <2>1, <2>2
<1>8. QED
  <2> HIDE DEF e, new, old
  <2>1. /\ Append(old, i) \in Seq(S) /\ Len(Append(old, i)) = n + 1
        /\ \A k \in 1 .. n : Append(old, i)[k] = old[k]
        /\ Append(old, i)[n + 1] = i
    BY <1>5, AppendProperties
  <2>2. \A k \in 1 .. n + 1 : new[k] = Append(old, i)[k]
    BY <1>1, <1>6, <1>7, <2>1
  <2>3. new = Append(old, i)
    BY <1>4, <2>1, <2>2, SeqEqual
  <2>4. QED
    BY <2>3 DEF e, new, old

(* To take the first item off is to move the head on.                      *)
LEMMA QueueOfTail ==
  ASSUME NEW S, NEW d \in [Places -> S], NEW h \in Places, NEW n \in 1 .. QUEUE_LENGTH
  PROVE  QueueOf(d, h, n) = <<d[h]>> \o QueueOf(d, (h + 1) % QUEUE_LENGTH, n - 1)
<1> DEFINE next == (h + 1) % QUEUE_LENGTH
           all  == QueueOf(d, h, n)
           rest == QueueOf(d, next, n - 1)
<1>1. n \in 0 .. QUEUE_LENGTH /\ n - 1 \in 0 .. QUEUE_LENGTH /\ n \in Nat
  BY QueueHasRoom
<1>2. next \in Places
  BY ModPlace, QueueHasRoom
<1>3. /\ all \in Seq(S) /\ Len(all) = n
      /\ \A k \in 1 .. n : all[k] = d[(h + (k - 1)) % QUEUE_LENGTH]
  BY <1>1, QueueOfIsASeq
<1>4. /\ rest \in Seq(S) /\ Len(rest) = n - 1
      /\ \A k \in 1 .. n - 1 : rest[k] = d[(next + (k - 1)) % QUEUE_LENGTH]
  <2> HIDE DEF next
  <2>1. QED
    BY <1>1, <1>2, QueueOfIsASeq, ZenonT(60)
<1>5. all[1] = d[h]
  <2>1. (h + (1 - 1)) % QUEUE_LENGTH = h
    BY QueueHasRoom DEF Places
  <2>2. all[1] = d[(h + (1 - 1)) % QUEUE_LENGTH]
    <3> HIDE DEF all
    <3>1. QED
      BY <1>1, <1>3
  <2>3. QED
    BY <2>1, <2>2
<1>6. \A k \in 2 .. n : all[k] = rest[k - 1]
  <2>1. TAKE k \in 2 .. n
  <2>2. k \in 1 .. n /\ k - 1 \in 1 .. n - 1 /\ k - 2 \in Places /\ k - 1 - 1 = k - 2
        /\ k - 2 + 1 = k - 1
    BY <1>1, QueueHasRoom DEF Places
  <2>3. (next + (k - 2)) % QUEUE_LENGTH = (h + (k - 1)) % QUEUE_LENGTH
    BY <2>2, NextPlace
  <2> HIDE DEF next, all, rest
  <2>4. QED
    BY <1>3, <1>4, <2>2, <2>3, SMTT(30)
<1>7. QED
  <2> HIDE DEF next, all, rest
  <2>1. <<d[h]>> \in Seq(S) /\ Len(<<d[h]>>) = 1 /\ <<d[h]>>[1] = d[h]
    OBVIOUS
  <2>2. /\ <<d[h]>> \o rest \in Seq(S) /\ Len(<<d[h]>> \o rest) = 1 + (n - 1)
        /\ \A k \in 1 .. 1 + (n - 1) :
             (<<d[h]>> \o rest)[k] = IF k <= 1 THEN <<d[h]>>[k] ELSE rest[k - 1]
    BY <1>4, <2>1, ConcatProperties
  <2>3. \A k \in 1 .. n : all[k] = (<<d[h]>> \o rest)[k]
    BY <1>1, <1>5, <1>6, <2>1, <2>2
  <2>4. all = <<d[h]>> \o rest
    BY <1>1, <1>3, <2>2, <2>3, SeqEqual
  <2>5. QED
    BY <2>4 DEF next, all, rest

-----------------------------------------------------------------------------
(* Where the k-th item is, counted from 0.                                 *)
Slot(k) == (head + k) % QUEUE_LENGTH

(* The counted slots hold interrupts; only the receiver takes any out, so  *)
(* what it has found in the queue is there when it reads and takes it.     *)
ItemsAreInterrupts == \A k \in 0 .. usedCount - 1 : data[Slot(k)] \in Interrupts

QueueHoldsInterrupts ==
  /\ ItemsAreInterrupts
  /\ receiver \in {"read", "pop"} => usedCount > 0
  /\ receiver \in {"pop", "lock", "call", "run"} => src \in Interrupts

(* The receiver looks at the queue again before it sleeps, or is signalled.*)
ReceiverIsSignalled ==
  receiver = "wait" /\ usedCount > 0 => rxSignaled \/ posting

(* The request comes before the signal, and the signal is only used up on  *)
(* the way to the test of the request.                                     *)
RequestIsSeen ==
  /\ finalizer # "notCalled" => finalizeRequest
  /\ finalizer = "join" => rxSignaled \/ receiver \in {"clear", "test", "exited"}

WaiterIsSignalled ==
  \A w \in Waiters :
    waiter[w] = "sleep" /\ handlerWaitStatus # "WAITING" =>
      doneSignaled \/ receiver = "signal"

HandlerIsFromTable ==
  running = IF receiver = "run" THEN table[src] ELSE NoHandler

IInv ==
  /\ TypeOK
  /\ QueueHoldsInterrupts
  /\ ReceiverIsSignalled
  /\ RequestIsSeen
  /\ WaiterIsSignalled
  /\ HandlerIsFromTable

LEMMA InitIInv == Init => IInv
<1> SUFFICES ASSUME Init PROVE IInv
  OBVIOUS
<1>1. TypeOK
  <2>1. 0 \in 0 .. QUEUE_LENGTH - 1 /\ 0 \in 0 .. QUEUE_LENGTH
    BY QueueHasRoom
  <2>2. QED
    BY <2>1 DEF Init, TypeOK, ReceiverPlaces, Status, FinalizerPlaces
<1>2. QED
  BY <1>1 DEF Init, IInv, ItemsAreInterrupts, QueueHoldsInterrupts, ReceiverIsSignalled,
     RequestIsSeen, WaiterIsSignalled, HandlerIsFromTable

LEMMA SlotRange ==
  ASSUME IInv
  PROVE  \A k \in 0 .. QUEUE_LENGTH : Slot(k) \in 0 .. QUEUE_LENGTH - 1
  BY ModPlace DEF Slot, Places, IInv, TypeOK

LEMMA FirstSlot ==
  ASSUME IInv
  PROVE  Slot(0) = head
  BY QueueHasRoom DEF Slot, IInv, TypeOK

LEMMA PostKeepsIInv ==
  ASSUME IInv, NEW i \in Interrupts, Post(i)
  PROVE  IInv'
<1> USE DEF IInv, Post, queue, rxVars, handlers, waiting, ending
<1>1. \A k \in 0 .. QUEUE_LENGTH : Slot(k) \in 0 .. QUEUE_LENGTH - 1
  BY SlotRange
<1>2. TypeOK'
  <2>1. usedCount' \in 0 .. QUEUE_LENGTH
    BY QueueHasRoom DEF TypeOK
  <2>2. QED
    BY <2>1 DEF TypeOK
<1>3. QueueHoldsInterrupts'
  <2>1. ASSUME NEW k \in 0 .. usedCount
        PROVE  data'[Slot(k)] \in Interrupts
    <3>1. Slot(k) \in 0 .. QUEUE_LENGTH - 1
      BY <1>1, QueueHasRoom DEF TypeOK
    <3>2. CASE Slot(k) = Slot(usedCount)
      BY <3>1, <3>2 DEF TypeOK, Slot
    <3>3. CASE Slot(k) # Slot(usedCount)
      <4>1. k \in 0 .. usedCount - 1
        BY <3>3 DEF TypeOK
      <4>2. QED
        BY <3>1, <3>3, <4>1 DEF TypeOK, ItemsAreInterrupts, QueueHoldsInterrupts, Slot
    <3>4. QED
      BY <3>2, <3>3
  <2>2. QED
    BY <2>1 DEF TypeOK, ItemsAreInterrupts, QueueHoldsInterrupts, Slot
<1>4. QED
  BY <1>2, <1>3 DEF ReceiverIsSignalled, RequestIsSeen, WaiterIsSignalled,
     HandlerIsFromTable, TypeOK

LEMMA PopKeepsIInv ==
  ASSUME IInv, Pop
  PROVE  IInv'
<1> USE DEF IInv, Pop, rxVars, handlers, waiting, ending
<1>1. usedCount > 0
  BY DEF QueueHoldsInterrupts
<1>2. TypeOK'
  <2>1. usedCount' \in 0 .. QUEUE_LENGTH
    BY <1>1, QueueHasRoom DEF TypeOK
  <2>2. head' \in 0 .. QUEUE_LENGTH - 1
    <3>1. 1 \in 0 .. QUEUE_LENGTH
      BY QueueHasRoom
    <3>2. QED
      BY <3>1, ModPlace DEF Places, TypeOK
  <2>3. QED
    BY <2>1, <2>2 DEF TypeOK, ReceiverPlaces
<1>3. QueueHoldsInterrupts'
  <2>1. ASSUME NEW k \in 0 .. usedCount - 2
        PROVE  (head' + k) % QUEUE_LENGTH = Slot(k + 1)
    <3>1. k \in Places /\ head \in Places
      BY QueueHasRoom DEF Places, TypeOK
    <3>2. QED
      BY <3>1, NextPlace DEF Slot
  <2>2. ASSUME NEW k \in 0 .. usedCount - 2
        PROVE  data[Slot(k + 1)] \in Interrupts
    BY DEF TypeOK, ItemsAreInterrupts, QueueHoldsInterrupts
  <2>3. ItemsAreInterrupts'
    <3>1. usedCount' - 1 = usedCount - 2
      BY DEF TypeOK
    <3>2. QED
      BY <2>1, <2>2, <3>1 DEF ItemsAreInterrupts, Slot
  <2>4. QED
    BY <2>3 DEF QueueHoldsInterrupts
<1>4. QED
  BY <1>2, <1>3 DEF ReceiverIsSignalled, RequestIsSeen, WaiterIsSignalled,
     HandlerIsFromTable, TypeOK

(* All other steps leave the queue as it is.                               *)
LEMMA OtherStepKeepsIInv ==
  ASSUME IInv, [Next]_vars, UNCHANGED <<data, head, usedCount>>
  PROVE  IInv'
<1> USE DEF IInv, TypeOK, queue, rxVars, handlers, waiting, ending, QueueHoldsInterrupts,
       ReceiverIsSignalled, RequestIsSeen, WaiterIsSignalled, HandlerIsFromTable,
       ReceiverPlaces, FinalizerPlaces, Status
<1>a. ItemsAreInterrupts'
  BY DEF ItemsAreInterrupts, Slot
<1>b. \A i \in Interrupts : ~Post(i)
  BY DEF Post
<1>c. ~Pop
  BY DEF Pop
<1>1. CASE SignalRx
  <2>1. TypeOK'
    BY <1>1, ZenonT(60) DEF SignalRx
  <2>2. QueueHoldsInterrupts' /\ HandlerIsFromTable' /\ WaiterIsSignalled'
    BY <1>a, <1>1 DEF SignalRx
  <2>3. ReceiverIsSignalled' /\ RequestIsSeen'
    BY <1>1 DEF SignalRx
  <2>4. QED
    BY <2>1, <2>2, <2>3
<1>2. CASE SuppressPdcEvents
  BY <1>a, <1>2 DEF SuppressPdcEvents
<1>3. CASE Wait \/ ClearSignal \/ TestFinalize
  BY <1>a, <1>3, ZenonT(60) DEF Wait, ClearSignal, TestFinalize
<1>4. CASE Drain
  BY <1>a, <1>4 DEF Drain
<1>5. CASE Read
  <2>1. src' \in Interrupts
    <3>1. Slot(0) = head
      BY FirstSlot
    <3>2. 0 \in 0 .. usedCount - 1
      BY <1>5 DEF Read
    <3>3. QED
      BY <1>5, <3>1, <3>2 DEF Read, ItemsAreInterrupts
  <2>2. QED
    BY <1>a, <1>5, <2>1 DEF Read
<1>6. CASE LockTable \/ CallHandler \/ HandlerReturns \/ UnlockTable
  BY <1>a, <1>6 DEF LockTable, CallHandler, HandlerReturns, UnlockTable
<1>7. CASE SetStatus \/ SignalDone
  BY <1>a, <1>7 DEF SetStatus, SignalDone
<1>8. ASSUME NEW i \in Interrupts, NEW h \in Handlers \cup {NoHandler},
             RegisterInterruptHandler(i, h)
      PROVE  IInv'
  BY <1>a, <1>8 DEF RegisterInterruptHandler, TableIsLocked
<1>9. ASSUME NEW w \in Waiters, WaitAnyHandlerDone(w) \/ WakeUp(w)
      PROVE  IInv'
  <2>1. TypeOK'
    <3>1. CASE WaitAnyHandlerDone(w)
      BY <3>1 DEF WaitAnyHandlerDone
    <3>2. CASE WakeUp(w)
      <4>1. waiter' \in [Waiters -> {"idle", "sleep"}] /\ doneSignaled' \in BOOLEAN
        BY <3>2 DEF WakeUp
      <4>2. QED
        BY <3>2, <4>1 DEF WakeUp
    <3>3. QED
      BY <1>9, <3>1, <3>2
  <2>2. /\ QueueHoldsInterrupts' /\ HandlerIsFromTable'
        /\ ReceiverIsSignalled' /\ RequestIsSeen'
    BY <1>a, <1>9 DEF WaitAnyHandlerDone, WakeUp
  <2>3. WaiterIsSignalled'
    BY <1>9, OneWaiter DEF WaitAnyHandlerDone, WakeUp
  <2>4. QED
    BY <2>1, <2>2, <2>3
<1>10. CASE Finalize
  BY <1>a, <1>10 DEF Finalize
<1>11. CASE SignalFinalize
  BY <1>a, <1>11 DEF SignalFinalize
<1>12. CASE Join
  BY <1>a, <1>12 DEF Join
<1>13. CASE UNCHANGED vars
  BY <1>a, <1>13 DEF vars
<1>14. QED
  BY <1>b, <1>c, <1>1, <1>2, <1>3, <1>4, <1>5, <1>6, <1>7, <1>8, <1>9, <1>10, <1>11, <1>12, <1>13
     DEF Next, Receive

LEMMA StepKeepsIInv ==
  ASSUME IInv, [Next]_vars
  PROVE  IInv'
<1>1. CASE \E i \in Interrupts : Post(i)
  BY <1>1, PostKeepsIInv
<1>2. CASE Pop
  BY <1>2, PopKeepsIInv
<1>3. CASE ~Pop /\ \A i \in Interrupts : ~Post(i)
  <2>1. UNCHANGED <<data, head, usedCount>>
    BY <1>3 DEF Next, Receive, vars, queue, SignalRx, SuppressPdcEvents, Wait, ClearSignal,
       TestFinalize, Drain, Read, LockTable, CallHandler, HandlerReturns, SetStatus,
       SignalDone, UnlockTable, RegisterInterruptHandler, WaitAnyHandlerDone, WakeUp,
       Finalize, SignalFinalize, Join
  <2>2. QED
    BY <2>1, OtherStepKeepsIInv
<1>4. QED
  BY <1>1, <1>2, <1>3

LEMMA IInvCorrect == Spec => []IInv
  BY InitIInv, StepKeepsIInv, PTL DEF Spec

(* The receiver's variables keep their types: every interrupt taken out of *)
(* the queue is one that the server has put there.                         *)
THEOREM TypeCorrect == Spec => []TypeOK
<1>1. IInv => TypeOK
  BY DEF IInv
<1>2. QED
  BY <1>1, IInvCorrect, PTL

(* The receiver and the thread in WaitAnyHandlerDone never sleep over what *)
(* they wait for: events that are cleared, statuses that are set without   *)
(* the event and a request to end do not lose each other's signals.        *)
THEOREM NoSignalIsLost == Spec => []NoWakeupIsLost
<1>1. IInv => NoWakeupIsLost
  BY DEF IInv, TypeOK, ReceiverIsSignalled, RequestIsSeen, WaiterIsSignalled, NoWakeupIsLost
<1>2. QED
  BY <1>1, IInvCorrect, PTL

(* A handler runs only while it is the one registered for the interrupt.   *)
THEOREM HandlerIsRegistered == Spec => []RunningHandlerIsRegistered
<1>1. IInv => RunningHandlerIsRegistered
  BY DEF IInv, TypeOK, HandlerIsFromTable, RunningHandlerIsRegistered
<1>2. QED
  BY <1>1, IInvCorrect, PTL

-----------------------------------------------------------------------------
(* What the mapping to InterruptDelivery needs besides: the item that was  *)
(* read is still the first one, and a thread that is announced as waiting  *)
(* sleeps, with no signal of an earlier handler left over.                 *)
ReadItemIsFirst ==
  /\ receiver = "pop" => src = data[head]
  /\ receiver = "status" => src \in Interrupts

AnnouncedWaiterSleeps ==
  /\ handlerWaitStatus = "WAITING" => ~doneSignaled /\ receiver # "signal"
  /\ doneSignaled => receiver # "signal"
  /\ handlerWaitStatus = "WAITING" \/ doneSignaled \/ receiver = "signal" =>
       \A w \in Waiters : waiter[w] = "sleep"

DeliveryInv == IInv /\ ReadItemIsFirst /\ AnnouncedWaiterSleeps

LEMMA StepKeepsReadItemIsFirst ==
  ASSUME DeliveryInv, [Next]_vars
  PROVE  ReadItemIsFirst'
<1> USE DEF ReadItemIsFirst, DeliveryInv
<1>1. ASSUME NEW i \in Interrupts, Post(i)
      PROVE  ReadItemIsFirst'
  <2>1. CASE receiver = "pop"
    <3>1. /\ head \in Places /\ 0 \in Places /\ usedCount \in Places /\ usedCount # 0
          /\ data \in [Places -> Interrupts \cup {NoInterrupt}]
      BY <1>1, <2>1, QueueHasRoom DEF Post, Places, IInv, TypeOK, QueueHoldsInterrupts
    <3>2. head # (head + usedCount) % QUEUE_LENGTH
      BY <3>1, PlacesDiffer, FirstSlot DEF Slot
    <3>3. data'[head] = data[head]
      BY <1>1, <3>1, <3>2 DEF Post
    <3>4. QED
      BY <1>1, <2>1, <3>3 DEF Post, rxVars
  <2>2. CASE receiver # "pop"
    BY <1>1, <2>2 DEF Post, rxVars
  <2>3. QED
    BY <2>1, <2>2
<1>2. CASE Pop \/ Read \/ CallHandler \/ HandlerReturns
  BY <1>2 DEF Pop, Read, CallHandler, HandlerReturns, queue, rxVars, IInv,
     QueueHoldsInterrupts
<1>3. CASE UNCHANGED <<data, head, src, receiver>>
  BY <1>3
<1>4. CASE UNCHANGED <<data, head, src>> /\ receiver' \notin {"pop", "status"}
  BY <1>4
<1>5. QED
  BY <1>1, <1>2, <1>3, <1>4 DEF Next, Receive, vars, queue, rxVars, SignalRx,
     SuppressPdcEvents, Wait, ClearSignal,
     TestFinalize, Drain, LockTable, SetStatus,
     SignalDone, UnlockTable, RegisterInterruptHandler, WaitAnyHandlerDone, WakeUp,
     Finalize, SignalFinalize, Join

LEMMA StepKeepsAnnouncedWaiterSleeps ==
  ASSUME DeliveryInv, [Next]_vars
  PROVE  AnnouncedWaiterSleeps'
<1> USE DEF AnnouncedWaiterSleeps, DeliveryInv, waiting
<1>1. CASE SetStatus
  BY <1>1 DEF SetStatus
<1>2. CASE SignalDone
  BY <1>2 DEF SignalDone
<1>3. ASSUME NEW w \in Waiters, WaitAnyHandlerDone(w)
      PROVE  AnnouncedWaiterSleeps'
  BY <1>3, OneWaiter DEF WaitAnyHandlerDone, TableIsLocked, IInv, TypeOK
<1>4. ASSUME NEW w \in Waiters, WakeUp(w)
      PROVE  AnnouncedWaiterSleeps'
  BY <1>4 DEF WakeUp
<1>5. CASE UNCHANGED waiting /\ (receiver' = receiver \/ receiver' # "signal")
  BY <1>5
<1>6. QED
  BY <1>1, <1>2, <1>3, <1>4, <1>5 DEF Next, Receive, vars, Post, Pop, Read, CallHandler,
     HandlerReturns, SignalRx, SuppressPdcEvents, Wait, ClearSignal, TestFinalize, Drain,
     LockTable, UnlockTable, RegisterInterruptHandler, Finalize, SignalFinalize, Join

LEMMA DeliveryInvCorrect == Spec => []DeliveryInv
<1>1. Init => DeliveryInv
  BY InitIInv DEF Init, DeliveryInv, ReadItemIsFirst, AnnouncedWaiterSleeps
<1>2. DeliveryInv /\ [Next]_vars => DeliveryInv'
  BY StepKeepsIInv, StepKeepsReadItemIsFirst, StepKeepsAnnouncedWaiterSleeps
     DEF DeliveryInv
<1>3. QED
  BY <1>1, <1>2, PTL DEF Spec

-----------------------------------------------------------------------------
LEMMA QueuedIsASeq ==
  ASSUME IInv
  PROVE  /\ Queued \in Seq(Interrupts \cup {NoInterrupt})
         /\ Queued = QueueOf(data, head, usedCount)
<1>1. Queued = QueueOf(data, head, usedCount)
  BY DEF Queued, QueueOf
<1>2. QED
  BY <1>1, QueueOfIsASeq DEF Places, IInv, TypeOK

LEMMA PostAppends ==
  ASSUME IInv, NEW i \in Interrupts, Post(i)
  PROVE  Queued' = Append(Queued, i)
<1>1. /\ data' = [data EXCEPT ![(head + usedCount) % QUEUE_LENGTH] = i]
      /\ head' = head /\ usedCount' = usedCount + 1
  BY DEF Post
<1>2. Queued' = QueueOf(data', head', usedCount')
  BY DEF Queued, QueueOf
<1>3. /\ head \in Places /\ usedCount \in Places
      /\ data \in [Places -> Interrupts \cup {NoInterrupt}] /\ i \in Interrupts \cup {NoInterrupt}
  BY QueueHasRoom DEF Post, Places, IInv, TypeOK
<1>4. QueueOf([data EXCEPT ![(head + usedCount) % QUEUE_LENGTH] = i], head, usedCount + 1)
        = Append(QueueOf(data, head, usedCount), i)
  BY <1>3, QueueOfAppend, ZenonT(60)
<1>5. QED
  BY <1>1, <1>2, <1>4, QueuedIsASeq

LEMMA PopTakesFirst ==
  ASSUME IInv, Pop
  PROVE  Queued = <<data[head]>> \o Queued'
<1>1. data' = data /\ head' = (head + 1) % QUEUE_LENGTH /\ usedCount' = usedCount - 1
  BY DEF Pop
<1>2. Queued' = QueueOf(data', head', usedCount')
  BY DEF Queued, QueueOf
<1>3. /\ head \in Places /\ usedCount \in 1 .. QUEUE_LENGTH
      /\ data \in [Places -> Interrupts \cup {NoInterrupt}]
  BY QueueHasRoom DEF Pop, Places, IInv, TypeOK, QueueHoldsInterrupts
<1>4. QueueOf(data, head, usedCount)
        = <<data[head]>> \o QueueOf(data, (head + 1) % QUEUE_LENGTH, usedCount - 1)
  BY <1>3, QueueOfTail
<1>5. QED
  BY <1>1, <1>2, <1>4, QueuedIsASeq

(* A step that changes nothing of what InterruptDelivery sees.             *)
Seen == <<Pending, Handling, handlerWaitStatus = "ANY_HANDLER_DONE", Asleep, receiver = "exited">>

LEMMA UnseenIsStutter ==
  ASSUME UNCHANGED Seen
  PROVE  [Delivery!Next]_Delivery!vars
  BY DEF Seen, Delivery!vars

(* Accept: to post is to append, whether or not an item waits before the   *)
(* queue to be dealt with.                                                 *)
LEMMA PostAccepts ==
  ASSUME DeliveryInv, NEW i \in Interrupts, Post(i)
  PROVE  Delivery!Accept(i)
<1> DEFINE S == Interrupts \cup {NoInterrupt}
           first == IF receiver = "lock" THEN <<src>> ELSE <<>>
<1>1. Pending' = first \o Append(Queued, i)
  BY PostAppends DEF Pending, Post, DeliveryInv, rxVars
<1>2. first \in Seq(S) /\ Queued \in Seq(S) /\ <<i>> \in Seq(S) /\ i \in S
  <2>1. src \in S /\ i \in S
    BY DEF DeliveryInv, IInv, TypeOK
  <2>2. Queued \in Seq(S)
    BY QueuedIsASeq DEF DeliveryInv
  <2> HIDE DEF S
  <2>3. <<src>> \in Seq(S) /\ <<i>> \in Seq(S) /\ <<>> \in Seq(S)
    BY <2>1
  <2>4. QED
    BY <2>1, <2>2, <2>3
<1>3. first \o Append(Queued, i) = Append(first \o Queued, i)
  <2> HIDE DEF S, first
  <2>1. Append(Queued, i) = Queued \o <<i>>
    BY <1>2, AppendIsConcat
  <2>2. Append(first \o Queued, i) = (first \o Queued) \o <<i>>
    BY <1>2, ConcatProperties, AppendIsConcat
  <2>3. QED
    BY <1>2, <2>1, <2>2, ConcatAssociative
<1>4. Pending' = Append(Pending, i)
  BY <1>1, <1>3 DEF Pending
<1>5. QED
  BY <1>4 DEF Delivery!Accept, Post, rxVars, waiting, Handling, Asleep

(* Begin: the interrupt that is dealt with next is the first of those      *)
(* pending.                                                                *)
LEMMA LockTableBegins ==
  ASSUME DeliveryInv, LockTable
  PROVE  Delivery!Begin
<1> DEFINE S == Interrupts \cup {NoInterrupt}
<1>1. Pending = <<src>> \o Queued /\ Queued' = Queued
  BY DEF LockTable, Pending, Queued, queue
<1>2. Queued \in Seq(S) /\ src \in S
  BY QueuedIsASeq DEF DeliveryInv, IInv, TypeOK
<1>3. Pending' = Queued
  BY <1>1, <1>2, ConcatEmptySeq DEF LockTable, Pending
<1>4. Pending # <<>> /\ Head(Pending) = src /\ Tail(Pending) = Queued
  <2> HIDE DEF S
  <2>1. <<src>> \in Seq(S) /\ Len(<<src>>) = 1 /\ <<src>>[1] = src
    BY <1>2
  <2>2. /\ Pending \in Seq(S) /\ Len(Pending) = 1 + Len(Queued)
        /\ \A k \in 1 .. 1 + Len(Queued) :
             Pending[k] = IF k <= 1 THEN <<src>>[k] ELSE Queued[k - 1]
    BY <1>1, <1>2, <2>1, ConcatProperties
  <2>3. Len(Queued) \in Nat /\ Pending # <<>>
    BY <1>2, <2>2, LenProperties
  <2>4. /\ Tail(Pending) \in Seq(S) /\ Len(Tail(Pending)) = Len(Queued)
        /\ \A k \in 1 .. Len(Queued) : Tail(Pending)[k] = Pending[k + 1]
    BY <2>2, <2>3, HeadTailProperties
  <2>5. \A k \in 1 .. Len(Queued) : Tail(Pending)[k] = Queued[k]
    BY <2>2, <2>3, <2>4
  <2>6. Tail(Pending) = Queued
    BY <1>2, <2>4, <2>5, SeqEqual
  <2>7. Head(Pending) = src
    BY <2>1, <2>2, <2>3
  <2>8. QED
    BY <2>3, <2>6, <2>7
<1>5. QED
  BY <1>3, <1>4 DEF Delivery!Begin, LockTable, Handling, Asleep, rxVars, waiting

(* What was read and is then taken off stays the first one pending.        *)
LEMMA PopIsUnseen ==
  ASSUME DeliveryInv, Pop
  PROVE  UNCHANGED Seen
<1>1. Pending = <<>> \o Queued /\ Pending' = <<src>> \o Queued'
  BY DEF Pending, Pop, rxVars
<1>2. Pending = Queued
  BY <1>1, QueuedIsASeq, ConcatEmptySeq DEF DeliveryInv
<1>3. Pending' = Pending
  BY <1>1, <1>2, PopTakesFirst DEF DeliveryInv, ReadItemIsFirst, Pop
<1>4. QED
  BY <1>3 DEF Seen, Pop, Handling, Asleep, waiting

LEMMA StepImplementsDelivery ==
  ASSUME DeliveryInv, [Next]_vars
  PROVE  [Delivery!Next]_Delivery!vars
<1>1. ASSUME NEW i \in Interrupts, Post(i)
      PROVE  [Delivery!Next]_Delivery!vars
  BY <1>1, PostAccepts DEF Delivery!Next
<1>2. CASE LockTable
  BY <1>2, LockTableBegins DEF Delivery!Next
<1>3. CASE SetStatus
  <2>1. Delivery!End
    BY <1>3, InterruptsAreNamed DEF SetStatus, Delivery!End, Handling, Asleep, Pending, Queued,
       queue, rxVars, DeliveryInv, ReadItemIsFirst
  <2>2. QED
    BY <2>1 DEF Delivery!Next
<1>4. CASE TestFinalize
  <2>1. CASE finalizeRequest
    <3>1. Delivery!Stop
      BY <1>4, <2>1 DEF TestFinalize, Delivery!Stop, Handling, Asleep, Pending, Queued, queue,
         rxVars, waiting
    <3>2. QED
      BY <3>1 DEF Delivery!Next
  <2>2. CASE ~finalizeRequest
    BY <1>4, <2>2, UnseenIsStutter DEF TestFinalize, Seen, Handling, Asleep, Pending, Queued,
       queue, rxVars, waiting
  <2>3. QED
    BY <2>1, <2>2
<1>5. ASSUME NEW w \in Waiters, WaitAnyHandlerDone(w)
      PROVE  [Delivery!Next]_Delivery!vars
  <2>1. Asleep = {}
    BY <1>5, OneWaiter DEF WaitAnyHandlerDone, Asleep
  <2>2. Asleep' = IF handlerWaitStatus = "ANY_HANDLER_DONE" THEN {} ELSE {w}
    BY <1>5, OneWaiter DEF WaitAnyHandlerDone, Asleep, DeliveryInv, IInv, TypeOK
  <2>3. Delivery!WaitAnyHandlerDone(w)
    BY <1>5, <2>1, <2>2 DEF WaitAnyHandlerDone, TableIsLocked, Delivery!WaitAnyHandlerDone,
       Handling, Pending, Queued, queue, rxVars
  <2>4. QED
    BY <2>3 DEF Delivery!Next
<1>6. ASSUME NEW w \in Waiters, WakeUp(w)
      PROVE  [Delivery!Next]_Delivery!vars
  <2>1. handlerWaitStatus # "WAITING"
    BY <1>6 DEF WakeUp, DeliveryInv, AnnouncedWaiterSleeps
  <2>2. UNCHANGED Seen
    BY <1>6, <2>1 DEF WakeUp, Seen, Handling, Asleep, Pending, Queued, queue, rxVars
  <2>3. QED
    BY <2>2, UnseenIsStutter
<1>7. CASE Pop
  BY <1>7, PopIsUnseen, UnseenIsStutter
<1>8. CASE Read \/ CallHandler \/ HandlerReturns \/ SignalDone \/ UnlockTable
  <2>1. UNCHANGED Seen
    BY <1>8 DEF Read, CallHandler, HandlerReturns, SignalDone, UnlockTable, Seen, Handling,
       Asleep, Pending, Queued, queue, rxVars, waiting
  <2>2. QED
    BY <2>1, UnseenIsStutter
<1>9. CASE SignalRx \/ SuppressPdcEvents \/ Wait \/ ClearSignal \/ Drain
           \/ Finalize \/ SignalFinalize \/ Join \/ UNCHANGED vars
  <2>1. UNCHANGED Seen
    BY <1>9 DEF SignalRx, SuppressPdcEvents, Wait, ClearSignal, Drain, Finalize,
       SignalFinalize, Join, vars, Seen, Handling, Asleep, Pending, Queued, queue, rxVars,
       waiting
  <2>2. QED
    BY <2>1, UnseenIsStutter
<1>10. ASSUME NEW i \in Interrupts, NEW h \in Handlers \cup {NoHandler},
              RegisterInterruptHandler(i, h)
       PROVE  [Delivery!Next]_Delivery!vars
  <2>1. UNCHANGED Seen
    BY <1>10 DEF RegisterInterruptHandler, Seen, Handling, Asleep, Pending, Queued, queue,
       rxVars, waiting
  <2>2. QED
    BY <2>1, UnseenIsStutter
<1>11. QED
  BY <1>1, <1>2, <1>3, <1>4, <1>5, <1>6, <1>7, <1>8, <1>9, <1>10 DEF Next, Receive

(* The receiver implements the delivery: whatever the interleaving with    *)
(* the server, the callers and Finalize, interrupts are dealt with once    *)
(* each, in order, and no wait misses a handler that was done.             *)
THEOREM ReceiverDelivers == Spec => ImplementsInterruptDelivery
<1>1. Init => Delivery!Init
  <2>1. Init => Queued = <<>>
    BY DEF Init, Queued
  <2>2. Init => Pending = <<>>
    BY <2>1 DEF Init, Pending
  <2>3. QED
    BY <2>2 DEF Init, Delivery!Init, Handling, Asleep
<1>2. DeliveryInv /\ [Next]_vars => [Delivery!Next]_Delivery!vars
  BY StepImplementsDelivery
<1>3. QED
  BY <1>1, <1>2, DeliveryInvCorrect, PTL DEF Spec, ImplementsInterruptDelivery, Delivery!Spec

=============================================================================

---------------------------- MODULE BlockingQueue ---------------------------
(***************************************************************************)
(* nn::os::BlockingQueue (detail::BlockingQueueBase): a ring buffer under  *)
(* a critical section, with two LightSemaphores on which callers wait for  *)
(* an item and for a free slot, and two counts of the callers that do.     *)
(*                                                                         *)
(* A caller that must block counts itself, tries under the section, and    *)
(* acquires the semaphore outside it when the try failed; whoever succeeds *)
(* looks at the count, inside the section, and releases the semaphore.     *)
(* The counts and the semaphores are not protected by the section.         *)
(*                                                                         *)
(* The semaphores are the LightSemaphore module step for step.  The        *)
(* section is its promise (ReentrantMutex, not entered twice here): one    *)
(* thread at a time in the steps from Try to the end of the notification.  *)
(***************************************************************************)
EXTENDS Integers, FiniteSets, Sequences

CONSTANTS
  Threads,
  Values,
  None,
  Size,             \* m_Size
  MaxTokens,        \* LightSemaphore::MAX_MAX_COUNT
  Calls             \* Calls[t]: the operations thread t calls

VARIABLES
  buffer, firstIndex, usedCount,                \* m_ppBuffer, m_FirstIndex, m_UsedCount
  holder,                                       \* the thread inside m_cs, or None
  waitingEnqueueCount, waitingDequeueCount,     \* callers that need an item, a slot
  eqCount, eqNumWaiting, eqPc, eqAdding,        \* m_EnqueueSemaphore
  dqCount, dqNumWaiting, dqPc, dqAdding,        \* m_DequeueSemaphore
  op, data, out,                                \* each thread's call, its argument and
                                                \* what it hands back
  pc                                            \* where each thread is in its call

eqVars    == <<eqCount, eqNumWaiting, eqPc, eqAdding>>
dqVars    == <<dqCount, dqNumWaiting, dqPc, dqAdding>>
ring      == <<buffer, firstIndex, usedCount>>
waitCounts == <<waitingEnqueueCount, waitingDequeueCount>>
call == <<op, data, out>>
vars == <<ring, holder, waitCounts, eqVars, dqVars, call, pc>>

EnqueueSemaphore ==
  INSTANCE LightSemaphore WITH
    count <- eqCount, numWaiting <- eqNumWaiting, pc <- eqPc, adding <- eqAdding,
    InitialCount <- 0, MaxCount <- MaxTokens, ReleaseCounts <- {1}

DequeueSemaphore ==
  INSTANCE LightSemaphore WITH
    count <- dqCount, numWaiting <- dqNumWaiting, pc <- dqPc, adding <- dqAdding,
    InitialCount <- 0, MaxCount <- MaxTokens, ReleaseCounts <- {1}

(* The queue the ring buffer stands for, and what is promised of it.       *)
Items == [i \in 1 .. usedCount |-> buffer[(firstIndex + i - 1) % Size]]

Deque == INSTANCE BoundedDeque WITH items <- Items

ASSUME ThreadsFinite  == IsFiniteSet(Threads)
ASSUME SizeIsPositive == Size \in Nat \ {0}
ASSUME TokensSuffice  ==
  MaxTokens \in Nat \ {0} /\ MaxTokens <= 32767 /\ Size <= MaxTokens
ASSUME CallsAreOps    == Calls \in [Threads -> SUBSET (Deque!Puts \cup Deque!Gets)]
ASSUME NoneIsNothing  == None \notin Threads \cup Values \cup Deque!Puts \cup Deque!Gets

Places == {"idle", "try", "notify", "release", "wait", "done"}

Goto(t, place) == pc' = [pc EXCEPT ![t] = place]

Init ==
  /\ buffer = [i \in 0 .. Size - 1 |-> None]
  /\ firstIndex = 0 /\ usedCount = 0
  /\ holder = None
  /\ waitingEnqueueCount = 0 /\ waitingDequeueCount = 0
  /\ EnqueueSemaphore!Init /\ DequeueSemaphore!Init
  /\ op = [t \in Threads |-> None]
  /\ data = [t \in Threads |-> None]
  /\ out = [t \in Threads |-> None]
  /\ pc = [t \in Threads |-> "idle"]

(* A blocking call counts itself before it tries: the putters among those  *)
(* that wait for a Dequeue, the getters among those that wait for an       *)
(* Enqueue.                                                                *)
BeginPut(t) ==
  /\ pc[t] = "idle"
  /\ \E o \in Calls[t] \cap Deque!Puts, v \in Values :
       /\ op' = [op EXCEPT ![t] = o]
       /\ data' = [data EXCEPT ![t] = v]
       /\ waitingDequeueCount' = waitingDequeueCount + (IF o \in Deque!Blocking THEN 1 ELSE 0)
  /\ Goto(t, "try")
  /\ UNCHANGED <<ring, holder, waitingEnqueueCount, eqVars, dqVars, out>>

(* Fault: a getter counts itself among the callers that wait for a Dequeue. *)
BeginGetMiscounted(t) ==
  /\ pc[t] = "idle"
  /\ \E o \in Calls[t] \cap Deque!Gets :
       /\ op' = [op EXCEPT ![t] = o]
       /\ waitingDequeueCount' = waitingDequeueCount + (IF o \in Deque!Blocking THEN 1 ELSE 0)
  /\ Goto(t, "try")
  /\ UNCHANGED <<ring, holder, waitingEnqueueCount, eqVars, dqVars, data, out>>

BeginGet(t) ==
  /\ pc[t] = "idle"
  /\ \E o \in Calls[t] \cap Deque!Gets :
       /\ op' = [op EXCEPT ![t] = o]
       /\ waitingEnqueueCount' = waitingEnqueueCount + (IF o \in Deque!Blocking THEN 1 ELSE 0)
  /\ Goto(t, "try")
  /\ UNCHANGED <<ring, holder, waitingDequeueCount, eqVars, dqVars, data, out>>

Finished(t) ==
  /\ op' = [op EXCEPT ![t] = None]
  /\ data' = [data EXCEPT ![t] = None]
  /\ out' = [out EXCEPT ![t] = None]

(* A try that fails: the Try variants return, the others go to wait.       *)
Refused(t) ==
  /\ \/ op[t] \in Deque!Blocking /\ Goto(t, "wait") /\ UNCHANGED call
     \/ op[t] \notin Deque!Blocking /\ Goto(t, "idle") /\ Finished(t)
  /\ UNCHANGED <<ring, holder>>

(* TryEnqueue and TryJam, up to the notification.                          *)
Store(t, index) ==
  /\ buffer' = [buffer EXCEPT ![index] = data[t]]
  /\ data' = [data EXCEPT ![t] = None]
  /\ holder' = t
  /\ Goto(t, "notify")
  /\ UNCHANGED op

TryEnqueue(t) ==
  /\ pc[t] = "try" /\ op[t] \in {"Enqueue", "TryEnqueue"} /\ holder = None
  /\ \/ /\ Size > usedCount
        /\ Store(t, (firstIndex + usedCount) % Size)
        /\ usedCount' = usedCount + 1
        /\ UNCHANGED <<firstIndex, out>>
     \/ Size <= usedCount /\ Refused(t)
  /\ UNCHANGED <<waitCounts, eqVars, dqVars>>

(* Fault: the item is stored before the front moves back.                  *)
TryJamAtOldFront(t) ==
  /\ pc[t] = "try" /\ op[t] \in Deque!PutFront /\ holder = None
  /\ \/ /\ Size > usedCount
        /\ firstIndex' = (firstIndex + Size - 1) % Size
        /\ Store(t, firstIndex)
        /\ usedCount' = usedCount + 1
        /\ UNCHANGED out
     \/ Size <= usedCount /\ Refused(t)
  /\ UNCHANGED <<waitCounts, eqVars, dqVars>>

TryJam(t) ==
  /\ pc[t] = "try" /\ op[t] \in Deque!PutFront /\ holder = None
  /\ \/ /\ Size > usedCount
        /\ firstIndex' = (firstIndex + Size - 1) % Size
        /\ Store(t, firstIndex')
        /\ usedCount' = usedCount + 1
        /\ UNCHANGED out
     \/ Size <= usedCount /\ Refused(t)
  /\ UNCHANGED <<waitCounts, eqVars, dqVars>>

(* ForceEnqueue hands back and overwrites the front item of a full queue.  *)
ForceEnqueue(t) ==
  /\ pc[t] = "try" /\ op[t] = "ForceEnqueue" /\ holder = None
  /\ Store(t, (firstIndex + usedCount) % Size)
  /\ \/ Size > usedCount /\ usedCount' = usedCount + 1 /\ UNCHANGED <<firstIndex, out>>
     \/ /\ Size <= usedCount
        /\ out' = [out EXCEPT ![t] = buffer[(firstIndex + usedCount) % Size]]
        /\ firstIndex' = (firstIndex + 1) % Size
        /\ UNCHANGED usedCount
  /\ UNCHANGED <<waitCounts, eqVars, dqVars>>

(* Fault: no NotifyDequeue.                                                *)
TryDequeueUnnotified(t) ==
  /\ pc[t] = "try" /\ op[t] \in Deque!Take /\ holder = None
  /\ \/ /\ 0 < usedCount
        /\ out' = [out EXCEPT ![t] = buffer[firstIndex]]
        /\ firstIndex' = (firstIndex + 1) % Size
        /\ usedCount' = usedCount - 1
        /\ Goto(t, "done")
        /\ UNCHANGED <<buffer, holder, op, data>>
     \/ 0 >= usedCount /\ Refused(t)
  /\ UNCHANGED <<waitCounts, eqVars, dqVars>>

TryDequeue(t) ==
  /\ pc[t] = "try" /\ op[t] \in Deque!Take /\ holder = None
  /\ \/ /\ 0 < usedCount
        /\ out' = [out EXCEPT ![t] = buffer[firstIndex]]
        /\ firstIndex' = (firstIndex + 1) % Size
        /\ usedCount' = usedCount - 1
        /\ holder' = t
        /\ Goto(t, "notify")
        /\ UNCHANGED <<buffer, op, data>>
     \/ 0 >= usedCount /\ Refused(t)
  /\ UNCHANGED <<waitCounts, eqVars, dqVars>>

(* TryGetFront notifies nobody.                                            *)
TryGetFront(t) ==
  /\ pc[t] = "try" /\ op[t] \in Deque!Front /\ holder = None
  /\ \/ /\ 0 < usedCount
        /\ out' = [out EXCEPT ![t] = buffer[firstIndex]]
        /\ Goto(t, "done")
        /\ UNCHANGED <<ring, holder, op, data>>
     \/ 0 >= usedCount /\ Refused(t)
  /\ UNCHANGED <<waitCounts, eqVars, dqVars>>

(* Fault: the only waiting caller is not notified.                         *)
NotifyOffByOne(t) ==
  /\ pc[t] = "notify"
  /\ IF (IF op[t] \in Deque!Puts THEN waitingEnqueueCount ELSE waitingDequeueCount) > 1
     THEN Goto(t, "release") /\ UNCHANGED holder
     ELSE Goto(t, "done") /\ holder' = None
  /\ UNCHANGED <<ring, waitCounts, eqVars, dqVars, call>>

(* NotifyEnqueue after a put, NotifyDequeue after a take: the count is     *)
(* read inside the section; with nobody counted the section is left.       *)
Notify(t) ==
  /\ pc[t] = "notify"
  /\ IF (IF op[t] \in Deque!Puts THEN waitingEnqueueCount ELSE waitingDequeueCount) > 0
     THEN Goto(t, "release") /\ UNCHANGED holder
     ELSE Goto(t, "done") /\ holder' = None
  /\ UNCHANGED <<ring, waitCounts, eqVars, dqVars, call>>

(* A step of Release on the semaphore; with the last one the section is    *)
(* left.                                                                   *)
Released(t, semaphorePc) ==
  IF semaphorePc = "idle" THEN Goto(t, "done") /\ holder' = None
                          ELSE UNCHANGED <<pc, holder>>

ReleaseEnqueueSemaphore(t) ==
  /\ pc[t] = "release" /\ op[t] \in Deque!Puts
  /\ \/ EnqueueSemaphore!Release(t, 1)
     \/ EnqueueSemaphore!LookForWaiters(t)
     \/ EnqueueSemaphore!Signal(t)
  /\ Released(t, eqPc'[t])
  /\ UNCHANGED <<ring, waitCounts, dqVars, call>>

ReleaseDequeueSemaphore(t) ==
  /\ pc[t] = "release" /\ op[t] \in Deque!Gets
  /\ \/ DequeueSemaphore!Release(t, 1)
     \/ DequeueSemaphore!LookForWaiters(t)
     \/ DequeueSemaphore!Signal(t)
  /\ Released(t, dqPc'[t])
  /\ UNCHANGED <<ring, waitCounts, eqVars, call>>

(* A step of Acquire on the semaphore; with the last one the caller tries  *)
(* again.                                                                  *)
AcquireEnqueueSemaphore(t) ==
  /\ pc[t] = "wait" /\ op[t] \in Deque!Gets
  /\ \/ EnqueueSemaphore!Acquire(t)
     \/ EnqueueSemaphore!Announce(t)
     \/ EnqueueSemaphore!Wait(t)
     \/ EnqueueSemaphore!Withdraw(t)
  /\ Goto(t, IF eqPc'[t] = "idle" THEN "try" ELSE "wait")
  /\ UNCHANGED <<ring, holder, waitCounts, dqVars, call>>

AcquireDequeueSemaphore(t) ==
  /\ pc[t] = "wait" /\ op[t] \in Deque!Puts
  /\ \/ DequeueSemaphore!Acquire(t)
     \/ DequeueSemaphore!Announce(t)
     \/ DequeueSemaphore!Wait(t)
     \/ DequeueSemaphore!Withdraw(t)
  /\ Goto(t, IF dqPc'[t] = "idle" THEN "try" ELSE "wait")
  /\ UNCHANGED <<ring, holder, waitCounts, eqVars, call>>

(* The end of a call; a blocking one takes itself off the count.           *)
Done(t) ==
  /\ pc[t] = "done"
  /\ waitingDequeueCount' =
       waitingDequeueCount - (IF op[t] \in Deque!Puts \cap Deque!Blocking THEN 1 ELSE 0)
  /\ waitingEnqueueCount' =
       waitingEnqueueCount - (IF op[t] \in Deque!Gets \cap Deque!Blocking THEN 1 ELSE 0)
  /\ Finished(t)
  /\ Goto(t, "idle")
  /\ UNCHANGED <<ring, holder, eqVars, dqVars>>

Try(t) == TryEnqueue(t) \/ TryJam(t) \/ ForceEnqueue(t) \/ TryDequeue(t) \/ TryGetFront(t)

Step(t) ==
  \/ Try(t) \/ Notify(t) \/ Done(t)
  \/ ReleaseEnqueueSemaphore(t) \/ ReleaseDequeueSemaphore(t)
  \/ AcquireEnqueueSemaphore(t) \/ AcquireDequeueSemaphore(t)

Next == \E t \in Threads : BeginPut(t) \/ BeginGet(t) \/ Step(t)

Spec == Init /\ [][Next]_vars

(* A thread in the middle of a call runs on.  Nothing more is assumed: the *)
(* section may be taken by others whenever it is free.                     *)
FairSpec == Spec /\ \A t \in Threads : WF_vars(Step(t))

-----------------------------------------------------------------------------
TypeOK ==
  /\ buffer \in [0 .. Size - 1 -> Values \cup {None}]
  /\ firstIndex \in 0 .. Size - 1 /\ usedCount \in 0 .. Size
  /\ holder \in Threads \cup {None}
  /\ waitingEnqueueCount \in 0 .. Cardinality(Threads)
  /\ waitingDequeueCount \in 0 .. Cardinality(Threads)
  /\ EnqueueSemaphore!TypeOK /\ DequeueSemaphore!TypeOK
  /\ op \in [Threads -> (UNION {Calls[t] : t \in Threads}) \cup {None}]
  /\ data \in [Threads -> Values \cup {None}] /\ out \in [Threads -> Values \cup {None}]
  /\ pc \in [Threads -> Places]

(* The ring buffer is a bounded queue with two ends, whatever the threads: *)
(* each call takes effect once, on the right end, and a Try variant        *)
(* refuses only when the queue is full (or empty) at that moment.          *)
ImplementsBoundedDeque == Deque!Spec

(* No item is left lying for callers that wait for one.  While a caller    *)
(* that found the queue empty still waits for the semaphore, every item is *)
(* matched by a token in the semaphore, by a getter that is about to try,  *)
(* or by a putter that is about to release a token.                        *)
NumGettersTrying == Cardinality({t \in Threads : op[t] \in Deque!Take /\ pc[t] = "try"})
NumPutsNotified  == Cardinality({t \in Threads : /\ op[t] \in Deque!Puts
                                                /\ pc[t] \in {"notify", "release"}
                                                /\ eqPc[t] = "idle"})

NoItemStranded ==
  (\E t \in Threads : op[t] \in Deque!Take /\ pc[t] = "wait") =>
    usedCount <= eqCount + NumGettersTrying + NumPutsNotified

(* A caller blocked on an empty queue is not forgotten when an item comes, *)
(* nor one blocked on a full queue when a slot comes free: some call of    *)
(* its kind succeeds.                                                      *)
WaitersAreServed ==
  /\ (usedCount > 0 /\ \E t \in Threads : op[t] \in Deque!Gets /\ pc[t] = "wait")
       ~> (\E t \in Threads : op[t] \in Deque!Gets /\ out[t] # None)
  /\ (usedCount < Size /\ \E t \in Threads : op[t] \in Deque!Puts /\ pc[t] = "wait")
       ~> (\E t \in Threads : op[t] \in Deque!Puts /\ data[t] = None)

=============================================================================

------------------------- MODULE InterruptReceiver --------------------------
(***************************************************************************)
(* nn::gxlow::CTR::InterruptReceiver: the thread that takes the graphics   *)
(* interrupts out of a queue in memory shared with the graphics server and *)
(* calls the handlers registered for them, and WaitAnyHandlerDone, with    *)
(* which an application thread sleeps until some handler has run.          *)
(*                                                                         *)
(* The server is not under src: it puts an interrupt in the queue, if      *)
(* there is room, and then signals the event, as the receiver expects it.  *)
(* The control word of the queue is changed by load-exclusive / store-     *)
(* exclusive loops on either side, each one action here; the emptiness     *)
(* test and the read of the item are plain loads, actions of their own.    *)
(* m_HandlerLock and m_AnyHandlerDoneEvent stand for what CriticalSection  *)
(* and LightEvent promise.                                                 *)
(***************************************************************************)
EXTENDS Integers, Sequences

CONSTANTS
  Interrupts,       \* the interrupts that occur here, among nngxlowInterrupt
  PdcInterrupts,    \* those that SuppressPdcEvents turns off
  NoInterrupt,
  Handlers, NoHandler,
  QUEUE_LENGTH,
  Waiters           \* the threads that call WaitAnyHandlerDone

ASSUME InterruptsAreNamed == PdcInterrupts \subseteq Interrupts /\ NoInterrupt \notin Interrupts
ASSUME HandlersAreNamed   == NoHandler \notin Handlers
ASSUME QueueHasRoom       == QUEUE_LENGTH \in Nat \ {0}
(* There is one status and one event that resets itself, for one thread.   *)
ASSUME OneWaiter          == \A v, w \in Waiters : v = w

VARIABLES
  data, head, usedCount, suppressPdc,   \* the relay queue: m_RelayQ.m_pBody
  posting,              \* the server has put an interrupt and not yet signalled
  rxSignaled,           \* m_RxEvent
  receiver,             \* where the receiver thread is
  src,                  \* the interrupt it took last
  table,                \* m_InterruptHandlerTable
  running,              \* the handler being run, or NoHandler
  handlerWaitStatus,    \* m_HandlerWaitStatus
  doneSignaled,         \* m_AnyHandlerDoneEvent
  waiter,               \* waiter[w]: where w is in WaitAnyHandlerDone
  finalizer,            \* where the caller of Finalize is
  finalizeRequest       \* m_FinalizeRequest

queue    == <<data, head, usedCount, suppressPdc>>
rxVars   == <<posting, rxSignaled, src>>
handlers == <<table, running>>
waiting  == <<handlerWaitStatus, doneSignaled, waiter>>
ending   == <<finalizer, finalizeRequest>>
vars == <<queue, rxVars, receiver, handlers, waiting, ending>>

Status == {"NOT_WAITING", "WAITING", "ANY_HANDLER_DONE"}

ReceiverPlaces == {"wait", "clear", "test", "drain", "read", "pop", "lock", "call", "run",
                   "status", "signal", "unlock", "exited"}
(* m_HandlerLock is held by the receiver from LockTable to UnlockTable; the *)
(* others do all they do under it in one action.                           *)
TableIsLocked == receiver \in {"call", "run", "status", "signal", "unlock"}

FinalizerPlaces == {"notCalled", "signal", "join", "finalized"}

(* Initialize: the thread is started, no handler is registered yet.        *)
Init ==
  /\ data = [k \in 0 .. QUEUE_LENGTH - 1 |-> NoInterrupt]
  /\ head = 0 /\ usedCount = 0 /\ suppressPdc = FALSE
  /\ posting = FALSE /\ rxSignaled = FALSE /\ src = NoInterrupt
  /\ receiver = "wait"
  /\ table = [i \in Interrupts |-> NoHandler]
  /\ running = NoHandler
  /\ handlerWaitStatus = "NOT_WAITING" /\ doneSignaled = FALSE
  /\ waiter = [w \in Waiters |-> "idle"]
  /\ finalizer = "notCalled" /\ finalizeRequest = FALSE

(* The server.  An interrupt that finds the queue full, and one that is    *)
(* suppressed, are dropped.                                                *)
Post(i) ==
  /\ ~posting
  /\ usedCount < QUEUE_LENGTH
  /\ i \in PdcInterrupts => ~suppressPdc
  /\ data' = [data EXCEPT ![(head + usedCount) % QUEUE_LENGTH] = i]
  /\ usedCount' = usedCount + 1
  /\ posting' = TRUE
  /\ UNCHANGED <<head, suppressPdc, rxSignaled, src, receiver, handlers, waiting, ending>>

SignalRx ==
  /\ posting
  /\ posting' = FALSE
  /\ rxSignaled' = TRUE
  /\ UNCHANGED <<queue, src, receiver, handlers, waiting, ending>>

SuppressPdcEvents ==
  /\ finalizer # "finalized"
  /\ suppressPdc' \in BOOLEAN
  /\ UNCHANGED <<data, head, usedCount, rxVars, receiver, handlers, waiting, ending>>

(* ReceiverThreadFunc: m_RxEvent, which Wait resets, is cleared once more. *)
Wait ==
  /\ receiver = "wait" /\ rxSignaled
  /\ rxSignaled' = FALSE
  /\ receiver' = "clear"
  /\ UNCHANGED <<queue, posting, src, handlers, waiting, ending>>

ClearSignal ==
  /\ receiver = "clear"
  /\ rxSignaled' = FALSE
  /\ receiver' = "test"
  /\ UNCHANGED <<queue, posting, src, handlers, waiting, ending>>

TestFinalize ==
  /\ receiver = "test"
  /\ receiver' = IF finalizeRequest THEN "exited" ELSE "drain"
  /\ UNCHANGED <<queue, rxVars, handlers, waiting, ending>>

(* Fault: the event is cleared after the queue was found empty.            *)
DrainThenClear ==
  /\ receiver = "drain"
  /\ receiver' = IF usedCount = 0 THEN "wait" ELSE "read"
  /\ rxSignaled' = (rxSignaled /\ usedCount # 0)
  /\ UNCHANGED <<queue, posting, src, handlers, waiting, ending>>

(* TryDequeue: is the queue empty, which item is first, and take it off.   *)
Drain ==
  /\ receiver = "drain"
  /\ receiver' = IF usedCount = 0 THEN "wait" ELSE "read"
  /\ UNCHANGED <<queue, rxVars, handlers, waiting, ending>>

(* Fault: the item put in last is read.                                    *)
ReadLast ==
  /\ receiver = "read"
  /\ src' = data[(head + usedCount - 1) % QUEUE_LENGTH]
  /\ receiver' = "pop"
  /\ UNCHANGED <<queue, posting, rxSignaled, handlers, waiting, ending>>

Read ==
  /\ receiver = "read"
  /\ src' = data[head]
  /\ receiver' = "pop"
  /\ UNCHANGED <<queue, posting, rxSignaled, handlers, waiting, ending>>

(* Fault: the head moves on without wrapping round.                        *)
PopUnwrapped ==
  /\ receiver = "pop"
  /\ head' = head + 1
  /\ usedCount' = usedCount - 1
  /\ receiver' = "lock"
  /\ UNCHANGED <<data, suppressPdc, rxVars, handlers, waiting, ending>>

Pop ==
  /\ receiver = "pop"
  /\ head' = (head + 1) % QUEUE_LENGTH
  /\ usedCount' = usedCount - 1
  /\ receiver' = "lock"
  /\ UNCHANGED <<data, suppressPdc, rxVars, handlers, waiting, ending>>

(* CallHandlerFunc, all of it under m_HandlerLock: the handler, then the   *)
(* status, then the event if a thread waits for it.                        *)
LockTable ==
  /\ receiver = "lock"
  /\ receiver' = "call"
  /\ UNCHANGED <<queue, rxVars, handlers, waiting, ending>>

CallHandler ==
  /\ receiver = "call"
  /\ running' = table[src]
  /\ receiver' = IF table[src] = NoHandler THEN "status" ELSE "run"
  /\ UNCHANGED <<queue, rxVars, table, waiting, ending>>

HandlerReturns ==
  /\ receiver = "run"
  /\ running' = NoHandler
  /\ receiver' = "status"
  /\ UNCHANGED <<queue, rxVars, table, waiting, ending>>

SetStatus ==
  /\ receiver = "status"
  /\ handlerWaitStatus' = "ANY_HANDLER_DONE"
  /\ receiver' = IF handlerWaitStatus = "WAITING" THEN "signal" ELSE "unlock"
  /\ UNCHANGED <<queue, rxVars, handlers, doneSignaled, waiter, ending>>

SignalDone ==
  /\ receiver = "signal"
  /\ doneSignaled' = TRUE
  /\ receiver' = "unlock"
  /\ UNCHANGED <<queue, rxVars, handlers, handlerWaitStatus, waiter, ending>>

(* Fault: one interrupt is handled for each signal.                        *)
UnlockToWait ==
  /\ receiver = "unlock"
  /\ receiver' = "wait"
  /\ UNCHANGED <<queue, rxVars, handlers, waiting, ending>>

UnlockTable ==
  /\ receiver = "unlock"
  /\ receiver' = "drain"
  /\ UNCHANGED <<queue, rxVars, handlers, waiting, ending>>

(* Fault: the table is changed without the lock.                           *)
RegisterUnlocked(i, h) ==
  /\ finalizer # "finalized"
  /\ table' = [table EXCEPT ![i] = h]
  /\ UNCHANGED <<queue, rxVars, receiver, running, waiting, ending>>

RegisterInterruptHandler(i, h) ==
  /\ finalizer # "finalized" /\ ~TableIsLocked
  /\ table' = [table EXCEPT ![i] = h]
  /\ UNCHANGED <<queue, rxVars, receiver, running, waiting, ending>>

(* WaitAnyHandlerDone: a handler that has run since the last call lets it  *)
(* return at once; otherwise the thread sleeps on the event.               *)
WaitAnyHandlerDone(w) ==
  /\ finalizer # "finalized" /\ ~TableIsLocked
  /\ waiter[w] = "idle"
  /\ \/ /\ handlerWaitStatus # "ANY_HANDLER_DONE"
        /\ handlerWaitStatus' = "WAITING"
        /\ waiter' = [waiter EXCEPT ![w] = "sleep"]
     \/ /\ handlerWaitStatus = "ANY_HANDLER_DONE"
        /\ handlerWaitStatus' = "NOT_WAITING"
        /\ UNCHANGED waiter
  /\ UNCHANGED <<queue, rxVars, receiver, handlers, doneSignaled, ending>>

WakeUp(w) ==
  /\ waiter[w] = "sleep" /\ doneSignaled
  /\ doneSignaled' = FALSE
  /\ waiter' = [waiter EXCEPT ![w] = "idle"]
  /\ UNCHANGED <<queue, rxVars, receiver, handlers, handlerWaitStatus, ending>>

(* Finalize: ask the receiver to end, wait until it has, clear the table.  *)
Finalize ==
  /\ finalizer = "notCalled"
  /\ finalizeRequest' = TRUE
  /\ finalizer' = "signal"
  /\ UNCHANGED <<queue, rxVars, receiver, handlers, waiting>>

(* Fault: the receiver is not signalled.                                   *)
JoinUnsignalled ==
  /\ finalizer = "signal"
  /\ finalizer' = "join"
  /\ UNCHANGED <<queue, rxVars, receiver, handlers, waiting, finalizeRequest>>

SignalFinalize ==
  /\ finalizer = "signal"
  /\ rxSignaled' = TRUE
  /\ finalizer' = "join"
  /\ UNCHANGED <<queue, posting, src, receiver, handlers, waiting, finalizeRequest>>

Join ==
  /\ finalizer = "join" /\ receiver = "exited"
  /\ table' = [i \in Interrupts |-> NoHandler]
  /\ finalizer' = "finalized"
  /\ UNCHANGED <<queue, rxVars, receiver, running, waiting, finalizeRequest>>

Receive ==
  \/ Wait \/ ClearSignal \/ TestFinalize \/ Drain \/ Read \/ Pop
  \/ LockTable \/ CallHandler \/ HandlerReturns
  \/ SetStatus \/ SignalDone \/ UnlockTable

Next ==
  \/ \E i \in Interrupts : Post(i)
  \/ SignalRx \/ SuppressPdcEvents \/ Receive
  \/ \E i \in Interrupts, h \in Handlers \cup {NoHandler} : RegisterInterruptHandler(i, h)
  \/ \E w \in Waiters : WaitAnyHandlerDone(w) \/ WakeUp(w)
  \/ Finalize \/ SignalFinalize \/ Join

Spec == Init /\ [][Next]_vars

(* The server signals what it posted, the threads run on, handlers return. *)
FairSpec ==
  /\ Spec
  /\ WF_vars(SignalRx)
  /\ WF_vars(Receive)
  /\ \A w \in Waiters : WF_vars(WakeUp(w))
  /\ WF_vars(SignalFinalize \/ Join)

-----------------------------------------------------------------------------
TypeOK ==
  /\ data \in [0 .. QUEUE_LENGTH - 1 -> Interrupts \cup {NoInterrupt}]
  /\ head \in 0 .. QUEUE_LENGTH - 1 /\ usedCount \in 0 .. QUEUE_LENGTH
  /\ suppressPdc \in BOOLEAN /\ posting \in BOOLEAN /\ rxSignaled \in BOOLEAN
  /\ src \in Interrupts \cup {NoInterrupt}
  /\ receiver \in ReceiverPlaces
  /\ table \in [Interrupts -> Handlers \cup {NoHandler}]
  /\ running \in Handlers \cup {NoHandler}
  /\ handlerWaitStatus \in Status
  /\ doneSignaled \in BOOLEAN
  /\ waiter \in [Waiters -> {"idle", "sleep"}]
  /\ finalizer \in FinalizerPlaces /\ finalizeRequest \in BOOLEAN

(* Neither the receiver nor the thread in WaitAnyHandlerDone sleeps over   *)
(* what it waits for: an interrupt in the queue, a request to end, or a    *)
(* handler that has run, each comes with a signal given or on its way.     *)
NoWakeupIsLost ==
  /\ receiver = "wait" /\ (usedCount > 0 \/ finalizer = "join") => rxSignaled \/ posting
  /\ \A w \in Waiters :
       waiter[w] = "sleep" /\ handlerWaitStatus # "WAITING" =>
         doneSignaled \/ receiver = "signal"

(* A handler does not run once RegisterInterruptHandler has replaced it:   *)
(* the caller may take away what the old handler works on.                 *)
RunningHandlerIsRegistered == running # NoHandler => running = table[src]

(* The interrupts in the queue, and before them the one taken last that is *)
(* not being dealt with yet; the one that is; and the threads that no      *)
(* handler has been done for since they began to wait.                     *)
Queued   == [k \in 1 .. usedCount |-> data[(head + k - 1) % QUEUE_LENGTH]]
Pending  == (IF receiver = "lock" THEN <<src>> ELSE <<>>) \o Queued
Handling == IF receiver \in {"call", "run", "status"} THEN src ELSE NoInterrupt
Asleep   == IF handlerWaitStatus = "WAITING"
              THEN {w \in Waiters : waiter[w] = "sleep"} ELSE {}

(* Interrupts are handled in the order the server posted them, each once,  *)
(* though the queue is read with plain loads while the server adds to it;  *)
(* and WaitAnyHandlerDone, which keeps a status and an event, misses no    *)
(* handler that was done.                                                  *)
Delivery == INSTANCE InterruptDelivery WITH
  pending <- Pending, handling <- Handling, asleep <- Asleep,
  handlerDone <- handlerWaitStatus = "ANY_HANDLER_DONE", stopped <- receiver = "exited"

ImplementsInterruptDelivery == Delivery!Spec

(* An interrupt in the queue is taken, unless the receiver is told to end. *)
InterruptsAreTaken == usedCount > 0 ~> (receiver = "pop" \/ finalizeRequest)

(* The thread in WaitAnyHandlerDone goes on when a handler has run, and    *)
(* Finalize returns if the interrupts do not go on for ever: the receiver  *)
(* empties the queue before it looks at the request again.                 *)
WaitsEnd ==
  /\ \A w \in Waiters : (waiter[w] = "sleep" /\ receiver = "status") ~> waiter[w] = "idle"
  /\ <>[]~posting => (finalizeRequest ~> finalizer = "finalized")

=============================================================================

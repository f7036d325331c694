------------------------- MODULE InterruptDelivery --------------------------
(***************************************************************************)
(* What the delivery of interrupts promises: each interrupt that was       *)
(* accepted is handled once, in the order of acceptance, one at a time,    *)
(* until the delivery is stopped; and a thread that waits for a handler to *)
(* be done is told of the first one that is done after its last wait.      *)
(***************************************************************************)
EXTENDS Sequences

CONSTANTS Interrupts, NoInterrupt, Waiters

VARIABLES
  pending,      \* the interrupts accepted and not yet taken
  handling,     \* the one that was taken and is not yet dealt with
  handlerDone,  \* has a handler been done that no wait has returned for?
  asleep,       \* the threads that wait for one to be done
  stopped       \* no more interrupts are taken

vars == <<pending, handling, handlerDone, asleep, stopped>>

Init ==
  /\ pending = <<>> /\ handling = NoInterrupt
  /\ handlerDone = FALSE /\ asleep = {} /\ stopped = FALSE

Accept(i) ==
  /\ pending' = Append(pending, i)
  /\ UNCHANGED <<handling, handlerDone, asleep, stopped>>

Begin ==
  /\ handling = NoInterrupt /\ pending # <<>> /\ ~stopped
  /\ handling' = Head(pending)
  /\ pending' = Tail(pending)
  /\ UNCHANGED <<handlerDone, asleep, stopped>>

End ==
  /\ handling # NoInterrupt
  /\ handling' = NoInterrupt
  /\ handlerDone' = TRUE
  /\ asleep' = {}
  /\ UNCHANGED <<pending, stopped>>

WaitAnyHandlerDone(w) ==
  /\ handling = NoInterrupt /\ w \notin asleep
  /\ IF handlerDone
       THEN handlerDone' = FALSE /\ UNCHANGED asleep
       ELSE asleep' = asleep \cup {w} /\ UNCHANGED handlerDone
  /\ UNCHANGED <<pending, handling, stopped>>

Stop ==
  /\ handling = NoInterrupt /\ ~stopped
  /\ stopped' = TRUE
  /\ UNCHANGED <<pending, handling, handlerDone, asleep>>

Next ==
  \/ \E i \in Interrupts : Accept(i)
  \/ Begin \/ End \/ Stop
  \/ \E w \in Waiters : WaitAnyHandlerDone(w)

Spec == Init /\ [][Next]_vars

=============================================================================

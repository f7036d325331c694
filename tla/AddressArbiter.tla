--------------------------- MODULE AddressArbiter ---------------------------
(***************************************************************************)
(* The kernel object every lock of nn::os sleeps on.  It is not under src: *)
(* it is modelled from the way nn::os::WaitableCounter calls it through    *)
(* svc::ArbitrateAddress.  A thread that waits on a counter is asleep from *)
(* the atomic comparison that put it to sleep until a signal wakes it.     *)
(***************************************************************************)
EXTENDS Integers, FiniteSets

(* The comparison of WAIT_IF_LESS_THAN, made by the kernel in one step with *)
(* the decision to sleep: the caller goes to sleep exactly when it holds.   *)
Sleeps(counter, value) == counter < value

(* SIGNAL with a count of n wakes n of the sleeping threads, every one of  *)
(* them when there are fewer, and every one when n is negative.  Which     *)
(* ones is the kernel's choice.                                            *)
NumWoken(asleep, n) ==
  IF n < 0 \/ n > Cardinality(asleep) THEN Cardinality(asleep) ELSE n

WakeSets(asleep, n) ==
  {W \in SUBSET asleep : Cardinality(W) = NumWoken(asleep, n)}

=============================================================================

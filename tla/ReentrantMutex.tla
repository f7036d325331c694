--------------------------- MODULE ReentrantMutex ---------------------------
(***************************************************************************)
(* What a recursive lock promises: the thread that is in may enter again,  *)
(* and no other thread gets in before it has left as often as it entered.  *)
(***************************************************************************)
EXTENDS Naturals

CONSTANT Threads

VARIABLE depth      \* depth[t]: entries of t that it has not left yet

Init == depth = [t \in Threads |-> 0]

EnterOnce(t) ==
  /\ \A u \in Threads \ {t} : depth[u] = 0
  /\ depth' = [depth EXCEPT ![t] = @ + 1]

LeaveOnce(t) ==
  /\ depth[t] > 0
  /\ depth' = [depth EXCEPT ![t] = @ - 1]

Next == \E t \in Threads : EnterOnce(t) \/ LeaveOnce(t)

Spec == Init /\ [][Next]_depth

=============================================================================

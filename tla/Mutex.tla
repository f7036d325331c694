------------------------------- MODULE Mutex --------------------------------
(***************************************************************************)
(* What a lock promises its users, with nothing of how it is built: at     *)
(* most one thread is in, a thread that asked for the lock is let in while *)
(* no other is, and a thread leaves only when it was in.                   *)
(***************************************************************************)
CONSTANT Threads

VARIABLE mode       \* mode[t]: t is "out", "waiting" to get in, or "in"

Free == \A t \in Threads : mode[t] # "in"

Init == mode = [t \in Threads |-> "out"]

Ask(t) ==
  /\ mode[t] = "out"
  /\ mode' = [mode EXCEPT ![t] = "waiting"]

(* A thread that asked is let in; one that only tries is let in at once.   *)
LetIn(t) ==
  /\ mode[t] # "in"
  /\ Free
  /\ mode' = [mode EXCEPT ![t] = "in"]

GetOut(t) ==
  /\ mode[t] = "in"
  /\ mode' = [mode EXCEPT ![t] = "out"]

Next == \E t \in Threads : Ask(t) \/ LetIn(t) \/ GetOut(t)

Spec == Init /\ [][Next]_mode

=============================================================================

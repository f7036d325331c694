-------------------------- MODULE MCBlockingQueue ---------------------------
(* BlockingQueue with two divisions of labour: which thread calls which    *)
(* operations.                                                             *)
EXTENDS BlockingQueue

CONSTANTS a, b, c, v1, v2

MCThreads == {a, b, c}

(* Every operation: a putter, a getter, and a thread that displaces items  *)
(* and takes them.                                                         *)
MCAllCalls ==
  [t \in MCThreads |->
     CASE t = a -> Deque!Puts
       [] t = b -> {"ForceEnqueue", "TryDequeue"}
       [] t = c -> Deque!Gets]

(* The calls that block, with two threads that may wait for an item or for *)
(* a slot at the same time.  No GetFront: it takes a token and no item.    *)
MCBlockingCalls ==
  [t \in MCThreads |->
     CASE t = a -> {"Enqueue"}
       [] t = b -> {"Enqueue", "Jam", "Dequeue"}
       [] t = c -> {"Dequeue"}]

=============================================================================

--------------------------- MODULE MCCommandList ----------------------------
(* CommandList with a list of three requests and one of one, two requests  *)
(* ahead, and queues of the least size that suffices for them.             *)
EXTENDS CommandList

CONSTANTS l1, l2

MCMaxRequests == [l \in Lists |-> IF l = l1 THEN 3 ELSE 1]

=============================================================================

-------------------------- MODULE MCLightSemaphore --------------------------
(* LightSemaphore with a few threads that release one or two permits of a  *)
(* semaphore that holds at most three.                                     *)
EXTENDS LightSemaphore

CONSTANTS t1, t2, t3, t4

MCThreads == {t1, t2, t3, t4}
MCReleaseCounts == {1, 2}

=============================================================================

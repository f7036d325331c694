-------------------------- MODULE MCCriticalSection -------------------------
(* CriticalSection with four threads that nest two entries.               *)
EXTENDS CriticalSection

CONSTANTS t1, t2, t3, t4

MCThreads == {t1, t2, t3, t4}

=============================================================================

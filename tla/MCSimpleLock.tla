---------------------------- MODULE MCSimpleLock ----------------------------
(* SimpleLock with a few threads.                                          *)
EXTENDS SimpleLock

CONSTANTS t1, t2, t3, t4

MCThreads == {t1, t2, t3, t4}

=============================================================================

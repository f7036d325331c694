---------------------------- MODULE MCLightEvent ----------------------------
(* LightEvent with a few threads, each of which waits, signals and clears. *)
EXTENDS LightEvent

CONSTANTS t1, t2, t3, t4

MCThreads == {t1, t2, t3, t4}

=============================================================================

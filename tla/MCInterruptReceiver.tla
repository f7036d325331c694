------------------------ MODULE MCInterruptReceiver -------------------------
(* InterruptReceiver with a short queue, one interrupt that is never       *)
(* suppressed and one that may be, and the one thread that the graphics    *)
(* library has wait for a handler.                                         *)
EXTENDS InterruptReceiver

CONSTANTS p3d, pdc, h1, h2, app

=============================================================================

---------------------------- MODULE MCEventQueue ----------------------------
(* EventQueue with two waiting threads and two event types.                *)
EXTENDS EventQueue
CONSTANTS w1, w2
MCWaiters == {w1, w2}
=============================================================================

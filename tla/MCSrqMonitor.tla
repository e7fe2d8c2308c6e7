---------------------------- MODULE MCSrqMonitor ----------------------------
(* SrqMonitor with two application threads.                                *)
EXTENDS SrqMonitorRaces
CONSTANTS u1, u2
MCTwoUsers == {u1, u2}
=============================================================================

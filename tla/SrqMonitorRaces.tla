-------------------------- MODULE SrqMonitorRaces ---------------------------
(***************************************************************************)
(* SrqMonitor with a history of the steps that take the enabled mechanisms *)
(* and the monitor apart: an exception out of a start, and three races     *)
(* between the threads of an application.  Without one of them the two     *)
(* belong together.                                                        *)
(***************************************************************************)
EXTENDS SrqMonitor

VARIABLE raced

(* An instrument call or the look at the socket raised in a start.         *)
StartRaised ==
    \E u \in Users :
        /\ pc[u] \in {"build", "channel", "srq on"} /\ pc'[u] = "idle"

(* Another thread calls enable_event when disable_event has found nothing  *)
(* enabled and has not yet taken the monitor down, ...                     *)
EnabledInStop ==
    \E u, v \in Users :
        /\ pc[u] = "idle" /\ pc'[u] = "check"
        /\ pc[v] \in {"guard", "lock"} \cup Teardown

(* ... or a stop finds no monitor while another thread is starting one, ...*)
StoppedInStart ==
    \E u, v \in Users :
        /\ pc[u] = "guard" /\ server = 0 /\ pc'[u] # "guard"
        /\ pc[v] \in Setup \cup {"build"}

(* ... or a failed start takes mechanisms back after another thread's      *)
(* start of the same monitor succeeded, or in the middle of it.            *)
TookBack ==
    \E u \in Users :
        /\ pc[u] = "rollback" /\ pc'[u] = "idle"
        /\ server # 0 \/ \E v \in Users \ {u} : life = v

RacesInit == Init /\ raced = FALSE

RacesNext ==
    /\ Next
    /\ raced' = (raced \/ StartRaised \/ EnabledInStop \/ StoppedInStart \/ TookBack)

RacesSpec == RacesInit /\ [][RacesNext]_<<vars, raced>> /\ Fairness

-----------------------------------------------------------------------------
(* Between calls of the application, whatever status the instrument        *)
(* answered, a monitor runs exactly when some mechanism is enabled: only   *)
(* an exception out of a start or one of the three races above takes the   *)
(* two apart.                                                              *)
MatchesUnlessRaced == raced \/ MonitorMatchesEnabled
=============================================================================

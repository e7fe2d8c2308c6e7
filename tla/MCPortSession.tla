--------------------------- MODULE MCPortSession ----------------------------
(***************************************************************************)
(* SerialSession, GpibSession, the descriptors of gpib.py and RemoteLocal, *)
(* checked side by side: a behaviour is one of the four, and the other     *)
(* three stay in an initial state.                                         *)
(***************************************************************************)
EXTENDS MCSerialSession, GpibSession, GpibHandles, RemoteLocal

VARIABLE kind

SerialIdle ==
    /\ endIn = "last_bit" /\ endOut = "none" /\ ~ sendEnd /\ suppress
    /\ bits = 7 /\ timeout = "infinite"

MCInit ==
    /\ kind \in {"serial", "gpib", "handles", "ren"}
    /\ Init /\ GInit /\ HInit /\ RInit
    /\ kind # "serial" => SerialIdle
    /\ kind # "ren" => via = "hislip"
    /\ sendEnd => endOut \in {"last_bit", "termination_char"}     \* else it changes nothing

MCNext ==
    \/ kind = "serial" /\ Next /\ UNCHANGED <<kind, gvars, hvars, rvars>>
    \/ kind = "gpib" /\ GNext /\ UNCHANGED <<kind, vars, hvars, rvars>>
    \/ kind = "handles" /\ HNext /\ UNCHANGED <<kind, vars, gvars, rvars>>
    \/ kind = "ren" /\ RNext /\ UNCHANGED <<kind, vars, gvars, hvars>>

MCSpec ==
    /\ MCInit /\ [][MCNext]_<<kind, vars, gvars, hvars, rvars>>
    /\ Fairness /\ GFairness

-----------------------------------------------------------------------------
(* SerialSession and GpibSession: reads return the bytes in order, as      *)
(* MessageRead says.                                                       *)
PortReadsInOrder == ReadsInOrder /\ DriverReadsInOrder

(* SerialSession and GpibSession: reads that have a time limit end.        *)
PortCallsEnd == CallsEnd /\ DriverCallsEnd
=============================================================================

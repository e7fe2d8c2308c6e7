---------------------------- MODULE MCTcpClients ----------------------------
(***************************************************************************)
(* The clients of a TCP or UDP socket, checked side by side: RpcClient     *)
(* with two threads, TcpOpen, Discovery and RawSocket.  A behaviour is one *)
(* of the four, and the other three stay in an initial state.              *)
(***************************************************************************)
EXTENDS MCRpcClient, TcpOpen, Discovery, RawSocket

VARIABLE kind

MCInit ==
    /\ kind \in {"rpc", "open", "find", "socket"}
    /\ Init /\ OInit /\ DInit /\ SockInit
    /\ kind # "open" => via = "socket" /\ open_timeout = 0 /\ resolves
    /\ kind # "socket" => termEn /\ suppressEnd /\ timed

MCNext ==
    \/ kind = "rpc" /\ Next /\ UNCHANGED <<kind, ovars, dvars, sockvars>>
    \/ kind = "open" /\ ONext /\ UNCHANGED <<kind, vars, dvars, sockvars>>
    \/ kind = "find" /\ DNext /\ UNCHANGED <<kind, vars, ovars, sockvars>>
    \/ kind = "socket" /\ SockNext /\ UNCHANGED <<kind, vars, ovars, dvars>>

MCSpec ==
    /\ MCInit /\ [][MCNext]_<<kind, vars, ovars, dvars, sockvars>>
    /\ Fairness /\ OFairness /\ SockFairness

-----------------------------------------------------------------------------
(* Every call of the four ends: RPC calls, open(), reads of a raw socket   *)
(* with a time limit, and clears, unless one thread takes what the other's *)
(* select has found.                                                       *)
ClientCallsEnd == CallsEnd /\ OpenEnds /\ SockCallsEnd
=============================================================================

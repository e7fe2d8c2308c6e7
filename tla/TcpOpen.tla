------------------------------ MODULE TcpOpen -------------------------------
(***************************************************************************)
(* PyVisaLibrary.open of a TCPIP resource: the connections it makes one    *)
(* after the other, how long it waits for each, what it asks over them,    *)
(* and what the application is told when any of this fails.                *)
(*                                                                         *)
(*   VXI-11       connect to the port mapper, get_port, close; connect to  *)
(*                the core channel, create_link                            *)
(*   VXI-11 with a port number in the resource name: the second line only  *)
(*   HiSLIP       connect and initialize the synchronous channel, then the *)
(*                asynchronous one                                         *)
(*   raw socket   connect                                                  *)
(*                                                                         *)
(* Times are in milliseconds; only the waits that end without an answer    *)
(* are counted, each as long as its select may block.                      *)
(***************************************************************************)
EXTENDS Naturals, Sequences, FiniteSetsExt

CONSTANT OpenTimeouts       \* values of open_timeout; 0 also stands for None

ASSUME OpenTimeoutsAssumption == OpenTimeouts \subseteq Nat

Interfaces == {"vxi11", "vxi11 port", "hislip", "socket"}
Sockets == {"pmap", "core", "sync", "async", "raw"}

VARIABLES
    via,            \* what is opened
    open_timeout,
    resolves,       \* the name of the host can be resolved
    leg,            \* number of the connection under way, 0 before open()
    doing,          \* "connect", "wait", "ask", "over"
    sock,           \* the client's sockets: "none", "connecting", "open", "closed"
    peer,           \* what became of them: "none", "pending", "accepted", "refused"
    waited, slice,  \* time waited in this connect, and select_timeout
    outcome         \* of open(): "none", "success", "error" (VISA), "raised"

place == <<leg, doing>>
clock == <<waited, slice>>
what == <<via, open_timeout, resolves>>
ovars == <<what, place, sock, peer, clock, outcome>>

Legs(v) == CASE v = "vxi11" -> <<"pmap", "core">>
             [] v = "vxi11 port" -> <<"core">>
             [] v = "hislip" -> <<"sync", "async">>
             [] v = "socket" -> <<"raw">>
This == Legs(via)[leg]

(* connect_timeout, and the limits of the waits in _connect.               *)
DEFAULT_OPEN_TIMEOUT == 2000
Limit == IF open_timeout = 0 THEN DEFAULT_OPEN_TIMEOUT ELSE open_timeout
MinSelect == Max({Min({Limit \div 10, 500}), 100})
FirstSelect == Max({Min({Limit \div 2, 2000}), MinSelect})

OInit ==
    /\ via \in Interfaces /\ open_timeout \in OpenTimeouts /\ resolves \in BOOLEAN
    /\ leg = 0 /\ doing = "over"
    /\ sock = [s \in Sockets |-> "none"] /\ peer = [s \in Sockets |-> "none"]
    /\ waited = 0 /\ slice = 0
    /\ outcome = "none"

Ends(how) == outcome' = how /\ doing' = "over" /\ UNCHANGED leg
Goes(step) == doing' = step /\ UNCHANGED <<leg, outcome>>

Open ==
    /\ leg = 0
    /\ leg' = 1 /\ doing' = "connect"
    /\ UNCHANGED <<what, sock, peer, clock, outcome>>

-----------------------------------------------------------------------------
(* A plausible slip: the client is made outside of the try that turns an   *)
(* RPCError into an OpenError.                                             *)
ConnectFailsRaised == IF via = "hislip" THEN "error" ELSE "raised"

(* The VISA error of OpenError, or an Exception.                           *)
ConnectFails == IF via = "socket" THEN "raised" ELSE "error"

(* Only the constructor of HiSLIP leaves its socket as it is.              *)
CloseFailed == sock' = [sock EXCEPT ![This] = IF via = "hislip" THEN @ ELSE "closed"]

(* connect_ex raises when the name of the host is not known.  _connect of  *)
(* rpc.py closes the socket and returns False, but its "finally" calls     *)
(* setblocking() of the socket just closed, which raises OSError.          *)
Unresolved ==
    /\ doing = "connect" /\ ~ resolves
    /\ sock' = [sock EXCEPT ![This] = IF via = "socket" THEN "open" ELSE "closed"]
    /\ Ends(IF via = "hislip" THEN "error" ELSE "raised")
    /\ UNCHANGED <<what, peer, clock>>

Connect ==
    /\ doing = "connect" /\ resolves
    /\ sock' = [sock EXCEPT ![This] = "connecting"]
    /\ peer' = [peer EXCEPT ![This] = "pending"]
    /\ waited' = 0
    /\ slice' = IF via = "hislip" THEN Limit ELSE FirstSelect
    /\ Goes("wait")
    /\ UNCHANGED what

(* The host, or the network.                                               *)
Accept ==
    /\ doing = "wait" /\ peer[This] = "pending"
    /\ \E p \in {"accepted", "refused"} : peer' = [peer EXCEPT ![This] = p]
    /\ UNCHANGED <<what, place, sock, clock, outcome>>

(* A plausible slip, corrected in an earlier version: a socket that select *)
(* reports ready is taken for a connected one.                             *)
EstablishedIfReady == peer[This] # "pending"

(* A socket is ready for select when it is connected and when it was       *)
(* refused; SO_ERROR tells them apart.  The raw socket does not ask.       *)
Established == IF via = "socket" THEN peer[This] # "pending" ELSE peer[This] = "accepted"

Connected ==
    /\ doing = "wait" /\ Established
    /\ sock' = [sock EXCEPT ![This] = "open"]
    /\ IF via = "socket" THEN Ends("success") ELSE Goes("ask")
    /\ UNCHANGED <<what, peer, clock>>

Refused ==
    /\ doing = "wait" /\ peer[This] = "refused" /\ ~ Established
    /\ CloseFailed
    /\ Ends(ConnectFails)
    /\ UNCHANGED <<what, peer, clock>>

(* A plausible slip: every wait is as long as the first.                   *)
NextSliceSame == slice

NextSlice == Max({slice \div 2, MinSelect})

(* select returns without the socket, or connect times out (HiSLIP).       *)
Waited ==
    /\ doing = "wait" /\ peer[This] = "pending"
    /\ waited' = waited + slice
    /\ \/ /\ waited' >= Limit
          /\ CloseFailed
          /\ Ends(ConnectFails)
          /\ UNCHANGED slice
       \/ /\ waited' < Limit
          /\ slice' = NextSlice
          /\ UNCHANGED <<place, sock, outcome>>
    /\ UNCHANGED <<what, peer>>

-----------------------------------------------------------------------------
(* What is asked over a connection is answered as it should be.            *)
Answered ==
    /\ doing = "ask"
    /\ sock' = [sock EXCEPT ![This] = IF This = "pmap" THEN "closed" ELSE @]
    /\ IF leg = Len(Legs(via)) THEN Ends("success")
       ELSE leg' = leg + 1 /\ doing' = "connect" /\ UNCHANGED outcome
    /\ UNCHANGED <<what, peer, clock>>

(* get_port says that VXI-11 is not registered.                            *)
NotRegistered ==
    /\ doing = "ask" /\ This = "pmap"
    /\ sock' = [sock EXCEPT ![This] = "closed"]
    /\ Ends("error")
    /\ UNCHANGED <<what, peer, clock>>

(* The answer is an error of the protocol.  Outside of the constructor of  *)
(* the client (create_link) nothing catches it.                            *)
Denied ==
    /\ doing = "ask"
    /\ Ends(IF This = "core" THEN "raised" ELSE "error")
    /\ UNCHANGED <<what, sock, peer, clock>>

(* A plausible slip: HiSLIP sets the time limit after the exchange only.   *)
SilentNotHislip ==
    /\ doing = "ask" /\ via # "hislip"
    /\ Ends("raised")
    /\ UNCHANGED <<what, sock, peer, clock>>

(* There is no answer; each of the four waits has a limit.  socket.timeout *)
(* is no RPCError, and create_link makes an error number of it, for which  *)
(* after_parsing raises Exception.                                         *)
Silent ==
    /\ doing = "ask"
    /\ Ends(IF via = "hislip" THEN "error" ELSE "raised")
    /\ UNCHANGED <<what, sock, peer, clock>>

ONext ==
    \/ Open \/ Unresolved \/ Connect \/ Accept \/ Connected \/ Refused \/ Waited
    \/ Answered \/ NotRegistered \/ Denied \/ Silent

(* select returns and a thread that can go on does; whether the host       *)
(* answers at all is its own affair.                                       *)
OFairness == WF_ovars(Unresolved \/ Connect \/ Connected \/ Refused \/ Waited) /\ WF_ovars(Silent)

OSpec == OInit /\ [][ONext]_ovars /\ OFairness

-----------------------------------------------------------------------------
(* A VXI-11 or HiSLIP session is open only when the instrument accepted    *)
(* every connection it keeps, and the port mapper's is closed.             *)
SuccessIsConnected ==
    outcome = "success" /\ via # "socket" =>
        \A i \in DOMAIN Legs(via) :
            LET s == Legs(via)[i]
            IN  peer[s] = "accepted" /\ (sock[s] = "closed" <=> s = "pmap")

(* "Opening a VXI-11 resource whose instrument is unreachable now fails    *)
(* with a VISA error rather than an OSError" (CHANGES), and so does HiSLIP:*)
(* another exception comes only from an instrument that accepted whatever  *)
(* was connected, or from a host whose name is unknown.                    *)
UnreachableIsVisaError ==
    outcome = "raised" /\ via # "socket" =>
        ~ resolves \/ \A s \in Sockets : sock[s] # "none" => peer[s] = "accepted"

(* The two together: what open() says of the instrument is so.             *)
OpenIsTrue == SuccessIsConnected /\ UnreachableIsVisaError

(* A connect that nobody answers is given up at most one shortest wait     *)
(* after open_timeout; 0 means the default (test_open_timeout.py).         *)
ConnectInTime ==
    /\ waited < Limit + MinSelect
    /\ via = "hislip" => waited <= Limit

(* Why open() does not wait for ever: whatever happens during it takes it  *)
(* to the next connection or to a later stage of this one, or the host has *)
(* answered, or some of the time is used up, of which there is an end.     *)
Stage == CASE doing = "connect" -> 3 [] doing = "wait" -> 2 [] doing = "ask" -> 1 [] doing = "over" -> 0

OpenAdvances ==
    [][leg # 0 =>
         \/ leg < leg' /\ leg' <= Len(Legs(via))
         \/ leg' = leg /\ Stage' < Stage
         \/ /\ leg' = leg /\ Stage' = Stage
            /\ \/ peer[This] = "pending" /\ peer'[This] # "pending"
               \/ peer' = peer /\ waited < waited' /\ waited' < Limit]_ovars

(* Whatever the host does, or does not, open() returns.                    *)
OpenEnds == OpenAdvances /\ (leg # 0 ~> outcome # "none")
=============================================================================

----------------------------- MODULE Discovery ------------------------------
(***************************************************************************)
(* TCPIPInstrVxi11.list_resources: a broadcast of the port mapper's        *)
(* get_port call on every network, one second of waiting, and then the     *)
(* replies of one network after the other (send_call and recv_call of      *)
(* RawBroadcastUDPClient).  A host may be on several networks, answer late *)
(* or twice, and answer something else than a port.                        *)
(***************************************************************************)
EXTENDS Naturals, Sequences, FiniteSets

CONSTANTS Networks, Hosts,
          Bad,              \* replies that name no port: "zero", "denied", "foreign", "garbled"
          MaxReplies        \* bound, of each host

VARIABLES
    stage,          \* "new", "send", "sleep", "collect", "returned", "raised"
    pmap_list,      \* networks whose client is (still) in it
    networks,       \* those that the loop under way has not come to
    current,        \* the network whose replies are read; {} between two
    inbox,          \* replies that have arrived, of each network
    replies,        \* resp: hosts and ports read from the current network
    found,          \* hosts in all_res
    given,          \* replies that each host has given
    registered,     \* history: the hosts that replied with a port
    due, spoilt     \* history: what had arrived with a port before the network
                    \* was read; networks with a reply that ended the reading

ddata == <<inbox, given, registered>>
dhist == <<due, spoilt>>
dvars == <<stage, pmap_list, networks, current, inbox, replies, found, given, registered, dhist>>

DInit ==
    /\ stage = "new" /\ pmap_list = {} /\ networks = {} /\ current = {}
    /\ inbox = [n \in Networks |-> <<>>]
    /\ replies = {} /\ found = {}
    /\ given = [h \in Hosts |-> 0]
    /\ registered = {} /\ due = {} /\ spoilt = {}

(* One client for each network.                                            *)
ListResources ==
    /\ stage = "new"
    /\ stage' = "send" /\ pmap_list' = Networks /\ networks' = Networks
    /\ UNCHANGED <<current, replies, found, ddata, dhist>>

(* A network on which nothing can be sent is left out.                     *)
SendPort ==
    /\ stage = "send"
    /\ \E n \in networks :
        /\ networks' = networks \ {n}
        /\ pmap_list' \in {pmap_list, pmap_list \ {n}}
    /\ UNCHANGED <<stage, current, replies, found, ddata, dhist>>

Sleep ==
    /\ stage = "send" /\ networks = {}
    /\ stage' = "collect" /\ networks' = pmap_list
    /\ UNCHANGED <<pmap_list, current, replies, found, ddata, dhist>>

(* A host on a network that was asked replies, before the second is over   *)
(* or after.                                                               *)
Reply ==
    \E h \in Hosts, n \in Networks, what \in Bad \cup {"port"} :
        /\ stage \in {"send", "collect"}
        /\ n \in pmap_list /\ (stage = "send" => n \notin networks)
        /\ given[h] < MaxReplies
        /\ given' = [given EXCEPT ![h] = @ + 1]
        /\ inbox' = [inbox EXCEPT ![n] = Append(@, [host |-> h, what |-> what])]
        /\ registered' = IF what = "port" THEN registered \cup {h} ELSE registered
        /\ UNCHANGED <<stage, pmap_list, networks, current, replies, found, dhist>>

WithPort(n) == {r.host : r \in {inbox[n][i] : i \in {j \in DOMAIN inbox[n] : inbox[n][j].what = "port"}}}

RecvPort ==
    /\ stage = "collect" /\ current = {}
    /\ \E n \in networks :
        /\ current' = {n}
        /\ networks' = networks \ {n}
        /\ due' = due \cup {<<n, h>> : h \in WithPort(n)}
    /\ replies' = {}
    /\ UNCHANGED <<stage, pmap_list, found, ddata, spoilt>>

(* A plausible slip: the reading of a network ends at a reply to another   *)
(* call.                                                                   *)
SkipToNext == current' = {} /\ replies' = {}

(* A reply whose xid is not that of the call is skipped.                   *)
Skip == UNCHANGED <<current, replies>>

RecvCall ==
    \E n \in current :
        /\ inbox[n] # <<>>
        /\ inbox' = [inbox EXCEPT ![n] = Tail(@)]
        /\ LET r == Head(inbox[n])
           IN  \/ /\ r.what \in {"port", "zero"}
                  /\ replies' = replies \cup {r}
                  /\ UNCHANGED <<stage, current, spoilt>>
               \/ /\ r.what = "foreign"
                  /\ Skip
                  /\ UNCHANGED <<stage, spoilt>>
               \/ /\ r.what = "denied"       \* an RPCError: what the network gave is lost
                  /\ current' = {} /\ replies' = {} /\ spoilt' = spoilt \cup {n}
                  /\ UNCHANGED stage
               \/ /\ r.what = "garbled"      \* EOFError of the unpacker, which nobody catches
                  /\ stage' = "raised" /\ current' = {} /\ replies' = {}
                  /\ UNCHANGED spoilt
        /\ UNCHANGED <<pmap_list, networks, found, given, registered, due>>

(* A plausible slip: a port of 0 counts.                                   *)
RegisteredAny(r) == r.what \in {"port", "zero"}

(* The port mapper says 0 where VXI-11 is not registered.                  *)
Registered(r) == r.what = "port"

(* Nothing more is there to be read: the timeout is 0.                     *)
NetworkRead ==
    \E n \in current :
        /\ inbox[n] = <<>>
        /\ found' = found \cup {r.host : r \in {x \in replies : Registered(x)}}
        /\ current' = {} /\ replies' = {}
        /\ UNCHANGED <<stage, pmap_list, networks, ddata, dhist>>

Listed ==
    /\ stage = "collect" /\ networks = {} /\ current = {}
    /\ stage' = "returned"
    /\ UNCHANGED <<pmap_list, networks, current, replies, found, ddata, dhist>>

DNext ==
    \/ ListResources \/ SendPort \/ Sleep \/ Reply
    \/ RecvPort \/ RecvCall \/ NetworkRead \/ Listed

DSpec == DInit /\ [][DNext]_dvars

-----------------------------------------------------------------------------
(* Only instruments that answered with a port are listed; and one that did *)
(* so in time on a network is listed, whatever the other hosts and the     *)
(* other networks answered, unless a reply on the same network was an RPC  *)
(* error or one on any network could not be decoded.                       *)
ListsWhoAnswered ==
    /\ found \subseteq registered
    /\ stage = "returned" =>
         \A n \in Networks \ spoilt : \A h \in Hosts : <<n, h>> \in due => h \in found
=============================================================================

---------------------------- MODULE GpibHandles -----------------------------
(***************************************************************************)
(* The descriptors of the driver that the sessions of gpib.py hold: open   *)
(* (after_parsing), close, close again, gpib_pass_control.  A session on an*)
(* instrument ("INSTR") holds two, its interface and its controller; one   *)
(* on the bus ("INTFC") has the controller only.  The driver opens the     *)
(* lowest number that is free, which may be that of a closed descriptor,   *)
(* so a descriptor must never be closed twice: _patch_Gpib sees to that.   *)
(***************************************************************************)
EXTENDS Naturals

CONSTANTS Users,            \* threads
          MaxSessions, MaxDescriptors, MaxPasses    \* bounds

ASSUME HandleBounds == MaxSessions \in Nat /\ MaxDescriptors \in Nat

Ids == 1..MaxSessions
Descriptors == 1..MaxDescriptors

VARIABLES
    held,           \* held[d]: the session that opened descriptor d, 0 if it is
                    \* free, MaxSessions + 1 if gpib_pass_control did
    made,           \* number of sessions made
    state,          \* state[s]: "none", "open", "closed"
    interface, controller,      \* their descriptors, 0 for None
    own,            \* own[s]: the parts whose Gpib object still owns its descriptor
    pc, mine,       \* of each thread: where it is in close(), and of which session
    passes,
    twice           \* history: two threads closed one session at the same time

handles == <<held, made, state, interface, controller, own>>
users == <<pc, mine>>
hvars == <<handles, users, passes, twice>>

Passed == MaxSessions + 1

HInit ==
    /\ held = [d \in Descriptors |-> 0]
    /\ made = 0 /\ state = [s \in Ids |-> "none"]
    /\ interface = [s \in Ids |-> 0] /\ controller = [s \in Ids |-> 0]
    /\ own = [s \in Ids |-> {}]
    /\ pc = [u \in Users |-> "idle"] /\ mine = [u \in Users |-> 0]
    /\ passes = 0 /\ twice = FALSE

Free == {d \in Descriptors : held[d] = 0}
IsNext(d) == d \in Free /\ \A e \in Free : d <= e
At(u, here) == pc[u] = here
Goto(u, there) == pc' = [pc EXCEPT ![u] = there]
NewSession(s) == made < MaxSessions /\ s = made + 1

(* after_parsing of an instrument.  With one descriptor left the second    *)
(* Gpib() raises; the first object is collected with the session and       *)
(* closes its own, and no session is made.                                 *)
OpenInstr ==
    \E s \in Ids, i, c \in Free :
        /\ NewSession(s) /\ IsNext(i)
        /\ i < c /\ \A e \in Free \ {i} : c <= e
        /\ made' = s
        /\ held' = [held EXCEPT ![i] = s, ![c] = s]
        /\ state' = [state EXCEPT ![s] = "open"]
        /\ interface' = [interface EXCEPT ![s] = i]
        /\ controller' = [controller EXCEPT ![s] = c]
        /\ own' = [own EXCEPT ![s] = {"interface", "controller"}]
        /\ UNCHANGED <<users, passes, twice>>

OpenIntfc ==
    \E s \in Ids, c \in Descriptors :
        /\ NewSession(s) /\ IsNext(c)
        /\ made' = s
        /\ held' = [held EXCEPT ![c] = s]
        /\ state' = [state EXCEPT ![s] = "open"]
        /\ controller' = [controller EXCEPT ![s] = c]
        /\ own' = [own EXCEPT ![s] = {"controller"}]
        /\ UNCHANGED <<interface, users, passes, twice>>

(* gpib_pass_control opens a descriptor for the other controller and never *)
(* closes it.                                                              *)
PassControl ==
    /\ \E s \in Ids : state[s] = "open" /\ interface[s] = 0
    /\ passes < MaxPasses
    /\ passes' = passes + 1
    /\ \E d \in Descriptors : IsNext(d) /\ held' = [held EXCEPT ![d] = Passed]
    /\ UNCHANGED <<made, state, interface, controller, own, users, twice>>

(* close(), which may be called again, also while another thread closes    *)
(* the same session.                                                       *)
Close(u) ==
    \E s \in Ids :
        /\ At(u, "idle") /\ state[s] # "none"
        /\ mine' = [mine EXCEPT ![u] = s]
        /\ twice' = (twice \/ \E v \in Users \ {u} : mine[v] = s)
        /\ Goto(u, IF interface[s] # 0 THEN "interface" ELSE "controller")
        /\ UNCHANGED <<handles, passes>>

(* Gpib.close, which is Gpib.__del__: the driver closes the descriptor     *)
(* whoever has it now, if the object owns it ...                           *)
CloseDescriptor(u) ==
    \E part \in {"interface", "controller"} :
        /\ At(u, part)
        /\ LET d == IF part = "interface" THEN interface[mine[u]] ELSE controller[mine[u]]
           IN  held' = IF part \in own[mine[u]] THEN [held EXCEPT ![d] = 0] ELSE held
        /\ Goto(u, IF part = "interface" THEN "disown interface" ELSE "disown controller")
        /\ UNCHANGED <<made, state, interface, controller, own, mine, passes, twice>>

(* A plausible slip: without the patch the object goes on owning it.       *)
DisownNothing(s, part) == own' = [own EXCEPT ![s] = @]

(* A plausible slip: one flag for both objects of the session.             *)
DisownAll(s, part) == own' = [own EXCEPT ![s] = {}]

(* ... and then the patch makes the object forget it.                      *)
Disown(s, part) == own' = [own EXCEPT ![s] = @ \ {part}]

CloseReturns(u) ==
    \/ /\ At(u, "disown interface")
       /\ Disown(mine[u], "interface")
       /\ Goto(u, "controller")
       /\ UNCHANGED <<held, made, state, interface, controller, mine, passes, twice>>
    \/ /\ At(u, "disown controller")
       /\ Disown(mine[u], "controller")
       /\ state' = [state EXCEPT ![mine[u]] = "closed"]
       /\ mine' = [mine EXCEPT ![u] = 0]
       /\ Goto(u, "idle")
       /\ UNCHANGED <<held, made, interface, controller, passes, twice>>

HNext ==
    \/ OpenInstr \/ OpenIntfc \/ PassControl
    \/ \E u \in Users : Close(u) \/ CloseDescriptor(u) \/ CloseReturns(u)

HSpec == HInit /\ [][HNext]_hvars

-----------------------------------------------------------------------------
(* A session that nobody closes has the descriptors it opened: no close of *)
(* another session, first or repeated, takes them away, unless two threads *)
(* closed one session at the same time.                                    *)
HandlesStay ==
    ~ twice => \A s \in Ids :
        (state[s] = "open" /\ \A u \in Users : mine[u] # s) =>
            /\ held[controller[s]] = s
            /\ interface[s] # 0 => held[interface[s]] = s

(* close() gives both descriptors back, whatever else happens meanwhile.   *)
ClosedHoldsNothing ==
    \A s \in Ids : (state[s] = "closed" /\ \A u \in Users : mine[u] # s) =>
        \A d \in Descriptors : held[d] # s

(* The two together: descriptors belong to the sessions that are open.     *)
DescriptorsOwned == HandlesStay /\ ClosedHoldsNothing

-----------------------------------------------------------------------------
(* The inductive invariant behind DescriptorsOwned.                        *)
Parts == {"interface", "controller"}
Part(s, part) == IF part = "interface" THEN interface[s] ELSE controller[s]
Disowning(u, part) ==
    \/ part = "interface" /\ At(u, "disown interface")
    \/ part = "controller" /\ At(u, "disown controller")

HTypeOK ==
    /\ held \in [Descriptors -> 0..Passed]
    /\ made \in 0..MaxSessions
    /\ state \in [Ids -> {"none", "open", "closed"}]
    /\ interface \in [Ids -> 0..MaxDescriptors]
    /\ controller \in [Ids -> 0..MaxDescriptors]
    /\ own \in [Ids -> SUBSET Parts]
    /\ pc \in [Users -> {"idle"} \cup Parts \cup {"disown interface", "disown controller"}]
    /\ mine \in [Users -> 0..MaxSessions]
    /\ twice \in BOOLEAN

(* Sessions are numbered as they are made; one owns its descriptors, all of*)
(* them until somebody closes it, and none once it is closed.              *)
Owned ==
    \A s \in Ids :
        /\ state[s] = "none" <=> s > made
        /\ state[s] = "none" => interface[s] = 0
        /\ state[s] # "none" => controller[s] # 0 /\ controller[s] # interface[s]
        /\ "interface" \in own[s] => interface[s] # 0
        /\ state[s] = "open" /\ (\A u \in Users : mine[u] # s) =>
             "controller" \in own[s] /\ (interface[s] # 0 => "interface" \in own[s])
        /\ state[s] # "open" => own[s] = {}

(* A session holds no other descriptors, and none that it has disowned.    *)
Held ==
    \A s \in Ids, d \in Descriptors :
        held[d] = s =>
            /\ state[s] # "none"
            /\ \E part \in own[s] : Part(s, part) = d

(* A thread in close() has closed what it is about to disown.              *)
Closing ==
    \A u \in Users :
        /\ At(u, "idle") <=> mine[u] = 0
        /\ mine[u] # 0 => state[mine[u]] # "none"
        /\ At(u, "interface") \/ At(u, "disown interface") => interface[mine[u]] # 0
        /\ At(u, "controller") \/ At(u, "disown controller") => "interface" \notin own[mine[u]]
        /\ \A part \in Parts : Disowning(u, part) => held[Part(mine[u], part)] # mine[u]

(* Without two threads in one session, a descriptor that is owned and not  *)
(* just being closed is held.                                              *)
Single ==
    ~ twice =>
        /\ \A u, v \in Users : mine[u] = mine[v] /\ mine[u] # 0 => u = v
        /\ \A s \in Ids : \A part \in own[s] :
             held[Part(s, part)] = s \/ \E u \in Users : mine[u] = s /\ Disowning(u, part)

HInv == HTypeOK /\ Owned /\ Held /\ Closing /\ Single
=============================================================================

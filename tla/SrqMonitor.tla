----------------------------- MODULE SrqMonitor -----------------------------
(***************************************************************************)
(* The service-request monitor of a VXI-11 session: enable_event and       *)
(* disable_event (highlevel.py), _start_event_monitor,                     *)
(* _stop_event_monitor and close of TCPIPInstrVxi11 (tcpip.py), the        *)
(* listener and worker threads of SrqInterruptTCPServer                    *)
(* (protocols/vxi11.py) and Session._fire_event (sessions.py).             *)
(*                                                                         *)
(* User threads call enable_event, disable_event and close on one session. *)
(* Every start builds a new interrupt server; servers are numbered in the  *)
(* order in which they are built and 0 is None.  Listener g is the thread  *)
(* that runs loop() of server g; the pair (monitor_thread, _srq_server) is *)
(* always written together and is the one variable `server`.  The session  *)
(* has a single stop_flag for all its listeners.                           *)
(***************************************************************************)
EXTENDS Naturals, Sequences

CONSTANTS Users,        \* application threads
          NoUser,       \* the lifecycle lock is free
          Mechs,        \* delivery mechanisms
          Faults,       \* how a call to the instrument may fail
          MaxCalls,     \* bound on the calls of the application threads
          MaxSrqs       \* bound on the service requests of the instrument

ASSUME ConstantsAssumption ==
    /\ MaxCalls \in Nat /\ MaxSrqs \in Nat
    /\ NoUser \notin Users
    /\ Faults \subseteq {"status", "exception", "swallowed"}

VARIABLES
    \* the session
    enabled,    \* EventState.enabled[service_request]
    life,       \* holder of _srq_lifecycle_lock
    stopFlag,   \* EventState.stop_flag
    server,     \* monitor_thread and _srq_server
    open,       \* self.interface is not None
    queued,     \* contexts put into the event queue
    fired,      \* rounds of handler calls
    \* the interrupt servers
    made,       \* number of servers built
    sock,       \* sock[g]: the listening socket is open
    loop,       \* loop[g]: where listener g is
    jobs,       \* jobs[g]: _srq_queue
    worker,     \* worker[g]: where the worker of server g is
    mech,       \* mech[g]: mechanisms the worker has read
    \* the instrument
    chan,       \* the server its interrupt channel points to, or 0
    srqOn,      \* service requests are enabled
    link,       \* link[g]: its connection to server g
    wire,       \* wire[g]: DEVICE_INTR_SRQ calls under way to server g
    sent,       \* service requests made so far
    \* the application threads
    pc, arg, mine, calls

session == <<enabled, life, stopFlag, server, open>>
delivery == <<queued, fired>>
servers == <<made, sock, loop, jobs, worker, mech>>
device == <<chan, srqOn, link, wire, sent>>
threads == <<pc, arg, mine, calls>>
vars == <<session, delivery, servers, device, threads>>

Gens == 1..MaxCalls

PCs == {"idle", "check", "build", "channel", "srq on", "unchannel", "publish",
        "rollback", "any enabled", "guard", "lock", "srq off", "destroy",
        "take", "stop worker", "close sock", "destroy link"}

TypeOK ==
    /\ enabled \subseteq Mechs
    /\ life \in Users \cup {NoUser}
    /\ stopFlag \in BOOLEAN
    /\ server \in 0..MaxCalls
    /\ open \in BOOLEAN
    /\ queued \in Nat /\ fired \in Nat /\ sent \in Nat /\ calls \in Nat
    /\ made \in 0..MaxCalls
    /\ sock \in [Gens -> BOOLEAN]
    /\ loop \in [Gens -> {"none", "head", "accept", "conn", "recv", "dead"}]
    /\ jobs \in [Gens -> Seq({"srq", "stop"})]
    /\ worker \in [Gens -> {"none", "get", "fire", "dead"}]
    /\ mech \in [Gens -> SUBSET Mechs]
    /\ chan \in 0..MaxCalls
    /\ srqOn \in BOOLEAN
    /\ link \in [Gens -> {"none", "backlog", "up", "down"}]
    /\ wire \in [Gens -> Nat]
    /\ pc \in [Users -> PCs]
    /\ arg \in [Users -> [op : {"enable", "disable", "close"}, mech : SUBSET Mechs]]
    /\ mine \in [Users -> 0..MaxCalls]

Init ==
    /\ enabled = {} /\ life = NoUser /\ stopFlag = FALSE /\ server = 0
    /\ open = TRUE /\ queued = 0 /\ fired = 0
    /\ made = 0
    /\ sock = [g \in Gens |-> FALSE]
    /\ loop = [g \in Gens |-> "none"]
    /\ jobs = [g \in Gens |-> <<>>]
    /\ worker = [g \in Gens |-> "none"]
    /\ mech = [g \in Gens |-> {}]
    /\ chan = 0 /\ srqOn = FALSE /\ sent = 0
    /\ link = [g \in Gens |-> "none"]
    /\ wire = [g \in Gens |-> 0]
    /\ pc = [u \in Users |-> "idle"]
    /\ arg = [u \in Users |-> [op |-> "close", mech |-> {}]]
    /\ mine = [u \in Users |-> 0]
    /\ calls = 0

-----------------------------------------------------------------------------
(* Application threads: each step runs from one point where another thread *)
(* can be noticed to the next.                                             *)

At(u, here) == pc[u] = here
Goto(u, there) == pc' = [pc EXCEPT ![u] = there]

Call(u, op, ms, there) ==
    /\ At(u, "idle")
    /\ calls < MaxCalls
    /\ calls' = calls + 1
    /\ arg' = [arg EXCEPT ![u] = [op |-> op, mech |-> ms]]
    /\ Goto(u, there)
    /\ UNCHANGED mine

(* enable_event: EventState.enable, then _start_event_monitor.             *)
EnableEvent(u, ms) ==
    /\ Call(u, "enable", ms, "check")
    /\ enabled' = enabled \cup ms
    /\ UNCHANGED <<life, stopFlag, server, open, delivery, servers, device>>

(* disable_event: EventState.disable; the test of any_enabled comes later. *)
DisableEvent(u, ms) ==
    /\ Call(u, "disable", ms, "any enabled")
    /\ enabled' = enabled \ ms
    /\ UNCHANGED <<life, stopFlag, server, open, delivery, servers, device>>

Close(u) ==
    /\ open
    /\ Call(u, "close", {}, "guard")
    /\ UNCHANGED <<session, delivery, servers, device>>

Alive(g) == g # 0 /\ loop[g] # "dead"

(* _start_event_monitor takes the lifecycle lock and leaves at once when a *)
(* monitor runs or nothing is enabled any more.                            *)
StartNotNeeded(u) ==
    /\ At(u, "check") /\ life = NoUser
    /\ Alive(server) \/ enabled = {}
    /\ Goto(u, "idle")
    /\ UNCHANGED <<session, delivery, servers, device, arg, mine, calls>>

(* A plausible slip: a start does not wait for the lifecycle lock.         *)
StartNoWait(u) ==
    /\ At(u, "check")
    /\ ~ Alive(server) /\ enabled # {}
    /\ life' = u
    /\ Goto(u, "build")
    /\ UNCHANGED <<enabled, stopFlag, server, open, delivery, servers, device, arg, mine, calls>>

StartNeeded(u) ==
    /\ At(u, "check") /\ life = NoUser
    /\ ~ Alive(server) /\ enabled # {}
    /\ life' = u
    /\ Goto(u, "build")
    /\ UNCHANGED <<enabled, stopFlag, server, open, delivery, servers, device, arg, mine, calls>>

(* A plausible slip: the flag of the previous monitor is not reset.        *)
KeepStopFlag == stopFlag' = stopFlag

ClearStopFlag == stopFlag' = FALSE

(* stop_flag.clear() and SrqInterruptTCPServer(...): the constructor binds *)
(* and listens, and starts the worker.  The next statement reads the       *)
(* address of self.interface.sock and raises when the session was closed.  *)
BuildServer(u) ==
    /\ At(u, "build") /\ made < MaxCalls
    /\ ClearStopFlag
    /\ made' = made + 1
    /\ sock' = [sock EXCEPT ![made + 1] = TRUE]
    /\ worker' = [worker EXCEPT ![made + 1] = "get"]
    /\ mine' = [mine EXCEPT ![u] = made + 1]
    /\ IF open THEN Goto(u, "channel") /\ UNCHANGED life
               ELSE Goto(u, "idle") /\ life' = NoUser
    /\ UNCHANGED <<enabled, server, open, delivery, loop, jobs, mech, device, arg, calls>>

(* The instrument hangs up on the server its channel pointed to.           *)
HangUp == [g \in Gens |-> IF g = chan /\ link[g] # "none" THEN "down" ELSE link[g]]

(* An exception leaves _start_event_monitor and enable_event: the lock is  *)
(* released, nothing else is undone.                                       *)
Raise(u) ==
    /\ \/ "exception" \in Faults
       \/ ~ open
    /\ life' = NoUser
    /\ Goto(u, "idle")
    /\ UNCHANGED <<enabled, stopFlag, server, open, delivery, servers, device, arg, mine, calls>>

CreateIntrChan(u) ==
    /\ At(u, "channel")
    /\ \/ /\ open
          /\ chan' = mine[u] /\ link' = HangUp
          /\ Goto(u, "srq on")
          /\ UNCHANGED <<session, delivery, servers, srqOn, wire, sent, arg, mine, calls>>
       \/ /\ open /\ "status" \in Faults
          /\ sock' = [sock EXCEPT ![mine[u]] = FALSE]
          /\ life' = NoUser
          /\ Goto(u, "rollback")
          /\ UNCHANGED <<enabled, stopFlag, server, open, delivery, made, loop, jobs, worker, mech,
                         device, arg, mine, calls>>
       \/ Raise(u)

EnableSrq(u) ==
    /\ At(u, "srq on")
    /\ \/ /\ open
          /\ srqOn' = TRUE
          /\ Goto(u, "publish")
          /\ UNCHANGED <<session, delivery, servers, chan, link, wire, sent, arg, mine, calls>>
       \/ /\ open /\ "status" \in Faults
          /\ Goto(u, "unchannel")
          /\ UNCHANGED <<session, delivery, servers, device, arg, mine, calls>>
       \/ Raise(u)

(* A call to the instrument whose failure is swallowed.                    *)
Attempt(effect, none) ==
    (open /\ effect) \/ (("swallowed" \in Faults \/ ~ open) /\ none)

(* device_enable_srq failed: the channel is destroyed, the socket closed.  *)
UndoChannel(u) ==
    /\ At(u, "unchannel")
    /\ Attempt(chan' = 0 /\ link' = HangUp, UNCHANGED <<chan, link>>)
    /\ sock' = [sock EXCEPT ![mine[u]] = FALSE]
    /\ life' = NoUser
    /\ Goto(u, "rollback")
    /\ UNCHANGED <<enabled, stopFlag, server, open, delivery, made, loop, jobs, worker, mech,
                   srqOn, wire, sent, arg, mine, calls>>

(* The pair is published under the state lock, the listener started, the   *)
(* lock released.  (The second test for a live monitor never succeeds:     *)
(* only a holder of the lifecycle lock publishes one.)                     *)
Publish(u) ==
    /\ At(u, "publish")
    /\ server' = mine[u]
    /\ loop' = [loop EXCEPT ![mine[u]] = "head"]
    /\ life' = NoUser
    /\ Goto(u, "idle")
    /\ UNCHANGED <<enabled, stopFlag, open, delivery, made, sock, jobs, worker, mech, device,
                   arg, mine, calls>>

(* A plausible slip: the failed status is returned without a rollback.     *)
NoRollback(u) ==
    /\ At(u, "rollback")
    /\ Goto(u, "idle")
    /\ UNCHANGED <<session, delivery, servers, device, arg, mine, calls>>

(* enable_event sees a status other than success and disables again what   *)
(* it had enabled.                                                         *)
Rollback(u) ==
    /\ At(u, "rollback")
    /\ enabled' = enabled \ arg[u].mech
    /\ Goto(u, "idle")
    /\ UNCHANGED <<life, stopFlag, server, open, delivery, servers, device, arg, mine, calls>>

-----------------------------------------------------------------------------
AnyEnabled(u) ==
    /\ At(u, "any enabled")
    /\ Goto(u, IF enabled = {} THEN "guard" ELSE "idle")
    /\ UNCHANGED <<session, delivery, servers, device, arg, mine, calls>>

(* Where a thread goes when _stop_event_monitor returns.                   *)
AfterStop(u) == IF arg[u].op = "close" THEN "destroy link" ELSE "idle"

(* _stop_event_monitor returns when there is no server.  The test is made  *)
(* before the lifecycle lock is taken.                                     *)
StopGuard(u) ==
    /\ At(u, "guard")
    /\ Goto(u, IF server = 0 THEN AfterStop(u) ELSE "lock")
    /\ UNCHANGED <<session, delivery, servers, device, arg, mine, calls>>

StopLock(u) ==
    /\ At(u, "lock") /\ life = NoUser
    /\ life' = u
    /\ stopFlag' = TRUE
    /\ Goto(u, "srq off")
    /\ UNCHANGED <<enabled, server, open, delivery, servers, device, arg, mine, calls>>

DisableSrq(u) ==
    /\ At(u, "srq off")
    /\ Attempt(srqOn' = FALSE, UNCHANGED srqOn)
    /\ Goto(u, "destroy")
    /\ UNCHANGED <<session, delivery, servers, chan, link, wire, sent, arg, mine, calls>>

DestroyIntrChan(u) ==
    /\ At(u, "destroy")
    /\ Attempt(chan' = 0 /\ link' = HangUp, UNCHANGED <<chan, link>>)
    /\ Goto(u, "take")
    /\ UNCHANGED <<session, delivery, servers, srqOn, wire, sent, arg, mine, calls>>

(* A plausible slip: the pair stays published.                             *)
ForgetToTake(u) ==
    /\ At(u, "take")
    /\ mine' = [mine EXCEPT ![u] = server]
    /\ life' = NoUser
    /\ Goto(u, IF server = 0 THEN AfterStop(u) ELSE "stop worker")
    /\ UNCHANGED <<enabled, stopFlag, server, open, delivery, servers, device, arg, calls>>

(* The pair is taken under the state lock and the lifecycle lock released: *)
(* the old listener is joined after that.                                  *)
TakeServer(u) ==
    /\ At(u, "take")
    /\ mine' = [mine EXCEPT ![u] = server]
    /\ server' = 0
    /\ life' = NoUser
    /\ Goto(u, IF server = 0 THEN AfterStop(u) ELSE "stop worker")
    /\ UNCHANGED <<enabled, stopFlag, open, delivery, servers, device, arg, calls>>

(* thread.join(timeout=1.0) may give up, so the step may come at any time. *)
StopWorker(u) ==
    /\ At(u, "stop worker")
    /\ jobs' = [jobs EXCEPT ![mine[u]] = Append(@, "stop")]
    /\ Goto(u, "close sock")
    /\ UNCHANGED <<session, delivery, made, sock, loop, worker, mech, device, arg, mine, calls>>

(* A plausible slip: the listening socket is left open.                    *)
LeaveSock(u) ==
    /\ At(u, "close sock")
    /\ Goto(u, AfterStop(u))
    /\ UNCHANGED <<session, delivery, servers, device, arg, mine, calls>>

(* join(timeout=2.0) of the worker may give up as well.                    *)
CloseSock(u) ==
    /\ At(u, "close sock")
    /\ sock' = [sock EXCEPT ![mine[u]] = FALSE]
    /\ Goto(u, AfterStop(u))
    /\ UNCHANGED <<session, delivery, made, loop, jobs, worker, mech, device, arg, mine, calls>>

(* destroy_link and interface.close(): the instrument forgets the channel. *)
DestroyLink(u) ==
    /\ At(u, "destroy link")
    /\ open' = FALSE
    /\ chan' = 0 /\ srqOn' = FALSE /\ link' = HangUp
    /\ Goto(u, "idle")
    /\ UNCHANGED <<enabled, life, stopFlag, server, delivery, servers, wire, sent, arg, mine, calls>>

-----------------------------------------------------------------------------
(* Listener g: loop() and _handle_connection().  A timeout of accept or    *)
(* recv only matters when the stop flag is set: otherwise the thread comes *)
(* back to where it was.                                                   *)

In(g, here) == loop[g] = here
Move(g, there) == loop' = [loop EXCEPT ![g] = there]

LoopHead(g) ==
    /\ In(g, "head")
    /\ Move(g, IF stopFlag THEN "dead" ELSE "accept")
    /\ UNCHANGED <<session, delivery, made, sock, jobs, worker, mech, device, threads>>

Accept(g) ==
    /\ In(g, "accept") /\ sock[g]
    /\ link[g] \in {"backlog", "down"}
    /\ link' = [link EXCEPT ![g] = IF @ = "backlog" THEN "up" ELSE @]
    /\ Move(g, "conn")
    /\ UNCHANGED <<session, delivery, made, sock, jobs, worker, mech, chan, srqOn, wire, sent, threads>>

AcceptTimeout(g) ==
    /\ In(g, "accept") /\ sock[g]
    /\ link[g] = "none" /\ stopFlag
    /\ Move(g, "dead")
    /\ UNCHANGED <<session, delivery, made, sock, jobs, worker, mech, device, threads>>

(* accept() on the closed socket raises OSError: the thread ends.          *)
AcceptError(g) ==
    /\ In(g, "accept") /\ ~ sock[g]
    /\ Move(g, "dead")
    /\ UNCHANGED <<session, delivery, made, sock, jobs, worker, mech, device, threads>>

(* conn.close(): whatever is still under way on the connection is lost.    *)
EndConnection(g) ==
    /\ link' = [link EXCEPT ![g] = "none"]
    /\ wire' = [wire EXCEPT ![g] = 0]
    /\ Move(g, "head")
    /\ UNCHANGED <<session, delivery, made, sock, jobs, worker, mech, chan, srqOn, sent, threads>>

CheckStop(g) ==
    /\ In(g, "conn")
    /\ \/ stopFlag /\ EndConnection(g)
       \/ /\ ~ stopFlag
          /\ Move(g, "recv")
          /\ UNCHANGED <<session, delivery, made, sock, jobs, worker, mech, device, threads>>

(* A DEVICE_INTR_SRQ call is read and handle_30 queues it for the worker.  *)
Receive(g) ==
    /\ In(g, "recv") /\ wire[g] > 0
    /\ wire' = [wire EXCEPT ![g] = @ - 1]
    /\ jobs' = [jobs EXCEPT ![g] = Append(@, "srq")]
    /\ Move(g, "conn")
    /\ UNCHANGED <<session, delivery, made, sock, worker, mech, chan, srqOn, link, sent, threads>>

(* Nothing more comes: the peer has closed, or recv times out and the stop *)
(* flag is set.                                                            *)
ReceiveNothing(g) ==
    /\ In(g, "recv") /\ wire[g] = 0
    /\ link[g] = "down" \/ stopFlag
    /\ EndConnection(g)

-----------------------------------------------------------------------------
(* The worker of server g: _srq_worker, _fire_srq and _fire_event.         *)

(* _fire_event reads both mechanisms in one step, and _fire_srq drops the  *)
(* request of a closed session.                                            *)
WorkerGet(g) ==
    /\ worker[g] = "get" /\ jobs[g] # <<>>
    /\ jobs' = [jobs EXCEPT ![g] = Tail(@)]
    /\ IF Head(jobs[g]) = "stop"
         THEN worker' = [worker EXCEPT ![g] = "dead"] /\ UNCHANGED mech
         ELSE /\ worker' = [worker EXCEPT ![g] = "fire"]
              /\ mech' = [mech EXCEPT ![g] = IF open THEN enabled ELSE {}]
    /\ UNCHANGED <<session, delivery, made, sock, loop, device, threads>>

WorkerFire(g) ==
    /\ worker[g] = "fire"
    /\ queued' = queued + (IF "queue" \in mech[g] THEN 1 ELSE 0)
    /\ fired' = fired + (IF "handler" \in mech[g] THEN 1 ELSE 0)
    /\ worker' = [worker EXCEPT ![g] = "get"]
    /\ mech' = [mech EXCEPT ![g] = {}]
    /\ UNCHANGED <<session, made, sock, loop, jobs, device, threads>>

-----------------------------------------------------------------------------
(* The instrument connects to the server of its channel and, while service *)
(* requests are enabled, sends DEVICE_INTR_SRQ over that connection.       *)
DeviceConnect ==
    /\ chan # 0 /\ sock[chan] /\ link[chan] = "none"
    /\ link' = [link EXCEPT ![chan] = "backlog"]
    /\ UNCHANGED <<session, delivery, servers, chan, srqOn, wire, sent, threads>>

DeviceSrq ==
    /\ srqOn /\ chan # 0 /\ link[chan] \in {"backlog", "up"}
    /\ sent < MaxSrqs
    /\ sent' = sent + 1
    /\ wire' = [wire EXCEPT ![chan] = @ + 1]
    /\ UNCHANGED <<session, delivery, servers, chan, srqOn, link, threads>>

-----------------------------------------------------------------------------
UserStep(u) ==
    \/ StartNotNeeded(u) \/ StartNeeded(u) \/ BuildServer(u) \/ CreateIntrChan(u)
    \/ EnableSrq(u) \/ UndoChannel(u) \/ Publish(u) \/ Rollback(u)
    \/ AnyEnabled(u) \/ StopGuard(u) \/ StopLock(u) \/ DisableSrq(u)
    \/ DestroyIntrChan(u) \/ TakeServer(u) \/ StopWorker(u) \/ CloseSock(u)
    \/ DestroyLink(u)

ListenerStep(g) ==
    \/ LoopHead(g) \/ Accept(g) \/ AcceptTimeout(g) \/ AcceptError(g)
    \/ CheckStop(g) \/ Receive(g) \/ ReceiveNothing(g)

WorkerStep(g) == WorkerGet(g) \/ WorkerFire(g)

Next ==
    \/ \E u \in Users :
          \/ \E ms \in (SUBSET Mechs) \ {{}} : EnableEvent(u, ms) \/ DisableEvent(u, ms)
          \/ Close(u)
          \/ UserStep(u)
    \/ \E g \in Gens : ListenerStep(g) \/ WorkerStep(g)
    \/ DeviceConnect \/ DeviceSrq

(* Threads that can run do run, sockets time out, and an instrument whose  *)
(* channel is set up connects.                                             *)
Fairness ==
    /\ \A u \in Users : WF_vars(UserStep(u))
    /\ \A g \in Gens : WF_vars(ListenerStep(g)) /\ WF_vars(WorkerStep(g))
    /\ WF_vars(DeviceConnect)

Spec == Init /\ [][Next]_vars /\ Fairness

-----------------------------------------------------------------------------
NoStop(g) == \A i \in DOMAIN jobs[g] : jobs[g][i] # "stop"

(* A published server is the one the instrument talks to: as long as       *)
(* nobody starts or stops a monitor, its socket is open, its listener      *)
(* runs, its worker was not told to stop, the stop flag is clear and, on   *)
(* an open session, the interrupt channel points to it with service        *)
(* requests on.  It takes the lifecycle lock over all of start and stop.   *)
PublishedServerWorks ==
    (server # 0 /\ life = NoUser) =>
        /\ sock[server]
        /\ loop[server] \notin {"none", "dead"}
        /\ worker[server] \in {"get", "fire"}
        /\ NoStop(server)
        /\ ~ stopFlag
        /\ open => chan = server /\ srqOn

(* The steps of start and of stop between taking and releasing the         *)
(* lifecycle lock.                                                         *)
Setup == {"channel", "srq on", "unchannel", "publish"}
Teardown == {"srq off", "destroy", "take"}
Locked == Setup \cup Teardown \cup {"build"}

LockInv == \A u \in Users : pc[u] \in Locked <=> life = u

(* A start runs only while no server is published ...                      *)
StartInv == \A u \in Users : pc[u] \in Setup \cup {"build"} => server = 0

(* ... on a server of its own, the newest, which nobody is stopping; ...   *)
SetupInv ==
    \A u \in Users :
        /\ pc[u] \in Setup =>
              /\ mine[u] = made /\ made # 0
              /\ sock[made] /\ loop[made] = "none"
              /\ worker[made] \in {"get", "fire"} /\ NoStop(made)
              /\ ~ stopFlag
        /\ pc[u] \in {"srq on", "publish"} => (open => chan = made)
        /\ pc[u] = "publish" => (open => srqOn)

(* ... and a stop finishes on a server that is not published any more.     *)
StopInv ==
    \A u \in Users :
        pc[u] \in {"stop worker", "close sock"} =>
            /\ mine[u] \in 1..made
            /\ mine[u] # server
            /\ loop[mine[u]] # "none"

MadeInv ==
    /\ server \in 0..made
    /\ server # 0 => loop[server] # "none"
    /\ \A g \in Gens : g > made => loop[g] = "none" /\ jobs[g] = <<>>

(* The inductive invariant behind PublishedServerWorks.                    *)
Lifecycle ==
    /\ LockInv /\ StartInv /\ SetupInv /\ StopInv /\ MadeInv
    /\ PublishedServerWorks

Inv == TypeOK /\ Lifecycle

Idle == \A u \in Users : pc[u] = "idle"

(* Between calls of the application, a monitor runs exactly when some      *)
(* mechanism is enabled, whatever status the instrument answered.          *)
MonitorMatchesEnabled ==
    (Idle /\ open) => (server # 0 <=> enabled # {})

(* A service request that reaches the current server is given to the       *)
(* event mechanisms, unless the server is stopped first.                   *)
RequestsAreDispatched ==
    \A g \in Gens :
        (server = g /\ wire[g] > 0) ~>
            (server # g \/ (wire[g] = 0 /\ jobs[g] = <<>> /\ worker[g] = "get"))

(* A listener whose connection the instrument was never told to close: the *)
(* destroy_intr_chan of the stop failed, which the stop swallows.  If the  *)
(* next start clears the stop flag before the listener looks at it and     *)
(* does not get as far as a channel of its own, nothing ends the listener. *)
Stranded(g) == chan = g /\ link[g] = "up" /\ ~ stopFlag /\ worker[g] = "dead"

(* The threads of a server that was taken down come to an end, even when   *)
(* the next monitor clears their stop flag before they have looked at it.  *)
(* The exception is a listener that stays stranded for ever.  (Building    *)
(* server MaxCalls takes all the calls, so it is never taken down.)        *)
OldThreadsEnd ==
    \A g \in Gens \ {MaxCalls} :
        \/ (loop[g] \notin {"none", "dead"} /\ server # g) ~>
              (loop[g] = "dead" /\ worker[g] = "dead")
        \/ <>[]Stranded(g)
=============================================================================

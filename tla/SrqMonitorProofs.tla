-------------------------- MODULE SrqMonitorProofs --------------------------
(***************************************************************************)
(* Inv is an inductive invariant of SrqMonitor, for any application        *)
(* threads, mechanisms and faults and any number of calls and service      *)
(* requests.  TypeOK and Lifecycle are shown to be kept by every action,   *)
(* Lifecycle first: a start owns its new server until it publishes it, a   *)
(* stop takes the server before it takes it apart, and the lifecycle lock  *)
(* keeps the two from overlapping.  From it follows what relates the       *)
(* monitor and the enabled mechanisms between calls (SrqMonitorRaces).     *)
(***************************************************************************)
EXTENDS SrqMonitorRaces, TLAPS

(* Steps that only move a thread outside of the locked regions.            *)
LEMMA MoveOutside ==
  ASSUME TypeOK, Lifecycle, NEW u \in Users,
         pc[u] \notin Locked,
         NEW there \in PCs, there \notin Locked \cup {"stop worker", "close sock"},
         pc' = [pc EXCEPT ![u] = there],
         UNCHANGED <<life, stopFlag, server, open, made, sock, loop, jobs, worker, chan, srqOn, mine>>
  PROVE  Lifecycle'
  <1>1. pc \in [Users -> PCs] /\ Users # {}
    BY DEF TypeOK
  <1>2. \A v \in Users : /\ pc'[v] \in Locked <=> pc[v] \in Locked
                         /\ pc'[v] \in Locked \cup {"stop worker", "close sock"} => pc'[v] = pc[v]
    BY <1>1
  <1>3. LockInv'
    BY <1>2 DEF Lifecycle, LockInv
  <1>4. StartInv'
    BY <1>2 DEF Lifecycle, StartInv, Locked
  <1>5. SetupInv'
    BY <1>2 DEF Lifecycle, SetupInv, Locked, Setup, NoStop
  <1>6. StopInv'
    BY <1>2 DEF Lifecycle, StopInv
  <1>7. MadeInv' /\ PublishedServerWorks'
    BY DEF Lifecycle, MadeInv, PublishedServerWorks, NoStop
  <1> QED BY <1>3, <1>4, <1>5, <1>6, <1>7 DEF Lifecycle

(* A thread takes the free lifecycle lock.                                 *)
LEMMA TakeLock ==
  ASSUME TypeOK, Lifecycle, NEW u \in Users, StartNeeded(u) \/ StopLock(u)
  PROVE  Lifecycle'
  <1>1. /\ pc \in [Users -> PCs] /\ life = NoUser /\ life' = u /\ life' # NoUser
        /\ pc[u] \in {"check", "lock"}
        /\ UNCHANGED <<server, open, made, sock, loop, jobs, worker, chan, srqOn, mine>>
    BY ConstantsAssumption DEF TypeOK, StartNeeded, StopLock, At, servers, device
  <1>2. pc' = [pc EXCEPT ![u] = "build"] \/ pc' = [pc EXCEPT ![u] = "srq off"]
    BY DEF StartNeeded, StopLock, Goto
  <1>3. \A v \in Users : pc[v] \notin Locked
    BY <1>1, ConstantsAssumption DEF Lifecycle, LockInv
  <1>4. pc'[u] \in {"build", "srq off"} /\ \A v \in Users \ {u} : pc'[v] = pc[v]
    BY <1>1, <1>2
  <1>5. LockInv'
    BY <1>1, <1>3, <1>4 DEF LockInv, Locked, Teardown
  <1>6. StartInv'
    <2>1. CASE StartNeeded(u)
      <3>1. server = 0 \/ loop[server] = "dead"
        BY <2>1 DEF StartNeeded, Alive
      <3>2. server = 0
        BY <1>1, <3>1 DEF Lifecycle, PublishedServerWorks
      <3> QED BY <1>1, <3>2 DEF StartInv
    <2>2. CASE StopLock(u)
      <3>1. \A v \in Users : pc'[v] \notin Setup \cup {"build"}
        BY <2>2, <1>1, <1>3 DEF StopLock, Goto, Locked, Setup
      <3> QED BY <3>1 DEF StartInv
    <2> QED BY <2>1, <2>2
  <1>7. \A v \in Users : pc'[v] \notin Setup
    BY <1>3, <1>4 DEF Locked, Setup
  <1>8. SetupInv'
    BY <1>7 DEF SetupInv, Setup
  <1>9. StopInv'
    BY <1>1, <1>4 DEF Lifecycle, StopInv
  <1>10. MadeInv' /\ PublishedServerWorks'
    BY <1>1 DEF Lifecycle, MadeInv, PublishedServerWorks
  <1> QED BY <1>5, <1>6, <1>8, <1>9, <1>10 DEF Lifecycle

(* While a thread holds the lock, nobody else is in a locked region.       *)
LEMMA Alone ==
  ASSUME TypeOK, Lifecycle, NEW u \in Users, pc[u] \in Locked
  PROVE  life = u /\ life # NoUser /\ \A v \in Users \ {u} : pc[v] \notin Locked
  BY ConstantsAssumption DEF Lifecycle, LockInv

(* A new server is nobody's but the starting thread's.                     *)
LEMMA BuildServerStep ==
  ASSUME TypeOK, Lifecycle, NEW u \in Users, BuildServer(u)
  PROVE  Lifecycle'
  <1> DEFINE g == made + 1
  <1>0. made \in Nat /\ made' = made + 1
    BY ConstantsAssumption DEF TypeOK, BuildServer
  <1>1. /\ pc[u] = "build" /\ g \in Gens /\ made \in 0..MaxCalls
        /\ stopFlag' = FALSE /\ made' = g
        /\ sock' = [sock EXCEPT ![g] = TRUE] /\ worker' = [worker EXCEPT ![g] = "get"]
        /\ mine' = [mine EXCEPT ![u] = g]
        /\ UNCHANGED <<server, open, loop, jobs, chan, srqOn>>
    BY ConstantsAssumption DEF TypeOK, BuildServer, At, ClearStopFlag, device, Gens
  <1>2. \/ pc' = [pc EXCEPT ![u] = "channel"] /\ life' = life
        \/ pc' = [pc EXCEPT ![u] = "idle"] /\ life' = NoUser
    BY DEF BuildServer, Goto
  <1>3. life = u /\ life # NoUser /\ \A v \in Users \ {u} : pc[v] \notin Locked
    BY <1>1, Alone DEF Locked
  <1>4. server = 0 /\ server' = 0
    BY <1>1 DEF Lifecycle, StartInv
  <1>5. /\ sock'[g] /\ worker'[g] = "get" /\ loop'[g] = "none" /\ jobs'[g] = <<>>
        /\ mine'[u] = g
    BY <1>1 DEF TypeOK, Lifecycle, MadeInv
  <1>6. /\ pc'[u] \in {"channel", "idle"}
        /\ pc'[u] = "channel" <=> life' = u
        /\ life' \in {u, NoUser}
        /\ \A v \in Users \ {u} : pc'[v] = pc[v] /\ mine'[v] = mine[v]
    BY <1>1, <1>2, <1>3 DEF TypeOK
  <1>7. LockInv'
    BY <1>3, <1>6, ConstantsAssumption DEF LockInv, Locked, Setup, Teardown
  <1>8. StartInv' /\ PublishedServerWorks'
    BY <1>4 DEF StartInv, PublishedServerWorks
  <1>9. SetupInv'
    <2>1. \A v \in Users \ {u} : pc'[v] \notin Setup
      BY <1>3, <1>6 DEF Locked
    <2>2. pc'[u] \notin {"srq on", "publish"}
      BY <1>6
    <2>3. NoStop(made)' /\ made' # 0
      BY <1>1, <1>5 DEF NoStop
    <2> QED BY <1>1, <1>5, <2>1, <2>2, <2>3 DEF SetupInv, Setup
  <1>10. StopInv'
    <2>0. ASSUME NEW v \in Users, pc'[v] \in {"stop worker", "close sock"}
          PROVE  mine'[v] \in 1..made' /\ mine'[v] # server' /\ loop'[mine'[v]] # "none"
      <3>1. v # u /\ pc[v] = pc'[v] /\ mine'[v] = mine[v]
        BY <2>0, <1>6
      <3>2. mine[v] \in 1..made /\ loop[mine[v]] # "none"
        BY <2>0, <3>1 DEF Lifecycle, StopInv
      <3>3. mine'[v] \in 1..made'
        BY <1>0, <3>1, <3>2
      <3>4. mine'[v] # server'
        BY <1>0, <1>4, <3>1, <3>2
      <3>5. loop'[mine'[v]] # "none"
        BY <1>1, <3>1, <3>2
      <3> QED BY <3>3, <3>4, <3>5
    <2> QED BY <2>0 DEF StopInv
  <1>11. MadeInv'
    <2>1. \A h \in Gens : h > made => loop[h] = "none" /\ jobs[h] = <<>>
      BY DEF Lifecycle, MadeInv
    <2>2. made \in Nat /\ \A h \in Gens : h \in Nat
      BY <1>1 DEF Gens
    <2> QED BY <1>1, <1>4, <2>1, <2>2 DEF MadeInv
  <1> QED BY <1>7, <1>8, <1>9, <1>10, <1>11 DEF Lifecycle

(* The calls to the instrument and their failures: start goes on, or gives *)
(* up and releases the lock with nothing published.                        *)
LEMMA StartSteps ==
  ASSUME TypeOK, Lifecycle, NEW u \in Users,
         CreateIntrChan(u) \/ EnableSrq(u) \/ UndoChannel(u)
  PROVE  Lifecycle'
  <1>1. /\ pc[u] \in {"channel", "srq on", "unchannel"}
        /\ UNCHANGED <<server, made, loop, jobs, worker, stopFlag, mine, open>>
    BY DEF CreateIntrChan, EnableSrq, UndoChannel, Raise, At, session, servers, device
  <1>2. pc[u] \in Setup /\ pc[u] \in Locked
    BY <1>1 DEF Setup, Locked
  <1>3. life = u /\ life # NoUser /\ \A v \in Users \ {u} : pc[v] \notin Locked
    BY <1>2, Alone
  <1>4. server = 0 /\ server' = 0
    BY <1>1, <1>2 DEF Lifecycle, StartInv
  <1>5. \/ /\ \E there \in {"srq on", "unchannel", "publish"} : pc' = [pc EXCEPT ![u] = there]
           /\ life' = life /\ sock' = sock
        \/ /\ \E there \in {"idle", "rollback"} : pc' = [pc EXCEPT ![u] = there]
           /\ life' = NoUser
    BY DEF CreateIntrChan, EnableSrq, UndoChannel, Raise, Goto, At, session, servers, device
  <1>6. /\ pc'[u] \in {"srq on", "unchannel", "publish", "idle", "rollback"}
        /\ pc'[u] \in {"srq on", "unchannel", "publish"} <=> life' = u
        /\ life' \in {u, NoUser}
        /\ life' = u => sock' = sock
        /\ \A v \in Users \ {u} : pc'[v] = pc[v]
    BY <1>3, <1>5 DEF TypeOK
  <1>7. LockInv'
    BY <1>3, <1>6, ConstantsAssumption DEF LockInv, Locked, Setup, Teardown
  <1>8. StartInv' /\ PublishedServerWorks'
    BY <1>4 DEF StartInv, PublishedServerWorks
  <1>9. SetupInv'
    <2>1. \A v \in Users \ {u} : pc'[v] \notin Setup
      BY <1>3, <1>6 DEF Locked
    <2>2. /\ mine[u] = made /\ made # 0 /\ sock[made] /\ loop[made] = "none"
          /\ worker[made] \in {"get", "fire"} /\ NoStop(made) /\ ~ stopFlag
          /\ pc[u] \in {"srq on", "publish"} => (open => chan = made)
      BY <1>2 DEF Lifecycle, SetupInv
    <2>3. NoStop(made)'
      BY <1>1, <2>2 DEF NoStop
    <2>4. pc'[u] \in Setup => sock'[made]
      BY <1>6, <2>2 DEF Setup
    <2>5. pc'[u] = "srq on" => (open => chan' = made)
      BY <1>1, <2>2 DEF TypeOK, CreateIntrChan, EnableSrq, UndoChannel, Raise, Goto, At, session
    <2>6. pc'[u] = "publish" => (open => chan' = made /\ srqOn')
      BY <1>1, <2>2 DEF TypeOK, CreateIntrChan, EnableSrq, UndoChannel, Raise, Goto, At, session
    <2> QED BY <1>1, <2>1, <2>2, <2>3, <2>4, <2>5, <2>6 DEF SetupInv, Setup
  <1>10. StopInv'
    BY <1>1, <1>6 DEF Lifecycle, StopInv
  <1>11. MadeInv'
    BY <1>1 DEF Lifecycle, MadeInv
  <1> QED BY <1>7, <1>8, <1>9, <1>10, <1>11 DEF Lifecycle

(* Publishing turns what SetupInv says of the new server into              *)
(* PublishedServerWorks.                                                   *)
LEMMA PublishStep ==
  ASSUME TypeOK, Lifecycle, NEW u \in Users, Publish(u)
  PROVE  Lifecycle'
  <1>1. /\ pc[u] = "publish" /\ server' = mine[u] /\ life' = NoUser
        /\ loop' = [loop EXCEPT ![mine[u]] = "head"] /\ pc' = [pc EXCEPT ![u] = "idle"]
        /\ UNCHANGED <<made, jobs, worker, stopFlag, mine, open, sock, chan, srqOn>>
    BY DEF Publish, Goto, At, device
  <1>2. life = u /\ life # NoUser /\ \A v \in Users \ {u} : pc[v] \notin Locked
    BY <1>1, Alone DEF Locked, Setup
  <1>3. /\ mine[u] = made /\ made # 0 /\ sock[made] /\ loop[made] = "none"
        /\ worker[made] \in {"get", "fire"} /\ NoStop(made) /\ ~ stopFlag
        /\ open => chan = made /\ srqOn
    BY <1>1 DEF Lifecycle, SetupInv, Setup
  <1>4. made \in Gens /\ loop'[made] = "head" /\ \A h \in Gens \ {made} : loop'[h] = loop[h]
    BY <1>1, <1>3 DEF TypeOK, Gens
  <1>5. pc'[u] = "idle" /\ \A v \in Users \ {u} : pc'[v] = pc[v]
    BY <1>1 DEF TypeOK
  <1>6. LockInv'
    BY <1>1, <1>2, <1>5, ConstantsAssumption DEF LockInv, Locked, Setup, Teardown
  <1>7. \A v \in Users : pc'[v] \notin Locked
    BY <1>2, <1>5 DEF Locked, Setup, Teardown
  <1>8. StartInv' /\ SetupInv'
    BY <1>7 DEF StartInv, SetupInv, Locked, Setup
  <1>9. StopInv'
    <2>0. ASSUME NEW v \in Users, pc'[v] \in {"stop worker", "close sock"}
          PROVE  mine'[v] \in 1..made' /\ mine'[v] # server' /\ loop'[mine'[v]] # "none"
      <3>1. v # u /\ pc[v] = pc'[v] /\ mine'[v] = mine[v]
        BY <2>0, <1>1, <1>5
      <3>2. mine[v] \in 1..made /\ loop[mine[v]] # "none"
        BY <2>0, <3>1 DEF Lifecycle, StopInv
      <3>3. mine[v] # made
        BY <1>3, <3>2
      <3>4. mine[v] \in Gens
        <4>1. made \in Nat /\ made <= MaxCalls
          BY ConstantsAssumption DEF TypeOK
        <4> QED BY <3>2, <4>1, ConstantsAssumption DEF Gens
      <3> QED BY <1>1, <1>3, <1>4, <3>1, <3>2, <3>3, <3>4
    <2> QED BY <2>0 DEF StopInv
  <1>10. MadeInv'
    <2>1. server' \in 0..made' /\ loop'[server'] # "none"
      BY <1>1, <1>3, <1>4 DEF TypeOK, Gens
    <2>2. \A h \in Gens : h > made' => loop'[h] = "none" /\ jobs'[h] = <<>>
      BY <1>1, <1>4 DEF Lifecycle, MadeInv, Gens
    <2> QED BY <2>1, <2>2 DEF MadeInv
  <1>11. PublishedServerWorks'
    BY <1>1, <1>3, <1>4 DEF PublishedServerWorks, NoStop
  <1> QED BY <1>6, <1>8, <1>9, <1>10, <1>11 DEF Lifecycle

(* A stop talks to the instrument under the lifecycle lock.                *)
LEMMA StopCalls ==
  ASSUME TypeOK, Lifecycle, NEW u \in Users, DisableSrq(u) \/ DestroyIntrChan(u)
  PROVE  Lifecycle'
  <1>1. /\ pc[u] \in {"srq off", "destroy"}
        /\ UNCHANGED <<life, server, open, stopFlag, made, sock, loop, jobs, worker, mine>>
    BY DEF DisableSrq, DestroyIntrChan, At, session, servers
  <1>2. pc' = [pc EXCEPT ![u] = "destroy"] \/ pc' = [pc EXCEPT ![u] = "take"]
    BY DEF DisableSrq, DestroyIntrChan, Goto
  <1>3. pc[u] \in Locked /\ pc[u] \notin Setup \cup {"build"}
    BY <1>1 DEF Locked, Setup, Teardown
  <1>4. life = u /\ life # NoUser /\ \A v \in Users \ {u} : pc[v] \notin Locked
    BY <1>3, Alone
  <1>5. pc'[u] \in {"destroy", "take"} /\ \A v \in Users \ {u} : pc'[v] = pc[v]
    BY <1>2 DEF TypeOK
  <1>6. LockInv'
    BY <1>1, <1>4, <1>5, ConstantsAssumption DEF LockInv, Locked, Setup, Teardown
  <1>7. \A v \in Users : pc'[v] \notin Setup \cup {"build"}
    BY <1>4, <1>5 DEF Locked, Setup
  <1>8. StartInv' /\ SetupInv'
    BY <1>7 DEF StartInv, SetupInv, Setup
  <1>9. StopInv'
    BY <1>1, <1>5 DEF Lifecycle, StopInv
  <1>10. MadeInv' /\ PublishedServerWorks'
    BY <1>1, <1>4 DEF Lifecycle, MadeInv, PublishedServerWorks
  <1> QED BY <1>6, <1>8, <1>9, <1>10 DEF Lifecycle

(* It takes the pair down and releases the lock.                           *)
LEMMA TakeServerStep ==
  ASSUME TypeOK, Lifecycle, NEW u \in Users, TakeServer(u)
  PROVE  Lifecycle'
  <1>1. /\ pc[u] = "take" /\ server' = 0 /\ life' = NoUser
        /\ mine' = [mine EXCEPT ![u] = server]
        /\ UNCHANGED <<open, stopFlag, made, sock, loop, jobs, worker, chan, srqOn>>
    BY DEF TakeServer, At, servers, device
  <1>2. \/ /\ server # 0 /\ pc' = [pc EXCEPT ![u] = "stop worker"]
        \/ \E there \in {"idle", "destroy link"} : pc' = [pc EXCEPT ![u] = there]
    BY DEF TakeServer, AfterStop, Goto
  <1>3. life = u /\ life # NoUser /\ \A v \in Users \ {u} : pc[v] \notin Locked
    BY <1>1, Alone DEF Locked, Teardown
  <1>4. /\ pc'[u] \in {"stop worker", "idle", "destroy link"}
        /\ pc'[u] = "stop worker" => server # 0
        /\ mine'[u] = server
        /\ \A v \in Users \ {u} : pc'[v] = pc[v] /\ mine'[v] = mine[v]
    BY <1>1, <1>2 DEF TypeOK
  <1>5. \A v \in Users : pc'[v] \notin Locked
    BY <1>3, <1>4 DEF Locked, Setup, Teardown
  <1>6. LockInv'
    BY <1>1, <1>5, ConstantsAssumption DEF LockInv
  <1>7. StartInv' /\ SetupInv' /\ PublishedServerWorks'
    BY <1>1, <1>5 DEF StartInv, SetupInv, PublishedServerWorks, Locked, Setup
  <1>8. server # 0 => server \in 1..made /\ loop[server] # "none"
    BY ConstantsAssumption DEF TypeOK, Lifecycle, MadeInv
  <1>9. StopInv'
    <2>1. \A v \in Users \ {u} : pc[v] \in {"stop worker", "close sock"} =>
              mine[v] \in 1..made /\ loop[mine[v]] # "none"
      BY DEF Lifecycle, StopInv
    <2>2. \A m \in 1..made : m # 0
      BY ConstantsAssumption DEF TypeOK
    <2>3. ASSUME NEW v \in Users, pc'[v] \in {"stop worker", "close sock"}
          PROVE  mine'[v] \in 1..made /\ loop[mine'[v]] # "none"
      BY <1>4, <1>8, <2>1, <2>3
    <2> QED BY <1>1, <2>2, <2>3 DEF StopInv
  <1>10. MadeInv'
    <2>1. 0 \in 0..made
      BY ConstantsAssumption DEF TypeOK
    <2> QED BY <1>1, <2>1 DEF Lifecycle, MadeInv
  <1> QED BY <1>6, <1>7, <1>9, <1>10 DEF Lifecycle

(* Appending to a queue that is not the new or the published server's.     *)
LEMMA StopWorkerStep ==
  ASSUME TypeOK, Lifecycle, NEW u \in Users, StopWorker(u)
  PROVE  Lifecycle'
  <1>1. /\ pc[u] = "stop worker" /\ pc' = [pc EXCEPT ![u] = "close sock"]
        /\ jobs' = [jobs EXCEPT ![mine[u]] = Append(@, "stop")]
        /\ UNCHANGED <<life, server, open, stopFlag, made, sock, loop, worker, chan, srqOn, mine>>
    BY DEF StopWorker, At, Goto, session, device
  <1>2. mine[u] \in 1..made /\ mine[u] # server /\ loop[mine[u]] # "none"
    BY <1>1 DEF Lifecycle, StopInv
  <1>3. pc'[u] = "close sock" /\ \A v \in Users \ {u} : pc'[v] = pc[v]
    BY <1>1 DEF TypeOK
  <1>4. \A h \in Gens \ {mine[u]} : jobs'[h] = jobs[h]
    BY <1>1 DEF TypeOK
  <1>5. LockInv' /\ StartInv'
    BY <1>1, <1>3 DEF Lifecycle, LockInv, StartInv, Locked, Setup, Teardown
  <1>6. SetupInv'
    <2>1. ASSUME NEW v \in Users, pc'[v] \in Setup
          PROVE  /\ v # u /\ pc[v] \in Setup /\ pc'[v] = pc[v]
                 /\ made \in Gens \ {mine[u]}
      <3>1. v # u /\ pc'[v] = pc[v]
        BY <1>3, <2>1 DEF Setup
      <3>2. made # 0 /\ loop[made] = "none"
        BY <2>1, <3>1 DEF Lifecycle, SetupInv
      <3>3. made # mine[u]
        BY <1>2, <3>2
      <3>4. made \in Gens
        BY <3>2, ConstantsAssumption DEF TypeOK, Gens
      <3> QED BY <2>1, <3>1, <3>3, <3>4
    <2>2. \A v \in Users : pc'[v] \in Setup => v # u /\ pc[v] \in Setup /\ pc'[v] = pc[v] /\ jobs'[made] = jobs[made]
      BY <1>4, <2>1
    <2>3. \A v \in Users : pc'[v] \in Setup => NoStop(made)'
      <3>1. \A v \in Users : pc[v] \in Setup => NoStop(made)
        BY DEF Lifecycle, SetupInv
      <3> QED BY <1>1, <2>2, <3>1 DEF NoStop
    <2> QED BY <1>1, <2>2, <2>3 DEF Lifecycle, SetupInv, Setup
  <1>7. StopInv'
    BY <1>1, <1>2, <1>3 DEF Lifecycle, StopInv
  <1>8. MadeInv'
    <2>1. \A h \in Gens : h > made => h # mine[u]
      BY <1>2, ConstantsAssumption DEF TypeOK, Gens
    <2>2. \A h \in Gens : h > made => loop[h] = "none" /\ jobs[h] = <<>>
      BY DEF Lifecycle, MadeInv
    <2>3. \A h \in Gens : h > made => loop[h] = "none" /\ jobs'[h] = <<>>
      BY <1>4, <2>1, <2>2
    <2> QED BY <1>1, <2>3 DEF Lifecycle, MadeInv
  <1>9. PublishedServerWorks'
    <2>1. server # 0 => server \in Gens \ {mine[u]}
      BY <1>2, ConstantsAssumption DEF TypeOK, Gens
    <2>2. server # 0 => jobs'[server] = jobs[server]
      BY <1>4, <2>1
    <2> QED BY <1>1, <2>2 DEF Lifecycle, PublishedServerWorks, NoStop
  <1> QED BY <1>5, <1>6, <1>7, <1>8, <1>9 DEF Lifecycle

(* So for the socket it closes.                                            *)
LEMMA CloseSockStep ==
  ASSUME TypeOK, Lifecycle, NEW u \in Users, CloseSock(u)
  PROVE  Lifecycle'
  <1>1. /\ pc[u] = "close sock"
        /\ \E there \in {"idle", "destroy link"} : pc' = [pc EXCEPT ![u] = there]
        /\ sock' = [sock EXCEPT ![mine[u]] = FALSE]
        /\ UNCHANGED <<life, server, open, stopFlag, made, loop, jobs, worker, chan, srqOn, mine>>
    BY DEF CloseSock, AfterStop, At, Goto, session, device
  <1>2. mine[u] \in 1..made /\ mine[u] # server /\ loop[mine[u]] # "none"
    BY <1>1 DEF Lifecycle, StopInv
  <1>3. pc'[u] \in {"idle", "destroy link"} /\ \A v \in Users \ {u} : pc'[v] = pc[v]
    BY <1>1 DEF TypeOK
  <1>4. \A h \in Gens \ {mine[u]} : sock'[h] = sock[h]
    BY <1>1 DEF TypeOK
  <1>5. LockInv' /\ StartInv'
    BY <1>1, <1>3 DEF Lifecycle, LockInv, StartInv, Locked, Setup, Teardown
  <1>6. SetupInv'
    <2>1. ASSUME NEW v \in Users, pc'[v] \in Setup
          PROVE  /\ v # u /\ pc[v] \in Setup /\ pc'[v] = pc[v]
                 /\ made \in Gens \ {mine[u]}
      <3>1. v # u /\ pc'[v] = pc[v]
        BY <1>3, <2>1 DEF Setup
      <3>2. made # 0 /\ loop[made] = "none"
        BY <2>1, <3>1 DEF Lifecycle, SetupInv
      <3>3. made # mine[u]
        BY <1>2, <3>2
      <3>4. made \in Gens
        BY <3>2, ConstantsAssumption DEF TypeOK, Gens
      <3> QED BY <2>1, <3>1, <3>3, <3>4
    <2>2. \A v \in Users : pc'[v] \in Setup => v # u /\ pc[v] \in Setup /\ pc'[v] = pc[v] /\ sock'[made] = sock[made]
      BY <1>4, <2>1
    <2> QED BY <1>1, <2>2 DEF Lifecycle, SetupInv, NoStop, Setup
  <1>7. StopInv' /\ MadeInv'
    BY <1>1, <1>3 DEF Lifecycle, StopInv, MadeInv
  <1>8. PublishedServerWorks'
    <2>1. server # 0 => server \in Gens \ {mine[u]}
      BY <1>2, ConstantsAssumption DEF TypeOK, Gens
    <2>2. server # 0 => sock'[server] = sock[server]
      BY <1>4, <2>1
    <2> QED BY <1>1, <2>2 DEF Lifecycle, PublishedServerWorks, NoStop
  <1> QED BY <1>5, <1>6, <1>7, <1>8 DEF Lifecycle

(* A closed session asks nothing of its instrument.                        *)
LEMMA DestroyLinkStep ==
  ASSUME TypeOK, Lifecycle, NEW u \in Users, DestroyLink(u)
  PROVE  Lifecycle'
  <1>1. /\ pc[u] = "destroy link" /\ pc' = [pc EXCEPT ![u] = "idle"] /\ open' = FALSE
        /\ UNCHANGED <<life, server, stopFlag, made, sock, loop, jobs, worker, mine>>
    BY DEF DestroyLink, At, Goto, servers
  <1>2. pc'[u] = "idle" /\ \A v \in Users \ {u} : pc'[v] = pc[v]
    BY <1>1 DEF TypeOK
  <1>3. LockInv' /\ StartInv'
    BY <1>1, <1>2 DEF Lifecycle, LockInv, StartInv, Locked, Setup, Teardown
  <1>4. SetupInv'
    BY <1>1, <1>2 DEF Lifecycle, SetupInv, Setup, NoStop
  <1>5. StopInv' /\ MadeInv' /\ PublishedServerWorks'
    BY <1>1, <1>2 DEF Lifecycle, StopInv, MadeInv, PublishedServerWorks, NoStop
  <1> QED BY <1>3, <1>4, <1>5 DEF Lifecycle

(* A listener that has been started ends only when it is to: its stop flag *)
(* is set or its socket closed.  Whatever it receives is not a "stop".     *)
LEMMA ListenerKeeps ==
  ASSUME TypeOK, Lifecycle, NEW g \in Gens, loop[g] # "none",
         \E there \in {"head", "accept", "conn", "recv", "dead"} :
             /\ loop' = [loop EXCEPT ![g] = there]
             /\ there = "dead" => stopFlag \/ ~ sock[g],
         jobs' = jobs \/ jobs' = [jobs EXCEPT ![g] = Append(@, "srq")],
         UNCHANGED <<life, stopFlag, server, open, made, sock, worker, chan, srqOn, pc, mine>>
  PROVE  Lifecycle'
  <1>1. \A h \in Gens : /\ loop'[h] = "none" <=> loop[h] = "none"
                        /\ h # g => loop'[h] = loop[h] /\ jobs'[h] = jobs[h]
                        /\ loop'[h] = "dead" => loop[h] = "dead" \/ stopFlag \/ ~ sock[h]
    BY DEF TypeOK
  <1>2. \A h \in Gens : NoStop(h) => NoStop(h)'
    <2>1. ASSUME NEW h \in Gens, NoStop(h) PROVE NoStop(h)'
      <3>1. CASE h # g \/ jobs' = jobs
        BY <1>1, <2>1, <3>1 DEF NoStop
      <3>2. CASE h = g /\ jobs' = [jobs EXCEPT ![g] = Append(@, "srq")]
        <4>1. jobs[g] \in Seq({"srq", "stop"}) /\ jobs'[g] = Append(jobs[g], "srq")
          BY <3>2 DEF TypeOK
        <4>2. \A i \in DOMAIN jobs'[g] : jobs'[g][i] = "srq" \/ (i \in DOMAIN jobs[g] /\ jobs'[g][i] = jobs[g][i])
          BY <4>1
        <4> QED BY <2>1, <3>2, <4>2 DEF NoStop
      <3> QED BY <3>1, <3>2
    <2> QED BY <2>1
  <1>3. \A h \in 1..made : h \in Gens
    BY ConstantsAssumption DEF TypeOK, Gens
  <1>4. made # 0 => made \in Gens
    BY ConstantsAssumption DEF TypeOK, Gens
  <1>5. server # 0 => server \in Gens
    BY ConstantsAssumption DEF TypeOK, Gens
  <1>6. LockInv' /\ StartInv'
    BY DEF Lifecycle, LockInv, StartInv
  <1>7. SetupInv'
    <2>1. ASSUME NEW v \in Users, pc[v] \in Setup
          PROVE  made # 0 /\ loop'[made] = "none" /\ NoStop(made)'
      <3>1. made # 0 /\ loop[made] = "none" /\ NoStop(made)
        BY <2>1 DEF Lifecycle, SetupInv
      <3>2. NoStop(made) => NoStop(made)'
        BY <1>2, <1>4, <3>1
      <3> QED BY <1>1, <1>4, <3>1, <3>2
    <2> QED BY <2>1 DEF Lifecycle, SetupInv
  <1>8. StopInv'
    BY <1>1, <1>3 DEF Lifecycle, StopInv
  <1>9. MadeInv'
    <2>1. g <= made
      BY ConstantsAssumption DEF TypeOK, Lifecycle, MadeInv, Gens
    <2>2. \A h \in Gens : h > made => h # g
      BY <2>1, ConstantsAssumption DEF TypeOK, Gens
    <2> QED BY <1>1, <1>5, <2>2 DEF Lifecycle, MadeInv
  <1>10. PublishedServerWorks'
    <2>1. server # 0 => (NoStop(server) => NoStop(server)')
      BY <1>2, <1>5
    <2> QED BY <1>1, <1>5, <2>1 DEF Lifecycle, PublishedServerWorks
  <1> QED BY <1>6, <1>7, <1>8, <1>9, <1>10 DEF Lifecycle

(* Every step of a listener is of that kind.                               *)
LEMMA ListenerInv ==
  ASSUME TypeOK, Lifecycle, NEW g \in Gens, ListenerStep(g)
  PROVE  Lifecycle'
  <1>1. loop[g] # "none"
    BY DEF ListenerStep, LoopHead, Accept, AcceptTimeout, AcceptError, CheckStop, Receive, ReceiveNothing, In
  <1>2. UNCHANGED <<life, stopFlag, server, open, made, sock, worker, chan, srqOn, pc, mine>>
    BY DEF ListenerStep, LoopHead, Accept, AcceptTimeout, AcceptError, CheckStop, Receive,
           ReceiveNothing, EndConnection, session, device, threads
  <1>3. jobs' = jobs \/ jobs' = [jobs EXCEPT ![g] = Append(@, "srq")]
    BY DEF ListenerStep, LoopHead, Accept, AcceptTimeout, AcceptError, CheckStop, Receive,
           ReceiveNothing, EndConnection
  <1>4. \E there \in {"head", "accept", "conn", "recv", "dead"} :
            /\ loop' = [loop EXCEPT ![g] = there]
            /\ there = "dead" => stopFlag \/ ~ sock[g]
    BY DEF ListenerStep, LoopHead, Accept, AcceptTimeout, AcceptError, CheckStop, Receive,
           ReceiveNothing, EndConnection, Move
  <1> QED BY <1>1, <1>2, <1>3, <1>4, ListenerKeeps

(* What is left of a queue without "stop" has none.                        *)
LEMMA TailNoStop ==
  ASSUME NEW s \in Seq({"srq", "stop"}), s # <<>>, \A i \in DOMAIN s : s[i] # "stop"
  PROVE  Head(s) # "stop" /\ \A i \in DOMAIN Tail(s) : Tail(s)[i] # "stop"
  <1>1. Tail(s) \in Seq({"srq", "stop"}) /\ Len(Tail(s)) = Len(s) - 1 /\ Len(s) \in Nat \ {0}
    OBVIOUS
  <1>2. \A i \in 1..Len(Tail(s)) : Tail(s)[i] = s[i + 1] /\ i + 1 \in 1..Len(s)
    BY <1>1
  <1>3. Head(s) = s[1] /\ 1 \in 1..Len(s)
    BY <1>1
  <1> QED BY <1>1, <1>2, <1>3

(* A worker ends only when it takes a "stop" from its queue.               *)
LEMMA WorkerInv ==
  ASSUME TypeOK, Lifecycle, NEW g \in Gens, WorkerStep(g)
  PROVE  Lifecycle'
  <1>1. /\ worker[g] \in {"get", "fire"}
        /\ UNCHANGED <<life, stopFlag, server, open, made, sock, loop, chan, srqOn, pc, mine>>
    BY DEF WorkerStep, WorkerGet, WorkerFire, session, device, threads
  <1>2. \A h \in Gens : /\ h # g => worker'[h] = worker[h] /\ jobs'[h] = jobs[h]
                        /\ worker[h] \in {"get", "fire"} /\ NoStop(h) => worker'[h] \in {"get", "fire"}
    <2>1. ASSUME NEW h \in Gens, h # g
          PROVE  worker'[h] = worker[h] /\ jobs'[h] = jobs[h]
      BY <2>1 DEF TypeOK, WorkerStep, WorkerGet, WorkerFire
    <2>2. ASSUME NoStop(g)
          PROVE  worker'[g] \in {"get", "fire"}
      <3>1. CASE WorkerGet(g)
        <4>1. jobs[g] # <<>> /\ jobs[g] \in Seq({"srq", "stop"}) /\ jobs'[g] = Tail(jobs[g])
          BY <3>1 DEF TypeOK, WorkerGet
        <4>2. Head(jobs[g]) # "stop"
          BY <2>2, <4>1, TailNoStop DEF NoStop
        <4>3. worker'[g] = "fire"
          BY <3>1, <4>2 DEF TypeOK, WorkerGet
        <4> QED BY <4>3
      <3>2. CASE WorkerFire(g)
        BY <2>2, <3>2 DEF TypeOK, WorkerFire, NoStop
      <3> QED BY <3>1, <3>2 DEF WorkerStep
    <2> QED BY <2>1, <2>2
  <1>9. \A h \in Gens : NoStop(h) => NoStop(h)'
    <2>1. ASSUME NEW h \in Gens, h # g, NoStop(h)
          PROVE  NoStop(h)'
      BY <1>2, <2>1 DEF NoStop
    <2>2. ASSUME NoStop(g)
          PROVE  NoStop(g)'
      <3>1. CASE WorkerGet(g)
        <4>1. jobs[g] # <<>> /\ jobs[g] \in Seq({"srq", "stop"}) /\ jobs'[g] = Tail(jobs[g])
          BY <3>1 DEF TypeOK, WorkerGet
        <4> QED BY <2>2, <4>1, TailNoStop DEF NoStop
      <3>2. CASE WorkerFire(g)
        BY <2>2, <3>2 DEF WorkerFire, NoStop
      <3> QED BY <3>1, <3>2 DEF WorkerStep
    <2> QED BY <2>1, <2>2
  <1>3. made # 0 => made \in Gens
    BY ConstantsAssumption DEF TypeOK, Gens
  <1>4. server # 0 => server \in Gens
    BY ConstantsAssumption DEF TypeOK, Gens
  <1>5. LockInv' /\ StartInv' /\ StopInv'
    BY <1>1 DEF Lifecycle, LockInv, StartInv, StopInv
  <1>6. SetupInv'
    <2>1. ASSUME NEW v \in Users, pc[v] \in Setup
          PROVE  made # 0 /\ worker'[made] \in {"get", "fire"} /\ NoStop(made)'
      <3>1. made # 0 /\ worker[made] \in {"get", "fire"} /\ NoStop(made)
        BY <2>1 DEF Lifecycle, SetupInv
      <3>2. NoStop(made) => NoStop(made)'
        BY <1>1, <1>9, <1>3, <3>1
      <3> QED BY <1>2, <1>3, <3>1, <3>2
    <2> QED BY <1>1, <2>1 DEF Lifecycle, SetupInv
  <1>7. MadeInv'
    <2>1. jobs[g] = <<>> => jobs'[g] = <<>>
      BY DEF TypeOK, WorkerStep, WorkerGet, WorkerFire
    <2> QED BY <1>1, <1>2, <2>1 DEF Lifecycle, MadeInv
  <1>8. PublishedServerWorks'
    <2>1. server # 0 => (NoStop(server) => NoStop(server)')
      BY <1>1, <1>9, <1>4
    <2> QED BY <1>1, <1>2, <1>4, <2>1 DEF Lifecycle, PublishedServerWorks
  <1> QED BY <1>5, <1>6, <1>7, <1>8 DEF Lifecycle

(* The instrument's own steps touch nothing the lifecycle is about.        *)
LEMMA DeviceInv ==
  ASSUME TypeOK, Lifecycle, DeviceConnect \/ DeviceSrq
  PROVE  Lifecycle'
  <1>1. UNCHANGED <<life, stopFlag, server, open, made, sock, loop, jobs, worker, chan, srqOn, pc, mine>>
    BY DEF DeviceConnect, DeviceSrq, session, servers, threads
  <1> QED BY <1>1 DEF Lifecycle, LockInv, StartInv, SetupInv, StopInv, MadeInv, PublishedServerWorks, NoStop

-----------------------------------------------------------------------------
(* What is left of the instrument's connections when it hangs up on one.   *)
LEMMA HangUpType ==
  ASSUME TypeOK
  PROVE  HangUp \in [Gens -> {"none", "backlog", "up", "down"}]
  BY DEF TypeOK, HangUp

(* The calls of the application threads keep the types.                    *)
LEMMA CallType ==
  ASSUME TypeOK, NEW u \in Users, NEW ms \in SUBSET Mechs,
         EnableEvent(u, ms) \/ DisableEvent(u, ms) \/ Close(u)
  PROVE  TypeOK'
  <1>1. /\ calls' \in Nat
        /\ arg' \in [Users -> [op : {"enable", "disable", "close"}, mech : SUBSET Mechs]]
        /\ pc' \in [Users -> PCs]
        /\ mine' = mine
    <2>1. \E op \in {"enable", "disable", "close"}, m \in SUBSET Mechs, there \in PCs : Call(u, op, m, there)
      BY DEF EnableEvent, DisableEvent, Close, PCs
    <2>2. PICK op \in {"enable", "disable", "close"}, m \in SUBSET Mechs, there \in PCs : Call(u, op, m, there)
      BY <2>1
    <2>3. calls' = calls + 1 /\ arg' = [arg EXCEPT ![u] = [op |-> op, mech |-> m]] /\ mine' = mine
          /\ pc' = [pc EXCEPT ![u] = there]
      BY <2>2 DEF Call, Goto
    <2> QED BY <2>3 DEF TypeOK
  <1>2. enabled' \subseteq Mechs
    BY DEF TypeOK, EnableEvent, DisableEvent, Close, session
  <1>3. UNCHANGED <<life, stopFlag, server, open, delivery, servers, device>>
    BY DEF EnableEvent, DisableEvent, Close, session
  <1> QED BY <1>1, <1>2, <1>3 DEF TypeOK, delivery, servers, device

(* Steps of a start.                                                       *)
LEMMA StartType ==
  ASSUME TypeOK, NEW u \in Users,
         StartNotNeeded(u) \/ StartNeeded(u) \/ BuildServer(u) \/ Rollback(u) \/ Publish(u)
  PROVE  TypeOK'
  <1>1. CASE StartNotNeeded(u)
    BY <1>1 DEF TypeOK, StartNotNeeded, Goto, PCs, session, delivery, servers, device
  <1>2. CASE StartNeeded(u)
    BY <1>2 DEF TypeOK, StartNeeded, Goto, PCs, delivery, servers, device
  <1>3. CASE BuildServer(u)
    <2>1. made + 1 \in Gens /\ made + 1 \in 0..MaxCalls
      BY <1>3, ConstantsAssumption DEF TypeOK, BuildServer, Gens
    <2>2. /\ stopFlag' = FALSE /\ made' = made + 1
          /\ sock' = [sock EXCEPT ![made + 1] = TRUE] /\ worker' = [worker EXCEPT ![made + 1] = "get"]
          /\ mine' = [mine EXCEPT ![u] = made + 1]
          /\ UNCHANGED <<enabled, server, open, delivery, loop, jobs, mech, device, arg, calls>>
      BY <1>3 DEF BuildServer, ClearStopFlag
    <2>3. sock' \in [Gens -> BOOLEAN] /\ worker' \in [Gens -> {"none", "get", "fire", "dead"}]
      BY <2>1, <2>2 DEF TypeOK
    <2>4. mine' \in [Users -> 0..MaxCalls] /\ made' \in 0..MaxCalls
      BY <2>1, <2>2 DEF TypeOK
    <2>5. pc' \in [Users -> PCs] /\ life' \in Users \cup {NoUser}
      BY <1>3 DEF TypeOK, BuildServer, Goto, PCs
    <2> QED BY <2>2, <2>3, <2>4, <2>5 DEF TypeOK, delivery, device
  <1>4. CASE Rollback(u)
    BY <1>4 DEF TypeOK, Rollback, Goto, PCs, delivery, servers, device
  <1>5. CASE Publish(u)
    BY <1>5 DEF TypeOK, Publish, Goto, PCs, delivery, device
  <1> QED BY <1>1, <1>2, <1>3, <1>4, <1>5

(* Steps that call the instrument.                                         *)
LEMMA InstrumentCallType ==
  ASSUME TypeOK, NEW u \in Users,
         \/ CreateIntrChan(u) \/ EnableSrq(u) \/ UndoChannel(u)
         \/ DisableSrq(u) \/ DestroyIntrChan(u) \/ DestroyLink(u)
  PROVE  TypeOK'
  <1>1. HangUp \in [Gens -> {"none", "backlog", "up", "down"}]
    BY HangUpType
  <1>2. /\ link' = link \/ link' = HangUp
        /\ chan' = chan \/ chan' = 0 \/ chan' = mine[u]
        /\ srqOn' \in {srqOn, TRUE, FALSE}
        /\ UNCHANGED <<wire, sent>>
    BY DEF CreateIntrChan, EnableSrq, UndoChannel, DisableSrq, DestroyIntrChan, DestroyLink,
           Raise, Attempt, device
  <1>7. /\ link \in [Gens -> {"none", "backlog", "up", "down"}] /\ srqOn \in BOOLEAN
        /\ chan \in 0..MaxCalls /\ mine[u] \in 0..MaxCalls /\ 0 \in 0..MaxCalls
    BY ConstantsAssumption DEF TypeOK
  <1>3. link' \in [Gens -> {"none", "backlog", "up", "down"}]
    BY <1>1, <1>2, <1>7
  <1>8. chan' \in 0..MaxCalls /\ srqOn' \in BOOLEAN
    BY <1>2, <1>7
  <1>4. /\ sock' = sock \/ sock' = [sock EXCEPT ![mine[u]] = FALSE]
        /\ UNCHANGED <<made, loop, jobs, worker, mech>>
        /\ life' \in {life, NoUser} /\ open' \in {open, FALSE}
        /\ UNCHANGED <<enabled, stopFlag, server, delivery, arg, mine, calls>>
    BY DEF CreateIntrChan, EnableSrq, UndoChannel, DisableSrq, DestroyIntrChan, DestroyLink,
           Raise, servers, session
  <1>5. \E there \in PCs : pc' = [pc EXCEPT ![u] = there]
    BY DEF CreateIntrChan, EnableSrq, UndoChannel, DisableSrq, DestroyIntrChan, DestroyLink,
           Raise, Goto, PCs
  <1>6. pc' \in [Users -> PCs] /\ sock' \in [Gens -> BOOLEAN]
    <2>1. pc \in [Users -> PCs] /\ sock \in [Gens -> BOOLEAN]
      BY DEF TypeOK
    <2>2. pc' \in [Users -> PCs]
      BY <1>5, <2>1
    <2>3. sock' \in [Gens -> BOOLEAN]
      BY <1>4, <2>1
    <2> QED BY <2>2, <2>3
  <1> QED BY <1>2, <1>3, <1>4, <1>6, <1>8 DEF TypeOK, delivery

(* The other steps of a stop.                                              *)
LEMMA StopType ==
  ASSUME TypeOK, NEW u \in Users,
         \/ AnyEnabled(u) \/ StopGuard(u) \/ StopLock(u) \/ TakeServer(u) \/ StopWorker(u)
         \/ CloseSock(u)
  PROVE  TypeOK'
  <1>1. \E there \in PCs : pc' = [pc EXCEPT ![u] = there]
    BY DEF AnyEnabled, StopGuard, StopLock, TakeServer, StopWorker, CloseSock, AfterStop, Goto, PCs
  <1>2. pc' \in [Users -> PCs]
    BY <1>1 DEF TypeOK
  <1>3. /\ jobs' = jobs \/ jobs' = [jobs EXCEPT ![mine[u]] = Append(@, "stop")]
        /\ sock' = sock \/ sock' = [sock EXCEPT ![mine[u]] = FALSE]
        /\ mine' = mine \/ mine' = [mine EXCEPT ![u] = server]
        /\ server' \in {server, 0} /\ life' \in {life, u, NoUser} /\ stopFlag' \in {stopFlag, TRUE}
        /\ UNCHANGED <<enabled, open, delivery, made, loop, worker, mech, device, arg, calls>>
    BY DEF AnyEnabled, StopGuard, StopLock, TakeServer, StopWorker, CloseSock, session, servers
  <1>4. \A s \in Seq({"srq", "stop"}) : Append(s, "stop") \in Seq({"srq", "stop"})
    OBVIOUS
  <1>7. /\ jobs \in [Gens -> Seq({"srq", "stop"})]
        /\ sock \in [Gens -> BOOLEAN] /\ mine \in [Users -> 0..MaxCalls]
        /\ server \in 0..MaxCalls /\ life \in Users \cup {NoUser} /\ stopFlag \in BOOLEAN
        /\ 0 \in 0..MaxCalls
    BY ConstantsAssumption DEF TypeOK
  <1>5. jobs' \in [Gens -> Seq({"srq", "stop"})]
    <2>1. \A h \in Gens : Append(jobs[h], "stop") \in Seq({"srq", "stop"})
      BY <1>4, <1>7
    <2>2. ASSUME NEW m
          PROVE  [jobs EXCEPT ![m] = Append(@, "stop")] \in [Gens -> Seq({"srq", "stop"})]
      BY <1>7, <2>1
    <2>3. [jobs EXCEPT ![mine[u]] = Append(@, "stop")] \in [Gens -> Seq({"srq", "stop"})]
      BY <2>2
    <2>4. jobs' = jobs \/ jobs' = [jobs EXCEPT ![mine[u]] = Append(@, "stop")]
      BY <1>3
    <2> QED BY <1>7, <2>3, <2>4
  <1>6. sock' \in [Gens -> BOOLEAN]
    BY <1>3, <1>7
  <1>8. mine' \in [Users -> 0..MaxCalls] /\ server' \in 0..MaxCalls
    BY <1>3, <1>7
  <1>9. life' \in Users \cup {NoUser} /\ stopFlag' \in BOOLEAN
    BY <1>3, <1>7
  <1> QED BY <1>2, <1>3, <1>5, <1>6, <1>8, <1>9 DEF TypeOK, delivery, device

(* Steps of the listeners and workers and of the instrument.               *)
LEMMA ServerType ==
  ASSUME TypeOK,
         \/ \E g \in Gens : ListenerStep(g) \/ WorkerStep(g)
         \/ DeviceConnect \/ DeviceSrq
  PROVE  TypeOK'
  <1>1. ASSUME NEW g \in Gens, ListenerStep(g)
        PROVE  TypeOK'
    <2>1. \E there \in {"head", "accept", "conn", "recv", "dead"} : loop' = [loop EXCEPT ![g] = there]
      BY <1>1 DEF ListenerStep, LoopHead, Accept, AcceptTimeout, AcceptError, CheckStop, Receive,
                  ReceiveNothing, EndConnection, Move
    <2>2. /\ link' = link \/ \E l \in {"none", "up"} : link' = [link EXCEPT ![g] = l] \/ link' = [link EXCEPT ![g] = @]
          /\ \/ wire' = wire /\ jobs' = jobs
             \/ wire' = [wire EXCEPT ![g] = 0] /\ jobs' = jobs
             \/ /\ wire[g] > 0 /\ wire' = [wire EXCEPT ![g] = @ - 1]
                /\ jobs' = [jobs EXCEPT ![g] = Append(@, "srq")]
          /\ UNCHANGED <<session, delivery, made, sock, worker, mech, chan, srqOn, sent, threads>>
      BY <1>1 DEF ListenerStep, LoopHead, Accept, AcceptTimeout, AcceptError, CheckStop, Receive,
                  ReceiveNothing, EndConnection, device
    <2>7. /\ loop \in [Gens -> {"none", "head", "accept", "conn", "recv", "dead"}]
          /\ link \in [Gens -> {"none", "backlog", "up", "down"}]
          /\ wire \in [Gens -> Nat]
          /\ jobs \in [Gens -> Seq({"srq", "stop"})]
      BY DEF TypeOK
    <2>3. loop' \in [Gens -> {"none", "head", "accept", "conn", "recv", "dead"}]
      BY <2>1, <2>7
    <2>8. link' \in [Gens -> {"none", "backlog", "up", "down"}]
      BY <2>2, <2>7
    <2>4. wire' \in [Gens -> Nat]
      BY <2>2, <2>7
    <2>5. \A s \in Seq({"srq", "stop"}) : Append(s, "srq") \in Seq({"srq", "stop"})
      OBVIOUS
    <2>6. jobs' \in [Gens -> Seq({"srq", "stop"})]
      <3>1. \A h \in Gens : Append(jobs[h], "srq") \in Seq({"srq", "stop"})
        BY <2>5, <2>7
      <3> QED BY <2>2, <2>7, <3>1
    <2> QED BY <2>2, <2>3, <2>4, <2>6, <2>8 DEF TypeOK, session, delivery, threads
  <1>2. ASSUME NEW g \in Gens, WorkerStep(g)
        PROVE  TypeOK'
    <2>1. \A s \in Seq({"srq", "stop"}) : s # <<>> => Tail(s) \in Seq({"srq", "stop"})
      OBVIOUS
    <2>2. jobs' = jobs \/ (jobs[g] # <<>> /\ jobs' = [jobs EXCEPT ![g] = Tail(@)])
      BY <1>2 DEF WorkerStep, WorkerGet, WorkerFire
    <2>8. /\ jobs \in [Gens -> Seq({"srq", "stop"})]
          /\ worker \in [Gens -> {"none", "get", "fire", "dead"}]
          /\ mech \in [Gens -> SUBSET Mechs]
      BY DEF TypeOK
    <2>3. jobs' \in [Gens -> Seq({"srq", "stop"})]
      BY <2>1, <2>2, <2>8
    <2>4. /\ \E w \in {"get", "fire", "dead"} : worker' = [worker EXCEPT ![g] = w]
          /\ mech' = mech \/ \E ms \in SUBSET Mechs : mech' = [mech EXCEPT ![g] = ms]
      BY <1>2 DEF TypeOK, WorkerStep, WorkerGet, WorkerFire
    <2>9. worker' \in [Gens -> {"none", "get", "fire", "dead"}]
      BY <2>4, <2>8
    <2>5. mech' \in [Gens -> SUBSET Mechs]
      BY <2>4, <2>8
    <2>6. queued' \in Nat /\ fired' \in Nat
      BY <1>2 DEF TypeOK, WorkerStep, WorkerGet, WorkerFire, delivery
    <2>7. UNCHANGED <<session, made, sock, loop, device, threads>>
      BY <1>2 DEF WorkerStep, WorkerGet, WorkerFire
    <2> QED BY <2>3, <2>5, <2>6, <2>7, <2>9 DEF TypeOK, session, device, threads
  <1>3. CASE DeviceConnect
    <2>1. link' \in [Gens -> {"none", "backlog", "up", "down"}]
      BY <1>3 DEF TypeOK, DeviceConnect
    <2> QED BY <1>3, <2>1 DEF TypeOK, DeviceConnect, session, delivery, servers, threads
  <1>4. CASE DeviceSrq
    <2>2. wire \in [Gens -> Nat] /\ sent \in Nat
      BY DEF TypeOK
    <2>3. wire' = [wire EXCEPT ![chan] = @ + 1] /\ sent' = sent + 1
      BY <1>4 DEF DeviceSrq
    <2>4. \A g \in Gens : wire[g] + 1 \in Nat
      BY <2>2
    <2>5. wire' \in [Gens -> Nat]
      BY <2>2, <2>3, <2>4
    <2>1. wire' \in [Gens -> Nat] /\ sent' \in Nat
      BY <2>2, <2>3, <2>5
    <2> QED BY <1>4, <2>1 DEF TypeOK, DeviceSrq, session, delivery, servers, threads
  <1> QED BY <1>1, <1>2, <1>3, <1>4

-----------------------------------------------------------------------------
(* The initial state: no server, nobody in a call.                         *)
LEMMA InitInv == Init => Inv
  <1> SUFFICES ASSUME Init PROVE Inv
    OBVIOUS
  <1>1. TypeOK
    <2>1. /\ server \in 0..MaxCalls /\ made \in 0..MaxCalls /\ chan \in 0..MaxCalls
          /\ mine \in [Users -> 0..MaxCalls]
      BY ConstantsAssumption DEF Init
    <2>2. jobs \in [Gens -> Seq({"srq", "stop"})] /\ wire \in [Gens -> Nat]
      BY DEF Init
    <2>3. arg \in [Users -> [op : {"enable", "disable", "close"}, mech : SUBSET Mechs]]
      BY DEF Init
    <2>4. /\ sock \in [Gens -> BOOLEAN] /\ mech \in [Gens -> SUBSET Mechs]
          /\ loop \in [Gens -> {"none", "head", "accept", "conn", "recv", "dead"}]
          /\ worker \in [Gens -> {"none", "get", "fire", "dead"}]
          /\ link \in [Gens -> {"none", "backlog", "up", "down"}]
          /\ pc \in [Users -> PCs]
      BY DEF Init, PCs
    <2> QED BY <2>1, <2>2, <2>3, <2>4 DEF Init, TypeOK
  <1>2. LockInv
    BY ConstantsAssumption DEF Init, LockInv, Locked, Setup, Teardown
  <1>3. StartInv /\ SetupInv /\ StopInv
    BY DEF Init, StartInv, SetupInv, StopInv, Setup
  <1>4. MadeInv /\ PublishedServerWorks
    BY DEF Init, MadeInv, PublishedServerWorks
  <1> QED BY <1>1, <1>2, <1>3, <1>4 DEF Inv, Lifecycle

(* A step of an application thread keeps the lifecycle invariant.          *)
LEMMA UserInv ==
  ASSUME TypeOK, Lifecycle, NEW u \in Users, UserStep(u)
  PROVE  Lifecycle'
  <1>1. CASE StartNotNeeded(u) \/ Rollback(u) \/ AnyEnabled(u) \/ StopGuard(u)
    <2>1. \E there \in {"idle", "guard", "lock", "destroy link"} : pc' = [pc EXCEPT ![u] = there]
      BY <1>1 DEF StartNotNeeded, Rollback, AnyEnabled, StopGuard, AfterStop, Goto
    <2>2. pc[u] \in {"check", "rollback", "any enabled", "guard"}
      BY <1>1 DEF StartNotNeeded, Rollback, AnyEnabled, StopGuard, At
    <2>3. UNCHANGED <<life, stopFlag, server, open, made, sock, loop, jobs, worker, chan, srqOn, mine>>
      BY <1>1 DEF StartNotNeeded, Rollback, AnyEnabled, StopGuard, session, servers, device
    <2>4. pc[u] \notin Locked
      BY <2>2 DEF Locked, Setup, Teardown
    <2>5. \A there \in {"idle", "guard", "lock", "destroy link"} :
              there \in PCs /\ there \notin Locked \cup {"stop worker", "close sock"}
      BY DEF PCs, Locked, Setup, Teardown
    <2> QED BY <2>1, <2>3, <2>4, <2>5, MoveOutside
  <1>2. CASE StartNeeded(u) \/ StopLock(u)
    BY <1>2, TakeLock
  <1>3. CASE BuildServer(u)
    BY <1>3, BuildServerStep
  <1>4. CASE CreateIntrChan(u) \/ EnableSrq(u) \/ UndoChannel(u)
    BY <1>4, StartSteps
  <1>5. CASE Publish(u)
    BY <1>5, PublishStep
  <1>6. CASE DisableSrq(u) \/ DestroyIntrChan(u)
    BY <1>6, StopCalls
  <1>7. CASE TakeServer(u)
    BY <1>7, TakeServerStep
  <1>8. CASE StopWorker(u)
    BY <1>8, StopWorkerStep
  <1>9. CASE CloseSock(u)
    BY <1>9, CloseSockStep
  <1>10. CASE DestroyLink(u)
    BY <1>10, DestroyLinkStep
  <1> QED BY <1>1, <1>2, <1>3, <1>4, <1>5, <1>6, <1>7, <1>8, <1>9, <1>10 DEF UserStep

(* So does a call: it begins outside of the locked regions.                *)
LEMMA CallInv ==
  ASSUME TypeOK, Lifecycle, NEW u \in Users, NEW ms \in SUBSET Mechs,
         EnableEvent(u, ms) \/ DisableEvent(u, ms) \/ Close(u)
  PROVE  Lifecycle'
  <1>1. \E there \in {"check", "any enabled", "guard"} : pc' = [pc EXCEPT ![u] = there]
    BY DEF EnableEvent, DisableEvent, Close, Call, Goto
  <1>2. pc[u] = "idle"
    BY DEF EnableEvent, DisableEvent, Close, Call, At
  <1>3. UNCHANGED <<life, stopFlag, server, open, made, sock, loop, jobs, worker, chan, srqOn, mine>>
    BY DEF EnableEvent, DisableEvent, Close, Call, session, servers, device
  <1>4. pc[u] \notin Locked
    BY <1>2 DEF Locked, Setup, Teardown
  <1>5. \A there \in {"check", "any enabled", "guard"} :
            there \in PCs /\ there \notin Locked \cup {"stop worker", "close sock"}
    BY DEF PCs, Locked, Setup, Teardown
  <1> QED BY <1>1, <1>3, <1>4, <1>5, MoveOutside

(* Inv is inductive.                                                       *)
LEMMA NextInv == Inv /\ [Next]_vars => Inv'
  <1> SUFFICES ASSUME TypeOK, Lifecycle, [Next]_vars PROVE TypeOK' /\ Lifecycle'
    BY DEF Inv
  <1>1. ASSUME NEW u \in Users, NEW ms \in SUBSET Mechs, EnableEvent(u, ms) \/ DisableEvent(u, ms)
        PROVE  TypeOK' /\ Lifecycle'
    BY <1>1, CallType, CallInv
  <1>2. ASSUME NEW u \in Users, Close(u)
        PROVE  TypeOK' /\ Lifecycle'
    <2>1. {} \in SUBSET Mechs
      OBVIOUS
    <2> QED BY <1>2, <2>1, CallType, CallInv
  <1>3. ASSUME NEW u \in Users, UserStep(u)
        PROVE  TypeOK' /\ Lifecycle'
    <2>1. TypeOK'
      BY <1>3, StartType, InstrumentCallType, StopType DEF UserStep
    <2> QED BY <1>3, <2>1, UserInv
  <1>4. ASSUME NEW g \in Gens, ListenerStep(g) \/ WorkerStep(g)
        PROVE  TypeOK' /\ Lifecycle'
    BY <1>4, ServerType, ListenerInv, WorkerInv
  <1>5. CASE DeviceConnect \/ DeviceSrq
    BY <1>5, ServerType, DeviceInv
  <1>6. CASE UNCHANGED vars
    <2>1. TypeOK'
      BY <1>6 DEF vars, session, delivery, servers, device, threads, TypeOK
    <2>2. UNCHANGED <<life, stopFlag, server, open, made, sock, loop, jobs, worker, chan, srqOn, pc, mine>>
      BY <1>6 DEF vars, session, servers, device, threads
    <2>3. Lifecycle'
      BY <2>2 DEF Lifecycle, LockInv, StartInv, SetupInv, StopInv, MadeInv, PublishedServerWorks, NoStop
    <2> QED BY <2>1, <2>3
  <1> QED BY <1>1, <1>2, <1>3, <1>4, <1>5, <1>6 DEF Next

(* Every reachable state of the monitor satisfies Inv.                     *)
THEOREM Safety == Spec => []Inv
  BY InitInv, NextInv, PTL DEF Spec

(* Whenever no thread is in the middle of starting or stopping a monitor,  *)
(* a published interrupt server listens, its threads run, nobody has told  *)
(* them to stop, and the instrument's interrupt channel leads to it: two   *)
(* threads that enable, disable and close at will cannot leave a dead one  *)
(* behind.                                                                 *)
THEOREM MonitorWorks == Spec => []PublishedServerWorks
  BY Safety, PTL DEF Inv, Lifecycle

-----------------------------------------------------------------------------
(* The mechanisms and the monitor.  A thread is starting the monitor, or   *)
(* is going to, or will take back what it has enabled; ...                 *)
Starting(u) == pc[u] \in Setup \cup {"build"}
Enabling(u) == Starting(u) \/ pc[u] \in {"check", "rollback"}

(* ... or a thread is stopping it, or about to see whether it should.      *)
Stopping(u) == pc[u] \in {"guard", "lock"} \cup Teardown
Disabling(u) == Stopping(u) \/ pc[u] = "any enabled"

Ops ==
    \A u \in Users : /\ Enabling(u) => arg[u].op = "enable"
                     /\ pc[u] = "any enabled" => arg[u].op = "disable"

(* Without a monitor every mechanism enabled is one that a thread is still *)
(* enabling; ...                                                           *)
Owned ==
    server = 0 => \A m \in enabled : \E u \in Users : Enabling(u) /\ m \in arg[u].mech

(* ... with one, or one being started, and nothing enabled a thread is     *)
(* going to stop it; ...                                                   *)
Watched ==
    (enabled = {} /\ (server # 0 \/ \E u \in Users : Starting(u))) =>
        \E u \in Users : Disabling(u)

(* ... and a stop goes on only while nothing is enabled.                   *)
Unwanted == \A u \in Users : Stopping(u) => enabled = {}

ClosedOrClosing == ~ open \/ \E u \in Users : arg[u].op = "close" /\ pc[u] # "idle"

Accounted ==
    /\ Ops
    /\ (~ raced /\ ~ ClosedOrClosing) => Owned /\ Watched /\ Unwanted

(* What a step of a thread in a call does to this.                         *)
Stays == UNCHANGED <<enabled, server>>

Moves(u, there) ==
    \/ pc[u] = "check" /\ there = "idle" /\ (server # 0 \/ enabled = {}) /\ Stays
    \/ pc[u] = "check" /\ there = "build" /\ enabled # {} /\ Stays
    \/ Starting(u) /\ there \in Setup \cup {"rollback"} /\ Stays
    \/ pc[u] \in {"build", "channel", "srq on"} /\ there = "idle" /\ Stays
    \/ pc[u] = "publish" /\ there = "idle" /\ server' # 0 /\ enabled' = enabled
    \/ pc[u] = "rollback" /\ there = "idle" /\ enabled' = enabled \ arg[u].mech /\ server' = server
    \/ pc[u] = "any enabled" /\ there = "guard" /\ enabled = {} /\ Stays
    \/ pc[u] = "any enabled" /\ there = "idle" /\ enabled # {} /\ Stays
    \/ pc[u] = "guard" /\ there = "lock" /\ Stays
    \/ pc[u] = "guard" /\ there = AfterStop(u) /\ server = 0 /\ Stays
    \/ pc[u] \in {"lock", "srq off", "destroy"} /\ there \in Teardown /\ Stays
    \/ pc[u] = "take" /\ there \in {AfterStop(u), "stop worker"} /\ server' = 0 /\ enabled' = enabled
    \/ pc[u] = "stop worker" /\ there = "close sock" /\ Stays
    \/ pc[u] = "close sock" /\ there = AfterStop(u) /\ Stays

LEMMA MovesKind ==
  ASSUME Inv, NEW u \in Users, UserStep(u), ~ DestroyLink(u)
  PROVE  \E there \in PCs :
            pc' = [pc EXCEPT ![u] = there] /\ arg' = arg /\ open' = open /\ Moves(u, there)
  <1> USE DEF At, Goto, Moves, Stays
  <1>1. pc \in [Users -> PCs] /\ TypeOK /\ Lifecycle
    BY DEF Inv, TypeOK
  <1>2. AfterStop(u) \in PCs
    BY DEF AfterStop, PCs
  <1>3. CASE StartNotNeeded(u) \/ StartNeeded(u)
    BY <1>3 DEF StartNotNeeded, StartNeeded, Alive, session, servers, threads, PCs
  <1>4. CASE BuildServer(u)
    BY <1>4 DEF BuildServer, Starting, Setup, PCs
  <1>5. CASE CreateIntrChan(u) \/ EnableSrq(u) \/ UndoChannel(u)
    BY <1>5 DEF CreateIntrChan, EnableSrq, UndoChannel, Raise, Starting, Setup, session, PCs
  <1>6. CASE Publish(u)
    <2>1. mine[u] # 0
      BY <1>1, <1>6 DEF Publish, Lifecycle, SetupInv, Setup
    <2> QED BY <1>6, <2>1 DEF Publish, PCs
  <1>7. CASE Rollback(u)
    BY <1>7 DEF Rollback, PCs
  <1>8. CASE AnyEnabled(u) \/ StopGuard(u)
    BY <1>2, <1>8 DEF AnyEnabled, StopGuard, session, PCs
  <1>9. CASE StopLock(u) \/ DisableSrq(u) \/ DestroyIntrChan(u)
    BY <1>9 DEF StopLock, DisableSrq, DestroyIntrChan, session, Teardown, PCs
  <1>10. CASE TakeServer(u)
    BY <1>2, <1>10 DEF TakeServer, PCs
  <1>11. CASE StopWorker(u) \/ CloseSock(u)
    BY <1>2, <1>11 DEF StopWorker, CloseSock, session, PCs
  <1> QED BY <1>3, <1>4, <1>5, <1>6, <1>7, <1>8, <1>9, <1>10, <1>11 DEF UserStep

LEMMA MovesAccounted ==
  ASSUME Inv, Accounted, NEW u \in Users, NEW there \in PCs,
         pc' = [pc EXCEPT ![u] = there], arg' = arg, open' = open, Moves(u, there),
         raced' = (raced \/ StartRaised \/ EnabledInStop \/ StoppedInStart \/ TookBack)
  PROVE  Accounted'
  <1>1. /\ \A v \in Users : pc'[v] = IF v = u THEN there ELSE pc[v]
        /\ LockInv
    BY DEF Inv, TypeOK, Lifecycle
  <1>2. Ops
    BY DEF Accounted
  <1>3. Ops'
    <2>1. /\ there \in Setup \cup {"build", "check", "rollback"} => Enabling(u)
          /\ there # "any enabled"
      BY DEF Moves, Enabling, Starting, AfterStop, Setup, Teardown
    <2>2. \A v \in Users : (Enabling(v)' => Enabling(v)) /\ (pc'[v] = "any enabled" => pc[v] = pc'[v])
      BY <1>1, <2>1 DEF Enabling, Starting
    <2> QED BY <1>2, <2>2 DEF Ops
  <1> SUFFICES ASSUME ~ raced', ~ ClosedOrClosing'
               PROVE  Owned' /\ Watched' /\ Unwanted'
    BY <1>3 DEF Accounted
  <1>4. ~ raced /\ ~ StoppedInStart /\ ~ TookBack
    BY Zenon
  <1>5. \A v \in Users : arg[v].op = "close" => (v = u /\ there = "idle") \/ pc[v] = "idle"
    BY <1>1 DEF ClosedOrClosing
  <1>6. pc[u] # "idle"
    BY DEF Moves, Starting, Setup
  <1>7. arg[u].op # "close" /\ AfterStop(u) = "idle"
    <2>1. there = "idle" => Enabling(u) \/ pc[u] = "any enabled" \/ AfterStop(u) = "idle"
      BY DEF Moves, Enabling, Starting, Setup, Teardown
    <2>2. arg[u].op # "close"
      BY <1>2, <1>5, <1>6, <2>1 DEF Ops, AfterStop
    <2> QED BY <2>2 DEF AfterStop
  <1>8. ~ ClosedOrClosing
    <2>1. open
      BY DEF ClosedOrClosing
    <2>2. \A v \in Users : ~ (arg[v].op = "close" /\ pc[v] # "idle")
      BY <1>5, <1>7
    <2> QED BY <2>1, <2>2 DEF ClosedOrClosing
  <1>9. Owned /\ Watched /\ Unwanted
    BY <1>4, <1>8 DEF Accounted
  <1>10. \A v \in Users \ {u} : /\ Enabling(v)' <=> Enabling(v)
                                /\ Starting(v)' <=> Starting(v)
                                /\ Disabling(v)' <=> Disabling(v)
                                /\ Stopping(v)' <=> Stopping(v)
    BY <1>1 DEF Enabling, Starting, Disabling, Stopping
  <1> DEFINE Here == /\ Enabling(u)' <=> there \in Setup \cup {"build", "check", "rollback"}
                     /\ Starting(u)' <=> there \in Setup \cup {"build"}
                     /\ Stopping(u)' <=> there \in {"guard", "lock"} \cup Teardown
                     /\ Disabling(u)' <=> there \in {"guard", "lock", "any enabled"} \cup Teardown
  <1>11. Here
    BY <1>1 DEF Enabling, Starting, Disabling, Stopping
  <1>12. ASSUME pc[u] = "check", there = "idle", server # 0 \/ enabled = {}, Stays
         PROVE  Owned' /\ Watched' /\ Unwanted'
    BY <1>9, <1>10, <1>11, <1>12
       DEF Owned, Watched, Unwanted, Stays, Enabling, Starting, Disabling, Stopping, Setup, Teardown
  <1>13. ASSUME pc[u] = "check", there = "build", enabled # {}, Stays
         PROVE  Owned' /\ Watched' /\ Unwanted'
    BY <1>9, <1>10, <1>11, <1>13
       DEF Owned, Watched, Unwanted, Stays, Enabling, Starting, Disabling, Stopping, Setup, Teardown
  <1>14. ASSUME Starting(u), there \in Setup \cup {"rollback"}, Stays
         PROVE  Owned' /\ Watched' /\ Unwanted'
    BY <1>9, <1>10, <1>11, <1>14
       DEF Owned, Watched, Unwanted, Stays, Enabling, Starting, Disabling, Stopping, Setup, Teardown
  <1>15. ASSUME pc[u] \in {"build", "channel", "srq on"}, there = "idle" PROVE FALSE
    <2>1. StartRaised
      BY <1>1, <1>15 DEF StartRaised
    <2> QED BY <2>1
  <1>16. ASSUME pc[u] = "publish", there = "idle", server' # 0, enabled' = enabled
         PROVE  Owned' /\ Watched' /\ Unwanted'
    BY <1>9, <1>10, <1>11, <1>16
       DEF Owned, Watched, Unwanted, Enabling, Starting, Disabling, Stopping, Setup, Teardown
  <1>17. ASSUME pc[u] = "rollback", there = "idle", enabled' = enabled \ arg[u].mech, server' = server
         PROVE  Owned' /\ Watched' /\ Unwanted'
    <2>1. server = 0 /\ \A v \in Users \ {u} : life # v
      BY <1>1, <1>4, <1>17 DEF TookBack
    <2>2. \A v \in Users : ~ Starting(v)
      BY <1>1, <1>17, <2>1 DEF LockInv, Starting, Locked, Setup
    <2> QED BY <1>9, <1>10, <1>11, <1>17, <2>1, <2>2
            DEF Owned, Watched, Unwanted, Enabling, Starting, Disabling, Stopping, Setup, Teardown
  <1>18. ASSUME pc[u] = "any enabled", there = "guard", enabled = {}, Stays
         PROVE  Owned' /\ Watched' /\ Unwanted'
    BY <1>9, <1>10, <1>11, <1>18
       DEF Owned, Watched, Unwanted, Stays, Enabling, Starting, Disabling, Stopping, Setup, Teardown
  <1>19. ASSUME pc[u] = "any enabled", there = "idle", enabled # {}, Stays
         PROVE  Owned' /\ Watched' /\ Unwanted'
    BY <1>9, <1>10, <1>11, <1>19
       DEF Owned, Watched, Unwanted, Stays, Enabling, Starting, Disabling, Stopping, Setup, Teardown
  <1>20. ASSUME pc[u] = "guard", there = "lock", Stays
         PROVE  Owned' /\ Watched' /\ Unwanted'
    BY <1>9, <1>10, <1>11, <1>20
       DEF Owned, Watched, Unwanted, Stays, Enabling, Starting, Disabling, Stopping, Setup, Teardown
  <1>21. ASSUME pc[u] = "guard", there = AfterStop(u), server = 0, Stays
         PROVE  Owned' /\ Watched' /\ Unwanted'
    <2>1. \A v \in Users : ~ Starting(v)
      BY <1>1, <1>4, <1>7, <1>21 DEF StoppedInStart, Starting
    <2> QED BY <1>7, <1>9, <1>10, <1>11, <1>21, <2>1
            DEF Owned, Watched, Unwanted, Stays, Enabling, Starting, Disabling, Stopping, Setup, Teardown
  <1>22. ASSUME pc[u] \in {"lock", "srq off", "destroy"}, there \in Teardown, Stays
         PROVE  Owned' /\ Watched' /\ Unwanted'
    BY <1>9, <1>10, <1>11, <1>22
       DEF Owned, Watched, Unwanted, Stays, Enabling, Starting, Disabling, Stopping, Setup, Teardown
  <1>23. ASSUME pc[u] = "take", there \in {AfterStop(u), "stop worker"}, server' = 0, enabled' = enabled
         PROVE  Owned' /\ Watched' /\ Unwanted'
    <2>1. enabled' = {}
      BY <1>9, <1>23 DEF Unwanted, Stopping, Teardown
    <2>2. \A v \in Users : ~ Starting(v)
      BY <1>1, <1>23 DEF LockInv, Starting, Locked, Setup, Teardown
    <2> QED BY <1>7, <1>10, <1>11, <1>23, <2>1, <2>2
            DEF Owned, Watched, Unwanted, Starting, Setup
  <1>24. ASSUME \/ pc[u] = "stop worker" /\ there = "close sock"
                \/ pc[u] = "close sock" /\ there = AfterStop(u),
                Stays
         PROVE  Owned' /\ Watched' /\ Unwanted'
    BY <1>7, <1>9, <1>10, <1>11, <1>24
       DEF Owned, Watched, Unwanted, Stays, Enabling, Starting, Disabling, Stopping, Setup, Teardown
  <1> QED BY <1>12, <1>13, <1>14, <1>15, <1>16, <1>17, <1>18, <1>19, <1>20, <1>21, <1>22, <1>23, <1>24
          DEF Moves

(* A call begins; enable_event in the middle of a stop is a race.          *)
LEMMA CallAccounted ==
  ASSUME Inv, Accounted, NEW u \in Users, NEW ms \in SUBSET Mechs,
         (ms # {} /\ (EnableEvent(u, ms) \/ DisableEvent(u, ms))) \/ Close(u),
         raced' = (raced \/ StartRaised \/ EnabledInStop \/ StoppedInStart \/ TookBack)
  PROVE  Accounted'
  <1>1. pc \in [Users -> PCs] /\ arg \in [Users -> [op : {"enable", "disable", "close"}, mech : SUBSET Mechs]]
    BY DEF Inv, TypeOK
  <1>2. PICK op \in {"enable", "disable", "close"}, there \in {"check", "any enabled", "guard"},
             with \in SUBSET Mechs :
          /\ pc[u] = "idle" /\ pc' = [pc EXCEPT ![u] = there]
          /\ arg' = [arg EXCEPT ![u] = [op |-> op, mech |-> with]]
          /\ UNCHANGED <<server, open>>
          /\ \/ op = "enable" /\ there = "check" /\ with # {} /\ enabled' = enabled \cup with
             \/ op = "disable" /\ there = "any enabled" /\ enabled' = enabled \ with
             \/ op = "close" /\ there = "guard"
    <2>1. ASSUME ms # {}, EnableEvent(u, ms)
          PROVE  /\ pc[u] = "idle" /\ pc' = [pc EXCEPT ![u] = "check"]
                 /\ arg' = [arg EXCEPT ![u] = [op |-> "enable", mech |-> ms]]
                 /\ UNCHANGED <<server, open>> /\ enabled' = enabled \cup ms
      BY <2>1 DEF EnableEvent, Call, At, Goto
    <2>2. ASSUME DisableEvent(u, ms)
          PROVE  /\ pc[u] = "idle" /\ pc' = [pc EXCEPT ![u] = "any enabled"]
                 /\ arg' = [arg EXCEPT ![u] = [op |-> "disable", mech |-> ms]]
                 /\ UNCHANGED <<server, open>> /\ enabled' = enabled \ ms
      BY <2>2 DEF DisableEvent, Call, At, Goto
    <2>3. ASSUME Close(u)
          PROVE  /\ pc[u] = "idle" /\ pc' = [pc EXCEPT ![u] = "guard"]
                 /\ arg' = [arg EXCEPT ![u] = [op |-> "close", mech |-> {}]]
                 /\ UNCHANGED <<server, open>>
      BY <2>3 DEF Close, Call, At, Goto, session
    <2>4. {} \in SUBSET Mechs
      OBVIOUS
    <2> QED BY <2>1, <2>2, <2>3, <2>4
  <1>3. \A v \in Users \ {u} : pc'[v] = pc[v] /\ arg'[v] = arg[v]
    BY <1>1, <1>2
  <1>4. pc'[u] = there /\ arg'[u].op = op /\ arg'[u].mech = with
    BY <1>1, <1>2
  <1>5. Ops'
    <2>1. \A v \in Users \ {u} : Enabling(v)' <=> Enabling(v)
      BY <1>3 DEF Enabling, Starting
    <2>2. /\ Enabling(u)' => op = "enable"
          /\ pc'[u] = "any enabled" => op = "disable"
      BY <1>2, <1>4 DEF Enabling, Starting, Setup
    <2>3. \A v \in Users \ {u} : /\ Enabling(v)' => arg'[v].op = "enable"
                                 /\ pc'[v] = "any enabled" => arg'[v].op = "disable"
      BY <1>3, <2>1 DEF Accounted, Ops
    <2> QED BY <1>4, <2>2, <2>3 DEF Ops
  <1> SUFFICES ASSUME ~ raced', ~ ClosedOrClosing'
               PROVE  Owned' /\ Watched' /\ Unwanted'
    BY <1>5 DEF Accounted
  <1>6. ~ raced /\ ~ EnabledInStop
    BY Zenon
  <1>7. op # "close"
    <2>1. arg'[u].op = op /\ pc'[u] # "idle"
      BY <1>2, <1>4
    <2> QED BY <2>1 DEF ClosedOrClosing
  <1>8. ~ ClosedOrClosing
    BY <1>2, <1>3 DEF ClosedOrClosing
  <1>9. Owned /\ Watched /\ Unwanted
    BY <1>6, <1>8 DEF Accounted
  <1>10. \A v \in Users \ {u} : /\ Enabling(v)' <=> Enabling(v)
                                /\ Starting(v)' <=> Starting(v)
                                /\ Disabling(v)' <=> Disabling(v)
                                /\ Stopping(v)' <=> Stopping(v)
    BY <1>3 DEF Enabling, Starting, Disabling, Stopping
  <1>11. /\ ~ Starting(u)' /\ ~ Stopping(u)'
         /\ Enabling(u)' <=> there = "check"
         /\ Disabling(u)' <=> there = "any enabled"
    BY <1>2, <1>4, <1>7 DEF Enabling, Starting, Disabling, Stopping, Setup, Teardown
  <1>12. ~ Starting(u) /\ ~ Stopping(u) /\ ~ Enabling(u) /\ ~ Disabling(u)
    BY <1>2 DEF Enabling, Starting, Disabling, Stopping, Setup, Teardown
  <1>13. ASSUME op = "enable", there = "check", with # {}, enabled' = enabled \cup with
         PROVE  Owned' /\ Watched' /\ Unwanted'
    <2>1. \A v \in Users : ~ Stopping(v)
      BY <1>2, <1>4, <1>6, <1>13 DEF EnabledInStop, Stopping
    <2>2. Unwanted'
      BY <1>10, <1>11, <2>1 DEF Unwanted
    <2>3. Watched'
      BY <1>13 DEF Watched
    <2>4. Owned'
      BY <1>2, <1>3, <1>4, <1>9, <1>10, <1>11, <1>12, <1>13 DEF Owned
    <2> QED BY <2>2, <2>3, <2>4
  <1>14. ASSUME op = "disable", there = "any enabled", enabled' = enabled \ with
         PROVE  Owned' /\ Watched' /\ Unwanted'
    <2>1. Unwanted'
      BY <1>9, <1>10, <1>11, <1>12, <1>14 DEF Unwanted
    <2>2. Watched'
      BY <1>11, <1>14 DEF Watched
    <2>3. Owned'
      BY <1>2, <1>3, <1>9, <1>10, <1>12, <1>14 DEF Owned
    <2> QED BY <2>1, <2>2, <2>3
  <1> QED BY <1>2, <1>7, <1>13, <1>14

(* The other threads and the instrument have no part in it, and a closed   *)
(* session has no monitor to speak of.                                     *)
LEMMA RestAccounted ==
  ASSUME Inv, Accounted,
         raced' = (raced \/ StartRaised \/ EnabledInStop \/ StoppedInStart \/ TookBack),
         \/ \E u \in Users : DestroyLink(u)
         \/ \E g \in Gens : ListenerStep(g) \/ WorkerStep(g)
         \/ DeviceConnect \/ DeviceSrq \/ UNCHANGED vars
  PROVE  Accounted'
  <1>1. ASSUME NEW u \in Users, DestroyLink(u) PROVE Accounted'
    <2>1. ~ open' /\ pc' = [pc EXCEPT ![u] = "idle"] /\ arg' = arg
      BY <1>1 DEF DestroyLink, Goto
    <2>2. Ops'
      BY <2>1 DEF Inv, TypeOK, Accounted, Ops, Enabling, Starting, Setup
    <2> QED BY <2>1, <2>2 DEF Accounted, ClosedOrClosing
  <1>2. ASSUME UNCHANGED <<enabled, server, open, pc, arg>> PROVE Accounted'
    <2>1. ~ raced' => ~ raced
      BY Zenon
    <2> QED BY <1>2, <2>1
            DEF Accounted, Ops, Owned, Watched, Unwanted, ClosedOrClosing,
                Enabling, Starting, Disabling, Stopping
  <1>3. ASSUME NEW g \in Gens, ListenerStep(g) \/ WorkerStep(g)
        PROVE  UNCHANGED <<enabled, server, open, pc, arg>>
    BY <1>3 DEF ListenerStep, WorkerStep, LoopHead, Accept, AcceptTimeout, AcceptError, CheckStop,
                EndConnection, Receive, ReceiveNothing, WorkerGet, WorkerFire, session, threads
  <1>4. DeviceConnect \/ DeviceSrq \/ UNCHANGED vars => UNCHANGED <<enabled, server, open, pc, arg>>
    BY DEF DeviceConnect, DeviceSrq, vars, session, threads
  <1> QED BY <1>1, <1>2, <1>3, <1>4

LEMMA NextAccounted == Inv /\ Accounted /\ [RacesNext]_<<vars, raced>> => Accounted'
  <1> SUFFICES ASSUME Inv, Accounted, [RacesNext]_<<vars, raced>> PROVE Accounted'
    OBVIOUS
  <1> DEFINE History == raced' = (raced \/ StartRaised \/ EnabledInStop \/ StoppedInStart \/ TookBack)
  <1>1. CASE UNCHANGED <<vars, raced>>
    BY <1>1 DEF vars, session, threads, Accounted, Ops, Owned, Watched, Unwanted, ClosedOrClosing,
                Enabling, Starting, Disabling, Stopping
  <1>2. ASSUME Next, History PROVE Accounted'
    <2>1. ASSUME NEW u \in Users, NEW ms \in (SUBSET Mechs) \ {{}}, EnableEvent(u, ms) \/ DisableEvent(u, ms)
          PROVE  Accounted'
      <3>1. ms \in SUBSET Mechs /\ ms # {}
        OBVIOUS
      <3> QED BY <1>2, <2>1, <3>1, CallAccounted
    <2>2. ASSUME NEW u \in Users, Close(u) PROVE Accounted'
      <3>1. {} \in SUBSET Mechs
        OBVIOUS
      <3> QED BY <1>2, <2>2, <3>1, CallAccounted
    <2>3. ASSUME NEW u \in Users, UserStep(u), ~ DestroyLink(u) PROVE Accounted'
      <3>1. PICK there \in PCs :
              pc' = [pc EXCEPT ![u] = there] /\ arg' = arg /\ open' = open /\ Moves(u, there)
        BY <2>3, MovesKind
      <3> QED BY <1>2, <3>1, MovesAccounted
    <2>4. CASE \/ \E u \in Users : DestroyLink(u)
               \/ \E g \in Gens : ListenerStep(g) \/ WorkerStep(g)
               \/ DeviceConnect \/ DeviceSrq
      BY <1>2, <2>4, RestAccounted
    <2> QED BY <1>2, <2>1, <2>2, <2>3, <2>4 DEF Next
  <1> QED BY <1>1, <1>2 DEF RacesNext

LEMMA InitAccounted == RacesInit => Inv /\ Accounted
  <1> SUFFICES ASSUME RacesInit PROVE Accounted
    BY InitInv DEF RacesInit
  <1>1. /\ enabled = {} /\ server = 0 /\ pc = [u \in Users |-> "idle"]
    BY DEF RacesInit, Init
  <1> QED BY <1>1 DEF Accounted, Ops, Owned, Watched, Unwanted, Enabling, Starting, Disabling,
                      Stopping, Setup, Teardown

(* Between calls of the application a monitor runs exactly when some       *)
(* mechanism is enabled (enable_event and disable_event of highlevel.py),  *)
(* for any threads, mechanisms and statuses the instrument answers, unless *)
(* a start has raised or one of the three races has happened.  So the      *)
(* rollback of a failed start and the unlocked tests of any_enabled and of *)
(* the server are harmless but for these.                                  *)
THEOREM Matches_unless_raced == RacesSpec => []MatchesUnlessRaced
  <1>1. Inv /\ [RacesNext]_<<vars, raced>> => Inv'
    <2>1. [RacesNext]_<<vars, raced>> => [Next]_vars
      BY DEF RacesNext
    <2> QED BY <2>1, NextInv
  <1>2. Inv /\ Accounted => MatchesUnlessRaced
    <2> SUFFICES ASSUME Accounted, ~ raced, Idle, open
                 PROVE  server # 0 <=> enabled # {}
      BY Zenon DEF MatchesUnlessRaced, MonitorMatchesEnabled
    <2>1. \A u \in Users : ~ Enabling(u) /\ ~ Disabling(u)
      BY DEF Idle, Enabling, Disabling, Starting, Stopping, Setup, Teardown
    <2>2. Owned /\ Watched
      BY DEF Accounted, ClosedOrClosing, Idle
    <2> QED BY <2>1, <2>2 DEF Owned, Watched
  <1>3. RacesInit /\ [][RacesNext]_<<vars, raced>> => [](Inv /\ Accounted)
    BY <1>1, InitAccounted, NextAccounted, PTL
  <1> QED BY <1>2, <1>3, PTL DEF RacesSpec
=============================================================================

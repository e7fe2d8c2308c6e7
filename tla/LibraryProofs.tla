--------------------------- MODULE LibraryProofs ----------------------------
(***************************************************************************)
(* The handles of sessions, the table of Prologix boards and the delivery  *)
(* of events to handlers, for any threads, handles, boards and number of   *)
(* sessions, handlers and events; and the queue of events of a session.    *)
(***************************************************************************)
EXTENDS Library, EventQueue, SequenceTheorems, FiniteSetTheorems, TLAPS

Places == {"idle", "setup", "draw", "store", "shut"}

(* A thread that is opening a session has not stored its handle yet.       *)
Opening(here) == here \in {"setup", "draw", "store"}

TableTypes ==
    /\ made \in 0..MaxSessions
    /\ sessions \in [Handles -> 0..MaxSessions]
    /\ handleOf \in [Ids -> Handles \cup {NoHandle}]
    /\ overlap \in BOOLEAN

UserTypes ==
    /\ pc \in [Users -> Places]
    /\ mine \in [Users -> 0..MaxSessions]
    /\ drawn \in [Users -> Handles \cup {NoHandle}]

(* Each opening thread has a session of its own, which has no handle; those*)
(* not made yet have none either.                                          *)
Unnamed ==
    /\ \A o \in Ids : o > made => handleOf[o] = NoHandle
    /\ \A u \in Users : Opening(pc[u]) =>
         mine[u] # 0 /\ mine[u] <= made /\ handleOf[mine[u]] = NoHandle
    /\ \A u, v \in Users : Opening(pc[u]) /\ Opening(pc[v]) /\ mine[u] = mine[v] => u = v

(* A number that was drawn is free until it is stored, and one thread's.   *)
Drawn ==
    /\ \A u \in Users : pc[u] = "store" => drawn[u] \in Handles
    /\ ~ overlap => \A u \in Users : pc[u] = "store" =>
         /\ sessions[drawn[u]] = 0
         /\ \A v \in Users : pc[v] = "store" /\ drawn[u] = drawn[v] => u = v

TableInv == TableTypes /\ UserTypes /\ Unnamed /\ Drawn /\ HandleNamesItsSession

LEMMA InitTable == Init => TableInv
  <1> SUFFICES ASSUME Init PROVE TableInv
    OBVIOUS
  <1>1. 0 \in 0..MaxSessions
    BY ConstantsAssumption
  <1>2. TableTypes
    BY <1>1 DEF Init, TableTypes
  <1>3. UserTypes
    BY <1>1 DEF Init, UserTypes, Places
  <1>4. \A u \in Users : pc[u] = "idle"
    BY DEF Init
  <1>5. \A o \in Ids : handleOf[o] = NoHandle
    BY DEF Init
  <1>6. Unnamed /\ Drawn /\ HandleNamesItsSession
    BY <1>4, <1>5 DEF Unnamed, Drawn, HandleNamesItsSession, Opening
  <1> QED BY <1>2, <1>3, <1>6 DEF TableInv

(* A step that leaves the table alone, and in which nobody begins to open  *)
(* or draws.                                                               *)
LEMMA Elsewhere ==
  ASSUME TableInv, UNCHANGED <<table, made, overlap>>, UserTypes',
         \A v \in Users : Opening(pc'[v]) =>
             /\ Opening(pc[v]) /\ mine'[v] = mine[v]
             /\ pc'[v] = "store" => pc[v] = "store" /\ drawn'[v] = drawn[v]
  PROVE  TableInv'
  <1>1. /\ sessions' = sessions /\ handleOf' = handleOf
        /\ made' = made /\ overlap' = overlap
    BY DEF table
  <1>2. TableTypes' /\ HandleNamesItsSession'
    BY <1>1 DEF TableInv, TableTypes, HandleNamesItsSession
  <1>3. Unnamed'
    BY <1>1 DEF TableInv, Unnamed
  <1>4. Drawn'
    <2>1. \A v \in Users : pc'[v] = "store" => pc[v] = "store" /\ drawn'[v] = drawn[v]
      BY DEF Opening
    <2> QED BY <1>1, <2>1 DEF TableInv, Drawn
  <1> QED BY <1>2, <1>3, <1>4 DEF TableInv

LEMMA MakeInv ==
  ASSUME TableInv, NEW u \in Users, NEW k, NEW b, NEW i, NEW begin,
         NEW here \in {"setup", "draw"}, Make(u, k, b, i, begin, here)
  PROVE  TableInv'
  <1>1. /\ pc[u] = "idle" /\ made < MaxSessions /\ made' = made + 1
        /\ mine' = [mine EXCEPT ![u] = made + 1] /\ pc' = [pc EXCEPT ![u] = here]
        /\ sessions' = sessions /\ handleOf' = handleOf /\ drawn' = drawn /\ overlap' = overlap
    BY DEF Make, At, Goto, table
  <1>2. made \in Nat /\ MaxSessions \in Nat /\ made + 1 \in 1..MaxSessions
    <2>1. made \in 0..MaxSessions /\ MaxSessions \in Nat
      BY ConstantsAssumption DEF TableInv, TableTypes
    <2> QED BY <1>1, <2>1
  <1>3. TableTypes'
    BY <1>1, <1>2 DEF TableInv, TableTypes
  <1>4. UserTypes'
    <2>1. made + 1 \in 0..MaxSessions
      BY <1>2
    <2> QED BY <1>1, <2>1 DEF TableInv, UserTypes, Places
  <1>5. /\ pc'[u] = here /\ mine'[u] = made + 1
        /\ \A v \in Users \ {u} : pc'[v] = pc[v] /\ mine'[v] = mine[v]
    BY <1>1 DEF TableInv, UserTypes
  <1>6. \A v \in Users : mine[v] \in Nat
    <2>1. \A v \in Users : mine[v] \in 0..MaxSessions
      BY DEF TableInv, UserTypes
    <2> QED BY <1>2, <2>1
  <1>7. Unnamed'
    <2>1. \A o \in Ids : o > made' => handleOf'[o] = NoHandle
      <3>1. \A o \in Ids : o > made + 1 => o > made
        BY <1>2 DEF Ids
      <3> QED BY <3>1, <1>1 DEF TableInv, Unnamed
    <2>2. handleOf[made + 1] = NoHandle
      <3>1. made + 1 \in Ids /\ made + 1 > made
        BY <1>2 DEF Ids
      <3> QED BY <3>1 DEF TableInv, Unnamed
    <2>3. ASSUME NEW v \in Users, v # u, Opening(pc'[v])
          PROVE  mine'[v] # 0 /\ mine'[v] <= made /\ handleOf'[mine'[v]] = NoHandle
      BY <2>3, <1>1, <1>5 DEF TableInv, Unnamed
    <2>4. ASSUME NEW v \in Users, Opening(pc'[v])
          PROVE  mine'[v] # 0 /\ mine'[v] <= made' /\ handleOf'[mine'[v]] = NoHandle
      <3>1. CASE v = u
        BY <3>1, <2>2, <1>1, <1>2, <1>5
      <3>2. CASE v # u
        <4>1. mine'[v] = mine[v] /\ mine[v] \in Nat
          BY <3>2, <1>5, <1>6
        <4> QED BY <3>2, <4>1, <2>3, <2>4, <1>1, <1>2
      <3> QED BY <3>1, <3>2
    <2>5. \A v, w \in Users : Opening(pc'[v]) /\ Opening(pc'[w]) /\ mine'[v] = mine'[w] => v = w
      <3>1. ASSUME NEW v \in Users, v # u, Opening(pc'[v]) PROVE mine'[v] # mine'[u]
        BY <3>1, <2>3, <1>2, <1>5, <1>6
      <3>2. ASSUME NEW v \in Users, NEW w \in Users, v # u, w # u,
                   Opening(pc'[v]), Opening(pc'[w]), mine'[v] = mine'[w]
            PROVE  v = w
        BY <3>2, <1>5 DEF TableInv, Unnamed
      <3> QED BY <3>1, <3>2
    <2> QED BY <2>1, <2>4, <2>5 DEF Unnamed
  <1>8. Drawn'
    <2>1. \A v \in Users : pc'[v] = "store" => pc[v] = "store"
      BY <1>5
    <2> QED BY <1>1, <2>1 DEF TableInv, Drawn
  <1>9. HandleNamesItsSession'
    BY <1>1 DEF TableInv, HandleNamesItsSession
  <1> QED BY <1>3, <1>4, <1>7, <1>8, <1>9 DEF TableInv

LEMMA SetupInv == ASSUME TableInv, NEW u \in Users, Setup(u) PROVE TableInv'
  <1>1. /\ pc[u] = "setup" /\ UNCHANGED <<table, made, mine, drawn, overlap>>
        /\ \E here \in {"draw", "idle"} : pc' = [pc EXCEPT ![u] = here]
    BY DEF Setup, At, Goto
  <1>2. UserTypes'
    BY <1>1 DEF TableInv, UserTypes, Places
  <1>3. /\ \A v \in Users \ {u} : pc'[v] = pc[v]
        /\ pc'[u] \in {"draw", "idle"}
    BY <1>1 DEF TableInv, UserTypes
  <1> QED BY <1>1, <1>2, <1>3, Elsewhere DEF Opening

LEMMA DrawInv ==
  ASSUME TableInv, NEW u \in Users, NEW h \in Handles, Draw(u, h) PROVE TableInv'
  <1>1. /\ pc[u] = "draw" /\ sessions[h] = 0
        /\ drawn' = [drawn EXCEPT ![u] = h] /\ pc' = [pc EXCEPT ![u] = "store"]
        /\ overlap' = (overlap \/ \E v \in Users \ {u} : pc[v] = "store" /\ drawn[v] = h)
        /\ sessions' = sessions /\ handleOf' = handleOf /\ made' = made /\ mine' = mine
    BY DEF Draw, DrawFree, At, Goto, table, objects
  <1>2. /\ pc'[u] = "store" /\ drawn'[u] = h
        /\ \A v \in Users \ {u} : pc'[v] = pc[v] /\ drawn'[v] = drawn[v]
    BY <1>1 DEF TableInv, UserTypes
  <1>3. TableTypes'
    <2>1. overlap' \in BOOLEAN
      BY <1>1 DEF TableInv, TableTypes
    <2> QED BY <1>1, <2>1 DEF TableInv, TableTypes
  <1>4. UserTypes'
    BY <1>1 DEF TableInv, UserTypes, Places
  <1>5. Unnamed'
    <2>1. \A v \in Users : Opening(pc'[v]) => Opening(pc[v])
      BY <1>1, <1>2 DEF Opening
    <2> QED BY <1>1, <2>1 DEF TableInv, Unnamed
  <1>6. Drawn'
    <2>1. \A v \in Users : pc'[v] = "store" => drawn'[v] \in Handles
      BY <1>2 DEF TableInv, Drawn
    <2>2. ASSUME ~ overlap', NEW v \in Users, pc'[v] = "store" PROVE sessions'[drawn'[v]] = 0
      BY <2>2, <1>1, <1>2 DEF TableInv, Drawn
    <2>3. ASSUME ~ overlap', NEW v \in Users \ {u}, pc'[v] = "store" PROVE drawn'[v] # h
      BY <2>3, <1>1, <1>2
    <2>4. ASSUME ~ overlap', NEW v \in Users, NEW w \in Users,
                 pc'[v] = "store", pc'[w] = "store", drawn'[v] = drawn'[w]
          PROVE  v = w
      <3>1. CASE v = u \/ w = u
        BY <3>1, <2>3, <2>4, <1>2
      <3>2. CASE v # u /\ w # u
        <4>1. /\ pc[v] = "store" /\ pc[w] = "store" /\ drawn[v] = drawn[w]
              /\ ~ overlap
          BY <3>2, <2>4, <1>1, <1>2
        <4> QED BY <4>1 DEF TableInv, Drawn
      <3> QED BY <3>1, <3>2
    <2> QED BY <2>1, <2>2, <2>4 DEF Drawn
  <1>7. HandleNamesItsSession'
    BY <1>1 DEF TableInv, HandleNamesItsSession
  <1> QED BY <1>3, <1>4, <1>5, <1>6, <1>7 DEF TableInv

LEMMA StoreInv == ASSUME TableInv, NEW u \in Users, Store(u) PROVE TableInv'
  <1> DEFINE s == mine[u]
             h == drawn[u]
  <1>1. /\ pc[u] = "store"
        /\ sessions' = [sessions EXCEPT ![h] = s] /\ handleOf' = [handleOf EXCEPT ![s] = h]
        /\ mine' = [mine EXCEPT ![u] = 0] /\ drawn' = [drawn EXCEPT ![u] = NoHandle]
        /\ pc' = [pc EXCEPT ![u] = "idle"]
        /\ made' = made /\ overlap' = overlap
    BY DEF Store, At, Goto, objects
  <1>2. h \in Handles /\ s # 0 /\ s <= made /\ handleOf[s] = NoHandle
    BY <1>1 DEF TableInv, Drawn, Unnamed, Opening
  <1>3. s \in Ids /\ s \in 0..MaxSessions
    <2>1. s \in 0..MaxSessions /\ MaxSessions \in Nat
      BY ConstantsAssumption DEF TableInv, UserTypes
    <2> QED BY <1>2, <2>1 DEF Ids
  <1>4. /\ sessions'[h] = s /\ \A k \in Handles \ {h} : sessions'[k] = sessions[k]
        /\ handleOf'[s] = h /\ \A o \in Ids \ {s} : handleOf'[o] = handleOf[o]
    BY <1>1, <1>2, <1>3 DEF TableInv, TableTypes
  <1>5. /\ pc'[u] = "idle"
        /\ \A v \in Users \ {u} : pc'[v] = pc[v] /\ mine'[v] = mine[v] /\ drawn'[v] = drawn[v]
    BY <1>1 DEF TableInv, UserTypes
  <1>6. TableTypes'
    BY <1>1, <1>2, <1>3 DEF TableInv, TableTypes
  <1>7. UserTypes'
    <2>1. 0 \in 0..MaxSessions
      BY ConstantsAssumption
    <2> QED BY <1>1, <2>1 DEF TableInv, UserTypes, Places
  <1>8. Unnamed'
    <2>1. \A o \in Ids : o > made' => o # s
      <3>1. made \in Nat /\ s \in Nat
        BY <1>3, ConstantsAssumption DEF TableInv, TableTypes
      <3> QED BY <3>1, <1>1, <1>2
    <2>2. \A o \in Ids : o > made' => handleOf'[o] = NoHandle
      BY <2>1, <1>1, <1>4 DEF TableInv, Unnamed
    <2>3. ASSUME NEW v \in Users, Opening(pc'[v])
          PROVE  /\ v # u /\ Opening(pc[v]) /\ mine'[v] = mine[v]
                 /\ mine[v] # s /\ mine[v] \in Ids
      <3>1. v # u
        BY <2>3, <1>5 DEF Opening
      <3>2. Opening(pc[v]) /\ mine'[v] = mine[v]
        BY <2>3, <3>1, <1>5
      <3>3. mine[v] # s
        BY <3>1, <3>2, <1>1 DEF TableInv, Unnamed, Opening
      <3>4. mine[v] # 0 /\ mine[v] \in 0..MaxSessions /\ MaxSessions \in Nat
        BY <3>2, ConstantsAssumption DEF TableInv, Unnamed, UserTypes
      <3>5. mine[v] \in Ids
        BY <3>4 DEF Ids
      <3> QED BY <3>1, <3>2, <3>3, <3>5
    <2>4. ASSUME NEW v \in Users, Opening(pc'[v])
          PROVE  mine'[v] # 0 /\ mine'[v] <= made' /\ handleOf'[mine'[v]] = NoHandle
      BY <2>3, <2>4, <1>1, <1>4 DEF TableInv, Unnamed
    <2>5. \A v, w \in Users : Opening(pc'[v]) /\ Opening(pc'[w]) /\ mine'[v] = mine'[w] => v = w
      BY <2>3 DEF TableInv, Unnamed
    <2> QED BY <2>2, <2>4, <2>5 DEF Unnamed
  <1>9. Drawn'
    <2>1. \A v \in Users : pc'[v] = "store" => v # u /\ pc[v] = "store" /\ drawn'[v] = drawn[v]
      BY <1>5
    <2>2. ASSUME ~ overlap', NEW v \in Users, pc'[v] = "store" PROVE sessions'[drawn'[v]] = 0
      <3>1. drawn[v] # h /\ drawn[v] \in Handles /\ sessions[drawn[v]] = 0
        BY <2>1, <2>2, <1>1 DEF TableInv, Drawn
      <3> QED BY <3>1, <2>1, <2>2, <1>4
    <2> QED BY <2>1, <2>2, <1>1 DEF TableInv, Drawn
  <1>10. HandleNamesItsSession'
    <2>1. ASSUME ~ overlap, NEW o \in Ids, handleOf'[o] # NoHandle
          PROVE  sessions'[handleOf'[o]] = o
      <3>1. CASE o = s
        BY <3>1, <1>4
      <3>2. CASE o # s
        <4>1. handleOf'[o] = handleOf[o]
          BY <3>2, <1>4
        <4>2. handleOf[o] \in Handles /\ sessions[handleOf[o]] = o
          BY <2>1, <4>1 DEF TableInv, TableTypes, HandleNamesItsSession
        <4>3. handleOf[o] # h
          <5>1. sessions[h] = 0 /\ o # 0
            BY <2>1, <1>1 DEF TableInv, Drawn, Ids
          <5> QED BY <4>2, <5>1
        <4> QED BY <4>1, <4>2, <4>3, <1>4
      <3> QED BY <3>1, <3>2
    <2> QED BY <2>1, <1>1 DEF HandleNamesItsSession
  <1> QED BY <1>6, <1>7, <1>8, <1>9, <1>10 DEF TableInv

(* Closing, and what happens to handlers.                                  *)
LEMMA CloseIntfcInv ==
  ASSUME TableInv, NEW u \in Users, NEW h \in Handles, CloseIntfc(u, h) PROVE TableInv'
  <1>1. /\ mine' = [mine EXCEPT ![u] = sessions[h]] /\ pc' = [pc EXCEPT ![u] = "shut"]
        /\ UNCHANGED <<table, made, drawn, overlap>>
    BY DEF CloseIntfc, Goto, objects
  <1>2. UserTypes'
    BY <1>1 DEF TableInv, TableTypes, UserTypes, Places
  <1>3. /\ pc'[u] = "shut"
        /\ \A v \in Users \ {u} : pc'[v] = pc[v] /\ mine'[v] = mine[v]
    BY <1>1 DEF TableInv, UserTypes
  <1> QED BY <1>1, <1>2, <1>3, Elsewhere DEF Opening

LEMMA ShutInv == ASSUME TableInv, NEW u \in Users, Shut(u) PROVE TableInv'
  <1>1. /\ mine' = [mine EXCEPT ![u] = 0] /\ pc' = [pc EXCEPT ![u] = "idle"]
        /\ UNCHANGED <<table, made, drawn, overlap>>
    BY DEF Shut, Goto
  <1>2. UserTypes'
    <2>1. 0 \in 0..MaxSessions
      BY ConstantsAssumption
    <2> QED BY <1>1, <2>1 DEF TableInv, UserTypes, Places
  <1>3. /\ pc'[u] = "idle"
        /\ \A v \in Users \ {u} : pc'[v] = pc[v] /\ mine'[v] = mine[v]
    BY <1>1 DEF TableInv, UserTypes
  <1> QED BY <1>1, <1>2, <1>3, Elsewhere DEF Opening

LEMMA StaysInv ==
  ASSUME TableInv, UNCHANGED <<table, made, users, overlap>> PROVE TableInv'
  <1>1. pc' = pc /\ mine' = mine /\ drawn' = drawn
    BY DEF users
  <1>2. UserTypes'
    BY <1>1 DEF TableInv, UserTypes
  <1> QED BY <1>1, <1>2, Elsewhere

(* The table, the threads and what they have drawn are as they should be.   *)
LEMMA TableStep == TableInv /\ [Next]_vars => TableInv'
  <1> SUFFICES ASSUME TableInv, [Next]_vars PROVE TableInv'
    OBVIOUS
  <1>1. ASSUME NEW u \in Users, OpenResourceManager(u) \/ OpenEvent(u) PROVE TableInv'
    BY <1>1, MakeInv DEF OpenResourceManager, OpenEvent
  <1>2. ASSUME NEW u \in Users, NEW b \in Boards, OpenIntfc(u, b) \/ OpenInstr(u, b)
        PROVE  TableInv'
    BY <1>2, MakeInv DEF OpenIntfc, OpenInstr
  <1>3. ASSUME NEW u \in Users, NEW h \in Handles, CloseOther(u, h) PROVE TableInv'
    BY <1>3, StaysInv DEF CloseOther
  <1>4. ASSUME NEW u \in Users, NEW h \in Handles, NEW f \in Handlers, NEW a,
               Install(u, h, f, a) \/ Uninstall(u, h, f, a)
        PROVE  TableInv'
    <2>1. UNCHANGED <<table, made, users, overlap>>
      BY <1>4 DEF Install, Uninstall, objects
    <2> QED BY <2>1, StaysInv
  <1>5. ASSUME NEW o \in Ids, Fire(o) \/ CallHandler(o) \/ FireEnds(o) PROVE TableInv'
    <2>1. UNCHANGED <<table, made, users, overlap>>
      BY <1>5 DEF Fire, CallHandler, FireEnds, objects
    <2> QED BY <2>1, StaysInv
  <1>6. CASE UNCHANGED vars
    <2>1. UNCHANGED <<table, made, users, overlap>>
      BY <1>6 DEF vars, objects
    <2> QED BY <2>1, StaysInv
  <1> QED BY <1>1, <1>2, <1>3, <1>4, <1>5, <1>6, SetupInv, DrawInv, StoreInv,
             CloseIntfcInv, ShutInv DEF Next

(* The same of every behaviour, for the theorems below.                    *)
THEOREM Table_holds == Spec => []TableInv
  BY InitTable, TableStep, PTL DEF Spec

(* A handle goes on naming the session it was given to (open,              *)
(* open_default_resource_manager and _register of highlevel.py), unless two*)
(* threads drew the same number at the same time.                          *)
THEOREM Handles_name_their_sessions == Spec => []HandleNamesItsSession
  <1>1. TableInv => HandleNamesItsSession
    BY DEF TableInv
  <1> QED BY <1>1, Table_holds, PTL
-----------------------------------------------------------------------------
(* The table of Prologix boards.                                           *)
ObjectTypes ==
    /\ kind \in [Ids -> {"none", "rm", "intfc", "instr", "event"}]
    /\ board \in [Ids -> Boards \cup {0}]
    /\ state \in [Ids -> {"none", "setup", "failed", "open", "closed"}]
    /\ boards \in [Boards -> 0..MaxSessions]
    /\ misused \in BOOLEAN

(* A thread that sets an interface up or shuts it down has one; only what  *)
(* has a handle can be shut down, so it is not being set up any more.      *)
Interfaces ==
    /\ \A o \in Ids : o > made => kind[o] = "none"
    /\ \A o \in Ids : kind[o] = "intfc" => board[o] \in Boards
    /\ \A h \in Handles : sessions[h] # 0 => handleOf[sessions[h]] # NoHandle
    /\ \A u \in Users : pc[u] = "shut" =>
          mine[u] \in Ids /\ kind[mine[u]] = "intfc" /\ handleOf[mine[u]] # NoHandle
    /\ \A u \in Users : pc[u] = "setup" =>
          mine[u] \in Ids /\ kind[mine[u]] = "intfc" /\ state[mine[u]] = "setup"

(* The table of boards has exactly the interfaces that are in use.         *)
Shutting(o) == \E u \in Users : pc[u] = "shut" /\ mine[u] = o
InUse(o) == kind[o] = "intfc" /\ state[o] \in {"setup", "open"} /\ ~ Shutting(o)

BoardsInUse ==
    ~ misused =>
        /\ \A o \in Ids : InUse(o) => boards[board[o]] = o
        /\ \A b \in Boards, o \in Ids : boards[b] = o => InUse(o) /\ board[o] = b

BoardInv == ObjectTypes /\ Interfaces /\ BoardsInUse


LEMMA InitBoard == Init => BoardInv
  <1> SUFFICES ASSUME Init PROVE BoardInv
    OBVIOUS
  <1>1. ObjectTypes
    <2>1. 0 \in 0..MaxSessions
      BY ConstantsAssumption
    <2> QED BY <2>1 DEF Init, ObjectTypes
  <1>2. /\ \A u \in Users : pc[u] = "idle"
        /\ \A o \in Ids : kind[o] = "none"
        /\ \A b \in Boards : boards[b] = 0
        /\ \A h \in Handles : sessions[h] = 0
    BY DEF Init
  <1>3. Interfaces
    BY <1>2 DEF Interfaces
  <1>4. BoardsInUse
    BY <1>2 DEF BoardsInUse, InUse, Ids
  <1> QED BY <1>1, <1>3, <1>4 DEF BoardInv

(* What is in the table of handles or has been made is a session.          *)
LEMMA Members ==
  ASSUME TableInv
  PROVE  /\ \A h \in Handles : sessions[h] # 0 => sessions[h] \in Ids
         /\ \A u \in Users : mine[u] # 0 => mine[u] \in Ids
         /\ made < MaxSessions => made + 1 \in Ids /\ made + 1 > made
         /\ \A o \in Ids : o > made + 1 => o > made
  <1>1. /\ MaxSessions \in Nat /\ made \in 0..MaxSessions
        /\ \A h \in Handles : sessions[h] \in 0..MaxSessions
        /\ \A u \in Users : mine[u] \in 0..MaxSessions
    BY ConstantsAssumption DEF TableInv, TableTypes, UserTypes
  <1>2. made < MaxSessions => made + 1 \in Ids /\ made + 1 > made
    BY <1>1 DEF Ids
  <1>3. \A n \in 0..MaxSessions : n # 0 => n \in Ids
    BY <1>1 DEF Ids
  <1>4. \A o \in Ids : o > made + 1 => o > made
    BY <1>1 DEF Ids
  <1> QED BY <1>1, <1>2, <1>3, <1>4

(* Once there, a handle is not taken back.                                 *)
HandlesKept ==
    /\ \A o \in Ids : handleOf[o] # NoHandle => handleOf'[o] # NoHandle
    /\ \A h \in Handles : sessions'[h] # 0 => handleOf'[sessions'[h]] # NoHandle

LEMMA TableKept ==
  ASSUME BoardInv, UNCHANGED table PROVE HandlesKept
  BY DEF table, HandlesKept, BoardInv, Interfaces

LEMMA StoreKept ==
  ASSUME TableInv, BoardInv, NEW u \in Users, Store(u) PROVE HandlesKept
  <1> DEFINE s == mine[u]
             h == drawn[u]
  <1>1. /\ pc[u] = "store"
        /\ sessions' = [sessions EXCEPT ![h] = s] /\ handleOf' = [handleOf EXCEPT ![s] = h]
    BY DEF Store, At
  <1>2. h \in Handles /\ h # NoHandle /\ s \in Ids
    BY <1>1, Members, ConstantsAssumption DEF TableInv, Drawn, Unnamed, Opening
  <1>3. /\ sessions'[h] = s /\ \A k \in Handles \ {h} : sessions'[k] = sessions[k]
        /\ handleOf'[s] = h /\ \A o \in Ids \ {s} : handleOf'[o] = handleOf[o]
    BY <1>1, <1>2 DEF TableInv, TableTypes
  <1>4. ASSUME NEW k \in Handles, k # h, sessions'[k] # 0
        PROVE  handleOf'[sessions'[k]] # NoHandle
    <2>1. sessions'[k] = sessions[k] /\ sessions[k] \in Ids
      BY <1>3, <1>4, Members
    <2>2. handleOf[sessions[k]] # NoHandle
      BY <1>4, <2>1 DEF BoardInv, Interfaces
    <2> QED BY <1>2, <1>3, <2>1, <2>2
  <1> QED BY <1>2, <1>3, <1>4 DEF HandlesKept

(* A step that leaves the table of boards and the interfaces alone, and in *)
(* which nobody begins or ends setting up or shutting down.                *)
LEMMA BoardFrame ==
  ASSUME TableInv, BoardInv, HandlesKept, UNCHANGED <<made, kind, board, boards, misused>>,
         ObjectTypes',
         \A o \in Ids : kind[o] = "intfc" => state'[o] = state[o],
         \A u \in Users : pc[u] \in {"setup", "shut"} \/ pc'[u] \in {"setup", "shut"} =>
             pc'[u] = pc[u] /\ mine'[u] = mine[u]
  PROVE  BoardInv'
  <1>1. Interfaces'
    <2>1. ASSUME NEW u \in Users, pc'[u] = "shut"
          PROVE  mine'[u] \in Ids /\ kind'[mine'[u]] = "intfc" /\ handleOf'[mine'[u]] # NoHandle
      <3>1. pc[u] = "shut" /\ mine'[u] = mine[u]
        BY <2>1
      <3>2. mine[u] \in Ids /\ kind[mine[u]] = "intfc" /\ handleOf[mine[u]] # NoHandle
        BY <3>1 DEF BoardInv, Interfaces
      <3> QED BY <3>1, <3>2 DEF HandlesKept
    <2>2. ASSUME NEW u \in Users, pc'[u] = "setup"
          PROVE  mine'[u] \in Ids /\ kind'[mine'[u]] = "intfc" /\ state'[mine'[u]] = "setup"
      <3>1. pc[u] = "setup" /\ mine'[u] = mine[u]
        BY <2>2
      <3>2. mine[u] \in Ids /\ kind[mine[u]] = "intfc" /\ state[mine[u]] = "setup"
        BY <3>1 DEF BoardInv, Interfaces
      <3> QED BY <3>1, <3>2
    <2>3. /\ \A o \in Ids : o > made' => kind'[o] = "none"
          /\ \A o \in Ids : kind'[o] = "intfc" => board'[o] \in Boards
      BY DEF BoardInv, Interfaces
    <2> QED BY <2>1, <2>2, <2>3 DEF Interfaces, HandlesKept
  <1>2. \A o : Shutting(o)' <=> Shutting(o)
    BY DEF Shutting
  <1>3. \A o \in Ids : InUse(o)' <=> InUse(o)
    BY <1>2 DEF InUse
  <1>4. \A b \in Boards : boards[b] # 0 => boards[b] \in Ids
    <2>1. \A b \in Boards : boards[b] \in 0..MaxSessions
      BY DEF BoardInv, ObjectTypes
    <2> QED BY <2>1, ConstantsAssumption DEF Ids
  <1>5. BoardsInUse'
    BY <1>3, <1>4 DEF BoardInv, BoardsInUse
  <1> QED BY <1>1, <1>5 DEF BoardInv

(* Opening: the new session is nobody's yet.                               *)
LEMMA MakeInterfaces ==
  ASSUME TableInv, BoardInv, NEW new, new = made + 1,
         NEW u \in Users, NEW k \in {"rm", "intfc", "instr", "event"},
         NEW b \in Boards \cup {0}, NEW i, NEW begin \in {"setup", "open"},
         NEW here \in {"setup", "draw"}, Make(u, k, b, i, begin, here),
         k = "intfc" => b \in Boards,
         here = "setup" => k = "intfc" /\ begin = "setup",
         boards' \in [Boards -> 0..MaxSessions], misused' \in BOOLEAN
  PROVE  /\ ObjectTypes' /\ Interfaces'
         /\ new \in Ids /\ kind[new] = "none" /\ ~ Shutting(new)'
         /\ kind'[new] = k /\ board'[new] = b /\ state'[new] = begin
         /\ \A o \in Ids \ {new} : board'[o] = board[o] /\ (InUse(o)' <=> InUse(o))
  <1>1. /\ pc[u] = "idle" /\ made < MaxSessions /\ made' = made + 1
        /\ kind' = [kind EXCEPT ![new] = k] /\ board' = [board EXCEPT ![new] = b]
        /\ state' = [state EXCEPT ![new] = begin]
        /\ mine' = [mine EXCEPT ![u] = new] /\ pc' = [pc EXCEPT ![u] = here]
        /\ sessions' = sessions /\ handleOf' = handleOf
    BY DEF Make, At, Goto, table
  <1>2. new \in Ids /\ kind[new] = "none"
    BY <1>1, Members DEF BoardInv, Interfaces
  <1>3. /\ kind'[new] = k /\ board'[new] = b /\ state'[new] = begin
        /\ \A o \in Ids \ {new} : kind'[o] = kind[o] /\ board'[o] = board[o] /\ state'[o] = state[o]
    BY <1>1, <1>2 DEF BoardInv, ObjectTypes
  <1>4. /\ pc'[u] = here /\ mine'[u] = new
        /\ \A v \in Users \ {u} : pc'[v] = pc[v] /\ mine'[v] = mine[v]
    BY <1>1 DEF TableInv, UserTypes
  <1>5. ObjectTypes'
    BY <1>1 DEF BoardInv, ObjectTypes
  <1>6. \A v \in Users \ {u} : pc[v] \in {"setup", "shut"} =>
            mine[v] \in Ids \ {new} /\ kind[mine[v]] = "intfc"
    BY <1>2 DEF BoardInv, Interfaces
  <1>7. \A o : Shutting(o)' <=> Shutting(o)
    BY <1>1, <1>4 DEF Shutting
  <1>8. ~ Shutting(new)
    BY <1>1, <1>2, <1>6 DEF Shutting
  <1>9. \A o \in Ids \ {new} : InUse(o)' <=> InUse(o)
    BY <1>3, <1>7 DEF InUse
  <1>10. Interfaces'
    <2>1. \A o \in Ids : o > made' => kind'[o] = "none"
      <3>1. ASSUME NEW o \in Ids, o > made + 1 PROVE o # new /\ kind[o] = "none"
        <4>1. o > made
          BY <3>1, Members
        <4>2. kind[o] = "none"
          BY <4>1 DEF BoardInv, Interfaces
        <4>3. o # new
          BY <3>1 DEF Ids
        <4> QED BY <4>2, <4>3
      <3> QED BY <3>1, <1>1, <1>3
    <2>2. \A o \in Ids : kind'[o] = "intfc" => board'[o] \in Boards
      BY <1>3 DEF BoardInv, Interfaces
    <2>3. \A h \in Handles : sessions'[h] # 0 => handleOf'[sessions'[h]] # NoHandle
      BY <1>1 DEF BoardInv, Interfaces
    <2>4. ASSUME NEW v \in Users, pc'[v] = "shut"
          PROVE  mine'[v] \in Ids /\ kind'[mine'[v]] = "intfc" /\ handleOf'[mine'[v]] # NoHandle
      <3>1. v # u /\ pc[v] = "shut" /\ mine'[v] = mine[v]
        BY <2>4, <1>4
      <3>2. handleOf[mine[v]] # NoHandle
        BY <3>1 DEF BoardInv, Interfaces
      <3> QED BY <3>1, <3>2, <1>1, <1>3, <1>6
    <2>5. ASSUME NEW v \in Users, pc'[v] = "setup"
          PROVE  mine'[v] \in Ids /\ kind'[mine'[v]] = "intfc" /\ state'[mine'[v]] = "setup"
      <3>1. CASE v = u
        BY <3>1, <2>5, <1>2, <1>3, <1>4
      <3>2. CASE v # u
        <4>1. pc[v] = "setup" /\ mine'[v] = mine[v]
          BY <3>2, <2>5, <1>4
        <4>2. state[mine[v]] = "setup"
          BY <4>1 DEF BoardInv, Interfaces
        <4> QED BY <3>2, <4>1, <4>2, <1>3, <1>6
      <3> QED BY <3>1, <3>2
    <2> QED BY <2>1, <2>2, <2>3, <2>4, <2>5 DEF Interfaces
  <1>11. ~ Shutting(new)'
    BY <1>7, <1>8
  <1> QED BY <1>2, <1>3, <1>5, <1>9, <1>10, <1>11

LEMMA MakeBoard ==
  ASSUME TableInv, BoardInv, NEW u \in Users, NEW k \in {"rm", "instr", "event"},
         NEW b \in Boards \cup {0}, NEW i, Make(u, k, b, i, "open", "draw"),
         UNCHANGED <<boards, misused>>
  PROVE  BoardInv'
  <1>1. boards' \in [Boards -> 0..MaxSessions] /\ misused' \in BOOLEAN
    BY DEF BoardInv, ObjectTypes
  <1>2. PICK new : new = made + 1
    OBVIOUS
  <1>3. /\ ObjectTypes' /\ Interfaces' /\ kind[new] = "none" /\ kind'[new] = k
        /\ \A o \in Ids \ {new} : board'[o] = board[o] /\ (InUse(o)' <=> InUse(o))
    <2>1. k \in {"rm", "intfc", "instr", "event"} /\ k # "intfc"
      OBVIOUS
    <2> QED BY <1>1, <1>2, <2>1, MakeInterfaces
  <1>4. ~ InUse(new) /\ ~ InUse(new)'
    BY <1>3 DEF InUse
  <1>5. BoardsInUse'
    BY <1>3, <1>4 DEF BoardInv, BoardsInUse
  <1> QED BY <1>3, <1>5 DEF BoardInv

LEMMA OpenIntfcBoard ==
  ASSUME TableInv, BoardInv, NEW u \in Users, NEW b \in Boards, OpenIntfc(u, b) PROVE BoardInv'
  <1>1. PICK new : new = made + 1
    OBVIOUS
  <1>2. /\ Make(u, "intfc", b, 0, "setup", "setup") /\ boards' = [boards EXCEPT ![b] = new]
        /\ misused' = (misused \/ boards[b] # 0)
    BY <1>1 DEF OpenIntfc
  <1>3. new \in 0..MaxSessions /\ new # 0
    <2>1. made < MaxSessions
      BY <1>2 DEF Make
    <2>2. made \in 0..MaxSessions
      BY DEF TableInv, TableTypes
    <2> QED BY <1>1, <2>1, <2>2, ConstantsAssumption
  <1>4. boards' \in [Boards -> 0..MaxSessions] /\ misused' \in BOOLEAN
    BY <1>2, <1>3 DEF BoardInv, ObjectTypes
  <1>5. /\ ObjectTypes' /\ Interfaces' /\ new \in Ids /\ kind[new] = "none" /\ ~ Shutting(new)'
        /\ kind'[new] = "intfc" /\ board'[new] = b /\ state'[new] = "setup"
        /\ \A o \in Ids \ {new} : board'[o] = board[o] /\ (InUse(o)' <=> InUse(o))
    BY <1>1, <1>2, <1>4, MakeInterfaces
  <1>6. InUse(new)' /\ ~ InUse(new)
    BY <1>5 DEF InUse
  <1>7. boards'[b] = new /\ \A c \in Boards \ {b} : boards'[c] = boards[c]
    BY <1>2 DEF BoardInv, ObjectTypes
  <1>8. ASSUME ~ misused'
        PROVE  /\ \A o \in Ids : InUse(o)' => boards'[board'[o]] = o
               /\ \A c \in Boards, o \in Ids : boards'[c] = o => InUse(o)' /\ board'[o] = c
    <2>1. ~ misused /\ boards[b] = 0
      BY <1>2, <1>8 DEF BoardInv, ObjectTypes
    <2>2. ASSUME NEW o \in Ids, InUse(o)', o # new PROVE boards'[board'[o]] = o
      <3>1. InUse(o) /\ board'[o] = board[o]
        BY <2>2, <1>5
      <3>2. boards[board[o]] = o /\ board[o] \in Boards /\ o # 0
        BY <2>1, <3>1 DEF BoardInv, BoardsInUse, Interfaces, InUse, Ids
      <3> QED BY <2>1, <3>1, <3>2, <1>7
    <2>3. ASSUME NEW c \in Boards, c # b, NEW o \in Ids, boards'[c] = o
          PROVE  InUse(o)' /\ board'[o] = c
      <3>1. boards[c] = o /\ InUse(o) /\ board[o] = c
        BY <2>1, <2>3, <1>7 DEF BoardInv, BoardsInUse
      <3>2. o # new
        BY <3>1, <1>6
      <3> QED BY <3>1, <3>2, <1>5
    <2> QED BY <2>2, <2>3, <1>5, <1>6, <1>7
  <1>9. BoardsInUse'
    BY <1>8 DEF BoardsInUse
  <1> QED BY <1>5, <1>9 DEF BoardInv

LEMMA SetupBoard ==
  ASSUME TableInv, BoardInv, NEW u \in Users, Setup(u) PROVE BoardInv'
  <1> DEFINE s == mine[u]
  <1>1. /\ pc[u] = "setup" /\ UNCHANGED <<table, made, kind, board, boards, mine>>
        /\ \E here \in {"draw", "idle"} : pc' = [pc EXCEPT ![u] = here]
        /\ \/ state' = [state EXCEPT ![s] = "open"] /\ misused' = misused
           \/ state' = [state EXCEPT ![s] = "failed"] /\ misused' = TRUE
    BY DEF Setup, At, Goto
  <1>2. s \in Ids /\ kind[s] = "intfc" /\ state[s] = "setup" /\ handleOf[s] = NoHandle
    BY <1>1 DEF TableInv, Unnamed, Opening, BoardInv, Interfaces
  <1>3. ObjectTypes'
    BY <1>1 DEF BoardInv, ObjectTypes
  <1>4. /\ pc'[u] \in {"draw", "idle"} /\ \A v \in Users \ {u} : pc'[v] = pc[v]
        /\ \A o \in Ids \ {s} : state'[o] = state[o]
        /\ ~ misused' => ~ misused /\ state'[s] = "open"
    BY <1>1, <1>2 DEF TableInv, UserTypes, BoardInv, ObjectTypes
  <1>5. Interfaces'
    <2>1. ASSUME NEW v \in Users, pc'[v] = "shut"
          PROVE  mine'[v] \in Ids /\ kind'[mine'[v]] = "intfc" /\ handleOf'[mine'[v]] # NoHandle
      BY <2>1, <1>1, <1>4 DEF BoardInv, Interfaces, table
    <2>2. ASSUME NEW v \in Users, pc'[v] = "setup"
          PROVE  mine'[v] \in Ids /\ kind'[mine'[v]] = "intfc" /\ state'[mine'[v]] = "setup"
      <3>1. v # u /\ pc[v] = "setup"
        BY <2>2, <1>4
      <3>2. mine[v] # s
        BY <3>1, <1>1 DEF TableInv, Unnamed, Opening
      <3> QED BY <3>1, <3>2, <1>1, <1>4 DEF BoardInv, Interfaces
    <2>3. /\ \A o \in Ids : o > made' => kind'[o] = "none"
          /\ \A o \in Ids : kind'[o] = "intfc" => board'[o] \in Boards
          /\ \A h \in Handles : sessions'[h] # 0 => handleOf'[sessions'[h]] # NoHandle
      BY <1>1 DEF BoardInv, Interfaces, table
    <2> QED BY <2>1, <2>2, <2>3 DEF Interfaces
  <1>6. \A o : Shutting(o)' <=> Shutting(o)
    BY <1>1, <1>4 DEF Shutting
  <1>7. BoardsInUse'
    <2>1. ASSUME ~ misused', NEW o \in Ids PROVE InUse(o)' <=> InUse(o)
      BY <2>1, <1>1, <1>2, <1>4, <1>6 DEF InUse
    <2> QED BY <2>1, <1>1, <1>4 DEF BoardInv, BoardsInUse
  <1> QED BY <1>3, <1>5, <1>7 DEF BoardInv

LEMMA DrawBoard ==
  ASSUME TableInv, BoardInv, NEW u \in Users, NEW h \in Handles, Draw(u, h) PROVE BoardInv'
  <1>1. /\ pc[u] = "draw" /\ pc' = [pc EXCEPT ![u] = "store"]
        /\ UNCHANGED <<made, kind, board, state, boards, misused, mine>>
    <2>1. UNCHANGED <<objects, boards, misused, mine>>
      BY DEF Draw
    <2> QED BY <2>1 DEF Draw, DrawFree, At, Goto, objects
  <1>2. HandlesKept
    BY TableKept DEF Draw
  <1>3. ObjectTypes'
    BY <1>1 DEF BoardInv, ObjectTypes
  <1>4. pc'[u] = "store" /\ \A v \in Users \ {u} : pc'[v] = pc[v]
    BY <1>1 DEF TableInv, UserTypes
  <1> QED BY <1>1, <1>2, <1>3, <1>4, BoardFrame

LEMMA StoreBoard ==
  ASSUME TableInv, BoardInv, NEW u \in Users, Store(u) PROVE BoardInv'
  <1>1. /\ pc[u] = "store" /\ pc' = [pc EXCEPT ![u] = "idle"] /\ mine' = [mine EXCEPT ![u] = 0]
        /\ UNCHANGED <<made, kind, board, state, boards, misused>>
    BY DEF Store, At, Goto, objects
  <1>2. HandlesKept
    BY StoreKept
  <1>3. ObjectTypes'
    BY <1>1 DEF BoardInv, ObjectTypes
  <1>4. pc'[u] = "idle" /\ \A v \in Users \ {u} : pc'[v] = pc[v] /\ mine'[v] = mine[v]
    BY <1>1 DEF TableInv, UserTypes
  <1> QED BY <1>1, <1>2, <1>3, <1>4, BoardFrame

LEMMA CloseOtherBoard ==
  ASSUME TableInv, BoardInv, NEW u \in Users, NEW h \in Handles, CloseOther(u, h) PROVE BoardInv'
  <1>1. /\ kind[sessions[h]] # "intfc" /\ state' = [state EXCEPT ![sessions[h]] = "closed"]
        /\ UNCHANGED <<table, made, kind, board, boards, misused, pc, mine>>
    BY DEF CloseOther, users
  <1>2. HandlesKept
    BY <1>1, TableKept
  <1>3. ObjectTypes'
    BY <1>1 DEF BoardInv, ObjectTypes
  <1>4. \A o \in Ids : kind[o] = "intfc" => state'[o] = state[o]
    BY <1>1 DEF BoardInv, ObjectTypes
  <1> QED BY <1>1, <1>2, <1>3, <1>4, BoardFrame

LEMMA CloseIntfcBoard ==
  ASSUME TableInv, BoardInv, NEW u \in Users, NEW h \in Handles, CloseIntfc(u, h) PROVE BoardInv'
  <1> DEFINE s == sessions[h]
             b == board[s]
  <1>1. /\ pc[u] = "idle" /\ s # 0 /\ kind[s] = "intfc"
        /\ boards' = [boards EXCEPT ![b] = 0] /\ mine' = [mine EXCEPT ![u] = s]
        /\ pc' = [pc EXCEPT ![u] = "shut"]
        /\ misused' = (misused \/ boards[b] # s)
        /\ UNCHANGED <<sessions, handleOf, made, kind, board, state>>
    BY DEF CloseIntfc, PopBoard, At, Goto, Registered, objects, table
  <1>2. s \in Ids /\ b \in Boards /\ handleOf[s] # NoHandle
    BY <1>1, Members DEF BoardInv, Interfaces
  <1>3. /\ pc'[u] = "shut" /\ mine'[u] = s
        /\ \A v \in Users \ {u} : pc'[v] = pc[v] /\ mine'[v] = mine[v]
        /\ boards'[b] = 0 /\ \A c \in Boards \ {b} : boards'[c] = boards[c]
    BY <1>1, <1>2 DEF TableInv, UserTypes, BoardInv, ObjectTypes
  <1>4. ObjectTypes'
    <2>1. misused' \in BOOLEAN
      BY <1>1 DEF BoardInv, ObjectTypes
    <2>2. boards' \in [Boards -> 0..MaxSessions]
      <3>1. 0 \in 0..MaxSessions
        BY ConstantsAssumption
      <3> QED BY <3>1, <1>1 DEF BoardInv, ObjectTypes
    <2> QED BY <1>1, <2>1, <2>2 DEF BoardInv, ObjectTypes
  <1>5. Interfaces'
    BY <1>1, <1>2, <1>3 DEF BoardInv, Interfaces
  <1>6. \A o : Shutting(o)' <=> (Shutting(o) \/ o = s)
    BY <1>1, <1>3 DEF Shutting
  <1>7. \A o \in Ids : InUse(o)' <=> (InUse(o) /\ o # s)
    BY <1>1, <1>6 DEF InUse
  <1>8. ASSUME ~ misused'
        PROVE  /\ \A o \in Ids : InUse(o)' => boards'[board'[o]] = o
               /\ \A c \in Boards, o \in Ids : boards'[c] = o => InUse(o)' /\ board'[o] = c
    <2>1. ~ misused /\ boards[b] = s
      BY <1>1, <1>8 DEF BoardInv, ObjectTypes
    <2>2. ASSUME NEW o \in Ids, InUse(o)' PROVE boards'[board'[o]] = o
      <3>1. InUse(o) /\ o # s /\ boards[board[o]] = o /\ board[o] \in Boards
        BY <2>1, <2>2, <1>7 DEF BoardInv, BoardsInUse, Interfaces, InUse
      <3>2. board[o] # b
        BY <2>1, <3>1
      <3> QED BY <3>1, <3>2, <1>1, <1>3
    <2>3. ASSUME NEW c \in Boards, NEW o \in Ids, boards'[c] = o PROVE InUse(o)' /\ board'[o] = c
      <3>1. c # b
        BY <2>3, <1>3 DEF Ids
      <3>2. InUse(o) /\ board[o] = c
        BY <2>1, <2>3, <3>1, <1>3 DEF BoardInv, BoardsInUse
      <3> QED BY <3>1, <3>2, <1>1, <1>7
    <2> QED BY <2>2, <2>3
  <1>9. BoardsInUse'
    BY <1>8 DEF BoardsInUse
  <1> QED BY <1>4, <1>5, <1>9 DEF BoardInv

LEMMA ShutBoard ==
  ASSUME TableInv, BoardInv, NEW u \in Users, Shut(u) PROVE BoardInv'
  <1> DEFINE s == mine[u]
  <1>1. /\ pc[u] = "shut" /\ state' = [state EXCEPT ![s] = "closed"]
        /\ mine' = [mine EXCEPT ![u] = 0] /\ pc' = [pc EXCEPT ![u] = "idle"]
        /\ UNCHANGED <<sessions, handleOf, made, kind, board, boards, misused>>
    BY DEF Shut, At, Goto, table
  <1>2. s \in Ids /\ kind[s] = "intfc" /\ handleOf[s] # NoHandle
    BY <1>1 DEF BoardInv, Interfaces
  <1>3. /\ pc'[u] = "idle" /\ \A v \in Users \ {u} : pc'[v] = pc[v] /\ mine'[v] = mine[v]
        /\ state'[s] = "closed" /\ \A o \in Ids \ {s} : state'[o] = state[o]
    BY <1>1, <1>2 DEF TableInv, UserTypes, BoardInv, ObjectTypes
  <1>4. ObjectTypes'
    BY <1>1 DEF BoardInv, ObjectTypes
  <1>5. Interfaces'
    <2>1. ASSUME NEW v \in Users, pc'[v] = "shut"
          PROVE  mine'[v] \in Ids /\ kind'[mine'[v]] = "intfc" /\ handleOf'[mine'[v]] # NoHandle
      BY <2>1, <1>1, <1>3 DEF BoardInv, Interfaces
    <2>2. ASSUME NEW v \in Users, pc'[v] = "setup"
          PROVE  mine'[v] \in Ids /\ kind'[mine'[v]] = "intfc" /\ state'[mine'[v]] = "setup"
      <3>1. pc[v] = "setup" /\ mine'[v] = mine[v]
        BY <2>2, <1>3
      <3>2. mine[v] # s
        BY <3>1, <1>2 DEF TableInv, Unnamed, Opening
      <3> QED BY <3>1, <3>2, <1>1, <1>3 DEF BoardInv, Interfaces
    <2>3. /\ \A o \in Ids : o > made' => kind'[o] = "none"
          /\ \A o \in Ids : kind'[o] = "intfc" => board'[o] \in Boards
          /\ \A h \in Handles : sessions'[h] # 0 => handleOf'[sessions'[h]] # NoHandle
      BY <1>1 DEF BoardInv, Interfaces
    <2> QED BY <2>1, <2>2, <2>3 DEF Interfaces
  <1>6. Shutting(s) /\ \A o \in Ids \ {s} : Shutting(o)' <=> Shutting(o)
    BY <1>1, <1>3 DEF Shutting
  <1>7. \A o \in Ids : InUse(o)' <=> InUse(o)
    BY <1>1, <1>3, <1>6 DEF InUse
  <1>8. BoardsInUse'
    BY <1>1, <1>7 DEF BoardInv, BoardsInUse
  <1> QED BY <1>4, <1>5, <1>8 DEF BoardInv

LEMMA StaysBoard ==
  ASSUME TableInv, BoardInv, UNCHANGED <<table, objects, boards, users, misused>> PROVE BoardInv'
  <1>1. UNCHANGED <<made, kind, board, state, pc, mine, boards, misused>>
    BY DEF objects, users
  <1>2. HandlesKept
    BY TableKept
  <1>3. ObjectTypes'
    BY <1>1 DEF BoardInv, ObjectTypes
  <1> QED BY <1>1, <1>2, <1>3, BoardFrame

LEMMA BoardStep == TableInv /\ BoardInv /\ [Next]_vars => BoardInv'
  <1> SUFFICES ASSUME TableInv, BoardInv, [Next]_vars PROVE BoardInv'
    OBVIOUS
  <1>1. ASSUME NEW u \in Users, OpenResourceManager(u) \/ OpenEvent(u) PROVE BoardInv'
    BY <1>1, MakeBoard DEF OpenResourceManager, OpenEvent
  <1>2. ASSUME NEW u \in Users, NEW b \in Boards, OpenInstr(u, b) PROVE BoardInv'
    BY <1>2, MakeBoard DEF OpenInstr
  <1>3. ASSUME NEW u \in Users, NEW h \in Handles, NEW f \in Handlers, NEW a,
               Install(u, h, f, a) \/ Uninstall(u, h, f, a)
        PROVE  BoardInv'
    BY <1>3, StaysBoard DEF Install, Uninstall
  <1>4. ASSUME NEW o \in Ids, Fire(o) \/ CallHandler(o) \/ FireEnds(o) PROVE BoardInv'
    BY <1>4, StaysBoard DEF Fire, CallHandler, FireEnds
  <1>5. CASE UNCHANGED vars
    BY <1>5, StaysBoard DEF vars
  <1> QED BY <1>1, <1>2, <1>3, <1>4, <1>5, OpenIntfcBoard, SetupBoard, DrawBoard, StoreBoard,
             CloseOtherBoard, CloseIntfcBoard, ShutBoard DEF Next

(* A Prologix instrument finds the open interface of its board and never a *)
(* closed one (the class table of boards in prologix.py), whatever threads *)
(* open, set up and close, as long as a board has one interface at a time  *)
(* that is closed once.                                                    *)
THEOREM Board_finds == Spec => []BoardFinds
  <1>1. BoardInv => BoardFinds
    <2> SUFFICES ASSUME BoardInv, ~ misused
                 PROVE  /\ \A b \in Boards : boards[b] # 0 => state[boards[b]] # "closed"
                        /\ \A o \in Ids :
                              (/\ kind[o] = "intfc" /\ state[o] = "open"
                               /\ ~ \E u \in Users : pc[u] = "shut" /\ mine[u] = o)
                              => boards[board[o]] = o
      BY DEF BoardFinds, At
    <2>1. ASSUME NEW b \in Boards, boards[b] # 0 PROVE state[boards[b]] # "closed"
      <3>1. boards[b] \in Ids
        <4>1. boards[b] \in 0..MaxSessions
          BY DEF BoardInv, ObjectTypes
        <4> QED BY <2>1, <4>1, ConstantsAssumption DEF Ids
      <3> QED BY <3>1 DEF BoardInv, BoardsInUse, InUse
    <2>2. ASSUME NEW o \in Ids, kind[o] = "intfc", state[o] = "open",
                 ~ \E u \in Users : pc[u] = "shut" /\ mine[u] = o
          PROVE  boards[board[o]] = o
      BY <2>2 DEF BoardInv, BoardsInUse, InUse, Shutting
    <2> QED BY <2>1, <2>2
  <1> QED BY <1>1, InitBoard, BoardStep, Table_holds, PTL DEF Spec

-----------------------------------------------------------------------------
(* Entries of handlers are told apart by their numbers, and a delivery has *)
(* called the first ones of its snapshot.                                  *)
Entries == [handler : Handlers, arg : Args, no : Nat]

Distinct(entries) ==
    \A i, j \in 1..Len(entries) : entries[i].no = entries[j].no => i = j

HandlerTypes ==
    /\ installs \in Nat
    /\ firing \in [Ids -> BOOLEAN]
    /\ registry \in [Ids -> Seq(Entries)] /\ snapshot \in [Ids -> Seq(Entries)]
    /\ called \in [Ids -> Seq(Entries)]

Registry(o) ==
    Distinct(registry[o]) /\ \A i \in 1..Len(registry[o]) : registry[o][i].no <= installs

Delivery(o) ==
    /\ Distinct(snapshot[o])
    /\ Len(called[o]) <= Len(snapshot[o])
    /\ \A i \in 1..Len(called[o]) : called[o][i] = snapshot[o][i]

HandlerInv == HandlerTypes /\ \A o \in Ids : Registry(o) /\ Delivery(o)

LEMMA InitHandlers == Init => HandlerInv
  <1> SUFFICES ASSUME Init PROVE HandlerInv
    OBVIOUS
  <1>1. <<>> \in Seq(Entries) /\ Len(<<>>) = 0
    OBVIOUS
  <1>2. HandlerTypes
    BY <1>1 DEF Init, HandlerTypes
  <1>3. \A o \in Ids : registry[o] = <<>> /\ snapshot[o] = <<>> /\ called[o] = <<>>
    BY DEF Init
  <1>4. \A o \in Ids : Registry(o) /\ Delivery(o)
    BY <1>1, <1>3 DEF Registry, Delivery, Distinct
  <1> QED BY <1>2, <1>4 DEF HandlerInv

(* Taking an entry out closes the gap and changes no other.                *)
LEMMA RemoveAtProperties ==
  ASSUME NEW S, NEW s \in Seq(S), NEW i \in 1..Len(s)
  PROVE  /\ RemoveAt(s, i) \in Seq(S) /\ Len(RemoveAt(s, i)) = Len(s) - 1
         /\ \A k \in 1..Len(s) - 1 : RemoveAt(s, i)[k] = IF k < i THEN s[k] ELSE s[k + 1]
  <1> DEFINE front == SubSeq(s, 1, i - 1)
             back == SubSeq(s, i + 1, Len(s))
  <1>1. /\ Len(s) \in Nat /\ i \in Int /\ 1 <= i /\ i <= Len(s)
        /\ \A k \in 1..Len(s) : s[k] \in S
    OBVIOUS
  <1>2. /\ front \in Seq(S) /\ Len(front) = i - 1
        /\ \A k \in 1..i - 1 : front[k] = s[k]
    <2>1. 1 \in Int /\ i - 1 \in Int /\ \A k \in 1..i - 1 : s[k] \in S
      BY <1>1
    <2>2. /\ front \in Seq(S) /\ Len(front) = IF 1 <= i - 1 THEN i - 1 - 1 + 1 ELSE 0
          /\ \A k \in 1..i - 1 - 1 + 1 : front[k] = s[1 + k - 1]
      BY ONLY <2>1, SubSeqProperties
    <2> HIDE DEF front
    <2> QED BY <1>1, <2>2
  <1>3. /\ back \in Seq(S) /\ Len(back) = Len(s) - i
        /\ \A k \in 1..Len(s) - i : back[k] = s[i + k]
    <2>1. i + 1 \in Int /\ Len(s) \in Int /\ \A k \in i + 1..Len(s) : s[k] \in S
      BY <1>1
    <2>2. /\ back \in Seq(S)
          /\ Len(back) = IF i + 1 <= Len(s) THEN Len(s) - (i + 1) + 1 ELSE 0
          /\ \A k \in 1..Len(s) - (i + 1) + 1 : back[k] = s[i + 1 + k - 1]
      BY ONLY <2>1, SubSeqProperties
    <2> HIDE DEF back
    <2> QED BY <1>1, <2>2
  <1>4. RemoveAt(s, i) = front \o back
    BY DEF RemoveAt
  <1> HIDE DEF front, back
  <1>5. /\ front \o back \in Seq(S) /\ Len(front \o back) = i - 1 + (Len(s) - i)
        /\ \A k \in 1..(i - 1 + (Len(s) - i)) :
              (front \o back)[k] = IF k <= i - 1 THEN front[k] ELSE back[k - (i - 1)]
    <2>1. front \in Seq(S) /\ back \in Seq(S)
      BY <1>2, <1>3
    <2>2. /\ front \o back \in Seq(S) /\ Len(front \o back) = Len(front) + Len(back)
          /\ \A k \in 1..Len(front) + Len(back) :
                (front \o back)[k] = IF k <= Len(front) THEN front[k] ELSE back[k - Len(front)]
      BY ONLY <2>1, ConcatProperties
    <2>3. Len(front) = i - 1 /\ Len(back) = Len(s) - i
      BY <1>2, <1>3
    <2> QED BY ONLY <2>2, <2>3
  <1>6. ASSUME NEW k \in 1..Len(s) - 1
        PROVE  (front \o back)[k] = IF k < i THEN s[k] ELSE s[k + 1]
    <2>1. k \in 1..(i - 1 + (Len(s) - i))
      BY <1>1
    <2>2. (front \o back)[k] = IF k <= i - 1 THEN front[k] ELSE back[k - (i - 1)]
      BY ONLY <2>1, <1>5
    <2>3. CASE k < i
      BY <1>1, <1>2, <2>2, <2>3
    <2>4. CASE ~ k < i
      <3>1. k - (i - 1) \in 1..Len(s) - i /\ i + (k - (i - 1)) = k + 1 /\ ~ k <= i - 1
        BY <1>1, <2>4
      <3>2. back[k - (i - 1)] = s[k + 1]
        BY <1>3, <3>1
      <3> QED BY <2>2, <2>4, <3>1, <3>2
    <2> QED BY <2>3, <2>4
  <1>7. i - 1 + (Len(s) - i) = Len(s) - 1
    BY <1>1
  <1> QED BY <1>4, <1>5, <1>6, <1>7

(* Installing and uninstalling keep the numbers of a list apart.           *)
LEMMA InstallInv ==
  ASSUME TableInv, HandlerInv, NEW u \in Users, NEW h \in Handles,
         NEW f \in Handlers, NEW a \in Args, Install(u, h, f, a)
  PROVE  HandlerInv'
  <1> DEFINE s == sessions[h]
  <1>1. PICK entry : entry = Entry(f, a)
    OBVIOUS
  <1>2. /\ s # 0 /\ installs' = installs + 1
        /\ registry' = [registry EXCEPT ![s] = Append(@, entry)]
        /\ UNCHANGED deliveries
    BY <1>1 DEF Install, Registered
  <1>3. s \in Ids /\ installs \in Nat /\ registry[s] \in Seq(Entries)
    BY <1>2, Members DEF HandlerInv, HandlerTypes
  <1>4. entry \in Entries /\ entry.no = installs + 1
    BY <1>1, <1>3 DEF Entry, Entries
  <1>5. /\ Append(registry[s], entry) \in Seq(Entries)
        /\ Len(Append(registry[s], entry)) = Len(registry[s]) + 1
        /\ \A i \in 1..Len(registry[s]) : Append(registry[s], entry)[i] = registry[s][i]
        /\ Append(registry[s], entry)[Len(registry[s]) + 1] = entry
    BY ONLY <1>3, <1>4, AppendProperties
  <1>6. /\ registry'[s] = Append(registry[s], entry)
        /\ \A o \in Ids \ {s} : registry'[o] = registry[o]
    BY <1>2, <1>3 DEF HandlerInv, HandlerTypes
  <1>7. firing' = firing /\ snapshot' = snapshot /\ called' = called
    BY <1>2 DEF deliveries
  <1>8. HandlerTypes'
    BY <1>2, <1>3, <1>5, <1>7 DEF HandlerInv, HandlerTypes
  <1>9. \A o \in Ids : Delivery(o)'
    BY <1>7 DEF HandlerInv, Delivery
  <1>10. ASSUME NEW o \in Ids PROVE Registry(o)'
    <2>1. Registry(o) /\ \A i \in 1..Len(registry[o]) : registry[o][i].no \in Nat
      <3>1. \A i \in 1..Len(registry[o]) : registry[o][i] \in Entries
        BY DEF HandlerInv, HandlerTypes
      <3> QED BY <3>1 DEF HandlerInv, Entries
    <2>2. CASE o # s
      BY <2>1, <2>2, <1>2, <1>3, <1>6 DEF Registry
    <2>3. CASE o = s
      <3> DEFINE n == Len(registry[s])
                 new == registry'[s]
      <3>1. /\ n \in Nat /\ Len(new) = n + 1 /\ new[n + 1].no = installs + 1
            /\ \A i \in 1..n : new[i].no = registry[s][i].no /\ new[i].no \in Nat /\ new[i].no <= installs
        BY <2>1, <2>3, <1>3, <1>4, <1>5, <1>6 DEF Registry
      <3>2. \A i, j \in 1..n : new[i].no = new[j].no => i = j
        BY <2>1, <2>3, <3>1 DEF Registry, Distinct
      <3> HIDE DEF n, new
      <3>3. \A i, j \in 1..n + 1 : new[i].no = new[j].no => i = j
        <4>1. \A i \in 1..n + 1 : i \in 1..n \/ i = n + 1
          BY <3>1
        <4>2. \A i \in 1..n : new[i].no # new[n + 1].no
          BY <3>1, <1>3
        <4> QED BY <4>1, <4>2, <3>2
      <3>4. \A i \in 1..n + 1 : new[i].no <= installs + 1
        <4>1. \A i \in 1..n + 1 : i \in 1..n \/ i = n + 1
          BY <3>1
        <4> QED BY <4>1, <3>1, <1>3
      <3> QED BY <2>3, <3>1, <3>3, <3>4, <1>2 DEF Registry, Distinct, new
    <2> QED BY <2>2, <2>3
  <1> QED BY <1>8, <1>9, <1>10 DEF HandlerInv

LEMMA UninstallInv ==
  ASSUME TableInv, HandlerInv, NEW u \in Users, NEW h \in Handles,
         NEW f \in Handlers, NEW a \in Args \cup {NoArg}, Uninstall(u, h, f, a)
  PROVE  HandlerInv'
  <1> DEFINE s == sessions[h]
  <1>1. /\ s # 0 /\ installs' = installs /\ UNCHANGED deliveries
        /\ \E i \in DOMAIN registry[s] : registry' = [registry EXCEPT ![s] = RemoveAt(@, i)]
    BY DEF Uninstall, Registered
  <1>2. PICK i \in DOMAIN registry[s] : registry' = [registry EXCEPT ![s] = RemoveAt(@, i)]
    BY <1>1
  <1>3. s \in Ids /\ installs \in Nat /\ registry[s] \in Seq(Entries)
    BY <1>1, Members DEF HandlerInv, HandlerTypes
  <1>4. i \in 1..Len(registry[s])
    BY <1>2, <1>3
  <1>5. /\ RemoveAt(registry[s], i) \in Seq(Entries)
        /\ Len(RemoveAt(registry[s], i)) = Len(registry[s]) - 1
        /\ \A k \in 1..Len(registry[s]) - 1 :
              RemoveAt(registry[s], i)[k] = IF k < i THEN registry[s][k] ELSE registry[s][k + 1]
    BY ONLY <1>3, <1>4, RemoveAtProperties
  <1>6. /\ registry'[s] = RemoveAt(registry[s], i)
        /\ \A o \in Ids \ {s} : registry'[o] = registry[o]
    BY <1>2, <1>3 DEF HandlerInv, HandlerTypes
  <1>7. firing' = firing /\ snapshot' = snapshot /\ called' = called
    BY <1>1 DEF deliveries
  <1>8. HandlerTypes'
    BY <1>1, <1>2, <1>3, <1>5, <1>7 DEF HandlerInv, HandlerTypes
  <1>9. \A o \in Ids : Delivery(o)'
    BY <1>7 DEF HandlerInv, Delivery
  <1>10. ASSUME NEW o \in Ids PROVE Registry(o)'
    <2>1. Registry(o)
      BY DEF HandlerInv
    <2>2. CASE o # s
      BY <2>1, <2>2, <1>1, <1>6 DEF Registry
    <2>3. CASE o = s
      <3> DEFINE n == Len(registry[s])
                 new == registry'[s]
                 from(k) == IF k < i THEN k ELSE k + 1
      <3>1. n \in Nat /\ i \in 1..n
        BY <1>3, <1>4
      <3>2. \A k \in 1..n - 1 : from(k) \in 1..n
        BY <3>1
      <3>3. \A k, l \in 1..n - 1 : from(k) = from(l) => k = l
        BY <3>1
      <3>4. Len(new) = n - 1 /\ \A k \in 1..n - 1 : new[k] = registry[s][from(k)]
        BY <1>5, <1>6
      <3> HIDE DEF from
      <3>5. Distinct(new)
        <4>1. ASSUME NEW k \in 1..n - 1, NEW l \in 1..n - 1, new[k].no = new[l].no
              PROVE  k = l
          <5>1. from(k) \in 1..n /\ from(l) \in 1..n
            BY <3>2
          <5>2. registry[s][from(k)].no = registry[s][from(l)].no
            BY <3>4, <4>1
          <5>3. from(k) = from(l)
            BY <2>1, <2>3, <5>1, <5>2 DEF Registry, Distinct
          <5> QED BY <5>3, <3>3
        <4> HIDE DEF n, new
        <4> QED BY <4>1, <3>4 DEF Distinct
      <3>6. \A k \in 1..Len(new) : new[k].no <= installs
        BY <2>1, <2>3, <3>2, <3>4 DEF Registry
      <3> QED BY <2>3, <3>5, <3>6, <1>1 DEF Registry, Distinct
    <2> QED BY <2>2, <2>3
  <1> QED BY <1>8, <1>9, <1>10 DEF HandlerInv

(* fire() goes through its own copy, in order.                             *)
LEMMA FireInv ==
  ASSUME HandlerInv, NEW o \in Ids, Fire(o) PROVE HandlerInv'
  <1>1. /\ firing' = [firing EXCEPT ![o] = TRUE]
        /\ snapshot' = [snapshot EXCEPT ![o] = registry[o]]
        /\ called' = [called EXCEPT ![o] = <<>>]
        /\ registry' = registry /\ installs' = installs
    BY DEF Fire, handlers
  <1>2. HandlerTypes'
    BY <1>1 DEF HandlerInv, HandlerTypes
  <1>3. /\ snapshot'[o] = registry[o] /\ called'[o] = <<>>
        /\ \A p \in Ids \ {o} : snapshot'[p] = snapshot[p] /\ called'[p] = called[p]
    BY <1>1 DEF HandlerInv, HandlerTypes
  <1>4. ASSUME NEW p \in Ids PROVE Registry(p)' /\ Delivery(p)'
    <2>1. Registry(p)'
      BY <1>1 DEF HandlerInv, Registry
    <2>2. CASE p = o
      <3>1. Len(called'[o]) = 0 /\ Len(snapshot'[o]) \in Nat
        BY <1>3 DEF HandlerInv, HandlerTypes
      <3> QED BY <2>1, <2>2, <3>1, <1>3 DEF Delivery, HandlerInv, Registry
    <2>3. CASE p # o
      BY <2>1, <2>3, <1>3 DEF Delivery, HandlerInv
    <2> QED BY <2>2, <2>3
  <1> QED BY <1>2, <1>4 DEF HandlerInv

(* What is left to call begins after what has been called.                 *)
LEMMA ToCallProperties ==
  ASSUME HandlerInv, NEW o \in Ids
  PROVE  /\ ToCall(o) \in Seq(Entries)
         /\ Len(ToCall(o)) = Len(snapshot[o]) - Len(called[o])
         /\ ToCall(o) # <<>> => ToCall(o)[1] = snapshot[o][Len(called[o]) + 1]
  <1> DEFINE c == Len(called[o])
             n == Len(snapshot[o])
             s == snapshot[o]
  <1>1. s \in Seq(Entries) /\ c \in Nat /\ n \in Nat /\ c <= n
    BY DEF HandlerInv, HandlerTypes, Delivery
  <1>2. c + 1 \in Int /\ n \in Int /\ \A i \in c + 1..n : s[i] \in Entries
    BY <1>1
  <1>3. ToCall(o) = SubSeq(s, c + 1, n)
    BY DEF ToCall
  <1> HIDE DEF c, n, s
  <1>4. /\ SubSeq(s, c + 1, n) \in Seq(Entries)
        /\ Len(SubSeq(s, c + 1, n)) = IF c + 1 <= n THEN n - (c + 1) + 1 ELSE 0
        /\ \A i \in 1..n - (c + 1) + 1 : SubSeq(s, c + 1, n)[i] = s[c + 1 + i - 1]
    BY ONLY <1>2, SubSeqProperties
  <1>5. Len(ToCall(o)) = n - c
    BY <1>1, <1>3, <1>4
  <1>6. ToCall(o) # <<>> => n - c # 0
    BY <1>3, <1>4, <1>5, EmptySeq
  <1>7. ToCall(o) # <<>> => ToCall(o)[1] = s[c + 1]
    <2>1. n - c # 0 => 1 \in 1..n - (c + 1) + 1 /\ c + 1 + 1 - 1 = c + 1
      BY <1>1
    <2> QED BY <2>1, <1>3, <1>4, <1>6
  <1> QED BY <1>3, <1>4, <1>5, <1>7 DEF c, n, s

LEMMA CallHandlerInv ==
  ASSUME HandlerInv, NEW o \in Ids, CallHandler(o) PROVE HandlerInv'
  <1>1. PICK next : next = Head(ToCall(o))
    OBVIOUS
  <1>2. /\ ToCall(o) # <<>> /\ called' = [called EXCEPT ![o] = Append(@, next)]
        /\ firing' = firing /\ snapshot' = snapshot /\ registry' = registry /\ installs' = installs
    BY <1>1 DEF CallHandler, handlers
  <1>3. called[o] \in Seq(Entries) /\ snapshot[o] \in Seq(Entries) /\ Len(called[o]) <= Len(snapshot[o])
    BY DEF HandlerInv, HandlerTypes, Delivery
  <1>4. /\ next = snapshot[o][Len(called[o]) + 1] /\ next \in Entries
        /\ Len(called[o]) < Len(snapshot[o])
    <2>1. /\ ToCall(o) \in Seq(Entries) /\ ToCall(o) # <<>>
          /\ Len(ToCall(o)) = Len(snapshot[o]) - Len(called[o])
          /\ ToCall(o)[1] = snapshot[o][Len(called[o]) + 1]
      BY <1>2, ToCallProperties
    <2>2. next = ToCall(o)[1] /\ next \in Entries /\ Len(ToCall(o)) # 0
      BY <1>1, <2>1
    <2>3. Len(called[o]) \in Nat /\ Len(snapshot[o]) \in Nat
      BY <1>3
    <2> QED BY <2>1, <2>2, <2>3, <1>3
  <1>5. /\ Append(called[o], next) \in Seq(Entries)
        /\ Len(Append(called[o], next)) = Len(called[o]) + 1
        /\ \A i \in 1..Len(called[o]) : Append(called[o], next)[i] = called[o][i]
        /\ Append(called[o], next)[Len(called[o]) + 1] = next
    BY ONLY <1>3, <1>4, AppendProperties
  <1>6. /\ called'[o] = Append(called[o], next)
        /\ \A p \in Ids \ {o} : called'[p] = called[p]
    BY <1>2 DEF HandlerInv, HandlerTypes
  <1>7. HandlerTypes'
    BY <1>2, <1>5 DEF HandlerInv, HandlerTypes
  <1>8. ASSUME NEW p \in Ids PROVE Registry(p)' /\ Delivery(p)'
    <2>1. Registry(p)'
      BY <1>2 DEF HandlerInv, Registry
    <2>2. CASE p = o
      <3>1. Len(called'[o]) <= Len(snapshot[o])
        BY <1>3, <1>4, <1>5, <1>6
      <3>2. ASSUME NEW i \in 1..Len(called'[o]) PROVE called'[o][i] = snapshot[o][i]
        <4>1. i \in 1..Len(called[o]) \/ i = Len(called[o]) + 1
          BY <1>3, <1>5, <1>6
        <4>2. \A j \in 1..Len(called[o]) : called[o][j] = snapshot[o][j]
          BY DEF HandlerInv, Delivery
        <4> QED BY <4>1, <4>2, <1>4, <1>5, <1>6
      <3> QED BY <2>1, <2>2, <3>1, <3>2, <1>2 DEF Delivery, HandlerInv
    <2>3. CASE p # o
      BY <2>1, <2>3, <1>2, <1>6 DEF Delivery, HandlerInv
    <2> QED BY <2>2, <2>3
  <1> QED BY <1>7, <1>8 DEF HandlerInv

LEMMA SameHandlers ==
  ASSUME HandlerInv, UNCHANGED <<handlers, snapshot, called>>, firing' \in [Ids -> BOOLEAN]
  PROVE  HandlerInv'
  <1>1. UNCHANGED <<registry, installs, snapshot, called>>
    BY DEF handlers
  <1> QED BY <1>1 DEF HandlerInv, HandlerTypes, Registry, Delivery

LEMMA HandlerStep == TableInv /\ HandlerInv /\ [Next]_vars => HandlerInv'
  <1> SUFFICES ASSUME TableInv, HandlerInv, [Next]_vars PROVE HandlerInv'
    OBVIOUS
  <1>1. firing \in [Ids -> BOOLEAN]
    BY DEF HandlerInv, HandlerTypes
  <1>2. CASE UNCHANGED <<handlers, deliveries>>
    BY <1>1, <1>2, SameHandlers DEF deliveries
  <1>3. ASSUME NEW u \in Users, NEW k, NEW b, NEW i, NEW begin, NEW here,
               Make(u, k, b, i, begin, here)
        PROVE  HandlerInv'
    BY <1>2, <1>3 DEF Make
  <1>4. ASSUME NEW u \in Users, OpenResourceManager(u) \/ OpenEvent(u) PROVE HandlerInv'
    BY <1>3, <1>4 DEF OpenResourceManager, OpenEvent
  <1>5. ASSUME NEW u \in Users, NEW b \in Boards, OpenIntfc(u, b) \/ OpenInstr(u, b)
        PROVE  HandlerInv'
    BY <1>3, <1>5 DEF OpenIntfc, OpenInstr
  <1>6. ASSUME NEW u \in Users, Setup(u) \/ Store(u) \/ Shut(u) PROVE HandlerInv'
    BY <1>2, <1>6 DEF Setup, Store, Shut
  <1>7. ASSUME NEW u \in Users, NEW h \in Handles, Draw(u, h) \/ CloseOther(u, h) \/ CloseIntfc(u, h)
        PROVE  HandlerInv'
    BY <1>2, <1>7 DEF Draw, CloseOther, CloseIntfc
  <1>8. ASSUME NEW o \in Ids, FireEnds(o) PROVE HandlerInv'
    BY <1>1, <1>8, SameHandlers DEF FireEnds
  <1>9. CASE UNCHANGED vars
    BY <1>2, <1>9 DEF vars
  <1> QED BY <1>4, <1>5, <1>6, <1>7, <1>8, <1>9, InstallInv, UninstallInv, FireInv,
             CallHandlerInv DEF Next

(* A handler installed before an event and not uninstalled until its       *)
(* delivery ends is called exactly once (fire of events.py), whatever other*)
(* threads install and uninstall while the handlers are called.            *)
THEOREM Staying_handlers_called == Spec => []StayingHandlersCalled
  <1>1. HandlerInv => StayingHandlersCalled
    <2> SUFFICES ASSUME HandlerInv, NEW o \in Ids, ToCall(o) = <<>>,
                        NEW entry \in ToSet(snapshot[o])
                 PROVE  Cardinality({i \in DOMAIN called[o] : called[o][i] = entry}) = 1
      BY DEF StayingHandlersCalled
    <2>1. /\ snapshot[o] \in Seq(Entries) /\ called[o] \in Seq(Entries)
          /\ Distinct(snapshot[o])
          /\ \A i \in 1..Len(called[o]) : called[o][i] = snapshot[o][i]
      BY DEF HandlerInv, HandlerTypes, Delivery
    <2>2. Len(called[o]) = Len(snapshot[o])
      <3>1. Len(<<>>) = Len(snapshot[o]) - Len(called[o])
        BY ToCallProperties
      <3>2. Len(snapshot[o]) \in Nat /\ Len(called[o]) \in Nat /\ Len(<<>>) = 0
        BY <2>1
      <3> QED BY ONLY <3>1, <3>2
    <2>3. DOMAIN called[o] = 1..Len(snapshot[o]) /\ DOMAIN snapshot[o] = 1..Len(snapshot[o])
      BY <2>1, <2>2
    <2>4. PICK k \in 1..Len(snapshot[o]) : entry = snapshot[o][k]
      BY <2>3 DEF ToSet
    <2>5. \A i \in DOMAIN called[o] : called[o][i] = entry <=> i = k
      BY <2>1, <2>2, <2>3, <2>4 DEF Distinct
    <2>6. {i \in DOMAIN called[o] : called[o][i] = entry} = {k}
      BY <2>3, <2>4, <2>5
    <2> QED BY <2>6, FS_Singleton
  <1> QED BY <1>1, InitHandlers, HandlerStep, Table_holds, PTL DEF Spec

-----------------------------------------------------------------------------
(* EventQueue: Inv is inductive for any threads, event types and number of *)
(* puts, and every step of the queue is a step of the mailbox.             *)
(* The initial state satisfies the invariant: the deque is empty and       *)
(* nobody waits.                                                           *)
LEMMA QueueInit == QInit => Inv
  <1> SUFFICES ASSUME QInit PROVE Inv
    OBVIOUS
  <1>1. TypeOK
    BY DEF QInit, TypeOK, Calls, Modes
  <1>2. NoLostWakeup /\ Numbered
    BY DEF QInit, NoLostWakeup, Numbered
  <1> QED BY <1>1, <1>2 DEF Inv

(* put() keeps the invariant: it wakes every waiter, so none is left to    *)
(* sleep over the new context, and the context gets an unused number.      *)
LEMMA PutInv ==
  ASSUME Inv, NEW t \in Types, Put(t)
  PROVE  Inv'
  <1> DEFINE new == [no |-> puts + 1, type |-> t]
  <1>1. puts \in Nat /\ new \in Contexts /\ deque \subseteq Contexts
    BY DEF Inv, TypeOK, Contexts
  <1>2. TypeOK'
    BY <1>1 DEF Inv, TypeOK, Put, Woken
  <1>3. NoLostWakeup'
    BY DEF Inv, TypeOK, NoLostWakeup, Put, Woken
  <1>4. Numbered'
    BY <1>1 DEF Inv, Numbered, Put, Contexts
  <1> QED BY <1>2, <1>3, <1>4 DEF Inv

(* A step of a waiting thread keeps the invariant: contexts only leave the *)
(* deque, and a thread goes to sleep only after a scan without a match.    *)
LEMMA WaiterInv ==
  ASSUME Inv, NEW w \in Waiters,
         \/ \E t \in Types \cup {AnyType}, mode \in Modes : GetMatching(w, t, mode)
         \/ Take(w)
         \/ ReturnNone(w)
         \/ Wait(w)
         \/ Deadline(w)
         \/ WaitTimesOut(w)
  PROVE  Inv'
  <1> USE DEF Inv, TypeOK, NoLostWakeup, Numbered, Found, Matches
  <1>1. CASE \E t \in Types \cup {AnyType}, mode \in Modes : GetMatching(w, t, mode)
    BY <1>1 DEF GetMatching, Calls
  <1>2. CASE Take(w)
    BY <1>2 DEF Take
  <1>3. CASE ReturnNone(w)
    BY <1>3 DEF ReturnNone
  <1>4. CASE Wait(w)
    BY <1>4 DEF Wait
  <1>5. CASE Deadline(w)
    BY <1>5 DEF Deadline
  <1>6. CASE WaitTimesOut(w)
    BY <1>6 DEF WaitTimesOut
  <1> QED BY <1>1, <1>2, <1>3, <1>4, <1>5, <1>6

(* Every step keeps the invariant.                                         *)
LEMMA QueueNext == Inv /\ [QNext]_qvars => Inv'
  <1> SUFFICES ASSUME Inv, [QNext]_qvars PROVE Inv'
    OBVIOUS
  <1>1. CASE \E t \in Types : Put(t)
    BY <1>1, PutInv
  <1>2. CASE \E t \in Types \cup {AnyType} : DiscardAll(t)
    BY <1>2 DEF DiscardAll, Inv, TypeOK, NoLostWakeup, Numbered, Found, Matches
  <1>3. CASE \E w \in Waiters :
               \/ \E t \in Types \cup {AnyType}, mode \in Modes : GetMatching(w, t, mode)
               \/ Take(w) \/ ReturnNone(w) \/ Wait(w) \/ Deadline(w) \/ WaitTimesOut(w)
    BY <1>3, WaiterInv
  <1>4. CASE UNCHANGED qvars
    BY <1>4 DEF qvars, Inv, TypeOK, NoLostWakeup, Numbered, Found, Matches
  <1> QED BY <1>1, <1>2, <1>3, <1>4 DEF QNext

(* In every reachable state, the invariant holds: types, unique numbers    *)
(* and, above all, no thread sleeping over a context it waits for.         *)
THEOREM Queue_safety == QSpec => []Inv
  <1> QED BY QueueInit, QueueNext, PTL DEF QSpec

(* No lost wakeup in EventQueue.get_matching, for any number of threads.   *)
THEOREM LostWakeupFree == QSpec => []NoLostWakeup
  <1>1. Inv => NoLostWakeup
    BY DEF Inv
  <1> QED BY <1>1, Queue_safety, PTL

-----------------------------------------------------------------------------
(* The mailbox is served: the safety part of the refinement.               *)

(* The open calls of the mailbox only change with at and call.             *)
LEMMA AskedUnchanged ==
  ASSUME UNCHANGED <<at, call>>
  PROVE  UNCHANGED asked
  BY DEF asked

(* A call that returns is closed in the mailbox.                           *)
LEMMA ReturnAsks ==
  ASSUME Inv, NEW w \in Waiters, at[w] = "scan",
         at' = [at EXCEPT ![w] = "idle"], call' = call
  PROVE  /\ asked[w] = call[w] /\ asked[w] # None
         /\ asked' = [asked EXCEPT ![w] = None]
  <1>1. at \in [Waiters -> {"idle", "scan", "waiting"}] /\ call[w] \in Calls
    BY DEF Inv, TypeOK
  <1>2. call[w] # None
    BY <1>1, QueueAssumption
  <1> QED BY <1>1, <1>2 DEF asked

(* Every step of the queue is a step of the mailbox or leaves it alone.    *)
LEMMA StepRefines ==
  ASSUME Inv, [QNext]_qvars
  PROVE  [Mailbox!MNext]_(Mailbox!mvars)
  <1> USE DEF Mailbox!MNext
  <1>1. ASSUME NEW t \in Types, Put(t) PROVE Mailbox!Post(t)
    <2>1. asked' = asked
      BY <1>1 DEF Put, Woken, Inv, TypeOK, asked
    <2> QED BY <1>1, <2>1 DEF Put, Mailbox!Post
  <1>2. ASSUME NEW t \in Types \cup {AnyType}, DiscardAll(t) PROVE Mailbox!Forget(t)
    BY <1>2, AskedUnchanged DEF DiscardAll, Mailbox!Forget
  <1>3. ASSUME NEW w \in Waiters, NEW t \in Types \cup {AnyType}, NEW mode \in Modes,
               GetMatching(w, t, mode)
        PROVE  Mailbox!Ask(w, [type |-> t, mode |-> mode])
    BY <1>3 DEF GetMatching, Mailbox!Ask, Inv, TypeOK, asked
  <1>4. ASSUME NEW w \in Waiters, Take(w) PROVE Mailbox!Deliver(w)
    <2>1. /\ asked[w] = call[w] /\ asked[w] # None
          /\ asked' = [asked EXCEPT ![w] = None]
      BY <1>4, ReturnAsks DEF Take
    <2>2. PICK c \in deque : /\ FirstMatch(w, c)
                             /\ deque' = deque \ {c}
                             /\ got' = [got EXCEPT ![w] = c]
      BY <1>4 DEF Take
    <2>3. \A d \in deque : Mailbox!Wanted(asked[w], d) <=> Matches(w, d)
      BY <2>1 DEF Mailbox!Wanted, Matches
    <2>4. puts' = puts
      BY <1>4 DEF Take
    <2> QED BY <2>1, <2>2, <2>3, <2>4 DEF FirstMatch, Mailbox!Deliver
  <1>5. ASSUME NEW w \in Waiters, ReturnNone(w) PROVE Mailbox!GiveUp(w)
    <2>1. /\ asked[w] = call[w] /\ asked[w] # None
          /\ asked' = [asked EXCEPT ![w] = None]
      BY <1>5, ReturnAsks DEF ReturnNone
    <2>2. ~ \E c \in deque : Mailbox!Wanted(asked[w], c)
      BY <1>5, <2>1 DEF ReturnNone, Found, Matches, Mailbox!Wanted
    <2>3. asked[w].mode # "forever"
      BY <1>5, <2>1 DEF ReturnNone, OutOfTime
    <2>4. UNCHANGED <<deque, puts, got>>
      BY <1>5 DEF ReturnNone
    <2> QED BY <2>1, <2>2, <2>3, <2>4 DEF Mailbox!GiveUp
  <1>6. ASSUME NEW w \in Waiters, Wait(w) \/ Deadline(w) \/ WaitTimesOut(w)
        PROVE  UNCHANGED Mailbox!mvars
    BY <1>6 DEF Wait, Deadline, WaitTimesOut, Inv, TypeOK, Mailbox!mvars, asked
  <1>7. CASE UNCHANGED qvars
    BY <1>7 DEF qvars, Mailbox!mvars, asked
  <1>8. Calls = Mailbox!Calls
    BY DEF Calls, Modes, Mailbox!Calls, Mailbox!Modes
  <1>9. \A t \in Types \cup {AnyType}, mode \in Modes : [type |-> t, mode |-> mode] \in Calls
    BY DEF Calls
  <1>10. CASE \E w \in Waiters :
                \/ \E t \in Types \cup {AnyType}, mode \in Modes : GetMatching(w, t, mode)
                \/ Take(w) \/ ReturnNone(w) \/ Wait(w) \/ Deadline(w) \/ WaitTimesOut(w)
    <2>1. PICK w \in Waiters :
                \/ \E t \in Types \cup {AnyType}, mode \in Modes : GetMatching(w, t, mode)
                \/ Take(w) \/ ReturnNone(w) \/ Wait(w) \/ Deadline(w) \/ WaitTimesOut(w)
      BY <1>10
    <2>2. CASE \E t \in Types \cup {AnyType}, mode \in Modes : GetMatching(w, t, mode)
      BY <2>2, <1>3, <1>8, <1>9
    <2>3. CASE Take(w) \/ ReturnNone(w)
      BY <2>3, <1>4, <1>5
    <2>4. CASE Wait(w) \/ Deadline(w) \/ WaitTimesOut(w)
      BY <2>4, <1>6
    <2> QED BY <2>1, <2>2, <2>3, <2>4
  <1>11. CASE \E t \in Types : Put(t)
    BY <1>11, <1>1
  <1>12. CASE \E t \in Types \cup {AnyType} : DiscardAll(t)
    BY <1>12, <1>2
  <1> QED BY <1>7, <1>10, <1>11, <1>12 DEF QNext

(* The queue does what the mailbox may do: each context goes to one call,  *)
(* the oldest first, and a call returns None only when nothing matches.    *)
THEOREM Refinement == QSpec => Mailbox!MInit /\ [][Mailbox!MNext]_(Mailbox!mvars)
  <1>1. QInit => Mailbox!MInit
    BY DEF QInit, Mailbox!MInit, asked
  <1> QED BY <1>1, StepRefines, Queue_safety, PTL DEF QSpec
=============================================================================

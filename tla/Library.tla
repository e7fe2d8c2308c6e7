------------------------------ MODULE Library -------------------------------
(***************************************************************************)
(* What the sessions of a process share: the session table of PyVisaLibrary*)
(* (highlevel.py: open, close, open_default_resource_manager, _register),  *)
(* the table of Prologix interfaces (prologix.py: boards) and the handlers *)
(* installed on a session (events.py: HandlerRegistry), used by several    *)
(* application threads and the threads that deliver events.                *)
(*                                                                         *)
(* Sessions are numbered in the order they are made.  A session is a       *)
(* resource manager ("rm"), a Prologix interface ("intfc"), an instrument  *)
(* behind one ("instr"), or a session that has events ("event").           *)
(***************************************************************************)
EXTENDS Naturals, Sequences, FiniteSets, SequencesExt

CONSTANTS Users,                \* threads of the application
          Handles, NoHandle,    \* what random.randint() can draw; none
          Boards,               \* board numbers of Prologix interfaces
          Handlers, Args, NoArg,    \* handlers and user handles; None
          MaxSessions, MaxInstalls, MaxEvents   \* bounds

ASSUME ConstantsAssumption ==
    /\ MaxSessions \in Nat /\ MaxInstalls \in Nat /\ MaxEvents \in Nat
    /\ NoArg \notin Args /\ NoHandle \notin Handles

Ids == 1..MaxSessions

VARIABLES
    sessions,       \* self.sessions: 0 is a handle not in the table
    made,           \* number of sessions made
    kind, board, interface,     \* of each session
    state,          \* state[o]: "none", "setup", "failed", "open", "closed"
    handleOf,       \* _session_handle
    boards,         \* _PrologixIntfcSession.boards
    pc, mine, drawn,            \* of each user: its session and random number
    registry,       \* registry[o]: the handlers on a session
    installs,
    firing,         \* firing[o]: its thread is in fire()
    snapshot,       \* snapshot[o]: the list fire() goes through
    called,         \* called[o]: the handlers this fire() has called
    events,
    overlap,        \* history: two threads drew one number at the same time
    misused         \* history: a second interface on a board in use, or a
                    \* second close of one

table == <<sessions, handleOf>>
objects == <<made, kind, board, interface, state>>
users == <<pc, mine, drawn>>
handlers == <<registry, installs>>
deliveries == <<firing, snapshot, called, events>>
vars == <<table, objects, boards, users, handlers, deliveries, overlap, misused>>

Init ==
    /\ sessions = [h \in Handles |-> 0] /\ handleOf = [o \in Ids |-> NoHandle]
    /\ made = 0
    /\ kind = [o \in Ids |-> "none"] /\ board = [o \in Ids |-> 0]
    /\ interface = [o \in Ids |-> 0] /\ state = [o \in Ids |-> "none"]
    /\ boards = [b \in Boards |-> 0]
    /\ pc = [u \in Users |-> "idle"]
    /\ mine = [u \in Users |-> 0] /\ drawn = [u \in Users |-> NoHandle]
    /\ registry = [o \in Ids |-> <<>>] /\ installs = 0
    /\ firing = [o \in Ids |-> FALSE]
    /\ snapshot = [o \in Ids |-> <<>>] /\ called = [o \in Ids |-> <<>>]
    /\ events = 0
    /\ overlap = FALSE /\ misused = FALSE

-----------------------------------------------------------------------------
At(u, here) == pc[u] = here
Goto(u, there) == pc' = [pc EXCEPT ![u] = there]

(* open() and open_default_resource_manager() make a session.  An open     *)
(* that fails at once makes none; `here` is where the user goes on.        *)
Make(u, k, b, i, begin, here) ==
    /\ At(u, "idle") /\ made < MaxSessions
    /\ made' = made + 1
    /\ kind' = [kind EXCEPT ![made + 1] = k]
    /\ board' = [board EXCEPT ![made + 1] = b]
    /\ interface' = [interface EXCEPT ![made + 1] = i]
    /\ state' = [state EXCEPT ![made + 1] = begin]
    /\ mine' = [mine EXCEPT ![u] = made + 1]
    /\ Goto(u, here)
    /\ UNCHANGED <<table, drawn, handlers, deliveries, overlap>>

OpenResourceManager(u) == Make(u, "rm", 0, 0, "open", "draw") /\ UNCHANGED <<boards, misused>>

OpenEvent(u) == Make(u, "event", 0, 0, "open", "draw") /\ UNCHANGED <<boards, misused>>

(* A Prologix interface enters itself under its board number as soon as it *)
(* is connected ...                                                        *)
OpenIntfc(u, b) ==
    /\ Make(u, "intfc", b, 0, "setup", "setup")
    /\ boards' = [boards EXCEPT ![b] = made + 1]
    /\ misused' = (misused \/ boards[b] # 0)

(* ... and then sets the adapter up, which may raise.                      *)
Setup(u) ==
    /\ At(u, "setup")
    /\ \/ state' = [state EXCEPT ![mine[u]] = "open"] /\ Goto(u, "draw") /\ UNCHANGED misused
       \/ state' = [state EXCEPT ![mine[u]] = "failed"] /\ Goto(u, "idle") /\ misused' = TRUE
    /\ UNCHANGED <<table, made, kind, board, interface, boards, mine, drawn, handlers, deliveries, overlap>>

(* An instrument on a board that has a Prologix interface.                 *)
OpenInstr(u, b) ==
    /\ boards[b] # 0
    /\ Make(u, "instr", b, boards[b], "open", "draw")
    /\ UNCHANGED <<boards, misused>>

(* A plausible slip: the number may be in use.                             *)
DrawAny(u, h) == At(u, "draw") /\ h \in Handles

DrawFree(u, h) == At(u, "draw") /\ sessions[h] = 0

(* _register draws numbers until one is not in the table, and puts the     *)
(* session there in a second step.                                         *)
Draw(u, h) ==
    /\ DrawFree(u, h)
    /\ drawn' = [drawn EXCEPT ![u] = h]
    /\ Goto(u, "store")
    /\ overlap' = (overlap \/ \E v \in Users \ {u} : At(v, "store") /\ drawn[v] = h)
    /\ UNCHANGED <<table, objects, boards, mine, handlers, deliveries, misused>>

Store(u) ==
    /\ At(u, "store")
    /\ sessions' = [sessions EXCEPT ![drawn[u]] = mine[u]]
    /\ handleOf' = [handleOf EXCEPT ![mine[u]] = drawn[u]]
    /\ mine' = [mine EXCEPT ![u] = 0] /\ drawn' = [drawn EXCEPT ![u] = NoHandle]
    /\ Goto(u, "idle")
    /\ UNCHANGED <<objects, boards, handlers, deliveries, overlap, misused>>

-----------------------------------------------------------------------------
(* close() looks the handle up and closes the session, whose handle stays  *)
(* in the table: the library itself is not closed, and other sessions end  *)
(* their connection.                                                       *)
Registered(h) == sessions[h] # 0

CloseOther(u, h) ==
    /\ At(u, "idle") /\ Registered(h)
    /\ \/ kind[sessions[h]] = "event"
       \/ kind[sessions[h]] = "instr" /\ state[sessions[h]] = "open"
            /\ state[interface[sessions[h]]] # "closed"
    /\ state' = [state EXCEPT ![sessions[h]] = "closed"]
    /\ UNCHANGED <<table, made, kind, board, interface, boards, users, handlers, deliveries, overlap, misused>>

(* A plausible slip: the interface stays in the table of boards.           *)
KeepBoard(b) == boards' = [boards EXCEPT ![b] = @]

(* Whatever session is there, an entry of the table of boards is removed.  *)
PopBoard(b) == boards' = [boards EXCEPT ![b] = 0]

CloseIntfc(u, h) ==
    /\ At(u, "idle") /\ Registered(h) /\ kind[sessions[h]] = "intfc"
    /\ PopBoard(board[sessions[h]])
    /\ mine' = [mine EXCEPT ![u] = sessions[h]]
    /\ misused' = (misused \/ boards[board[sessions[h]]] # sessions[h])
    /\ Goto(u, "shut")
    /\ UNCHANGED <<table, objects, drawn, handlers, deliveries, overlap>>

Shut(u) ==
    /\ At(u, "shut")
    /\ state' = [state EXCEPT ![mine[u]] = "closed"]
    /\ mine' = [mine EXCEPT ![u] = 0]
    /\ Goto(u, "idle")
    /\ UNCHANGED <<table, made, kind, board, interface, boards, drawn, handlers, deliveries, overlap, misused>>

-----------------------------------------------------------------------------
Entry(f, a) == [handler |-> f, arg |-> a, no |-> installs + 1]

(* install_handler: entries are numbered to tell equal ones apart.         *)
Install(u, h, f, a) ==
    /\ At(u, "idle") /\ Registered(h) /\ kind[sessions[h]] = "event"
    /\ installs < MaxInstalls
    /\ installs' = installs + 1
    /\ registry' = [registry EXCEPT ![sessions[h]] = Append(@, Entry(f, a))]
    /\ UNCHANGED <<table, objects, boards, users, deliveries, overlap, misused>>

(* An entry of the handler with this user handle, or with any.             *)
Fits(entry, f, a) == entry.handler = f /\ (a = NoArg \/ entry.arg = a)

IsFirst(i, entries, f, a) ==
    /\ Fits(entries[i], f, a)
    /\ \A j \in 1..i-1 : ~ Fits(entries[j], f, a)

(* uninstall_handler removes the first entry that fits.                    *)
Uninstall(u, h, f, a) ==
    /\ At(u, "idle") /\ Registered(h)
    /\ LET entries == registry[sessions[h]]
       IN  \E i \in DOMAIN entries :
              /\ IsFirst(i, entries, f, a)
              /\ registry' = [registry EXCEPT ![sessions[h]] = RemoveAt(@, i)]
    /\ UNCHANGED <<table, objects, boards, users, installs, deliveries, overlap, misused>>

(* fire() copies the handlers under the lock and calls them without it; an *)
(* exception of a handler is only warned about.                            *)
Fire(o) ==
    /\ kind[o] = "event" /\ handleOf[o] # NoHandle /\ ~ firing[o]
    /\ events < MaxEvents
    /\ events' = events + 1
    /\ firing' = [firing EXCEPT ![o] = TRUE]
    /\ snapshot' = [snapshot EXCEPT ![o] = registry[o]]
    /\ called' = [called EXCEPT ![o] = <<>>]
    /\ UNCHANGED <<table, objects, boards, users, handlers, overlap, misused>>

(* A plausible slip: the live list is gone through.                        *)
ToCallLive(o) == SubSeq(registry[o], Len(called[o]) + 1, Len(registry[o]))

ToCall(o) == SubSeq(snapshot[o], Len(called[o]) + 1, Len(snapshot[o]))

CallHandler(o) ==
    /\ firing[o] /\ ToCall(o) # <<>>
    /\ called' = [called EXCEPT ![o] = Append(@, Head(ToCall(o)))]
    /\ UNCHANGED <<table, objects, boards, users, handlers, firing, snapshot, events, overlap, misused>>

FireEnds(o) ==
    /\ firing[o] /\ ToCall(o) = <<>>
    /\ firing' = [firing EXCEPT ![o] = FALSE]
    /\ UNCHANGED <<table, objects, boards, users, handlers, snapshot, called, events, overlap, misused>>

-----------------------------------------------------------------------------
Next ==
    \/ \E u \in Users :
          \/ OpenResourceManager(u) \/ OpenEvent(u)
          \/ \E b \in Boards : OpenIntfc(u, b) \/ OpenInstr(u, b)
          \/ Setup(u) \/ Store(u) \/ Shut(u)
          \/ \E h \in Handles :
                \/ Draw(u, h) \/ CloseOther(u, h) \/ CloseIntfc(u, h)
                \/ \E f \in Handlers :
                      \/ \E a \in Args : Install(u, h, f, a)
                      \/ \E a \in Args \cup {NoArg} : Uninstall(u, h, f, a)
    \/ \E o \in Ids : Fire(o) \/ CallHandler(o) \/ FireEnds(o)

Spec == Init /\ [][Next]_vars

-----------------------------------------------------------------------------
(* A handle goes on naming the session it was given to, whatever other     *)
(* threads open and close, unless two threads drew the same number between *)
(* test and store.                                                         *)
HandleNamesItsSession ==
    ~ overlap => \A o \in Ids : handleOf[o] # NoHandle => sessions[handleOf[o]] = o

(* An open Prologix interface is found under its board and a closed one is *)
(* not, as long as a board has one interface at a time, set up without an  *)
(* error, that is closed once.                                             *)
BoardFinds ==
    ~ misused =>
        /\ \A b \in Boards : boards[b] # 0 => state[boards[b]] # "closed"
        /\ \A o \in Ids :
              (kind[o] = "intfc" /\ state[o] = "open" /\ ~ \E u \in Users : At(u, "shut") /\ mine[u] = o)
                  => boards[board[o]] = o

(* A handler that was installed before an event and is still installed     *)
(* when its delivery ends has been called exactly once, whatever is        *)
(* installed and uninstalled meanwhile.                                    *)
StayingHandlersCalled ==
    \A o \in Ids : (firing[o] /\ ToCall(o) = <<>>) =>
        \A entry \in ToSet(snapshot[o]) \cap ToSet(registry[o]) :
            Cardinality({i \in DOMAIN called[o] : called[o][i] = entry}) = 1
=============================================================================

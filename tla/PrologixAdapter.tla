-------------------------- MODULE PrologixAdapter ---------------------------
(***************************************************************************)
(* GPIB instruments behind one Prologix adapter (prologix.py):             *)
(* PrologixInstrSession.read, write, read_stb, clear, assert_trigger and   *)
(* flush over the one PrologixTCPIPIntfcSession they share, with its lock, *)
(* its cached GPIB address and its plus_plus_read flag.  Each instrument   *)
(* session is used by a thread of its own.                                 *)
(*                                                                         *)
(* The adapter is external: it executes what it is sent in order, "++addr" *)
(* selects an instrument, "++read eoi" sends the response of the selected  *)
(* one, if it has any, "++spoll" a line with its status byte.  A query     *)
(* replaces a response that was not fetched.                               *)
(***************************************************************************)
EXTENDS SocketSession

CONSTANTS Instruments,      \* the sessions, and the addresses, of instruments
          Nobody,           \* the lock is free; no instrument is addressed
          LineLength,       \* units in a line of a response
          ResponseLength,   \* units in a response
          Counts,           \* values of read(count)
          MaxCalls          \* bound on the calls of the application

ASSUME ConstantsAssumption ==
    /\ Nobody \notin Instruments
    /\ LineLength \in Nat \ {0} /\ ResponseLength \in Nat \ {0}
    /\ Counts \subseteq Nat \ {0}
    /\ MaxCalls \in Nat

Line == 32      \* the count of read_stb: more than a response

VARIABLES
    \* the interface session
    lock,           \* intfc_lock
    gpibAddr,       \* _gpib_addr
    plusPlusRead,   \* plus_plus_read
    \* the instrument sessions
    pc, op, calls,
    wrote,          \* wrote[i]: number of the last write of i
    clean,          \* clean[i]: when the call of i was sent only what i had
                    \* asked for was under way, and nobody has flushed since
    status, data,   \* status[i], data[i]: what the last read of i returned
    returned,       \* history: units that clean reads have returned to i
                    \* since its last write
    \* adapter and instruments
    commands,       \* sent and not yet executed
    selected,       \* the instrument the adapter has addressed
    answer          \* answer[i]: the response instrument i has to give

socket == <<pending, arrived, termEn, suppressEnd, chunk, cut>>
intfc == <<lock, gpibAddr, plusPlusRead>>
sessions == <<pc, op, calls, wrote, clean, status, data, returned>>
adapter == <<commands, selected, answer>>
vars == <<socket, intfc, sessions, adapter>>

Unit(i, n, k) == [from |-> i, no |-> n, k |-> k, term |-> k % LineLength = 0]
StatusUnit(i) == [from |-> i, no |-> 0, k |-> 0, term |-> TRUE]
Response(i, n) == [k \in 1..ResponseLength |-> Unit(i, n, k)]

(* The interface session enables the termination character when it opens;  *)
(* whether END is suppressed is left to its user.                          *)
Init ==
    /\ pending = <<>> /\ arrived = <<>> /\ chunk = <<>> /\ cut = NoCut
    /\ termEn = TRUE /\ suppressEnd \in BOOLEAN
    /\ lock = Nobody /\ gpibAddr = Nobody /\ plusPlusRead = TRUE
    /\ pc = [i \in Instruments |-> "idle"]
    /\ op = [i \in Instruments |-> [name |-> "none", count |-> 0]]
    /\ calls = 0
    /\ wrote = [i \in Instruments |-> 0]
    /\ clean = [i \in Instruments |-> FALSE]
    /\ status = [i \in Instruments |-> "none"]
    /\ data = [i \in Instruments |-> <<>>]
    /\ returned = [i \in Instruments |-> 0]
    /\ commands = <<>> /\ selected = Nobody
    /\ answer = [i \in Instruments |-> <<>>]

-----------------------------------------------------------------------------
At(i, here) == pc[i] = here
Goto(i, there) == pc' = [pc EXCEPT ![i] = there]

Command(i, name, no) == [name |-> name, by |-> i, no |-> no]
Send(command) == commands' = Append(commands, command)

Begin(i, name, count) ==
    /\ At(i, "idle") /\ calls < MaxCalls
    /\ calls' = calls + 1
    /\ op' = [op EXCEPT ![i] = [name |-> name, count |-> count]]
    /\ status' = [status EXCEPT ![i] = "none"]
    /\ data' = [data EXCEPT ![i] = <<>>]
    /\ Goto(i, "lock")
    /\ UNCHANGED <<socket, intfc, wrote, clean, returned, adapter>>

(* A plausible slip: the call does not wait for the lock.                  *)
LockNoWait(i) ==
    /\ At(i, "lock")
    /\ lock' = i
    /\ Goto(i, "address")
    /\ UNCHANGED <<socket, gpibAddr, plusPlusRead, op, calls, wrote, clean, status, data, returned, adapter>>

(* with self.interface.intfc_lock                                          *)
Lock(i) ==
    /\ At(i, "lock") /\ lock = Nobody
    /\ lock' = i
    /\ Goto(i, "address")
    /\ UNCHANGED <<socket, gpibAddr, plusPlusRead, op, calls, wrote, clean, status, data, returned, adapter>>

Then(name) == CASE name = "read" -> "receive"
                [] name = "status" -> "poll"
                [] OTHER -> "send"

Quiet == pending = <<>> /\ arrived = <<>> /\ commands = <<>>

(* A read that goes on where the last call of the same instrument stopped. *)
Continues(i) == clean[i] /\ gpibAddr = i /\ op[i].name = "read"

(* A plausible slip: the address is cached but the command not sent.       *)
AddressOnce(i) ==
    /\ At(i, "address")
    /\ clean' = [clean EXCEPT ![i] = Quiet \/ Continues(i)]
    /\ gpibAddr' = i
    /\ IF gpibAddr # Nobody THEN UNCHANGED commands ELSE Send(Command(i, "addr", 0))
    /\ Goto(i, Then(op[i].name))
    /\ UNCHANGED <<socket, lock, plusPlusRead, op, calls, wrote, status, data, returned, selected, answer>>

(* The gpib_addr setter sends "++addr" only when the address changes.      *)
Address(i) ==
    /\ At(i, "address")
    /\ clean' = [clean EXCEPT ![i] = Quiet \/ Continues(i)]
    /\ gpibAddr' = i
    /\ IF gpibAddr = i THEN UNCHANGED commands ELSE Send(Command(i, "addr", 0))
    /\ Goto(i, Then(op[i].name))
    /\ UNCHANGED <<socket, lock, plusPlusRead, op, calls, wrote, status, data, returned, selected, answer>>

Release(i) == lock' = Nobody /\ Goto(i, "idle")

(* write(): whatever was not read is stale and thrown away.                *)
Write(i) ==
    /\ At(i, "send") /\ op[i].name = "write"
    /\ SocketClear
    /\ plusPlusRead' = TRUE
    /\ wrote' = [wrote EXCEPT ![i] = calls]
    /\ returned' = [returned EXCEPT ![i] = 0]
    /\ Send(Command(i, "data", calls))
    /\ Release(i)
    /\ UNCHANGED <<termEn, suppressEnd, chunk, cut, gpibAddr, op, calls, clean, status, data, selected, answer>>

(* clear() and assert_trigger(): write_oob, which clears nothing.          *)
WriteOob(i) ==
    /\ At(i, "send") /\ op[i].name \in {"clr", "trg"}
    /\ Send(Command(i, op[i].name, 0))
    /\ Release(i)
    /\ UNCHANGED <<socket, gpibAddr, plusPlusRead, op, calls, wrote, clean, status, data, returned, selected, answer>>

(* read_stb() sends "++spoll" and reads.                                   *)
Poll(i) ==
    /\ At(i, "poll")
    /\ Send(Command(i, "spoll", 0))
    /\ Goto(i, "receive")
    /\ UNCHANGED <<socket, intfc, op, calls, wrote, clean, status, data, returned, selected, answer>>

(* read() of the interface asks the adapter to read, once for every write, *)
(* whichever instrument was written to ...                                 *)
PlusPlusRead(i) ==
    /\ At(i, "receive")
    /\ plusPlusRead' = FALSE
    /\ IF plusPlusRead THEN Send(Command(i, "read", 0)) ELSE UNCHANGED commands
    /\ Goto(i, "loop")
    /\ UNCHANGED <<socket, lock, gpibAddr, op, calls, wrote, clean, status, data, returned, selected, answer>>

(* ... and then reads from the socket.                                     *)
Receive(i) ==
    /\ At(i, "loop")
    /\ \/ ReadRecv(op[i].count) \/ ReadExtend
       \/ ReadTests(op[i].count) \/ ReadIndex(op[i].count) \/ ReadCut \/ ReadRest
    /\ UNCHANGED <<termEn, suppressEnd, intfc, sessions, adapter>>

(* The lock is released also when read() raises.                           *)
Return(i) ==
    /\ At(i, "loop")
    /\ ReadReturn
    /\ data' = [data EXCEPT ![i] = cut.out]
    /\ status' = [status EXCEPT ![i] = ReadStatus]
    /\ IF op[i].name = "read"
         THEN /\ returned' = [returned EXCEPT ![i] = IF clean[i] THEN @ + Len(cut.out) ELSE @]
              /\ UNCHANGED clean
         ELSE /\ clean' = [clean EXCEPT ![i] = @ /\ ReadStatus # "timeout"]
              /\ UNCHANGED returned
    /\ Release(i)
    /\ UNCHANGED <<termEn, suppressEnd, gpibAddr, plusPlusRead, op, calls, wrote, adapter>>

(* flush() does not take the lock: it may come in the middle of a read of  *)
(* another instrument.                                                     *)
Flush(i, mask) ==
    /\ At(i, "idle") /\ calls < MaxCalls
    /\ calls' = calls + 1
    /\ SocketFlush(mask)
    /\ clean' = [j \in Instruments |-> clean[j] /\ mask = "flush_write_buffer"]
    /\ UNCHANGED <<termEn, suppressEnd, chunk, cut, intfc, pc, op, wrote, status, data, returned, adapter>>

-----------------------------------------------------------------------------
(* The adapter executes its oldest command.                                *)
Execute ==
    /\ commands # <<>>
    /\ commands' = Tail(commands)
    /\ LET c == Head(commands)
       IN  \/ /\ c.name = "addr"
              /\ selected' = c.by
              /\ UNCHANGED <<answer, arrived>>
           \/ /\ c.name = "data"
              /\ answer' = [answer EXCEPT ![selected] = Response(selected, c.no)]
              /\ UNCHANGED <<selected, arrived>>
           \/ /\ c.name = "clr"
              /\ answer' = [answer EXCEPT ![selected] = <<>>]
              /\ UNCHANGED <<selected, arrived>>
           \/ /\ c.name = "trg"
              /\ UNCHANGED <<selected, answer, arrived>>
           \/ /\ c.name = "read"
              /\ arrived' = arrived \o answer[selected]
              /\ answer' = [answer EXCEPT ![selected] = <<>>]
              /\ UNCHANGED selected
           \/ /\ c.name = "spoll"
              /\ arrived' = Append(arrived, StatusUnit(selected))
              /\ UNCHANGED <<selected, answer>>
    /\ UNCHANGED <<pending, termEn, suppressEnd, chunk, cut, intfc, sessions>>

-----------------------------------------------------------------------------
CallStep(i) ==
    \/ Lock(i) \/ Address(i) \/ Write(i) \/ WriteOob(i) \/ Poll(i)
    \/ PlusPlusRead(i) \/ Receive(i) \/ Return(i)

Next ==
    \/ \E i \in Instruments :
          \/ \E name \in {"write", "clr", "trg"} : Begin(i, name, 0)
          \/ \E n \in Counts : Begin(i, "read", n)
          \/ Begin(i, "status", Line)
          \/ \E mask \in Masks : Flush(i, mask)
          \/ CallStep(i)
    \/ Execute

Spec == Init /\ [][Next]_vars

-----------------------------------------------------------------------------
(* Whatever is sent on behalf of an instrument reaches that instrument:    *)
(* the cached address never disagrees with the adapter's when it matters.  *)
ReachesItsInstrument ==
    [][(Execute /\ Head(commands).name # "addr") => selected = Head(commands).by]_vars

(* Reads return the response to the last write of their own instrument,    *)
(* from the first unit on and one read after the other, although threads   *)
(* of other instruments write, read and poll: unless something that        *)
(* another call did not wait for is still under way, or flush() takes the  *)
(* data away.                                                              *)
ReadsOwnResponse ==
    \A i \in Instruments :
        (clean[i] /\ op[i].name = "read" /\ status[i] # "none") =>
            data[i] = SubSeq(Response(i, wrote[i]), returned[i] - Len(data[i]) + 1, returned[i])

(* read_stb returns the status byte of its instrument, not data, even when *)
(* its read also fetches a response.                                       *)
StatusIsStatus ==
    \A i \in Instruments :
        (clean[i] /\ op[i].name = "status" /\ status[i] = "term") =>
            data[i] = <<StatusUnit(i)>>
=============================================================================

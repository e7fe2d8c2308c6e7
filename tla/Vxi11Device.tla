----------------------------- MODULE Vxi11Device -----------------------------
(***************************************************************************)
(* The device operations of a VXI-11 session (TCPIPInstrVxi11, tcpip.py):  *)
(* read and write, loops of remote calls that divide one timeout among the *)
(* chunks of a message, the operations that are one remote call each, and  *)
(* close; and what becomes of the data and of the device lock when a call  *)
(* is refused, fails or is given up.                                       *)
(*                                                                         *)
(* A remote call is what RpcClient shows it to be: it waits until the      *)
(* connection takes the request, then for the reply, and again, as long as *)
(* before, after each reply to an earlier call that was given up.          *)
(* The device executes its requests in order, the given-up ones too.  It   *)
(* is external, conforms to VXI-11 and has another client, which may lock  *)
(* it.                                                                     *)
(*                                                                         *)
(* Unit k of the response to the message of call c is <<c, k>>; the        *)
(* termination character is the last unit of every line of LineLength      *)
(* units.  Time passes while a call waits for its reply.                   *)
(***************************************************************************)
EXTENDS Naturals, Sequences

CONSTANTS MaxRecv,          \* max_recv_size of the link
          MinTimeout,       \* the 10 ms a device_read asks for at least
          Slack,            \* what the RPC client waits longer than the device
          Timeouts,         \* values of VI_ATTR_TMO_VALUE
          Infinite,         \* VI_TMO_INFINITE
          OtherTimeout,     \* the 4 s of the remaining remote calls
          LineLength,
          Messages,         \* lengths of what write() is given
          Responses,        \* lengths of the responses
          Counts,           \* values of read(count)
          MaxCalls          \* bound on the calls

ASSUME ConstantsAssumption ==
    /\ MaxRecv \in Nat \ {0} /\ LineLength \in Nat \ {0}
    /\ MinTimeout \in Nat \ {0} /\ Slack \in Nat \ {0}
    /\ Timeouts \subseteq Nat /\ Infinite \notin Timeouts /\ OtherTimeout \in Nat
    /\ Messages \subseteq Nat /\ Responses \subseteq Nat \ {0}
    /\ Counts \subseteq Nat /\ MaxCalls \in Nat

VARIABLES
    timeout, termEn, suppressEnd,   \* attributes of the session
    pc, op,
    want, count, readData,          \* read(): its argument, what is missing, read_data
    size, offset,                   \* write(): len(data), offset
    elapsed,                        \* since the read began
    waited, patience,               \* in this wait; the timeout of this remote call
    unsent,                         \* the connection has not taken its request yet
    restarts,                       \* history: how often that of a read began again
    reply,                          \* <<>> or the reply that has arrived
    outcome, data,                  \* how the last call ended, what a read returned
    calls,
    returned,                       \* history: what reads returned of this response
    upset,                          \* history: a request that was sent was given
                                    \* up, or a message left unfinished
    \* the device
    requests,                       \* `live` is FALSE once the call was given up
    unfinished,                     \* units of the message it is receiving
    taken,                          \* history: messages received since this call began
    accepted,                       \* history: units accepted for this write()
    full, output,                   \* the response, and what is left of it
    holder                          \* of the device lock

attrs == <<timeout, termEn, suppressEnd>>
loop == <<op, want, count, readData, size, offset>>
clock == <<elapsed, waited, patience, unsent, restarts>>
remote == <<reply, requests>>
result == <<outcome, data, returned>>
device == <<unfinished, taken, accepted, full, output, holder>>
vars == <<attrs, pc, loop, clock, remote, result, calls, upset, device>>

Init ==
    /\ timeout \in Timeouts \cup {Infinite}
    /\ termEn \in BOOLEAN /\ suppressEnd \in BOOLEAN
    /\ pc = "idle" /\ op = "none"
    /\ want = 0 /\ count = 0 /\ readData = <<>> /\ size = 0 /\ offset = 0
    /\ elapsed = 0 /\ waited = 0 /\ patience = 0 /\ unsent = FALSE /\ restarts = 0
    /\ reply = <<>> /\ requests = <<>>
    /\ outcome = "none" /\ data = <<>> /\ returned = <<>>
    /\ calls = 0
    /\ upset = FALSE
    /\ unfinished = 0 /\ taken = <<>> /\ accepted = 0
    /\ full = <<>> /\ output = <<>> /\ holder = "nobody"

-----------------------------------------------------------------------------
Least(a, b) == IF a < b THEN a ELSE b
Most(a, b) == IF a < b THEN b ELSE a

Finite == timeout # Infinite
IsTerm(unit) == unit[2] % LineLength = 0

BeginCall(name, here) ==
    /\ pc = "idle" /\ calls < MaxCalls
    /\ calls' = calls + 1 /\ pc' = here /\ op' = name
    /\ outcome' = "none" /\ data' = <<>>

EndCall(how) ==
    /\ pc' = "idle" /\ outcome' = how
    /\ elapsed' = 0 /\ waited' = 0 /\ patience' = 0 /\ unsent' = FALSE /\ restarts' = 0

(* The arguments of a remote call that matter: the size of the data, and   *)
(* whether END or the termination character is set.  `live` as above.      *)
Request(name, n, flag) == [name |-> name, n |-> n, flag |-> flag, live |-> TRUE]

(* make_call(): one request, and how long the device may take for it.      *)
RemoteCall(name, n, flag, howLong) ==
    /\ requests' = Append(requests, Request(name, n, flag))
    /\ waited' = 0 /\ patience' = howLong /\ unsent' = TRUE /\ restarts' = 0
    /\ UNCHANGED <<elapsed, reply>>
    /\ pc' = "wait"

(* The connection takes the request, and the wait for the reply begins.    *)
Send ==
    /\ pc = "wait" /\ unsent
    /\ unsent' = FALSE /\ waited' = 0
    /\ UNCHANGED <<attrs, pc, loop, elapsed, patience, restarts, remote, result, calls, upset, device>>

Waiting(name) == pc = "wait" /\ op = name
Replied(name) == Waiting(name) /\ reply # <<>>

(* The client is more patient than the device was told to be ...           *)
Tick ==
    /\ pc = "wait" /\ reply = <<>>
    /\ patience # Infinite /\ waited < patience + Slack
    /\ waited' = waited + 1 /\ elapsed' = IF op = "read" THEN elapsed + 1 ELSE elapsed
    /\ UNCHANGED <<attrs, pc, loop, patience, unsent, restarts, remote, result, calls, upset, device>>

(* What has been sent stays with the device.                               *)
Forgotten ==
    [i \in 1..Len(requests) - (IF unsent THEN 1 ELSE 0) |-> [requests[i] EXCEPT !.live = FALSE]]

(* A plausible slip: only a read is watched by the client itself.          *)
GivenUpRead ==
    /\ op = "read"
    /\ reply = <<>> /\ patience # Infinite /\ waited = patience + Slack
    /\ requests' = Forgotten
    /\ UNCHANGED reply

(* ... but then it gives the call up.                                      *)
GivenUp ==
    /\ reply = <<>> /\ patience # Infinite /\ waited = patience + Slack
    /\ requests' = Forgotten
    /\ UNCHANGED reply

-----------------------------------------------------------------------------
(* read()                                                                  *)
Return(how, units) ==
    /\ EndCall(how)
    /\ data' = units /\ returned' = returned \o units
    /\ readData' = <<>> /\ count' = 0

BeginRead(n) ==
    /\ BeginCall("read", "loop")
    /\ want' = n /\ count' = n
    /\ size' = 0 /\ offset' = 0 /\ accepted' = 0 /\ taken' = <<>>
    /\ UNCHANGED <<attrs, readData, clock, remote, returned, upset,
                   unfinished, full, output, holder>>

(* A plausible slip: every chunk gets the whole timeout.                   *)
RemainingAll == timeout

Remaining == timeout - elapsed

(* Out of time, or nothing to read; otherwise the next chunk.              *)
ReadEnd ==
    /\ pc = "loop"
    /\ \/ count = 0 /\ Return("max", readData)
       \/ count > 0 /\ Finite /\ elapsed >= timeout /\ Return("timeout", readData)
    /\ UNCHANGED <<attrs, op, want, size, offset, remote, calls, upset, device>>

ReadChunk ==
    /\ pc = "loop" /\ count > 0 /\ (Finite => elapsed < timeout)
    /\ RemoteCall("read", Least(count, MaxRecv), termEn,
                  IF Finite THEN Most(MinTimeout, Remaining) ELSE Infinite)
    /\ UNCHANGED <<attrs, loop, result, calls, upset, device>>

(* A plausible slip: END is reported although it is suppressed.            *)
ReadStatusAnyEnd(reason) ==
    IF "END" \in reason THEN "success"
    ELSE IF termEn /\ "CHR" \in reason THEN "term" ELSE "max"

(* _read_status_from_reason                                                *)
ReadStatus(reason) ==
    IF ~ suppressEnd /\ "END" \in reason THEN "success"
    ELSE IF termEn /\ "CHR" \in reason THEN "term" ELSE "max"

StopReason == {"CHR"} \cup (IF suppressEnd THEN {} ELSE {"END"})

ReadReply ==
    /\ Replied("read") /\ reply[1].error = "none"
    /\ LET got == readData \o reply[1].units
           left == count - Len(reply[1].units)
           reason == reply[1].reason
       IN  IF left <= 0 \/ reason \cap StopReason # {}
             THEN Return(ReadStatus(reason), got)
             ELSE /\ pc' = "loop" /\ readData' = got /\ count' = left
                  /\ UNCHANGED <<clock, result>>
    /\ reply' = <<>>
    /\ UNCHANGED <<attrs, op, want, size, offset, requests, calls, upset, device>>

Blame(error) == IF error = "timeout" THEN "timeout" ELSE "io"

(* A plausible slip: what the earlier chunks brought is dropped.           *)
ReadErrorEmpty ==
    /\ Replied("read") /\ reply[1].error # "none"
    /\ Return(Blame(reply[1].error), <<>>)
    /\ reply' = <<>>
    /\ UNCHANGED <<attrs, op, want, size, offset, requests, calls, upset, device>>

(* An error ends the read with what it has got so far.                     *)
ReadError ==
    /\ Replied("read") /\ reply[1].error # "none"
    /\ Return(Blame(reply[1].error), readData)
    /\ reply' = <<>>
    /\ UNCHANGED <<attrs, op, want, size, offset, requests, calls, upset, device>>

ReadGivenUp ==
    /\ Waiting("read") /\ GivenUp
    /\ Return("io", readData)
    /\ upset' = (upset \/ ~ unsent)
    /\ UNCHANGED <<attrs, op, want, size, offset, calls, device>>

-----------------------------------------------------------------------------
(* write()                                                                 *)
BeginWrite(n) ==
    /\ BeginCall("write", "block")
    /\ size' = n /\ offset' = 0 /\ want' = 0
    /\ accepted' = 0 /\ taken' = <<>>
    /\ UNCHANGED <<attrs, count, readData, clock, remote, returned, upset,
                   unfinished, full, output, holder>>

(* A plausible slip: a block that is exactly full is not the last one.     *)
IsLastStrict(num) == num < MaxRecv

IsLast(num) == num <= MaxRecv

WriteBlock ==
    /\ pc = "block" /\ offset < size
    /\ RemoteCall("write", Least(size - offset, MaxRecv), IsLast(size - offset), timeout)
    /\ UNCHANGED <<attrs, loop, result, calls, upset, device>>

WriteEnd ==
    /\ pc = "block" /\ offset >= size
    /\ EndCall("success")
    /\ UNCHANGED <<attrs, loop, remote, data, returned, calls, upset, device>>

Block == Least(size - offset, MaxRecv)
Refused == reply[1].error # "none" \/ reply[1].n < Block

WriteStops(how) ==
    /\ EndCall(how)
    /\ upset' = (upset \/ unfinished > 0)

(* A plausible slip: the offset is moved on before the reply is looked at. *)
WriteReplyAhead ==
    /\ Replied("write")
    /\ offset' = offset + Block
    /\ IF Refused THEN WriteStops(Blame(reply[1].error))
                  ELSE pc' = "block" /\ UNCHANGED <<clock, outcome, upset>>
    /\ reply' = <<>>
    /\ UNCHANGED <<attrs, op, want, count, readData, size, requests, data, returned, calls, device>>

(* A block that is not taken whole ends the write.                         *)
WriteReply ==
    /\ Replied("write")
    /\ IF Refused THEN WriteStops(Blame(reply[1].error)) /\ UNCHANGED offset
                  ELSE /\ offset' = offset + reply[1].n
                       /\ pc' = "block" /\ UNCHANGED <<clock, outcome, upset>>
    /\ reply' = <<>>
    /\ UNCHANGED <<attrs, op, want, count, readData, size, requests, data, returned, calls, device>>

WriteGivenUp ==
    /\ Waiting("write") /\ GivenUp
    /\ EndCall("io")
    /\ upset' = (upset \/ ~ unsent \/ unfinished > 0)
    /\ UNCHANGED <<attrs, loop, data, returned, calls, device>>

-----------------------------------------------------------------------------
(* The operations that are one remote call; a timeout of the client leaves *)
(* them as an exception.  Those of the first set pass the timeout of the   *)
(* session on; "plain" is assert_trigger(), read_stb() or either request   *)
(* of gpib_control_ren(), which do the same to all that is modelled.       *)
Timed == {"clear", "plain"}
Others == Timed \cup {"lock", "unlock"}

BeginOther(name) ==
    /\ BeginCall(name, "wait")
    /\ RemoteCall(name, 0, FALSE, IF name \in Timed THEN timeout ELSE OtherTimeout)
    /\ UNCHANGED <<attrs, want, count, readData, size, offset, returned, upset, device>>

(* A clear that succeeds has emptied the device, whatever was wrong.       *)
OtherReply ==
    /\ op \in Others /\ Replied(op)
    /\ EndCall(IF reply[1].error = "none" THEN "success" ELSE reply[1].error)
    /\ upset' = (upset /\ ~ (op = "clear" /\ reply[1].error = "none"))
    /\ reply' = <<>>
    /\ UNCHANGED <<attrs, loop, requests, data, returned, calls, device>>

OtherGivenUp ==
    /\ op \in Others /\ Waiting(op) /\ GivenUp
    /\ EndCall("exception")
    /\ upset' = (upset \/ (op = "clear" /\ ~ unsent))
    /\ UNCHANGED <<attrs, loop, data, returned, calls, device>>

(* gpib_control_ren() knows two ways to address a device, and no others.   *)
RenUnsupported ==
    /\ pc = "idle" /\ calls < MaxCalls
    /\ calls' = calls + 1 /\ op' = "ren" /\ outcome' = "nonsupported" /\ data' = <<>>
    /\ UNCHANGED <<attrs, pc, want, count, readData, size, offset, clock, remote, returned, upset, device>>

(* The attribute VI_ATTR_TMO_VALUE, between two calls.                     *)
SetTimeout ==
    /\ pc = "idle"
    /\ timeout' \in Timeouts \cup {Infinite}
    /\ UNCHANGED <<termEn, suppressEnd, pc, loop, clock, remote, result, calls, upset, device>>

(* A plausible slip: the connection is closed, the link is not.            *)
CloseAtOnce ==
    /\ BeginCall("destroy", "closed")
    /\ UNCHANGED <<attrs, want, count, readData, size, offset, clock, remote, returned, upset, device>>

(* close() destroys the link ...                                           *)
Close ==
    /\ BeginCall("destroy", "wait")
    /\ RemoteCall("destroy", 0, FALSE, OtherTimeout)
    /\ UNCHANGED <<attrs, want, count, readData, size, offset, returned, upset, device>>

(* ... and, whatever comes of that, closes the connection.                 *)
CloseEnd ==
    /\ Waiting("destroy")
    /\ \/ reply # <<>> /\ reply' = <<>> /\ UNCHANGED requests
       \/ GivenUp
    /\ pc' = "closed" /\ outcome' = "success"
    /\ elapsed' = 0 /\ waited' = 0 /\ patience' = 0 /\ restarts' = 0
    /\ UNCHANGED <<attrs, unsent, loop, data, returned, calls, upset, device>>

-----------------------------------------------------------------------------
(* What a reply unpacks to.                                                *)
Results(error, n, units, reason) ==
    [error |-> error, n |-> n, units |-> units, reason |-> reason]

(* The device executes the oldest request it was sent, and replies.  The   *)
(* reply to a call that was given up is skipped, and a client that waits   *)
(* for another waits anew.                                                 *)
AtDevice == requests # <<>> /\ (Head(requests).live => ~ unsent)
Executes(name) == AtDevice /\ Head(requests).name = name
Skipped == ~ Head(requests).live /\ pc = "wait" /\ ~ unsent

Reply(error, n, units, reason) ==
    /\ requests' = Tail(requests)
    /\ reply' = IF Head(requests).live THEN <<Results(error, n, units, reason)>> ELSE reply
    /\ waited' = IF Skipped THEN 0 ELSE waited
    /\ restarts' = IF Skipped /\ op = "read" THEN restarts + 1 ELSE restarts
    /\ UNCHANGED <<attrs, pc, loop, elapsed, patience, unsent, outcome, data, calls, upset>>

Mine == holder # "other"

(* device_read: up to the size asked for, the termination character or the *)
(* end of the response, or what the device has room for.                   *)
DeviceRead ==
    /\ Executes("read") /\ Mine /\ output # <<>>
    /\ LET r == Head(requests)
       IN  \E n \in 1..Least(r.n, Len(output)) :
              /\ r.flag => \A k \in 1..n-1 : ~ IsTerm(output[k])
              /\ output' = SubSeq(output, n + 1, Len(output))
              /\ Reply("none", n, SubSeq(output, 1, n),
                       (IF r.flag /\ IsTerm(output[n]) THEN {"CHR"} ELSE {})
                         \cup (IF n = Len(output) THEN {"END"} ELSE {})
                         \cup (IF n = r.n THEN {"REQCNT"} ELSE {}))
    /\ UNCHANGED <<returned, unfinished, taken, accepted, full, holder>>

(* device_write: END makes the device answer, and forget an answer that    *)
(* was not read; it may take less than the block.                          *)
DeviceWrite ==
    /\ Executes("write") /\ Mine
    /\ LET r == Head(requests)
       IN  \E n \in 0..r.n :
              /\ accepted' = IF r.live THEN accepted + n ELSE accepted
              /\ IF r.flag /\ n = r.n
                   THEN \E k \in Responses :
                           /\ taken' = Append(taken, unfinished + n)
                           /\ unfinished' = 0
                           /\ full' = [i \in 1..k |-> <<calls, i>>]
                           /\ output' = full' /\ returned' = <<>>
                   ELSE unfinished' = unfinished + n /\ UNCHANGED <<taken, full, output, returned>>
              /\ Reply("none", n, <<>>, {})
    /\ UNCHANGED holder

DeviceClear ==
    /\ Executes("clear") /\ Mine
    /\ unfinished' = 0 /\ full' = <<>> /\ output' = <<>> /\ returned' = <<>>
    /\ Reply("none", 0, <<>>, {})
    /\ UNCHANGED <<taken, accepted, holder>>

DeviceLock ==
    \/ /\ Executes("lock") /\ Mine
       /\ holder' = "us"
       /\ Reply("none", 0, <<>>, {})
       /\ UNCHANGED <<returned, unfinished, taken, accepted, full, output>>
    \/ /\ Executes("unlock") /\ holder = "us"
       /\ holder' = "nobody"
       /\ Reply("none", 0, <<>>, {})
       /\ UNCHANGED <<returned, unfinished, taken, accepted, full, output>>

(* What changes nothing that is modelled.                                  *)
DeviceOther ==
    /\ Executes("plain") /\ Mine
    /\ Reply("none", 0, <<>>, {})
    /\ UNCHANGED <<returned, device>>

(* The link goes, and its lock with it.                                    *)
DeviceDestroy ==
    /\ Executes("destroy")
    /\ holder' = IF holder = "us" THEN "nobody" ELSE holder
    /\ Reply("none", 0, <<>>, {})
    /\ UNCHANGED <<returned, unfinished, taken, accepted, full, output>>

(* The time is up, the device is locked, or something else is wrong.       *)
DeviceRefuses ==
    /\ AtDevice
    /\ \/ Head(requests).name = "read" /\ output = <<>>
          /\ (Head(requests).live => patience # Infinite /\ waited >= patience)
          /\ Reply("timeout", 0, <<>>, {})
       \/ holder = "other" /\ Head(requests).name \notin {"unlock", "destroy"} /\ Reply("locked", 0, <<>>, {})
       \/ holder # "us" /\ Head(requests).name = "unlock" /\ Reply("not locked", 0, <<>>, {})
       \/ Head(requests).name \in {"read", "write"} /\ Reply("io", 0, <<>>, {})
    /\ UNCHANGED <<returned, device>>

(* The other client locks and unlocks the device.                          *)
OtherClient ==
    /\ \/ holder = "nobody" /\ holder' = "other"
       \/ holder = "other" /\ holder' = "nobody"
    /\ UNCHANGED <<attrs, pc, loop, clock, remote, result, calls, upset,
                   unfinished, taken, accepted, full, output>>

-----------------------------------------------------------------------------
CallStep ==
    \/ ReadEnd \/ ReadChunk \/ ReadReply \/ ReadError \/ ReadGivenUp
    \/ WriteBlock \/ WriteEnd \/ WriteReply \/ WriteGivenUp
    \/ OtherReply \/ OtherGivenUp \/ CloseEnd

Next ==
    \/ \E n \in Counts : BeginRead(n)
    \/ \E n \in Messages : BeginWrite(n)
    \/ \E name \in Others : BeginOther(name)
    \/ RenUnsupported \/ SetTimeout \/ Close
    \/ CallStep \/ Tick \/ Send
    \/ DeviceRead \/ DeviceWrite \/ DeviceClear \/ DeviceLock \/ DeviceOther
    \/ DeviceDestroy \/ DeviceRefuses \/ OtherClient

(* The thread runs and time passes; the device may never answer.           *)
Fairness == WF_vars(CallStep) /\ WF_vars(Tick)

Spec == Init /\ [][Next]_vars /\ Fairness

-----------------------------------------------------------------------------
InReply == IF reply # <<>> /\ op = "read" THEN reply[1].units ELSE <<>>

(* Whatever refuses or fails a chunk, no unit of a response is lost: what  *)
(* reads have returned, the chunks of the read under way and what is left  *)
(* in the device make up the response.  Only a remote call that is given   *)
(* up, or a message left unfinished, may break this, until a clear().      *)
ResponseKept ==
    ~ upset => full = returned \o readData \o InReply \o output

(* The status of a read tells why it ended: at the end of the message,     *)
(* which comes first, at the termination character, or with all that was   *)
(* asked for; and it never reads on past one of them.                      *)
StatusExplains ==
    (~ upset /\ op = "read" /\ pc = "idle") =>
        LET n == Len(data)
            atEnd == data # <<>> /\ data[n] = full[Len(full)]
            atTerm == data # <<>> /\ IsTerm(data[n])
        IN  /\ outcome = "success" => ~ suppressEnd /\ atEnd
            /\ outcome = "term" => termEn /\ atTerm
            /\ outcome = "max" => n = want /\ (atEnd => suppressEnd)
            /\ outcome \in {"timeout", "io"} => (atTerm => ~ termEn) /\ (atEnd => suppressEnd)
            /\ termEn => \A k \in 1..n-1 : ~ IsTerm(data[k])

(* However many chunks a read takes, it ends by its timeout, give or take  *)
(* the least time a chunk is given and the patience of the client; except  *)
(* that the last chunk, which gets what is left of the timeout, may wait   *)
(* so long twice, for the connection and for the reply, and once more for  *)
(* every late reply that it has skipped.                                   *)
Waits == restarts + 2

ReadInTime ==
    (op = "read" /\ Finite) => \/ elapsed <= Waits * (timeout + Slack)
                               \/ elapsed < timeout + Waits * (MinTimeout + Slack)

(* Whichever block fails and whatever came before, a write reports no more *)
(* than the device has accepted, and all of it but for the block that      *)
(* failed; one that succeeds has had all of it accepted, and, unless       *)
(* upset, has given the device exactly one whole message.                  *)
WriteReportsTruly ==
    op = "write" =>
        /\ offset <= accepted /\ accepted <= offset + MaxRecv
        /\ outcome = "success" => accepted = size
        /\ ~ upset /\ outcome = "success" /\ size > 0 => unfinished = 0 /\ taken = <<size>>

(* What a read has still to get, or a write to send.                       *)
Left == count + (size - offset)

(* Why no loop of remote calls goes round for ever: every step of a call   *)
(* ends it, leaves fewer units to be done, makes the next remote call,     *)
(* sends its request, or uses up time of a wait of which there is an end;  *)
(* and nothing else undoes that, but that a wait begins anew when there is *)
(* one request less that can make it do so.                                *)
Advances ==
    \/ pc' \in {"idle", "closed"}
    \/ Left' \in 0..Left - 1
    \/ Left' = Left /\ pc # "wait" /\ pc' = "wait"
    \/ /\ Left' = Left /\ pc = "wait" /\ pc' = "wait" /\ UNCHANGED <<patience, requests>>
       /\ \/ unsent /\ ~ unsent'
          \/ unsent' = unsent /\ waited < waited' /\ waited' <= patience + Slack

CallsAdvance ==
    [][IF CallStep \/ Tick \/ Send THEN Advances
       ELSE pc # "idle" => /\ UNCHANGED <<pc, Left, patience, unsent>>
                           /\ UNCHANGED <<waited, requests>> \/ Len(requests') < Len(requests)]_vars

(* With a finite timeout every call ends, even if the device is dead.      *)
CallsEnd == CallsAdvance /\ ((Finite /\ pc # "idle") ~> pc \in {"idle", "closed"})

(* A session that is closed leaves no lock on the device, not even one     *)
(* that a lock() it gave up has obtained since; unless the connection had  *)
(* stopped taking data, so that the device was not asked.                  *)
ClosedReleases == (pc = "closed" /\ ~ unsent /\ requests = <<>>) => holder # "us"
=============================================================================

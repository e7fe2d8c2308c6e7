---------------------------- MODULE HislipClient ----------------------------
(***************************************************************************)
(* A HiSLIP session: protocols/hislip.py (Instrument.send, receive,        *)
(* _next_data_header, trigger, device_clear, terminate,                    *)
(* complete_terminate, CancellableSocket, and the transactions of the      *)
(* asynchronous channel) as TCPIPInstrHiSLIP (tcpip.py) calls it.  One     *)
(* thread reads, writes and clears; another one calls terminate().  The    *)
(* server is external: it answers each query with one response, whose      *)
(* messages carry the id of the query, and each request of the             *)
(* asynchronous channel, as late as it likes or not at all, and it may     *)
(* speak up on that channel unasked.                                       *)
(*                                                                         *)
(* A message is a header followed by its payload, here counted in small    *)
(* units; a header is one unit.  Every write gets a fresh `tag`, which the *)
(* program does not have and the server copies into the response: <<t, k>> *)
(* is the k-th unit of the response to write t.                            *)
(***************************************************************************)
EXTENDS Integers, Sequences

CONSTANTS IdSpace,      \* message ids are taken modulo this (2^32)
          FirstId,      \* 0xFFFF_FF00
          Counts,       \* values of read(count)
          Shapes,       \* payload lengths of the messages of a response
          Pieces,       \* may the units of a message arrive one by one?
          Interrupts,   \* may the server send Interrupted on a device clear?
          MaxLate,      \* bound on the messages the asynchronous channel owes
          MaxWrites, MaxReads, MaxTerms, MaxClears,     \* bounds on the calls ...
          MaxCalls      \* ... and on the number of them all

ASSUME ConstantsAssumption ==
    /\ IdSpace \in Nat /\ FirstId \in 0..IdSpace-1
    /\ IdSpace % 2 = 0 /\ FirstId % 2 = 0
    /\ 4 * MaxWrites < IdSpace      \* no id comes round again within a run
    /\ Counts \subseteq Nat
    /\ \A shape \in Shapes : shape \in Seq(Nat) /\ Len(shape) \in {1, 2}
    /\ Pieces \in BOOLEAN /\ Interrupts \in BOOLEAN
    /\ MaxLate \in Nat /\ MaxWrites \in Nat /\ MaxReads \in Nat /\ MaxTerms \in Nat
    /\ MaxClears \in Nat /\ MaxCalls \in Nat

AnyId == IdSpace - 1    \* 0xFFFF_FFFF
NoId == -1              \* None
NoType == ""            \* no message of the response has come yet

VARIABLES
    \* Instrument
    messageId, lastMessageId, rmt, payloadRemaining, msgType,
    receiving,          \* the _receiving event
    cancel,             \* there is a byte in the cancel pipe
    \* the thread that reads and writes
    pc, count,
    got,                \* units in recv_buffer, complete requests only
    part,               \* units of the request receive_exact_into is filling
    skip,               \* payload still to be thrown away by receive_flush
    outcome,            \* how its last call ended
    data,               \* what its last read returned
    \* the thread that terminates, and how often everything was called
    tpc, writes, reads, terms, clears,
    upset,              \* history: the client lost track of the channel
    \* channel and server
    buf,                \* units that have arrived
    net,                \* units under way
    queries,            \* queries the server has to answer
    late,               \* what comes on the asynchronous channel before the answer
                        \* to the next request
    unacknowledged,     \* history: a clear was given up for want of an answer
    returned            \* units of the response to the last write returned so far

ids == <<messageId, lastMessageId, rmt, payloadRemaining, msgType>>
io == <<pc, count, got, part, skip, outcome, data, returned>>
astray == <<late, unacknowledged>>
term == <<tpc, terms, clears, astray>>
chan == <<buf, net, queries>>
vars == <<ids, receiving, cancel, upset, io, term, writes, reads, chan>>

Header(type, id, len, t) ==
    [kind |-> "header", type |-> type, id |-> id, len |-> len, tag |-> t]
Control(type) == Header(type, 0, 0, 0)
Unit(t, k) == [kind |-> "unit", tag |-> t, no |-> k]

(* What Instrument.__init__ leaves, once both channels are initialized.    *)
NewInstrument ==
    /\ messageId = FirstId /\ lastMessageId = NoId /\ rmt = 0
    /\ payloadRemaining = 0 /\ msgType = NoType
    /\ receiving = FALSE /\ cancel = FALSE
    /\ late = <<>>

(* Messages of the asynchronous channel that are late: answers by type, an *)
(* acknowledgement of AsyncDeviceClear ("clear"), one the server has still *)
(* to send because it has not carried the clear out ("owed"), and what     *)
(* nobody asked for: AsyncServiceRequest, AsyncInterrupted.                *)
LateItems == {"status", "other", "clear", "owed", "unasked"}

Init ==
    /\ NewInstrument /\ upset = FALSE /\ unacknowledged = FALSE
    /\ pc = "idle" /\ count = 0 /\ got = <<>> /\ part = <<>> /\ skip = 0
    /\ outcome = "none" /\ data = <<>>
    /\ tpc = "idle" /\ terms = 0 /\ clears = 0
    /\ writes = 0 /\ reads = 0 /\ returned = 0
    /\ buf = <<>> /\ net = <<>> /\ queries = <<>>

(* The bound on the calls of a run, of whatever kind.                      *)
MoreCalls == writes + reads + terms + clears < MaxCalls

(* The application gives up on a session that raised RuntimeError.         *)
Idle == pc = "idle" /\ outcome \notin {"broken", "unexpected"}

-----------------------------------------------------------------------------
(* History only: events after which the client may be out of step with the *)
(* channel.  The actions that can upset it say when.                       *)
Upset(event) == upset' = (upset \/ event)

(* Sending.  Every packet takes a message id of its own; the setter of     *)
(* last_message_id resets what is known of the response being read.        *)

After(id, n) == (id + 2 * n) % IdSpace

SetLastMessageId(id) ==
    /\ lastMessageId' = id
    /\ rmt' = 0
    /\ payloadRemaining' = 0
    /\ msgType' = NoType

(* send(): n - 1 Data packets and a DataEnd packet make one query.         *)
Send(n) ==
    /\ messageId' = After(messageId, n)
    /\ SetLastMessageId(After(messageId, n - 1))
    /\ queries' = Append(queries, [id |-> After(messageId, n - 1), tag |-> writes + 1])

Write(n) ==
    /\ Idle /\ writes < MaxWrites /\ MoreCalls
    /\ writes' = writes + 1
    /\ Send(n)
    /\ Upset(payloadRemaining > 0)
    /\ outcome' = "none" /\ data' = <<>> /\ returned' = 0
    /\ UNCHANGED <<receiving, cancel, pc, count, got, part, skip, term, reads, buf, net>>

(* trigger() takes an id as well and is not answered.                      *)
Trigger ==
    /\ Idle /\ writes < MaxWrites /\ MoreCalls
    /\ writes' = writes + 1
    /\ messageId' = After(messageId, 1)
    /\ SetLastMessageId(messageId)
    /\ Upset(payloadRemaining > 0)
    /\ outcome' = "none" /\ data' = <<>> /\ returned' = 0
    /\ UNCHANGED <<receiving, cancel, pc, count, got, part, skip, term, reads, chan>>

-----------------------------------------------------------------------------
(* receive()                                                               *)

(* The head of the while loop: what receive() does next when `g` has been  *)
(* received and `left` units of the current message of type `type` remain. *)
Wanted(n, g, left, type) ==
    IF Len(g) < n /\ left > 0 THEN "payload"
    ELSE IF Len(g) < n /\ type # "DataEnd" THEN "header"
    ELSE "done"

(* The loop goes on, or receive() returns and read() has its data.         *)
Loop(n, g, left, type) ==
    LET next == Wanted(n, g, left, type)
    IN  /\ payloadRemaining' = left
        /\ msgType' = type
        /\ part' = <<>>
        /\ IF next = "done"
             THEN /\ pc' = "idle" /\ outcome' = "ok" /\ got' = <<>>
                  /\ data' = g /\ returned' = returned + Len(g)
                  /\ rmt' = IF left = 0 /\ type = "DataEnd" THEN 1 ELSE rmt
                  /\ receiving' = FALSE
             ELSE /\ pc' = next /\ got' = g
                  /\ UNCHANGED <<outcome, data, returned, rmt>>
                  /\ receiving' = TRUE

BeginRead(n) ==
    /\ Idle /\ reads < MaxReads /\ MoreCalls
    /\ reads' = reads + 1
    /\ count' = n
    /\ Loop(n, <<>>, payloadRemaining, msgType)
    /\ UNCHANGED <<messageId, lastMessageId, cancel, upset, skip, term, writes, chan>>

Receiving == pc \in {"header", "payload", "flush"}

(* recv_into looks at the cancel pipe first.                               *)
Ready(here) == pc = here /\ ~ cancel /\ buf # <<>>

Raises(error) ==
    /\ outcome' = error
    /\ pc' = "idle" /\ receiving' = FALSE
    /\ got' = <<>> /\ part' = <<>> /\ data' = <<>>
    /\ UNCHANGED <<count, skip, returned>>

Broken == Raises("broken")

IsData(h) == h.kind = "header" /\ h.type \in {"Data", "DataEnd"}

(* A plausible slip: a response is taken without a look at its id.         *)
IdIgnored(h) == h.id = h.id

(* A plausible slip: the id is compared with that of the next message.     *)
IdOfNext(h) == h.id = AnyId \/ h.id = messageId

(* The response to the last message sent, or a message for any id.         *)
IdMatches(h) == h.id = AnyId \/ h.id = lastMessageId

NextDataHeader ==
    /\ Ready("header")
    /\ IsData(Head(buf)) /\ IdMatches(Head(buf))
    /\ buf' = Tail(buf)
    /\ Loop(count, got, Head(buf).len, Head(buf).type)
    /\ UNCHANGED <<messageId, lastMessageId, cancel, upset, count, skip, term, writes, reads, net, queries>>

(* A plausible slip: the header of the discarded message is all that goes. *)
MismatchNoFlush ==
    /\ Ready("header")
    /\ Head(buf).kind = "header" /\ Head(buf).type # "Interrupted"
    /\ ~ (IsData(Head(buf)) /\ IdMatches(Head(buf)))
    /\ buf' = Tail(buf)
    /\ UNCHANGED <<ids, receiving, cancel, upset, io, term, writes, reads, net, queries>>

(* Out of step: the message is flushed and the next header read.           *)
Mismatch ==
    /\ Ready("header")
    /\ Head(buf).kind = "header" /\ Head(buf).type # "Interrupted"
    /\ ~ (IsData(Head(buf)) /\ IdMatches(Head(buf)))
    /\ buf' = Tail(buf)
    /\ skip' = Head(buf).len
    /\ pc' = IF Head(buf).len > 0 THEN "flush" ELSE "header"
    /\ UNCHANGED <<ids, receiving, cancel, upset, count, got, part, outcome, data, returned,
                   term, writes, reads, net, queries>>

Flush ==
    /\ Ready("flush")
    /\ buf' = Tail(buf)
    /\ skip' = skip - 1
    /\ pc' = IF skip = 1 THEN "header" ELSE "flush"
    /\ UNCHANGED <<ids, receiving, cancel, upset, count, got, part, outcome, data, returned,
                   term, writes, reads, net, queries>>

(* Payload where a header is expected: "protocol synchronization error".   *)
BadHeader ==
    /\ Ready("header")
    /\ Head(buf).kind = "unit"
    /\ buf' = Tail(buf)
    /\ Broken
    /\ UNCHANGED <<ids, cancel, upset, term, writes, reads, net, queries>>

Least(a, b) == IF a < b THEN a ELSE b

Filled == Append(part, Head(buf))

(* One recv_into of receive_exact_into; the request is complete when it    *)
(* has its units, and only then is _payload_remaining taken down.          *)
Payload ==
    /\ Ready("payload")
    /\ buf' = Tail(buf)
    /\ LET request == Least(payloadRemaining, count - Len(got))
           filled == Filled
       IN  IF Len(filled) = request
             THEN Loop(count, got \o filled, payloadRemaining - request, msgType)
             ELSE /\ part' = filled
                  /\ UNCHANGED <<rmt, payloadRemaining, msgType, receiving, pc, got,
                                 outcome, data, returned>>
    /\ UNCHANGED <<messageId, lastMessageId, cancel, upset, count, skip, term, writes, reads, net, queries>>

(* A plausible slip: the timeout is not applied to the header.             *)
ReadTimeoutPayload ==
    /\ pc = "payload" /\ ~ cancel /\ buf = <<>>
    /\ pc' = "idle" /\ receiving' = FALSE
    /\ outcome' = "timeout" /\ data' = <<>>
    /\ got' = <<>> /\ part' = <<>> /\ skip' = 0
    /\ Upset(got # <<>> \/ part # <<>>)
    /\ UNCHANGED <<ids, cancel, count, returned, term, writes, reads, chan>>

(* Nothing comes: read() answers error_timeout and no data.                *)
ReadTimeout ==
    /\ Receiving /\ ~ cancel /\ buf = <<>>
    /\ pc' = "idle" /\ receiving' = FALSE
    /\ outcome' = "timeout" /\ data' = <<>>
    /\ got' = <<>> /\ part' = <<>> /\ skip' = 0
    /\ Upset(got # <<>> \/ part # <<>> \/ skip > 0)
    /\ UNCHANGED <<ids, cancel, count, returned, term, writes, reads, chan>>

-----------------------------------------------------------------------------
(* terminate(), from another thread: the test of _receiving and the byte   *)
(* in the cancel pipe are two steps.  (It returns when nobody receives.)   *)
TerminateTest ==
    /\ tpc = "idle" /\ terms < MaxTerms /\ MoreCalls
    /\ receiving
    /\ terms' = terms + 1
    /\ tpc' = "cancel"
    /\ UNCHANGED <<astray, clears, ids, receiving, cancel, upset, io, writes, reads, chan>>

TerminateCancel ==
    /\ tpc = "cancel"
    /\ cancel' = TRUE
    /\ tpc' = "idle"
    /\ UNCHANGED <<astray, clears, ids, receiving, upset, io, terms, writes, reads, chan>>

(* HiSLIPInterruptedError leaves receive(): because of the cancel pipe,    *)
(* which is drained, or of an Interrupted message.  read() calls           *)
(* complete_terminate.                                                     *)
Interrupted ==
    /\ Receiving
    /\ \/ cancel /\ cancel' = FALSE /\ UNCHANGED buf
       \/ /\ ~ cancel /\ buf # <<>> /\ pc = "header"
          /\ Head(buf).kind = "header" /\ Head(buf).type = "Interrupted"
          /\ buf' = Tail(buf) /\ UNCHANGED cancel
    /\ receiving' = FALSE
    /\ pc' = "drain"
    /\ got' = <<>> /\ part' = <<>> /\ skip' = 0 /\ data' = <<>>
    /\ UNCHANGED <<ids, upset, count, outcome, returned, term, writes, reads, net, queries>>

-----------------------------------------------------------------------------
(* complete_terminate(): the cancel pipe is ignored until it returns.      *)

(* The cancel pipe and what has arrived on the socket are drained.         *)
Drain ==
    /\ pc = "drain"
    /\ cancel' = FALSE
    /\ buf' = <<>>
    /\ pc' = "async clear"
    /\ Upset(net # <<>>)
    /\ UNCHANGED <<ids, receiving, count, got, part, skip, outcome, data, returned,
                   term, writes, reads, net, queries>>

Sent(units) == IF Pieces THEN net' = net \o units /\ UNCHANGED buf
                         ELSE buf' = buf \o units /\ UNCHANGED net

-----------------------------------------------------------------------------
(* The asynchronous channel.  Its messages carry no id: a transaction      *)
(* takes the message that comes next.  That may be the late answer to an   *)
(* earlier request, or one nobody asked for; it is taken if it has the     *)
(* type expected, and otherwise raises RuntimeError ("unexpected").        *)
(* No answer to a request comes in time: it comes later, or never.         *)
Unanswered(item) == late' = late \/ (Len(late) < MaxLate /\ late' = Append(late, item))

TakesLate(type) ==
    /\ late # <<>> /\ Head(late) # "owed"
    /\ late' = Append(Tail(late), type)
    /\ \/ Head(late) = type /\ outcome' = "stale"
       \/ (Head(late) # type \/ type = "other") /\ outcome' = "unexpected"

Transaction(type) ==
    /\ Idle
    /\ \/ late = <<>> /\ outcome' = "async" /\ UNCHANGED late
       \/ TakesLate(type)
       \/ Unanswered(type) /\ outcome' = "timeout"
    /\ data' = <<>>
    /\ UNCHANGED <<receiving, cancel, upset, pc, count, got, part, skip, returned, tpc, terms,
                   clears, unacknowledged, writes, reads, chan>>

(* read_stb(): the query reports RMT, which is reset then.                 *)
StatusQuery ==
    /\ Transaction("status")
    /\ rmt' = 0
    /\ UNCHANGED <<messageId, lastMessageId, payloadRemaining, msgType>>

(* Remote/local control and the maximum message size, whose answers are of *)
(* two types.                                                              *)
OtherTransaction == Transaction("other") /\ UNCHANGED ids

(* The server carries a clear out: it forgets the queries it has not       *)
(* answered, and may send Interrupted on the synchronous channel.          *)
ServerClears ==
    /\ queries' = <<>>
    /\ \/ UNCHANGED <<buf, net>>
       \/ Interrupts /\ Sent(<<Control("Interrupted")>>)

(* AsyncDeviceClear is acknowledged.  The acknowledgement may be that of   *)
(* an earlier clear, given up; then the server has not come to this one.   *)
AsyncDeviceClear(there) ==
    /\ \/ late = <<>> /\ ServerClears /\ UNCHANGED late
       \/ /\ late # <<>> /\ Head(late) = "clear"
          /\ late' = Append(Tail(late), "owed")
          /\ UNCHANGED chan
    /\ pc' = there
    /\ UNCHANGED <<ids, receiving, cancel, count, got, part, skip, outcome, data, returned,
                   tpc, terms, unacknowledged, writes, reads>>

(* A late answer of another type comes instead ...                         *)
LateAnswer ==
    /\ late # <<>> /\ Head(late) \notin {"clear", "owed"}
    /\ Raises("unexpected") /\ Upset(TRUE)
    /\ UNCHANGED <<ids, cancel, tpc, terms, astray, writes, reads, chan>>

(* ... or nothing: socket.timeout leaves the call.                         *)
NoAcknowledgement ==
    /\ pc' = "idle" /\ outcome' = "timeout" /\ data' = <<>>
    /\ unacknowledged' = TRUE /\ Upset(TRUE)
    /\ UNCHANGED <<ids, receiving, cancel, count, got, part, skip, returned, tpc, terms,
                   writes, reads, chan>>

TerminateClear ==
    /\ pc = "async clear"
    /\ \/ AsyncDeviceClear("await") /\ UNCHANGED upset
       \/ LateAnswer
       \/ NoAcknowledgement /\ Unanswered("owed")
    /\ UNCHANGED clears

(* Messages are thrown away until Interrupted comes ...                    *)
AwaitInterrupted ==
    /\ pc = "await" /\ buf # <<>>
    /\ buf' = Tail(buf)
    /\ IF skip = 0 /\ Head(buf).kind = "unit"
         THEN Broken
         ELSE /\ skip' = IF skip > 0 THEN skip - 1 ELSE Head(buf).len
              /\ pc' = IF skip = 0 /\ Head(buf).type = "Interrupted" THEN "complete" ELSE pc
              /\ UNCHANGED <<receiving, count, got, part, outcome, data, returned>>
    /\ UNCHANGED <<ids, cancel, upset, term, writes, reads, net, queries>>

(* ... or nothing comes for two seconds.                                   *)
AwaitTimeout ==
    /\ pc = "await" /\ buf = <<>>
    /\ pc' = "complete" /\ skip' = 0
    /\ Upset(net # <<>>)
    /\ UNCHANGED <<ids, receiving, cancel, count, got, part, outcome, data, returned,
                   term, writes, reads, chan>>

(* DeviceClearComplete, which the server acknowledges, or does not.        *)
DeviceClearComplete(here, there) ==
    /\ pc = here
    /\ Sent(<<Control("DeviceClearAcknowledge")>>) \/ UNCHANGED <<buf, net>>
    /\ pc' = there
    /\ UNCHANGED <<ids, receiving, cancel, upset, count, got, part, skip, outcome, data, returned,
                   term, writes, reads, queries>>

TerminateComplete == DeviceClearComplete("complete", "acknowledge")

Acknowledged == Head(buf).kind = "header" /\ Head(buf).type = "DeviceClearAcknowledge"

(* A plausible slip: only the counter is reset.                            *)
ResetCounter ==
    /\ messageId' = FirstId
    /\ UNCHANGED <<lastMessageId, rmt, payloadRemaining, msgType>>

ResetAll ==
    /\ messageId' = FirstId /\ lastMessageId' = NoId
    /\ rmt' = 0 /\ payloadRemaining' = 0 /\ msgType' = NoType

(* The counters are reset and read() answers error_abort.                  *)
TerminateEnd ==
    /\ pc = "acknowledge" /\ buf # <<>>
    /\ buf' = Tail(buf)
    /\ IF Acknowledged
         THEN /\ ResetAll
              /\ pc' = "idle" /\ outcome' = "abort"
              /\ UNCHANGED <<receiving, count, got, part, skip, data, returned>>
         ELSE Broken /\ UNCHANGED ids
    /\ UNCHANGED <<cancel, upset, term, writes, reads, net, queries>>

(* No acknowledgement comes: the counters keep their values.               *)
TerminateGivesUp ==
    /\ pc = "acknowledge" /\ buf = <<>>
    /\ NoAcknowledgement /\ UNCHANGED <<late, clears>>

-----------------------------------------------------------------------------
(* device_clear(), called by clear(): the synchronous channel is not read  *)
(* before DeviceClearAcknowledge is expected, and only _message_id is      *)
(* reset.                                                                  *)
Clear ==
    /\ Idle /\ clears < MaxClears /\ MoreCalls
    /\ clears' = clears + 1
    /\ \/ /\ AsyncDeviceClear("clear")
          /\ Upset(buf' # <<>> \/ net' # <<>> \/ cancel \/ tpc = "cancel")
       \/ LateAnswer
       \/ NoAcknowledgement /\ Unanswered("owed")

ClearComplete == DeviceClearComplete("clear", "cleared")

ClearEnd ==
    /\ pc = "cleared" /\ (cancel \/ buf # <<>>)
    /\ IF cancel THEN UNCHANGED buf ELSE buf' = Tail(buf)
    /\ IF ~ cancel /\ Acknowledged
         THEN /\ messageId' = FirstId
              /\ UNCHANGED <<lastMessageId, rmt, payloadRemaining, msgType>>
              /\ pc' = "idle" /\ outcome' = "cleared"
              /\ UNCHANGED <<receiving, count, got, part, skip, data, returned>>
         ELSE Broken /\ UNCHANGED ids
    /\ UNCHANGED <<cancel, upset, term, writes, reads, net, queries>>

ClearGivesUp ==
    /\ pc = "cleared" /\ ~ cancel /\ buf = <<>>
    /\ NoAcknowledgement /\ UNCHANGED <<late, clears>>

-----------------------------------------------------------------------------
(* The server answers its oldest query with the messages of one shape.     *)
Before(shape, i) == IF i = 1 THEN 0 ELSE shape[1]

Response(q, shape) ==
    LET Message(i) ==
            <<Header(IF i = Len(shape) THEN "DataEnd" ELSE "Data", q.id, shape[i], q.tag)>> \o
            [k \in 1..shape[i] |-> Unit(q.tag, Before(shape, i) + k)]
    IN  IF Len(shape) = 1 THEN Message(1) ELSE Message(1) \o Message(2)

Answer(shape) ==
    /\ queries # <<>>
    /\ queries' = Tail(queries)
    /\ Sent(Response(Head(queries), shape))
    /\ UNCHANGED <<ids, receiving, cancel, upset, io, term, writes, reads>>

(* The server comes to a clear whose request was given up.                 *)
CarryOut ==
    /\ \E i \in 1..Len(late) :
          /\ late[i] = "owed" /\ \A j \in 1..i-1 : late[j] # "owed"
          /\ late' = [late EXCEPT ![i] = "clear"]
    /\ ServerClears
    /\ UNCHANGED <<ids, receiving, cancel, upset, io, tpc, terms, clears, unacknowledged, writes, reads>>

(* It sends AsyncServiceRequest or AsyncInterrupted.                       *)
Unsolicited ==
    /\ Len(late) < MaxLate
    /\ late' = Append(late, "unasked")
    /\ UNCHANGED <<ids, receiving, cancel, upset, io, tpc, terms, clears, unacknowledged,
                   writes, reads, chan>>

Arrive ==
    /\ net # <<>>
    /\ buf' = Append(buf, Head(net))
    /\ net' = Tail(net)
    /\ UNCHANGED <<ids, receiving, cancel, upset, io, term, writes, reads, queries>>

-----------------------------------------------------------------------------
ReceiveStep ==
    \/ NextDataHeader \/ Mismatch \/ Flush \/ BadHeader \/ Payload \/ ReadTimeout
    \/ Interrupted

TerminateStep ==
    \/ Drain \/ TerminateClear \/ AwaitInterrupted \/ AwaitTimeout \/ TerminateComplete
    \/ TerminateEnd \/ TerminateGivesUp

ClearStep == ClearComplete \/ ClearEnd \/ ClearGivesUp

Next ==
    \/ \E n \in 1..2 : Write(n)
    \/ Trigger \/ Clear \/ StatusQuery \/ OtherTransaction
    \/ \E n \in Counts : BeginRead(n)
    \/ ReceiveStep \/ TerminateStep \/ ClearStep
    \/ TerminateTest \/ TerminateCancel
    \/ \E shape \in Shapes : Answer(shape)
    \/ CarryOut \/ Unsolicited \/ Arrive

(* Threads run, sockets time out, and what was sent arrives; the server    *)
(* need not answer anything.                                               *)
Fairness ==
    WF_vars(ReceiveStep) /\ WF_vars(TerminateStep) /\ WF_vars(ClearStep) /\ WF_vars(Arrive)

Spec == Init /\ [][Next]_vars /\ Fairness

-----------------------------------------------------------------------------
(* What reads return, one after the other, is the response to the last     *)
(* write from its first unit on: nothing of an older response, nothing     *)
(* twice, nothing left out, no header taken for payload.  It holds until   *)
(* a timeout or a terminate() strikes in the middle of a message, a write  *)
(* interrupts a partial read, clear() finds something unread, or a clear   *)
(* is not acknowledged in time.                                            *)
DataIsResponse ==
    (outcome = "ok" /\ ~ upset) =>
        data = [k \in 1..Len(data) |-> Unit(writes, returned - Len(data) + k)]

(* The response the application waits for is never discarded as one of     *)
(* another message, until a clear goes unacknowledged.                     *)
OwnResponseKept ==
    [][Mismatch => Head(buf).tag # writes \/ unacknowledged]_vars

(* Until the client is upset no call ends with a RuntimeError because of   *)
(* what it reads on the synchronous channel: it finds a message where it   *)
(* expects one, and the one it expects.  And none ends so because of the   *)
(* asynchronous channel but for a message that was late there, or that     *)
(* nobody had asked for.                                                   *)
NotBroken ==
    /\ outcome = "broken" => upset
    /\ outcome = "unexpected" => late # <<>>

(* After error_abort both sides start afresh.  The counters have their     *)
(* initial values; and whatever came before it, upset or not, nothing of   *)
(* the aborted exchange is left in the channel or with the server, unless  *)
(* an earlier clear was given up: its acknowledgement may have been taken  *)
(* for that of the abort.                                                  *)
CleanAbort ==
    (outcome = "abort" /\ pc = "idle") =>
        /\ messageId = FirstId /\ lastMessageId = NoId
        /\ rmt = 0 /\ payloadRemaining = 0 /\ msgType = NoType
        /\ unacknowledged \/ (buf = <<>> /\ net = <<>> /\ queries = <<>>)

Terminating == pc \in {"drain", "async clear", "await", "complete", "acknowledge"}

(* A read that is interrupted returns error_abort, and nothing else, if    *)
(* the device acknowledges the clear in time.                              *)
TerminatedReadAborts ==
    [][(Terminating /\ pc' = "idle") => outcome' \in {"abort", "timeout"}]_vars

(* The stages of a read that is interrupted, and of a clear, counted from  *)
(* the end, and what the channel has still to bring.                       *)
Stage == CASE Receiving -> 6
           [] pc = "drain" -> 5
           [] pc = "async clear" -> 4
           [] pc = "await" -> 3
           [] pc \in {"complete", "clear"} -> 2
           [] pc \in {"acknowledge", "cleared"} -> 1
           [] pc = "idle" -> 0
Unread == 2 * Len(net) + Len(buf)
Owed == {i \in 1..Len(late) : late[i] = "owed"}

(* Why no loop over the channel goes round for ever, however many messages *)
(* have to be discarded: whatever happens during a call takes it to a later*)
(* stage, carries out a clear the server owed, answers a query, or takes   *)
(* something out of the channel, or it is the other thread that asks for   *)
(* the end, or an unsolicited message on the other channel.                *)
CallsAdvance ==
    [][pc # "idle" =>
         \/ Stage' < Stage
         \/ Stage' = Stage /\ Owed' \subseteq Owed /\ Owed' # Owed
         \/ Stage' = Stage /\ late' = late /\ Len(queries') < Len(queries)
         \/ Stage' = Stage /\ late' = late /\ queries' = queries /\ Unread' < Unread
         \/ (TerminateTest \/ TerminateCancel \/ Unsolicited) /\ UNCHANGED <<io, chan>>]_vars

(* Every call ends, whatever the server sends or fails to send.            *)
CallsEnd == CallsAdvance /\ (pc # "idle" ~> pc = "idle")
=============================================================================

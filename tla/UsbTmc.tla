------------------------------- MODULE UsbTmc -------------------------------
(***************************************************************************)
(* A USB instrument session: USBTMC.write, read, read_stb, assert_trigger  *)
(* and the abort of a Bulk-IN transfer (protocols/usbtmc.py), called by    *)
(* USBSession (usb.py) through Session._read (sessions.py), which also has *)
(* the timeout.  One thread uses the session; the device is external and   *)
(* conforms to USBTMC: it answers a request with at most the units asked   *)
(* for, flags the transfer that ends its message, and may be slow.         *)
(*                                                                         *)
(* Data is counted in small units.  Message w is the one sent by the w-th  *)
(* write; the units of the response to it are <<w, 1>>, <<w, 2>>, ...; the *)
(* termination character is the last unit of every line of LineLength      *)
(* units.                                                                  *)
(***************************************************************************)
EXTENDS Naturals, Sequences, SequencesExt

CONSTANTS FirstTag, LastTag,        \* BTag(1, 255)
          FirstStb, LastStb,        \* BTag(2, 127)
          PacketSize,               \* wMaxPacketSize, in units
          HeaderSize,               \* header of a Bulk-IN transfer, in units
          LineLength,
          Messages,                 \* lengths of what write() is given
          Responses,                \* lengths of the responses
          Counts,                   \* values of read(count)
          MaxWrites, MaxReads, MaxStbs      \* bounds on the calls

ASSUME ConstantsAssumption ==
    /\ FirstTag \in Nat \ {0} /\ LastTag \in Nat /\ FirstTag < LastTag
    /\ FirstStb \in Nat \ {0} /\ LastStb \in Nat
    /\ MaxStbs <= LastStb - FirstStb + 1    \* no status tag comes round again
    /\ PacketSize \in Nat \ {0} /\ HeaderSize \in Nat \ {0}
    /\ LineLength \in Nat \ {0}
    /\ Messages \subseteq Nat /\ Responses \subseteq Nat \ {0}
    /\ Counts \subseteq Nat \ {0}
    /\ MaxWrites \in Nat /\ MaxReads \in Nat /\ MaxStbs \in Nat

NoRequest == [tag |-> 0, size |-> 0, term |-> FALSE]

VARIABLES
    termEn, suppressEnd,    \* attributes of the session
    timeout,                \* Session.timeout: "immediate" is 0, "infinite" None
    btag, stbTag,           \* _btag and _read_stb_btag; 0 is None
    pc, count,
    begin, size,            \* write(): progress and len(data)
    received,               \* read(): received_message
    transfer,               \* read(): received_transfer, while more of it is awaited
    out,                    \* _read(): out
    outcome, data,          \* how the last call ended and what a read returned
    writes, reads, stbs,
    upset,                  \* history: a part of a message was lost on an error
    returned,               \* history: what reads returned since the last write
    \* the device
    input,                  \* units of the message it is receiving
    taken,                  \* the messages it has received, as their lengths
    request,                \* the Bulk-IN request it has to answer
    response, full,         \* what is left of its response, and all of it
    bulkIn,                 \* transfers sent and not read
    notices, interrupt      \* status notifications: to be sent, and sent

attrs == <<termEn, suppressEnd, timeout>>
writing == <<begin, size>>
reading == <<count, received, transfer, out>>
result == <<outcome, data, returned>>
counts == <<writes, reads, stbs>>
bulk == <<request, response, full, bulkIn>>
status == <<notices, interrupt>>
vars == <<attrs, btag, stbTag, pc, writing, reading, result, counts, upset,
          input, taken, bulk, status>>

(* after_parsing means to set the default timeout, but what it passes on   *)
(* is the default of the last attribute of its loop, False, which is 0.    *)
InitialTimeout == "immediate"

Init ==
    /\ termEn \in BOOLEAN /\ suppressEnd \in BOOLEAN
    /\ timeout = InitialTimeout
    /\ \/ btag = 0 /\ stbTag = 0                  \* new
       \/ btag = LastTag /\ stbTag = LastStb      \* used before
    /\ pc = "idle" /\ count = 0 /\ begin = 0 /\ size = 0
    /\ received = <<>> /\ transfer = <<>> /\ out = <<>>
    /\ outcome = "none" /\ data = <<>> /\ returned = <<>>
    /\ writes = 0 /\ reads = 0 /\ stbs = 0
    /\ upset = FALSE
    /\ input = 0 /\ taken = <<>>
    /\ request = NoRequest /\ response = <<>> /\ full = <<>> /\ bulkIn = <<>>
    /\ notices = <<>> /\ interrupt = <<>>

(* A plausible slip: the status tag is not incremented.                    *)
AfterSame(tag, first, last) == IF tag = 0 \/ tag + 1 > last THEN first ELSE tag

-----------------------------------------------------------------------------
(* BTag.next()                                                             *)
After(tag, first, last) == IF tag = 0 \/ tag + 1 > last THEN first ELSE tag + 1

Upset(event) == upset' = (upset \/ event)

(* What _set_timeout gives the interface: 0 is taken for the absence of a  *)
(* timeout, so that only a positive one ends a transfer.                   *)
TransfersTimeOut == timeout = "finite"

(* Session._read has a deadline of its own, which 0 passes at once.        *)
ReaderTimesOut == timeout # "infinite"

(* Bound: it is set before the first call.                                 *)
SetTimeout ==
    /\ pc = "idle" /\ writes + reads + stbs = 0
    /\ timeout' \in {"immediate", "finite", "infinite"}
    /\ UNCHANGED <<termEn, suppressEnd, btag, stbTag, pc, writing, reading, result, counts, upset,
                   input, taken, bulk, status>>

(* Looking the timeout up sets it to what the interface makes of it.       *)
GetTimeout ==
    /\ pc = "idle" /\ ~ TransfersTimeOut
    /\ timeout' = "infinite"
    /\ UNCHANGED <<termEn, suppressEnd, btag, stbTag, pc, writing, reading, result, counts, upset,
                   input, taken, bulk, status>>

BeginCall(here) == pc = "idle" /\ pc' = here /\ outcome' = "none" /\ data' = <<>>

-----------------------------------------------------------------------------
(* write(): at least one Bulk-OUT transfer, the last one flagged EOM.      *)
BeginWrite(n) ==
    /\ writes < MaxWrites
    /\ writes' = writes + 1
    /\ BeginCall("write")
    /\ size' = n /\ begin' = 0
    /\ returned' = <<>>
    /\ UNCHANGED <<attrs, btag, stbTag, reading, reads, stbs, upset, input, taken, bulk, status>>

(* A plausible slip: a transfer that fills its packet is not the last one. *)
IsLastStrict(end) == end > size

IsLast(end) == end >= size

(* The device gets a transfer; the last one of a message makes it answer,  *)
(* and forget an answer that was not fetched.                              *)
DeviceGets(n, eom) ==
    IF eom
      THEN \E r \in Responses :
              /\ taken' = Append(taken, input + n)
              /\ input' = 0
              /\ full' = [k \in 1..r |-> <<writes, k>>]
              /\ response' = full'
              /\ request' = NoRequest
      ELSE /\ input' = input + n
           /\ UNCHANGED <<taken, full, response, request>>

Least(a, b) == IF a < b THEN a ELSE b

SendChunk ==
    LET end == begin + PacketSize
    IN  /\ pc = "write"
        /\ btag' = After(btag, FirstTag, LastTag)
        /\ begin' = end
        /\ DeviceGets(Least(end, size) - Least(begin, size), IsLast(end))
        /\ IF end < size THEN UNCHANGED <<pc, outcome>>
                         ELSE pc' = "idle" /\ outcome' = "ok"
        /\ UNCHANGED <<attrs, stbTag, size, reading, data, returned, counts, upset, bulkIn, status>>

(* A transfer that fails raises ValueError: the message stays unfinished.  *)
SendError ==
    /\ pc = "write"
    /\ btag' = After(btag, FirstTag, LastTag)
    /\ pc' = "idle" /\ outcome' = "error"
    /\ Upset(begin > 0)
    /\ UNCHANGED <<attrs, stbTag, writing, reading, data, returned, counts, input, taken, bulk, status>>

-----------------------------------------------------------------------------
(* read(): Session._read calls USBTMC.read until it has what it wants.     *)
BeginRead(n) ==
    /\ reads < MaxReads
    /\ reads' = reads + 1
    /\ BeginCall("request")
    /\ count' = n
    /\ received' = <<>> /\ transfer' = <<>> /\ out' = <<>>
    /\ UNCHANGED <<attrs, btag, stbTag, writing, returned, writes, stbs, upset, input, taken, bulk, status>>

RequestMessage(tag) == [tag |-> tag, size |-> count, term |-> termEn]

(* REQUEST_DEV_DEP_MSG_IN for `count` units, whatever was received before. *)
Request ==
    /\ pc = "request"
    /\ btag' = After(btag, FirstTag, LastTag)
    /\ request' = RequestMessage(btag')
    /\ pc' = "transfer"
    /\ UNCHANGED <<attrs, stbTag, writing, reading, result, counts, upset, input, taken,
                   response, full, bulkIn, status>>

IsTerm(unit) == unit[2] % LineLength = 0

(* The data of a read that returns.                                        *)
Return(how, units) ==
    /\ pc' = "idle" /\ outcome' = how
    /\ data' = units /\ returned' = returned \o units
    /\ received' = <<>> /\ transfer' = <<>> /\ out' = <<>>

UpToTerm(units) ==
    SubSeq(units, 1, CHOOSE i \in DOMAIN units :
                        IsTerm(units[i]) /\ \A j \in 1..i-1 : ~ IsTerm(units[j]))

(* Session._read has got `current`: END ends the read unless it is         *)
(* suppressed, then the termination character, then the count do.          *)
ReaderReturns(current) ==
    LET all == out \o current
        hasTerm == \E i \in DOMAIN current : IsTerm(current[i])
    IN  \/ /\ ~ suppressEnd
           /\ Return("ok", all)
        \/ /\ suppressEnd /\ termEn /\ hasTerm
           /\ Return("term", UpToTerm(all))
        \/ /\ suppressEnd /\ ~ (termEn /\ hasTerm) /\ Len(all) >= count
           /\ Return("count", SubSeq(all, 1, count))
        \/ /\ suppressEnd /\ ~ (termEn /\ hasTerm) /\ Len(all) < count
           /\ \/ ReaderTimesOut /\ Return("timeout", all)
              \/ /\ out' = all
                 /\ received' = <<>> /\ transfer' = <<>>
                 /\ pc' = "request"
                 /\ UNCHANGED <<outcome, data, returned>>

(* A plausible slip: a part of the message is taken for the next one.      *)
TakeTransferOnly ==
    /\ pc = "transfer" /\ bulkIn # <<>>
    /\ bulkIn' = Tail(bulkIn)
    /\ LET t == Head(bulkIn)
       IN  IF t.eom \/ Len(t.data) >= count
             THEN ReaderReturns(t.data)
             ELSE /\ received' = t.data /\ pc' = "request"
                  /\ UNCHANGED <<transfer, out, result>>
    /\ UNCHANGED <<attrs, btag, stbTag, writing, count, counts, upset, input, taken,
                   request, response, full, status>>

(* What read() makes of a whole transfer: it is finished by EOM or by the  *)
(* units it asked for; a transfer that fills its last packet is expected   *)
(* to go on; otherwise the next transfer is requested.                     *)
TakeTransfer ==
    /\ pc = "transfer" /\ bulkIn # <<>>
    /\ bulkIn' = Tail(bulkIn)
    /\ LET t == Head(bulkIn)
       IN  IF t.eom \/ Len(t.data) >= count
             THEN ReaderReturns(received \o t.data)
             ELSE /\ IF (HeaderSize + Len(t.data)) % PacketSize = 0
                       THEN transfer' = t.data /\ pc' = "more" /\ UNCHANGED received
                       ELSE received' = received \o t.data /\ pc' = "request" /\ UNCHANGED transfer
                  /\ UNCHANGED <<out, result>>
    /\ UNCHANGED <<attrs, btag, stbTag, writing, count, counts, upset, input, taken,
                   request, response, full, status>>

(* What comes instead of the rest of that transfer, after an abort that    *)
(* failed, is the one of the request that was not aborted: it is read with *)
(* its header and cut off at transfer_size.                                *)
TakeMore ==
    /\ pc = "more" /\ bulkIn # <<>>
    /\ bulkIn' = Tail(bulkIn)
    /\ LET raw == HeaderSize + Len(Head(bulkIn).data)
       IN  IF raw % PacketSize = 0
             THEN UNCHANGED <<pc, received, transfer, out, result>>
             ELSE IF Len(transfer) + raw >= count
             THEN ReaderReturns(received \o transfer)
             ELSE /\ received' = received \o transfer /\ transfer' = <<>>
                  /\ pc' = "request"
                  /\ UNCHANGED <<out, result>>
    /\ UNCHANGED <<attrs, btag, stbTag, writing, count, counts, upset, input, taken,
                   request, response, full, status>>

(* A plausible slip: the rest of a transfer is read without a timeout.     *)
ReadTimeoutTransfer ==
    /\ TransfersTimeOut /\ pc = "transfer" /\ bulkIn = <<>>
    /\ pc' = "abort"
    /\ UNCHANGED <<attrs, btag, stbTag, writing, reading, result, counts, upset,
                   input, taken, bulk, status>>

ReadTimeout ==
    /\ TransfersTimeOut /\ pc \in {"transfer", "more"} /\ bulkIn = <<>>
    /\ pc' = "abort"
    /\ UNCHANGED <<attrs, btag, stbTag, writing, reading, result, counts, upset,
                   input, taken, bulk, status>>

(* An exception ends the read: _read returns what it has on a timeout and  *)
(* lets any other one pass.                                                *)
Raise(lost) ==
    /\ pc' = "idle" /\ outcome' = "error"
    /\ received' = <<>> /\ transfer' = <<>> /\ out' = <<>>
    /\ Upset(lost \/ out # <<>>)
    /\ UNCHANGED <<data, returned>>

GiveUp(lost) ==
    \/ Return("timeout", out) /\ Upset(lost)
    \/ Raise(lost)

Collected == received # <<>> \/ transfer # <<>>

(* A request that cannot be sent raises ValueError, and nothing is aborted.*)
RequestError ==
    /\ pc = "request"
    /\ btag' = After(btag, FirstTag, LastTag)
    /\ Raise(Collected)
    /\ UNCHANGED <<attrs, stbTag, writing, count, counts, input, taken, bulk, status>>

(* _abort_bulk_in: the device drops the transfer with this tag, or refuses *)
(* to.  Then the exception goes on.                                        *)
AbortDone ==
    /\ pc = "abort"
    /\ request' = NoRequest /\ bulkIn' = <<>>
    /\ GiveUp(Collected \/ bulkIn # <<>>)
    /\ UNCHANGED <<attrs, btag, stbTag, writing, count, counts, input, taken,
                   response, full, status>>

AbortFailed ==
    /\ pc = "abort"
    /\ GiveUp(Collected \/ bulkIn # <<>> \/ request # NoRequest)
    /\ UNCHANGED <<attrs, btag, stbTag, writing, count, counts, input, taken, bulk, status>>

-----------------------------------------------------------------------------
(* read_stb(): the control transfer is answered at once, the status comes  *)
(* by a notification on the interrupt endpoint.                            *)
ReadStb ==
    /\ stbs < MaxStbs
    /\ stbs' = stbs + 1
    /\ BeginCall("status")
    /\ stbTag' = After(stbTag, FirstStb, LastStb)
    /\ notices' = Append(notices, [tag |-> stbTag', call |-> stbs + 1])
    /\ UNCHANGED <<attrs, btag, writing, reading, returned, writes, reads, upset,
                   input, taken, bulk, interrupt>>

(* bNotify1 must carry the tag of this call, otherwise ValueError.         *)
Status ==
    /\ pc = "status" /\ interrupt # <<>>
    /\ interrupt' = Tail(interrupt)
    /\ pc' = "idle"
    /\ IF Head(interrupt).tag = stbTag
         THEN outcome' = "status" /\ data' = <<Head(interrupt).call>>
         ELSE outcome' = "error" /\ UNCHANGED data
    /\ UNCHANGED <<attrs, btag, stbTag, writing, reading, returned, counts, upset,
                   input, taken, bulk, notices>>

StatusTimeout ==
    /\ TransfersTimeOut /\ pc = "status" /\ interrupt = <<>>
    /\ pc' = "idle" /\ outcome' = "timeout"
    /\ UNCHANGED <<attrs, btag, stbTag, writing, reading, data, returned, counts, upset,
                   input, taken, bulk, status>>

-----------------------------------------------------------------------------
(* assert_trigger(): a Bulk-OUT message of its own, which may fail; it     *)
(* takes the next tag but asks for nothing.                                *)
AssertTrigger ==
    /\ pc = "idle"
    /\ btag' = After(btag, FirstTag, LastTag)
    /\ outcome' \in {"triggered", "error"} /\ data' = <<>>
    /\ UNCHANGED <<attrs, stbTag, pc, writing, reading, returned, counts, upset,
                   input, taken, bulk, status>>

-----------------------------------------------------------------------------
(* What is read of a Bulk-IN transfer.                                     *)
InMessage(units, eom) == [data |-> units, eom |-> eom]

(* The device answers its request with a transfer, which a termination     *)
(* character ends when the request asks for it.                            *)
Transfer ==
    /\ request # NoRequest /\ response # <<>>
    /\ \E n \in 1..Least(request.size, Len(response)) :
          /\ request.term => \A k \in 1..n-1 : ~ IsTerm(response[k])
          /\ bulkIn' = Append(bulkIn, InMessage(SubSeq(response, 1, n), n = Len(response)))
          /\ response' = SubSeq(response, n + 1, Len(response))
    /\ request' = NoRequest
    /\ UNCHANGED <<attrs, btag, stbTag, pc, writing, reading, result, counts, upset,
                   input, taken, full, status>>

Notify ==
    /\ notices # <<>>
    /\ interrupt' = Append(interrupt, Head(notices))
    /\ notices' = Tail(notices)
    /\ UNCHANGED <<attrs, btag, stbTag, pc, writing, reading, result, counts, upset,
                   input, taken, bulk>>

-----------------------------------------------------------------------------
CallStep ==
    \/ SendChunk \/ SendError
    \/ Request \/ RequestError \/ TakeTransfer \/ TakeMore \/ ReadTimeout \/ AbortDone \/ AbortFailed
    \/ Status \/ StatusTimeout

Next ==
    \/ \E n \in Messages : BeginWrite(n)
    \/ \E n \in Counts : BeginRead(n)
    \/ ReadStb \/ AssertTrigger
    \/ SetTimeout \/ GetTimeout
    \/ CallStep
    \/ Transfer \/ Notify

(* The thread runs and its transfers time out; the device may keep silent. *)
Fairness == WF_vars(CallStep)

Spec == Init /\ [][Next]_vars /\ Fairness

-----------------------------------------------------------------------------
InTransit == IF bulkIn = <<>> THEN <<>> ELSE Head(bulkIn).data

(* Nothing of a response is lost, repeated or mixed with an older one:     *)
(* what reads have returned since the write, what a read has collected, the*)
(* one transfer under way and what is still to be sent make up the response*)
(* to the last message.  It holds without suppressed END, until an error   *)
(* strikes in the middle of a message; an abort that succeeds before any of*)
(* it came is harmless.                                                    *)
ResponseConserved ==
    (~ suppressEnd /\ ~ upset /\ pc # "write" /\ Len(taken) = writes) =>
        /\ Len(bulkIn) <= 1
        /\ full = returned \o out \o received \o transfer \o InTransit \o response

(* A write that returns has given the device one whole message.            *)
MessageDelivered ==
    (pc # "write" /\ ~ upset /\ outcome = "ok" /\ data = <<>>) =>
        /\ input = 0
        /\ taken # <<>> /\ Last(taken) = size

(* A status byte is the answer to the call that returns it, however late   *)
(* earlier notifications come.                                             *)
StatusIsOwn ==
    outcome = "status" => data = <<stbs>>

(* What a read may still have to take, counted in steps of the device and  *)
(* of the session, and how far it is from its end otherwise.               *)
Coming == 2 * Len(response) + Len(bulkIn)
Stage == CASE pc = "request" -> 3
           [] pc \in {"transfer", "more"} -> 2
           [] pc = "abort" -> 1
           [] OTHER -> 0

(* Why the loops of read() and write() come to an end: each of their steps *)
(* ends the call, sends a part of the message, takes something of what the *)
(* device has to say, or goes on to a later stage; the device undoes none  *)
(* of that.                                                                *)
Advances ==
    \/ pc' = "idle"
    \/ pc = "write" /\ pc' = "write" /\ begin < begin' /\ begin' < size
    \/ Coming' < Coming
    \/ Coming' = Coming /\ Stage' < Stage

CallsAdvance ==
    [][IF CallStep THEN Advances
       ELSE pc # "idle" => UNCHANGED <<pc, begin, size>> /\ Coming' <= Coming]_vars

(* With a positive timeout every call ends, whether or not the device      *)
(* answers; with 0 as with None a read may wait for ever.                  *)
CallsEnd == CallsAdvance /\ ((TransfersTimeOut /\ pc # "idle") ~> pc = "idle")
=============================================================================

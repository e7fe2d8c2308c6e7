----------------------------- MODULE RpcClient ------------------------------
(***************************************************************************)
(* One ONC RPC connection over TCP (protocols/rpc.py, RawTCPClient) shared *)
(* by threads: Vxi11CoreClient.make_call (tcpip.py) holds its lock for the *)
(* whole of start_call and do_call.  The instrument answers the calls in   *)
(* order, as late as it likes or never.  A reply is a record of three      *)
(* units: its marker and the two halves of its body.  What _recvrecord has *)
(* in its local buffer is lost when it returns or times out.               *)
(*                                                                         *)
(* Every make_call gets a fresh `tag`, which the program does not have:    *)
(* the instrument copies it into the reply, so that a reply says which     *)
(* call it was computed for.                                               *)
(***************************************************************************)
EXTENDS Naturals, Sequences

CONSTANTS Threads,      \* threads that call make_call
          Nobody,       \* the lock is free
          Pieces,       \* may the units of a record arrive one by one?
          MidTimeouts,  \* may a timeout strike in the middle of a record?
          MaxCalls      \* bound on the calls

ASSUME ConstantsAssumption ==
    /\ MaxCalls \in Nat
    /\ Nobody \notin Threads
    /\ Pieces \in BOOLEAN /\ MidTimeouts \in BOOLEAN

VARIABLES lastxid,      \* Client.lastxid
          packer,       \* the call the shared packer holds
          lock,         \* holder of Vxi11CoreClient._lock
          pc,           \* idle | send | recv
          have,         \* what the current _recvrecord has read of its record
          tags,         \* number of calls made so far
          tag,          \* tag[t]: the call thread t is in, or was in
          result,       \* result[t]: how that call ended
          todo,         \* calls the instrument has received, not yet answered
          net,          \* units of replies under way
          stream        \* units of replies in the socket buffer

client == <<lastxid, packer, lock, pc, have, tags, tag, result>>
channel == <<todo, net, stream>>
vars == <<client, channel>>

Call == [xid : Nat, tag : Nat]
Unit == [kind : {"marker", "front", "back"}, call : Call]
NoCall == [xid |-> 0, tag |-> 0]
None == [how |-> "none", call |-> NoCall]

TypeOK ==
    /\ lastxid \in Nat
    /\ packer \in Call
    /\ lock \in Threads \cup {Nobody}
    /\ pc \in [Threads -> {"idle", "send", "recv"}]
    /\ have \in {"nothing", "marker", "front", "garbage"}
    /\ tags \in Nat
    /\ tag \in [Threads -> Nat]
    /\ result \in [Threads -> [how : {"none", "reply", "timeout", "error", "future"}, call : Call]]
    /\ todo \in Seq(Call)
    /\ net \in Seq(Unit)
    /\ stream \in Seq(Unit)

Init ==
    /\ lastxid = 0
    /\ packer = NoCall
    /\ lock = Nobody
    /\ pc = [t \in Threads |-> "idle"]
    /\ have = "nothing"
    /\ tags = 0
    /\ tag = [t \in Threads |-> 0]
    /\ result = [t \in Threads |-> None]
    /\ todo = <<>>
    /\ net = <<>>
    /\ stream = <<>>

-----------------------------------------------------------------------------
(* A plausible slip: make_call without `with self._lock`.                  *)
LockIgnored == TRUE

LockFree == lock = Nobody

(* A plausible slip: the header is packed with the next xid but one.       *)
StartCallAhead(t) ==
    /\ pc[t] = "idle"
    /\ LockFree
    /\ tags < MaxCalls
    /\ tags' = tags + 1
    /\ tag' = [tag EXCEPT ![t] = tags + 1]
    /\ lastxid' = lastxid + 1
    /\ packer' = [xid |-> lastxid + 2, tag |-> tags + 1]
    /\ lock' = t
    /\ pc' = [pc EXCEPT ![t] = "send"]
    /\ result' = [result EXCEPT ![t] = None]
    /\ have' = "nothing"
    /\ UNCHANGED channel

(* make_call takes the lock; start_call draws the next xid and packs the   *)
(* call header and arguments.                                              *)
StartCall(t) ==
    /\ pc[t] = "idle"
    /\ LockFree
    /\ tags < MaxCalls
    /\ tags' = tags + 1
    /\ tag' = [tag EXCEPT ![t] = tags + 1]
    /\ lastxid' = lastxid + 1
    /\ packer' = [xid |-> lastxid + 1, tag |-> tags + 1]
    /\ lock' = t
    /\ pc' = [pc EXCEPT ![t] = "send"]
    /\ result' = [result EXCEPT ![t] = None]
    /\ have' = "nothing"
    /\ UNCHANGED channel

(* _sendrecord: the whole record goes out at once.                         *)
SendRecord(t) ==
    /\ pc[t] = "send"
    /\ todo' = Append(todo, packer)
    /\ pc' = [pc EXCEPT ![t] = "recv"]
    /\ UNCHANGED <<lastxid, packer, lock, have, tags, tag, result, net, stream>>

(* The call ends with an exception or with its result; the lock goes.      *)
Finish(t, how, call) ==
    /\ result' = [result EXCEPT ![t] = [how |-> how, call |-> call]]
    /\ pc' = [pc EXCEPT ![t] = "idle"]
    /\ lock' = Nobody
    /\ have' = "nothing"
    /\ UNCHANGED <<packer, tags, tag>>

(* select finds the socket not writable: socket.timeout, nothing was sent. *)
SendTimeout(t) ==
    /\ pc[t] = "send"
    /\ Finish(t, "timeout", NoCall)
    /\ UNCHANGED <<lastxid, channel>>

Reading(t, what) == pc[t] = "recv" /\ have = what /\ stream # <<>>

(* _recvrecord waits for a marker: it reads four bytes, one unit.          *)
ReadMarker(t) ==
    /\ Reading(t, "nothing")
    /\ Head(stream).kind = "marker"
    /\ have' = "marker"
    /\ stream' = Tail(stream)
    /\ UNCHANGED <<lastxid, packer, lock, pc, tags, tag, result, todo, net>>

(* Half of the body is there: it goes to the local buffer.                 *)
ReadFront(t) ==
    /\ Reading(t, "marker") /\ Len(stream) = 1
    /\ have' = "front"
    /\ stream' = Tail(stream)
    /\ UNCHANGED <<lastxid, packer, lock, pc, tags, tag, result, todo, net>>

(* Each recv() asks for the length of the whole body, whatever is in the   *)
(* buffer already; what it gets beyond the end of the record is dropped    *)
(* with the buffer.                                                        *)
Rest == IF Len(stream) <= 2 THEN <<>> ELSE Tail(Tail(stream))

BodyThere(t) == Reading(t, "front") \/ (Reading(t, "marker") /\ Len(stream) >= 2)

(* do_call compares the xid of a complete record with lastxid: its own     *)
(* reply ends the call, an older one is discarded and another record is    *)
(* read, a newer one ("packet from the future?") raises an RPCError.       *)
ReadBody(t) ==
    /\ BodyThere(t)
    /\ stream' = Rest
    /\ LET reply == Head(stream).call
       IN  IF reply.xid < lastxid
             THEN /\ have' = "nothing"
                  /\ UNCHANGED <<packer, lock, pc, tags, tag, result>>
             ELSE Finish(t, IF reply.xid = lastxid THEN "reply" ELSE "future", reply)
    /\ UNCHANGED <<lastxid, todo, net>>

(* A body where a marker is expected: its first bytes, the xid of a reply, *)
(* are taken for a length, and the reader swallows what comes ...          *)
ReadGarbage(t) ==
    /\ pc[t] = "recv" /\ stream # <<>>
    /\ have = "garbage" \/ (have = "nothing" /\ Head(stream).kind # "marker")
    /\ have' = "garbage"
    /\ stream' = Tail(stream)
    /\ UNCHANGED <<lastxid, packer, lock, pc, tags, tag, result, todo, net>>

(* ... until that many bytes have come and do not unpack, or it times out. *)
(* (That they unpack as the reply to lastxid is taken to be impossible.)   *)
GarbageError(t) ==
    /\ pc[t] = "recv" /\ have = "garbage"
    /\ Finish(t, "error", NoCall)
    /\ UNCHANGED <<lastxid, channel>>

(* A plausible slip: the deadline is only looked at between records.       *)
ReadTimeoutBetween(t) ==
    /\ pc[t] = "recv" /\ stream = <<>>
    /\ have = "nothing"
    /\ Finish(t, "timeout", NoCall)
    /\ UNCHANGED <<lastxid, channel>>

(* _recvrecord gives up only when select finds nothing to read; the part   *)
(* of a record it holds in `buffer` and `record` goes with it.             *)
ReadTimeout(t) ==
    /\ pc[t] = "recv" /\ stream = <<>>
    /\ have \in {"marker", "front"} => MidTimeouts
    /\ Finish(t, "timeout", NoCall)
    /\ UNCHANGED <<lastxid, channel>>

-----------------------------------------------------------------------------
(* The instrument answers the calls it has received one by one, unless it  *)
(* has broken down; the units of its replies may arrive apart.             *)
Record(c) ==
    <<[kind |-> "marker", call |-> c], [kind |-> "front", call |-> c], [kind |-> "back", call |-> c]>>

Answer ==
    /\ todo # <<>>
    /\ todo' = Tail(todo)
    /\ IF Pieces THEN net' = net \o Record(Head(todo)) /\ UNCHANGED stream
                 ELSE stream' = stream \o Record(Head(todo)) /\ UNCHANGED net
    /\ UNCHANGED client

Arrive ==
    /\ net # <<>>
    /\ stream' = Append(stream, Head(net))
    /\ net' = Tail(net)
    /\ UNCHANGED <<client, todo>>

(* It may also leave a call unanswered.                                    *)
Ignore ==
    /\ todo # <<>>
    /\ todo' = Tail(todo)
    /\ UNCHANGED <<client, net, stream>>

ThreadStep(t) ==
    \/ SendRecord(t) \/ SendTimeout(t)
    \/ ReadMarker(t) \/ ReadFront(t) \/ ReadBody(t)
    \/ ReadGarbage(t) \/ GarbageError(t) \/ ReadTimeout(t)

Next ==
    \/ \E t \in Threads : StartCall(t) \/ ThreadStep(t)
    \/ Answer \/ Arrive \/ Ignore

(* A thread in a call goes on, and its selects time out.  Nothing is asked *)
(* of the instrument, which may fall silent in the middle of a record,     *)
(* unless timeouts are kept out of records.                                *)
Fairness ==
    /\ \A t \in Threads : WF_vars(ThreadStep(t))
    /\ ~ MidTimeouts => WF_vars(Arrive)

Spec == Init /\ [][Next]_vars /\ Fairness

-----------------------------------------------------------------------------
(* What calls and replies say of each other: xids are handed out one per   *)
(* make_call, and what the instrument has been sent or has answered is a   *)
(* call made by now.                                                       *)
Known(c) == c.xid = c.tag /\ c.xid <= lastxid

XidPerCall ==
    /\ lastxid = tags
    /\ Known(packer)
    /\ \A i \in 1..Len(todo) : Known(todo[i])
    /\ \A i \in 1..Len(net) : Known(net[i].call)
    /\ \A i \in 1..Len(stream) : Known(stream[i].call)

(* Only the thread that holds the lock is in a call, the latest one.       *)
LockInv ==
    \A t \in Threads :
        /\ pc[t] # "idle" <=> lock = t
        /\ pc[t] # "idle" => tag[t] = tags

(* A call that returns a result returns the reply to that very call, not   *)
(* the late reply to an earlier one that timed out, nor the reply to a     *)
(* call of another thread.                                                 *)
OwnReply ==
    \A t \in Threads : result[t].how = "reply" => result[t].call.tag = tag[t]

(* "packet from the future?": do_call's last branch is never taken.        *)
NoFuture ==
    \A t \in Threads : result[t].how # "future"

(* The inductive invariant behind OwnReply and NoFuture.                   *)
Inv == TypeOK /\ XidPerCall /\ LockInv /\ OwnReply /\ NoFuture

(* What a call that waits for its reply may still have to read, counted in *)
(* steps of the instrument, of the network and of _recvrecord.             *)
ToRead == 7 * Len(todo) + 2 * Len(net) + Len(stream)

(* Why do_call does not read stale replies for ever: nobody else can send  *)
(* anything meanwhile, so whatever happens while it waits ends the call or *)
(* leaves less to read.                                                    *)
CallsAdvance ==
    [][\A t \in Threads :
         pc[t] # "idle" =>
            \/ pc'[t] = "idle" \/ (pc[t] = "send" /\ pc'[t] = "recv")
            \/ pc'[t] = pc[t] /\ ToRead' < ToRead]_vars

(* Every call ends, however many stale replies it has to skip and whether  *)
(* or not the instrument answers.                                          *)
CallsEnd ==
    /\ CallsAdvance
    /\ \A t \in Threads : pc[t] # "idle" ~> pc[t] = "idle"

(* The connection implements the remote call: no call is sent or returned  *)
(* twice, or out of turn, or with the result of another.                   *)
CallSent == \E t \in Threads : pc[t] = "recv"
TagsOf(calls) == [i \in 1..Len(calls) |-> calls[i].tag]
Replied(units) == {units[i].call.tag : i \in 1..Len(units)}
ReturnedTo == [t \in Threads |-> IF result[t].how = "reply" THEN result[t].call.tag ELSE 0]

Remote == INSTANCE RemoteCall WITH
    made <- tags, caller <- lock, sent <- CallSent, waiting <- TagsOf(todo),
    replies <- Replied(net) \cup Replied(stream), got <- ReturnedTo

ImplementsRemoteCall == Remote!CSpec

(* "Stale data in buffer due to interruption": what an interrupted call    *)
(* leaves behind is a sequence of whole records the next call can skip.    *)
StreamAligned ==
    (have = "nothing" /\ stream # <<>>) => Head(stream).kind = "marker"
=============================================================================

-------------------------- MODULE TcpClientsProofs --------------------------
(***************************************************************************)
(* The clients of a TCP socket: no call of RpcClient returns the reply to  *)
(* another, for any threads and any number of calls, whether or not        *)
(* records arrive in pieces and timeouts strike in the middle of them; and *)
(* how long open() of TcpOpen waits for a connection that nobody answers,  *)
(* and what it says of the instrument, for every open_timeout.             *)
(***************************************************************************)
EXTENDS RpcClient, TcpOpen, Discovery, TLAPS

(* RpcClient: Inv is an inductive invariant.                               *)
(* What a reader consumes leaves known replies in the socket buffer.       *)
LEMMA TailKnown ==
  ASSUME NEW s \in Seq(Unit), s # <<>>, \A i \in 1..Len(s) : Known(s[i].call)
  PROVE  /\ Tail(s) \in Seq(Unit)
         /\ Head(s) \in Unit
         /\ Known(Head(s).call)
         /\ \A i \in 1..Len(Tail(s)) : Known(Tail(s)[i].call)
  <1>1. Tail(s) \in Seq(Unit) /\ Len(Tail(s)) = Len(s) - 1 /\ Len(s) \in Nat \ {0}
    OBVIOUS
  <1>2. \A i \in 1..Len(Tail(s)) : Tail(s)[i] = s[i + 1] /\ i + 1 \in 1..Len(s)
    BY <1>1
  <1>3. Head(s) = s[1] /\ 1 \in 1..Len(s) /\ s[1] \in Unit
    BY <1>1
  <1> QED BY <1>1, <1>2, <1>3

(* There is something left of three units after one is read.               *)
LEMMA TailNonEmpty ==
  ASSUME NEW s \in Seq(Unit), ~ (Len(s) <= 2)
  PROVE  Tail(s) # <<>>
  <1>1. Len(s) \in Nat /\ Len(s) > 2
    OBVIOUS
  <1>2. Len(Tail(s)) = Len(s) - 1
    BY <1>1
  <1>3. 1 \in DOMAIN Tail(s)
    BY <1>1, <1>2
  <1>4. DOMAIN <<>> = {}
    OBVIOUS
  <1> QED BY <1>3, <1>4

(* The record that answers a call consists of units of that call.          *)
LEMMA RecordKnown ==
  ASSUME NEW c \in Call, Known(c)
  PROVE  /\ Record(c) \in Seq(Unit)
         /\ \A i \in 1..Len(Record(c)) : Known(Record(c)[i].call)
  BY DEF Record, Unit

(* Replies that are put behind others are known if all of them are.        *)
LEMMA ConcatKnown ==
  ASSUME NEW s \in Seq(Unit), \A i \in 1..Len(s) : Known(s[i].call),
         NEW r \in Seq(Unit), \A i \in 1..Len(r) : Known(r[i].call)
  PROVE  /\ s \o r \in Seq(Unit)
         /\ \A i \in 1..Len(s \o r) : Known((s \o r)[i].call)
  <1>1. s \o r \in Seq(Unit) /\ Len(s \o r) = Len(s) + Len(r)
    OBVIOUS
  <1>2. ASSUME NEW i \in 1..Len(s \o r)
        PROVE  Known((s \o r)[i].call)
    <2>1. CASE i <= Len(s)
      BY <2>1, <1>1
    <2>2. CASE i > Len(s)
      <3>1. i - Len(s) \in 1..Len(r) /\ (s \o r)[i] = r[i - Len(s)]
        BY <2>2, <1>1
      <3> QED BY <3>1
    <2> QED BY <2>1, <2>2
  <1> QED BY <1>1, <1>2

(* The first state has no calls and no results.                            *)
LEMMA InitInv == Init => Inv
  BY ConstantsAssumption
  DEF Init, Inv, TypeOK, XidPerCall, LockInv, OwnReply, NoFuture, Known, Call, Unit, NoCall, None

(* A new call: the thread has the lock, so nobody else is in a call, and   *)
(* its xid and tag are the next.                                           *)
LEMMA StartCallInv ==
  ASSUME Inv, NEW t \in Threads, StartCall(t)
  PROVE  Inv'
  <1> USE DEF Inv, StartCall, LockFree, channel
  <1>1. TypeOK'
    BY DEF TypeOK, Call, None, NoCall
  <1>2. XidPerCall'
    <2>1. lastxid' = tags' /\ Known(packer)'
      BY DEF TypeOK, XidPerCall, Known
    <2>2. \A c \in Call : Known(c) => Known(c)'
      BY DEF TypeOK, Known, Call
    <2>3. /\ \A i \in 1..Len(todo) : todo[i] \in Call
          /\ \A i \in 1..Len(net) : net[i].call \in Call
          /\ \A i \in 1..Len(stream) : stream[i].call \in Call
      <3>1. todo \in Seq(Call) /\ net \in Seq(Unit) /\ stream \in Seq(Unit)
        BY DEF TypeOK
      <3>2. \A i \in 1..Len(todo) : todo[i] \in Call
        BY <3>1
      <3>3. \A i \in 1..Len(net) : net[i] \in Unit
        BY <3>1
      <3>4. \A i \in 1..Len(stream) : stream[i] \in Unit
        BY <3>1
      <3> QED BY <3>2, <3>3, <3>4 DEF Unit
    <2>4. UNCHANGED <<todo, net, stream>>
      BY DEF StartCall, channel
    <2>5. /\ \A i \in 1..Len(todo) : Known(todo[i])
          /\ \A i \in 1..Len(net) : Known(net[i].call)
          /\ \A i \in 1..Len(stream) : Known(stream[i].call)
      BY DEF XidPerCall
    <2>6. /\ (\A i \in 1..Len(todo) : Known(todo[i]))'
          /\ (\A i \in 1..Len(net) : Known(net[i].call))'
          /\ (\A i \in 1..Len(stream) : Known(stream[i].call))'
      BY <2>2, <2>3, <2>4, <2>5
    <2> QED BY <2>1, <2>6 DEF XidPerCall
  <1>3. LockInv'
    BY ConstantsAssumption DEF TypeOK, LockInv
  <1>4. OwnReply' /\ NoFuture'
    BY DEF TypeOK, OwnReply, NoFuture, None
  <1> QED BY <1>1, <1>2, <1>3, <1>4

(* A call that fails leaves the lock, and nothing is known of its result.  *)
LEMMA FinishInv ==
  ASSUME Inv, NEW t \in Threads, pc[t] # "idle",
         NEW how \in {"timeout", "error"}, Finish(t, how, NoCall), UNCHANGED <<lastxid, channel>>
  PROVE  Inv'
  <1> USE DEF Inv, Finish, channel
  <1>1. TypeOK'
    BY DEF TypeOK, Call, NoCall
  <1>2. XidPerCall'
    BY DEF XidPerCall, Known
  <1>3. LockInv'
    BY ConstantsAssumption DEF TypeOK, LockInv
  <1>4. OwnReply' /\ NoFuture'
    BY DEF TypeOK, OwnReply, NoFuture
  <1> QED BY <1>1, <1>2, <1>3, <1>4

(* Units taken from the socket buffer into the local one change no call.   *)
LEMMA ConsumeInv ==
  ASSUME Inv, stream # <<>>, stream' = Tail(stream),
         have' \in {"nothing", "marker", "front", "garbage"},
         UNCHANGED <<lastxid, packer, lock, pc, tags, tag, result, todo, net>>
  PROVE  Inv'
  <1> USE DEF Inv
  <1>1. Tail(stream) \in Seq(Unit) /\ \A i \in 1..Len(Tail(stream)) : Known(Tail(stream)[i].call)
    BY TailKnown DEF TypeOK, XidPerCall
  <1>2. TypeOK'
    BY <1>1 DEF TypeOK
  <1>3. XidPerCall'
    BY <1>1 DEF XidPerCall, Known
  <1>4. LockInv' /\ OwnReply' /\ NoFuture'
    BY DEF LockInv, OwnReply, NoFuture
  <1> QED BY <1>2, <1>3, <1>4

(* A complete record: the reply in it is known, so its xid is not ahead of *)
(* lastxid, and if it is lastxid its tag is that of the call in progress.  *)
LEMMA ReadBodyInv ==
  ASSUME Inv, NEW t \in Threads, ReadBody(t)
  PROVE  Inv'
  <1> USE DEF Inv
  <1> DEFINE reply == Head(stream).call
  <1>1. stream # <<>> /\ pc[t] = "recv" /\ stream' = Rest /\ UNCHANGED <<lastxid, todo, net>>
    BY DEF ReadBody, BodyThere, Reading
  <1>2. /\ Tail(stream) \in Seq(Unit) /\ Head(stream) \in Unit /\ Known(reply)
        /\ \A i \in 1..Len(Tail(stream)) : Known(Tail(stream)[i].call)
    BY <1>1, TailKnown DEF TypeOK, XidPerCall
  <1>3. Rest \in Seq(Unit) /\ \A i \in 1..Len(Rest) : Known(Rest[i].call)
    <2>1. CASE Len(stream) <= 2
      BY <2>1 DEF Rest
    <2>2. CASE ~ (Len(stream) <= 2)
      <3>1. Tail(stream) # <<>>
        BY <2>2, TailNonEmpty DEF TypeOK
      <3> QED BY <3>1, <2>2, <1>2, TailKnown DEF Rest
    <2> QED BY <2>1, <2>2
  <1>4. reply \in Call /\ reply.xid = reply.tag /\ reply.xid \in Nat /\ reply.xid <= lastxid
    BY <1>2 DEF Unit, Call, Known
  <1>5. CASE reply.xid < lastxid
    <2>1. have' = "nothing" /\ UNCHANGED <<packer, lock, pc, tags, tag, result>>
      BY <1>5 DEF ReadBody
    <2>2. TypeOK'
      BY <1>1, <1>3, <2>1 DEF TypeOK
    <2>3. XidPerCall'
      BY <1>1, <1>3, <2>1 DEF XidPerCall, Known
    <2>4. LockInv' /\ OwnReply' /\ NoFuture'
      BY <2>1 DEF LockInv, OwnReply, NoFuture
    <2> QED BY <2>2, <2>3, <2>4
  <1>6. CASE reply.xid = lastxid
    <2>1. Finish(t, "reply", reply)
      BY <1>6 DEF ReadBody, TypeOK
    <2>2. reply.tag = tag[t]
      BY <1>1, <1>4, <1>6 DEF LockInv, XidPerCall
    <2>3. TypeOK'
      BY <1>1, <1>3, <1>4, <2>1 DEF TypeOK, Finish
    <2>4. XidPerCall'
      BY <1>1, <1>3, <2>1 DEF XidPerCall, Known, Finish
    <2>5. LockInv'
      BY <1>1, <2>1, ConstantsAssumption DEF TypeOK, LockInv, Finish
    <2>6. OwnReply' /\ NoFuture'
      BY <2>1, <2>2 DEF TypeOK, OwnReply, NoFuture, Finish
    <2> QED BY <2>3, <2>4, <2>5, <2>6
  <1> QED BY <1>4, <1>5, <1>6 DEF TypeOK

(* _sendrecord hands the packed call to the instrument.                    *)
LEMMA SendRecordInv ==
  ASSUME Inv, NEW t \in Threads, SendRecord(t)
  PROVE  Inv'
  <1> USE DEF Inv, SendRecord
  <1>1. TypeOK'
    BY DEF TypeOK
  <1>2. XidPerCall'
    BY DEF TypeOK, XidPerCall, Known
  <1>3. LockInv' /\ OwnReply' /\ NoFuture'
    BY DEF TypeOK, LockInv, OwnReply, NoFuture
  <1> QED BY <1>1, <1>2, <1>3

(* The instrument answers only calls it was sent, and units arrive as they *)
(* were sent.                                                              *)
LEMMA InstrumentInv ==
  ASSUME Inv, Answer \/ Arrive \/ Ignore
  PROVE  Inv'
  <1> USE DEF Inv
  <1>1. UNCHANGED client
    BY DEF Answer, Arrive, Ignore
  <1>2. SUFFICES /\ todo' \in Seq(Call) /\ net' \in Seq(Unit) /\ stream' \in Seq(Unit)
                 /\ \A i \in 1..Len(todo') : Known(todo'[i])
                 /\ \A i \in 1..Len(net') : Known(net'[i].call)
                 /\ \A i \in 1..Len(stream') : Known(stream'[i].call)
    <2>1. TypeOK'
      BY <1>1, <1>2 DEF client, TypeOK
    <2>2. XidPerCall'
      BY <1>1, <1>2 DEF client, XidPerCall, Known
    <2>3. LockInv' /\ OwnReply' /\ NoFuture'
      BY <1>1 DEF client, LockInv, OwnReply, NoFuture
    <2> QED BY <2>1, <2>2, <2>3
  <1>3. /\ todo \in Seq(Call) /\ net \in Seq(Unit) /\ stream \in Seq(Unit)
        /\ \A i \in 1..Len(todo) : Known(todo[i])
        /\ \A i \in 1..Len(net) : Known(net[i].call)
        /\ \A i \in 1..Len(stream) : Known(stream[i].call)
    BY DEF TypeOK, XidPerCall
  <1>4. ASSUME todo # <<>>
        PROVE  /\ Tail(todo) \in Seq(Call) /\ Head(todo) \in Call /\ Known(Head(todo))
               /\ \A i \in 1..Len(Tail(todo)) : Known(Tail(todo)[i])
    <2>1. Len(todo) \in Nat \ {0} /\ Len(Tail(todo)) = Len(todo) - 1 /\ Tail(todo) \in Seq(Call)
      BY <1>3, <1>4
    <2>2. \A i \in 1..Len(Tail(todo)) : Tail(todo)[i] = todo[i + 1] /\ i + 1 \in 1..Len(todo)
      BY <1>3, <1>4, <2>1
    <2>3. Head(todo) = todo[1] /\ 1 \in 1..Len(todo)
      BY <2>1
    <2> QED BY <1>3, <2>1, <2>2, <2>3
  <1>5. CASE Answer
    <2>1. Record(Head(todo)) \in Seq(Unit)
          /\ \A i \in 1..Len(Record(Head(todo))) : Known(Record(Head(todo))[i].call)
      BY <1>4, <1>5, RecordKnown DEF Answer
    <2>2. /\ net \o Record(Head(todo)) \in Seq(Unit)
          /\ \A i \in 1..Len(net \o Record(Head(todo))) : Known((net \o Record(Head(todo)))[i].call)
      BY <1>3, <2>1, ConcatKnown
    <2>3. /\ stream \o Record(Head(todo)) \in Seq(Unit)
          /\ \A i \in 1..Len(stream \o Record(Head(todo))) : Known((stream \o Record(Head(todo)))[i].call)
      BY <1>3, <2>1, ConcatKnown
    <2>4. todo # <<>> /\ todo' = Tail(todo)
      BY <1>5 DEF Answer
    <2>5. \/ net' = net \o Record(Head(todo)) /\ stream' = stream
          \/ net' = net /\ stream' = stream \o Record(Head(todo))
      BY <1>5 DEF Answer
    <2> QED BY <1>3, <1>4, <2>2, <2>3, <2>4, <2>5
  <1>6. CASE Arrive
    <2>1. net # <<>> /\ net' = Tail(net) /\ stream' = Append(stream, Head(net)) /\ todo' = todo
      BY <1>6 DEF Arrive
    <2>2. /\ Tail(net) \in Seq(Unit) /\ Head(net) \in Unit /\ Known(Head(net).call)
          /\ \A i \in 1..Len(Tail(net)) : Known(Tail(net)[i].call)
      BY <1>3, <2>1, TailKnown
    <2>3. stream' \in Seq(Unit) /\ \A i \in 1..Len(stream') : Known(stream'[i].call)
      BY <1>3, <2>1, <2>2
    <2> QED BY <1>3, <2>1, <2>2, <2>3
  <1>7. CASE Ignore
    BY <1>3, <1>4, <1>7 DEF Ignore
  <1> QED BY <1>5, <1>6, <1>7

(* Inv is inductive.                                                       *)
LEMMA NextInv == Inv /\ [Next]_vars => Inv'
  <1> SUFFICES ASSUME Inv, [Next]_vars PROVE Inv'
    OBVIOUS
  <1>1. ASSUME NEW t \in Threads, StartCall(t) \/ ThreadStep(t)
        PROVE  Inv'
    <2>1. CASE StartCall(t)
      BY <2>1, StartCallInv
    <2>2. CASE SendRecord(t)
      BY <2>2, SendRecordInv
    <2>3. CASE SendTimeout(t) \/ GarbageError(t) \/ ReadTimeout(t)
      <3>1. pc[t] # "idle" /\ UNCHANGED <<lastxid, channel>>
        BY <2>3 DEF SendTimeout, GarbageError, ReadTimeout
      <3>2. Finish(t, "timeout", NoCall) \/ Finish(t, "error", NoCall)
        BY <2>3 DEF SendTimeout, GarbageError, ReadTimeout
      <3> QED BY <3>1, <3>2, FinishInv
    <2>4. CASE ReadMarker(t) \/ ReadFront(t) \/ ReadGarbage(t)
      BY <2>4, ConsumeInv DEF ReadMarker, ReadFront, ReadGarbage, Reading
    <2>5. CASE ReadBody(t)
      BY <2>5, ReadBodyInv
    <2> QED BY <1>1, <2>1, <2>2, <2>3, <2>4, <2>5 DEF ThreadStep
  <1>2. CASE Answer \/ Arrive \/ Ignore
    BY <1>2, InstrumentInv
  <1>3. CASE UNCHANGED vars
    BY <1>3 DEF vars, client, channel, Inv, TypeOK, XidPerCall, LockInv, OwnReply, NoFuture, Known
  <1> QED BY <1>1, <1>2, <1>3 DEF Next

(* In every reachable state calls and replies are what Inv says they are.  *)
THEOREM Safety == Spec => []Inv
  BY InitInv, NextInv, PTL DEF Spec

(* A make_call() that returns a result returns the reply to that very      *)
(* call: neither a late reply to a call that timed out nor the reply to    *)
(* another thread's call, and do_call never sees a "packet from the        *)
(* future".                                                                *)
THEOREM OwnReplies == Spec => [](OwnReply /\ NoFuture)
  BY Safety, PTL DEF Inv

-----------------------------------------------------------------------------
(* What CallsAdvance says of one thread.                                   *)
CallAdvances(t) ==
    pc[t] # "idle" =>
        \/ pc'[t] = "idle" \/ (pc[t] = "send" /\ pc'[t] = "recv")
        \/ pc'[t] = pc[t] /\ ToRead' < ToRead

(* Taking a unit, or two, from the buffer leaves fewer to read.            *)
LEMMA ReadLess ==
  ASSUME Inv, stream # <<>>, stream' = Tail(stream) \/ stream' = Rest, UNCHANGED <<todo, net>>
  PROVE  ToRead' < ToRead
  <1>1. todo \in Seq(Call) /\ net \in Seq(Unit) /\ stream \in Seq(Unit)
    BY DEF Inv, TypeOK
  <1>2. Len(todo) \in Nat /\ Len(net) \in Nat /\ Len(stream) \in Nat \ {0}
    BY <1>1
  <1>3. Tail(stream) \in Seq(Unit) /\ Len(Tail(stream)) = Len(stream) - 1
    BY <1>1
  <1>4. Len(Rest) \in Nat /\ Len(Rest) < Len(stream)
    <2>1. CASE Len(stream) <= 2
      BY <1>2, <2>1 DEF Rest
    <2>2. CASE ~ (Len(stream) <= 2)
      <3>1. Tail(stream) # <<>>
        BY <1>1, <2>2, TailNonEmpty
      <3>2. Len(Tail(Tail(stream))) = Len(Tail(stream)) - 1
        BY <1>3, <3>1
      <3>3. Rest = Tail(Tail(stream))
        BY <2>2 DEF Rest
      <3> QED BY <1>2, <1>3, <2>2, <3>2, <3>3
    <2> QED BY <2>1, <2>2
  <1>5. Len(stream') \in Nat /\ Len(stream') < Len(stream)
    BY <1>2, <1>3, <1>4
  <1>6. Len(todo') = Len(todo) /\ Len(net') = Len(net)
    OBVIOUS
  <1> QED BY <1>2, <1>5, <1>6 DEF ToRead

LEMMA ConcatLength ==
  ASSUME NEW s \in Seq(Unit), NEW r \in Seq(Unit)
  PROVE  s \o r \in Seq(Unit) /\ Len(s \o r) = Len(s) + Len(r)
  OBVIOUS

(* So does the instrument when it answers or ignores a call, and so does   *)
(* what the network delivers.                                              *)
LEMMA InstrumentLess ==
  ASSUME Inv, Answer \/ Arrive \/ Ignore
  PROVE  ToRead' < ToRead /\ pc' = pc
  <1>1. todo \in Seq(Call) /\ net \in Seq(Unit) /\ stream \in Seq(Unit)
    BY DEF Inv, TypeOK
  <1>2. Len(todo) \in Nat /\ Len(net) \in Nat /\ Len(stream) \in Nat
    BY <1>1
  <1>3. ASSUME todo # <<>>, todo' = Tail(todo) PROVE Len(todo') = Len(todo) - 1
    BY <1>1, <1>3
  <1>4. CASE Answer
    <2> DEFINE r == Record(Head(todo))
    <2>1. /\ todo # <<>> /\ todo' = Tail(todo)
          /\ \/ net' = net \o r /\ stream' = stream
             \/ net' = net /\ stream' = stream \o r
      BY <1>4 DEF Answer
    <2>2. r \in Seq(Unit) /\ Len(r) = 3
      <3>1. Head(todo) \in Call
        BY <1>1, <2>1
      <3> QED BY <3>1 DEF Record, Unit
    <2> HIDE DEF r
    <2>3. Len(net \o r) = Len(net) + 3 /\ Len(stream \o r) = Len(stream) + 3
      <3>1. Len(net \o r) = Len(net) + Len(r) /\ Len(stream \o r) = Len(stream) + Len(r)
        BY ONLY <1>1, <2>2, ConcatLength
      <3> QED BY ONLY <3>1, <2>2
    <2>4. \/ Len(net') = Len(net) + 3 /\ Len(stream') = Len(stream)
          \/ Len(net') = Len(net) /\ Len(stream') = Len(stream) + 3
      BY <2>1, <2>3
    <2> QED BY <1>2, <1>3, <1>4, <2>1, <2>4 DEF ToRead, Answer, client
  <1>5. CASE Arrive
    <2>1. net # <<>> /\ net' = Tail(net) /\ stream' = Append(stream, Head(net)) /\ todo' = todo
      BY <1>5 DEF Arrive
    <2>2. Len(net') = Len(net) - 1 /\ Head(net) \in Unit
      BY <1>1, <2>1
    <2>3. Len(stream') = Len(stream) + 1
      BY <1>1, <2>1, <2>2
    <2> QED BY <1>2, <1>5, <2>1, <2>2, <2>3 DEF ToRead, Arrive, client
  <1>6. CASE Ignore
    <2>1. todo # <<>> /\ todo' = Tail(todo) /\ net' = net /\ stream' = stream /\ pc' = pc
      BY <1>6 DEF Ignore, client
    <2> QED BY <1>2, <1>3, <2>1 DEF ToRead
  <1> QED BY <1>4, <1>5, <1>6

LEMMA StepAdvances ==
  ASSUME Inv, Next, NEW t \in Threads
  PROVE  CallAdvances(t)
  <1>1. pc \in [Threads -> {"idle", "send", "recv"}]
    BY DEF Inv, TypeOK
  <1>2. ASSUME NEW u \in Threads, StartCall(u) PROVE CallAdvances(t)
    <2>1. lock = Nobody
      BY <1>2 DEF StartCall, LockFree
    <2>2. pc[t] = "idle"
      BY <2>1, ConstantsAssumption DEF Inv, LockInv
    <2> QED BY <2>2 DEF CallAdvances
  <1>3. ASSUME NEW u \in Threads, ThreadStep(u), pc[t] # "idle" PROVE u = t
    <2>1. pc[u] # "idle"
      BY <1>3 DEF ThreadStep, SendRecord, SendTimeout, ReadMarker, ReadFront, ReadBody, ReadGarbage,
             GarbageError, ReadTimeout, BodyThere, Reading
    <2> QED BY <1>3, <2>1 DEF Inv, LockInv
  <1>4. ASSUME SendRecord(t) PROVE CallAdvances(t)
    BY <1>1, <1>4 DEF SendRecord, CallAdvances
  <1>5. ASSUME SendTimeout(t) \/ GarbageError(t) \/ ReadTimeout(t) PROVE CallAdvances(t)
    BY <1>1, <1>5 DEF SendTimeout, GarbageError, ReadTimeout, Finish, CallAdvances
  <1>6. ASSUME ReadMarker(t) \/ ReadFront(t) \/ ReadGarbage(t) PROVE CallAdvances(t)
    <2>1. stream # <<>> /\ stream' = Tail(stream) /\ UNCHANGED <<todo, net>> /\ pc' = pc
      BY <1>6 DEF ReadMarker, ReadFront, ReadGarbage, Reading
    <2>2. ToRead' < ToRead
      BY <2>1, ReadLess
    <2> QED BY <2>1, <2>2 DEF CallAdvances
  <1>7. ASSUME ReadBody(t) PROVE CallAdvances(t)
    <2>1. /\ stream # <<>> /\ stream' = Rest /\ UNCHANGED <<todo, net>>
          /\ pc' = pc \/ pc' = [pc EXCEPT ![t] = "idle"]
      BY <1>7 DEF ReadBody, BodyThere, Reading, Finish
    <2>2. ToRead' < ToRead
      BY <2>1, ReadLess
    <2> QED BY <1>1, <2>1, <2>2 DEF CallAdvances
  <1>8. ASSUME Answer \/ Arrive \/ Ignore PROVE CallAdvances(t)
    BY <1>8, InstrumentLess DEF CallAdvances
  <1>9. ASSUME NEW u \in Threads, ThreadStep(u) PROVE CallAdvances(t)
    <2>1. CASE pc[t] = "idle"
      BY <2>1 DEF CallAdvances
    <2>2. CASE pc[t] # "idle"
      <3>1. ThreadStep(t)
        BY <1>3, <1>9, <2>2
      <3> QED BY <3>1, <1>4, <1>5, <1>6, <1>7 DEF ThreadStep
    <2> QED BY <2>1, <2>2
  <1> QED BY <1>2, <1>8, <1>9 DEF Next

(* While a thread is in a remote call, whatever happens ends the call,     *)
(* sends it, or leaves less to read: however many stale replies do_call    *)
(* has to discard, and whatever the other threads do, it can not go on for *)
(* ever (make_call of tcpip.py, do_call and _recvrecord of rpc.py).        *)
THEOREM Calls_advance == Spec => CallsAdvance
  <1>1. Inv /\ [Next]_vars => [\A t \in Threads : CallAdvances(t)]_vars
    BY StepAdvances
  <1> QED BY <1>1, Safety, PTL DEF Spec, CallsAdvance, CallAdvances

-----------------------------------------------------------------------------
(* RpcClient implements RemoteCall.  Beyond Inv this needs that the packer *)
(* holds the latest call, and that a thread in a call has no result yet.   *)
Packed ==
    /\ packer.tag = tags
    /\ \A t \in Threads : pc[t] # "idle" => result[t].how = "none"

LEMMA InitPacked == Init => Packed
  BY DEF Init, Packed, NoCall

LEMMA NextPacked == Inv /\ Packed /\ [Next]_vars => Packed'
  <1> SUFFICES ASSUME Inv, Packed, [Next]_vars PROVE Packed'
    OBVIOUS
  <1>1. /\ pc \in [Threads -> {"idle", "send", "recv"}]
        /\ result \in [Threads -> [how : {"none", "reply", "timeout", "error", "future"}, call : Call]]
    BY DEF Inv, TypeOK
  <1>2. ASSUME NEW t \in Threads, StartCall(t) PROVE Packed'
    BY <1>1, <1>2 DEF StartCall, Packed, None
  <1>3. ASSUME NEW t \in Threads, SendRecord(t) PROVE Packed'
    BY <1>1, <1>3 DEF SendRecord, Packed
  <1>4. ASSUME NEW t \in Threads, NEW how, NEW call, Finish(t, how, call) PROVE Packed'
    BY <1>1, <1>4 DEF Finish, Packed
  <1>5. ASSUME UNCHANGED <<packer, tags, pc, result>> PROVE Packed'
    BY <1>5 DEF Packed
  <1>6. ASSUME NEW t \in Threads, ThreadStep(t) PROVE Packed'
    <2>1. \/ SendRecord(t)
          \/ \E how, call : Finish(t, how, call)
          \/ UNCHANGED <<packer, tags, pc, result>>
      BY <1>6 DEF ThreadStep, SendTimeout, ReadMarker, ReadFront, ReadBody, ReadGarbage,
           GarbageError, ReadTimeout
    <2> QED BY <2>1, <1>3, <1>4, <1>5
  <1>7. ASSUME Answer \/ Arrive \/ Ignore \/ UNCHANGED vars PROVE Packed'
    BY <1>5, <1>7 DEF Answer, Arrive, Ignore, vars, client
  <1> QED BY <1>2, <1>6, <1>7 DEF Next

(* How the steps of the connection look on the calls alone.                *)
LEMMA TagsSent ==
  ASSUME NEW calls \in Seq(Call), NEW c \in Call
  PROVE  TagsOf(Append(calls, c)) = Append(TagsOf(calls), c.tag)
  BY DEF TagsOf, Call

LEMMA TagsTaken ==
  ASSUME NEW calls \in Seq(Call), calls # <<>>
  PROVE  /\ TagsOf(calls) # <<>>
         /\ TagsOf(Tail(calls)) = Tail(TagsOf(calls))
         /\ Head(TagsOf(calls)) = Head(calls).tag
  <1> DEFINE tagged == TagsOf(calls)
  <1>1. /\ Len(calls) \in Nat \ {0} /\ Head(calls) = calls[1]
        /\ \A i \in 1..Len(calls) : calls[i].tag \in Nat
    <2>1. Len(calls) \in Nat \ {0} /\ Head(calls) = calls[1]
      OBVIOUS
    <2>2. \A i \in 1..Len(calls) : calls[i] \in Call
      OBVIOUS
    <2>3. \A c \in Call : c.tag \in Nat
      BY DEF Call
    <2> QED BY <2>1, <2>2, <2>3
  <1>2. /\ Len(Tail(calls)) = Len(calls) - 1
        /\ \A i \in 1..Len(calls) - 1 : Tail(calls)[i] = calls[i + 1]
    BY <1>1
  <1>3. tagged = [i \in 1..Len(calls) |-> calls[i].tag]
    BY DEF TagsOf
  <1>4. tagged \in Seq(Nat) /\ Len(tagged) = Len(calls)
    BY <1>1, <1>3
  <1>5. tagged # <<>> /\ Head(tagged) = calls[1].tag
    BY <1>1, <1>3, <1>4
  <1>6. Tail(tagged) = [i \in 1..Len(calls) - 1 |-> calls[i + 1].tag]
    BY <1>1, <1>3, <1>4, <1>5
  <1>7. TagsOf(Tail(calls)) = [i \in 1..Len(calls) - 1 |-> calls[i + 1].tag]
    BY <1>2 DEF TagsOf
  <1> QED BY <1>1, <1>5, <1>6, <1>7

LEMMA RepliedTaken ==
  ASSUME NEW units \in Seq(Unit), units # <<>>
  PROVE  /\ Head(units) \in Unit
         /\ Head(units).call.tag \in Replied(units)
         /\ Replied(units) = {Head(units).call.tag} \cup Replied(Tail(units))
  <1>1. /\ Tail(units) \in Seq(Unit) /\ Len(Tail(units)) = Len(units) - 1
        /\ Len(units) \in Nat \ {0} /\ Head(units) = units[1] /\ units[1] \in Unit
    OBVIOUS
  <1>2. \A i \in 1..Len(Tail(units)) : Tail(units)[i] = units[i + 1]
    BY <1>1
  <1>3. \A i \in 1..Len(units) : i = 1 \/ (i - 1 \in 1..Len(Tail(units)) /\ units[i] = Tail(units)[i - 1])
    BY <1>1, <1>2
  <1>4. \A i \in 1..Len(Tail(units)) : i + 1 \in 1..Len(units)
    BY <1>1
  <1>5. 1 \in 1..Len(units)
    BY <1>1
  <1>6. \A x : x \in Replied(units) <=> \E i \in 1..Len(units) : x = units[i].call.tag
    BY DEF Replied
  <1>7. \A x : x \in Replied(Tail(units)) <=> \E i \in 1..Len(Tail(units)) : x = Tail(units)[i].call.tag
    BY DEF Replied
  <1>8. Head(units).call.tag \in Replied(units)
    BY <1>1, <1>5, <1>6
  <1>9. Replied(Tail(units)) \subseteq Replied(units)
    BY <1>2, <1>4, <1>6, <1>7
  <1>10. ASSUME NEW x \in Replied(units)
         PROVE  x = Head(units).call.tag \/ x \in Replied(Tail(units))
    <2>1. PICK i \in 1..Len(units) : x = units[i].call.tag
      BY <1>6
    <2>2. CASE i = 1
      BY <1>1, <2>1, <2>2
    <2>3. CASE i - 1 \in 1..Len(Tail(units)) /\ units[i] = Tail(units)[i - 1]
      BY <1>7, <2>1, <2>3
    <2> QED BY <1>3, <2>2, <2>3
  <1> QED BY <1>1, <1>8, <1>9, <1>10

LEMMA RepliedJoined ==
  ASSUME NEW left \in Seq(Unit), NEW right \in Seq(Unit)
  PROVE  Replied(left \o right) = Replied(left) \cup Replied(right)
  <1> DEFINE both == left \o right
  <1>1. Len(left) \in Nat /\ Len(right) \in Nat /\ Len(both) = Len(left) + Len(right)
    OBVIOUS
  <1>2. /\ \A i \in 1..Len(left) : i \in 1..Len(both) /\ both[i] = left[i]
        /\ \A i \in 1..Len(right) : /\ Len(left) + i \in 1..Len(both)
                                    /\ both[Len(left) + i] = right[i]
    OBVIOUS
  <1>3. \A i \in 1..Len(both) :
           i \in 1..Len(left) \/ \E k \in 1..Len(right) : i = Len(left) + k
    <2>1. \A i \in 1..Len(both) :
             i \in 1..Len(left) \/ (i - Len(left) \in 1..Len(right) /\ i = Len(left) + (i - Len(left)))
      BY <1>1
    <2> QED BY <2>1
  <1> HIDE DEF both
  <1>4. /\ \A x : x \in Replied(both) <=> \E i \in 1..Len(both) : x = both[i].call.tag
        /\ \A x : x \in Replied(left) <=> \E i \in 1..Len(left) : x = left[i].call.tag
        /\ \A x : x \in Replied(right) <=> \E i \in 1..Len(right) : x = right[i].call.tag
    BY DEF Replied
  <1>5. Replied(left) \subseteq Replied(both) /\ Replied(right) \subseteq Replied(both)
    <2>1. ASSUME NEW x \in Replied(left) PROVE x \in Replied(both)
      <3>1. PICK i \in 1..Len(left) : x = left[i].call.tag
        BY <1>4
      <3> QED BY <1>2, <1>4, <3>1
    <2>2. ASSUME NEW x \in Replied(right) PROVE x \in Replied(both)
      <3>1. PICK i \in 1..Len(right) : x = right[i].call.tag
        BY <1>4
      <3>2. x = both[Len(left) + i].call.tag /\ Len(left) + i \in 1..Len(both)
        BY <1>2, <3>1
      <3> QED BY <1>4, <3>2
    <2> QED BY <2>1, <2>2
  <1>6. ASSUME NEW x \in Replied(both) PROVE x \in Replied(left) \/ x \in Replied(right)
    <2>1. PICK i \in 1..Len(both) : x = both[i].call.tag
      BY <1>4
    <2>2. CASE i \in 1..Len(left)
      BY <1>2, <1>4, <2>1, <2>2
    <2>3. ASSUME NEW k \in 1..Len(right), i = Len(left) + k PROVE x \in Replied(right)
      <3>1. x = right[k].call.tag
        BY <1>2, <2>1, <2>3
      <3> QED BY <1>4, <3>1
    <2> QED BY <1>3, <2>1, <2>2, <2>3
  <1>7. Replied(both) = Replied(left) \cup Replied(right)
    BY <1>5, <1>6
  <1> QED BY <1>7 DEF both

LEMMA RepliedRecord ==
  ASSUME NEW c \in Call
  PROVE  Record(c) \in Seq(Unit) /\ Replied(Record(c)) = {c.tag}
  <1>1. Len(Record(c)) = 3 /\ Record(c) \in Seq(Unit)
    BY DEF Record, Unit
  <1>2. \A i \in 1..3 : Record(c)[i].call = c
    BY DEF Record
  <1> QED BY <1>1, <1>2 DEF Replied

(* A call of the abstract level begins, is sent, and is over.              *)
LEMMA MakeRefines ==
  ASSUME Inv, NEW t \in Threads, StartCall(t)
  PROVE  Remote!Make(t)
  <1>1. /\ pc \in [Threads -> {"idle", "send", "recv"}]
        /\ result \in [Threads -> [how : {"none", "reply", "timeout", "error", "future"}, call : Call]]
    BY DEF Inv, TypeOK
  <1>2. /\ lock = Nobody /\ lock' = t /\ tags' = tags + 1
        /\ pc' = [pc EXCEPT ![t] = "send"] /\ result' = [result EXCEPT ![t] = None]
        /\ todo' = todo /\ net' = net /\ stream' = stream
    BY DEF StartCall, LockFree, channel
  <1>3. ReturnedTo' = [ReturnedTo EXCEPT ![t] = 0]
    BY <1>1, <1>2 DEF ReturnedTo, None
  <1>4. CallSent' = CallSent
    <2>1. \A u \in Threads : pc[u] = "idle"
      BY <1>2, ConstantsAssumption DEF Inv, LockInv
    <2>2. ~ CallSent
      BY <2>1 DEF CallSent
    <2>3. ~ CallSent'
      BY <1>1, <1>2, <2>1 DEF CallSent
    <2>4. CallSent \in BOOLEAN /\ CallSent' \in BOOLEAN
      BY DEF CallSent
    <2> QED BY ONLY <2>2, <2>3, <2>4
  <1> QED BY <1>2, <1>3, <1>4 DEF Remote!Make, TagsOf, Replied

LEMMA SendRefines ==
  ASSUME Inv, Packed, NEW t \in Threads, SendRecord(t)
  PROVE  Remote!Send
  <1>1. pc \in [Threads -> {"idle", "send", "recv"}] /\ todo \in Seq(Call) /\ packer \in Call
    BY DEF Inv, TypeOK
  <1>2. /\ pc[t] = "send" /\ pc' = [pc EXCEPT ![t] = "recv"] /\ todo' = Append(todo, packer)
        /\ UNCHANGED <<lock, tags, result, net, stream>>
    BY DEF SendRecord
  <1>3. \A u \in Threads : u # t => pc[u] = "idle"
    BY <1>2 DEF Inv, LockInv
  <1>4. lock = t /\ lock # Nobody
    BY <1>2, ConstantsAssumption DEF Inv, LockInv
  <1>5. ~ CallSent
    BY <1>2, <1>3 DEF CallSent
  <1>6. CallSent'
    BY <1>1, <1>2 DEF CallSent
  <1>7. TagsOf(todo)' = Append(TagsOf(todo), tags)
    BY <1>1, <1>2, TagsSent DEF Packed
  <1>8. UNCHANGED <<ReturnedTo, Replied(net), Replied(stream)>>
    BY <1>2 DEF ReturnedTo, Replied
  <1> QED BY <1>2, <1>4, <1>5, <1>6, <1>7, <1>8 DEF Remote!Send

(* What is over at the abstract level when _recvrecord or select ends it.  *)
LEMMA FinishOver ==
  ASSUME Inv, Packed, NEW t \in Threads, NEW how, NEW call, pc[t] # "idle", Finish(t, how, call),
         todo' = todo, net' = net, Replied(stream)' \subseteq Replied(stream)
  PROVE  /\ Remote!Over
         /\ lock = t /\ lock # Nobody
         /\ ReturnedTo' = [ReturnedTo EXCEPT ![t] = IF how = "reply" THEN call.tag ELSE 0]
         /\ ReturnedTo[t] = 0
  <1>1. /\ pc \in [Threads -> {"idle", "send", "recv"}]
        /\ result \in [Threads -> [how : {"none", "reply", "timeout", "error", "future"}, call : Call]]
    BY DEF Inv, TypeOK
  <1>2. /\ pc' = [pc EXCEPT ![t] = "idle"] /\ lock' = Nobody /\ tags' = tags
        /\ result' = [result EXCEPT ![t] = [how |-> how, call |-> call]]
    BY DEF Finish
  <1>3. lock = t /\ lock # Nobody
    BY ConstantsAssumption DEF Inv, LockInv
  <1>4. ~ CallSent'
    BY <1>1, <1>2, <1>3 DEF CallSent, Inv, LockInv
  <1>5. ReturnedTo' = [ReturnedTo EXCEPT ![t] = IF how = "reply" THEN call.tag ELSE 0]
    BY <1>1, <1>2 DEF ReturnedTo
  <1>6. ReturnedTo[t] = 0
    BY DEF ReturnedTo, Packed
  <1>7. TagsOf(todo)' = TagsOf(todo) /\ Replied(net)' = Replied(net)
    BY DEF TagsOf, Replied
  <1>8. Remote!Over
    BY <1>2, <1>4, <1>7 DEF Remote!Over
  <1> QED BY <1>3, <1>5, <1>6, <1>8

LEMMA GiveUpRefines ==
  ASSUME Inv, Packed, NEW t \in Threads, NEW how, NEW call, how # "reply", pc[t] # "idle",
         Finish(t, how, call), todo' = todo, net' = net, Replied(stream)' \subseteq Replied(stream)
  PROVE  Remote!GiveUp
  <1>1. Remote!Over /\ lock # Nobody /\ ReturnedTo' = [ReturnedTo EXCEPT ![t] = 0] /\ ReturnedTo[t] = 0
    BY FinishOver
  <1>2. ReturnedTo' = ReturnedTo
    BY <1>1 DEF ReturnedTo
  <1> QED BY <1>1, <1>2 DEF Remote!GiveUp

(* What the reader takes from the socket buffer is lost ...                *)
LEMMA RestReplied ==
  ASSUME Inv, stream # <<>>, stream' = Tail(stream) \/ stream' = Rest
  PROVE  Replied(stream)' \subseteq Replied(stream)
  <1>1. stream \in Seq(Unit)
    BY DEF Inv, TypeOK
  <1>2. Replied(Tail(stream)) \subseteq Replied(stream) /\ Tail(stream) \in Seq(Unit)
    BY <1>1, RepliedTaken
  <1>3. Replied(Rest) \subseteq Replied(stream)
    <2>1. CASE Len(stream) <= 2
      BY <2>1 DEF Rest, Replied
    <2>2. CASE ~ (Len(stream) <= 2)
      <3>1. Tail(stream) # <<>> /\ Rest = Tail(Tail(stream))
        BY <1>1, <2>2, TailNonEmpty DEF Rest
      <3> QED BY <1>2, <3>1, RepliedTaken
    <2> QED BY <2>1, <2>2
  <1>4. Replied(stream)' = Replied(stream')
    BY DEF Replied
  <1> QED BY <1>2, <1>3, <1>4

LEMMA LoseRefines ==
  ASSUME Inv, stream # <<>>, stream' = Tail(stream) \/ stream' = Rest,
         UNCHANGED <<lock, tags, pc, result, todo, net>>
  PROVE  Remote!Lose
  <1>1. Replied(stream)' \subseteq Replied(stream) /\ Replied(net)' = Replied(net)
    BY RestReplied DEF Replied
  <1>2. UNCHANGED <<CallSent, TagsOf(todo), ReturnedTo>>
    BY DEF CallSent, TagsOf, ReturnedTo
  <1> QED BY <1>1, <1>2 DEF Remote!Lose

(* ... except the reply do_call was waiting for.                           *)
LEMMA BodyRefines ==
  ASSUME Inv, Packed, NEW t \in Threads, ReadBody(t)
  PROVE  Remote!Lose \/ Remote!GiveUp \/ Remote!Return(t)
  <1> DEFINE reply == Head(stream).call
  <1>1. /\ pc[t] = "recv" /\ stream # <<>> /\ stream' = Rest
        /\ UNCHANGED <<lastxid, todo, net>>
    BY DEF ReadBody, BodyThere, Reading
  <1>2. \/ UNCHANGED <<packer, lock, pc, tags, tag, result>>
        \/ reply.xid = lastxid /\ Finish(t, "reply", reply)
        \/ Finish(t, "future", reply)
    BY DEF ReadBody
  <1>3. Replied(stream)' \subseteq Replied(stream)
    BY <1>1, RestReplied
  <1>4. CASE UNCHANGED <<packer, lock, pc, tags, tag, result>>
    BY <1>1, <1>4, LoseRefines
  <1>5. CASE Finish(t, "future", reply)
    BY <1>1, <1>3, <1>5, GiveUpRefines
  <1>6. CASE reply.xid = lastxid /\ Finish(t, "reply", reply)
    <2>1. stream \in Seq(Unit) /\ \A i \in 1..Len(stream) : Known(stream[i].call)
      BY DEF Inv, TypeOK, XidPerCall
    <2>2. Known(reply)
      BY <1>1, <2>1, TailKnown
    <2>3. reply.tag = tags
      BY <1>6, <2>2 DEF Known, Inv, XidPerCall
    <2>4. tags \in Replied(net) \cup Replied(stream)
      BY <1>1, <2>1, <2>3, RepliedTaken
    <2>5. /\ Remote!Over /\ lock = t
          /\ ReturnedTo' = [ReturnedTo EXCEPT ![t] = reply.tag]
      BY <1>1, <1>3, <1>6, FinishOver
    <2>6. CallSent
      BY <1>1 DEF CallSent
    <2> QED BY <2>3, <2>4, <2>5, <2>6 DEF Remote!Return
  <1> QED BY <1>2, <1>4, <1>5, <1>6

(* The instrument turns to the next call.                                  *)
LEMMA InstrumentRefines ==
  ASSUME Inv, Answer \/ Arrive \/ Ignore
  PROVE  Remote!CarryOut \/ UNCHANGED Remote!cvars
  <1>1. todo \in Seq(Call) /\ net \in Seq(Unit) /\ stream \in Seq(Unit)
    BY DEF Inv, TypeOK
  <1>2. UNCHANGED <<lock, tags, CallSent, ReturnedTo>>
    BY DEF Answer, Arrive, Ignore, client, CallSent, ReturnedTo
  <1>3. ASSUME todo # <<>>, todo' = Tail(todo)
        PROVE  /\ TagsOf(todo) # <<>> /\ TagsOf(todo)' = Tail(TagsOf(todo))
               /\ Head(TagsOf(todo)) = Head(todo).tag
    <2>1. TagsOf(todo)' = TagsOf(Tail(todo))
      BY <1>3 DEF TagsOf
    <2> QED BY <1>1, <1>3, <2>1, TagsTaken
  <1>4. CASE Answer
    <2> DEFINE r == Record(Head(todo))
    <2>1. /\ todo # <<>> /\ todo' = Tail(todo)
          /\ \/ net' = net \o r /\ stream' = stream
             \/ net' = net /\ stream' = stream \o r
      BY <1>4 DEF Answer
    <2>2. r \in Seq(Unit) /\ Replied(r) = {Head(todo).tag}
      <3>1. Head(todo) \in Call
        BY <1>1, <2>1
      <3> QED BY <3>1, RepliedRecord
    <2> HIDE DEF r
    <2>3. /\ Replied(net \o r) = Replied(net) \cup {Head(todo).tag}
          /\ Replied(stream \o r) = Replied(stream) \cup {Head(todo).tag}
      BY <1>1, <2>2, RepliedJoined
    <2>4. (Replied(net) \cup Replied(stream))' = Replied(net) \cup Replied(stream) \cup {Head(todo).tag}
      <3>1. Replied(net)' = Replied(net') /\ Replied(stream)' = Replied(stream')
        BY DEF Replied
      <3> QED BY <2>1, <2>3, <3>1
    <2> QED BY <1>2, <1>3, <2>1, <2>4 DEF Remote!CarryOut
  <1>5. CASE Arrive
    <2>1. net # <<>> /\ net' = Tail(net) /\ stream' = Append(stream, Head(net)) /\ todo' = todo
      BY <1>5 DEF Arrive
    <2>2. Head(net) \in Unit /\ Replied(net) = {Head(net).call.tag} \cup Replied(Tail(net))
      BY <1>1, <2>1, RepliedTaken
    <2>3. Replied(<<Head(net)>>) = {Head(net).call.tag}
      BY DEF Replied
    <2>4. stream' = stream \o <<Head(net)>> /\ <<Head(net)>> \in Seq(Unit)
      BY <1>1, <2>1, <2>2
    <2>5. Replied(stream \o <<Head(net)>>) = Replied(stream) \cup Replied(<<Head(net)>>)
      BY <1>1, <2>4, RepliedJoined
    <2>6. Replied(net)' = Replied(Tail(net)) /\ Replied(stream)' = Replied(stream \o <<Head(net)>>)
      BY <2>1, <2>4 DEF Replied
    <2>7. (Replied(net) \cup Replied(stream))' = Replied(net) \cup Replied(stream)
      BY <2>2, <2>3, <2>5, <2>6
    <2>8. TagsOf(todo)' = TagsOf(todo)
      BY <2>1 DEF TagsOf
    <2> QED BY <1>2, <2>7, <2>8 DEF Remote!cvars
  <1>6. CASE Ignore
    <2>1. todo # <<>> /\ todo' = Tail(todo) /\ net' = net /\ stream' = stream
      BY <1>6 DEF Ignore
    <2>2. (Replied(net) \cup Replied(stream))' = Replied(net) \cup Replied(stream)
      BY <2>1 DEF Replied
    <2> QED BY <1>2, <1>3, <2>1, <2>2 DEF Remote!CarryOut
  <1> QED BY <1>4, <1>5, <1>6

LEMMA StepRefines == Inv /\ Packed /\ [Next]_vars => [Remote!CNext]_(Remote!cvars)
  <1> SUFFICES ASSUME Inv, Packed, [Next]_vars PROVE Remote!CNext \/ UNCHANGED Remote!cvars
    OBVIOUS
  <1>1. ASSUME NEW t \in Threads, StartCall(t) PROVE Remote!CNext
    BY <1>1, MakeRefines DEF Remote!CNext
  <1>2. ASSUME NEW t \in Threads, ThreadStep(t) PROVE Remote!CNext
    <2>1. CASE SendRecord(t)
      BY <2>1, SendRefines DEF Remote!CNext
    <2>2. CASE SendTimeout(t) \/ GarbageError(t) \/ ReadTimeout(t)
      <3>1. pc[t] # "idle" /\ UNCHANGED <<todo, net, stream>>
        BY <2>2 DEF SendTimeout, GarbageError, ReadTimeout, channel
      <3>2. Finish(t, "timeout", NoCall) \/ Finish(t, "error", NoCall)
        BY <2>2 DEF SendTimeout, GarbageError, ReadTimeout
      <3>3. Replied(stream)' \subseteq Replied(stream)
        BY <3>1 DEF Replied
      <3>4. Remote!GiveUp
        BY <3>1, <3>2, <3>3, GiveUpRefines
      <3> QED BY <3>4 DEF Remote!CNext
    <2>3. CASE ReadMarker(t) \/ ReadFront(t) \/ ReadGarbage(t)
      <3>1. /\ stream # <<>> /\ stream' = Tail(stream)
            /\ UNCHANGED <<lock, tags, pc, result, todo, net>>
        BY <2>3 DEF ReadMarker, ReadFront, ReadGarbage, Reading
      <3> QED BY <3>1, LoseRefines DEF Remote!CNext
    <2>4. CASE ReadBody(t)
      BY <2>4, BodyRefines DEF Remote!CNext
    <2> QED BY <1>2, <2>1, <2>2, <2>3, <2>4 DEF ThreadStep
  <1>3. CASE Answer \/ Arrive \/ Ignore
    BY <1>3, InstrumentRefines DEF Remote!CNext
  <1>4. CASE UNCHANGED vars
    BY <1>4 DEF vars, client, channel, Remote!cvars, CallSent, TagsOf, Replied, ReturnedTo
  <1> QED BY <1>1, <1>2, <1>3, <1>4 DEF Next

(* make_call of the shared connection is a remote call: one at a time, in  *)
(* order, carried out at most once, answered with its own result or given  *)
(* up, although a call given up leaves its reply, or a part of it, in the  *)
(* buffer for the next (start_call, do_call and _recvrecord of rpc.py      *)
(* under the lock of tcpip.py's make_call).                                *)
THEOREM Implements_remote_call == Spec => ImplementsRemoteCall
  <1>1. Init => Remote!CInit
    BY DEF Init, None, NoCall, Remote!CInit, CallSent, TagsOf, Replied, ReturnedTo
  <1>2. Inv /\ Packed /\ [Next]_vars => [Remote!CNext]_(Remote!cvars)
    BY StepRefines
  <1>3. Spec => []Packed
    BY InitPacked, NextPacked, Safety, PTL DEF Spec
  <1> QED BY <1>1, <1>2, <1>3, Safety, PTL DEF Spec, ImplementsRemoteCall, Remote!CSpec

-----------------------------------------------------------------------------
(* TcpOpen.                                                                *)
TimeoutsNat == OpenTimeouts \subseteq Nat

LEMMA Extremes ==
  ASSUME NEW a \in Nat, NEW b \in Nat
  PROVE  /\ Max({a, b}) = IF a >= b THEN a ELSE b
         /\ Min({a, b}) = IF a <= b THEN a ELSE b
         /\ Max({a, b}) \in Nat /\ Max({a, b}) >= b /\ Max({a, b}) \in {a, b}
         /\ Min({a, b}) \in Nat /\ Min({a, b}) <= a
  <1>1. ASSUME a >= b PROVE Max({a, b}) = a
    BY <1>1 DEF Max
  <1>2. ASSUME ~ (a >= b) PROVE Max({a, b}) = b
    BY <1>2 DEF Max
  <1>3. ASSUME a <= b PROVE Min({a, b}) = a
    BY <1>3 DEF Min
  <1>4. ASSUME ~ (a <= b) PROVE Min({a, b}) = b
    BY <1>4 DEF Min
  <1> QED BY <1>1, <1>2, <1>3, <1>4

LEMMA Halves ==
  ASSUME NEW n \in Nat
  PROVE  /\ n \div 2 \in Nat /\ 2 * (n \div 2) <= n
         /\ n \div 10 \in Nat
  OBVIOUS

LEMMA Selects ==
  ASSUME Limit \in Nat
  PROVE  /\ MinSelect \in Nat /\ MinSelect >= 100
         /\ FirstSelect \in Nat /\ FirstSelect >= MinSelect
         /\ FirstSelect = MinSelect \/ 2 * FirstSelect <= Limit
  <1>1. Limit \div 10 \in Nat /\ Limit \div 2 \in Nat /\ 2 * (Limit \div 2) <= Limit
    BY Halves
  <1>2. Min({Limit \div 10, 500}) \in Nat
    <2> DEFINE x == Limit \div 10
    <2>1. x \in Nat
      BY <1>1
    <2> HIDE DEF x
    <2>2. Min({x, 500}) \in Nat
      BY <2>1, Extremes
    <2> QED BY <2>2 DEF x
  <1>3. MinSelect \in Nat /\ MinSelect >= 100
    BY <1>2, Extremes DEF MinSelect
  <1>4. Min({Limit \div 2, 2000}) \in Nat /\ Min({Limit \div 2, 2000}) <= Limit \div 2
    <2> DEFINE x == Limit \div 2
    <2>1. x \in Nat
      BY <1>1
    <2> HIDE DEF x
    <2>2. Min({x, 2000}) \in Nat /\ Min({x, 2000}) <= x
      BY <2>1, Extremes
    <2> QED BY <2>2 DEF x
  <1>5. /\ FirstSelect = Min({Limit \div 2, 2000}) \/ FirstSelect = MinSelect
        /\ FirstSelect >= MinSelect
    BY <1>3, <1>4, Extremes DEF FirstSelect
  <1> QED BY <1>1, <1>3, <1>4, <1>5

(* While a wait is under way there is time left, and unless it is one of   *)
(* the shortest there is room for it twice; HiSLIP waits once.             *)
WaitInv ==
    /\ open_timeout \in Nat /\ waited \in Nat /\ slice \in Nat
    /\ doing = "wait" =>
         IF via = "hislip" THEN waited = 0 /\ slice = Limit
         ELSE /\ waited < Limit /\ slice >= MinSelect
              /\ slice = MinSelect \/ waited + 2 * slice <= Limit
    /\ ConnectInTime

LEMMA LimitIsNat == ASSUME open_timeout \in Nat PROVE Limit \in Nat /\ Limit > 0
  BY DEF Limit, DEFAULT_OPEN_TIMEOUT

LEMMA WaitInit == ASSUME TimeoutsNat, OInit PROVE WaitInv
  <1>1. open_timeout \in Nat /\ waited = 0 /\ slice = 0 /\ doing = "over"
    BY DEF OInit, TimeoutsNat
  <1>2. Limit \in Nat /\ Limit > 0 /\ MinSelect \in Nat
    BY <1>1, LimitIsNat, Selects
  <1> QED BY <1>1, <1>2 DEF WaitInv, ConnectInTime

LEMMA ConnectWait == ASSUME WaitInv, Connect PROVE WaitInv'
  <1>1. /\ Limit \in Nat /\ Limit > 0 /\ MinSelect \in Nat
        /\ FirstSelect \in Nat /\ FirstSelect >= MinSelect
        /\ FirstSelect = MinSelect \/ 2 * FirstSelect <= Limit
    BY LimitIsNat, Selects DEF WaitInv
  <1>2. via' = via /\ open_timeout' = open_timeout /\ waited' = 0
        /\ slice' = IF via = "hislip" THEN Limit ELSE FirstSelect
    BY DEF Connect, what
  <1>3. Limit' = Limit /\ MinSelect' = MinSelect
    BY <1>2 DEF Limit, MinSelect
  <1>4. ConnectInTime'
    BY <1>1, <1>2, <1>3 DEF ConnectInTime
  <1> QED BY <1>1, <1>2, <1>3, <1>4 DEF WaitInv

(* A wait that ends without an answer.                                     *)
LEMMA WaitedWait == ASSUME WaitInv, Waited PROVE WaitInv'
  <1>1. /\ Limit \in Nat /\ Limit > 0 /\ MinSelect \in Nat /\ MinSelect >= 100
        /\ waited \in Nat /\ slice \in Nat
    BY LimitIsNat, Selects DEF WaitInv
  <1>2. /\ doing = "wait" /\ waited' = waited + slice
        /\ via' = via /\ open_timeout' = open_timeout
    BY DEF Waited, what
  <1>3. Limit' = Limit /\ MinSelect' = MinSelect
    BY <1>2 DEF Limit, MinSelect
  <1>4. /\ waited' \in Nat /\ waited' < Limit + MinSelect
        /\ via = "hislip" => waited' = Limit
    BY <1>1, <1>2 DEF WaitInv
  <1>5. ConnectInTime'
    BY <1>1, <1>2, <1>3, <1>4 DEF ConnectInTime
  <1>6. CASE waited' >= Limit
    <2>1. doing' # "wait" /\ slice' = slice
      BY <1>1, <1>4, <1>6 DEF Waited, Ends
    <2> QED BY <1>2, <1>4, <1>5, <2>1, <1>1 DEF WaitInv
  <1>7. CASE waited' < Limit
    <2>1. slice' = NextSlice /\ via # "hislip"
      BY <1>1, <1>4, <1>7 DEF Waited
    <2>2. slice \div 2 \in Nat /\ 2 * (slice \div 2) <= slice
      BY <1>1, Halves
    <2>3. /\ slice' \in Nat
          /\ slice' = MinSelect \/ slice' = slice \div 2
          /\ slice' >= MinSelect
      <3> DEFINE x == slice \div 2
      <3>1. x \in Nat
        BY <2>2
      <3> HIDE DEF x
      <3>2. Max({x, MinSelect}) \in Nat /\ Max({x, MinSelect}) >= MinSelect /\ Max({x, MinSelect}) \in {x, MinSelect}
        BY <3>1, <1>1, Extremes
      <3> QED BY <3>2, <2>1 DEF NextSlice, x
    <2>4. slice = MinSelect \/ waited + 2 * slice <= Limit
      BY <1>2, <2>1 DEF WaitInv
    <2>5. slice' = MinSelect \/ waited' + 2 * slice' <= Limit
      <3> DEFINE half == slice \div 2
      <3>1. half \in Nat /\ 2 * half <= slice
        BY <2>2
      <3>2. slice' = MinSelect \/ (slice' = half /\ half >= MinSelect)
        BY <2>3
      <3> HIDE DEF half
      <3> QED BY <1>1, <1>2, <2>4, <3>1, <3>2
    <2> QED BY <1>2, <1>3, <1>4, <1>5, <1>7, <2>1, <2>3, <2>5 DEF WaitInv
  <1> QED BY <1>1, <1>4, <1>6, <1>7

(* Nothing else touches the clock or begins a wait.                        *)
LEMMA OthersWait ==
  ASSUME WaitInv, ONext \/ UNCHANGED ovars, ~ Connect, ~ Waited
  PROVE  WaitInv'
  <1>1. UNCHANGED <<what, clock>> /\ (doing' = doing \/ doing' # "wait")
    BY DEF ONext, Open, Unresolved, Accept, Connected, Refused, Answered, NotRegistered,
           Denied, Silent, Ends, Goes, place, ovars
  <1>2. /\ via' = via /\ open_timeout' = open_timeout
        /\ waited' = waited /\ slice' = slice
    BY <1>1 DEF what, clock
  <1>3. Limit' = Limit /\ MinSelect' = MinSelect
    BY <1>2 DEF Limit, MinSelect
  <1> QED BY <1>1, <1>2, <1>3 DEF WaitInv, ConnectInTime

(* A connect is given up at most one shortest wait after open_timeout, and *)
(* that of HiSLIP not after it (_connect of rpc.py, hislip.py), whatever   *)
(* open_timeout is.                                                        *)
THEOREM Connect_in_time == OSpec => []ConnectInTime
  <1>1. OInit => WaitInv
    BY OpenTimeoutsAssumption, WaitInit DEF TimeoutsNat
  <1>2. WaitInv /\ [ONext]_ovars => WaitInv'
    BY ConnectWait, WaitedWait, OthersWait
  <1>3. WaitInv => ConnectInTime
    BY DEF WaitInv
  <1> QED BY <1>1, <1>2, <1>3, PTL DEF OSpec

-----------------------------------------------------------------------------
(* The connections that were made before the one under way.                *)
Earlier == IF leg = 2 THEN {Legs(via)[1]} ELSE {}

Kept(s) == peer[s] = "accepted" /\ (sock[s] = "closed" <=> s = "pmap")

(* The earlier connections were accepted and are kept, except that to the  *)
(* port mapper; the later ones have not begun.                             *)
PlaceInv ==
    /\ via \in Interfaces /\ leg \in 0..Len(Legs(via))
    /\ sock \in [Sockets -> {"none", "connecting", "open", "closed"}]
    /\ peer \in [Sockets -> {"none", "pending", "accepted", "refused"}]
    /\ \A s \in Sockets : sock[s] # "none" => leg # 0 /\ (s = This \/ s \in Earlier)
    /\ \A s \in Earlier : Kept(s)
    /\ doing # "over" => leg # 0 /\ outcome = "none"
    /\ doing = "connect" => sock[This] = "none"
    /\ doing = "ask" => via # "socket" /\ sock[This] = "open" /\ peer[This] = "accepted"
    /\ leg = 0 => outcome = "none"
    /\ OpenIsTrue

LEMMA LegsTable ==
  ASSUME via \in Interfaces
  PROVE  /\ Len(Legs(via)) \in {1, 2}
         /\ Legs(via)[1] \in Sockets
         /\ Len(Legs(via)) = 2 => /\ Legs(via)[2] \in Sockets \ {"pmap"}
                                  /\ Legs(via)[2] # Legs(via)[1]
         /\ DOMAIN Legs(via) = 1..Len(Legs(via))
         /\ via # "socket" /\ Len(Legs(via)) = 1 => Legs(via)[1] # "pmap"
  <1>1. CASE via = "vxi11"
    BY <1>1 DEF Legs, Sockets
  <1>2. CASE via = "vxi11 port"
    <2>1. Legs(via) = <<"core">>
      BY <1>2 DEF Legs
    <2>2. Len(<<"core">>) = 1 /\ <<"core">>[1] = "core" /\ DOMAIN <<"core">> = 1..1
      OBVIOUS
    <2>3. Len(Legs(via)) = 1 /\ Legs(via)[1] = "core" /\ DOMAIN Legs(via) = 1..1
      BY <2>1, <2>2
    <2>4. "core" \in Sockets /\ "core" # "pmap"
      BY DEF Sockets
    <2> QED BY <2>3, <2>4
  <1>3. CASE via = "hislip"
    BY <1>3 DEF Legs, Sockets
  <1>4. CASE via = "socket"
    BY <1>4 DEF Legs, Sockets
  <1> QED BY <1>1, <1>2, <1>3, <1>4 DEF Interfaces

(* While a connection is under way it is none of the earlier ones.         *)
LEMMA ThisSocket ==
  ASSUME PlaceInv, leg # 0
  PROVE  /\ leg \in {1, 2} /\ This \in Sockets /\ This \notin Earlier
         /\ Earlier \subseteq Sockets
         /\ leg = Len(Legs(via)) => {Legs(via)[i] : i \in DOMAIN Legs(via)} = {This} \cup Earlier
         /\ leg # Len(Legs(via)) => leg = 1 /\ Len(Legs(via)) = 2 /\ Earlier = {}
  <1>1. via \in Interfaces /\ leg \in 0..Len(Legs(via)) /\ Len(Legs(via)) \in {1, 2}
    BY LegsTable DEF PlaceInv
  <1>2. leg \in {1, 2} /\ (leg = 2 => Len(Legs(via)) = 2)
    <2> DEFINE n == Len(Legs(via))
    <2>1. leg \in 0..n /\ n \in {1, 2}
      BY <1>1
    <2> HIDE DEF n
    <2>2. leg \in {1, 2} /\ (leg = 2 => n = 2)
      BY <2>1
    <2> QED BY <2>2 DEF n
  <1>3. /\ leg = 1 => This = Legs(via)[1] /\ Earlier = {}
        /\ leg = 2 => This = Legs(via)[2] /\ Earlier = {Legs(via)[1]}
    BY DEF This, Earlier
  <1>4. This \in Sockets /\ This \notin Earlier /\ Earlier \subseteq Sockets
    BY <1>1, <1>2, <1>3, LegsTable
  <1>5. ASSUME leg = Len(Legs(via))
        PROVE  {Legs(via)[i] : i \in DOMAIN Legs(via)} = {This} \cup Earlier
    <2>1. CASE leg = 1
      <3>1. DOMAIN Legs(via) = {1}
        BY <1>1, <1>5, <2>1, LegsTable
      <3> QED BY <3>1, <2>1, <1>3
    <2>2. CASE leg = 2
      <3>1. DOMAIN Legs(via) = {1, 2}
        BY <1>1, <1>5, <2>2, LegsTable
      <3> QED BY <3>1, <2>2, <1>3
    <2> QED BY <2>1, <2>2, <1>2
  <1> QED BY <1>1, <1>2, <1>3, <1>4, <1>5

LEMMA PlaceInit == ASSUME OInit PROVE PlaceInv
  <1>1. /\ via \in Interfaces /\ leg = 0 /\ doing = "over" /\ outcome = "none"
        /\ \A s \in Sockets : sock[s] = "none"
    BY DEF OInit
  <1>2. Earlier = {} /\ leg \in 0..Len(Legs(via))
    BY <1>1, LegsTable DEF Earlier
  <1>3. OpenIsTrue
    BY <1>1 DEF OpenIsTrue, SuccessIsConnected, UnreachableIsVisaError
  <1>4. /\ sock \in [Sockets -> {"none", "connecting", "open", "closed"}]
        /\ peer \in [Sockets -> {"none", "pending", "accepted", "refused"}]
    BY DEF OInit
  <1> QED BY <1>1, <1>2, <1>3, <1>4 DEF PlaceInv

(* Success with the last connection, and an exception when all that was    *)
(* begun was accepted, are true.                                           *)
LEMMA Truly ==
  ASSUME PlaceInv, leg # 0, via' = via, leg' = leg, resolves' = resolves,
         sock' \in [Sockets -> {"none", "connecting", "open", "closed"}],
         peer' \in [Sockets -> {"none", "pending", "accepted", "refused"}],
         \A s \in Sockets \ {This} : sock'[s] = sock[s] /\ peer'[s] = peer[s],
         outcome' = "success" => via = "socket" \/ (leg = Len(Legs(via)) /\ Kept(This)'),
         outcome' = "raised" => via = "socket" \/ ~ resolves \/ peer'[This] = "accepted"
  PROVE  /\ This' = This /\ Earlier' = Earlier
         /\ \A s \in Sockets : sock'[s] # "none" => s = This \/ s \in Earlier
         /\ \A s \in Earlier : Kept(s)'
         /\ OpenIsTrue'
  <1>1. This' = This /\ Earlier' = Earlier /\ Legs(via') = Legs(via)
    BY DEF This, Earlier
  <1>2. \A s \in Sockets : sock'[s] # "none" => s = This \/ s \in Earlier
    BY DEF PlaceInv
  <1>3. \A s \in Earlier : peer'[s] = "accepted" /\ (sock'[s] = "closed" <=> s = "pmap")
    BY ThisSocket DEF PlaceInv, Kept
  <1>4. SuccessIsConnected'
    <2> SUFFICES ASSUME outcome' = "success", via # "socket", NEW i \in DOMAIN Legs(via)
                 PROVE  /\ peer'[Legs(via)[i]] = "accepted"
                        /\ sock'[Legs(via)[i]] = "closed" <=> Legs(via)[i] = "pmap"
      BY <1>1 DEF SuccessIsConnected
    <2>1. leg = Len(Legs(via)) /\ peer'[This] = "accepted" /\ (sock'[This] = "closed" <=> This = "pmap")
      BY <1>1 DEF Kept
    <2>2. Legs(via)[i] = This \/ Legs(via)[i] \in Earlier
      BY <2>1, ThisSocket
    <2> QED BY <2>1, <2>2, <1>3
  <1>5. UnreachableIsVisaError'
    <2> SUFFICES ASSUME outcome' = "raised", via # "socket", resolves,
                        NEW s \in Sockets, sock'[s] # "none"
                 PROVE  peer'[s] = "accepted"
      BY DEF UnreachableIsVisaError
    <2> QED BY <1>2, <1>3
  <1> QED BY <1>1, <1>2, <1>3, <1>4, <1>5 DEF OpenIsTrue, Kept

LEMMA OpenPlace == ASSUME PlaceInv, Open PROVE PlaceInv'
  <1>1. /\ leg = 0 /\ leg' = 1 /\ doing' = "connect" /\ via' = via /\ resolves' = resolves
        /\ sock' = sock /\ peer' = peer /\ outcome' = outcome
    BY DEF Open, what
  <1>2. Legs(via') = Legs(via) /\ Len(Legs(via)) \in {1, 2} /\ Legs(via)[1] \in Sockets
    BY <1>1, LegsTable DEF PlaceInv
  <1>3. leg' \in 0..Len(Legs(via'))
    BY <1>1, <1>2
  <1>4. \A s \in Sockets : sock'[s] = "none"
    BY <1>1 DEF PlaceInv
  <1>5. This' = Legs(via)[1] /\ Earlier' = {}
    BY <1>1, <1>2 DEF This, Earlier
  <1>6. outcome' = "none"
    BY <1>1 DEF PlaceInv
  <1>7. OpenIsTrue'
    BY <1>6 DEF OpenIsTrue, SuccessIsConnected, UnreachableIsVisaError
  <1> QED BY <1>1, <1>2, <1>3, <1>4, <1>5, <1>6, <1>7 DEF PlaceInv

(* Every other step but the one to the next connection changes only the    *)
(* socket under way.                                                       *)
LEMMA StepPlace ==
  ASSUME PlaceInv, leg # 0, doing # "over", UNCHANGED what, leg' = leg,
         NEW s \in {"none", "connecting", "open", "closed"},
         NEW p \in {"none", "pending", "accepted", "refused"},
         sock' = [sock EXCEPT ![This] = s], peer' = [peer EXCEPT ![This] = p],
         outcome' = outcome \/ doing' = "over",
         doing' # "connect" \/ s = "none",
         doing' = "ask" => via # "socket" /\ s = "open" /\ p = "accepted",
         outcome' = "success" => via = "socket" \/
             (leg = Len(Legs(via)) /\ p = "accepted" /\ (s = "closed" <=> This = "pmap")),
         outcome' = "raised" => via = "socket" \/ ~ resolves \/ p = "accepted"
  PROVE  PlaceInv'
  <1>1. /\ via' = via /\ resolves' = resolves /\ This \in Sockets /\ This \notin Earlier
        /\ outcome = "none"
    BY ThisSocket DEF what, PlaceInv
  <1>2. /\ sock' \in [Sockets -> {"none", "connecting", "open", "closed"}]
        /\ peer' \in [Sockets -> {"none", "pending", "accepted", "refused"}]
        /\ sock'[This] = s /\ peer'[This] = p
        /\ \A t \in Sockets \ {This} : sock'[t] = sock[t] /\ peer'[t] = peer[t]
    BY <1>1 DEF PlaceInv
  <1>3. This' = This /\ Legs(via') = Legs(via)
    BY <1>1 DEF This
  <1>4. outcome' = "success" => via = "socket" \/ (leg = Len(Legs(via)) /\ Kept(This)')
    BY <1>2, <1>3 DEF Kept
  <1>5. /\ Earlier' = Earlier
        /\ \A t \in Sockets : sock'[t] # "none" => t = This \/ t \in Earlier
        /\ \A t \in Earlier : Kept(t)'
        /\ OpenIsTrue'
    BY <1>1, <1>2, <1>4, Truly
  <1>6. /\ doing' # "over" => leg' # 0 /\ outcome' = "none"
        /\ leg' = 0 => outcome' = "none"
    BY <1>1
  <1>7. /\ doing' = "connect" => sock'[This'] = "none"
        /\ doing' = "ask" => via' # "socket" /\ sock'[This'] = "open" /\ peer'[This'] = "accepted"
    BY <1>1, <1>2, <1>3
  <1>8. /\ via' \in Interfaces /\ leg' \in 0..Len(Legs(via'))
        /\ \A t \in Sockets : sock'[t] # "none" => leg' # 0 /\ (t = This' \/ t \in Earlier')
        /\ \A t \in Earlier' : Kept(t)'
    BY <1>1, <1>3, <1>5 DEF PlaceInv
  <1> QED BY <1>2, <1>5, <1>6, <1>7, <1>8 DEF PlaceInv

(* The next connection.                                                    *)
LEMMA NextPlace ==
  ASSUME PlaceInv, leg # 0, doing = "ask", UNCHANGED what, leg # Len(Legs(via)),
         leg' = leg + 1, doing' = "connect", UNCHANGED <<outcome, peer>>,
         sock' = [sock EXCEPT ![This] = IF This = "pmap" THEN "closed" ELSE @]
  PROVE  PlaceInv'
  <1>1. /\ leg = 1 /\ Len(Legs(via)) = 2 /\ Earlier = {} /\ This = Legs(via)[1]
        /\ This \in Sockets /\ via' = via /\ peer' = peer /\ outcome' = outcome
        /\ outcome = "none"
    BY ThisSocket DEF what, This, PlaceInv
  <1>2. /\ leg' = 2 /\ This' = Legs(via)[2] /\ Earlier' = {This}
        /\ Legs(via)[2] \in Sockets /\ Legs(via)[2] # This
    BY <1>1, LegsTable DEF This, Earlier, PlaceInv
  <1>3. /\ sock' \in [Sockets -> {"none", "connecting", "open", "closed"}]
        /\ sock'[This] = IF This = "pmap" THEN "closed" ELSE sock[This]
        /\ \A t \in Sockets \ {This} : sock'[t] = sock[t]
    BY <1>1 DEF PlaceInv
  <1>4. sock[This] = "open" /\ peer[This] = "accepted"
    BY DEF PlaceInv
  <1>5. \A t \in Earlier' : peer'[t] = "accepted" /\ (sock'[t] = "closed" <=> t = "pmap")
    BY <1>1, <1>2, <1>3, <1>4
  <1>6. \A t \in Sockets : sock'[t] # "none" => t = This
    BY <1>1, <1>3 DEF PlaceInv
  <1>7. sock'[This'] = "none"
    BY <1>2, <1>6
  <1>8. OpenIsTrue'
    BY <1>1 DEF OpenIsTrue, SuccessIsConnected, UnreachableIsVisaError
  <1>9. leg' \in 0..Len(Legs(via'))
    BY <1>1, <1>2
  <1> QED BY <1>1, <1>2, <1>3, <1>5, <1>6, <1>7, <1>8, <1>9 DEF PlaceInv, Kept

LEMMA ActionPlace == ASSUME PlaceInv, ONext PROVE PlaceInv'
  <1>1. /\ sock \in [Sockets -> {"none", "connecting", "open", "closed"}]
        /\ peer \in [Sockets -> {"none", "pending", "accepted", "refused"}]
    BY DEF PlaceInv
  <1> DEFINE s == sock[This]
             p == peer[This]
  <1>2. sock = [sock EXCEPT ![This] = s] /\ peer = [peer EXCEPT ![This] = p]
    BY <1>1
  <1>3. doing # "over" => leg # 0 /\ outcome = "none" /\ This \in Sockets
    BY ThisSocket DEF PlaceInv
  <1>4. doing # "over" => /\ s \in {"none", "connecting", "open", "closed"}
                           /\ p \in {"none", "pending", "accepted", "refused"}
    BY <1>1, <1>3
  <1>5. doing = "ask" => via # "socket" /\ s = "open" /\ p = "accepted"
    BY DEF PlaceInv
  <1>6. CASE Open
    BY <1>6, OpenPlace
  <1>7. CASE Unresolved
    <2>1. PICK t \in {"open", "closed"} : sock' = [sock EXCEPT ![This] = t]
      BY <1>7 DEF Unresolved
    <2>2. /\ doing = "connect" /\ ~ resolves /\ doing' = "over" /\ leg' = leg
          /\ outcome' \in {"error", "raised"} /\ peer' = [peer EXCEPT ![This] = p] /\ UNCHANGED what
      BY <1>2, <1>7 DEF Unresolved, Ends
    <2> QED BY <1>3, <1>4, <2>1, <2>2, StepPlace
  <1>8. CASE Connect
    <2>1. /\ doing = "connect" /\ doing' = "wait" /\ leg' = leg /\ outcome' = outcome /\ UNCHANGED what
          /\ sock' = [sock EXCEPT ![This] = "connecting"]
          /\ peer' = [peer EXCEPT ![This] = "pending"]
      BY <1>8 DEF Connect, Goes
    <2> QED BY <1>3, <2>1, StepPlace
  <1>9. CASE Accept
    <2>1. PICK q \in {"accepted", "refused"} : peer' = [peer EXCEPT ![This] = q]
      BY <1>9 DEF Accept
    <2>2. /\ doing = "wait" /\ doing' = doing /\ leg' = leg /\ outcome' = outcome /\ UNCHANGED what
          /\ sock' = [sock EXCEPT ![This] = s]
      BY <1>2, <1>9 DEF Accept, place
    <2> QED BY <1>3, <1>4, <2>1, <2>2, StepPlace
  <1>10. CASE Connected
    <2>1. /\ doing = "wait" /\ leg' = leg /\ UNCHANGED what
          /\ sock' = [sock EXCEPT ![This] = "open"] /\ peer' = [peer EXCEPT ![This] = p]
          /\ via = "socket" \/ p = "accepted"
          /\ IF via = "socket" THEN outcome' = "success" /\ doing' = "over"
             ELSE outcome' = outcome /\ doing' = "ask"
      BY <1>2, <1>10 DEF Connected, Established, Ends, Goes
    <2> QED BY <1>3, <1>4, <2>1, StepPlace
  <1>11. CASE Refused \/ (Waited /\ CloseFailed /\ Ends(ConnectFails))
    <2>1. /\ doing = "wait" /\ leg' = leg /\ UNCHANGED what /\ peer' = [peer EXCEPT ![This] = p]
          /\ doing' = "over" /\ outcome' = IF via = "socket" THEN "raised" ELSE "error"
          /\ CloseFailed
      BY <1>2, <1>11 DEF Refused, Waited, Ends, ConnectFails
    <2>2. PICK t \in {s, "closed"} : sock' = [sock EXCEPT ![This] = t]
      BY <2>1 DEF CloseFailed
    <2> QED BY <1>3, <1>4, <2>1, <2>2, StepPlace
  <1>12. CASE Waited /\ UNCHANGED <<place, sock, outcome>>
    <2>1. /\ doing = "wait" /\ doing' = doing /\ leg' = leg /\ outcome' = outcome /\ UNCHANGED what
          /\ sock' = [sock EXCEPT ![This] = s] /\ peer' = [peer EXCEPT ![This] = p]
      BY <1>2, <1>12 DEF Waited, place
    <2> QED BY <1>3, <1>4, <2>1, StepPlace
  <1>13. CASE Answered
    <2>1. /\ doing = "ask" /\ UNCHANGED what /\ peer' = [peer EXCEPT ![This] = p] /\ UNCHANGED peer
          /\ sock' = [sock EXCEPT ![This] = IF This = "pmap" THEN "closed" ELSE @]
      BY <1>2, <1>13 DEF Answered
    <2>2. CASE leg = Len(Legs(via))
      <3>1. outcome' = "success" /\ doing' = "over" /\ leg' = leg
        BY <1>13, <2>2 DEF Answered, Ends
      <3>2. PICK t \in {"open", "closed"} :
              /\ sock' = [sock EXCEPT ![This] = t]
              /\ t = "closed" <=> This = "pmap"
        BY <1>5, <2>1
      <3> QED BY <1>3, <1>5, <2>1, <2>2, <3>1, <3>2, StepPlace
    <2>3. CASE leg # Len(Legs(via))
      BY <1>3, <1>13, <2>1, <2>3, NextPlace DEF Answered
    <2> QED BY <2>2, <2>3
  <1>14. CASE NotRegistered
    <2>1. /\ doing = "ask" /\ UNCHANGED what /\ peer' = [peer EXCEPT ![This] = p] /\ leg' = leg
          /\ sock' = [sock EXCEPT ![This] = "closed"] /\ doing' = "over" /\ outcome' = "error"
      BY <1>2, <1>14 DEF NotRegistered, Ends
    <2> QED BY <1>3, <1>4, <2>1, StepPlace
  <1>15. CASE Denied \/ Silent
    <2>1. /\ doing = "ask" /\ UNCHANGED what /\ leg' = leg /\ doing' = "over"
          /\ sock' = [sock EXCEPT ![This] = s] /\ peer' = [peer EXCEPT ![This] = p]
          /\ outcome' \in {"error", "raised"}
      BY <1>2, <1>15 DEF Denied, Silent, Ends
    <2> QED BY <1>3, <1>4, <1>5, <2>1, StepPlace
  <1>16. CASE Waited
    BY <1>11, <1>12, <1>16 DEF Waited
  <1> QED BY <1>6, <1>7, <1>8, <1>9, <1>10, <1>11, <1>13, <1>14, <1>15, <1>16 DEF ONext

LEMMA UnchangedPlace == ASSUME PlaceInv, UNCHANGED ovars PROVE PlaceInv'
  <1>1. /\ via' = via /\ resolves' = resolves /\ leg' = leg /\ doing' = doing
        /\ sock' = sock /\ peer' = peer /\ outcome' = outcome
    BY DEF ovars, what, place
  <1>2. This' = This /\ Earlier' = Earlier /\ Legs(via') = Legs(via)
    BY <1>1 DEF This, Earlier
  <1>3. OpenIsTrue'
    BY <1>1 DEF PlaceInv, OpenIsTrue, SuccessIsConnected, UnreachableIsVisaError
  <1> QED BY <1>1, <1>2, <1>3 DEF PlaceInv, Kept

(* Success of open() means accepted connections and a closed one to the    *)
(* port mapper; an exception that is no VISA error, a host whose name is   *)
(* unknown or an instrument that accepted them (open of highlevel.py,      *)
(* after_parsing of tcpip.py, _connect and the constructors of rpc.py,     *)
(* vxi11.py and hislip.py).                                                *)
THEOREM Open_is_true == OSpec => []OpenIsTrue
  <1>1. OInit => PlaceInv
    BY PlaceInit
  <1>2. PlaceInv /\ [ONext]_ovars => PlaceInv'
    BY ActionPlace, UnchangedPlace
  <1>3. PlaceInv => OpenIsTrue
    BY DEF PlaceInv
  <1> QED BY <1>1, <1>2, <1>3, PTL DEF OSpec

-----------------------------------------------------------------------------
(* What OpenAdvances says of a step.                                       *)
Sooner ==
    leg # 0 =>
        \/ leg < leg' /\ leg' <= Len(Legs(via))
        \/ leg' = leg /\ Stage' < Stage
        \/ /\ leg' = leg /\ Stage' = Stage
           /\ \/ peer[This] = "pending" /\ peer'[This] # "pending"
              \/ peer' = peer /\ waited < waited' /\ waited' < Limit

LEMMA OpenSooner == ASSUME WaitInv, PlaceInv, ONext PROVE Sooner
  <1>1. leg \in Nat /\ Len(Legs(via)) \in Nat /\ leg <= Len(Legs(via))
    BY LegsTable DEF PlaceInv
  <1>2. ASSUME leg' = leg, doing' = "over", doing \in {"connect", "wait", "ask"} PROVE Sooner
    BY <1>2 DEF Sooner, Stage
  <1>3. CASE Open
    BY <1>3 DEF Open, Sooner
  <1>4. CASE Unresolved \/ Refused \/ NotRegistered \/ Denied \/ Silent
    <2>1. leg' = leg /\ doing' = "over" /\ doing \in {"connect", "wait", "ask"}
      BY <1>4 DEF Unresolved, Refused, NotRegistered, Denied, Silent, Ends
    <2> QED BY <2>1, <1>2
  <1>5. CASE Connect
    BY <1>5 DEF Connect, Goes, Sooner, Stage
  <1>6. CASE Accept
    <2>1. PICK p \in {"accepted", "refused"} : peer' = [peer EXCEPT ![This] = p]
      BY <1>6 DEF Accept
    <2>2. This \in Sockets /\ peer \in [Sockets -> {"none", "pending", "accepted", "refused"}]
      <3>1. doing = "wait"
        BY <1>6 DEF Accept
      <3>2. leg \in {1, 2} /\ (leg = 2 => Len(Legs(via)) = 2)
        BY <1>1, <3>1, LegsTable DEF PlaceInv
      <3> QED BY <3>2, LegsTable DEF PlaceInv, This
    <2>3. peer[This] = "pending" /\ peer'[This] # "pending" /\ leg' = leg /\ doing' = doing
      BY <1>6, <2>1, <2>2 DEF Accept, place
    <2> QED BY <2>3 DEF Sooner, Stage
  <1>7. CASE Connected
    BY <1>7 DEF Connected, Ends, Goes, Sooner, Stage
  <1>8. CASE Waited
    <2>1. Limit \in Nat /\ Limit > 0 /\ MinSelect \in Nat /\ MinSelect >= 100
      BY LimitIsNat, Selects DEF WaitInv
    <2>2. doing = "wait" /\ waited' = waited + slice /\ peer' = peer
      BY <1>8 DEF Waited
    <2>3. CASE waited' >= Limit /\ doing' = "over" /\ leg' = leg
      BY <2>2, <2>3, <1>2
    <2>4. CASE waited' < Limit /\ doing' = doing /\ leg' = leg
      <3>1. waited \in Nat /\ slice \in Nat /\ slice > 0
        <4>1. waited \in Nat /\ slice \in Nat /\ (slice = Limit \/ slice >= MinSelect)
          BY <2>2 DEF WaitInv
        <4> QED BY <2>1, <4>1
      <3>2. waited < waited'
        BY <2>2, <3>1
      <3>3. Stage' = Stage
        BY <2>4 DEF Stage
      <3> QED BY <2>2, <2>4, <3>2, <3>3 DEF Sooner
    <2> QED BY <1>8, <2>3, <2>4 DEF Waited, Ends, place
  <1>9. CASE Answered
    BY <1>1, <1>9 DEF Answered, Ends, Sooner, Stage, PlaceInv
  <1> QED BY <1>3, <1>4, <1>5, <1>6, <1>7, <1>8, <1>9 DEF ONext

(* Each step of open() makes the next connection, goes on to a later stage *)
(* of this one, uses up some of the time it has for it, of which there is  *)
(* an end, or is the host's answer: no host can keep open() for ever       *)
(* (open of highlevel.py, _connect of rpc.py, the constructor of           *)
(* hislip.py).                                                             *)
THEOREM Open_advances == OSpec => OpenAdvances
  <1>1. OInit => WaitInv /\ PlaceInv
    BY OpenTimeoutsAssumption, WaitInit, PlaceInit DEF TimeoutsNat
  <1>2. WaitInv /\ PlaceInv /\ [ONext]_ovars => (WaitInv /\ PlaceInv)'
    BY ConnectWait, WaitedWait, OthersWait, ActionPlace, UnchangedPlace
  <1>3. WaitInv /\ PlaceInv /\ [ONext]_ovars => [Sooner]_ovars
    BY OpenSooner
  <1> QED BY <1>1, <1>2, <1>3, PTL DEF OSpec, OpenAdvances, Sooner

-----------------------------------------------------------------------------
(* Discovery: what is listed, and what is not lost on the way to the list. *)
Said == [host : Hosts, what : Bad \cup {"port"}]
Names(r, h) == r.what = "port" /\ r.host = h
SaidIn(s, h) == \E i \in 1..Len(s) : Names(s[i], h)

SearchTypes ==
    /\ stage \in {"new", "send", "collect", "returned", "raised"}
    /\ networks \subseteq Networks /\ pmap_list \subseteq Networks /\ current \subseteq Networks
    /\ inbox \in [Networks -> Seq(Said)]
    /\ \A m, n \in current : m = n
    /\ current # {} => stage = "collect"

(* Every port that was read, or waits to be, comes from a host that gave   *)
(* one.                                                                    *)
SearchSound ==
    /\ \A n \in Networks : \A h : SaidIn(inbox[n], h) => h \in registered
    /\ \A r \in replies : r.what = "port" => r.host \in registered
    /\ found \subseteq registered

(* A host whose port had arrived when its network's turn came is found, or *)
(* its port is still among what was read or waits to be on the network     *)
(* whose turn it is, unless a reply there ended the reading.               *)
Coming(n, h) == n \in current /\ (SaidIn(inbox[n], h) \/ \E r \in replies : Names(r, h))

SearchComplete ==
    /\ stage \in {"new", "send"} => due = {}
    /\ \A n \in Networks, h \in Hosts : <<n, h>> \in due =>
        /\ n \notin networks
        /\ stage = "raised" \/ n \in spoilt \/ h \in found \/ Coming(n, h)

SearchInv == SearchTypes /\ SearchSound /\ SearchComplete

LEMMA WithPortSaid ==
  ASSUME NEW n, NEW h, inbox[n] \in Seq(Said)
  PROVE  h \in WithPort(n) <=> SaidIn(inbox[n], h)
  <1>1. DOMAIN inbox[n] = 1..Len(inbox[n])
    OBVIOUS
  <1> QED BY <1>1 DEF WithPort, SaidIn, Names

LEMMA SaidInAppended ==
  ASSUME NEW s \in Seq(Said), NEW r \in Said, NEW h, SaidIn(Append(s, r), h)
  PROVE  SaidIn(s, h) \/ Names(r, h)
  <1>1. PICK i \in 1..Len(Append(s, r)) : Names(Append(s, r)[i], h)
    BY DEF SaidIn
  <1>2. /\ Len(s) \in Nat /\ Len(Append(s, r)) = Len(s) + 1
        /\ \A j \in 1..Len(s) : Append(s, r)[j] = s[j]
        /\ Append(s, r)[Len(s) + 1] = r
    OBVIOUS
  <1>3. i \in 1..Len(s) \/ i = Len(s) + 1
    BY <1>2
  <1> QED BY <1>1, <1>2, <1>3 DEF SaidIn

LEMMA SaidInTail ==
  ASSUME NEW s \in Seq(Said), s # <<>>, NEW h
  PROVE  SaidIn(s, h) <=> Names(Head(s), h) \/ SaidIn(Tail(s), h)
  <1>1. /\ Len(s) \in Nat \ {0} /\ Head(s) = s[1] /\ Len(Tail(s)) = Len(s) - 1
        /\ \A j \in 1..Len(Tail(s)) : Tail(s)[j] = s[j + 1]
    OBVIOUS
  <1>2. ASSUME SaidIn(s, h) PROVE Names(Head(s), h) \/ SaidIn(Tail(s), h)
    <2>1. PICK i \in 1..Len(s) : Names(s[i], h)
      BY <1>2 DEF SaidIn
    <2>2. CASE i = 1
      BY <1>1, <2>1, <2>2
    <2>3. CASE i # 1
      <3>1. i - 1 \in 1..Len(Tail(s)) /\ (i - 1) + 1 = i
        BY <1>1, <2>3
      <3>2. Tail(s)[i - 1] = s[i]
        BY <1>1, <3>1
      <3> QED BY <2>1, <3>1, <3>2 DEF SaidIn
    <2> QED BY <2>2, <2>3
  <1>3. ASSUME SaidIn(Tail(s), h) PROVE SaidIn(s, h)
    <2>1. PICK j \in 1..Len(Tail(s)) : Names(Tail(s)[j], h)
      BY <1>3 DEF SaidIn
    <2>2. j + 1 \in 1..Len(s) /\ s[j + 1] = Tail(s)[j]
      BY <1>1
    <2> QED BY <2>1, <2>2 DEF SaidIn
  <1>4. ASSUME Names(Head(s), h) PROVE SaidIn(s, h)
    <2>1. 1 \in 1..Len(s) /\ Names(s[1], h)
      BY <1>1, <1>4
    <2> QED BY <2>1 DEF SaidIn
  <1> QED BY <1>2, <1>3, <1>4

LEMMA SearchInit == DInit => SearchInv
  <1> SUFFICES ASSUME DInit PROVE SearchInv
    OBVIOUS
  <1>1. inbox \in [Networks -> Seq(Said)] /\ \A n \in Networks : Len(inbox[n]) = 0
    BY DEF DInit
  <1>2. \A n \in Networks : \A h : ~ SaidIn(inbox[n], h)
    BY <1>1 DEF SaidIn
  <1> QED BY <1>1, <1>2 DEF DInit, SearchInv, SearchTypes, SearchSound, SearchComplete

(* The steps that read and receive nothing.                                *)
LEMMA SearchLoops ==
  ASSUME SearchInv, ListResources \/ SendPort \/ Sleep \/ Listed
  PROVE  SearchInv'
  <1>1. UNCHANGED <<current, replies, found, inbox, registered, due, spoilt>>
    BY DEF ListResources, SendPort, Sleep, Listed, ddata, dhist
  <1>2. /\ networks' \subseteq Networks /\ pmap_list' \subseteq Networks
        /\ stage' \in {"send", "collect", "returned"}
        /\ current = {} \/ stage' = "collect"
        /\ stage' = "send" => stage \in {"new", "send"}
        /\ stage # "raised"
        /\ networks' \subseteq networks \/ stage \in {"new", "send"}
    BY DEF ListResources, SendPort, Sleep, Listed, SearchInv, SearchTypes
  <1>3. SearchTypes'
    BY <1>1, <1>2 DEF SearchInv, SearchTypes
  <1>4. SearchSound'
    BY <1>1 DEF SearchInv, SearchSound
  <1>5. SearchComplete'
    BY <1>1, <1>2 DEF SearchInv, SearchComplete, Coming
  <1> QED BY <1>3, <1>4, <1>5 DEF SearchInv

LEMMA SearchReply == ASSUME SearchInv, Reply PROVE SearchInv'
  <1>1. PICK h \in Hosts, n \in Networks, what_ \in Bad \cup {"port"} :
          /\ inbox' = [inbox EXCEPT ![n] = Append(@, [host |-> h, what |-> what_])]
          /\ registered' = IF what_ = "port" THEN registered \cup {h} ELSE registered
          /\ UNCHANGED <<stage, pmap_list, networks, current, replies, found, dhist>>
    BY DEF Reply
  <1> DEFINE r == [host |-> h, what |-> what_]
  <1>2. r \in Said /\ (r.what = "port" => r.host \in registered')
    BY <1>1 DEF Said
  <1>3. inbox \in [Networks -> Seq(Said)] /\ inbox[n] \in Seq(Said)
    BY DEF SearchInv, SearchTypes
  <1> HIDE DEF r
  <1>4. inbox'[n] = Append(inbox[n], r) /\ \A m \in Networks \ {n} : inbox'[m] = inbox[m]
    BY <1>1, <1>3 DEF r
  <1>5. inbox' \in [Networks -> Seq(Said)]
    <2>1. Append(inbox[n], r) \in Seq(Said)
      BY <1>2, <1>3
    <2> QED BY <1>1, <1>3, <2>1 DEF r
  <1>6. registered \subseteq registered'
    BY <1>1
  <1>7. ASSUME NEW m \in Networks, NEW g, SaidIn(inbox'[m], g)
        PROVE  g \in registered'
    <2>1. CASE m # n
      BY <1>4, <1>6, <1>7, <2>1 DEF SearchInv, SearchSound
    <2>2. CASE m = n
      <3>1. SaidIn(inbox[n], g) \/ Names(r, g)
        BY <1>2, <1>3, <1>4, <1>7, <2>2, SaidInAppended
      <3> QED BY <1>2, <1>6, <3>1 DEF SearchInv, SearchSound, Names
    <2> QED BY <2>1, <2>2
  <1>8. ASSUME NEW m \in Networks, NEW g, SaidIn(inbox[m], g)
        PROVE  SaidIn(inbox'[m], g)
    <2>1. CASE m # n
      BY <1>4, <1>8, <2>1
    <2>2. CASE m = n
      <3>1. PICK i \in 1..Len(inbox[n]) : Names(inbox[n][i], g)
        BY <1>8, <2>2 DEF SaidIn
      <3>2. i \in 1..Len(Append(inbox[n], r)) /\ Append(inbox[n], r)[i] = inbox[n][i]
        BY <1>2, <1>3
      <3> QED BY <1>4, <2>2, <3>1, <3>2 DEF SaidIn
    <2> QED BY <2>1, <2>2
  <1>9. UNCHANGED <<stage, pmap_list, networks, current, replies, found, due, spoilt>>
    BY <1>1 DEF dhist
  <1>10. SearchTypes'
    BY <1>5, <1>9 DEF SearchInv, SearchTypes
  <1>11. SearchSound'
    BY <1>6, <1>7, <1>9 DEF SearchInv, SearchSound
  <1>12. SearchComplete'
    BY <1>8, <1>9 DEF SearchInv, SearchTypes, SearchComplete, Coming
  <1> QED BY <1>10, <1>11, <1>12 DEF SearchInv

LEMMA SearchRecvPort == ASSUME SearchInv, RecvPort PROVE SearchInv'
  <1>1. PICK n \in networks :
          /\ current' = {n} /\ networks' = networks \ {n}
          /\ due' = due \cup {<<n, h>> : h \in WithPort(n)}
    BY DEF RecvPort
  <1>2. /\ stage = "collect" /\ current = {} /\ replies' = {}
        /\ UNCHANGED <<stage, pmap_list, found, inbox, registered, spoilt>>
    BY DEF RecvPort, ddata
  <1>3. n \in Networks /\ inbox[n] \in Seq(Said)
    BY <1>1 DEF SearchInv, SearchTypes
  <1>4. SearchTypes'
    BY <1>1, <1>2, <1>3 DEF SearchInv, SearchTypes
  <1>5. SearchSound'
    BY <1>2 DEF SearchInv, SearchSound
  <1>6. ASSUME NEW m \in Networks, NEW h \in Hosts, <<m, h>> \in due'
        PROVE  /\ m \notin networks'
               /\ m \in spoilt' \/ h \in found' \/ Coming(m, h)'
    <2>1. CASE <<m, h>> \in due
      BY <1>1, <1>2, <2>1 DEF SearchInv, SearchComplete, Coming
    <2>2. CASE <<m, h>> \notin due
      <3>1. m = n /\ h \in WithPort(n)
        BY <1>1, <1>6, <2>2
      <3>2. SaidIn(inbox[n], h)
        BY <1>3, <3>1, WithPortSaid
      <3> QED BY <1>1, <1>2, <3>1, <3>2 DEF Coming
    <2> QED BY <2>1, <2>2
  <1>7. SearchComplete'
    BY <1>2, <1>6 DEF SearchComplete
  <1> QED BY <1>4, <1>5, <1>7 DEF SearchInv

LEMMA SearchRecvCall == ASSUME SearchInv, RecvCall PROVE SearchInv'
  <1> DEFINE r(n) == Head(inbox[n])
  <1>1. PICK n \in current :
          /\ inbox[n] # <<>>
          /\ inbox' = [inbox EXCEPT ![n] = Tail(@)]
          /\ \/ /\ r(n).what \in {"port", "zero"}
                /\ replies' = replies \cup {r(n)}
                /\ UNCHANGED <<stage, current, spoilt>>
             \/ /\ r(n).what = "foreign"
                /\ UNCHANGED <<stage, current, replies, spoilt>>
             \/ /\ r(n).what = "denied"
                /\ current' = {} /\ replies' = {} /\ spoilt' = spoilt \cup {n}
                /\ UNCHANGED stage
             \/ /\ r(n).what = "garbled"
                /\ stage' = "raised" /\ current' = {} /\ replies' = {}
                /\ UNCHANGED spoilt
    BY DEF RecvCall, Skip
  <1>2. UNCHANGED <<pmap_list, networks, found, registered, due>>
    BY DEF RecvCall
  <1>3. /\ inbox \in [Networks -> Seq(Said)] /\ n \in Networks /\ inbox[n] \in Seq(Said)
        /\ stage = "collect" /\ current = {n}
    BY DEF SearchInv, SearchTypes
  <1>4. /\ inbox' \in [Networks -> Seq(Said)] /\ inbox'[n] = Tail(inbox[n])
        /\ \A m \in Networks \ {n} : inbox'[m] = inbox[m]
    <2>1. Tail(inbox[n]) \in Seq(Said)
      BY <1>1, <1>3
    <2> QED BY <1>1, <1>3, <2>1
  <1>5. ASSUME NEW h
        PROVE  SaidIn(inbox[n], h) <=> Names(r(n), h) \/ SaidIn(inbox'[n], h)
    BY <1>1, <1>3, <1>4, SaidInTail
  <1>6. SearchTypes'
    BY <1>1, <1>2, <1>3, <1>4 DEF SearchInv, SearchTypes
  <1>7. SearchSound'
    <2>1. ASSUME NEW m \in Networks, NEW h, SaidIn(inbox'[m], h)
          PROVE  h \in registered'
      <3>1. SaidIn(inbox[m], h)
        BY <1>4, <1>5, <2>1
      <3> QED BY <1>2, <3>1 DEF SearchInv, SearchSound
    <2>2. ASSUME NEW q \in replies', q.what = "port"
          PROVE  q.host \in registered'
      <3>1. CASE q \in replies
        BY <1>2, <2>2, <3>1 DEF SearchInv, SearchSound
      <3>2. CASE q = r(n)
        <4>1. SaidIn(inbox[n], q.host)
          BY <1>5, <2>2, <3>2 DEF Names
        <4> QED BY <1>2, <1>3, <4>1 DEF SearchInv, SearchSound
      <3> QED BY <1>1, <2>2, <3>1, <3>2
    <2> QED BY <1>2, <2>1, <2>2 DEF SearchInv, SearchSound
  <1>8. ASSUME NEW m \in Networks, NEW h \in Hosts, <<m, h>> \in due',
               stage' # "raised", m \notin spoilt', h \notin found'
        PROVE  Coming(m, h)'
    <2>1. Coming(m, h) /\ m = n
      <3>1. spoilt \subseteq spoilt'
        BY <1>1
      <3>2. Coming(m, h)
        BY <1>2, <1>3, <1>8, <3>1 DEF SearchInv, SearchComplete
      <3> QED BY <1>3, <3>2 DEF Coming
    <2>2. current' = current /\ replies \subseteq replies' /\ (Names(r(n), h) => r(n) \in replies')
      BY <1>1, <1>8, <2>1 DEF Names
    <2>3. CASE SaidIn(inbox[n], h)
      <3>1. Names(r(n), h) \/ SaidIn(inbox'[n], h)
        BY <1>5, <2>3
      <3> QED BY <1>3, <2>1, <2>2, <3>1 DEF Coming
    <2>4. CASE \E q \in replies : Names(q, h)
      BY <1>3, <2>1, <2>2, <2>4 DEF Coming
    <2> QED BY <2>1, <2>3, <2>4 DEF Coming
  <1>9. SearchComplete'
    <2>1. stage' \notin {"new", "send"}
      BY <1>1, <1>3
    <2> QED BY <1>2, <1>8, <2>1 DEF SearchInv, SearchComplete
  <1> QED BY <1>6, <1>7, <1>9 DEF SearchInv

LEMMA SearchNetworkRead == ASSUME SearchInv, NetworkRead PROVE SearchInv'
  <1>1. PICK n \in current :
          /\ inbox[n] = <<>>
          /\ found' = found \cup {r.host : r \in {x \in replies : x.what = "port"}}
          /\ current' = {} /\ replies' = {}
    BY DEF NetworkRead, Registered
  <1>2. UNCHANGED <<stage, pmap_list, networks, inbox, registered, due, spoilt>>
    BY DEF NetworkRead, ddata, dhist
  <1>3. n \in Networks /\ current = {n} /\ \A h : ~ SaidIn(inbox[n], h)
    BY <1>1 DEF SearchInv, SearchTypes, SaidIn
  <1>4. SearchTypes'
    BY <1>1, <1>2 DEF SearchInv, SearchTypes
  <1>5. SearchSound'
    BY <1>1, <1>2 DEF SearchInv, SearchSound
  <1>6. ASSUME NEW m, NEW h, Coming(m, h)
        PROVE  h \in found'
    BY <1>1, <1>3, <1>6 DEF Coming, Names
  <1>7. SearchComplete'
    BY <1>1, <1>2, <1>6 DEF SearchInv, SearchComplete
  <1> QED BY <1>4, <1>5, <1>7 DEF SearchInv

LEMMA SearchUnchanged == ASSUME SearchInv, UNCHANGED dvars PROVE SearchInv'
  <1>1. UNCHANGED <<stage, pmap_list, networks, current, inbox, replies, found, registered, due, spoilt>>
    BY DEF dvars, dhist
  <1>2. SearchTypes'
    BY <1>1 DEF SearchInv, SearchTypes
  <1>3. SearchSound'
    BY <1>1 DEF SearchInv, SearchSound
  <1>4. SearchComplete'
    BY <1>1 DEF SearchInv, SearchComplete, Coming
  <1> QED BY <1>2, <1>3, <1>4 DEF SearchInv

(* Discovery lists only hosts that answered with a port, and every one     *)
(* whose answer had arrived when its network was read, whatever the other  *)
(* answers are, for any networks, hosts and number of replies              *)
(* (list_resources of tcpip.py, send_call and recv_call of rpc.py).        *)
THEOREM Lists_who_answered == DSpec => []ListsWhoAnswered
  <1>1. SearchInv /\ DNext => SearchInv'
    BY SearchLoops, SearchReply, SearchRecvPort, SearchRecvCall, SearchNetworkRead DEF DNext
  <1>2. SearchInv /\ [DNext]_dvars => SearchInv'
    BY <1>1, SearchUnchanged
  <1>3. SearchInv => ListsWhoAnswered
    BY DEF SearchInv, SearchTypes, SearchSound, SearchComplete, Coming, ListsWhoAnswered
  <1> QED BY <1>2, <1>3, SearchInit, PTL DEF DSpec
======================================================================================================================================================

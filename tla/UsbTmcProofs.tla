---------------------------- MODULE UsbTmcProofs ----------------------------
(***************************************************************************)
(* A USBTMC session, for any sizes of packets, lines, messages and reads   *)
(* and any number of calls: a status byte belongs to the call that returns *)
(* it, a write that returns has delivered its message, and the units of a  *)
(* response are neither lost nor repeated.                                 *)
(***************************************************************************)
EXTENDS UsbTmc, SequenceTheorems, TLAPS

Places == {"idle", "write", "request", "transfer", "more", "abort", "status"}
Units == Nat \X Nat
Transfers == [data : Seq(Units), eom : BOOLEAN]
Notices == [tag : Nat, call : Nat]

-----------------------------------------------------------------------------
(* Status notifications carry the tag of the call that asked for them, and *)
(* no tag comes round again.                                               *)
TagOf(call) == FirstStb + call - 1

Numbered(notice, calls) == notice.call \in 1..calls /\ notice.tag = TagOf(notice.call)

Queue(queue, calls) ==
    queue \in Seq(Notices) /\ \A i \in 1..Len(queue) : Numbered(queue[i], calls)

StatusInv ==
    /\ stbs \in 0..MaxStbs
    /\ stbs = 0 => stbTag \in {0, LastStb}
    /\ stbs > 0 => stbTag = TagOf(stbs)
    /\ Queue(notices, stbs) /\ Queue(interrupt, stbs)
    /\ StatusIsOwn

LEMMA InitStatus == Init => StatusInv
  <1> SUFFICES ASSUME Init PROVE StatusInv
    OBVIOUS
  <1>1. stbs = 0 /\ stbTag \in {0, LastStb} /\ notices = <<>> /\ interrupt = <<>> /\ outcome = "none"
    BY DEF Init
  <1>2. 0 \in 0..MaxStbs
    BY ConstantsAssumption
  <1>3. Queue(notices, stbs) /\ Queue(interrupt, stbs)
    BY <1>1 DEF Queue
  <1> QED BY <1>1, <1>2, <1>3 DEF StatusInv, StatusIsOwn

(* A queue of notices loses its first one, or gets another one.            *)
LEMMA QueueTail ==
  ASSUME NEW calls, NEW queue, Queue(queue, calls), queue # <<>>
  PROVE  /\ Head(queue) \in Notices /\ Numbered(Head(queue), calls)
         /\ Queue(Tail(queue), calls)
  <1>1. queue \in Seq(Notices) /\ \A i \in 1..Len(queue) : Numbered(queue[i], calls)
    BY DEF Queue
  <1>2. Head(queue) = queue[1] /\ 1 \in 1..Len(queue) /\ queue[1] \in Notices
    BY <1>1
  <1>3. /\ Tail(queue) \in Seq(Notices) /\ Len(Tail(queue)) = Len(queue) - 1
        /\ \A i \in 1..Len(Tail(queue)) : Tail(queue)[i] = queue[i + 1]
    BY <1>1, HeadTailProperties
  <1>4. \A i \in 1..Len(Tail(queue)) : i + 1 \in 1..Len(queue)
    BY <1>1, <1>3
  <1> QED BY <1>1, <1>2, <1>3, <1>4 DEF Queue

LEMMA QueueAppend ==
  ASSUME NEW calls, NEW queue, Queue(queue, calls), NEW notice \in Notices, Numbered(notice, calls)
  PROVE  Queue(Append(queue, notice), calls)
  <1>1. queue \in Seq(Notices) /\ \A i \in 1..Len(queue) : Numbered(queue[i], calls)
    BY DEF Queue
  <1>2. /\ Append(queue, notice) \in Seq(Notices) /\ Len(Append(queue, notice)) = Len(queue) + 1
        /\ \A i \in 1..Len(queue) : Append(queue, notice)[i] = queue[i]
        /\ Append(queue, notice)[Len(queue) + 1] = notice
    BY <1>1, AppendProperties
  <1>3. \A i \in 1..Len(queue) + 1 : i \in 1..Len(queue) \/ i = Len(queue) + 1
    BY <1>1
  <1> QED BY <1>1, <1>2, <1>3 DEF Queue

LEMMA ReadStbStatus == ASSUME StatusInv, ReadStb PROVE StatusInv'
  <1>1. PICK notice : notice = [tag |-> stbTag', call |-> stbs + 1]
    OBVIOUS
  <1>2. /\ stbs < MaxStbs /\ stbs' = stbs + 1 /\ outcome' = "none"
        /\ stbTag' = After(stbTag, FirstStb, LastStb)
        /\ notices' = Append(notices, notice) /\ interrupt' = interrupt
    BY <1>1 DEF ReadStb, BeginCall
  <1>3. /\ stbs \in Nat /\ MaxStbs \in Nat /\ FirstStb \in Nat \ {0} /\ LastStb \in Nat
        /\ MaxStbs <= LastStb - FirstStb + 1
    BY ConstantsAssumption DEF StatusInv
  <1>4. stbTag' = TagOf(stbs + 1)
    <2>1. CASE stbs = 0
      <3>1. stbTag = 0 \/ stbTag = LastStb
        BY <2>1 DEF StatusInv
      <3>2. stbTag' = FirstStb
        BY <3>1, <1>2, <1>3 DEF After
      <3> QED BY <2>1, <3>2, <1>3 DEF TagOf
    <2>2. CASE stbs > 0
      <3>1. stbTag = FirstStb + stbs - 1
        BY <2>2 DEF StatusInv, TagOf
      <3>2. stbTag # 0 /\ ~ stbTag + 1 > LastStb
        BY <2>2, <3>1, <1>2, <1>3
      <3>3. stbTag' = stbTag + 1
        BY <3>2, <1>2 DEF After
      <3> QED BY <3>1, <3>3, <1>3 DEF TagOf
    <2> QED BY <2>1, <2>2, <1>3
  <1>5. stbTag' \in Nat
    BY <1>3, <1>4 DEF TagOf
  <1>6. notice \in Notices /\ Numbered(notice, stbs')
    BY <1>1, <1>2, <1>3, <1>4, <1>5 DEF Notices, Numbered
  <1>7. Queue(notices, stbs') /\ Queue(interrupt, stbs')
    <2>1. \A call \in 1..stbs : call \in 1..stbs'
      BY <1>2, <1>3
    <2> QED BY <2>1 DEF StatusInv, Queue, Numbered
  <1>8. Queue(notices', stbs')
    BY <1>2, <1>6, <1>7, QueueAppend
  <1>9. stbs' \in 0..MaxStbs /\ stbs' # 0
    BY <1>2, <1>3
  <1> QED BY <1>2, <1>4, <1>7, <1>8, <1>9 DEF StatusInv, StatusIsOwn

(* The status that has the tag of this call is the answer to it.           *)
LEMMA StatusStatus == ASSUME StatusInv, Status PROVE StatusInv'
  <1>1. /\ interrupt # <<>> /\ interrupt' = Tail(interrupt)
        /\ notices' = notices /\ stbs' = stbs /\ stbTag' = stbTag
        /\ \/ /\ Head(interrupt).tag = stbTag
              /\ outcome' = "status" /\ data' = <<Head(interrupt).call>>
           \/ outcome' = "error"
    BY DEF Status, counts
  <1>2. Numbered(Head(interrupt), stbs) /\ Queue(interrupt', stbs)
    BY <1>1, QueueTail DEF StatusInv
  <1>3. Head(interrupt).tag = stbTag => Head(interrupt).call = stbs
    <2>1. /\ stbs \in Nat /\ FirstStb \in Nat /\ Head(interrupt).call \in 1..stbs
          /\ Head(interrupt).tag = FirstStb + Head(interrupt).call - 1
      BY <1>2, ConstantsAssumption DEF StatusInv, Numbered, TagOf
    <2>2. stbTag = FirstStb + stbs - 1
      BY <2>1 DEF StatusInv, TagOf
    <2> QED BY <2>1, <2>2
  <1>4. StatusIsOwn'
    BY <1>1, <1>3 DEF StatusIsOwn
  <1> QED BY <1>1, <1>2, <1>4 DEF StatusInv

LEMMA NotifyStatus == ASSUME StatusInv, Notify PROVE StatusInv'
  <1>1. /\ notices # <<>> /\ interrupt' = Append(interrupt, Head(notices))
        /\ notices' = Tail(notices) /\ stbs' = stbs /\ stbTag' = stbTag
        /\ outcome' = outcome /\ data' = data
    BY DEF Notify, counts, result
  <1>2. /\ Head(notices) \in Notices /\ Numbered(Head(notices), stbs)
        /\ Queue(Tail(notices), stbs)
    BY <1>1, QueueTail DEF StatusInv
  <1>3. Queue(interrupt', stbs)
    BY <1>1, <1>2, QueueAppend DEF StatusInv
  <1> QED BY <1>1, <1>2, <1>3 DEF StatusInv, StatusIsOwn

(* No other step touches the tags or says it has a status.                 *)
LEMMA SameStatus ==
  ASSUME StatusInv, UNCHANGED <<stbTag, stbs, status>>,
         outcome' # "status" \/ UNCHANGED <<outcome, data>>
  PROVE  StatusInv'
  BY DEF StatusInv, StatusIsOwn, status

LEMMA ReturnOutcome ==
  ASSUME NEW current, ReaderReturns(current)
  PROVE  outcome' # "status" \/ UNCHANGED <<outcome, data>>
  BY DEF ReaderReturns, Return

LEMMA StatusStep == StatusInv /\ [Next]_vars => StatusInv'
  <1> SUFFICES ASSUME StatusInv, [Next]_vars PROVE StatusInv'
    OBVIOUS
  <1> DEFINE Same == /\ UNCHANGED <<stbTag, stbs, status>>
                     /\ outcome' # "status" \/ UNCHANGED <<outcome, data>>
  <1>1. CASE Same
    BY <1>1, SameStatus
  <1>2. ASSUME NEW n, BeginWrite(n) \/ BeginRead(n) PROVE Same
    BY <1>2 DEF BeginWrite, BeginRead, BeginCall
  <1>3. CASE AssertTrigger \/ SetTimeout \/ GetTimeout \/ Transfer
    BY <1>1, <1>3 DEF AssertTrigger, SetTimeout, GetTimeout, Transfer, counts, result
  <1>4. CASE SendChunk \/ SendError \/ Request \/ RequestError
    BY <1>1, <1>4 DEF SendChunk, SendError, Request, RequestError, Raise, counts, result
  <1>5. CASE TakeTransfer \/ TakeMore
    BY <1>1, <1>5, ReturnOutcome DEF TakeTransfer, TakeMore, counts, result
  <1>6. CASE ReadTimeout \/ AbortDone \/ AbortFailed \/ StatusTimeout
    BY <1>1, <1>6 DEF ReadTimeout, AbortDone, AbortFailed, StatusTimeout, GiveUp, Raise, Return,
                      counts, result
  <1>7. CASE UNCHANGED vars
    BY <1>1, <1>7 DEF vars, counts, result
  <1> HIDE DEF Same
  <1> QED BY <1>1, <1>2, <1>3, <1>4, <1>5, <1>6, <1>7, ReadStbStatus, StatusStatus, NotifyStatus
          DEF Next, CallStep

(* A status byte is the answer to the call of read_stb() that returns it   *)
(* (protocols/usbtmc.py), however late the notifications of earlier calls  *)
(* come, as long as no tag is used twice.                                  *)
THEOREM Status_is_own == Spec => []StatusIsOwn
  <1>1. StatusInv => StatusIsOwn
    BY DEF StatusInv
  <1> QED BY <1>1, InitStatus, StatusStep, PTL DEF Spec

-----------------------------------------------------------------------------
Types ==
    /\ pc \in Places /\ suppressEnd \in BOOLEAN /\ upset \in BOOLEAN
    /\ begin \in Nat /\ size \in Nat /\ input \in Nat /\ taken \in Seq(Nat)
    /\ writes \in Nat /\ count \in Nat
    /\ btag \in Nat /\ request \in [tag : Nat, size : Nat, term : BOOLEAN]
    /\ termEn \in BOOLEAN
    /\ received \in Seq(Units) /\ transfer \in Seq(Units) /\ out \in Seq(Units)
    /\ response \in Seq(Units) /\ full \in Seq(Units)
    /\ bulkIn \in Seq(Transfers)
    /\ ~ suppressEnd => returned \in Seq(Units)

(* A message is received up to where write() is, and none is half received *)
(* outside write().                                                        *)
Writing ==
    /\ Len(taken) <= writes
    /\ pc # "idle" => outcome = "none"
    /\ pc = "write" =>
          /\ begin < size \/ begin = 0
          /\ Len(taken) < writes
          /\ ~ upset => input = begin
    /\ pc # "write" /\ ~ upset => input = 0
    /\ MessageDelivered

(* What read() holds at each of its steps, and what may be under way.      *)
Collecting ==
    /\ pc \in {"idle", "write", "status"} => received = <<>> /\ out = <<>>
    /\ pc \notin {"more", "abort"} => transfer = <<>>
    /\ pc = "more" => transfer # <<>>
    /\ pc = "write" => returned = <<>>
    /\ ~ suppressEnd => out = <<>>
    /\ \A i \in 1..Len(bulkIn) : bulkIn[i].data # <<>>

OneTransfer ==
    ~ upset =>
        /\ Len(bulkIn) <= 1
        /\ bulkIn # <<>> => request = NoRequest
        /\ request # NoRequest \/ bulkIn # <<>> => pc \in {"transfer", "abort"}

MessageInv == Types /\ Writing /\ Collecting /\ OneTransfer /\ ResponseConserved

LEMMA InitMessage == Init => MessageInv
  <1> SUFFICES ASSUME Init PROVE MessageInv
    OBVIOUS
  <1>1. /\ pc = "idle" /\ outcome = "none" /\ suppressEnd \in BOOLEAN /\ termEn \in BOOLEAN
        /\ upset = FALSE /\ count = 0 /\ begin = 0 /\ size = 0 /\ input = 0 /\ writes = 0
        /\ received = <<>> /\ transfer = <<>> /\ out = <<>> /\ returned = <<>> /\ taken = <<>>
        /\ request = NoRequest /\ response = <<>> /\ full = <<>> /\ bulkIn = <<>>
        /\ btag \in Nat
    BY ConstantsAssumption DEF Init
  <1>2. Types
    <2>1. <<>> \in Seq(Units) /\ <<>> \in Seq(Nat) /\ <<>> \in Seq(Transfers)
      OBVIOUS
    <2>2. request \in [tag : Nat, size : Nat, term : BOOLEAN]
      BY <1>1 DEF NoRequest
    <2> QED BY <1>1, <2>1, <2>2 DEF Types, Places
  <1>3. Writing /\ Collecting /\ OneTransfer
    BY <1>1 DEF Writing, Collecting, OneTransfer, MessageDelivered
  <1>4. ResponseConserved
    <2>1. <<>> = <<>> \o <<>> \o <<>> \o <<>> \o <<>> \o <<>>
      BY ConcatEmptySeq, EmptySeq
    <2> QED BY <1>1, <2>1 DEF ResponseConserved, InTransit
  <1> QED BY <1>2, <1>3, <1>4 DEF MessageInv

(* The parts of a response, when Session._read holds none of it.           *)
Parts(r, c, k, x, p) == r \o <<>> \o c \o k \o x \o p

Nested(r, c, k, x, p) == r \o (c \o (k \o (x \o p)))

Known(r, c, k, x, p) ==
    r \in Seq(Units) /\ c \in Seq(Units) /\ k \in Seq(Units) /\ x \in Seq(Units) /\ p \in Seq(Units)

LEMMA Associates ==
  ASSUME NEW a \in Seq(Units), NEW b \in Seq(Units), NEW c \in Seq(Units)
  PROVE  a \o b \in Seq(Units) /\ (a \o b) \o c = a \o (b \o c)
  BY ConcatAssociative, ConcatProperties

LEMMA Empties ==
  ASSUME NEW a \in Seq(Units)
  PROVE  a \o <<>> = a /\ <<>> \o a = a
  BY ConcatEmptySeq

LEMMA Gathered ==
  ASSUME NEW r, NEW c, NEW k, NEW x, NEW p, Known(r, c, k, x, p)
  PROVE  Parts(r, c, k, x, p) = Nested(r, c, k, x, p)
  <1>1. r \in Seq(Units) /\ c \in Seq(Units)
    BY DEF Known
  <1>2. k \in Seq(Units)
    BY DEF Known
  <1>3. x \in Seq(Units) /\ p \in Seq(Units)
    BY DEF Known
  <1>4. r \o c \in Seq(Units)
    BY ONLY <1>1, Associates
  <1>5. (r \o c) \o k \in Seq(Units)
    BY ONLY <1>2, <1>4, Associates
  <1>6. x \o p \in Seq(Units)
    BY ONLY <1>3, Associates
  <1>7. k \o (x \o p) \in Seq(Units)
    BY ONLY <1>2, <1>6, Associates
  <1>8. (((r \o c) \o k) \o x) \o p = ((r \o c) \o k) \o (x \o p)
    BY ONLY <1>3, <1>5, Associates
  <1>9. ((r \o c) \o k) \o (x \o p) = (r \o c) \o (k \o (x \o p))
    BY ONLY <1>2, <1>4, <1>6, Associates
  <1>10. (r \o c) \o (k \o (x \o p)) = r \o (c \o (k \o (x \o p)))
    <2>1. PICK y : y = k \o (x \o p)
      OBVIOUS
    <2>2. y \in Seq(Units)
      BY ONLY <1>7, <2>1
    <2>3. (r \o c) \o y = r \o (c \o y)
      BY ONLY <1>1, <2>2, Associates
    <2> QED BY ONLY <2>1, <2>3
  <1>11. r \o <<>> = r
    BY ONLY <1>1, Empties
  <1> QED BY ONLY <1>8, <1>9, <1>10, <1>11, Zenon DEF Parts, Nested

(* Units that have come are returned, put with what was received, or kept  *)
(* while more of their transfer is awaited.                                *)
LEMMA Moves ==
  ASSUME NEW r, NEW c, NEW x, NEW p,
         r \in Seq(Units) /\ c \in Seq(Units), x \in Seq(Units) /\ p \in Seq(Units)
  PROVE  /\ Parts(r \o (<<>> \o (c \o x)), <<>>, <<>>, <<>>, p) = Parts(r, c, <<>>, x, p)
         /\ Parts(r, c \o x, <<>>, <<>>, p) = Parts(r, c, <<>>, x, p)
         /\ Parts(r, c, x, <<>>, p) = Parts(r, c, <<>>, x, p)
  <1> DEFINE e == <<>>
             y == c \o x
             q == x \o p
             w == r \o y
  <1>1. r \in Seq(Units) /\ c \in Seq(Units)
    OBVIOUS
  <1>2. x \in Seq(Units) /\ p \in Seq(Units)
    OBVIOUS
  <1>3. e \in Seq(Units)
    OBVIOUS
  <1>4. y \in Seq(Units) /\ y \o p = c \o (x \o p)
    BY ONLY <1>1, <1>2, Associates
  <1>5. q \in Seq(Units)
    BY ONLY <1>2, Associates
  <1>6. w \in Seq(Units) /\ w \o p = r \o (y \o p)
    <2> HIDE DEF y
    <2>1. r \in Seq(Units) /\ y \in Seq(Units)
      BY <1>4
    <2>2. r \o y \in Seq(Units)
      BY ONLY <2>1, Associates
    <2>3. p \in Seq(Units)
      OBVIOUS
    <2> QED BY ONLY <2>1, <2>2, <2>3, Associates
  <1>7. e \o p = p /\ e \o q = q /\ e \o y = y
    <2> HIDE DEF y, q
    <2> QED BY ONLY <1>2, <1>4, <1>5, Empties
  <1>8. Parts(r, c, e, x, p) = Nested(r, c, e, x, p)
    <2>1. Known(r, c, e, x, p)
      <3> HIDE DEF e, y, q, w
      <3> QED BY ONLY <1>1, <1>2, <1>3 DEF Known
    <2> QED BY ONLY <2>1, Gathered
  <1>9. Parts(r, c, x, e, p) = Nested(r, c, x, e, p)
    <2>1. Known(r, c, x, e, p)
      <3> HIDE DEF e, y, q, w
      <3> QED BY ONLY <1>1, <1>2, <1>3 DEF Known
    <2> QED BY ONLY <2>1, Gathered
  <1>10. Parts(r, y, e, e, p) = Nested(r, y, e, e, p)
    <2>1. Known(r, y, e, e, p)
      <3> HIDE DEF e, y, q, w
      <3> QED BY ONLY <1>1, <1>2, <1>3, <1>4 DEF Known
    <2> QED BY ONLY <2>1, Gathered
  <1>11. Parts(w, e, e, e, p) = Nested(w, e, e, e, p)
    <2>1. Known(w, e, e, e, p)
      <3> HIDE DEF e, y, q, w
      <3> QED BY ONLY <1>2, <1>3, <1>6 DEF Known
    <2> QED BY ONLY <2>1, Gathered
  <1>12. Parts(r \o (e \o (c \o x)), e, e, e, p) = Parts(w, e, e, e, p)
    BY ONLY <1>7, Zenon
  <1> HIDE DEF e
  <1>13. Parts(w, e, e, e, p) = Parts(r, c, e, x, p)
    BY ONLY <1>4, <1>6, <1>7, <1>8, <1>11, Zenon DEF Nested
  <1>14. Parts(r, y, e, e, p) = Parts(r, c, e, x, p)
    BY ONLY <1>4, <1>7, <1>8, <1>10, Zenon DEF Nested
  <1>15. Parts(r, c, x, e, p) = Parts(r, c, e, x, p)
    BY ONLY <1>4, <1>7, <1>8, <1>9, Zenon DEF Nested
  <1> QED BY ONLY <1>12, <1>13, <1>14, <1>15, Zenon DEF e

(* What the device sends comes first in what it had to send, and after a   *)
(* write there is only what it has to send.                                *)
LEMMA MovesSent ==
  ASSUME NEW r, NEW c, NEW k, NEW x, NEW p,
         r \in Seq(Units) /\ c \in Seq(Units), k \in Seq(Units),
         x \in Seq(Units) /\ p \in Seq(Units)
  PROVE  Parts(r, c, k, <<>>, x \o p) = Parts(r, c, k, x, p)
  <1> DEFINE e == <<>>
             q == x \o p
  <1>1. r \in Seq(Units) /\ c \in Seq(Units)
    OBVIOUS
  <1>2. k \in Seq(Units)
    OBVIOUS
  <1>3. x \in Seq(Units) /\ p \in Seq(Units)
    OBVIOUS
  <1>4. e \in Seq(Units)
    OBVIOUS
  <1>5. q \in Seq(Units)
    BY ONLY <1>3, Associates
  <1>6. e \o q = q
    <2> HIDE DEF q
    <2> QED BY ONLY <1>5, Empties
  <1>7. Parts(r, c, k, e, q) = Nested(r, c, k, e, q)
    <2>1. Known(r, c, k, e, q)
      <3> HIDE DEF e, q
      <3> QED BY ONLY <1>1, <1>2, <1>4, <1>5 DEF Known
    <2> QED BY ONLY <2>1, Gathered
  <1>8. Parts(r, c, k, x, p) = Nested(r, c, k, x, p)
    <2>1. Known(r, c, k, x, p)
      <3> HIDE DEF e, q
      <3> QED BY ONLY <1>1, <1>2, <1>3 DEF Known
    <2> QED BY ONLY <2>1, Gathered
  <1> QED BY ONLY <1>6, <1>7, <1>8, Zenon DEF Nested

LEMMA MovesNone ==
  ASSUME NEW p \in Seq(Units)
  PROVE  Parts(<<>>, <<>>, <<>>, <<>>, p) = p
  <1>1. <<>> \in Seq(Units) /\ p \in Seq(Units)
    OBVIOUS
  <1>2. <<>> \o p = p
    BY Empties
  <1>3. Parts(<<>>, <<>>, <<>>, <<>>, p) = Nested(<<>>, <<>>, <<>>, <<>>, p)
    <2>1. Known(<<>>, <<>>, <<>>, <<>>, p)
      BY <1>1 DEF Known
    <2> QED BY ONLY <2>1, Gathered
  <1> QED BY ONLY <1>2, <1>3, Zenon DEF Nested

-----------------------------------------------------------------------------
Conserved == full = Parts(returned, received, transfer, InTransit, response)

(* Session._read holds nothing unless END is suppressed.                   *)
LEMMA IsConserved ==
  Collecting =>
      (ResponseConserved <=>
          ((~ suppressEnd /\ ~ upset /\ pc # "write" /\ Len(taken) = writes) =>
              Len(bulkIn) <= 1 /\ Conserved))
  <1> SUFFICES ASSUME Collecting
               PROVE  ResponseConserved <=>
                        ((~ suppressEnd /\ ~ upset /\ pc # "write" /\ Len(taken) = writes) =>
                            Len(bulkIn) <= 1 /\ Conserved)
    OBVIOUS
  <1>1. CASE suppressEnd
    BY <1>1 DEF ResponseConserved
  <1>2. CASE ~ suppressEnd
    <2>1. out = <<>>
      BY <1>2 DEF Collecting
    <2> QED BY <2>1, Zenon DEF ResponseConserved, Conserved, Parts
  <1> QED BY <1>1, <1>2

LEMMA Conserving ==
  ASSUME Collecting',
         (~ suppressEnd /\ ~ upset /\ pc # "write" /\ Len(taken) = writes)' =>
             Len(bulkIn') <= 1 /\ Conserved'
  PROVE  ResponseConserved'
  <1>1. Collecting' =>
          (ResponseConserved' <=>
              ((~ suppressEnd /\ ~ upset /\ pc # "write" /\ Len(taken) = writes) =>
                  Len(bulkIn) <= 1 /\ Conserved)')
    BY IsConserved, PTL
  <1> QED BY <1>1

MessageState == <<suppressEnd, termEn, upset, begin, size, input, taken, writes, count, request,
                  received, transfer, out, response, full, bulkIn, returned>>

(* The steps of the other calls, and those of the interrupt endpoint.      *)
LEMMA Elsewhere ==
  ASSUME MessageInv, UNCHANGED MessageState, btag' \in Nat,
         \/ UNCHANGED <<pc, outcome, data>>
         \/ /\ pc \in {"idle", "status"} /\ pc' \in {"idle", "status"}
            /\ pc' # "idle" => outcome' = "none"
            /\ outcome' # "ok"
  PROVE  MessageInv'
  <1> USE DEF MessageState
  <1>1. Types'
    BY DEF MessageInv, Types, Places
  <1>2. Writing'
    <2>1. MessageDelivered'
      BY DEF MessageInv, Writing, MessageDelivered
    <2> QED BY <2>1 DEF MessageInv, Writing
  <1>3. Collecting'
    BY DEF MessageInv, Collecting
  <1>4. OneTransfer'
    BY DEF MessageInv, OneTransfer
  <1>5. ResponseConserved'
    <2>1. pc' # "write" => pc # "write"
      OBVIOUS
    <2>2. InTransit' = InTransit
      BY DEF InTransit
    <2> QED BY <2>1, <2>2 DEF MessageInv, ResponseConserved
  <1> QED BY <1>1, <1>2, <1>3, <1>4, <1>5 DEF MessageInv

LEMMA AfterTag ==
  ASSUME Types, btag' = After(btag, FirstTag, LastTag)
  PROVE  btag' \in Nat
  BY ConstantsAssumption DEF Types, After

LEMMA OthersMessage ==
  ASSUME MessageInv,
         \/ AssertTrigger \/ SetTimeout \/ GetTimeout \/ Notify
         \/ ReadStb \/ Status \/ StatusTimeout \/ UNCHANGED vars
  PROVE  MessageInv'
  <1>1. btag \in Nat
    BY DEF MessageInv, Types
  <1>2. CASE AssertTrigger
    <2>1. btag' \in Nat
      BY <1>2, AfterTag DEF AssertTrigger, MessageInv
    <2>2. UNCHANGED MessageState /\ pc = "idle" /\ pc' = pc /\ outcome' \in {"triggered", "error"}
      BY <1>2 DEF AssertTrigger, attrs, writing, reading, counts, bulk, MessageState
    <2> QED BY <2>1, <2>2, Elsewhere
  <1>3. CASE SetTimeout \/ GetTimeout \/ Notify \/ UNCHANGED vars
    <2>1. UNCHANGED <<btag, pc, result, writing, reading, counts, upset, input, taken, bulk>>
      BY <1>3 DEF SetTimeout, GetTimeout, Notify, vars
    <2>2. UNCHANGED <<termEn, suppressEnd>>
      BY <1>3 DEF SetTimeout, GetTimeout, Notify, vars, attrs
    <2>3. UNCHANGED MessageState /\ UNCHANGED <<btag, pc, outcome, data>>
      BY <2>1, <2>2 DEF result, writing, reading, counts, bulk, MessageState
    <2> QED BY <1>1, <2>3, Elsewhere
  <1>4. CASE ReadStb
    <2>1. UNCHANGED MessageState /\ btag' = btag
      BY <1>4 DEF ReadStb, attrs, writing, reading, bulk, MessageState
    <2>2. pc = "idle" /\ pc' = "status" /\ outcome' = "none"
      BY <1>4 DEF ReadStb, BeginCall
    <2> QED BY <1>1, <2>1, <2>2, Elsewhere
  <1>5. CASE Status \/ StatusTimeout
    <2>1. UNCHANGED MessageState /\ btag' = btag
      BY <1>5 DEF Status, StatusTimeout, attrs, writing, reading, counts, bulk, MessageState
    <2>2. pc = "status" /\ pc' = "idle" /\ outcome' # "ok"
      BY <1>5 DEF Status, StatusTimeout
    <2> QED BY <1>1, <2>1, <2>2, Elsewhere
  <1> QED BY <1>2, <1>3, <1>4, <1>5

-----------------------------------------------------------------------------
(* write(): the units the device has of the message are those sent.        *)
LEMMA BeginWriteMessage ==
  ASSUME MessageInv, NEW n \in Messages, BeginWrite(n)
  PROVE  MessageInv'
  <1>1. /\ pc = "idle" /\ pc' = "write" /\ outcome' = "none" /\ data' = <<>>
        /\ writes' = writes + 1 /\ size' = n /\ begin' = 0 /\ returned' = <<>>
        /\ UNCHANGED <<termEn, suppressEnd, btag, count, received, transfer, out, upset, input, taken>>
        /\ UNCHANGED <<request, response, full, bulkIn>>
    BY DEF BeginWrite, BeginCall, attrs, reading, bulk
  <1>2. n \in Nat
    BY ConstantsAssumption
  <1>3. Types /\ Writing /\ Collecting /\ OneTransfer
    BY DEF MessageInv
  <1>4. Types'
    BY <1>1, <1>2, <1>3 DEF Types, Places
  <1>5. Writing'
    BY <1>1, <1>2, <1>3 DEF Types, Writing, MessageDelivered
  <1>6. Collecting'
    BY <1>1, <1>3 DEF Collecting
  <1>7. OneTransfer'
    BY <1>1, <1>3 DEF OneTransfer
  <1>8. ResponseConserved'
    BY <1>1 DEF ResponseConserved
  <1> QED BY <1>4, <1>5, <1>6, <1>7, <1>8 DEF MessageInv

LEMMA SendErrorMessage == ASSUME MessageInv, SendError PROVE MessageInv'
  <1>1. /\ pc = "write" /\ pc' = "idle" /\ outcome' = "error" /\ upset' = (upset \/ begin > 0)
        /\ btag' = After(btag, FirstTag, LastTag)
        /\ UNCHANGED <<termEn, suppressEnd, begin, size, count, received, transfer, out, returned>>
        /\ UNCHANGED <<input, taken, writes, request, response, full, bulkIn>>
    BY DEF SendError, Upset, attrs, writing, reading, counts, bulk
  <1>2. Types /\ Writing /\ Collecting /\ OneTransfer
    BY DEF MessageInv
  <1>3. btag' \in Nat
    BY <1>1, <1>2, AfterTag
  <1>4. Types'
    BY <1>1, <1>2, <1>3 DEF Types, Places
  <1>5. Len(taken) < writes /\ (~ upset' => input = 0)
    <2>1. Len(taken) < writes /\ begin \in Nat /\ (~ upset => input = begin)
      BY <1>1, <1>2 DEF Types, Writing
    <2>2. ~ upset' => ~ upset /\ ~ begin > 0
      BY <1>1, Zenon
    <2> QED BY <2>1, <2>2
  <1>6. Writing'
    BY <1>1, <1>2, <1>5 DEF Types, Writing, MessageDelivered
  <1>7. Collecting'
    BY <1>1, <1>2 DEF Collecting
  <1>8. OneTransfer'
    BY <1>1, <1>2 DEF OneTransfer
  <1>9. ResponseConserved'
    BY <1>1, <1>2, <1>5 DEF Types, ResponseConserved
  <1> QED BY <1>4, <1>6, <1>7, <1>8, <1>9 DEF MessageInv

(* A transfer that is not the last one.                                    *)
LEMMA SendPartMessage ==
  ASSUME MessageInv, SendChunk, begin + PacketSize < size
  PROVE  MessageInv'
  <1>1. Types /\ Writing /\ Collecting /\ OneTransfer /\ PacketSize \in Nat \ {0}
    BY ConstantsAssumption DEF MessageInv
  <1>2. begin \in Nat /\ size \in Nat /\ input \in Nat
    BY <1>1 DEF Types
  <1>3. /\ ~ IsLast(begin + PacketSize)
        /\ Least(begin + PacketSize, size) - Least(begin, size) = PacketSize
    BY <1>1, <1>2 DEF IsLast, Least
  <1>4. /\ pc = "write" /\ pc' = pc /\ outcome' = outcome
        /\ begin' = begin + PacketSize /\ input' = input + PacketSize
        /\ btag' = After(btag, FirstTag, LastTag)
        /\ UNCHANGED <<termEn, suppressEnd, size, count, received, transfer, out, data, returned>>
        /\ UNCHANGED <<upset, taken, writes, request, response, full, bulkIn>>
    BY <1>3 DEF SendChunk, DeviceGets, attrs, reading, counts
  <1>5. btag' \in Nat
    BY <1>1, <1>4, AfterTag
  <1>6. Types'
    BY <1>1, <1>2, <1>4, <1>5 DEF Types, Places
  <1>7. Writing'
    BY <1>1, <1>2, <1>4 DEF Writing, MessageDelivered
  <1>8. Collecting'
    BY <1>1, <1>4 DEF Collecting
  <1>9. OneTransfer'
    BY <1>1, <1>4 DEF OneTransfer
  <1>10. ResponseConserved'
    BY <1>4 DEF ResponseConserved
  <1> QED BY <1>6, <1>7, <1>8, <1>9, <1>10 DEF MessageInv

(* The last one: the device has the message, and its response is whole.    *)
LEMMA SendLastMessage ==
  ASSUME MessageInv, SendChunk, ~ begin + PacketSize < size
  PROVE  MessageInv'
  <1>1. Types /\ Writing /\ Collecting /\ OneTransfer /\ PacketSize \in Nat \ {0}
    BY ConstantsAssumption DEF MessageInv
  <1>2. begin \in Nat /\ size \in Nat /\ input \in Nat /\ writes \in Nat /\ taken \in Seq(Nat)
    BY <1>1 DEF Types
  <1>3. pc = "write"
    BY DEF SendChunk
  <1>4. /\ IsLast(begin + PacketSize)
        /\ Least(begin + PacketSize, size) - Least(begin, size) = size - begin
        /\ begin <= size
    BY <1>1, <1>2, <1>3 DEF IsLast, Least, Writing
  <1>5. PICK r \in Responses :
          /\ taken' = Append(taken, input + (size - begin)) /\ input' = 0
          /\ full' = [k \in 1..r |-> <<writes, k>>] /\ response' = full' /\ request' = NoRequest
    BY <1>4 DEF SendChunk, DeviceGets
  <1>6. /\ pc' = "idle" /\ outcome' = "ok" /\ begin' = begin + PacketSize
        /\ btag' = After(btag, FirstTag, LastTag)
        /\ UNCHANGED <<termEn, suppressEnd, size, count, received, transfer, out, data, returned>>
        /\ UNCHANGED <<upset, writes, bulkIn>>
    BY DEF SendChunk, attrs, reading, counts
  <1>7. btag' \in Nat
    BY <1>1, <1>6, AfterTag
  <1>8. full' \in Seq(Units)
    <2>1. r \in Nat
      BY ConstantsAssumption
    <2>2. \A k \in 1..r : <<writes, k>> \in Units
      BY <1>2, <2>1 DEF Units
    <2> QED BY ONLY <1>5, <2>1, <2>2
  <1>9. PICK total \in Nat : total = input + (size - begin)
    BY <1>2, <1>4
  <1>10. /\ taken' \in Seq(Nat) /\ Len(taken') = Len(taken) + 1
         /\ taken' # <<>> /\ Last(taken') = total
    <2>1. taken' = Append(taken, total)
      BY <1>5, <1>9
    <2>2. taken' \in Seq(Nat) /\ Len(taken') = Len(taken) + 1 /\ taken'[Len(taken) + 1] = total
      BY <1>2, <2>1
    <2> QED BY <1>2, <2>2 DEF Last
  <1>11. request' \in [tag : Nat, size : Nat, term : BOOLEAN]
    BY <1>5 DEF NoRequest
  <1>12. Types'
    BY <1>1, <1>2, <1>5, <1>6, <1>7, <1>8, <1>10, <1>11, SMTT(20) DEF Types, Places
  <1>13. ~ upset => total = size
    BY <1>1, <1>2, <1>3, <1>9 DEF Writing
  <1>14. Writing'
    <2>1. Len(taken) \in Nat /\ Len(taken) < writes
      BY <1>1, <1>2, <1>3 DEF Writing
    <2>2. Len(taken') <= writes'
      BY <1>2, <1>6, <1>10, <2>1
    <2>3. MessageDelivered'
      BY <1>5, <1>6, <1>10, <1>13 DEF MessageDelivered
    <2> QED BY <1>5, <1>6, <2>2, <2>3 DEF Writing
  <1>15. Collecting'
    BY <1>1, <1>3, <1>6 DEF Collecting
  <1>16. OneTransfer'
    BY <1>1, <1>3, <1>5, <1>6 DEF OneTransfer
  <1>17. ResponseConserved'
    <2> SUFFICES ASSUME ~ suppressEnd', ~ upset' PROVE Len(bulkIn') <= 1 /\ Conserved'
      BY <1>15, Conserving
    <2>2. bulkIn' = <<>> /\ received' = <<>> /\ transfer' = <<>> /\ returned' = <<>>
      BY <1>1, <1>3, <1>6 DEF OneTransfer, Collecting
    <2>3. InTransit' = <<>>
      BY <2>2 DEF InTransit
    <2>4. Parts(<<>>, <<>>, <<>>, <<>>, response') = full'
      BY <1>5, <1>8, MovesNone
    <2> QED BY <2>2, <2>3, <2>4 DEF Conserved
  <1> QED BY <1>12, <1>14, <1>15, <1>16, <1>17 DEF MessageInv

LEMMA SendChunkMessage == ASSUME MessageInv, SendChunk PROVE MessageInv'
  BY SendPartMessage, SendLastMessage

-----------------------------------------------------------------------------
(* read(): what no step of it changes, and what none of its outcomes says  *)
(* of a write.                                                             *)
Written == <<termEn, suppressEnd, begin, size, input, taken, writes, full>>

LEMMA ReadWriting ==
  ASSUME Writing, UNCHANGED Written, pc # "write", pc' # "write", upset => upset',
         pc' # "idle" => outcome' = "none",
         outcome' = "ok" => data' # <<>> \/ UNCHANGED <<outcome, data>>
  PROVE  Writing'
  <1>1. MessageDelivered'
    BY DEF Written, Writing, MessageDelivered
  <1> QED BY <1>1 DEF Written, Writing

(* A step that leaves the units where they are.                            *)
LEMMA ReadStays ==
  ASSUME MessageInv, UNCHANGED <<Written, returned, upset, response, bulkIn>>,
         UNCHANGED <<received, transfer, out>>,
         btag' \in Nat, count' \in Nat, request' \in [tag : Nat, size : Nat, term : BOOLEAN],
         pc # "write", pc' \in {"request", "transfer", "abort"},
         transfer = <<>> \/ pc' = "abort",
         outcome' = "none", OneTransfer'
  PROVE  MessageInv'
  <1>1. Types /\ Writing /\ Collecting
    BY DEF MessageInv
  <1>2. Types'
    BY <1>1 DEF Types, Places, Written
  <1>3. Writing'
    BY <1>1, ReadWriting
  <1>4. Collecting'
    BY <1>1 DEF Collecting, Written
  <1>5. ResponseConserved'
    <2>1. InTransit' = InTransit
      BY DEF InTransit
    <2> QED BY <2>1 DEF MessageInv, ResponseConserved, Written
  <1> QED BY <1>2, <1>3, <1>4, <1>5 DEF MessageInv

LEMMA BeginReadMessage ==
  ASSUME MessageInv, NEW n \in Counts, BeginRead(n)
  PROVE  MessageInv'
  <1>1. /\ pc = "idle" /\ pc' = "request" /\ outcome' = "none" /\ count' = n
        /\ received' = <<>> /\ transfer' = <<>> /\ out' = <<>>
        /\ UNCHANGED <<Written, returned, upset, response, bulkIn>> /\ UNCHANGED <<btag, request>>
    BY DEF BeginRead, BeginCall, attrs, writing, bulk, Written
  <1>2. received = <<>> /\ transfer = <<>> /\ out = <<>>
    BY <1>1 DEF MessageInv, Collecting
  <1>3. n \in Nat /\ btag \in Nat /\ request \in [tag : Nat, size : Nat, term : BOOLEAN]
    BY ConstantsAssumption DEF MessageInv, Types
  <1>4. OneTransfer'
    BY <1>1 DEF MessageInv, OneTransfer
  <1> QED BY <1>1, <1>2, <1>3, <1>4, ReadStays

LEMMA RequestMessages == ASSUME MessageInv, Request PROVE MessageInv'
  <1>1. /\ pc = "request" /\ pc' = "transfer" /\ UNCHANGED <<outcome, count>>
        /\ btag' = After(btag, FirstTag, LastTag)
        /\ request' = RequestMessage(btag')
        /\ UNCHANGED <<Written, returned, upset, response, bulkIn>>
        /\ UNCHANGED <<received, transfer, out>>
    BY DEF Request, attrs, writing, reading, result, counts, Written
  <1>2. btag' \in Nat
    BY <1>1, AfterTag DEF MessageInv
  <1>3. count \in Nat /\ termEn \in BOOLEAN
    BY DEF MessageInv, Types
  <1>4. request' \in [tag : Nat, size : Nat, term : BOOLEAN]
    BY <1>1, <1>2, <1>3 DEF RequestMessage
  <1>5. OneTransfer'
    BY <1>1 DEF MessageInv, OneTransfer
  <1>6. outcome' = "none" /\ transfer = <<>>
    BY <1>1 DEF MessageInv, Writing, Collecting
  <1> QED BY <1>1, <1>2, <1>3, <1>4, <1>5, <1>6, ReadStays

LEMMA ReadTimeoutMessage == ASSUME MessageInv, ReadTimeout PROVE MessageInv'
  <1>1. /\ pc \in {"transfer", "more"} /\ pc' = "abort" /\ UNCHANGED <<outcome, count>>
        /\ UNCHANGED <<btag, request>>
        /\ UNCHANGED <<Written, returned, upset, response, bulkIn>>
        /\ UNCHANGED <<received, transfer, out>>
    BY DEF ReadTimeout, attrs, writing, reading, result, counts, bulk, Written
  <1>2. btag \in Nat /\ count \in Nat /\ request \in [tag : Nat, size : Nat, term : BOOLEAN]
    BY DEF MessageInv, Types
  <1>3. OneTransfer'
    BY <1>1 DEF MessageInv, OneTransfer
  <1>4. outcome' = "none"
    BY <1>1 DEF MessageInv, Writing
  <1> QED BY <1>1, <1>2, <1>3, <1>4, ReadStays

(* An exception, and an abort: unless it upsets the session nothing was    *)
(* collected, nothing is under way and nothing is asked for.               *)
LEMMA EndsEarly ==
  ASSUME MessageInv, UNCHANGED <<Written, response, count>>, btag' \in Nat,
         pc # "write", pc' = "idle", outcome' # "ok",
         received' = <<>> /\ transfer' = <<>> /\ out' = <<>>,
         bulkIn' = bulkIn \/ bulkIn' = <<>>, request' = request \/ request' = NoRequest,
         ~ suppressEnd => returned' = returned,
         upset' \in BOOLEAN, upset => upset',
         ~ upset' => /\ received = <<>> /\ transfer = <<>> /\ bulkIn = <<>>
                     /\ request' = NoRequest
  PROVE  MessageInv'
  <1>1. Types /\ Writing /\ Collecting
    BY DEF MessageInv
  <1>2. Types'
    <2>1. request' \in [tag : Nat, size : Nat, term : BOOLEAN]
      <3>1. request \in [tag : Nat, size : Nat, term : BOOLEAN]
        BY <1>1 DEF Types
      <3>2. NoRequest \in [tag : Nat, size : Nat, term : BOOLEAN]
        BY DEF NoRequest
      <3> QED BY <3>1, <3>2
    <2>2. bulkIn' \in Seq(Transfers)
      <3>1. bulkIn \in Seq(Transfers) /\ <<>> \in Seq(Transfers)
        BY <1>1 DEF Types
      <3> QED BY <3>1
    <2> QED BY <1>1, <2>1, <2>2 DEF Types, Places, Written
  <1>3. Writing'
    BY <1>1, ReadWriting
  <1>4. Collecting'
    BY <1>1 DEF Collecting, Written
  <1>5. OneTransfer'
    BY DEF OneTransfer
  <1>6. ResponseConserved'
    <2> SUFFICES ASSUME ~ suppressEnd', ~ upset', Len(taken') = writes'
                 PROVE  Len(bulkIn') <= 1 /\ Conserved'
      BY <1>4, Conserving
    <2>1. Conserved
      BY <1>1, IsConserved DEF MessageInv, Written
    <2>2. bulkIn = <<>> /\ bulkIn' = <<>>
      OBVIOUS
    <2>3. InTransit' = <<>> /\ InTransit = <<>>
      BY <2>2 DEF InTransit
    <2> QED BY <2>1, <2>2, <2>3 DEF Conserved, Written
  <1> QED BY <1>2, <1>3, <1>4, <1>5, <1>6 DEF MessageInv

LEMMA RequestErrorMessage == ASSUME MessageInv, RequestError PROVE MessageInv'
  <1>1. /\ pc = "request" /\ pc' = "idle" /\ outcome' = "error" /\ returned' = returned
        /\ received' = <<>> /\ transfer' = <<>> /\ out' = <<>>
        /\ upset' = (upset \/ (Collected \/ out # <<>>))
        /\ btag' = After(btag, FirstTag, LastTag)
        /\ UNCHANGED <<Written, response, count>> /\ UNCHANGED <<request, bulkIn>>
    BY DEF RequestError, Raise, Upset, attrs, writing, counts, bulk, Written
  <1>2. btag' \in Nat
    BY <1>1, AfterTag DEF MessageInv
  <1>3. upset \in BOOLEAN /\ (~ upset => bulkIn = <<>> /\ request = NoRequest)
    BY <1>1 DEF MessageInv, Types, OneTransfer
  <1>4. /\ upset' \in BOOLEAN /\ (upset => upset')
        /\ ~ upset' => ~ upset /\ received = <<>> /\ transfer = <<>>
    BY <1>1, <1>3, Zenon DEF Collected
  <1> QED BY <1>1, <1>2, <1>3, <1>4, EndsEarly

LEMMA GaveUp ==
  ASSUME Types, Collecting, NEW lost \in BOOLEAN, GiveUp(lost)
  PROVE  /\ pc' = "idle" /\ outcome' \in {"timeout", "error"}
         /\ received' = <<>> /\ transfer' = <<>> /\ out' = <<>>
         /\ ~ suppressEnd => returned' = returned
         /\ upset' \in BOOLEAN /\ (upset => upset') /\ (~ upset' => ~ lost)
  <1>1. upset \in BOOLEAN /\ (~ suppressEnd => returned \in Seq(Units) /\ out = <<>>)
    BY DEF Types, Collecting
  <1>2. CASE Return("timeout", out) /\ Upset(lost)
    <2>1. /\ pc' = "idle" /\ outcome' = "timeout" /\ returned' = returned \o out
          /\ received' = <<>> /\ transfer' = <<>> /\ out' = <<>>
      BY <1>2 DEF Return
    <2>2. ~ suppressEnd => returned' = returned
      <3> SUFFICES ASSUME ~ suppressEnd PROVE returned' = returned
        OBVIOUS
      <3>1. returned \o <<>> = returned
        BY <1>1, Empties
      <3> QED BY <1>1, <2>1, <3>1
    <2>3. upset' = (upset \/ lost)
      BY <1>2 DEF Upset
    <2>4. upset' \in BOOLEAN /\ (upset => upset') /\ (~ upset' => ~ lost)
      BY <1>1, <2>3, Zenon
    <2> QED BY <2>1, <2>2, <2>4
  <1>3. CASE Raise(lost)
    <2>1. /\ pc' = "idle" /\ outcome' = "error" /\ returned' = returned
          /\ received' = <<>> /\ transfer' = <<>> /\ out' = <<>>
          /\ upset' = (upset \/ (lost \/ out # <<>>))
      BY <1>3 DEF Raise, Upset
    <2>2. upset' \in BOOLEAN /\ (upset => upset') /\ (~ upset' => ~ lost)
      BY <1>1, <2>1, Zenon
    <2> QED BY <2>1, <2>2
  <1> QED BY <1>2, <1>3 DEF GiveUp

LEMMA AbortMessage == ASSUME MessageInv, AbortDone \/ AbortFailed PROVE MessageInv'
  <1>1. Types /\ Collecting /\ btag \in Nat
    BY DEF MessageInv, Types
  <1>2. CASE AbortDone
    <2>1. PICK lost \in BOOLEAN : lost = (Collected \/ bulkIn # <<>>)
      OBVIOUS
    <2>2. /\ pc = "abort" /\ request' = NoRequest /\ bulkIn' = <<>> /\ GiveUp(lost)
          /\ UNCHANGED <<Written, response, count>> /\ UNCHANGED btag
      BY <1>2, <2>1 DEF AbortDone, attrs, writing, counts, Written
    <2>3. ~ lost => received = <<>> /\ transfer = <<>> /\ bulkIn = <<>>
      BY <2>1, Zenon DEF Collected
    <2> QED BY <1>1, <2>2, <2>3, GaveUp, EndsEarly
  <1>3. CASE AbortFailed
    <2>1. PICK lost \in BOOLEAN : lost = (Collected \/ bulkIn # <<>> \/ request # NoRequest)
      OBVIOUS
    <2>2. /\ pc = "abort" /\ GiveUp(lost) /\ UNCHANGED <<request, bulkIn>>
          /\ UNCHANGED <<Written, response, count>> /\ UNCHANGED btag
      BY <1>3, <2>1 DEF AbortFailed, attrs, writing, counts, bulk, Written
    <2>3. ~ lost => received = <<>> /\ transfer = <<>> /\ bulkIn = <<>> /\ request = NoRequest
      BY <2>1, Zenon DEF Collected
    <2> QED BY <1>1, <2>2, <2>3, GaveUp, EndsEarly
  <1> QED BY <1>2, <1>3

(* A transfer is read: its units are returned, collected or kept.          *)
LEMMA Took ==
  ASSUME MessageInv, UNCHANGED <<Written, upset, request, response, count, btag>>,
         pc \in {"transfer", "more"}, pc' \in {"idle", "request", "more"},
         bulkIn # <<>> /\ bulkIn' = Tail(bulkIn),
         received' \in Seq(Units) /\ transfer' \in Seq(Units) /\ out' \in Seq(Units),
         pc' = "idle" => received' = <<>> /\ out' = <<>>,
         pc' = "more" <=> transfer' # <<>>,
         pc' # "idle" => outcome' = "none",
         outcome' = "ok" => data' # <<>>,
         ~ suppressEnd => returned' \in Seq(Units) /\ out' = <<>>,
         (~ suppressEnd /\ ~ upset /\ Conserved /\ Len(bulkIn) <= 1) => Conserved'
  PROVE  MessageInv'
  <1>1. Types /\ Writing /\ Collecting /\ OneTransfer
    BY DEF MessageInv
  <1>2. bulkIn \in Seq(Transfers)
    BY <1>1 DEF Types
  <1>3. /\ bulkIn' \in Seq(Transfers) /\ Len(bulkIn') = Len(bulkIn) - 1
        /\ \A i \in 1..Len(bulkIn') : bulkIn'[i] = bulkIn[i + 1]
    BY <1>2, HeadTailProperties
  <1>4. Types'
    BY <1>1, <1>3 DEF Types, Places, Written
  <1>5. Writing'
    BY <1>1, ReadWriting
  <1>6. Collecting'
    <2>1. \A i \in 1..Len(bulkIn') : bulkIn'[i].data # <<>>
      <3>1. \A i \in 1..Len(bulkIn) : bulkIn[i].data # <<>>
        BY <1>1 DEF Collecting
      <3>2. \A i \in 1..Len(bulkIn') : i + 1 \in 1..Len(bulkIn)
        BY <1>2, <1>3
      <3> QED BY <1>3, <3>1, <3>2
    <2> QED BY <2>1 DEF Written, Collecting
  <1>7. ~ upset => Len(bulkIn) <= 1 /\ bulkIn' = <<>> /\ request = NoRequest
    <2> SUFFICES ASSUME ~ upset PROVE Len(bulkIn) <= 1 /\ bulkIn' = <<>> /\ request = NoRequest
      OBVIOUS
    <2>1. Len(bulkIn) <= 1 /\ request = NoRequest
      BY <1>1 DEF OneTransfer
    <2>2. Len(bulkIn') = 0
      BY <1>2, <1>3, <2>1
    <2> QED BY <1>3, <2>1, <2>2
  <1>8. OneTransfer'
    BY <1>7 DEF OneTransfer
  <1>9. ResponseConserved'
    <2> SUFFICES ASSUME ~ suppressEnd', ~ upset', Len(taken') = writes'
                 PROVE  Len(bulkIn') <= 1 /\ Conserved'
      BY <1>6, Conserving
    <2>1. ~ suppressEnd /\ ~ upset /\ Len(taken) = writes
      BY DEF Written
    <2>2. Conserved
      BY <1>1, <2>1, IsConserved DEF MessageInv
    <2> QED BY <1>7, <2>1, <2>2
  <1> QED BY <1>4, <1>5, <1>6, <1>8, <1>9 DEF MessageInv

(* What Session._read does with the units a read of the transfer gave.     *)
LEMMA ReaderReturned ==
  ASSUME Types, Collecting, NEW current, current \in Seq(Units), current # <<>>,
         ReaderReturns(current)
  PROVE  /\ pc' \in {"idle", "request"}
         /\ received' = <<>> /\ transfer' = <<>> /\ out' \in Seq(Units)
         /\ pc' = "idle" => out' = <<>>
         /\ pc' = "request" => outcome' = outcome
         /\ outcome' = "ok" => data' # <<>> \/ outcome' = outcome
         /\ ~ suppressEnd => /\ out' = <<>> /\ returned' \in Seq(Units)
                             /\ returned' = returned \o (<<>> \o current)
  <1>1. out \in Seq(Units) /\ current \in Seq(Units) /\ suppressEnd \in BOOLEAN
    BY DEF Types
  <1> DEFINE all == out \o current
  <1>2. all \in Seq(Units)
    BY ONLY <1>1, Associates
  <1>3. CASE ~ suppressEnd
    <2>1. out = <<>>
      BY <1>3 DEF Collecting
    <2>2. all = current
      BY <1>1, <2>1, Empties
    <2>3. Return("ok", all)
      BY <1>3 DEF ReaderReturns
    <2>4. returned' = returned \o (<<>> \o current)
      BY <2>1, <2>3 DEF Return
    <2>5. returned' \in Seq(Units)
      <3>1. returned' = returned \o current
        BY <2>2, <2>3 DEF Return
      <3>2. returned \in Seq(Units)
        BY <1>3 DEF Types
      <3> QED BY <1>1, <3>1, <3>2, ConcatProperties
    <2> HIDE DEF all
    <2> QED BY <1>1, <2>2, <2>3, <2>4, <2>5 DEF Return
  <1>4. CASE suppressEnd
    <2>1. \/ \E how \in {"term", "count", "timeout"} : \E units : Return(how, units)
          \/ /\ out' = all /\ received' = <<>> /\ transfer' = <<>>
             /\ pc' = "request" /\ outcome' = outcome
      BY <1>4 DEF ReaderReturns
    <2>2. CASE \E how \in {"term", "count", "timeout"} : \E units : Return(how, units)
      BY <1>4, <2>2 DEF Return
    <2> HIDE DEF all
    <2>3. CASE /\ out' = all /\ received' = <<>> /\ transfer' = <<>>
               /\ pc' = "request" /\ outcome' = outcome
      BY <1>2, <1>4, <2>3
    <2> QED BY <2>1, <2>2, <2>3
  <1> QED BY <1>1, <1>3, <1>4

LEMMA FirstTransfer ==
  ASSUME Types, Collecting, bulkIn # <<>>
  PROVE  /\ Head(bulkIn).data \in Seq(Units) /\ Head(bulkIn).data # <<>>
         /\ InTransit = Head(bulkIn).data
  <1>1. bulkIn \in Seq(Transfers)
    BY DEF Types
  <1>2. Head(bulkIn) = bulkIn[1] /\ 1 \in 1..Len(bulkIn) /\ bulkIn[1] \in Transfers
    BY <1>1
  <1> QED BY <1>2 DEF Transfers, Collecting, InTransit

LEMMA NotEmpty ==
  ASSUME NEW a, NEW b, a \in Seq(Units), b \in Seq(Units), b # <<>>
  PROVE  a \o b \in Seq(Units) /\ a \o b # <<>>
  <1>1. a \o b \in Seq(Units) /\ Len(a \o b) = Len(a) + Len(b)
    BY ConcatProperties
  <1>2. Len(a) \in Nat /\ Len(b) \in Nat /\ Len(b) # 0
    OBVIOUS
  <1>3. Len(a \o b) # 0
    BY <1>1, <1>2
  <1> QED BY <1>1, <1>3

LEMMA TakeTransferMessage == ASSUME MessageInv, TakeTransfer PROVE MessageInv'
  <1>1. Types /\ Writing /\ Collecting
    BY DEF MessageInv
  <1>2. PICK x : x = Head(bulkIn).data
    OBVIOUS
  <1>3. /\ pc = "transfer" /\ bulkIn # <<>> /\ bulkIn' = Tail(bulkIn)
        /\ UNCHANGED <<Written, upset, request, response, count, btag>>
    BY DEF TakeTransfer, attrs, writing, counts, Written
  <1>4. x \in Seq(Units) /\ x # <<>> /\ InTransit = x
    BY <1>1, <1>2, <1>3, FirstTransfer
  <1>5. \/ ReaderReturns(received \o x)
        \/ /\ transfer' = x /\ pc' = "more"
           /\ UNCHANGED <<received, out, outcome, data, returned>>
        \/ /\ received' = received \o x /\ pc' = "request"
           /\ UNCHANGED <<transfer, out, outcome, data, returned>>
    BY <1>2 DEF TakeTransfer, result
  <1>6. /\ received \in Seq(Units) /\ response \in Seq(Units) /\ out \in Seq(Units)
        /\ transfer = <<>> /\ outcome = "none"
        /\ ~ suppressEnd => returned \in Seq(Units) /\ out = <<>>
    BY <1>1, <1>3 DEF Types, Writing, Collecting
  <1>7. received \o x \in Seq(Units) /\ received \o x # <<>>
    BY <1>4, <1>6, NotEmpty
  <1>8. bulkIn \in Seq(Transfers) /\ (Len(bulkIn) <= 1 => bulkIn' = <<>>)
    <2>1. bulkIn \in Seq(Transfers)
      BY <1>1 DEF Types
    <2>2. bulkIn' \in Seq(Transfers) /\ Len(bulkIn') = Len(bulkIn) - 1
      BY <1>3, <2>1, HeadTailProperties
    <2> QED BY <2>1, <2>2
  <1>9. Len(bulkIn) <= 1 => InTransit' = <<>>
    BY <1>8 DEF InTransit
  <1>10. ~ suppressEnd =>
            /\ Parts(returned \o (<<>> \o (received \o x)), <<>>, <<>>, <<>>, response)
                 = Parts(returned, received, <<>>, x, response)
            /\ Parts(returned, received \o x, <<>>, <<>>, response)
                 = Parts(returned, received, <<>>, x, response)
            /\ Parts(returned, received, x, <<>>, response)
                 = Parts(returned, received, <<>>, x, response)
    BY <1>4, <1>6, Moves
  <1>11. Conserved => full = Parts(returned, received, <<>>, x, response)
    BY <1>4, <1>6 DEF Conserved
  <1> DEFINE Gone == ~ suppressEnd /\ ~ upset /\ Conserved /\ Len(bulkIn) <= 1
  <1>12. CASE ReaderReturns(received \o x)
    <2>1. /\ pc' \in {"idle", "request"}
          /\ received' = <<>> /\ transfer' = <<>> /\ out' \in Seq(Units)
          /\ pc' = "idle" => out' = <<>>
          /\ pc' = "request" => outcome' = outcome
          /\ outcome' = "ok" => data' # <<>> \/ outcome' = outcome
          /\ ~ suppressEnd => /\ out' = <<>>
                              /\ returned' \in Seq(Units)
                              /\ returned' = returned \o (<<>> \o (received \o x))
      BY <1>1, <1>7, <1>12, ReaderReturned
    <2>2. Gone => Conserved'
      BY <1>3, <1>9, <1>10, <1>11, <2>1 DEF Conserved, Written
    <2> QED BY <1>3, <1>6, <2>1, <2>2, Took
  <1>13. CASE /\ transfer' = x /\ pc' = "more"
              /\ UNCHANGED <<received, out, outcome, data, returned>>
    <2>1. Gone => Conserved'
      BY <1>3, <1>9, <1>10, <1>11, <1>13 DEF Conserved, Written
    <2> QED BY <1>3, <1>4, <1>6, <1>13, <2>1, Took
  <1>14. CASE /\ received' = received \o x /\ pc' = "request"
              /\ UNCHANGED <<transfer, out, outcome, data, returned>>
    <2>1. Gone => Conserved'
      BY <1>3, <1>6, <1>9, <1>10, <1>11, <1>14 DEF Conserved, Written
    <2> QED BY <1>3, <1>6, <1>7, <1>14, <2>1, Took
  <1> QED BY <1>5, <1>12, <1>13, <1>14

(* Only after an abort that failed is there something where the rest of a  *)
(* transfer is awaited.                                                    *)
LEMMA TakeMoreMessage == ASSUME MessageInv, TakeMore PROVE MessageInv'
  <1>1. Types /\ Writing /\ Collecting
    BY DEF MessageInv
  <1>2. /\ pc = "more" /\ bulkIn # <<>> /\ bulkIn' = Tail(bulkIn)
        /\ UNCHANGED <<Written, upset, request, response, count, btag>>
    BY DEF TakeMore, attrs, writing, counts, Written
  <1>3. upset
    BY <1>2 DEF MessageInv, OneTransfer, Types
  <1>4. /\ received \in Seq(Units) /\ transfer \in Seq(Units) /\ transfer # <<>>
        /\ out \in Seq(Units) /\ outcome = "none"
        /\ ~ suppressEnd => returned \in Seq(Units) /\ out = <<>>
    BY <1>1, <1>2 DEF Types, Writing, Collecting
  <1>5. received \o transfer \in Seq(Units) /\ received \o transfer # <<>>
    BY <1>4, NotEmpty
  <1>6. \/ UNCHANGED <<pc, received, transfer, out, outcome, data, returned>>
        \/ ReaderReturns(received \o transfer)
        \/ /\ received' = received \o transfer /\ transfer' = <<>> /\ pc' = "request"
           /\ UNCHANGED <<out, outcome, data, returned>>
    BY DEF TakeMore, result
  <1>7. CASE UNCHANGED <<pc, received, transfer, out, outcome, data, returned>>
    BY <1>2, <1>3, <1>4, <1>7, Took
  <1>8. CASE ReaderReturns(received \o transfer)
    <2>1. /\ pc' \in {"idle", "request"}
          /\ received' = <<>> /\ transfer' = <<>> /\ out' \in Seq(Units)
          /\ pc' = "idle" => out' = <<>>
          /\ pc' = "request" => outcome' = outcome
          /\ outcome' = "ok" => data' # <<>> \/ outcome' = outcome
          /\ ~ suppressEnd => /\ out' = <<>>
                              /\ returned' \in Seq(Units)
      BY <1>1, <1>5, <1>8, ReaderReturned
    <2> QED BY <1>2, <1>3, <1>4, <2>1, Took
  <1>9. CASE /\ received' = received \o transfer /\ transfer' = <<>> /\ pc' = "request"
             /\ UNCHANGED <<out, outcome, data, returned>>
    BY <1>2, <1>3, <1>4, <1>5, <1>9, Took
  <1> QED BY <1>6, <1>7, <1>8, <1>9

(* The device sends the next units of its response, at least one.          *)
LEMMA TransferMessage == ASSUME MessageInv, Transfer PROVE MessageInv'
  <1>1. Types /\ Writing /\ Collecting /\ OneTransfer
    BY DEF MessageInv
  <1>2. PICK n \in 1..Least(request.size, Len(response)) :
           /\ bulkIn' = Append(bulkIn, InMessage(SubSeq(response, 1, n), n = Len(response)))
           /\ response' = SubSeq(response, n + 1, Len(response))
    BY DEF Transfer
  <1>3. /\ request # NoRequest /\ response # <<>> /\ request' = NoRequest
        /\ UNCHANGED <<btag, pc, outcome, data, returned, upset>>
        /\ UNCHANGED <<Written, count, received, transfer, out>>
    BY DEF Transfer, attrs, writing, reading, result, counts, Written
  <1>4. bulkIn \in Seq(Transfers) /\ response \in Seq(Units) /\ request.size \in Nat
    BY <1>1 DEF Types
  <1>5. n \in 1..Len(response)
    BY <1>2, <1>4 DEF Least
  <1>6. PICK x : x = SubSeq(response, 1, n)
    OBVIOUS
  <1>7. PICK rest : rest = SubSeq(response, n + 1, Len(response))
    OBVIOUS
  <1>8. /\ x \in Seq(Units) /\ Len(x) = n
        /\ rest \in Seq(Units)
    BY <1>4, <1>5, <1>6, <1>7, SubSeqProperties
  <1>9. x # <<>>
    BY <1>5, <1>8
  <1>10. x \o rest = response
    <2>1. 1 \in 1..Len(response) + 1 /\ n \in 1 - 1..Len(response) /\ Len(response) \in n..Len(response)
      BY <1>4, <1>5
    <2>2. SubSeq(response, 1, n) \o SubSeq(response, n + 1, Len(response))
            = SubSeq(response, 1, Len(response))
      BY <1>4, <2>1, ConcatAdjacentSubSeq
    <2>3. SubSeq(response, 1, Len(response)) = response
      BY <1>4, SubSeqFull
    <2> QED BY <1>6, <1>7, <2>2, <2>3
  <1>11. PICK sent \in Transfers : sent.data = x /\ bulkIn' = Append(bulkIn, sent)
    <2>1. InMessage(x, n = Len(response)) \in Transfers
      BY <1>8 DEF Transfers, InMessage
    <2>2. InMessage(x, n = Len(response)).data = x
      BY DEF InMessage
    <2> QED BY <1>2, <1>6, <2>1, <2>2
  <1>12. /\ bulkIn' \in Seq(Transfers) /\ Len(bulkIn') = Len(bulkIn) + 1
         /\ \A i \in 1..Len(bulkIn) : bulkIn'[i] = bulkIn[i]
         /\ bulkIn'[Len(bulkIn) + 1] = sent
    BY <1>4, <1>11, AppendProperties
  <1>13. Types'
    <2>1. response' \in Seq(Units)
      BY <1>2, <1>7, <1>8
    <2>2. request' \in [tag : Nat, size : Nat, term : BOOLEAN]
      BY <1>3 DEF NoRequest
    <2> QED BY <1>1, <1>3, <1>12, <2>1, <2>2 DEF Types, Places, Written
  <1>14. Writing'
    BY <1>1, <1>3 DEF Writing, MessageDelivered, Written
  <1>15. Collecting'
    <2>1. \A i \in 1..Len(bulkIn') : bulkIn'[i].data # <<>>
      <3>1. \A i \in 1..Len(bulkIn) : bulkIn[i].data # <<>>
        BY <1>1 DEF Collecting
      <3>2. \A i \in 1..Len(bulkIn') : i \in 1..Len(bulkIn) \/ i = Len(bulkIn) + 1
        BY <1>4, <1>12
      <3> QED BY <1>9, <1>11, <1>12, <3>1, <3>2
    <2> QED BY <1>1, <1>3, <2>1 DEF Written, Collecting
  <1>16. ~ upset => pc \in {"transfer", "abort"} /\ bulkIn = <<>> /\ Len(bulkIn') = 1
    <2>1. ~ upset => pc \in {"transfer", "abort"} /\ bulkIn = <<>>
      BY <1>1, <1>3 DEF OneTransfer
    <2> QED BY <1>4, <1>12, <2>1
  <1>17. OneTransfer'
    <2> SUFFICES ASSUME ~ upset
                 PROVE  Len(bulkIn') <= 1 /\ request' = NoRequest /\ pc' \in {"transfer", "abort"}
      BY <1>3 DEF OneTransfer
    <2>1. Len(bulkIn') = 1 /\ pc \in {"transfer", "abort"}
      BY <1>16, Zenon
    <2> QED BY ONLY <1>3, <2>1
  <1>18. ResponseConserved'
    <2> SUFFICES ASSUME ~ suppressEnd', ~ upset', Len(taken') = writes'
                 PROVE  Len(bulkIn') <= 1 /\ Conserved'
      BY <1>15, Conserving
    <2>1. ~ suppressEnd /\ ~ upset /\ Len(taken) = writes /\ pc # "write"
      BY <1>3, <1>16 DEF Written
    <2>2. Conserved
      BY <1>1, <2>1, IsConserved DEF MessageInv
    <2>3. bulkIn = <<>> /\ bulkIn' # <<>> /\ Head(bulkIn') = sent
      <3>1. bulkIn = <<>> /\ Len(bulkIn') = 1 /\ bulkIn' \in Seq(Transfers)
        BY <1>12, <1>16, <2>1
      <3>2. bulkIn' # <<>> /\ Head(bulkIn') = bulkIn'[1]
        BY <3>1
      <3>3. bulkIn'[1] = sent
        BY <1>12, <3>1
      <3> QED BY <3>1, <3>2, <3>3
    <2>4. InTransit = <<>> /\ InTransit' = x
      BY <1>11, <2>3 DEF InTransit
    <2>5. received \in Seq(Units) /\ transfer \in Seq(Units) /\ returned \in Seq(Units)
      BY <1>1, <2>1 DEF Types
    <2>6. Parts(returned, received, transfer, <<>>, x \o rest)
            = Parts(returned, received, transfer, x, rest)
      BY ONLY <1>8, <2>5, MovesSent
    <2>7. response' = rest /\ x \o rest = response
      BY <1>2, <1>7, <1>10
    <2>8. UNCHANGED <<full, returned, received, transfer>> /\ Len(bulkIn') <= 1
      <3>1. Len(bulkIn') = 1
        BY <1>16, <2>1, Zenon
      <3> QED BY <1>3, <3>1 DEF Written
    <2>9. full = Parts(returned, received, transfer, <<>>, response)
      BY <2>2, <2>4 DEF Conserved
    <2>10. full = Parts(returned, received, transfer, x, rest)
      BY ONLY <2>6, <2>7, <2>9
    <2> QED BY <2>4, <2>7, <2>8, <2>10 DEF Conserved
  <1> QED BY <1>13, <1>14, <1>15, <1>17, <1>18 DEF MessageInv

-----------------------------------------------------------------------------
LEMMA MessageStep == MessageInv /\ [Next]_vars => MessageInv'
  BY OthersMessage, BeginWriteMessage, SendChunkMessage, SendErrorMessage, BeginReadMessage,
     RequestMessages, RequestErrorMessage, TakeTransferMessage, TakeMoreMessage,
     ReadTimeoutMessage, AbortMessage, TransferMessage
     DEF Next, CallStep

(* The inductive invariant: the message and the response, the steps of the *)
(* calls and what may be under way hold together.                          *)
LEMMA Message_holds == Spec => []MessageInv
  BY InitMessage, MessageStep, PTL DEF Spec

(* A write that returns has given the device one whole message, its last   *)
(* chunk flagged EOM (USBTMC.write), unless an earlier error has left a    *)
(* part of a message behind.                                               *)
THEOREM Message_delivered == Spec => []MessageDelivered
  <1>1. MessageInv => MessageDelivered
    BY DEF MessageInv, Writing
  <1> QED BY <1>1, Message_holds, PTL

(* With END not suppressed and until an error strikes in the middle of a   *)
(* message, what USBTMC.read and Session._read have returned and hold, the *)
(* transfer under way and what the device has still to send make up its    *)
(* response, in order: nothing is lost, repeated or taken from an older    *)
(* response, whatever the sizes and whichever transfers fill their packet. *)
THEOREM Response_conserved == Spec => []ResponseConserved
  <1>1. MessageInv => ResponseConserved
    BY DEF MessageInv
  <1> QED BY <1>1, Message_holds, PTL

-----------------------------------------------------------------------------
(* That a step of a call leads towards its end.                            *)
LEMMA TakeLess ==
  ASSUME Types, bulkIn # <<>>, bulkIn' = Tail(bulkIn), response' = response
  PROVE  Coming' < Coming
  <1>1. Len(response) \in Nat /\ Len(bulkIn) \in Nat \ {0}
    BY DEF Types
  <1>2. Len(bulkIn') = Len(bulkIn) - 1
    BY HeadTailProperties DEF Types
  <1>3. Len(response') = Len(response)
    OBVIOUS
  <1> QED BY ONLY <1>1, <1>2, <1>3 DEF Coming

LEMMA CallStepAdvances == ASSUME MessageInv, CallStep PROVE Advances
  <1>1. Types
    BY DEF MessageInv
  <1>2. CASE SendChunk
    <2>1. CASE begin + PacketSize < size
      <3>1. begin' = begin + PacketSize /\ pc = "write" /\ pc' = "write"
        BY <1>2, <2>1 DEF SendChunk
      <3>2. begin \in Nat /\ PacketSize \in Nat \ {0}
        BY <1>1, ConstantsAssumption DEF Types
      <3>3. begin < begin' /\ begin' < size
        BY <2>1, <3>1, <3>2
      <3> QED BY <3>1, <3>3 DEF Advances
    <2>2. CASE ~ (begin + PacketSize < size)
      BY <1>2, <2>2 DEF SendChunk, Advances
    <2> QED BY <2>1, <2>2
  <1>3. CASE SendError \/ RequestError \/ AbortDone \/ AbortFailed \/ Status \/ StatusTimeout
    <2>1. pc' = "idle"
      BY <1>3 DEF SendError, RequestError, AbortDone, AbortFailed, Status, StatusTimeout,
             GiveUp, Raise, Return
    <2> QED BY <2>1 DEF Advances
  <1>4. CASE Request \/ ReadTimeout
    <2>1. UNCHANGED <<response, bulkIn>>
      BY <1>4 DEF Request, ReadTimeout, bulk
    <2>2. Coming' = Coming
      BY <2>1 DEF Coming
    <2>3. Stage' < Stage
      BY <1>4 DEF Request, ReadTimeout, Stage
    <2> QED BY <2>2, <2>3 DEF Advances
  <1>5. CASE TakeTransfer \/ TakeMore
    <2>1. bulkIn # <<>> /\ bulkIn' = Tail(bulkIn) /\ response' = response
      BY <1>5 DEF TakeTransfer, TakeMore
    <2>2. Coming' < Coming
      BY <1>1, <2>1, TakeLess
    <2> QED BY <2>2 DEF Advances
  <1> QED BY <1>2, <1>3, <1>4, <1>5 DEF CallStep

(* The other steps: only those of the device happen during a call.         *)
LEMMA OthersAdvance ==
  ASSUME MessageInv, Next, ~ CallStep, pc # "idle"
  PROVE  UNCHANGED <<pc, begin, size>> /\ Coming' <= Coming
  <1>1. Types
    BY DEF MessageInv
  <1>2. Transfer \/ Notify
    BY DEF Next, BeginWrite, BeginRead, ReadStb, AssertTrigger, SetTimeout, GetTimeout, BeginCall
  <1>3. CASE Notify
    <2>1. UNCHANGED <<pc, begin, size, response, bulkIn>>
      BY <1>3 DEF Notify, writing, bulk
    <2>2. Coming' = Coming /\ Coming \in Nat
      BY <1>1, <2>1 DEF Coming, Types
    <2> QED BY <2>1, <2>2
  <1>4. CASE Transfer
    <2>1. PICK n \in 1..Least(request.size, Len(response)) :
             /\ bulkIn' = Append(bulkIn, InMessage(SubSeq(response, 1, n), n = Len(response)))
             /\ response' = SubSeq(response, n + 1, Len(response))
      BY <1>4 DEF Transfer
    <2>2. bulkIn \in Seq(Transfers) /\ response \in Seq(Units) /\ request.size \in Nat
      BY <1>1 DEF Types
    <2>3. n \in 1..Len(response)
      BY <2>1, <2>2 DEF Least
    <2>4. Len(response') = Len(response) - n
      BY <2>1, <2>2, <2>3, SubSeqProperties
    <2>5. Len(bulkIn') = Len(bulkIn) + 1
      <3>1. InMessage(SubSeq(response, 1, n), n = Len(response)) \in Transfers
        <4>1. SubSeq(response, 1, n) \in Seq(Units)
          BY <2>2, <2>3, SubSeqProperties
        <4> QED BY <4>1 DEF Transfers, InMessage
      <3> QED BY <2>1, <2>2, <3>1, AppendProperties
    <2>6. Len(response) \in Nat /\ Len(bulkIn) \in Nat
      BY <2>2
    <2>7. Coming' <= Coming
      BY ONLY <2>3, <2>4, <2>5, <2>6 DEF Coming
    <2> QED BY <1>4, <2>7 DEF Transfer, writing
  <1> QED BY <1>2, <1>3, <1>4

(* Every step of read() and write() ends the call, sends a part of the     *)
(* message, takes something of what the device has to say, or goes on to a *)
(* later stage, and the device undoes none of that: the loops of           *)
(* USBTMC.write, USBTMC.read and Session._read come to an end, whatever    *)
(* the sizes (usbtmc.py, sessions.py).                                     *)
THEOREM Calls_advance == Spec => CallsAdvance
  <1> DEFINE Step == IF CallStep THEN Advances
                     ELSE pc # "idle" => UNCHANGED <<pc, begin, size>> /\ Coming' <= Coming
  <1>1. MessageInv /\ [Next]_vars => [Step]_vars
    BY CallStepAdvances, OthersAdvance
  <1> QED BY <1>1, Message_holds, PTL DEF Spec, CallsAdvance
=============================================================================

------------------------- MODULE Vxi11DeviceProofs --------------------------
(***************************************************************************)
(* What the device operations of a VXI-11 session do with the data, the    *)
(* time and the device lock, for any timeouts, lengths and number of calls.*)
(***************************************************************************)
EXTENDS Vxi11Device, SequenceTheorems, TLAPS

Unit == Nat \X Nat
Names == {"read", "write", "destroy"} \cup Others
Sent == [name : Names, n : Nat, flag : BOOLEAN, live : BOOLEAN]
Errors == {"none", "timeout", "locked", "not locked", "io"}
Answers == [error : Errors, n : Nat, units : Seq(Unit), reason : SUBSET {"CHR", "END", "REQCNT"}]

Clocked ==
    /\ elapsed \in Nat /\ waited \in Nat /\ patience \in Nat \cup {Infinite}
    /\ unsent \in BOOLEAN /\ restarts \in Nat

Types ==
    /\ timeout \in Timeouts \cup {Infinite}
    /\ termEn \in BOOLEAN /\ suppressEnd \in BOOLEAN /\ upset \in BOOLEAN
    /\ pc \in {"idle", "loop", "block", "wait", "closed"}
    /\ want \in Nat /\ count \in Nat /\ size \in Nat /\ offset \in Nat
    /\ calls \in Nat /\ unfinished \in Nat /\ accepted \in Nat /\ taken \in Seq(Nat)
    /\ Clocked
    /\ readData \in Seq(Unit) /\ data \in Seq(Unit) /\ returned \in Seq(Unit)
    /\ full \in Seq(Unit) /\ output \in Seq(Unit)
    /\ requests \in Seq(Sent)
    /\ reply # <<>> => reply[1] \in Answers
    /\ holder \in {"nobody", "us", "other"}

(* A request that somebody waits for is the last one, and while somebody   *)
(* waits without a reply there is one.                                     *)
Queue ==
    /\ pc = "loop" => op = "read"
    /\ pc = "block" => op = "write"
    /\ pc = "wait" => op \in Names
    /\ reply # <<>> => pc = "wait" /\ requests = <<>>
    /\ pc = "wait" /\ reply = <<>> => requests # <<>> /\ requests[Len(requests)].live
    /\ \A i \in 1..Len(requests) :
          requests[i].live => /\ i = Len(requests)
                              /\ pc = "wait" /\ reply = <<>> /\ requests[i].name = op

(* Requests whose call was given up are harmless, unless upset.            *)
Harmless ==
    ~ upset => \A i \in 1..Len(requests) :
        ~ requests[i].live => requests[i].name \notin {"read", "write", "clear"}

(* ResponseKept, and what it takes: nothing is collected outside of a read,*)
(* and only replies without an error bring data.                           *)
Kept ==
    /\ readData # <<>> => op = "read" /\ pc \in {"loop", "wait"}
    /\ reply # <<>> /\ reply[1].error # "none" => reply[1].units = <<>>
    /\ reply # <<>> /\ op = "clear" /\ reply[1].error = "none" =>
          full = <<>> /\ output = <<>> /\ returned = <<>> /\ unfinished = 0
    /\ ResponseKept

(* A write that has succeeded has given the device one whole message.      *)
Delivered == op = "write" /\ outcome = "success" /\ size > 0 => unfinished = 0 /\ taken = <<size>>

(* Where a write stands: what the device has accepted of the message, and  *)
(* whether it has got the end of it.                                       *)
Partial(n) == accepted = n /\ unfinished = n /\ taken = <<>>
Whole == accepted = size /\ unfinished = 0 /\ taken = <<size>>

Writing ==
    ~ upset =>
        /\ ~ (op = "write" /\ pc \in {"block", "wait"}) => unfinished = 0
        /\ pc = "block" => /\ offset <= size
                            /\ \/ Partial(offset) /\ (offset < size \/ size = 0)
                               \/ offset = size /\ Whole
        /\ pc = "wait" /\ op = "write" =>
             /\ offset < size
             /\ reply = <<>> => Partial(offset)
             /\ reply # <<>> =>
                  /\ reply[1].error # "none" => Partial(offset)
                  /\ reply[1].error = "none" =>
                       /\ reply[1].n <= Block
                       /\ IF reply[1].n = Block /\ IsLast(size - offset) THEN Whole
                                                         ELSE Partial(offset + reply[1].n)
        /\ op = "write" /\ pc # "idle" => outcome = "none"
        /\ pc = "wait" /\ op = "write" /\ reply = <<>> =>
             LET r == requests[Len(requests)] IN r.n = Block /\ r.flag = IsLast(size - offset)
        /\ Delivered

(* Where a read stands, and why the last one ended (StatusExplains), in    *)
(* terms of what is left of the response.                                  *)
NoTerm(units, n) == \A k \in 1..n : ~ IsTerm(units[k])
EndsLine(units) == units # <<>> /\ IsTerm(units[Len(units)])
Collecting == op = "read" /\ pc \in {"loop", "wait"}
AllRead == data # <<>> /\ output = <<>>

Explained ==
    /\ outcome = "success" => ~ suppressEnd /\ AllRead
    /\ outcome = "term" => termEn /\ EndsLine(data)
    /\ outcome = "max" => Len(data) = want /\ (AllRead => suppressEnd)
    /\ outcome \in {"timeout", "io"} => (EndsLine(data) => ~ termEn) /\ (AllRead => suppressEnd)
    /\ termEn => NoTerm(data, Len(data) - 1)

Collected ==
    /\ count + Len(readData) = want
    /\ termEn => NoTerm(readData, Len(readData))
    /\ ~ suppressEnd /\ readData # <<>> => InReply # <<>> \/ output # <<>>

Asked == LET r == requests[Len(requests)] IN r.flag = termEn /\ r.n <= count

Brought ==
    LET u == reply[1].units
    IN  /\ u # <<>> /\ Len(u) <= count
        /\ "END" \in reply[1].reason <=> output = <<>>
        /\ "CHR" \in reply[1].reason <=> termEn /\ IsTerm(u[Len(u)])
        /\ termEn => NoTerm(u, Len(u) - 1)

Numbered == \A i \in 1..Len(full) : full[i][2] = i

Reading ==
    ~ upset =>
        /\ Numbered
        /\ Collecting => Collected
        /\ Collecting /\ pc = "wait" =>
             /\ count > 0
             /\ reply = <<>> => Asked
             /\ reply # <<>> /\ reply[1].error = "none" => Brought
        /\ op = "read" /\ pc = "idle" =>
             /\ data # <<>> => returned # <<>> /\ returned[Len(returned)] = data[Len(data)]
             /\ Explained

(* How long a read has taken: what the chunks before have left of the      *)
(* timeout tells when the last one began, which has waited so often since. *)
Began == IF patience > MinTimeout THEN timeout - patience ELSE timeout - 1
Over == restarts + (IF unsent THEN 0 ELSE 1)

InTime ==
    /\ pc \in {"idle", "closed"} => elapsed = 0
    /\ pc = "wait" /\ op = "read" /\ Finite =>
         /\ patience \in Nat /\ patience >= MinTimeout /\ patience <= Most(MinTimeout, timeout)
         /\ 0 < timeout /\ waited <= patience + Slack
         /\ elapsed <= Began + Over * (patience + Slack) + waited
    /\ ReadInTime

(* The link is destroyed last.                                             *)
Closing ==
    /\ pc = "closed" /\ ~ unsent /\ requests # <<>> => requests[Len(requests)].name = "destroy"
    /\ pc = "closed" /\ ~ unsent /\ requests = <<>> => holder # "us"
    /\ op = "destroy" /\ reply # <<>> => holder # "us"

-----------------------------------------------------------------------------
(* A call that is given up leaves the requests that were sent where they   *)
(* are, none live.                                                         *)
LEMMA Marks ==
  ASSUME Types, GivenUp, requests # <<>>
  PROVE  /\ requests' \in Seq(Sent) /\ Len(requests) \in Nat \ {0}
         /\ Len(requests') = Len(requests) - (IF unsent THEN 1 ELSE 0)
         /\ \A i \in 1..Len(requests') : /\ i \in 1..Len(requests) /\ requests[i] \in Sent
                                         /\ requests'[i].name = requests[i].name
                                         /\ ~ requests'[i].live
  <1> DEFINE n == Len(requests) - (IF unsent THEN 1 ELSE 0)
  <1>1. requests' = [i \in 1..n |-> [requests[i] EXCEPT !.live = FALSE]]
    BY DEF GivenUp, Forgotten
  <1>2. Len(requests) \in Nat \ {0} /\ \A i \in 1..Len(requests) : requests[i] \in Sent
    BY DEF Types
  <1>3. \A i \in 1..Len(requests) : [requests[i] EXCEPT !.live = FALSE] \in Sent
    BY <1>2 DEF Sent
  <1>4. n \in Nat /\ 1..n \subseteq 1..Len(requests)
    BY <1>2
  <1> HIDE DEF n
  <1>5. requests' \in Seq(Sent) /\ Len(requests') = n
    BY <1>1, <1>3, <1>4
  <1>6. \A i \in 1..n : requests'[i].name = requests[i].name /\ ~ requests'[i].live
    BY <1>1, <1>2, <1>4 DEF Sent
  <1> QED BY <1>2, <1>4, <1>5, <1>6 DEF n

LEMMA MarksTyped == ASSUME Types, GivenUp PROVE requests' \in Seq(Sent)
  <1> DEFINE n == Len(requests) - (IF unsent THEN 1 ELSE 0)
  <1>1. requests' = [i \in 1..n |-> [requests[i] EXCEPT !.live = FALSE]]
    BY DEF GivenUp, Forgotten
  <1>2. Len(requests) \in Nat /\ \A i \in 1..Len(requests) : requests[i] \in Sent
    BY DEF Types
  <1>3. \A i \in 1..Len(requests) : [requests[i] EXCEPT !.live = FALSE] \in Sent
    BY <1>2 DEF Sent
  <1>4. PICK k \in Nat : 1..n = 1..k /\ 1..k \subseteq 1..Len(requests)
    <2>1. CASE n \in Nat
      BY <1>2, <2>1
    <2>2. CASE n \notin Nat
      <3>1. 1..n = 1..0 /\ 1..0 \subseteq 1..Len(requests) /\ 0 \in Nat
        BY <1>2, <2>2
      <3> QED BY <3>1
    <2> QED BY <2>1, <2>2
  <1> HIDE DEF n
  <1>5. requests' = [i \in 1..k |-> [requests[i] EXCEPT !.live = FALSE]]
    BY <1>1, <1>4
  <1>6. \A i \in 1..k : [requests[i] EXCEPT !.live = FALSE] \in Sent
    BY <1>3, <1>4
  <1> QED BY <1>5, <1>6

(* How the clocks are set when a remote call begins, and when a call ends. *)
LEMMA ClocksSet ==
  ASSUME Types
  PROVE  /\ \A name, n, flag, howLong :
               howLong \in Nat \cup {Infinite} /\ RemoteCall(name, n, flag, howLong) => Clocked'
         /\ \A how : EndCall(how) => Clocked'
         /\ UNCHANGED clock => Clocked'
  <1>1. Clocked
    BY DEF Types
  <1>2. ASSUME NEW name, NEW n, NEW flag, NEW howLong \in Nat \cup {Infinite},
               RemoteCall(name, n, flag, howLong)
        PROVE  Clocked'
    BY <1>1, <1>2 DEF Clocked, RemoteCall
  <1>3. ASSUME NEW how, EndCall(how) PROVE Clocked'
    BY <1>3 DEF Clocked, EndCall
  <1>4. UNCHANGED clock => Clocked'
    BY <1>1 DEF Clocked, clock
  <1> QED BY <1>2, <1>3, <1>4

(* A remote call adds a live request behind the others.                    *)
LEMMA Adds ==
  ASSUME Types, NEW name \in Names, NEW n \in Nat, NEW flag \in BOOLEAN,
         NEW howLong, RemoteCall(name, n, flag, howLong)
  PROVE  /\ pc' = "wait" /\ waited' = 0 /\ patience' = howLong /\ unsent' = TRUE /\ restarts' = 0
         /\ elapsed' = elapsed /\ reply' = reply
         /\ requests' \in Seq(Sent) /\ Len(requests') = Len(requests) + 1
         /\ requests' # <<>> /\ Len(requests) \in Nat
         /\ requests'[Len(requests')] = Request(name, n, flag)
         /\ \A i \in 1..Len(requests) : requests'[i] = requests[i]
  <1>1. Request(name, n, flag) \in Sent
    BY DEF Request, Sent
  <1>2. requests' = Append(requests, Request(name, n, flag)) /\ requests \in Seq(Sent)
    BY DEF RemoteCall, Types
  <1>3. /\ requests' \in Seq(Sent) /\ Len(requests') = Len(requests) + 1 /\ Len(requests) \in Nat
        /\ requests'[Len(requests')] = Request(name, n, flag)
        /\ \A i \in 1..Len(requests) : requests'[i] = requests[i]
    BY <1>1, <1>2
  <1>4. requests' # <<>>
    BY <1>3
  <1> QED BY <1>3, <1>4 DEF RemoteCall

LEMMA Joins ==
  ASSUME NEW a \in Seq(Unit), NEW b \in Seq(Unit)
  PROVE  a \o b \in Seq(Unit)
  OBVIOUS

(* What the reply to a call says.                                          *)
LEMMA Says ==
  ASSUME Types, reply # <<>>
  PROVE  /\ reply[1].n \in Nat /\ reply[1].units \in Seq(Unit) /\ reply[1].error \in Errors
         /\ reply[1].reason \subseteq {"CHR", "END", "REQCNT"}
  BY DEF Types, Answers

(* The steps of the client.                                                *)
Client ==
    \/ \E n \in Counts : BeginRead(n)
    \/ \E n \in Messages : BeginWrite(n)
    \/ \E name \in Others : BeginOther(name)
    \/ RenUnsupported \/ SetTimeout \/ Close
    \/ CallStep \/ Tick \/ Send

LEMMA TypesClient == ASSUME Types, Client PROVE Types'
  <1> USE ConstantsAssumption DEF Types, BeginCall, attrs, loop, remote, result, device
  <1>1. ASSUME NEW n \in Counts, BeginRead(n) PROVE Types'
    BY <1>1, ClocksSet DEF BeginRead
  <1>2. ASSUME NEW n \in Messages, BeginWrite(n) PROVE Types'
    BY <1>2, ClocksSet DEF BeginWrite
  <1>3. ASSUME NEW name \in Others, BeginOther(name) PROVE Types'
    <2>1. requests' \in Seq(Sent) /\ reply' = reply
      BY <1>3, Adds DEF BeginOther, Names
    <2>2. (IF name \in Timed THEN timeout ELSE OtherTimeout) \in Nat \cup {Infinite}
      OBVIOUS
    <2>3. Clocked' /\ pc' = "wait"
      BY <1>3, <2>2, ClocksSet DEF BeginOther, RemoteCall
    <2> QED BY <1>3, <2>1, <2>3 DEF BeginOther
  <1>4. CASE RenUnsupported
    BY <1>4, ClocksSet DEF RenUnsupported
  <1>5. CASE SetTimeout
    BY <1>5, ClocksSet DEF SetTimeout
  <1>6. CASE Close
    <2>1. requests' \in Seq(Sent) /\ reply' = reply /\ pc' = "wait"
      BY <1>6, Adds DEF Close, Names
    <2>3. Clocked'
      BY <1>6, ClocksSet DEF Close
    <2> QED BY <1>6, <2>1, <2>3 DEF Close
  <1>7. CASE Tick
    BY <1>7 DEF Tick, Clocked
  <1>8. CASE ReadEnd
    <2>1. returned \o readData \in Seq(Unit)
      BY Joins
    <2>2. returned' = returned \o readData /\ data' = readData /\ readData' = <<>> /\ count' = 0 /\ pc' = "idle"
      BY <1>8 DEF ReadEnd, Return, EndCall
    <2>3. Clocked'
      BY <1>8, ClocksSet DEF ReadEnd, Return
    <2> QED BY <1>8, <2>1, <2>2, <2>3 DEF ReadEnd
  <1>9. CASE ReadChunk
    <2>4. Least(count, MaxRecv) \in Nat
      BY DEF Least
    <2>1. requests' \in Seq(Sent) /\ reply' = reply /\ pc' = "wait"
      BY <1>9, <2>4, Adds DEF ReadChunk, Names
    <2>2. (IF Finite THEN Most(MinTimeout, Remaining) ELSE Infinite) \in Nat \cup {Infinite}
      BY <1>9 DEF ReadChunk, Finite, Most, Remaining, Clocked
    <2>3. Clocked'
      BY <1>9, <2>2, ClocksSet DEF ReadChunk
    <2> QED BY <1>9, <2>1, <2>2, <2>3 DEF ReadChunk
  <1>10. CASE ReadReply
    <2> DEFINE got == readData \o reply[1].units
               left == count - Len(reply[1].units)
    <2>1. reply # <<>> /\ reply' = <<>>
      BY <1>10 DEF ReadReply, Replied
    <2>2. got \in Seq(Unit) /\ Len(reply[1].units) \in Nat /\ left \in Int
      BY <2>1, Joins, Says
    <2>3. returned \o got \in Seq(Unit)
      BY <2>2, Joins
    <2>4. \/ data' = got /\ returned' = returned \o got /\ readData' = <<>> /\ count' = 0 /\ pc' = "idle"
          \/ pc' = "loop" /\ readData' = got /\ count' = left /\ ~ (left <= 0)
             /\ data' = data /\ returned' = returned
      BY <1>10, Zenon DEF ReadReply, Return, EndCall
    <2> HIDE DEF got, left
    <2>7. <<>> \in Seq(Unit)
      OBVIOUS
    <2>5. readData' \in Seq(Unit) /\ data' \in Seq(Unit) /\ returned' \in Seq(Unit)
      BY <2>2, <2>3, <2>4, <2>7, Zenon
    <2>6. count' \in Nat /\ pc' \in {"idle", "loop"}
      BY <2>2, <2>4
    <2>8. Clocked'
      <3>1. UNCHANGED clock \/ \E how : EndCall(how)
        BY <1>10, Zenon DEF ReadReply, Return
      <3> QED BY <3>1, ClocksSet
    <2> QED BY <1>10, <2>1, <2>5, <2>6, <2>8 DEF ReadReply
  <1>11. CASE ReadError
    <2>1. returned \o readData \in Seq(Unit)
      BY Joins
    <2>2. Clocked'
      BY <1>11, ClocksSet DEF ReadError, Return
    <2> QED BY <1>11, <2>1, <2>2 DEF ReadError, Return, EndCall
  <1>12. CASE ReadGivenUp
    <2>1. returned \o readData \in Seq(Unit)
      BY Joins
    <2>2. requests' \in Seq(Sent) /\ reply' = reply
      BY <1>12, MarksTyped DEF ReadGivenUp, GivenUp
    <2>3. Clocked'
      BY <1>12, ClocksSet DEF ReadGivenUp, Return
    <2> QED BY <1>12, <2>1, <2>2, <2>3 DEF ReadGivenUp, Return, EndCall
  <1>13. CASE WriteBlock
    <2>2. Least(size - offset, MaxRecv) \in Nat /\ IsLast(size - offset) \in BOOLEAN
      BY <1>13 DEF WriteBlock, Least, IsLast
    <2>1. requests' \in Seq(Sent) /\ reply' = reply /\ pc' = "wait"
      BY <1>13, <2>2, Adds DEF WriteBlock, Names
    <2>3. Clocked'
      BY <1>13, ClocksSet DEF WriteBlock
    <2> QED BY <1>13, <2>1, <2>3 DEF WriteBlock
  <1>14. CASE WriteEnd
    BY <1>14, ClocksSet DEF WriteEnd, EndCall
  <1>15. CASE WriteReply
    <2>1. reply # <<>> /\ reply' = <<>>
      BY <1>15 DEF WriteReply, Replied
    <2>2. reply[1].n \in Nat
      BY <2>1, Says
    <2>3. \/ pc' = "idle" /\ upset' = (upset \/ unfinished > 0) /\ offset' = offset
          \/ pc' = "block" /\ upset' = upset /\ offset' = offset + reply[1].n
      BY <1>15 DEF WriteReply, WriteStops, EndCall
    <2>4. offset' \in Nat /\ pc' \in {"idle", "block"}
      BY <2>2, <2>3
    <2>5. upset' \in BOOLEAN
      BY <2>3, Zenon
    <2>6. Clocked'
      <3>1. UNCHANGED clock \/ \E how : EndCall(how)
        BY <1>15 DEF WriteReply, WriteStops
      <3> QED BY <3>1, ClocksSet
    <2> QED BY <1>15, <2>1, <2>4, <2>5, <2>6 DEF WriteReply
  <1>16. CASE WriteGivenUp
    <2>1. requests' \in Seq(Sent) /\ reply' = reply
      BY <1>16, MarksTyped DEF WriteGivenUp, GivenUp
    <2>2. Clocked'
      BY <1>16, ClocksSet DEF WriteGivenUp
    <2>3. upset' \in BOOLEAN
      BY <1>16, Zenon DEF WriteGivenUp
    <2> QED BY <1>16, <2>1, <2>2, <2>3 DEF WriteGivenUp, EndCall
  <1>17. CASE OtherReply
    <2>1. Clocked'
      BY <1>17, ClocksSet DEF OtherReply
    <2>2. upset' \in BOOLEAN
      BY <1>17, Zenon DEF OtherReply
    <2> QED BY <1>17, <2>1, <2>2 DEF OtherReply, EndCall
  <1>18. CASE OtherGivenUp
    <2>1. requests' \in Seq(Sent) /\ reply' = reply
      BY <1>18, MarksTyped DEF OtherGivenUp, GivenUp
    <2>2. Clocked'
      BY <1>18, ClocksSet DEF OtherGivenUp
    <2>3. upset' \in BOOLEAN
      BY <1>18, Zenon DEF OtherGivenUp
    <2> QED BY <1>18, <2>1, <2>2, <2>3 DEF OtherGivenUp, EndCall
  <1>19. CASE CloseEnd
    <2>1. requests' \in Seq(Sent) /\ (reply' = reply \/ reply' = <<>>)
      BY <1>19, MarksTyped DEF CloseEnd, GivenUp
    <2>2. Clocked'
      BY <1>19 DEF CloseEnd, Clocked
    <2> QED BY <1>19, <2>1, <2>2 DEF CloseEnd
  <1>20. CASE Send
    BY <1>20 DEF Send, Clocked
  <1> QED BY <1>1, <1>2, <1>3, <1>4, <1>5, <1>6, <1>7, <1>8, <1>9, <1>10, <1>11, <1>12, <1>13,
             <1>14, <1>15, <1>16, <1>17, <1>18, <1>19, <1>20 DEF CallStep, Client

(* A reply answers the first request, if anybody waits for it.             *)
LEMMA Answered ==
  ASSUME Types, requests # <<>>, NEW error \in Errors, NEW n \in Nat, NEW units \in Seq(Unit),
         NEW reason \in SUBSET {"CHR", "END", "REQCNT"}, Reply(error, n, units, reason)
  PROVE  /\ requests' \in Seq(Sent) /\ Len(requests') = Len(requests) - 1
         /\ Len(requests) \in Nat \ {0} /\ Head(requests) = requests[1] /\ requests[1] \in Sent
         /\ \A i \in 1..Len(requests') : i + 1 \in 1..Len(requests) /\ requests'[i] = requests[i + 1]
         /\ Head(requests).live =>
              /\ reply' # <<>> /\ reply'[1].error = error /\ reply'[1].n = n
              /\ reply'[1].units = units /\ reply'[1].reason = reason
         /\ ~ Head(requests).live => reply' = reply
         /\ reply' # <<>> => reply'[1] \in Answers
  <1>1. /\ Len(requests) \in Nat \ {0} /\ Head(requests) = requests[1] /\ requests[1] \in Sent
        /\ Tail(requests) \in Seq(Sent) /\ Len(Tail(requests)) = Len(requests) - 1
    BY DEF Types
  <1>2. \A i \in 1..Len(Tail(requests)) : i + 1 \in 1..Len(requests) /\ Tail(requests)[i] = requests[i + 1]
    BY <1>1
  <1>3. CASE Head(requests).live
    <2> DEFINE r == Results(error, n, units, reason)
    <2>1. r \in Answers /\ r.error = error /\ r.n = n /\ r.units = units /\ r.reason = reason
      BY DEF Results, Answers
    <2>2. reply' = <<r>>
      BY <1>3 DEF Reply
    <2>3. reply' # <<>> /\ reply'[1] = r
      BY <2>2
    <2> QED BY <1>1, <1>2, <1>3, <2>1, <2>3 DEF Reply
  <1>4. CASE ~ Head(requests).live
    BY <1>1, <1>2, <1>4 DEF Reply, Types
  <1> QED BY <1>3, <1>4

(* The steps of the device and of its other client.                        *)
Device ==
    \/ DeviceRead \/ DeviceWrite \/ DeviceClear \/ DeviceLock \/ DeviceOther
    \/ DeviceDestroy \/ DeviceRefuses \/ OtherClient

LEMMA NextIs == Next = (Client \/ Device)
  BY DEF Next, Client, Device

(* What every reply leaves alone.                                          *)
Still == UNCHANGED <<timeout, termEn, suppressEnd, pc, op, want, count, readData, size, offset,
                     elapsed, patience, unsent, outcome, data, calls, upset>>

LEMMA ReplyStill ==
  ASSUME NEW error, NEW n, NEW units, NEW reason, Reply(error, n, units, reason)
  PROVE  Still /\ waited' = (IF Skipped THEN 0 ELSE waited)
               /\ restarts' = (IF Skipped /\ op = "read" THEN restarts + 1 ELSE restarts)
  BY DEF Reply, Still, attrs, loop

(* What a device_read answers.                                             *)
Cause(n) == (IF Head(requests).flag /\ IsTerm(output[n]) THEN {"CHR"} ELSE {})
              \cup (IF n = Len(output) THEN {"END"} ELSE {})
              \cup (IF n = Head(requests).n THEN {"REQCNT"} ELSE {})

LEMMA Gives ==
  ASSUME Types, DeviceRead
  PROVE  \E n \in 1..Len(output) :
            /\ n <= Head(requests).n
            /\ Head(requests).flag => \A k \in 1..n-1 : ~ IsTerm(output[k])
            /\ output' = SubSeq(output, n + 1, Len(output))
            /\ SubSeq(output, 1, n) \in Seq(Unit) /\ SubSeq(output, n + 1, Len(output)) \in Seq(Unit)
            /\ Cause(n) \in SUBSET {"CHR", "END", "REQCNT"}
            /\ Reply("none", n, SubSeq(output, 1, n), Cause(n))
  <1>1. PICK n \in 1..Least(Head(requests).n, Len(output)) :
            /\ Head(requests).flag => \A k \in 1..n-1 : ~ IsTerm(output[k])
            /\ output' = SubSeq(output, n + 1, Len(output))
            /\ Reply("none", n, SubSeq(output, 1, n), Cause(n))
    BY DEF DeviceRead, Cause
  <1>2. requests # <<>> /\ Head(requests) \in Sent /\ Len(output) \in Nat
    BY DEF DeviceRead, Executes, AtDevice, Types
  <1>3. n \in 1..Len(output) /\ n <= Head(requests).n
    BY <1>2 DEF Least, Sent
  <1>4. SubSeq(output, 1, n) \in Seq(Unit) /\ SubSeq(output, n + 1, Len(output)) \in Seq(Unit)
    BY <1>2, <1>3 DEF Types
  <1>5. Cause(n) \in SUBSET {"CHR", "END", "REQCNT"}
    BY DEF Cause
  <1> QED BY <1>1, <1>3, <1>4, <1>5

Typed ==
    /\ requests' \in Seq(Sent) /\ (reply' # <<>> => reply'[1] \in Answers)
    /\ waited' \in Nat /\ restarts' \in Nat

LEMMA Receives ==
  ASSUME Types, requests # <<>>, NEW error \in Errors, NEW n \in Nat, NEW units \in Seq(Unit),
         NEW reason \in SUBSET {"CHR", "END", "REQCNT"}, Reply(error, n, units, reason)
  PROVE  Typed /\ Still
  <1>1. requests' \in Seq(Sent) /\ (reply' # <<>> => reply'[1] \in Answers)
    BY Answered
  <1>2. Still /\ waited' \in {0, waited} /\ restarts' \in {restarts, restarts + 1}
    BY ReplyStill
  <1>3. waited \in Nat /\ restarts \in Nat
    BY DEF Types, Clocked
  <1> QED BY <1>1, <1>2, <1>3 DEF Typed

LEMMA ReceivesNothing ==
  ASSUME Types, requests # <<>>, NEW error \in Errors, NEW n \in Nat, Reply(error, n, <<>>, {})
  PROVE  Typed /\ Still
  <1>1. <<>> \in Seq(Unit) /\ {} \in SUBSET {"CHR", "END", "REQCNT"}
    OBVIOUS
  <1> QED BY <1>1, Receives

LEMMA TypesDevice == ASSUME Types, Device PROVE Types'
  <1> USE ConstantsAssumption
  <1>9. <<>> \in Seq(Unit) /\ {} \in SUBSET {"CHR", "END", "REQCNT"}
    OBVIOUS
  <1>1. CASE DeviceRead
    <2>1. PICK n \in 1..Len(output) :
            /\ output' = SubSeq(output, n + 1, Len(output))
            /\ SubSeq(output, 1, n) \in Seq(Unit) /\ SubSeq(output, n + 1, Len(output)) \in Seq(Unit)
            /\ Cause(n) \in SUBSET {"CHR", "END", "REQCNT"}
            /\ Reply("none", n, SubSeq(output, 1, n), Cause(n))
      BY <1>1, Gives
    <2>2. requests # <<>>
      BY <1>1 DEF DeviceRead, Executes, AtDevice
    <2>3. Typed /\ Still
      <3>1. n \in Nat /\ "none" \in Errors
        BY DEF Types, Errors
      <3> QED BY <2>1, <2>2, <3>1, Receives
    <2> QED BY <1>1, <2>1, <2>3 DEF DeviceRead, Types, Clocked, Still, Typed
  <1>2. CASE DeviceWrite
    <2> DEFINE r == Head(requests)
    <2>1. PICK n \in 0..r.n :
            /\ accepted' = IF r.live THEN accepted + n ELSE accepted
            /\ IF r.flag /\ n = r.n
                 THEN \E k \in Responses :
                         /\ taken' = Append(taken, unfinished + n)
                         /\ unfinished' = 0
                         /\ full' = [i \in 1..k |-> <<calls, i>>]
                         /\ output' = full' /\ returned' = <<>>
                 ELSE unfinished' = unfinished + n /\ UNCHANGED <<taken, full, output, returned>>
            /\ Reply("none", n, <<>>, {})
      BY <1>2 DEF DeviceWrite
    <2>2. requests # <<>> /\ r \in Sent
      BY <1>2 DEF DeviceWrite, Executes, AtDevice, Types
    <2>3. n \in Nat
      BY <2>2 DEF Sent
    <2>4. Typed /\ Still
      BY <2>1, <2>2, <2>3, ReceivesNothing DEF Errors
    <2>5. unfinished + n \in Nat /\ accepted' \in Nat
      BY <2>1, <2>3 DEF Types
    <2>6. Append(taken, unfinished + n) \in Seq(Nat)
      BY <2>5 DEF Types
    <2>7. ASSUME NEW k \in Responses
          PROVE  [i \in 1..k |-> <<calls, i>>] \in Seq(Unit)
      <3>1. k \in Nat /\ \A i \in 1..k : <<calls, i>> \in Unit
        BY DEF Types, Unit
      <3> QED BY <3>1
    <2>8. /\ accepted' \in Nat /\ unfinished' \in Nat /\ taken' \in Seq(Nat)
          /\ full' \in Seq(Unit) /\ output' \in Seq(Unit) /\ returned' \in Seq(Unit)
      <3>1. CASE r.flag /\ n = r.n
        <4>1. PICK k \in Responses :
                         /\ taken' = Append(taken, unfinished + n)
                         /\ unfinished' = 0
                         /\ full' = [i \in 1..k |-> <<calls, i>>]
                         /\ output' = full' /\ returned' = <<>>
          BY <2>1, <3>1
        <4>2. full' \in Seq(Unit)
          BY <4>1, <2>7
        <4> QED BY <4>1, <4>2, <2>1, <2>5, <2>6
      <3>2. CASE ~ (r.flag /\ n = r.n)
        BY <2>1, <3>2, <2>5 DEF Types
      <3> QED BY <3>1, <3>2
    <2> QED BY <1>2, <2>4, <2>8 DEF DeviceWrite, Types, Clocked, Still, Typed
  <1>3. CASE DeviceClear
    <2>1. Typed /\ Still
      BY <1>3, ReceivesNothing DEF DeviceClear, Executes, AtDevice, Errors
    <2> QED BY <1>3, <2>1 DEF DeviceClear, Types, Clocked, Still, Typed
  <1>4. CASE DeviceLock
    <2>1. Typed /\ Still
      BY <1>4, ReceivesNothing DEF DeviceLock, Executes, AtDevice, Errors
    <2> QED BY <1>4, <2>1 DEF DeviceLock, Types, Clocked, Still, Typed
  <1>5. CASE DeviceOther
    <2>1. Typed /\ Still
      BY <1>5, ReceivesNothing DEF DeviceOther, Executes, AtDevice, Errors
    <2> QED BY <1>5, <2>1 DEF DeviceOther, Types, Clocked, Still, Typed, device
  <1>6. CASE DeviceDestroy
    <2>1. Typed /\ Still
      BY <1>6, ReceivesNothing DEF DeviceDestroy, Executes, AtDevice, Errors
    <2> QED BY <1>6, <2>1 DEF DeviceDestroy, Types, Clocked, Still, Typed
  <1>7. CASE DeviceRefuses
    <2>1. PICK error \in Errors : Reply(error, 0, <<>>, {})
      BY <1>7 DEF DeviceRefuses, AtDevice, Errors
    <2>2. requests # <<>>
      BY <1>7 DEF DeviceRefuses, AtDevice
    <2>3. Typed /\ Still
      BY <2>1, <2>2, ReceivesNothing DEF Errors
    <2>4. UNCHANGED <<returned, device>>
      BY <1>7 DEF DeviceRefuses
    <2> QED BY <2>3, <2>4 DEF Types, Clocked, Still, Typed, device
  <1>8. CASE OtherClient
    BY <1>8 DEF OtherClient, Types, Clocked, attrs, loop, clock, remote, result
  <1> QED BY <1>1, <1>2, <1>3, <1>4, <1>5, <1>6, <1>7, <1>8 DEF Device

LEMMA TypesStays == ASSUME Types, UNCHANGED vars PROVE Types'
  BY DEF Types, Clocked, vars, attrs, loop, clock, remote, result, device

-----------------------------------------------------------------------------
(* What the steps of the client do to requests and reply: a remote call is *)
(* made, given up or answered, or there is none.                           *)
Sends ==
    \E name \in Names, n \in Nat, flag \in BOOLEAN, howLong \in Nat \cup {Infinite} :
        /\ pc # "wait" /\ op' = name /\ RemoteCall(name, n, flag, howLong)
        /\ upset' = upset

Drops ==
    /\ pc = "wait" /\ GivenUp /\ op' = op
    /\ pc' = IF op = "destroy" THEN "closed" ELSE "idle"
    /\ op \in {"read", "write", "clear"} /\ ~ unsent => upset'
    /\ ~ upset' => ~ upset
    /\ op = "destroy" => unsent' = unsent

Takes ==
    /\ pc = "wait" /\ reply # <<>> /\ reply' = <<>> /\ UNCHANGED <<requests, op>>
    /\ pc' \in {"idle", "loop", "block", "closed"}
    /\ pc' = "loop" => op = "read"
    /\ pc' = "block" => op = "write"
    /\ pc' = "closed" => op = "destroy"

Local ==
    /\ UNCHANGED <<requests, reply, upset>>
    /\ pc = "closed" => unsent' = unsent
    /\ \/ UNCHANGED <<pc, op>>
       \/ pc \notin {"wait", "closed"} /\ pc' = "idle"
       \/ pc = "idle" /\ \/ pc' = "loop" /\ op' = "read"
                         \/ pc' = "block" /\ op' = "write"

LEMMA Kinds ==
  ASSUME Types, Queue, Client
  PROVE  holder' = holder /\ (Sends \/ Drops \/ Takes \/ Local)
  <1> USE ConstantsAssumption DEF BeginCall, EndCall, attrs, loop, clock, remote, result, device
  <1>1. ASSUME NEW n \in Counts, BeginRead(n) PROVE holder' = holder /\ Local
    BY <1>1 DEF BeginRead, Local
  <1>2. ASSUME NEW n \in Messages, BeginWrite(n) PROVE holder' = holder /\ Local
    BY <1>2 DEF BeginWrite, Local
  <1>3. ASSUME NEW name \in Others, BeginOther(name) PROVE holder' = holder /\ Sends
    <2>1. name \in Names /\ (IF name \in Timed THEN timeout ELSE OtherTimeout) \in Nat \cup {Infinite}
      BY DEF Names, Types
    <2> QED BY <1>3, <2>1 DEF BeginOther, Sends
  <1>4. CASE RenUnsupported
    BY <1>4 DEF RenUnsupported, Local
  <1>5. CASE SetTimeout
    BY <1>5 DEF SetTimeout, Local
  <1>6. CASE Close
    <2>1. "destroy" \in Names
      BY DEF Names
    <2> QED BY <1>6, <2>1 DEF Close, Sends
  <1>7. CASE Tick
    BY <1>7 DEF Tick, Local
  <1>8. CASE ReadEnd
    BY <1>8 DEF ReadEnd, Return, Local
  <1>9. CASE ReadChunk
    <2> DEFINE howLong == IF Finite THEN Most(MinTimeout, Remaining) ELSE Infinite
    <2>1. "read" \in Names /\ Least(count, MaxRecv) \in Nat /\ termEn \in BOOLEAN
      BY DEF Names, Least, Types
    <2>2. howLong \in Nat \cup {Infinite}
      BY <1>9 DEF ReadChunk, Finite, Most, Remaining, Types, Clocked
    <2> QED BY <1>9, <2>1, <2>2 DEF ReadChunk, Sends, Queue
  <1>10. CASE ReadReply
    <2>1. pc' \in {"idle", "loop"}
      BY <1>10 DEF ReadReply, Return
    <2> QED BY <1>10, <2>1 DEF ReadReply, Replied, Waiting, Takes
  <1>11. CASE ReadError
    BY <1>11 DEF ReadError, Return, Replied, Waiting, Takes
  <1>12. CASE ReadGivenUp
    <2>1. (~ upset' => ~ upset) /\ (~ unsent => upset')
      BY <1>12, Zenon DEF ReadGivenUp
    <2> QED BY <1>12, <2>1 DEF ReadGivenUp, Return, Waiting, Drops
  <1>13. CASE WriteBlock
    <2>1. "write" \in Names /\ Least(size - offset, MaxRecv) \in Nat /\ IsLast(size - offset) \in BOOLEAN
      BY <1>13 DEF WriteBlock, Names, Least, IsLast, Types
    <2>2. timeout \in Nat \cup {Infinite}
      BY DEF Types
    <2> QED BY <1>13, <2>1, <2>2 DEF WriteBlock, Sends, Queue
  <1>14. CASE WriteEnd
    BY <1>14 DEF WriteEnd, Local
  <1>15. CASE WriteReply
    <2>1. pc' \in {"idle", "block"}
      BY <1>15 DEF WriteReply, WriteStops
    <2> QED BY <1>15, <2>1 DEF WriteReply, Replied, Waiting, Takes
  <1>16. CASE WriteGivenUp
    <2>1. (~ upset' => ~ upset) /\ (~ unsent => upset')
      BY <1>16, Zenon DEF WriteGivenUp
    <2> QED BY <1>16, <2>1 DEF WriteGivenUp, Waiting, Drops
  <1>17. CASE OtherReply
    BY <1>17 DEF OtherReply, Replied, Waiting, Takes
  <1>18. CASE OtherGivenUp
    <2>1. ~ upset' => ~ upset
      BY <1>18, Zenon DEF OtherGivenUp
    <2>2. op = "clear" /\ ~ unsent => upset'
      BY <1>18, Zenon DEF OtherGivenUp
    <2>3. op \notin {"read", "write", "destroy"}
      BY <1>18 DEF OtherGivenUp, Others, Timed
    <2> QED BY <1>18, <2>1, <2>2, <2>3 DEF OtherGivenUp, Waiting, Drops
  <1>19. CASE CloseEnd
    <2>1. CASE reply # <<>> /\ reply' = <<>> /\ UNCHANGED requests
      <3>1. pc = "wait" /\ op = "destroy" /\ pc' = "closed" /\ op' = op /\ holder' = holder
        BY <1>19 DEF CloseEnd, Waiting
      <3> QED BY <2>1, <3>1 DEF Takes
    <2>2. CASE GivenUp
      <3>1. pc = "wait" /\ op = "destroy" /\ pc' = "closed" /\ op' = op /\ holder' = holder /\ upset' = upset
            /\ unsent' = unsent
        BY <1>19 DEF CloseEnd, Waiting
      <3> QED BY <2>2, <3>1 DEF Drops
    <2> QED BY <1>19, <2>1, <2>2 DEF CloseEnd
  <1>20. CASE Send
    BY <1>20 DEF Send, Local
  <1> QED BY <1>1, <1>2, <1>3, <1>4, <1>5, <1>6, <1>7, <1>8, <1>9, <1>10, <1>11, <1>12, <1>13,
             <1>14, <1>15, <1>16, <1>17, <1>18, <1>19, <1>20 DEF CallStep, Client

(* What those of the device do: it executes the first request or the other *)
(* client locks it.                                                        *)
Executed ==
    \E error \in Errors, n \in Nat, units \in Seq(Unit), reason \in SUBSET {"CHR", "END", "REQCNT"} :
        /\ requests # <<>> /\ Reply(error, n, units, reason)
        /\ Head(requests).name = "destroy" => holder' # "us"

LEMMA DeviceKinds == ASSUME Types, Device PROVE Executed \/ OtherClient
  <1>1. <<>> \in Seq(Unit) /\ {} \in SUBSET {"CHR", "END", "REQCNT"} /\ 0 \in Nat
    OBVIOUS
  <1>2. ASSUME NEW error \in Errors, NEW n \in Nat, requests # <<>>, Reply(error, n, <<>>, {}),
               Head(requests).name = "destroy" => holder' # "us"
        PROVE  Executed
    BY <1>1, <1>2 DEF Executed
  <1>3. CASE DeviceRead
    <2>1. PICK n \in 1..Len(output) :
            /\ SubSeq(output, 1, n) \in Seq(Unit) /\ Cause(n) \in SUBSET {"CHR", "END", "REQCNT"}
            /\ Reply("none", n, SubSeq(output, 1, n), Cause(n))
      BY <1>3, Gives
    <2>2. requests # <<>> /\ Head(requests).name = "read"
      BY <1>3 DEF DeviceRead, Executes, AtDevice
    <2>3. n \in Nat /\ "none" \in Errors
      BY DEF Types, Errors
    <2> QED BY <2>1, <2>2, <2>3 DEF Executed
  <1>4. CASE DeviceWrite
    <2>1. PICK n \in 0..Head(requests).n : Reply("none", n, <<>>, {})
      BY <1>4 DEF DeviceWrite
    <2>2. requests # <<>> /\ Head(requests).name = "write" /\ Head(requests) \in Sent
      BY <1>4 DEF DeviceWrite, Executes, AtDevice, Types
    <2>3. n \in Nat /\ "none" \in Errors
      BY <2>2 DEF Sent, Errors
    <2> QED BY <1>2, <2>1, <2>2, <2>3
  <1>5. CASE DeviceClear
    BY <1>1, <1>2, <1>5 DEF DeviceClear, Executes, AtDevice, Errors
  <1>6. CASE DeviceLock
    BY <1>1, <1>2, <1>6 DEF DeviceLock, Executes, AtDevice, Errors
  <1>7. CASE DeviceOther
    BY <1>1, <1>2, <1>7 DEF DeviceOther, Executes, AtDevice, Errors
  <1>8. CASE DeviceDestroy
    BY <1>1, <1>2, <1>8 DEF DeviceDestroy, Executes, AtDevice, Errors
  <1>9. CASE DeviceRefuses
    <2>1. Head(requests).name # "destroy"
      BY <1>9 DEF DeviceRefuses, AtDevice
    <2>2. PICK error \in Errors : Reply(error, 0, <<>>, {})
      BY <1>9 DEF DeviceRefuses, AtDevice, Errors
    <2> QED BY <1>1, <1>2, <1>9, <2>1, <2>2 DEF DeviceRefuses, AtDevice
  <1> QED BY <1>3, <1>4, <1>5, <1>6, <1>7, <1>8, <1>9 DEF Device

-----------------------------------------------------------------------------
Line == Queue /\ Harmless /\ Closing

LEMMA LineSends == ASSUME Types, Line, Sends, holder' = holder PROVE Line'
  <1>1. PICK name \in Names, n \in Nat, flag \in BOOLEAN, howLong \in Nat \cup {Infinite} :
            /\ pc # "wait" /\ op' = name /\ RemoteCall(name, n, flag, howLong)
            /\ upset' = upset
    BY DEF Sends
  <1>2. /\ pc' = "wait" /\ reply' = reply /\ reply = <<>>
        /\ Len(requests') = Len(requests) + 1 /\ requests' # <<>> /\ Len(requests) \in Nat
        /\ requests'[Len(requests')] = Request(name, n, flag)
        /\ \A i \in 1..Len(requests) : requests'[i] = requests[i] /\ ~ requests[i].live
    BY <1>1, Adds DEF Line, Queue
  <1>3. Request(name, n, flag).name = name /\ Request(name, n, flag).live
    BY DEF Request
  <1>4. Queue'
    BY <1>1, <1>2, <1>3 DEF Queue
  <1>5. Harmless'
    BY <1>1, <1>2, <1>3 DEF Line, Harmless
  <1>6. Closing'
    BY <1>1, <1>2 DEF Closing
  <1> QED BY <1>4, <1>5, <1>6 DEF Line

LEMMA LineDrops == ASSUME Types, Line, Drops, holder' = holder PROVE Line'
  <1>1. GivenUp /\ pc = "wait" /\ op' = op /\ pc' = IF op = "destroy" THEN "closed" ELSE "idle"
    BY DEF Drops
  <1>2. reply = <<>> /\ reply' = <<>>
    BY <1>1 DEF GivenUp
  <1>3. requests # <<>> /\ requests[Len(requests)].name = op
    BY <1>1, <1>2 DEF Line, Queue, Types
  <1>4. /\ requests' \in Seq(Sent) /\ Len(requests) \in Nat \ {0}
        /\ Len(requests') = Len(requests) - (IF unsent THEN 1 ELSE 0)
        /\ \A i \in 1..Len(requests') : /\ i \in 1..Len(requests)
                                        /\ requests'[i].name = requests[i].name
                                        /\ ~ requests'[i].live
    BY <1>1, <1>3, Marks
  <1>5. Queue'
    BY <1>1, <1>2, <1>4 DEF Queue
  <1>6. Harmless'
    <2> SUFFICES ASSUME ~ upset', NEW i \in 1..Len(requests')
                 PROVE  requests[i].name \notin {"read", "write", "clear"}
      BY <1>4 DEF Harmless
    <2>1. ~ upset /\ (~ unsent => op \notin {"read", "write", "clear"})
      BY DEF Drops
    <2>2. CASE requests[i].live
      <3>1. i = Len(requests) /\ requests[i].name = op
        BY <2>2, <1>4 DEF Line, Queue
      <3>2. ~ unsent
        BY <1>4, <3>1
      <3> QED BY <2>1, <3>1, <3>2
    <2>3. CASE ~ requests[i].live
      BY <1>4, <2>1, <2>3 DEF Line, Harmless
    <2> QED BY <2>2, <2>3
  <1>7. Closing'
    <2>1. CASE pc' = "closed" /\ ~ unsent'
      <3>1. ~ unsent /\ op = "destroy"
        BY <1>1, <2>1 DEF Drops
      <3>2. Len(requests') = Len(requests) /\ requests' # <<>>
        BY <1>4, <3>1
      <3> QED BY <1>2, <1>3, <1>4, <3>1, <3>2 DEF Closing
    <2>2. CASE ~ (pc' = "closed" /\ ~ unsent')
      BY <1>2, <2>2 DEF Closing
    <2> QED BY <2>1, <2>2
  <1> QED BY <1>5, <1>6, <1>7 DEF Line

LEMMA LineTakes == ASSUME Types, Line, Takes, holder' = holder PROVE Line'
  <1>1. requests = <<>> /\ requests' = <<>> /\ reply' = <<>> /\ op' = op /\ Len(requests) = 0
    BY DEF Takes, Line, Queue
  <1>2. Queue'
    BY <1>1 DEF Takes, Queue
  <1>3. Harmless'
    BY <1>1 DEF Harmless
  <1>4. Closing'
    BY <1>1 DEF Takes, Line, Closing
  <1> QED BY <1>2, <1>3, <1>4 DEF Line

LEMMA LineLocal == ASSUME Types, Line, Local, holder' = holder PROVE Line'
  <1>1. CASE UNCHANGED <<pc, op>>
    BY <1>1 DEF Local, Line, Queue, Harmless, Closing
  <1>2. CASE ~ UNCHANGED <<pc, op>>
    <2>1. /\ pc # "wait" /\ pc' \notin {"wait", "closed"} /\ reply = <<>> /\ reply' = <<>>
          /\ pc' = "loop" => op' = "read"
          /\ pc' = "block" => op' = "write"
          /\ UNCHANGED <<requests, upset>>
      BY <1>2 DEF Local, Line, Queue
    <2> QED BY <2>1 DEF Line, Queue, Harmless, Closing
  <1> QED BY <1>1, <1>2

LEMMA LineExecuted == ASSUME Types, Line, Executed PROVE Line'
  <1>1. PICK error \in Errors, n \in Nat, units \in Seq(Unit), reason \in SUBSET {"CHR", "END", "REQCNT"} :
            /\ requests # <<>> /\ Reply(error, n, units, reason)
            /\ Head(requests).name = "destroy" => holder' # "us"
    BY DEF Executed
  <1>2. /\ Len(requests') = Len(requests) - 1 /\ Len(requests) \in Nat \ {0}
        /\ Head(requests) = requests[1] /\ requests' \in Seq(Sent)
        /\ \A i \in 1..Len(requests') : i + 1 \in 1..Len(requests) /\ requests'[i] = requests[i + 1]
        /\ Head(requests).live => reply' # <<>>
        /\ ~ Head(requests).live => reply' = reply
    BY <1>1, Answered
  <1>3. UNCHANGED <<pc, op, upset, unsent>> /\ reply = <<>>
    BY <1>1, ReplyStill DEF Still, Line, Queue
  <1>4. CASE requests[1].live
    <2>1. Len(requests) = 1 /\ pc = "wait" /\ requests[1].name = op
      BY <1>2, <1>4 DEF Line, Queue
    <2>2. requests' = <<>> /\ reply' # <<>> /\ Len(requests') = 0
      BY <1>2, <1>4, <2>1
    <2>3. Queue' /\ Harmless'
      BY <1>3, <2>1, <2>2 DEF Line, Queue, Harmless
    <2>4. Closing'
      BY <1>1, <1>2, <1>3, <2>1, <2>2 DEF Closing
    <2> QED BY <2>3, <2>4 DEF Line
  <1>5. CASE ~ requests[1].live
    <2>1. reply' = <<>>
      BY <1>2, <1>3, <1>5
    <2>2. pc = "wait" => Len(requests) > 1
      BY <1>2, <1>3, <1>5 DEF Line, Queue
    <2>3. Len(requests) > 1 => /\ requests' # <<>>
                               /\ requests'[Len(requests')] = requests[Len(requests)]
      BY <1>2
    <2>4. Queue'
      BY <1>2, <1>3, <2>1, <2>2, <2>3 DEF Line, Queue
    <2>5. Harmless'
      BY <1>2, <1>3 DEF Line, Harmless
    <2>6. Closing'
      <3>1. ASSUME pc = "closed", ~ unsent, Len(requests) = 1
            PROVE  holder' # "us"
        BY <1>1, <1>2, <3>1 DEF Line, Closing
      <3>2. Len(requests) = 1 \/ Len(requests) > 1
        BY <1>2
      <3>3. Len(requests) > 1 => requests' # <<>>
        BY <2>3
      <3>4. Len(requests) = 1 => requests' = <<>>
        BY <1>2
      <3> QED BY <1>1, <1>3, <2>1, <2>3, <3>1, <3>2, <3>3, <3>4 DEF Line, Closing
    <2> QED BY <2>4, <2>5, <2>6 DEF Line
  <1> QED BY <1>4, <1>5

LEMMA LineNext == ASSUME Types, Line, [Next]_vars PROVE Line'
  <1>1. CASE Client
    BY <1>1, Kinds, LineSends, LineDrops, LineTakes, LineLocal DEF Line
  <1>2. CASE Executed
    BY <1>2, LineExecuted
  <1>3. CASE OtherClient
    BY <1>3 DEF OtherClient, Line, Queue, Harmless, Closing, remote, loop, clock
  <1>4. CASE UNCHANGED vars
    BY <1>4 DEF vars, remote, loop, clock, device, Line, Queue, Harmless, Closing
  <1> QED BY <1>1, <1>2, <1>3, <1>4, DeviceKinds, NextIs

LEMMA TypesNext == ASSUME Types, [Next]_vars PROVE Types'
  BY TypesClient, TypesDevice, TypesStays, NextIs

LEMMA LineInit == ASSUME Init PROVE Types /\ Line
  <1>1. <<>> \in Seq(Unit) /\ <<>> \in Seq(Nat) /\ <<>> \in Seq(Sent) /\ 0 \in Nat
    OBVIOUS
  <1>3. Types
    BY <1>1 DEF Init, Types, Clocked
  <1>2. Line
    BY DEF Init, Line, Queue, Harmless, Closing
  <1> QED BY <1>2, <1>3

(* A closed session holds no lock on the device once the device has done   *)
(* what it was asked (close(), tcpip.py): the link is destroyed last, after*)
(* any lock() that was given up, and takes the lock with it.               *)
THEOREM Closed_releases == Spec => []ClosedReleases
  <1>1. Init => Types /\ Line
    BY LineInit
  <1>2. Types /\ Line /\ [Next]_vars => (Types /\ Line)'
    BY TypesNext, LineNext
  <1>3. Types /\ Line => ClosedReleases
    BY DEF Line, Closing, ClosedReleases
  <1> QED BY <1>1, <1>2, <1>3, PTL DEF Spec

-----------------------------------------------------------------------------
(* One wait more, and the wait that may be the last.                       *)
LEMMA Rounds ==
  ASSUME NEW n \in Nat, NEW step \in Nat
  PROVE  /\ n * step \in Nat /\ (n + 1) * step = n * step + step
         /\ \A most \in Nat : step <= most => n * step <= n * most
  OBVIOUS

LEMMA Adding == ASSUME NEW a \in Nat, NEW b \in Nat PROVE a + b \in Nat /\ 0 <= a + b
  OBVIOUS

(* What a wait that has lasted as long as it may has made of a read.       *)
LEMMA Bounded ==
  ASSUME NEW t \in Nat, NEW p \in Nat, NEW w \in Nat, NEW e \in Nat, NEW k \in Nat, NEW r \in Nat,
         NEW least \in Nat \ {0}, NEW slack \in Nat,
         0 < t, least <= p, p <= Most(least, t), w <= p + slack, k <= r + 1,
         e <= (IF p > least THEN t - p ELSE t - 1) + k * (p + slack) + w
  PROVE  \/ e <= (r + 2) * (t + slack)
         \/ e < t + (r + 2) * (least + slack)
  <1> DEFINE s == p + slack
  <1>1. s \in Nat /\ k * s <= (r + 1) * s /\ (r + 1) * s \in Nat
    <2>1. s \in Nat /\ s * k <= s * (r + 1)
      BY Rounds
    <2> QED BY <2>1
  <1>2. (r + 1) * s + s = (r + 2) * s
    BY <1>1
  <1>3. e <= (IF p > least THEN t - p ELSE t - 1) + (r + 2) * s
    <2>1. k * s \in Nat /\ (r + 2) * s \in Nat
      BY <1>1
    <2> HIDE DEF s
    <2>2. w <= s
      BY DEF s
    <2>3. e <= (IF p > least THEN t - p ELSE t - 1) + k * s + w
      BY DEF s
    <2> QED BY <1>1, <1>2, <2>1, <2>2, <2>3
  <1>4. CASE p > least
    <2>1. p <= t /\ e <= (t - p) + (r + 2) * s
      BY <1>3, <1>4 DEF Most
    <2>2. (r + 2) * s = (r + 1) * s + s /\ (r + 2) * (t + slack) = (r + 1) * (t + slack) + (t + slack)
      BY <1>1
    <2>3. (r + 1) * s <= (r + 1) * (t + slack)
      <3>1. s \in Nat /\ t + slack \in Nat /\ r + 1 \in Nat /\ s <= t + slack
        BY <2>1
      <3> HIDE DEF s
      <3> QED BY <3>1, Rounds
    <2>4. (r + 1) * s \in Nat /\ (r + 1) * (t + slack) \in Nat
      BY <1>1
    <2>5. e <= (r + 2) * (t + slack)
      BY <2>1, <2>2, <2>3, <2>4
    <2> QED BY <2>5
  <1>5. CASE ~ (p > least)
    <2>1. p = least /\ e <= (t - 1) + (r + 2) * (least + slack)
      BY <1>3, <1>5
    <2>2. (r + 2) * (least + slack) \in Nat
      OBVIOUS
    <2> QED BY ONLY <2>1, <2>2, t \in Nat, e \in Nat
  <1> QED BY <1>4, <1>5

(* The next wait begins where the one before has ended.                    *)
LEMMA Again ==
  ASSUME NEW n \in Nat, NEW step \in Nat, NEW b \in Int, NEW w \in Nat, NEW e \in Nat,
         w <= step, e <= b + n * step + w
  PROVE  e <= b + (n + 1) * step + 0
  <1>1. n * step \in Nat /\ (n + 1) * step = n * step + step
    BY Rounds
  <1> QED BY <1>1

Spending(e) == \/ e <= Waits * (timeout + Slack)
               \/ e < timeout + Waits * (MinTimeout + Slack)

LEMMA Spent ==
  ASSUME timeout \in Nat, patience \in Nat, unsent \in BOOLEAN, restarts \in Nat,
         NEW w \in Nat, NEW e \in Nat, 0 < timeout, patience >= MinTimeout,
         patience <= Most(MinTimeout, timeout), w <= patience + Slack,
         e <= Began + Over * (patience + Slack) + w
  PROVE  Spending(e)
  <1>1. MinTimeout \in Nat \ {0} /\ Slack \in Nat
    BY ConstantsAssumption
  <1>2. Over \in Nat /\ Over <= restarts + 1
    BY DEF Over
  <1>3. e <= (IF patience > MinTimeout THEN timeout - patience ELSE timeout - 1) + Over * (patience + Slack) + w
    BY DEF Began
  <1> QED BY <1>1, <1>2, <1>3, Bounded DEF Spending, Waits

LEMMA TimeClient == ASSUME Types, Line, InTime, Client PROVE InTime'
  <1>0. /\ MinTimeout \in Nat \ {0} /\ Slack \in Nat \ {0} /\ timeout \in Nat \cup {Infinite}
        /\ timeout # Infinite => timeout \in Nat
        /\ elapsed \in Nat /\ waited \in Nat /\ patience \in Nat \cup {Infinite} /\ want \in Nat
        /\ restarts \in Nat /\ unsent \in BOOLEAN /\ restarts' \in Nat
    <2>1. Clocked'
      BY TypesClient DEF Types
    <2> QED BY <2>1, ConstantsAssumption DEF Types, Clocked
  <1>n. Slack \in Nat /\ restarts' \in Nat
    BY <1>0
  <1>a. timeout' \in Nat /\ elapsed' = 0 => ReadInTime'
    <2>1. ASSUME timeout' \in Nat, elapsed' = 0 PROVE ReadInTime'
      <3>1. restarts' + 2 \in Nat /\ timeout' + Slack \in Nat
        BY ONLY <1>n, <2>1, Adding
      <3>2. (restarts' + 2) * (timeout' + Slack) \in Nat
        BY <3>1, Rounds
      <3>3. elapsed' <= (restarts' + 2) * (timeout' + Slack)
        BY <2>1, <3>2
      <3> QED BY <3>3 DEF ReadInTime, Waits
    <2> QED BY <2>1
  <1>1. ASSUME elapsed' = 0, pc' \in {"idle", "closed"}, timeout' = timeout
        PROVE  InTime'
    BY <1>0, <1>1, <1>a DEF InTime, ReadInTime, Finite
  <1>2. ASSUME elapsed = 0, elapsed' = 0, pc' # "wait" \/ op' # "read", timeout' \in Nat \cup {Infinite}
        PROVE  InTime'
    <2>1. timeout' # Infinite => timeout' \in Nat
      BY <1>2, Zenon
    <2> QED BY <1>2, <1>a, <2>1 DEF InTime, ReadInTime, Finite
  <1>3. pc = "idle" => elapsed = 0
    BY DEF InTime
  <1> USE DEF BeginCall, EndCall, attrs, loop, clock
  <1>4. ASSUME NEW n \in Counts, BeginRead(n) PROVE InTime'
    BY <1>0, <1>2, <1>3, <1>4 DEF BeginRead
  <1>5. ASSUME NEW n \in Messages, BeginWrite(n) PROVE InTime'
    BY <1>0, <1>2, <1>3, <1>5 DEF BeginWrite
  <1>6. ASSUME NEW name \in Others, BeginOther(name) PROVE InTime'
    <2>1. name # "read"
      BY DEF Others, Timed
    <2> QED BY <1>0, <1>2, <1>3, <1>6, <2>1 DEF BeginOther, RemoteCall
  <1>7. CASE RenUnsupported
    BY <1>0, <1>2, <1>3, <1>7 DEF RenUnsupported
  <1>8. CASE SetTimeout
    <2>1. timeout' \in Nat \cup {Infinite}
      BY <1>8, ConstantsAssumption DEF SetTimeout
    <2> QED BY <1>2, <1>3, <1>8, <2>1 DEF SetTimeout
  <1>9. CASE Close
    BY <1>0, <1>2, <1>3, <1>9 DEF Close, RemoteCall
  <1>10. CASE Tick
    <2>1. /\ UNCHANGED <<timeout, pc, op, patience, unsent, restarts>> /\ pc = "wait" /\ patience \in Nat
          /\ waited < patience + Slack
          /\ waited' = waited + 1 /\ elapsed' = (IF op = "read" THEN elapsed + 1 ELSE elapsed)
      BY <1>0, <1>10 DEF Tick
    <2>2. CASE op = "read" /\ Finite
      <3>1. /\ patience >= MinTimeout /\ patience <= Most(MinTimeout, timeout) /\ 0 < timeout
            /\ elapsed <= Began + Over * (patience + Slack) + waited
            /\ timeout \in Nat
        BY <1>0, <2>1, <2>2 DEF InTime, Finite
      <3>2. waited' <= patience + Slack /\ waited' \in Nat
        BY <1>0, <2>1
      <3>3. elapsed' <= Began + Over * (patience + Slack) + waited' /\ elapsed' \in Nat
        <4>1. Began \in Int /\ Over * (patience + Slack) \in Int
          BY <1>0, <2>1, <3>1 DEF Began, Over
        <4> HIDE DEF Began, Over
        <4> QED BY <1>0, <2>1, <2>2, <3>1, <4>1
      <3>4. ReadInTime'
        <4>1. Spending(elapsed')
          BY <1>0, <2>1, <3>1, <3>2, <3>3, Spent
        <4> QED BY <2>1, <4>1 DEF Spending, ReadInTime, Waits
      <3>5. Began' = Began /\ Over' = Over
        BY <2>1 DEF Began, Over
      <3> QED BY <2>1, <2>2, <3>1, <3>2, <3>3, <3>4, <3>5 DEF InTime
    <2> QED BY <2>1, <2>2 DEF InTime, ReadInTime, Waits, Finite
  <1>11. CASE ReadEnd
    BY <1>1, <1>11 DEF ReadEnd, Return
  <1>12. CASE ReadChunk
    <2>1. /\ UNCHANGED <<timeout, elapsed>> /\ waited' = 0 /\ restarts' = 0 /\ unsent' = TRUE
          /\ Finite => elapsed < timeout
          /\ Finite => patience' = Most(MinTimeout, timeout - elapsed)
          /\ pc' = "wait"
      BY <1>12 DEF ReadChunk, RemoteCall, Remaining
    <2>2. CASE Finite
      <3>1. /\ patience' \in Nat /\ patience' >= MinTimeout /\ patience' <= Most(MinTimeout, timeout)
            /\ 0 < timeout /\ timeout \in Nat
        BY <1>0, <2>1, <2>2 DEF Most, Finite
      <3>2. Over' = 0
        BY <2>1 DEF Over
      <3>3. Over' * (patience' + Slack) = 0
        <4>1. patience' + Slack \in Nat
          BY ONLY <1>n, <3>1, Adding
        <4>2. 0 * (patience' + Slack) = 0
          BY <4>1
        <4> QED BY <3>2, <4>2
      <3>4. elapsed <= Began' /\ Began' \in Nat
        <4>1. patience' = (IF MinTimeout < timeout - elapsed THEN timeout - elapsed ELSE MinTimeout)
          BY <2>1, <2>2 DEF Most
        <4>2. Began' = IF patience' > MinTimeout THEN timeout - patience' ELSE timeout - 1
          BY <2>1 DEF Began
        <4> QED BY <1>0, <2>1, <2>2, <3>1, <4>1, <4>2
      <3>5. elapsed' <= Began' + Over' * (patience' + Slack) + waited'
        BY <1>0, <2>1, <3>3, <3>4
      <3>6. waited' <= patience' + Slack
        BY ONLY <1>n, <2>1, <3>1, Adding
      <3>7. elapsed' < timeout' + (restarts' + 2) * (MinTimeout + Slack)
        <4>1. 2 * (MinTimeout + Slack) \in Nat
          BY <1>0
        <4>2. restarts' + 2 = 2
          BY <2>1
        <4> QED BY <1>0, <2>1, <2>2, <3>1, <4>1, <4>2
      <3> QED BY <2>1, <3>1, <3>5, <3>6, <3>7 DEF InTime, ReadInTime, Waits
    <2>3. CASE ~ Finite
      BY <2>1, <2>3 DEF InTime, ReadInTime, Finite
    <2> QED BY <2>2, <2>3
  <1>13. CASE ReadReply
    <2>1. /\ UNCHANGED <<timeout, op>>
          /\ \/ elapsed' = 0 /\ pc' = "idle"
             \/ elapsed' = elapsed /\ restarts' = restarts /\ pc' = "loop"
      BY <1>13, Zenon DEF ReadReply, Return
    <2> QED BY <1>1, <2>1 DEF InTime, ReadInTime, Waits, Finite
  <1>14. CASE ReadError
    BY <1>1, <1>14 DEF ReadError, Return
  <1>15. CASE ReadGivenUp
    BY <1>1, <1>15 DEF ReadGivenUp, Return
  <1>16. CASE WriteBlock
    <2>1. op' = "write" /\ elapsed' = elapsed /\ timeout' = timeout /\ pc' = "wait" /\ op = "write"
      BY <1>16 DEF WriteBlock, RemoteCall, Line, Queue
    <2> QED BY <2>1 DEF InTime, ReadInTime
  <1>17. CASE WriteEnd
    BY <1>1, <1>17 DEF WriteEnd
  <1>18. CASE WriteReply
    <2>1. /\ op = "write" /\ op' = op /\ timeout' = timeout
          /\ \/ elapsed' = 0 /\ pc' = "idle"
             \/ pc' = "block"
      BY <1>18 DEF WriteReply, WriteStops, Replied, Waiting
    <2> QED BY <1>1, <2>1 DEF InTime, ReadInTime
  <1>19. CASE WriteGivenUp
    BY <1>1, <1>19 DEF WriteGivenUp
  <1>20. CASE OtherReply
    BY <1>1, <1>20 DEF OtherReply
  <1>21. CASE OtherGivenUp
    BY <1>1, <1>21 DEF OtherGivenUp
  <1>22. CASE CloseEnd
    BY <1>1, <1>22 DEF CloseEnd
  <1>23. CASE Send
    <2>1. /\ UNCHANGED <<timeout, pc, op, elapsed, patience, restarts>> /\ pc = "wait"
          /\ unsent /\ ~ unsent' /\ waited' = 0
      BY <1>23 DEF Send
    <2>2. CASE op = "read" /\ Finite
      <3>1. /\ patience \in Nat /\ waited <= patience + Slack
            /\ elapsed <= Began + Over * (patience + Slack) + waited
            /\ timeout \in Nat /\ Began' = Began /\ Began \in Int
        BY <1>0, <2>1, <2>2 DEF InTime, Finite, Began
      <3>2. Over \in Nat /\ Over' = Over + 1
        BY <1>0, <2>1 DEF Over
      <3>3. elapsed <= Began + (Over + 1) * (patience + Slack) + 0
        <4>1. patience + Slack \in Nat
          BY <1>0, <3>1
        <4> QED BY <1>0, <3>1, <3>2, <4>1, Again
      <3>4. elapsed' <= Began' + Over' * (patience' + Slack) + waited'
        BY <2>1, <3>1, <3>2, <3>3
      <3>5. waited' <= patience' + Slack
        BY <1>0, <2>1, <3>1
      <3> HIDE DEF Began, Over
      <3> QED BY <2>1, <2>2, <3>4, <3>5 DEF InTime, ReadInTime, Waits, Finite
    <2> QED BY <2>1, <2>2 DEF InTime, ReadInTime, Waits, Finite
  <1> QED BY <1>4, <1>5, <1>6, <1>7, <1>8, <1>9, <1>10, <1>11, <1>12, <1>13, <1>14, <1>15, <1>16,
             <1>17, <1>18, <1>19, <1>20, <1>21, <1>22, <1>23 DEF Client, CallStep

(* The device, when the reply to a call that was given up is skipped.      *)
LEMMA TimeDevice == ASSUME Types, Line, InTime, Executed PROVE InTime'
  <1>1. /\ Still /\ waited' = (IF Skipped THEN 0 ELSE waited)
        /\ restarts' = (IF Skipped /\ op = "read" THEN restarts + 1 ELSE restarts)
    BY ReplyStill DEF Executed
  <1>2. /\ MinTimeout \in Nat \ {0} /\ Slack \in Nat \ {0}
        /\ timeout # Infinite => timeout \in Nat
        /\ elapsed \in Nat /\ waited \in Nat /\ restarts \in Nat /\ unsent \in BOOLEAN
    BY ConstantsAssumption DEF Types, Clocked
  <1>3. UNCHANGED <<timeout, pc, op, elapsed, patience, unsent>>
    BY <1>1 DEF Still
  <1>4. CASE Skipped /\ op = "read" /\ Finite
    <2>1. pc = "wait" /\ ~ unsent /\ waited' = 0 /\ restarts' = restarts + 1
      BY <1>1, <1>4 DEF Skipped
    <2>2. /\ patience \in Nat /\ patience >= MinTimeout /\ patience <= Most(MinTimeout, timeout) /\ 0 < timeout
          /\ waited <= patience + Slack /\ elapsed <= Began + Over * (patience + Slack) + waited
      BY <1>4, <2>1 DEF InTime
    <2>3. Over \in Nat /\ Over' = Over + 1 /\ Began' = Began /\ Began \in Int
      BY <1>2, <1>3, <1>4, <2>1, <2>2 DEF Over, Began, Finite
    <2>4. elapsed <= Began + (Over + 1) * (patience + Slack) + 0
      <3>1. patience + Slack \in Nat
        BY <1>2, <2>2
      <3> QED BY <1>2, <2>2, <2>3, <3>1, Again
    <2>5. elapsed' <= Began' + Over' * (patience' + Slack) + waited'
      BY <1>3, <2>1, <2>3, <2>4
    <2>6. waited' <= patience' + Slack
      BY <1>2, <1>3, <2>1, <2>2
    <2>7. ReadInTime'
      <3>1. timeout \in Nat /\ ReadInTime
        BY <1>2, <1>4 DEF Finite, InTime
      <3>2. /\ (restarts + 3) * (timeout + Slack) >= (restarts + 2) * (timeout + Slack)
            /\ (restarts + 3) * (MinTimeout + Slack) >= (restarts + 2) * (MinTimeout + Slack)
            /\ (restarts + 3) * (timeout + Slack) \in Nat /\ (restarts + 2) * (timeout + Slack) \in Nat
            /\ (restarts + 3) * (MinTimeout + Slack) \in Nat /\ (restarts + 2) * (MinTimeout + Slack) \in Nat
        <4>1. \A x \in Nat : /\ (restarts + 3) * x = (restarts + 2) * x + x
                             /\ (restarts + 2) * x \in Nat /\ (restarts + 3) * x \in Nat
          BY <1>2
        <4>2. timeout + Slack \in Nat /\ MinTimeout + Slack \in Nat
          BY <1>2, <3>1
        <4> QED BY <4>1, <4>2
      <3>3. restarts' + 2 = restarts + 3
        BY <1>2, <2>1
      <3> QED BY <1>2, <1>3, <1>4, <3>1, <3>2, <3>3 DEF ReadInTime, Waits, Finite
    <2> HIDE DEF Began, Over
    <2> QED BY <1>3, <2>1, <2>2, <2>5, <2>6, <2>7 DEF InTime
  <1>5. CASE ~ (Skipped /\ op = "read" /\ Finite)
    <2>1. op = "read" /\ Finite => waited' = waited /\ restarts' = restarts
      BY <1>1, <1>5
    <2> QED BY <1>3, <2>1 DEF InTime, ReadInTime, Waits, Finite, Began, Over
  <1> QED BY <1>4, <1>5

(* However many chunks a read takes, it ends by its timeout, give or take  *)
(* the 10 ms a chunk is given at least and the patience of the RPC client  *)
(* (read(), tcpip.py): every chunk is told what the ones before have left. *)
(* The last chunk may use up what it is told twice, for the connection and *)
(* for the reply, and once more for every late reply to an earlier call    *)
(* that it skips, since each makes the wait begin anew (do_call, rpc.py).  *)
THEOREM Read_in_time == Spec => []ReadInTime
  <1>1. Init => Types /\ Line /\ InTime
    <2> SUFFICES ASSUME Init PROVE InTime
      BY LineInit
    <2>1. op # "read" /\ pc = "idle" /\ elapsed = 0
      BY DEF Init
    <2> QED BY <2>1 DEF InTime, ReadInTime
  <1>2. Types /\ Line /\ InTime /\ [Next]_vars => (Types /\ Line /\ InTime)'
    <2> SUFFICES ASSUME Types, Line, InTime, [Next]_vars PROVE InTime'
      BY TypesNext, LineNext
    <2>1. CASE Client
      BY <2>1, TimeClient
    <2>2. CASE Executed
      BY <2>2, TimeDevice
    <2>3. CASE OtherClient
      BY <2>3 DEF OtherClient, attrs, loop, clock, InTime, ReadInTime, Waits, Finite, Began, Over
    <2>4. CASE UNCHANGED vars
      BY <2>4 DEF vars, attrs, loop, clock, InTime, ReadInTime, Waits, Finite, Began, Over
    <2> QED BY <2>1, <2>2, <2>3, <2>4, DeviceKinds, NextIs
  <1>3. Types /\ Line /\ InTime => ReadInTime
    BY DEF InTime
  <1> QED BY <1>1, <1>2, <1>3, PTL DEF Spec

-----------------------------------------------------------------------------
(* What reads have returned, what one has collected, what is on the way    *)
(* and what is left, as they make up a response.                           *)
Whole4(r, d, i, o) == r \o d \o i \o o

LEMMA Regroups ==
  ASSUME NEW r \in Seq(Unit), NEW d \in Seq(Unit), NEW i \in Seq(Unit), NEW o \in Seq(Unit)
  PROVE  /\ Whole4(<<>>, <<>>, <<>>, o) = o
         /\ Whole4(r \o d, <<>>, i, o) = Whole4(r, d, i, o)
         /\ Whole4(r, d \o i, <<>>, o) = Whole4(r, d, i, o)
         /\ Whole4(r \o (d \o i), <<>>, <<>>, o) = Whole4(r, d, i, o)
         /\ Whole4(r, d, <<>>, i \o o) = Whole4(r, d, i, o)
  <1>1. /\ r \o d \in Seq(Unit) /\ d \o i \in Seq(Unit) /\ i \o o \in Seq(Unit)
        /\ r \o (d \o i) \in Seq(Unit)
    BY ConcatProperties, Zenon
  <1>2. (r \o d) \o i = r \o (d \o i)
    BY ConcatAssociative
  <1>3. \A q \in Seq(Unit) : q \o <<>> = q /\ <<>> \o q = q
    BY ConcatEmptySeq, Zenon
  <1>4. ((r \o d) \o i) \o o = (r \o d) \o (i \o o)
    <2>1. ASSUME NEW x \in Seq(Unit) PROVE (x \o i) \o o = x \o (i \o o)
      BY ConcatAssociative
    <2>2. r \o d \in Seq(Unit)
      BY <1>1
    <2> QED BY ONLY <2>1, <2>2, i \in Seq(Unit), o \in Seq(Unit), Zenon
  <1>5. <<>> \in Seq(Unit)
    OBVIOUS
  <1>6. Whole4(<<>>, <<>>, <<>>, o) = o
    BY <1>3, <1>5, Zenon DEF Whole4
  <1>7. Whole4(r \o d, <<>>, i, o) = Whole4(r, d, i, o)
    BY <1>1, <1>3, Zenon DEF Whole4
  <1>8. Whole4(r, d \o i, <<>>, o) = Whole4(r, d, i, o)
    BY <1>1, <1>2, <1>3, Zenon DEF Whole4
  <1>9. Whole4(r \o (d \o i), <<>>, <<>>, o) = Whole4(r, d, i, o)
    BY <1>1, <1>2, <1>3, Zenon DEF Whole4
  <1>10. Whole4(r, d, <<>>, i \o o) = Whole4(r, d, i, o)
    BY <1>1, <1>3, <1>4, Zenon DEF Whole4
  <1> QED BY <1>6, <1>7, <1>8, <1>9, <1>10

LEMMA KeptIs ==
  ResponseKept <=> (~ upset => full = Whole4(returned, readData, InReply, output))
  BY DEF ResponseKept, Whole4

LEMMA InReplyTyped == ASSUME Types PROVE InReply \in Seq(Unit)
  BY Says DEF InReply

(* Where nothing is under way, only the device has something to say.       *)
LEMMA KeptClient == ASSUME Types, Line, Kept, Client PROVE Kept'
  <1> USE DEF BeginCall, EndCall, attrs, loop, clock, remote, result, device
  <1>0. /\ returned \in Seq(Unit) /\ readData \in Seq(Unit) /\ output \in Seq(Unit) /\ <<>> \in Seq(Unit)
        /\ InReply \in Seq(Unit)
    BY InReplyTyped DEF Types
  <1>1. pc # "wait" => reply = <<>> /\ InReply = <<>>
    BY DEF Line, Queue, InReply
  <1>2. ASSUME UNCHANGED <<returned, readData, full, output, upset>>, reply = <<>>, reply' = <<>>,
               readData # <<>> => op' = "read" /\ pc' \in {"loop", "wait"}
        PROVE  Kept'
    <2>1. InReply = <<>> /\ InReply' = <<>>
      BY <1>2 DEF InReply
    <2> QED BY <1>2, <2>1 DEF Kept, ResponseKept
  <1>3. ASSUME UNCHANGED <<full, output>>, reply' = <<>>, readData' = <<>>, ~ upset' => ~ upset,
               returned' = returned \o readData, InReply = <<>>
        PROVE  Kept'
    <2>1. InReply' = <<>>
      BY <1>3 DEF InReply
    <2>2. Whole4(returned', readData', InReply', output') = Whole4(returned, readData, InReply, output)
      <3>1. Whole4(returned \o readData, <<>>, InReply, output) = Whole4(returned, readData, InReply, output)
        BY <1>0, Regroups
      <3> QED BY <1>3, <2>1, <3>1, Zenon
    <2>3. (~ upset => full = Whole4(returned, readData, InReply, output))'
      BY <1>3, <2>2, KeptIs DEF Kept
    <2>4. ResponseKept'
      BY <2>3 DEF ResponseKept, Whole4
    <2> QED BY <1>3, <2>4 DEF Kept
  <1>4. ASSUME UNCHANGED <<returned, readData, full, output>>, reply' = <<>>, InReply = <<>>, ~ upset' => ~ upset,
               readData = <<>>
        PROVE  Kept'
    <2>1. InReply' = <<>>
      BY <1>4 DEF InReply
    <2> QED BY <1>4, <2>1 DEF Kept, ResponseKept
  <1>5. ASSUME NEW n \in Counts, BeginRead(n) PROVE Kept'
    BY <1>1, <1>2, <1>5 DEF BeginRead, Kept
  <1>6. ASSUME NEW n \in Messages, BeginWrite(n) PROVE Kept'
    BY <1>1, <1>2, <1>6 DEF BeginWrite, Kept
  <1>7. ASSUME NEW name \in Others, BeginOther(name) PROVE Kept'
    BY <1>1, <1>2, <1>7 DEF BeginOther, RemoteCall, Kept
  <1>8. CASE RenUnsupported
    BY <1>1, <1>2, <1>8 DEF RenUnsupported, Kept
  <1>9. CASE SetTimeout
    BY <1>1, <1>2, <1>9 DEF SetTimeout, Kept
  <1>10. CASE Close
    BY <1>1, <1>2, <1>10 DEF Close, RemoteCall, Kept
  <1>11. CASE Tick
    BY <1>2, <1>11 DEF Tick, Kept
  <1>12. CASE ReadEnd
    BY <1>1, <1>3, <1>12 DEF ReadEnd, Return
  <1>13. CASE ReadChunk
    BY <1>1, <1>2, <1>13 DEF ReadChunk, RemoteCall, Line, Queue
  <1>14. CASE ReadReply
    <2> DEFINE u == reply[1].units
    <2>1. /\ InReply = u /\ u \in Seq(Unit) /\ reply' = <<>> /\ InReply' = <<>> /\ UNCHANGED <<full, output, upset>>
      BY <1>14, Says DEF ReadReply, Replied, Waiting, InReply
    <2>2. \/ returned' = returned \o (readData \o u) /\ readData' = <<>>
          \/ returned' = returned /\ readData' = readData \o u /\ pc' = "loop" /\ op' = "read"
      BY <1>14, Zenon DEF ReadReply, Return, Replied, Waiting
    <2> HIDE DEF u
    <2>3. Whole4(returned', readData', InReply', output') = Whole4(returned, readData, InReply, output)
      <3>1. /\ Whole4(returned \o (readData \o u), <<>>, <<>>, output) = Whole4(returned, readData, u, output)
            /\ Whole4(returned, readData \o u, <<>>, output) = Whole4(returned, readData, u, output)
        BY <1>0, <2>1, Regroups
      <3> QED BY <2>1, <2>2, <3>1, Zenon
    <2>4. (~ upset => full = Whole4(returned, readData, InReply, output))'
      BY <2>1, <2>3, KeptIs DEF Kept
    <2>5. ResponseKept'
      BY <2>4 DEF ResponseKept, Whole4
    <2> QED BY <2>1, <2>2, <2>5 DEF Kept
  <1>15. CASE ReadError
    <2>1. InReply = <<>>
      BY <1>15 DEF ReadError, Kept, InReply, Replied
    <2> QED BY <1>3, <1>15, <2>1 DEF ReadError, Return
  <1>16. CASE ReadGivenUp
    <2>1. InReply = <<>>
      BY <1>16 DEF ReadGivenUp, GivenUp, InReply
    <2> QED BY <1>3, <1>16, <2>1 DEF ReadGivenUp, GivenUp, Return
  <1>17. CASE WriteBlock
    BY <1>1, <1>2, <1>17 DEF WriteBlock, RemoteCall, Kept
  <1>18. CASE WriteEnd
    BY <1>1, <1>2, <1>18 DEF WriteEnd, Kept
  <1>19. CASE WriteReply
    <2>1. op = "write" /\ readData = <<>> /\ InReply = <<>>
      BY <1>19 DEF WriteReply, Replied, Waiting, Kept, InReply
    <2>2. ~ upset' => ~ upset
      BY <1>19, Zenon DEF WriteReply, WriteStops
    <2> QED BY <1>4, <1>19, <2>1, <2>2 DEF WriteReply
  <1>20. CASE WriteGivenUp
    BY <1>4, <1>20 DEF WriteGivenUp, GivenUp, Waiting, Kept, InReply
  <1>21. CASE OtherReply
    <2>1. op \notin {"read", "write"} /\ readData = <<>> /\ InReply = <<>> /\ pc = "wait" /\ reply # <<>>
      BY <1>21 DEF OtherReply, Others, Timed, Replied, Waiting, Kept, InReply
    <2>2. CASE op = "clear" /\ reply[1].error = "none"
      <3>1. full' = <<>> /\ output' = <<>> /\ returned' = <<>> /\ readData' = <<>> /\ reply' = <<>>
        BY <1>21, <2>1, <2>2 DEF OtherReply, Kept
      <3>2. InReply' = <<>>
        BY <3>1 DEF InReply
      <3>3. Whole4(<<>>, <<>>, <<>>, <<>>) = <<>>
        BY <1>0, Regroups
      <3> QED BY <3>1, <3>2, <3>3 DEF Kept, ResponseKept, Whole4
    <2>3. CASE ~ (op = "clear" /\ reply[1].error = "none")
      <3>1. ~ upset' => ~ upset
        BY <1>21, <2>3, Zenon DEF OtherReply
      <3> QED BY <1>4, <1>21, <2>1, <3>1 DEF OtherReply
    <2> QED BY <2>2, <2>3
  <1>22. CASE OtherGivenUp
    <2>1. op \notin {"read", "write"} /\ readData = <<>> /\ InReply = <<>>
      BY <1>22 DEF OtherGivenUp, Others, Timed, Waiting, Kept, InReply
    <2>2. ~ upset' => ~ upset
      BY <1>22, Zenon DEF OtherGivenUp
    <2> QED BY <1>4, <1>22, <2>1, <2>2 DEF OtherGivenUp, GivenUp
  <1>23. CASE CloseEnd
    <2>1. readData = <<>> /\ InReply = <<>> /\ reply' = <<>>
      BY <1>23 DEF CloseEnd, GivenUp, Waiting, Kept, InReply
    <2> QED BY <1>4, <1>23, <2>1 DEF CloseEnd
  <1>24. CASE Send
    BY <1>24 DEF Send, Kept, ResponseKept, InReply
  <1> QED BY <1>5, <1>6, <1>7, <1>8, <1>9, <1>10, <1>11, <1>12, <1>13, <1>14, <1>15, <1>16,
             <1>17, <1>18, <1>19, <1>20, <1>21, <1>22, <1>23, <1>24 DEF Client, CallStep

(* Whom the first request is from: a live one is the only one, of the call *)
(* that waits; one that moves data is live, unless upset.                  *)
LEMMA Foremost ==
  ASSUME Types, Line, requests # <<>>
  PROVE  /\ reply = <<>> /\ InReply = <<>>
         /\ Head(requests) = requests[1] /\ requests[1] \in Sent /\ Len(requests) \in Nat \ {0}
         /\ Head(requests).live => pc = "wait" /\ op = Head(requests).name /\ Len(requests) = 1
         /\ ~ upset /\ Head(requests).name \in {"read", "write", "clear"} => Head(requests).live
  <1>1. Len(requests) \in Nat \ {0} /\ Head(requests) = requests[1] /\ requests[1] \in Sent
    BY DEF Types
  <1>2. 1 \in 1..Len(requests)
    BY <1>1
  <1> QED BY <1>1, <1>2 DEF Line, Queue, Harmless, InReply

LEMMA KeptDevice == ASSUME Types, Line, Kept, Device PROVE Kept'
  <1>0. /\ returned \in Seq(Unit) /\ readData \in Seq(Unit) /\ output \in Seq(Unit) /\ <<>> \in Seq(Unit)
        /\ {} \in SUBSET {"CHR", "END", "REQCNT"} /\ 0 \in Nat
    BY DEF Types
  <1>1. ASSUME requests # <<>>, NEW error \in Errors, NEW n \in Nat, NEW units \in Seq(Unit),
               NEW reason \in SUBSET {"CHR", "END", "REQCNT"}, Reply(error, n, units, reason)
        PROVE  /\ UNCHANGED <<readData, upset, op, pc>>
               /\ Head(requests).live => /\ reply' # <<>> /\ reply'[1].error = error
                                         /\ reply'[1].units = units
                                         /\ InReply' = IF op = "read" THEN units ELSE <<>>
               /\ ~ Head(requests).live => reply' = <<>> /\ InReply' = <<>>
    <2>1. UNCHANGED <<readData, upset, op, pc>>
      BY <1>1, ReplyStill DEF Still
    <2>2. reply = <<>>
      BY <1>1, Foremost
    <2>3. /\ Head(requests).live => reply' # <<>> /\ reply'[1].error = error /\ reply'[1].units = units
          /\ ~ Head(requests).live => reply' = <<>>
      BY <1>1, <2>2, Answered
    <2> QED BY <2>1, <2>3 DEF InReply
  (* Replies without data, by a device whose response stays as it is.      *)
  <1>2. ASSUME requests # <<>>, NEW error \in Errors, NEW n \in Nat, Reply(error, n, <<>>, {}),
               UNCHANGED <<returned, full, output>>,
               Head(requests).name # "clear" \/ error # "none"
        PROVE  Kept'
    <2>1. /\ UNCHANGED <<readData, upset, op, pc>>
          /\ reply' # <<>> => Head(requests).live /\ reply'[1].error = error /\ reply'[1].units = <<>>
          /\ InReply' = <<>>
      <3>1. /\ UNCHANGED <<readData, upset, op, pc>>
            /\ Head(requests).live => /\ reply' # <<>> /\ reply'[1].error = error
                                      /\ reply'[1].units = <<>>
                                      /\ InReply' = IF op = "read" THEN <<>> ELSE <<>>
            /\ ~ Head(requests).live => reply' = <<>> /\ InReply' = <<>>
        BY <1>0, <1>1, <1>2
      <3> QED BY <3>1
    <2>2. InReply = <<>> /\ (Head(requests).live => op = Head(requests).name)
      BY <1>2, Foremost
    <2>3. ResponseKept'
      BY <1>2, <2>1, <2>2 DEF Kept, ResponseKept
    <2> QED BY <1>2, <2>1, <2>2, <2>3 DEF Kept
  <1>3. CASE DeviceRead
    <2>1. PICK n \in 1..Len(output) :
            /\ output' = SubSeq(output, n + 1, Len(output))
            /\ SubSeq(output, 1, n) \in Seq(Unit) /\ SubSeq(output, n + 1, Len(output)) \in Seq(Unit)
            /\ Cause(n) \in SUBSET {"CHR", "END", "REQCNT"}
            /\ Reply("none", n, SubSeq(output, 1, n), Cause(n))
      BY <1>3, Gives
    <2> DEFINE u == SubSeq(output, 1, n)
               v == SubSeq(output, n + 1, Len(output))
    <2>2. /\ requests # <<>> /\ Head(requests).name = "read" /\ UNCHANGED <<returned, full>>
          /\ n \in Nat /\ "none" \in Errors
      BY <1>3 DEF DeviceRead, Executes, AtDevice, Types, Errors
    <2>3. /\ UNCHANGED <<readData, upset, op, pc>>
          /\ Head(requests).live => /\ reply' # <<>> /\ reply'[1].error = "none"
                                    /\ InReply' = IF op = "read" THEN u ELSE <<>>
          /\ ~ Head(requests).live => reply' = <<>>
      BY <1>1, <2>1, <2>2
    <2>4. u \o v = output
      <3>1. Len(output) \in Nat /\ 1 \in 1..Len(output)+1 /\ n \in 1-1..Len(output) /\ Len(output) \in n..Len(output)
        BY DEF Types
      <3>2. u \o v = SubSeq(output, 1, Len(output))
        BY <1>0, <3>1, ConcatAdjacentSubSeq
      <3> QED BY <1>0, <3>2, SubSeqFull
    <2>5. /\ InReply = <<>> /\ (Head(requests).live => op = "read")
          /\ ~ upset => Head(requests).live
      BY <2>2, Foremost
    <2>6. ResponseKept'
      <3> SUFFICES ASSUME ~ upset PROVE full' = Whole4(returned', readData', InReply', output')
        BY <2>3 DEF ResponseKept, Whole4
      <3> HIDE DEF u, v
      <3>1. InReply' = u /\ output' = v /\ u \in Seq(Unit) /\ v \in Seq(Unit)
        BY <2>1, <2>3, <2>5 DEF u, v
      <3>2. Whole4(returned, readData, u, v) = Whole4(returned, readData, <<>>, u \o v)
        BY <1>0, <3>1, Regroups
      <3>3. full = Whole4(returned, readData, InReply, output)
        BY KeptIs DEF Kept
      <3> QED BY <2>2, <2>3, <2>4, <2>5, <3>1, <3>2, <3>3, Zenon
    <2>7. op = "read" \/ reply' = <<>>
      BY <2>3, <2>5
    <2> QED BY <2>3, <2>6, <2>7 DEF Kept
  <1>4. CASE DeviceWrite
    <2>1. PICK n \in 0..Head(requests).n :
            /\ Reply("none", n, <<>>, {})
            /\ \/ output' = full' /\ returned' = <<>>
               \/ UNCHANGED <<full, output, returned>>
      BY <1>4 DEF DeviceWrite
    <2>2. requests # <<>> /\ Head(requests).name = "write" /\ Head(requests) \in Sent /\ "none" \in Errors
      BY <1>4 DEF DeviceWrite, Executes, AtDevice, Types, Errors
    <2>3. n \in Nat
      BY <2>2 DEF Sent
    <2>4. CASE UNCHANGED <<full, output, returned>>
      BY <1>2, <2>1, <2>2, <2>3, <2>4
    <2>5. CASE output' = full' /\ returned' = <<>>
      <3>1. /\ UNCHANGED <<readData, upset, op, pc>>
            /\ Head(requests).live => reply' # <<>> /\ reply'[1].error = "none" /\ InReply' = IF op = "read" THEN <<>> ELSE <<>>
            /\ ~ Head(requests).live => reply' = <<>> /\ InReply' = <<>>
        BY <1>0, <1>1, <2>1, <2>2, <2>3
      <3>2. /\ Head(requests).live => op = "write"
            /\ ~ upset => Head(requests).live
        BY <2>2, Foremost
      <3>3. InReply' = <<>>
        BY <3>1
      <3>4. output' \in Seq(Unit)
        BY <1>4, TypesDevice DEF Device, Types
      <3>5. ResponseKept'
        <4> SUFFICES ASSUME ~ upset PROVE full' = Whole4(returned', readData', InReply', output')
          BY <3>1 DEF ResponseKept, Whole4
        <4>1. readData = <<>>
          BY <3>2 DEF Kept
        <4>2. Whole4(<<>>, <<>>, <<>>, output') = output'
          BY <1>0, <3>4, Regroups
        <4> QED BY <2>5, <3>1, <3>3, <4>1, <4>2, Zenon
      <3>6. reply' # <<>> => op = "write" /\ reply'[1].error = "none"
        BY <3>1, <3>2
      <3> QED BY <3>1, <3>5, <3>6 DEF Kept
    <2> QED BY <2>1, <2>4, <2>5
  <1>5. CASE DeviceClear
    <2>1. /\ requests # <<>> /\ Head(requests).name = "clear" /\ "none" \in Errors
          /\ full' = <<>> /\ output' = <<>> /\ returned' = <<>> /\ unfinished' = 0
          /\ Reply("none", 0, <<>>, {})
      BY <1>5 DEF DeviceClear, Executes, AtDevice, Errors
    <2>2. /\ UNCHANGED <<readData, upset, op, pc>>
          /\ Head(requests).live => reply' # <<>> /\ reply'[1].error = "none" /\ InReply' = IF op = "read" THEN <<>> ELSE <<>>
          /\ ~ Head(requests).live => reply' = <<>> /\ InReply' = <<>>
      BY <1>0, <1>1, <2>1
    <2>3. /\ Head(requests).live => op = "clear"
          /\ ~ upset => Head(requests).live
      BY <2>1, Foremost
    <2>4. ResponseKept'
      <3> SUFFICES ASSUME ~ upset PROVE full' = Whole4(returned', readData', InReply', output')
        BY <2>2 DEF ResponseKept, Whole4
      <3>1. readData = <<>> /\ InReply' = <<>>
        BY <2>2, <2>3 DEF Kept
      <3>2. Whole4(<<>>, <<>>, <<>>, <<>>) = <<>>
        BY <1>0, Regroups
      <3> QED BY <2>1, <2>2, <3>1, <3>2, Zenon
    <2>5. reply' # <<>> => reply'[1].error = "none"
      BY <2>2
    <2> QED BY <2>1, <2>2, <2>4, <2>5 DEF Kept
  <1>6. CASE DeviceLock
    BY <1>0, <1>2, <1>6 DEF DeviceLock, Executes, AtDevice, Errors
  <1>7. CASE DeviceOther
    BY <1>0, <1>2, <1>7 DEF DeviceOther, Executes, AtDevice, Errors, device
  <1>8. CASE DeviceDestroy
    BY <1>0, <1>2, <1>8 DEF DeviceDestroy, Executes, AtDevice, Errors
  <1>9. CASE DeviceRefuses
    <2>1. PICK error \in Errors : Reply(error, 0, <<>>, {}) /\ error # "none"
      BY <1>9 DEF DeviceRefuses, AtDevice, Errors
    <2> QED BY <1>0, <1>2, <1>9, <2>1 DEF DeviceRefuses, AtDevice, device
  <1>10. CASE OtherClient
    <2>1. InReply' = InReply
      BY <1>10 DEF OtherClient, InReply, loop, remote
    <2> QED BY <1>10, <2>1 DEF OtherClient, Kept, ResponseKept, loop, remote, result
  <1> QED BY <1>3, <1>4, <1>5, <1>6, <1>7, <1>8, <1>9, <1>10 DEF Device

LEMMA KeptInit == ASSUME Init PROVE Kept
  <1>1. InReply = <<>>
    BY DEF Init, InReply
  <1>2. <<>> \in Seq(Unit)
    OBVIOUS
  <1>3. Whole4(<<>>, <<>>, <<>>, <<>>) = <<>>
    BY <1>2, Regroups
  <1> QED BY <1>1, <1>3 DEF Init, Kept, ResponseKept, Whole4

LEMMA KeptNext == ASSUME Types, Line, Kept, [Next]_vars PROVE Kept'
  <1>1. CASE UNCHANGED vars
    <2>1. InReply' = InReply
      BY <1>1 DEF vars, loop, remote, InReply
    <2> QED BY <1>1, <2>1 DEF vars, loop, remote, result, device, Kept, ResponseKept
  <1> QED BY <1>1, KeptClient, KeptDevice, NextIs

(* No unit of a response is lost, whatever is refused or fails (read(),    *)
(* write(), clear(), tcpip.py): what reads have returned, have collected   *)
(* or are about to, and what the device has left make it up, until a remote*)
(* call is given up or a message left unfinished.                          *)
THEOREM Response_kept == Spec => []ResponseKept
  <1>1. Init => Types /\ Line /\ Kept
    BY LineInit, KeptInit
  <1>2. Types /\ Line /\ Kept /\ [Next]_vars => (Types /\ Line /\ Kept)'
    BY TypesNext, LineNext, KeptNext
  <1>3. Types /\ Line /\ Kept => ResponseKept
    BY DEF Kept
  <1> QED BY <1>1, <1>2, <1>3, PTL DEF Spec

-----------------------------------------------------------------------------
LEMMA Blocks ==
  ASSUME Types, offset < size
  PROVE  /\ Block \in Nat \ {0} /\ offset + Block <= size
         /\ IsLast(size - offset) => offset + Block = size
         /\ ~ IsLast(size - offset) => offset + Block < size
         /\ IsLast(size - offset) \in BOOLEAN
  BY ConstantsAssumption DEF Types, Block, Least, IsLast

LEMMA WritingClient == ASSUME Types, Line, Kept, Writing, Client PROVE Writing'
  <1> USE DEF BeginCall, EndCall, attrs, loop, clock, remote, result, device
  <1>0. /\ size \in Nat /\ offset \in Nat /\ unfinished \in Nat /\ accepted \in Nat
        /\ pc \in {"loop", "block", "wait"} => op # "none"
        /\ pc = "loop" => op = "read"
        /\ pc = "block" => op = "write"
    BY DEF Types, Line, Queue, Names, Others, Timed
  (* Steps of another operation.                                           *)
  <1>1. ASSUME UNCHANGED <<unfinished, upset>>, op' # "write", pc' # "block", op # "write" \/ pc = "idle"
        PROVE  Writing'
    BY <1>1 DEF Writing, Delivered
  (* The end of a write that leaves nothing unfinished, or upsets.         *)
  <1>2. ASSUME ~ upset' => ~ upset /\ unfinished' = 0,
               ~ upset' => (outcome' = "success" /\ size' > 0 => taken' = <<size'>>),
               pc' = "idle"
        PROVE  Writing'
    BY <1>2 DEF Writing, Delivered
  <1>3. ASSUME NEW n \in Counts, BeginRead(n) PROVE Writing'
    BY <1>1, <1>3 DEF BeginRead
  <1>4. ASSUME NEW n \in Messages, BeginWrite(n) PROVE Writing'
    <2>1. n \in Nat /\ (0 < n \/ n = 0)
      BY ConstantsAssumption
    <2>2. /\ pc = "idle" /\ pc' = "block" /\ op' = "write" /\ size' = n /\ offset' = 0 /\ accepted' = 0
          /\ taken' = <<>> /\ outcome' = "none" /\ UNCHANGED <<unfinished, upset>>
      BY <1>4 DEF BeginWrite
    <2>3. ~ upset => unfinished = 0
      BY <2>2 DEF Writing
    <2> QED BY <2>1, <2>2, <2>3 DEF Writing, Delivered, Partial
  <1>5. ASSUME NEW name \in Others, BeginOther(name) PROVE Writing'
    <2>1. name # "write"
      BY DEF Others, Timed
    <2> QED BY <1>1, <1>5, <2>1 DEF BeginOther, RemoteCall
  <1>6. CASE RenUnsupported
    BY <1>1, <1>6 DEF RenUnsupported
  <1>7. CASE SetTimeout
    BY <1>7 DEF SetTimeout, Writing, Delivered
  <1>8. CASE Close
    BY <1>1, <1>8 DEF Close, RemoteCall
  <1>9. CASE Tick
    BY <1>9 DEF Tick, Writing, Delivered, Partial, Whole, Block
  <1>10. CASE ReadEnd
    BY <1>0, <1>1, <1>10 DEF ReadEnd, Return
  <1>11. CASE ReadChunk
    BY <1>0, <1>1, <1>11 DEF ReadChunk, RemoteCall
  <1>12. CASE ReadReply
    <2>1. op = "read" /\ op' = op /\ pc' \in {"idle", "loop"} /\ UNCHANGED <<unfinished, upset>>
      BY <1>12, Zenon DEF ReadReply, Return, Replied, Waiting
    <2> QED BY <1>1, <2>1
  <1>13. CASE ReadError
    BY <1>1, <1>13 DEF ReadError, Return, Replied, Waiting
  <1>14. CASE ReadGivenUp
    <2>1. op = "read" /\ op' = op /\ pc' = "idle" /\ unfinished' = unfinished
      BY <1>14 DEF ReadGivenUp, Return, Waiting
    <2>2. ~ upset' => ~ upset
      BY <1>14, Zenon DEF ReadGivenUp
    <2> QED BY <2>1, <2>2 DEF Writing, Delivered
  <1>15. CASE WriteBlock
    <2>1. /\ offset < size /\ op = "write" /\ pc = "block" /\ UNCHANGED <<op, size, offset, outcome, upset>>
          /\ UNCHANGED <<accepted, unfinished, taken>>
          /\ reply = <<>>
      BY <1>0, <1>15 DEF WriteBlock, Line, Queue
    <2>2. Block \in Nat /\ IsLast(size - offset) \in BOOLEAN
      BY <2>1, Blocks
    <2>3. RemoteCall("write", Block, IsLast(size - offset), timeout)
      BY <1>15 DEF WriteBlock, Block
    <2>4. /\ requests'[Len(requests')] = Request("write", Block, IsLast(size - offset))
          /\ reply' = <<>> /\ pc' = "wait"
      BY <2>1, <2>2, <2>3, Adds DEF Names
    <2>5. /\ requests'[Len(requests')].n = Block /\ requests'[Len(requests')].flag = IsLast(size - offset)
      BY <2>4 DEF Request
    <2>6. ~ upset => Partial(offset) /\ outcome = "none" /\ Delivered
      BY <1>0, <2>1 DEF Writing
    <2> QED BY <2>1, <2>4, <2>5, <2>6 DEF Writing, Partial, Block, IsLast, Delivered
  <1>16. CASE WriteEnd
    <2>1. /\ offset >= size /\ pc = "block" /\ UNCHANGED <<size, offset, upset, accepted, unfinished, taken>>
          /\ pc' = "idle"
      BY <1>16 DEF WriteEnd
    <2>2. ASSUME ~ upset
          PROVE  unfinished = 0 /\ offset <= accepted /\ (size > 0 => taken = <<size>>)
      BY <1>0, <2>1, <2>2 DEF Writing, Partial, Whole
    <2> QED BY <1>2, <2>1, <2>2
  <1>17. CASE WriteReply
    <2>1. /\ op = "write" /\ pc = "wait" /\ reply # <<>> /\ reply' = <<>>
          /\ UNCHANGED <<op, size, accepted, unfinished, taken>>
          /\ reply[1].n \in Nat
      BY <1>17, Says DEF WriteReply, Replied, Waiting
    <2>2. CASE Refused
      <3>1. /\ pc' = "idle" /\ outcome' = Blame(reply[1].error)
            /\ upset' = (upset \/ unfinished > 0) /\ offset' = offset
        BY <1>17, <2>2 DEF WriteReply, WriteStops
      <3>2. outcome' # "success"
        BY <3>1 DEF Blame
      <3>3. ASSUME ~ upset' PROVE ~ upset /\ unfinished = 0
        <4>1. ~ upset /\ ~ (unfinished > 0)
          BY <3>1, <3>3, Zenon
        <4> QED BY <1>0, <4>1
      <3> QED BY <1>2, <2>1, <3>1, <3>2, <3>3
    <2>3. CASE ~ Refused
      <3>1. pc' = "block" /\ offset' = offset + reply[1].n /\ UNCHANGED <<outcome, upset>>
        BY <1>17, <2>3, Zenon DEF WriteReply, clock
      <3>2. SUFFICES ASSUME ~ upset PROVE Writing'
        BY <3>1 DEF Writing
      <3>3. offset < size /\ outcome = "none"
        BY <2>1, <3>2 DEF Writing
      <3>4. /\ Block \in Nat \ {0} /\ offset + Block <= size
            /\ IsLast(size - offset) => offset + Block = size
            /\ ~ IsLast(size - offset) => offset + Block < size
        BY <3>3, Blocks
      <3>5. reply[1].error = "none" /\ reply[1].n = Block
        BY <2>1, <2>3, <3>2, <3>4 DEF Refused, Writing
      <3>6. IF IsLast(size - offset) THEN Whole ELSE Partial(offset + Block)
        BY <2>1, <3>2, <3>5 DEF Writing
      <3>7. offset' = offset + Block
        BY <3>1, <3>5
      <3>8. CASE IsLast(size - offset)
        BY <1>0, <2>1, <3>1, <3>3, <3>4, <3>6, <3>7, <3>8 DEF Writing, Delivered, Partial, Whole
      <3>9. CASE ~ IsLast(size - offset)
        BY <1>0, <2>1, <3>1, <3>3, <3>4, <3>6, <3>7, <3>9 DEF Writing, Delivered, Partial, Whole
      <3> QED BY <3>8, <3>9
    <2> QED BY <2>2, <2>3
  <1>18. CASE WriteGivenUp
    <2>1. pc' = "idle" /\ outcome' = "io" /\ unfinished' = unfinished
      BY <1>18 DEF WriteGivenUp
    <2>2. ~ upset' => ~ upset /\ ~ (unfinished > 0)
      BY <1>18, Zenon DEF WriteGivenUp
    <2>3. ~ upset' => ~ upset /\ unfinished' = 0
      BY <1>0, <2>1, <2>2
    <2> QED BY <1>2, <2>1, <2>3
  <1>19. CASE OtherReply
    <2>1. op \notin {"read", "write"} /\ op' = op /\ pc' = "idle" /\ unfinished' = unfinished
      BY <1>19 DEF OtherReply, Others, Timed
    <2>2. ~ upset' => unfinished = 0
      <3>1. CASE op = "clear" /\ reply[1].error = "none"
        BY <1>19, <3>1 DEF OtherReply, Replied, Kept
      <3>2. CASE ~ (op = "clear" /\ reply[1].error = "none")
        <4>1. ~ upset' => ~ upset
          BY <1>19, <3>2, Zenon DEF OtherReply
        <4> QED BY <2>1, <4>1 DEF Writing
      <3> QED BY <3>1, <3>2
    <2> QED BY <2>1, <2>2 DEF Writing, Delivered
  <1>20. CASE OtherGivenUp
    <2>1. op \notin {"read", "write"} /\ op' = op /\ pc' = "idle" /\ unfinished' = unfinished
      BY <1>20 DEF OtherGivenUp, Others, Timed
    <2>2. ~ upset' => ~ upset
      BY <1>20, Zenon DEF OtherGivenUp
    <2> QED BY <2>1, <2>2 DEF Writing, Delivered
  <1>21. CASE CloseEnd
    BY <1>1, <1>21 DEF CloseEnd, Waiting
  <1>22. CASE Send
    BY <1>22 DEF Send, Writing, Delivered, Partial, Whole, Block
  <1> QED BY <1>3, <1>4, <1>5, <1>6, <1>7, <1>8, <1>9, <1>10, <1>11, <1>12, <1>13, <1>14, <1>15, <1>16,
             <1>17, <1>18, <1>19, <1>20, <1>21, <1>22 DEF Client, CallStep

(* While a given-up request is executed the last one stays the last.       *)
LEMMA LastStays ==
  ASSUME Types, Line, requests # <<>>, pc = "wait",
         NEW error \in Errors, NEW n \in Nat, NEW units \in Seq(Unit),
         NEW reason \in SUBSET {"CHR", "END", "REQCNT"}, Reply(error, n, units, reason),
         ~ Head(requests).live
  PROVE  reply' = <<>> /\ requests'[Len(requests')] = requests[Len(requests)]
  <1>1. /\ reply = <<>> /\ Len(requests) \in Nat \ {0} /\ Head(requests) = requests[1]
        /\ requests[Len(requests)].live
    BY Foremost DEF Line, Queue
  <1>2. Len(requests) # 1
    BY <1>1
  <1>3. /\ Len(requests') = Len(requests) - 1 /\ reply' = reply
        /\ \A i \in 1..Len(requests') : requests'[i] = requests[i + 1]
    BY Answered
  <1> QED BY <1>1, <1>2, <1>3

LEMMA WritingDevice == ASSUME Types, Line, Writing, Device PROVE Writing'
  <1>0. /\ size \in Nat /\ offset \in Nat /\ unfinished \in Nat /\ accepted \in Nat
        /\ <<>> \in Seq(Unit) /\ {} \in SUBSET {"CHR", "END", "REQCNT"} /\ 0 \in Nat
    BY DEF Types
  (* A reply that brings the device no unit of a message.                  *)
  <1>1. ASSUME requests # <<>>, NEW error \in Errors, NEW n \in Nat, NEW units \in Seq(Unit),
               NEW reason \in SUBSET {"CHR", "END", "REQCNT"}, Reply(error, n, units, reason),
               UNCHANGED <<accepted, taken>>,
               unfinished' # unfinished => unfinished' = 0 /\ op # "write",
               Head(requests).live => op # "write" \/ error # "none"
        PROVE  Writing'
    <2>1. UNCHANGED <<pc, op, size, offset, outcome, upset>>
      BY <1>1, ReplyStill DEF Still
    <2>2. CASE op # "write"
      <3>1. pc' # "block"
        BY <2>1, <2>2 DEF Line, Queue
      <3> QED BY <1>0, <1>1, <2>1, <2>2, <3>1 DEF Writing, Delivered
    <2>3. CASE op = "write" /\ pc # "wait"
      BY <1>1, <2>1, <2>3 DEF Writing, Delivered, Partial, Whole
    <2>4. CASE op = "write" /\ pc = "wait" /\ Head(requests).live
      <3>1. reply' # <<>> /\ reply'[1].error # "none" /\ reply = <<>>
        BY <1>1, <2>4, Answered, Foremost
      <3> QED BY <1>1, <2>1, <2>4, <3>1 DEF Writing, Delivered, Partial, Whole, Block
    <2>5. CASE op = "write" /\ pc = "wait" /\ ~ Head(requests).live
      <3>1. reply' = <<>> /\ reply = <<>> /\ requests'[Len(requests')] = requests[Len(requests)]
        BY <1>1, <2>5, LastStays, Foremost
      <3> QED BY <1>1, <2>1, <2>5, <3>1 DEF Writing, Delivered, Partial, Whole, Block
    <2> QED BY <2>2, <2>3, <2>4, <2>5
  <1>2. ASSUME NEW error \in Errors, NEW n \in Nat, requests # <<>>, Reply(error, n, <<>>, {}),
               UNCHANGED <<accepted, taken>>,
               unfinished' # unfinished => unfinished' = 0 /\ op # "write",
               Head(requests).live => op # "write" \/ error # "none"
        PROVE  Writing'
    BY <1>0, <1>1, <1>2
  <1>3. requests # <<>> /\ Head(requests).live => op = Head(requests).name
    BY Foremost
  <1>4. CASE DeviceRead
    <2>1. PICK n \in 1..Len(output) :
            /\ SubSeq(output, 1, n) \in Seq(Unit)
            /\ Cause(n) \in SUBSET {"CHR", "END", "REQCNT"}
            /\ Reply("none", n, SubSeq(output, 1, n), Cause(n))
      BY <1>4, Gives
    <2>2. n \in Nat /\ "none" \in Errors
      BY DEF Types, Errors
    <2>3. requests # <<>> /\ Head(requests).name = "read" /\ UNCHANGED <<accepted, taken, unfinished>>
      BY <1>4 DEF DeviceRead, Executes, AtDevice
    <2>4. Head(requests).live => op # "write"
      BY <1>3, <2>3
    <2>5. unfinished' = unfinished
      BY <2>3
    <2> QED BY <1>1, <2>1, <2>2, <2>3, <2>4, <2>5
  <1>5. CASE DeviceWrite
    <2> DEFINE r == Head(requests)
    <2>1. PICK n \in 0..r.n :
            /\ accepted' = IF r.live THEN accepted + n ELSE accepted
            /\ r.flag /\ n = r.n => taken' = Append(taken, unfinished + n) /\ unfinished' = 0
            /\ ~ (r.flag /\ n = r.n) => unfinished' = unfinished + n /\ taken' = taken
            /\ Reply("none", n, <<>>, {})
      BY <1>5 DEF DeviceWrite
    <2>2. requests # <<>> /\ r.name = "write" /\ r \in Sent /\ "none" \in Errors
      BY <1>5 DEF DeviceWrite, Executes, AtDevice, Types, Errors
    <2>3. n \in Nat /\ n <= r.n
      BY <2>2 DEF Sent
    <2>4. UNCHANGED <<pc, op, size, offset, outcome, upset>>
      BY <2>1, ReplyStill DEF Still
    <2> SUFFICES ASSUME ~ upset PROVE Writing'
      BY <2>4 DEF Writing
    <2>5. /\ r.live /\ pc = "wait" /\ op = "write" /\ Len(requests) = 1 /\ r = requests[1] /\ reply = <<>>
      BY <2>2, Foremost
    <2>6. Partial(offset) /\ offset < size /\ r.n = Block /\ r.flag = IsLast(size - offset) /\ outcome = "none"
      BY <2>5 DEF Writing
    <2>7. reply' # <<>> /\ reply'[1].error = "none" /\ reply'[1].n = n
      BY <1>0, <2>1, <2>2, <2>3, <2>5, Answered
    <2>8. /\ Block \in Nat \ {0} /\ Block' = Block /\ offset + Block <= size
          /\ IsLast(size - offset) => offset + Block = size
      BY <2>4, <2>6, Blocks DEF Block
    <2>9. CASE IsLast(size - offset) /\ n = Block
      <3>1. taken' = Append(<<>>, offset + n) /\ unfinished' = 0 /\ accepted' = size
        BY <1>0, <2>1, <2>5, <2>6, <2>8, <2>9 DEF Partial
      <3>2. taken' = <<size>>
        BY <2>8, <2>9, <3>1
      <3>3. Whole'
        BY <2>4, <3>1, <3>2 DEF Whole
      <3> QED BY <1>0, <2>3, <2>4, <2>5, <2>6, <2>7, <2>8, <2>9, <3>1, <3>3 DEF Writing, Delivered
    <2>10. CASE ~ (IsLast(size - offset) /\ n = Block)
      <3>1. Partial(offset + n)' /\ accepted' = offset + n
        BY <1>0, <2>1, <2>5, <2>3, <2>4, <2>6, <2>10 DEF Partial
      <3> QED BY <1>0, <2>3, <2>4, <2>5, <2>6, <2>7, <2>8, <2>10, <3>1 DEF Writing, Delivered
    <2> QED BY <2>9, <2>10
  <1>6. CASE DeviceClear
    <2>1. requests # <<>> /\ Head(requests).name = "clear" /\ Reply("none", 0, <<>>, {})
          /\ unfinished' = 0 /\ UNCHANGED <<accepted, taken>> /\ "none" \in Errors
      BY <1>6 DEF DeviceClear, Executes, AtDevice, Errors
    <2>2. upset' = upset
      BY <2>1, ReplyStill DEF Still
    <2>3. upset \/ op = "clear"
      BY <2>1, Foremost
    <2> QED BY <1>0, <1>2, <1>3, <2>1, <2>2, <2>3 DEF Writing
  <1>7. CASE DeviceLock
    <2>1. /\ requests # <<>> /\ Head(requests).name # "write" /\ Reply("none", 0, <<>>, {})
          /\ UNCHANGED <<accepted, taken>> /\ unfinished' = unfinished /\ "none" \in Errors
      BY <1>7 DEF DeviceLock, Executes, AtDevice, Errors
    <2>2. Head(requests).live => op # "write"
      BY <1>3, <2>1
    <2> QED BY <1>0, <1>2, <2>1, <2>2
  <1>8. CASE DeviceOther
    <2>1. /\ requests # <<>> /\ Head(requests).name # "write" /\ Reply("none", 0, <<>>, {})
          /\ UNCHANGED <<accepted, taken>> /\ unfinished' = unfinished /\ "none" \in Errors
      BY <1>8 DEF DeviceOther, Executes, AtDevice, Errors, device
    <2>2. Head(requests).live => op # "write"
      BY <1>3, <2>1
    <2> QED BY <1>0, <1>2, <2>1, <2>2
  <1>9. CASE DeviceDestroy
    <2>1. /\ requests # <<>> /\ Head(requests).name # "write" /\ Reply("none", 0, <<>>, {})
          /\ UNCHANGED <<accepted, taken>> /\ unfinished' = unfinished /\ "none" \in Errors
      BY <1>9 DEF DeviceDestroy, Executes, AtDevice, Errors
    <2>2. Head(requests).live => op # "write"
      BY <1>3, <2>1
    <2> QED BY <1>0, <1>2, <2>1, <2>2
  <1>10. CASE DeviceRefuses
    <2>1. PICK error \in Errors : Reply(error, 0, <<>>, {}) /\ error # "none"
      BY <1>10 DEF DeviceRefuses, AtDevice, Errors
    <2>2. requests # <<>> /\ UNCHANGED <<accepted, taken>> /\ unfinished' = unfinished
      BY <1>10 DEF DeviceRefuses, AtDevice, device
    <2> QED BY <1>0, <1>2, <2>1, <2>2
  <1>11. CASE OtherClient
    BY <1>11 DEF OtherClient, Writing, Delivered, Partial, Whole, Block, loop, remote, result
  <1> QED BY <1>4, <1>5, <1>6, <1>7, <1>8, <1>9, <1>10, <1>11 DEF Device

-----------------------------------------------------------------------------
(* A sequence put behind one without a termination character.              *)
LEMMA TermsJoined ==
  ASSUME NEW a \in Seq(Unit), NEW b \in Seq(Unit), NoTerm(a, Len(a)), NoTerm(b, Len(b) - 1)
  PROVE  /\ a \o b \in Seq(Unit) /\ Len(a \o b) = Len(a) + Len(b)
         /\ b # <<>> => a \o b # <<>> /\ (a \o b)[Len(a \o b)] = b[Len(b)]
         /\ NoTerm(a \o b, Len(a \o b) - 1)
         /\ NoTerm(b, Len(b)) => NoTerm(a \o b, Len(a \o b))
  <1>1. /\ a \o b \in Seq(Unit) /\ Len(a \o b) = Len(a) + Len(b) /\ Len(a) \in Nat /\ Len(b) \in Nat
        /\ \A i \in 1..Len(a) : (a \o b)[i] = a[i]
        /\ \A i \in Len(a)+1..Len(a) + Len(b) : i - Len(a) \in 1..Len(b) /\ (a \o b)[i] = b[i - Len(a)]
    OBVIOUS
  <1>2. ASSUME b # <<>> PROVE a \o b # <<>> /\ (a \o b)[Len(a \o b)] = b[Len(b)]
    <2>1. Len(b) > 0 /\ Len(a \o b) > 0
      BY <1>1, <1>2
    <2>2. Len(a \o b) \in Len(a)+1..Len(a) + Len(b) /\ Len(a \o b) - Len(a) = Len(b)
      BY <1>1, <2>1
    <2> QED BY <1>1, <2>1, <2>2
  <1>3. ASSUME NEW k \in 1..Len(a) + Len(b), k # Len(a) + Len(b) \/ NoTerm(b, Len(b))
        PROVE  ~ IsTerm((a \o b)[k])
    <2>1. CASE k <= Len(a)
      BY <1>1, <2>1 DEF NoTerm
    <2>2. CASE k > Len(a)
      <3>1. k - Len(a) \in 1..Len(b) /\ (a \o b)[k] = b[k - Len(a)]
        BY <1>1, <2>2
      <3>2. CASE NoTerm(b, Len(b))
        BY <3>1, <3>2 DEF NoTerm
      <3>3. CASE k # Len(a) + Len(b)
        <4>1. k - Len(a) \in 1..Len(b) - 1
          BY <1>1, <2>2, <3>3
        <4> QED BY <3>1, <4>1 DEF NoTerm
      <3> QED BY <1>3, <3>2, <3>3
    <2> QED BY <1>1, <2>1, <2>2
  <1>4. NoTerm(a \o b, Len(a \o b) - 1)
    BY <1>1, <1>3 DEF NoTerm
  <1>5. NoTerm(b, Len(b)) => NoTerm(a \o b, Len(a \o b))
    BY <1>1, <1>3 DEF NoTerm
  <1> QED BY <1>1, <1>2, <1>4, <1>5

LEMMA LastJoined ==
  ASSUME NEW a \in Seq(Unit), NEW b \in Seq(Unit), b # <<>>
  PROVE  a \o b # <<>> /\ (a \o b)[Len(a \o b)] = b[Len(b)]
  <1>1. /\ Len(a) \in Nat /\ Len(b) \in Nat \ {0} /\ Len(a \o b) = Len(a) + Len(b)
        /\ (a \o b)[Len(a) + Len(b)] = b[Len(b)]
    OBVIOUS
  <1> QED BY <1>1

LEMMA ReadingClient == ASSUME Types, Line, Kept, Reading, Client PROVE Reading'
  <1> USE DEF BeginCall, EndCall, attrs, loop, clock, remote, result, device
  <1>0. /\ count \in Nat /\ want \in Nat
        /\ readData \in Seq(Unit) /\ returned \in Seq(Unit) /\ data \in Seq(Unit) /\ output \in Seq(Unit)
        /\ pc = "loop" => op = "read"
        /\ pc = "block" => op = "write"
        /\ pc # "wait" => reply = <<>> /\ InReply = <<>>
        /\ Len(readData) \in Nat
    BY DEF Types, Line, Queue, InReply
  (* Steps of another operation.                                           *)
  <1>1. ASSUME full' = full, ~ upset' => ~ upset, op' # "read"
        PROVE  Reading'
    BY <1>1 DEF Reading, Numbered, Collecting
  <1>2. ASSUME NEW n \in Counts, BeginRead(n) PROVE Reading'
    <2>1. n \in Nat
      BY ConstantsAssumption
    <2>2. /\ pc' = "loop" /\ op' = "read" /\ count' = n /\ want' = n
          /\ readData' = <<>> /\ UNCHANGED <<full, upset>>
      BY <1>2 DEF BeginRead, Kept
    <2>3. Collected'
      BY <2>1, <2>2 DEF Collected, NoTerm
    <2> QED BY <2>2, <2>3 DEF Reading, Numbered, Collecting
  <1>3. ASSUME NEW n \in Messages, BeginWrite(n) PROVE Reading'
    BY <1>1, <1>3 DEF BeginWrite
  <1>4. ASSUME NEW name \in Others, BeginOther(name) PROVE Reading'
    <2>1. name # "read"
      BY DEF Others, Timed
    <2> QED BY <1>1, <1>4, <2>1 DEF BeginOther
  <1>5. CASE RenUnsupported
    BY <1>1, <1>5 DEF RenUnsupported
  <1>6. CASE SetTimeout
    BY <1>0, <1>6 DEF SetTimeout, Reading, Numbered, Collecting, Explained, AllRead, EndsLine, NoTerm
  <1>7. CASE Close
    BY <1>1, <1>7 DEF Close
  <1>8. CASE Tick
    BY <1>8 DEF Tick, Reading, Numbered, Collecting, Collected, InReply, Asked, Brought, NoTerm
  (* A read that returns what it has collected, at a limit or an error.    *)
  <1>9. ASSUME pc \in {"loop", "wait"}, op = "read", UNCHANGED <<full, output, termEn, suppressEnd, want>>,
               ~ upset' => ~ upset, data' = readData, returned' = returned \o readData, pc' = "idle", InReply = <<>>,
               \/ outcome' = "max" /\ count = 0
               \/ outcome' \in {"timeout", "io"}
        PROVE  Reading'
    <2> SUFFICES ASSUME ~ upset PROVE Reading'
      BY <1>9 DEF Reading
    <2>1. Numbered /\ Collected
      BY <1>9 DEF Reading, Collecting
    <2>2. data' # <<>> => returned' # <<>> /\ returned'[Len(returned')] = data'[Len(data')]
      <3> SUFFICES ASSUME readData # <<>>
                   PROVE  returned' # <<>> /\ returned'[Len(returned')] = readData[Len(readData)]
        BY <1>9
      <3> QED BY <1>0, <1>9, LastJoined
    <2>3. termEn => NoTerm(data, Len(data) - 1)'
      BY <1>0, <1>9, <2>1 DEF Collected, NoTerm
    <2>4. AllRead' => suppressEnd
      BY <1>9, <2>1 DEF AllRead, Collected
    <2>5. EndsLine(data)' => ~ termEn
      BY <1>0, <1>9, <2>1 DEF EndsLine, Collected, NoTerm
    <2>6. count = 0 => Len(data') = want
      BY <1>0, <1>9, <2>1 DEF Collected
    <2>7. Explained'
      BY <1>9, <2>3, <2>4, <2>5, <2>6 DEF Explained
    <2> QED BY <1>9, <2>1, <2>2, <2>7 DEF Reading, Numbered, Collecting
  <1>10. CASE ReadEnd
    BY <1>0, <1>9, <1>10 DEF ReadEnd, Return
  <1>11. CASE ReadChunk
    <2> DEFINE howLong == IF Finite THEN Most(MinTimeout, Remaining) ELSE Infinite
               n == Least(count, MaxRecv)
    <2>1. /\ pc = "loop" /\ op = "read" /\ count > 0 /\ n \in Nat /\ n <= count
          /\ RemoteCall("read", n, termEn, howLong)
          /\ UNCHANGED <<op, count, want, readData, full, output, upset, termEn, suppressEnd>>
          /\ reply = <<>> /\ "read" \in Names /\ termEn \in BOOLEAN
      BY <1>0, <1>11, ConstantsAssumption DEF ReadChunk, Least, Names, Types
    <2> HIDE DEF n, howLong
    <2>2. /\ requests'[Len(requests')] = Request("read", n, termEn)
          /\ pc' = "wait" /\ reply' = <<>>
      BY <2>1, Adds
    <2>3. Request("read", n, termEn).flag = termEn /\ Request("read", n, termEn).n = n
      BY DEF Request
    <2>4. Asked'
      BY <2>1, <2>2, <2>3 DEF Asked
    <2>5. InReply' = InReply
      BY <2>1, <2>2 DEF InReply
    <2> QED BY <2>1, <2>2, <2>4, <2>5 DEF Reading, Numbered, Collecting, Collected, NoTerm
  <1>12. CASE ReadReply
    <2> DEFINE u == reply[1].units
               got == readData \o u
               left == count - Len(u)
               reason == reply[1].reason
    <2>1. /\ pc = "wait" /\ op = "read" /\ reply # <<>> /\ reply[1].error = "none" /\ reply' = <<>>
          /\ UNCHANGED <<full, output, upset, termEn, suppressEnd, want, op>>
          /\ u \in Seq(Unit) /\ Len(u) \in Nat
      BY <1>12, Says DEF ReadReply, Replied, Waiting
    <2> SUFFICES ASSUME ~ upset PROVE Reading'
      BY <2>1 DEF Reading
    <2>2. /\ Numbered /\ Collected /\ count > 0 /\ Brought
      BY <2>1 DEF Reading, Collecting
    <2>3. /\ u # <<>> /\ Len(u) <= count
          /\ "END" \in reason <=> output = <<>>
          /\ "CHR" \in reason <=> termEn /\ IsTerm(u[Len(u)])
          /\ termEn => NoTerm(u, Len(u) - 1)
      BY <2>2 DEF Brought
    <2>4. \/ /\ left <= 0 \/ reason \cap StopReason # {}
             /\ data' = got /\ returned' = returned \o got /\ pc' = "idle" /\ outcome' = ReadStatus(reason)
          \/ /\ ~ (left <= 0) /\ reason \cap StopReason = {}
             /\ readData' = got /\ count' = left /\ pc' = "loop"
      BY <1>12, Zenon DEF ReadReply, Return
    <2>5. /\ got \in Seq(Unit) /\ Len(got) = Len(readData) + Len(u) /\ Len(got) \in Nat
          /\ got # <<>> /\ got[Len(got)] = u[Len(u)]
      <3>1. /\ got \in Seq(Unit) /\ Len(got) = Len(readData) + Len(u) /\ Len(got) \in Nat
        BY <1>0, <2>1
      <3>2. Len(u) > 0
        BY <2>1, <2>3
      <3>3. got[Len(readData) + Len(u)] = u[Len(u)]
        BY <1>0, <2>1, <3>2
      <3> QED BY <1>0, <2>1, <3>1, <3>2, <3>3
    <2>6. termEn => NoTerm(got, Len(got) - 1) /\ (NoTerm(u, Len(u)) => NoTerm(got, Len(got)))
      BY <1>0, <2>1, <2>2, <2>3, TermsJoined DEF Collected
    <2>7. /\ suppressEnd => "CHR" \in reason \/ reason \cap StopReason = {}
          /\ "CHR" \in reason => reason \cap StopReason # {}
          /\ ~ suppressEnd /\ "END" \in reason => reason \cap StopReason # {}
          /\ ~ ("CHR" \in reason) /\ ~ ("END" \in reason) => reason \cap StopReason = {}
      BY DEF StopReason
    <2> HIDE DEF u, got, left, reason
    <2>8. CASE pc' = "idle"
      <3>1. /\ left <= 0 \/ reason \cap StopReason # {}
            /\ data' = got /\ returned' = returned \o got /\ outcome' = ReadStatus(reason)
        BY <2>4, <2>8
      <3>2. returned' # <<>> /\ returned'[Len(returned')] = data'[Len(data')]
        BY <1>0, <2>5, <3>1, LastJoined
      <3>3. AllRead' <=> output = <<>>
        BY <2>1, <2>5, <3>1 DEF AllRead
      <3>4. EndsLine(data)' <=> IsTerm(u[Len(u)])
        BY <2>5, <3>1 DEF EndsLine
      <3>5. termEn => NoTerm(data, Len(data) - 1)'
        BY <2>6, <3>1 DEF NoTerm
      <3>6. CASE ~ suppressEnd /\ "END" \in reason
        <4>1. outcome' = "success"
          BY <3>1, <3>6 DEF ReadStatus
        <4> QED BY <2>1, <2>2, <2>3, <2>8, <3>2, <3>3, <3>5, <3>6, <4>1 DEF Reading, Numbered, Collecting, Explained
      <3>7. CASE ~ (~ suppressEnd /\ "END" \in reason) /\ termEn /\ "CHR" \in reason
        <4>1. outcome' = "term"
          BY <3>1, <3>7 DEF ReadStatus
        <4> QED BY <2>1, <2>2, <2>3, <2>8, <3>2, <3>4, <3>5, <3>7, <4>1 DEF Reading, Numbered, Collecting, Explained
      <3>8. CASE ~ (~ suppressEnd /\ "END" \in reason) /\ ~ (termEn /\ "CHR" \in reason)
        <4>1. outcome' = "max"
          BY <3>1, <3>8, Zenon DEF ReadStatus
        <4>2. left <= 0
          BY <2>3, <2>7, <3>1, <3>8
        <4>3. Len(data') = want
          <5>1. Len(u) = count
            BY <1>0, <2>1, <2>3, <4>2 DEF left
          <5> QED BY <1>0, <2>2, <2>5, <3>1, <5>1 DEF Collected
        <4>4. AllRead' => suppressEnd
          BY <2>3, <3>3, <3>8
        <4> QED BY <2>1, <2>2, <2>8, <3>2, <3>5, <4>1, <4>3, <4>4 DEF Reading, Numbered, Collecting, Explained
      <3> QED BY <3>6, <3>7, <3>8
    <2>9. CASE pc' # "idle"
      <3>1. /\ ~ (left <= 0) /\ reason \cap StopReason = {}
            /\ readData' = got /\ count' = left /\ pc' = "loop"
        BY <2>4, <2>9
      <3>2. count' + Len(readData') = want
        <4>1. count' = count - Len(u)
          BY <3>1 DEF left
        <4>2. Len(readData') = Len(readData) + Len(u)
          BY <2>5, <3>1
        <4>3. Len(u) \in Nat /\ count + Len(readData) = want
          BY <2>1, <2>2 DEF Collected
        <4>4. count - Len(u) + (Len(readData) + Len(u)) = count + Len(readData)
          BY <1>0, <4>3
        <4> QED BY <4>1, <4>2, <4>3, <4>4
      <3>3. termEn => NoTerm(u, Len(u))
        <4> SUFFICES ASSUME termEn, NEW k \in 1..Len(u) PROVE ~ IsTerm(u[k])
          BY DEF NoTerm
        <4>1. ~ IsTerm(u[Len(u)])
          BY <2>3, <2>7, <3>1
        <4>2. k = Len(u) \/ k \in 1..Len(u) - 1
          BY <2>1
        <4> QED BY <2>3, <4>1, <4>2 DEF NoTerm
      <3>4. termEn => NoTerm(readData, Len(readData))'
        BY <2>6, <3>1, <3>3 DEF NoTerm
      <3>5. ~ suppressEnd => output # <<>>
        BY <2>3, <2>7, <3>1
      <3>6. Collected'
        BY <2>1, <3>2, <3>4, <3>5 DEF Collected
      <3> QED BY <2>1, <2>2, <3>1, <3>6 DEF Reading, Numbered, Collecting
    <2> QED BY <2>8, <2>9
  <1>13. CASE ReadError
    <2>1. InReply = <<>> /\ pc = "wait" /\ op = "read"
      BY <1>13 DEF ReadError, Replied, Waiting, Kept, InReply
    <2>2. outcome' \in {"timeout", "io"}
      BY <1>13 DEF ReadError, Return, Blame
    <2> QED BY <1>9, <1>13, <2>1, <2>2 DEF ReadError, Return
  <1>14. CASE ReadGivenUp
    <2>1. InReply = <<>> /\ pc = "wait" /\ op = "read"
      BY <1>14 DEF ReadGivenUp, GivenUp, Waiting, InReply
    <2>2. ~ upset' => ~ upset
      BY <1>14, Zenon DEF ReadGivenUp
    <2> QED BY <1>9, <1>14, <2>1, <2>2 DEF ReadGivenUp, Return
  <1>15. CASE WriteBlock
    BY <1>0, <1>1, <1>15 DEF WriteBlock
  <1>16. CASE WriteEnd
    BY <1>0, <1>1, <1>16 DEF WriteEnd
  <1>17. CASE WriteReply
    <2>1. ~ upset' => ~ upset
      BY <1>17, Zenon DEF WriteReply, WriteStops
    <2> QED BY <1>1, <1>17, <2>1 DEF WriteReply, Replied, Waiting
  <1>18. CASE WriteGivenUp
    <2>1. op' = "write" /\ full' = full
      BY <1>18 DEF WriteGivenUp, Waiting
    <2>2. ~ upset' => ~ upset
      BY <1>18, Zenon DEF WriteGivenUp
    <2> QED BY <1>1, <2>1, <2>2
  <1>19. CASE OtherReply
    <2>1. op' # "read" /\ full' = full
      BY <1>19 DEF OtherReply, Others, Timed
    <2>2. CASE op = "clear" /\ reply[1].error = "none"
      <3>1. full' = <<>>
        BY <1>19, <2>1, <2>2 DEF OtherReply, Replied, Kept
      <3> QED BY <2>1, <3>1 DEF Reading, Numbered, Collecting
    <2>3. CASE ~ (op = "clear" /\ reply[1].error = "none")
      <3>1. ~ upset' => ~ upset
        BY <1>19, <2>3, Zenon DEF OtherReply
      <3> QED BY <1>1, <2>1, <3>1
    <2> QED BY <2>2, <2>3
  <1>20. CASE OtherGivenUp
    <2>1. op' # "read" /\ full' = full
      BY <1>20 DEF OtherGivenUp, Others, Timed
    <2>2. ~ upset' => ~ upset
      BY <1>20, Zenon DEF OtherGivenUp
    <2> QED BY <1>1, <2>1, <2>2
  <1>21. CASE CloseEnd
    BY <1>1, <1>21 DEF CloseEnd, Waiting
  <1>22. CASE Send
    BY <1>22 DEF Send, Reading, Numbered, Collecting, Collected, InReply, Asked, Brought, NoTerm
  <1> QED BY <1>2, <1>3, <1>4, <1>5, <1>6, <1>7, <1>8, <1>10, <1>11, <1>12, <1>13, <1>14, <1>15, <1>16,
             <1>17, <1>18, <1>19, <1>20, <1>21, <1>22 DEF Client, CallStep

LEMMA ReadingDevice == ASSUME Types, Line, Kept, Reading, Device PROVE Reading'
  <1>0. /\ count \in Nat /\ <<>> \in Seq(Unit) /\ {} \in SUBSET {"CHR", "END", "REQCNT"} /\ 0 \in Nat
    BY DEF Types
  <1>1. requests # <<>> =>
           /\ reply = <<>> /\ InReply = <<>>
           /\ Head(requests).live => op = Head(requests).name /\ pc = "wait"
           /\ ~ upset /\ Head(requests).name \in {"read", "write", "clear"} => Head(requests).live
    BY Foremost
  (* Replies that bring a read nothing.                                    *)
  <1>2. ASSUME requests # <<>>, NEW error \in Errors, NEW n \in Nat, Reply(error, n, <<>>, {}),
               ~ upset => Numbered',
               ~ upset /\ op = "read" => UNCHANGED <<returned, output>>,
               Head(requests).live => op # "read" \/ error # "none"
        PROVE  Reading'
    <2>1. /\ UNCHANGED <<pc, op, want, count, readData, outcome, data, upset, termEn, suppressEnd>>
      BY <1>2, ReplyStill DEF Still
    <2> SUFFICES ASSUME ~ upset, op = "read" PROVE Reading'
      BY <1>2, <2>1 DEF Reading, Collecting
    <2>2. /\ Head(requests).live => reply' # <<>> /\ reply'[1].error # "none" /\ reply'[1].units = <<>>
          /\ ~ Head(requests).live => reply' = <<>>
      BY <1>0, <1>1, <1>2, Answered
    <2>3. InReply' = <<>> /\ InReply = <<>>
      BY <1>1, <1>2, <2>2 DEF InReply
    <2>4. Collecting => Collected'
      BY <1>2, <2>1, <2>3 DEF Reading, Collected, NoTerm
    <2>5. pc = "wait" /\ reply' = <<>> => Asked'
      <3>1. pc = "wait" /\ ~ Head(requests).live => requests'[Len(requests')] = requests[Len(requests)]
        BY <1>0, <1>2, LastStays
      <3> QED BY <1>1, <1>2, <2>1, <2>2, <3>1 DEF Reading, Collecting, Asked
    <2> QED BY <1>2, <2>1, <2>2, <2>4, <2>5 DEF Reading, Numbered, Collecting, Explained, AllRead, EndsLine, NoTerm
  <1>3. CASE DeviceRead
    <2>1. PICK n \in 1..Len(output) :
            /\ n <= Head(requests).n
            /\ Head(requests).flag => \A k \in 1..n-1 : ~ IsTerm(output[k])
            /\ output' = SubSeq(output, n + 1, Len(output))
            /\ SubSeq(output, 1, n) \in Seq(Unit) /\ SubSeq(output, n + 1, Len(output)) \in Seq(Unit)
            /\ Cause(n) \in SUBSET {"CHR", "END", "REQCNT"}
            /\ Reply("none", n, SubSeq(output, 1, n), Cause(n))
      BY <1>3, Gives
    <2> DEFINE u == SubSeq(output, 1, n)
    <2>2. /\ requests # <<>> /\ Head(requests).name = "read" /\ UNCHANGED <<returned, full>>
          /\ n \in Nat \ {0} /\ "none" \in Errors /\ output \in Seq(Unit) /\ Len(output) \in Nat
      BY <1>3 DEF DeviceRead, Executes, AtDevice, Types, Errors
    <2>3. /\ UNCHANGED <<pc, op, want, count, readData, outcome, data, upset, termEn, suppressEnd>>
      BY <2>1, ReplyStill DEF Still
    <2> SUFFICES ASSUME ~ upset PROVE Reading'
      BY <2>3 DEF Reading
    <2>4. /\ Head(requests).live /\ op = "read" /\ pc = "wait" /\ Head(requests) = requests[Len(requests)]
      BY <2>2, Foremost
    <2>5. reply' # <<>> /\ reply'[1].error = "none" /\ reply'[1].units = u /\ reply'[1].reason = Cause(n)
      BY <2>1, <2>2, <2>4, Answered
    <2>6. Numbered /\ Collected /\ count > 0 /\ Head(requests).flag = termEn /\ Head(requests).n <= count
      BY <1>1, <2>2, <2>4 DEF Reading, Collecting, Asked
    <2>7. /\ Len(u) = n /\ u # <<>> /\ u[n] = output[n]
          /\ \A k \in 1..n-1 : u[k] = output[k]
      <3>1. \A i \in 1..n : output[i] \in Unit
        BY <2>2
      <3>2. Len(u) = n /\ \A i \in 1..n : u[i] = output[i]
        BY <2>2
      <3> QED BY <2>2, <3>2
    <2>8. output' = <<>> <=> n = Len(output)
      <3>1. Len(output') = Len(output) - n
        BY <2>1, <2>2
      <3>2. output' \in Seq(Unit)
        BY <2>1
      <3>3. output' = <<>> <=> Len(output') = 0
        BY <3>2
      <3> QED BY <2>2, <3>1, <3>3
    <2>9. /\ "END" \in Cause(n) <=> n = Len(output)
          /\ "CHR" \in Cause(n) <=> Head(requests).flag /\ IsTerm(output[n])
      BY DEF Cause
    <2>10. Brought'
      <3>1. /\ "END" \in reply'[1].reason <=> output' = <<>>
            /\ "CHR" \in reply'[1].reason <=> termEn' /\ IsTerm(u[Len(u)])
        BY <2>3, <2>5, <2>6, <2>7, <2>8, <2>9
      <3>2. n <= count
        <4>1. Head(requests).n \in Nat
          BY <2>2, Foremost DEF Sent
        <4> QED BY <1>0, <2>1, <2>2, <2>6, <4>1
      <3>3. termEn => NoTerm(u, Len(u) - 1)
        BY <2>1, <2>6, <2>7 DEF NoTerm
      <3> HIDE DEF u
      <3> QED BY <2>3, <2>5, <2>7, <3>1, <3>2, <3>3 DEF Brought, NoTerm
    <2>11. InReply' # <<>>
      BY <2>3, <2>4, <2>5, <2>7 DEF InReply
    <2>12. Collected'
      BY <2>3, <2>6, <2>11 DEF Collected, NoTerm
    <2> QED BY <2>2, <2>3, <2>4, <2>5, <2>6, <2>10, <2>12 DEF Reading, Numbered, Collecting
  <1>4. CASE DeviceWrite
    <2>1. PICK n \in 0..Head(requests).n :
            /\ Reply("none", n, <<>>, {})
            /\ \/ \E k \in Responses : full' = [i \in 1..k |-> <<calls, i>>]
               \/ full' = full
      BY <1>4 DEF DeviceWrite
    <2>2. requests # <<>> /\ Head(requests).name = "write" /\ Head(requests) \in Sent /\ "none" \in Errors
      BY <1>4 DEF DeviceWrite, Executes, AtDevice, Types, Errors
    <2>3. n \in Nat
      BY <2>2 DEF Sent
    <2>4. ~ upset => op = "write"
      BY <1>1, <2>2
    <2>5. ~ upset => Numbered'
      <3>1. ASSUME NEW k \in Responses, full' = [i \in 1..k |-> <<calls, i>>]
            PROVE  Numbered'
        <4>1. k \in Nat /\ Len(full') = k /\ \A i \in 1..k : full'[i] = <<calls, i>>
          BY <3>1, ConstantsAssumption
        <4> QED BY <4>1 DEF Numbered
      <3>2. full' = full /\ Numbered => Numbered'
        BY DEF Numbered
      <3> QED BY <2>1, <3>1, <3>2 DEF Reading
    <2> QED BY <1>1, <1>2, <2>1, <2>2, <2>3, <2>4, <2>5
  <1>5. CASE DeviceClear
    <2>1. requests # <<>> /\ Head(requests).name = "clear" /\ Reply("none", 0, <<>>, {})
          /\ full' = <<>> /\ "none" \in Errors
      BY <1>5 DEF DeviceClear, Executes, AtDevice, Errors
    <2>2. Numbered'
      BY <2>1 DEF Numbered
    <2>3. (~ upset => op # "read") /\ (Head(requests).live => op # "read")
      BY <1>1, <2>1
    <2> QED BY <1>0, <1>2, <2>1, <2>2, <2>3
  <1>6. ASSUME requests # <<>>, NEW error \in Errors, Reply(error, 0, <<>>, {}), UNCHANGED <<full, returned, output>>,
               Head(requests).name # "read" \/ error # "none"
        PROVE  Reading'
    <2>1. ~ upset => Numbered'
      BY <1>6 DEF Reading, Numbered
    <2> QED BY <1>0, <1>1, <1>2, <1>6, <2>1
  <1>7. CASE DeviceLock
    BY <1>6, <1>7 DEF DeviceLock, Executes, AtDevice, Errors
  <1>8. CASE DeviceOther
    BY <1>6, <1>8 DEF DeviceOther, Executes, AtDevice, Errors, device
  <1>9. CASE DeviceDestroy
    BY <1>6, <1>9 DEF DeviceDestroy, Executes, AtDevice, Errors
  <1>10. CASE DeviceRefuses
    <2>1. PICK error \in Errors : Reply(error, 0, <<>>, {}) /\ error # "none"
      BY <1>10 DEF DeviceRefuses, AtDevice, Errors
    <2> QED BY <1>6, <1>10, <2>1 DEF DeviceRefuses, AtDevice, device
  <1>11. CASE OtherClient
    BY <1>11 DEF OtherClient, Reading, Numbered, Collecting, Collected, Explained, AllRead, EndsLine, Asked,
       Brought, NoTerm, InReply, attrs, loop, remote, result
  <1> QED BY <1>3, <1>4, <1>5, <1>7, <1>8, <1>9, <1>10, <1>11 DEF Device

(* After a read the data is all of the response that was left if and only  *)
(* if nothing is left, since the units of a response differ.               *)
LEMMA LastOfAll ==
  ASSUME NEW r \in Seq(Unit), NEW o \in Seq(Unit), NEW f \in Seq(Unit), r # <<>>, f = r \o o,
         \A i \in 1..Len(f) : f[i][2] = i
  PROVE  r[Len(r)] = f[Len(f)] <=> o = <<>>
  <1>1. /\ Len(r) \in Nat \ {0} /\ Len(o) \in Nat /\ Len(f) = Len(r) + Len(o) /\ f[Len(r)] = r[Len(r)]
        /\ o = <<>> <=> Len(o) = 0
    OBVIOUS
  <1>2. Len(r) \in 1..Len(f) /\ Len(f) \in 1..Len(f)
    BY <1>1
  <1>3. f[Len(r)][2] = Len(r) /\ f[Len(f)][2] = Len(f)
    BY <1>2
  <1> QED BY <1>1, <1>3

LEMMA ReadingExplains == ASSUME Types, Line, Kept, Reading PROVE StatusExplains
  <1> SUFFICES ASSUME ~ upset, op = "read", pc = "idle" PROVE StatusExplains
    BY DEF StatusExplains
  <1>1. /\ returned \in Seq(Unit) /\ output \in Seq(Unit) /\ full \in Seq(Unit) /\ data \in Seq(Unit)
        /\ readData = <<>> /\ reply = <<>> /\ InReply = <<>> /\ <<>> \in Seq(Unit)
    BY DEF Types, Kept, Line, Queue, InReply
  <1>2. Numbered /\ Explained /\ (data # <<>> => returned # <<>> /\ returned[Len(returned)] = data[Len(data)])
    BY DEF Reading
  <1>3. full = returned \o output
    <2>1. full = Whole4(returned, <<>>, <<>>, output)
      BY <1>1, KeptIs DEF Kept
    <2>2. returned \o <<>> = returned /\ (returned \o <<>>) \o <<>> = returned
      BY <1>1, ConcatEmptySeq
    <2> QED BY <2>1, <2>2, Zenon DEF Whole4
  <1>4. data # <<>> => (data[Len(data)] = full[Len(full)] <=> output = <<>>)
    <2> SUFFICES ASSUME data # <<>> PROVE data[Len(data)] = full[Len(full)] <=> output = <<>>
      OBVIOUS
    <2>1. returned # <<>> /\ returned[Len(returned)] = data[Len(data)]
      BY <1>2
    <2>2. returned[Len(returned)] = full[Len(full)] <=> output = <<>>
      BY <1>1, <1>2, <1>3, <2>1, LastOfAll DEF Numbered
    <2> QED BY <2>1, <2>2
  <1>5. AllRead <=> (data # <<>> /\ data[Len(data)] = full[Len(full)])
    BY <1>4 DEF AllRead
  <1> QED BY <1>2, <1>5, Zenon DEF StatusExplains, Explained, EndsLine, NoTerm

(* The status of a read tells why it ended (read(), _read_status_from_     *)
(* reason, tcpip.py): END is reported at the end of the response and only  *)
(* there, the termination character when the data ends with it, the rest   *)
(* when all that was asked for is there; and no read goes past one of them.*)
THEOREM Status_explains == Spec => []StatusExplains
  <1>1. Init => Types /\ Line /\ Kept /\ Reading
    <2> SUFFICES ASSUME Init PROVE Reading
      BY LineInit, KeptInit
    <2>1. full = <<>> /\ op = "none"
      BY DEF Init
    <2>2. Numbered
      BY <2>1 DEF Numbered
    <2> QED BY <2>1, <2>2 DEF Reading, Collecting
  <1>2. Types /\ Line /\ Kept /\ Reading /\ [Next]_vars => (Types /\ Line /\ Kept /\ Reading)'
    <2> SUFFICES ASSUME Types, Line, Kept, Reading, [Next]_vars PROVE Reading'
      BY TypesNext, LineNext, KeptNext
    <2>1. CASE UNCHANGED vars
      BY <2>1 DEF vars, attrs, loop, remote, result, device, Reading, Numbered, Collecting, Collected, Explained,
         AllRead, EndsLine, Asked, Brought, NoTerm, InReply
    <2> QED BY <2>1, ReadingClient, ReadingDevice, NextIs
  <1>3. Types /\ Line /\ Kept /\ Reading => StatusExplains
    BY ReadingExplains
  <1> QED BY <1>1, <1>2, <1>3, PTL DEF Spec

-----------------------------------------------------------------------------
(* What makes the loops of remote calls come to an end, upset or not: a    *)
(* read that is answered without an error gets something, and a write is   *)
(* told of no more than the block it has sent.                             *)
InBlock ==
    pc = "wait" /\ op = "write" =>
        /\ offset < size
        /\ reply = <<>> => requests[Len(requests)].n = Block
        /\ reply # <<>> => reply[1].n <= Block

Gains == reply # <<>> /\ op = "read" /\ reply[1].error = "none" => reply[1].units # <<>>

Steady == offset <= size /\ InBlock /\ Gains

LEMMA SteadyClient == ASSUME Types, Line, Steady, Client PROVE Steady'
  <1> USE DEF BeginCall, EndCall, attrs, loop, clock, remote, result, device
  <1>1. ASSUME reply' = <<>> \/ pc # "wait", reply' # <<>> => reply' = reply, offset' <= size',
               pc' # "wait" \/ op' # "write"
        PROVE  Steady'
    BY <1>1 DEF Line, Queue, Steady, InBlock, Gains
  <1>2. ASSUME NEW n \in Counts, BeginRead(n) PROVE Steady'
    BY <1>1, <1>2 DEF BeginRead
  <1>3. ASSUME NEW n \in Messages, BeginWrite(n) PROVE Steady'
    BY <1>1, <1>3, ConstantsAssumption DEF BeginWrite
  <1>4. ASSUME NEW name \in Others, BeginOther(name) PROVE Steady'
    <2>1. op' = name /\ name # "write" /\ reply' = reply /\ pc = "idle" /\ offset' = offset /\ size' = size
      BY <1>4 DEF BeginOther, RemoteCall, Others, Timed
    <2> QED BY <1>1, <2>1 DEF Steady
  <1>5. CASE RenUnsupported
    BY <1>1, <1>5 DEF RenUnsupported, Steady
  <1>6. CASE SetTimeout
    BY <1>1, <1>6 DEF SetTimeout, Steady
  <1>7. CASE Close
    <2>1. op' = "destroy" /\ reply' = reply /\ pc = "idle" /\ offset' = offset /\ size' = size
      BY <1>7 DEF Close, RemoteCall
    <2> QED BY <1>1, <2>1 DEF Steady
  <1>8. CASE Tick
    BY <1>8 DEF Tick, Steady, InBlock, Gains, Block
  <1>9. CASE ReadEnd
    BY <1>1, <1>9 DEF ReadEnd, Return, Steady
  <1>10. CASE ReadChunk
    <2>1. op' = "read" /\ reply' = reply /\ pc = "loop" /\ offset' = offset /\ size' = size
      BY <1>10 DEF ReadChunk, RemoteCall, Line, Queue
    <2> QED BY <1>1, <2>1 DEF Steady
  <1>11. CASE ReadReply \/ ReadError
    <2>1. pc' \in {"idle", "loop"} /\ reply' = <<>> /\ offset' = offset /\ size' = size
      BY <1>11 DEF ReadReply, ReadError, Return
    <2> QED BY <1>1, <2>1 DEF Steady
  <1>12. CASE ReadGivenUp
    BY <1>1, <1>12 DEF ReadGivenUp, Return, GivenUp, Steady
  <1>13. CASE WriteBlock
    <2>1. /\ pc = "block" /\ pc' = "wait" /\ op' = "write" /\ op = "write" /\ offset < size
          /\ UNCHANGED <<offset, size>> /\ reply' = reply /\ reply = <<>>
      BY <1>13 DEF WriteBlock, RemoteCall, Line, Queue
    <2>2. Block \in Nat /\ IsLast(size - offset) \in BOOLEAN /\ "write" \in Names
      BY <2>1, Blocks DEF Names
    <2>3. RemoteCall("write", Block, IsLast(size - offset), timeout)
      BY <1>13 DEF WriteBlock, Block
    <2>4. requests'[Len(requests')] = Request("write", Block, IsLast(size - offset))
      BY <2>2, <2>3, Adds
    <2>5. requests'[Len(requests')].n = Block /\ Block' = Block
      BY <2>1, <2>4 DEF Request, Block
    <2> QED BY <2>1, <2>5 DEF Steady, InBlock, Gains
  <1>14. CASE WriteEnd
    BY <1>1, <1>14 DEF WriteEnd, Steady
  <1>15. CASE WriteReply
    <2>1. /\ pc = "wait" /\ op = "write" /\ reply # <<>> /\ reply' = <<>> /\ size' = size
          /\ pc' \in {"idle", "block"} /\ (offset' = offset \/ offset' = offset + reply[1].n)
      BY <1>15 DEF WriteReply, Replied, Waiting, WriteStops
    <2>2. offset < size /\ reply[1].n <= Block
      BY <2>1 DEF Steady, InBlock
    <2>3. offset + Block <= size /\ Block \in Nat /\ reply[1].n \in Nat /\ offset \in Nat /\ size \in Nat
      BY <2>1, <2>2, Blocks, Says DEF Types
    <2>4. offset' <= size'
      BY ONLY <2>1, <2>2, <2>3
    <2> QED BY <1>1, <2>1, <2>4
  <1>16. CASE WriteGivenUp
    BY <1>1, <1>16 DEF WriteGivenUp, GivenUp, Steady
  <1>17. CASE OtherReply
    BY <1>1, <1>17 DEF OtherReply, Steady
  <1>18. CASE OtherGivenUp
    BY <1>1, <1>18 DEF OtherGivenUp, GivenUp, Steady
  <1>19. CASE CloseEnd
    BY <1>1, <1>19 DEF CloseEnd, GivenUp, Steady
  <1>20. CASE Send
    BY <1>20 DEF Send, Steady, InBlock, Gains, Block
  <1> QED BY <1>2, <1>3, <1>4, <1>5, <1>6, <1>7, <1>8, <1>9, <1>10, <1>11, <1>12, <1>13,
             <1>14, <1>15, <1>16, <1>17, <1>18, <1>19, <1>20 DEF CallStep, Client

(* What a reply of the device says of the request it answers.              *)
Fitting(error, n, units) ==
    Head(requests).live =>
        /\ op = "write" => n <= Head(requests).n
        /\ op = "read" /\ error = "none" => units # <<>>

LEMMA SteadyAnswer ==
  ASSUME Types, Line, Steady, requests # <<>>,
         NEW error \in Errors, NEW n \in Nat, NEW units \in Seq(Unit),
         NEW reason \in SUBSET {"CHR", "END", "REQCNT"}, Reply(error, n, units, reason),
         Fitting(error, n, units)
  PROVE  Steady'
  <1>1. UNCHANGED <<pc, op, offset, size>> /\ Block' = Block
    BY ReplyStill DEF Still, Block
  <1>2. CASE Head(requests).live
    <2>1. /\ reply = <<>> /\ Head(requests) = requests[1] /\ Len(requests) = 1 /\ pc = "wait"
          /\ reply' # <<>> /\ reply'[1].error = error /\ reply'[1].n = n /\ reply'[1].units = units
      BY <1>2, Foremost, Answered
    <2>2. op = "write" => offset < size /\ Head(requests).n = Block
      BY <2>1 DEF Steady, InBlock
    <2> QED BY <1>1, <1>2, <2>1, <2>2 DEF Fitting, Steady, InBlock, Gains
  <1>3. CASE ~ Head(requests).live
    <2>1. reply = <<>> /\ reply' = <<>>
      BY <1>3, Foremost, Answered
    <2>2. pc = "wait" => requests'[Len(requests')] = requests[Len(requests)]
      BY <1>3, LastStays
    <2> QED BY <1>1, <2>1, <2>2 DEF Steady, InBlock, Gains
  <1> QED BY <1>2, <1>3

LEMMA SteadyDevice == ASSUME Types, Line, Steady, Device PROVE Steady'
  <1>1. <<>> \in Seq(Unit) /\ {} \in SUBSET {"CHR", "END", "REQCNT"} /\ 0 \in Nat
    OBVIOUS
  <1>2. requests # <<>> /\ Head(requests).live => op = Head(requests).name /\ Head(requests).n \in Nat
    BY Foremost DEF Sent
  (* Everything but a device_read and a device_write.                      *)
  <1>3. ASSUME requests # <<>>, NEW error \in Errors, Reply(error, 0, <<>>, {}),
               error = "none" => Head(requests).name # "read"
        PROVE  Steady'
    <2>1. Fitting(error, 0, <<>>)
      BY <1>2, <1>3 DEF Fitting
    <2> QED BY <1>1, <1>3, <2>1, SteadyAnswer
  <1>4. CASE DeviceRead
    <2>1. PICK n \in 1..Len(output) :
            /\ SubSeq(output, 1, n) \in Seq(Unit)
            /\ Cause(n) \in SUBSET {"CHR", "END", "REQCNT"}
            /\ Reply("none", n, SubSeq(output, 1, n), Cause(n))
      BY <1>4, Gives
    <2>2. n \in Nat \ {0} /\ "none" \in Errors /\ output \in Seq(Unit)
      BY DEF Types, Errors
    <2>3. requests # <<>> /\ Head(requests).name = "read"
      BY <1>4 DEF DeviceRead, Executes, AtDevice
    <2>4. SubSeq(output, 1, n) # <<>>
      <3>1. Len(SubSeq(output, 1, n)) = n
        BY <2>1, <2>2
      <3> QED BY <2>2, <3>1
    <2>5. Fitting("none", n, SubSeq(output, 1, n))
      BY <1>2, <2>3, <2>4 DEF Fitting
    <2> QED BY <2>1, <2>2, <2>3, <2>5, SteadyAnswer
  <1>5. CASE DeviceWrite
    <2>1. PICK n \in 0..Head(requests).n : Reply("none", n, <<>>, {})
      BY <1>5 DEF DeviceWrite
    <2>2. requests # <<>> /\ Head(requests).name = "write" /\ Head(requests) \in Sent /\ "none" \in Errors
      BY <1>5 DEF DeviceWrite, Executes, AtDevice, Types, Errors
    <2>3. n \in Nat /\ n <= Head(requests).n
      BY <2>2 DEF Sent
    <2>4. Fitting("none", n, <<>>)
      BY <1>2, <2>2, <2>3 DEF Fitting
    <2> QED BY <1>1, <2>1, <2>2, <2>3, <2>4, SteadyAnswer
  <1>6. CASE DeviceClear
    BY <1>3, <1>6 DEF DeviceClear, Executes, AtDevice, Errors
  <1>7. CASE DeviceLock
    BY <1>3, <1>7 DEF DeviceLock, Executes, AtDevice, Errors
  <1>8. CASE DeviceOther
    BY <1>3, <1>8 DEF DeviceOther, Executes, AtDevice, Errors
  <1>9. CASE DeviceDestroy
    BY <1>3, <1>9 DEF DeviceDestroy, Executes, AtDevice, Errors
  <1>10. CASE DeviceRefuses
    <2>1. PICK error \in Errors : Reply(error, 0, <<>>, {}) /\ error # "none"
      BY <1>10 DEF DeviceRefuses, AtDevice, Errors
    <2> QED BY <1>3, <1>10, <2>1 DEF DeviceRefuses, AtDevice
  <1>11. CASE OtherClient
    BY <1>11 DEF OtherClient, Steady, InBlock, Gains, Block, loop, remote
  <1> QED BY <1>4, <1>5, <1>6, <1>7, <1>8, <1>9, <1>10, <1>11 DEF Device

LEMMA SteadyNext == ASSUME Types, Line, Steady, [Next]_vars PROVE Steady'
  <1>1. CASE UNCHANGED vars
    BY <1>1 DEF vars, loop, remote, Steady, InBlock, Gains, Block
  <1> QED BY <1>1, SteadyClient, SteadyDevice, NextIs

(* What a step of a call that does not end it does.                        *)
LEMMA CallStepAdvances == ASSUME Types, Line, Steady, CallStep \/ Tick \/ Send PROVE Advances
  <1> USE DEF EndCall, loop, clock
  <1>0. count \in Nat /\ size \in Nat /\ offset \in Nat /\ offset <= size
    BY DEF Types, Steady
  <1>1. CASE pc' \in {"idle", "closed"}
    BY <1>1 DEF Advances
  <1>2. CASE ReadEnd \/ ReadError \/ ReadGivenUp \/ WriteEnd \/ WriteGivenUp \/ OtherReply \/ OtherGivenUp
             \/ CloseEnd
    BY <1>1, <1>2 DEF ReadEnd, ReadError, ReadGivenUp, WriteEnd, WriteGivenUp, OtherReply, OtherGivenUp,
                     CloseEnd, Return
  <1>3. CASE ReadChunk \/ WriteBlock
    <2>1. pc # "wait" /\ pc' = "wait" /\ UNCHANGED <<count, size, offset>>
      BY <1>3 DEF ReadChunk, WriteBlock, RemoteCall
    <2> QED BY <2>1 DEF Advances, Left
  <1>4. CASE ReadReply
    <2>1. reply # <<>> /\ op = "read" /\ reply[1].error = "none" /\ UNCHANGED <<size, offset>>
      BY <1>4 DEF ReadReply, Replied, Waiting
    <2>2. reply[1].units # <<>> /\ reply[1].units \in Seq(Unit)
      BY <2>1, Says DEF Steady, Gains
    <2>3. Len(reply[1].units) \in Nat \ {0}
      BY <2>2
    <2>4. \/ pc' = "idle"
          \/ count' = count - Len(reply[1].units) /\ ~ (count' <= 0)
      BY <1>4 DEF ReadReply, Return
    <2>5. CASE count' = count - Len(reply[1].units) /\ ~ (count' <= 0)
      <3>1. Left' \in 0..Left - 1
        BY ONLY <1>0, <2>1, <2>3, <2>5 DEF Left
      <3> QED BY <3>1 DEF Advances
    <2> QED BY <1>1, <2>4, <2>5
  <1>5. CASE WriteReply
    <2>1. /\ pc = "wait" /\ op = "write" /\ reply # <<>> /\ UNCHANGED <<count, size>>
          /\ pc' = "idle" \/ (~ Refused /\ offset' = offset + reply[1].n)
      BY <1>5 DEF WriteReply, Replied, Waiting, WriteStops
    <2>2. offset < size /\ reply[1].n <= Block
      BY <2>1 DEF Steady, InBlock
    <2>3. Block \in Nat \ {0} /\ offset + Block <= size /\ reply[1].n \in Nat
      BY <2>1, <2>2, Blocks, Says
    <2>4. CASE ~ Refused /\ offset' = offset + reply[1].n
      <3>1. reply[1].n >= Block
        BY <2>3, <2>4 DEF Refused
      <3>2. Left' \in 0..Left - 1
        BY ONLY <1>0, <2>1, <2>2, <2>3, <2>4, <3>1 DEF Left
      <3> QED BY <3>2 DEF Advances
    <2> QED BY <1>1, <2>1, <2>4
  <1>6. CASE Tick
    <2>1. /\ pc = "wait" /\ pc' = "wait" /\ UNCHANGED <<count, size, offset, patience, unsent, requests>>
          /\ patience # Infinite /\ waited < patience + Slack /\ waited' = waited + 1
      BY <1>6 DEF Tick, remote
    <2>2. waited \in Nat /\ patience \in Nat /\ Slack \in Nat
      BY <2>1, ConstantsAssumption DEF Types, Clocked
    <2>3. waited < waited' /\ waited' <= patience + Slack
      BY ONLY <2>1, <2>2
    <2> QED BY <2>1, <2>3 DEF Advances, Left
  <1>7. CASE Send
    <2>1. /\ pc = "wait" /\ pc' = "wait" /\ UNCHANGED <<count, size, offset, patience, requests>>
          /\ unsent /\ ~ unsent'
      BY <1>7 DEF Send, remote
    <2> QED BY <2>1 DEF Advances, Left
  <1> QED BY <1>2, <1>3, <1>4, <1>5, <1>6, <1>7 DEF CallStep

(* The device, its other client and whoever begins no call undo nothing.   *)
LEMMA OthersAdvance ==
  ASSUME Types, Next, ~ (CallStep \/ Tick \/ Send), pc # "idle"
  PROVE  /\ UNCHANGED <<pc, Left, patience, unsent>>
         /\ UNCHANGED <<waited, requests>> \/ Len(requests') < Len(requests)
  <1>1. Executed \/ OtherClient
    <2>1. Device
      BY NextIs DEF Client, BeginRead, BeginWrite, BeginOther, RenUnsupported, SetTimeout, Close, BeginCall
    <2> QED BY <2>1, DeviceKinds
  <1>2. CASE Executed
    <2>1. Still
      BY <1>2, ReplyStill DEF Executed
    <2>2. Len(requests') = Len(requests) - 1 /\ Len(requests) \in Nat
      BY <1>2, Answered DEF Executed
    <2> QED BY <2>1, <2>2 DEF Still, Left
  <1>3. CASE OtherClient
    BY <1>3 DEF OtherClient, loop, clock, remote, Left
  <1> QED BY <1>1, <1>2, <1>3

(* Every step of a read or a write ends it, leaves fewer units to be done, *)
(* makes the next remote call, sends its request or uses up some of the    *)
(* time it has for it, of which there is an end.  The device undoes none   *)
(* of that: if a late reply makes the wait begin anew, there is one request*)
(* less that can.  So the loops of read() and write() (tcpip.py) and of    *)
(* do_call() (rpc.py) come to an end, whatever the device answers, whatever*)
(* the sizes and whatever happened before.                                 *)
THEOREM Calls_advance == Spec => CallsAdvance
  <1> DEFINE Step == IF CallStep \/ Tick \/ Send THEN Advances
                     ELSE pc # "idle" => /\ UNCHANGED <<pc, Left, patience, unsent>>
                                         /\ UNCHANGED <<waited, requests>> \/ Len(requests') < Len(requests)
  <1>1. Init => Types /\ Line /\ Steady
    <2> SUFFICES ASSUME Init PROVE Types /\ Line /\ Steady
      OBVIOUS
    <2>1. offset = 0 /\ size = 0 /\ pc = "idle" /\ reply = <<>>
      BY DEF Init
    <2>2. Steady
      BY ONLY <2>1 DEF Steady, InBlock, Gains
    <2> QED BY <2>2, LineInit
  <1>2. Types /\ Line /\ Steady /\ [Next]_vars => (Types /\ Line /\ Steady)'
    BY TypesNext, LineNext, SteadyNext
  <1>3. Types /\ Line /\ Steady /\ [Next]_vars => [Step]_vars
    BY CallStepAdvances, OthersAdvance
  <1> QED BY <1>1, <1>2, <1>3, PTL DEF Spec, CallsAdvance

-----------------------------------------------------------------------------
(* How much of a write the device has accepted, and how much of that the   *)
(* write knows of, upset or not.                                           *)
Heard == IF reply = <<>> \/ reply[1].error # "none" THEN 0 ELSE reply[1].n

Counting ==
    op = "write" =>
        /\ offset <= accepted /\ accepted <= offset + MaxRecv
        /\ pc = "block" => accepted = offset
        /\ pc = "wait" => accepted = offset + Heard
        /\ pc # "idle" => outcome = "none"
        /\ outcome = "success" => accepted = size

LEMMA CountingClient == ASSUME Types, Line, Steady, Counting, Client PROVE Counting'
  <1> USE DEF BeginCall, EndCall, loop, remote, result, device
  <1>0. /\ size \in Nat /\ offset \in Nat /\ accepted \in Nat /\ MaxRecv \in Nat \ {0} /\ offset <= size
        /\ pc = "loop" => op = "read"
        /\ pc = "block" => op = "write"
        /\ pc \notin {"idle", "loop", "block"} => pc \in {"wait", "closed"}
    BY ConstantsAssumption DEF Types, Line, Queue, Steady
  (* Steps of another operation, and a write that ends without success.    *)
  <1>1. ASSUME op' # "write" PROVE Counting'
    BY <1>1 DEF Counting
  <1>2. ASSUME op = "write", UNCHANGED <<op, offset, accepted>>, pc' = "idle", outcome' # "success"
        PROVE  Counting'
    BY <1>2 DEF Counting
  <1>3. ASSUME UNCHANGED <<pc, op, size, offset, accepted, reply, outcome>> PROVE Counting'
    BY <1>3 DEF Counting, Heard
  <1>4. ASSUME NEW n \in Counts, BeginRead(n) PROVE Counting'
    BY <1>1, <1>4 DEF BeginRead
  <1>5. ASSUME NEW n \in Messages, BeginWrite(n) PROVE Counting'
    BY <1>0, <1>5 DEF BeginWrite, Counting
  <1>6. ASSUME NEW name \in Others, BeginOther(name) PROVE Counting'
    <2>1. name # "write"
      BY DEF Others, Timed
    <2> QED BY <1>1, <1>6, <2>1 DEF BeginOther
  <1>7. CASE RenUnsupported
    BY <1>1, <1>7 DEF RenUnsupported
  <1>8. CASE SetTimeout
    BY <1>3, <1>8 DEF SetTimeout
  <1>9. CASE Close
    BY <1>1, <1>9 DEF Close
  <1>10. CASE Tick \/ Send
    BY <1>3, <1>10 DEF Tick, Send
  <1>11. CASE ReadEnd \/ ReadChunk
    BY <1>0, <1>1, <1>11 DEF ReadEnd, ReadChunk
  <1>12. CASE ReadReply \/ ReadError \/ ReadGivenUp
    BY <1>1, <1>12 DEF ReadReply, ReadError, ReadGivenUp, Replied, Waiting
  <1>13. CASE WriteBlock
    <2>1. /\ UNCHANGED <<op, size, offset, accepted, outcome>> /\ pc = "block" /\ pc' = "wait"
          /\ reply' = <<>> /\ op = "write"
      BY <1>0, <1>13 DEF WriteBlock, RemoteCall, Line, Queue
    <2>2. Heard' = 0
      BY <2>1 DEF Heard
    <2> QED BY <1>0, <2>1, <2>2 DEF Counting
  <1>14. CASE WriteEnd
    <2>1. /\ UNCHANGED <<op, size, offset, accepted>> /\ pc = "block" /\ pc' = "idle" /\ offset >= size
      BY <1>14 DEF WriteEnd
    <2> QED BY <1>0, <2>1 DEF Counting
  <1>15. CASE WriteReply
    <2>1. /\ op = "write" /\ pc = "wait" /\ reply # <<>> /\ UNCHANGED <<op, size, accepted>>
      BY <1>15 DEF WriteReply, Replied, Waiting
    <2>2. CASE Refused
      <3>1. pc' = "idle" /\ outcome' = Blame(reply[1].error) /\ offset' = offset
        BY <1>15, <2>2 DEF WriteReply, WriteStops
      <3> QED BY <1>2, <2>1, <3>1 DEF Blame
    <2>3. CASE ~ Refused
      <3>1. pc' = "block" /\ offset' = offset + reply[1].n /\ outcome' = outcome
        BY <1>15, <2>3 DEF WriteReply
      <3>2. Heard = reply[1].n /\ reply[1].n \in Nat
        BY <2>1, <2>3, Says DEF Heard, Refused
      <3>3. outcome = "none" /\ accepted = offset'
        BY <2>1, <3>1, <3>2 DEF Counting
      <3> QED BY <1>0, <2>1, <3>1, <3>2, <3>3 DEF Counting
    <2> QED BY <2>2, <2>3
  <1>16. CASE WriteGivenUp
    BY <1>2, <1>16 DEF WriteGivenUp, Waiting
  <1>17. CASE OtherReply \/ OtherGivenUp
    BY <1>1, <1>17 DEF OtherReply, OtherGivenUp, Others, Timed
  <1>18. CASE CloseEnd
    BY <1>1, <1>18 DEF CloseEnd, Waiting
  <1> QED BY <1>4, <1>5, <1>6, <1>7, <1>8, <1>9, <1>10, <1>11, <1>12, <1>13, <1>14, <1>15, <1>16,
             <1>17, <1>18 DEF Client, CallStep

(* The device accepts units of a block for as long as somebody waits.      *)
LEMMA CountingDevice == ASSUME Types, Line, Steady, Counting, Device PROVE Counting'
  <1>0. /\ size \in Nat /\ offset \in Nat /\ accepted \in Nat /\ MaxRecv \in Nat \ {0}
        /\ <<>> \in Seq(Unit) /\ {} \in SUBSET {"CHR", "END", "REQCNT"} /\ 0 \in Nat
    BY ConstantsAssumption DEF Types
  (* What is not a device_write for a write under way.                     *)
  <1>1. ASSUME requests # <<>>, NEW error \in Errors, NEW n \in Nat, NEW units \in Seq(Unit),
               NEW reason \in SUBSET {"CHR", "END", "REQCNT"}, Reply(error, n, units, reason),
               accepted' = accepted, Head(requests).live => op # "write" \/ error # "none"
        PROVE  Counting'
    <2>1. UNCHANGED <<pc, op, size, offset, outcome>>
      BY <1>1, ReplyStill DEF Still
    <2>2. ASSUME op = "write" PROVE Heard' = Heard
      <3>1. CASE Head(requests).live
        <4>1. reply' # <<>> /\ reply'[1].error # "none" /\ reply = <<>>
          BY <1>1, <2>2, <3>1, Answered, Foremost
        <4> QED BY <4>1 DEF Heard
      <3>2. CASE ~ Head(requests).live
        <4>1. reply' = reply
          BY <1>1, <3>2, Answered
        <4> QED BY <4>1 DEF Heard
      <3> QED BY <3>1, <3>2
    <2> QED BY <1>1, <2>1, <2>2 DEF Counting
  <1>2. ASSUME NEW error \in Errors, requests # <<>>, Reply(error, 0, <<>>, {}), accepted' = accepted,
               Head(requests).live => op # "write" \/ error # "none"
        PROVE  Counting'
    BY <1>0, <1>1, <1>2
  <1>3. requests # <<>> /\ Head(requests).live => op = Head(requests).name
    BY Foremost
  <1>4. CASE DeviceRead
    <2>1. PICK n \in 1..Len(output) :
            /\ SubSeq(output, 1, n) \in Seq(Unit)
            /\ Cause(n) \in SUBSET {"CHR", "END", "REQCNT"}
            /\ Reply("none", n, SubSeq(output, 1, n), Cause(n))
      BY <1>4, Gives
    <2>2. n \in Nat /\ "none" \in Errors
      BY DEF Types, Errors
    <2>3. requests # <<>> /\ Head(requests).name = "read" /\ accepted' = accepted
      BY <1>4 DEF DeviceRead, Executes, AtDevice
    <2> QED BY <1>1, <1>3, <2>1, <2>2, <2>3
  <1>5. CASE DeviceWrite
    <2> DEFINE r == Head(requests)
    <2>1. PICK n \in 0..r.n : /\ accepted' = IF r.live THEN accepted + n ELSE accepted
                              /\ Reply("none", n, <<>>, {})
      BY <1>5 DEF DeviceWrite
    <2>2. requests # <<>> /\ r \in Sent /\ r.name = "write" /\ "none" \in Errors
      BY <1>5 DEF DeviceWrite, Executes, AtDevice, Types, Errors
    <2>3. n \in Nat /\ n <= r.n /\ r.n \in Nat
      BY <2>2 DEF Sent
    <2>4. CASE ~ r.live
      BY <1>0, <1>1, <2>1, <2>2, <2>3, <2>4
    <2>5. CASE r.live
      <3>1. op = "write" /\ pc = "wait" /\ Len(requests) = 1 /\ r = requests[1] /\ reply = <<>>
        BY <2>2, <2>5, Foremost
      <3>2. UNCHANGED <<pc, op, size, offset, outcome>>
        BY <2>1, ReplyStill DEF Still
      <3>3. reply' # <<>> /\ reply'[1].error = "none" /\ reply'[1].n = n
        BY <1>0, <2>1, <2>2, <2>3, <2>5, Answered
      <3>4. Heard = 0 /\ Heard' = n
        BY <3>1, <3>3 DEF Heard
      <3>5. accepted = offset /\ outcome = "none" /\ offset < size /\ r.n = Block
        BY <1>0, <3>1, <3>4 DEF Counting, Steady, InBlock
      <3>6. Block <= MaxRecv
        BY <1>0 DEF Block, Least
      <3>7. accepted' = offset + n /\ n <= MaxRecv
        BY <1>0, <2>1, <2>3, <2>5, <3>5, <3>6
      <3> QED BY <1>0, <2>3, <3>1, <3>2, <3>4, <3>5, <3>7 DEF Counting
    <2> QED BY <2>4, <2>5
  <1>6. CASE DeviceClear \/ DeviceLock \/ DeviceOther \/ DeviceDestroy
    <2>1. /\ requests # <<>> /\ Head(requests).name # "write" /\ Reply("none", 0, <<>>, {})
          /\ accepted' = accepted /\ "none" \in Errors
      BY <1>6 DEF DeviceClear, DeviceLock, DeviceOther, DeviceDestroy, Executes, AtDevice, Errors, device
    <2> QED BY <1>2, <1>3, <2>1
  <1>7. CASE DeviceRefuses
    <2>1. PICK error \in Errors : Reply(error, 0, <<>>, {}) /\ error # "none"
      BY <1>7 DEF DeviceRefuses, Errors
    <2>2. requests # <<>> /\ accepted' = accepted
      BY <1>7 DEF DeviceRefuses, AtDevice, device
    <2> QED BY <1>2, <2>1, <2>2
  <1>8. CASE OtherClient
    BY <1>8 DEF OtherClient, Counting, Heard, loop, remote, result
  <1> QED BY <1>4, <1>5, <1>6, <1>7, <1>8 DEF Device

(* Whichever block fails and whatever came before, a write reports no more *)
(* than the device has accepted and all of it but for the block that       *)
(* failed; one that succeeds has had all of it accepted, in however many   *)
(* blocks, and unless a message was left unfinished before, the device has *)
(* received exactly one whole message (write(), tcpip.py).                 *)
THEOREM Write_reports_truly == Spec => []WriteReportsTruly
  <1> DEFINE All == Types /\ Line /\ Kept /\ Writing /\ Steady /\ Counting
  <1>1. Init => All
    <2> SUFFICES ASSUME Init PROVE Writing /\ Steady /\ Counting
      BY LineInit, KeptInit
    <2>1. /\ offset = 0 /\ size = 0 /\ pc = "idle" /\ reply = <<>> /\ op = "none"
          /\ unfinished = 0 /\ outcome = "none"
      BY DEF Init
    <2>2. Writing
      BY ONLY <2>1 DEF Writing, Delivered
    <2>3. Steady /\ Counting
      BY ONLY <2>1 DEF Steady, InBlock, Gains, Counting
    <2> QED BY <2>2, <2>3
  <1>2. All /\ [Next]_vars => All'
    <2> SUFFICES ASSUME All, [Next]_vars PROVE Writing' /\ Counting'
      BY TypesNext, LineNext, KeptNext, SteadyNext
    <2>1. CASE UNCHANGED vars
      BY <2>1 DEF vars, loop, remote, result, device, Writing, Delivered, Partial, Whole, Block, Counting, Heard
    <2> QED BY <2>1, WritingClient, WritingDevice, CountingClient, CountingDevice, NextIs
  <1>3. All => WriteReportsTruly
    BY DEF Writing, Delivered, Counting, WriteReportsTruly
  <1> QED BY <1>1, <1>2, <1>3, PTL DEF Spec
=============================================================================

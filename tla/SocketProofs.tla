---------------------------- MODULE SocketProofs ----------------------------
(***************************************************************************)
(* The two users of SocketSession.  Instruments behind one Prologix        *)
(* adapter: what is sent for one reaches it, and what it reads is its own, *)
(* for any instruments, lengths of lines and responses, sizes of recv and  *)
(* number of calls.  A raw socket: what it returns is the stream, in order,*)
(* and what it reports written the socket took.                            *)
(***************************************************************************)
EXTENDS PrologixAdapter, RawSocket, SequenceTheorems, WellFoundedInduction, TLAPS

Units == [from : Instruments, no : Nat, k : Nat, term : BOOLEAN]
Commands == [name : {"addr", "data", "clr", "trg", "read", "spoll"}, by : Instruments, no : Nat]
Inside == {"address", "send", "poll", "receive", "loop"}
Hows == {"none", "term", "count", "success", "timeout"}
Statuses == Hows \cup {"raised"}
Cuts(S) == [at : {"loop", "index", "cut", "rest", "store"}, size : Nat, how : Hows,
            out : Seq(S), rest : Seq(S)]

SocketTypes ==
    /\ pending \in Seq(Units) /\ chunk \in Seq(Units) /\ arrived \in Seq(Units)
    /\ cut \in Cuts(Units)
    /\ termEn = TRUE /\ suppressEnd \in BOOLEAN

SessionTypes ==
    /\ lock \in Instruments \cup {Nobody}
    /\ gpibAddr \in Instruments \cup {Nobody}
    /\ plusPlusRead \in BOOLEAN
    /\ pc \in [Instruments -> {"idle", "lock"} \cup Inside]
    /\ op \in [Instruments -> [name : {"none", "write", "clr", "trg", "read", "status"}, count : Nat]]
    /\ calls \in Nat
    /\ wrote \in [Instruments -> Nat] /\ returned \in [Instruments -> Nat]
    /\ clean \in [Instruments -> BOOLEAN]
    /\ status \in [Instruments -> Statuses] /\ data \in [Instruments -> Seq(Units)]

AdapterTypes ==
    /\ commands \in Seq(Commands)
    /\ selected \in Instruments \cup {Nobody}
    /\ answer \in [Instruments -> Seq(Units)]

(* A thread inside of a call has the lock, and once it has set the address *)
(* it is its own; where it is agrees with what it does.                    *)
Locking ==
    \A i \in Instruments :
        /\ pc[i] \in Inside => lock = i
        /\ pc[i] \in Inside \ {"address"} => gpibAddr = i
        /\ pc[i] = "send" => op[i].name \in {"write", "clr", "trg"}
        /\ pc[i] = "poll" => op[i].name = "status"
        /\ pc[i] \in {"receive", "loop"} => op[i].name \in {"read", "status"}
        /\ op[i].name \in {"read", "status"} => op[i].count > 0
        /\ pc[i] # "idle" => op[i].name # "none" /\ status[i] = "none"

(* What a read has decided to take fits the pending buffer.                *)
Fits(c, count) ==
    /\ c.how \in {"term", "count", "success", "timeout"}
    /\ c.how = "term" => (HasTerm /\ c.size = TermIndex /\ TermIndex <= count)
    /\ c.how = "count" => c.size = count
    /\ c.how = "count" /\ HasTerm => TermIndex > count
    /\ c.how = "count" /\ ~ HasTerm => Len(pending) >= count
    /\ c.how \in {"success", "timeout"} =>
          (c.size = count /\ ~ HasTerm /\ Len(pending) < count)
    /\ c.how = "success" => pending # <<>>

(* While a read is under way that nobody has flushed, what it has found out*)
(* holds of the pending buffer, at each of its steps; between two reads    *)
(* nothing is under way.                                                   *)
Settled(i) ==
    /\ cut.at = "index" => HasTerm
    /\ cut.at \in {"cut", "rest", "store"} => Fits(cut, op[i].count)
    /\ cut.at \in {"rest", "store"} => cut.out = Front(cut.size)
    /\ cut.at = "store" => cut.rest = Behind(cut.size)

Cutting ==
    /\ cut.at # "loop" => chunk = <<>>
    /\ \A i \in Instruments : (clean[i] /\ pc[i] = "loop") => Settled(i)
    /\ (\A i \in Instruments : pc[i] # "loop") => (cut = NoCut /\ chunk = <<>>)

(* The commands under way are for one instrument until an "++addr" comes,  *)
(* the first for the selected one and the last for the cached one.         *)
Chain ==
    /\ \A k \in 1..Len(commands) - 1 :
          commands[k + 1].name # "addr" => commands[k + 1].by = commands[k].by
    /\ IF commands = <<>>
         THEN selected = gpibAddr
         ELSE /\ commands[1].name # "addr" => commands[1].by = selected
              /\ commands[Len(commands)].by = gpibAddr

(* What an instrument has to give answers its last write, and none of it   *)
(* has been returned.                                                      *)
IsData(k, i) == commands[k].name = "data" /\ commands[k].by = i

LastData ==
    \A i \in Instruments : \A k \in 1..Len(commands) :
        IsData(k, i) /\ (\A m \in k + 1..Len(commands) : ~ IsData(m, i)) =>
            commands[k].no = wrote[i]

Answers ==
    \A i \in Instruments :
        (\A k \in 1..Len(commands) : ~ IsData(k, i)) =>
            answer[i] \in {<<>>, Response(i, wrote[i])}

NotReturned ==
    \A i \in Instruments :
        returned[i] # 0 => /\ \A k \in 1..Len(commands) : ~ IsData(k, i)
                           /\ answer[i] = <<>>
                           /\ returned[i] <= ResponseLength

(* While the last call to set the address was one of i, and clean, what is *)
(* under way to i is in order: the status byte, if i is polling, and what  *)
(* is left of the response.                                                *)
Owns(i) == clean[i] /\ gpibAddr = i
Stream == pending \o chunk \o arrived
Rest(i) == [k \in 1..ResponseLength - returned[i] |-> Unit(i, wrote[i], returned[i] + k)]
Polling(i) == op[i].name = "status" /\ pc[i] \in {"receive", "loop"}
Polled == \E k \in 1..Len(commands) : commands[k].name = "spoll"

NothingCame(i) == Stream = <<>> /\ (Polling(i) <=> Polled)

StatusCame(i) ==
    /\ Stream = <<StatusUnit(i)>> /\ Polling(i)
    /\ \A k \in 1..Len(commands) : commands[k].name = "read"

ResponseCame(i) ==
    /\ \/ Stream = Rest(i) /\ ~ Polling(i)
       \/ Stream = <<StatusUnit(i)>> \o Rest(i) /\ Polling(i)
    /\ commands = <<>> /\ ~ plusPlusRead /\ answer[i] = <<>>

Ordered(i) ==
    /\ \A k \in 1..Len(commands) : commands[k].by = i
    /\ \A k \in 1..Len(commands) :
          commands[k].name = "read" => k = Len(commands) /\ ~ plusPlusRead
    /\ \A k \in 1..Len(commands) :
          commands[k].name = "spoll" =>
              \A m \in k + 1..Len(commands) : commands[m].name = "read"
    /\ pc[i] \in {"send", "poll"} =>
          Stream = <<>> /\ \A k \in 1..Len(commands) : commands[k].name = "addr"
    /\ NothingCame(i) \/ StatusCame(i) \/ ResponseCame(i)

OwnStream == \A i \in Instruments : Owns(i) => Ordered(i)

-----------------------------------------------------------------------------
(* Numbers: a set of them that is not empty has a least one.               *)
Below == {pair \in Nat \X Nat : pair[1] < pair[2]}

LEMMA LeastOf ==
  ASSUME NEW P, P \subseteq Nat, P # {}
  PROVE  \E n \in P : \A m \in P : n <= m
  <1>1. IsWellFoundedOn(Below, Nat)
    BY NatLessThanWellFounded DEF OpToRel, Below
  <1>2. \E x \in P : \A y \in P : ~ (<<y, x>> \in Below)
    <2> HIDE DEF Below
    <2> QED BY <1>1, WFMin
  <1>3. PICK x \in P : \A y \in P : ~ (<<y, x>> \in Below)
    BY <1>2
  <1>4. ASSUME NEW y \in P
        PROVE  x <= y
    <2>1. x \in Nat /\ y \in Nat /\ <<y, x>> \in Nat \X Nat
      OBVIOUS
    <2>2. ~ (y < x)
      BY <1>3, <2>1 DEF Below
    <2> QED BY <2>1, <2>2
  <1> QED BY <1>4

(* The place of the termination character is the first unit that is one.   *)
LEMMA TermIndexFirst ==
  ASSUME NEW S, pending \in Seq(S), HasTerm
  PROVE  /\ TermIndex \in 1..Len(pending)
         /\ pending[TermIndex].term
         /\ \A j \in 1..TermIndex - 1 : ~ pending[j].term
  <1> DEFINE Terms == {i \in 1..Len(pending) : pending[i].term}
  <1>1. DOMAIN pending = 1..Len(pending) /\ Len(pending) \in Nat
    OBVIOUS
  <1>2. Terms \subseteq Nat /\ Terms # {}
    BY <1>1 DEF HasTerm
  <1>3. PICK i \in Terms : \A m \in Terms : i <= m
    <2> HIDE DEF Terms
    <2> QED BY <1>2, LeastOf
  <1>4. \A j \in 1..i - 1 : ~ pending[j].term
    <2> TAKE j \in 1..i - 1
    <2>1. j \in 1..Len(pending) /\ j < i
      BY <1>1, <1>3
    <2> QED BY <2>1, <1>3
  <1>5. \E k \in DOMAIN pending : pending[k].term /\ \A j \in 1..k - 1 : ~ pending[j].term
    BY <1>1, <1>3, <1>4
  <1>6. /\ TermIndex \in DOMAIN pending
        /\ pending[TermIndex].term
        /\ \A j \in 1..TermIndex - 1 : ~ pending[j].term
    BY <1>5 DEF TermIndex
  <1> QED BY <1>1, <1>6

(* Sequences: cutting in two and putting together again.                   *)
LEMMA CutSeq ==
  ASSUME NEW S, NEW s \in Seq(S), NEW n \in 0..Len(s)
  PROVE  /\ SubSeq(s, 1, n) \in Seq(S) /\ Len(SubSeq(s, 1, n)) = n
         /\ SubSeq(s, n + 1, Len(s)) \in Seq(S) /\ Len(SubSeq(s, n + 1, Len(s))) = Len(s) - n
         /\ SubSeq(s, 1, n) \o SubSeq(s, n + 1, Len(s)) = s
  <1>1. Len(s) \in Nat /\ n \in Nat /\ n <= Len(s)
    OBVIOUS
  <1>2. SubSeq(s, 1, n) \in Seq(S) /\ Len(SubSeq(s, 1, n)) = n
    BY <1>1
  <1>3. SubSeq(s, n + 1, Len(s)) \in Seq(S) /\ Len(SubSeq(s, n + 1, Len(s))) = Len(s) - n
    BY <1>1
  <1>4. 1 \in 1..Len(s) + 1 /\ n \in 1 - 1..Len(s) /\ Len(s) \in n..Len(s)
    BY <1>1
  <1>5. SubSeq(s, 1, n) \o SubSeq(s, n + 1, Len(s)) = SubSeq(s, 1, Len(s))
    BY <1>4, ConcatAdjacentSubSeq
  <1>6. SubSeq(s, 1, Len(s)) = s
    BY SubSeqFull
  <1> QED BY <1>2, <1>3, <1>5, <1>6

LEMMA CutConcat ==
  ASSUME NEW S, NEW s \in Seq(S), NEW t \in Seq(S)
  PROVE  /\ SubSeq(s \o t, 1, Len(s)) = s
         /\ SubSeq(s \o t, Len(s) + 1, Len(s \o t)) = t
  <1> DEFINE c == s \o t
             front == SubSeq(c, 1, Len(s))
             back == SubSeq(c, Len(s) + 1, Len(c))
  <1>1. /\ c \in Seq(S) /\ Len(c) = Len(s) + Len(t) /\ Len(s) \in Nat /\ Len(t) \in Nat
        /\ \A i \in 1..Len(s) : c[i] = s[i]
        /\ \A i \in 1..Len(t) : c[Len(s) + i] = t[i]
    <2>1. c \in Seq(S) /\ Len(c) = Len(s) + Len(t) /\ Len(s) \in Nat /\ Len(t) \in Nat
      OBVIOUS
    <2>2. \A i \in 1..Len(s) + Len(t) : c[i] = IF i <= Len(s) THEN s[i] ELSE t[i - Len(s)]
      BY ConcatProperties
    <2> HIDE DEF c
    <2>3. \A i \in 1..Len(t) : c[Len(s) + i] = t[i]
      <3> TAKE i \in 1..Len(t)
      <3>1. Len(s) + i \in 1..Len(s) + Len(t) /\ ~ (Len(s) + i <= Len(s)) /\ (Len(s) + i) - Len(s) = i
        BY <2>1
      <3> QED BY <2>2, <3>1
    <2> QED BY <2>1, <2>2, <2>3
  <1> HIDE DEF c
  <1>2. front \in Seq(S) /\ Len(front) = Len(s) /\ \A i \in 1..Len(s) : front[i] = c[i]
    BY <1>1
  <1>3. back \in Seq(S) /\ Len(back) = Len(t) /\ \A i \in 1..Len(t) : back[i] = c[Len(s) + i]
    BY <1>1
  <1> HIDE DEF front, back
  <1>4. front = s
    BY <1>1, <1>2, SeqEqual
  <1>5. back = t
    BY <1>1, <1>3, SeqEqual
  <1> QED BY <1>4, <1>5 DEF front, back, c

LEMMA PartOfSeq ==
  ASSUME NEW S, NEW s \in Seq(S), NEW m \in Nat, NEW n \in Nat, m + n <= Len(s)
  PROVE  SubSeq(s, m + 1, m + n) = [k \in 1..n |-> s[m + k]]
  <1> DEFINE part == SubSeq(s, m + 1, m + n)
  <1>1. /\ part \in Seq(S) /\ Len(part) = n
        /\ \A k \in 1..n : part[k] = s[m + k]
    <2>1. part \in Seq(S) /\ Len(part) = n
      OBVIOUS
    <2>2. \A k \in 1..n : part[k] = s[m + k]
      OBVIOUS
    <2> QED BY <2>1, <2>2
  <1> HIDE DEF part
  <1>2. part = [k \in 1..n |-> s[m + k]]
    BY <1>1
  <1> QED BY <1>2 DEF part

LEMMA PartTypes ==
  ASSUME NEW S, NEW s \in Seq(S), NEW m \in Nat, NEW n \in 0..Len(s)
  PROVE  SubSeq(s, m + 1, n) \in Seq(S)
  OBVIOUS

(* The steps of a read keep the types.                                     *)
ReadingTypes(S) ==
    pending \in Seq(S) /\ chunk \in Seq(S) /\ arrived \in Seq(S) /\ cut \in Cuts(S)

ReadStep(count) ==
    \/ ReadRecv(count) \/ ReadExtend
    \/ ReadTests(count) \/ ReadIndex(count) \/ ReadCut \/ ReadRest

LEMMA ReadStepTypes ==
  ASSUME NEW S, NEW count \in Nat, ReadingTypes(S), ReadStep(count) \/ ReadReturn
  PROVE  ReadingTypes(S)'
  <1>1. /\ pending \in Seq(S) /\ chunk \in Seq(S) /\ arrived \in Seq(S) /\ cut \in Cuts(S)
        /\ Len(pending) \in Nat /\ Len(arrived) \in Nat /\ MaxRecv \in Nat
        /\ <<>> \in Seq(S)
    BY MaxRecvAssumption, LenProperties, EmptySeq DEF ReadingTypes
  <1>2. NoCut \in Cuts(S)
    BY <1>1 DEF NoCut, Cuts, Hows
  <1>3. CASE ReadRecv(count)
    <2> DEFINE k == Least(Least(count, MaxRecv), Len(arrived))
    <2>1. k \in 0..Len(arrived) /\ k \in Nat
      BY <1>1 DEF Least
    <2>2. /\ chunk' = SubSeq(arrived, 1, k) /\ arrived' = SubSeq(arrived, k + 1, Len(arrived))
          /\ pending' = pending /\ cut' = cut
      BY <1>3 DEF ReadRecv
    <2> HIDE DEF k
    <2>3. chunk' \in Seq(S) /\ arrived' \in Seq(S)
      BY <1>1, <2>1, <2>2, CutSeq
    <2> QED BY <1>1, <2>2, <2>3 DEF ReadingTypes
  <1>4. CASE ReadExtend
    <2>1. /\ pending' = pending \o chunk /\ chunk' = <<>>
          /\ arrived' = arrived /\ cut' = cut
      BY <1>4 DEF ReadExtend
    <2>2. pending' \in Seq(S)
      BY <1>1, <2>1, ConcatProperties
    <2> QED BY <1>1, <2>1, <2>2 DEF ReadingTypes
  <1>5. ASSUME NEW size \in Nat, NEW how \in Hows
        PROVE  Decided(size, how) \in Cuts(S)
    BY <1>2 DEF Decided, Cuts, NoCut
  <1>6. CASE ReadTests(count)
    <2>1. UNCHANGED <<pending, chunk, arrived>>
      BY <1>6 DEF ReadTests
    <2>2. [NoCut EXCEPT !.at = "index"] \in Cuts(S)
      BY <1>2 DEF Cuts, NoCut
    <2>3. \/ cut' = [NoCut EXCEPT !.at = "index"]
          \/ \E how \in Hows : cut' = Decided(count, how)
      BY <1>6 DEF ReadTests, Hows
    <2> QED BY <1>1, <1>5, <2>1, <2>2, <2>3 DEF ReadingTypes
  <1>7. CASE ReadIndex(count)
    <2>1. UNCHANGED <<pending, chunk, arrived>> /\ HasTerm
      BY <1>7 DEF ReadIndex
    <2>2. TermIndex \in Nat
      BY <1>1, <2>1, TermIndexFirst
    <2>3. cut' = Decided(count, "count") \/ cut' = Decided(TermIndex, "term")
      BY <1>7 DEF ReadIndex
    <2>4. cut' \in Cuts(S)
      BY <1>5, <2>2, <2>3 DEF Hows
    <2> QED BY <1>1, <2>1, <2>4 DEF ReadingTypes
  <1>8. cut.size \in Nat
    BY <1>1 DEF Cuts
  <1>9. CASE ReadCut
    <2>1. UNCHANGED <<pending, chunk, arrived>> /\ cut' = [cut EXCEPT !.at = "rest", !.out = Front(cut.size)]
      BY <1>9 DEF ReadCut
    <2>2. Least(cut.size, Len(pending)) \in 0..Len(pending)
      BY <1>1, <1>8 DEF Least
    <2>3. Front(cut.size) \in Seq(S)
      BY <1>1, <2>2, CutSeq DEF Front
    <2>4. cut' \in Cuts(S)
      BY <1>1, <2>1, <2>3 DEF Cuts
    <2> QED BY <1>1, <2>1, <2>4 DEF ReadingTypes
  <1>10. CASE ReadRest
    <2>1. UNCHANGED <<pending, chunk, arrived>> /\ cut' = [cut EXCEPT !.at = "store", !.rest = Behind(cut.size)]
      BY <1>10 DEF ReadRest
    <2>2. Len(pending) \in 0..Len(pending)
      BY <1>1
    <2>3. Behind(cut.size) \in Seq(S)
      BY <1>1, <1>8, <2>2, PartTypes DEF Behind
    <2>4. cut' \in Cuts(S)
      BY <1>1, <2>1, <2>3 DEF Cuts
    <2> QED BY <1>1, <2>1, <2>4 DEF ReadingTypes
  <1>11. CASE ReadReturn
    <2>1. UNCHANGED <<chunk, arrived>> /\ cut' = NoCut /\ (pending' = pending \/ pending' = cut.rest)
      BY <1>11 DEF ReadReturn, Keep
    <2>2. cut.rest \in Seq(S)
      BY <1>1 DEF Cuts
    <2> QED BY <1>1, <1>2, <2>1, <2>2 DEF ReadingTypes
  <1> QED BY <1>3, <1>4, <1>6, <1>7, <1>9, <1>10, <1>11 DEF ReadStep

(* As long as the buffer stays, what was found in it does.                 *)
LEMMA SameBuffer ==
  ASSUME pending' = pending, termEn' = termEn
  PROVE  (HasTerm' <=> HasTerm) /\ TermIndex' = TermIndex
  <1>1. HasTerm' <=> HasTerm
    BY Zenon DEF HasTerm
  <1>2. TermIndex' = TermIndex
    BY DEF TermIndex
  <1> QED BY <1>1, <1>2

(* What a read decides: there is a termination character, or it knows how  *)
(* much it takes.                                                          *)
Decides(count) ==
    /\ pending' = pending /\ chunk' = chunk /\ arrived' = arrived
    /\ cut'.out = <<>>
    /\ \/ cut'.at = "index" /\ HasTerm
       \/ cut'.at = "cut" /\ Fits(cut', count)

LEMMA DecisionFits ==
  ASSUME NEW S, NEW count \in Nat, pending \in Seq(S), ReadTests(count) \/ ReadIndex(count)
  PROVE  Decides(count)
  <1>1. Len(pending) \in Nat
    BY LenProperties
  <1>2. UNCHANGED <<pending, chunk, arrived>>
    BY DEF ReadTests, ReadIndex
  <1>3. ASSUME NEW size, NEW how, cut' = Decided(size, how)
        PROVE  cut'.at = "cut" /\ cut'.size = size /\ cut'.how = how /\ cut'.out = <<>>
    BY <1>3 DEF Decided, NoCut
  <1>4. CASE HasTerm /\ cut' = [NoCut EXCEPT !.at = "index"]
    <2>1. cut'.at = "index" /\ cut'.out = <<>>
      BY <1>4 DEF NoCut
    <2> QED BY <1>2, <1>4, <2>1 DEF Decides
  <1>5. CASE ~ HasTerm /\ ReadTests(count)
    <2>1. \/ cut' = Decided(count, "count") /\ Len(pending) >= count
          \/ cut' = Decided(count, "success") /\ Len(pending) < count /\ pending # <<>>
          \/ cut' = Decided(count, "timeout") /\ Len(pending) < count
      <3>1. \/ cut' = Decided(count, "count") /\ Complete(count)
            \/ /\ ~ Complete(count)
               /\ cut' = Decided(count, IF pending # <<>> /\ ~ suppressEnd THEN "success" ELSE "timeout")
        BY <1>5, Zenon DEF ReadTests
      <3> QED BY <1>1, <1>5, <3>1 DEF Complete
    <2>2. /\ cut'.at = "cut" /\ cut'.size = count /\ cut'.how \in {"count", "success", "timeout"}
          /\ cut'.out = <<>>
          /\ cut'.how = "count" => Len(pending) >= count
          /\ cut'.how \in {"success", "timeout"} => Len(pending) < count
          /\ cut'.how = "success" => pending # <<>>
      BY <1>3, <2>1
    <2> QED BY <1>1, <1>2, <1>5, <2>2 DEF Decides, Fits
  <1>6. CASE ReadIndex(count)
    <2>1. HasTerm /\ TermIndex \in Nat
      BY <1>1, <1>6, TermIndexFirst DEF ReadIndex
    <2>2. \/ TermIndex > count /\ cut' = Decided(count, "count")
          \/ ~ (TermIndex > count) /\ cut' = Decided(TermIndex, "term")
      BY <1>6 DEF ReadIndex
    <2>3. /\ cut'.at = "cut" /\ cut'.out = <<>>
          /\ \/ TermIndex > count /\ cut'.how = "count" /\ cut'.size = count
             \/ ~ (TermIndex > count) /\ cut'.how = "term" /\ cut'.size = TermIndex
      BY <1>3, <2>2
    <2> QED BY <1>2, <2>1, <2>3 DEF Decides, Fits
  <1> QED BY <1>4, <1>5, <1>6, Zenon DEF ReadTests, Complete

-----------------------------------------------------------------------------
(* The invariant of the lock, the address and the commands.                *)
Base == SocketTypes /\ SessionTypes /\ AdapterTypes /\ Locking /\ Cutting /\ Chain

LEMMA UnitTypes ==
  ASSUME NEW i \in Instruments, NEW n \in Nat
  PROVE  /\ Response(i, n) \in Seq(Units) /\ Len(Response(i, n)) = ResponseLength
         /\ StatusUnit(i) \in Units
  <1>1. \A k \in 1..ResponseLength : Unit(i, n, k) \in Units
    BY ConstantsAssumption DEF Unit, Units
  <1>2. ResponseLength \in Nat
    BY ConstantsAssumption
  <1>3. Response(i, n) \in Seq(Units) /\ Len(Response(i, n)) = ResponseLength
    <2> DEFINE r == Response(i, n)
    <2>1. r \in [1..ResponseLength -> Units]
      BY <1>1 DEF Response
    <2> HIDE DEF r
    <2>2. r \in Seq(Units) /\ Len(r) = ResponseLength
      BY <1>2, <2>1
    <2> QED BY <2>2 DEF r
  <1>4. StatusUnit(i) \in Units
    BY DEF StatusUnit, Units
  <1> QED BY <1>3, <1>4

LEMMA InitBase == Init => Base
  <1> SUFFICES ASSUME Init PROVE Base
    OBVIOUS
  <1>1. cut = NoCut /\ chunk = <<>> /\ pending = <<>> /\ arrived = <<>>
    BY DEF Init
  <1>2. NoCut \in Cuts(Units) /\ NoCut.at = "loop"
    BY EmptySeq DEF NoCut, Cuts, Hows
  <1>3. SocketTypes
    BY <1>1, <1>2, EmptySeq DEF Init, SocketTypes
  <1>4. Cutting
    BY <1>1, <1>2 DEF Init, Cutting
  <1>5. SessionTypes /\ AdapterTypes /\ Locking /\ Chain
    BY ConstantsAssumption
    DEF Init, SessionTypes, AdapterTypes, Locking, Chain, Inside, Statuses, Hows
  <1> QED BY <1>3, <1>4, <1>5 DEF Base

(* What a read that returns has, whoever has flushed meanwhile.            *)
LEMMA ReturnDoes ==
  ASSUME Base, NEW i \in Instruments, Return(i)
  PROVE  /\ ReadStatus \in Statuses
         /\ cut.out \in Seq(Units) /\ Len(cut.out) \in Nat
         /\ arrived' = arrived /\ chunk' = chunk /\ chunk = <<>> /\ cut' = NoCut
  <1>1. ReadReturn /\ cut \in Cuts(Units) /\ Cutting
    BY DEF Return, Base, SocketTypes
  <1>2. cut.at # "loop"
    BY <1>1 DEF ReadReturn, Raises
  <1>3. ReadStatus \in Statuses
    BY <1>1 DEF ReadStatus, Statuses, Cuts
  <1>4. cut.out \in Seq(Units) /\ Len(cut.out) \in Nat
    BY <1>1, LenProperties DEF Cuts
  <1> QED BY <1>1, <1>2, <1>3, <1>4 DEF ReadReturn, Cutting

(* A clean read returns the first units of the pending buffer, as many as  *)
(* it has decided to take, and keeps the rest.                             *)
LEMMA ReturnSplits ==
  ASSUME Base, NEW i \in Instruments, Return(i), clean[i]
  PROVE  \E n \in 0..Len(pending), what \in {"term", "count", "success", "timeout"} :
            /\ pending' = SubSeq(pending, n + 1, Len(pending))
            /\ n = IF what = "term" THEN TermIndex
                   ELSE IF what = "count" THEN op[i].count
                   ELSE Least(op[i].count, Len(pending))
            /\ what = "term" => HasTerm
            /\ what = "count" => (Complete(op[i].count) /\ (HasTerm => TermIndex > op[i].count))
            /\ what \in {"success", "timeout"} => ~ Complete(op[i].count)
            /\ what = "success" => pending # <<>>
            /\ data' = [data EXCEPT ![i] = SubSeq(pending, 1, n)]
            /\ status' = [status EXCEPT ![i] = what]
            /\ IF op[i].name = "read"
                 THEN /\ returned' = [returned EXCEPT ![i] = @ + n]
                      /\ UNCHANGED clean
                 ELSE /\ clean' = [clean EXCEPT ![i] = @ /\ what # "timeout"]
                      /\ UNCHANGED returned
  <1> DEFINE what == cut.how
             count == op[i].count
             size == Least(cut.size, Len(pending))
  <1>1. /\ pending \in Seq(Units) /\ Len(pending) \in Nat /\ count \in Nat
        /\ cut \in Cuts(Units) /\ cut.size \in Nat
    BY LenProperties DEF Base, SocketTypes, SessionTypes, Cuts
  <1>2. Settled(i) /\ ReadReturn
    BY DEF Base, Cutting, Return, At
  <1>3. ~ Raises /\ cut.at = "store"
    BY <1>2 DEF Settled, Raises, ReadReturn
  <1>4. /\ Fits(cut, count) /\ cut.out = SubSeq(pending, 1, size)
        /\ pending' = SubSeq(pending, cut.size + 1, Len(pending))
        /\ ReadStatus = what
    BY <1>2, <1>3 DEF Settled, ReadReturn, Keep, ReadStatus, Front, Behind
  <1>5. HasTerm => TermIndex \in 1..Len(pending)
    BY <1>1, TermIndexFirst
  <1>6. /\ size \in 0..Len(pending)
        /\ size = IF what = "term" THEN TermIndex
                  ELSE IF what = "count" THEN count ELSE Least(count, Len(pending))
        /\ what # "timeout" /\ what # "success" => size = cut.size
    BY <1>1, <1>4, <1>5 DEF Fits, Least
  <1>7. pending' = SubSeq(pending, size + 1, Len(pending))
    <2>1. CASE size = cut.size
      BY <1>4, <2>1
    <2>2. CASE size # cut.size
      <3>1. size = Len(pending) /\ cut.size > Len(pending)
        BY <1>1, <2>2 DEF Least
      <3>2. SubSeq(pending, cut.size + 1, Len(pending)) = <<>> /\ SubSeq(pending, size + 1, Len(pending)) = <<>>
        BY <1>1, <3>1, SubSeqEmpty
      <3> QED BY <1>4, <3>2
    <2> QED BY <2>1, <2>2
  <1>8. Len(cut.out) = size
    BY <1>1, <1>4, <1>6, CutSeq
  <1>9. /\ what \in {"term", "count", "success", "timeout"}
        /\ what = "term" => HasTerm
        /\ what = "count" => (Complete(count) /\ (HasTerm => TermIndex > count))
        /\ what \in {"success", "timeout"} => ~ Complete(count)
        /\ what = "success" => pending # <<>>
    BY <1>1, <1>4 DEF Fits, Complete
  <1>10. /\ data' = [data EXCEPT ![i] = SubSeq(pending, 1, size)]
         /\ status' = [status EXCEPT ![i] = what]
    BY <1>4 DEF Return
  <1>11. IF op[i].name = "read"
           THEN /\ returned' = [returned EXCEPT ![i] = @ + size]
                /\ UNCHANGED clean
           ELSE /\ clean' = [clean EXCEPT ![i] = @ /\ what # "timeout"]
                /\ UNCHANGED returned
    BY <1>4, <1>8, Zenon DEF Return
  <1> HIDE DEF what, size
  <1> QED BY <1>6, <1>7, <1>9, <1>10, <1>11 DEF count

LEMMA SocketTypesStep ==
  ASSUME Base, [Next]_vars
  PROVE  SocketTypes'
  <1>0. /\ pending \in Seq(Units) /\ chunk \in Seq(Units) /\ arrived \in Seq(Units)
        /\ cut \in Cuts(Units)
        /\ termEn = TRUE /\ suppressEnd \in BOOLEAN
    BY DEF Base, SocketTypes
  <1>1. ASSUME ReadingTypes(Units)', UNCHANGED <<termEn, suppressEnd>>
        PROVE  SocketTypes'
    BY <1>0, <1>1 DEF SocketTypes, ReadingTypes
  <1>2. CASE UNCHANGED socket
    BY <1>0, <1>2 DEF socket, SocketTypes
  <1>3. ASSUME NEW i \in Instruments, Write(i)
        PROVE  SocketTypes'
    BY <1>0, <1>3, EmptySeq DEF Write, SocketClear, SocketTypes
  <1>4. ASSUME NEW i \in Instruments, Receive(i) \/ Return(i)
        PROVE  SocketTypes'
    <2>1. op[i].count \in Nat /\ ReadingTypes(Units)
      BY <1>0 DEF Base, SessionTypes, ReadingTypes
    <2>2. ReadStep(op[i].count) \/ ReadReturn
      BY <1>4 DEF Receive, Return, ReadStep
    <2>3. UNCHANGED <<termEn, suppressEnd>>
      BY <1>4 DEF Receive, Return
    <2> QED BY <1>1, <2>1, <2>2, <2>3, ReadStepTypes
  <1>6. ASSUME NEW i \in Instruments, NEW mask \in Masks, Flush(i, mask)
        PROVE  SocketTypes'
    <2>1. pending' \in {pending, <<>>} /\ arrived' \in {arrived, <<>>}
      BY <1>6 DEF Flush, SocketFlush, SocketClear
    <2>2. UNCHANGED <<termEn, suppressEnd, chunk, cut>>
      BY <1>6 DEF Flush
    <2>3. pending' \in Seq(Units) /\ arrived' \in Seq(Units)
      BY <1>0, <2>1, EmptySeq, Zenon
    <2> QED BY <1>0, <2>2, <2>3 DEF SocketTypes
  <1>7. CASE Execute
    <2>1. arrived' \in Seq(Units)
      <3>1. CASE UNCHANGED arrived
        BY <3>1, <1>0
      <3>2. CASE Head(commands).name \in {"read", "spoll"} /\ commands # <<>>
        <4>1. commands[1] = Head(commands) /\ Head(commands) \in Commands
          BY <3>2 DEF Base, AdapterTypes
        <4>2. selected \in Instruments
          BY <3>2, <4>1 DEF Base, Chain, Commands
        <4>3. answer[selected] \in Seq(Units) /\ StatusUnit(selected) \in Units
          BY <4>2 DEF Base, AdapterTypes, StatusUnit, Units
        <4>4. arrived' = arrived \o answer[selected] \/ arrived' = Append(arrived, StatusUnit(selected))
          BY <1>7, <3>2 DEF Execute
        <4>5. arrived \o answer[selected] \in Seq(Units)
          BY <1>0, <4>3
        <4>6. Append(arrived, StatusUnit(selected)) \in Seq(Units)
          BY <1>0, <4>3
        <4> QED BY <4>4, <4>5, <4>6
      <3> QED BY <1>7, <3>1, <3>2 DEF Execute
    <2> QED BY <1>0, <1>7, <2>1 DEF Execute, SocketTypes
  <1> QED
    BY <1>2, <1>3, <1>4, <1>6, <1>7
    DEF Next, CallStep, Begin, Lock, Address, WriteOob, Poll, PlusPlusRead, vars
LEMMA SessionTypesStep ==
  ASSUME Base, [Next]_vars
  PROVE  SessionTypes' /\ Locking'
  <1>0. SessionTypes /\ Locking /\ Nobody \notin Instruments /\ Counts \subseteq Nat \ {0}
    BY ConstantsAssumption DEF Base
  <1>1. CASE UNCHANGED <<intfc, sessions>>
    BY <1>0, <1>1 DEF SessionTypes, Locking, intfc, sessions
  <1>2. ASSUME NEW i \in Instruments, NEW name \in {"write", "clr", "trg", "read", "status"},
               NEW count \in Nat, name \in {"read", "status"} => count > 0, Begin(i, name, count)
        PROVE  SessionTypes' /\ Locking'
    <2>3. /\ pc' \in [Instruments -> {"idle", "lock"} \cup Inside]
          /\ op' \in [Instruments -> [name : {"none", "write", "clr", "trg", "read", "status"},
                                       count : Nat]]
      BY <1>0, <1>2 DEF SessionTypes, Begin, Goto
    <2>4. /\ status' \in [Instruments -> Statuses] /\ data' \in [Instruments -> Seq(Units)]
          /\ calls' \in Nat
      BY <1>0, <1>2 DEF SessionTypes, Begin, Statuses, Hows
    <2>5. UNCHANGED <<lock, gpibAddr, plusPlusRead, wrote, clean, returned>>
      BY <1>2 DEF Begin, intfc
    <2>1. SessionTypes'
      BY <1>0, <2>3, <2>4, <2>5 DEF SessionTypes
    <2>2. Locking'
      BY <1>0, <1>2 DEF SessionTypes, Locking, Begin, intfc, Goto, At, Inside
    <2> QED BY <2>1, <2>2
  <1>3. ASSUME NEW i \in Instruments, Lock(i)
        PROVE  SessionTypes' /\ Locking'
    BY <1>0, <1>3 DEF SessionTypes, Locking, Lock, Goto, At, Inside
  <1>4. ASSUME NEW i \in Instruments, Address(i)
        PROVE  SessionTypes' /\ Locking'
    <2>1. Then(op[i].name) \in {"receive", "poll", "send"}
      BY DEF Then
    <2>2. clean' \in [Instruments -> BOOLEAN]
      <3>1. (Quiet \/ Continues(i)) \in BOOLEAN
        BY DEF Quiet, Continues
      <3> QED BY <3>1, <1>0, <1>4, Zenon DEF Address, SessionTypes
    <2>3. op[i].name = "read" <=> Then(op[i].name) = "receive"
      BY DEF Then
    <2>4. op[i].name = "status" <=> Then(op[i].name) = "poll"
      BY DEF Then
    <2>5. Locking'
      <3>1. pc[i] = "address" /\ lock = i /\ status[i] = "none"
        BY <1>0, <1>4 DEF Address, At, Locking, Inside
      <3>2. pc' = [pc EXCEPT ![i] = Then(op[i].name)] /\ gpibAddr' = i /\ UNCHANGED <<lock, op, status>>
        BY <1>4 DEF Address, Goto
      <3>3. op[i].name \in {"none", "write", "clr", "trg", "read", "status"}
        BY <1>0 DEF SessionTypes
      <3>4. Then(op[i].name) = "send" => op[i].name \in {"none", "write", "clr", "trg"}
        BY <3>3 DEF Then
      <3>5. op[i].name # "none"
        BY <3>1, <1>0 DEF Locking
      <3> HIDE DEF Then
      <3> QED BY <1>0, <3>1, <3>2, <3>4, <3>5, <2>1, <2>3, <2>4 DEF Locking, SessionTypes, Inside
    <2>6. SessionTypes'
      <3> HIDE DEF Then
      <3> QED BY <1>0, <1>4, <2>1, <2>2 DEF SessionTypes, Address, Goto, Inside
    <2> QED BY <2>5, <2>6
  <1>5. ASSUME NEW i \in Instruments, Write(i)
        PROVE  SessionTypes' /\ Locking'
    BY <1>0, <1>5 DEF SessionTypes, Locking, Write, Release, Goto, At, Inside
  <1>6. ASSUME NEW i \in Instruments, WriteOob(i)
        PROVE  SessionTypes' /\ Locking'
    BY <1>0, <1>6 DEF SessionTypes, Locking, WriteOob, Release, Goto, At, Inside
  <1>7. ASSUME NEW i \in Instruments, Poll(i)
        PROVE  SessionTypes' /\ Locking'
    BY <1>0, <1>7 DEF SessionTypes, Locking, Poll, Goto, At, Inside, intfc
  <1>8. ASSUME NEW i \in Instruments, PlusPlusRead(i)
        PROVE  SessionTypes' /\ Locking'
    BY <1>0, <1>8 DEF SessionTypes, Locking, PlusPlusRead, Goto, At, Inside
  <1>9. ASSUME NEW i \in Instruments, Return(i)
        PROVE  SessionTypes' /\ Locking'
    <2> DEFINE n == Len(cut.out)
    <2>1. /\ data' = [data EXCEPT ![i] = cut.out]
          /\ status' = [status EXCEPT ![i] = ReadStatus]
          /\ IF op[i].name = "read"
               THEN /\ returned' = [returned EXCEPT ![i] = IF clean[i] THEN @ + n ELSE @]
                    /\ UNCHANGED clean
               ELSE /\ clean' = [clean EXCEPT ![i] = @ /\ ReadStatus # "timeout"]
                    /\ UNCHANGED returned
      BY <1>9, Zenon DEF Return
    <2>2. cut.out \in Seq(Units) /\ n \in Nat /\ ReadStatus \in Statuses
      BY <1>9, ReturnDoes
    <2> HIDE DEF n
    <2>3. /\ lock' = Nobody /\ pc' = [pc EXCEPT ![i] = "idle"] /\ pc[i] = "loop"
          /\ UNCHANGED <<gpibAddr, plusPlusRead, op, calls, wrote>>
      BY <1>9 DEF Return, Release, Goto, At
    <2>4. clean' \in [Instruments -> BOOLEAN]
      BY <1>0, <2>1, Zenon DEF SessionTypes
    <2>5. returned' \in [Instruments -> Nat]
      <3>3. returned \in [Instruments -> Nat]
        BY <1>0 DEF SessionTypes
      <3>4. returned[i] \in Nat
        BY <3>3
      <3>1. returned \in [Instruments -> Nat] /\ returned[i] + n \in Nat
        BY ONLY <2>2, <3>3, <3>4
      <3>2. \/ returned' = returned
            \/ returned' = [returned EXCEPT ![i] = returned[i] + n]
            \/ returned' = [returned EXCEPT ![i] = returned[i]]
        BY <2>1, Zenon
      <3> QED BY <3>1, <3>2
    <2>6. SessionTypes'
      BY <1>0, <2>1, <2>2, <2>3, <2>4, <2>5 DEF SessionTypes
    <2>7. Locking'
      BY <1>0, <2>1, <2>3 DEF SessionTypes, Locking, Inside
    <2> QED BY <2>6, <2>7
  <1>10. ASSUME NEW i \in Instruments, NEW mask \in Masks, Flush(i, mask)
         PROVE  SessionTypes' /\ Locking'
    <2>1. clean' \in [Instruments -> BOOLEAN]
      BY <1>0, <1>10, Zenon DEF SessionTypes, Flush
    <2>2. calls' \in Nat /\ UNCHANGED <<intfc, pc, op, wrote, status, data, returned>>
      BY <1>0, <1>10 DEF SessionTypes, Flush
    <2> QED BY <1>0, <2>1, <2>2 DEF SessionTypes, Locking, intfc
  <1>11. CASE Execute
    BY <1>1, <1>11 DEF Execute
  <1>12. ASSUME NEW i \in Instruments, Receive(i)
         PROVE  SessionTypes' /\ Locking'
    BY <1>1, <1>12 DEF Receive
  <1>13. CASE UNCHANGED vars
    BY <1>1, <1>13 DEF vars
  <1>14. Line \in Nat /\ Line > 0
    BY DEF Line
  <1> QED
    BY <1>0, <1>2, <1>3, <1>4, <1>5, <1>6, <1>7, <1>8, <1>9, <1>10, <1>11, <1>12, <1>13, <1>14
    DEF Next, CallStep

(* A step that leaves the read under way alone, or that makes its call     *)
(* unclean.                                                                *)
LEMMA CuttingStays ==
  ASSUME Base, UNCHANGED <<chunk, cut, termEn>>,
         \A i \in Instruments : (pc'[i] = "loop") <=> (pc[i] = "loop"),
         \A i \in Instruments : pc[i] = "loop" /\ clean'[i] =>
             (clean[i] /\ pending' = pending /\ op'[i] = op[i])
  PROVE  Cutting'
  <1>1. Cutting
    BY DEF Base
  <1>2. (\A i \in Instruments : pc'[i] # "loop") => (cut' = NoCut /\ chunk' = <<>>)
    BY <1>1 DEF Cutting
  <1>3. ASSUME NEW i \in Instruments, clean'[i], pc'[i] = "loop"
        PROVE  Settled(i)'
    <2>1. clean[i] /\ pc[i] = "loop" /\ pending' = pending /\ op'[i] = op[i]
      BY <1>3
    <2>2. Settled(i)
      BY <1>1, <2>1 DEF Cutting
    <2>3. (HasTerm' <=> HasTerm) /\ TermIndex' = TermIndex
      BY <2>1, SameBuffer
    <2> QED BY <2>1, <2>2, <2>3 DEF Settled, Fits, Front, Behind
  <1> QED BY <1>1, <1>2, <1>3 DEF Cutting

(* The thread in the middle of a read is the only one.                     *)
LEMMA OneInside ==
  ASSUME Base, NEW i \in Instruments, pc[i] \in Inside, NEW j \in Instruments, pc[j] \in Inside
  PROVE  i = j
  BY DEF Base, Locking

LEMMA ReceiveSettles ==
  ASSUME Base, NEW i \in Instruments, Receive(i), clean[i]
  PROVE  Settled(i)'
  <1> DEFINE count == op[i].count
  <1>1. /\ pending \in Seq(Units) /\ Len(pending) \in Nat /\ count \in Nat
        /\ cut \in Cuts(Units) /\ Settled(i)
        /\ op' = op /\ termEn' = termEn
    BY LenProperties DEF Base, SocketTypes, SessionTypes, Cutting, Receive, At, sessions
  <1>2. CASE ReadRecv(count) \/ ReadExtend
    <2>1. cut' = cut /\ cut.at = "loop"
      BY <1>2 DEF ReadRecv, ReadExtend, Base, Cutting
    <2> QED BY <2>1 DEF Settled
  <1>3. ASSUME pending' = pending
        PROVE  (HasTerm' <=> HasTerm) /\ TermIndex' = TermIndex
    BY <1>1, <1>3, SameBuffer
  <1>4. CASE ReadTests(count) \/ ReadIndex(count)
    <2>1. Decides(count)
      <3> HIDE DEF count
      <3> QED BY <1>1, <1>4, DecisionFits
    <2>2. (HasTerm' <=> HasTerm) /\ TermIndex' = TermIndex /\ pending' = pending
      BY <1>3, <2>1 DEF Decides
    <2> QED BY <1>1, <2>1, <2>2 DEF Settled, Decides, Fits
  <1>6. CASE ReadCut
    <2>1. /\ pending' = pending /\ cut.at = "cut"
          /\ cut'.at = "rest" /\ cut'.size = cut.size /\ cut'.how = cut.how
          /\ cut'.out = Front(cut.size)
      BY <1>1, <1>6 DEF ReadCut, Cuts
    <2>2. (HasTerm' <=> HasTerm) /\ TermIndex' = TermIndex
      BY <1>3, <2>1
    <2> QED BY <1>1, <2>1, <2>2 DEF Settled, Fits, Front
  <1>7. CASE ReadRest
    <2>1. /\ pending' = pending /\ cut.at = "rest"
          /\ cut'.at = "store" /\ cut'.size = cut.size /\ cut'.how = cut.how
          /\ cut'.out = cut.out /\ cut'.rest = Behind(cut.size)
      BY <1>1, <1>7 DEF ReadRest, Cuts
    <2>2. (HasTerm' <=> HasTerm) /\ TermIndex' = TermIndex
      BY <1>3, <2>1
    <2> QED BY <1>1, <2>1, <2>2 DEF Settled, Fits, Front, Behind
  <1> QED BY <1>2, <1>4, <1>6, <1>7 DEF Receive

LEMMA CuttingStep ==
  ASSUME Base, [Next]_vars
  PROVE  Cutting'
  <1>0. /\ pc \in [Instruments -> {"idle", "lock"} \cup Inside] /\ clean \in [Instruments -> BOOLEAN]
        /\ op \in [Instruments -> [name : {"none", "write", "clr", "trg", "read", "status"}, count : Nat]]
        /\ Cutting
    BY DEF Base, SessionTypes
  <1>1. ASSUME NEW i \in Instruments, NEW name, NEW count, Begin(i, name, count)
        PROVE  Cutting'
    <2>1. /\ pc[i] = "idle" /\ pc' = [pc EXCEPT ![i] = "lock"]
          /\ op' = [op EXCEPT ![i] = [name |-> name, count |-> count]]
          /\ UNCHANGED <<socket, clean>>
      BY <1>1 DEF Begin, At, Goto
    <2>2. UNCHANGED <<pending, chunk, cut, termEn>>
      BY <2>1 DEF socket
    <2> QED BY <1>0, <2>1, <2>2, CuttingStays
  <1>2. ASSUME NEW i \in Instruments, Lock(i) \/ Address(i) \/ WriteOob(i) \/ Poll(i)
        PROVE  Cutting'
    <2>1. pc[i] # "loop" /\ \E there : there # "loop" /\ pc' = [pc EXCEPT ![i] = there]
      BY <1>2 DEF Lock, Address, WriteOob, Poll, At, Goto, Release, Then
    <2>2. UNCHANGED <<socket, op>> /\ \A j \in Instruments : j # i => clean'[j] = clean[j]
      BY <1>0, <1>2 DEF Lock, Address, WriteOob, Poll
    <2>3. UNCHANGED <<pending, chunk, cut, termEn>>
      BY <2>2 DEF socket
    <2> QED BY <1>0, <2>1, <2>2, <2>3, CuttingStays
  <1>3. ASSUME NEW i \in Instruments, Write(i)
        PROVE  Cutting'
    <2>1. pc[i] = "send" /\ pc' = [pc EXCEPT ![i] = "idle"] /\ UNCHANGED <<termEn, chunk, cut, op>>
      BY <1>3 DEF Write, At, Goto, Release
    <2>2. \A j \in Instruments : pc[j] # "loop"
      BY <2>1, OneInside DEF Inside
    <2> QED BY <1>0, <2>1, <2>2, CuttingStays
  <1>4. ASSUME NEW i \in Instruments, PlusPlusRead(i)
        PROVE  Cutting'
    <2>1. pc[i] = "receive" /\ pc' = [pc EXCEPT ![i] = "loop"] /\ UNCHANGED socket
      BY <1>4 DEF PlusPlusRead, At, Goto
    <2>2. \A j \in Instruments : pc[j] # "loop"
      BY <2>1, OneInside DEF Inside
    <2>3. cut = NoCut /\ chunk = <<>> /\ cut' = cut /\ chunk' = chunk
      BY <1>0, <2>1, <2>2 DEF Cutting, socket
    <2>4. cut'.at = "loop"
      BY <2>3 DEF NoCut
    <2>5. pc'[i] = "loop"
      BY <1>0, <2>1
    <2> QED BY <2>4, <2>5 DEF Cutting, Settled
  <1>5. ASSUME NEW i \in Instruments, Receive(i)
        PROVE  Cutting'
    <2>1. pc[i] = "loop" /\ UNCHANGED <<pc, clean>>
      BY <1>5 DEF Receive, At, sessions
    <2>2. \A j \in Instruments : pc'[j] = "loop" => j = i
      BY <2>1, OneInside DEF Inside
    <2>3. cut'.at # "loop" => chunk' = <<>>
      BY <1>0, <1>5 DEF Receive, ReadRecv, ReadExtend, ReadTests, ReadIndex, ReadCut, ReadRest, Cutting
    <2>4. clean'[i] => Settled(i)'
      BY <1>5, <2>1, ReceiveSettles
    <2> QED BY <2>1, <2>2, <2>3, <2>4 DEF Cutting
  <1>6. ASSUME NEW i \in Instruments, Return(i)
        PROVE  Cutting'
    <2>1. pc[i] = "loop" /\ pc' = [pc EXCEPT ![i] = "idle"]
      BY <1>6 DEF Return, At, Goto, Release
    <2>2. \A j \in Instruments : pc'[j] # "loop"
      BY <1>0, <2>1, OneInside DEF Inside
    <2>3. chunk' = <<>> /\ cut' = NoCut
      BY <1>6, ReturnDoes
    <2> QED BY <2>2, <2>3 DEF Cutting
  <1>7. ASSUME NEW i \in Instruments, NEW mask \in Masks, Flush(i, mask)
        PROVE  Cutting'
    <2>1. UNCHANGED <<termEn, chunk, cut, pc, op>> /\ SocketFlush(mask)
          /\ clean' = [j \in Instruments |-> clean[j] /\ mask = "flush_write_buffer"]
      BY <1>7 DEF Flush
    <2>2. ASSUME NEW j \in Instruments, clean'[j]
          PROVE  clean[j] /\ mask = "flush_write_buffer"
      BY <2>1, <2>2, Zenon
    <2>3. mask = "flush_write_buffer" => pending' = pending
      BY <2>1 DEF SocketFlush
    <2> QED BY <2>1, <2>2, <2>3, CuttingStays
  <1>8. CASE Execute \/ UNCHANGED vars
    <2>1. UNCHANGED <<pending, chunk, cut, termEn, pc, clean, op>>
      BY <1>8 DEF Execute, vars, socket, sessions
    <2> QED BY <2>1, CuttingStays
  <1> QED
    BY <1>1, <1>2, <1>3, <1>4, <1>5, <1>6, <1>7, <1>8 DEF Next, CallStep
-----------------------------------------------------------------------------
(* What a step does to the commands: nothing, or a thread sends an "++addr"*)
(* or something for the cached address, or the adapter executes.           *)
Sends(i, c) ==
    /\ commands' = Append(commands, c) /\ c \in Commands /\ c.by = i
    /\ gpibAddr' = i
    /\ UNCHANGED <<selected, answer>>

LEMMA CommandKinds ==
  ASSUME Base, [Next]_vars
  PROVE  \/ UNCHANGED <<adapter, gpibAddr, wrote>>
         \/ \E i \in Instruments, c \in Commands :
               /\ Sends(i, c)
               /\ c.name # "addr" => gpibAddr = i /\ lock = i
               /\ c.name = "data" => Write(i) /\ c.no = wrote'[i]
               /\ c.name # "data" => UNCHANGED wrote
         \/ Execute /\ UNCHANGED <<gpibAddr, wrote>>
  <1>0. SessionTypes /\ Locking /\ calls \in Nat
    BY DEF Base, SessionTypes
  <1>1. ASSUME NEW i \in Instruments, Address(i)
        PROVE  \/ UNCHANGED <<adapter, gpibAddr, wrote>>
               \/ Sends(i, Command(i, "addr", 0)) /\ Command(i, "addr", 0) \in Commands
                  /\ UNCHANGED wrote
    BY <1>1 DEF Address, Send, Sends, Command, Commands, adapter
  <1>2. ASSUME NEW i \in Instruments, Write(i)
        PROVE  Sends(i, Command(i, "data", calls)) /\ Command(i, "data", calls) \in Commands
               /\ gpibAddr = i /\ lock = i /\ calls = wrote'[i]
    BY <1>0, <1>2 DEF Write, Send, Sends, Command, Commands, Locking, At, Inside, SessionTypes
  <1>3. ASSUME NEW i \in Instruments, WriteOob(i)
        PROVE  Sends(i, Command(i, op[i].name, 0)) /\ Command(i, op[i].name, 0) \in Commands
               /\ op[i].name \in {"clr", "trg"} /\ UNCHANGED wrote /\ gpibAddr = i /\ lock = i
    BY <1>0, <1>3 DEF WriteOob, Send, Sends, Command, Commands, Locking, At, Inside
  <1>4. ASSUME NEW i \in Instruments, Poll(i)
        PROVE  Sends(i, Command(i, "spoll", 0)) /\ Command(i, "spoll", 0) \in Commands
               /\ gpibAddr = i /\ lock = i /\ UNCHANGED wrote
    BY <1>0, <1>4 DEF Poll, Send, Sends, Command, Commands, Locking, At, Inside, intfc
  <1>5. ASSUME NEW i \in Instruments, PlusPlusRead(i)
        PROVE  \/ UNCHANGED <<adapter, gpibAddr, wrote>>
               \/ Sends(i, Command(i, "read", 0)) /\ Command(i, "read", 0) \in Commands
                  /\ gpibAddr = i /\ lock = i /\ UNCHANGED wrote
    BY <1>0, <1>5 DEF PlusPlusRead, Send, Sends, Command, Commands, Locking, At, Inside, adapter
  <1>6. ASSUME NEW i \in Instruments,
               \/ \E name \in {"write", "clr", "trg"} : Begin(i, name, 0)
               \/ \E n \in Counts : Begin(i, "read", n)
               \/ Begin(i, "status", Line)
               \/ \E mask \in Masks : Flush(i, mask)
               \/ Lock(i) \/ Receive(i) \/ Return(i)
        PROVE  UNCHANGED <<adapter, gpibAddr, wrote>>
    BY <1>6 DEF Begin, Flush, Lock, Receive, Return, intfc, sessions
  <1>7. CASE Execute
    BY <1>7 DEF Execute, intfc, sessions
  <1>8. CASE UNCHANGED vars
    BY <1>8 DEF vars, intfc, sessions
  <1>9. \A i \in Instruments, no \in Nat, name \in {"addr", "data", "clr", "trg", "spoll", "read"} :
          /\ Command(i, name, no).name = name
          /\ Command(i, name, no).no = no
    BY DEF Command
  <1>10. ASSUME NEW i \in Instruments, Address(i) \/ Write(i) \/ WriteOob(i) \/ Poll(i) \/ PlusPlusRead(i)
         PROVE  \/ UNCHANGED <<adapter, gpibAddr, wrote>>
                \/ \E c \in Commands :
                      /\ Sends(i, c)
                      /\ c.name # "addr" => gpibAddr = i /\ lock = i
                      /\ c.name = "data" => Write(i) /\ c.no = wrote'[i]
                      /\ c.name # "data" => UNCHANGED wrote
    <2> HIDE DEF Sends, Commands
    <2>1. CASE Address(i)
      BY <2>1, <1>1, <1>9
    <2>2. CASE Write(i)
      BY <2>2, <1>2, <1>9, <1>0
    <2>3. CASE WriteOob(i)
      BY <2>3, <1>3, <1>9
    <2>4. CASE Poll(i)
      BY <2>4, <1>4, <1>9
    <2>5. CASE PlusPlusRead(i)
      BY <2>5, <1>5, <1>9
    <2> QED BY <1>10, <2>1, <2>2, <2>3, <2>4, <2>5
  <1> QED BY <1>6, <1>7, <1>8, <1>10, Zenon DEF Next, CallStep

(* What one more command, or one less, is in the numbering of the queue.   *)
LEMMA AppendedCommand ==
  ASSUME NEW q \in Seq(Commands), NEW c \in Commands
  PROVE  /\ Append(q, c) \in Seq(Commands) /\ Append(q, c) # <<>>
         /\ Len(Append(q, c)) = Len(q) + 1
         /\ Append(q, c)[Len(q) + 1] = c
         /\ \A k \in 1..Len(q) : Append(q, c)[k] = q[k]
         /\ Len(q) \in Nat
         /\ q = <<>> <=> Len(q) = 0
  OBVIOUS

LEMMA TailOfCommands ==
  ASSUME NEW q \in Seq(Commands), q # <<>>
  PROVE  /\ Tail(q) \in Seq(Commands) /\ Head(q) \in Commands /\ Head(q) = q[1]
         /\ Len(q) \in Nat \ {0} /\ Len(Tail(q)) = Len(q) - 1
         /\ \A k \in 1..Len(q) - 1 : Tail(q)[k] = q[k + 1]
         /\ Tail(q) = <<>> <=> Len(q) = 1
  <1>1. Len(q) \in Nat \ {0} /\ Head(q) = q[1] /\ q[1] \in Commands
    OBVIOUS
  <1>2. Tail(q) \in Seq(Commands) /\ Len(Tail(q)) = Len(q) - 1
    BY <1>1
  <1>3. \A k \in 1..Len(q) - 1 : Tail(q)[k] = q[k + 1]
    BY <1>1, <1>2
  <1>4. Tail(q) = <<>> <=> Len(Tail(q)) = 0
    BY <1>2, EmptySeq
  <1> QED BY <1>1, <1>2, <1>3, <1>4

(* What the adapter executes is for the selected instrument, unless it     *)
(* selects one.                                                            *)
LEMMA ForSelected ==
  ASSUME Base, Execute
  PROVE  /\ Head(commands) \in Commands
         /\ Head(commands).name # "addr" => Head(commands).by = selected
  <1>1. commands \in Seq(Commands) /\ commands # <<>> /\ Chain
    BY DEF Base, AdapterTypes, Execute
  <1> QED BY <1>1, TailOfCommands DEF Chain

LEMMA AdapterStep ==
  ASSUME Base, [Next]_vars
  PROVE  AdapterTypes' /\ Chain'
  <1>0. AdapterTypes /\ Chain /\ gpibAddr \in Instruments \cup {Nobody}
    BY DEF Base, SessionTypes
  <1>1. CASE UNCHANGED <<adapter, gpibAddr, wrote>>
    BY <1>0, <1>1 DEF AdapterTypes, Chain, adapter
  <1>2. ASSUME NEW i \in Instruments, NEW c \in Commands, Sends(i, c),
               c.name # "addr" => gpibAddr = i
        PROVE  AdapterTypes' /\ Chain'
    <2>1. commands \in Seq(Commands) /\ commands' = Append(commands, c)
      BY <1>0, <1>2 DEF AdapterTypes, Sends
    <2>2. /\ commands' \in Seq(Commands) /\ commands' # <<>>
          /\ Len(commands') = Len(commands) + 1
          /\ commands'[Len(commands) + 1] = c
          /\ \A k \in 1..Len(commands) : commands'[k] = commands[k]
          /\ Len(commands) \in Nat
          /\ commands = <<>> <=> Len(commands) = 0
      BY <2>1, AppendedCommand
    <2>3. gpibAddr' = i /\ c.by = i /\ UNCHANGED <<selected, answer>>
      BY <1>2 DEF Sends
    <2>4. AdapterTypes'
      BY <1>0, <2>2, <2>3 DEF AdapterTypes
    <2>5. ASSUME NEW k \in 1..Len(commands') - 1, commands'[k + 1].name # "addr"
          PROVE  commands'[k + 1].by = commands'[k].by
      <3>1. CASE k < Len(commands)
        <4>1. k \in 1..Len(commands) - 1 /\ k \in 1..Len(commands) /\ k + 1 \in 1..Len(commands)
          BY <2>2, <3>1
        <4>2. commands'[k] = commands[k] /\ commands'[k + 1] = commands[k + 1]
          BY <2>2, <4>1
        <4> QED BY <1>0, <2>5, <4>1, <4>2 DEF Chain
      <3>2. CASE k = Len(commands)
        <4>1. commands'[k + 1] = c /\ commands'[k] = commands[k] /\ commands # <<>> /\ commands[k].by = gpibAddr
          BY <1>0, <2>2, <3>2 DEF Chain
        <4> QED BY <1>2, <2>3, <2>5, <4>1
      <3> QED BY <2>2, <3>1, <3>2
    <2>6. commands'[1].name # "addr" => commands'[1].by = selected
      <3>1. CASE commands = <<>>
        BY <1>0, <1>2, <2>2, <2>3, <3>1 DEF Chain
      <3>2. CASE commands # <<>>
        BY <1>0, <2>2, <3>2 DEF Chain
      <3> QED BY <3>1, <3>2
    <2> QED BY <2>2, <2>3, <2>4, <2>5, <2>6 DEF Chain
  <1>3. CASE Execute /\ UNCHANGED <<gpibAddr, wrote>>
    <2>1. commands \in Seq(Commands) /\ commands # <<>> /\ commands' = Tail(commands)
      BY <1>0, <1>3 DEF AdapterTypes, Execute
    <2>2. /\ commands' \in Seq(Commands) /\ Head(commands) = commands[1] /\ Head(commands) \in Commands
          /\ Len(commands) \in Nat \ {0} /\ Len(commands') = Len(commands) - 1
          /\ \A k \in 1..Len(commands) - 1 : commands'[k] = commands[k + 1]
          /\ commands' = <<>> <=> Len(commands) = 1
      BY <2>1, TailOfCommands
    <2>3. Head(commands).name # "addr" => Head(commands).by = selected
      BY <1>3, ForSelected
    <2>4. selected' = Head(commands).by
      <3>1. \/ Head(commands).name = "addr" /\ selected' = Head(commands).by
            \/ Head(commands).name # "addr" /\ selected' = selected
        BY <1>3 DEF Execute
      <3> QED BY <2>3, <3>1
    <2>5. Head(commands).by \in Instruments
      BY <2>2 DEF Commands
    <2>6. answer' \in [Instruments -> Seq(Units)]
      <3>1. CASE Head(commands).name = "data"
        <4>1. selected \in Instruments /\ Head(commands).no \in Nat
          BY <2>2, <2>3, <2>5, <3>1 DEF Commands
        <4>2. answer' = [answer EXCEPT ![selected] = Response(selected, Head(commands).no)]
          BY <1>3, <3>1 DEF Execute
        <4>3. Response(selected, Head(commands).no) \in Seq(Units)
          BY <4>1, UnitTypes
        <4> QED BY <1>0, <4>1, <4>2, <4>3 DEF AdapterTypes
      <3>2. CASE Head(commands).name # "data"
        <4>1. answer' = answer \/ answer' = [answer EXCEPT ![selected] = <<>>]
          BY <1>3, <3>2 DEF Execute
        <4>2. <<>> \in Seq(Units) /\ answer \in [Instruments -> Seq(Units)]
          BY <1>0 DEF AdapterTypes
        <4> QED BY <4>1, <4>2
      <3> QED BY <3>1, <3>2
    <2>7. AdapterTypes'
      BY <2>2, <2>4, <2>5, <2>6 DEF AdapterTypes
    <2>8. \A k \in 1..Len(commands') - 1 :
            /\ commands'[k] = commands[k + 1] /\ commands'[k + 1] = commands[k + 2]
            /\ k + 1 \in 1..Len(commands) - 1
      BY <2>2
    <2>9. \A k \in 1..Len(commands') - 1 :
            commands'[k + 1].name # "addr" => commands'[k + 1].by = commands'[k].by
      <3> TAKE k \in 1..Len(commands') - 1
      <3>1. k + 1 \in 1..Len(commands) - 1 /\ (k + 1) + 1 = k + 2
        BY <2>8, <2>2
      <3>2. commands[k + 2].name # "addr" => commands[k + 2].by = commands[k + 1].by
        BY <1>0, <3>1 DEF Chain
      <3> QED BY <2>8, <3>2
    <2>10. CASE Len(commands) = 1
      <3>1. commands' = <<>> /\ commands[Len(commands)].by = gpibAddr
        BY <1>0, <2>1, <2>2, <2>10 DEF Chain
      <3>2. selected' = gpibAddr'
        BY <1>3, <2>2, <2>4, <2>10, <3>1
      <3>3. Chain'
        BY <2>9, <3>1, <3>2, Zenon DEF Chain
      <3> QED BY <2>7, <3>3
    <2>11. CASE Len(commands) > 1
      <3>1. commands'[1] = commands[2] /\ commands'[Len(commands')] = commands[Len(commands)]
        BY <2>2, <2>11
      <3>2. commands[2].name # "addr" => commands[2].by = commands[1].by
        <4>1. 1 \in 1..Len(commands) - 1 /\ 1 + 1 = 2
          BY <2>2, <2>11
        <4> QED BY <1>0, <4>1 DEF Chain
      <3>3. commands[Len(commands)].by = gpibAddr
        BY <1>0, <2>1 DEF Chain
      <3>4. commands' # <<>>
        BY <2>2, <2>11
      <3>5. commands'[1].name # "addr" => commands'[1].by = selected'
        BY <2>2, <2>4, <3>1, <3>2
      <3>6. commands'[Len(commands')].by = gpibAddr'
        BY <1>3, <3>1, <3>3
      <3>7. Chain'
        BY <2>9, <3>4, <3>5, <3>6, Zenon DEF Chain
      <3> QED BY <2>7, <3>7
    <2> QED BY <2>2, <2>7, <2>10, <2>11
  <1> QED BY <1>1, <1>2, <1>3, CommandKinds, Zenon

LEMMA BaseStep == Base /\ [Next]_vars => Base'
  BY SocketTypesStep, SessionTypesStep, CuttingStep, AdapterStep DEF Base

(* The lock, the cached address and the queue of commands agree, always.  *)
THEOREM Base_holds == Spec => []Base
  BY InitBase, BaseStep, PTL DEF Spec

(* Whatever is sent on behalf of an instrument reaches that instrument.    *)
THEOREM Reaches_its_instrument == Spec => ReachesItsInstrument
  <1>1. Base /\ [Next]_vars =>
          [(Execute /\ Head(commands).name # "addr") => selected = Head(commands).by]_vars
    BY ForSelected
  <1> QED BY <1>1, Base_holds, PTL DEF Spec, ReachesItsInstrument
-----------------------------------------------------------------------------
(* The invariant of the data.                                              *)
Data == LastData /\ Answers /\ NotReturned /\ OwnStream /\ ReadsOwnResponse

LEMMA InitData == Init => Data
  BY ConstantsAssumption
  DEF Init, Data, LastData, Answers, NotReturned, OwnStream, Owns, ReadsOwnResponse

LEMMA LastDataStep ==
  ASSUME Base, LastData, [Next]_vars
  PROVE  LastData'
  <1>0. commands \in Seq(Commands) /\ wrote \in [Instruments -> Nat]
    BY DEF Base, AdapterTypes, SessionTypes
  <1>1. CASE UNCHANGED <<adapter, gpibAddr, wrote>>
    BY <1>1 DEF LastData, IsData, adapter
  <1>2. ASSUME NEW i \in Instruments, NEW c \in Commands, Sends(i, c),
               c.name = "data" => Write(i) /\ c.no = wrote'[i],
               c.name # "data" => UNCHANGED wrote
        PROVE  LastData'
    <2>1. /\ Len(commands') = Len(commands) + 1 /\ Len(commands) \in Nat
          /\ commands'[Len(commands) + 1] = c
          /\ \A k \in 1..Len(commands) : commands'[k] = commands[k]
      BY <1>0, <1>2, AppendedCommand DEF Sends
    <2>2. SUFFICES ASSUME NEW j \in Instruments, NEW k \in 1..Len(commands'),
                          IsData(k, j)', \A m \in k + 1..Len(commands') : ~ IsData(m, j)'
                   PROVE  commands'[k].no = wrote'[j]
      BY DEF LastData
    <2>3. CASE k = Len(commands) + 1
      BY <1>2, <2>1, <2>2, <2>3 DEF IsData, Sends
    <2>4. CASE k \in 1..Len(commands)
      <3>1. ~ (c.name = "data" /\ c.by = j)
        <4>1. Len(commands) + 1 \in k + 1..Len(commands')
          BY <2>1, <2>4
        <4> QED BY <2>1, <2>2, <4>1 DEF IsData
      <3>2. wrote'[j] = wrote[j]
        <4>1. CASE c.name # "data"
          BY <1>2, <4>1
        <4>2. CASE c.name = "data" /\ i # j
          BY <1>0, <1>2, <4>2 DEF Write
        <4> QED BY <1>2, <3>1, <4>1, <4>2 DEF Sends
      <3>3. IsData(k, j)
        BY <2>1, <2>2, <2>4 DEF IsData
      <3>4. \A m \in k + 1..Len(commands) : ~ IsData(m, j)
        <4> TAKE m \in k + 1..Len(commands)
        <4>1. m \in 1..Len(commands) /\ m \in k + 1..Len(commands')
          BY <2>1, <2>4
        <4> QED BY <2>1, <2>2, <4>1 DEF IsData
      <3>5. commands[k].no = wrote[j]
        BY <2>4, <3>3, <3>4 DEF LastData
      <3> QED BY <2>1, <2>4, <3>2, <3>5
    <2> QED BY <2>1, <2>3, <2>4
  <1>3. CASE Execute /\ UNCHANGED <<gpibAddr, wrote>>
    <2>1. /\ Len(commands) \in Nat \ {0} /\ Len(commands') = Len(commands) - 1
          /\ \A k \in 1..Len(commands) - 1 : commands'[k] = commands[k + 1]
      BY <1>0, <1>3, TailOfCommands DEF Execute
    <2>2. SUFFICES ASSUME NEW j \in Instruments, NEW k \in 1..Len(commands'),
                          IsData(k, j)', \A m \in k + 1..Len(commands') : ~ IsData(m, j)'
                   PROVE  commands'[k].no = wrote[j]
      BY <1>3 DEF LastData
    <2>3. k + 1 \in 1..Len(commands) /\ commands'[k] = commands[k + 1]
      BY <2>1
    <2>4. IsData(k + 1, j)
      BY <2>2, <2>3 DEF IsData
    <2>5. \A m \in (k + 1) + 1..Len(commands) : ~ IsData(m, j)
      <3> TAKE m \in (k + 1) + 1..Len(commands)
      <3>1. m - 1 \in k + 1..Len(commands') /\ m - 1 \in 1..Len(commands) - 1 /\ (m - 1) + 1 = m
        BY <2>1
      <3>2. commands'[m - 1] = commands[m]
        BY <2>1, <3>1
      <3> QED BY <2>2, <3>1, <3>2 DEF IsData
    <2>6. commands[k + 1].no = wrote[j]
      BY <2>3, <2>4, <2>5 DEF LastData
    <2> QED BY <2>3, <2>6
  <1> QED BY <1>1, <1>2, <1>3, CommandKinds, Zenon

(* Whoever has no data under way after a step had none before, but for the *)
(* command that is executed.                                               *)
NoData(i) == \A k \in 1..Len(commands) : ~ IsData(k, i)

LEMMA NoDataSends ==
  ASSUME Base, NEW i \in Instruments, NEW c \in Commands, Sends(i, c), NEW j \in Instruments
  PROVE  NoData(j)' <=> NoData(j) /\ ~ (c.name = "data" /\ c.by = j)
  <1>1. /\ Len(commands') = Len(commands) + 1 /\ Len(commands) \in Nat
        /\ commands'[Len(commands) + 1] = c
        /\ \A k \in 1..Len(commands) : commands'[k] = commands[k]
    BY AppendedCommand DEF Sends, Base, AdapterTypes
  <1>2. 1..Len(commands') = 1..Len(commands) \cup {Len(commands) + 1}
    BY <1>1
  <1> QED BY <1>1, <1>2 DEF NoData, IsData

LEMMA NoDataExecute ==
  ASSUME Base, Execute, NEW j \in Instruments
  PROVE  /\ NoData(j) => NoData(j)'
         /\ NoData(j)' /\ ~ IsData(1, j) => NoData(j)
         /\ NoData(j)' => \A k \in 1 + 1..Len(commands) : ~ IsData(k, j)
         /\ Head(commands) = commands[1] /\ 1 \in 1..Len(commands)
  <1>1. /\ Len(commands) \in Nat \ {0} /\ Len(commands') = Len(commands) - 1
        /\ \A k \in 1..Len(commands) - 1 : commands'[k] = commands[k + 1]
        /\ Head(commands) = commands[1]
    BY TailOfCommands DEF Execute, Base, AdapterTypes
  <1>2. ASSUME NoData(j)
        PROVE  NoData(j)'
    <2> SUFFICES ASSUME NEW k \in 1..Len(commands')
                 PROVE  ~ IsData(k, j)'
      BY DEF NoData
    <2>1. k + 1 \in 1..Len(commands) /\ commands'[k] = commands[k + 1]
      BY <1>1
    <2> QED BY <1>2, <2>1 DEF NoData, IsData
  <1>3. ASSUME NoData(j)', NEW k \in 1 + 1..Len(commands)
        PROVE  ~ IsData(k, j)
    <2>1. k - 1 \in 1..Len(commands') /\ k - 1 \in 1..Len(commands) - 1 /\ (k - 1) + 1 = k
      BY <1>1
    <2>2. commands'[k - 1] = commands[k]
      BY <1>1, <2>1
    <2> QED BY <1>3, <2>1, <2>2 DEF NoData, IsData
  <1>4. \A k \in 1..Len(commands) : k = 1 \/ k \in 1 + 1..Len(commands)
    BY <1>1
  <1> QED BY <1>1, <1>2, <1>3, <1>4 DEF NoData

(* Only data changes the answer to anything but nothing.                   *)
LEMMA AnswerStays ==
  ASSUME Base, Execute, NEW j \in Instruments, ~ IsData(1, j)
  PROVE  answer'[j] \in {answer[j], <<>>}
  <1>0. answer \in [Instruments -> Seq(Units)]
    BY DEF Base, AdapterTypes
  <1>1. /\ Head(commands) = commands[1] /\ Head(commands) \in Commands
        /\ Head(commands).name # "addr" => Head(commands).by = selected
    BY ForSelected, NoDataExecute
  <1>2. CASE Head(commands).name = "data"
    <2>1. selected # j /\ selected \in Instruments
      BY <1>1, <1>2 DEF IsData, Commands
    <2>2. answer' = [answer EXCEPT ![selected] = Response(selected, Head(commands).no)]
      BY <1>2 DEF Execute
    <2> QED BY <1>0, <2>1, <2>2
  <1>3. CASE Head(commands).name # "data"
    <2>1. answer' = answer \/ answer' = [answer EXCEPT ![selected] = <<>>]
      BY <1>3 DEF Execute
    <2> QED BY <1>0, <2>1
  <1> QED BY <1>2, <1>3

LEMMA AnswersStep ==
  ASSUME Base, LastData, Answers, [Next]_vars
  PROVE  Answers'
  <1>0. /\ commands \in Seq(Commands) /\ wrote \in [Instruments -> Nat]
        /\ answer \in [Instruments -> Seq(Units)]
    BY DEF Base, AdapterTypes, SessionTypes
  <1>1. SUFFICES ASSUME NEW j \in Instruments, NoData(j)'
                 PROVE  answer'[j] \in {<<>>, Response(j, wrote'[j])}
    BY DEF Answers, NoData
  <1>2. NoData(j) => answer[j] \in {<<>>, Response(j, wrote[j])}
    BY DEF Answers, NoData
  <1>3. CASE UNCHANGED <<adapter, gpibAddr, wrote>>
    BY <1>1, <1>2, <1>3 DEF adapter, NoData, IsData
  <1>4. ASSUME NEW i \in Instruments, NEW c \in Commands, Sends(i, c),
               c.name = "data" => Write(i) /\ c.no = wrote'[i],
               c.name # "data" => UNCHANGED wrote
        PROVE  answer'[j] \in {<<>>, Response(j, wrote'[j])}
    <2>1. NoData(j) /\ ~ (c.name = "data" /\ c.by = j)
      BY <1>1, <1>4, NoDataSends
    <2>2. wrote'[j] = wrote[j]
      <3>1. CASE c.name # "data"
        BY <1>4, <3>1
      <3>2. CASE c.name = "data" /\ i # j
        BY <1>0, <1>4, <3>2 DEF Write
      <3> QED BY <1>4, <2>1, <3>1, <3>2 DEF Sends
    <2>3. answer' = answer
      BY <1>4 DEF Sends
    <2> QED BY <1>2, <2>1, <2>2, <2>3
  <1>5. CASE Execute /\ UNCHANGED <<gpibAddr, wrote>>
    <2>1. /\ Head(commands) = commands[1] /\ Head(commands) \in Commands
          /\ Head(commands).name # "addr" => Head(commands).by = selected
      BY <1>5, ForSelected, NoDataExecute
    <2>2. CASE IsData(1, j)
      <3>1. selected = j /\ Head(commands).name = "data"
        BY <2>1, <2>2 DEF IsData
      <3>2. commands[1].no = wrote[j]
        BY <1>1, <1>5, <2>2, NoDataExecute DEF LastData
      <3>3. answer' = [answer EXCEPT ![j] = Response(j, wrote[j])]
        BY <1>5, <2>1, <3>1, <3>2 DEF Execute
      <3>4. answer'[j] = Response(j, wrote[j])
        BY <1>0, <3>3
      <3> QED BY <1>5, <3>4
    <2>3. CASE ~ IsData(1, j)
      <3>1. answer[j] \in {<<>>, Response(j, wrote[j])}
        BY <1>1, <1>2, <1>5, <2>3, NoDataExecute
      <3>2. answer'[j] \in {answer[j], <<>>}
        BY <1>5, <2>3, AnswerStays
      <3> QED BY <1>5, <3>1, <3>2
    <2> QED BY <2>2, <2>3
  <1> QED BY <1>3, <1>4, <1>5, CommandKinds, Zenon
-----------------------------------------------------------------------------
(* The stream is a sequence, empty when all of its parts are.              *)
LEMMA StreamTypes ==
  ASSUME Base
  PROVE  /\ Stream \in Seq(Units) /\ Len(Stream) \in Nat
         /\ Len(Stream) = Len(pending) + Len(chunk) + Len(arrived)
         /\ Stream = <<>> <=> pending = <<>> /\ chunk = <<>> /\ arrived = <<>>
         /\ pending # <<>> => pending[1] = Stream[1]
  <1> DEFINE p == pending
             c == chunk
             a == arrived
  <1>1. p \in Seq(Units) /\ c \in Seq(Units) /\ a \in Seq(Units)
    BY DEF Base, SocketTypes
  <1> HIDE DEF p, c, a
  <1> DEFINE d == p \o c
  <1>2. /\ d \in Seq(Units) /\ Len(d) = Len(p) + Len(c)
        /\ d = <<>> <=> p = <<>> /\ c = <<>>
        /\ p # <<>> => d # <<>> /\ d[1] = p[1]
    BY <1>1
  <1> HIDE DEF d
  <1>3. /\ d \o a \in Seq(Units) /\ Len(d \o a) = Len(d) + Len(a)
        /\ d \o a = <<>> <=> d = <<>> /\ a = <<>>
        /\ d # <<>> => (d \o a)[1] = d[1]
    BY <1>1, <1>2
  <1>4. Len(d \o a) \in Nat
    BY <1>3, LenProperties
  <1>5. Stream = d \o a
    BY DEF Stream, d, p, c, a
  <1> QED BY <1>2, <1>3, <1>4, <1>5 DEF p, c, a

(* recv moves units from one part of the stream to the next.               *)
LEMMA RecvKeepsStream ==
  ASSUME NEW S, NEW count \in Nat, ReadingTypes(S), ReadRecv(count) \/ ReadExtend
  PROVE  Stream' = Stream
  <1> DEFINE p == pending
             c == chunk
             a == arrived
  <1>1. p \in Seq(S) /\ c \in Seq(S) /\ a \in Seq(S) /\ MaxRecv \in Nat /\ p \o c \in Seq(S)
    BY MaxRecvAssumption, ConcatProperties DEF ReadingTypes
  <1>2. p \o <<>> = p /\ (p \o c) \o <<>> = p \o c
    BY <1>1, ConcatEmptySeq
  <1>3. CASE ReadRecv(count)
    <2> DEFINE k == Least(Least(count, MaxRecv), Len(arrived))
    <2>1. k \in 0..Len(a)
      BY <1>1 DEF Least
    <2>2. /\ chunk = <<>> /\ pending' = p
          /\ chunk' = SubSeq(a, 1, k) /\ arrived' = SubSeq(a, k + 1, Len(a))
      BY <1>3 DEF ReadRecv
    <2> HIDE DEF k, p, c, a
    <2> DEFINE f == SubSeq(a, 1, k)
               g == SubSeq(a, k + 1, Len(a))
    <2>3. f \in Seq(S) /\ g \in Seq(S) /\ f \o g = a
      BY <1>1, <2>1, CutSeq
    <2>4. chunk' = f /\ arrived' = g
      BY <2>2
    <2> HIDE DEF f, g
    <2>5. (p \o f) \o g = p \o (f \o g)
      <3>1. p \in Seq(S) /\ f \in Seq(S) /\ g \in Seq(S)
        BY <1>1, <2>3
      <3> QED BY ONLY <3>1, ConcatAssociative
    <2>6. Stream' = (p \o f) \o g
      BY <2>2, <2>4 DEF Stream
    <2>7. Stream = p \o a
      BY <1>2, <2>2 DEF Stream, p, a
    <2> QED BY <2>3, <2>5, <2>6, <2>7
  <1>4. CASE ReadExtend
    <2>1. pending' = p \o c /\ chunk' = <<>> /\ arrived' = a
      BY <1>4 DEF ReadExtend
    <2> QED BY <1>2, <2>1 DEF Stream
  <1> QED BY <1>3, <1>4

LEMMA ReceiveKeepsStream ==
  ASSUME Base, NEW i \in Instruments, Receive(i)
  PROVE  Stream' = Stream
  <1>1. op[i].count \in Nat /\ ReadingTypes(Units)
    BY DEF Base, SocketTypes, SessionTypes, ReadingTypes
  <1>2. CASE ReadRecv(op[i].count) \/ ReadExtend
    BY <1>1, <1>2, RecvKeepsStream
  <1>3. CASE ReadTests(op[i].count) \/ ReadIndex(op[i].count) \/ ReadCut \/ ReadRest
    <2>1. UNCHANGED <<pending, chunk, arrived>>
      BY <1>3 DEF ReadTests, ReadIndex, ReadCut, ReadRest
    <2> QED BY <2>1 DEF Stream
  <1> QED BY <1>2, <1>3 DEF Receive

(* A read takes the first units of the stream.                             *)
LEMMA TakesFromStream ==
  ASSUME NEW S, pending \in Seq(S), arrived \in Seq(S), NEW n \in 0..Len(pending),
         pending' = SubSeq(pending, n + 1, Len(pending)), arrived' = arrived,
         chunk = <<>>, chunk' = <<>>
  PROVE  /\ n <= Len(Stream)
         /\ Stream' = SubSeq(Stream, n + 1, Len(Stream))
         /\ SubSeq(pending, 1, n) = SubSeq(Stream, 1, n)
  <1> DEFINE p == pending
             a == arrived
  <1>1. p \in Seq(S) /\ a \in Seq(S) /\ n \in Nat /\ n <= Len(p) /\ Len(p) \in Nat
    OBVIOUS
  <1>2. Stream' = SubSeq(p, n + 1, Len(p)) \o a
    <2>1. SubSeq(p, n + 1, Len(p)) \o <<>> = SubSeq(p, n + 1, Len(p))
      BY <1>1, CutSeq, ConcatEmptySeq
    <2> QED BY <2>1 DEF Stream
  <1>3. Stream = p \o a
    <2>1. p \o <<>> = p
      BY <1>1, ConcatEmptySeq
    <2> QED BY <2>1 DEF Stream
  <1> HIDE DEF p, a
  <1> DEFINE f == SubSeq(p, 1, n)
             g == SubSeq(p, n + 1, Len(p))
  <1>4. f \in Seq(S) /\ g \in Seq(S) /\ f \o g = p /\ Len(f) = n
    <2>1. n \in 0..Len(p)
      BY <1>1
    <2> QED BY <1>1, <2>1, CutSeq
  <1>5. f = SubSeq(pending, 1, n) /\ Stream' = g \o a
    BY <1>2 DEF p
  <1> HIDE DEF f, g
  <1>6. p \o a = f \o (g \o a) /\ g \o a \in Seq(S)
    <2>1. (f \o g) \o a = f \o (g \o a)
      <3>1. a \in Seq(S) /\ f \in Seq(S) /\ g \in Seq(S)
        BY <1>1, <1>4
      <3> QED BY ONLY <3>1, ConcatAssociative
    <2>2. g \o a \in Seq(S)
      BY <1>1, <1>4
    <2> QED BY <2>1, <2>2, <1>4
  <1> DEFINE h == g \o a
  <1> HIDE DEF h
  <1>7. /\ SubSeq(f \o h, 1, n) = f
        /\ SubSeq(f \o h, n + 1, Len(f \o h)) = h
    BY <1>4, <1>6, CutConcat DEF h
  <1>8. Stream = f \o h /\ Stream' = h
    BY <1>3, <1>5, <1>6 DEF h
  <1>9. n <= Len(Stream)
    BY <1>1, <1>3
  <1> QED BY <1>5, <1>7, <1>8, <1>9

LEMMA ReturnTakesFromStream ==
  ASSUME Base, NEW n \in 0..Len(pending),
         pending' = SubSeq(pending, n + 1, Len(pending)), arrived' = arrived,
         chunk = <<>>, chunk' = <<>>
  PROVE  /\ n <= Len(Stream)
         /\ Stream' = SubSeq(Stream, n + 1, Len(Stream))
         /\ SubSeq(pending, 1, n) = SubSeq(Stream, 1, n)
  <1>1. pending \in Seq(Units) /\ arrived \in Seq(Units)
    BY DEF Base, SocketTypes
  <1> QED BY <1>1, TakesFromStream

(* What is left of a response of which nothing was returned is all of it.  *)
LEMMA RestTypes ==
  ASSUME Base, NotReturned, NEW i \in Instruments
  PROVE  /\ returned[i] \in Nat /\ wrote[i] \in Nat /\ returned[i] <= ResponseLength
         /\ Rest(i) \in Seq(Units) /\ Len(Rest(i)) = ResponseLength - returned[i]
         /\ returned[i] = 0 => Rest(i) = Response(i, wrote[i])
         /\ \A k \in 1..ResponseLength - returned[i] :
               Rest(i)[k] = Unit(i, wrote[i], returned[i] + k)
  <1>1. /\ ResponseLength \in Nat \ {0} /\ LineLength \in Nat \ {0}
        /\ returned[i] \in Nat /\ wrote[i] \in Nat /\ returned[i] <= ResponseLength
    BY ConstantsAssumption DEF NotReturned, Base, SessionTypes
  <1>2. \A k \in 1..ResponseLength - returned[i] : Unit(i, wrote[i], returned[i] + k) \in Units
    BY <1>1 DEF Unit, Units
  <1> DEFINE rest == Rest(i)
             m == ResponseLength - returned[i]
  <1>3. m \in Nat
    BY <1>1
  <1>4. rest \in [1..m -> Units]
    BY <1>2 DEF Rest
  <1>5. \A k \in 1..m : rest[k] = Unit(i, wrote[i], returned[i] + k)
    BY DEF Rest
  <1>6. returned[i] = 0 => rest = Response(i, wrote[i])
    BY <1>1 DEF Rest, Response
  <1> HIDE DEF rest, m
  <1>7. rest \in Seq(Units) /\ Len(rest) = m
    BY <1>3, <1>4
  <1> QED BY <1>1, <1>5, <1>6, <1>7 DEF rest, m

(* A read that finds the rest of the response, or nothing, returns the     *)
(* next units of it and leaves the rest.                                   *)
LEMMA ReadsOn ==
  ASSUME Base, NotReturned, NEW i \in Instruments,
         NEW n \in 0..Len(pending),
         pending' = SubSeq(pending, n + 1, Len(pending)), arrived' = arrived,
         chunk = <<>>, chunk' = <<>>,
         UNCHANGED wrote, returned' = [returned EXCEPT ![i] = @ + n],
         Stream = Rest(i)
  PROVE  /\ n <= ResponseLength - returned[i]
         /\ Stream' = Rest(i)'
         /\ SubSeq(pending, 1, n) =
               SubSeq(Response(i, wrote[i]), returned[i] + 1, returned[i] + n)
  <1> DEFINE r == returned[i]
             len == ResponseLength
             rest == Rest(i)
             whole == Response(i, wrote[i])
  <1>1. /\ n \in Nat /\ r \in Nat /\ r <= len /\ len \in Nat /\ wrote[i] \in Nat
        /\ rest \in Seq(Units) /\ Len(rest) = len - r
        /\ \A k \in 1..len - r : rest[k] = Unit(i, wrote[i], r + k)
    <2>1. n \in Nat
      BY DEF Base, SocketTypes
    <2> QED BY <2>1, RestTypes, ConstantsAssumption
  <1>2. n <= len - r /\ Stream' = SubSeq(rest, n + 1, len - r) /\ SubSeq(pending, 1, n) = SubSeq(rest, 1, n)
    BY <1>1, ReturnTakesFromStream
  <1>3. returned'[i] = r + n
    BY DEF Base, SessionTypes
  <1>4. Rest(i)' = [k \in 1..len - (r + n) |-> Unit(i, wrote[i], (r + n) + k)]
    BY <1>3 DEF Rest
  <1>5. whole \in Seq(Units) /\ Len(whole) = len /\ \A k \in 1..len : whole[k] = Unit(i, wrote[i], k)
    <2>1. whole \in Seq(Units) /\ Len(whole) = len
      BY <1>1, UnitTypes
    <2>2. \A k \in 1..len : whole[k] = Unit(i, wrote[i], k)
      BY DEF Response
    <2> QED BY <2>1, <2>2
  <1> HIDE DEF r, len, rest, whole
  <1>6. SubSeq(rest, n + 1, len - r) = [k \in 1..len - (r + n) |-> Unit(i, wrote[i], (r + n) + k)]
    <2>1. SubSeq(rest, n + 1, len - r) = [k \in 1..len - (r + n) |-> rest[n + k]]
      <3> DEFINE left == len - (r + n)
      <3>1. left \in Nat /\ n + left = len - r
        BY <1>1, <1>2
      <3> HIDE DEF left
      <3>2. SubSeq(rest, n + 1, n + left) = [k \in 1..left |-> rest[n + k]]
        BY <1>1, <3>1, PartOfSeq
      <3> QED BY <3>1, <3>2 DEF left
    <2>2. \A k \in 1..len - (r + n) : rest[n + k] = Unit(i, wrote[i], (r + n) + k)
      <3> TAKE k \in 1..len - (r + n)
      <3>1. n \in Nat /\ r \in Nat /\ len \in Nat /\ r <= len
        BY <1>1
      <3>2. n + k \in 1..len - r /\ r + (n + k) = (r + n) + k
        BY ONLY <3>1, k \in 1..len - (r + n)
      <3> QED BY <1>1, <3>2
    <2> QED BY <2>1, <2>2
  <1>7. SubSeq(rest, 1, n) = SubSeq(whole, r + 1, r + n)
    <2>1. \A k \in 1..n : rest[k] = whole[r + k]
      <3> TAKE k \in 1..n
      <3>1. n \in Nat /\ r \in Nat /\ len \in Nat /\ r <= len /\ n <= len - r
        BY <1>1, <1>2
      <3>2. k \in 1..len - r /\ r + k \in 1..len
        BY ONLY <3>1, k \in 1..n
      <3> QED BY <1>1, <1>5, <3>2
    <2>2. SubSeq(rest, 1, n) = [k \in 1..n |-> rest[k]]
      <3>1. SubSeq(rest, 0 + 1, 0 + n) = [k \in 1..n |-> rest[0 + k]]
        BY <1>1, <1>2, PartOfSeq
      <3>2. 0 + 1 = 1 /\ 0 + n = n /\ \A k \in 1..n : 0 + k = k
        BY <1>1
      <3> QED BY <3>1, <3>2
    <2>3. SubSeq(whole, r + 1, r + n) = [k \in 1..n |-> whole[r + k]]
      <3>1. r + n <= Len(whole)
        BY <1>1, <1>2, <1>5
      <3> QED BY <1>1, <1>5, <3>1, PartOfSeq
    <2> QED BY <2>1, <2>2, <2>3
  <1> QED BY <1>2, <1>4, <1>6, <1>7 DEF r, len, whole
-----------------------------------------------------------------------------
(* Nothing happens to the order when nothing that it speaks of changes.    *)
LEMMA OrderedStays ==
  ASSUME NEW i \in Instruments, Ordered(i), Stream' = Stream,
         UNCHANGED <<commands, plusPlusRead>>,
         answer'[i] = answer[i], wrote'[i] = wrote[i], returned'[i] = returned[i],
         Polling(i)' <=> Polling(i),
         pc'[i] \in {"send", "poll"} => pc[i] \in {"send", "poll"}
  PROVE  Ordered(i)'
  <1>1. Rest(i)' = Rest(i)
    BY DEF Rest
  <1>2. NothingCame(i) => NothingCame(i)'
    BY Zenon DEF NothingCame, Polled
  <1>3. StatusCame(i) => StatusCame(i)'
    BY Zenon DEF StatusCame
  <1>4. ResponseCame(i) => ResponseCame(i)'
    <2>1. CASE Stream = Rest(i) /\ ~ Polling(i)
      BY <1>1, <2>1, Zenon DEF ResponseCame
    <2>2. CASE Stream = <<StatusUnit(i)>> \o Rest(i) /\ Polling(i)
      <3>1. Stream' = <<StatusUnit(i)>> \o Rest(i)'
        BY <1>1, <2>2
      <3> QED BY <2>2, <3>1, Zenon DEF ResponseCame
    <2> QED BY <2>1, <2>2 DEF ResponseCame
  <1>5. /\ \A k \in 1..Len(commands') : commands'[k].by = i
        /\ \A k \in 1..Len(commands') :
              commands'[k].name = "read" => k = Len(commands') /\ ~ plusPlusRead'
        /\ \A k \in 1..Len(commands') :
              commands'[k].name = "spoll" =>
                  \A m \in k + 1..Len(commands') : commands'[m].name = "read"
        /\ pc'[i] \in {"send", "poll"} =>
              Stream' = <<>> /\ \A k \in 1..Len(commands') : commands'[k].name = "addr"
    BY Zenon DEF Ordered
  <1> QED BY <1>2, <1>3, <1>4, <1>5, Zenon DEF Ordered

(* A thread inside of its call owns the address.                           *)
LEMMA InsideIsAddressed ==
  ASSUME Base, NEW i \in Instruments, pc[i] \in Inside \ {"address"}
  PROVE  gpibAddr = i /\ lock = i
  BY DEF Base, Locking

(* The first command of a call, on a quiet adapter.                        *)
LEMMA OrderedSends ==
  ASSUME Base, NEW i \in Instruments, NEW c \in Commands, Ordered(i), Sends(i, c),
         \A k \in 1..Len(commands) : commands[k].name = "addr",
         Stream' = <<>>, pc'[i] \notin {"send", "poll"}, c.name # "read",
         Polling(i)' <=> c.name = "spoll"
  PROVE  Ordered(i)'
  <1>1. /\ Len(commands') = Len(commands) + 1 /\ Len(commands) \in Nat
        /\ commands'[Len(commands) + 1] = c
        /\ \A k \in 1..Len(commands) : commands'[k] = commands[k]
    BY AppendedCommand DEF Sends, Base, AdapterTypes
  <1>2. 1..Len(commands') = 1..Len(commands) \cup {Len(commands) + 1}
    BY <1>1
  <1>3. \A k \in 1..Len(commands') : commands'[k].by = i
    <2>1. \A k \in 1..Len(commands) : commands[k].by = i
      BY DEF Ordered
    <2> QED BY <1>1, <1>2, <2>1 DEF Sends
  <1>4. \A k \in 1..Len(commands') : commands'[k].name # "read"
    BY <1>1, <1>2
  <1>5. \A k \in 1..Len(commands') : commands'[k].name = "spoll" => k = Len(commands')
    BY <1>1, <1>2
  <1>6. Polled' <=> c.name = "spoll"
    <2>1. Len(commands) + 1 \in 1..Len(commands')
      BY <1>2
    <2>2. ASSUME Polled'
          PROVE  c.name = "spoll"
      <3>1. PICK k \in 1..Len(commands') : commands'[k].name = "spoll"
        BY <2>2 DEF Polled
      <3> QED BY <1>1, <1>5, <3>1
    <2>3. ASSUME c.name = "spoll"
          PROVE  Polled'
      BY <1>1, <2>1, <2>3 DEF Polled
    <2> QED BY <2>2, <2>3
  <1>7. \A k \in 1..Len(commands') : commands'[k].name = "spoll" =>
           \A m \in k + 1..Len(commands') : commands'[m].name = "read"
    <2> TAKE k \in 1..Len(commands')
    <2> HAVE commands'[k].name = "spoll"
    <2>1. k = Len(commands') /\ Len(commands') \in Nat
      BY <1>1, <1>5
    <2>2. k + 1..Len(commands') = {}
      BY <2>1
    <2> QED BY <2>2
  <1>8. NothingCame(i)'
    BY <1>6, Zenon DEF NothingCame
  <1> QED BY <1>3, <1>4, <1>7, <1>8, Zenon DEF Ordered

(* Setting the address makes the stream of i its own only when nothing at  *)
(* all is under way, or if it was before.                                  *)
LEMMA OrderedAddress ==
  ASSUME Base, NEW i \in Instruments, Address(i), Owns(i)', Owns(i) => Ordered(i)
  PROVE  Ordered(i)'
  <1>1. /\ pc[i] = "address" /\ pc' = [pc EXCEPT ![i] = Then(op[i].name)] /\ pc \in [Instruments -> {"idle", "lock"} \cup Inside]
        /\ UNCHANGED <<socket, plusPlusRead, op, wrote, returned, answer>>
    BY DEF Address, Goto, At, Base, SessionTypes
  <1>2. Quiet \/ Continues(i)
    <2>1. clean' = [clean EXCEPT ![i] = Quiet \/ Continues(i)] /\ clean \in [Instruments -> BOOLEAN]
      BY DEF Address, Base, SessionTypes
    <2>2. clean'[i] = (Quiet \/ Continues(i))
      BY <2>1, Zenon
    <2>3. clean'[i]
      BY DEF Owns
    <2> QED BY <2>2, <2>3, Zenon
  <1>3. Stream' = Stream
    BY <1>1 DEF Stream, socket
  <1>4. pc'[i] = Then(op[i].name) /\ Then(op[i].name) \in {"receive", "poll", "send"}
    BY <1>1 DEF Then
  <1>5. Polling(i)' = FALSE
    <2>1. Then("status") = "poll"
      BY DEF Then
    <2> QED BY <1>1, <1>4, <2>1 DEF Polling
  <1>6. CASE Continues(i)
    <2>1. Owns(i) /\ op[i].name = "read" /\ gpibAddr = i
      BY <1>6 DEF Continues, Owns
    <2>2. commands' = commands
      BY <2>1 DEF Address
    <2>3. pc'[i] = "receive"
      BY <1>4, <2>1 DEF Then
    <2>4. ~ Polling(i)
      BY <1>1 DEF Polling
    <2>5. Ordered(i)
      BY <2>1
    <2> QED BY <1>1, <1>3, <1>5, <2>2, <2>3, <2>4, <2>5, OrderedStays
  <1>7. CASE Quiet
    <2>1. commands = <<>> /\ Stream = <<>>
      <3>1. \A j \in Instruments : pc[j] # "loop"
        BY <1>1, OneInside DEF Inside
      <3>2. chunk = <<>>
        BY <3>1 DEF Base, Cutting
      <3> QED BY <1>7, <3>2, StreamTypes DEF Quiet
    <2>2. commands' \in {<<>>, <<Command(i, "addr", 0)>>}
      BY <2>1 DEF Address, Send
    <2>3. \A k \in 1..Len(commands') : commands'[k] = Command(i, "addr", 0)
      BY <2>2
    <2>4. \A k \in 1..Len(commands') : commands'[k].by = i /\ commands'[k].name = "addr"
      BY <2>3 DEF Command
    <2>5. NothingCame(i)'
      BY <1>3, <1>5, <2>1, <2>4 DEF NothingCame, Polled
    <2> QED BY <1>3, <2>1, <2>4, <2>5, Zenon DEF Ordered
  <1> QED BY <1>2, <1>6, <1>7

(* write(), clear(), assert_trigger() and "++spoll" come on a quiet adapter.*)
LEMMA OrderedWrites ==
  ASSUME Base, NEW i \in Instruments, Write(i) \/ WriteOob(i) \/ Poll(i), Ordered(i)
  PROVE  Ordered(i)'
  <1>0. pc[i] \in {"send", "poll"} /\ pc \in [Instruments -> {"idle", "lock"} \cup Inside]
        /\ calls \in Nat /\ pc' \in {[pc EXCEPT ![i] = "idle"], [pc EXCEPT ![i] = "receive"]}
    BY DEF Write, WriteOob, Poll, At, Goto, Release, Base, SessionTypes
  <1>1. Stream = <<>> /\ \A k \in 1..Len(commands) : commands[k].name = "addr"
    BY <1>0, Zenon DEF Ordered
  <1>2. gpibAddr = i
    BY <1>0, InsideIsAddressed DEF Inside
  <1>3. pc'[i] \notin {"send", "poll"}
    BY <1>0
  <1>4. CASE Write(i)
    <2>1. Stream' = <<>>
      <3>1. pending' = <<>> /\ arrived' = <<>> /\ chunk' = chunk /\ chunk = <<>>
        BY <1>1, <1>4, StreamTypes DEF Write, SocketClear
      <3>2. <<>> \o <<>> = <<>>
        BY ConcatEmptySeq, EmptySeq
      <3> QED BY <3>1, <3>2 DEF Stream
    <2>2. ~ Polling(i)'
      BY <1>0, <1>4 DEF Write, Release, Goto, Polling
    <2>3. Sends(i, Command(i, "data", calls)) /\ Command(i, "data", calls) \in Commands
          /\ Command(i, "data", calls).name = "data"
      BY <1>0, <1>2, <1>4 DEF Write, Send, Sends, Command, Commands
    <2> QED BY <1>1, <1>3, <2>1, <2>2, <2>3, OrderedSends
  <1>5. CASE WriteOob(i)
    <2>1. Stream' = <<>>
      BY <1>1, <1>5 DEF WriteOob, socket, Stream
    <2>2. ~ Polling(i)'
      BY <1>0, <1>5 DEF WriteOob, Release, Goto, Polling
    <2>3. Sends(i, Command(i, op[i].name, 0)) /\ Command(i, op[i].name, 0) \in Commands
          /\ Command(i, op[i].name, 0).name \in {"clr", "trg"}
      BY <1>0, <1>2, <1>5 DEF WriteOob, Send, Sends, Command, Commands
    <2> QED BY <1>1, <1>3, <2>1, <2>2, <2>3, OrderedSends
  <1>6. CASE Poll(i)
    <2>1. Stream' = <<>>
      BY <1>1, <1>6 DEF Poll, socket, Stream
    <2>2. Polling(i)'
      BY <1>0, <1>6 DEF Poll, Goto, At, Polling, Base, Locking
    <2>3. Sends(i, Command(i, "spoll", 0)) /\ Command(i, "spoll", 0) \in Commands
          /\ Command(i, "spoll", 0).name = "spoll"
      BY <1>0, <1>2, <1>6 DEF Poll, Send, Sends, Command, Commands, intfc
    <2> QED BY <1>1, <1>3, <2>1, <2>2, <2>3, OrderedSends
  <1> QED BY <1>4, <1>5, <1>6
(* "++read" goes out once, behind everything else.                         *)
LEMMA OrderedPlusPlusRead ==
  ASSUME Base, NEW i \in Instruments, PlusPlusRead(i), Ordered(i)
  PROVE  Ordered(i)'
  <1>1. /\ pc[i] = "receive" /\ pc'[i] = "loop" /\ plusPlusRead' = FALSE
        /\ UNCHANGED <<socket, op, wrote, returned, answer>>
    BY DEF PlusPlusRead, At, Goto, Base, SessionTypes
  <1>2. Stream' = Stream /\ (Polling(i)' <=> Polling(i))
    BY <1>1 DEF Stream, socket, Polling
  <1>3. CASE ~ plusPlusRead
    <2>1. UNCHANGED <<commands, plusPlusRead>>
      BY <1>1, <1>3 DEF PlusPlusRead, Base, SessionTypes
    <2> QED BY <1>1, <1>2, <2>1, OrderedStays
  <1>4. CASE plusPlusRead
    <2> DEFINE c == Command(i, "read", 0)
    <2>1. commands' = Append(commands, c) /\ c \in Commands /\ c.by = i /\ c.name = "read"
      BY <1>4 DEF PlusPlusRead, Send, Command, Commands
    <2> HIDE DEF c
    <2>2. /\ Len(commands') = Len(commands) + 1 /\ Len(commands) \in Nat
          /\ commands'[Len(commands) + 1] = c
          /\ \A k \in 1..Len(commands) : commands'[k] = commands[k]
      BY <2>1, AppendedCommand DEF Base, AdapterTypes
    <2>3. 1..Len(commands') = 1..Len(commands) \cup {Len(commands) + 1}
      BY <2>2
    <2>4. \A k \in 1..Len(commands) : commands[k].by = i /\ commands[k].name # "read"
      BY <1>4 DEF Ordered
    <2>5. \A k \in 1..Len(commands') : commands'[k].by = i
      BY <2>1, <2>2, <2>3, <2>4
    <2>6. \A k \in 1..Len(commands') : commands'[k].name = "read" => k = Len(commands')
      BY <2>1, <2>2, <2>3, <2>4
    <2>7. \A k \in 1..Len(commands') : commands'[k].name = "spoll" =>
             \A m \in k + 1..Len(commands') : commands'[m].name = "read"
      <3> TAKE k \in 1..Len(commands')
      <3> HAVE commands'[k].name = "spoll"
      <3> TAKE m \in k + 1..Len(commands')
      <3>1. k \in 1..Len(commands) /\ commands[k].name = "spoll"
        BY <2>1, <2>2, <2>3
      <3>2. CASE m = Len(commands) + 1
        BY <2>1, <2>2, <3>2
      <3>3. CASE m # Len(commands) + 1
        <4>1. m \in k + 1..Len(commands) /\ m \in 1..Len(commands)
          BY <2>2, <3>1, <3>3
        <4>2. commands[m].name = "read"
          BY <3>1, <4>1 DEF Ordered
        <4> QED BY <2>4, <4>1, <4>2
      <3> QED BY <3>2, <3>3
    <2>8. Polled' <=> Polled
      <3>1. \A k \in 1..Len(commands) : k \in 1..Len(commands')
        BY <2>3
      <3>2. \A k \in 1..Len(commands') : commands'[k].name = "spoll" =>
                k \in 1..Len(commands) /\ commands[k].name = "spoll"
        BY <2>1, <2>2, <2>3
      <3> QED BY <2>2, <3>1, <3>2 DEF Polled
    <2>9. NothingCame(i)' \/ StatusCame(i)'
      <3>1. NothingCame(i) \/ StatusCame(i)
        BY <1>4 DEF Ordered, ResponseCame
      <3>2. CASE NothingCame(i)
        BY <1>2, <2>8, <3>2, Zenon DEF NothingCame
      <3>3. CASE StatusCame(i)
        <4>1. \A k \in 1..Len(commands') : commands'[k].name = "read"
          BY <2>1, <2>2, <2>3, <3>3 DEF StatusCame
        <4> QED BY <1>2, <3>3, <4>1, Zenon DEF StatusCame
      <3> QED BY <3>1, <3>2, <3>3
    <2> QED BY <1>1, <2>5, <2>6, <2>7, <2>9 DEF Ordered
  <1> QED BY <1>3, <1>4

(* What "++read" brings is the whole response, or nothing.                 *)
LEMMA WholeResponse ==
  ASSUME Base, Answers, NotReturned, NEW i \in Instruments, NoData(i)
  PROVE  answer[i] = <<>> \/ answer[i] = Rest(i)
  <1>1. answer[i] \in {<<>>, Response(i, wrote[i])}
    BY DEF Answers, NoData
  <1>2. answer[i] # <<>> => returned[i] = 0
    BY DEF NotReturned
  <1> QED BY <1>1, <1>2, RestTypes

(* The adapter executes what is sent in order: the status byte comes before*)
(* the response, and the response is the rest of what i has to read.       *)
LEMMA OrderedExecute ==
  ASSUME Base, Answers, NotReturned, NEW i \in Instruments, Execute, Ordered(i)
  PROVE  Ordered(i)'
  <1> DEFINE h == commands[1]
  <1>1. commands \in Seq(Commands) /\ commands # <<>> /\ commands' = Tail(commands) /\ Head(commands) = h
    BY TailOfCommands DEF Base, AdapterTypes, Execute
  <1>2. /\ Len(commands) \in Nat \ {0} /\ Len(commands') = Len(commands) - 1
        /\ \A k \in 1..Len(commands) - 1 : commands'[k] = commands[k + 1]
        /\ commands' = <<>> <=> Len(commands) = 1
        /\ 1 \in 1..Len(commands)
    BY <1>1, TailOfCommands
  <1>3. \A k \in 1..Len(commands') : k + 1 \in 1..Len(commands) /\ commands'[k] = commands[k + 1]
    BY <1>2
  <1>4. h \in Commands /\ h.by = i /\ (h.name # "addr" => selected = i)
    BY <1>1, <1>2, ForSelected DEF Ordered
  <1>5. pending' = pending /\ chunk' = chunk /\ UNCHANGED <<plusPlusRead, pc, op, wrote, returned>>
    BY DEF Execute, intfc, sessions
  <1>6. (Polling(i)' <=> Polling(i)) /\ Rest(i)' = Rest(i)
    BY <1>5 DEF Polling, Rest
  <1>7. \A k \in 1..Len(commands') : commands'[k].by = i
    BY <1>3 DEF Ordered
  <1>8. \A k \in 1..Len(commands') : commands'[k].name = "read" => k = Len(commands') /\ ~ plusPlusRead'
    BY <1>2, <1>3, <1>5 DEF Ordered
  <1>9. \A k \in 1..Len(commands') : commands'[k].name = "spoll" =>
             \A m \in k + 1..Len(commands') : commands'[m].name = "read"
    <2> TAKE k \in 1..Len(commands')
    <2> HAVE commands'[k].name = "spoll"
    <2> TAKE m \in k + 1..Len(commands')
    <2>1. m \in 1..Len(commands') /\ m + 1 \in (k + 1) + 1..Len(commands)
      BY <1>2
    <2> QED BY <1>3, <2>1 DEF Ordered
  <1>10. Polled <=> Polled' \/ h.name = "spoll"
    <2>1. \A k \in 1..Len(commands) : k = 1 \/ (k - 1 \in 1..Len(commands') /\ commands[k] = commands'[k - 1])
      <3> TAKE k \in 1..Len(commands)
      <3>1. k # 1 => k - 1 \in 1..Len(commands) - 1 /\ (k - 1) + 1 = k
        BY <1>2
      <3> QED BY <1>2, <3>1
    <2>2. Polled => Polled' \/ h.name = "spoll"
      BY <2>1 DEF Polled
    <2>3. Polled' => Polled
      BY <1>3 DEF Polled
    <2>4. h.name = "spoll" => Polled
      BY <1>2 DEF Polled
    <2> QED BY <2>2, <2>3, <2>4
  <1>11. ~ ResponseCame(i)
    BY <1>1 DEF ResponseCame
  <1>12. Stream \in Seq(Units) /\ pending \in Seq(Units) /\ arrived \in Seq(Units)
         /\ answer[i] \in Seq(Units) /\ StatusUnit(i) \in Units /\ answer \in [Instruments -> Seq(Units)]
    BY StreamTypes, UnitTypes DEF Base, SocketTypes, AdapterTypes, StatusUnit, Units
  <1> HIDE DEF h
  <1>13. CASE h.name \in {"addr", "data", "clr", "trg"}
    <2>1. Stream' = Stream
      BY <1>1, <1>5, <1>13 DEF Execute, Stream
    <2>2. NothingCame(i)
      <3>1. ~ StatusCame(i)
        BY <1>2, <1>13 DEF StatusCame, h
      <3> QED BY <1>11, <3>1 DEF Ordered
    <2>3. NothingCame(i)'
      <3>1. Polled' <=> Polled
        BY <1>10, <1>13
      <3> QED BY <1>6, <2>1, <2>2, <3>1, Zenon DEF NothingCame
    <2>4. pc'[i] \in {"send", "poll"} =>
              Stream' = <<>> /\ \A k \in 1..Len(commands') : commands'[k].name = "addr"
      BY <1>3, <1>5, <2>1 DEF Ordered
    <2> QED BY <1>7, <1>8, <1>9, <2>3, <2>4 DEF Ordered
  <1>14. CASE h.name \in {"read", "spoll"}
    <2>1. pc'[i] \notin {"send", "poll"}
      BY <1>2, <1>5, <1>14 DEF Ordered, h
    <2>2. CASE h.name = "read"
      <3>1. Len(commands) = 1 /\ ~ plusPlusRead
        BY <1>2, <2>2 DEF Ordered, h
      <3>2. commands' = <<>> /\ ~ Polled
        <4>1. \A k \in 1..Len(commands) : k = 1
          BY <3>1
        <4> QED BY <1>2, <2>2, <3>1, <4>1 DEF Polled, h
      <3>3. ~ Polled'
        BY <1>10, <3>2
      <3>4. NoData(i)
        <4>1. \A k \in 1..Len(commands) : k = 1
          BY <3>1
        <4> QED BY <2>2, <4>1 DEF NoData, IsData, h
      <3>5. arrived' = arrived \o answer[i] /\ answer' = [answer EXCEPT ![i] = <<>>]
        BY <1>1, <1>4, <2>2 DEF Execute
      <3>6. Stream' = Stream \o answer[i] /\ answer'[i] = <<>>
        <4> DEFINE p == pending \o chunk
                   a == arrived
                   b == answer[i]
        <4>1. p \in Seq(Units) /\ a \in Seq(Units) /\ b \in Seq(Units)
          BY <1>12, ConcatProperties DEF Base, SocketTypes
        <4>2. Stream' = p \o (a \o b) /\ Stream = p \o a
          BY <1>5, <3>5 DEF Stream
        <4>3. answer'[i] = <<>>
          BY <1>12, <3>5
        <4> HIDE DEF p, a, b
        <4>4. (p \o a) \o b = p \o (a \o b)
          BY ONLY <4>1, ConcatAssociative
        <4> QED BY <4>2, <4>3, <4>4 DEF b
      <3>7. CASE NothingCame(i)
        <4>1. ~ Polling(i) /\ Stream' = answer[i]
          BY <1>12, <3>2, <3>6, <3>7 DEF NothingCame
        <4>2. ASSUME answer[i] = <<>>
              PROVE  NothingCame(i)'
          BY <1>6, <3>3, <4>1, <4>2, Zenon DEF NothingCame
        <4>3. ASSUME answer[i] = Rest(i)
              PROVE  ResponseCame(i)'
          <5>1. Stream' = Rest(i)' /\ ~ Polling(i)'
            BY <1>6, <4>1, <4>3
          <5> QED BY <1>5, <3>1, <3>2, <3>6, <5>1, Zenon DEF ResponseCame
        <4>4. NothingCame(i)' \/ ResponseCame(i)'
          BY <4>2, <4>3, <3>4, WholeResponse
        <4> QED BY <1>7, <1>8, <1>9, <2>1, <4>4 DEF Ordered
      <3>8. CASE StatusCame(i)
        <4>1. Polling(i)' /\ Stream' = <<StatusUnit(i)>> \o answer[i]
          BY <1>6, <3>6, <3>8 DEF StatusCame
        <4>2. ASSUME answer[i] = <<>>
              PROVE  StatusCame(i)'
          <5>1. <<StatusUnit(i)>> \o <<>> = <<StatusUnit(i)>>
            BY <1>12
          <5>2. Stream' = <<StatusUnit(i)>>
            BY <4>1, <4>2, <5>1
          <5>3. \A k \in 1..Len(commands') : FALSE
            BY <1>2, <3>1
          <5>4. StatusUnit(i)' = StatusUnit(i)
            BY DEF StatusUnit
          <5> QED BY <4>1, <5>2, <5>3 DEF StatusCame, StatusUnit
        <4>3. ASSUME answer[i] = Rest(i)
              PROVE  ResponseCame(i)'
          <5>1. Stream' = <<StatusUnit(i)>> \o Rest(i)'
            BY <1>6, <4>1, <4>3
          <5> QED BY <1>5, <3>1, <3>2, <3>6, <4>1, <5>1, Zenon DEF ResponseCame
        <4>4. StatusCame(i)' \/ ResponseCame(i)'
          BY <4>2, <4>3, <3>4, WholeResponse
        <4> QED BY <1>7, <1>8, <1>9, <2>1, <4>4 DEF Ordered
      <3> QED BY <1>11, <3>7, <3>8 DEF Ordered
    <2>3. CASE h.name = "spoll"
      <3>1. NothingCame(i)
        <4>1. ~ StatusCame(i)
          BY <1>2, <2>3 DEF StatusCame, h
        <4> QED BY <1>11, <4>1 DEF Ordered
      <3>2. Polling(i)' /\ pending = <<>> /\ chunk = <<>> /\ arrived = <<>>
        BY <1>6, <1>10, <2>3, <3>1, StreamTypes DEF NothingCame
      <3>3. arrived' = Append(arrived, StatusUnit(i))
        BY <1>1, <1>4, <2>3 DEF Execute
      <3>4. Stream' = <<StatusUnit(i)>>
        <4>1. Stream' = <<>> \o Append(<<>>, StatusUnit(i))
          <5>1. <<>> \o <<>> = <<>>
            BY ConcatEmptySeq, EmptySeq
          <5> QED BY <1>5, <3>2, <3>3, <5>1 DEF Stream
        <4> QED BY <1>12, <4>1
      <3>5. \A k \in 1..Len(commands') : commands'[k].name = "read"
        <4> TAKE k \in 1..Len(commands')
        <4>1. k + 1 \in 1 + 1..Len(commands)
          BY <1>2
        <4>2. commands[k + 1].name = "read"
          BY <1>2, <2>3, <4>1 DEF Ordered, h
        <4> QED BY <1>3, <4>2
      <3>6. StatusCame(i)'
        BY <3>2, <3>4, <3>5, Zenon DEF StatusCame
      <3> QED BY <1>7, <1>8, <1>9, <2>1, <3>6 DEF Ordered
    <2> QED BY <1>14, <2>2, <2>3
  <1> QED BY <1>4, <1>13, <1>14 DEF Commands
-----------------------------------------------------------------------------
(* No call becomes clean by returning.                                     *)
LEMMA CleanBefore ==
  ASSUME Base, NEW i \in Instruments, Return(i), clean'[i]
  PROVE  clean[i]
  <1>1. clean \in [Instruments -> BOOLEAN]
    BY DEF Base, SessionTypes
  <1>2. clean' = clean \/ clean' = [clean EXCEPT ![i] = @ /\ ReadStatus # "timeout"]
    BY Zenon DEF Return
  <1> QED BY <1>1, <1>2, Zenon

(* A read_stb that is clean and does not time out returns the status byte  *)
(* and nothing else.                                                       *)
LEMMA StatusReturn ==
  ASSUME Base, NotReturned, NEW i \in Instruments, Return(i), op[i].name = "status",
         clean'[i], Ordered(i)
  PROVE  data'[i] = <<StatusUnit(i)>> /\ Ordered(i)'
  <1>1. PICK n \in 0..Len(pending), what \in {"term", "count", "success", "timeout"} :
            /\ pending' = SubSeq(pending, n + 1, Len(pending))
            /\ n = IF what = "term" THEN TermIndex
                   ELSE IF what = "count" THEN op[i].count
                   ELSE Least(op[i].count, Len(pending))
            /\ what = "term" => HasTerm
            /\ what = "count" => (Complete(op[i].count) /\ (HasTerm => TermIndex > op[i].count))
            /\ what \in {"success", "timeout"} => ~ Complete(op[i].count)
            /\ what = "success" => pending # <<>>
            /\ data' = [data EXCEPT ![i] = SubSeq(pending, 1, n)]
            /\ clean' = [clean EXCEPT ![i] = @ /\ what # "timeout"]
            /\ UNCHANGED returned
    <2>1. clean[i]
      BY CleanBefore
    <2>2. /\ Base /\ i \in Instruments /\ Return(i) /\ op[i].name = "status" /\ clean[i]
      BY <2>1
    <2> QED BY ONLY <2>2, ReturnSplits
  <1>0. arrived' = arrived /\ chunk' = chunk /\ chunk = <<>>
    BY ReturnDoes
  <1>2. /\ pending \in Seq(Units) /\ arrived \in Seq(Units) /\ Len(pending) \in Nat /\ termEn = TRUE
        /\ op[i].count \in Nat /\ op[i].count > 0
        /\ clean \in [Instruments -> BOOLEAN] /\ data \in [Instruments -> Seq(Units)]
        /\ pc \in [Instruments -> {"idle", "lock"} \cup Inside]
    <2>1. /\ SocketTypes /\ SessionTypes /\ Locking
          /\ i \in Instruments /\ op[i].name = "status"
      BY DEF Base
    <2>2. pending \in Seq(Units) /\ arrived \in Seq(Units) /\ Len(pending) \in Nat /\ termEn = TRUE
      BY ONLY <2>1, LenProperties DEF SocketTypes
    <2>3. op[i].count \in Nat /\ op[i].count > 0
      BY ONLY <2>1 DEF SessionTypes, Locking
    <2> QED BY ONLY <2>1, <2>2, <2>3 DEF SessionTypes
  <1>3. /\ pc[i] = "loop" /\ pc'[i] = "idle"
        /\ UNCHANGED <<plusPlusRead, op, wrote, commands, answer>>
    <2>1. Return(i)
      OBVIOUS
    <2> QED BY ONLY <1>2, <2>1 DEF Return, Release, Goto, At, adapter
  <1>4. Polling(i) /\ ~ Polling(i)'
    BY <1>3 DEF Polling
  <1>5. what # "timeout"
    BY <1>1, <1>2, Zenon
  <1>6. Stream # <<>>
    <2>1. ASSUME pending = <<>>, arrived = <<>>
          PROVE  FALSE
      <3>1. ~ HasTerm /\ Len(pending) = 0
        BY <2>1 DEF HasTerm
      <3>2. ~ Complete(op[i].count)
        BY <3>1, <1>2 DEF Complete
      <3> QED BY <1>1, <1>5, <2>1, <3>1, <3>2
    <2> QED BY <1>0, <2>1, StreamTypes
  <1>7. StatusCame(i) \/ (Stream = <<StatusUnit(i)>> \o Rest(i) /\ ResponseCame(i))
    BY <1>4, <1>6, Zenon DEF Ordered, NothingCame, ResponseCame
  <1>8. Rest(i) \in Seq(Units) /\ StatusUnit(i) \in Units /\ StatusUnit(i).term
    BY RestTypes DEF StatusUnit, Units
  <1>9. Stream = <<StatusUnit(i)>> \o SubSeq(Stream, 2, Len(Stream)) /\ Stream[1] = StatusUnit(i)
        /\ SubSeq(Stream, 2, Len(Stream)) = IF StatusCame(i) THEN <<>> ELSE Rest(i)
    <2> DEFINE u == StatusUnit(i)
               r == Rest(i)
    <2>1. u \in Units /\ r \in Seq(Units)
      BY <1>8
    <2>2. (Stream = <<u>> /\ StatusCame(i)) \/ (Stream = <<u>> \o r /\ ~ StatusCame(i))
          \/ (Stream = <<u>> \o r /\ Stream = <<u>>)
      BY <1>7 DEF StatusCame
    <2> HIDE DEF u, r
    <2>3. <<u>> \in Seq(Units) /\ Len(<<u>>) = 1 /\ <<u>>[1] = u
      BY <2>1
    <2>4. SubSeq(<<u>> \o r, 1 + 1, Len(<<u>> \o r)) = r /\ (<<u>> \o r)[1] = u
      <3>1. SubSeq(<<u>> \o r, 1 + 1, Len(<<u>> \o r)) = r
        BY <2>1, <2>3, CutConcat
      <3>2. (<<u>> \o r)[1] = u
        BY <2>1
      <3> QED BY <3>1, <3>2
    <2>5. SubSeq(<<u>>, 2, Len(<<u>>)) = <<>> /\ <<u>> \o <<>> = <<u>>
      BY <2>1, <2>3
    <2>6. CASE Stream = <<u>>
      <3>1. StatusCame(i) \/ r = <<>>
        <4>1. StatusCame(i) \/ <<u>> = <<u>> \o r
          BY <2>2, <2>6
        <4>2. <<u>> = <<u>> \o r => r = <<>>
          BY <2>4, <2>5
        <4> QED BY <4>1, <4>2
      <3> QED BY <2>3, <2>5, <2>6, <3>1 DEF u, r
    <2>7. CASE Stream = <<u>> \o r /\ ~ StatusCame(i)
      BY <2>4, <2>7 DEF u, r
    <2> QED BY <2>2, <2>6, <2>7
  <1>10. pending # <<>> /\ pending[1] = StatusUnit(i)
    <2>1. ASSUME pending = <<>>
          PROVE  FALSE
      <3>1. ~ HasTerm /\ Len(pending) = 0
        BY <2>1 DEF HasTerm
      <3>2. ~ Complete(op[i].count)
        BY <1>2, <3>1 DEF Complete
      <3> QED BY <1>1, <1>5, <2>1, <3>1, <3>2
    <2>2. pending[1] = Stream[1]
      BY <2>1, StreamTypes
    <2> QED BY <2>1, <2>2, <1>9
  <1>11. HasTerm /\ TermIndex = 1
    <2>1. 1 \in DOMAIN pending /\ Len(pending) >= 1
      BY <1>2, <1>10
    <2>2. HasTerm
      BY <1>2, <1>8, <1>10, <2>1 DEF HasTerm
    <2>3. TermIndex \in 1..Len(pending) /\ \A j \in 1..TermIndex - 1 : ~ pending[j].term
      BY <1>2, <2>2, TermIndexFirst
    <2>4. ~ (TermIndex > 1)
      <3>1. TermIndex > 1 => 1 \in 1..TermIndex - 1
        BY <1>2, <2>3
      <3> QED BY <1>8, <1>10, <2>3, <3>1
    <2> QED BY <1>2, <2>2, <2>3, <2>4
  <1>12. n = 1
    <2>1. Complete(op[i].count)
      BY <1>11 DEF Complete
    <2>2. what = "term"
      BY <1>1, <1>2, <1>11, <2>1
    <2> QED BY <1>1, <1>11, <2>2
  <1>13. data'[i] = <<StatusUnit(i)>>
    <2>1. SubSeq(pending, 1, 1) = <<pending[1]>>
      <3> DEFINE f == SubSeq(pending, 1, 1)
      <3>1. Len(pending) >= 1
        BY <1>2, <1>10
      <3>2. f \in Seq(Units) /\ Len(f) = 1 /\ f[1] = pending[1]
        BY <1>2, <3>1
      <3> HIDE DEF f
      <3>3. f = <<pending[1]>>
        BY <3>2
      <3> QED BY <3>3 DEF f
    <2> QED BY <1>1, <1>2, <1>10, <1>12, <2>1
  <1>14. Stream' = IF StatusCame(i) THEN <<>> ELSE Rest(i)
    <2>1. Stream' = SubSeq(Stream, 1 + 1, Len(Stream))
      BY <1>0, <1>1, <1>12, ReturnTakesFromStream
    <2> QED BY <1>9, <2>1
  <1>15. Rest(i)' = Rest(i)
    BY <1>1, <1>3 DEF Rest
  <1>16. NothingCame(i)' \/ ResponseCame(i)'
    <2>1. CASE StatusCame(i)
      <3>1. ~ Polled'
        BY <1>3, <2>1 DEF StatusCame, Polled
      <3>2. Stream' = <<>>
        BY <1>14, <2>1
      <3> QED BY <1>4, <3>1, <3>2, Zenon DEF NothingCame
    <2>2. CASE ~ StatusCame(i)
      <3>1. Stream' = Rest(i)'
        BY <1>14, <1>15, <2>2
      <3>2. ResponseCame(i)
        BY <1>7, <2>2
      <3> QED BY <1>3, <1>4, <3>1, <3>2, Zenon DEF ResponseCame
    <2> QED BY <2>1, <2>2
  <1>17. /\ \A k \in 1..Len(commands') : commands'[k].by = i
         /\ \A k \in 1..Len(commands') :
               commands'[k].name = "read" => k = Len(commands') /\ ~ plusPlusRead'
         /\ \A k \in 1..Len(commands') :
               commands'[k].name = "spoll" =>
                   \A m \in k + 1..Len(commands') : commands'[m].name = "read"
    BY <1>3, Zenon DEF Ordered
  <1> QED BY <1>3, <1>13, <1>16, <1>17 DEF Ordered

(* A clean read returns the next units of the response.                    *)
LEMMA ReadReturns ==
  ASSUME Base, NotReturned, NEW i \in Instruments, Return(i), op[i].name = "read",
         clean'[i], Ordered(i)
  PROVE  /\ Ordered(i)'
         /\ returned'[i] # 0 /\ returned'[i] # returned[i] =>
               commands = <<>> /\ answer[i] = <<>>
         /\ returned'[i] <= ResponseLength
         /\ data'[i] = SubSeq(Response(i, wrote[i]), returned'[i] - Len(data'[i]) + 1, returned'[i])
  <1>0. arrived' = arrived /\ chunk' = chunk /\ chunk = <<>>
    BY ReturnDoes
  <1>1. PICK n \in 0..Len(pending) :
            /\ pending' = SubSeq(pending, n + 1, Len(pending))
            /\ data' = [data EXCEPT ![i] = SubSeq(pending, 1, n)]
            /\ returned' = [returned EXCEPT ![i] = @ + n]
            /\ UNCHANGED clean
    <2>1. clean[i]
      BY CleanBefore
    <2>2. PICK n \in 0..Len(pending), what \in {"term", "count", "success", "timeout"} :
            /\ pending' = SubSeq(pending, n + 1, Len(pending))
            /\ data' = [data EXCEPT ![i] = SubSeq(pending, 1, n)]
            /\ IF op[i].name = "read"
                 THEN /\ returned' = [returned EXCEPT ![i] = @ + n]
                      /\ UNCHANGED clean
                 ELSE /\ clean' = [clean EXCEPT ![i] = @ /\ what # "timeout"]
                      /\ UNCHANGED returned
      BY <2>1, ReturnSplits
    <2> QED BY <2>2, Zenon
  <1>2. /\ pending \in Seq(Units) /\ arrived \in Seq(Units) /\ Len(pending) \in Nat /\ n \in Nat
        /\ data \in [Instruments -> Seq(Units)] /\ returned \in [Instruments -> Nat]
        /\ pc \in [Instruments -> {"idle", "lock"} \cup Inside]
    <2>1. pending \in Seq(Units) /\ arrived \in Seq(Units)
      BY DEF Base, SocketTypes
    <2>2. /\ data \in [Instruments -> Seq(Units)] /\ returned \in [Instruments -> Nat]
          /\ pc \in [Instruments -> {"idle", "lock"} \cup Inside]
      BY DEF Base, SessionTypes
    <2>3. Len(pending) \in Nat /\ n \in Nat
      BY <2>1, LenProperties
    <2> QED BY <2>1, <2>2, <2>3
  <1>3. /\ pc'[i] = "idle" /\ UNCHANGED <<plusPlusRead, op, wrote, commands, answer>>
    BY <1>2 DEF Return, Release, Goto, At, adapter
  <1>4. ~ Polling(i) /\ ~ Polling(i)'
    BY <1>3 DEF Polling
  <1>5. returned' = [returned EXCEPT ![i] = @ + n] /\ returned'[i] = returned[i] + n
    BY <1>1, <1>2
  <1>6. data'[i] = SubSeq(pending, 1, n) /\ Len(data'[i]) = n
    BY <1>1, <1>2
  <1>7. /\ returned[i] \in Nat /\ wrote[i] \in Nat /\ returned[i] <= ResponseLength /\ ResponseLength \in Nat
    BY RestTypes, ConstantsAssumption
  <1>8. /\ \A k \in 1..Len(commands') : commands'[k].by = i
        /\ \A k \in 1..Len(commands') :
              commands'[k].name = "read" => k = Len(commands') /\ ~ plusPlusRead'
        /\ \A k \in 1..Len(commands') :
              commands'[k].name = "spoll" =>
                  \A m \in k + 1..Len(commands') : commands'[m].name = "read"
    BY <1>3, Zenon DEF Ordered
  <1>9. ~ StatusCame(i)
    BY <1>4 DEF StatusCame
  <1>10. CASE NothingCame(i)
    <2>1. pending = <<>> /\ arrived = <<>> /\ n = 0
      <3>1. pending = <<>> /\ arrived = <<>>
        BY <1>10, StreamTypes DEF NothingCame
      <3> QED BY <3>1, <1>2
    <2>2. Stream' = Stream
      BY <1>0, <1>1, <1>2, <2>1 DEF Stream
    <2>3. NothingCame(i)'
      <3>1. Polled' <=> Polled
        BY <1>3 DEF Polled
      <3> QED BY <1>4, <1>10, <2>2, <3>1, Zenon DEF NothingCame
    <2>4. Ordered(i)'
      BY <1>3, <1>8, <2>3 DEF Ordered
    <2>5. SubSeq(Response(i, wrote[i]), returned[i] + 1, returned[i]) = <<>>
      BY <1>7, SubSeqEmpty
    <2>6. data'[i] = <<>> /\ Len(data'[i]) = 0 /\ returned'[i] = returned[i]
      BY <1>2, <1>5, <1>6, <2>1
    <2>7. returned'[i] - Len(data'[i]) + 1 = returned[i] + 1
      BY <1>7, <2>6
    <2> QED BY <1>7, <2>4, <2>5, <2>6, <2>7
  <1>11. CASE ResponseCame(i)
    <2>1. Stream = Rest(i) /\ commands = <<>> /\ answer[i] = <<>>
      BY <1>4, <1>11 DEF ResponseCame
    <2>2. /\ n <= ResponseLength - returned[i]
          /\ Stream' = Rest(i)'
          /\ SubSeq(pending, 1, n) = SubSeq(Response(i, wrote[i]), returned[i] + 1, returned[i] + n)
      BY <1>0, <1>1, <1>3, <1>5, <2>1, ReadsOn
    <2>3. ResponseCame(i)'
      BY <1>3, <1>4, <1>11, <2>1, <2>2, Zenon DEF ResponseCame
    <2>4. Ordered(i)'
      BY <1>3, <1>8, <2>3 DEF Ordered
    <2>5. returned'[i] - Len(data'[i]) + 1 = returned[i] + 1
      BY <1>2, <1>5, <1>6, <1>7
    <2>6. returned'[i] <= ResponseLength
      BY <1>2, <1>5, <1>7, <2>2
    <2> QED BY <1>5, <1>6, <2>1, <2>2, <2>4, <2>5, <2>6
  <1> QED BY <1>9, <1>10, <1>11 DEF Ordered
-----------------------------------------------------------------------------
(* What a step leaves alone of a session that is not the one returning.    *)
LEMMA SessionStays ==
  ASSUME Base, [Next]_vars, NEW i \in Instruments, ~ Return(i), ~ Write(i)
  PROVE  returned'[i] = returned[i] /\ wrote'[i] = wrote[i]
  <1>0. returned \in [Instruments -> Nat] /\ wrote \in [Instruments -> Nat]
    BY DEF Base, SessionTypes
  <1>1. ASSUME NEW j \in Instruments, Write(j)
        PROVE  returned'[i] = returned[i] /\ wrote'[i] = wrote[i]
    <2>1. i # j /\ returned' = [returned EXCEPT ![j] = 0] /\ wrote' = [wrote EXCEPT ![j] = calls]
      BY <1>1 DEF Write
    <2> QED BY <1>0, <2>1
  <1>2. ASSUME NEW j \in Instruments, Return(j)
        PROVE  returned'[i] = returned[i] /\ wrote'[i] = wrote[i]
    <2>1. i # j /\ wrote' = wrote
      BY <1>2 DEF Return
    <2>3. returned' = returned \/ \E x : returned' = [returned EXCEPT ![j] = x]
      BY <1>2, Zenon DEF Return
    <2> QED BY <1>0, <2>1, <2>3
  <1>3. ASSUME NEW j \in Instruments,
               \/ \E name \in {"write", "clr", "trg"} : Begin(j, name, 0)
               \/ \E n \in Counts : Begin(j, "read", n)
               \/ Begin(j, "status", Line)
               \/ \E mask \in Masks : Flush(j, mask)
               \/ Lock(j) \/ Address(j) \/ WriteOob(j) \/ Poll(j) \/ PlusPlusRead(j) \/ Receive(j)
        PROVE  UNCHANGED <<returned, wrote>>
    BY <1>3 DEF Begin, Flush, Lock, Address, WriteOob, Poll, PlusPlusRead, Receive, sessions
  <1>4. Execute \/ UNCHANGED vars => UNCHANGED <<returned, wrote>>
    BY DEF Execute, vars, sessions
  <1> QED BY <1>1, <1>2, <1>3, <1>4 DEF Next, CallStep

LEMMA OwnStreamStep ==
  ASSUME Base, Answers, NotReturned, OwnStream, [Next]_vars
  PROVE  OwnStream'
  <1>1. SUFFICES ASSUME NEW j \in Instruments, Owns(j)'
                 PROVE  Ordered(j)'
    BY DEF OwnStream
  <1>2. Owns(j) => Ordered(j)
    BY DEF OwnStream
  <1>3. /\ pc \in [Instruments -> {"idle", "lock"} \cup Inside] /\ clean \in [Instruments -> BOOLEAN]
        /\ returned \in [Instruments -> Nat]
        /\ \A i \in Instruments : op[i] \in [name : {"none", "write", "clr", "trg", "read", "status"}, count : Nat]
        /\ op \in [Instruments -> [name : {"none", "write", "clr", "trg", "read", "status"}, count : Nat]]
    BY DEF Base, SessionTypes
  <1>4. ASSUME NEW i \in Instruments, NEW name, NEW count, Begin(i, name, count)
        PROVE  Ordered(j)'
    <2>1. pc[i] = "idle" /\ pc' = [pc EXCEPT ![i] = "lock"] /\ op' = [op EXCEPT ![i] = [name |-> name, count |-> count]]
      BY <1>4 DEF Begin, At, Goto
    <2>2. UNCHANGED <<socket, intfc, wrote, clean, returned, adapter>>
      BY <1>4 DEF Begin
    <2>3. Owns(j) /\ Stream' = Stream
      BY <1>1, <2>2 DEF Owns, intfc, socket, Stream
    <2>4. UNCHANGED <<commands, plusPlusRead>> /\ answer'[j] = answer[j]
          /\ wrote'[j] = wrote[j] /\ returned'[j] = returned[j]
      BY <2>2 DEF intfc, adapter
    <2>5. Polling(j)' <=> Polling(j)
      BY <1>3, <2>1 DEF Polling
    <2>6. pc'[j] \in {"send", "poll"} => pc[j] \in {"send", "poll"}
      BY <1>3, <2>1
    <2> QED BY <1>2, <2>3, <2>4, <2>5, <2>6, OrderedStays
  <1>5. ASSUME NEW i \in Instruments, Lock(i)
        PROVE  Ordered(j)'
    <2>1. pc[i] = "lock" /\ pc' = [pc EXCEPT ![i] = "address"]
          /\ UNCHANGED <<socket, gpibAddr, plusPlusRead, op, wrote, clean, returned, adapter>>
      BY <1>5 DEF Lock, At, Goto
    <2>2. Owns(j) /\ Stream' = Stream
      BY <1>1, <2>1 DEF Owns, socket, Stream
    <2>3. Polling(j)' <=> Polling(j)
      BY <1>3, <2>1 DEF Polling
    <2>4. pc'[j] \in {"send", "poll"} => pc[j] \in {"send", "poll"}
      BY <1>3, <2>1
    <2>5. UNCHANGED <<commands, plusPlusRead>> /\ answer'[j] = answer[j]
          /\ wrote'[j] = wrote[j] /\ returned'[j] = returned[j]
      BY <2>1 DEF adapter
    <2> QED BY <1>2, <2>2, <2>3, <2>4, <2>5, OrderedStays
  <1>6. ASSUME NEW i \in Instruments, Address(i)
        PROVE  Ordered(j)'
    <2>1. i = j
      BY <1>1, <1>6 DEF Owns, Address
    <2> QED BY <1>1, <1>2, <1>6, <2>1, OrderedAddress
  <1>7. ASSUME NEW i \in Instruments, Write(i) \/ WriteOob(i) \/ Poll(i) \/ PlusPlusRead(i) \/ Receive(i)
        PROVE  Ordered(j)'
    <2>1. pc[i] \in Inside \ {"address"}
      <3>1. pc[i] \in {"send", "poll", "receive", "loop"}
        BY <1>7 DEF Write, WriteOob, Poll, PlusPlusRead, Receive, At
      <3> QED BY <3>1 DEF Inside
    <2>2. gpibAddr' = gpibAddr /\ clean' = clean
      BY <1>7 DEF Write, WriteOob, Poll, PlusPlusRead, Receive, intfc, sessions
    <2>3. i = j /\ Ordered(j)
      BY <1>1, <1>2, <2>1, <2>2, InsideIsAddressed DEF Owns
    <2>4. CASE Receive(i)
      <3>1. UNCHANGED <<commands, plusPlusRead, pc, op, answer, wrote, returned>>
        BY <2>4 DEF Receive, intfc, sessions, adapter
      <3>2. Polling(j)' <=> Polling(j)
        BY <3>1 DEF Polling
      <3>3. Stream' = Stream
        BY <2>4, ReceiveKeepsStream
      <3> QED BY <2>3, <3>1, <3>2, <3>3, OrderedStays
    <2> QED BY <1>7, <2>3, <2>4, OrderedWrites, OrderedPlusPlusRead
  <1>8. ASSUME NEW i \in Instruments, Return(i)
        PROVE  Ordered(j)'
    <2>1. pc[i] \in Inside \ {"address"} /\ gpibAddr' = gpibAddr /\ op[i].name \in {"read", "status"}
      <3>1. pc[i] = "loop" /\ gpibAddr' = gpibAddr
        BY <1>8 DEF Return, At
      <3> QED BY <3>1 DEF Inside, Base, Locking
    <2>2. i = j
      BY <1>1, <2>1, InsideIsAddressed DEF Owns
    <2>3. clean[j] /\ clean'[j]
      <3>1. clean'[j]
        BY <1>1 DEF Owns
      <3> QED BY <1>8, <2>2, <3>1, CleanBefore
    <2>4. Ordered(j)
      BY <1>1, <1>2, <2>1, <2>3 DEF Owns
    <2> QED BY <1>8, <2>1, <2>2, <2>3, <2>4, StatusReturn, ReadReturns
  <1>9. ASSUME NEW i \in Instruments, NEW mask \in Masks, Flush(i, mask)
        PROVE  Ordered(j)'
    <2>1. clean[j] /\ mask = "flush_write_buffer"
      <3>1. clean' = [k \in Instruments |-> clean[k] /\ mask = "flush_write_buffer"]
        BY <1>9 DEF Flush
      <3>2. clean'[j]
        BY <1>1 DEF Owns
      <3> QED BY <3>1, <3>2, Zenon
    <2>2. UNCHANGED <<pending, chunk, arrived, intfc, pc, op, wrote, returned, adapter>>
      BY <1>9, <2>1 DEF Flush, SocketFlush
    <2>3. Owns(j) /\ Stream' = Stream
      BY <1>1, <2>1, <2>2 DEF Owns, intfc, Stream
    <2>4. UNCHANGED <<commands, plusPlusRead, answer>>
      BY <2>2 DEF intfc, adapter
    <2>5. Polling(j)' <=> Polling(j)
      BY <2>2 DEF Polling
    <2> QED BY <1>2, <2>2, <2>3, <2>4, <2>5, OrderedStays
  <1>10. CASE Execute
    <2>1. Owns(j)
      BY <1>1, <1>10 DEF Execute, intfc, sessions, Owns
    <2> QED BY <1>2, <1>10, <2>1, OrderedExecute
  <1>11. CASE UNCHANGED vars
    <2>1. UNCHANGED <<pending, chunk, arrived, gpibAddr, clean, commands, plusPlusRead, pc, op, answer, wrote, returned>>
      BY <1>11 DEF vars, socket, intfc, sessions, adapter
    <2>2. Owns(j) /\ Stream' = Stream
      BY <1>1, <2>1 DEF Owns, Stream
    <2>3. Polling(j)' <=> Polling(j)
      BY <2>1 DEF Polling
    <2> QED BY <1>2, <2>1, <2>2, <2>3, OrderedStays
  <1> QED BY <1>4, <1>5, <1>6, <1>7, <1>8, <1>9, <1>10, <1>11 DEF Next, CallStep
LEMMA CleanReturnOwns ==
  ASSUME Base, OwnStream, NEW i \in Instruments, Return(i), clean'[i]
  PROVE  Ordered(i) /\ op'[i] = op[i] /\ op[i].name \in {"read", "status"}
  <1>1. pc[i] = "loop" /\ op' = op
    BY DEF Return, At
  <1>2. gpibAddr = i /\ op[i].name \in {"read", "status"}
    BY <1>1, InsideIsAddressed DEF Inside, Base, Locking
  <1>3. clean[i]
    BY CleanBefore
  <1> QED BY <1>1, <1>2, <1>3 DEF OwnStream, Owns

LEMMA NotReturnedStep ==
  ASSUME Base, NotReturned, OwnStream, [Next]_vars
  PROVE  NotReturned'
  <1>1. SUFFICES ASSUME NEW j \in Instruments, returned'[j] # 0
                 PROVE  NoData(j)' /\ answer'[j] = <<>> /\ returned'[j] <= ResponseLength
    BY DEF NotReturned, NoData
  <1>2. returned[j] # 0 => NoData(j) /\ answer[j] = <<>> /\ returned[j] <= ResponseLength
    BY DEF NotReturned, NoData
  <1>3. returned \in [Instruments -> Nat]
    BY DEF Base, SessionTypes
  <1>4. CASE Return(j)
    <2>1. commands' = commands /\ answer' = answer
      BY <1>4 DEF Return, adapter
    <2>2. CASE returned'[j] = returned[j]
      <3>1. NoData(j)'
        BY <1>1, <1>2, <2>1, <2>2 DEF NoData, IsData
      <3> QED BY <1>1, <1>2, <2>1, <2>2, <3>1
    <2>3. CASE returned'[j] # returned[j]
      <3>1. op[j].name = "read" /\ clean'[j]
        <4>1. IF op[j].name = "read"
                THEN /\ returned' = [returned EXCEPT ![j] = IF clean[j] THEN @ + Len(cut.out) ELSE @]
                     /\ UNCHANGED clean
                ELSE /\ clean' = [clean EXCEPT ![j] = @ /\ ReadStatus # "timeout"]
                     /\ UNCHANGED returned
          BY <1>4, Zenon DEF Return
        <4>2. op[j].name = "read"
          BY <2>3, <4>1, Zenon
        <4>3. clean[j]
          <5>1. ~ clean[j] => returned' = [returned EXCEPT ![j] = @]
            BY <4>1, <4>2, Zenon
          <5> QED BY <1>3, <2>3, <5>1
        <4> QED BY <4>1, <4>2, <4>3, Zenon
      <3>2. commands = <<>> /\ answer[j] = <<>> /\ returned'[j] <= ResponseLength
        BY <1>1, <1>4, <2>3, <3>1, CleanReturnOwns, ReadReturns
      <3>3. NoData(j)'
        BY <2>1, <3>2 DEF NoData
      <3> QED BY <2>1, <3>2, <3>3
    <2> QED BY <2>2, <2>3
  <1>5. ~ Write(j)
    BY <1>1, <1>3 DEF Write
  <1>6. CASE ~ Return(j)
    <2>1. NoData(j) /\ answer[j] = <<>> /\ returned'[j] <= ResponseLength
      BY <1>1, <1>2, <1>5, <1>6, SessionStays
    <2>2. CASE UNCHANGED <<adapter, gpibAddr, wrote>>
      BY <2>1, <2>2 DEF adapter, NoData, IsData
    <2>3. ASSUME NEW i \in Instruments, NEW c \in Commands, Sends(i, c),
                 c.name = "data" => Write(i)
          PROVE  NoData(j)' /\ answer'[j] = <<>>
      <3>1. ~ (c.name = "data" /\ c.by = j)
        BY <1>5, <2>3 DEF Sends
      <3>2. NoData(j)'
        BY <2>1, <2>3, <3>1, NoDataSends
      <3>3. answer' = answer
        BY <2>3 DEF Sends
      <3> QED BY <2>1, <3>2, <3>3
    <2>4. CASE Execute
      <3>1. ~ IsData(1, j)
        BY <2>1, <2>4, NoDataExecute DEF NoData
      <3> QED BY <2>1, <2>4, <3>1, NoDataExecute, AnswerStays
    <2>5. NoData(j)' /\ answer'[j] = <<>>
      BY <2>2, <2>3, <2>4, CommandKinds, Zenon
    <2> QED BY <2>1, <2>5
  <1> QED BY <1>4, <1>6

(* What a session has returned stays, until its next call.                 *)
LEMMA ResultStays ==
  ASSUME Base, [Next]_vars, NEW i \in Instruments, ~ Return(i), status'[i] # "none"
  PROVE  /\ op'[i] = op[i] /\ status'[i] = status[i] /\ data'[i] = data[i]
         /\ clean'[i] => clean[i]
         /\ ~ Write(i)
  <1>0. /\ op \in [Instruments -> [name : {"none", "write", "clr", "trg", "read", "status"}, count : Nat]]
        /\ status \in [Instruments -> Statuses] /\ data \in [Instruments -> Seq(Units)]
        /\ clean \in [Instruments -> BOOLEAN]
        /\ \A j \in Instruments : pc[j] # "idle" => status[j] = "none"
    BY DEF Base, SessionTypes, Locking
  <1>1. ASSUME NEW j \in Instruments, NEW name, NEW count, Begin(j, name, count)
        PROVE  /\ op'[i] = op[i] /\ status'[i] = status[i] /\ data'[i] = data[i] /\ clean' = clean
               /\ ~ Write(i)
    <2>1. i # j
      BY <1>0, <1>1 DEF Begin
    <2>2. ~ Write(i)
      <3>1. calls' = calls + 1 /\ UNCHANGED wrote /\ pc'[i] = pc[i]
        BY <1>1, <2>1 DEF Begin, Goto, Base, SessionTypes
      <3>2. Write(i) => pc[i] = "send" /\ pc'[i] = "idle"
        BY DEF Write, At, Release, Goto, Base, SessionTypes
      <3> QED BY <3>1, <3>2
    <2> QED BY <1>0, <1>1, <2>1, <2>2 DEF Begin
  <1>2. ~ Write(i) /\ ~ Address(i)
    BY <1>0 DEF Write, Address, At
  <1>3. ASSUME NEW j \in Instruments, Address(j)
        PROVE  /\ UNCHANGED <<op, status, data>> /\ clean'[i] = clean[i]
    BY <1>0, <1>2, <1>3 DEF Address
  <1>4. ASSUME NEW j \in Instruments,
               Lock(j) \/ Write(j) \/ WriteOob(j) \/ Poll(j) \/ PlusPlusRead(j) \/ Receive(j)
        PROVE  UNCHANGED <<op, status, data, clean>>
    BY <1>4 DEF Lock, Write, WriteOob, Poll, PlusPlusRead, Receive, sessions
  <1>5. ASSUME NEW j \in Instruments, NEW mask \in Masks, Flush(j, mask)
        PROVE  UNCHANGED <<op, status, data>> /\ (clean'[i] => clean[i])
    <2>1. clean' = [k \in Instruments |-> clean[k] /\ mask = "flush_write_buffer"]
      BY <1>5 DEF Flush
    <2>2. clean'[i] => clean[i]
      BY <2>1, Zenon
    <2> QED BY <1>5, <2>2 DEF Flush
  <1>6. ASSUME NEW j \in Instruments, Return(j)
        PROVE  /\ op' = op /\ status'[i] = status[i] /\ data'[i] = data[i] /\ clean'[i] = clean[i]
    <2>1. i # j /\ op' = op
      BY <1>6 DEF Return
    <2>2. /\ data' = [data EXCEPT ![j] = cut.out]
          /\ status' = [status EXCEPT ![j] = ReadStatus]
          /\ IF op[j].name = "read" THEN UNCHANGED clean
                                    ELSE clean' = [clean EXCEPT ![j] = @ /\ ReadStatus # "timeout"]
      BY <1>6, Zenon DEF Return
    <2>3. clean'[i] = clean[i]
      BY <1>0, <2>1, <2>2, Zenon
    <2> QED BY <1>0, <2>1, <2>2, <2>3
  <1>7. Execute \/ UNCHANGED vars => UNCHANGED <<op, status, data, clean>>
    BY DEF Execute, vars, sessions
  <1> QED BY <1>1, <1>2, <1>3, <1>4, <1>5, <1>6, <1>7 DEF Next, CallStep

LEMMA ReadsOwnStep ==
  ASSUME Base, NotReturned, OwnStream, ReadsOwnResponse, [Next]_vars
  PROVE  ReadsOwnResponse'
  <1>1. SUFFICES ASSUME NEW j \in Instruments, clean'[j], op'[j].name = "read", status'[j] # "none"
                 PROVE  data'[j] = SubSeq(Response(j, wrote'[j]), returned'[j] - Len(data'[j]) + 1, returned'[j])
    BY DEF ReadsOwnResponse, Response, Unit
  <1>2. CASE Return(j)
    <2>1. wrote' = wrote
      BY <1>2 DEF Return
    <2> QED BY <1>1, <1>2, <2>1, CleanReturnOwns, ReadReturns
  <1>3. CASE ~ Return(j)
    <2>1. /\ op'[j] = op[j] /\ status'[j] = status[j] /\ data'[j] = data[j]
          /\ clean[j] /\ returned'[j] = returned[j] /\ wrote'[j] = wrote[j]
      BY <1>1, <1>3, ResultStays, SessionStays
    <2>2. data[j] = SubSeq(Response(j, wrote[j]), returned[j] - Len(data[j]) + 1, returned[j])
      BY <1>1, <2>1 DEF ReadsOwnResponse
    <2> QED BY <2>1, <2>2
  <1> QED BY <1>2, <1>3

LEMMA DataStep == Base /\ Data /\ [Next]_vars => Data'
  BY LastDataStep, AnswersStep, NotReturnedStep, OwnStreamStep, ReadsOwnStep DEF Data

(* Reads return the response to the last write of their own instrument,    *)
(* from the first unit on and one read after the other, whatever threads   *)
(* of other instruments write, read and poll meanwhile.                    *)
THEOREM Reads_own_response == Spec => []ReadsOwnResponse
  <1>1. Spec => []Data
    BY InitData, DataStep, Base_holds, PTL DEF Spec
  <1>2. Data => ReadsOwnResponse
    BY DEF Data
  <1> QED BY <1>1, <1>2, PTL

LEMMA StatusStep ==
  ASSUME Base, Data, StatusIsStatus, [Next]_vars
  PROVE  StatusIsStatus'
  <1>1. SUFFICES ASSUME NEW j \in Instruments, clean'[j], op'[j].name = "status", status'[j] = "term"
                 PROVE  data'[j] = <<StatusUnit(j)>>
    BY DEF StatusIsStatus, StatusUnit
  <1>2. CASE Return(j)
    BY <1>1, <1>2, CleanReturnOwns, StatusReturn DEF Data
  <1>3. CASE ~ Return(j)
    <2>1. op'[j] = op[j] /\ status'[j] = status[j] /\ data'[j] = data[j] /\ clean[j]
      BY <1>1, <1>3, ResultStays
    <2> QED BY <1>1, <2>1 DEF StatusIsStatus
  <1> QED BY <1>2, <1>3

(* read_stb returns the status byte of its instrument, not data, even when *)
(* its read also fetches a response.                                       *)
THEOREM Status_is_status == Spec => []StatusIsStatus
  <1>1. Init => StatusIsStatus
    BY DEF Init, StatusIsStatus
  <1>2. Spec => []Data
    BY InitData, DataStep, Base_holds, PTL DEF Spec
  <1>3. Base /\ Data /\ StatusIsStatus /\ [Next]_vars => StatusIsStatus'
    BY StatusStep
  <1> QED BY <1>1, <1>2, <1>3, Base_holds, PTL DEF Spec
-----------------------------------------------------------------------------
(* RawSocket implements MessageRead: what a read looks for is the          *)
(* attribute of the session, and the stream is made of units.              *)
StreamUnits == [no : Nat, term : BOOLEAN]

(* What a read has taken is what it promised; it is nothing, if the buffer *)
(* was emptied after its tests.                                            *)
Promised ==
    /\ Len(cut.out) <= want
    /\ \A k \in 1..Len(cut.out) : (k < Len(cut.out) \/ cut.how # "term") => ~ Stops(cut.out[k], mode)
    /\ ~ emptied /\ cut.how = "term" =>
          (Len(cut.out) # 0 /\ Stops(cut.out[Len(cut.out)], mode))
    /\ ~ emptied /\ cut.how = "count" => Len(cut.out) = want
    /\ emptied => Len(cut.out) = 0

Sliced == cut.at \in {"rest", "store"}

StreamInv ==
    /\ ReadingTypes(StreamUnits)
    /\ sent \in Nat /\ others \in Nat /\ want \in Nat
    /\ termEn \in BOOLEAN /\ emptied \in BOOLEAN
    /\ want # 0 => mode = termEn
    /\ want = 0 => (cut = NoCut /\ chunk = <<>>)
    /\ cut.at # "loop" => chunk = <<>>
    /\ cut.at = "loop" => ~ emptied
    /\ ~ Sliced => cut.out = <<>>
    /\ cut.at \in {"index", "cut"} /\ emptied => pending = <<>>
    /\ cut.at = "index" /\ ~ emptied => HasTerm
    /\ cut.at = "cut" /\ ~ emptied => Fits(cut, want)
    /\ Sliced => Promised

StreamStutter == UNCHANGED <<Waiting, want, mode, sockResult>>

(* What one step may do: it is a step of MessageRead, or none, and the     *)
(* reading thread throws nothing away.                                     *)
StreamMove ==
    /\ AbstractStream!MNext \/ StreamStutter
    /\ (want # 0 /\ UNCHANGED <<instrument, other, others>>)
          => UNCHANGED Waiting \/ AbstractStream!Return

LEMMA StreamBegins == ASSUME SockInit PROVE StreamInv /\ AbstractStream!MInit
  <1>1. <<>> \in Seq(StreamUnits) /\ <<>> \o <<>> = <<>>
    BY EmptySeq, ConcatEmptySeq
  <1>2. NoCut \in Cuts(StreamUnits) /\ NoCut.at = "loop" /\ NoCut.out = <<>>
    BY <1>1 DEF NoCut, Cuts, Hows
  <1>3. /\ pending = <<>> /\ chunk = <<>> /\ arrived = <<>> /\ cut = NoCut
        /\ sent = 0 /\ others = 0 /\ want = 0 /\ termEn \in BOOLEAN /\ emptied = FALSE
        /\ mode = NoMode /\ sockResult = [data |-> <<>>, how |-> "none", torn |-> FALSE]
    BY DEF SockInit
  <1>4. StreamInv
    BY <1>1, <1>2, <1>3 DEF StreamInv, ReadingTypes, Sliced
  <1>5. Waiting = <<>>
    BY <1>1, <1>2, <1>3 DEF Waiting, Held
  <1>6. SockOutcome = [data |-> <<>>, how |-> "none"]
    BY <1>3 DEF SockOutcome
  <1> QED BY <1>3, <1>4, <1>5, <1>6 DEF AbstractStream!MInit

(* The parts of the stream.                                                *)
LEMMA WaitingTypes ==
  ASSUME StreamInv
  PROVE  /\ pending \in Seq(StreamUnits) /\ chunk \in Seq(StreamUnits)
         /\ arrived \in Seq(StreamUnits) /\ cut \in Cuts(StreamUnits)
         /\ cut.out \in Seq(StreamUnits) /\ Len(cut.out) \in Nat /\ cut.size \in Nat
         /\ Len(pending) \in Nat
         /\ Behind(cut.size) \in Seq(StreamUnits) /\ cut.rest \in Seq(StreamUnits)
         /\ Held \in Seq(StreamUnits) /\ Waiting \in Seq(StreamUnits)
         /\ Waiting = Held \o (chunk \o arrived)
  <1>1. /\ pending \in Seq(StreamUnits) /\ chunk \in Seq(StreamUnits)
        /\ arrived \in Seq(StreamUnits) /\ cut \in Cuts(StreamUnits)
    BY DEF StreamInv, ReadingTypes
  <1>2. cut.out \in Seq(StreamUnits) /\ cut.rest \in Seq(StreamUnits) /\ cut.size \in Nat
    BY <1>1 DEF Cuts
  <1>3. Len(cut.out) \in Nat /\ Len(pending) \in Nat
    BY <1>1, <1>2, LenProperties
  <1>4. Behind(cut.size) \in Seq(StreamUnits)
    <2>1. Len(pending) \in 0..Len(pending)
      BY <1>3
    <2> QED BY <1>1, <1>2, <2>1, PartTypes DEF Behind
  <1>5. Held \in Seq(StreamUnits)
    BY <1>1, <1>2, <1>4, ConcatProperties DEF Held
  <1>6. Waiting \in Seq(StreamUnits)
    BY <1>1, <1>5, ConcatProperties DEF Waiting
  <1>7. Waiting = Held \o (chunk \o arrived)
    <2>1. (Held \o chunk) \o arrived = Held \o (chunk \o arrived)
      BY ONLY <1>1, <1>5, ConcatAssociative
    <2> QED BY <2>1 DEF Waiting
  <1> QED BY <1>1, <1>2, <1>3, <1>4, <1>5, <1>6, <1>7

(* The invariant, when nothing of the read under way changes.              *)
LEMMA StreamInvStays ==
  ASSUME StreamInv, UNCHANGED <<pending, chunk, cut, want, mode, termEn, emptied>>,
         arrived' \in Seq(StreamUnits), sent' \in Nat, others' \in Nat
  PROVE  StreamInv' /\ Held' = Held
  <1>1. (HasTerm' <=> HasTerm) /\ TermIndex' = TermIndex
    BY SameBuffer
  <1>2. StreamInv'
    BY <1>1 DEF StreamInv, ReadingTypes, Sliced, Promised, Fits
  <1>3. Held' = Held
    BY DEF Held, Behind
  <1> QED BY <1>2, <1>3

LEMMA SendUnitStep == ASSUME StreamInv, SendUnit PROVE StreamInv' /\ StreamMove
  <1>1. PICK term \in BOOLEAN : arrived' = Append(arrived, [no |-> sent', term |-> term])
    BY DEF SendUnit
  <1>2. /\ sent' = sent + 1 /\ sent \in Nat /\ others' \in Nat
        /\ UNCHANGED <<pending, chunk, cut, want, mode, termEn, emptied, sockResult>>
    BY DEF SendUnit, options, reading, asked, StreamInv
  <1> DEFINE one == <<[no |-> sent', term |-> term]>>
  <1>3. /\ sent' \in Nat /\ sent' # sent /\ [no |-> sent', term |-> term] \in StreamUnits
    BY <1>2 DEF StreamUnits
  <1>4. one \in Seq(StreamUnits) /\ Len(one) = 1
    BY <1>3
  <1>5. /\ arrived \in Seq(StreamUnits) /\ Held \o chunk \in Seq(StreamUnits)
        /\ Waiting \in Seq(StreamUnits) /\ Len(Waiting) \in Nat
    BY WaitingTypes, ConcatProperties, LenProperties
  <1>6. arrived' \in Seq(StreamUnits) /\ arrived' = arrived \o one
    BY <1>1, <1>3, <1>5, AppendProperties, AppendIsConcat
  <1> HIDE DEF one
  <1>7. StreamInv' /\ Held' = Held
    BY <1>2, <1>3, <1>6, StreamInvStays
  <1>8. Waiting' = Waiting \o one
    <2> DEFINE v == Held \o chunk
    <2>1. v \in Seq(StreamUnits) /\ arrived \in Seq(StreamUnits) /\ one \in Seq(StreamUnits)
      BY <1>4, <1>5
    <2>2. Waiting = v \o arrived /\ Waiting' = v \o (arrived \o one)
      BY <1>2, <1>6, <1>7 DEF Waiting
    <2> HIDE DEF v
    <2>3. (v \o arrived) \o one = v \o (arrived \o one)
      BY ONLY <2>1, ConcatAssociative
    <2> QED BY <2>2, <2>3
  <1>9. /\ Len(Waiting \o one) = Len(Waiting) + Len(one)
        /\ SubSeq(Waiting \o one, 1, Len(Waiting)) = Waiting
    <2> DEFINE w == Waiting
    <2>1. w \in Seq(StreamUnits) /\ one \in Seq(StreamUnits)
      BY <1>4, <1>5
    <2> HIDE DEF w
    <2>2. Len(w \o one) = Len(w) + Len(one)
      BY ONLY <2>1, ConcatProperties
    <2>3. SubSeq(w \o one, 1, Len(w)) = w
      BY ONLY <2>1, CutConcat, Zenon
    <2> QED BY <2>2, <2>3 DEF w
  <1>10. Len(Waiting') > Len(Waiting) /\ SubSeq(Waiting', 1, Len(Waiting)) = Waiting
    BY <1>4, <1>5, <1>8, <1>9
  <1>11. SockOutcome' = SockOutcome
    BY <1>2 DEF SockOutcome
  <1>12. AbstractStream!Arrive
    BY <1>2, <1>10, <1>11 DEF AbstractStream!Arrive
  <1> QED BY <1>3, <1>7, <1>12 DEF StreamMove, AbstractStream!MNext, instrument

LEMMA BeginReadStep ==
  ASSUME StreamInv, NEW n \in SockCounts, BeginRead(n) PROVE StreamInv' /\ StreamMove
  <1>1. /\ want = 0 /\ want' = n /\ mode' = termEn
        /\ UNCHANGED <<termEn, sent, pending, chunk, arrived, cut, emptied, sockResult, others>>
    BY DEF BeginRead, options, buffers, instrument
  <1>2. n \in Nat \ {0}
    BY SocketAssumption
  <1>3. cut = NoCut /\ NoCut.at = "loop"
    BY <1>1 DEF StreamInv, NoCut
  <1>4. StreamInv'
    BY <1>1, <1>2, <1>3 DEF StreamInv, ReadingTypes, Sliced
  <1>5. mode' \in Modes
    BY <1>1 DEF StreamInv, Modes
  <1>6. Waiting' = Waiting /\ SockOutcome' = SockOutcome
    BY <1>1 DEF Waiting, Held, Behind, SockOutcome
  <1>7. AbstractStream!Begin
    BY <1>1, <1>2, <1>5, <1>6 DEF AbstractStream!Begin
  <1> QED BY <1>1, <1>4, <1>7 DEF StreamMove, AbstractStream!MNext

LEMMA SocketReceivesStep ==
  ASSUME StreamInv, UNCHANGED <<options, instrument, asked, emptied, sockResult, others>>,
         ReadRecv(want) \/ ReadExtend
  PROVE  StreamInv' /\ StreamMove
  <1>1. UNCHANGED <<termEn, sent, want, mode, emptied, sockResult, others>>
    BY DEF options, instrument, asked
  <1>2. cut' = cut /\ cut.at = "loop" /\ want # 0
    <2>1. cut' = cut /\ cut.at = "loop"
      BY DEF ReadRecv, ReadExtend, StreamInv
    <2>2. ASSUME want = 0
          PROVE  FALSE
      <3>1. chunk = <<>>
        BY <2>2 DEF StreamInv
      <3>2. Len(pending) >= 0
        BY WaitingTypes
      <3> QED BY <2>2, <3>1, <3>2 DEF ReadRecv, ReadExtend, Complete
    <2> QED BY <2>1, <2>2
  <1>3. Waiting = Stream /\ Waiting' = Stream'
    BY <1>2 DEF Waiting, Held, Stream
  <1>4. Stream' = Stream /\ ReadingTypes(StreamUnits)'
    <2>1. want \in Nat /\ ReadingTypes(StreamUnits)
      BY DEF StreamInv
    <2> QED BY <2>1, RecvKeepsStream, ReadStepTypes DEF ReadStep
  <1>5. StreamInv'
    BY <1>1, <1>2, <1>4 DEF StreamInv, Sliced
  <1> QED BY <1>1, <1>3, <1>4, <1>5 DEF StreamStutter, StreamMove

(* A read makes up its mind.                                               *)
LEMMA ReadDecidesStep ==
  ASSUME StreamInv, want # 0, UNCHANGED <<options, instrument, asked, emptied, sockResult, others>>,
         ReadTests(want) \/ ReadIndex(want)
  PROVE  StreamInv' /\ StreamMove
  <1>1. UNCHANGED <<termEn, sent, want, mode, emptied, sockResult, others>>
    BY DEF options, instrument, asked
  <1>2. want \in Nat /\ ReadingTypes(StreamUnits) /\ pending \in Seq(StreamUnits)
    BY WaitingTypes DEF StreamInv
  <1>3. Decides(want)
    BY <1>2, DecisionFits
  <1>4. ReadingTypes(StreamUnits)'
    BY <1>2, ReadStepTypes DEF ReadStep
  <1>5. /\ UNCHANGED <<pending, chunk, arrived>> /\ cut'.out = <<>>
        /\ cut'.at \in {"index", "cut"}
        /\ cut'.at = "index" => HasTerm
        /\ cut'.at = "cut" => Fits(cut', want)
    BY <1>3 DEF Decides
  <1>6. (HasTerm' <=> HasTerm) /\ TermIndex' = TermIndex
    BY <1>1, <1>5, SameBuffer
  <1>7. chunk = <<>> /\ ~ emptied /\ cut.at \in {"loop", "index"}
    <2>1. CASE ReadTests(want)
      BY <2>1 DEF ReadTests, StreamInv
    <2>2. CASE ReadIndex(want)
      <3>1. cut.at = "index" /\ HasTerm
        BY <2>2 DEF ReadIndex
      <3>2. pending # <<>>
        BY <3>1 DEF HasTerm
      <3> QED BY <3>1, <3>2 DEF StreamInv
    <2> QED BY <2>1, <2>2
  <1>8. StreamInv'
    BY <1>1, <1>4, <1>5, <1>6, <1>7 DEF StreamInv, Sliced, Fits
  <1>9. Held' = Held
    BY <1>5, <1>7 DEF Held
  <1>10. Waiting' = Waiting
    BY <1>5, <1>9 DEF Waiting
  <1> QED BY <1>1, <1>8, <1>10 DEF StreamStutter, StreamMove

(* No unit before the termination character ends a read, and none at all   *)
(* without one.                                                            *)
LEMMA NoStopBefore ==
  ASSUME StreamInv, want # 0
  PROVE  /\ HasTerm => /\ TermIndex \in 1..Len(pending) /\ Stops(pending[TermIndex], mode)
                       /\ \A i \in 1..TermIndex - 1 : ~ Stops(pending[i], mode)
         /\ ~ HasTerm => \A i \in 1..Len(pending) : ~ Stops(pending[i], mode)
  <1>1. mode = termEn /\ pending \in Seq(StreamUnits)
    BY WaitingTypes DEF StreamInv
  <1>2. ASSUME HasTerm
        PROVE  /\ TermIndex \in 1..Len(pending) /\ Stops(pending[TermIndex], mode)
               /\ \A i \in 1..TermIndex - 1 : ~ Stops(pending[i], mode)
    <2>1. /\ TermIndex \in 1..Len(pending) /\ pending[TermIndex].term
          /\ \A i \in 1..TermIndex - 1 : ~ pending[i].term
      BY <1>1, <1>2, TermIndexFirst
    <2>2. termEn
      BY <1>2 DEF HasTerm
    <2> QED BY <1>1, <2>1, <2>2, Zenon DEF Stops
  <1>3. ASSUME ~ HasTerm, NEW i \in 1..Len(pending) PROVE ~ Stops(pending[i], mode)
    <2>1. i \in DOMAIN pending
      BY <1>1
    <2> QED BY <1>1, <1>3, <2>1, Zenon DEF HasTerm, Stops
  <1> QED BY <1>2, <1>3

(* The first slice takes what was decided.                                 *)
LEMMA FrontBehind ==
  ASSUME NEW S, pending \in Seq(S), NEW n \in Nat
  PROVE  /\ Front(n) \in Seq(S) /\ Len(Front(n)) = Least(n, Len(pending))
         /\ Front(n) \o Behind(n) = pending
         /\ \A k \in 1..Len(Front(n)) : Front(n)[k] = pending[k]
  <1> DEFINE m == Least(n, Len(pending))
  <1>1. Len(pending) \in Nat /\ m \in 0..Len(pending)
    BY LenProperties DEF Least
  <1>2. SubSeq(pending, n + 1, Len(pending)) = SubSeq(pending, m + 1, Len(pending))
    <2>1. CASE m = n
      BY <2>1
    <2>2. CASE m # n
      <3>1. m = Len(pending) /\ n > Len(pending)
        BY <1>1, <2>2 DEF Least
      <3> QED BY <1>1, <3>1, SubSeqEmpty
    <2> QED BY <2>1, <2>2
  <1> HIDE DEF m
  <1>3. /\ SubSeq(pending, 1, m) \in Seq(S) /\ Len(SubSeq(pending, 1, m)) = m
        /\ SubSeq(pending, 1, m) \o SubSeq(pending, m + 1, Len(pending)) = pending
    BY <1>1, CutSeq
  <1>4. \A k \in 1..m : SubSeq(pending, 1, m)[k] = pending[k]
    BY <1>1
  <1>5. Front(n) = SubSeq(pending, 1, m) /\ Behind(n) = SubSeq(pending, m + 1, Len(pending))
    BY <1>2 DEF Front, Behind, m
  <1> QED BY <1>3, <1>4, <1>5 DEF m

LEMMA SlicePromised ==
  ASSUME StreamInv, want # 0, cut.at = "cut", ~ emptied
  PROVE  /\ Len(Front(cut.size)) <= want
         /\ \A k \in 1..Len(Front(cut.size)) :
               (k < Len(Front(cut.size)) \/ cut.how # "term") => ~ Stops(Front(cut.size)[k], mode)
         /\ cut.how = "term" => /\ Len(Front(cut.size)) # 0
                                /\ Stops(Front(cut.size)[Len(Front(cut.size))], mode)
         /\ cut.how = "count" => Len(Front(cut.size)) = want
  <1> DEFINE f == Front(cut.size)
             n == Len(f)
  <1>1. /\ pending \in Seq(StreamUnits) /\ cut.size \in Nat /\ Len(pending) \in Nat /\ want \in Nat
        /\ Fits(cut, want)
    BY WaitingTypes DEF StreamInv
  <1>2. n = Least(cut.size, Len(pending)) /\ \A k \in 1..n : f[k] = pending[k]
    BY <1>1, FrontBehind
  <1>3. n \in Nat /\ n <= Len(pending) /\ n <= cut.size
    BY <1>1, <1>2 DEF Least
  <1> HIDE DEF f, n
  <1>4. CASE cut.how = "term"
    <2>1. HasTerm /\ cut.size = TermIndex /\ TermIndex <= want
      BY <1>1, <1>4 DEF Fits
    <2>2. /\ TermIndex \in 1..Len(pending) /\ Stops(pending[TermIndex], mode)
          /\ \A k \in 1..TermIndex - 1 : ~ Stops(pending[k], mode)
      BY <2>1, NoStopBefore
    <2>3. n = TermIndex
      BY <1>1, <1>2, <2>1, <2>2 DEF Least
    <2>4. n # 0 /\ n \in 1..n /\ n <= want /\ \A k \in 1..n : k < n => k \in 1..TermIndex - 1
      BY ONLY <1>1, <2>1, <2>2, <2>3
    <2>5. f[n] = pending[n] /\ \A k \in 1..n : k < n => ~ Stops(f[k], mode)
      BY <1>2, <2>2, <2>4
    <2>6. Stops(f[n], mode)
      BY <2>2, <2>3, <2>5
    <2> QED BY <1>4, <2>4, <2>5, <2>6 DEF f, n
  <1>5. CASE cut.how # "term"
    <2>1. \A k \in 1..n : ~ Stops(pending[k], mode)
      <3>1. CASE HasTerm
        <4>1. cut.how = "count" /\ cut.size = want /\ TermIndex > want
          BY <1>1, <1>5, <3>1 DEF Fits
        <4>2. /\ TermIndex \in 1..Len(pending)
              /\ \A k \in 1..TermIndex - 1 : ~ Stops(pending[k], mode)
          BY <3>1, NoStopBefore
        <4>3. \A k \in 1..n : k \in 1..TermIndex - 1
          BY ONLY <1>1, <1>3, <4>1, <4>2
        <4> QED BY <4>2, <4>3
      <3>2. CASE ~ HasTerm
        <4>1. \A k \in 1..Len(pending) : ~ Stops(pending[k], mode)
          BY <3>2, NoStopBefore
        <4>2. \A k \in 1..n : k \in 1..Len(pending)
          BY ONLY <1>1, <1>3
        <4> QED BY <4>1, <4>2
      <3> QED BY <3>1, <3>2
    <2>2. cut.size = want
      BY <1>1, <1>5 DEF Fits
    <2>3. cut.how = "count" => Len(pending) >= want
      <3>1. CASE HasTerm /\ cut.how = "count"
        <4>1. TermIndex > want /\ TermIndex \in 1..Len(pending)
          BY <1>1, <3>1, NoStopBefore DEF Fits
        <4> QED BY <1>1, <4>1
      <3> QED BY <1>1, <3>1 DEF Fits
    <2>4. n <= want /\ (cut.how = "count" => n = want)
      BY <1>1, <1>2, <1>3, <2>2, <2>3 DEF Least
    <2> QED BY <1>2, <1>5, <2>1, <2>4 DEF f, n
  <1> QED BY <1>4, <1>5

LEMMA ReadSlicesStep ==
  ASSUME StreamInv, want # 0, UNCHANGED <<options, instrument, asked, emptied, sockResult, others>>,
         ReadCut \/ ReadRest
  PROVE  StreamInv' /\ StreamMove
  <1>1. UNCHANGED <<termEn, sent, want, mode, emptied, sockResult, others>>
    BY DEF options, instrument, asked
  <1>2. /\ want \in Nat /\ ReadingTypes(StreamUnits)
        /\ pending \in Seq(StreamUnits) /\ cut \in Cuts(StreamUnits) /\ cut.size \in Nat
        /\ UNCHANGED <<pending, chunk, arrived>>
    BY WaitingTypes DEF StreamInv, ReadCut, ReadRest
  <1>3. ReadingTypes(StreamUnits)'
    BY <1>2, ReadStepTypes DEF ReadStep
  <1>4. CASE ReadCut
    <2>1. /\ cut.at = "cut" /\ cut'.at = "rest" /\ cut'.size = cut.size /\ cut'.how = cut.how
          /\ cut'.out = Front(cut.size)
      BY <1>2, <1>4 DEF ReadCut, Cuts
    <2>2. /\ Front(cut.size) \o Behind(cut.size) = pending
          /\ Len(Front(cut.size)) = Least(cut.size, Len(pending))
      BY <1>2, FrontBehind
    <2>3. Held' = Held
      <3>1. Held' = Front(cut.size) \o Behind(cut.size)
        BY <1>2, <2>1 DEF Held, Behind
      <3>2. Held = pending
        BY <2>1 DEF Held
      <3> QED BY <2>2, <3>1, <3>2
    <2>4. Promised'
      <3>1. CASE emptied
        <4>1. pending = <<>> /\ Len(pending) = 0
          BY <2>1, <3>1 DEF StreamInv
        <4>2. Len(Front(cut.size)) = 0
          BY <1>2, <2>2, <4>1 DEF Least
        <4> QED BY <1>1, <1>2, <2>1, <3>1, <4>2 DEF Promised
      <3>2. CASE ~ emptied
        BY <1>1, <2>1, <3>2, SlicePromised DEF Promised, Stops
      <3> QED BY <3>1, <3>2
    <2>5. StreamInv'
      BY <1>1, <1>2, <1>3, <2>1, <2>4 DEF StreamInv, Sliced
    <2>6. Waiting' = Waiting
      BY <1>2, <2>3 DEF Waiting
    <2> QED BY <1>1, <2>5, <2>6 DEF StreamStutter, StreamMove
  <1>5. CASE ReadRest
    <2>1. /\ cut.at = "rest" /\ cut'.at = "store" /\ cut'.size = cut.size /\ cut'.how = cut.how
          /\ cut'.out = cut.out /\ cut'.rest = Behind(cut.size)
      BY <1>2, <1>5 DEF ReadRest, Cuts
    <2>2. Held' = Held
      BY <2>1 DEF Held
    <2>3. Promised'
      BY <1>1, <2>1 DEF StreamInv, Sliced, Promised, Stops
    <2>4. StreamInv'
      BY <1>1, <1>2, <1>3, <2>1, <2>3 DEF StreamInv, Sliced
    <2>5. Waiting' = Waiting
      BY <1>2, <2>2 DEF Waiting
    <2> QED BY <1>1, <2>4, <2>5 DEF StreamStutter, StreamMove
  <1> QED BY <1>4, <1>5

(* A read that ends.                                                       *)
LEMMA ReadEndsStep == ASSUME StreamInv, ReadEnds PROVE StreamInv' /\ StreamMove
  <1> DEFINE how == CASE ReadStatus = "term" -> "end"
                      [] ReadStatus = "count" -> "count"
                      [] OTHER -> "failed"
             given == IF emptied THEN "failed" ELSE how
             out == cut.out
             n == Len(out)
  <1>1. /\ want # 0 /\ ReadReturn /\ want' = 0 /\ mode' = NoMode /\ emptied' = FALSE
        /\ sockResult' = [data |-> out, torn |-> emptied, how |-> how]
        /\ UNCHANGED <<termEn, sent, others>>
    BY DEF ReadEnds, options, instrument
  <1>2. /\ want \in Nat /\ ReadingTypes(StreamUnits) /\ cut \in Cuts(StreamUnits)
        /\ out \in Seq(StreamUnits) /\ n \in Nat
        /\ arrived \in Seq(StreamUnits) /\ cut.rest \in Seq(StreamUnits)
        /\ pending \in Seq(StreamUnits) /\ emptied \in BOOLEAN
    BY WaitingTypes DEF StreamInv
  <1>3. /\ arrived' = arrived /\ chunk' = chunk /\ chunk = <<>> /\ cut' = NoCut
        /\ \/ cut.at = "index" /\ Raises /\ pending' = pending
           \/ cut.at = "store" /\ ~ Raises /\ pending' = cut.rest
    BY <1>1 DEF ReadReturn, Raises, Keep, StreamInv
  <1>4. NoCut.at = "loop" /\ NoCut.out = <<>>
    BY DEF NoCut
  <1>5. ReadingTypes(StreamUnits)'
    BY <1>1, <1>2, ReadStepTypes
  <1>6. StreamInv'
    BY <1>1, <1>2, <1>3, <1>4, <1>5 DEF StreamInv, Sliced, ReadingTypes
  <1>7. SockOutcome' = [data |-> out, how |-> given]
    <2> HIDE DEF how
    <2>1. sockResult'.data = out /\ sockResult'.torn = emptied /\ sockResult'.how = how
      BY <1>1
    <2> QED BY <1>2, <2>1, Zenon DEF SockOutcome, given
  <1>8. /\ given \in {"end", "count", "failed"}
        /\ n <= want
        /\ \A k \in 1..n : (k < n \/ given # "end") => ~ Stops(out[k], mode)
        /\ given = "end" => (n # 0 /\ Stops(out[n], mode))
        /\ given = "count" => n = want
    <2>1. CASE Raises
      <3>1. out = <<>> /\ n = 0 /\ ReadStatus = "raised"
        BY <2>1, <1>3 DEF StreamInv, Sliced, Raises, ReadStatus
      <3>2. given = "failed"
        BY <3>1
      <3> QED BY <1>2, <3>1, <3>2
    <2>2. CASE ~ Raises
      <3>1. cut.at = "store" /\ ReadStatus = cut.how
        BY <2>2, <1>3 DEF ReadStatus
      <3>2. Promised
        BY <3>1 DEF StreamInv, Sliced
      <3>3. /\ given \in {"end", "count", "failed"}
            /\ given = "end" => (~ emptied /\ cut.how = "term")
            /\ given = "count" => (~ emptied /\ cut.how = "count")
            /\ given # "end" => (emptied \/ cut.how # "term")
        BY <1>2, <3>1
      <3> HIDE DEF given, how
      <3>4. emptied => n = 0
        BY <3>2 DEF Promised
      <3> QED BY <1>2, <3>2, <3>3, <3>4 DEF Promised
    <2> QED BY <2>1, <2>2
  <1> HIDE DEF given, how
  <1>9. \E x \in Seq(StreamUnits) : Waiting = out \o x /\ Waiting' = x
    <2>1. chunk \o arrived = arrived
      BY <1>2, <1>3, ConcatEmptySeq
    <2>2. Waiting = Held \o arrived
      BY <2>1, WaitingTypes
    <2>3. Waiting' = pending' \o arrived
      <3>1. pending' \in Seq(StreamUnits)
        BY <1>5 DEF ReadingTypes
      <3>2. pending' \o <<>> = pending'
        BY <3>1, ConcatEmptySeq
      <3>3. Held' = pending'
        BY <1>3, <1>4 DEF Held
      <3> QED BY <1>3, <3>2, <3>3 DEF Waiting
    <2>4. CASE Raises
      <3>1. out = <<>> /\ Held = pending /\ pending' = pending
        BY <2>4, <1>3 DEF StreamInv, Sliced, Held, Raises
      <3>2. Waiting \in Seq(StreamUnits) /\ out \o Waiting = Waiting
        BY <3>1, WaitingTypes, ConcatEmptySeq
      <3> QED BY <2>2, <2>3, <3>1, <3>2
    <2>5. CASE ~ Raises
      <3>1. Held = out \o cut.rest /\ pending' = cut.rest
        BY <2>5, <1>3 DEF Held
      <3> DEFINE r == cut.rest
      <3>2. out \in Seq(StreamUnits) /\ r \in Seq(StreamUnits) /\ arrived \in Seq(StreamUnits)
        BY <1>2
      <3>3. Waiting = (out \o r) \o arrived /\ Waiting' = r \o arrived
        BY <2>2, <2>3, <3>1
      <3> HIDE DEF r, out
      <3>4. (out \o r) \o arrived = out \o (r \o arrived)
        BY ONLY <3>2, ConcatAssociative, SMTT(20)
      <3>5. r \o arrived \in Seq(StreamUnits)
        BY <3>2, ConcatProperties
      <3> QED BY <3>3, <3>4, <3>5
    <2> QED BY <2>4, <2>5
  <1>10. PICK x \in Seq(StreamUnits) : Waiting = out \o x /\ Waiting' = x
    BY <1>9
  <1> HIDE DEF out
  <1>11. /\ SubSeq(Waiting, 1, n) = out /\ SubSeq(Waiting, n + 1, Len(Waiting)) = Waiting'
         /\ Len(Waiting) \in Nat /\ n <= Len(Waiting)
         /\ \A k \in 1..n : Waiting[k] = out[k]
    <2>1. out \in Seq(StreamUnits) /\ x \in Seq(StreamUnits)
      BY <1>2
    <2>2. /\ SubSeq(out \o x, 1, Len(out)) = out
          /\ SubSeq(out \o x, Len(out) + 1, Len(out \o x)) = x
      BY ONLY <2>1, CutConcat
    <2>3. /\ Len(out \o x) \in Nat /\ Len(out) <= Len(out \o x)
          /\ \A k \in 1..Len(out) : (out \o x)[k] = out[k]
      BY <2>1
    <2> QED BY <1>10, <2>2, <2>3
  <1> HIDE DEF n
  <1>12. AbstractStream!Give(n, given)
    <2>1. /\ \A k \in 1..n : (k < n \/ given # "end") => ~ Stops(Waiting[k], mode)
          /\ given = "end" => (n # 0 /\ Stops(Waiting[n], mode))
      <3>1. n # 0 => n \in 1..n
        BY <1>2
      <3> QED BY <1>8, <1>11, <3>1
    <2>2. SockOutcome' = [data |-> SubSeq(Waiting, 1, n), how |-> given]
      BY <1>7, <1>11
    <2> QED BY <1>1, <1>8, <1>11, <2>1, <2>2 DEF AbstractStream!Give
  <1>13. AbstractStream!Return
    <2>1. n \in 0..Len(Waiting)
      BY <1>2, <1>11
    <2> QED BY <1>8, <1>12, <2>1 DEF AbstractStream!Return
  <1> QED BY <1>6, <1>13 DEF StreamMove, AbstractStream!MNext

(* A clear or a flush throws a part of the stream away.                    *)
LEMMA Discarding ==
  ASSUME NEW S, NEW x \in Seq(S), NEW y \in Seq(S), NEW z \in Seq(S),
         Waiting = x \o (y \o z), Waiting' = x \o z, UNCHANGED <<want, mode, sockResult>>
  PROVE  AbstractStream!Discard
  <1> DEFINE l == Len(Waiting)
             k == Len(x)
             m == Len(x \o y)
  <1>1. x \o y \in Seq(S) /\ y \o z \in Seq(S) /\ x \o (y \o z) = (x \o y) \o z
    <2>1. x \in Seq(S) /\ y \in Seq(S) /\ z \in Seq(S)
      OBVIOUS
    <2>2. x \o y \in Seq(S) /\ y \o z \in Seq(S)
      BY ONLY <2>1, ConcatProperties
    <2>3. (x \o y) \o z = x \o (y \o z)
      BY ONLY <2>1, ConcatAssociative, SMTT(20)
    <2> QED BY <2>2, <2>3
  <1>2. SubSeq(Waiting, 1, k) = x
    BY <1>1, CutConcat
  <1>3. SubSeq(Waiting, m + 1, l) = z
    <2> DEFINE v == x \o y
    <2>1. Waiting = v \o z /\ v \in Seq(S)
      BY <1>1
    <2> HIDE DEF v
    <2>2. SubSeq(v \o z, Len(v) + 1, Len(v \o z)) = z
      BY <2>1, CutConcat
    <2> QED BY <2>1, <2>2 DEF v
  <1>4. k \in 0..l /\ m \in k..l
    <2> DEFINE v == x \o y
    <2>1. v \in Seq(S) /\ Len(v) = Len(x) + Len(y) /\ Len(x) \in Nat /\ Len(y) \in Nat /\ Len(z) \in Nat
      BY ConcatProperties, LenProperties
    <2>2. Waiting = v \o z
      BY <1>1
    <2> HIDE DEF v
    <2>3. Len(v \o z) = Len(v) + Len(z)
      BY <2>1, ConcatProperties
    <2> QED BY <2>1, <2>2, <2>3 DEF v
  <1> HIDE DEF l, k, m
  <1>5. Waiting' = SubSeq(Waiting, 1, k) \o SubSeq(Waiting, m + 1, l)
    BY <1>2, <1>3
  <1>6. SockOutcome' = SockOutcome
    BY DEF SockOutcome
  <1> QED BY <1>4, <1>5, <1>6 DEF AbstractStream!Discard, l

LEMMA EmptiesBufferStep ==
  ASSUME StreamInv, EmptiesBuffer, UNCHANGED <<options, arrived, instrument>>, others' = others + 1
  PROVE  StreamInv' /\ StreamMove
  <1>1. /\ pending' = <<>> /\ emptied' = (emptied \/ cut.at \in {"index", "cut"})
        /\ UNCHANGED <<termEn, sent, want, mode, sockResult, chunk, cut, arrived>>
    BY DEF EmptiesBuffer, options, instrument, asked
  <1>2. /\ pending \in Seq(StreamUnits) /\ arrived \in Seq(StreamUnits) /\ <<>> \in Seq(StreamUnits)
        /\ chunk \in Seq(StreamUnits) /\ cut \in Cuts(StreamUnits)
        /\ chunk \o arrived \in Seq(StreamUnits) /\ cut.size \in Nat
        /\ cut.out \in Seq(StreamUnits) /\ Behind(cut.size) \in Seq(StreamUnits)
        /\ Held \in Seq(StreamUnits) /\ Waiting = Held \o (chunk \o arrived)
    BY WaitingTypes, EmptySeq, ConcatProperties
  <1>3. others \in Nat /\ others' \in Nat /\ others' # others /\ emptied \in BOOLEAN
    BY DEF StreamInv
  <1>4. emptied' \in BOOLEAN /\ (emptied' <=> emptied \/ cut.at \in {"index", "cut"})
    BY <1>1, <1>3
  <1>5. Sliced => Promised'
    <2>1. ASSUME Sliced
          PROVE  emptied' = emptied /\ Promised
      BY <1>3, <1>4, <2>1 DEF StreamInv, Sliced
    <2> QED BY <1>1, <2>1 DEF Promised, Stops
  <1>6. StreamInv'
    BY <1>1, <1>2, <1>3, <1>4, <1>5 DEF StreamInv, ReadingTypes, Sliced
  <1>7. Waiting' = Held' \o (chunk \o arrived)
    <2> DEFINE h == Held'
    <2>1. /\ pending' \in Seq(StreamUnits) /\ cut'.out \in Seq(StreamUnits)
          /\ cut'.rest \in Seq(StreamUnits)
      BY <1>1, <1>2 DEF Cuts
    <2>2. SubSeq(pending', cut'.size + 1, Len(pending')) \in Seq(StreamUnits)
      <3>1. pending' = <<>> /\ Len(pending') = 0 /\ cut'.size + 1 > 0
        BY <1>1, <1>2
      <3> QED BY <1>1, <1>2, <3>1, SubSeqEmpty
    <2>3. /\ cut'.out \o SubSeq(pending', cut'.size + 1, Len(pending')) \in Seq(StreamUnits)
          /\ cut'.out \o cut'.rest \in Seq(StreamUnits)
      BY <2>1, <2>2, ConcatProperties
    <2>4. h \in Seq(StreamUnits) /\ chunk \in Seq(StreamUnits) /\ arrived \in Seq(StreamUnits)
      BY <1>2, <2>1, <2>3 DEF Held, Behind
    <2>5. Waiting' = (h \o chunk) \o arrived
      BY <1>1 DEF Waiting
    <2> HIDE DEF h
    <2>6. (h \o chunk) \o arrived = h \o (chunk \o arrived)
      BY ONLY <2>4, ConcatAssociative
    <2>7. Waiting' = h \o (chunk \o arrived)
      BY <2>5, <2>6
    <2> QED BY <2>7 DEF h
  <1>8. CASE ~ Sliced
    <2>1. Held = pending /\ Held' = <<>>
      BY <1>1, <1>8 DEF Held, Sliced
    <2> DEFINE z == chunk \o arrived
               y == pending
    <2>2. Waiting = <<>> \o (y \o z) /\ Waiting' = <<>> \o z
      <3>1. y \o z \in Seq(StreamUnits) /\ <<>> \o (y \o z) = y \o z
        BY <1>2, ConcatProperties, ConcatEmptySeq
      <3> QED BY <1>2, <1>7, <2>1, <3>1
    <2>3. <<>> \in Seq(StreamUnits) /\ y \in Seq(StreamUnits) /\ z \in Seq(StreamUnits)
      BY <1>2
    <2> HIDE DEF y, z
    <2>4. AbstractStream!Discard
      BY <1>1, <2>2, <2>3, Discarding
    <2> QED BY <1>3, <1>6, <2>4 DEF StreamMove, AbstractStream!MNext
  <1>9. CASE cut.at = "rest"
    <2> DEFINE x == cut.out
               y == Behind(cut.size)
               z == chunk \o arrived
    <2>1. Held = x \o y
      BY <1>9 DEF Held
    <2>2. Held' = x
      <3>1. SubSeq(pending', cut'.size + 1, Len(pending')) = <<>>
        <4>1. pending' = <<>> /\ Len(pending') = 0 /\ cut'.size + 1 > 0
          BY <1>1, <1>2
        <4> QED BY <1>1, <1>2, <4>1, SubSeqEmpty
      <3>2. Held' = x \o <<>>
        BY <1>1, <1>9, <3>1 DEF Held, Behind
      <3> QED BY <1>2, <3>2, ConcatEmptySeq
    <2>3. x \in Seq(StreamUnits) /\ y \in Seq(StreamUnits) /\ z \in Seq(StreamUnits)
      BY <1>2
    <2>4. Waiting = (x \o y) \o z /\ Waiting' = x \o z
      BY <1>2, <1>7, <2>1, <2>2
    <2> HIDE DEF x, y, z
    <2>5. (x \o y) \o z = x \o (y \o z)
      BY ONLY <2>3, ConcatAssociative
    <2>6. AbstractStream!Discard
      BY <1>1, <2>3, <2>4, <2>5, Discarding
    <2> QED BY <1>3, <1>6, <2>6 DEF StreamMove, AbstractStream!MNext
  <1>10. CASE cut.at = "store"
    <2>1. Held' = Held
      BY <1>1, <1>10 DEF Held
    <2>2. Waiting' = Waiting
      BY <1>2, <1>7, <2>1
    <2> QED BY <1>1, <1>6, <2>2 DEF StreamStutter, StreamMove
  <1> QED BY <1>8, <1>9, <1>10 DEF Sliced

LEMMA ClearRecvStep ==
  ASSUME StreamInv, UNCHANGED <<options, pending, chunk, instrument, reading, others>>,
         arrived' = <<>>, other' # other
  PROVE  StreamInv' /\ StreamMove
  <1>1. UNCHANGED <<termEn, sent, want, mode, emptied, sockResult, chunk, cut, pending, others>>
    BY DEF options, instrument, reading, asked
  <1>2. /\ arrived \in Seq(StreamUnits) /\ <<>> \in Seq(StreamUnits)
        /\ Held \o chunk \in Seq(StreamUnits)
    BY WaitingTypes, EmptySeq, ConcatProperties
  <1>3. StreamInv' /\ Held' = Held
    <2>1. sent' \in Nat /\ others' \in Nat
      BY <1>1 DEF StreamInv
    <2> QED BY <1>1, <1>2, <2>1, StreamInvStays
  <1> DEFINE x == Held \o chunk
             y == arrived
  <1>4. Waiting = x \o y /\ Waiting' = x \o <<>>
    BY <1>1, <1>3 DEF Waiting
  <1>5. x \in Seq(StreamUnits) /\ y \in Seq(StreamUnits)
    BY <1>2
  <1> HIDE DEF x, y
  <1>6. Waiting = x \o (y \o <<>>)
    BY <1>4, <1>5, ConcatEmptySeq
  <1>7. AbstractStream!Discard
    BY <1>1, <1>2, <1>4, <1>5, <1>6, Discarding
  <1> QED BY <1>3, <1>7 DEF StreamMove, AbstractStream!MNext

LEMMA StreamStays ==
  ASSUME StreamInv, UNCHANGED <<options, buffers, sent, asked, cut, emptied, sockResult>>, others' \in Nat
  PROVE  StreamInv' /\ StreamMove
  <1>1. UNCHANGED <<pending, chunk, cut, want, mode, termEn, emptied, arrived, sent, sockResult>>
    BY DEF options, buffers, asked
  <1>2. arrived' \in Seq(StreamUnits) /\ sent' \in Nat
    BY <1>1, WaitingTypes DEF StreamInv
  <1>3. StreamInv' /\ Held' = Held
    BY <1>1, <1>2, StreamInvStays
  <1>4. Waiting' = Waiting
    BY <1>1, <1>3 DEF Waiting
  <1> QED BY <1>1, <1>3, <1>4 DEF StreamStutter, StreamMove

LEMMA StreamStep ==
  ASSUME StreamInv, [SockNext]_sockvars
  PROVE  StreamInv' /\ StreamMove
  <1>1. CASE SendUnit
    BY <1>1, SendUnitStep
  <1>2. CASE \E n \in SockCounts : BeginRead(n)
    BY <1>2, BeginReadStep
  <1>3. CASE SocketReceives
    <2>1. /\ ReadRecv(want)
          /\ UNCHANGED <<options, instrument, asked, emptied, sockResult, others>>
      BY <1>3 DEF SocketReceives
    <2> QED BY <2>1, SocketReceivesStep
  <1>4. CASE ReadDecides
    <2>1. /\ ReadTests(want) /\ want # 0
          /\ UNCHANGED <<options, instrument, asked, emptied, sockResult, others>>
      BY <1>4 DEF ReadDecides
    <2> QED BY <2>1, ReadDecidesStep
  <1>5. CASE ReadGoesOn
    <2>1. /\ ReadExtend \/ ReadIndex(want) \/ ReadCut \/ ReadRest
          /\ want # 0
          /\ UNCHANGED <<options, instrument, asked, emptied, sockResult, others>>
      BY <1>5 DEF ReadGoesOn
    <2> QED BY <2>1, SocketReceivesStep, ReadDecidesStep, ReadSlicesStep
  <1>6. CASE ReadEnds
    BY <1>6, ReadEndsStep
  <1>7. CASE Clear \/ FlushPending
    <2>1. EmptiesBuffer /\ UNCHANGED <<options, arrived, instrument>> /\ others' = others + 1
      BY <1>7 DEF Clear, FlushPending, BeginOther
    <2> QED BY <2>1, EmptiesBufferStep
  <1>8. CASE ClearRecv
    <2>1. /\ UNCHANGED <<options, pending, chunk, instrument, reading, others>>
          /\ arrived' = <<>> /\ other' # other
      BY <1>8 DEF ClearRecv
    <2> QED BY <2>1, ClearRecvStep
  <1>9. CASE \/ CloseConnection \/ Select \/ ClearSelect \/ ClearDone \/ SendBlock \/ AllSent
             \/ (\E n \in Lengths : BeginWrite(n)) \/ UNCHANGED sockvars
    <2>1. UNCHANGED <<options, buffers, sent, asked, cut, emptied, sockResult>>
      BY <1>9 DEF CloseConnection, Select, ClearSelect, ClearDone, SendBlock, AllSent, BeginWrite,
                  sockvars, instrument, reading
    <2>2. others \in Nat /\ (others' = others \/ others' = others + 1)
      BY <1>9 DEF CloseConnection, Select, ClearSelect, ClearDone, SendBlock, AllSent, BeginWrite,
                  BeginOther, sockvars, StreamInv
    <2>3. others' \in Nat
      BY <2>2
    <2> QED BY <2>1, <2>3, StreamStays
  <1> QED BY <1>1, <1>2, <1>3, <1>4, <1>5, <1>6, <1>7, <1>8, <1>9 DEF SockNext

(* While a write is under way its offset is what the socket took.          *)
WriteInv ==
    /\ num \in Nat /\ offset \in Nat /\ took \in Nat
    /\ other = "write" => offset = took
    /\ reported.count \in Nat /\ reported.took \in Nat
    /\ ReportedTaken

LEMMA WriteBegins == SockInit => WriteInv
  BY DEF SockInit, WriteInv, ReportedTaken

LEMMA SendBlockStep == ASSUME WriteInv, SendBlock PROVE WriteInv'
  <1>1. PICK size \in 1..Least(ChunkSize, num) :
            /\ took' = took + size
            /\ \/ size < Least(ChunkSize, num) /\ ShortSend(Least(ChunkSize, num))
               \/ /\ size = Least(ChunkSize, num)
                  /\ offset' = offset + size /\ num' = num - size
                  /\ UNCHANGED <<other, reported>>
    BY DEF SendBlock
  <1>2. /\ num \in Nat /\ offset \in Nat /\ took \in Nat /\ offset = took
        /\ size \in Nat /\ size <= num
    <2>1. num \in Nat /\ offset \in Nat /\ took \in Nat /\ offset = took /\ ChunkSize \in Nat
      BY SocketAssumption DEF WriteInv, SendBlock
    <2>2. Least(ChunkSize, num) \in Nat /\ Least(ChunkSize, num) <= num
      BY <2>1 DEF Least
    <2> QED BY <2>1, <2>2
  <1>3. CASE ShortSend(Least(ChunkSize, num))
    <2>1. /\ other' = "idle" /\ num' = num /\ offset' = offset
          /\ reported' = [count |-> offset, status |-> "error_io", length |-> offset + num,
                          took |-> took + size]
      BY <1>1, <1>3 DEF ShortSend, Returns
    <2> QED BY <1>1, <1>2, <2>1 DEF WriteInv, ReportedTaken
  <1>4. CASE offset' = offset + size /\ num' = num - size /\ UNCHANGED <<other, reported>>
    <2>1. num' \in Nat /\ offset' \in Nat /\ took' \in Nat /\ offset' = took'
      BY ONLY <1>1, <1>2, <1>4
    <2> QED BY <1>4, <2>1 DEF WriteInv, ReportedTaken
  <1> QED BY <1>1, <1>3, <1>4

LEMMA WriteStep == ASSUME WriteInv, [SockNext]_sockvars PROVE WriteInv'
  <1>1. CASE SendBlock
    BY <1>1, SendBlockStep
  <1>2. CASE AllSent
    <2>1. /\ other' = "idle" /\ num' = num /\ offset' = offset /\ took' = took
          /\ num = 0 /\ offset = took /\ took \in Nat
          /\ reported' = [count |-> offset, status |-> "success", length |-> offset + num,
                          took |-> took]
      BY <1>2 DEF AllSent, Returns, WriteInv
    <2> QED BY <2>1 DEF WriteInv, ReportedTaken
  <1>3. CASE \E n \in Lengths : BeginWrite(n)
    <2>1. PICK n \in Lengths : BeginWrite(n)
      BY <1>3
    <2>2. n \in Nat
      BY SocketAssumption
    <2> QED BY <2>1, <2>2 DEF BeginWrite, WriteInv, ReportedTaken
  <1>4. CASE UNCHANGED writing /\ (other' = other \/ other' # "write")
    BY <1>4 DEF writing, WriteInv, ReportedTaken
  <1>5. \/ SendBlock \/ AllSent \/ (\E n \in Lengths : BeginWrite(n))
        \/ UNCHANGED writing /\ (other' = other \/ other' # "write")
    BY DEF SockNext, sockvars, SendUnit, CloseConnection, BeginRead, Select, SocketReceives,
           ReadDecides, ReadGoesOn, ReadEnds,
           Clear, ClearSelect, ClearRecv, ClearDone, FlushPending, BeginOther
  <1> QED BY <1>1, <1>2, <1>3, <1>4, <1>5

(* A raw socket returns the stream in order, up to the termination         *)
(* character or the count, at whichever of the unlocked steps of its read  *)
(* another thread clears or flushes (a read that is torn by it returns     *)
(* nothing); the reading thread throws nothing away; and a write reports   *)
(* no more than the socket took, and success only for the whole message    *)
(* (read, write, clear and flush of TCPIPSocketSession).                   *)
THEOREM Socket_streams == SockSpec => SocketStreams
  <1>1. SockInit => StreamInv /\ AbstractStream!MInit /\ WriteInv
    BY StreamBegins, WriteBegins
  <1>2. StreamStutter => UNCHANGED AbstractStream!mvars
    BY DEF StreamStutter, AbstractStream!mvars, SockOutcome
  <1>3. StreamInv /\ [SockNext]_sockvars =>
           /\ StreamInv'
           /\ [AbstractStream!MNext]_AbstractStream!mvars
           /\ [(want # 0 /\ UNCHANGED <<instrument, other, others>>)
                  => UNCHANGED Waiting \/ AbstractStream!Return]_sockvars
    BY <1>2, StreamStep DEF StreamMove
  <1>4. WriteInv /\ [SockNext]_sockvars => WriteInv'
    BY WriteStep
  <1>5. WriteInv => ReportedTaken
    BY DEF WriteInv
  <1> QED BY <1>1, <1>3, <1>4, <1>5, PTL
          DEF SockSpec, SocketStreams, ReadsInOrder, ReaderKeepsAll, AbstractStream!MSpec
=============================================================================

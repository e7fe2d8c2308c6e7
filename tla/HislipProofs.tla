---------------------------- MODULE HislipProofs ----------------------------
(***************************************************************************)
(* The synchronous channel of a HiSLIP session, for any ids, shapes of the *)
(* responses, counts and bounds: an abort leaves a clean channel, the      *)
(* response to the last message is never thrown away, and until the client *)
(* is upset a call ends without a RuntimeError and reads return what the   *)
(* server has answered.                                                    *)
(***************************************************************************)
EXTENDS HislipClient, SequenceTheorems, TLAPS

Places == {"idle", "header", "payload", "flush", "drain", "async clear", "await", "complete",
           "acknowledge", "clear", "cleared"}
Reception == {"header", "payload", "flush"}
Clearing == {"await", "complete", "acknowledge", "clear", "cleared"}

(* What the synchronous channel carries.                                   *)
DataHeaders == [kind : {"header"}, type : {"Data", "DataEnd"}, id : Nat, len : Nat, tag : Nat]
Controls == {Control("Interrupted"), Control("DeviceClearAcknowledge")}
Units == [kind : {"unit"}, tag : Nat, no : Nat]
Items == DataHeaders \cup Controls \cup Units
Stream == buf \o net

IsUnit(x) == x.kind = "unit"
IsHeader(x) == x.kind = "header"
IsControl(x, type) == IsHeader(x) /\ x.type = type

ChannelTypes ==
    /\ buf \in Seq(Items) /\ net \in Seq(Items)
    /\ queries \in Seq([id : Nat, tag : Nat])
    /\ ~ Pieces => net = <<>>

ClientTypes ==
    /\ pc \in Places /\ tpc \in {"idle", "cancel"}
    /\ messageId \in Nat /\ lastMessageId \in Int
    /\ payloadRemaining \in Nat /\ msgType \in {NoType, "Data", "DataEnd"}
    /\ count \in Nat /\ returned \in Nat /\ writes \in Nat /\ skip \in Nat
    /\ got \in Seq(Items) /\ part \in Seq(Items)

(* Where receive() and receive_flush are in the message they read.         *)
Counting ==
    /\ pc = "payload" => Len(part) < payloadRemaining /\ Len(part) < count - Len(got)
    /\ pc \in {"header", "flush"} =>
          /\ Len(got) < count
          /\ payloadRemaining = 0 /\ part = <<>> /\ msgType # "DataEnd"
    /\ pc \notin Reception => got = <<>> /\ part = <<>>
    /\ pc = "flush" <=> (skip > 0 /\ pc # "await")

(* While every clear has been acknowledged: an acknowledgement is the last *)
(* thing in the channel and is waited for, and so is Interrupted while it  *)
(* is awaited.  A session that raised is idle.                             *)
MarksLast(s, here) ==
    \A i \in 1..Len(s) :
        /\ IsControl(s[i], "DeviceClearAcknowledge") =>
              here \in {"acknowledge", "cleared"} /\ i = Len(s)
        /\ IsControl(s[i], "Interrupted") =>
              here \in Clearing /\ (here = "await" => i = Len(s))

Controlled ==
    /\ outcome = "broken" => pc = "idle"
    /\ pc \in Clearing /\ ~ unacknowledged => queries = <<>>
    /\ outcome # "broken" /\ ~ unacknowledged => MarksLast(Stream, pc)
    /\ CleanAbort

(* Only a clear that was given up leaves something of it on the            *)
(* asynchronous channel, and without a late message nothing is unexpected. *)
Astray ==
    /\ late \in Seq(LateItems)
    /\ unacknowledged \/ \A i \in 1..Len(late) : late[i] \notin {"clear", "owed"}
    /\ outcome = "unexpected" => late # <<>>

Base == ChannelTypes /\ ClientTypes /\ Counting /\ Controlled

LEMMA NoTypeIsNone == NoType # "DataEnd" /\ NoType # "Data"
  BY Zenon DEF NoType

-----------------------------------------------------------------------------
(* What happens to the channel: something is taken from it, put into it,   *)
(* or both parts stay.                                                     *)
Shorter(s, t) ==
    /\ Len(s) > 0 /\ Len(t) = Len(s) - 1
    /\ \A i \in 1..Len(t) : t[i] = s[i + 1]

Longer(s, u, t) ==
    /\ Len(t) = Len(s) + Len(u)
    /\ \A i \in 1..Len(s) : t[i] = s[i]
    /\ \A i \in 1..Len(u) : t[Len(s) + i] = u[i]

LEMMA NothingItems == <<>> \in Seq(Items)
  OBVIOUS

LEMMA TailShorter ==
  ASSUME NEW s \in Seq(Items), s # <<>>
  PROVE  /\ Tail(s) \in Seq(Items) /\ Shorter(s, Tail(s))
         /\ Head(s) = s[1] /\ Head(s) \in Items /\ 1 \in 1..Len(s)
  <1>1. Len(s) \in Nat \ {0} /\ Tail(s) \in Seq(Items) /\ Len(Tail(s)) = Len(s) - 1
        /\ Head(s) = s[1] /\ s[1] \in Items
    OBVIOUS
  <1>2. \A i \in 1..Len(Tail(s)) : Tail(s)[i] = s[i + 1]
    BY <1>1
  <1> QED BY <1>1, <1>2 DEF Shorter

LEMMA ConcatLonger ==
  ASSUME NEW s \in Seq(Items), NEW u \in Seq(Items)
  PROVE  s \o u \in Seq(Items) /\ Longer(s, u, s \o u)
  <1>1. s \o u \in Seq(Items) /\ Len(s \o u) = Len(s) + Len(u) /\ Len(s) \in Nat /\ Len(u) \in Nat
    OBVIOUS
  <1>2. \A i \in 1..Len(s) : (s \o u)[i] = s[i]
    BY <1>1
  <1>3. \A i \in 1..Len(u) : (s \o u)[Len(s) + i] = u[i]
    BY <1>1
  <1> QED BY <1>1, <1>2, <1>3 DEF Longer

LEMMA StreamTypes ==
  ChannelTypes => /\ Stream \in Seq(Items) /\ Len(Stream) \in Nat
                  /\ Longer(buf, net, Stream)
                  /\ \A i \in 1..Len(Stream) : Stream[i] \in Items
                  /\ Stream = <<>> <=> buf = <<>> /\ net = <<>>
  <1> SUFFICES ASSUME ChannelTypes
               PROVE  /\ Stream \in Seq(Items) /\ Len(Stream) \in Nat
                      /\ Longer(buf, net, Stream)
                      /\ \A i \in 1..Len(Stream) : Stream[i] \in Items
                      /\ Stream = <<>> <=> buf = <<>> /\ net = <<>>
    OBVIOUS
  <1>1. buf \in Seq(Items) /\ net \in Seq(Items)
    BY DEF ChannelTypes
  <1>2. Stream \in Seq(Items) /\ Longer(buf, net, Stream)
    BY <1>1, ConcatLonger DEF Stream
  <1>3. Len(Stream) \in Nat /\ \A i \in 1..Len(Stream) : Stream[i] \in Items
    BY <1>2
  <1>4. \A s \in Seq(Items) : s = <<>> <=> Len(s) = 0
    BY EmptySeq
  <1>5. Len(Stream) = Len(buf) + Len(net) /\ Len(buf) \in Nat /\ Len(net) \in Nat
    BY <1>1, <1>2 DEF Longer
  <1>6. Stream = <<>> <=> buf = <<>> /\ net = <<>>
    BY <1>1, <1>2, <1>4, <1>5
  <1> QED BY <1>2, <1>3, <1>6

(* recv takes the first unit of what has arrived.                          *)
LEMMA TakeOne ==
  ASSUME ChannelTypes, buf # <<>>, buf' = Tail(buf), net' = net
  PROVE  /\ buf' \in Seq(Items) /\ net' \in Seq(Items) /\ (~ Pieces => net' = <<>>)
         /\ Shorter(Stream, Stream')
         /\ Head(buf) = Stream[1] /\ Head(buf) \in Items /\ 1 \in 1..Len(Stream)
  <1>1. buf \in Seq(Items) /\ net \in Seq(Items) /\ (~ Pieces => net = <<>>)
    BY DEF ChannelTypes
  <1>2. /\ buf' \in Seq(Items) /\ Shorter(buf, buf') /\ Head(buf) = buf[1] /\ Head(buf) \in Items
        /\ 1 \in 1..Len(buf)
    BY <1>1, TailShorter
  <1>3. Longer(buf, net, Stream)
    BY <1>1, ConcatLonger DEF Stream
  <1>4. Longer(buf', net, Stream')
    BY <1>1, <1>2, ConcatLonger DEF Stream
  <1>5. Len(buf) \in Nat \ {0} /\ Len(net) \in Nat /\ Len(buf') = Len(buf) - 1
    BY <1>1, <1>2 DEF Shorter
  <1>6. Len(Stream) = Len(buf) + Len(net) /\ Len(Stream') = Len(buf') + Len(net)
    BY <1>3, <1>4 DEF Longer
  <1>7. ASSUME NEW i \in 1..Len(Stream')
        PROVE  Stream'[i] = Stream[i + 1]
    <2>1. CASE i <= Len(buf')
      <3>1. i \in 1..Len(buf') /\ i + 1 \in 1..Len(buf)
        BY <1>5, <1>6, <2>1
      <3>2. Stream'[i] = buf'[i] /\ buf'[i] = buf[i + 1] /\ buf[i + 1] = Stream[i + 1]
        BY <1>2, <1>3, <1>4, <3>1 DEF Longer, Shorter
      <3> QED BY <3>2
    <2>2. CASE i > Len(buf')
      <3> DEFINE j == i - Len(buf')
      <3>1. j \in 1..Len(net) /\ i = Len(buf') + j /\ i + 1 = Len(buf) + j
        BY <1>5, <1>6, <2>2
      <3>2. Stream'[Len(buf') + j] = net[j] /\ Stream[Len(buf) + j] = net[j]
        BY <1>3, <1>4, <3>1 DEF Longer
      <3> QED BY <3>1, <3>2
    <2> QED BY <1>5, <1>6, <2>1, <2>2
  <1>8. Stream[1] = buf[1]
    BY <1>2, <1>3 DEF Longer
  <1> QED BY <1>1, <1>2, <1>5, <1>6, <1>7, <1>8 DEF Shorter

(* What is sent comes last.                                                *)
LEMMA SendMore ==
  ASSUME ChannelTypes, NEW u \in Seq(Items), Sent(u)
  PROVE  /\ buf' \in Seq(Items) /\ net' \in Seq(Items) /\ (~ Pieces => net' = <<>>)
         /\ Longer(Stream, u, Stream')
  <1>1. buf \in Seq(Items) /\ net \in Seq(Items) /\ (~ Pieces => net = <<>>)
        /\ Stream \in Seq(Items)
    BY StreamTypes DEF ChannelTypes
  <1>2. Stream' = Stream \o u
    <2>1. CASE Pieces
      <3>1. net' = net \o u /\ buf' = buf
        BY <2>1 DEF Sent
      <3> QED BY <1>1, <3>1, ConcatAssociative DEF Stream
    <2>2. CASE ~ Pieces
      <3>1. net' = <<>> /\ buf' = buf \o u /\ net = <<>>
        BY <1>1, <2>2 DEF Sent
      <3>2. Stream = buf /\ buf \o u \in Seq(Items)
        BY <1>1, <3>1, ConcatEmptySeq DEF Stream
      <3>3. Stream' = buf \o u
        BY <3>1, <3>2, ConcatEmptySeq DEF Stream
      <3> QED BY <3>2, <3>3
    <2> QED BY <2>1, <2>2
  <1>3. buf' \in Seq(Items) /\ net' \in Seq(Items) /\ (~ Pieces => net' = <<>>)
    <2>1. net \o u \in Seq(Items) /\ buf \o u \in Seq(Items)
      BY <1>1
    <2> QED BY <1>1, <2>1 DEF Sent
  <1> QED BY <1>1, <1>2, <1>3, ConcatLonger

LEMMA ArriveKeeps ==
  ASSUME ChannelTypes, Arrive
  PROVE  buf' \in Seq(Items) /\ net' \in Seq(Items) /\ (~ Pieces => net' = <<>>) /\ Stream' = Stream
  <1>1. /\ buf \in Seq(Items) /\ net \in Seq(Items) /\ (~ Pieces => net = <<>>) /\ net # <<>>
        /\ buf' = Append(buf, Head(net)) /\ net' = Tail(net)
    BY DEF ChannelTypes, Arrive
  <1>2. /\ Head(net) \in Items /\ Tail(net) \in Seq(Items) /\ <<Head(net)>> \in Seq(Items)
        /\ net = <<Head(net)>> \o Tail(net)
    BY <1>1, HeadTailProperties, ConcatProperties
  <1>3. Append(buf, Head(net)) = buf \o <<Head(net)>> /\ Append(buf, Head(net)) \in Seq(Items)
    BY <1>1, <1>2, AppendIsConcat
  <1>4. (buf \o <<Head(net)>>) \o Tail(net) = buf \o (<<Head(net)>> \o Tail(net))
    BY <1>1, <1>2, ConcatAssociative
  <1>5. Stream' = Stream
    BY <1>1, <1>2, <1>3, <1>4 DEF Stream
  <1> QED BY <1>1, <1>2, <1>3, <1>5

-----------------------------------------------------------------------------
LEMMA ItemTypes ==
  ASSUME NEW x \in Items
  PROVE  /\ IsUnit(x) <=> ~ IsHeader(x)
         /\ IsUnit(x) => x.tag \in Nat /\ x.no \in Nat
         /\ IsHeader(x) => /\ x.type \in {"Data", "DataEnd", "Interrupted", "DeviceClearAcknowledge"}
                           /\ x.len \in Nat /\ x.id \in Nat /\ x.tag \in Nat
                           /\ x.type \in {"Interrupted", "DeviceClearAcknowledge"} => x.len = 0
  BY DEF Items, DataHeaders, Controls, Units, Control, Header, IsUnit, IsHeader

LEMMA ControlItems ==
  ASSUME NEW type \in {"Interrupted", "DeviceClearAcknowledge"}
  PROVE  /\ <<Control(type)>> \in Seq(Items) /\ Control(type) \in Items
         /\ \A t : IsControl(Control(type), t) <=> t = type
         /\ Len(<<Control(type)>>) = 1 /\ <<Control(type)>>[1] = Control(type)
  BY DEF Items, Controls, Control, Header, IsControl, IsHeader

(* Out of an exchange there are no such marks at all.                      *)
NoMarks(s) ==
    \A i \in 1..Len(s) :
        ~ IsControl(s[i], "DeviceClearAcknowledge") /\ ~ IsControl(s[i], "Interrupted")

LEMMA MarksOutside ==
  ASSUME NEW s, NEW here, here \notin Clearing
  PROVE  MarksLast(s, here) <=> NoMarks(s)
  BY DEF MarksLast, NoMarks, Clearing

LEMMA NoMarksLast ==
  ASSUME NEW s, NEW here, NoMarks(s)
  PROVE  MarksLast(s, here)
  BY DEF MarksLast, NoMarks

LEMMA MarksShorter ==
  ASSUME NEW s \in Seq(Items), NEW t \in Seq(Items), NEW here, Shorter(s, t)
  PROVE  /\ MarksLast(s, here) => MarksLast(t, here)
         /\ NoMarks(s) => NoMarks(t)
  <1>1. /\ Len(s) \in Nat /\ Len(t) \in Nat /\ Len(t) = Len(s) - 1
        /\ \A i \in 1..Len(t) : t[i] = s[i + 1] /\ i + 1 \in 1..Len(s)
    BY DEF Shorter
  <1>2. ASSUME MarksLast(s, here) PROVE MarksLast(t, here)
    <2>1. \A i \in 1..Len(t) : i + 1 = Len(s) <=> i = Len(t)
      BY <1>1
    <2> QED BY <1>1, <1>2, <2>1 DEF MarksLast
  <1>3. ASSUME NoMarks(s) PROVE NoMarks(t)
    BY <1>1, <1>3 DEF NoMarks
  <1> QED BY <1>2, <1>3

LEMMA LongerParts ==
  ASSUME NEW s \in Seq(Items), NEW u \in Seq(Items), NEW t \in Seq(Items), Longer(s, u, t)
  PROVE  /\ Len(s) \in Nat /\ Len(u) \in Nat /\ Len(t) \in Nat /\ Len(t) = Len(s) + Len(u)
         /\ \A i \in 1..Len(s) : i \in 1..Len(t) /\ t[i] = s[i]
         /\ \A i \in 1..Len(u) : Len(s) + i \in 1..Len(t) /\ t[Len(s) + i] = u[i]
         /\ \A i \in 1..Len(t) : i \in 1..Len(s) \/ (i - Len(s) \in 1..Len(u) /\ t[i] = u[i - Len(s)])
  <1>1. Len(s) \in Nat /\ Len(u) \in Nat /\ Len(t) \in Nat /\ Len(t) = Len(s) + Len(u)
    BY DEF Longer
  <1>2. \A i \in 1..Len(s) : i \in 1..Len(t) /\ t[i] = s[i]
    BY <1>1 DEF Longer
  <1>3. \A i \in 1..Len(u) : Len(s) + i \in 1..Len(t) /\ t[Len(s) + i] = u[i]
    BY <1>1 DEF Longer
  <1>4. ASSUME NEW i \in 1..Len(t), i \notin 1..Len(s)
        PROVE  i - Len(s) \in 1..Len(u) /\ t[i] = u[i - Len(s)]
    <2>1. i - Len(s) \in 1..Len(u) /\ Len(s) + (i - Len(s)) = i
      BY <1>1, <1>4
    <2> QED BY <1>3, <2>1
  <1> QED BY <1>1, <1>2, <1>3, <1>4

LEMMA NoMarksLonger ==
  ASSUME NEW s \in Seq(Items), NEW u \in Seq(Items), NEW t \in Seq(Items), Longer(s, u, t),
         NoMarks(s), NoMarks(u)
  PROVE  NoMarks(t)
  BY LongerParts DEF NoMarks

(* What the loop does, in terms of what comes next.                        *)
Looped(n, g, left, type) ==
    /\ payloadRemaining' = left /\ msgType' = type /\ part' = <<>>
    /\ \/ /\ pc' = "idle" /\ outcome' = "ok" /\ got' = <<>>
          /\ data' = g /\ returned' = returned + Len(g)
       \/ /\ pc' \in {"payload", "header"} /\ got' = g
          /\ outcome' = outcome /\ data' = data /\ returned' = returned
          /\ Len(g) < n
          /\ pc' = "payload" <=> left > 0
          /\ pc' = "header" => type # "DataEnd"

LEMMA LoopFacts ==
  ASSUME NEW n \in Nat, NEW g, Len(g) \in Nat, NEW left \in Nat, NEW type, Loop(n, g, left, type)
  PROVE  Looped(n, g, left, type)
  <1>1. CASE Wanted(n, g, left, type) = "done"
    BY <1>1 DEF Loop, Looped
  <1>2. CASE Wanted(n, g, left, type) # "done"
    <2>1. /\ Len(g) < n /\ Wanted(n, g, left, type) \in {"payload", "header"}
          /\ Wanted(n, g, left, type) = "payload" <=> left > 0
          /\ Wanted(n, g, left, type) = "header" => type # "DataEnd"
      BY <1>2 DEF Wanted
    <2> QED BY <1>2, <2>1 DEF Loop, Looped
  <1> QED BY <1>1, <1>2

(* The types and places after a step of the loop.                          *)
LEMMA LoopBase ==
  ASSUME NEW n \in Nat, NEW g \in Seq(Items), NEW left \in Nat,
         NEW type \in {NoType, "Data", "DataEnd"}, Loop(n, g, left, type), ClientTypes,
         count' = n, skip = 0, UNCHANGED <<messageId, lastMessageId, tpc, unacknowledged, writes, skip>>
  PROVE  ClientTypes' /\ Counting'
  <1>1. Len(g) \in Nat /\ <<>> \in Seq(Items) /\ Len(<<>>) = 0
    OBVIOUS
  <1>2. Looped(n, g, left, type)
    BY <1>1, LoopFacts
  <1>3. ClientTypes'
    <2>1. pc' \in Places
      BY <1>2 DEF Looped, Places
    <2>2. msgType' \in {NoType, "Data", "DataEnd"}
      BY <1>2 DEF Looped
    <2>3. got' \in Seq(Items) /\ part' \in Seq(Items)
      BY <1>1, <1>2 DEF Looped
    <2>4. payloadRemaining' \in Nat /\ returned' \in Nat /\ count' \in Nat
      BY <1>1, <1>2 DEF Looped, ClientTypes
    <2>5. /\ tpc' \in {"idle", "cancel"} /\ messageId' \in Nat /\ lastMessageId' \in Int
          /\ writes' \in Nat /\ skip' \in Nat
      BY DEF ClientTypes
    <2> QED BY <2>1, <2>2, <2>3, <2>4, <2>5 DEF ClientTypes
  <1>4. Counting'
    BY <1>1, <1>2 DEF Looped, Counting, Reception, ClientTypes
  <1> QED BY <1>3, <1>4

(* A step between two places where no mark is in the channel.              *)
LEMMA OutsideControlled ==
  ASSUME Controlled, pc \notin Clearing, pc' \notin Clearing, outcome # "broken",
         outcome' = "broken" => pc' = "idle", pc' = "idle" => outcome' # "abort",
         unacknowledged => unacknowledged', NoMarks(Stream) => NoMarks(Stream')
  PROVE  Controlled'
  <1>1. ~ unacknowledged => NoMarks(Stream)
    BY MarksOutside DEF Controlled
  <1>2. ~ unacknowledged => MarksLast(Stream', pc')
    BY <1>1, NoMarksLast
  <1> QED BY <1>2 DEF Controlled, CleanAbort

(* The channel after a unit has been taken from it.                        *)
LEMMA TakenChannel ==
  ASSUME ChannelTypes, buf # <<>>, buf' = Tail(buf), UNCHANGED <<net, queries>>
  PROVE  /\ ChannelTypes' /\ Stream \in Seq(Items) /\ Stream' \in Seq(Items)
         /\ Shorter(Stream, Stream') /\ (NoMarks(Stream) => NoMarks(Stream'))
         /\ Head(buf) = Stream[1] /\ Head(buf) \in Items /\ 1 \in 1..Len(Stream)
  <1>1. /\ buf' \in Seq(Items) /\ net' \in Seq(Items) /\ (~ Pieces => net' = <<>>)
        /\ Shorter(Stream, Stream')
        /\ Head(buf) = Stream[1] /\ Head(buf) \in Items /\ 1 \in 1..Len(Stream)
    BY TakeOne
  <1>2. ChannelTypes'
    BY <1>1 DEF ChannelTypes
  <1>3. Stream \in Seq(Items) /\ Stream' \in Seq(Items)
    BY <1>1, StreamTypes DEF Stream
  <1> QED BY <1>1, <1>2, <1>3, MarksShorter

LEMMA BeginReadBase ==
  ASSUME Base, NEW n \in Counts, BeginRead(n)
  PROVE  Base'
  <1>1. /\ pc = "idle" /\ outcome # "broken" /\ count' = n
        /\ Loop(n, <<>>, payloadRemaining, msgType)
        /\ UNCHANGED <<messageId, lastMessageId, tpc, unacknowledged, writes, skip>>
        /\ UNCHANGED <<buf, net, queries>>
    BY DEF BeginRead, Idle, term, astray, chan
  <1>2. ChannelTypes /\ ClientTypes /\ Counting /\ Controlled /\ n \in Nat
    BY ConstantsAssumption DEF Base
  <1>3. /\ <<>> \in Seq(Items) /\ Len(<<>>) \in Nat /\ payloadRemaining \in Nat
        /\ msgType \in {NoType, "Data", "DataEnd"} /\ skip = 0
    BY <1>1, <1>2 DEF ClientTypes, Counting
  <1>4. ClientTypes' /\ Counting'
    BY <1>1, <1>2, <1>3, LoopBase
  <1>5. Looped(n, <<>>, payloadRemaining, msgType)
    BY <1>1, <1>2, <1>3, LoopFacts
  <1>6. ChannelTypes' /\ Stream' = Stream
    BY <1>1, <1>2 DEF ChannelTypes, Stream
  <1>7. Controlled'
    <2>1. pc' \in {"idle", "payload", "header"} /\ outcome' # "broken" /\ (pc' = "idle" => outcome' = "ok")
      BY <1>1, <1>5 DEF Looped
    <2> QED BY <1>1, <1>2, <1>6, <2>1, OutsideControlled DEF Clearing
  <1> QED BY <1>4, <1>6, <1>7 DEF Base

LEMMA NextDataHeaderBase ==
  ASSUME Base, NextDataHeader
  PROVE  Base'
  <1>1. /\ pc = "header" /\ buf # <<>> /\ buf' = Tail(buf) /\ count' = count
        /\ IsData(Head(buf)) /\ Loop(count, got, Head(buf).len, Head(buf).type)
        /\ UNCHANGED <<messageId, lastMessageId, tpc, unacknowledged, writes, skip>>
        /\ UNCHANGED <<net, queries>>
    BY DEF NextDataHeader, Ready, term, astray
  <1>2. ChannelTypes /\ ClientTypes /\ Counting /\ Controlled
    BY DEF Base
  <1>3. /\ ChannelTypes' /\ Head(buf) \in Items /\ (NoMarks(Stream) => NoMarks(Stream'))
    BY <1>1, <1>2, TakenChannel
  <1>4. Head(buf).len \in Nat /\ Head(buf).type \in {NoType, "Data", "DataEnd"}
    BY <1>1, <1>3, ItemTypes DEF IsData, IsHeader
  <1>5. got \in Seq(Items) /\ Len(got) \in Nat /\ count \in Nat /\ skip = 0
    BY <1>1, <1>2 DEF ClientTypes, Counting
  <1>6. ClientTypes' /\ Counting'
    BY <1>1, <1>2, <1>4, <1>5, LoopBase
  <1>7. Looped(count, got, Head(buf).len, Head(buf).type)
    BY <1>1, <1>4, <1>5, LoopFacts
  <1>8. Controlled'
    <2>1. /\ pc' \in {"idle", "payload", "header"} /\ outcome # "broken"
          /\ outcome' # "broken" /\ (pc' = "idle" => outcome' = "ok")
      BY <1>1, <1>2, <1>7 DEF Looped, Controlled
    <2> QED BY <1>1, <1>2, <1>3, <2>1, OutsideControlled DEF Clearing
  <1> QED BY <1>3, <1>6, <1>8 DEF Base

LEMMA FilledItems ==
  ASSUME ClientTypes, ChannelTypes, buf # <<>>
  PROVE  /\ Filled \in Seq(Items) /\ Len(Filled) = Len(part) + 1
         /\ got \o Filled \in Seq(Items) /\ Len(got \o Filled) = Len(got) + Len(Filled)
         /\ Len(got) \in Nat /\ Len(part) \in Nat
  <1>1. part \in Seq(Items) /\ got \in Seq(Items) /\ Head(buf) \in Items
    BY TailShorter DEF ClientTypes, ChannelTypes
  <1>2. Filled \in Seq(Items) /\ Len(Filled) = Len(part) + 1
    BY <1>1 DEF Filled
  <1>3. got \o Filled \in Seq(Items) /\ Len(got \o Filled) = Len(got) + Len(Filled)
    BY <1>1, <1>2
  <1> QED BY <1>1, <1>2, <1>3


LEMMA PayloadBase ==
  ASSUME Base, Payload
  PROVE  Base'
  <1> DEFINE request == Least(payloadRemaining, count - Len(got))
  <1>1. /\ pc = "payload" /\ buf # <<>> /\ buf' = Tail(buf) /\ count' = count
        /\ UNCHANGED <<messageId, lastMessageId, tpc, unacknowledged, writes, skip>>
        /\ UNCHANGED <<net, queries>>
    BY DEF Payload, Ready, term, astray
  <1>2. ChannelTypes /\ ClientTypes /\ Counting /\ Controlled
    BY DEF Base
  <1>3. /\ ChannelTypes' /\ Head(buf) \in Items /\ (NoMarks(Stream) => NoMarks(Stream'))
    BY <1>1, <1>2, TakenChannel
  <1>4. /\ Filled \in Seq(Items) /\ Len(Filled) = Len(part) + 1
        /\ got \o Filled \in Seq(Items) /\ Len(got \o Filled) = Len(got) + Len(Filled)
        /\ Len(got) \in Nat /\ Len(part) \in Nat
    BY <1>1, <1>2, FilledItems
  <1>5. /\ payloadRemaining \in Nat /\ msgType \in {NoType, "Data", "DataEnd"} /\ count \in Nat
        /\ skip = 0 /\ Len(part) < payloadRemaining /\ Len(part) < count - Len(got)
    BY <1>1, <1>2 DEF ClientTypes, Counting
  <1>6. request \in Nat /\ request <= payloadRemaining /\ payloadRemaining - request \in Nat
        /\ Len(Filled) <= request
    BY <1>4, <1>5 DEF Least
  <1> HIDE DEF request
  <1>7. CASE Len(Filled) = request
    <2> DEFINE all == got \o Filled
    <2>1. Loop(count, all, payloadRemaining - request, msgType)
      BY <1>7 DEF Payload, request
    <2>2. all \in Seq(Items) /\ Len(all) \in Nat
      BY <1>4, <1>7, <1>6
    <2> HIDE DEF all
    <2>3. ClientTypes' /\ Counting'
      BY <1>1, <1>2, <1>5, <1>6, <2>1, <2>2, LoopBase
    <2>4. Looped(count, all, payloadRemaining - request, msgType)
      BY <1>5, <1>6, <2>1, <2>2, LoopFacts
    <2>5. /\ pc' \in {"idle", "payload", "header"} /\ outcome # "broken"
          /\ outcome' # "broken" /\ (pc' = "idle" => outcome' = "ok")
      BY <1>1, <1>2, <2>4 DEF Looped, Controlled
    <2>6. Controlled'
      BY <1>1, <1>2, <1>3, <2>5, OutsideControlled DEF Clearing
    <2> QED BY <1>3, <2>3, <2>6 DEF Base
  <1>8. CASE Len(Filled) # request
    <2>1. /\ part' = Filled
          /\ UNCHANGED <<payloadRemaining, msgType, pc, got, outcome, returned>>
      BY <1>8 DEF Payload, request
    <2>2. Len(Filled) < payloadRemaining /\ Len(Filled) < count - Len(got)
      BY <1>4, <1>5, <1>6, <1>8 DEF Least, request
    <2>3. ClientTypes'
      BY <1>1, <1>2, <1>4, <2>1 DEF ClientTypes
    <2>4. Counting'
      BY <1>1, <1>2, <2>1, <2>2 DEF Counting, Reception
    <2>5. Controlled'
      <3>1. outcome # "broken"
        BY <1>1, <1>2 DEF Controlled
      <3> QED BY <1>1, <1>2, <1>3, <2>1, <3>1, OutsideControlled DEF Clearing
    <2> QED BY <1>3, <2>3, <2>4, <2>5 DEF Base
  <1> QED BY <1>7, <1>8

LEMMA MismatchBase ==
  ASSUME Base, Mismatch
  PROVE  Base'
  <1>1. /\ pc = "header" /\ buf # <<>> /\ buf' = Tail(buf) /\ Head(buf).kind = "header"
        /\ skip' = Head(buf).len /\ pc' = IF Head(buf).len > 0 THEN "flush" ELSE "header"
        /\ UNCHANGED <<messageId, lastMessageId, payloadRemaining, msgType>>
        /\ UNCHANGED <<count, got, part, outcome, returned, tpc, unacknowledged, writes>>
        /\ UNCHANGED <<net, queries>>
    BY DEF Mismatch, Ready, term, astray, ids
  <1>2. ChannelTypes /\ ClientTypes /\ Counting /\ Controlled
    BY DEF Base
  <1>3. /\ ChannelTypes' /\ Head(buf) \in Items /\ (NoMarks(Stream) => NoMarks(Stream'))
    BY <1>1, <1>2, TakenChannel
  <1>4. Head(buf).len \in Nat
    BY <1>1, <1>3, ItemTypes DEF IsHeader
  <1>5. pc' \in {"flush", "header"} /\ (pc' = "flush" <=> skip' > 0) /\ skip' \in Nat
    BY <1>1, <1>4
  <1>6. ClientTypes'
    BY <1>1, <1>2, <1>5 DEF ClientTypes, Places
  <1>7. Counting'
    BY <1>1, <1>2, <1>5 DEF Counting, Reception
  <1>8. Controlled'
    <2>1. outcome # "broken"
      BY <1>1, <1>2 DEF Controlled
    <2> QED BY <1>1, <1>2, <1>3, <1>5, <2>1, OutsideControlled DEF Clearing
  <1> QED BY <1>3, <1>6, <1>7, <1>8 DEF Base

LEMMA FlushBase ==
  ASSUME Base, Flush
  PROVE  Base'
  <1>1. /\ pc = "flush" /\ buf # <<>> /\ buf' = Tail(buf)
        /\ skip' = skip - 1 /\ pc' = IF skip = 1 THEN "header" ELSE "flush"
        /\ UNCHANGED <<messageId, lastMessageId, payloadRemaining, msgType>>
        /\ UNCHANGED <<count, got, part, outcome, returned, tpc, unacknowledged, writes>>
        /\ UNCHANGED <<net, queries>>
    BY DEF Flush, Ready, term, astray, ids
  <1>2. ChannelTypes /\ ClientTypes /\ Counting /\ Controlled
    BY DEF Base
  <1>3. /\ ChannelTypes' /\ (NoMarks(Stream) => NoMarks(Stream'))
    BY <1>1, <1>2, TakenChannel
  <1>4. pc' \in {"flush", "header"} /\ (pc' = "flush" <=> skip' > 0) /\ skip' \in Nat
    BY <1>1, <1>2 DEF ClientTypes, Counting
  <1>6. ClientTypes'
    BY <1>1, <1>2, <1>4 DEF ClientTypes, Places
  <1>7. Counting'
    BY <1>1, <1>2, <1>4 DEF Counting, Reception
  <1>8. Controlled'
    <2>1. outcome # "broken"
      BY <1>1, <1>2 DEF Controlled
    <2> QED BY <1>1, <1>2, <1>3, <1>4, <2>1, OutsideControlled DEF Clearing
  <1> QED BY <1>3, <1>6, <1>7, <1>8 DEF Base

(* A call that raises leaves the session for good.                         *)
LEMMA BrokenBase ==
  ASSUME ClientTypes, Counting, Controlled, Broken,
         skip = 0, UNCHANGED <<ids, tpc, unacknowledged, writes>>
  PROVE  ClientTypes' /\ Counting' /\ Controlled'
  <1>1. /\ outcome' = "broken" /\ pc' = "idle" /\ got' = <<>> /\ part' = <<>>
        /\ UNCHANGED <<count, skip, returned, tpc, unacknowledged, writes>>
        /\ UNCHANGED <<messageId, lastMessageId, payloadRemaining, msgType>>
    BY DEF Broken, Raises, ids
  <1>2. <<>> \in Seq(Items)
    OBVIOUS
  <1>3. ClientTypes'
    BY <1>1, <1>2 DEF ClientTypes, Places
  <1>4. Counting'
    BY <1>1 DEF Counting, Reception
  <1>5. Controlled'
    BY <1>1 DEF Controlled, CleanAbort, Clearing
  <1> QED BY <1>3, <1>4, <1>5

LEMMA BadHeaderBase ==
  ASSUME Base, BadHeader
  PROVE  Base'
  <1>1. /\ pc = "header" /\ buf # <<>> /\ buf' = Tail(buf) /\ Broken
        /\ UNCHANGED <<ids, tpc, unacknowledged, writes>> /\ UNCHANGED <<net, queries>>
    BY DEF BadHeader, Ready, term, astray
  <1>2. ChannelTypes /\ ClientTypes /\ Counting /\ Controlled
    BY DEF Base
  <1>5. skip = 0
    BY <1>1, <1>2 DEF Counting, ClientTypes
  <1>3. ChannelTypes'
    BY <1>1, <1>2, TakenChannel
  <1>4. ClientTypes' /\ Counting' /\ Controlled'
    BY <1>1, <1>2, <1>5, BrokenBase
  <1> QED BY <1>3, <1>4 DEF Base

LEMMA LateAnswerBase ==
  ASSUME Base, LateAnswer, pc \in {"idle", "async clear"}, outcome # "broken"
  PROVE  Base'
  <1>1. /\ outcome' = "unexpected" /\ pc' = "idle" /\ got' = <<>> /\ part' = <<>>
        /\ UNCHANGED <<count, skip, returned, tpc, unacknowledged, writes>>
        /\ UNCHANGED <<messageId, lastMessageId, payloadRemaining, msgType>>
        /\ UNCHANGED <<buf, net, queries>>
    BY DEF LateAnswer, Raises, ids, astray, chan
  <1>2. ChannelTypes /\ ClientTypes /\ Counting /\ Controlled
    BY DEF Base
  <1>3. <<>> \in Seq(Items)
    BY NothingItems
  <1>4. ChannelTypes' /\ Stream' = Stream
    BY <1>1, <1>2 DEF ChannelTypes, Stream
  <1>5. ClientTypes'
    BY <1>1, <1>2, <1>3 DEF ClientTypes, Places
  <1>6. Counting'
    <2>1. pc # "flush" /\ pc # "await"
      OBVIOUS
    <2> QED BY <1>1, <1>2, <2>1 DEF Counting, Reception
  <1>7. Controlled'
    BY <1>1, <1>2, <1>4, OutsideControlled DEF Clearing
  <1> QED BY <1>4, <1>5, <1>6, <1>7 DEF Base

(* A clear that is given up.                                               *)
LEMMA NoAcknowledgementBase ==
  ASSUME Base, NoAcknowledgement, pc \notin Reception, pc # "await"
  PROVE  Base'
  <1>1. /\ outcome' = "timeout" /\ pc' = "idle" /\ unacknowledged' = TRUE
        /\ UNCHANGED <<count, got, part, skip, returned, tpc, writes>>
        /\ UNCHANGED <<messageId, lastMessageId, payloadRemaining, msgType>>
        /\ UNCHANGED <<buf, net, queries>>
    BY DEF NoAcknowledgement, ids, chan
  <1>2. ChannelTypes /\ ClientTypes /\ Counting /\ Controlled
    BY DEF Base
  <1>3. ChannelTypes'
    BY <1>1, <1>2 DEF ChannelTypes
  <1>4. ClientTypes'
    BY <1>1, <1>2 DEF ClientTypes, Places
  <1>5. Counting'
    BY <1>1, <1>2 DEF Counting, Reception
  <1>6. Controlled'
    BY <1>1 DEF Controlled, CleanAbort
  <1> QED BY <1>3, <1>4, <1>5, <1>6 DEF Base

LEMMA ReadTimeoutBase ==
  ASSUME Base, ReadTimeout
  PROVE  Base'
  <1>1. /\ pc \in Reception /\ pc' = "idle" /\ outcome' = "timeout"
        /\ got' = <<>> /\ part' = <<>> /\ skip' = 0
        /\ UNCHANGED <<messageId, lastMessageId, payloadRemaining, msgType>>
        /\ UNCHANGED <<count, returned, tpc, unacknowledged, writes>> /\ UNCHANGED <<buf, net, queries>>
    BY DEF ReadTimeout, Receiving, Reception, term, astray, ids, chan
  <1>2. ChannelTypes /\ ClientTypes /\ Counting /\ Controlled
    BY DEF Base
  <1>3. ChannelTypes' /\ Stream' = Stream
    BY <1>1, <1>2 DEF ChannelTypes, Stream
  <1>4. <<>> \in Seq(Items)
    OBVIOUS
  <1>5. ClientTypes'
    BY <1>1, <1>2, <1>4 DEF ClientTypes, Places
  <1>6. Counting'
    BY <1>1 DEF Counting, Reception
  <1>7. Controlled'
    <2>1. outcome # "broken"
      BY <1>1, <1>2 DEF Controlled, Reception
    <2> QED BY <1>1, <1>2, <1>3, <2>1, OutsideControlled DEF Clearing, Reception
  <1> QED BY <1>3, <1>5, <1>6, <1>7 DEF Base

LEMMA InterruptedBase ==
  ASSUME Base, Interrupted
  PROVE  Base'
  <1>1. /\ pc \in Reception /\ pc' = "drain" /\ outcome' = outcome
        /\ got' = <<>> /\ part' = <<>> /\ skip' = 0
        /\ UNCHANGED <<messageId, lastMessageId, payloadRemaining, msgType>>
        /\ UNCHANGED <<count, returned, tpc, unacknowledged, writes>> /\ UNCHANGED <<net, queries>>
        /\ buf' = buf \/ (buf # <<>> /\ buf' = Tail(buf))
    BY DEF Interrupted, Receiving, Reception, term, astray, ids
  <1>2. ChannelTypes /\ ClientTypes /\ Counting /\ Controlled
    BY DEF Base
  <1>3. ChannelTypes' /\ (NoMarks(Stream) => NoMarks(Stream'))
    <2>1. CASE buf' = buf
      <3>1. ChannelTypes' /\ Stream' = Stream
        BY <1>1, <1>2, <2>1 DEF ChannelTypes, Stream
      <3> QED BY <3>1
    <2>2. CASE buf # <<>> /\ buf' = Tail(buf)
      BY <1>1, <1>2, <2>2, TakenChannel
    <2> QED BY <1>1, <2>1, <2>2
  <1>4. <<>> \in Seq(Items)
    OBVIOUS
  <1>5. ClientTypes'
    BY <1>1, <1>2, <1>4 DEF ClientTypes, Places
  <1>6. Counting'
    BY <1>1 DEF Counting, Reception
  <1>7. Controlled'
    <2>1. outcome # "broken"
      BY <1>1, <1>2 DEF Controlled, Reception
    <2> QED BY <1>1, <1>2, <1>3, <2>1, OutsideControlled DEF Clearing, Reception
  <1> QED BY <1>3, <1>5, <1>6, <1>7 DEF Base

LEMMA DrainBase ==
  ASSUME Base, Drain
  PROVE  Base'
  <1>1. /\ pc = "drain" /\ pc' = "async clear" /\ buf' = <<>>
        /\ UNCHANGED <<messageId, lastMessageId, payloadRemaining, msgType>>
        /\ UNCHANGED <<count, got, part, skip, outcome, returned, tpc, unacknowledged, writes>>
        /\ UNCHANGED <<net, queries>>
    BY DEF Drain, term, astray, ids
  <1>2. ChannelTypes /\ ClientTypes /\ Counting /\ Controlled
    BY DEF Base
  <1>3. buf \in Seq(Items) /\ net \in Seq(Items) /\ <<>> \in Seq(Items) /\ Longer(buf, net, Stream)
    BY <1>2, StreamTypes DEF ChannelTypes
  <1>4. ChannelTypes' /\ Stream' = net
    BY <1>1, <1>2, <1>3, ConcatEmptySeq DEF ChannelTypes, Stream
  <1>5. ClientTypes'
    BY <1>1, <1>2 DEF ClientTypes, Places
  <1>6. Counting'
    BY <1>1, <1>2 DEF Counting, Reception
  <1>7. Controlled'
    <2>1. outcome # "broken"
      BY <1>1, <1>2 DEF Controlled
    <2>2. Stream \in Seq(Items)
      BY <1>2, StreamTypes
    <2>3. NoMarks(Stream) => NoMarks(net)
      BY <1>3, <2>2, LongerParts DEF NoMarks
    <2> QED BY <1>1, <1>2, <1>4, <2>1, <2>3, OutsideControlled DEF Clearing
  <1> QED BY <1>4, <1>5, <1>6, <1>7 DEF Base

LEMMA AfterType ==
  ASSUME NEW id \in Nat, NEW n \in Nat
  PROVE  After(id, n) \in 0..IdSpace-1 /\ After(id, n) \in Nat
  <1>1. IdSpace \in Nat /\ IdSpace > 0
    BY ConstantsAssumption
  <1>2. id + 2 * n \in Nat
    OBVIOUS
  <1> QED BY <1>1, <1>2 DEF After

(* What Write and Trigger have in common.                                  *)
LEMMA SetIdBase ==
  ASSUME Base, Idle, pc' = pc, NEW id \in Nat, SetLastMessageId(id), messageId' \in Nat,
         writes' = writes + 1, outcome' = "none", returned' = 0,
         UNCHANGED <<count, got, part, skip, tpc, unacknowledged>>, UNCHANGED <<buf, net>>,
         queries' \in Seq([id : Nat, tag : Nat])
  PROVE  Base'
  <1>1. /\ pc = "idle" /\ outcome # "broken" /\ lastMessageId' = id
        /\ payloadRemaining' = 0 /\ msgType' = NoType
    BY DEF Idle, SetLastMessageId
  <1>2. ChannelTypes /\ ClientTypes /\ Counting /\ Controlled
    BY DEF Base
  <1>3. ChannelTypes' /\ Stream' = Stream
    BY <1>2 DEF ChannelTypes, Stream
  <1>4. ClientTypes'
    BY <1>1, <1>2 DEF ClientTypes
  <1>5. Counting'
    BY <1>1, <1>2 DEF Counting, Reception
  <1>6. Controlled'
    BY <1>1, <1>2, <1>3, OutsideControlled DEF Clearing
  <1> QED BY <1>3, <1>4, <1>5, <1>6 DEF Base

LEMMA WriteBase ==
  ASSUME Base, NEW n \in 1..2, Write(n)
  PROVE  Base'
  <1>1. /\ Idle /\ pc' = pc /\ writes' = writes + 1 /\ outcome' = "none" /\ returned' = 0
        /\ UNCHANGED <<count, got, part, skip, tpc, unacknowledged>> /\ UNCHANGED <<buf, net>>
        /\ messageId' = After(messageId, n) /\ SetLastMessageId(After(messageId, n - 1))
        /\ queries' = Append(queries, [id |-> After(messageId, n - 1), tag |-> writes + 1])
    BY DEF Write, Send, term, astray
  <1>2. messageId \in Nat /\ writes \in Nat /\ queries \in Seq([id : Nat, tag : Nat])
    BY DEF Base, ClientTypes, ChannelTypes
  <1>3. After(messageId, n) \in Nat /\ After(messageId, n - 1) \in Nat
    <2>1. n \in Nat /\ n - 1 \in Nat
      OBVIOUS
    <2> QED BY <1>2, <2>1, AfterType
  <1>4. queries' \in Seq([id : Nat, tag : Nat])
    BY <1>1, <1>2, <1>3
  <1> QED BY <1>1, <1>3, <1>4, SetIdBase

LEMMA TriggerBase ==
  ASSUME Base, Trigger
  PROVE  Base'
  <1>1. /\ Idle /\ pc' = pc /\ writes' = writes + 1 /\ outcome' = "none" /\ returned' = 0
        /\ UNCHANGED <<count, got, part, skip, tpc, unacknowledged>> /\ UNCHANGED <<buf, net, queries>>
        /\ messageId' = After(messageId, 1) /\ SetLastMessageId(messageId)
    BY DEF Trigger, term, astray, chan
  <1>2. messageId \in Nat /\ queries \in Seq([id : Nat, tag : Nat])
    BY DEF Base, ClientTypes, ChannelTypes
  <1>3. After(messageId, 1) \in Nat
    BY <1>2, AfterType
  <1> QED BY <1>1, <1>2, <1>3, SetIdBase

LEMMA TransactionBase ==
  ASSUME Base, NEW type, Transaction(type),
         UNCHANGED <<messageId, lastMessageId, payloadRemaining, msgType>>
  PROVE  Base'
  <1>1. /\ pc = "idle" /\ outcome # "broken" /\ pc' = pc
        /\ outcome' \in {"async", "stale", "unexpected", "timeout"}
        /\ UNCHANGED <<count, got, part, skip, returned, tpc, unacknowledged, writes>>
        /\ UNCHANGED <<buf, net, queries>>
    BY DEF Transaction, TakesLate, Idle, chan
  <1>2. ChannelTypes /\ ClientTypes /\ Counting /\ Controlled
    BY DEF Base
  <1>3. ChannelTypes' /\ Stream' = Stream
    BY <1>1, <1>2 DEF ChannelTypes, Stream
  <1>4. ClientTypes'
    BY <1>1, <1>2 DEF ClientTypes
  <1>5. Counting'
    BY <1>1, <1>2 DEF Counting, Reception
  <1>6. Controlled'
    BY <1>1, <1>2, <1>3, OutsideControlled DEF Clearing
  <1> QED BY <1>3, <1>4, <1>5, <1>6 DEF Base

-----------------------------------------------------------------------------
(* A message: a header and the units announced by it.                      *)
MessageOf(h, t, from, len) == <<h>> \o [k \in 1..len |-> Unit(t, from + k)]

IsMessage(m, h, t, from, len) ==
    /\ m \in Seq(Items) /\ Len(m) = len + 1 /\ m[1] = h
    /\ \A i \in 2..len + 1 : m[i] = Unit(t, from + i - 1)

LEMMA MessageParts ==
  ASSUME NEW h \in Items, NEW t \in Nat, NEW from \in Nat, NEW len \in Nat
  PROVE  IsMessage(MessageOf(h, t, from, len), h, t, from, len)
  <1> DEFINE units == [k \in 1..len |-> Unit(t, from + k)]
  <1>1. units \in Seq(Items) /\ Len(units) = len /\ \A k \in 1..len : units[k] = Unit(t, from + k)
    <2>1. \A k \in 1..len : Unit(t, from + k) \in Items
      BY DEF Unit, Items, Units
    <2>2. units \in [1..len -> Items]
      BY <2>1
    <2> QED BY <2>2
  <1> HIDE DEF units
  <1>2. <<h>> \in Seq(Items) /\ Len(<<h>>) = 1 /\ <<h>>[1] = h
    OBVIOUS
  <1>3. Longer(<<h>>, units, <<h>> \o units) /\ <<h>> \o units \in Seq(Items)
    BY <1>1, <1>2, ConcatLonger
  <1>4. MessageOf(h, t, from, len) = <<h>> \o units
    BY DEF MessageOf, units
  <1> DEFINE m == MessageOf(h, t, from, len)
  <1> HIDE DEF m
  <1>5. m \in Seq(Items) /\ Longer(<<h>>, units, m)
    BY <1>3, <1>4 DEF m
  <1>6. Len(m) = len + 1 /\ m[1] = h
    BY <1>1, <1>2, <1>5 DEF Longer
  <1>7. ASSUME NEW i \in 2..len + 1
        PROVE  m[i] = Unit(t, from + i - 1)
    <2>1. i - 1 \in 1..len /\ 1 + (i - 1) = i /\ from + (i - 1) = from + i - 1
      OBVIOUS
    <2>2. m[Len(<<h>>) + (i - 1)] = units[i - 1]
      BY <1>1, <1>5, <2>1 DEF Longer
    <2> QED BY <1>1, <1>2, <2>1, <2>2
  <1>8. IsMessage(m, h, t, from, len)
    BY <1>5, <1>6, <1>7 DEF IsMessage
  <1> QED BY <1>8 DEF m

(* A response to q in the shape given, unit by unit.                       *)
Second(shape) == IF Len(shape) = 1 THEN 0 ELSE shape[2] + 1

Answers(r, q, shape) ==
    /\ r \in Seq(Items)
    /\ Len(r) = shape[1] + 1 + Second(shape)
    /\ r[1] = Header(IF Len(shape) = 1 THEN "DataEnd" ELSE "Data", q.id, shape[1], q.tag)
    /\ \A i \in 2..shape[1] + 1 : r[i] = Unit(q.tag, i - 1)
    /\ Len(shape) = 2 =>
          /\ r[shape[1] + 2] = Header("DataEnd", q.id, shape[2], q.tag)
          /\ \A i \in shape[1] + 3..Len(r) : r[i] = Unit(q.tag, i - 2)

LEMMA ShapeParts ==
  ASSUME NEW shape \in Shapes
  PROVE  /\ Len(shape) \in {1, 2} /\ shape[1] \in Nat /\ (Len(shape) = 2 => shape[2] \in Nat)
         /\ Second(shape) \in Nat
  <1>1. shape \in Seq(Nat) /\ Len(shape) \in {1, 2}
    BY ConstantsAssumption
  <1>2. shape[1] \in Nat /\ (Len(shape) = 2 => shape[2] \in Nat)
    BY <1>1
  <1> QED BY <1>1, <1>2 DEF Second

LEMMA ResponseParts ==
  ASSUME NEW q \in [id : Nat, tag : Nat], NEW shape \in Shapes
  PROVE  Answers(Response(q, shape), q, shape)
  <1>1. /\ Len(shape) \in {1, 2} /\ shape[1] \in Nat /\ (Len(shape) = 2 => shape[2] \in Nat)
        /\ q.id \in Nat /\ q.tag \in Nat
    BY ShapeParts
  <1>2. \A type \in {"Data", "DataEnd"}, len \in Nat : Header(type, q.id, len, q.tag) \in Items
    BY <1>1 DEF Header, Items, DataHeaders
  <1>3. CASE Len(shape) = 1
    <2> DEFINE h == Header("DataEnd", q.id, shape[1], q.tag)
               m == MessageOf(h, q.tag, 0, shape[1])
    <2>1. Response(q, shape) = m
      BY <1>3 DEF Response, MessageOf, Before
    <2>2. h \in Items
      BY <1>1, <1>2
    <2> HIDE DEF h
    <2>5. IsMessage(m, h, q.tag, 0, shape[1])
      BY <1>1, <2>2, MessageParts
    <2> HIDE DEF m
    <2>3. /\ m \in Seq(Items) /\ Len(m) = shape[1] + 1 /\ m[1] = h
          /\ \A i \in 2..shape[1] + 1 : m[i] = Unit(q.tag, 0 + i - 1)
      BY <2>5 DEF IsMessage
    <2>4. \A i \in 2..shape[1] + 1 : 0 + i - 1 = i - 1
      BY <1>1
    <2> QED BY <1>1, <1>3, <2>1, <2>3, <2>4 DEF Answers, Second, h
  <1>4. CASE Len(shape) = 2
    <2> DEFINE g == Header("Data", q.id, shape[1], q.tag)
               h == Header("DataEnd", q.id, shape[2], q.tag)
               m == MessageOf(g, q.tag, 0, shape[1])
               n == MessageOf(h, q.tag, shape[1], shape[2])
               r == m \o n
    <2>1. Response(q, shape) = r
      BY <1>4 DEF Response, MessageOf, Before
    <2>2. g \in Items /\ h \in Items
      BY <1>1, <1>2, <1>4
    <2> HIDE DEF g, h
    <2>11. IsMessage(m, g, q.tag, 0, shape[1]) /\ IsMessage(n, h, q.tag, shape[1], shape[2])
      BY <1>1, <1>4, <2>2, MessageParts
    <2> HIDE DEF m, n
    <2>3. /\ m \in Seq(Items) /\ Len(m) = shape[1] + 1 /\ m[1] = g
          /\ \A i \in 2..shape[1] + 1 : m[i] = Unit(q.tag, 0 + i - 1)
      BY <2>11 DEF IsMessage
    <2>4. /\ n \in Seq(Items) /\ Len(n) = shape[2] + 1 /\ n[1] = h
          /\ \A i \in 2..shape[2] + 1 : n[i] = Unit(q.tag, shape[1] + i - 1)
      BY <2>11 DEF IsMessage
    <2>5. r \in Seq(Items) /\ Longer(m, n, r)
      BY <2>3, <2>4, ConcatLonger
    <2> HIDE DEF r
    <2>6. Len(r) = shape[1] + 1 + (shape[2] + 1) /\ r[1] = g
      BY <1>1, <1>4, <2>3, <2>4, <2>5 DEF Longer
    <2>7. ASSUME NEW i \in 2..shape[1] + 1
          PROVE  r[i] = Unit(q.tag, i - 1)
      <3>1. i \in 1..Len(m) /\ 0 + i - 1 = i - 1
        BY <1>1, <2>3
      <3> QED BY <2>3, <2>5, <3>1 DEF Longer
    <2>8. \A j \in 1..Len(n) : r[shape[1] + 1 + j] = n[j]
      BY <2>3, <2>5 DEF Longer
    <2>9. r[shape[1] + 2] = h
      <3>1. 1 \in 1..Len(n) /\ shape[1] + 1 + 1 = shape[1] + 2
        BY <1>1, <1>4, <2>4
      <3> QED BY <2>4, <2>8, <3>1
    <2>10. ASSUME NEW i \in shape[1] + 3..Len(r)
           PROVE  r[i] = Unit(q.tag, i - 2)
      <3> DEFINE j == i - (shape[1] + 1)
      <3>1. /\ j \in 2..shape[2] + 1 /\ j \in 1..Len(n) /\ shape[1] + 1 + j = i
            /\ shape[1] + j - 1 = i - 2
        <4>1. i \in Int /\ i >= shape[1] + 3 /\ i <= shape[1] + 1 + (shape[2] + 1)
          BY <1>1, <1>4, <2>6
        <4>2. shape[1] \in Nat /\ shape[2] \in Nat /\ Len(n) = shape[2] + 1
          BY <1>1, <1>4, <2>4
        <4>3. \A a, b, k \in Int :
                 k >= a + 3 /\ k <= a + 1 + (b + 1) =>
                    /\ k - (a + 1) \in 2..b + 1 /\ k - (a + 1) \in 1..b + 1
                    /\ a + 1 + (k - (a + 1)) = k /\ a + (k - (a + 1)) - 1 = k - 2
          OBVIOUS
        <4>4. /\ j \in 2..shape[2] + 1 /\ j \in 1..shape[2] + 1
              /\ shape[1] + 1 + j = i /\ shape[1] + j - 1 = i - 2
          <5>1. shape[1] \in Int /\ shape[2] \in Int
            BY <4>2
          <5> QED BY ONLY <4>1, <5>1, <4>3, Zenon DEF j
        <4> QED BY ONLY <4>2, <4>4
      <3> HIDE DEF j
      <3>2. r[i] = n[j] /\ n[j] = Unit(q.tag, i - 2)
        BY <2>4, <2>8, <3>1
      <3> QED BY <3>2
    <2> QED BY <1>4, <2>1, <2>5, <2>6, <2>7, <2>9, <2>10 DEF Answers, Second, g, h
  <1> QED BY <1>1, <1>3, <1>4

(* Every unit of a response belongs to it, and none is a mark.             *)
LEMMA ResponseItems ==
  ASSUME NEW q \in [id : Nat, tag : Nat], NEW shape \in Shapes, NEW r, Answers(r, q, shape)
  PROVE  /\ r \in Seq(Items) /\ NoMarks(r)
         /\ \A i \in 1..Len(r) :
               /\ r[i].tag = q.tag
               /\ IsHeader(r[i]) => IsData(r[i]) /\ r[i].id = q.id
  <1>1. /\ Len(shape) \in {1, 2} /\ shape[1] \in Nat /\ (Len(shape) = 2 => shape[2] \in Nat)
        /\ Len(r) = shape[1] + 1 + Second(shape) /\ r \in Seq(Items)
    BY ShapeParts DEF Answers
  <1>2. ASSUME NEW i \in 1..Len(r)
        PROVE  /\ r[i].tag = q.tag
               /\ IsHeader(r[i]) => IsData(r[i]) /\ r[i].id = q.id
               /\ ~ IsControl(r[i], "DeviceClearAcknowledge") /\ ~ IsControl(r[i], "Interrupted")
    <2>1. \/ \E n : r[i] = Unit(q.tag, n)
          \/ \E type, len : type \in {"Data", "DataEnd"} /\ r[i] = Header(type, q.id, len, q.tag)
      <3>1. CASE i = 1
        BY <3>1 DEF Answers
      <3>2. CASE i \in 2..shape[1] + 1
        BY <3>2 DEF Answers
      <3>3. CASE i > shape[1] + 1
        <4>1. Len(shape) = 2
          BY <1>1, <3>3 DEF Second
        <4>2. i = shape[1] + 2 \/ i \in shape[1] + 3..Len(r)
          BY <1>1, <3>3
        <4> QED BY <4>1, <4>2 DEF Answers
      <3> QED BY <1>1, <3>1, <3>2, <3>3
    <2>2. CASE \E n : r[i] = Unit(q.tag, n)
      BY <2>2 DEF Unit, IsHeader, IsControl
    <2>3. CASE \E type, len : type \in {"Data", "DataEnd"} /\ r[i] = Header(type, q.id, len, q.tag)
      BY <2>3 DEF Header, IsHeader, IsControl, IsData
    <2> QED BY <2>1, <2>2, <2>3
  <1> QED BY <1>1, <1>2 DEF NoMarks

-----------------------------------------------------------------------------
LEMMA NoQueries == <<>> \in Seq([id : Nat, tag : Nat])
  OBVIOUS

(* A mark is put at the end of the channel.                                *)
LEMMA MarkSent ==
  ASSUME ChannelTypes, NEW type \in {"Interrupted", "DeviceClearAcknowledge"},
         Sent(<<Control(type)>>)
  PROVE  /\ buf' \in Seq(Items) /\ net' \in Seq(Items) /\ (~ Pieces => net' = <<>>)
         /\ Stream \in Seq(Items) /\ Stream' \in Seq(Items)
         /\ Len(Stream) \in Nat /\ Len(Stream') = Len(Stream) + 1
         /\ \A i \in 1..Len(Stream) : Stream'[i] = Stream[i]
         /\ \A t : IsControl(Stream'[Len(Stream')], t) <=> t = type
  <1>1. /\ <<Control(type)>> \in Seq(Items) /\ Len(<<Control(type)>>) = 1
        /\ <<Control(type)>>[1] = Control(type)
        /\ \A t : IsControl(Control(type), t) <=> t = type
    BY ControlItems
  <1> DEFINE u == <<Control(type)>>
  <1> HIDE DEF u
  <1>2. u \in Seq(Items) /\ Len(u) = 1 /\ u[1] = Control(type) /\ Sent(u)
    BY <1>1 DEF u
  <1>3. /\ buf' \in Seq(Items) /\ net' \in Seq(Items) /\ (~ Pieces => net' = <<>>)
        /\ Longer(Stream, u, Stream')
    BY <1>2, SendMore
  <1>4. Stream \in Seq(Items) /\ Stream' \in Seq(Items) /\ Len(Stream) \in Nat
    BY <1>3, StreamTypes DEF Stream
  <1>5. /\ Len(Stream') = Len(Stream) + 1 /\ Stream'[Len(Stream) + 1] = Control(type)
        /\ \A i \in 1..Len(Stream) : Stream'[i] = Stream[i]
    BY <1>2, <1>3, <1>4 DEF Longer
  <1> QED BY <1>1, <1>3, <1>4, <1>5

(* The acknowledgement of another clear was given up.                      *)
LEMMA StaleClear ==
  ASSUME Astray, late # <<>>, Head(late) \in {"clear", "owed"}
  PROVE  unacknowledged
  <1>1. late \in Seq(LateItems) /\ 1 \in 1..Len(late) /\ Head(late) = late[1]
    BY DEF Astray
  <1> QED BY <1>1 DEF Astray

(* What the server does to the channel when it carries a clear out.        *)
LEMMA ClearedChannel ==
  ASSUME ChannelTypes, NEW there \in {"await", "clear"},
         ServerClears \/ UNCHANGED <<buf, net, queries>>
  PROVE  /\ ChannelTypes' /\ (ServerClears => queries' = <<>>)
         /\ ServerClears /\ NoMarks(Stream) => MarksLast(Stream', there)
  <1>1. CASE UNCHANGED <<buf, net>>
    <2>1. Stream' = Stream
      BY <1>1 DEF Stream
    <2>2. ChannelTypes' /\ (ServerClears => queries' = <<>>)
      BY <1>1, NoQueries DEF ChannelTypes, ServerClears
    <2> QED BY <2>1, <2>2, NoMarksLast
  <1>2. CASE Sent(<<Control("Interrupted")>>) /\ queries' = <<>>
    <2>1. /\ buf' \in Seq(Items) /\ net' \in Seq(Items) /\ (~ Pieces => net' = <<>>)
          /\ Len(Stream) \in Nat /\ Len(Stream') = Len(Stream) + 1
          /\ \A i \in 1..Len(Stream) : Stream'[i] = Stream[i]
          /\ \A t : IsControl(Stream'[Len(Stream')], t) <=> t = "Interrupted"
      BY <1>2, MarkSent
    <2>2. ASSUME NoMarks(Stream), NEW i \in 1..Len(Stream'), i # Len(Stream')
          PROVE  /\ ~ IsControl(Stream'[i], "DeviceClearAcknowledge")
                 /\ ~ IsControl(Stream'[i], "Interrupted")
      <3>1. i = Len(Stream') \/ i \in 1..Len(Stream)
        BY ONLY <2>1, i \in 1..Len(Stream')
      <3> QED BY <2>1, <2>2, <3>1 DEF NoMarks
    <2>3. NoMarks(Stream) => MarksLast(Stream', there)
      BY <2>1, <2>2 DEF MarksLast, Clearing
    <2>4. ChannelTypes'
      BY <1>2, <2>1, NoQueries DEF ChannelTypes
    <2> QED BY <1>2, <2>3, <2>4
  <1> QED BY <1>1, <1>2 DEF ServerClears

LEMMA AsyncDeviceClearBase ==
  ASSUME Base, Astray, NEW there \in {"await", "clear"}, AsyncDeviceClear(there),
         pc \in {"idle", "async clear"}, outcome # "broken"
  PROVE  Base'
  <1>1. /\ pc' = there
        /\ \/ ServerClears
           \/ late # <<>> /\ Head(late) = "clear" /\ UNCHANGED <<buf, net, queries>>
        /\ UNCHANGED <<messageId, lastMessageId, payloadRemaining, msgType>>
        /\ UNCHANGED <<count, got, part, skip, outcome, returned, tpc, unacknowledged, writes>>
    BY DEF AsyncDeviceClear, ids, chan
  <1>2. ChannelTypes /\ ClientTypes /\ Counting /\ Controlled
    BY DEF Base
  <1>3. ~ unacknowledged => ServerClears /\ NoMarks(Stream)
    <2>1. late # <<>> /\ Head(late) = "clear" => unacknowledged
      BY StaleClear
    <2> QED BY <1>1, <1>2, <2>1, MarksOutside DEF Controlled, Clearing
  <1>4. /\ ChannelTypes' /\ (ServerClears => queries' = <<>>)
        /\ ServerClears /\ NoMarks(Stream) => MarksLast(Stream', there)
    BY <1>1, <1>2, ClearedChannel
  <1>6. ClientTypes'
    BY <1>1, <1>2 DEF ClientTypes, Places
  <1>7. Counting'
    <2>1. pc # "flush" /\ pc # "await" /\ pc \notin Reception
      BY DEF Reception
    <2> QED BY <1>1, <1>2, <2>1 DEF Counting, Reception, ClientTypes
  <1>8. Controlled'
    BY <1>1, <1>3, <1>4 DEF Controlled, CleanAbort
  <1> QED BY <1>4, <1>6, <1>7, <1>8 DEF Base

LEMMA AwaitInterruptedBase ==
  ASSUME Base, AwaitInterrupted
  PROVE  Base'
  <1>1. /\ pc = "await" /\ buf # <<>> /\ buf' = Tail(buf)
        /\ UNCHANGED <<net, queries>> /\ UNCHANGED <<ids, tpc, unacknowledged, writes>>
    BY DEF AwaitInterrupted, term, astray
  <1>2. ChannelTypes /\ ClientTypes /\ Counting /\ Controlled
    BY DEF Base
  <1>3. /\ ChannelTypes' /\ Stream \in Seq(Items) /\ Stream' \in Seq(Items)
        /\ Shorter(Stream, Stream') /\ Head(buf) = Stream[1] /\ Head(buf) \in Items
        /\ 1 \in 1..Len(Stream)
    BY <1>1, <1>2, TakenChannel
  <1>4. CASE skip = 0 /\ Head(buf).kind = "unit"
    <2>1. Broken
      BY <1>4 DEF AwaitInterrupted
    <2>2. ClientTypes' /\ Counting' /\ Controlled'
      BY <1>1, <1>2, <1>4, <2>1, BrokenBase
    <2> QED BY <1>3, <2>2 DEF Base
  <1>5. CASE ~ (skip = 0 /\ Head(buf).kind = "unit")
    <2>1. /\ skip' = (IF skip > 0 THEN skip - 1 ELSE Head(buf).len)
          /\ pc' = (IF skip = 0 /\ Head(buf).type = "Interrupted" THEN "complete" ELSE pc)
          /\ UNCHANGED <<count, got, part, outcome, returned>>
      BY <1>5 DEF AwaitInterrupted
    <2>2. /\ skip \in Nat /\ outcome # "broken"
          /\ ~ unacknowledged => queries = <<>> /\ MarksLast(Stream, "await")
      BY <1>1, <1>2 DEF ClientTypes, Controlled, Clearing
    <2>3. skip = 0 => IsHeader(Head(buf)) /\ Head(buf).len \in Nat
                      /\ (Head(buf).type = "Interrupted" => Head(buf).len = 0)
      BY <1>3, <1>5, ItemTypes DEF IsUnit
    <2>4. skip' \in Nat /\ pc' \in {"await", "complete"} /\ (pc' = "complete" => skip' = 0)
      BY <1>1, <2>1, <2>2, <2>3
    <2>5. ClientTypes'
      BY <1>1, <1>2, <2>1, <2>4 DEF ClientTypes, Places, ids
    <2>6. Counting'
      BY <1>1, <1>2, <2>1, <2>4 DEF Counting, Reception
    <2>7. ~ unacknowledged => MarksLast(Stream', pc')
      <3>1. ~ unacknowledged => MarksLast(Stream', "await")
        BY <1>3, <2>2, MarksShorter
      <3> QED BY <2>4, <3>1 DEF MarksLast, Clearing
    <2>8. Controlled'
      BY <1>1, <1>2, <2>1, <2>2, <2>4, <2>7 DEF Controlled, CleanAbort
    <2> QED BY <1>3, <2>5, <2>6, <2>8 DEF Base
  <1> QED BY <1>4, <1>5

LEMMA AwaitTimeoutBase ==
  ASSUME Base, AwaitTimeout
  PROVE  Base'
  <1>1. /\ pc = "await" /\ pc' = "complete" /\ skip' = 0
        /\ UNCHANGED <<buf, net, queries>>
        /\ UNCHANGED <<messageId, lastMessageId, payloadRemaining, msgType>>
        /\ UNCHANGED <<count, got, part, outcome, returned, tpc, unacknowledged, writes>>
    BY DEF AwaitTimeout, ids, term, astray, chan
  <1>2. ChannelTypes /\ ClientTypes /\ Counting /\ Controlled
    BY DEF Base
  <1>3. ChannelTypes' /\ Stream' = Stream
    BY <1>1, <1>2 DEF ChannelTypes, Stream
  <1>4. ClientTypes'
    BY <1>1, <1>2 DEF ClientTypes, Places
  <1>5. Counting'
    BY <1>1, <1>2 DEF Counting, Reception
  <1>6. Controlled'
    <2>1. /\ outcome # "broken"
          /\ ~ unacknowledged => queries = <<>> /\ MarksLast(Stream, "await")
      BY <1>1, <1>2 DEF Controlled, Clearing
    <2>2. ~ unacknowledged => MarksLast(Stream, "complete")
      BY <2>1 DEF MarksLast, Clearing
    <2> QED BY <1>1, <1>3, <2>1, <2>2 DEF Controlled, CleanAbort
  <1> QED BY <1>3, <1>4, <1>5, <1>6 DEF Base

LEMMA DeviceClearCompleteBase ==
  ASSUME Base, NEW here \in {"complete", "clear"}, NEW there \in {"acknowledge", "cleared"},
         DeviceClearComplete(here, there)
  PROVE  Base'
  <1>1. /\ pc = here /\ pc' = there
        /\ Sent(<<Control("DeviceClearAcknowledge")>>) \/ UNCHANGED <<buf, net>>
        /\ UNCHANGED <<messageId, lastMessageId, payloadRemaining, msgType>>
        /\ UNCHANGED <<count, got, part, skip, outcome, returned, tpc, unacknowledged, writes, queries>>
    BY DEF DeviceClearComplete, ids, term, astray
  <1>2. ChannelTypes /\ ClientTypes /\ Counting /\ Controlled
    BY DEF Base
  <1>3. ChannelTypes' /\ (MarksLast(Stream, here) => MarksLast(Stream', there))
    <2>1. CASE UNCHANGED <<buf, net>>
      <3>1. ChannelTypes' /\ Stream' = Stream
        BY <1>1, <1>2, <2>1 DEF ChannelTypes, Stream
      <3> QED BY <3>1 DEF MarksLast, Clearing
    <2>2. CASE Sent(<<Control("DeviceClearAcknowledge")>>)
      <3>1. /\ buf' \in Seq(Items) /\ net' \in Seq(Items) /\ (~ Pieces => net' = <<>>)
            /\ Len(Stream) \in Nat /\ Len(Stream') = Len(Stream) + 1
            /\ \A i \in 1..Len(Stream) : Stream'[i] = Stream[i]
            /\ \A t : IsControl(Stream'[Len(Stream')], t) <=> t = "DeviceClearAcknowledge"
        BY <1>2, <2>2, MarkSent
      <3>2. ASSUME MarksLast(Stream, here), NEW i \in 1..Len(Stream')
            PROVE  IsControl(Stream'[i], "DeviceClearAcknowledge") => i = Len(Stream')
        <4>1. i = Len(Stream') \/ i \in 1..Len(Stream)
          BY <3>1
        <4> QED BY <3>1, <3>2, <4>1 DEF MarksLast
      <3>3. MarksLast(Stream, here) => MarksLast(Stream', there)
        BY <3>2 DEF MarksLast, Clearing
      <3>4. ChannelTypes'
        BY <1>1, <1>2, <3>1 DEF ChannelTypes
      <3> QED BY <3>3, <3>4
    <2> QED BY <1>1, <2>1, <2>2
  <1>5. ClientTypes'
    BY <1>1, <1>2 DEF ClientTypes, Places
  <1>6. Counting'
    BY <1>1, <1>2 DEF Counting, Reception
  <1>7. Controlled'
    <2>1. outcome # "broken" /\ (~ unacknowledged => MarksLast(Stream, here) /\ queries = <<>>)
      BY <1>1, <1>2 DEF Controlled, Clearing
    <2> QED BY <1>1, <1>3, <2>1 DEF Controlled, CleanAbort
  <1> QED BY <1>3, <1>5, <1>6, <1>7 DEF Base

(* An acknowledgement that is read was all there was.                      *)
LEMMA AcknowledgedLast ==
  ASSUME ChannelTypes, MarksLast(Stream, pc), buf # <<>>, buf' = Tail(buf), net' = net,
         Acknowledged
  PROVE  buf' = <<>> /\ net' = <<>> /\ Stream' = <<>>
  <1>1. /\ buf' \in Seq(Items) /\ net' \in Seq(Items) /\ (~ Pieces => net' = <<>>)
        /\ Shorter(Stream, Stream') /\ Head(buf) = Stream[1] /\ 1 \in 1..Len(Stream)
    BY TakeOne
  <1>2. IsControl(Stream[1], "DeviceClearAcknowledge")
    BY <1>1 DEF Acknowledged, IsControl, IsHeader
  <1>3. 1 = Len(Stream)
    BY <1>1, <1>2 DEF MarksLast
  <1>4. Stream' \in Seq(Items) /\ Longer(buf', net', Stream')
    BY <1>1, ConcatLonger DEF Stream
  <1>5. Len(Stream') = 0 /\ Len(Stream') = Len(buf') + Len(net') /\ Len(buf') \in Nat /\ Len(net') \in Nat
    <2>1. Len(Stream') = 0
      <3>1. Len(Stream') = Len(Stream) - 1
        BY <1>1 DEF Shorter
      <3> QED BY ONLY <1>3, <3>1
    <2>2. Len(Stream') = Len(buf') + Len(net')
      BY <1>4 DEF Longer
    <2>3. Len(buf') \in Nat /\ Len(net') \in Nat
      BY <1>1
    <2> QED BY <2>1, <2>2, <2>3
  <1>6. \A s \in Seq(Items) : Len(s) = 0 => s = <<>>
    BY EmptySeq
  <1> QED BY <1>1, <1>4, <1>5, <1>6

LEMMA FirstIdType == FirstId \in Nat /\ NoId \in Int
  BY ConstantsAssumption DEF NoId

LEMMA TerminateEndBase ==
  ASSUME Base, TerminateEnd
  PROVE  Base'
  <1>1. /\ pc = "acknowledge" /\ buf # <<>> /\ buf' = Tail(buf)
        /\ UNCHANGED <<tpc, unacknowledged, writes>> /\ UNCHANGED <<net, queries>>
    BY DEF TerminateEnd, term, astray
  <1>2. ChannelTypes /\ ClientTypes /\ Counting /\ Controlled
    BY DEF Base
  <1>3. ChannelTypes'
    BY <1>1, <1>2, TakenChannel
  <1>4. /\ outcome # "broken" /\ skip = 0
        /\ ~ unacknowledged => queries = <<>> /\ MarksLast(Stream, pc)
    <2>1. skip \in Nat
      BY <1>2 DEF ClientTypes
    <2> QED BY <1>1, <1>2, <2>1 DEF Controlled, Clearing, Counting
  <1>5. CASE Acknowledged
    <2>1. /\ messageId' = FirstId /\ lastMessageId' = NoId
          /\ rmt' = 0 /\ payloadRemaining' = 0 /\ msgType' = NoType
          /\ pc' = "idle" /\ outcome' = "abort"
          /\ UNCHANGED <<count, got, part, skip, returned>>
      BY <1>5 DEF TerminateEnd, ResetAll
    <2>2. ~ unacknowledged => buf' = <<>> /\ net' = <<>> /\ Stream' = <<>>
      BY <1>1, <1>2, <1>4, <1>5, AcknowledgedLast
    <2>3. ClientTypes'
      BY <1>1, <1>2, <2>1, FirstIdType DEF ClientTypes, Places
    <2>4. Counting'
      BY <1>1, <1>2, <1>4, <2>1 DEF Counting, Reception
    <2>5. ~ unacknowledged => MarksLast(Stream', pc')
      BY <2>2 DEF MarksLast
    <2>6. Controlled'
      BY <1>1, <1>4, <2>1, <2>2, <2>5 DEF Controlled, CleanAbort
    <2> QED BY <1>3, <2>3, <2>4, <2>6 DEF Base
  <1>6. CASE ~ Acknowledged
    <2>1. Broken /\ UNCHANGED ids
      BY <1>6 DEF TerminateEnd
    <2>2. ClientTypes' /\ Counting' /\ Controlled'
      BY <1>1, <1>2, <1>4, <2>1, BrokenBase
    <2> QED BY <1>3, <2>2 DEF Base
  <1> QED BY <1>5, <1>6

LEMMA ClearEndBase ==
  ASSUME Base, ClearEnd
  PROVE  Base'
  <1>1. /\ pc = "cleared" /\ UNCHANGED <<tpc, unacknowledged, writes>> /\ UNCHANGED <<net, queries>>
        /\ buf' = buf \/ (buf # <<>> /\ buf' = Tail(buf))
    BY DEF ClearEnd, term, astray
  <1>2. ChannelTypes /\ ClientTypes /\ Counting /\ Controlled
    BY DEF Base
  <1>3. ChannelTypes'
    <2>1. CASE buf' = buf
      BY <1>1, <1>2, <2>1 DEF ChannelTypes
    <2>2. CASE buf # <<>> /\ buf' = Tail(buf)
      BY <1>1, <1>2, <2>2, TakenChannel
    <2> QED BY <1>1, <2>1, <2>2
  <1>4. /\ outcome # "broken" /\ skip = 0
        /\ ~ unacknowledged => queries = <<>> /\ MarksLast(Stream, pc)
    <2>1. skip \in Nat
      BY <1>2 DEF ClientTypes
    <2> QED BY <1>1, <1>2, <2>1 DEF Controlled, Clearing, Counting
  <1>5. CASE ~ cancel /\ Acknowledged
    <2>1. /\ messageId' = FirstId
          /\ UNCHANGED <<lastMessageId, payloadRemaining, msgType>>
          /\ pc' = "idle" /\ outcome' = "cleared" /\ buf # <<>> /\ buf' = Tail(buf)
          /\ UNCHANGED <<count, got, part, skip, returned>>
      BY <1>5 DEF ClearEnd
    <2>2. ~ unacknowledged => Stream' = <<>>
      BY <1>1, <1>2, <1>4, <1>5, <2>1, AcknowledgedLast
    <2>3. ClientTypes'
      BY <1>1, <1>2, <2>1, FirstIdType DEF ClientTypes, Places
    <2>4. Counting'
      BY <1>1, <1>2, <1>4, <2>1 DEF Counting, Reception
    <2>5. ~ unacknowledged => MarksLast(Stream', pc')
      BY <2>2 DEF MarksLast
    <2>6. Controlled'
      BY <1>1, <2>1, <2>5 DEF Controlled, CleanAbort, Clearing
    <2> QED BY <1>3, <2>3, <2>4, <2>6 DEF Base
  <1>6. CASE ~ (~ cancel /\ Acknowledged)
    <2>1. Broken /\ UNCHANGED ids
      BY <1>6 DEF ClearEnd
    <2>2. ClientTypes' /\ Counting' /\ Controlled'
      BY <1>1, <1>2, <1>4, <2>1, BrokenBase
    <2> QED BY <1>3, <2>2 DEF Base
  <1> QED BY <1>5, <1>6

(* Where the client does not move, only the channel can disturb it.        *)
LEMMA StillBase ==
  ASSUME Base, UNCHANGED <<messageId, lastMessageId, rmt, payloadRemaining, msgType>>,
         UNCHANGED <<pc, count, got, part, skip, outcome, returned, writes,
                     unacknowledged>>,
         tpc' \in {"idle", "cancel"}, ChannelTypes',
         pc \in Clearing /\ ~ unacknowledged => queries' = <<>>,
         outcome # "broken" /\ ~ unacknowledged => MarksLast(Stream', pc),
         (outcome = "abort" /\ pc = "idle") => unacknowledged \/ UNCHANGED <<buf, net, queries>>
  PROVE  Base'
  <1>1. ClientTypes'
    BY DEF Base, ClientTypes
  <1>2. Counting'
    BY DEF Base, Counting
  <1>3. Controlled'
    BY DEF Base, Controlled, CleanAbort
  <1> QED BY <1>1, <1>2, <1>3 DEF Base

LEMMA AnswerFacts ==
  ASSUME ChannelTypes, NEW shape \in Shapes, Answer(shape)
  PROVE  /\ queries # <<>> /\ Head(queries) \in [id : Nat, tag : Nat]
         /\ Stream \in Seq(Items) /\ Stream' \in Seq(Items)
         /\ Response(Head(queries), shape) \in Seq(Items)
         /\ Longer(Stream, Response(Head(queries), shape), Stream')
         /\ Answers(Response(Head(queries), shape), Head(queries), shape)
         /\ ChannelTypes'
  <1>1. queries # <<>> /\ queries' = Tail(queries) /\ Sent(Response(Head(queries), shape))
    BY DEF Answer
  <1>2. /\ queries \in Seq([id : Nat, tag : Nat]) /\ Head(queries) \in [id : Nat, tag : Nat]
        /\ queries' \in Seq([id : Nat, tag : Nat])
    BY <1>1, HeadTailProperties DEF ChannelTypes
  <1> DEFINE r == Response(Head(queries), shape)
  <1>3. Answers(r, Head(queries), shape)
    BY <1>2, ResponseParts
  <1>4. r \in Seq(Items)
    BY <1>3 DEF Answers
  <1>5. Sent(r)
    BY <1>1
  <1> HIDE DEF r
  <1>6. /\ buf' \in Seq(Items) /\ net' \in Seq(Items) /\ (~ Pieces => net' = <<>>)
        /\ Longer(Stream, r, Stream')
    BY <1>4, <1>5, SendMore
  <1>7. Stream \in Seq(Items) /\ Stream' \in Seq(Items)
    BY <1>6, StreamTypes DEF Stream
  <1>8. ChannelTypes'
    BY <1>2, <1>6 DEF ChannelTypes
  <1> QED BY <1>1, <1>2, <1>3, <1>4, <1>6, <1>7, <1>8 DEF r

LEMMA AnswerBase ==
  ASSUME Base, NEW shape \in Shapes, Answer(shape)
  PROVE  Base'
  <1> DEFINE q == Head(queries)
             r == Response(q, shape)
  <1>1. /\ UNCHANGED <<messageId, lastMessageId, rmt, payloadRemaining, msgType>>
        /\ UNCHANGED <<pc, count, got, part, skip, outcome, returned, tpc, unacknowledged, writes>>
    BY DEF Answer, ids, io, term, astray
  <1>2. ChannelTypes /\ ClientTypes /\ Controlled
    BY DEF Base
  <1>3. /\ queries # <<>> /\ q \in [id : Nat, tag : Nat]
        /\ Stream \in Seq(Items) /\ Stream' \in Seq(Items)
        /\ r \in Seq(Items) /\ Longer(Stream, r, Stream') /\ Answers(r, q, shape)
        /\ ChannelTypes'
    BY <1>2, AnswerFacts
  <1> HIDE DEF q, r
  <1>4. unacknowledged \/ (pc \notin Clearing /\ ~ (outcome = "abort" /\ pc = "idle"))
    BY <1>2, <1>3 DEF Controlled, CleanAbort
  <1>5. outcome # "broken" /\ ~ unacknowledged => MarksLast(Stream', pc)
    <2>1. outcome # "broken" /\ ~ unacknowledged => NoMarks(Stream)
      BY <1>2, <1>4, MarksOutside DEF Controlled
    <2>2. NoMarks(r)
      BY <1>3, ResponseItems
    <2>3. NoMarks(Stream) => NoMarks(Stream')
      BY <1>3, <2>2, NoMarksLonger
    <2> QED BY <2>1, <2>3, NoMarksLast
  <1>6. tpc' \in {"idle", "cancel"}
    BY <1>1, <1>2 DEF ClientTypes
  <1> QED BY <1>1, <1>3, <1>4, <1>5, <1>6, StillBase

LEMMA ArriveBase ==
  ASSUME Base, Arrive
  PROVE  Base'
  <1>1. /\ UNCHANGED <<messageId, lastMessageId, rmt, payloadRemaining, msgType>>
        /\ UNCHANGED <<pc, count, got, part, skip, outcome, returned, tpc, unacknowledged, writes, queries>>
        /\ net # <<>>
    BY DEF Arrive, ids, io, term, astray
  <1>2. ChannelTypes /\ ClientTypes /\ Controlled
    BY DEF Base
  <1>3. /\ buf' \in Seq(Items) /\ net' \in Seq(Items) /\ (~ Pieces => net' = <<>>)
        /\ Stream' = Stream
    BY <1>2, ArriveKeeps
  <1>4. ChannelTypes'
    BY <1>1, <1>2, <1>3 DEF ChannelTypes
  <1>5. /\ unacknowledged \/ ~ (outcome = "abort" /\ pc = "idle")
        /\ pc \in Clearing /\ ~ unacknowledged => queries' = <<>>
        /\ outcome # "broken" /\ ~ unacknowledged => MarksLast(Stream', pc)
    BY <1>1, <1>2, <1>3 DEF Controlled, CleanAbort
  <1>6. tpc' \in {"idle", "cancel"}
    BY <1>1, <1>2 DEF ClientTypes
  <1> QED BY <1>1, <1>4, <1>5, <1>6, StillBase

LEMMA QuietBase ==
  ASSUME Base, TerminateTest \/ TerminateCancel \/ Unsolicited \/ UNCHANGED vars
  PROVE  Base'
  <1>1. /\ UNCHANGED <<messageId, lastMessageId, rmt, payloadRemaining, msgType>>
        /\ UNCHANGED <<pc, count, got, part, skip, outcome, returned, writes, unacknowledged>>
        /\ UNCHANGED <<buf, net, queries>>
        /\ tpc' \in {"idle", "cancel"}
    <2>1. CASE TerminateTest
      BY <2>1 DEF TerminateTest, astray, ids, io, chan
    <2>2. CASE TerminateCancel
      BY <2>2 DEF TerminateCancel, astray, ids, io, chan
    <2>4. CASE Unsolicited
      BY <2>4 DEF Unsolicited, ids, io, chan, Base, ClientTypes
    <2>3. CASE UNCHANGED vars
      BY <2>3 DEF vars, ids, io, chan, term, astray, Base, ClientTypes
    <2> QED BY <2>1, <2>2, <2>3, <2>4
  <1>2. ChannelTypes /\ Controlled
    BY DEF Base
  <1>3. ChannelTypes' /\ Stream' = Stream
    BY <1>1, <1>2 DEF ChannelTypes, Stream
  <1>4. /\ pc \in Clearing /\ ~ unacknowledged => queries' = <<>>
        /\ outcome # "broken" /\ ~ unacknowledged => MarksLast(Stream', pc)
    BY <1>1, <1>2, <1>3 DEF Controlled
  <1> QED BY <1>1, <1>3, <1>4, StillBase

(* The server comes to a clear that was given up.                          *)
LEMMA CarryOutFacts ==
  ASSUME Astray, CarryOut
  PROVE  unacknowledged
  <1>1. PICK i \in 1..Len(late) : late[i] = "owed"
    BY DEF CarryOut
  <1> QED BY <1>1 DEF Astray

LEMMA CarryOutBase ==
  ASSUME Base, Astray, CarryOut
  PROVE  Base'
  <1>1. /\ UNCHANGED <<messageId, lastMessageId, rmt, payloadRemaining, msgType>>
        /\ UNCHANGED <<pc, count, got, part, skip, outcome, returned, tpc, unacknowledged, writes>>
        /\ ServerClears
    BY DEF CarryOut, ids, io
  <1>2. ChannelTypes /\ ClientTypes
    BY DEF Base
  <1>3. ChannelTypes'
    BY <1>1, <1>2, ClearedChannel
  <1>4. unacknowledged
    BY CarryOutFacts
  <1>5. tpc' \in {"idle", "cancel"}
    BY <1>1, <1>2 DEF ClientTypes
  <1> QED BY <1>1, <1>3, <1>4, <1>5, StillBase

LEMMA BaseInit == Init => Base
  <1> SUFFICES ASSUME Init PROVE Base
    OBVIOUS
  <1>1. <<>> \in Seq(Items) /\ <<>> \in Seq([id : Nat, tag : Nat])
    OBVIOUS
  <1>2. ChannelTypes
    BY <1>1 DEF Init, ChannelTypes
  <1>3. ClientTypes
    BY <1>1, FirstIdType DEF Init, NewInstrument, ClientTypes, Places
  <1>4. Counting
    BY DEF Init, NewInstrument, Counting, Reception
  <1>5. Controlled
    <2>1. Stream \in Seq(Items) /\ (Stream = <<>> <=> buf = <<>> /\ net = <<>>)
      BY <1>2, StreamTypes
    <2>2. Stream = <<>>
      BY <2>1 DEF Init
    <2>3. MarksLast(Stream, pc)
      BY <2>2 DEF MarksLast
    <2> QED BY <2>3 DEF Init, Controlled, CleanAbort, Clearing
  <1> QED BY <1>2, <1>3, <1>4, <1>5 DEF Base

LEMMA AstrayInit == Init => Astray
  <1> SUFFICES ASSUME Init PROVE Astray
    OBVIOUS
  <1>1. late = <<>> /\ <<>> \in Seq(LateItems) /\ Len(<<>>) = 0 /\ outcome = "none"
    BY DEF Init, NewInstrument
  <1> QED BY <1>1 DEF Astray

(* A message more is late, or one less.                                    *)
LEMMA OneMoreLate ==
  ASSUME Astray, NEW item \in LateItems, late' = Append(late, item),
         unacknowledged => unacknowledged', item \in {"clear", "owed"} => unacknowledged'
  PROVE  Astray'
  <1>1. /\ late \in Seq(LateItems) /\ Len(late) \in Nat /\ late' \in Seq(LateItems)
        /\ Len(late') = Len(late) + 1 /\ late'[Len(late) + 1] = item /\ late' # <<>>
        /\ \A i \in 1..Len(late) : late'[i] = late[i]
    BY DEF Astray
  <1>2. ASSUME NEW i \in 1..Len(late'), ~ unacknowledged'
        PROVE  late'[i] \notin {"clear", "owed"}
    <2>1. i = Len(late) + 1 \/ i \in 1..Len(late)
      BY <1>1
    <2> QED BY <1>1, <1>2, <2>1 DEF Astray
  <1> QED BY <1>1, <1>2 DEF Astray

LEMMA NextLate ==
  ASSUME Astray, late # <<>>, NEW item \in LateItems, late' = Append(Tail(late), item),
         unacknowledged => unacknowledged', item \in {"clear", "owed"} => unacknowledged'
  PROVE  Astray'
  <1>1. late \in Seq(LateItems) /\ Len(late) \in Nat \ {0}
    BY DEF Astray
  <1>2. /\ Tail(late) \in Seq(LateItems) /\ Len(Tail(late)) = Len(late) - 1
        /\ \A i \in 1..Len(Tail(late)) : Tail(late)[i] = late[i + 1] /\ i + 1 \in 1..Len(late)
    BY <1>1
  <1>3. /\ late' \in Seq(LateItems) /\ Len(late') = Len(late) /\ late'[Len(late)] = item
        /\ late' # <<>> /\ \A i \in 1..Len(late) - 1 : late'[i] = Tail(late)[i]
    BY <1>1, <1>2
  <1>4. ASSUME NEW i \in 1..Len(late'), ~ unacknowledged'
        PROVE  late'[i] \notin {"clear", "owed"}
    <2>1. i = Len(late) \/ i \in 1..Len(late) - 1
      BY ONLY <1>1, <1>3, i \in 1..Len(late')
    <2> QED BY <1>2, <1>3, <1>4, <2>1 DEF Astray
  <1> QED BY <1>3, <1>4 DEF Astray

LEMMA SameLate ==
  ASSUME Astray, late' = late, unacknowledged => unacknowledged',
         outcome' = "unexpected" => outcome = "unexpected" \/ late # <<>>
  PROVE  Astray'
  BY DEF Astray

LEMMA CarryOutAstray ==
  ASSUME Astray, CarryOut
  PROVE  Astray'
  <1>1. PICK i \in 1..Len(late) : late' = [late EXCEPT ![i] = "clear"]
    BY DEF CarryOut
  <1>2. unacknowledged' = unacknowledged /\ unacknowledged
    BY CarryOutFacts DEF CarryOut
  <1>3. late \in Seq(LateItems) /\ late # <<>>
    BY <1>1 DEF Astray
  <1>4. late' \in Seq(LateItems) /\ Len(late') = Len(late) /\ late' # <<>>
    BY <1>1, <1>3 DEF LateItems
  <1> QED BY <1>2, <1>4 DEF Astray

LEMMA TransactionAstray ==
  ASSUME Astray, NEW type \in {"status", "other"}, Transaction(type)
  PROVE  Astray'
  <1>1. unacknowledged' = unacknowledged /\ type \in LateItems /\ type \notin {"clear", "owed"}
    BY DEF Transaction, LateItems
  <1>2. CASE late' = late /\ outcome' # "unexpected"
    BY <1>1, <1>2, SameLate
  <1>3. CASE TakesLate(type)
    <2>1. late # <<>> /\ late' = Append(Tail(late), type)
      BY <1>3 DEF TakesLate
    <2> QED BY <1>1, <2>1, NextLate
  <1>4. CASE late' = Append(late, type)
    BY <1>1, <1>4, OneMoreLate
  <1> QED BY <1>2, <1>3, <1>4 DEF Transaction, Unanswered

(* The steps of the asynchronous part of a clear.                          *)
LEMMA ClearAstray ==
  ASSUME Astray, NEW there,
         \/ AsyncDeviceClear(there) \/ LateAnswer
         \/ NoAcknowledgement /\ (Unanswered("owed") \/ late' = late)
  PROVE  Astray'
  <1>1. "owed" \in LateItems
    BY DEF LateItems
  <1>2. CASE AsyncDeviceClear(there)
    <2>1. unacknowledged' = unacknowledged /\ outcome' = outcome
      BY <1>2 DEF AsyncDeviceClear
    <2>2. CASE late' = late
      BY <2>1, <2>2, SameLate
    <2>3. CASE late # <<>> /\ Head(late) = "clear" /\ late' = Append(Tail(late), "owed")
      BY <1>1, <2>1, <2>3, StaleClear, NextLate
    <2> QED BY <1>2, <2>2, <2>3 DEF AsyncDeviceClear
  <1>3. CASE LateAnswer
    BY <1>3, SameLate DEF LateAnswer, astray
  <1>4. CASE NoAcknowledgement /\ (Unanswered("owed") \/ late' = late)
    <2>1. unacknowledged' = TRUE /\ outcome' = "timeout"
      BY <1>4 DEF NoAcknowledgement
    <2>2. CASE late' = late
      BY <2>1, <2>2, SameLate
    <2>3. CASE late' = Append(late, "owed")
      BY <1>1, <2>1, <2>3, OneMoreLate
    <2> QED BY <1>4, <2>2, <2>3 DEF Unanswered
  <1> QED BY <1>2, <1>3, <1>4

LEMMA AstrayNext == ASSUME Astray, [Next]_vars PROVE Astray'
  <1>1. CASE \/ (\E n \in 1..2 : Write(n)) \/ Trigger \/ (\E n \in Counts : BeginRead(n))
             \/ (\E shape \in Shapes : Answer(shape)) \/ Arrive \/ ReceiveStep
             \/ TerminateTest \/ TerminateCancel \/ UNCHANGED vars
    <2>1. UNCHANGED <<late, unacknowledged>> /\ (outcome' = "unexpected" => outcome = "unexpected")
      <3>1. CASE \/ (\E n \in 1..2 : Write(n)) \/ Trigger \/ TerminateTest \/ TerminateCancel
                 \/ UNCHANGED vars \/ Arrive \/ (\E shape \in Shapes : Answer(shape))
        BY <3>1 DEF Write, Trigger, TerminateTest, TerminateCancel, vars, Arrive, Answer, term,
           astray, io
      <3>2. CASE (\E n \in Counts : BeginRead(n)) \/ ReceiveStep
        BY <3>2 DEF BeginRead, Loop, ReceiveStep, NextDataHeader, Mismatch, Flush, BadHeader,
           Payload, ReadTimeout, Interrupted, Broken, Raises, term, astray
      <3> QED BY <1>1, <3>1, <3>2
    <2> QED BY <2>1, SameLate
  <1>2. CASE StatusQuery \/ OtherTransaction
    BY <1>2, TransactionAstray DEF StatusQuery, OtherTransaction
  <1>3. CASE Clear \/ TerminateClear
    BY <1>3, ClearAstray DEF Clear, TerminateClear
  <1>4. CASE TerminateGivesUp \/ ClearGivesUp
    BY <1>4, ClearAstray DEF TerminateGivesUp, ClearGivesUp
  <1>5. CASE \/ Drain \/ AwaitInterrupted \/ AwaitTimeout \/ TerminateComplete \/ TerminateEnd
             \/ ClearComplete \/ ClearEnd
    <2>1. UNCHANGED <<late, unacknowledged>> /\ (outcome' = "unexpected" => outcome = "unexpected")
      BY <1>5 DEF Drain, AwaitInterrupted, AwaitTimeout, TerminateComplete, DeviceClearComplete,
         TerminateEnd, ClearComplete, ClearEnd, Broken, Raises, term, astray
    <2> QED BY <2>1, SameLate
  <1>6. CASE CarryOut
    BY <1>6, CarryOutAstray
  <1>7. CASE Unsolicited
    <2>1. late' = Append(late, "unasked") /\ unacknowledged' = unacknowledged
      BY <1>7 DEF Unsolicited
    <2>2. "unasked" \in LateItems
      BY DEF LateItems
    <2> QED BY <2>1, <2>2, OneMoreLate
  <1> QED BY <1>1, <1>2, <1>3, <1>4, <1>5, <1>6, <1>7 DEF Next, TerminateStep, ClearStep

LEMMA BaseNext == Base /\ Astray /\ [Next]_vars => Base'
  <1> SUFFICES ASSUME Base, Astray, [Next]_vars PROVE Base'
    OBVIOUS
  <1>1. ASSUME NEW n \in 1..2, Write(n) PROVE Base'
    BY <1>1, WriteBase
  <1>2. CASE Trigger
    BY <1>2, TriggerBase
  <1>3. CASE Clear
    <2>1. /\ pc = "idle" /\ outcome # "broken"
          /\ AsyncDeviceClear("clear") \/ LateAnswer \/ NoAcknowledgement
      BY <1>3 DEF Clear, Idle
    <2> QED BY <2>1, AsyncDeviceClearBase, LateAnswerBase, NoAcknowledgementBase DEF Reception
  <1>4. CASE StatusQuery
    BY <1>4, TransactionBase DEF StatusQuery
  <1>5. CASE OtherTransaction
    BY <1>5, TransactionBase DEF OtherTransaction, ids
  <1>6. ASSUME NEW n \in Counts, BeginRead(n) PROVE Base'
    BY <1>6, BeginReadBase
  <1>7. CASE ReceiveStep
    BY <1>7, NextDataHeaderBase, MismatchBase, FlushBase, BadHeaderBase, PayloadBase,
       ReadTimeoutBase, InterruptedBase DEF ReceiveStep
  <1>8. CASE TerminateStep
    <2>1. CASE TerminateClear
      <3>1. /\ pc = "async clear"
            /\ AsyncDeviceClear("await") \/ LateAnswer \/ NoAcknowledgement
        BY <2>1 DEF TerminateClear
      <3>2. outcome # "broken"
        BY <3>1 DEF Base, Controlled
      <3> QED BY <3>1, <3>2, AsyncDeviceClearBase, LateAnswerBase, NoAcknowledgementBase
              DEF Reception
    <2>2. CASE TerminateComplete
      BY <2>2, DeviceClearCompleteBase DEF TerminateComplete
    <2>3. CASE TerminateGivesUp
      BY <2>3, NoAcknowledgementBase DEF TerminateGivesUp, Reception
    <2> QED BY <1>8, <2>1, <2>2, <2>3, DrainBase, AwaitInterruptedBase, AwaitTimeoutBase,
               TerminateEndBase DEF TerminateStep
  <1>9. CASE ClearStep
    <2>1. CASE ClearComplete
      BY <2>1, DeviceClearCompleteBase DEF ClearComplete
    <2>2. CASE ClearGivesUp
      BY <2>2, NoAcknowledgementBase DEF ClearGivesUp, Reception
    <2> QED BY <1>9, <2>1, <2>2, ClearEndBase DEF ClearStep
  <1>10. CASE TerminateTest \/ TerminateCancel \/ Unsolicited \/ UNCHANGED vars
    BY <1>10, QuietBase
  <1>13. CASE CarryOut
    BY <1>13, CarryOutBase
  <1>11. ASSUME NEW shape \in Shapes, Answer(shape) PROVE Base'
    BY <1>11, AnswerBase
  <1>12. CASE Arrive
    BY <1>12, ArriveBase
  <1> QED BY <1>1, <1>2, <1>3, <1>4, <1>5, <1>6, <1>7, <1>8, <1>9, <1>10, <1>11, <1>12, <1>13
          DEF Next

(* What is in the channel and where the client stands in it, for any       *)
(* order of calls, answers and terminations, and what is late on the       *)
(* asynchronous channel.                                                   *)
THEOREM Channel_types == Spec => [](Base /\ Astray)
  <1>1. Init => Base /\ Astray
    BY BaseInit, AstrayInit
  <1>2. Base /\ Astray /\ [Next]_vars => (Base /\ Astray)'
    BY BaseNext, AstrayNext
  <1> QED BY <1>1, <1>2, PTL DEF Spec

(* An abort is clean: after error_abort the counters have their initial    *)
(* values, and nothing of the aborted exchange is left in the channel or   *)
(* with the server, though the client had lost track of the channel        *)
(* before.  Only a device that once left a clear unacknowledged may leave  *)
(* more: its late acknowledgement is taken for that of the abort.          *)
THEOREM Aborts_clean == Spec => []CleanAbort
  <1>1. Base => CleanAbort
    BY DEF Base, Controlled
  <1> QED BY <1>1, Channel_types, PTL

-----------------------------------------------------------------------------
(* Message ids.  What a query and a header of its response say fits what   *)
(* the client remembers: the ids of older messages are smaller, counted    *)
(* from the first one.                                                     *)
Offset(id) == IF id >= FirstId THEN id - FirstId ELSE id - FirstId + IdSpace

Known(x, next, last, w) ==
    /\ x.tag \in 1..w
    /\ x.id \in 0..IdSpace-1 /\ x.id % 2 = 0
    /\ Offset(x.id) < Offset(next)
    /\ last \in 0..IdSpace-1
    /\ x.tag = w => x.id = last
    /\ x.tag # w => Offset(x.id) < Offset(last)

KnownIn(s, next, last, w) ==
    \A i \in 1..Len(s) : IsData(s[i]) => Known(s[i], next, last, w)

Ids ==
    /\ messageId \in 0..IdSpace-1 /\ messageId % 2 = 0
    /\ Offset(messageId) <= 4 * writes
    /\ writes \in 0..MaxWrites
    /\ outcome # "broken" /\ ~ unacknowledged =>
          /\ \A i \in 1..Len(queries) : Known(queries[i], messageId, lastMessageId, writes)
          /\ KnownIn(Stream, messageId, lastMessageId, writes)

LEMMA AfterOffset ==
  ASSUME NEW id \in 0..IdSpace-1, id % 2 = 0, NEW n \in 0..2, Offset(id) + 2 * n < IdSpace
  PROVE  /\ After(id, n) \in 0..IdSpace-1 /\ After(id, n) % 2 = 0
         /\ Offset(After(id, n)) = Offset(id) + 2 * n
  <1>1. IdSpace \in Nat \ {0} /\ FirstId \in 0..IdSpace-1 /\ IdSpace % 2 = 0
    BY ConstantsAssumption
  <1> DEFINE sum == id + 2 * n
  <1>2. sum \in Nat /\ sum % 2 = 0
    BY <1>1
  <1>3. sum < 2 * IdSpace
    BY <1>1 DEF Offset
  <1> HIDE DEF sum
  <1>4. sum % IdSpace = IF sum < IdSpace THEN sum ELSE sum - IdSpace
    BY <1>1, <1>2, <1>3
  <1>5. After(id, n) = IF sum < IdSpace THEN sum ELSE sum - IdSpace
    BY <1>4 DEF After, sum
  <1>6. After(id, n) \in 0..IdSpace-1 /\ After(id, n) % 2 = 0
    BY <1>1, <1>2, <1>3, <1>5
  <1>7. Offset(After(id, n)) = Offset(id) + 2 * n
    BY <1>1, <1>2, <1>3, <1>5 DEF Offset, sum
  <1> QED BY <1>6, <1>7

LEMMA OffsetType ==
  ASSUME NEW id \in 0..IdSpace-1
  PROVE  Offset(id) \in Nat
  BY ConstantsAssumption DEF Offset

LEMMA UnacknowledgedStays == ASSUME [Next]_vars PROVE unacknowledged => unacknowledged'
  <1>1. CASE \/ (\E n \in 1..2 : Write(n)) \/ Trigger \/ (\E n \in Counts : BeginRead(n))
             \/ (\E shape \in Shapes : Answer(shape)) \/ Arrive \/ ReceiveStep
    BY <1>1, Zenon DEF Write, Trigger, BeginRead, Answer, Arrive, ReceiveStep, NextDataHeader,
       Mismatch, Flush, BadHeader, Payload, ReadTimeout, Interrupted, term, astray
  <1>2. CASE \/ Drain \/ AwaitInterrupted \/ AwaitTimeout \/ TerminateComplete \/ TerminateEnd
             \/ ClearComplete \/ ClearEnd
    BY <1>2, Zenon DEF Drain, AwaitInterrupted, AwaitTimeout, TerminateComplete,
       DeviceClearComplete, TerminateEnd, ClearComplete, ClearEnd, term, astray
  <1>3. CASE \/ StatusQuery \/ OtherTransaction \/ TerminateTest \/ TerminateCancel \/ CarryOut
             \/ Unsolicited \/ UNCHANGED vars
    BY <1>3, Zenon DEF StatusQuery, OtherTransaction, Transaction, TerminateTest, TerminateCancel,
       CarryOut, Unsolicited, vars, term, astray
  <1>4. CASE Clear \/ TerminateClear \/ TerminateGivesUp \/ ClearGivesUp
    BY <1>4, Zenon DEF Clear, TerminateClear, TerminateGivesUp, ClearGivesUp, AsyncDeviceClear,
       LateAnswer, NoAcknowledgement, astray
  <1> QED BY <1>1, <1>2, <1>3, <1>4, Zenon DEF Next, TerminateStep, ClearStep

(* A step that lets the ids be and takes away from what was sent or puts   *)
(* marks into it.                                                          *)
LEMMA IdsStay ==
  ASSUME Ids, UNCHANGED <<messageId, lastMessageId, writes>>,
         outcome' # "broken" => outcome # "broken", unacknowledged => unacknowledged',
         queries' = queries \/ queries' = <<>>,
         KnownIn(Stream, messageId, lastMessageId, writes) =>
            KnownIn(Stream', messageId, lastMessageId, writes)
  PROVE  Ids'
  <1>1. /\ messageId' \in 0..IdSpace-1 /\ messageId' % 2 = 0
        /\ Offset(messageId') <= 4 * writes' /\ writes' \in 0..MaxWrites
    BY DEF Ids
  <1>2. ASSUME outcome' # "broken", ~ unacknowledged'
        PROVE  /\ \A i \in 1..Len(queries') : Known(queries'[i], messageId', lastMessageId', writes')
               /\ KnownIn(Stream', messageId', lastMessageId', writes')
    BY <1>2 DEF Ids
  <1> QED BY <1>1, <1>2 DEF Ids

(* Where the client only reads, waits or throws away.                      *)
Onward ==
    /\ UNCHANGED <<messageId, lastMessageId, writes>> /\ UNCHANGED <<net, queries>>
    /\ outcome' # "broken" => outcome # "broken"
    /\ buf' = buf \/ (buf # <<>> /\ buf' = Tail(buf)) \/ buf' = <<>>

LEMMA OnwardIds ==
  ASSUME Base, Ids, Onward, unacknowledged => unacknowledged'
  PROVE  Ids'
  <1>1. ChannelTypes
    BY DEF Base
  <1>2. KnownIn(Stream, messageId, lastMessageId, writes) =>
           KnownIn(Stream', messageId, lastMessageId, writes)
    <2>1. CASE buf' = buf
      BY <2>1 DEF Onward, Stream
    <2>2. CASE buf # <<>> /\ buf' = Tail(buf)
      <3>1. Stream \in Seq(Items) /\ Stream' \in Seq(Items) /\ Shorter(Stream, Stream')
        BY <1>1, <2>2, TakenChannel DEF Onward
      <3>2. \A i \in 1..Len(Stream') : Stream'[i] = Stream[i + 1] /\ i + 1 \in 1..Len(Stream)
        BY <3>1 DEF Shorter
      <3> QED BY <3>2 DEF KnownIn
    <2>3. CASE buf' = <<>>
      <3>1. buf \in Seq(Items) /\ net \in Seq(Items) /\ Stream \in Seq(Items)
            /\ Longer(buf, net, Stream)
        BY <1>1, StreamTypes DEF ChannelTypes
      <3>2. Stream' = net
        BY <2>3, <3>1, ConcatEmptySeq DEF Onward, Stream
      <3>3. \A i \in 1..Len(net) : Len(buf) + i \in 1..Len(Stream) /\ Stream[Len(buf) + i] = net[i]
        BY <3>1, LongerParts
      <3> QED BY <3>2, <3>3 DEF KnownIn
    <2> QED BY <2>1, <2>2, <2>3 DEF Onward
  <1> QED BY <1>2, IdsStay DEF Onward

LEMMA LoopOnward ==
  ASSUME NEW n, NEW g, NEW left, NEW type, Loop(n, g, left, type)
  PROVE  outcome' = "ok" \/ outcome' = outcome
  BY DEF Loop

LEMMA GoesOnward ==
  ASSUME Base,
         \/ \E n \in Counts : BeginRead(n)
         \/ ReceiveStep
         \/ Drain \/ AwaitInterrupted \/ AwaitTimeout
         \/ StatusQuery \/ OtherTransaction
         \/ (LateAnswer \/ NoAcknowledgement) /\ outcome # "broken"
         \/ TerminateGivesUp \/ ClearGivesUp
         \/ TerminateTest \/ TerminateCancel \/ Unsolicited \/ UNCHANGED vars
  PROVE  Onward
  <1>1. pc # "idle" => outcome # "broken"
    BY DEF Base, Controlled
  <1>2. ASSUME NEW n \in Counts, BeginRead(n) PROVE Onward
    BY <1>2 DEF BeginRead, Idle, chan, Onward
  <1>3. CASE NextDataHeader
    BY <1>1, <1>3 DEF NextDataHeader, Ready, Onward
  <1>4. CASE Mismatch
    BY <1>1, <1>4 DEF Mismatch, Ready, ids, Onward
  <1>5. CASE Flush
    BY <1>1, <1>5 DEF Flush, Ready, ids, Onward
  <1>6. CASE BadHeader
    BY <1>1, <1>6 DEF BadHeader, Ready, ids, Onward
  <1>7. CASE Payload
    BY <1>1, <1>7 DEF Payload, Ready, Onward
  <1>8. CASE ReadTimeout
    BY <1>1, <1>8 DEF ReadTimeout, Receiving, ids, chan, Onward
  <1>9. CASE Interrupted
    BY <1>1, <1>9 DEF Interrupted, Receiving, ids, Onward
  <1>10. CASE Drain
    BY <1>1, <1>10 DEF Drain, ids, Onward
  <1>11. CASE AwaitInterrupted
    BY <1>1, <1>11 DEF AwaitInterrupted, ids, Onward
  <1>12. CASE AwaitTimeout
    BY <1>1, <1>12 DEF AwaitTimeout, ids, chan, Onward
  <1>13. CASE StatusQuery \/ OtherTransaction
    BY <1>13 DEF StatusQuery, OtherTransaction, Transaction, Idle, ids, chan, Onward
  <1>14. CASE (LateAnswer \/ NoAcknowledgement) /\ outcome # "broken"
    BY <1>14 DEF LateAnswer, NoAcknowledgement, ids, chan, Onward
  <1>16. CASE TerminateGivesUp \/ ClearGivesUp
    BY <1>1, <1>14, <1>16 DEF TerminateGivesUp, ClearGivesUp
  <1>15. CASE TerminateTest \/ TerminateCancel \/ Unsolicited \/ UNCHANGED vars
    BY <1>15 DEF TerminateTest, TerminateCancel, Unsolicited, vars, ids, io, chan, Onward
  <1> QED BY <1>2, <1>3, <1>4, <1>5, <1>6, <1>7, <1>8, <1>9, <1>10, <1>11, <1>12, <1>13, <1>14,
             <1>15, <1>16 DEF ReceiveStep

LEMMA MarkSentIds ==
  ASSUME Base, Ids, NEW type \in {"Interrupted", "DeviceClearAcknowledge"},
         Sent(<<Control(type)>>), UNCHANGED <<messageId, lastMessageId, writes, outcome>>,
         unacknowledged => unacknowledged',
         queries' = queries \/ queries' = <<>>
  PROVE  Ids'
  <1>1. /\ Len(Stream) \in Nat /\ Len(Stream') = Len(Stream) + 1
        /\ \A i \in 1..Len(Stream) : Stream'[i] = Stream[i]
        /\ \A t : IsControl(Stream'[Len(Stream')], t) <=> t = type
    BY MarkSent DEF Base
  <1>2. ~ IsData(Stream'[Len(Stream')])
    BY <1>1 DEF IsData, IsControl, IsHeader
  <1>3. ASSUME NEW i \in 1..Len(Stream')
        PROVE  i = Len(Stream') \/ i \in 1..Len(Stream)
    BY ONLY <1>1, i \in 1..Len(Stream')
  <1>4. KnownIn(Stream, messageId, lastMessageId, writes) =>
           KnownIn(Stream', messageId, lastMessageId, writes)
    BY <1>1, <1>2, <1>3 DEF KnownIn
  <1> QED BY <1>4, IdsStay

LEMMA ClearingIds ==
  ASSUME Base, Ids, unacknowledged => unacknowledged',
         \/ \E there \in {"await", "clear"} : AsyncDeviceClear(there)
         \/ TerminateComplete \/ ClearComplete \/ CarryOut
  PROVE  Ids'
  <1>1. ASSUME UNCHANGED <<messageId, lastMessageId, writes, outcome>>, ServerClears
        PROVE  Ids'
    <2>1. CASE UNCHANGED <<buf, net>>
      BY <1>1, <2>1, IdsStay DEF ServerClears, Stream
    <2>2. CASE Sent(<<Control("Interrupted")>>)
      BY <1>1, <2>2, MarkSentIds DEF ServerClears
    <2> QED BY <1>1, <2>1, <2>2 DEF ServerClears
  <1>2. ASSUME NEW there \in {"await", "clear"}, AsyncDeviceClear(there) PROVE Ids'
    <2>1. /\ UNCHANGED <<messageId, lastMessageId, writes, outcome>>
          /\ ServerClears \/ UNCHANGED <<buf, net, queries>>
      BY <1>2 DEF AsyncDeviceClear, ids, chan
    <2>2. CASE UNCHANGED <<buf, net, queries>>
      BY <2>1, <2>2, IdsStay DEF Stream
    <2> QED BY <1>1, <2>1, <2>2
  <1>3. CASE TerminateComplete \/ ClearComplete
    <2>1. /\ UNCHANGED <<messageId, lastMessageId, writes, outcome>> /\ queries' = queries
          /\ Sent(<<Control("DeviceClearAcknowledge")>>) \/ UNCHANGED <<buf, net>>
      BY <1>3 DEF TerminateComplete, ClearComplete, DeviceClearComplete, ids
    <2>2. CASE UNCHANGED <<buf, net>>
      BY <2>1, <2>2, IdsStay DEF Stream
    <2> QED BY <2>1, <2>2, MarkSentIds
  <1>4. CASE CarryOut
    BY <1>1, <1>4 DEF CarryOut, ids, io
  <1> QED BY <1>2, <1>3, <1>4

(* Where a device clear ends there is nothing left an id could not fit.    *)
LEMMA EndIds ==
  ASSUME Base, Ids, TerminateEnd \/ ClearEnd, unacknowledged => unacknowledged'
  PROVE  Ids'
  <1>1. ChannelTypes /\ Controlled /\ writes' = writes /\ pc \in {"acknowledge", "cleared"}
    BY DEF Base, TerminateEnd, ClearEnd
  <1>2. CASE outcome' = "broken"
    <2>1. UNCHANGED messageId
      BY <1>2 DEF TerminateEnd, ClearEnd, ids
    <2> QED BY <1>1, <1>2, <2>1 DEF Ids
  <1>3. CASE outcome' # "broken"
    <2>1. /\ messageId' = FirstId /\ queries' = queries /\ net' = net
          /\ buf # <<>> /\ buf' = Tail(buf) /\ Acknowledged
      BY <1>3 DEF TerminateEnd, ClearEnd, ResetAll, Broken, Raises
    <2>2. ~ unacknowledged => queries' = <<>> /\ MarksLast(Stream, pc)
      BY <1>1, <2>1 DEF Controlled, Clearing
    <2>3. ~ unacknowledged => Stream' = <<>>
      BY <1>1, <2>1, <2>2, AcknowledgedLast
    <2>4. /\ FirstId \in 0..IdSpace-1 /\ FirstId % 2 = 0 /\ Offset(FirstId) = 0
          /\ writes \in 0..MaxWrites /\ MaxWrites \in Nat
      BY ConstantsAssumption DEF Offset, Ids
    <2>5. Offset(FirstId) <= 4 * writes
      BY <2>4
    <2> QED BY <1>1, <2>1, <2>2, <2>3, <2>4, <2>5 DEF Ids, KnownIn
  <1> QED BY <1>2, <1>3

(* The setter of last_message_id: what was sent before is older.           *)
LEMMA OlderKnown ==
  ASSUME Ids, writes < MaxWrites, NEW x, Known(x, messageId, lastMessageId, writes),
         NEW m \in 0..1, NEW n \in 1..2, m < n
  PROVE  Known(x, After(messageId, n), After(messageId, m), writes + 1)
  <1>1. /\ messageId \in 0..IdSpace-1 /\ messageId % 2 = 0 /\ Offset(messageId) <= 4 * writes
        /\ writes \in 0..MaxWrites
    BY DEF Ids
  <1>2. 4 * MaxWrites < IdSpace /\ MaxWrites \in Nat /\ IdSpace \in Nat
    BY ConstantsAssumption
  <1>3. Offset(messageId) \in Nat
    BY <1>1, OffsetType
  <1>4. Offset(messageId) + 2 * n < IdSpace /\ Offset(messageId) + 2 * m < IdSpace
    BY <1>1, <1>2, <1>3
  <1>5. /\ Offset(After(messageId, n)) = Offset(messageId) + 2 * n
        /\ Offset(After(messageId, m)) = Offset(messageId) + 2 * m
        /\ After(messageId, m) \in 0..IdSpace-1
    BY <1>1, <1>4, AfterOffset
  <1>6. /\ x.tag \in 1..writes /\ x.id \in 0..IdSpace-1 /\ x.id % 2 = 0
        /\ Offset(x.id) < Offset(messageId)
    BY DEF Known
  <1>7. Offset(x.id) \in Nat
    BY <1>6, OffsetType
  <1>8. Offset(x.id) < Offset(After(messageId, n)) /\ Offset(x.id) < Offset(After(messageId, m))
    BY <1>3, <1>5, <1>6, <1>7
  <1>9. x.tag \in 1..writes + 1 /\ x.tag # writes + 1
    BY <1>1, <1>6
  <1> QED BY <1>5, <1>6, <1>8, <1>9 DEF Known

LEMMA SetIds ==
  ASSUME Base, Ids, Idle, writes < MaxWrites, NEW m \in 0..1, NEW n \in 1..2, m < n,
         messageId' = After(messageId, n), lastMessageId' = After(messageId, m),
         writes' = writes + 1, UNCHANGED <<buf, net>>, unacknowledged => unacknowledged',
         queries' = queries \/ queries' = Append(queries, [id |-> After(messageId, m), tag |-> writes + 1])
  PROVE  Ids'
  <1>1. /\ messageId \in 0..IdSpace-1 /\ messageId % 2 = 0 /\ Offset(messageId) <= 4 * writes
        /\ writes \in 0..MaxWrites
    BY DEF Ids
  <1>2. 4 * MaxWrites < IdSpace /\ MaxWrites \in Nat /\ IdSpace \in Nat
    BY ConstantsAssumption
  <1>3. Offset(messageId) \in Nat
    BY <1>1, OffsetType
  <1>4. Offset(messageId) + 2 * n < IdSpace /\ Offset(messageId) + 2 * m < IdSpace
    BY <1>1, <1>2, <1>3
  <1>5. /\ Offset(After(messageId, n)) = Offset(messageId) + 2 * n
        /\ Offset(After(messageId, m)) = Offset(messageId) + 2 * m
        /\ After(messageId, m) \in 0..IdSpace-1 /\ After(messageId, m) % 2 = 0
        /\ After(messageId, n) \in 0..IdSpace-1 /\ After(messageId, n) % 2 = 0
    BY <1>1, <1>4, AfterOffset
  <1>6. /\ messageId' \in 0..IdSpace-1 /\ messageId' % 2 = 0
        /\ Offset(messageId') <= 4 * writes' /\ writes' \in 0..MaxWrites
    <2>1. Offset(messageId) + 2 * n <= 4 * (writes + 1) /\ writes + 1 \in 0..MaxWrites
      BY <1>1, <1>2, <1>3
    <2> QED BY <1>5, <2>1
  <1>7. outcome # "broken"
    BY DEF Idle
  <1>8. ASSUME ~ unacknowledged'
        PROVE  KnownIn(Stream', messageId', lastMessageId', writes')
    <2>1. Stream' = Stream
      BY DEF Stream
    <2>2. ASSUME NEW i \in 1..Len(Stream), IsData(Stream[i])
          PROVE  Known(Stream[i], messageId', lastMessageId', writes')
      <3>1. Known(Stream[i], messageId, lastMessageId, writes)
        BY <1>7, <1>8, <2>2 DEF Ids, KnownIn
      <3> QED BY <3>1, OlderKnown
    <2> QED BY <2>1, <2>2 DEF KnownIn
  <1>9. ASSUME ~ unacknowledged'
        PROVE  \A i \in 1..Len(queries') : Known(queries'[i], messageId', lastMessageId', writes')
    <2>1. ASSUME NEW i \in 1..Len(queries)
          PROVE  Known(queries[i], messageId', lastMessageId', writes')
      <3>1. Known(queries[i], messageId, lastMessageId, writes)
        BY <1>7, <1>9 DEF Ids
      <3> QED BY <3>1, OlderKnown
    <2> DEFINE x == [id |-> After(messageId, m), tag |-> writes + 1]
    <2>2. Known(x, messageId', lastMessageId', writes')
      <3>1. x.id = After(messageId, m) /\ x.tag = writes + 1
        OBVIOUS
      <3>2. writes + 1 \in 1..writes + 1
        BY <1>1
      <3>3. Offset(After(messageId, m)) < Offset(After(messageId, n))
        BY <1>3, <1>5
      <3> HIDE DEF x
      <3> QED BY <1>5, <3>1, <3>2, <3>3 DEF Known
    <2>3. CASE queries' = queries
      BY <2>1, <2>3
    <2>4. CASE queries' = Append(queries, x)
      <3> HIDE DEF x
      <3>1. queries \in Seq([id : Nat, tag : Nat])
        BY DEF Base, ChannelTypes
      <3>2. \A i \in 1..Len(queries') : i \in 1..Len(queries) \/ i = Len(queries) + 1
        BY <2>4, <3>1
      <3>3. \A i \in 1..Len(queries) : queries'[i] = queries[i]
        BY <2>4, <3>1
      <3>4. queries'[Len(queries) + 1] = x
        BY <2>4, <3>1
      <3> QED BY <2>1, <2>2, <3>2, <3>3, <3>4
    <2> QED BY <2>3, <2>4
  <1> QED BY <1>6, <1>8, <1>9 DEF Ids

LEMMA AfterZero ==
  ASSUME Ids
  PROVE  After(messageId, 0) = messageId
  <1>1. messageId \in 0..IdSpace-1 /\ IdSpace \in Nat \ {0}
    BY ConstantsAssumption DEF Ids
  <1>2. messageId + 2 * 0 = messageId /\ messageId % IdSpace = messageId
    BY <1>1
  <1> QED BY <1>2 DEF After

LEMMA SendIds ==
  ASSUME Base, Ids, (\E n \in 1..2 : Write(n)) \/ Trigger, unacknowledged => unacknowledged'
  PROVE  Ids'
  <1>1. ASSUME NEW n \in 1..2, Write(n) PROVE Ids'
    <2>1. n - 1 \in 0..1 /\ n - 1 < n
      OBVIOUS
    <2>2. /\ Idle /\ writes < MaxWrites /\ writes' = writes + 1 /\ UNCHANGED <<buf, net>>
          /\ messageId' = After(messageId, n) /\ lastMessageId' = After(messageId, n - 1)
          /\ queries' = Append(queries, [id |-> After(messageId, n - 1), tag |-> writes + 1])
      BY <1>1 DEF Write, Send, SetLastMessageId
    <2> QED BY <2>1, <2>2, SetIds
  <1>2. CASE Trigger
    <2>1. /\ Idle /\ writes < MaxWrites /\ writes' = writes + 1 /\ UNCHANGED <<buf, net>>
          /\ messageId' = After(messageId, 1) /\ lastMessageId' = messageId /\ queries' = queries
      BY <1>2 DEF Trigger, SetLastMessageId, chan
    <2>2. lastMessageId' = After(messageId, 0) /\ 0 \in 0..1 /\ 1 \in 1..2 /\ 0 < 1
      BY <2>1, AfterZero
    <2> QED BY <2>1, <2>2, SetIds
  <1> QED BY <1>1, <1>2

LEMMA AnswerIds ==
  ASSUME Base, Ids, NEW shape \in Shapes, Answer(shape)
  PROVE  Ids'
  <1> DEFINE q == Head(queries)
             r == Response(q, shape)
  <1>1. /\ UNCHANGED <<messageId, lastMessageId, writes, outcome, unacknowledged>>
        /\ queries' = Tail(queries)
    BY DEF Answer, ids, io, term, astray
  <1>2. /\ queries # <<>> /\ q \in [id : Nat, tag : Nat]
        /\ Stream \in Seq(Items) /\ Stream' \in Seq(Items)
        /\ r \in Seq(Items) /\ Longer(Stream, r, Stream') /\ Answers(r, q, shape)
    BY AnswerFacts DEF Base
  <1>3. /\ queries \in Seq([id : Nat, tag : Nat]) /\ Len(queries) \in Nat \ {0} /\ q = queries[1]
        /\ \A i \in 1..Len(queries') : i + 1 \in 1..Len(queries) /\ queries'[i] = queries[i + 1]
    BY <1>1, <1>2, HeadTailProperties DEF Base, ChannelTypes
  <1> HIDE DEF q, r
  <1>4. ASSUME outcome # "broken", ~ unacknowledged
        PROVE  /\ \A i \in 1..Len(queries') : Known(queries'[i], messageId, lastMessageId, writes)
               /\ KnownIn(Stream', messageId, lastMessageId, writes)
    <2>1. /\ \A i \in 1..Len(queries) : Known(queries[i], messageId, lastMessageId, writes)
          /\ KnownIn(Stream, messageId, lastMessageId, writes)
      BY <1>4 DEF Ids
    <2>2. Known(q, messageId, lastMessageId, writes)
      BY <1>3, <2>1
    <2>3. \A i \in 1..Len(r) :
             /\ r[i].tag = q.tag
             /\ IsHeader(r[i]) => IsData(r[i]) /\ r[i].id = q.id
      BY <1>2, ResponseItems
    <2>4. \A i \in 1..Len(r) : IsData(r[i]) => Known(r[i], messageId, lastMessageId, writes)
      BY <2>2, <2>3 DEF Known, IsData, IsHeader
    <2>5. /\ \A i \in 1..Len(Stream) : Stream'[i] = Stream[i]
          /\ \A i \in 1..Len(Stream') :
                i \in 1..Len(Stream) \/ (i - Len(Stream) \in 1..Len(r) /\ Stream'[i] = r[i - Len(Stream)])
      BY <1>2, LongerParts
    <2>6. KnownIn(Stream', messageId, lastMessageId, writes)
      BY <2>1, <2>4, <2>5 DEF KnownIn
    <2> QED BY <1>3, <2>1, <2>6
  <1> QED BY <1>1, <1>4 DEF Ids

LEMMA ArriveIds ==
  ASSUME Base, Ids, Arrive, unacknowledged => unacknowledged'
  PROVE  Ids'
  <1>1. UNCHANGED <<messageId, lastMessageId, writes, outcome>> /\ queries' = queries
    BY DEF Arrive, ids, io
  <1>2. Stream' = Stream
    BY ArriveKeeps DEF Base
  <1> QED BY <1>1, <1>2, IdsStay

LEMMA IdsInit == Init => Ids
  <1> SUFFICES ASSUME Init PROVE Ids
    OBVIOUS
  <1>1. Stream = <<>> /\ queries = <<>>
    <2>1. buf \in Seq(Items) /\ net \in Seq(Items)
      BY BaseInit DEF Base, ChannelTypes
    <2> QED BY <2>1, ConcatEmptySeq DEF Init, Stream
  <1>2. /\ FirstId \in 0..IdSpace-1 /\ FirstId % 2 = 0 /\ Offset(FirstId) = 0
        /\ MaxWrites \in Nat
    BY ConstantsAssumption DEF Offset
  <1> QED BY <1>1, <1>2 DEF Init, NewInstrument, Ids, KnownIn

LEMMA IdsNext == Base /\ Ids /\ [Next]_vars => Ids'
  <1> SUFFICES ASSUME Base, Ids, [Next]_vars PROVE Ids'
    OBVIOUS
  <1>8. unacknowledged => unacknowledged'
    BY UnacknowledgedStays
  <1>1. CASE \/ \E n \in Counts : BeginRead(n)
             \/ ReceiveStep \/ Drain \/ AwaitInterrupted \/ AwaitTimeout
             \/ StatusQuery \/ OtherTransaction
             \/ TerminateGivesUp \/ ClearGivesUp
             \/ TerminateTest \/ TerminateCancel \/ Unsolicited \/ UNCHANGED vars
    BY <1>1, <1>8, GoesOnward, OnwardIds
  <1>2. CASE (\E n \in 1..2 : Write(n)) \/ Trigger
    BY <1>2, <1>8, SendIds
  <1>3. CASE Clear \/ TerminateClear
    <2>1. outcome # "broken"
      BY <1>3 DEF Clear, Idle, TerminateClear, Base, Controlled
    <2>2. \/ LateAnswer \/ NoAcknowledgement
          \/ \E there \in {"await", "clear"} : AsyncDeviceClear(there)
      BY <1>3 DEF Clear, TerminateClear
    <2> QED BY <1>8, <2>1, <2>2, GoesOnward, OnwardIds, ClearingIds
  <1>4. CASE TerminateComplete \/ ClearComplete \/ CarryOut
    BY <1>4, <1>8, ClearingIds
  <1>5. CASE TerminateEnd \/ ClearEnd
    BY <1>5, <1>8, EndIds
  <1>6. ASSUME NEW shape \in Shapes, Answer(shape) PROVE Ids'
    BY <1>6, AnswerIds
  <1>7. CASE Arrive
    BY <1>7, <1>8, ArriveIds
  <1> QED BY <1>1, <1>2, <1>3, <1>4, <1>5, <1>6, <1>7 DEF Next, TerminateStep, ClearStep

(* A header of the response to the last message is never taken for one of  *)
(* another message, until a clear goes unacknowledged.                     *)
LEMMA OwnIsNoMismatch ==
  ASSUME Base, Ids, Mismatch
  PROVE  Head(buf).tag # writes \/ unacknowledged
  <1> SUFFICES ASSUME ~ unacknowledged PROVE Head(buf).tag # writes
    OBVIOUS
  <1>1. /\ pc = "header" /\ buf # <<>> /\ buf' = Tail(buf) /\ net' = net
        /\ Head(buf).kind = "header" /\ Head(buf).type # "Interrupted"
        /\ ~ (IsData(Head(buf)) /\ IdMatches(Head(buf)))
    BY DEF Mismatch, Ready
  <1>2. ChannelTypes /\ outcome # "broken" /\ MarksLast(Stream, pc)
    BY <1>1 DEF Base, Controlled
  <1>3. Head(buf) = Stream[1] /\ Head(buf) \in Items /\ 1 \in 1..Len(Stream)
    BY <1>1, <1>2, TakeOne
  <1>4. ~ IsControl(Stream[1], "DeviceClearAcknowledge")
    BY <1>1, <1>2, <1>3 DEF MarksLast
  <1>5. IsData(Head(buf))
    BY <1>1, <1>3, <1>4, ItemTypes DEF IsData, IsControl, IsHeader
  <1>6. Known(Head(buf), messageId, lastMessageId, writes)
    BY <1>2, <1>3, <1>5 DEF Ids, KnownIn
  <1>7. Head(buf).id # lastMessageId
    BY <1>1, <1>5 DEF IdMatches
  <1> QED BY <1>6, <1>7 DEF Known

(* Ids never go astray: queries and headers that are still to be answered  *)
(* or read carry the ids they were sent with.                              *)
THEOREM Ids_fit == Spec => [](Base /\ Ids)
  <1>1. Init => Base /\ Astray /\ Ids
    BY BaseInit, AstrayInit, IdsInit
  <1>2. Base /\ Astray /\ Ids /\ [Next]_vars => (Base /\ Astray /\ Ids)'
    BY BaseNext, AstrayNext, IdsNext
  <1> QED BY <1>1, <1>2, PTL DEF Spec

(* The response the application waits for is never discarded as one of     *)
(* another message, whatever was written, triggered, terminated or cleared *)
(* before, unless the server left a clear unacknowledged.                  *)
THEOREM Own_response_kept == Spec => OwnResponseKept
  <1>1. Base /\ Ids => [Mismatch => Head(buf).tag # writes \/ unacknowledged]_vars
    BY OwnIsNoMismatch
  <1> QED BY <1>1, Ids_fit, PTL DEF Spec, OwnResponseKept

-----------------------------------------------------------------------------
(* Framing.  Until the client is upset, what it still expects of a message *)
(* is what the channel still holds of it, and whole messages follow.       *)
HeaderAt(s, i) == i <= Len(s) => IsHeader(s[i])

Whole(s, i) ==
    /\ i + s[i].len <= Len(s)
    /\ \A j \in i + 1..i + s[i].len : IsUnit(s[j]) /\ s[j].tag = s[i].tag
    /\ HeaderAt(s, i + s[i].len + 1)

Framed(k, s) ==
    /\ k \in Nat /\ k <= Len(s)
    /\ \A i \in 1..k : IsUnit(s[i])
    /\ HeaderAt(s, k + 1)
    /\ \A i \in k + 1..Len(s) : IsHeader(s[i]) => Whole(s, i)

(* The whole messages stay whole when the first unit is taken ...          *)
LEMMA WholeShorter ==
  ASSUME NEW s \in Seq(Items), NEW t \in Seq(Items), Shorter(s, t),
         NEW i \in 1..Len(t), IsHeader(t[i]), Whole(s, i + 1)
  PROVE  Whole(t, i)
  <1>1. /\ Len(s) \in Nat /\ Len(t) \in Nat /\ Len(t) = Len(s) - 1
        /\ \A j \in 1..Len(t) : t[j] = s[j + 1]
    BY DEF Shorter
  <1>2. t[i] = s[i + 1] /\ t[i].len \in Nat
    BY <1>1, ItemTypes
  <1> DEFINE n == t[i].len
  <1>3. n \in Nat /\ n = s[i + 1].len
    BY <1>2
  <1> HIDE DEF n
  <1>4. (i + 1) + n <= Len(s) /\ HeaderAt(s, (i + 1) + n + 1)
        /\ \A j \in (i + 1) + 1..(i + 1) + n : IsUnit(s[j]) /\ s[j].tag = s[i + 1].tag
    BY <1>3 DEF Whole
  <1>5. i + n <= Len(t)
    <2>1. n \in Nat /\ Len(t) \in Nat /\ Len(s) \in Nat /\ Len(t) = Len(s) - 1
      BY <1>1, <1>3
    <2>2. (i + 1) + n <= Len(s)
      BY <1>4
    <2> QED BY ONLY <2>1, <2>2, i \in 1..Len(t)
  <1>6. ASSUME NEW j \in i + 1..i + n PROVE IsUnit(t[j]) /\ t[j].tag = t[i].tag
    <2>1. j \in 1..Len(t) /\ j + 1 \in (i + 1) + 1..(i + 1) + n
      <3>1. n \in Nat /\ Len(t) \in Nat
        BY <1>1, <1>3
      <3> QED BY ONLY <3>1, <1>5, i \in 1..Len(t), j \in i + 1..i + n
    <2> QED BY <1>1, <1>2, <1>4, <2>1
  <1>7. HeaderAt(t, i + n + 1)
    <2>1. CASE i + n + 1 <= Len(t)
      <3>1. i + n + 1 \in 1..Len(t) /\ (i + n + 1) + 1 = (i + 1) + n + 1 /\ (i + 1) + n + 1 <= Len(s)
        <4>1. n \in Nat /\ Len(t) \in Nat /\ Len(s) \in Nat /\ Len(t) = Len(s) - 1
              /\ i \in 1..Len(t) /\ i + n + 1 <= Len(t)
          BY <1>1, <1>3, <2>1
        <4> QED BY ONLY <4>1
      <3> QED BY <1>1, <1>4, <3>1 DEF HeaderAt
    <2> QED BY <2>1 DEF HeaderAt
  <1> QED BY <1>5, <1>6, <1>7 DEF Whole, n

LEMMA FramedTail ==
  ASSUME NEW s \in Seq(Items), NEW t \in Seq(Items), NEW k \in Nat \ {0},
         Framed(k, s), Shorter(s, t)
  PROVE  IsUnit(s[1]) /\ Framed(k - 1, t)
  <1>1. /\ Len(s) \in Nat /\ Len(t) \in Nat /\ Len(t) = Len(s) - 1
        /\ \A j \in 1..Len(t) : t[j] = s[j + 1]
    BY DEF Shorter
  <1>2. k <= Len(s) /\ \A i \in 1..k : IsUnit(s[i])
    BY DEF Framed
  <1>3. k - 1 \in Nat /\ k - 1 <= Len(t) /\ 1 \in 1..k
    BY <1>1, <1>2
  <1>4. \A i \in 1..k - 1 : IsUnit(t[i])
    BY <1>1, <1>2
  <1>5. HeaderAt(t, (k - 1) + 1)
    <2>1. HeaderAt(s, k + 1)
      BY DEF Framed
    <2>2. (k - 1) + 1 = k /\ (k <= Len(t) => k \in 1..Len(t) /\ k + 1 <= Len(s))
      BY <1>1
    <2> QED BY <1>1, <2>1, <2>2 DEF HeaderAt
  <1>6. ASSUME NEW i \in (k - 1) + 1..Len(t), IsHeader(t[i]) PROVE Whole(t, i)
    <2>1. i \in 1..Len(t) /\ i + 1 \in k + 1..Len(s) /\ t[i] = s[i + 1]
      BY <1>1
    <2>2. Whole(s, i + 1)
      BY <1>6, <2>1 DEF Framed
    <2> QED BY <1>6, <2>1, <2>2, WholeShorter
  <1> QED BY <1>2, <1>3, <1>4, <1>5, <1>6 DEF Framed

(* ... and a header announces the units that follow it.                    *)
LEMMA FramedHead ==
  ASSUME NEW s \in Seq(Items), NEW t \in Seq(Items), Framed(0, s), Shorter(s, t)
  PROVE  /\ IsHeader(s[1]) /\ s[1].len \in Nat /\ Framed(s[1].len, t)
         /\ \A i \in 1..s[1].len : t[i].tag = s[1].tag
  <1>1. /\ Len(s) \in Nat \ {0} /\ Len(t) \in Nat /\ Len(t) = Len(s) - 1
        /\ \A j \in 1..Len(t) : t[j] = s[j + 1]
    BY DEF Shorter
  <1>2. IsHeader(s[1]) /\ s[1] \in Items
    BY <1>1 DEF Framed, HeaderAt
  <1> DEFINE n == s[1].len
  <1>3. n \in Nat
    BY <1>2, ItemTypes
  <1>4. Whole(s, 1)
    BY <1>1, <1>2 DEF Framed
  <1> HIDE DEF n
  <1>5. /\ 1 + n <= Len(s) /\ HeaderAt(s, 1 + n + 1)
        /\ \A j \in 1 + 1..1 + n : IsUnit(s[j]) /\ s[j].tag = s[1].tag
    BY <1>4 DEF Whole, n
  <1>6. n <= Len(t)
    BY <1>1, <1>3, <1>5
  <1>7. ASSUME NEW i \in 1..n PROVE IsUnit(t[i]) /\ t[i].tag = s[1].tag
    <2>1. i \in 1..Len(t) /\ i + 1 \in 1 + 1..1 + n
      BY <1>1, <1>3, <1>6
    <2> QED BY <1>1, <1>5, <2>1
  <1>8. HeaderAt(t, n + 1)
    <2>1. CASE n + 1 <= Len(t)
      <3>1. n + 1 \in 1..Len(t) /\ (n + 1) + 1 = 1 + n + 1 /\ 1 + n + 1 <= Len(s)
        BY <1>1, <1>3, <2>1
      <3> QED BY <1>1, <1>5, <3>1 DEF HeaderAt
    <2> QED BY <2>1 DEF HeaderAt
  <1>9. ASSUME NEW i \in n + 1..Len(t), IsHeader(t[i]) PROVE Whole(t, i)
    <2>1. i \in 1..Len(t) /\ i + 1 \in 0 + 1..Len(s) /\ t[i] = s[i + 1]
      BY <1>1, <1>3
    <2>2. Whole(s, i + 1)
      BY <1>9, <2>1 DEF Framed
    <2> QED BY <1>9, <2>1, <2>2, WholeShorter
  <1>10. Framed(n, t)
    BY <1>3, <1>6, <1>7, <1>8, <1>9 DEF Framed
  <1> QED BY <1>2, <1>3, <1>7, <1>10 DEF n

(* What is sent are whole messages.                                        *)
LEMMA FramedLonger ==
  ASSUME NEW s \in Seq(Items), NEW u \in Seq(Items), NEW t \in Seq(Items), NEW k,
         Framed(k, s), Framed(0, u), Longer(s, u, t)
  PROVE  Framed(k, t)
  <1>1. /\ Len(s) \in Nat /\ Len(u) \in Nat /\ Len(t) \in Nat /\ Len(t) = Len(s) + Len(u)
        /\ \A i \in 1..Len(s) : i \in 1..Len(t) /\ t[i] = s[i]
        /\ \A i \in 1..Len(u) : Len(s) + i \in 1..Len(t) /\ t[Len(s) + i] = u[i]
    BY LongerParts
  <1>2. k \in Nat /\ k <= Len(s) /\ \A i \in 1..k : IsUnit(s[i])
    BY DEF Framed
  <1>3. ASSUME NEW i \in 1..k PROVE IsUnit(t[i])
    <2>1. i \in 1..Len(s)
      BY ONLY <1>1, <1>2, i \in 1..k
    <2> QED BY <1>1, <1>2, <2>1
  <1>4. HeaderAt(u, 1)
    BY DEF Framed
  <1>5. ASSUME NEW i \in Nat \ {0}, i <= Len(s) + 1, HeaderAt(s, i)
        PROVE  HeaderAt(t, i)
    <2>1. CASE i <= Len(s)
      BY <1>1, <1>5, <2>1 DEF HeaderAt
    <2>2. CASE i = Len(s) + 1
      <3>1. i <= Len(t) => 1 \in 1..Len(u)
        BY <1>1, <2>2
      <3> QED BY <1>1, <1>4, <2>2, <3>1 DEF HeaderAt
    <2> QED BY <1>1, <1>5, <2>1, <2>2
  <1>6. HeaderAt(t, k + 1)
    BY <1>1, <1>2, <1>5 DEF Framed
  <1>7. ASSUME NEW i \in k + 1..Len(t), IsHeader(t[i]) PROVE Whole(t, i)
    <2>1. CASE i \in 1..Len(s)
      <3> DEFINE n == s[i].len
      <3>1. t[i] = s[i] /\ Whole(s, i) /\ n \in Nat
        BY <1>1, <1>2, <1>7, <2>1, ItemTypes DEF Framed
      <3> HIDE DEF n
      <3>2. i + n <= Len(s) /\ HeaderAt(s, i + n + 1) 
            /\ \A j \in i + 1..i + n : IsUnit(s[j]) /\ s[j].tag = s[i].tag
        BY <3>1 DEF Whole, n
      <3>3. HeaderAt(t, i + n + 1)
        <4>1. i + n + 1 \in Nat \ {0} /\ i + n + 1 <= Len(s) + 1
          BY <1>1, <2>1, <3>1, <3>2
        <4> QED BY <1>5, <3>2, <4>1
      <3>4. n \in Nat /\ Len(s) \in Nat /\ Len(u) \in Nat /\ Len(t) = Len(s) + Len(u)
            /\ i \in 1..Len(s) /\ i + n <= Len(s)
        BY <1>1, <2>1, <3>1, <3>2
      <3>5. i + n <= Len(t)
        BY ONLY <3>4
      <3>6. ASSUME NEW j \in i + 1..i + n PROVE IsUnit(t[j]) /\ t[j].tag = t[i].tag
        <4>1. j \in 1..Len(s)
          BY ONLY <3>4, j \in i + 1..i + n
        <4> QED BY <1>1, <3>1, <3>2, <4>1
      <3> QED BY <3>1, <3>3, <3>5, <3>6 DEF Whole, n
    <2>2. CASE i \notin 1..Len(s)
      <3> DEFINE m == i - Len(s)
                 n == u[m].len
      <3>1. m \in 1..Len(u) /\ i = Len(s) + m
        BY <1>1, <1>2, <2>2
      <3> HIDE DEF m
      <3>2. t[i] = u[m] /\ Whole(u, m) /\ n \in Nat
        BY <1>1, <1>7, <3>1, ItemTypes DEF Framed
      <3> HIDE DEF n
      <3>3. m + n <= Len(u) /\ HeaderAt(u, m + n + 1) 
            /\ \A j \in m + 1..m + n : IsUnit(u[j]) /\ u[j].tag = u[m].tag
        BY <3>2 DEF Whole, n
      <3>4. i + n <= Len(t)
        BY <1>1, <3>1, <3>2, <3>3
      <3>5. ASSUME NEW j \in i + 1..i + n PROVE IsUnit(t[j]) /\ t[j].tag = t[i].tag
        <4>1. j - Len(s) \in m + 1..m + n /\ j - Len(s) \in 1..Len(u) /\ j = Len(s) + (j - Len(s))
          <5>1. /\ Len(s) \in Nat /\ Len(u) \in Nat /\ m \in 1..Len(u) /\ n \in Nat
                /\ i = Len(s) + m /\ m + n <= Len(u)
            BY <1>1, <3>1, <3>2, <3>3
          <5> QED BY ONLY <5>1, j \in i + 1..i + n
        <4> QED BY <1>1, <3>2, <3>3, <4>1
      <3>6. HeaderAt(t, i + n + 1)
        <4>1. CASE i + n + 1 <= Len(t)
          <5>1. m + n + 1 \in 1..Len(u) /\ i + n + 1 = Len(s) + (m + n + 1)
            BY <1>1, <3>1, <3>2, <4>1
          <5> QED BY <1>1, <3>3, <5>1 DEF HeaderAt
        <4> QED BY <4>1 DEF HeaderAt
      <3> QED BY <3>2, <3>4, <3>5, <3>6 DEF Whole, n
    <2> QED BY <2>1, <2>2
  <1>8. k <= Len(t)
    BY <1>1, <1>2
  <1> QED BY <1>2, <1>3, <1>6, <1>7, <1>8 DEF Framed

LEMMA FramedNothing ==
  ASSUME NEW s, s = <<>>, NEW k
  PROVE  Framed(k, s) <=> k = 0
  BY DEF Framed, HeaderAt

LEMMA FramedMark ==
  ASSUME NEW type \in {"Interrupted", "DeviceClearAcknowledge"}
  PROVE  Framed(0, <<Control(type)>>)
  <1> DEFINE s == <<Control(type)>>
  <1>1. Len(s) = 1 /\ s[1] = Control(type) /\ Control(type).len = 0 /\ IsHeader(Control(type))
    BY DEF Control, Header, IsHeader
  <1> HIDE DEF s
  <1>2. Whole(s, 1)
    BY <1>1 DEF Whole, HeaderAt
  <1>3. Framed(0, s)
    BY <1>1, <1>2 DEF Framed, HeaderAt
  <1> QED BY <1>3 DEF s

LEMMA UnitIsUnit == \A t, k : IsUnit(Unit(t, k)) /\ ~ IsHeader(Unit(t, k)) /\ Unit(t, k).tag = t
  BY DEF Unit, IsUnit, IsHeader

LEMMA FramedResponse ==
  ASSUME NEW q \in [id : Nat, tag : Nat], NEW shape \in Shapes, NEW r, Answers(r, q, shape)
  PROVE  Framed(0, r)
  <1>1. /\ Len(shape) \in {1, 2} /\ shape[1] \in Nat /\ (Len(shape) = 2 => shape[2] \in Nat)
        /\ Len(r) = shape[1] + 1 + (IF Len(shape) = 1 THEN 0 ELSE shape[2] + 1) /\ r \in Seq(Items)
    BY ShapeParts DEF Answers, Second
  <1>2. IsHeader(r[1]) /\ r[1].len = shape[1] /\ r[1].tag = q.tag
    BY DEF Answers, Header, IsHeader
  <1>3. \A i \in 2..shape[1] + 1 : IsUnit(r[i]) /\ ~ IsHeader(r[i]) /\ r[i].tag = q.tag
    <2>1. \A i \in 2..shape[1] + 1 : r[i] = Unit(q.tag, i - 1)
      BY DEF Answers
    <2> QED BY <2>1, UnitIsUnit
  <1>4. Len(shape) = 2 =>
           /\ IsHeader(r[shape[1] + 2]) /\ r[shape[1] + 2].len = shape[2]
           /\ r[shape[1] + 2].tag = q.tag
           /\ \A i \in shape[1] + 3..Len(r) : IsUnit(r[i]) /\ ~ IsHeader(r[i]) /\ r[i].tag = q.tag
    <2>1. ASSUME Len(shape) = 2
          PROVE  /\ r[shape[1] + 2] = Header("DataEnd", q.id, shape[2], q.tag)
                 /\ \A i \in shape[1] + 3..Len(r) : r[i] = Unit(q.tag, i - 2)
      BY <2>1 DEF Answers
    <2>2. /\ IsHeader(Header("DataEnd", q.id, shape[2], q.tag))
          /\ Header("DataEnd", q.id, shape[2], q.tag).len = shape[2]
          /\ Header("DataEnd", q.id, shape[2], q.tag).tag = q.tag
      BY DEF Header, IsHeader
    <2> QED BY <2>1, <2>2, UnitIsUnit
  <1>5. Whole(r, 1)
    <2>1. 1 + shape[1] <= Len(r)
      BY <1>1
    <2>2. HeaderAt(r, 1 + shape[1] + 1)
      <3>1. CASE Len(shape) = 1
        BY <1>1, <3>1 DEF HeaderAt
      <3>2. CASE Len(shape) = 2
        <4>1. 1 + shape[1] + 1 = shape[1] + 2
          BY <1>1
        <4> QED BY <1>4, <3>2, <4>1 DEF HeaderAt
      <3> QED BY <1>1, <3>1, <3>2
    <2>3. \A j \in 1 + 1..1 + shape[1] : IsUnit(r[j]) /\ r[j].tag = r[1].tag
      BY <1>1, <1>2, <1>3
    <2> QED BY <1>2, <2>1, <2>2, <2>3 DEF Whole
  <1>6. ASSUME Len(shape) = 2 PROVE Whole(r, shape[1] + 2)
    <2>1. shape[1] + 2 + shape[2] = Len(r)
      BY <1>1, <1>6
    <2>2. ~ (shape[1] + 2 + shape[2] + 1 <= Len(r)) /\ shape[1] + 2 + shape[2] <= Len(r)
      BY <1>1, <1>6
    <2>3. \A j \in shape[1] + 2 + 1..shape[1] + 2 + shape[2] :
             IsUnit(r[j]) /\ r[j].tag = r[shape[1] + 2].tag
      BY <1>1, <1>4, <1>6, <2>1
    <2> QED BY <1>4, <1>6, <2>2, <2>3 DEF Whole, HeaderAt
  <1>7. ASSUME NEW i \in 0 + 1..Len(r), IsHeader(r[i]) PROVE Whole(r, i)
    <2>1. i \notin 2..shape[1] + 1
      BY <1>3, <1>7
    <2>2. i = 1 \/ i > shape[1] + 1
      BY <1>1, <2>1
    <2>3. ASSUME i > shape[1] + 1 PROVE Len(shape) = 2 /\ i = shape[1] + 2
      <3>1. Len(shape) = 2
        BY <1>1, <2>3
      <3>2. i \notin shape[1] + 3..Len(r)
        BY <1>4, <1>7, <3>1
      <3> QED BY <1>1, <2>3, <3>1, <3>2
    <2> QED BY <1>5, <1>6, <2>2, <2>3
  <1> QED BY <1>1, <1>2, <1>7 DEF Framed, HeaderAt

(* History: once upset the client stays so, and a clear that is given up   *)
(* upsets it.                                                              *)
LEMMA UpsetStays == [Next]_vars => (upset => upset')
  <1> SUFFICES ASSUME [Next]_vars, upset PROVE upset'
    OBVIOUS
  <1>1. CASE (\E n \in 1..2 : Write(n)) \/ Trigger
    BY <1>1, Zenon DEF Write, Trigger, Upset
  <1>2. CASE Clear
    BY <1>2, Zenon DEF Clear, LateAnswer, NoAcknowledgement, Upset
  <1>3. CASE StatusQuery \/ OtherTransaction
    BY <1>3, Zenon DEF StatusQuery, OtherTransaction, Transaction
  <1>4. ASSUME NEW n \in Counts, BeginRead(n) PROVE upset'
    BY <1>4, Zenon DEF BeginRead
  <1>5. CASE ReceiveStep
    BY <1>5, Zenon DEF ReceiveStep, NextDataHeader, Mismatch, Flush, BadHeader, Payload, ReadTimeout,
       Interrupted, Upset
  <1>6. CASE TerminateStep
    BY <1>6, Zenon DEF TerminateStep, Drain, TerminateClear, LateAnswer, NoAcknowledgement,
       AwaitInterrupted, AwaitTimeout, TerminateComplete, DeviceClearComplete, TerminateEnd,
       TerminateGivesUp, Upset
  <1>7. CASE ClearStep
    BY <1>7, Zenon DEF ClearStep, ClearComplete, DeviceClearComplete, ClearEnd, ClearGivesUp,
       NoAcknowledgement, Upset
  <1>8. CASE \/ Arrive \/ TerminateTest \/ TerminateCancel \/ CarryOut \/ Unsolicited
             \/ UNCHANGED vars
    BY <1>8, Zenon DEF Arrive, TerminateTest, TerminateCancel, CarryOut, Unsolicited, vars
  <1>9. ASSUME NEW shape \in Shapes, Answer(shape) PROVE upset'
    BY <1>9, Zenon DEF Answer
  <1> QED BY <1>1, <1>2, <1>3, <1>4, <1>5, <1>6, <1>7, <1>8, <1>9 DEF Next

Warned == unacknowledged => upset

LEMMA WarnedNext == ASSUME Warned, [Next]_vars PROVE Warned'
  <1>1. upset => upset'
    BY UpsetStays
  <1>2. ASSUME unacknowledged' = unacknowledged PROVE Warned'
    BY <1>1, <1>2, Zenon DEF Warned
  <1>3. ASSUME NoAcknowledgement PROVE Warned'
    BY <1>3, Zenon DEF NoAcknowledgement, Upset, Warned
  <1>4. CASE \/ (\E n \in 1..2 : Write(n)) \/ Trigger \/ (\E n \in Counts : BeginRead(n))
             \/ (\E shape \in Shapes : Answer(shape)) \/ Arrive \/ ReceiveStep
    BY <1>2, <1>4, Zenon DEF Write, Trigger, BeginRead, Answer, Arrive, ReceiveStep, NextDataHeader,
       Mismatch, Flush, BadHeader, Payload, ReadTimeout, Interrupted, term, astray
  <1>5. CASE \/ Drain \/ AwaitInterrupted \/ AwaitTimeout \/ TerminateComplete \/ TerminateEnd
             \/ ClearComplete \/ ClearEnd
    BY <1>2, <1>5, Zenon DEF Drain, AwaitInterrupted, AwaitTimeout, TerminateComplete,
       DeviceClearComplete, TerminateEnd, ClearComplete, ClearEnd, term, astray
  <1>6. CASE \/ StatusQuery \/ OtherTransaction \/ TerminateTest \/ TerminateCancel \/ CarryOut
             \/ Unsolicited \/ UNCHANGED vars
    BY <1>2, <1>6, Zenon DEF StatusQuery, OtherTransaction, Transaction, TerminateTest,
       TerminateCancel, CarryOut, Unsolicited, vars, term, astray
  <1>7. CASE Clear \/ TerminateClear \/ TerminateGivesUp \/ ClearGivesUp
    BY <1>2, <1>3, <1>7, Zenon DEF Clear, TerminateClear, TerminateGivesUp, ClearGivesUp,
       AsyncDeviceClear, LateAnswer, astray
  <1> QED BY <1>4, <1>5, <1>6, <1>7, Zenon DEF Next, TerminateStep, ClearStep

(* terminate() finds the _receiving event set only while receive() runs.   *)
Receptive == receiving => pc \in Reception

LEMMA LoopReceptive ==
  ASSUME NEW n, NEW g, NEW left, NEW type, Loop(n, g, left, type)
  PROVE  Receptive'
  <1>1. CASE Wanted(n, g, left, type) = "done"
    <2>1. receiving' = FALSE
      BY <1>1, Zenon DEF Loop
    <2> QED BY <2>1, Zenon DEF Receptive
  <1>2. CASE Wanted(n, g, left, type) # "done"
    <2>1. pc' = Wanted(n, g, left, type)
      BY <1>2, Zenon DEF Loop
    <2>2. Wanted(n, g, left, type) \in {"payload", "header"}
      BY <1>2 DEF Wanted
    <2> QED BY <2>1, <2>2 DEF Receptive, Reception
  <1> QED BY <1>1, <1>2

LEMMA ReceptiveNext == Receptive /\ [Next]_vars => Receptive'
  <1> SUFFICES ASSUME Receptive, [Next]_vars PROVE Receptive'
    OBVIOUS
  <1>1. ASSUME receiving' = FALSE PROVE Receptive'
    BY <1>1, Zenon DEF Receptive
  <1>2. ASSUME UNCHANGED <<receiving, pc>> PROVE Receptive'
    BY <1>2, Zenon DEF Receptive
  <1>3. ASSUME UNCHANGED receiving, pc \notin Reception PROVE Receptive'
    BY <1>3, Zenon DEF Receptive
  <1>4. ASSUME NEW n \in 1..2, Write(n) PROVE Receptive'
    BY <1>2, <1>4, Zenon DEF Write
  <1>5. CASE Trigger
    BY <1>2, <1>5, Zenon DEF Trigger
  <1>6. CASE StatusQuery \/ OtherTransaction
    BY <1>2, <1>6, Zenon DEF StatusQuery, OtherTransaction, Transaction
  <1>7. ASSUME NEW n \in Counts, BeginRead(n) PROVE Receptive'
    BY <1>7, LoopReceptive, Zenon DEF BeginRead
  <1>8. CASE NextDataHeader
    BY <1>8, LoopReceptive, Zenon DEF NextDataHeader
  <1>9. CASE Mismatch \/ Flush
    <2>1. pc' \in {"flush", "header"}
      BY <1>9 DEF Mismatch, Flush
    <2> QED BY <2>1 DEF Receptive, Reception
  <1>10. CASE BadHeader \/ ReadTimeout \/ Interrupted
    BY <1>1, <1>10, Zenon DEF BadHeader, Broken, Raises, ReadTimeout, Interrupted
  <1>11. CASE Payload
    <2>1. \/ \E g, left : Loop(count, g, left, msgType)
          \/ UNCHANGED <<receiving, pc>>
      BY <1>11, Zenon DEF Payload
    <2> QED BY <1>2, <2>1, LoopReceptive, Zenon
  <1>12. CASE TerminateTest \/ TerminateCancel \/ CarryOut \/ Unsolicited \/ UNCHANGED vars
    BY <1>2, <1>12, Zenon DEF TerminateTest, TerminateCancel, CarryOut, Unsolicited, vars, io
  <1>13. ASSUME NEW shape \in Shapes, Answer(shape) PROVE Receptive'
    BY <1>2, <1>13, Zenon DEF Answer, io
  <1>14. CASE Arrive
    BY <1>2, <1>14, Zenon DEF Arrive, io
  <1>15. ASSUME pc \notin Reception, UNCHANGED receiving \/ receiving' = FALSE PROVE Receptive'
    BY <1>1, <1>3, <1>15, Zenon
  <1>16. CASE Clear
    <2>1. pc \notin Reception
      BY <1>16 DEF Clear, Idle, Reception
    <2> QED BY <1>15, <1>16, <2>1, Zenon DEF Clear, AsyncDeviceClear, LateAnswer, NoAcknowledgement,
               Raises
  <1>17. CASE TerminateStep
    <2>1. pc \notin Reception
      BY <1>17 DEF TerminateStep, Drain, TerminateClear, AwaitInterrupted, AwaitTimeout,
                   TerminateComplete, DeviceClearComplete, TerminateEnd, TerminateGivesUp, Reception
    <2>2. CASE Drain
      BY <1>15, <2>1, <2>2, Zenon DEF Drain
    <2>3. CASE TerminateClear
      BY <1>15, <2>1, <2>3, Zenon DEF TerminateClear, AsyncDeviceClear, LateAnswer,
         NoAcknowledgement, Raises
    <2>4. CASE AwaitInterrupted
      BY <1>15, <2>1, <2>4, Zenon DEF AwaitInterrupted, Broken, Raises
    <2>5. CASE AwaitTimeout
      BY <1>15, <2>1, <2>5, Zenon DEF AwaitTimeout
    <2>6. CASE TerminateComplete
      BY <1>15, <2>1, <2>6, Zenon DEF TerminateComplete, DeviceClearComplete
    <2>7. CASE TerminateEnd
      BY <1>15, <2>1, <2>7, Zenon DEF TerminateEnd, Broken, Raises
    <2>8. CASE TerminateGivesUp
      BY <1>15, <2>1, <2>8, Zenon DEF TerminateGivesUp, NoAcknowledgement
    <2> QED BY <1>17, <2>2, <2>3, <2>4, <2>5, <2>6, <2>7, <2>8 DEF TerminateStep
  <1>18. CASE ClearStep
    <2>1. pc \notin Reception
      BY <1>18 DEF ClearStep, ClearComplete, DeviceClearComplete, ClearEnd, ClearGivesUp, Reception
    <2>2. CASE ClearComplete
      BY <1>15, <2>1, <2>2, Zenon DEF ClearComplete, DeviceClearComplete
    <2>3. CASE ClearEnd
      BY <1>15, <2>1, <2>3, Zenon DEF ClearEnd, Broken, Raises
    <2>4. CASE ClearGivesUp
      BY <1>15, <2>1, <2>4, Zenon DEF ClearGivesUp, NoAcknowledgement
    <2> QED BY <1>18, <2>2, <2>3, <2>4 DEF ClearStep
  <1> QED BY <1>4, <1>5, <1>6, <1>7, <1>8, <1>9, <1>10, <1>11, <1>12, <1>13, <1>14, <1>16, <1>17,
             <1>18 DEF Next, ReceiveStep

(* What the client still expects of a message.                             *)
Left ==
    IF pc = "payload" THEN payloadRemaining - Len(part)
    ELSE IF pc \in {"flush", "await"} THEN skip
    ELSE IF pc = "idle" THEN payloadRemaining
    ELSE 0

Framing ==
    /\ outcome = "broken" => upset
    /\ ~ upset =>
          /\ pc # "drain" => Framed(Left, Stream)
          /\ pc \in {"complete", "clear"} => Stream = <<>>
          /\ pc \in {"acknowledge", "cleared"} =>
                Stream = <<>> \/ Stream = <<Control("DeviceClearAcknowledge")>>
          /\ pc \in {"clear", "cleared"} => ~ cancel /\ tpc # "cancel" /\ payloadRemaining = 0

Cleared == {"complete", "clear", "acknowledge", "cleared"}

LEMMA FramingElsewhere ==
  ASSUME pc' \notin Cleared, outcome' = "broken" => upset',
         (~ upset' /\ pc' # "drain") => Framed(Left', Stream')
  PROVE  Framing'
  BY DEF Framing, Cleared

LEMMA LoopLeft ==
  ASSUME NEW n, NEW g, NEW left \in Nat, NEW type, Looped(n, g, left, type)
  PROVE  Left' = left /\ pc' \in {"idle", "payload", "header"} /\ (outcome' = "ok" \/ outcome' = outcome)
  <1>1. /\ payloadRemaining' = left /\ part' = <<>> /\ pc' \in {"idle", "payload", "header"}
        /\ pc' = "header" => left = 0
        /\ outcome' = "ok" \/ outcome' = outcome
    BY DEF Looped
  <1>2. Len(part') = 0
    BY <1>1
  <1>3. CASE pc' = "payload"
    BY <1>1, <1>2, <1>3 DEF Left
  <1>4. CASE pc' = "header"
    BY <1>1, <1>4 DEF Left
  <1>5. CASE pc' = "idle"
    BY <1>1, <1>5 DEF Left
  <1> QED BY <1>1, <1>3, <1>4, <1>5

LEMMA BeginReadFraming ==
  ASSUME Base, Framing, NEW n \in Counts, BeginRead(n)
  PROVE  Framing'
  <1>1. /\ pc = "idle" /\ outcome # "broken" /\ Loop(n, <<>>, payloadRemaining, msgType)
        /\ UNCHANGED <<buf, net>>
    BY DEF BeginRead, Idle, chan
  <1>2. upset' = upset
    BY Zenon DEF BeginRead
  <1>3. n \in Nat /\ Len(<<>>) \in Nat /\ payloadRemaining \in Nat
    BY ConstantsAssumption DEF Base, ClientTypes
  <1>4. Looped(n, <<>>, payloadRemaining, msgType)
    BY <1>1, <1>3, LoopFacts
  <1>5. /\ Left' = payloadRemaining /\ pc' \in {"idle", "payload", "header"}
        /\ outcome' = "ok" \/ outcome' = outcome
    BY <1>3, <1>4, LoopLeft
  <1>6. Left = payloadRemaining /\ Stream' = Stream
    BY <1>1 DEF Left, Stream
  <1>7. ~ upset => Framed(Left, Stream)
    BY <1>1 DEF Framing
  <1> QED BY <1>1, <1>2, <1>5, <1>6, <1>7, FramingElsewhere DEF Cleared

(* Head first, then the units it announces.                                *)
LEMMA TakenFramed ==
  ASSUME Base, buf # <<>>, buf' = Tail(buf), UNCHANGED <<net, queries>>,
         Framed(Left, Stream)
  PROVE  /\ Left = 0 => /\ IsHeader(Head(buf)) /\ Head(buf).len \in Nat
                         /\ Framed(Head(buf).len, Stream')
                         /\ \A i \in 1..Head(buf).len : Stream'[i].tag = Head(buf).tag
         /\ Left # 0 => IsUnit(Head(buf)) /\ Framed(Left - 1, Stream')
  <1>1. /\ Stream \in Seq(Items) /\ Stream' \in Seq(Items)
        /\ Shorter(Stream, Stream') /\ Head(buf) = Stream[1]
    BY TakenChannel DEF Base
  <1>2. CASE Left = 0
    BY <1>1, <1>2, FramedHead
  <1>3. CASE Left # 0
    <2>1. Left \in Nat \ {0}
      BY <1>3 DEF Framed
    <2> QED BY <1>1, <1>3, <2>1, FramedTail
  <1> QED BY <1>2, <1>3

LEMMA NextDataHeaderFraming ==
  ASSUME Base, Framing, NextDataHeader
  PROVE  Framing'
  <1>1. /\ pc = "header" /\ buf # <<>> /\ buf' = Tail(buf) /\ UNCHANGED <<net, queries>>
        /\ IsData(Head(buf)) /\ Loop(count, got, Head(buf).len, Head(buf).type)
    BY DEF NextDataHeader, Ready
  <1>2. upset' = upset
    BY Zenon DEF NextDataHeader
  <1>3. outcome # "broken" /\ Left = 0
    BY <1>1 DEF Base, Controlled, Left
  <1>4. Head(buf).len \in Nat /\ Len(got) \in Nat /\ count \in Nat
    <2>1. Head(buf) \in Items
      BY <1>1, TakenChannel DEF Base
    <2>2. Head(buf).len \in Nat
      BY <1>1, <2>1, ItemTypes DEF IsData, IsHeader
    <2> QED BY <2>2 DEF Base, ClientTypes
  <1>5. Looped(count, got, Head(buf).len, Head(buf).type)
    BY <1>1, <1>4, LoopFacts
  <1>6. /\ Left' = Head(buf).len /\ pc' \in {"idle", "payload", "header"}
        /\ outcome' = "ok" \/ outcome' = outcome
    BY <1>4, <1>5, LoopLeft
  <1>7. ~ upset => Framed(Left, Stream)
    BY <1>1 DEF Framing
  <1>8. ~ upset => Framed(Left', Stream')
    BY <1>1, <1>3, <1>6, <1>7, TakenFramed
  <1> QED BY <1>2, <1>3, <1>6, <1>8, FramingElsewhere DEF Cleared

LEMMA MismatchFraming ==
  ASSUME Base, Framing, Mismatch
  PROVE  Framing'
  <1>1. /\ pc = "header" /\ buf # <<>> /\ buf' = Tail(buf) /\ UNCHANGED <<net, queries>>
        /\ skip' = Head(buf).len /\ pc' = IF Head(buf).len > 0 THEN "flush" ELSE "header"
        /\ outcome' = outcome
    BY DEF Mismatch, Ready
  <1>2. upset' = upset
    BY Zenon DEF Mismatch
  <1>3. outcome # "broken" /\ Left = 0
    BY <1>1 DEF Base, Controlled, Left
  <1>4. ~ upset => Framed(Left, Stream)
    BY <1>1 DEF Framing
  <1>5. ASSUME Head(buf).len \in Nat PROVE Left' = Head(buf).len
    BY <1>1, <1>5 DEF Left
  <1>6. ~ upset => Framed(Left', Stream')
    BY <1>1, <1>3, <1>4, <1>5, TakenFramed
  <1> QED BY <1>1, <1>2, <1>3, <1>6, FramingElsewhere DEF Cleared

LEMMA FlushFraming ==
  ASSUME Base, Framing, Flush
  PROVE  Framing'
  <1>1. /\ pc = "flush" /\ buf # <<>> /\ buf' = Tail(buf) /\ UNCHANGED <<net, queries>>
        /\ skip' = skip - 1 /\ pc' = IF skip = 1 THEN "header" ELSE "flush"
        /\ outcome' = outcome
    BY DEF Flush, Ready
  <1>2. upset' = upset
    BY Zenon DEF Flush
  <1>3. outcome # "broken" /\ Left = skip /\ skip \in Nat \ {0}
    <2>1. skip \in Nat /\ (pc = "flush" <=> (skip > 0 /\ pc # "await")) /\ outcome # "broken"
      BY <1>1 DEF Base, Controlled, ClientTypes, Counting
    <2>2. Left = skip
      BY <1>1 DEF Left
    <2> QED BY <1>1, <2>1, <2>2
  <1>4. ~ upset => Framed(Left, Stream)
    BY <1>1 DEF Framing
  <1>5. Left' = skip - 1
    BY <1>1, <1>3 DEF Left
  <1>6. ~ upset => Framed(Left', Stream')
    BY <1>1, <1>3, <1>4, <1>5, TakenFramed
  <1> QED BY <1>1, <1>2, <1>3, <1>6, FramingElsewhere DEF Cleared

LEMMA BadHeaderFraming ==
  ASSUME Base, Framing, BadHeader
  PROVE  Framing'
  <1>1. /\ pc = "header" /\ buf # <<>> /\ buf' = Tail(buf) /\ UNCHANGED <<net, queries>>
        /\ Head(buf).kind = "unit" /\ pc' = "idle"
    BY DEF BadHeader, Ready, Broken, Raises
  <1>2. upset' = upset
    BY Zenon DEF BadHeader
  <1>3. Left = 0
    BY <1>1 DEF Left
  <1>4. upset
    <2>1. ASSUME ~ upset PROVE FALSE
      <3>1. Framed(Left, Stream)
        BY <1>1, <2>1 DEF Framing
      <3>2. IsHeader(Head(buf))
        BY <1>1, <1>3, <3>1, TakenFramed
      <3> QED BY <1>1, <3>2 DEF IsHeader
    <2> QED BY <2>1
  <1> QED BY <1>1, <1>2, <1>4, FramingElsewhere DEF Cleared

LEMMA PayloadFraming ==
  ASSUME Base, Framing, Payload
  PROVE  Framing'
  <1> DEFINE request == Least(payloadRemaining, count - Len(got))
  <1>1. /\ pc = "payload" /\ buf # <<>> /\ buf' = Tail(buf) /\ UNCHANGED <<net, queries>>
    BY DEF Payload, Ready
  <1>2. upset' = upset
    BY Zenon DEF Payload
  <1>3. ChannelTypes /\ ClientTypes /\ Counting /\ outcome # "broken"
    BY <1>1 DEF Base, Controlled
  <1>4. /\ Filled \in Seq(Items) /\ Len(Filled) = Len(part) + 1
        /\ got \o Filled \in Seq(Items) /\ Len(got \o Filled) = Len(got) + Len(Filled)
        /\ Len(got) \in Nat /\ Len(part) \in Nat
    BY <1>1, <1>3, FilledItems
  <1>5. /\ payloadRemaining \in Nat /\ count \in Nat
        /\ Len(part) < payloadRemaining /\ Len(part) < count - Len(got)
    BY <1>1, <1>3 DEF ClientTypes, Counting
  <1>6. request \in Nat /\ request <= payloadRemaining /\ payloadRemaining - request \in Nat
        /\ Len(Filled) <= request
    BY <1>4, <1>5 DEF Least
  <1>7. Left = payloadRemaining - Len(part) /\ Left # 0
    <2>1. Left = payloadRemaining - Len(part)
      BY <1>1 DEF Left
    <2> QED BY <1>4, <1>5, <2>1
  <1> HIDE DEF request
  <1>8. /\ Left' = payloadRemaining - Len(part) - 1
        /\ pc' \in {"idle", "payload", "header"} /\ (outcome' = "ok" \/ outcome' = outcome)
    <2>1. CASE Len(Filled) = request
      <3> DEFINE all == got \o Filled
      <3>1. Loop(count, all, payloadRemaining - request, msgType)
        BY <2>1 DEF Payload, request
      <3>2. Len(all) \in Nat
        BY <1>4, <1>6, <2>1
      <3> HIDE DEF all
      <3>3. Looped(count, all, payloadRemaining - request, msgType)
        BY <1>5, <1>6, <3>1, <3>2, LoopFacts
      <3>4. /\ Left' = payloadRemaining - request /\ pc' \in {"idle", "payload", "header"}
            /\ outcome' = "ok" \/ outcome' = outcome
        BY <1>6, <3>3, LoopLeft
      <3>5. payloadRemaining - request = payloadRemaining - Len(part) - 1
        BY <1>4, <1>5, <1>6, <2>1
      <3> QED BY <3>4, <3>5
    <2>2. CASE Len(Filled) # request
      <3>1. part' = Filled /\ UNCHANGED <<payloadRemaining, pc, outcome>>
        BY <2>2 DEF Payload, request
      <3>2. Left' = payloadRemaining - Len(Filled)
        BY <1>1, <3>1 DEF Left
      <3>3. payloadRemaining - Len(Filled) = payloadRemaining - Len(part) - 1
        BY <1>4, <1>5
      <3> QED BY <1>1, <3>1, <3>2, <3>3
    <2> QED BY <2>1, <2>2
  <1>9. ~ upset => Framed(Left', Stream')
    <2>1. ~ upset => Framed(Left, Stream)
      BY <1>1 DEF Framing
    <2> QED BY <1>1, <1>7, <1>8, <2>1, TakenFramed
  <1> QED BY <1>2, <1>3, <1>8, <1>9, FramingElsewhere DEF Cleared

LEMMA ReadTimeoutFraming ==
  ASSUME Base, Framing, ReadTimeout
  PROVE  Framing'
  <1>1. /\ pc \in Reception /\ pc' = "idle" /\ outcome' = "timeout"
        /\ payloadRemaining' = payloadRemaining /\ UNCHANGED <<buf, net>>
    BY DEF ReadTimeout, Receiving, Reception, ids, chan
  <1>2. ~ upset' => ~ upset /\ got = <<>> /\ part = <<>> /\ ~ (skip > 0)
    BY Zenon DEF ReadTimeout, Upset
  <1>3. ASSUME ~ upset'
        PROVE  Left = payloadRemaining
    <2>1. /\ payloadRemaining \in Nat /\ Len(part) = 0
          /\ pc = "header" => payloadRemaining = 0
          /\ pc = "flush" => skip > 0
      BY <1>2, <1>3 DEF Base, ClientTypes, Counting
    <2>2. pc \in {"header", "payload"}
      BY <1>1, <1>2, <1>3, <2>1 DEF Reception
    <2> QED BY <2>1, <2>2 DEF Left
  <1>4. Left' = payloadRemaining /\ Stream' = Stream
    BY <1>1 DEF Left, Stream
  <1>5. ~ upset' => Framed(Left', Stream')
    <2>1. ~ upset => Framed(Left, Stream)
      BY <1>1 DEF Framing, Reception
    <2> QED BY <1>2, <1>3, <1>4, <2>1
  <1> QED BY <1>1, <1>5, FramingElsewhere DEF Cleared

LEMMA InterruptedFraming ==
  ASSUME Base, Framing, Interrupted
  PROVE  Framing'
  <1>1. pc \in Reception /\ pc' = "drain" /\ outcome' = outcome
    BY DEF Interrupted, Receiving, Reception
  <1>2. upset' = upset
    BY Zenon DEF Interrupted
  <1>3. outcome # "broken"
    BY <1>1 DEF Base, Controlled, Reception
  <1> QED BY <1>1, <1>2, <1>3, FramingElsewhere DEF Cleared

LEMMA DrainFraming ==
  ASSUME Base, Framing, Drain
  PROVE  Framing'
  <1>1. pc = "drain" /\ pc' = "async clear" /\ outcome' = outcome /\ buf' = <<>> /\ net' = net
    BY DEF Drain
  <1>2. ~ upset' => net = <<>>
    BY Zenon DEF Drain, Upset
  <1>3. outcome # "broken"
    BY <1>1 DEF Base, Controlled
  <1>4. ~ upset' => Stream' = <<>>
    <2>1. <<>> \in Seq(Items) /\ <<>> \o <<>> = <<>>
      BY ConcatEmptySeq
    <2> QED BY <1>1, <1>2, <2>1 DEF Stream
  <1>5. Left' = 0
    BY <1>1 DEF Left
  <1>6. ~ upset' => Framed(Left', Stream')
    BY <1>4, <1>5, FramedNothing
  <1> QED BY <1>1, <1>3, <1>6, FramingElsewhere DEF Cleared

LEMMA SendFraming ==
  ASSUME Base, Framing, (\E n \in 1..2 : Write(n)) \/ Trigger
  PROVE  Framing'
  <1>1. /\ pc = "idle" /\ pc' = "idle" /\ outcome' = "none" /\ payloadRemaining' = 0
        /\ UNCHANGED <<buf, net>>
    BY DEF Write, Trigger, Send, SetLastMessageId, Idle, chan
  <1>2. ~ upset' => ~ upset /\ ~ (payloadRemaining > 0)
    BY Zenon DEF Write, Trigger, Upset
  <1>3. payloadRemaining \in Nat
    BY DEF Base, ClientTypes
  <1>4. Left = payloadRemaining /\ Left' = 0 /\ Stream' = Stream
    BY <1>1 DEF Left, Stream
  <1>5. ~ upset => Framed(Left, Stream)
    BY <1>1 DEF Framing
  <1>6. ~ upset' => Framed(Left', Stream')
    <2>1. ~ upset' => Left = 0
      BY <1>2, <1>3, <1>4
    <2> QED BY <1>2, <1>4, <1>5, <2>1
  <1> QED BY <1>1, <1>6, FramingElsewhere DEF Cleared

LEMMA TransactionFraming ==
  ASSUME Base, Framing, StatusQuery \/ OtherTransaction
  PROVE  Framing'
  <1>1. /\ pc = "idle" /\ pc' = "idle" /\ payloadRemaining' = payloadRemaining
        /\ UNCHANGED <<buf, net>>
    BY DEF StatusQuery, OtherTransaction, Transaction, Idle, ids, chan
  <1>2. upset' = upset
    BY Zenon DEF StatusQuery, OtherTransaction, Transaction
  <1>3. outcome' # "broken"
    BY DEF StatusQuery, OtherTransaction, Transaction, TakesLate
  <1>4. Left = payloadRemaining /\ Left' = payloadRemaining /\ Stream' = Stream
    BY <1>1 DEF Left, Stream
  <1>5. ~ upset => Framed(Left, Stream)
    BY <1>1 DEF Framing
  <1> QED BY <1>1, <1>2, <1>3, <1>4, <1>5, FramingElsewhere DEF Cleared

LEMMA LateAnswerFraming ==
  ASSUME LateAnswer
  PROVE  Framing'
  <1>1. upset' /\ pc' = "idle"
    BY Zenon DEF LateAnswer, Upset, Raises
  <1> QED BY <1>1, FramingElsewhere DEF Cleared

LEMMA NoAcknowledgementFraming ==
  ASSUME NoAcknowledgement
  PROVE  Framing'
  <1>1. upset' /\ pc' = "idle"
    BY Zenon DEF NoAcknowledgement, Upset
  <1> QED BY <1>1, FramingElsewhere DEF Cleared

LEMMA CarryOutFraming ==
  ASSUME Base, Astray, Warned, Framing, CarryOut
  PROVE  Framing'
  <1>1. upset
    BY CarryOutFacts, Zenon DEF Warned
  <1>2. upset'
    BY <1>1, Zenon DEF CarryOut
  <1>3. UNCHANGED <<pc, outcome>>
    BY DEF CarryOut, io
  <1> QED BY <1>2 DEF Framing

LEMMA TerminateClearFraming ==
  ASSUME Base, Framing, TerminateClear
  PROVE  Framing'
  <1>1. CASE LateAnswer
    BY <1>1, LateAnswerFraming
  <1>3. CASE NoAcknowledgement
    BY <1>3, NoAcknowledgementFraming
  <1>2. CASE AsyncDeviceClear("await") /\ UNCHANGED upset
    <2>1. /\ pc = "async clear" /\ pc' = "await" /\ skip' = skip /\ outcome' = outcome
          /\ UNCHANGED <<buf, net>> \/ Sent(<<Control("Interrupted")>>)
      BY <1>2 DEF TerminateClear, AsyncDeviceClear, ServerClears, chan
    <2>2. skip = 0 /\ outcome # "broken"
      <3>1. skip \in Nat /\ (pc = "flush" <=> (skip > 0 /\ pc # "await")) /\ outcome # "broken"
        BY <2>1 DEF Base, Counting, ClientTypes, Controlled
      <3>2. pc # "flush" /\ pc # "await"
        BY <2>1
      <3> QED BY ONLY <3>1, <3>2
    <2>3. Left = 0 /\ Left' = 0
      BY <2>1, <2>2 DEF Left
    <2>4. ~ upset => Framed(0, Stream)
      BY <2>1, <2>3 DEF Framing
    <2>5. ~ upset => Framed(0, Stream')
      <3>1. CASE UNCHANGED <<buf, net>>
        BY <2>4, <3>1 DEF Stream
      <3>2. CASE Sent(<<Control("Interrupted")>>)
        <4> DEFINE u == <<Control("Interrupted")>>
        <4>1. u \in Seq(Items) /\ Framed(0, u)
          BY ControlItems, FramedMark
        <4>2. Sent(u)
          BY <3>2
        <4> HIDE DEF u
        <4>3. Stream \in Seq(Items) /\ Stream' \in Seq(Items) /\ Longer(Stream, u, Stream')
          <5>1. buf' \in Seq(Items) /\ net' \in Seq(Items) /\ Longer(Stream, u, Stream')
            BY <4>1, <4>2, SendMore DEF Base
          <5> QED BY <5>1, StreamTypes DEF Base, Stream
        <4> QED BY <2>4, <4>1, <4>3, FramedLonger
      <3> QED BY <2>1, <3>1, <3>2
    <2>6. upset' = upset
      BY <1>2, Zenon
    <2> QED BY <2>1, <2>2, <2>3, <2>5, <2>6, FramingElsewhere DEF Cleared
  <1> QED BY <1>1, <1>2, <1>3 DEF TerminateClear

LEMMA AwaitInterruptedFraming ==
  ASSUME Base, Warned, Framing, AwaitInterrupted
  PROVE  Framing'
  <1>1. /\ pc = "await" /\ buf # <<>> /\ buf' = Tail(buf) /\ UNCHANGED <<net, queries>>
        /\ payloadRemaining' = payloadRemaining
    BY DEF AwaitInterrupted, ids
  <1>2. upset' = upset
    BY Zenon DEF AwaitInterrupted
  <1>3. outcome # "broken" /\ Left = skip /\ skip \in Nat
    <2>1. skip \in Nat /\ outcome # "broken"
      BY <1>1 DEF Base, Controlled, ClientTypes
    <2> QED BY <1>1, <2>1 DEF Left
  <1>4. ~ upset => Framed(Left, Stream)
    BY <1>1 DEF Framing
  <1>5. CASE skip = 0 /\ Head(buf).kind = "unit"
    <2>1. pc' = "idle"
      BY <1>5 DEF AwaitInterrupted, Broken, Raises
    <2>2. ~ upset => IsHeader(Head(buf))
      BY <1>1, <1>3, <1>4, <1>5, TakenFramed
    <2>3. upset
      BY <1>5, <2>2 DEF IsHeader
    <2> QED BY <1>2, <2>1, <2>3, FramingElsewhere DEF Cleared
  <1>6. CASE ~ (skip = 0 /\ Head(buf).kind = "unit")
    <2>1. /\ skip' = (IF skip > 0 THEN skip - 1 ELSE Head(buf).len)
          /\ pc' = (IF skip = 0 /\ Head(buf).type = "Interrupted" THEN "complete" ELSE pc)
          /\ outcome' = outcome
      BY <1>6 DEF AwaitInterrupted
    <2>2. ~ upset => Framed(skip', Stream')
      <3>1. skip > 0 <=> skip # 0
        BY <1>3
      <3> QED BY <1>1, <1>3, <1>4, <2>1, <3>1, TakenFramed
    <2>3. CASE pc' = "await"
      <3>1. Left' = skip'
        BY <2>3 DEF Left
      <3> QED BY <1>2, <1>3, <2>1, <2>2, <2>3, <3>1, FramingElsewhere DEF Cleared
    <2>4. CASE pc' # "await"
      <3>1. skip = 0 /\ Head(buf).type = "Interrupted" /\ pc' = "complete"
        BY <1>1, <2>1, <2>4
      <3>2. /\ Stream \in Seq(Items) /\ Stream' \in Seq(Items) /\ Shorter(Stream, Stream')
            /\ Head(buf) = Stream[1] /\ Head(buf) \in Items /\ 1 \in 1..Len(Stream)
            /\ ~ unacknowledged => MarksLast(Stream, "await")
        BY <1>1, <1>3, TakenChannel DEF Base, Controlled
      <3>3. IsControl(Stream[1], "Interrupted")
        BY <1>6, <3>1, <3>2, ItemTypes DEF IsControl, IsUnit
      <3>5. ASSUME ~ upset PROVE Stream' = <<>>
        <4>1. 1 = Len(Stream)
          BY <3>2, <3>3, <3>5 DEF MarksLast, Warned
        <4>2. Len(Stream') = 0
          <5>1. Len(Stream') = Len(Stream) - 1
            BY <3>2 DEF Shorter
          <5> QED BY ONLY <4>1, <5>1
        <4> QED BY <3>2, <4>2, EmptySeq
      <3>6. Left' = 0
        BY <3>1 DEF Left
      <3>7. ~ upset => Framed(Left', Stream')
        BY <3>5, <3>6, FramedNothing
      <3> QED BY <1>2, <1>3, <2>1, <3>1, <3>5, <3>7 DEF Framing
    <2> QED BY <2>3, <2>4
  <1> QED BY <1>5, <1>6

LEMMA AwaitTimeoutFraming ==
  ASSUME Base, Framing, AwaitTimeout
  PROVE  Framing'
  <1>1. /\ pc = "await" /\ pc' = "complete" /\ outcome' = outcome
        /\ buf = <<>> /\ buf' = buf /\ net' = net
    BY DEF AwaitTimeout, chan
  <1>2. ~ upset' => ~ upset /\ net = <<>>
    BY Zenon DEF AwaitTimeout, Upset
  <1>3. outcome # "broken"
    BY <1>1 DEF Base, Controlled
  <1>4. ~ upset' => Stream' = <<>>
    <2>1. <<>> \in Seq(Items) /\ <<>> \o <<>> = <<>>
      BY ConcatEmptySeq
    <2> QED BY <1>1, <1>2, <2>1 DEF Stream
  <1>5. Left' = 0
    BY <1>1 DEF Left
  <1>6. ~ upset' => Framed(Left', Stream')
    BY <1>4, <1>5, FramedNothing
  <1> QED BY <1>1, <1>3, <1>4, <1>6 DEF Framing

(* The acknowledgement comes alone.                                        *)
LEMMA AcknowledgeAlone ==
  ASSUME ChannelTypes, Stream = <<>>, Sent(<<Control("DeviceClearAcknowledge")>>)
  PROVE  Stream' = <<Control("DeviceClearAcknowledge")>> /\ Framed(0, Stream')
  <1> DEFINE u == <<Control("DeviceClearAcknowledge")>>
  <1>1. u \in Seq(Items) /\ Framed(0, u)
    BY ControlItems, FramedMark
  <1>2. Sent(u)
    OBVIOUS
  <1> HIDE DEF u
  <1>3. buf = <<>> /\ net = <<>> /\ u \o <<>> = u /\ <<>> \o u = u /\ <<>> \in Seq(Items)
    BY <1>1, StreamTypes, ConcatEmptySeq
  <1>4. Stream' = u
    BY <1>2, <1>3 DEF Sent, Stream
  <1> QED BY <1>1, <1>4 DEF u

LEMMA DeviceClearCompleteFraming ==
  ASSUME Base, Framing, TerminateComplete \/ ClearComplete
  PROVE  Framing'
  <1>1. /\ pc \in {"complete", "clear"} /\ pc' \in {"acknowledge", "cleared"}
        /\ pc' = "cleared" => pc = "clear"
        /\ Sent(<<Control("DeviceClearAcknowledge")>>) \/ UNCHANGED <<buf, net>>
        /\ outcome' = outcome /\ tpc' = tpc /\ payloadRemaining' = payloadRemaining
    BY DEF TerminateComplete, ClearComplete, DeviceClearComplete, ids, term, astray
  <1>2. upset' = upset /\ cancel' = cancel
    BY Zenon DEF TerminateComplete, ClearComplete, DeviceClearComplete
  <1>3. outcome # "broken" /\ ChannelTypes
    BY <1>1 DEF Base, Controlled
  <1>4. ~ upset => Stream = <<>> /\ (pc = "clear" => ~ cancel /\ tpc # "cancel" /\ payloadRemaining = 0)
    BY <1>1 DEF Framing
  <1>5. Stream = <<>> =>
           /\ Stream' = <<>> \/ Stream' = <<Control("DeviceClearAcknowledge")>>
           /\ Framed(0, Stream')
    <2>1. CASE UNCHANGED <<buf, net>>
      BY <2>1, FramedNothing DEF Stream
    <2> QED BY <1>1, <1>3, <2>1, AcknowledgeAlone
  <1>6. Left' = 0
    BY <1>1 DEF Left
  <1>7. pc' \notin {"complete", "clear"}
    BY <1>1
  <1>8. pc' = "cleared" => (cancel' = cancel /\ pc = "clear")
    BY <1>1, <1>2, Zenon
  <1>9. (~ upset' /\ pc' = "cleared") => ~ cancel' /\ tpc' # "cancel" /\ payloadRemaining' = 0
    BY <1>1, <1>2, <1>4, Zenon
  <1>10. ~ upset' => ~ upset
    BY <1>2, Zenon
  <1> QED BY <1>1, <1>3, <1>4, <1>5, <1>6, <1>7, <1>9, <1>10 DEF Framing

LEMMA OneItem ==
  ASSUME ChannelTypes, NEW x \in Items, Stream = <<x>>, buf # <<>>
  PROVE  Head(buf) = x
  <1>1. Longer(buf, net, Stream) /\ buf \in Seq(Items)
    BY StreamTypes DEF ChannelTypes
  <1>2. 1 \in 1..Len(buf) /\ Head(buf) = buf[1]
    BY <1>1
  <1>3. Stream[1] = buf[1]
    BY <1>1, <1>2 DEF Longer
  <1> QED BY <1>2, <1>3

LEMMA EndFraming ==
  ASSUME Base, Warned, Framing, TerminateEnd \/ ClearEnd
  PROVE  Framing'
  <1>1. /\ pc \in {"acknowledge", "cleared"} /\ pc' = "idle" /\ UNCHANGED <<net, queries>>
        /\ pc = "acknowledge" => buf # <<>> /\ buf' = Tail(buf)
        /\ (pc = "cleared" /\ ~ cancel) => buf # <<>> /\ buf' = Tail(buf)
    BY DEF TerminateEnd, ClearEnd, Broken, Raises
  <1>2. upset' = upset
    BY Zenon DEF TerminateEnd, ClearEnd
  <1>3. ChannelTypes /\ outcome # "broken" /\ (~ upset => MarksLast(Stream, pc))
    BY <1>1 DEF Base, Controlled, Warned
  <1>4. CASE upset
    BY <1>1, <1>2, <1>4, FramingElsewhere DEF Cleared
  <1>5. CASE ~ upset
    <2>9. pc = "cleared" => ~ cancel /\ payloadRemaining = 0
      BY <1>1, <1>5 DEF Framing
    <2>2. buf # <<>> /\ buf' = Tail(buf)
      BY <1>1, <2>9
    <2>1. /\ Stream = <<Control("DeviceClearAcknowledge")>>
          /\ pc = "cleared" => ~ cancel /\ payloadRemaining = 0
      <3>1. Stream = <<>> \/ Stream = <<Control("DeviceClearAcknowledge")>>
        BY <1>1, <1>5 DEF Framing
      <3>2. Stream # <<>>
        BY <1>3, <2>2, StreamTypes
      <3> QED BY <2>9, <3>1, <3>2
    <2>3. Head(buf) = Control("DeviceClearAcknowledge")
      BY <1>3, <2>1, <2>2, OneItem, ControlItems
    <2>4. Acknowledged
      BY <2>3 DEF Acknowledged, Control, Header
    <2>5. Stream' = <<>>
      BY <1>1, <1>3, <1>5, <2>2, <2>4, AcknowledgedLast
    <2>6. outcome' # "broken" /\ payloadRemaining' = 0
      <3>1. CASE TerminateEnd
        BY <2>4, <3>1 DEF TerminateEnd, ResetAll
      <3>2. CASE ClearEnd
        <4>1. pc = "cleared"
          BY <3>2 DEF ClearEnd
        <4>2. outcome' = "cleared" /\ payloadRemaining' = payloadRemaining
          BY <2>1, <2>4, <3>2, <4>1 DEF ClearEnd
        <4> QED BY <2>1, <4>1, <4>2
      <3> QED BY <3>1, <3>2
    <2>7. Left' = 0
      BY <1>1, <2>6 DEF Left
    <2>8. Framed(Left', Stream')
      BY <2>5, <2>7, FramedNothing
    <2> QED BY <1>1, <2>6, <2>8, FramingElsewhere DEF Cleared
  <1> QED BY <1>4, <1>5

LEMMA ClearFraming ==
  ASSUME Base, Framing, Clear
  PROVE  Framing'
  <1>1. CASE LateAnswer
    BY <1>1, LateAnswerFraming
  <1>3. CASE NoAcknowledgement
    BY <1>3, NoAcknowledgementFraming
  <1>2. CASE /\ AsyncDeviceClear("clear")
             /\ Upset(buf' # <<>> \/ net' # <<>> \/ cancel \/ tpc = "cancel")
    <2>1. /\ pc = "idle" /\ outcome # "broken" /\ pc' = "clear" /\ outcome' = outcome /\ tpc' = tpc
          /\ payloadRemaining' = payloadRemaining
          /\ UNCHANGED <<buf, net>> \/ Sent(<<Control("Interrupted")>>)
      BY <1>2 DEF Clear, Idle, AsyncDeviceClear, ServerClears, ids, chan
    <2>2. ~ upset' => ~ upset /\ buf' = <<>> /\ net' = <<>> /\ ~ cancel /\ tpc # "cancel"
      BY <1>2, Zenon DEF Upset
    <2>3. cancel' = cancel
      BY <1>2, Zenon DEF AsyncDeviceClear
    <2>4. ASSUME ~ upset'
          PROVE  Stream' = <<>> /\ payloadRemaining = 0
      <3>1. buf' = <<>> /\ net' = <<>> /\ ~ upset
        BY <2>2, <2>4
      <3>2. Stream' = <<>>
        <4>1. <<>> \in Seq(Items) /\ <<>> \o <<>> = <<>>
          BY ConcatEmptySeq
        <4> QED BY <3>1, <4>1 DEF Stream
      <3>3. Stream = <<>>
        <4>1. CASE UNCHANGED <<buf, net>>
          BY <3>2, <4>1 DEF Stream
        <4>2. CASE Sent(<<Control("Interrupted")>>)
          <5>1. Len(Stream) \in Nat /\ Len(Stream') = Len(Stream) + 1
            BY <4>2, MarkSent DEF Base
          <5>2. Len(Stream') = 0
            BY <3>2
          <5> QED BY <5>1, <5>2
        <4> QED BY <2>1, <4>1, <4>2
      <3>4. Framed(payloadRemaining, Stream)
        BY <2>1, <3>1 DEF Framing, Left
      <3> QED BY <3>2, <3>3, <3>4, FramedNothing
    <2>5. Left' = 0
      BY <2>1 DEF Left
    <2>6. ~ upset' => Framed(Left', Stream')
      BY <2>4, <2>5, FramedNothing
    <2>7. ~ upset' => ~ cancel' /\ tpc' # "cancel" /\ payloadRemaining' = 0
      BY <2>1, <2>2, <2>3, <2>4, Zenon
    <2> QED BY <2>1, <2>4, <2>6, <2>7 DEF Framing
  <1> QED BY <1>1, <1>2, <1>3 DEF Clear

LEMMA StillFraming ==
  ASSUME Framing, UNCHANGED <<pc, outcome, payloadRemaining, part, skip>>, upset' => upset,
         upset => upset',
         pc \notin Cleared \/ (Stream' = Stream /\ tpc' = tpc /\ (cancel' => cancel)),
         \A k : Framed(k, Stream) => Framed(k, Stream')
  PROVE  Framing'
  <1>1. Left' = Left
    BY DEF Left
  <1>2. CASE pc \notin Cleared
    BY <1>1, <1>2, FramingElsewhere DEF Framing
  <1>3. CASE Stream' = Stream /\ tpc' = tpc /\ (cancel' => cancel)
    BY <1>1, <1>3 DEF Framing
  <1> QED BY <1>2, <1>3

LEMMA AnswerFraming ==
  ASSUME Base, Warned, Framing, NEW shape \in Shapes, Answer(shape)
  PROVE  Framing'
  <1> DEFINE q == Head(queries)
             r == Response(q, shape)
  <1>1. UNCHANGED <<pc, outcome, payloadRemaining, part, skip>>
    BY DEF Answer, ids, io
  <1>2. upset' = upset
    BY Zenon DEF Answer
  <1>3. /\ queries # <<>> /\ q \in [id : Nat, tag : Nat]
        /\ Stream \in Seq(Items) /\ Stream' \in Seq(Items)
        /\ r \in Seq(Items) /\ Longer(Stream, r, Stream') /\ Answers(r, q, shape)
    BY AnswerFacts DEF Base
  <1> HIDE DEF q, r
  <1>4. Framed(0, r)
    BY <1>3, FramedResponse
  <1>5. \A k : Framed(k, Stream) => Framed(k, Stream')
    BY <1>3, <1>4, FramedLonger
  <1>6. ~ unacknowledged => pc \notin Cleared
    BY <1>3 DEF Base, Controlled, Cleared, Clearing
  <1>7. CASE upset
    BY <1>1, <1>2, <1>7 DEF Framing
  <1>8. CASE ~ upset
    <2>1. pc \notin Cleared
      BY <1>6, <1>8, Zenon DEF Warned
    <2> QED BY <1>1, <1>2, <1>5, <2>1, StillFraming
  <1> QED BY <1>7, <1>8

LEMMA QuietFraming ==
  ASSUME Base, Receptive, Framing,
         Arrive \/ TerminateTest \/ TerminateCancel \/ Unsolicited \/ UNCHANGED vars
  PROVE  Framing'
  <1>1. UNCHANGED <<pc, outcome, payloadRemaining, part, skip>>
    BY DEF Arrive, TerminateTest, TerminateCancel, Unsolicited, vars, ids, io
  <1>2. upset' = upset
    BY Zenon DEF Arrive, TerminateTest, TerminateCancel, Unsolicited, vars
  <1>3. Stream' = Stream
    <2>1. CASE Arrive
      BY <2>1, ArriveKeeps DEF Base
    <2>2. CASE TerminateTest \/ TerminateCancel \/ Unsolicited \/ UNCHANGED vars
      BY <2>2 DEF TerminateTest, TerminateCancel, Unsolicited, vars, chan, Stream
    <2> QED BY <2>1, <2>2
  <1>4. CASE TerminateTest
    <2>1. pc \in Reception
      BY <1>4, Zenon DEF TerminateTest, Receptive
    <2>2. pc \notin Cleared
      BY <2>1 DEF Reception, Cleared
    <2> QED BY <1>1, <1>2, <1>3, <2>2, StillFraming
  <1>5. CASE TerminateCancel
    <2>1. upset \/ pc \notin {"clear", "cleared"}
      BY <1>5 DEF TerminateCancel, Framing
    <2>2. Left' = Left
      BY <1>1 DEF Left
    <2> QED BY <1>1, <1>2, <1>3, <2>1, <2>2 DEF Framing
  <1>6. CASE Arrive \/ Unsolicited \/ UNCHANGED vars
    <2>1. tpc' = tpc
      BY <1>6 DEF Arrive, Unsolicited, vars, term, astray
    <2>2. cancel' = cancel
      BY <1>6, Zenon DEF Arrive, Unsolicited, vars
    <2>3. cancel' => cancel
      BY <2>2, Zenon
    <2> QED BY <1>1, <1>2, <1>3, <2>1, <2>3, StillFraming
  <1> QED BY <1>4, <1>5, <1>6

LEMMA FramingInit == Init => Warned /\ Framing /\ Receptive
  <1> SUFFICES ASSUME Init PROVE Warned /\ Framing /\ Receptive
    OBVIOUS
  <1>1. Stream = <<>>
    <2>1. ChannelTypes
      BY BaseInit DEF Base
    <2> QED BY <2>1, StreamTypes DEF Init
  <1>2. pc = "idle" /\ payloadRemaining = 0 /\ outcome = "none"
    BY DEF Init, NewInstrument
  <1>3. Framed(Left, Stream)
    BY <1>1, <1>2, FramedNothing DEF Left
  <1>4. Framing
    BY <1>2, <1>3 DEF Framing
  <1>5. Receptive
    BY Zenon DEF Init, NewInstrument, Receptive
  <1>6. Warned
    BY Zenon DEF Init, Warned
  <1> QED BY <1>4, <1>5, <1>6

LEMMA FramingNext ==
  ASSUME Base, Astray, Warned, Receptive, Framing, [Next]_vars
  PROVE  Framing'
  <1>1. CASE (\E n \in 1..2 : Write(n)) \/ Trigger
    BY <1>1, SendFraming
  <1>2. CASE Clear
    BY <1>2, ClearFraming
  <1>3. CASE StatusQuery \/ OtherTransaction
    BY <1>3, TransactionFraming
  <1>4. ASSUME NEW n \in Counts, BeginRead(n) PROVE Framing'
    BY <1>4, BeginReadFraming
  <1>5. CASE ReceiveStep
    BY <1>5, NextDataHeaderFraming, MismatchFraming, FlushFraming, BadHeaderFraming,
       PayloadFraming, ReadTimeoutFraming, InterruptedFraming DEF ReceiveStep
  <1>6. CASE TerminateStep
    BY <1>6, DrainFraming, TerminateClearFraming, AwaitInterruptedFraming, AwaitTimeoutFraming,
       DeviceClearCompleteFraming, EndFraming, NoAcknowledgementFraming
       DEF TerminateStep, TerminateGivesUp
  <1>7. CASE ClearStep
    BY <1>7, DeviceClearCompleteFraming, EndFraming, NoAcknowledgementFraming
       DEF ClearStep, ClearGivesUp
  <1>8. CASE Arrive \/ TerminateTest \/ TerminateCancel \/ Unsolicited \/ UNCHANGED vars
    BY <1>8, QuietFraming
  <1>10. CASE CarryOut
    BY <1>10, CarryOutFraming
  <1>9. ASSUME NEW shape \in Shapes, Answer(shape) PROVE Framing'
    BY <1>9, AnswerFraming
  <1> QED BY <1>1, <1>2, <1>3, <1>4, <1>5, <1>6, <1>7, <1>8, <1>9, <1>10 DEF Next

(* As long as nothing has upset the client - a read cut short in the      *)
(* middle of a message, a partial read overwritten, a clear with something *)
(* unread or under way, a late answer in its way, or one that nobody       *)
(* acknowledged in time - it finds a message where it expects one, and the *)
(* one it expects: no call ends with a RuntimeError because of what is on  *)
(* the synchronous channel.  One that ends so because of the asynchronous  *)
(* channel leaves a late message there.                                    *)
THEOREM Never_broken == Spec => []NotBroken
  <1> DEFINE I == Base /\ Astray /\ Warned /\ Receptive /\ Framing
  <1>1. Init => I
    BY BaseInit, AstrayInit, FramingInit
  <1>2. I /\ [Next]_vars => I'
    BY BaseNext, AstrayNext, WarnedNext, ReceptiveNext, FramingNext
  <1>3. I => NotBroken
    BY DEF Framing, Astray, NotBroken
  <1> QED BY <1>1, <1>2, <1>3, PTL DEF Spec

-----------------------------------------------------------------------------
(* The response to the last write.  Its units come in turn, numbered on    *)
(* from what has been consumed of it; what the client reads into its       *)
(* buffer is of that response and what it flushes is not.                  *)
Reading == {"idle", "header", "payload", "flush"}

OwnUnit(x, w) == IsUnit(x) /\ x.tag = w

InTurn(s, w, c) ==
    /\ \A i \in 1..Len(s) :
          (OwnUnit(s[i], w) /\ \A j \in 1..i - 1 : ~ OwnUnit(s[j], w)) => s[i].no = c + 1
    /\ \A i \in 1..Len(s) : \A j \in i + 1..Len(s) :
          (/\ OwnUnit(s[i], w) /\ OwnUnit(s[j], w)
           /\ \A m \in i + 1..j - 1 : ~ OwnUnit(s[m], w)) => s[j].no = s[i].no + 1

Foreign(s, w) == \A i \in 1..Len(s) : s[i].tag # w

Consumed == returned + Len(got) + Len(part)

Collected(g, w, c) == \A k \in 1..Len(g) : g[k] = Unit(w, c + k)

Own(s, q, w, c) ==
    /\ InTurn(s, w, c)
    /\ \A i \in 1..Len(s) : s[i].tag <= w
    /\ \A i \in 1..Len(q) : q[i].tag = w => i = Len(q) /\ c = 0 /\ Foreign(s, w)

Ahead(here, s, w, k) ==
    /\ here \in {"idle", "payload"} => \A i \in 1..k : s[i].tag = w
    /\ here = "flush" => \A i \in 1..k : s[i].tag # w

OwnInv ==
    (~ upset /\ pc \in Reading) =>
        /\ Collected(got, writes, returned) /\ Collected(part, writes, returned + Len(got))
        /\ Own(Stream, queries, writes, Consumed)
        /\ Ahead(pc, Stream, writes, Left)

LEMMA InTurnShorter ==
  ASSUME NEW s \in Seq(Items), NEW t \in Seq(Items), NEW w \in Nat, NEW c \in Nat,
         Shorter(s, t), InTurn(s, w, c)
  PROVE  /\ ~ OwnUnit(s[1], w) => InTurn(t, w, c)
         /\ OwnUnit(s[1], w) => s[1] = Unit(w, c + 1) /\ InTurn(t, w, c + 1)
  <1>1. /\ Len(s) \in Nat \ {0} /\ Len(t) \in Nat /\ Len(t) = Len(s) - 1
        /\ \A i \in 1..Len(t) : t[i] = s[i + 1] /\ i + 1 \in 1..Len(s)
    BY DEF Shorter
  <1>2. ASSUME NEW i \in 1..Len(t), NEW j \in i + 1..Len(t), OwnUnit(t[i], w), OwnUnit(t[j], w),
               \A m \in i + 1..j - 1 : ~ OwnUnit(t[m], w)
        PROVE  t[j].no = t[i].no + 1
    <2>1. /\ j \in 1..Len(t) /\ i + 1 \in 1..Len(s) /\ j + 1 \in (i + 1) + 1..Len(s)
          /\ t[i] = s[i + 1] /\ t[j] = s[j + 1]
      BY <1>1
    <2>2. ASSUME NEW m \in (i + 1) + 1..(j + 1) - 1 PROVE ~ OwnUnit(s[m], w)
      <3>1. m - 1 \in i + 1..j - 1 /\ m - 1 \in 1..Len(t) /\ (m - 1) + 1 = m
        BY <1>1
      <3> QED BY <1>1, <1>2, <3>1
    <2> QED BY <1>2, <2>1, <2>2 DEF InTurn
  <1>3. ASSUME ~ OwnUnit(s[1], w) PROVE InTurn(t, w, c)
    <2>1. ASSUME NEW i \in 1..Len(t), OwnUnit(t[i], w), \A j \in 1..i - 1 : ~ OwnUnit(t[j], w)
          PROVE  t[i].no = c + 1
      <3>1. ASSUME NEW j \in 1..(i + 1) - 1 PROVE ~ OwnUnit(s[j], w)
        <4>1. j = 1 \/ (j - 1 \in 1..i - 1 /\ j - 1 \in 1..Len(t) /\ (j - 1) + 1 = j)
          BY <1>1
        <4> QED BY <1>1, <1>3, <2>1, <4>1
      <3>2. i + 1 \in 1..Len(s) /\ t[i] = s[i + 1]
        BY <1>1
      <3> QED BY <2>1, <3>1, <3>2 DEF InTurn
    <2> QED BY <1>2, <2>1 DEF InTurn
  <1>4. ASSUME OwnUnit(s[1], w) PROVE s[1] = Unit(w, c + 1) /\ InTurn(t, w, c + 1)
    <2>1. 1 \in 1..Len(s) /\ \A j \in 1..1 - 1 : ~ OwnUnit(s[j], w)
      BY <1>1
    <2>2. s[1].no = c + 1
      BY <1>4, <2>1 DEF InTurn
    <2>3. s[1] = Unit(w, c + 1)
      <3>1. s[1] \in Items /\ s[1].kind = "unit" /\ s[1].tag = w
        BY <1>4, <2>1 DEF OwnUnit, IsUnit
      <3>2. s[1] \in Units
        BY <3>1 DEF Items, DataHeaders, Controls, Control, Header
      <3> QED BY <2>2, <3>1, <3>2 DEF Units, Unit
    <2>4. ASSUME NEW i \in 1..Len(t), OwnUnit(t[i], w), \A j \in 1..i - 1 : ~ OwnUnit(t[j], w)
          PROVE  t[i].no = (c + 1) + 1
      <3>1. ASSUME NEW m \in 1 + 1..(i + 1) - 1 PROVE ~ OwnUnit(s[m], w)
        <4>1. m - 1 \in 1..i - 1 /\ m - 1 \in 1..Len(t) /\ (m - 1) + 1 = m
          BY <1>1
        <4> QED BY <1>1, <2>4, <4>1
      <3>2. i + 1 \in 1 + 1..Len(s) /\ t[i] = s[i + 1]
        BY <1>1
      <3>3. s[i + 1].no = s[1].no + 1
        BY <1>4, <2>1, <2>4, <3>1, <3>2 DEF InTurn
      <3> QED BY <2>2, <3>2, <3>3
    <2>5. InTurn(t, w, c + 1)
      BY <1>2, <2>4 DEF InTurn
    <2> QED BY <2>3, <2>5
  <1> QED BY <1>3, <1>4

(* What is of other messages does not matter ...                           *)
LEMMA InTurnForeign ==
  ASSUME NEW s \in Seq(Items), NEW u \in Seq(Items), NEW t \in Seq(Items), NEW w, NEW c,
         Longer(s, u, t), InTurn(s, w, c), Foreign(u, w)
  PROVE  InTurn(t, w, c)
  <1>1. /\ Len(s) \in Nat /\ Len(u) \in Nat /\ Len(t) \in Nat
        /\ \A i \in 1..Len(s) : i \in 1..Len(t) /\ t[i] = s[i]
        /\ \A i \in 1..Len(t) : i \in 1..Len(s) \/ (i - Len(s) \in 1..Len(u) /\ t[i] = u[i - Len(s)])
    BY LongerParts
  <1>2. \A i \in 1..Len(t) : OwnUnit(t[i], w) => i \in 1..Len(s)
    BY <1>1 DEF OwnUnit, Foreign
  <1>3. ASSUME NEW i \in 1..Len(t), OwnUnit(t[i], w), \A j \in 1..i - 1 : ~ OwnUnit(t[j], w)
        PROVE  t[i].no = c + 1
    <2>1. i \in 1..Len(s) /\ t[i] = s[i]
      BY <1>1, <1>2, <1>3
    <2>2. \A j \in 1..i - 1 : t[j] = s[j]
      BY <1>1, <2>1
    <2> QED BY <1>3, <2>1, <2>2 DEF InTurn
  <1>4. ASSUME NEW i \in 1..Len(t), NEW j \in i + 1..Len(t), OwnUnit(t[i], w), OwnUnit(t[j], w),
               \A m \in i + 1..j - 1 : ~ OwnUnit(t[m], w)
        PROVE  t[j].no = t[i].no + 1
    <2>1. i \in 1..Len(s) /\ j \in i + 1..Len(s) /\ t[i] = s[i] /\ t[j] = s[j]
      <3>1. j \in 1..Len(t)
        BY <1>1
      <3>2. i \in 1..Len(s) /\ j \in 1..Len(s)
        BY <1>2, <1>4, <3>1
      <3> QED BY <1>1, <3>2
    <2>2. \A m \in i + 1..j - 1 : t[m] = s[m]
      BY <1>1, <2>1
    <2> QED BY <1>4, <2>1, <2>2 DEF InTurn
  <1> QED BY <1>3, <1>4 DEF InTurn

(* ... and the response comes when nothing else of its write is there.     *)
LEMMA InTurnOwn ==
  ASSUME NEW s \in Seq(Items), NEW u \in Seq(Items), NEW t \in Seq(Items), NEW w, NEW c,
         Longer(s, u, t), InTurn(u, w, c), Foreign(s, w)
  PROVE  InTurn(t, w, c)
  <1>1. /\ Len(s) \in Nat /\ Len(u) \in Nat /\ Len(t) \in Nat /\ Len(t) = Len(s) + Len(u)
        /\ \A i \in 1..Len(s) : i \in 1..Len(t) /\ t[i] = s[i]
        /\ \A i \in 1..Len(u) : Len(s) + i \in 1..Len(t) /\ t[Len(s) + i] = u[i]
        /\ \A i \in 1..Len(t) : i \in 1..Len(s) \/ (i - Len(s) \in 1..Len(u) /\ t[i] = u[i - Len(s)])
    BY LongerParts
  <1>2. \A i \in 1..Len(t) :
           OwnUnit(t[i], w) => i - Len(s) \in 1..Len(u) /\ t[i] = u[i - Len(s)]
    BY <1>1 DEF OwnUnit, Foreign
  <1>3. ASSUME NEW i \in 1..Len(t), OwnUnit(t[i], w), \A j \in 1..i - 1 : ~ OwnUnit(t[j], w)
        PROVE  t[i].no = c + 1
    <2> DEFINE k == i - Len(s)
    <2>1. k \in 1..Len(u) /\ t[i] = u[k] /\ i = Len(s) + k
      BY <1>1, <1>2, <1>3
    <2> HIDE DEF k
    <2>2. ASSUME NEW j \in 1..k - 1 PROVE ~ OwnUnit(u[j], w)
      <3>1. j \in 1..Len(u) /\ Len(s) + j \in 1..i - 1
        BY <1>1, <2>1
      <3> QED BY <1>1, <1>3, <3>1
    <2> QED BY <1>3, <2>1, <2>2 DEF InTurn
  <1>4. ASSUME NEW i \in 1..Len(t), NEW j \in i + 1..Len(t), OwnUnit(t[i], w), OwnUnit(t[j], w),
               \A m \in i + 1..j - 1 : ~ OwnUnit(t[m], w)
        PROVE  t[j].no = t[i].no + 1
    <2> DEFINE k == i - Len(s)
               l == j - Len(s)
    <2>1. j \in 1..Len(t)
      BY <1>1
    <2>2. /\ k \in 1..Len(u) /\ t[i] = u[k] /\ i = Len(s) + k
          /\ l \in 1..Len(u) /\ t[j] = u[l] /\ j = Len(s) + l
      BY <1>1, <1>2, <1>4, <2>1
    <2> HIDE DEF k, l
    <2>3. l \in k + 1..Len(u)
      BY <1>1, <2>2
    <2>4. ASSUME NEW m \in k + 1..l - 1 PROVE ~ OwnUnit(u[m], w)
      <3>1. m \in 1..Len(u) /\ Len(s) + m \in i + 1..j - 1
        BY <1>1, <2>2
      <3> QED BY <1>1, <1>4, <3>1
    <2> QED BY <1>4, <2>2, <2>3, <2>4 DEF InTurn
  <1> QED BY <1>3, <1>4 DEF InTurn

LEMMA InTurnNothing ==
  ASSUME NEW s, NEW w, NEW c, Foreign(s, w)
  PROVE  InTurn(s, w, c)
  BY DEF InTurn, Foreign, OwnUnit

LEMMA InTurnResponse ==
  ASSUME NEW q \in [id : Nat, tag : Nat], NEW shape \in Shapes, NEW r, Answers(r, q, shape)
  PROVE  InTurn(r, q.tag, 0)
  <1> DEFINE a == shape[1]
  <1>1. /\ a \in Nat /\ Len(r) \in Nat /\ Len(shape) \in {1, 2}
        /\ Len(shape) = 1 => Len(r) = a + 1
    <2>1. Len(shape) = 1 => Second(shape) = 0
      BY DEF Second
    <2>2. a \in Nat /\ Second(shape) \in Nat /\ Len(shape) \in {1, 2}
      BY ShapeParts
    <2>3. Len(r) = a + 1 + Second(shape)
      BY DEF Answers
    <2> QED BY <2>1, <2>2, <2>3
  <1>2. ~ OwnUnit(r[1], q.tag)
    BY DEF Answers, Header, OwnUnit, IsUnit
  <1>3. \A i \in 2..a + 1 : r[i] = Unit(q.tag, i - 1)
    BY DEF Answers
  <1>4. Len(shape) = 2 => /\ ~ OwnUnit(r[a + 2], q.tag)
                          /\ \A i \in a + 3..Len(r) : r[i] = Unit(q.tag, i - 2)
    BY DEF Answers, Header, OwnUnit, IsUnit
  <1> HIDE DEF a
  <1>5. \A n : OwnUnit(Unit(q.tag, n), q.tag) /\ Unit(q.tag, n).no = n
    BY DEF OwnUnit, IsUnit, Unit
  <1>6. ASSUME NEW i \in 1..Len(r), OwnUnit(r[i], q.tag)
        PROVE  \/ i \in 2..a + 1 /\ r[i].no = i - 1
               \/ i \in a + 3..Len(r) /\ r[i].no = i - 2
    <2>1. i # 1
      BY <1>2, <1>6
    <2>2. CASE i \in 2..a + 1
      BY <1>3, <1>5, <2>2
    <2>3. CASE i > a + 1
      <3>1. Len(shape) = 2
        BY <1>1, <2>3
      <3>2. i # a + 2
        BY <1>4, <1>6, <3>1
      <3>3. i \in a + 3..Len(r)
        BY <1>1, <2>3, <3>2
      <3> QED BY <1>4, <1>5, <3>1, <3>3
    <2> QED BY <1>1, <2>1, <2>2, <2>3
  <1>7. ASSUME NEW i \in 1..Len(r), i \in 2..a + 1 \/ (i \in a + 3..Len(r))
        PROVE  OwnUnit(r[i], q.tag)
    <2>1. CASE i \in 2..a + 1
      BY <1>3, <1>5, <2>1
    <2>2. CASE i \in a + 3..Len(r)
      <3>1. Len(shape) = 2
        BY <1>1, <2>2
      <3> QED BY <1>4, <1>5, <2>2, <3>1
    <2> QED BY <1>7, <2>1, <2>2
  <1>8. ASSUME NEW i \in 1..Len(r), OwnUnit(r[i], q.tag), \A j \in 1..i - 1 : ~ OwnUnit(r[j], q.tag)
        PROVE  r[i].no = 0 + 1
    <2>1. CASE i \in 2..a + 1 /\ r[i].no = i - 1
      <3>1. i = 2
        <4>1. ASSUME i # 2 PROVE FALSE
          <5>1. 2 \in 1..i - 1 /\ 2 \in 2..a + 1 /\ 2 \in 1..Len(r)
            BY <1>1, <2>1, <4>1
          <5> QED BY <1>7, <1>8, <5>1
        <4> QED BY <4>1
      <3> QED BY <2>1, <3>1
    <2>2. CASE i \in a + 3..Len(r) /\ r[i].no = i - 2
      <3>1. i = 3
        <4>1. CASE a > 0
          <5>1. 2 \in 1..i - 1 /\ 2 \in 2..a + 1 /\ 2 \in 1..Len(r)
            BY <1>1, <2>2, <4>1
          <5> QED BY <1>7, <1>8, <5>1
        <4>2. CASE a = 0 /\ i # 3
          <5>1. 3 \in 1..i - 1 /\ 3 \in a + 3..Len(r) /\ 3 \in 1..Len(r)
            BY <1>1, <2>2, <4>2
          <5> QED BY <1>7, <1>8, <5>1
        <4> QED BY <1>1, <4>1, <4>2
      <3> QED BY <2>2, <3>1
    <2> QED BY <1>6, <1>8, <2>1, <2>2
  <1>9. ASSUME NEW i \in 1..Len(r), NEW j \in i + 1..Len(r), OwnUnit(r[i], q.tag), OwnUnit(r[j], q.tag),
               \A m \in i + 1..j - 1 : ~ OwnUnit(r[m], q.tag)
        PROVE  r[j].no = r[i].no + 1
    <2>1. j \in 1..Len(r)
      BY <1>1
    <2>2. /\ (i \in 2..a + 1 /\ r[i].no = i - 1) \/ (i \in a + 3..Len(r) /\ r[i].no = i - 2)
          /\ (j \in 2..a + 1 /\ r[j].no = j - 1) \/ (j \in a + 3..Len(r) /\ r[j].no = j - 2)
      BY <1>6, <1>9, <2>1
    <2>3. j = i + 1 \/ (i = a + 1 /\ j = a + 3)
      <3>1. CASE j - 1 = i
        BY <1>1, <3>1
      <3>2. CASE j - 1 # i
        <4>1. j - 1 \in i + 1..j - 1 /\ j - 1 \in 1..Len(r)
          BY <1>1, <2>1, <3>2
        <4>2. ~ OwnUnit(r[j - 1], q.tag)
          BY <1>9, <4>1
        <4>3. j - 1 \notin 2..a + 1 /\ j - 1 \notin a + 3..Len(r)
          BY <1>7, <4>1, <4>2
        <4>4. j = a + 3
          BY <1>1, <2>1, <2>2, <4>1, <4>3
        <4>5. i \in 2..a + 1
          BY <1>1, <2>2, <4>4
        <4>6. CASE i = a + 1
          BY <4>4, <4>6
        <4>7. CASE i # a + 1
          <5>1. a + 1 \in i + 1..j - 1 /\ a + 1 \in 1..Len(r) /\ a + 1 \in 2..a + 1
            BY <1>1, <2>1, <4>4, <4>5, <4>7
          <5> QED BY <1>7, <1>9, <5>1
        <4> QED BY <4>6, <4>7
      <3> QED BY <3>1, <3>2
    <2> QED BY <1>1, <2>1, <2>2, <2>3
  <1> QED BY <1>8, <1>9 DEF InTurn

-----------------------------------------------------------------------------
(* A data header the client takes is one of the response to the last write.*)
LEMMA MatchIsOwn ==
  ASSUME NEW x \in Items, IsData(x), IdMatches(x), Known(x, messageId, lastMessageId, writes)
  PROVE  x.tag = writes
  <1>1. IdSpace \in Nat \ {0} /\ IdSpace % 2 = 0
    BY ConstantsAssumption
  <1>2. x.id # AnyId
    <2>1. AnyId \in Int /\ AnyId % 2 = 1
      BY <1>1 DEF AnyId
    <2>2. x.id % 2 = 0
      BY DEF Known
    <2> QED BY <2>1, <2>2
  <1>3. x.id = lastMessageId
    BY <1>2 DEF IdMatches
  <1>4. Offset(x.id) \in Nat
    BY OffsetType DEF Known
  <1>5. ~ (Offset(x.id) < Offset(lastMessageId))
    BY <1>3, <1>4
  <1> QED BY <1>5 DEF Known

LEMMA OwnFacts ==
  ASSUME Base, Framing, OwnInv, ~ upset, pc \in Reading
  PROVE  /\ outcome # "broken" /\ Framed(Left, Stream)
         /\ Left \in Nat /\ Left <= Len(Stream)
         /\ Stream \in Seq(Items) /\ Len(Stream) \in Nat
         /\ Consumed \in Nat /\ writes \in Nat /\ returned \in Nat
         /\ got \in Seq(Items) /\ part \in Seq(Items) /\ Len(got) \in Nat /\ Len(part) \in Nat
         /\ Collected(got, writes, returned) /\ Collected(part, writes, returned + Len(got))
         /\ Own(Stream, queries, writes, Consumed)
         /\ Ahead(pc, Stream, writes, Left)
  <1>1. outcome # "broken"
    BY DEF Framing
  <1>2. Framed(Left, Stream)
    BY DEF Framing, Reading
  <1>3. Left \in Nat /\ Left <= Len(Stream)
    BY <1>2 DEF Framed
  <1>4. Stream \in Seq(Items) /\ Len(Stream) \in Nat
    BY StreamTypes DEF Base
  <1>5. writes \in Nat /\ returned \in Nat /\ got \in Seq(Items) /\ part \in Seq(Items)
    BY DEF Base, ClientTypes
  <1>6. Len(got) \in Nat /\ Len(part) \in Nat
    BY <1>5
  <1>7. Consumed \in Nat
    BY <1>5, <1>6 DEF Consumed
  <1>8. /\ Collected(got, writes, returned) /\ Collected(part, writes, returned + Len(got))
        /\ Own(Stream, queries, writes, Consumed)
        /\ Ahead(pc, Stream, writes, Left)
    BY Zenon DEF OwnInv
  <1> QED BY <1>1, <1>2, <1>3, <1>4, <1>5, <1>6, <1>7, <1>8

LEMMA OwnKept ==
  ASSUME (~ upset' /\ pc' \in Reading) =>
            /\ Collected(got', writes', returned') /\ Collected(part', writes', returned' + Len(got'))
            /\ Own(Stream', queries', writes', Consumed')
            /\ Ahead(pc', Stream', writes', Left')
  PROVE  OwnInv'
  BY DEF OwnInv

(* One unit less: another one's, or the next one of the response.          *)
LEMMA OwnShorter ==
  ASSUME NEW s \in Seq(Items), NEW t \in Seq(Items), NEW q, NEW w \in Nat, NEW c \in Nat,
         Shorter(s, t), Own(s, q, w, c)
  PROVE  /\ ~ OwnUnit(s[1], w) => Own(t, q, w, c)
         /\ OwnUnit(s[1], w) => s[1] = Unit(w, c + 1) /\ Own(t, q, w, c + 1)
  <1>1. /\ Len(s) \in Nat \ {0} /\ Len(t) \in Nat /\ 1 \in 1..Len(s)
        /\ \A i \in 1..Len(t) : t[i] = s[i + 1] /\ i + 1 \in 1..Len(s)
    BY DEF Shorter
  <1>2. /\ InTurn(s, w, c) /\ \A i \in 1..Len(s) : s[i].tag <= w
        /\ \A i \in 1..Len(q) : q[i].tag = w => i = Len(q) /\ c = 0 /\ Foreign(s, w)
    BY DEF Own
  <1>3. Foreign(s, w) => Foreign(t, w) /\ ~ OwnUnit(s[1], w)
    BY <1>1 DEF Foreign, OwnUnit
  <1>4. \A i \in 1..Len(t) : t[i].tag <= w
    BY <1>1, <1>2
  <1>5. CASE ~ OwnUnit(s[1], w)
    <2>1. InTurn(t, w, c)
      BY <1>2, <1>5, InTurnShorter
    <2> QED BY <1>2, <1>3, <1>4, <1>5, <2>1 DEF Own
  <1>6. CASE OwnUnit(s[1], w)
    <2>1. s[1] = Unit(w, c + 1) /\ InTurn(t, w, c + 1)
      BY <1>2, <1>6, InTurnShorter
    <2> QED BY <1>2, <1>3, <1>4, <1>6, <2>1 DEF Own
  <1> QED BY <1>5, <1>6

LEMMA CollectedNothing ==
  ASSUME NEW g, g = <<>>, NEW w, NEW c
  PROVE  Collected(g, w, c)
  BY DEF Collected

LEMMA CollectedLonger ==
  ASSUME NEW s \in Seq(Items), NEW u \in Seq(Items), NEW t \in Seq(Items), NEW w, NEW c \in Nat,
         Longer(s, u, t), Collected(s, w, c), Collected(u, w, c + Len(s))
  PROVE  Collected(t, w, c)
  <1>1. /\ Len(s) \in Nat /\ Len(u) \in Nat /\ Len(t) \in Nat /\ Len(t) = Len(s) + Len(u)
        /\ \A i \in 1..Len(s) : i \in 1..Len(t) /\ t[i] = s[i]
        /\ \A i \in 1..Len(t) : i \in 1..Len(s) \/ (i - Len(s) \in 1..Len(u) /\ t[i] = u[i - Len(s)])
    BY LongerParts
  <1>2. ASSUME NEW k \in 1..Len(t) PROVE t[k] = Unit(w, c + k)
    <2>1. CASE k \in 1..Len(s)
      BY <1>1, <2>1 DEF Collected
    <2>2. CASE k \notin 1..Len(s)
      <3>1. k - Len(s) \in 1..Len(u) /\ t[k] = u[k - Len(s)]
        BY <1>1, <2>2
      <3>2. u[k - Len(s)] = Unit(w, c + Len(s) + (k - Len(s)))
        BY <3>1 DEF Collected
      <3>3. c + Len(s) + (k - Len(s)) = c + k
        BY <1>1
      <3> QED BY <3>1, <3>2, <3>3
    <2> QED BY <2>1, <2>2
  <1> QED BY <1>2 DEF Collected

LEMMA LoopOwn ==
  ASSUME NEW n, NEW g \in Seq(Items), NEW left, NEW type, Looped(n, g, left, type),
         returned \in Nat, writes' = writes, Collected(g, writes, returned)
  PROVE  /\ Collected(got', writes', returned')
         /\ Collected(part', writes', returned' + Len(got'))
         /\ Consumed' = returned + Len(g)
  <1>1. part' = <<>> /\ Len(part') = 0 /\ Len(g) \in Nat
    BY DEF Looped
  <1>2. Collected(part', writes', returned' + Len(got'))
    BY <1>1, CollectedNothing
  <1>3. CASE got' = <<>> /\ returned' = returned + Len(g)
    <2>1. Len(got') = 0
      BY <1>3
    <2>2. Consumed' = returned + Len(g)
      BY <1>1, <1>3, <2>1 DEF Consumed
    <2> QED BY <1>2, <1>3, <2>2, CollectedNothing
  <1>4. CASE got' = g /\ returned' = returned
    <2>1. Consumed' = returned + Len(g)
      BY <1>1, <1>4 DEF Consumed
    <2> QED BY <1>2, <1>4, <2>1
  <1> QED BY <1>3, <1>4 DEF Looped

LEMMA BeginReadOwn ==
  ASSUME Base, Framing, OwnInv, NEW n \in Counts, BeginRead(n)
  PROVE  OwnInv'
  <1>1. /\ pc = "idle" /\ outcome # "broken" /\ Loop(n, <<>>, payloadRemaining, msgType)
        /\ UNCHANGED <<buf, net, queries, writes>>
    BY DEF BeginRead, Idle, chan
  <1>2. upset' = upset
    BY Zenon DEF BeginRead
  <1>3. n \in Nat /\ Len(<<>>) \in Nat /\ Len(<<>>) = 0 /\ payloadRemaining \in Nat /\ <<>> \in Seq(Items)
    BY ConstantsAssumption DEF Base, ClientTypes
  <1>4. Looped(n, <<>>, payloadRemaining, msgType)
    BY <1>1, <1>3, LoopFacts
  <1>5. Left' = payloadRemaining /\ pc' \in {"idle", "payload", "header"}
    BY <1>3, <1>4, LoopLeft
  <1>6. Left = payloadRemaining /\ Stream' = Stream
    BY <1>1 DEF Left, Stream
  <1>7. CASE upset
    BY <1>2, <1>7, OwnKept
  <1>8. CASE ~ upset
    <2>1. /\ Own(Stream, queries, writes, Consumed) /\ Ahead("idle", Stream, writes, Left)
          /\ returned \in Nat
      BY <1>1, <1>8, OwnFacts DEF Reading
    <2>2. Consumed = returned
      <3>1. got = <<>> /\ part = <<>>
        BY <1>1 DEF Base, Counting, Reception
      <3>2. Len(got) = 0 /\ Len(part) = 0
        BY <3>1
      <3> QED BY <2>1, <3>2 DEF Consumed
    <2>3. Collected(<<>>, writes, returned)
      BY CollectedNothing
    <2>4. /\ Collected(got', writes', returned')
          /\ Collected(part', writes', returned' + Len(got'))
          /\ Consumed' = returned + Len(<<>>)
      BY <1>1, <1>3, <1>4, <2>1, <2>3, LoopOwn
    <2>5. Consumed' = Consumed
      BY <1>3, <2>1, <2>2, <2>4
    <2>6. Ahead(pc', Stream', writes', Left')
      BY <1>1, <1>5, <1>6, <2>1 DEF Ahead
    <2> QED BY <1>1, <1>6, <2>1, <2>4, <2>5, <2>6, OwnKept
  <1> QED BY <1>7, <1>8

LEMMA NextDataHeaderOwn ==
  ASSUME Base, Warned, Ids, Framing, OwnInv, NextDataHeader
  PROVE  OwnInv'
  <1>1. /\ pc = "header" /\ buf # <<>> /\ buf' = Tail(buf) /\ UNCHANGED <<net, queries, writes>>
        /\ IsData(Head(buf)) /\ IdMatches(Head(buf))
        /\ Loop(count, got, Head(buf).len, Head(buf).type)
    BY DEF NextDataHeader, Ready
  <1>2. upset' = upset
    BY Zenon DEF NextDataHeader
  <1>3. CASE upset
    BY <1>2, <1>3, OwnKept
  <1>4. CASE ~ upset
    <2>1. /\ outcome # "broken" /\ Framed(Left, Stream) /\ Consumed \in Nat /\ writes \in Nat
          /\ returned \in Nat /\ got \in Seq(Items) /\ Len(got) \in Nat
          /\ Own(Stream, queries, writes, Consumed) /\ Collected(got, writes, returned)
      BY <1>1, <1>4, OwnFacts DEF Reading
    <2>2. /\ Stream \in Seq(Items) /\ Stream' \in Seq(Items) /\ Shorter(Stream, Stream')
          /\ Head(buf) = Stream[1] /\ Head(buf) \in Items /\ 1 \in 1..Len(Stream)
      BY <1>1, TakenChannel DEF Base
    <2>3. Left = 0
      BY <1>1 DEF Left
    <2>4. Head(buf).tag = writes
      <3>1. Known(Head(buf), messageId, lastMessageId, writes)
        BY <1>1, <1>4, <2>1, <2>2 DEF Ids, KnownIn, Warned
      <3> QED BY <1>1, <2>2, <3>1, MatchIsOwn
    <2>5. /\ Head(buf).len \in Nat
          /\ \A i \in 1..Head(buf).len : Stream'[i].tag = writes
      BY <1>1, <2>1, <2>3, <2>4, TakenFramed
    <2>6. count \in Nat
      BY DEF Base, ClientTypes
    <2>7. Looped(count, got, Head(buf).len, Head(buf).type)
      BY <1>1, <2>1, <2>5, <2>6, LoopFacts
    <2>8. Left' = Head(buf).len /\ pc' \in {"idle", "payload", "header"}
      BY <2>5, <2>7, LoopLeft
    <2>9. /\ Collected(got', writes', returned')
          /\ Collected(part', writes', returned' + Len(got'))
          /\ Consumed' = returned + Len(got)
      BY <1>1, <2>1, <2>7, LoopOwn
    <2>10. Consumed' = Consumed
      <3>1. part = <<>>
        BY <1>1 DEF Base, Counting
      <3>2. Len(part) = 0
        BY <3>1
      <3> QED BY <2>1, <2>9, <3>2 DEF Consumed
    <2>11. Own(Stream', queries', writes', Consumed')
      <3>1. ~ OwnUnit(Stream[1], writes)
        BY <1>1, <2>2 DEF OwnUnit, IsUnit, IsData
      <3> QED BY <1>1, <2>1, <2>2, <2>10, <3>1, OwnShorter
    <2>12. Ahead(pc', Stream', writes', Left')
      BY <1>1, <2>5, <2>8 DEF Ahead
    <2> QED BY <2>9, <2>11, <2>12, OwnKept
  <1> QED BY <1>3, <1>4

(* What is thrown away is not of the response.                             *)
LEMMA MismatchOwn ==
  ASSUME Base, Warned, Ids, Framing, OwnInv, Mismatch
  PROVE  OwnInv'
  <1>1. /\ pc = "header" /\ buf # <<>> /\ buf' = Tail(buf) /\ UNCHANGED <<net, queries, writes>>
        /\ Head(buf).kind = "header"
        /\ skip' = Head(buf).len /\ pc' = IF Head(buf).len > 0 THEN "flush" ELSE "header"
        /\ UNCHANGED <<got, part, returned>>
    BY DEF Mismatch, Ready
  <1>2. upset' = upset
    BY Zenon DEF Mismatch
  <1>3. CASE upset
    BY <1>2, <1>3, OwnKept
  <1>4. CASE ~ upset
    <2>1. /\ Framed(Left, Stream) /\ Consumed \in Nat /\ writes \in Nat
          /\ Own(Stream, queries, writes, Consumed) /\ Collected(got, writes, returned)
          /\ Collected(part, writes, returned + Len(got))
      BY <1>1, <1>4, OwnFacts DEF Reading
    <2>2. /\ Stream \in Seq(Items) /\ Stream' \in Seq(Items) /\ Shorter(Stream, Stream')
          /\ Head(buf) = Stream[1]
      BY <1>1, TakenChannel DEF Base
    <2>3. Left = 0
      BY <1>1 DEF Left
    <2>4. /\ Head(buf).len \in Nat
          /\ \A i \in 1..Head(buf).len : Stream'[i].tag # writes
      BY <1>1, <1>4, <2>1, <2>3, OwnIsNoMismatch, TakenFramed DEF Warned
    <2>5. Left' = Head(buf).len
      BY <1>1, <2>4 DEF Left
    <2>6. Consumed' = Consumed
      BY <1>1 DEF Consumed
    <2>7. Own(Stream', queries', writes', Consumed')
      <3>1. ~ OwnUnit(Stream[1], writes)
        BY <1>1, <2>2 DEF OwnUnit, IsUnit
      <3> QED BY <1>1, <2>1, <2>2, <2>6, <3>1, OwnShorter
    <2>8. Ahead(pc', Stream', writes', Left')
      BY <1>1, <2>4, <2>5 DEF Ahead
    <2> QED BY <1>1, <2>1, <2>7, <2>8, OwnKept
  <1> QED BY <1>3, <1>4

LEMMA FlushOwn ==
  ASSUME Base, Framing, OwnInv, Flush
  PROVE  OwnInv'
  <1>1. /\ pc = "flush" /\ buf # <<>> /\ buf' = Tail(buf) /\ UNCHANGED <<net, queries, writes>>
        /\ skip' = skip - 1 /\ pc' = IF skip = 1 THEN "header" ELSE "flush"
        /\ UNCHANGED <<got, part, returned>>
    BY DEF Flush, Ready
  <1>2. upset' = upset
    BY Zenon DEF Flush
  <1>3. CASE upset
    BY <1>2, <1>3, OwnKept
  <1>4. CASE ~ upset
    <2>1. /\ Consumed \in Nat /\ writes \in Nat
          /\ Own(Stream, queries, writes, Consumed) /\ Collected(got, writes, returned)
          /\ Collected(part, writes, returned + Len(got)) /\ Ahead("flush", Stream, writes, Left)
      BY <1>1, <1>4, OwnFacts DEF Reading
    <2>2. /\ Stream \in Seq(Items) /\ Stream' \in Seq(Items) /\ Shorter(Stream, Stream')
      BY <1>1, TakenChannel DEF Base
    <2>3. Left = skip /\ skip \in Nat \ {0}
      <3>1. skip \in Nat /\ (pc = "flush" <=> (skip > 0 /\ pc # "await"))
        BY DEF Base, ClientTypes, Counting
      <3>2. Left = skip
        BY <1>1 DEF Left
      <3> QED BY <1>1, <3>1, <3>2
    <2>4. Left' = skip - 1
      BY <1>1, <2>3 DEF Left
    <2>5. \A i \in 1..skip : Stream[i].tag # writes
      BY <2>1, <2>3 DEF Ahead
    <2>6. Consumed' = Consumed
      BY <1>1 DEF Consumed
    <2>7. Own(Stream', queries', writes', Consumed')
      <3>1. ~ OwnUnit(Stream[1], writes)
        BY <2>3, <2>5 DEF OwnUnit
      <3> QED BY <1>1, <2>1, <2>2, <2>6, <3>1, OwnShorter
    <2>8. Ahead(pc', Stream', writes', Left')
      <3>1. /\ Len(Stream) \in Nat /\ Len(Stream') = Len(Stream) - 1 /\ Left <= Len(Stream)
            /\ \A i \in 1..Len(Stream') : Stream'[i] = Stream[i + 1]
        BY <1>1, <1>4, <2>2, OwnFacts DEF Shorter, Reading
      <3>2. ASSUME NEW i \in 1..skip - 1 PROVE i \in 1..Len(Stream') /\ i + 1 \in 1..skip
        BY ONLY <2>3, <3>1, i \in 1..skip - 1
      <3>3. \A i \in 1..skip - 1 : Stream'[i].tag # writes
        BY <2>5, <3>1, <3>2
      <3> QED BY <1>1, <2>4, <3>3 DEF Ahead
    <2> QED BY <1>1, <2>1, <2>7, <2>8, OwnKept
  <1> QED BY <1>3, <1>4

(* What is read is the next unit of the response.                          *)
LEMMA NextUnit ==
  ASSUME Base, Framing, OwnInv, ~ upset, pc = "payload", buf # <<>>, buf' = Tail(buf),
         UNCHANGED <<net, queries>>
  PROVE  /\ Collected(Filled, writes, returned + Len(got))
         /\ Collected(got \o Filled, writes, returned)
         /\ Own(Stream', queries, writes, Consumed + 1)
         /\ \A i \in 1..Left - 1 : Stream'[i].tag = writes
  <1>1. /\ Framed(Left, Stream) /\ Left \in Nat /\ Left <= Len(Stream)
        /\ Consumed \in Nat /\ writes \in Nat /\ returned \in Nat
        /\ got \in Seq(Items) /\ part \in Seq(Items) /\ Len(got) \in Nat /\ Len(part) \in Nat
        /\ Own(Stream, queries, writes, Consumed) /\ Collected(got, writes, returned)
        /\ Collected(part, writes, returned + Len(got)) /\ Ahead("payload", Stream, writes, Left)
    BY OwnFacts DEF Reading
  <1>2. /\ Stream \in Seq(Items) /\ Stream' \in Seq(Items) /\ Shorter(Stream, Stream')
        /\ Head(buf) = Stream[1] /\ Head(buf) \in Items
    BY TakenChannel DEF Base
  <1>3. ChannelTypes /\ ClientTypes /\ Counting
    BY DEF Base
  <1>4. /\ Filled \in Seq(Items) /\ Len(Filled) = Len(part) + 1
        /\ got \o Filled \in Seq(Items) /\ Longer(got, Filled, got \o Filled)
    BY <1>3, FilledItems, ConcatLonger DEF ClientTypes
  <1>5. Left # 0
    <2>1. Left = payloadRemaining - Len(part) /\ payloadRemaining \in Nat /\ Len(part) < payloadRemaining
      BY <1>3 DEF Left, ClientTypes, Counting
    <2> QED BY <1>1, <2>1
  <1>6. \A i \in 1..Left : Stream[i].tag = writes
    BY <1>1 DEF Ahead
  <1>7. Stream[1] = Unit(writes, Consumed + 1) /\ Own(Stream', queries, writes, Consumed + 1)
    <2>1. OwnUnit(Stream[1], writes)
      BY <1>1, <1>2, <1>5, <1>6, TakenFramed DEF OwnUnit
    <2> QED BY <1>1, <1>2, <2>1, OwnShorter
  <1>8. Consumed = returned + Len(got) + Len(part)
    BY DEF Consumed
  <1>9. Collected(Filled, writes, returned + Len(got))
    <2>1. /\ \A k \in 1..Len(part) : Filled[k] = part[k]
          /\ Filled[Len(part) + 1] = Head(buf)
      BY <1>1, <1>2 DEF Filled
    <2>2. ASSUME NEW k \in 1..Len(Filled) PROVE k \in 1..Len(part) \/ k = Len(part) + 1
      BY ONLY <1>1, <1>4, k \in 1..Len(Filled)
    <2>3. Head(buf) = Unit(writes, returned + Len(got) + (Len(part) + 1))
      <3>1. Consumed + 1 = returned + Len(got) + (Len(part) + 1)
        BY ONLY <1>1, <1>8
      <3> QED BY <1>2, <1>7, <3>1
    <2>4. \A k \in 1..Len(part) : part[k] = Unit(writes, returned + Len(got) + k)
      BY <1>1 DEF Collected
    <2>5. \A k \in 1..Len(Filled) : Filled[k] = Unit(writes, returned + Len(got) + k)
      BY <2>1, <2>2, <2>3, <2>4
    <2> QED BY <2>5 DEF Collected
  <1>10. Collected(got \o Filled, writes, returned)
    BY <1>1, <1>4, <1>9, CollectedLonger
  <1>11. \A i \in 1..Left - 1 : Stream'[i].tag = writes
    <2>1. /\ Len(Stream) \in Nat /\ Len(Stream') = Len(Stream) - 1
          /\ \A i \in 1..Len(Stream') : Stream'[i] = Stream[i + 1]
      BY <1>2 DEF Shorter
    <2>2. ASSUME NEW i \in 1..Left - 1 PROVE i \in 1..Len(Stream') /\ i + 1 \in 1..Left
      BY ONLY <1>1, <2>1, i \in 1..Left - 1
    <2> QED BY <1>6, <2>1, <2>2
  <1> QED BY <1>7, <1>9, <1>10, <1>11

(* The request is complete and the loop goes on, or it is not.             *)
LEMMA PayloadCases ==
  ASSUME Base, Payload
  PROVE  \/ /\ Looped(count, got \o Filled, Left - 1, msgType)
            /\ got \o Filled \in Seq(Items) /\ Len(got \o Filled) = Len(got) + Len(part) + 1
            /\ Left - 1 \in Nat
         \/ part' = Filled /\ UNCHANGED <<payloadRemaining, pc, got, returned, outcome, data>>
            /\ Left' = Left - 1 /\ Len(Filled) = Len(part) + 1
  <1> DEFINE request == Least(payloadRemaining, count - Len(got))
             all == got \o Filled
  <1>1. pc = "payload" /\ buf # <<>> /\ ChannelTypes /\ ClientTypes /\ Counting
    BY DEF Payload, Ready, Base
  <1>2. /\ Len(Filled) = Len(part) + 1
        /\ all \in Seq(Items) /\ Len(all) = Len(got) + Len(Filled)
        /\ Len(got) \in Nat /\ Len(part) \in Nat
    BY <1>1, FilledItems
  <1>3. /\ payloadRemaining \in Nat /\ count \in Nat
        /\ Len(part) < payloadRemaining /\ Len(part) < count - Len(got)
    BY <1>1 DEF ClientTypes, Counting
  <1>4. Left = payloadRemaining - Len(part)
    BY <1>1 DEF Left
  <1>5. request \in {payloadRemaining, count - Len(got)} /\ request <= payloadRemaining
    BY <1>2, <1>3 DEF Least
  <1>6. CASE Len(Filled) = request
    <2>1. Loop(count, all, payloadRemaining - request, msgType)
      BY <1>6 DEF Payload
    <2> HIDE DEF request, all
    <2>2. payloadRemaining - request = Left - 1 /\ Left - 1 \in Nat /\ Len(all) \in Nat
          /\ Len(all) = Len(got) + Len(part) + 1
      BY ONLY <1>2, <1>3, <1>4, <1>5, <1>6
    <2>3. Looped(count, all, Left - 1, msgType)
      BY <1>3, <2>1, <2>2, LoopFacts
    <2> QED BY <1>2, <2>2, <2>3 DEF all
  <1>7. CASE Len(Filled) # request
    <2>1. part' = Filled /\ UNCHANGED <<payloadRemaining, pc, got, returned, outcome, data>>
      BY <1>7 DEF Payload
    <2> HIDE DEF request, all
    <2>2. Left' = payloadRemaining - Len(Filled)
      BY <1>1, <2>1 DEF Left
    <2>3. Left' = Left - 1
      BY ONLY <1>2, <1>3, <1>4, <2>2
    <2> QED BY <1>2, <2>1, <2>3
  <1> QED BY <1>6, <1>7

LEMMA PayloadOwn ==
  ASSUME Base, Framing, OwnInv, Payload
  PROVE  OwnInv'
  <1>1. /\ pc = "payload" /\ buf # <<>> /\ buf' = Tail(buf) /\ UNCHANGED <<net, queries, writes>>
    BY DEF Payload, Ready
  <1>2. upset' = upset
    BY Zenon DEF Payload
  <1>3. CASE upset
    BY <1>2, <1>3, OwnKept
  <1>4. CASE ~ upset
    <2>1. /\ Consumed \in Nat /\ returned \in Nat /\ Len(got) \in Nat /\ Len(part) \in Nat
          /\ Collected(got, writes, returned)
      BY <1>1, <1>4, OwnFacts DEF Reading
    <2>2. Consumed = returned + Len(got) + Len(part)
      BY DEF Consumed
    <2> DEFINE all == got \o Filled
    <2>3. /\ Collected(Filled, writes, returned + Len(got)) /\ Collected(all, writes, returned)
          /\ Own(Stream', queries, writes, Consumed + 1)
          /\ \A i \in 1..Left - 1 : Stream'[i].tag = writes
      BY <1>1, <1>4, NextUnit
    <2>4. \/ /\ Looped(count, all, Left - 1, msgType) /\ all \in Seq(Items)
             /\ Len(all) = Len(got) + Len(part) + 1 /\ Left - 1 \in Nat
          \/ part' = Filled /\ UNCHANGED <<payloadRemaining, pc, got, returned, outcome, data>>
             /\ Left' = Left - 1 /\ Len(Filled) = Len(part) + 1
      BY PayloadCases
    <2> HIDE DEF all
    <2>5. CASE /\ Looped(count, all, Left - 1, msgType) /\ all \in Seq(Items)
               /\ Len(all) = Len(got) + Len(part) + 1 /\ Left - 1 \in Nat
      <3>1. Left' = Left - 1 /\ pc' \in {"idle", "payload", "header"}
        BY <2>5, LoopLeft
      <3>2. /\ Collected(got', writes', returned')
            /\ Collected(part', writes', returned' + Len(got'))
            /\ Consumed' = returned + Len(all)
        BY <1>1, <2>1, <2>3, <2>5, LoopOwn
      <3>3. Consumed' = Consumed + 1
        BY ONLY <2>1, <2>2, <2>5, <3>2
      <3>4. Own(Stream', queries', writes', Consumed')
        BY <1>1, <2>3, <3>3
      <3>5. Ahead(pc', Stream', writes', Left')
        BY <1>1, <2>3, <3>1 DEF Ahead
      <3> QED BY <3>2, <3>4, <3>5, OwnKept
    <2>6. CASE part' = Filled /\ UNCHANGED <<payloadRemaining, pc, got, returned, outcome, data>>
               /\ Left' = Left - 1 /\ Len(Filled) = Len(part) + 1
      <3>1. Consumed' = returned + Len(got) + Len(Filled)
        BY <2>6 DEF Consumed
      <3>2. Consumed' = Consumed + 1
        BY ONLY <2>1, <2>2, <2>6, <3>1
      <3>3. Own(Stream', queries', writes', Consumed')
        BY <1>1, <2>3, <3>2
      <3>4. Ahead(pc', Stream', writes', Left')
        BY <1>1, <2>3, <2>6 DEF Ahead
      <3> QED BY <1>1, <2>1, <2>3, <2>6, <3>3, <3>4, OwnKept
    <2> QED BY <2>4, <2>5, <2>6
  <1> QED BY <1>3, <1>4

LEMMA ReadTimeoutOwn ==
  ASSUME Base, Framing, OwnInv, ReadTimeout
  PROVE  OwnInv'
  <1>1. /\ pc \in Reception /\ pc' = "idle" /\ got' = <<>> /\ part' = <<>>
        /\ payloadRemaining' = payloadRemaining /\ UNCHANGED <<buf, net, queries, writes, returned>>
    BY DEF ReadTimeout, Receiving, Reception, ids, chan
  <1>2. ~ upset' => ~ upset /\ got = <<>> /\ part = <<>> /\ ~ (skip > 0)
    BY Zenon DEF ReadTimeout, Upset
  <1>3. CASE upset'
    BY <1>3, OwnKept
  <1>4. CASE ~ upset'
    <2>1. ~ upset /\ got = <<>> /\ part = <<>> /\ ~ (skip > 0)
      BY <1>2, <1>4
    <2>2. /\ payloadRemaining \in Nat /\ Len(part) = 0
          /\ pc = "header" => payloadRemaining = 0
          /\ pc = "flush" => skip > 0
      BY <2>1 DEF Base, ClientTypes, Counting
    <2>3. pc \in {"header", "payload"}
      BY <1>1, <2>1, <2>2 DEF Reception
    <2>4. /\ Left = payloadRemaining /\ Left' = payloadRemaining /\ Stream' = Stream
          /\ pc = "header" => Left = 0
      BY <1>1, <2>2, <2>3 DEF Left, Stream
    <2>5. Own(Stream, queries, writes, Consumed) /\ Ahead(pc, Stream, writes, Left)
      BY <2>1, <2>3, OwnFacts DEF Reading
    <2>6. Consumed' = Consumed
      BY <1>1, <2>1 DEF Consumed
    <2>7. Ahead(pc', Stream', writes', Left')
      BY <1>1, <2>3, <2>4, <2>5 DEF Ahead
    <2>8. Collected(got', writes', returned') /\ Collected(part', writes', returned' + Len(got'))
      BY <1>1, CollectedNothing
    <2> QED BY <1>1, <2>4, <2>5, <2>6, <2>7, <2>8, OwnKept
  <1> QED BY <1>3, <1>4

(* A write starts a response of its own, of which nothing is there yet.    *)
LEMMA SendOwn ==
  ASSUME Base, Warned, Ids, Framing, OwnInv, (\E n \in 1..2 : Write(n)) \/ Trigger
  PROVE  OwnInv'
  <1>1. /\ pc = "idle" /\ pc' = "idle" /\ outcome # "broken" /\ payloadRemaining' = 0
        /\ UNCHANGED <<buf, net, got, part>> /\ returned' = 0 /\ writes' = writes + 1
        /\ \/ queries' = queries
           \/ \E i : queries' = Append(queries, [id |-> i, tag |-> writes + 1])
    BY DEF Write, Trigger, Send, SetLastMessageId, Idle, chan
  <1>2. ~ upset' => ~ upset
    BY Zenon DEF Write, Trigger, Upset
  <1>3. CASE upset'
    BY <1>3, OwnKept
  <1>4. CASE ~ upset'
    <2>1. Own(Stream, queries, writes, Consumed) /\ writes \in Nat
          /\ Stream \in Seq(Items) /\ Len(Stream) \in Nat
      BY <1>1, <1>2, <1>4, OwnFacts DEF Reading
    <2>2. Left' = 0 /\ Stream' = Stream
      BY <1>1 DEF Left, Stream
    <2>3. got' = <<>> /\ part' = <<>>
      BY <1>1 DEF Base, Counting, Reception
    <2>4. Consumed' = 0
      <3>1. Len(got') = 0 /\ Len(part') = 0
        BY <2>3
      <3> QED BY <1>1, <3>1 DEF Consumed
    <2>5. \A i \in 1..Len(Stream) : Stream[i].tag <= writes /\ Stream[i].tag \in Nat
      <3>1. \A i \in 1..Len(Stream) : Stream[i].tag <= writes /\ Stream[i] \in Items
        BY <2>1 DEF Own
      <3> QED BY <3>1, ItemTypes
    <2>6. /\ Foreign(Stream, writes + 1)
          /\ \A i \in 1..Len(Stream) : Stream[i].tag <= writes + 1
      BY <2>1, <2>5 DEF Foreign
    <2>7. queries \in Seq([id : Nat, tag : Nat]) /\ Len(queries) \in Nat
      BY DEF Base, ChannelTypes
    <2>8. \A i \in 1..Len(queries) : queries[i].tag # writes + 1
      <3>1. \A i \in 1..Len(queries) : queries[i].tag \in 1..writes
        BY <1>1, <1>2, <1>4 DEF Ids, Known, Warned
      <3> QED BY <2>1, <3>1
    <2>9. \A i \in 1..Len(queries') : queries'[i].tag = writes + 1 => i = Len(queries')
      <3>1. CASE queries' = queries
        BY <2>8, <3>1
      <3>2. ASSUME NEW x, queries' = Append(queries, x)
            PROVE  \A i \in 1..Len(queries') : i = Len(queries') \/ (i \in 1..Len(queries) /\ queries'[i] = queries[i])
        BY <2>7, <3>2
      <3> QED BY <1>1, <2>8, <3>1, <3>2
    <2>10. Own(Stream', queries', writes', Consumed')
      BY <1>1, <2>2, <2>4, <2>6, <2>9, InTurnNothing DEF Own
    <2>11. Ahead(pc', Stream', writes', Left')
      BY <2>2 DEF Ahead
    <2>12. Collected(got', writes', returned') /\ Collected(part', writes', returned' + Len(got'))
      BY <2>3, CollectedNothing
    <2> QED BY <2>10, <2>11, <2>12, OwnKept
  <1> QED BY <1>3, <1>4

LEMMA TransactionOwn ==
  ASSUME Base, Framing, OwnInv, StatusQuery \/ OtherTransaction
  PROVE  OwnInv'
  <1>1. /\ pc = "idle" /\ pc' = "idle" /\ payloadRemaining' = payloadRemaining
        /\ UNCHANGED <<buf, net, queries, writes, got, part, returned>>
    BY DEF StatusQuery, OtherTransaction, Transaction, Idle, ids, chan
  <1>2. upset' = upset
    BY Zenon DEF StatusQuery, OtherTransaction, Transaction
  <1>3. ~ upset' => ~ upset
    BY <1>2, Zenon
  <1>4. Left' = Left /\ Stream' = Stream /\ Consumed' = Consumed
    BY <1>1 DEF Left, Stream, Consumed
  <1>5. ASSUME ~ upset'
        PROVE  /\ Collected(got', writes', returned') /\ Collected(part', writes', returned' + Len(got'))
               /\ Own(Stream', queries', writes', Consumed')
               /\ Ahead(pc', Stream', writes', Left')
    BY <1>1, <1>3, <1>4, <1>5, OwnFacts DEF Reading
  <1> QED BY <1>5, OwnKept

(* The server's answer is the response, or one to an older write.          *)
LEMMA AnswerOwn ==
  ASSUME Base, Warned, Ids, Framing, OwnInv, NEW shape \in Shapes, Answer(shape)
  PROVE  OwnInv'
  <1> DEFINE q == Head(queries)
             r == Response(q, shape)
  <1>1. /\ UNCHANGED <<pc, payloadRemaining, skip, writes, got, part, returned>>
        /\ queries' = Tail(queries)
    BY DEF Answer, ids, io
  <1>2. upset' = upset
    BY Zenon DEF Answer
  <1>3. /\ queries # <<>> /\ q \in [id : Nat, tag : Nat]
        /\ Stream \in Seq(Items) /\ Stream' \in Seq(Items)
        /\ r \in Seq(Items) /\ Longer(Stream, r, Stream') /\ Answers(r, q, shape)
    BY AnswerFacts DEF Base
  <1>4. /\ Len(queries) \in Nat \ {0} /\ q = queries[1]
        /\ Len(queries') = Len(queries) - 1
        /\ \A i \in 1..Len(queries') : i + 1 \in 1..Len(queries) /\ queries'[i] = queries[i + 1]
    <2>1. queries \in Seq([id : Nat, tag : Nat])
      BY DEF Base, ChannelTypes
    <2>2. Len(queries) \in Nat \ {0} /\ Len(queries') = Len(queries) - 1
      BY <1>1, <1>3, <2>1
    <2> QED BY <1>1, <1>3, <2>1, <2>2
  <1> HIDE DEF q, r
  <1>5. \A i \in 1..Len(r) : r[i].tag = q.tag
    BY <1>3, ResponseItems
  <1>6. Left' = Left /\ Consumed' = Consumed
    BY <1>1 DEF Left, Consumed
  <1>7. ASSUME ~ upset, pc \in Reading
        PROVE  Own(Stream', queries', writes, Consumed) /\ Ahead(pc, Stream', writes, Left)
    <2>1. /\ Left \in Nat /\ Left <= Len(Stream) /\ Consumed \in Nat /\ writes \in Nat
          /\ Own(Stream, queries, writes, Consumed) /\ Ahead(pc, Stream, writes, Left)
      BY <1>7, OwnFacts
    <2>2. /\ InTurn(Stream, writes, Consumed) /\ \A i \in 1..Len(Stream) : Stream[i].tag <= writes
          /\ \A i \in 1..Len(queries) : queries[i].tag = writes =>
                i = Len(queries) /\ Consumed = 0 /\ Foreign(Stream, writes)
      BY <2>1 DEF Own
    <2>3. /\ Len(Stream) \in Nat /\ \A i \in 1..Len(Stream) : Stream'[i] = Stream[i]
          /\ \A i \in 1..Len(Stream') :
                i \in 1..Len(Stream) \/ (i - Len(Stream) \in 1..Len(r) /\ Stream'[i] = r[i - Len(Stream)])
      BY <1>3, LongerParts
    <2>4. Ahead(pc, Stream', writes, Left)
      <3>1. ASSUME NEW i \in 1..Left PROVE i \in 1..Len(Stream)
        BY ONLY <2>1, <2>3, i \in 1..Left
      <3> QED BY <2>1, <2>3, <3>1 DEF Ahead
    <2>5. 1 \in 1..Len(queries)
      BY ONLY <1>4
    <2>6. ASSUME q.tag = writes
          PROVE  InTurn(Stream', writes, Consumed) /\ Len(queries) = 1
      <3>1. 1 = Len(queries) /\ Consumed = 0 /\ Foreign(Stream, writes)
        BY <1>4, <2>2, <2>5, <2>6
      <3>2. InTurn(r, writes, 0)
        BY <1>3, <2>6, InTurnResponse
      <3> QED BY <1>3, <3>1, <3>2, InTurnOwn
    <2>7. ASSUME q.tag # writes
          PROVE  InTurn(Stream', writes, Consumed) /\ (Foreign(Stream, writes) => Foreign(Stream', writes))
      <3>1. Foreign(r, writes)
        BY <1>5, <2>7 DEF Foreign
      <3>2. InTurn(Stream', writes, Consumed)
        BY <1>3, <2>1, <2>2, <3>1, InTurnForeign
      <3> QED BY <2>3, <3>1, <3>2 DEF Foreign
    <2>8. \A i \in 1..Len(queries') : queries'[i].tag = writes =>
             i = Len(queries') /\ Consumed = 0 /\ Foreign(Stream', writes)
      <3>1. ASSUME NEW i \in 1..Len(queries'), queries'[i].tag = writes
            PROVE  i = Len(queries') /\ Consumed = 0 /\ Foreign(Stream', writes)
        <4>1. i + 1 \in 1..Len(queries) /\ queries[i + 1].tag = writes
          BY <1>4, <3>1
        <4>2. i + 1 = Len(queries) /\ Consumed = 0 /\ Foreign(Stream, writes)
          BY <2>2, <4>1
        <4>3. q.tag # writes /\ i = Len(queries')
          <5>1. i = Len(queries') /\ Len(queries) # 1
            BY <1>4, <4>2
          <5> QED BY <2>6, <5>1
        <4> QED BY <2>7, <4>2, <4>3
      <3> QED BY <3>1
    <2>9. \A i \in 1..Len(Stream') : Stream'[i].tag <= writes
      <3>1. q.tag <= writes
        <4>1. outcome # "broken"
          BY <1>7 DEF Framing
        <4>2. q.tag \in 1..writes
          BY <1>4, <1>7, <2>5, <4>1 DEF Ids, Known, Warned
        <4> QED BY <2>1, <4>2
      <3> QED BY <1>5, <2>2, <2>3, <3>1
    <2> QED BY <2>4, <2>6, <2>7, <2>8, <2>9 DEF Own
  <1>8. ASSUME ~ upset', pc' \in Reading
        PROVE  /\ Collected(got', writes', returned') /\ Collected(part', writes', returned' + Len(got'))
               /\ Own(Stream', queries', writes', Consumed')
               /\ Ahead(pc', Stream', writes', Left')
    <2>1. Collected(got, writes, returned) /\ Collected(part, writes, returned + Len(got))
      BY <1>1, <1>2, <1>8, OwnFacts
    <2> QED BY <1>1, <1>2, <1>6, <1>7, <1>8, <2>1
  <1> QED BY <1>8, OwnKept

(* Where a device clear ends nothing is left of any response.              *)
LEMMA EndOwn ==
  ASSUME Base, Warned', Framing, Framing', OwnInv, TerminateEnd \/ ClearEnd
  PROVE  OwnInv'
  <1>1. /\ pc \in {"acknowledge", "cleared"} /\ pc' = "idle" /\ UNCHANGED <<net, queries, writes>>
        /\ pc = "acknowledge" => buf # <<>> /\ buf' = Tail(buf)
        /\ (pc = "cleared" /\ ~ cancel) => buf # <<>> /\ buf' = Tail(buf)
    BY DEF TerminateEnd, ClearEnd, Broken, Raises
  <1>2. CASE upset'
    BY <1>2, OwnKept
  <1>3. CASE ~ upset'
    <2>1. outcome' # "broken" /\ Framed(Left', Stream')
      BY <1>1, <1>3 DEF Framing
    <2>2. ChannelTypes /\ Controlled /\ Counting /\ writes \in Nat
      BY DEF Base, ClientTypes
    <2>3. buf # <<>> /\ buf' = Tail(buf) /\ Acknowledged /\ UNCHANGED <<got, part, returned>>
      BY <2>1 DEF TerminateEnd, ClearEnd, Broken, Raises
    <2>13. ~ unacknowledged
      <3>1. unacknowledged' = unacknowledged
        BY Zenon DEF TerminateEnd, ClearEnd, term, astray
      <3> QED BY <1>3, <3>1, Zenon DEF Warned
    <2>4. queries' = <<>> /\ MarksLast(Stream, pc)
      BY <1>1, <2>1, <2>2, <2>13 DEF Controlled, Clearing
    <2>5. Stream' = <<>>
      BY <1>1, <2>2, <2>3, <2>4, AcknowledgedLast
    <2>6. Left' = 0
      BY <2>1, <2>5, FramedNothing
    <2>7. got' = <<>> /\ part' = <<>>
      BY <1>1, <2>2, <2>3 DEF Counting, Reception
    <2>8. Len(Stream') = 0 /\ Len(queries') = 0
      BY <2>4, <2>5
    <2>9. Foreign(Stream', writes')
      BY <2>8 DEF Foreign
    <2>10. Own(Stream', queries', writes', Consumed')
      <3>1. InTurn(Stream', writes', Consumed')
        BY <2>9, InTurnNothing
      <3> QED BY <2>8, <3>1 DEF Own
    <2>11. Ahead(pc', Stream', writes', Left')
      BY <2>6 DEF Ahead
    <2>12. Collected(got', writes', returned') /\ Collected(part', writes', returned' + Len(got'))
      BY <2>7, CollectedNothing
    <2> QED BY <2>10, <2>11, <2>12, OwnKept
  <1> QED BY <1>2, <1>3

LEMMA QuietOwn ==
  ASSUME Base, Framing, OwnInv,
         Arrive \/ TerminateTest \/ TerminateCancel \/ Unsolicited \/ UNCHANGED vars
  PROVE  OwnInv'
  <1>1. UNCHANGED <<pc, payloadRemaining, part, skip, queries, writes, got, returned>>
    BY DEF Arrive, TerminateTest, TerminateCancel, Unsolicited, vars, ids, io, chan
  <1>2. upset' = upset
    BY Zenon DEF Arrive, TerminateTest, TerminateCancel, Unsolicited, vars
  <1>3. Stream' = Stream
    <2>1. CASE Arrive
      BY <2>1, ArriveKeeps DEF Base
    <2>2. CASE TerminateTest \/ TerminateCancel \/ Unsolicited \/ UNCHANGED vars
      BY <2>2 DEF TerminateTest, TerminateCancel, Unsolicited, vars, chan, Stream
    <2> QED BY <2>1, <2>2
  <1>4. Left' = Left /\ Consumed' = Consumed
    BY <1>1 DEF Left, Consumed
  <1>5. ASSUME ~ upset', pc' \in Reading
        PROVE  /\ Collected(got', writes', returned') /\ Collected(part', writes', returned' + Len(got'))
               /\ Own(Stream', queries', writes', Consumed')
               /\ Ahead(pc', Stream', writes', Left')
    BY <1>1, <1>2, <1>3, <1>4, <1>5, OwnFacts
  <1> QED BY <1>5, OwnKept

(* Elsewhere nothing is read, or nothing after it.                         *)
LEMMA AwayOwn ==
  ASSUME Framing',
         \/ BadHeader \/ Interrupted \/ Drain \/ TerminateClear \/ AwaitInterrupted \/ AwaitTimeout
         \/ TerminateComplete \/ ClearComplete \/ Clear \/ TerminateGivesUp \/ ClearGivesUp
  PROVE  OwnInv'
  <1>1. ASSUME pc' \notin Reading \/ outcome' = "broken" PROVE OwnInv'
    <2>1. outcome' = "broken" => upset'
      BY DEF Framing
    <2> QED BY <1>1, <2>1 DEF OwnInv
  <1>2. ASSUME LateAnswer \/ NoAcknowledgement PROVE OwnInv'
    BY <1>2, Zenon DEF LateAnswer, NoAcknowledgement, Upset, OwnInv
  <1>3. CASE BadHeader
    BY <1>1, <1>3 DEF BadHeader, Broken, Raises
  <1>4. CASE Interrupted \/ Drain
    BY <1>1, <1>4 DEF Interrupted, Drain, Reading
  <1>5. CASE TerminateClear \/ Clear
    BY <1>1, <1>2, <1>5 DEF TerminateClear, Clear, AsyncDeviceClear, Reading
  <1>6. CASE AwaitInterrupted
    BY <1>1, <1>6 DEF AwaitInterrupted, Broken, Raises, Reading
  <1>7. CASE AwaitTimeout
    BY <1>1, <1>7 DEF AwaitTimeout, Reading
  <1>8. CASE TerminateComplete \/ ClearComplete
    BY <1>1, <1>8 DEF TerminateComplete, ClearComplete, DeviceClearComplete, Reading
  <1>9. CASE TerminateGivesUp \/ ClearGivesUp
    BY <1>2, <1>9 DEF TerminateGivesUp, ClearGivesUp
  <1> QED BY <1>3, <1>4, <1>5, <1>6, <1>7, <1>8, <1>9

LEMMA OwnInit == Init => OwnInv
  <1> SUFFICES ASSUME Init PROVE OwnInv
    OBVIOUS
  <1>1. Stream = <<>> /\ queries = <<>> /\ got = <<>> /\ part = <<>>
    <2>1. ChannelTypes
      BY BaseInit DEF Base
    <2> QED BY <2>1, StreamTypes DEF Init
  <1>2. Len(Stream) = 0 /\ Len(queries) = 0
    BY <1>1
  <1>3. pc = "idle" /\ payloadRemaining = 0
    BY DEF Init, NewInstrument
  <1>4. Left = 0
    BY <1>3 DEF Left
  <1>5. Own(Stream, queries, writes, Consumed)
    <2>1. InTurn(Stream, writes, Consumed)
      BY <1>2, InTurnNothing DEF Foreign
    <2> QED BY <1>2, <2>1 DEF Own
  <1>6. Ahead(pc, Stream, writes, Left)
    BY <1>4 DEF Ahead
  <1>7. Collected(got, writes, returned) /\ Collected(part, writes, returned + Len(got))
    BY <1>1, CollectedNothing
  <1> QED BY <1>5, <1>6, <1>7 DEF OwnInv

LEMMA CarryOutOwn ==
  ASSUME Astray, Warned, CarryOut
  PROVE  OwnInv'
  <1>1. upset
    BY CarryOutFacts, Zenon DEF Warned
  <1>2. upset'
    BY <1>1, Zenon DEF CarryOut
  <1> QED BY <1>2, OwnKept

LEMMA OwnNext ==
  ASSUME Base, Astray, Warned, Warned', Ids, Framing, Framing', OwnInv, [Next]_vars
  PROVE  OwnInv'
  <1>1. CASE (\E n \in 1..2 : Write(n)) \/ Trigger
    BY <1>1, SendOwn
  <1>2. CASE StatusQuery \/ OtherTransaction
    BY <1>2, TransactionOwn
  <1>3. ASSUME NEW n \in Counts, BeginRead(n) PROVE OwnInv'
    BY <1>3, BeginReadOwn
  <1>4. CASE ReceiveStep
    BY <1>4, NextDataHeaderOwn, MismatchOwn, FlushOwn, AwayOwn, PayloadOwn, ReadTimeoutOwn
       DEF ReceiveStep
  <1>5. CASE TerminateStep \/ ClearStep \/ Clear
    BY <1>5, AwayOwn, EndOwn DEF TerminateStep, ClearStep
  <1>6. CASE Arrive \/ TerminateTest \/ TerminateCancel \/ Unsolicited \/ UNCHANGED vars
    BY <1>6, QuietOwn
  <1>7. ASSUME NEW shape \in Shapes, Answer(shape) PROVE OwnInv'
    BY <1>7, AnswerOwn
  <1>8. CASE CarryOut
    BY <1>8, CarryOutOwn
  <1> QED BY <1>1, <1>2, <1>3, <1>4, <1>5, <1>6, <1>7, <1>8 DEF Next

-----------------------------------------------------------------------------
(* What reads return.                                                      *)
LEMMA ResponseData ==
  ASSUME (outcome' = "ok" /\ ~ upset') =>
            /\ data' \in Seq(Items)
            /\ \A k \in 1..Len(data') : data'[k] = Unit(writes', returned' - Len(data') + k)
  PROVE  DataIsResponse'
  <1> SUFFICES ASSUME outcome' = "ok", ~ upset'
               PROVE  data' = [k \in 1..Len(data') |-> Unit(writes', returned' - Len(data') + k)]
    BY Zenon DEF DataIsResponse
  <1>1. /\ data' \in Seq(Items)
        /\ \A k \in 1..Len(data') : data'[k] = Unit(writes', returned' - Len(data') + k)
    BY Zenon
  <1>2. data' = [k \in 1..Len(data') |-> data'[k]]
    BY <1>1
  <1> QED BY <1>1, <1>2

LEMMA OtherData ==
  ASSUME outcome' # "ok"
  PROVE  DataIsResponse'
  BY DEF DataIsResponse

LEMMA NoData ==
  ASSUME data' = <<>>
  PROVE  DataIsResponse'
  <1>1. data' \in Seq(Items) /\ Len(data') = 0
    OBVIOUS
  <1> QED BY <1>1, ResponseData

LEMMA SameData ==
  ASSUME DataIsResponse, UNCHANGED <<outcome, data, returned, writes>>, upset => upset'
  PROVE  DataIsResponse'
  BY DEF DataIsResponse

LEMMA LoopData ==
  ASSUME NEW n, NEW g \in Seq(Items), NEW left, NEW type, Looped(n, g, left, type),
         returned \in Nat, writes' = writes, upset => upset', DataIsResponse,
         ~ upset => Collected(g, writes, returned)
  PROVE  DataIsResponse'
  <1>1. CASE data' = g /\ returned' = returned + Len(g)
    <2>1. Len(g) \in Nat
      OBVIOUS
    <2>2. ASSUME NEW k \in 1..Len(g) PROVE returned + Len(g) - Len(g) + k = returned + k
      BY <2>1
    <2>3. ~ upset => \A k \in 1..Len(g) : g[k] = Unit(writes', returned' - Len(data') + k)
      BY <1>1, <2>2 DEF Collected
    <2> QED BY <1>1, <2>3, ResponseData
  <1>2. CASE UNCHANGED <<outcome, data, returned>>
    BY <1>2, SameData
  <1> QED BY <1>1, <1>2 DEF Looped

LEMMA ReadData ==
  ASSUME Base, Framing, OwnInv, DataIsResponse, upset => upset',
         (\E n \in Counts : BeginRead(n)) \/ NextDataHeader \/ Payload
  PROVE  DataIsResponse'
  <1>1. /\ returned \in Nat /\ got \in Seq(Items) /\ Len(got) \in Nat /\ count \in Nat
        /\ payloadRemaining \in Nat
    BY DEF Base, ClientTypes
  <1>2. ASSUME NEW n \in Counts, BeginRead(n) PROVE DataIsResponse'
    <2>1. Loop(n, <<>>, payloadRemaining, msgType) /\ writes' = writes
      BY <1>2 DEF BeginRead
    <2>2. n \in Nat /\ Len(<<>>) \in Nat /\ <<>> \in Seq(Items)
      BY ConstantsAssumption
    <2>3. Looped(n, <<>>, payloadRemaining, msgType)
      BY <1>1, <2>1, <2>2, LoopFacts
    <2>4. Collected(<<>>, writes, returned)
      BY CollectedNothing
    <2> QED BY <1>1, <2>1, <2>2, <2>3, <2>4, LoopData
  <1>3. CASE NextDataHeader
    <2>1. /\ pc = "header" /\ buf # <<>> /\ buf' = Tail(buf) /\ UNCHANGED <<net, queries, writes>>
          /\ IsData(Head(buf)) /\ Loop(count, got, Head(buf).len, Head(buf).type)
      BY <1>3 DEF NextDataHeader, Ready
    <2>2. Head(buf).len \in Nat
      <3>1. Head(buf) \in Items
        BY <2>1, TakenChannel DEF Base
      <3> QED BY <2>1, <3>1, ItemTypes DEF IsData, IsHeader
    <2>3. Looped(count, got, Head(buf).len, Head(buf).type)
      BY <1>1, <2>1, <2>2, LoopFacts
    <2>4. ~ upset => Collected(got, writes, returned)
      BY <2>1, OwnFacts DEF Reading
    <2> QED BY <1>1, <2>1, <2>3, <2>4, LoopData
  <1>4. CASE Payload
    <2>1. /\ pc = "payload" /\ buf # <<>> /\ buf' = Tail(buf) /\ UNCHANGED <<net, queries, writes>>
      BY <1>4 DEF Payload, Ready
    <2> DEFINE all == got \o Filled
    <2>2. ~ upset => Collected(all, writes, returned)
      BY <2>1, NextUnit
    <2>3. \/ Looped(count, all, Left - 1, msgType) /\ all \in Seq(Items)
          \/ UNCHANGED <<outcome, data, returned>>
      BY <1>4, PayloadCases
    <2> HIDE DEF all
    <2> QED BY <1>1, <2>1, <2>2, <2>3, LoopData, SameData
  <1> QED BY <1>2, <1>3, <1>4

LEMMA DataInit == Init => DataIsResponse
  BY DEF Init, DataIsResponse

LEMMA DataNext ==
  ASSUME Base, Framing, OwnInv, DataIsResponse, [Next]_vars
  PROVE  DataIsResponse'
  <1>1. upset => upset'
    BY UpsetStays
  <1>2. CASE \/ (\E n \in 1..2 : Write(n)) \/ Trigger \/ BadHeader \/ ReadTimeout \/ LateAnswer
             \/ NoAcknowledgement \/ TerminateEnd \/ ClearEnd
    <2>1. outcome' # "ok"
      BY <1>2 DEF Write, Trigger, BadHeader, ReadTimeout, LateAnswer, NoAcknowledgement,
         TerminateEnd, ClearEnd, Broken, Raises
    <2> QED BY <2>1, OtherData
  <1>3. CASE StatusQuery \/ OtherTransaction
    <2>1. data' = <<>>
      BY <1>3 DEF StatusQuery, OtherTransaction, Transaction
    <2> QED BY <2>1, NoData
  <1>4. CASE Interrupted
    <2>1. data' = <<>>
      BY <1>4 DEF Interrupted
    <2> QED BY <2>1, NoData
  <1>5. CASE (\E n \in Counts : BeginRead(n)) \/ NextDataHeader \/ Payload
    BY <1>1, <1>5, ReadData
  <1>6. CASE \/ Mismatch \/ Flush \/ Drain \/ AwaitTimeout
             \/ TerminateComplete \/ ClearComplete \/ TerminateTest \/ TerminateCancel
             \/ CarryOut \/ Unsolicited \/ Arrive \/ UNCHANGED vars
    <2>1. UNCHANGED <<outcome, data, returned, writes>>
      BY <1>6 DEF Mismatch, Flush, Drain, AwaitTimeout, TerminateComplete, ClearComplete,
         DeviceClearComplete, TerminateTest, TerminateCancel, CarryOut, Unsolicited, Arrive, vars, io
    <2> QED BY <1>1, <2>1, SameData
  <1>7. ASSUME NEW shape \in Shapes, Answer(shape) PROVE DataIsResponse'
    <2>1. UNCHANGED <<outcome, data, returned, writes>>
      BY <1>7 DEF Answer, io
    <2> QED BY <1>1, <2>1, SameData
  <1>8. CASE AwaitInterrupted
    <2>1. outcome' = "broken" \/ UNCHANGED <<outcome, data, returned, writes>>
      BY <1>8 DEF AwaitInterrupted, Broken, Raises
    <2> QED BY <1>1, <2>1, SameData, OtherData
  <1>9. ASSUME NEW there, AsyncDeviceClear(there) PROVE DataIsResponse'
    <2>1. UNCHANGED <<outcome, data, returned, writes>>
      BY <1>9 DEF AsyncDeviceClear
    <2> QED BY <1>1, <2>1, SameData
  <1>10. CASE Clear \/ TerminateClear \/ TerminateGivesUp \/ ClearGivesUp
    BY <1>2, <1>9, <1>10 DEF Clear, TerminateClear, TerminateGivesUp, ClearGivesUp
  <1> QED BY <1>2, <1>3, <1>4, <1>5, <1>6, <1>7, <1>8, <1>10
          DEF Next, ReceiveStep, TerminateStep, ClearStep

(* What reads return, one after the other, is the response to the last     *)
(* write from its first unit on, until the client is upset: nothing of an  *)
(* older response, nothing twice, nothing left out.                        *)
THEOREM Data_is_response == Spec => []DataIsResponse
  <1> DEFINE I == /\ Base /\ Astray /\ Warned /\ Receptive
                  /\ Ids /\ Framing /\ OwnInv /\ DataIsResponse
  <1>1. Init => I
    BY BaseInit, AstrayInit, IdsInit, FramingInit, OwnInit, DataInit
  <1>2. I /\ [Next]_vars => I'
    BY BaseNext, AstrayNext, WarnedNext, IdsNext, ReceptiveNext, FramingNext, OwnNext, DataNext
  <1>3. I => DataIsResponse
    OBVIOUS
  <1> QED BY <1>1, <1>2, <1>3, PTL DEF Spec

-----------------------------------------------------------------------------
(* Every step of a call leads towards its end.                             *)
Onwards ==
    \/ Stage' < Stage
    \/ Stage' = Stage /\ Owed' \subseteq Owed /\ Owed' # Owed
    \/ Stage' = Stage /\ late' = late /\ Len(queries') < Len(queries)
    \/ Stage' = Stage /\ late' = late /\ queries' = queries /\ Unread' < Unread
    \/ (TerminateTest \/ TerminateCancel \/ Unsolicited) /\ UNCHANGED <<io, chan>>

(* What the stages are, before a step and after it.                        *)
LEMMA Stages ==
  /\ pc \in Reception => Stage = 6
  /\ pc = "drain" => Stage = 5
  /\ pc = "async clear" => Stage = 4
  /\ pc = "await" => Stage = 3
  /\ pc \in {"complete", "clear"} => Stage = 2
  /\ pc \in {"acknowledge", "cleared"} => Stage = 1
  BY DEF Stage, Receiving, Reception

LEMMA StagesAfter ==
  /\ pc' \in Reception => Stage' = 6
  /\ pc' = "drain" => Stage' = 5
  /\ pc' = "async clear" => Stage' = 4
  /\ pc' = "await" => Stage' = 3
  /\ pc' \in {"complete", "clear"} => Stage' = 2
  /\ pc' \in {"acknowledge", "cleared"} => Stage' = 1
  /\ pc' = "idle" => Stage' = 0
  BY DEF Stage, Receiving, Reception

LEMMA EndsCall == ASSUME pc \in Places \ {"idle"}, pc' = "idle" PROVE Onwards
  <1>1. pc \in Reception \cup {"drain", "async clear", "await", "complete", "clear", "acknowledge",
                              "cleared"}
    BY DEF Places, Reception
  <1>2. Stage \in {1, 2, 3, 4, 5, 6} /\ Stage' = 0
    BY <1>1, Stages, StagesAfter
  <1> QED BY <1>2 DEF Onwards

(* A step that takes a unit or a header and goes on where it was, or where *)
(* another is expected.                                                    *)
LEMMA TakesOne ==
  ASSUME ChannelTypes, pc \in Places \ {"idle"}, buf # <<>>, buf' = Tail(buf),
         UNCHANGED <<net, queries, late>>,
         pc' = "idle" \/ pc' = pc \/ (pc \in Reception /\ pc' \in Reception)
  PROVE  Onwards
  <1>1. Len(buf) \in Nat \ {0} /\ Len(net) \in Nat /\ Len(Tail(buf)) = Len(buf) - 1
    BY DEF ChannelTypes
  <1>2. Unread' < Unread
    <2>1. Unread = 2 * Len(net) + Len(buf) /\ Unread' = 2 * Len(net) + Len(Tail(buf))
      BY DEF Unread
    <2> QED BY ONLY <1>1, <2>1
  <1>3. CASE pc' = "idle"
    BY <1>3, EndsCall
  <1>4. CASE pc' = pc
    BY <1>2, <1>4 DEF Onwards, Stage, Receiving
  <1>5. CASE pc \in Reception /\ pc' \in Reception
    BY <1>2, <1>5, Stages, StagesAfter DEF Onwards
  <1> QED BY <1>3, <1>4, <1>5

LEMMA LoopGoesOn ==
  ASSUME NEW n, NEW g, NEW left, NEW type, Loop(n, g, left, type)
  PROVE  pc' \in {"idle", "header", "payload"}
  BY DEF Loop, Wanted

LEMMA ReceiveOnwards == ASSUME ChannelTypes, ReceiveStep, pc \in Places \ {"idle"} PROVE Onwards
  <1>1. CASE NextDataHeader \/ Mismatch \/ Flush \/ BadHeader \/ Payload
    <2>1. /\ buf # <<>> /\ buf' = Tail(buf) /\ UNCHANGED <<net, queries, late>> /\ pc \in Reception
      BY <1>1 DEF NextDataHeader, Mismatch, Flush, BadHeader, Payload, Ready, Reception, term, astray
    <2>2. pc' = "idle" \/ pc' = pc \/ pc' \in Reception
      <3>1. CASE NextDataHeader
        <4>1. pc' \in {"idle", "header", "payload"}
          BY <3>1, LoopGoesOn DEF NextDataHeader
        <4> QED BY <4>1 DEF Reception
      <3>2. CASE Mismatch \/ Flush \/ BadHeader
        BY <3>2 DEF Mismatch, Flush, BadHeader, Broken, Raises, Reception
      <3>3. CASE Payload
        <4>1. pc' \in {"idle", "header", "payload"} \/ pc' = pc
          BY <3>3, LoopGoesOn DEF Payload
        <4> QED BY <4>1 DEF Reception
      <3> QED BY <1>1, <3>1, <3>2, <3>3
    <2> QED BY <2>1, <2>2, TakesOne
  <1>2. CASE ReadTimeout
    BY <1>2, EndsCall DEF ReadTimeout
  <1>3. CASE Interrupted
    <2>1. pc \in Reception /\ pc' = "drain"
      BY <1>3 DEF Interrupted, Receiving, Reception
    <2>2. Stage = 6 /\ Stage' = 5
      BY <2>1, Stages, StagesAfter
    <2> QED BY <2>2 DEF Onwards
  <1> QED BY <1>1, <1>2, <1>3 DEF ReceiveStep

LEMMA TerminateOnwards == ASSUME ChannelTypes, TerminateStep, pc \in Places \ {"idle"} PROVE Onwards
  <1>1. CASE Drain
    <2>1. Stage = 5 /\ Stage' = 4
      BY <1>1, Stages, StagesAfter DEF Drain
    <2> QED BY <2>1 DEF Onwards
  <1>2. CASE TerminateClear
    <2>1. pc = "async clear" /\ pc' \in {"await", "idle"}
      BY <1>2 DEF TerminateClear, AsyncDeviceClear, LateAnswer, NoAcknowledgement, Raises
    <2>2. Stage = 4 /\ Stage' \in {3, 0}
      BY <2>1, Stages, StagesAfter
    <2> QED BY <2>2 DEF Onwards
  <1>3. CASE AwaitInterrupted
    <2>1. /\ pc = "await" /\ buf # <<>> /\ buf' = Tail(buf) /\ UNCHANGED <<net, queries, late>>
          /\ pc' \in {"idle", "complete", "await"}
      BY <1>3 DEF AwaitInterrupted, Broken, Raises, term, astray
    <2>2. CASE pc' = "complete"
      <3>1. Stage = 3 /\ Stage' = 2
        BY <2>1, <2>2, Stages, StagesAfter
      <3> QED BY <3>1 DEF Onwards
    <2>3. CASE pc' # "complete"
      BY <2>1, <2>3, TakesOne
    <2> QED BY <2>2, <2>3
  <1>4. CASE AwaitTimeout
    <2>1. Stage = 3 /\ Stage' = 2
      BY <1>4, Stages, StagesAfter DEF AwaitTimeout
    <2> QED BY <2>1 DEF Onwards
  <1>5. CASE TerminateComplete
    <2>1. Stage = 2 /\ Stage' = 1
      BY <1>5, Stages, StagesAfter DEF TerminateComplete, DeviceClearComplete
    <2> QED BY <2>1 DEF Onwards
  <1>6. CASE TerminateEnd \/ TerminateGivesUp
    <2>1. pc' = "idle"
      BY <1>6 DEF TerminateEnd, TerminateGivesUp, NoAcknowledgement, Broken, Raises
    <2> QED BY <2>1, EndsCall
  <1> QED BY <1>1, <1>2, <1>3, <1>4, <1>5, <1>6 DEF TerminateStep

LEMMA ChannelOnwards ==
  ASSUME ChannelTypes, pc \in Places \ {"idle"}, Arrive \/ \E shape \in Shapes : Answer(shape)
  PROVE  Onwards
  <1>1. pc' = pc /\ late' = late
    BY DEF Arrive, Answer, io, term, astray
  <1>2. Stage' = Stage
    BY <1>1 DEF Stage, Receiving
  <1>3. CASE Arrive
    <2>1. net # <<>> /\ net' = Tail(net) /\ buf' = Append(buf, Head(net)) /\ queries' = queries
      BY <1>3 DEF Arrive
    <2>2. Len(net) \in Nat \ {0} /\ Len(buf) \in Nat /\ Len(Tail(net)) = Len(net) - 1
          /\ Head(net) \in Items
      BY <2>1 DEF ChannelTypes
    <2>3. Len(Append(buf, Head(net))) = Len(buf) + 1
      BY <2>2 DEF ChannelTypes
    <2>4. Unread' = 2 * Len(Tail(net)) + Len(Append(buf, Head(net))) /\ Unread = 2 * Len(net) + Len(buf)
      BY <2>1 DEF Unread
    <2>5. Unread' < Unread
      BY ONLY <2>2, <2>3, <2>4
    <2> QED BY <1>1, <1>2, <2>1, <2>5 DEF Onwards
  <1>4. CASE \E shape \in Shapes : Answer(shape)
    <2>1. queries # <<>> /\ queries' = Tail(queries)
      BY <1>4 DEF Answer
    <2>2. Len(queries) \in Nat \ {0} /\ Len(Tail(queries)) = Len(queries) - 1
      BY <2>1 DEF ChannelTypes
    <2>3. Len(queries') < Len(queries)
      BY <2>1, <2>2
    <2> QED BY <1>1, <1>2, <2>3 DEF Onwards
  <1> QED BY <1>3, <1>4

(* A clear that was owed is one no longer.                                 *)
LEMMA CarryOutOnwards == ASSUME Astray, CarryOut PROVE Onwards
  <1>1. PICK i \in 1..Len(late) : late[i] = "owed" /\ late' = [late EXCEPT ![i] = "clear"]
    BY DEF CarryOut
  <1>2. late \in Seq(LateItems)
    BY DEF Astray
  <1>3. /\ Len(late') = Len(late) /\ late'[i] = "clear"
        /\ \A j \in 1..Len(late) \ {i} : late'[j] = late[j]
    BY <1>1, <1>2
  <1>4. Owed' \subseteq Owed /\ i \in Owed /\ i \notin Owed'
    BY <1>1, <1>3 DEF Owed
  <1>5. pc' = pc
    BY DEF CarryOut, io
  <1>6. Stage' = Stage
    BY <1>5 DEF Stage, Receiving
  <1> QED BY <1>4, <1>6 DEF Onwards

LEMMA CallOnwards == ASSUME Base, Astray, Next, pc # "idle" PROVE Onwards
  <1>1. ChannelTypes /\ pc \in Places \ {"idle"}
    BY DEF Base, ClientTypes
  <1>2. CASE ReceiveStep
    BY <1>1, <1>2, ReceiveOnwards
  <1>3. CASE TerminateStep
    BY <1>1, <1>3, TerminateOnwards
  <1>4. CASE ClearComplete
    <2>1. Stage = 2 /\ Stage' = 1
      BY <1>4, Stages, StagesAfter DEF ClearComplete, DeviceClearComplete
    <2> QED BY <2>1 DEF Onwards
  <1>5. CASE ClearEnd \/ ClearGivesUp
    <2>1. pc' = "idle"
      BY <1>5 DEF ClearEnd, ClearGivesUp, NoAcknowledgement, Broken, Raises
    <2> QED BY <1>1, <2>1, EndsCall
  <1>6. CASE TerminateTest \/ TerminateCancel \/ Unsolicited
    BY <1>6 DEF TerminateTest, TerminateCancel, Unsolicited, Onwards
  <1>10. CASE CarryOut
    BY <1>10, CarryOutOnwards
  <1>7. CASE Arrive \/ \E shape \in Shapes : Answer(shape)
    BY <1>1, <1>7, ChannelOnwards
  <1>8. ~ Trigger /\ ~ Clear /\ ~ StatusQuery /\ ~ OtherTransaction
    BY DEF Trigger, Clear, StatusQuery, OtherTransaction, Transaction, Idle
  <1>9. ~ (\E n \in 1..2 : Write(n)) /\ ~ (\E n \in Counts : BeginRead(n))
    BY DEF Write, BeginRead, Idle
  <1> QED BY <1>2, <1>3, <1>4, <1>5, <1>6, <1>7, <1>8, <1>9, <1>10 DEF Next, ClearStep

(* Whatever happens during a call takes it to a later stage, carries out a *)
(* clear the server owed, answers a query, or takes something out of the   *)
(* channel, unless it is the other thread's terminate() or an unsolicited  *)
(* message of the asynchronous channel: however many messages have to be   *)
(* discarded, and whatever else the server sends, receive(),               *)
(* complete_terminate() and device_clear() do not go round for ever        *)
(* (hislip.py).                                                            *)
THEOREM Calls_advance == Spec => CallsAdvance
  <1>1. Base /\ Astray /\ [Next]_vars => [pc # "idle" => Onwards]_vars
    BY CallOnwards
  <1> QED BY <1>1, Channel_types, PTL DEF Spec, CallsAdvance, Onwards
=============================================================================

----------------------------- MODULE RawSocket ------------------------------
(***************************************************************************)
(* A TCPIPSocketSession (tcpip.py) of its own: one thread reads, another   *)
(* writes, clears and flushes, and the instrument sends, takes what is     *)
(* written as it likes, and may close the connection.  SocketSession has   *)
(* the rounds of read(); here they interleave with the other calls.        *)
(*                                                                         *)
(* A connection that is closed is readable for select, and recv() returns  *)
(* nothing, at once.  One that is reset raises out of every call and is    *)
(* left out.                                                               *)
(***************************************************************************)
EXTENDS SocketSession

CONSTANTS SockCounts,       \* values of read(count)
          Lengths,          \* lengths of what is written, in units
          ChunkSize,        \* chunk_size of write()
          MaxSent, MaxReads, MaxOthers      \* bounds

ASSUME SocketAssumption ==
    SockCounts \subseteq Nat \ {0} /\ Lengths \subseteq Nat /\ ChunkSize \in Nat \ {0}

VARIABLES
    timed,          \* Session.timeout is not None
    closed,         \* the instrument has closed the connection
    sent,
    want, mode,     \* of the read under way
    ready,          \* its select has found the socket readable, recv comes next
    emptied,        \* history: the other thread emptied the buffer between
                    \* the tests of this read and its first slice
    sockResult, reads,
    other, others,  \* of the other thread: "idle", "clear", "recv" (of a clear), "write"
    num, offset,    \* of its write
    took,           \* ghost: units of this write that the socket took
    reported        \* what the last write returned

options == <<termEn, suppressEnd, timed>>
buffers == <<pending, chunk, arrived>>
instrument == <<closed, sent>>
asked == <<want, mode, reads>>
reading == <<asked, ready, cut, emptied, sockResult>>
writing == <<num, offset, took, reported>>
sockvars == <<options, buffers, instrument, reading, other, others, writing>>

NoMode == FALSE
Modes == BOOLEAN

SockInit ==
    /\ termEn \in BOOLEAN /\ suppressEnd \in BOOLEAN /\ timed \in BOOLEAN
    /\ pending = <<>> /\ arrived = <<>> /\ chunk = <<>> /\ cut = NoCut
    /\ closed = FALSE /\ sent = 0
    /\ want = 0 /\ mode = NoMode /\ reads = 0 /\ ready = FALSE /\ emptied = FALSE
    /\ sockResult = [data |-> <<>>, how |-> "none", torn |-> FALSE]
    /\ other = "idle" /\ others = 0
    /\ num = 0 /\ offset = 0 /\ took = 0
    /\ reported = [count |-> 0, status |-> "none", length |-> 0, took |-> 0]

(* The instrument.  Its units are numbered.                                *)
SendUnit ==
    /\ ~ closed /\ sent < MaxSent
    /\ sent' = sent + 1
    /\ \E term \in BOOLEAN : arrived' = Append(arrived, [no |-> sent', term |-> term])
    /\ UNCHANGED <<options, pending, chunk, closed, reading, other, others, writing>>

CloseConnection ==
    /\ ~ closed /\ closed' = TRUE
    /\ UNCHANGED <<options, buffers, sent, reading, other, others, writing>>

-----------------------------------------------------------------------------
BeginRead(count) ==
    /\ want = 0 /\ reads < MaxReads
    /\ reads' = reads + 1
    /\ want' = count /\ mode' = termEn
    /\ UNCHANGED <<options, buffers, instrument, ready, cut, emptied, sockResult, other, others, writing>>

Select ==
    /\ want # 0 /\ cut.at = "loop" /\ chunk = <<>>
    /\ ~ ready /\ ~ Complete(want) /\ arrived # <<>>
    /\ ready' = TRUE
    /\ UNCHANGED <<options, buffers, instrument, asked, cut, emptied, sockResult, other, others, writing>>

SocketReceives ==
    /\ ready /\ ReadRecv(want)
    /\ ready' = FALSE
    /\ UNCHANGED <<options, instrument, asked, emptied, sockResult, other, others, writing>>

(* The clear of the other thread took what select had found: the socket is *)
(* a blocking one, and recv waits for more, whatever the timeout.          *)
Blocked == ready /\ arrived = <<>> /\ ~ closed

(* A plausible slip: a read that has nothing does not look at the time.    *)
SomeCame == cut'.how = "timeout" => timed /\ pending # <<>>

(* Without a timeout finish_time is None.                                  *)
InTime == cut'.how = "timeout" => timed

ReadDecides ==
    /\ want # 0 /\ ~ Blocked
    /\ ReadTests(want) /\ InTime
    /\ ready' = FALSE
    /\ UNCHANGED <<options, instrument, asked, emptied, sockResult, other, others, writing>>

ReadGoesOn ==
    /\ want # 0
    /\ ReadExtend \/ ReadIndex(want) \/ ReadCut \/ ReadRest
    /\ UNCHANGED <<options, instrument, asked, ready, emptied, sockResult, other, others, writing>>

ReadEnds ==
    /\ want # 0 /\ ReadReturn
    /\ sockResult' = [data |-> cut.out, torn |-> emptied,
                      how |-> CASE ReadStatus = "term" -> "end"
                                [] ReadStatus = "count" -> "count"
                                [] OTHER -> "failed"]
    /\ want' = 0 /\ mode' = NoMode /\ emptied' = FALSE
    /\ UNCHANGED <<options, instrument, reads, ready, other, others, writing>>

-----------------------------------------------------------------------------
BeginOther(name) ==
    /\ other = "idle" /\ others < MaxOthers
    /\ others' = others + 1
    /\ other' = name

(* _pending_buffer.clear()                                                 *)
EmptiesBuffer ==
    /\ pending' = <<>>
    /\ emptied' = (emptied \/ cut.at \in {"index", "cut"})
    /\ UNCHANGED <<chunk, cut, asked, ready, sockResult>>

Clear ==
    /\ BeginOther("clear")
    /\ EmptiesBuffer
    /\ UNCHANGED <<options, arrived, instrument, writing>>

ClearSelect ==
    /\ other = "clear" /\ arrived # <<>>
    /\ other' = "recv"
    /\ UNCHANGED <<options, buffers, instrument, reading, others, writing>>

ClearRecv ==
    /\ other = "recv" /\ (arrived # <<>> \/ closed)
    /\ arrived' = <<>> /\ other' = "clear"
    /\ UNCHANGED <<options, pending, chunk, instrument, reading, others, writing>>

(* select finds nothing for 0.1 s.  A closed connection is never silent.   *)
ClearDone ==
    /\ other = "clear" /\ arrived = <<>> /\ ~ closed
    /\ other' = "idle"
    /\ UNCHANGED <<options, buffers, instrument, reading, others, writing>>

(* flush() with a mask that does no I/O.                                   *)
FlushPending ==
    /\ other = "idle" /\ others < MaxOthers
    /\ others' = others + 1
    /\ EmptiesBuffer
    /\ UNCHANGED <<options, arrived, instrument, other, writing>>

BeginWrite(n) ==
    /\ BeginOther("write")
    /\ num' = n /\ offset' = 0 /\ took' = 0
    /\ UNCHANGED <<options, buffers, instrument, reading, reported>>

Returns(count, status) ==
    /\ other' = "idle"
    /\ reported' = [count |-> count, status |-> status, length |-> offset + num, took |-> took']
    /\ UNCHANGED <<num, offset>>

(* What the socket took of the block is not counted.                       *)
ShortSend(block) == Returns(offset, "error_io")

(* select without a timeout, send() of one block.                          *)
SendBlock ==
    /\ other = "write" /\ num > 0
    /\ LET block == Least(ChunkSize, num)
       IN  \E size \in 1..block :
            /\ took' = took + size
            /\ \/ size < block /\ ShortSend(block)
               \/ /\ size = block
                  /\ offset' = offset + size /\ num' = num - size
                  /\ UNCHANGED <<other, reported>>
    /\ UNCHANGED <<options, buffers, instrument, reading, others>>

AllSent ==
    /\ other = "write" /\ num = 0
    /\ UNCHANGED took
    /\ Returns(offset, "success")
    /\ UNCHANGED <<options, buffers, instrument, reading, others>>

SockNext ==
    \/ SendUnit \/ CloseConnection
    \/ \E n \in SockCounts : BeginRead(n)
    \/ Select \/ SocketReceives \/ ReadDecides \/ ReadGoesOn \/ ReadEnds
    \/ Clear \/ ClearSelect \/ ClearRecv \/ ClearDone \/ FlushPending
    \/ \E n \in Lengths : BeginWrite(n)
    \/ SendBlock \/ AllSent

(* The client's threads go on; write() waits for the instrument without a  *)
(* limit.                                                                  *)
SockFairness ==
    /\ WF_sockvars(Select \/ SocketReceives \/ ReadDecides \/ ReadGoesOn \/ ReadEnds)
    /\ WF_sockvars(ClearSelect \/ ClearRecv \/ ClearDone)

SockSpec == SockInit /\ [][SockNext]_sockvars /\ SockFairness

-----------------------------------------------------------------------------
(* What waits for the next read.  A read that has taken its slice has      *)
(* settled what it returns.                                                *)
Held == CASE cut.at = "rest" -> cut.out \o Behind(cut.size)
          [] cut.at = "store" -> cut.out \o cut.rest
          [] OTHER -> pending
Waiting == Held \o chunk \o arrived

(* What read() promises.  A read whose buffer is emptied between its tests *)
(* and its slice is torn: it reports the termination character or `count`  *)
(* units and returns nothing, and counts as a read that failed.            *)
Stops(u, m) == m /\ u.term
SockOutcome == [data |-> sockResult.data,
                how |-> IF sockResult.torn THEN "failed" ELSE sockResult.how]
AbstractStream == INSTANCE MessageRead
    WITH input <- Waiting, result <- SockOutcome, Lossy <- FALSE

(* A read returns what comes next, up to the termination character and     *)
(* never beyond it or count, and leaves the rest for the next read, at     *)
(* whichever of its steps the other thread clears or flushes: only the     *)
(* status of a read that is torn is wrong.  (What is cleared between the   *)
(* second slice of a read and its assignment stays.)                       *)
ReadsInOrder == AbstractStream!MSpec

(* The reading thread itself throws nothing away.                          *)
ReaderKeepsAll ==
    [][(want # 0 /\ UNCHANGED <<instrument, other, others>>)
          => UNCHANGED Waiting \/ AbstractStream!Return]_sockvars

(* A read with a time limit ends although the instrument is silent or has  *)
(* closed the connection, and a clear ends unless the connection is closed:*)
(* then its loop never finds the socket silent.  Of two threads that read  *)
(* and clear at once, one may take what the other's select has found; that *)
(* one is excepted.                                                        *)
SockCallsEnd ==
    /\ (want # 0 /\ timed) ~> (want = 0 \/ Blocked)
    /\ other \in {"clear", "recv"} ~>
          (other \notin {"clear", "recv"} \/ closed \/ (other = "recv" /\ arrived = <<>>))

(* write() reports success only for the whole message and never more than  *)
(* the socket took.                                                        *)
ReportedTaken ==
    /\ reported.count <= reported.took
    /\ reported.status = "success" => reported.took = reported.length

(* All of the session: what a raw socket returns and what it reports.      *)
SocketStreams == ReadsInOrder /\ ReaderKeepsAll /\ []ReportedTaken
=============================================================================

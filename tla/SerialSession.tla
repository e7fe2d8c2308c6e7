--------------------------- MODULE SerialSession ---------------------------
(***************************************************************************)
(* SerialSession (serial.py): write with its four ways to end a message,   *)
(* read through Session._read (sessions.py) one byte at a time, flush, and *)
(* what the attributes and the timeout do to them.                         *)
(*                                                                         *)
(* The other end of the line is a loopback, as in the repository's own     *)
(* test ("loop://"): the port sends every byte back to its receive buffer. *)
(* So the bytes that arrive are those that SerialSession itself sends, and *)
(* a message comes back in the END mode it was written in.  A byte on the  *)
(* line carries, as a ghost, whether it is the last one of its write.      *)
(*                                                                         *)
(* One thread writes, one reads, and any thread may flush or set an        *)
(* attribute.  The port sends the lower `bits` bits of a byte.             *)
(***************************************************************************)
EXTENDS Naturals, Sequences

CONSTANTS Messages,     \* what write() is given: sequences of numbers
          EndIns,       \* values of VI_ATTR_ASRL_END_IN
          EndOuts,      \* values of VI_ATTR_ASRL_END_OUT
          DataBits,     \* values of VI_ATTR_ASRL_DATA_BITS
          TermChar,     \* VI_ATTR_TERMCHAR
          Timeouts,     \* values of Session.timeout: "infinite" is None
          Counts,       \* values of read(count)
          MaxWrites, MaxReads, MaxSets, MaxFlushes      \* bounds on the calls

ASSUME ConstantsAssumption ==
    /\ Messages \subseteq Seq(Nat)
    /\ EndIns \subseteq {"none", "last_bit", "termination_char"}
    /\ EndOuts \subseteq {"none", "last_bit", "termination_char", "termination_break"}
    /\ DataBits \subseteq 5..8 /\ TermChar \in Nat     \* what a port can be set to
    /\ Timeouts \subseteq {"infinite", "finite"}
    /\ Counts \subseteq Nat \ {0}
    /\ MaxWrites \in Nat /\ MaxReads \in Nat /\ MaxSets \in Nat /\ MaxFlushes \in Nat

VARIABLES
    endIn, endOut, sendEnd, suppress,   \* attributes of the session
    bits,                               \* bytesize of the port
    timeout,                            \* of the session and of the port
    sending,                            \* transmit buffer of the port
    line,                               \* receive buffer of the port
    want,                               \* count of the read under way, or 0
    mode,                               \* what this read looks for
    out,                                \* _read(): out
    result,                             \* what the last read returned
    wrote,                              \* how the last write ended
    writes, reads, sets, flushes

attrs == <<endIn, endOut, sendEnd, suppress, bits, timeout>>
port == <<sending, line>>
reading == <<want, mode, out, result, reads>>
writing == <<wrote, writes>>
other == <<sets, flushes>>
vars == <<attrs, port, reading, writing, other>>

NoMode == [end |-> "none", bits |-> 0, suppress |-> TRUE, timed |-> FALSE]
Modes == [end : EndIns \cup {"none"}, bits : DataBits \cup {0}, suppress : BOOLEAN, timed : BOOLEAN]

Units == [b : Nat, last : BOOLEAN]

TypeOK ==
    /\ endIn \in EndIns /\ endOut \in EndOuts
    /\ sendEnd \in BOOLEAN /\ suppress \in BOOLEAN
    /\ bits \in DataBits /\ timeout \in Timeouts
    /\ sending \in Seq(Units) /\ line \in Seq(Units) /\ out \in Seq(Units)
    /\ want \in Counts \cup {0}
    /\ mode \in Modes
    /\ result \in [data : Seq(Units), how : {"none", "end", "count", "failed"}]
    /\ wrote \in {"none", "ok", "timeout", "raised"}
    /\ writes \in 0..MaxWrites /\ reads \in 0..MaxReads
    /\ sets \in 0..MaxSets /\ flushes \in 0..MaxFlushes

Init ==
    /\ endIn \in EndIns /\ endOut \in EndOuts
    /\ sendEnd \in BOOLEAN /\ suppress \in BOOLEAN
    /\ bits \in DataBits /\ timeout \in Timeouts
    /\ sending = <<>> /\ line = <<>>
    /\ want = 0 /\ mode = NoMode /\ out = <<>>
    /\ result = [data |-> <<>>, how |-> "none"]
    /\ wrote = "none"
    /\ writes = 0 /\ reads = 0 /\ sets = 0 /\ flushes = 0

-----------------------------------------------------------------------------
(* iter_bytes (common.py): the bytes cut to n bits; with send_end False or *)
(* True the highest of the n is cleared, and with True it is set in the    *)
(* last byte.                                                              *)
Cut(data, n) == [i \in DOMAIN data |-> data[i] % 2^n]

(* A plausible slip: the highest bit is left alone in the other bytes.     *)
MarkLastOnly(data, n) ==
    [i \in DOMAIN data |-> IF i = Len(data) THEN (data[i] % 2^(n - 1)) + 2^(n - 1)
                                            ELSE data[i] % 2^n]

MarkLast(data, n) ==
    [i \in DOMAIN data |-> (data[i] % 2^(n - 1)) + (IF i = Len(data) THEN 2^(n - 1) ELSE 0)]

(* A plausible slip: the character after the message only with SEND_END.   *)
EncodedIfSendEnd(data) ==
    CASE endOut = "none" -> data
      [] endOut = "last_bit" -> IF sendEnd THEN MarkLast(data, bits) ELSE Cut(data, bits - 1)
      [] endOut = "termination_char" /\ sendEnd -> Append(Cut(data, bits), TermChar)
      [] OTHER -> Cut(data, bits)

(* What write() hands to the port.  A break is a condition of the line and *)
(* no byte; it is not modelled.                                            *)
Encoded(data) ==
    CASE endOut = "none" -> data
      [] endOut = "last_bit" -> IF sendEnd THEN MarkLast(data, bits) ELSE Cut(data, bits - 1)
      [] endOut = "termination_char" -> Append(Cut(data, bits), TermChar)
      [] endOut = "termination_break" -> Cut(data, bits)

(* The port sends `bits` bits of each.                                     *)
OnLine(data) == [i \in DOMAIN data |-> [b |-> data[i] % 2^bits, last |-> i = Len(data)]]

(* iter_bytes looks for the last byte of the data.                         *)
NothingToMark(data) == endOut = "last_bit" /\ sendEnd /\ data = <<>>

(* With nothing to mark write() raises IndexError.  When the port times    *)
(* out a part of the bytes has gone, and write() reports 0.                *)
Write(data) ==
    /\ writes < MaxWrites
    /\ writes' = writes + 1
    /\ \/ /\ NothingToMark(data)
          /\ wrote' = "raised"
          /\ UNCHANGED sending
       \/ /\ ~ NothingToMark(data)
          /\ sending' = sending \o OnLine(Encoded(data))
          /\ wrote' = "ok"
       \/ /\ ~ NothingToMark(data) /\ timeout # "infinite"
          /\ \E k \in 0..Len(Encoded(data)) :
                sending' = sending \o SubSeq(OnLine(Encoded(data)), 1, k)
          /\ wrote' = "timeout"
    /\ UNCHANGED <<attrs, line, reading, sets, flushes>>

(* The loopback.                                                           *)
Transmit ==
    /\ sending # <<>>
    /\ line' = Append(line, Head(sending))
    /\ sending' = Tail(sending)
    /\ UNCHANGED <<attrs, reading, writing, other>>

-----------------------------------------------------------------------------
(* read(): the attributes are looked at once, when it begins, and so is    *)
(* the time it has (finish_time); the port has the timeout of the moment.  *)
Read(n) ==
    /\ want = 0 /\ reads < MaxReads
    /\ reads' = reads + 1
    /\ want' = n
    /\ mode' = [end |-> endIn, bits |-> bits, suppress |-> suppress,
                timed |-> timeout # "infinite"]
    /\ UNCHANGED <<attrs, port, writing, other, out, result>>

HasBit(b, k) == (b \div 2^k) % 2 = 1

(* The END checkers of read(): the mask of "last_bit" is 2 ** bytesize.    *)
CarriesEnd(u, m) ==
    CASE m.end = "none" -> FALSE
      [] m.end = "last_bit" -> HasBit(u.b, m.bits)
      [] m.end = "termination_char" -> u.b = TermChar

IsStop(u, m) == CarriesEnd(u, m) /\ ~ m.suppress

Done(data, how) ==
    /\ result' = [data |-> data, how |-> how]
    /\ want' = 0 /\ mode' = NoMode /\ out' = <<>>

(* A plausible slip: the count is looked at before END.                    *)
Outcome2(taken) ==
    CASE Len(taken) >= want -> "count"
      [] Len(taken) < want /\ IsStop(taken[Len(taken)], mode) -> "end"
      [] OTHER -> "more"

(* _read() after a byte has come (rules 6.1.1 and 6.1.3 of VPP-4.3).       *)
Outcome(taken) ==
    CASE IsStop(taken[Len(taken)], mode) -> "end"
      [] ~ IsStop(taken[Len(taken)], mode) /\ Len(taken) >= want -> "count"
      [] OTHER -> "more"

(* interface.read(1) returns a byte; when the read goes on after it, its   *)
(* time may be over.                                                       *)
ReadByte ==
    /\ want # 0 /\ line # <<>>
    /\ line' = Tail(line)
    /\ LET taken == Append(out, Head(line))
       IN  IF Outcome(taken) # "more" THEN Done(taken, Outcome(taken))
           ELSE \/ /\ out' = taken
                   /\ UNCHANGED <<want, mode, result>>
                \/ mode.timed /\ Done(taken, "failed")
    /\ UNCHANGED <<attrs, sending, writing, other, reads>>

(* A plausible slip: the time is only looked at after a byte has come.     *)
ReadNothingMore ==
    /\ want # 0 /\ line = <<>> /\ out # <<>> /\ timeout # "infinite" /\ mode.timed
    /\ Done(out, "failed")
    /\ UNCHANGED <<attrs, port, writing, other, reads>>

(* It returns nothing when the timeout of the port is over; then, sooner   *)
(* or later, the time of the read is over too, if it has one.  Otherwise   *)
(* the read asks the port again and again.                                 *)
ReadNothing ==
    /\ want # 0 /\ line = <<>> /\ timeout # "infinite" /\ mode.timed
    /\ Done(out, "failed")
    /\ UNCHANGED <<attrs, port, writing, other, reads>>

-----------------------------------------------------------------------------
(* flush(): the mask combines discard_read_buffer, one that waits for the  *)
(* transmit buffer, and one that discards it, done in this order.          *)
Flush(rd, wait, discard) ==
    /\ flushes < MaxFlushes
    /\ rd \/ wait \/ discard
    /\ flushes' = flushes + 1
    /\ wait => sending = <<>>
    /\ line' = IF rd THEN <<>> ELSE line
    /\ sending' = IF discard THEN <<>> ELSE sending
    /\ UNCHANGED <<attrs, reading, writing, sets>>

(* set_attribute(), _set_timeout().                                        *)
SetAttribute ==
    /\ sets < MaxSets
    /\ sets' = sets + 1
    /\ \/ endIn' \in EndIns \ {endIn} /\ UNCHANGED <<suppress, timeout>>
       \/ suppress' = ~ suppress /\ UNCHANGED <<endIn, timeout>>
       \/ timeout' \in Timeouts \ {timeout} /\ UNCHANGED <<endIn, suppress>>
    /\ UNCHANGED <<endOut, sendEnd, bits, port, reading, writing, flushes>>

Next ==
    \/ \E data \in Messages : Write(data)
    \/ Transmit
    \/ \E n \in Counts : Read(n)
    \/ ReadByte \/ ReadNothing
    \/ \E rd, wait, discard \in BOOLEAN : Flush(rd, wait, discard)
    \/ SetAttribute

(* The port sends, and a thread that can take a byte or whose time is over *)
(* goes on.                                                                *)
Fairness == WF_vars(Transmit) /\ WF_vars(ReadByte \/ ReadNothing)

Spec == Init /\ [][Next]_vars /\ Fairness

-----------------------------------------------------------------------------
(* What read() promises.                                                   *)
Abstract == INSTANCE MessageRead
                WITH input <- out \o line, Stops <- IsStop, Lossy <- FALSE

(* A read returns the bytes that came next, in order and once, up to the   *)
(* first that ends a message and never beyond count, and its status says   *)
(* which of them it was; what it leaves is there for the next read.        *)
ReadsInOrder == Abstract!MSpec

(* The read under way looks for the END that write() gives its messages.   *)
Agreed(end) == want # 0 /\ ~ mode.suppress /\ mode.end = end /\ endOut = end

(* What is written with a termination character, one that fits into the    *)
(* data bits, is read one message at a time: a read that looks for it      *)
(* never goes past the last byte of a write, whatever part of an earlier   *)
(* message a timeout, a count or a flush has left in front of it.  And     *)
(* with last_bit and SEND_END the last byte of a write, and no other, is   *)
(* on the line with its highest bit set.                                   *)
MessagesEnd ==
    /\ Agreed("termination_char") /\ TermChar < 2^bits => \A i \in DOMAIN out : ~ out[i].last
    /\ endOut = "last_bit" /\ sendEnd =>
         \A i \in DOMAIN line : HasBit(line[i].b, bits - 1) <=> line[i].last

(* The same for the bit that iter_bytes sets in the last byte: "Always set *)
(* highest bit *of data_bits* to 1" (test_common.py).                      *)
LastBitEndsMessage ==
    Agreed("last_bit") /\ sendEnd => \A i \in DOMAIN out : ~ out[i].last

(* A read that has a time limit ends while the port has one too, although  *)
(* nothing comes.                                                          *)
CallsEnd == (want # 0 /\ mode.timed) ~> (want = 0 \/ timeout = "infinite")
=============================================================================

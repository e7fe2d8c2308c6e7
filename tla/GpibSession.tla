---------------------------- MODULE GpibSession ----------------------------
(***************************************************************************)
(* A GPIBSession (gpib.py) on an instrument: the timeout and the           *)
(* termination character it sets in the driver of linux-gpib, and read(),  *)
(* which is one call of the driver.  The instrument sends bytes, some of   *)
(* them with EOI; a read of the driver ends at EOI or at the end-of-string *)
(* character.                                                              *)
(***************************************************************************)
EXTENDS Naturals, Sequences, FiniteSetsExt

CONSTANTS Bytes,            \* what the instrument may send
          TermChars,        \* values of VI_ATTR_TERMCHAR
          TimeoutValues,    \* values of VI_ATTR_TMO_VALUE, in milliseconds
          Infinite,         \* VI_TMO_INFINITE
          ReadCounts,       \* values of read(count)
          MaxSent, MaxDriverReads, MaxSettings      \* bounds

ASSUME DriverAssumption ==
    TimeoutValues \subseteq Nat /\ Infinite \notin Nat /\ ReadCounts \subseteq Nat \ {0}

VARIABLES
    asked,          \* the timeout asked for
    tmo,            \* index of the driver's timeout for the interface
    eos,            \* the driver's end-of-string settings for the interface
    queue,          \* what the instrument sends
    gWant, gMode,   \* the read under way: its count and its END settings
    collected,      \* what the driver has read for it
    gResult,        \* what the last read returned
    sent, gReads, gSets

settings == <<asked, tmo, eos, gSets>>
bus == <<queue, sent>>
gReading == <<gWant, gMode, collected, gResult, gReads>>
gvars == <<settings, bus, gReading>>

DefaultTimeout == 2000
DefaultTermChar == 10

NoDriverMode == [rd |-> FALSE, char |-> 0, all |-> TRUE, timed |-> FALSE]
DriverModes == [rd : BOOLEAN, char : TermChars \cup {DefaultTermChar, 0}, all : BOOLEAN, timed : BOOLEAN]
BusUnits == [b : Bytes, eoi : BOOLEAN]

-----------------------------------------------------------------------------
(* TIMETABLE, in units of 10 microseconds; index 0 is no timeout at all.   *)
TIMETABLE == <<1, 3, 10, 30, 100, 300, 1000, 3000, 10000, 30000, 100000, 300000,
               1000000, 3000000, 10000000, 30000000, 100000000>>
Last == Len(TIMETABLE)

(* A plausible slip: without the tolerance of 0.1 % an exact value is      *)
(* rounded up to the next.                                                 *)
RoundedExact(ms) ==
    IF ms = Infinite THEN 0
    ELSE Min({Cardinality({i \in 1..Last : TIMETABLE[i] <= ms * 100}) + 1, Last})

(* 0.999 * timeout.                                                        *)
Tolerated(ms) == ms * 100 - ((ms + 9) \div 10)

(* bisect(TIMETABLE, 0.999 * timeout): the entries that are not greater    *)
(* than 99.9 % of it are skipped, index 0 among them.                      *)
Rounded(ms) ==
    IF ms = Infinite THEN 0
    ELSE Min({Cardinality({i \in 1..Last : TIMETABLE[i] <= Tolerated(ms)}) + 1, Last})

(* _get_timeout.                                                           *)
Reported(index) == IF index = 0 THEN Infinite ELSE TIMETABLE[index] \div 100

-----------------------------------------------------------------------------
(* As after_parsing leaves it.                                             *)
GInit ==
    /\ asked = DefaultTimeout /\ tmo = Rounded(DefaultTimeout)
    /\ eos = [char |-> DefaultTermChar, all |-> TRUE, rd |-> FALSE]
    /\ queue = <<>>
    /\ gWant = 0 /\ gMode = NoDriverMode /\ collected = <<>>
    /\ gResult = [data |-> <<>>, how |-> "none"]
    /\ sent = 0 /\ gReads = 0 /\ gSets = 0

(* _set_timeout.                                                           *)
SetTimeout ==
    /\ gSets < MaxSettings
    /\ gSets' = gSets + 1
    /\ asked' \in TimeoutValues \cup {Infinite}
    /\ tmo' = Rounded(asked')
    /\ UNCHANGED <<eos, bus, gReading>>

(* A plausible slip: the comparison with seven bits stays.                 *)
WithCharOnly(c) == [eos EXCEPT !.char = c, !.all = FALSE]

(* Setting the character also asks for a comparison of all eight bits.     *)
WithChar(c) == [eos EXCEPT !.char = c, !.all = TRUE]

SetTermChar ==
    /\ gSets < MaxSettings
    /\ gSets' = gSets + 1
    /\ \/ \E c \in TermChars : eos' = WithChar(c)
       \/ \E enabled \in BOOLEAN : eos' = [eos EXCEPT !.rd = enabled]
    /\ UNCHANGED <<asked, tmo, bus, gReading>>

(* The instrument sends a byte.                                            *)
InstrumentSends ==
    /\ sent < MaxSent
    /\ sent' = sent + 1
    /\ \E u \in BusUnits : queue' = Append(queue, u)
    /\ UNCHANGED <<settings, gReading>>

(* read(): one call of the driver, with the settings of the moment.        *)
DriverRead(n) ==
    /\ gWant = 0 /\ gReads < MaxDriverReads
    /\ gReads' = gReads + 1
    /\ gWant' = n
    /\ gMode' = [rd |-> eos.rd, char |-> eos.char, all |-> eos.all, timed |-> tmo # 0]
    /\ UNCHANGED <<settings, bus, collected, gResult>>

(* The driver compares eight bits or seven.                                *)
DriverEnds(u, m) ==
    \/ u.eoi
    \/ m.rd /\ (u.b = m.char \/ (~ m.all /\ u.b % 128 = m.char % 128))

DriverDone(data, how) ==
    /\ gResult' = [data |-> data, how |-> how]
    /\ gWant' = 0 /\ gMode' = NoDriverMode /\ collected' = <<>>

(* The driver returns at END or with the whole count; END is looked at     *)
(* first.                                                                  *)
DriverByte ==
    /\ gWant # 0 /\ queue # <<>>
    /\ queue' = Tail(queue)
    /\ LET now == Append(collected, Head(queue))
       IN  \/ DriverEnds(Head(queue), gMode) /\ DriverDone(now, "end")
           \/ ~ DriverEnds(Head(queue), gMode) /\ Len(now) >= gWant /\ DriverDone(now, "count")
           \/ /\ ~ DriverEnds(Head(queue), gMode) /\ Len(now) < gWant
              /\ collected' = now
              /\ UNCHANGED <<gWant, gMode, gResult>>
    /\ UNCHANGED <<settings, sent, gReads>>

(* A plausible slip: only a read that has taken something fails.           *)
DriverFailsIfSome ==
    /\ gWant # 0 /\ collected # <<>>
    /\ DriverDone(<<>>, "failed")
    /\ UNCHANGED <<settings, bus, gReads>>

(* A GpibError, of whatever kind, is a timeout; what the driver had read   *)
(* goes with it.                                                           *)
DriverFails ==
    /\ gWant # 0
    /\ DriverDone(<<>>, "failed")
    /\ UNCHANGED <<settings, bus, gReads>>

GNext ==
    \/ SetTimeout \/ SetTermChar
    \/ InstrumentSends \/ DriverByte \/ DriverFails
    \/ \E n \in ReadCounts : DriverRead(n)

(* A call of the driver that can go on, or whose time is over, does.       *)
GFairness == WF_gvars(DriverByte \/ (gMode.timed /\ DriverFails))

GSpec == GInit /\ [][GNext]_gvars /\ GFairness

-----------------------------------------------------------------------------
(* The timeout of the driver: not less than what was asked for, but for    *)
(* 0.1 % and the largest one; never none unless none was asked for; no     *)
(* entry below it would do; and what get_attribute says of it is a value   *)
(* that sets the same one again.                                           *)
TimeoutServes ==
    /\ tmo = 0 <=> asked = Infinite
    /\ tmo # 0 =>
         /\ TIMETABLE[tmo] + ((asked + 9) \div 10) >= asked * 100 \/ tmo = Last
         /\ tmo > 1 => TIMETABLE[tmo - 1] < asked * 100
    /\ Rounded(Reported(tmo)) = tmo

(* What read() promises: a unit ends a read if it has EOI or is the        *)
(* termination character, all eight bits of it.                            *)
DriverStops(u, m) == u.eoi \/ (m.rd /\ u.b = m.char)

AbstractDriver == INSTANCE MessageRead
    WITH input <- collected \o queue, want <- gWant, mode <- gMode, result <- gResult,
         Modes <- DriverModes, NoMode <- NoDriverMode, Stops <- DriverStops, Lossy <- TRUE

(* A read returns what came next, up to END and never beyond, and nothing  *)
(* after a failure, whose data the driver drops.                           *)
DriverReadsInOrder == AbstractDriver!MSpec

(* A read of the driver that has a time limit ends.                        *)
DriverCallsEnd == (gWant # 0 /\ gMode.timed) ~> gWant = 0
=============================================================================

------------------------- MODULE PortSessionProofs --------------------------
(***************************************************************************)
(* SerialSession implements MessageRead, for any messages, counts and      *)
(* attributes: its reads return what has arrived in order.  A descriptor   *)
(* of gpib.py belongs to an open session, for any threads and any numbers  *)
(* of sessions and descriptors.  Success of gpib_control_ren means what    *)
(* the operation is for, after any number of calls.                        *)
(***************************************************************************)
EXTENDS SerialSession, GpibSession, GpibHandles, RemoteLocal, SequenceTheorems,
        FiniteSetTheorems, TLAPS

(* What write() does to the last byte of a message, and to no other.       *)
Marked(u) ==
    /\ endOut = "termination_char" => (u.last => u.b = TermChar % 2^bits)
    /\ endOut = "last_bit" /\ sendEnd => (HasBit(u.b, bits - 1) <=> u.last)

(* The bytes that write() can put on the line.                             *)
LineUnits ==
    {u \in [b : {Encoded(data)[i] % 2^bits : data \in Messages, i \in Nat}, last : BOOLEAN] : Marked(u)}

(* The bytes a read has taken are less than it wants, and none ends it.    *)
ReadInv ==
    /\ bits \in DataBits /\ endIn \in EndIns /\ endOut \in EndOuts /\ suppress \in BOOLEAN
    /\ sending \in Seq(LineUnits) /\ line \in Seq(LineUnits) /\ out \in Seq(LineUnits)
    /\ want \in Counts \cup {0}
    /\ want = 0 => out = <<>>
    /\ want # 0 => Len(out) < want
    /\ \A i \in 1..Len(out) : ~ IsStop(out[i], mode)

-----------------------------------------------------------------------------
(* Facts on sequences.                                                     *)
LEMMA Taking ==
  ASSUME NEW S, NEW s \in Seq(S), NEW t \in Seq(S), t # <<>>
  PROVE  /\ Append(s, Head(t)) \in Seq(S) /\ Tail(t) \in Seq(S)
         /\ Append(s, Head(t)) \o Tail(t) = s \o t
  <1>1. Head(t) \in S /\ Tail(t) \in Seq(S)
    BY HeadTailProperties
  <1>2. Append(s, Head(t)) = s \o <<Head(t)>> /\ Append(s, Head(t)) \in Seq(S)
    BY <1>1, AppendIsConcat, AppendProperties
  <1>3. <<Head(t)>> \in Seq(S)
    BY <1>1
  <1>4. <<Head(t)>> \o Tail(t) = t
    <2>1. t = SubSeq(t, 1, Len(t)) /\ Len(t) \in Nat \ {0}
      BY SubSeqFull, EmptySeq
    <2>2. 1 \in 1..Len(t) /\ Len(t) \in 1..Len(t)
      BY <2>1
    <2>3. SubSeq(t, 1, Len(t)) = <<t[1]>> \o SubSeq(t, 2, Len(t))
      BY <2>2, SubSeqRecursiveFirst
    <2>4. Tail(t) = SubSeq(t, 2, Len(t)) /\ Head(t) = t[1]
      BY TailIsSubSeq
    <2> QED BY <2>1, <2>3, <2>4
  <1>5. (s \o <<Head(t)>>) \o Tail(t) = s \o (<<Head(t)>> \o Tail(t))
    BY <1>1, <1>3, ConcatAssociative
  <1> QED BY <1>1, <1>2, <1>4, <1>5

LEMMA Splitting ==
  ASSUME NEW S, NEW s \in Seq(S), NEW t \in Seq(S)
  PROVE  /\ s \o t \in Seq(S) /\ Len(s \o t) = Len(s) + Len(t)
         /\ SubSeq(s \o t, 1, Len(s)) = s
         /\ SubSeq(s \o t, Len(s) + 1, Len(s \o t)) = t
         /\ \A i \in 1..Len(s) : (s \o t)[i] = s[i]
  <1>1. /\ s \o t \in Seq(S) /\ Len(s \o t) = Len(s) + Len(t) /\ Len(s) \in Nat /\ Len(t) \in Nat
        /\ \A i \in 1..Len(s) + Len(t) : (s \o t)[i] = IF i <= Len(s) THEN s[i] ELSE t[i - Len(s)]
    BY ConcatProperties, LenProperties
  <1>2. SubSeq(s \o t, 1, Len(s)) = s
    <2>1. \A i \in 1..Len(s) : (s \o t)[i] \in S /\ (s \o t)[i] = s[i]
      BY <1>1, ElementOfSeq
    <2>2. /\ SubSeq(s \o t, 1, Len(s)) \in Seq(S)
          /\ Len(SubSeq(s \o t, 1, Len(s))) = Len(s)
          /\ \A i \in 1..Len(s) : SubSeq(s \o t, 1, Len(s))[i] = (s \o t)[i]
      BY <2>1, <1>1, SubSeqProperties
    <2> QED BY <2>1, <2>2, SeqEqual
  <1>3. SubSeq(s \o t, Len(s) + 1, Len(s \o t)) = t
    <2> DEFINE m == Len(s) + 1
               n == Len(s) + Len(t)
               r == SubSeq(s \o t, m, n)
    <2>1. \A i \in m..n : (s \o t)[i] \in S /\ (s \o t)[i] = t[i - Len(s)]
      BY <1>1, ElementOfSeq
    <2>2. /\ r \in Seq(S) /\ Len(r) = Len(t)
          /\ \A i \in 1..Len(t) : r[i] = (s \o t)[m + i - 1]
      BY <2>1, <1>1, SubSeqProperties
    <2>3. \A i \in 1..Len(t) : m + i - 1 \in m..n /\ (m + i - 1) - Len(s) = i
      BY <1>1
    <2>4. \A i \in 1..Len(t) : r[i] = t[i]
      BY <2>1, <2>2, <2>3
    <2> QED BY <2>2, <2>4, <1>1, SeqEqual
  <1> QED BY <1>1, <1>2, <1>3

-----------------------------------------------------------------------------
LEMMA Begins == ASSUME Init PROVE ReadInv /\ Abstract!MInit
  <1>1. <<>> \in Seq(LineUnits) /\ <<>> \o <<>> = <<>> /\ Len(<<>>) = 0
    BY EmptySeq, ConcatEmptySeq
  <1>2. ReadInv
    BY <1>1 DEF Init, ReadInv
  <1>3. Abstract!MInit
    BY <1>1 DEF Init, Abstract!MInit
  <1> QED BY <1>2, <1>3

(* The reader sees no difference.                                          *)
Stutter == UNCHANGED <<out \o line, want, mode, result>>

(* The weights of the highest bit and of the bit above it.                 *)
LEMMA Powers ==
  ASSUME NEW n \in 5..8
  PROVE  /\ 2^(n - 1) \in {16, 32, 64, 128} /\ 2^n = 2 * 2^(n - 1)
         /\ 2^(n - 1) \in Nat \ {0} /\ 2^n \in Nat \ {0}
  <1>1. 2^4 = 16 /\ 2^5 = 32 /\ 2^6 = 64 /\ 2^7 = 128 /\ 2^8 = 256
    OBVIOUS
  <1>2. n = 5 \/ n = 6 \/ n = 7 \/ n = 8
    OBVIOUS
  <1>3. CASE n = 5
    BY <1>1, <1>3
  <1>4. CASE n = 6
    BY <1>1, <1>4
  <1>5. CASE n = 7
    BY <1>1, <1>5
  <1>6. CASE n = 8
    BY <1>1, <1>6
  <1> QED BY <1>2, <1>3, <1>4, <1>5, <1>6

(* A byte with its highest bit cleared or set is sent as it is, and the    *)
(* bit can be told from what is sent.                                      *)
LEMMA MarkTells ==
  ASSUME NEW p \in {16, 32, 64, 128}, NEW d \in Nat
  PROVE  /\ ((d % p) + p) % (2 * p) = (d % p) + p /\ (((d % p) + p) \div p) % 2 = 1
         /\ ((d % p) + 0) % (2 * p) = (d % p) + 0 /\ (((d % p) + 0) \div p) % 2 = 0
  <1> DEFINE low == d % p
  <1>1. low \in Nat /\ low < p
    OBVIOUS
  <1> HIDE DEF low
  <1>2. p = 16 \/ p = 32 \/ p = 64 \/ p = 128
    OBVIOUS
  <1>3. (low + p) % (2 * p) = low + p /\ (low + p) \div p = 1
    BY <1>1, <1>2
  <1>4. (low + 0) % (2 * p) = low + 0 /\ (low + 0) \div p = 0
    BY <1>1, <1>2
  <1> QED BY <1>3, <1>4 DEF low

LEMMA EncodedIsBytes ==
  ASSUME endOut \in EndOuts, bits \in DataBits, NEW data \in Messages
  PROVE  Encoded(data) \in Seq(Nat)
  <1>1. data \in Seq(Nat) /\ Len(data) \in Nat /\ DOMAIN data = 1..Len(data)
        /\ (\A i \in 1..Len(data) : data[i] \in Nat) /\ TermChar \in Nat
    BY ConstantsAssumption, LenProperties, ElementOfSeq
  <1>2. bits \in 5..8
    BY ConstantsAssumption
  <1>3. 2^bits \in Nat \ {0} /\ 2^(bits - 1) \in Nat \ {0}
    BY <1>2, Powers
  <1>4. ASSUME NEW k, 2^k \in Nat \ {0} PROVE Cut(data, k) \in Seq(Nat)
    <2>1. \A i \in 1..Len(data) : data[i] % 2^k \in Nat
      BY <1>1, <1>4
    <2>2. Cut(data, k) \in [1..Len(data) -> Nat]
      BY <1>1, <2>1 DEF Cut
    <2> QED BY <1>1, <2>2, SeqDef
  <1>5. MarkLast(data, bits) \in Seq(Nat)
    <2> DEFINE p == 2^(bits - 1)
    <2>1. p \in Nat \ {0}
      BY <1>3
    <2> HIDE DEF p
    <2>2. \A i \in 1..Len(data) : (data[i] % p) + (IF i = Len(data) THEN p ELSE 0) \in Nat
      <3>1. \A d \in Nat : (d % p) + p \in Nat /\ (d % p) + 0 \in Nat
        BY ONLY <2>1
      <3> QED BY <1>1, <3>1
    <2>3. MarkLast(data, bits) \in [1..Len(data) -> Nat]
      BY <1>1, <2>2 DEF MarkLast, p
    <2> QED BY <1>1, <2>3, SeqDef
  <1>6. Cut(data, bits) \in Seq(Nat) /\ Cut(data, bits - 1) \in Seq(Nat)
    BY <1>3, <1>4
  <1>7. Append(Cut(data, bits), TermChar) \in Seq(Nat)
    BY <1>1, <1>6, AppendProperties
  <1>8. endOut \in {"none", "last_bit", "termination_char", "termination_break"}
    BY ConstantsAssumption
  <1> QED BY <1>1, <1>5, <1>6, <1>7, <1>8 DEF Encoded

(* The last byte of what is written, and no other, has the mark.           *)
LEMMA EncodedIsMarked ==
  ASSUME endOut \in EndOuts, bits \in DataBits, NEW data \in Messages,
         NEW i \in 1..Len(Encoded(data))
  PROVE  Marked([b |-> Encoded(data)[i] % 2^bits, last |-> i = Len(Encoded(data))])
  <1> DEFINE b == Encoded(data)[i] % 2^bits
             last == i = Len(Encoded(data))
  <1>1. data \in Seq(Nat) /\ Len(data) \in Nat /\ DOMAIN data = 1..Len(data)
        /\ (\A k \in 1..Len(data) : data[k] \in Nat) /\ TermChar \in Nat
    BY ConstantsAssumption, LenProperties, ElementOfSeq
  <1>2. bits \in 5..8
    BY ConstantsAssumption
  <1>3. CASE endOut = "termination_char"
    <2> DEFINE cut == Cut(data, bits)
    <2>1. Encoded(data) = Append(cut, TermChar)
      BY <1>3 DEF Encoded
    <2>2. cut \in Seq(Nat)
      <3>1. 2^bits \in Nat \ {0}
        BY <1>2, Powers
      <3>2. \A k \in 1..Len(data) : data[k] % 2^bits \in Nat
        BY <1>1, <3>1
      <3>3. cut \in [1..Len(data) -> Nat]
        BY <1>1, <3>2 DEF Cut
      <3> QED BY <1>1, <3>3, SeqDef
    <2> HIDE DEF cut
    <2>3. Len(Append(cut, TermChar)) = Len(cut) + 1 /\ Append(cut, TermChar)[Len(cut) + 1] = TermChar
      BY <1>1, <2>2, AppendProperties
    <2>4. last => b = TermChar % 2^bits
      BY <2>1, <2>3
    <2> QED BY <1>3, <2>4 DEF Marked
  <1>4. CASE endOut = "last_bit" /\ sendEnd
    <2>1. Encoded(data) = MarkLast(data, bits)
      BY <1>4 DEF Encoded
    <2> DEFINE p == 2^(bits - 1)
    <2>2. MarkLast(data, bits) = [k \in 1..Len(data) |-> (data[k] % p) + (IF k = Len(data) THEN p ELSE 0)]
      BY <1>1 DEF MarkLast
    <2>3. p \in {16, 32, 64, 128} /\ 2^bits = 2 * p
      BY <1>2, Powers
    <2> HIDE DEF p
    <2>4. Len(Encoded(data)) = Len(data)
      <3>1. Encoded(data) \in Seq(Nat)
        BY EncodedIsBytes
      <3>2. DOMAIN Encoded(data) = 1..Len(data)
        BY <2>1, <2>2
      <3> QED BY <1>1, <3>1, <3>2, LenProperties
    <2>5. i \in 1..Len(data) /\ data[i] \in Nat
      BY <1>1, <2>4
    <2>6. Encoded(data)[i] = (data[i] % p) + (IF i = Len(data) THEN p ELSE 0)
      BY <2>1, <2>2, <2>5
    <2> DEFINE marked == (data[i] % p) + (IF last THEN p ELSE 0)
    <2>7. Encoded(data)[i] = marked
      BY <2>4, <2>6
    <2>8. marked % (2 * p) = marked /\ ((marked \div p) % 2 = 1 <=> last)
      <3>1. p \in {16, 32, 64, 128} /\ data[i] \in Nat
        BY <2>3, <2>5
      <3>2. CASE last
        <4>1. marked = (data[i] % p) + p
          BY <3>2
        <4> HIDE DEF marked
        <4>2. marked % (2 * p) = marked /\ (marked \div p) % 2 = 1
          BY ONLY <3>1, <4>1, MarkTells
        <4> QED BY ONLY <3>2, <4>2
      <3>3. CASE ~ last
        <4>1. marked = (data[i] % p) + 0
          BY <3>3
        <4> HIDE DEF marked
        <4>2. marked % (2 * p) = marked /\ (marked \div p) % 2 = 0
          BY ONLY <3>1, <4>1, MarkTells
        <4> QED BY ONLY <3>3, <4>2
      <3> QED BY <3>2, <3>3
    <2>9. b = marked
      BY <2>3, <2>7, <2>8
    <2>10. HasBit(b, bits - 1) <=> last
      <3> HIDE DEF b, marked
      <3> QED BY <2>8, <2>9 DEF HasBit, p
    <2> QED BY <1>4, <2>10 DEF Marked
  <1>5. CASE endOut # "termination_char" /\ ~ (endOut = "last_bit" /\ sendEnd)
    BY <1>5 DEF Marked
  <1> QED BY <1>3, <1>4, <1>5

(* What write() puts into the transmit buffer.                             *)
LEMMA EncodedIsLine ==
  ASSUME endOut \in EndOuts, bits \in DataBits, NEW data \in Messages
  PROVE  OnLine(Encoded(data)) \in Seq(LineUnits)
  <1> DEFINE n == Len(Encoded(data))
             unit(i) == [b |-> Encoded(data)[i] % 2^bits, last |-> i = n]
  <1>1. DOMAIN Encoded(data) = 1..n /\ n \in Nat
    BY EncodedIsBytes, LenProperties
  <1>2. \A i \in 1..n : Marked(unit(i))
    BY EncodedIsMarked
  <1>3. \A i \in 1..n : unit(i) \in LineUnits
    BY <1>2 DEF LineUnits
  <1>4. OnLine(Encoded(data)) = [i \in 1..n |-> unit(i)]
    BY <1>1 DEF OnLine
  <1> HIDE DEF unit
  <1>5. OnLine(Encoded(data)) \in [1..n -> LineUnits]
    BY <1>3, <1>4
  <1> QED BY <1>1, <1>5, SeqDef

LEMMA OutcomeFacts ==
  ASSUME NEW taken
  PROVE  /\ Outcome(taken) \in {"end", "count", "more"}
         /\ Outcome(taken) = "end" <=> IsStop(taken[Len(taken)], mode)
         /\ Outcome(taken) = "count" => Len(taken) >= want
         /\ Outcome(taken) = "more" => ~ (Len(taken) >= want)
  BY DEF Outcome, IsStop

(* A read that ends with what it has taken, and leaves the rest.           *)
LEMMA Ends ==
  ASSUME ReadInv, want # 0,
         NEW taken \in Seq(LineUnits), NEW rest \in Seq(LineUnits), NEW how \in {"end", "count", "failed"},
         taken \o rest = out \o line, line' = rest, Done(taken, how),
         Len(taken) <= want,
         \A i \in 1..Len(taken) : i < Len(taken) \/ how # "end" => ~ IsStop(taken[i], mode),
         how = "end" => Len(taken) # 0 /\ IsStop(taken[Len(taken)], mode),
         how = "count" => Len(taken) = want
  PROVE  Abstract!MNext
  <1> DEFINE input == out \o line
             k == Len(taken)
  <1>1. /\ k \in Nat /\ k <= Len(input) /\ k \in 0..Len(input)
        /\ SubSeq(input, 1, k) = taken /\ SubSeq(input, k + 1, Len(input)) = rest
        /\ \A i \in 1..k : input[i] = taken[i]
    <2>1. /\ Len(taken) \in Nat /\ Len(rest) \in Nat
      BY LenProperties
    <2>2. /\ Len(taken \o rest) = k + Len(rest)
          /\ SubSeq(taken \o rest, 1, k) = taken
          /\ SubSeq(taken \o rest, k + 1, Len(taken \o rest)) = rest
          /\ \A i \in 1..k : (taken \o rest)[i] = taken[i]
      <3>1. taken \in Seq(LineUnits) /\ rest \in Seq(LineUnits)
        OBVIOUS
      <3> QED BY ONLY <3>1, Splitting DEF k
    <2> QED BY <2>1, <2>2
  <1>2. out' \o line' = rest
    <2>1. out' = <<>>
      BY DEF Done
    <2> QED BY <2>1, ConcatEmptySeq
  <1>3. /\ result' = [data |-> taken, how |-> how] /\ want' = 0 /\ mode' = NoMode
    BY DEF Done
  <1> HIDE DEF input, k
  <1>4. /\ \A i \in 1..k : i < k \/ how # "end" => ~ IsStop(input[i], mode)
        /\ how = "end" => k # 0 /\ IsStop(input[k], mode)
    <2>1. how = "end" => k \in 1..k
      BY <1>1 DEF k
    <2> QED BY <1>1, <2>1 DEF k
  <1>5. Abstract!Give(k, how)
    <2>1. /\ k <= want /\ (how = "count" => k = want)
      BY DEF k
    <2> QED BY <1>1, <1>2, <1>3, <1>4, <2>1 DEF Abstract!Give, input
  <1>6. Abstract!Return
    BY <1>1, <1>5 DEF Abstract!Return, input
  <1> QED BY <1>6 DEF Abstract!MNext

-----------------------------------------------------------------------------
LEMMA WriteStep == ASSUME ReadInv, NEW data \in Messages, Write(data) PROVE ReadInv' /\ Stutter
  <1>1. /\ endIn' = endIn /\ endOut' = endOut /\ sendEnd' = sendEnd /\ suppress' = suppress
        /\ bits' = bits /\ line' = line /\ out' = out /\ want' = want /\ mode' = mode
        /\ result' = result
    BY DEF Write, attrs, reading
  <1>2. LineUnits' = LineUnits
    BY <1>1 DEF LineUnits, Marked, Encoded
  <1>3. sending' \in Seq(LineUnits)
    <2> DEFINE gone == OnLine(Encoded(data))
    <2>1. gone \in Seq(LineUnits) /\ sending \in Seq(LineUnits)
      BY EncodedIsLine DEF ReadInv
    <2>2. CASE sending' = sending
      BY <2>1, <2>2
    <2>3. CASE sending' = sending \o gone
      BY <2>1, <2>3, ConcatProperties
    <2>4. CASE \E k \in 0..Len(Encoded(data)) : sending' = sending \o SubSeq(gone, 1, k)
      <3>1. PICK k \in 0..Len(Encoded(data)) : sending' = sending \o SubSeq(gone, 1, k)
        BY <2>4
      <3>2. DOMAIN gone = 1..Len(gone) /\ DOMAIN gone = DOMAIN Encoded(data) /\ Len(gone) \in Nat
        BY <2>1, LenProperties DEF OnLine
      <3>3. DOMAIN Encoded(data) = 1..Len(gone)
        BY <3>2
      <3>4. Len(Encoded(data)) = Len(gone)
        BY <3>2, <3>3
      <3>5. k \in Int /\ \A i \in 1..k : gone[i] \in LineUnits
        BY <2>1, <3>2, <3>4, ElementOfSeq
      <3>6. SubSeq(gone, 1, k) \in Seq(LineUnits)
        BY <3>5, SubSeqProperties
      <3> QED BY <2>1, <3>1, <3>6, ConcatProperties
    <2> QED BY <2>2, <2>3, <2>4 DEF Write
  <1>4. ReadInv'
    <2>1. \A i : IsStop(out[i], mode)' = IsStop(out[i], mode)
      BY <1>1 DEF IsStop, CarriesEnd, HasBit
    <2> QED BY <1>1, <1>2, <1>3, <2>1 DEF ReadInv
  <1> QED BY <1>1, <1>4 DEF Stutter

(* A step that leaves the bits and the END of write() alone leaves the     *)
(* units that can be on the line as they are.                              *)
LEMMA SameUnits ==
  ASSUME UNCHANGED <<endOut, sendEnd, bits>> PROVE LineUnits' = LineUnits
  BY DEF LineUnits, Marked, Encoded

LEMMA TransmitStep == ASSUME ReadInv, Transmit PROVE ReadInv' /\ Abstract!MNext
  <1>1. /\ endIn' = endIn /\ endOut' = endOut /\ sendEnd' = sendEnd /\ suppress' = suppress
        /\ bits' = bits /\ out' = out /\ want' = want /\ mode' = mode /\ result' = result
        /\ sending # <<>> /\ line' = Append(line, Head(sending)) /\ sending' = Tail(sending)
    BY DEF Transmit, attrs, reading
  <1>2. Head(sending) \in LineUnits /\ Tail(sending) \in Seq(LineUnits)
    BY <1>1, HeadTailProperties DEF ReadInv
  <1> DEFINE new == Head(sending)
  <1>3. line' \in Seq(LineUnits) /\ line' = line \o <<new>>
    BY <1>1, <1>2, AppendProperties, AppendIsConcat DEF ReadInv
  <1>4. ReadInv'
    BY <1>1, <1>2, <1>3, SameUnits DEF ReadInv
  <1>5. <<new>> \in Seq(LineUnits) /\ Len(<<new>>) = 1
    BY <1>2
  <1> DEFINE one == <<new>>
  <1>6. one \in Seq(LineUnits) /\ Len(one) = 1 /\ line' = line \o one
    BY <1>3, <1>5
  <1> HIDE DEF one, new
  <1>7. (out \o line) \o one = out \o (line \o one)
    <2>1. out \in Seq(LineUnits) /\ line \in Seq(LineUnits) /\ one \in Seq(LineUnits)
      BY <1>6 DEF ReadInv
    <2> QED BY <2>1, ConcatAssociative
  <1> DEFINE input == out \o line
  <1>8. /\ input \in Seq(LineUnits) /\ Len(input) \in Nat /\ out' \o line' = input \o one
        /\ Len(input \o one) = Len(input) + 1 /\ SubSeq(input \o one, 1, Len(input)) = input
    <2>1. input \in Seq(LineUnits) /\ out' \o line' = input \o one
      <3>1. out \in Seq(LineUnits) /\ line \in Seq(LineUnits)
        BY DEF ReadInv
      <3>2. out \o line \in Seq(LineUnits)
        BY <3>1, ConcatProperties
      <3>3. out' \o line' = out \o (line \o one)
        BY <1>1, <1>6
      <3> QED BY <3>2, <3>3, <1>7 DEF input
    <2> HIDE DEF input
    <2>2. Len(input \o one) = Len(input) + Len(one) /\ SubSeq(input \o one, 1, Len(input)) = input
      <3>1. input \in Seq(LineUnits) /\ one \in Seq(LineUnits)
        BY <1>6, <2>1
      <3> QED BY ONLY <3>1, Splitting
    <2> QED BY <1>6, <2>1, <2>2, LenProperties
  <1> HIDE DEF input
  <1>9. Len(out' \o line') > Len(input) /\ SubSeq(out' \o line', 1, Len(input)) = input
    BY <1>8
  <1>10. Abstract!Arrive
    BY <1>1, <1>9 DEF Abstract!Arrive, input
  <1> QED BY <1>4, <1>10 DEF Abstract!MNext

LEMMA ReadStep == ASSUME ReadInv, NEW n \in Counts, Read(n) PROVE ReadInv' /\ Abstract!MNext
  <1>1. /\ endIn' = endIn /\ endOut' = endOut /\ sendEnd' = sendEnd /\ suppress' = suppress
        /\ bits' = bits /\ out' = out /\ line' = line /\ sending' = sending /\ result' = result
        /\ want = 0 /\ want' = n
        /\ mode' = [end |-> endIn, bits |-> bits, suppress |-> suppress, timed |-> timeout # "infinite"]
    BY DEF Read, attrs, port
  <1>2. n \in Nat \ {0}
    BY ConstantsAssumption
  <1>3. out = <<>> /\ out' = <<>> /\ Len(<<>>) = 0
    BY <1>1, EmptySeq DEF ReadInv
  <1>4. ReadInv'
    <2>1. LineUnits' = LineUnits
      BY <1>1, SameUnits
    <2>2. want' # 0 => Len(out') < want'
      BY <1>1, <1>2, <1>3
    <2>3. \A i \in 1..Len(out') : FALSE
      BY <1>3
    <2> QED BY <1>1, <1>3, <2>1, <2>2, <2>3 DEF ReadInv
  <1>5. mode' \in Modes
    <2>1. /\ endIn \in EndIns \cup {"none"} /\ bits \in DataBits \cup {0} /\ suppress \in BOOLEAN
          /\ (timeout # "infinite") \in BOOLEAN
      BY DEF ReadInv
    <2> QED BY <1>1, <2>1 DEF Modes
  <1>6. Abstract!Begin
    BY <1>1, <1>2, <1>5 DEF Abstract!Begin
  <1> QED BY <1>4, <1>6 DEF Abstract!MNext

LEMMA DoneInv ==
  ASSUME ReadInv, NEW data, NEW how, Done(data, how), UNCHANGED <<attrs, sending>>,
         line' \in Seq(LineUnits)
  PROVE  ReadInv'
  <1>1. /\ endIn' = endIn /\ endOut' = endOut /\ sendEnd' = sendEnd /\ suppress' = suppress
        /\ bits' = bits /\ sending' = sending
        /\ want' = 0 /\ out' = <<>>
    BY DEF Done, attrs
  <1>2. <<>> \in Seq(LineUnits) /\ Len(<<>>) = 0
    BY EmptySeq
  <1> QED BY <1>1, <1>2, SameUnits DEF ReadInv

LEMMA ReadByteStep == ASSUME ReadInv, ReadByte PROVE ReadInv' /\ (Abstract!MNext \/ Stutter)
  <1> DEFINE taken == Append(out, Head(line))
             rest == Tail(line)
  <1>1. /\ want # 0 /\ line # <<>> /\ line' = rest /\ UNCHANGED <<attrs, sending>>
        /\ IF Outcome(taken) # "more" THEN Done(taken, Outcome(taken))
           ELSE (out' = taken /\ UNCHANGED <<want, mode, result>>) \/ Done(taken, "failed")
    BY DEF ReadByte
  <1>2. taken \in Seq(LineUnits) /\ rest \in Seq(LineUnits) /\ taken \o rest = out \o line
    BY <1>1, Taking DEF ReadInv
  <1>3. Head(line) \in LineUnits
    BY <1>1, HeadTailProperties DEF ReadInv
  <1>4. /\ Len(taken) = Len(out) + 1 /\ Len(out) \in Nat
        /\ \A i \in 1..Len(out) : taken[i] = out[i]
    BY <1>3, AppendProperties, LenProperties DEF ReadInv
  <1>5. want \in Nat /\ Len(taken) <= want
    BY <1>1, <1>4, ConstantsAssumption DEF ReadInv
  <1>6. \A i \in 1..Len(taken) : i < Len(taken) => ~ IsStop(taken[i], mode)
    BY <1>4 DEF ReadInv
  <1>7. Len(taken) \in Nat /\ Len(taken) # 0 /\ \A i \in 1..Len(taken) : i < Len(taken) \/ i = Len(taken)
    BY <1>4
  <1> HIDE DEF taken, rest
  <1>8. ASSUME Outcome(taken) # "more" PROVE ReadInv' /\ Abstract!MNext
    <2>1. Outcome(taken) \in {"end", "count", "failed"} /\ Done(taken, Outcome(taken))
      BY <1>1, <1>8, OutcomeFacts
    <2>2. Outcome(taken) = "count" => Len(taken) = want
      BY <1>5, <1>7, OutcomeFacts
    <2>3. \A i \in 1..Len(taken) : i < Len(taken) \/ Outcome(taken) # "end" => ~ IsStop(taken[i], mode)
      BY <1>6, <1>7, OutcomeFacts
    <2>4. Outcome(taken) = "end" => Len(taken) # 0 /\ IsStop(taken[Len(taken)], mode)
      BY <1>7, OutcomeFacts
    <2>5. Abstract!MNext
      BY <1>1, <1>2, <1>5, <2>1, <2>2, <2>3, <2>4, Ends
    <2> QED BY <1>1, <1>2, <2>1, <2>5, DoneInv
  <1>9. ASSUME Outcome(taken) = "more" PROVE \A i \in 1..Len(taken) : ~ IsStop(taken[i], mode)
    BY <1>6, <1>7, <1>9, OutcomeFacts
  <1>10. ASSUME Outcome(taken) = "more", Done(taken, "failed") PROVE ReadInv' /\ Abstract!MNext
    <2>1. Abstract!MNext
      BY <1>1, <1>2, <1>5, <1>9, <1>10, Ends
    <2> QED BY <1>1, <1>2, <1>10, <2>1, DoneInv
  <1>11. ASSUME Outcome(taken) = "more", out' = taken, UNCHANGED <<want, mode, result>>
         PROVE  ReadInv' /\ Stutter
    <2>1. /\ endIn' = endIn /\ endOut' = endOut /\ sendEnd' = sendEnd /\ suppress' = suppress
          /\ bits' = bits /\ sending' = sending /\ want' = want /\ mode' = mode /\ result' = result
      BY <1>1, <1>11 DEF attrs
    <2>2. Len(taken) < want
      BY <1>5, <1>7, <1>11, OutcomeFacts
    <2>3. ReadInv'
      BY <1>1, <1>2, <1>9, <1>11, <2>1, <2>2, SameUnits DEF ReadInv
    <2>4. out' \o line' = out \o line
      BY <1>1, <1>2, <1>11
    <2> QED BY <2>1, <2>3, <2>4 DEF Stutter
  <1> QED BY <1>1, <1>8, <1>10, <1>11

LEMMA ReadNothingStep == ASSUME ReadInv, ReadNothing PROVE ReadInv' /\ Abstract!MNext
  <1>1. want # 0 /\ Done(out, "failed") /\ line' = line /\ UNCHANGED <<attrs, sending>>
    BY DEF ReadNothing, port
  <1>2. out \in Seq(LineUnits) /\ line \in Seq(LineUnits) /\ Len(out) \in Nat
    BY LenProperties DEF ReadInv
  <1>3. want \in Nat /\ Len(out) <= want
    BY <1>1, <1>2, ConstantsAssumption DEF ReadInv
  <1>4. \A i \in 1..Len(out) : ~ IsStop(out[i], mode)
    BY DEF ReadInv
  <1>5. Abstract!MNext
    BY <1>1, <1>2, <1>3, <1>4, Ends
  <1> QED BY <1>1, <1>2, <1>5, DoneInv

(* What leaves the read under way and the bits of the line alone.          *)
LEMMA StaysInv ==
  ASSUME ReadInv, UNCHANGED <<endOut, sendEnd, bits, reading>>,
         endIn' \in EndIns, suppress' \in BOOLEAN,
         line' \in Seq(LineUnits), sending' \in Seq(LineUnits)
  PROVE  ReadInv'
  <1>1. /\ endOut' = endOut /\ sendEnd' = sendEnd /\ bits' = bits
        /\ want' = want /\ mode' = mode /\ out' = out
    BY DEF reading
  <1> QED BY <1>1, SameUnits DEF ReadInv

LEMMA FlushStep ==
  ASSUME ReadInv, NEW rd \in BOOLEAN, NEW wait \in BOOLEAN, NEW discard \in BOOLEAN,
         Flush(rd, wait, discard)
  PROVE  ReadInv' /\ (Abstract!MNext \/ Stutter)
  <1>1. /\ UNCHANGED <<attrs, reading>> /\ line' = IF rd THEN <<>> ELSE line
        /\ sending' = IF discard THEN <<>> ELSE sending
    BY DEF Flush
  <1>2. /\ endIn' = endIn /\ endOut' = endOut /\ sendEnd' = sendEnd /\ suppress' = suppress
        /\ bits' = bits /\ out' = out /\ want' = want /\ mode' = mode /\ result' = result
    BY <1>1 DEF attrs, reading
  <1>3. <<>> \in Seq(LineUnits) /\ out \in Seq(LineUnits) /\ line \in Seq(LineUnits)
    BY EmptySeq DEF ReadInv
  <1>4. ReadInv'
    <2>1. /\ UNCHANGED <<endOut, sendEnd, bits, reading>> /\ endIn' \in EndIns /\ suppress' \in BOOLEAN
          /\ line' \in Seq(LineUnits) /\ sending' \in Seq(LineUnits)
      BY <1>1, <1>2, <1>3 DEF ReadInv
    <2> QED BY <2>1, StaysInv
  <1>5. CASE ~ rd
    <2>1. out' \o line' = out \o line
      BY <1>1, <1>2, <1>5
    <2> QED BY <1>2, <1>4, <2>1 DEF Stutter
  <1>6. CASE rd
    <2> DEFINE input == out \o line
               k == Len(out)
               l == Len(input)
    <2>1. /\ input \in Seq(LineUnits) /\ l = k + Len(line) /\ k \in Nat /\ Len(line) \in Nat
          /\ SubSeq(input, 1, k) = out
      BY <1>3, Splitting, LenProperties
    <2>2. k \in 0..l /\ l \in k..l /\ l + 1 \in Int /\ l \in Int /\ l < l + 1
      BY <2>1
    <2>3. SubSeq(input, l + 1, l) = <<>>
      BY <2>2, SubSeqEmpty
    <2>4. out \o <<>> = out
      BY <1>3, ConcatEmptySeq
    <2>5. out' \o line' = SubSeq(input, 1, k) \o SubSeq(input, l + 1, l)
      BY <1>1, <1>2, <1>6, <2>1, <2>3, <2>4
    <2>6. Abstract!Discard
      BY <1>2, <2>2, <2>5 DEF Abstract!Discard
    <2> QED BY <1>4, <2>6 DEF Abstract!MNext
  <1> QED BY <1>5, <1>6

LEMMA SetStep == ASSUME ReadInv, SetAttribute PROVE ReadInv' /\ Stutter
  <1>1. /\ UNCHANGED <<endOut, sendEnd, bits, port, reading>>
        /\ endIn' \in EndIns /\ suppress' \in BOOLEAN
    BY DEF SetAttribute, ReadInv
  <1>2. line' = line /\ sending' = sending /\ out' = out /\ UNCHANGED <<want, mode, result>>
    BY <1>1 DEF port, reading
  <1>3. line' \in Seq(LineUnits) /\ sending' \in Seq(LineUnits)
    BY <1>2 DEF ReadInv
  <1>4. ReadInv'
    BY <1>1, <1>3, StaysInv
  <1> QED BY <1>2, <1>4 DEF Stutter

LEMMA UnchangedStep == ASSUME ReadInv, UNCHANGED vars PROVE ReadInv' /\ Stutter
  <1>1. /\ UNCHANGED <<endOut, sendEnd, bits, reading>> /\ endIn' = endIn /\ suppress' = suppress
        /\ line' = line /\ sending' = sending
    BY DEF vars, attrs, port
  <1>2. out' = out /\ UNCHANGED <<want, mode, result>>
    BY <1>1 DEF reading
  <1>3. endIn' \in EndIns /\ suppress' \in BOOLEAN /\ line' \in Seq(LineUnits) /\ sending' \in Seq(LineUnits)
    BY <1>1 DEF ReadInv
  <1>4. ReadInv'
    BY <1>1, <1>3, StaysInv
  <1> QED BY <1>1, <1>2, <1>4 DEF Stutter

(* Reads of a serial session are those of MessageRead: what comes next, in *)
(* order, up to the unit that ends a message, and the status says so       *)
(* (write, read and flush of serial.py, _read of sessions.py).             *)
THEOREM Reads_in_order == Spec => ReadsInOrder
  <1>1. Init => ReadInv /\ Abstract!MInit
    BY Begins
  <1>2. ReadInv /\ [Next]_vars => ReadInv' /\ (Abstract!MNext \/ Stutter)
    BY WriteStep, TransmitStep, ReadStep, ReadByteStep, ReadNothingStep, FlushStep, SetStep,
       UnchangedStep DEF Next
  <1>3. Stutter => UNCHANGED Abstract!mvars
    BY DEF Stutter, Abstract!mvars
  <1>4. ReadInv /\ [Next]_vars => ReadInv' /\ [Abstract!MNext]_Abstract!mvars
    BY <1>2, <1>3
  <1> QED BY <1>1, <1>4, PTL DEF Spec, ReadsInOrder, Abstract!MSpec

(* No read takes the last byte of a message and goes on, and the last byte *)
(* is the marked one (write of serial.py, iter_bytes of common.py).        *)
THEOREM Messages_end == Spec => []MessagesEnd
  <1>1. Init => ReadInv
    BY Begins
  <1>2. ReadInv /\ [Next]_vars => ReadInv'
    BY WriteStep, TransmitStep, ReadStep, ReadByteStep, ReadNothingStep, FlushStep, SetStep,
       UnchangedStep DEF Next
  <1>3. ReadInv => MessagesEnd
    <2> SUFFICES ASSUME ReadInv PROVE MessagesEnd
      OBVIOUS
    <2>1. /\ bits \in 5..8 /\ TermChar \in Nat
          /\ DOMAIN out = 1..Len(out) /\ DOMAIN line = 1..Len(line)
          /\ (\A i \in 1..Len(out) : out[i] \in LineUnits)
          /\ (\A i \in 1..Len(line) : line[i] \in LineUnits)
      BY ConstantsAssumption, LenProperties, ElementOfSeq DEF ReadInv
    <2>2. ASSUME Agreed("termination_char"), TermChar < 2^bits, NEW i \in DOMAIN out
          PROVE  ~ out[i].last
      <3>1. Marked(out[i]) /\ out[i].last \in BOOLEAN /\ ~ IsStop(out[i], mode)
        BY <2>1, <2>2 DEF ReadInv, LineUnits
      <3>2. TermChar % 2^bits = TermChar
        <4> DEFINE w == 2^bits
        <4>1. w \in Nat \ {0} /\ TermChar \in Nat /\ TermChar < w
          BY <2>1, <2>2, Powers
        <4> HIDE DEF w
        <4>2. TermChar % w = TermChar
          BY ONLY <4>1
        <4> QED BY <4>2 DEF w
      <3>3. out[i].last => CarriesEnd(out[i], mode)
        BY <2>2, <3>1, <3>2 DEF Agreed, Marked, CarriesEnd
      <3> QED BY <2>2, <3>1, <3>3 DEF Agreed, IsStop
    <2>3. ASSUME endOut = "last_bit", sendEnd, NEW i \in DOMAIN line
          PROVE  HasBit(line[i].b, bits - 1) <=> line[i].last
      <3>1. Marked(line[i])
        BY <2>1, <2>3 DEF LineUnits
      <3> QED BY <2>3, <3>1 DEF Marked
    <2> QED BY <2>2, <2>3 DEF MessagesEnd
  <1> QED BY <1>1, <1>2, <1>3, PTL DEF Spec

-----------------------------------------------------------------------------
(* GpibHandles: HInv is an inductive invariant.                            *)
Bounds == MaxSessions \in Nat /\ MaxDescriptors \in Nat

(* What the types say of each session and thread.                          *)
LEMMA Types ==
  ASSUME Bounds, HInv
  PROVE  /\ made \in Nat
         /\ \A s \in Ids : /\ s \in Nat /\ s # 0
                            /\ interface[s] \in 0..MaxDescriptors
                            /\ controller[s] \in 0..MaxDescriptors
                            /\ own[s] \subseteq Parts
         /\ \A u \in Users : mine[u] # 0 => mine[u] \in Ids
         /\ \A s \in Ids : \A part \in own[s] : Part(s, part) \in Descriptors
  <1>1. made \in Nat
    <2>1. made \in 0..MaxSessions
      BY DEF HInv, HTypeOK
    <2> QED BY <2>1 DEF Bounds
  <1>2. ASSUME NEW s \in Ids
        PROVE  /\ s \in Nat /\ s # 0
               /\ interface[s] \in 0..MaxDescriptors
               /\ controller[s] \in 0..MaxDescriptors
               /\ own[s] \subseteq Parts
    <2>1. s \in Nat /\ s # 0
      BY DEF Ids, Bounds
    <2> QED BY <2>1 DEF HInv, HTypeOK
  <1>3. ASSUME NEW u \in Users, mine[u] # 0 PROVE mine[u] \in Ids
    <2>1. mine[u] \in 0..MaxSessions
      BY DEF HInv, HTypeOK
    <2> QED BY <2>1, <1>3 DEF Ids, Bounds
  <1>4. ASSUME NEW s \in Ids, NEW part \in own[s] PROVE Part(s, part) \in Descriptors
    <2>1. part \in Parts /\ own[s] # {}
      BY <1>2
    <2>2. controller[s] # 0
      BY <2>1 DEF HInv, Owned
    <2>3. part = "interface" => interface[s] # 0
      BY DEF HInv, Owned
    <2> QED BY <1>2, <2>1, <2>2, <2>3 DEF Part, Parts, Descriptors, Bounds
  <1> QED BY <1>1, <1>2, <1>3, <1>4

(* A thread that is about to disown a part has closed its descriptor.      *)
LEMMA Disowned ==
  ASSUME Bounds, HInv, NEW u \in Users, NEW part \in Parts, Disowning(u, part)
  PROVE  mine[u] # 0 /\ mine[u] \in Ids /\ Part(mine[u], part) \in Descriptors
  <1>1. mine[u] # 0 /\ mine[u] \in Ids
    BY Types DEF HInv, Closing, Disowning, At
  <1>2. controller[mine[u]] # 0
    BY <1>1 DEF HInv, Owned, Closing
  <1>3. part = "interface" => interface[mine[u]] # 0
    BY DEF HInv, Closing, Disowning
  <1> QED BY <1>1, <1>2, <1>3, Types DEF Part, Parts, Descriptors, Bounds

LEMMA InitInv == ASSUME Bounds, HInit PROVE HInv
  <1>1. \A d \in Descriptors : held[d] = 0
    BY DEF HInit
  <1>2. \A s \in Ids : state[s] = "none" /\ own[s] = {} /\ s # 0 /\ s > 0
    BY DEF HInit, Ids, Bounds
  <1>3. HTypeOK
    <2>1. 0 \in 0..Passed /\ 0 \in 0..MaxSessions /\ 0 \in 0..MaxDescriptors
      BY DEF Passed, Bounds
    <2>2. held \in [Descriptors -> 0..Passed] /\ made \in 0..MaxSessions
      BY <2>1 DEF HInit
    <2>3. /\ state \in [Ids -> {"none", "open", "closed"}]
          /\ interface \in [Ids -> 0..MaxDescriptors]
          /\ controller \in [Ids -> 0..MaxDescriptors]
          /\ own \in [Ids -> SUBSET Parts]
      BY <2>1 DEF HInit
    <2>4. /\ pc \in [Users -> {"idle"} \cup Parts \cup {"disown interface", "disown controller"}]
          /\ mine \in [Users -> 0..MaxSessions]
          /\ twice \in BOOLEAN
      BY <2>1 DEF HInit
    <2> QED BY <2>2, <2>3, <2>4 DEF HTypeOK
  <1>4. Owned /\ Held
    BY <1>1, <1>2 DEF HInit, Owned, Held
  <1>5. Closing
    BY DEF HInit, Closing, At, Disowning
  <1>6. Single
    BY <1>2 DEF HInit, Single
  <1> QED BY <1>3, <1>4, <1>5, <1>6 DEF HInv

(* A new session gets descriptors that nobody holds.                       *)
LEMMA OpenInv ==
  ASSUME Bounds, HInv,
         NEW s \in Ids, NEW i \in 0..MaxDescriptors, NEW c \in Free,
         NewSession(s), i # c, i = 0 \/ i \in Free,
         made' = s,
         held' \in [Descriptors -> 0..Passed],
         \A d \in Descriptors : held'[d] = IF d = c \/ d = i THEN s ELSE held[d],
         state' = [state EXCEPT ![s] = "open"],
         interface' = [interface EXCEPT ![s] = i],
         controller' = [controller EXCEPT ![s] = c],
         own' = [own EXCEPT ![s] = IF i = 0 THEN {"controller"} ELSE {"interface", "controller"}],
         UNCHANGED <<users, twice>>
  PROVE  HInv'
  <1> USE DEF Bounds
  <1>1. /\ s = made + 1 /\ s \in 1..MaxSessions /\ state[s] = "none"
        /\ c \in 1..MaxDescriptors
    <2>1. made \in Nat /\ s = made + 1
      BY Types DEF NewSession
    <2>2. s \in 1..MaxSessions /\ c \in 1..MaxDescriptors
      BY DEF Ids, Free, Descriptors
    <2> QED BY <2>1, <2>2 DEF HInv, Owned
  <1>2. \A u \in Users : mine[u] # s /\ mine'[u] = mine[u] /\ pc'[u] = pc[u] /\ mine[u] \in 0..MaxSessions
    <2>1. s # 0
      BY <1>1
    <2>2. \A u \in Users : mine[u] \in 0..MaxSessions
      BY DEF HInv, HTypeOK
    <2>3. \A u \in Users : mine[u] # s
      BY <1>1, <2>1 DEF HInv, Closing
    <2> QED BY <2>2, <2>3 DEF HInv, Closing, users
  <1>3. /\ state'[s] = "open" /\ interface'[s] = i /\ controller'[s] = c
        /\ own'[s] = IF i = 0 THEN {"controller"} ELSE {"interface", "controller"}
    BY DEF HInv, HTypeOK
  <1>4. \A t \in Ids \ {s} : /\ state'[t] = state[t] /\ interface'[t] = interface[t]
                             /\ controller'[t] = controller[t] /\ own'[t] = own[t]
    BY DEF HInv, HTypeOK
  <1>5. \A t \in Ids \ {s}, part \in Parts : Part(t, part)' = Part(t, part)
    BY <1>4 DEF Part
  <1>6. HTypeOK'
    <2>0. made' \in 0..MaxSessions
      BY <1>1
    <2>1. /\ state' \in [Ids -> {"none", "open", "closed"}]
          /\ interface' \in [Ids -> 0..MaxDescriptors]
      BY DEF HInv, HTypeOK
    <2>2. controller' \in [Ids -> 0..MaxDescriptors]
      <3>1. c \in 0..MaxDescriptors
        BY <1>1
      <3> QED BY <3>1 DEF HInv, HTypeOK
    <2>3. own' \in [Ids -> SUBSET Parts]
      BY DEF HInv, HTypeOK, Parts
    <2> QED BY <2>0, <2>1, <2>2, <2>3 DEF HInv, HTypeOK, users
  <1>7. Owned'
    <2>2. ASSUME NEW t \in Ids, t # s PROVE state'[t] = "none" <=> t > made'
      <3>1. state[t] = "none" <=> t > made
        BY DEF HInv, Owned
      <3>2. t \in Nat /\ made \in Nat /\ made' = made + 1
        BY <1>1, Types
      <3> QED BY <2>2, <3>1, <3>2, <1>1, <1>4
    <2>3. ASSUME NEW t \in Ids, t # s
          PROVE  /\ state'[t] = "none" => interface'[t] = 0
                 /\ state'[t] # "none" => controller'[t] # 0 /\ controller'[t] # interface'[t]
                 /\ "interface" \in own'[t] => interface'[t] # 0
                 /\ state'[t] = "open" /\ (\A u \in Users : mine'[u] # t) =>
                      "controller" \in own'[t] /\ (interface'[t] # 0 => "interface" \in own'[t])
                 /\ state'[t] # "open" => own'[t] = {}
      BY <2>3, <1>2, <1>4 DEF HInv, Owned
    <2> QED BY <1>1, <1>3, <2>2, <2>3 DEF Owned
  <1>8. Held'
    <2>1. ASSUME NEW t \in Ids, t # s, NEW d \in Descriptors, held'[d] = t
          PROVE  state'[t] # "none" /\ \E part \in own'[t] : Part(t, part)' = d
      <3>1. held[d] = t
        BY <2>1
      <3>2. PICK part \in own[t] : Part(t, part) = d
        BY <3>1 DEF HInv, Held
      <3>3. part \in Parts
        BY DEF HInv, HTypeOK
      <3> QED BY <2>1, <3>1, <3>2, <3>3, <1>4, <1>5 DEF HInv, Held
    <2>2. ASSUME NEW d \in Descriptors, held'[d] = s
          PROVE  state'[s] # "none" /\ \E part \in own'[s] : Part(s, part)' = d
      <3>1. held[d] # s
        BY <1>1 DEF HInv, Held
      <3>2. d = c \/ d = i
        BY <2>2, <3>1
      <3>3. CASE d = c
        BY <3>3, <1>3 DEF Part
      <3>4. CASE d = i
        <4>1. i # 0
          BY <3>4 DEF Descriptors
        <4> QED BY <3>4, <4>1, <1>3 DEF Part
      <3> QED BY <3>2, <3>3, <3>4
    <2> QED BY <2>1, <2>2 DEF Held
  <1>9. Closing'
    <2>1. ASSUME NEW u \in Users, mine[u] # 0 PROVE mine[u] \in Ids \ {s}
      BY <2>1, <1>2 DEF Ids
    <2>2. ASSUME NEW u \in Users, NEW part \in Parts, Disowning(u, part)'
          PROVE  (held[Part(mine[u], part)] # mine[u])'
      <3>1. Disowning(u, part) /\ mine[u] # 0
        BY <2>2, <1>2 DEF Disowning, At, HInv, Closing
      <3>2. Part(mine[u], part)' = Part(mine[u], part)
        BY <3>1, <2>1, <1>2, <1>5
      <3>3. held[Part(mine[u], part)] # mine[u]
        BY <3>1 DEF HInv, Closing
      <3>4. Part(mine[u], part) \in Descriptors
        BY <3>1, Disowned
      <3> QED BY <3>2, <3>3, <3>4, <1>2
    <2>3. ASSUME NEW u \in Users
          PROVE  /\ At(u, "idle")' <=> mine'[u] = 0
                 /\ mine'[u] # 0 => state'[mine'[u]] # "none"
                 /\ At(u, "interface")' \/ At(u, "disown interface")' => interface'[mine'[u]] # 0
                 /\ At(u, "controller")' \/ At(u, "disown controller")' => "interface" \notin own'[mine'[u]]
      <3>1. CASE mine[u] = 0
        <4>1. pc[u] = "idle"
          BY <3>1 DEF HInv, Closing, At
        <4>2. pc'[u] = "idle" /\ mine'[u] = 0
          BY <3>1, <4>1, <1>2
        <4> QED BY <4>2 DEF At
      <3>2. CASE mine[u] # 0
        <4>1. /\ pc[u] # "idle" /\ state[mine[u]] # "none"
              /\ pc[u] \in {"interface", "disown interface"} => interface[mine[u]] # 0
              /\ pc[u] \in {"controller", "disown controller"} => "interface" \notin own[mine[u]]
          BY <3>2 DEF HInv, Closing, At
        <4>2. /\ pc'[u] = pc[u] /\ mine'[u] = mine[u]
              /\ state'[mine[u]] = state[mine[u]] /\ own'[mine[u]] = own[mine[u]]
              /\ interface'[mine[u]] = interface[mine[u]]
          BY <3>2, <2>1, <1>2, <1>4
        <4>3. state'[mine'[u]] # "none" /\ mine'[u] # 0 /\ pc'[u] # "idle"
          BY <3>2, <4>1, <4>2
        <4>4. pc'[u] \in {"interface", "disown interface"} => interface'[mine'[u]] # 0
          BY <4>1, <4>2
        <4>5. pc'[u] \in {"controller", "disown controller"} => "interface" \notin own'[mine'[u]]
          BY <4>1, <4>2
        <4> QED BY <4>3, <4>4, <4>5 DEF At
      <3> QED BY <3>1, <3>2
    <2> QED BY <2>2, <2>3, <1>2 DEF Closing
  <1>10. Single'
    <2> SUFFICES ASSUME ~ twice PROVE Single'
      BY DEF Single
    <2>1. \A u, v \in Users : mine'[u] = mine'[v] /\ mine'[u] # 0 => u = v
      BY <1>2 DEF HInv, Single
    <2>2. ASSUME NEW t \in Ids, t # s, NEW part \in own'[t]
          PROVE  held'[Part(t, part)'] = t \/ \E u \in Users : mine'[u] = t /\ Disowning(u, part)'
      <3>1. part \in own[t] /\ part \in Parts /\ Part(t, part)' = Part(t, part)
        BY <2>2, <1>4, <1>5 DEF HInv, HTypeOK
      <3>2. CASE held[Part(t, part)] = t
        <4>1. Part(t, part) \in Descriptors
          BY <3>1, Types
        <4>2. Part(t, part) # c /\ Part(t, part) # i
          <5>1. t # 0
            BY DEF Ids
          <5> QED BY <3>2, <4>1, <5>1 DEF Free, Descriptors
        <4> QED BY <3>1, <3>2, <4>1, <4>2
      <3>3. CASE \E u \in Users : mine[u] = t /\ Disowning(u, part)
        BY <3>3, <1>2 DEF Disowning, At
      <3> QED BY <3>1, <3>2, <3>3 DEF HInv, Single
    <2>3. ASSUME NEW part \in own'[s] PROVE held'[Part(s, part)'] = s
      <3>1. CASE part = "controller"
        BY <3>1, <1>1, <1>3 DEF Part, Descriptors
      <3>2. CASE part = "interface" /\ i # 0
        BY <3>2, <1>3 DEF Part, Free
      <3> QED BY <2>3, <3>1, <3>2, <1>3
    <2> QED BY <2>1, <2>2, <2>3 DEF Single, users
  <1> QED BY <1>6, <1>7, <1>8, <1>9, <1>10 DEF HInv

LEMMA OpenInstrInv == ASSUME Bounds, HInv, OpenInstr PROVE HInv'
  <1>1. PICK s \in Ids, i \in Free, c \in Free :
          /\ NewSession(s) /\ i < c /\ made' = s
          /\ held' = [held EXCEPT ![i] = s, ![c] = s]
          /\ state' = [state EXCEPT ![s] = "open"]
          /\ interface' = [interface EXCEPT ![s] = i]
          /\ controller' = [controller EXCEPT ![s] = c]
          /\ own' = [own EXCEPT ![s] = {"interface", "controller"}]
          /\ UNCHANGED <<users, twice>>
    BY DEF OpenInstr
  <1>2. i \in 1..MaxDescriptors /\ c \in 1..MaxDescriptors
    BY DEF Free, Descriptors
  <1>3. i \in 0..MaxDescriptors /\ i # 0 /\ i # c
    BY <1>1, <1>2 DEF Bounds
  <1>4. s \in 0..Passed
    BY DEF Ids, Passed, Bounds
  <1>5. /\ held' \in [Descriptors -> 0..Passed]
        /\ \A d \in Descriptors : held'[d] = IF d = c \/ d = i THEN s ELSE held[d]
    BY <1>1, <1>4 DEF HInv, HTypeOK, Free
  <1> QED BY <1>1, <1>3, <1>5, OpenInv

LEMMA OpenIntfcInv == ASSUME Bounds, HInv, OpenIntfc PROVE HInv'
  <1>1. PICK s \in Ids, c \in Descriptors :
          /\ NewSession(s) /\ c \in Free /\ made' = s
          /\ held' = [held EXCEPT ![c] = s]
          /\ state' = [state EXCEPT ![s] = "open"]
          /\ controller' = [controller EXCEPT ![s] = c]
          /\ own' = [own EXCEPT ![s] = {"controller"}]
          /\ UNCHANGED <<interface, users, twice>>
    BY DEF OpenIntfc, IsNext
  <1>2. 0 \in 0..MaxDescriptors /\ 0 # c /\ s \in 0..Passed
    BY DEF Ids, Passed, Descriptors, Bounds
  <1>3. held' \in [Descriptors -> 0..Passed]
    BY <1>1, <1>2 DEF HInv, HTypeOK
  <1>4. \A d \in Descriptors : held'[d] = IF d = c \/ d = 0 THEN s ELSE held[d]
    <2>1. \A d \in Descriptors : d # 0
      BY DEF Descriptors
    <2> QED BY <1>1, <2>1 DEF HInv, HTypeOK
  <1>5. interface' = [interface EXCEPT ![s] = 0]
    <2>1. s > made
      BY <1>1, Types DEF NewSession
    <2>2. interface[s] = 0
      BY <2>1 DEF HInv, Owned
    <2>3. interface \in [Ids -> 0..MaxDescriptors]
      BY DEF HInv, HTypeOK
    <2> QED BY <1>1, <2>2, <2>3
  <1> QED BY <1>1, <1>2, <1>3, <1>4, <1>5, OpenInv

(* A descriptor that was free becomes that of the other controller.        *)
LEMMA PassControlInv == ASSUME Bounds, HInv, PassControl PROVE HInv'
  <1>1. PICK x \in Descriptors :
          /\ held[x] = 0 /\ held' = [held EXCEPT ![x] = Passed]
          /\ UNCHANGED <<made, state, interface, controller, own, users, twice>>
    BY DEF PassControl, IsNext, Free
  <1>2. HTypeOK'
    <2>1. Passed \in 0..Passed
      BY DEF Passed, Bounds
    <2>2. held' \in [Descriptors -> 0..Passed]
      BY <1>1, <2>1 DEF HInv, HTypeOK
    <2> QED BY <1>1, <2>2 DEF HInv, HTypeOK, users
  <1>3. \A t \in Ids, d \in Descriptors : held'[d] = t <=> held[d] = t
    <2>1. \A t \in Ids : t # 0 /\ t # Passed
      BY DEF Ids, Passed, Bounds
    <2> QED BY <1>1, <2>1 DEF HInv, HTypeOK
  <1>4. Owned'
    BY <1>1 DEF HInv, Owned, users
  <1>5. Held'
    BY <1>1, <1>3 DEF HInv, Held, Part
  <1>6. Closing'
    <2>1. ASSUME NEW u \in Users, NEW part \in Parts, Disowning(u, part)
          PROVE  held'[Part(mine[u], part)] # mine[u]
      <3>1. Part(mine[u], part) \in Descriptors /\ mine[u] \in Ids
        BY <2>1, Disowned
      <3>2. held[Part(mine[u], part)] # mine[u]
        BY <2>1 DEF HInv, Closing
      <3> QED BY <3>1, <3>2, <1>3
    <2> QED BY <1>1, <2>1 DEF HInv, Closing, At, Disowning, Part, users
  <1>7. Single'
    <2>1. ASSUME NEW t \in Ids, NEW part \in own[t], held[Part(t, part)] = t
          PROVE  held'[Part(t, part)] = t
      BY <2>1, <1>3, Types
    <2>2. own' = own /\ mine' = mine /\ pc' = pc /\ twice' = twice
      BY <1>1 DEF users
    <2>3. ASSUME NEW t \in Ids, NEW part \in Parts PROVE Part(t, part)' = Part(t, part)
      BY <1>1 DEF Part
    <2>4. ASSUME NEW u \in Users, NEW part \in Parts
          PROVE  Disowning(u, part)' <=> Disowning(u, part)
      BY <2>2 DEF Disowning, At
    <2>5. \A t \in Ids : own[t] \subseteq Parts
      BY Types
    <2>6. ASSUME ~ twice, NEW t \in Ids, NEW part \in own[t]
          PROVE  held'[Part(t, part)] = t \/ \E u \in Users : mine[u] = t /\ Disowning(u, part)
      BY <2>6, <2>1 DEF HInv, Single
    <2>7. ~ twice => \A u, v \in Users : mine[u] = mine[v] /\ mine[u] # 0 => u = v
      BY DEF HInv, Single
    <2> QED BY <2>2, <2>3, <2>4, <2>5, <2>6, <2>7 DEF Single
  <1> QED BY <1>2, <1>4, <1>5, <1>6, <1>7 DEF HInv

(* A thread enters close().                                                *)
LEMMA CloseInv == ASSUME Bounds, HInv, NEW u \in Users, Close(u) PROVE HInv'
  <1>1. PICK s \in Ids :
          /\ pc[u] = "idle" /\ state[s] # "none"
          /\ mine' = [mine EXCEPT ![u] = s]
          /\ twice' = (twice \/ \E v \in Users \ {u} : mine[v] = s)
          /\ pc' = [pc EXCEPT ![u] = IF interface[s] # 0 THEN "interface" ELSE "controller"]
          /\ UNCHANGED handles
    BY DEF Close, At, Goto
  <1>2. /\ held' = held /\ made' = made /\ state' = state /\ interface' = interface
        /\ controller' = controller /\ own' = own
    BY <1>1 DEF handles
  <1>3. s \in 0..MaxSessions /\ s # 0 /\ mine[u] = 0
    <2>1. s \in 0..MaxSessions /\ s # 0
      BY DEF Ids, Bounds
    <2> QED BY <1>1, <2>1 DEF HInv, Closing, At
  <1>4. /\ mine'[u] = s /\ pc'[u] = IF interface[s] # 0 THEN "interface" ELSE "controller"
        /\ \A v \in Users \ {u} : mine'[v] = mine[v] /\ pc'[v] = pc[v]
    BY <1>1 DEF HInv, HTypeOK
  <1>5. HTypeOK'
    <2>1. mine' \in [Users -> 0..MaxSessions]
      BY <1>1, <1>3 DEF HInv, HTypeOK
    <2>2. pc' \in [Users -> {"idle"} \cup Parts \cup {"disown interface", "disown controller"}]
      BY <1>1 DEF HInv, HTypeOK, Parts
    <2>3. twice' \in BOOLEAN
      BY <1>1 DEF HInv, HTypeOK
    <2> QED BY <1>2, <2>1, <2>2, <2>3 DEF HInv, HTypeOK
  <1>6. Owned'
    <2>1. \A t \in Ids : (\A v \in Users : mine'[v] # t) => \A v \in Users : mine[v] # t
      <3>1. \A t \in Ids : t # 0
        BY DEF Ids
      <3> QED BY <3>1, <1>3, <1>4
    <2> QED BY <1>2, <2>1 DEF HInv, Owned
  <1>7. Held'
    BY <1>2 DEF HInv, Held, Part
  <1>8. \A v \in Users, part \in Parts : Disowning(v, part)' <=> v # u /\ Disowning(v, part)
    BY <1>4 DEF Disowning, At
  <1>9. Closing'
    <2>1. ASSUME NEW v \in Users, v # u
          PROVE  /\ At(v, "idle")' <=> mine'[v] = 0
                 /\ mine'[v] # 0 => state'[mine'[v]] # "none"
                 /\ At(v, "interface")' \/ At(v, "disown interface")' => interface'[mine'[v]] # 0
                 /\ At(v, "controller")' \/ At(v, "disown controller")' => "interface" \notin own'[mine'[v]]
      BY <2>1, <1>2, <1>4 DEF HInv, Closing, At
    <2>2. /\ At(u, "idle")' <=> mine'[u] = 0
          /\ mine'[u] # 0 => state'[mine'[u]] # "none"
          /\ At(u, "interface")' \/ At(u, "disown interface")' => interface'[mine'[u]] # 0
          /\ At(u, "controller")' \/ At(u, "disown controller")' => "interface" \notin own'[mine'[u]]
      <3>1. interface[s] = 0 => "interface" \notin own[s]
        BY DEF HInv, Owned
      <3>2. mine'[u] = s /\ mine'[u] # 0 /\ pc'[u] # "idle"
        BY <1>3, <1>4
      <3>3. state'[mine'[u]] # "none"
        BY <3>2, <1>1, <1>2
      <3>4. pc'[u] \in {"interface", "disown interface"} => interface'[mine'[u]] # 0
        BY <3>2, <1>2, <1>4
      <3>5. pc'[u] \in {"controller", "disown controller"} => "interface" \notin own'[mine'[u]]
        BY <3>1, <3>2, <1>2, <1>4
      <3> QED BY <3>2, <3>3, <3>4, <3>5 DEF At
    <2>3. ASSUME NEW v \in Users, NEW part \in Parts, Disowning(v, part)'
          PROVE  (held[Part(mine[v], part)] # mine[v])'
      <3>1. v # u /\ Disowning(v, part)
        BY <2>3, <1>8
      <3>2. mine'[v] = mine[v]
        BY <3>1, <1>4
      <3>4. held[Part(mine[v], part)] # mine[v]
        BY <3>1 DEF HInv, Closing
      <3>3. Part(mine[v], part)' = Part(mine[v], part)
        BY <3>2, <1>2 DEF Part
      <3> QED BY <3>2, <3>3, <3>4, <1>2
    <2> QED BY <2>1, <2>2, <2>3 DEF Closing
  <1>10. Single'
    <2>1. CASE twice' = TRUE
      BY <2>1 DEF Single
    <2>2. CASE ~ twice'
      <3>1. ~ twice /\ \A v \in Users \ {u} : mine[v] # s
        BY <2>2, <1>1
      <3>2. \A v, w \in Users : mine'[v] = mine'[w] /\ mine'[v] # 0 => v = w
        BY <3>1, <1>4 DEF HInv, Single
      <3>3. ASSUME NEW t \in Ids, NEW part \in own'[t]
            PROVE  (held[Part(t, part)] = t \/ \E v \in Users : mine[v] = t /\ Disowning(v, part))'
        <4>1. part \in own[t] /\ part \in Parts /\ t # 0
          BY <1>2, <3>3, Types
        <4>2. CASE held[Part(t, part)] = t
          BY <4>2, <1>2 DEF Part
        <4>3. ASSUME NEW v \in Users, mine[v] = t, Disowning(v, part)
              PROVE  (\E w \in Users : mine[w] = t /\ Disowning(w, part))'
          <5>1. v # u
            BY <4>1, <4>3, <1>3
          <5> QED BY <4>1, <4>3, <5>1, <1>4, <1>8
        <4> QED BY <3>1, <4>1, <4>2, <4>3 DEF HInv, Single
      <3> QED BY <3>2, <3>3 DEF Single
    <2> QED BY <2>1, <2>2, <1>5 DEF HTypeOK
  <1> QED BY <1>5, <1>6, <1>7, <1>9, <1>10 DEF HInv

(* The driver closes the descriptor of a part that the object still owns.  *)
LEMMA CloseDescriptorInv ==
  ASSUME Bounds, HInv, NEW u \in Users, CloseDescriptor(u) PROVE HInv'
  <1>1. PICK part \in Parts :
          /\ pc[u] = part
          /\ held' = IF part \in own[mine[u]] THEN [held EXCEPT ![Part(mine[u], part)] = 0] ELSE held
          /\ pc' = [pc EXCEPT ![u] = IF part = "interface" THEN "disown interface" ELSE "disown controller"]
          /\ UNCHANGED <<made, state, interface, controller, own, mine, passes, twice>>
    BY DEF CloseDescriptor, At, Goto, Part, Parts
  <1> DEFINE s == mine[u]
             d == Part(s, part)
  <1>2. s # 0 /\ s \in Ids /\ state[s] # "none"
    BY <1>1, Types DEF Parts, HInv, Closing, At
  <1>3. /\ controller[s] # 0 /\ controller[s] # interface[s]
        /\ part = "interface" => interface[s] # 0
        /\ part = "controller" => "interface" \notin own[s]
    BY <1>1, <1>2 DEF HInv, Owned, Closing, At
  <1>4. d \in Descriptors
    BY <1>2, <1>3, Types DEF Part, Parts, Descriptors, Bounds
  <1>5. \A x \in Descriptors : held'[x] = IF part \in own[s] /\ x = d THEN 0 ELSE held[x]
    BY <1>1 DEF HInv, HTypeOK
  <1>6. \A x \in Descriptors, t \in Ids : held'[x] = t => held[x] = t
    <2>1. \A t \in Ids : t # 0
      BY DEF Ids
    <2> QED BY <1>5, <2>1
  <1>7. /\ \A v \in Users \ {u} : pc'[v] = pc[v]
        /\ pc'[u] = IF part = "interface" THEN "disown interface" ELSE "disown controller"
    BY <1>1 DEF HInv, HTypeOK
  <1>8. \A t \in Ids, p \in Parts : Part(t, p)' = Part(t, p)
    BY <1>1 DEF Part
  <1>9. held'[d] # s
    <2>1. CASE part \in own[s]
      BY <2>1, <1>2, <1>4, <1>5
    <2>2. CASE part \notin own[s]
      <3>1. \A p \in own[s] : Part(s, p) # d
        BY <2>2, <1>2, <1>3, Types DEF Part, Parts
      <3>2. held[d] # s
        BY <3>1, <1>2, <1>4 DEF HInv, Held
      <3> QED BY <3>2, <1>2, <1>4, <1>6
    <2> QED BY <2>1, <2>2
  <1>10. HTypeOK'
    <2>1. 0 \in 0..Passed
      BY DEF Passed, Bounds
    <2>2. held' \in [Descriptors -> 0..Passed]
      BY <1>1, <2>1 DEF HInv, HTypeOK
    <2>3. pc' \in [Users -> {"idle"} \cup Parts \cup {"disown interface", "disown controller"}]
      BY <1>1 DEF HInv, HTypeOK, Parts
    <2> QED BY <1>1, <2>2, <2>3 DEF HInv, HTypeOK
  <1>11. Owned'
    BY <1>1 DEF HInv, Owned
  <1>12. Held'
    <2>1. ASSUME NEW t \in Ids, NEW x \in Descriptors, held'[x] = t
          PROVE  state'[t] # "none" /\ \E p \in own'[t] : Part(t, p)' = x
      <3>1. held[x] = t
        BY <2>1, <1>6
      <3>2. state[t] # "none" /\ \E p \in own[t] : Part(t, p) = x
        BY <3>1 DEF HInv, Held
      <3> QED BY <3>2, <1>1, <1>8, Types
    <2> QED BY <2>1 DEF Held
  <1>13. Closing'
    <2>1. ASSUME NEW v \in Users, v # u
          PROVE  /\ At(v, "idle")' <=> mine'[v] = 0
                 /\ mine'[v] # 0 => state'[mine'[v]] # "none"
                 /\ At(v, "interface")' \/ At(v, "disown interface")' => interface'[mine'[v]] # 0
                 /\ At(v, "controller")' \/ At(v, "disown controller")' => "interface" \notin own'[mine'[v]]
      BY <2>1, <1>1, <1>7 DEF HInv, Closing, At
    <2>2. /\ At(u, "idle")' <=> mine'[u] = 0
          /\ mine'[u] # 0 => state'[mine'[u]] # "none"
          /\ At(u, "interface")' \/ At(u, "disown interface")' => interface'[mine'[u]] # 0
          /\ At(u, "controller")' \/ At(u, "disown controller")' => "interface" \notin own'[mine'[u]]
      <3>1. mine' = mine /\ state' = state /\ interface' = interface /\ own' = own
        BY <1>1
      <3>4. pc'[u] # "idle"
        BY <1>7
      <3>2. pc'[u] \in {"interface", "disown interface"} => interface[s] # 0
        BY <1>3, <1>7
      <3>3. pc'[u] \in {"controller", "disown controller"} => "interface" \notin own[s]
        BY <1>3, <1>7 DEF Parts
      <3> QED BY <3>1, <3>2, <3>3, <3>4, <1>2 DEF At
    <2>3. ASSUME NEW v \in Users, NEW p \in Parts, Disowning(v, p)'
          PROVE  (held[Part(mine[v], p)] # mine[v])'
      <3>1. CASE v = u
        <4>1. p = part
          BY <2>3, <3>1, <1>7 DEF Disowning, At, Parts
        <4>2. Part(mine[v], p)' = d /\ mine'[v] = s
          BY <3>1, <4>1, <1>1, <1>2, <1>8
        <4> QED BY <4>2, <1>9
      <3>2. CASE v # u
        <4>1. Disowning(v, p)
          BY <2>3, <3>2, <1>7 DEF Disowning, At
        <4>2. held[Part(mine[v], p)] # mine[v]
          BY <4>1 DEF HInv, Closing
        <4>3. mine[v] \in Ids /\ Part(mine[v], p) \in Descriptors
          BY <4>1, Disowned
        <4>4. Part(mine[v], p)' = Part(mine[v], p) /\ mine'[v] = mine[v]
          BY <4>3, <1>1, <1>8
        <4> QED BY <4>2, <4>3, <4>4, <1>6
      <3> QED BY <3>1, <3>2
    <2> QED BY <2>1, <2>2, <2>3 DEF Closing
  <1>14. Single'
    <2>1. CASE twice
      BY <2>1, <1>1 DEF Single
    <2>2. CASE ~ twice
      <3>1. \A v, w \in Users : mine'[v] = mine'[w] /\ mine'[v] # 0 => v = w
        BY <2>2, <1>1 DEF HInv, Single
      <3>2. ASSUME NEW t \in Ids, NEW p \in own'[t]
            PROVE  (held[Part(t, p)] = t \/ \E v \in Users : mine[v] = t /\ Disowning(v, p))'
        <4>1. p \in own[t] /\ p \in Parts /\ Part(t, p) \in Descriptors
          BY <1>1, <3>2, Types
        <4>2. Part(t, p)' = Part(t, p)
          BY <4>1, <1>8
        <4>3. ASSUME NEW v \in Users, mine[v] = t, Disowning(v, p)
              PROVE  (\E w \in Users : mine[w] = t /\ Disowning(w, p))'
          <5>1. v # u
            BY <4>3, <1>1 DEF Disowning, At, Parts
          <5>2. Disowning(v, p)' /\ mine'[v] = t
            BY <4>3, <5>1, <1>1, <1>7 DEF Disowning, At
          <5> QED BY <5>2
        <4>4. CASE held[Part(t, p)] = t /\ ~ (part \in own[s] /\ Part(t, p) = d)
          <5>1. held'[Part(t, p)] = t
            BY <4>4, <4>1, <1>5
          <5> QED BY <5>1, <4>2
        <4>5. CASE held[Part(t, p)] = t /\ part \in own[s] /\ Part(t, p) = d
          <5>1. ~ \E v \in Users : mine[v] = s /\ Disowning(v, part)
            <6>1. ~ Disowning(u, part)
              BY <1>1 DEF Disowning, At, Parts
            <6> QED BY <6>1, <2>2, <1>2 DEF HInv, Single
          <5>2. held[d] = s
            BY <4>5, <5>1, <1>2, <2>2 DEF HInv, Single
          <5>3. t = s
            BY <4>5, <5>2
          <5>4. p = part
            BY <4>1, <4>5, <5>3, <1>3 DEF Part, Parts
          <5>5. Disowning(u, p)' /\ mine'[u] = t
            BY <5>3, <5>4, <1>1, <1>7 DEF Disowning, At, Parts
          <5> QED BY <5>5
        <4> QED BY <4>1, <4>3, <4>4, <4>5, <2>2 DEF HInv, Single
      <3> QED BY <3>1, <3>2 DEF Single
    <2> QED BY <2>1, <2>2
  <1> QED BY <1>10, <1>11, <1>12, <1>13, <1>14 DEF HInv

(* The object forgets its descriptor, which is free already or another's.  *)
LEMMA DisownInv ==
  ASSUME Bounds, HInv, NEW u \in Users, NEW part \in Parts, Disowning(u, part),
         Disown(mine[u], part),
         IF part = "interface"
         THEN pc' = [pc EXCEPT ![u] = "controller"] /\ UNCHANGED <<state, mine>>
         ELSE /\ pc' = [pc EXCEPT ![u] = "idle"]
              /\ mine' = [mine EXCEPT ![u] = 0]
              /\ state' = [state EXCEPT ![mine[u]] = "closed"],
         UNCHANGED <<held, made, interface, controller, passes, twice>>
  PROVE  HInv'
  <1> DEFINE s == mine[u]
  <1>1. s # 0 /\ s \in Ids /\ state[s] # "none" /\ held[Part(s, part)] # s
    BY Disowned DEF HInv, Closing
  <1>2. /\ \A t \in Ids \ {s} : own'[t] = own[t] /\ state'[t] = state[t]
        /\ own'[s] = own[s] \ {part}
        /\ state'[s] = IF part = "interface" THEN state[s] ELSE "closed"
    BY <1>1 DEF HInv, HTypeOK, Disown, Parts
  <1>3. /\ \A v \in Users \ {u} : pc'[v] = pc[v] /\ mine'[v] = mine[v]
        /\ part = "interface" => pc'[u] = "controller" /\ mine'[u] = s
        /\ part = "controller" => pc'[u] = "idle" /\ mine'[u] = 0
    BY DEF HInv, HTypeOK, Parts
  <1>4. \A t \in Ids, p \in Parts : Part(t, p)' = Part(t, p)
    BY DEF Part
  <1>5. part = "controller" => own'[s] = {}
    <2>1. part = "controller" => "interface" \notin own[s]
      BY DEF HInv, Closing, Disowning
    <2>2. own[s] \subseteq Parts
      BY <1>1, Types
    <2> QED BY <1>2, <2>1, <2>2 DEF Parts
  <1>6. HTypeOK'
    <2>1. pc' \in [Users -> {"idle"} \cup Parts \cup {"disown interface", "disown controller"}]
      BY DEF HInv, HTypeOK, Parts
    <2>2. state' \in [Ids -> {"none", "open", "closed"}]
      BY <1>1 DEF HInv, HTypeOK, Parts
    <2>3. mine' \in [Users -> 0..MaxSessions]
      <3>1. 0 \in 0..MaxSessions
        BY DEF Bounds
      <3> QED BY <3>1 DEF HInv, HTypeOK
    <2>4. own' \in [Ids -> SUBSET Parts]
      BY <1>1 DEF HInv, HTypeOK, Disown
    <2> QED BY <2>1, <2>2, <2>3, <2>4 DEF HInv, HTypeOK
  <1>7. Owned'
    <2>1. ASSUME NEW t \in Ids, t # s
          PROVE  /\ state'[t] = "none" <=> t > made'
                 /\ state'[t] = "none" => interface'[t] = 0
                 /\ state'[t] # "none" => controller'[t] # 0 /\ controller'[t] # interface'[t]
                 /\ "interface" \in own'[t] => interface'[t] # 0
                 /\ state'[t] = "open" /\ (\A v \in Users : mine'[v] # t) =>
                      "controller" \in own'[t] /\ (interface'[t] # 0 => "interface" \in own'[t])
                 /\ state'[t] # "open" => own'[t] = {}
      <3>1. (\A v \in Users : mine'[v] # t) => \A v \in Users : mine[v] # t
        BY <2>1, <1>3
      <3> QED BY <2>1, <3>1, <1>2 DEF HInv, Owned
    <2>2. /\ state'[s] # "none" /\ ~ (s > made')
          /\ controller'[s] # 0 /\ controller'[s] # interface'[s]
          /\ "interface" \in own'[s] => interface'[s] # 0
      BY <1>1, <1>2 DEF HInv, Owned
    <2>3. ~ (state'[s] = "open" /\ \A v \in Users : mine'[v] # s)
      BY <1>2, <1>3 DEF Parts
    <2>4. state'[s] # "open" => own'[s] = {}
      <3>1. state[s] # "open" => own[s] = {}
        BY <1>1 DEF HInv, Owned
      <3> QED BY <3>1, <1>2, <1>5 DEF Parts
    <2> QED BY <2>1, <2>2, <2>3, <2>4 DEF Owned
  <1>8. Held'
    <2>1. ASSUME NEW t \in Ids, NEW x \in Descriptors, held'[x] = t
          PROVE  state'[t] # "none" /\ \E p \in own'[t] : Part(t, p)' = x
      <3>1. PICK p \in own[t] : Part(t, p) = x
        BY <2>1 DEF HInv, Held
      <3>2. state[t] # "none" /\ p \in Parts
        BY <2>1, <3>1, Types DEF HInv, Held
      <3>3. t = s => p # part
        BY <2>1, <3>1, <1>1
      <3>4. p \in own'[t] /\ state'[t] # "none"
        BY <3>1, <3>2, <3>3, <1>1, <1>2
      <3> QED BY <3>1, <3>2, <3>4, <1>4
    <2> QED BY <2>1 DEF Held
  <1>9. \A v \in Users, p \in Parts : Disowning(v, p)' <=> v # u /\ Disowning(v, p)
    <2>1. \A p \in Parts : ~ Disowning(u, p)'
      BY <1>3 DEF Disowning, At, Parts
    <2>2. \A v \in Users \ {u}, p \in Parts : Disowning(v, p)' <=> Disowning(v, p)
      BY <1>3 DEF Disowning, At
    <2> QED BY <2>1, <2>2
  <1>10. Closing'
    <2>1. ASSUME NEW v \in Users, v # u
          PROVE  /\ At(v, "idle")' <=> mine'[v] = 0
                 /\ mine'[v] # 0 => state'[mine'[v]] # "none"
                 /\ At(v, "interface")' \/ At(v, "disown interface")' => interface'[mine'[v]] # 0
                 /\ At(v, "controller")' \/ At(v, "disown controller")' => "interface" \notin own'[mine'[v]]
      <3>1. pc'[v] = pc[v] /\ mine'[v] = mine[v] /\ interface' = interface
        BY <2>1, <1>3
      <3>2. pc[v] = "idle" <=> mine[v] = 0
        BY DEF HInv, Closing, At
      <3>3. mine[v] # 0 => state'[mine[v]] # "none"
        <4>1. mine[v] # 0 => mine[v] \in Ids /\ state[mine[v]] # "none"
          BY Types DEF HInv, Closing
        <4> QED BY <4>1, <1>1, <1>2
      <3>4. pc[v] \in {"interface", "disown interface"} => interface[mine[v]] # 0
        BY DEF HInv, Closing, At
      <3>5. pc[v] \in {"controller", "disown controller"} => "interface" \notin own'[mine[v]]
        <4>1. pc[v] \in {"controller", "disown controller"} =>
                mine[v] # 0 /\ "interface" \notin own[mine[v]]
          BY <3>2 DEF HInv, Closing, At
        <4>2. mine[v] # 0 => own'[mine[v]] \subseteq own[mine[v]]
          BY Types, <1>2
        <4> QED BY <4>1, <4>2
      <3> QED BY <3>1, <3>2, <3>3, <3>4, <3>5 DEF At
    <2>2. /\ At(u, "idle")' <=> mine'[u] = 0
          /\ mine'[u] # 0 => state'[mine'[u]] # "none"
          /\ At(u, "interface")' \/ At(u, "disown interface")' => interface'[mine'[u]] # 0
          /\ At(u, "controller")' \/ At(u, "disown controller")' => "interface" \notin own'[mine'[u]]
      <3>1. CASE part = "interface"
        <4>1. pc'[u] = "controller" /\ mine'[u] = s
          BY <3>1, <1>3
        <4>2. state'[s] # "none" /\ "interface" \notin own'[s]
          BY <3>1, <1>1, <1>2
        <4> QED BY <4>1, <4>2, <1>1 DEF At
      <3>2. CASE part = "controller"
        <4>1. pc'[u] = "idle" /\ mine'[u] = 0
          BY <3>2, <1>3
        <4> QED BY <4>1 DEF At
      <3> QED BY <3>1, <3>2 DEF Parts
    <2>3. ASSUME NEW v \in Users, NEW p \in Parts, Disowning(v, p)'
          PROVE  (held[Part(mine[v], p)] # mine[v])'
      <3>1. v # u /\ Disowning(v, p)
        BY <2>3, <1>9
      <3>2. held[Part(mine[v], p)] # mine[v] /\ mine'[v] = mine[v]
        BY <3>1, <1>3 DEF HInv, Closing
      <3>3. Part(mine[v], p)' = Part(mine[v], p)
        BY <3>2 DEF Part
      <3> QED BY <3>2, <3>3
    <2> QED BY <2>1, <2>2, <2>3 DEF Closing
  <1>11. Single'
    <2>1. CASE twice
      BY <2>1 DEF Single
    <2>2. CASE ~ twice
      <3>1. \A v, w \in Users : mine'[v] = mine'[w] /\ mine'[v] # 0 => v = w
        BY <2>2, <1>3 DEF HInv, Single, Parts
      <3>2. ASSUME NEW t \in Ids, NEW p \in own'[t]
            PROVE  (held[Part(t, p)] = t \/ \E v \in Users : mine[v] = t /\ Disowning(v, p))'
        <4>1. p \in own[t] /\ p \in Parts /\ ~ (t = s /\ p = part)
          BY <3>2, <1>1, <1>2, Types
        <4>2. Part(t, p)' = Part(t, p)
          BY <4>1, <1>4
        <4>3. ASSUME NEW v \in Users, mine[v] = t, Disowning(v, p)
              PROVE  (\E w \in Users : mine[w] = t /\ Disowning(w, p))'
          <5>1. v # u
            <6>1. Disowning(u, p) => p = part
              BY <4>1 DEF Disowning, At, Parts
            <6> QED BY <6>1, <4>1, <4>3
          <5>2. Disowning(v, p)' /\ mine'[v] = t
            BY <4>1, <4>3, <5>1, <1>3, <1>9
          <5> QED BY <5>2
        <4> QED BY <4>1, <4>2, <4>3, <2>2 DEF HInv, Single
      <3> QED BY <3>1, <3>2 DEF Single
    <2> QED BY <2>1, <2>2
  <1> QED BY <1>6, <1>7, <1>8, <1>10, <1>11 DEF HInv

LEMMA ReturnsInv == ASSUME Bounds, HInv, NEW u \in Users, CloseReturns(u) PROVE HInv'
  <1>1. ASSUME At(u, "disown interface"), Disown(mine[u], "interface"), Goto(u, "controller"),
               UNCHANGED <<held, made, state, interface, controller, mine, passes, twice>>
        PROVE  HInv'
    <2>1. "interface" \in Parts /\ Disowning(u, "interface")
      BY <1>1 DEF Parts, Disowning
    <2> QED BY <1>1, <2>1, DisownInv DEF Goto
  <1>2. ASSUME At(u, "disown controller"), Disown(mine[u], "controller"), Goto(u, "idle"),
               state' = [state EXCEPT ![mine[u]] = "closed"],
               mine' = [mine EXCEPT ![u] = 0],
               UNCHANGED <<held, made, interface, controller, passes, twice>>
        PROVE  HInv'
    <2>1. "controller" \in Parts /\ Disowning(u, "controller")
      BY <1>2 DEF Parts, Disowning
    <2> QED BY <1>2, <2>1, DisownInv DEF Goto
  <1> QED BY <1>1, <1>2 DEF CloseReturns

LEMMA UnchangedInv == ASSUME HInv, UNCHANGED hvars PROVE HInv'
  <1>1. /\ held' = held /\ made' = made /\ state' = state /\ interface' = interface
        /\ controller' = controller /\ own' = own /\ pc' = pc /\ mine' = mine /\ twice' = twice
    BY DEF hvars, handles, users
  <1>2. HTypeOK'
    BY <1>1 DEF HInv, HTypeOK
  <1>3. Owned'
    BY <1>1 DEF HInv, Owned
  <1>4. /\ \A t, part : Part(t, part)' = Part(t, part)
        /\ \A v, part : Disowning(v, part)' = Disowning(v, part)
        /\ \A v, here : At(v, here)' = At(v, here)
    BY <1>1 DEF Part, Disowning, At
  <1>5. Held'
    BY <1>1, <1>4 DEF HInv, Held
  <1>6. Closing'
    BY <1>1, <1>4 DEF HInv, Closing
  <1>7. Single'
    BY <1>1, <1>4 DEF HInv, Single
  <1> QED BY <1>2, <1>3, <1>5, <1>6, <1>7 DEF HInv

(* The type invariant and the other parts of HInv hold in every state, for *)
(* any set of threads and any numbers of sessions and descriptors.         *)
THEOREM HandlesInvariant == HSpec => []HInv
  <1>0. Bounds
    BY HandleBounds DEF Bounds
  <1>1. HInit => HInv
    BY <1>0, InitInv
  <1>2. HInv /\ [HNext]_hvars => HInv'
    BY <1>0, OpenInstrInv, OpenIntfcInv, PassControlInv, CloseInv, CloseDescriptorInv,
       ReturnsInv, UnchangedInv DEF HNext
  <1> QED BY <1>1, <1>2, PTL DEF HSpec

(* An open session that nobody closes has its descriptors, also when the   *)
(* driver has given the numbers of closed ones out again; a closed one has *)
(* none (gpib.py: after_parsing, close, _patch_Gpib).                      *)
THEOREM Descriptors_belong_to_open_sessions == HSpec => []DescriptorsOwned
  <1>1. HInv => HandlesStay
    <2> SUFFICES ASSUME HInv, ~ twice, NEW s \in Ids, state[s] = "open",
                        \A u \in Users : mine[u] # s
                 PROVE  held[controller[s]] = s /\ (interface[s] # 0 => held[interface[s]] = s)
      BY DEF HandlesStay
    <2>1. \A part \in own[s] : held[Part(s, part)] = s
      BY DEF HInv, Single
    <2>2. "controller" \in own[s] /\ (interface[s] # 0 => "interface" \in own[s])
      BY DEF HInv, Owned
    <2> QED BY <2>1, <2>2 DEF Part
  <1>2. HInv => ClosedHoldsNothing
    BY DEF HInv, Owned, Held, ClosedHoldsNothing
  <1> QED BY <1>1, <1>2, HandlesInvariant, PTL DEF DescriptorsOwned

-----------------------------------------------------------------------------
(* RemoteLocal.                                                            *)
(* A call under way has all of its requests before it or, of two, the      *)
(* second; REN is on in between if the first has turned it on.             *)
RInv ==
    /\ via \in Interfaces /\ op \in Operations
    /\ outcome = "busy" =>
         /\ Requests(op) \notin {<<>>, <<"unsupported">>}
         /\ \/ todo = Requests(op)
            \/ \E a, b : /\ Requests(op) = <<a, b>> /\ todo = <<b>>
                         /\ a = "REN on" => ren
    /\ outcome = "success" => AchievedVia(op)

LEMMA Joined ==
  ASSUME NEW a, NEW b
  PROVE  /\ <<>> \o <<>> = <<>>
         /\ <<>> \o <<a>> = <<a>> /\ <<a>> \o <<>> = <<a>> /\ <<a>> \o <<b>> = <<a, b>>
         /\ <<a, b>> \o <<>> = <<a, b>>
  <1>1. <<a>> \in Seq({a, b}) /\ <<a, b>> \in Seq({a, b}) /\ <<>> \in Seq({a, b})
    OBVIOUS
  <1>2. <<a>> \o <<b>> = <<a, b>>
    <2> DEFINE ab == <<a, b>>
               cat == <<a>> \o <<b>>
    <2>1. cat \in Seq({a, b}) /\ Len(cat) = 2 /\ cat[1] = a /\ cat[2] = b
      <3>1. <<b>> \in Seq({a, b})
        OBVIOUS
      <3> QED BY <1>1, <3>1
    <2>2. ab \in Seq({a, b}) /\ Len(ab) = 2 /\ ab[1] = a /\ ab[2] = b
      BY <1>1
    <2>3. Len(cat) = Len(ab) /\ \A i \in 1..Len(cat) : cat[i] = ab[i]
      <3>1. \A i \in 1..2 : i = 1 \/ i = 2
        OBVIOUS
      <3> HIDE DEF ab, cat
      <3> QED BY <3>1, <2>1, <2>2
    <2> HIDE DEF ab, cat
    <2>4. cat = ab
      BY <2>1, <2>2, <2>3, SeqEqual
    <2> QED BY <2>4 DEF ab, cat
  <1> QED BY <1>1, <1>2, ConcatEmptySeq

(* The requests of USBTMC, written out.                                    *)
LEMMA UsbTmcTable ==
  /\ UsbTmcRequests("address_gtl") = <<"GTL">>
  /\ UsbTmcRequests("asrt") = <<"REN on">>
  /\ UsbTmcRequests("asrt_address") = <<"REN on">>
  /\ UsbTmcRequests("asrt_address_llo") = <<"REN on", "LLO">>
  /\ UsbTmcRequests("asrt_llo") = <<"LLO">>
  /\ UsbTmcRequests("deassert") = <<"REN off">>
  /\ UsbTmcRequests("deassert_gtl") = <<"GTL", "REN off">>
  <1>1. UsbTmcRequests("address_gtl") = <<"GTL">>
    BY Joined DEF UsbTmcRequests
  <1>2. UsbTmcRequests("asrt") = <<"REN on">>
    BY Joined DEF UsbTmcRequests
  <1>3. UsbTmcRequests("asrt_address") = <<"REN on">>
    BY Joined DEF UsbTmcRequests
  <1>4. UsbTmcRequests("asrt_address_llo") = <<"REN on", "LLO">>
    BY Joined DEF UsbTmcRequests
  <1>5. UsbTmcRequests("asrt_llo") = <<"LLO">>
    BY Joined DEF UsbTmcRequests
  <1>6. UsbTmcRequests("deassert") = <<"REN off">>
    BY Joined DEF UsbTmcRequests
  <1>7. UsbTmcRequests("deassert_gtl") = <<"GTL", "REN off">>
    BY Joined DEF UsbTmcRequests
  <1> QED BY <1>1, <1>2, <1>3, <1>4, <1>5, <1>6, <1>7

(* One request makes the operation, or a second one after REN is on.       *)
LEMMA Shape ==
  ASSUME via \in Interfaces, NEW o \in Operations
  PROVE  \/ Requests(o) = <<>>
         \/ \E a : Requests(o) = <<a>>
         \/ \E a, b : Requests(o) = <<a, b>>
  <1>1. CASE via = "vxi11"
    BY <1>1 DEF Requests, Vxi11Requests
  <1>2. CASE via = "hislip"
    BY <1>2 DEF Requests, HislipRequests, Operations
  <1>3. CASE via = "gpib instr"
    BY <1>3 DEF Requests, GpibRequests, Operations
  <1>4. CASE via = "gpib intfc"
    BY <1>4 DEF Requests, GpibIntfcRequests, GpibRequests, Operations
  <1>5. CASE via = "usbtmc"
    BY <1>5, UsbTmcTable DEF Requests, Operations
  <1> QED BY <1>1, <1>2, <1>3, <1>4, <1>5 DEF Interfaces

LEMMA Tuples ==
  /\ \A x, y : <<x>> = <<y>> => x = y
  /\ \A x, y, z : <<x>> # <<y, z>>
  /\ \A x, y, z, w : <<x, y>> = <<z, w>> => x = z /\ y = w
  OBVIOUS

LEMMA Second ==
  ASSUME via \in Interfaces, op \in Operations, NEW a, NEW b, Requests(op) = <<a, b>>
  PROVE  b # "unsupported"
  <1>1. CASE via = "vxi11"
    BY <1>1 DEF Requests, Vxi11Requests
  <1>2. CASE via = "hislip"
    BY <1>2 DEF Requests, HislipRequests, Operations
  <1>3. CASE via = "gpib instr"
    BY <1>3 DEF Requests, GpibRequests, Operations
  <1>4. CASE via = "gpib intfc"
    BY <1>4 DEF Requests, GpibIntfcRequests, GpibRequests
  <1>5. CASE via = "usbtmc"
    <2>1. UsbTmcRequests(op) = <<a, b>>
      BY <1>5 DEF Requests
    <2>2. ASSUME NEW r PROVE UsbTmcRequests(op) # <<r>>
      BY <2>1, Tuples
    <2>3. ASSUME NEW q, NEW r, UsbTmcRequests(op) = <<q, r>> PROVE b = r
      BY <2>1, <2>3, Tuples
    <2>4. op \in {"asrt_address_llo", "deassert_gtl"}
      BY <2>2, UsbTmcTable DEF Operations
    <2>5. b \in {"LLO", "REN off"}
      BY <2>3, <2>4, UsbTmcTable
    <2> QED BY <2>5
  <1> QED BY <1>1, <1>2, <1>3, <1>4, <1>5 DEF Interfaces

LEMMA UsbTmcLast ==
  ASSUME via = "usbtmc", NEW b,
         \/ Requests(op) = <<b>>
         \/ \E a : Requests(op) = <<a, b>> /\ (a = "REN on" => ren)
  PROVE  /\ op \in {"asrt", "asrt_address"} => b = "REN on"
         /\ op = "asrt_llo" => b = "LLO"
         /\ op = "asrt_address_llo" => b = "LLO" /\ ren
         /\ op = "address_gtl" => b = "GTL"
         /\ op \in {"deassert", "deassert_gtl"} => b = "REN off"
  <1>1. Requests(op) = UsbTmcRequests(op)
    BY DEF Requests
  <1>2. ASSUME NEW r, UsbTmcRequests(op) = <<r>> PROVE b = r
    BY <1>1, <1>2, Tuples
  <1>3. ASSUME NEW r, NEW q, UsbTmcRequests(op) = <<q, r>> PROVE b = r /\ (q = "REN on" => ren)
    BY <1>1, <1>3, Tuples
  <1>4. op \in {"asrt", "asrt_address"} => b = "REN on"
    BY <1>2, UsbTmcTable
  <1>5. op = "asrt_llo" => b = "LLO"
    BY <1>2, UsbTmcTable
  <1>6. op = "asrt_address_llo" => b = "LLO" /\ ren
    BY <1>3, UsbTmcTable
  <1>7. op = "address_gtl" => b = "GTL"
    BY <1>2, UsbTmcTable
  <1>8. op \in {"deassert", "deassert_gtl"} => b = "REN off"
    BY <1>2, <1>3, UsbTmcTable
  <1> QED BY <1>4, <1>5, <1>6, <1>7, <1>8

LEMMA LastAchieves ==
  ASSUME via \in Interfaces, op \in Operations, UNCHANGED <<via, op>>,
         NEW b, Effect(b), b # "unsupported",
         \/ Requests(op) = <<b>>
         \/ \E a : Requests(op) = <<a, b>> /\ (a = "REN on" => ren)
  PROVE  AchievedVia(op)'
  <1> USE DEF Requests, AchievedVia, Achieved, Effect, Enables, Disables, GoesRemote, GoesLocal, Locks
  <1>1. CASE via = "vxi11"
    BY <1>1 DEF Vxi11Requests, Operations
  <1>2. CASE via = "hislip"
    BY <1>2 DEF HislipRequests, Operations
  <1>3. CASE via = "gpib instr"
    BY <1>3 DEF GpibRequests, Operations
  <1>4. CASE via = "gpib intfc"
    BY <1>4 DEF GpibIntfcRequests, GpibRequests, Operations
  <1>5. CASE via = "usbtmc"
    <2>1. /\ op \in {"asrt", "asrt_address"} => b = "REN on"
          /\ op = "asrt_llo" => b = "LLO"
          /\ op = "asrt_address_llo" => b = "LLO" /\ ren
          /\ op = "address_gtl" => b = "GTL"
          /\ op \in {"deassert", "deassert_gtl"} => b = "REN off"
      BY <1>5, UsbTmcLast
    <2> QED BY <2>1, <1>5 DEF Operations
  <1> QED BY <1>1, <1>2, <1>3, <1>4, <1>5 DEF Interfaces

LEMMA Pops ==
  /\ \A a : Head(<<a>>) = a /\ Tail(<<a>>) = <<>>
  /\ \A a, b : Head(<<a, b>>) = a /\ Tail(<<a, b>>) = <<b>> /\ <<a, b>> # <<>>
  /\ \A a : <<a>> # <<>>
  OBVIOUS

(* With op and via as they are, what was achieved stays so unless the      *)
(* instrument changes.                                                     *)
LEMMA NoRequestAchieves ==
  ASSUME via \in Interfaces, via' = via, op' \in Operations, Requests(op') = <<>>
  PROVE  AchievedVia(op)'
  <1>1. via = "gpib instr" /\ op' = "asrt_address_llo"
    <2>1. \A a, b : <<a>> # <<>> /\ <<a, b>> # <<>>
      BY Pops
    <2>2. via # "vxi11"
      BY <2>1 DEF Requests, Vxi11Requests
    <2>3. via # "hislip"
      BY <2>1 DEF Requests, HislipRequests, Operations
    <2>4. via # "gpib intfc"
      BY <2>1 DEF Requests, GpibIntfcRequests, GpibRequests
    <2>5. via # "usbtmc"
      BY <2>1, UsbTmcTable DEF Requests, Operations
    <2>6. via = "gpib instr" => op' = "asrt_address_llo"
      BY <2>1 DEF Requests, GpibRequests, Operations
    <2> QED BY <2>2, <2>3, <2>4, <2>5, <2>6 DEF Interfaces
  <1> QED BY <1>1 DEF AchievedVia

LEMMA CallInv ==
  ASSUME RInv, NEW o \in Operations, GpibControlRen(o) PROVE RInv'
  <1>1. via' = via /\ op' = o /\ ren' = ren
    BY DEF GpibControlRen, instrument
  <1>2. Requests(o)' = Requests(o)
    BY <1>1 DEF Requests
  <1>3. outcome' = "busy" => /\ todo' = Requests(o)
                              /\ Requests(o) \notin {<<>>, <<"unsupported">>}
    BY DEF GpibControlRen
  <1>4. outcome' = "success" => Requests(o) = <<>>
    BY DEF GpibControlRen
  <1>5. outcome' = "success" => AchievedVia(op)'
    BY <1>1, <1>4, NoRequestAchieves DEF RInv
  <1>6. outcome' = "busy" => /\ Requests(op)' = Requests(o)
                              /\ todo' = Requests(o)
    BY <1>1, <1>3 DEF Requests
  <1> QED BY <1>1, <1>3, <1>5, <1>6 DEF RInv

LEMMA RequestInv == ASSUME RInv, Request PROVE RInv'
  <1>1. via' = via /\ op' = op /\ via \in Interfaces /\ op \in Operations
    BY DEF RInv, Request
  <1>2. Requests(op)' = Requests(op)
    BY <1>1 DEF Requests
  <1>3. Requests(op) \notin {<<>>, <<"unsupported">>}
    BY DEF RInv, Request
  <1>4. CASE \E a : Requests(op) = <<a>> /\ todo = <<a>>
    <2>1. PICK a : Requests(op) = <<a>> /\ todo = <<a>>
      BY <1>4
    <2>2. Effect(a) /\ outcome' = "success"
      BY <2>1, Pops DEF Request
    <2>3. a # "unsupported"
      BY <2>1, <1>3
    <2>4. AchievedVia(op)'
      BY <2>1, <2>2, <2>3, <1>1, LastAchieves
    <2> QED BY <1>1, <2>2, <2>4 DEF RInv
  <1>5. CASE \E a, b : Requests(op) = <<a, b>> /\ todo = <<a, b>>
    <2>1. PICK a, b : Requests(op) = <<a, b>> /\ todo = <<a, b>>
      BY <1>5
    <2>2. Effect(a) /\ outcome' = "busy" /\ todo' = <<b>>
      BY <2>1, Pops DEF Request
    <2>3. a = "REN on" => ren'
      BY <2>2 DEF Effect, Enables, Disables
    <2> QED BY <1>1, <1>2, <1>3, <2>1, <2>2, <2>3 DEF RInv
  <1>6. CASE \E a, b : Requests(op) = <<a, b>> /\ todo = <<b>> /\ (a = "REN on" => ren)
    <2>1. PICK a, b : Requests(op) = <<a, b>> /\ todo = <<b>> /\ (a = "REN on" => ren)
      BY <1>6
    <2>2. Effect(b) /\ outcome' = "success"
      BY <2>1, Pops DEF Request
    <2>3. b # "unsupported"
      BY <2>1, <1>1, Second
    <2>4. AchievedVia(op)'
      BY <2>1, <2>2, <2>3, <1>1, LastAchieves
    <2> QED BY <1>1, <2>2, <2>4 DEF RInv
  <1> QED BY <1>1, <1>3, <1>4, <1>5, <1>6, Shape DEF RInv, Request

LEMMA OthersInv ==
  ASSUME RInv, RequestFails \/ LocalKey \/ UNCHANGED rvars PROVE RInv'
  <1>1. CASE RequestFails
    <2>1. via' = via /\ op' = op /\ outcome' \in {"error", "raised"}
      BY <1>1 DEF RequestFails
    <2> QED BY <2>1 DEF RInv
  <1>2. CASE LocalKey
    <2>1. via' = via /\ op' = op /\ outcome' = "none"
      BY <1>2 DEF LocalKey
    <2> QED BY <2>1 DEF RInv
  <1>3. CASE UNCHANGED rvars
    <2>1. /\ via' = via /\ ren' = ren /\ remote' = remote /\ lockout' = lockout
          /\ op' = op /\ todo' = todo /\ outcome' = outcome
      BY <1>3 DEF rvars, instrument, call
    <2>2. Requests(op)' = Requests(op)
      BY <2>1 DEF Requests
    <2>3. AchievedVia(op)' = AchievedVia(op)
      BY <2>1 DEF AchievedVia, Achieved
    <2> QED BY <2>1, <2>2, <2>3 DEF RInv
  <1> QED BY <1>1, <1>2, <1>3

(* A call that returns success has brought the instrument where its        *)
(* operation should (gpib_control_ren of the five kinds of session), for   *)
(* any number of calls, failed half-way or not.                            *)
THEOREM Success_is_achieved == RSpec => []SuccessAchieves
  <1>1. RInit => RInv
    BY DEF RInit, RInv, Operations
  <1>2. RInv /\ [RNext]_rvars => RInv'
    BY CallInv, RequestInv, OthersInv DEF RNext
  <1>3. RInv => SuccessAchieves
    BY DEF RInv, SuccessAchieves
  <1> QED BY <1>1, <1>2, <1>3, PTL DEF RSpec
-----------------------------------------------------------------------------
(* GpibSession: the table of timeouts, its entries one by one.             *)
LEMMA Entries ==
  /\ Last = 17
  /\ TIMETABLE[1] = 1 /\ TIMETABLE[2] = 3 /\ TIMETABLE[3] = 10 /\ TIMETABLE[4] = 30
  /\ TIMETABLE[5] = 100 /\ TIMETABLE[6] = 300 /\ TIMETABLE[7] = 1000 /\ TIMETABLE[8] = 3000
  /\ TIMETABLE[9] = 10000 /\ TIMETABLE[10] = 30000 /\ TIMETABLE[11] = 100000
  /\ TIMETABLE[12] = 300000 /\ TIMETABLE[13] = 1000000 /\ TIMETABLE[14] = 3000000
  /\ TIMETABLE[15] = 10000000 /\ TIMETABLE[16] = 30000000 /\ TIMETABLE[17] = 100000000
  BY DEF Last, TIMETABLE

(* Where a value stands in the table: the first k entries are not greater. *)
Splits(k, least) == \A i \in 1..17 : TIMETABLE[i] <= least <=> i <= k

LEMMA Splitters ==
  ASSUME NEW least \in Nat, NEW k \in 0..17,
         k > 0 => TIMETABLE[k] <= least, k < 17 => least < TIMETABLE[k + 1]
  PROVE  Splits(k, least)
  <1>1. \A i, j \in 1..17 : i <= j => TIMETABLE[i] \in Nat /\ TIMETABLE[i] <= TIMETABLE[j]
    <2> SUFFICES ASSUME NEW i \in 1..17, NEW j \in 1..17, i <= j
                 PROVE  TIMETABLE[i] \in Nat /\ TIMETABLE[i] <= TIMETABLE[j]
      OBVIOUS
    <2> QED BY Entries
  <1>2. ASSUME NEW i \in 1..17, i <= k PROVE TIMETABLE[i] <= least
    <2>1. k \in 1..17 /\ TIMETABLE[i] <= TIMETABLE[k] /\ TIMETABLE[k] <= least
      BY <1>1, <1>2
    <2> QED BY <1>1, <2>1
  <1>3. ASSUME NEW i \in 1..17, ~ (i <= k) PROVE ~ (TIMETABLE[i] <= least)
    <2>1. k + 1 \in 1..17 /\ TIMETABLE[k + 1] <= TIMETABLE[i] /\ least < TIMETABLE[k + 1]
      BY <1>1, <1>3
    <2>2. TIMETABLE[i] \in Nat /\ TIMETABLE[k + 1] \in Nat
      BY <1>1, <2>1
    <2> QED BY <2>1, <2>2
  <1> QED BY <1>2, <1>3 DEF Splits

LEMMA SplitExists == ASSUME NEW least \in Nat PROVE \E k \in 0..17 : Splits(k, least)
  <1>1. \E k \in 0..17 : (k > 0 => TIMETABLE[k] <= least) /\ (k < 17 => least < TIMETABLE[k + 1])
    <2> DEFINE Here(k) == (k > 0 => TIMETABLE[k] <= least) /\ (k < 17 => least < TIMETABLE[k + 1])
    <2>1. \/ Here(0) \/ Here(1) \/ Here(2) \/ Here(3) \/ Here(4) \/ Here(5) \/ Here(6) \/ Here(7)
          \/ Here(8) \/ Here(9) \/ Here(10) \/ Here(11) \/ Here(12) \/ Here(13) \/ Here(14)
          \/ Here(15) \/ Here(16) \/ Here(17)
      BY Entries
    <2> QED BY <2>1
  <1> QED BY <1>1, Splitters

(* bisect and min.                                                         *)
LEMMA RoundedIs ==
  ASSUME NEW ms \in Nat, NEW k \in 0..17, Splits(k, Tolerated(ms))
  PROVE  Rounded(ms) = IF k < 17 THEN k + 1 ELSE 17
  <1> DEFINE skipped == {i \in 1..Last : TIMETABLE[i] <= Tolerated(ms)}
  <1>1. skipped = 1..k
    BY Entries DEF Splits
  <1>2. Cardinality(skipped) = k
    <2>1. k \in Int /\ 1 \in Int /\ (IF 1 > k THEN 0 ELSE k - 1 + 1) = k
      OBVIOUS
    <2>2. Cardinality(1..k) = IF 1 > k THEN 0 ELSE k - 1 + 1
      BY ONLY <2>1, FS_Interval
    <2> QED BY ONLY <1>1, <2>1, <2>2
  <1>3. Rounded(ms) = Min({k + 1, 17})
    <2>1. ms # Infinite
      BY DriverAssumption
    <2>2. Rounded(ms) = Min({Cardinality(skipped) + 1, Last})
      BY <2>1, Zenon DEF Rounded
    <2> QED BY ONLY <1>2, <2>2, Entries
  <1> QED BY <1>3 DEF Min

(* What rounding does to a timeout of ms milliseconds, 0 apart.            *)
LEMMA Bounds99 == ASSUME NEW ms \in Nat
  PROVE  /\ Tolerated(ms) \in Nat
         /\ Tolerated(ms) + ((ms + 9) \div 10) = ms * 100
         /\ (ms + 9) \div 10 \in Nat
         /\ ms # 0 => (ms + 9) \div 10 > 0 /\ Tolerated(ms) >= 99
         /\ ms = 0 => Tolerated(ms) = 0
  BY DEF Tolerated

LEMMA RoundedServes ==
  ASSUME NEW ms \in Nat
  PROVE  /\ Rounded(ms) \in 1..17
         /\ TIMETABLE[Rounded(ms)] + ((ms + 9) \div 10) >= ms * 100 \/ Rounded(ms) = 17
         /\ Rounded(ms) > 1 => TIMETABLE[Rounded(ms) - 1] < ms * 100
         /\ Rounded(ms) = 1 \/ Rounded(ms) >= 5
  <1> DEFINE least == Tolerated(ms)
             slack == (ms + 9) \div 10
  <1>1. least \in Nat /\ slack \in Nat /\ least + slack = ms * 100
        /\ (ms # 0 => slack > 0 /\ least >= 99) /\ (ms = 0 => least = 0)
    BY Bounds99
  <1> HIDE DEF least, slack
  <1>2. PICK k \in 0..17 : Splits(k, least)
    BY <1>1, SplitExists
  <1>3. Rounded(ms) = IF k < 17 THEN k + 1 ELSE 17
    BY <1>2, RoundedIs DEF least
  <1> DEFINE r == Rounded(ms)
  <1>4. r \in 1..17 /\ r = (IF k < 17 THEN k + 1 ELSE 17)
    BY <1>3
  <1> HIDE DEF r
  <1>5. \A i \in 1..17 : TIMETABLE[i] \in Nat
    BY Entries
  <1>6. TIMETABLE[r] + slack >= ms * 100 \/ r = 17
    <2>1. r = 17 \/ ~ (TIMETABLE[r] <= least)
      BY <1>2, <1>4 DEF Splits
    <2>2. TIMETABLE[r] \in Nat
      BY <1>4, <1>5
    <2> QED BY <1>1, <2>1, <2>2
  <1>7. ms = 0 => k = 0
    <2>1. TIMETABLE[1] = 1
      BY Entries
    <2> QED BY <1>1, <1>2, <2>1 DEF Splits
  <1>8. r > 1 => TIMETABLE[r - 1] < ms * 100
    <2> SUFFICES ASSUME r > 1 PROVE TIMETABLE[r - 1] < ms * 100
      OBVIOUS
    <2>1. ms # 0 /\ r - 1 \in 1..17 /\ r - 1 <= k
      BY <1>4, <1>7
    <2>2. TIMETABLE[r - 1] \in Nat /\ TIMETABLE[r - 1] <= least
      BY <1>2, <1>5, <2>1 DEF Splits
    <2> QED BY <1>1, <2>1, <2>2
  <1>9. r = 1 \/ r >= 5
    <2>1. TIMETABLE[4] = 30
      BY Entries
    <2>2. ms # 0 => 4 <= k
      BY <1>1, <1>2, <2>1 DEF Splits
    <2> QED BY <1>4, <1>7, <2>2
  <1> QED BY <1>4, <1>6, <1>8, <1>9 DEF r, slack

(* What get_attribute reports sets the same timeout again.                 *)
LEMMA ReportedStays ==
  ASSUME NEW r \in 1..17, r = 1 \/ r >= 5 PROVE Rounded(Reported(r)) = r
  <1> DEFINE ms == TIMETABLE[r] \div 100
  <1>1. Reported(r) = ms
    BY DEF Reported
  <1>2. /\ ms \in Nat
        /\ r > 1 => TIMETABLE[r - 1] <= Tolerated(ms)
        /\ Tolerated(ms) < TIMETABLE[r]
    <2>1. \/ r = 1 \/ r = 5 \/ r = 6 \/ r = 7 \/ r = 8 \/ r = 9 \/ r = 10 \/ r = 11 \/ r = 12
          \/ r = 13 \/ r = 14 \/ r = 15 \/ r = 16 \/ r = 17
      OBVIOUS
    <2> QED BY <2>1, Entries DEF Tolerated
  <1> HIDE DEF ms
  <1>3. Tolerated(ms) \in Nat
    BY <1>2, Bounds99
  <1> DEFINE k == r - 1
  <1>4. k \in 0..17 /\ k + 1 = r
    OBVIOUS
  <1> HIDE DEF k
  <1>5. Splits(k, Tolerated(ms))
    <2>1. /\ k > 0 => TIMETABLE[k] <= Tolerated(ms)
          /\ k < 17 => Tolerated(ms) < TIMETABLE[k + 1]
      BY <1>2, <1>4 DEF k
    <2> QED BY <1>3, <1>4, <2>1, Splitters
  <1> QED BY <1>1, <1>2, <1>4, <1>5, RoundedIs

(* The driver has what the timeout asked for last is rounded to.           *)
TimeoutInv == asked \in Nat \cup {Infinite} /\ tmo = Rounded(asked)

LEMMA TimeoutInvServes == ASSUME TimeoutInv PROVE TimeoutServes
  <1>1. CASE asked = Infinite
    <2>1. tmo = 0
      BY <1>1 DEF TimeoutInv, Rounded
    <2>2. Rounded(Reported(tmo)) = tmo
      BY <2>1 DEF Reported, Rounded
    <2> QED BY <1>1, <2>1, <2>2 DEF TimeoutServes
  <1>2. CASE asked \in Nat
    <2>1. asked # Infinite /\ tmo = Rounded(asked)
      BY <1>2, DriverAssumption DEF TimeoutInv
    <2>2. /\ tmo \in 1..17
          /\ TIMETABLE[tmo] + ((asked + 9) \div 10) >= asked * 100 \/ tmo = 17
          /\ tmo > 1 => TIMETABLE[tmo - 1] < asked * 100
          /\ tmo = 1 \/ tmo >= 5
      BY <1>2, <2>1, RoundedServes
    <2>3. Rounded(Reported(tmo)) = tmo
      BY <2>2, ReportedStays
    <2>4. tmo # 0 /\ Last = 17
      BY <2>2, Entries
    <2> QED BY <2>1, <2>2, <2>3, <2>4 DEF TimeoutServes
  <1> QED BY <1>1, <1>2 DEF TimeoutInv

LEMMA TimeoutStep == ASSUME TimeoutInv, [GNext]_gvars PROVE TimeoutInv'
  <1>1. CASE SetTimeout
    <2>1. asked' \in Nat \cup {Infinite} /\ tmo' = Rounded(asked')
      BY <1>1, DriverAssumption DEF SetTimeout
    <2>2. Rounded(asked)' = Rounded(asked')
      BY DEF Rounded, Tolerated
    <2> QED BY <2>1, <2>2 DEF TimeoutInv
  <1>2. CASE asked' = asked /\ tmo' = tmo
    BY <1>2 DEF TimeoutInv, Rounded, Tolerated
  <1>3. SetTimeout \/ (asked' = asked /\ tmo' = tmo)
    BY DEF GNext, SetTermChar, InstrumentSends, DriverByte, DriverFails, DriverRead, gvars, settings
  <1> QED BY <1>1, <1>2, <1>3

(* The timeout of the driver is the shortest that serves, whatever number  *)
(* of milliseconds is asked for (_set_timeout and _get_timeout of gpib.py).*)
THEOREM Timeout_serves == GSpec => []TimeoutServes
  <1>1. GInit => TimeoutInv
    BY DEF GInit, TimeoutInv, DefaultTimeout
  <1>2. TimeoutInv /\ [GNext]_gvars => TimeoutInv'
    BY TimeoutStep
  <1>3. TimeoutInv => TimeoutServes
    BY TimeoutInvServes
  <1> QED BY <1>1, <1>2, <1>3, PTL DEF GSpec
-----------------------------------------------------------------------------
(* GpibSession implements MessageRead.  What the driver has collected is   *)
(* less than the read wants, none of it ends the read, and the driver      *)
(* always compares eight bits.                                             *)
DriverInv ==
    /\ queue \in Seq(BusUnits) /\ collected \in Seq(BusUnits)
    /\ eos \in [char : TermChars \cup {DefaultTermChar}, all : {TRUE}, rd : BOOLEAN]
    /\ gMode.all = TRUE
    /\ gWant \in Nat
    /\ gWant = 0 => collected = <<>>
    /\ gWant # 0 => Len(collected) < gWant
    /\ \A i \in 1..Len(collected) : ~ DriverStops(collected[i], gMode)

DriverStutter == UNCHANGED <<collected \o queue, gWant, gMode, gResult>>

LEMMA DriverBegins == ASSUME GInit PROVE DriverInv /\ AbstractDriver!MInit
  <1>1. <<>> \in Seq(BusUnits) /\ <<>> \o <<>> = <<>> /\ Len(<<>>) = 0
    BY EmptySeq, ConcatEmptySeq
  <1>2. eos \in [char : TermChars \cup {DefaultTermChar}, all : {TRUE}, rd : BOOLEAN]
    BY DEF GInit
  <1>3. DriverInv
    BY <1>1, <1>2 DEF GInit, DriverInv, NoDriverMode
  <1>4. AbstractDriver!MInit
    BY <1>1 DEF GInit, AbstractDriver!MInit
  <1> QED BY <1>3, <1>4

LEMMA EightBits == ASSUME DriverInv, NEW u PROVE DriverEnds(u, gMode) <=> DriverStops(u, gMode)
  <1>1. gMode.all
    BY DEF DriverInv
  <1> QED BY <1>1, Zenon DEF DriverEnds, DriverStops

LEMMA DoneDriver ==
  ASSUME DriverInv, NEW units, NEW how, DriverDone(units, how), UNCHANGED eos,
         queue' \in Seq(BusUnits)
  PROVE  DriverInv' /\ collected' \o queue' = queue'
  <1>1. <<>> \in Seq(BusUnits) /\ Len(<<>>) = 0
    BY EmptySeq
  <1>2. collected' = <<>> /\ gWant' = 0 /\ gMode'.all = TRUE
    BY DEF DriverDone, NoDriverMode
  <1>3. DriverInv'
    <2>1. \A i \in 1..Len(collected') : FALSE
      BY <1>1, <1>2
    <2> QED BY <1>1, <1>2, <2>1 DEF DriverInv
  <1> QED BY <1>2, <1>3, ConcatEmptySeq

(* A read that ends with what it has collected, and leaves the rest.       *)
LEMMA DriverGives ==
  ASSUME DriverInv, gWant # 0, NEW taken \in Seq(BusUnits), NEW rest \in Seq(BusUnits),
         taken \o rest = collected \o queue, queue' = rest, UNCHANGED eos,
         NEW how \in {"end", "count"}, DriverDone(taken, how),
         Len(taken) # 0, Len(taken) <= gWant,
         \A i \in 1..Len(taken) : i < Len(taken) \/ how # "end" => ~ DriverStops(taken[i], gMode),
         how = "end" => DriverStops(taken[Len(taken)], gMode),
         how = "count" => Len(taken) = gWant
  PROVE  DriverInv' /\ AbstractDriver!MNext
  <1> DEFINE input == collected \o queue
             k == Len(taken)
  <1>1. /\ k \in Nat /\ k <= Len(input) /\ k \in 0..Len(input) /\ k \in 1..k
        /\ SubSeq(input, 1, k) = taken /\ SubSeq(input, k + 1, Len(input)) = rest
        /\ \A i \in 1..k : input[i] = taken[i]
    <2>1. /\ Len(taken) \in Nat /\ Len(rest) \in Nat
      BY LenProperties
    <2>2. /\ Len(taken \o rest) = k + Len(rest)
          /\ SubSeq(taken \o rest, 1, k) = taken
          /\ SubSeq(taken \o rest, k + 1, Len(taken \o rest)) = rest
          /\ \A i \in 1..k : (taken \o rest)[i] = taken[i]
      <3>1. taken \in Seq(BusUnits) /\ rest \in Seq(BusUnits)
        OBVIOUS
      <3> QED BY ONLY <3>1, Splitting DEF k
    <2> QED BY <2>1, <2>2
  <1>2. DriverInv' /\ collected' \o queue' = rest
    BY DoneDriver
  <1>3. gResult' = [data |-> taken, how |-> how] /\ gWant' = 0 /\ gMode' = NoDriverMode
    BY DEF DriverDone
  <1> HIDE DEF input, k
  <1>4. /\ \A i \in 1..k : i < k \/ how # "end" => ~ DriverStops(input[i], gMode)
        /\ how = "end" => k # 0 /\ DriverStops(input[k], gMode)
    BY <1>1 DEF k
  <1>5. AbstractDriver!Give(k, how)
    <2>1. k <= gWant /\ (how = "count" => k = gWant)
      BY DEF k
    <2> QED BY <1>1, <1>2, <1>3, <1>4, <2>1 DEF AbstractDriver!Give, input
  <1>6. AbstractDriver!Return
    BY <1>1, <1>5 DEF AbstractDriver!Return, input
  <1> QED BY <1>2, <1>6 DEF AbstractDriver!MNext

LEMMA SendStep == ASSUME DriverInv, InstrumentSends PROVE DriverInv' /\ AbstractDriver!MNext
  <1>1. PICK u \in BusUnits : queue' = Append(queue, u)
    BY DEF InstrumentSends
  <1>2. /\ eos' = eos /\ gWant' = gWant /\ gMode' = gMode /\ gResult' = gResult
        /\ collected' = collected
    BY DEF InstrumentSends, settings, gReading
  <1> DEFINE one == <<u>>
  <1>3. one \in Seq(BusUnits) /\ Len(one) = 1
    OBVIOUS
  <1>4. queue' \in Seq(BusUnits) /\ queue' = queue \o one
    BY <1>1, AppendProperties, AppendIsConcat DEF DriverInv
  <1> HIDE DEF one
  <1>5. DriverInv'
    BY <1>2, <1>4 DEF DriverInv
  <1> DEFINE input == collected \o queue
  <1>6. input \in Seq(BusUnits) /\ collected' \o queue' = input \o one
    <2>1. collected \in Seq(BusUnits) /\ queue \in Seq(BusUnits)
      BY DEF DriverInv
    <2>2. input \in Seq(BusUnits)
      BY <2>1, ConcatProperties
    <2>3. (collected \o queue) \o one = collected \o (queue \o one)
      <3>1. one \in Seq(BusUnits)
        BY <1>3
      <3> QED BY ONLY <2>1, <3>1, ConcatAssociative
    <2> QED BY <1>2, <1>4, <2>2, <2>3
  <1> HIDE DEF input
  <1>7. /\ Len(input \o one) = Len(input) + Len(one) /\ SubSeq(input \o one, 1, Len(input)) = input
        /\ Len(input) \in Nat
    <2>1. one \in Seq(BusUnits) /\ input \in Seq(BusUnits)
      BY <1>3, <1>6
    <2> QED BY ONLY <2>1, Splitting, LenProperties
  <1>8. Len(collected' \o queue') > Len(input) /\ SubSeq(collected' \o queue', 1, Len(input)) = input
    BY <1>3, <1>6, <1>7
  <1>9. AbstractDriver!Arrive
    BY <1>2, <1>8 DEF AbstractDriver!Arrive, input
  <1> QED BY <1>5, <1>9 DEF AbstractDriver!MNext

LEMMA DriverReadStep ==
  ASSUME DriverInv, NEW n \in ReadCounts, DriverRead(n) PROVE DriverInv' /\ AbstractDriver!MNext
  <1>1. /\ gWant = 0 /\ gWant' = n /\ eos' = eos /\ queue' = queue /\ collected' = collected
        /\ gResult' = gResult
        /\ gMode' = [rd |-> eos.rd, char |-> eos.char, all |-> eos.all, timed |-> tmo # 0]
    BY DEF DriverRead, settings, bus
  <1>2. n \in Nat \ {0}
    BY DriverAssumption
  <1>3. collected' = <<>> /\ Len(<<>>) = 0
    BY <1>1, EmptySeq DEF DriverInv
  <1>4. /\ eos.rd \in BOOLEAN /\ eos.char \in TermChars \cup {DefaultTermChar, 0} /\ eos.all = TRUE
        /\ (tmo # 0) \in BOOLEAN
    BY DEF DriverInv
  <1>5. gMode' \in DriverModes /\ gMode'.all = TRUE
    BY <1>1, <1>4 DEF DriverModes
  <1>6. DriverInv'
    <2>1. \A i \in 1..Len(collected') : FALSE
      BY <1>3
    <2>2. gWant' \in Nat /\ (gWant' # 0 => Len(collected') < gWant')
      BY <1>1, <1>2, <1>3
    <2>3. /\ queue' \in Seq(BusUnits) /\ collected' \in Seq(BusUnits)
          /\ eos' \in [char : TermChars \cup {DefaultTermChar}, all : {TRUE}, rd : BOOLEAN]
      BY <1>1 DEF DriverInv
    <2> QED BY <1>3, <1>5, <2>1, <2>2, <2>3 DEF DriverInv
  <1>7. AbstractDriver!Begin
    BY <1>1, <1>2, <1>5 DEF AbstractDriver!Begin
  <1> QED BY <1>6, <1>7 DEF AbstractDriver!MNext

LEMMA DriverByteStep ==
  ASSUME DriverInv, DriverByte PROVE DriverInv' /\ (AbstractDriver!MNext \/ DriverStutter)
  <1> DEFINE next == Head(queue)
             taken == Append(collected, next)
             rest == Tail(queue)
  <1>1. /\ gWant # 0 /\ queue # <<>> /\ queue' = rest /\ eos' = eos
        /\ \/ DriverEnds(next, gMode) /\ DriverDone(taken, "end")
           \/ ~ DriverEnds(next, gMode) /\ Len(taken) >= gWant /\ DriverDone(taken, "count")
           \/ /\ ~ DriverEnds(next, gMode) /\ Len(taken) < gWant
              /\ collected' = taken /\ UNCHANGED <<gWant, gMode, gResult>>
    BY DEF DriverByte, settings
  <1>2. taken \in Seq(BusUnits) /\ rest \in Seq(BusUnits) /\ taken \o rest = collected \o queue
    BY <1>1, Taking DEF DriverInv
  <1>3. next \in BusUnits
    BY <1>1, HeadTailProperties DEF DriverInv
  <1>4. /\ Len(taken) = Len(collected) + 1 /\ Len(collected) \in Nat
        /\ \A i \in 1..Len(collected) : taken[i] = collected[i]
        /\ taken[Len(taken)] = next
    BY <1>3, AppendProperties, LenProperties DEF DriverInv
  <1>5. DriverEnds(next, gMode) <=> DriverStops(next, gMode)
    BY EightBits
  <1> HIDE DEF taken, rest, next
  <1>6. gWant \in Nat /\ Len(collected) < gWant
        /\ \A i \in 1..Len(collected) : ~ DriverStops(collected[i], gMode)
    BY <1>1 DEF DriverInv
  <1>7. Len(taken) \in Nat /\ Len(taken) # 0 /\ Len(taken) <= gWant
        /\ \A i \in 1..Len(taken) : i = Len(taken) \/ i \in 1..Len(collected)
    BY ONLY <1>4, <1>6
  <1>8. \A i \in 1..Len(taken) : i < Len(taken) => ~ DriverStops(taken[i], gMode)
    <2> SUFFICES ASSUME NEW i \in 1..Len(taken), i < Len(taken) PROVE ~ DriverStops(taken[i], gMode)
      OBVIOUS
    <2>1. i \in 1..Len(collected)
      BY <1>7
    <2> QED BY <1>4, <1>6, <2>1
  <1>9. ASSUME ~ DriverEnds(next, gMode)
        PROVE  \A i \in 1..Len(taken) : ~ DriverStops(taken[i], gMode)
    <2> SUFFICES ASSUME NEW i \in 1..Len(taken) PROVE ~ DriverStops(taken[i], gMode)
      OBVIOUS
    <2>1. CASE i = Len(taken)
      BY <1>4, <1>5, <1>9, <2>1
    <2>2. CASE i \in 1..Len(collected)
      BY <1>4, <1>6, <2>2
    <2> QED BY <1>7, <2>1, <2>2
  <1>10. ASSUME DriverEnds(next, gMode), DriverDone(taken, "end")
         PROVE  DriverInv' /\ AbstractDriver!MNext
    <2>1. DriverStops(taken[Len(taken)], gMode)
      BY <1>4, <1>5, <1>10
    <2> QED BY <1>1, <1>2, <1>7, <1>8, <1>10, <2>1, DriverGives
  <1>11. ASSUME ~ DriverEnds(next, gMode), Len(taken) >= gWant, DriverDone(taken, "count")
         PROVE  DriverInv' /\ AbstractDriver!MNext
    <2>1. Len(taken) = gWant
      BY ONLY <1>6, <1>7, <1>11
    <2> QED BY <1>1, <1>2, <1>7, <1>9, <1>11, <2>1, DriverGives
  <1>12. ASSUME ~ DriverEnds(next, gMode), Len(taken) < gWant,
                collected' = taken, UNCHANGED <<gWant, gMode, gResult>>
         PROVE  DriverInv' /\ DriverStutter
    <2>1. collected' \o queue' = collected \o queue
      BY <1>1, <1>2, <1>12
    <2>2. DriverInv'
      BY <1>1, <1>2, <1>9, <1>12 DEF DriverInv
    <2> QED BY <1>12, <2>1, <2>2 DEF DriverStutter
  <1> QED BY <1>1, <1>10, <1>11, <1>12

LEMMA DriverFailsStep ==
  ASSUME DriverInv, DriverFails PROVE DriverInv' /\ AbstractDriver!MNext
  <1>1. gWant # 0 /\ DriverDone(<<>>, "failed") /\ queue' = queue /\ eos' = eos
    BY DEF DriverFails, settings, bus
  <1> DEFINE input == collected \o queue
             k == Len(collected)
  <1>2. collected \in Seq(BusUnits) /\ queue \in Seq(BusUnits)
    BY DEF DriverInv
  <1>3. k \in 0..Len(input) /\ SubSeq(input, k + 1, Len(input)) = queue
    <2>1. /\ Len(input) = k + Len(queue) /\ SubSeq(input, k + 1, Len(input)) = queue
          /\ k \in Nat /\ Len(queue) \in Nat
      BY <1>2, Splitting, LenProperties
    <2> QED BY <2>1
  <1>4. DriverInv' /\ collected' \o queue' = queue
    BY <1>1, <1>2, DoneDriver
  <1>5. gResult' = [data |-> <<>>, how |-> "failed"] /\ gWant' = 0 /\ gMode' = NoDriverMode
    BY <1>1 DEF DriverDone
  <1> HIDE DEF k, input
  <1>6. AbstractDriver!Lose
    BY <1>1, <1>3, <1>4, <1>5 DEF AbstractDriver!Lose, input
  <1> QED BY <1>4, <1>6 DEF AbstractDriver!MNext

LEMMA SettingsStep ==
  ASSUME DriverInv, SetTimeout \/ SetTermChar \/ UNCHANGED gvars PROVE DriverInv' /\ DriverStutter
  <1>1. UNCHANGED <<bus, gReading>>
    BY DEF SetTimeout, SetTermChar, gvars
  <1>2. /\ queue' = queue /\ gWant' = gWant /\ gMode' = gMode /\ gResult' = gResult
        /\ collected' = collected
    BY <1>1 DEF bus, gReading
  <1>3. eos' \in [char : TermChars \cup {DefaultTermChar}, all : {TRUE}, rd : BOOLEAN]
    <2>1. CASE SetTimeout \/ UNCHANGED gvars
      <3>1. eos' = eos
        BY <2>1 DEF SetTimeout, gvars, settings
      <3> QED BY <3>1 DEF DriverInv
    <2>2. CASE SetTermChar
      BY <2>2 DEF SetTermChar, WithChar, DriverInv
    <2> QED BY <2>1, <2>2
  <1>4. DriverInv'
    BY <1>2, <1>3 DEF DriverInv
  <1> QED BY <1>2, <1>4 DEF DriverStutter

(* Reads of a GPIB session are those of MessageRead, whatever the          *)
(* termination character and the timeout are set to while one waits: a     *)
(* read ends at EOI or at all eight bits of the character, never beyond,   *)
(* and a call of the driver that fails loses what it had (read and         *)
(* _set_attribute of gpib.py, _read of sessions.py).                       *)
THEOREM Driver_reads_in_order == GSpec => DriverReadsInOrder
  <1>1. GInit => DriverInv /\ AbstractDriver!MInit
    BY DriverBegins
  <1>2. DriverInv /\ [GNext]_gvars => DriverInv' /\ (AbstractDriver!MNext \/ DriverStutter)
    BY SendStep, DriverReadStep, DriverByteStep, DriverFailsStep, SettingsStep DEF GNext
  <1>3. DriverStutter => UNCHANGED AbstractDriver!mvars
    BY DEF DriverStutter, AbstractDriver!mvars
  <1>4. DriverInv /\ [GNext]_gvars => DriverInv' /\ [AbstractDriver!MNext]_AbstractDriver!mvars
    BY <1>2, <1>3
  <1> QED BY <1>1, <1>4, PTL DEF GSpec, DriverReadsInOrder, AbstractDriver!MSpec
=============================================================================

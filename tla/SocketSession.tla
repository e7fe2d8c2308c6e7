--------------------------- MODULE SocketSession ----------------------------
(***************************************************************************)
(* The receiving side of a raw TCP socket session, TCPIPSocketSession      *)
(* (tcpip.py): what read, clear and flush do with the socket and with the  *)
(* pending buffer, which keeps what came after the end of the last read.   *)
(* PrologixAdapter uses it as the session of the adapter.                  *)
(*                                                                         *)
(* Bytes are counted in units; a unit is a record whose field `term` says  *)
(* whether it is the termination character.                                *)
(***************************************************************************)
EXTENDS Naturals, Sequences

CONSTANT MaxRecv        \* max_recv_size

ASSUME MaxRecvAssumption == MaxRecv \in Nat \ {0}

VARIABLES pending,      \* _pending_buffer
          arrived,      \* what recv() can return
          termEn,       \* VI_ATTR_TERMCHAR_EN
          suppressEnd,  \* VI_ATTR_SUPPRESS_END_EN
          \* locals of the read under way
          chunk,        \* read_data: received, not yet in the buffer
          cut           \* where it is, how much it takes and why, what it
                        \* has taken and what it leaves

Least(a, b) == IF a < b THEN a ELSE b

HasTerm == termEn /\ \E i \in DOMAIN pending : pending[i].term
TermIndex == CHOOSE i \in DOMAIN pending :
                 pending[i].term /\ \A j \in 1..i-1 : ~ pending[j].term

Front(n) == SubSeq(pending, 1, Least(n, Len(pending)))
Behind(n) == SubSeq(pending, n + 1, Len(pending))

(* read(count) has enough in the pending buffer.                           *)
Complete(count) == HasTerm \/ Len(pending) >= count

(* read() takes no lock: between any two of the steps below a clear() or a *)
(* flush() of another thread may empty the buffer.                         *)
NoCut == [at |-> "loop", size |-> 0, how |-> "none", out |-> <<>>, rest |-> <<>>]
Decided(size, how) == [NoCut EXCEPT !.at = "cut", !.size = size, !.how = how]

(* One round of the loop of read(): it takes what the socket has ...       *)
ReadRecv(count) ==
    LET k == Least(Least(count, MaxRecv), Len(arrived))
    IN  /\ cut.at = "loop" /\ chunk = <<>>
        /\ ~ Complete(count) /\ arrived # <<>>
        /\ chunk' = SubSeq(arrived, 1, k)
        /\ arrived' = SubSeq(arrived, k + 1, Len(arrived))
        /\ UNCHANGED <<pending, cut>>

ReadExtend ==
    /\ chunk # <<>>
    /\ pending' = pending \o chunk /\ chunk' = <<>>
    /\ UNCHANGED <<arrived, cut>>

(* ... or finds that it can return: there is a termination character, or   *)
(* `count` units, or nothing comes and it returns what there is, at once   *)
(* or at the timeout.                                                      *)
ReadTests(count) ==
    /\ cut.at = "loop" /\ chunk = <<>>
    /\ \/ HasTerm /\ cut' = [NoCut EXCEPT !.at = "index"]
       \/ ~ HasTerm /\ Complete(count) /\ cut' = Decided(count, "count")
       \/ /\ ~ Complete(count) /\ arrived = <<>>
          /\ cut' = Decided(count, IF pending # <<>> /\ ~ suppressEnd THEN "success" ELSE "timeout")
    /\ UNCHANGED <<pending, chunk, arrived>>

ReadIndex(count) ==
    /\ cut.at = "index" /\ HasTerm
    /\ cut' = IF TermIndex > count THEN Decided(count, "count") ELSE Decided(TermIndex, "term")
    /\ UNCHANGED <<pending, chunk, arrived>>

(* The two slices: what is returned, and what is left ...                  *)
ReadCut ==
    /\ cut.at = "cut"
    /\ cut' = [cut EXCEPT !.at = "rest", !.out = Front(cut.size)]
    /\ UNCHANGED <<pending, chunk, arrived>>

ReadRest ==
    /\ cut.at = "rest"
    /\ cut' = [cut EXCEPT !.at = "store", !.rest = Behind(cut.size)]
    /\ UNCHANGED <<pending, chunk, arrived>>

(* A plausible slip: what follows the termination character is dropped.    *)
KeepNothing == pending' = <<>>

Keep == pending' = cut.rest

(* ... which becomes the pending buffer.  index() raises ValueError when   *)
(* another thread has taken the termination character away.                *)
Raises == cut.at = "index" /\ ~ HasTerm
ReadStatus == IF Raises THEN "raised" ELSE cut.how

ReadReturn ==
    /\ Raises \/ cut.at = "store"
    /\ IF Raises THEN UNCHANGED pending ELSE Keep
    /\ cut' = NoCut
    /\ UNCHANGED <<chunk, arrived>>

(* clear(): the buffer is emptied and the socket read until it is silent.  *)
SocketClear == pending' = <<>> /\ arrived' = <<>>

(* flush(): discarding the read buffer is a clear(), discarding it without *)
(* I/O or the receive buffer empties the pending buffer only, and write    *)
(* buffers do not exist.                                                   *)
Masks == {"discard_read_buffer", "discard_receive_buffer", "flush_write_buffer"}

SocketFlush(mask) ==
    \/ mask = "discard_read_buffer" /\ SocketClear
    \/ mask = "discard_receive_buffer" /\ pending' = <<>> /\ UNCHANGED arrived
    \/ mask = "flush_write_buffer" /\ UNCHANGED <<pending, arrived>>
=============================================================================

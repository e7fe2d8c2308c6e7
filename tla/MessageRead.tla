---------------------------- MODULE MessageRead ----------------------------
(***************************************************************************)
(* What read(count) of a message-based session promises (VPP-4.3 rules     *)
(* 6.1.1 and 6.1.3, quoted in Session._read of sessions.py): it takes a    *)
(* prefix of what has arrived, never past a unit that ends a message and   *)
(* never more than count, and says which of the two stopped it.  A read    *)
(* that times out returns what it has taken, or, on interfaces whose       *)
(* driver drops it, loses it.                                              *)
(***************************************************************************)
EXTENDS Naturals, Sequences

CONSTANTS Modes,        \* what a read can look for
          NoMode,       \* no read
          Stops(_, _),  \* Stops(u, m): the unit u ends a read of mode m
          Lossy         \* a read that fails drops what it took

VARIABLES input,        \* what has arrived and was not returned
          want,         \* count of the read under way, 0 if there is none
          mode,         \* what it looks for, fixed when it begins
          result        \* what the last read returned

mvars == <<input, want, mode, result>>

MInit == input = <<>> /\ want = 0 /\ mode = NoMode /\ result = [data |-> <<>>, how |-> "none"]

Arrive ==
    /\ Len(input') > Len(input) /\ SubSeq(input', 1, Len(input)) = input
    /\ UNCHANGED <<want, mode, result>>

Begin ==
    /\ want = 0
    /\ want' \in Nat \ {0}
    /\ mode' \in Modes
    /\ UNCHANGED <<input, result>>

(* The first k units are returned and nothing else is taken.               *)
Give(k, how) ==
    /\ want # 0
    /\ k <= want /\ k <= Len(input)
    /\ \A i \in 1..k : i < k \/ how # "end" => ~ Stops(input[i], mode)
    /\ how = "end" => k # 0 /\ Stops(input[k], mode)
    /\ how = "count" => k = want
    /\ result' = [data |-> SubSeq(input, 1, k), how |-> how]
    /\ input' = SubSeq(input, k + 1, Len(input))
    /\ want' = 0 /\ mode' = NoMode

Return == \E k \in 0..Len(input), how \in {"end", "count", "failed"} : Give(k, how)

Lose ==
    /\ Lossy /\ want # 0
    /\ \E k \in 0..Len(input) : input' = SubSeq(input, k + 1, Len(input))
    /\ result' = [data |-> <<>>, how |-> "failed"]
    /\ want' = 0 /\ mode' = NoMode

(* flush() and clear(): a part of what waits is thrown away.               *)
Discard ==
    /\ \E k \in 0..Len(input) : \E l \in k..Len(input) :
            input' = SubSeq(input, 1, k) \o SubSeq(input, l + 1, Len(input))
    /\ UNCHANGED <<want, mode, result>>

MNext == Arrive \/ Begin \/ Return \/ Lose \/ Discard

MSpec == MInit /\ [][MNext]_mvars
=============================================================================

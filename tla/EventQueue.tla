----------------------------- MODULE EventQueue -----------------------------
(***************************************************************************)
(* pyvisa_py.events.EventQueue: a deque of event contexts guarded by one   *)
(* condition variable.  Every `with self._cond` block runs to its end or   *)
(* to a wait() without interruption, so a block is one action; wait()      *)
(* releases the lock and joins the wait set in the same step, a notified   *)
(* or timed-out waiter takes the lock again and scans from the start.      *)
(* Contexts are appended only at the right end and keep their order when   *)
(* others are removed, so the deque is the set of its contexts ordered by  *)
(* `no`, the number of the put() that appended them.                       *)
(***************************************************************************)
EXTENDS Naturals

CONSTANTS Waiters,      \* threads that call get / get_matching
          Types,        \* event types
          AnyType,      \* event_type = None: match any context
          None,         \* the None a call may return
          MaxPuts       \* bound on the calls of put()

Contexts == [no : Nat, type : Types]
Modes == {"forever", "poll", "timed"}
Calls == [type : Types \cup {AnyType}, mode : Modes]

ASSUME QueueAssumption ==
    /\ MaxPuts \in Nat
    /\ AnyType \notin Types
    /\ None \notin Contexts \cup Calls

VARIABLES deque,        \* self._deque, as a set of numbered contexts
          puts,         \* number of put() calls so far
          at,           \* idle | scan (about to take the lock) | waiting
          call,         \* call[w]: arguments of the call w is in
          late,         \* late[w]: the deadline of w's call has passed
          got           \* got[w]: what the last call of w returned

qvars == <<deque, puts, at, call, late, got>>

Matches(w, c) == call[w].type \in {AnyType, c.type}

TypeOK ==
    /\ deque \subseteq Contexts
    /\ puts \in Nat
    /\ at \in [Waiters -> {"idle", "scan", "waiting"}]
    /\ call \in [Waiters -> Calls]
    /\ late \in [Waiters -> BOOLEAN]
    /\ got \in [Waiters -> Contexts \cup {None}]

QInit ==
    /\ deque = {}
    /\ puts = 0
    /\ at = [w \in Waiters |-> "idle"]
    /\ call = [w \in Waiters |-> [type |-> AnyType, mode |-> "poll"]]
    /\ late = [w \in Waiters |-> FALSE]
    /\ got = [w \in Waiters |-> None]

-----------------------------------------------------------------------------
(* A plausible slip: notify() wakes a single waiter.                       *)
WokenOne ==
    LET w0 == CHOOSE w \in Waiters : at[w] = "waiting" \/ \A v \in Waiters : at[v] # "waiting"
    IN  [at EXCEPT ![w0] = IF @ = "waiting" THEN "scan" ELSE @]

(* notify_all: everybody in the wait set goes back to competing for the    *)
(* lock.                                                                   *)
Woken == [w \in Waiters |-> IF at[w] = "waiting" THEN "scan" ELSE at[w]]

Put(t) ==
    /\ puts < MaxPuts
    /\ puts' = puts + 1
    /\ deque' = deque \cup {[no |-> puts + 1, type |-> t]}
    /\ at' = Woken
    /\ UNCHANGED <<call, late, got>>

(* get(timeout) is get_matching(None, timeout): the same loop over the     *)
(* whole deque.  A timeout of None is "forever", 0 is "poll", a positive   *)
(* one is "timed".                                                         *)
GetMatching(w, t, mode) ==
    /\ at[w] = "idle"
    /\ at' = [at EXCEPT ![w] = "scan"]
    /\ call' = [call EXCEPT ![w] = [type |-> t, mode |-> mode]]
    /\ late' = [late EXCEPT ![w] = FALSE]
    /\ got' = [got EXCEPT ![w] = None]
    /\ UNCHANGED <<deque, puts>>

Found(w) == \E c \in deque : Matches(w, c)

(* A plausible slip: pop() from the right end instead of del deque[idx].   *)
LastMatch(w, c) ==
    /\ Matches(w, c)
    /\ \A d \in deque : Matches(w, d) => d.no <= c.no

(* The order in which the for loop meets the contexts.                     *)
FirstMatch(w, c) ==
    /\ Matches(w, c)
    /\ \A d \in deque : Matches(w, d) => c.no <= d.no

(* The scan hits: the first matching context is removed and returned.      *)
Take(w) ==
    /\ at[w] = "scan"
    /\ \E c \in deque :
          /\ FirstMatch(w, c)
          /\ deque' = deque \ {c}
          /\ got' = [got EXCEPT ![w] = c]
    /\ at' = [at EXCEPT ![w] = "idle"]
    /\ UNCHANGED <<puts, call, late>>

(* The scan misses and the call does not wait: timeout 0, or no time left. *)
OutOfTime(w) == call[w].mode = "poll" \/ (call[w].mode = "timed" /\ late[w])

ReturnNone(w) ==
    /\ at[w] = "scan"
    /\ ~ Found(w)
    /\ OutOfTime(w)
    /\ at' = [at EXCEPT ![w] = "idle"]
    /\ UNCHANGED <<deque, puts, call, late, got>>

(* The scan misses and there is time: cond.wait() or cond.wait(remaining). *)
Wait(w) ==
    /\ at[w] = "scan"
    /\ ~ Found(w)
    /\ ~ OutOfTime(w)
    /\ at' = [at EXCEPT ![w] = "waiting"]
    /\ UNCHANGED <<deque, puts, call, late, got>>

(* The clock reaches the deadline, wherever the thread is.                 *)
Deadline(w) ==
    /\ at[w] # "idle"
    /\ call[w].mode = "timed"
    /\ ~ late[w]
    /\ late' = [late EXCEPT ![w] = TRUE]
    /\ UNCHANGED <<deque, puts, at, call, got>>

(* cond.wait(remaining) returns unnotified.                                *)
WaitTimesOut(w) ==
    /\ at[w] = "waiting"
    /\ late[w]
    /\ at' = [at EXCEPT ![w] = "scan"]
    /\ UNCHANGED <<deque, puts, call, late, got>>

(* discard_all: nobody is notified, for nobody can be waiting for less.    *)
DiscardAll(t) ==
    /\ deque' = {c \in deque : t # AnyType /\ c.type # t}
    /\ UNCHANGED <<puts, at, call, late, got>>

(* The three outcomes of one pass of the loop in get_matching.             *)
Scan(w) == Take(w) \/ ReturnNone(w) \/ Wait(w)

QNext ==
    \/ \E t \in Types : Put(t)
    \/ \E t \in Types \cup {AnyType} : DiscardAll(t)
    \/ \E w \in Waiters :
          \/ \E t \in Types \cup {AnyType}, mode \in Modes : GetMatching(w, t, mode)
          \/ Take(w)
          \/ ReturnNone(w)
          \/ Wait(w)
          \/ Deadline(w)
          \/ WaitTimesOut(w)

(* Time passes, waits end, and a thread that wants the lock gets it: no    *)
(* block holds the lock for longer than one scan.                          *)
QFairness ==
    \A w \in Waiters :
        WF_qvars(Scan(w)) /\ WF_qvars(Deadline(w)) /\ WF_qvars(WaitTimesOut(w))

QSpec == QInit /\ [][QNext]_qvars /\ QFairness

-----------------------------------------------------------------------------
(* No lost wakeup: while a thread sleeps in the wait set, the deque holds  *)
(* nothing that it is waiting for.  put() must wake everybody, for a       *)
(* single notify may wake a thread that wants another event type.          *)
NoLostWakeup ==
    \A w \in Waiters : at[w] = "waiting" => ~ Found(w)

(* Contexts are unique and numbered by the put() that appended them.       *)
Numbered ==
    /\ \A c \in deque : c.no \in 1..puts
    /\ \A c, d \in deque : c.no = d.no => c = d

Inv == TypeOK /\ NoLostWakeup /\ Numbered

(* The queue implements the mailbox: each context goes to at most one      *)
(* call, the oldest matching one first; a call returns None only when      *)
(* nothing it wants is queued at that moment, even if the deadline races   *)
(* with a put(); and a call that can be answered is eventually answered.   *)
asked == [w \in Waiters |-> IF at[w] = "idle" THEN None ELSE call[w]]

Mailbox == INSTANCE EventMailbox WITH
    pending <- deque, posts <- puts, answer <- got

MailboxSpec == Mailbox!MSpec
=============================================================================

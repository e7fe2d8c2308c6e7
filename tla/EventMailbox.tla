---------------------------- MODULE EventMailbox ----------------------------
(***************************************************************************)
(* What pyvisa_py.events.EventQueue promises its callers, without locks,   *)
(* wait sets or clocks: contexts are posted, every call for an event type  *)
(* is answered once, with the oldest pending context of that type or, when *)
(* none is pending and the call need not wait, with nothing.               *)
(***************************************************************************)
EXTENDS Naturals

CONSTANTS Waiters,      \* threads that call get / get_matching
          Types,        \* event types
          AnyType,      \* event_type = None
          None          \* the None a call may return

VARIABLES pending,      \* contexts posted and neither delivered nor discarded
          posts,        \* how many contexts were ever posted
          asked,        \* asked[w]: the open call of w, or None
          answer        \* answer[w]: what the last call of w returned

mvars == <<pending, posts, asked, answer>>

Modes == {"forever", "poll", "timed"}
Calls == [type : Types \cup {AnyType}, mode : Modes]

Wanted(req, c) == req.type \in {AnyType, c.type}

MInit ==
    /\ pending = {}
    /\ posts = 0
    /\ asked = [w \in Waiters |-> None]
    /\ answer = [w \in Waiters |-> None]

Post(t) ==
    /\ posts' = posts + 1
    /\ pending' = pending \cup {[no |-> posts + 1, type |-> t]}
    /\ UNCHANGED <<asked, answer>>

Ask(w, req) ==
    /\ asked[w] = None
    /\ asked' = [asked EXCEPT ![w] = req]
    /\ answer' = [answer EXCEPT ![w] = None]
    /\ UNCHANGED <<pending, posts>>

(* The call gets the oldest pending context of its type.                   *)
Deliver(w) ==
    /\ asked[w] # None
    /\ \E c \in pending :
          /\ Wanted(asked[w], c)
          /\ \A d \in pending : Wanted(asked[w], d) => c.no <= d.no
          /\ pending' = pending \ {c}
          /\ answer' = [answer EXCEPT ![w] = c]
    /\ asked' = [asked EXCEPT ![w] = None]
    /\ UNCHANGED posts

(* Only a call that need not wait comes back empty-handed, and only when   *)
(* nothing it wants is pending at that moment.                             *)
GiveUp(w) ==
    /\ asked[w] # None
    /\ asked[w].mode # "forever"
    /\ ~ \E c \in pending : Wanted(asked[w], c)
    /\ asked' = [asked EXCEPT ![w] = None]
    /\ UNCHANGED <<pending, posts, answer>>

Forget(t) ==
    /\ pending' = {c \in pending : t # AnyType /\ c.type # t}
    /\ UNCHANGED <<posts, asked, answer>>

MNext ==
    \/ \E t \in Types : Post(t)
    \/ \E t \in Types \cup {AnyType} : Forget(t)
    \/ \E w \in Waiters :
          \/ \E req \in Calls : Ask(w, req)
          \/ Deliver(w)
          \/ GiveUp(w)

(* A call is answered as soon and as long as it can be.                    *)
MSpec ==
    /\ MInit /\ [][MNext]_mvars
    /\ \A w \in Waiters : WF_mvars(Deliver(w)) /\ WF_mvars(GiveUp(w))
=============================================================================

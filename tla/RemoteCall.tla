----------------------------- MODULE RemoteCall -----------------------------
(***************************************************************************)
(* What Vxi11CoreClient.make_call promises its callers, without xids,      *)
(* records or buffers: one call at a time is sent at most once, the        *)
(* instrument carries out what it was sent in order and at most once, and  *)
(* a call returns what came of itself or gives up.  A call given up may    *)
(* still be carried out later, and what comes of it is lost.               *)
(***************************************************************************)
EXTENDS Naturals, Sequences

CONSTANTS Threads,      \* threads that make calls
          Nobody        \* no call is under way

VARIABLES made,         \* calls made so far; a call is known by its number
          caller,       \* the thread in a call, the latest one
          sent,         \* has that call been sent?
          waiting,      \* calls sent and not carried out yet
          replies,      \* calls carried out whose result is under way
          got           \* got[t]: whose result t's call returned, or 0

cvars == <<made, caller, sent, waiting, replies, got>>

CInit ==
    /\ made = 0
    /\ caller = Nobody
    /\ sent = FALSE
    /\ waiting = <<>>
    /\ replies = {}
    /\ got = [t \in Threads |-> 0]

Make(t) ==
    /\ caller = Nobody
    /\ caller' = t
    /\ made' = made + 1
    /\ got' = [got EXCEPT ![t] = 0]
    /\ UNCHANGED <<sent, waiting, replies>>

Send ==
    /\ caller # Nobody /\ ~ sent
    /\ sent' = TRUE
    /\ waiting' = Append(waiting, made)
    /\ UNCHANGED <<made, caller, replies, got>>

(* The instrument turns to the next call, and answers it or does not.      *)
CarryOut ==
    /\ waiting # <<>>
    /\ waiting' = Tail(waiting)
    /\ replies' \in {replies, replies \cup {Head(waiting)}}
    /\ UNCHANGED <<made, caller, sent, got>>

(* Results get lost, except the one that is returned below.                *)
Lose ==
    /\ replies' \subseteq replies
    /\ UNCHANGED <<made, caller, sent, waiting, got>>

Over ==
    /\ caller' = Nobody
    /\ sent' = FALSE
    /\ replies' \subseteq replies
    /\ UNCHANGED <<made, waiting>>

Return(t) ==
    /\ caller = t /\ sent
    /\ made \in replies
    /\ got' = [got EXCEPT ![t] = made]
    /\ Over

GiveUp ==
    /\ caller # Nobody
    /\ Over
    /\ UNCHANGED got

CNext ==
    \/ \E t \in Threads : Make(t) \/ Return(t)
    \/ Send \/ CarryOut \/ Lose \/ GiveUp

CSpec == CInit /\ [][CNext]_cvars
=============================================================================

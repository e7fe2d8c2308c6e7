---------------------------- MODULE RemoteLocal -----------------------------
(***************************************************************************)
(* gpib_control_ren of the four kinds of session that have it: which       *)
(* requests each operation becomes, in which order, and what they make of  *)
(* an instrument with the remote/local states of IEEE 488.  What each      *)
(* operation is for is the table under "Remote/Local control" of           *)
(* docs/source/faq.rst.                                                    *)
(*                                                                         *)
(* A call is one thread's; the requests of a call may fail one by one, and *)
(* calls follow each other in any order.                                   *)
(***************************************************************************)
EXTENDS Naturals, Sequences

CONSTANTS MaxCalls      \* bound

Interfaces == {"vxi11", "hislip", "gpib instr", "gpib intfc", "usbtmc"}
Operations == {"address_gtl", "asrt", "asrt_address", "asrt_address_llo", "asrt_llo",
               "deassert", "deassert_gtl"}

VARIABLES
    via,            \* the kind of session
    ren,            \* Remote Enable
    remote,         \* the instrument is in its remote state
    lockout,        \* its "local" key is locked
    op,             \* the call under way, or the last one
    todo,           \* its requests that are still to be made
    outcome,        \* "none", "busy", "success", "unsupported", "error", "raised"
    calls

instrument == <<ren, remote, lockout>>
call == <<op, todo, outcome, calls>>
rvars == <<via, instrument, call>>

RInit ==
    /\ via \in Interfaces
    /\ ren = FALSE /\ remote = FALSE /\ lockout = FALSE
    /\ op = "deassert" /\ todo = <<>> /\ outcome = "none" /\ calls = 0

-----------------------------------------------------------------------------
(* VXI-11: device_remote and device_local, which know no REN line.         *)
Vxi11Requests(o) ==
    CASE o \in {"asrt_address", "asrt_address_llo"} -> <<"device_remote">>
      [] o \in {"address_gtl", "deassert_gtl"} -> <<"device_local">>
      [] OTHER -> <<"unsupported">>

(* HiSLIP: each operation is one request, REMOTELOCALOPCODE.               *)
HislipRequests(o) ==
    CASE o = "address_gtl" -> <<"justGTL">>
      [] o = "asrt" -> <<"enableRemote">>
      [] o = "asrt_address" -> <<"enableAndGotoRemote">>
      [] o = "asrt_address_llo" -> <<"enableAndGTRLLO">>
      [] o = "asrt_llo" -> <<"enableAndLockoutLocal">>
      [] o = "deassert" -> <<"disableRemote">>
      [] o = "deassert_gtl" -> <<"disableAndGTL">>

(* GPIB: asrt_address_llo is accepted and does nothing, and asrt_llo does  *)
(* not assert REN.                                                         *)
GpibRequests(o) ==
    CASE o = "deassert_gtl" -> <<"GTL", "REN off">>
      [] o = "deassert" -> <<"REN off">>
      [] o = "asrt_llo" -> <<"LLO">>
      [] o = "address_gtl" -> <<"GTL">>
      [] o = "asrt_address_llo" -> <<>>
      [] o = "asrt" -> <<"REN on">>
      [] o = "asrt_address" -> <<"REN on", "listen">>

(* On an INTFC resource only three are supported.                          *)
GpibIntfcRequests(o) ==
    IF o \in {"asrt", "deassert", "asrt_llo"} THEN GpibRequests(o) ELSE <<"unsupported">>

(* A plausible slip: lock the keys first.                                  *)
UsbTmcRequestsLockFirst(o) ==
    (IF o \in {"asrt_llo", "asrt_address_llo"} THEN <<"LLO">> ELSE <<>>)
      \o (IF o \in {"asrt", "asrt_address", "asrt_address_llo"} THEN <<"REN on">> ELSE <<>>)
      \o (IF o \in {"deassert_gtl", "address_gtl"} THEN <<"GTL">> ELSE <<>>)
      \o (IF o \in {"deassert", "deassert_gtl"} THEN <<"REN off">> ELSE <<>>)

(* USBTMC: four parts in this order; asrt_llo does not assert REN.         *)
UsbTmcRequests(o) ==
    (IF o \in {"asrt", "asrt_address", "asrt_address_llo"} THEN <<"REN on">> ELSE <<>>)
      \o (IF o \in {"asrt_llo", "asrt_address_llo"} THEN <<"LLO">> ELSE <<>>)
      \o (IF o \in {"deassert_gtl", "address_gtl"} THEN <<"GTL">> ELSE <<>>)
      \o (IF o \in {"deassert", "deassert_gtl"} THEN <<"REN off">> ELSE <<>>)

Requests(o) ==
    CASE via = "vxi11" -> Vxi11Requests(o)
      [] via = "hislip" -> HislipRequests(o)
      [] via = "gpib instr" -> GpibRequests(o)
      [] via = "gpib intfc" -> GpibIntfcRequests(o)
      [] via = "usbtmc" -> UsbTmcRequests(o)

GpibControlRen(o) ==
    /\ outcome # "busy" /\ calls < MaxCalls
    /\ calls' = calls + 1
    /\ op' = o
    /\ \/ Requests(o) = <<"unsupported">> /\ todo' = <<>> /\ outcome' = "unsupported"
       \/ via = "usbtmc" /\ todo' = <<>> /\ outcome' = "unsupported"   \* no such capability
       \/ Requests(o) = <<>> /\ todo' = <<>> /\ outcome' = "success"
       \/ /\ Requests(o) \notin {<<>>, <<"unsupported">>}
          /\ todo' = Requests(o) /\ outcome' = "busy"
    /\ UNCHANGED <<via, instrument>>

-----------------------------------------------------------------------------
(* What a request does to the instrument: REN must be on for it to go to   *)
(* remote or to lock its key, and off it is local and unlocked.            *)
Enables(r) == r \in {"REN on", "enableRemote", "enableAndGotoRemote", "enableAndGTRLLO",
                     "enableAndLockoutLocal", "device_remote"}
Disables(r) == r \in {"REN off", "disableRemote", "disableAndGTL"}
GoesRemote(r) == r \in {"listen", "enableAndGotoRemote", "enableAndGTRLLO", "device_remote"}
GoesLocal(r) == r \in {"GTL", "justGTL", "disableAndGTL", "device_local"}
Locks(r) == r \in {"LLO", "enableAndGTRLLO", "enableAndLockoutLocal"}

Effect(r) ==
    /\ ren' = ((ren \/ Enables(r)) /\ ~ Disables(r))
    /\ remote' = (ren' /\ (remote \/ GoesRemote(r)) /\ ~ GoesLocal(r))
    /\ lockout' = (ren' /\ (lockout \/ Locks(r)))

Request ==
    /\ outcome = "busy"
    /\ Effect(Head(todo))
    /\ todo' = Tail(todo)
    /\ outcome' = IF Tail(todo) = <<>> THEN "success" ELSE "busy"
    /\ UNCHANGED <<via, op, calls>>

(* The request fails: the others are not made.  On a GPIB INTFC resource   *)
(* the error path asks an interface that is None for its status; USBTMC    *)
(* raises ValueError, HiSLIP RuntimeError.                                 *)
RequestFails ==
    /\ outcome = "busy"
    /\ outcome' = IF via \in {"gpib instr", "vxi11"} THEN "error" ELSE "raised"
    /\ todo' = <<>>
    /\ UNCHANGED <<via, instrument, op, calls>>

(* At the instrument somebody presses its "local" key.                     *)
LocalKey ==
    /\ remote /\ ~ lockout
    /\ outcome # "busy"
    /\ outcome' = "none"
    /\ remote' = FALSE
    /\ UNCHANGED <<via, ren, lockout, op, todo, calls>>

RNext ==
    \/ \E o \in Operations : GpibControlRen(o)
    \/ Request \/ RequestFails \/ LocalKey

RSpec == RInit /\ [][RNext]_rvars

-----------------------------------------------------------------------------
(* The table of faq.rst, its column "HiSLIP", to which it likens GPIB.     *)
Achieved(o) ==
    CASE o = "address_gtl" -> ~ remote
      [] o = "asrt" -> ren
      [] o = "asrt_address" -> ren /\ remote
      [] o = "asrt_address_llo" -> ren /\ remote /\ lockout
      [] o = "asrt_llo" -> ren /\ lockout
      [] o = "deassert" -> ~ ren
      [] o = "deassert_gtl" -> ~ ren /\ ~ remote

(* Where the code does less: VXI-11 has neither REN nor lockout (the other *)
(* column), USBTMC does not address the instrument, which goes to remote   *)
(* with the next message, and GPIB and USBTMC lock without asserting REN.  *)
AchievedVia(o) ==
    CASE via = "vxi11" /\ o = "asrt_address_llo" -> remote
      [] via = "vxi11" /\ o = "deassert_gtl" -> ~ remote
      [] via = "usbtmc" /\ o = "asrt_address" -> ren
      [] via = "usbtmc" /\ o = "asrt_address_llo" -> ren /\ lockout
      [] via \in {"gpib instr", "gpib intfc", "usbtmc"} /\ o = "asrt_llo" -> ren => lockout
      [] via = "gpib instr" /\ o = "asrt_address_llo" -> TRUE
      [] OTHER -> Achieved(o)

(* A call that returns success has brought the instrument where the        *)
(* operation should, whatever calls, failed half-way or not, came before.  *)
SuccessAchieves == outcome = "success" => AchievedVia(op)
=============================================================================

--------------------------- MODULE EffectPromise ---------------------------
(***************************************************************************)
(* What effect execution promises about one action, without leases,        *)
(* processes, receipts or retries: the Application is asked at most once   *)
(* and only after the action was fenced, and the verdict is given once: a  *)
(* success is the truth, and a failure tells whether the Application was   *)
(* asked, but not that it refused.                                         *)
(***************************************************************************)
CONSTANT Keys

VARIABLES
    status,    \* [Keys -> open, fenced or settled]
    asked,     \* [Keys -> the Application was asked]
    effect,    \* [Keys -> what the Application did]
    verdict    \* [Keys -> what every caller is told from now on]

pvars == <<status, asked, effect, verdict>>

Init ==
    /\ status = [a \in Keys |-> "open"]
    /\ asked = [a \in Keys |-> FALSE]
    /\ effect = [a \in Keys |-> "none"]
    /\ verdict = [a \in Keys |-> "none"]

Fence(a) ==
    /\ status[a] = "open"
    /\ status' = [status EXCEPT ![a] = "fenced"]
    /\ UNCHANGED <<asked, effect, verdict>>

Ask(a) ==
    /\ status[a] = "fenced"
    /\ ~asked[a]
    /\ asked' = [asked EXCEPT ![a] = TRUE]
    /\ effect' = [effect EXCEPT ![a] = "pending"]
    /\ UNCHANGED <<status, verdict>>

Decide(a) ==
    /\ effect[a] = "pending"
    /\ \E v \in {"applied", "refused"} : effect' = [effect EXCEPT ![a] = v]
    /\ UNCHANGED <<status, asked, verdict>>

(* A fenced action is reported done only when the Application did it. *)
Succeed(a) ==
    /\ status[a] = "fenced"
    /\ effect[a] = "applied"
    /\ status' = [status EXCEPT ![a] = "settled"]
    /\ verdict' = [verdict EXCEPT ![a] = "applied"]
    /\ UNCHANGED <<asked, effect>>

(* Once asked, it may be given up for good, whatever the Application does. *)
GiveUp(a) ==
    /\ status[a] = "fenced"
    /\ asked[a]
    /\ status' = [status EXCEPT ![a] = "settled"]
    /\ verdict' = [verdict EXCEPT ![a] = "failed"]
    /\ UNCHANGED <<asked, effect>>

(* An action that needs no Application, or is declined before it is asked. *)
SettleLocally(a) ==
    /\ status[a] = "open"
    /\ status' = [status EXCEPT ![a] = "settled"]
    /\ \E v \in {"local", "declined"} : verdict' = [verdict EXCEPT ![a] = v]
    /\ UNCHANGED <<asked, effect>>

Next == \E a \in Keys :
    Fence(a) \/ Ask(a) \/ Decide(a) \/ Succeed(a) \/ GiveUp(a) \/ SettleLocally(a)

Spec == Init /\ [][Next]_pvars

=============================================================================

------------------------- MODULE IngressTransaction -------------------------
(***************************************************************************)
(* The provider-neutral transaction that carries one native message from a *)
(* Channel adapter into the Gateway (channels/ingress.py): access policy,  *)
(* transient duplicate key, durable claim, media preparation, handoff, and *)
(* the return of the claim when preparation fails.                         *)
(*                                                                         *)
(* Every adapter dispatches one message at a time, so the module has one   *)
(* dispatcher. What a message does after its handoff is InboundAdmission;  *)
(* here the Gateway only accepts it, turns it away before its fence (and   *)
(* returns the claim), or fails after its fence (and keeps it). While it   *)
(* starts it keeps what it is given in its FIFO, with the claim open; and  *)
(* once it accepts no more, it returns without an error and without the    *)
(* message, which no Channel can tell from a message that was taken.       *)
(***************************************************************************)
EXTENDS Integers, Sequences, FiniteSets

CONSTANTS
    Count,          \* bound on the native messages of the Channel
    Denied,         \* messages the access policy or the parser turns away
    AdmittedLimit,  \* _TRANSIENT_ADMISSION_LIMIT
    MaxFaults       \* bound on failing calls

TransactionAssumption ==
    /\ Count \in Nat
    /\ Denied \subseteq 1..Count
    /\ AdmittedLimit \in Nat \ {0}
    /\ MaxFaults \in Nat

Messages == 1..Count

VARIABLES
    pc,        \* place of the dispatcher
    cur,       \* message it dispatches, or 0
    admitted,  \* _admitted_inbound: transient duplicate keys
    claim,     \* [Messages -> durable idempotency record]
    handed,    \* history: messages handed to the Gateway, in order
    orphans,   \* messages whose open claim has no live owner
    skipped,   \* history: messages answered by an open claim
    gate,      \* the Gateway: starting, live, or closed (not _accepting_inbound)
    startup,   \* _startup_admission; 0 for an entry whose claim was taken over
    dropped,   \* history: messages the Gateway returned from and did not keep
    faults     \* failing calls so far

gateVars == <<gate, startup, dropped>>
dispatchVars == <<pc, cur, admitted, claim, handed, orphans, skipped, gateVars>>
transactionVars == <<dispatchVars, faults>>

Places == {"idle", "claim", "prepare", "deliver", "release", "returned", "raised"}

TransactionTypeOK ==
    /\ pc \in Places
    /\ cur \in 0..Count
    /\ (pc = "idle") <=> (cur = 0)
    /\ admitted \subseteq Messages
    /\ claim \in [Messages -> {"none", "open", "fenced"}]
    /\ handed \in Seq(Messages)
    /\ orphans \subseteq Messages
    /\ skipped \subseteq Messages
    /\ gate \in {"starting", "live", "closed"}
    /\ startup \in Seq(0..Count)
    /\ dropped \subseteq Messages
    /\ faults \in 0..MaxFaults

TransactionInit ==
    /\ pc = "idle"
    /\ cur = 0
    /\ admitted = {}
    /\ claim = [m \in Messages |-> "none"]
    /\ handed = <<>>
    /\ orphans = {}
    /\ skipped = {}
    /\ startup = <<>>
    /\ dropped = {}
    /\ faults = 0

Handed == {handed[i] : i \in DOMAIN handed}

(* What waits in the FIFO, and all the Gateway returned from without an error
   on account of a claim of its own or for want of one. *)
Waiting == {startup[i] : i \in DOMAIN startup} \ {0}
Kept == Handed \cup Waiting \cup dropped

Fault ==
    /\ faults < MaxFaults
    /\ faults' = faults + 1

(* A record that is fenced or fresh answers the claim; an open one that has
   grown older than stale_claim_after_seconds is taken over. *)
Claimable(m) == claim[m] \in {"none", "open"}

-----------------------------------------------------------------------------
(* The set forgets an arbitrary key when it is full, set.pop. *)
Remember(m, keys) ==
    IF Cardinality(keys \cup {m}) <= AdmittedLimit
    THEN {keys \cup {m}}
    ELSE {(keys \cup {m}) \ {k} : k \in keys \cup {m}}

(* dispatch_inbound and the fast path of the transaction: a denied message
   and a key still remembered return at once. *)
Dispatch(m) ==
    /\ pc = "idle"
    /\ cur' = m
    /\ \/ /\ m \in Denied \cup admitted
          /\ pc' = "returned"
          /\ UNCHANGED admitted
       \/ /\ m \notin Denied \cup admitted
          /\ pc' = "claim"
          /\ admitted' \in Remember(m, admitted)
    /\ UNCHANGED <<claim, handed, orphans, skipped, gateVars, faults>>

(* The key is discarded whenever the transaction does not hand over. *)
Forget == admitted' = admitted \ {cur}

(* The claim of an entry of the FIFO went to the message that is dispatched:
   the entry will find that it is not the owner any more. *)
Disowned == [i \in DOMAIN startup |-> IF startup[i] = cur THEN 0 ELSE startup[i]]

Disown ==
    /\ startup' = Disowned
    /\ dropped' = dropped \cup (Waiting \cap {cur})

(* The admission is ours: the record is new, or stale and taken over. *)
AcquireClaim ==
    /\ pc = "claim"
    /\ gate # "closed"
    /\ Claimable(cur)
    /\ claim' = [claim EXCEPT ![cur] = "open"]
    /\ orphans' = orphans \ {cur}
    /\ Disown
    /\ pc' = "prepare"
    /\ UNCHANGED <<cur, admitted, handed, skipped, gate, faults>>

(* admission is None: someone else holds or has finished the record; or the
   Gateway does not accept, and returned before it claimed, or claimed and
   released. The transaction returns like one that was taken. *)
NoLease ==
    /\ pc = "claim"
    /\ Forget
    /\ \/ /\ claim[cur] # "none"
          /\ skipped' = IF claim[cur] = "open" THEN skipped \cup {cur} ELSE skipped
          /\ UNCHANGED <<claim, orphans, startup, dropped>>
       \/ /\ gate = "closed"
          /\ dropped' = dropped \cup {cur}
          /\ UNCHANGED <<claim, orphans, skipped, startup>>
       \/ /\ gate = "closed"
          /\ Claimable(cur)
          /\ claim' = [claim EXCEPT ![cur] = "none"]
          /\ orphans' = orphans \ {cur}
          /\ startup' = Disowned
          /\ dropped' = dropped \cup {cur}
          /\ UNCHANGED skipped
    /\ pc' = "returned"
    /\ UNCHANGED <<cur, handed, gate, faults>>

(* The claim call fails, before or after the store recorded it; or the release
   of one that was granted as the Gateway closed. *)
ClaimFails ==
    /\ pc = "claim"
    /\ Fault
    /\ Forget
    /\ \/ UNCHANGED <<claim, orphans, startup, dropped>>
       \/ /\ Claimable(cur)
          /\ claim' = [claim EXCEPT ![cur] = "open"]
          /\ orphans' = orphans \cup {cur}
          /\ Disown
    /\ pc' = "raised"
    /\ UNCHANGED <<cur, handed, skipped, gate>>

(* prepare_inbound and normalisation succeed, or raise before the handoff. *)
Prepare ==
    /\ pc = "prepare"
    /\ \/ pc' = "deliver" /\ UNCHANGED faults
       \/ pc' = "release" /\ Fault
    /\ UNCHANGED <<cur, admitted, claim, handed, orphans, skipped, gateVars>>

(* admission.deliver to a Gateway that is live: it fences the message and
   takes it, even if it then fails. *)
Hand ==
    /\ gate = "live"
    /\ claim' = [claim EXCEPT ![cur] = "fenced"]
    /\ handed' = Append(handed, cur)
    /\ \/ pc' = "returned" /\ UNCHANGED <<admitted, faults>>
       \/ pc' = "raised" /\ Fault /\ Forget
    /\ UNCHANGED <<orphans, startup, dropped>>

(* To one that starts: the message waits in the FIFO, its claim open. *)
Admit ==
    /\ gate = "starting"
    /\ startup' = Append(startup, cur)
    /\ pc' = "returned"
    /\ UNCHANGED <<admitted, claim, handed, orphans, dropped, faults>>

(* To one that does not accept any more: the claim is released, and the call
   returns; or the release fails, and it raises. *)
TurnAway ==
    /\ gate = "closed"
    /\ \/ /\ claim' = [claim EXCEPT ![cur] = "none"]
          /\ dropped' = dropped \cup {cur}
          /\ pc' = "returned"
          /\ UNCHANGED <<admitted, orphans, faults>>
       \/ /\ Fault
          /\ Forget
          /\ orphans' = orphans \cup {cur}
          /\ pc' = "raised"
          /\ UNCHANGED <<claim, dropped>>
    /\ UNCHANGED <<handed, startup>>

(* Or the Gateway refuses the message before the fence: its FIFO is full, or
   the input fails. *)
Refuse ==
    /\ gate # "closed"
    /\ Fault
    /\ pc' = "release"
    /\ UNCHANGED <<admitted, claim, handed, orphans, startup, dropped>>

Deliver ==
    /\ pc = "deliver"
    /\ Hand \/ Admit \/ TurnAway \/ Refuse
    /\ UNCHANGED <<cur, skipped, gate>>

(* Mutant of Release: the failure of the preparation keeps the claim. *)
ReleaseNothing ==
    /\ pc = "release"
    /\ Forget
    /\ pc' = "raised"
    /\ UNCHANGED <<cur, claim, handed, orphans, skipped, gateVars, faults>>

(* admission.release, whose own failure leaves the claim behind. *)
Release ==
    /\ pc = "release"
    /\ Forget
    /\ \/ /\ claim' = [claim EXCEPT ![cur] = "none"]
          /\ UNCHANGED <<orphans, faults>>
       \/ /\ Fault
          /\ orphans' = orphans \cup {cur}
          /\ UNCHANGED claim
    /\ pc' = "raised"
    /\ UNCHANGED <<cur, handed, skipped, gateVars>>

TransactionStep ==
    \/ AcquireClaim
    \/ NoLease
    \/ ClaimFails
    \/ Prepare
    \/ Deliver
    \/ Release

(* The adapter takes the outcome of the dispatch. *)
Taken ==
    /\ pc' = "idle"
    /\ cur' = 0

(* stop() cancels the task that dispatches and waits for its cleanup: an
   admission that was not transferred is released; the claim call waits before
   it records anything; the Gateway may still take a message it has begun. The
   Gateway stops a Channel when it does not accept any more, or when its start
   failed, which ends the start of the Gateway. *)
Cancelled ==
    /\ Taken
    /\ gate # "live"
    /\ gate' = "closed"
    /\ admitted' = IF pc \in {"idle", "returned"} THEN admitted ELSE admitted \ {cur}
    /\ \/ /\ pc \in {"idle", "returned", "raised", "claim"}
          /\ UNCHANGED <<claim, handed>>
       \/ /\ pc \in {"prepare", "deliver", "release"}
          /\ claim' = [claim EXCEPT ![cur] = "none"]
          /\ UNCHANGED handed
       \/ /\ pc = "deliver"
          /\ gate = "closed" /\ startup = <<>>
          /\ claim' = [claim EXCEPT ![cur] = "fenced"]
          /\ handed' = Append(handed, cur)
    /\ UNCHANGED <<orphans, skipped, startup, dropped, faults>>

(* The process dies: memory is gone and an open claim has lost its owner. *)
Died ==
    /\ Taken
    /\ admitted' = {}
    /\ orphans' = orphans \cup Waiting
                    \cup {m \in {cur} : pc \in {"prepare", "deliver", "release"}}
    /\ gate' = "closed"
    /\ startup' = <<>>
    /\ dropped' = dropped \cup Waiting
    /\ UNCHANGED <<claim, handed, skipped, faults>>

-----------------------------------------------------------------------------
(* The Gateway starts, and its Channels with it. *)
OpenGate ==
    /\ gate = "closed"
    /\ startup = <<>>
    /\ gate' = "starting"
    /\ UNCHANGED <<pc, cur, admitted, claim, handed, orphans, skipped, startup, dropped, faults>>

(* start() takes the FIFO, and goes live once it is empty. A message that
   fails after its fence, or before it, fails the start; so does the entry
   whose claim is another's. *)
Drain ==
    /\ gate = "starting"
    /\ startup # <<>>
    /\ startup' = Tail(startup)
    /\ LET m == Head(startup) IN
       \/ /\ m # 0
          /\ claim' = [claim EXCEPT ![m] = "fenced"]
          /\ handed' = Append(handed, m)
          /\ \/ UNCHANGED <<gate, faults>>
             \/ gate' = "closed" /\ Fault
          /\ UNCHANGED <<orphans, dropped>>
       \/ /\ m # 0
          /\ gate' = "closed" /\ Fault
          /\ \/ claim' = [claim EXCEPT ![m] = "none"] /\ UNCHANGED orphans
             \/ orphans' = orphans \cup {m} /\ UNCHANGED claim
          /\ dropped' = dropped \cup {m}
          /\ UNCHANGED handed
       \/ /\ m = 0
          /\ gate' = "closed"
          /\ UNCHANGED <<claim, handed, orphans, dropped, faults>>
    /\ UNCHANGED <<pc, cur, admitted, skipped>>

GoLive ==
    /\ gate = "starting"
    /\ startup = <<>>
    /\ gate' = "live"
    /\ UNCHANGED <<pc, cur, admitted, claim, handed, orphans, skipped, startup, dropped, faults>>

(* A start that failed returns the claims of its FIFO, as far as it can. *)
RollBack ==
    /\ gate = "closed"
    /\ startup # <<>>
    /\ startup' = Tail(startup)
    /\ LET m == Head(startup) IN
       \/ /\ m # 0
          /\ \/ claim' = [claim EXCEPT ![m] = "none"] /\ UNCHANGED <<orphans, faults>>
             \/ orphans' = orphans \cup {m} /\ Fault /\ UNCHANGED claim
          /\ dropped' = dropped \cup {m}
       \/ /\ m = 0
          /\ UNCHANGED <<claim, orphans, dropped, faults>>
    /\ UNCHANGED <<pc, cur, admitted, handed, skipped, gate>>

GatewayStep == Drain \/ GoLive \/ RollBack

(* stop(), a start that fails elsewhere, or the loss of the lease. *)
CloseGate ==
    /\ gate # "closed"
    /\ gate' = "closed"
    /\ UNCHANGED <<pc, cur, admitted, claim, handed, orphans, skipped, startup, dropped, faults>>

-----------------------------------------------------------------------------
(* No redelivery, retry, crash or evicted key makes the Gateway take one
   native message twice: the durable claim answers where the transient set no
   longer can. *)
HandedOnce ==
    \A i, j \in DOMAIN handed : handed[i] = handed[j] => i = j

(* The transient fast path never swallows a message: a remembered key is that
   of a message the Gateway has or waits to take, or of the one being
   dispatched. Excepted is a message the Gateway returned from and did not
   keep: it was released while its key stayed, or given up with the FIFO. *)
FastPathIsTrue ==
    \A m \in admitted : m \in Kept \/ m = cur

(* Whatever way a dispatch ends, the claim it opened is fenced by the handoff,
   waits with its message in the startup FIFO, or is returned; only a crash, a
   failed release or a claim call without an answer leaves one behind. *)
OpenClaimIsOwned ==
    \A m \in Messages :
        claim[m] = "open" =>
            \/ m \in orphans \cup Waiting
            \/ m = cur /\ pc \in {"prepare", "deliver", "release"}

(* Messages reach the Gateway in the order of the platform, those that waited
   in the startup FIFO included. Only one whose orphaned claim was taken over
   by a later redelivery comes late. *)
HandedInOrder ==
    \A i, j \in DOMAIN handed :
        i < j /\ handed[j] < handed[i] => handed[j] \in skipped
=============================================================================

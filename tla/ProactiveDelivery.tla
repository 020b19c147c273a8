-------------------------- MODULE ProactiveDelivery --------------------------
(***************************************************************************)
(* Submissions: one delivery id, its pinned destinations and what became   *)
(* of each (delivery/proactive_runtime.py), under the two ways in: the     *)
(* JSON ingress with its lock on the delivery id and its staged artifacts  *)
(* (delivery/proactive_ingress.py), and the Gateway's own outbound path    *)
(* with its idempotency claim (orchestration.py). What the coordinator     *)
(* reports of a send is DeliveryCoordination!ReceiptIsTrue.                *)
(***************************************************************************)
EXTENDS Integers, Sequences, FiniteSets

CONSTANTS
    Calls,       \* deliveries asked for; each is one call
    IdOf,        \* [Calls -> delivery id]
    OriginOf,    \* [Calls -> {"external", "internal"}]
    PrincipalOf, \* [Calls -> principal]
    PayloadOf,   \* [Calls -> payload fingerprint]
    TargetOf,    \* [Calls -> a Conversation, or Thread]
    Thread,      \* the target "the routes of the Thread"
    Dests,       \* Conversations
    ViaIngress,  \* external calls that come through the JSON handler
    Refused,     \* payloads the preflight refuses
    MaxKeys,     \* max_active_delivery_ids of the handler
    MaxRecords,  \* bound of the process-local submission repository
    MaxMoves, MaxCrashes, MaxFailures, MaxCancels   \* bounds of the environment

ProactiveAssumption ==
    /\ ViaIngress \subseteq {c \in Calls : OriginOf[c] = "external"}
    /\ \A c \in Calls : TargetOf[c] \in Dests \cup {Thread} /\ OriginOf[c] \in {"external", "internal"}
    /\ MaxKeys \in Nat \ {0} /\ MaxRecords \in Nat \ {0}

VARIABLES
    records,   \* [submission id -> record]; durable
    claims,    \* [delivery id -> outbound idempotency record]; durable
    routes,    \* active projection routes of the Thread
    revoked,   \* principals whose credential is revoked
    pc,        \* [Calls -> control]
    pinned,    \* [Calls -> destinations resolved, or retryable ones to look at]
    task,      \* [Calls -> [destination -> control of _send_destination]]
    verdict,   \* [Calls -> [destination -> state to persist]]
    answer,    \* [Calls -> what the caller is told]
    leader,    \* [Calls -> the call whose outbound task is shared]
    locks,     \* [delivery id -> holder and waiters of the ingress lock]
    staged,    \* calls whose staged artifacts are on disk
    taken,     \* history: [Calls -> destinations where the platform took it]
    budget     \* what is left of the environment's bounds

vars == <<records, claims, routes, revoked, pc, pinned, task, verdict, answer, leader,
          locks, staged, taken, budget>>

store  == <<records, claims>>
world  == <<routes, revoked, budget>>
mine   == <<pinned, task, verdict, taken>>
access == <<leader, locks, staged>>

Ids == {IdOf[c] : c \in Calls}
States == {"in_flight", "accepted", "rejected", "retryable", "partial", "unknown"}
Terminal == States \ {"in_flight", "retryable"}
NoRecord == [principal |-> "none", payload |-> "none", target |-> Thread, state |-> <<>>]
NoClaim == [status |-> "none", owner |-> "none"]
NoAnswer == [kind |-> "none", replayed |-> FALSE]

(* derive_delivery_submission_id: the origin and the caller's delivery id. The
   principal is evidence of the record and not part of its identity. *)
Sid(c) == <<OriginOf[c], IdOf[c]>>
Exists(s) == records[s] # NoRecord
Pinned(s) == DOMAIN records[s].state
Internal(c) == OriginOf[c] = "internal"
Running(c) == pc[c] \notin {"idle", "end", "crashed"}
Working(c, d) == task[c][d] \in {"sending", "joining"}

TypeOK ==
    /\ \A s \in DOMAIN records : \A d \in Pinned(s) : records[s].state[d] \in States
    /\ \A i \in Ids : claims[i].status \in {"none", "in_flight", "completed"}
    /\ routes \subseteq Dests
    /\ pinned \in [Calls -> SUBSET Dests]
    /\ task \in [Calls -> [Dests -> {"none", "claimed", "sending", "joining", "update",
                                        "persist", "ended", "raised"}]]
    /\ \A i \in Ids : locks[i] \in Seq(Calls)
    /\ staged \subseteq ViaIngress /\ taken \in [Calls -> SUBSET Dests]

Init ==
    /\ records = [s \in {Sid(c) : c \in Calls} |-> NoRecord]
    /\ claims = [i \in Ids |-> NoClaim]
    /\ routes \in (SUBSET Dests) \ {{}} /\ revoked = {}
    /\ pc = [c \in Calls |-> "idle"] /\ pinned = [c \in Calls |-> {}]
    /\ task = [c \in Calls |-> [d \in Dests |-> "none"]]
    /\ verdict = [c \in Calls |-> [d \in Dests |-> "in_flight"]]
    /\ answer = [c \in Calls |-> NoAnswer] /\ leader = [c \in Calls |-> c]
    /\ locks = [i \in Ids |-> <<>>] /\ staged = {} /\ taken = [c \in Calls |-> {}]
    /\ budget = [moves |-> MaxMoves, crashes |-> MaxCrashes,
                 failures |-> MaxFailures, cancels |-> MaxCancels]

Goto(c, label) == pc' = [pc EXCEPT ![c] = label]
Spend(what) == budget[what] > 0 /\ budget' = [budget EXCEPT ![what] = @ - 1]

(* _submit is over: the handler cleans up, the outbound path settles its claim. *)
Returns(c, kind, replayed) ==
    /\ answer' = [answer EXCEPT ![c] = [kind |-> kind, replayed |-> replayed]]
    /\ Goto(c, IF Internal(c) THEN "settle" ELSE IF c \in ViaIngress THEN "cleanup" ELSE "end")

(* _result_from_record *)
ResultOf(record) ==
    LET states == {record.state[d] : d \in DOMAIN record.state}
    IN IF "in_flight" \in states THEN "in_flight"
       ELSE IF Cardinality(states) = 1 THEN CHOOSE s \in states : TRUE ELSE "partial"

-----------------------------------------------------------------------------
(* Ways in *)

ActiveIds == {i \in Ids : locks[i] # <<>>}

(* handle: the lock on the delivery id, unless too many ids are active. *)
Arrive(c) ==
    /\ pc[c] = "idle" /\ c \in ViaIngress
    /\ IF IdOf[c] \notin ActiveIds /\ Cardinality(ActiveIds) >= MaxKeys
       THEN /\ answer' = [answer EXCEPT ![c] = [kind |-> "capacity", replayed |-> FALSE]]
            /\ Goto(c, "end") /\ UNCHANGED locks
       ELSE /\ locks' = [locks EXCEPT ![IdOf[c]] = Append(@, c)]
            /\ Goto(c, "lock") /\ UNCHANGED answer
    /\ UNCHANGED <<store, world, mine, leader, staged>>

(* authorize_proactive_target before anything is decoded. *)
Admit(c) ==
    /\ pc[c] = "lock" /\ Head(locks[IdOf[c]]) = c
    /\ IF PrincipalOf[c] \in revoked
       THEN Returns(c, "denied", FALSE)
       ELSE Goto(c, "stage") /\ UNCHANGED answer
    /\ UNCHANGED <<store, world, mine, access>>

(* _parse_intent stages inline artifacts; a failure removes what it staged. *)
Stage(c) ==
    /\ pc[c] = "stage"
    /\ \/ staged' = staged \cup {c} /\ Goto(c, "lookup") /\ UNCHANGED answer
       \/ Returns(c, "staging_failed", FALSE) /\ UNCHANGED staged
    /\ UNCHANGED <<store, world, mine, leader, locks>>

(* The handler's finally: staged artifacts and the lock go. *)
Cleanup(c) ==
    /\ pc[c] = "cleanup"
    /\ staged' = staged \ {c}
    /\ \E k \in DOMAIN locks[IdOf[c]] :
          /\ locks[IdOf[c]][k] = c
          /\ locks' = [locks EXCEPT ![IdOf[c]] = SubSeq(@, 1, k - 1) \o SubSeq(@, k + 1, Len(@))]
    /\ Goto(c, "end")
    /\ UNCHANGED <<store, world, mine, answer, leader>>

(* deliver_proactively without the handler. *)
Call(c) ==
    /\ pc[c] = "idle" /\ ~Internal(c) /\ c \notin ViaIngress
    /\ Goto(c, "lookup")
    /\ UNCHANGED <<store, world, mine, access, answer>>

(* deliver: a record that is settled is returned whoever asks. *)
Lookup(c) ==
    /\ pc[c] = "lookup"
    /\ LET record == records[Sid(c)]
       IN IF Exists(Sid(c)) /\ \A d \in Pinned(Sid(c)) : record.state[d] \in Terminal
          THEN IF record.target # TargetOf[c] \/ record.payload # PayloadOf[c]
               THEN Returns(c, "conflict", FALSE)
               ELSE Returns(c, ResultOf(record), TRUE)
          ELSE Goto(c, "permit") /\ UNCHANGED answer
    /\ UNCHANGED <<store, world, mine, access>>

(* authorize *)
Permit(c) ==
    /\ pc[c] = "permit"
    /\ IF PrincipalOf[c] \in revoked
       THEN Returns(c, "denied", FALSE)
       ELSE Goto(c, "load") /\ UNCHANGED answer
    /\ UNCHANGED <<store, world, mine, access>>

-----------------------------------------------------------------------------
(* _submit *)

(* _ensure_submission_identity *)
SameSubmission(c, record) ==
    /\ record.principal = PrincipalOf[c]
    /\ record.target = TargetOf[c] /\ record.payload = PayloadOf[c]

(* Mutant: a destination left in_flight counts as one that may be sent again. *)
ResumableIfUnsettled(state) == state \in {"retryable", "in_flight"}

(* Only an explicit retryable receipt authorizes another attempt. *)
Resumable(state) == state = "retryable"

RetryableOf(record) == {d \in DOMAIN record.state : Resumable(record.state[d])}

(* The record is looked up before routes are: replay follows no moved route. *)
Load(c) ==
    /\ pc[c] = "load"
    /\ LET record == records[Sid(c)]
       IN IF ~Exists(Sid(c)) THEN Goto(c, "resolve") /\ UNCHANGED <<answer, pinned>>
          ELSE IF ~SameSubmission(c, record) THEN Returns(c, "conflict", FALSE) /\ UNCHANGED pinned
          ELSE IF RetryableOf(record) = {} THEN Returns(c, ResultOf(record), TRUE) /\ UNCHANGED pinned
          ELSE /\ pinned' = [pinned EXCEPT ![c] = RetryableOf(record)]
               /\ answer' = [answer EXCEPT ![c].replayed = TRUE]
               /\ Goto(c, "resume")
    /\ UNCHANGED <<store, world, task, verdict, taken, access>>

(* _resolve_snapshots *)
Resolve(c) ==
    /\ pc[c] = "resolve"
    /\ LET found == IF TargetOf[c] = Thread THEN routes ELSE {TargetOf[c]}
       IN IF found = {} THEN Returns(c, "no_route", FALSE) /\ UNCHANGED pinned
          ELSE /\ pinned' = [pinned EXCEPT ![c] = found]
               /\ Goto(c, "reserve") /\ UNCHANGED answer
    /\ UNCHANGED <<store, world, task, verdict, taken, access>>

RecordOf(c, state) ==
    [principal |-> PrincipalOf[c], payload |-> PayloadOf[c], target |-> TargetOf[c],
     state |-> [d \in pinned[c] |-> state]]

(* ensure_same_delivery_submission_reservation *)
SameReservation(c) == SameSubmission(c, records[Sid(c)]) /\ Pinned(Sid(c)) = pinned[c]

SetTasks(c, dests, control) ==
    task' = [task EXCEPT ![c] = [d \in Dests |-> IF d \in dests THEN control ELSE @[d]]]

(* reserve_delivery_submission: the first one pins the destinations. A payload
   the preflight refuses is recorded as rejected everywhere. *)
Reserve(c) ==
    /\ pc[c] = "reserve"
    /\ IF Exists(Sid(c))
       THEN /\ IF SameReservation(c) THEN Returns(c, ResultOf(records[Sid(c)]), TRUE)
                                     ELSE Returns(c, "conflict", FALSE)
            /\ UNCHANGED <<records, task>>
       ELSE IF Cardinality({s \in DOMAIN records : Exists(s)}) >= MaxRecords
       THEN Returns(c, "capacity", FALSE) /\ UNCHANGED <<records, task>>
       ELSE IF PayloadOf[c] \in Refused
       THEN /\ records' = [records EXCEPT ![Sid(c)] = RecordOf(c, "rejected")]
            /\ Returns(c, "rejected", FALSE) /\ UNCHANGED task
       ELSE /\ records' = [records EXCEPT ![Sid(c)] = RecordOf(c, "in_flight")]
            /\ SetTasks(c, pinned[c], "sending")
            /\ Goto(c, "gather") /\ UNCHANGED answer
    /\ UNCHANGED <<claims, world, pinned, verdict, taken, access>>

(* _resume_retryable_destinations: one destination after the other is taken
   from retryable to in_flight by comparison; one whose retry-after has not
   passed, or that another call took, is left alone.  The order is that of the
   record, where destinations are interchangeable. *)
Resume(c) ==
    /\ pc[c] = "resume"
    /\ \E d \in pinned[c] :
          /\ pinned' = [pinned EXCEPT ![c] = @ \ {d}]
          /\ \/ UNCHANGED <<records, task>>
             \/ /\ Resumable(records[Sid(c)].state[d])
                /\ records' = [records EXCEPT ![Sid(c)].state[d] = "in_flight"]
                /\ SetTasks(c, {d}, "claimed")
    /\ UNCHANGED <<claims, world, pc, verdict, taken, access, answer>>

(* The store fails: the call raises, and nobody sends what it claimed. *)
ResumeFails(c) ==
    /\ pc[c] = "resume" /\ pinned[c] # {}
    /\ Spend("failures")
    /\ Returns(c, "error", FALSE)
    /\ UNCHANGED <<store, routes, revoked, mine, access>>

(* Every destination was looked at: those that are claimed are sent. *)
Launch(c) ==
    /\ pc[c] = "resume" /\ pinned[c] = {}
    /\ LET claimed == {d \in Dests : task[c][d] = "claimed"}
       IN /\ SetTasks(c, claimed, "sending")
          /\ Goto(c, IF claimed = {} THEN "reread" ELSE "gather")
    /\ UNCHANGED <<store, world, pinned, verdict, taken, access, answer>>

-----------------------------------------------------------------------------
(* _send_destination *)

(* The platform takes what a coordinator worker sends. *)
Take(c, d) ==
    /\ Working(c, d) /\ d \notin taken[c]
    /\ taken' = [taken EXCEPT ![c] = @ \cup {d}]
    /\ UNCHANGED <<store, world, pc, pinned, task, verdict, answer, access>>

(* The coordinator's receipt, or an exception, which means unknown. *)
Outcome(c, d, state) ==
    /\ task[c][d] = "sending"
    /\ state \in {"accepted", "partial"} => d \in taken[c]
    /\ state \in {"rejected", "retryable"} => d \notin taken[c]
    /\ verdict' = [verdict EXCEPT ![c][d] = state]
    /\ task' = [task EXCEPT ![c][d] = "update"]
    /\ UNCHANGED <<store, world, pc, pinned, taken, answer, access>>

(* DeliveryHandle.result has joined the cancelled worker. *)
Joined(c, d) ==
    /\ task[c][d] = "joining"
    /\ verdict' = [verdict EXCEPT ![c][d] = "unknown"]
    /\ task' = [task EXCEPT ![c][d] = "persist"]
    /\ UNCHANGED <<store, world, pc, pinned, taken, answer, access>>

(* update_delivery_destination from in_flight; a cancellation goes on after it. *)
Update(c, d) ==
    /\ task[c][d] \in {"update", "persist"}
    /\ LET applies == records[Sid(c)].state[d] = "in_flight"
       IN /\ records' = IF applies THEN [records EXCEPT ![Sid(c)].state[d] = verdict[c][d]] ELSE records
          /\ task' = [task EXCEPT ![c][d] =
                        IF applies /\ task[c][d] = "update" THEN "ended" ELSE "raised"]
    /\ UNCHANGED <<claims, world, pc, pinned, verdict, taken, answer, access>>

(* The store fails: the destination stays in_flight. *)
UpdateFails(c, d) ==
    /\ task[c][d] \in {"update", "persist"}
    /\ Spend("failures")
    /\ task' = [task EXCEPT ![c][d] = "raised"]
    /\ UNCHANGED <<store, routes, revoked, pc, pinned, verdict, taken, answer, access>>

(* asyncio.gather: all results, or the first exception at once, while the
   other destinations go on. *)
Gather(c) ==
    /\ pc[c] = "gather"
    /\ \/ /\ \E d \in Dests : task[c][d] = "raised"
          /\ Returns(c, "error", FALSE)
       \/ /\ \A d \in Dests : task[c][d] \in {"none", "ended"}
          /\ Goto(c, "reread") /\ UNCHANGED answer
    /\ UNCHANGED <<store, world, mine, access>>

(* The record is read again for the result; a resumed one counts as replayed. *)
Reread(c) ==
    /\ pc[c] = "reread"
    /\ Returns(c, ResultOf(records[Sid(c)]), answer[c].replayed)
    /\ UNCHANGED <<store, world, mine, access>>

-----------------------------------------------------------------------------
(* _deliver_outbound: one task for a delivery id, whose callers are shielded *)

Leaders(c) == {l \in Calls \ {c} : Internal(l) /\ IdOf[l] = IdOf[c] /\ leader[l] = l /\ Running(l)}

Outbound(c) ==
    /\ pc[c] = "idle" /\ Internal(c)
    /\ IF Leaders(c) = {} THEN Goto(c, "claim") /\ UNCHANGED leader
       ELSE /\ leader' = [leader EXCEPT ![c] = CHOOSE l \in Leaders(c) : TRUE]
            /\ Goto(c, "joined")
    /\ UNCHANGED <<store, world, mine, locks, staged, answer>>

(* A caller that shares the task: what was newly delivered is delivered for it. *)
Join(c) ==
    /\ pc[c] = "joined" /\ ~Running(leader[c])
    /\ LET a == answer[leader[c]]
       IN answer' = [answer EXCEPT ![c] = IF a.kind = "acquired" THEN [a EXCEPT !.kind = "already"] ELSE a]
    /\ Goto(c, "end")
    /\ UNCHANGED <<store, world, mine, access>>

Ends(c, kind) ==
    /\ answer' = [answer EXCEPT ![c] = [kind |-> kind, replayed |-> FALSE]]
    /\ Goto(c, "end")

(* claim: a record in flight may have grown stale, and is taken over then. *)
Claim(c) ==
    /\ pc[c] = "claim"
    /\ LET i == IdOf[c]
       IN \/ /\ claims[i].status # "completed"
             /\ claims' = [claims EXCEPT ![i] = [status |-> "in_flight", owner |-> c]]
             /\ Goto(c, "present") /\ UNCHANGED answer
          \/ /\ claims[i].status = "in_flight" /\ Ends(c, "in_flight") /\ UNCHANGED claims
          \/ /\ claims[i].status = "completed" /\ Ends(c, "already") /\ UNCHANGED claims
    /\ UNCHANGED <<records, world, mine, access>>

Own(c) == claims[IdOf[c]] = [status |-> "in_flight", owner |-> c]
Release(c) == claims' = [claims EXCEPT ![IdOf[c]] = NoClaim]
Complete(c) == claims' = [claims EXCEPT ![IdOf[c]].status = "completed"]

(* _decide_claimed_outbound_presentation: presented, suppressed or failed. *)
Present(c) ==
    /\ pc[c] = "present" /\ Own(c)
    /\ \/ Goto(c, "load") /\ UNCHANGED <<claims, answer>>
       \/ Complete(c) /\ Ends(c, "suppressed")
       \/ Release(c) /\ Ends(c, "recovery_required")
    /\ UNCHANGED <<records, world, mine, access>>

(* The claim follows the result: completed, released, or kept when the native
   outcome is not known. *)
Settle(c) ==
    /\ pc[c] = "settle" /\ Own(c)
    /\ LET result == answer[c]
       IN CASE result.kind = "accepted" ->
                 Complete(c) /\ Ends(c, IF result.replayed THEN "already" ELSE "acquired")
            [] result.kind \in {"retryable", "rejected", "conflict", "capacity"} -> Release(c) /\ Ends(c, result.kind)
            [] OTHER -> UNCHANGED claims /\ Ends(c, result.kind)
    /\ UNCHANGED <<records, world, mine, access>>

-----------------------------------------------------------------------------
(* The environment *)

(* The caller of an external delivery is cancelled: a worker is cancelled and
   joined, a pending update is interrupted, anything else ends at once. *)
Cancel(c) ==
    /\ Running(c) /\ ~Internal(c) /\ pc[c] # "cleanup"
    /\ Spend("cancels")
    /\ IF pc[c] = "gather"
       THEN /\ task' = [task EXCEPT ![c] = [d \in Dests |->
                          CASE @[d] = "sending" -> "joining"
                            [] @[d] \in {"update", "persist"} -> "raised"
                            [] OTHER -> @[d]]]
            /\ UNCHANGED <<pc, answer>>
       ELSE Returns(c, "cancelled", FALSE) /\ UNCHANGED task
    /\ UNCHANGED <<store, routes, revoked, pinned, verdict, taken, access>>

RouteMoves ==
    /\ Spend("moves")
    /\ \E d \in Dests : routes' = IF d \in routes THEN routes \ {d} ELSE routes \cup {d}
    /\ UNCHANGED <<store, revoked, pc, mine, access, answer>>

(* ScopedDeliveryAuthorizer.revoke *)
Revoke(p) ==
    /\ p \notin revoked /\ Spend("moves") /\ revoked' = revoked \cup {p}
    /\ UNCHANGED <<store, routes, pc, mine, access, answer>>

(* The process ends; the store and what is staged remain. *)
Crash ==
    /\ Spend("crashes")
    /\ pc' = [c \in Calls |-> IF Running(c) THEN "crashed" ELSE pc[c]]
    /\ task' = [c \in Calls |-> [d \in Dests |-> IF task[c][d] \in {"claimed", "sending", "joining", "update", "persist"}
                                              THEN "raised" ELSE task[c][d]]]
    /\ locks' = [i \in Ids |-> <<>>]
    /\ UNCHANGED <<store, routes, revoked, pinned, verdict, answer, leader, staged, taken>>

Step(c) ==
    \/ Arrive(c) \/ Admit(c) \/ Stage(c) \/ Cleanup(c) \/ Call(c) \/ Lookup(c) \/ Permit(c)
    \/ Load(c) \/ Resolve(c) \/ Reserve(c) \/ Resume(c) \/ Launch(c) \/ Gather(c) \/ Reread(c)
    \/ Outbound(c) \/ Join(c) \/ Claim(c) \/ Present(c) \/ Settle(c)

Send(c, d) ==
    \/ Joined(c, d) \/ Update(c, d)
    \/ \E state \in States \ {"in_flight"} : Outcome(c, d, state)

(* Steps of some of the calls, and of the environment. *)
NextOf(some) ==
    \/ \E c \in some :
          \/ Step(c) \/ Cancel(c) \/ ResumeFails(c) \/ Revoke(PrincipalOf[c])
          \/ \E d \in Dests : Send(c, d) \/ Take(c, d) \/ UpdateFails(c, d)
    \/ RouteMoves \/ Crash

Next == NextOf(Calls)

Spec == Init /\ [][Next]_vars

(* Tasks are scheduled, and a coordinator worker comes to an end
   (DeliveryCoordination!DeliveriesEnd). *)
Fairness == \A c \in Calls : WF_vars(Step(c)) /\ \A d \in Dests : WF_vars(Send(c, d))
LiveSpec == Spec /\ Fairness

-----------------------------------------------------------------------------
(* Properties *)

Same(s) == {c \in Calls : Sid(c) = s}

(* The platform sees a delivery id at most once in each destination, whatever
   is retried, raced, cancelled or restarted (reserve_delivery_submission,
   update_delivery_destination, _resume_retryable_destinations). *)
AtMostOnce ==
    \A s \in DOMAIN records : \A d \in Dests :
       Cardinality({c \in Same(s) : d \in taken[c]}) <= 1

(* What a record says of a destination is what happened there: retryable and
   rejected mean that the platform has nothing, accepted that it has it. *)
RecordIsTrue ==
    \A s \in DOMAIN records : \A d \in Pinned(s) :
       LET there == \E c \in Same(s) : d \in taken[c]
       IN /\ records[s].state[d] \in {"rejected", "retryable"} => ~there
          /\ records[s].state[d] \in {"accepted", "partial"} => there

(* A caller told "accepted" or "acquired" can rely on it: the platform has the
   delivery at every destination the record pins, and a caller is told
   "acquired" at most once for an id (_deliver_outbound_once). *)
AnswerIsTrue ==
    /\ \A c \in Calls : answer[c].kind \in {"accepted", "acquired"} =>
          \A d \in Pinned(Sid(c)) : \E o \in Same(Sid(c)) : d \in taken[o]
    /\ \A i \in Ids : Cardinality({c \in Calls : IdOf[c] = i /\ answer[c].kind = "acquired"}) <= 1

(* A completed claim of the outbound path stands for a delivery that was
   accepted or suppressed, so "already" is never said of one that was not. *)
ClaimIsTrue ==
    \A i \in Ids : claims[i].status = "completed" =>
       \/ \E c \in Calls : IdOf[c] = i /\ answer[c].kind = "suppressed"
       \/ /\ Exists(<<"internal", i>>)
          /\ ResultOf(records[<<"internal", i>>]) = "accepted"

(* Staged artifacts outlive the coordinator worker that reads them: they are
   removed only after it was joined (ProactiveDeliveryJsonHandler.handle). The
   exception is a destination whose update failed or was cancelled: gather
   raises at once, and the handler's finally does not wait for the others. *)
StagedWhileSending ==
    \A c \in ViaIngress :
       (\E d \in Dests : Working(c, d)) /\ (\A d \in Dests : task[c][d] # "raised")
           => c \in staged

(* Proactive deliveries: a destination is handed to the Channel at most once
   for a submission, and records, claims and answers are true of it, whatever
   is retried, raced, cancelled or restarted (ProactiveDeliveryService.deliver,
   ProactiveDeliveryJsonHandler.handle, _deliver_outbound_once). *)
DeliveredAtMostOnce ==
    TypeOK /\ AtMostOnce /\ RecordIsTrue /\ AnswerIsTrue /\ ClaimIsTrue /\ StagedWhileSending

=============================================================================

-------------------------- MODULE AppServerRequests --------------------------
(***************************************************************************)
(* Native server requests (approvals, permissions, user input) between the *)
(* App Server client's bounded dispatch lane                               *)
(* (appserver/client/client.py) and the request runtime of the adapter     *)
(* (appserver/requests.py): a request is mapped, its Thread verified, kept *)
(* pending and published; it is answered on the connection it came from,   *)
(* resolved by the native side, or made stale by a reset of that           *)
(* connection; what ended is remembered in a finite cache.                 *)
(*                                                                         *)
(* A responder is a task calling respond(); the Gateway's request lock     *)
(* (gateway/projection/request_correlation.py) lets one of them at a time  *)
(* respond to a request.                                                   *)
(***************************************************************************)
EXTENDS Naturals, Sequences, FiniteSets, SequencesExt

CONSTANTS
    Requests,      \* native requests
    Shape(_),      \* how the mapper finds each: "ok", "unsupported" or "malformed"
    Responders,    \* tasks calling respond()
    Target(_),     \* the request each of them answers
    LaneSize,      \* server_request_queue_size
    CacheLimit,    \* _TERMINAL_REQUEST_CACHE_LIMIT
    MaxEpoch       \* bound: connections

RequestsAssumption ==
    /\ \A r \in Requests : Shape(r) \in {"ok", "unsupported", "malformed"}
    /\ \A t \in Responders : Target(t) \in Requests
    /\ {LaneSize, CacheLimit, MaxEpoch} \subseteq Nat \ {0}

VARIABLES
    epoch, up,       \* connection_epoch; whether there is a transport
    resetting,       \* a reset has stopped the lane and not yet told the handlers
    native,          \* native state of each request: unsent, asked, answered, resolved
    cameOn,          \* the epoch each request was asked on
    lane,            \* _server_request_queue: what arrived and waits to be dispatched
    handling,        \* the message the lane's dispatcher is in, and how far
    pending,         \* AppServerRequestRuntime._pending
    outcomes,        \* ._outcomes, least recently used first
    responder,       \* [pc, out] of each responder
    replies,         \* the replies each request was sent: <<epoch, kind>>
    published        \* the events published of each request, in order

net  == <<epoch, up, resetting>>
vars == <<net, native, cameOn, lane, handling, pending, outcomes, responder, replies,
          published>>

None == "none"
Quiet == [r |-> None, kind |-> None, stage |-> None]

Init ==
    /\ epoch = 1 /\ up = TRUE /\ resetting = FALSE
    /\ native = [r \in Requests |-> "unsent"]
    /\ cameOn = [r \in Requests |-> 0]
    /\ lane = <<>> /\ handling = Quiet
    /\ pending = {} /\ outcomes = <<>>
    /\ responder = [t \in Responders |-> [pc |-> "idle", out |-> None]]
    /\ replies = [r \in Requests |-> <<>>]
    /\ published = [r \in Requests |-> <<>>]

-----------------------------------------------------------------------------
(* The finite cache of outcomes.                                           *)

Known(r) == \E i \in DOMAIN outcomes : outcomes[i].r = r
StateOf(r) == IF Known(r) THEN (CHOOSE o \in ToSet(outcomes) : o.r = r).state ELSE None

\* _get_outcome: reading an outcome makes it the most recently used.
Touched(r) ==
    IF Known(r)
    THEN Append(SelectSeq(outcomes, LAMBDA o : o.r # r), [r |-> r, state |-> StateOf(r)])
    ELSE outcomes

\* _remember_outcome: the request is no longer pending, the oldest outcomes make room, and
\* an answered request that is forgotten before it was resolved is published as stale.
Remember(cache, r, state) ==
    LET all == Append(SelectSeq(cache, LAMBDA o : o.r # r), [r |-> r, state |-> state])
        excess == IF Len(all) > CacheLimit THEN Len(all) - CacheLimit ELSE 0 IN
    [kept |-> SubSeq(all, excess + 1, Len(all)),
     lost |-> {all[i].r : i \in {j \in 1..excess : all[j].state = "responded"}}]

Publish(events, rs, kind) ==
    [r \in Requests |-> IF r \in rs THEN Append(events[r], kind) ELSE events[r]]

\* r ends as state and says so with the event of that kind (None says nothing); h holds
\* the handles before and after.
Ended(h, r, state, kind) ==
    LET m == Remember(h.outcomes, r, state)
        p == Publish(h.published, m.lost, "retention") IN
    [pending |-> h.pending \ {r}, outcomes |-> m.kept,
     published |-> IF kind = None THEN p ELSE Publish(p, {r}, kind)]

Handles == [pending |-> pending, outcomes |-> outcomes, published |-> published]

SetHandles(h) ==
    pending' = h.pending /\ outcomes' = h.outcomes /\ published' = h.published

EndRequest(r, state, kind) == SetHandles(Ended(Handles, r, state, kind))

-----------------------------------------------------------------------------
(* The native side and the lane.                                           *)

\* _receive_loop and _enqueue_dispatch_message: a message is admitted to the lane, or
\* overflows it and the connection is reset.
Admit(m) ==
    IF Len(lane) < LaneSize
    THEN lane' = Append(lane, m) /\ UNCHANGED <<up, resetting, handling>>
    ELSE lane' = <<>> /\ handling' = Quiet /\ up' = FALSE /\ resetting' = TRUE

NativeAsks(r) ==
    /\ up /\ native[r] = "unsent"
    /\ native' = [native EXCEPT ![r] = "asked"]
    /\ cameOn' = [cameOn EXCEPT ![r] = epoch]
    /\ Admit([r |-> r, kind |-> "open"])
    /\ UNCHANGED <<epoch, pending, outcomes, responder, replies, published>>

\* The native side settles a request of this connection, answered by us or by somebody else,
\* and notifies it on the same lane (serverRequest/resolved).
NativeResolves(r) ==
    /\ up /\ native[r] \in {"asked", "answered"} /\ cameOn[r] = epoch
    /\ native' = [native EXCEPT ![r] = "resolved"]
    /\ Admit([r |-> r, kind |-> "resolved"])
    /\ UNCHANGED <<epoch, cameOn, pending, outcomes, responder, replies, published>>

\* The connection fails: reset stops the dispatcher wherever it is and drops the lane.
ConnectionLost ==
    /\ up
    /\ up' = FALSE /\ resetting' = TRUE
    /\ lane' = <<>> /\ handling' = Quiet
    /\ UNCHANGED <<epoch, native, cameOn, pending, outcomes, responder, replies, published>>

\* handle_connection_reset: what is pending on the lost connection, or answered and not yet
\* resolved, is stale.
StaleOnes ==
    SetToSeq({r \in pending : cameOn[r] = epoch})
        \o SetToSeq({r \in Requests : cameOn[r] = epoch /\ StateOf(r) = "responded"})

\* Mutant: the handles are dropped and nobody is told.
ResetDrops ==
    /\ resetting
    /\ resetting' = FALSE
    /\ pending' = {r \in pending : cameOn[r] # epoch}
    /\ UNCHANGED <<epoch, up, native, cameOn, lane, handling, responder, replies, outcomes,
                   published>>

ResetHandlers ==
    /\ resetting
    /\ resetting' = FALSE
    /\ SetHandles(FoldLeft(LAMBDA h, r : Ended(h, r, "stale", "stale"), Handles, StaleOnes))
    /\ UNCHANGED <<epoch, up, native, cameOn, lane, handling, responder, replies>>

Reconnect ==
    /\ ~up /\ ~resetting /\ epoch < MaxEpoch
    /\ epoch' = epoch + 1 /\ up' = TRUE
    /\ UNCHANGED <<resetting, native, cameOn, lane, handling, pending, outcomes, responder,
                   replies, published>>

-----------------------------------------------------------------------------
(* The dispatcher: handle_server_request and handle_resolution_notification. *)

\* _server_request_dispatch_loop takes the next message; an invalid or unknown request is
\* rejected at once, everything else first has its Thread scope verified.
Take ==
    /\ up /\ handling = Quiet /\ lane # <<>>
    /\ LET m == Head(lane)
           bad == m.kind = "open" /\ Shape(m.r) # "ok" IN
       handling' = [r |-> m.r, kind |-> m.kind,
                    stage |-> IF bad THEN "reject" ELSE "scope"]
    /\ lane' = Tail(lane)
    /\ UNCHANGED <<net, native, cameOn, pending, outcomes, responder, replies, published>>

\* The scope of the Thread cannot be verified: a request is rejected; of a resolution only
\* the observation gap remains.
ScopeFails ==
    /\ up /\ handling.stage = "scope"
    /\ handling' = IF handling.kind = "open" THEN [handling EXCEPT !.stage = "reject"]
                   ELSE Quiet
    /\ UNCHANGED <<net, native, cameOn, lane, pending, outcomes, responder, replies,
                   published>>

\* _reject: the error reply goes to the connection the request came from.
Reject ==
    /\ up /\ handling.stage = "reject"
    /\ replies' = [replies EXCEPT ![handling.r] = Append(@, <<epoch, "error">>)]
    /\ native' = [native EXCEPT ![handling.r] = IF @ = "asked" THEN "answered" ELSE @]
    /\ handling' = Quiet
    /\ UNCHANGED <<net, cameOn, lane, pending, outcomes, responder, published>>

\* The request is kept pending and published.
Opens ==
    /\ up /\ handling.stage = "scope" /\ handling.kind = "open"
    /\ pending' = pending \cup {handling.r}
    /\ outcomes' = SelectSeq(outcomes, LAMBDA o : o.r # handling.r)
    /\ published' = Publish(published, {handling.r}, "opened")
    /\ handling' = Quiet
    /\ UNCHANGED <<net, native, cameOn, lane, responder, replies>>

\* The resolution ends a request that is pending or answered; of another it is only passed
\* on.
Resolves ==
    /\ up /\ handling.stage = "scope" /\ handling.kind = "resolved"
    /\ IF handling.r \in pending \/ StateOf(handling.r) = "responded"
       THEN EndRequest(handling.r, "resolved", "resolved")
       ELSE /\ published' = Publish(published, {handling.r}, "resolved")
            /\ UNCHANGED <<pending, outcomes>>
    /\ handling' = Quiet
    /\ UNCHANGED <<net, native, cameOn, lane, responder, replies>>

-----------------------------------------------------------------------------
(* respond().                                                              *)

Says(t, pc, out) == responder' = [responder EXCEPT ![t] = [pc |-> pc, out |-> out]]

\* The outcome and the pending handle are looked up; then the Thread scope is verified.
Respond(t) ==
    LET r == Target(t) IN
    /\ responder[t].pc = "idle" /\ native[r] # "unsent"
    /\ \A u \in Responders : Target(u) = r => responder[u].pc \in {"idle", "done"}
    /\ outcomes' = Touched(r)
    /\ CASE StateOf(r) = "responded" -> Says(t, "done", "duplicate")
         [] StateOf(r) = "resolved" -> Says(t, "done", "resolved")
         [] StateOf(r) = "stale" \/ (~Known(r) /\ r \notin pending) ->
              Says(t, "done", "stale")
         [] OTHER -> Says(t, "scope", None)
    /\ UNCHANGED <<net, native, cameOn, lane, handling, pending, replies, published>>

RespondScopeFails(t) ==
    /\ responder[t].pc = "scope"
    /\ Says(t, "done", "failed")
    /\ UNCHANGED <<net, native, cameOn, lane, handling, pending, outcomes, replies,
                   published>>

\* The connection has changed: the handle is stale.  Otherwise the reply is under way.
RespondChecks(t) ==
    LET r == Target(t) IN
    /\ responder[t].pc = "scope"
    /\ IF epoch # cameOn[r]
       THEN EndRequest(r, "stale", "stale") /\ Says(t, "done", "stale")
       ELSE Says(t, "reply", None) /\ UNCHANGED <<pending, outcomes, published>>
    /\ UNCHANGED <<net, native, cameOn, lane, handling, replies>>

\* reply_to_transport_request waits for a reset and a new connection; then the epoch it was
\* given must be the current one, or the handle is stale.
RespondSends(t) ==
    LET r == Target(t) IN
    /\ responder[t].pc = "reply" /\ up
    /\ IF epoch = cameOn[r]
       THEN /\ replies' = [replies EXCEPT ![r] = Append(@, <<epoch, "answer">>)]
            /\ native' = [native EXCEPT ![r] = IF @ = "asked" THEN "answered" ELSE @]
            /\ Says(t, "sent", None)
            /\ UNCHANGED <<pending, outcomes, published>>
       ELSE /\ EndRequest(r, "stale", "stale") /\ Says(t, "done", "stale")
            /\ UNCHANGED <<replies, native>>
    /\ UNCHANGED <<net, cameOn, lane, handling>>

\* The client cannot connect any more, and the reply failed on the epoch it was meant for.
RespondFails(t) ==
    /\ responder[t].pc = "reply" /\ ~up /\ ~resetting
    /\ Says(t, "done", "failed")
    /\ UNCHANGED <<net, native, cameOn, lane, handling, pending, outcomes, replies,
                   published>>

\* The reply is out.  Whatever ended the request meanwhile stands.
RespondReturns(t) ==
    LET r == Target(t) IN
    /\ responder[t].pc = "sent"
    /\ Says(t, "done", "responded")
    /\ IF Known(r)
       THEN outcomes' = Touched(r) /\ UNCHANGED <<pending, published>>
       ELSE EndRequest(r, "responded", None)
    /\ UNCHANGED <<net, native, cameOn, lane, handling, replies>>

Dispatcher == Take \/ ScopeFails \/ Reject \/ Opens \/ Resolves
ResponderStep(t) ==
    \/ RespondScopeFails(t) \/ RespondChecks(t) \/ RespondSends(t) \/ RespondFails(t)
    \/ RespondReturns(t)

Next ==
    \/ \E r \in Requests : NativeAsks(r) \/ NativeResolves(r)
    \/ ConnectionLost \/ ResetHandlers \/ Reconnect
    \/ Dispatcher
    \/ \E t \in Responders : Respond(t) \/ ResponderStep(t)

Spec == Init /\ [][Next]_vars

-----------------------------------------------------------------------------
(* Properties.                                                             *)

States == {"responded", "resolved", "stale"}

\* The types of the runtime's state; the cache never exceeds its limit.
TypeOK ==
    /\ epoch \in 1..MaxEpoch /\ {up, resetting} \subseteq BOOLEAN
    /\ native \in [Requests -> {"unsent", "asked", "answered", "resolved"}]
    /\ cameOn \in [Requests -> 0..MaxEpoch]
    /\ Len(lane) <= LaneSize /\ Len(outcomes) <= CacheLimit
    /\ pending \subseteq Requests
    /\ \A o \in ToSet(outcomes) : o.r \in Requests /\ o.state \in States
    /\ \A t \in Responders :
         responder[t].out \in {None, "duplicate", "resolved", "stale", "failed", "responded"}

\* A native request gets one reply at most, on the connection it was asked on and on no
\* later one, whether it is answered, rejected or caught by a reset
\* (reply_to_transport_request's expected_connection_epoch).
AnsweredOnceOnItsConnection ==
    \A r \in Requests :
        /\ Len(replies[r]) <= 1
        /\ \A i \in DOMAIN replies[r] : replies[r][i][1] = cameOn[r]

\* A request that was published as opened is not forgotten: it is pending, or answered and
\* still remembered, or its end has been published, whatever the cache evicted.
NothingForgotten ==
    \A r \in Requests :
        "opened" \in ToSet(published[r]) =>
            \/ r \in pending \/ StateOf(r) = "responded"
            \/ {"resolved", "stale", "retention"} \cap ToSet(published[r]) # {}

\* Once a reset is over nothing of the lost connection can be answered any more: no handle
\* of an earlier epoch is pending, and none waits for a resolution that cannot come.
NoHandleSurvivesReset ==
    ~resetting => \A r \in Requests :
        r \in pending \/ StateOf(r) = "responded" => up /\ cameOn[r] = epoch

\* What the native side settled is not published as open afterwards.
OpenedComesFirst ==
    \A r \in Requests : \A i \in DOMAIN published[r] :
        published[r][i] = "opened" => i = 1

=============================================================================

------------------------- MODULE RequestCorrelation -------------------------
(***************************************************************************)
(* Interactive requests between an Application and the Conversations that  *)
(* observe its Thread: gateway/projection/request_correlation.py and the   *)
(* request deliveries of gateway/projection/observation.py.                *)
(*                                                                         *)
(* A REQUEST_OPENED event schedules one delivery task per active route,    *)
(* under a shared capacity.  A task publishes the prompt and, once the     *)
(* Channel accepted it, writes the durable row that lets the Conversation  *)
(* answer.  Responses wait for a publication in progress, are serialised   *)
(* per request, and the Application decides who was first.  Resolution     *)
(* events, event gaps and restarts move the rows of a request on.          *)
(*                                                                         *)
(* One Thread is modelled, with one route per Conversation.  Outbound      *)
(* delivery is DeliveryCoordination's; here it is what its caller sees:    *)
(* accepted, retryable, refused, or already in flight.                     *)
(***************************************************************************)
EXTENDS Integers, Sequences, FiniteSets, TLC

CONSTANTS
    Requests, Convs,
    Users,          \* one response operation each
    Asked, From,    \* the request a user answers, and from which Conversation
    Capacity,       \* request_delivery_max_pending
    Expiring,       \* requests with an expires_at
    Snapshot,       \* pending_request_snapshot is NATIVE
    MaxCrashes, MaxGaps, MaxMoves

CorrelationAssumption ==
    /\ Asked \in [Users -> Requests] /\ From \in [Users -> Convs]
    /\ Capacity \in Nat \ {0} /\ Expiring \subseteq Requests
    /\ Snapshot \in BOOLEAN /\ {MaxCrashes, MaxGaps, MaxMoves} \subseteq Nat
    /\ "none" \notin Requests

VARIABLES
    native,     \* the Application's own state of each request
    accepted,   \* the user whose response the Application took
    repeated,   \* a response reached the Application after it had taken one
    events,     \* observation queue of the Thread's worker
    closing,    \* the resolution the worker has cancelled tasks for
    closed,     \* requests whose resolution the worker has applied
    jobs,       \* deliver_request_to_routes calls of the worker and of recovery
    tasks,      \* _request_retry_tasks
    sent,       \* the outbound claim of each prompt
    rows,       \* RequestRouteCorrelation per request and Conversation
    active, barrier, blocked, retiring,   \* routes
    recon,      \* the reconciliation in progress
    pc, verdict, saw,                     \* users
    expired, faults

taskVars == <<tasks, sent>>
routeVars == <<active, barrier, blocked, retiring>>
userVars == <<pc, verdict, saw>>
nativeVars == <<native, accepted, repeated>>
vars == <<native, accepted, repeated, events, closing, closed, jobs, tasks, sent, rows,
          active, barrier, blocked, retiring, recon, pc, verdict, saw, expired, faults>>

None == "none"
NoJob == [r |-> None, routes |-> {}]
NoRecon == [stage |-> "idle", by |-> None, open |-> {}, pending |-> {}, listed |-> {}]
RowStates == {"open", "responded", "stale", "resolved"}
Precedence == [open |-> 0, responded |-> 1, stale |-> 2, resolved |-> 3]

RowsOf(r) == {c \in Convs : rows[r][c] # None}

Init ==
    /\ native = [r \in Requests |-> "unborn"]
    /\ accepted = [r \in Requests |-> None] /\ repeated = {}
    /\ events = <<>> /\ closing = NoJob /\ closed = {}
    /\ jobs = [w \in {"worker", "recovery"} |-> NoJob]
    /\ tasks = [r \in Requests |-> [c \in Convs |-> None]]
    /\ sent = [r \in Requests |-> [c \in Convs |-> None]]
    /\ rows = [r \in Requests |-> [c \in Convs |-> None]]
    /\ active = Convs /\ barrier = {} /\ blocked = {} /\ retiring = [c \in Convs |-> None]
    /\ recon = NoRecon
    /\ pc = [u \in Users |-> "idle"] /\ verdict = [u \in Users |-> None] /\ saw = {}
    /\ expired = {} /\ faults = [crashes |-> 0, gaps |-> 0, moves |-> 0]

-----------------------------------------------------------------------------
(* The store: put and transition are each one transaction.                  *)

\* _merge_correlation: a new row takes the furthest terminal state of the request's
\* other rows; an existing terminal row is kept.
Merge(existing, others) ==
    LET terminal == others \ {"open", None} IN
    CASE existing = None /\ terminal # {} ->
            CHOOSE s \in terminal : \A o \in terminal : Precedence[o] <= Precedence[s]
      [] existing \in RowStates \ {"open"} -> existing
      [] OTHER -> "open"

\* put_request_correlation
Put(r, c) ==
    rows' = [rows EXCEPT ![r][c] = Merge(@, {rows[r][o] : o \in Convs})]

\* _transition_correlations: the compare-and-set over every row of the request.
Transitions(r, expected, state) ==
    /\ RowsOf(r) # {}
    /\ \A c \in RowsOf(r) : rows[r][c] \in expected /\ Precedence[rows[r][c]] <= Precedence[state]

\* transition_request_correlations, with KeyError and conflict leaving the rows alone
Transition(r, expected, state) ==
    rows' = IF Transitions(r, expected, state)
            THEN [rows EXCEPT ![r] = [c \in Convs |-> IF @[c] = None THEN None ELSE state]]
            ELSE rows

-----------------------------------------------------------------------------
(* The Application.                                                         *)

NativeOpens(r) ==
    /\ native[r] = "unborn"
    /\ native' = [native EXCEPT ![r] = "pending"]
    /\ events' = Append(events, [type |-> "opened", r |-> r, as |-> "open"])
    /\ UNCHANGED <<accepted, repeated, closing, closed, jobs, taskVars, rows, routeVars, recon,
                   userVars, expired, faults>>

\* The Application resolves a request, answered through the Gateway or elsewhere, or drops it.
NativeEnds(r) ==
    /\ \E as \in {"resolved", "stale"} :
        /\ native[r] = "pending" \/ (native[r] = "answered" /\ as = "resolved")
        /\ native' = [native EXCEPT ![r] = as]
        /\ events' = Append(events, [type |-> "ended", r |-> r, as |-> as])
    /\ UNCHANGED <<accepted, repeated, closing, closed, jobs, taskVars, rows, routeVars, recon,
                   userVars, expired, faults>>

Expire(r) ==
    /\ r \in Expiring \ expired /\ native[r] # "unborn"
    /\ expired' = expired \cup {r}
    /\ UNCHANGED <<nativeVars, events, closing, closed, jobs, taskVars, rows, routeVars, recon,
                   userVars, faults>>

-----------------------------------------------------------------------------
(* Scheduling deliveries.                                                   *)

Running == {rc \in Requests \X Convs : tasks[rc[1]][rc[2]] # None}

\* deliver_request_to_routes begins: routes that already have a task are left alone
Job(r) == [r |-> r, routes |-> {c \in active : tasks[r][c] = None}]

Unscheduled(w) == {c \in jobs[w].routes : tasks[jobs[w].r][c] = None}

\* deliver_request_to_routes and _schedule_request_delivery: one more task when there is
\* capacity; without capacity the caller waits for _request_capacity_changed.
Schedule(w) ==
    /\ jobs[w] # NoJob /\ Unscheduled(w) # {}
    /\ Cardinality(Running) < Capacity
    /\ \E c \in Unscheduled(w) :
        /\ tasks' = [tasks EXCEPT ![jobs[w].r][c] = "ready"]
        /\ jobs' = [jobs EXCEPT ![w].routes = @ \ {c}]

ScheduleStep(w) ==
    /\ Schedule(w)
    /\ UNCHANGED <<nativeVars, events, closing, closed, sent, rows, routeVars, recon, userVars,
                   expired, faults>>

Scheduled(w) ==
    /\ jobs[w] # NoJob /\ Unscheduled(w) = {}
    /\ jobs' = [jobs EXCEPT ![w] = NoJob]
    /\ UNCHANGED <<nativeVars, events, closing, closed, taskVars, rows, routeVars, recon, userVars,
                   expired, faults>>

-----------------------------------------------------------------------------
(* The Thread's worker: handle_event.                                       *)

WorkerFree == jobs["worker"] = NoJob /\ closing = NoJob /\ recon.by # "gap"

TakeOpened ==
    /\ WorkerFree /\ events # <<>> /\ Head(events).type = "opened"
    /\ jobs' = [jobs EXCEPT !["worker"] = Job(Head(events).r)]
    /\ events' = Tail(events)
    /\ UNCHANGED <<nativeVars, closing, closed, taskVars, rows, routeVars, recon, userVars,
                   expired, faults>>

\* cancel_request_deliveries: cancels and awaits the request's tasks.
CancelDeliveries(r) == tasks' = [tasks EXCEPT ![r] = [c \in Convs |-> None]]

TakeEnded ==
    /\ WorkerFree /\ events # <<>> /\ Head(events).type = "ended"
    /\ CancelDeliveries(Head(events).r)
    /\ closing' = Head(events)
    /\ events' = Tail(events)
    /\ UNCHANGED <<nativeVars, closed, jobs, sent, rows, routeVars, recon, userVars, expired,
                   faults>>

\* handle_event after the cancellation: RESOLVED also supersedes STALE.
ApplyEnded ==
    /\ closing # NoJob
    /\ Transition(closing.r,
                  {"open", "responded"} \cup (IF closing.as = "resolved" THEN {"stale"} ELSE {}),
                  closing.as)
    /\ closed' = closed \cup {closing.r}
    /\ closing' = NoJob
    /\ UNCHANGED <<nativeVars, events, jobs, taskVars, routeVars, recon, userVars, expired,
                   faults>>

-----------------------------------------------------------------------------
(* Delivery tasks: _run_request_delivery around deliver_request_once.       *)

\* _publications holds an entry from the route lock to the end of the publication.
InPublication(r, c) == tasks[r][c] \in {"publishing", "shown", "accepted"}

Task(r, c, to) == tasks' = [tasks EXCEPT ![r][c] = to]

\* The loop's head, the bootstrap barrier and the route lock; then a blocked route,
\* expiry or an inactive route ends the task.
BeginPublication(r, c) ==
    /\ tasks[r][c] = "ready"
    /\ r \notin expired => c \notin barrier /\ \A o \in Requests : ~InPublication(o, c)
    /\ Task(r, c, IF c \in blocked \/ r \in expired \/ c \notin active THEN None
                  ELSE "publishing")
    /\ UNCHANGED <<nativeVars, events, closing, closed, jobs, sent, rows, routeVars, recon,
                   userVars, expired, faults>>

\* The Channel shows the prompt: its outbound claim is in flight.
Shows(r, c) ==
    /\ tasks[r][c] = "publishing" /\ sent[r][c] = None
    /\ sent' = [sent EXCEPT ![r][c] = "inflight"]
    /\ tasks' = [tasks EXCEPT ![r][c] = "shown"]
    /\ UNCHANGED <<nativeVars, events, closing, closed, jobs, rows, routeVars, recon, userVars,
                   expired, faults>>

\* The delivery is accepted now, or its claim was completed before.
Accepts(r, c) ==
    /\ tasks[r][c] = "shown" \/ (tasks[r][c] = "publishing" /\ sent[r][c] = "done")
    /\ sent' = [sent EXCEPT ![r][c] = "done"]
    /\ Task(r, c, "accepted")
    /\ UNCHANGED <<nativeVars, events, closing, closed, jobs, rows, routeVars, recon, userVars,
                   expired, faults>>

\* RetryableDeliveryError: the loop goes round after a backoff.
Retries(r, c) ==
    /\ tasks[r][c] = "publishing" /\ sent[r][c] = None
    /\ Task(r, c, "ready")
    /\ UNCHANGED <<nativeVars, events, closing, closed, jobs, sent, rows, routeVars, recon,
                   userVars, expired, faults>>

\* Any other failure, a delivery already in flight among them, blocks the route.
Fails(r, c) ==
    /\ tasks[r][c] = "publishing" /\ sent[r][c] # "done"
    /\ blocked' = blocked \cup {c}
    /\ Task(r, c, None)
    /\ UNCHANGED <<nativeVars, events, closing, closed, jobs, sent, rows, active, barrier,
                   retiring, recon, userVars, expired, faults>>

\* asyncio.timeout at the expiry of the request.
DeliveryTimesOut(r, c) ==
    /\ tasks[r][c] \in {"publishing", "shown"} /\ r \in expired
    /\ Task(r, c, None)
    /\ UNCHANGED <<nativeVars, events, closing, closed, jobs, sent, rows, routeVars, recon,
                   userVars, expired, faults>>

\* _publish_request after the delivery: the row is written unless the request expired or
\* the route is gone, and the publication completes.
Record(r, c) ==
    /\ tasks[r][c] = "accepted"
    /\ IF r \in expired \/ c \notin active THEN UNCHANGED rows ELSE Put(r, c)
    /\ Task(r, c, None)

RecordStep(r, c) ==
    /\ Record(r, c)
    /\ UNCHANGED <<nativeVars, events, closing, closed, jobs, sent, routeVars, recon, userVars,
                   expired, faults>>

-----------------------------------------------------------------------------
(* Responses.                                                               *)

\* _await_publication: only without a durable row of the Conversation.
Awaits(r, c) == InPublication(r, c) /\ rows[r][c] = None

User(u, to) == pc' = [pc EXCEPT ![u] = to]

End(u, as) == /\ pc' = [pc EXCEPT ![u] = "done"]
              /\ verdict' = [verdict EXCEPT ![u] = as]

RestOfUser == <<events, closing, closed, jobs, taskVars, routeVars, recon, expired, faults>>

\* _response_fence begins; during start, inbound messages wait for the reconciliation.
Answer(u) ==
    /\ pc[u] = "idle" /\ native[Asked[u]] # "unborn" /\ recon.by # "restart"
    /\ User(u, IF Awaits(Asked[u], From[u]) THEN "awaiting" ELSE "queued")
    /\ saw' = IF sent[Asked[u]][From[u]] = None THEN saw ELSE saw \cup {u}
    /\ UNCHANGED <<nativeVars, verdict, rows, RestOfUser>>

PublicationEnds(u) ==
    /\ pc[u] = "awaiting" /\ ~InPublication(Asked[u], From[u])
    /\ User(u, "queued")
    /\ UNCHANGED <<nativeVars, verdict, saw, rows, RestOfUser>>

\* The wait is bounded: REQUEST_DELIVERY_PENDING.
PublicationPends(u) ==
    /\ pc[u] = "awaiting" /\ InPublication(Asked[u], From[u])
    /\ End(u, "pending")
    /\ UNCHANGED <<nativeVars, saw, rows, RestOfUser>>

\* Mutant: contenders are not serialised.
Unlocked(u) == TRUE

\* _request_locks: nobody else holds the request.
HoldsLock(u) ==
    \A o \in Users \ {u} : Asked[o] = Asked[u] => pc[o] \notin {"expiring", "native", "answered",
                                                                "refused"}

\* _authorized_response_destination
Authorize(u) ==
    LET r == Asked[u]
        row == rows[r][From[u]] IN
    CASE RowsOf(r) = {} -> End(u, "unknown")
      [] RowsOf(r) # {} /\ row = None -> End(u, "unauthorized")
      [] row \in {"responded", "resolved", "stale"} -> End(u, row)
      [] row = "open" /\ r \in expired -> User(u, "expiring") /\ UNCHANGED verdict
      [] OTHER -> User(u, "native") /\ UNCHANGED verdict

AuthorizeStep(u) ==
    /\ pc[u] = "queued" /\ HoldsLock(u)
    /\ Authorize(u)
    /\ UNCHANGED <<nativeVars, saw, rows, RestOfUser>>

\* The expired request is made stale before the response is refused.
ExpireRows(u) ==
    /\ pc[u] = "expiring"
    /\ Transition(Asked[u], {"open"}, "stale")
    /\ End(u, "stale")
    /\ UNCHANGED <<nativeVars, saw, RestOfUser>>

\* _execute_application(RespondRequest): the Application decides, or fails.
Respond(u) ==
    LET r == Asked[u] IN
    /\ pc[u] = "native"
    /\ IF native[r] = "pending"
       THEN \/ /\ native' = [native EXCEPT ![r] = "answered"]
               /\ accepted' = [accepted EXCEPT ![r] = u]
               /\ User(u, "answered")
            \/ User(u, "refused") /\ UNCHANGED <<native, accepted>>
       ELSE User(u, "refused") /\ UNCHANGED <<native, accepted>>
    /\ repeated' = IF native[r] = "answered" THEN repeated \cup {r} ELSE repeated
    /\ UNCHANGED <<verdict, saw, rows, RestOfUser>>

\* _converge_native_request_failure: what the Application said of the request. A failure
\* that names no terminal state leaves the rows.
Converge(u) ==
    LET r == Asked[u]
        state == CASE native[r] = "answered" -> "responded"
                   [] native[r] \in {"resolved", "stale"} -> native[r]
                   [] OTHER -> None IN
    /\ pc[u] = "refused"
    /\ IF state = None THEN UNCHANGED rows ELSE Transition(r, {"open"}, state)
    /\ End(u, "failed")
    /\ UNCHANGED <<nativeVars, saw, RestOfUser>>

\* _respond_to_request after success: the compare-and-set from OPEN.
RecordResponse(u) == Transition(Asked[u], {"open"}, "responded")

\* A conflict is tolerated when every row has moved to RESPONDED or RESOLVED; a stale row
\* or no row at all raises.
Responded(u) ==
    LET r == Asked[u] IN
    /\ pc[u] = "answered"
    /\ RecordResponse(u)
    /\ End(u, IF RowsOf(r) # {} /\ \A c \in RowsOf(r) : rows[r][c] # "stale"
              THEN "routed" ELSE "raised")
    /\ UNCHANGED <<nativeVars, saw, RestOfUser>>

-----------------------------------------------------------------------------
(* Routes: the remembered recipient moves on, and may come back.            *)

\* _remember_route: the route row goes first, ...
Retire(c) ==
    /\ c \in active /\ faults.moves < MaxMoves
    /\ active' = active \ {c}
    /\ retiring' = [retiring EXCEPT ![c] = "delete"]
    /\ faults' = [faults EXCEPT !.moves = @ + 1]
    /\ UNCHANGED <<nativeVars, events, closing, closed, jobs, taskVars, rows, barrier, blocked,
                   recon, userVars, expired>>

\* ... then delete_destination removes its rows, ...
DeleteDestination(c) ==
    /\ retiring[c] = "delete"
    /\ rows' = [r \in Requests |-> [rows[r] EXCEPT ![c] = None]]
    /\ retiring' = [retiring EXCEPT ![c] = "forget"]
    /\ UNCHANGED <<nativeVars, events, closing, closed, jobs, taskVars, active, barrier, blocked,
                   recon, userVars, expired, faults>>

\* ... and forget_route_ids cancels its tasks and clears its barrier, lock and block.
ForgetRoute(c) ==
    /\ retiring[c] = "forget"
    /\ tasks' = [r \in Requests |-> [tasks[r] EXCEPT ![c] = None]]
    /\ barrier' = barrier \ {c} /\ blocked' = blocked \ {c}
    /\ retiring' = [retiring EXCEPT ![c] = None]
    /\ UNCHANGED <<nativeVars, events, closing, closed, jobs, sent, rows, active, recon,
                   userVars, expired, faults>>

\* A route comes back behind a bootstrap barrier, which its baseline opens.
Readd(c) ==
    /\ c \notin active /\ retiring[c] = None
    /\ active' = active \cup {c} /\ barrier' = barrier \cup {c}
    /\ UNCHANGED <<nativeVars, events, closing, closed, jobs, taskVars, rows, blocked, retiring,
                   recon, userVars, expired, faults>>

OpenBarrier(c) ==
    /\ c \in barrier /\ recon.stage # "start"
    /\ barrier' = barrier \ {c}
    /\ UNCHANGED <<nativeVars, events, closing, closed, jobs, taskVars, rows, active, blocked,
                   retiring, recon, userVars, expired, faults>>

-----------------------------------------------------------------------------
(* Restart and event gap.                                                   *)

OpenRefs == {r \in Requests : \E c \in Convs : rows[r][c] = "open"}

\* The process dies; on the way up cleanup_correlations drops rows past retention,
\* open_request_refs is read and every route is put behind its barrier.
Crash ==
    /\ faults.crashes < MaxCrashes
    /\ faults' = [faults EXCEPT !.crashes = @ + 1]
    /\ \E old \in SUBSET {r \in Requests : RowsOf(r) # {}} :
        /\ rows' = [r \in Requests |-> IF r \in old THEN [c \in Convs |-> None] ELSE rows[r]]
        /\ recon' = [NoRecon EXCEPT !.stage = "start", !.by = "restart", !.open = OpenRefs \ old]
    /\ events' = <<>> /\ closing' = NoJob
    /\ jobs' = [w \in {"worker", "recovery"} |-> NoJob]
    /\ tasks' = [r \in Requests |-> [c \in Convs |-> None]]
    /\ barrier' = active /\ blocked' = {} /\ retiring' = [c \in Convs |-> None]
    /\ pc' = [u \in Users |-> IF pc[u] = "idle" THEN "idle" ELSE "done"]
    /\ verdict' = [u \in Users |-> IF pc[u] \in {"idle", "done"} THEN verdict[u] ELSE "lost"]
    /\ UNCHANGED <<nativeVars, closed, sent, active, saw, expired>>

\* The worker's events are lost; recovery reads the open rows of the Thread.
\* Without a native snapshot the gap is reported and the rows are left.
Gap ==
    /\ faults.gaps < MaxGaps /\ WorkerFree /\ recon.stage = "idle"
    /\ faults' = [faults EXCEPT !.gaps = @ + 1]
    /\ events' = <<>>
    /\ recon' = IF Snapshot
                THEN [NoRecon EXCEPT !.stage = "start", !.by = "gap", !.open = OpenRefs]
                ELSE NoRecon
    /\ UNCHANGED <<nativeVars, closing, closed, jobs, taskVars, rows, routeVars, userVars, expired>>

\* list_pending_requests, once deliveries are ready; without a snapshot there is no list.
ListPending ==
    /\ recon.stage = "start"
    /\ LET pending == IF Snapshot THEN {r \in Requests : native[r] = "pending"} ELSE {} IN
       recon' = [recon EXCEPT !.stage = "deliver", !.pending = pending, !.listed = pending]
    /\ UNCHANGED <<nativeVars, events, closing, closed, jobs, taskVars, rows, routeVars, userVars,
                   expired, faults>>

\* Each pending request goes to the routes that are active now.
Redeliver ==
    /\ recon.stage = "deliver" /\ jobs["recovery"] = NoJob
    /\ \E r \in recon.pending :
        /\ jobs' = [jobs EXCEPT !["recovery"] = Job(r)]
        /\ recon' = [recon EXCEPT !.pending = @ \ {r}]
    /\ UNCHANGED <<nativeVars, events, closing, closed, taskVars, rows, routeVars, userVars,
                   expired, faults>>

\* restart_open_refs - pending_refs
Missing == recon.open \ recon.listed

\* _mark_stale for the open requests the Application no longer lists.
MarkStale ==
    /\ recon.stage = "deliver" /\ recon.pending = {} /\ jobs["recovery"] = NoJob
    /\ IF Missing = {}
       THEN recon' = NoRecon /\ UNCHANGED rows
       ELSE \E r \in Missing :
              /\ Transition(r, {"open"}, "stale")
              /\ recon' = [recon EXCEPT !.open = @ \ {r}]
    /\ UNCHANGED <<nativeVars, events, closing, closed, jobs, taskVars, routeVars, userVars,
                   expired, faults>>

-----------------------------------------------------------------------------
TaskStep(r, c) ==
    \/ BeginPublication(r, c) \/ Shows(r, c) \/ Accepts(r, c) \/ Retries(r, c) \/ Fails(r, c)
    \/ DeliveryTimesOut(r, c) \/ RecordStep(r, c)

UserStep(u) ==
    \/ PublicationEnds(u) \/ PublicationPends(u) \/ AuthorizeStep(u) \/ ExpireRows(u)
    \/ Respond(u) \/ Converge(u) \/ Responded(u)

RouteStep(c) == Retire(c) \/ DeleteDestination(c) \/ ForgetRoute(c) \/ Readd(c) \/ OpenBarrier(c)

Next ==
    \/ \E r \in Requests : NativeOpens(r) \/ NativeEnds(r) \/ Expire(r)
    \/ \E w \in {"worker", "recovery"} : ScheduleStep(w) \/ Scheduled(w)
    \/ TakeOpened \/ TakeEnded \/ ApplyEnded
    \/ \E r \in Requests, c \in Convs : TaskStep(r, c)
    \/ \E u \in Users : Answer(u) \/ UserStep(u)
    \/ \E c \in Convs : RouteStep(c)
    \/ Crash \/ Gap \/ ListPending \/ Redeliver \/ MarkStale

Spec == Init /\ [][Next]_vars

-----------------------------------------------------------------------------
(* Properties.                                                              *)

\* Types, and the bound on concurrent deliveries (request_delivery_max_pending), which
\* the worker and recovery share.
TypeOK ==
    /\ native \in [Requests -> {"unborn", "pending", "answered", "resolved", "stale"}]
    /\ rows \in [Requests -> [Convs -> RowStates \cup {None}]]
    /\ tasks \in [Requests -> [Convs -> {None, "ready", "publishing", "shown", "accepted"}]]
    /\ sent \in [Requests -> [Convs -> {None, "inflight", "done"}]]
    /\ pc \in [Users -> {"idle", "awaiting", "queued", "expiring", "native", "answered",
                         "refused", "done"}]
    /\ \A w \in DOMAIN jobs : jobs[w].routes \subseteq Convs
    /\ Cardinality(Running) <= Capacity

\* The rows of one request never disagree: whoever received the prompt, early or late,
\* sees the same request-wide state (_merge_correlation, _transition_correlations).
OneState ==
    \A r \in Requests, c, d \in Convs :
        (rows[r][c] # None /\ rows[r][d] # None) => rows[r][c] = rows[r][d]

\* Only a Conversation to which the prompt was delivered got its response to the
\* Application (_authorized_response_destination and the order in _publish_request).
OnlyRecipientsAnswer ==
    \A r \in Requests : accepted[r] # None => sent[r][From[accepted[r]]] = "done"

\* No response reaches an Application that has already taken one through the Gateway
\* (_request_locks with the RESPONDED row).
TakenOnce == repeated = {}

\* A row never goes back: open, responded, stale, resolved (_transition_correlations).
NeverRegresses ==
    [][\A r \in Requests, c \in Convs :
        (rows[r][c] # None /\ rows'[r][c] # None)
            => Precedence[rows[r][c]] <= Precedence[rows'[r][c]]]_vars

\* Once the worker applied the resolution of a request, no row of it is open: a late
\* delivery cannot create one.
LateIsNeverOpen == \A r \in closed, c \in Convs : rows[r][c] # "open"

\* With a native snapshot, a row is made stale only when the request is over: a restart
\* or a gap never takes a pending request away from those who can answer it.
StaleIsOver ==
    \A r \in Requests, c \in Convs :
        (Snapshot /\ rows[r][c] = "stale") => (native[r] # "pending" \/ r \in expired)

\* The rows of a process that lives on and of routes that stay: neither was lost.
Undisturbed == faults.crashes = 0 /\ faults.moves = 0

\* A native request: its rows agree, only those who were shown it answer, and a restart or
\* a gap takes it from nobody; while no row is lost with its process or its route, it is
\* answered once, and a late delivery never opens it again.
AnsweredOnce ==
    /\ TypeOK /\ OneState /\ OnlyRecipientsAnswer /\ StaleIsOver
    /\ Undisturbed => TakenOnce /\ LateIsNeverOpen

=============================================================================

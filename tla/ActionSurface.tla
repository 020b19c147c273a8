---------------------------- MODULE ActionSurface ----------------------------
(***************************************************************************)
(* The consumer's actions (gateway/actions.py) over the scoped runtime     *)
(* (gateway/controller_input.py): how a call becomes a durable identity, a *)
(* semantic payload and a plan; what is read of the Application before     *)
(* anything happens; and how the Projection lease of a route is settled.   *)
(*                                                                         *)
(* EffectExecution models the executor and the faults of its store. Here a *)
(* store call is one step that succeeds, and what varies is everything the *)
(* executor is handed: the Application's capabilities, its creation        *)
(* profiles and its Projects, Threads and requests change between any two  *)
(* awaits, and the caller may change the values it passed in.              *)
(***************************************************************************)
EXTENDS Integers, Sequences, FiniteSets

CONSTANTS
    Tasks,         \* calls of the API, each made once
    Calls,         \* the calls a consumer makes (see MCGateway)
    Convs,         \* Conversations
    Applications,  \* registered Applications
    ProjectOf,     \* [thread -> its project]
    Fresh,         \* resources the Application may create
    Capabilities,  \* what an Application can support
    Varying,       \* the capabilities that may come and go
    Perishable,    \* the resources others may create and delete
    ProfileIds,    \* creation profiles a caller may name
    Declarations,  \* fingerprints a profile may be declared with
    Contents,      \* values of the mutable content a caller passes
    MaxChanges     \* bound: changes of the outside world

None == "none"

VARIABLES
    caps,       \* the capabilities in the Application's summary
    profiles,   \* [ProfileIds -> declared fingerprint or None]
    exists,     \* Projects, Threads, requests and queued inputs there are
    content,    \* [Tasks -> the value the caller's mutable argument has now]
    changes,    \* changes of the outside world so far
    stopped,    \* the scoped runtime was deactivated
    receipts,   \* [identity -> receipt], only the identities reserved so far
    bindings,   \* [Convs -> binding]
    tasks,      \* [Tasks -> task]
    sent,       \* history: native mutations handed to the Application
    seen,       \* history: [Tasks -> resources there were, and capabilities
                \* that were declared, at some time since the call]
    intent      \* history: [identity -> the profile it was reserved with]

worldVars == <<caps, profiles, exists, content, changes>>
histVars  == <<sent, seen, intent>>
vars == <<worldVars, stopped, receipts, bindings, tasks, histVars>>

-----------------------------------------------------------------------------
(* Outcomes and errors *)

NoValue == [ref |-> None, conv |-> None, gen |-> -1, route |-> None]

Outcome(kind, code, value) == [kind |-> kind, code |-> code, value |-> value]

Succeeded(value) == Outcome("succeeded", None, value)
Failed(code)     == Outcome("failed", code, NoValue)
Partial(v, code) == Outcome("partial", code, v)
Unknown          == Outcome("unknown", "native_outcome_unknown", NoValue)
Raised           == Outcome("raised", None, NoValue)
Pending          == Outcome("pending", None, NoValue)

(* _action_error: the action code of an Application's operation error. *)
ActionError(operationCode) ==
    CASE operationCode \in {"unsupported", "conflict", "capacity_exhausted"} ->
            operationCode
      [] operationCode = "request_delivery_pending" -> "conflict"
      [] OTHER -> "native_rejected"

-----------------------------------------------------------------------------
(* Plans: what each method of the API hands to the executor. *)

Read(res, cap) == [res |-> res, cap |-> cap]

(* _preflight_resource_under_application: the reads that precede an effect
   on a resource, each after the check of the capability to read it. *)
ProjectReads(p) == <<Read(p, "projects.reading")>>

ThreadReads(t) == ProjectReads(ProjectOf[t]) \o <<Read(t, "threads.reading")>>

(* Mutant of IdentityOf: the identity forgets the Conversation. *)
PrincipalIdentity(c, kind) ==
    [principal |-> c.actor, conv |-> None, kind |-> kind, id |-> c.id]

(* _new_conversation_actions and _fingerprint: the durable identity. The
   actions of one Application have no Conversation. *)
IdentityOf(c, kind) ==
    [principal |-> c.actor, conv |-> c.conv, kind |-> kind, id |-> c.id]

Plan(c, kind, category, payload) ==
    [key |-> IdentityOf(c, kind), kind |-> kind, category |-> category,
     payload |-> payload, needs |-> {}, reads |-> <<>>, profile |-> None,
     refusal |-> None, content |-> None, bind |-> <<>>, clear |-> None,
     route |-> None, preflight |-> TRUE]

NativePlan(c, kind, payload, cap, reads) ==
    [Plan(c, kind, "native", payload) EXCEPT !.needs = {cap}, !.reads = reads]

(* _preflight_application_summary: why there is no summary of an Application.
   A deactivated runtime lists none, and that is an adapter failure. *)
SummaryError(app) ==
    IF stopped THEN "adapter_failure"
    ELSE IF app \notin Applications THEN "not_found" ELSE None

(* _resolve_creation_profile: what is declared under the name asked for, or
   why the creation is to be refused. *)
ResolveCreationProfile(app, id) ==
    LET error == IF id = None THEN None
                 ELSE IF SummaryError(app) # None THEN SummaryError(app)
                 ELSE IF profiles[id] = None THEN "unsupported" ELSE None
    IN  [profile |-> IF id = None \/ error # None THEN None ELSE profiles[id],
         refusal |-> IF error = None THEN None ELSE ActionError(error)]

(* _creation_profile_fingerprint: the name asked for and what it stood for. *)
CreationProfileFingerprint(id, profile) == <<id, profile>>

(* _snapshot_content, _snapshot_metadata: what the caller's value is now. *)
SnapshotContent(t) == content[t]

CreateProject(c, t) ==
    NativePlan(c, "project.create", <<c.app, c.ref>>, "projects.creation", <<>>)

DeleteProject(c, t) ==
    NativePlan(c, "project.delete", <<c.app, c.ref>>, "projects.deletion",
               ProjectReads(c.ref))

(* The part create_thread and create_and_bind_thread have in common. *)
ThreadCreation(c, t, plan) ==
    LET resolved == ResolveCreationProfile(c.app, c.profile)
    IN  [plan EXCEPT
            !.payload = <<c.app, c.ref, content[t],
                          CreationProfileFingerprint(c.profile, resolved.profile), c.fg>>,
            !.profile = resolved.profile,
            !.refusal = resolved.refusal,
            !.content = SnapshotContent(t)]

CreateThread(c, t) ==
    ThreadCreation(c, t, NativePlan(c, "thread.create", <<>>,
                                    "threads.creation", ProjectReads(c.ref)))

ActivateNativeThread(c, t) ==
    NativePlan(c, "thread.activate_native", <<c.app, c.ref>>,
               "native_thread_activation", ThreadReads(c.ref))

(* delete_thread: the capability is one mode, archive or delete. *)
DeleteThread(c, t) ==
    NativePlan(c, "thread.delete", <<c.app, c.ref, c.mode>>,
               c.mode, ThreadReads(c.ref))

InterruptTurn(c, t) ==
    NativePlan(c, "turn.interrupt", <<c.app, c.ref>>, "interruption",
               ThreadReads(c.ref))

(* respond_request: the route of the response is authorised in preflight. *)
RespondRequest(c, t) ==
    [NativePlan(c, "request.respond", <<c.app, c.ref, content[t]>>,
                "interactive_requests",
                <<Read(c.ref, "interactive_requests")>>)
        EXCEPT !.content = SnapshotContent(t)]

(* cancel_queued_input reads the input in preflight and no summary. *)
CancelQueuedInput(c, t) ==
    [Plan(c, "queued_input.cancel", "native", <<c.ref>>)
        EXCEPT !.reads = <<Read(c.ref, None)>>]

(* _store_binding: the expected generation is part of the payload. *)
StoreBinding(c, kind, target, payload, reads) ==
    [Plan(c, kind, "store", payload \o <<c.gen>>)
        EXCEPT !.bind = target, !.reads = reads]

SelectApplication(c, t) ==
    StoreBinding(c, "application.select", <<c.app>>, <<c.app>>, <<>>)

SelectProject(c, t) ==
    StoreBinding(c, "conversation.bind_project", <<c.app, c.ref>>,
                 <<c.app, c.ref>>, ProjectReads(c.ref))

BindThread(c, t) ==
    LET plan == StoreBinding(c, "conversation.bind_thread",
                             <<c.app, ProjectOf[c.ref], c.ref>>,
                             <<c.app, c.ref, c.fg>>, ThreadReads(c.ref))
    IN  IF c.fg THEN [plan EXCEPT !.route = "upsert", !.needs = {"streaming"}]
                ELSE plan

(* clear_thread, clear_project and clear_application: nothing to preflight. *)
ClearThread(c, t) ==
    [StoreBinding(c, c.method, <<>>, <<>>, <<>>)
        EXCEPT !.clear = "thread", !.preflight = FALSE]

ClearProject(c, t) ==
    [StoreBinding(c, c.method, <<>>, <<>>, <<>>)
        EXCEPT !.clear = "project", !.preflight = FALSE]

ClearApplication(c, t) ==
    [StoreBinding(c, c.method, <<>>, <<>>, <<>>)
        EXCEPT !.clear = "application", !.preflight = FALSE]

ObserveThread(c, t) ==
    [Plan(c, "thread.observe", "store", <<c.app, c.ref>>)
        EXCEPT !.route = "upsert", !.needs = {"streaming"},
               !.reads = ThreadReads(c.ref)]

ClearObservation(c, t) ==
    [Plan(c, "thread.clear_observation", "store", <<c.app, c.ref, c.fg>>)
        EXCEPT !.route = "delete", !.preflight = FALSE]

CreateAndSelectProject(c, t) ==
    [Plan(c, "create_and_select_project", "workflow", <<c.app, c.ref, c.fg>>)
        EXCEPT !.needs = {"projects.creation"}]

CreateAndBindThread(c, t) ==
    LET plan == ThreadCreation(c, t,
                    Plan(c, "create_and_bind_thread", "workflow", <<>>))
    IN  [plan EXCEPT
            !.needs = {"threads.creation"} \cup IF c.fg THEN {"streaming"} ELSE {},
            !.reads = ProjectReads(c.ref),
            !.route = IF c.fg THEN "upsert" ELSE None]

PlanOf(c, t) ==
    CASE c.method = "create_project"            -> CreateProject(c, t)
      [] c.method = "delete_project"            -> DeleteProject(c, t)
      [] c.method = "create_thread"             -> CreateThread(c, t)
      [] c.method = "activate_native_thread"    -> ActivateNativeThread(c, t)
      [] c.method = "delete_thread"             -> DeleteThread(c, t)
      [] c.method = "interrupt_turn"            -> InterruptTurn(c, t)
      [] c.method = "respond_request"           -> RespondRequest(c, t)
      [] c.method = "cancel_queued_input"       -> CancelQueuedInput(c, t)
      [] c.method = "select_application"        -> SelectApplication(c, t)
      [] c.method = "select_project"            -> SelectProject(c, t)
      [] c.method = "bind_thread"               -> BindThread(c, t)
      [] c.method = "clear_thread"              -> ClearThread(c, t)
      [] c.method = "clear_project"             -> ClearProject(c, t)
      [] c.method = "clear_application"         -> ClearApplication(c, t)
      [] c.method = "observe_thread"            -> ObserveThread(c, t)
      [] c.method = "clear_observation"         -> ClearObservation(c, t)
      [] c.method = "create_and_select_project" -> CreateAndSelectProject(c, t)
      [] c.method = "create_and_bind_thread"    -> CreateAndBindThread(c, t)

-----------------------------------------------------------------------------
(* The state *)

IdleTask(t) ==
    [pc |-> "idle", call |-> [method |-> None], plan |-> [kind |-> None], summary |-> {},
     reads |-> <<>>,
     held |-> Pending, lease |-> None, answer |-> Pending]

Phases == {"reserved", "started", "known", "terminal"}
PCs == {"idle", "replay", "begin", "receipt", "preflight", "reads", "reject",
        "commit", "reserve", "mark", "invoke", "native", "fence", "workflow",
        "reconcile", "done"}
Leases == {None, "held", "completed", "reconciled", "aborted"}

(* A binding names an Application, then a Project of it, then a Thread of
   that Project. *)
WellFormed(target) ==
    /\ Len(target) <= 3
    /\ Len(target) >= 2 => target[2] \notin DOMAIN ProjectOf
    /\ Len(target) = 3 => ProjectOf[target[3]] = target[2]

(* The types; a binding is well formed, whatever was cleared and bound. *)
TypeOK ==
    /\ caps \subseteq Capabilities
    /\ profiles \in [ProfileIds -> Declarations \cup {None}]
    /\ content \in [Tasks -> Contents]
    /\ changes \in 0..MaxChanges /\ stopped \in BOOLEAN
    /\ \A k \in DOMAIN receipts : receipts[k].phase \in Phases
    /\ \A c \in Convs : bindings[c].gen \in Nat /\ WellFormed(bindings[c].target)
    /\ \A t \in Tasks : tasks[t].pc \in PCs /\ tasks[t].lease \in Leases
    /\ DOMAIN intent = DOMAIN receipts

Init ==
    /\ caps = Capabilities
    /\ profiles \in [ProfileIds -> Declarations \cup {None}]
    /\ exists = Perishable
    /\ content \in [Tasks -> Contents]
    /\ changes = 0 /\ stopped = FALSE
    /\ receipts = <<>>
    /\ bindings = [c \in Convs |-> [target |-> <<>>, gen |-> 0]]
    /\ tasks = [t \in Tasks |-> IdleTask(t)]
    /\ sent = {} /\ intent = <<>>
    /\ seen = [t \in Tasks |-> {}]

At(t, pc) == tasks[t].pc = pc
Plans(t)  == tasks[t].plan
Key(t)    == tasks[t].plan.key
Conv(t)   == tasks[t].call.conv
Running(t) == tasks[t].pc \notin {"idle", "done"}

Known(k)     == k \in DOMAIN receipts
Conflicts(t) == Known(Key(t)) /\ receipts[Key(t)].payload # Plans(t).payload

Put(k, r) == receipts' = [x \in DOMAIN receipts \cup {k} |->
                             IF x = k THEN r ELSE receipts[x]]

Scope(t) == <<tasks[t].call.actor, tasks[t].call.conv>>

(* A receipt; by is history: the principal and Conversation that made it. *)
Receipt(t, phase, outcome) ==
    [payload |-> Plans(t).payload, phase |-> phase, outcome |-> outcome, by |-> Scope(t),
     gen |-> IF Plans(t).category = "workflow" THEN bindings[Conv(t)].gen ELSE -1]

Advance(t, phase, outcome) ==
    Put(Key(t), [receipts[Key(t)] EXCEPT !.phase = phase, !.outcome = outcome])

(* What the identity was reserved for, once and for all. *)
Intend(t) ==
    intent' = [x \in DOMAIN intent \cup {Key(t)} |->
                  IF x \in DOMAIN intent THEN intent[x] ELSE Plans(t).profile]

Goto(t, pc) == tasks' = [tasks EXCEPT ![t].pc = pc]
Hold(t, pc, o) == tasks' = [tasks EXCEPT ![t].pc = pc, ![t].held = o]

(* The lease the call has left when it is over: one it still holds is
   completed, or aborted where an exception or an open outcome ends a call. *)
Settle(t, how) == IF tasks[t].lease = "held" THEN how ELSE tasks[t].lease

Answer(t, o, how) ==
    tasks' = [tasks EXCEPT ![t] =
        [@ EXCEPT !.pc = "done", !.answer = o, !.lease = Settle(t, how)]]

(* What becomes of the lease of a call whose durable outcome is no success:
   _workflow aborts it, _execute_store_mutation completes it. *)
Unsuccessful(t) ==
    IF Plans(t).category = "workflow" THEN "aborted" ELSE "completed"

(* The executor returned. A durable success goes on to the route. *)
Return(t, o) ==
    \/ o.kind = "succeeded" /\ Plans(t).category # "native" /\ Hold(t, "reconcile", o)
    \/ /\ o.kind # "succeeded" \/ Plans(t).category = "native"
       /\ Answer(t, o, Unsuccessful(t))

Untouched == UNCHANGED <<worldVars, stopped>>

-----------------------------------------------------------------------------
(* A call and its store steps *)

FirstPC(plan) ==
    IF plan.category # "store" THEN "reserve"
    ELSE IF plan.route = "upsert" THEN "replay"
    ELSE IF plan.preflight THEN "receipt" ELSE "commit"

(* The call resolves the profile, snapshots what the caller passed, derives
   its fingerprint and enters the executor, without an await. A deactivated
   runtime refuses it (_require_active). *)
Start(t, c) ==
    LET plan == PlanOf(c, t) IN
    /\ At(t, "idle")
    /\ tasks' = [tasks EXCEPT ![t] =
          [IdleTask(t) EXCEPT !.call = c, !.plan = plan, !.reads = plan.reads,
              !.pc = IF stopped THEN "done" ELSE FirstPC(plan),
              !.answer = IF stopped THEN Raised ELSE Pending]]
    /\ seen' = [seen EXCEPT ![t] = exists \cup caps]
    /\ Untouched /\ UNCHANGED <<receipts, bindings, sent, intent>>

(* _execute_store_mutation: the receipt is read before a lease is taken, and
   once more when the lease is refused; and the executor reads it again. *)
ReadReceipt(t) ==
    /\ tasks[t].pc \in {"replay", "receipt"}
    /\ \/ Conflicts(t) /\ Answer(t, Failed("conflict"), "completed")
       \/ /\ Known(Key(t)) /\ ~Conflicts(t)
          /\ Return(t, receipts[Key(t)].outcome)
       \/ /\ ~Known(Key(t))
          /\ Goto(t, IF At(t, "replay") THEN "begin"
                     ELSE IF Plans(t).preflight THEN "preflight" ELSE "commit")
    /\ Untouched /\ UNCHANGED <<receipts, bindings, histVars>>

(* begin_projection_route: RouteProjection grants or refuses the lease. *)
BeginProjectionRoute(t) ==
    /\ At(t, "begin") \/ At(t, "fence")
    /\ \/ tasks' = [tasks EXCEPT ![t].lease = "held",
                     ![t].pc = IF @ = "begin" THEN "receipt" ELSE "workflow"]
       \/ /\ At(t, "begin") /\ ~Known(Key(t))
          /\ Answer(t, Failed("stale_runtime"), "completed")
       \/ /\ At(t, "begin") /\ Known(Key(t))
          /\ Return(t, IF Conflicts(t) THEN Failed("conflict")
                                       ELSE receipts[Key(t)].outcome)
       \/ /\ At(t, "fence")
          /\ Answer(t, Partial(tasks[t].held.value, "stale_runtime"), "aborted")
    /\ Untouched /\ UNCHANGED <<receipts, bindings, histVars>>

-----------------------------------------------------------------------------
(* Preflight *)

(* Mutant of CapabilityError: only the profile is looked up again. *)
ProfileErrorOnly(t) ==
    /\ Plans(t).profile # None
    /\ \A id \in ProfileIds : profiles[id] # Plans(t).profile

(* _mutation_capability_error and the check of streaming, against the summary
   of this moment: a profile that was redeclared since it was resolved is no
   longer one of the profiles of the Application. *)
CapabilityError(t) ==
    \/ ~(Plans(t).needs \subseteq caps)
    \/ /\ Plans(t).profile # None
       /\ \A id \in ProfileIds : profiles[id] # Plans(t).profile

(* _preflight_application_mutation, _preflight_application_resource and
   _preflight_request_application up to the first read. *)
Preflight(t) ==
    LET error == SummaryError(tasks[t].call.app) IN
    /\ At(t, "preflight")
    /\ \/ Plans(t).refusal # None /\ Hold(t, "reject", Failed(Plans(t).refusal))
       \/ Plans(t).kind = "queued_input.cancel" /\ Goto(t, "reads")
       \/ /\ Plans(t).refusal = None /\ Plans(t).kind # "queued_input.cancel"
          /\ \/ error # None /\ Hold(t, "reject", Failed(ActionError(error)))
             \/ /\ error = None /\ CapabilityError(t)
                /\ Hold(t, "reject", Failed(ActionError("unsupported")))
             \/ /\ error = None /\ ~CapabilityError(t)
                /\ tasks' = [tasks EXCEPT ![t].pc = "reads", ![t].summary = caps]
    /\ Untouched /\ UNCHANGED <<receipts, bindings, histVars>>

(* _preflight_project_read, _preflight_thread_read and
   authorize_request_response, in the order of the plan: the capability comes
   from the summary of the preflight, the answer from the Application. *)
PreflightRead(t) ==
    LET todo == tasks[t].reads IN
    /\ At(t, "reads")
    /\ \/ /\ todo = <<>>
          /\ Goto(t, IF Plans(t).category = "store" THEN "commit" ELSE "mark")
       \/ /\ todo # <<>> /\ Head(todo).cap # None
          /\ \/ /\ Head(todo).cap \notin tasks[t].summary
                /\ Hold(t, "reject", Failed(ActionError("unsupported")))
             \/ /\ Head(todo).cap \in tasks[t].summary /\ ~stopped
                /\ IF Head(todo).res \in exists
                   THEN tasks' = [tasks EXCEPT ![t].reads = Tail(todo)]
                   ELSE Hold(t, "reject", Failed(ActionError("not_found")))
             \/ /\ Head(todo).cap \in tasks[t].summary /\ stopped
                /\ Hold(t, "reject", Failed(ActionError("adapter_failure")))
    /\ Untouched /\ UNCHANGED <<receipts, bindings, histVars>>

(* read_queued_input: an input that is admitted, or of which nothing is known,
   is not cancelled. A deactivated runtime raises, which is no rejection. *)
ReadQueuedInput(t) ==
    /\ At(t, "reads") /\ tasks[t].reads # <<>> /\ Head(tasks[t].reads).cap = None
    /\ \/ stopped /\ Answer(t, Failed("store_failure"), "aborted")
       \/ /\ ~stopped /\ tasks[t].call.ref \notin exists
          /\ Hold(t, "reject", Failed(ActionError("not_found")))
       \/ /\ ~stopped /\ tasks[t].call.ref \in exists
          /\ \/ tasks' = [tasks EXCEPT ![t].reads = <<>>]
             \/ \E code \in {"native_outcome_unknown", "queue_already_admitted"} :
                   Hold(t, "reject", Failed(code))
    /\ Untouched /\ UNCHANGED <<receipts, bindings, histVars>>

(* The rejection becomes the durable outcome, unless another caller of the
   same action has advanced the receipt meanwhile. *)
Reject(t) ==
    /\ At(t, "reject")
    /\ \/ /\ ~Known(Key(t))
          /\ Put(Key(t), Receipt(t, "terminal", tasks[t].held))
          /\ Intend(t)
          /\ Return(t, tasks[t].held)
       \/ /\ Known(Key(t)) /\ receipts[Key(t)].phase = "reserved"
          /\ Advance(t, "terminal", tasks[t].held)
          /\ Return(t, tasks[t].held)
          /\ UNCHANGED intent
       \/ /\ Known(Key(t)) /\ receipts[Key(t)].phase # "reserved"
          /\ IF Conflicts(t) THEN Return(t, Failed("conflict"))
             ELSE IF receipts[Key(t)].phase = "terminal"
             THEN Return(t, receipts[Key(t)].outcome) ELSE Return(t, Unknown)
          /\ UNCHANGED <<receipts, intent>>
    /\ Untouched /\ UNCHANGED <<bindings, sent, seen>>

-----------------------------------------------------------------------------
(* Effects *)

(* _resolve_binding_change *)
Resolve(conv, plan) ==
    LET now == bindings[conv].target IN
    CASE plan.clear = "application" -> <<>>
      [] plan.clear = "project" -> SubSeq(now, 1, IF now = <<>> THEN 0 ELSE 1)
      [] plan.clear = "thread" -> SubSeq(now, 1, IF Len(now) > 2 THEN 2 ELSE Len(now))
      [] plan.bind # <<>> -> plan.bind
      [] OTHER -> now

Changes(plan) == plan.clear # None \/ plan.bind # <<>>

Value(t, ref, gen) == [ref |-> ref, conv |-> Conv(t), gen |-> gen,
                       route |-> Plans(t).route]

(* The commit of a store plan, inside the fence of its route. *)
CommitStore(t) ==
    LET conv == Conv(t)
        gen  == bindings[conv].gen + (IF Changes(Plans(t)) THEN 1 ELSE 0)
        done == IF tasks[t].call.gen \in {-1, bindings[conv].gen}
                THEN Succeeded(Value(t, None, gen)) ELSE Failed("stale_binding")
    IN
    /\ At(t, "commit")
    /\ \/ Conflicts(t) /\ Return(t, Failed("conflict")) /\ UNCHANGED <<receipts, bindings, intent>>
       \/ /\ Known(Key(t)) /\ ~Conflicts(t)
          /\ Return(t, receipts[Key(t)].outcome)
          /\ UNCHANGED <<receipts, bindings, intent>>
       \/ /\ ~Known(Key(t))
          /\ Put(Key(t), Receipt(t, "terminal", done))
          /\ Intend(t)
          /\ bindings' = IF done.kind = "failed" THEN bindings ELSE
                [bindings EXCEPT ![conv] = [target |-> Resolve(conv, Plans(t)), gen |-> gen]]
          /\ Return(t, done)
       \/ /\ tasks[t].lease = "held"
          /\ Return(t, Failed("stale_runtime"))
          /\ UNCHANGED <<receipts, bindings, intent>>
    /\ Untouched /\ UNCHANGED <<sent, seen>>

(* record_effect_outcome: a workflow keeps what it created, an unknown outcome
   leaves the action started (_persist_unknown), everything else is over. *)
Record(t, o) ==
    \/ /\ o.kind = "succeeded" /\ Plans(t).category = "workflow"
       /\ Advance(t, "known", o)
       /\ Hold(t, IF Plans(t).route = "upsert" THEN "fence" ELSE "workflow", o)
    \/ o.kind = "unknown" /\ Advance(t, "started", o) /\ Return(t, o)
    \/ /\ o.kind # "unknown"
       /\ ~(o.kind = "succeeded" /\ Plans(t).category = "workflow")
       /\ Advance(t, "terminal", o) /\ Return(t, o)

(* _reconcile_native of a started action. reconcile_application and
   reconcile_request_response establish nothing; the queue may tell what
   became of the input that was to be cancelled. *)
Reconcilable(t) ==
    {Unknown} \cup
    IF Plans(t).kind = "queued_input.cancel" /\ ~stopped
    THEN {Succeeded(NoValue), Failed("queue_already_admitted")} ELSE {}

(* reserve_effect *)
Reserve(t) ==
    LET r == receipts[Key(t)] IN
    /\ At(t, "reserve")
    /\ \/ /\ ~Known(Key(t))
          /\ Put(Key(t), Receipt(t, "reserved", Pending))
          /\ Intend(t)
          /\ Goto(t, "preflight")
       \/ Conflicts(t) /\ Return(t, Failed("conflict")) /\ UNCHANGED <<receipts, intent>>
       \/ /\ Known(Key(t)) /\ ~Conflicts(t)
          /\ \/ r.phase = "terminal" /\ Return(t, r.outcome) /\ UNCHANGED receipts
             \/ r.phase = "reserved" /\ Goto(t, "preflight") /\ UNCHANGED receipts
             \/ r.phase = "started" /\ \E o \in Reconcilable(t) : Record(t, o)
             \/ /\ r.phase = "known" /\ UNCHANGED receipts
                /\ Hold(t, IF Plans(t).route = "upsert" THEN "fence" ELSE "workflow", r.outcome)
          /\ UNCHANGED intent
    /\ Untouched /\ UNCHANGED <<bindings, sent, seen>>

MarkStarted(t) ==
    /\ At(t, "mark")
    /\ \/ /\ receipts[Key(t)].phase = "reserved"
          /\ Advance(t, "started", Pending) /\ Goto(t, "invoke")
       \/ receipts[Key(t)].phase # "reserved" /\ Goto(t, "reserve") /\ UNCHANGED receipts
    /\ Untouched /\ UNCHANGED <<bindings, histVars>>

(* The native call hands over what the plan holds: the snapshot, not the
   object the caller may have changed since. A deactivated runtime raises. *)
Invoke(t) ==
    LET plan == Plans(t) IN
    /\ At(t, "invoke")
    /\ \/ stopped /\ Record(t, Unknown) /\ UNCHANGED sent
       \/ /\ ~stopped /\ Goto(t, "native") /\ UNCHANGED receipts
          /\ sent' = sent \cup {[key |-> plan.key, payload |-> plan.payload,
                content |-> IF plan.content = "shared" THEN content[t] ELSE plan.content,
                profile |-> plan.profile, task |-> t, applied |-> FALSE]}
    /\ Untouched /\ UNCHANGED <<bindings, seen, intent>>

Creates(t) == Plans(t).kind \in {"project.create", "thread.create",
                  "create_and_select_project", "create_and_bind_thread"}
Deletes(t) == Plans(t).kind \in {"project.delete", "thread.delete"}

(* What the Application makes of the operation: a new resource, one less, or
   an answer that leaves its resources as they are. *)
Applied(t, ref) ==
    /\ ref \in (IF Creates(t) THEN Fresh \ exists ELSE {tasks[t].call.ref})
    /\ exists' = IF Creates(t) THEN exists \cup {ref}
                 ELSE IF Deletes(t) THEN exists \ {ref} ELSE exists
    /\ sent' = {IF s.task = t THEN [s EXCEPT !.applied = TRUE] ELSE s : s \in sent}

(* What becomes of an exception. _execute_scoped_application makes a failed
   operation of every one, the one of a lost connection too, and a response to
   a request maps that failure; what its correlation raises, and what the
   cancellation of queued input raises, passes to the executor. *)
LostAnswers(t) ==
    CASE Plans(t).kind = "queued_input.cancel" -> {Unknown}
      [] Plans(t).kind = "request.respond" -> {Failed(ActionError("adapter_failure")), Unknown}
      [] OTHER -> {Failed(ActionError("adapter_failure"))}

(* Why the Application, or the queue, refuses. *)
Refusal(t) ==
    Failed(IF Plans(t).kind = "queued_input.cancel" THEN "queue_already_admitted"
           ELSE ActionError("conflict"))

NativeReturns(t) ==
    /\ At(t, "native")
    /\ receipts[Key(t)].phase = "started"
    /\ \/ \E ref \in Fresh \cup {tasks[t].call.ref} :
             /\ Applied(t, ref)
             /\ Record(t, Succeeded([NoValue EXCEPT !.ref = ref]))
       \/ Record(t, Refusal(t)) /\ UNCHANGED <<exists, sent>>
    /\ UNCHANGED <<caps, profiles, content, changes, stopped, bindings, seen, intent>>

(* The answer is lost, after the Application acted or before. *)
NativeRaises(t) ==
    /\ At(t, "native")
    /\ receipts[Key(t)].phase = "started"
    /\ \/ \E ref \in Fresh \cup {tasks[t].call.ref} : Applied(t, ref)
       \/ UNCHANGED <<exists, sent>>
    /\ \E o \in LostAnswers(t) : Record(t, o)
    /\ UNCHANGED <<caps, profiles, content, changes, stopped, bindings, seen, intent>>

(* Another caller reconciled the action meanwhile: that outcome stands. *)
NativeOvertaken(t) ==
    /\ At(t, "native")
    /\ receipts[Key(t)].phase # "started"
    /\ Return(t, receipts[Key(t)].outcome)
    /\ Untouched /\ UNCHANGED <<receipts, bindings, histVars>>

(* _workflow_binding_plan and commit_workflow_binding, under the generation
   the workflow was reserved with; or the fence of the route refuses the
   commit although its lease is held (fence_projection_route_commit). *)
CommitWorkflow(t) ==
    LET conv == Conv(t)
        r    == receipts[Key(t)]
        ref  == tasks[t].held.value.ref
        gen  == bindings[conv].gen + 1
        done == IF r.gen = bindings[conv].gen THEN Succeeded(Value(t, ref, gen))
                ELSE Partial(tasks[t].held.value, "stale_binding")
        target == IF Plans(t).kind = "create_and_select_project"
                  THEN <<tasks[t].call.app, ref>>
                  ELSE <<tasks[t].call.app, tasks[t].call.ref, ref>>
    IN
    /\ At(t, "workflow")
    /\ \/ /\ r.phase = "known"
          /\ Advance(t, "terminal", done)
          /\ bindings' = IF done.kind = "partial" THEN bindings
                         ELSE [bindings EXCEPT ![conv] = [target |-> target, gen |-> gen]]
          /\ Return(t, done)
       \/ r.phase = "terminal" /\ Return(t, r.outcome) /\ UNCHANGED <<receipts, bindings>>
       \/ /\ tasks[t].lease = "held"
          /\ Return(t, Partial(tasks[t].held.value, "stale_runtime"))
          /\ UNCHANGED <<receipts, bindings>>
    /\ Untouched /\ UNCHANGED histVars

(* _reconcile_projection_route: joined even when the caller is cancelled; its
   failure makes the durable success partial. *)
ReconcileProjectionRoute(t) ==
    LET o == tasks[t].held IN
    /\ At(t, "reconcile")
    /\ \/ Answer(t, o, "reconciled")
       \/ /\ o.value.route # None
          /\ \E code \in {"capacity_exhausted", "stale_runtime", "native_rejected"} :
                Answer(t, Partial(o.value, code), "completed")
    /\ Untouched /\ UNCHANGED <<receipts, bindings, histVars>>

(* The caller is cancelled at an await of the Application. A cancelled read
   leaves the receipt as it is, and what another caller made of it meanwhile
   is answered; a cancelled mutation is unknown. *)
Cancel(t) ==
    LET phase == IF Plans(t).category = "store" THEN "absent" ELSE receipts[Key(t)].phase IN
    /\ \/ /\ At(t, "reads") /\ tasks[t].reads # <<>> /\ UNCHANGED receipts
          /\ CASE phase \in {"absent", "reserved"} -> Answer(t, Raised, "aborted")
               [] phase = "terminal" -> Return(t, receipts[Key(t)].outcome)
               [] OTHER -> Return(t, Unknown)
       \/ At(t, "native") /\ receipts[Key(t)].phase = "started" /\ Record(t, Unknown)
    /\ Untouched /\ UNCHANGED <<bindings, histVars>>

-----------------------------------------------------------------------------
(* Everything else *)

Bounded == changes < MaxChanges /\ changes' = changes + 1

(* The Application reconnects with other capabilities or profiles, others
   create and delete, and the caller changes an object it passed in. *)
WorldChanges ==
    /\ Bounded
    /\ \/ /\ \E cap \in Varying : caps' = (caps \ {cap}) \cup ({cap} \ caps)
          /\ seen' = [t \in Tasks |-> seen[t] \cup caps']
          /\ UNCHANGED <<profiles, exists, content>>
       \/ /\ \E id \in ProfileIds, d \in Declarations \cup {None} :
                profiles[id] # d /\ profiles' = [profiles EXCEPT ![id] = d]
          /\ UNCHANGED <<caps, exists, content, seen>>
       \/ /\ \E r \in Perishable : exists' = (exists \ {r}) \cup ({r} \ exists)
          /\ seen' = [t \in Tasks |-> seen[t] \cup exists']
          /\ UNCHANGED <<caps, profiles, content>>
       \/ /\ \E t \in Tasks, v \in Contents :
                Running(t) /\ content[t] # v /\ content' = [content EXCEPT ![t] = v]
          /\ UNCHANGED <<caps, profiles, exists, seen>>
    /\ UNCHANGED <<stopped, receipts, bindings, tasks, sent, intent>>

(* deactivate: the Gateway stops; calls under way run on. *)
Deactivate ==
    /\ Bounded /\ ~stopped
    /\ stopped' = TRUE
    /\ UNCHANGED <<caps, profiles, exists, content, receipts, bindings, tasks, histVars>>

(* A new process over the same store: the calls of the old one are gone. *)
Restart ==
    /\ stopped
    /\ stopped' = FALSE
    /\ tasks' = [t \in Tasks |-> IF Running(t)
          THEN [tasks[t] EXCEPT !.pc = "done", !.answer = Raised, !.lease = None]
          ELSE tasks[t]]
    /\ UNCHANGED <<worldVars, receipts, bindings, histVars>>

TaskStep(t) ==
    \/ ReadReceipt(t) \/ BeginProjectionRoute(t)
    \/ Preflight(t) \/ PreflightRead(t) \/ ReadQueuedInput(t) \/ Reject(t)
    \/ CommitStore(t) \/ Reserve(t) \/ MarkStarted(t) \/ Invoke(t)
    \/ NativeReturns(t) \/ NativeRaises(t) \/ NativeOvertaken(t)
    \/ CommitWorkflow(t) \/ ReconcileProjectionRoute(t)

Next ==
    \/ \E t \in Tasks, c \in Calls : Start(t, c)
    \/ \E t \in Tasks : TaskStep(t) \/ Cancel(t)
    \/ WorldChanges \/ Deactivate \/ Restart

Spec == Init /\ [][Next]_vars

-----------------------------------------------------------------------------
(* What the surface owes its caller *)

(* What an action creates natively has the profile its action_id was first
   used with: a profile that is declared, or declared anew, between two
   attempts never turns a rejection or an older intent into a creation
   (_creation_profile_fingerprint). *)
CreatedAsIntended == \A s \in sent : s.profile = intent[s.key]

(* The Application is handed the content that was fingerprinted, whatever
   the caller did to its objects meanwhile (_snapshot_content,
   _snapshot_request_response). *)
SentAsFingerprinted ==
    \A s \in sent : s.content # None => s.content = s.payload[3]

(* Nothing is done to, bound to or observed on a Project, Thread, request or
   queued input that did not exist at any time since the call, nor under a
   capability that was not declared at any time since: the plan is checked in
   full before its effect, by every call that goes on to one (the _preflight
   functions), and what another call's preflight found is not reused. *)
CheckedBeforeEffect ==
    LET Wanted(t) == ({tasks[t].call.ref} \cap Perishable) \cup Plans(t).needs
    IN  /\ \A s \in sent : Wanted(s.task) \subseteq seen[s.task]
        /\ \A t \in Tasks : At(t, "commit") /\ Plans(t).preflight
                              => Wanted(t) \subseteq seen[t]

(* A caller is answered from its own receipts, those of its principal and its
   Conversation, however its action_id is used elsewhere (_fingerprint scopes
   the identity), and about its own Conversation. *)
AnsweredAboutOwn ==
    \A t \in Tasks : At(t, "done") =>
        /\ tasks[t].answer.kind # "raised" /\ Known(Key(t)) => receipts[Key(t)].by = Scope(t)
        /\ tasks[t].answer.value.conv \in {None, Conv(t)}

(* When an action is over its lease is settled, and it is settled as
   reconciled only when the caller is told of success: a route whose baseline
   failed is never opened, no barrier is left behind, and the lease of a
   workflow that bound nothing is aborted. *)
LeasesAreSettled ==
    \A t \in Tasks : At(t, "done") =>
        /\ tasks[t].lease # "held"
        /\ tasks[t].lease = "reconciled" => tasks[t].answer.kind = "succeeded"
        /\ (Plans(t).category = "workflow" /\ tasks[t].lease = "completed")
              => receipts[Key(t)].outcome.kind = "succeeded"

====

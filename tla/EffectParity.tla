---------------------------- MODULE EffectParity ----------------------------
(***************************************************************************)
(* Effect receipts in both backends of the Gateway store: reserve, start,  *)
(* outcome, preflight failure, workflow binding commit and the atomic      *)
(* store mutation of a binding and a route.  The memory backend stages the *)
(* binding first, on copies it publishes when nothing raised; SQLite       *)
(* prepares the route first, then writes both in one transaction that a    *)
(* refused plan still commits, with the receipt of the refusal in it.      *)
(*                                                                         *)
(* A receipt is [key, payload, cat, phase, native, gen, outcome], an       *)
(* outcome [status] with a value, an error or both; SQLite keeps the       *)
(* outcome as JSON and an UPDATE touches phase and outcome only.           *)
(***************************************************************************)
EXTENDS StoreBackends, TLC

CONSTANTS Fingerprints,   \* [key, payload] pairs
          Plans,          \* StoreMutationPlan values
          Groups,         \* the calls a run drives
          NativePhases,   \* native_phase_id values
          MaxReceipts

vars == backendVars

NativeCategories == {"native", "request_response"}
Categories == NativeCategories \cup {"workflow", "gateway"}

Succeeded(v)      == [status |-> "succeeded", value |-> v]
FailedWith(e)     == [status |-> "failed", error |-> e]
Partial(v, e)     == [status |-> "partial", value |-> v, error |-> e]
OutcomeUnknown(e) == [status |-> "outcome_unknown", error |-> e]

EffectValue(ref, c, g, id) == [reference |-> ref, conv |-> c, gen |-> g, route |-> id]

\* validate_effect_receipt: what a receipt of each category may hold per phase.
ValidReceipt(r) ==
    LET status == IF r.outcome = None THEN "none" ELSE r.outcome.status IN
    /\ r.cat = "gateway" =>
         /\ r.phase = "terminal" /\ r.native = None /\ r.gen = None
         /\ status \in {"succeeded", "failed"}
    /\ r.cat # "gateway" => r.native # None
    /\ r.cat # "workflow" => r.gen = None
    /\ r.phase = "reserved" => status = "none"
    /\ r.phase = "started" => status \in {"none", "outcome_unknown"}
    /\ r.phase = "known" => r.cat = "workflow" /\ status = "succeeded"
    /\ r.phase = "terminal" => status # "none"
    /\ r.phase = "terminal" /\ r.cat \in NativeCategories => status \in {"succeeded", "failed"}
    /\ r.phase = "terminal" /\ r.cat = "workflow" => status \in {"succeeded", "failed", "partial"}

NewReceipt(f, cat, phase, native, g, outcome) ==
    [key |-> f.key, payload |-> f.payload, cat |-> cat, phase |-> phase, native |-> native,
     gen |-> g, outcome |-> outcome]

---------------------------------------------------------------------------
(* The JSON of an outcome: a reference is written with the ids its kind    *)
(* has, and read back only when exactly those are there.                   *)

ReferenceFields(kind) ==
    CASE kind = "application" -> {"kind", "application"}
      [] kind = "project"     -> {"kind", "application", "project"}
      [] kind = "thread"      -> {"kind", "application", "project", "thread"}

ReferenceToJson(ref) ==
    [f \in ReferenceFields(ref.level) |->
        CASE f = "kind" -> ref.level [] f = "thread" -> ref.thread [] OTHER -> "id"]

ReferenceFromJson(j) ==
    IF DOMAIN j # ReferenceFields(j.kind) THEN "invalid"
    ELSE Target(j.kind, IF j.kind = "thread" THEN j.thread ELSE None)

ValueToJson(v) == [v EXCEPT !.reference = IF @ = None THEN None ELSE ReferenceToJson(@)]

ValueFromJson(j) == [j EXCEPT !.reference = IF @ = None THEN None ELSE ReferenceFromJson(@)]

Encode(outcome) ==
    IF outcome = None THEN None
    ELSE [f \in DOMAIN outcome |-> IF f = "value" THEN ValueToJson(outcome[f]) ELSE outcome[f]]

OutcomeFields ==
    [succeeded |-> {"status", "value"}, failed |-> {"status", "error"},
     partial |-> {"status", "value", "error"}, outcome_unknown |-> {"status", "error"}]

Decode(j) ==
    IF j = None THEN None
    ELSE IF DOMAIN j # OutcomeFields[j.status] THEN "invalid"
    ELSE [f \in DOMAIN j |-> IF f = "value" THEN ValueFromJson(j[f]) ELSE j[f]]

ToRow(r)     == [r EXCEPT !.outcome = Encode(@)]
FromRow(row) == [row EXCEPT !.outcome = Decode(@)]

---------------------------------------------------------------------------
(* Looking a receipt up.                                                   *)

MemReceipt(db, f) == {r \in db.receipts : r.key = f.key}
SqlReceipt(db, f) == {FromRow(x) : x \in {y \in db.receipts : y.key = f.key}}

OtherPayload(old, f) == \E r \in old : r.payload # f.payload

SqlOtherPayload(old, f) == \E r \in old : r.payload # f.payload

Found(old, cat, db) ==
    LET r == CHOOSE r \in old : TRUE IN
    IF r.cat # cat THEN Err(db, "receipt_conflict") ELSE Ok(db, r)

MemFull(db) == Cardinality(db.receipts) >= MaxReceipts
SqlFull(db) == Cardinality(db.receipts) >= MaxReceipts

MemInsert(db, r) ==
    IF ~ValidReceipt(r) THEN Err(db, "contract") ELSE Ok([db EXCEPT !.receipts = @ \cup {r}], r)

SqlInsert(db, r) ==
    IF ~ValidReceipt(r) THEN Err(db, "contract")
    ELSE IF \E x \in db.receipts : x.key = r.key THEN Err(db, "integrity")
    ELSE Ok([db EXCEPT !.receipts = @ \cup {ToRow(r)}], r)

MemReplace(db, r) == [db EXCEPT !.receipts = {x \in @ : x.key # r.key} \cup {r}]

\* UPDATE ... SET phase, outcome_json WHERE action_key.
SqlUpdateReceipt(db, r) ==
    [db EXCEPT !.receipts =
        {IF x.key = r.key THEN [x EXCEPT !.phase = r.phase, !.outcome = Encode(r.outcome)] ELSE x :
         x \in @}]

\* A first call makes the receipt, a later one finds it.
MemOnce(db, f, cat, make) ==
    LET old == MemReceipt(db, f) IN
    IF OtherPayload(old, f) THEN Err(db, "receipt_conflict")
    ELSE IF old # {} THEN Found(old, cat, db)
    ELSE IF MemFull(db) THEN Err(db, "capacity")
    ELSE make

SqlOnce(db, f, cat, make) ==
    LET old == SqlReceipt(db, f) IN
    IF SqlOtherPayload(old, f) THEN Err(db, "receipt_conflict")
    ELSE IF old # {} THEN Found(old, cat, db)
    ELSE IF SqlFull(db) THEN Err(db, "capacity")
    ELSE make

---------------------------------------------------------------------------
(* A store mutation plan: [conv, target, clear, upsert, delete, unless,    *)
(* expected].                                                              *)

\* validate_store_mutation_request.
ValidPlan(p) ==
    /\ p.target # None \/ p.clear # None \/ p.upsert # None \/ p.delete # None
    /\ p.target = None \/ p.clear = None
    /\ p.upsert = None \/ p.delete = None
    /\ p.unless => p.delete # None
    /\ p.upsert # None =>
         /\ p.upsert.conv = p.conv
         /\ p.target # None /\ p.target.level = "thread" => p.upsert.thread = p.target.thread

\* _resolve_binding_change: the target to store, Unbound to delete, None for
\* no change.
ResolveBindingChange(p, current) ==
    IF p.target # None THEN p.target
    ELSE IF p.clear = None THEN None
    ELSE IF p.clear = "application" \/ current = Unbound THEN Unbound
    ELSE IF p.clear = "thread" /\ current.level # "application" THEN Target("project", None)
    ELSE Target("application", None)

SqlResolveBindingChange(p, current) ==
    IF p.target # None THEN p.target
    ELSE IF p.clear = None THEN None
    ELSE IF p.clear = "application" \/ current = Unbound THEN Unbound
    ELSE IF p.clear = "thread" /\ current.level # "application" THEN Target("project", None)
    ELSE Target("application", None)

\* _binding_or_route_reference.
Reference(change, route) ==
    IF change # None /\ change # Unbound THEN change
    ELSE IF route # None THEN Target("thread", route.thread)
    ELSE None

RouteId(p, route) == IF route # None THEN route.id ELSE p.delete

Kept(p, route, bound) == p.unless /\ bound = Target("thread", route.thread)

SqlKept(p, route, bound) == p.unless /\ bound = Target("thread", route.thread)

\* _apply_route_plan on the copy that has the binding already: [db, out] with
\* the route it stored, deleted or kept.
MemApplyRoute(db, p) ==
    LET m == MemPrepareRoute(db, p.upsert)
        rs == {x \in db.routes : x.id = p.delete}
        r == CHOOSE x \in rs : TRUE IN
    IF p.upsert # None
    THEN IF Failed(m) THEN m ELSE Ok(MemWriteRoute(db, m.out[2]), m.out[2])
    ELSE IF rs = {} THEN Ok(db, None)
    ELSE IF r.conv # p.conv THEN Err(db, "route_conflict")
    ELSE Ok(IF Kept(p, r, MemBinding(db, p.conv)) THEN db ELSE [db EXCEPT !.routes = @ \ {r}], r)

MemMutation(db, f, p) ==
    LET g == MemGeneration(db, p.conv)
        change == ResolveBindingChange(p, MemBinding(db, p.conv))
        g2 == IF change = None THEN g ELSE NextGeneration(g)
        staged == IF change = None THEN db
                  ELSE IF change = Unbound THEN MemRemove(db, p.conv, g2)
                  ELSE MemStore(db, p.conv, change, g2)
        m == MemApplyRoute(staged, p)
        receipt(outcome) == NewReceipt(f, "gateway", "terminal", None, None, outcome) IN
    IF p.expected \notin {None, g} THEN MemInsert(db, receipt(FailedWith("stale_binding")))
    ELSE IF Failed(m) THEN MemInsert(db, receipt(FailedWith("conflict")))
    ELSE MemInsert(m.db, receipt(Succeeded(EffectValue(Reference(change, m.out[2]), p.conv, g2,
                                                       RouteId(p, m.out[2])))))

\* _prepare_route: the merged upsert, or the route a delete names.
SqlPreparePlan(db, p) ==
    LET rs == SqlReadRoute(db, p.delete)
        r == CHOOSE x \in rs : TRUE IN
    IF p.upsert # None THEN SqlPrepareRoute(db, p.upsert)
    ELSE IF p.delete = None \/ rs = {} THEN Ok(db, None)
    ELSE IF r.conv # p.conv THEN Err(db, "route_conflict")
    ELSE Ok(db, r)

SqlWritePlan(db, p, route) ==
    IF p.upsert # None THEN SqlWriteRoute(db, route).db
    ELSE IF route # None /\ ~SqlKept(p, route, SqlBinding(db, p.conv))
         THEN [db EXCEPT !.routes = {x \in @ : x.id # p.delete}]
    ELSE db

SqlStage(db, p, change, g) ==
    IF change = None THEN db
    ELSE IF change = Unbound THEN SqlRemove(db, p.conv, g)
    ELSE SqlStore(db, p.conv, change, g)

SqlMutation(db, f, p) ==
    LET g == SqlGeneration(db, p.conv)
        m == SqlPreparePlan(db, p)
        change == SqlResolveBindingChange(p, SqlBinding(db, p.conv))
        g2 == IF change = None THEN g ELSE NextGeneration(g)
        receipt(outcome) == NewReceipt(f, "gateway", "terminal", None, None, outcome) IN
    IF p.expected \notin {None, g} THEN SqlInsert(db, receipt(FailedWith("stale_binding")))
    ELSE IF Failed(m) THEN SqlInsert(db, receipt(FailedWith("conflict")))
    ELSE SqlInsert(SqlWritePlan(SqlStage(db, p, change, g2), p, m.out[2]),
                   receipt(Succeeded(EffectValue(Reference(change, m.out[2]), p.conv, g2,
                                                 RouteId(p, m.out[2])))))

CommitStoreMutation(o, f, p) ==
    /\ "mutations" \in Groups
    /\ ValidPlan(p) /\ MemGeneration(mem, p.conv) < MaxGen
    /\ Call(o, MemOnce(mem, f, "gateway", MemMutation(mem, f, p)),
               SqlOnce(sql, f, "gateway", SqlMutation(sql, f, p)))

CommitStorePreflightFailure(o, f, e) ==
    /\ "mutations" \in Groups
    /\ LET r == NewReceipt(f, "gateway", "terminal", None, None, FailedWith(e)) IN
       Call(o, MemOnce(mem, f, "gateway", MemInsert(mem, r)),
               SqlOnce(sql, f, "gateway", SqlInsert(sql, r)))

\* get_store_mutation_receipt: None when there is none.
GetStoreMutationReceipt(o, f) ==
    Call(o, MemOnce(mem, f, "gateway", Ok(mem, None)), SqlOnce(sql, f, "gateway", Ok(sql, None)))

---------------------------------------------------------------------------
(* Native and workflow effects.                                            *)

SamePhaseId(r, native) ==
    IF r.out[1] = "ok" /\ r.out[2].native # native THEN Err(r.db, "receipt_conflict") ELSE r

ReserveEffect(o, f, cat, native, c) ==
    /\ "effects" \in Groups
    /\ cat \in NativeCategories \cup {"workflow"}
    /\ LET new(g) == NewReceipt(f, cat, "reserved", native, g, None) IN
       Call(o,
            SamePhaseId(MemOnce(mem, f, cat,
                MemInsert(mem, new(IF c = None THEN None ELSE MemGeneration(mem, c)))), native),
            SamePhaseId(SqlOnce(sql, f, cat,
                SqlInsert(sql, new(IF c = None THEN None ELSE SqlGeneration(sql, c)))), native))

\* A transition r -> Ok(_, r2) or an error, of the receipt found under f.
MemRequire(db, f, step(_)) ==
    LET old == MemReceipt(db, f)
        r == step(CHOOSE r \in old : TRUE) IN
    IF old = {} THEN Err(db, "missing")
    ELSE IF OtherPayload(old, f) THEN Err(db, "receipt_conflict")
    ELSE IF Failed(r) THEN Err(db, r.out[2])
    ELSE IF ~ValidReceipt(r.out[2]) THEN Err(db, "contract")
    ELSE Ok(MemReplace(db, r.out[2]), r.out[2])

SqlTransitionReceipt(db, f, step(_)) ==
    LET old == SqlReceipt(db, f)
        r == step(CHOOSE r \in old : TRUE) IN
    IF old = {} THEN Err(db, "missing")
    ELSE IF SqlOtherPayload(old, f) THEN Err(db, "receipt_conflict")
    ELSE IF Failed(r) THEN Err(db, r.out[2])
    ELSE IF ~ValidReceipt(r.out[2]) THEN Err(db, "contract")
    ELSE Ok(SqlUpdateReceipt(db, r.out[2]), r.out[2])

Started(r) == Ok({}, IF r.phase = "reserved" THEN [r EXCEPT !.phase = "started"] ELSE r)

\* The answer tells whether this call was the one that started the effect.
Advanced(db, f, r) ==
    IF Failed(r) THEN r
    ELSE Ok(r.db, <<r.out[2], \E x \in db.receipts : x.key = f.key /\ x.phase = "reserved">>)

MarkNativeSideEffectStarted(o, f) ==
    /\ "effects" \in Groups
    /\ Call(o, Advanced(mem, f, MemRequire(mem, f, Started)),
               Advanced(sql, f, SqlTransitionReceipt(sql, f, Started)))

Recorded(r, phase, outcome) ==
    IF r.phase = "terminal" THEN Ok({}, r)
    ELSE IF r.phase = "reserved" THEN Err({}, "precedes_fence")
    ELSE IF phase = "known" /\ (r.cat # "workflow" \/ outcome.status # "succeeded")
         THEN Err({}, "not_workflow_success")
    ELSE IF r.phase = "known" THEN Err({}, "known_advances_by_commit")
    ELSE IF r.cat = "workflow" /\ phase = "terminal" /\ outcome.status = "succeeded"
         THEN Err({}, "success_needs_commit")
    ELSE Ok({}, [r EXCEPT !.phase = phase, !.outcome = outcome])

\* A late result is written over the terminal one.
SqlRecordedAgain(r, phase, outcome) ==
    IF r.phase = "reserved" THEN Err({}, "precedes_fence")
    ELSE IF phase = "known" /\ (r.cat # "workflow" \/ outcome.status # "succeeded")
         THEN Err({}, "not_workflow_success")
    ELSE IF r.phase = "known" THEN Err({}, "known_advances_by_commit")
    ELSE IF r.cat = "workflow" /\ phase = "terminal" /\ outcome.status = "succeeded"
         THEN Err({}, "success_needs_commit")
    ELSE Ok({}, [r EXCEPT !.phase = phase, !.outcome = outcome])

SqlRecorded(r, phase, outcome) ==
    IF r.phase = "terminal" THEN Ok({}, r)
    ELSE IF r.phase = "reserved" THEN Err({}, "precedes_fence")
    ELSE IF phase = "known" /\ (r.cat # "workflow" \/ outcome.status # "succeeded")
         THEN Err({}, "not_workflow_success")
    ELSE IF r.phase = "known" THEN Err({}, "known_advances_by_commit")
    ELSE IF r.cat = "workflow" /\ phase = "terminal" /\ outcome.status = "succeeded"
         THEN Err({}, "success_needs_commit")
    ELSE Ok({}, [r EXCEPT !.phase = phase, !.outcome = outcome])

RecordEffectOutcome(o, f, phase, outcome) ==
    /\ "effects" \in Groups
    /\ phase \in {"started", "known", "terminal"}
    /\ phase = "started" => outcome.status = "outcome_unknown"
    /\ Call(o, MemRequire(mem, f, LAMBDA r : Recorded(r, phase, outcome)),
               SqlTransitionReceipt(sql, f, LAMBDA r : SqlRecorded(r, phase, outcome)))

Refused(r, e) ==
    Ok({}, IF r.phase # "reserved" THEN r
           ELSE [r EXCEPT !.phase = "terminal", !.outcome = FailedWith(e)])

RecordEffectPreflightFailure(o, f, e) ==
    /\ "effects" \in Groups
    /\ Call(o, MemRequire(mem, f, LAMBDA r : Refused(r, e)),
               SqlTransitionReceipt(sql, f, LAMBDA r : Refused(r, e)))

\* What commit_workflow_binding says of a receipt before it looks at the store.
Committable(old, f, db, go) ==
    LET r == CHOOSE r \in old : TRUE IN
    IF old = {} THEN Err(db, "missing")
    ELSE IF r.payload # f.payload \/ r.cat # "workflow" THEN Err(db, "receipt_conflict")
    ELSE IF r.phase = "terminal" THEN Ok(db, r)
    ELSE IF r.phase # "known" THEN Err(db, "not_known")
    ELSE go

Finish(r, outcome) == [r EXCEPT !.phase = "terminal", !.outcome = outcome]

Created(r, c, g, id) ==
    Succeeded([r.outcome.value EXCEPT !.conv = c, !.gen = g, !.route = id])

IdOf(route) == IF route = None THEN None ELSE route.id

MemCommitBinding(db, f, c, target, route) ==
    LET old == MemReceipt(db, f)
        r == CHOOSE r \in old : TRUE
        g == MemGeneration(db, c)
        m == IF route = None THEN Ok(db, None) ELSE MemPrepareRoute(db, route)
        bound == MemStore(db, c, target, NextGeneration(g))
        done == Finish(r, Created(r, c, NextGeneration(g), IdOf(route)))
        part(e) == Finish(r, Partial(r.outcome.value, e)) IN
    Committable(old, f, db,
        IF g # r.gen THEN Ok(MemReplace(db, part("stale_binding")), part("stale_binding"))
        ELSE IF Failed(m) THEN Ok(MemReplace(db, part("conflict")), part("conflict"))
        ELSE Ok(MemReplace(IF route = None THEN bound ELSE MemWriteRoute(bound, m.out[2]), done), done))

SqlCommitBinding(db, f, c, target, route) ==
    LET old == SqlReceipt(db, f)
        r == CHOOSE r \in old : TRUE
        g == SqlGeneration(db, c)
        m == IF route = None THEN Ok(db, None) ELSE SqlPrepareRoute(db, route)
        bound == SqlStore(db, c, target, NextGeneration(g))
        done == Finish(r, Created(r, c, NextGeneration(g), IdOf(route)))
        part(e) == Finish(r, Partial(r.outcome.value, e)) IN
    Committable(old, f, db,
        IF g # r.gen THEN Ok(SqlUpdateReceipt(db, part("stale_binding")), part("stale_binding"))
        ELSE IF Failed(m) THEN Ok(SqlUpdateReceipt(db, part("conflict")), part("conflict"))
        ELSE Ok(SqlUpdateReceipt(IF route = None THEN bound ELSE SqlWriteRoute(bound, m.out[2]).db,
                                 done), done))

CommitWorkflowBinding(o, f, c, target, route) ==
    /\ "effects" \in Groups
    /\ MemGeneration(mem, c) < MaxGen
    /\ Call(o, MemCommitBinding(mem, f, c, target, route), SqlCommitBinding(sql, f, c, target, route))

---------------------------------------------------------------------------
Init ==
    /\ mem = MemEmpty @@ [receipts |-> {}]
    /\ sql = SqlEmpty @@ [receipts |-> {}]
    /\ session = [o \in Owners |-> None]
    /\ clock = 0
    /\ differ = None

Errors == {"native_rejected"}

\* What a native result may be: the ref of what was created, or a failure.
Outcomes ==
    {Succeeded(EffectValue(Target("thread", t), None, None, None)) : t \in Threads}
      \cup {FailedWith(e) : e \in Errors} \cup {OutcomeUnknown(e) : e \in Errors}

Next ==
    \/ \E o \in Owners :
           \/ \E g \in Gateways : AcquireRuntime(g, o)
           \/ \E f \in Fingerprints :
                  \/ GetStoreMutationReceipt(o, f)
                  \/ MarkNativeSideEffectStarted(o, f)
                  \/ \E p \in Plans : CommitStoreMutation(o, f, p)
                  \/ \E e \in Errors : CommitStorePreflightFailure(o, f, e)
                                         \/ RecordEffectPreflightFailure(o, f, e)
                  \/ \E cat \in Categories, native \in NativePhases, c \in Conversations \cup {None} :
                         ReserveEffect(o, f, cat, native, c)
                  \/ \E phase \in {"started", "known", "terminal"}, outcome \in Outcomes :
                         RecordEffectOutcome(o, f, phase, outcome)
                  \/ \E target \in Targets, route \in Routes \cup {None} :
                         /\ route # None => route.thread = target.thread
                         /\ \E c \in Conversations :
                                /\ route # None => route.conv = c
                                /\ CommitWorkflowBinding(o, f, c, target, route)
    \/ Tick

Spec == Init /\ [][Next]_vars

---------------------------------------------------------------------------
\* Whatever calls led here, the two stores hold the same lease, bindings,
\* generations, routes and receipts, the latter read back from their rows.
SameState == MemCanon(mem) = SqlCanon(sql) /\ mem.receipts = {FromRow(x) : x \in sql.receipts}

\* A plan that is refused leaves the store as it was but for its receipt: no
\* half of a binding and route change survives a conflict or a stale generation.
RefusedPlansChangeNothing ==
    \A x \in sql'.receipts \ sql.receipts :
      x.outcome # None /\ x.outcome.status \in {"failed", "partial"} =>
         [sql' EXCEPT !.receipts = {}] = [sql EXCEPT !.receipts = {}]

\* The verdict of a key is given once: no late result, retry, second payload or
\* other category changes a terminal receipt in either backend.
VerdictsStand ==
    /\ \A x \in sql.receipts : x.phase = "terminal" => x \in sql'.receipts
    /\ \A x \in mem.receipts : x.phase = "terminal" => x \in mem'.receipts

\* A workflow binds only where nothing was bound since its reservation: if it
\* succeeded, it was from the generation it reserved at to the next one.
WorkflowBindsWhereItReserved ==
    \A x \in sql.receipts :
        x.cat = "workflow" /\ x.phase = "terminal" /\ x.outcome.status = "succeeded" =>
            x.gen # None /\ x.outcome.value.gen = x.gen + 1
=============================================================================

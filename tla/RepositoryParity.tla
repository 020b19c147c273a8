------------------------- MODULE RepositoryParity -------------------------
(***************************************************************************)
(* The focused repositories of a store session in both backends: bindings, *)
(* projection routes, Turn reply correlations, request correlations,       *)
(* delivery submissions, idempotency claims and workspace identities.      *)
(*                                                                         *)
(* Timestamps are UTC in both backends, so the text comparison SQLite      *)
(* makes of two ISO timestamps orders them as memory's datetimes do; a     *)
(* time is a number here.  A Turn correlation's id is derived from its     *)
(* Turn, a request correlation's from its request and Conversation, a      *)
(* destination's delivery id from its submission and Conversation.         *)
(***************************************************************************)
EXTENDS StoreBackends, Sequences, SequencesExt, TLC

CONSTANTS Groups,                      \* the repositories a run drives
          Turns, Messages, Requests,
          Submissions, Fingerprints, Snapshots,
          Keys, Projects, Roots,
          MaxRecords,                  \* capacity of memory's bounded tables
          StaleAfter                   \* stale_claim_after_seconds

VARIABLE taken  \* a claim SQLite handed on because it was stale

vars == <<backendVars, taken>>

Times == 0..MaxClock

Selectors(S) == S \cup {None}

Matches(sel, v) == sel = None \/ sel = v

---------------------------------------------------------------------------
(* Bindings: put and delete with an optional expected generation.          *)

MemPut(db, c, target, expected) ==
    LET g == MemGeneration(db, c) IN
    IF expected \notin {None, g} THEN Err(db, "binding_conflict")
    ELSE Ok(MemStore(db, c, target, NextGeneration(g)), NextGeneration(g))

SqlPut(db, c, target, expected) ==
    LET g == SqlGeneration(db, c) IN
    IF expected \notin {None, g} THEN Err(db, "binding_conflict")
    ELSE Ok(SqlStore(db, c, target, NextGeneration(g)), NextGeneration(g))

MemDelete(db, c, expected) ==
    LET g == MemGeneration(db, c) IN
    IF expected \notin {None, g} THEN Err(db, "binding_conflict")
    ELSE Ok(MemRemove(db, c, NextGeneration(g)), "deleted")

SqlDelete(db, c, expected) ==
    LET g == SqlGeneration(db, c) IN
    IF expected \notin {None, g} THEN Err(db, "binding_conflict")
    ELSE Ok(SqlRemove(db, c, NextGeneration(g)), "deleted")

Bounded(c) == MemGeneration(mem, c) < MaxGen

Put(o, c, target, expected) ==
    /\ "bindings" \in Groups /\ Bounded(c)
    /\ Call(o, MemPut(mem, c, target, expected), SqlPut(sql, c, target, expected))
    /\ UNCHANGED taken

Delete(o, c, expected) ==
    /\ "bindings" \in Groups /\ Bounded(c)
    /\ Call(o, MemDelete(mem, c, expected), SqlDelete(sql, c, expected))
    /\ UNCHANGED taken

---------------------------------------------------------------------------
(* Workspace identities: all of a call's roots are recorded, or none.      *)

MemCheckWorkspaces(db, ids) ==
    LET add(acc, i) ==
            IF Failed(acc) \/ \E x \in acc.db : x.project = i.project /\ x.root # i.root
            THEN Err(acc.db, "workspace") ELSE Ok(acc.db \cup {i}, "checked")
        r == FoldLeft(add, Ok(db.roots, "checked"), ids) IN
    IF Failed(r) THEN Err(db, "workspace") ELSE Ok([db EXCEPT !.roots = r.db], "checked")

SqlCheckWorkspaces(db, ids) ==
    LET row(rows, i) == {x \in rows : x.project = i.project}
        add(acc, i) ==
            IF Failed(acc) \/ \E x \in row(acc.db, i) : x.root # i.root
            THEN Err(acc.db, "workspace")
            ELSE Ok(IF row(acc.db, i) # {} THEN acc.db ELSE acc.db \cup {i}, "checked")
        r == FoldLeft(add, Ok(db.roots, "checked"), ids) IN
    IF Failed(r) THEN Err(db, "workspace") ELSE Ok([db EXCEPT !.roots = r.db], "checked")

CheckWorkspaceIdentities(o, ids) ==
    /\ "workspaces" \in Groups
    /\ Call(o, MemCheckWorkspaces(mem, ids), SqlCheckWorkspaces(sql, ids))
    /\ UNCHANGED taken

---------------------------------------------------------------------------
(* Projection routes.                                                      *)

MemPutRoute(db, r) ==
    LET m == MemPrepareRoute(db, r) IN
    IF Failed(m) THEN Err(db, m.out[2]) ELSE Ok(MemWriteRoute(db, m.out[2]), m.out[2])

SqlPutRoute(db, r) ==
    LET m == SqlPrepareRoute(db, r) IN
    IF Failed(m) THEN Err(db, m.out[2]) ELSE SqlWriteRoute(db, m.out[2])

OfThread(rows, t) == {x \in rows : x.thread = t}

MemReplaceRoutes(db, r) ==
    LET m == MemPrepareRoute(db, r) IN
    IF Failed(m) THEN Err(db, m.out[2])
    ELSE Ok([db EXCEPT !.routes = (@ \ OfThread(@, r.thread)) \cup {m.out[2]}], m.out[2])

\* The Thread's rows are deleted before the stored route is read and merged.
SqlReplaceThenMerge(db, r) ==
    LET rest == [db EXCEPT !.routes = @ \ OfThread(@, r.thread)]
        m == SqlPrepareRoute(rest, r) IN
    IF Failed(m) THEN Err(db, m.out[2]) ELSE SqlWriteRoute(rest, m.out[2])

SqlReplaceRoutes(db, r) ==
    LET m == SqlPrepareRoute(db, r) IN
    IF Failed(m) THEN Err(db, m.out[2])
    ELSE SqlWriteRoute([db EXCEPT !.routes = @ \ OfThread(@, r.thread)], m.out[2])

CpItem(cp) == IF cp = None THEN None ELSE cp[1]

\* advance_projection_checkpoint: a compare-and-set on the checkpointed item.
MemAdvance(db, id, expected, cp) ==
    LET old == {x \in db.routes : x.id = id} IN
    IF old = {} THEN Err(db, "missing")
    ELSE LET x == CHOOSE x \in old : TRUE
             y == [x EXCEPT !.cp = cp] IN
         IF CpItem(x.cp) # expected THEN Err(db, "checkpoint_conflict")
         ELSE Ok([db EXCEPT !.routes = (@ \ {x}) \cup {y}], y)

SqlAdvance(db, id, expected, cp) ==
    LET old == SqlReadRoute(db, id)
        set == {x \in old : CpItem(x.cp) = expected} IN
    IF old = {} THEN Err(db, "missing")
    ELSE IF set = {} THEN Err(db, "checkpoint_conflict")
    ELSE Ok([db EXCEPT !.routes = (@ \ set) \cup {[x EXCEPT !.cp = cp] : x \in set}],
            [(CHOOSE x \in set : TRUE) EXCEPT !.cp = cp])

MemDeleteRoutes(db, t, c) ==
    LET gone == {x \in db.routes : x.thread = t /\ Matches(c, x.conv)} IN
    Ok([db EXCEPT !.routes = @ \ gone], Cardinality(gone))

SqlDeleteRoutes(db, t, c) ==
    LET gone == {x \in db.routes : x.thread = t /\ Matches(c, x.conv)} IN
    Ok([db EXCEPT !.routes = @ \ gone], Cardinality(gone))

PutProjectionRoute(o, r) ==
    /\ "routes" \in Groups
    /\ Call(o, MemPutRoute(mem, r), SqlPutRoute(sql, r))
    /\ UNCHANGED taken

ReplaceThreadProjectionRoutes(o, r) ==
    /\ "routes" \in Groups
    /\ Call(o, MemReplaceRoutes(mem, r), SqlReplaceRoutes(sql, r))
    /\ UNCHANGED taken

AdvanceProjectionCheckpoint(o, id, expected, cp) ==
    /\ "routes" \in Groups
    /\ Call(o, MemAdvance(mem, id, expected, cp), SqlAdvance(sql, id, expected, cp))
    /\ UNCHANGED taken

DeleteProjectionRoutes(o, t, c) ==
    /\ "routes" \in Groups
    /\ Call(o, MemDeleteRoutes(mem, t, c), SqlDeleteRoutes(sql, t, c))
    /\ UNCHANGED taken

---------------------------------------------------------------------------
(* Turn reply correlations: [cid, thread, turn, message, conv, at].        *)

SameTurn(x, y) == x.thread = y.thread /\ x.turn = y.turn

\* _same_turn_reply_correlation: everything but the creation time.
SameTurnReply(x, y) == [x EXCEPT !.at = 0] = [y EXCEPT !.at = 0]

MemPutTurn(db, x) ==
    LET old == {y \in db.turns : SameTurn(x, y)} IN
    IF old = {} THEN Ok([db EXCEPT !.turns = @ \cup {x}], x)
    ELSE LET y == CHOOSE y \in old : TRUE IN
         IF SameTurnReply(x, y) THEN Ok(db, y) ELSE Err(db, "turn_conflict")

\* INSERT ... ON CONFLICT (the Turn) DO NOTHING, then the row is read back.
SqlPutTurn(db, x) ==
    LET rows == IF \E y \in db.turns : SameTurn(x, y) THEN db.turns ELSE db.turns \cup {x}
        y == CHOOSE y \in rows : SameTurn(x, y) IN
    IF \E z \in db.turns : z.cid = x.cid /\ ~SameTurn(x, z) THEN Err(db, "integrity")
    ELSE IF SameTurnReply(x, y) THEN Ok([db EXCEPT !.turns = rows], y)
    ELSE Err(db, "turn_conflict")

MemDeleteTurn(db, t, u) ==
    LET gone == {x \in db.turns : x.thread = t /\ x.turn = u} IN
    Ok([db EXCEPT !.turns = @ \ gone], gone # {})

SqlDeleteTurn(db, t, u) ==
    LET gone == {x \in db.turns : x.thread = t /\ x.turn = u} IN
    Ok([db EXCEPT !.turns = @ \ gone], Cardinality(gone) = 1)

Older(limit, at) == limit = None \/ at < limit

MemDeleteTurns(db, t, c, limit) ==
    LET gone == {x \in db.turns : Matches(t, x.thread) /\ Matches(c, x.conv) /\ Older(limit, x.at)} IN
    IF <<t, c, limit>> = <<None, None, None>> THEN Err(db, "selector")
    ELSE Ok([db EXCEPT !.turns = @ \ gone], Cardinality(gone))

SqlDeleteTurns(db, t, c, limit) ==
    LET gone == {x \in db.turns : Matches(t, x.thread) /\ Matches(c, x.conv) /\ Older(limit, x.at)} IN
    IF <<t, c, limit>> = <<None, None, None>> THEN Err(db, "selector")
    ELSE Ok([db EXCEPT !.turns = @ \ gone], Cardinality(gone))

TurnCorrelation(t, u, m, c) ==
    [cid |-> <<t, u>>, thread |-> t, turn |-> u, message |-> m, conv |-> c, at |-> clock]

PutTurnReplyCorrelation(o, x) ==
    /\ "turns" \in Groups
    /\ Call(o, MemPutTurn(mem, x), SqlPutTurn(sql, x))
    /\ UNCHANGED taken

DeleteTurnReplyCorrelation(o, t, u) ==
    /\ "turns" \in Groups
    /\ Call(o, MemDeleteTurn(mem, t, u), SqlDeleteTurn(sql, t, u))
    /\ UNCHANGED taken

DeleteTurnReplyCorrelations(o, t, c, limit) ==
    /\ "turns" \in Groups
    /\ Call(o, MemDeleteTurns(mem, t, c, limit), SqlDeleteTurns(sql, t, c, limit))
    /\ UNCHANGED taken

---------------------------------------------------------------------------
(* Request correlations: [cid, request, thread, conv, state, at].          *)

Precedence == [open |-> 0, responded |-> 1, stale |-> 2, resolved |-> 3]
RequestStates == DOMAIN Precedence

\* _merge_correlation: a new destination of an answered request is born
\* answered; an answered destination is not reopened.
MergeCorrelation(old, r, all) ==
    LET closed == {x \in all : x.state # "open"}
        last == CHOOSE x \in closed : \A y \in closed :
                    \/ Precedence[y.state] < Precedence[x.state]
                    \/ Precedence[y.state] = Precedence[x.state] /\ y.at <= x.at
        x == CHOOSE x \in old : TRUE IN
    IF old = {} /\ closed = {} THEN Ok({}, r)
    ELSE IF old = {} THEN Ok({}, [r EXCEPT !.state = last.state, !.at = Max({r.at, last.at})])
    ELSE IF x.request # r.request \/ x.thread # r.thread \/ x.conv # r.conv
         THEN Err({}, "request_conflict")
    ELSE Ok({}, IF x.state # "open" THEN x ELSE r)

ConflictingEndpoint(rows, r) ==
    \E x \in rows : x.request = r.request /\ x.conv = r.conv /\ x.cid # r.cid

OfRequest(rows, q) == {x \in rows : x.request = q}

MemPutRequest(db, r) ==
    LET m == MergeCorrelation({x \in db.requests : x.cid = r.cid}, r,
                              OfRequest(db.requests, r.request)) IN
    IF Failed(m) THEN Err(db, m.out[2])
    ELSE IF ConflictingEndpoint(db.requests, m.out[2]) THEN Err(db, "request_conflict")
    ELSE Ok([db EXCEPT !.requests = {x \in @ : x.cid # r.cid} \cup {m.out[2]}], m.out[2])

\* INSERT ... ON CONFLICT(correlation_id) DO UPDATE of the columns that may change.
SqlWriteRequest(db, r) ==
    LET old == {x \in db.requests : x.cid = r.cid} IN
    [db EXCEPT !.requests = {x \in @ : x.cid # r.cid} \cup
        (IF old = {} THEN {r} ELSE {[x EXCEPT !.state = r.state, !.at = r.at] : x \in old})]

\* The existing row is looked for among the rows of the request only.
SqlPutRequest(db, r) ==
    LET all == OfRequest(db.requests, r.request)
        m == MergeCorrelation({x \in all : x.cid = r.cid}, r, all) IN
    IF Failed(m) THEN Err(db, m.out[2])
    ELSE IF ConflictingEndpoint(db.requests, m.out[2]) THEN Err(db, "request_conflict")
    ELSE Ok(SqlWriteRequest(db, m.out[2]), m.out[2])

\* _transition_correlations: all destinations of a request move together.
TransitionAll(rows, expected, state) ==
    IF rows = {} THEN Err(rows, "missing")
    ELSE IF \A x \in rows : x.state = state THEN Ok(rows, rows)
    ELSE IF \E x \in rows : x.state \notin expected \/ Precedence[state] < Precedence[x.state]
         THEN Err(rows, "request_conflict")
    ELSE LET moved == {[x EXCEPT !.state = state, !.at = clock] : x \in rows} IN Ok(moved, moved)

MemTransition(db, q, expected, state) ==
    LET rows == OfRequest(db.requests, q)
        r == TransitionAll(rows, expected, state) IN
    IF Failed(r) THEN Err(db, r.out[2])
    ELSE Ok([db EXCEPT !.requests = (@ \ rows) \cup r.db], r.out[2])

SqlTransition(db, q, expected, state) ==
    LET r == TransitionAll(OfRequest(db.requests, q), expected, state) IN
    IF Failed(r) THEN Err(db, r.out[2])
    ELSE Ok([db EXCEPT !.requests = FoldSet(LAMBDA x, rows : SqlWriteRequest([db EXCEPT !.requests = rows], x).requests,
                                            @, r.db)], r.out[2])

Selected(x, q, t, c, limit) ==
    Matches(q, x.request) /\ Matches(t, x.thread) /\ Matches(c, x.conv) /\ Older(limit, x.at)

DeleteSelected(db, q, t, c, limit) ==
    LET gone == {x \in db.requests : Selected(x, q, t, c, limit)} IN
    IF <<q, t, c, limit>> = <<None, None, None, None>> THEN Err(db, "selector")
    ELSE Ok([db EXCEPT !.requests = @ \ gone], Cardinality(gone))

MemDeleteRequests(db, q, t, c, limit) == DeleteSelected(db, q, t, c, limit)

SqlDeleteRequests(db, q, t, c, limit) == DeleteSelected(db, q, t, c, limit)

RequestRow(q, t, c) ==
    [cid |-> <<q, c>>, request |-> q, thread |-> t, conv |-> c, state |-> "open", at |-> clock]

PutRequestCorrelation(o, r) ==
    /\ "requests" \in Groups
    /\ Call(o, MemPutRequest(mem, r), SqlPutRequest(sql, r))
    /\ UNCHANGED taken

TransitionRequestCorrelations(o, q, expected, state) ==
    /\ "requests" \in Groups
    /\ Call(o, MemTransition(mem, q, expected, state), SqlTransition(sql, q, expected, state))
    /\ UNCHANGED taken

DeleteRequestCorrelations(o, q, t, c, limit) ==
    /\ "requests" \in Groups
    /\ Call(o, MemDeleteRequests(mem, q, t, c, limit), SqlDeleteRequests(sql, q, t, c, limit))
    /\ UNCHANGED taken

---------------------------------------------------------------------------
(* Delivery submissions: [sid, fp, dests, at], a destination               *)
(* [did, conv, snap, state, at].  SQLite keeps a root row and a row per    *)
(* destination.                                                            *)

Pinned(dests) == {<<d.did, d.snap>> : d \in dests}

SameReservation(x, r) == x.fp = r.fp /\ Pinned(x.dests) = Pinned(r.dests)

MemReserve(db, r) ==
    LET old == {x \in db.subs : x.sid = r.sid} IN
    IF old # {}
    THEN LET x == CHOOSE x \in old : TRUE IN
         IF SameReservation(x, r) THEN Ok(db, <<FALSE, x>>) ELSE Err(db, "submission_conflict")
    ELSE IF Cardinality(db.subs) >= MaxRecords THEN Err(db, "capacity")
    ELSE Ok([db EXCEPT !.subs = @ \cup {r}], <<TRUE, r>>)

\* _read_submission: the root row joined with its destination rows.
SqlReadSubmission(db, sid) ==
    {[sid |-> x.sid, fp |-> x.fp, at |-> x.at,
      dests |-> {[did |-> d.did, conv |-> d.conv, snap |-> d.snap, state |-> d.state, at |-> d.at] :
                 d \in {y \in db.dests : y.root = sid}}] : x \in {y \in db.heads : y.sid = sid}}

DestRow(sid, d) ==
    [root |-> sid, did |-> d.did, conv |-> d.conv, snap |-> d.snap, state |-> d.state, at |-> d.at]

\* INSERT ... ON CONFLICT(destination_delivery_id) DO UPDATE of state and time.
SqlWriteDestination(rows, sid, d) ==
    LET old == {y \in rows : y.did = d.did} IN
    IF old = {} THEN rows \cup {DestRow(sid, d)}
    ELSE {y \in rows : y.did # d.did} \cup {[y EXCEPT !.state = d.state, !.at = d.at] : y \in old}

SqlReserve(db, r) ==
    LET old == SqlReadSubmission(db, r.sid) IN
    IF old # {}
    THEN LET x == CHOOSE x \in old : TRUE IN
         IF SameReservation(x, r) THEN Ok(db, <<FALSE, x>>) ELSE Err(db, "submission_conflict")
    ELSE Ok([db EXCEPT !.heads = @ \cup {[sid |-> r.sid, fp |-> r.fp, at |-> r.at]},
                       !.dests = FoldSet(LAMBDA d, rows : SqlWriteDestination(rows, r.sid, d), @, r.dests)],
            <<TRUE, r>>)

\* update_delivery_destination: compare-and-set on the destination's state; the
\* same update applied again is accepted.
MemUpdate(db, sid, expected, d) ==
    LET old == {x \in db.subs : x.sid = sid} IN
    IF old = {} THEN Err(db, "missing")
    ELSE LET x == CHOOSE x \in old : TRUE
             cur == {y \in x.dests : y.did = d.did}
             new == [x EXCEPT !.dests = {y \in @ : y.did # d.did} \cup {d}, !.at = Max({@, d.at})] IN
         IF cur = {} THEN Err(db, "missing")
         ELSE IF cur # {d} /\ \E y \in cur : y.state # expected \/ y.snap # d.snap
              THEN Err(db, "submission_conflict")
         ELSE Ok([db EXCEPT !.subs = (@ \ old) \cup {new}], new)

SqlUpdate(db, sid, expected, d) ==
    LET old == SqlReadSubmission(db, sid) IN
    IF old = {} THEN Err(db, "missing")
    ELSE LET x == CHOOSE x \in old : TRUE
             cur == {y \in x.dests : y.did = d.did}
             at == Max({x.at, d.at}) IN
         IF cur = {} THEN Err(db, "missing")
         ELSE IF \E y \in cur : y.state # expected
              THEN IF cur = {d} THEN Ok(db, x) ELSE Err(db, "submission_conflict")
         ELSE IF \E y \in cur : y.snap # d.snap THEN Err(db, "submission_conflict")
         ELSE Ok([db EXCEPT !.dests = SqlWriteDestination(@, sid, d),
                            !.heads = {[y EXCEPT !.at = IF y.sid = sid THEN at ELSE @] : y \in @}],
                 [x EXCEPT !.dests = (@ \ cur) \cup {d}, !.at = at])

Destination(sid, c, snap, state) ==
    [did |-> <<sid, c>>, conv |-> c, snap |-> snap, state |-> state, at |-> clock]

Submission(sid, fp, snaps) ==
    [sid |-> sid, fp |-> fp, at |-> clock,
     dests |-> {Destination(sid, c, snaps[c], "in_flight") : c \in DOMAIN snaps}]

ReserveDeliverySubmission(o, r) ==
    /\ "submissions" \in Groups
    /\ Call(o, MemReserve(mem, r), SqlReserve(sql, r))
    /\ UNCHANGED taken

UpdateDeliveryDestination(o, sid, expected, d) ==
    /\ "submissions" \in Groups
    /\ Call(o, MemUpdate(mem, sid, expected, d), SqlUpdate(sql, sid, expected, d))
    /\ UNCHANGED taken

---------------------------------------------------------------------------
(* Idempotency claims: [key, status, owner], with SQLite's time of the     *)
(* last write.                                                             *)

ClaimOf(rows, k) == {x \in rows : x.key = k}

MemClaim(db, k, w) ==
    LET old == ClaimOf(db.claims, k) IN
    IF old # {} THEN Ok(db, IF \E x \in old : x.status = "completed" THEN "completed" ELSE "in_flight")
    ELSE IF Cardinality(db.claims) >= MaxRecords THEN Err(db, "capacity")
    ELSE Ok([db EXCEPT !.claims = @ \cup {[key |-> k, status |-> "in_flight", owner |-> w]}], "acquired")

IsStale(x) == x.status = "in_flight" /\ clock - x.at >= StaleAfter

SqlClaim(db, k, w) ==
    LET old == ClaimOf(db.claims, k)
        new == [key |-> k, status |-> "in_flight", owner |-> w, at |-> clock] IN
    IF \E x \in old : x.status = "completed" THEN Ok(db, "completed")
    ELSE IF \E x \in old : ~IsStale(x) THEN Ok(db, "in_flight")
    ELSE Ok([db EXCEPT !.claims = (@ \ old) \cup {new}], "acquired")

\* mark_side_effect_started, refresh, complete and release, by the owner only.
Owned(rows, k, w, statuses) == {x \in rows : x.key = k /\ x.owner = w /\ x.status \in statuses}

MemSetClaim(db, k, w, from, to) ==
    LET old == Owned(db.claims, k, w, from) IN
    IF old = {} THEN Err(db, "not_owned")
    ELSE Ok([db EXCEPT !.claims = (@ \ old) \cup {[x EXCEPT !.status = to] : x \in old}], "set")

SqlSetClaim(db, k, w, from, to) ==
    LET old == Owned(db.claims, k, w, from) IN
    IF old = {} THEN Err(db, "not_owned")
    ELSE Ok([db EXCEPT !.claims = (@ \ old) \cup {[x EXCEPT !.status = to, !.at = clock] : x \in old}], "set")

Open == {"in_flight", "side_effect_started"}

MemReleaseClaim(db, k, w) == Ok([db EXCEPT !.claims = @ \ Owned(@, k, w, Open)], "released")

SqlReleaseClaim(db, k, w) == Ok([db EXCEPT !.claims = @ \ Owned(@, k, w, Open)], "released")

Claim(o, k, w) ==
    /\ "claims" \in Groups
    /\ Call(o, MemClaim(mem, k, w), SqlClaim(sql, k, w))
    /\ taken' = (taken \/ (differ' # None /\ \E x \in ClaimOf(sql.claims, k) : IsStale(x)))

MarkSideEffectStarted(o, k, w) ==
    /\ "claims" \in Groups
    /\ Call(o, MemSetClaim(mem, k, w, {"in_flight"}, "side_effect_started"),
               SqlSetClaim(sql, k, w, {"in_flight"}, "side_effect_started"))
    /\ UNCHANGED taken

Refresh(o, k, w) ==
    /\ "claims" \in Groups
    /\ Call(o, MemSetClaim(mem, k, w, {"in_flight"}, "in_flight"),
               SqlSetClaim(sql, k, w, {"in_flight"}, "in_flight"))
    /\ UNCHANGED taken

Complete(o, k, w) ==
    /\ "claims" \in Groups
    /\ Call(o, MemSetClaim(mem, k, w, Open \cup {"completed"}, "completed"),
               SqlSetClaim(sql, k, w, Open \cup {"completed"}, "completed"))
    /\ UNCHANGED taken

Release(o, k, w) ==
    /\ "claims" \in Groups
    /\ Call(o, MemReleaseClaim(mem, k, w), SqlReleaseClaim(sql, k, w))
    /\ UNCHANGED taken

---------------------------------------------------------------------------
Init ==
    /\ mem = MemEmpty @@
             [roots |-> {}, turns |-> {}, requests |-> {}, subs |-> {}, claims |-> {}]
    /\ sql = SqlEmpty @@
             [roots |-> {}, turns |-> {}, requests |-> {}, heads |-> {}, dests |-> {}, claims |-> {}]
    /\ session = [o \in Owners |-> None]
    /\ clock = 0
    /\ differ = None
    /\ taken = FALSE

Lease(o) ==
    /\ \/ \E g \in Gateways : AcquireRuntime(g, o)
       \/ Renew(o)
       \/ ReleaseRuntime(o)
    /\ UNCHANGED taken

Generations == Selectors(0..MaxGen)
Identities == [project : Projects, root : Roots]
Checkpoints == {r.cp : r \in Routes} \ {None}

Bindings(o) ==
    \E c \in Conversations, expected \in Generations :
        Delete(o, c, expected) \/ \E target \in Targets : Put(o, c, target, expected)

Projections(o) ==
    \/ \E r \in Routes : PutProjectionRoute(o, r) \/ ReplaceThreadProjectionRoutes(o, r)
    \/ \E id \in {r.id : r \in Routes}, expected \in Selectors({cp[1] : cp \in Checkpoints}),
          cp \in Checkpoints : AdvanceProjectionCheckpoint(o, id, expected, cp)
    \/ \E t \in Threads, c \in Selectors(Conversations) : DeleteProjectionRoutes(o, t, c)

Replies(o) ==
    \E t \in Threads :
        \/ \E u \in Turns :
               \/ DeleteTurnReplyCorrelation(o, t, u)
               \/ \E m \in Messages, c \in Conversations :
                      PutTurnReplyCorrelation(o, TurnCorrelation(t, u, m, c))
        \/ \E x \in {t, None}, c \in Selectors(Conversations), limit \in Selectors(Times) :
               DeleteTurnReplyCorrelations(o, x, c, limit)

NativeRequests(o) ==
    \E q \in Requests :
        \/ \E t \in Threads, c \in Conversations : PutRequestCorrelation(o, RequestRow(q, t, c))
        \/ \E expected \in {{"open"}, {"open", "responded"}, RequestStates}, state \in RequestStates :
               TransitionRequestCorrelations(o, q, expected, state)
        \/ \E x \in {q, None}, t \in Selectors(Threads), c \in Selectors(Conversations),
              limit \in Selectors(Times) : DeleteRequestCorrelations(o, x, t, c, limit)

Deliveries(o) ==
    \E sid \in Submissions :
        \/ \E fp \in Fingerprints, C \in SUBSET Conversations \ {{}} :
               \E snaps \in [C -> Snapshots] : ReserveDeliverySubmission(o, Submission(sid, fp, snaps))
        \/ \E c \in Conversations, snap \in Snapshots, expected \in {"in_flight", "unknown"},
              state \in {"accepted", "unknown"} :
               UpdateDeliveryDestination(o, sid, expected, Destination(sid, c, snap, state))

Claims(o) ==
    \E k \in Keys, w \in Owners :
        \/ Claim(o, k, w) \/ MarkSideEffectStarted(o, k, w) \/ Refresh(o, k, w)
        \/ Complete(o, k, w) \/ Release(o, k, w)

Next ==
    \/ \E o \in Owners :
           \/ Lease(o) \/ Bindings(o) \/ Projections(o) \/ Replies(o) \/ NativeRequests(o)
           \/ Deliveries(o) \/ Claims(o)
           \/ \E i, j \in Identities : CheckWorkspaceIdentities(o, <<i, j>>)
    \/ Tick /\ UNCHANGED taken

Spec == Init /\ [][Next]_vars

---------------------------------------------------------------------------
ClaimRow(x) == [key |-> x.key, status |-> x.status, owner |-> x.owner]

\* The two stores hold the same: lease, bindings, generations, routes, roots,
\* correlations, submissions and claims, whatever calls led here (the parity
\* matrix of docs/components/gateway/persistence/gateway-store/testing.md).
SameState ==
    /\ MemCanon(mem) = SqlCanon(sql)
    /\ mem.roots = sql.roots /\ mem.turns = sql.turns /\ mem.requests = sql.requests
    /\ mem.subs = UNION {SqlReadSubmission(sql, x.sid) : x \in sql.heads}
    /\ ~taken => mem.claims = {ClaimRow(x) : x \in sql.claims}

\* Every call gets the same answer from the two backends; only a stale claim,
\* which SQLite alone hands on, sets them apart.
SameAnswerUntilTakeover == taken \/ SameAnswer

\* At most one session passes the fence, and it is the newest: no interleaving
\* of expiry, takeover, renewal and release lets two runtimes write.
OneWriter ==
    \A o, p \in Owners :
        LET passes(x) == session[x] # None /\ ~session[x].closed /\ SqlFence(session[x]) IN
        passes(o) /\ passes(p) => o = p

\* The generation of a Conversation never goes back, deletion included, so an
\* expected generation read before a delete and a new bind never matches again.
GenerationsGrow ==
    \A c \in Conversations :
      /\ SqlGeneration(sql', c) >= SqlGeneration(sql, c)
      /\ SqlBinding(sql', c) # SqlBinding(sql, c) =>
             SqlGeneration(sql', c) > SqlGeneration(sql, c)

\* In both backends a route id names one pair of endpoints and a pair of
\* endpoints has one route, though each backend enforces only one of the two.
RoutesAreKeyedBothWays ==
    \A db \in {mem.routes, sql.routes} : \A x, y \in db :
        (x.id = y.id) <=> SameEndpoints(x, y)

\* A route that outlives a call keeps its checkpoint unless the call named the
\* item it replaces: a refresh of the route never moves or loses it.
CheckpointsMoveBySwap ==
    \A x \in sql.routes, y \in sql'.routes :
      x.id = y.id /\ x.cp # y.cp /\ x.cp # None =>
         /\ y.cp # None
         /\ \E o \in Owners, expected \in Selectors({cp[1] : cp \in Checkpoints}) :
               /\ expected = CpItem(x.cp)
               /\ AdvanceProjectionCheckpoint(o, x.id, expected, y.cp)

\* The destinations of a request agree on its state once it is answered, and no
\* destination added or refreshed later is open again.
AnsweredEverywhere ==
    \A x, y \in sql.requests : x.request = y.request /\ x.state # "open" => y.state # "open"

\* Once answered a request's destinations are never less answered.
StatesNeverRegress ==
    \A x \in sql.requests, y \in sql'.requests :
      x.cid = y.cid => Precedence[x.state] <= Precedence[y.state]

\* A claim whose effect started changes hands only after its owner released it,
\* however long it has been silent; a completed one never again.
StartedClaimsStay ==
    \A x \in sql.claims, y \in sql'.claims :
      x.key = y.key /\ x.owner # y.owner => x.status = "in_flight"
=============================================================================

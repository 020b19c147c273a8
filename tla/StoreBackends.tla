--------------------------- MODULE StoreBackends ---------------------------
(***************************************************************************)
(* The two backends of the Gateway store, MemoryGatewayStore               *)
(* (persistence/memory.py, memory_store.py) and SQLiteGatewayStore         *)
(* (persistence/sqlite.py, sqlite_store.py), driven by the same calls.     *)
(*                                                                         *)
(* mem and sql are the two stores; every operation is an operator that     *)
(* takes a store and answers [db, out], the store it leaves and what the   *)
(* caller gets: <<"ok", value>> or <<"error", kind>>.  A Python dict is a  *)
(* function or a set of records with one record per key; an SQLite table   *)
(* is the set of its rows, with its PRIMARY KEY and UNIQUE constraints     *)
(* enforced by the statement that would break them ("integrity").  Both    *)
(* backends run a mutation to its end without an await, so an operation    *)
(* is one step; BEGIN IMMEDIATE ... rollback is answering with the store   *)
(* the transaction began with.                                             *)
(*                                                                         *)
(* This module has what the operations share: the runtime lease, sessions  *)
(* and their fence, bindings with their generations, projection routes.    *)
(***************************************************************************)
EXTENDS Integers, FiniteSets, FiniteSetsExt

CONSTANTS Gateways, Owners, Conversations, Threads,
          Routes,        \* the ThreadProjectionRoute values callers pass
          None,
          LeaseTicks, MaxClock, MaxEpoch, MaxGen

VARIABLES mem, sql,      \* the two stores
          session,       \* [Owners -> the session a runtime holds, or None]
          clock,
          differ         \* the two answers of the last call, if they differ

backendVars == <<mem, sql, session, clock, differ>>

Ok(db, v)  == [db |-> db, out |-> <<"ok", v>>]
Err(db, e) == [db |-> db, out |-> <<"error", e>>]
Failed(r)  == r.out[1] = "error"

\* A binding names an Application, then maybe a Project, then maybe a Thread.
Target(level, t) == [level |-> level, thread |-> t]

Unbound == Target("none", None)

Targets == {Target("application", None), Target("project", None)}
             \cup {Target("thread", t) : t \in Threads}

---------------------------------------------------------------------------
(* The runtime lease.                                                      *)

NoLease == [gateway |-> None, owner |-> None, epoch |-> 0, until |-> 0]

\* acquire_runtime: a live lease is only extended for its own owner; a dead
\* one is replaced under the next epoch.
MemAcquire(db, g, o) ==
    LET live == db.lease.epoch > 0 /\ db.lease.until > clock
        e    == IF live THEN db.lease.epoch ELSE db.epoch + 1 IN
    IF db.namespace \notin {None, g} THEN Err(db, "namespace")
    ELSE IF live /\ db.lease.owner # o THEN Err([db EXCEPT !.namespace = g], "unavailable")
    ELSE Ok([db EXCEPT !.namespace = g, !.epoch = e,
                       !.lease = [gateway |-> g, owner |-> o, epoch |-> e,
                                  until |-> clock + LeaseTicks]], e)

\* The namespace row is inserted in the transaction that takes the lease, the
\* epoch is read from the row the last lease left.
SqlAcquire(db, g, o) ==
    LET live == db.lease.epoch > 0 /\ db.lease.until > clock
        e    == IF live THEN db.lease.epoch ELSE db.lease.epoch + 1 IN
    IF db.namespace \notin {None, g} THEN Err(db, "namespace")
    ELSE IF live /\ db.lease.owner # o THEN Err(db, "unavailable")
    ELSE Ok([db EXCEPT !.namespace = g,
                       !.lease = [gateway |-> g, owner |-> o, epoch |-> e,
                                  until |-> clock + LeaseTicks]], e)

MemFence(s) ==
    /\ mem.lease.epoch > 0
    /\ mem.lease.gateway = s.gateway
    /\ mem.lease.owner = s.owner
    /\ mem.lease.epoch = s.epoch
    /\ mem.lease.until > clock

\* Any live lease lets a session through.
SqlFenceAnyOwner(s) == sql.namespace = s.gateway /\ sql.lease.until > clock

SqlFence(s) ==
    /\ sql.namespace = s.gateway
    /\ sql.lease.owner = s.owner
    /\ sql.lease.epoch = s.epoch
    /\ sql.lease.until > clock

MemRenew(db)   == Ok([db EXCEPT !.lease.until = clock + LeaseTicks], "renewed")
SqlRenew(db)   == Ok([db EXCEPT !.lease.until = clock + LeaseTicks], "renewed")
MemRelease(db) == Ok([db EXCEPT !.lease.until = clock], "released")

SqlRelease(db) == Ok([db EXCEPT !.lease.until = clock], "released")

\* A mutation r of a session: refused on a closed session, then on a stale lease.
MemMutate(s, r) == IF s.closed \/ ~MemFence(s) THEN Err(mem, "stale") ELSE r
SqlMutate(s, r) == IF s.closed \/ ~SqlFence(s) THEN Err(sql, "stale") ELSE r

Answer(m, s) ==
    /\ mem' = m.db
    /\ sql' = s.db
    /\ differ' = IF m.out = s.out THEN None ELSE <<m.out, s.out>>

\* The same call on the session of runtime o in both backends.
Call(o, m, s) ==
    /\ session[o] # None
    /\ Answer(MemMutate(session[o], m), SqlMutate(session[o], s))
    /\ UNCHANGED <<session, clock>>

AcquireRuntime(g, o) ==
    /\ mem.epoch < MaxEpoch \/ mem.lease.until > clock
    /\ Answer(MemAcquire(mem, g, o), SqlAcquire(sql, g, o))
    /\ LET r == MemAcquire(mem, g, o).out IN
       session' = IF r[1] = "error" THEN session
                  ELSE [session EXCEPT ![o] = [gateway |-> g, owner |-> o, epoch |-> r[2],
                                               closed |-> FALSE]]
    /\ UNCHANGED clock

Renew(o) == Call(o, MemRenew(mem), SqlRenew(sql))

\* release_runtime closes the session only when the store let go of the lease.
ReleaseRuntime(o) ==
    /\ session[o] # None /\ ~session[o].closed
    /\ Answer(MemMutate(session[o], MemRelease(mem)), SqlMutate(session[o], SqlRelease(sql)))
    /\ session' = IF ~MemFence(session[o]) THEN session
                  ELSE [session EXCEPT ![o].closed = TRUE]
    /\ UNCHANGED clock

Tick ==
    /\ clock < MaxClock
    /\ clock' = clock + 1
    /\ UNCHANGED <<mem, sql, session, differ>>

---------------------------------------------------------------------------
(* Bindings.  The generation of a Conversation survives the deletion of    *)
(* its binding: memory keeps a floor, SQLite a table of generations.       *)

MemGeneration(db, c) ==
    Max({IF db.bound[c] # Unbound THEN db.boundGen[c] ELSE 0, db.floor[c]})

SqlGeneration(db, c) ==
    Max({r.gen : r \in {x \in db.bindings \cup db.generations : x.conv = c}} \cup {0})

NextGeneration(g) == g + 1

MemStore(db, c, target, g) ==
    [db EXCEPT !.bound[c] = target, !.boundGen[c] = g, !.floor[c] = g]

MemRemove(db, c, g) == [db EXCEPT !.bound[c] = Unbound, !.floor[c] = g]

GenerationRow(db, c, g) == {x \in db.generations : x.conv # c} \cup {[conv |-> c, gen |-> g]}

SqlStore(db, c, target, g) ==
    [db EXCEPT !.bindings = {x \in @ : x.conv # c} \cup {[conv |-> c, target |-> target, gen |-> g]},
               !.generations = GenerationRow(db, c, g)]

SqlRemove(db, c, g) ==
    [db EXCEPT !.bindings = {x \in @ : x.conv # c}, !.generations = GenerationRow(db, c, g)]

MemBinding(db, c) == db.bound[c]

SqlBinding(db, c) ==
    LET rows == {x \in db.bindings : x.conv = c} IN
    IF rows = {} THEN Unbound ELSE (CHOOSE x \in rows : TRUE).target

---------------------------------------------------------------------------
(* Projection routes: [id, thread, conv, reply, cp], cp the checkpointed   *)
(* item with its time, or None.                                            *)

SameEndpoints(x, r) == x.thread = r.thread /\ x.conv = r.conv

\* merge_projection_route, with old the set holding the existing route if any.
MergeRoute(old, r) ==
    IF old = {} THEN Ok({}, r)
    ELSE LET x == CHOOSE x \in old : TRUE IN
         IF x.id # r.id \/ ~SameEndpoints(x, r) THEN Err({}, "route_conflict")
         ELSE IF r.cp # None /\ r.cp # x.cp THEN Err({}, "checkpoint_conflict")
         ELSE Ok({}, IF r.cp = None THEN [r EXCEPT !.cp = x.cp] ELSE r)

SqlMergeRoute(old, r) == MergeRoute(old, r)

ConflictingRouteId(rows, r) == \E x \in rows : x.id = r.id /\ ~SameEndpoints(x, r)

\* What put_projection_route would store in memory.
MemPrepareRoute(db, r) ==
    IF ConflictingRouteId(db.routes, r) THEN Err(db, "route_conflict")
    ELSE MergeRoute({x \in db.routes : SameEndpoints(x, r)}, r)

SqlReadRoute(db, id) == {x \in db.routes : x.id = id}

SqlReadRouteForEndpoints(db, r) == {x \in db.routes : SameEndpoints(x, r)}

SqlPrepareRoute(db, r) ==
    LET byId == SqlReadRoute(db, r.id) IN
    SqlMergeRoute(IF byId # {} THEN byId ELSE SqlReadRouteForEndpoints(db, r), r)

MemWriteRoute(db, r) == [db EXCEPT !.routes = {x \in @ : ~SameEndpoints(x, r)} \cup {r}]

\* INSERT ... ON CONFLICT(route_id) DO UPDATE of all but the endpoints; another
\* row at the same endpoints breaks the UNIQUE constraint.
SqlWriteRoute(db, r) ==
    LET old == SqlReadRoute(db, r.id) IN
    IF old # {}
    THEN Ok([db EXCEPT !.routes = {x \in @ : x.id # r.id}
                        \cup {[x EXCEPT !.reply = r.reply, !.cp = r.cp] : x \in old}], r)
    ELSE IF SqlReadRouteForEndpoints(db, r) # {} THEN Err(db, "integrity")
    ELSE Ok([db EXCEPT !.routes = @ \cup {r}], r)

---------------------------------------------------------------------------
MemCanon(db) == [lease |-> db.lease, namespace |-> db.namespace, routes |-> db.routes,
                 bound |-> [c \in Conversations |-> MemBinding(db, c)],
                 gen |-> [c \in Conversations |-> MemGeneration(db, c)]]

SqlCanon(db) == [lease |-> db.lease, namespace |-> db.namespace, routes |-> db.routes,
                 bound |-> [c \in Conversations |-> SqlBinding(db, c)],
                 gen |-> [c \in Conversations |-> SqlGeneration(db, c)]]

MemEmpty == [namespace |-> None, lease |-> NoLease, epoch |-> 0, routes |-> {},
             bound |-> [c \in Conversations |-> Unbound],
             boundGen |-> [c \in Conversations |-> 0],
             floor |-> [c \in Conversations |-> 0]]

SqlEmpty == [namespace |-> None, lease |-> NoLease, routes |-> {}, bindings |-> {},
             generations |-> {}]

\* Every call is answered alike by the two backends.
SameAnswer == differ = None
=============================================================================

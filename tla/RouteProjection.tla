-------------------------- MODULE RouteProjection --------------------------
(***************************************************************************)
(* The projection of one Agent Thread into one Conversation: the route     *)
(* coordinator (bootstrap barrier, route lock, action leases), the worker  *)
(* that drains live events, the bounded authoritative recovery, and the    *)
(* checkpoint.  Callers are Gateway operations and scoped actions.         *)
(*                                                                         *)
(* A Turn carries one completed message; items are numbered in native      *)
(* order, so Page and the catch-up read are functions of hist.             *)
(***************************************************************************)
EXTENDS Integers, Sequences, SequencesExt, FiniteSets, FiniteSetsExt

CONSTANTS
    Callers,         \* operations on the route; each runs once
    Kind,            \* [Callers -> "observe" | "input" | "bind" | "unbind" | "clear" | "action"]
    Foreground,      \* ProjectionPolicy.FOREGROUND_ONLY
    NumItems,        \* native items, for the model
    BaselineLimit, PageSize, MaxPages, ItemLimit,   \* recovery bounds
    MayAbort,        \* actions may be given up before their commit
    MaxFaults,       \* failed reads, sends and subscriptions, for the model
    MaxCrashes       \* restarts, for the model

RouteAssumption ==
    /\ BaselineLimit \in Nat \ {0} /\ PageSize \in Nat \ {0}
    /\ MaxPages \in Nat \ {0} /\ ItemLimit \in Nat \ {0}
    /\ Kind \in [Callers -> {"observe", "input", "bind", "unbind", "clear", "action"}]
    /\ Foreground \in BOOLEAN /\ MayAbort \in BOOLEAN /\ NumItems \in Nat /\ MaxFaults \in Nat /\ MaxCrashes \in Nat

W == "worker"
NoProc == "nobody"
Procs == Callers \cup {W}
NoItem == 0

VARIABLES
    hist,      \* items the Application has completed
    stream,    \* live items of the subscription not yet taken; a sequence
    route,     \* durable: [on, bound, ckpt]
    claims,    \* durable: [1..NumItems -> "none" | "in_flight" | "completed"]
    sent,      \* items the Channel has received, in order
    bar,       \* _bootstrap[route]: [gen, open]; gen 0 is no barrier
    gens,      \* barrier generations made
    pending,   \* route in _bootstrap_pending
    lease,     \* _action_bootstrap_users: [by, gen]
    retained,  \* _action_bootstrap_retained: a generation, or 0
    alock,     \* holder of the action lock
    locks,     \* holders of the route locks made so far; the last is current
    blocked,   \* route in _blocked_routes
    attempt,   \* the worker's _RecoveryAttempt: [needs, require]
    ready,     \* the worker's ready event
    pc, loc,   \* control and locals of every process
    owed,      \* callers that closed the barrier and saw no baseline since
    voided,    \* history: callers of owed whose closed barrier an abort retired
    gap,       \* a gap was recorded in the worker's health
    overtaken, \* history: items a read passed over, or brought after a newer one
    faults, crashes

native == <<hist, stream>>
durable == <<route, claims, sent>>
coord == <<bar, gens, pending, lease, retained, alock, locks, blocked>>
worker == <<attempt, ready>>
ghosts == <<owed, voided, gap, overtaken, faults, crashes>>
vars == <<native, durable, coord, worker, pc, loc, ghosts>>

Local0 == [lk |-> 1, gen |-> 0, ck |-> NoItem, todo |-> <<>>, page |-> 1, top |-> 0, found |-> FALSE,
           fresh |-> FALSE, claim |-> "none", alive |-> FALSE]

TypeOK ==
    /\ hist \in 0..NumItems /\ ToSet(stream) \subseteq 1..NumItems /\ ToSet(sent) \subseteq 1..NumItems
    /\ route \in [on : BOOLEAN, bound : BOOLEAN, ckpt : 0..NumItems]
    /\ claims \in [1..NumItems -> {"none", "in_flight", "completed"}]
    /\ bar.gen \in 0..gens /\ bar.open \in BOOLEAN /\ pending \in BOOLEAN /\ blocked \in BOOLEAN
    /\ lease.by \in Callers \cup {NoProc} /\ retained \in 0..gens
    /\ alock \in Callers \cup {NoProc} /\ ToSet(locks) \subseteq Procs \cup {NoProc}
    /\ attempt \in [needs : BOOLEAN, require : BOOLEAN] /\ ready \in BOOLEAN
    /\ DOMAIN pc = Procs /\ DOMAIN loc = Procs /\ owed \subseteq Callers
    /\ voided \subseteq Callers
    /\ gap \in BOOLEAN /\ overtaken \subseteq 1..NumItems /\ faults \in 0..MaxFaults /\ crashes \in 0..MaxCrashes

NoLease == [by |-> NoProc, gen |-> 0]
NoBarrier == [gen |-> 0, open |-> FALSE]

Init ==
    /\ hist = 0 /\ stream = <<>>
    /\ route = [on |-> FALSE, bound |-> FALSE, ckpt |-> NoItem]
    /\ claims = [i \in 1..NumItems |-> "none"] /\ sent = <<>>
    /\ bar = NoBarrier /\ gens = 0 /\ pending = FALSE /\ lease = NoLease /\ retained = 0
    /\ alock = NoProc /\ locks = <<NoProc>> /\ blocked = FALSE
    /\ attempt = [needs |-> FALSE, require |-> TRUE] /\ ready = FALSE
    /\ pc = [p \in Procs |-> IF p = W THEN "none" ELSE "idle"]
    /\ loc = [p \in Procs |-> Local0]
    /\ owed = {} /\ voided = {} /\ gap = FALSE /\ overtaken = {} /\ faults = 0 /\ crashes = 0

-----------------------------------------------------------------------------
(* Helpers. *)

(* active_routes: a foreground route counts only while its Conversation is bound. *)
Active == route.on /\ (Foreground => route.bound)

Subscribed == pc[W] \in {"run", "barrier", "llock", "lsend", "lcas", "done1"} \cup
                        {"rlock", "rget", "rpage", "rcatch", "rsend", "rcas"}

(* setdefault on _locks: a process is bound to the lock it asked for. *)
CurrentLock == Len(locks)

Go(p, l) == pc' = [pc EXCEPT ![p] = l]

Ask(p, l, r) == Go(p, l) /\ loc' = [loc EXCEPT ![p] = [r EXCEPT !.lk = CurrentLock]]

Free(p) == locks[loc[p].lk] = NoProc

Held(p) == [locks EXCEPT ![loc[p].lk] = IF @ = p THEN NoProc ELSE @]

(* _complete_bootstrap_if_unowned, with pending already cleared. *)
OpenIfUnowned(b, l, ret) ==
    IF b.gen = 0 \/ (l.by # NoProc /\ l.gen = b.gen) \/ ret = b.gen THEN b
    ELSE [b EXCEPT !.open = TRUE]

(* complete_bootstrap *)
CompleteBootstrap ==
    /\ gens' = IF bar.gen = 0 THEN gens + 1 ELSE gens
    /\ bar' = OpenIfUnowned(IF bar.gen = 0 THEN [gen |-> gens + 1, open |-> FALSE] ELSE bar, lease, retained)
    /\ pending' = FALSE

(* The barrier a bootstrap joins: a fresh one unless a closed one is there. *)
CloseBarrier ==
    IF bar.gen = 0 \/ bar.open
    THEN /\ gens' = gens + 1
         /\ bar' = [gen |-> gens + 1, open |-> FALSE]
         /\ retained' = 0
    ELSE UNCHANGED <<gens, bar, retained>>

(* The generation a process that closes the barrier ends up with. *)
JoinedGen == IF bar.gen = 0 \/ bar.open THEN gens + 1 ELSE bar.gen

(* _ensure_projection starts the one worker of the Thread. *)
StartWorker(needs) ==
    /\ attempt' = [needs |-> needs, require |-> TRUE]
    /\ ready' = FALSE

(* Cancelling the worker: its finally blocks release the lock, end the
   subscription and, in a reconciliation, complete the bootstrap. *)
Reconciling(p) == pc[p] \in {"rlock", "rget", "rpage", "rcatch", "rsend", "rcas"}

CancelWorker ==
    /\ stream' = <<>> /\ ready' = TRUE
    /\ IF Reconciling(W) THEN CompleteBootstrap ELSE UNCHANGED <<gens, bar, pending>>

-----------------------------------------------------------------------------
(* The Application completes an item; a live subscription is told. *)
Produce ==
    /\ hist < NumItems
    /\ hist' = hist + 1
    /\ stream' = IF Subscribed THEN Append(stream, hist + 1) ELSE stream
    /\ UNCHANGED <<durable, coord, worker, pc, loc, ghosts>>

-----------------------------------------------------------------------------
(* Callers: Gateway operations hold the lock of the Conversation, actions do not. *)

Conv == {c \in Callers : Kind[c] \in {"observe", "input", "bind", "unbind"}}
InConversation == \E c \in Conv : pc[c] \notin {"idle", "done"}

(* observe_thread and prepare_foreground_binding_route begin with the barrier;
   prepare_input_route only when the route or its worker is missing. *)
Begin(c) ==
    /\ pc[c] = "idle" /\ Kind[c] \in {"observe", "bind", "input"} /\ ~InConversation
    /\ IF Kind[c] = "input" /\ route.on /\ pc[W] # "none"
       THEN /\ Go(c, "put") /\ UNCHANGED loc
       ELSE Ask(c, "bb", [Local0 EXCEPT !.fresh = TRUE])
    /\ UNCHANGED <<native, durable, coord, worker, ghosts>>

(* begin_bootstrap, under the route lock. *)
BeginBootstrap(p) ==
    /\ pc[p] \in {"bb", "bb2", "abb", "wbb"} /\ Free(p)
    /\ IF pc[p] = "abb" /\ lease.by # p
       THEN Go(p, "fail") /\ UNCHANGED <<gens, bar, retained, pending>>
       ELSE /\ CloseBarrier /\ pending' = TRUE
            /\ Go(p, CASE pc[p] = "bb" -> "put"
                       [] pc[p] = "wbb" -> "sub"
                       [] pc[p] = "bb2" /\ loc[p].alive -> "rlock"
                       [] OTHER -> "ensure")
    /\ loc' = [loc EXCEPT ![p].lk = CurrentLock]
    /\ owed' = IF p \in Callers THEN owed \cup {p} ELSE owed
    /\ voided' = voided \ {p}
    /\ UNCHANGED <<native, durable, lease, alock, locks, blocked, worker, gap, overtaken, faults, crashes>>

(* _remember_route: the route becomes durable; a refresh keeps its checkpoint. *)
Remember(c) ==
    /\ pc[c] = "put"
    /\ route' = [route EXCEPT !.on = TRUE]
    /\ loc' = [loc EXCEPT ![c].fresh = @ \/ ~route.on]
    /\ Go(c, IF Kind[c] = "bind" THEN "cas" ELSE "ensure")
    /\ UNCHANGED <<native, claims, sent, coord, worker, ghosts>>

(* commit_thread_binding, then handle_binding_change. *)
Bind(c) ==
    /\ pc[c] = "cas"
    /\ \/ /\ route' = [route EXCEPT !.bound = TRUE]
          /\ IF ~route.on THEN Go(c, "done") /\ UNCHANGED loc
             ELSE Ask(c, "bb2", [loc[c] EXCEPT !.alive = pc[W] # "none"])
          /\ UNCHANGED <<gens, bar, pending, owed, faults>>
       \/ /\ faults < MaxFaults /\ faults' = faults + 1      \* BindingConflict
          /\ CompleteBootstrap /\ Go(c, "done") /\ owed' = owed \ {c}
          /\ UNCHANGED <<route, loc>>
    /\ UNCHANGED <<native, claims, sent, lease, retained, alock, locks, blocked, worker, gap, overtaken, voided, crashes>>

(* _ensure_projection, then the wait for its ready event. *)
Ensure(c) ==
    /\ pc[c] = "ensure"
    /\ IF pc[W] = "none" THEN StartWorker(FALSE) ELSE UNCHANGED worker
    /\ pc' = [pc EXCEPT ![c] = "wait", ![W] = IF @ = "none" THEN "check" ELSE @]
    /\ loc' = IF pc[W] = "none" THEN [loc EXCEPT ![W] = Local0] ELSE loc
    /\ UNCHANGED <<native, durable, coord, ghosts>>

(* The caller goes on once the worker is ready or gone. *)
Observed(c) ==
    /\ pc[c] = "wait" /\ (ready \/ pc[W] = "none")
    /\ LET next == IF Kind[c] = "action" THEN (IF pc[W] = "none" THEN "fail" ELSE "rlock")
                   ELSE IF Kind[c] = "input" THEN (IF loc[c].fresh THEN "rlock" ELSE "end")
                   ELSE IF Active THEN "rlock" ELSE "end"
       IN Ask(c, next, loc[c])
    /\ UNCHANGED <<native, durable, coord, worker, ghosts>>

(* The finally block of observe_thread and prepare_input_route. *)
End(c) ==
    /\ pc[c] = "end"
    /\ IF Kind[c] \in {"observe", "input"} /\ loc[c].fresh THEN CompleteBootstrap
       ELSE UNCHANGED <<gens, bar, pending>>
    /\ owed' = owed \ (IF Kind[c] = "bind" THEN {} ELSE {c})
    /\ Go(c, "done")
    /\ UNCHANGED <<native, durable, lease, retained, alock, locks, blocked, worker, loc, gap, overtaken, voided, faults, crashes>>

(* ClearConversationThread: the binding goes, then an unobserved worker is cancelled. *)
Unbind(c) ==
    /\ Kind[c] = "unbind"
    /\ \/ /\ pc[c] = "idle" /\ ~InConversation /\ route.bound
          /\ route' = [route EXCEPT !.bound = FALSE]
          /\ Go(c, "stop") /\ UNCHANGED <<native, claims, sent, coord, worker, loc, ghosts>>
       \/ /\ pc[c] = "stop"
          /\ IF Active \/ pc[W] = "none"
             THEN Go(c, "done") /\ UNCHANGED <<stream, ready, gens, bar, pending, locks>>
             ELSE /\ CancelWorker /\ locks' = Held(W)
                  /\ pc' = [pc EXCEPT ![c] = "done", ![W] = "none"]
          /\ UNCHANGED <<hist, durable, lease, retained, alock, blocked, attempt, loc, ghosts>>

(* forget_route_ids: waiters are woken, and the next user makes a new lock. *)
Forget ==
    /\ bar' = NoBarrier /\ pending' = FALSE /\ retained' = 0
    /\ locks' = Append(locks, NoProc) /\ blocked' = FALSE
    /\ owed' = IF route.on THEN owed ELSE {}

(* The route is removed by another Conversation or with its Thread: the row
   first, then forget_route_ids retires the coordination of the route. *)
Clear(c) ==
    /\ Kind[c] = "clear"
    /\ \/ /\ pc[c] = "idle" /\ route.on
          /\ route' = [route EXCEPT !.on = FALSE, !.ckpt = NoItem]
          /\ Go(c, "stop") /\ UNCHANGED <<bar, pending, retained, locks, blocked, owed>>
       \/ /\ pc[c] = "stop"
          /\ Forget /\ Go(c, "done") /\ UNCHANGED route
    /\ UNCHANGED <<native, claims, sent, gens, lease, alock, worker, loc, gap, overtaken, voided, faults, crashes>>

-----------------------------------------------------------------------------
(* Scoped actions on the route. *)

(* begin_action_bootstrap: the action lock, then a lease on the barrier. *)
LockAction(c) ==
    /\ pc[c] = "idle" /\ Kind[c] = "action" /\ alock = NoProc
    /\ alock' = c /\ Ask(c, "lease", Local0)
    /\ UNCHANGED <<native, durable, bar, gens, pending, lease, retained, locks, blocked, worker, ghosts>>

Lease(c) ==
    /\ pc[c] = "lease" /\ Free(c)
    /\ CloseBarrier
    /\ pending' = (pending /\ bar.gen # 0 /\ ~bar.open)
    /\ lease' = [by |-> c, gen |-> JoinedGen]
    /\ loc' = [loc EXCEPT ![c].gen = JoinedGen]
    /\ Go(c, "commit") /\ owed' = owed \cup {c} /\ voided' = voided \ {c}
    /\ UNCHANGED <<native, durable, alock, locks, blocked, worker, gap, overtaken, faults, crashes>>

(* fence_action_route_commit and the store transaction; then
   reconcile_action_route reads the active routes. *)
Commit(c) ==
    /\ pc[c] = "commit"
    /\ route' = [route EXCEPT !.on = TRUE, !.bound = @ \/ Foreground]
    /\ Go(c, "active")
    /\ UNCHANGED <<native, claims, sent, coord, worker, loc, ghosts>>

(* reconcile_action_route reads the active routes: a removed route is
   forgotten, an active one gets a bootstrap of its own. *)
ReadActive(c) ==
    /\ pc[c] = "active"
    /\ IF Active THEN Ask(c, "abb", loc[c]) /\ UNCHANGED <<bar, pending, retained, locks, blocked, owed>>
       ELSE Forget /\ Go(c, "won") /\ UNCHANGED loc
    /\ UNCHANGED <<native, durable, gens, lease, alock, worker, gap, overtaken, voided, faults, crashes>>

(* complete_action_bootstrap *)
CompleteAction(c, reconciled) ==
    LET mine == lease.by = c
        same == mine /\ bar.gen = lease.gen
        ret == IF reconciled = "yes" THEN 0 ELSE IF reconciled = "no" THEN bar.gen ELSE retained
    IN /\ lease' = IF mine THEN NoLease ELSE lease
       /\ retained' = IF same THEN ret ELSE retained
       /\ bar' = IF same /\ ~pending THEN OpenIfUnowned(bar, NoLease, ret) ELSE bar
       /\ alock' = IF alock = c THEN NoProc ELSE alock

(* complete_action_route after a reconciliation or its failure *)
Complete(c) ==
    /\ pc[c] \in {"fail", "won"} /\ Kind[c] = "action"
    /\ CompleteAction(c, IF pc[c] = "won" THEN "yes" ELSE "no")
    /\ Go(c, "done") /\ owed' = IF bar.gen = lease.gen THEN owed ELSE owed \ {c}
    /\ UNCHANGED <<native, durable, gens, pending, locks, blocked, worker, loc, gap, overtaken, voided, faults, crashes>>

(* abort_action_route before the commit: the lease goes, then the barrier
   generation is retired under the route lock. *)
Abort(c) ==
    /\ pc[c] = "commit" /\ MayAbort
    /\ CompleteAction(c, "none")
    /\ Ask(c, "retire", loc[c]) /\ owed' = owed \ {c}
    /\ UNCHANGED <<native, durable, gens, pending, locks, blocked, worker, gap, overtaken, voided, faults, crashes>>

Retire(c) ==
    /\ pc[c] = "retire" /\ Free(c)
    /\ IF bar.gen = loc[c].gen /\ lease.by = NoProc
       THEN /\ bar' = NoBarrier /\ pending' = FALSE
            /\ retained' = IF retained = bar.gen THEN 0 ELSE retained
            /\ locks' = Append(locks, NoProc) /\ blocked' = FALSE
            /\ voided' = voided \cup owed
       ELSE UNCHANGED <<bar, pending, retained, locks, blocked, voided>>
    /\ Go(c, "done")
    /\ UNCHANGED <<native, durable, gens, lease, alock, worker, loc, owed, gap, overtaken, faults, crashes>>

-----------------------------------------------------------------------------
(* deliver_authoritative, run by callers and by the worker. *)

Retain(p) == p # W /\ Kind[p] \in {"bind", "action"}
Validated(p) == p # W /\ Kind[p] = "action"
Require(p) == IF p = W THEN attempt.require ELSE Kind[p] = "bind"

(* Where a reconciliation continues: success, or failure. *)
After(p, ok) ==
    IF p = W THEN (IF ok THEN "run" ELSE "check")
    ELSE IF Kind[p] = "action" THEN (IF ok THEN "won" ELSE "fail") ELSE "end"

(* The finally block of deliver_authoritative, and what its caller does next;
   a missing row is no error, but it is no completed delivery either. *)
LeaveRecon(p, ok, completed) ==
    /\ locks' = Held(p)
    /\ IF completed \/ ~Retain(p) THEN CompleteBootstrap ELSE UNCHANGED <<gens, bar, pending>>
    /\ owed' = IF completed THEN {} ELSE IF ok \/ ~Retain(p) THEN owed \ {p} ELSE owed
    /\ attempt' = IF p # W THEN attempt ELSE [needs |-> ~ok, require |-> TRUE]
    /\ LET stopW == ~ok /\ p # W /\ Kind[p] = "bind" /\ ~loc[p].alive /\ pc[W] # "none"
       IN /\ pc' = [pc EXCEPT ![p] = After(p, ok), ![W] = IF stopW THEN "none" ELSE IF p = W THEN After(p, ok) ELSE @]
          /\ stream' = IF stopW \/ (p = W /\ ~ok) THEN <<>> ELSE stream
          /\ ready' = (ready \/ stopW \/ p = W)

(* validate_lifecycle of an action, at every suspension: the worker is gone. *)
LoseWorker(p) ==
    /\ Reconciling(p) /\ Validated(p) /\ pc[W] = "none"
    /\ LeaveRecon(p, FALSE, FALSE)
    /\ UNCHANGED <<hist, durable, lease, retained, alock, blocked, loc, gap, overtaken, voided, faults, crashes>>

Live(p) == Validated(p) => pc[W] # "none"

LockRoute(p) ==
    /\ pc[p] = "rlock" /\ Free(p) /\ Live(p)
    /\ locks' = [locks EXCEPT ![loc[p].lk] = p] /\ Go(p, "rget")
    /\ UNCHANGED <<native, durable, bar, gens, pending, lease, retained, alock, blocked, worker, loc, ghosts>>

(* The row is read again under the lock; a missing one ends the reconciliation,
   which has not completed. *)
GetRoute(p) ==
    /\ pc[p] = "rget" /\ Live(p)
    /\ IF route.on
       THEN /\ Go(p, "rpage")
            /\ loc' = [loc EXCEPT ![p] = [@ EXCEPT !.ck = route.ckpt, !.page = 1, !.found = FALSE, !.todo = <<>>]]
            /\ UNCHANGED <<stream, bar, gens, pending, locks, worker, owed>>
       ELSE LeaveRecon(p, TRUE, FALSE) /\ UNCHANGED loc
    /\ UNCHANGED <<hist, durable, lease, retained, alock, blocked, gap, overtaken, voided, faults, crashes>>

(* A read of the Application fails, or the caller is cancelled. *)
ReadFails(p) ==
    /\ pc[p] \in {"rpage", "rcatch"} /\ faults < MaxFaults
    /\ faults' = faults + 1 /\ LeaveRecon(p, FALSE, FALSE)
    /\ UNCHANGED <<hist, durable, lease, retained, alock, blocked, loc, gap, overtaken, voided, crashes>>

(* Page n of the history, newest page first, items ascending. *)
Page(n, limit) ==
    LET hi == hist - (n - 1) * limit
        lo == Max({1, hi - limit + 1})
    IN [i \in 1..Max({0, hi - lo + 1}) |-> lo + i - 1]

(* One page toward the checkpoint; a route without one reads a single page. *)
ReadPage(p) ==
    /\ pc[p] = "rpage" /\ Live(p)
    /\ LET l == loc[p]
           limit == IF l.ck = NoItem THEN BaselineLimit ELSE PageSize
           page == Page(l.page, limit)
           found == l.ck # NoItem /\ l.ck \in ToSet(page)
           older == hist > l.page * limit
           last == l.ck = NoItem \/ found \/ ~older \/ l.page = MaxPages
       IN /\ loc' = [loc EXCEPT ![p] = [l EXCEPT !.todo = page \o @, !.found = found, !.top = IF l.page = 1 THEN hist ELSE @,
                                                 !.page = IF last THEN @ ELSE @ + 1]]
          /\ gap' = (gap \/ (last /\ ~found /\ (l.ck # NoItem \/ Require(p))))
          /\ Go(p, IF last THEN "rcatch" ELSE "rpage")
    /\ UNCHANGED <<native, durable, coord, worker, owed, overtaken, voided, faults, crashes>>

Distinct(s) == FoldLeft(LAMBDA acc, x : IF x \in ToSet(acc) THEN acc ELSE Append(acc, x), <<>>, s)

(* Mutant: the catch-up is put before the pages. *)
CatchupFirst(s, ck, found) == Distinct((IF hist = 0 THEN <<>> ELSE <<hist>>) \o s)

(* The items after the checkpoint, or the recent ones, each once; then cut. *)
Window(s, ck, found) ==
    LET from == IF found THEN SubSeq(s, SelectInSeq(s, LAMBDA x : x = ck) + 1, Len(s)) ELSE s
    IN Distinct(from \o (IF hist = 0 THEN <<>> ELSE <<hist>>))

Cut(w, found) ==
    IF Len(w) <= ItemLimit THEN w
    ELSE IF found THEN SubSeq(w, 1, ItemLimit) ELSE SubSeq(w, Len(w) - ItemLimit + 1, Len(w))

(* Live items the subscription holds, or the worker has in hand. *)
LiveItems == ToSet(stream) \cup (IF pc[W] \in {"barrier", "llock"} THEN ToSet(loc[W].todo) ELSE {})

(* The undelivered items that a read passes over for a newer one: live items the
   route has not taken yet, and those completed after its first page. *)
Overtaken(w, top) ==
    {i \in LiveItems \cup (top + 1)..hist :
        i \notin ToSet(w) /\ claims[i] = "none" /\ \E j \in ToSet(w) : i < j}

(* The undelivered items that a read which did not find its checkpoint brings after
   a newer one was delivered. *)
Belated(w) == {i \in ToSet(w) : claims[i] = "none" /\ \E j \in ToSet(sent) : i < j}

(* The catch-up of the current Turn ends the read; acceptance is awaited. *)
ReadCatchup(p) ==
    /\ pc[p] = "rcatch" /\ Live(p)
    /\ LET l == loc[p]
           w == Window(l.todo, l.ck, l.found)
       IN /\ gap' = (gap \/ Len(w) > ItemLimit)
          /\ overtaken' = overtaken \cup Overtaken(Cut(w, l.found), l.top)
                           \cup (IF l.found THEN {} ELSE Belated(w))
          /\ IF w = <<>> THEN LeaveRecon(p, TRUE, TRUE) /\ UNCHANGED loc
             ELSE /\ loc' = [loc EXCEPT ![p].todo = Cut(w, l.found)] /\ Go(p, "rsend")
                  /\ UNCHANGED <<stream, bar, gens, pending, locks, worker, owed>>
    /\ UNCHANGED <<hist, durable, lease, retained, alock, blocked, voided, faults, crashes>>

(* The outbound claim and send of an item, as deliver_outbound reports it;
   an interrupted send leaves the claim in flight, sent or not. *)
Deliver(i, outcome) ==
    \/ /\ claims[i] = "completed" /\ outcome = "already" /\ UNCHANGED <<claims, sent, faults>>
    \/ /\ claims[i] = "in_flight" /\ outcome = "blocked" /\ UNCHANGED <<claims, sent, faults>>
    \/ /\ claims[i] = "none"
       /\ \/ /\ outcome = "acquired" /\ claims' = [claims EXCEPT ![i] = "completed"]
             /\ sent' = Append(sent, i) /\ UNCHANGED faults
          \/ /\ outcome = "blocked" /\ faults < MaxFaults /\ faults' = faults + 1
             /\ claims' = [claims EXCEPT ![i] = "in_flight"]
             /\ sent' \in {sent, Append(sent, i)}

(* _deliver_messages: a blocked route ends the delivery, quietly unless an action asks. *)
SendItem(p) ==
    /\ pc[p] = "rsend" /\ Live(p)
    /\ IF blocked
       THEN LeaveRecon(p, ~Validated(p), ~Validated(p)) /\ UNCHANGED <<claims, sent, faults, blocked, loc>>
       ELSE \E outcome \in {"acquired", "already", "blocked"} :
              /\ Deliver(Head(loc[p].todo), outcome)
              /\ IF outcome = "blocked"
                 THEN blocked' = TRUE /\ LeaveRecon(p, ~Validated(p), ~Validated(p)) /\ UNCHANGED loc
                 ELSE /\ Go(p, "rcas")
                      /\ UNCHANGED <<stream, bar, gens, pending, locks, worker, owed, blocked, loc>>
    /\ UNCHANGED <<hist, route, lease, retained, alock, gap, overtaken, voided, crashes>>

(* advance_projection_checkpoint: compare and swap on the row. *)
AdvanceCheckpoint(ck, i) ==
    /\ route.on /\ route.ckpt = ck
    /\ route' = [route EXCEPT !.ckpt = i]

(* apply_delivery_outcome in recovery; a conflict fails the reconciliation. *)
CheckpointItem(p) ==
    /\ pc[p] = "rcas" /\ Live(p)
    /\ LET i == Head(loc[p].todo)
           rest == Tail(loc[p].todo)
       IN \/ /\ IF loc[p].ck = i THEN UNCHANGED route ELSE AdvanceCheckpoint(loc[p].ck, i)
             /\ loc' = [loc EXCEPT ![p] = [@ EXCEPT !.ck = i, !.todo = rest]]
             /\ IF rest = <<>> THEN LeaveRecon(p, TRUE, TRUE)
                ELSE Go(p, "rsend") /\ UNCHANGED <<stream, bar, gens, pending, locks, worker, owed>>
          \/ /\ loc[p].ck # i /\ (~route.on \/ route.ckpt # loc[p].ck)
             /\ LeaveRecon(p, FALSE, FALSE) /\ UNCHANGED <<route, loc>>
    /\ UNCHANGED <<hist, claims, sent, lease, retained, alock, blocked, gap, overtaken, voided, faults, crashes>>

-----------------------------------------------------------------------------
(* The worker: _project_thread and _deliver_to_route. *)

(* Observation still required?  A recovery closes the barrier before it subscribes. *)
CheckObserved ==
    /\ pc[W] = "check"
    /\ IF ~Active THEN Go(W, "none") /\ ready' = TRUE /\ UNCHANGED loc
       ELSE /\ Ask(W, IF attempt.needs THEN "wbb" ELSE "sub", loc[W]) /\ UNCHANGED ready
    /\ UNCHANGED <<native, durable, coord, attempt, ghosts>>

Subscribe ==
    /\ pc[W] = "sub"
    /\ stream' = <<>> /\ ready' = TRUE
    /\ Ask(W, IF ~attempt.needs THEN "run" ELSE IF Active THEN "rlock" ELSE "run", loc[W])
    /\ UNCHANGED <<hist, durable, coord, attempt, ghosts>>

(* The stream ends, overflows or reports an ordering gap: _recover_after_failure. *)
LoseStream ==
    /\ pc[W] \in {"run", "barrier"} /\ faults < MaxFaults
    /\ faults' = faults + 1
    /\ stream' = <<>> /\ attempt' = [needs |-> TRUE, require |-> TRUE] /\ Go(W, "check")
    /\ UNCHANGED <<hist, durable, coord, ready, loc, owed, gap, overtaken, voided, crashes>>

(* The next live item, and the barrier it must pass; a missing one is made open. *)
TakeEvent ==
    /\ pc[W] = "run" /\ stream # <<>>
    /\ stream' = Tail(stream)
    /\ loc' = [loc EXCEPT ![W].todo = <<Head(stream)>>]
    /\ Go(W, IF Active THEN "barrier" ELSE "run")
    /\ UNCHANGED <<hist, durable, coord, worker, ghosts>>

PassBarrier ==
    /\ pc[W] = "barrier" /\ (bar.gen = 0 \/ bar.open)
    /\ gens' = IF bar.gen = 0 THEN gens + 1 ELSE gens
    /\ bar' = IF bar.gen = 0 THEN [gen |-> gens + 1, open |-> TRUE] ELSE bar
    /\ Ask(W, "llock", [loc[W] EXCEPT !.gen = bar'.gen])
    /\ UNCHANGED <<native, durable, pending, lease, retained, alock, locks, blocked, worker, ghosts>>

(* Mutant: the barrier is not looked at again under the lock. *)
RecheckNothing ==
    /\ pc[W] = "llock" /\ Free(W)
    /\ IF blocked \/ ~route.on THEN Go(W, "done1") /\ UNCHANGED <<locks, loc>>
       ELSE /\ locks' = [locks EXCEPT ![loc[W].lk] = W]
            /\ loc' = [loc EXCEPT ![W].ck = route.ckpt] /\ Go(W, "lsend")
    /\ UNCHANGED <<native, durable, bar, gens, pending, lease, retained, alock, blocked, worker, ghosts>>

(* Under the lock the same generation must still be there and open. *)
Recheck ==
    /\ pc[W] = "llock" /\ Free(W)
    /\ IF bar.gen # loc[W].gen \/ ~bar.open THEN Go(W, "barrier") /\ UNCHANGED <<locks, loc>>
       ELSE IF blocked \/ ~route.on THEN Go(W, "done1") /\ UNCHANGED <<locks, loc>>
       ELSE /\ locks' = [locks EXCEPT ![loc[W].lk] = W]
            /\ loc' = [loc EXCEPT ![W].ck = route.ckpt] /\ Go(W, "lsend")
    /\ UNCHANGED <<native, durable, bar, gens, pending, lease, retained, alock, blocked, worker, ghosts>>

(* deliver_projected_message, live: a blocked destination isolates the route. *)
SendLive ==
    /\ pc[W] = "lsend"
    /\ \E outcome \in {"acquired", "already", "blocked"} :
         /\ Deliver(Head(loc[W].todo), outcome)
         /\ IF outcome = "acquired" THEN Go(W, "lcas") /\ UNCHANGED <<locks, blocked>>
            ELSE /\ locks' = Held(W) /\ blocked' = (blocked \/ outcome = "blocked") /\ Go(W, "done1")
    /\ UNCHANGED <<native, route, bar, gens, pending, lease, retained, alock, worker, loc, owed, gap, overtaken, voided, crashes>>

(* A live duplicate moved nothing; a fresh delivery moves the checkpoint, and
   a conflict is a failure of the worker. *)
CheckpointLive ==
    /\ pc[W] = "lcas"
    /\ locks' = Held(W)
    /\ LET i == Head(loc[W].todo)
       IN \/ /\ AdvanceCheckpoint(loc[W].ck, i)
             /\ Go(W, "done1") /\ UNCHANGED <<attempt, stream>>
          \/ /\ ~route.on \/ route.ckpt # loc[W].ck
             /\ attempt' = [needs |-> TRUE, require |-> TRUE] /\ stream' = <<>> /\ Go(W, "check")
             /\ UNCHANGED route
    /\ UNCHANGED <<hist, claims, sent, bar, gens, pending, lease, retained, alock, blocked, ready, loc, ghosts>>

(* After each event the worker looks whether the Thread is still observed. *)
EventDone ==
    /\ pc[W] = "done1"
    /\ Go(W, IF Active THEN "run" ELSE "none")
    /\ stream' = IF Active THEN stream ELSE <<>>
    /\ UNCHANGED <<hist, durable, coord, worker, loc, ghosts>>

(* The Gateway dies and is restored: durable rows stay, active routes get a
   closed barrier and a worker that must reconcile. *)
Crash ==
    /\ crashes < MaxCrashes /\ crashes' = crashes + 1
    /\ claims' \in {claims} \cup
         {[claims EXCEPT ![Head(loc[p].todo)] = "in_flight"] :
            p \in {q \in Procs : pc[q] \in {"rsend", "lsend"} /\ claims[Head(loc[q].todo)] = "none"}}
    /\ stream' = <<>> /\ lease' = NoLease /\ retained' = 0 /\ alock' = NoProc
    /\ locks' = <<NoProc>> /\ blocked' = FALSE
    /\ pc' = [p \in Procs |-> IF p = W THEN (IF Active THEN "check" ELSE "none")
                              ELSE IF pc[p] = "idle" THEN "idle" ELSE "done"]
    /\ loc' = [p \in Procs |-> Local0]
    /\ gens' = IF Active THEN 1 ELSE 0
    /\ bar' = IF Active THEN [gen |-> 1, open |-> FALSE] ELSE NoBarrier
    /\ pending' = Active
    /\ attempt' = [needs |-> TRUE, require |-> TRUE] /\ ready' = FALSE
    /\ owed' = {} /\ voided' = {}
    /\ UNCHANGED <<hist, route, sent, gap, overtaken, faults>>

-----------------------------------------------------------------------------
Reconcile(p) ==
    \/ LockRoute(p) \/ GetRoute(p) \/ ReadPage(p) \/ ReadCatchup(p)
    \/ SendItem(p) \/ CheckpointItem(p) \/ LoseWorker(p)

CallerStep(c) ==
    \/ BeginBootstrap(c) \/ Remember(c) \/ Bind(c) \/ Ensure(c) \/ Observed(c) \/ End(c)
    \/ Lease(c) \/ Commit(c) \/ ReadActive(c) \/ Complete(c) \/ Retire(c) \/ Reconcile(c)

WorkerStep ==
    \/ CheckObserved \/ BeginBootstrap(W) \/ Subscribe \/ Reconcile(W)
    \/ TakeEvent \/ PassBarrier \/ Recheck \/ SendLive \/ CheckpointLive \/ EventDone

Next ==
    \/ Produce \/ LoseStream \/ Crash \/ WorkerStep \/ ReadFails(W)
    \/ \E c \in Callers : Begin(c) \/ LockAction(c) \/ Unbind(c) \/ Clear(c) \/ Abort(c)
                          \/ CallerStep(c) \/ ReadFails(c)

Spec == Init /\ [][Next]_vars

(* asyncio runs every task that can run; new calls need not come. *)
LiveSpec ==
    /\ Spec /\ WF_vars(WorkerStep)
    /\ \A c \in Callers : WF_vars(CallerStep(c)) /\ WF_vars((Unbind(c) \/ Clear(c)) /\ pc[c] = "stop")

-----------------------------------------------------------------------------
(* No live item reaches a Conversation while a caller that closed the barrier of
   its route still waits for a baseline, whoever else completes, fails or retires
   a bootstrap meanwhile. The exception is named: abort_action_bootstrap retires
   the generation it joined, and with it the closed barrier of the others that
   joined it or whose baseline failed (observation.py:1473). *)
LiveSend == pc[W] = "lsend" /\ Len(sent') > Len(sent) /\ pc'[W] # "lsend"

BaselineFirst == [][LiveSend => owed \subseteq voided]_vars

(* A Conversation receives the items of a Thread in native order, across
   recoveries, restarts and recorded gaps. An item may come late in two cases, which
   are named: the catch-up read after the pages returned a newer one while it waited
   in the live stream, behind the barrier (recovery.py:550); or the read that brings
   it did not find the checkpoint and returned the recent items. *)
InOrder ==
    \A i, j \in 1..Len(sent) : i < j => sent[i] < sent[j] \/ sent[j] \in overtaken

(* The checkpoint never passes an item that was not decided, except one older
   than the first baseline of the route, one passed over by a read and still to
   come live, or one whose loss was recorded. *)
NothingSkipped ==
    \A i, j \in 1..NumItems :
        (i < j /\ j <= route.ckpt /\ ~gap /\ claims[i] # "none") => claims[j] # "none" \/ j \in overtaken

=============================================================================

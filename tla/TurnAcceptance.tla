--------------------------- MODULE TurnAcceptance ---------------------------
(***************************************************************************)
(* The turn acceptance ordering gate of one Thread (input/dispatch.py):    *)
(* while an input is on its way to the Application, events of its Thread   *)
(* are held back, so that no event is applied before the input that caused *)
(* it is correlated. The gate is used by the input dispatches and by the   *)
(* observation worker of the Thread, which subscribes, recovers and        *)
(* consumes native events (projection/observation.py), and it interacts    *)
(* with the bootstrap barrier of the route under which the worker, or a    *)
(* caller that observes the Thread, reconciles with the native history.    *)
(*                                                                         *)
(* The event lock is an asyncio.Lock: first come, first served, and taken  *)
(* without a pause when it is free. Its object can be dropped from the     *)
(* gate while a task still holds it, so locks have identities.             *)
(***************************************************************************)
EXTENDS Integers, Sequences, FiniteSets

CONSTANTS
    Dispatches,  \* input dispatches of the Thread; each runs once
    Worker,      \* the observation worker's task
    Nobody,      \* no dispatch
    LockIds,     \* identities of event locks
    MaxEvents,   \* bound on native events
    MaxPending,  \* turn acceptance event maximum
    MaxFaults,   \* bound on failures of subscriptions, reads and deliveries
    MaxObserves, \* bound on the times the Thread is observed again
    DrainFaults  \* whether a delivery may also fail while a drain applies

GateAssumption ==
    /\ Worker \notin Dispatches /\ Nobody \notin Dispatches
    /\ LockIds \subseteq Nat \ {0}
    /\ MaxEvents \in Nat /\ MaxPending \in Nat \ {0}
    /\ MaxFaults \in Nat /\ MaxObserves \in Nat
    /\ DrainFaults \in BOOLEAN

Events == 1..MaxEvents
Tasks  == Dispatches \cup {Worker}

VARIABLES
    emitted,   \* native events so far
    cause,     \* [Events -> dispatch whose input caused the event, or Nobody]
    pending,   \* acceptances in progress
    buffered,  \* events held back
    over,      \* the buffer has overflowed
    current,   \* event lock in the gate, or 0
    locks,     \* [LockIds -> holder and waiters]
    dispatch,  \* [Dispatches -> control of an input dispatch]
    worker,    \* control of the observation worker
    gap,       \* an ordering gap is to be recovered
    observed,  \* the Thread has an active route
    barrier,   \* the bootstrap barrier of the route is closed
    recon,     \* control of a caller that reconciles the route
    faults,    \* failures so far
    observes,  \* times the Thread was observed again
    done,      \* events the route has received
    excused    \* history: events whose loss a caller was told of

gateVars   == <<pending, buffered, over>>
lockVars   == <<current, locks>>
nativeVars == <<emitted, cause>>
routeVars  == <<observed, barrier, recon, done, excused>>
bounds     == <<faults, observes>>
vars == <<nativeVars, gateVars, lockVars, dispatch, worker, gap, routeVars, bounds>>

DispatchType ==
    [pc : {"idle", "sending", "lock", "drain", "ensure", "accepted", "post", "failed"},
     accepted : BOOLEAN, ok : BOOLEAN, todo : Seq(Events), lock : LockIds \cup {0}]
WorkerType ==
    [pc : {"off", "top", "sleep", "subscribe", "read", "await", "deliver", "next",
           "lock", "apply", "check", "backoff"},
     lock : LockIds \cup {0}, position : 0..MaxEvents,
     upto : 0..MaxEvents, reconcile : BOOLEAN, cancel : BOOLEAN, stranded : BOOLEAN]

TypeOK ==
    /\ emitted \in 0..MaxEvents
    /\ cause \in [Events -> Dispatches \cup {Nobody}]
    /\ pending \in 0..Cardinality(Dispatches)
    /\ buffered \in Seq(Events) /\ Len(buffered) <= MaxPending
    /\ over \in BOOLEAN /\ gap \in BOOLEAN /\ observed \in BOOLEAN /\ barrier \in BOOLEAN
    /\ current \in LockIds \cup {0}
    /\ locks \in [LockIds -> Seq(Tasks)]
    /\ dispatch \in [Dispatches -> DispatchType]
    /\ worker \in WorkerType
    /\ recon \in [pc : {"off", "ensure", "await", "deliver"}, upto : 0..MaxEvents]
    /\ faults \in 0..MaxFaults /\ observes \in 0..MaxObserves
    /\ done \subseteq Events /\ excused \subseteq Events

NoWorker == [pc |-> "off", lock |-> 0, position |-> 0, upto |-> 0,
             reconcile |-> FALSE, cancel |-> FALSE, stranded |-> FALSE]
NewWorker(reconcile) == [NoWorker EXCEPT !.pc = "top", !.reconcile = reconcile]

(* restore(): the route of an earlier run is observed and reconciled. *)
Init ==
    /\ emitted = 0
    /\ cause = [e \in Events |-> Nobody]
    /\ pending = 0 /\ buffered = <<>> /\ over = FALSE
    /\ current = 0
    /\ locks = [l \in LockIds |-> <<>>]
    /\ dispatch = [d \in Dispatches |->
                     [pc |-> "idle", accepted |-> FALSE, ok |-> FALSE, todo |-> <<>>,
                      lock |-> 0]]
    /\ worker = NewWorker(TRUE)
    /\ gap = FALSE
    /\ observed = TRUE
    /\ barrier = FALSE
    /\ recon = [pc |-> "off", upto |-> 0]
    /\ faults = 0 /\ observes = 0
    /\ done = {} /\ excused = {}

-----------------------------------------------------------------------------
(* The event locks. *)

(* setdefault(thread_ref, Lock()): the lock in the gate, or a fresh one. *)
IsEventLock(l) ==
    IF current # 0 THEN l = current
    ELSE /\ locks[l] = <<>>
         /\ \A k \in LockIds : locks[k] = <<>> => l <= k

Without(s, t) == SelectSeq(s, LAMBDA x : x # t)
Left(l, t) == IF l = 0 THEN locks ELSE [locks EXCEPT ![l] = Without(@, t)]
Holds(l, t) == l # 0 /\ locks[l] # <<>> /\ Head(locks[l]) = t

-----------------------------------------------------------------------------
(* The Application emits events of its own accord or because of an input. *)
Emit(d) ==
    /\ emitted < MaxEvents
    /\ d # Nobody => dispatch[d].pc = "sending"
    /\ emitted' = emitted + 1
    /\ cause' = [cause EXCEPT ![emitted + 1] = d]
    /\ UNCHANGED <<gateVars, lockVars, dispatch, worker, gap, routeVars, bounds>>

(* The route lock is held by a reconciliation of the worker or of a caller. *)
Reconciling == {worker.pc, recon.pc} \cap {"await", "deliver"} # {}

(* _apply_event reaches the active route behind its barrier and its lock. *)
Apply(e) ==
    /\ observed => ~barrier /\ ~Reconciling
    /\ done' = IF observed THEN done \cup {e} ELSE done

(* A failure of a subscription, a read or a delivery. *)
Fault == faults < MaxFaults /\ faults' = faults + 1

-----------------------------------------------------------------------------
(* InputDispatchRuntime.dispatch and the gate's part of it *)

(* begin_acceptance *)
Begin(d) ==
    /\ dispatch[d].pc = "idle"
    /\ dispatch' = [dispatch EXCEPT ![d].pc = "sending"]
    /\ pending' = pending + 1
    /\ UNCHANGED <<nativeVars, buffered, over, lockVars, worker, gap, routeVars, bounds>>

(* The Application accepts the input; correlating it comes after. *)
Accept(d) ==
    /\ dispatch[d].pc = "sending"
    /\ ~dispatch[d].accepted
    /\ dispatch' = [dispatch EXCEPT ![d].accepted = TRUE]
    /\ UNCHANGED <<nativeVars, gateVars, lockVars, worker, gap, routeVars, bounds>>

Outcome(accepted, ok) ==
    IF ~accepted THEN "failed" ELSE IF ok THEN "accepted" ELSE "post"

(* finish_acceptance ends, with this buffer and this overflow flag left by
   the drain: _clear_acceptance_entries, and the verdict of dispatch. *)
End(d, ok, held, flag) ==
    /\ dispatch' = [dispatch EXCEPT
          ![d].pc = Outcome(dispatch[d].accepted, ok), ![d].ok = ok, ![d].todo = <<>>,
          ![d].lock = 0]
    /\ buffered' = IF pending' > 0 THEN held ELSE <<>>
    /\ over' = (pending' > 0 /\ flag)

(* has_observing_worker: without one the gate's lock goes, whichever it is. *)
ClearLock(l) == current' = IF pending' = 0 /\ worker.pc = "off" THEN 0 ELSE l

(* _drain_buffered_events once it holds the lock l, while k is the gate's. *)
Drain(d, l, k, ok) ==
    \/ /\ pending' > 0 \/ over \/ buffered = <<>>
       /\ locks' = Left(l, d)
       /\ End(d, ok /\ (pending' > 0 \/ ~over), buffered, over)
       /\ ClearLock(k)
    \/ /\ pending' = 0 /\ ~over /\ buffered # <<>>
       /\ dispatch' = [dispatch EXCEPT ![d].pc = "drain", ![d].todo = buffered,
                                       ![d].lock = l, ![d].ok = ok]
       /\ locks' = [locks EXCEPT ![l] = <<d>> \o Without(@, d)]
       /\ buffered' = <<>> /\ current' = k
       /\ UNCHANGED over

(* The reconciliations that wait for the acceptance go on. *)
WakeReaders ==
    /\ worker' = IF worker.pc = "await" THEN [worker EXCEPT !.pc = "deliver"] ELSE worker
    /\ recon' = IF recon.pc = "await" THEN [recon EXCEPT !.pc = "deliver"] ELSE recon

(* send_input and the correlation have ended, well or not: finish_acceptance.
   Only the last acceptance lets readers go on and drains. *)
Finish(d, ok) ==
    /\ dispatch[d].pc = "sending"
    /\ ok => dispatch[d].accepted
    /\ pending' = pending - 1
    /\ \/ /\ pending > 1
          /\ dispatch' = [dispatch EXCEPT ![d].pc = Outcome(dispatch[d].accepted, ok), ![d].ok = ok]
          /\ UNCHANGED <<buffered, over, lockVars, worker, recon>>
       \/ /\ pending = 1
          /\ WakeReaders
          /\ \E l \in LockIds :
                /\ IsEventLock(l)
                /\ \/ locks[l] = <<>> /\ Drain(d, l, l, ok)
                   \/ /\ locks[l] # <<>>
                      /\ locks' = [locks EXCEPT ![l] = Append(@, d)]
                      /\ dispatch' = [dispatch EXCEPT ![d].pc = "lock", ![d].lock = l,
                                                      ![d].ok = ok]
                      /\ current' = l
                      /\ UNCHANGED <<buffered, over>>
    /\ UNCHANGED <<nativeVars, gap, observed, barrier, done, excused, bounds>>

(* The lock is passed on to a waiting drain. *)
DrainTurn(d) ==
    /\ dispatch[d].pc = "lock"
    /\ Holds(dispatch[d].lock, d)
    /\ UNCHANGED pending
    /\ Drain(d, dispatch[d].lock, current, dispatch[d].ok)
    /\ UNCHANGED <<nativeVars, worker, gap, routeVars, bounds>>

(* The caller is cancelled while its drain waits for the lock. *)
CancelWaitingDrain(d) ==
    /\ dispatch[d].pc = "lock"
    /\ Fault
    /\ UNCHANGED pending
    /\ locks' = Left(dispatch[d].lock, d)
    /\ End(d, FALSE, buffered, over)
    /\ ClearLock(current)
    /\ UNCHANGED <<nativeVars, worker, gap, routeVars, observes>>

(* The drain applies the events it popped, one after the other. *)
DrainApply(d) ==
    /\ dispatch[d].pc = "drain"
    /\ UNCHANGED pending
    /\ Apply(Head(dispatch[d].todo))
    /\ IF Len(dispatch[d].todo) > 1
       THEN /\ dispatch' = [dispatch EXCEPT ![d].todo = Tail(@)]
            /\ UNCHANGED <<buffered, over, lockVars>>
       ELSE /\ locks' = Left(dispatch[d].lock, d)
            /\ End(d, dispatch[d].ok, buffered, over)
            /\ ClearLock(current)
    /\ UNCHANGED <<nativeVars, worker, gap, observed, barrier, recon, excused, bounds>>

(* Applying fails or is cancelled: recover_ordering_gap. A live worker is
   cancelled; without one a worker is started that reconciles. *)
DrainFail(d) ==
    /\ dispatch[d].pc = "drain"
    /\ DrainFaults /\ Fault
    /\ UNCHANGED pending
    /\ gap' = TRUE
    /\ IF worker.pc # "off"
       THEN /\ worker' = [worker EXCEPT !.cancel = TRUE]
            /\ locks' = Left(dispatch[d].lock, d)
            /\ End(d, FALSE, buffered, over)
            /\ ClearLock(current)
       ELSE /\ worker' = NewWorker(TRUE)
            /\ dispatch' = [dispatch EXCEPT ![d].pc = "ensure"]
            /\ UNCHANGED <<buffered, over, lockVars>>
    /\ UNCHANGED <<nativeVars, routeVars, observes>>

(* The started worker is ready; the drain's failure is raised. *)
DrainFailed(d) ==
    /\ dispatch[d].pc = "ensure"
    /\ worker.pc \notin {"top", "subscribe"}
    /\ UNCHANGED pending
    /\ locks' = Left(dispatch[d].lock, d)
    /\ End(d, FALSE, buffered, over)
    /\ ClearLock(current)
    /\ UNCHANGED <<nativeVars, worker, gap, routeVars, bounds>>

-----------------------------------------------------------------------------
(* The observation worker: _project_thread *)

At(pc) == worker.pc = pc /\ ~worker.cancel
Go(pc) == worker' = [worker EXCEPT !.pc = pc]

(* The task ends: _finish_task and worker_finished. History: it is stranded
   when a gap it was to recover ends it. *)
Die(stranded) ==
    /\ worker' = [NoWorker EXCEPT !.stranded = stranded]
    /\ gap' = FALSE
    /\ current' = IF pending = 0 THEN 0 ELSE current

(* _recover_after_failure, before its sleep. *)
Recover(pc) ==
    worker' = [worker EXCEPT !.pc = pc, !.reconcile = TRUE, !.cancel = FALSE,
                             !.lock = 0, !.upto = 0]

WorkerTop ==
    /\ At("top")
    /\ \/ /\ ~observed
          /\ Die(FALSE)
          /\ UNCHANGED barrier
       \/ /\ observed /\ gap
          /\ gap' = FALSE
          /\ Recover("sleep")
          /\ UNCHANGED <<current, barrier>>
       \/ /\ observed /\ ~gap   \* prepare_reconciliation
          /\ barrier' = (barrier \/ worker.reconcile)
          /\ Go("subscribe")
          /\ UNCHANGED <<gap, current>>
    /\ UNCHANGED <<nativeVars, gateVars, locks, dispatch, observed, recon, done, excused, bounds>>

WorkerAwake ==
    /\ At("sleep") \/ At("backoff")
    /\ Go("top")
    /\ UNCHANGED <<nativeVars, gateVars, lockVars, dispatch, gap, routeVars, bounds>>

(* subscribe_thread: from now on native events are buffered by the adapter. *)
WorkerSubscribe ==
    /\ At("subscribe")
    /\ worker' = [worker EXCEPT !.position = emitted,
                     !.pc = IF worker.reconcile THEN "read" ELSE "next"]
    /\ UNCHANGED <<nativeVars, gateVars, lockVars, dispatch, gap, routeVars, bounds>>

(* reconcile_thread: the history is read under the route's lock, and then the
   pending acceptance is awaited. *)
WorkerRead ==
    /\ At("read")
    /\ \/ /\ observed /\ ~Reconciling
          /\ worker' = [worker EXCEPT !.upto = emitted,
                           !.pc = IF pending > 0 THEN "await" ELSE "deliver"]
       \/ /\ ~observed
          /\ worker' = [worker EXCEPT !.reconcile = FALSE, !.pc = "next"]
    /\ UNCHANGED <<nativeVars, gateVars, lockVars, dispatch, gap, routeVars, bounds>>

WorkerDeliver ==
    /\ At("deliver")
    /\ done' = done \cup 1..worker.upto
    /\ barrier' = FALSE
    /\ worker' = [worker EXCEPT !.pc = "next", !.upto = 0, !.reconcile = FALSE]
    /\ UNCHANGED <<nativeVars, gateVars, lockVars, dispatch, gap, observed, recon, excused, bounds>>

(* The reconciliation fails; its barrier opens, the worker retries later. *)
WorkerReconcileFails ==
    /\ (At("read") /\ ~Reconciling) \/ At("deliver")
    /\ Fault
    /\ barrier' = FALSE
    /\ Recover("backoff")
    /\ UNCHANGED <<nativeVars, gateVars, lockVars, dispatch, gap, observed, recon, done,
                   excused, observes>>

(* The subscription ends or breaks. *)
SubscriptionFails ==
    /\ At("next")
    /\ Fault
    /\ Recover("backoff")
    /\ UNCHANGED <<nativeVars, gateVars, lockVars, dispatch, gap, routeVars, observes>>

Event == worker.position + 1

(* Mutant: the gate does not look at pending acceptances. *)
HandleAtOnce(l, queue) ==
    /\ locks' = [locks EXCEPT ![l] = queue]
    /\ worker' = [worker EXCEPT !.pc = "apply", !.lock = l]
    /\ UNCHANGED <<buffered, over>>

(* handle_event once it holds the lock l, which is then queued for by queue. *)
Handle(l, queue) ==
    \/ /\ pending = 0
       /\ locks' = [locks EXCEPT ![l] = queue]
       /\ worker' = [worker EXCEPT !.pc = "apply", !.lock = l]
       /\ UNCHANGED <<buffered, over>>
    \/ /\ pending > 0 /\ Len(buffered) < MaxPending
       /\ locks' = [locks EXCEPT ![l] = Without(queue, Worker)]
       /\ buffered' = Append(buffered, Event)
       /\ worker' = [worker EXCEPT !.pc = "check", !.lock = 0]
       /\ UNCHANGED over
    \/ /\ pending > 0 /\ Len(buffered) >= MaxPending
       /\ locks' = [locks EXCEPT ![l] = Without(queue, Worker)]
       /\ buffered' = <<>> /\ over' = TRUE
       /\ Recover("backoff")

WorkerReceive ==
    /\ At("next")
    /\ Event <= emitted
    /\ \E l \in LockIds :
          /\ IsEventLock(l)
          /\ current' = l
          /\ \/ locks[l] = <<>> /\ Handle(l, <<Worker>>)
             \/ /\ locks[l] # <<>>
                /\ locks' = [locks EXCEPT ![l] = Append(@, Worker)]
                /\ worker' = [worker EXCEPT !.pc = "lock", !.lock = l]
                /\ UNCHANGED <<buffered, over>>
    /\ UNCHANGED <<nativeVars, pending, dispatch, gap, routeVars, bounds>>

WorkerTurn ==
    /\ At("lock")
    /\ Holds(worker.lock, Worker)
    /\ Handle(worker.lock, locks[worker.lock])
    /\ UNCHANGED <<nativeVars, pending, current, dispatch, gap, routeVars, bounds>>

WorkerApply ==
    /\ At("apply")
    /\ Apply(Event)
    /\ locks' = Left(worker.lock, Worker)
    /\ worker' = [worker EXCEPT !.pc = "check", !.lock = 0]
    /\ UNCHANGED <<nativeVars, gateVars, current, dispatch, gap, observed, barrier, recon,
                   excused, bounds>>

WorkerApplyFails ==
    /\ At("apply")
    /\ Fault
    /\ locks' = Left(worker.lock, Worker)
    /\ Recover("backoff")
    /\ UNCHANGED <<nativeVars, gateVars, current, dispatch, gap, routeVars, observes>>

(* After every event the worker ends when nobody observes the Thread. *)
WorkerCheck ==
    /\ At("check")
    /\ \/ /\ observed
          /\ worker' = [worker EXCEPT !.pc = "next", !.position = @ + 1]
          /\ UNCHANGED <<gap, current>>
       \/ ~observed /\ Die(FALSE)
    /\ UNCHANGED <<nativeVars, gateVars, locks, dispatch, routeVars, bounds>>

(* CancelledError is raised where the worker waits. With an ordering gap it
   recovers, unless it was in the handler of another failure. *)
WorkerCancelled ==
    /\ worker.cancel
    /\ locks' = Left(worker.lock, Worker)
    /\ barrier' = (barrier /\ worker.pc \notin {"read", "await", "deliver"})
    /\ IF gap /\ worker.pc # "backoff"
       THEN gap' = FALSE /\ Recover("backoff") /\ UNCHANGED current
       ELSE Die(gap)
    /\ UNCHANGED <<nativeVars, gateVars, dispatch, observed, recon, done, excused, bounds>>

-----------------------------------------------------------------------------
(* The callers of the runtime that observe and leave the Thread. *)

(* observe_thread: the barrier is closed before the route is visible. *)
Observe ==
    /\ ~observed /\ recon.pc = "off" /\ ~worker.cancel
    /\ observes < MaxObserves
    /\ observes' = observes + 1
    /\ observed' = TRUE
    /\ barrier' = TRUE
    /\ recon' = [pc |-> "ensure", upto |-> 0]
    /\ worker' = IF worker.pc = "off" THEN NewWorker(FALSE) ELSE worker
    /\ UNCHANGED <<nativeVars, gateVars, lockVars, dispatch, gap, done, excused, faults>>

(* The worker is ready, and the history is read under the route's lock. *)
ReconRead ==
    /\ recon.pc = "ensure" /\ worker.pc \notin {"top", "subscribe"}
    /\ ~Reconciling
    /\ recon' = [pc |-> IF pending > 0 THEN "await" ELSE "deliver", upto |-> emitted]
    /\ UNCHANGED <<nativeVars, gateVars, lockVars, dispatch, worker, gap, observed, barrier,
                   done, excused, bounds>>

ReconDeliver ==
    /\ recon.pc = "deliver"
    /\ done' = done \cup 1..recon.upto
    /\ barrier' = FALSE
    /\ recon' = [pc |-> "off", upto |-> 0]
    /\ UNCHANGED <<nativeVars, gateVars, lockVars, dispatch, worker, gap, observed, excused, bounds>>

(* The read or a delivery fails: the caller is told, the barrier opens. *)
ReconFail ==
    /\ recon.pc = "deliver"
    /\ Fault
    /\ barrier' = FALSE
    /\ excused' = excused \cup 1..emitted
    /\ recon' = [pc |-> "off", upto |-> 0]
    /\ UNCHANGED <<nativeVars, gateVars, lockVars, dispatch, worker, gap, observed, done, observes>>

(* The route goes: _stop_if_unobserved. *)
Unobserve ==
    /\ observed /\ recon.pc = "off" /\ observes < MaxObserves
    /\ observed' = FALSE
    /\ worker' = IF worker.pc = "off" THEN worker ELSE [worker EXCEPT !.cancel = TRUE]
    /\ UNCHANGED <<nativeVars, gateVars, lockVars, dispatch, gap, barrier, recon, done, excused,
                   bounds>>

-----------------------------------------------------------------------------
DispatchStep(d) ==
    \/ Begin(d) \/ Accept(d) \/ DrainTurn(d) \/ CancelWaitingDrain(d)
    \/ DrainApply(d) \/ DrainFail(d) \/ DrainFailed(d)
    \/ \E ok \in BOOLEAN : Finish(d, ok)

WorkerStep ==
    \/ WorkerTop \/ WorkerAwake \/ WorkerSubscribe \/ WorkerRead \/ WorkerDeliver
    \/ WorkerReconcileFails \/ SubscriptionFails \/ WorkerReceive \/ WorkerTurn
    \/ WorkerApply \/ WorkerApplyFails \/ WorkerCheck \/ WorkerCancelled

CallerStep == Observe \/ ReconRead \/ ReconDeliver \/ ReconFail \/ Unobserve

Next ==
    \/ \E d \in Dispatches \cup {Nobody} : Emit(d)
    \/ \E d \in Dispatches : DispatchStep(d)
    \/ WorkerStep
    \/ CallerStep

Spec == Init /\ [][Next]_vars

(* What the event loop runs of a task that is ready; a native call and a
   delivery end. *)
DispatchRuns(d) ==
    (\E ok \in BOOLEAN : Finish(d, ok)) \/ DrainTurn(d) \/ DrainApply(d) \/ DrainFailed(d)

WorkerRuns ==
    \/ WorkerTop \/ WorkerAwake \/ WorkerSubscribe \/ WorkerRead \/ WorkerDeliver
    \/ WorkerReceive \/ WorkerTurn \/ WorkerApply \/ WorkerCheck \/ WorkerCancelled

CallerRuns == ReconRead \/ ReconDeliver

-----------------------------------------------------------------------------
(* Properties *)

(* No event that an input caused reaches the route before the input is
   correlated: live events are held by the gate and a reconciliation waits for
   the acceptance (handle_event, wait_for_acceptance). *)
NoOvertaking ==
    \A e \in done : cause[e] # Nobody => dispatch[cause[e]].pc # "sending"

(* The route receives events in their order, whatever mix of live delivery,
   drains and reconciliations brings them: an event that is there has all
   earlier ones before it, but for those a caller was told are lost. *)
InOrder ==
    \A e \in done : \A f \in 1..e : f \in done \cup excused

(* Nothing is left behind when nobody is at work: no buffered event, no
   overflow flag, no lock held. *)
GateIsClean ==
    (pending = 0 /\ \A d \in Dispatches : dispatch[d].pc \notin {"lock", "drain", "ensure"})
        => /\ buffered = <<>> /\ ~over
           /\ \A l \in LockIds : locks[l] # <<>> => locks[l] = <<Worker>>

=============================================================================

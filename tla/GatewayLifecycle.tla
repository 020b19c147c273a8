-------------------------- MODULE GatewayLifecycle --------------------------
(***************************************************************************)
(* One Gateway object from start to close (gateway/runtime.py), with the   *)
(* startup and teardown of its object graph (gateway/orchestration.py,     *)
(* gateway/lifecycle.py, gateway/startup.py): a task that starts it, any   *)
(* number of tasks that stop it, the task that renews the lease of the     *)
(* store, and the task that closes it. Three of them can find themselves   *)
(* tearing the same resources down, and a cancellation can reach the one   *)
(* that starts at every await.                                             *)
(*                                                                         *)
(* What an owner (an Application, a Channel, a runtime of the Gateway)     *)
(* does when it is started or stopped is external: it returns, raises, or  *)
(* outlives the deadline and is left behind.                               *)
(***************************************************************************)
EXTENDS Integers, Sequences, SequencesExt

CONSTANTS
    Applications,   \* sequence of Applications, in composition order
    Channels,       \* sequence of Channels
    Stoppers,       \* tasks that call stop()
    Preparations,   \* startup preparations, 0 or more
    MaxCancels      \* bound: cancellations of the caller of start()

LifecycleAssumption == Preparations \in Nat /\ MaxCancels \in Nat

None == "none"

VARIABLES
    gw,        \* the fields of Gateway and of its runtime
    starter,   \* the task in start()
    lease,     \* the task in _supervise_lease
    stoppers,  \* [Stoppers -> pc]
    job,       \* [Closers -> progress through _close_owned_resources]
    owner,     \* [Owners -> state]
    prep,      \* the preparation's own task: "off", "on", "late", "over"
    hist       \* history

vars == <<gw, starter, lease, stoppers, job, owner, prep, hist>>

Closers == {"starter", "closer", "lease"}

Internal == {"projection", "queue", "coordinator", "hooks"}
Owners == Range(Applications) \cup Range(Channels) \cup Internal

-----------------------------------------------------------------------------
(* Startup and teardown orders *)

(* _GatewayRuntime.start: preparations, the runtimes and what they restore,
   the Applications, the Channels, then the pending work. *)
StartSteps ==
    [i \in 1..Preparations |-> "prepare"] \o <<"restore">>
    \o Applications \o Channels \o <<"drain">>

(* _GatewayRuntime.stop *)
StopOrder ==
    <<"projection", "queue", "coordinator">> \o Reverse(Channels)
    \o <<"hooks">> \o Reverse(Applications)

(* The rollback in _GatewayRuntime.start: only what was started; the owner
   whose start failed is stopped on the spot, before everything else. *)
Rollback(owners) ==
    LET IsUp(o) == owners[o] = "started" IN
    SelectSeq(Channels \o Applications, LAMBDA o : owners[o] = "starting")
    \o <<"queue", "projection", "coordinator">>
    \o Reverse(SelectSeq(Channels, IsUp)) \o <<"hooks">>
    \o Reverse(SelectSeq(Applications, IsUp))

-----------------------------------------------------------------------------
(* The state *)

Errors == {None, "lease", "cancel", "failure"}

NoJob == [pc |-> "off", todo |-> <<>>, error |-> None]

Init ==
    /\ gw = [started |-> FALSE, closed |-> FALSE, runtimeStarted |-> FALSE,
             active |-> FALSE, leaseFailure |-> FALSE, terminal |-> None,
             session |-> None, store |-> "open", startupTask |-> FALSE,
             closeTask |-> FALSE, lifecycleLock |-> None, shutdownLock |-> None]
    /\ starter = [pc |-> "idle", step |-> 0, todo |-> <<>>, cancel |-> FALSE,
                  error |-> None]
    /\ lease = "off"
    /\ stoppers = [s \in Stoppers |-> "idle"]
    /\ job = [e \in Closers |-> NoJob]
    /\ owner = [o \in Owners |-> "idle"]
    /\ prep = "off"
    /\ hist = [stops |-> [o \in Owners |-> 0], cancels |-> 0, asked |-> FALSE,
               restored |-> FALSE, lateClear |-> FALSE, lost |-> FALSE]

Set(f, v) == gw' = [gw EXCEPT ![f] = v]

(* The head of _close_owned_resources, under the shutdown lock: actions are
   fenced and a runtime that was started is stopped, in its order. *)
Fenced(g, e) == [g EXCEPT !.shutdownLock = e, !.started = FALSE, !.active = FALSE]

CloseJob(g, error) ==
    [pc |-> "owners", todo |-> IF g.runtimeStarted THEN StopOrder ELSE <<>>,
     error |-> error]

-----------------------------------------------------------------------------
(* start() *)

(* start() is called, once: a second call finds it started, or closed. *)
CallStart ==
    /\ starter.pc = "idle"
    /\ starter' = [starter EXCEPT !.pc = "lock"]
    /\ UNCHANGED <<gw, lease, stoppers, job, owner, prep, hist>>

(* Under the lifecycle lock: refuse after close, validate the composition,
   become the startup task. *)
EnterStart ==
    /\ starter.pc = "lock" /\ gw.lifecycleLock = None
    /\ \/ /\ gw.closed
          /\ starter' = [starter EXCEPT !.pc = "failed", !.error = "failure"]
          /\ UNCHANGED gw
       \/ /\ ~gw.closed
          /\ starter' = [starter EXCEPT !.pc = "acquire"]
          /\ gw' = [gw EXCEPT !.lifecycleLock = "starter", !.startupTask = TRUE]
    /\ UNCHANGED <<lease, stoppers, job, owner, prep, hist>>

(* A failure of startup: everything owned is closed, with the failure of the
   lease, if there is one, as the primary error. Nobody else can be closing
   (the lease task closes only what is started, stop() waits for the
   lifecycle lock), so the shutdown lock is taken without a wait. *)
FailStart(g, error) ==
    /\ starter' = [starter EXCEPT !.pc = "closing", !.cancel = FALSE]
    /\ gw' = Fenced(g, "starter")
    /\ job' = [job EXCEPT !["starter"] =
          CloseJob(g, IF g.leaseFailure THEN "lease" ELSE error)]

(* acquire_runtime, _validate_acquired_session, then the lease task. The
   candidate of a failed validation is closed. *)
AcquireRuntime ==
    /\ starter.pc = "acquire"
    /\ \/ /\ ~starter.cancel
          /\ gw' = [gw EXCEPT !.session = "open", !.active = TRUE]
          /\ lease' = "wait"
          /\ starter' = [starter EXCEPT !.pc = "identities"]
          /\ UNCHANGED job
       \/ /\ FailStart(gw, IF starter.cancel THEN "cancel" ELSE "failure")
          /\ UNCHANGED lease
    /\ UNCHANGED <<stoppers, owner, prep, hist>>

Step == StartSteps[starter.step]
AtLast == starter.step = Len(StartSteps)

(* A step begins: an owner's start, or a preparation in a task of its own. *)
Begin(i) ==
    LET step == StartSteps[i] IN
    /\ owner' = [o \in Owners |-> IF o = step THEN "starting"
                                  ELSE IF owner[o] = "starting" THEN "started"
                                  ELSE owner[o]]
    /\ prep' = IF step = "prepare" THEN "on" ELSE IF prep = "on" THEN "over" ELSE prep
    /\ hist' = IF step = "restore" THEN [hist EXCEPT !.restored = TRUE] ELSE hist

(* check_workspace_identities, then _GatewayRuntime.start. *)
CheckIdentities ==
    /\ starter.pc = "identities"
    /\ \/ /\ ~starter.cancel
          /\ starter' = [starter EXCEPT !.pc = "run", !.step = 1]
          /\ Begin(1)
          /\ UNCHANGED <<gw, job>>
       \/ /\ FailStart(gw, IF starter.cancel THEN "cancel" ELSE "failure")
          /\ UNCHANGED <<owner, prep, hist>>
    /\ UNCHANGED <<lease, stoppers>>

(* A step of _GatewayRuntime.start ends well and the next one begins. *)
NextStep ==
    /\ starter.pc = "run" /\ ~starter.cancel /\ ~AtLast
    /\ Begin(starter.step + 1)
    /\ starter' = [starter EXCEPT !.step = @ + 1]
    /\ UNCHANGED <<gw, lease, stoppers, job>>

(* The owner whose step ended is among the started ones. *)
Started == [o \in Owners |-> IF owner[o] = "starting" THEN "started" ELSE owner[o]]

(* A step raises, overruns its deadline (_run_startup_preparation) or is
   cancelled, or it ends and the admission of messages has overflowed
   meanwhile (raise_if_overflowed): the rollback begins. A preparation may go
   on, detached. *)
FailStep ==
    /\ starter.pc = "run"
    /\ \/ UNCHANGED owner
       \/ ~starter.cancel /\ Started # owner /\ owner' = Started
    /\ prep' = IF prep = "on" THEN "late" ELSE prep
    /\ starter' = [starter EXCEPT !.pc = "rollback", !.cancel = FALSE,
                      !.todo = Rollback(owner'),
                      !.error = IF starter.cancel THEN "cancel" ELSE "failure"]
    /\ UNCHANGED <<gw, lease, stoppers, job, hist>>

(* runtime.start() returned, and without another await the Gateway is
   started, unless the lease failed meanwhile. *)
FinishStart ==
    /\ starter.pc = "run" /\ AtLast /\ ~starter.cancel
    /\ owner' = Started
    /\ \/ /\ gw.leaseFailure
          /\ FailStart([gw EXCEPT !.runtimeStarted = TRUE], "lease")
       \/ /\ ~gw.leaseFailure
          /\ gw' = [gw EXCEPT !.runtimeStarted = TRUE, !.started = TRUE,
                       !.startupTask = FALSE, !.lifecycleLock = None]
          /\ starter' = [starter EXCEPT !.pc = "done"]
          /\ UNCHANGED job
    /\ UNCHANGED <<lease, stoppers, prep, hist>>

-----------------------------------------------------------------------------
(* Teardown of the owners, one bounded call each *)

(* _bounded_lifecycle_call: the owner's stop begins. *)
BeginStop(o) ==
    /\ owner' = [owner EXCEPT ![o] = "stopping"]
    /\ hist' = [hist EXCEPT !.stops[o] = @ + 1]

(* It returns or raises, or it is left behind: at the deadline, or because
   the caller was cancelled and the call with it. *)
EndStop(o, left) == owner' = [owner EXCEPT ![o] = IF left THEN "left" ELSE "stopped"]

(* One step through a teardown list: the list and the error that remain. *)
Teardown(todo, error, rest, err) ==
    LET o == Head(todo) IN
    /\ todo # <<>>
    /\ \/ /\ owner[o] # "stopping"
          /\ BeginStop(o)
          /\ rest = todo /\ err = error
       \/ /\ owner[o] = "stopping"
          /\ \E left \in BOOLEAN, raised \in BOOLEAN :
                /\ EndStop(o, left)
                /\ err = IF (left \/ raised) /\ error = None THEN "failure" ELSE error
          /\ rest = Tail(todo)
          /\ UNCHANGED hist

(* The rollback of _GatewayRuntime.start. A cancellation (a stop, the lease)
   cuts the owner's stop short and the rollback goes on with the next. *)
RollbackStep ==
    /\ starter.pc = "rollback"
    /\ \/ /\ starter.todo # <<>>
          /\ \E rest \in {starter.todo, Tail(starter.todo)}, err \in Errors :
                /\ Teardown(starter.todo, starter.error, rest, err)
                /\ starter' = [starter EXCEPT !.todo = rest, !.cancel = FALSE]
          /\ UNCHANGED <<gw, job>>
       \/ /\ starter.todo = <<>>
          /\ FailStart(gw, starter.error)
          /\ UNCHANGED <<owner, hist>>
    /\ UNCHANGED <<lease, stoppers, prep>>

-----------------------------------------------------------------------------
(* _close_owned_resources, by the task in start(), by the close task of
   stop(), or by the lease task *)

Advance(e, pc) == job' = [job EXCEPT ![e].pc = pc]

(* The close task of stop() gets the shutdown lock: it may have waited for
   the lease task, and then it finds the Gateway closed. *)
EnterClose ==
    /\ job["closer"].pc = "lock" /\ gw.shutdownLock = None
    /\ \/ gw.closed /\ Advance("closer", "done") /\ UNCHANGED gw
       \/ /\ ~gw.closed
          /\ gw' = Fenced(gw, "closer")
          /\ job' = [job EXCEPT !["closer"] = CloseJob(gw, None)]
    /\ UNCHANGED <<starter, lease, stoppers, owner, prep, hist>>

CloseOwner(e) ==
    /\ job[e].pc = "owners"
    /\ \/ /\ job[e].todo # <<>>
          /\ \E rest \in {job[e].todo, Tail(job[e].todo)}, err \in Errors :
                /\ Teardown(job[e].todo, job[e].error, rest, err)
                /\ job' = [job EXCEPT ![e].todo = rest, ![e].error = err]
          /\ UNCHANGED gw
       \/ /\ job[e].todo = <<>>
          /\ Advance(e, "lease")
          /\ Set("runtimeStarted", FALSE)
          /\ UNCHANGED <<owner, hist>>
    /\ UNCHANGED <<starter, lease, stoppers, prep>>

(* _cancel_lifecycle_task: the lease task is cancelled and joined, unless it
   is the one that closes. It may raise, or be left behind at the deadline. *)
JoinLease(e) ==
    LET joined == e # "lease" /\ lease # "off" IN
    /\ job[e].pc = "lease"
    /\ \E raised \in {FALSE, joined} :
          job' = [job EXCEPT ![e].pc = "session",
                     ![e].error = IF raised /\ @ = None THEN "failure" ELSE @]
    /\ lease' = IF joined THEN "over" ELSE lease
    /\ UNCHANGED <<gw, starter, stoppers, owner, prep, hist>>

(* Mutant of CloseStore: the shutdown lock is kept. *)
CloseStoreKeepLock(e) ==
    /\ job[e].pc = "store"
    /\ job' = [job EXCEPT ![e].pc = "done"]
    /\ gw' = [gw EXCEPT !.store = "closed", !.closed = TRUE, !.terminal = job[e].error,
                 !.startupTask = FALSE]
    /\ lease' = IF e = "lease" THEN "over" ELSE lease
    /\ UNCHANGED <<starter, stoppers, owner, prep, hist>>

(* The session and then the store are closed, each with a deadline. *)
CloseSession(e) ==
    /\ job[e].pc = "session"
    /\ \E raised \in BOOLEAN :
          job' = [job EXCEPT ![e].pc = "store",
                     ![e].error = IF raised /\ @ = None THEN "failure" ELSE @]
    /\ Set("session", IF gw.session = None THEN None ELSE "closed")
    /\ UNCHANGED <<starter, lease, stoppers, owner, prep, hist>>

CloseStore(e) ==
    /\ job[e].pc = "store"
    /\ \E raised \in BOOLEAN :
         LET error == IF raised /\ job[e].error = None THEN "failure" ELSE job[e].error IN
         /\ job' = [job EXCEPT ![e].pc = "done", ![e].error = error]
         /\ gw' = [gw EXCEPT !.store = "closed", !.closed = TRUE, !.terminal = error,
                      !.startupTask = FALSE, !.shutdownLock = None]
    /\ lease' = IF e = "lease" THEN "over" ELSE lease
    /\ UNCHANGED <<starter, stoppers, owner, prep, hist>>

(* start() fails when its cleanup is over. *)
LeaveStart ==
    /\ starter.pc = "closing" /\ job["starter"].pc = "done"
    /\ starter' = [starter EXCEPT !.pc = "failed", !.cancel = FALSE,
                            !.error = job["starter"].error]
    /\ Set("lifecycleLock", None)
    /\ UNCHANGED <<lease, stoppers, job, owner, prep, hist>>

-----------------------------------------------------------------------------
(* stop(), the lease, and the caller *)

(* Mutant of CallStop: a startup under way is not interrupted, not waited for. *)
StopAtOnce(s) ==
    /\ stoppers[s] = "idle"
    /\ stoppers' = [stoppers EXCEPT ![s] = "join"]
    /\ gw' = [gw EXCEPT !.closeTask = TRUE]
    /\ job' = IF gw.closeTask THEN job ELSE [job EXCEPT !["closer"].pc = "lock"]
    /\ hist' = [hist EXCEPT !.asked = TRUE]
    /\ UNCHANGED <<starter, lease, owner, prep>>

(* stop() cancels a startup under way before it asks for the lock. *)
CallStop(s) ==
    /\ stoppers[s] = "idle"
    /\ stoppers' = [stoppers EXCEPT ![s] = "lock"]
    /\ starter' = [starter EXCEPT !.cancel = @ \/ gw.startupTask]
    /\ hist' = [hist EXCEPT !.asked = TRUE]
    /\ UNCHANGED <<gw, lease, job, owner, prep>>

EnterStop(s) ==
    /\ stoppers[s] = "lock" /\ gw.lifecycleLock = None
    /\ \/ gw.closed /\ stoppers' = [stoppers EXCEPT ![s] = "done"] /\ UNCHANGED <<gw, job>>
       \/ /\ ~gw.closed
          /\ stoppers' = [stoppers EXCEPT ![s] = "join"]
          /\ gw' = [gw EXCEPT !.lifecycleLock = s, !.closeTask = TRUE]
          /\ job' = IF gw.closeTask THEN job ELSE [job EXCEPT !["closer"].pc = "lock"]
    /\ UNCHANGED <<starter, lease, owner, prep, hist>>

(* _join_close_task: the close is awaited even if the caller is cancelled. *)
JoinStop(s) ==
    /\ stoppers[s] = "join" /\ job["closer"].pc = "done"
    /\ stoppers' = [stoppers EXCEPT ![s] = "done"]
    /\ gw' = [gw EXCEPT !.lifecycleLock = IF @ = s THEN None ELSE @]
    /\ UNCHANGED <<starter, lease, job, owner, prep, hist>>

(* _supervise_lease: a renewal fails. A started Gateway closes itself: the
   shutdown lock is free while it is started, so the failure and the fence
   are one step. One that is starting is cancelled, one that is closing is
   left alone. *)
LeaseFails ==
    /\ lease = "wait"
    /\ LET g == [gw EXCEPT !.leaseFailure = TRUE] IN
       \/ /\ gw.started
          /\ lease' = "closing"
          /\ gw' = Fenced(g, "lease")
          /\ job' = [job EXCEPT !["lease"] = CloseJob(g, "lease")]
          /\ UNCHANGED starter
       \/ /\ ~gw.started
          /\ lease' = "over"
          /\ gw' = g
          /\ starter' = [starter EXCEPT !.cancel = @ \/ gw.startupTask]
          /\ UNCHANGED job
    /\ hist' = [hist EXCEPT !.lost = gw.shutdownLock = None /\ ~gw.closed]
    /\ UNCHANGED <<stoppers, owner, prep>>

(* The caller of start() is cancelled. *)
CancelStart ==
    /\ hist.cancels < MaxCancels
    /\ starter.pc \notin {"idle", "lock", "done", "failed"} /\ ~starter.cancel
    /\ starter' = [starter EXCEPT !.cancel = TRUE]
    /\ hist' = [hist EXCEPT !.cancels = @ + 1]
    /\ UNCHANGED <<gw, lease, stoppers, job, owner, prep>>

(* clear_thread of a preparation commits. Its scope lets it begin only while
   the preparation's own task is current; the detached rest of one that was
   cut off ends with the session. *)
PreparationClears ==
    /\ prep \in {"on", "late"} /\ gw.session = "open"
    /\ prep' = IF prep = "on" THEN "on" ELSE "over"
    /\ hist' = [hist EXCEPT !.lateClear = @ \/ hist.restored]
    /\ UNCHANGED <<gw, starter, lease, stoppers, job, owner>>

StarterStep ==
    \/ EnterStart \/ AcquireRuntime \/ CheckIdentities \/ NextStep \/ FailStep
    \/ FinishStart \/ RollbackStep \/ LeaveStart

CloseStep(e) ==
    \/ CloseOwner(e) \/ JoinLease(e) \/ CloseSession(e)
    \/ CloseStore(e)

StopStep(s) == EnterStop(s) \/ JoinStop(s)

Next ==
    \/ CallStart \/ StarterStep \/ CancelStart \/ LeaseFails \/ PreparationClears
    \/ EnterClose
    \/ \E e \in Closers : CloseStep(e)
    \/ \E s \in Stoppers : CallStop(s) \/ StopStep(s)

Spec == Init /\ [][Next]_vars

-----------------------------------------------------------------------------
(* What the lifecycle owes *)

Touched(o) == owner[o] # "idle"

(* Every owner whose start was called is stopped, and no owner is stopped
   twice, whoever tears down: the rollback of a failed start, stop(), or the
   lease task. *)
StoppedExactlyOnce ==
    /\ \A o \in Owners : hist.stops[o] <= 1
    /\ gw.closed => \A o \in Owners \ Internal :
                       Touched(o) => owner[o] \in {"stopped", "left"}

(* Only what was started is stopped: start() that failed leaves alone the
   Channels and Applications it never reached. *)
OnlyStartedIsStopped ==
    \A o \in Owners \ Internal : owner[o] \in {"stopping", "stopped", "left"}
        => \E i \in 1..Len(StartSteps) : StartSteps[i] = o /\ i <= starter.step

(* The store outlives everything that uses it: an Application is stopped
   after every Channel, and the session is closed after every owner. *)
StoreOutlivesOwners ==
    /\ gw.session = "closed" =>
          \A o \in Owners : owner[o] \notin {"starting", "started", "stopping"}
    /\ \A a \in Range(Applications) : owner[a] = "stopping" =>
          \A c \in Range(Channels) : owner[c] \notin {"started", "stopping"}

(* A Gateway that is closed is not running, and stop() has returned only when
   it is closed, whatever start() and the lease task are doing. *)
StopMeansClosed ==
    /\ gw.closed => ~gw.started /\ ~gw.active /\ gw.store = "closed"
    /\ \A s \in Stoppers : stoppers[s] = "done" => gw.closed

(* A lease that is lost before any close began is what the Gateway reports:
   the terminal error of wait_closed() is the failure of the lease, whether
   it was lost while starting, during a rollback or while running, and
   whoever closes. *)
LeaseLossIsReported == (gw.closed /\ hist.lost) => gw.terminal = "lease"

(* stop() and the lease task cancel a startup and nothing else: a task whose
   start() has returned is never cancelled by them. *)
OnlyStartupIsCancelled ==
    starter.pc \in {"idle", "lock", "done", "failed"} => ~starter.cancel

(* A startup preparation clears bindings before the routes are restored or
   not at all, even one that overran its deadline. *)
PreparationBeforeRecovery == ~hist.lateClear

====

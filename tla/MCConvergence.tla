---------------------------- MODULE MCConvergence ----------------------------
(***************************************************************************)
(* Liveness of what needs more than tasks that run: locks handed over in   *)
(* turn, a target, a Channel or a read that some time succeeds.  Small     *)
(* instances of the components, one of which, its part, a behaviour is of. *)
(***************************************************************************)
EXTENDS Integers, Sequences, TLC

CONSTANT Parts

VARIABLES part,
    gw, starter, lease, stoppers, job, owner, prep, hist,
    epoch, transport, handles, listener, proto, ready, hasBeenReady, closing, closer,
    reset, connLock, initLock, resumeLock, task, fut, peer, asked, answers, greeted,
    executed, reported,
    native, accepted, repeated, events, resolving, closed, jobs, tasks, sent, rows, active,
    barrier, blocked, retiring, recon, pc, verdict, saw, expired, faults,
    items, sends, claim, evidence, turns, conflict, stage, gen, ack, merge, op, projected,
    binding, used,
    missed      \* history: requests whose resolution came before a delivery of them

lifecycleVars == <<gw, starter, lease, stoppers, job, owner, prep, hist>>
clientVars == <<epoch, transport, handles, listener, proto, ready, hasBeenReady, closing,
                closer, reset, connLock, initLock, resumeLock, task, fut, peer, asked,
                answers, greeted, executed, reported>>
requestVars == <<native, accepted, repeated, events, resolving, closed, jobs, tasks, sent,
                 rows, active, barrier, blocked, retiring, recon, pc, verdict, saw, expired,
                 faults>>
queueVars == <<items, sends, claim, evidence, turns, conflict, stage, gen, ack, merge, op,
               projected, binding, used>>
vars == <<part, lifecycleVars, clientVars, requestVars, queueVars>>

-----------------------------------------------------------------------------
\* A Gateway of one Application and one Channel, its start cancelled, its lease lost.
Lifecycle == INSTANCE GatewayLifecycle WITH
    Applications <- <<"a1">>, Channels <- <<"c1">>, Stoppers <- {"s1"},
    Preparations <- 0, MaxCancels <- 1

\* A call of a client that is closed, to a target that is lost once.
Calls(t) == "call"
Client == INSTANCE AppServerClient WITH
    Callers <- {"c1"}, Kind <- Calls, Attempts <- 1, Persistent <- TRUE,
    MayCancel <- {}, MayClose <- TRUE, StopMayFail <- TRUE, MaxEpoch <- 2

\* Two native requests on one route, one delivery at a time.
Asked == [u1 |-> "r1"]
From == [u1 |-> "c1"]
Request == INSTANCE RequestCorrelation WITH
    Requests <- {"r1", "r2"}, Convs <- {"c1"}, Users <- {"u1"}, Capacity <- 1,
    Expiring <- {}, Snapshot <- TRUE, MaxCrashes <- 0, MaxGaps <- 0, MaxMoves <- 0,
    closing <- resolving

\* One native request over a restart, an event gap and a route that moves and comes back.
Recovery == INSTANCE RequestCorrelation WITH
    Requests <- {"r1"}, Convs <- {"c1"}, Users <- {}, Asked <- <<>>, From <- <<>>,
    Capacity <- 1, Expiring <- {}, Snapshot <- TRUE, MaxCrashes <- 1, MaxGaps <- 1,
    MaxMoves <- 1, closing <- resolving

\* One queued input and a crash.
Queue == INSTANCE QueuedInput WITH
    Messages <- {"m1"}, Wanted <- "m1", BatchSize <- 1, RowLimit <- 1,
    MaxCrashes <- 1, MaxRebinds <- 0, MaxOps <- 1,
    rows <- evidence, pc <- stage, job <- merge

ASSUME ConvergenceAssumption ==
    /\ Lifecycle!LifecycleAssumption /\ Client!ClientAssumption
    /\ Request!CorrelationAssumption /\ Queue!QueueAssumption

-----------------------------------------------------------------------------
Init ==
    /\ part \in Parts
    /\ Lifecycle!Init /\ Client!Init /\ Queue!Init
    /\ IF part = "recovery" THEN Recovery!Init ELSE Request!Init
    /\ missed = {}

\* The worker ends the deliveries of a resolved request that the recovery of a restart has
\* yet to deliver, from its older list; or a gap drops one while a delivery is under way.
Misses ==
    {r \in {"r1"} :
        \/ /\ resolving.r # r /\ resolving'.r = r
           /\ r \in recon.pending \/ jobs["recovery"].r = r
        \/ /\ faults'.gaps > faults.gaps /\ tasks[r]["c1"] # "none"
           /\ \E i \in DOMAIN events : events[i].r = r /\ events[i].type = "ended"}

Next ==
    /\ \/ /\ part = "lifecycle" /\ Lifecycle!Next
          /\ UNCHANGED <<clientVars, requestVars, queueVars>>
       \/ /\ part = "client" /\ Client!Next
          /\ UNCHANGED <<lifecycleVars, requestVars, queueVars>>
       \/ /\ part = "request" /\ Request!Next
          /\ UNCHANGED <<lifecycleVars, clientVars, queueVars>>
       \/ /\ part = "recovery" /\ Recovery!Next
          /\ UNCHANGED <<lifecycleVars, clientVars, queueVars>>
       \/ /\ part = "queue" /\ Queue!Next
          /\ UNCHANGED <<lifecycleVars, clientVars, requestVars>>
    /\ UNCHANGED part
    /\ missed' = missed \cup Misses

\* What runs by itself: the tasks of each component.
LifecycleRuns ==
    /\ WF_lifecycleVars(part = "lifecycle" /\ Lifecycle!StarterStep)
    /\ \A e \in {"starter", "closer", "lease"} :
          WF_lifecycleVars(part = "lifecycle" /\ Lifecycle!CloseStep(e))
    /\ WF_lifecycleVars(part = "lifecycle" /\ Lifecycle!StopStep("s1"))

ClientRuns ==
    /\ \A t \in {"c1", "reconnect"} : WF_clientVars(part = "client" /\ Client!TaskStep(t))
    /\ WF_clientVars(part = "client" /\ Client!LoopStep)

\* The Thread's worker, recovery, the deliveries, the response and the route: each of them
\* is one task, or one step after another of one.
RequestRuns ==
    /\ WF_requestVars(/\ part = "request"
                      /\ \/ Request!TakeOpened \/ Request!Scheduled("worker")
                         \/ Request!TakeEnded \/ Request!ApplyEnded)
    /\ \A r \in {"r1", "r2"} :
          WF_requestVars(part = "request" /\ (Request!Accepts(r, "c1") \/ Request!RecordStep(r, "c1")))
    /\ WF_requestVars(/\ part = "request"
                      /\ \/ Request!PublicationEnds("u1") \/ Request!PublicationPends("u1")
                         \/ Request!Respond("u1") \/ Request!Converge("u1")
                         \/ Request!Responded("u1"))

RecoveryRuns ==
    /\ WF_requestVars(/\ part = "recovery"
                      /\ \/ Recovery!TakeOpened \/ Recovery!Scheduled("worker")
                         \/ Recovery!TakeEnded \/ Recovery!ApplyEnded)
    /\ WF_requestVars(/\ part = "recovery"
                      /\ \/ Recovery!ListPending \/ Recovery!Redeliver
                         \/ Recovery!Scheduled("recovery") \/ Recovery!MarkStale)
    /\ WF_requestVars(/\ part = "recovery"
                      /\ Recovery!Accepts("r1", "c1") \/ Recovery!RecordStep("r1", "c1"))
    /\ WF_requestVars(part = "recovery" /\ Recovery!OpenBarrier("c1"))
    /\ WF_requestVars(/\ part = "recovery"
                      /\ Recovery!DeleteDestination("c1") \/ Recovery!ForgetRoute("c1"))

QueueRuns ==
    /\ WF_queueVars(part = "queue" /\ Queue!Observe)
    /\ WF_queueVars(part = "queue" /\ Queue!Observed)
    /\ \A w \in {"observer", "projector"} : WF_queueVars(part = "queue" /\ Queue!MergeOne(w))
    /\ WF_queueVars(part = "queue" /\ Queue!TurnArrives("m1"))
    /\ WF_queueVars(part = "queue" /\ Queue!TurnEnsured("m1"))

\* What is granted some time to who asks again and again: an asyncio.Lock, a
\* connection, a place in the Channel, a read.
Grants(i) ==
    \/ /\ part = "lifecycle"
       /\ UNCHANGED <<clientVars, requestVars, queueVars>>
       /\ \/ i = 1 /\ Lifecycle!EnterStart
          \/ i = 2 /\ Lifecycle!EnterClose
          \/ i = 3 /\ Lifecycle!EnterStop("s1")
    \/ /\ part = "client"
       /\ UNCHANGED <<lifecycleVars, requestVars, queueVars>>
       /\ \/ i = 1 /\ \E t \in {"c1", "reconnect"} : Client!LockedLook(t)
          \/ i = 2 /\ \E t \in {"c1", "reconnect"} : Client!InitLockWakes(t)
          \/ i = 3 /\ Client!CloseResets
          \/ i = 4 /\ \E t \in {"c1", "reconnect"} : Client!OpenSucceeds(t)
    \/ /\ part = "request"
       /\ UNCHANGED <<lifecycleVars, clientVars, queueVars>>
       /\ \/ i = 1 /\ \E w \in {"worker", "recovery"} : Request!ScheduleStep(w)
          \/ i = 2 /\ \E r \in {"r1", "r2"} : Request!BeginPublication(r, "c1")
          \/ /\ i = 3
             /\ \E r \in {"r1", "r2"} : Request!Shows(r, "c1") \/ Request!Fails(r, "c1")
          \/ i = 4 /\ Request!AuthorizeStep("u1")
    \/ /\ part = "recovery"
       /\ UNCHANGED <<lifecycleVars, clientVars, queueVars>>
       /\ \/ i = 1 /\ \E w \in {"worker", "recovery"} : Recovery!ScheduleStep(w)
          \/ i = 2 /\ Recovery!BeginPublication("r1", "c1")
          \/ i = 3 /\ (Recovery!Shows("r1", "c1") \/ Recovery!Fails("r1", "c1"))
    \/ /\ part = "queue"
       /\ UNCHANGED <<lifecycleVars, clientVars, requestVars>>
       /\ \/ i = 1 /\ Queue!ReadBatch("observer")
          \/ i = 2 /\ Queue!ReadBatch("projector")

FairSpec ==
    /\ Init /\ [][Next]_<<vars, missed>>
    /\ LifecycleRuns /\ ClientRuns /\ RequestRuns /\ RecoveryRuns /\ QueueRuns
    /\ \A i \in 1..4 : SF_vars(Grants(i) /\ UNCHANGED part)

-----------------------------------------------------------------------------
\* Somebody waits: for the Gateway to close, for stop(), for close() of a client, for a
\* call, for the verdict on a response.
Waits ==
    \/ part = "lifecycle"
       /\ \/ (hist.asked \/ gw.leaseFailure) /\ ~gw.closed
          \/ stoppers["s1"] \notin {"idle", "done"}
    \/ part = "client" /\ ((closing /\ closer # "done") \/ task["c1"].pc \notin {"idle", "done"})
    \/ part = "request" /\ pc["u1"] \notin {"idle", "done"}

(* Whoever asks for the Gateway to stop, or loses its lease, it closes and *)
(* stop() returns; close() of a client returns and so does a call that it  *)
(* interrupts; and a response to a native request gets its verdict.        *)
CloseAndCallsReturn == Waits ~> ~Waits

\* A lost target and no connection.
Undialled == hasBeenReady /\ epoch = 1 /\ transport = 0 /\ ~closing /\ ~reset.failed

\* A request the Application ended is open or being delivered, ...
OpenAfterEnd ==
    /\ native["r1"] \in {"resolved", "stale"} /\ "r1" \notin missed
    /\ rows["r1"]["c1"] = "open" \/ tasks["r1"]["c1"] # "none"

\* ... and one it lists was never put on its route.
NotOnRoute ==
    /\ native["r1"] = "pending" /\ rows["r1"]["c1"] = "none"
    /\ "c1" \notin blocked /\ faults.moves = 0

\* A queued input the Application started or dropped, and its record does not say so.
Unrecorded ==
    /\ evidence["m1"] \notin {"none", "admitted", "cancelled"}
    /\ Queue!ReceiptFor(items["m1"]) \in {"admitted", "cancelled"}

Disagree ==
    \/ part = "client" /\ Undialled
    \/ part \in {"request", "recovery"} /\ (OpenAfterEnd \/ NotOnRoute)
    \/ part = "queue" /\ Unrecorded

(* The two sides come to agree: a lost target is dialled again until there *)
(* is a connection, a request the Application ended is not open for an     *)
(* answer any more, one it still lists is on the route unless the route    *)
(* moved or is blocked, and what it did with a queued input is recorded.   *)
(* Excepted is what the code leaves for good: a reset whose stop() raised  *)
(* dials nobody (client.py:1748), and a request in "missed" may be opened  *)
(* by a delivery its resolution did not meet (request_correlation.py:477   *)
(* after a restart, :408 after a gap).                                     *)
SidesConverge == Disagree ~> ~Disagree
=============================================================================

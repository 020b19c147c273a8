----------------------------- MODULE MCProgress -----------------------------
(***************************************************************************)
(* Liveness of the tasks that serve a caller or a stream, under the        *)
(* fairness of the event loop alone: a task that can run does.  Small      *)
(* instances of the components, one of which, its part, a behaviour is of. *)
(* Every component calls its tasks t1 and t2.                              *)
(***************************************************************************)
EXTENDS QQIngress, TLC

CONSTANT Parts

VARIABLES part,
    status, owner, process, lease, phase, fifo, overflow, draining, locks, place, msg, home,
    why, told, sends, verdict, arrivals, turned, faulty,
    storeEpoch, leaseLive, open, receipts, bound, gens, floors, routes, gone, touched,
    mutated, calls, invoked, effect,
    emitted, cause, pending, buffered, over, current, eventLocks, dispatch, worker, gap,
    observed, barrier, recon, turnFaults, observes, done, excused,
    mark, link, hot, wire, entry, sub, notices, known, used,
    laneEpoch, up, resetting, native, cameOn, lane, handling, unanswered, outcomes,
    responder, replies, published,
    threads, ad, inputs, poll, subs, hist,
    step, at, fast, record, given, adrift, passed, hall, missed, failures, stops,
    confirmed, cursor, saved, batch, next, polling, offered, door,
    arrived, subscribed, thread, callbacks, slots, free, held, stopping, life, full,
    reported, refused, failed, inbox, losses, entrance

inboundVars == <<status, owner, process, lease, phase, fifo, overflow, draining, locks, place,
                 msg, home, why, told, sends, verdict, arrivals, turned, faulty>>
effectVars == <<storeEpoch, leaseLive, open, receipts, bound, gens, floors, routes, gone,
                touched, mutated, calls, invoked, effect>>
turnVars == <<emitted, cause, pending, buffered, over, current, eventLocks, dispatch,
              worker, gap, observed, barrier, recon, turnFaults, observes, done, excused>>
zenVars == <<mark, link, hot, wire, entry, sub, notices, known, used>>
requestVars == <<laneEpoch, up, resetting, native, cameOn, lane, handling, unanswered,
                 outcomes, responder, replies, published>>
t3Vars == <<threads, ad, inputs, poll, subs, hist>>
polledVars == <<step, at, fast, record, given, adrift, passed, hall, missed, failures, stops>>
telegramVars == <<confirmed, cursor, saved, batch, next, polling, offered, door>>
feishuVars == <<arrived, subscribed, thread, callbacks, slots, free, held, stopping, life,
                full, reported, refused, failed, inbox, losses, entrance>>
progressVars == <<part, inboundVars, effectVars, turnVars, zenVars, requestVars, t3Vars,
                  vars, polledVars, telegramVars, feishuVars>>

-----------------------------------------------------------------------------
Tasks == {"t1", "t2"}

\* Two deliveries to a process that starts, drains, runs and stops.
Inbound == INSTANCE InboundAdmission WITH
    Messages <- {"m1", "m2"}, Conversations <- {"c1"},
    ConversationOf <- [m \in {"m1", "m2"} |-> "c1"], Deliveries <- Tasks,
    Nobody <- "nobody", Faults <- {"cancel"}, Presenter <- FALSE, MaxPending <- 1,
    MaxEpoch <- 1, epoch <- process, pc <- place

\* Two calls of one create-and-bind workflow, whose lease may be lost.
CreateAndBind ==
    [key |-> "a1", category |-> "workflow", conv |-> "c1", target |-> "th",
     change |-> "bind", route |-> "upsert", expected |-> -1]
Effect == INSTANCE EffectExecution WITH
    Keys <- {"a1"}, Conversations <- {"c1"}, Threads <- {"th"}, Deletable <- {},
    NoThread <- "no thread", Unbound <- "unbound", MaxEpoch <- 1, MaxReceipts <- 2,
    Calls <- Tasks, Reconcilable <- {"a1"}, Faults <- {"cancel", "error"},
    Requests <- {CreateAndBind}, epoch <- storeEpoch

\* Two dispatches and two events at the acceptance gate.
Turn == INSTANCE TurnAcceptance WITH
    Dispatches <- Tasks, Worker <- "worker", Nobody <- "nobody", LockIds <- 1..3,
    MaxEvents <- 2, MaxPending <- 1, MaxFaults <- 1, MaxObserves <- 0,
    DrainFaults <- FALSE, locks <- eventLocks, faults <- turnFaults

\* One dispatch of a Thread that is left and observed again, whose drain, reads
\* and deliveries fail.
Gap == INSTANCE TurnAcceptance WITH
    Dispatches <- {"t1"}, Worker <- "worker", Nobody <- "nobody", LockIds <- 1..2,
    MaxEvents <- 1, MaxPending <- 1, MaxFaults <- 2, MaxObserves <- 1,
    DrainFaults <- TRUE, locks <- eventLocks, faults <- turnFaults

\* Two subscriptions to a native queue whose connection is reset.
Zen == INSTANCE ZenQueueObservation WITH
    Subs <- {"s1", "s2"}, Kinds <- <<"queued", "other", "admitted", "ordinary">>,
    MaxPending <- 1, MaxResets <- 1, MaxFaults <- 0, conn <- link, queue <- notices

\* A native request that is answered, and one that is malformed.
Mixed(r) == IF r = "r1" THEN "ok" ELSE "malformed"
First(t) == "r1"
Request == INSTANCE AppServerRequests WITH
    Requests <- {"r1", "r2"}, Shape <- Mixed, Responders <- {"t1"},
    Target <- First, LaneSize <- 2, CacheLimit <- 2, MaxEpoch <- 2,
    epoch <- laneEpoch, pending <- unanswered

\* A Thread that is polled.
T3 == INSTANCE T3Application WITH
    Threads <- {"th"}, Inputs <- {"p1"}, Subscribers <- {"s1"},
    ThreadOf <- [x \in {"p1", "s1"} |-> "th"], Presenter <- FALSE,
    BaselineCapacity <- 2, LockCapacity <- 1, SeenCapacity <- 9, TerminalCapacity <- 4,
    MaxPending <- 2, Window <- 1, MaxSeen <- 2, MaxItems <- 2, MaxForeign <- 1, MaxEvents <- 9,
    MaxSubscribes <- 1, native <- threads

\* Three messages of a platform, the second of which is turned away (the
\* configuration). QQ is the module QQIngress itself, the others are instances.
Telegram == INSTANCE PollingChannels WITH
    Provider <- "telegram", MaxFaults <- 1, BatchLimit <- 2,
    pc <- step, cur <- at, admitted <- fast, claim <- record, handed <- given,
    orphans <- adrift, skipped <- passed, gate <- door, startup <- hall, dropped <- missed,
    faults <- failures, restarts <- stops,
    sent <- offered, phase <- polling

Feishu == INSTANCE FeishuIngress WITH
    QueueLimit <- 2,
    pc <- step, cur <- at, admitted <- fast, claim <- record, handed <- given,
    orphans <- adrift, skipped <- passed, gate <- entrance, startup <- hall, dropped <- missed,
    faults <- failures, restarts <- stops,
    phase <- life, overflow <- full, queue <- inbox, open <- free, job <- held,
    drops <- losses

ASSUME ProgressAssumption ==
    /\ Turn!GateAssumption /\ Gap!GateAssumption
    /\ Zen!ObservationAssumption /\ Request!RequestsAssumption
    /\ T3!T3Assumption /\ Telegram!TransactionAssumption /\ Telegram!PollingAssumption
    /\ TransactionAssumption /\ QQAssumption /\ Feishu!FeishuAssumption

-----------------------------------------------------------------------------
ProgressInit ==
    /\ part \in Parts
    /\ Inbound!Init /\ Effect!Init /\ Zen!Init /\ Request!Init /\ T3!Init
    /\ IF part = "gap" THEN Gap!Init ELSE Turn!Init
    /\ Init /\ Telegram!Init /\ Feishu!Init

Callers ==
    \/ /\ part = "inbound" /\ Inbound!Next
       /\ UNCHANGED <<effectVars, turnVars, requestVars>>
    \/ /\ part = "effect" /\ Effect!Next
       /\ UNCHANGED <<inboundVars, turnVars, requestVars>>
    \/ /\ \/ part = "turn" /\ Turn!Next
          \/ part = "gap" /\ Gap!Next
       /\ UNCHANGED <<inboundVars, effectVars, requestVars>>
    \/ /\ part = "request" /\ Request!Next
       /\ UNCHANGED <<inboundVars, effectVars, turnVars>>

\* Bound: two of a failing call, a lost connection and a closed Gateway.
Troubles == faults + drops + restarts <= 2

Ingress ==
    \/ /\ part = "qq" /\ Next /\ Troubles'
       /\ UNCHANGED <<polledVars, telegramVars, feishuVars>>
    \/ /\ part = "telegram" /\ Telegram!Next
       /\ UNCHANGED <<vars, feishuVars>>
    \/ /\ part = "feishu" /\ Feishu!Next
       /\ UNCHANGED <<vars, telegramVars>>

ProgressNext ==
    /\ \/ /\ Callers
          /\ UNCHANGED <<zenVars, t3Vars, vars, polledVars, telegramVars, feishuVars>>
       \/ /\ Ingress
          /\ UNCHANGED <<inboundVars, effectVars, turnVars, requestVars, zenVars, t3Vars>>
       \/ /\ \/ part = "zen" /\ Zen!Next /\ UNCHANGED t3Vars
             \/ part = "t3" /\ T3!Next /\ UNCHANGED zenVars
          /\ UNCHANGED <<inboundVars, effectVars, turnVars, requestVars, vars, polledVars,
                         telegramVars, feishuVars>>
    /\ UNCHANGED part

\* The event loop runs every task that can go on (see the comment of each part).
telegramAllVars == <<polledVars, telegramVars>>
feishuAllVars == <<polledVars, feishuVars>>

TurnFairness ==
    /\ \A t \in Tasks : WF_turnVars(part = "turn" /\ Turn!DispatchRuns(t))
    /\ WF_turnVars(part = "turn" /\ Turn!WorkerRuns)
    /\ WF_turnVars(part = "gap" /\ Gap!DispatchRuns("t1"))
    /\ WF_turnVars(part = "gap" /\ Gap!WorkerRuns)
    /\ WF_turnVars(part = "gap" /\ Gap!CallerRuns)

ZenFairness ==
    /\ \A s \in {"s1", "s2"} :
          /\ WF_zenVars(part = "zen" /\ Zen!Subscribe(s))
          /\ WF_zenVars(part = "zen" /\ Zen!Up(s))
          /\ WF_zenVars(part = "zen" /\ Zen!Woken(s))
          /\ WF_zenVars(part = "zen" /\ Zen!Ended(s))
    /\ WF_zenVars(part = "zen" /\ Zen!Initialize)
    /\ WF_zenVars(part = "zen" /\ Zen!Resume)
    /\ WF_zenVars(part = "zen" /\ Zen!Output)
    /\ WF_zenVars(part = "zen" /\ Zen!Notification)
    /\ WF_zenVars(part = "zen" /\ Zen!Retire)

FeishuFairness ==
    /\ WF_feishuAllVars(part = "feishu" /\ (Feishu!TakeSlot \/ Feishu!Post))
    /\ WF_feishuAllVars(part = "feishu" /\ Feishu!EnqueueInbound)
    /\ WF_feishuAllVars(/\ part = "feishu"
                        /\ Feishu!WorkerGet \/ Feishu!Dispatcher \/ Feishu!WorkerDone)
    /\ WF_feishuAllVars(part = "feishu" /\ (Feishu!StopDrain \/ Feishu!StopJoin))
    /\ WF_feishuAllVars(part = "feishu" /\ Feishu!GatewayRuns)

Fairness ==
    /\ \A t \in Tasks :
          /\ WF_inboundVars(part = "inbound" /\ Inbound!DeliveryStep(t))
          /\ WF_effectVars(part = "effect" /\ Effect!CallStep(t))
    /\ WF_inboundVars(part = "inbound" /\ Inbound!DrainLoop(1))
    /\ WF_inboundVars(part = "inbound" /\ Inbound!Rollback(1))
    /\ WF_requestVars(part = "request" /\ Request!ResponderStep("t1"))
    /\ WF_requestVars(part = "request" /\ Request!Dispatcher)
    /\ WF_requestVars(part = "request" /\ Request!ResetHandlers)
    /\ WF_t3Vars(part = "t3" /\ T3!PollStep("th"))
    /\ WF_telegramAllVars(part = "telegram" /\ Telegram!Work)
    /\ WF_vars(part = "qq" /\ (Dispatcher \/ WorkerGet \/ WorkerDone \/ WorkerRetry))
    /\ WF_vars(part = "qq" /\ GatewayRuns)
    /\ TurnFairness /\ ZenFairness /\ FeishuFairness

FairSpec == ProgressInit /\ [][ProgressNext]_progressVars /\ Fairness

-----------------------------------------------------------------------------
Waits(t) ==
    \/ part = "inbound" /\ place[t] # "idle"
    \/ part = "effect" /\ calls[t].pc # "idle"
    \/ part \in {"turn", "gap"} /\ t \in DOMAIN dispatch /\ dispatch[t].pc = "sending"
    \/ part = "request" /\ t = "t1" /\ responder[t].pc # "idle"

Ended(t) ==
    \/ part = "inbound" /\ place[t] \in {"returned", "raised", "dead"}
    \/ part = "effect" /\ calls[t].pc \in {"done", "crashed"}
    \/ /\ part \in {"turn", "gap"} /\ t \in DOMAIN dispatch
       /\ dispatch[t].pc \in {"accepted", "post", "failed"}
    \/ part = "request" /\ t = "t1" /\ responder[t].pc = "done"

(* Every caller is served: a delivery is not forgotten in the startup FIFO *)
(* or behind its Conversation, a call of the executor returns unless its   *)
(* process dies, a dispatch does not wait forever for an event lock or     *)
(* behind a barrier, and a response to a native request ends.              *)
EveryCallEnds == \A t \in Tasks : Waits(t) ~> Ended(t)

\* Of the messages and queue notifications, the ones that matter.
Odd(i) == 2 * i - 1

Due(i) ==
    \/ part \in {"turn", "gap"} /\ emitted >= i /\ observed
    \/ part = "zen" /\ mark >= Odd(i) /\ Zen!Wakes(Odd(i))
    \/ part = "request" /\ lane # <<>> /\ up
    \/ part = "t3" /\ i \in T3!Ids(threads["th"], "msg") /\ poll["th"].pc # "off"
    \/ part = "telegram" /\ offered >= Odd(i)
    \/ part = "qq" /\ Odd(i) \in queued
    \/ part = "feishu" /\ thread = [at |-> "post", message |-> Odd(i)]

Settled(i) ==
    \/ part \in {"turn", "gap"} /\ (i \in done \cup excused \/ ~observed \/ worker.stranded)
    \/ part = "zen" /\ \A s \in {"s1", "s2"} : known[s] >= Odd(i)
    \/ part = "request" /\ (lane = <<>> \/ ~up)
    \/ part = "t3" /\ (T3!Contains(ad.seen, <<"th", i>>) \/ poll["th"].pc = "off")
    \/ part = "telegram" /\ Odd(i) \in Telegram!Handed \cup passed \cup missed
    \/ part = "qq" /\ (Odd(i) \in Handed \cup skipped \cup dropped \/ ~running)
    \/ part = "feishu"
       /\ (Odd(i) \in Feishu!Handed \cup passed \cup missed \cup failed \/ stopping)

(* Nothing that arrived is left behind: an event of an observed Thread     *)
(* reaches its route, a change of a queued input is read, a native request *)
(* leaves its lane, a polled message is seen, and a message a platform     *)
(* sent, queued or gave a slot is handed over, turned away, answered by an *)
(* open claim or logged, unless the adapter is stopped.  An event is left  *)
(* behind in one case: recover_ordering_gap cancels a worker that sleeps   *)
(* before the retry of another failure, which ends it (worker.stranded;    *)
(* observation.py:1141), and nothing starts it again.                      *)
NothingIsLeft == \A i \in 1..2 : Due(i) ~> Settled(i)
=============================================================================

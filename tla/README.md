# Verification of im-agent-sdk

TLA+ modules that model `imagent` (`src/src/imagent`), the TLC configurations
that check them on small instances, and TLAPS proofs of the results that matter
most. `PROJECT.json` maps every definition to the lines it models and lists runs,
mutants, findings, hazards and theorems.

## 1. The system

`imagent` is an asyncio SDK that puts agent applications (Codex and other
app-servers, T3, Zen) behind instant-messaging channels (Feishu, QQ, Telegram,
Weixin). It has three layers. The **interaction** layer receives messages from
Channels and delivers messages to them. The **gateway** layer admits inbound
messages, binds Conversations to native Threads, executes actions, projects
native events to Conversations and keeps the durable state. The
**applications** layer talks to the native applications. Python code runs in
one event loop per process; a step is what happens between two awaits. Several
processes may hold the same store; a lease says which of them may write.

| Component | State | Operations | What is hard | What makes it correct |
|---|---|---|---|---|
| Gateway store (`persistence/`) | lease row and epoch, effect receipts, bindings, generation floors, routes, claims, queued inputs, checkpoints, correlations, submissions | one transaction per operation, each under the runtime fence; an in-memory and an SQLite backend | takeover by another process, lost acknowledgements, generation reuse, full tables, two implementations | a stale process writes nothing; a terminal receipt is final; binding and route move together; the backends agree |
| Effect executor (`effect_execution.py`) | the control of each call | store mutation, native mutation, create-and-bind workflow | concurrent callers, cancellation at every await, crash between fence and record, reconciliation | the Application is asked at most once, the verdict is true and durable |
| Actions (`actions.py`, `controller_input.py`, `routing/`) | scoped action runtime, Projection leases | bind, clear, observe, native operations, workflows | staleness between preflight and commit, mutable arguments, replay under another identity | what is executed is what was checked and fingerprinted |
| Runtime and lifecycle (`runtime.py`, `lifecycle.py`, `orchestration.py`) | lease task, started owners, close task | start, supervise, stop | cancellation of start, lease loss during startup, rollback | everything started is stopped once, in order |
| Inbound admission (`admission.py`, `idempotency.py`, `input/failure_presentation.py`) | claim per message, startup FIFO, Conversation locks | begin, deliver, release, process | redelivery, stale takeover, crash between fence and completion | at most one native send per message, order kept, claims settled |
| Turn acceptance gate (`input/dispatch.py`) | pending acceptances, buffered events, locks | begin, finish, handle event, drain | events that overtake the acceptance they belong to; a lock object replaced under its holder | projection order is native order |
| Queued input (`input/queue_runtime.py`, `persistence/queue_receipts.py`, `zen_queue*.py`) | association rows, evidence | fence, accept, observe, cancel, restore | evidence in any order, unknown cancellation, restart | one true terminal state per input |
| Delivery (`delivery/`) | per-destination queues, submissions, claims, staged files | plan, submit, deliver, retry, observe | unknown outcomes, partial failure, bounds, cancellation | delivered at most once, honest receipts |
| Consumer hooks (`presentation.py`, ...) | active and overrun tasks | invoke, cancel-and-join, close | hooks that ignore cancellation | bounded |
| Projection (`projection/`) | workers, barriers, cursors, request correlations | observe, recover, checkpoint, remove, respond | gaps, replays, concurrent recovery, ABA of routes | in order, nothing skipped, one answer per request |
| App-server client, requests (`applications/adapters/appserver`) | epoch, transport, pending calls, lane | request, reset, reconnect, close | response after timeout, reset during a request | an outcome is never claimed that is not known |
| T3 adapter (`applications/adapters/t3.py`) | baselines, cursors, subscriptions | send, poll, publish | polling a moving native state | nothing published twice or dropped |
| Channels (`interaction/channels`) | offsets, sessions, queues, slots, spool | receive, acknowledge, resume, deliver, stage | platform redelivery, threads, child processes | acknowledged means handled |

A Channel calls `begin`/`deliver` of inbound admission; the claimed message is
processed under the Conversation lock, which may call a Controller (whose
actions go through the effect executor) or send the message to the bound
Application behind the claim's fence; native events come back through the
acceptance gate to the projection workers, which submit outbound messages to
delivery. All of them write through one store session, whose every mutation is
refused once the lease is lost.

## 2. Plan

Done is marked *.

1. * `GatewayStore`, `EffectExecution` over it, `EffectPromise`, `EffectProofs`.
2. * `InboundAdmission`, `InboundProofs`.
3. * `TurnAcceptance`, `QueuedInput`, `ZenQueueObservation`, `RouteProjection`,
   `RequestCorrelation`, `RequestProofs`: between a Conversation and its Thread.
4. * `DeliveryPlanning`, `DeliveryCoordination`, `ProactiveDelivery`,
   `ProactiveProofs`, `HookRuntimes`, `NativeDelivery`, `TextSplit`: the way out.
5. * `StoreBackends`, `RepositoryParity`, `EffectParity`: the two stores.
6. * `ActionSurface`, `GatewayLifecycle`.
7. * `AppServerClient`, `AppServerRequests`, `AppServerThreads`, `T3Application`,
   `IngressTransaction`, `PollingChannels`, `QQIngress`, `FeishuIngress`,
   `MediaStaging`: the adapters. `IngressProofs`, `PollingProofs`, `QQProofs`,
   `FeishuProofs`.
8. Theorems: see section 6 for those proved and those left.

## 3. Modules

An action is the code between two awaits (or one transaction of a store); what
an await can do (return, raise, be cancelled, never return) are alternatives of
the action after it. History variables, which no action reads, are named as such
where they are declared.

* **GatewayStore** - the store as the executor uses it. Each operation is one
  action because it runs under one lock (memory) or in one `BEGIN IMMEDIATE`
  transaction (SQLite). `Fenced(e)` is `_assert_fence_locked`; the epoch stands
  for the owner token too, since `Gateway.start` draws a fresh token for every
  acquisition. Time appears only as `LeaseExpires`. A request is one fingerprint
  with the plan it carries; two requests of one key with different fields are
  the same identity with another payload, which the store refuses (`Conflicts`).
* **EffectExecution** - one record per executor call: its program counter, the
  process (epoch) it runs in, the outcome it holds and its result. A store call
  may be acknowledged, be refused, fail without effect, or take effect and lose
  its acknowledgement (`Faults`); cancellation is a fault too. The native
  Application is external and may decide a request at any time after it was
  sent, also after its caller died. Every exception of the native call is a
  failure that is recorded as known (`InvokeReturns`), also that of a request
  which is or will be applied: a known `failed` says only that the Application
  was asked.
* **EffectPromise** - what the callers are promised, without leases, processes
  or receipts: success only of an applied action (`Succeed`), giving up only of
  one that was asked (`GiveUp`). `KeepsPromise` is the refinement.
* **InboundAdmission** - the way of a native message through a Gateway process.
  A *delivery* is one Channel callback; it draws a fresh owner token (`uuid4`),
  so the delivery stands for its token. Actions follow the code from
  `_begin_inbound` (`Present`, `Claim`), the admission lease (`PrepareMedia`,
  `Deliver`, `Release`), the startup FIFO (`Admit`, `DrainLoop`, `Rollback`), the
  Conversation lock (`AwaitConversation`), `_process_message` (`PrepareInput`,
  `EnterFence`, `SendInput`, `ReceiveAnswer`) to `handle_claimed_inbound`
  (`Complete`, `PresentFailure`). `StartProcess`, `Stop`, `Close`, `Crash` and
  `LeaseExpires` are the life of a process. It allows more than the code does in
  two ways: an `in_flight` claim may grow stale at any time (its age is not
  kept), and a Channel may deliver a message any number of times although
  `ingress.py` drops most repetitions within one process.
* **ActionSurface** - every mutating method of `actions.py`: normalisation of
  the call, durable identity, reads of capabilities, profiles and resources,
  fingerprint, executor call, replay, Projection lease. Here the store calls of
  the executor succeed, but for the commit of a workflow, whose fence of the
  routes may fail with the lease held; what varies is what the executor is handed.
  A queued input that was started is reconciled from its row.
* **GatewayLifecycle** - start, rollback, stop, close task, lease task and
  preparations of one Gateway; owners return, raise or outlive their deadline, and
  the lease task may end with an error of its own (`lease_error`).
* **StoreBackends**, **RepositoryParity**, **EffectParity** - the in-memory and
  the SQLite store run the same call in one step; each operation is an operator
  from a store to the store it leaves and its answer. An SQLite table is the set
  of its rows with its keys enforced; a transaction that raises answers with the
  store it began with. What differs on purpose is left out of the comparison:
  capacity limits only memory has (checked where both have them), the takeover of
  a stale claim that only SQLite has (`SameAnswerUntilTakeover`), the order of
  lists, and `close()`.
* **TurnAcceptance** - the gate, its buffers and lock identities, dispatches,
  drains, the observation worker and the reconciliation it meets.
* **QueuedInput**, **ZenQueueObservation** - the association row and the merge
  of evidence from acknowledgement, observer, user operations and projection; the
  watermark, notices and gaps that wake the observer.
* **RouteProjection** - one route: bootstrap barrier, leases, live worker, paged
  recovery with its catch-up read, delivery claims, checkpoint, removal and crash.
  `overtaken` has the items a read passed over or brought after a newer one, and
  `voided` the callers whose closed barrier an abort retired: the two exceptions
  of its properties (section 5).
* **RequestCorrelation** - prompts to several Conversations, rows, responses,
  resolution, gaps, restart with its list of pending requests, and moved routes.
* **DeliveryPlanning**, **TextSplit** - pure algorithms, as one step per message
  or per chunk, checked against what a plan and a split owe their input. A text is
  plain or Markdown; where the Channel has no Markdown, `MarkdownToPlain` takes the
  fences of code blocks with their lines and the paired marks of inline code out of
  it (links and emphasis are not among the characters). The number of items, the
  reference to the message replied to, and family and size of an attachment are
  checked against the profile.
* **DeliveryCoordination**, **ProactiveDelivery** - bounded queues, retries,
  receipts; submission records, claims, shared tasks, ingress lock and staging.
  A Channel's receipt may say another thing of an item than of the segment
  (`ItemAnswers`), so an accepted segment may have a rejected item. Destinations
  are resumed one after the other, with an await at each. The staged artifacts of a
  call are there while one of its destinations works, except when another of them
  raised (see section 5).
* **HookRuntimes** - the two disciplines that bound consumer hooks. `untracked` has
  the observers whose wrapper the second cancellation of `close` ended.
* **NativeDelivery** - artifacts and chunks of one message to each provider. QQ,
  Weixin and Feishu are taken to recognise a repeated identity; Telegram has none.
* **AppServerClient**, **AppServerRequests** - the JSON-RPC client with its locks,
  epochs, reset and reconnect tasks; the lane of native requests.
* **AppServerThreads** - one native Thread as the adapter sees it: the evidence
  that a Thread it created has had no input, the reads and locks around it, the
  notifications that retire or refresh it, and the subscribers with their bounded
  queues. A Turn need not show in the clocks of the Thread (they have a
  resolution), so the guard against a missed Turn is stated for those that do; and
  a refresh by a read made after such a Turn takes the Turn's revision for one of
  the creation (`absorbed`), which the property excepts.
* **T3Application** - inputs, polling and publication against a native log, to
  which native clients add Turns of their own (`NativeTurn`). Without a presenter
  a poll publishes messages in the order of the snapshot; with one, messages and
  activities by their timestamps (`Ordered`), of which that of a message is its last
  update. Windows of one identity evict (*replay*).
* **IngressTransaction** - the shared transaction of a Channel, extended by
  **PollingChannels** (Telegram, Weixin), **QQIngress** and **FeishuIngress**,
  whose SDK thread runs beside the event loop. The Gateway behind it starts (and
  keeps messages in its FIFO, `startup`), is live, or accepts no more: then a call
  returns without an error and without the message (`NoLease`, `TurnAway`), and the
  message is in `dropped`, as is one whose start was rolled back. A Feishu stop
  waits for its thread; the join that times out is outside the model.
* **MediaStaging** - staging children, file lock, quota, rollback, stop. The files
  of a message are materialized after its images (`After`); a call may reach its
  deadline (`Slow`) or be cancelled at every await; a stop succeeds or fails, and
  what it promises it promises of success. The case of a missing spool directory is
  left out.

The **MC** modules are the instances. One run checks several instances of the
components of one area: a behaviour is of one of them, its *part*, and the others
stay where they start, so the states of a run are the sum of those of its parts.
A component with a theorem is extended by the MC module of its run, so what TLC
checks there is what the proof modules prove: `EffectExecution` by
`MCEffectExecution`, `InboundAdmission` by `MCInboundAdmission`, `FeishuIngress` by
`MCGateway`, `ProactiveDelivery` by `MCDelivery`, `RequestCorrelation` by `MCThread`,
`PollingChannels` by `MCAdapters` and `QQIngress` by `MCProgress`.

## 4. Runs

| Run | Parts and bounds | Checks |
|---|---|---|
| `effects` | 3 calls. *native*: two of them, one action, cancellation and errors, 2 processes. *workflow*: create-and-bind racing two binding changes and a reused key, 1 process, receipt table of 2. *reconcile*: the workflow alone with a reconciler, 2 processes. *binding*: bind with and without expected generation, clear, clear observation, native deletion | `AtMostOneInvocation`, `ReceiptsAreTrue`, `BindingsAreSafe`, `TerminalIsFinal`, `StaleRuntimeNeverWrites`, the refinement `KeepsPromise` |
| `inbound` | 3 deliveries, FIFO of 1. *redelivery*: 1 message, 1 process, store errors, presenter. *takeover*: two of the deliveries, 2 processes, store errors, presenter. *conversation*: 2 messages of one Conversation, 1 process, cancellation | `AtMostOneSend`, `NoticesAreTrue`, `InOrder`, `ClaimsAreSettled`, `FencedStaysFenced` |
| `gateway` | 2 tasks over native, profile, binding and workflow calls, one or two outside changes (the profile calls once with a profile that changes and changes back, once with an argument that changes); a Gateway of two Applications and a Channel stopped by two tasks; *feishu*: 4 messages, a queue of 2, a dropped connection, a restart and a fault | `SentAsChecked`, `AnswersAreOwn`, `TeardownIsOrderly`, `InboundIsAccounted` |
| `store` | each group of operations on both stores: 2 owners over a lease expiry, claims over their stale age, 16 colliding routes, correlations, submissions, all shapes of a plan, receipts in a table of 2 | `BackendsAgree`, `StoreIsConsistent`, `HistoryIsKept` |
| `delivery` | all texts of up to 5 characters, plain or Markdown, and messages of up to 4 items, with item, size and reply limits; 3 deliveries to 2 destinations with per-item receipts, and (*busy*) 3 to a destination with room for 2; proactive calls of one id: *external*, two callers to a Thread of two routes that move, with a crash or a store failure; *ingress*, two through the handler and one of another id that is refused, with a crash or a store failure, and a cancellation or a revocation; *internal*, three of the Gateway, one with another payload, with two crashes and a store failure; 3 to 4 hooks of which 2 may run, closed and started again; 2 artifacts and 2 chunks sent twice by each provider; all texts of up to 7 characters | `PlanIsFaithful`, `CoordinatorIsHonest`, `DeliveredAtMostOnce`, `HooksAreBounded`, `NativeReceiptsAreTrue`, `SplitIsFaithful` |
| `thread` | 2 dispatches and 2 events at a gate that buffers one; 1 or 2 queued inputs with crash and rebinding; 4 native queue changes; 1 to 3 callers on a route of 2 to 4 items, with failing baselines and an aborted action; 1 request in 2 Conversations, answered by both, or by one (`OneAnswers`) with a crash, a gap or a moved route | `TurnOrder`, `QueueEvidence`, `NoLostWakeup`, `ProjectedInOrder`, `AnsweredOnce`, `NothingIsUndone` |
| `adapters` | 4 messages of Telegram and of Weixin with 2 faults and restarts; a spool with room for one batch, and a message with images and files; 2 callers of a client over 2 connections; a created Thread with a baseline, an input, a refresh, a second creation, a queued input or a subscriber; 2 or 3 native requests with a cache of 1 or 2; T3 with 1 or 2 Threads in tables of 1 or 2, Turns of native clients, and (*replay*) windows of one identity | `ConfirmedIsHandled`, `SpoolIsBounded`, `ClientIsHonest`, `RequestsAnsweredOnce`, `T3KeepsItems` |
| `progress` | smaller instances of nine components, under weak fairness; *gap*: a Thread left and observed again, whose drain, reads and deliveries fail; QQ with 3 messages, 2 sessions, a queue of 1 and two of a failing call, a lost connection and a closed Gateway (`Troubles`) | `SessionIsKept`, `EveryCallEnds`, `NothingIsLeft` |
| `convergence` | lifecycle, client (also with a reset whose `stop()` raises), request and queue, with what is granted some time; *recovery*: one request over a restart, a gap and a moved route | `CloseAndCallsReturn`, `SidesConverge` |
| `effect_fence_error` (violation) | one native action, two calls | finding 1 |
| `effect_known_workflow` (violation) | a workflow with a reconciler | finding 2 |
| `route_readd` (violation) | a route observed, cleared and used again | finding 3 |

**Bounds.** Two epochs are the least in which a process is taken over while its
calls run; a third acquisition does what the second did. Three calls let one
caller hold the fence while two others race for what follows. A receipt table of
two with three keys meets the capacity limit. The records of different messages
do not interact, so one message with three deliveries (an owner, one that takes
its claim over, one redelivered to the next process) meets every order of claims;
order and overflow need two messages and a FIFO of one. In the other modules every
bounded table, queue or cache is one smaller than what is put into it in some
part, every retry has one attempt more than it needs, and crashes, gaps, faults
and restarts happen once or twice, which is what it takes to hit every step once
and once more during the recovery from it. Tasks run once, so a behaviour may end
with everything finished: deadlock is not an error there. Symmetry is over tasks
or deliveries that no constant tells apart, in runs without liveness. Contents,
declarations of a profile and destinations that nothing tells apart either are named
in the order in which they appear (`UpToNames`, `ProactiveInit`).

**Fairness.** `progress` asks only that a task that can go on does (weak fairness
of the steps of each task): the event loop runs ready tasks, and store calls and
callbacks return or raise. Nothing is assumed of the lease, of crashes, of
Channels or of the Application; a callback that waits for an Application that
never decides is left by its exception or its cancellation. `convergence` adds
strong fairness (`Grants`) of what is granted some time to who asks again and
again: an `asyncio.Lock`, which is handed over first come, first served; a target
that can be connected to some time; a place in the Channel; a read that some time
succeeds. Without these the properties are false for the best code.

## 5. Findings

Three runs expect a violation:

1. `_enter_native_fence` answers `Failed` on a store error without reading the
   receipt, so a caller can be told `Failed` for an action whose effect is fenced
   (`effect_execution.py:507`, against `effect-execution/design.md:114`).
2. With a workflow reconciler, a second caller may end the workflow while the
   invoking caller records its success, which then trips the executor's own
   assertion (`effect_execution.py:671`). Latent: today's composition passes a
   reconciler that returns None.
3. `forget_route_ids` runs after awaits, and may take away the barrier and lock of
   a route that was added again (`observation.py:1535`, against
   `observation/testing.md:54`).

Other disagreements between code and documents that were met while modelling. Each
is reachable in the runs unless its entry says otherwise; the properties that the
runs check hold of the code as it is, and where one of these cases is an exception
of a property, the property and its comment name it:

* `recover_ordering_gap` cancels a worker that sleeps before its own retry; the
  cancellation ends it and the Thread is left without a worker
  (`observation.py:1141`, `dispatch/design.md:95`). `NothingIsLeft` excepts it
  (`worker.stranded`).
* an item that waits in the live stream behind the barrier is overtaken by a newer
  one that the catch-up read after the pages returns (`recovery.py:550`), and a read
  that does not find the checkpoint returns recent items, older ones of which may
  follow. `InOrder` and `NothingSkipped` of `ProjectedInOrder` except these items
  (`overtaken`).
* `asyncio.gather` without `return_exceptions` lets the ingress handler remove
  staged files while another destination is still being joined; `StagedWhileSending`
  excepts a call of which a destination raised
  (`proactive_runtime.py:322`, `gateway/design.md:189`).
* the second cancellation of `close` leaves an observer that ignores
  cancellation untracked (`outcome_observation.py:226`,
  `outcome-observation/design.md:27`). `HooksAreBounded` excepts it (`untracked`), and
  bounds how many one close can lose.
* `abort_action_bootstrap` opens a barrier that another action's failed
  baseline had left closed (`observation.py:1473`, `observation/design.md:75`).
  `BaselineFirst` of `NothingIsUndone` excepts it (`voided`).
* a call that resumes several destinations and is cancelled, or fails, between two
  of its claims leaves those it has claimed at `in_flight`, which nobody resumes
  (`proactive_runtime.py:396`); the comment at `proactive_runtime.py:516` says a
  cancellation must not strand durable state there. `DeliveredAtMostOnce` does not
  promise that they are sent.
* `_request` reconnects after `_ensure_ready` and may send on a connection that
  was not greeted (`client.py:1189`, `test_transport_lifecycle.py:912`).
* a reset whose `supervisor.stop()` raises never tells its handlers of the loss, and
  nobody dials again (`client.py:1748`, `client/design.md:62`). `SidesConverge`
  excepts it (`reset.failed`).
* a resolution without a row is dropped, and a delivery from the older snapshot of
  a restart then writes an open row (`request_correlation.py:477`,
  `request-correlation/design.md:57`); so does a delivery that is under way when a gap
  drops the resolution, for the reconciliation of the gap reads open rows only and
  ends no delivery (`request_correlation.py:408`). `SidesConverge` excepts these
  requests (`missed`).
* every exception of a native mutation becomes a known failure, a lost
  connection or a timeout of an applied effect too (`orchestration.py:726`,
  `actions.py:1772`, against `gateway-store/design.md:133`). `ReceiptsAreTrue` and
  `EffectPromise` say of such a failure only that the Application was asked.
* a Gateway that accepts no more returns from a message without an error, so
  Telegram confirms it and QQ's sequence passes it although nobody handled it
  (`orchestration.py:1087`, `telegram.py:617`, `qq.py:796`); so does one whose start
  fails after the message entered its FIFO. `ConfirmedIsHandled`, `SessionIsKept` and
  `NothingIsLeft` except these messages (`dropped`).
* T3 answers an input with the latest Turn of the read after its dispatch, which may
  be that of a native client (`t3.py:815`); `AcceptedIsOwnTurn` names the case. With a
  presenter a message updated late comes after items created after it
  (`t3.py:1039`), and an evicted identity is published again, as
  `t3/design.md:51` says: `InNativeOrder` and `OnceUnlessEvicted` state these orders.
* a Turn superseded between two polls never ends and keeps its place in the
  baseline table (`t3.py:1100`, `t3/design.md:70`).
* an unfinished message is published as completed (`t3.py:1222`,
  `observation/design.md:117`).
* a redelivery answered by an orphaned claim is confirmed to Telegram, and
  nobody is left to take the claim over (`telegram.py:618`,
  `ingress/design.md:35`).
* a full queue reconnects "for replay", but a session that starts with messages
  still queued is identified anew and nothing is replayed (`qq.py:726`).
* the uuid of a Feishu chunk hashes its text, which changes with the notice of
  failed artifacts (`feishu.py:519`, `outbound-delivery/design.md:76`).
* `_cleanup_known_paths` turns a cancellation into an ordinary error
  (`ingress_media.py:386`, `ingress/testing.md:24`).

## 6. Proofs

All proofs hold for every set of keys, requests, calls, Threads, Conversations,
messages and deliveries, every number of processes and every bound. They assume
the typing of the constants: as named assumptions of the modules
(`StoreAssumption`, `ExecutorAssumption`, `InboundAssumption`), which TLC evaluates
in the runs `effects` and `inbound`, or as hypotheses of the theorem, which the run
of the component evaluates for its instances: `TransactionAssumption` with
`PollingAssumption` (`adapters`), `QQAssumption` (`progress`) or `FeishuAssumption`
(`gateway`), `CorrelationAssumption` (`thread`) and `ProactiveAssumption`
(`delivery`). Between them the theorems state, by the same definitions, every
property of the runs `effects` and `inbound`, `InboundIsAccounted` of `gateway`,
`DeliveredAtMostOnce` of `delivery`, `AnsweredOnce` of `thread`,
`ConfirmedIsHandled` of `adapters` and `SessionIsKept` of `progress`.

| Theorem | States | Module |
|---|---|---|
| `TypesHold` | `Spec => []TypeOK` (EffectExecution) | EffectProofs |
| `InvokedAtMostOnce` | `Spec => []AtMostOneInvocation` | EffectProofs |
| `TerminalReceiptsAreFinal` | `Spec => TerminalIsFinal` | EffectProofs |
| `StaleRuntimesWriteNothing` | `Spec => StaleRuntimeNeverWrites` | EffectProofs |
| `ReceiptsStayTrue` | `Spec => []ReceiptsAreTrue` | EffectProofs |
| `ExecutorKeepsPromise` | `Spec => KeepsPromise`, the refinement of `EffectPromise` | EffectProofs |
| `ChoicesAreKept` | `Spec => [](WorkflowNeverOverwrites /\ BindingMutatedOnce)` | EffectProofs |
| `BindingsStaySafe` | `Spec => []BindingsAreSafe`, given `ForegroundRoutes` | EffectProofs |
| `SentAtMostOnce` | `Spec => []AtMostOneSend` | InboundProofs |
| `FencedRecordsStay` | `Spec => FencedStaysFenced` | InboundProofs |
| `NoticesStayTrue` | `Spec => []NoticesAreTrue` | InboundProofs |
| `ClaimsStaySettled` | `Spec => []ClaimsAreSettled` | InboundProofs |
| `SentInOrder` | `Spec => []InOrder` | InboundProofs |
| `ConfirmedStaysHandled` | `Spec => []ConfirmedIsHandled` (PollingChannels) | PollingProofs |
| `ResumedStaysHandled` | `Spec => []SessionIsKept` (QQIngress) | QQProofs |
| `SlotsStayAccounted` | `Spec => []InboundIsAccounted` (FeishuIngress) | FeishuProofs |
| `RequestAnsweredOnce` | `Spec => []AnsweredOnce` (RequestCorrelation) | RequestProofs |
| `RowsNeverRegress` | `Spec => NeverRegresses` (RequestCorrelation) | RequestProofs |
| `SubmissionDeliveredAtMostOnce` | `Spec => []DeliveredAtMostOnce` (ProactiveDelivery) | ProactiveProofs |

**At most one invocation.** `AtMostOneInvocation` is not inductive: a state with
two calls about to invoke satisfies it and its successor does not. The inductive
invariant is `TypeOK /\ FenceInv`: before the fence nothing was invoked; a call
about to invoke has a fenced receipt and nothing invoked yet; no two calls of one
key are about to invoke. Most actions are *quiet*: they touch neither the counters
nor the set of calls about to invoke, and change receipts only forward
(`Advances`). One lemma per action shows it quiet, one shows that quiet steps keep
the invariant, and only `Start`, `EnterNativeFence`, `Invoke`, `Crash` and the
runtime steps need their own argument.

**True receipts.** A receipt and an answer agree with what the Application did
although both are written long after it, by whichever process reads the answer.
A success is of an applied action; a failure, which may be a lost answer, is of one
that was asked, and a preflight rejection of one that was not. `TruthInv` ties the
outcome each call holds between two awaits, and the result it returned, to the
receipt and to the Application's verdict; with `TypeOK /\ FenceInv` it is inductive.
A stale process writes nothing because every store operation is guarded by the
fence of its epoch.

**The promise.** `EffectPromise` has no leases, processes or receipts. The proof
shows that a step of the executor moves the promise of one key only
(`OnlyMoves`), and that this move is a step of the promise, with `TruthInv` as the
guard of the answers.

**Bindings.** `GenInv` says why a workflow cannot overwrite a later choice: an
unfinished workflow remembers the generation it was reserved at, and every other
write of the binding of its Conversation, once made, has moved the generation past
it; and an action that has not ended has written no binding. The third part of
`BindingsAreSafe`, a bound Thread has its route, holds for requests that bind or
create with their foreground route (`ForegroundRoutes`, an explicit hypothesis of
`BindingsStaySafe`). It is what `actions.py` passes; the store itself accepts a
binding without one. `MCEffectExecution` assumes the same of its requests, which
TLC evaluates.

**At most one send.** The invariant is `Typed /\ SendInv`: a record with a claim
belongs to a delivery of its message; the owner of a fenced record is past its
fence (`Owners`), so the guards of `release`, which would also remove a fenced
record of its owner, are never met by it; a delivery about to send owns a fenced
record of a message not yet sent (`Senders`); an entry of a startup FIFO is there
once and before its fence (`Entries`), which makes the rollback harmless; and a
message that was sent has a fenced or completed record. Most steps only move one
delivery (`Shift`); the claim, the fence, the send, the completion, the release
and the four steps that touch a FIFO have their own lemmas.

**True notices and settled claims.** A notice is sent long after the check it
rests on, and a later delivery may take the message over. `TruthInv` says, on top
of the invariant above, what a delivery about to complete its own record knows
(`NoticeOK`: the message was not sent, or it was decided and the reason held agrees
with the decision), that "did not reach the Application" is told only after such a
completion, so that no later delivery can claim the message, and that before its
fence the owner of a record has an ordinary claim (`ClaimOK`), so that its release
gives it back.

**In order.** `InOrder` looks at a delivery that has just sent. `OrderInv` says why
nobody of its Conversation was overtaken: the queue of a Conversation lock and the
startup FIFO are both sorted by the handoff (`Sorted`, `FifoOK`); everyone in a lock
came before everyone in the FIFO (`Ahead`), which is what going live before the FIFO
is empty would break, so a running process has an empty FIFO that never overflowed;
only the head of a lock is past its wait (`Members`); a delivery between its handoff
and its send is in one of these queues (`PlaceOK`); and a process that turned one
delivery away stays shut, so every later one is turned away too (`TurnedAfter`).
Drain, handoff, leaving a lock, rollback and crash change the queues and have their
own lemmas; the others move one delivery or one phase.

**The ingress transaction** (`IngressProofs`, lemmas only). `TransactionInv` is what
the three Channels share: a record is fenced exactly when its message was handed over
(`FencedIsHanded`), between claim and handoff the record is open, a dispatch that
returned is of a message that needs no other or that the Gateway did not keep, and
one that ended left no key of any other message (`DispatchOK`). What waits in the
startup FIFO waits once, with its claim open (`FifoOK`). With that
`HandedOnce`, `FastPathIsTrue` and `OpenClaimIsOwned` are inductive; and what was handed
over, waits, or was dropped by the Gateway (`Kept`) stays so (`Keeps`). `dropped` only
takes what the Gateway returned from without keeping it, so the theorems below say of
every other message that it is handled.

**Polling.** `CursorsPassHandled` needs the rest of the response: the messages still
to handle are the last ones before its cursor and everything before them is handled
(`BatchOK`), so that neither Telegram's step by one nor Weixin's jump to the end of an
empty batch passes a message; the cursors in memory, in the file and at the platform
each cover only what is handled (`CursorsOK`).

**QQ.** A number means a message only within a session, and items of an earlier
session may still wait when a new one begins. `QQInv` says that an item of the present
epoch is of the present session (`ItemOK`; a new session or epoch makes all that wait
stale), that what the session sent before such an item is handled or waits in front of
it, and that what the connection has sent is handled or waits (`CoverOK`). So the item
in the worker's hands, once handled, has nothing unhandled before it, and an event that
needs no dispatch may be passed when nothing waits.

**Feishu.** The slots are accounted for by counting what the thread, the callbacks,
the queue and the worker hold; that `start` may make all of them anew is due to the
stages of `stop`, each of which leaves its part of the pipe empty (`StageOK`). The
pipe, from what was handed over to what the thread has in hand, is sorted by arrival
(`PipeOK`), hence no message overtakes another.

**Requests.** Rows agree and only go forward because every write takes the state
that is furthest on (`_merge_correlation`) or moves all rows of a request
(`_transition_correlations`); this needs no more than types. That only recipients
answer, and that a request is not made stale while it can be answered, are about
what was read some steps earlier: a row stands on a delivered prompt (`Grounded`),
the events of a request are its opening and then its end, and true (`Ordered`), and
what recovery found open and the Application did not list is over, also when more
requests open or end before the rows are written (`Listed`). That a request is
answered once holds only while neither the process nor a route was lost
(`Undisturbed`), for a row that is lost with them invites a second answer. Under
that condition the invariant says that an answer the Application took is on its way
to the rows or they no longer say open (`Taken`), by the one user who holds the
request's lock (`Exclusive`), and that no delivery, job or event is left of a
request whose end the worker took (`Settled`), so that nothing opens it again.

**Proactive deliveries.** `taken` has the destinations a call handed to the platform.
`Handed` says that a call stands only at destinations its record pins, that the
record says `in_flight` while the call is engaged there, and that the verdict it
holds is true; `Alone`, that of the calls of one submission at most one is engaged
at a destination, and then nobody else handed it over. A call engages where it
reserves a record, when nobody stands anywhere of the submission, or where it resumes
a destination that is `retryable`, which with `RecordIsTrue` means that nobody
handed it over and nobody is engaged (`NobodyThere`). So an engaged call always
finds its own `in_flight` when it writes its verdict (`UpdateApplies`), and a
crash, which leaves `in_flight` behind, leaves a destination that nobody resumes.
`Placed` ties the place of a call to what it has done by then, `Staged` its
artifacts; `Told`, `OneAcquires` and `Claimed` follow because an accepted record
stays accepted and a completed claim stays completed.

## 7. Only model-checked

* Liveness (`progress`, `convergence`): fairness and `ENABLED` are out of the
  prover's reach.
* The rest of `TypeOK` of InboundAdmission, beyond what the invariants above type.
* Splitting and planning (`TextSplit`, `DeliveryPlanning`): what a recursive
  definition computes needs induction over data.
* `SentAsChecked`, `AnswersAreOwn` and `TeardownIsOrderly` of `gateway`; the run
  `store`; of `delivery` the coordinator, the hooks and the providers; of `thread`
  the acceptance gate, queued input, its observation and the projection route; of
  `adapters` the media staging, the app-server client, requests and Threads, and the
  T3 adapter. These are safety properties within the prover's reach for which no
  inductive invariant has been worked out.

## 8. Not modelled

* The wire mapping of the app-server adapters and Zen (`_base.py`, `codex.py`):
  translation between JSON and the SDK's values. The state these files keep is that
  of the client, the requests, the Threads and the queue, modelled there.
* Diagnostics and outcome values: no decision of the system reads the counters.
* Command registry, client tools, reference consumer: text handling without shared
  state, tool descriptions, and an example program.
* Row encoding, schema migration and connection handling of SQLite; wire formats,
  logins and tokens of the Channels.
* A join of the Feishu SDK thread that times out, the missing spool directory, and
  the capacity of the keyed lock registry, which shows as a failure of its caller.
* `NativeTransportChannelAdapter.start` makes a new native adapter each time; the
  modules of the Channels begin with one.

--------------------------- MODULE FeishuIngress ---------------------------
(***************************************************************************)
(* The inbound side of the Feishu/Lark Channel (adapters/feishu.py). The   *)
(* SDK calls _queue_inbound on a thread of its own, which takes one of a   *)
(* bounded number of slots and posts a callback to the event loop; the     *)
(* callback fills the queue, the worker empties it and gives the slot      *)
(* back. A message without a slot is counted and dropped: the platform is  *)
(* never told, so what is dropped is lost, and only the count says so.     *)
(***************************************************************************)
EXTENDS IngressTransaction

CONSTANTS
    QueueLimit,   \* INBOUND_QUEUE_LIMIT
    MaxRestarts,  \* bound on the starts of a Gateway that end
    MaxDrops      \* bound on failed connections

FeishuAssumption ==
    /\ QueueLimit \in Nat \ {0}
    /\ MaxRestarts \in Nat
    /\ MaxDrops \in Nat

VARIABLES
    arrived,     \* newest message the SDK has called back with
    subscribed,  \* there is an SDK object that calls _queue_inbound
    thread,      \* [at, message] of the SDK thread
    callbacks,   \* _enqueue_inbound callbacks the loop has yet to run
    slots,       \* _inbound_slots: slots left
    queue,       \* _inbound_queue
    open,        \* _inbound_queue is not None
    job,         \* message of the worker, or 0
    stopping,    \* _stop_event
    phase,       \* stages of stop(): up, drain, join, off
    overflow,    \* _overflow_count
    reported,    \* history: overflows reported
    refused,     \* history: messages refused a slot
    failed,      \* history: messages whose dispatch raised
    restarts, drops

pipeVars == <<thread, callbacks, slots, queue, open, job>>
ownerVars == <<subscribed, stopping, phase, restarts, drops>>
countVars == <<overflow, reported, refused, failed>>
vars == <<transactionVars, arrived, pipeVars, ownerVars, countVars>>

Idle == [at |-> "idle", message |-> 0]

TypeOK ==
    /\ TransactionTypeOK
    /\ arrived \in 0..Count
    /\ thread \in [at : {"idle", "slot", "post"}, message : 0..Count]
    /\ callbacks \in Seq(Messages) /\ queue \in Seq(Messages)
    /\ slots \in 0..QueueLimit
    /\ job \in 0..Count
    /\ {open, subscribed, stopping} \subseteq BOOLEAN
    /\ phase \in {"up", "drain", "join", "off"}
    /\ overflow \in Nat /\ reported \in Nat
    /\ refused \subseteq Messages /\ failed \subseteq Messages

Init ==
    /\ TransactionInit
    /\ gate = "starting"
    /\ arrived = 0
    /\ subscribed = TRUE
    /\ thread = Idle
    /\ callbacks = <<>> /\ queue = <<>> /\ open = TRUE
    /\ slots = QueueLimit
    /\ job = 0
    /\ stopping = FALSE /\ phase = "up"
    /\ overflow = 0 /\ reported = 0 /\ refused = {} /\ failed = {}
    /\ restarts = 0 /\ drops = 0

-----------------------------------------------------------------------------
(* _run_forever: an SDK that failed to connect is detached, and after a delay
   a new one is made and subscribed to. *)
ConnectSdk ==
    /\ phase = "up"
    /\ ~subscribed
    /\ subscribed' = TRUE
    /\ UNCHANGED <<transactionVars, arrived, pipeVars, countVars>>
    /\ UNCHANGED <<stopping, phase, restarts, drops>>

DetachSdk ==
    /\ phase = "up"
    /\ subscribed
    /\ drops < MaxDrops
    /\ drops' = drops + 1
    /\ subscribed' = FALSE
    /\ UNCHANGED <<transactionVars, arrived, pipeVars, countVars>>
    /\ UNCHANGED <<stopping, phase, restarts>>

(* The SDK thread calls _queue_inbound, which goes no further when the adapter
   stops or the message is not for the Gateway. *)
QueueInbound ==
    /\ subscribed
    /\ thread = Idle
    /\ arrived < Count
    /\ arrived' = arrived + 1
    /\ thread' = IF stopping \/ arrived' \in Denied
                 THEN thread
                 ELSE [at |-> "slot", message |-> arrived']
    /\ UNCHANGED <<transactionVars, callbacks, slots, queue, open, job>>
    /\ UNCHANGED <<ownerVars, countVars>>

(* The thread takes a slot without waiting; without one it counts and drops. *)
TakeSlot ==
    /\ thread.at = "slot"
    /\ \/ /\ slots > 0
          /\ slots' = slots - 1
          /\ thread' = [thread EXCEPT !.at = "post"]
          /\ UNCHANGED <<overflow, refused>>
       \/ /\ slots = 0
          /\ overflow' = overflow + 1
          /\ refused' = refused \cup {thread.message}
          /\ thread' = Idle
          /\ UNCHANGED slots
    /\ UNCHANGED <<transactionVars, arrived, callbacks, queue, open, job>>
    /\ UNCHANGED <<ownerVars, reported, failed>>

(* call_soon_threadsafe. *)
Post ==
    /\ thread.at = "post"
    /\ callbacks' = Append(callbacks, thread.message)
    /\ thread' = Idle
    /\ UNCHANGED <<transactionVars, arrived, slots, queue, open, job>>
    /\ UNCHANGED <<ownerVars, countVars>>

(* Mutant of EnqueueInbound: a callback of a stopping adapter just returns. *)
EnqueueOrReturn ==
    /\ callbacks # <<>>
    /\ callbacks' = Tail(callbacks)
    /\ queue' = IF stopping \/ ~open THEN queue ELSE Append(queue, Head(callbacks))
    /\ UNCHANGED <<transactionVars, arrived, thread, slots, open, job>>
    /\ UNCHANGED <<ownerVars, countVars>>

(* The loop runs the callback: into the queue, or the slot is given back. The
   slots keep the queue below its limit, SlotsAreAccounted, so that QueueFull
   has no case here. *)
EnqueueInbound ==
    /\ callbacks # <<>>
    /\ callbacks' = Tail(callbacks)
    /\ \/ /\ stopping \/ ~open
          /\ slots' = slots + 1
          /\ UNCHANGED queue
       \/ /\ ~stopping /\ open
          /\ queue' = Append(queue, Head(callbacks))
          /\ UNCHANGED slots
    /\ UNCHANGED <<transactionVars, arrived, thread, open, job>>
    /\ UNCHANGED <<ownerVars, countVars>>

-----------------------------------------------------------------------------
(* _report_inbound_overflow: at most once a minute. *)
ReportOverflow ==
    \/ overflow' = 0 /\ reported' = reported + overflow
    \/ UNCHANGED <<overflow, reported>>

(* The worker takes a message, reports overflows and dispatches. *)
WorkerGet ==
    /\ phase = "up"
    /\ job = 0
    /\ queue # <<>>
    /\ job' = Head(queue)
    /\ queue' = Tail(queue)
    /\ ReportOverflow
    /\ Dispatch(job')
    /\ UNCHANGED <<arrived, thread, callbacks, slots, open, ownerVars, refused, failed>>

(* Mutant of WorkerDone: the exception of a dispatch ends the worker. *)
DoneWithoutCatch ==
    /\ job # 0
    /\ pc = "returned"
    /\ Taken
    /\ slots' = slots + 1
    /\ job' = 0
    /\ UNCHANGED <<admitted, claim, handed, orphans, skipped, gateVars, faults>>
    /\ UNCHANGED <<arrived, thread, callbacks, queue, open, ownerVars, countVars>>

(* The dispatch returned, or raised and is logged: the worker goes on and the
   slot is free either way. *)
WorkerDone ==
    /\ job # 0
    /\ pc \in {"returned", "raised"}
    /\ Taken
    /\ slots' = slots + 1
    /\ failed' = IF pc = "raised" THEN failed \cup {job} ELSE failed
    /\ job' = 0
    /\ UNCHANGED <<admitted, claim, handed, orphans, skipped, gateVars, faults>>
    /\ UNCHANGED <<arrived, thread, callbacks, queue, open, ownerVars>>
    /\ UNCHANGED <<overflow, reported, refused>>

(* The Gateway does not accept any more: thread and worker go on. *)
GatewayCloses ==
    /\ phase = "up"
    /\ restarts < MaxRestarts
    /\ restarts' = restarts + 1
    /\ CloseGate
    /\ UNCHANGED <<arrived, pipeVars, subscribed, stopping, phase, drops, countVars>>

(* stop(): the flag, the subscriptions and the worker, with its slot. *)
StopWorker ==
    /\ phase = "up"
    /\ gate = "closed" \/ restarts < MaxRestarts
    /\ restarts' = IF gate = "closed" THEN restarts ELSE restarts + 1
    /\ stopping' = TRUE
    /\ subscribed' = FALSE
    /\ Cancelled
    /\ slots' = IF job = 0 THEN slots ELSE slots + 1
    /\ job' = 0
    /\ phase' = "drain"
    /\ UNCHANGED <<arrived, thread, callbacks, queue, open, drops, countVars>>

(* _drain_inbound_queue. *)
StopDrain ==
    /\ phase = "drain"
    /\ slots' = slots + Len(queue)
    /\ queue' = <<>>
    /\ open' = FALSE
    /\ phase' = "join"
    /\ UNCHANGED <<transactionVars, arrived, thread, callbacks, job>>
    /\ UNCHANGED <<subscribed, stopping, restarts, drops, countVars>>

(* The runner is cancelled and the SDK stopped, which joins its thread; what
   the thread had posted runs before stop() does. A join that takes too long
   fails stop(), and is not modelled. *)
StopJoin ==
    /\ phase = "join"
    /\ thread = Idle
    /\ callbacks = <<>>
    /\ phase' = "off"
    /\ UNCHANGED <<transactionVars, arrived, pipeVars, countVars>>
    /\ UNCHANGED <<subscribed, stopping, restarts, drops>>

(* start() makes a new queue, new slots and a new SDK, and subscribes to it. *)
Start ==
    /\ phase = "off"
    /\ subscribed' = TRUE
    /\ open' = TRUE
    /\ slots' = QueueLimit
    /\ stopping' = FALSE
    /\ phase' = "up"
    /\ OpenGate
    /\ UNCHANGED <<arrived, thread, callbacks, queue, job>>
    /\ UNCHANGED <<restarts, drops, countVars>>

Dispatcher ==
    /\ TransactionStep
    /\ UNCHANGED <<arrived, pipeVars, ownerVars, countVars>>

GatewayRuns ==
    /\ GatewayStep
    /\ UNCHANGED <<arrived, pipeVars, ownerVars, countVars>>

Work ==
    \/ TakeSlot \/ Post \/ EnqueueInbound
    \/ WorkerGet \/ Dispatcher \/ WorkerDone
    \/ StopDrain \/ StopJoin

Next ==
    \/ ConnectSdk \/ DetachSdk \/ QueueInbound
    \/ Work
    \/ GatewayRuns
    \/ GatewayCloses \/ StopWorker \/ Start

Spec == Init /\ [][Next]_vars

-----------------------------------------------------------------------------
(* Every slot is with the thread, a callback, the queue or the worker, across
   failures, stops and restarts and whichever of thread and loop runs first.
   One lost for good would shrink the Channel; one given back twice would
   raise in the worker and end it. *)
SlotsAreAccounted ==
    QueueLimit - slots =
        (IF thread.at = "post" THEN 1 ELSE 0) + Len(callbacks) + Len(queue)
        + (IF job = 0 THEN 0 ELSE 1)

(* Every message refused for want of a slot is in the count: reported, or
   waiting for the next report. *)
OverflowIsExplicit == overflow + reported = Cardinality(refused)

(* What the SDK called back with is accounted for: it has a slot until it is
   done, or is in the count, and is handed on in order of arrival. *)
InboundIsAccounted == TypeOK /\ SlotsAreAccounted /\ OverflowIsExplicit /\ HandedInOrder

=============================================================================

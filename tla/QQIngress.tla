----------------------------- MODULE QQIngress -----------------------------
(***************************************************************************)
(* The inbound side of the QQ Channel (adapters/qq.py): the reader of the  *)
(* gateway websocket, its bounded queue and the worker that dispatches.    *)
(* The number the adapter resumes a session with (_last_seq) is what tells *)
(* the platform which events it need not send again, so it may only move   *)
(* past an event that is dealt with.                                       *)
(*                                                                         *)
(* In a session, READY has number 1 and later messages count on from it. A *)
(* resumed session sends again what comes after the given number; a new    *)
(* session starts with the present, whatever the adapter had missed.       *)
(***************************************************************************)
EXTENDS IngressTransaction

CONSTANTS
    QueueLimit,   \* INBOUND_QUEUE_LIMIT
    MaxSessions,  \* bound on sessions of the platform
    MaxRestarts,  \* bound on the starts of a Gateway that end
    MaxDrops      \* bound on lost connections

QQAssumption ==
    /\ QueueLimit \in Nat \ {0}
    /\ MaxSessions \in Nat
    /\ MaxRestarts \in Nat
    /\ MaxDrops \in Nat

VARIABLES
    sent,       \* newest message of the platform
    session,    \* newest session of the platform
    origin,     \* [session -> newest message when it began]
    conn,       \* the websocket: down, hello, replay (until RESUMED) or up
    pushed,     \* newest message sent over this connection
    sid,        \* _session_id, or 0
    lastSeq,    \* _last_seq, or 0 for None
    epoch,      \* _session_epoch
    queue,      \* _inbound_queue
    queued,     \* _queued_message_ids
    job,        \* queue item of the worker, or NoJob
    running,    \* the adapter is started
    restarts,   \* Gateways closed so far
    drops       \* lost connections so far

readerVars == <<session, origin, conn, pushed, sid, lastSeq, epoch>>
queueVars == <<queue, queued, job>>
boundVars == <<running, restarts, drops>>
vars == <<transactionVars, sent, readerVars, queueVars, boundVars>>

NoJob == [message |-> 0, sequence |-> 0, epoch |-> 0]
Items == [message : 0..Count, sequence : Nat, epoch : Nat]

TypeOK ==
    /\ TransactionTypeOK
    /\ sent \in 0..Count /\ pushed \in 0..Count
    /\ session \in 0..MaxSessions /\ sid \in 0..MaxSessions
    /\ origin \in [0..MaxSessions -> 0..Count]
    /\ conn \in {"down", "hello", "replay", "up"}
    /\ lastSeq \in 0..(Count + 1)
    /\ epoch \in Nat
    /\ queue \in Seq(Items) /\ job \in Items
    /\ queued \subseteq Messages
    /\ running \in BOOLEAN

Init ==
    /\ TransactionInit
    /\ gate = "starting"
    /\ sent = 0
    /\ session = 0 /\ origin = [s \in 0..MaxSessions |-> 0]
    /\ conn = "down" /\ pushed = 0
    /\ sid = 0 /\ lastSeq = 0 /\ epoch = 0
    /\ queue = <<>> /\ queued = {} /\ job = NoJob
    /\ running = TRUE /\ restarts = 0 /\ drops = 0

Later(a, b) == IF a > b THEN a ELSE b

(* Number of message m in session s. *)
SequenceOf(m, s) == m - origin[s] + 1

Send ==
    /\ sent < Count
    /\ sent' = sent + 1
    /\ UNCHANGED <<transactionVars, readerVars, queueVars, boundVars>>

-----------------------------------------------------------------------------
(* Mutant of AdvanceSequence: the epoch of the event is not compared. *)
AdvanceAnyEpoch(sequence, e) == lastSeq' = Later(lastSeq, sequence)

AdvanceSequence(sequence, e) ==
    lastSeq' = IF e # epoch' THEN lastSeq ELSE Later(lastSeq, sequence)

(* An event that needs no dispatch may only be passed when nothing before it
   waits. *)
AdvanceIfIdle(sequence) ==
    IF queue = <<>> /\ queued = {}
    THEN AdvanceSequence(sequence, epoch')
    ELSE UNCHANGED lastSeq

(* _run_forever connects, with a token and an address it may fail to get. *)
Connect ==
    /\ running
    /\ conn = "down"
    /\ conn' = "hello"
    /\ UNCHANGED <<transactionVars, sent, session, origin, pushed, sid, lastSeq, epoch>>
    /\ UNCHANGED <<queueVars, boundVars>>

(* _resume_or_identify_payload. *)
Resumes == sid # 0 /\ lastSeq # 0

(* HELLO is answered with a resume that the platform accepts: it sends again
   from the given number on. *)
Resume ==
    /\ conn = "hello"
    /\ Resumes
    /\ sid = session
    /\ conn' = "replay"
    /\ pushed' = origin[sid] + lastSeq - 1
    /\ UNCHANGED <<transactionVars, sent, session, origin, sid, lastSeq, epoch>>
    /\ UNCHANGED <<queueVars, boundVars>>

Connected == conn \in {"replay", "up"}

(* RESUMED comes at some point of the replay, with the number of the newest
   event that was sent. *)
Resumed ==
    /\ conn = "replay"
    /\ conn' = "up"
    /\ UNCHANGED <<session, origin, pushed, sid, epoch>>
    /\ AdvanceIfIdle(SequenceOf(pushed, session))
    /\ UNCHANGED <<transactionVars, sent, queueVars, boundVars>>

(* The platform answers with INVALID_SESSION: the session is over. *)
InvalidSession ==
    /\ conn # "down"
    /\ drops < MaxDrops
    /\ drops' = drops + 1
    /\ sid' = 0
    /\ lastSeq' = 0
    /\ epoch' = epoch + 1
    /\ conn' = "down"
    /\ UNCHANGED <<transactionVars, sent, session, origin, pushed, queueVars>>
    /\ UNCHANGED <<running, restarts>>

(* HELLO is answered with an identify, and READY names the new session. *)
Identify ==
    /\ conn = "hello"
    /\ ~Resumes
    /\ session < MaxSessions
    /\ session' = session + 1
    /\ origin' = [origin EXCEPT ![session'] = sent]
    /\ pushed' = sent
    /\ epoch' = IF sid # 0 THEN epoch + 1 ELSE epoch
    /\ sid' = session'
    /\ AdvanceIfIdle(1)
    /\ conn' = "up"
    /\ UNCHANGED <<transactionVars, sent, queueVars, boundVars>>

(* RECONNECT, a closed socket or a failed read. *)
Disconnect ==
    /\ Connected
    /\ drops < MaxDrops
    /\ drops' = drops + 1
    /\ conn' = "down"
    /\ UNCHANGED <<transactionVars, sent, session, origin, pushed, sid, lastSeq, epoch>>
    /\ UNCHANGED <<queueVars, running, restarts>>

(* The reader takes the next event of the connection. *)
Receives(m) ==
    /\ Connected
    /\ pushed < sent
    /\ m = pushed + 1
    /\ pushed' = m

(* An event without a message for the Gateway: of another type, not to be
   parsed, or denied. *)
ReceiveOther(m) ==
    /\ Receives(m)
    /\ m \in Denied
    /\ UNCHANGED <<session, origin, conn, sid, epoch>>
    /\ AdvanceIfIdle(SequenceOf(m, session))
    /\ UNCHANGED <<transactionVars, sent, queueVars, boundVars>>

(* _queue_dispatch_event: a message still queued is not queued again. *)
ReceiveMessage(m) ==
    /\ Receives(m)
    /\ m \notin Denied
    /\ \/ m \in queued /\ UNCHANGED <<queue, queued>>
       \/ /\ m \notin queued
          /\ Len(queue) < QueueLimit
          /\ queue' = Append(queue, [message |-> m, sequence |-> SequenceOf(m, session),
                                     epoch |-> epoch])
          /\ queued' = queued \cup {m}
    /\ UNCHANGED <<transactionVars, sent, session, origin, conn, sid, lastSeq, epoch>>
    /\ UNCHANGED <<job, boundVars>>

(* A full queue raises out of the session: the message is not acknowledged. *)
ReceiveOverflow(m) ==
    /\ Receives(m)
    /\ m \notin Denied \cup queued
    /\ Len(queue) = QueueLimit
    /\ conn' = "down"
    /\ UNCHANGED <<transactionVars, sent, session, origin, sid, lastSeq, epoch>>
    /\ UNCHANGED <<queueVars, boundVars>>

-----------------------------------------------------------------------------
(* The worker takes an item and dispatches it. *)
WorkerGet ==
    /\ running
    /\ job = NoJob
    /\ queue # <<>>
    /\ job' = Head(queue)
    /\ queue' = Tail(queue)
    /\ Dispatch(job'.message)
    /\ UNCHANGED <<sent, readerVars, queued, boundVars>>

(* The dispatch returned: the sequence advances, if the session is the same. *)
WorkerDone ==
    /\ running
    /\ job # NoJob
    /\ pc = "returned"
    /\ Taken
    /\ UNCHANGED <<session, origin, conn, pushed, sid, epoch>>
    /\ AdvanceSequence(job.sequence, job.epoch)
    /\ queued' = queued \ {job.message}
    /\ job' = NoJob
    /\ UNCHANGED <<admitted, claim, handed, orphans, skipped, gateVars, faults>>
    /\ UNCHANGED <<sent, queue, boundVars>>

(* The dispatch raised: the same message again, after a delay. *)
WorkerRetry ==
    /\ running
    /\ job # NoJob
    /\ pc = "raised"
    /\ cur' = cur
    /\ admitted' \in Remember(cur, admitted)
    /\ pc' = "claim"
    /\ UNCHANGED <<claim, handed, orphans, skipped, gateVars, faults>>
    /\ UNCHANGED <<sent, readerVars, queueVars, boundVars>>

(* The Gateway does not accept any more: reader and worker go on. *)
GatewayCloses ==
    /\ running
    /\ restarts < MaxRestarts
    /\ restarts' = restarts + 1
    /\ CloseGate
    /\ UNCHANGED <<sent, readerVars, queueVars, running, drops>>

(* stop() cancels reader and worker and drains the queue; session and number
   stay with the adapter. *)
Stop ==
    /\ running
    /\ gate = "closed" \/ restarts < MaxRestarts
    /\ restarts' = IF gate = "closed" THEN restarts ELSE restarts + 1
    /\ running' = FALSE
    /\ conn' = "down"
    /\ Cancelled
    /\ queue' = <<>>
    /\ queued' = {}
    /\ job' = NoJob
    /\ UNCHANGED <<sent, session, origin, pushed, sid, lastSeq, epoch, drops>>

Start ==
    /\ ~running
    /\ running' = TRUE
    /\ OpenGate
    /\ UNCHANGED <<sent, readerVars, queueVars, restarts, drops>>

GatewayRuns == GatewayStep /\ UNCHANGED <<sent, readerVars, queueVars, boundVars>>

Dispatcher == TransactionStep /\ UNCHANGED <<sent, readerVars, queueVars, boundVars>>

Next ==
    \/ Send
    \/ Connect \/ Resume \/ Resumed \/ InvalidSession \/ Identify \/ Disconnect
    \/ \E m \in Messages : ReceiveOther(m) \/ ReceiveMessage(m) \/ ReceiveOverflow(m)
    \/ Dispatcher
    \/ WorkerGet \/ WorkerDone \/ WorkerRetry
    \/ GatewayRuns
    \/ Start \/ GatewayCloses \/ Stop

Spec == Init /\ [][Next]_vars

-----------------------------------------------------------------------------
(* The number a session is resumed with passes no message that is not dealt
   with: not the one in the worker's hands, none in the queue, none that
   overflowed, none that belongs to an earlier session whose numbers mean
   something else. Excepted is what a Gateway that accepted no more, or whose
   start failed, returned from and did not keep (dropped): the worker advances
   past it like past one that was taken. *)
ResumedIsHandled ==
    \A m \in Messages \ Denied :
        sid # 0 /\ m > origin[sid] /\ SequenceOf(m, sid) <= lastSeq =>
            m \in skipped \cup Kept

(* The identities of the queue are exactly what waits or is in hand, each
   once: an identity left behind would make the adapter deaf to a message that
   is sent again, and would stop every later acknowledgement. *)
QueuedIsPending ==
    LET items == [i \in DOMAIN queue |-> queue[i].message]
    IN  /\ queued = {items[i] : i \in DOMAIN items} \cup ({job.message} \ {0})
        /\ Cardinality(queued) = Len(queue) + (IF job = NoJob THEN 0 ELSE 1)

(* What the adapter knows of its session: it is resumed only past what was
   dealt with, and the queue and its identities agree. *)
SessionIsKept == TypeOK /\ ResumedIsHandled /\ QueuedIsPending

=============================================================================

------------------------------ MODULE QQProofs ------------------------------
(***************************************************************************)
(* Proofs about the QQ Channel: the number a session is resumed with       *)
(* passes no message that is not dealt with, and the identities it keeps   *)
(* are those of the messages that wait or are in hand.                     *)
(***************************************************************************)
EXTENDS QQIngress, IngressProofs, FiniteSetTheorems

(* The adapter knows the newest session or none. What its number passes was
   sent in that session and is dealt with. *)
SessionOK ==
    /\ sid \in {0, session}
    /\ sid = 0 => lastSeq = 0
    /\ Connected => sid # 0 /\ origin[session] <= pushed
    /\ pushed <= sent /\ origin[session] <= sent
    /\ lastSeq # 0 => origin[session] + lastSeq <= sent + 1
    /\ \A k \in Messages :
          origin[session] < k /\ k < origin[session] + lastSeq => Handled(k)

(* An item of the present epoch is of the present session, and so is its
   number; the others are from a session that is over. *)
ItemOK(it) ==
    /\ it \in Items
    /\ it.message \in Messages \ Denied /\ it.message <= sent
    /\ it.epoch <= epoch
    /\ it.epoch = epoch =>
          /\ sid # 0 /\ origin[session] < it.message
          /\ it.sequence = it.message - origin[session] + 1

(* Each item is there once, and the worker dispatches the one it holds. *)
ItemsOK ==
    /\ \A i \in 1..Len(queue) : ItemOK(queue[i])
    /\ job = NoJob \/ ItemOK(job)
    /\ cur = job.message
    /\ \A i, j \in 1..Len(queue) : queue[i].message = queue[j].message => i = j
    /\ \A i \in 1..Len(queue) : queue[i].message # job.message
    /\ queued = {queue[i].message : i \in 1..Len(queue)} \cup ({job.message} \ {0})

(* k is of the present session, and of before m. *)
Between(k, m) == origin[session] < k /\ k < m

(* What the session sent before an item of its own is dealt with or waits in
   front of it; what the connection has sent is dealt with or waits. *)
CoverOK ==
    /\ job # NoJob /\ job.epoch = epoch =>
          \A k \in Messages : Between(k, job.message) => Handled(k)
    /\ \A i \in 1..Len(queue) : queue[i].epoch = epoch =>
          \A k \in Messages : Between(k, queue[i].message) =>
              \/ Handled(k) \/ k = job.message
              \/ \E j \in 1..Len(queue) : j < i /\ queue[j].message = k
    /\ Connected =>
          \A k \in Messages : Between(k, pushed + 1) => Handled(k) \/ k \in queued

CountOK == Cardinality(queued) = Len(queue) + (IF job = NoJob THEN 0 ELSE 1)

QQInv ==
    /\ TransactionInv
    /\ TypeOK
    /\ SessionOK
    /\ ItemsOK
    /\ CoverOK
    /\ CountOK

-----------------------------------------------------------------------------
(* What most steps keep. *)

LEMMA QQNumbers ==
    ASSUME QQInv
    PROVE  /\ Messages \subseteq Nat /\ sent \in Nat /\ pushed \in Nat /\ lastSeq \in Nat
           /\ epoch \in Nat /\ session \in 0..MaxSessions /\ origin[session] \in Nat
           /\ queue \in Seq(Items) /\ Len(queue) \in Nat /\ sent <= Count
BY DEF QQInv, TypeOK, Messages

LEMMA QueuedIsFinite ==
    ASSUME QQInv, TransactionAssumption
    PROVE  IsFiniteSet(queued)
<1>1. 1 \in Int /\ Count \in Int
  BY DEF TransactionAssumption
<1>2. IsFiniteSet(1..Count)
  BY <1>1, FS_Interval
<1>3. queued \subseteq 1..Count
  BY DEF QQInv, TypeOK, Messages
<1> QED
  BY <1>2, <1>3, FS_Subset

LEMMA ItemsStay ==
    ASSUME QQInv, UNCHANGED <<session, origin, sid, epoch, queue, queued, job, cur>>,
           sent' \in Nat, sent <= sent'
    PROVE  ItemsOK' /\ CountOK'
<1>0. sent \in Nat /\ Messages \subseteq Nat
  BY QQNumbers
<1>1. \A it : ItemOK(it) => ItemOK(it)'
  <2> SUFFICES ASSUME NEW it, ItemOK(it) PROVE ItemOK(it)'
    OBVIOUS
  <2>1. it.message \in Nat /\ it.message <= sent
    BY <1>0 DEF ItemOK
  <2>2. it.message <= sent'
    <3>1. \A x \in Nat : x <= sent => x <= sent'
      BY <1>0
    <3> QED
      BY <2>1, <3>1
  <2> QED
    BY <2>2 DEF ItemOK
<1>2. \A i \in 1..Len(queue') : \A q : q = queue'[i] => ItemOK(q)'
  BY <1>1 DEF QQInv, ItemsOK
<1>3. \A i \in 1..Len(queue') : ItemOK(queue[i])'
  BY <1>2 DEF ItemOK
<1>4. job' = NoJob \/ \A q : q = job' => ItemOK(q)'
  BY <1>1 DEF QQInv, ItemsOK
<1>5. job' = NoJob \/ ItemOK(job)'
  BY <1>4 DEF ItemOK
<1> QED
  BY <1>3, <1>5 DEF QQInv, ItemsOK, CountOK

LEMMA CoverStays ==
    ASSUME QQInv, Keeps, UNCHANGED <<session, origin, epoch, queue, queued, job>>,
           Connected' =>
              \A k \in Messages : Between(k, pushed' + 1) => Handled(k)' \/ k \in queued
    PROVE  CoverOK'
<1>1. \A k, m : Between(k, m)' <=> Between(k, m)
  BY DEF Between
<1>2. \A k \in Messages : Handled(k) => Handled(k)'
  BY DEF Keeps
<1>3. job # NoJob /\ job.epoch = epoch =>
          \A k \in Messages : Between(k, job.message) => Handled(k)'
  BY <1>2 DEF QQInv, CoverOK
<1>4. \A i \in 1..Len(queue) : queue[i].epoch = epoch =>
          \A k \in Messages : Between(k, queue[i].message) =>
              \/ Handled(k)' \/ k = job.message
              \/ \E j \in 1..Len(queue) : j < i /\ queue[j].message = k
  BY <1>2 DEF QQInv, CoverOK
<1> QED
  BY <1>3, <1>4 DEF CoverOK, Between

(* What the number passes stays dealt with while the session is the same. *)
LEMMA PassedStays ==
    ASSUME QQInv, Keeps, UNCHANGED <<session, origin, lastSeq>>
    PROVE  \A k \in Messages :
              origin'[session'] < k /\ k < origin'[session'] + lastSeq' => Handled(k)'
BY DEF QQInv, SessionOK, Keeps

(* A step that leaves the session and the items alone. The connection is lost,
   stays as it is, or resumes after what the number passes. *)
LEMMA PlainStep ==
    ASSUME QQInv, TransactionAssumption, TransactionInv', Keeps,
           UNCHANGED <<session, origin, sid, lastSeq, epoch, queue, queued, job, cur>>,
           sent' \in 0..Count, sent <= sent', running' \in BOOLEAN,
           conn' \in {"down", "hello", "replay", "up"},
           \/ ~Connected' /\ pushed' \in 0..sent
           \/ Connected' /\ Connected /\ pushed' = pushed
           \/ Connected' /\ Resumes /\ pushed' = origin[session] + lastSeq - 1
    PROVE  QQInv'
<1>0. /\ sent \in Nat /\ sent' \in Nat /\ pushed \in Nat /\ lastSeq \in Nat
      /\ origin[session] \in Nat /\ sent <= Count /\ Messages \subseteq Nat /\ Count \in Int
  BY QQNumbers DEF TransactionAssumption
<1>1. pushed' \in 0..sent
  <2>1. CASE Resumes /\ pushed' = origin[session] + lastSeq - 1
    BY <1>0, <2>1 DEF QQInv, SessionOK, Resumes
  <2> QED
    BY <1>0, <2>1 DEF QQInv, SessionOK
<1>2. TypeOK'
  <2>1. pushed' \in 0..Count
    BY <1>0, <1>1
  <2> QED
    BY <2>1 DEF QQInv, TypeOK, TransactionInv
<1>3. SessionOK'
  <2>1. Connected' => sid # 0 /\ origin[session] <= pushed'
    BY <1>0 DEF QQInv, SessionOK, Resumes
  <2>2. pushed' <= sent' /\ origin[session] <= sent'
        /\ (lastSeq # 0 => origin[session] + lastSeq <= sent' + 1)
    BY <1>0, <1>1 DEF QQInv, SessionOK
  <2> QED
    BY <2>1, <2>2, PassedStays DEF QQInv, SessionOK
<1>4. ItemsOK' /\ CountOK'
  BY <1>0, ItemsStay
<1>5. CoverOK'
  <2>1. Connected' =>
           \A k \in Messages : Between(k, pushed' + 1) => Handled(k)' \/ k \in queued
    <3>1. CASE Connected /\ pushed' = pushed
      BY <3>1 DEF QQInv, CoverOK, Keeps
    <3>2. CASE pushed' = origin[session] + lastSeq - 1
      <4>1. pushed' + 1 = origin[session] + lastSeq
        BY <1>0, <3>2
      <4> QED
        BY <4>1 DEF QQInv, SessionOK, Keeps, Between
    <3> QED
      BY <3>1, <3>2
  <2> QED
    BY <2>1, CoverStays
<1> QED
  BY <1>2, <1>3, <1>4, <1>5 DEF QQInv

-----------------------------------------------------------------------------
(* One lemma for each step. *)

LEMMA SendStep ==
    ASSUME QQInv, TransactionAssumption, Send
    PROVE  QQInv'
<1>1. TransactionInv' /\ Keeps
  BY TransactionStutters DEF QQInv, Send
<1>2. sent' \in 0..Count /\ sent <= sent' /\ pushed \in 0..sent
  BY DEF Send, QQInv, TypeOK, SessionOK, TransactionAssumption
<1>3. conn \in {"down", "hello", "replay", "up"} /\ running \in BOOLEAN
  BY DEF QQInv, TypeOK
<1> QED
  BY <1>1, <1>2, <1>3, PlainStep DEF Send, transactionVars, dispatchVars, readerVars, queueVars, boundVars, Connected

(* The connection is opened, resumed or lost. *)
LEMMA ConnectionStep ==
    ASSUME QQInv, TransactionAssumption, Connect \/ Resume \/ Disconnect
    PROVE  QQInv'
<1>1. TransactionInv' /\ Keeps
  BY TransactionStutters DEF QQInv, Connect, Resume, Disconnect
<1>2. sent' = sent /\ sent' \in 0..Count /\ sent <= sent' /\ pushed \in 0..sent
  BY DEF Connect, Resume, Disconnect, QQInv, TypeOK, SessionOK
<1>3. running \in BOOLEAN
  BY DEF QQInv, TypeOK
<1> QED
  BY <1>1, <1>2, <1>3, PlainStep
     DEF Connect, Resume, Disconnect, transactionVars, dispatchVars, queueVars, boundVars, Connected

LEMMA OverflowStep ==
    ASSUME QQInv, TransactionAssumption, NEW m \in Messages, ReceiveOverflow(m)
    PROVE  QQInv'
<1>1. TransactionInv' /\ Keeps
  BY TransactionStutters DEF QQInv, ReceiveOverflow
<1>2. sent \in 0..Count /\ sent <= sent /\ pushed' \in 0..sent /\ running \in BOOLEAN
  BY DEF ReceiveOverflow, Receives, QQInv, TypeOK, SessionOK
<1> QED
  BY <1>1, <1>2, PlainStep DEF ReceiveOverflow, transactionVars, dispatchVars, queueVars, boundVars, Connected

(* The transaction moves on, or is tried again. *)
LEMMA DispatcherStep ==
    ASSUME QQInv, TransactionAssumption, Dispatcher \/ WorkerRetry
    PROVE  QQInv'
<1>1. TransactionInv' /\ Keeps /\ cur' = cur
  <2>1. CASE Dispatcher
    <3>1. cur' = cur
      BY <2>1, StepIsDispatch DEF Dispatcher
    <3> QED
      BY <2>1, <3>1, StepKeeps DEF QQInv, Dispatcher
  <2>2. CASE WorkerRetry
    BY <2>2, RetryKeeps DEF QQInv, WorkerRetry
  <2> QED
    BY <2>1, <2>2
<1>2. /\ sent \in 0..Count /\ sent <= sent /\ pushed \in 0..sent
      /\ running \in BOOLEAN /\ conn \in {"down", "hello", "replay", "up"}
  BY DEF QQInv, TypeOK, SessionOK
<1> QED
  BY <1>1, <1>2, PlainStep DEF Dispatcher, WorkerRetry, readerVars, queueVars, boundVars, Connected

(* The Gateway opens, works or closes beside the adapter. *)
LEMMA GatewayMoves ==
    ASSUME QQInv, TransactionAssumption,
           Start \/ GatewayRuns \/ GatewayCloses \/ UNCHANGED vars
    PROVE  QQInv'
<1>0. /\ UNCHANGED <<cur, sent, readerVars, queueVars>> /\ running' \in BOOLEAN
      /\ OpenGate \/ CloseGate \/ GatewayStep \/ UNCHANGED transactionVars
  <2>1. CASE GatewayRuns
    BY <2>1, GatewayKeeps DEF GatewayRuns, boundVars, QQInv, TypeOK
  <2> QED
    BY <2>1 DEF Start, GatewayCloses, OpenGate, CloseGate, vars, transactionVars, dispatchVars,
                boundVars, QQInv, TypeOK
<1>1. TransactionInv' /\ Keeps
  BY <1>0, GateKeeps, GatewayKeeps, TransactionStutters DEF QQInv
<1>2. sent \in 0..Count /\ sent <= sent /\ pushed \in 0..sent /\ conn \in {"down", "hello", "replay", "up"}
  BY DEF QQInv, TypeOK, SessionOK
<1> QED
  BY <1>0, <1>1, <1>2, PlainStep DEF readerVars, queueVars, Connected

(* A session ends: what waits is of an epoch that is over. *)
LEMMA StaleItems ==
    ASSUME QQInv, UNCHANGED <<queue, queued, job, cur, sent>>, epoch' \in Nat,
           \A it : ItemOK(it) => it.epoch < epoch' /\ it.epoch \in Nat
    PROVE  /\ ItemsOK' /\ CountOK'
           /\ \A i \in 1..Len(queue) : queue[i].epoch # epoch'
           /\ job # NoJob => job.epoch # epoch'
<1>1. \A it : ItemOK(it) => ItemOK(it)' /\ it.epoch # epoch'
  <2> SUFFICES ASSUME NEW it, ItemOK(it) PROVE ItemOK(it)' /\ it.epoch # epoch'
    OBVIOUS
  <2>1. it.epoch <= epoch' /\ it.epoch # epoch'
    OBVIOUS
  <2> QED
    BY <2>1 DEF ItemOK
<1>2. \A i \in 1..Len(queue') : \A q : q = queue'[i] => ItemOK(q)'
  BY <1>1 DEF QQInv, ItemsOK
<1>3. \A i \in 1..Len(queue') : ItemOK(queue[i])'
  BY <1>2 DEF ItemOK
<1>4. job' = NoJob \/ \A q : q = job' => ItemOK(q)'
  BY <1>1 DEF QQInv, ItemsOK
<1>5. job' = NoJob \/ ItemOK(job)'
  BY <1>4 DEF ItemOK
<1>6. ItemsOK' /\ CountOK'
  BY <1>3, <1>5 DEF QQInv, ItemsOK, CountOK
<1> QED
  BY <1>1, <1>6 DEF QQInv, ItemsOK

LEMMA InvalidStep ==
    ASSUME QQInv, TransactionAssumption, QQAssumption, InvalidSession
    PROVE  QQInv'
<1>0. /\ UNCHANGED <<transactionVars, sent, session, origin, pushed, queue, queued, job, running>>
      /\ sid' = 0 /\ lastSeq' = 0 /\ epoch' = epoch + 1 /\ conn' = "down"
  BY DEF InvalidSession, queueVars
<1>1. TransactionInv' /\ Keeps
  BY <1>0, TransactionStutters DEF QQInv
<1>2. epoch \in Nat /\ epoch' \in Nat /\ Count \in Nat /\ MaxSessions \in Nat
      /\ Messages \subseteq Nat /\ origin[session] \in Nat
  BY <1>0, QQNumbers DEF TransactionAssumption, QQAssumption
<1>3. TypeOK'
  <2>1. 0 \in 0..MaxSessions /\ 0 \in 0..(Count + 1)
    BY <1>2
  <2> QED
    BY <1>0, <1>1, <1>2, <2>1 DEF QQInv, TypeOK, TransactionInv
<1>4. SessionOK'
  <2>1. \A k \in Messages : ~(origin[session] < k /\ k < origin[session] + 0)
    BY <1>2
  <2> QED
    BY <1>0, <2>1 DEF QQInv, SessionOK, Connected
<1>5. \A it : ItemOK(it) => it.epoch < epoch' /\ it.epoch \in Nat
  <2> SUFFICES ASSUME NEW it, ItemOK(it) PROVE it.epoch < epoch' /\ it.epoch \in Nat
    OBVIOUS
  <2>1. it.epoch \in Nat /\ it.epoch <= epoch
    BY DEF ItemOK, Items
  <2> QED
    BY <1>0, <1>2, <2>1
<1>6. /\ ItemsOK' /\ CountOK'
      /\ \A i \in 1..Len(queue) : queue[i].epoch # epoch'
      /\ job # NoJob => job.epoch # epoch'
  BY <1>0, <1>2, <1>5, StaleItems DEF transactionVars, dispatchVars
<1>7. CoverOK'
  BY <1>0, <1>6 DEF CoverOK, Connected
<1> QED
  BY <1>1, <1>3, <1>4, <1>6, <1>7 DEF QQInv

(* READY names a new session, which begins after all that was sent. *)
LEMMA IdentifyStep ==
    ASSUME QQInv, TransactionAssumption, QQAssumption, Identify
    PROVE  QQInv'
<1>0. /\ UNCHANGED <<transactionVars, sent, queue, queued, job, running>>
      /\ session < MaxSessions /\ session' = session + 1 /\ sid' = session'
      /\ origin' = [origin EXCEPT ![session'] = sent] /\ pushed' = sent /\ conn' = "up"
      /\ epoch' = (IF sid # 0 THEN epoch + 1 ELSE epoch)
      /\ ~Resumes /\ AdvanceIfIdle(1)
  BY DEF Identify, queueVars, boundVars
<1>1. TransactionInv' /\ Keeps
  BY <1>0, TransactionStutters DEF QQInv
<1>2. /\ epoch \in Nat /\ epoch' \in Nat /\ Count \in Nat /\ MaxSessions \in Nat
      /\ Messages \subseteq Nat /\ sent \in Nat /\ sent <= Count /\ session \in 0..MaxSessions
  BY <1>0, QQNumbers DEF TransactionAssumption, QQAssumption
<1>3. lastSeq' \in {0, 1}
  <2>1. lastSeq = 0
    BY <1>0 DEF QQInv, SessionOK, Resumes
  <2> QED
    BY <1>0, <2>1 DEF AdvanceIfIdle, AdvanceSequence, Later
<1>4. /\ session' \in 0..MaxSessions /\ session' # 0 /\ origin'[session'] = sent
      /\ origin' \in [0..MaxSessions -> 0..Count]
  <2>1. session' \in 0..MaxSessions /\ session' # 0 /\ sent \in 0..Count
    BY <1>0, <1>2
  <2>2. origin \in [0..MaxSessions -> 0..Count]
    BY DEF QQInv, TypeOK
  <2> QED
    BY <1>0, <2>1, <2>2
<1>5. TypeOK'
  <2>1. lastSeq' \in 0..(Count + 1) /\ sent \in 0..Count
    BY <1>2, <1>3
  <2> QED
    BY <1>0, <1>1, <1>2, <1>4, <2>1 DEF QQInv, TypeOK, TransactionInv
<1>6. SessionOK'
  <2>0. \A k \in Nat : ~(sent < k /\ k < sent + 0) /\ ~(sent < k /\ k < sent + 1)
    BY <1>2
  <2>1. \A k \in Messages : ~(sent < k /\ k < sent + lastSeq')
    BY <1>2, <1>3, <2>0
  <2>2. lastSeq' # 0 => sent + lastSeq' <= sent + 1
    <3>1. sent + 1 <= sent + 1
      BY <1>2
    <3> QED
      BY <1>3, <3>1
  <2>3. sent <= sent /\ session' # 0
    BY <1>2, <1>4
  <2> QED
    BY <1>0, <1>4, <2>1, <2>2, <2>3 DEF SessionOK
<1>7. \A it : ItemOK(it) => it.epoch < epoch' /\ it.epoch \in Nat
  <2> SUFFICES ASSUME NEW it, ItemOK(it) PROVE it.epoch < epoch' /\ it.epoch \in Nat
    OBVIOUS
  <2>1. it.epoch \in Nat /\ it.epoch <= epoch /\ (it.epoch = epoch => sid # 0)
    BY DEF ItemOK, Items
  <2>2. \A x \in Nat : x <= epoch => x < epoch + 1 /\ (x # epoch => x < epoch)
    BY <1>2
  <2>3. epoch' = epoch + 1 \/ (epoch' = epoch /\ sid = 0)
    BY <1>0
  <2> QED
    BY <2>1, <2>2, <2>3
<1>8. /\ ItemsOK' /\ CountOK'
      /\ \A i \in 1..Len(queue) : queue[i].epoch # epoch'
      /\ job # NoJob => job.epoch # epoch'
  BY <1>0, <1>2, <1>7, StaleItems DEF transactionVars, dispatchVars
<1>9. CoverOK'
  <2>1. \A k \in Messages : ~Between(k, pushed + 1)'
    BY <1>0, <1>2, <1>4 DEF Between
  <2> QED
    BY <1>0, <1>8, <2>1 DEF CoverOK
<1> QED
  BY <1>1, <1>5, <1>6, <1>8, <1>9 DEF QQInv

(* The reader takes the event after the last: its number in the session. *)
LEMMA ReceiveFacts ==
    ASSUME QQInv, NEW m \in Messages, Receives(m)
    PROVE  /\ pushed' = m /\ m = pushed + 1 /\ m <= sent /\ m \in Nat /\ Connected
           /\ origin[session] < m /\ sid = session /\ sid # 0 /\ pushed \in Nat
           /\ SequenceOf(m, session) = m - origin[session] + 1
           /\ \A k \in Messages : Between(k, m) => Handled(k) \/ k \in queued
BY QQNumbers DEF Receives, QQInv, SessionOK, SequenceOf, CoverOK

LEMMA OtherStep ==
    ASSUME QQInv, TransactionAssumption, NEW m \in Messages, ReceiveOther(m)
    PROVE  QQInv'
<1>0. /\ UNCHANGED <<transactionVars, sent, session, origin, conn, sid, epoch>>
      /\ UNCHANGED <<queue, queued, job, running>>
      /\ Receives(m) /\ m \in Denied /\ AdvanceIfIdle(SequenceOf(m, session))
  BY DEF ReceiveOther, queueVars, boundVars
<1>1. TransactionInv' /\ Keeps
  BY <1>0, TransactionStutters DEF QQInv
<1>2. /\ pushed' = m /\ m = pushed + 1 /\ m <= sent /\ m \in Nat /\ Connected
      /\ origin[session] < m /\ sid = session /\ sid # 0 /\ pushed \in Nat
      /\ \A k \in Messages : Between(k, m) => Handled(k) \/ k \in queued
  BY <1>0, ReceiveFacts
<1>3. /\ sent \in Nat /\ sent <= Count /\ lastSeq \in Nat /\ origin[session] \in Nat
      /\ Messages \subseteq Nat /\ Count \in Nat
  BY QQNumbers DEF TransactionAssumption
<1>4. \/ lastSeq' = lastSeq
      \/ lastSeq' = m - origin[session] + 1 /\ queued = {}
  <2>1. SequenceOf(m, session) = m - origin[session] + 1
    BY <1>0, ReceiveFacts
  <2> QED
    BY <1>0, <2>1 DEF AdvanceIfIdle, AdvanceSequence, Later
<1>5. TypeOK'
  <2>1. lastSeq' \in 0..(Count + 1) /\ pushed' \in 0..Count
    <3>1. lastSeq \in 0..(Count + 1)
      BY DEF QQInv, TypeOK
    <3> QED
      BY <1>2, <1>3, <1>4, <3>1
  <2> QED
    BY <1>0, <1>1, <2>1 DEF QQInv, TypeOK, TransactionInv
<1>6. \A k \in Messages : Between(k, m + 1) => Between(k, m) \/ k = m
  BY <1>2, <1>3 DEF Between
<1>7. Handled(m)'
  BY <1>0, <1>1 DEF Handled, Keeps
<1>8. SessionOK'
  <2>1. CASE lastSeq' = lastSeq
    <3>1. origin[session] <= m
      BY <1>2, <1>3
    <3> QED
      BY <1>0, <1>1, <1>2, <2>1, <3>1, PassedStays DEF QQInv, SessionOK
  <2>2. CASE lastSeq' = m - origin[session] + 1 /\ queued = {}
    <3>1. origin[session] + lastSeq' = m + 1 /\ origin[session] <= m /\ m + 1 <= sent + 1
      BY <1>2, <1>3, <2>2
    <3>2. \A k \in Messages : Between(k, m + 1) => Handled(k)'
      BY <1>1, <1>2, <1>6, <1>7, <2>2 DEF Keeps
    <3> QED
      BY <1>0, <1>2, <3>1, <3>2 DEF QQInv, SessionOK, Between
  <2> QED
    BY <1>4, <2>1, <2>2
<1>9. ItemsOK' /\ CountOK'
  BY <1>0, <1>3, ItemsStay DEF transactionVars, dispatchVars
<1>10. CoverOK'
  <2>1. \A k \in Messages : Between(k, pushed' + 1) => Handled(k)' \/ k \in queued
    BY <1>1, <1>2, <1>6, <1>7 DEF Keeps
  <2> QED
    BY <1>0, <1>1, <2>1, CoverStays
<1> QED
  BY <1>1, <1>5, <1>8, <1>9, <1>10 DEF QQInv

(* RESUMED: its number is passed when nothing that was sent before it waits. *)
LEMMA ResumedStep ==
    ASSUME QQInv, TransactionAssumption, Resumed
    PROVE  QQInv'
<1>0. /\ UNCHANGED <<transactionVars, sent, session, origin, pushed, sid, epoch>>
      /\ UNCHANGED <<queue, queued, job, running>>
      /\ Connected /\ conn' = "up" /\ AdvanceIfIdle(SequenceOf(pushed, session))
  BY DEF Resumed, Connected, queueVars, boundVars
<1>1. TransactionInv' /\ Keeps
  BY <1>0, TransactionStutters DEF QQInv
<1>2. /\ sent \in Nat /\ sent <= Count /\ lastSeq \in Nat /\ origin[session] \in Nat
      /\ Messages \subseteq Nat /\ Count \in Nat /\ pushed \in Nat
  BY QQNumbers DEF TransactionAssumption
<1>3. /\ origin[session] <= pushed /\ pushed <= sent /\ sid # 0
      /\ \A k \in Messages : Between(k, pushed + 1) => Handled(k) \/ k \in queued
  BY <1>0 DEF QQInv, SessionOK, CoverOK
<1>4. \/ lastSeq' = lastSeq
      \/ lastSeq' = pushed - origin[session] + 1 /\ queued = {}
  BY <1>0 DEF AdvanceIfIdle, AdvanceSequence, Later, SequenceOf
<1>5. TypeOK'
  <2>1. lastSeq' \in 0..(Count + 1)
    <3>1. lastSeq \in 0..(Count + 1)
      BY DEF QQInv, TypeOK
    <3> QED
      BY <1>2, <1>3, <1>4, <3>1
  <2> QED
    BY <1>0, <1>1, <2>1 DEF QQInv, TypeOK, TransactionInv
<1>6. SessionOK'
  <2>1. CASE lastSeq' = lastSeq
    BY <1>0, <1>1, <1>3, <2>1, PassedStays DEF QQInv, SessionOK
  <2>2. CASE lastSeq' = pushed - origin[session] + 1 /\ queued = {}
    <3>1. origin[session] + lastSeq' = pushed + 1 /\ pushed + 1 <= sent + 1
      BY <1>2, <1>3, <2>2
    <3>2. \A k \in Messages : Between(k, pushed + 1) => Handled(k)'
      BY <1>1, <1>3, <2>2 DEF Keeps
    <3> QED
      BY <1>0, <1>3, <3>1, <3>2 DEF QQInv, SessionOK, Between
  <2> QED
    BY <1>4, <2>1, <2>2
<1>7. ItemsOK' /\ CountOK'
  BY <1>0, <1>2, ItemsStay DEF transactionVars, dispatchVars
<1>8. CoverOK'
  <2>1. \A k \in Messages : Between(k, pushed' + 1) => Handled(k)' \/ k \in queued
    BY <1>0, <1>1, <1>3 DEF Keeps
  <2> QED
    BY <1>0, <1>1, <2>1, CoverStays
<1> QED
  BY <1>1, <1>5, <1>6, <1>7, <1>8 DEF QQInv

(* The message is queued behind all that waits, unless it waits already. *)
LEMMA MessageStep ==
    ASSUME QQInv, TransactionAssumption, NEW m \in Messages, ReceiveMessage(m)
    PROVE  QQInv'
<1>0. /\ UNCHANGED <<transactionVars, sent, session, origin, conn, sid, lastSeq, epoch>>
      /\ UNCHANGED <<job, running>> /\ Receives(m) /\ m \notin Denied
  BY DEF ReceiveMessage, boundVars
<1>1. TransactionInv' /\ Keeps
  BY <1>0, TransactionStutters DEF QQInv
<1>2. /\ pushed' = m /\ m = pushed + 1 /\ m <= sent /\ m \in Nat /\ Connected
      /\ origin[session] < m /\ sid = session /\ sid # 0 /\ pushed \in Nat
      /\ SequenceOf(m, session) = m - origin[session] + 1
      /\ \A k \in Messages : Between(k, m) => Handled(k) \/ k \in queued
  BY <1>0, ReceiveFacts
<1>3. /\ sent \in Nat /\ sent <= Count /\ lastSeq \in Nat /\ origin[session] \in Nat
      /\ Messages \subseteq Nat /\ Count \in Nat /\ epoch \in Nat
      /\ queue \in Seq(Items) /\ Len(queue) \in Nat
  BY QQNumbers DEF TransactionAssumption
<1>4. pushed' \in 0..Count /\ origin[session] <= m
  BY <1>2, <1>3
<1>5. SessionOK'
  BY <1>0, <1>1, <1>2, <1>4, PassedStays DEF QQInv, SessionOK
<1>6. \A k \in Messages : Between(k, m + 1) => Between(k, m) \/ k = m
  BY <1>2, <1>3 DEF Between
<1>7. CASE m \in queued /\ UNCHANGED <<queue, queued>>
  <2>1. TypeOK'
    BY <1>0, <1>1, <1>4, <1>7 DEF QQInv, TypeOK, TransactionInv
  <2>2. ItemsOK' /\ CountOK'
    BY <1>0, <1>3, <1>7, ItemsStay DEF transactionVars, dispatchVars
  <2>3. CoverOK'
    <3>1. \A k \in Messages : Between(k, pushed' + 1) => Handled(k)' \/ k \in queued
      BY <1>1, <1>2, <1>6, <1>7 DEF Keeps
    <3> QED
      BY <1>0, <1>1, <1>7, <3>1, CoverStays
  <2> QED
    BY <1>1, <1>5, <2>1, <2>2, <2>3 DEF QQInv
<1>8. ASSUME m \notin queued, queued' = queued \cup {m},
             queue' = Append(queue, [message |-> m, sequence |-> SequenceOf(m, session),
                                     epoch |-> epoch])
      PROVE  QQInv'
  <2> DEFINE new == [message |-> m, sequence |-> SequenceOf(m, session), epoch |-> epoch]
             n == Len(queue) + 1
  <2>1. /\ new \in Items /\ new.message = m /\ new.epoch = epoch
        /\ new.sequence = m - origin[session] + 1 /\ new # NoJob
    <3>1. m \in 0..Count /\ m - origin[session] + 1 \in Nat /\ m # 0
      BY <1>2, <1>3
    <3> QED
      BY <1>2, <1>3, <3>1 DEF Items, NoJob
  <2>2. /\ queue' \in Seq(Items) /\ Len(queue') = n /\ queue'[n] = new /\ n \in Nat
        /\ \A i \in 1..Len(queue) : queue'[i] = queue[i] /\ i \in 1..Len(queue') /\ i < n
        /\ \A i \in 1..Len(queue') : i \in 1..Len(queue) \/ i = n
        /\ n \in 1..Len(queue')
    <3>1. queue' = Append(queue, new)
      BY <1>8
    <3> HIDE DEF new
    <3>2. /\ queue' \in Seq(Items) /\ Len(queue') = Len(queue) + 1
          /\ queue'[Len(queue) + 1] = new
          /\ \A i \in 1..Len(queue) : queue'[i] = queue[i]
      BY <1>3, <2>1, <3>1
    <3> QED
      BY <1>3, <3>2
  <2> HIDE DEF new, n
  <2>3. TypeOK'
    BY <1>0, <1>1, <1>4, <1>8, <2>2 DEF QQInv, TypeOK, TransactionInv
  <2>4. ItemsOK'
    <3>1. \A it : ItemOK(it) => ItemOK(it)'
      BY <1>0 DEF ItemOK
    <3>2. \A q : q = new => ItemOK(q)'
      BY <1>0, <1>2, <1>3, <2>1 DEF ItemOK
    <3>3. \A i \in 1..Len(queue') : \A q : q = queue'[i] => ItemOK(q)'
      BY <2>2, <3>1, <3>2 DEF QQInv, ItemsOK
    <3>4. \A i \in 1..Len(queue') : ItemOK(queue[i])'
      BY <3>3 DEF ItemOK
    <3>5. job' = NoJob \/ \A q : q = job' => ItemOK(q)'
      BY <1>0, <3>1 DEF QQInv, ItemsOK
    <3>6. job' = NoJob \/ ItemOK(job)'
      BY <3>5 DEF ItemOK
    <3>7. /\ \A i \in 1..Len(queue) : queue[i].message # m
          /\ job.message # m
      <4>1. queued = {queue[i].message : i \in 1..Len(queue)} \cup ({job.message} \ {0})
        BY DEF QQInv, ItemsOK
      <4>2. m # 0
        BY <1>2, <1>3
      <4> QED
        BY <1>8, <4>1, <4>2
    <3>8. \A i, j \in 1..Len(queue') : queue'[i].message = queue'[j].message => i = j
      BY <2>1, <2>2, <3>7 DEF QQInv, ItemsOK
    <3>9. \A i \in 1..Len(queue') : queue'[i].message # job'.message
      BY <1>0, <2>1, <2>2, <3>7 DEF QQInv, ItemsOK
    <3>10. queued' = {queue'[i].message : i \in 1..Len(queue')} \cup ({job'.message} \ {0})
      BY <1>0, <1>8, <2>1, <2>2 DEF QQInv, ItemsOK
    <3> QED
      BY <1>0, <3>4, <3>6, <3>8, <3>9, <3>10 DEF QQInv, ItemsOK, transactionVars, dispatchVars
  <2>5. CountOK'
    <3>1. IsFiniteSet(queued)
      BY QueuedIsFinite
    <3>2. Cardinality(queued') = Cardinality(queued) + 1
      BY <1>8, <3>1, FS_AddElement
    <3>3. PICK a \in {0, 1} : a = IF job = NoJob THEN 0 ELSE 1
      OBVIOUS
    <3>4. Cardinality(queued) = Len(queue) + a
      BY <3>3 DEF QQInv, CountOK
    <3>5. Cardinality(queued') = Len(queue') + a
      BY <1>3, <2>2, <3>2, <3>4 DEF n
    <3> QED
      BY <1>0, <3>3, <3>5 DEF CountOK
  <2>6. CoverOK'
    <3>1. \A k, x : Between(k, x)' <=> Between(k, x)
      BY <1>0 DEF Between
    <3>2. \A k \in Messages : Handled(k) => Handled(k)'
      BY <1>1 DEF Keeps
    <3>3. job # NoJob /\ job.epoch = epoch =>
              \A k \in Messages : Between(k, job.message) => Handled(k)'
      BY <3>2 DEF QQInv, CoverOK
    <3>4. \A k \in Messages : Between(k, m) =>
              \/ Handled(k)' \/ k = job.message
              \/ \E j \in 1..Len(queue) : queue[j].message = k
      BY <1>2, <3>2 DEF QQInv, ItemsOK
    <3>5. \A i \in 1..Len(queue') : queue'[i].epoch = epoch =>
              \A k \in Messages : Between(k, queue'[i].message) =>
                  \/ Handled(k)' \/ k = job.message
                  \/ \E j \in 1..Len(queue') : j < i /\ queue'[j].message = k
      <4> SUFFICES ASSUME NEW i \in 1..Len(queue'), queue'[i].epoch = epoch,
                          NEW k \in Messages, Between(k, queue'[i].message),
                          ~Handled(k)', k # job.message
                   PROVE  \E j \in 1..Len(queue') : j < i /\ queue'[j].message = k
        OBVIOUS
      <4>1. CASE i = n
        BY <2>1, <2>2, <3>4, <4>1
      <4>2. CASE i \in 1..Len(queue)
        <5>1. \E j \in 1..Len(queue) : j < i /\ queue[j].message = k
          BY <2>2, <3>2, <4>2 DEF QQInv, CoverOK
        <5> QED
          BY <2>2, <5>1
      <4> QED
        BY <2>2, <4>1, <4>2
    <3>6. \A k \in Messages : Between(k, pushed' + 1) => Handled(k)' \/ k \in queued'
      BY <1>2, <1>6, <1>8, <3>2
    <3> QED
      BY <1>0, <3>3, <3>5, <3>6 DEF CoverOK, Between
  <2> QED
    BY <1>1, <1>5, <2>3, <2>4, <2>5, <2>6 DEF QQInv
<1> QED
  BY <1>7, <1>8 DEF ReceiveMessage

(* The worker takes the first item. *)
LEMMA GetStep ==
    ASSUME QQInv, TransactionAssumption, WorkerGet
    PROVE  QQInv'
<1>0. /\ UNCHANGED <<sent, session, origin, conn, pushed, sid, lastSeq, epoch, queued, running>>
      /\ job = NoJob /\ queue # <<>> /\ job' = Head(queue) /\ queue' = Tail(queue)
      /\ Dispatch(job'.message)
  BY DEF WorkerGet, readerVars, boundVars
<1>1. queue \in Seq(Items) /\ Count \in Nat /\ Messages \subseteq Nat
  BY QQNumbers DEF TransactionAssumption
<1>2. /\ queue' \in Seq(Items) /\ job' = queue[1] /\ 1 \in 1..Len(queue)
      /\ Len(queue) \in Nat \ {0} /\ Len(queue') = Len(queue) - 1
      /\ \A i \in 1..Len(queue') : queue'[i] = queue[i + 1] /\ i + 1 \in 1..Len(queue)
      /\ \A i \in 1..Len(queue) : i = 1 \/ (i - 1 \in 1..Len(queue') /\ queue'[i - 1] = queue[i])
  BY <1>0, <1>1
<1>3. /\ ItemOK(job)' /\ job'.message \in Messages /\ job'.message # 0
      /\ job' # NoJob /\ job' \in Items
  <2>1. ItemOK(queue[1])
    BY <1>2 DEF QQInv, ItemsOK
  <2>2. \A it : ItemOK(it) => ItemOK(it)'
    BY <1>0 DEF ItemOK
  <2>3. \A q : q = job' => ItemOK(q)'
    BY <1>2, <2>1, <2>2
  <2>4. job'.message \in Messages /\ job' \in Items
    BY <1>2, <2>1 DEF ItemOK
  <2>5. job'.message # 0
    BY <2>4 DEF Messages
  <2> QED
    BY <2>3, <2>4, <2>5 DEF ItemOK, NoJob
<1>4. TransactionInv' /\ Keeps /\ cur' = job'.message
  <2>1. \A m \in Messages : Dispatch(m) => TransactionInv' /\ Keeps /\ cur' = m
    BY <1>1, DispatchKeeps DEF QQInv, Dispatch
  <2> QED
    BY <1>0, <1>3, <2>1
<1>5. TypeOK'
  BY <1>0, <1>2, <1>3, <1>4 DEF QQInv, TypeOK, TransactionInv
<1>6. SessionOK'
  BY <1>0, <1>4, PassedStays DEF QQInv, SessionOK, Connected
<1>7. ItemsOK'
  <2>1. \A it : ItemOK(it) => ItemOK(it)'
    BY <1>0 DEF ItemOK
  <2>2. \A i \in 1..Len(queue') : \A q : q = queue'[i] => ItemOK(q)'
    BY <1>2, <2>1 DEF QQInv, ItemsOK
  <2>3. \A i \in 1..Len(queue') : ItemOK(queue[i])'
    BY <2>2 DEF ItemOK
  <2>4. \A i, j \in 1..Len(queue) : queue[i].message = queue[j].message => i = j
    BY DEF QQInv, ItemsOK
  <2>5. \A i, j \in 1..Len(queue') : i + 1 = j + 1 => i = j
    BY <1>2
  <2>6. \A i \in 1..Len(queue') : i + 1 # 1
    BY <1>2
  <2>7. \A i, j \in 1..Len(queue') : queue'[i].message = queue'[j].message => i = j
    BY <1>2, <2>4, <2>5
  <2>8. \A i \in 1..Len(queue') : queue'[i].message # job'.message
    BY <1>2, <2>4, <2>6
  <2>9. queued' = {queue'[i].message : i \in 1..Len(queue')} \cup ({job'.message} \ {0})
    <3>1. queued = {queue[i].message : i \in 1..Len(queue)}
      BY <1>0 DEF QQInv, ItemsOK, NoJob
    <3>2. {queue[i].message : i \in 1..Len(queue)}
            = {queue'[i].message : i \in 1..Len(queue')} \cup {queue[1].message}
      <4>1. \A i \in 1..Len(queue) : queue[i].message = queue[1].message
                \/ \E j \in 1..Len(queue') : queue'[j].message = queue[i].message
        BY <1>2
      <4>2. \A j \in 1..Len(queue') : \E i \in 1..Len(queue) : queue[i].message = queue'[j].message
        BY <1>2
      <4>3. 1 \in 1..Len(queue)
        BY <1>2
      <4>4. ASSUME NEW x \in {queue[i].message : i \in 1..Len(queue)}
            PROVE  x \in {queue'[i].message : i \in 1..Len(queue')} \cup {queue[1].message}
        BY <4>1, <4>4
      <4>5. ASSUME NEW x \in {queue'[i].message : i \in 1..Len(queue')}
            PROVE  x \in {queue[i].message : i \in 1..Len(queue)}
        <5>1. PICK j \in 1..Len(queue') : x = queue'[j].message
          BY <4>5
        <5>2. PICK i \in 1..Len(queue) : queue[i].message = queue'[j].message
          BY <4>2
        <5> QED
          BY <5>1, <5>2
      <4> QED
        BY <4>3, <4>4, <4>5
    <3> QED
      BY <1>0, <1>2, <1>3, <3>1, <3>2
  <2> QED
    BY <1>3, <1>4, <2>3, <2>7, <2>8, <2>9 DEF ItemsOK
<1>8. CountOK'
  BY <1>0, <1>2, <1>3 DEF QQInv, CountOK
<1>9. CoverOK'
  <2>1. \A k, x : Between(k, x)' <=> Between(k, x)
    BY <1>0 DEF Between
  <2>2. \A k \in Messages : Handled(k) => Handled(k)'
    BY <1>4 DEF Keeps
  <2>3. \A k \in Messages : k # job.message
    BY <1>0 DEF NoJob, Messages
  <2>4. \A i \in 1..Len(queue) : queue[i].epoch = epoch =>
            \A k \in Messages : Between(k, queue[i].message) =>
                Handled(k)' \/ \E j \in 1..Len(queue) : j < i /\ queue[j].message = k
    BY <2>2, <2>3 DEF QQInv, CoverOK
  <2>5. job'.epoch = epoch =>
            \A k \in Messages : Between(k, job'.message) => Handled(k)'
    <3>1. \A j \in 1..Len(queue) : ~(j < 1)
      BY <1>2
    <3> QED
      BY <1>2, <2>4, <3>1
  <2>6. \A i \in 1..Len(queue') : queue'[i].epoch = epoch =>
            \A k \in Messages : Between(k, queue'[i].message) =>
                \/ Handled(k)' \/ k = job'.message
                \/ \E j \in 1..Len(queue') : j < i /\ queue'[j].message = k
    <3> SUFFICES ASSUME NEW i \in 1..Len(queue'), queue'[i].epoch = epoch,
                        NEW k \in Messages, Between(k, queue'[i].message),
                        ~Handled(k)', k # job'.message
                 PROVE  \E j \in 1..Len(queue') : j < i /\ queue'[j].message = k
      OBVIOUS
    <3>1. PICK j \in 1..Len(queue) : j < i + 1 /\ queue[j].message = k
      BY <1>2, <2>4
    <3>2. j # 1
      BY <1>2, <3>1
    <3>3. j - 1 \in 1..Len(queue') /\ queue'[j - 1].message = k /\ j - 1 < i
      BY <1>2, <3>1, <3>2
    <3> QED
      BY <3>3
  <2>7. Connected => \A k \in Messages : Between(k, pushed + 1) => Handled(k)' \/ k \in queued
    BY <2>2 DEF QQInv, CoverOK
  <2> QED
    BY <1>0, <2>5, <2>6, <2>7 DEF CoverOK, Between, Connected
<1> QED
  BY <1>4, <1>5, <1>6, <1>7, <1>8, <1>9 DEF QQInv

(* The item is dealt with: the number may pass it, since all before it are. *)
LEMMA DoneStep ==
    ASSUME QQInv, TransactionAssumption, WorkerDone
    PROVE  QQInv'
<1>0. /\ UNCHANGED <<sent, session, origin, conn, pushed, sid, epoch, queue, running>>
      /\ UNCHANGED <<admitted, claim, handed, orphans, skipped, gateVars, faults>>
      /\ job # NoJob /\ pc = "returned" /\ Taken /\ cur' = 0 /\ job' = NoJob
      /\ AdvanceSequence(job.sequence, job.epoch) /\ queued' = queued \ {job.message}
  BY DEF WorkerDone, boundVars, Taken
<1>1. TransactionInv' /\ Keeps
  BY <1>0, TakenKeeps DEF QQInv
<1>2. /\ sent \in Nat /\ sent <= Count /\ lastSeq \in Nat /\ origin[session] \in Nat
      /\ Messages \subseteq Nat /\ Count \in Nat /\ Len(queue) \in Nat
  BY QQNumbers DEF TransactionAssumption
<1>3. /\ ItemOK(job) /\ cur = job.message /\ job.message \in Nat /\ job.message # 0
      /\ job.message \in Messages /\ job.message <= sent
      /\ queued = {queue[i].message : i \in 1..Len(queue)} \cup {job.message}
      /\ \A i \in 1..Len(queue) : queue[i].message # job.message
  <2>1. /\ ItemOK(job) /\ cur = job.message
        /\ queued = {queue[i].message : i \in 1..Len(queue)} \cup ({job.message} \ {0})
        /\ \A i \in 1..Len(queue) : queue[i].message # job.message
    BY <1>0 DEF QQInv, ItemsOK
  <2>2. job.message \in Messages /\ job.message <= sent
    BY <2>1 DEF ItemOK
  <2>3. job.message \in Nat /\ job.message # 0
    BY <2>2 DEF Messages
  <2> QED
    BY <2>1, <2>2, <2>3
<1>4. \A k : k = job.message => Handled(k) /\ Handled(k)'
  BY <1>0, <1>1, <1>3 DEF QQInv, TransactionInv, DispatchOK, Keeps
<1>5. \/ lastSeq' = lastSeq
      \/ /\ lastSeq' = job.message - origin[session] + 1 /\ job.epoch = epoch
         /\ origin[session] < job.message
  <2>1. job.epoch = epoch => /\ job.sequence = job.message - origin[session] + 1
                             /\ origin[session] < job.message
    BY <1>3 DEF ItemOK
  <2> QED
    BY <1>0, <2>1 DEF AdvanceSequence, Later
<1>6. TypeOK'
  <2>1. lastSeq' \in 0..(Count + 1)
    <3>1. lastSeq \in 0..(Count + 1)
      BY DEF QQInv, TypeOK
    <3>2. \A x \in Nat : x <= sent /\ origin[session] < x => x - origin[session] + 1 \in 0..(Count + 1)
      BY <1>2
    <3> QED
      BY <1>3, <1>5, <3>1, <3>2
  <2>2. NoJob \in Items
    BY <1>2 DEF NoJob, Items
  <2>3. queued' \subseteq Messages
    BY <1>0 DEF QQInv, TypeOK
  <2> QED
    BY <1>0, <1>1, <2>1, <2>2, <2>3 DEF QQInv, TypeOK, TransactionInv
<1>7. SessionOK'
  <2>1. CASE lastSeq' = lastSeq
    BY <1>0, <1>1, <2>1, PassedStays DEF QQInv, SessionOK, Connected
  <2>2. CASE /\ lastSeq' = job.message - origin[session] + 1 /\ job.epoch = epoch
             /\ origin[session] < job.message
    <3>1. \A x \in Nat : x <= sent =>
              origin[session] + (x - origin[session] + 1) = x + 1 /\ x + 1 <= sent + 1
      BY <1>2
    <3>2. origin[session] + lastSeq' = job.message + 1 /\ job.message + 1 <= sent + 1
      BY <1>3, <2>2, <3>1
    <3>3. \A x, k \in Nat : k < x + 1 => k < x \/ k = x
      OBVIOUS
    <3>4. \A k \in Messages : Between(k, job.message) => Handled(k)
      BY <1>0, <2>2 DEF QQInv, CoverOK
    <3>5. \A k \in Messages : origin[session] < k /\ k < job.message + 1 => Handled(k)'
      BY <1>1, <1>2, <1>3, <1>4, <3>3, <3>4 DEF Keeps, Between
    <3>6. sid # 0
      BY <1>3, <2>2 DEF ItemOK
    <3> QED
      BY <1>0, <3>2, <3>5, <3>6 DEF QQInv, SessionOK, Connected
  <2> QED
    BY <1>5, <2>1, <2>2
<1>8. ItemsOK'
  <2>1. \A it : ItemOK(it) => ItemOK(it)'
    BY <1>0 DEF ItemOK
  <2>2. \A i \in 1..Len(queue') : \A q : q = queue'[i] => ItemOK(q)'
    BY <1>0, <2>1 DEF QQInv, ItemsOK
  <2>3. \A i \in 1..Len(queue') : ItemOK(queue[i])'
    BY <2>2 DEF ItemOK
  <2>4. queued' = {queue[i].message : i \in 1..Len(queue)} /\ NoJob.message = 0
    BY <1>0, <1>3 DEF NoJob
  <2>5. \A i \in 1..Len(queue) : queue[i].message # 0
    <3>1. \A i \in 1..Len(queue) : queue[i].message \in Messages
      BY DEF QQInv, ItemsOK, ItemOK
    <3> QED
      BY <3>1 DEF Messages
  <2> QED
    BY <1>0, <2>3, <2>4, <2>5 DEF QQInv, ItemsOK
<1>9. CountOK'
  <2>1. Cardinality(queued') = Cardinality(queued) - 1
    BY <1>0, <1>3, QueuedIsFinite, FS_RemoveElement
  <2>2. Cardinality(queued) = Len(queue) + 1
    BY <1>0 DEF QQInv, CountOK
  <2> QED
    BY <1>0, <1>2, <2>1, <2>2 DEF CountOK
<1>10. CoverOK'
  <2>1. \A k \in Messages : Handled(k) => Handled(k)'
    BY <1>1 DEF Keeps
  <2>2. \A i \in 1..Len(queue) : queue[i].epoch = epoch =>
            \A k \in Messages : Between(k, queue[i].message) =>
                Handled(k)' \/ \E j \in 1..Len(queue) : j < i /\ queue[j].message = k
    BY <1>4, <2>1 DEF QQInv, CoverOK
  <2>3. Connected => \A k \in Messages : Between(k, pushed + 1) => Handled(k)' \/ k \in queued'
    BY <1>0, <1>4, <2>1 DEF QQInv, CoverOK
  <2> QED
    BY <1>0, <2>2, <2>3 DEF CoverOK, Between, Connected
<1> QED
  BY <1>1, <1>6, <1>7, <1>8, <1>9, <1>10 DEF QQInv

(* stop() cancels the worker and drops what waits; the number stays. *)
LEMMA StopStep ==
    ASSUME QQInv, TransactionAssumption, Stop
    PROVE  QQInv'
<1>0. /\ UNCHANGED <<sent, session, origin, pushed, sid, lastSeq, epoch>>
      /\ running' = FALSE /\ conn' = "down" /\ Cancelled /\ cur' = 0
      /\ queue' = <<>> /\ queued' = {} /\ job' = NoJob
  BY DEF Stop, Cancelled, Taken
<1>1. TransactionInv' /\ Keeps
  BY <1>0, CancelledKeeps DEF QQInv
<1>2. TypeOK'
  <2>1. queue' \in Seq(Items) /\ NoJob \in Items
    <3>1. 0 \in 0..Count
      BY DEF TransactionAssumption
    <3> QED
      BY <1>0, <3>1 DEF NoJob, Items
  <2> QED
    BY <1>0, <1>1, <2>1 DEF QQInv, TypeOK, TransactionInv
<1>3. SessionOK'
  BY <1>0, <1>1, PassedStays DEF QQInv, SessionOK, Connected
<1>4. \A i : i \notin 1..Len(queue')
  BY <1>0
<1>5. ItemsOK'
  BY <1>0, <1>4 DEF ItemsOK, NoJob
<1>6. CountOK'
  <2>1. Cardinality({}) = 0 /\ Len(queue') = 0
    BY <1>0, FS_EmptySet
  <2> QED
    BY <1>0, <2>1 DEF CountOK
<1>7. CoverOK'
  BY <1>0, <1>4 DEF CoverOK, Connected
<1> QED
  BY <1>1, <1>2, <1>3, <1>5, <1>6, <1>7 DEF QQInv

-----------------------------------------------------------------------------
LEMMA InitQQ ==
    ASSUME TransactionAssumption, QQAssumption, Init
    PROVE  QQInv
<1>1. TransactionInv
  BY InitTransaction DEF Init
<1>2. /\ cur = 0 /\ sent = 0 /\ session = 0 /\ origin = [s \in 0..MaxSessions |-> 0]
      /\ conn = "down" /\ pushed = 0 /\ sid = 0 /\ lastSeq = 0 /\ epoch = 0
      /\ queue = <<>> /\ queued = {} /\ job = NoJob /\ running = TRUE
  BY DEF Init, TransactionInit
<1>3. 0 \in 0..Count /\ 0 \in 0..MaxSessions /\ 0 \in 0..(Count + 1) /\ origin[session] = 0
  BY <1>2 DEF TransactionAssumption, QQAssumption
<1>4. TypeOK
  <2>1. queue \in Seq(Items) /\ NoJob \in Items /\ origin \in [0..MaxSessions -> 0..Count]
    BY <1>2, <1>3 DEF NoJob, Items
  <2> QED
    BY <1>1, <1>2, <1>3, <2>1 DEF TypeOK, TransactionInv
<1>5. SessionOK
  <2>1. \A k \in Messages : ~(0 < k /\ k < 0 + 0)
    BY DEF Messages
  <2> QED
    BY <1>2, <1>3, <2>1 DEF SessionOK, Connected
<1>6. \A i : i \notin 1..Len(queue)
  BY <1>2
<1>7. ItemsOK /\ CoverOK
  BY <1>2, <1>6 DEF ItemsOK, CoverOK, NoJob, Connected
<1>8. CountOK
  <2>1. Cardinality({}) = 0 /\ Len(queue) = 0
    BY <1>2, FS_EmptySet
  <2> QED
    BY <1>2, <2>1 DEF CountOK
<1> QED
  BY <1>1, <1>4, <1>5, <1>7, <1>8 DEF QQInv

LEMMA NextQQ ==
    ASSUME TransactionAssumption, QQAssumption, QQInv, [Next]_vars
    PROVE  QQInv'
<1>1. CASE Send
  BY <1>1, SendStep
<1>2. CASE Connect \/ Resume \/ Disconnect
  BY <1>2, ConnectionStep
<1>3. CASE InvalidSession
  BY <1>3, InvalidStep
<1>4. CASE Identify
  BY <1>4, IdentifyStep
<1>5. CASE \E m \in Messages : ReceiveOther(m) \/ ReceiveMessage(m) \/ ReceiveOverflow(m)
  BY <1>5, OtherStep, MessageStep, OverflowStep
<1>6. CASE Dispatcher \/ WorkerRetry
  BY <1>6, DispatcherStep
<1>7. CASE WorkerGet
  BY <1>7, GetStep
<1>8. CASE WorkerDone
  BY <1>8, DoneStep
<1>9. CASE Stop
  BY <1>9, StopStep
<1>10. CASE Start \/ GatewayRuns \/ GatewayCloses \/ UNCHANGED vars
  BY <1>10, GatewayMoves
<1>11. CASE Resumed
  BY <1>11, ResumedStep
<1> QED
  BY <1>1, <1>2, <1>3, <1>4, <1>5, <1>6, <1>7, <1>8, <1>9, <1>10, <1>11 DEF Next

(* In every behaviour of the QQ Channel: the number a session is resumed with
   (_last_seq) passes no message that the Gateway has neither taken nor kept in
   its startup FIFO, nor returned from while it accepted no more, whatever was
   queued in which session, replayed before RESUMED, dropped, retried or cut off
   by a stop; and the identities of _queued_message_ids are those of the queue
   and the worker. *)
THEOREM ResumedStaysHandled ==
    ASSUME TransactionAssumption, QQAssumption
    PROVE  Spec => []SessionIsKept
<1>1. Init => QQInv
  BY InitQQ
<1>2. QQInv /\ [Next]_vars => QQInv'
  BY NextQQ
<1>3. QQInv => TypeOK /\ ResumedIsHandled /\ QueuedIsPending
  <2> SUFFICES ASSUME QQInv PROVE ResumedIsHandled /\ QueuedIsPending
    BY DEF QQInv
  <2>1. ResumedIsHandled
    <3> SUFFICES ASSUME NEW m \in Messages \ Denied, sid # 0, m > origin[sid],
                        SequenceOf(m, sid) <= lastSeq
                 PROVE  m \in skipped \cup Kept
      BY DEF ResumedIsHandled
    <3>1. sid = session /\ m \in Nat /\ origin[session] \in Nat /\ lastSeq \in Nat
      BY QQNumbers DEF QQInv, SessionOK
    <3>2. origin[session] < m /\ m < origin[session] + lastSeq
      BY <3>1 DEF SequenceOf
    <3>3. Handled(m)
      BY <3>2 DEF QQInv, SessionOK
    <3> QED
      BY <3>3 DEF Handled
  <2>2. QueuedIsPending
    <3>1. DOMAIN queue = 1..Len(queue)
      BY QQNumbers
    <3>2. queued = {queue[i].message : i \in 1..Len(queue)} \cup ({job.message} \ {0})
      BY DEF QQInv, ItemsOK
    <3>3. Cardinality(queued) = Len(queue) + (IF job = NoJob THEN 0 ELSE 1)
      BY DEF QQInv, CountOK
    <3> DEFINE items == [i \in DOMAIN queue |-> queue[i].message]
    <3>4. {items[i] : i \in DOMAIN items} = {queue[i].message : i \in 1..Len(queue)}
      BY <3>1
    <3> QED
      BY <3>2, <3>3, <3>4 DEF QueuedIsPending
  <2> QED
    BY <2>1, <2>2
<1> QED
  BY <1>1, <1>2, <1>3, PTL DEF Spec, SessionIsKept

=============================================================================

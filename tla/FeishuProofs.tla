---------------------------- MODULE FeishuProofs ----------------------------
(***************************************************************************)
(* Proofs about the Feishu Channel: no slot of its bounded queue is lost   *)
(* or given back twice, every message that found none is counted, and the  *)
(* others reach the Gateway in the order of arrival.                       *)
(***************************************************************************)
EXTENDS FeishuIngress, IngressProofs, FiniteSetTheorems

(* The worker dispatches its message. stop() is over with each stage before
   the next begins, so that start() finds the pipe empty. *)
StageOK ==
    /\ cur = job
    /\ stopping <=> phase # "up"
    /\ phase # "up" => job = 0 /\ ~subscribed
    /\ phase \in {"join", "off"} => ~open /\ queue = <<>>
    /\ phase = "off" => thread = Idle /\ callbacks = <<>>

(* The thread is with the newest message, which was not refused before. *)
ThreadOK ==
    /\ thread.at = "idle" => thread = Idle
    /\ thread.at # "idle" => thread.message = arrived /\ arrived # 0
    /\ thread.at = "slot" => arrived \notin refused
    /\ \A m \in refused : m <= arrived

Sorted(s) == \A i, j \in 1..Len(s) : i < j => s[i] < s[j]

(* x came before everything that has not reached the worker. *)
Precedes(x) ==
    /\ x <= arrived
    /\ thread.at # "idle" => x < arrived
    /\ \A k \in 1..Len(callbacks) : x < callbacks[k]

(* What was handed over, and what waits for it in the startup FIFO. *)
Passed == Handed \cup Waiting

Undecided == {"claim"} \cup Opened

(* The FIFO is in the order of arrival and comes after what was handed over;
   the message that is dispatched comes after both, until it joins them. *)
GateOK ==
    /\ startup \in Seq(Messages)
    /\ Sorted(handed) /\ Sorted(startup)
    /\ \A x \in Handed : \A i \in 1..Len(startup) : x < startup[i]
    /\ pc \in Undecided => \A x \in Passed : x < cur

(* The pipe is in the order of arrival, from what the Gateway has to what the
   thread has in hand. *)
PipeOK ==
    /\ Sorted(queue) /\ Sorted(callbacks)
    /\ \A k \in 1..Len(callbacks) :
          callbacks[k] <= arrived /\ (thread.at # "idle" => callbacks[k] < arrived)
    /\ \A k \in 1..Len(queue) : Precedes(queue[k])
    /\ \A x \in Passed \cup ({job} \ {0}) :
          Precedes(x) /\ \A k \in 1..Len(queue) : x < queue[k]
    /\ job # 0 => \A x \in Passed : x <= job

FeishuInv ==
    /\ TransactionInv
    /\ TypeOK
    /\ StageOK
    /\ ThreadOK
    /\ SlotsAreAccounted
    /\ OverflowIsExplicit
    /\ GateOK
    /\ PipeOK

-----------------------------------------------------------------------------
(* Facts about sequences and transactions. *)

LEMMA TailFacts ==
    ASSUME NEW s \in Seq(Messages), s # <<>>
    PROVE  /\ Head(s) = s[1] /\ Head(s) \in Messages
           /\ Tail(s) \in Seq(Messages) /\ Len(s) \in Nat \ {0}
           /\ Len(Tail(s)) = Len(s) - 1
           /\ \A i \in 1..Len(Tail(s)) : Tail(s)[i] = s[i + 1] /\ i + 1 \in 1..Len(s)
           /\ 1 \in 1..Len(s)
OBVIOUS

LEMMA AppendFacts ==
    ASSUME NEW s \in Seq(Messages), NEW m \in Messages
    PROVE  /\ Append(s, m) \in Seq(Messages) /\ Len(s) \in Nat
           /\ Len(Append(s, m)) = Len(s) + 1
           /\ Append(s, m)[Len(s) + 1] = m
           /\ \A i \in 1..Len(s) : Append(s, m)[i] = s[i]
           /\ \A i \in 1..Len(Append(s, m)) : i \in 1..Len(s) \/ i = Len(s) + 1
OBVIOUS

LEMMA SortedTail ==
    ASSUME NEW s \in Seq(Messages), s # <<>>, Sorted(s)
    PROVE  /\ Sorted(Tail(s))
           /\ \A i \in 1..Len(Tail(s)) : s[1] < Tail(s)[i]
<1>1. /\ Len(Tail(s)) \in Nat /\ Len(s) \in Nat /\ 1 \in 1..Len(s)
      /\ \A i \in 1..Len(Tail(s)) : Tail(s)[i] = s[i + 1] /\ i + 1 \in 1..Len(s)
  BY TailFacts
<1>2. \A i \in 1..Len(Tail(s)) : 1 < i + 1
  BY <1>1
<1>3. \A i, j \in 1..Len(Tail(s)) : i < j => i + 1 < j + 1
  BY <1>1
<1> QED
  BY <1>1, <1>2, <1>3 DEF Sorted

LEMMA SortedAppend ==
    ASSUME NEW s \in Seq(Messages), NEW m \in Messages, Sorted(s),
           \A i \in 1..Len(s) : s[i] < m
    PROVE  Sorted(Append(s, m))
<1>1. /\ Len(s) \in Nat /\ Append(s, m)[Len(s) + 1] = m
      /\ \A i \in 1..Len(s) : Append(s, m)[i] = s[i]
      /\ \A i \in 1..Len(Append(s, m)) : i \in 1..Len(s) \/ i = Len(s) + 1
  BY AppendFacts
<1>2. \A i \in 1..Len(s) : ~(Len(s) + 1 < i)
  BY <1>1
<1>3. ~(Len(s) + 1 < Len(s) + 1)
  BY <1>1
<1> QED
  BY <1>1, <1>2, <1>3 DEF Sorted

-----------------------------------------------------------------------------
(* What most steps keep of the pipe. *)

LEMMA WaitingIs ==
    ASSUME startup \in Seq(Messages)
    PROVE  Waiting = {startup[i] : i \in 1..Len(startup)} /\ Waiting \subseteq Messages
<1>1. DOMAIN startup = 1..Len(startup) /\ \A i \in 1..Len(startup) : startup[i] \in Messages
  BY ElementOfSeq, LenProperties
<1>2. 0 \notin Messages
  BY DEF Messages
<1> QED
  BY <1>1, <1>2 DEF Waiting

LEMMA PipeNumbers ==
    ASSUME FeishuInv
    PROVE  /\ Passed \cup ({job} \ {0}) \subseteq Nat /\ Passed \subseteq Nat
           /\ \A k \in 1..Len(queue) : queue[k] \in Nat
           /\ \A k \in 1..Len(callbacks) : callbacks[k] \in Nat
<1>1. /\ handed \in Seq(Messages) /\ queue \in Seq(Messages) /\ callbacks \in Seq(Messages)
      /\ job \in Nat
  BY DEF FeishuInv, TypeOK, TransactionInv, TransactionTypeOK
<1>2. Messages \subseteq Nat
  BY DEF Messages
<1>3. Passed \subseteq Nat
  <2>1. Handed \subseteq Messages
    BY <1>1 DEF Handed
  <2>2. Waiting \subseteq Messages
    BY WaitingIs DEF FeishuInv, GateOK
  <2> QED
    BY <1>2, <2>1, <2>2 DEF Passed
<1>4. \A k \in 1..Len(queue) : queue[k] \in Nat
  <2>1. \A k \in 1..Len(queue) : queue[k] \in Messages
    BY <1>1
  <2> QED
    BY <1>2, <2>1
<1>5. \A k \in 1..Len(callbacks) : callbacks[k] \in Nat
  <2>1. \A k \in 1..Len(callbacks) : callbacks[k] \in Messages
    BY <1>1
  <2> QED
    BY <1>2, <2>1
<1> QED
  BY <1>1, <1>3, <1>4, <1>5

LEMMA PipeStays ==
    ASSUME FeishuInv, UNCHANGED <<arrived, callbacks, queue>>,
           thread'.at # "idle" => thread.at # "idle",
           \A x \in Passed' \cup ({job'} \ {0}) : x \in Passed \cup ({job} \ {0}),
           job' # 0 => \A x \in Passed' : x <= job'
    PROVE  PipeOK'
<1>1. PipeOK
  BY DEF FeishuInv
<1>2. \A x : Precedes(x) => Precedes(x)'
  BY DEF Precedes
<1>3. Sorted(queue)' /\ Sorted(callbacks)'
  BY <1>1 DEF PipeOK, Sorted
<1>4. \A x \in Passed' \cup ({job'} \ {0}) :
          Precedes(x)' /\ \A k \in 1..Len(queue) : x < queue[k]
  BY <1>1, <1>2 DEF PipeOK
<1>5. \A k \in 1..Len(queue') : \A q : q = queue'[k] => Precedes(q)'
  BY <1>1, <1>2 DEF PipeOK
<1>6. \A k \in 1..Len(queue') : Precedes(queue[k])'
  BY <1>5 DEF Precedes
<1>7. \A x \in Passed' \cup ({job'} \ {0}) :
          Precedes(x)' /\ \A k \in 1..Len(queue') : x < queue'[k]
  BY <1>4
<1> QED
  BY <1>1, <1>3, <1>6, <1>7 DEF PipeOK

(* What the Gateway has stays in order while nothing is handed over. *)
LEMMA GateStays ==
    ASSUME GateOK, UNCHANGED <<handed, startup>>,
           pc' \in Undecided => pc \in Undecided /\ cur' = cur
    PROVE  GateOK' /\ Passed' = Passed
<1>1. Handed' = Handed /\ Passed' = Passed
  BY DEF Passed, Handed, Waiting
<1> QED
  BY <1>1 DEF GateOK, Sorted

LEMMA TransactionRests ==
    ASSUME FeishuInv, TransactionAssumption, UNCHANGED transactionVars
    PROVE  TransactionInv' /\ GateOK' /\ Passed' = Passed
<1>1. UNCHANGED <<handed, startup, pc, cur>>
  BY DEF transactionVars, dispatchVars, gateVars
<1> QED
  BY <1>1, GateStays, TransactionStutters DEF FeishuInv

(* A message is handed over that came after all that were. *)
LEMMA HandoverOrder ==
    ASSUME handed \in Seq(Messages), Sorted(handed), NEW m \in Messages,
           \A x \in Handed : x < m, handed' = Append(handed, m)
    PROVE  Sorted(handed') /\ Handed' = Handed \cup {m}
<1>1. \A i \in 1..Len(handed) : handed[i] \in Handed
  BY DEF Handed
<1>2. Sorted(handed')
  BY <1>1, SortedAppend
<1> QED
  BY <1>2, HandoffAdds

(* A transaction hands its message over, puts it into the FIFO, or neither. *)
LEMMA DispatchedJoins ==
    ASSUME FeishuInv, TransactionAssumption, pc \in Opened, pc' \notin Undecided,
           \/ handed' = Append(handed, cur) /\ startup = <<>> /\ startup' = startup
           \/ startup' = Append(startup, cur) /\ handed' = handed
    PROVE  GateOK' /\ Passed' = Passed \cup {cur}
<1>1. /\ cur \in Messages /\ handed \in Seq(Messages) /\ startup \in Seq(Messages)
      /\ Sorted(handed) /\ Sorted(startup) /\ \A x \in Passed : x < cur
      /\ \A x \in Handed : \A i \in 1..Len(startup) : x < startup[i]
  BY InvFacts DEF FeishuInv, GateOK, Opened, Undecided
<1>2. Handed \subseteq Passed /\ \A i \in 1..Len(startup) : startup[i] \in Passed
  BY <1>1, WaitingIs DEF Passed
<1>3. CASE handed' = Append(handed, cur) /\ startup = <<>> /\ startup' = startup
  <2>1. Sorted(handed') /\ Handed' = Handed \cup {cur}
    BY <1>1, <1>2, <1>3, HandoverOrder
  <2>2. \A i : i \notin 1..Len(startup)
    BY <1>3
  <2>3. Waiting' = Waiting
    BY <1>3 DEF Waiting
  <2> QED
    BY <1>1, <1>3, <2>1, <2>2, <2>3 DEF GateOK, Passed, Sorted
<1>4. CASE startup' = Append(startup, cur) /\ handed' = handed
  <2>1. Sorted(startup') /\ startup' \in Seq(Messages)
    BY <1>1, <1>2, <1>4, SortedAppend
  <2>2. /\ Len(startup) \in Nat /\ startup'[Len(startup) + 1] = cur
        /\ Len(startup) + 1 \in 1..Len(startup')
        /\ \A i \in 1..Len(startup) : startup'[i] = startup[i] /\ i \in 1..Len(startup')
        /\ \A i \in 1..Len(startup') : i \in 1..Len(startup) \/ i = Len(startup) + 1
    BY <1>1, <1>4
  <2>3. Waiting = {startup[i] : i \in 1..Len(startup)}
    BY <1>1, WaitingIs
  <2>4. DOMAIN startup' = 1..Len(startup') /\ cur # 0 /\ \A i \in 1..Len(startup) : startup[i] # 0
    <3>1. \A i \in 1..Len(startup) : startup[i] \in Messages
      BY <1>1, ElementOfSeq
    <3> QED
      BY <1>1, <2>1, <3>1, LenProperties DEF Messages
  <2>5. Waiting' = Waiting \cup {cur}
    BY <2>2, <2>3, <2>4 DEF Waiting
  <2>6. Handed' = Handed
    BY <1>4 DEF Handed
  <2>7. \A x \in Handed' : \A i \in 1..Len(startup') : x < startup'[i]
    BY <1>1, <1>2, <2>2, <2>6
  <2> QED
    BY <1>1, <1>4, <2>1, <2>5, <2>6, <2>7 DEF GateOK, Passed, Sorted
<1> QED
  BY <1>3, <1>4

(* No other entry has the message of the dispatch, so that none is disowned. *)
LEMMA NoneDisowned ==
    ASSUME FeishuInv, pc = "claim", startup' = Disowned
    PROVE  startup' = startup
<1>1. startup \in Seq(Messages) /\ \A x \in Passed : x < cur
  BY DEF FeishuInv, GateOK, Undecided
<1>2. DOMAIN startup = 1..Len(startup) /\ \A i \in 1..Len(startup) : startup[i] \in Messages
  BY <1>1, ElementOfSeq, LenProperties
<1>3. \A i \in 1..Len(startup) : startup[i] \in Passed
  BY <1>1, WaitingIs DEF Passed
<1>4. \A i \in 1..Len(startup) : startup[i] # cur
  <2>1. \A x \in Messages : x < cur => x # cur
    BY DEF Messages
  <2> QED
    BY <1>1, <1>2, <1>3, <2>1
<1>5. startup = [i \in 1..Len(startup) |-> startup[i]]
  BY <1>1, LenProperties
<1> QED
  BY <1>2, <1>4, <1>5 DEF Disowned

LEMMA StepOrders ==
    ASSUME FeishuInv, TransactionAssumption, TransactionStep
    PROVE  GateOK' /\ Passed \subseteq Passed' /\ Passed' \subseteq Passed \cup {cur}
<1>1. CASE AcquireClaim \/ NoLease \/ ClaimFails
  <2>1. pc = "claim" /\ handed' = handed /\ cur' = cur /\ startup' \in {startup, Disowned}
    BY <1>1 DEF AcquireClaim, NoLease, ClaimFails, Disown
  <2>2. startup' = startup
    BY <2>1, NoneDisowned
  <2> QED
    BY <2>1, <2>2, GateStays DEF FeishuInv, Undecided
<1>2. CASE Prepare \/ Release
  <2>1. pc \in Opened /\ UNCHANGED <<handed, startup, cur>>
    BY <1>2 DEF Prepare, Release, gateVars, Opened
  <2> QED
    BY <2>1, GateStays DEF FeishuInv, Undecided
<1>3. CASE Deliver
  <2>1. pc \in Opened /\ cur' = cur
    BY <1>3 DEF Deliver, Opened
  <2>2. CASE Hand \/ Admit
    <3>1. pc' \notin Undecided
      BY <2>2 DEF Hand, Admit, Undecided, Opened
    <3>2. \/ handed' = Append(handed, cur) /\ startup = <<>> /\ startup' = startup
          \/ startup' = Append(startup, cur) /\ handed' = handed
      BY <2>2 DEF Hand, Admit, FeishuInv, TransactionInv, FifoOK
    <3> QED
      BY <2>1, <3>1, <3>2, DispatchedJoins
  <2>3. CASE TurnAway \/ Refuse
    <3>1. UNCHANGED <<handed, startup>>
      BY <2>3 DEF TurnAway, Refuse
    <3> QED
      BY <2>1, <3>1, GateStays DEF FeishuInv, Undecided
  <2> QED
    BY <1>3, <2>2, <2>3 DEF Deliver
<1> QED
  BY <1>1, <1>2, <1>3 DEF TransactionStep

LEMMA CancelledOrders ==
    ASSUME FeishuInv, TransactionAssumption, Cancelled
    PROVE  GateOK' /\ Passed' \subseteq Passed \cup ({cur} \ {0})
<1>1. pc' \notin Undecided
  BY DEF Cancelled, Taken, Undecided, Opened
<1>2. CASE UNCHANGED <<handed, startup>>
  BY <1>1, <1>2, GateStays DEF FeishuInv
<1>3. CASE /\ pc = "deliver" /\ startup = <<>> /\ startup' = startup
           /\ handed' = Append(handed, cur)
  <2>1. pc \in Opened /\ cur # 0
    BY <1>3, InvFacts DEF FeishuInv, Opened
  <2> QED
    BY <1>1, <1>3, <2>1, DispatchedJoins
<1> QED
  BY <1>2, <1>3 DEF Cancelled

(* The first entry of the FIFO is handed over, or given up. *)
LEMMA GatewayOrders ==
    ASSUME FeishuInv, TransactionAssumption, GatewayStep
    PROVE  GateOK' /\ Passed' \subseteq Passed
<1>0. UNCHANGED <<pc, cur>>
  BY DEF GatewayStep, Drain, GoLive, RollBack
<1>1. CASE UNCHANGED <<handed, startup>>
  BY <1>0, <1>1, GateStays DEF FeishuInv
<1>2. CASE /\ startup # <<>> /\ startup' = Tail(startup)
           /\ handed' \in {handed, Append(handed, Head(startup))}
  <2>1. /\ handed \in Seq(Messages) /\ startup \in Seq(Messages)
        /\ Sorted(handed) /\ Sorted(startup)
        /\ \A x \in Handed : \A i \in 1..Len(startup) : x < startup[i]
        /\ pc \in Undecided => \A x \in Passed : x < cur
    BY InvFacts DEF FeishuInv, GateOK
  <2>2. /\ Head(startup) = startup[1] /\ Head(startup) \in Messages
        /\ startup' \in Seq(Messages) /\ 1 \in 1..Len(startup)
        /\ \A i \in 1..Len(startup') : startup'[i] = startup[i + 1] /\ i + 1 \in 1..Len(startup)
    BY <1>2, <2>1, TailFacts
  <2>3. Sorted(startup') /\ \A i \in 1..Len(startup') : startup[1] < startup'[i]
    BY <1>2, <2>1, SortedTail
  <2>4. /\ Waiting' \subseteq Waiting /\ startup[1] \in Waiting
    <3>1. Waiting = {startup[i] : i \in 1..Len(startup)}
      BY <2>1, WaitingIs
    <3>2. DOMAIN startup' = 1..Len(startup')
      BY <2>2, LenProperties
    <3>3. \A x \in Waiting' : \E i \in 1..Len(startup') : x = startup'[i]
      BY <3>2 DEF Waiting
    <3> QED
      BY <2>2, <3>1, <3>3
  <2>5. Sorted(handed') /\ Handed' \subseteq Handed \cup {startup[1]}
    <3>1. CASE handed' = handed
      BY <2>1, <3>1 DEF Handed
    <3>2. CASE handed' = Append(handed, startup[1])
      BY <2>1, <2>2, <3>2, HandoverOrder
    <3> QED
      BY <1>2, <2>2, <3>1, <3>2
  <2>6. \A x \in Handed' : \A i \in 1..Len(startup') : x < startup'[i]
    BY <2>1, <2>2, <2>3, <2>5
  <2>7. Passed' \subseteq Passed
    BY <2>4, <2>5 DEF Passed
  <2> QED
    BY <1>0, <2>1, <2>2, <2>3, <2>5, <2>6, <2>7 DEF GateOK, Sorted
<1> QED
  BY <1>1, <1>2 DEF GatewayStep, Drain, GoLive, RollBack

-----------------------------------------------------------------------------
(* One lemma for each step. *)

LEMMA ConnectionStep ==
    ASSUME FeishuInv, FeishuAssumption, TransactionAssumption, ConnectSdk \/ DetachSdk
    PROVE  FeishuInv'
<1>0. /\ UNCHANGED <<transactionVars, arrived, pipeVars, countVars>>
      /\ UNCHANGED <<stopping, phase, restarts>>
      /\ phase = "up" /\ subscribed' \in BOOLEAN
  BY DEF ConnectSdk, DetachSdk
<1>1. TransactionInv' /\ GateOK' /\ Passed' = Passed
  BY <1>0, TransactionRests
<1>2. TypeOK'
  BY <1>0, <1>1 DEF FeishuInv, TypeOK, TransactionInv, pipeVars, countVars
<1>3. StageOK' /\ ThreadOK' /\ SlotsAreAccounted' /\ OverflowIsExplicit'
  BY <1>0 DEF FeishuInv, StageOK, ThreadOK, SlotsAreAccounted, OverflowIsExplicit,
              pipeVars, countVars, transactionVars, dispatchVars
<1>4. PipeOK'
  BY <1>0, <1>1, PipeStays DEF FeishuInv, PipeOK, pipeVars, transactionVars, dispatchVars
<1> QED
  BY <1>1, <1>2, <1>3, <1>4 DEF FeishuInv

(* The SDK calls back with the next message. *)
LEMMA QueueStep ==
    ASSUME FeishuInv, TransactionAssumption, QueueInbound
    PROVE  FeishuInv'
<1>0. /\ UNCHANGED <<transactionVars, callbacks, slots, queue, open, job>>
      /\ UNCHANGED <<ownerVars, countVars>>
      /\ thread = Idle /\ arrived' = arrived + 1 /\ arrived \in Nat /\ arrived' \in 1..Count
      /\ \/ thread' = Idle
         \/ thread' = [at |-> "slot", message |-> arrived'] /\ subscribed
  BY DEF QueueInbound, FeishuInv, TypeOK, TransactionAssumption
<1>1. TransactionInv' /\ GateOK' /\ Passed' = Passed
  BY <1>0, TransactionRests
<1>2. TypeOK'
  <2>1. thread' \in [at : {"idle", "slot", "post"}, message : 0..Count]
    BY <1>0 DEF Idle, TransactionAssumption
  <2>2. {open, subscribed, stopping}' \subseteq BOOLEAN
    BY <1>0 DEF FeishuInv, TypeOK, ownerVars
  <2>3. arrived' \in 0..Count
    BY <1>0
  <2> QED
    BY <1>0, <1>1, <2>1, <2>2, <2>3 DEF FeishuInv, TypeOK, TransactionInv, ownerVars, countVars
<1>3. StageOK'
  BY <1>0 DEF FeishuInv, StageOK, ownerVars, transactionVars, dispatchVars
<1>4. ThreadOK'
  <2>1. \A m \in refused : m <= arrived /\ m \in Nat
    BY <1>0 DEF FeishuInv, ThreadOK, TypeOK, Messages
  <2>2. arrived' \notin refused /\ \A m \in refused : m <= arrived'
    BY <1>0, <2>1
  <2> QED
    <3>1. CASE thread' = Idle
      BY <1>0, <2>2, <3>1 DEF ThreadOK, Idle, countVars
    <3>2. CASE thread' = [at |-> "slot", message |-> arrived']
      <4>1. thread'.at = "slot" /\ thread'.message = arrived' /\ arrived' # 0
        BY <1>0, <3>2
      <4> QED
        BY <1>0, <2>2, <4>1 DEF ThreadOK, countVars
    <3> QED
      BY <1>0, <3>1, <3>2
<1>5. SlotsAreAccounted' /\ OverflowIsExplicit'
  <2>1. thread.at # "post" /\ thread'.at # "post"
    BY <1>0 DEF Idle
  <2> QED
    BY <1>0, <2>1 DEF FeishuInv, SlotsAreAccounted, OverflowIsExplicit, countVars
<1>6. PipeOK'
  <2>1. ASSUME NEW x, Precedes(x), x \in Nat
        PROVE  x <= arrived' /\ x < arrived' /\ Precedes(x)'
    BY <1>0, <2>1 DEF Precedes
  <2>2. /\ Passed \cup ({job} \ {0}) \subseteq Nat /\ Passed \subseteq Nat
        /\ \A k \in 1..Len(queue) : queue[k] \in Nat
        /\ \A k \in 1..Len(callbacks) : callbacks[k] \in Nat
    BY PipeNumbers
  <2>3. Sorted(queue)' /\ Sorted(callbacks)'
    BY <1>0 DEF FeishuInv, PipeOK, Sorted, transactionVars, dispatchVars
  <2>4. \A k \in 1..Len(callbacks') :
            callbacks'[k] <= arrived' /\ (thread'.at # "idle" => callbacks'[k] < arrived')
    BY <1>0, <2>2 DEF FeishuInv, PipeOK
  <2>5. \A k \in 1..Len(queue') : Precedes(queue[k])'
    <3>1. \A k \in 1..Len(queue) : queue[k] <= arrived' /\ queue[k] < arrived'
                                   /\ \A l \in 1..Len(callbacks) : queue[k] < callbacks[l]
      BY <2>1, <2>2 DEF FeishuInv, PipeOK, Precedes
    <3> QED
      BY <1>0, <3>1 DEF Precedes
  <2>6. \A x \in Passed' \cup ({job'} \ {0}) :
            Precedes(x)' /\ \A k \in 1..Len(queue') : x < queue'[k]
    BY <1>0, <1>1, <2>1, <2>2 DEF FeishuInv, PipeOK
  <2>7. job' # 0 => \A x \in Passed' : x <= job'
    BY <1>0, <1>1 DEF FeishuInv, PipeOK
  <2> QED
    BY <2>3, <2>4, <2>5, <2>6, <2>7 DEF PipeOK
<1> QED
  BY <1>1, <1>2, <1>3, <1>4, <1>5, <1>6 DEF FeishuInv

(* What the slots that are out are for, as a number. *)
LEMMA SlotsOut ==
    ASSUME FeishuInv, FeishuAssumption
    PROVE  /\ Len(callbacks) \in Nat /\ Len(queue) \in Nat
           /\ QueueLimit \in Nat /\ slots \in Nat
           /\ QueueLimit - slots >= Len(callbacks) + Len(queue)
           /\ job # 0 => QueueLimit - slots >= Len(callbacks) + Len(queue) + 1
<1>1. /\ Len(callbacks) \in Nat /\ Len(queue) \in Nat
      /\ QueueLimit \in Nat /\ slots \in Nat
  BY DEF FeishuInv, TypeOK, FeishuAssumption
<1>2. PICK a \in {0, 1} : a = IF thread.at = "post" THEN 1 ELSE 0
  OBVIOUS
<1>3. PICK b \in {0, 1} : b = IF job = 0 THEN 0 ELSE 1
  OBVIOUS
<1>4. QueueLimit - slots = a + Len(callbacks) + Len(queue) + b
  BY <1>2, <1>3 DEF FeishuInv, SlotsAreAccounted
<1>5. QueueLimit - slots >= Len(callbacks) + Len(queue) + b
  BY <1>1, <1>4
<1> QED
  BY <1>1, <1>3, <1>5

(* The thread takes a slot, or counts the message and drops it. *)
LEMMA SlotStep ==
    ASSUME FeishuInv, FeishuAssumption, TransactionAssumption, TakeSlot
    PROVE  FeishuInv'
<1>0. /\ UNCHANGED <<transactionVars, arrived, callbacks, queue, open, job>>
      /\ UNCHANGED <<ownerVars, reported, failed>>
      /\ thread.at = "slot"
  BY DEF TakeSlot
<1>1. TransactionInv' /\ GateOK' /\ Passed' = Passed
  BY <1>0, TransactionRests
<1>2. /\ thread \in [at : {"idle", "slot", "post"}, message : 0..Count]
      /\ slots \in 0..QueueLimit /\ arrived \in 0..Count /\ overflow \in Nat /\ reported \in Nat
      /\ thread.message = arrived /\ arrived # 0 /\ arrived \notin refused
      /\ refused \subseteq Messages /\ \A m \in refused : m <= arrived
  BY <1>0 DEF FeishuInv, TypeOK, ThreadOK
<1>3. thread # Idle /\ phase # "off"
  BY <1>0 DEF FeishuInv, StageOK, Idle
<1>4. PipeOK'
  BY <1>0, <1>1, PipeStays DEF FeishuInv, PipeOK, transactionVars, dispatchVars
<1>5. StageOK'
  BY <1>0, <1>3 DEF FeishuInv, StageOK, transactionVars, dispatchVars, ownerVars
<1>6. {open, subscribed, stopping}' \subseteq BOOLEAN
  BY <1>0 DEF FeishuInv, TypeOK, ownerVars
<1>7. CASE /\ slots > 0 /\ slots' = slots - 1
           /\ thread' = [thread EXCEPT !.at = "post"] /\ UNCHANGED <<overflow, refused>>
  <2>1. /\ thread'.at = "post" /\ thread'.message = arrived
        /\ thread' \in [at : {"idle", "slot", "post"}, message : 0..Count]
    BY <1>2, <1>7
  <2>2. slots' \in 0..QueueLimit
    BY <1>2, <1>7 DEF FeishuAssumption
  <2>3. TypeOK'
    BY <1>0, <1>1, <1>6, <1>7, <2>1, <2>2 DEF FeishuInv, TypeOK, TransactionInv, ownerVars
  <2>4. ThreadOK'
    BY <1>0, <1>2, <1>7, <2>1 DEF ThreadOK
  <2>5. SlotsAreAccounted'
    <3>1. Len(callbacks) \in Nat /\ Len(queue) \in Nat /\ QueueLimit \in Nat /\ slots \in Nat
      BY <1>2 DEF FeishuInv, TypeOK, FeishuAssumption
    <3>2. QueueLimit - slots = 0 + Len(callbacks) + Len(queue) + (IF job = 0 THEN 0 ELSE 1)
      BY <1>0 DEF FeishuInv, SlotsAreAccounted
    <3> QED
      BY <1>0, <1>7, <2>1, <3>1, <3>2 DEF SlotsAreAccounted
  <2>6. OverflowIsExplicit'
    BY <1>0, <1>7 DEF FeishuInv, OverflowIsExplicit
  <2> QED
    BY <1>1, <1>4, <1>5, <2>3, <2>4, <2>5, <2>6 DEF FeishuInv
<1>8. CASE /\ slots = 0 /\ overflow' = overflow + 1
           /\ refused' = refused \cup {thread.message} /\ thread' = Idle /\ UNCHANGED slots
  <2>1. /\ thread'.at = "idle" /\ refused' = refused \cup {arrived}
        /\ thread' \in [at : {"idle", "slot", "post"}, message : 0..Count]
    BY <1>2, <1>8 DEF Idle, TransactionAssumption
  <2>2. refused' \subseteq Messages
    BY <1>2, <2>1 DEF Messages
  <2>3. TypeOK'
    BY <1>0, <1>1, <1>2, <1>6, <1>8, <2>1, <2>2 DEF FeishuInv, TypeOK, TransactionInv, ownerVars
  <2>4. ThreadOK'
    BY <1>0, <1>2, <1>8, <2>1 DEF ThreadOK
  <2>5. SlotsAreAccounted'
    BY <1>0, <1>8, <2>1 DEF FeishuInv, SlotsAreAccounted
  <2>6. OverflowIsExplicit'
    <3>1. IsFiniteSet(refused)
      <4>1. IsFiniteSet(1..Count)
        BY FS_Interval DEF TransactionAssumption
      <4> QED
        BY <1>2, <4>1, FS_Subset DEF Messages
    <3>2. Cardinality(refused \cup {arrived}) = Cardinality(refused) + 1 /\ Cardinality(refused) \in Nat
      BY <1>2, <3>1, FS_AddElement, FS_CardinalityType
    <3>3. overflow + reported = Cardinality(refused)
      BY DEF FeishuInv, OverflowIsExplicit
    <3> QED
      BY <1>0, <1>2, <1>8, <2>1, <3>2, <3>3 DEF OverflowIsExplicit
  <2> QED
    BY <1>1, <1>4, <1>5, <2>3, <2>4, <2>5, <2>6 DEF FeishuInv
<1> QED
  BY <1>7, <1>8 DEF TakeSlot

(* The thread posts the callback. *)
LEMMA PostStep ==
    ASSUME FeishuInv, FeishuAssumption, TransactionAssumption, Post
    PROVE  FeishuInv'
<1>0. /\ UNCHANGED <<transactionVars, arrived, slots, queue, open, job>>
      /\ UNCHANGED <<ownerVars, countVars>>
      /\ thread.at = "post" /\ thread' = Idle /\ callbacks' = Append(callbacks, thread.message)
  BY DEF Post
<1>1. TransactionInv' /\ GateOK' /\ Passed' = Passed
  BY <1>0, TransactionRests
<1>2. /\ callbacks \in Seq(Messages) /\ thread.message = arrived /\ arrived \in Messages
      /\ Len(queue) \in Nat
  BY <1>0 DEF FeishuInv, TypeOK, ThreadOK, Messages
<1>3. /\ callbacks' \in Seq(Messages) /\ Len(callbacks) \in Nat
      /\ Len(callbacks') = Len(callbacks) + 1
      /\ callbacks'[Len(callbacks) + 1] = arrived
      /\ \A i \in 1..Len(callbacks) : callbacks'[i] = callbacks[i]
      /\ \A i \in 1..Len(callbacks') : i \in 1..Len(callbacks) \/ i = Len(callbacks) + 1
  BY <1>0, <1>2, AppendFacts
<1>4. thread'.at = "idle" /\ thread' \in [at : {"idle", "slot", "post"}, message : 0..Count]
  BY <1>0 DEF Idle, TransactionAssumption
<1>5. TypeOK'
  <2>1. {open, subscribed, stopping}' \subseteq BOOLEAN
    BY <1>0 DEF FeishuInv, TypeOK, ownerVars
  <2> QED
    BY <1>0, <1>1, <1>3, <1>4, <2>1 DEF FeishuInv, TypeOK, TransactionInv, ownerVars, countVars
<1>6. StageOK'
  <2>1. thread # Idle
    BY <1>0 DEF Idle
  <2> QED
    BY <1>0, <2>1 DEF FeishuInv, StageOK, ownerVars, transactionVars, dispatchVars
<1>7. ThreadOK' /\ OverflowIsExplicit'
  BY <1>0, <1>4 DEF FeishuInv, ThreadOK, OverflowIsExplicit, countVars
<1>8. SlotsAreAccounted'
  <2>1. QueueLimit - slots = 1 + Len(callbacks) + Len(queue) + (IF job = 0 THEN 0 ELSE 1)
    BY <1>0 DEF FeishuInv, SlotsAreAccounted
  <2> QED
    BY <1>0, <1>2, <1>3, <1>4, <2>1 DEF SlotsAreAccounted
<1>9. PipeOK'
  <2>0. PipeOK
    BY DEF FeishuInv
  <2>1. \A k \in 1..Len(callbacks) : callbacks[k] <= arrived /\ callbacks[k] < arrived
    BY <1>0, <2>0 DEF PipeOK
  <2>2. Sorted(callbacks')
    BY <1>0, <1>2, <2>0, <2>1, SortedAppend DEF PipeOK
  <2>3. Sorted(queue)' /\ Sorted(callbacks)'
    BY <1>0, <2>0, <2>2 DEF PipeOK, Sorted, transactionVars, dispatchVars
  <2>4. \A k \in 1..Len(callbacks') :
            callbacks'[k] <= arrived' /\ (thread'.at # "idle" => callbacks'[k] < arrived')
    BY <1>0, <1>2, <1>3, <1>4, <2>1 DEF Messages
  <2>5. ASSUME NEW x, Precedes(x)
        PROVE  x <= arrived /\ \A k \in 1..Len(callbacks') : x < callbacks'[k]
    BY <1>0, <1>3, <2>5 DEF Precedes
  <2>6. \A k \in 1..Len(queue') : Precedes(queue[k])'
    BY <1>0, <1>4, <2>0, <2>5 DEF PipeOK, Precedes
  <2>7. \A x \in Passed' \cup ({job'} \ {0}) :
            Precedes(x)' /\ \A k \in 1..Len(queue') : x < queue'[k]
    <3>1. \A x : Precedes(x) => Precedes(x)'
      BY <1>0, <1>4, <2>5 DEF Precedes
    <3> QED
      BY <1>0, <1>1, <2>0, <3>1 DEF PipeOK
  <2>8. job' # 0 => \A x \in Passed' : x <= job'
    BY <1>0, <1>1, <2>0 DEF PipeOK
  <2> QED
    BY <2>3, <2>4, <2>6, <2>7, <2>8 DEF PipeOK
<1> QED
  BY <1>1, <1>5, <1>6, <1>7, <1>8, <1>9 DEF FeishuInv

(* The loop runs a callback. *)
LEMMA EnqueueStep ==
    ASSUME FeishuInv, FeishuAssumption, TransactionAssumption, EnqueueInbound
    PROVE  FeishuInv'
<1>0. /\ UNCHANGED <<transactionVars, arrived, thread, open, job>>
      /\ UNCHANGED <<ownerVars, countVars>>
      /\ callbacks # <<>> /\ callbacks' = Tail(callbacks)
  BY DEF EnqueueInbound
<1>1. TransactionInv' /\ GateOK' /\ Passed' = Passed
  BY <1>0, TransactionRests
<1>2. callbacks \in Seq(Messages) /\ queue \in Seq(Messages) /\ PipeOK
  BY DEF FeishuInv, TypeOK
<1>3. /\ callbacks' \in Seq(Messages) /\ Head(callbacks) = callbacks[1]
      /\ callbacks[1] \in Messages /\ 1 \in 1..Len(callbacks)
      /\ Len(callbacks') = Len(callbacks) - 1 /\ Len(callbacks) \in Nat \ {0}
      /\ \A i \in 1..Len(callbacks') : callbacks'[i] = callbacks[i + 1] /\ i + 1 \in 1..Len(callbacks)
  BY <1>0, <1>2, TailFacts
<1>4. Sorted(callbacks') /\ \A i \in 1..Len(callbacks') : callbacks[1] < callbacks'[i]
  BY <1>0, <1>2, SortedTail DEF PipeOK
<1>5. \A x : Precedes(x) => Precedes(x)'
  BY <1>0, <1>3 DEF Precedes
<1>6. {open, subscribed, stopping}' \subseteq BOOLEAN
  BY <1>0 DEF FeishuInv, TypeOK, ownerVars
<1>7. StageOK' /\ ThreadOK' /\ OverflowIsExplicit'
  <2>1. callbacks # <<>> => phase # "off"
    BY DEF FeishuInv, StageOK
  <2>2. phase \in {"join", "off"} => queue' = queue
    BY DEF EnqueueInbound, FeishuInv, StageOK
  <2> QED
    BY <1>0, <2>1, <2>2 DEF FeishuInv, StageOK, ThreadOK, OverflowIsExplicit, ownerVars, countVars,
                       transactionVars, dispatchVars
<1>8. /\ Sorted(callbacks)'
      /\ \A k \in 1..Len(callbacks') :
            callbacks'[k] <= arrived' /\ (thread'.at # "idle" => callbacks'[k] < arrived')
      /\ \A x \in Passed' \cup ({job'} \ {0}) : Precedes(x)'
      /\ job' # 0 => \A x \in Passed' : x <= job'
  <2>1. Sorted(callbacks)'
    BY <1>0, <1>2, <1>4 DEF PipeOK, Sorted, transactionVars, dispatchVars
  <2>2. \A k \in 1..Len(callbacks') :
            callbacks'[k] <= arrived' /\ (thread'.at # "idle" => callbacks'[k] < arrived')
    BY <1>0, <1>2, <1>3 DEF PipeOK
  <2>3. \A x \in Passed' \cup ({job'} \ {0}) : Precedes(x)'
    BY <1>0, <1>1, <1>2, <1>5 DEF PipeOK
  <2>4. job' # 0 => \A x \in Passed' : x <= job'
    BY <1>0, <1>1, <1>2 DEF PipeOK
  <2> QED
    BY <2>1, <2>2, <2>3, <2>4
<1>9. CASE slots' = slots + 1 /\ UNCHANGED queue
  <2>1. slots' \in 0..QueueLimit
    BY <1>3, <1>9, SlotsOut
  <2>2. TypeOK'
    BY <1>0, <1>1, <1>3, <1>6, <1>9, <2>1 DEF FeishuInv, TypeOK, TransactionInv, ownerVars, countVars
  <2>3. SlotsAreAccounted'
    <3>1. Len(queue) \in Nat /\ slots \in Nat /\ QueueLimit \in Nat
      BY SlotsOut
    <3> QED
      BY <1>0, <1>3, <1>9, <3>1 DEF FeishuInv, SlotsAreAccounted
  <2>4. Sorted(queue)' /\ \A k \in 1..Len(queue') : Precedes(queue[k])'
    <3>1. \A k \in 1..Len(queue) : \A q : q = queue[k] => Precedes(q)'
      BY <1>2, <1>5 DEF PipeOK
    <3>2. \A k \in 1..Len(queue') : Precedes(queue[k])'
      BY <1>9, <3>1 DEF Precedes
    <3> QED
      BY <1>2, <1>9, <3>2 DEF PipeOK, Sorted
  <2>5. \A x \in Passed' \cup ({job'} \ {0}) : \A k \in 1..Len(queue') : x < queue'[k]
    BY <1>0, <1>1, <1>2, <1>9 DEF PipeOK
  <2>6. PipeOK'
    BY <1>8, <2>4, <2>5 DEF PipeOK
  <2> QED
    BY <1>1, <1>7, <2>2, <2>3, <2>6 DEF FeishuInv
<1>10. CASE queue' = Append(queue, Head(callbacks)) /\ UNCHANGED slots
  <2>1. /\ queue' \in Seq(Messages) /\ Len(queue) \in Nat
        /\ Len(queue') = Len(queue) + 1
        /\ queue'[Len(queue) + 1] = callbacks[1]
        /\ \A i \in 1..Len(queue) : queue'[i] = queue[i]
        /\ \A i \in 1..Len(queue') : i \in 1..Len(queue) \/ i = Len(queue) + 1
    BY <1>2, <1>3, <1>10, AppendFacts
  <2>2. TypeOK'
    BY <1>0, <1>1, <1>3, <1>6, <1>10, <2>1 DEF FeishuInv, TypeOK, TransactionInv, ownerVars, countVars
  <2>3. SlotsAreAccounted'
    <3>1. slots \in Nat /\ QueueLimit \in Nat
      BY SlotsOut
    <3> QED
      <4>1. Len(callbacks) + Len(queue) = Len(callbacks') + Len(queue')
        BY <1>3, <2>1
      <4>2. \A a \in {0, 1} : a + Len(callbacks) + Len(queue) = a + Len(callbacks') + Len(queue')
        BY <1>3, <2>1, <4>1
      <4>3. (IF thread.at = "post" THEN 1 ELSE 0) \in {0, 1}
        OBVIOUS
      <4> QED
        BY <1>0, <1>10, <4>2, <4>3 DEF FeishuInv, SlotsAreAccounted
  <2>4. Sorted(queue)'
    <3>1. \A i \in 1..Len(queue) : queue[i] < callbacks[1]
      BY <1>2, <1>3 DEF PipeOK, Precedes
    <3>2. Sorted(queue')
      BY <1>2, <1>3, <1>10, <3>1, SortedAppend DEF PipeOK
    <3> QED
      BY <3>2 DEF Sorted
  <2>5. \A k \in 1..Len(queue') : Precedes(queue[k])'
    <3>1. \A k \in 1..Len(queue) : \A q : q = queue[k] => Precedes(q)'
      BY <1>2, <1>5 DEF PipeOK
    <3>2. \A q : q = callbacks[1] => Precedes(q)'
      BY <1>0, <1>2, <1>3, <1>4 DEF PipeOK, Precedes
    <3>3. \A k \in 1..Len(queue') : \A q : q = queue'[k] => Precedes(q)'
      BY <2>1, <3>1, <3>2
    <3> QED
      BY <3>3 DEF Precedes
  <2>6. \A x \in Passed' \cup ({job'} \ {0}) : \A k \in 1..Len(queue') : x < queue'[k]
    <3>1. \A x \in Passed \cup ({job} \ {0}) :
              x < callbacks[1] /\ \A k \in 1..Len(queue) : x < queue[k]
      BY <1>2, <1>3 DEF PipeOK, Precedes
    <3> QED
      BY <1>0, <1>1, <2>1, <3>1
  <2>7. PipeOK'
    BY <1>8, <2>4, <2>5, <2>6 DEF PipeOK
  <2> QED
    BY <1>1, <1>7, <2>2, <2>3, <2>7 DEF FeishuInv
<1> QED
  BY <1>9, <1>10 DEF EnqueueInbound

(* The worker takes the first message of the queue. *)
LEMMA GetStep ==
    ASSUME FeishuInv, FeishuAssumption, TransactionAssumption, WorkerGet
    PROVE  FeishuInv'
<1>0. /\ UNCHANGED <<arrived, thread, callbacks, slots, open, ownerVars, refused, failed>>
      /\ phase = "up" /\ job = 0 /\ queue # <<>> /\ job' = Head(queue) /\ queue' = Tail(queue)
      /\ Dispatch(job') /\ ReportOverflow
  BY DEF WorkerGet
<1>2. queue \in Seq(Messages) /\ PipeOK /\ Len(callbacks) \in Nat
  BY DEF FeishuInv, TypeOK
<1>3. /\ queue' \in Seq(Messages) /\ job' = queue[1]
      /\ job' \in Messages /\ 1 \in 1..Len(queue)
      /\ Len(queue') = Len(queue) - 1 /\ Len(queue) \in Nat \ {0}
      /\ \A i \in 1..Len(queue') : queue'[i] = queue[i + 1] /\ i + 1 \in 1..Len(queue)
  BY <1>0, <1>2, TailFacts
<1>4. Sorted(queue') /\ \A i \in 1..Len(queue') : queue[1] < queue'[i]
  BY <1>0, <1>2, SortedTail DEF PipeOK
<1>1. TransactionInv' /\ GateOK' /\ Passed' = Passed /\ cur' = job'
  <2>1. UNCHANGED <<handed, startup>> /\ cur' = job'
    BY <1>0 DEF Dispatch, gateVars
  <2>2. Handed' = Handed /\ Passed' = Passed
    BY <2>1 DEF Passed, Handed, Waiting
  <2>3. \A m \in Messages : Dispatch(m) => TransactionInv'
    BY DispatchKeeps DEF FeishuInv
  <2>4. \A x \in Passed : x < job'
    BY <1>2, <1>3 DEF PipeOK
  <2>5. GateOK'
    BY <2>1, <2>2, <2>4 DEF FeishuInv, GateOK, Sorted
  <2> QED
    BY <1>0, <1>3, <2>1, <2>2, <2>3, <2>5
<1>5. overflow' \in Nat /\ reported' \in Nat /\ overflow' + reported' = overflow + reported
  BY <1>0 DEF ReportOverflow, FeishuInv, TypeOK
<1>6. TypeOK'
  <2>1. {open, subscribed, stopping}' \subseteq BOOLEAN
    BY <1>0 DEF FeishuInv, TypeOK, ownerVars
  <2>2. job' \in 0..Count
    BY <1>3 DEF Messages
  <2> QED
    BY <1>0, <1>1, <1>3, <1>5, <2>1, <2>2 DEF FeishuInv, TypeOK, TransactionInv, ownerVars
<1>7. StageOK' /\ ThreadOK' /\ OverflowIsExplicit'
  BY <1>0, <1>1, <1>5 DEF FeishuInv, StageOK, ThreadOK, OverflowIsExplicit, ownerVars
<1>8. SlotsAreAccounted'
  <2>1. job' # 0
    BY <1>3 DEF Messages
  <2>2. PICK a \in {0, 1} : a = IF thread.at = "post" THEN 1 ELSE 0
    OBVIOUS
  <2>3. QueueLimit - slots = a + Len(callbacks) + Len(queue) + 0
    BY <1>0, <2>2 DEF FeishuInv, SlotsAreAccounted
  <2>4. a + Len(callbacks) + Len(queue) + 0 = a + Len(callbacks) + Len(queue') + 1
    BY <1>2, <1>3
  <2> QED
    BY <1>0, <2>1, <2>2, <2>3, <2>4 DEF SlotsAreAccounted
<1>9. PipeOK'
  <2>1. \A x : Precedes(x) => Precedes(x)'
    BY <1>0 DEF Precedes
  <2>2. Sorted(queue)' /\ Sorted(callbacks)'
    BY <1>0, <1>1, <1>2, <1>4 DEF PipeOK, Sorted
  <2>3. \A k \in 1..Len(callbacks') :
            callbacks'[k] <= arrived' /\ (thread'.at # "idle" => callbacks'[k] < arrived')
    BY <1>0, <1>2 DEF PipeOK
  <2>4. \A k \in 1..Len(queue') : Precedes(queue[k])'
    <3>1. \A k \in 1..Len(queue) : \A q : q = queue[k] => Precedes(q)'
      BY <1>2, <2>1 DEF PipeOK
    <3>2. \A k \in 1..Len(queue') : \A q : q = queue'[k] => Precedes(q)'
      BY <1>3, <3>1
    <3> QED
      BY <3>2 DEF Precedes
  <2>5. ASSUME NEW x \in Passed' \cup ({job'} \ {0})
        PROVE  Precedes(x)' /\ \A k \in 1..Len(queue') : x < queue'[k]
    <3>1. CASE x \in Passed
      BY <1>2, <1>3, <2>1, <3>1 DEF PipeOK
    <3>2. CASE x = queue[1]
      BY <1>2, <1>3, <1>4, <2>1, <3>2 DEF PipeOK
    <3> QED
      BY <1>1, <1>3, <2>5, <3>1, <3>2
  <2>6. \A x \in Passed' : x <= job'
    <3>1. \A x \in Passed : x < queue[1] /\ x \in Nat
      BY <1>2, <1>3, PipeNumbers DEF PipeOK
    <3> QED
      BY <1>1, <1>3, <3>1 DEF Messages
  <2> QED
    BY <2>2, <2>3, <2>4, <2>5, <2>6 DEF PipeOK
<1> QED
  BY <1>1, <1>6, <1>7, <1>8, <1>9 DEF FeishuInv

(* The transaction of the worker moves on. *)
LEMMA DispatcherStep ==
    ASSUME FeishuInv, FeishuAssumption, TransactionAssumption, Dispatcher
    PROVE  FeishuInv'
<1>0. /\ UNCHANGED <<arrived, thread, callbacks, slots, queue, open, job>>
      /\ UNCHANGED <<subscribed, stopping, phase, restarts, drops>>
      /\ UNCHANGED <<overflow, reported, refused, failed>> /\ TransactionStep
  BY DEF Dispatcher, pipeVars, ownerVars, countVars
<1>1. TransactionInv'
  BY <1>0, StepKeeps DEF FeishuInv
<1>2. cur' = cur /\ pc # "idle"
  BY <1>0, StepIsDispatch
<1>3. job = cur /\ cur # 0
  BY <1>2, InvFacts DEF FeishuInv, StageOK
<1>4. TypeOK' /\ StageOK' /\ ThreadOK' /\ SlotsAreAccounted' /\ OverflowIsExplicit'
  BY <1>0, <1>1, <1>2 DEF FeishuInv, TypeOK, TransactionInv, StageOK, ThreadOK,
                          SlotsAreAccounted, OverflowIsExplicit
<1>5. GateOK' /\ Passed' \subseteq Passed \cup {job}
  BY <1>0, <1>3, StepOrders
<1>6. \A x \in Passed' : x <= job
  <2>1. job <= job
    BY DEF FeishuInv, TypeOK
  <2> QED
    BY <1>3, <1>5, <2>1 DEF FeishuInv, PipeOK
<1>7. PipeOK'
  BY <1>0, <1>3, <1>5, <1>6, PipeStays
<1> QED
  BY <1>1, <1>4, <1>5, <1>7 DEF FeishuInv

(* The Gateway takes from its FIFO, goes live or closes beside the Channel. *)
LEMMA GatewayMoves ==
    ASSUME FeishuInv, FeishuAssumption, TransactionAssumption, GatewayRuns \/ GatewayCloses
    PROVE  FeishuInv'
<1>0. /\ UNCHANGED <<arrived, thread, callbacks, slots, queue, open, job>>
      /\ UNCHANGED <<subscribed, stopping, phase, drops>>
      /\ UNCHANGED <<overflow, reported, refused, failed>>
      /\ GatewayStep \/ CloseGate
  BY DEF GatewayRuns, GatewayCloses, pipeVars, ownerVars, countVars
<1>1. TransactionInv' /\ UNCHANGED <<pc, cur>>
  BY <1>0, GatewayKeeps, GateKeeps DEF FeishuInv, CloseGate
<1>2. GateOK' /\ Passed' \subseteq Passed
  <2>1. CASE CloseGate
    BY <2>1, GateStays DEF FeishuInv, CloseGate
  <2> QED
    BY <1>0, <2>1, GatewayOrders
<1>3. TypeOK' /\ StageOK' /\ ThreadOK' /\ SlotsAreAccounted' /\ OverflowIsExplicit'
  BY <1>0, <1>1 DEF FeishuInv, TypeOK, TransactionInv, StageOK, ThreadOK,
                    SlotsAreAccounted, OverflowIsExplicit
<1>4. PipeOK'
  BY <1>0, <1>2, PipeStays DEF FeishuInv, PipeOK
<1> QED
  BY <1>1, <1>2, <1>3, <1>4 DEF FeishuInv

(* The worker gives its slot back. *)
LEMMA DoneStep ==
    ASSUME FeishuInv, FeishuAssumption, TransactionAssumption, WorkerDone
    PROVE  FeishuInv'
<1>0. /\ UNCHANGED <<arrived, thread, callbacks, queue, open>>
      /\ UNCHANGED <<subscribed, stopping, phase, restarts, drops>>
      /\ UNCHANGED <<overflow, reported, refused>>
      /\ UNCHANGED <<admitted, claim, handed, orphans, skipped, gateVars, faults>>
      /\ Taken /\ pc \in {"returned", "raised"}
      /\ job # 0 /\ job' = 0 /\ cur' = 0 /\ slots' = slots + 1
      /\ failed' \in {failed, failed \cup {job}}
  BY DEF WorkerDone, ownerVars, Taken
<1>1. TransactionInv' /\ GateOK' /\ Passed' = Passed
  <2>1. pc' \notin Undecided /\ UNCHANGED <<handed, startup>>
    BY <1>0 DEF Taken, Undecided, Opened, gateVars
  <2> QED
    BY <1>0, <2>1, TakenKeeps, GateStays DEF FeishuInv
<1>2. slots' \in 0..QueueLimit
  BY <1>0, SlotsOut
<1>3. TypeOK'
  <2>1. failed' \subseteq Messages
    <3>1. job \in Messages /\ failed \subseteq Messages
      BY <1>0 DEF FeishuInv, TypeOK, Messages
    <3> QED
      BY <1>0, <3>1
  <2>2. 0 \in 0..Count
    BY DEF TransactionAssumption
  <2> QED
    BY <1>0, <1>1, <1>2, <2>1, <2>2 DEF FeishuInv, TypeOK, TransactionInv
<1>4. StageOK' /\ ThreadOK' /\ OverflowIsExplicit'
  BY <1>0 DEF FeishuInv, StageOK, ThreadOK, OverflowIsExplicit
<1>5. SlotsAreAccounted'
  <2>1. PICK a \in {0, 1} : a = IF thread.at = "post" THEN 1 ELSE 0
    OBVIOUS
  <2>2. QueueLimit - slots = a + Len(callbacks) + Len(queue) + 1
    BY <1>0, <2>1 DEF FeishuInv, SlotsAreAccounted
  <2>3. QueueLimit - (slots + 1) = a + Len(callbacks) + Len(queue) + 0
    BY <2>2, SlotsOut
  <2> QED
    BY <1>0, <2>1, <2>3 DEF SlotsAreAccounted
<1>6. PipeOK'
  BY <1>0, <1>1, PipeStays DEF FeishuInv, PipeOK
<1> QED
  BY <1>1, <1>3, <1>4, <1>5, <1>6 DEF FeishuInv

(* stop() cancels the worker, which gives its slot back. *)
LEMMA StopWorkerStep ==
    ASSUME FeishuInv, FeishuAssumption, TransactionAssumption, StopWorker
    PROVE  FeishuInv'
<1>0. /\ UNCHANGED <<arrived, thread, callbacks, queue, open, drops>>
      /\ UNCHANGED <<overflow, reported, refused, failed>>
      /\ phase = "up" /\ phase' = "drain" /\ stopping' = TRUE /\ subscribed' = FALSE
      /\ Cancelled /\ job' = 0 /\ cur' = 0
      /\ slots' = IF job = 0 THEN slots ELSE slots + 1
  BY DEF StopWorker, countVars, Cancelled, Taken
<1>1. TransactionInv'
  BY <1>0, CancelledKeeps DEF FeishuInv
<1>2. slots' \in 0..QueueLimit
  BY <1>0, SlotsOut
<1>3. TypeOK'
  <2>1. {open, subscribed, stopping}' \subseteq BOOLEAN
    BY <1>0 DEF FeishuInv, TypeOK
  <2>2. 0 \in 0..Count
    BY DEF TransactionAssumption
  <2> QED
    BY <1>0, <1>1, <1>2, <2>1, <2>2 DEF FeishuInv, TypeOK, TransactionInv
<1>4. StageOK' /\ ThreadOK' /\ OverflowIsExplicit'
  BY <1>0 DEF FeishuInv, StageOK, ThreadOK, OverflowIsExplicit
<1>5. SlotsAreAccounted'
  <2>1. PICK a \in {0, 1} : a = IF thread.at = "post" THEN 1 ELSE 0
    OBVIOUS
  <2>2. PICK b \in {0, 1} : b = IF job = 0 THEN 0 ELSE 1
    OBVIOUS
  <2>3. QueueLimit - slots = a + Len(callbacks) + Len(queue) + b
    BY <2>1, <2>2 DEF FeishuInv, SlotsAreAccounted
  <2>4. slots' = slots + b
    BY <1>0, <2>2, SlotsOut
  <2>5. QueueLimit - slots' = a + Len(callbacks) + Len(queue) + 0
    BY <2>3, <2>4, SlotsOut
  <2> QED
    BY <1>0, <2>1, <2>5 DEF SlotsAreAccounted
<1>6. GateOK' /\ Passed' \subseteq Passed \cup ({job} \ {0})
  BY <1>0, CancelledOrders DEF FeishuInv, StageOK
<1>7. PipeOK'
  BY <1>0, <1>6, PipeStays
<1> QED
  BY <1>1, <1>3, <1>4, <1>5, <1>6, <1>7 DEF FeishuInv

(* stop() empties the queue, then waits for the thread. *)
LEMMA StopDrainStep ==
    ASSUME FeishuInv, FeishuAssumption, TransactionAssumption, StopDrain
    PROVE  FeishuInv'
<1>0. /\ UNCHANGED <<transactionVars, arrived, thread, callbacks, job>>
      /\ UNCHANGED <<subscribed, stopping, restarts, drops>>
      /\ UNCHANGED <<overflow, reported, refused, failed>>
      /\ phase = "drain" /\ phase' = "join" /\ open' = FALSE
      /\ queue' = <<>> /\ slots' = slots + Len(queue)
  BY DEF StopDrain, countVars
<1>1. TransactionInv' /\ GateOK' /\ Passed' = Passed
  BY <1>0, TransactionRests
<1>2. slots' \in 0..QueueLimit
  BY <1>0, SlotsOut
<1>3. TypeOK'
  <2>1. {open, subscribed, stopping}' \subseteq BOOLEAN
    BY <1>0 DEF FeishuInv, TypeOK
  <2>2. queue' \in Seq(Messages)
    BY <1>0
  <2> QED
    BY <1>0, <1>1, <1>2, <2>1, <2>2 DEF FeishuInv, TypeOK, TransactionInv
<1>4. StageOK' /\ ThreadOK' /\ OverflowIsExplicit'
  BY <1>0 DEF FeishuInv, StageOK, ThreadOK, OverflowIsExplicit, transactionVars, dispatchVars
<1>5. SlotsAreAccounted'
  <2>1. PICK a \in {0, 1} : a = IF thread.at = "post" THEN 1 ELSE 0
    OBVIOUS
  <2>2. job = 0 /\ Len(queue') = 0
    BY <1>0 DEF FeishuInv, StageOK
  <2>3. QueueLimit - slots = a + Len(callbacks) + Len(queue) + 0
    BY <2>1, <2>2 DEF FeishuInv, SlotsAreAccounted
  <2>4. QueueLimit - slots' = a + Len(callbacks) + 0 + 0
    BY <1>0, <2>3, SlotsOut
  <2> QED
    BY <1>0, <2>1, <2>2, <2>4 DEF SlotsAreAccounted
<1>6. PipeOK'
  <2>1. \A k : k \notin 1..Len(queue')
    BY <1>0
  <2>2. \A x : Precedes(x) => Precedes(x)'
    BY <1>0 DEF Precedes
  <2>3. Sorted(queue)' /\ Sorted(callbacks)'
    BY <1>0, <2>1 DEF FeishuInv, PipeOK, Sorted, transactionVars, dispatchVars
  <2> QED
    BY <1>0, <1>1, <2>1, <2>2, <2>3 DEF FeishuInv, PipeOK
<1> QED
  BY <1>1, <1>3, <1>4, <1>5, <1>6 DEF FeishuInv

LEMMA StopJoinStep ==
    ASSUME FeishuInv, TransactionAssumption, StopJoin
    PROVE  FeishuInv'
<1>0. /\ UNCHANGED <<transactionVars, arrived, thread, callbacks, slots, queue, open, job>>
      /\ UNCHANGED <<subscribed, stopping, restarts, drops>>
      /\ UNCHANGED <<overflow, reported, refused, failed>>
      /\ phase = "join" /\ phase' = "off" /\ thread = Idle /\ callbacks = <<>>
  BY DEF StopJoin, pipeVars, countVars
<1>1. TransactionInv' /\ GateOK' /\ Passed' = Passed
  BY <1>0, TransactionRests
<1>2. TypeOK'
  BY <1>0, <1>1 DEF FeishuInv, TypeOK, TransactionInv
<1>3. StageOK' /\ ThreadOK' /\ SlotsAreAccounted' /\ OverflowIsExplicit'
  BY <1>0 DEF FeishuInv, StageOK, ThreadOK, SlotsAreAccounted, OverflowIsExplicit,
              transactionVars, dispatchVars
<1>4. PipeOK'
  BY <1>0, <1>1, PipeStays DEF FeishuInv, PipeOK, transactionVars, dispatchVars
<1> QED
  BY <1>1, <1>2, <1>3, <1>4 DEF FeishuInv

(* start() makes new slots, all of them free: nothing is left in the pipe. *)
LEMMA StartStep ==
    ASSUME FeishuInv, FeishuAssumption, TransactionAssumption, Start
    PROVE  FeishuInv'
<1>0. /\ UNCHANGED <<pc, cur, handed, startup, arrived, thread, callbacks, queue, job>>
      /\ UNCHANGED <<restarts, drops>> /\ subscribed' = TRUE /\ OpenGate
      /\ UNCHANGED <<overflow, reported, refused, failed>>
      /\ phase = "off" /\ phase' = "up" /\ open' = TRUE /\ stopping' = FALSE
      /\ slots' = QueueLimit
  BY DEF Start, countVars, OpenGate
<1>1. TransactionInv' /\ GateOK' /\ Passed' = Passed
  BY <1>0, GateKeeps, GateStays DEF FeishuInv
<1>2. TypeOK'
  <2>1. {open, subscribed, stopping}' \subseteq BOOLEAN
    BY <1>0 DEF FeishuInv, TypeOK
  <2>2. slots' \in 0..QueueLimit
    BY <1>0 DEF FeishuAssumption
  <2> QED
    BY <1>0, <1>1, <2>1, <2>2 DEF FeishuInv, TypeOK, TransactionInv
<1>3. job = 0 /\ thread.at = "idle" /\ Len(callbacks) = 0 /\ Len(queue) = 0
  BY <1>0 DEF FeishuInv, StageOK, Idle
<1>4. SlotsAreAccounted'
  BY <1>0, <1>3 DEF SlotsAreAccounted, FeishuAssumption
<1>5. StageOK' /\ ThreadOK' /\ OverflowIsExplicit'
  BY <1>0 DEF FeishuInv, StageOK, ThreadOK, OverflowIsExplicit, transactionVars, dispatchVars
<1>6. PipeOK'
  BY <1>0, <1>1, PipeStays DEF FeishuInv, PipeOK, transactionVars, dispatchVars
<1> QED
  BY <1>1, <1>2, <1>4, <1>5, <1>6 DEF FeishuInv

LEMMA FeishuStutters ==
    ASSUME FeishuInv, TransactionAssumption, UNCHANGED vars
    PROVE  FeishuInv'
<1>0. /\ UNCHANGED <<transactionVars, arrived, thread, callbacks, slots, queue, open, job>>
      /\ UNCHANGED <<subscribed, stopping, phase, restarts, drops>>
      /\ UNCHANGED <<overflow, reported, refused, failed>>
  BY DEF vars, pipeVars, ownerVars, countVars
<1>1. TransactionInv' /\ GateOK' /\ Passed' = Passed
  BY <1>0, TransactionRests
<1>2. TypeOK'
  BY <1>0, <1>1 DEF FeishuInv, TypeOK, TransactionInv
<1>3. StageOK' /\ ThreadOK' /\ SlotsAreAccounted' /\ OverflowIsExplicit'
  BY <1>0 DEF FeishuInv, StageOK, ThreadOK, SlotsAreAccounted, OverflowIsExplicit,
              transactionVars, dispatchVars
<1>4. PipeOK'
  BY <1>0, <1>1, PipeStays DEF FeishuInv, PipeOK, transactionVars, dispatchVars
<1> QED
  BY <1>1, <1>2, <1>3, <1>4 DEF FeishuInv

-----------------------------------------------------------------------------
LEMMA InitFeishu ==
    ASSUME TransactionAssumption, FeishuAssumption, Init
    PROVE  FeishuInv
<1>1. TransactionInv
  BY InitTransaction DEF Init
<1>2. /\ handed = <<>> /\ startup = <<>> /\ pc = "idle" /\ cur = 0 /\ arrived = 0 /\ job = 0 /\ phase = "up"
      /\ thread = Idle /\ callbacks = <<>> /\ queue = <<>> /\ slots = QueueLimit
      /\ open = TRUE /\ subscribed = TRUE /\ stopping = FALSE
      /\ overflow = 0 /\ reported = 0 /\ refused = {} /\ failed = {}
  BY DEF Init, TransactionInit
<1>3. TypeOK
  <2>1. callbacks \in Seq(Messages) /\ queue \in Seq(Messages)
    BY <1>2
  <2>2. 0 \in 0..Count /\ slots \in 0..QueueLimit
    BY <1>2 DEF TransactionAssumption, FeishuAssumption
  <2>3. thread \in [at : {"idle", "slot", "post"}, message : 0..Count]
    BY <1>2, <2>2 DEF Idle
  <2>4. {open, subscribed, stopping} \subseteq BOOLEAN
    BY <1>2
  <2> QED
    BY <1>1, <1>2, <2>1, <2>2, <2>3, <2>4 DEF TypeOK, TransactionInv
<1>4. StageOK /\ ThreadOK
  BY <1>2 DEF StageOK, ThreadOK, Idle
<1>5. SlotsAreAccounted
  <2>1. thread.at = "idle" /\ Len(callbacks) = 0 /\ Len(queue) = 0
    BY <1>2 DEF Idle
  <2> QED
    BY <1>2, <2>1 DEF SlotsAreAccounted, FeishuAssumption
<1>6. OverflowIsExplicit
  BY <1>2, FS_EmptySet DEF OverflowIsExplicit
<1>7. GateOK /\ PipeOK
  <2>1. /\ \A k : k \notin 1..Len(queue) /\ k \notin 1..Len(callbacks)
        /\ \A k : k \notin 1..Len(handed) /\ k \notin 1..Len(startup)
    BY <1>2
  <2>2. Handed = {} /\ Passed = {} /\ startup \in Seq(Messages)
    BY <1>2 DEF Passed, Handed, Waiting
  <2>3. GateOK
    BY <1>2, <2>1, <2>2 DEF GateOK, Sorted, Undecided, Opened
  <2> QED
    BY <1>2, <2>1, <2>2, <2>3 DEF PipeOK, Sorted
<1> QED
  BY <1>1, <1>3, <1>4, <1>5, <1>6, <1>7 DEF FeishuInv

LEMMA NextFeishu ==
    ASSUME TransactionAssumption, FeishuAssumption, FeishuInv, [Next]_vars
    PROVE  FeishuInv'
<1>1. CASE ConnectSdk \/ DetachSdk
  BY <1>1, ConnectionStep
<1>2. CASE QueueInbound
  BY <1>2, QueueStep
<1>3. CASE TakeSlot
  BY <1>3, SlotStep
<1>4. CASE Post
  BY <1>4, PostStep
<1>5. CASE EnqueueInbound
  BY <1>5, EnqueueStep
<1>6. CASE WorkerGet
  BY <1>6, GetStep
<1>7. CASE Dispatcher
  BY <1>7, DispatcherStep
<1>8. CASE WorkerDone
  BY <1>8, DoneStep
<1>9. CASE StopWorker
  BY <1>9, StopWorkerStep
<1>10. CASE StopDrain
  BY <1>10, StopDrainStep
<1>11. CASE StopJoin
  BY <1>11, StopJoinStep
<1>12. CASE Start
  BY <1>12, StartStep
<1>13. CASE GatewayRuns \/ GatewayCloses
  BY <1>13, GatewayMoves
<1>14. CASE UNCHANGED vars
  BY <1>14, FeishuStutters
<1> QED
  BY <1>1, <1>2, <1>3, <1>4, <1>5, <1>6, <1>7, <1>8, <1>9, <1>10, <1>11, <1>12, <1>13, <1>14
  DEF Next, Work

(* In every behaviour of the Feishu Channel, whatever the number of messages  *)
(* and of slots: each slot of _inbound_slots that is out is with the SDK      *)
(* thread, a callback of the loop, the queue or the worker, every message     *)
(* without a slot is counted in _overflow_count or reported, and messages are *)
(* handed to the Gateway in the order of arrival, those that waited in its    *)
(* startup FIFO included.                                                     *)
THEOREM SlotsStayAccounted ==
    ASSUME TransactionAssumption, FeishuAssumption
    PROVE  Spec => []InboundIsAccounted
<1>1. Init => FeishuInv
  BY InitFeishu
<1>2. FeishuInv /\ [Next]_vars => FeishuInv'
  BY NextFeishu
<1>3. FeishuInv => TypeOK /\ SlotsAreAccounted /\ OverflowIsExplicit /\ HandedInOrder
  <2> SUFFICES ASSUME FeishuInv PROVE HandedInOrder
    BY DEF FeishuInv
  <2>1. handed \in Seq(Messages) /\ Sorted(handed)
    BY DEF FeishuInv, GateOK, TransactionInv, TransactionTypeOK
  <2>2. \A i, j \in 1..Len(handed) : i < j => ~(handed[j] < handed[i])
    <3>1. \A i \in 1..Len(handed) : handed[i] \in Messages
      BY <2>1
    <3>2. \A a, b \in Messages : a < b => ~(b < a)
      BY DEF Messages
    <3> QED
      BY <2>1, <3>1, <3>2 DEF Sorted
  <2>3. DOMAIN handed = 1..Len(handed)
    BY <2>1
  <2> QED
    BY <2>2, <2>3 DEF HandedInOrder
<1> QED
  BY <1>1, <1>2, <1>3, PTL DEF Spec, InboundIsAccounted

=============================================================================

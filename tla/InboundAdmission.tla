-------------------------- MODULE InboundAdmission --------------------------
(***************************************************************************)
(* The way of an inbound message through the Gateway: the Channel delivers *)
(* it, once or again (admission.py), its idempotency claim is acquired     *)
(* (persistence/idempotency.py, persistence/sqlite.py), it waits in the    *)
(* startup FIFO (lifecycle.py) and for its Conversation (concurrency.py),  *)
(* is fenced and sent to the Application (orchestration.py), and is        *)
(* completed, released or kept (input/failure_presentation.py).            *)
(*                                                                         *)
(* A delivery is one callback of a Channel; it draws its own owner token,  *)
(* so the delivery stands for the token. A process is the epoch of its     *)
(* lease. Every store call runs under the fence of the lease and may fail  *)
(* with or without having taken effect.                                    *)
(***************************************************************************)
EXTENDS Integers, Sequences

CONSTANTS
    Messages,       \* native messages
    Conversations,  \* IM Conversations
    ConversationOf, \* [Messages -> Conversations]
    Deliveries,     \* deliveries and redeliveries by a Channel
    Nobody,         \* no delivery
    Faults,         \* how a call can fail although the fence holds
    Presenter,      \* a failure presenter is configured
    MaxPending,     \* startup_buffer_max_pending
    MaxEpoch        \* bound on the number of processes

ASSUME InboundAssumption ==
    /\ ConversationOf \in [Messages -> Conversations]
    /\ Messages # {}
    /\ Nobody \notin Deliveries
    /\ Faults \subseteq {"cancel", "error"}
    /\ Presenter \in BOOLEAN
    /\ MaxPending \in Nat \ {0}
    /\ MaxEpoch \in Nat

Processes == 1..MaxEpoch

VARIABLES
    status,   \* [Messages -> status of the idempotency record]
    owner,    \* [Messages -> owner token of the record]
    epoch,    \* processes started so far
    lease,    \* process whose lease is live, or 0
    phase,    \* [Processes -> lifecycle phase]
    fifo,     \* [Processes -> startup FIFO]
    overflow, \* [Processes -> the startup FIFO has overflowed]
    draining, \* [Processes -> delivery the drain loop is handling]
    locks,    \* [Processes -> [Conversations -> holder and waiters]]
    pc,       \* [Deliveries -> place in the code]
    msg,      \* [Deliveries -> message delivered]
    home,     \* [Deliveries -> process delivered to]
    why,      \* [Deliveries -> how processing ended]
    told,     \* [Deliveries -> notice presented to the Conversation]
    sends,    \* [Messages -> how often the message was sent]
    verdict,  \* [Messages -> what the Application did with it]
    arrivals, \* history: deliveries in the order of their handoff
    turned,   \* history: deliveries turned away at the handoff
    faulty    \* history: deliveries with a failed store call

recordVars   == <<status, owner>>
leaseVars    == <<epoch, lease>>
startupVars  == <<phase, fifo, overflow, draining>>
deliveryVars == <<pc, msg, home, why, told>>
nativeVars   == <<sends, verdict>>
historyVars  == <<arrivals, turned, faulty>>
vars == <<recordVars, leaseVars, startupVars, locks, deliveryVars, nativeVars,
          historyVars>>

Statuses == {"none", "in_flight", "started", "completed"}
Phases   == {"off", "boot", "drain", "running", "stopping", "rollback", "closed"}
Ended    == {"returned", "raised", "dead"}
PCs      == Ended \cup {"idle", "claim", "admitted", "refresh", "release", "queued",
                        "lock", "prepare", "mark", "send", "sent", "complete",
                        "notify"}
Reasons  == {"none", "ok", "pre", "post", "rejected", "unknown"}
Verdicts == {"none", "pending", "accepted", "refused"}

TypeOK ==
    /\ status \in [Messages -> Statuses]
    /\ owner \in [Messages -> Deliveries \cup {Nobody}]
    /\ epoch \in 0..MaxEpoch
    /\ lease \in 0..epoch
    /\ phase \in [Processes -> Phases]
    /\ fifo \in [Processes -> Seq(Deliveries)]
    /\ \A e \in Processes : Len(fifo[e]) <= MaxPending
    /\ overflow \in [Processes -> BOOLEAN]
    /\ draining \in [Processes -> Deliveries \cup {Nobody}]
    /\ locks \in [Processes -> [Conversations -> Seq(Deliveries)]]
    /\ pc \in [Deliveries -> PCs]
    /\ msg \in [Deliveries -> Messages]
    /\ home \in [Deliveries -> 0..MaxEpoch]
    /\ why \in [Deliveries -> Reasons]
    /\ told \in [Deliveries -> Reasons]
    /\ sends \in [Messages -> Nat]
    /\ verdict \in [Messages -> Verdicts]
    /\ arrivals \in Seq(Deliveries)
    /\ turned \subseteq Deliveries
    /\ faulty \subseteq Deliveries

Init ==
    /\ status = [m \in Messages |-> "none"]
    /\ owner = [m \in Messages |-> Nobody]
    /\ epoch = 0
    /\ lease = 0
    /\ phase = [e \in Processes |-> "off"]
    /\ fifo = [e \in Processes |-> <<>>]
    /\ overflow = [e \in Processes |-> FALSE]
    /\ draining = [e \in Processes |-> Nobody]
    /\ locks = [e \in Processes |-> [c \in Conversations |-> <<>>]]
    /\ pc = [d \in Deliveries |-> "idle"]
    /\ msg = [d \in Deliveries |-> CHOOSE m \in Messages : TRUE]
    /\ home = [d \in Deliveries |-> 0]
    /\ why = [d \in Deliveries |-> "none"]
    /\ told = [d \in Deliveries |-> "none"]
    /\ sends = [m \in Messages |-> 0]
    /\ verdict = [m \in Messages |-> "none"]
    /\ arrivals = <<>>
    /\ turned = {}
    /\ faulty = {}

-----------------------------------------------------------------------------
At(d, p)     == pc[d] = p
Goto(d, p)   == pc' = [pc EXCEPT ![d] = p]
Lock(d)      == locks[home[d]][ConversationOf[msg[d]]]
Accepts(e)   == phase[e] \in {"boot", "drain", "running"}  \* _accepting_inbound
Starting(e)  == phase[e] \in {"boot", "drain"}             \* _starting

(* The store call of a delivery is let through by the fence. *)
Holds(d) == lease = home[d]

(* The store call of a delivery may fail without having taken effect. *)
MayFail(d) == ~Holds(d) \/ Faults # {}

(* The record is an ordinary claim of this delivery. *)
Owns(d) == status[msg[d]] = "in_flight" /\ owner[msg[d]] = d

SetRecord(m, s, d) ==
    /\ status' = [status EXCEPT ![m] = s]
    /\ owner' = [owner EXCEPT ![m] = d]

(* The queue after the one entry of a delivery left it. *)
Without(s, d) ==
    LET i == CHOOSE i \in 1..Len(s) : s[i] = d
    IN  [j \in 1..(Len(s) - 1) |-> IF j < i THEN s[j] ELSE s[j + 1]]

SetLock(d, s) ==
    locks' = [locks EXCEPT ![home[d]][ConversationOf[msg[d]]] = s]

(* KeyedLockRegistry.hold: waiters are served in the order they came, and
   one that is cancelled leaves the queue. *)
JoinLock(d)  == SetLock(d, Append(Lock(d), d))
LeaveLock(d) == SetLock(d, Without(Lock(d), d))

-----------------------------------------------------------------------------
(* Channel callback: _begin_inbound, InboundAdmissionService.begin. *)

Present(d, m, e) ==
    /\ At(d, "idle")
    /\ Accepts(e)
    /\ Goto(d, "claim")
    /\ msg' = [msg EXCEPT ![d] = m]
    /\ home' = [home EXCEPT ![d] = e]
    /\ UNCHANGED <<recordVars, leaseVars, startupVars, locks, why, told,
                   nativeVars, historyVars>>

(* Mutant of Claimable: a fenced record grows stale like any other. *)
ClaimableUnlessCompleted(m) == status[m] # "completed"

(* A record that can be claimed: none, or an ordinary claim whose last
   refresh is older than stale_claim_after_seconds, which no later step of
   its owner prevents. *)
Claimable(m) == status[m] \in {"none", "in_flight"}

Claim(d) ==
    /\ At(d, "claim")
    /\ \/ /\ Holds(d)
          /\ Claimable(msg[d])
          /\ SetRecord(msg[d], "in_flight", d)
          /\ \/ /\ Goto(d, IF Accepts(home[d]) THEN "admitted" ELSE "release")
                /\ UNCHANGED faulty
             \/ /\ Faults # {}
                /\ Goto(d, "raised")
                /\ faulty' = faulty \cup {d}
       \/ /\ Holds(d)
          /\ status[msg[d]] # "none"
          /\ Goto(d, "returned")
          /\ UNCHANGED <<recordVars, faulty>>
       \/ /\ MayFail(d)
          /\ Goto(d, "raised")
          /\ UNCHANGED <<recordVars, faulty>>
    /\ UNCHANGED <<leaseVars, startupVars, locks, msg, home, why, told,
                   nativeVars, arrivals, turned>>

(* The Channel prepares the message and delivers it, or gives it up. *)
PrepareMedia(d) ==
    /\ At(d, "admitted")
    /\ Goto(d, "refresh") \/ Goto(d, "release")
    /\ UNCHANGED <<recordVars, leaseVars, startupVars, locks, msg, home, why,
                   told, nativeVars, historyVars>>

(* Mutant of Admit: the overflow is not remembered. *)
AdmitForgetsOverflow(d) ==
    LET e == home[d] IN
    \/ /\ Len(fifo[e]) < MaxPending
       /\ fifo' = [fifo EXCEPT ![e] = Append(@, d)]
       /\ Goto(d, "queued")
       /\ UNCHANGED <<overflow, turned>>
    \/ /\ Len(fifo[e]) >= MaxPending
       /\ Goto(d, "release")
       /\ turned' = turned \cup {d}
       /\ UNCHANGED <<fifo, overflow>>

(* GatewayStartupAdmission.admit: bounded, and the overflow is sticky. *)
Admit(d) ==
    LET e    == home[d]
        full == overflow[e] \/ Len(fifo[e]) >= MaxPending
    IN
    \/ /\ ~full
       /\ fifo' = [fifo EXCEPT ![e] = Append(@, d)]
       /\ Goto(d, "queued")
       /\ UNCHANGED <<overflow, turned>>
    \/ /\ full
       /\ overflow' = [overflow EXCEPT ![e] = TRUE]
       /\ Goto(d, "release")
       /\ turned' = turned \cup {d}
       /\ UNCHANGED fifo

(* _handle_claimed_message_entry, without an await after the refresh. *)
Handoff(d) ==
    /\ arrivals' = Append(arrivals, d)
    /\ \/ /\ ~Accepts(home[d])
          /\ Goto(d, "release")
          /\ turned' = turned \cup {d}
          /\ UNCHANGED <<startupVars, locks>>
       \/ /\ Starting(home[d])
          /\ Admit(d)
          /\ UNCHANGED <<phase, draining, locks>>
       \/ /\ phase[home[d]] = "running"
          /\ JoinLock(d)
          /\ Goto(d, "lock")
          /\ UNCHANGED <<startupVars, turned>>

(* _InboundAdmissionLease.deliver: the claim is refreshed, then handed over. *)
Deliver(d) ==
    /\ At(d, "refresh")
    /\ \/ Holds(d) /\ Owns(d) /\ Handoff(d)
       \/ /\ ~Owns(d) \/ MayFail(d)
          /\ Goto(d, "release")
          /\ UNCHANGED <<startupVars, locks, arrivals, turned>>
    /\ UNCHANGED <<recordVars, leaseVars, msg, home, why, told, nativeVars, faulty>>

(* IdempotencyRepository.release: only by its owner, and it would also
   remove a fenced record. How the caller ends matters to the drain loop
   alone, which an exception reaches after every release. *)
FreeRecord(d) ==
    \/ /\ status[msg[d]] \in {"in_flight", "started"}
       /\ owner[msg[d]] = d
       /\ SetRecord(msg[d], "none", Nobody)
    \/ /\ ~(status[msg[d]] \in {"in_flight", "started"} /\ owner[msg[d]] = d)
       /\ UNCHANGED recordVars

Release(d) ==
    /\ At(d, "release")
    /\ Goto(d, "raised")
    /\ \/ Holds(d) /\ FreeRecord(d) /\ UNCHANGED faulty
       \/ MayFail(d) /\ faulty' = faulty \cup {d} /\ UNCHANGED recordVars
    /\ UNCHANGED <<leaseVars, startupVars, locks, msg, home, why, told,
                   nativeVars, arrivals, turned>>

-----------------------------------------------------------------------------
(* Startup and shutdown of one process. *)

StartProcess ==
    /\ lease = 0
    /\ epoch < MaxEpoch
    /\ epoch' = epoch + 1
    /\ lease' = epoch + 1
    /\ phase' = [phase EXCEPT ![epoch + 1] = "boot"]
    /\ UNCHANGED <<recordVars, fifo, overflow, draining, locks, deliveryVars,
                   nativeVars, historyVars>>

LeaseExpires ==
    /\ lease # 0
    /\ lease' = 0
    /\ UNCHANGED <<recordVars, epoch, startupVars, locks, deliveryVars,
                   nativeVars, historyVars>>

(* An owner fails to start, or the startup task is cancelled. *)
StartupFails(e) ==
    /\ phase[e] = "boot"
    /\ phase' = [phase EXCEPT ![e] = "rollback"]
    /\ UNCHANGED <<recordVars, leaseVars, fifo, overflow, draining, locks,
                   deliveryVars, nativeVars, historyVars>>

EntryEnded(e)  == draining[e] # Nobody => pc[draining[e]] \in Ended
EntryRaised(e) == draining[e] # Nobody /\ pc[draining[e]] = "raised"

(* Mutant of DrainLoop: inbound goes live and the FIFO is forgotten. *)
GoLiveWithoutDraining(e) ==
    /\ Starting(e)
    /\ phase' = [phase EXCEPT ![e] = "running"]
    /\ UNCHANGED <<recordVars, leaseVars, fifo, overflow, draining, locks,
                   deliveryVars, nativeVars, historyVars>>

(* The drain loop at the end of start: one entry after the other, in order,
   and inbound goes live in the step that finds the FIFO empty. *)
DrainLoop(e) ==
    /\ Starting(e)
    /\ EntryEnded(e)
    /\ \/ /\ overflow[e] \/ EntryRaised(e)
          /\ phase' = [phase EXCEPT ![e] = "rollback"]
          /\ UNCHANGED <<fifo, draining, locks, pc>>
       \/ /\ ~overflow[e] /\ ~EntryRaised(e)
          /\ fifo[e] # <<>>
          /\ phase' = [phase EXCEPT ![e] = "drain"]
          /\ draining' = [draining EXCEPT ![e] = Head(fifo[e])]
          /\ fifo' = [fifo EXCEPT ![e] = Tail(@)]
          /\ JoinLock(Head(fifo[e]))
          /\ Goto(Head(fifo[e]), "lock")
       \/ /\ ~overflow[e] /\ ~EntryRaised(e)
          /\ fifo[e] = <<>>
          /\ phase' = [phase EXCEPT ![e] = "running"]
          /\ draining' = [draining EXCEPT ![e] = Nobody]
          /\ UNCHANGED <<fifo, locks, pc>>
    /\ UNCHANGED <<recordVars, leaseVars, overflow, msg, home, why, told,
                   nativeVars, historyVars>>

(* Mutant of Rollback: the FIFO is cleared without releasing its claims. *)
RollbackClears(e) ==
    /\ phase[e] = "rollback"
    /\ fifo[e] # <<>>
    /\ fifo' = [fifo EXCEPT ![e] = Tail(@)]
    /\ Goto(Head(fifo[e]), "returned")
    /\ UNCHANGED <<recordVars, leaseVars, phase, overflow, draining, locks, msg,
                   home, why, told, nativeVars, historyVars>>

(* The failed start releases the claims that wait in the FIFO. *)
Rollback(e) ==
    LET d == Head(fifo[e]) IN
    /\ phase[e] = "rollback"
    /\ fifo[e] # <<>>
    /\ fifo' = [fifo EXCEPT ![e] = Tail(@)]
    /\ Goto(d, "returned")
    /\ \/ Holds(d) /\ FreeRecord(d) /\ UNCHANGED faulty
       \/ MayFail(d) /\ faulty' = faulty \cup {d} /\ UNCHANGED recordVars
    /\ UNCHANGED <<leaseVars, phase, overflow, draining, locks, msg, home, why,
                   told, nativeVars, arrivals, turned>>

Stop(e) ==
    /\ phase[e] = "running"
    /\ phase' = [phase EXCEPT ![e] = "stopping"]
    /\ UNCHANGED <<recordVars, leaseVars, fifo, overflow, draining, locks,
                   deliveryVars, nativeVars, historyVars>>

(* _close_owned_resources: the session is closed and the lease released.
   Tasks that outlive it are refused by the store. *)
Close(e) ==
    /\ phase[e] = "stopping" \/ (phase[e] = "rollback" /\ fifo[e] = <<>>)
    /\ phase' = [phase EXCEPT ![e] = "closed"]
    /\ lease' = IF lease = e THEN 0 ELSE lease
    /\ UNCHANGED <<recordVars, epoch, fifo, overflow, draining, locks,
                   deliveryVars, nativeVars, historyVars>>

(* The process dies; its lease stays until it expires. *)
Crash(e) ==
    /\ phase[e] # "off"
    /\ \/ phase[e] # "closed"
       \/ \E d \in Deliveries : home[d] = e /\ pc[d] \notin Ended
    /\ phase' = [phase EXCEPT ![e] = "closed"]
    /\ fifo' = [fifo EXCEPT ![e] = <<>>]
    /\ locks' = [locks EXCEPT ![e] = [c \in Conversations |-> <<>>]]
    /\ pc' = [d \in Deliveries |->
          IF home[d] = e /\ pc[d] \notin Ended THEN "dead" ELSE pc[d]]
    /\ UNCHANGED <<recordVars, leaseVars, overflow, draining, msg, home, why,
                   told, nativeVars, historyVars>>

-----------------------------------------------------------------------------
(* Processing of one claimed message: handle_claimed_inbound around
   _process_message. *)

(* Before the effect fence: a cancelled delivery gives its claim back, a
   failed one too unless there is a presenter to say so. *)
FailBefore(d, err) ==
    /\ LeaveLock(d)
    /\ \/ /\ err = "error" /\ Presenter
          /\ Goto(d, "complete")
          /\ why' = [why EXCEPT ![d] = "pre"]
       \/ /\ err = "cancel" \/ ~Presenter
          /\ Goto(d, "release")
          /\ UNCHANGED why

(* After the effect fence the claim is kept, whatever happened. *)
FailAfter(d, err) ==
    /\ LeaveLock(d)
    /\ \/ /\ err = "error" /\ Presenter
          /\ Goto(d, "notify")
          /\ why' = [why EXCEPT ![d] = "unknown"]
       \/ /\ err = "cancel" \/ ~Presenter
          /\ Goto(d, "raised")
          /\ UNCHANGED why

(* Waiting for the Conversation, then refreshing the claim. *)
AwaitConversation(d) ==
    /\ At(d, "lock")
    /\ \/ /\ Head(Lock(d)) = d
          /\ Holds(d) /\ Owns(d)
          /\ Goto(d, "prepare")
          /\ UNCHANGED <<locks, why>>
       \/ /\ Head(Lock(d)) = d
          /\ ~Holds(d) \/ ~Owns(d)
          /\ FailBefore(d, "error")
       \/ /\ Head(Lock(d)) = d
          /\ \E err \in Faults : FailBefore(d, err)
       \/ /\ "cancel" \in Faults
          /\ FailBefore(d, "cancel")
    /\ UNCHANGED <<recordVars, leaseVars, startupVars, msg, home, told,
                   nativeVars, historyVars>>

(* The Controller, the binding, its preflight, the content transform and
   the route: the message may be consumed here without an effect, fail, or
   go on to the effect fence. *)
PrepareInput(d) ==
    /\ At(d, "prepare")
    /\ \/ Goto(d, "mark") /\ UNCHANGED <<locks, why>>
       \/ /\ LeaveLock(d)
          /\ Goto(d, "complete")
          /\ why' = [why EXCEPT ![d] = "ok"]
       \/ \E err \in {"error"} \cup Faults : FailBefore(d, err)
    /\ UNCHANGED <<recordVars, leaseVars, startupVars, msg, home, told,
                   nativeVars, historyVars>>

(* InboundEffectFence: entered before the record is marked, so an error or a
   cancellation of the call is treated as if it had been. *)
EnterFence(d) ==
    /\ At(d, "mark")
    /\ \/ /\ Holds(d) /\ Owns(d)
          /\ SetRecord(msg[d], "started", d)
          /\ \/ Goto(d, "send") /\ UNCHANGED <<locks, why>>
             \/ \E err \in Faults : FailAfter(d, err)
          /\ UNCHANGED faulty
       \/ /\ ~Owns(d) \/ ~Holds(d)
          /\ FailAfter(d, "error")
          /\ faulty' = faulty \cup {d}
          /\ UNCHANGED recordVars
       \/ /\ \E err \in Faults : FailAfter(d, err)
          /\ faulty' = faulty \cup {d}
          /\ UNCHANGED recordVars
    /\ UNCHANGED <<leaseVars, startupVars, msg, home, told, nativeVars,
                   arrivals, turned>>

(* The input leaves for the Application, or the adapter gives up first. *)
SendInput(d) ==
    /\ At(d, "send")
    /\ \/ /\ sends' = [sends EXCEPT ![msg[d]] = @ + 1]
          /\ verdict' = [verdict EXCEPT ![msg[d]] = IF @ = "none" THEN "pending" ELSE @]
          /\ Goto(d, "sent")
          /\ UNCHANGED <<locks, why>>
       \/ /\ \E err \in {"error"} \cup Faults : FailAfter(d, err)
          /\ UNCHANGED nativeVars
    /\ UNCHANGED <<recordVars, leaseVars, startupVars, msg, home, told, historyVars>>

(* The Application takes or refuses an input that reached it. *)
ApplicationDecides(m) ==
    /\ verdict[m] = "pending"
    /\ \E v \in {"accepted", "refused"} : verdict' = [verdict EXCEPT ![m] = v]
    /\ UNCHANGED <<recordVars, leaseVars, startupVars, locks, deliveryVars,
                   sends, historyVars>>

(* The acceptance arrives (correlating it may still fail), or the refusal,
   or nothing is known of what became of the input. *)
ReceiveAnswer(d) ==
    /\ At(d, "sent")
    /\ \/ /\ \/ /\ verdict[msg[d]] = "accepted"
                /\ \E r \in {"ok", "post"} : why' = [why EXCEPT ![d] = r]
             \/ /\ verdict[msg[d]] = "refused"
                /\ why' = [why EXCEPT ![d] = "rejected"]
          /\ LeaveLock(d)
          /\ Goto(d, "complete")
       \/ \E err \in {"error"} \cup Faults : FailAfter(d, err)
    /\ UNCHANGED <<recordVars, leaseVars, startupVars, msg, home, told,
                   nativeVars, historyVars>>

(* Mutant of MayComplete: the owner token is not compared. *)
AnyoneCompletes(d) == status[msg[d]] # "none"

(* IdempotencyRepository.complete: the owner, in whatever status. *)
MayComplete(d) == owner[msg[d]] = d

(* handle_claimed_inbound completes the record before any notice. *)
Complete(d) ==
    /\ At(d, "complete")
    /\ \/ /\ Holds(d) /\ MayComplete(d)
          /\ status' = [status EXCEPT ![msg[d]] = "completed"]
          /\ UNCHANGED faulty
          /\ \/ Goto(d, IF why[d] = "ok" THEN "returned"
                        ELSE IF Presenter THEN "notify" ELSE "raised")
             \/ Faults # {} /\ Goto(d, "raised")
       \/ /\ Holds(d) /\ ~MayComplete(d)
          /\ Goto(d, "raised")
          /\ UNCHANGED <<status, faulty>>
       \/ /\ MayFail(d)
          /\ Goto(d, "raised")
          /\ faulty' = faulty \cup {d}
          /\ UNCHANGED status
    /\ UNCHANGED <<owner, leaseVars, startupVars, locks, msg, home, why, told,
                   nativeVars, arrivals, turned>>

(* _present_failure; the presenter or the delivery of its text may fail. *)
PresentFailure(d) ==
    /\ At(d, "notify")
    /\ \/ Goto(d, "returned") /\ told' = [told EXCEPT ![d] = why[d]]
       \/ Goto(d, "raised") /\ UNCHANGED told
    /\ UNCHANGED <<recordVars, leaseVars, startupVars, locks, msg, home, why,
                   nativeVars, historyVars>>

-----------------------------------------------------------------------------
DeliveryStep(d) ==
    \/ Claim(d)
    \/ PrepareMedia(d)
    \/ Deliver(d)
    \/ Release(d)
    \/ AwaitConversation(d)
    \/ PrepareInput(d)
    \/ EnterFence(d)
    \/ SendInput(d)
    \/ ReceiveAnswer(d)
    \/ Complete(d)
    \/ PresentFailure(d)

LifecycleStep(e) ==
    \/ StartupFails(e)
    \/ DrainLoop(e)
    \/ Rollback(e)
    \/ Stop(e)
    \/ Close(e)
    \/ Crash(e)

Next ==
    \/ StartProcess
    \/ LeaseExpires
    \/ \E e \in Processes : LifecycleStep(e)
    \/ \E d \in Deliveries, m \in Messages, e \in Processes : Present(d, m, e)
    \/ \E d \in Deliveries : DeliveryStep(d)
    \/ \E m \in Messages : ApplicationDecides(m)

Spec == Init /\ [][Next]_vars

-----------------------------------------------------------------------------
(* A message is sent to its Application at most once: not again by a
   redelivery, by the taker of a stale claim, by the next process, or by a
   task that outlived its lease (the fence of EnterFence). *)
AtMostOneSend == \A m \in Messages : sends[m] <= 1

(* Why: a record with a claim belongs to the delivery of its message that
   took it; a fenced record belongs to one that is past its fence, so that
   nobody else can fence it or give it back; a delivery about to send owns
   a fenced record of a message that was not sent; and an entry of a
   startup FIFO is there once and still before its fence. *)
PastFence == Ended \cup {"send", "sent", "complete", "notify"}

Owners ==
    \A m \in Messages :
        \/ status[m] = "none" /\ owner[m] = Nobody
        \/ /\ status[m] # "none"
           /\ owner[m] \in Deliveries
           /\ msg[owner[m]] = m
           /\ pc[owner[m]] \notin {"idle", "claim"}
           /\ status[m] = "started" => pc[owner[m]] \in PastFence

Senders ==
    \A d \in Deliveries : At(d, "send") =>
        /\ status[msg[d]] = "started"
        /\ owner[msg[d]] = d
        /\ sends[msg[d]] = 0

Entries ==
    \A e \in Processes : \A i \in 1..Len(fifo[e]) :
        /\ At(fifo[e][i], "queued")
        /\ home[fifo[e][i]] = e
        /\ \A j \in 1..Len(fifo[e]) : fifo[e][i] = fifo[e][j] => i = j

SendInv ==
    /\ Owners
    /\ Senders
    /\ Entries
    /\ \A m \in Messages : sends[m] > 0 => status[m] \in {"started", "completed"}
    /\ AtMostOneSend

(* What a user is told of a failure is true, and stays true: a message said
   not to have reached the Application never does, one said to be refused
   was refused, one said to be accepted was (handle_claimed_inbound). *)
NoticesAreTrue ==
    \A d \in Deliveries :
        /\ told[d] = "pre" => sends[msg[d]] = 0
        /\ told[d] = "rejected" => verdict[msg[d]] = "refused"
        /\ told[d] = "post" => verdict[msg[d]] = "accepted"

(* A completed record is never one whose outcome is open: it is a message
   that was decided, or that never left. *)
CompletedIsDecided ==
    \A m \in Messages : status[m] = "completed" =>
        sends[m] = 0 \/ verdict[m] \in {"accepted", "refused"}

BeforeSend == {"queued", "lock", "prepare", "mark", "send"}

(* Messages of one Conversation are sent in the order a process took them
   over, across the startup FIFO, its drain and live handling; and none is
   sent after an earlier one was turned away (sticky overflow). *)
InOrder ==
    \A i, j \in DOMAIN arrivals :
        LET d == arrivals[i]
            f == arrivals[j]
        IN  /\ i < j
            /\ home[d] = home[f]
            /\ ConversationOf[msg[d]] = ConversationOf[msg[f]]
            /\ At(f, "sent")
            => pc[d] \notin BeforeSend /\ d \notin turned

(* A claim does not outlive its delivery, so a redelivery is not refused
   for a message nobody is handling, unless the store failed the delivery
   or its process died. *)
ClaimsAreReturned ==
    \A d \in Deliveries :
        pc[d] \in Ended \ {"dead"} /\ Owns(d) => d \in faulty

(* What an ended delivery leaves is settled: its claim was given back unless
   the store failed it, and a completed record is a decided message or one
   that never left (release, complete and their error paths). *)
ClaimsAreSettled == ClaimsAreReturned /\ CompletedIsDecided

(* A fenced record is never opened again: it stays, or is completed. *)
FencedStaysFenced ==
    [][\A m \in Messages :
         status[m] \in {"started", "completed"} =>
            /\ owner'[m] = owner[m]
            /\ status'[m] \in {status[m], "completed"}]_vars

(* Every delivery ends, or dies with its process: none is forgotten in the
   startup FIFO or behind its Conversation. *)
DeliveriesEnd ==
    \A d \in Deliveries : pc[d] # "idle" ~> pc[d] \in Ended

=============================================================================

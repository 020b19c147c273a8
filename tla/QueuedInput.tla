----------------------------- MODULE QueuedInput -----------------------------
(***************************************************************************)
(* Queued input: gateway/input/queue_runtime.py, the receipt merge of      *)
(* gateway/persistence/queue_receipts.py and the queue calls of the Zen    *)
(* adapter (applications/adapters/zen.py, zen_queue.py).                   *)
(*                                                                         *)
(* The Application owns the queue.  The Gateway fences an association row  *)
(* before the one native send and afterwards only gathers evidence about   *)
(* it: the acknowledgement, the observer's wakeups, a user's read or       *)
(* cancellation, and the projection of a native Turn all read the native   *)
(* items and merge what they found, in any order.                          *)
(*                                                                         *)
(* One Thread is modelled.  A Turn is named by the message it runs.        *)
(***************************************************************************)
EXTENDS Integers, FiniteSets, TLC

CONSTANTS
    Messages,
    BatchSize,      \* MAX_QUEUED_INPUT_READ_IDS
    RowLimit,       \* max_effect_receipts
    Wanted,         \* the message the user reads or cancels
    MaxCrashes, MaxRebinds, MaxOps

QueueAssumption ==
    /\ Wanted \in Messages /\ {BatchSize, RowLimit} \subseteq Nat \ {0}
    /\ {MaxCrashes, MaxRebinds, MaxOps} \subseteq Nat

VARIABLES
    items,      \* canonical native items of each message
    sends,      \* native sends of each message
    claim,      \* inbound idempotency claim
    rows,       \* QueuedInputCorrelation: "none", or its receipt's state, "null" without one
    turns,      \* messages whose Turn has a reply correlation
    conflict,   \* a merge raised QueuedInputReceiptConflict
    pc, gen, ack,           \* the dispatch of each message
    job,        \* reconcile_thread calls in progress
    op,         \* the user's read or cancellation
    projected,  \* how the Turn of each message was projected
    binding,    \* binding generation of the Conversation
    used        \* bounds

vars == <<items, sends, claim, rows, turns, conflict, pc, gen, ack, job, op, projected, binding, used>>
dispatchVars == <<pc, gen, ack, claim>>
storeVars == <<rows, turns, conflict>>

None == "none"
Readers == {"observer", "user", "projector"}
NoJob == [stage |-> "idle", todo |-> {}, batch |-> {}, snap |-> <<>>, missing |-> {}]
NoOp == [stage |-> "idle", kind |-> None, retry |-> FALSE, verdict |-> None]

Init ==
    /\ items = [m \in Messages |-> {}] /\ sends = [m \in Messages |-> 0]
    /\ claim = [m \in Messages |-> None] /\ rows = [m \in Messages |-> None]
    /\ turns = {} /\ conflict = FALSE
    /\ pc = [m \in Messages |-> "idle"] /\ gen = [m \in Messages |-> 0]
    /\ ack = [m \in Messages |-> None]
    /\ job = [p \in Readers |-> NoJob] /\ op = NoOp
    /\ projected = [m \in Messages |-> None]
    /\ binding = 1 /\ used = [crashes |-> 0, rebinds |-> 0, ops |-> 0]

-----------------------------------------------------------------------------
(* Evidence.                                                                *)

\* _queued_receipt_for_items: what the items of one client id prove.
ReceiptFor(facts) ==
    CASE "queued" \notin facts -> None
      [] "cancelled" \in facts -> "cancelled"
      [] "admitted" \in facts -> "admitted"
      [] OTHER -> "queued"

\* Mutant: the first evidence is kept.
MergeFirst(stored, receipt) ==
    [row |-> IF stored = "null" THEN receipt ELSE stored, conflict |-> FALSE]

\* _merge_queued_receipt: terminal evidence stands against a late "queued" and conflicts
\* with any other terminal evidence.
Merge(stored, receipt) ==
    CASE stored \in {"admitted", "cancelled"} /\ receipt = "queued" ->
            [row |-> stored, conflict |-> FALSE]
      [] stored \in {"admitted", "cancelled"} /\ receipt # "queued" ->
            [row |-> stored, conflict |-> stored # receipt]
      [] OTHER -> [row |-> receipt, conflict |-> FALSE]

\* accept: receipt and Turn correlation are merged in one transaction.
Accept(m, receipt) ==
    LET merged == Merge(rows[m], receipt) IN
    /\ rows' = [rows EXCEPT ![m] = merged.row]
    /\ turns' = IF receipt = "admitted" /\ ~merged.conflict THEN turns \cup {m} ELSE turns
    /\ conflict' = (conflict \/ merged.conflict)

-----------------------------------------------------------------------------
(* The Application's queue.                                                 *)

Admits(m) ==
    /\ ReceiptFor(items[m]) = "queued"
    /\ items' = [items EXCEPT ![m] = @ \cup {"admitted"}]
    /\ UNCHANGED <<sends, storeVars, dispatchVars, job, op, projected, binding, used>>

\* Another client of the Application cancels the item.
CancelledElsewhere(m) ==
    /\ ReceiptFor(items[m]) = "queued"
    /\ items' = [items EXCEPT ![m] = @ \cup {"cancelled"}]
    /\ UNCHANGED <<sends, storeVars, dispatchVars, job, op, projected, binding, used>>

-----------------------------------------------------------------------------
(* Dispatch of one message.                                                 *)

\* The inbound claim is taken, the binding read and the plan made.
Plan(m) ==
    /\ pc[m] = "idle" /\ claim[m] \in {None, "in_flight"}
    /\ claim' = [claim EXCEPT ![m] = "in_flight"]
    /\ gen' = [gen EXCEPT ![m] = binding]
    /\ pc' = [pc EXCEPT ![m] = "planned"]
    /\ UNCHANGED <<items, sends, storeVars, ack, job, op, projected, binding, used>>

\* fence_queued_input: the row and the started claim are one transaction.
Fence(m) ==
    /\ rows' = [rows EXCEPT ![m] = "null"]
    /\ claim' = [claim EXCEPT ![m] = "started"]

Fenced == {m \in Messages : rows[m] # None}

\* Without a row, with the binding unchanged and with capacity; otherwise the input is rejected.
FenceStep(m) ==
    /\ pc[m] = "planned"
    /\ IF rows[m] = None /\ gen[m] = binding /\ Cardinality(Fenced) < RowLimit
       THEN Fence(m) /\ pc' = [pc EXCEPT ![m] = "fenced"]
       ELSE /\ claim' = [claim EXCEPT ![m] = "rejected"]
            /\ pc' = [pc EXCEPT ![m] = "done"] /\ UNCHANGED rows
    /\ UNCHANGED <<items, sends, turns, conflict, gen, ack, job, op, projected, binding, used>>

\* queue_zen_input and _queued_admission_receipt: acknowledged, or the outcome is unknown
\* whether or not the native queue has the input.
Send(m) ==
    /\ pc[m] = "fenced"
    /\ sends' = [sends EXCEPT ![m] = @ + 1]
    /\ \/ /\ items' = [items EXCEPT ![m] = @ \cup {"queued"}]
          /\ pc' = [pc EXCEPT ![m] = "acked"] /\ ack' = [ack EXCEPT ![m] = "queued"]
       \/ /\ items' = [items EXCEPT ![m] = @ \cup {"queued", "admitted"}]
          /\ pc' = [pc EXCEPT ![m] = "acked"] /\ ack' = [ack EXCEPT ![m] = "admitted"]
       \/ /\ \E facts \in {{}, {"queued"}} : items' = [items EXCEPT ![m] = @ \cup facts]
          /\ pc' = [pc EXCEPT ![m] = "done"] /\ UNCHANGED ack
    /\ UNCHANGED <<claim, gen, storeVars, job, op, projected, binding, used>>

Acknowledge(m) ==
    /\ pc[m] = "acked"
    /\ Accept(m, ack[m])
    /\ pc' = [pc EXCEPT ![m] = "done"]
    /\ claim' = [claim EXCEPT ![m] = "completed"]
    /\ UNCHANGED <<items, sends, gen, ack, job, op, projected, binding, used>>

Rebind ==
    /\ used.rebinds < MaxRebinds
    /\ binding' = binding + 1
    /\ used' = [used EXCEPT !.rebinds = @ + 1]
    /\ UNCHANGED <<items, sends, storeVars, dispatchVars, job, op, projected>>

-----------------------------------------------------------------------------
(* reconcile_thread, by the observer, a user's operation or the projection. *)

Job(p, to) == job' = [job EXCEPT ![p] = to]

StartJob(p) == Job(p, [NoJob EXCEPT !.stage = "read", !.todo = Fenced])

\* One native read for the next cohort of rows.
ReadBatch(p) ==
    /\ job[p].stage = "read" /\ job[p].todo # {}
    /\ \E batch \in SUBSET job[p].todo :
        /\ batch # {} /\ Cardinality(batch) <= BatchSize
        /\ Job(p, [job[p] EXCEPT !.stage = "merge", !.batch = batch, !.todo = @ \ batch,
                                 !.snap = [m \in batch |-> ReceiptFor(items[m])]])
    /\ UNCHANGED <<items, sends, storeVars, dispatchVars, op, projected, binding, used>>

\* The native read fails: the observer starts over, the others report it.
ReadFails(p) ==
    /\ job[p].stage = "read"
    /\ Job(p, [NoJob EXCEPT !.stage = "failed"])
    /\ UNCHANGED <<items, sends, storeVars, dispatchVars, op, projected, binding, used>>

MergeOne(p) ==
    /\ job[p].stage = "merge"
    /\ \E m \in job[p].batch :
        LET rest == job[p].batch \ {m}
            missing == IF job[p].snap[m] = None THEN {m} ELSE {} IN
        /\ IF job[p].snap[m] = None THEN UNCHANGED storeVars ELSE Accept(m, job[p].snap[m])
        /\ Job(p, [job[p] EXCEPT !.batch = rest, !.missing = @ \cup missing,
                                 !.stage = IF rest = {} THEN "read" ELSE "merge"])
    /\ UNCHANGED <<items, sends, dispatchVars, op, projected, binding, used>>

Reconciled(p) == job[p].stage = "read" /\ job[p].todo = {}

\* _observe: every wakeup, and every new subscription, reconciles the Thread.
Observe ==
    /\ job["observer"] = NoJob
    /\ StartJob("observer")
    /\ UNCHANGED <<items, sends, storeVars, dispatchVars, op, projected, binding, used>>

Observed ==
    /\ Reconciled("observer") \/ job["observer"].stage = "failed"
    /\ Job("observer", NoJob)
    /\ UNCHANGED <<items, sends, storeVars, dispatchVars, op, projected, binding, used>>

-----------------------------------------------------------------------------
(* The projection of a native Turn: ensure_turn.                            *)

\* No correlation but rows: the Thread has to be reconciled first.
Ensures(m) == m \in turns \/ Fenced = {}

TurnArrives(m) ==
    /\ "admitted" \in items[m] /\ projected[m] = None /\ job["projector"] = NoJob
    /\ IF Ensures(m)
       THEN /\ projected' = [projected EXCEPT ![m] = IF m \in turns THEN "reply" ELSE "unrelated"]
            /\ UNCHANGED job
       ELSE /\ projected' = [projected EXCEPT ![m] = "ensuring"]
            /\ StartJob("projector")
    /\ UNCHANGED <<items, sends, storeVars, dispatchVars, op, binding, used>>

\* After the reconciliation: a correlation, a complete lineage without this Turn, or the
\* projection is fenced and tried again by recovery.
TurnEnsured(m) ==
    /\ projected[m] = "ensuring"
    /\ Reconciled("projector") \/ job["projector"].stage = "failed"
    /\ LET fenced == \/ job["projector"].stage = "failed"
                     \/ job["projector"].missing # {}
                     \/ \E o \in Fenced : rows[o] = "null" IN
       projected' = [projected EXCEPT ![m] = CASE m \in turns -> "reply"
                                               [] m \notin turns /\ fenced -> None
                                               [] OTHER -> "unrelated"]
    /\ Job("projector", NoJob)
    /\ UNCHANGED <<items, sends, storeVars, dispatchVars, op, binding, used>>

-----------------------------------------------------------------------------
(* The user's read and cancel.                                              *)

\* read begins; a cancellation whose outcome is unknown is only reconciled again.
Ask ==
    /\ op.stage = "idle" /\ used.ops < MaxOps /\ rows[Wanted] # None
    /\ \E kind \in {"read", "cancel"} :
        op' = [NoOp EXCEPT !.stage = "reading", !.kind = kind, !.retry = op.verdict = "unknown"]
    /\ StartJob("user")
    /\ used' = [used EXCEPT !.ops = @ + 1]
    /\ UNCHANGED <<items, sends, storeVars, dispatchVars, projected, binding>>

Verdict(as) == op' = [op EXCEPT !.stage = "idle", !.verdict = as]

\* read: status of the row, UNKNOWN when the native items do not have it.
\* cancel goes on only from PENDING and only when it is not a reconciliation.
ReadDone ==
    /\ op.stage = "reading"
    /\ Reconciled("user") \/ job["user"].stage = "failed"
    /\ LET status == CASE job["user"].stage = "failed" -> "unknown"
                       [] Wanted \in job["user"].missing -> "unknown"
                       [] rows[Wanted] \in {"null", None} -> "unknown"
                       [] OTHER -> rows[Wanted] IN
       IF op.kind = "read" THEN Verdict(status)
       ELSE CASE status \in {"cancelled", "admitted"} -> Verdict(status)
              [] status = "unknown" \/ op.retry -> Verdict("unknown")
              [] OTHER -> op' = [op EXCEPT !.stage = "cancelling"]
    /\ Job("user", NoJob)
    /\ UNCHANGED <<items, sends, storeVars, dispatchVars, projected, binding, used>>

\* Mutant: the native reply is believed without reading the items again.
CancelReply == "cancelled"

\* cancel_queued_input_receipt ends with a canonical read.
CancelEvidence == IF ReceiptFor(items[Wanted]) = "queued" THEN "cancelled"
                  ELSE ReceiptFor(items[Wanted])

\* cancel: the native call cancels a queued item or finds it terminal, and its receipt is
\* merged; or its outcome is unknown, with or without its effect.
CancelNative ==
    /\ op.stage = "cancelling"
    /\ \/ /\ items' = [items EXCEPT ![Wanted] = IF ReceiptFor(@) = "queued"
                                                THEN @ \cup {"cancelled"} ELSE @]
          /\ op' = [op EXCEPT !.stage = "merging", !.verdict = CancelEvidence]
       \/ /\ \/ items' = [items EXCEPT ![Wanted] = IF ReceiptFor(@) = "queued"
                                                   THEN @ \cup {"cancelled"} ELSE @]
             \/ UNCHANGED items
          /\ Verdict("unknown")
    /\ UNCHANGED <<sends, storeVars, dispatchVars, job, projected, binding, used>>

CancelMerged ==
    /\ op.stage = "merging"
    /\ Accept(Wanted, op.verdict)
    /\ op' = [op EXCEPT !.stage = "idle"]
    /\ UNCHANGED <<items, sends, dispatchVars, job, projected, binding, used>>

-----------------------------------------------------------------------------
\* The process dies and restarts: tasks are gone, restore reconciles each Thread.
Crash ==
    /\ used.crashes < MaxCrashes
    /\ used' = [used EXCEPT !.crashes = @ + 1]
    /\ pc' = [m \in Messages |-> "idle"] /\ ack' = [m \in Messages |-> None]
    /\ job' = [p \in Readers |-> NoJob]
    /\ op' = [op EXCEPT !.stage = "idle", !.verdict = IF op.stage = "idle" THEN @ ELSE "unknown"]
    /\ projected' = [m \in Messages |-> IF projected[m] = "ensuring" THEN None ELSE projected[m]]
    /\ UNCHANGED <<items, sends, claim, storeVars, gen, binding>>

Next ==
    \/ \E m \in Messages : Admits(m) \/ CancelledElsewhere(m) \/ Plan(m) \/ FenceStep(m) \/ Send(m)
                           \/ Acknowledge(m) \/ TurnArrives(m) \/ TurnEnsured(m)
    \/ \E p \in Readers : ReadBatch(p) \/ ReadFails(p) \/ MergeOne(p)
    \/ Observe \/ Observed \/ Ask \/ ReadDone \/ CancelNative \/ CancelMerged \/ Rebind \/ Crash

Spec == Init /\ [][Next]_vars

-----------------------------------------------------------------------------
(* Properties.                                                              *)

\* Types, and the capacity rows share with effect receipts.
TypeOK ==
    /\ rows \in [Messages -> {None, "null", "queued", "admitted", "cancelled"}]
    /\ claim \in [Messages -> {None, "in_flight", "started", "completed", "rejected"}]
    /\ projected \in [Messages -> {None, "ensuring", "reply", "unrelated"}]
    /\ turns \subseteq Fenced /\ Cardinality(Fenced) <= RowLimit

\* No evidence ever conflicts with what is stored: the acknowledgement, the cancellation
\* and every read can be merged in any order (_merge_queued_receipt).
EvidenceAgrees == ~conflict

\* A stored receipt never runs ahead of the Application, and a terminal one is its verdict.
ReceiptIsTrue ==
    \A m \in Messages : CASE rows[m] \in {"admitted", "cancelled"} -> ReceiptFor(items[m]) = rows[m]
                          [] rows[m] = "queued" -> "queued" \in items[m]
                          [] OTHER -> TRUE

\* A terminal receipt never moves, whatever is merged after it.
TerminalStands ==
    [][\A m \in Messages : rows[m] \in {"admitted", "cancelled"} => rows'[m] = rows[m]]_vars

\* An admitted row has its Turn's reply correlation, and only then (one transaction).
AdmittedHasTurn == \A m \in Messages : rows[m] = "admitted" <=> m \in turns

\* No message is sent to the native queue twice, crashes included: the claim starts with
\* the row, before the send (fence_queued_input).
SentOnce == \A m \in Messages : sends[m] <= 1

\* The Turn of a queued message is never projected as somebody else's (ensure_turn).
NeverUnrelated == \A m \in Messages : projected[m] # "unrelated"

\* A verdict given to the user is what the Application decided.
CancelIsHonest ==
    (op.stage = "idle" /\ op.verdict \in {"cancelled", "admitted"})
        => ReceiptFor(items[Wanted]) = op.verdict

=============================================================================

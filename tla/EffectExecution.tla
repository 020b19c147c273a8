--------------------------- MODULE EffectExecution ---------------------------
(***************************************************************************)
(* StoreBackedGatewayEffectExecutor (gateway/effect_execution.py) over the *)
(* coherent store: concurrent calls, of one process or of several, that    *)
(* execute the same or different actions, each a sequence of store calls   *)
(* and callbacks with an await between any two of them.                    *)
(*                                                                         *)
(* A store call may take effect and be acknowledged, be refused by the     *)
(* fence, fail before it takes effect, or take effect and lose its         *)
(* acknowledgement; the caller may be cancelled at any await. The native   *)
(* Application is external: a request that reached it may be applied or    *)
(* refused at any later time, whether or not the caller still waits.       *)
(***************************************************************************)
EXTENDS GatewayStore

CONSTANTS
    Calls,         \* executor calls (tasks); each runs once
    Reconcilable,  \* keys whose reconcile callback can establish the truth
    Faults         \* how a store call can fail although the fence holds

ASSUME ExecutorAssumption ==
    /\ Reconcilable \subseteq Keys
    /\ Faults \subseteq {"cancel", "error"}

VARIABLES
    calls,     \* [Calls -> CallType]
    invoked,   \* [Keys -> how often the native callback was entered]
    effect     \* [Keys -> what the Application did with the request]

nativeVars == <<invoked, effect>>
vars       == <<storeVars, calls, nativeVars>>

PCs == {"idle", "read", "store_preflight", "commit_store", "reject_store",
        "recover", "reserve", "preflight", "reject", "read_preflight",
        "read_reject", "mark", "read_mark", "invoke", "native", "record",
        "reread", "reconcile", "record_reconciled", "reread_reconciled", "get",
        "commit", "reread_commit", "unknown", "done", "crashed"}

Errors == {"none", "stale", "cancel", "error", "conflict", "capacity"}

(* What a call gives its caller: an outcome, or an exception. *)
ResultType ==
    [kind : Kinds \cup {"pending", "cancelled", "raised", "internal_error"},
     code : Codes, gen : Int]

CallType ==
    [pc : PCs, request : Requests, epoch : 0..MaxEpoch,
     held : OutcomeType, err : Errors, result : ResultType]

Effects == {"none", "pending", "applied", "refused"}

ExecTypeOK ==
    /\ calls \in [Calls -> CallType]
    /\ invoked \in [Keys -> Nat]
    /\ effect \in [Keys -> Effects]

TypeOK == StoreTypeOK /\ ExecTypeOK

Raised(kind) == [kind |-> kind, code |-> "none", gen |-> NoGen]

FreshCall(pc, q, e) ==
    [pc |-> pc, request |-> q, epoch |-> e,
     held |-> NoOutcome, err |-> "none", result |-> Raised("pending")]

Init ==
    /\ StoreInit
    /\ calls = [k \in Calls |-> FreshCall("idle", AnyRequest, 0)]
    /\ invoked = [a \in Keys |-> 0]
    /\ effect = [a \in Keys |-> "none"]

-----------------------------------------------------------------------------
(* Control of one call. *)

At(k, pc)     == calls[k].pc = pc
Req(k)        == calls[k].request
Key(k)        == calls[k].request.key
Holds(k)      == Fenced(calls[k].epoch)
IsWorkflow(k) == Req(k).category = "workflow"

Move(k, pc, held, err, result) ==
    calls' = [calls EXCEPT ![k] =
        [pc |-> pc, request |-> @.request, epoch |-> @.epoch,
         held |-> held, err |-> err, result |-> result]]

Goto(k, pc)      == Move(k, pc, calls[k].held, calls[k].err, calls[k].result)
Fail(k, pc, err) == Move(k, pc, calls[k].held, err, calls[k].result)
Hold(k, pc, o)   == Move(k, pc, o, calls[k].err, calls[k].result)
Return(k, o)     == Move(k, "done", NoOutcome, "none", o)

(* How a store call can fail without having taken effect. It can fail in
   the ways of Faults although it did, when its acknowledgement is lost. *)
Refusals(k) == IF Holds(k) THEN Faults ELSE Faults \cup {"stale"}

(* _store_error_code and the codes the except clauses spell out. *)
Code(err) == IF err = "stale" THEN "stale_runtime"
             ELSE IF err \in {"conflict", "capacity"} THEN err
             ELSE "store_failure"

UnknownCode(err) == IF err = "cancel" THEN "outcome_unknown" ELSE Code(err)

HasPreflight(q) == q.change = "bind" \/ q.route = "upsert"

FirstPC(q) == IF q.category # "gateway" THEN "reserve"
              ELSE IF HasPreflight(q) THEN "read" ELSE "commit_store"

(* An action is called on a Gateway that accepts actions (_require_active). *)
Start(k, q, e) ==
    /\ At(k, "idle")
    /\ e \in open
    /\ calls' = [calls EXCEPT ![k] = FreshCall(FirstPC(q), q, e)]
    /\ UNCHANGED <<storeVars, nativeVars>>

-----------------------------------------------------------------------------
(* execute_store_mutation *)

(* _read_store_mutation_receipt: replay before preflight. *)
ReadStoreMutationReceipt(k) ==
    /\ At(k, "read")
    /\ \/ /\ Holds(k)
          /\ \/ Conflicts(Req(k)) /\ Return(k, Failed("conflict"))
             \/ /\ Exists(Key(k)) /\ ~Conflicts(Req(k))
                /\ Return(k, receipts[Key(k)].outcome)
             \/ ~Exists(Key(k)) /\ Goto(k, "store_preflight")
       \/ \E err \in Refusals(k) :
             Return(k, IF err = "cancel" THEN Raised("cancelled")
                                         ELSE Failed(Code(err)))
    /\ UNCHANGED <<storeVars, nativeVars>>

(* _run_store_preflight *)
RunStorePreflight(k) ==
    /\ At(k, "store_preflight")
    /\ \/ Goto(k, "commit_store")
       \/ Goto(k, "reject_store")
       \/ Fail(k, "recover", "cancel")
       \/ Return(k, Failed("store_failure"))
    /\ UNCHANGED <<storeVars, nativeVars>>

(* _commit_store_result inside the commit fence of a route action. *)
CommitStoreResult(k) ==
    /\ At(k, "commit_store") \/ At(k, "reject_store")
    /\ \/ /\ Holds(k)
          /\ ~Conflicts(Req(k))
          /\ IF At(k, "commit_store") THEN CommitStoreMutation(Req(k))
                                      ELSE CommitStorePreflightFailure(Req(k))
          /\ \/ Return(k, receipts'[Key(k)].outcome)
             \/ \E err \in Faults : Fail(k, "recover", err)
       \/ /\ Holds(k)
          /\ \/ Conflicts(Req(k)) /\ Fail(k, "recover", "conflict")
             \/ ~Exists(Key(k)) /\ Full /\ Fail(k, "recover", "capacity")
          /\ UNCHANGED storeVars
       \/ /\ \E err \in Refusals(k) : Fail(k, "recover", err)
          /\ UNCHANGED storeVars
       \/ /\ Req(k).route = "upsert"
          /\ Return(k, Failed("stale_runtime"))
          /\ UNCHANGED storeVars
    /\ UNCHANGED nativeVars

(* _recover_store_mutation_outcome; a read that fails counts as no receipt. *)
RecoverStoreMutationOutcome(k) ==
    /\ At(k, "recover")
    /\ \/ /\ Holds(k)
          /\ \/ Conflicts(Req(k)) /\ Return(k, Failed("conflict"))
             \/ /\ Exists(Key(k)) /\ ~Conflicts(Req(k))
                /\ Return(k, receipts[Key(k)].outcome)
       \/ /\ Return(k, IF calls[k].err = "cancel"
                       THEN Raised("cancelled")
                       ELSE Failed(Code(calls[k].err)))
    /\ UNCHANGED <<storeVars, nativeVars>>

-----------------------------------------------------------------------------
(* execute_native_mutation and execute_create_binding_workflow *)

(* Where a call goes when reserve_effect shows it this receipt. *)
AfterReserve(k, r) ==
    \/ r.phase = "terminal" /\ Return(k, r.outcome)
    \/ r.phase = "known" /\ Hold(k, "commit", r.outcome)
    \/ r.phase = "started" /\ Goto(k, "reconcile")
    \/ r.phase = "reserved" /\ Goto(k, "preflight")

Reserve(k) ==
    LET Failure(err) == Return(k, IF err = "cancel" THEN Raised("cancelled")
                                                    ELSE Failed(Code(err)))
    IN
    /\ At(k, "reserve")
    /\ \/ /\ Holds(k)
          /\ ~Conflicts(Req(k))
          /\ ReserveEffect(Req(k))
          /\ \/ AfterReserve(k, receipts'[Key(k)])
             \/ \E err \in Faults : Failure(err)
       \/ /\ Holds(k)
          /\ \/ Conflicts(Req(k)) /\ Return(k, Failed("conflict"))
             \/ ~Exists(Key(k)) /\ Full /\ Return(k, Failed("capacity"))
          /\ UNCHANGED storeVars
       \/ /\ \E err \in Refusals(k) : Failure(err)
          /\ UNCHANGED storeVars
    /\ UNCHANGED nativeVars

(* _run_native_preflight: the callback, then the durable rejection. *)
RunNativePreflight(k) ==
    /\ At(k, "preflight")
    /\ \/ Goto(k, "mark")
       \/ Goto(k, "reject")
       \/ Goto(k, "read_preflight")
       \/ Return(k, Failed("store_failure"))
    /\ UNCHANGED <<storeVars, nativeVars>>

RejectPreflight(k) ==
    LET Failure(err) ==
            \/ err = "stale" /\ Return(k, Failed("stale_runtime"))
            \/ err = "cancel" /\ Goto(k, "read_preflight")
            \/ err = "error" /\ Goto(k, "read_reject")
    IN
    /\ At(k, "reject")
    /\ \/ /\ Holds(k)
          /\ RecordEffectPreflightFailure(Key(k))
          /\ \/ Return(k, IF receipts'[Key(k)].phase = "terminal"
                          THEN receipts'[Key(k)].outcome
                          ELSE OutcomeUnknown("outcome_unknown"))
             \/ \E err \in Faults : Failure(err)
       \/ /\ \E err \in Refusals(k) : Failure(err)
          /\ UNCHANGED storeVars
    /\ UNCHANGED nativeVars

(* The receipt reads of _run_native_preflight. A read may fail, and then
   the call goes on as if there were no receipt. *)
ReadAfterPreflight(k) ==
    /\ \/ /\ At(k, "read_preflight")
          /\ \/ Phase(Key(k)) = "terminal" /\ Return(k, receipts[Key(k)].outcome)
             \/ /\ Phase(Key(k)) \in {"started", "known"}
                /\ Return(k, OutcomeUnknown("outcome_unknown"))
             \/ Return(k, Raised("cancelled"))
       \/ /\ At(k, "read_reject")
          /\ \/ Phase(Key(k)) = "terminal" /\ Return(k, receipts[Key(k)].outcome)
             \/ Return(k, Failed("store_failure"))
    /\ UNCHANGED <<storeVars, nativeVars>>

(* Mutant of EnterNativeFence: every caller that holds the lease goes on. *)
EnterWithoutLooking(k) ==
    /\ At(k, "mark")
    /\ Holds(k)
    /\ MarkNativeSideEffectStarted(Key(k))
    /\ Goto(k, "invoke")
    /\ UNCHANGED nativeVars

(* _enter_native_fence: the one caller that advances the receipt goes on to
   invoke, every other caller starts over and sees the later phase. *)
EnterNativeFence(k) ==
    LET Failure(err) == IF err = "cancel" THEN Goto(k, "read_mark")
                                          ELSE Return(k, Failed(Code(err)))
    IN
    /\ At(k, "mark")
    /\ \/ /\ Holds(k)
          /\ MarkNativeSideEffectStarted(Key(k))
          /\ \/ Goto(k, IF Phase(Key(k)) = "reserved" THEN "invoke" ELSE "reserve")
             \/ \E err \in Faults : Failure(err)
       \/ /\ \E err \in Refusals(k) : Failure(err)
          /\ UNCHANGED storeVars
    /\ UNCHANGED nativeVars

ReadAfterFence(k) ==
    /\ At(k, "read_mark")
    /\ \/ Phase(Key(k)) = "terminal" /\ Return(k, receipts[Key(k)].outcome)
       \/ Phase(Key(k)) \in {"started", "known"} /\ Goto(k, "unknown")
       \/ Return(k, Raised("cancelled"))
    /\ UNCHANGED <<storeVars, nativeVars>>

(* The native callback: entered once, it returns a result, or raises or is
   cancelled while the request may still be on its way. *)
Invoke(k) ==
    /\ At(k, "invoke")
    /\ invoked' = [invoked EXCEPT ![Key(k)] = @ + 1]
    /\ effect' = [effect EXCEPT ![Key(k)] = IF @ = "none" THEN "pending" ELSE @]
    /\ Goto(k, "native")
    /\ UNCHANGED storeVars

(* What the Application established, as the callbacks report it. *)
KnownOutcome(a) == IF effect[a] = "applied" THEN Succeeded(NoGen)
                                            ELSE Failed("native_rejected")

Decided(a) == effect[a] \in {"applied", "refused"}

(* Mutant of InvokeReturns: a request that was sent counts as done. *)
ReturnsAsSent(k) ==
    /\ At(k, "native")
    /\ Hold(k, "record", Succeeded(NoGen))
    /\ UNCHANGED <<storeVars, nativeVars>>

(* The callback reports what the Application established; or its call of the
   Application raised, which _execute_scoped_application makes a failure like
   any other, whatever the Application did or will do with the request. *)
InvokeReturns(k) ==
    /\ At(k, "native")
    /\ \/ Decided(Key(k)) /\ Hold(k, "record", KnownOutcome(Key(k)))
       \/ Hold(k, "record", Failed("native_rejected"))
    /\ UNCHANGED <<storeVars, nativeVars>>

InvokeRaises(k) ==
    /\ At(k, "native")
    /\ Goto(k, "unknown")
    /\ UNCHANGED <<storeVars, nativeVars>>

(* Phase a known outcome is recorded with: a workflow success waits for its
   binding, everything else is final. *)
OutcomePhase(k) == IF IsWorkflow(k) /\ calls[k].held.kind = "succeeded"
                   THEN "known" ELSE "terminal"

RecordOutcome(k) ==
    /\ At(k, "record")
    /\ \/ /\ Holds(k)
          /\ RecordEffectOutcome(Key(k), OutcomePhase(k), calls[k].held)
          /\ \/ IF OutcomePhase(k) = "terminal"
                THEN Return(k, receipts'[Key(k)].outcome)
                ELSE Hold(k, "commit", receipts'[Key(k)].outcome)
             \/ \E err \in Faults : Fail(k, "reread", err)
       \/ /\ Holds(k)
          /\ RecordRaises(Key(k), OutcomePhase(k), calls[k].held)
          /\ Fail(k, "reread", "error")
          /\ UNCHANGED storeVars
       \/ /\ \E err \in Refusals(k) : Fail(k, "reread", err)
          /\ UNCHANGED storeVars
    /\ UNCHANGED nativeVars

RereadOutcome(k) ==
    /\ At(k, "reread")
    /\ \/ Phase(Key(k)) = "terminal" /\ Return(k, receipts[Key(k)].outcome)
       \/ /\ OutcomePhase(k) = "known"
          /\ Phase(Key(k)) = "known"
          /\ calls[k].err = "error"
          /\ Hold(k, "commit", receipts[Key(k)].outcome)
       \/ Return(k, IF OutcomePhase(k) = "known"
                    THEN Partial(Code(calls[k].err))
                    ELSE OutcomeUnknown(UnknownCode(calls[k].err)))
    /\ UNCHANGED <<storeVars, nativeVars>>

(* _reconcile_native *)
Reconcile(k) ==
    /\ At(k, "reconcile")
    /\ \/ /\ Key(k) \in Reconcilable
          /\ Decided(Key(k))
          /\ Hold(k, "record_reconciled", KnownOutcome(Key(k)))
       \/ Goto(k, "unknown")
    /\ UNCHANGED <<storeVars, nativeVars>>

(* A reconciled workflow goes on to its binding only from a success. *)
AfterReconcile(k, o) ==
    IF IsWorkflow(k) /\ o.kind = "succeeded" THEN Goto(k, "get") ELSE Return(k, o)

RecordReconciled(k) ==
    /\ At(k, "record_reconciled")
    /\ \/ /\ Holds(k)
          /\ RecordEffectOutcome(Key(k), OutcomePhase(k), calls[k].held)
          /\ \/ AfterReconcile(k, receipts'[Key(k)].outcome)
             \/ \E err \in Faults : Fail(k, "reread_reconciled", err)
       \/ /\ Holds(k)
          /\ RecordRaises(Key(k), OutcomePhase(k), calls[k].held)
          /\ Fail(k, "reread_reconciled", "error")
          /\ UNCHANGED storeVars
       \/ /\ \E err \in Refusals(k) : Fail(k, "reread_reconciled", err)
          /\ UNCHANGED storeVars
    /\ UNCHANGED nativeVars

RereadReconciled(k) ==
    LET err == calls[k].err IN
    /\ At(k, "reread_reconciled")
    /\ \/ /\ Phase(Key(k)) = "terminal"
          /\ AfterReconcile(k, receipts[Key(k)].outcome)
       \/ /\ OutcomePhase(k) = "known"
          /\ Phase(Key(k)) = "known"
          /\ err # "stale"
          /\ Goto(k, "get")
       \/ Return(k, IF OutcomePhase(k) = "known" /\ err # "error"
                    THEN Partial(Code(err))
                    ELSE OutcomeUnknown(UnknownCode(err)))
    /\ UNCHANGED <<storeVars, nativeVars>>

(* The plain receipt read between a reconciled success and its binding. *)
GetEffectReceipt(k) ==
    /\ At(k, "get")
    /\ \/ Phase(Key(k)) = "terminal" /\ Return(k, receipts[Key(k)].outcome)
       \/ /\ Phase(Key(k)) # "terminal"
          /\ Hold(k, "commit", receipts[Key(k)].outcome)
       \/ \E kind \in {"cancelled", "raised"} : Return(k, Raised(kind))
    /\ UNCHANGED <<storeVars, nativeVars>>

(* _persist_unknown: shielded, so a cancellation does not change it. *)
PersistUnknown(k) ==
    LET unknown == OutcomeUnknown("outcome_unknown") IN
    /\ At(k, "unknown")
    /\ \/ /\ Holds(k)
          /\ RecordEffectOutcome(Key(k), "started", unknown)
          /\ \/ Return(k, receipts'[Key(k)].outcome)
             \/ Return(k, unknown)
       \/ /\ \/ Holds(k) /\ RecordRaises(Key(k), "started", unknown)
             \/ Refusals(k) # {}
          /\ Return(k, unknown)
          /\ UNCHANGED storeVars
    /\ UNCHANGED nativeVars

(* _commit_known_workflow, inside the commit fence of a foreground route. *)
CommitKnownWorkflow(k) ==
    /\ At(k, "commit")
    /\ \/ /\ calls[k].held.kind # "succeeded"
          /\ Return(k, Raised("internal_error"))
          /\ UNCHANGED storeVars
       \/ /\ calls[k].held.kind = "succeeded"
          /\ Holds(k)
          /\ CommitWorkflowBinding(Req(k))
          /\ \/ Return(k, receipts'[Key(k)].outcome)
             \/ \E err \in Faults : Fail(k, "reread_commit", err)
       \/ /\ calls[k].held.kind = "succeeded"
          /\ \/ \E err \in Refusals(k) : Fail(k, "reread_commit", err)
             \/ Req(k).route = "upsert" /\ Return(k, Partial("stale_runtime"))
          /\ UNCHANGED storeVars
    /\ UNCHANGED nativeVars

RereadCommit(k) ==
    /\ At(k, "reread_commit")
    /\ \/ Phase(Key(k)) = "terminal" /\ Return(k, receipts[Key(k)].outcome)
       \/ Return(k, Partial(Code(calls[k].err)))
    /\ UNCHANGED <<storeVars, nativeVars>>

-----------------------------------------------------------------------------
(* The Application applies or refuses a request that reached it. *)
ApplicationDecides(a) ==
    /\ effect[a] = "pending"
    /\ \E verdict \in {"applied", "refused"} :
          effect' = [effect EXCEPT ![a] = verdict]
    /\ UNCHANGED <<storeVars, calls, invoked>>

(* A call of the process that acquired epoch e is still under way. *)
InFlight(k, e) == calls[k].epoch = e /\ calls[k].pc \notin {"idle", "done", "crashed"}

(* The process of one runtime dies: its calls are gone, its lease stays
   until it expires. *)
Crash(e) ==
    /\ e \in open \/ \E k \in Calls : InFlight(k, e)
    /\ open' = open \ {e}
    /\ calls' = [k \in Calls |->
          IF InFlight(k, e) THEN FreshCall("crashed", AnyRequest, 0) ELSE calls[k]]
    /\ UNCHANGED <<epoch, leaseLive, receipts, bindingVars, ghostVars, nativeVars>>

StoreMutationStep(k) ==
    \/ ReadStoreMutationReceipt(k)
    \/ RunStorePreflight(k)
    \/ CommitStoreResult(k)
    \/ RecoverStoreMutationOutcome(k)

NativeStep(k) ==
    \/ Reserve(k)
    \/ RunNativePreflight(k)
    \/ RejectPreflight(k)
    \/ ReadAfterPreflight(k)
    \/ EnterNativeFence(k)
    \/ ReadAfterFence(k)
    \/ Invoke(k)
    \/ InvokeReturns(k)
    \/ InvokeRaises(k)
    \/ RecordOutcome(k)
    \/ RereadOutcome(k)
    \/ Reconcile(k)
    \/ RecordReconciled(k)
    \/ RereadReconciled(k)
    \/ GetEffectReceipt(k)
    \/ PersistUnknown(k)
    \/ CommitKnownWorkflow(k)
    \/ RereadCommit(k)

CallStep(k) == StoreMutationStep(k) \/ NativeStep(k)

RuntimeStep ==
    /\ \/ AcquireRuntime
       \/ LeaseExpires
       \/ \E e \in open : CloseRuntime(e)
       \/ \E e \in open, t \in Deletable : DropThreadRoutes(e, t)
    /\ UNCHANGED <<calls, nativeVars>>

Next ==
    \/ \E k \in Calls, q \in Requests, e \in open : Start(k, q, e)
    \/ \E k \in Calls : CallStep(k)
    \/ \E a \in Keys : ApplicationDecides(a)
    \/ \E e \in 1..epoch : Crash(e)
    \/ RuntimeStep

Spec == Init /\ [][Next]_vars

-----------------------------------------------------------------------------
(* What the executor and the store owe their callers. *)

(* No native mutation is ever started twice for one action: not by two
   concurrent calls, not by a retry after an unknown outcome, not by the
   process that takes the store over (_enter_native_fence). *)
AtMostOneInvocation == \A a \in Keys : invoked[a] <= 1

(* Why: the fence of an action is passed by one call, before the callback. *)
Late(a) == Phase(a) \notin {"absent", "reserved"}

FenceInv ==
    /\ \A a \in Keys : ~Late(a) => invoked[a] = 0
    /\ \A k \in Calls : At(k, "invoke") => Late(Key(k)) /\ invoked[Key(k)] = 0
    /\ \A j, k \in Calls :
          At(j, "invoke") /\ At(k, "invoke") /\ Key(j) = Key(k) => j = k
    /\ AtMostOneInvocation

(* What a receipt that is known or terminal says of the Application: success
   and partial success mean the action was applied, a rejection by its
   preflight means the Application was never asked, any other failure only
   that it was asked. Such a failure is not a refusal: the callbacks make one
   of every exception, so the request may have been applied or be applied
   later (_record_effect_outcome, _record_effect_preflight_failure,
   _execute_scoped_application). *)
ReceiptTellsTheTruth ==
    \A a \in Keys :
        receipts[a].category # "gateway" /\ Phase(a) \in {"known", "terminal"} =>
            /\ receipts[a].outcome.kind # "failed" => effect[a] = "applied"
            /\ receipts[a].outcome.kind = "failed" =>
                  (receipts[a].outcome = Failed("preflight") <=> effect[a] = "none")

(* Verdicts about the action itself, as opposed to about this attempt. *)
Verdict(o) ==
    \/ o.kind = "succeeded"
    \/ o.kind \in {"failed", "partial"}
       /\ o.code \in {"preflight", "native_rejected", "stale_binding"}

(* A verdict a caller was given is the one the store keeps, so no other
   caller of the action, and no later process, is ever told another
   (committed receipts win over lost acknowledgements and cancellation). *)
VerdictIsDurable ==
    \A k \in Calls :
        calls[k].pc = "done" /\ Verdict(calls[k].result) =>
            /\ Phase(Key(k)) = "terminal"
            /\ receipts[Key(k)].outcome = calls[k].result

(* A caller told Partial can count on the created resource: nothing in the
   executor reports a creation that did not happen. *)
PartialMeansCreated ==
    \A k \in Calls :
        calls[k].pc = "done" /\ calls[k].result.kind = "partial" =>
            effect[Key(k)] = "applied"

(* What callers and later processes learn of an action is true of it: the
   receipt, the verdict a caller was given and a partial success. *)
ReceiptsAreTrue == ReceiptTellsTheTruth /\ VerdictIsDurable /\ PartialMeansCreated

(* A create-and-bind workflow that succeeded never overwrote a binding
   somebody else chose after it was reserved, even one that was deleted and
   made again since (_commit_workflow_binding, generation floors). *)
WorkflowNeverOverwrites ==
    \A a \in Keys :
        /\ Phase(a) = "terminal"
        /\ receipts[a].category = "workflow"
        /\ receipts[a].outcome.kind = "succeeded"
        => a \notin touched

(* The binding change of one action is made at most once, however often the
   action is retried and wherever (_commit_store_mutation replay). *)
BindingMutatedOnce == \A a \in Keys : mutated[a] <= 1

(* The requests of a context with foreground routes: what binds a Thread
   upserts its route, and an observation is cleared unless it is of the bound
   Thread (foreground_route in gateway/actions.py). *)
ForegroundRoutes ==
    \A q \in Requests :
        /\ q.route # "delete"
        /\ /\ q.change = "bind" \/ q.category = "workflow"
           /\ q.target \in Threads
           => q.route = "upsert"

(* With foreground routes, a Conversation bound to a Thread that was not
   deleted is routed from it: binding and route move in one transaction,
   and clearing an observation spares the bound Thread. *)
BoundThreadIsRouted ==
    \A c \in Conversations :
        bound[c] \in Threads \ gone => <<bound[c], c>> \in routes

(* What the actions do to bindings and routes, whoever races whom: no choice
   of a user is overwritten, none is applied twice, none loses its route. *)
BindingsAreSafe == WorkflowNeverOverwrites /\ BindingMutatedOnce /\ BoundThreadIsRouted

(* The executor's own assertions hold: no call ends in the RuntimeError of
   _commit_known_workflow. *)
NoInternalError == \A k \in Calls : calls[k].result.kind # "internal_error"

(* Nothing changes a terminal receipt. *)
TerminalIsFinal ==
    [][\A a \in Keys : Phase(a) = "terminal" => receipts'[a] = receipts[a]]_vars

(* Receipts, bindings and routes change only under a live lease and, when a
   call changes them, by a call of the epoch that owns it: a process that
   was taken over writes nothing any more. *)
StaleRuntimeNeverWrites ==
    [][<<receipts, bound, gens, floors, routes>>'
          # <<receipts, bound, gens, floors, routes>> =>
       /\ leaseLive
       /\ \A k \in Calls : calls'[k] # calls[k] => calls[k].epoch = epoch]_vars

(* The design says a committed terminal result wins over a storage error and
   a committed native fence stays unknown: a call that loses the race for
   the fence would not report Failed for an action whose effect is fenced. *)
FenceErrorNeverHidesTheFence ==
    [][\A k \in Calls :
         At(k, "mark") /\ calls'[k].pc = "done" /\ calls'[k].result.kind = "failed"
         => Phase(Key(k)) \in {"absent", "reserved"}]_vars

-----------------------------------------------------------------------------
(* The promise to the callers, read off the receipts. *)

PromisedStatus(a) ==
    IF ~Late(a) THEN "open" ELSE IF Phase(a) = "terminal" THEN "settled" ELSE "fenced"

PromisedVerdict(a) ==
    IF Phase(a) # "terminal" THEN "none"
    ELSE IF receipts[a].category = "gateway" THEN "local"
    ELSE IF receipts[a].outcome.kind # "failed" THEN "applied"
    ELSE IF effect[a] = "none" THEN "declined" ELSE "failed"

Promise == INSTANCE EffectPromise WITH
    status  <- [a \in Keys |-> PromisedStatus(a)],
    asked   <- [a \in Keys |-> invoked[a] > 0],
    verdict <- [a \in Keys |-> PromisedVerdict(a)]

(* The executor over the store implements the promise: at most one question
   to the Application, behind the fence, and one verdict, in which success is
   the truth and failure says no more than whether the Application was asked. *)
KeepsPromise == Promise!Spec

=============================================================================

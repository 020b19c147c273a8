---------------------------- MODULE GatewayStore ----------------------------
(***************************************************************************)
(* The coherent Gateway store (persistence/memory_store.py and             *)
(* persistence/sqlite_store.py): one namespace shared by every process     *)
(* that runs this Gateway, the runtime lease that says which of them may   *)
(* write, the effect receipts that remember what was done for an action,   *)
(* and the Conversation bindings and projection routes that the receipts   *)
(* are committed with.                                                     *)
(*                                                                         *)
(* Every operation of the store runs under one lock (memory) or in one     *)
(* BEGIN IMMEDIATE transaction (SQLite), so an operation is one step.      *)
(* Gateway.start draws a fresh owner token for every acquisition, so the   *)
(* epoch of an acquisition stands for its owner token as well.             *)
(***************************************************************************)
EXTENDS Integers, FiniteSets

CONSTANTS
    Keys,           \* action keys (derive_action_fingerprint)
    Requests,       \* what a caller may ask for: a fingerprint and its plan
    Conversations,  \* IM Conversations
    Threads,        \* native Threads
    Deletable,      \* the Threads that may be deleted natively
    NoThread,       \* a binding that selects no Thread (Application or Project only)
    Unbound,        \* no binding row
    MaxEpoch,       \* bound on the number of runtime acquisitions
    MaxReceipts     \* max_effect_receipts of the store

NoGen == -1

Categories == {"gateway", "native", "request_response", "workflow"}

(* One request is one fingerprint (kind, key and payload digest): two
   requests with the same key are the same identity with another payload. *)
RequestType ==
    [key      : Keys,
     category : Categories,
     conv     : Conversations,
     target   : Threads \cup {NoThread},
     change   : {"bind", "clear", "delete", "none"},
     route    : {"none", "upsert", "delete", "delete_unless_bound"},
     expected : Int]

ASSUME StoreAssumption ==
    /\ Requests \subseteq RequestType
    /\ Requests # {}
    /\ \A q \in Requests : q.route # "none" => q.target \in Threads
    /\ Deletable \subseteq Threads
    /\ MaxEpoch \in Nat
    /\ MaxReceipts \in Nat
    /\ NoThread \notin Threads
    /\ Unbound \notin Threads \cup {NoThread}

Kinds == {"succeeded", "failed", "partial", "unknown"}

Codes == {"none", "preflight", "native_rejected", "stale_binding", "conflict",
          "capacity", "stale_runtime", "store_failure", "outcome_unknown"}

OutcomeType == [kind : Kinds, code : Codes, gen : Int]

Succeeded(g)      == [kind |-> "succeeded", code |-> "none", gen |-> g]
Failed(c)         == [kind |-> "failed", code |-> c, gen |-> NoGen]
Partial(c)        == [kind |-> "partial", code |-> c, gen |-> NoGen]
OutcomeUnknown(c) == [kind |-> "unknown", code |-> c, gen |-> NoGen]
NoOutcome         == [kind |-> "unknown", code |-> "none", gen |-> NoGen]

Phases == {"absent", "reserved", "started", "known", "terminal"}

(* A receipt. Phase "absent" is a key the store has no row for. *)
ReceiptType ==
    [phase : Phases, category : Categories, request : Requests,
     outcome : OutcomeType, gen : Int]

VARIABLES
    epoch,      \* epoch of the last acquisition
    leaseLive,  \* the lease row of that epoch has not expired
    open,       \* epochs whose Gateway accepts actions
    receipts,   \* [Keys -> ReceiptType]
    bound,      \* [Conversations -> Thread, NoThread or Unbound]
    gens,       \* [Conversations -> generation of the binding row]
    floors,     \* [Conversations -> generation floor]
    routes,     \* projection routes: Thread, Conversation pairs
    gone,       \* history: Threads whose routes a native deletion dropped
    touched,    \* history: workflow keys whose Conversation was rebound by
                \* another action between their reservation and their end
    mutated     \* history: [Keys -> binding mutations committed for the key]

leaseVars   == <<epoch, leaseLive, open>>
bindingVars == <<bound, gens, floors, routes, gone>>
ghostVars   == <<touched, mutated>>
storeVars   == <<leaseVars, receipts, bindingVars, ghostVars>>

Phase(a)  == receipts[a].phase
Exists(a) == Phase(a) # "absent"

AnyRequest == CHOOSE q \in Requests : TRUE

AbsentReceipt ==
    [phase    |-> "absent",
     category |-> "gateway",
     request  |-> AnyRequest,
     outcome  |-> NoOutcome,
     gen      |-> NoGen]

StoreTypeOK ==
    /\ epoch \in 0..MaxEpoch
    /\ leaseLive \in BOOLEAN
    /\ open \subseteq 1..epoch
    /\ receipts \in [Keys -> ReceiptType]
    /\ bound \in [Conversations -> Threads \cup {NoThread, Unbound}]
    /\ gens \in [Conversations -> Nat]
    /\ floors \in [Conversations -> Nat]
    /\ routes \subseteq Threads \X Conversations
    /\ gone \subseteq Threads
    /\ touched \subseteq Keys
    /\ mutated \in [Keys -> Nat]

StoreInit ==
    /\ epoch = 0
    /\ leaseLive = FALSE
    /\ open = {}
    /\ receipts = [a \in Keys |-> AbsentReceipt]
    /\ bound = [c \in Conversations |-> Unbound]
    /\ gens = [c \in Conversations |-> 0]
    /\ floors = [c \in Conversations |-> 0]
    /\ routes = {}
    /\ gone = {}
    /\ touched = {}
    /\ mutated = [a \in Keys |-> 0]

-----------------------------------------------------------------------------
(* The runtime lease. *)

(* Mutant of Fenced: the epoch is not compared. *)
FencedByAnyLease(e) == leaseLive

(* _assert_fence_locked: owner token and epoch match and the lease is live. *)
Fenced(e) == leaseLive /\ e = epoch

(* acquire_runtime: refused while another owner's lease is live; otherwise
   the epoch advances. Gateway.start then opens the runtime for actions. *)
AcquireRuntime ==
    /\ ~leaseLive
    /\ epoch < MaxEpoch
    /\ epoch' = epoch + 1
    /\ leaseLive' = TRUE
    /\ open' = open \cup {epoch + 1}
    /\ UNCHANGED <<receipts, bindingVars, ghostVars>>

(* Time passes the expiry of the lease: no renewal came in time. *)
LeaseExpires ==
    /\ leaseLive
    /\ leaseLive' = FALSE
    /\ UNCHANGED <<epoch, open, receipts, bindingVars, ghostVars>>

(* _close_owned_resources: stop on request, or because a renewal found the
   fence stale. New actions are refused, then the session releases the
   lease if it still owns it. Actions in flight keep running. *)
CloseRuntime(e) ==
    /\ e \in open
    /\ open' = open \ {e}
    /\ leaseLive' = (leaseLive /\ ~Fenced(e))
    /\ UNCHANGED <<epoch, receipts, bindingVars, ghostVars>>

-----------------------------------------------------------------------------
(* Bindings. *)

(* _generation_from_maps: the larger of the row's generation and the floor. *)
Generation(c) ==
    LET row == IF bound[c] = Unbound THEN 0 ELSE gens[c]
    IN  IF row >= floors[c] THEN row ELSE floors[c]

(* History only: the unfinished workflows another action's binding write
   on Conversation c overtakes. *)
Overtaken(a, c) ==
    {b \in Keys \ {a} :
        /\ Phase(b) \in {"reserved", "started", "known"}
        /\ receipts[b].category = "workflow"
        /\ receipts[b].request.conv = c}

WriteBinding(a, c, t, g) ==
    /\ bound' = [bound EXCEPT ![c] = t]
    /\ gens' = [gens EXCEPT ![c] = g]
    /\ floors' = [floors EXCEPT ![c] = g]
    /\ touched' = touched \cup Overtaken(a, c)
    /\ mutated' = [mutated EXCEPT ![a] = @ + 1]

(* Mutant of DeleteBinding: the generation floor goes with the row. *)
DeleteBindingAndFloor(a, c, g) ==
    /\ bound' = [bound EXCEPT ![c] = Unbound]
    /\ gens' = [gens EXCEPT ![c] = 0]
    /\ floors' = [floors EXCEPT ![c] = 0]
    /\ touched' = touched \cup Overtaken(a, c)
    /\ mutated' = [mutated EXCEPT ![a] = @ + 1]

DeleteBinding(a, c, g) ==
    /\ bound' = [bound EXCEPT ![c] = Unbound]
    /\ gens' = [gens EXCEPT ![c] = 0]
    /\ floors' = [floors EXCEPT ![c] = g]
    /\ touched' = touched \cup Overtaken(a, c)
    /\ mutated' = [mutated EXCEPT ![a] = @ + 1]

(* _resolve_binding_change with the write it selects. "clear" stands for
   the THREAD and PROJECT scopes, "delete" for the APPLICATION scope. *)
ChangeBinding(q) ==
    LET g == Generation(q.conv) + 1 IN
    \/ /\ q.change = "bind"
       /\ WriteBinding(q.key, q.conv, q.target, g)
    \/ /\ q.change = "clear"
       /\ bound[q.conv] # Unbound
       /\ WriteBinding(q.key, q.conv, NoThread, g)
    \/ /\ \/ q.change = "delete"
          \/ q.change = "clear" /\ bound[q.conv] = Unbound
       /\ DeleteBinding(q.key, q.conv, g)
    \/ /\ q.change = "none"
       /\ UNCHANGED <<bound, gens, floors, touched, mutated>>

ResultGeneration(q) == Generation(q.conv) + (IF q.change = "none" THEN 0 ELSE 1)

(* _apply_route_plan, against the binding the same transaction wrote. Route
   identities are derived from their endpoints, so an upsert meets only the
   route of its own endpoints and a deletion only one of its Conversation. *)
ApplyRoutePlan(q) ==
    LET r == <<q.target, q.conv>> IN
    \/ q.route = "upsert" /\ routes' = routes \cup {r}
    \/ /\ \/ q.route = "delete"
          \/ q.route = "delete_unless_bound" /\ bound'[q.conv] # q.target
       /\ routes' = routes \ {r}
    \/ /\ \/ q.route = "none"
          \/ q.route = "delete_unless_bound" /\ bound'[q.conv] = q.target
       /\ UNCHANGED routes

(* Deletion of a native Thread drops its routes (delete_projection_routes
   through _mutate); the bindings are left alone. *)
DropThreadRoutes(e, t) ==
    /\ Fenced(e)
    /\ t \notin gone
    /\ routes' = routes \ ({t} \X Conversations)
    /\ gone' = gone \cup {t}
    /\ UNCHANGED <<leaseVars, receipts, bound, gens, floors, ghostVars>>

-----------------------------------------------------------------------------
(* Effect receipts. Each operation is guarded by Fenced at its caller. *)

(* _existing_receipt_locked finds the key used by another fingerprint. *)
Conflicts(q) == Exists(q.key) /\ receipts[q.key].request # q

(* _reserve_capacity_locked *)
Full == Cardinality({a \in Keys : Exists(a)}) >= MaxReceipts

NewReceipt(q, phase, outcome, g) ==
    receipts' = [receipts EXCEPT ![q.key] =
        [phase |-> phase, category |-> q.category, request |-> q,
         outcome |-> outcome, gen |-> g]]

SetReceipt(a, phase, outcome) ==
    receipts' = [receipts EXCEPT ![a] =
        [phase |-> phase, category |-> @.category, request |-> @.request,
         outcome |-> outcome, gen |-> @.gen]]

(* _commit_store_preflight_failure *)
CommitStorePreflightFailure(q) ==
    /\ \/ Exists(q.key) /\ UNCHANGED receipts
       \/ /\ ~Exists(q.key) /\ ~Full
          /\ NewReceipt(q, "terminal", Failed("preflight"), NoGen)
    /\ UNCHANGED <<leaseVars, bindingVars, ghostVars>>

(* _commit_store_mutation: replay, refuse on a stale generation, or change
   the binding and the route together with the terminal receipt. *)
CommitStoreMutation(q) ==
    \/ /\ Exists(q.key)
       /\ UNCHANGED <<receipts, bindingVars, ghostVars, leaseVars>>
    \/ /\ ~Exists(q.key) /\ ~Full
       /\ q.expected \notin {NoGen, Generation(q.conv)}
       /\ NewReceipt(q, "terminal", Failed("stale_binding"), NoGen)
       /\ UNCHANGED <<bindingVars, ghostVars, leaseVars>>
    \/ /\ ~Exists(q.key) /\ ~Full
       /\ q.expected \in {NoGen, Generation(q.conv)}
       /\ ChangeBinding(q)
       /\ ApplyRoutePlan(q)
       /\ NewReceipt(q, "terminal", Succeeded(ResultGeneration(q)), NoGen)
       /\ UNCHANGED <<gone, leaseVars>>

(* _reserve_effect: a workflow captures the generation it starts from. *)
ReserveEffect(q) ==
    /\ \/ Exists(q.key) /\ UNCHANGED receipts
       \/ /\ ~Exists(q.key) /\ ~Full
          /\ NewReceipt(q, "reserved", NoOutcome,
                        IF q.category = "workflow" THEN Generation(q.conv)
                                                   ELSE NoGen)
    /\ UNCHANGED <<leaseVars, bindingVars, ghostVars>>

(* _mark_native_side_effect_started: only a reserved receipt advances. *)
MarkNativeSideEffectStarted(a) ==
    /\ \/ Phase(a) = "reserved" /\ SetReceipt(a, "started", NoOutcome)
       \/ Phase(a) # "reserved" /\ UNCHANGED receipts
    /\ UNCHANGED <<leaseVars, bindingVars, ghostVars>>

(* Mutant of RecordEffectPreflightFailure: any unfinished receipt fails. *)
FailPreflightInAnyPhase(a) ==
    /\ \/ Phase(a) # "terminal" /\ SetReceipt(a, "terminal", Failed("preflight"))
       \/ Phase(a) = "terminal" /\ UNCHANGED receipts
    /\ UNCHANGED <<leaseVars, bindingVars, ghostVars>>

(* _record_effect_preflight_failure *)
RecordEffectPreflightFailure(a) ==
    /\ \/ /\ Phase(a) = "reserved"
          /\ SetReceipt(a, "terminal", Failed("preflight"))
       \/ Phase(a) # "reserved" /\ UNCHANGED receipts
    /\ UNCHANGED <<leaseVars, bindingVars, ghostVars>>

(* _record_effect_outcome raises instead of writing: before the fence, once
   the created reference is known, or when a workflow success would become
   terminal without its binding. *)
RecordRaises(a, phase, outcome) ==
    \/ Phase(a) \in {"absent", "reserved", "known"}
    \/ /\ Phase(a) = "started"
       /\ phase = "known"
       /\ ~(receipts[a].category = "workflow" /\ outcome.kind = "succeeded")
    \/ /\ Phase(a) = "started"
       /\ phase = "terminal"
       /\ receipts[a].category = "workflow"
       /\ outcome.kind = "succeeded"

(* Mutant of RecordEffectOutcome: a terminal receipt is written again. *)
RecordOverTerminal(a, phase, outcome) ==
    /\ ~RecordRaises(a, phase, outcome)
    /\ SetReceipt(a, phase, outcome)
    /\ UNCHANGED <<leaseVars, bindingVars, ghostVars>>

(* _record_effect_outcome when it does not raise: a terminal receipt is
   returned as it is. *)
RecordEffectOutcome(a, phase, outcome) ==
    /\ ~RecordRaises(a, phase, outcome)
    /\ \/ Phase(a) = "terminal" /\ UNCHANGED receipts
       \/ Phase(a) # "terminal" /\ SetReceipt(a, phase, outcome)
    /\ UNCHANGED <<leaseVars, bindingVars, ghostVars>>

(* _commit_workflow_binding: the binding and the foreground route are
   written with the terminal receipt, and only under the generation the
   workflow was reserved with. *)
CommitWorkflowBinding(q) ==
    \/ /\ Phase(q.key) = "terminal"
       /\ UNCHANGED storeVars
    \/ /\ Phase(q.key) = "known"
       /\ Generation(q.conv) # receipts[q.key].gen
       /\ SetReceipt(q.key, "terminal", Partial("stale_binding"))
       /\ UNCHANGED <<leaseVars, bindingVars, ghostVars>>
    \/ /\ Phase(q.key) = "known"
       /\ Generation(q.conv) = receipts[q.key].gen
       /\ WriteBinding(q.key, q.conv, q.target, Generation(q.conv) + 1)
       /\ ApplyRoutePlan(q)
       /\ SetReceipt(q.key, "terminal", Succeeded(Generation(q.conv) + 1))
       /\ UNCHANGED <<gone, leaseVars>>

=============================================================================

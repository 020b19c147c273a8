------------------------- MODULE MCEffectExecution -------------------------
(***************************************************************************)
(* Instances of EffectExecution for TLC.  A behaviour is of one of them,   *)
(* its part: they differ in the requests the calls make, in how a store    *)
(* call can fail and in how often the store changes hands.                 *)
(***************************************************************************)
EXTENDS EffectExecution, FiniteSets, TLC

CONSTANTS Parts, a1, a2, a3, c1, t1

VARIABLE part

Bind(key, t, expected) ==
    [key |-> key, category |-> "gateway", conv |-> c1, target |-> t,
     change |-> "bind", route |-> "upsert", expected |-> expected]

ClearBinding(key, change) ==
    [key |-> key, category |-> "gateway", conv |-> c1, target |-> NoThread,
     change |-> change, route |-> "none", expected |-> NoGen]

ClearObservation(key, t) ==
    [key |-> key, category |-> "gateway", conv |-> c1, target |-> t,
     change |-> "none", route |-> "delete_unless_bound", expected |-> NoGen]

Native(key, category) ==
    [key |-> key, category |-> category, conv |-> c1, target |-> NoThread,
     change |-> "none", route |-> "none", expected |-> NoGen]

CreateAndBind(key, t) ==
    [key |-> key, category |-> "workflow", conv |-> c1, target |-> t,
     change |-> "bind", route |-> "upsert", expected |-> NoGen]

(* One native action. *)
NativeRequests == {Native(a1, "native")}

(* A create-and-bind workflow racing explicit binding changes, its key
   reused for another payload. *)
WorkflowRequests ==
    {CreateAndBind(a1, t1), ClearBinding(a2, "clear"), ClearBinding(a3, "delete"),
     Native(a1, "request_response")}

(* Binding and route mutations alone, one with an expected generation. *)
BindingRequests ==
    {Bind(a1, t1, NoGen), Bind(a2, t1, 1), ClearBinding(a2, "clear"),
     ClearObservation(a3, t1)}

AllRequests == NativeRequests \cup WorkflowRequests \cup BindingRequests

\* Gateway actions keep foreground routes by default.
ASSUME RoutesAreForeground == ForegroundRoutes

\* Two cancelled and failing calls of one native action, over a takeover.
NativeCalls == INSTANCE EffectExecution WITH
    Requests <- NativeRequests, Deletable <- {}, MaxReceipts <- 1

OnlyTwoCalls == Cardinality({k \in Calls : calls'[k].pc # "idle"}) <= 2

\* A workflow and the binding changes it races in one process.
WorkflowCalls == INSTANCE EffectExecution WITH
    Requests <- WorkflowRequests, Deletable <- {}, Faults <- {"error"}, MaxEpoch <- 1

\* A workflow retried and reconciled over a takeover.
ReconciledCalls == INSTANCE EffectExecution WITH
    Requests <- {CreateAndBind(a1, t1)}, Deletable <- {}, Faults <- {"error"}

\* Binding changes of one process, as many as the store has receipts for.
BindingCalls == INSTANCE EffectExecution WITH
    Requests <- BindingRequests, Faults <- {"error"}, MaxEpoch <- 1

MCInit ==
    /\ part \in Parts
    /\ CASE part = "native" -> NativeCalls!Init
         [] part = "workflow" -> WorkflowCalls!Init
         [] part = "reconcile" -> ReconciledCalls!Init
         [] part = "binding" -> BindingCalls!Init

MCNext ==
    /\ \/ part = "native" /\ NativeCalls!Next /\ OnlyTwoCalls
       \/ part = "workflow" /\ WorkflowCalls!Next
       \/ part = "reconcile" /\ ReconciledCalls!Next
       \/ part = "binding" /\ BindingCalls!Next
    /\ UNCHANGED part

MCSpec == MCInit /\ [][MCNext]_<<vars, part>>

CallSymmetry == Permutations(Calls)

=============================================================================

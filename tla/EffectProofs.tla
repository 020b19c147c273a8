---------------------------- MODULE EffectProofs ----------------------------
(***************************************************************************)
(* Proofs about EffectExecution for every number of keys, requests, calls, *)
(* processes and epochs.                                                   *)
(***************************************************************************)
EXTENDS EffectExecution, TLAPS

-----------------------------------------------------------------------------
(* Typing of the pieces the actions are built from. *)

LEMMA OutcomesTyped ==
    /\ NoOutcome \in OutcomeType
    /\ \A c \in Codes : /\ Failed(c) \in OutcomeType
                        /\ Partial(c) \in OutcomeType
                        /\ OutcomeUnknown(c) \in OutcomeType
    /\ \A g \in Int : Succeeded(g) \in OutcomeType
  BY DEF NoOutcome, Failed, Partial, OutcomeUnknown, Succeeded, OutcomeType,
         Codes, Kinds, NoGen

LEMMA ResultsTyped ==
    /\ OutcomeType \subseteq ResultType
    /\ \A kind \in {"pending", "cancelled", "raised", "internal_error"} :
          Raised(kind) \in ResultType
  BY DEF OutcomeType, ResultType, Raised, Codes, Kinds, NoGen

LEMMA CodesTyped ==
    \A err \in Errors : Code(err) \in Codes /\ UnknownCode(err) \in Codes
  BY DEF Errors, Code, UnknownCode, Codes

LEMMA RequestsTyped ==
    \A q \in Requests :
        /\ q.key \in Keys
        /\ q.category \in Categories
        /\ q.conv \in Conversations
        /\ q.target \in Threads \cup {NoThread}
        /\ q.change \in {"bind", "clear", "delete", "none"}
        /\ q.route # "none" => q.target \in Threads
  BY StoreAssumption DEF RequestType

LEMMA SomeRequest == AnyRequest \in Requests
  BY StoreAssumption DEF AnyRequest

LEMMA GenerationTyped ==
    ASSUME StoreTypeOK, NEW c \in Conversations
    PROVE  Generation(c) \in Nat
  BY DEF StoreTypeOK, Generation

-----------------------------------------------------------------------------
(* What moving one call does to the calls. *)

(* Call k moved to pc and kept its request; the other calls did not move. *)
Moved(k, pc) ==
    /\ calls' \in [Calls -> CallType]
    /\ \A j \in Calls \ {k} : calls'[j] = calls[j]
    /\ calls'[k].pc = pc
    /\ calls'[k].request = calls[k].request

LEMMA GotoMoves ==
    ASSUME ExecTypeOK, NEW k \in Calls, NEW pc \in PCs, Goto(k, pc)
    PROVE  Moved(k, pc)
  BY DEF ExecTypeOK, Goto, Move, Moved, CallType

LEMMA FailMoves ==
    ASSUME ExecTypeOK, NEW k \in Calls, NEW pc \in PCs, NEW err \in Errors,
           Fail(k, pc, err)
    PROVE  Moved(k, pc)
  BY DEF ExecTypeOK, Fail, Move, Moved, CallType

LEMMA HoldMoves ==
    ASSUME ExecTypeOK, NEW k \in Calls, NEW pc \in PCs, NEW o \in OutcomeType,
           Hold(k, pc, o)
    PROVE  Moved(k, pc)
  BY DEF ExecTypeOK, Hold, Move, Moved, CallType

LEMMA ReturnMoves ==
    ASSUME ExecTypeOK, NEW k \in Calls, NEW o \in ResultType, Return(k, o)
    PROVE  Moved(k, "done")
  BY OutcomesTyped DEF ExecTypeOK, Return, Move, Moved, CallType, PCs, Errors

-----------------------------------------------------------------------------
(* Typing of the store's operations. *)

LEMMA AbsentTyped == AbsentReceipt \in ReceiptType
  BY SomeRequest, OutcomesTyped
     DEF AbsentReceipt, ReceiptType, Phases, Categories, NoGen

LEMMA NewReceiptTyped ==
    ASSUME StoreTypeOK, NEW q \in Requests, NEW phase \in Phases,
           NEW o \in OutcomeType, NEW g \in Int, NewReceipt(q, phase, o, g)
    PROVE  receipts' \in [Keys -> ReceiptType]
  BY RequestsTyped DEF StoreTypeOK, NewReceipt, ReceiptType

LEMMA SetReceiptTyped ==
    ASSUME StoreTypeOK, NEW a \in Keys, NEW phase \in Phases,
           NEW o \in OutcomeType, SetReceipt(a, phase, o)
    PROVE  receipts' \in [Keys -> ReceiptType]
  BY DEF StoreTypeOK, SetReceipt, ReceiptType

(* An operation that writes a receipt and nothing else. *)
LEMMA ReceiptWriteTyped ==
    ASSUME StoreTypeOK, receipts' \in [Keys -> ReceiptType],
           UNCHANGED <<leaseVars, bindingVars, ghostVars>>
    PROVE  StoreTypeOK'
  BY DEF StoreTypeOK, leaseVars, bindingVars, ghostVars

LEMMA StoreUnchangedTyped ==
    ASSUME StoreTypeOK, UNCHANGED storeVars
    PROVE  StoreTypeOK'
  BY DEF StoreTypeOK, storeVars, leaseVars, bindingVars, ghostVars

(* An operation that writes a binding, its route and a receipt. *)
LEMMA BindingWriteTyped ==
    ASSUME StoreTypeOK, NEW q \in Requests,
           receipts' \in [Keys -> ReceiptType],
           \/ \E g \in Nat, t \in Threads \cup {NoThread} :
                 WriteBinding(q.key, q.conv, t, g)
           \/ \E g \in Nat : DeleteBinding(q.key, q.conv, g)
           \/ UNCHANGED <<bound, gens, floors, touched, mutated>>,
           ApplyRoutePlan(q),
           UNCHANGED <<gone, leaseVars>>
    PROVE  StoreTypeOK'
<1>1. /\ bound' \in [Conversations -> Threads \cup {NoThread, Unbound}]
      /\ gens' \in [Conversations -> Nat]
      /\ floors' \in [Conversations -> Nat]
      /\ touched' \subseteq Keys
      /\ mutated' \in [Keys -> Nat]
  BY RequestsTyped DEF StoreTypeOK, WriteBinding, DeleteBinding, Overtaken
<1>2. routes' \subseteq Threads \X Conversations
  BY RequestsTyped DEF StoreTypeOK, ApplyRoutePlan
<1>3. QED
  BY <1>1, <1>2 DEF StoreTypeOK, leaseVars

-----------------------------------------------------------------------------
(* The store never takes a receipt back. *)

(* What every operation of the store guarantees: it keeps the types, no
   receipt returns to before the fence and no terminal receipt changes. *)
Advances ==
    /\ StoreTypeOK'
    /\ \A a \in Keys : Late(a) => Late(a)'
    /\ \A a \in Keys : Phase(a) = "terminal" => receipts'[a] = receipts[a]

LEMMA UnchangedAdvances ==
    ASSUME StoreTypeOK, UNCHANGED storeVars
    PROVE  Advances
  BY StoreUnchangedTyped DEF Advances, Late, Phase, storeVars

LEMMA NewReceiptAdvances ==
    ASSUME StoreTypeOK, StoreTypeOK', NEW q \in Requests, NEW phase, NEW o, NEW g,
           ~Exists(q.key), NewReceipt(q, phase, o, g)
    PROVE  Advances
  BY RequestsTyped DEF StoreTypeOK, Advances, Late, Phase, Exists, NewReceipt

LEMMA SetReceiptAdvances ==
    ASSUME StoreTypeOK, StoreTypeOK', NEW a \in Keys, NEW o,
           NEW phase \in {"started", "known", "terminal"},
           Phase(a) # "terminal", SetReceipt(a, phase, o)
    PROVE  Advances
  BY DEF StoreTypeOK, Advances, Late, Phase, SetReceipt

LEMMA StorePreflightFailureAdvances ==
    ASSUME StoreTypeOK, NEW q \in Requests, CommitStorePreflightFailure(q)
    PROVE  Advances
<1>1. CASE Exists(q.key) /\ UNCHANGED receipts
  BY <1>1, UnchangedAdvances DEF CommitStorePreflightFailure, storeVars
<1>2. CASE ~Exists(q.key) /\ NewReceipt(q, "terminal", Failed("preflight"), NoGen)
  <2>1. Failed("preflight") \in OutcomeType /\ NoGen \in Int /\ "terminal" \in Phases
    BY OutcomesTyped DEF Codes, NoGen, Phases
  <2>2. StoreTypeOK'
    BY <1>2, <2>1, NewReceiptTyped, ReceiptWriteTyped DEF CommitStorePreflightFailure
  <2>3. QED
    BY <1>2, <2>2, NewReceiptAdvances
<1>3. QED
  BY <1>1, <1>2 DEF CommitStorePreflightFailure

LEMMA StoreMutationAdvances ==
    ASSUME StoreTypeOK, NEW q \in Requests, CommitStoreMutation(q)
    PROVE  Advances
<1>0. /\ Generation(q.conv) \in Nat
      /\ ResultGeneration(q) \in Int
      /\ NoGen \in Int
      /\ "terminal" \in Phases
  BY GenerationTyped, RequestsTyped DEF ResultGeneration, NoGen, Phases
<1>1. CASE UNCHANGED <<receipts, bindingVars, ghostVars, leaseVars>>
  BY <1>1, UnchangedAdvances DEF storeVars
<1>2. CASE /\ ~Exists(q.key)
           /\ NewReceipt(q, "terminal", Failed("stale_binding"), NoGen)
           /\ UNCHANGED <<bindingVars, ghostVars, leaseVars>>
  <2>1. Failed("stale_binding") \in OutcomeType
    BY OutcomesTyped DEF Codes
  <2>2. StoreTypeOK'
    BY <1>0, <1>2, <2>1, NewReceiptTyped, ReceiptWriteTyped
  <2>3. QED
    BY <1>2, <2>2, NewReceiptAdvances
<1>3. CASE /\ ~Exists(q.key)
           /\ ChangeBinding(q)
           /\ ApplyRoutePlan(q)
           /\ NewReceipt(q, "terminal", Succeeded(ResultGeneration(q)), NoGen)
           /\ UNCHANGED <<gone, leaseVars>>
  <2>1. receipts' \in [Keys -> ReceiptType]
    BY <1>0, <1>3, OutcomesTyped, NewReceiptTyped
  <2>2. \/ \E g \in Nat, t \in Threads \cup {NoThread} :
              WriteBinding(q.key, q.conv, t, g)
        \/ \E g \in Nat : DeleteBinding(q.key, q.conv, g)
        \/ UNCHANGED <<bound, gens, floors, touched, mutated>>
    <3>1. Generation(q.conv) + 1 \in Nat /\ q.target \in Threads \cup {NoThread}
      BY <1>0, RequestsTyped
    <3>2. QED
      BY <1>3, <3>1 DEF ChangeBinding
  <2>3. StoreTypeOK'
    BY <1>3, <2>1, <2>2, BindingWriteTyped
  <2>4. QED
    BY <1>3, <2>3, NewReceiptAdvances
<1>4. QED
  BY <1>1, <1>2, <1>3 DEF CommitStoreMutation

LEMMA ReserveAdvances ==
    ASSUME StoreTypeOK, NEW q \in Requests, ReserveEffect(q)
    PROVE  Advances
<1> DEFINE g == IF q.category = "workflow" THEN Generation(q.conv) ELSE NoGen
<1>1. CASE UNCHANGED receipts
  BY <1>1, UnchangedAdvances DEF ReserveEffect, storeVars
<1>2. CASE ~Exists(q.key) /\ NewReceipt(q, "reserved", NoOutcome, g)
  <2>1. g \in Int /\ NoOutcome \in OutcomeType /\ "reserved" \in Phases
    BY GenerationTyped, RequestsTyped, OutcomesTyped DEF NoGen, Phases
  <2> HIDE DEF g
  <2>2. StoreTypeOK'
    BY <1>2, <2>1, NewReceiptTyped, ReceiptWriteTyped DEF ReserveEffect
  <2>3. QED
    BY <1>2, <2>2, NewReceiptAdvances
<1>3. QED
  BY <1>1, <1>2 DEF ReserveEffect

(* The operations that only advance the receipt of a key. *)
LEMMA TransitionAdvances ==
    ASSUME StoreTypeOK, NEW a \in Keys, NEW o \in OutcomeType,
           NEW phase \in {"started", "known", "terminal"},
           \/ UNCHANGED receipts
           \/ Phase(a) # "terminal" /\ SetReceipt(a, phase, o),
           UNCHANGED <<leaseVars, bindingVars, ghostVars>>
    PROVE  Advances
<1>1. CASE UNCHANGED receipts
  BY <1>1, UnchangedAdvances DEF storeVars
<1>2. CASE Phase(a) # "terminal" /\ SetReceipt(a, phase, o)
  <2>1. phase \in Phases
    BY DEF Phases
  <2>2. StoreTypeOK'
    BY <1>2, <2>1, SetReceiptTyped, ReceiptWriteTyped
  <2>3. QED
    BY <1>2, <2>2, SetReceiptAdvances
<1>3. QED
  BY <1>1, <1>2

LEMMA MarkAdvances ==
    ASSUME StoreTypeOK, NEW a \in Keys, MarkNativeSideEffectStarted(a)
    PROVE  Advances
  BY TransitionAdvances, OutcomesTyped DEF MarkNativeSideEffectStarted

LEMMA PreflightFailureAdvances ==
    ASSUME StoreTypeOK, NEW a \in Keys, RecordEffectPreflightFailure(a)
    PROVE  Advances
<1>1. Failed("preflight") \in OutcomeType
  BY OutcomesTyped DEF Codes
<1>2. QED
  BY <1>1, TransitionAdvances DEF RecordEffectPreflightFailure

LEMMA RecordAdvances ==
    ASSUME StoreTypeOK, NEW a \in Keys, NEW o \in OutcomeType,
           NEW phase \in {"started", "known", "terminal"},
           RecordEffectOutcome(a, phase, o)
    PROVE  Advances
  BY TransitionAdvances DEF RecordEffectOutcome

LEMMA CommitWorkflowAdvances ==
    ASSUME StoreTypeOK, NEW q \in Requests, CommitWorkflowBinding(q)
    PROVE  Advances
<1>0. /\ q.key \in Keys
      /\ q.target \in Threads \cup {NoThread}
      /\ Generation(q.conv) + 1 \in Nat
  BY RequestsTyped, GenerationTyped
<1>1. CASE UNCHANGED storeVars
  BY <1>1, UnchangedAdvances
<1>2. CASE /\ Phase(q.key) = "known"
           /\ SetReceipt(q.key, "terminal", Partial("stale_binding"))
           /\ UNCHANGED <<leaseVars, bindingVars, ghostVars>>
  <2>1. Partial("stale_binding") \in OutcomeType
    BY OutcomesTyped DEF Codes
  <2>2. QED
    BY <1>0, <1>2, <2>1, TransitionAdvances
<1>3. CASE /\ Phase(q.key) = "known"
           /\ WriteBinding(q.key, q.conv, q.target, Generation(q.conv) + 1)
           /\ ApplyRoutePlan(q)
           /\ SetReceipt(q.key, "terminal", Succeeded(Generation(q.conv) + 1))
           /\ UNCHANGED <<gone, leaseVars>>
  <2>1. Succeeded(Generation(q.conv) + 1) \in OutcomeType /\ "terminal" \in Phases
    BY <1>0, OutcomesTyped DEF Phases
  <2>2. receipts' \in [Keys -> ReceiptType]
    BY <1>0, <1>3, <2>1, SetReceiptTyped
  <2>3. StoreTypeOK'
    BY <1>0, <1>3, <2>2, BindingWriteTyped
  <2>4. QED
    BY <1>0, <1>3, <2>3, SetReceiptAdvances
<1>4. QED
  BY <1>1, <1>2, <1>3 DEF CommitWorkflowBinding

-----------------------------------------------------------------------------
(* Steps of a call that neither reach nor leave the native callback. *)

(* Call k moved, but not to the callback, and the store only advanced. *)
Quiet(k) ==
    /\ Advances
    /\ \E pc \in PCs \ {"invoke"} : Moved(k, pc)
    /\ UNCHANGED nativeVars

LEMMA CallTyped ==
    ASSUME TypeOK, NEW k \in Calls
    PROVE  /\ StoreTypeOK
           /\ ExecTypeOK
           /\ Req(k) \in Requests
           /\ Key(k) \in Keys
           /\ calls[k].held \in OutcomeType
           /\ calls[k].err \in Errors
           /\ receipts[Key(k)].outcome \in OutcomeType
<1>1. StoreTypeOK /\ ExecTypeOK
  BY DEF TypeOK
<1>2. /\ Req(k) \in Requests
      /\ calls[k].held \in OutcomeType
      /\ calls[k].err \in Errors
  BY <1>1 DEF ExecTypeOK, CallType, Req
<1>3. Key(k) \in Keys
  BY <1>2, RequestsTyped DEF Req, Key
<1>4. receipts[Key(k)].outcome \in OutcomeType
  BY <1>1, <1>3 DEF StoreTypeOK, ReceiptType
<1>5. QED
  BY <1>1, <1>2, <1>3, <1>4

(* How a quiet step may move its call. *)
QuietMove(k) ==
    \/ \E o \in ResultType : Return(k, o)
    \/ \E pc \in PCs \ {"invoke"} : Goto(k, pc)
    \/ \E pc \in PCs \ {"invoke"}, err \in Errors : Fail(k, pc, err)
    \/ \E pc \in PCs \ {"invoke"}, o \in OutcomeType : Hold(k, pc, o)

LEMMA QuietMoves ==
    ASSUME ExecTypeOK, NEW k \in Calls, QuietMove(k)
    PROVE  \E pc \in PCs \ {"invoke"} : Moved(k, pc)
<1>1. "done" \in PCs \ {"invoke"}
  BY DEF PCs
<1>2. QED
  BY <1>1, ReturnMoves, GotoMoves, FailMoves, HoldMoves DEF QuietMove

(* What a caller can be given is typed. *)
LEMMA AnswersTyped ==
    /\ \A err \in Errors : /\ Failed(Code(err)) \in ResultType
                           /\ Partial(Code(err)) \in ResultType
                           /\ OutcomeUnknown(UnknownCode(err)) \in ResultType
    /\ \A c \in Codes : /\ Failed(c) \in ResultType
                        /\ Partial(c) \in ResultType
                        /\ OutcomeUnknown(c) \in ResultType
    /\ \A o \in OutcomeType : o \in ResultType
  BY CodesTyped, OutcomesTyped, ResultsTyped

LEMMA RefusalsTyped ==
    /\ Faults \subseteq Errors
    /\ \A k : Refusals(k) \subseteq Errors
  BY ExecutorAssumption DEF Refusals, Errors

(* A move to any other place than the callback. *)
LEMMA PlacesTyped ==
    {"read", "store_preflight", "commit_store", "reject_store", "recover",
     "reserve", "preflight", "reject", "read_preflight", "read_reject", "mark",
     "read_mark", "native", "record", "reread", "reconcile",
     "record_reconciled", "reread_reconciled", "get", "commit",
     "reread_commit", "unknown", "done"} \subseteq PCs \ {"invoke"}
  BY DEF PCs

LEMMA QuietOnUnchangedStore ==
    ASSUME TypeOK, NEW k \in Calls, QuietMove(k),
           UNCHANGED storeVars, UNCHANGED nativeVars
    PROVE  Quiet(k)
  BY CallTyped, QuietMoves, UnchangedAdvances DEF Quiet

LEMMA QuietOnAdvancedStore ==
    ASSUME TypeOK, NEW k \in Calls, QuietMove(k), Advances, UNCHANGED nativeVars
    PROVE  Quiet(k)
  BY CallTyped, QuietMoves DEF Quiet

(* The outcome a receipt holds after a store operation can be returned. *)
LEMMA NewOutcomeTyped ==
    ASSUME Advances, NEW a \in Keys
    PROVE  receipts'[a].outcome \in OutcomeType
  BY DEF Advances, StoreTypeOK, ReceiptType

LEMMA ReadStoreMutationReceiptQuiet ==
    ASSUME TypeOK, NEW k \in Calls, ReadStoreMutationReceipt(k)
    PROVE  Quiet(k)
<1>1. QuietMove(k)
  <2>1. CASE \E err \in Refusals(k) :
                Return(k, IF err = "cancel" THEN Raised("cancelled")
                                            ELSE Failed(Code(err)))
    BY <2>1, AnswersTyped, ResultsTyped, RefusalsTyped DEF QuietMove
  <2>2. CASE Return(k, Failed("conflict"))
    BY <2>2, AnswersTyped DEF Codes, QuietMove
  <2>3. CASE Return(k, receipts[Key(k)].outcome)
    BY <2>3, AnswersTyped, CallTyped DEF QuietMove
  <2>4. CASE Goto(k, "store_preflight")
    BY <2>4, PlacesTyped DEF QuietMove
  <2>5. QED
    BY <2>1, <2>2, <2>3, <2>4 DEF ReadStoreMutationReceipt
<1>2. QED
  BY <1>1, QuietOnUnchangedStore DEF ReadStoreMutationReceipt

LEMMA RunStorePreflightQuiet ==
    ASSUME TypeOK, NEW k \in Calls, RunStorePreflight(k)
    PROVE  Quiet(k)
<1>1. QuietMove(k)
  <2>1. CASE Goto(k, "commit_store") \/ Goto(k, "reject_store")
    BY <2>1, PlacesTyped DEF QuietMove
  <2>2. CASE Fail(k, "recover", "cancel")
    BY <2>2, PlacesTyped DEF QuietMove, Errors
  <2>3. CASE Return(k, Failed("store_failure"))
    BY <2>3, AnswersTyped DEF Codes, QuietMove
  <2>4. QED
    BY <2>1, <2>2, <2>3 DEF RunStorePreflight
<1>2. QED
  BY <1>1, QuietOnUnchangedStore DEF RunStorePreflight

LEMMA CommitStoreResultQuiet ==
    ASSUME TypeOK, NEW k \in Calls, CommitStoreResult(k)
    PROVE  Quiet(k)
<1>1. CASE /\ CommitStoreMutation(Req(k)) \/ CommitStorePreflightFailure(Req(k))
           /\ \/ Return(k, receipts'[Key(k)].outcome)
              \/ \E err \in Faults : Fail(k, "recover", err)
  <2>1. Advances
    BY <1>1, CallTyped, StoreMutationAdvances, StorePreflightFailureAdvances
  <2>2. QuietMove(k)
    <3>1. CASE Return(k, receipts'[Key(k)].outcome)
      BY <2>1, <3>1, CallTyped, NewOutcomeTyped, AnswersTyped DEF QuietMove
    <3>2. CASE \E err \in Faults : Fail(k, "recover", err)
      BY <3>2, PlacesTyped, RefusalsTyped DEF QuietMove
    <3>3. QED
      BY <1>1, <3>1, <3>2
  <2>3. QED
    BY <2>1, <2>2, QuietOnAdvancedStore DEF CommitStoreResult
<1>2. CASE /\ \/ \E err \in {"conflict", "capacity"} \cup Refusals(k) :
                     Fail(k, "recover", err)
              \/ Return(k, Failed("stale_runtime"))
           /\ UNCHANGED storeVars
  <2>1. QuietMove(k)
    <3>1. CASE Return(k, Failed("stale_runtime"))
      BY <3>1, AnswersTyped DEF Codes, QuietMove
    <3>2. {"conflict", "capacity"} \cup Refusals(k) \subseteq Errors
      BY RefusalsTyped DEF Errors
    <3>3. QED
      BY <1>2, <3>1, <3>2, PlacesTyped DEF QuietMove
  <2>2. QED
    BY <1>2, <2>1, QuietOnUnchangedStore DEF CommitStoreResult
<1>3. QED
  BY <1>1, <1>2 DEF CommitStoreResult

LEMMA RecoverStoreMutationOutcomeQuiet ==
    ASSUME TypeOK, NEW k \in Calls, RecoverStoreMutationOutcome(k)
    PROVE  Quiet(k)
<1>1. QuietMove(k)
  <2>1. CASE Return(k, Failed("conflict"))
    BY <2>1, AnswersTyped DEF Codes, QuietMove
  <2>2. CASE Return(k, receipts[Key(k)].outcome)
    BY <2>2, AnswersTyped, CallTyped DEF QuietMove
  <2>3. CASE Return(k, IF calls[k].err = "cancel" THEN Raised("cancelled")
                                                  ELSE Failed(Code(calls[k].err)))
    BY <2>3, AnswersTyped, ResultsTyped, CallTyped DEF QuietMove
  <2>4. QED
    BY <2>1, <2>2, <2>3 DEF RecoverStoreMutationOutcome
<1>2. QED
  BY <1>1, QuietOnUnchangedStore DEF RecoverStoreMutationOutcome

LEMMA ReserveQuiet ==
    ASSUME TypeOK, NEW k \in Calls, Reserve(k)
    PROVE  Quiet(k)
<1> DEFINE Failure(err) == Return(k, IF err = "cancel" THEN Raised("cancelled")
                                                       ELSE Failed(Code(err)))
<1>0. ASSUME NEW err \in Refusals(k) \cup Faults, Failure(err)
      PROVE  QuietMove(k)
  BY <1>0, AnswersTyped, ResultsTyped, RefusalsTyped DEF QuietMove
<1>1. CASE /\ ReserveEffect(Req(k))
           /\ \/ AfterReserve(k, receipts'[Key(k)])
              \/ \E err \in Faults : Failure(err)
  <2>1. Advances
    BY <1>1, CallTyped, ReserveAdvances
  <2>2. receipts'[Key(k)].outcome \in OutcomeType
    BY <2>1, CallTyped, NewOutcomeTyped
  <2>3. CASE AfterReserve(k, receipts'[Key(k)])
    <3>1. QuietMove(k)
      BY <2>2, <2>3, AnswersTyped, PlacesTyped DEF AfterReserve, QuietMove
    <3>2. QED
      BY <2>1, <3>1, QuietOnAdvancedStore DEF Reserve
  <2>4. CASE \E err \in Faults : Failure(err)
    BY <1>0, <2>1, <2>4, QuietOnAdvancedStore DEF Reserve
  <2>5. QED
    BY <1>1, <2>3, <2>4
<1>2. CASE /\ Return(k, Failed("conflict")) \/ Return(k, Failed("capacity"))
           /\ UNCHANGED storeVars
  <2>1. QuietMove(k)
    BY <1>2, AnswersTyped DEF Codes, QuietMove
  <2>2. QED
    BY <1>2, <2>1, QuietOnUnchangedStore DEF Reserve
<1>3. CASE (\E err \in Refusals(k) : Failure(err)) /\ UNCHANGED storeVars
  BY <1>0, <1>3, QuietOnUnchangedStore DEF Reserve
<1>4. QED
  BY <1>1, <1>2, <1>3 DEF Reserve

LEMMA RunNativePreflightQuiet ==
    ASSUME TypeOK, NEW k \in Calls, RunNativePreflight(k)
    PROVE  Quiet(k)
<1>1. QuietMove(k)
  <2>1. CASE Goto(k, "mark") \/ Goto(k, "reject") \/ Goto(k, "read_preflight")
    BY <2>1, PlacesTyped DEF QuietMove
  <2>2. CASE Return(k, Failed("store_failure"))
    BY <2>2, AnswersTyped DEF Codes, QuietMove
  <2>3. QED
    BY <2>1, <2>2 DEF RunNativePreflight
<1>2. QED
  BY <1>1, QuietOnUnchangedStore DEF RunNativePreflight

LEMMA RejectPreflightQuiet ==
    ASSUME TypeOK, NEW k \in Calls, RejectPreflight(k)
    PROVE  Quiet(k)
<1> DEFINE Failure(err) ==
              \/ err = "stale" /\ Return(k, Failed("stale_runtime"))
              \/ err = "cancel" /\ Goto(k, "read_preflight")
              \/ err = "error" /\ Goto(k, "read_reject")
<1>0. ASSUME NEW err, Failure(err)
      PROVE  QuietMove(k)
  <2>1. Failed("stale_runtime") \in ResultType
    BY AnswersTyped DEF Codes
  <2>2. QED
    BY <1>0, <2>1, PlacesTyped DEF QuietMove
<1>1. CASE /\ RecordEffectPreflightFailure(Key(k))
           /\ \/ Return(k, IF receipts'[Key(k)].phase = "terminal"
                           THEN receipts'[Key(k)].outcome
                           ELSE OutcomeUnknown("outcome_unknown"))
              \/ \E err \in Faults : Failure(err)
  <2>1. Advances
    BY <1>1, CallTyped, PreflightFailureAdvances
  <2>2. /\ receipts'[Key(k)].outcome \in ResultType
        /\ OutcomeUnknown("outcome_unknown") \in ResultType
    BY <2>1, CallTyped, NewOutcomeTyped, AnswersTyped DEF Codes
  <2>3. QuietMove(k)
    <3>1. CASE \E err \in Faults : Failure(err)
      BY <1>0, <3>1
    <3>2. QED
      BY <1>1, <2>2, <3>1 DEF QuietMove
  <2>4. QED
    BY <2>1, <2>3, QuietOnAdvancedStore DEF RejectPreflight
<1>2. CASE (\E err \in Refusals(k) : Failure(err)) /\ UNCHANGED storeVars
  BY <1>0, <1>2, QuietOnUnchangedStore DEF RejectPreflight
<1>3. QED
  BY <1>1, <1>2 DEF RejectPreflight

LEMMA ReadAfterPreflightQuiet ==
    ASSUME TypeOK, NEW k \in Calls, ReadAfterPreflight(k)
    PROVE  Quiet(k)
<1>1. /\ receipts[Key(k)].outcome \in ResultType
      /\ OutcomeUnknown("outcome_unknown") \in ResultType
      /\ Failed("store_failure") \in ResultType
      /\ Raised("cancelled") \in ResultType
  BY CallTyped, AnswersTyped, ResultsTyped DEF Codes
<1>2. QuietMove(k)
  BY <1>1 DEF ReadAfterPreflight, QuietMove
<1>3. QED
  BY <1>2, QuietOnUnchangedStore DEF ReadAfterPreflight

LEMMA ReadAfterFenceQuiet ==
    ASSUME TypeOK, NEW k \in Calls, ReadAfterFence(k)
    PROVE  Quiet(k)
<1>1. /\ receipts[Key(k)].outcome \in ResultType
      /\ Raised("cancelled") \in ResultType
  BY CallTyped, AnswersTyped, ResultsTyped
<1>2. QuietMove(k)
  BY <1>1, PlacesTyped DEF ReadAfterFence, QuietMove
<1>3. QED
  BY <1>2, QuietOnUnchangedStore DEF ReadAfterFence

LEMMA KnownOutcomeTyped ==
    ASSUME NEW a
    PROVE  KnownOutcome(a) \in OutcomeType
  BY OutcomesTyped DEF KnownOutcome, Codes, NoGen

LEMMA InvokeEndsQuiet ==
    ASSUME TypeOK, NEW k \in Calls, InvokeReturns(k) \/ InvokeRaises(k)
    PROVE  Quiet(k)
<1>1. QuietMove(k)
  BY KnownOutcomeTyped, OutcomesTyped, PlacesTyped
     DEF InvokeReturns, InvokeRaises, QuietMove, Codes
<1>2. QED
  BY <1>1, QuietOnUnchangedStore DEF InvokeReturns, InvokeRaises

LEMMA OutcomePhaseTyped ==
    ASSUME NEW k
    PROVE  OutcomePhase(k) \in {"started", "known", "terminal"}
  BY DEF OutcomePhase

LEMMA RecordOutcomeQuiet ==
    ASSUME TypeOK, NEW k \in Calls, RecordOutcome(k)
    PROVE  Quiet(k)
<1>1. CASE /\ RecordEffectOutcome(Key(k), OutcomePhase(k), calls[k].held)
           /\ \/ Return(k, receipts'[Key(k)].outcome)
              \/ Hold(k, "commit", receipts'[Key(k)].outcome)
              \/ \E err \in Faults : Fail(k, "reread", err)
  <2>1. Advances
    BY <1>1, CallTyped, OutcomePhaseTyped, RecordAdvances
  <2>2. receipts'[Key(k)].outcome \in OutcomeType
    BY <2>1, CallTyped, NewOutcomeTyped
  <2>3. QuietMove(k)
    BY <1>1, <2>2, AnswersTyped, PlacesTyped, RefusalsTyped DEF QuietMove
  <2>4. QED
    BY <2>1, <2>3, QuietOnAdvancedStore DEF RecordOutcome
<1>2. CASE /\ \E err \in {"error"} \cup Refusals(k) : Fail(k, "reread", err)
           /\ UNCHANGED storeVars
  <2>1. {"error"} \cup Refusals(k) \subseteq Errors
    BY RefusalsTyped DEF Errors
  <2>2. QuietMove(k)
    BY <1>2, <2>1, PlacesTyped DEF QuietMove
  <2>3. QED
    BY <1>2, <2>2, QuietOnUnchangedStore DEF RecordOutcome
<1>3. QED
  BY <1>1, <1>2 DEF RecordOutcome

LEMMA RereadOutcomeQuiet ==
    ASSUME TypeOK, NEW k \in Calls, RereadOutcome(k)
    PROVE  Quiet(k)
<1>1. /\ receipts[Key(k)].outcome \in OutcomeType
      /\ receipts[Key(k)].outcome \in ResultType
      /\ Partial(Code(calls[k].err)) \in ResultType
      /\ OutcomeUnknown(UnknownCode(calls[k].err)) \in ResultType
  BY CallTyped, AnswersTyped
<1>2. QuietMove(k)
  BY <1>1, PlacesTyped DEF RereadOutcome, QuietMove
<1>3. QED
  BY <1>2, QuietOnUnchangedStore DEF RereadOutcome

LEMMA ReconcileQuiet ==
    ASSUME TypeOK, NEW k \in Calls, Reconcile(k)
    PROVE  Quiet(k)
<1>1. QuietMove(k)
  BY KnownOutcomeTyped, PlacesTyped DEF Reconcile, QuietMove
<1>2. QED
  BY <1>1, QuietOnUnchangedStore DEF Reconcile

LEMMA AfterReconcileMoves ==
    ASSUME NEW k, NEW o \in OutcomeType, AfterReconcile(k, o)
    PROVE  QuietMove(k)
  BY AnswersTyped, PlacesTyped DEF AfterReconcile, QuietMove

LEMMA RecordReconciledQuiet ==
    ASSUME TypeOK, NEW k \in Calls, RecordReconciled(k)
    PROVE  Quiet(k)
<1>1. CASE /\ RecordEffectOutcome(Key(k), OutcomePhase(k), calls[k].held)
           /\ \/ AfterReconcile(k, receipts'[Key(k)].outcome)
              \/ \E err \in Faults : Fail(k, "reread_reconciled", err)
  <2>1. Advances
    BY <1>1, CallTyped, OutcomePhaseTyped, RecordAdvances
  <2>2. receipts'[Key(k)].outcome \in OutcomeType
    BY <2>1, CallTyped, NewOutcomeTyped
  <2>3. QuietMove(k)
    <3>1. CASE AfterReconcile(k, receipts'[Key(k)].outcome)
      BY <2>2, <3>1, AfterReconcileMoves
    <3>2. CASE \E err \in Faults : Fail(k, "reread_reconciled", err)
      BY <3>2, PlacesTyped, RefusalsTyped DEF QuietMove
    <3>3. QED
      BY <1>1, <3>1, <3>2
  <2>4. QED
    BY <2>1, <2>3, QuietOnAdvancedStore DEF RecordReconciled
<1>2. CASE /\ \E err \in {"error"} \cup Refusals(k) :
                 Fail(k, "reread_reconciled", err)
           /\ UNCHANGED storeVars
  <2>1. {"error"} \cup Refusals(k) \subseteq Errors
    BY RefusalsTyped DEF Errors
  <2>2. QuietMove(k)
    BY <1>2, <2>1, PlacesTyped DEF QuietMove
  <2>3. QED
    BY <1>2, <2>2, QuietOnUnchangedStore DEF RecordReconciled
<1>3. QED
  BY <1>1, <1>2 DEF RecordReconciled

LEMMA RereadReconciledQuiet ==
    ASSUME TypeOK, NEW k \in Calls, RereadReconciled(k)
    PROVE  Quiet(k)
<1>1. /\ receipts[Key(k)].outcome \in OutcomeType
      /\ Partial(Code(calls[k].err)) \in ResultType
      /\ OutcomeUnknown(UnknownCode(calls[k].err)) \in ResultType
  BY CallTyped, AnswersTyped
<1>2. QuietMove(k)
  <2>1. CASE AfterReconcile(k, receipts[Key(k)].outcome)
    BY <1>1, <2>1, AfterReconcileMoves
  <2>2. CASE Goto(k, "get")
    BY <2>2, PlacesTyped DEF QuietMove
  <2>3. CASE \/ Return(k, Partial(Code(calls[k].err)))
             \/ Return(k, OutcomeUnknown(UnknownCode(calls[k].err)))
    BY <1>1, <2>3 DEF QuietMove
  <2>4. QED
    BY <2>1, <2>2, <2>3 DEF RereadReconciled
<1>3. QED
  BY <1>2, QuietOnUnchangedStore DEF RereadReconciled

LEMMA GetEffectReceiptQuiet ==
    ASSUME TypeOK, NEW k \in Calls, GetEffectReceipt(k)
    PROVE  Quiet(k)
<1>1. /\ receipts[Key(k)].outcome \in OutcomeType
      /\ receipts[Key(k)].outcome \in ResultType
      /\ \A kind \in {"cancelled", "raised"} : Raised(kind) \in ResultType
  BY CallTyped, AnswersTyped, ResultsTyped
<1>2. QuietMove(k)
  BY <1>1, PlacesTyped DEF GetEffectReceipt, QuietMove
<1>3. QED
  BY <1>2, QuietOnUnchangedStore DEF GetEffectReceipt

LEMMA PersistUnknownQuiet ==
    ASSUME TypeOK, NEW k \in Calls, PersistUnknown(k)
    PROVE  Quiet(k)
<1> DEFINE unknown == OutcomeUnknown("outcome_unknown")
<1>0. unknown \in OutcomeType /\ unknown \in ResultType
  BY OutcomesTyped, AnswersTyped DEF Codes
<1> HIDE DEF unknown
<1>1. CASE /\ RecordEffectOutcome(Key(k), "started", unknown)
           /\ \/ Return(k, receipts'[Key(k)].outcome)
              \/ Return(k, unknown)
  <2>1. Advances
    BY <1>0, <1>1, CallTyped, RecordAdvances
  <2>2. receipts'[Key(k)].outcome \in ResultType
    BY <2>1, CallTyped, NewOutcomeTyped, AnswersTyped
  <2>3. QuietMove(k)
    BY <1>0, <1>1, <2>2 DEF QuietMove
  <2>4. QED
    BY <2>1, <2>3, QuietOnAdvancedStore DEF PersistUnknown
<1>2. CASE Return(k, unknown) /\ UNCHANGED storeVars
  <2>1. QuietMove(k)
    BY <1>0, <1>2 DEF QuietMove
  <2>2. QED
    BY <1>2, <2>1, QuietOnUnchangedStore DEF PersistUnknown
<1>3. QED
  BY <1>1, <1>2 DEF PersistUnknown, unknown

LEMMA CommitKnownWorkflowQuiet ==
    ASSUME TypeOK, NEW k \in Calls, CommitKnownWorkflow(k)
    PROVE  Quiet(k)
<1>1. CASE /\ CommitWorkflowBinding(Req(k))
           /\ \/ Return(k, receipts'[Key(k)].outcome)
              \/ \E err \in Faults : Fail(k, "reread_commit", err)
  <2>1. Advances
    BY <1>1, CallTyped, CommitWorkflowAdvances
  <2>2. receipts'[Key(k)].outcome \in ResultType
    BY <2>1, CallTyped, NewOutcomeTyped, AnswersTyped
  <2>3. QuietMove(k)
    BY <1>1, <2>2, PlacesTyped, RefusalsTyped DEF QuietMove
  <2>4. QED
    BY <2>1, <2>3, QuietOnAdvancedStore DEF CommitKnownWorkflow
<1>2. CASE /\ \/ Return(k, Raised("internal_error"))
              \/ \E err \in Refusals(k) : Fail(k, "reread_commit", err)
              \/ Return(k, Partial("stale_runtime"))
           /\ UNCHANGED storeVars
  <2>1. Raised("internal_error") \in ResultType /\ Partial("stale_runtime") \in ResultType
    BY AnswersTyped, ResultsTyped DEF Codes
  <2>2. QuietMove(k)
    BY <1>2, <2>1, PlacesTyped, RefusalsTyped DEF QuietMove
  <2>3. QED
    BY <1>2, <2>2, QuietOnUnchangedStore DEF CommitKnownWorkflow
<1>3. QED
  BY <1>1, <1>2 DEF CommitKnownWorkflow

LEMMA RereadCommitQuiet ==
    ASSUME TypeOK, NEW k \in Calls, RereadCommit(k)
    PROVE  Quiet(k)
<1>1. /\ receipts[Key(k)].outcome \in ResultType
      /\ Partial(Code(calls[k].err)) \in ResultType
  BY CallTyped, AnswersTyped
<1>2. QuietMove(k)
  BY <1>1 DEF RereadCommit, QuietMove
<1>3. QED
  BY <1>2, QuietOnUnchangedStore DEF RereadCommit

LEMMA QuietPreserves ==
    ASSUME TypeOK, FenceInv, NEW k \in Calls, Quiet(k)
    PROVE  TypeOK' /\ FenceInv'
<1>1. PICK pc \in PCs \ {"invoke"} : Moved(k, pc)
  BY DEF Quiet
<1>2. TypeOK'
  BY <1>1 DEF Quiet, Advances, Moved, TypeOK, ExecTypeOK, nativeVars
<1>3. ASSUME NEW j \in Calls, At(j, "invoke")'
      PROVE  calls'[j] = calls[j]
  BY <1>1, <1>3 DEF Moved, At
<1>4. \A a \in Keys : Late(a) => Late(a)'
  BY DEF Quiet, Advances
<1>5. UNCHANGED invoked
  BY DEF Quiet, nativeVars
<1>6. \A j \in Calls : Key(j) \in Keys
  BY CallTyped
<1>7. QED
  BY <1>2, <1>3, <1>4, <1>5, <1>6 DEF FenceInv, AtMostOneInvocation, At, Key

-----------------------------------------------------------------------------
(* The steps that are not quiet. *)

LEMMA StartPreserves ==
    ASSUME TypeOK, FenceInv, NEW k \in Calls, NEW q \in Requests, NEW e \in open,
           Start(k, q, e)
    PROVE  TypeOK' /\ FenceInv' /\ Advances
<1>1. /\ FreshCall(FirstPC(q), q, e) \in CallType
      /\ FirstPC(q) # "invoke"
  <2>1. e \in 0..MaxEpoch
    BY StoreAssumption DEF TypeOK, StoreTypeOK
  <2>2. FirstPC(q) \in PCs \ {"invoke"}
    BY PlacesTyped DEF FirstPC
  <2>3. Raised("pending") \in ResultType
    BY ResultsTyped
  <2>4. QED
    BY <2>1, <2>2, <2>3, OutcomesTyped DEF FreshCall, CallType, Errors
<1>2. /\ calls' \in [Calls -> CallType]
      /\ calls'[k].pc # "invoke"
      /\ \A j \in Calls \ {k} : calls'[j] = calls[j]
  BY <1>1 DEF Start, TypeOK, ExecTypeOK, FreshCall
<1>3. Advances
  BY UnchangedAdvances DEF Start, TypeOK
<1>4. TypeOK'
  BY <1>2, <1>3 DEF Start, TypeOK, ExecTypeOK, Advances, nativeVars
<1>5. \A j \in Calls : Key(j) \in Keys
  BY CallTyped
<1>6. FenceInv'
  BY <1>2, <1>3, <1>5 DEF Start, FenceInv, AtMostOneInvocation, At, Key, Advances,
                          nativeVars
<1>7. QED
  BY <1>3, <1>4, <1>6

(* The call that advances the receipt is alone at the callback, and the
   callback was not entered before: until now the receipt was not late. *)
LEMMA EnterNativeFencePreserves ==
    ASSUME TypeOK, FenceInv, NEW k \in Calls, EnterNativeFence(k)
    PROVE  TypeOK' /\ FenceInv' /\ Advances
<1> DEFINE Failure(err) == IF err = "cancel" THEN Goto(k, "read_mark")
                                             ELSE Return(k, Failed(Code(err)))
<1>0. ASSUME NEW err \in Refusals(k) \cup Faults, Failure(err)
      PROVE  QuietMove(k)
  BY <1>0, AnswersTyped, PlacesTyped, RefusalsTyped DEF QuietMove
<1>1. CASE /\ Phase(Key(k)) = "reserved"
           /\ MarkNativeSideEffectStarted(Key(k))
           /\ Goto(k, "invoke")
  <2>1. Advances
    BY <1>1, CallTyped, MarkAdvances
  <2>2. Moved(k, "invoke")
    BY <1>1, CallTyped, GotoMoves DEF PCs
  <2>3. TypeOK'
    BY <2>1, <2>2 DEF EnterNativeFence, TypeOK, ExecTypeOK, Advances, Moved,
                      nativeVars
  <2>4. Late(Key(k))' /\ ~Late(Key(k))
    <3>1. receipts'[Key(k)].phase = "started"
      BY <1>1, CallTyped
         DEF MarkNativeSideEffectStarted, SetReceipt, Phase, StoreTypeOK
    <3>2. Key(k)' = Key(k)
      BY <2>2 DEF Moved, Key
    <3>3. QED
      BY <1>1, <3>1, <3>2 DEF Late, Phase
  <2>5. \A j \in Calls : Key(j) \in Keys
    BY CallTyped
  <2>6. \A j \in Calls : At(j, "invoke") => Key(j) # Key(k)
    BY <2>4 DEF FenceInv
  <2>7. invoked[Key(k)] = 0 /\ UNCHANGED invoked
    BY <2>4, <2>5 DEF FenceInv, EnterNativeFence, nativeVars
  <2>8. /\ \A j \in Calls : Key(j)' = Key(j)
        /\ \A j \in Calls : At(j, "invoke")' => j = k \/ At(j, "invoke")
    BY <2>2 DEF Moved, Key, At
  <2>9. /\ \A a \in Keys : ~Late(a)' => invoked'[a] = 0
        /\ AtMostOneInvocation'
    BY <2>1, <2>7 DEF FenceInv, Advances, AtMostOneInvocation
  <2>10. \A j \in Calls : At(j, "invoke")' => Late(Key(j))' /\ invoked'[Key(j)'] = 0
    <3> SUFFICES ASSUME NEW j \in Calls, At(j, "invoke")'
                 PROVE  Late(Key(j))' /\ invoked'[Key(j)'] = 0
      OBVIOUS
    <3>1. CASE j = k
      BY <2>4, <2>7, <2>8, <3>1 DEF Late, Phase
    <3>2. CASE At(j, "invoke")
      <4>1. Late(Key(j)) /\ invoked[Key(j)] = 0
        BY <3>2 DEF FenceInv
      <4>2. QED
        BY <2>1, <2>5, <2>7, <2>8, <4>1 DEF Advances, Late, Phase
    <3>3. QED
      BY <2>8, <3>1, <3>2
  <2>11. \A i, j \in Calls :
            At(i, "invoke")' /\ At(j, "invoke")' /\ Key(i)' = Key(j)' => i = j
    BY <2>6, <2>8 DEF FenceInv
  <2>12. QED
    BY <2>1, <2>3, <2>9, <2>10, <2>11 DEF FenceInv
<1>2. CASE /\ MarkNativeSideEffectStarted(Key(k)) \/ UNCHANGED storeVars
           /\ QuietMove(k)
  <2>1. Advances
    BY <1>2, CallTyped, MarkAdvances, UnchangedAdvances
  <2>2. Quiet(k)
    BY <1>2, <2>1, QuietOnAdvancedStore DEF EnterNativeFence
  <2>3. QED
    BY <2>1, <2>2, QuietPreserves
<1>3. CASE MarkNativeSideEffectStarted(Key(k)) /\ Goto(k, "reserve")
  BY <1>2, <1>3, PlacesTyped DEF QuietMove
<1>4. QED
  BY <1>0, <1>1, <1>2, <1>3 DEF EnterNativeFence

LEMMA InvokePreserves ==
    ASSUME TypeOK, FenceInv, NEW k \in Calls, Invoke(k)
    PROVE  TypeOK' /\ FenceInv' /\ Advances
<1>1. Advances
  BY UnchangedAdvances DEF Invoke, TypeOK
<1>2. Moved(k, "native")
  BY CallTyped, GotoMoves, PlacesTyped DEF Invoke
<1>3. /\ Key(k) \in Keys
      /\ \A j \in Calls : Key(j) \in Keys
  BY CallTyped
<1>4. /\ invoked' = [invoked EXCEPT ![Key(k)] = invoked[Key(k)] + 1]
      /\ invoked' \in [Keys -> Nat]
      /\ effect' \in [Keys -> Effects]
  BY <1>3 DEF Invoke, TypeOK, ExecTypeOK, Effects
<1>5. TypeOK'
  BY <1>1, <1>2, <1>4 DEF TypeOK, ExecTypeOK, Advances, Moved
<1>6. Late(Key(k)) /\ invoked[Key(k)] = 0
  BY DEF Invoke, FenceInv
<1>7. \A j \in Calls : At(j, "invoke")' =>
          At(j, "invoke") /\ calls'[j] = calls[j] /\ Key(j) # Key(k)
  BY <1>2 DEF Moved, At, Invoke, FenceInv
<1>8. /\ invoked'[Key(k)] = 1
      /\ \A a \in Keys \ {Key(k)} : invoked'[a] = invoked[a]
  BY <1>3, <1>4, <1>6 DEF TypeOK, ExecTypeOK
<1>9. FenceInv'
  <2>1. \A a \in Keys : ~Late(a)' => invoked'[a] = 0
    BY <1>1, <1>6, <1>8 DEF Advances, FenceInv
  <2>2. \A j \in Calls : At(j, "invoke")' => Late(Key(j))' /\ invoked'[Key(j)'] = 0
    BY <1>1, <1>3, <1>7, <1>8 DEF Advances, FenceInv, Key, Late, Phase
  <2>3. \A i, j \in Calls :
           At(i, "invoke")' /\ At(j, "invoke")' /\ Key(i)' = Key(j)' => i = j
    BY <1>7 DEF FenceInv, Key
  <2>4. AtMostOneInvocation'
    BY <1>8 DEF AtMostOneInvocation, FenceInv
  <2>5. QED
    BY <2>1, <2>2, <2>3, <2>4 DEF FenceInv
<1>10. QED
  BY <1>1, <1>5, <1>9

LEMMA ApplicationDecidesPreserves ==
    ASSUME TypeOK, FenceInv, NEW a \in Keys, ApplicationDecides(a)
    PROVE  TypeOK' /\ FenceInv' /\ Advances
<1>1. Advances
  BY UnchangedAdvances DEF ApplicationDecides, TypeOK
<1>2. TypeOK'
  BY <1>1 DEF ApplicationDecides, TypeOK, ExecTypeOK, Advances, Effects
<1>3. FenceInv'
  BY DEF ApplicationDecides, FenceInv, AtMostOneInvocation, Late, Phase, At, Key,
         storeVars
<1>4. QED
  BY <1>1, <1>2, <1>3

LEMMA CrashPreserves ==
    ASSUME TypeOK, FenceInv, NEW e \in 1..epoch, Crash(e)
    PROVE  TypeOK' /\ FenceInv' /\ Advances
<1>1. Advances
  BY DEF Crash, Advances, TypeOK, StoreTypeOK, bindingVars, ghostVars, Late, Phase
<1>2. FreshCall("crashed", AnyRequest, 0) \in CallType
  <2>1. Raised("pending") \in ResultType
    BY ResultsTyped
  <2>2. QED
    BY <2>1, SomeRequest, OutcomesTyped, StoreAssumption
       DEF FreshCall, CallType, PCs, Errors
<1>3. /\ calls' \in [Calls -> CallType]
      /\ \A j \in Calls : calls'[j] = calls[j] \/ calls'[j].pc = "crashed"
  BY <1>2 DEF Crash, TypeOK, ExecTypeOK, FreshCall
<1>4. TypeOK'
  BY <1>1, <1>3 DEF Crash, TypeOK, ExecTypeOK, Advances, nativeVars
<1>5. FenceInv'
  BY <1>3 DEF Crash, FenceInv, AtMostOneInvocation, Late, Phase, At, Key, nativeVars
<1>6. QED
  BY <1>1, <1>4, <1>5

LEMMA RuntimeStepPreserves ==
    ASSUME TypeOK, FenceInv, RuntimeStep
    PROVE  TypeOK' /\ FenceInv' /\ Advances
<1>1. StoreTypeOK' /\ UNCHANGED receipts
  <2>1. CASE AcquireRuntime
    BY <2>1, StoreAssumption
       DEF AcquireRuntime, TypeOK, StoreTypeOK, bindingVars, ghostVars
  <2>2. CASE LeaseExpires
    BY <2>2 DEF LeaseExpires, TypeOK, StoreTypeOK, bindingVars, ghostVars
  <2>3. CASE \E e \in open : CloseRuntime(e)
    BY <2>3 DEF CloseRuntime, TypeOK, StoreTypeOK, bindingVars, ghostVars
  <2>4. CASE \E e \in open, t \in Deletable : DropThreadRoutes(e, t)
    BY <2>4, StoreAssumption
       DEF DropThreadRoutes, TypeOK, StoreTypeOK, leaseVars, ghostVars
  <2>5. QED
    BY <2>1, <2>2, <2>3, <2>4 DEF RuntimeStep
<1>2. UNCHANGED <<calls, invoked, effect>>
  BY DEF RuntimeStep, nativeVars
<1>3. QED
  BY <1>1, <1>2
     DEF TypeOK, ExecTypeOK, FenceInv, AtMostOneInvocation, Advances, Late, Phase,
         At, Key

LEMMA StutterPreserves ==
    ASSUME TypeOK, FenceInv, UNCHANGED vars
    PROVE  TypeOK' /\ FenceInv' /\ Advances
<1>1. Advances
  BY UnchangedAdvances DEF vars, TypeOK
<1>2. QED
  BY <1>1 DEF vars, storeVars, nativeVars, TypeOK, ExecTypeOK, FenceInv,
              AtMostOneInvocation, Advances, Late, Phase, At, Key

-----------------------------------------------------------------------------
(* The invariant and what follows from it. *)

LEMMA InitEstablishes == Init => TypeOK /\ FenceInv
<1> SUFFICES ASSUME Init PROVE TypeOK /\ FenceInv
  OBVIOUS
<1>1. StoreTypeOK
  <2>1. leaseLive \in BOOLEAN
    BY Zenon DEF Init, StoreInit
  <2>2. epoch \in 0..MaxEpoch /\ open \subseteq 1..epoch
    BY StoreAssumption DEF Init, StoreInit
  <2>3. receipts \in [Keys -> ReceiptType]
    BY AbsentTyped DEF Init, StoreInit
  <2>4. QED
    BY <2>1, <2>2, <2>3 DEF Init, StoreInit, StoreTypeOK
<1>2. FreshCall("idle", AnyRequest, 0) \in CallType
  <2>1. Raised("pending") \in ResultType
    BY ResultsTyped
  <2>2. QED
    BY <2>1, SomeRequest, OutcomesTyped, StoreAssumption
       DEF FreshCall, CallType, PCs, Errors
<1>3. ExecTypeOK
  BY <1>2 DEF Init, ExecTypeOK, Effects
<1>4. FenceInv
  BY DEF Init, FenceInv, AtMostOneInvocation, At, FreshCall
<1>5. QED
  BY <1>1, <1>3, <1>4 DEF TypeOK

LEMMA CallStepQuiet ==
    ASSUME TypeOK, NEW k \in Calls, CallStep(k)
    PROVE  Quiet(k) \/ EnterNativeFence(k) \/ Invoke(k)
<1>1. CASE StoreMutationStep(k)
  BY <1>1, ReadStoreMutationReceiptQuiet, RunStorePreflightQuiet,
     CommitStoreResultQuiet, RecoverStoreMutationOutcomeQuiet
     DEF StoreMutationStep
<1>2. CASE NativeStep(k)
  BY <1>2, ReserveQuiet, RunNativePreflightQuiet, RejectPreflightQuiet,
     ReadAfterPreflightQuiet, ReadAfterFenceQuiet, InvokeEndsQuiet,
     RecordOutcomeQuiet, RereadOutcomeQuiet, ReconcileQuiet,
     RecordReconciledQuiet, RereadReconciledQuiet, GetEffectReceiptQuiet,
     PersistUnknownQuiet, CommitKnownWorkflowQuiet, RereadCommitQuiet
     DEF NativeStep
<1>3. QED
  BY <1>1, <1>2 DEF CallStep

(* Every step keeps the types and the fence, and only advances the store. *)
LEMMA NextPreserves ==
    ASSUME TypeOK, FenceInv, [Next]_vars
    PROVE  TypeOK' /\ FenceInv' /\ Advances
<1>1. ASSUME NEW k \in Calls, CallStep(k)
      PROVE  TypeOK' /\ FenceInv' /\ Advances
  <2>1. CASE Quiet(k)
    BY <2>1, QuietPreserves DEF Quiet
  <2>2. QED
    BY <1>1, <2>1, CallStepQuiet, EnterNativeFencePreserves, InvokePreserves
<1>2. QED
  BY <1>1, StartPreserves, ApplicationDecidesPreserves, CrashPreserves,
     RuntimeStepPreserves, StutterPreserves DEF Next

(* The state of the executor and of the store stays in its types. *)
THEOREM TypesHold == Spec => []TypeOK
<1>1. TypeOK /\ FenceInv /\ [Next]_vars => TypeOK' /\ FenceInv'
  BY NextPreserves
<1>2. QED
  BY InitEstablishes, <1>1, PTL DEF Spec

(* For any number of actions, concurrent calls, processes, takeovers and
   retries, the native callback of an action is entered at most once
   (_enter_native_fence, mark_native_side_effect_started). *)
THEOREM InvokedAtMostOnce == Spec => []AtMostOneInvocation
<1>1. TypeOK /\ FenceInv /\ [Next]_vars => TypeOK' /\ FenceInv'
  BY NextPreserves
<1>2. FenceInv => AtMostOneInvocation
  BY DEF FenceInv
<1>3. QED
  BY InitEstablishes, <1>1, <1>2, PTL DEF Spec

(* A terminal receipt is never changed again, so what one caller was told
   is what every later caller and process is told. *)
THEOREM TerminalReceiptsAreFinal == Spec => TerminalIsFinal
<1>1. TypeOK /\ FenceInv /\ [Next]_vars => TypeOK' /\ FenceInv'
  BY NextPreserves
<1>2. TypeOK /\ FenceInv /\ [Next]_vars =>
         [\A a \in Keys : Phase(a) = "terminal" => receipts'[a] = receipts[a]]_vars
  BY NextPreserves DEF Advances
<1>3. QED
  BY InitEstablishes, <1>1, <1>2, PTL DEF Spec, TerminalIsFinal

-----------------------------------------------------------------------------
(***************************************************************************)
(* Proofs that what effect execution writes and says is true: a process    *)
(* that was taken over writes nothing, receipts and answers agree with     *)
(* what the Application did, and the executor over the store implements    *)
(* EffectPromise: every step is a step of the promise about one action, or *)
(* changes nothing of what is promised. No choice of a user is overwritten *)
(* by a workflow, none is applied twice, and none loses its route.         *)
(***************************************************************************)

-----------------------------------------------------------------------------
(* Who writes. *)

(* A step of a call that finds the fence stale leaves the store alone. *)
LEMMA OnlyHoldersWrite ==
    ASSUME NEW k \in Calls, CallStep(k), ~Holds(k)
    PROVE  UNCHANGED storeVars
<1>1. CASE StoreMutationStep(k)
  BY <1>1 DEF StoreMutationStep, ReadStoreMutationReceipt, RunStorePreflight,
              CommitStoreResult, RecoverStoreMutationOutcome
<1>2. CASE NativeStep(k)
  BY <1>2 DEF NativeStep, Reserve, RunNativePreflight, RejectPreflight,
              ReadAfterPreflight, EnterNativeFence, ReadAfterFence, Invoke,
              InvokeReturns, InvokeRaises, RecordOutcome, RereadOutcome,
              Reconcile, RecordReconciled, RereadReconciled, GetEffectReceipt,
              PersistUnknown, CommitKnownWorkflow, RereadCommit
<1>3. QED
  BY <1>1, <1>2 DEF CallStep

(* A step of a call moves no other call. *)
LEMMA CallsMoveAlone ==
    ASSUME TypeOK, NEW k \in Calls, CallStep(k)
    PROVE  \A j \in Calls \ {k} : calls'[j] = calls[j]
<1>1. CASE Quiet(k)
  BY <1>1 DEF Quiet, Moved
<1>2. CASE EnterNativeFence(k) \/ Invoke(k)
  BY <1>2 DEF EnterNativeFence, Invoke, Goto, Return, Move, TypeOK, ExecTypeOK
<1>3. QED
  BY <1>1, <1>2, CallStepQuiet

(* After a lease was lost no call of its process changes a receipt, a
   binding or a route, whatever it read before and however late it runs
   (_assert_fence_locked in every operation of the store). *)
THEOREM StaleRuntimesWriteNothing == Spec => StaleRuntimeNeverWrites
<1> DEFINE Durable == <<receipts, bound, gens, floors, routes>>
           Rightful == Durable' # Durable =>
                          /\ leaseLive
                          /\ \A k \in Calls : calls'[k] # calls[k] =>
                                                calls[k].epoch = epoch
<1>1. TypeOK /\ FenceInv /\ [Next]_vars => TypeOK' /\ FenceInv'
  BY NextPreserves
<1>2. TypeOK /\ FenceInv /\ [Next]_vars => [Rightful]_vars
  <2> SUFFICES ASSUME TypeOK, Next PROVE Rightful
    OBVIOUS
  <2>1. CASE \E k \in Calls : CallStep(k)
    <3>1. PICK k \in Calls : CallStep(k)
      BY <2>1
    <3>2. CASE ~Holds(k)
      BY <3>1, <3>2, OnlyHoldersWrite DEF storeVars, bindingVars
    <3>3. CASE Holds(k)
      BY <3>1, <3>3, CallsMoveAlone DEF Holds, Fenced
    <3>4. QED
      BY <3>2, <3>3
  <2>2. CASE \/ \E k \in Calls, q \in Requests, e \in open : Start(k, q, e)
             \/ \E a \in Keys : ApplicationDecides(a)
             \/ \E e \in 1..epoch : Crash(e)
    BY <2>2 DEF Start, ApplicationDecides, Crash, storeVars, bindingVars
  <2>3. CASE RuntimeStep
    <3>1. UNCHANGED calls
      BY <2>3 DEF RuntimeStep
    <3>2. CASE \E e \in open, t \in Deletable : DropThreadRoutes(e, t)
      BY <3>1, <3>2 DEF DropThreadRoutes, Fenced
    <3>3. CASE AcquireRuntime \/ LeaseExpires \/ \E e \in open : CloseRuntime(e)
      BY <3>3 DEF AcquireRuntime, LeaseExpires, CloseRuntime, bindingVars
    <3>4. QED
      BY <2>3, <3>2, <3>3 DEF RuntimeStep
  <2>4. QED
    BY <2>1, <2>2, <2>3 DEF Next
<1>3. QED
  BY InitEstablishes, <1>1, <1>2, PTL DEF Spec, StaleRuntimeNeverWrites

-----------------------------------------------------------------------------
(* The inductive invariant: what a receipt says, in every phase, and what a
   call has established when it is at its place. *)

(* The receipt r of action a, about which the Application has done e and
   whose callback was entered n times. *)
TrueReceipt(a, r, e, n) ==
    /\ e # "none" => r.phase \notin {"absent", "reserved"} /\ n > 0
    /\ r.phase # "absent" => r.request.key = a /\ r.category = r.request.category
    /\ r.phase # "absent" /\ r.category = "gateway" =>
          r.phase = "terminal" /\ r.outcome.kind \in {"succeeded", "failed"}
    /\ r.phase = "known" =>
          /\ r.category = "workflow"
          /\ r.outcome.kind = "succeeded"
          /\ e = "applied"
    /\ r.phase = "terminal" /\ r.category # "gateway" =>
          /\ r.outcome.kind # "failed" => e = "applied"
          /\ r.outcome.kind = "failed" =>
                (r.outcome = Failed("preflight") <=> e = "none")

StorePCs  == {"read", "store_preflight", "commit_store", "reject_store", "recover"}
RecordPCs == {"record", "reread", "record_reconciled", "reread_reconciled"}
BindPCs   == {"get", "commit", "reread_commit"}
FencedPCs == {"invoke", "native", "reconcile", "unknown"} \cup RecordPCs \cup BindPCs
OwnerPCs  == {"preflight", "reject", "read_preflight", "read_reject", "mark",
              "read_mark"} \cup FencedPCs

(* The call c of an action with receipt r and effect e. *)
TrueCall(c, r, e) ==
    /\ c.pc \in StorePCs => c.request.category = "gateway"
    /\ c.pc \in OwnerPCs \cup {"reserve"} => c.request.category # "gateway"
    /\ c.pc \in OwnerPCs => r.phase # "absent" /\ r.request = c.request
    /\ c.pc \in FencedPCs => r.phase # "reserved"
    /\ c.pc = "invoke" => r.phase = "started"
    /\ c.pc = "native" => e # "none"
    /\ c.pc \in RecordPCs =>
          \/ e = "applied" /\ c.held = Succeeded(NoGen)
          \/ e # "none" /\ c.held = Failed("native_rejected")
    /\ c.pc \in BindPCs =>
          /\ c.request.category = "workflow"
          /\ r.phase \in {"known", "terminal"}
          /\ e = "applied"
    /\ c.pc = "done" =>
          /\ Verdict(c.result) => r.phase = "terminal" /\ r.outcome = c.result
          /\ c.result.kind = "partial" => e = "applied"

TruthInv ==
    /\ \A a \in Keys : TrueReceipt(a, receipts[a], effect[a], invoked[a])
    /\ \A k \in Calls : TrueCall(calls[k], receipts[Key(k)], effect[Key(k)])

(* The run's properties are parts of it. *)
LEMMA TruthSuffices == TypeOK /\ TruthInv => ReceiptsAreTrue
  BY CallTyped DEF TruthInv, TrueReceipt, TrueCall, ReceiptsAreTrue,
     ReceiptTellsTheTruth, VerdictIsDurable, PartialMeansCreated, Phase

-----------------------------------------------------------------------------
(* What a store operation may make of a receipt. *)

SameAction(r, s) == s.request = r.request /\ s.category = r.category

(* Receipt r of action a became s while the Application had done e. *)
Transition(a, r, e, s) ==
    \/ s = r
    \/ /\ r.phase = "absent"
       /\ s.request.key = a /\ s.category = s.request.category
       /\ \/ s.phase = "reserved" /\ s.category # "gateway"
          \/ /\ s.phase = "terminal" /\ s.category = "gateway"
             /\ s.outcome.kind \in {"succeeded", "failed"}
    \/ /\ r.phase = "reserved" /\ SameAction(r, s)
       /\ \/ s.phase = "started"
          \/ s.phase = "terminal" /\ s.outcome = Failed("preflight")
    \/ /\ r.phase = "started" /\ SameAction(r, s)
       /\ \/ s.phase = "started"
          \/ /\ s.phase = "known" /\ s.outcome.kind = "succeeded"
             /\ s.category = "workflow" /\ e = "applied"
          \/ /\ s.phase = "terminal" /\ s.outcome.kind = "succeeded" /\ e = "applied"
          \/ /\ s.phase = "terminal" /\ s.outcome = Failed("native_rejected")
             /\ e # "none"
    \/ /\ r.phase = "known" /\ SameAction(r, s)
       /\ s.phase = "terminal" /\ s.outcome.kind \in {"succeeded", "partial"}

(* The receipt of action a, and no other, took a transition. *)
Transits(a) ==
    /\ Transition(a, receipts[a], effect[a], receipts'[a])
    /\ \A b \in Keys \ {a} : receipts'[b] = receipts[b]

LEMMA TransitionKeepsTruth ==
    ASSUME NEW a, NEW r \in ReceiptType, NEW s \in ReceiptType, NEW e \in Effects,
           NEW n, TrueReceipt(a, r, e, n), Transition(a, r, e, s)
    PROVE  TrueReceipt(a, s, e, n)
  BY DEF Transition, TrueReceipt, SameAction, ReceiptType, Effects, Phases, Failed

LEMMA TransitionKeepsCalls ==
    ASSUME NEW a, NEW r \in ReceiptType, NEW s \in ReceiptType, NEW e \in Effects,
           NEW n, TrueReceipt(a, r, e, n), Transition(a, r, e, s),
           NEW c, TrueCall(c, r, e), c.pc = "invoke" => n = 0
    PROVE  TrueCall(c, s, e)
  BY DEF Transition, TrueReceipt, TrueCall, SameAction, ReceiptType, Effects, Phases,
         OwnerPCs, FencedPCs, RecordPCs, BindPCs, StorePCs

LEMMA UnchangedTransits ==
    ASSUME NEW a \in Keys, UNCHANGED storeVars
    PROVE  Transits(a) /\ receipts'[a] = receipts[a]
  BY DEF Transits, Transition, storeVars

LEMMA StorePreflightFailureTransits ==
    ASSUME StoreTypeOK, NEW q \in Requests, q.category = "gateway",
           CommitStorePreflightFailure(q)
    PROVE  Transits(q.key)
  BY RequestsTyped DEF CommitStorePreflightFailure, NewReceipt, Transits, Transition,
     StoreTypeOK, ReceiptType, Exists, Phase, Failed

LEMMA StoreMutationTransits ==
    ASSUME StoreTypeOK, NEW q \in Requests, q.category = "gateway",
           CommitStoreMutation(q)
    PROVE  Transits(q.key)
  BY RequestsTyped DEF CommitStoreMutation, NewReceipt, Transits, Transition,
     StoreTypeOK, ReceiptType, Exists, Phase, Failed, Succeeded

LEMMA ReserveTransits ==
    ASSUME StoreTypeOK, NEW q \in Requests, q.category # "gateway", ReserveEffect(q)
    PROVE  Transits(q.key)
  BY RequestsTyped DEF ReserveEffect, NewReceipt, Transits, Transition,
     StoreTypeOK, ReceiptType, Exists, Phase

LEMMA MarkTransits ==
    ASSUME StoreTypeOK, NEW a \in Keys, MarkNativeSideEffectStarted(a)
    PROVE  Transits(a)
  BY DEF MarkNativeSideEffectStarted, SetReceipt, Transits, Transition, SameAction,
     StoreTypeOK, ReceiptType, Phase

LEMMA PreflightFailureTransits ==
    ASSUME StoreTypeOK, NEW a \in Keys, RecordEffectPreflightFailure(a)
    PROVE  Transits(a)
  BY DEF RecordEffectPreflightFailure, SetReceipt, Transits, Transition, SameAction,
     StoreTypeOK, ReceiptType, Phase, Failed

(* An outcome that agrees with the Application may be recorded. *)
LEMMA RecordTransits ==
    ASSUME StoreTypeOK, NEW a \in Keys, NEW o, NEW phase \in {"known", "terminal"},
           \/ effect[a] = "applied" /\ o = Succeeded(NoGen)
           \/ effect[a] # "none" /\ o = Failed("native_rejected"),
           RecordEffectOutcome(a, phase, o)
    PROVE  /\ Transits(a)
           /\ \/ receipts'[a].phase = "terminal"
              \/ receipts'[a].phase = phase /\ receipts'[a].outcome = o
<1>1. CASE Phase(a) = "terminal"
  <2>1. UNCHANGED receipts
    BY <1>1 DEF RecordEffectOutcome
  <2>2. QED
    BY <1>1, <2>1 DEF Transits, Transition, Phase
<1>2. CASE Phase(a) # "terminal"
  <2>1. Phase(a) = "started" /\ ~RecordRaises(a, phase, o) /\ SetReceipt(a, phase, o)
    BY <1>2 DEF RecordEffectOutcome, RecordRaises, StoreTypeOK, ReceiptType, Phases,
                Phase
  <2>2. /\ receipts'[a].phase = phase
        /\ receipts'[a].outcome = o
        /\ SameAction(receipts[a], receipts'[a])
        /\ \A b \in Keys \ {a} : receipts'[b] = receipts[b]
    BY <2>1 DEF SetReceipt, StoreTypeOK, SameAction
  <2>3. \/ effect[a] = "applied" /\ o.kind = "succeeded"
        \/ effect[a] # "none" /\ o = Failed("native_rejected")
    BY DEF Succeeded
  <2>4. phase = "known" => receipts[a].category = "workflow" /\ o.kind = "succeeded"
    BY <2>1 DEF RecordRaises
  <2>5. Transition(a, receipts[a], effect[a], receipts'[a])
    BY <2>1, <2>2, <2>3, <2>4 DEF Transition, SameAction, Phase, Failed
  <2>6. QED
    BY <2>2, <2>5 DEF Transits
<1>3. QED
  BY <1>1, <1>2

LEMMA RecordUnknownTransits ==
    ASSUME StoreTypeOK, NEW a \in Keys, NEW o,
           RecordEffectOutcome(a, "started", o)
    PROVE  /\ Transits(a)
           /\ receipts'[a].phase = "terminal" \/ receipts'[a].outcome = o
  BY DEF RecordEffectOutcome, RecordRaises, SetReceipt, Transits, Transition,
     SameAction, StoreTypeOK, ReceiptType, Phases, Phase

LEMMA CommitWorkflowTransits ==
    ASSUME StoreTypeOK, NEW q \in Requests, CommitWorkflowBinding(q)
    PROVE  Transits(q.key) /\ receipts'[q.key].phase = "terminal"
  BY RequestsTyped DEF CommitWorkflowBinding, SetReceipt, Transits, Transition,
     SameAction, StoreTypeOK, ReceiptType, Phase, Partial, Succeeded, storeVars

-----------------------------------------------------------------------------
(* A step of a call tells the truth: the receipt of its action took a
   transition and the call has established what its new place requires. *)

Truthful(k) ==
    /\ Transits(Key(k))
    /\ TrueCall(calls'[k], receipts'[Key(k)], effect[Key(k)])

(* An answer is true of a receipt and an effect. *)
TrueAnswer(o, r, e) ==
    /\ Verdict(o) => r.phase = "terminal" /\ r.outcome = o
    /\ o.kind = "partial" => e = "applied"

LEMMA ReturnIsTrue ==
    ASSUME ExecTypeOK, NEW k \in Calls, NEW o, Return(k, o), NEW r, NEW e,
           TrueAnswer(o, r, e)
    PROVE  TrueCall(calls'[k], r, e)
<1>1. calls'[k].pc = "done" /\ calls'[k].result = o
  BY DEF ExecTypeOK, Return, Move
<1>2. QED
  BY <1>1 DEF TrueCall, TrueAnswer, StorePCs, OwnerPCs, FencedPCs, RecordPCs, BindPCs

(* What is said of this attempt only is true of every receipt. *)
LEMMA AttemptsAreTrue ==
    ASSUME NEW r, NEW e
    PROVE  /\ \A c \in {"conflict", "capacity", "stale_runtime", "store_failure"} :
                 TrueAnswer(Failed(c), r, e)
           /\ \A err : TrueAnswer(Failed(Code(err)), r, e)
           /\ \A c : TrueAnswer(OutcomeUnknown(c), r, e)
           /\ \A kind \in {"cancelled", "raised", "internal_error"} :
                 TrueAnswer(Raised(kind), r, e)
           /\ e = "applied" => \A err : TrueAnswer(Partial(Code(err)), r, e)
           /\ e = "applied" => TrueAnswer(Partial("stale_runtime"), r, e)
  BY DEF TrueAnswer, Verdict, Failed, OutcomeUnknown, Raised, Partial, Code

(* So is the outcome of a terminal receipt. *)
LEMMA TerminalAnswersAreTrue ==
    ASSUME NEW a, NEW r, NEW e, NEW n, TrueReceipt(a, r, e, n), r.phase = "terminal"
    PROVE  TrueAnswer(r.outcome, r, e)
  BY DEF TrueAnswer, TrueReceipt

(* The receipt and the effect of the action of a call, before a step and
   after the receipt took a transition. *)
LEMMA OwnReceipt ==
    ASSUME TypeOK, TruthInv, NEW k \in Calls
    PROVE  /\ TrueReceipt(Key(k), receipts[Key(k)], effect[Key(k)], invoked[Key(k)])
           /\ TrueCall(calls[k], receipts[Key(k)], effect[Key(k)])
           /\ receipts[Key(k)] \in ReceiptType
           /\ effect[Key(k)] \in Effects
           /\ Key(k) \in Keys
           /\ Req(k) \in Requests
           /\ Key(k) = Req(k).key
           /\ Key(k) = calls[k].request.key
           /\ ExecTypeOK
           /\ StoreTypeOK
  BY CallTyped DEF TruthInv, StoreTypeOK, ExecTypeOK, Key, Req

LEMMA NewReceiptIsTrue ==
    ASSUME TypeOK, TruthInv, NEW k \in Calls, Transits(Key(k)), StoreTypeOK'
    PROVE  /\ TrueReceipt(Key(k), receipts'[Key(k)], effect[Key(k)], invoked[Key(k)])
           /\ receipts'[Key(k)] \in ReceiptType
<1>1. receipts'[Key(k)] \in ReceiptType
  BY OwnReceipt DEF StoreTypeOK
<1>2. QED
  BY <1>1, OwnReceipt, TransitionKeepsTruth DEF Transits

(* The answer of a step that leaves the store alone. *)
LEMMA AnswerOnUnchangedStore ==
    ASSUME TypeOK, TruthInv, NEW k \in Calls, UNCHANGED storeVars, NEW o, Return(k, o),
           TrueAnswer(o, receipts[Key(k)], effect[Key(k)])
    PROVE  Truthful(k)
  BY OwnReceipt, UnchangedTransits, ReturnIsTrue DEF Truthful

(* A gateway action that has a receipt has a terminal one. *)
LEMMA ReadStoreMutationReceiptTruthful ==
    ASSUME TypeOK, TruthInv, NEW k \in Calls, ReadStoreMutationReceipt(k)
    PROVE  Truthful(k)
<1>1. calls[k].request.category = "gateway"
  BY OwnReceipt DEF ReadStoreMutationReceipt, At, TrueCall, StorePCs
<1>2. CASE /\ Exists(Key(k)) /\ ~Conflicts(Req(k))
           /\ Return(k, receipts[Key(k)].outcome)
  <2>1. receipts[Key(k)].phase = "terminal"
    BY <1>1, <1>2, OwnReceipt DEF Exists, Phase, Conflicts, TrueReceipt, Req
  <2>2. QED
    BY <1>2, <2>1, OwnReceipt, TerminalAnswersAreTrue, AnswerOnUnchangedStore
       DEF ReadStoreMutationReceipt
<1>3. CASE Goto(k, "store_preflight")
  <2>1. TrueCall(calls'[k], receipts[Key(k)], effect[Key(k)])
    BY <1>1, <1>3, OwnReceipt DEF Goto, Move, TrueCall, ExecTypeOK, StorePCs, OwnerPCs,
       FencedPCs, RecordPCs, BindPCs
  <2>2. QED
    BY <2>1, OwnReceipt, UnchangedTransits DEF Truthful, ReadStoreMutationReceipt
<1>4. QED
  BY <1>2, <1>3, AttemptsAreTrue, AnswerOnUnchangedStore DEF ReadStoreMutationReceipt

(* Where a step that gives no answer leaves its call. *)
LEMMA MovesOn ==
    ASSUME ExecTypeOK, NEW k \in Calls, NEW pc
    PROVE  /\ Goto(k, pc) =>
                 /\ calls'[k].pc = pc
                 /\ calls'[k].request = calls[k].request
                 /\ calls'[k].held = calls[k].held
           /\ \A err : Fail(k, pc, err) =>
                 /\ calls'[k].pc = pc
                 /\ calls'[k].request = calls[k].request
                 /\ calls'[k].held = calls[k].held
           /\ \A o : Hold(k, pc, o) =>
                 /\ calls'[k].pc = pc
                 /\ calls'[k].request = calls[k].request
                 /\ calls'[k].held = o
  BY DEF ExecTypeOK, Goto, Fail, Hold, Move

LEMMA RunStorePreflightTruthful ==
    ASSUME TypeOK, TruthInv, NEW k \in Calls, RunStorePreflight(k)
    PROVE  Truthful(k)
<1>1. calls[k].request.category = "gateway"
  BY OwnReceipt DEF RunStorePreflight, At, TrueCall, StorePCs
<1>2. CASE \/ Goto(k, "commit_store")
           \/ Goto(k, "reject_store")
           \/ Fail(k, "recover", "cancel")
  <2>1. /\ calls'[k].pc \in StorePCs
        /\ calls'[k].request = calls[k].request
    BY <1>2, OwnReceipt, MovesOn DEF StorePCs
  <2>2. TrueCall(calls'[k], receipts[Key(k)], effect[Key(k)])
    BY <1>1, <2>1 DEF TrueCall, StorePCs, OwnerPCs, FencedPCs, RecordPCs, BindPCs
  <2>3. QED
    BY <2>2, OwnReceipt, UnchangedTransits DEF Truthful, RunStorePreflight
<1>3. QED
  BY <1>2, AttemptsAreTrue, AnswerOnUnchangedStore DEF RunStorePreflight

LEMMA CommitStoreResultTruthful ==
    ASSUME TypeOK, TruthInv, NEW k \in Calls, CommitStoreResult(k)
    PROVE  Truthful(k)
<1>1. calls[k].request.category = "gateway" /\ Req(k).category = "gateway"
  BY OwnReceipt DEF CommitStoreResult, At, TrueCall, StorePCs, Req
<1>2. ASSUME NEW err, Fail(k, "recover", err), NEW r, NEW e
      PROVE  TrueCall(calls'[k], r, e)
  <2>1. /\ calls'[k].pc \in StorePCs
        /\ calls'[k].request = calls[k].request
    BY <1>2, OwnReceipt, MovesOn DEF StorePCs
  <2>2. QED
    BY <1>1, <2>1 DEF TrueCall, StorePCs, OwnerPCs, FencedPCs, RecordPCs, BindPCs
<1>3. CASE /\ ~Conflicts(Req(k))
           /\ CommitStoreMutation(Req(k)) \/ CommitStorePreflightFailure(Req(k))
           /\ \/ Return(k, receipts'[Key(k)].outcome)
              \/ \E err \in Faults : Fail(k, "recover", err)
  <2>1. Transits(Key(k))
    BY <1>1, <1>3, OwnReceipt, StoreMutationTransits, StorePreflightFailureTransits
  <2>2. StoreTypeOK'
    BY <1>3, OwnReceipt, StoreMutationAdvances, StorePreflightFailureAdvances
       DEF Advances
  <2>3. receipts'[Key(k)].phase # "absent" /\ receipts'[Key(k)].category = "gateway"
    <3>1. CASE Exists(Key(k))
      BY <1>1, <1>3, <2>1, <3>1, OwnReceipt
         DEF Exists, Phase, Conflicts, TrueReceipt, Transits, Transition, SameAction
    <3>2. CASE ~Exists(Key(k))
      BY <1>1, <1>3, <3>2, OwnReceipt
         DEF CommitStoreMutation, CommitStorePreflightFailure, NewReceipt, StoreTypeOK
    <3>3. QED
      BY <3>1, <3>2
  <2>4. receipts'[Key(k)].phase = "terminal"
    BY <2>1, <2>2, <2>3, NewReceiptIsTrue DEF TrueReceipt
  <2>5. TrueAnswer(receipts'[Key(k)].outcome, receipts'[Key(k)], effect[Key(k)])
    BY <2>1, <2>2, <2>4, NewReceiptIsTrue, TerminalAnswersAreTrue
  <2>6. QED
    BY <1>2, <1>3, <2>1, <2>5, OwnReceipt, ReturnIsTrue DEF Truthful
<1>4. CASE /\ UNCHANGED storeVars
           /\ \/ \E err : Fail(k, "recover", err)
              \/ Return(k, Failed("stale_runtime"))
  BY <1>2, <1>4, OwnReceipt, UnchangedTransits, AttemptsAreTrue,
     AnswerOnUnchangedStore DEF Truthful
<1>5. QED
  BY <1>3, <1>4 DEF CommitStoreResult

LEMMA RecoverStoreMutationOutcomeTruthful ==
    ASSUME TypeOK, TruthInv, NEW k \in Calls, RecoverStoreMutationOutcome(k)
    PROVE  Truthful(k)
<1>1. calls[k].request.category = "gateway"
  BY OwnReceipt DEF RecoverStoreMutationOutcome, At, TrueCall, StorePCs
<1>2. CASE /\ Exists(Key(k)) /\ ~Conflicts(Req(k))
           /\ Return(k, receipts[Key(k)].outcome)
  <2>1. receipts[Key(k)].phase = "terminal"
    BY <1>1, <1>2, OwnReceipt DEF Exists, Phase, Conflicts, TrueReceipt, Req
  <2>2. QED
    BY <1>2, <2>1, OwnReceipt, TerminalAnswersAreTrue, AnswerOnUnchangedStore
       DEF RecoverStoreMutationOutcome
<1>3. QED
  BY <1>2, AttemptsAreTrue, AnswerOnUnchangedStore DEF RecoverStoreMutationOutcome

LEMMA ReserveTruthful ==
    ASSUME TypeOK, TruthInv, NEW k \in Calls, Reserve(k)
    PROVE  Truthful(k)
<1> DEFINE Failure(err) == Return(k, IF err = "cancel" THEN Raised("cancelled")
                                                       ELSE Failed(Code(err)))
<1>1. calls[k].request.category # "gateway" /\ Req(k).category # "gateway"
  BY OwnReceipt DEF Reserve, At, TrueCall, Req
<1>2. ASSUME NEW err, Failure(err), NEW r, NEW e
      PROVE  TrueCall(calls'[k], r, e)
  BY <1>2, OwnReceipt, AttemptsAreTrue, ReturnIsTrue
<1>3. CASE /\ ~Conflicts(Req(k))
           /\ ReserveEffect(Req(k))
           /\ \/ AfterReserve(k, receipts'[Key(k)])
              \/ \E err \in Faults : Failure(err)
  <2>1. Transits(Key(k))
    BY <1>1, <1>3, OwnReceipt, ReserveTransits
  <2>2. StoreTypeOK'
    BY <1>3, OwnReceipt, ReserveAdvances DEF Advances
  <2>3. /\ receipts'[Key(k)].phase # "absent"
        /\ receipts'[Key(k)].request = calls[k].request
    <3>1. CASE Exists(Key(k))
      BY <1>3, <2>1, <3>1, OwnReceipt
         DEF Exists, Phase, Conflicts, Transits, Transition, SameAction, Req
    <3>2. CASE ~Exists(Key(k))
      BY <1>3, <3>2, OwnReceipt DEF ReserveEffect, NewReceipt, StoreTypeOK, Req
    <3>3. QED
      BY <3>1, <3>2
  <2> DEFINE r == receipts'[Key(k)]
             e == effect[Key(k)]
  <2>4. TrueReceipt(Key(k), r, e, invoked[Key(k)]) /\ r \in ReceiptType
    BY <2>1, <2>2, NewReceiptIsTrue
  <2>5. CASE AfterReserve(k, r)
    <3>1. CASE r.phase = "terminal" /\ Return(k, r.outcome)
      BY <2>1, <2>4, <3>1, OwnReceipt, TerminalAnswersAreTrue, ReturnIsTrue
         DEF Truthful
    <3>2. CASE r.phase = "known" /\ Hold(k, "commit", r.outcome)
      <4>1. calls'[k].pc = "commit" /\ calls'[k].request = calls[k].request
        BY <3>2, OwnReceipt, MovesOn
      <4>2. calls[k].request.category = "workflow" /\ e = "applied"
        BY <2>3, <2>4, <3>2 DEF TrueReceipt
      <4>3. TrueCall(calls'[k], r, e)
        BY <2>3, <3>2, <4>1, <4>2
           DEF TrueCall, StorePCs, OwnerPCs, FencedPCs, RecordPCs, BindPCs
      <4>4. QED
        BY <2>1, <4>3 DEF Truthful
    <3>3. CASE \/ r.phase = "started" /\ Goto(k, "reconcile")
               \/ r.phase = "reserved" /\ Goto(k, "preflight")
      <4>1. /\ \/ r.phase = "started" /\ calls'[k].pc = "reconcile"
               \/ r.phase = "reserved" /\ calls'[k].pc = "preflight"
            /\ calls'[k].request = calls[k].request
        BY <3>3, OwnReceipt, MovesOn
      <4>2. TrueCall(calls'[k], r, e)
        BY <1>1, <2>3, <4>1
           DEF TrueCall, StorePCs, OwnerPCs, FencedPCs, RecordPCs, BindPCs
      <4>3. QED
        BY <2>1, <4>2 DEF Truthful
    <3>4. QED
      BY <2>5, <3>1, <3>2, <3>3 DEF AfterReserve
  <2>6. QED
    BY <1>2, <1>3, <2>1, <2>5 DEF Truthful
<1>4. CASE /\ UNCHANGED storeVars
           /\ \/ \E err \in Refusals(k) : Failure(err)
              \/ Return(k, Failed("conflict"))
              \/ Return(k, Failed("capacity"))
  BY <1>2, <1>4, OwnReceipt, UnchangedTransits, AttemptsAreTrue,
     AnswerOnUnchangedStore DEF Truthful
<1>5. QED
  BY <1>3, <1>4 DEF Reserve

(* Between the reservation and the fence a call only keeps that its action
   is reserved under its own request. *)
LEMMA MovesOnBeforeFence ==
    ASSUME TypeOK, TruthInv, NEW k \in Calls,
           NEW pc \in {"reject", "read_preflight", "read_reject", "mark", "read_mark",
                       "reserve"},
           calls[k].pc \in {"preflight", "reject", "mark"}, Goto(k, pc),
           Transits(Key(k))
    PROVE  Truthful(k)
<1>1. calls'[k].pc = pc /\ calls'[k].request = calls[k].request
  BY OwnReceipt, MovesOn
<1>2. /\ receipts[Key(k)].phase # "absent"
      /\ receipts[Key(k)].request = calls[k].request
      /\ calls[k].request.category # "gateway"
  BY OwnReceipt DEF TrueCall, OwnerPCs
<1>3. /\ receipts'[Key(k)].phase # "absent"
      /\ receipts'[Key(k)].request = calls[k].request
  BY <1>2 DEF Transits, Transition, SameAction
<1>4. TrueCall(calls'[k], receipts'[Key(k)], effect[Key(k)])
  BY <1>1, <1>2, <1>3 DEF TrueCall, StorePCs, OwnerPCs, FencedPCs, RecordPCs, BindPCs
<1>5. QED
  BY <1>4 DEF Truthful

LEMMA RunNativePreflightTruthful ==
    ASSUME TypeOK, TruthInv, NEW k \in Calls, RunNativePreflight(k)
    PROVE  Truthful(k)
<1>1. CASE Goto(k, "mark") \/ Goto(k, "reject") \/ Goto(k, "read_preflight")
  BY <1>1, OwnReceipt, UnchangedTransits, MovesOnBeforeFence
     DEF RunNativePreflight, At
<1>2. QED
  BY <1>1, AttemptsAreTrue, AnswerOnUnchangedStore DEF RunNativePreflight

LEMMA RejectPreflightTruthful ==
    ASSUME TypeOK, TruthInv, NEW k \in Calls, RejectPreflight(k)
    PROVE  Truthful(k)
<1> DEFINE Failure(err) ==
              \/ err = "stale" /\ Return(k, Failed("stale_runtime"))
              \/ err = "cancel" /\ Goto(k, "read_preflight")
              \/ err = "error" /\ Goto(k, "read_reject")
<1>1. ASSUME NEW err, Failure(err), Transits(Key(k))
      PROVE  Truthful(k)
  <2>1. CASE Return(k, Failed("stale_runtime"))
    BY <1>1, <2>1, OwnReceipt, AttemptsAreTrue, ReturnIsTrue DEF Truthful
  <2>2. QED
    BY <1>1, <2>1, MovesOnBeforeFence DEF RejectPreflight, At
<1>2. CASE /\ RecordEffectPreflightFailure(Key(k))
           /\ \/ Return(k, IF receipts'[Key(k)].phase = "terminal"
                           THEN receipts'[Key(k)].outcome
                           ELSE OutcomeUnknown("outcome_unknown"))
              \/ \E err \in Faults : Failure(err)
  <2>1. Transits(Key(k)) /\ StoreTypeOK'
    BY <1>2, OwnReceipt, PreflightFailureTransits, PreflightFailureAdvances
       DEF Advances
  <2>2. CASE Return(k, IF receipts'[Key(k)].phase = "terminal"
                       THEN receipts'[Key(k)].outcome
                       ELSE OutcomeUnknown("outcome_unknown"))
    BY <2>1, <2>2, OwnReceipt, NewReceiptIsTrue, TerminalAnswersAreTrue,
       AttemptsAreTrue, ReturnIsTrue DEF Truthful
  <2>3. QED
    BY <1>1, <1>2, <2>1, <2>2
<1>3. CASE UNCHANGED storeVars /\ \E err \in Refusals(k) : Failure(err)
  BY <1>1, <1>3, OwnReceipt, UnchangedTransits
<1>4. QED
  BY <1>2, <1>3 DEF RejectPreflight

LEMMA ReadAfterPreflightTruthful ==
    ASSUME TypeOK, TruthInv, NEW k \in Calls, ReadAfterPreflight(k)
    PROVE  Truthful(k)
  BY OwnReceipt, TerminalAnswersAreTrue, AttemptsAreTrue, AnswerOnUnchangedStore
     DEF ReadAfterPreflight, Phase

LEMMA EnterNativeFenceTruthful ==
    ASSUME TypeOK, TruthInv, NEW k \in Calls, EnterNativeFence(k)
    PROVE  Truthful(k)
<1> DEFINE Failure(err) == IF err = "cancel" THEN Goto(k, "read_mark")
                                             ELSE Return(k, Failed(Code(err)))
<1>0. calls[k].pc = "mark"
  BY DEF EnterNativeFence, At
<1>1. ASSUME NEW err, Failure(err), Transits(Key(k))
      PROVE  Truthful(k)
  <2>1. CASE Return(k, Failed(Code(err)))
    BY <1>1, <2>1, OwnReceipt, AttemptsAreTrue, ReturnIsTrue DEF Truthful
  <2>2. QED
    BY <1>0, <1>1, <2>1, MovesOnBeforeFence
<1>2. CASE UNCHANGED storeVars /\ \E err \in Refusals(k) : Failure(err)
  BY <1>1, <1>2, OwnReceipt, UnchangedTransits
<1>3. CASE /\ MarkNativeSideEffectStarted(Key(k))
           /\ \/ Goto(k, IF Phase(Key(k)) = "reserved" THEN "invoke" ELSE "reserve")
              \/ \E err \in Faults : Failure(err)
  <2>1. Transits(Key(k))
    BY <1>3, OwnReceipt, MarkTransits
  <2>2. CASE Phase(Key(k)) = "reserved" /\ Goto(k, "invoke")
    <3>1. /\ receipts'[Key(k)].phase = "started"
          /\ receipts'[Key(k)].request = receipts[Key(k)].request
      BY <1>3, <2>2, OwnReceipt DEF MarkNativeSideEffectStarted, SetReceipt, StoreTypeOK
    <3>2. /\ receipts[Key(k)].request = calls[k].request
          /\ calls[k].request.category # "gateway"
      BY <1>0, OwnReceipt DEF TrueCall, OwnerPCs
    <3>3. calls'[k].pc = "invoke" /\ calls'[k].request = calls[k].request
      BY <2>2, OwnReceipt, MovesOn
    <3>4. TrueCall(calls'[k], receipts'[Key(k)], effect[Key(k)])
      BY <3>1, <3>2, <3>3
         DEF TrueCall, StorePCs, OwnerPCs, FencedPCs, RecordPCs, BindPCs
    <3>5. QED
      BY <2>1, <3>4 DEF Truthful
  <2>3. CASE Goto(k, "reserve")
    BY <1>0, <2>1, <2>3, MovesOnBeforeFence
  <2>4. QED
    BY <1>1, <1>3, <2>1, <2>2, <2>3
<1>4. QED
  BY <1>2, <1>3 DEF EnterNativeFence

(* Behind the fence the receipt of a call stays behind it. *)
LEMMA FencedStays ==
    ASSUME TypeOK, TruthInv, NEW k \in Calls, calls[k].pc \in FencedPCs,
           Transits(Key(k))
    PROVE  /\ receipts[Key(k)].phase \notin {"absent", "reserved"}
           /\ receipts[Key(k)].request = calls[k].request
           /\ receipts[Key(k)].category = calls[k].request.category
           /\ receipts'[Key(k)].phase \notin {"absent", "reserved"}
           /\ receipts'[Key(k)].request = calls[k].request
           /\ calls[k].request.category # "gateway"
<1>1. /\ receipts[Key(k)].phase \notin {"absent", "reserved"}
      /\ receipts[Key(k)].request = calls[k].request
      /\ calls[k].request.category # "gateway"
  BY OwnReceipt DEF TrueCall, OwnerPCs
<1>2. receipts[Key(k)].category = calls[k].request.category
  BY <1>1, OwnReceipt DEF TrueReceipt
<1>3. QED
  BY <1>1, <1>2 DEF Transits, Transition, SameAction

(* A call moves on behind the fence, with what its new place requires. *)
LEMMA MovesOnBehindFence ==
    ASSUME TypeOK, TruthInv, NEW k \in Calls, NEW pc \in FencedPCs \ {"invoke", "native"},
           calls'[k].pc = pc, calls'[k].request = calls[k].request,
           Transits(Key(k)),
           /\ receipts'[Key(k)].phase \notin {"absent", "reserved"}
           /\ receipts'[Key(k)].request = calls[k].request
           /\ calls[k].request.category # "gateway",
           pc \in RecordPCs =>
              \/ effect[Key(k)] = "applied" /\ calls'[k].held = Succeeded(NoGen)
              \/ effect[Key(k)] # "none" /\ calls'[k].held = Failed("native_rejected"),
           pc \in BindPCs =>
              /\ calls[k].request.category = "workflow"
              /\ receipts'[Key(k)].phase \in {"known", "terminal"}
              /\ effect[Key(k)] = "applied"
    PROVE  Truthful(k)
<1>1. pc \notin StorePCs \cup {"invoke", "native", "done"}
  BY DEF FencedPCs, RecordPCs, BindPCs, StorePCs
<1>2. TrueCall(calls'[k], receipts'[Key(k)], effect[Key(k)])
  BY <1>1 DEF TrueCall
<1>3. QED
  BY <1>2 DEF Truthful

LEMMA ReadAfterFenceTruthful ==
    ASSUME TypeOK, TruthInv, NEW k \in Calls, ReadAfterFence(k)
    PROVE  Truthful(k)
<1>1. CASE Phase(Key(k)) \in {"started", "known"} /\ Goto(k, "unknown")
  <2>1. calls'[k].pc = "unknown" /\ calls'[k].request = calls[k].request
    BY <1>1, OwnReceipt, MovesOn
  <2>2. Transits(Key(k)) /\ receipts'[Key(k)] = receipts[Key(k)]
    BY OwnReceipt, UnchangedTransits DEF ReadAfterFence
  <2>3. /\ receipts[Key(k)].request = calls[k].request
        /\ calls[k].request.category # "gateway"
    BY OwnReceipt DEF ReadAfterFence, At, TrueCall, OwnerPCs
  <2>4. "unknown" \in FencedPCs \ ({"invoke", "native"} \cup RecordPCs \cup BindPCs)
    BY DEF FencedPCs, RecordPCs, BindPCs
  <2>5. QED
    BY <1>1, <2>1, <2>2, <2>3, <2>4, MovesOnBehindFence DEF Phase
<1>2. QED
  BY <1>1, OwnReceipt, TerminalAnswersAreTrue, AttemptsAreTrue, AnswerOnUnchangedStore
     DEF ReadAfterFence, Phase

LEMMA InvokeEndsTruthful ==
    ASSUME TypeOK, TruthInv, NEW k \in Calls, InvokeReturns(k) \/ InvokeRaises(k)
    PROVE  Truthful(k)
<1>1. calls[k].pc \in FencedPCs
  BY DEF InvokeReturns, InvokeRaises, At, FencedPCs
<1>2. Transits(Key(k)) /\ receipts'[Key(k)] = receipts[Key(k)]
  BY OwnReceipt, UnchangedTransits DEF InvokeReturns, InvokeRaises
<1>3. CASE InvokeReturns(k)
  <2>0. effect[Key(k)] # "none"
    BY <1>3, OwnReceipt DEF InvokeReturns, At, TrueCall
  <2>1. /\ calls'[k].pc = "record"
        /\ calls'[k].request = calls[k].request
        /\ \/ Decided(Key(k)) /\ calls'[k].held = KnownOutcome(Key(k))
           \/ calls'[k].held = Failed("native_rejected")
    BY <1>3, OwnReceipt DEF InvokeReturns, ExecTypeOK, Hold, Move
  <2>2. "record" \in FencedPCs \ {"invoke", "native"} /\ "record" \notin BindPCs
    BY DEF FencedPCs, RecordPCs, BindPCs
  <2>3. \/ effect[Key(k)] = "applied" /\ calls'[k].held = Succeeded(NoGen)
        \/ effect[Key(k)] # "none" /\ calls'[k].held = Failed("native_rejected")
    BY <2>0, <2>1 DEF Decided, KnownOutcome
  <2>4. QED
    BY <1>1, <1>2, <2>1, <2>2, <2>3, FencedStays, MovesOnBehindFence
<1>4. CASE InvokeRaises(k)
  <2>1. calls'[k].pc = "unknown" /\ calls'[k].request = calls[k].request
    BY <1>4, OwnReceipt, MovesOn DEF InvokeRaises
  <2>2. "unknown" \in FencedPCs \ ({"invoke", "native"} \cup RecordPCs \cup BindPCs)
    BY DEF FencedPCs, RecordPCs, BindPCs
  <2>3. QED
    BY <1>1, <1>2, <2>1, <2>2, FencedStays, MovesOnBehindFence
<1>5. QED
  BY <1>3, <1>4

LEMMA ReconcileTruthful ==
    ASSUME TypeOK, TruthInv, NEW k \in Calls, Reconcile(k)
    PROVE  Truthful(k)
<1>1. calls[k].pc \in FencedPCs
  BY DEF Reconcile, At, FencedPCs
<1>2. Transits(Key(k)) /\ receipts'[Key(k)] = receipts[Key(k)]
  BY OwnReceipt, UnchangedTransits DEF Reconcile
<1>3. CASE Decided(Key(k)) /\ Hold(k, "record_reconciled", KnownOutcome(Key(k)))
  <2>1. /\ calls'[k].pc = "record_reconciled"
        /\ calls'[k].request = calls[k].request
        /\ calls'[k].held = KnownOutcome(Key(k))
    BY <1>3, OwnReceipt DEF ExecTypeOK, Hold, Move
  <2>2. "record_reconciled" \in FencedPCs \ ({"invoke", "native"} \cup BindPCs)
    BY DEF FencedPCs, RecordPCs, BindPCs
  <2>3. \/ effect[Key(k)] = "applied" /\ calls'[k].held = Succeeded(NoGen)
        \/ effect[Key(k)] # "none" /\ calls'[k].held = Failed("native_rejected")
    BY <1>3, <2>1 DEF Decided, KnownOutcome
  <2>4. QED
    BY <1>1, <1>2, <2>1, <2>2, <2>3, FencedStays, MovesOnBehindFence
<1>4. CASE Goto(k, "unknown")
  <2>1. calls'[k].pc = "unknown" /\ calls'[k].request = calls[k].request
    BY <1>4, OwnReceipt, MovesOn
  <2>2. "unknown" \in FencedPCs \ ({"invoke", "native"} \cup RecordPCs \cup BindPCs)
    BY DEF FencedPCs, RecordPCs, BindPCs
  <2>3. QED
    BY <1>1, <1>2, <2>1, <2>2, FencedStays, MovesOnBehindFence
<1>5. QED
  BY <1>3, <1>4 DEF Reconcile

(* What a call that holds a known outcome knows. *)
LEMMA KnownOutcomes ==
    ASSUME TypeOK, TruthInv, NEW k \in Calls, calls[k].pc \in RecordPCs
    PROVE  /\ calls[k].pc \in FencedPCs
           /\ OutcomePhase(k) \in {"known", "terminal"}
           /\ \/ effect[Key(k)] = "applied" /\ calls[k].held = Succeeded(NoGen)
              \/ effect[Key(k)] # "none" /\ calls[k].held = Failed("native_rejected")
           /\ OutcomePhase(k) = "known" => /\ calls[k].request.category = "workflow"
                                           /\ calls[k].held.kind = "succeeded"
                                           /\ effect[Key(k)] = "applied"
<1>1. \/ effect[Key(k)] = "applied" /\ calls[k].held = Succeeded(NoGen)
      \/ effect[Key(k)] # "none" /\ calls[k].held = Failed("native_rejected")
  BY OwnReceipt DEF TrueCall
<1>2. Failed("native_rejected").kind # "succeeded"
  BY DEF Failed
<1>3. QED
  BY <1>1, <1>2 DEF FencedPCs, OutcomePhase, IsWorkflow, Req

(* The writes of a known outcome. *)
LEMMA RecordsKnown ==
    ASSUME TypeOK, TruthInv, NEW k \in Calls, calls[k].pc \in RecordPCs,
           RecordEffectOutcome(Key(k), OutcomePhase(k), calls[k].held)
    PROVE  /\ Transits(Key(k))
           /\ StoreTypeOK'
           /\ \/ receipts'[Key(k)].phase = "terminal"
              \/ /\ receipts'[Key(k)].phase = OutcomePhase(k)
                 /\ receipts'[Key(k)].outcome = calls[k].held
<1>1. OutcomePhase(k) \in {"started", "known", "terminal"}
  BY KnownOutcomes
<1>2. StoreTypeOK'
  BY <1>1, CallTyped, RecordAdvances DEF Advances
<1>3. QED
  BY <1>2, KnownOutcomes, OwnReceipt, RecordTransits

(* A call whose record failed goes on to read the receipt again. *)
LEMMA FailsToRecord ==
    ASSUME TypeOK, TruthInv, NEW k \in Calls, calls[k].pc \in RecordPCs,
           Transits(Key(k)), NEW pc \in RecordPCs, NEW err, Fail(k, pc, err)
    PROVE  Truthful(k)
<1>1. pc \in FencedPCs \ ({"invoke", "native"} \cup BindPCs)
  BY DEF FencedPCs, RecordPCs, BindPCs
<1>2. /\ calls'[k].pc = pc
      /\ calls'[k].request = calls[k].request
      /\ calls'[k].held = calls[k].held
  BY OwnReceipt DEF ExecTypeOK, Fail, Move
<1>3. QED
  BY <1>1, <1>2, KnownOutcomes, FencedStays, MovesOnBehindFence

(* A workflow whose success is known goes on to its binding. *)
LEMMA GoesOnToBind ==
    ASSUME TypeOK, TruthInv, NEW k \in Calls, calls[k].pc \in FencedPCs,
           Transits(Key(k)), NEW pc \in BindPCs,
           calls'[k].pc = pc, calls'[k].request = calls[k].request,
           calls[k].request.category = "workflow", effect[Key(k)] = "applied",
           receipts'[Key(k)].phase \in {"known", "terminal"}
    PROVE  Truthful(k)
<1>1. pc \in FencedPCs \ ({"invoke", "native"} \cup RecordPCs)
  BY DEF FencedPCs, RecordPCs, BindPCs
<1>2. QED
  BY <1>1, FencedStays, MovesOnBehindFence

LEMMA RecordOutcomeTruthful ==
    ASSUME TypeOK, TruthInv, NEW k \in Calls, RecordOutcome(k)
    PROVE  Truthful(k)
<1>1. calls[k].pc \in RecordPCs /\ "reread" \in RecordPCs /\ "commit" \in BindPCs
  BY DEF RecordOutcome, At, RecordPCs, BindPCs
<1>2. CASE /\ RecordEffectOutcome(Key(k), OutcomePhase(k), calls[k].held)
           /\ IF OutcomePhase(k) = "terminal"
              THEN Return(k, receipts'[Key(k)].outcome)
              ELSE Hold(k, "commit", receipts'[Key(k)].outcome)
  <2>1. CASE OutcomePhase(k) = "terminal"
    BY <1>1, <1>2, <2>1, RecordsKnown, OwnReceipt, NewReceiptIsTrue,
       TerminalAnswersAreTrue, ReturnIsTrue DEF Truthful
  <2>2. CASE OutcomePhase(k) = "known"
    <3>1. calls'[k].pc = "commit" /\ calls'[k].request = calls[k].request
      BY <1>2, <2>2, OwnReceipt DEF ExecTypeOK, Hold, Move
    <3>2. QED
      BY <1>1, <1>2, <2>2, <3>1, KnownOutcomes, RecordsKnown, GoesOnToBind
  <2>3. QED
    BY <1>1, <2>1, <2>2, KnownOutcomes
<1>3. CASE /\ RecordEffectOutcome(Key(k), OutcomePhase(k), calls[k].held)
           /\ \E err \in Faults : Fail(k, "reread", err)
  BY <1>1, <1>3, RecordsKnown, FailsToRecord
<1>4. CASE UNCHANGED storeVars /\ \E err : Fail(k, "reread", err)
  BY <1>1, <1>4, OwnReceipt, UnchangedTransits, FailsToRecord
<1>5. QED
  BY <1>2, <1>3, <1>4 DEF RecordOutcome

LEMMA RereadOutcomeTruthful ==
    ASSUME TypeOK, TruthInv, NEW k \in Calls, RereadOutcome(k)
    PROVE  Truthful(k)
<1>1. calls[k].pc \in RecordPCs /\ "commit" \in BindPCs
  BY DEF RereadOutcome, At, RecordPCs, BindPCs
<1>2. UNCHANGED storeVars
  BY DEF RereadOutcome
<1>3. CASE /\ OutcomePhase(k) = "known"
           /\ Phase(Key(k)) = "known"
           /\ Hold(k, "commit", receipts[Key(k)].outcome)
  <2>1. calls'[k].pc = "commit" /\ calls'[k].request = calls[k].request
    BY <1>3, OwnReceipt DEF ExecTypeOK, Hold, Move
  <2>2. Transits(Key(k)) /\ receipts'[Key(k)].phase = "known"
    BY <1>2, <1>3, OwnReceipt, UnchangedTransits DEF Phase
  <2>3. QED
    BY <1>1, <1>3, <2>1, <2>2, KnownOutcomes, GoesOnToBind
<1>4. CASE Return(k, IF OutcomePhase(k) = "known"
                     THEN Partial(Code(calls[k].err))
                     ELSE OutcomeUnknown(UnknownCode(calls[k].err)))
  BY <1>1, <1>2, <1>4, KnownOutcomes, AttemptsAreTrue, AnswerOnUnchangedStore
<1>5. CASE Phase(Key(k)) = "terminal" /\ Return(k, receipts[Key(k)].outcome)
  BY <1>2, <1>5, OwnReceipt, TerminalAnswersAreTrue, AnswerOnUnchangedStore DEF Phase
<1>6. QED
  BY <1>3, <1>4, <1>5 DEF RereadOutcome

(* A reconciled outcome that the receipt holds is answered, or its workflow
   goes on to its binding. *)
LEMMA AfterReconcileTruthful ==
    ASSUME TypeOK, TruthInv, NEW k \in Calls, calls[k].pc \in RecordPCs,
           Transits(Key(k)), StoreTypeOK',
           AfterReconcile(k, receipts'[Key(k)].outcome),
           \/ receipts'[Key(k)].phase = "terminal"
           \/ /\ receipts'[Key(k)].phase = "known"
              /\ calls[k].request.category = "workflow"
    PROVE  Truthful(k)
<1>1. /\ TrueReceipt(Key(k), receipts'[Key(k)], effect[Key(k)], invoked[Key(k)])
      /\ receipts'[Key(k)].request = calls[k].request
      /\ receipts'[Key(k)].phase # "absent"
      /\ calls[k].request.category # "gateway"
      /\ calls[k].pc \in FencedPCs
  BY KnownOutcomes, NewReceiptIsTrue, FencedStays
<1>2. CASE IsWorkflow(k) /\ receipts'[Key(k)].outcome.kind = "succeeded"
  <2>1. calls'[k].pc = "get" /\ calls'[k].request = calls[k].request
    BY <1>2, OwnReceipt, MovesOn DEF AfterReconcile
  <2>2. calls[k].request.category = "workflow" /\ effect[Key(k)] = "applied"
    BY <1>1, <1>2 DEF IsWorkflow, Req, TrueReceipt
  <2>3. "get" \in BindPCs
    BY DEF BindPCs
  <2>4. QED
    BY <1>1, <2>1, <2>2, <2>3, GoesOnToBind
<1>3. CASE ~(IsWorkflow(k) /\ receipts'[Key(k)].outcome.kind = "succeeded")
  <2>1. Return(k, receipts'[Key(k)].outcome)
    BY <1>3 DEF AfterReconcile
  <2>2. receipts'[Key(k)].phase = "terminal"
    BY <1>1, <1>3 DEF IsWorkflow, Req, TrueReceipt
  <2>3. QED
    BY <1>1, <2>1, <2>2, OwnReceipt, TerminalAnswersAreTrue, ReturnIsTrue DEF Truthful
<1>4. QED
  BY <1>2, <1>3

LEMMA RecordReconciledTruthful ==
    ASSUME TypeOK, TruthInv, NEW k \in Calls, RecordReconciled(k)
    PROVE  Truthful(k)
<1>1. calls[k].pc \in RecordPCs /\ "reread_reconciled" \in RecordPCs
  BY DEF RecordReconciled, At, RecordPCs
<1>2. CASE /\ RecordEffectOutcome(Key(k), OutcomePhase(k), calls[k].held)
           /\ AfterReconcile(k, receipts'[Key(k)].outcome)
  BY <1>1, <1>2, KnownOutcomes, RecordsKnown, AfterReconcileTruthful
<1>3. CASE /\ RecordEffectOutcome(Key(k), OutcomePhase(k), calls[k].held)
           /\ \E err \in Faults : Fail(k, "reread_reconciled", err)
  BY <1>1, <1>3, RecordsKnown, FailsToRecord
<1>4. CASE UNCHANGED storeVars /\ \E err : Fail(k, "reread_reconciled", err)
  BY <1>1, <1>4, OwnReceipt, UnchangedTransits, FailsToRecord
<1>5. QED
  BY <1>2, <1>3, <1>4 DEF RecordReconciled

LEMMA RereadReconciledTruthful ==
    ASSUME TypeOK, TruthInv, NEW k \in Calls, RereadReconciled(k)
    PROVE  Truthful(k)
<1>1. calls[k].pc \in RecordPCs /\ "get" \in BindPCs
  BY DEF RereadReconciled, At, RecordPCs, BindPCs
<1>2. UNCHANGED storeVars /\ StoreTypeOK'
  BY OwnReceipt, StoreUnchangedTyped DEF RereadReconciled
<1>3. Transits(Key(k)) /\ receipts'[Key(k)] = receipts[Key(k)]
  BY <1>2, OwnReceipt, UnchangedTransits
<1>4. CASE /\ Phase(Key(k)) = "terminal"
           /\ AfterReconcile(k, receipts[Key(k)].outcome)
  BY <1>1, <1>2, <1>3, <1>4, AfterReconcileTruthful DEF Phase
<1>5. CASE /\ OutcomePhase(k) = "known"
           /\ Phase(Key(k)) = "known"
           /\ Goto(k, "get")
  <2>1. calls'[k].pc = "get" /\ calls'[k].request = calls[k].request
    BY <1>5, OwnReceipt, MovesOn
  <2>2. QED
    BY <1>1, <1>3, <1>5, <2>1, KnownOutcomes, GoesOnToBind DEF Phase
<1>6. CASE Return(k, IF OutcomePhase(k) = "known" /\ calls[k].err # "error"
                     THEN Partial(Code(calls[k].err))
                     ELSE OutcomeUnknown(UnknownCode(calls[k].err)))
  BY <1>1, <1>2, <1>6, KnownOutcomes, AttemptsAreTrue, AnswerOnUnchangedStore
<1>7. QED
  BY <1>4, <1>5, <1>6 DEF RereadReconciled

(* What a call that is about to bind knows. *)
LEMMA BindersKnow ==
    ASSUME TypeOK, TruthInv, NEW k \in Calls, calls[k].pc \in BindPCs
    PROVE  /\ calls[k].pc \in FencedPCs
           /\ calls[k].request.category = "workflow"
           /\ effect[Key(k)] = "applied"
           /\ receipts[Key(k)].phase \in {"known", "terminal"}
  BY OwnReceipt DEF TrueCall, FencedPCs

LEMMA GetEffectReceiptTruthful ==
    ASSUME TypeOK, TruthInv, NEW k \in Calls, GetEffectReceipt(k)
    PROVE  Truthful(k)
<1>1. calls[k].pc \in BindPCs /\ "commit" \in BindPCs
  BY DEF GetEffectReceipt, At, BindPCs
<1>2. UNCHANGED storeVars
  BY DEF GetEffectReceipt
<1>3. CASE /\ Phase(Key(k)) # "terminal"
           /\ Hold(k, "commit", receipts[Key(k)].outcome)
  <2>1. calls'[k].pc = "commit" /\ calls'[k].request = calls[k].request
    BY <1>3, OwnReceipt DEF ExecTypeOK, Hold, Move
  <2>2. Transits(Key(k)) /\ receipts'[Key(k)] = receipts[Key(k)]
    BY <1>2, OwnReceipt, UnchangedTransits
  <2>3. QED
    BY <1>1, <2>1, <2>2, BindersKnow, GoesOnToBind
<1>4. CASE Phase(Key(k)) = "terminal" /\ Return(k, receipts[Key(k)].outcome)
  BY <1>2, <1>4, OwnReceipt, TerminalAnswersAreTrue, AnswerOnUnchangedStore DEF Phase
<1>5. CASE \E kind \in {"cancelled", "raised"} : Return(k, Raised(kind))
  BY <1>2, <1>5, AttemptsAreTrue, AnswerOnUnchangedStore
<1>6. QED
  BY <1>3, <1>4, <1>5 DEF GetEffectReceipt

LEMMA PersistUnknownTruthful ==
    ASSUME TypeOK, TruthInv, NEW k \in Calls, PersistUnknown(k)
    PROVE  Truthful(k)
<1> DEFINE unknown == OutcomeUnknown("outcome_unknown")
<1>1. \A r, e : TrueAnswer(unknown, r, e)
  BY AttemptsAreTrue
<1>2. unknown \in OutcomeType
  BY OutcomesTyped DEF Codes
<1> HIDE DEF unknown
<1>3. CASE /\ RecordEffectOutcome(Key(k), "started", unknown)
           /\ Return(k, receipts'[Key(k)].outcome) \/ Return(k, unknown)
  <2>1. /\ Transits(Key(k))
        /\ receipts'[Key(k)].phase = "terminal" \/ receipts'[Key(k)].outcome = unknown
    BY <1>3, OwnReceipt, RecordUnknownTransits
  <2>2. StoreTypeOK'
    BY <1>2, <1>3, OwnReceipt, RecordAdvances DEF Advances
  <2>3. TrueAnswer(receipts'[Key(k)].outcome, receipts'[Key(k)], effect[Key(k)])
    BY <1>1, <2>1, <2>2, NewReceiptIsTrue, TerminalAnswersAreTrue
  <2>4. QED
    BY <1>1, <1>3, <2>1, <2>3, OwnReceipt, ReturnIsTrue DEF Truthful
<1>4. CASE Return(k, unknown) /\ UNCHANGED storeVars
  BY <1>1, <1>4, AnswerOnUnchangedStore
<1>5. QED
  BY <1>3, <1>4 DEF PersistUnknown, unknown

LEMMA CommitKnownWorkflowTruthful ==
    ASSUME TypeOK, TruthInv, NEW k \in Calls, CommitKnownWorkflow(k)
    PROVE  Truthful(k)
<1>1. calls[k].pc \in BindPCs /\ "reread_commit" \in BindPCs
  BY DEF CommitKnownWorkflow, At, BindPCs
<1>2. ASSUME NEW err, Fail(k, "reread_commit", err), Transits(Key(k)),
             receipts'[Key(k)].phase \in {"known", "terminal"}
      PROVE  Truthful(k)
  <2>1. calls'[k].pc = "reread_commit" /\ calls'[k].request = calls[k].request
    BY <1>2, OwnReceipt DEF ExecTypeOK, Fail, Move
  <2>2. QED
    BY <1>1, <1>2, <2>1, BindersKnow, GoesOnToBind
<1>3. CASE /\ CommitWorkflowBinding(Req(k))
           /\ \/ Return(k, receipts'[Key(k)].outcome)
              \/ \E err \in Faults : Fail(k, "reread_commit", err)
  <2>1. Transits(Key(k)) /\ receipts'[Key(k)].phase = "terminal"
    BY <1>3, OwnReceipt, CommitWorkflowTransits
  <2>2. StoreTypeOK'
    BY <1>3, OwnReceipt, CommitWorkflowAdvances DEF Advances
  <2>3. TrueAnswer(receipts'[Key(k)].outcome, receipts'[Key(k)], effect[Key(k)])
    BY <2>1, <2>2, NewReceiptIsTrue, TerminalAnswersAreTrue
  <2>4. QED
    BY <1>2, <1>3, <2>1, <2>3, OwnReceipt, ReturnIsTrue DEF Truthful
<1>4. CASE UNCHANGED storeVars /\ \E err : Fail(k, "reread_commit", err)
  BY <1>1, <1>2, <1>4, OwnReceipt, BindersKnow, UnchangedTransits
<1>5. CASE /\ UNCHANGED storeVars
           /\ Return(k, Partial("stale_runtime")) \/ Return(k, Raised("internal_error"))
  BY <1>1, <1>5, BindersKnow, AttemptsAreTrue, AnswerOnUnchangedStore
<1>6. QED
  BY <1>3, <1>4, <1>5 DEF CommitKnownWorkflow

LEMMA RereadCommitTruthful ==
    ASSUME TypeOK, TruthInv, NEW k \in Calls, RereadCommit(k)
    PROVE  Truthful(k)
<1>1. calls[k].pc \in BindPCs
  BY DEF RereadCommit, At, BindPCs
<1>2. CASE Phase(Key(k)) = "terminal" /\ Return(k, receipts[Key(k)].outcome)
  BY <1>2, OwnReceipt, TerminalAnswersAreTrue, AnswerOnUnchangedStore
     DEF Phase, RereadCommit
<1>3. CASE Return(k, Partial(Code(calls[k].err)))
  BY <1>1, <1>3, BindersKnow, AttemptsAreTrue, AnswerOnUnchangedStore DEF RereadCommit
<1>4. QED
  BY <1>2, <1>3 DEF RereadCommit

LEMMA CallStepTruthful ==
    ASSUME TypeOK, TruthInv, NEW k \in Calls, CallStep(k), ~Invoke(k)
    PROVE  Truthful(k)
<1>1. CASE StoreMutationStep(k)
  BY <1>1, ReadStoreMutationReceiptTruthful, RunStorePreflightTruthful,
     CommitStoreResultTruthful, RecoverStoreMutationOutcomeTruthful
     DEF StoreMutationStep
<1>2. CASE NativeStep(k)
  BY <1>2, ReserveTruthful, RunNativePreflightTruthful, RejectPreflightTruthful,
     ReadAfterPreflightTruthful, EnterNativeFenceTruthful, ReadAfterFenceTruthful,
     InvokeEndsTruthful, RecordOutcomeTruthful, RereadOutcomeTruthful,
     ReconcileTruthful, RecordReconciledTruthful, RereadReconciledTruthful,
     GetEffectReceiptTruthful, PersistUnknownTruthful, CommitKnownWorkflowTruthful,
     RereadCommitTruthful
     DEF NativeStep
<1>3. QED
  BY <1>1, <1>2 DEF CallStep

-----------------------------------------------------------------------------
(* Every step keeps the truth. *)

LEMMA TruthfulPreserves ==
    ASSUME TypeOK, FenceInv, TruthInv, TypeOK', NEW k \in Calls, Truthful(k),
           \A j \in Calls \ {k} : calls'[j] = calls[j],
           calls'[k].request = calls[k].request,
           UNCHANGED nativeVars
    PROVE  TruthInv'
<1>0. UNCHANGED invoked /\ UNCHANGED effect /\ StoreTypeOK'
  BY DEF nativeVars, TypeOK
<1>1. ASSUME NEW a \in Keys
      PROVE  TrueReceipt(a, receipts'[a], effect'[a], invoked'[a])
  <2>1. CASE a = Key(k)
    BY <1>0, <2>1, NewReceiptIsTrue DEF Truthful
  <2>2. CASE a # Key(k)
    BY <1>0, <2>2 DEF Truthful, Transits, TruthInv
  <2>3. QED
    BY <2>1, <2>2
<1>2. ASSUME NEW j \in Calls
      PROVE  TrueCall(calls'[j], receipts'[Key(j)'], effect'[Key(j)'])
  <2>1. Key(j)' = Key(j)
    BY DEF Key
  <2>2. CASE j = k
    BY <1>0, <2>1, <2>2 DEF Truthful
  <2>3. CASE j # k /\ Key(j) # Key(k)
    BY <1>0, <2>1, <2>3, OwnReceipt DEF Truthful, Transits
  <2>4. CASE j # k /\ Key(j) = Key(k)
    <3>1. calls[j].pc = "invoke" => invoked[Key(k)] = 0
      BY <2>4 DEF FenceInv, At
    <3>2. receipts'[Key(k)] \in ReceiptType
      BY NewReceiptIsTrue, <1>0 DEF Truthful
    <3>3. TrueCall(calls[j], receipts[Key(k)], effect[Key(k)])
      BY <2>4, OwnReceipt
    <3>4. TrueCall(calls[j], receipts'[Key(k)], effect[Key(k)])
      BY <3>1, <3>2, <3>3, OwnReceipt, TransitionKeepsCalls DEF Truthful, Transits
    <3>5. QED
      BY <1>0, <2>1, <2>4, <3>4
  <2>5. QED
    BY <2>2, <2>3, <2>4
<1>3. QED
  BY <1>1, <1>2 DEF TruthInv

LEMMA CallStepKeepsRequest ==
    ASSUME TypeOK, NEW k \in Calls, CallStep(k)
    PROVE  /\ calls'[k].request = calls[k].request
           /\ ~Invoke(k) => UNCHANGED nativeVars
<1>1. CASE Quiet(k)
  BY <1>1 DEF Quiet, Moved
<1>2. CASE EnterNativeFence(k)
  BY <1>2 DEF EnterNativeFence, Goto, Return, Move, TypeOK, ExecTypeOK
<1>3. CASE Invoke(k)
  BY <1>3 DEF Invoke, Goto, Move, TypeOK, ExecTypeOK
<1>4. QED
  BY <1>1, <1>2, <1>3, CallStepQuiet

(* The effect of an action starts with its only invocation, and ends once. *)
LEMMA EffectKeepsCalls ==
    ASSUME NEW a, NEW r \in ReceiptType, NEW e \in Effects, NEW f \in Effects, NEW n,
           TrueReceipt(a, r, e, n), e \in {"none", "pending"}, f # "none",
           NEW c, TrueCall(c, r, e)
    PROVE  TrueCall(c, r, f)
  BY DEF TrueReceipt, TrueCall, ReceiptType, Effects, Phases, BindPCs, RecordPCs

LEMMA InvokeKeepsTruth ==
    ASSUME TypeOK, FenceInv, TruthInv, NEW k \in Calls, Invoke(k)
    PROVE  TruthInv'
<1>1. /\ UNCHANGED receipts
      /\ \A j \in Calls \ {k} : calls'[j] = calls[j]
      /\ calls'[k].pc = "native"
      /\ calls'[k].request = calls[k].request
  BY OwnReceipt, CallsMoveAlone, MovesOn DEF Invoke, storeVars, CallStep, NativeStep
<1>2. /\ invoked[Key(k)] = 0
      /\ receipts[Key(k)].phase = "started"
      /\ receipts[Key(k)].request = calls[k].request
      /\ calls[k].request.category # "gateway"
  BY OwnReceipt DEF Invoke, FenceInv, At, TrueCall, OwnerPCs, FencedPCs
<1>3. effect[Key(k)] = "none"
  BY <1>2, OwnReceipt DEF TrueReceipt
<1>4. /\ effect'[Key(k)] = "pending" /\ invoked'[Key(k)] = 1
      /\ \A b \in Keys \ {Key(k)} : effect'[b] = effect[b] /\ invoked'[b] = invoked[b]
  BY <1>2, <1>3, OwnReceipt DEF Invoke, ExecTypeOK
<1>5. ASSUME NEW a \in Keys
      PROVE  TrueReceipt(a, receipts'[a], effect'[a], invoked'[a])
  <2>1. CASE a = Key(k)
    BY <1>1, <1>2, <1>4, <2>1, OwnReceipt DEF TrueReceipt
  <2>2. CASE a # Key(k)
    BY <1>1, <1>4, <2>2 DEF TruthInv
  <2>3. QED
    BY <2>1, <2>2
<1>6. ASSUME NEW j \in Calls
      PROVE  TrueCall(calls'[j], receipts'[Key(j)'], effect'[Key(j)'])
  <2>1. Key(j)' = Key(j)
    BY <1>1 DEF Key
  <2>2. CASE j = k
    BY <1>1, <1>2, <1>4, <2>1, <2>2
       DEF TrueCall, StorePCs, OwnerPCs, FencedPCs, RecordPCs, BindPCs
  <2>3. CASE j # k /\ Key(j) # Key(k)
    BY <1>1, <1>4, <2>1, <2>3, OwnReceipt
  <2>4. CASE j # k /\ Key(j) = Key(k)
    <3>1. TrueCall(calls[j], receipts[Key(k)], effect'[Key(k)])
      <4>1. TrueCall(calls[j], receipts[Key(k)], effect[Key(k)])
        BY <2>4, OwnReceipt
      <4>2. "pending" \in Effects
        BY DEF Effects
      <4>3. QED
        BY <1>3, <1>4, <4>1, <4>2, OwnReceipt, EffectKeepsCalls
    <3>2. QED
      BY <1>1, <2>1, <2>4, <3>1
  <2>5. QED
    BY <2>2, <2>3, <2>4
<1>7. QED
  BY <1>5, <1>6 DEF TruthInv

LEMMA ApplicationDecidesKeepsTruth ==
    ASSUME TypeOK, TruthInv, NEW a \in Keys, ApplicationDecides(a)
    PROVE  TruthInv'
<1>1. /\ effect[a] = "pending" /\ effect'[a] \in {"applied", "refused"}
      /\ \A b \in Keys \ {a} : effect'[b] = effect[b]
      /\ UNCHANGED <<calls, receipts, invoked>>
  BY DEF ApplicationDecides, TypeOK, ExecTypeOK, storeVars
<1>2. /\ TrueReceipt(a, receipts[a], effect[a], invoked[a])
      /\ receipts[a] \in ReceiptType
      /\ effect[a] \in Effects /\ effect'[a] \in Effects
  BY <1>1 DEF TruthInv, TypeOK, StoreTypeOK, Effects
<1>3. TrueReceipt(a, receipts[a], effect'[a], invoked[a])
  BY <1>1, <1>2 DEF TrueReceipt
<1>4. \A b \in Keys : TrueReceipt(b, receipts'[b], effect'[b], invoked'[b])
  BY <1>1, <1>3 DEF TruthInv
<1>5. ASSUME NEW j \in Calls
      PROVE  TrueCall(calls'[j], receipts'[Key(j)'], effect'[Key(j)'])
  <2>1. Key(j)' = Key(j) /\ Key(j) \in Keys
    BY <1>1, OwnReceipt DEF Key
  <2>2. CASE Key(j) = a
    <3>1. TrueCall(calls[j], receipts[a], effect[a])
      BY <2>2, OwnReceipt
    <3>2. TrueCall(calls[j], receipts[a], effect'[a])
      BY <1>1, <1>2, <3>1, EffectKeepsCalls
    <3>3. QED
      BY <1>1, <2>1, <2>2, <3>2
  <2>3. CASE Key(j) # a
    BY <1>1, <2>1, <2>3, OwnReceipt
  <2>4. QED
    BY <2>2, <2>3
<1>6. QED
  BY <1>4, <1>5 DEF TruthInv

(* A call that starts, or dies, has established nothing. *)
LEMMA FreshCallIsTrue ==
    ASSUME NEW r, NEW e, NEW q, NEW n
    PROVE  /\ TrueCall(FreshCall(FirstPC(q), q, n), r, e)
           /\ TrueCall(FreshCall("crashed", q, n), r, e)
           /\ TrueCall(FreshCall("idle", q, n), r, e)
  BY DEF TrueCall, FreshCall, FirstPC, StorePCs, OwnerPCs, FencedPCs, RecordPCs,
         BindPCs

LEMMA StartKeepsTruth ==
    ASSUME TypeOK, TruthInv, NEW k \in Calls, NEW q \in Requests, NEW e \in open,
           Start(k, q, e)
    PROVE  TruthInv'
<1>1. /\ UNCHANGED <<receipts, invoked, effect>>
      /\ calls'[k] = FreshCall(FirstPC(q), q, e)
      /\ \A j \in Calls \ {k} : calls'[j] = calls[j]
  BY DEF Start, storeVars, nativeVars, TypeOK, ExecTypeOK
<1>2. ASSUME NEW j \in Calls
      PROVE  TrueCall(calls'[j], receipts'[Key(j)'], effect'[Key(j)'])
  <2>1. CASE j = k
    BY <1>1, <2>1, FreshCallIsTrue
  <2>2. CASE j # k
    BY <1>1, <2>2, OwnReceipt DEF Key
  <2>3. QED
    BY <2>1, <2>2
<1>3. QED
  BY <1>1, <1>2 DEF TruthInv

LEMMA CrashKeepsTruth ==
    ASSUME TypeOK, TruthInv, NEW e, Crash(e)
    PROVE  TruthInv'
<1>1. /\ UNCHANGED <<receipts, invoked, effect>>
      /\ \A j \in Calls : \/ calls'[j] = calls[j]
                          \/ calls'[j] = FreshCall("crashed", AnyRequest, 0)
  BY DEF Crash, nativeVars, TypeOK, ExecTypeOK
<1>2. ASSUME NEW j \in Calls
      PROVE  TrueCall(calls'[j], receipts'[Key(j)'], effect'[Key(j)'])
  <2>1. CASE calls'[j] = FreshCall("crashed", AnyRequest, 0)
    BY <2>1, FreshCallIsTrue
  <2>2. CASE calls'[j] = calls[j]
    BY <1>1, <2>2, OwnReceipt DEF Key
  <2>3. QED
    BY <1>1, <2>1, <2>2
<1>3. QED
  BY <1>1, <1>2 DEF TruthInv

LEMMA QuietRuntimeKeepsTruth ==
    ASSUME TruthInv, UNCHANGED <<receipts, calls, invoked, effect>>
    PROVE  TruthInv'
  BY DEF TruthInv, Key

LEMMA RuntimeStepIsQuiet ==
    ASSUME RuntimeStep
    PROVE  UNCHANGED <<receipts, calls, invoked, effect>>
  BY DEF RuntimeStep, AcquireRuntime, LeaseExpires, CloseRuntime, DropThreadRoutes,
         nativeVars

LEMMA NextKeepsTruth ==
    ASSUME TypeOK, FenceInv, TruthInv, [Next]_vars
    PROVE  TruthInv'
<1>0. TypeOK'
  BY NextPreserves
<1>1. ASSUME NEW k \in Calls, CallStep(k)
      PROVE  TruthInv'
  <2>1. CASE Invoke(k)
    BY <2>1, InvokeKeepsTruth
  <2>2. CASE ~Invoke(k)
    BY <1>0, <1>1, <2>2, CallStepTruthful, CallsMoveAlone, CallStepKeepsRequest,
       TruthfulPreserves
  <2>3. QED
    BY <2>1, <2>2
<1>2. CASE UNCHANGED vars
  BY <1>2, QuietRuntimeKeepsTruth DEF vars, storeVars, nativeVars
<1>3. CASE RuntimeStep
  BY <1>3, RuntimeStepIsQuiet, QuietRuntimeKeepsTruth
<1>4. QED
  BY <1>1, <1>2, <1>3, StartKeepsTruth, ApplicationDecidesKeepsTruth, CrashKeepsTruth
     DEF Next

LEMMA InitIsTrue == Init => TruthInv
<1> SUFFICES ASSUME Init PROVE TruthInv
  OBVIOUS
<1>1. TypeOK
  BY InitEstablishes
<1>2. \A a \in Keys : TrueReceipt(a, receipts[a], effect[a], invoked[a])
  BY DEF Init, StoreInit, AbsentReceipt, TrueReceipt
<1>3. \A k \in Calls : TrueCall(calls[k], receipts[Key(k)], effect[Key(k)])
  BY FreshCallIsTrue DEF Init
<1>4. QED
  BY <1>2, <1>3 DEF TruthInv

(* The truth and what it rests on hold in every state. *)
LEMMA TruthHolds == Spec => [](TypeOK /\ FenceInv /\ TruthInv)
<1>1. TypeOK /\ FenceInv /\ TruthInv /\ [Next]_vars => TypeOK' /\ FenceInv' /\ TruthInv'
  BY NextPreserves, NextKeepsTruth
<1>2. QED
  BY InitEstablishes, InitIsTrue, <1>1, PTL DEF Spec

(* Whatever is lost, retried, cancelled, reconciled or taken over: a receipt
   of success was applied, a failure by the preflight was never asked and any
   other failure was, without saying more of it; a verdict a caller was given
   is the one the store keeps, and a partial success was applied
   (_record_effect_outcome, _reconcile_native, _commit_known_workflow). *)
THEOREM ReceiptsStayTrue == Spec => []ReceiptsAreTrue
  BY TruthHolds, TruthSuffices, PTL

-----------------------------------------------------------------------------
(* The refinement of EffectPromise. *)

(* The promise's variables, as the refinement reads them off the receipts. *)
Statuses == [a \in Keys |-> PromisedStatus(a)]
Asked    == [a \in Keys |-> invoked[a] > 0]
Verdicts == [a \in Keys |-> PromisedVerdict(a)]

(* Nothing but action a moves. *)
OnlyMoves(a) ==
    \A b \in Keys \ {a} :
        receipts'[b] = receipts[b] /\ effect'[b] = effect[b] /\ invoked'[b] = invoked[b]

LEMMA PromiseMovesAlone ==
    ASSUME NEW a \in Keys, OnlyMoves(a)
    PROVE  /\ Statuses' = [Statuses EXCEPT ![a] = PromisedStatus(a)']
           /\ Asked' = [Asked EXCEPT ![a] = invoked'[a] > 0]
           /\ Verdicts' = [Verdicts EXCEPT ![a] = PromisedVerdict(a)']
<1>1. ASSUME NEW b \in Keys \ {a}
      PROVE  /\ PromisedStatus(b)' = PromisedStatus(b)
             /\ (invoked'[b] > 0) = (invoked[b] > 0)
             /\ PromisedVerdict(b)' = PromisedVerdict(b)
  BY DEF OnlyMoves, PromisedStatus, PromisedVerdict, Late, Phase
<1>2. QED
  BY <1>1 DEF Statuses, Asked, Verdicts

LEMMA PromiseStutters ==
    ASSUME NEW a \in Keys, OnlyMoves(a), UNCHANGED <<effect, invoked>>,
           PromisedStatus(a)' = PromisedStatus(a), PromisedVerdict(a)' = PromisedVerdict(a)
    PROVE  UNCHANGED Promise!pvars
<1>1. UNCHANGED <<Statuses, Asked, Verdicts>>
  <2>1. \A b \in Keys : /\ PromisedStatus(b)' = PromisedStatus(b)
                        /\ PromisedVerdict(b)' = PromisedVerdict(b)
    BY DEF OnlyMoves, PromisedStatus, PromisedVerdict, Late, Phase
  <2>2. QED
    BY <2>1 DEF Statuses, Asked, Verdicts
<1>2. QED
  BY <1>1 DEF Promise!pvars, Statuses, Asked, Verdicts

(* What a receipt and an effect promise, by the phase of the receipt. *)
LEMMA PromiseByPhase ==
    ASSUME NEW a \in Keys
    PROVE  /\ Phase(a) \in {"absent", "reserved"} =>
                PromisedStatus(a) = "open" /\ PromisedVerdict(a) = "none"
           /\ Phase(a) \in {"started", "known"} =>
                PromisedStatus(a) = "fenced" /\ PromisedVerdict(a) = "none"
           /\ Phase(a) = "terminal" => PromisedStatus(a) = "settled"
  BY DEF PromisedStatus, PromisedVerdict, Late

LEMMA PromiseByPhaseNext ==
    ASSUME NEW a \in Keys
    PROVE  /\ receipts'[a].phase \in {"absent", "reserved"} =>
                PromisedStatus(a)' = "open" /\ PromisedVerdict(a)' = "none"
           /\ receipts'[a].phase \in {"started", "known"} =>
                PromisedStatus(a)' = "fenced" /\ PromisedVerdict(a)' = "none"
           /\ receipts'[a].phase = "terminal" =>
                /\ PromisedStatus(a)' = "settled"
                /\ receipts'[a].category = "gateway" => PromisedVerdict(a)' = "local"
                /\ receipts'[a].category # "gateway" =>
                     PromisedVerdict(a)' = IF receipts'[a].outcome.kind # "failed"
                                           THEN "applied"
                                           ELSE IF effect'[a] = "none"
                                           THEN "declined" ELSE "failed"
  BY DEF PromisedStatus, PromisedVerdict, Late, Phase

-----------------------------------------------------------------------------
(* A transition of a receipt is a step of the promise about its action. *)

LEMMA TransitionKeepsPromise ==
    ASSUME TypeOK, TypeOK', TruthInv, NEW a \in Keys, Transits(a), UNCHANGED nativeVars
    PROVE  [Promise!Next]_Promise!pvars
<1> DEFINE r == receipts[a]
           s == receipts'[a]
<1>1. /\ OnlyMoves(a)
      /\ UNCHANGED <<effect, invoked>>
      /\ TrueReceipt(a, r, effect[a], invoked[a])
      /\ r \in ReceiptType /\ s \in ReceiptType
      /\ Phase(a) = r.phase
  BY DEF Transits, OnlyMoves, nativeVars, TruthInv, TypeOK, StoreTypeOK, Phase
<1>2. /\ Statuses' = [Statuses EXCEPT ![a] = PromisedStatus(a)']
      /\ Verdicts' = [Verdicts EXCEPT ![a] = PromisedVerdict(a)']
      /\ Asked' = Asked
      /\ Statuses[a] = PromisedStatus(a)
  BY <1>1, PromiseMovesAlone DEF Asked, Statuses
<1>3. CASE s = r
  BY <1>1, <1>3, PromiseStutters DEF PromisedStatus, PromisedVerdict, Late, Phase
<1>4. CASE \/ r.phase = "absent" /\ s.phase = "reserved"
           \/ r.phase = "started" /\ s.phase \in {"started", "known"}
  BY <1>1, <1>4, PromiseByPhase, PromiseByPhaseNext, PromiseStutters
<1>5. CASE r.phase = "absent" /\ s.phase = "terminal" /\ s.category = "gateway"
  <2>1. PromisedStatus(a) = "open" /\ PromisedStatus(a)' = "settled" /\ PromisedVerdict(a)' = "local"
    BY <1>1, <1>5, PromiseByPhase, PromiseByPhaseNext
  <2>2. Promise!SettleLocally(a)
    BY <1>1, <1>2, <2>1 DEF Promise!SettleLocally, Statuses, Verdicts, Asked
  <2>3. QED
    BY <2>2 DEF Promise!Next
<1>6. CASE r.phase = "reserved" /\ s.phase = "started"
  <2>1. /\ PromisedStatus(a) = "open" /\ PromisedStatus(a)' = "fenced"
        /\ PromisedVerdict(a) = "none" /\ PromisedVerdict(a)' = "none"
    BY <1>1, <1>6, PromiseByPhase, PromiseByPhaseNext
  <2>2. Verdicts' = Verdicts
    BY <1>2, <2>1 DEF Verdicts
  <2>3. Promise!Fence(a)
    BY <1>1, <1>2, <2>1, <2>2 DEF Promise!Fence, Statuses, Verdicts, Asked
  <2>4. QED
    BY <2>3 DEF Promise!Next
<1>7. CASE /\ r.phase = "reserved" /\ SameAction(r, s)
           /\ s.phase = "terminal" /\ s.outcome = Failed("preflight")
  <2>1. effect[a] = "none" /\ s.category # "gateway" /\ s.outcome.kind = "failed"
    BY <1>1, <1>7 DEF TrueReceipt, SameAction, Failed
  <2>2. PromisedStatus(a) = "open" /\ PromisedStatus(a)' = "settled" /\ PromisedVerdict(a)' = "declined"
    BY <1>1, <1>7, <2>1, PromiseByPhase, PromiseByPhaseNext
  <2>3. Promise!SettleLocally(a)
    BY <1>1, <1>2, <2>2 DEF Promise!SettleLocally, Statuses, Verdicts, Asked
  <2>4. QED
    BY <2>3 DEF Promise!Next
<1>8. CASE /\ r.phase \in {"started", "known"} /\ SameAction(r, s) /\ s.phase = "terminal"
           /\ s.outcome.kind \in {"succeeded", "partial"} /\ effect[a] = "applied"
  <2>1. s.category # "gateway"
    BY <1>1, <1>8 DEF TrueReceipt, SameAction
  <2>2. PromisedStatus(a) = "fenced" /\ PromisedStatus(a)' = "settled" /\ PromisedVerdict(a)' = "applied"
    BY <1>1, <1>8, <2>1, PromiseByPhase, PromiseByPhaseNext
  <2>3. Promise!Succeed(a)
    BY <1>1, <1>2, <1>8, <2>2 DEF Promise!Succeed, Statuses, Verdicts, Asked
  <2>4. QED
    BY <2>3 DEF Promise!Next
<1>9. CASE /\ r.phase = "started" /\ SameAction(r, s) /\ s.phase = "terminal"
           /\ s.outcome = Failed("native_rejected") /\ effect[a] # "none"
  <2>1. s.category # "gateway" /\ s.outcome.kind = "failed"
    BY <1>1, <1>9 DEF TrueReceipt, SameAction, Failed
  <2>2. PromisedStatus(a) = "fenced" /\ PromisedStatus(a)' = "settled" /\ PromisedVerdict(a)' = "failed"
    BY <1>1, <1>9, <2>1, PromiseByPhase, PromiseByPhaseNext
  <2>3. invoked[a] > 0
    BY <1>1, <1>9 DEF TrueReceipt
  <2>4. Asked[a]
    BY <2>3, Zenon DEF Asked
  <2>5. Promise!GiveUp(a)
    BY <1>1, <1>2, <1>9, <2>2, <2>4 DEF Promise!GiveUp, Statuses, Verdicts, Asked
  <2>6. QED
    BY <2>5 DEF Promise!Next
<1>10. r.phase = "known" => effect[a] = "applied"
  BY <1>1 DEF TrueReceipt
<1>11. QED
  BY <1>3, <1>4, <1>5, <1>6, <1>7, <1>8, <1>9, <1>10 DEF Transits, Transition

(* The callback of an action is entered behind the fence and once. *)
LEMMA InvokeKeepsPromise ==
    ASSUME TypeOK, FenceInv, TruthInv, NEW k \in Calls, Invoke(k)
    PROVE  Promise!Next
<1>0. PICK a \in Keys : a = Key(k)
  BY OwnReceipt
<1>1. /\ Phase(a) = "started"
      /\ invoked[a] = 0
      /\ effect[a] = "none"
      /\ UNCHANGED receipts
  BY <1>0, OwnReceipt DEF Invoke, At, TrueCall, TrueReceipt, FenceInv, Phase, storeVars
<1>2. /\ OnlyMoves(a)
      /\ invoked'[a] = 1
      /\ effect' = [effect EXCEPT ![a] = "pending"]
  BY <1>0, <1>1, OwnReceipt DEF Invoke, OnlyMoves, ExecTypeOK
<1>3. /\ PromisedStatus(a) = "fenced" /\ PromisedStatus(a)' = "fenced"
      /\ PromisedVerdict(a) = "none" /\ PromisedVerdict(a)' = "none"
  BY <1>1, PromiseByPhase, PromiseByPhaseNext DEF Phase
<1>4. UNCHANGED <<Statuses, Verdicts>>
  BY <1>1, <1>2, <1>3, PromiseMovesAlone DEF Statuses, Verdicts
<1>a. Asked' = [Asked EXCEPT ![a] = TRUE]
  <2>1. invoked'[a] > 0
    BY <1>2
  <2>2. \A b \in Keys : Asked'[b] = IF b = a THEN TRUE ELSE Asked[b]
    BY <1>2, <2>1, Zenon DEF Asked, OnlyMoves
  <2>3. QED
    BY <2>2, Zenon DEF Asked
<1>b. Statuses[a] = "fenced" /\ ~Asked[a]
  <2>1. ~(invoked[a] > 0)
    BY <1>1
  <2>2. QED
    BY <1>3, <2>1, Zenon DEF Statuses, Asked
<1>5. Promise!Ask(a)
  BY <1>2, <1>4, <1>a, <1>b DEF Promise!Ask, Statuses, Verdicts, Asked
<1>6. QED
  BY <1>5 DEF Promise!Next

(* What the Application does late changes no verdict: none was given, or the
   action was given up. *)
LEMMA ApplicationDecidesKeepsPromise ==
    ASSUME TypeOK, TruthInv, NEW a \in Keys, ApplicationDecides(a)
    PROVE  Promise!Next
<1>1. /\ effect[a] = "pending"
      /\ UNCHANGED <<receipts, invoked>>
      /\ TrueReceipt(a, receipts[a], effect[a], invoked[a])
  BY DEF ApplicationDecides, TruthInv, storeVars
<1>2. OnlyMoves(a)
  BY <1>1 DEF ApplicationDecides, OnlyMoves, TypeOK, ExecTypeOK
<1>3. PromisedStatus(a)' = PromisedStatus(a)
  BY <1>1 DEF PromisedStatus, Late, Phase
<1>a. effect'[a] # "none"
  BY DEF ApplicationDecides, TypeOK, ExecTypeOK
<1>4. PromisedVerdict(a)' = PromisedVerdict(a)
  BY <1>1, <1>a DEF PromisedVerdict, Phase, TrueReceipt
<1>5. UNCHANGED <<Statuses, Verdicts, Asked>>
  BY <1>1, <1>2, <1>3, <1>4, PromiseMovesAlone DEF Statuses, Verdicts, Asked
<1>6. Promise!Decide(a)
  BY <1>1, <1>5 DEF Promise!Decide, ApplicationDecides, Statuses, Verdicts, Asked
<1>7. QED
  BY <1>6 DEF Promise!Next

LEMMA QuietKeepsPromise ==
    ASSUME UNCHANGED <<receipts, invoked, effect>>
    PROVE  UNCHANGED Promise!pvars
  BY DEF Promise!pvars, PromisedStatus, PromisedVerdict, Late, Phase

LEMMA InitKeepsPromise == Init => Promise!Init
<1> SUFFICES ASSUME Init PROVE Promise!Init
  OBVIOUS
<1>1. \A a \in Keys : Phase(a) = "absent" /\ invoked[a] = 0
  BY DEF Init, StoreInit, AbsentReceipt, Phase
<1>2. \A a \in Keys : /\ PromisedStatus(a) = "open"
                      /\ PromisedVerdict(a) = "none"
                      /\ (invoked[a] > 0) = FALSE
  BY <1>1, PromiseByPhase
<1>3. QED
  BY <1>2 DEF Promise!Init, Init

LEMMA NextKeepsPromise ==
    ASSUME TypeOK, FenceInv, TruthInv, [Next]_vars
    PROVE  [Promise!Next]_Promise!pvars
<1>0. TypeOK'
  BY NextPreserves
<1>1. ASSUME NEW k \in Calls, CallStep(k)
      PROVE  [Promise!Next]_Promise!pvars
  <2>1. CASE Invoke(k)
    BY <2>1, InvokeKeepsPromise
  <2>2. CASE ~Invoke(k)
    <3>1. Transits(Key(k)) /\ UNCHANGED nativeVars /\ Key(k) \in Keys
      BY <1>1, <2>2, CallStepTruthful, CallStepKeepsRequest, OwnReceipt DEF Truthful
    <3>2. QED
      BY <1>0, <3>1, TransitionKeepsPromise
  <2>3. QED
    BY <2>1, <2>2
<1>2. CASE \E a \in Keys : ApplicationDecides(a)
  BY <1>2, ApplicationDecidesKeepsPromise
<1>3. CASE \/ \E k \in Calls, q \in Requests, e \in open : Start(k, q, e)
           \/ \E e \in 1..epoch : Crash(e)
           \/ UNCHANGED vars
  <2>1. UNCHANGED <<receipts, invoked, effect>>
    BY <1>3 DEF Start, Crash, vars, storeVars, nativeVars
  <2>2. QED
    BY <2>1, QuietKeepsPromise
<1>4. CASE RuntimeStep
  BY <1>4, RuntimeStepIsQuiet, QuietKeepsPromise
<1>5. QED
  BY <1>1, <1>2, <1>3, <1>4 DEF Next

(* The executor over the store implements the promise to its callers: the
   Application is asked at most once and only about a fenced action, and
   every action gets one verdict: success only of what was applied, and a
   failure that tells whether the Application was asked
   (_enter_native_fence, _record_effect_outcome, _commit_known_workflow). *)
THEOREM ExecutorKeepsPromise == Spec => KeepsPromise
<1>1. TypeOK /\ FenceInv /\ TruthInv /\ [Next]_vars => [Promise!Next]_Promise!pvars
  BY NextKeepsPromise
<1>2. QED
  BY InitKeepsPromise, TruthHolds, <1>1, PTL DEF Spec, KeepsPromise, Promise!Spec

-----------------------------------------------------------------------------
(* The bindings and routes the actions write. *)

(* A create-and-bind workflow that was reserved and has not ended. *)
Unfinished(a) ==
    /\ Phase(a) \in {"reserved", "started", "known"}
    /\ receipts[a].category = "workflow"

(* An action that has not ended has written no binding, and none has written
   twice; a workflow that ended in success was not overtaken. *)
EndOK(a) ==
    /\ ~Exists(a) => a \notin touched
    /\ mutated[a] <= 1
    /\ Phase(a) # "terminal" => mutated[a] = 0
    /\ /\ Phase(a) = "terminal"
       /\ receipts[a].category = "workflow"
       /\ receipts[a].outcome.kind = "succeeded"
       => a \notin touched

(* The generation an unfinished workflow reserved is passed as soon as another
   action writes the binding of its Conversation. *)
GenOK(a) ==
    Unfinished(a) =>
        LET g == Generation(receipts[a].request.conv) IN
        receipts[a].gen <= g /\ (a \in touched => receipts[a].gen < g)

GenInv == \A a \in Keys : EndOK(a) /\ GenOK(a)

-----------------------------------------------------------------------------
(* What an operation of the store may do. *)

(* The receipt of action a, and no other, is written. *)
OnlyWrites(a) == \A b \in Keys \ {a} : receipts'[b] = receipts[b]

(* A write that leaves the bindings alone: it reserves, goes on with or ends
   action a, and ends no workflow in success. *)
WritesReceipt(a) ==
    LET r == receipts[a]
        s == receipts'[a] IN
    /\ OnlyWrites(a)
    /\ UNCHANGED <<bound, gens, floors, touched, mutated>>
    /\ \/ s = r
       \/ /\ r.phase # "terminal" /\ s.phase = "terminal"
          /\ s.category = "workflow" => s.outcome.kind # "succeeded"
       \/ /\ r.phase \in {"reserved", "started"} /\ s.phase \in {"started", "known"}
          /\ s.category = r.category /\ s.request = r.request /\ s.gen = r.gen
       \/ /\ r.phase = "absent" /\ s.phase = "reserved"
          /\ s.category = "workflow" => s.gen = Generation(s.request.conv)

(* A write that moves Conversation c to its next generation, for action a. *)
Rebinds(a, c) ==
    /\ touched' = touched \cup Overtaken(a, c)
    /\ mutated' = [mutated EXCEPT ![a] = @ + 1]
    /\ Generation(c)' = Generation(c) + 1
    /\ \A d \in Conversations \ {c} : Generation(d)' = Generation(d)

(* Action a ends with it. *)
EndsRebinding(a, c) ==
    /\ OnlyWrites(a)
    /\ Phase(a) # "terminal"
    /\ receipts'[a].phase = "terminal"
    /\ receipts'[a].category = "workflow" => a \notin touched
    /\ Rebinds(a, c)

LEMMA WritesReceiptKeepsGen ==
    ASSUME StoreTypeOK, StoreTypeOK', GenInv, NEW a \in Keys, WritesReceipt(a)
    PROVE  GenInv'
<1>1. \A c \in Conversations : Generation(c)' = Generation(c) /\ Generation(c) \in Nat
  BY GenerationTyped DEF WritesReceipt, Generation
<1>2. \A b \in Keys : /\ receipts[b] \in ReceiptType /\ receipts'[b] \in ReceiptType
                      /\ receipts[b].request.conv \in Conversations
                      /\ receipts'[b].request.conv \in Conversations
  BY RequestsTyped DEF StoreTypeOK, ReceiptType
<1>3. ASSUME NEW b \in Keys
      PROVE  EndOK(b)'
  BY <1>2 DEF WritesReceipt, OnlyWrites, GenInv, EndOK, Exists, Phase
<1>4. ASSUME NEW b \in Keys, Unfinished(b)'
      PROVE  GenOK(b)'
  <2>1. PICK d \in Conversations : d = receipts'[b].request.conv
    BY <1>2
  <2>2. receipts'[b].gen <= Generation(d) /\ (b \in touched => receipts'[b].gen < Generation(d))
    BY <1>1, <1>2, <1>4, <2>1
       DEF WritesReceipt, OnlyWrites, GenInv, GenOK, EndOK, Exists, Phase, Unfinished
  <2>3. QED
    BY <1>1, <2>1, <2>2 DEF GenOK, WritesReceipt
<1>5. QED
  BY <1>3, <1>4 DEF GenInv, GenOK

LEMMA RebindingKeepsGen ==
    ASSUME StoreTypeOK, StoreTypeOK', GenInv, NEW a \in Keys, NEW c \in Conversations,
           EndsRebinding(a, c)
    PROVE  GenInv'
<1>1. \A b \in Keys : /\ receipts[b] \in ReceiptType
                      /\ receipts[b].request.conv \in Conversations
                      /\ receipts[b].gen \in Int
                      /\ mutated[b] \in Nat
  BY RequestsTyped DEF StoreTypeOK, ReceiptType
<1>2. \A d \in Conversations : Generation(d) \in Nat
  BY GenerationTyped
<1>3. /\ receipts'[a].phase = "terminal"
      /\ mutated'[a] = 1
      /\ receipts'[a].category = "workflow" => a \notin touched'
  <2>1. mutated[a] = 0
    BY DEF EndsRebinding, GenInv, EndOK
  <2>2. mutated'[a] = mutated[a] + 1
    BY DEF EndsRebinding, Rebinds, StoreTypeOK
  <2>3. QED
    BY <2>1, <2>2 DEF EndsRebinding, Rebinds, Overtaken
<1>4. ASSUME NEW b \in Keys \ {a}
      PROVE  /\ receipts'[b] = receipts[b]
             /\ mutated'[b] = mutated[b]
             /\ b \in touched' => b \in touched \/ (Unfinished(b) /\ receipts[b].request.conv = c)
             /\ b \in touched => b \in touched'
  <2>1. receipts'[b] = receipts[b]
    BY DEF EndsRebinding, OnlyWrites
  <2>2. mutated'[b] = mutated[b]
    BY DEF EndsRebinding, Rebinds, StoreTypeOK
  <2>3. touched' = touched \cup Overtaken(a, c)
    BY DEF EndsRebinding, Rebinds
  <2>4. b \in Overtaken(a, c) => Unfinished(b) /\ receipts[b].request.conv = c
    BY DEF Overtaken, Unfinished
  <2>5. QED
    BY <2>1, <2>2, <2>3, <2>4
<1>5. ASSUME NEW b \in Keys \ {a}, Unfinished(b)'
      PROVE  GenOK(b)'
  <2>1. PICK d \in Conversations : d = receipts[b].request.conv
    BY <1>1
  <2>2. Unfinished(b) /\ receipts'[b].request.conv = d
    BY <1>4, <1>5, <2>1 DEF Unfinished, Phase
  <2>3. receipts[b].gen <= Generation(d) /\ (b \in touched => receipts[b].gen < Generation(d))
    BY <2>1, <2>2 DEF GenInv, GenOK
  <2>4. Generation(d)' = IF d = c THEN Generation(d) + 1 ELSE Generation(d)
    BY DEF EndsRebinding, Rebinds
  <2>5. /\ receipts'[b].gen <= Generation(d)'
        /\ b \in touched' => receipts'[b].gen < Generation(d)'
    <3>1. Generation(d) \in Nat /\ receipts[b].gen \in Int /\ receipts'[b].gen = receipts[b].gen
      BY <1>1, <1>2, <1>4
    <3>2. b \in touched' => b \in touched \/ d = c
      BY <1>4, <2>1
    <3>3. QED
      BY <2>3, <2>4, <3>1, <3>2
  <2>6. QED
    BY <2>2, <2>5 DEF GenOK
<1>6. ASSUME NEW b \in Keys
      PROVE  EndOK(b)'
  <2>1. CASE b = a
    BY <1>3, <2>1 DEF EndOK, Exists, Phase
  <2>2. CASE b # a
    BY <1>4, <2>2 DEF GenInv, EndOK, Exists, Phase, Unfinished
  <2>3. QED
    BY <2>1, <2>2
<1>7. ~Unfinished(a)'
  BY <1>3 DEF Unfinished, Phase
<1>8. QED
  BY <1>5, <1>6, <1>7 DEF GenInv, GenOK

-----------------------------------------------------------------------------
(* Each operation is one of the two. *)

LEMMA WriteBindingRebinds ==
    ASSUME StoreTypeOK, NEW a \in Keys, NEW c \in Conversations,
           NEW t \in Threads \cup {NoThread}, WriteBinding(a, c, t, Generation(c) + 1)
    PROVE  Rebinds(a, c)
<1>1. Generation(c) \in Nat /\ t # Unbound
  BY GenerationTyped, StoreAssumption
<1>2. /\ bound'[c] = t /\ gens'[c] = Generation(c) + 1 /\ floors'[c] = Generation(c) + 1
      /\ \A d \in Conversations \ {c} :
            bound'[d] = bound[d] /\ gens'[d] = gens[d] /\ floors'[d] = floors[d]
  BY DEF WriteBinding, StoreTypeOK
<1>3. Generation(c)' = Generation(c) + 1
  BY <1>1, <1>2 DEF Generation
<1>4. \A d \in Conversations \ {c} : Generation(d)' = Generation(d)
  BY <1>2 DEF Generation
<1>5. QED
  BY <1>3, <1>4 DEF Rebinds, WriteBinding

LEMMA DeleteBindingRebinds ==
    ASSUME StoreTypeOK, NEW a \in Keys, NEW c \in Conversations,
           DeleteBinding(a, c, Generation(c) + 1)
    PROVE  Rebinds(a, c)
<1>1. Generation(c) \in Nat
  BY GenerationTyped
<1>2. /\ bound'[c] = Unbound /\ floors'[c] = Generation(c) + 1
      /\ \A d \in Conversations \ {c} :
            bound'[d] = bound[d] /\ gens'[d] = gens[d] /\ floors'[d] = floors[d]
  BY DEF DeleteBinding, StoreTypeOK
<1>3. Generation(c)' = Generation(c) + 1
  BY <1>1, <1>2 DEF Generation
<1>4. \A d \in Conversations \ {c} : Generation(d)' = Generation(d)
  BY <1>2 DEF Generation
<1>5. QED
  BY <1>3, <1>4 DEF Rebinds, DeleteBinding

LEMMA ChangeBindingRebinds ==
    ASSUME StoreTypeOK, NEW q \in Requests, ChangeBinding(q)
    PROVE  \/ Rebinds(q.key, q.conv)
           \/ UNCHANGED <<bound, gens, floors, touched, mutated>>
<1>1. /\ q.key \in Keys /\ q.conv \in Conversations
      /\ q.target \in Threads \cup {NoThread} /\ NoThread \in Threads \cup {NoThread}
  BY RequestsTyped
<1>2. QED
  BY <1>1, WriteBindingRebinds, DeleteBindingRebinds DEF ChangeBinding

LEMMA NewReceiptOnly ==
    ASSUME StoreTypeOK, NEW q \in Requests, NEW phase, NEW o, NEW g,
           NewReceipt(q, phase, o, g)
    PROVE  /\ OnlyWrites(q.key)
           /\ receipts'[q.key].phase = phase
           /\ receipts'[q.key].category = q.category
           /\ receipts'[q.key].request = q
           /\ receipts'[q.key].outcome = o
           /\ receipts'[q.key].gen = g
  BY RequestsTyped DEF NewReceipt, OnlyWrites, StoreTypeOK

LEMMA SetReceiptOnly ==
    ASSUME StoreTypeOK, NEW a \in Keys, NEW phase, NEW o, SetReceipt(a, phase, o)
    PROVE  /\ OnlyWrites(a)
           /\ receipts'[a].phase = phase
           /\ receipts'[a].outcome = o
           /\ receipts'[a].category = receipts[a].category
           /\ receipts'[a].request = receipts[a].request
           /\ receipts'[a].gen = receipts[a].gen
  BY DEF SetReceipt, OnlyWrites, StoreTypeOK

LEMMA QuietBindings ==
    ASSUME UNCHANGED <<leaseVars, bindingVars, ghostVars>>
    PROVE  /\ UNCHANGED <<bound, gens, floors, touched, mutated>>
           /\ UNCHANGED <<routes, gone>>
  BY DEF bindingVars, ghostVars

(* An operation that leaves bindings and routes alone. *)
QuietWrite(a) == WritesReceipt(a) /\ UNCHANGED <<routes, gone>>

LEMMA UnchangedWrites ==
    ASSUME NEW a \in Keys, UNCHANGED receipts, UNCHANGED <<leaseVars, bindingVars, ghostVars>>
    PROVE  QuietWrite(a)
  BY QuietBindings DEF QuietWrite, WritesReceipt, OnlyWrites

LEMMA StorePreflightFailureWrites ==
    ASSUME StoreTypeOK, NEW q \in Requests, q.category = "gateway",
           CommitStorePreflightFailure(q)
    PROVE  QuietWrite(q.key)
<1>1. q.key \in Keys /\ UNCHANGED <<leaseVars, bindingVars, ghostVars>>
  BY RequestsTyped DEF CommitStorePreflightFailure
<1>2. CASE UNCHANGED receipts
  BY <1>1, <1>2, UnchangedWrites
<1>3. CASE ~Exists(q.key) /\ NewReceipt(q, "terminal", Failed("preflight"), NoGen)
  BY <1>1, <1>3, NewReceiptOnly, QuietBindings DEF QuietWrite, WritesReceipt, Exists, Phase
<1>4. QED
  BY <1>2, <1>3 DEF CommitStorePreflightFailure

LEMMA ReserveWrites ==
    ASSUME StoreTypeOK, NEW q \in Requests, q.category # "gateway", ReserveEffect(q)
    PROVE  QuietWrite(q.key)
<1> DEFINE g == IF q.category = "workflow" THEN Generation(q.conv) ELSE NoGen
<1>1. q.key \in Keys /\ UNCHANGED <<leaseVars, bindingVars, ghostVars>>
  BY RequestsTyped DEF ReserveEffect
<1>2. CASE UNCHANGED receipts
  BY <1>1, <1>2, UnchangedWrites
<1>3. CASE ~Exists(q.key) /\ NewReceipt(q, "reserved", NoOutcome, g)
  BY <1>1, <1>3, NewReceiptOnly, QuietBindings DEF QuietWrite, WritesReceipt, Exists, Phase
<1>4. QED
  BY <1>2, <1>3 DEF ReserveEffect

LEMMA MarkWrites ==
    ASSUME StoreTypeOK, NEW a \in Keys, MarkNativeSideEffectStarted(a)
    PROVE  QuietWrite(a)
<1>1. UNCHANGED <<leaseVars, bindingVars, ghostVars>>
  BY DEF MarkNativeSideEffectStarted
<1>2. CASE UNCHANGED receipts
  BY <1>1, <1>2, UnchangedWrites
<1>3. CASE Phase(a) = "reserved" /\ SetReceipt(a, "started", NoOutcome)
  BY <1>1, <1>3, SetReceiptOnly, QuietBindings DEF QuietWrite, WritesReceipt, Phase
<1>4. QED
  BY <1>2, <1>3 DEF MarkNativeSideEffectStarted

LEMMA PreflightFailureWrites ==
    ASSUME StoreTypeOK, NEW a \in Keys, RecordEffectPreflightFailure(a)
    PROVE  QuietWrite(a)
<1>1. UNCHANGED <<leaseVars, bindingVars, ghostVars>>
  BY DEF RecordEffectPreflightFailure
<1>2. CASE UNCHANGED receipts
  BY <1>1, <1>2, UnchangedWrites
<1>3. CASE Phase(a) = "reserved" /\ SetReceipt(a, "terminal", Failed("preflight"))
  BY <1>1, <1>3, SetReceiptOnly, QuietBindings DEF QuietWrite, WritesReceipt, Phase, Failed
<1>4. QED
  BY <1>2, <1>3 DEF RecordEffectPreflightFailure

LEMMA RecordWrites ==
    ASSUME StoreTypeOK, NEW a \in Keys, NEW phase \in {"started", "known", "terminal"},
           NEW o, RecordEffectOutcome(a, phase, o)
    PROVE  QuietWrite(a)
<1>1. UNCHANGED <<leaseVars, bindingVars, ghostVars>>
  BY DEF RecordEffectOutcome
<1>2. CASE UNCHANGED receipts
  BY <1>1, <1>2, UnchangedWrites
<1>3. CASE Phase(a) # "terminal" /\ SetReceipt(a, phase, o)
  <2>1. Phase(a) = "started"
    BY <1>3 DEF RecordEffectOutcome, RecordRaises, StoreTypeOK, ReceiptType, Phases, Phase
  <2>2. phase = "terminal" /\ receipts[a].category = "workflow" => o.kind # "succeeded"
    BY <2>1 DEF RecordEffectOutcome, RecordRaises
  <2>3. QED
    BY <1>1, <1>3, <2>1, <2>2, SetReceiptOnly, QuietBindings
       DEF QuietWrite, WritesReceipt, Phase
<1>4. QED
  BY <1>2, <1>3 DEF RecordEffectOutcome

LEMMA StoreMutationWrites ==
    ASSUME StoreTypeOK, NEW q \in Requests, q.category = "gateway", CommitStoreMutation(q)
    PROVE  \/ QuietWrite(q.key)
           \/ /\ WritesReceipt(q.key) \/ EndsRebinding(q.key, q.conv)
              /\ ChangeBinding(q)
              /\ ApplyRoutePlan(q)
              /\ UNCHANGED gone
<1>1. q.key \in Keys
  BY RequestsTyped
<1>2. CASE UNCHANGED receipts /\ UNCHANGED <<leaseVars, bindingVars, ghostVars>>
  BY <1>1, <1>2, UnchangedWrites
<1>3. CASE /\ ~Exists(q.key) /\ NewReceipt(q, "terminal", Failed("stale_binding"), NoGen)
           /\ UNCHANGED <<leaseVars, bindingVars, ghostVars>>
  BY <1>3, NewReceiptOnly, QuietBindings DEF QuietWrite, WritesReceipt, Exists, Phase
<1>4. CASE /\ ~Exists(q.key) /\ ChangeBinding(q) /\ ApplyRoutePlan(q)
           /\ NewReceipt(q, "terminal", Succeeded(ResultGeneration(q)), NoGen)
           /\ UNCHANGED gone
  <2>1. /\ OnlyWrites(q.key)
        /\ receipts'[q.key].phase = "terminal"
        /\ receipts'[q.key].category = "gateway"
        /\ receipts[q.key].phase = "absent"
    BY <1>4, NewReceiptOnly DEF Exists, Phase
  <2>2. CASE Rebinds(q.key, q.conv)
    BY <1>4, <2>1, <2>2 DEF EndsRebinding, Phase
  <2>3. CASE UNCHANGED <<bound, gens, floors, touched, mutated>>
    BY <1>4, <2>1, <2>3 DEF WritesReceipt
  <2>4. QED
    BY <1>4, <2>2, <2>3, ChangeBindingRebinds
<1>5. QED
  BY <1>2, <1>3, <1>4 DEF CommitStoreMutation

(* The workflow that owns the receipt commits only under the generation it
   reserved, so nobody has overtaken it. *)
LEMMA CommitWorkflowWrites ==
    ASSUME StoreTypeOK, GenInv, NEW q \in Requests, CommitWorkflowBinding(q),
           receipts[q.key].request = q, receipts[q.key].category = "workflow"
    PROVE  \/ QuietWrite(q.key)
           \/ /\ EndsRebinding(q.key, q.conv)
              /\ bound' = [bound EXCEPT ![q.conv] = q.target]
              /\ ApplyRoutePlan(q)
              /\ UNCHANGED gone
<1>1. /\ q.key \in Keys /\ q.conv \in Conversations /\ q.target \in Threads \cup {NoThread}
  BY RequestsTyped
<1>2. CASE UNCHANGED storeVars
  BY <1>1, <1>2, UnchangedWrites DEF storeVars
<1>3. CASE /\ Phase(q.key) = "known"
           /\ SetReceipt(q.key, "terminal", Partial("stale_binding"))
           /\ UNCHANGED <<leaseVars, bindingVars, ghostVars>>
  BY <1>1, <1>3, SetReceiptOnly, QuietBindings DEF QuietWrite, WritesReceipt, Phase, Partial
<1>4. CASE /\ Phase(q.key) = "known"
           /\ Generation(q.conv) = receipts[q.key].gen
           /\ WriteBinding(q.key, q.conv, q.target, Generation(q.conv) + 1)
           /\ ApplyRoutePlan(q)
           /\ SetReceipt(q.key, "terminal", Succeeded(Generation(q.conv) + 1))
           /\ UNCHANGED gone
  <2>1. OnlyWrites(q.key) /\ receipts'[q.key].phase = "terminal"
    BY <1>1, <1>4, SetReceiptOnly
  <2>2. Rebinds(q.key, q.conv)
    BY <1>1, <1>4, WriteBindingRebinds
  <2>3. q.key \notin touched
    <3>1. Unfinished(q.key) /\ receipts[q.key].request.conv = q.conv
      BY <1>4 DEF Unfinished
    <3>2. q.key \in touched => receipts[q.key].gen < Generation(q.conv)
      BY <1>1, <3>1 DEF GenInv, GenOK
    <3>3. Generation(q.conv) \in Nat
      BY <1>1, GenerationTyped
    <3>4. QED
      BY <1>4, <3>2, <3>3
  <2>4. QED
    BY <1>4, <2>1, <2>2, <2>3 DEF EndsRebinding, Phase, WriteBinding
<1>5. QED
  BY <1>2, <1>3, <1>4 DEF CommitWorkflowBinding

-----------------------------------------------------------------------------
(* Routes move with the bindings. *)

(* A route plan takes no route of another Conversation, and none of the bound
   Thread of its own. *)
LEMMA RoutePlanSpares ==
    ASSUME NEW q \in Requests, q.route # "delete", ApplyRoutePlan(q)
    PROVE  /\ \A t, d : d # q.conv /\ <<t, d>> \in routes => <<t, d>> \in routes'
           /\ <<bound'[q.conv], q.conv>> \in routes => <<bound'[q.conv], q.conv>> \in routes'
           /\ q.route = "upsert" => <<q.target, q.conv>> \in routes'
<1>1. CASE q.route = "upsert" /\ routes' = routes \cup {<<q.target, q.conv>>}
  BY <1>1
<1>2. CASE /\ q.route = "delete_unless_bound" /\ bound'[q.conv] # q.target
           /\ routes' = routes \ {<<q.target, q.conv>>}
  BY <1>2
<1>3. CASE q.route # "upsert" /\ UNCHANGED routes
  BY <1>3
<1>4. QED
  BY <1>1, <1>2, <1>3 DEF ApplyRoutePlan

LEMMA BoundConversationStaysRouted ==
    ASSUME StoreTypeOK, ForegroundRoutes, BoundThreadIsRouted, NEW q \in Requests,
           ApplyRoutePlan(q), UNCHANGED gone,
           \/ /\ bound' = [bound EXCEPT ![q.conv] = q.target]
              /\ q.change = "bind" \/ q.category = "workflow"
           \/ \E t \in {NoThread, Unbound} : bound' = [bound EXCEPT ![q.conv] = t]
           \/ UNCHANGED bound
    PROVE  BoundThreadIsRouted'
<1>1. /\ q.conv \in Conversations
      /\ q.target \in Threads \cup {NoThread}
      /\ q.route # "delete"
      /\ NoThread \notin Threads /\ Unbound \notin Threads
  BY RequestsTyped, StoreAssumption DEF ForegroundRoutes
<1>2. ASSUME NEW d \in Conversations, bound'[d] \in Threads \ gone
      PROVE  <<bound'[d], d>> \in routes'
  <2>1. CASE d # q.conv
    <3>1. bound'[d] = bound[d]
      BY <2>1 DEF StoreTypeOK
    <3>2. <<bound[d], d>> \in routes
      BY <1>2, <3>1 DEF BoundThreadIsRouted
    <3>3. QED
      BY <1>1, <2>1, <3>1, <3>2, RoutePlanSpares
  <2>2. CASE d = q.conv /\ UNCHANGED bound
    BY <1>1, <1>2, <2>2, RoutePlanSpares DEF BoundThreadIsRouted
  <2>3. CASE /\ d = q.conv
             /\ bound' = [bound EXCEPT ![q.conv] = q.target]
             /\ q.change = "bind" \/ q.category = "workflow"
    <3>1. bound'[d] = q.target
      BY <1>1, <2>3 DEF StoreTypeOK
    <3>2. q.route = "upsert"
      BY <1>2, <2>3, <3>1 DEF ForegroundRoutes
    <3>3. QED
      BY <1>1, <2>3, <3>1, <3>2, RoutePlanSpares
  <2>4. CASE d = q.conv /\ \E t \in {NoThread, Unbound} : bound' = [bound EXCEPT ![q.conv] = t]
    BY <1>1, <1>2, <2>4 DEF StoreTypeOK
  <2>5. QED
    BY <2>1, <2>2, <2>3, <2>4
<1>3. QED
  BY <1>2 DEF BoundThreadIsRouted

LEMMA ChangeBindingBinds ==
    ASSUME NEW q \in Requests, ChangeBinding(q)
    PROVE  \/ /\ bound' = [bound EXCEPT ![q.conv] = q.target]
              /\ q.change = "bind"
           \/ \E t \in {NoThread, Unbound} : bound' = [bound EXCEPT ![q.conv] = t]
           \/ UNCHANGED bound
  BY DEF ChangeBinding, WriteBinding, DeleteBinding

LEMMA DropKeepsRouted ==
    ASSUME StoreTypeOK, BoundThreadIsRouted, NEW e, NEW t, DropThreadRoutes(e, t)
    PROVE  BoundThreadIsRouted'
  BY DEF StoreTypeOK, BoundThreadIsRouted, DropThreadRoutes

-----------------------------------------------------------------------------
(* Which operation a step of a call performs. *)

Performs(k) ==
    \/ UNCHANGED storeVars
    \/ At(k, "commit_store") /\ CommitStoreMutation(Req(k))
    \/ At(k, "reject_store") /\ CommitStorePreflightFailure(Req(k))
    \/ At(k, "reserve") /\ ReserveEffect(Req(k))
    \/ RecordEffectPreflightFailure(Key(k))
    \/ MarkNativeSideEffectStarted(Key(k))
    \/ \E phase \in {"started", "known", "terminal"} :
          \E o : RecordEffectOutcome(Key(k), phase, o)
    \/ At(k, "commit") /\ CommitWorkflowBinding(Req(k))

LEMMA CallStepPerforms ==
    ASSUME NEW k \in Calls, CallStep(k)
    PROVE  Performs(k)
<1>1. CASE CommitStoreResult(k)
  BY <1>1 DEF CommitStoreResult, Performs, At
<1>2. CASE Reserve(k)
  BY <1>2 DEF Reserve, Performs
<1>3. CASE RejectPreflight(k)
  BY <1>3 DEF RejectPreflight, Performs
<1>4. CASE EnterNativeFence(k)
  BY <1>4 DEF EnterNativeFence, Performs
<1>5. CASE RecordOutcome(k)
  BY <1>5 DEF RecordOutcome, OutcomePhase, Performs
<1>6. CASE RecordReconciled(k)
  BY <1>6 DEF RecordReconciled, OutcomePhase, Performs
<1>7. CASE PersistUnknown(k)
  BY <1>7 DEF PersistUnknown, Performs
<1>8. CASE CommitKnownWorkflow(k)
  BY <1>8 DEF CommitKnownWorkflow, Performs
<1>9. CASE \/ ReadStoreMutationReceipt(k) \/ RunStorePreflight(k)
           \/ RecoverStoreMutationOutcome(k) \/ RunNativePreflight(k)
           \/ ReadAfterPreflight(k) \/ ReadAfterFence(k) \/ Invoke(k)
           \/ InvokeReturns(k) \/ InvokeRaises(k) \/ RereadOutcome(k) \/ Reconcile(k)
           \/ RereadReconciled(k) \/ GetEffectReceipt(k) \/ RereadCommit(k)
  BY <1>9 DEF ReadStoreMutationReceipt, RunStorePreflight, RecoverStoreMutationOutcome,
     RunNativePreflight, ReadAfterPreflight, ReadAfterFence, Invoke, InvokeReturns,
     InvokeRaises, RereadOutcome, Reconcile, RereadReconciled, GetEffectReceipt,
     RereadCommit, Performs
<1>10. QED
  BY <1>1, <1>2, <1>3, <1>4, <1>5, <1>6, <1>7, <1>8, <1>9
     DEF CallStep, StoreMutationStep, NativeStep

(* The invariant and what it implies, with foreground routes or without. *)
BindInv == GenInv /\ (ForegroundRoutes => BoundThreadIsRouted)

LEMMA QuietWriteKeeps ==
    ASSUME StoreTypeOK, StoreTypeOK', BindInv, NEW a \in Keys, QuietWrite(a)
    PROVE  BindInv'
<1>1. GenInv'
  BY WritesReceiptKeepsGen DEF BindInv, QuietWrite
<1>2. BoundThreadIsRouted => BoundThreadIsRouted'
  BY DEF QuietWrite, WritesReceipt, BoundThreadIsRouted
<1>3. QED
  BY <1>1, <1>2 DEF BindInv, ForegroundRoutes

LEMMA CallStepKeepsBindings ==
    ASSUME TypeOK, TypeOK', TruthInv, BindInv, NEW k \in Calls, CallStep(k)
    PROVE  BindInv'
<1>0. PICK q \in Requests, a \in Keys : q = Req(k) /\ a = Key(k) /\ q.key = a
  BY OwnReceipt
<1>1. /\ StoreTypeOK /\ StoreTypeOK' /\ q.conv \in Conversations
      /\ TrueCall(calls[k], receipts[a], effect[a])
      /\ calls[k].request = q
  BY <1>0, OwnReceipt, RequestsTyped DEF TypeOK, Req
<1>2. CASE At(k, "commit_store") /\ CommitStoreMutation(q)
  <2>1. q.category = "gateway"
    BY <1>1, <1>2 DEF At, TrueCall, StorePCs
  <2>2. CASE QuietWrite(a)
    BY <1>1, <2>2, QuietWriteKeeps
  <2>3. CASE /\ WritesReceipt(a) \/ EndsRebinding(a, q.conv)
             /\ ChangeBinding(q) /\ ApplyRoutePlan(q) /\ UNCHANGED gone
    <3>1. GenInv'
      BY <1>1, <2>3, WritesReceiptKeepsGen, RebindingKeepsGen DEF BindInv
    <3>2. ForegroundRoutes => BoundThreadIsRouted'
      BY <1>1, <2>3, ChangeBindingBinds, BoundConversationStaysRouted DEF BindInv
    <3>3. QED
      BY <3>1, <3>2 DEF BindInv, ForegroundRoutes
  <2>4. QED
    BY <1>0, <1>1, <1>2, <2>1, <2>2, <2>3, StoreMutationWrites
<1>3. CASE At(k, "commit") /\ CommitWorkflowBinding(q)
  <2>1. /\ receipts[a].request = q /\ q.category = "workflow"
        /\ receipts[a].category = "workflow"
    BY <1>0, <1>1, <1>3, OwnReceipt
       DEF At, TrueCall, TrueReceipt, OwnerPCs, FencedPCs, BindPCs
  <2>2. CASE QuietWrite(a)
    BY <1>1, <2>2, QuietWriteKeeps
  <2>3. CASE /\ EndsRebinding(a, q.conv)
             /\ bound' = [bound EXCEPT ![q.conv] = q.target]
             /\ ApplyRoutePlan(q) /\ UNCHANGED gone
    <3>1. GenInv'
      BY <1>1, <2>3, RebindingKeepsGen DEF BindInv
    <3>2. ForegroundRoutes => BoundThreadIsRouted'
      BY <1>1, <2>1, <2>3, BoundConversationStaysRouted DEF BindInv
    <3>3. QED
      BY <3>1, <3>2 DEF BindInv, ForegroundRoutes
  <2>4. QED
    BY <1>0, <1>1, <1>3, <2>1, <2>2, <2>3, CommitWorkflowWrites DEF BindInv
<1>4. CASE At(k, "reject_store") /\ CommitStorePreflightFailure(q)
  <2>1. q.category = "gateway"
    BY <1>1, <1>4 DEF At, TrueCall, StorePCs
  <2>2. QED
    BY <1>0, <1>1, <1>4, <2>1, StorePreflightFailureWrites, QuietWriteKeeps
<1>5. CASE At(k, "reserve") /\ ReserveEffect(q)
  <2>1. q.category # "gateway"
    BY <1>1, <1>5 DEF At, TrueCall
  <2>2. QED
    BY <1>0, <1>1, <1>5, <2>1, ReserveWrites, QuietWriteKeeps
<1>6. CASE \/ RecordEffectPreflightFailure(a)
           \/ MarkNativeSideEffectStarted(a)
           \/ \E phase \in {"started", "known", "terminal"} :
                 \E o : RecordEffectOutcome(a, phase, o)
  BY <1>1, <1>6, PreflightFailureWrites, MarkWrites, RecordWrites, QuietWriteKeeps
<1>7. CASE UNCHANGED storeVars
  BY <1>1, <1>7, UnchangedWrites, QuietWriteKeeps DEF storeVars
<1>8. QED
  BY <1>0, <1>2, <1>3, <1>4, <1>5, <1>6, <1>7, CallStepPerforms DEF Performs

LEMMA QuietBindingStep ==
    ASSUME BindInv, UNCHANGED <<receipts, bindingVars, ghostVars>>
    PROVE  BindInv'
  BY DEF BindInv, GenInv, GenOK, EndOK, Unfinished, Exists, Phase, Generation,
     BoundThreadIsRouted, ForegroundRoutes, bindingVars, ghostVars

LEMMA NextKeepsBindings ==
    ASSUME TypeOK, FenceInv, TruthInv, BindInv, [Next]_vars
    PROVE  BindInv'
<1>0. TypeOK'
  BY NextPreserves
<1>1. ASSUME NEW k \in Calls, CallStep(k)
      PROVE  BindInv'
  BY <1>0, <1>1, CallStepKeepsBindings
<1>2. CASE \/ \E k \in Calls, q \in Requests, e \in open : Start(k, q, e)
           \/ \E a \in Keys : ApplicationDecides(a)
           \/ \E e \in 1..epoch : Crash(e)
           \/ UNCHANGED vars
  BY <1>2, QuietBindingStep DEF Start, ApplicationDecides, Crash, vars, storeVars
<1>3. CASE RuntimeStep
  <2>1. CASE AcquireRuntime \/ LeaseExpires \/ \E e \in open : CloseRuntime(e)
    BY <2>1, QuietBindingStep DEF AcquireRuntime, LeaseExpires, CloseRuntime
  <2>2. ASSUME NEW e, NEW t, DropThreadRoutes(e, t)
        PROVE  BindInv'
    <3>1. GenInv'
      BY <2>2 DEF DropThreadRoutes, BindInv, GenInv, GenOK, EndOK, Unfinished, Exists,
         Phase, Generation, ghostVars
    <3>2. BoundThreadIsRouted => BoundThreadIsRouted'
      BY <2>2, DropKeepsRouted DEF TypeOK
    <3>3. QED
      BY <3>1, <3>2 DEF BindInv, ForegroundRoutes
  <2>3. QED
    BY <1>3, <2>1, <2>2 DEF RuntimeStep
<1>4. QED
  BY <1>1, <1>2, <1>3 DEF Next

LEMMA InitBindings == Init => BindInv
<1> SUFFICES ASSUME Init PROVE BindInv
  OBVIOUS
<1>1. \A a \in Keys : Phase(a) = "absent" /\ mutated[a] = 0 /\ a \notin touched
  BY DEF Init, StoreInit, AbsentReceipt, Phase
<1>2. \A c \in Conversations : bound[c] \notin Threads
  BY StoreAssumption DEF Init, StoreInit
<1>3. QED
  BY <1>1, <1>2 DEF BindInv, GenInv, GenOK, EndOK, Unfinished, Exists, BoundThreadIsRouted

LEMMA BindingsHold == Spec => []BindInv
<1>1. TypeOK /\ FenceInv /\ TruthInv /\ BindInv /\ [Next]_vars => BindInv'
  BY NextKeepsBindings
<1>2. QED
  BY InitBindings, TruthHolds, <1>1, PTL DEF Spec

(* Whatever races whom: a create-and-bind workflow that succeeded overwrote no
   binding made after it was reserved, not even one deleted since, and no
   action changes a binding twice (_commit_workflow_binding, generation
   floors, _commit_store_mutation replay). *)
THEOREM ChoicesAreKept == Spec => [](WorkflowNeverOverwrites /\ BindingMutatedOnce)
<1>1. BindInv => WorkflowNeverOverwrites /\ BindingMutatedOnce
  BY DEF BindInv, GenInv, EndOK, WorkflowNeverOverwrites, BindingMutatedOnce
<1>2. QED
  BY BindingsHold, <1>1, PTL

(* In a context with foreground routes, the default, moreover no bound Thread
   loses its route (_apply_route_plan with UNLESS_BOUND_TO_ROUTE_THREAD). *)
THEOREM BindingsStaySafe ==
    ASSUME ForegroundRoutes
    PROVE  Spec => []BindingsAreSafe
<1>1. BindInv => BindingsAreSafe
  BY DEF BindInv, GenInv, EndOK, BindingsAreSafe, WorkflowNeverOverwrites, BindingMutatedOnce
<1>2. QED
  BY BindingsHold, <1>1, PTL

=============================================================================

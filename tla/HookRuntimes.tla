---------------------------- MODULE HookRuntimes ----------------------------
(***************************************************************************)
(* The runtimes around consumer hooks: content transformation, failure,    *)
(* outbound and queued presentation, and outcome observation. Each bounds  *)
(* how long and how many hooks run; a hook may ignore its cancellation.    *)
(*                                                                         *)
(* Two disciplines.  "tracked": the task of the hook itself is counted     *)
(* from its creation to its end.  "observed": a wrapper task is counted,   *)
(* and the hook only after its cancellation was seen to overrun.           *)
(***************************************************************************)
EXTENDS Integers, FiniteSets

CONSTANTS
    Hooks,            \* invocations; each is made once
    Discipline,       \* "tracked" or "observed"
    MaxConcurrency,   \* configured bound on hooks
    MaxCloses         \* bound on closes, for the model

HookAssumption ==
    MaxConcurrency \in Nat \ {0} /\ Discipline \in {"tracked", "observed"} /\ MaxCloses \in Nat

VARIABLES
    hook,      \* [Hooks -> state of the consumer's coroutine]
    caller,    \* [Hooks -> control of the runtime around it]
    result,    \* [Hooks -> what the invocation came to]
    active,    \* _active_tasks
    overrun,   \* _overrun_tasks
    closing,   \* control of close
    doomed,    \* the tasks close waits for
    closes,    \* closes begun
    untracked  \* history: hooks whose wrapper close cut short

vars == <<hook, caller, result, active, overrun, closing, doomed, closes, untracked>>

Results == {"none", "valid", "suppressed", "invalid", "failed", "timed_out", "cancelled",
            "capacity"}

TypeOK ==
    /\ hook \in [Hooks -> {"none", "running", "cancelled", "ended"}]
    /\ caller \in [Hooks -> {"idle", "waiting", "timed_out", "cancelling", "returned"}]
    /\ result \in [Hooks -> Results]
    /\ active \subseteq Hooks /\ overrun \subseteq Hooks /\ doomed \subseteq Hooks
    /\ closing \in {"open", "waiting", "closed"} /\ closes \in 0..MaxCloses
    /\ untracked \subseteq Hooks

Init ==
    /\ hook = [h \in Hooks |-> "none"] /\ caller = [h \in Hooks |-> "idle"]
    /\ result = [h \in Hooks |-> "none"]
    /\ active = {} /\ overrun = {} /\ closing = "open" /\ doomed = {} /\ closes = 0
    /\ untracked = {}

Alive(h) == hook[h] \in {"running", "cancelled"}
Busy(h) == caller[h] \in {"waiting", "timed_out", "cancelling"}

(* The bound at the head of present, transform and notify. *)
HasRoom == Cardinality(active \cup overrun) < MaxConcurrency

(* The runtime is asked: capacity, bounded input, then the task of the hook. *)
Invoke(h) ==
    /\ caller[h] = "idle"
    /\ LET refused == ~HasRoom \/ (Discipline = "observed" /\ closing # "open")
       IN \/ /\ ~refused
             /\ hook' = [hook EXCEPT ![h] = "running"]
             /\ caller' = [caller EXCEPT ![h] = "waiting"]
             /\ active' = active \cup {h} /\ UNCHANGED result
          \/ /\ caller' = [caller EXCEPT ![h] = "returned"]
             /\ result' = [result EXCEPT ![h] = IF refused THEN "capacity" ELSE "invalid"]
             /\ UNCHANGED <<hook, active>>
    /\ UNCHANGED <<overrun, closing, doomed, closes, untracked>>

(* _finish_task and _finish_overrun, the done callbacks. *)
Untrack(h) ==
    /\ active' = IF Discipline = "tracked" THEN active \ {h} ELSE active
    /\ overrun' = overrun \ {h}

(* The consumer's coroutine ends, of itself or because it was cancelled. *)
HookEnds(h) ==
    /\ Alive(h)
    /\ hook' = [hook EXCEPT ![h] = "ended"]
    /\ Untrack(h)
    /\ UNCHANGED <<caller, result, closing, doomed, closes, untracked>>

(* The invocation is over; in the observed discipline its wrapper ends too. *)
Return(h, code) ==
    /\ caller' = [caller EXCEPT ![h] = "returned"]
    /\ result' = [result EXCEPT ![h] = code]

Wrapper(h) == IF Discipline = "observed" THEN {h} ELSE {}

(* The hook ended in time; its output is validated. *)
Finish(h, code) ==
    /\ caller[h] = "waiting" /\ hook[h] = "ended"
    /\ code \in {"valid", "suppressed", "invalid", "failed", "cancelled"}
    /\ Return(h, code)
    /\ active' = active \ Wrapper(h)
    /\ UNCHANGED <<hook, overrun, closing, doomed, closes, untracked>>

(* asyncio.wait timed out: the hook is cancelled and joined. *)
Deadline(h) ==
    /\ caller[h] = "waiting" /\ Alive(h)
    /\ hook' = [hook EXCEPT ![h] = "cancelled"]
    /\ caller' = [caller EXCEPT ![h] = "timed_out"]
    /\ UNCHANGED <<result, active, overrun, closing, doomed, closes, untracked>>

(* The caller of the runtime, or its wrapper task, is cancelled. *)
CancelCaller(h) ==
    /\ caller[h] \in {"waiting", "timed_out"}
    /\ IF hook[h] = "ended"
       THEN /\ Return(h, "cancelled") /\ active' = active \ Wrapper(h) /\ UNCHANGED hook
       ELSE /\ caller' = [caller EXCEPT ![h] = "cancelling"]
            /\ hook' = [hook EXCEPT ![h] = "cancelled"] /\ UNCHANGED <<result, active>>
    /\ UNCHANGED <<overrun, closing, doomed, closes, untracked>>

(* Mutant: a hook that overruns is forgotten. *)
JoinForgets(h) ==
    /\ caller[h] \in {"timed_out", "cancelling"}
    /\ Return(h, IF caller[h] = "timed_out" THEN "timed_out" ELSE "cancelled")
    /\ active' = active \ {h}
    /\ UNCHANGED <<hook, overrun, closing, doomed, closes, untracked>>

(* _cancel_and_join: the hook ended, or its second deadline passed and it is
   left behind as an overrun. *)
Join(h) ==
    /\ caller[h] \in {"timed_out", "cancelling"}
    /\ Return(h, IF caller[h] = "timed_out" THEN "timed_out" ELSE "cancelled")
    /\ active' = active \ Wrapper(h)
    /\ overrun' = IF Discipline = "observed" /\ hook[h] # "ended" THEN overrun \cup {h} ELSE overrun
    /\ UNCHANGED <<hook, closing, doomed, closes, untracked>>

-----------------------------------------------------------------------------
(* close and start *)

(* close cancels what is tracked: the hook itself, or the wrapper and the
   overruns; then it waits for them, for one timeout. *)
Close ==
    /\ closing = "open" /\ closes < MaxCloses
    /\ closes' = closes + 1 /\ closing' = "waiting"
    /\ doomed' = active \cup overrun
    /\ IF Discipline = "tracked"
       THEN hook' = [h \in Hooks |-> IF h \in active /\ Alive(h) THEN "cancelled" ELSE hook[h]]
            /\ UNCHANGED caller
       ELSE /\ hook' = [h \in Hooks |->
                          IF h \in active \cup overrun /\ Alive(h) THEN "cancelled" ELSE hook[h]]
            /\ caller' = [h \in Hooks |->
                            IF h \in active /\ Busy(h) THEN "cancelling" ELSE caller[h]]
    /\ UNCHANGED <<result, active, overrun, untracked>>

(* The wait ends; what is still pending is cancelled a second time. A wrapper
   that is joining its hook leaves the join at once, without a trace of it. *)
CloseEnds ==
    /\ closing = "waiting" /\ closing' = "closed"
    /\ LET cut == {h \in doomed : Discipline = "observed" /\ h \in active /\ caller[h] = "cancelling"}
       IN /\ caller' = [h \in Hooks |-> IF h \in cut THEN "returned" ELSE caller[h]]
          /\ result' = [h \in Hooks |-> IF h \in cut THEN "cancelled" ELSE result[h]]
          /\ active' = active \ cut
          /\ untracked' = untracked \cup {h \in cut : Alive(h)}
    /\ doomed' = {}
    /\ UNCHANGED <<hook, overrun, closes>>

(* start refuses while anything is tracked. *)
Start ==
    /\ closing = "closed"
    /\ Discipline = "observed" => active = {} /\ overrun = {}
    /\ closing' = "open"
    /\ UNCHANGED <<hook, caller, result, active, overrun, doomed, closes, untracked>>

Next ==
    \/ \E h \in Hooks :
          \/ Invoke(h) \/ HookEnds(h) \/ Deadline(h) \/ CancelCaller(h) \/ Join(h)
          \/ \E code \in Results : Finish(h, code)
    \/ Close \/ CloseEnds \/ Start

Spec == Init /\ [][Next]_vars

(* Timers fire. Nothing is assumed of the consumer's hooks. *)
Fairness ==
    /\ \A h \in Hooks : WF_vars(Deadline(h)) /\ WF_vars(Join(h))
                        /\ WF_vars(\E code \in Results : Finish(h, code))
    /\ WF_vars(CloseEnds)
LiveSpec == Spec /\ Fairness

-----------------------------------------------------------------------------
(* Properties *)

(* No more hooks run at a time than configured, whichever of them ignore their
   cancellation, across timeouts, cancelled callers and restarts. The exception
   is an observer hook that outlives a close: the second cancel of close
   (outcome_observation.py:226) ends the wrapper that was joining it, and nothing
   counts the hook any more. Only a cancelled hook is lost so, and one close
   loses no more than the configured number. *)
HooksAreBounded ==
    /\ Cardinality({h \in Hooks : Alive(h)} \ untracked) <= MaxConcurrency
    /\ Cardinality(untracked) <= MaxConcurrency * closes
    /\ \A h \in Hooks : Alive(h) =>
         \/ h \in active \cup overrun
         \/ h \in untracked /\ hook[h] = "cancelled" /\ Discipline = "observed"

(* A slot that is held is held for something that lives: a hook, or a runtime
   that still waits for one. Capacity does not leak. *)
SlotsAreUsed == \A h \in active \cup overrun : Alive(h) \/ Busy(h)

=============================================================================

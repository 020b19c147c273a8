------------------------------ MODULE MCThread ------------------------------
(***************************************************************************)
(* Instances of what runs between a Conversation and the native Thread it  *)
(* is bound to: the acceptance gate of an input, the queued inputs, the    *)
(* observation of the native queue, the projection route with its          *)
(* barriers, recovery and checkpoint, and the native requests shown on it. *)
(* A behaviour is of one instance, its part; the others stay where they    *)
(* start.                                                                  *)
(***************************************************************************)
EXTENDS RequestCorrelation

CONSTANTS Parts, d1, d2, Worker, Nobody

VARIABLES part,
    emitted, cause, pending, buffered, over, current, locks, dispatch, worker,
    gap, observed, gateBarrier, gateRecon, gateFaults, observes, done, excused,
    items, sends, claim, receipts, turns, conflict, step, gen, ack, job, op,
    projected, binding, used,
    mark, conn, hot, wire, entry, sub, queue, known, zenUsed,
    hist, stream, route, claims, delivered, bar, gens, bootstrapPending, lease, retained, alock,
    routeLocks, stopped, attempt, ready, place, loc, owed, voided, routeGap, overtaken, routeFaults, crashes

turnVars == <<emitted, cause, pending, buffered, over, current, locks, dispatch, worker,
              gap, observed, gateBarrier, gateRecon, gateFaults, observes, done, excused>>
queueVars == <<items, sends, claim, receipts, turns, conflict, step, gen, ack, job, op,
               projected, binding, used>>
zenVars == <<mark, conn, hot, wire, entry, sub, queue, known, zenUsed>>
projectionVars == <<hist, stream, route, claims, delivered, bar, gens, bootstrapPending, lease,
                    retained, alock, routeLocks, stopped, attempt, ready, place, loc, owed, voided,
                    routeGap, overtaken, routeFaults, crashes>>
inputVars == <<turnVars, queueVars, zenVars>>
requestVars == vars
threadVars == <<part, inputVars, projectionVars, requestVars>>

-----------------------------------------------------------------------------
(* Inputs. *)

\* Two dispatches and two native events at a gate that buffers one.
Turn == INSTANCE TurnAcceptance WITH
    Dispatches <- {d1, d2}, LockIds <- 1..2, MaxEvents <- 2, MaxPending <- 1,
    MaxFaults <- 1, MaxObserves <- 1, DrainFaults <- TRUE,
    barrier <- gateBarrier, recon <- gateRecon, faults <- gateFaults

\* One input with a crash, a new binding and two user operations.
Evidence == INSTANCE QueuedInput WITH
    Messages <- {"m1"}, Wanted <- "m1", BatchSize <- 1, RowLimit <- 2,
    MaxCrashes <- 1, MaxRebinds <- 1, MaxOps <- 2, rows <- receipts, pc <- step

\* Two inputs in a table with room for one.
Turns == INSTANCE QueuedInput WITH
    Messages <- {"m1", "m2"}, Wanted <- "m1", BatchSize <- 1,
    RowLimit <- 1, MaxCrashes <- 1, MaxRebinds <- 0, MaxOps <- 1, rows <- receipts,
    pc <- step

\* An item is queued, something else happens, it is admitted, a human writes.
Zen == INSTANCE ZenQueueObservation WITH
    Subs <- {"s1", "s2"}, Kinds <- <<"queued", "other", "admitted", "ordinary">>,
    MaxPending <- 1, MaxResets <- 1, MaxFaults <- 1, used <- zenUsed

-----------------------------------------------------------------------------
(* Projection. *)

\* An observation, an action and an input meet on the route.
Baseline == INSTANCE RouteProjection WITH
    Callers <- {"c1", "c2", "c3"},
    Kind <- [c1 |-> "observe", c2 |-> "action", c3 |-> "input"],
    Foreground <- FALSE, NumItems <- 2, BaselineLimit <- 1, PageSize <- 1, MaxPages <- 2,
    ItemLimit <- 2, MayAbort <- FALSE, MaxFaults <- 0, MaxCrashes <- 0,
    pending <- bootstrapPending, locks <- routeLocks, pc <- place, gap <- routeGap,
    faults <- routeFaults, sent <- delivered, blocked <- stopped

\* An observation and an action meet; something fails, or the action is given up.
Joined == INSTANCE RouteProjection WITH
    Callers <- {"c1", "c2"}, Kind <- [c1 |-> "observe", c2 |-> "action"],
    Foreground <- FALSE, NumItems <- 1, BaselineLimit <- 1, PageSize <- 1, MaxPages <- 1,
    ItemLimit <- 2, MayAbort <- TRUE, MaxFaults <- 1, MaxCrashes <- 0,
    pending <- bootstrapPending, locks <- routeLocks, pc <- place, gap <- routeGap,
    faults <- routeFaults, sent <- delivered, blocked <- stopped

\* More items than a page or the live queue hold, with faults and crashes.
Recovery == INSTANCE RouteProjection WITH
    Callers <- {"c1"}, Kind <- [c1 |-> "observe"],
    Foreground <- FALSE, NumItems <- 4, BaselineLimit <- 2, PageSize <- 1, MaxPages <- 3,
    ItemLimit <- 2, MayAbort <- FALSE, MaxFaults <- 1, MaxCrashes <- 1,
    pending <- bootstrapPending, locks <- routeLocks, pc <- place, gap <- routeGap,
    faults <- routeFaults, sent <- delivered, blocked <- stopped

\* The route is removed.
Removal == INSTANCE RouteProjection WITH
    Callers <- {"c1", "c2"}, Kind <- [c1 |-> "observe", c2 |-> "clear"],
    Foreground <- FALSE, NumItems <- 2, BaselineLimit <- 2, PageSize <- 1, MaxPages <- 2,
    ItemLimit <- 2, MayAbort <- FALSE, MaxFaults <- 1, MaxCrashes <- 0,
    pending <- bootstrapPending, locks <- routeLocks, pc <- place, gap <- routeGap,
    faults <- routeFaults, sent <- delivered, blocked <- stopped

\* Two actions that may fail or be given up before their commit.
Actions == INSTANCE RouteProjection WITH
    Callers <- {"c1", "c2"}, Kind <- [c1 |-> "action", c2 |-> "action"],
    Foreground <- FALSE, NumItems <- 2, BaselineLimit <- 1, PageSize <- 1, MaxPages <- 2,
    ItemLimit <- 2, MayAbort <- TRUE, MaxFaults <- 1, MaxCrashes <- 1,
    pending <- bootstrapPending, locks <- routeLocks, pc <- place, gap <- routeGap,
    faults <- routeFaults, sent <- delivered, blocked <- stopped

\* The Conversation is bound, unbound and bound again.
Rebound == INSTANCE RouteProjection WITH
    Callers <- {"c1", "c2", "c3"}, Kind <- [c1 |-> "bind", c2 |-> "unbind", c3 |-> "bind"],
    Foreground <- TRUE, NumItems <- 2, BaselineLimit <- 2, PageSize <- 1, MaxPages <- 2,
    ItemLimit <- 2, MayAbort <- FALSE, MaxFaults <- 1, MaxCrashes <- 0,
    pending <- bootstrapPending, locks <- routeLocks, pc <- place, gap <- routeGap,
    faults <- routeFaults, sent <- delivered, blocked <- stopped

\* The route is removed and added again.
Readded == INSTANCE RouteProjection WITH
    Callers <- {"c1", "c2", "c3"},
    Kind <- [c1 |-> "observe", c2 |-> "clear", c3 |-> "input"],
    Foreground <- FALSE, NumItems <- 2, BaselineLimit <- 2, PageSize <- 1, MaxPages <- 2,
    ItemLimit <- 2, MayAbort <- FALSE, MaxFaults <- 1, MaxCrashes <- 0,
    pending <- bootstrapPending, locks <- routeLocks, pc <- place, gap <- routeGap,
    faults <- routeFaults, sent <- delivered, blocked <- stopped

\* Two Conversations answer one request that may expire; one of them answers over a crash,
\* a removed route or a gap.
BothAsk == [u \in Users |-> "r1"]
EachAt == [u1 |-> "c1", u2 |-> "c2"]
Restart == INSTANCE RequestCorrelation WITH Expiring <- {}, MaxCrashes <- 1
Moves == INSTANCE RequestCorrelation WITH Expiring <- {}, MaxMoves <- 1
Gaps == INSTANCE RequestCorrelation WITH Expiring <- {}, MaxGaps <- 1
OneAnswers == UNCHANGED pc["u2"]

ASSUME ThreadAssumption ==
    /\ Turn!GateAssumption /\ Zen!ObservationAssumption
    /\ Evidence!QueueAssumption /\ Turns!QueueAssumption
    /\ Baseline!RouteAssumption /\ Joined!RouteAssumption /\ Recovery!RouteAssumption
    /\ Removal!RouteAssumption /\ Readded!RouteAssumption /\ Actions!RouteAssumption /\ Rebound!RouteAssumption
    /\ CorrelationAssumption /\ Restart!CorrelationAssumption
    /\ Moves!CorrelationAssumption /\ Gaps!CorrelationAssumption

-----------------------------------------------------------------------------
ThreadInit ==
    /\ part \in Parts
    /\ Turn!Init /\ Zen!Init
    /\ IF part = "turns" THEN Turns!Init ELSE Evidence!Init
    /\ CASE part = "joined" -> Joined!Init
         [] part = "recovery" -> Recovery!Init
         [] part = "removal" -> Removal!Init
         [] part = "readd" -> Readded!Init
         [] part = "actions" -> Actions!Init
         [] part = "foreground" -> Rebound!Init
         [] OTHER -> Baseline!Init
    /\ Init

InputStep ==
    \/ part = "turn" /\ Turn!Next /\ UNCHANGED <<queueVars, zenVars>>
    \/ part = "evidence" /\ Evidence!Next /\ UNCHANGED <<turnVars, zenVars>>
    \/ part = "turns" /\ Turns!Next /\ UNCHANGED <<turnVars, zenVars>>
    \/ part = "zen" /\ Zen!Next /\ UNCHANGED <<turnVars, queueVars>>

ProjectionStep ==
    \/ /\ \/ part = "baseline" /\ Baseline!Next
          \/ part = "joined" /\ Joined!Next
          \/ part = "recovery" /\ Recovery!Next
          \/ part = "removal" /\ Removal!Next
          \/ part = "readd" /\ Readded!Next
          \/ part = "actions" /\ Actions!Next
          \/ part = "foreground" /\ Rebound!Next
       /\ UNCHANGED requestVars
    \/ /\ \/ part = "races" /\ Next
          \/ part = "restart" /\ Restart!Next /\ OneAnswers
          \/ part = "moves" /\ Moves!Next /\ OneAnswers
          \/ part = "gaps" /\ Gaps!Next /\ OneAnswers
       /\ UNCHANGED projectionVars

ThreadNext ==
    /\ \/ InputStep /\ UNCHANGED <<projectionVars, requestVars>>
       \/ ProjectionStep /\ UNCHANGED inputVars
    /\ UNCHANGED part

ThreadSpec == ThreadInit /\ [][ThreadNext]_threadVars

-----------------------------------------------------------------------------
Symmetry == Permutations({d1, d2})

(* The gate: no event is applied before the acceptance of the input that   *)
(* caused it, events are applied in native order, and a gate that nobody   *)
(* uses holds nothing back.                                                *)
TurnOrder ==
    part = "turn" => Turn!TypeOK /\ Turn!NoOvertaking /\ Turn!InOrder /\ Turn!GateIsClean

(* Queued inputs: a receipt, a cancellation and a reply never say more     *)
(* than the native queue did, and an input is enqueued at most once.       *)
QueueEvidence ==
    /\ part = "turns" => Turns!TypeOK /\ Turns!NeverUnrelated
    /\ part = "evidence" =>
         /\ Evidence!CancelIsHonest /\ Evidence!ReceiptIsTrue /\ Evidence!AdmittedHasTurn
         /\ Evidence!EvidenceAgrees /\ Evidence!SentOnce

(* The observation: a change of the native queue that nobody has read has  *)
(* its wake-up under way.                                                  *)
NoLostWakeup == part = "zen" => Zen!TypeOK /\ Zen!NoLostWakeup

(* The route: the Conversation sees the items in the order of the Thread   *)
(* and no recovery passes an item over, except the items a read overtook   *)
(* or brought without its checkpoint, which are kept in overtaken.         *)
ProjectedInOrder ==
    /\ part = "baseline" => Baseline!TypeOK /\ Baseline!InOrder
    /\ part = "joined" => Joined!InOrder /\ Joined!NothingSkipped
    /\ part = "recovery" => Recovery!InOrder /\ Recovery!NothingSkipped
    /\ part = "removal" => Removal!InOrder

(* A barrier holds live items back until the baseline of its route, unless *)
(* an action that is given up retires it, a row of a native request never  *)
(* goes back to an earlier state, and a terminal receipt of a queued input *)
(* never moves.  BaselineFirst speaks of every part of the projection.     *)
NothingIsUndone ==
    Baseline!BaselineFirst /\ NeverRegresses /\ Evidence!TerminalStands

(* The barrier of a route that is removed and added again, which is what the  *)
(* tests of the observation claim of its leases.                           *)
ReaddedBaselineFirst == Readded!BaselineFirst

=============================================================================

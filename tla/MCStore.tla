------------------------------- MODULE MCStore -------------------------------
(***************************************************************************)
(* Instances of the comparison of the two store backends: the repositories *)
(* by groups of operations, and the effect receipts with their one-        *)
(* transaction mutations.  A behaviour is of one instance, its part.       *)
(***************************************************************************)
EXTENDS Integers, TLC

CONSTANTS Parts, None

VARIABLES part, mem, sql, session, clock, differ, taken

backends == <<mem, sql, session, clock, differ>>
vars == <<part, backends, taken>>

-----------------------------------------------------------------------------
Turns == {"u1", "u2"}
Messages == {"m1", "m2"}
Requests == {"q1", "q2"}
Submissions == {"s1", "s2"}
Fingerprints == {"f1", "f2"}
Snapshots == {1, 2}
Keys == {"k1", "k2"}
Projects == {"p1", "p2"}
Roots == {"x", "y"}
MaxRecords == 2

Row(id, t, c, cp) == [id |-> id, thread |-> t, conv |-> c, reply |-> "none", cp |-> cp]

\* Two owners of two Gateways, over the expiry of a lease.
LeaseStore == INSTANCE RepositoryParity WITH
    Groups <- {"bindings", "workspaces"}, Gateways <- {"g1", "g2"}, Owners <- {"o1", "o2"},
    Conversations <- {"c1"}, Threads <- {"t1"}, Routes <- {}, LeaseTicks <- 2,
    MaxClock <- 2, MaxEpoch <- 2, MaxGen <- 2, StaleAfter <- 9

\* Claims of two owners, over the age at which a claim is stale.
ClaimStore == INSTANCE RepositoryParity WITH
    Groups <- {"claims"}, Gateways <- {"g1"}, Owners <- {"o1", "o2"},
    Conversations <- {"c1"}, Threads <- {"t1"}, Routes <- {}, LeaseTicks <- 9,
    MaxClock <- 1, MaxEpoch <- 1, MaxGen <- 0, StaleAfter <- 1

\* Routes that share an id, a Thread or a Conversation.
RouteStore == INSTANCE RepositoryParity WITH
    Groups <- {"routes"}, Gateways <- {"g1"}, Owners <- {"o1"},
    Conversations <- {"c1", "c2"}, Threads <- {"t1", "t2"},
    Routes <- {Row(id, t, c, cp) : id \in {"r1", "r2"}, t \in {"t1", "t2"}, c \in {"c1", "c2"},
                                   cp \in {None, <<"i1", 1>>, <<"i2", 1>>}},
    LeaseTicks <- 1, MaxClock <- 0, MaxEpoch <- 1, MaxGen <- 0, StaleAfter <- 9

\* Turn replies, request correlations and delivery submissions.
TurnStore == INSTANCE RepositoryParity WITH
    Groups <- {"turns"}, Gateways <- {"g1"}, Owners <- {"o1"},
    Conversations <- {"c1", "c2"}, Threads <- {"t1", "t2"}, Routes <- {}, LeaseTicks <- 9,
    MaxClock <- 1, MaxEpoch <- 1, MaxGen <- 0, StaleAfter <- 9
RequestStore == INSTANCE RepositoryParity WITH
    Groups <- {"requests"}, Gateways <- {"g1"}, Owners <- {"o1"},
    Conversations <- {"c1", "c2"}, Threads <- {"t1"}, Routes <- {}, LeaseTicks <- 9,
    MaxClock <- 1, MaxEpoch <- 1, MaxGen <- 0, StaleAfter <- 9
SubmissionStore == INSTANCE RepositoryParity WITH
    Groups <- {"submissions"}, Gateways <- {"g1"}, Owners <- {"o1"},
    Conversations <- {"c1", "c2"}, Threads <- {"t1"}, Routes <- {}, LeaseTicks <- 9,
    MaxClock <- 0, MaxEpoch <- 1, MaxGen <- 0, StaleAfter <- 9

-----------------------------------------------------------------------------
Fp(k, p) == [key |-> k, payload |-> p]
Plan(c, target, clear, upsert, delete, unless, expected) ==
    [conv |-> c, target |-> target, clear |-> clear, upsert |-> upsert, delete |-> delete,
     unless |-> unless, expected |-> expected]
Bound(level, t) == [level |-> level, thread |-> t]

\* Every plan over routes that share an id, a Thread or a Conversation.
SomeRoutes == {Row("r1", "t1", "c1", None), Row("r1", "t2", "c1", None),
               Row("r2", "t1", "c1", None), Row("r1", "t1", "c2", None)}
AllPlans ==
    {Plan("c1", target, clear, upsert, delete, unless, expected) :
        target \in {None, Bound("thread", "t1"), Bound("project", None)},
        clear \in {None, "thread", "project", "application"}, upsert \in SomeRoutes \cup {None},
        delete \in {None, "r1"}, unless \in BOOLEAN, expected \in {None, 1}}
MutationStore == INSTANCE EffectParity WITH
    Fingerprints <- {Fp("k1", "p1"), Fp("k2", "p1"), Fp("k3", "p1")},
    Plans <- AllPlans, Groups <- {"mutations"}, NativePhases <- {"n1"}, MaxReceipts <- 2,
    Gateways <- {"g1"}, Owners <- {"o1"}, Conversations <- {"c1", "c2"},
    Threads <- {"t1", "t2"}, Routes <- SomeRoutes, LeaseTicks <- 9, MaxClock <- 0,
    MaxEpoch <- 1, MaxGen <- 3

\* The plans that race a workflow: they bind, route or clear under its hands.
Racing ==
    {Plan("c1", None, "application", None, None, FALSE, 0),
     Plan("c1", None, None, Row("r1", "t2", "c1", None), None, FALSE, None),
     Plan("c1", Bound("thread", "t1"), None, Row("r1", "t1", "c1", None), None, FALSE, None)}
Unbinding ==
    {Plan("c1", None, "application", None, None, FALSE, 0),
     Plan("c1", Bound("thread", "t1"), None, Row("r1", "t1", "c1", None), None, FALSE, None)}
EffectStore == INSTANCE EffectParity WITH
    Fingerprints <- {Fp("k1", "p1"), Fp("k2", "p1"), Fp("k2", "p2")},
    Plans <- Racing, Groups <- {"mutations", "effects"}, NativePhases <- {"n1", "n2"},
    MaxReceipts <- 2, Gateways <- {"g1"}, Owners <- {"o1"}, Conversations <- {"c1"},
    Threads <- {"t1"}, Routes <- {Row("r1", "t1", "c1", None)}, LeaseTicks <- 9,
    MaxClock <- 0, MaxEpoch <- 1, MaxGen <- 2
WorkflowStore == INSTANCE EffectParity WITH
    Fingerprints <- {Fp("k1", "p1"), Fp("k2", "p1"), Fp("k3", "p1")},
    Plans <- Unbinding, Groups <- {"mutations", "effects"}, NativePhases <- {"n1"},
    MaxReceipts <- 3, Gateways <- {"g1"}, Owners <- {"o1"}, Conversations <- {"c1"},
    Threads <- {"t1"}, Routes <- {Row("r1", "t1", "c1", None)}, LeaseTicks <- 9,
    MaxClock <- 0, MaxEpoch <- 1, MaxGen <- 2

-----------------------------------------------------------------------------
Init ==
    \/ part = "lease" /\ LeaseStore!Init
    \/ part = "claims" /\ ClaimStore!Init
    \/ part = "routes" /\ RouteStore!Init
    \/ part = "rows" /\ TurnStore!Init
    \/ part = "correlations" /\ RequestStore!Init
    \/ part = "sends" /\ SubmissionStore!Init
    \/ part = "mutations" /\ MutationStore!Init /\ taken = FALSE
    \/ part = "effects" /\ EffectStore!Init /\ taken = FALSE
    \/ part = "workflows" /\ WorkflowStore!Init /\ taken = FALSE

PartInit == part \in Parts /\ Init

Next ==
    /\ \/ part = "lease" /\ LeaseStore!Next
       \/ part = "claims" /\ ClaimStore!Next
       \/ part = "routes" /\ RouteStore!Next
       \/ part = "rows" /\ TurnStore!Next
       \/ part = "correlations" /\ RequestStore!Next
       \/ part = "sends" /\ SubmissionStore!Next
       \/ /\ \/ part = "mutations" /\ MutationStore!Next
             \/ part = "effects" /\ EffectStore!Next
             \/ part = "workflows" /\ WorkflowStore!Next
          /\ UNCHANGED taken
    /\ UNCHANGED part

Spec == PartInit /\ [][Next]_vars

-----------------------------------------------------------------------------
(* The backends agree: the same calls leave the same records and give the  *)
(* same answers, until a claim is taken over, which only SQLite does.      *)
BackendsAgree ==
    /\ part = "lease" => LeaseStore!SameState /\ LeaseStore!SameAnswerUntilTakeover
    /\ part = "claims" => ClaimStore!SameState /\ ClaimStore!SameAnswerUntilTakeover
    /\ part = "routes" => RouteStore!SameState /\ RouteStore!SameAnswerUntilTakeover
    /\ part = "rows" => TurnStore!SameState /\ TurnStore!SameAnswerUntilTakeover
    /\ part = "correlations" => RequestStore!SameState /\ RequestStore!SameAnswerUntilTakeover
    /\ part = "sends" => SubmissionStore!SameState /\ SubmissionStore!SameAnswerUntilTakeover
    /\ part = "mutations" => MutationStore!SameState /\ MutationStore!SameAnswer
    /\ part = "effects" => EffectStore!SameState /\ EffectStore!SameAnswer
    /\ part = "workflows" => WorkflowStore!SameState /\ WorkflowStore!SameAnswer

(* What both keep: one owner writes, a route is found by id and by         *)
(* Conversation alike, an answered request is answered everywhere, and a   *)
(* workflow binds only where it reserved the generation.                   *)
StoreIsConsistent ==
    /\ part = "lease" => LeaseStore!OneWriter
    /\ part = "routes" => RouteStore!RoutesAreKeyedBothWays
    /\ part = "correlations" => RequestStore!AnsweredEverywhere
    /\ part = "workflows" => WorkflowStore!WorkflowBindsWhereItReserved

(* What a call may never undo: a generation never goes back, a checkpoint  *)
(* moves only by naming the item it replaces, an answered request and a    *)
(* verdict stand, a started claim keeps its owner, and a refused plan      *)
(* changes nothing but its receipt.                                        *)
HistoryIsKept ==
    [][/\ part = "lease" => LeaseStore!GenerationsGrow
       /\ part = "claims" => ClaimStore!StartedClaimsStay
       /\ part = "routes" => RouteStore!CheckpointsMoveBySwap
       /\ part = "correlations" => RequestStore!StatesNeverRegress
       /\ part = "mutations" => MutationStore!RefusedPlansChangeNothing
       /\ part = "effects" => EffectStore!VerdictsStand]_vars
=============================================================================

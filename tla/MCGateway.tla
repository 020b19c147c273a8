------------------------------ MODULE MCGateway ------------------------------
(***************************************************************************)
(* Instances of the Gateway's actions and of its lifecycle: an Application *)
(* "a" with the Project p and its Threads th and tn (tn is created by the  *)
(* Application), a request r and a queued input q; a Gateway of two        *)
(* Applications and a Channel that is started once and stopped by two      *)
(* tasks; and the Channel with a thread of its own, Feishu, whose messages *)
(* come to the Gateway's loop through a bounded queue: the module          *)
(* FeishuIngress itself.  A behaviour is of one of them, its part.         *)
(***************************************************************************)
EXTENDS FeishuIngress, TLC

CONSTANTS Parts, t1, t2

VARIABLES part,
    caps, profiles, exists, content, changes, stopped, receipts, bindings, tasks, sent,
    seen, intent,
    gw, starter, lease, stoppers, teardown, owner, prep, hist

surfaceVars == <<caps, profiles, exists, content, changes, stopped, receipts, bindings, tasks,
                 sent, seen, intent>>
lifecycleVars == <<gw, starter, lease, stoppers, teardown, owner, prep, hist>>
gatewayVars == <<part, surfaceVars, lifecycleVars, vars>>

-----------------------------------------------------------------------------
C(method, ref) ==
    [method |-> method, actor |-> "u", conv |-> "c1", id |-> "i", app |-> "a",
     ref |-> ref, profile |-> "none", mode |-> "none", gen |-> -1, fg |-> FALSE]

In(c, conv) == [c EXCEPT !.conv = conv]
Foreground(c) == [c EXCEPT !.fg = TRUE]
Profiled(c) == [c EXCEPT !.profile = "pr"]

(* Native actions, each under its own kind, with one retried. *)
NativeCalls ==
    {C("create_project", "pn"), C("delete_project", "p"),
     C("activate_native_thread", "th"), C("interrupt_turn", "th"),
     [C("delete_thread", "th") EXCEPT !.mode = "threads.archive"],
     [C("delete_thread", "th") EXCEPT !.mode = "threads.delete"],
     C("respond_request", "r"), C("cancel_queued_input", "q"),
     [C("create_project", "pn") EXCEPT !.app = "b"]}

(* Creations with a profile, direct and as workflows. *)
ProfileCalls ==
    {Profiled(C("create_thread", "p")), Foreground(Profiled(C("create_and_bind_thread", "p"))),
     C("create_thread", "p"), [Profiled(C("create_thread", "p")) EXCEPT !.app = "b"]}

(* Bindings and observations, of two Conversations and two principals. *)
BindingCalls ==
    {C("select_application", "a"), In(C("select_application", "a"), "c2"),
     [C("select_application", "a") EXCEPT !.actor = "v"], C("select_project", "p"), C("bind_thread", "th"),
     Foreground(C("bind_thread", "th")), [C("clear_thread", "a") EXCEPT !.gen = 0],
     C("clear_project", "a"), C("clear_application", "a"),
     C("observe_thread", "th"), C("clear_observation", "th")}

(* Workflows that race a change of the binding. *)
WorkflowCalls ==
    {C("create_and_select_project", "pn"),
     In(C("create_and_select_project", "pn"), "c2"), C("create_and_bind_thread", "p"),
     Foreground(C("create_and_bind_thread", "p")), C("select_application", "a")}

Tasks == {t1, t2}
Convs == {"c1", "c2"}
ProjectOf == [th |-> "p", tn |-> "p"]
Fresh == {"tn", "pn"}
Capabilities ==
    {"projects.creation", "projects.deletion", "projects.reading",
     "threads.creation", "threads.archive", "threads.reading", "streaming",
     "native_thread_activation", "interruption", "interactive_requests"}

Native == INSTANCE ActionSurface WITH
    Calls <- NativeCalls, Applications <- {"a"}, Varying <- {"threads.reading", "interruption", "interactive_requests"},
    Perishable <- {"p", "th", "r", "q"}, ProfileIds <- {}, Declarations <- {},
    Contents <- {"x", "y"}, MaxChanges <- 1

(* A profile that may change and change back, and an argument that may change. *)
Profile == INSTANCE ActionSurface WITH
    Calls <- ProfileCalls, Applications <- {"a"}, Varying <- {"threads.creation"},
    Perishable <- {"p"}, ProfileIds <- {"pr"}, Declarations <- {"f1", "f2"},
    Contents <- {"x"}, MaxChanges <- 2

Content == INSTANCE ActionSurface WITH
    Calls <- ProfileCalls, Applications <- {"a"}, Varying <- {"threads.creation"},
    Perishable <- {"p"}, ProfileIds <- {"pr"}, Declarations <- {"f1", "f2"},
    Contents <- {"x", "y"}, MaxChanges <- 1

Binding == INSTANCE ActionSurface WITH
    Calls <- BindingCalls, Applications <- {"a"}, Varying <- {"streaming"},
    Perishable <- {"p", "th"}, ProfileIds <- {}, Declarations <- {},
    Contents <- {"x"}, MaxChanges <- 2

Workflow == INSTANCE ActionSurface WITH
    Calls <- WorkflowCalls, Applications <- {"a"}, Varying <- {}, Perishable <- {"p"},
    ProfileIds <- {}, Declarations <- {}, Contents <- {"x"}, MaxChanges <- 1

Lifecycle == INSTANCE GatewayLifecycle WITH
    Applications <- <<"a1", "a2">>, Channels <- <<"c1">>, Stoppers <- {t1, t2},
    Preparations <- 1, MaxCancels <- 1, job <- teardown

ASSUME GatewayAssumption ==
    Lifecycle!LifecycleAssumption /\ TransactionAssumption /\ FeishuAssumption

-----------------------------------------------------------------------------
(* Contents, and the declarations of a profile, are interchangeable: one      *)
(* task has the content x, and a profile that is there starts as f1.          *)
UpToNames == (\E t \in Tasks : content[t] = "x") /\ "f2" \notin {profiles[id] : id \in DOMAIN profiles}

GatewayInit ==
    /\ part \in Parts
    /\ CASE part = "native" -> Native!Init
         [] part = "profile" -> Profile!Init
         [] part = "content" -> Content!Init
         [] part = "binding" -> Binding!Init
         [] OTHER -> Workflow!Init
    /\ UpToNames
    /\ Lifecycle!Init /\ Init

GatewayNext ==
    /\ \/ /\ \/ part = "native" /\ Native!Next
             \/ part = "profile" /\ Profile!Next
             \/ part = "content" /\ Content!Next
             \/ part = "binding" /\ Binding!Next
             \/ part = "workflow" /\ Workflow!Next
          /\ UNCHANGED <<lifecycleVars, vars>>
       \/ part = "lifecycle" /\ Lifecycle!Next /\ UNCHANGED <<surfaceVars, vars>>
       \/ part = "feishu" /\ Next /\ UNCHANGED <<surfaceVars, lifecycleVars>>
    /\ UNCHANGED part

GatewaySpec == GatewayInit /\ [][GatewayNext]_gatewayVars

-----------------------------------------------------------------------------
(* A native mutation is handed over, and a binding or an observation is    *)
(* committed, only for a resource that was there and under capabilities    *)
(* that were declared while the call ran; what is handed over has the      *)
(* content its fingerprint was taken of and the profile it was reserved    *)
(* with.                                                                   *)
SentAsChecked ==
    /\ part = "native" => Native!SentAsFingerprinted /\ Native!CheckedBeforeEffect
    /\ part = "profile" => Profile!CreatedAsIntended /\ Profile!CheckedBeforeEffect
    /\ part = "content" => Content!SentAsFingerprinted /\ Content!CreatedAsIntended
    /\ part = "binding" => Binding!CheckedBeforeEffect
    /\ part = "workflow" => Workflow!CheckedBeforeEffect

(* A caller is answered from the receipts of its own principal and         *)
(* Conversation, and an observation lease is settled when its action ends. *)
AnswersAreOwn ==
    /\ part = "binding" => Binding!AnsweredAboutOwn /\ Binding!LeasesAreSettled
    /\ part = "workflow" => Workflow!AnsweredAboutOwn /\ Workflow!LeasesAreSettled

(* Teardown is orderly whatever the races of start, stop, cancellation and *)
(* lease loss: only startup is cancelled, what was started is stopped      *)
(* exactly once and before the store closes, stop returns only when all is *)
(* closed, and a lost lease is reported.                                   *)
TeardownIsOrderly ==
    part = "lifecycle" =>
        /\ Lifecycle!OnlyStartupIsCancelled
        /\ Lifecycle!StoppedExactlyOnce
        /\ Lifecycle!OnlyStartedIsStopped
        /\ Lifecycle!StoreOutlivesOwners
        /\ Lifecycle!StopMeansClosed
        /\ Lifecycle!LeaseLossIsReported
        /\ Lifecycle!PreparationBeforeRecovery

\* The tasks that call, or that stop the Gateway, are interchangeable.
Twins == Permutations(Tasks)
=============================================================================

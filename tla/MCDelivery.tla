----------------------------- MODULE MCDelivery -----------------------------
(***************************************************************************)
(* Instances of the components an outbound message meets: the delivery     *)
(* plan, the coordinator, proactive deliveries (the module                 *)
(* ProactiveDelivery itself), the consumer's hooks, the native send of     *)
(* each provider and the split of its texts.  A behaviour is of one of     *)
(* them, its part; the others stay where they start.                       *)
(***************************************************************************)
EXTENDS ProactiveDelivery, TLC

CONSTANTS Parts, Letter, Wide, Space, Newline, Mark, NoLimit, h1, h2, h3, h4

VARIABLES part,
    message, profile, status, plan,
    coordPc, coordReceipts, coordAttempt, outcome, queue, closed, platform,
    hook, caller, result, active, overrun, closing, doomed, closes, untracked,
    attempt, mode, pos, stage, tries, plain, reply, stale, left, receipts,
    failures, accepted, copies, before,
    text, limit, remaining, chunks

planVars == <<message, profile, status, plan>>
coordVars == <<coordPc, coordReceipts, coordAttempt, outcome, queue, closed, platform>>
hookVars == <<hook, caller, result, active, overrun, closing, doomed, closes, untracked>>
nativeVars == <<attempt, mode, pos, stage, tries, plain, reply, stale, left, receipts,
                failures, accepted, copies, before>>
splitVars == <<text, limit, remaining, chunks>>
deliveryVars == <<part, planVars, coordVars, vars, hookVars, nativeVars, splitVars>>

-----------------------------------------------------------------------------
(* Every text of up to five characters, plain or in Markdown, and every    *)
(* message of up to four items over a few texts and attachments.           *)
TextsOver(chars, n) == UNION {[1..k -> chars] : k \in 1..n}
Fence == <<Mark, Mark, Mark>>
Text(t, format) ==
    [kind |-> "text", text |-> t, format |-> format, size |-> 0, family |-> "none", source |-> "none"]
Plain(t) == Text(t, "plain")
File(source, size, family) ==
    [kind |-> "file", text |-> <<>>, format |-> "none", size |-> size, family |-> family,
     source |-> source]
Message(items, isReply) == [content |-> items, reply |-> isReply]

Items == {Plain(<<Letter>>), Plain(<<Letter, Space, Letter, Letter>>), File("url", 1, "image"),
          File("local", 2, "image"), File("url", 1, "audio"), File("url", 3, "audio")}
OddItems == {File("url", NoLimit, "image"), File("local", NoLimit, "image"),
             File("bytes", 1, "image"), File("url", 1, "video")}

BaseProfile ==
    [maxText |-> NoLimit, maxSegments |-> 9, grouping |-> "none", maxCount |-> NoLimit,
     groupSize |-> NoLimit, maxSize |-> NoLimit, attachments |-> TRUE,
     sources |-> {"url", "local"}, mediaTypes |-> {}, maxItems |-> 4,
     plainText |-> TRUE, markdown |-> "fallback", replies |-> TRUE, replyScope |-> "first"]
Profile(text_, segments, grouping, count, size) ==
    [BaseProfile EXCEPT !.maxText = text_, !.maxSegments = segments, !.grouping = grouping,
                        !.maxCount = count, !.groupSize = size]

TextCases ==
    {Message(<<Plain(t)>>, FALSE) : t \in TextsOver({Letter, Wide, Space, Newline}, 5)} \X
    {Profile(n, segments, "none", NoLimit, NoLimit) :
        n \in {1, 2, 3, NoLimit}, segments \in {1, 2, 9}}
MarkdownCases ==
    {Message(<<Text(t, "markdown")>>, FALSE) :
        t \in TextsOver({Letter, Space, Newline, Mark}, 5)
               \cup {f \o <<Letter>> \o t : f \in {<<>>, Fence},
                        t \in {Fence, <<Newline>> \o Fence \o <<Letter, Newline, Letter>>}}} \X
    {[Profile(n, segments, "none", NoLimit, NoLimit) EXCEPT !.markdown = "fallback"] :
        n \in {2, NoLimit}, segments \in {2, 9}}
MixedCases ==
    {Message(items, FALSE) : items \in UNION {[1..n -> Items] : n \in 1..4}} \X
    {Profile(2, segments, grouping, count, size) :
        segments \in {2, 9}, grouping \in {"none", "family", "mixed"},
        count \in {2, NoLimit}, size \in {2, 3, NoLimit}}
\* What a Channel cannot carry: formats, replies, kinds, types, sizes, items.
SupportCases ==
    {Message(items, isReply) : isReply \in BOOLEAN,
        items \in UNION {[1..n -> {Plain(<<Letter>>), Text(<<Mark, Letter, Mark>>, "markdown"),
                                  File("local", 2, "image")} \cup OddItems] : n \in 1..2}} \X
    ({[BaseProfile EXCEPT !.plainText = plain_, !.markdown = markdown, !.replies = replies,
                          !.replyScope = scope] :
        plain_ \in BOOLEAN, markdown \in {"native", "fallback", "unsupported"},
        replies \in BOOLEAN, scope \in {"first", "every"}}
     \cup
     {[BaseProfile EXCEPT !.attachments = files, !.maxSize = size, !.groupSize = group,
                          !.mediaTypes = types, !.maxItems = items] :
        files \in BOOLEAN, size \in {1, NoLimit}, group \in {2, NoLimit},
        types \in {{}, {"image"}}, items \in {1, 4}})

Plan == INSTANCE DeliveryPlanning WITH
    Cases <- TextCases \cup MarkdownCases \cup MixedCases \cup SupportCases
OnePlan == INSTANCE DeliveryPlanning WITH Cases <- {<<Message(<<Plain(<<Letter>>)>>, FALSE), BaseProfile>>}

\* Two deliveries to one destination and one to another: an item of two
\* segments, a segment of two attachments.
Coord == INSTANCE DeliveryCoordination WITH
    Deliveries <- {"a", "b", "c"},
    DestinationOf <- [a |-> "X", b |-> "X", c |-> "Y"],
    SourcesOf <- [a |-> <<{1}, {1}, {2}>>, b |-> <<{1, 2}>>, c |-> <<{1}>>],
    AttachmentsOf <- [a |-> {2}, b |-> {1, 2}, c |-> {}],
    MaxPending <- 2, MaxPerDestination <- 2, MaxSlots <- 1, MaxAttempts <- 2,
    pc <- coordPc, receipts <- coordReceipts, attempt <- coordAttempt
\* Three to one destination, one too many, while there is room for another.
Busy == INSTANCE DeliveryCoordination WITH
    Deliveries <- {"a", "b", "c", "d"},
    DestinationOf <- [a |-> "X", b |-> "X", c |-> "X", d |-> "Y"],
    SourcesOf <- [a |-> <<{1}>>, b |-> <<{1}>>, c |-> <<{1}>>, d |-> <<{1}>>],
    AttachmentsOf <- [a |-> {}, b |-> {}, c |-> {}, d |-> {}],
    MaxPending <- 3, MaxPerDestination <- 2, MaxSlots <- 2, MaxAttempts <- 1,
    pc <- coordPc, receipts <- coordReceipts, attempt <- coordAttempt

\* Proactive calls: x1 to x3 through the handler, d1 without it, i1 to i3 of the
\* Gateway itself.  All are of one id, except for x3, which is refused.
Handled == {"x1", "x2", "x3"}
Inner == {"i1", "i2", "i3"}
CallIds == [x1 |-> "m", x2 |-> "m", x3 |-> "n", d1 |-> "m", i1 |-> "m", i2 |-> "m", i3 |-> "m"]
Origins == [x1 |-> "external", x2 |-> "external", x3 |-> "external", d1 |-> "external",
            i1 |-> "internal", i2 |-> "internal", i3 |-> "internal"]
Principals == [x1 |-> "p", x2 |-> "p", x3 |-> "p", d1 |-> "p", i1 |-> "p", i2 |-> "p", i3 |-> "p"]
Payloads == [x1 |-> "text", x2 |-> "text", x3 |-> "refused", d1 |-> "text",
             i1 |-> "text", i2 |-> "text", i3 |-> "other"]
Targets == [x1 |-> Thread, x2 |-> Thread, x3 |-> Thread, d1 |-> Thread,
            i1 |-> "a", i2 |-> "a", i3 |-> "a"]

Tracked == INSTANCE HookRuntimes WITH
    Hooks <- {h1, h2, h3}, Discipline <- "tracked", MaxConcurrency <- 2, MaxCloses <- 1
Observed == INSTANCE HookRuntimes WITH
    Hooks <- {h1, h2, h3, h4}, Discipline <- "observed", MaxConcurrency <- 2, MaxCloses <- 1

\* Two artifacts and two chunks, sent twice.
QQ == INSTANCE NativeDelivery WITH
    Provider <- "qq", ArtifactCount <- 2, ChunkCount <- 2, MaxAttempts <- 2
Telegram == INSTANCE NativeDelivery WITH
    Provider <- "telegram", ArtifactCount <- 2, ChunkCount <- 2, MaxAttempts <- 2
Weixin == INSTANCE NativeDelivery WITH
    Provider <- "weixin", ArtifactCount <- 2, ChunkCount <- 2, MaxAttempts <- 2
Feishu == INSTANCE NativeDelivery WITH
    Provider <- "feishu", ArtifactCount <- 2, ChunkCount <- 2, MaxAttempts <- 2

Split == INSTANCE TextSplit WITH MaxLength <- 7, Limits <- 1..4
NoSplit == INSTANCE TextSplit WITH MaxLength <- 0, Limits <- {1}

ASSUME DeliveryAssumption ==
    /\ Plan!Characters /\ Coord!CoordinatorAssumption /\ Busy!CoordinatorAssumption
    /\ ProactiveAssumption
    /\ Tracked!HookAssumption /\ Observed!HookAssumption
    /\ QQ!NativeAssumption /\ Telegram!NativeAssumption
    /\ Weixin!NativeAssumption /\ Feishu!NativeAssumption
    /\ Split!SplitAssumption

-----------------------------------------------------------------------------
(* Two callers of one delivery to a Thread whose routes move; three past   *)
(* the handler, to one route, with a cancellation or a revocation, both    *)
(* with a crash or a failure of the store; and three of the Gateway with   *)
(* two crashes and a failure.  The destinations are interchangeable: a is  *)
(* among the first routes.                                                 *)
CallsOf(p) ==
    CASE p = "external" -> {"x1", "d1"} [] p = "internal" -> Inner
      [] p = "ingress" -> Handled [] OTHER -> {}

ProactiveInit ==
    /\ Init
    /\ IF part = "external" THEN "a" \in routes ELSE routes = {"a"}

ProactiveNext ==
    /\ part \in {"external", "internal", "ingress"} /\ NextOf(CallsOf(part))
    /\ part = "external" => budget'.cancels = MaxCancels /\ revoked' = {}
    /\ part # "external" => routes' = routes
    /\ part = "internal" => budget'.moves = MaxMoves
    /\ part # "internal" => budget'.crashes + budget'.failures >= MaxCrashes + MaxFailures - 1

DeliveryInit ==
    /\ part \in Parts
    /\ IF part = "plan" THEN Plan!Init ELSE OnePlan!Init
    /\ IF part = "busy" THEN Busy!Init ELSE Coord!Init
    /\ ProactiveInit
    /\ IF part = "observed" THEN Observed!Init ELSE Tracked!Init
    /\ CASE part = "qq" -> QQ!Init
         [] part = "weixin" -> Weixin!Init
         [] part = "feishu" -> Feishu!Init
         [] OTHER -> Telegram!Init
    /\ IF part = "split" THEN Split!Init ELSE NoSplit!Init

DeliveryNext ==
    /\ \/ /\ part = "plan" /\ Plan!Next
          /\ UNCHANGED <<coordVars, vars, hookVars, nativeVars, splitVars>>
       \/ /\ \/ part = "coord" /\ Coord!Next
             \/ part = "busy" /\ Busy!Next
          /\ UNCHANGED <<planVars, vars, hookVars, nativeVars, splitVars>>
       \/ /\ ProactiveNext
          /\ UNCHANGED <<planVars, coordVars, hookVars, nativeVars, splitVars>>
       \/ /\ \/ part = "tracked" /\ Tracked!Next
             \/ part = "observed" /\ Observed!Next
          /\ UNCHANGED <<planVars, coordVars, vars, nativeVars, splitVars>>
       \/ /\ \/ part = "qq" /\ QQ!Next
             \/ part = "telegram" /\ Telegram!Next
             \/ part = "weixin" /\ Weixin!Next
             \/ part = "feishu" /\ Feishu!Next
          /\ UNCHANGED <<planVars, coordVars, vars, hookVars, splitVars>>
       \/ /\ part = "split" /\ Split!Next
          /\ UNCHANGED <<planVars, coordVars, vars, hookVars, nativeVars>>
    /\ UNCHANGED part

DeliverySpec == DeliveryInit /\ [][DeliveryNext]_deliveryVars

HookSymmetry == Permutations({h1, h2, h3})

-----------------------------------------------------------------------------
(* The plan of DeliveryPlanner: every segment fits the profile, the text   *)
(* and the attachments of the message come out once and in order, and a    *)
(* message is refused only for a reason the profile states.                *)
PlanIsFaithful ==
    part = "plan" => Plan!PlanFitsProfile /\ Plan!PlanKeepsContent /\ Plan!RefusalHasReason

(* The coordinator: receipts and item statuses say what the Channel        *)
(* answered, a destination has one segment under way, bounds are kept.     *)
CoordinatorIsHonest ==
    /\ part = "coord" =>
        /\ Coord!TypeOK /\ Coord!ReceiptIsTrue /\ Coord!ItemsAreTrue
        /\ Coord!OneAtATime /\ Coord!WithinBounds
    /\ part = "busy" =>
        /\ Busy!ReceiptIsTrue /\ Busy!OneAtATime /\ Busy!WithinBounds

(* The hook runtimes: no more hooks run than the limit, cancelled ones     *)
(* that run on included, except the observers that a close left behind,    *)
(* and a place that is held is held for something that lives.              *)
HooksAreBounded ==
    /\ part = "tracked" => Tracked!TypeOK /\ Tracked!HooksAreBounded /\ Tracked!SlotsAreUsed
    /\ part = "observed" => Observed!HooksAreBounded /\ Observed!SlotsAreUsed

(* The native sends: a receipt names what the provider accepted, a send    *)
(* that fails reports what arrived before, and what is sent again is       *)
(* recognised by the provider where it can be.                             *)
NativeReceiptsAreTrue ==
    /\ part = "qq" => QQ!EvidenceSurvivesFailure
    /\ part = "telegram" => Telegram!TypeOK /\ Telegram!ReceiptIsTruthful /\ Telegram!NoHiddenResend
    /\ part = "weixin" => Weixin!RetryIsDeduplicated
    /\ part = "feishu" => Feishu!ReceiptIsTruthful

(* The split of a text: every chunk fits the limit and the text loses only *)
(* the blanks at the breaks.                                               *)
SplitIsFaithful == part = "split" => Split!ChunksFit /\ Split!NothingLost
=============================================================================

----------------------------- MODULE MCAdapters -----------------------------
(***************************************************************************)
(* Instances of the adapters on both sides of the Gateway: the inbound     *)
(* side of the polling Channels with the staging of media, and the         *)
(* Applications (the app-server client, its Threads and native requests,   *)
(* the T3 adapter).  A behaviour is of one instance, its part; the others  *)
(* stay where they start.  Telegram is the module PollingChannels itself,  *)
(* the others are instances of theirs.                                     *)
(***************************************************************************)
EXTENDS PollingChannels, TLC

CONSTANTS Parts

VARIABLES part,
    at, kind, pending, outcome, late, cancelled, spool, tainted, stopped, handle,
    retained, child, signalled, answer, flock, files, old, crashes,
    connection, transport, handles, listener, proto, ready, hasBeenReady, closing, closer,
    reset, connLock, initLock, resumeLock, task, fut, peer, asked, answers, greeted,
    executed, losses,
    laneEpoch, up, resetting, native, cameOn, lane, handling, unanswered, outcomes,
    responder, replies, published,
    linked, linkEpoch, served, creating, inbox, table, newer, evid, lock, reader,
    streams, log, seen, made, authorised, told,
    threads, ad, inputs, poll, subs, hist

mediaVars == <<at, kind, pending, outcome, late, cancelled, spool, tainted, stopped,
               handle, retained, child, signalled, answer, flock, files, old, crashes>>
clientVars == <<connection, transport, handles, listener, proto, ready, hasBeenReady, closing,
                closer, reset, connLock, initLock, resumeLock, task, fut, peer, asked,
                answers, greeted, executed, losses>>
requestVars == <<laneEpoch, up, resetting, native, cameOn, lane, handling, unanswered,
                 outcomes, responder, replies, published>>
threadVars == <<linked, linkEpoch, served, creating, inbox, table, newer, evid, lock,
                reader, streams, log, seen, made, authorised, told>>
t3Vars == <<threads, ad, inputs, poll, subs, hist>>
channelVars == <<vars, mediaVars>>
applicationVars == <<clientVars, requestVars, threadVars, t3Vars>>
adapterVars == <<part, channelVars, applicationVars>>

-----------------------------------------------------------------------------
(* The Channels. *)

\* Three messages, of which the second is turned away (the configuration).
Weixin == INSTANCE PollingChannels WITH Provider <- "weixin"

\* A spool with room for one batch: two calls of two materializers, a call
\* beside a sweep that may both be cancelled, and a message with both.
Spool == INSTANCE MediaStaging WITH
    Calls <- {"image", "file"}, Sweeps <- {}, Cancellable <- {}, Slow <- {"image"},
    Materializers <- {"images", "files"}, Of <- [image |-> "images", file |-> "files"],
    After <- [image |-> "none", file |-> "none"],
    Size <- [image |-> 1, file |-> 1], Quota <- 1, MaxCrashes <- 0, pc <- at
Orphans == INSTANCE MediaStaging WITH
    Calls <- {"image", "sweep"}, Sweeps <- {"sweep"}, Cancellable <- {"image", "sweep"},
    Slow <- {},
    Materializers <- {"images"}, Of <- [image |-> "images", sweep |-> "images"],
    After <- [image |-> "none", sweep |-> "none"],
    Size <- [image |-> 1, sweep |-> 0], Quota <- 1, MaxCrashes <- 1, pc <- at
Message == INSTANCE MediaStaging WITH
    Calls <- {"image", "file"}, Sweeps <- {}, Cancellable <- {"file"}, Slow <- {"file"},
    Materializers <- {"images", "files"}, Of <- [image |-> "images", file |-> "files"],
    After <- [image |-> "none", file |-> "image"],
    Size <- [image |-> 1, file |-> 1], Quota <- 2, MaxCrashes <- 1, pc <- at

-----------------------------------------------------------------------------
(* The Applications. *)

\* An input, which may be tried twice, and a plain call.
InputAndCall(t) == IF t = "c1" THEN "input" ELSE "call"
Input == INSTANCE AppServerClient WITH
    Callers <- {"c1", "c2"}, Kind <- InputAndCall, Attempts <- 2, Persistent <- FALSE,
    MayCancel <- {}, MayClose <- FALSE, StopMayFail <- FALSE, MaxEpoch <- 2,
    epoch <- connection, reported <- losses

\* Two subscriptions resumed after a reconnection, one cancelled.
Resumes(t) == "resume"
Resume == INSTANCE AppServerClient WITH
    Callers <- {"c1", "c2"}, Kind <- Resumes, Attempts <- 1, Persistent <- TRUE,
    MayCancel <- {"c1"}, MayClose <- FALSE, StopMayFail <- FALSE, MaxEpoch <- 2,
    epoch <- connection, reported <- losses

\* A queued input and a call while the client is closed.
QueueAndCall(t) == IF t = "c1" THEN "queue" ELSE "call"
Close == INSTANCE AppServerClient WITH
    Callers <- {"c1", "c2"}, Kind <- QueueAndCall, Attempts <- 1, Persistent <- TRUE,
    MayCancel <- {}, MayClose <- TRUE, StopMayFail <- FALSE, MaxEpoch <- 1,
    epoch <- connection, reported <- losses

\* Two answers to one native request, across a reconnection.
AllWellFormed(r) == "ok"
SameTarget(t) == "r1"
Races == INSTANCE AppServerRequests WITH
    Requests <- {"r1", "r2"}, Shape <- AllWellFormed, Responders <- {"t1", "t2"},
    Target <- SameTarget, LaneSize <- 2, CacheLimit <- 2, MaxEpoch <- 2,
    epoch <- laneEpoch, pending <- unanswered

\* Answers to two requests, and an outcome cache of one.
OwnTarget(t) == IF t = "t1" THEN "r1" ELSE "r2"
Cache == INSTANCE AppServerRequests WITH
    Requests <- {"r1", "r2"}, Shape <- AllWellFormed, Responders <- {"t1", "t2"},
    Target <- OwnTarget, LaneSize <- 2, CacheLimit <- 1, MaxEpoch <- 2,
    epoch <- laneEpoch, pending <- unanswered

\* Requests of every shape.
Mixed(r) == CASE r = "r1" -> "ok" [] r = "r2" -> "unsupported" [] OTHER -> "malformed"
Shapes == INSTANCE AppServerRequests WITH
    Requests <- {"r1", "r2", "r3"}, Shape <- Mixed, Responders <- {"t1"},
    Target <- SameTarget, LaneSize <- 2, CacheLimit <- 2, MaxEpoch <- 2,
    epoch <- laneEpoch, pending <- unanswered

\* A Thread that is created: a baseline and a first input beside its notifications; an
\* input whose evidence may be refreshed or evicted; a Thread created anew under its id
\* on another connection; queued input; a subscriber, with and without a materializer.
CallKinds(c) == c
Created == INSTANCE AppServerThreads WITH
    Calls <- {"baseline", "start"}, CallKind <- CallKinds, Dispatcher <- "dispatcher",
    Subscribers <- {}, Materializer <- FALSE, Limit <- 2, Entries <- 1, MaxPending <- 1,
    SeenLimit <- 1, MaxGens <- 1, MaxEpoch <- 1, MaxRev <- 0, MaxNotes <- 1, InboxSize <- 1,
    conn <- linked, epoch <- linkEpoch, native <- served, task <- reader, subs <- streams
Touched == INSTANCE AppServerThreads WITH
    Calls <- {"start"}, CallKind <- CallKinds, Dispatcher <- "dispatcher",
    Subscribers <- {}, Materializer <- FALSE, Limit <- 2, Entries <- 2, MaxPending <- 1,
    SeenLimit <- 1, MaxGens <- 1, MaxEpoch <- 1, MaxRev <- 2, MaxNotes <- 1, InboxSize <- 1,
    conn <- linked, epoch <- linkEpoch, native <- served, task <- reader, subs <- streams
Recreated == INSTANCE AppServerThreads WITH
    Calls <- {"steer"}, CallKind <- CallKinds, Dispatcher <- "dispatcher",
    Subscribers <- {}, Materializer <- FALSE, Limit <- 2, Entries <- 1, MaxPending <- 1,
    SeenLimit <- 1, MaxGens <- 2, MaxEpoch <- 2, MaxRev <- 0, MaxNotes <- 1, InboxSize <- 1,
    conn <- linked, epoch <- linkEpoch, native <- served, task <- reader, subs <- streams
Queueing == INSTANCE AppServerThreads WITH
    Calls <- {"queue"}, CallKind <- CallKinds, Dispatcher <- "dispatcher",
    Subscribers <- {"s1"}, Materializer <- FALSE, Limit <- 2, Entries <- 1, MaxPending <- 1,
    SeenLimit <- 1, MaxGens <- 1, MaxEpoch <- 1, MaxRev <- 0, MaxNotes <- 1, InboxSize <- 1,
    conn <- linked, epoch <- linkEpoch, native <- served, task <- reader, subs <- streams
Stream == INSTANCE AppServerThreads WITH
    Calls <- {}, CallKind <- CallKinds, Dispatcher <- "dispatcher",
    Subscribers <- {"s1"}, Materializer <- TRUE, Limit <- 2, Entries <- 1, MaxPending <- 2,
    SeenLimit <- 1, MaxGens <- 1, MaxEpoch <- 1, MaxRev <- 0, MaxNotes <- 4, InboxSize <- 1,
    conn <- linked, epoch <- linkEpoch, native <- served, task <- reader, subs <- streams

\* Two inputs of one Thread and a native client of it, polled and subscribed to.
Polling == INSTANCE T3Application WITH
    Threads <- {"t1"}, Inputs <- {"p1", "p2"}, Subscribers <- {"s1"},
    ThreadOf <- [x \in {"p1", "p2", "s1"} |-> "t1"], Presenter <- FALSE,
    BaselineCapacity <- 2, LockCapacity <- 1, SeenCapacity <- 9, TerminalCapacity <- 4,
    MaxPending <- 2, Window <- 1, MaxSeen <- 2, MaxItems <- 1, MaxForeign <- 1, MaxEvents <- 9,
    MaxSubscribes <- 1, native <- threads

\* Activities with a presenter, more than a snapshot shows.
Activities == INSTANCE T3Application WITH
    Threads <- {"t1"}, Inputs <- {}, Subscribers <- {"s1"},
    ThreadOf <- [x \in {"s1"} |-> "t1"], Presenter <- TRUE,
    BaselineCapacity <- 2, LockCapacity <- 1, SeenCapacity <- 9, TerminalCapacity <- 4,
    MaxPending <- 3, Window <- 2, MaxSeen <- 1, MaxItems <- 3, MaxForeign <- 1, MaxEvents <- 9,
    MaxSubscribes <- 2, native <- threads

\* Two Threads in tables of one.
Capacity == INSTANCE T3Application WITH
    Threads <- {"t1", "t2"}, Inputs <- {"p1", "p2", "p3"}, Subscribers <- {"s1"},
    ThreadOf <- [p1 |-> "t1", p2 |-> "t1", p3 |-> "t2", s1 |-> "t1"], Presenter <- FALSE,
    BaselineCapacity <- 1, LockCapacity <- 1, SeenCapacity <- 1, TerminalCapacity <- 4,
    MaxPending <- 2, Window <- 1, MaxSeen <- 2, MaxItems <- 0, MaxForeign <- 0, MaxEvents <- 9,
    MaxSubscribes <- 1, native <- threads

\* Two Threads of native clients, in windows of one identity.
Replay == INSTANCE T3Application WITH
    Threads <- {"t1", "t2"}, Inputs <- {}, Subscribers <- {"s1", "s2"},
    ThreadOf <- [s1 |-> "t1", s2 |-> "t2"], Presenter <- FALSE,
    BaselineCapacity <- 1, LockCapacity <- 1, SeenCapacity <- 1, TerminalCapacity <- 1,
    MaxPending <- 2, Window <- 1, MaxSeen <- 2, MaxItems <- 1, MaxForeign <- 1, MaxEvents <- 2,
    MaxSubscribes <- 1, native <- threads

ASSUME AdaptersAssumption ==
    /\ TransactionAssumption /\ PollingAssumption /\ Weixin!PollingAssumption
    /\ Spool!MediaAssumption /\ Orphans!MediaAssumption /\ Message!MediaAssumption
    /\ Input!ClientAssumption /\ Resume!ClientAssumption /\ Close!ClientAssumption
    /\ Races!RequestsAssumption /\ Shapes!RequestsAssumption /\ Cache!RequestsAssumption
    /\ Created!ThreadsAssumption /\ Touched!ThreadsAssumption
    /\ Recreated!ThreadsAssumption /\ Queueing!ThreadsAssumption /\ Stream!ThreadsAssumption
    /\ Polling!T3Assumption /\ Activities!T3Assumption /\ Capacity!T3Assumption
    /\ Replay!T3Assumption

-----------------------------------------------------------------------------
AdaptersInit ==
    /\ part \in Parts
    /\ Init
    /\ CASE part = "quota" -> Spool!Init
         [] part = "message" -> Message!Init
         [] OTHER -> Orphans!Init
    /\ CASE part = "resume" -> Resume!Init
         [] part = "close" -> Close!Init
         [] OTHER -> Input!Init
    /\ CASE part = "cache" -> Cache!Init
         [] part = "shapes" -> Shapes!Init
         [] OTHER -> Races!Init
    /\ CASE part = "touched" -> Touched!Init
         [] part = "recreated" -> Recreated!Init
         [] part = "queueing" -> Queueing!Init
         [] part = "stream" -> Stream!Init
         [] OTHER -> Created!Init
    /\ CASE part = "activities" -> Activities!Init
         [] part = "capacity" -> Capacity!Init
         [] part = "replay" -> Replay!Init
         [] OTHER -> Polling!Init

ChannelStep ==
    \/ /\ \/ part = "telegram" /\ Next
          \/ part = "weixin" /\ Weixin!Next
       /\ UNCHANGED mediaVars
    \/ /\ \/ part = "quota" /\ Spool!Next
          \/ part = "orphans" /\ Orphans!Next
          \/ part = "message" /\ Message!Next
       /\ UNCHANGED vars

ApplicationStep ==
    \/ /\ \/ part = "input" /\ Input!Next
          \/ part = "resume" /\ Resume!Next
          \/ part = "close" /\ Close!Next
       /\ UNCHANGED <<requestVars, threadVars, t3Vars>>
    \/ /\ \/ part = "races" /\ Races!Next
          \/ part = "cache" /\ Cache!Next
          \/ part = "shapes" /\ Shapes!Next
       /\ UNCHANGED <<clientVars, threadVars, t3Vars>>
    \/ /\ \/ part = "created" /\ Created!Next
          \/ part = "touched" /\ Touched!Next
          \/ part = "recreated" /\ Recreated!Next
          \/ part = "queueing" /\ Queueing!Next
          \/ part = "stream" /\ Stream!Next
       /\ UNCHANGED <<clientVars, requestVars, t3Vars>>
    \/ /\ \/ part = "polling" /\ Polling!Next
          \/ part = "activities" /\ Activities!Next
          \/ part = "capacity" /\ Capacity!Next
          \/ part = "replay" /\ Replay!Next
       /\ UNCHANGED <<clientVars, requestVars, threadVars>>

AdaptersNext ==
    /\ \/ ChannelStep /\ UNCHANGED applicationVars
       \/ ApplicationStep /\ UNCHANGED channelVars
    /\ UNCHANGED part

AdaptersSpec == AdaptersInit /\ [][AdaptersNext]_adapterVars

-----------------------------------------------------------------------------
(* Media: the spool never holds more than its quota, what a message was    *)
(* given stays there, no file stays staged that neither a call, a worker   *)
(* nor a sweep will remove, and a stop that succeeds leaves no worker.     *)
SpoolIsBounded ==
    /\ part = "quota" => Spool!QuotaHolds /\ Spool!StagedStays
    /\ part = "orphans" =>
         /\ Orphans!TypeOK /\ Orphans!NoOrphanStaged
         /\ Orphans!WorkerIsOwned /\ Orphans!StopLeavesNone
    /\ part = "message" => Message!NoOrphanStaged /\ Message!StagedStays

(* The client: a caller is told "not sent" only of what the target never   *)
(* executed, readiness is of the current connection, a lost connection is  *)
(* reported, resumed subscriptions come before what waits for them, and a  *)
(* closed client holds nothing open.  Its Threads: the evidence that one   *)
(* is new lets one input start without a look at its Turns, and answers no *)
(* baseline after that; a subscriber is given all events or a gap.         *)
ClientIsHonest ==
    /\ part = "input" =>
         Input!TypeOK /\ Input!OutcomeIsHonest /\ Input!ReadyIsCurrent /\ Input!LossIsReported
    /\ part = "resume" => Resume!ResumeBarrier
    /\ part = "close" =>
         /\ Close!ClosedMeansClosed /\ Close!OutcomeIsHonest
         /\ Close!ReadyIsCurrent /\ Close!LossIsReported
    /\ part = "created" =>
         /\ Created!TypeOK /\ Created!EvidenceIsUsedOnce /\ Created!EmptyBaselineIsFresh
    /\ part = "touched" => Touched!EvidenceIsUsedOnce /\ Touched!NoShownTurnIsMissed
    /\ part = "recreated" => Recreated!EvidenceIsUsedOnce /\ Recreated!NoShownTurnIsMissed
    /\ part = "queueing" => Queueing!EvidenceIsUsedOnce /\ Queueing!StreamIsWhole
    /\ part = "stream" => Stream!TypeOK /\ Stream!StreamIsWhole /\ Stream!ShownOnce

(* A native request is answered once, on the connection it came on, and    *)
(* its opening is published before its end.                                *)
RequestsAnsweredOnce ==
    /\ part = "races" =>
         /\ Races!TypeOK /\ Races!AnsweredOnceOnItsConnection /\ Races!NothingForgotten
         /\ Races!NoHandleSurvivesReset /\ Races!OpenedComesFirst
    /\ part = "cache" => Cache!AnsweredOnceOnItsConnection /\ Cache!NothingForgotten
    /\ part = "shapes" => Shapes!AnsweredOnceOnItsConnection /\ Shapes!NothingForgotten

(* The T3 adapter: live items come in native order and once while the      *)
(* windows of identities hold them, none is dropped or skipped without a   *)
(* gap, an input is answered with its own Turn unless a native client's    *)
(* came in between, and the bounded tables keep what is in use.            *)
T3KeepsItems ==
    /\ part = "polling" => Polling!LiveOrder /\ Polling!NothingIsDropped /\ Polling!AcceptedIsOwnTurn
    /\ part = "activities" => Activities!LiveOrder /\ Activities!NoActivityIsSkipped
    /\ part = "capacity" => Capacity!ActiveAuthorityIsKept /\ Capacity!LockUsersAreCounted
    /\ part = "replay" => Replay!LiveOrder /\ Replay!NothingIsDropped
=============================================================================

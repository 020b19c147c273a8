--------------------------- MODULE AppServerClient ---------------------------
(***************************************************************************)
(* The App Server JSON-RPC client                                          *)
(* (src/imagent/applications/adapters/appserver/client/client.py): one     *)
(* connection at a time, identified by its epoch, that is opened under the *)
(* connect lock, greeted under the initialize lock, reset by one shielded  *)
(* cleanup task, restored by a background reconnect task and closed once.  *)
(*                                                                         *)
(* Callers are tasks of one event loop: an action is the code between two  *)
(* awaits.  Every caller makes one call of the client:                     *)
(*   "call"    a plain request,                                            *)
(*   "input"   turn/start or turn/steer, whose outcome after dispatch is   *)
(*             unknown unless the answer proves it,                        *)
(*   "queue"   zen/turn/send, never retried and bound to the epoch its     *)
(*             capability was read on,                                     *)
(*   "resume"  thread/resume, owned by a task that outlives its caller.    *)
(* A transport is named by the epoch it was opened with; 0 is None.        *)
(***************************************************************************)
EXTENDS Naturals, FiniteSets

CONSTANTS
    Callers,      \* the tasks that call the client
    Kind(_),      \* what each of them calls
    Attempts,     \* RetryBackoff.attempts of overloaded requests
    Persistent,   \* supervisor.supports_background_reconnect
    MayCancel,    \* the callers that may be cancelled
    MayClose,     \* whether close() is called
    StopMayFail,  \* whether the child process may survive kill
    MaxEpoch      \* bound: connections the target accepts

ClientAssumption ==
    /\ \A t \in Callers : Kind(t) \in {"call", "input", "queue", "resume"}
    /\ Attempts \in Nat \ {0}
    /\ MaxEpoch \in Nat \ {0}
    /\ {Persistent, MayClose, StopMayFail} \subseteq BOOLEAN
    /\ MayCancel \subseteq Callers
    /\ "reconnect" \notin Callers

Tasks == Callers \cup {"reconnect"}
KindOf(t) == IF t \in Callers THEN Kind(t) ELSE "call"
Epochs == 1..MaxEpoch

\* The callers whose request is an input to a Thread.
Inputs == {t \in Callers : Kind(t) \in {"input", "queue"}}

\* What the native side answers; "ok" executed it, "overload" and "rejected" prove it
\* did not, an error and a malformed answer prove nothing.
Answers == {"ok", "overload", "rejected", "error", "malformed"}

VARIABLES
    epoch, transport,   \* connection_epoch, _transport
    handles,            \* transports opened and not yet closed by this side
    listener,           \* _listener_task: "none" or "run"
    proto, ready,       \* _protocol_initialized, initialized
    hasBeenReady, closing, closer,
    reset,              \* _resetting and the stage of _reset_connection_impl
    connLock, initLock, resumeLock,
    task,               \* what each task is doing
    fut,                \* _pending_futures, by the task that waits for it
    peer,               \* the native end of each transport
    asked, answers,     \* requests the native side holds, answers on the wire
    greeted, executed,  \* connections greeted; how often each input took effect
    reported            \* epochs whose loss reached the reset handlers

conn   == <<epoch, transport, handles, listener, proto, ready, hasBeenReady>>
locks  == <<connLock, initLock, resumeLock>>
native == <<asked, answers, greeted, executed>>
vars   == <<conn, peer, locks, native, closing, closer, reset, task, fut, reported>>

NoTask == "none"
Idle == [stage |-> "no", epoch |-> 0, notify |-> FALSE, again |-> FALSE, failed |-> FALSE]
Fresh == [pc |-> "idle", why |-> "ready", ep |-> 0, want |-> 0, att |-> 0,
          out |-> "none"]
NoFuture == [ep |-> 0, n |-> 0, st |-> "none"]

Init ==
    /\ epoch = 0 /\ transport = 0 /\ handles = {} /\ listener = "none"
    /\ proto = FALSE /\ ready = FALSE /\ hasBeenReady = FALSE
    /\ closing = FALSE /\ closer = "open" /\ reset = Idle
    /\ connLock = NoTask /\ initLock = NoTask /\ resumeLock = NoTask
    /\ task = [t \in Tasks |-> Fresh]
    /\ fut = [t \in Tasks |-> NoFuture]
    /\ peer = [e \in Epochs |-> "none"]
    /\ asked = {} /\ answers = {} /\ greeted = {}
    /\ executed = [t \in Inputs |-> 0]
    /\ reported = {}

-----------------------------------------------------------------------------
(* Pieces of a step.                                                       *)

Resetting == reset.stage # "no"

\* _reset_connection, up to its first await: the first to need it starts the cleanup.
StartReset(notify) ==
    reset' = IF Resetting THEN reset
             ELSE [stage |-> "stop", epoch |-> epoch, notify |-> notify,
                   again |-> /\ notify /\ hasBeenReady /\ epoch > 0
                             /\ Persistent /\ ~closing,
                   failed |-> FALSE]

\* The call of t ends with outcome o; the locks it holds are released on the way out.
\* The background reconnect task instead goes round its loop, or ends if it is done.
End(t, o) ==
    /\ task' = [task EXCEPT ![t] =
          IF t = "reconnect"
          THEN [Fresh EXCEPT !.pc = IF o \in {"ok", "cancelled"} \/ closing
                                    THEN "idle" ELSE "sleep"]
          ELSE [@ EXCEPT !.pc = "done",
                         !.out = IF @ = "none" THEN o ELSE @]]
    /\ initLock' = IF initLock = t THEN NoTask ELSE initLock
    /\ connLock' = IF connLock = t THEN NoTask ELSE connLock
    /\ resumeLock' = IF resumeLock = t THEN NoTask ELSE resumeLock

\* An exception of t that came up on transport e: if that is still the connection it is
\* reset first, and t waits for the cleanup before it raises.
FailOn(t, e, o) ==
    IF transport = e /\ e # 0
    THEN /\ StartReset(TRUE)
         /\ task' = [task EXCEPT ![t].pc = "fail",
                                 ![t].out = IF @ = "none" THEN o ELSE @]
         /\ UNCHANGED locks
    ELSE End(t, o) /\ UNCHANGED reset

\* What a background reconnect does with a failure: reset what is left of the connection.
Raise(t, o) ==
    IF t = "reconnect" /\ o # "cancelled" /\ transport # 0
    THEN /\ StartReset(TRUE)
         /\ task' = [task EXCEPT ![t].pc = "fail"]
         /\ initLock' = IF initLock = t THEN NoTask ELSE initLock
         /\ connLock' = IF connLock = t THEN NoTask ELSE connLock
         /\ UNCHANGED resumeLock
    ELSE End(t, o) /\ UNCHANGED reset

\* _request_once_without_initialize: a fresh id, a pending future, the payload sent.
\* n is 0 for "initialize" and the attempt otherwise.  A peer that is gone gets nothing.
Send(t, n, e) ==
    /\ fut' = [fut EXCEPT ![t] = [ep |-> e, n |-> n, st |-> "open"]]
    /\ asked' = IF peer[e] = "down" THEN asked
                ELSE asked \cup {[t |-> t, ep |-> e, n |-> n]}
    /\ UNCHANGED <<answers, greeted, executed>>

\* The request of t itself, sent on the connection there is.
Request(t, e) ==
    /\ task' = [task EXCEPT ![t].pc = "wait", ![t].why = "req",
                            ![t].ep = e, ![t].att = 1]
    /\ Send(t, 1, e)

\* The locks t holds while it becomes ready are released before its request is sent.
LeaveReady(t) ==
    /\ initLock' = IF initLock = t THEN NoTask ELSE initLock
    /\ connLock' = IF connLock = t THEN NoTask ELSE connLock
    /\ UNCHANGED resumeLock

\* _ensure_ready returned to t.  The background reconnect is done; thread/resume goes for
\* its barrier with the connection it saw; queue input only fits the epoch its capability
\* was read on and, like no other request, does not look at the connection again.
IsReady(t, e) ==
    IF t = "reconnect"
    THEN End(t, "ok") /\ UNCHANGED <<native, fut>>
    ELSE /\ LeaveReady(t)
         /\ CASE \/ e = 0
                 \/ KindOf(t) = "queue" /\ task[t].want # e ->
                  /\ task' = [task EXCEPT ![t].pc = "done", ![t].out = "notsent"]
                  /\ UNCHANGED <<native, fut>>
              [] e # 0 /\ KindOf(t) = "resume" ->
                  /\ task' = [task EXCEPT ![t].pc = "resume", ![t].want = e]
                  /\ UNCHANGED <<native, fut>>
              [] OTHER -> Request(t, e)

\* initialize, under its lock with a connection at hand: greet it, or go straight to the
\* ready handlers when this connection has been greeted before.
Greet(t, e, greetedBefore) ==
    /\ initLock' = t
    /\ connLock' = IF connLock = t THEN NoTask ELSE connLock
    /\ UNCHANGED resumeLock
    /\ task' = [task EXCEPT ![t].pc = IF greetedBefore THEN "hand" ELSE "wait",
                            ![t].why = "init", ![t].ep = e]
    /\ IF greetedBefore THEN UNCHANGED <<native, fut>> ELSE Send(t, 0, e)

\* _ensure_connected returned to t with connection e, whose flags are pr and rd.
Connected(t, e, pr, rd) ==
    CASE task[t].why = "ready" /\ rd -> IsReady(t, e)
      [] task[t].why = "ready" /\ ~rd ->
           IF initLock = NoTask THEN Greet(t, e, pr)
           ELSE /\ task' = [task EXCEPT ![t].pc = "init"]
                /\ connLock' = IF connLock = t THEN NoTask ELSE connLock
                /\ UNCHANGED <<initLock, resumeLock, native, fut>>
      [] task[t].why = "init"  -> Greet(t, e, pr)
      [] task[t].why = "req"   -> LeaveReady(t) /\ Request(t, e)
      [] task[t].why = "owned" ->
           IF task[t].want = e THEN LeaveReady(t) /\ Request(t, e)
           ELSE End(t, "notsent") /\ UNCHANGED <<native, fut>>

-----------------------------------------------------------------------------
(* Becoming connected.                                                     *)

\* A caller calls the client.  Queue input brings the epoch its capability was read on.
Call(t) ==
    /\ t \in Callers /\ task[t].pc = "idle"
    /\ task' = [task EXCEPT ![t].pc = "conn", ![t].want = epoch]
    /\ UNCHANGED <<conn, peer, locks, native, closing, closer, reset, fut, reported>>

\* _ensure_connected: a closed client refuses.
ConnClosed(t) ==
    /\ task[t].pc = "conn" /\ closing
    /\ Raise(t, "notsent")
    /\ UNCHANGED <<conn, peer, native, closing, closer, fut, reported>>

\* ... a transport whose end is seen to be closed is reset, and the loop goes round.
ConnReset(t) ==
    /\ task[t].pc = "conn" /\ ~closing /\ ~Resetting
    /\ transport # 0 /\ peer[transport] = "down"
    /\ StartReset(TRUE)
    /\ UNCHANGED <<conn, peer, locks, native, closing, closer, task, fut, reported>>

\* ... a live transport is used, ...
ConnReturn(t) ==
    /\ task[t].pc = "conn" /\ ~closing /\ ~Resetting /\ transport # 0
    /\ Connected(t, transport, proto, ready)
    /\ UNCHANGED <<conn, peer, closing, closer, reset, reported>>

\* ... and without one the task goes for the connect lock, ...
ConnLock(t) ==
    /\ task[t].pc = "conn" /\ ~closing /\ ~Resetting /\ transport = 0
    /\ task' = [task EXCEPT ![t].pc = IF connLock = NoTask THEN "open" ELSE "lock"]
    /\ connLock' = IF connLock = NoTask THEN t ELSE connLock
    /\ UNCHANGED <<conn, peer, initLock, resumeLock, native, closing, closer, reset, fut,
                   reported>>

\* ... under which it looks again once any reset is over.
LockedLook(t) ==
    /\ task[t].pc = "lock"
    /\ connLock \in (IF Resetting THEN {NoTask} ELSE {NoTask, t})
    /\ IF Resetting
       THEN /\ connLock' = t
            /\ UNCHANGED <<task, initLock, resumeLock, reset, native, fut>>
       ELSE IF closing
       THEN Raise(t, "notsent") /\ UNCHANGED <<native, fut>>
       ELSE IF transport = 0
       THEN /\ connLock' = t
            /\ task' = [task EXCEPT ![t].pc = "open"]
            /\ UNCHANGED <<initLock, resumeLock, reset, native, fut>>
       ELSE \/ /\ peer[transport] = "down"
               /\ connLock' = IF connLock = t THEN NoTask ELSE connLock
               /\ task' = [task EXCEPT ![t].pc = "conn"]
               /\ UNCHANGED <<initLock, resumeLock, reset, native, fut>>
            \/ Connected(t, transport, proto, ready) /\ UNCHANGED reset
    /\ UNCHANGED <<conn, peer, closing, closer, reported>>

\* _open_connection: the target does not answer, ...
OpenFails(t) ==
    /\ task[t].pc = "open"
    /\ Raise(t, "notsent")
    /\ UNCHANGED <<conn, peer, native, closing, closer, fut, reported>>

\* ... or it does; a client closed meanwhile drops the new connection at once.
OpenSucceeds(t) ==
    /\ task[t].pc = "open" /\ epoch < MaxEpoch
    /\ IF closing
       THEN Raise(t, "notsent") /\ UNCHANGED <<conn, peer, native, fut>>
       ELSE /\ epoch' = epoch + 1 /\ transport' = epoch + 1
            /\ handles' = handles \cup {epoch + 1}
            /\ peer' = [peer EXCEPT ![epoch + 1] = "up"]
            /\ listener' = "run" /\ proto' = FALSE /\ ready' = FALSE
            /\ UNCHANGED hasBeenReady
            /\ Connected(t, epoch + 1, FALSE, FALSE)
            /\ UNCHANGED reset
    /\ UNCHANGED <<closing, closer, reported>>

-----------------------------------------------------------------------------
(* Becoming ready.                                                         *)

\* _require_initializing_connection.
StillInitializing(t) == ~closing /\ ~Resetting /\ transport = task[t].ep

\* The initialize lock is free for a task that waited for it: another task may have made
\* the connection ready, and then this one only returns what it learnt.
InitLockWakes(t) ==
    /\ task[t].pc = "init" /\ initLock = NoTask
    /\ IF closing THEN Raise(t, "notsent") /\ UNCHANGED <<native, fut>>
       ELSE /\ UNCHANGED reset
            /\ IF ~ready
               THEN /\ initLock' = t
                    /\ task' = [task EXCEPT ![t].pc = "conn", ![t].why = "init"]
                    /\ UNCHANGED <<connLock, resumeLock, native, fut>>
               ELSE IF KindOf(t) \in {"call", "input"} /\ t # "reconnect"
               THEN /\ task' = [task EXCEPT ![t].pc = "conn", ![t].why = "req"]
                    /\ UNCHANGED <<locks, native, fut>>
               ELSE IsReady(t, transport)
    /\ UNCHANGED <<conn, peer, closing, closer, reported>>

\* The answer to "initialize": a refusal resets the connection, and so does an answer that
\* comes back to a connection being replaced, if there is still something to reset.
Greeted(t) ==
    /\ task[t].pc = "wait" /\ task[t].why = "init"
    /\ fut[t].st \in Answers
    /\ fut' = [fut EXCEPT ![t] = NoFuture]
    /\ IF fut[t].st = "ok" /\ StillInitializing(t)
       THEN /\ proto' = TRUE
            /\ task' = [task EXCEPT ![t].pc = "hand"]
            /\ UNCHANGED <<locks, reset>>
       ELSE FailOn(t, task[t].ep, "notsent") /\ UNCHANGED proto
    /\ UNCHANGED <<epoch, transport, handles, listener, ready, hasBeenReady, peer,
                   native, closing, closer, reported>>

\* The shared filesystem was verified and every ready handler ran on this connection.
HandlersDone(t) ==
    /\ task[t].pc = "hand"
    /\ IF StillInitializing(t) /\ proto
       THEN /\ ready' = TRUE /\ hasBeenReady' = TRUE
            /\ \/ IsReady(t, transport)
               \/ /\ peer[transport] = "down" /\ KindOf(t) \in {"call", "input"}
                  /\ t # "reconnect"
                  /\ task' = [task EXCEPT ![t].pc = "conn", ![t].why = "req"]
                  /\ LeaveReady(t) /\ UNCHANGED <<native, fut>>
            /\ UNCHANGED reset
       ELSE /\ ready' = FALSE
            /\ Raise(t, "notsent")
            /\ UNCHANGED <<hasBeenReady, native, fut>>
    /\ UNCHANGED <<epoch, transport, handles, listener, proto, peer, closing, closer,
                   reported>>

\* A ready handler failed: the connection stays greeted, and is not ready.
HandlersFail(t) ==
    /\ task[t].pc = "hand"
    /\ ready' = FALSE
    /\ Raise(t, "notsent")
    /\ UNCHANGED <<epoch, transport, handles, listener, proto, hasBeenReady, peer,
                   native, closing, closer, fut, reported>>

-----------------------------------------------------------------------------
(* One request and its outcome.                                            *)

\* Mutant: a dispatched queue input without an answer is taken for never sent.
LostMeansNotSent(t) ==
    CASE KindOf(t) = "queue" -> "notsent" [] KindOf(t) = "input" -> "unknown"
      [] OTHER -> "error"

\* What losing the answer of a dispatched request means to its caller.
LostOutcome(t) == IF t \in Inputs THEN "unknown" ELSE "error"

\* What an answer means to its caller once it is not retried.
AnswerOutcome(t, ans) ==
    CASE ans = "ok" -> "ok"
      [] ans = "malformed" -> LostOutcome(t)
      [] ans = "rejected" /\ KindOf(t) = "input" -> "rejected"
      [] ans # "ok" /\ KindOf(t) = "queue" -> "unknown"
      [] OTHER -> "error"

\* Only an explicit overload is tried again, and never a queue input.
Retries(t, ans) == ans = "overload" /\ KindOf(t) # "queue" /\ task[t].att < Attempts

\* The answer of the request arrived: the call ends, or sleeps before the next attempt.
Answered(t) ==
    /\ task[t].pc = "wait" /\ task[t].why = "req"
    /\ fut[t].st \in Answers
    /\ fut' = [fut EXCEPT ![t] = NoFuture]
    /\ IF Retries(t, fut[t].st)
       THEN task' = [task EXCEPT ![t].pc = "sleep"] /\ UNCHANGED locks
       ELSE End(t, AnswerOutcome(t, fut[t].st))
    /\ UNCHANGED <<conn, peer, native, closing, closer, reset, reported>>

\* The next attempt, cancelled when the connection changed during the sleep.
Retry(t) ==
    /\ t \in Callers /\ task[t].pc = "sleep"
    /\ IF transport = task[t].ep
       THEN /\ task' = [task EXCEPT ![t].pc = "wait", ![t].att = @ + 1]
            /\ Send(t, task[t].att + 1, transport)
            /\ UNCHANGED locks
       ELSE End(t, "notsent") /\ UNCHANGED <<native, fut>>
    /\ UNCHANGED <<conn, peer, closing, closer, reset, reported>>

\* The request timed out, or its future was failed with the connection.
Lost(t) ==
    /\ task[t].pc = "wait"
    /\ fut[t].st \in {"open", "failed"}
    /\ fut' = [fut EXCEPT ![t] = NoFuture]
    /\ FailOn(t, fut[t].ep, IF task[t].why = "req" THEN LostOutcome(t) ELSE "notsent")
    /\ UNCHANGED <<conn, peer, native, closing, closer, reported>>

\* The cleanup that an exception waited for is over.
Raised(t) ==
    /\ task[t].pc = "fail" /\ ~Resetting
    /\ Raise(t, task[t].out)
    /\ UNCHANGED <<conn, peer, native, closing, closer, fut, reported>>

\* thread/resume has the barrier of its Thread: the connection it saw must still be there.
ResumeOwned(t) ==
    /\ task[t].pc = "resume" /\ resumeLock = NoTask
    /\ IF closing \/ Resetting \/ transport # task[t].want
       THEN End(t, "notsent")
       ELSE /\ resumeLock' = t
            /\ task' = [task EXCEPT ![t].pc = "owned"]
            /\ UNCHANGED <<connLock, initLock>>
    /\ UNCHANGED <<conn, peer, native, closing, closer, reset, fut, reported>>

\* Its owner task starts, and checks the connection once more.
ResumeInvoked(t) ==
    /\ task[t].pc = "owned"
    /\ IF closing \/ Resetting \/ transport # task[t].want
       THEN End(t, "notsent")
       ELSE /\ task' = [task EXCEPT ![t].pc = "conn", ![t].why = "owned"]
            /\ UNCHANGED locks
    /\ UNCHANGED <<conn, peer, native, closing, closer, reset, fut, reported>>

\* The caller is cancelled.  A resume already owned goes on without it; an initializer
\* resets the connection it was greeting; a dispatched input has an unknown outcome.
Cancel(t) ==
    /\ t \in MayCancel /\ task[t].out = "none"
    /\ LET owned == resumeLock = t
           greeting == task[t].pc = "hand" \/ (task[t].pc = "wait" /\ task[t].why = "init")
       IN
       CASE owned ->
              /\ task' = [task EXCEPT ![t].out = "cancelled"]
              /\ UNCHANGED <<locks, reset, fut, ready>>
         [] ~owned /\ greeting ->
              /\ ready' = IF task[t].pc = "hand" THEN FALSE ELSE ready
              /\ fut' = [fut EXCEPT ![t] = NoFuture]
              /\ FailOn(t, task[t].ep, "cancelled")
         [] ~owned /\ task[t].pc = "wait" /\ task[t].why = "req" ->
              /\ fut' = [fut EXCEPT ![t] = NoFuture]
              /\ End(t, IF LostOutcome(t) = "unknown" THEN "unknown" ELSE "cancelled")
              /\ UNCHANGED <<reset, ready>>
         [] ~owned /\ task[t].pc \in {"conn", "lock", "open", "init", "resume", "sleep"} ->
              End(t, "cancelled") /\ UNCHANGED <<reset, fut, ready>>
         [] OTHER -> FALSE
    /\ UNCHANGED <<epoch, transport, handles, listener, proto, hasBeenReady, peer, native,
                   closing, closer, reported>>

-----------------------------------------------------------------------------
(* The listener, the reset, the reconnect task and close.                  *)

FailPending(e) ==
    [t \in Tasks |-> IF fut[t].ep = e /\ fut[t].st = "open"
                     THEN [fut[t] EXCEPT !.st = "failed"] ELSE fut[t]]

\* _receive_loop takes an answer off its connection and _dispatch_response completes the
\* future with that id; an answer nobody waits for any more is dropped.
Receive(a) ==
    /\ listener = "run" /\ transport = epoch
    /\ a \in answers /\ a.ep = epoch
    /\ answers' = answers \ {a}
    /\ fut' = [t \in Tasks |->
                 IF a.t = t /\ fut[t].ep = a.ep /\ fut[t].n = a.n /\ fut[t].st = "open"
                 THEN [fut[t] EXCEPT !.st = a.ans] ELSE fut[t]]
    /\ UNCHANGED <<conn, peer, locks, asked, greeted, executed, closing, closer, reset,
                   task, reported>>

\* The receive loop meets an error: it fails what waits on this connection and resets it.
ListenerFails ==
    /\ listener = "run" /\ transport = epoch /\ peer[epoch] = "down"
    /\ listener' = "none"
    /\ fut' = FailPending(epoch)
    /\ proto' = FALSE /\ ready' = FALSE
    /\ StartReset(TRUE)
    /\ UNCHANGED <<epoch, transport, handles, hasBeenReady, peer, locks, native, closing,
                   closer, task, reported>>

\* _reset_connection_impl: the tasks of the connection are stopped, and then the transport
\* is taken away, ...
ResetStop ==
    /\ reset.stage = "stop"
    /\ reset' = [reset EXCEPT !.stage = "close"]
    /\ listener' = "none" /\ transport' = 0
    /\ UNCHANGED <<epoch, handles, proto, ready, hasBeenReady, peer, locks, native,
                   closing, closer, task, fut, reported>>

\* ... closed, what waits on it failed and its state cleared (what is on the wire is gone,
\* except that the native side may still act on an input it received), ...
ResetClose ==
    /\ reset.stage = "close"
    /\ reset' = [reset EXCEPT !.stage = "child"]
    /\ handles' = handles \ {reset.epoch}
    /\ fut' = FailPending(reset.epoch)
    /\ proto' = FALSE /\ ready' = FALSE
    /\ asked' = {m \in asked : m.ep # reset.epoch \/ m.t \in Inputs}
    /\ answers' = {a \in answers : a.ep # reset.epoch}
    /\ UNCHANGED <<epoch, transport, listener, hasBeenReady, peer, locks, greeted,
                   executed, closing, closer, task, reported>>

\* ... the child process stopped (a child that survives kill ends the cleanup here, which
\* "failed" remembers until the next one) ...
ResetChild ==
    /\ reset.stage = "child"
    /\ \/ reset' = [reset EXCEPT !.stage = "notify"]
       \/ StopMayFail /\ reset' = [Idle EXCEPT !.failed = TRUE]
    /\ UNCHANGED <<conn, peer, locks, native, closing, closer, task, fut, reported>>

\* ... and the reset handlers told; a target that outlives the connection is dialled again.
ResetNotify ==
    /\ reset.stage = "notify"
    /\ reset' = Idle
    /\ reported' = IF reset.notify /\ reset.epoch > 0 THEN reported \cup {reset.epoch}
                   ELSE reported
    /\ task' = IF reset.again /\ ~closing /\ task["reconnect"].pc = "idle"
               THEN [task EXCEPT !["reconnect"].pc = "conn"] ELSE task
    /\ UNCHANGED <<conn, peer, locks, native, closing, closer, fut>>

\* _background_reconnect_loop: the next attempt after the delay.
ReconnectAgain ==
    /\ task["reconnect"].pc = "sleep"
    /\ task' = [task EXCEPT !["reconnect"] =
                  IF closing THEN Fresh ELSE [Fresh EXCEPT !.pc = "conn"]]
    /\ UNCHANGED <<conn, peer, locks, native, closing, closer, reset, fut, reported>>

\* close(): no call is admitted from here on, ...
Close ==
    /\ MayClose /\ ~closing
    /\ closing' = TRUE /\ closer' = "cancel"
    /\ UNCHANGED <<conn, peer, locks, native, reset, task, fut, reported>>

\* ... the reconnect task is cancelled (when it is greeting, the connection is reset with
\* it; when it waits for a reset, it waits to the end), ...
CloseCancels ==
    /\ closer = "cancel" /\ task["reconnect"].pc # "fail"
    /\ closer' = "cancelled"
    /\ LET r == task["reconnect"] IN
       IF r.pc \in {"wait", "hand"}
       THEN /\ FailOn("reconnect", r.ep, "cancelled")
            /\ ready' = IF r.pc = "hand" THEN FALSE ELSE ready
            /\ fut' = [fut EXCEPT !["reconnect"] = NoFuture]
       ELSE End("reconnect", "cancelled") /\ UNCHANGED <<reset, ready, fut>>
    /\ UNCHANGED <<epoch, transport, handles, listener, proto, hasBeenReady, peer, native,
                   closing, reported>>

\* ... then, with the connect lock held, the connection is reset without notice ...
CloseResets ==
    /\ closer = "cancelled" /\ task["reconnect"].pc = "idle" /\ connLock = NoTask
    /\ closer' = "reset"
    /\ connLock' = "closer"
    /\ StartReset(FALSE)
    /\ UNCHANGED <<conn, peer, initLock, resumeLock, native, closing, task, fut, reported>>

\* ... and every owned resume is joined.
CloseReturns ==
    /\ closer \in {"reset", "join"} /\ ~Resetting
    /\ connLock' = IF connLock = "closer" THEN NoTask ELSE connLock
    /\ closer' = IF resumeLock = NoTask THEN "done" ELSE "join"
    /\ UNCHANGED <<conn, peer, initLock, resumeLock, native, closing, reset, task, fut,
                   reported>>

-----------------------------------------------------------------------------
(* The native side (external): it answers what it received, and may vanish. *)

NativeAnswer(m, ans) ==
    /\ m \in asked /\ peer[m.ep] = "up" /\ m.ep \in handles
    /\ asked' = asked \ {m}
    /\ answers' = answers \cup {[t |-> m.t, ep |-> m.ep, n |-> m.n, ans |-> ans]}
    /\ IF m.n = 0
       THEN /\ ans = IF m.ep \in greeted THEN "error" ELSE "ok"
            /\ greeted' = greeted \cup {m.ep}
            /\ UNCHANGED executed
       ELSE /\ m.ep \notin greeted => ans = "error"
            /\ \E took \in {0, 1} :
                 /\ ans = "ok" => took = 1
                 /\ ans \in {"overload", "rejected"} \/ m.ep \notin greeted => took = 0
                 /\ executed' = [t \in Inputs |-> executed[t] + IF t = m.t THEN took ELSE 0]
            /\ UNCHANGED greeted
    /\ UNCHANGED <<conn, peer, locks, closing, closer, reset, task, fut, reported>>

\* An input takes effect and is never answered; the connection may be long gone.
NativeTakes(m) ==
    /\ m \in asked /\ m.n > 0 /\ m.t \in Inputs /\ m.ep \in greeted
    /\ asked' = asked \ {m}
    /\ executed' = [executed EXCEPT ![m.t] = @ + 1]
    /\ UNCHANGED <<conn, peer, locks, answers, greeted, closing, closer, reset, task, fut,
                   reported>>

PeerDown ==
    /\ transport # 0 /\ peer[transport] = "up"
    /\ peer' = [peer EXCEPT ![transport] = "down"]
    /\ UNCHANGED <<conn, locks, native, closing, closer, reset, task, fut, reported>>

TaskStep(t) ==
    \/ ConnClosed(t) \/ ConnReset(t) \/ ConnReturn(t) \/ ConnLock(t) \/ LockedLook(t)
    \/ OpenFails(t) \/ OpenSucceeds(t) \/ InitLockWakes(t) \/ Greeted(t)
    \/ HandlersDone(t) \/ HandlersFail(t) \/ Answered(t) \/ Retry(t) \/ Lost(t)
    \/ Raised(t) \/ ResumeOwned(t) \/ ResumeInvoked(t)

LoopStep ==
    \/ ListenerFails \/ ResetStop \/ ResetClose \/ ResetChild \/ ResetNotify
    \/ ReconnectAgain \/ CloseCancels \/ CloseResets \/ CloseReturns

Next ==
    \/ \E t \in Tasks : TaskStep(t)
    \/ LoopStep
    \/ \E t \in Callers : Call(t) \/ Cancel(t)
    \/ \E a \in answers : Receive(a)
    \/ Close
    \/ \E m \in asked : NativeTakes(m) \/ \E ans \in Answers : NativeAnswer(m, ans)
    \/ PeerDown

Spec == Init /\ [][Next]_vars

-----------------------------------------------------------------------------
(* Properties.                                                             *)

Outcomes == {"none", "ok", "error", "rejected", "unknown", "notsent", "cancelled"}

\* The types of the client's state.
TypeOK ==
    /\ epoch \in 0..MaxEpoch /\ transport \in {0, epoch}
    /\ handles \subseteq Epochs /\ listener \in {"none", "run"}
    /\ {proto, ready, hasBeenReady, closing} \subseteq BOOLEAN
    /\ reset \in [stage : {"no", "stop", "close", "child", "notify"},
                   epoch : 0..MaxEpoch, notify : BOOLEAN, again : BOOLEAN,
                   failed : BOOLEAN]
    /\ \A t \in Tasks :
         /\ task[t].pc \in {"idle", "conn", "lock", "open", "init", "hand", "wait", "sleep",
                            "fail", "resume", "owned", "done"}
         /\ task[t].why \in {"ready", "init", "req", "owned"}
         /\ task[t].out \in Outcomes
         /\ fut[t].st \in {"none", "open", "failed"} \cup Answers

\* Whatever is lost, reset, retried or cancelled, an input takes effect at most once, it did
\* take effect when its caller is told so, and it did not when its caller is told that it
\* was rejected or never sent (the outcome classes of _request_once_without_initialize and
\* _request_without_initialize_with_dispatch_position).
OutcomeIsHonest ==
    \A t \in Inputs :
        /\ executed[t] <= 1
        /\ task[t].out = "ok" => executed[t] = 1
        /\ task[t].out \in {"rejected", "notsent"} => executed[t] = 0

\* Between resets, a client that says it is initialized is so on the connection it has: an
\* initialize that raced a reset never marks the wrong connection ready.
ReadyIsCurrent ==
    ready /\ ~Resetting => transport = epoch /\ epoch \in greeted

\* A thread/resume is sent on the ready connection its caller saw or not at all, and one at
\* a time, whoever was cancelled meanwhile (_resume_codex_owned).
ResumeBarrier ==
    LET flying == {t \in Callers : /\ KindOf(t) = "resume"
                                   /\ task[t].pc = "wait" /\ task[t].why = "req"} IN
    /\ Cardinality(flying) <= 1
    /\ \A t \in flying : fut[t].ep = task[t].want /\ task[t].want \in greeted

\* Once close returned nothing is left: no transport open, none being opened, no reset, no
\* reconnect task and no resume that could still be answered.
ClosedMeansClosed ==
    closer = "done" =>
        /\ transport = 0 /\ handles = {} /\ ~Resetting /\ ~ready
        /\ task["reconnect"].pc = "idle" /\ resumeLock = NoTask
        /\ \A t \in Tasks : task[t].pc # "open"

\* At most the current connection is open, and the reset of every earlier one reached the
\* reset handlers ("is reported to the concrete adapter for an explicit observation gap",
\* client/design.md) before a new one was opened.
LossIsReported ==
    /\ Cardinality(handles) <= 1
    /\ \A e \in 1..(epoch - 1) : e \in reported

\* Every call of the client ends, with an answer or with an error.
EveryCallEnds ==
    \A t \in Callers : task[t].pc # "idle" ~> task[t].pc = "done"

\* close() returns.
CloseEnds == closing ~> closer = "done"

=============================================================================

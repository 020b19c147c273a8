---------------------------- MODULE MediaStaging ----------------------------
(***************************************************************************)
(* Inbound media on its way into the private spool (ingress_media.py). The *)
(* image and the file materializer of a Channel share one directory. A     *)
(* call of materialize takes the asyncio lock of its materializer, and     *)
(* lets child processes do what touches the disk: one checks the quota,    *)
(* one stages the batch after the download, one takes it back if that did  *)
(* not succeed. Children exclude each other by a file lock, which the      *)
(* system takes from a child that dies; the lock is released before the    *)
(* result is sent. A call has a deadline and can be cancelled at every     *)
(* await; a child that cannot be killed taints the materializer. A call of *)
(* prepare (Sweeps) runs the first child only. The files of a message are  *)
(* materialized after its images, and only if that went well (After).      *)
(***************************************************************************)
EXTENDS Integers, FiniteSets, Folds

CONSTANTS
    Calls,          \* calls of materialize and prepare
    Sweeps,         \* those of prepare, by start or by the cleanup task
    Materializers,  \* the materializers of the Channel
    Of,             \* [Calls -> Materializers]
    After,          \* [Calls -> the call that has to succeed before it, or NoCall]
    Size,           \* [Calls -> bytes of the batch]
    Cancellable,    \* calls that may be cancelled (bound)
    Slow,           \* calls that may reach their deadline (bound)
    Quota,          \* MEDIA_QUOTA_BYTES
    MaxCrashes      \* bound on children that die by themselves

NoCall == "none"

MediaAssumption ==
    /\ Sweeps \subseteq Calls
    /\ Cancellable \subseteq Calls /\ Slow \subseteq Calls
    /\ NoCall \notin Calls
    /\ Of \in [Calls -> Materializers]
    /\ After \in [Calls -> Calls \cup {NoCall}]
    /\ Size \in [Calls -> Nat]
    /\ Quota \in Nat
    /\ MaxCrashes \in Nat

Kinds == {"preflight", "stage", "cleanup"}
Children == Calls \X Kinds
NoChild == <<>>
Alive == {"waiting", "locked", "writing", "reporting"}

VARIABLES
    pc,        \* [Calls -> where the call is]
    kind,      \* [Calls -> the child it runs]
    pending,   \* [Calls -> how it ends once its child is dealt with]
    outcome,   \* [Calls -> how it ended]
    late,      \* [Calls -> the deadline of the call has fired]
    cancelled, \* [Calls -> its task was cancelled]
    spool,     \* [Materializers -> call that has _spool_lock]
    tainted,   \* [Materializers -> _tainted]
    stopped,   \* [Materializers -> whether stop has returned, and how]
    handle,    \* [Children -> the process handle; open is _active_processes]
    retained,  \* _retained_processes
    child,     \* [Children -> the process]
    signalled, \* children sent SIGTERM or SIGKILL
    answer,    \* [Children -> the result it sends before it exits]
    flock,     \* child that has the file lock
    files,     \* [Calls -> how much of the batch is in the spool]
    old,       \* calls whose files are past the retention
    crashes    \* crashes so far

loopVars == <<pc, kind, pending, outcome, late, cancelled, spool, tainted, stopped,
              handle, retained, signalled>>
childVars == <<child, answer, flock, files, old, crashes>>
vars == <<loopVars, childVars>>

TypeOK ==
    /\ pc \in [Calls -> {"idle", "lock", "run", "download", "terminate", "done"}]
    /\ kind \in [Calls -> Kinds]
    /\ pending \in [Calls -> {"none", "error", "deadline", "cancelled"}]
    /\ outcome \in [Calls -> {"none", "ok", "error", "cancelled"}]
    /\ late \in [Calls -> BOOLEAN] /\ cancelled \in [Calls -> BOOLEAN]
    /\ spool \in [Materializers -> Calls \cup {NoCall}]
    /\ tainted \in [Materializers -> BOOLEAN] /\ stopped \in [Materializers -> {"no", "ok", "failed"}]
    /\ handle \in [Children -> {"none", "open", "closed"}]
    /\ retained \subseteq Children /\ signalled \subseteq Children
    /\ child \in [Children -> Alive \cup {"none", "dead"}]
    /\ answer \in [Children -> {"none", "ok", "refused"}]
    /\ flock \in Children \cup {NoChild}
    /\ files \in [Calls -> {"absent", "partial", "all"}]
    /\ old \subseteq Calls
    /\ crashes \in 0..MaxCrashes

Init ==
    /\ pc = [c \in Calls |-> "idle"]
    /\ kind = [c \in Calls |-> "preflight"]
    /\ pending = [c \in Calls |-> "none"]
    /\ outcome = [c \in Calls |-> "none"]
    /\ late = [c \in Calls |-> FALSE]
    /\ cancelled = [c \in Calls |-> FALSE]
    /\ spool = [m \in Materializers |-> NoCall]
    /\ tainted = [m \in Materializers |-> FALSE]
    /\ stopped = [m \in Materializers |-> "no"]
    /\ handle = [p \in Children |-> "none"]
    /\ retained = {}
    /\ child = [p \in Children |-> "none"]
    /\ signalled = {}
    /\ answer = [p \in Children |-> "none"]
    /\ flock = NoChild
    /\ files = [c \in Calls |-> "absent"]
    /\ old = {}
    /\ crashes = 0

ChildOf(c) == <<c, kind[c]>>
Dead(p) == child[p] = "dead"

-----------------------------------------------------------------------------
(* The children. *)

Present == {c \in Calls : files[c] # "absent"}

(* What _prepare_and_sweep_path counts, once it has removed what is old. *)
Usage == MapThenFoldSet(LAMBDA x, y : x + y, 0, LAMBDA c : Size[c],
                        LAMBDA S : CHOOSE c \in S : TRUE, Present)

Sweep == [c \in Calls |-> IF c \in old THEN "absent" ELSE files[c]]

LockIsFree == flock = NoChild

(* A child gets the file lock; other than a cleanup it sweeps. *)
TakeFileLock(p) ==
    /\ child[p] = "waiting"
    /\ LockIsFree
    /\ flock' = p
    /\ child' = [child EXCEPT ![p] = "locked"]
    /\ files' = IF p[2] = "cleanup" THEN files ELSE Sweep
    /\ UNCHANGED <<answer, old, crashes, loopVars>>

(* The quota is checked again, under the lock the files are written under. *)
StageFits(c) == Usage + Size[c] <= Quota

(* The first files of the batch are in the spool. *)
WriteFiles(p) ==
    /\ child[p] = "locked"
    /\ p[2] = "stage"
    /\ StageFits(p[1])
    /\ child' = [child EXCEPT ![p] = "writing"]
    /\ files' = [files EXCEPT ![p[1]] = "partial"]
    /\ UNCHANGED <<answer, flock, old, crashes, loopVars>>

(* The child has its result and releases the lock. *)
Release(p, result) ==
    /\ child' = [child EXCEPT ![p] = "reporting"]
    /\ answer' = [answer EXCEPT ![p] = result]
    /\ flock' = NoChild
    /\ UNCHANGED <<old, crashes, loopVars>>

(* It sends the result and exits. *)
Report(p) ==
    /\ child[p] = "reporting"
    /\ child' = [child EXCEPT ![p] = "dead"]
    /\ UNCHANGED <<answer, flock, files, old, crashes, loopVars>>

(* There is room (prepare only wants no more than the quota), or there is none
   or the directory cannot be swept: too many entries, a link, an error. *)
PreflightDone(p) ==
    /\ child[p] = "locked"
    /\ p[2] = "preflight"
    /\ \/ /\ Usage < Quota \/ (p[1] \in Sweeps /\ Usage <= Quota)
          /\ Release(p, "ok")
       \/ Release(p, "refused")
    /\ UNCHANGED files

StageDone(p) ==
    /\ child[p] = "writing"
    /\ Release(p, "ok")
    /\ files' = [files EXCEPT ![p[1]] = "all"]

(* The quota, a file that is no image or an error of the disk: the child takes
   its files back, as far as it can. *)
StageRefused(p) ==
    /\ p[2] = "stage"
    /\ child[p] \in {"locked", "writing"}
    /\ Release(p, "refused")
    /\ files' \in {files, [files EXCEPT ![p[1]] = "absent"]}

(* The known paths are removed, or one of them could not be. *)
CleanupDone(p) ==
    /\ child[p] = "locked"
    /\ p[2] = "cleanup"
    /\ \/ Release(p, "ok") /\ files' = [files EXCEPT ![p[1]] = "absent"]
       \/ Release(p, "refused") /\ UNCHANGED files

(* A signalled child dies, wherever it is, and so does one that crashes; what
   it had to say is lost. *)
ChildDies(p) ==
    /\ child[p] \in Alive
    /\ \/ p \in signalled /\ UNCHANGED crashes
       \/ crashes < MaxCrashes /\ crashes' = crashes + 1
    /\ child' = [child EXCEPT ![p] = "dead"]
    /\ answer' = [answer EXCEPT ![p] = "none"]
    /\ flock' = IF flock = p THEN NoChild ELSE flock
    /\ UNCHANGED <<files, old, loopVars>>

(* A day passes for files that were staged, or left behind. *)
Expire(c) ==
    /\ pc[c] = "done"
    /\ files[c] # "absent"
    /\ old' = old \cup {c}
    /\ UNCHANGED <<child, answer, flock, files, crashes, loopVars>>

-----------------------------------------------------------------------------
(* The calls. *)

(* _reap_processes: orphans of this materializer that are dead by now. *)
Reaped(m) == {p \in retained : Of[p[1]] = m /\ Dead(p)}

(* materialize_inbound_media: images first, and files unless those failed. *)
ItsTurn(c) == After[c] # NoCall => outcome[After[c]] = "ok"

Start(c) ==
    /\ pc[c] = "idle"
    /\ stopped[Of[c]] = "no"
    /\ ItsTurn(c)
    /\ retained' = retained \ Reaped(Of[c])
    /\ handle' = [p \in Children |-> IF p \in Reaped(Of[c]) THEN "closed" ELSE handle[p]]
    /\ IF tainted[Of[c]]
       THEN /\ pc' = [pc EXCEPT ![c] = "done"]
            /\ outcome' = [outcome EXCEPT ![c] = "error"]
       ELSE /\ pc' = [pc EXCEPT ![c] = "lock"]
            /\ UNCHANGED outcome
    /\ UNCHANGED <<kind, pending, late, cancelled, spool, tainted, stopped, signalled,
                   childVars>>

(* A child process of the call, for the step k. *)
Spawn(c, k, ending) ==
    /\ pc' = [pc EXCEPT ![c] = "run"]
    /\ kind' = [kind EXCEPT ![c] = k]
    /\ pending' = [pending EXCEPT ![c] = ending]
    /\ child' = [child EXCEPT ![<<c, k>>] = "waiting"]
    /\ UNCHANGED <<outcome, spool, answer, flock, files, old, crashes>>

(* The call returns or raises, which releases the asyncio lock. A deadline is a
   TimeoutError only if the task was not cancelled as well. *)
Finish(c, ending) ==
    /\ pc' = [pc EXCEPT ![c] = "done"]
    /\ outcome' = [outcome EXCEPT ![c] =
            CASE ending = "deadline" -> IF cancelled'[c] THEN "cancelled" ELSE "error"
              [] OTHER -> ending]
    /\ spool' = [m \in Materializers |-> IF spool[m] = c THEN NoCall ELSE spool[m]]
    /\ UNCHANGED <<kind, pending, childVars>>

TakeSpoolLock(c) ==
    /\ pc[c] = "lock"
    /\ spool[Of[c]] = NoCall
    /\ pc' = [pc EXCEPT ![c] = "run"]
    /\ spool' = [spool EXCEPT ![Of[c]] = c]
    /\ child' = [child EXCEPT ![<<c, "preflight">>] = "waiting"]
    /\ handle' = [handle EXCEPT ![<<c, "preflight">>] = "open"]
    /\ UNCHANGED <<kind, pending, outcome, late, cancelled, tainted, stopped, retained,
                   signalled, answer, flock, files, old, crashes>>

(* Handles after the child p of the call was dealt with: closed if it is dead,
   and the next one open if there is one. *)
Handles(p, q) ==
    handle' = [r \in Children |->
                 IF r = q THEN "open" ELSE IF r = p /\ Dead(p) THEN "closed" ELSE handle[r]]

(* Mutant of StageEnds: what was staged is left to the retention. *)
StageAbandoned(c, ending) ==
    /\ Finish(c, ending)
    /\ Handles(ChildOf(c), NoChild)

(* The stage child ended without success: a cleanup takes back its files. *)
StageEnds(c, ending) ==
    /\ Spawn(c, "cleanup", ending)
    /\ Handles(ChildOf(c), <<c, "cleanup">>)

(* A child ended by an exception. A cleanup that does makes the materializer
   tainted, and the call ends as it would have. *)
Fails(c, ending, taint) ==
    /\ \/ kind[c] = "preflight" /\ Finish(c, ending) /\ Handles(ChildOf(c), NoChild)
       \/ kind[c] = "stage" /\ StageEnds(c, ending)
       \/ kind[c] = "cleanup" /\ Finish(c, pending[c]) /\ Handles(ChildOf(c), NoChild)
    /\ tainted' = [tainted EXCEPT ![Of[c]] = @ \/ taint \/ kind[c] = "cleanup"]

(* The child answered, or exited without an answer. *)
Answered(c) ==
    \/ /\ answer[ChildOf(c)] = "ok"
       /\ Handles(ChildOf(c), NoChild)
       /\ \/ /\ kind[c] = "preflight" /\ c \notin Sweeps
             /\ pc' = [pc EXCEPT ![c] = "download"]
             /\ UNCHANGED <<kind, pending, outcome, spool, childVars>>
          \/ kind[c] = "preflight" /\ c \in Sweeps /\ Finish(c, "ok")
          \/ kind[c] = "stage" /\ Finish(c, "ok")
          \/ kind[c] = "cleanup" /\ Finish(c, pending[c])
       /\ UNCHANGED tainted
    \/ answer[ChildOf(c)] # "ok" /\ Fails(c, "error", FALSE)

(* The loop of _run_process finds the process gone. *)
ObserveExit(c) ==
    /\ pc[c] = "run"
    /\ Dead(ChildOf(c))
    /\ UNCHANGED <<late, cancelled, stopped, retained, signalled>>
    /\ Answered(c)

(* The provider's bytes are in memory, or one of them is too large, of no known
   type or did not come. *)
Buffered(c) == Spawn(c, "stage", "none") /\ Handles(NoChild, <<c, "stage">>)
DownloadFails(c) == Finish(c, "error") /\ UNCHANGED handle

Download(c) ==
    /\ pc[c] = "download"
    /\ UNCHANGED <<late, cancelled, tainted, stopped, retained, signalled>>
    /\ Buffered(c) \/ DownloadFails(c)

(* A cancellation reaches an await of the call. One that runs a child has to
   terminate it first; if it is dead already, the call goes on at once. One
   that is about that already gives the child up. *)
Interrupt(c, ending) ==
    /\ UNCHANGED stopped
    /\ \/ /\ pc[c] \in {"lock", "download"}
          /\ Finish(c, ending)
          /\ UNCHANGED <<tainted, handle, retained, signalled>>
       \/ /\ pc[c] = "run" /\ Dead(ChildOf(c))
          /\ Fails(c, ending, FALSE)
          /\ UNCHANGED <<retained, signalled>>
       \/ /\ pc[c] = "run" /\ ~Dead(ChildOf(c))
          /\ pc' = [pc EXCEPT ![c] = "terminate"]
          /\ pending' = [pending EXCEPT ![c] = IF kind[c] = "cleanup" THEN @ ELSE ending]
          /\ signalled' = signalled \cup {ChildOf(c)}
          /\ UNCHANGED <<kind, outcome, spool, tainted, handle, retained, childVars>>
       \/ /\ pc[c] = "terminate"
          /\ Fails(c, ending, TRUE)
          /\ retained' = IF Dead(ChildOf(c)) THEN retained ELSE retained \cup {ChildOf(c)}
          /\ UNCHANGED signalled

Running(c) == pc[c] \in {"lock", "run", "download", "terminate"}

(* asyncio.timeout of the whole call. *)
Deadline(c) ==
    /\ Running(c)
    /\ c \in Slow
    /\ ~late[c]
    /\ late' = [late EXCEPT ![c] = TRUE]
    /\ UNCHANGED cancelled
    /\ Interrupt(c, "deadline")

(* The task is cancelled: the Channel stops. *)
Cancel(c) ==
    /\ Running(c)
    /\ c \in Cancellable
    /\ ~cancelled[c]
    /\ cancelled' = [cancelled EXCEPT ![c] = TRUE]
    /\ UNCHANGED late
    /\ Interrupt(c, "cancelled")

(* asyncio.timeout of the cleanup. *)
CleanupDeadline(c) ==
    /\ pc[c] = "run"
    /\ kind[c] = "cleanup"
    /\ UNCHANGED <<late, cancelled>>
    /\ Interrupt(c, pending[c])

(* The terminated child is gone. *)
Terminated(c) ==
    /\ pc[c] = "terminate"
    /\ Dead(ChildOf(c))
    /\ UNCHANGED <<late, cancelled, stopped, retained, signalled>>
    /\ Fails(c, pending[c], FALSE)

(* It outlives SIGTERM and SIGKILL: the materializer is tainted, and the error
   takes the place of the cancellation. *)
TerminateFails(c) ==
    /\ pc[c] = "terminate"
    /\ ~Dead(ChildOf(c))
    /\ retained' = retained \cup {ChildOf(c)}
    /\ UNCHANGED <<late, cancelled, stopped, signalled>>
    /\ Fails(c, "error", TRUE)

(* stop returns, once the tasks of the Channel and the cleanup task have ended:
   the children that are left are orphans that were signalled already. Those
   that die of it are closed; stop fails if one of them does not. *)
Stop(m) ==
    /\ stopped[m] = "no"
    /\ \A c \in Calls : Of[c] = m => ~Running(c)
    /\ stopped' = [stopped EXCEPT ![m] =
            IF \A p \in retained : Of[p[1]] = m => Dead(p) THEN "ok" ELSE "failed"]
    /\ retained' = retained \ Reaped(m)
    /\ handle' = [p \in Children |-> IF p \in Reaped(m) THEN "closed" ELSE handle[p]]
    /\ UNCHANGED <<pc, kind, pending, outcome, late, cancelled, spool, tainted, signalled,
                   childVars>>

Child(p) ==
    \/ TakeFileLock(p)
    \/ WriteFiles(p)
    \/ PreflightDone(p)
    \/ StageDone(p)
    \/ StageRefused(p)
    \/ CleanupDone(p)
    \/ Report(p)
    \/ ChildDies(p)

Call(c) ==
    \/ Start(c)
    \/ TakeSpoolLock(c)
    \/ ObserveExit(c)
    \/ Download(c)
    \/ Deadline(c)
    \/ Cancel(c)
    \/ CleanupDeadline(c)
    \/ Terminated(c)
    \/ TerminateFails(c)
    \/ Expire(c)

Next ==
    \/ \E p \in Children : Child(p)
    \/ \E c \in Calls : Call(c)
    \/ \E m \in Materializers : Stop(m)

(* The event loop runs and its timers fire; nothing is assumed of children. *)
Fairness ==
    \A c \in Calls :
        /\ WF_vars(ObserveExit(c))
        /\ WF_vars(Deadline(c))
        /\ WF_vars(CleanupDeadline(c))
        /\ WF_vars(Terminated(c) \/ TerminateFails(c))

Spec == Init /\ [][Next]_vars /\ Fairness

-----------------------------------------------------------------------------
(* A call that did not succeed leaves nothing in the spool, wherever its child
   was killed, or its materializer takes no more. *)
NoOrphanStaged ==
    \A c \in Calls :
        pc[c] = "done" /\ outcome[c] # "ok" /\ ~tainted[Of[c]] => files[c] = "absent"

(* What a message was told it has stays in the spool until its retention is
   over, whatever sweeps and cleanups run beside it. *)
StagedStays ==
    \A c \in Calls \ Sweeps : outcome[c] = "ok" /\ c \notin old => files[c] = "all"

(* A stop that succeeds leaves no child behind. *)
StopLeavesNone ==
    \A p \in Children : stopped[Of[p[1]]] = "ok" => child[p] \notin Alive

(* The spool never holds more than the quota, with both materializers writing. *)
QuotaHolds == Usage <= Quota

(* Every live child is run by its call or known as an orphan of a tainted
   materializer. *)
WorkerIsOwned ==
    \A p \in Children :
        child[p] \in Alive =>
            \/ pc[p[1]] \in {"run", "terminate"} /\ ChildOf(p[1]) = p
            \/ p \in retained /\ tainted[Of[p[1]]]

=============================================================================

-------------------------- MODULE AppServerThreads --------------------------
(***************************************************************************)
(* One native Thread as the App Server adapter sees it                     *)
(* (applications/adapters/appserver/_base.py, and send_input of codex.py   *)
(* and zen.py): the evidence that a Thread it created has had no input     *)
(* yet, with which a baseline is answered empty and the first input is     *)
(* started without asking for an active Turn; the notifications of the     *)
(* connection, handled one after the other, which retire, reconcile or     *)
(* refresh that evidence; and the fan-out of the Thread's events           *)
(* (applications/events.py) to its subscribers.                            *)
(*                                                                         *)
(* The native server is external.  A revision stands for its three clocks  *)
(* (createdAt, updatedAt, recencyAt): n tells revisions apart, creation    *)
(* says that the three are equal.  A session stands for sessionId and the  *)
(* native identity; a read without usable clocks fails every comparison    *)
(* just as a foreign session does.                                         *)
(*                                                                         *)
(* A task that reads the Thread is in "ask" until the server answers, then *)
(* in "told" until it runs again.  A connection that is lost fails what is *)
(* asked; a read begun without a connection waits for the next one.        *)
(***************************************************************************)
EXTENDS Naturals, Sequences, FiniteSets, SequencesExt

CONSTANTS
    Calls,         \* operations of the Gateway on the Thread
    CallKind(_),   \* "baseline", "steer", "start" or "queue"
    Dispatcher,    \* the client's dispatch task
    Subscribers,   \* subscriptions of subscribe_thread
    Materializer,  \* whether an artifact materializer is configured
    Limit,         \* _PRE_INPUT_AUTHORIZED_REVISIONS_MAX
    Entries,       \* _NEW_THREAD_BASELINE_MAX_ENTRIES
    MaxPending,    \* event_buffer_max_pending
    SeenLimit,     \* max_seen_identities
    MaxGens,       \* bound: creations under the Thread's id
    MaxEpoch,      \* bound: connections
    MaxRev,        \* bound: changes of the native clocks
    MaxNotes,      \* bound: notifications about Turns
    InboxSize      \* bound: notifications waiting

Tasks == Calls \cup {Dispatcher}
Gens == 1..MaxGens

ThreadsAssumption ==
    /\ Dispatcher \notin Calls
    /\ \A c \in Calls : CallKind(c) \in {"baseline", "steer", "start", "queue"}
    /\ Materializer \in BOOLEAN
    /\ {Limit, Entries, MaxPending, SeenLimit, MaxGens, MaxEpoch, InboxSize} \subseteq Nat \ {0}
    /\ {MaxRev, MaxNotes} \subseteq Nat

VARIABLES
    conn, epoch,   \* "up", "lost" (reset begun), "down", "closed"; connection_epoch
    native,        \* the Thread in the native server
    creating,      \* the Thread as an answered thread/start has it, or NoThread
    inbox,         \* the client's queue of notifications
    table,         \* the generation _thread_baseline_evidence holds for the Thread, or 0
    newer,         \* entries of other Threads added to the table since
    evid,          \* _CreatedPreInputEvidence of each generation
    lock,          \* its validation_lock
    task,          \* what each task is at
    subs,          \* the subscriptions
    log,           \* the Thread's events while someone subscribes, shown or lost
    seen,          \* _seen_live_artifact_identities, oldest first
    made,          \* how many identities were ever remembered
    authorised,    \* how many starts each generation's evidence has authorised
    told           \* generations that were in the table when a Turn event was handled

link    == <<conn, epoch>>
server  == <<native, creating, inbox>>
keeping == <<table, newer, evid, authorised, told>>
feed    == <<subs, log, seen, made>>
vars    == <<link, server, keeping, lock, task, feed>>

None == "none"
Nobody == "nobody"
NoNote == [kind |-> None, id |-> 0]
Rev0 == [n |-> 0, creation |-> TRUE]
NoThread == [gen |-> 0, session |-> 0, rev |-> Rev0, turns |-> 0, running |-> FALSE,
             moved |-> FALSE, notes |-> 0]
NoEvidence == [epoch |-> 0, session |-> 0, revs |-> <<>>, reconciled |-> FALSE,
               byTurn |-> FALSE, absorbed |-> FALSE]
Idle == [pc |-> "idle", why |-> None, gen |-> 0, snap |-> NoThread, note |-> NoNote,
         fresh |-> TRUE]
Lost == [kind |-> "lost", id |-> 0, at |-> 0]
Closed == [live |-> FALSE, q |-> <<>>, gap |-> FALSE, got |-> <<>>, from |-> 0]

Init ==
    /\ conn = "up" /\ epoch = 1
    /\ native = NoThread /\ creating = NoThread /\ inbox = <<>>
    /\ table = 0 /\ newer = 0 /\ evid = [g \in Gens |-> NoEvidence]
    /\ lock = [g \in Gens |-> Nobody]
    /\ task = [t \in Tasks |-> Idle]
    /\ subs = [s \in Subscribers |-> Closed]
    /\ log = <<>> /\ seen = <<>> /\ made = 0
    /\ authorised = [g \in Gens |-> 0] /\ told = {}

-----------------------------------------------------------------------------
(* The evidence. *)

\* _created_pre_input_evidence: the generation in the table, if it is of this connection;
\* one that is not is taken out, which leaves the table with Current.
Current == IF table # 0 /\ evid[table].epoch = epoch THEN table ELSE 0

\* _retire_created_pre_input: the table without g, whatever it holds if g is 0.
Without(g) == IF g \in {0, table} THEN 0 ELSE table

\* native_revisions with one more, of which the newest Limit are kept.
Added(revs, r) ==
    IF r \in Range(revs) THEN revs
    ELSE Append(SubSeq(revs, IF Len(revs) < Limit THEN 1 ELSE Len(revs) - Limit + 2,
                       Len(revs)), r)

HasCreationClock(g, snap) ==
    /\ snap.session = evid[g].session /\ snap.rev.creation
    /\ \E r \in Range(evid[g].revs) : r.creation

\* _matches_created_pre_input_evidence.  A baseline may also finish with evidence that a
\* Turn event retired while it was reading.
Matches(g, snap, retiredToo) ==
    /\ epoch = evid[g].epoch /\ snap.session = evid[g].session
    /\ \/ retiredToo /\ table = 0 /\ evid[g].byTurn
       \/ /\ table = g
          /\ \/ snap.rev \in Range(evid[g].revs)
             \/ evid[g].reconciled /\ HasCreationClock(g, snap)

\* A match by the creation clocks alone is authorised from then on.
Matched(g, snap) ==
    IF evid[g].reconciled /\ HasCreationClock(g, snap)
    THEN [evid EXCEPT ![g].revs = Added(@, snap.rev)] ELSE evid

\* _refresh_created_pre_input_revision, of whatever the table holds by now.
Refreshed(snap) ==
    IF Current = 0 \/ snap.session # evid[table].session THEN evid
    ELSE [evid EXCEPT ![table].revs = Added(@, snap.rev),
                      ![table].absorbed = @ \/ snap.moved]

\* A Turn event or a native request of a Turn: the evidence goes at once.
RetireByTurn ==
    /\ table' = 0
    /\ evid' = IF table = 0 THEN evid ELSE [evid EXCEPT ![table].byTurn = TRUE]
    /\ told' = IF table = 0 THEN told ELSE told \cup {table}

-----------------------------------------------------------------------------
(* The events. *)

\* FanoutSubscription._publish and ._fail: a full buffer is discarded for a gap, a failed
\* stream keeps what is pending before its gap.
Offer(s, e) ==
    IF ~s.live \/ s.gap THEN s
    ELSE IF Len(s.q) >= MaxPending THEN [s EXCEPT !.q = <<>>, !.gap = TRUE]
    ELSE [s EXCEPT !.q = Append(@, e)]

Failed(s) == IF s.live THEN [s EXCEPT !.gap = TRUE] ELSE s

Logged(events) == IF \E s \in Subscribers : subs[s].live THEN log \o events ELSE log

Publish(e) ==
    /\ subs' = [s \in Subscribers |-> Offer(subs[s], e)]
    /\ log' = Logged(<<e>>)
PublishBoth(d, e) ==
    /\ subs' = [s \in Subscribers |-> Offer(Offer(subs[s], d), e)]
    /\ log' = Logged(<<d, e>>)

\* fail and fail_all: an event is not shown, and every subscriber hears of a gap.
FailSubscribers ==
    /\ subs' = [s \in Subscribers |-> Failed(subs[s])]
    /\ log' = Logged(<<Lost>>)

Identity(note) == [kind |-> note.kind, id |-> note.id]
Shown(note, kind) == [kind |-> kind, id |-> note.id, at |-> made']
Showable(note) == note.kind \in {"item", "end"}

\* _remember_live_artifact_identity.
Remember(i) ==
    /\ seen' = IF Len(seen) < SeenLimit THEN Append(seen, i) ELSE Append(Tail(seen), i)
    /\ made' = made + 1

-----------------------------------------------------------------------------
(* The native server and the connection.                                   *)

Fresh(g) == [NoThread EXCEPT !.gen = g, !.session = g, !.notes = native.notes,
                             !.rev = [n |-> native.rev.n, creation |-> TRUE]]

\* What the server tells about the Thread reaches a connected client only.
Notify(kind, id) ==
    /\ Len(inbox) < InboxSize
    /\ inbox' = IF conn = "up" THEN Append(inbox, [kind |-> kind, id |-> id]) ELSE inbox

\* create_thread_with_options asks, the server creates the Thread, under an id that may
\* have been used before, and answers; thread/started may come before the caller goes on.
StartThread ==
    /\ conn = "up" /\ creating = NoThread /\ native.gen < MaxGens
    /\ native' = Fresh(native.gen + 1) /\ creating' = native'
    /\ Notify("started", 0)
    /\ UNCHANGED <<link, keeping, lock, task, feed>>

\* _remember_created_pre_input.  An answer without a session or clocks is no evidence.
RememberCreated(usable) ==
    /\ creating # NoThread
    /\ creating' = NoThread
    /\ IF usable
       THEN /\ table' = creating.gen
            /\ evid' = [evid EXCEPT ![creating.gen] =
                  [NoEvidence EXCEPT !.epoch = epoch, !.session = creating.session,
                                     !.revs = <<creating.rev>>]]
            /\ newer' = IF table = 0 THEN 0 ELSE newer
       ELSE table' = 0 /\ UNCHANGED <<evid, newer>>
    /\ UNCHANGED <<link, native, inbox, authorised, told, lock, task, feed>>

\* Other Threads are created, and their evidence retired: the oldest entry gives way.
OtherCreated ==
    /\ table # 0
    /\ IF newer + 1 < Entries THEN newer' = newer + 1 /\ UNCHANGED table
       ELSE newer' = 0 /\ table' = 0
    /\ UNCHANGED <<link, server, evid, authorised, told, lock, task, feed>>
OtherRetired ==
    /\ table # 0 /\ newer > 0 /\ newer' = newer - 1
    /\ UNCHANGED <<link, server, table, evid, authorised, told, lock, task, feed>>

\* The server settles the creation clocks, or an MCP server starting up touches them.
NativeChanges ==
    /\ native.gen > 0 /\ conn # "closed" /\ native.rev.n < MaxRev
    /\ \/ /\ native.rev.creation
          /\ native' = [native EXCEPT !.rev.n = @ + 1] /\ UNCHANGED inbox
       \/ /\ native' = [native EXCEPT !.rev = [n |-> @.n + 1, creation |-> FALSE]]
          /\ Notify("touch", 0)
       \/ /\ native.session # 0
          /\ native' = [native EXCEPT !.session = 0] /\ UNCHANGED inbox
    /\ UNCHANGED <<link, creating, keeping, lock, task, feed>>

\* A Turn begins, of another client's or the adapter's making; within the clocks'
\* resolution the revision need not show it.
WithTurn(n) ==
    LET unseen == [n EXCEPT !.turns = @ + 1, !.running = TRUE]
        shown  == [unseen EXCEPT !.moved = TRUE, !.rev = [n |-> @.n + 1, creation |-> FALSE]]
    IN  IF n.rev.n < MaxRev THEN {unseen, shown} ELSE {unseen}

ForeignTurn ==
    /\ native.gen > 0 /\ conn # "closed" /\ ~native.running /\ native.notes < MaxNotes
    /\ native' \in WithTurn([native EXCEPT !.notes = @ + 1])
    /\ Notify("turn", native.turns + 1)
    /\ UNCHANGED <<link, creating, keeping, lock, task, feed>>

\* An item of the Turn completes, and is told of once or more often; the Turn ends.
NativeEvent ==
    /\ native.turns > 0 /\ conn # "closed" /\ native.notes < MaxNotes
    /\ \/ \E i \in 1..native.turns : Notify("item", i) /\ native' = [native EXCEPT !.notes = @ + 1]
       \/ /\ native.running /\ Notify("end", native.turns)
          /\ native' = [native EXCEPT !.notes = @ + 1, !.running = FALSE]
    /\ UNCHANGED <<link, creating, keeping, lock, task, feed>>

\* A native request that names a Turn of the Thread retires the evidence too.
NativeRequest ==
    /\ conn = "up" /\ native.turns > 0 /\ table # 0
    /\ RetireByTurn
    /\ UNCHANGED <<link, server, newer, authorised, lock, task, feed>>

-----------------------------------------------------------------------------
(* Tasks. *)

At(t, pc, why) == task[t].pc = pc /\ task[t].why = why
Go(t, pc, why, g) ==
    task' = [task EXCEPT ![t] = [@ EXCEPT !.pc = pc, !.why = why, !.gen = g,
                                          !.snap = IF pc = "send" THEN @ ELSE NoThread]]
\* A call returns or raises: of its outcome only an empty baseline is told apart.
Ends(t) ==
    task' = [task EXCEPT ![t] = IF t = Dispatcher THEN Idle ELSE [Idle EXCEPT !.pc = "done"]]
Unlocked(t) == [g \in Gens |-> IF lock[g] = t THEN Nobody ELSE lock[g]]

\* _start_prepared_input up to its first await: with evidence the Thread is read under
\* its lock, without it is read all the same.
StartPrepared(t) ==
    /\ table' = Current
    /\ IF Current = 0 THEN Go(t, "ask", "scope", 0) ELSE Go(t, "lock", "candidate", Current)

\* A call begins: a baseline and a steering input look for evidence first.
BeginCall(t) ==
    /\ t \in Calls /\ task[t].pc = "idle" /\ conn # "closed" /\ native.gen > 0
    /\ LET k == CallKind(t) IN
         \/ k = "start" /\ StartPrepared(t)
         \/ k = "queue" /\ Go(t, "ask", "queue", 0) /\ UNCHANGED table
         \/ /\ k = "baseline" /\ table' = Current
            /\ IF Current = 0 THEN Go(t, "ask", "history", 0)
               ELSE Go(t, "lock", "baseline", Current)
         \/ /\ k = "steer" /\ table' = Current
            /\ IF Current = 0 THEN Go(t, "ask", "active", 0)
               ELSE Go(t, "lock", "probe", Current)
    /\ UNCHANGED <<link, server, newer, evid, authorised, told, lock, feed>>

\* _handle_notification up to its first await.
TakeNote ==
    /\ conn = "up" /\ task[Dispatcher].pc = "idle" /\ inbox # <<>>
    /\ LET note == Head(inbox)
           take(pc, why, g) ==
               task' = [task EXCEPT ![Dispatcher] = [Idle EXCEPT !.pc = pc, !.why = why, !.gen = g,
                                                                 !.note = note]]
       IN  IF note.kind \in {"turn", "item", "end"}
           THEN RetireByTurn /\ take("ask", "event", 0)
           ELSE /\ table' = Current /\ UNCHANGED <<evid, told>>
                /\ IF Current = 0 THEN take("ask", "event", 0)
                   ELSE take("lock", IF note.kind = "started" THEN "reconcile" ELSE "refresh",
                             Current)
    /\ inbox' = Tail(inbox)
    /\ UNCHANGED <<link, native, creating, newer, authorised, lock, feed>>

\* The validation lock is taken and the Thread read; evidence that is no longer the
\* Thread's is not reconciled.
TakeLock(t) ==
    /\ task[t].pc = "lock" /\ lock[task[t].gen] = Nobody
    /\ IF task[t].why = "reconcile" /\ table # task[t].gen
       THEN Go(t, "ask", "event", 0) /\ UNCHANGED lock
       ELSE /\ Go(t, "ask", task[t].why, task[t].gen)
            /\ lock' = [lock EXCEPT ![task[t].gen] = t]
    /\ UNCHANGED <<link, server, keeping, feed>>

\* The server answers a read with the Thread as it is.
Answer(t) ==
    /\ task[t].pc = "ask" /\ conn = "up"
    /\ task' = [task EXCEPT ![t].pc = "told",
                            ![t].snap = [native EXCEPT !.turns = 0, !.notes = 0]]
    /\ UNCHANGED <<link, server, keeping, lock, feed>>

\* A read that fails, or whose Thread is not in the workspace, fails the call; in a
\* notification it fails every subscriber, and takes back evidence to be reconciled.
ReadFails(t) ==
    /\ task[t].pc = "ask"
    /\ Ends(t) /\ lock' = Unlocked(t)
    /\ table' = IF task[t].why = "reconcile" THEN Without(task[t].gen) ELSE table
    /\ IF t = Dispatcher THEN FailSubscribers ELSE UNCHANGED <<subs, log>>
    /\ UNCHANGED <<link, server, newer, evid, authorised, told, seen, made>>

-----------------------------------------------------------------------------
(* What a call does with the Thread it read. *)

\* GetTurnCatchup and GetThreadHistory: empty by the evidence, or else from the turns.
Baseline(t) ==
    /\ At(t, "told", "baseline")
    /\ LET g == task[t].gen  s == task[t].snap  ok == Matches(g, s, TRUE)
       IN  /\ evid' = IF ok THEN Matched(g, s) ELSE evid
           /\ table' = IF ok THEN table ELSE Without(g)
           /\ IF ok THEN task' = [task EXCEPT ![t] = [Idle EXCEPT !.pc = "empty",
                                                              !.fresh = authorised[g] = 0]]
              ELSE Go(t, "ask", "page", g)
    /\ lock' = Unlocked(t)
    /\ UNCHANGED <<link, server, newer, authorised, told, feed>>

\* Without evidence the Thread is read for its scope, then the page of its turns.
History(t) ==
    /\ At(t, "told", "history") /\ Go(t, "ask", "page", 0)
    /\ UNCHANGED <<link, server, keeping, lock, feed>>
Page(t) ==
    /\ At(t, "told", "page")
    /\ Ends(t)
    /\ UNCHANGED <<link, server, keeping, lock, feed>>

\* send_input with steering: with exact evidence the input starts a Turn, without it the
\* active Turn is looked for.
Probe(t) ==
    /\ At(t, "told", "probe")
    /\ LET g == task[t].gen  s == task[t].snap  ok == Matches(g, s, FALSE)
       IN  /\ evid' = IF ok THEN Matched(g, s) ELSE evid
           /\ table' = IF ok THEN table ELSE Without(g)
           /\ IF ok THEN Go(t, "gate", "start", g) ELSE Go(t, "ask", "active", 0)
    /\ lock' = Unlocked(t)
    /\ UNCHANGED <<link, server, newer, authorised, told, feed>>

\* _read_active_turn_id: a running Turn is steered.
Active(t) ==
    /\ At(t, "told", "active")
    /\ IF task[t].snap.running
       THEN Go(t, "gate", "steer", 0) /\ UNCHANGED table
       ELSE StartPrepared(t)
    /\ UNCHANGED <<link, server, newer, evid, authorised, told, lock, feed>>

\* _start_prepared_input after its read: exact evidence is carried to the dispatch.
Candidate(t) ==
    /\ At(t, "told", "candidate")
    /\ LET g == task[t].gen  s == task[t].snap  ok == Matches(g, s, FALSE)
       IN  /\ evid' = IF ok THEN Matched(g, s) ELSE evid
           /\ table' = IF ok THEN table ELSE Without(g)
           /\ Go(t, "gate", "start", IF ok THEN g ELSE 0)
    /\ lock' = Unlocked(t)
    /\ UNCHANGED <<link, server, newer, authorised, told, feed>>
Scope(t) ==
    /\ \/ At(t, "told", "scope") /\ Go(t, "gate", "start", 0)
       \/ At(t, "told", "queue") /\ Go(t, "gate", "queue", 0)
    /\ UNCHANGED <<link, server, keeping, lock, feed>>

\* before_dispatch, the Gateway's hook, is awaited before anything is sent.  Queued input
\* then retires whatever evidence there is.
BeforeDispatch(t) ==
    /\ task[t].pc = "gate"
    /\ LET g == task[t].gen IN
         \/ Ends(t) /\ UNCHANGED table
         \/ /\ task[t].why = "queue" /\ Go(t, "send", "queue", 0) /\ table' = 0
         \/ /\ task[t].why # "queue" /\ UNCHANGED table
            /\ IF g # 0 THEN Go(t, "lock", "validate", g) ELSE Go(t, "send", task[t].why, 0)
    /\ UNCHANGED <<link, server, newer, evid, authorised, told, lock, feed>>

\* _validate_pre_input_dispatch_evidence: the evidence authorises this dispatch and is
\* retired, or the dispatch is refused.
Validate(t) ==
    /\ At(t, "told", "validate")
    /\ LET g == task[t].gen  s == task[t].snap  ok == Matches(g, s, FALSE)
       IN  /\ evid' = IF ok THEN Matched(g, s) ELSE evid
           /\ table' = Without(g)
           /\ authorised' = IF ok THEN [authorised EXCEPT ![g] = @ + 1] ELSE authorised
           /\ IF ok THEN Go(t, "send", "start", g) ELSE Ends(t)
    /\ lock' = Unlocked(t)
    /\ UNCHANGED <<link, server, newer, told, feed>>

\* turn/start, turn/steer or the native queue, on the connection there is: the server
\* takes the input, or the call fails with it taken or not.
Dispatch(t) ==
    /\ task[t].pc = "send"
    /\ \/ /\ conn = "up" /\ task[t].why # "steer"
          /\ IF native.running THEN UNCHANGED <<native, inbox>>
             ELSE native' \in WithTurn(native) /\ Notify("turn", native.turns + 1)
          /\ Ends(t)
       \/ /\ conn = "up" /\ task[t].why = "steer"
          /\ Ends(t) /\ UNCHANGED <<native, inbox>>
       \/ Ends(t) /\ UNCHANGED <<native, inbox>>
    /\ UNCHANGED <<link, creating, keeping, lock, feed>>

-----------------------------------------------------------------------------
(* What the dispatcher does with the Thread it read. *)

\* _reconcile_thread_started_pre_input_evidence: the first thread/started may find the
\* creation clocks settled; anything else that does not match ends the evidence, and the
\* notification goes on with a read of its own.
Reconcile ==
    LET t == Dispatcher  g == task[t].gen  s == task[t].snap
        exact == Matches(g, s, FALSE)
        settled == /\ ~evid[g].reconciled /\ table = g /\ epoch = evid[g].epoch
                   /\ HasCreationClock(g, s)
    IN  /\ At(t, "told", "reconcile")
        /\ IF exact \/ settled
           THEN /\ evid' = [evid EXCEPT ![g].reconciled = TRUE,
                                        ![g].revs = IF HasCreationClock(g, s)
                                                    THEN Added(@, s.rev) ELSE @]
                /\ task' = [task EXCEPT ![t] = Idle] /\ UNCHANGED table
           ELSE table' = Without(g) /\ Go(t, "ask", "event", 0) /\ UNCHANGED evid
        /\ lock' = Unlocked(t)
        /\ UNCHANGED <<link, server, newer, authorised, told, feed>>

\* A startup notification refreshes the authorised revisions, under the lock of the
\* evidence it found, or without one.
Refresh ==
    /\ \/ At(Dispatcher, "told", "refresh")
       \/ At(Dispatcher, "told", "event") /\ task[Dispatcher].note.kind = "touch"
    /\ evid' = Refreshed(task[Dispatcher].snap)
    /\ task' = [task EXCEPT ![Dispatcher] = Idle] /\ lock' = Unlocked(Dispatcher)
    /\ UNCHANGED <<link, server, table, newer, authorised, told, feed>>

\* _handle_mapped_notification: what is not shown ends here, a known artifact too; what
\* is to be materialized waits for it; a malformed payload is a gap.
Mapped ==
    LET note == task[Dispatcher].note IN
    /\ At(Dispatcher, "told", "event") /\ note.kind # "touch"
    /\ \/ /\ Showable(note) /\ Materializer /\ Identity(note) \notin Range(seen)
          /\ Go(Dispatcher, "materialize", "event", 0) /\ UNCHANGED feed
       \/ /\ ~Showable(note) \/ (Materializer /\ Identity(note) \in Range(seen))
          /\ task' = [task EXCEPT ![Dispatcher] = Idle] /\ UNCHANGED feed
       \/ /\ Showable(note) /\ ~Materializer
          /\ task' = [task EXCEPT ![Dispatcher] = Idle]
          /\ UNCHANGED <<seen, made>> /\ Publish(Shown(note, note.kind))
       \/ /\ Showable(note)
          /\ task' = [task EXCEPT ![Dispatcher] = Idle]
          /\ UNCHANGED <<seen, made>> /\ FailSubscribers
    /\ UNCHANGED <<link, server, keeping, lock>>

\* The materializer answers: the artifact is remembered and shown, the end of a Turn after
\* a last message if there is one; an item with nothing to show is only remembered; a
\* failure is a gap, and what failed can be told of again.
Materialized ==
    LET note == task[Dispatcher].note IN
    /\ At(Dispatcher, "materialize", "event")
    /\ task' = [task EXCEPT ![Dispatcher] = Idle]
    /\ \/ Remember(Identity(note)) /\ Publish(Shown(note, note.kind))
       \/ /\ note.kind = "end" /\ Remember(Identity(note))
          /\ PublishBoth(Shown(note, "last"), Shown(note, "end"))
       \/ note.kind = "item" /\ Remember(Identity(note)) /\ UNCHANGED <<subs, log>>
       \/ FailSubscribers /\ UNCHANGED <<seen, made>>
    /\ UNCHANGED <<link, server, keeping, lock>>

-----------------------------------------------------------------------------
(* Subscribers, and the end of a connection. *)

Subscribe(s) ==
    /\ ~subs[s].live /\ subs[s].from = 0 /\ conn # "closed"
    /\ subs' = [subs EXCEPT ![s] = [Closed EXCEPT !.live = TRUE, !.from = Len(log) + 1]]
    /\ UNCHANGED <<link, server, keeping, lock, task, log, seen, made>>

\* __anext__: the gap comes after what is pending, and is the end.
Consume(s) ==
    /\ subs[s].live
    /\ \/ /\ subs[s].q # <<>>
          /\ subs' = [subs EXCEPT ![s].got = Append(@, Head(subs[s].q)), ![s].q = Tail(@)]
       \/ /\ subs[s].q = <<>> /\ subs[s].gap
          /\ subs' = [subs EXCEPT ![s].live = FALSE]
    /\ UNCHANGED <<link, server, keeping, lock, task, log, seen, made>>

Unsubscribe(s) ==
    /\ subs[s].live /\ subs' = [subs EXCEPT ![s].live = FALSE]
    /\ UNCHANGED <<link, server, keeping, lock, task, log, seen, made>>

\* The connection goes: the listener and the dispatcher are cancelled, the requests that
\* wait for an answer fail, an answer that is not there yet is lost.
Disconnected(c) ==
    LET gone(t) == t = Dispatcher \/ task[t].pc = "ask"
        lost == {i \in 1..Len(inbox) : Showable(inbox[i])}
    IN  /\ conn' = c /\ creating' = NoThread /\ inbox' = <<>>
        /\ task' = [t \in Tasks |->
              IF t = Dispatcher THEN Idle
              ELSE IF gone(t) THEN [Idle EXCEPT !.pc = "done"] ELSE task[t]]
        /\ lock' = [g \in Gens |-> IF lock[g] # Nobody /\ gone(lock[g]) THEN Nobody ELSE lock[g]]
        /\ log' = IF lost = {} /\ task[Dispatcher].pc = "idle" THEN log
                  ELSE Logged(<<Lost>>)
        /\ UNCHANGED <<native, epoch, subs, seen, made>>

ConnectionLost ==
    /\ conn = "up" /\ Disconnected("lost")
    /\ table' = IF task[Dispatcher].pc # "lock" /\ task[Dispatcher].why = "reconcile"
                THEN Without(task[Dispatcher].gen) ELSE table
    /\ UNCHANGED <<newer, evid, authorised, told>>

\* _handle_event_connection_reset, which the client calls before it reconnects.
ResetHandled ==
    /\ conn = "lost" /\ conn' = "down"
    /\ table' = 0 /\ newer' = 0
    /\ subs' = [s \in Subscribers |-> Failed(subs[s])]
    /\ UNCHANGED <<epoch, server, evid, authorised, told, lock, task, log, seen, made>>

Reconnect ==
    /\ conn = "down" /\ epoch < MaxEpoch
    /\ conn' = "up" /\ epoch' = epoch + 1
    /\ UNCHANGED <<server, keeping, lock, task, feed>>

\* stop clears the evidence, then closes the client, which tells no reset handler.
Stop ==
    /\ conn # "closed" /\ Disconnected("closed")
    /\ table' = 0 /\ newer' = 0 /\ UNCHANGED <<evid, authorised, told>>

Next ==
    \/ StartThread \/ (\E usable \in BOOLEAN : RememberCreated(usable))
    \/ OtherCreated \/ OtherRetired
    \/ NativeChanges \/ ForeignTurn \/ NativeEvent \/ NativeRequest
    \/ TakeNote \/ Reconcile \/ Refresh \/ Mapped \/ Materialized
    \/ \E t \in Tasks :
          \/ BeginCall(t) \/ TakeLock(t) \/ Answer(t) \/ ReadFails(t)
          \/ Baseline(t) \/ History(t) \/ Page(t) \/ Probe(t) \/ Active(t)
          \/ Candidate(t) \/ Scope(t) \/ BeforeDispatch(t) \/ Validate(t) \/ Dispatch(t)
    \/ \E s \in Subscribers : Subscribe(s) \/ Consume(s) \/ Unsubscribe(s)
    \/ ConnectionLost \/ ResetHandled \/ Reconnect \/ Stop

Spec == Init /\ [][Next]_vars

-----------------------------------------------------------------------------
(* Properties. *)

Snapshot == [gen : 0..MaxGens, session : 0..MaxGens, turns : Nat, running : BOOLEAN,
             rev : [n : 0..MaxRev, creation : BOOLEAN], moved : BOOLEAN, notes : 0..MaxNotes]

TypeOK ==
    /\ conn \in {"up", "lost", "down", "closed"} /\ epoch \in 1..MaxEpoch
    /\ native \in Snapshot /\ creating \in Snapshot
    /\ table \in 0..MaxGens /\ newer \in 0..Entries
    /\ \A g \in Gens : Len(evid[g].revs) <= Limit
    /\ lock \in [Gens -> Tasks \cup {Nobody}]
    /\ \A t \in Tasks : task[t].snap \in Snapshot /\ task[t].gen \in 0..MaxGens
    /\ \A s \in Subscribers : Len(subs[s].q) <= MaxPending
    /\ Len(seen) <= SeenLimit /\ authorised \in [Gens -> Nat] /\ told \subseteq Gens

(* The evidence of one creation lets at most one input start a Turn        *)
(* without asking for an active one, never after a Turn event of the       *)
(* Thread was handled, and what the table holds is unused and of the       *)
(* present connection, whatever reads, hooks and notifications interleave  *)
(* (_validate_pre_input_dispatch_evidence).                                *)
EvidenceIsUsedOnce ==
    \A g \in Gens :
        /\ authorised[g] <= 1
        /\ authorised[g] = 1 => g \notin told
        /\ table = g => /\ authorised[g] = 0 /\ g \notin told
                        /\ ~evid[g].byTurn /\ evid[g].epoch = epoch

(* A history or catch-up is answered empty by evidence only while no input *)
(* was started with that evidence, even when a Turn event retired it       *)
(* during the read (_read_created_pre_input_scope).                        *)
EmptyBaselineIsFresh ==
    \A t \in Calls : task[t].pc = "empty" => task[t].fresh

(* A start that the evidence authorised was read from a Thread whose       *)
(* clocks show no Turn, unless a startup notification was refreshed from a *)
(* read made after that Turn (_refresh_created_pre_input_revision).        *)
NoShownTurnIsMissed ==
    \A t \in Calls :
        At(t, "send", "start") /\ task[t].gen # 0 /\ task[t].snap.moved
            => evid[task[t].gen].absorbed

(* A subscriber is given the Thread's events in the order in which they    *)
(* came, all of them or a gap (EventBroadcaster, _handle_notification).    *)
StreamIsWhole ==
    \A s \in Subscribers :
        LET all == subs[s].got \o subs[s].q
            due == SubSeq(log, subs[s].from, Len(log))
        IN  subs[s].from > 0 =>
              /\ IsPrefix(all, due)
              /\ subs[s].live /\ ~subs[s].gap /\ conn \in {"up", "down"} => all = due

(* With a materializer an artifact told of again is shown again only after *)
(* SeenLimit others were remembered (_seen_live_artifact_identities).      *)
ShownOnce ==
    Materializer =>
        \A s \in Subscribers :
            LET all == subs[s].got \o subs[s].q IN
            \A i, j \in 1..Len(all) :
                i < j /\ all[i].kind = all[j].kind /\ all[i].id = all[j].id
                    => all[j].at > all[i].at + SeenLimit
=============================================================================

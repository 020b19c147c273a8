--------------------------- MODULE T3Application ---------------------------
(***************************************************************************)
(* The T3 adapter (applications/adapters/t3.py) and the live fan-out it    *)
(* publishes to (applications/events.py): inputs that are dispatched over  *)
(* HTTP under a per-Thread lock, and a polling task per Thread that turns  *)
(* successive snapshots of native state into events. T3 itself is external:*)
(* it starts Turns for the adapter and for native clients, appends         *)
(* messages and activities to them, streams and finishes a message, ends a *)
(* Turn, and any call to it can fail.                                      *)
(*                                                                         *)
(* A native log is a sequence of items in the order of their creation; the *)
(* identity of an item is its position, its timestamp (at) the time of its *)
(* creation or, of a message, of its last update. Every message of a       *)
(* Thread stays in a snapshot, of its activities only the last Window do.  *)
(***************************************************************************)
EXTENDS Integers, Sequences, SequencesExt, FiniteSets

CONSTANTS
    Threads, Inputs, Subscribers,
    ThreadOf,         \* [Inputs \cup Subscribers -> Threads]
    Presenter,        \* an activity presenter is configured
    BaselineCapacity, LockCapacity, SeenCapacity, TerminalCapacity,
    MaxPending,       \* capacity of a subscription
    Window,           \* activities in a snapshot
    MaxSeen,          \* max_seen_identities: new activities of one poll
    MaxItems,         \* bound: items of a native log
    MaxForeign,       \* bound: Turns of native clients in a Thread
    MaxEvents,        \* bound: events published to one subscription
    MaxSubscribes     \* bound: subscriptions of a Subscriber

T3Assumption ==
    /\ ThreadOf \in [Inputs \cup Subscribers -> Threads]
    /\ {BaselineCapacity, LockCapacity, SeenCapacity, TerminalCapacity,
        MaxPending, Window, MaxSeen} \subseteq Nat \ {0}

VARIABLES
    native,   \* [Threads -> [turns, log]]
    ad,       \* the tables of T3ApplicationAdapter
    inputs,   \* [Inputs -> the call of send_input]
    poll,     \* [Threads -> the polling task]
    subs,     \* [Subscribers -> FanoutSubscription]
    hist      \* history: what was presented, the first cursor, and the
              \* messages and ended Turns the adapter has once remembered

vars == <<native, ad, inputs, poll, subs, hist>>

-----------------------------------------------------------------------------
(* Native state *)

Latest(n) == Len(n.turns)

Ids(n, kind) == {i \in 1..Len(n.log) : n.log[i].kind = kind}

(* The activities a snapshot holds: the last Window of them. *)
Visible(n) ==
    {i \in Ids(n, "act") : Cardinality({j \in Ids(n, "act") : j > i}) < Window}

Ascending(S) == SetToSortSeq(S, <)

(* The latest timestamp of a Thread. *)
Clock(n) == IF n.log = <<>> THEN 0
            ELSE LET at == {n.log[i].at : i \in 1..Len(n.log)} IN
                 CHOOSE x \in at : \A y \in at : y <= x

-----------------------------------------------------------------------------
(* The tables of the adapter *)

Baselined(a, t, turn) == \E i \in 1..Len(a.baselines) : a.baselines[i].key = <<t, turn>>

BaselineOf(a, t, turn) ==
    UNION {a.baselines[i].seen : i \in {j \in 1..Len(a.baselines) :
                                          a.baselines[j].key = <<t, turn>>}}

(* An ordered window of identities with oldest-first eviction. *)
Remember(order, key, capacity) ==
    LET longer == IF Contains(order, key) THEN order ELSE Append(order, key) IN
    IF Len(longer) > capacity THEN Tail(longer) ELSE longer

(* _reserve_turn_baseline evicts the oldest baseline whose Turn was observed
   terminal. *)
Evictable(a) ==
    LET free == {i \in 1..Len(a.baselines) : a.baselines[i].key \notin a.active} IN
    {i \in free : \A j \in free : i <= j}

-----------------------------------------------------------------------------
NoPoll == [pc |-> "off", init |-> FALSE, snap |-> [turns |-> <<>>, log |-> <<>>],
           todo |-> <<>>]

Init ==
    /\ native = [t \in Threads |-> [turns |-> <<>>, log |-> <<>>]]
    /\ ad = [baselines |-> <<>>, active |-> {}, reserved |-> 0,
             users |-> [t \in Threads |-> 0], held |-> {},
             seen |-> <<>>, terminals |-> <<>>, inited |-> {},
             cursor |-> [t \in Threads |-> 0],
             actSeen |-> [t \in Threads |-> {}]]
    /\ inputs = [p \in Inputs |-> [pc |-> "idle", base |-> {}, turn |-> 0, started |-> 0]]
    /\ poll = [t \in Threads |-> NoPoll]
    /\ subs = [s \in Subscribers |-> [state |-> "off", queue |-> <<>>, got |-> <<>>,
                                  sent |-> 0, n |-> 0]]
    /\ hist = [presented |-> [t \in Threads |-> {}], base |-> [t \in Threads |-> 0],
               known |-> {}, ended |-> {}]

-----------------------------------------------------------------------------
(* T3 (external) *)

Running(n) == Latest(n) > 0 /\ ~n.turns[Latest(n)]

(* Whatever is still streamed is finished now. *)
Finished(n) ==
    [i \in 1..Len(n.log) |-> IF n.log[i].final THEN n.log[i]
                             ELSE [n.log[i] EXCEPT !.final = TRUE, !.at = Clock(n) + 1]]

(* A Turn is started; one that runs is superseded. *)
Started(n) == [turns |-> Append([i \in 1..Latest(n) |-> TRUE], FALSE), log |-> Finished(n)]

(* The running Turn produces a message, streamed or whole, or an activity. Two
   items may carry one timestamp. (Only the sort of a presenter looks at the
   timestamps: without one they are left at 0, and a message is whole.) *)
NativeItem(t, kind, final) ==
    /\ Running(native[t]) /\ Len(native[t].log) < MaxItems
    /\ \E tick \in IF Presenter THEN {0, 1} ELSE {0} :
          native' = [native EXCEPT ![t].log =
              Append(@, [kind |-> kind, turn |-> Latest(native[t]), final |-> final,
                         at |-> Clock(native[t]) + tick])]
    /\ UNCHANGED <<ad, inputs, poll, subs, hist>>

NativeFinish(t) ==
    /\ Running(native[t]) /\ Finished(native[t]) # native[t].log
    /\ native' = [native EXCEPT ![t].log = Finished(native[t])]
    /\ UNCHANGED <<ad, inputs, poll, subs, hist>>

NativeEnd(t) ==
    /\ Running(native[t])
    /\ native' = [native EXCEPT ![t].turns[Latest(native[t])] = TRUE,
                                ![t].log = Finished(native[t])]
    /\ UNCHANGED <<ad, inputs, poll, subs, hist>>

(* The Turns of a Thread no input of the adapter started. *)
Foreign(t) == 1..Latest(native[t]) \ {inputs[p].started : p \in {q \in Inputs : ThreadOf[q] = t}}

(* Another client of T3 starts a Turn. *)
NativeTurn(t) ==
    /\ Cardinality(Foreign(t)) < MaxForeign
    /\ native' = [native EXCEPT ![t] = Started(@)]
    /\ UNCHANGED <<ad, inputs, poll, subs, hist>>

-----------------------------------------------------------------------------
(* send_input *)

(* The finally of _hold_send_lock. *)
LeaveLock(a, t, holder) ==
    [a EXCEPT !.held = IF holder THEN @ \ {t} ELSE @, !.users[t] = @ - 1]

(* Mutant of HoldSendLock: a lock of its own for every call. *)
SendUnlocked(p) ==
    LET t == ThreadOf[p] IN
    /\ inputs[p].pc = "idle"
    /\ ad' = [ad EXCEPT !.users[t] = @ + 1]
    /\ inputs' = [inputs EXCEPT ![p].pc = "read"]
    /\ UNCHANGED <<native, poll, subs, hist>>

(* _hold_send_lock: an entry while it has users, at most LockCapacity. *)
HoldSendLock(p) ==
    LET t == ThreadOf[p]
        entries == {u \in Threads : ad.users[u] > 0} IN
    /\ inputs[p].pc = "idle"
    /\ \/ /\ t \notin entries /\ Cardinality(entries) >= LockCapacity
          /\ inputs' = [inputs EXCEPT ![p].pc = "rejected"]
          /\ UNCHANGED ad
       \/ /\ t \in entries \/ Cardinality(entries) < LockCapacity
          /\ ad' = [ad EXCEPT !.users[t] = @ + 1]
          /\ inputs' = [inputs EXCEPT ![p].pc = "lock"]
    /\ UNCHANGED <<native, poll, subs, hist>>

EnterSendLock(p) ==
    /\ inputs[p].pc = "lock" /\ ThreadOf[p] \notin ad.held
    /\ ad' = [ad EXCEPT !.held = @ \cup {ThreadOf[p]}]
    /\ inputs' = [inputs EXCEPT ![p].pc = "read"]
    /\ UNCHANGED <<native, poll, subs, hist>>

(* The caller is cancelled while it waits for the lock. *)
CancelWaiter(p) ==
    /\ inputs[p].pc = "lock"
    /\ ad' = LeaveLock(ad, ThreadOf[p], FALSE)
    /\ inputs' = [inputs EXCEPT ![p].pc = "rejected"]
    /\ UNCHANGED <<native, poll, subs, hist>>

(* The Thread is read, its messages become the baseline and a place for it is
   reserved, or there is none: the read fails, or every baseline is active. *)
ReserveTurnBaseline(p) ==
    LET t == ThreadOf[p]
        full == Len(ad.baselines) + ad.reserved >= BaselineCapacity IN
    /\ inputs[p].pc = "read"
    /\ \/ /\ inputs' = [inputs EXCEPT ![p].pc = "rejected"]
          /\ ad' = LeaveLock(ad, t, TRUE)
       \/ /\ inputs' = [inputs EXCEPT ![p].pc = "callback", ![p].base = Ids(native[t], "msg")]
          /\ \/ ~full /\ ad' = [ad EXCEPT !.reserved = @ + 1]
             \/ full /\ \E i \in Evictable(ad) :
                   ad' = [ad EXCEPT !.reserved = @ + 1, !.baselines = RemoveAt(@, i)]
    /\ UNCHANGED <<native, poll, subs, hist>>

(* The reservation is released and the lock left. *)
Abandon(p, pc) ==
    /\ inputs' = [inputs EXCEPT ![p].pc = pc]
    /\ ad' = LeaveLock([ad EXCEPT !.reserved = @ - 1], ThreadOf[p], TRUE)

(* before_dispatch returns, or raises. *)
BeforeDispatch(p) ==
    /\ inputs[p].pc = "callback"
    /\ \/ inputs' = [inputs EXCEPT ![p].pc = "dispatch"] /\ UNCHANGED ad
       \/ Abandon(p, "rejected")
    /\ UNCHANGED <<native, poll, subs, hist>>

(* client.dispatch: applied or not, and the answer may be lost or the caller
   cancelled; whatever is not known to be applied is an unknown outcome. *)
Dispatch(p) ==
    LET t == ThreadOf[p]
        n == native[t] IN
    /\ inputs[p].pc = "dispatch"
    /\ \E applied \in BOOLEAN, answered \in BOOLEAN :
         /\ native' = IF applied THEN [native EXCEPT ![t] = Started(n)] ELSE native
         /\ IF applied /\ answered
            THEN /\ inputs' = [inputs EXCEPT ![p].pc = "follow", ![p].started = Latest(n) + 1]
                 /\ UNCHANGED ad
            ELSE /\ inputs' = [inputs EXCEPT ![p].pc = "unknown",
                                 ![p].started = IF applied THEN Latest(n) + 1 ELSE 0]
                 /\ ad' = LeaveLock([ad EXCEPT !.reserved = @ - 1], t, TRUE)
    /\ UNCHANGED <<poll, subs, hist>>

(* The authoritative read, whose latest Turn is taken for the input's, and
   _record_turn_baseline. *)
RecordTurnBaseline(p) ==
    LET t == ThreadOf[p]
        key == <<t, Latest(native[t])>> IN
    /\ inputs[p].pc = "follow"
    /\ \/ /\ inputs' = [inputs EXCEPT ![p].pc = "accepted", ![p].turn = Latest(native[t])]
          /\ ad' = LeaveLock([ad EXCEPT
                !.reserved = @ - 1, !.active = @ \cup {key},
                !.baselines = Append(SelectSeq(@, LAMBDA b : b.key # key),
                                     [key |-> key, seen |-> inputs[p].base])], t, TRUE)
       \/ Abandon(p, "unknown")
    /\ UNCHANGED <<native, poll, subs, hist>>

-----------------------------------------------------------------------------
(* The fan-out: EventBroadcaster and FanoutSubscription *)

Listening(t) == {s \in Subscribers : ThreadOf[s] = t /\ subs[s].state = "on"}

(* _publish: a full subscription is ended with a gap, its events discarded. *)
Offer(sub, event) ==
    IF sub.state # "on" THEN sub
    ELSE IF Len(sub.queue) >= MaxPending
         THEN [sub EXCEPT !.state = "gap", !.queue = <<>>]
         ELSE [sub EXCEPT !.queue = Append(@, event)]

Publish(ss, t, events) ==
    [s \in Subscribers |->
        IF ThreadOf[s] = t
        THEN FoldLeft(Offer, [ss[s] EXCEPT !.sent = @ + Len(events)], events) ELSE ss[s]]

(* subscribe_thread: a subscription and, if there is none, a polling task. *)
SubscribeThread(s) ==
    LET t == ThreadOf[s] IN
    /\ subs[s].state # "on" /\ subs[s].n < MaxSubscribes
    /\ subs' = [subs EXCEPT ![s] = [@ EXCEPT !.state = "on", !.queue = <<>>, !.got = <<>>,
                                        !.sent = 0, !.n = @ + 1]]
    /\ poll' = IF poll[t].pc = "off" THEN [poll EXCEPT ![t] = [NoPoll EXCEPT !.pc = "read"]]
                                     ELSE poll
    /\ UNCHANGED <<native, ad, inputs, hist>>

(* The subscriber takes an event, or closes. *)
Consume(s) ==
    /\ subs[s].queue # <<>>
    /\ subs' = [subs EXCEPT ![s].got = Append(@, Head(subs[s].queue)), ![s].queue = Tail(@)]
    /\ UNCHANGED <<native, ad, inputs, poll, hist>>

Unsubscribe(s) ==
    /\ subs[s].state = "on"
    /\ subs' = [subs EXCEPT ![s].state = "off", ![s].queue = <<>>]
    /\ UNCHANGED <<native, ad, inputs, poll, hist>>

-----------------------------------------------------------------------------
(* _poll_thread *)

(* _should_publish_t3_message, for the messages of a snapshot in order: the
   ones to publish, and the window of seen identities. Without a presenter a
   message is published, and remembered, on the spot. *)
Screen(a, t, n, init) ==
    LET Step(acc, id) ==
            LET key == <<t, id>>
                turn == n.log[id].turn
                old == \/ init /\ ~Baselined(a, t, turn)
                       \/ id \in BaselineOf(a, t, turn) IN
            IF Contains(acc.seen, key) THEN acc
            ELSE [out |-> IF old THEN acc.out ELSE Append(acc.out, id),
                  seen |-> IF old \/ ~Presenter THEN Remember(acc.seen, key, SeenCapacity)
                                                ELSE acc.seen]
    IN FoldLeft(Step, [out |-> <<>>, seen |-> a.seen], Ascending(Ids(n, "msg")))

(* _new_t3_activities: what follows the cursor, which must be in the window
   unless there is none, and not more than a poll may present. *)
NewActivities(a, t, n) ==
    LET after == {i \in Visible(n) : i > a.cursor[t]} IN
    [gap |-> \/ a.cursor[t] # 0 /\ Visible(n) # {} /\ a.cursor[t] \notin Visible(n)
             \/ Cardinality(after) > MaxSeen,
     out |-> after \ a.actSeen[t]]

(* The events of items in their order of publication: with a presenter
   messages and activities are sorted by timestamp, messages first at a tie;
   without one the messages come as the snapshot lists them. *)
Ordered(n, S) ==
    LET Tie(i, j) == n.log[i].at = n.log[j].at
        Before(i, j) == \/ n.log[i].at < n.log[j].at
                        \/ Tie(i, j) /\ n.log[i].kind = "msg" /\ n.log[j].kind = "act"
                        \/ Tie(i, j) /\ n.log[i].kind = n.log[j].kind /\ i < j IN
    IF Presenter THEN SetToSortSeq(S, Before) ELSE Ascending(S)

(* again: the identity was remembered before. *)
Event(t, n, id) == [kind |-> n.log[id].kind, turn |-> n.log[id].turn, id |-> id,
                    at |-> n.log[id].at, again |-> <<t, id>> \in hist.known]

(* Messages are published up to the next activity, which awaits a presenter. *)
Prefix(n, todo) ==
    LET acts == {i \in 1..Len(todo) : n.log[todo[i]].kind = "act"} IN
    IF acts = {} THEN todo
    ELSE SubSeq(todo, 1, (CHOOSE i \in acts : \A j \in acts : i <= j) - 1)

(* The end of _publish_thread_state_locked: the latest Turn, if it is over,
   is no longer active and its terminal event is published once; not on the
   first poll of a Turn this adapter did not start. *)
Ending(a, t, n, init, events) ==
    LET turn == Latest(n)
        over == turn > 0 /\ ~Running(n)
        new == over /\ ~Contains(a.terminals, <<t, turn>>) IN
    [ad |-> [a EXCEPT !.active = IF over THEN @ \ {<<t, turn>>} ELSE @,
                      !.terminals = IF new THEN Remember(@, <<t, turn>>, TerminalCapacity) ELSE @],
     events |-> events \o
        IF new /\ (~init \/ Baselined(a, t, turn))
        THEN <<[kind |-> "end", turn |-> turn, id |-> 0, at |-> Clock(n),
                again |-> <<t, turn>> \in hist.ended]>> ELSE <<>>]

LastVisible(a, t, n) == IF Visible(n) = {} THEN a.cursor[t]
                        ELSE CHOOSE i \in Visible(n) : \A j \in Visible(n) : j <= i

(* Publish the messages at the head of todo; with nothing left, end the poll.
   Every message of the snapshot but those left is remembered by then. *)
Proceed(a, h, t, n, init, todo, events) ==
    LET now == Prefix(n, todo)
        rest == SubSeq(todo, Len(now) + 1, Len(todo))
        seen == IF Presenter
                THEN FoldLeft(LAMBDA w, id : Remember(w, <<t, id>>, SeenCapacity), a.seen, now)
                ELSE a.seen
        out == events \o [i \in 1..Len(now) |-> Event(t, n, now[i])]
        known == h.known \cup {<<t, id>> : id \in Ids(n, "msg") \ Range(rest)}
        done == Ending([a EXCEPT !.seen = seen, !.inited = @ \cup {t},
                          !.cursor[t] = IF Presenter THEN LastVisible(a, t, n) ELSE @],
                       t, n, init, out) IN
    IF rest = <<>>
    THEN /\ ad' = done.ad
         /\ subs' = Publish(subs, t, done.events)
         /\ poll' = [poll EXCEPT ![t] = [NoPoll EXCEPT !.pc = "sleep"]]
         /\ hist' = [h EXCEPT !.known = known, !.ended = @ \cup Range(done.ad.terminals)]
    ELSE /\ ad' = [a EXCEPT !.seen = seen]
         /\ subs' = Publish(subs, t, out)
         /\ poll' = [poll EXCEPT ![t] = [pc |-> "present", init |-> init, snap |-> n, todo |-> rest]]
         /\ hist' = [h EXCEPT !.known = known]

(* _finish_poll_task: subscribers of a poll that raised see a gap. *)
EndPoll(t, raised) ==
    /\ poll' = [poll EXCEPT ![t] = NoPoll]
    /\ ad' = [ad EXCEPT !.inited = @ \ {t}]
    /\ subs' = IF raised
               THEN [s \in Subscribers |-> IF s \in Listening(t)
                                           THEN [subs[s] EXCEPT !.state = "gap"] ELSE subs[s]]
               ELSE subs

(* One round: nobody listens and the task ends; the read fails or the window
   has moved past the cursor, and it raises; or the snapshot is published. *)
PollThread(t) ==
    LET n == native[t]
        init == t \notin ad.inited
        news == NewActivities(ad, t, n)
        acts == IF Presenter /\ ~init THEN news.out ELSE {}
        screen == Screen(ad, t, n, init)
        a == [ad EXCEPT !.seen = screen.seen,
                        !.actSeen[t] = IF Presenter THEN (IF init THEN {} ELSE {i \in @ : i > ad.cursor[t]}) ELSE @,
                        !.cursor[t] = IF Presenter /\ init THEN LastVisible(ad, t, n) ELSE @] IN
    /\ poll[t].pc = "read"
    /\ \/ /\ Listening(t) = {}
          /\ EndPoll(t, FALSE)
          /\ UNCHANGED hist
       \/ /\ Listening(t) # {}
          /\ \/ EndPoll(t, TRUE) /\ UNCHANGED hist
             \/ /\ ~(Presenter /\ ~init /\ news.gap)
                /\ \A s \in Listening(t) : subs[s].sent < MaxEvents
                /\ Proceed(a, [hist EXCEPT !.base[t] = IF init \/ @ = 0 THEN LastVisible(ad, t, n)
                                                                      ELSE @],
                           t, n, init, Ordered(n, acts \cup Range(screen.out)), <<>>)
    /\ UNCHANGED <<native, inputs>>

(* The presenter returns (an activity may project to nothing) or raises. *)
PresentActivity(t) ==
    LET id == Head(poll[t].todo)
        n == poll[t].snap IN
    /\ poll[t].pc = "present"
    /\ \/ EndPoll(t, TRUE) /\ UNCHANGED hist
       \/ \E shown \in BOOLEAN :
             Proceed([ad EXCEPT !.actSeen[t] = @ \cup {id}],
                     [hist EXCEPT !.presented[t] = @ \cup {id}], t, n, poll[t].init,
                     Tail(poll[t].todo), IF shown THEN <<Event(t, n, id)>> ELSE <<>>)
    /\ UNCHANGED <<native, inputs>>

WakePoll(t) ==
    /\ poll[t].pc = "sleep"
    /\ poll' = [poll EXCEPT ![t] = [NoPoll EXCEPT !.pc = "read"]]
    /\ UNCHANGED <<native, ad, inputs, subs, hist>>

-----------------------------------------------------------------------------
InputStep(p) ==
    \/ HoldSendLock(p) \/ EnterSendLock(p) \/ ReserveTurnBaseline(p)
    \/ BeforeDispatch(p) \/ Dispatch(p) \/ RecordTurnBaseline(p)

PollStep(t) == PollThread(t) \/ PresentActivity(t) \/ WakePoll(t)

Next ==
    \/ \E p \in Inputs : InputStep(p) \/ CancelWaiter(p)
    \/ \E t \in Threads : PollStep(t) \/ NativeFinish(t) \/ NativeEnd(t) \/ NativeTurn(t)
    \/ \E t \in Threads, kind \in {"msg", "act"}, final \in BOOLEAN :
          (kind = "act" => Presenter /\ final) /\ (~final => Presenter) /\ NativeItem(t, kind, final)
    \/ \E s \in Subscribers : SubscribeThread(s) \/ Consume(s) \/ Unsubscribe(s)

Spec == Init /\ [][Next]_vars

-----------------------------------------------------------------------------
(* What the adapter owes *)

Received(s) == subs[s].got \o subs[s].queue

(* The baseline of a Turn that was not observed to end is never given up, and
   reservations keep the table within its capacity: an input that would
   exceed it is refused before anything native happens. *)
ActiveAuthorityIsKept ==
    /\ Len(ad.baselines) + ad.reserved <= BaselineCapacity
    /\ \A k \in ad.active : \E i \in 1..Len(ad.baselines) : ad.baselines[i].key = k

(* A refused input started nothing, and two inputs of one Thread never share a
   Turn. An accepted input is answered with the Turn it started, but for one
   case: the adapter takes the latest Turn of the read that follows the
   dispatch for its own (t3.py:815-818), so it names the Turn of a native
   client that came in between. *)
AcceptedIsOwnTurn ==
    \A p \in Inputs :
        /\ inputs[p].pc = "rejected" => inputs[p].started = 0
        /\ inputs[p].pc = "accepted" =>
              \/ inputs[p].turn = inputs[p].started
              \/ inputs[p].turn > inputs[p].started /\ inputs[p].turn \in Foreign(ThreadOf[p])
        /\ \A q \in Inputs \ {p} :
              inputs[p].pc = "accepted" /\ inputs[q].pc = "accepted"
              /\ ThreadOf[p] = ThreadOf[q] => inputs[p].turn # inputs[q].turn

(* A lock entry counts exactly the calls that wait for it or hold it, also
   after cancellations: what is not counted could be dropped under a holder,
   what is counted too long fills the table. *)
LockUsersAreCounted ==
    \A t \in Threads : ad.users[t] = Cardinality(
        {p \in Inputs : ThreadOf[p] = t /\
            inputs[p].pc \in {"lock", "read", "callback", "dispatch", "follow"}})

(* An identity is published again only by eviction: more messages were met
   than the seen window holds, or more ended Turns than the terminal window
   (t3/design.md:51-54). *)
OnceUnlessEvicted(e) ==
    e.again => IF e.kind = "end" THEN Cardinality(hist.ended) > TerminalCapacity
                                 ELSE Cardinality(hist.known) > SeenCapacity

(* Item e may precede item f. They come in the order of their creation; with a
   presenter in that of the timestamps of their snapshots, where a message
   updated after e may have been created before it, and a message comes before
   an activity of the same time. *)
InNativeOrder(e, f) ==
    /\ Presenter => e.at <= f.at
    /\ \/ e.id < f.id
       \/ Presenter /\ f.kind = "msg" /\ e.at < f.at
       \/ Presenter /\ f.kind = "act" /\ e.kind = "msg" /\ e.at = f.at

(* A message or the end of a Turn is published once while the windows hold its
   identity, over all the subscriptions of a Thread; a subscription sees the
   items in native order, and nothing of a Turn after its end. A replay of an
   evicted identity comes out of order. *)
LiveOrder ==
    \A s \in Subscribers :
        LET r == Received(s) IN
        /\ \A i \in 1..Len(r) : OnceUnlessEvicted(r[i])
        /\ \A i, j \in 1..Len(r) : i < j /\ ~r[j].again =>
              /\ r[i].kind # "end" /\ r[j].kind # "end" => InNativeOrder(r[i], r[j])
              /\ r[i].kind = "end" => r[j].turn > r[i].turn

(* No activity is skipped silently: once a task has a cursor, everything
   between its first cursor and its present one was handed to the presenter,
   or the task ended. (Before there is a cursor a poll cannot tell that the
   window has moved.) *)
NoActivityIsSkipped ==
    \A t \in Threads : poll[t].pc = "sleep" /\ Presenter =>
        \A i \in Ids(native[t], "act") :
            hist.base[t] # 0 /\ hist.base[t] < i /\ i <= ad.cursor[t] => i \in hist.presented[t]

(* A subscription that lost an event is over: as long as it is open, whatever
   was published to it was received or waits in its queue. *)
NothingIsDropped ==
    \A s \in Subscribers :
        subs[s].state = "on" => Len(Received(s)) = subs[s].sent

====

------------------------ MODULE ZenQueueObservation ------------------------
(***************************************************************************)
(* applications/adapters/zen_queue_observation.py with its consumer,       *)
(* QueuedInputRuntime._observe: how changes of a native Zen queue wake the *)
(* Gateway so that it reads the canonical items again.                     *)
(*                                                                         *)
(* One Thread's entry is shared by its subscriptions.  Installing it takes *)
(* three calls, during which live notifications are held back; afterwards  *)
(* every notification has to continue the watermark.  Whatever cannot be   *)
(* shown to be complete ends every subscription with an event gap, and the *)
(* consumer subscribes and reconciles again.                               *)
(***************************************************************************)
EXTENDS Integers, Sequences, FiniteSets, TLC

CONSTANTS
    Subs,
    Kinds,        \* what the native changes are, in order: see Wakes
    MaxPending,   \* event_buffer_max_pending
    MaxResets, MaxFaults

ObservationAssumption ==
    /\ Kinds \in Seq({"queued", "admitted", "ordinary", "other"})
    /\ MaxPending \in Nat \ {0} /\ {MaxResets, MaxFaults} \subseteq Nat

VARIABLES
    mark,      \* native watermark: changes 1..mark have happened
    conn,      \* connection epoch of the client
    hot,       \* the connection carries the Thread's events
    wire,      \* notifications on their way, each the watermark of its change
    entry,     \* _Entry of the Thread
    sub,       \* "none", "waiting" for the entry, "up", or "ended" with a gap to raise
    queue,     \* notices of each subscription
    known,     \* watermark of the consumer's last canonical read
    used

vars == <<mark, conn, hot, wire, entry, sub, queue, known, used>>

Top == Len(Kinds)
NoEntry == [stage |-> "none", epoch |-> 0, snap |-> -1, last |-> 0, pending |-> <<>>,
            read |-> 0, tail |-> {}]

Init ==
    /\ mark = 0 /\ conn = 1 /\ hot = FALSE /\ wire = <<>> /\ entry = NoEntry
    /\ sub = [s \in Subs |-> "none"] /\ queue = [s \in Subs |-> <<>>]
    /\ known = [s \in Subs |-> -1] /\ used = [resets |-> 0, faults |-> 0]

\* _publish: a change with queued lineage becomes a notice; an ordinary human message or
\* another event has none.
Wakes(w) == Kinds[w] \in {"queued", "admitted"}

\* _NativeChange on the wire
NativeChanges ==
    /\ mark < Top
    /\ mark' = mark + 1
    /\ wire' = IF hot THEN Append(wire, mark') ELSE wire
    /\ UNCHANGED <<conn, hot, entry, sub, queue, known, used>>

\* A notification is lost or repeated.
WireFault ==
    /\ used.faults < MaxFaults /\ wire # <<>>
    /\ wire' \in {Tail(wire), <<Head(wire)>> \o wire}
    /\ used' = [used EXCEPT !.faults = @ + 1]
    /\ UNCHANGED <<mark, conn, hot, entry, sub, queue, known>>

-----------------------------------------------------------------------------
(* Subscriptions: what is left of the fan-out after a list of changes.      *)

Listening == {s \in Subs : sub[s] \in {"waiting", "up"}}

\* _QueueSubscription._publish for each notice: a full queue ends the subscription with an
\* overflow, which drops what it held.
FanOut(ws) ==
    LET full == {s \in Listening : Len(queue[s] \o ws) > MaxPending} IN
    /\ queue' = [s \in Subs |-> CASE s \in full -> <<>>
                                  [] s \in Listening \ full -> queue[s] \o ws
                                  [] OTHER -> queue[s]]
    /\ sub' = [s \in Subs |-> IF s \in full THEN "ended" ELSE sub[s]]

\* _fail: every subscription ends with the gap; the entry retires.
Fail ==
    /\ entry' = NoEntry
    /\ queue' = [s \in Subs |-> <<>>]
    /\ sub' = [s \in Subs |-> IF s \in Listening THEN "ended" ELSE sub[s]]

\* subscribe: the first subscription installs the entry, later ones share it.
Subscribe(s) ==
    /\ sub[s] = "none"
    /\ sub' = [sub EXCEPT ![s] = "waiting"]
    /\ entry' = IF entry.stage = "none" THEN [NoEntry EXCEPT !.stage = "installing"] ELSE entry
    /\ UNCHANGED <<mark, conn, hot, wire, queue, known, used>>

\* _install, first call: zen/initialize fixes the connection epoch.
Initialize ==
    /\ entry.stage = "installing"
    /\ entry' = [entry EXCEPT !.stage = "resuming", !.epoch = conn]
    /\ UNCHANGED <<mark, conn, hot, wire, sub, queue, known, used>>

\* Second call: the snapshot with a bounded tail, and from here on live events.
Resume ==
    /\ entry.stage = "resuming"
    /\ IF entry.epoch # conn THEN Fail /\ UNCHANGED <<hot>>
       ELSE /\ hot' = TRUE
            /\ \E from \in 1..(mark + 1) :
                /\ mark - from < MaxPending
                /\ entry' = [entry EXCEPT !.stage = "output", !.read = mark, !.tail = from..mark]
            /\ UNCHANGED <<sub, queue>>
    /\ UNCHANGED <<mark, conn, wire, known, used>>

RECURSIVE Ascending(_)
Ascending(set) ==
    IF set = {} THEN <<>>
    ELSE LET least == CHOOSE x \in set : \A y \in set : x <= y IN
         <<least>> \o Ascending(set \ {least})

\* Mutant: a jump of the watermark goes unnoticed.
AcceptsJumps(last, snap, w) == IF w <= snap \/ w <= last THEN "ignore" ELSE "take"

\* _accept: covered by the snapshot or a repetition, the next watermark, or a gap.
Accepts(last, snap, w) ==
    CASE w <= snap \/ w = last -> "ignore"
      [] w > snap /\ w = last + 1 -> "take"
      [] OTHER -> "gap"

RECURSIVE Replay(_, _, _)
\* The held-back notifications in order: the watermark reached and the notices, or a gap.
Replay(pending, snap, reached) ==
    IF pending = <<>> THEN reached
    ELSE CASE Accepts(reached.last, snap, Head(pending)) = "ignore" ->
                    Replay(Tail(pending), snap, reached)
           [] Accepts(reached.last, snap, Head(pending)) = "take" ->
                    Replay(Tail(pending), snap,
                           [last |-> Head(pending), ok |-> reached.ok,
                            ws |-> Append(reached.ws, Head(pending))])
           [] OTHER -> [reached EXCEPT !.ok = FALSE]

\* Third call, thread/resume on the same epoch: the tail is published, the watermark starts
\* at the snapshot and the held-back notifications follow.
Output ==
    /\ entry.stage = "output"
    /\ LET tail == SelectSeq(Ascending(entry.tail), Wakes)
           done == Replay(entry.pending, entry.read, [last |-> entry.read, ok |-> TRUE, ws |-> tail]) IN
       IF entry.epoch # conn \/ ~done.ok THEN Fail
       ELSE /\ entry' = [entry EXCEPT !.stage = "live", !.snap = entry.read, !.last = done.last,
                                      !.pending = <<>>]
            /\ FanOut(SelectSeq(done.ws, Wakes))
    /\ UNCHANGED <<mark, conn, hot, wire, known, used>>

\* notification: held back until the entry is installed, then accepted.
Notification ==
    /\ wire # <<>>
    /\ wire' = Tail(wire)
    /\ LET w == Head(wire) IN
       CASE entry.epoch = 0 -> UNCHANGED <<entry, sub, queue>>
         [] entry.epoch # 0 /\ entry.epoch # conn -> Fail
         [] entry.epoch = conn /\ entry.stage # "live" ->
               IF Len(entry.pending) >= MaxPending THEN Fail
               ELSE /\ entry' = [entry EXCEPT !.pending = Append(@, w)]
                    /\ UNCHANGED <<sub, queue>>
         [] OTHER ->
               CASE Accepts(entry.last, entry.snap, w) = "ignore" -> UNCHANGED <<entry, sub, queue>>
                 [] Accepts(entry.last, entry.snap, w) = "gap" -> Fail
                 [] OTHER -> /\ entry' = [entry EXCEPT !.last = w]
                             /\ FanOut(IF Wakes(w) THEN <<w>> ELSE <<>>)
    /\ UNCHANGED <<mark, conn, hot, known, used>>

\* The connection is lost and dialled again: reset fails the entry.
Reset ==
    /\ used.resets < MaxResets
    /\ used' = [used EXCEPT !.resets = @ + 1]
    /\ conn' = conn + 1 /\ hot' = FALSE /\ wire' = <<>>
    /\ Fail
    /\ UNCHANGED <<mark, known>>

-----------------------------------------------------------------------------
(* The consumer: QueuedInputRuntime._observe.                               *)

\* The subscription is up: the first canonical read.
Up(s) ==
    /\ sub[s] = "waiting" /\ entry.stage = "live"
    /\ sub' = [sub EXCEPT ![s] = "up"]
    /\ known' = [known EXCEPT ![s] = mark]
    /\ UNCHANGED <<mark, conn, hot, wire, entry, queue, used>>

\* A notice: the Thread is reconciled from a canonical read.
Woken(s) ==
    /\ sub[s] = "up" /\ queue[s] # <<>>
    /\ queue' = [queue EXCEPT ![s] = Tail(@)]
    /\ known' = [known EXCEPT ![s] = mark]
    /\ UNCHANGED <<mark, conn, hot, wire, entry, sub, used>>

\* The gap ends the iteration; after a delay the consumer subscribes again.
Ended(s) ==
    /\ sub[s] = "ended"
    /\ sub' = [sub EXCEPT ![s] = "none"]
    /\ UNCHANGED <<mark, conn, hot, wire, entry, queue, known, used>>

\* The last subscription is gone: _retire drops the entry.
Retire ==
    /\ entry.stage = "live" /\ Listening = {}
    /\ entry' = NoEntry
    /\ UNCHANGED <<mark, conn, hot, wire, sub, queue, known, used>>

Next ==
    \/ NativeChanges \/ WireFault \/ Initialize \/ Resume \/ Output \/ Notification \/ Reset
    \/ Retire
    \/ \E s \in Subs : Subscribe(s) \/ Up(s) \/ Woken(s) \/ Ended(s)

Spec == Init /\ [][Next]_vars

-----------------------------------------------------------------------------
(* Properties.                                                              *)

\* Types, and the bounds on what is held for a slow consumer or a slow installation.
TypeOK ==
    /\ mark \in 0..Top /\ entry.last \in 0..Top
    /\ sub \in [Subs -> {"none", "waiting", "up", "ended"}]
    /\ \A s \in Subs : Len(queue[s]) <= MaxPending
    /\ Len(entry.pending) <= MaxPending

\* A subscription that is up and has nothing left to read has read the queue since every
\* change the entry has accounted for: no wakeup is lost between the snapshot, the
\* held-back notifications and the live ones, nor by a lost or repeated notification.
NoLostWakeup ==
    \A s \in Subs :
        (sub[s] = "up" /\ queue[s] = <<>> /\ entry.stage = "live")
            => \A w \in 1..entry.last : Wakes(w) => w <= known[s]

=============================================================================

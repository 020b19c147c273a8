------------------------ MODULE DeliveryCoordination ------------------------
(***************************************************************************)
(* The delivery coordinator (delivery/coordination.py): bounded admission, *)
(* one delivery at a time for a destination, a bounded number of sends at  *)
(* a time over all of them, retries of a segment, and the receipt that     *)
(* sums up what happened to the segments of a plan.                        *)
(***************************************************************************)
EXTENDS Integers, Sequences, FiniteSets, SequencesExt

CONSTANTS
    Deliveries,      \* submissions to the coordinator; each is made once
    DestinationOf,   \* [Deliveries -> destination Conversation]
    SourcesOf,       \* [Deliveries -> sequence of the source items of each segment]
    AttachmentsOf,   \* [Deliveries -> the items a Channel gives receipts of their own]
    MaxPending,      \* bound on admitted deliveries
    MaxPerDestination, \* bound on admitted deliveries of one destination
    MaxSlots,        \* bound on concurrent sends
    MaxAttempts      \* attempts at a segment

CoordinatorAssumption ==
    /\ MaxPending \in Nat \ {0} /\ MaxPerDestination \in Nat \ {0}
    /\ MaxSlots \in Nat \ {0} /\ MaxAttempts \in Nat \ {0}
    /\ DOMAIN DestinationOf = Deliveries /\ DOMAIN SourcesOf = Deliveries
    /\ DOMAIN AttachmentsOf = Deliveries

Destinations == {DestinationOf[d] : d \in Deliveries}
Statuses == {"accepted", "rejected", "retryable", "unknown"}
Live == {"queued", "slot", "sending", "sleeping"}

(* What a receipt of a Channel may say of single items.  One that may be tried
   again must not hold an item that was or may have been accepted; such a
   receipt is invalid, and counts as unknown (validate_delivery_receipt). *)
ItemAnswers ==
    [accepted |-> {"accepted", "rejected"}, rejected |-> {"accepted", "rejected"},
     retryable |-> {"retryable", "rejected"}, unknown |-> {"accepted", "rejected", "unknown"}]

Answers(items) ==
    UNION {{[status |-> status, items |-> f] :
              f \in UNION {[named -> ItemAnswers[status]] : named \in SUBSET items}} :
           status \in Statuses}

VARIABLES
    pc,        \* [Deliveries -> control of the delivery's task]
    receipts,  \* [Deliveries -> receipts of the segments attempted so far]
    attempt,   \* [Deliveries -> attempts at the current segment]
    outcome,   \* [Deliveries -> aggregated receipt, or NoOutcome]
    queue,     \* [Destinations -> holder and waiters of the destination lock]
    closed,    \* the coordinator is closed
    platform   \* history: <<delivery, segment, items>> in the order the platform took them

vars == <<pc, receipts, attempt, outcome, queue, closed, platform>>

Segments(d) == DOMAIN SourcesOf[d]
Items(d) == UNION {SourcesOf[d][s] : s \in Segments(d)}
NoOutcome == [status |-> "none", items |-> <<>>]

TypeOK ==
    /\ pc \in [Deliveries -> {"new", "refused", "done", "cancelled"} \cup Live]
    /\ \A d \in Deliveries :
          /\ receipts[d] \in Seq(Answers(AttachmentsOf[d])) /\ Len(receipts[d]) <= Len(SourcesOf[d])
          /\ attempt[d] \in 1..MaxAttempts
    /\ queue \in [Destinations -> Seq(Deliveries)]
    /\ closed \in BOOLEAN

Init ==
    /\ pc = [d \in Deliveries |-> "new"]
    /\ receipts = [d \in Deliveries |-> <<>>]
    /\ attempt = [d \in Deliveries |-> 1]
    /\ outcome = [d \in Deliveries |-> NoOutcome]
    /\ queue = [x \in Destinations |-> <<>>]
    /\ closed = FALSE
    /\ platform = <<>>

-----------------------------------------------------------------------------
(* The receipt of a delivery *)

(* _aggregate_receipts: the status of the whole from those of its segments.
   A prefix that was accepted makes a retry unsafe. *)
AcceptedBefore(r) == \E i \in 1..(Len(r) - 1) : r[i].status = "accepted"

(* Mutant: an accepted prefix does not matter. *)
LastStatus(r) == Last(r).status

FinalStatus(r) ==
    CASE Last(r).status = "retryable" /\ AcceptedBefore(r) -> "unknown"
      [] Last(r).status = "rejected" /\ AcceptedBefore(r)  -> "accepted"
      [] OTHER -> Last(r).status

(* What a receipt says of an item: its own status before that of the whole. *)
ItemAnswer(receipt, i) ==
    IF i \in DOMAIN receipt.items THEN receipt.items[i] ELSE receipt.status

(* The statuses of an item in the segments that carry it; later segments are
   skipped. *)
ItemOutcomes(d, r, i) ==
    {IF s <= Len(r) THEN ItemAnswer(r[s], i) ELSE "skipped" :
        s \in {s \in Segments(d) : i \in SourcesOf[d][s]}}

(* _aggregate_item_outcomes *)
ItemStatus(outcomes) ==
    IF outcomes = {"accepted"} THEN "accepted"
    ELSE IF outcomes \cap {"accepted", "unknown"} # {} THEN "unknown"
    ELSE IF "retryable" \in outcomes THEN "retryable"
    ELSE IF "rejected" \in outcomes THEN "rejected" ELSE "skipped"

Aggregate(d, r) ==
    [status |-> FinalStatus(r),
     items |-> [i \in Items(d) |-> ItemStatus(ItemOutcomes(d, r, i))]]

(* _state_from_receipt of the service that submitted the delivery. *)
StateOf(receipt, segments) ==
    LET parts == {receipt.items[i] : i \in DOMAIN receipt.items} \cup segments
    IN CASE receipt.status \in {"unknown", "retryable"} -> receipt.status
         [] receipt.status = "rejected" -> IF "accepted" \in parts THEN "partial" ELSE "rejected"
         [] receipt.status = "accepted" -> IF parts = {"accepted"} THEN "accepted" ELSE "partial"

SegmentStates(d) ==
    {IF s <= Len(receipts[d]) THEN receipts[d][s].status ELSE "skipped" : s \in Segments(d)}

-----------------------------------------------------------------------------
(* Admission *)

Pending == {d \in Deliveries : pc[d] \in Live}

(* _reserve *)
HasRoom(d) ==
    /\ Cardinality(Pending) < MaxPending
    /\ Cardinality({e \in Pending : DestinationOf[e] = DestinationOf[d]}) < MaxPerDestination

(* submit: a task that queues for its destination, or a receipt at once. *)
Submit(d) ==
    /\ pc[d] = "new" /\ ~closed
    /\ \/ /\ HasRoom(d)
          /\ pc' = [pc EXCEPT ![d] = "queued"]
          /\ queue' = [queue EXCEPT ![DestinationOf[d]] = Append(@, d)]
          /\ UNCHANGED outcome
       \/ /\ ~HasRoom(d)
          /\ pc' = [pc EXCEPT ![d] = "refused"]
          /\ outcome' = [outcome EXCEPT ![d] = [status |-> "retryable", items |-> <<>>]]
          /\ UNCHANGED queue
    /\ UNCHANGED <<receipts, attempt, closed, platform>>

(* The destination lock is this delivery's. *)
Start(d) ==
    /\ pc[d] = "queued"
    /\ Head(queue[DestinationOf[d]]) = d
    /\ pc' = [pc EXCEPT ![d] = "slot"]
    /\ UNCHANGED <<receipts, attempt, outcome, queue, closed, platform>>

(* _execution_slots: channel.send of the current segment begins. *)
Send(d) ==
    /\ pc[d] = "slot"
    /\ Cardinality({e \in Deliveries : pc[e] = "sending"}) < MaxSlots
    /\ pc' = [pc EXCEPT ![d] = "sending"]
    /\ UNCHANGED <<receipts, attempt, outcome, queue, closed, platform>>

Current(d) == Len(receipts[d]) + 1
ItemsAt(d) == IF Current(d) \in Segments(d) THEN SourcesOf[d][Current(d)] ELSE {}

(* A segment that is rejected has an item that is. *)
Receipts(d) ==
    {receipt \in Answers(ItemsAt(d) \cap AttachmentsOf[d]) :
        receipt.status = "rejected" => \E i \in ItemsAt(d) : ItemAnswer(receipt, i) = "rejected"}

(* The platform takes items of the current segment, if any. *)
Took(d, items) ==
    platform' = IF items = {} THEN platform ELSE Append(platform, <<d, Current(d), items>>)

Finished(d, r) ==
    /\ outcome' = [outcome EXCEPT ![d] = Aggregate(d, r)]
    /\ queue' = [queue EXCEPT ![DestinationOf[d]] = SelectSeq(@, LAMBDA e : e # d)]

(* channel.send ends: an exception or an invalid receipt counts as unknown,
   and of what is unknown the platform may have taken any part. *)
Answered(d, receipt) ==
    LET with(status) == {i \in ItemsAt(d) : ItemAnswer(receipt, i) = status}
    IN \E more \in SUBSET with("unknown") : Took(d, with("accepted") \cup more)

(* A retryable failure is tried again after a pause. *)
Pause(d, receipt) ==
    /\ pc[d] = "sending"
    /\ receipt.status = "retryable" /\ attempt[d] < MaxAttempts
    /\ Answered(d, receipt)
    /\ pc' = [pc EXCEPT ![d] = "sleeping"]
    /\ UNCHANGED <<receipts, attempt, outcome, queue, closed>>

(* Any other answer is the segment's, a retryable one too once the attempts are
   used up, or when the native retry-after is longer than the coordinator may
   wait. *)
Sent(d, receipt) ==
    /\ pc[d] = "sending"
    /\ Answered(d, receipt)
    /\ attempt' = [attempt EXCEPT ![d] = 1]
    /\ LET r == Append(receipts[d], receipt)
       IN /\ receipts' = [receipts EXCEPT ![d] = r]
          /\ IF receipt.status # "accepted" \/ Len(r) = Len(SourcesOf[d])
             THEN pc' = [pc EXCEPT ![d] = "done"] /\ Finished(d, r)
             ELSE pc' = [pc EXCEPT ![d] = "slot"] /\ UNCHANGED <<outcome, queue>>
    /\ UNCHANGED closed

Retry(d) ==
    /\ pc[d] = "sleeping"
    /\ attempt' = [attempt EXCEPT ![d] = @ + 1]
    /\ pc' = [pc EXCEPT ![d] = "slot"]
    /\ UNCHANGED <<receipts, outcome, queue, closed, platform>>

(* The task is cancelled, by its caller or by close: its place in the queue and
   its reservation go. A send in progress may have reached the platform. *)
Cancel(d) ==
    /\ pc[d] \in Live
    /\ pc' = [pc EXCEPT ![d] = "cancelled"]
    /\ queue' = [queue EXCEPT ![DestinationOf[d]] = SelectSeq(@, LAMBDA e : e # d)]
    /\ \/ UNCHANGED platform
       \/ pc[d] = "sending" /\ \E items \in SUBSET ItemsAt(d) : Took(d, items)
    /\ UNCHANGED <<receipts, attempt, outcome, closed>>

(* close cancels every task; start opens a quiescent coordinator. *)
Close == ~closed /\ closed' = TRUE /\ UNCHANGED <<pc, receipts, attempt, outcome, queue, platform>>
Open  == closed /\ Pending = {} /\ closed' = FALSE
         /\ UNCHANGED <<pc, receipts, attempt, outcome, queue, platform>>

Next ==
    \/ \E d \in Deliveries :
          \/ Submit(d) \/ Start(d) \/ Send(d) \/ Retry(d) \/ Cancel(d)
          \/ \E receipt \in Receipts(d) : Sent(d, receipt) \/ Pause(d, receipt)
    \/ Close \/ Open

Spec == Init /\ [][Next]_vars

(* Sends end, sleeps end, waiters are woken in turn; close cancels. *)
Fairness ==
    \A d \in Deliveries :
       /\ WF_vars(Start(d)) /\ SF_vars(Send(d)) /\ WF_vars(Retry(d))
       /\ WF_vars(\E receipt \in Receipts(d) : Sent(d, receipt))
       /\ WF_vars(closed /\ Cancel(d))
LiveSpec == Spec /\ Fairness

-----------------------------------------------------------------------------
(* Properties *)

(* The items of each segment that the platform holds. *)
OnPlatform(d, s) ==
    UNION {platform[k][3] : k \in {k \in DOMAIN platform : platform[k][1] = d /\ platform[k][2] = s}}

(* What a receipt says is so: a delivery that may be retried, or was rejected,
   left nothing on the platform; one that is accepted for its service is there
   completely; of one that is accepted in part, a part is missing (FinalStatus,
   _state_from_receipt).  In part does not mean that a part is there: a Channel
   accepts a segment of which it rejected every attachment, and names them in a
   notice. *)
ReceiptIsTrue ==
    \A d \in Deliveries : outcome[d] # NoOutcome =>
       LET state == StateOf(outcome[d], SegmentStates(d))
           complete == \A s \in Segments(d) : OnPlatform(d, s) = SourcesOf[d][s]
       IN /\ state \in {"retryable", "rejected"} => \A s \in Segments(d) : OnPlatform(d, s) = {}
          /\ state = "accepted" => complete
          /\ state = "partial" => ~complete

(* An item counts as accepted only when it is on the platform with every
   segment that carries a part of it, and as not accepted only when none is. *)
ItemsAreTrue ==
    \A d \in Deliveries : outcome[d] # NoOutcome =>
       \A i \in DOMAIN outcome[d].items :
          LET parts == {s \in Segments(d) : i \in SourcesOf[d][s]}
              held  == {s \in parts : i \in OnPlatform(d, s)}
          IN /\ outcome[d].items[i] = "accepted" => held = parts
             /\ outcome[d].items[i] \in {"rejected", "retryable", "skipped"} => held = {}

(* A destination sees the segments of one delivery together and in order, each
   once, whatever runs, retries or is cancelled at the same time. *)
OneAtATime ==
    \A j, k \in DOMAIN platform :
       j < k /\ DestinationOf[platform[j][1]] = DestinationOf[platform[k][1]] =>
          /\ platform[j][1] = platform[k][1] => platform[j][2] < platform[k][2]
          /\ platform[j][1] # platform[k][1] =>
                \A l \in (k + 1)..Len(platform) : platform[l][1] # platform[j][1]

(* Neither all destinations nor one of them holds more than its bound, and the
   holder of a destination lock is a live delivery: no reservation leaks. *)
WithinBounds ==
    /\ Cardinality(Pending) <= MaxPending
    /\ \A x \in Destinations :
          /\ Len(queue[x]) <= MaxPerDestination
          /\ \A k \in DOMAIN queue[x] : queue[x][k] \in Pending

(* Every delivery that is admitted comes to an end. *)
DeliveriesEnd ==
    \A d \in Deliveries : (pc[d] = "queued") ~> (pc[d] \in {"done", "cancelled"})
=============================================================================

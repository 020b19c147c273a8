--------------------------- MODULE PollingProofs ---------------------------
(***************************************************************************)
(* Proofs about the Channels that poll: no cursor ever passes a message    *)
(* that is not dealt with, and none is handed to the Gateway twice.        *)
(***************************************************************************)
EXTENDS PollingChannels, IngressProofs

(* Every message up to n is dealt with. *)
Covered(n) == \A m \in Messages : m <= n => Handled(m)

CursorsOK == Covered(cursor) /\ Covered(saved) /\ Covered(confirmed)

(* What is left of a response is its end, without a hole, and what comes
   before it is dealt with; the message that is dispatched is the first. *)
BatchOK ==
    /\ phase # "handle" => pc = "idle"
    /\ phase = "handle" /\ pc # "idle" => batch # <<>> /\ cur = Head(batch)
    /\ batch # <<>> => Covered(next - Len(batch))
    /\ \A i \in 1..Len(batch) : batch[i] = next - Len(batch) + i

PollInv == TransactionInv /\ TypeOK /\ CursorsOK /\ BatchOK

-----------------------------------------------------------------------------
(* What most steps keep. *)

LEMMA CursorsMove ==
    ASSUME PollInv, Keeps,
           cursor' \in {0, cursor, saved}, saved' \in {0, saved, cursor},
           confirmed' \in {confirmed, cursor}
    PROVE  CursorsOK'
<1>1. \A m \in Messages : ~(m <= 0)
  BY DEF Messages
<1>2. \A n \in {0, cursor, saved, confirmed} :
          \A m \in Messages : m <= n => Handled(m)'
  BY <1>1 DEF PollInv, CursorsOK, Covered, Keeps
<1>3. \A m \in Messages :
          (m <= cursor' \/ m <= saved' \/ m <= confirmed') => Handled(m)'
  BY <1>2
<1> QED
  BY <1>3 DEF CursorsOK, Covered

LEMMA BatchStays ==
    ASSUME PollInv, Keeps, UNCHANGED <<batch, next>>,
           phase' # "handle" => pc' = "idle",
           phase' = "handle" /\ pc' # "idle" => batch # <<>> /\ cur' = Head(batch)
    PROVE  BatchOK'
<1>1. batch # <<>> => \A m \in Messages : m <= next - Len(batch) => Handled(m)'
  BY DEF PollInv, BatchOK, Covered, Keeps
<1>2. batch' # <<>> => Covered(next - Len(batch))'
  BY <1>1 DEF Covered
<1> QED
  BY <1>2 DEF PollInv, BatchOK

LEMMA BatchDropped ==
    ASSUME batch' = <<>>, pc' = "idle"
    PROVE  BatchOK'
BY DEF BatchOK

-----------------------------------------------------------------------------
(* One lemma for each step. *)

LEMMA SendPolls ==
    ASSUME PollInv, TransactionAssumption, Send
    PROVE  PollInv'
<1>1. TransactionInv' /\ Keeps
  BY TransactionStutters DEF PollInv, Send
<1>2. TypeOK'
  BY <1>1 DEF PollInv, TypeOK, Send, TransactionInv, TransactionAssumption
<1>3. CursorsOK'
  BY <1>1, CursorsMove DEF Send
<1>4. BatchOK'
  BY <1>1, BatchStays DEF PollInv, BatchOK, Send, transactionVars, dispatchVars
<1> QED
  BY <1>1, <1>2, <1>3, <1>4 DEF PollInv

LEMMA StartPolls ==
    ASSUME PollInv, TransactionAssumption, StartTelegram \/ StartWeixin
    PROVE  PollInv'
<1>0. /\ OpenGate /\ UNCHANGED <<pc, cur, sent, confirmed, saved, batch, next, restarts>>
      /\ cursor' \in {cursor, saved} /\ phase' \in {"probe", "poll"}
      /\ phase \in {"off", "down"}
  BY DEF StartTelegram, StartWeixin, LoadOffset, LoadTransportState, OpenGate
<1>1. TransactionInv' /\ Keeps
  BY <1>0, GateKeeps DEF PollInv
<1>2. TypeOK'
  BY <1>0, <1>1 DEF PollInv, TypeOK, TransactionInv, Phases
<1>3. CursorsOK'
  BY <1>0, <1>1, CursorsMove
<1>4. BatchOK'
  BY <1>0, <1>1, BatchStays DEF PollInv, BatchOK
<1> QED
  BY <1>1, <1>2, <1>3, <1>4 DEF PollInv

LEMMA ProbePolls ==
    ASSUME PollInv, TransactionAssumption, ProbeBot \/ StaleOffset
    PROVE  PollInv'
<1>0. /\ UNCHANGED dispatchVars
      /\ UNCHANGED <<sent, confirmed, batch, next, restarts>>
      /\ Fault \/ UNCHANGED faults
      /\ cursor' \in {0, cursor} /\ saved' \in {0, saved}
      /\ phase' \in {"probe", "poll"} /\ phase \in {"probe", "poll"}
  BY DEF ProbeBot, StaleOffset, DropOffset
<1>1. TransactionInv' /\ Keeps
  BY <1>0, TransactionStays DEF PollInv
<1>2. TypeOK'
  BY <1>0, <1>1 DEF PollInv, TypeOK, TransactionInv, Phases, TransactionAssumption
<1>3. CursorsOK'
  BY <1>0, <1>1, CursorsMove
<1>4. BatchOK'
  BY <1>0, <1>1, BatchStays DEF PollInv, BatchOK, dispatchVars
<1> QED
  BY <1>1, <1>2, <1>3, <1>4 DEF PollInv

(* A response continues what the platform was just told is confirmed. *)
LEMMA ResponseFacts ==
    ASSUME Count \in Nat, sent \in 0..Count, BatchLimit \in Nat,
           NEW from \in 0..Count, NEW response \in Responses(from)
    PROVE  /\ response \in Seq(Messages) /\ response # <<>>
           /\ response[Len(response)] \in 0..Count
           /\ response[Len(response)] - Len(response) = from
           /\ \A i \in 1..Len(response) : response[i] = from + i
<1>1. PICK n \in 1..Later(0, IF sent - from < BatchLimit THEN sent - from ELSE BatchLimit) :
          response = [i \in 1..n |-> from + i]
  BY DEF Responses
<1>2. n \in Nat \ {0} /\ n <= sent - from
  BY DEF Later
<1>3. \A i \in 1..n : from + i \in Messages
  BY <1>2 DEF Messages
<1>4. response \in Seq(Messages) /\ Len(response) = n
  BY <1>1, <1>2, <1>3
<1>5. \A i \in 1..n : response[i] = from + i
  BY <1>1
<1> QED
  BY <1>2, <1>3, <1>4, <1>5 DEF Messages

LEMMA PollPolls ==
    ASSUME PollInv, TransactionAssumption, PollingAssumption, PollOnce
    PROVE  PollInv'
<1>0. /\ UNCHANGED dispatchVars
      /\ UNCHANGED <<sent, cursor, saved, restarts>>
      /\ phase = "poll" /\ pc = "idle" /\ (Fault \/ UNCHANGED faults)
      /\ confirmed' = Later(confirmed, cursor)
  BY DEF PollOnce, PollInv, BatchOK
<1>1. TransactionInv' /\ Keeps
  BY <1>0, TransactionStays DEF PollInv
<1>2. confirmed' \in {confirmed, cursor} /\ confirmed' \in 0..Count
  BY <1>0 DEF PollInv, TypeOK, Later
<1>3. CursorsOK'
  BY <1>0, <1>1, <1>2, CursorsMove
<1>4. ASSUME NEW response \in Responses(confirmed'), batch' = response,
             next' = response[Len(response)], phase' = "handle"
      PROVE  TypeOK' /\ BatchOK'
  <2>1. /\ response \in Seq(Messages) /\ response # <<>>
        /\ response[Len(response)] \in 0..Count
        /\ response[Len(response)] - Len(response) = confirmed'
        /\ \A i \in 1..Len(response) : response[i] = confirmed' + i
    BY <1>2, ResponseFacts DEF PollInv, TypeOK, TransactionAssumption, PollingAssumption
  <2>2. TypeOK'
    BY <1>0, <1>1, <1>2, <1>4, <2>1 DEF PollInv, TypeOK, TransactionInv, Phases
  <2>3. next' - Len(batch') = confirmed'
    BY <1>4, <2>1
  <2>4. Covered(next - Len(batch))'
    BY <1>3, <2>3 DEF CursorsOK, Covered
  <2>5. \A i \in 1..Len(batch') : batch'[i] = next' - Len(batch') + i
    BY <1>4, <2>1, <2>3
  <2> QED
    BY <1>0, <1>4, <2>2, <2>4, <2>5 DEF BatchOK, dispatchVars
<1>5. ASSUME phase' = Backoff, UNCHANGED <<batch, next>>
      PROVE  TypeOK' /\ BatchOK'
  <2>1. phase' \in {"probe", "poll"}
    BY <1>5 DEF Backoff
  <2>2. TypeOK'
    BY <1>0, <1>1, <1>2, <1>5, <2>1 DEF PollInv, TypeOK, TransactionInv, Phases
  <2>3. BatchOK'
    BY <1>0, <1>1, <1>5, <2>1, BatchStays DEF dispatchVars
  <2> QED
    BY <2>2, <2>3
<1> QED
  BY <1>1, <1>3, <1>4, <1>5 DEF PollInv, PollOnce

LEMMA HandlePolls ==
    ASSUME PollInv, TransactionAssumption, HandleUpdate
    PROVE  PollInv'
<1>0. /\ UNCHANGED <<sent, confirmed, cursor, batch, next, phase, restarts>>
      /\ saved' \in {saved, cursor} /\ phase = "handle" /\ batch # <<>>
      /\ Dispatch(Head(batch))
  BY DEF HandleUpdate
<1>1. Head(batch) \in Messages
  BY <1>0 DEF PollInv, TypeOK
<1>2. TransactionInv' /\ Keeps
  BY <1>0, <1>1, DispatchKeeps DEF PollInv, TransactionAssumption
<1>3. TypeOK'
  BY <1>0, <1>2 DEF PollInv, TypeOK, TransactionInv
<1>4. CursorsOK'
  BY <1>0, <1>2, CursorsMove
<1>5. cur' = Head(batch)
  BY <1>0 DEF Dispatch
<1>6. BatchOK'
  BY <1>0, <1>2, <1>5, BatchStays
<1> QED
  BY <1>2, <1>3, <1>4, <1>6 DEF PollInv

(* The transaction moves on. *)
LEMMA TransactionPolls ==
    ASSUME PollInv, TransactionAssumption, TransactionStep, UNCHANGED pollVars
    PROVE  PollInv'
<1>1. TransactionInv' /\ Keeps
  BY StepKeeps DEF PollInv
<1>2. pc # "idle" /\ cur' = cur
  BY StepIsDispatch
<1>3. phase = "handle" /\ batch # <<>> /\ cur = Head(batch)
  BY <1>2 DEF PollInv, BatchOK
<1>4. TypeOK'
  BY <1>1 DEF PollInv, TypeOK, TransactionInv, pollVars
<1>5. CursorsOK'
  BY <1>1, CursorsMove DEF pollVars
<1>6. BatchOK'
  BY <1>1, <1>2, <1>3, BatchStays DEF pollVars
<1> QED
  BY <1>1, <1>4, <1>5, <1>6 DEF PollInv

(* The Gateway moves on beside the runner. *)
LEMMA BesidePolls ==
    ASSUME PollInv, TransactionInv', Keeps, UNCHANGED <<pc, cur>>,
           UNCHANGED <<sent, confirmed, cursor, saved, batch, next, phase>>,
           restarts' \in 0..MaxRestarts
    PROVE  PollInv'
<1>1. TypeOK'
  BY DEF PollInv, TypeOK, TransactionInv
<1>2. CursorsOK'
  BY CursorsMove
<1>3. BatchOK'
  BY BatchStays DEF PollInv, BatchOK
<1> QED
  BY <1>1, <1>2, <1>3 DEF PollInv

LEMMA GatewayPolls ==
    ASSUME PollInv, TransactionAssumption, GatewayStep, UNCHANGED pollVars
    PROVE  PollInv'
<1>1. TransactionInv' /\ Keeps /\ UNCHANGED <<pc, cur>>
  BY GatewayKeeps DEF PollInv
<1> QED
  BY <1>1, BesidePolls DEF PollInv, TypeOK, pollVars

LEMMA ClosesPolls ==
    ASSUME PollInv, TransactionAssumption, PollingAssumption, GatewayCloses
    PROVE  PollInv'
<1>1. TransactionInv' /\ Keeps /\ UNCHANGED <<pc, cur>>
  BY GateKeeps DEF PollInv, GatewayCloses, CloseGate
<1>2. restarts' \in 0..MaxRestarts
  BY DEF PollInv, TypeOK, GatewayCloses, PollingAssumption
<1> QED
  BY <1>1, <1>2, BesidePolls DEF GatewayCloses

(* The batch is given up, or the adapter is, before its next message. *)
LEMMA DroppedPolls ==
    ASSUME PollInv, TransactionInv', Keeps, pc' = "idle", batch' = <<>>,
           UNCHANGED <<sent, confirmed, cursor, next>>,
           saved' \in {saved, cursor}, phase' \in Phases, restarts' \in 0..MaxRestarts
    PROVE  PollInv'
<1>1. TypeOK'
  BY DEF PollInv, TypeOK, TransactionInv
<1>2. CursorsOK'
  BY CursorsMove
<1> QED
  BY <1>1, <1>2, BatchDropped DEF PollInv

LEMMA TokenPolls ==
    ASSUME PollInv, TransactionAssumption, TokenNotSaved
    PROVE  PollInv'
<1>1. TransactionInv' /\ Keeps
  BY TransactionStays DEF PollInv, TokenNotSaved
<1> QED
  BY <1>1, DroppedPolls DEF PollInv, TypeOK, TokenNotSaved, Backoff, Phases, dispatchVars

LEMMA FailedPolls ==
    ASSUME PollInv, TransactionAssumption, UpdateFailed
    PROVE  PollInv'
<1>1. TransactionInv' /\ Keeps
  BY TakenKeeps DEF PollInv, UpdateFailed
<1> QED
  BY <1>1, DroppedPolls DEF PollInv, TypeOK, UpdateFailed, Backoff, Phases, Taken

LEMMA StopPolls ==
    ASSUME PollInv, TransactionAssumption, PollingAssumption, Stop
    PROVE  PollInv'
<1>1. TransactionInv' /\ Keeps
  BY CancelledKeeps DEF PollInv, Stop
<1>2. restarts' \in 0..MaxRestarts /\ saved' \in {saved, cursor}
  BY DEF PollInv, TypeOK, Stop, PollingAssumption
<1> QED
  BY <1>1, <1>2, DroppedPolls DEF Stop, Phases, Cancelled, Taken

LEMMA CrashPolls ==
    ASSUME PollInv, TransactionAssumption, PollingAssumption, Crash
    PROVE  PollInv'
<1>1. TransactionInv' /\ Keeps
  BY DiedKeeps DEF PollInv, Crash
<1>2. restarts' \in 0..MaxRestarts
  BY DEF PollInv, TypeOK, Crash, PollingAssumption
<1> QED
  BY <1>1, <1>2, DroppedPolls DEF Crash, Phases, Died, Taken

LEMMA PersistPolls ==
    ASSUME PollInv, TransactionAssumption, Persist
    PROVE  PollInv'
<1>0. /\ UNCHANGED dispatchVars
      /\ UNCHANGED <<sent, confirmed, cursor, next, restarts>>
      /\ phase = "persist" /\ pc = "idle" /\ (Fault \/ UNCHANGED faults)
      /\ saved' \in {saved, cursor}
      /\ phase' \in {"poll", "handle", "probe"} /\ batch' \in {batch, <<>>}
  BY DEF Persist, SaveCursor, Backoff, PollInv, BatchOK
<1>1. TransactionInv' /\ Keeps
  BY <1>0, TransactionStays DEF PollInv
<1>2. TypeOK'
  <2>1. batch' \in Seq(Messages)
    <3>1. batch \in Seq(Messages) /\ <<>> \in Seq(Messages)
      BY DEF PollInv, TypeOK
    <3> QED
      BY <1>0, <3>1
  <2>2. {sent, confirmed, cursor, saved, next}' \subseteq 0..Count
    BY <1>0 DEF PollInv, TypeOK
  <2> QED
    BY <1>0, <1>1, <2>1, <2>2 DEF PollInv, TypeOK, TransactionInv, Phases
<1>3. CursorsOK'
  BY <1>0, <1>1, CursorsMove
<1>4. BatchOK'
  BY <1>0, <1>1, BatchStays, BatchDropped DEF dispatchVars
<1> QED
  BY <1>1, <1>2, <1>3, <1>4 DEF PollInv

(* The first message is dealt with: everything up to it is. *)
LEMMA HandledPolls ==
    ASSUME PollInv, TransactionAssumption, UpdateHandled
    PROVE  PollInv'
<1>0. /\ phase = "handle" /\ pc = "returned" /\ pc' = "idle" /\ cur' = 0
      /\ UNCHANGED <<sent, confirmed, saved, next, restarts>>
      /\ batch' = Tail(batch) /\ phase' \in {"handle", "persist"}
      /\ \/ cursor' = Later(cursor, cur)
         \/ cursor' = cursor
         \/ batch' = <<>> /\ cursor' = next
  BY DEF UpdateHandled, Taken
<1>1. TransactionInv' /\ Keeps
  BY <1>0, TakenKeeps DEF PollInv, UpdateHandled
<1>2. /\ batch \in Seq(Messages) /\ batch # <<>> /\ cur = batch[1]
      /\ Len(batch) \in Nat \ {0} /\ cursor \in 0..Count /\ next \in 0..Count
      /\ cur \in 1..Count /\ cur = next - Len(batch) + 1
  <2>1. batch \in Seq(Messages) /\ batch # <<>> /\ cur = Head(batch)
    BY <1>0 DEF PollInv, TypeOK, BatchOK
  <2>2. Len(batch) \in Nat \ {0} /\ cur = batch[1] /\ cur \in Messages
    BY <2>1
  <2>3. cur = next - Len(batch) + 1
    BY <2>2 DEF PollInv, BatchOK
  <2> QED
    BY <2>1, <2>2, <2>3 DEF PollInv, TypeOK, Messages
<1>3. \A m \in Messages : m <= cur => Handled(m)
  <2>1. Handled(cur)
    BY <1>0 DEF PollInv, TransactionInv, DispatchOK
  <2>2. \A m \in Messages : m <= next - Len(batch) => Handled(m)
    BY <1>2 DEF PollInv, BatchOK, Covered
  <2> SUFFICES ASSUME NEW m \in Messages, m <= cur, m # cur PROVE Handled(m)
    BY <2>1
  <2>3. m <= next - Len(batch)
    BY <1>2 DEF Messages
  <2> QED
    BY <2>2, <2>3
<1>4. /\ batch' \in Seq(Messages) /\ Len(batch') = Len(batch) - 1
      /\ \A i \in 1..Len(batch') : batch'[i] = batch[i + 1]
  BY <1>0, <1>2
<1>5. cursor' \in {cursor, cur}
  <2>1. CASE batch' = <<>> /\ cursor' = next
    <3>1. Len(batch) = 1
      BY <1>2, <1>4, <2>1
    <3> QED
      BY <1>2, <2>1, <3>1
  <2> QED
    BY <1>0, <2>1 DEF Later
<1>6. CursorsOK'
  <2>1. \A m \in Messages :
            (m <= cursor' \/ m <= saved' \/ m <= confirmed') => Handled(m)
    BY <1>0, <1>3, <1>5 DEF PollInv, CursorsOK, Covered
  <2> QED
    BY <1>1, <2>1 DEF CursorsOK, Covered, Keeps
<1>7. TypeOK'
  BY <1>0, <1>1, <1>2, <1>4, <1>5 DEF PollInv, TypeOK, TransactionInv, Phases
<1>8. BatchOK'
  <2>1. next' - Len(batch') = cur
    BY <1>0, <1>2, <1>4
  <2>2. Covered(next - Len(batch))'
    BY <1>1, <1>3, <2>1 DEF Covered, Keeps
  <2>3. ASSUME NEW i \in 1..Len(batch') PROVE batch'[i] = next' - Len(batch') + i
    <3>1. i + 1 \in 1..Len(batch)
      BY <1>2, <1>4
    <3>2. batch[i + 1] = next - Len(batch) + (i + 1)
      BY <3>1 DEF PollInv, BatchOK
    <3> QED
      BY <1>0, <1>2, <1>4, <2>3, <3>2
  <2> QED
    BY <1>0, <2>2, <2>3 DEF BatchOK
<1> QED
  BY <1>1, <1>6, <1>7, <1>8 DEF PollInv

-----------------------------------------------------------------------------
(* The invariant. *)

LEMMA InitPolls ==
    ASSUME TransactionAssumption, PollingAssumption, Init
    PROVE  PollInv
<1>1. TransactionInv
  BY InitTransaction DEF Init
<1>2. TypeOK
  BY <1>1 DEF Init, TypeOK, TransactionInv, Phases, TransactionAssumption, PollingAssumption
<1>3. CursorsOK
  BY DEF Init, CursorsOK, Covered, Messages
<1>4. BatchOK
  BY DEF Init, TransactionInit, BatchOK
<1> QED
  BY <1>1, <1>2, <1>3, <1>4 DEF PollInv

LEMMA NextPolls ==
    ASSUME TransactionAssumption, PollingAssumption, PollInv, [Next]_vars
    PROVE  PollInv'
<1>1. CASE UNCHANGED vars
  <2>1. TransactionInv' /\ Keeps
    BY <1>1, TransactionStutters DEF PollInv, vars
  <2>2. TypeOK'
    BY <1>1, <2>1 DEF PollInv, TypeOK, TransactionInv, vars, pollVars
  <2>3. CursorsOK'
    BY <1>1, <2>1, CursorsMove DEF vars, pollVars
  <2>4. BatchOK'
    BY <1>1, <2>1, BatchStays DEF PollInv, BatchOK, vars, pollVars, transactionVars, dispatchVars
  <2> QED
    BY <2>1, <2>2, <2>3, <2>4 DEF PollInv
<1> QED
  BY <1>1, SendPolls, TransactionPolls, StartPolls, ProbePolls, PollPolls, HandlePolls,
     TokenPolls, HandledPolls, PersistPolls, FailedPolls, GatewayPolls, ClosesPolls,
     StopPolls, CrashPolls
     DEF Next, Work

LEMMA PollInvHolds ==
    ASSUME TransactionAssumption, PollingAssumption
    PROVE  Spec => []PollInv
<1>1. Init => PollInv
  BY InitPolls
<1>2. PollInv /\ [Next]_vars => PollInv'
  BY NextPolls
<1> QED
  BY <1>1, <1>2, PTL DEF Spec

(* ConfirmedIsHandled: no offset of Telegram and no cursor of Weixin, in memory,
   in the state file or as the platform was told it, passes a message that the
   Gateway has not taken, holds in its startup FIFO or returned from while it
   accepted no more, the policy has not turned away and no open claim has
   answered, after a failed dispatch, a failed save, a start that is rolled
   back, a stop or a crash at any step (_poll_once, _persist_offset,
   _persist_state); and each message is handed to the Gateway at most once
   although the platform sends it again, no remembered key swallows one, and an
   open claim has an owner or was orphaned by a fault (dispatch_inbound and its
   transaction). *)
THEOREM ConfirmedStaysHandled ==
    ASSUME TransactionAssumption, PollingAssumption
    PROVE  Spec => []ConfirmedIsHandled
<1>1. PollInv => CursorsPassHandled
  <2> SUFFICES ASSUME PollInv, NEW m \in Messages,
                      m <= Later(cursor, Later(saved, confirmed))
               PROVE  m \in Denied \cup skipped \cup Kept
    BY DEF CursorsPassHandled
  <2>1. m <= cursor \/ m <= saved \/ m <= confirmed
    BY DEF Later
  <2> QED
    BY <2>1 DEF PollInv, CursorsOK, Covered, Handled
<1>2. PollInv => ConfirmedIsHandled
  BY <1>1 DEF PollInv, TransactionInv, ConfirmedIsHandled
<1> QED
  BY <1>2, PollInvHolds, PTL

=============================================================================

-------------------------- MODULE PollingChannels --------------------------
(***************************************************************************)
(* The two Channels that poll (adapters/telegram.py, adapters/weixin.py).  *)
(* A poll asks for the messages after a cursor, which also confirms the    *)
(* ones before it: the platform never delivers those again. Telegram moves *)
(* and saves its offset after every update; Weixin takes the new cursor    *)
(* once the whole batch is handled and saves the old one, with the context *)
(* tokens, in between. A failed dispatch ends the batch, and the next poll *)
(* asks for it again.                                                      *)
(***************************************************************************)
EXTENDS IngressTransaction

CONSTANTS
    Provider,     \* "telegram" or "weixin"
    BatchLimit,   \* bound on the messages of one response
    MaxRestarts   \* bound on the starts of a Gateway that end

PollingAssumption ==
    /\ Provider \in {"telegram", "weixin"}
    /\ BatchLimit \in Nat \ {0}
    /\ MaxRestarts \in Nat

VARIABLES
    sent,       \* newest message of the platform
    confirmed,  \* newest message the platform has dropped
    cursor,     \* _offset - 1, or the message get_updates_buf stands for
    saved,      \* the cursor in the state file
    batch,      \* messages of the response still to handle
    next,       \* get_updates_buf of the response
    phase,      \* what the runner task does
    restarts    \* Gateways closed and crashed so far

pollVars == <<sent, confirmed, cursor, saved, batch, next, phase, restarts>>
vars == <<transactionVars, pollVars>>

Phases == {"off", "down", "probe", "poll", "handle", "persist"}

TypeOK ==
    /\ TransactionTypeOK
    /\ {sent, confirmed, cursor, saved, next} \subseteq 0..Count
    /\ batch \in Seq(Messages)
    /\ phase \in Phases
    /\ restarts \in 0..MaxRestarts

Init ==
    /\ TransactionInit
    /\ gate = "closed"
    /\ sent = 0 /\ confirmed = 0
    /\ cursor = 0 /\ saved = 0
    /\ batch = <<>> /\ next = 0
    /\ phase = "down"
    /\ restarts = 0

Later(a, b) == IF a > b THEN a ELSE b

(* A user writes to the bot. *)
Send ==
    /\ sent < Count
    /\ sent' = sent + 1
    /\ UNCHANGED <<transactionVars, confirmed, cursor, saved, batch, next, phase, restarts>>

-----------------------------------------------------------------------------
(* The state file is replaced as a whole: a failed or interrupted write leaves
   the cursor it had. *)
SaveCursor ==
    \/ saved' = cursor /\ UNCHANGED faults
    \/ Fault /\ UNCHANGED saved

(* A new Telegram adapter has read its state file; one that is started again
   keeps the offset it has. *)
LoadOffset == IF phase = "down" THEN saved ELSE cursor

(* Weixin reads its state file at every start. *)
LoadTransportState == saved

StartTelegram ==
    /\ Provider = "telegram"
    /\ phase \in {"off", "down"}
    /\ OpenGate
    /\ cursor' = LoadOffset
    /\ phase' = "probe"
    /\ UNCHANGED <<sent, confirmed, saved, batch, next, restarts>>

StartWeixin ==
    /\ Provider = "weixin"
    /\ phase \in {"off", "down"}
    /\ OpenGate
    /\ cursor' = LoadTransportState
    /\ phase' = "poll"
    /\ UNCHANGED <<sent, confirmed, saved, batch, next, restarts>>

(* Retrying after a failure: Telegram asks for its identity again. *)
Backoff == IF Provider = "telegram" THEN "probe" ELSE "poll"

(* The offset is dropped and the drop is saved, which may fail. *)
DropOffset ==
    /\ Fault
    /\ cursor' = 0
    /\ \/ saved' = 0 /\ phase' = "poll"
       \/ saved' = saved /\ phase' = "probe"

(* _probe_bot: an offset of another bot, or one older than OFFSET_MAX_AGE_S,
   is dropped. *)
ProbeBot ==
    /\ phase = "probe"
    /\ \/ phase' = "poll" /\ UNCHANGED <<cursor, saved, faults>>
       \/ phase' = "probe" /\ Fault /\ UNCHANGED <<cursor, saved>>
       \/ DropOffset
    /\ UNCHANGED dispatchVars
    /\ UNCHANGED <<sent, confirmed, batch, next, restarts>>

(* _poll_once of Telegram: so is one that grew stale since. *)
StaleOffset ==
    /\ Provider = "telegram"
    /\ phase = "poll"
    /\ cursor > 0
    /\ DropOffset
    /\ UNCHANGED dispatchVars
    /\ UNCHANGED <<sent, confirmed, batch, next, restarts>>

(* What the platform returns to a poll: messages after the cursor that it has
   not dropped, in order, at most BatchLimit of them. *)
Responses(from) ==
    {[i \in 1..n |-> from + i] : n \in 1..Later(0, IF sent - from < BatchLimit
                                                     THEN sent - from ELSE BatchLimit)}

(* The request arrives, its answer may not. *)
PollOnce ==
    /\ phase = "poll"
    /\ confirmed' = Later(confirmed, cursor)
    /\ \/ \E response \in Responses(confirmed') :
            /\ batch' = response
            /\ next' = response[Len(response)]
            /\ phase' = "handle"
            /\ UNCHANGED faults
       \/ /\ Fault
          /\ phase' = Backoff
          /\ UNCHANGED <<batch, next>>
    /\ UNCHANGED dispatchVars
    /\ UNCHANGED <<sent, cursor, saved, restarts>>

(* handle_update, handle_raw_message: Weixin may first save the context token
   of the sender, and with it the cursor it still has. *)
HandleUpdate ==
    /\ phase = "handle"
    /\ batch # <<>>
    /\ Dispatch(Head(batch))
    /\ saved' \in {saved} \cup {c \in {cursor} : Provider = "weixin"}
    /\ UNCHANGED <<sent, confirmed, cursor, batch, next, phase, restarts>>

(* Saving the context token fails: the batch ends before the dispatch. *)
TokenNotSaved ==
    /\ Provider = "weixin"
    /\ phase = "handle"
    /\ pc = "idle"
    /\ batch # <<>>
    /\ Fault
    /\ batch' = <<>>
    /\ phase' = Backoff
    /\ UNCHANGED dispatchVars
    /\ UNCHANGED <<sent, confirmed, cursor, saved, next, restarts>>

(* The dispatch returned: Telegram advances its offset at once, Weixin when
   the batch is done and the response brought a new cursor. *)
UpdateHandled ==
    /\ phase = "handle"
    /\ pc = "returned"
    /\ Taken
    /\ batch' = Tail(batch)
    /\ \/ /\ Provider = "telegram"
          /\ cursor' = Later(cursor, cur)
          /\ phase' = "persist"
       \/ /\ Provider = "weixin"
          /\ batch' # <<>>
          /\ UNCHANGED <<cursor, phase>>
       \/ /\ Provider = "weixin"
          /\ batch' = <<>>
          /\ cursor' = next
          /\ phase' = "persist"
    /\ UNCHANGED <<admitted, claim, handed, orphans, skipped, gateVars, faults>>
    /\ UNCHANGED <<sent, confirmed, saved, next, restarts>>

(* _persist_offset, _persist_state: a failure also ends the batch. *)
Persist ==
    /\ phase = "persist"
    /\ SaveCursor
    /\ IF saved' = cursor /\ faults' = faults
       THEN /\ phase' = IF batch = <<>> THEN "poll" ELSE "handle"
            /\ UNCHANGED batch
       ELSE /\ phase' = Backoff
            /\ batch' = <<>>
    /\ UNCHANGED dispatchVars
    /\ UNCHANGED <<sent, confirmed, cursor, next, restarts>>

(* The dispatch raised: the rest of the response is dropped and _run_forever
   polls again from the cursor it has. *)
UpdateFailed ==
    /\ phase = "handle"
    /\ pc = "raised"
    /\ Taken
    /\ batch' = <<>>
    /\ phase' = Backoff
    /\ UNCHANGED <<admitted, claim, handed, orphans, skipped, gateVars, faults>>
    /\ UNCHANGED <<sent, confirmed, cursor, saved, next, restarts>>

(* The Gateway does not accept any more: the runner goes on until its stop(). *)
GatewayCloses ==
    /\ phase \notin {"off", "down"}
    /\ restarts < MaxRestarts
    /\ restarts' = restarts + 1
    /\ CloseGate
    /\ UNCHANGED <<sent, confirmed, cursor, saved, batch, next, phase>>

(* stop() cancels the runner; a write already in its thread goes on. *)
Stop ==
    /\ phase \notin {"off", "down"}
    /\ gate = "closed" \/ restarts < MaxRestarts
    /\ restarts' = IF gate = "closed" THEN restarts ELSE restarts + 1
    /\ Cancelled
    /\ saved' \in {saved} \cup {c \in {cursor} : phase = "persist"}
    /\ batch' = <<>>
    /\ phase' = "off"
    /\ UNCHANGED <<sent, confirmed, cursor, next>>

Crash ==
    /\ phase # "down"
    /\ restarts < MaxRestarts
    /\ restarts' = restarts + 1
    /\ Died
    /\ batch' = <<>>
    /\ phase' = "down"
    /\ UNCHANGED <<sent, confirmed, cursor, saved, next>>

Work ==
    \/ (TransactionStep \/ GatewayStep) /\ UNCHANGED pollVars
    \/ StartTelegram
    \/ StartWeixin
    \/ ProbeBot
    \/ StaleOffset
    \/ PollOnce
    \/ HandleUpdate
    \/ TokenNotSaved
    \/ UpdateHandled
    \/ Persist
    \/ UpdateFailed

Next ==
    \/ Send
    \/ Work
    \/ GatewayCloses
    \/ Stop
    \/ Crash

Spec == Init /\ [][Next]_vars

-----------------------------------------------------------------------------
(* Neither the offset in memory, the one in the state file, nor what the
   platform was told passes a message that the Gateway has not taken, does not
   hold in its FIFO, the policy has not turned away and no open claim has
   answered: not after a failed dispatch, a failed save, a stop or a crash at
   any step. Excepted is what a Gateway returned from and did not keep
   (dropped): it did not accept any more (_begin_inbound answers None,
   _handle_claimed_message_entry releases and returns), or its start failed
   after the message had entered the FIFO. *)
CursorsPassHandled ==
    \A m \in Messages :
        m <= Later(cursor, Later(saved, confirmed)) =>
            m \in Denied \cup skipped \cup Kept

(* A message the platform has dropped was handled or turned away, and what it
   sends again is handed on once, swallowed by no key and left in no claim. *)
ConfirmedIsHandled ==
    TypeOK /\ CursorsPassHandled /\ HandedOnce /\ FastPathIsTrue /\ OpenClaimIsOwned

=============================================================================

--------------------------- MODULE NativeDelivery ---------------------------
(***************************************************************************)
(* One outbound message on its way to the platform: the adapter of a       *)
(* Channel sends the artifacts in order (outbound_delivery.py), then the   *)
(* text in chunks (send_message of qq, telegram, weixin and feishu), and   *)
(* the runtime turns what was recorded into a receipt (adapters/runtime).  *)
(* The caller may send the message again, with the same delivery_id and a  *)
(* native message made anew.                                               *)
(*                                                                         *)
(* An answer of the platform may be lost after it accepted, so the error a *)
(* caller sees does not say whether the part is there. QQ, Weixin and      *)
(* Feishu are taken to recognise a part they have by its native identity,  *)
(* before they judge it; Telegram has no identities.                       *)
(***************************************************************************)
EXTENDS Integers, Sequences

CONSTANTS
    Provider,      \* "qq", "telegram", "weixin" or "feishu"
    ArtifactCount, \* artifacts of the message
    ChunkCount,    \* chunks of its text
    MaxAttempts    \* bound on the sends of the message

NativeAssumption ==
    /\ Provider \in {"qq", "telegram", "weixin", "feishu"}
    /\ ArtifactCount \in Nat
    /\ ChunkCount \in Nat
    /\ ArtifactCount + ChunkCount > 0
    /\ MaxAttempts \in Nat

\* max_attempts of Telegram's sendMessage and of Weixin's sendmessage
CallAttempts == 3

Artifacts == 1..ArtifactCount
Chunks == 1..(IF ChunkCount = 0 THEN 1 ELSE ChunkCount)
Pieces == ({"artifact"} \X Artifacts) \cup ({"text"} \X Chunks)

VARIABLES
    attempt,   \* sends so far
    mode,      \* what the send does
    pos,       \* artifact or chunk it is at
    stage,     \* what is next for the artifact: "read", "upload" or "send"
    tries,     \* failed calls for this part
    plain,     \* QQ: the chunk is sent again without markdown
    reply,     \* QQ: a reply reference is still within its window
    stale,     \* Weixin: _auth_stale
    left,      \* message.artifacts
    receipts,  \* metadata artifact_receipts
    failures,  \* artifacts whose failure the notice in the text names
    accepted,  \* platform: identities it has
    copies,    \* platform: [Pieces -> copies of the part]
    before     \* history: copies when the attempt began

sendVars == <<attempt, mode, pos, stage, tries, plain, reply, stale, left, receipts, failures>>
platformVars == <<accepted, copies, before>>
vars == <<sendVars, platformVars>>

Done == {"returned", "raised"}

TypeOK ==
    /\ attempt \in 0..MaxAttempts
    /\ mode \in Done \cup {"idle", "artifacts", "text"}
    /\ pos \in Nat
    /\ stage \in {"read", "upload", "send"}
    /\ tries \in 0..(CallAttempts - 1)
    /\ plain \in BOOLEAN /\ reply \in BOOLEAN /\ stale \in BOOLEAN
    /\ left \in Seq(Artifacts)
    /\ receipts \in Seq([artifact : Artifacts, status : {"delivered", "failed"}])
    /\ failures \subseteq Artifacts
    /\ copies \in [Pieces -> Nat] /\ before \in [Pieces -> Nat]

Suffix(a) == [i \in 1..(ArtifactCount + 1 - a) |-> a + i - 1]

Init ==
    /\ attempt = 0
    /\ mode = "idle"
    /\ pos = 1
    /\ stage = "read"
    /\ tries = 0
    /\ plain = FALSE
    /\ reply = TRUE
    /\ stale = FALSE
    /\ left = <<>>
    /\ receipts = <<>>
    /\ failures = {}
    /\ accepted = {}
    /\ copies = [p \in Pieces |-> 0]
    /\ before = copies

-----------------------------------------------------------------------------
(* Chunks of the text, each with the failures its notice names: the notice is
   appended to the text, so it is in the last chunk, or is all there is. *)
ChunkTexts ==
    IF failures = {}
    THEN [c \in 1..ChunkCount |-> {}]
    ELSE [c \in Chunks |-> IF \A d \in Chunks : d <= c THEN failures ELSE {}]

(* stable_artifact_identity, and the identities of chunks: QQ numbers them and
   names the message it replies to, in the first chunk and with every
   artifact; Feishu hashes the text as well. *)
ArtifactIdentity(a) ==
    IF Provider = "qq" THEN <<"artifact", a, reply>> ELSE <<"artifact", a>>

(* Mutant of ChunkIdentity: numbered by attempt. *)
IdentityOfAttempt(c) == <<"text", c, attempt>>

ChunkIdentity(c) ==
    CASE Provider = "qq"     -> <<"text", c, reply /\ c = 1>>
      [] Provider = "feishu" -> <<"text", c, ChunkTexts[c]>>
      [] OTHER               -> <<"text", c>>

Deduplicates == Provider # "telegram"

(* The platform takes a part, unless it has its identity. *)
Accept(part, identity) ==
    /\ IF Deduplicates /\ identity \in accepted
       THEN UNCHANGED <<accepted, copies>>
       ELSE /\ accepted' = accepted \cup {identity}
            /\ copies' = [copies EXCEPT ![part] = @ + 1]

(* The platform does not take it: it does not have it. *)
NotAccepted(part, identity) ==
    /\ Deduplicates => identity \notin accepted
    /\ UNCHANGED <<accepted, copies>>

(* No answer: the platform may have taken it. *)
Ambiguous(part, identity) ==
    \/ Accept(part, identity)
    \/ NotAccepted(part, identity)

-----------------------------------------------------------------------------
(* send of the runtime and the start of send_message: a new native message;
   the Channel is not started or not enabled, the policy no longer admits the
   Conversation, QQ has no token or Feishu no connection, or the credentials
   of Weixin are stale: it raises and nothing is called. *)
Begin ==
    /\ mode \in Done \cup {"idle"}
    /\ attempt < MaxAttempts
    /\ attempt' = attempt + 1
    /\ \/ ~stale /\ mode' = "artifacts"
       \/ mode' = "raised"
    /\ pos' = 1
    /\ stage' = "read"
    /\ tries' = 0
    /\ plain' = FALSE
    /\ left' = Suffix(1)
    /\ receipts' = <<>>
    /\ failures' = {}
    /\ before' = copies
    /\ UNCHANGED <<reply, stale, accepted, copies>>

(* The passive reply window of QQ closes between two sends. *)
ReplyExpires ==
    /\ Provider = "qq"
    /\ mode \in Done
    /\ reply
    /\ reply' = FALSE
    /\ UNCHANGED <<attempt, mode, pos, stage, tries, plain, stale, left, receipts, failures,
                   platformVars>>

Sending(st) == mode = "artifacts" /\ pos <= ArtifactCount /\ stage = st

NextArtifact ==
    /\ left' = Suffix(pos + 1)
    /\ pos' = pos + 1
    /\ stage' = "read"
    /\ tries' = 0
    /\ UNCHANGED <<attempt, mode, plain, reply, stale>>

RecordDelivery ==
    /\ receipts' = Append(receipts, [artifact |-> pos, status |-> "delivered"])
    /\ NextArtifact
    /\ UNCHANGED failures

(* A permanent failure is recorded and named in the text; the next artifact is
   sent. *)
RecordFailure ==
    /\ receipts' = Append(receipts, [artifact |-> pos, status |-> "failed"])
    /\ failures' = failures \cup {pos}
    /\ NextArtifact

(* Any other error and a cancellation end the send: the artifact and the rest
   stay on the message. *)
RaiseArtifact(st) ==
    /\ mode' = "raised"
    /\ stale' = st
    /\ left' = Suffix(pos)
    /\ UNCHANGED <<attempt, pos, stage, tries, plain, reply, receipts, failures>>

Reach(st) ==
    /\ stage' = st
    /\ UNCHANGED <<attempt, mode, pos, tries, plain, reply, stale, left, receipts, failures>>

(* The managed file is read; gone, changed or of a kind the Conversation does
   not take, it is a permanent failure. *)
ReadManagedArtifact ==
    /\ Sending("read")
    /\ \/ Reach(IF Provider \in {"qq", "weixin"} THEN "upload" ELSE "send")
       \/ RecordFailure
       \/ RaiseArtifact(stale)
    /\ UNCHANGED platformVars

(* The content goes to the platform ahead of the message: nothing is shown
   yet. A rejection of its size or type is permanent; with QQ an answer
   without file_info is too. *)
UploadArtifact ==
    /\ Sending("upload")
    /\ \/ Reach("send")
       \/ RecordFailure
       \/ RaiseArtifact(stale)
       \/ Provider = "weixin" /\ RaiseArtifact(TRUE)
    /\ UNCHANGED platformVars

DeliverArtifact ==
    /\ Accept(<<"artifact", pos>>, ArtifactIdentity(pos))
    /\ RecordDelivery

(* The answer itself says that the artifact cannot be taken. *)
RejectArtifact ==
    /\ NotAccepted(<<"artifact", pos>>, ArtifactIdentity(pos))
    /\ RecordFailure

LoseArtifact ==
    /\ Ambiguous(<<"artifact", pos>>, ArtifactIdentity(pos))
    /\ RaiseArtifact(stale)

(* QQ: the message with the uploaded media; that it had it already is success. *)
SendArtifactQQ ==
    /\ Provider = "qq"
    /\ Sending("send")
    /\ DeliverArtifact \/ RejectArtifact \/ LoseArtifact
    /\ UNCHANGED before

(* Telegram: one call uploads and sends, and is made once. *)
SendArtifactTelegram ==
    /\ Provider = "telegram"
    /\ Sending("send")
    /\ DeliverArtifact \/ RejectArtifact \/ LoseArtifact
    /\ UNCHANGED before

(* Feishu: the SDK says no success and why; its upload_failed also covers
   transport errors, which are not permanent. *)
SendArtifactFeishu ==
    /\ Provider = "feishu"
    /\ Sending("send")
    /\ DeliverArtifact \/ RejectArtifact \/ LoseArtifact
    /\ UNCHANGED before

(* A call of Weixin is made again after a transport error, a 429 or a 5xx. *)
RetryRequest(part, identity) ==
    /\ tries + 1 < CallAttempts
    /\ Ambiguous(part, identity)
    /\ tries' = tries + 1
    /\ UNCHANGED <<attempt, mode, pos, stage, plain, reply, stale, left, receipts, failures>>

(* Weixin: the item of the uploaded media, under the client_id. *)
SendArtifactWeixin ==
    /\ Provider = "weixin"
    /\ Sending("send")
    /\ \/ DeliverArtifact
       \/ RejectArtifact
       \/ LoseArtifact
       \/ RetryRequest(<<"artifact", pos>>, ArtifactIdentity(pos))
       \/ /\ NotAccepted(<<"artifact", pos>>, ArtifactIdentity(pos))
          /\ RaiseArtifact(TRUE)
    /\ UNCHANGED before

(* The batch is done: the text follows, if there is any. *)
ArtifactsDone ==
    /\ mode = "artifacts"
    /\ pos > ArtifactCount
    /\ left' = <<>>
    /\ pos' = 1
    /\ mode' = IF ChunkTexts = <<>> THEN "returned" ELSE "text"
    /\ UNCHANGED <<attempt, stage, tries, plain, reply, stale, receipts, failures, platformVars>>

(* The chunk is there. *)
DeliverChunk ==
    /\ Accept(<<"text", pos>>, ChunkIdentity(pos))
    /\ pos' = pos + 1
    /\ tries' = 0
    /\ plain' = FALSE
    /\ mode' = IF pos = Len(ChunkTexts) THEN "returned" ELSE "text"
    /\ UNCHANGED <<attempt, stage, reply, stale, left, receipts, failures>>

RaiseChunk(st) ==
    /\ mode' = "raised"
    /\ stale' = st
    /\ UNCHANGED <<attempt, pos, stage, tries, plain, reply, left, receipts, failures>>

(* Any error that is not handled, an exhausted retry and a cancellation. *)
LoseChunk ==
    /\ Ambiguous(<<"text", pos>>, ChunkIdentity(pos))
    /\ RaiseChunk(stale)

(* QQ refuses the markdown: the same chunk again, with the same number. *)
PlainFallback ==
    /\ ~plain
    /\ NotAccepted(<<"text", pos>>, ChunkIdentity(pos))
    /\ plain' = TRUE
    /\ UNCHANGED <<attempt, mode, pos, stage, tries, reply, stale, left, receipts, failures>>

(* QQ: markdown if enabled, then plain text; that it had it already is success. *)
SendChunkQQ ==
    /\ Provider = "qq"
    /\ mode = "text"
    /\ DeliverChunk \/ PlainFallback \/ LoseChunk
    /\ UNCHANGED before

(* Telegram answers 429, which says that nothing was sent: again. *)
RateLimited ==
    /\ tries + 1 < CallAttempts
    /\ NotAccepted(<<"text", pos>>, ChunkIdentity(pos))
    /\ tries' = tries + 1
    /\ UNCHANGED <<attempt, mode, pos, stage, plain, reply, stale, left, receipts, failures>>

(* Telegram: nothing is repeated that may have been sent. *)
SendChunkTelegram ==
    /\ Provider = "telegram"
    /\ mode = "text"
    /\ DeliverChunk \/ RateLimited \/ LoseChunk
    /\ UNCHANGED before

(* Feishu: one call of the SDK for each chunk. *)
SendChunkFeishu ==
    /\ Provider = "feishu"
    /\ mode = "text"
    /\ DeliverChunk \/ LoseChunk
    /\ UNCHANGED before

(* Weixin: the text under its client_id; a stale token ends all sends. *)
SendChunkWeixin ==
    /\ Provider = "weixin"
    /\ mode = "text"
    /\ \/ DeliverChunk
       \/ LoseChunk
       \/ RetryRequest(<<"text", pos>>, ChunkIdentity(pos))
       \/ NotAccepted(<<"text", pos>>, ChunkIdentity(pos)) /\ RaiseChunk(TRUE)
    /\ UNCHANGED before

Next ==
    \/ Begin
    \/ ReplyExpires
    \/ ReadManagedArtifact
    \/ UploadArtifact
    \/ SendArtifactQQ
    \/ SendArtifactTelegram
    \/ SendArtifactFeishu
    \/ SendArtifactWeixin
    \/ ArtifactsDone
    \/ SendChunkQQ
    \/ SendChunkTelegram
    \/ SendChunkFeishu
    \/ SendChunkWeixin

Spec == Init /\ [][Next]_vars

-----------------------------------------------------------------------------
(* Items of the public receipt, in content order. *)
ItemReceipts ==
    [i \in DOMAIN receipts |->
        [artifact |-> receipts[i].artifact,
         status |-> IF receipts[i].status = "delivered" THEN "accepted" ELSE "rejected"]]

New(part) == copies[part] - before[part]

(* A receipt says what happened: it has one item for every artifact, in order;
   an accepted one is with the platform, a rejected one was not taken in this
   send, and all of the text is there. *)
ReceiptIsTruthful ==
    mode = "returned" =>
        /\ Len(ItemReceipts) = ArtifactCount
        /\ \A a \in Artifacts :
            /\ ItemReceipts[a].artifact = a
            /\ ItemReceipts[a].status = "accepted" => copies[<<"artifact", a>>] > 0
            /\ ItemReceipts[a].status = "rejected" => New(<<"artifact", a>>) = 0
        /\ \A c \in DOMAIN ChunkTexts : copies[<<"text", c>>] > 0

(* A send that raises keeps truthful evidence: the artifacts before the one
   that failed have their receipts, that one and the rest are still on the
   message, and none is both. *)
EvidenceSurvivesFailure ==
    mode # "idle" /\ attempt > 0 =>
        \A a \in Artifacts :
            (\E i \in DOMAIN receipts : receipts[i].artifact = a)
                <=> ~(\E i \in DOMAIN left : left[i] = a)

(* One send shows no part twice: what is tried again within it is only what
   the platform said it had not taken. *)
NoHiddenResend == \A p \in Pieces : New(p) <= 1

(* A message sent again with the same delivery_id is not shown twice, whatever
   answers of the first send were lost. *)
RetryIsDeduplicated == \A p \in Pieces : copies[p] <= 1

=============================================================================

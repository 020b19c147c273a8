-------------------------- MODULE ProactiveProofs ---------------------------
(***************************************************************************)
(* Proofs about ProactiveDelivery, for every set of calls, destinations,   *)
(* principals and payloads and any number of moved routes, crashes, store  *)
(* failures and cancellations: a destination is handed to the platform at  *)
(* most once for a submission, and what records, claims and callers say of *)
(* it is true.                                                             *)
(***************************************************************************)
EXTENDS ProactiveDelivery, FiniteSetTheorems, TLAPS

Sids == {Sid(c) : c \in Calls}
TaskStates == {"none", "claimed", "sending", "joining", "update", "persist", "ended", "raised"}
Places == {"idle", "lock", "stage", "cleanup", "lookup", "permit", "load", "resolve", "reserve",
           "resume", "gather", "reread", "end", "crashed", "claim", "present", "settle", "joined"}
Before == {"idle", "lock", "stage", "lookup", "permit", "load", "resolve", "reserve",
           "claim", "present", "joined"}
Submitting == {"lookup", "permit", "load", "resolve", "reserve", "resume", "gather", "reread"}

Kinds == States \cup {"none", "capacity", "denied", "staging_failed", "conflict", "no_route", "error",
                      "cancelled", "already", "acquired", "suppressed", "recovery_required"}

(* The values of the variables. *)
Answers == [kind : Kinds, replayed : BOOLEAN]
StatesOf == UNION {[P -> States] : P \in SUBSET Dests}
RecordType ==
    [principal : {PrincipalOf[c] : c \in Calls} \cup {"none"},
     payload : {PayloadOf[c] : c \in Calls} \cup {"none"},
     target : Dests \cup {Thread}, state : StatesOf]
ClaimType == [status : {"none", "in_flight", "completed"}, owner : Calls \cup {"none"}]
Typed ==
    /\ records \in [Sids -> RecordType]
    /\ claims \in [Ids -> ClaimType]
    /\ routes \subseteq Dests
    /\ pc \in [Calls -> Places]
    /\ pinned \in [Calls -> SUBSET Dests]
    /\ task \in [Calls -> [Dests -> TaskStates]]
    /\ verdict \in [Calls -> [Dests -> States]]
    /\ answer \in [Calls -> Answers]
    /\ leader \in [Calls -> Calls]
    /\ locks \in [Ids -> Seq(Calls)]
    /\ staged \subseteq ViaIngress
    /\ taken \in [Calls -> SUBSET Dests]

(* A record pins a destination. *)
Pins == \A s \in Sids : Exists(s) => Pinned(s) # {}

(* The one that may hand a destination to the platform, and what it found. *)
Engaged(c, d) == task[c][d] \in {"claimed", "sending", "joining", "update", "persist"}
Stands(c, d) == task[c][d] # "none" \/ d \in taken[c]
Handed ==
    \A c \in Calls, d \in Dests :
       /\ Stands(c, d) => d \in Pinned(Sid(c))
       /\ Engaged(c, d) => records[Sid(c)].state[d] = "in_flight"
       /\ task[c][d] \in {"update", "persist"} =>
            /\ verdict[c][d] # "in_flight"
            /\ verdict[c][d] \in {"rejected", "retryable"} => d \notin taken[c]
            /\ verdict[c][d] \in {"accepted", "partial"} => d \in taken[c]
Alone ==
    \A c, o \in Calls : c # o /\ Sid(c) = Sid(o) => \A d \in Dests :
       /\ d \in taken[c] => d \notin taken[o]
       /\ Engaged(c, d) => ~Engaged(o, d) /\ d \notin taken[o]

(* Where a call is, and what it has done by then. *)
PlacedAt(c) ==
    /\ pc[c] \in Before => \A d \in Dests : ~Stands(c, d)
    /\ pc[c] = "reserve" => pinned[c] # {}
    /\ pc[c] \in {"resume", "gather", "reread"} => Exists(Sid(c))
    /\ pc[c] = "resume" =>
         /\ pinned[c] \subseteq Pinned(Sid(c))
         /\ \A d \in Dests : task[c][d] \in {"none", "claimed"} /\ d \notin taken[c]
         /\ \A d \in pinned[c] : task[c][d] = "none"
    /\ pc[c] \in {"claim", "present", "settle", "joined"} => Internal(c)
    /\ pc[c] \in {"lock", "stage", "cleanup"} => c \in ViaIngress
    /\ Sid(leader[c]) = Sid(c)
Placed == \A c \in Calls : PlacedAt(c)
StagedAt(c) ==
    /\ c \in ViaIngress /\ pc[c] \in Submitting => c \in staged
    /\ (\E d \in Dests : Working(c, d)) =>
         pc[c] = "gather" \/ \E d \in Dests : task[c][d] = "raised"
Staged == \A c \in Calls : StagedAt(c)

(* What callers and claims rest on. *)
Accepted(s) == Pinned(s) # {} /\ \A d \in Pinned(s) : records[s].state[d] = "accepted"
ToldAt(c) ==
    /\ answer[c].kind \in {"accepted", "acquired"} => Accepted(Sid(c))
    /\ answer[c].kind = "acquired" => claims[IdOf[c]].status = "completed"
    /\ answer[c].kind = "suppressed" => pc[c] = "end"
Told == \A c \in Calls : ToldAt(c)
OneAcquires ==
    \A c, o \in Calls :
       IdOf[c] = IdOf[o] /\ answer[c].kind = "acquired" /\ answer[o].kind = "acquired" => c = o
Claimed ==
    \A i \in Ids : claims[i].status = "completed" =>
       \/ \E c \in Calls : IdOf[c] = i /\ answer[c].kind = "suppressed"
       \/ <<"internal", i>> \in Sids /\ Accepted(<<"internal", i>>)

ProactiveInv ==
    Typed /\ Pins /\ Handed /\ Alone /\ RecordIsTrue /\ Placed /\ Staged
          /\ Told /\ OneAcquires /\ Claimed

-----------------------------------------------------------------------------
(* Operators *)

(* A submission that nothing reserved pins nothing. *)
LEMMA NothingPinned == <<>> \in [{} -> States] /\ DOMAIN <<>> = {} /\ <<>> \in StatesOf
<1>1. <<>> \in [{} -> States] /\ DOMAIN <<>> = {}
  OBVIOUS
<1> QED
  BY <1>1 DEF StatesOf

LEMMA StateType ==
    ASSUME NEW f \in StatesOf
    PROVE  f \in [DOMAIN f -> States] /\ DOMAIN f \subseteq Dests
BY DEF StatesOf

(* A result is a state, and accepted when every destination is. *)
LEMMA ResultIsState ==
    ASSUME NEW r, r.state \in StatesOf
    PROVE  /\ ResultOf(r) \in States
           /\ ResultOf(r) = "accepted"
                <=> DOMAIN r.state # {} /\ \A d \in DOMAIN r.state : r.state[d] = "accepted"
<1> DEFINE P == DOMAIN r.state
           S == {r.state[d] : d \in P}
<1>1. r.state \in [P -> States]
  BY StateType
<1>2. S \subseteq States
  BY <1>1
<1>3. IsFiniteSet(States)
  <2>1. IsFiniteSet({"in_flight"}) /\ IsFiniteSet({"in_flight"} \cup {"accepted"})
    BY FS_Singleton, FS_AddElement
  <2>2. IsFiniteSet(({"in_flight"} \cup {"accepted"}) \cup {"rejected"})
    BY <2>1, FS_AddElement
  <2>3. IsFiniteSet((({"in_flight"} \cup {"accepted"}) \cup {"rejected"}) \cup {"retryable"})
    BY <2>2, FS_AddElement
  <2>4. IsFiniteSet(((({"in_flight"} \cup {"accepted"}) \cup {"rejected"}) \cup {"retryable"}) \cup {"partial"})
    BY <2>3, FS_AddElement
  <2>5. IsFiniteSet((((({"in_flight"} \cup {"accepted"}) \cup {"rejected"}) \cup {"retryable"}) \cup {"partial"})
                      \cup {"unknown"})
    BY <2>4, FS_AddElement
  <2>6. States = (((({"in_flight"} \cup {"accepted"}) \cup {"rejected"}) \cup {"retryable"}) \cup {"partial"})
                   \cup {"unknown"}
    BY DEF States
  <2> QED
    BY <2>5, <2>6
<1>4. IsFiniteSet(S)
  BY <1>2, <1>3, FS_Subset
<1>5. Cardinality(S) = 1 <=> \E x : S = {x}
  BY <1>4, FS_Singleton
<1>6. ResultOf(r) = IF "in_flight" \in S THEN "in_flight"
                    ELSE IF Cardinality(S) = 1 THEN CHOOSE s \in S : TRUE ELSE "partial"
  BY DEF ResultOf
<1>7. CASE Cardinality(S) = 1
  <2>1. PICK x : S = {x}
    BY <1>5, <1>7
  <2>2. (CHOOSE s \in S : TRUE) = x /\ x \in States
    BY <2>1, <1>2
  <2>3. ResultOf(r) = x
    BY <2>1, <2>2, <1>6, <1>7
  <2>4. P # {} /\ \A d \in P : r.state[d] = x
    BY <2>1
  <2> QED
    BY <2>2, <2>3, <2>4
<1>8. CASE Cardinality(S) # 1
  <2>1. ResultOf(r) \in {"in_flight", "partial"}
    BY <1>6, <1>8
  <2>2. ~(P # {} /\ \A d \in P : r.state[d] = "accepted")
    <3> SUFFICES ASSUME P # {}, \A d \in P : r.state[d] = "accepted" PROVE FALSE
      OBVIOUS
    <3>1. S = {"accepted"}
      OBVIOUS
    <3> QED
      BY <3>1, <1>5, <1>8
  <2> QED
    BY <2>1, <2>2 DEF States
<1> QED
  BY <1>7, <1>8

LEMMA AtMostOne ==
    ASSUME NEW S, \A x, y \in S : x = y
    PROVE  Cardinality(S) <= 1
<1>1. CASE S = {}
  BY <1>1, FS_EmptySet
<1>2. CASE S # {}
  <2>1. PICK x : x \in S
    BY <1>2
  <2>2. S = {x}
    BY <2>1
  <2> QED
    BY <2>2, FS_Singleton
<1> QED
  BY <1>1, <1>2

-----------------------------------------------------------------------------
(* Types *)

LEMMA SidType == ASSUME NEW c \in Calls PROVE Sid(c) \in Sids /\ IdOf[c] \in Ids
BY DEF Sids, Ids

LEMMA RecordOfType ==
    ASSUME ProactiveAssumption, Typed, NEW c \in Calls, NEW state \in States
    PROVE  /\ RecordOf(c, state) \in RecordType
           /\ RecordOf(c, state).state = [d \in pinned[c] |-> state]
<1>1. pinned[c] \subseteq Dests
  BY DEF Typed
<1>2. [d \in pinned[c] |-> state] \in [pinned[c] -> States]
  OBVIOUS
<1>3. [d \in pinned[c] |-> state] \in StatesOf
  BY <1>1, <1>2 DEF StatesOf
<1> QED
  BY <1>3 DEF RecordOf, RecordType, ProactiveAssumption

(* What a record is when one destination, or several, get another state. *)
LEMMA ChangedState ==
    ASSUME Typed, NEW s \in Sids, NEW f \in StatesOf,
           records' = [records EXCEPT ![s].state = f]
    PROVE  /\ records' \in [Sids -> RecordType]
           /\ records'[s].state = f
           /\ \A x \in Sids : x # s => records'[x] = records[x]
<1>1. records \in [Sids -> RecordType] /\ records[s] \in RecordType
  BY DEF Typed
<1>2. [records[s] EXCEPT !.state = f] \in RecordType /\ [records[s] EXCEPT !.state = f].state = f
  BY <1>1 DEF RecordType
<1>3. records' = [records EXCEPT ![s] = [records[s] EXCEPT !.state = f]]
  BY <1>1
<1> QED
  BY <1>1, <1>2, <1>3

LEMMA ReturnsType ==
    ASSUME Typed, NEW c \in Calls, NEW kind \in Kinds, NEW replayed \in BOOLEAN,
           Returns(c, kind, replayed)
    PROVE  pc' \in [Calls -> Places] /\ answer' \in [Calls -> Answers]
<1>1. [kind |-> kind, replayed |-> replayed] \in Answers
  BY DEF Answers
<1> QED
  BY <1>1 DEF Returns, Goto, Typed, Places

LEMMA EndsType ==
    ASSUME Typed, NEW c \in Calls, NEW kind \in Kinds, Ends(c, kind)
    PROVE  pc' \in [Calls -> Places] /\ answer' \in [Calls -> Answers]
<1>1. [kind |-> kind, replayed |-> FALSE] \in Answers
  BY DEF Answers
<1> QED
  BY <1>1 DEF Ends, Goto, Typed, Places

LEMMA StartType ==
    ASSUME Typed, NEW c \in Calls, NEW D, NEW to \in TaskStates, SetTasks(c, D, to)
    PROVE  /\ task' \in [Calls -> [Dests -> TaskStates]]
           /\ \A o \in Calls : o # c => task'[o] = task[o]
           /\ \A d \in Dests : task'[c][d] = IF d \in D THEN to ELSE task[c][d]
BY DEF SetTasks, Typed

(* The record of a call, and the result it gives. *)
LEMMA ResultType ==
    ASSUME Typed, NEW c \in Calls
    PROVE  /\ records[Sid(c)] \in RecordType /\ records[Sid(c)].state \in StatesOf
           /\ ResultOf(records[Sid(c)]) \in Kinds
           /\ ResultOf(records[Sid(c)]) \in States
           /\ ResultOf(records[Sid(c)]) = "accepted" <=> Accepted(Sid(c))
           /\ Pinned(Sid(c)) \subseteq Dests
<1>1. records[Sid(c)] \in RecordType
  BY SidType DEF Typed
<1>2. records[Sid(c)].state \in StatesOf
  BY <1>1 DEF RecordType
<1>3. /\ ResultOf(records[Sid(c)]) \in States
      /\ ResultOf(records[Sid(c)]) = "accepted" <=> Accepted(Sid(c))
  BY <1>2, ResultIsState DEF Accepted, Pinned
<1>4. Pinned(Sid(c)) \subseteq Dests
  BY <1>2, StateType DEF Pinned
<1> QED
  BY <1>1, <1>2, <1>3, <1>4 DEF Kinds

LEMMA AnswerType ==
    ASSUME Typed, NEW c \in Calls
    PROVE  /\ answer[c] \in Answers /\ answer[c].kind \in Kinds /\ answer[c].replayed \in BOOLEAN
           /\ answer[c] = [kind |-> answer[c].kind, replayed |-> answer[c].replayed]
BY DEF Typed, Answers

LEMMA InitTyped == ASSUME ProactiveAssumption, Init PROVE Typed
<1>1. NoRecord \in RecordType
  BY NothingPinned DEF NoRecord, RecordType
<1>2. NoClaim \in ClaimType /\ NoAnswer \in Answers
  BY DEF NoClaim, ClaimType, NoAnswer, Answers, Kinds
<1>3. records \in [Sids -> RecordType] /\ claims \in [Ids -> ClaimType] /\ answer \in [Calls -> Answers]
  BY <1>1, <1>2 DEF Init, Sids
<1>4. /\ pc \in [Calls -> Places] /\ pinned \in [Calls -> SUBSET Dests]
      /\ task \in [Calls -> [Dests -> TaskStates]] /\ verdict \in [Calls -> [Dests -> States]]
      /\ leader \in [Calls -> Calls] /\ taken \in [Calls -> SUBSET Dests]
  BY DEF Init, Places, TaskStates, States
<1>5. locks \in [Ids -> Seq(Calls)] /\ staged \subseteq ViaIngress /\ routes \subseteq Dests
  BY DEF Init
<1> QED
  BY <1>3, <1>4, <1>5 DEF Typed

LEMMA TypedWays ==
    ASSUME ProactiveAssumption, Typed, Placed, NEW c \in Calls,
           Arrive(c) \/ Admit(c) \/ Stage(c) \/ Cleanup(c) \/ Call(c) \/ Lookup(c) \/ Permit(c)
    PROVE  Typed'
<1> USE DEF store, world, mine, access
<1>1. CASE Arrive(c)
  <2>1. pc' \in [Calls -> Places] /\ answer' \in [Calls -> Answers]
    <3>1. [kind |-> "capacity", replayed |-> FALSE] \in Answers
      BY DEF Answers, Kinds
    <3>2. CASE Goto(c, "lock") /\ UNCHANGED answer
      BY <3>2 DEF Goto, Typed, Places
    <3>3. CASE Goto(c, "end") /\ answer' = [answer EXCEPT ![c] = [kind |-> "capacity", replayed |-> FALSE]]
      BY <3>1, <3>3 DEF Goto, Typed, Places
    <3> QED
      BY <1>1, <3>2, <3>3 DEF Arrive
  <2>2. locks' \in [Ids -> Seq(Calls)]
    <3>1. Append(locks[IdOf[c]], c) \in Seq(Calls)
      BY SidType DEF Typed
    <3> QED
      BY <1>1, <3>1, SidType DEF Arrive, Typed
  <2> QED
    BY <1>1, <2>1, <2>2 DEF Arrive, Typed
<1>2. CASE Admit(c)
  <2>1. pc' \in [Calls -> Places] /\ answer' \in [Calls -> Answers]
    <3>1. CASE Returns(c, "denied", FALSE)
      BY <3>1, ReturnsType DEF Kinds
    <3>2. CASE Goto(c, "stage") /\ UNCHANGED answer
      BY <3>2 DEF Goto, Typed, Places
    <3> QED
      BY <1>2, <3>1, <3>2 DEF Admit
  <2> QED
    BY <1>2, <2>1 DEF Admit, Typed
<1>3. CASE Stage(c)
  <2>1. CASE staged' = staged \cup {c} /\ Goto(c, "lookup") /\ UNCHANGED answer
    BY <1>3, <2>1 DEF Stage, Goto, Typed, Places, Placed, PlacedAt
  <2>2. CASE Returns(c, "staging_failed", FALSE) /\ UNCHANGED staged
    BY <1>3, <2>2, ReturnsType DEF Stage, Typed, Kinds
  <2> QED
    BY <1>3, <2>1, <2>2 DEF Stage
<1>4. CASE Cleanup(c)
  <2>1. PICK k \in DOMAIN locks[IdOf[c]] :
          locks' = [locks EXCEPT ![IdOf[c]] = SubSeq(@, 1, k - 1) \o SubSeq(@, k + 1, Len(@))]
    BY <1>4 DEF Cleanup
  <2>2. locks[IdOf[c]] \in Seq(Calls) /\ k \in 1..Len(locks[IdOf[c]])
    BY SidType, <2>1 DEF Typed
  <2>3. SubSeq(locks[IdOf[c]], 1, k - 1) \in Seq(Calls)
    BY <2>2
  <2>4. SubSeq(locks[IdOf[c]], k + 1, Len(locks[IdOf[c]])) \in Seq(Calls)
    BY <2>2
  <2>5. locks' \in [Ids -> Seq(Calls)]
    <3>1. SubSeq(locks[IdOf[c]], 1, k - 1) \o SubSeq(locks[IdOf[c]], k + 1, Len(locks[IdOf[c]])) \in Seq(Calls)
      BY <2>3, <2>4
    <3> QED
      BY <2>1, <3>1 DEF Typed
  <2> QED
    BY <1>4, <2>5 DEF Cleanup, Goto, Typed, Places
<1>5. CASE Call(c)
  BY <1>5 DEF Call, Goto, Typed, Places
<1>6. CASE Lookup(c)
  <2>1. pc' \in [Calls -> Places] /\ answer' \in [Calls -> Answers]
    <3>1. CASE Returns(c, "conflict", FALSE)
      BY <3>1, ReturnsType DEF Kinds
    <3>2. CASE Returns(c, ResultOf(records[Sid(c)]), TRUE)
      BY <3>2, ReturnsType, ResultType
    <3>3. CASE Goto(c, "permit") /\ UNCHANGED answer
      BY <3>3 DEF Goto, Typed, Places
    <3> QED
      BY <1>6, <3>1, <3>2, <3>3 DEF Lookup
  <2> QED
    BY <1>6, <2>1 DEF Lookup, Typed
<1>7. CASE Permit(c)
  <2>1. pc' \in [Calls -> Places] /\ answer' \in [Calls -> Answers]
    <3>1. CASE Returns(c, "denied", FALSE)
      BY <3>1, ReturnsType DEF Kinds
    <3>2. CASE Goto(c, "load") /\ UNCHANGED answer
      BY <3>2 DEF Goto, Typed, Places
    <3> QED
      BY <1>7, <3>1, <3>2 DEF Permit
  <2> QED
    BY <1>7, <2>1 DEF Permit, Typed
<1> QED
  BY <1>1, <1>2, <1>3, <1>4, <1>5, <1>6, <1>7

LEMMA TypedSubmit ==
    ASSUME ProactiveAssumption, Typed, NEW c \in Calls,
           \/ Load(c) \/ Resolve(c) \/ Reserve(c) \/ Resume(c) \/ ResumeFails(c) \/ Launch(c)
           \/ Gather(c) \/ Reread(c)
    PROVE  Typed'
<1> USE DEF store, world, mine, access
<1>1. CASE Load(c)
  <2>1. CASE Goto(c, "resolve") /\ UNCHANGED <<answer, pinned>>
    BY <1>1, <2>1 DEF Load, Goto, Typed, Places
  <2>2. CASE Returns(c, "conflict", FALSE) /\ UNCHANGED pinned
    BY <1>1, <2>2, ReturnsType DEF Load, Typed, Kinds
  <2>3. CASE Returns(c, ResultOf(records[Sid(c)]), TRUE) /\ UNCHANGED pinned
    <3>1. pc' \in [Calls -> Places] /\ answer' \in [Calls -> Answers]
      BY <2>3, ReturnsType, ResultType
    <3> QED
      BY <1>1, <2>3, <3>1 DEF Load, Typed
  <2>4. CASE /\ pinned' = [pinned EXCEPT ![c] = RetryableOf(records[Sid(c)])]
             /\ answer' = [answer EXCEPT ![c].replayed = TRUE]
             /\ Goto(c, "resume")
    <3>1. RetryableOf(records[Sid(c)]) \subseteq Dests
      BY ResultType DEF RetryableOf, Pinned
    <3>2. [answer[c] EXCEPT !.replayed = TRUE] \in Answers
      BY AnswerType DEF Answers
    <3>3. answer' \in [Calls -> Answers]
      BY <2>4, <3>2 DEF Typed
    <3>4. pinned' \in [Calls -> SUBSET Dests] /\ pc' \in [Calls -> Places]
      BY <2>4, <3>1 DEF Typed, Goto, Places
    <3> QED
      BY <1>1, <3>3, <3>4 DEF Load, Typed
  <2> QED
    BY <1>1, <2>1, <2>2, <2>3, <2>4 DEF Load
<1>2. CASE Resolve(c)
  <2> DEFINE found == IF TargetOf[c] = Thread THEN routes ELSE {TargetOf[c]}
  <2>1. found \subseteq Dests
    BY DEF Typed, ProactiveAssumption
  <2>2. CASE Returns(c, "no_route", FALSE) /\ UNCHANGED pinned
    BY <1>2, <2>2, ReturnsType DEF Resolve, Typed, Kinds
  <2>3. CASE pinned' = [pinned EXCEPT ![c] = found] /\ Goto(c, "reserve") /\ UNCHANGED answer
    BY <1>2, <2>1, <2>3 DEF Resolve, Typed, Goto, Places
  <2> QED
    BY <1>2, <2>2, <2>3 DEF Resolve
<1>3. CASE Reserve(c)
  <2>1. CASE UNCHANGED <<records, task>> /\ Returns(c, ResultOf(records[Sid(c)]), TRUE)
    <3>1. pc' \in [Calls -> Places] /\ answer' \in [Calls -> Answers]
      BY <2>1, ReturnsType, ResultType
    <3> QED
      BY <1>3, <2>1, <3>1 DEF Reserve, Typed
  <2>2. CASE UNCHANGED <<records, task>> /\ Returns(c, "conflict", FALSE)
    BY <1>3, <2>2, ReturnsType DEF Reserve, Typed, Kinds
  <2>3. CASE UNCHANGED <<records, task>> /\ Returns(c, "capacity", FALSE)
    BY <1>3, <2>3, ReturnsType DEF Reserve, Typed, Kinds
  <2>4. CASE /\ records' = [records EXCEPT ![Sid(c)] = RecordOf(c, "rejected")]
             /\ Returns(c, "rejected", FALSE) /\ UNCHANGED task
    <3>1. records' \in [Sids -> RecordType]
      BY <2>4, RecordOfType DEF Typed, States
    <3> QED
      BY <1>3, <2>4, <3>1, ReturnsType DEF Reserve, Typed, Kinds, States
  <2>5. CASE /\ records' = [records EXCEPT ![Sid(c)] = RecordOf(c, "in_flight")]
             /\ SetTasks(c, pinned[c], "sending")
             /\ Goto(c, "gather") /\ UNCHANGED answer
    <3>1. records' \in [Sids -> RecordType]
      BY <2>5, RecordOfType DEF Typed, States
    <3>2. task' \in [Calls -> [Dests -> TaskStates]]
      BY <2>5, StartType DEF TaskStates
    <3> QED
      BY <1>3, <2>5, <3>1, <3>2 DEF Reserve, Typed, Goto, Places
  <2> QED
    BY <1>3, <2>1, <2>2, <2>3, <2>4, <2>5 DEF Reserve
<1>4. CASE Resume(c)
  <2>1. pinned' \in [Calls -> SUBSET Dests]
    BY <1>4 DEF Resume, Typed
  <2>2. CASE UNCHANGED <<records, task>>
    BY <1>4, <2>1, <2>2 DEF Resume, Typed
  <2>3. CASE \E d \in pinned[c] : /\ Resumable(records[Sid(c)].state[d])
                                 /\ records' = [records EXCEPT ![Sid(c)].state[d] = "in_flight"]
                                 /\ SetTasks(c, {d}, "claimed")
    <3>1. PICK d \in pinned[c] : /\ records' = [records EXCEPT ![Sid(c)].state[d] = "in_flight"]
                                /\ SetTasks(c, {d}, "claimed")
      BY <2>3
    <3>2. [records[Sid(c)].state EXCEPT ![d] = "in_flight"] \in StatesOf
      <4>1. records[Sid(c)].state \in [Pinned(Sid(c)) -> States] /\ Pinned(Sid(c)) \subseteq Dests
        BY ResultType, StateType DEF Pinned
      <4>2. [records[Sid(c)].state EXCEPT ![d] = "in_flight"] \in [Pinned(Sid(c)) -> States]
        BY <4>1 DEF States
      <4> QED
        BY <4>1, <4>2 DEF StatesOf
    <3>3. records' \in [Sids -> RecordType]
      BY <3>1, <3>2, ChangedState, SidType
    <3>4. task' \in [Calls -> [Dests -> TaskStates]]
      BY <3>1, StartType DEF TaskStates
    <3> QED
      BY <1>4, <2>1, <3>3, <3>4 DEF Resume, Typed
  <2> QED
    BY <1>4, <2>2, <2>3 DEF Resume
<1>7. CASE ResumeFails(c)
  <2>1. pc' \in [Calls -> Places] /\ answer' \in [Calls -> Answers]
    BY <1>7, ReturnsType DEF ResumeFails, Kinds
  <2> QED
    BY <1>7, <2>1 DEF ResumeFails, Typed
<1>8. CASE Launch(c)
  <2>1. task' \in [Calls -> [Dests -> TaskStates]]
    BY <1>8, StartType DEF Launch, TaskStates
  <2>2. pc' \in [Calls -> Places]
    BY <1>8 DEF Launch, Goto, Typed, Places
  <2> QED
    BY <1>8, <2>1, <2>2 DEF Launch, Typed
<1>5. CASE Gather(c)
  <2>1. CASE Returns(c, "error", FALSE)
    BY <1>5, <2>1, ReturnsType DEF Gather, Typed, Kinds
  <2>2. CASE Goto(c, "reread") /\ UNCHANGED answer
    BY <1>5, <2>2 DEF Gather, Typed, Goto, Places
  <2> QED
    BY <1>5, <2>1, <2>2 DEF Gather
<1>6. CASE Reread(c)
  <2>1. pc' \in [Calls -> Places] /\ answer' \in [Calls -> Answers]
    BY <1>6, ReturnsType, ResultType, AnswerType DEF Reread
  <2> QED
    BY <1>6, <2>1 DEF Reread, Typed
<1> QED
  BY <1>1, <1>2, <1>3, <1>4, <1>5, <1>6, <1>7, <1>8

LEMMA ClaimTypes ==
    ASSUME Typed, NEW c \in Calls
    PROVE  /\ claims[IdOf[c]] \in ClaimType
           /\ Release(c) => claims' \in [Ids -> ClaimType]
           /\ Complete(c) => claims' \in [Ids -> ClaimType]
<1>1. claims[IdOf[c]] \in ClaimType
  BY SidType DEF Typed
<1>2. NoClaim \in ClaimType
  BY DEF NoClaim, ClaimType
<1>3. [claims[IdOf[c]] EXCEPT !.status = "completed"] \in ClaimType
  BY <1>1 DEF ClaimType
<1>4. Complete(c) => claims' = [claims EXCEPT ![IdOf[c]] = [claims[IdOf[c]] EXCEPT !.status = "completed"]]
  BY DEF Complete
<1> QED
  BY <1>1, <1>2, <1>3, <1>4 DEF Release, Typed

LEMMA TypedOutbound ==
    ASSUME ProactiveAssumption, Typed, NEW c \in Calls,
           Outbound(c) \/ Join(c) \/ Claim(c) \/ Present(c) \/ Settle(c)
    PROVE  Typed'
<1> USE DEF store, world, mine, access
<1>1. CASE Outbound(c)
  <2>1. CASE Goto(c, "claim") /\ UNCHANGED leader
    BY <1>1, <2>1 DEF Outbound, Goto, Typed, Places
  <2>2. CASE /\ Leaders(c) # {} /\ leader' = [leader EXCEPT ![c] = CHOOSE l \in Leaders(c) : TRUE]
             /\ Goto(c, "joined")
    <3>1. (CHOOSE l \in Leaders(c) : TRUE) \in Calls
      BY <2>2 DEF Leaders
    <3> QED
      BY <1>1, <2>2, <3>1 DEF Outbound, Goto, Typed, Places
  <2> QED
    BY <1>1, <2>1, <2>2 DEF Outbound
<1>2. CASE Join(c)
  <2> DEFINE a == answer[leader[c]]
             b == IF a.kind = "acquired" THEN [a EXCEPT !.kind = "already"] ELSE a
  <2>1. a \in Answers
    BY AnswerType DEF Typed
  <2>2. b \in Answers
    BY <2>1 DEF Answers, Kinds
  <2>3. answer' = [answer EXCEPT ![c] = b] /\ Goto(c, "end")
    BY <1>2 DEF Join
  <2>4. answer' \in [Calls -> Answers] /\ pc' \in [Calls -> Places]
    BY <2>2, <2>3 DEF Goto, Typed, Places
  <2> QED
    BY <1>2, <2>4 DEF Join, Typed
<1>3. CASE Claim(c)
  <2>1. CASE /\ claims' = [claims EXCEPT ![IdOf[c]] = [status |-> "in_flight", owner |-> c]]
             /\ Goto(c, "present") /\ UNCHANGED answer
    <3>1. [status |-> "in_flight", owner |-> c] \in ClaimType
      BY DEF ClaimType
    <3>2. claims' \in [Ids -> ClaimType]
      BY <2>1, <3>1 DEF Typed
    <3> QED
      BY <1>3, <2>1, <3>2 DEF Claim, Goto, Typed, Places
  <2>2. CASE UNCHANGED claims /\ (Ends(c, "in_flight") \/ Ends(c, "already"))
    <3>1. pc' \in [Calls -> Places] /\ answer' \in [Calls -> Answers]
      BY <2>2, EndsType DEF Kinds, States
    <3> QED
      BY <1>3, <2>2, <3>1 DEF Claim, Typed
  <2> QED
    BY <1>3, <2>1, <2>2 DEF Claim
<1>4. CASE Present(c)
  <2>1. CASE Goto(c, "load") /\ UNCHANGED <<claims, answer>>
    BY <1>4, <2>1 DEF Present, Goto, Typed, Places
  <2>2. CASE \/ Complete(c) /\ Ends(c, "suppressed")
             \/ Release(c) /\ Ends(c, "recovery_required")
    <3>1. pc' \in [Calls -> Places] /\ answer' \in [Calls -> Answers]
      BY <2>2, EndsType DEF Kinds
    <3> QED
      BY <1>4, <2>2, <3>1, ClaimTypes DEF Present, Typed
  <2> QED
    BY <1>4, <2>1, <2>2 DEF Present
<1>5. CASE Settle(c)
  <2>1. \/ Complete(c) /\ (Ends(c, "already") \/ Ends(c, "acquired"))
        \/ Release(c) /\ Ends(c, answer[c].kind)
        \/ UNCHANGED claims /\ Ends(c, answer[c].kind)
    BY <1>5 DEF Settle
  <2>2. pc' \in [Calls -> Places] /\ answer' \in [Calls -> Answers]
    <3>1. answer[c].kind \in Kinds /\ "already" \in Kinds /\ "acquired" \in Kinds
      BY AnswerType DEF Kinds
    <3> QED
      BY <2>1, <3>1, EndsType
  <2>3. claims' \in [Ids -> ClaimType]
    BY <2>1, ClaimTypes DEF Typed
  <2> QED
    BY <1>5, <2>2, <2>3 DEF Settle, Typed
<1> QED
  BY <1>1, <1>2, <1>3, <1>4, <1>5

(* A destination of one call gets another control, and perhaps a verdict. *)
LEMMA TaskSet ==
    ASSUME Typed, NEW c \in Calls, NEW d \in Dests, NEW to \in TaskStates,
           task' = [task EXCEPT ![c][d] = to]
    PROVE  /\ task' \in [Calls -> [Dests -> TaskStates]]
           /\ task'[c][d] = to
           /\ \A o \in Calls, x \in Dests : <<o, x>> # <<c, d>> => task'[o][x] = task[o][x]
BY DEF Typed

LEMMA VerdictSet ==
    ASSUME Typed, NEW c \in Calls, NEW d \in Dests, NEW to \in States,
           verdict' = [verdict EXCEPT ![c][d] = to]
    PROVE  /\ verdict' \in [Calls -> [Dests -> States]]
           /\ verdict'[c][d] = to
           /\ \A o \in Calls, x \in Dests : <<o, x>> # <<c, d>> => verdict'[o][x] = verdict[o][x]
BY DEF Typed

(* The update of a destination that is in flight. *)
LEMMA Updated ==
    ASSUME Typed, NEW c \in Calls, NEW d \in Dests, d \in Pinned(Sid(c)),
           records' = [records EXCEPT ![Sid(c)].state[d] = verdict[c][d]]
    PROVE  /\ records' \in [Sids -> RecordType]
           /\ records'[Sid(c)].state = [records[Sid(c)].state EXCEPT ![d] = verdict[c][d]]
           /\ \A s \in Sids : s # Sid(c) => records'[s] = records[s]
           /\ Pinned(Sid(c))' = Pinned(Sid(c))
           /\ records'[Sid(c)].state[d] = verdict[c][d]
           /\ \A x \in Pinned(Sid(c)) : x # d => records'[Sid(c)].state[x] = records[Sid(c)].state[x]
<1> DEFINE f == [records[Sid(c)].state EXCEPT ![d] = verdict[c][d]]
<1>1. records[Sid(c)].state \in [Pinned(Sid(c)) -> States] /\ Pinned(Sid(c)) \subseteq Dests
  BY ResultType, StateType DEF Pinned
<1>2. f \in [Pinned(Sid(c)) -> States]
  BY <1>1 DEF Typed
<1>3. f \in StatesOf
  BY <1>1, <1>2 DEF StatesOf
<1>4. records' = [records EXCEPT ![Sid(c)].state = f]
  OBVIOUS
<1>5. /\ records' \in [Sids -> RecordType] /\ records'[Sid(c)].state = f
      /\ \A s \in Sids : s # Sid(c) => records'[s] = records[s]
  BY <1>3, <1>4, ChangedState, SidType
<1>6. DOMAIN f = Pinned(Sid(c)) /\ f[d] = verdict[c][d]
      /\ \A x \in Pinned(Sid(c)) : x # d => f[x] = records[Sid(c)].state[x]
  BY <1>1
<1> HIDE DEF f
<1>7. Pinned(Sid(c))' = DOMAIN (records'[Sid(c)].state)
  BY DEF Pinned, Sid
<1> QED
  BY <1>5, <1>6, <1>7 DEF f

(* An update always finds its destination in flight: it is the only one engaged there. *)
LEMMA UpdateApplies ==
    ASSUME Typed, Handed, NEW c \in Calls, NEW d \in Dests, Update(c, d)
    PROVE  /\ d \in Pinned(Sid(c)) /\ records[Sid(c)].state[d] = "in_flight"
           /\ task[c][d] \in {"update", "persist"}
           /\ records' = [records EXCEPT ![Sid(c)].state[d] = verdict[c][d]]
           /\ \E to \in {"ended", "raised"} : task' = [task EXCEPT ![c][d] = to]
<1>1. task[c][d] \in {"update", "persist"}
  BY DEF Update
<1>2. d \in Pinned(Sid(c)) /\ records[Sid(c)].state[d] = "in_flight"
  BY <1>1 DEF Handed, Stands, Engaged
<1> QED
  BY <1>1, <1>2 DEF Update

LEMMA TypedSend ==
    ASSUME ProactiveAssumption, Typed, Handed, NEW c \in Calls, NEW d \in Dests,
           \/ Joined(c, d) \/ Update(c, d) \/ Take(c, d) \/ UpdateFails(c, d)
           \/ \E state \in States \ {"in_flight"} : Outcome(c, d, state)
    PROVE  Typed'
<1> USE DEF store, world, mine, access
<1>1. CASE Joined(c, d)
  <2>1. task' \in [Calls -> [Dests -> TaskStates]] /\ verdict' \in [Calls -> [Dests -> States]]
    BY <1>1, TaskSet, VerdictSet DEF Joined, TaskStates, States
  <2> QED
    BY <1>1, <2>1 DEF Joined, Typed
<1>2. CASE Update(c, d)
  <2>1. records' \in [Sids -> RecordType]
    BY <1>2, UpdateApplies, Updated
  <2>2. task' \in [Calls -> [Dests -> TaskStates]]
    BY <1>2, UpdateApplies, TaskSet DEF TaskStates
  <2> QED
    BY <1>2, <2>1, <2>2 DEF Update, Typed
<1>3. CASE Take(c, d)
  BY <1>3 DEF Take, Typed
<1>4. CASE UpdateFails(c, d)
  <2>1. task' \in [Calls -> [Dests -> TaskStates]]
    BY <1>4, TaskSet DEF UpdateFails, TaskStates
  <2> QED
    BY <1>4, <2>1 DEF UpdateFails, Typed
<1>5. ASSUME NEW state \in States \ {"in_flight"}, Outcome(c, d, state) PROVE Typed'
  <2>1. task' \in [Calls -> [Dests -> TaskStates]] /\ verdict' \in [Calls -> [Dests -> States]]
    BY <1>5, TaskSet, VerdictSet DEF Outcome, TaskStates
  <2> QED
    BY <1>5, <2>1 DEF Outcome, Typed
<1> QED
  BY <1>1, <1>2, <1>3, <1>4, <1>5

(* A cancellation turns a worker into one to join and interrupts an update. *)
LEMMA Cancelled ==
    ASSUME Typed, NEW c \in Calls, Cancel(c), pc[c] = "gather"
    PROVE  /\ task' \in [Calls -> [Dests -> TaskStates]]
           /\ \A o \in Calls : o # c => task'[o] = task[o]
           /\ \A d \in Dests :
                task'[c][d] = IF task[c][d] = "sending" THEN "joining"
                              ELSE IF task[c][d] \in {"update", "persist"} THEN "raised" ELSE task[c][d]
           /\ UNCHANGED <<pc, answer>>
<1>1. UNCHANGED <<pc, answer>> /\
      task' = [task EXCEPT ![c] = [d \in Dests |->
                          CASE @[d] = "sending" -> "joining"
                            [] @[d] \in {"update", "persist"} -> "raised"
                            [] OTHER -> @[d]]]
  BY DEF Cancel
<1>2. \A d \in Dests : task[c][d] \in TaskStates
  BY DEF Typed
<1>3. \A d \in Dests : (CASE task[c][d] = "sending" -> "joining"
                            [] task[c][d] \in {"update", "persist"} -> "raised"
                            [] OTHER -> task[c][d])
        = IF task[c][d] = "sending" THEN "joining"
          ELSE IF task[c][d] \in {"update", "persist"} THEN "raised" ELSE task[c][d]
  BY <1>2 DEF TaskStates
<1>4. task' = [task EXCEPT ![c] = [d \in Dests |->
                 IF task[c][d] = "sending" THEN "joining"
                 ELSE IF task[c][d] \in {"update", "persist"} THEN "raised" ELSE task[c][d]]]
  BY <1>1, <1>3 DEF Typed
<1> QED
  BY <1>1, <1>2, <1>4 DEF Typed, TaskStates

(* A crash interrupts every worker and every update. *)
LEMMA Crashed ==
    ASSUME Typed, Crash
    PROVE  /\ task' \in [Calls -> [Dests -> TaskStates]]
           /\ \A c \in Calls, d \in Dests :
                task'[c][d] = IF Engaged(c, d) THEN "raised" ELSE task[c][d]
           /\ pc' \in [Calls -> Places]
           /\ \A c \in Calls : pc'[c] = IF Running(c) THEN "crashed" ELSE pc[c]
BY DEF Crash, Typed, Engaged, Working, TaskStates, Places

LEMMA TypedWorld ==
    ASSUME ProactiveAssumption, Typed,
           \/ \E c \in Calls : Cancel(c) \/ Revoke(PrincipalOf[c])
           \/ RouteMoves \/ Crash
    PROVE  Typed'
<1> USE DEF store, world, mine, access
<1>1. ASSUME NEW c \in Calls, Cancel(c) PROVE Typed'
  <2>1. CASE pc[c] = "gather"
    BY <1>1, <2>1, Cancelled DEF Cancel, Typed
  <2>2. CASE pc[c] # "gather"
    BY <1>1, <2>2, ReturnsType DEF Cancel, Typed, Kinds
  <2> QED
    BY <2>1, <2>2
<1>2. ASSUME NEW c \in Calls, Revoke(PrincipalOf[c]) PROVE Typed'
  BY <1>2 DEF Revoke, Typed
<1>3. CASE RouteMoves
  BY <1>3 DEF RouteMoves, Typed
<1>4. CASE Crash
  <2>1. locks' \in [Ids -> Seq(Calls)]
    BY <1>4 DEF Crash
  <2> QED
    BY <1>4, <2>1, Crashed DEF Crash, Typed
<1> QED
  BY <1>1, <1>2, <1>3, <1>4

LEMMA NextTyped ==
    ASSUME ProactiveAssumption, Typed, Placed, Handed, Next
    PROVE  Typed'
<1>1. ASSUME NEW c \in Calls, Step(c) PROVE Typed'
  BY <1>1, TypedWays, TypedSubmit, TypedOutbound DEF Step
<1>2. ASSUME NEW c \in Calls, Cancel(c) \/ ResumeFails(c) \/ Revoke(PrincipalOf[c]) PROVE Typed'
  BY <1>2, TypedWorld, TypedSubmit
<1>3. ASSUME NEW c \in Calls, NEW d \in Dests, Send(c, d) \/ Take(c, d) \/ UpdateFails(c, d) PROVE Typed'
  BY <1>3, TypedSend DEF Send
<1>4. CASE RouteMoves \/ Crash
  BY <1>4, TypedWorld
<1> QED
  BY <1>1, <1>2, <1>3, <1>4 DEF Next, NextOf

-----------------------------------------------------------------------------
(* Who may hand a destination to the platform, and what its record says *)

Quiet == UNCHANGED <<records, task, verdict, taken>>
Core == Pins /\ Handed /\ Alone /\ RecordIsTrue

LEMMA QuietCore == ASSUME Core, Quiet PROVE Core'
BY DEF Core, Quiet, Pins, Handed, Alone, RecordIsTrue, Exists, Pinned, Stands, Engaged, Sid, Sids, Same,
       NoRecord

(* A submission exists when it pins something. *)
LEMMA PinnedExists ==
    ASSUME Pins, NEW s \in Sids
    PROVE  Exists(s) <=> Pinned(s) # {}
<1>1. ~Exists(s) => Pinned(s) = {}
  BY NothingPinned DEF Exists, Pinned, NoRecord
<1> QED
  BY <1>1 DEF Pins

(* Workers are interrupted, joined or end with a verdict that is true. *)
LEMMA CoreEases ==
    ASSUME Typed, Core, UNCHANGED <<records, taken>>,
           \A c \in Calls, d \in Dests :
              /\ task'[c][d] # "none" => task[c][d] # "none"
              /\ Engaged(c, d)' => Engaged(c, d)
              /\ task'[c][d] \in {"update", "persist"} =>
                   /\ verdict'[c][d] # "in_flight"
                   /\ verdict'[c][d] \in {"rejected", "retryable"} => d \notin taken[c]
                   /\ verdict'[c][d] \in {"accepted", "partial"} => d \in taken[c]
    PROVE  Core'
<1>1. Pins' /\ RecordIsTrue'
  BY DEF Core, Pins, RecordIsTrue, Exists, Pinned, Sid, Sids, Same, NoRecord
<1>2. Handed'
  BY DEF Core, Handed, Stands, Engaged, Pinned, Sid
<1>3. Alone'
  BY DEF Core, Alone, Engaged, Sid
<1> QED
  BY <1>1, <1>2, <1>3 DEF Core

LEMMA CoreOutcome ==
    ASSUME Typed, Core, NEW c \in Calls, NEW d \in Dests, NEW state \in States \ {"in_flight"},
           Outcome(c, d, state)
    PROVE  Core'
<1>1. /\ task'[c][d] = "update" /\ verdict'[c][d] = state
      /\ \A o \in Calls, x \in Dests : <<o, x>> # <<c, d>> =>
           task'[o][x] = task[o][x] /\ verdict'[o][x] = verdict[o][x]
  <2>1. task' = [task EXCEPT ![c][d] = "update"]
    BY DEF Outcome
  <2>2. "update" \in TaskStates
    BY DEF TaskStates
  <2>3. task'[c][d] = "update" /\ \A o \in Calls, x \in Dests : <<o, x>> # <<c, d>> => task'[o][x] = task[o][x]
    BY <2>1, <2>2, TaskSet
  <2>4. verdict' = [verdict EXCEPT ![c][d] = state]
    BY DEF Outcome
  <2>5. state \in States
    OBVIOUS
  <2>6. verdict'[c][d] = state
        /\ \A o \in Calls, x \in Dests : <<o, x>> # <<c, d>> => verdict'[o][x] = verdict[o][x]
    BY <2>4, <2>5, VerdictSet
  <2> QED
    BY <2>3, <2>6
<1>2. UNCHANGED <<records, taken>>
  BY DEF Outcome, store
<1>3. \A o \in Calls, x \in Dests : <<o, x>> = <<c, d>> <=> o = c /\ x = d
  OBVIOUS
<1>4. \A o \in Calls, x \in Dests :
              /\ task'[o][x] # "none" => task[o][x] # "none"
              /\ Engaged(o, x)' => Engaged(o, x)
              /\ task'[o][x] \in {"update", "persist"} =>
                   /\ verdict'[o][x] # "in_flight"
                   /\ verdict'[o][x] \in {"rejected", "retryable"} => x \notin taken[o]
                   /\ verdict'[o][x] \in {"accepted", "partial"} => x \in taken[o]
  BY <1>1, <1>3 DEF Outcome, Engaged, Core, Handed
<1> QED
  BY <1>2, <1>4, CoreEases

LEMMA CoreJoined ==
    ASSUME Typed, Core, NEW c \in Calls, NEW d \in Dests, Joined(c, d)
    PROVE  Core'
<1>1. /\ task'[c][d] = "persist" /\ verdict'[c][d] = "unknown"
      /\ \A o \in Calls, x \in Dests : <<o, x>> # <<c, d>> =>
           task'[o][x] = task[o][x] /\ verdict'[o][x] = verdict[o][x]
  <2>1. task' = [task EXCEPT ![c][d] = "persist"]
    BY DEF Joined
  <2>2. "persist" \in TaskStates
    BY DEF TaskStates
  <2>3. task'[c][d] = "persist" /\ \A o \in Calls, x \in Dests : <<o, x>> # <<c, d>> => task'[o][x] = task[o][x]
    BY <2>1, <2>2, TaskSet
  <2>4. verdict' = [verdict EXCEPT ![c][d] = "unknown"]
    BY DEF Joined
  <2>5. "unknown" \in States
    BY DEF States
  <2>6. verdict'[c][d] = "unknown"
        /\ \A o \in Calls, x \in Dests : <<o, x>> # <<c, d>> => verdict'[o][x] = verdict[o][x]
    BY <2>4, <2>5, VerdictSet
  <2> QED
    BY <2>3, <2>6
<1>2. UNCHANGED <<records, taken>>
  BY DEF Joined, store
<1>3. \A o \in Calls, x \in Dests : <<o, x>> = <<c, d>> <=> o = c /\ x = d
  OBVIOUS
<1>4. \A o \in Calls, x \in Dests :
              /\ task'[o][x] # "none" => task[o][x] # "none"
              /\ Engaged(o, x)' => Engaged(o, x)
              /\ task'[o][x] \in {"update", "persist"} =>
                   /\ verdict'[o][x] # "in_flight"
                   /\ verdict'[o][x] \in {"rejected", "retryable"} => x \notin taken[o]
                   /\ verdict'[o][x] \in {"accepted", "partial"} => x \in taken[o]
  BY <1>1, <1>3 DEF Joined, Engaged, Core, Handed
<1> QED
  BY <1>2, <1>4, CoreEases

(* The store fails, the caller is cancelled, the process ends: nothing is engaged that was not. *)
LEMMA CoreInterrupted ==
    ASSUME Typed, Core, UNCHANGED <<records, verdict, taken>>,
           \A c \in Calls, d \in Dests :
              \/ task'[c][d] = task[c][d]
              \/ Engaged(c, d) /\ task'[c][d] \in {"joining", "raised"}
    PROVE  Core'
<1>1. \A o \in Calls, x \in Dests :
              /\ task'[o][x] # "none" => task[o][x] # "none"
              /\ Engaged(o, x)' => Engaged(o, x)
              /\ task'[o][x] \in {"update", "persist"} =>
                   /\ verdict'[o][x] # "in_flight"
                   /\ verdict'[o][x] \in {"rejected", "retryable"} => x \notin taken[o]
                   /\ verdict'[o][x] \in {"accepted", "partial"} => x \in taken[o]
  BY DEF Engaged, Core, Handed
<1> QED
  BY <1>1, CoreEases

LEMMA CoreUpdateFails ==
    ASSUME Typed, Core, NEW c \in Calls, NEW d \in Dests, UpdateFails(c, d)
    PROVE  Core'
<1>1. task'[c][d] = "raised" /\ \A o \in Calls, x \in Dests : <<o, x>> # <<c, d>> => task'[o][x] = task[o][x]
  BY TaskSet DEF UpdateFails, TaskStates
<1>2. Engaged(c, d) /\ UNCHANGED <<records, verdict, taken>>
  BY DEF UpdateFails, Engaged, store
<1>3. \A o \in Calls, x \in Dests : <<o, x>> = <<c, d>> <=> o = c /\ x = d
  OBVIOUS
<1> QED
  BY <1>1, <1>2, <1>3, CoreInterrupted

LEMMA CoreCancel ==
    ASSUME Typed, Core, NEW c \in Calls, Cancel(c)
    PROVE  Core'
<1>1. UNCHANGED <<records, verdict, taken>>
  BY DEF Cancel, store
<1>2. CASE pc[c] = "gather"
  <2>1. \A o \in Calls, d \in Dests :
              \/ task'[o][d] = task[o][d]
              \/ Engaged(o, d) /\ task'[o][d] \in {"joining", "raised"}
    BY <1>2, Cancelled DEF Engaged
  <2> QED
    BY <1>1, <2>1, CoreInterrupted
<1>3. CASE pc[c] # "gather"
  BY <1>1, <1>3, QuietCore DEF Cancel, Quiet
<1> QED
  BY <1>2, <1>3

LEMMA CoreCrash == ASSUME Typed, Core, Crash PROVE Core'
BY Crashed, CoreInterrupted DEF Crash, store

LEMMA CoreTake ==
    ASSUME Typed, Core, NEW c \in Calls, NEW d \in Dests, Take(c, d)
    PROVE  Core'
<1>1. /\ UNCHANGED <<records, task, verdict>> /\ task[c][d] \in {"sending", "joining"}
      /\ taken'[c] = taken[c] \cup {d} /\ \A o \in Calls : o # c => taken'[o] = taken[o]
  BY DEF Take, Working, store, Typed
<1>2. Pins'
  BY <1>1 DEF Core, Pins, Exists, Pinned, Sids, Sid, NoRecord
<1>3. Handed'
  BY <1>1 DEF Core, Handed, Stands, Engaged, Pinned, Sid
<1>4. Alone'
  BY <1>1 DEF Core, Alone, Engaged, Sid
<1>5. RecordIsTrue'
  <2>1. \A s \in DOMAIN records : \A x \in Pinned(s) :
          (\E o \in Same(s) : x \in taken'[o]) <=> (\E o \in Same(s) : x \in taken[o]) \/ (s = Sid(c) /\ x = d)
    BY <1>1 DEF Same
  <2>2. records[Sid(c)].state[d] = "in_flight"
    BY <1>1 DEF Core, Handed, Engaged
  <2> QED
    BY <1>1, <2>1, <2>2 DEF Core, RecordIsTrue, Pinned, Same, Sid
<1> QED
  BY <1>2, <1>3, <1>4, <1>5 DEF Core

LEMMA CoreUpdate ==
    ASSUME Typed, Core, NEW c \in Calls, NEW d \in Dests, Update(c, d)
    PROVE  Core'
<1> DEFINE s == Sid(c)
<1>1. /\ d \in Pinned(s) /\ records[s].state[d] = "in_flight" /\ task[c][d] \in {"update", "persist"}
      /\ UNCHANGED <<verdict, taken>>
  BY UpdateApplies DEF Core, Update, store
<1>2. /\ records' \in [Sids -> RecordType]
      /\ \A x \in Sids : x # s => records'[x] = records[x]
      /\ Pinned(s)' = Pinned(s)
      /\ records'[s].state[d] = verdict[c][d]
      /\ \A x \in Pinned(s) : x # d => records'[s].state[x] = records[s].state[x]
  <2>1. d \in Pinned(Sid(c)) /\ records' = [records EXCEPT ![Sid(c)].state[d] = verdict[c][d]]
    BY UpdateApplies DEF Core
  <2> QED
    BY <2>1, Updated
<1>3. /\ task'[c][d] \in {"ended", "raised"}
      /\ \A o \in Calls, x \in Dests : o # c \/ x # d => task'[o][x] = task[o][x]
  <2>1. PICK to \in {"ended", "raised"} : task' = [task EXCEPT ![c][d] = to]
    BY UpdateApplies DEF Core
  <2>2. to \in TaskStates
    BY DEF TaskStates
  <2>3. /\ task'[c][d] = to
        /\ \A o \in Calls, x \in Dests : <<o, x>> # <<c, d>> => task'[o][x] = task[o][x]
    BY <2>1, <2>2, TaskSet
  <2>4. \A o \in Calls, x \in Dests : <<o, x>> = <<c, d>> <=> o = c /\ x = d
    OBVIOUS
  <2> QED
    BY <2>3, <2>4
<1>4. /\ Engaged(c, d) /\ ~Engaged(c, d)'
      /\ \A o \in Calls, x \in Dests : o # c \/ x # d => (Engaged(o, x)' <=> Engaged(o, x))
  BY <1>1, <1>3 DEF Engaged
<1>5. \A o \in Calls : o # c /\ Sid(o) = s => ~Engaged(o, d) /\ d \notin taken[o]
  BY <1>4 DEF Core, Alone
<1>6. s \in Sids /\ DOMAIN records = Sids /\ DOMAIN records' = Sids /\ \A o \in Calls : Sid(o) \in Sids
  BY <1>2, SidType DEF Typed
<1>7. \A x \in Sids : Pinned(x)' = Pinned(x)
  BY <1>2, <1>6 DEF Pinned
<1> HIDE DEF s
<1>8. Pins'
  <2>1. \A x \in Sids : Pinned(x)' # {} => Exists(x)'
    BY NothingPinned DEF Exists, Pinned, NoRecord
  <2>2. \A x \in Sids : Exists(x)' => Exists(x)
    <3> SUFFICES ASSUME NEW x \in Sids, Exists(x)', ~Exists(x) PROVE FALSE
      OBVIOUS
    <3>1. x # s
      BY <1>1, PinnedExists DEF Core
    <3> QED
      BY <1>2, <3>1 DEF Exists, NoRecord
  <2>3. Sids' = Sids
    BY DEF Sids, Sid
  <2> QED
    BY <1>7, <2>2, <2>3 DEF Core, Pins
<1>9. Handed'
  <2> SUFFICES ASSUME NEW o \in Calls, NEW x \in Dests
               PROVE  /\ Stands(o, x)' => x \in Pinned(Sid(o))'
                      /\ Engaged(o, x)' => records'[Sid(o)].state[x] = "in_flight"
                      /\ task'[o][x] \in {"update", "persist"} =>
                           /\ verdict'[o][x] # "in_flight"
                           /\ verdict'[o][x] \in {"rejected", "retryable"} => x \notin taken'[o]
                           /\ verdict'[o][x] \in {"accepted", "partial"} => x \in taken'[o]
    BY DEF Handed, Sid
  <2>1. Stands(o, x)' => Stands(o, x)
    BY <1>1, <1>3 DEF Stands
  <2>2. Pinned(Sid(o))' = Pinned(Sid(o))
    BY <1>6, <1>7 DEF Sid
  <2>3. Engaged(o, x)' => records'[Sid(o)].state[x] = "in_flight"
    <3> SUFFICES ASSUME Engaged(o, x)' PROVE records'[Sid(o)].state[x] = "in_flight"
      OBVIOUS
    <3>1. Engaged(o, x) /\ x \in Pinned(Sid(o)) /\ records[Sid(o)].state[x] = "in_flight"
      BY <1>4 DEF Core, Handed, Stands, Engaged
    <3>2. CASE Sid(o) # s
      BY <3>1, <3>2, <1>2, <1>6
    <3>3. CASE Sid(o) = s
      <4>1. x # d
        BY <1>4, <1>5, <3>1, <3>3
      <4> QED
        BY <1>2, <3>1, <3>3, <4>1
    <3> QED
      BY <3>2, <3>3
  <2> QED
    BY <1>1, <1>3, <2>1, <2>2, <2>3 DEF Core, Handed
<1>10. Alone'
  BY <1>1, <1>4 DEF Core, Alone, Sid
<1>11. RecordIsTrue'
  <2> SUFFICES ASSUME NEW x \in Sids, NEW e \in Pinned(x)
               PROVE  /\ records'[x].state[e] \in {"rejected", "retryable"} => ~\E o \in Same(x) : e \in taken[o]
                      /\ records'[x].state[e] \in {"accepted", "partial"} => \E o \in Same(x) : e \in taken[o]
    BY <1>1, <1>6, <1>7 DEF RecordIsTrue, Same, Sid
  <2>1. CASE x = s /\ e = d
    <3>1. c \in Same(x) /\ \A o \in Same(x) : o # c => d \notin taken[o]
      BY <1>5, <2>1 DEF Same, s
    <3>2. /\ verdict[c][d] \in {"rejected", "retryable"} => d \notin taken[c]
          /\ verdict[c][d] \in {"accepted", "partial"} => d \in taken[c]
      BY <1>1 DEF Core, Handed
    <3> QED
      BY <1>2, <2>1, <3>1, <3>2
  <2>2. CASE ~(x = s /\ e = d)
    <3>1. records'[x].state[e] = records[x].state[e]
      BY <1>2, <2>2
    <3> QED
      BY <1>6, <3>1 DEF Core, RecordIsTrue
  <2> QED
    BY <2>1, <2>2
<1> QED
  BY <1>8, <1>9, <1>10, <1>11 DEF Core

(* Nobody stands where nothing is pinned, and no one is engaged where a retry is due. *)
LEMMA NobodyThere ==
    ASSUME Typed, Core, NEW s \in Sids, NEW d \in Dests,
           d \notin Pinned(s) \/ records[s].state[d] = "retryable"
    PROVE  \A o \in Calls : Sid(o) = s => d \notin taken[o] /\ ~Engaged(o, d)
<1>1. CASE d \notin Pinned(s)
  BY <1>1 DEF Core, Handed, Stands, Engaged
<1>2. CASE d \in Pinned(s) /\ records[s].state[d] = "retryable"
  <2>1. s \in DOMAIN records
    BY DEF Typed
  <2>2. ~\E o \in Same(s) : d \in taken[o]
    BY <1>2, <2>1 DEF Core, RecordIsTrue
  <2> QED
    BY <1>2, <2>2 DEF Core, Handed, Same
<1> QED
  BY <1>1, <1>2

(* A call that has sent nothing yet takes free destinations of its submission, which are in flight
   from then on. *)
LEMMA CoreEngages ==
    ASSUME Typed, Core, NEW c \in Calls, NEW D, UNCHANGED <<verdict, taken>>,
           NEW to \in {"claimed", "sending"}, SetTasks(c, D, to),
           \A d \in Dests : task[c][d] \in {"none", "claimed"} /\ d \notin taken[c],
           \A d \in D : task[c][d] = "none",
           D \subseteq Pinned(Sid(c))',
           \A d \in Dests : d \notin D => (d \in Pinned(Sid(c))' <=> d \in Pinned(Sid(c))),
           records' \in [Sids -> RecordType],
           \A s \in Sids : s # Sid(c) => records'[s] = records[s],
           \A d \in D : /\ records'[Sid(c)].state[d] = "in_flight"
                        /\ d \notin Pinned(Sid(c)) \/ records[Sid(c)].state[d] = "retryable",
           \A d \in Pinned(Sid(c))' : d \notin D => records'[Sid(c)].state[d] = records[Sid(c)].state[d]
    PROVE  Handed' /\ Alone' /\ RecordIsTrue'
<1> DEFINE s == Sid(c)
<1>1. s \in Sids /\ DOMAIN records = Sids /\ DOMAIN records' = Sids /\ \A o \in Calls : Sid(o) \in Sids
  BY SidType DEF Typed
<1>2. /\ \A o \in Calls : o # c => task'[o] = task[o]
      /\ \A d \in Dests : task'[c][d] = IF d \in D THEN to ELSE task[c][d]
  BY StartType DEF TaskStates
<1>3. D \subseteq Dests
  <2>1. records'[s].state \in StatesOf
    BY <1>1 DEF RecordType
  <2> QED
    BY <2>1, StateType DEF Pinned, Sid
<1>4. \A d \in D : \A o \in Calls : Sid(o) = s => d \notin taken[o] /\ ~Engaged(o, d)
  BY <1>1, <1>3, NobodyThere
<1>5. \A d \in Dests : Engaged(c, d)' <=> d \in D \/ Engaged(c, d)
  BY <1>2 DEF Engaged
<1>6. \A x \in Sids, d \in Dests : d \in Pinned(x) => d \in Pinned(x)'
  BY <1>1 DEF Pinned, Sid
<1>7. Handed'
  <2> SUFFICES ASSUME NEW o \in Calls, NEW x \in Dests
               PROVE  /\ Stands(o, x)' => x \in Pinned(Sid(o))'
                      /\ Engaged(o, x)' => records'[Sid(o)].state[x] = "in_flight"
                      /\ task'[o][x] \in {"update", "persist"} =>
                           /\ verdict'[o][x] # "in_flight"
                           /\ verdict'[o][x] \in {"rejected", "retryable"} => x \notin taken'[o]
                           /\ verdict'[o][x] \in {"accepted", "partial"} => x \in taken'[o]
    BY DEF Handed, Sid
  <2>1. CASE o = c
    <3>1. CASE x \in D
      BY <1>2, <2>1, <3>1 DEF Stands, Engaged, Sid
    <3>2. CASE x \notin D
      <4>1. task'[o][x] = task[o][x] /\ task[o][x] \in {"none", "claimed"} /\ x \notin taken'[o]
        BY <1>2, <2>1, <3>2
      <4>2. task[o][x] = "claimed" => x \in Pinned(Sid(c)) /\ records[Sid(c)].state[x] = "in_flight"
        BY <2>1 DEF Core, Handed, Stands, Engaged
      <4>3. task[o][x] = "claimed" => x \in Pinned(Sid(c))' /\ records'[Sid(c)].state[x] = "in_flight"
        BY <3>2, <4>2
      <4> QED
        BY <2>1, <4>1, <4>3 DEF Stands, Engaged, Sid
    <3> QED
      BY <3>1, <3>2
  <2>2. CASE o # c
    <3>1. task'[o] = task[o] /\ (Stands(o, x)' <=> Stands(o, x)) /\ (Engaged(o, x)' <=> Engaged(o, x))
      BY <1>2, <2>2 DEF Stands, Engaged
    <3>2. Stands(o, x)' => x \in Pinned(Sid(o))'
      <4>1. Stands(o, x) => x \in Pinned(Sid(o))
        BY DEF Core, Handed
      <4> QED
        BY <3>1, <4>1, <1>1, <1>6 DEF Sid
    <3>3. Engaged(o, x) => records'[Sid(o)].state[x] = "in_flight"
      <4> SUFFICES ASSUME Engaged(o, x) PROVE records'[Sid(o)].state[x] = "in_flight"
        OBVIOUS
      <4>1. x \in Pinned(Sid(o)) /\ records[Sid(o)].state[x] = "in_flight"
        BY DEF Core, Handed, Stands, Engaged
      <4>2. CASE Sid(o) # s
        BY <1>1, <4>1, <4>2
      <4>3. CASE Sid(o) = s
        <5>1. x \notin D
          BY <1>4, <4>3
        <5>2. x \in Pinned(Sid(c))'
          BY <1>6, <1>1, <4>1, <4>3 DEF Sid
        <5> QED
          BY <4>1, <4>3, <5>1, <5>2
      <4> QED
        BY <4>2, <4>3
    <3> QED
      BY <3>1, <3>2, <3>3 DEF Core, Handed
  <2> QED
    BY <2>1, <2>2
<1>8. Alone'
  <2> SUFFICES ASSUME NEW o \in Calls, NEW p \in Calls, o # p, Sid(o) = Sid(p), NEW d \in Dests
               PROVE  /\ d \in taken[o] => d \notin taken[p]
                      /\ Engaged(o, d)' => ~Engaged(p, d)' /\ d \notin taken[p]
    BY DEF Alone, Sid
  <2>1. /\ d \in taken[o] => d \notin taken[p]
        /\ Engaged(o, d) => ~Engaged(p, d) /\ d \notin taken[p]
    BY DEF Core, Alone
  <2>2. CASE o = c
    <3>1. Engaged(o, d)' <=> d \in D \/ Engaged(o, d)
      BY <1>5, <2>2
    <3>2. Engaged(p, d)' <=> Engaged(p, d)
      BY <1>2, <2>2 DEF Engaged
    <3> QED
      BY <1>4, <2>1, <2>2, <3>1, <3>2
  <2>3. CASE p = c
    <3>1. Engaged(p, d)' <=> d \in D \/ Engaged(p, d)
      BY <1>5, <2>3
    <3>2. Engaged(o, d)' <=> Engaged(o, d)
      BY <1>2, <2>3 DEF Engaged
    <3> QED
      BY <1>4, <2>1, <2>3, <3>1, <3>2
  <2>4. CASE o # c /\ p # c
    BY <1>2, <2>1, <2>4 DEF Engaged
  <2> QED
    BY <2>2, <2>3, <2>4
<1>9. RecordIsTrue'
  <2> SUFFICES ASSUME NEW x \in Sids, NEW e \in Pinned(x)'
               PROVE  /\ records'[x].state[e] \in {"rejected", "retryable"} => ~\E o \in Same(x) : e \in taken[o]
                      /\ records'[x].state[e] \in {"accepted", "partial"} => \E o \in Same(x) : e \in taken[o]
    BY <1>1 DEF RecordIsTrue, Same, Sid
  <2>1. CASE x = s /\ e \in D
    BY <2>1
  <2>2. CASE ~(x = s /\ e \in D)
    <3>1. e \in Pinned(x) /\ records'[x].state[e] = records[x].state[e]
      <4>1. CASE x # s
        BY <4>1 DEF Pinned
      <4>2. CASE x = s
        <5>1. records'[s].state \in StatesOf
          BY <1>1 DEF RecordType
        <5>2. e \in Dests /\ e \in Pinned(Sid(c))'
          BY <4>2, <5>1, StateType DEF Pinned, Sid
        <5> QED
          BY <2>2, <4>2, <5>2
      <4> QED
        BY <4>1, <4>2
    <3> QED
      BY <1>1, <3>1 DEF Core, RecordIsTrue
  <2> QED
    BY <2>1, <2>2
<1> QED
  BY <1>7, <1>8, <1>9

LEMMA CoreReserve ==
    ASSUME ProactiveAssumption, Typed, Core, Placed, NEW c \in Calls, Reserve(c)
    PROVE  Core'
<1> DEFINE s == Sid(c)
<1>1. /\ UNCHANGED <<verdict, taken>> /\ pinned[c] # {} /\ pinned[c] \subseteq Dests
      /\ \A d \in Dests : ~Stands(c, d)
  BY DEF Reserve, access, Placed, PlacedAt, Before, Typed
<1>2. s \in Sids /\ records \in [Sids -> RecordType] /\ Sids' = Sids /\ \A o \in Calls : Sid(o) \in Sids
  BY SidType DEF Typed, Sids, Sid
<1>3. CASE UNCHANGED <<records, task>>
  BY <1>1, <1>3, QuietCore DEF Quiet
<1>4. ASSUME NEW state \in {"rejected", "in_flight"}, ~Exists(s),
             records' = [records EXCEPT ![s] = RecordOf(c, state)]
      PROVE  /\ records' \in [Sids -> RecordType] /\ Pinned(s) = {} /\ Pinned(s)' = pinned[c]
             /\ \A d \in pinned[c] : records'[s].state[d] = state
             /\ \A x \in Sids : x # s => records'[x] = records[x]
             /\ Pins'
  <2>1. RecordOf(c, state) \in RecordType /\ RecordOf(c, state).state = [d \in pinned[c] |-> state]
    <3>1. state \in States
      BY DEF States
    <3> QED
      BY <3>1, RecordOfType
  <2>2. /\ records' \in [Sids -> RecordType] /\ records'[s].state = [d \in pinned[c] |-> state]
        /\ \A x \in Sids : x # s => records'[x] = records[x]
    BY <1>2, <1>4, <2>1
  <2>3. Pinned(s) = {}
    BY <1>2, <1>4, PinnedExists DEF Core
  <2>4. Pinned(s)' = pinned[c]
    BY <2>2 DEF Pinned, Sid
  <2>5. Pins'
    BY <1>1, <1>2, <2>2, <2>4 DEF Core, Pins, Exists, Pinned, NoRecord
  <2> QED
    BY <2>2, <2>3, <2>4, <2>5
<1>5. CASE /\ ~Exists(s) /\ records' = [records EXCEPT ![s] = RecordOf(c, "rejected")]
           /\ UNCHANGED task
  <2>1. /\ records' \in [Sids -> RecordType] /\ Pinned(s) = {} /\ Pinned(s)' = pinned[c]
        /\ \A d \in pinned[c] : records'[s].state[d] = "rejected"
        /\ \A x \in Sids : x # s => records'[x] = records[x]
        /\ Pins'
    BY <1>4, <1>5
  <2> HIDE DEF s
  <2>2. \A o \in Calls, d \in Dests : Sid(o) = s => ~Stands(o, d)
    BY <2>1 DEF Core, Handed
  <2>3. Handed'
    <3> SUFFICES ASSUME NEW o \in Calls, NEW x \in Dests
                 PROVE  /\ Stands(o, x) => x \in Pinned(Sid(o))'
                        /\ Engaged(o, x) => records'[Sid(o)].state[x] = "in_flight"
                        /\ task[o][x] \in {"update", "persist"} =>
                             /\ verdict[o][x] # "in_flight"
                             /\ verdict[o][x] \in {"rejected", "retryable"} => x \notin taken[o]
                             /\ verdict[o][x] \in {"accepted", "partial"} => x \in taken[o]
      BY <1>1, <1>5 DEF Handed, Stands, Engaged, Sid
    <3>1. CASE Sid(o) = s
      BY <2>2, <3>1 DEF Stands, Engaged
    <3>2. CASE Sid(o) # s
      <4>1. records'[Sid(o)] = records[Sid(o)] /\ Pinned(Sid(o))' = Pinned(Sid(o))
        BY <1>2, <2>1, <3>2 DEF Pinned, Sid
      <4> QED
        BY <4>1 DEF Core, Handed
    <3> QED
      BY <3>1, <3>2
  <2>4. Alone'
    BY <1>1, <1>5 DEF Core, Alone, Engaged, Sid
  <2>5. RecordIsTrue'
    <3> SUFFICES ASSUME NEW x \in Sids, NEW e \in Pinned(x)'
                 PROVE  /\ records'[x].state[e] \in {"rejected", "retryable"} => ~\E o \in Same(x) : e \in taken[o]
                        /\ records'[x].state[e] \in {"accepted", "partial"} => \E o \in Same(x) : e \in taken[o]
      BY <1>1, <1>2, <2>1 DEF RecordIsTrue, Same, Sid
    <3>1. CASE x = s
      <4>1. records'[x].state[e] = "rejected" /\ e \in Dests
        BY <1>1, <2>1, <3>1
      <4> QED
        BY <2>2, <3>1, <4>1 DEF Same, Stands
    <3>2. CASE x # s
      <4>1. records'[x] = records[x] /\ e \in Pinned(x) /\ x \in DOMAIN records
        BY <1>2, <2>1, <3>2 DEF Pinned
      <4> QED
        BY <4>1 DEF Core, RecordIsTrue
    <3> QED
      BY <3>1, <3>2
  <2> QED
    BY <2>1, <2>3, <2>4, <2>5 DEF Core
<1>6. CASE /\ ~Exists(s) /\ records' = [records EXCEPT ![s] = RecordOf(c, "in_flight")]
           /\ SetTasks(c, pinned[c], "sending")
  <2>1. /\ records' \in [Sids -> RecordType] /\ Pinned(s) = {} /\ Pinned(s)' = pinned[c]
        /\ \A d \in pinned[c] : records'[s].state[d] = "in_flight"
        /\ \A x \in Sids : x # s => records'[x] = records[x]
        /\ Pins'
    BY <1>4, <1>6
  <2>2. \A d \in Dests : task[c][d] = "none" /\ d \notin taken[c]
    BY <1>1 DEF Stands
  <2>3. Handed' /\ Alone' /\ RecordIsTrue'
    BY <1>1, <1>6, <2>1, <2>2, CoreEngages
  <2> QED
    BY <2>1, <2>3 DEF Core
<1> QED
  BY <1>3, <1>5, <1>6 DEF Reserve

(* What Resume does: it passes a destination over, or that is in flight again. *)
LEMMA Resumed ==
    ASSUME Typed, Placed, NEW c \in Calls, Resume(c)
    PROVE  \/ UNCHANGED <<records, task>>
           \/ \E d \in pinned[c] :
                /\ d \in Pinned(Sid(c)) /\ task[c][d] = "none"
                /\ pinned'[c] = pinned[c] \ {d}
                /\ SetTasks(c, {d}, "claimed")
                /\ records' \in [Sids -> RecordType]
                /\ \A s \in Sids : s # Sid(c) => records'[s] = records[s]
                /\ Pinned(Sid(c))' = Pinned(Sid(c))
                /\ records[Sid(c)].state[d] = "retryable" /\ records'[Sid(c)].state[d] = "in_flight"
                /\ \A x \in Pinned(Sid(c)) : x # d => records'[Sid(c)].state[x] = records[Sid(c)].state[x]
<1> SUFFICES ASSUME ~UNCHANGED <<records, task>>
             PROVE  \E d \in pinned[c] :
                /\ d \in Pinned(Sid(c)) /\ task[c][d] = "none"
                /\ pinned'[c] = pinned[c] \ {d}
                /\ SetTasks(c, {d}, "claimed")
                /\ records' \in [Sids -> RecordType]
                /\ \A s \in Sids : s # Sid(c) => records'[s] = records[s]
                /\ Pinned(Sid(c))' = Pinned(Sid(c))
                /\ records[Sid(c)].state[d] = "retryable" /\ records'[Sid(c)].state[d] = "in_flight"
                /\ \A x \in Pinned(Sid(c)) : x # d => records'[Sid(c)].state[x] = records[Sid(c)].state[x]
  OBVIOUS
<1>1. PICK d \in pinned[c] :
        /\ pinned' = [pinned EXCEPT ![c] = @ \ {d}]
        /\ Resumable(records[Sid(c)].state[d])
        /\ records' = [records EXCEPT ![Sid(c)].state[d] = "in_flight"]
        /\ SetTasks(c, {d}, "claimed")
  BY DEF Resume
<1>2. /\ d \in Pinned(Sid(c)) /\ task[c][d] = "none" /\ records[Sid(c)].state[d] = "retryable"
      /\ pinned'[c] = pinned[c] \ {d}
  <2>1. pinned[c] \subseteq Pinned(Sid(c)) /\ \A x \in pinned[c] : task[c][x] = "none"
    BY DEF Placed, PlacedAt, Resume
  <2> QED
    BY <1>1, <2>1 DEF Resumable, Typed
<1> DEFINE f == [records[Sid(c)].state EXCEPT ![d] = "in_flight"]
<1>3. records[Sid(c)].state \in [Pinned(Sid(c)) -> States] /\ Pinned(Sid(c)) \subseteq Dests
  BY ResultType, StateType DEF Pinned
<1>4. f \in [Pinned(Sid(c)) -> States]
  BY <1>3 DEF States
<1>5. /\ DOMAIN f = Pinned(Sid(c)) /\ f[d] = "in_flight"
      /\ \A x \in Pinned(Sid(c)) : x # d => f[x] = records[Sid(c)].state[x]
  BY <1>2, <1>3
<1>6. records' = [records EXCEPT ![Sid(c)].state = f]
  BY <1>1
<1> HIDE DEF f
<1>7. f \in StatesOf
  BY <1>3, <1>4 DEF StatesOf
<1>8. /\ records' \in [Sids -> RecordType] /\ records'[Sid(c)].state = f
      /\ \A s \in Sids : s # Sid(c) => records'[s] = records[s]
  BY <1>6, <1>7, ChangedState, SidType
<1>9. Pinned(Sid(c))' = Pinned(Sid(c))
  BY <1>5, <1>8 DEF Pinned, Sid
<1> QED
  BY <1>1, <1>2, <1>5, <1>8, <1>9

LEMMA CoreResume ==
    ASSUME Typed, Core, Placed, NEW c \in Calls, Resume(c)
    PROVE  Core'
<1>1. /\ UNCHANGED <<verdict, taken>> /\ Exists(Sid(c))
      /\ \A d \in Dests : task[c][d] \in {"none", "claimed"} /\ d \notin taken[c]
  BY DEF Resume, access, Placed, PlacedAt
<1>2. CASE UNCHANGED <<records, task>>
  BY <1>1, <1>2, QuietCore DEF Quiet
<1>3. CASE ~UNCHANGED <<records, task>>
  <2>1. PICK d \in pinned[c] :
                /\ d \in Pinned(Sid(c)) /\ task[c][d] = "none"
                /\ SetTasks(c, {d}, "claimed")
                /\ records' \in [Sids -> RecordType]
                /\ \A s \in Sids : s # Sid(c) => records'[s] = records[s]
                /\ Pinned(Sid(c))' = Pinned(Sid(c))
                /\ records[Sid(c)].state[d] = "retryable" /\ records'[Sid(c)].state[d] = "in_flight"
                /\ \A x \in Pinned(Sid(c)) : x # d => records'[Sid(c)].state[x] = records[Sid(c)].state[x]
    BY <1>3, Resumed
  <2>2. Handed' /\ Alone' /\ RecordIsTrue'
    BY <1>1, <2>1, CoreEngages
  <2>3. Pins'
    <3>1. Pinned(Sid(c)) # {} /\ Sids' = Sids
      BY <2>1 DEF Sids, Sid
    <3> SUFFICES ASSUME NEW s \in Sids, Exists(s)' PROVE Pinned(s)' # {}
      BY <3>1 DEF Pins
    <3>2. CASE s = Sid(c)
      BY <2>1, <3>1, <3>2 DEF Pinned, Sid
    <3>3. CASE s # Sid(c)
      BY <2>1, <3>3 DEF Core, Pins, Exists, Pinned, NoRecord
    <3> QED
      BY <3>2, <3>3
  <2> QED
    BY <2>2, <2>3 DEF Core
<1> QED
  BY <1>2, <1>3

(* Those that are claimed are as engaged as those that are sent. *)
LEMMA CoreLaunch ==
    ASSUME Typed, Core, Placed, NEW c \in Calls, Launch(c)
    PROVE  Core'
<1> DEFINE claimed == {d \in Dests : task[c][d] = "claimed"}
<1>1. /\ UNCHANGED <<records, verdict, taken>> /\ SetTasks(c, claimed, "sending")
      /\ \A d \in Dests : task[c][d] \in {"none", "claimed"}
  BY DEF Launch, store, Placed, PlacedAt
<1>2. /\ \A o \in Calls : o # c => task'[o] = task[o]
      /\ \A d \in Dests : task'[c][d] = IF d \in claimed THEN "sending" ELSE task[c][d]
  BY <1>1, StartType DEF TaskStates
<1>3. \A o \in Calls, d \in Dests :
        /\ task'[o][d] # "none" => task[o][d] # "none"
        /\ Engaged(o, d)' => Engaged(o, d)
        /\ task'[o][d] \in {"update", "persist"} => task[o][d] \in {"update", "persist"}
  <2> SUFFICES ASSUME NEW o \in Calls, NEW d \in Dests
               PROVE  /\ task'[o][d] # "none" => task[o][d] # "none"
                      /\ Engaged(o, d)' => Engaged(o, d)
                      /\ task'[o][d] \in {"update", "persist"} => task[o][d] \in {"update", "persist"}
    OBVIOUS
  <2>1. CASE o = c
    BY <1>2, <2>1 DEF Engaged
  <2>2. CASE o # c
    BY <1>2, <2>2 DEF Engaged
  <2> QED
    BY <2>1, <2>2
<1>4. \A o \in Calls, d \in Dests : task'[o][d] \in {"update", "persist"} =>
        /\ verdict'[o][d] # "in_flight"
        /\ verdict'[o][d] \in {"rejected", "retryable"} => d \notin taken[o]
        /\ verdict'[o][d] \in {"accepted", "partial"} => d \in taken[o]
  BY <1>1, <1>3 DEF Core, Handed
<1> QED
  BY <1>1, <1>3, <1>4, CoreEases

LEMMA QuietStep ==
    ASSUME NEW c \in Calls,
           \/ Arrive(c) \/ Admit(c) \/ Stage(c) \/ Cleanup(c) \/ Call(c) \/ Lookup(c) \/ Permit(c)
           \/ Load(c) \/ Resolve(c) \/ Gather(c) \/ Reread(c) \/ ResumeFails(c)
           \/ Outbound(c) \/ Join(c) \/ Claim(c) \/ Present(c) \/ Settle(c)
    PROVE  Quiet
BY DEF Quiet, store, mine, Arrive, Admit, Stage, Cleanup, Call, Lookup, Permit, Load, Resolve, Gather, Reread,
       ResumeFails, Outbound, Join, Claim, Present, Settle

LEMMA NextCore ==
    ASSUME ProactiveAssumption, Typed, Core, Placed, Next
    PROVE  Core'
<1>1. ASSUME NEW c \in Calls, Step(c) PROVE Core'
  <2>1. CASE Reserve(c)
    BY <2>1, CoreReserve
  <2>2. CASE Resume(c)
    BY <2>2, CoreResume
  <2>3. CASE Launch(c)
    BY <2>3, CoreLaunch
  <2>4. CASE ~Reserve(c) /\ ~Resume(c) /\ ~Launch(c)
    BY <1>1, <2>4, QuietStep, QuietCore DEF Step
  <2> QED
    BY <2>1, <2>2, <2>3, <2>4
<1>2. ASSUME NEW c \in Calls, Cancel(c) \/ ResumeFails(c) PROVE Core'
  BY <1>2, CoreCancel, QuietStep, QuietCore
<1>3. ASSUME NEW c \in Calls, Revoke(PrincipalOf[c]) PROVE Core'
  BY <1>3, QuietCore DEF Revoke, Quiet, store, mine
<1>4. ASSUME NEW c \in Calls, NEW d \in Dests, Send(c, d) \/ Take(c, d) \/ UpdateFails(c, d) PROVE Core'
  BY <1>4, CoreJoined, CoreUpdate, CoreOutcome, CoreTake, CoreUpdateFails DEF Send
<1>5. CASE RouteMoves
  BY <1>5, QuietCore DEF RouteMoves, Quiet, store, mine
<1>6. CASE Crash
  BY <1>6, CoreCrash
<1> QED
  BY <1>1, <1>2, <1>3, <1>4, <1>5, <1>6 DEF Next, NextOf

-----------------------------------------------------------------------------
(* Where the calls are *)

(* A submission keeps its destinations, and one that is accepted stays so. *)
LEMMA RecordsStay ==
    ASSUME ProactiveAssumption, Typed, Core, Placed, Next
    PROVE  /\ \A s \in Sids : Exists(s) => Exists(s)' /\ Pinned(s)' = Pinned(s)
           /\ \A s \in Sids : Accepted(s) => Accepted(s)'
<1> DEFINE Stays == /\ \A s \in Sids : Exists(s) => Exists(s)' /\ Pinned(s)' = Pinned(s)
                    /\ \A s \in Sids : Accepted(s) => Accepted(s)'
<1>1. CASE UNCHANGED records
  BY <1>1 DEF Exists, Pinned, Accepted, NoRecord
<1>2. ASSUME NEW c \in Calls, \A s \in Sids : s # Sid(c) => records'[s] = records[s],
             Exists(Sid(c)) => /\ Pinned(Sid(c))' = Pinned(Sid(c))
                               /\ \A d \in Pinned(Sid(c)) : records[Sid(c)].state[d] = "accepted"
                                                         => records'[Sid(c)].state[d] = "accepted"
      PROVE  Stays
  <2> SUFFICES ASSUME NEW s \in Sids
               PROVE  /\ Exists(s) => Exists(s)' /\ Pinned(s)' = Pinned(s)
                      /\ Accepted(s) => Accepted(s)'
    OBVIOUS
  <2>1. Core' /\ Sids' = Sids
    BY NextCore DEF Sids, Sid
  <2>2. (Exists(s) <=> Pinned(s) # {}) /\ (Exists(s)' <=> Pinned(s)' # {})
    <3>1. Pins' /\ Pins
      BY <2>1 DEF Core
    <3>2. Pinned(s)' # {} => Exists(s)'
      BY NothingPinned DEF Exists, Pinned, NoRecord
    <3> QED
      BY <2>1, <3>1, <3>2, PinnedExists DEF Pins
  <2>3. CASE s # Sid(c)
    BY <1>2, <2>3 DEF Exists, Pinned, Accepted, NoRecord
  <2>4. CASE s = Sid(c)
    <3>1. Pinned(s)' = Pinned(Sid(c))'
      BY <2>4 DEF Sid
    <3> QED
      BY <1>2, <2>2, <2>4, <3>1 DEF Accepted
  <2> QED
    BY <2>3, <2>4
<1>3. ASSUME NEW c \in Calls, Reserve(c) PROVE Stays
  <2>1. CASE UNCHANGED records
    BY <1>1, <2>1
  <2>2. CASE ~UNCHANGED records
    <3>1. ~Exists(Sid(c)) /\ \E r : records' = [records EXCEPT ![Sid(c)] = r]
      BY <1>3, <2>2 DEF Reserve
    <3>2. \A s \in Sids : s # Sid(c) => records'[s] = records[s]
      BY <3>1 DEF Typed
    <3> QED
      BY <1>2, <3>1, <3>2
  <2> QED
    BY <2>1, <2>2
<1>4. ASSUME NEW c \in Calls, Resume(c) PROVE Stays
  <2>1. /\ \A s \in Sids : s # Sid(c) => records'[s] = records[s]
        /\ Pinned(Sid(c))' = Pinned(Sid(c))
        /\ \A d \in Pinned(Sid(c)) : records[Sid(c)].state[d] # "retryable"
                                  => records'[Sid(c)].state[d] = records[Sid(c)].state[d]
    <3>1. CASE UNCHANGED <<records, task>>
      BY <3>1 DEF Pinned, Sid
    <3>2. CASE ~UNCHANGED <<records, task>>
      BY <1>4, <3>2, Resumed
    <3> QED
      BY <3>1, <3>2
  <2> QED
    BY <1>2, <2>1
<1>5. ASSUME NEW c \in Calls, NEW d \in Dests, Update(c, d) PROVE Stays
  <2>1. /\ d \in Pinned(Sid(c)) /\ records[Sid(c)].state[d] = "in_flight"
        /\ records' = [records EXCEPT ![Sid(c)].state[d] = verdict[c][d]]
    BY <1>5, UpdateApplies DEF Core
  <2>2. /\ \A s \in Sids : s # Sid(c) => records'[s] = records[s]
        /\ Pinned(Sid(c))' = Pinned(Sid(c))
        /\ \A x \in Pinned(Sid(c)) : x # d => records'[Sid(c)].state[x] = records[Sid(c)].state[x]
    BY <2>1, Updated
  <2> QED
    BY <1>2, <2>1, <2>2
<1>6. CASE \/ \E c \in Calls : Cancel(c) \/ ResumeFails(c) \/ Launch(c) \/ Revoke(PrincipalOf[c])
           \/ RouteMoves \/ Crash
  BY <1>1, <1>6 DEF Cancel, ResumeFails, Launch, Revoke, RouteMoves, Crash, store
<1>7. ASSUME NEW c \in Calls, NEW d \in Dests, ~Update(c, d),
             Send(c, d) \/ Take(c, d) \/ UpdateFails(c, d)
      PROVE  Stays
  BY <1>1, <1>7 DEF Send, Joined, Outcome, Take, UpdateFails, store
<1>8. ASSUME NEW c \in Calls, Step(c), ~Reserve(c), ~Resume(c), ~Launch(c) PROVE Stays
  <2>1. Quiet
    BY <1>8, QuietStep DEF Step
  <2> QED
    BY <1>1, <2>1 DEF Quiet
<1> QED
  BY <1>3, <1>4, <1>5, <1>6, <1>7, <1>8 DEF Next, NextOf

(* A step of a call, or its cancellation, leaves the other calls where they are. *)
Others(c) ==
    /\ taken' = taken
    /\ \A o \in Calls : o # c =>
         /\ pc'[o] = pc[o] /\ answer'[o] = answer[o] /\ pinned'[o] = pinned[o] /\ leader'[o] = leader[o]
         /\ task'[o] = task[o] /\ (o \in staged' <=> o \in staged)

LEMMA StepIsOwn ==
    ASSUME Typed, NEW c \in Calls, Step(c) \/ Cancel(c) \/ ResumeFails(c)
    PROVE  Others(c)
<1> USE DEF Others, Typed, Goto, Returns, Ends, mine, access
<1>1. CASE Arrive(c) \/ Admit(c) \/ Stage(c) \/ Cleanup(c) \/ Call(c)
  BY <1>1 DEF Arrive, Admit, Stage, Cleanup, Call
<1>2. CASE Lookup(c) \/ Permit(c) \/ Load(c) \/ Resolve(c)
  BY <1>2 DEF Lookup, Permit, Load, Resolve
<1>3. CASE Reserve(c)
  BY <1>3 DEF Reserve, SetTasks
<1>4. CASE Resume(c) \/ ResumeFails(c) \/ Launch(c)
  BY <1>4 DEF Resume, ResumeFails, Launch, SetTasks
<1>5. CASE Gather(c) \/ Reread(c) \/ Outbound(c) \/ Join(c) \/ Claim(c) \/ Present(c)
  BY <1>5 DEF Gather, Reread, Outbound, Join, Claim, Present
<1>6. CASE Settle(c)
  BY <1>6 DEF Settle
<1>7. CASE Cancel(c)
  BY <1>7 DEF Cancel
<1> QED
  BY <1>1, <1>2, <1>3, <1>4, <1>5, <1>6, <1>7 DEF Step

LEMMA OthersPlaced ==
    ASSUME ProactiveAssumption, Typed, Core, Placed, Staged, Next, NEW c \in Calls, Others(c)
    PROVE  \A o \in Calls : o # c => PlacedAt(o)' /\ StagedAt(o)'
<1> SUFFICES ASSUME NEW o \in Calls, o # c PROVE PlacedAt(o)' /\ StagedAt(o)'
  OBVIOUS
<1>1. /\ pc'[o] = pc[o] /\ pinned'[o] = pinned[o] /\ leader'[o] = leader[o] /\ task'[o] = task[o]
      /\ taken' = taken /\ (o \in staged' <=> o \in staged)
  BY DEF Others
<1>2. PlacedAt(o) /\ StagedAt(o)
  BY DEF Placed, Staged
<1>3. Exists(Sid(o)) => Exists(Sid(o))' /\ Pinned(Sid(o))' = Pinned(Sid(o))
  BY RecordsStay, SidType DEF Sid
<1>4. PlacedAt(o)'
  BY <1>1, <1>2, <1>3 DEF PlacedAt, Stands, Internal, Sid
<1>5. StagedAt(o)'
  BY <1>1, <1>2 DEF StagedAt, Working
<1> QED
  BY <1>4, <1>5

(* Where a call may come next. *)
LEMMA QuietPlaced ==
    ASSUME ProactiveAssumption, Typed, Core, Placed, Staged, NEW c \in Calls, Quiet,
           UNCHANGED <<pinned, leader, staged>>,
           NEW to, pc'[c] = to,
           to \in Before => pc[c] \in Before,
           to \notin {"reserve", "resume"},
           to \in {"gather", "reread"} => pc[c] = "gather",
           to \in {"claim", "present", "settle", "joined"} => Internal(c),
           to \in {"lock", "stage", "cleanup"} => c \in ViaIngress,
           to \in Submitting => pc[c] \in Submitting \/ c \notin ViaIngress,
           pc[c] = "gather" => \A d \in Dests : Working(c, d) => \E x \in Dests : task[c][x] = "raised"
    PROVE  PlacedAt(c)' /\ StagedAt(c)'
<1>1. PlacedAt(c) /\ StagedAt(c)
  BY DEF Placed, Staged
<1>2. PlacedAt(c)'
  BY <1>1 DEF PlacedAt, Quiet, Stands, Exists, Pinned, Internal, Sid, NoRecord
<1>3. StagedAt(c)'
  BY <1>1 DEF StagedAt, Quiet, Working
<1> QED
  BY <1>2, <1>3

LEMMA ReturnsTo ==
    ASSUME Typed, NEW c \in Calls, NEW kind, NEW replayed, Returns(c, kind, replayed)
    PROVE  /\ pc'[c] \in {"settle", "cleanup", "end"}
           /\ pc'[c] = "settle" => Internal(c)
           /\ pc'[c] = "cleanup" => c \in ViaIngress
           /\ answer'[c] = [kind |-> kind, replayed |-> replayed]
BY DEF Returns, Goto, Typed

(* A call that returns. *)
LEMMA ReturnPlaced ==
    ASSUME ProactiveAssumption, Typed, Core, Placed, Staged, NEW c \in Calls, Quiet,
           UNCHANGED <<pinned, leader, staged>>, NEW kind, NEW replayed, Returns(c, kind, replayed),
           pc[c] = "gather" => \A d \in Dests : Working(c, d) => \E x \in Dests : task[c][x] = "raised"
    PROVE  PlacedAt(c)' /\ StagedAt(c)'
<1>1. /\ pc'[c] \in {"settle", "cleanup", "end"}
      /\ pc'[c] = "settle" => Internal(c)
      /\ pc'[c] = "cleanup" => c \in ViaIngress
  BY ReturnsTo
<1>2. /\ pc'[c] \notin Before /\ pc'[c] \notin Submitting
      /\ pc'[c] \notin {"claim", "present", "joined", "lock", "stage", "reserve", "resume", "gather", "reread"}
  BY <1>1 DEF Before, Submitting
<1> QED
  BY <1>1, <1>2, QuietPlaced

LEMMA PlacedWays ==
    ASSUME ProactiveAssumption, Typed, Core, Placed, Staged, NEW c \in Calls,
           Arrive(c) \/ Admit(c) \/ Stage(c) \/ Cleanup(c) \/ Call(c) \/ Lookup(c) \/ Permit(c)
    PROVE  PlacedAt(c)' /\ StagedAt(c)'
<1>0. Quiet
  BY QuietStep
<1> USE DEF mine, access
<1>1. CASE Arrive(c)
  <2>1. UNCHANGED <<pinned, leader, staged>> /\ pc[c] = "idle" /\ c \in ViaIngress /\ pc'[c] \in {"end", "lock"}
    BY <1>1 DEF Arrive, Goto, Typed
  <2> QED
    BY <1>0, <2>1, QuietPlaced DEF Before, Submitting
<1>2. CASE Admit(c)
  <2>1. UNCHANGED <<pinned, leader, staged>> /\ pc[c] = "lock" /\ c \in ViaIngress
    BY <1>2 DEF Admit, Placed, PlacedAt
  <2>2. CASE Returns(c, "denied", FALSE)
    BY <1>0, <2>1, <2>2, ReturnPlaced
  <2>3. CASE Goto(c, "stage")
    <3>1. pc'[c] = "stage"
      BY <2>3 DEF Goto, Typed
    <3> QED
      BY <1>0, <2>1, <3>1, QuietPlaced DEF Before, Submitting
  <2> QED
    BY <1>2, <2>2, <2>3 DEF Admit
<1>3. CASE Stage(c)
  <2>1. UNCHANGED <<pinned, leader>> /\ pc[c] = "stage"
    BY <1>3 DEF Stage
  <2>2. CASE Returns(c, "staging_failed", FALSE) /\ UNCHANGED staged
    BY <1>0, <2>1, <2>2, ReturnPlaced
  <2>3. CASE Goto(c, "lookup") /\ staged' = staged \cup {c}
    <3>1. pc'[c] = "lookup"
      BY <2>3 DEF Goto, Typed
    <3>2. PlacedAt(c)'
      BY <1>0, <2>1, <3>1 DEF Placed, PlacedAt, Quiet, Stands, Sid, Before
    <3>3. StagedAt(c)'
      BY <1>0, <2>1, <2>3, <3>1 DEF Staged, StagedAt, Quiet, Working
    <3> QED
      BY <3>2, <3>3
  <2> QED
    BY <1>3, <2>2, <2>3 DEF Stage
<1>4. CASE Cleanup(c)
  <2>1. UNCHANGED <<pinned, leader>> /\ pc[c] = "cleanup" /\ pc'[c] = "end"
    BY <1>4 DEF Cleanup, Goto, Typed
  <2>2. PlacedAt(c)'
    BY <1>0, <2>1 DEF Placed, PlacedAt, Sid, Before
  <2>3. StagedAt(c)'
    BY <1>0, <2>1 DEF Staged, StagedAt, Quiet, Working, Submitting
  <2> QED
    BY <2>2, <2>3
<1>5. CASE Call(c)
  <2>1. /\ UNCHANGED <<pinned, leader, staged>> /\ pc[c] = "idle" /\ c \notin ViaIngress /\ pc'[c] = "lookup"
    BY <1>5 DEF Call, Goto, Typed
  <2> QED
    BY <1>0, <2>1, QuietPlaced DEF Before, Submitting
<1>6. CASE Lookup(c)
  <2>1. UNCHANGED <<pinned, leader, staged>> /\ pc[c] = "lookup"
    BY <1>6 DEF Lookup
  <2>2. CASE \E kind, replayed : Returns(c, kind, replayed)
    BY <1>0, <2>1, <2>2, ReturnPlaced
  <2>3. CASE Goto(c, "permit")
    <3>1. pc'[c] = "permit"
      BY <2>3 DEF Goto, Typed
    <3> QED
      BY <1>0, <2>1, <3>1, QuietPlaced DEF Before, Submitting
  <2> QED
    BY <1>6, <2>2, <2>3 DEF Lookup
<1>7. CASE Permit(c)
  <2>1. UNCHANGED <<pinned, leader, staged>> /\ pc[c] = "permit"
    BY <1>7 DEF Permit
  <2>2. CASE Returns(c, "denied", FALSE)
    BY <1>0, <2>1, <2>2, ReturnPlaced
  <2>3. CASE Goto(c, "load")
    <3>1. pc'[c] = "load"
      BY <2>3 DEF Goto, Typed
    <3> QED
      BY <1>0, <2>1, <3>1, QuietPlaced DEF Before, Submitting
  <2> QED
    BY <1>7, <2>2, <2>3 DEF Permit
<1> QED
  BY <1>1, <1>2, <1>3, <1>4, <1>5, <1>6, <1>7

LEMMA PlacedSubmit ==
    ASSUME ProactiveAssumption, Typed, Core, Placed, Staged, NEW c \in Calls,
           \/ Load(c) \/ Resolve(c) \/ Reserve(c) \/ Resume(c) \/ ResumeFails(c) \/ Launch(c)
           \/ Gather(c) \/ Reread(c)
    PROVE  PlacedAt(c)' /\ StagedAt(c)'
<1>0. PlacedAt(c) /\ StagedAt(c) /\ Sid(c)' = Sid(c) /\ Sid(leader[c]) = Sid(c)
  BY DEF Placed, Staged, PlacedAt, Sid
<1> USE DEF mine, access
<1>1. CASE Load(c)
  <2>1. Quiet /\ UNCHANGED <<leader, staged>> /\ pc[c] = "load"
    BY <1>1, QuietStep DEF Load
  <2>2. CASE \E kind, replayed : Returns(c, kind, replayed) /\ UNCHANGED pinned
    BY <2>1, <2>2, ReturnPlaced
  <2>3. CASE Goto(c, "resolve") /\ UNCHANGED pinned
    <3>1. pc'[c] = "resolve"
      BY <2>3 DEF Goto, Typed
    <3> QED
      BY <2>1, <2>3, <3>1, QuietPlaced DEF Before, Submitting
  <2>4. CASE /\ Exists(Sid(c)) /\ Goto(c, "resume")
             /\ pinned' = [pinned EXCEPT ![c] = RetryableOf(records[Sid(c)])]
    <3>1. pc'[c] = "resume" /\ pinned'[c] \subseteq Pinned(Sid(c))
      BY <2>4 DEF Goto, Typed, RetryableOf, Pinned
    <3>2. Exists(Sid(c))' /\ Pinned(Sid(c))' = Pinned(Sid(c)) /\ \A d \in Dests : ~Stands(c, d)'
      BY <2>1, <2>4, <1>0 DEF Quiet, Exists, Pinned, Sid, NoRecord, PlacedAt, Before, Stands
    <3>3. \A d \in Dests : task'[c][d] = "none" /\ d \notin taken'[c]
      BY <3>2 DEF Stands
    <3>4. pinned'[c] \subseteq Dests
      BY <3>1, ResultType
    <3>5. PlacedAt(c)'
      BY <1>0, <2>1, <3>1, <3>2, <3>3, <3>4 DEF PlacedAt, Sid
    <3>6. StagedAt(c)'
      BY <1>0, <2>1, <3>1 DEF StagedAt, Quiet, Working, Submitting
    <3> QED
      BY <3>5, <3>6
  <2> QED
    BY <1>1, <2>2, <2>3, <2>4 DEF Load
<1>2. CASE Resolve(c)
  <2> DEFINE found == IF TargetOf[c] = Thread THEN routes ELSE {TargetOf[c]}
  <2>1. Quiet /\ UNCHANGED <<leader, staged>> /\ pc[c] = "resolve"
    BY <1>2, QuietStep DEF Resolve
  <2>2. CASE Returns(c, "no_route", FALSE) /\ UNCHANGED pinned
    BY <2>1, <2>2, ReturnPlaced
  <2>3. CASE found # {} /\ pinned' = [pinned EXCEPT ![c] = found] /\ Goto(c, "reserve")
    <3>1. pc'[c] = "reserve" /\ pinned'[c] # {}
      BY <2>3 DEF Goto, Typed
    <3>2. \A d \in Dests : ~Stands(c, d)'
      BY <2>1, <1>0 DEF Quiet, PlacedAt, Before, Stands
    <3>3. PlacedAt(c)'
      BY <1>0, <2>1, <3>1, <3>2 DEF PlacedAt, Sid
    <3>4. StagedAt(c)'
      BY <1>0, <2>1, <3>1 DEF StagedAt, Quiet, Working, Submitting
    <3> QED
      BY <3>3, <3>4
  <2> QED
    BY <1>2, <2>2, <2>3 DEF Resolve
<1>3. CASE Reserve(c)
  <2>1. /\ UNCHANGED <<pinned, leader, staged, taken>> /\ pc[c] = "reserve" /\ pinned[c] # {}
        /\ \A d \in Dests : task[c][d] = "none"
    BY <1>0, <1>3 DEF Reserve, PlacedAt, Before, Stands
  <2>2. CASE UNCHANGED <<task>> /\ \E kind, replayed : Returns(c, kind, replayed)
    <3>1. /\ pc'[c] \in {"settle", "cleanup", "end"}
          /\ pc'[c] = "settle" => Internal(c)
          /\ pc'[c] = "cleanup" => c \in ViaIngress
      BY <2>2, ReturnsTo
    <3>2. PlacedAt(c)'
      BY <1>0, <2>1, <3>1 DEF PlacedAt, Sid, Internal, Before
    <3>3. StagedAt(c)'
      BY <1>0, <2>1, <2>2, <3>1 DEF StagedAt, Working, Submitting
    <3> QED
      BY <3>2, <3>3
  <2>3. CASE /\ records' = [records EXCEPT ![Sid(c)] = RecordOf(c, "in_flight")]
             /\ Goto(c, "gather")
    <3>1. pc'[c] = "gather"
      BY <2>3 DEF Goto, Typed
    <3>2. Exists(Sid(c))'
      <4>1. records'[Sid(c)] = RecordOf(c, "in_flight") /\ RecordOf(c, "in_flight").state = [d \in pinned[c] |-> "in_flight"]
        BY <2>3, SidType, RecordOfType DEF Typed, States
      <4>2. RecordOf(c, "in_flight") # NoRecord
        BY <2>1, <4>1, NothingPinned DEF NoRecord
      <4> QED
        BY <4>1, <4>2 DEF Exists, Sid, NoRecord
    <3>3. PlacedAt(c)'
      BY <1>0, <2>1, <3>1, <3>2 DEF PlacedAt, Sid, Before
    <3>4. StagedAt(c)'
      BY <1>0, <2>1, <3>1 DEF StagedAt, Submitting
    <3> QED
      BY <3>3, <3>4
  <2> QED
    BY <1>3, <2>2, <2>3 DEF Reserve
<1>4. CASE Resume(c)
  <2>1. /\ UNCHANGED <<pc, leader, staged, taken>> /\ pc[c] = "resume" /\ Exists(Sid(c))
        /\ pinned[c] \subseteq Pinned(Sid(c)) /\ pinned'[c] \subseteq pinned[c] /\ pinned[c] \subseteq Dests
        /\ \A d \in Dests : task[c][d] \in {"none", "claimed"} /\ d \notin taken[c]
        /\ \A d \in pinned[c] : task[c][d] = "none"
    BY <1>0, <1>4 DEF Resume, PlacedAt, Typed
  <2>2. /\ Exists(Sid(c))' /\ Pinned(Sid(c))' = Pinned(Sid(c))
        /\ \A d \in Dests : task'[c][d] \in {"none", "claimed"} /\ d \notin taken'[c]
        /\ \A d \in pinned'[c] : task'[c][d] = "none"
    <3>1. CASE UNCHANGED <<records, task>>
      BY <2>1, <3>1 DEF Exists, Pinned, Sid, NoRecord
    <3>2. CASE ~UNCHANGED <<records, task>>
      <4>1. PICK d \in pinned[c] : /\ pinned'[c] = pinned[c] \ {d} /\ SetTasks(c, {d}, "claimed")
                                  /\ Pinned(Sid(c))' = Pinned(Sid(c)) /\ d \in Pinned(Sid(c))
        BY <1>4, <3>2, Resumed
      <4>2. \A x \in Dests : task'[c][x] = IF x \in {d} THEN "claimed" ELSE task[c][x]
        BY <4>1, StartType DEF TaskStates
      <4>3. Exists(Sid(c))'
        BY <4>1, NothingPinned DEF Exists, Pinned, NoRecord
      <4> QED
        BY <2>1, <4>1, <4>2, <4>3
    <3> QED
      BY <3>1, <3>2
  <2>3. PlacedAt(c)'
    BY <1>0, <2>1, <2>2 DEF PlacedAt, Sid, Before
  <2>4. StagedAt(c)'
    BY <1>0, <2>1, <2>2 DEF StagedAt, Working
  <2> QED
    BY <2>3, <2>4
<1>7. CASE ResumeFails(c)
  <2>1. Quiet /\ UNCHANGED <<pinned, leader, staged>> /\ pc[c] = "resume"
    BY <1>7, QuietStep DEF ResumeFails
  <2> QED
    BY <1>7, <2>1, ReturnPlaced DEF ResumeFails
<1>8. CASE Launch(c)
  <2> DEFINE claimed == {d \in Dests : task[c][d] = "claimed"}
  <2>1. /\ UNCHANGED <<records, pinned, leader, staged, taken>> /\ pc[c] = "resume" /\ Exists(Sid(c))
        /\ SetTasks(c, claimed, "sending") /\ \A d \in Dests : task[c][d] \in {"none", "claimed"}
        /\ pc'[c] = IF claimed = {} THEN "reread" ELSE "gather"
    BY <1>0, <1>8 DEF Launch, store, PlacedAt, Goto, Typed
  <2>2. \A d \in Dests : task'[c][d] = IF d \in claimed THEN "sending" ELSE task[c][d]
    BY <2>1, StartType DEF TaskStates
  <2>3. PlacedAt(c)'
    BY <1>0, <2>1 DEF PlacedAt, Sid, Before, Exists, NoRecord
  <2>4. StagedAt(c)'
    BY <1>0, <2>1, <2>2 DEF StagedAt, Submitting, Working
  <2> QED
    BY <2>3, <2>4
<1>5. CASE Gather(c)
  <2>1. Quiet /\ UNCHANGED <<pinned, leader, staged>> /\ pc[c] = "gather"
    BY <1>5, QuietStep DEF Gather
  <2>2. CASE (\E d \in Dests : task[c][d] = "raised") /\ Returns(c, "error", FALSE)
    BY <2>1, <2>2, ReturnPlaced
  <2>3. CASE (\A d \in Dests : task[c][d] \in {"none", "ended"}) /\ Goto(c, "reread")
    <3>1. pc'[c] = "reread" /\ \A d \in Dests : ~Working(c, d)
      BY <2>3 DEF Goto, Typed, Working
    <3> QED
      BY <2>1, <3>1, QuietPlaced DEF Before, Submitting
  <2> QED
    BY <1>5, <2>2, <2>3 DEF Gather
<1>6. CASE Reread(c)
  <2>1. Quiet /\ UNCHANGED <<pinned, leader, staged>> /\ pc[c] = "reread"
    BY <1>6, QuietStep DEF Reread
  <2> QED
    BY <1>6, <2>1, ReturnPlaced DEF Reread
<1> QED
  BY <1>1, <1>2, <1>3, <1>4, <1>5, <1>6, <1>7, <1>8

LEMMA PlacedOutbound ==
    ASSUME ProactiveAssumption, Typed, Core, Placed, Staged, NEW c \in Calls,
           Outbound(c) \/ Join(c) \/ Claim(c) \/ Present(c) \/ Settle(c)
    PROVE  PlacedAt(c)' /\ StagedAt(c)'
<1>0. Quiet /\ PlacedAt(c) /\ StagedAt(c) /\ (Internal(c) => c \notin ViaIngress)
  BY QuietStep DEF Placed, Staged, ProactiveAssumption, Internal
<1> USE DEF mine, access
<1>1. CASE Outbound(c)
  <2>1. UNCHANGED <<pinned, staged>> /\ pc[c] = "idle" /\ Internal(c) /\ pc'[c] \in {"claim", "joined"}
    BY <1>1 DEF Outbound, Goto, Typed
  <2>2. Sid(leader'[c]) = Sid(c)
    <3>1. CASE UNCHANGED leader
      BY <1>0, <3>1 DEF PlacedAt
    <3>2. CASE Leaders(c) # {} /\ leader' = [leader EXCEPT ![c] = CHOOSE l \in Leaders(c) : TRUE]
      <4>1. PICK l \in Leaders(c) : leader'[c] = l
        BY <3>2 DEF Typed
      <4> QED
        BY <2>1, <4>1 DEF Leaders, Internal, Sid
    <3> QED
      BY <1>1, <3>1, <3>2 DEF Outbound
  <2>3. PlacedAt(c)'
    BY <1>0, <2>1, <2>2 DEF PlacedAt, Quiet, Stands, Internal, Sid, Before
  <2>4. StagedAt(c)'
    BY <1>0, <2>1 DEF StagedAt, Quiet, Working, Submitting
  <2> QED
    BY <2>3, <2>4
<1>2. CASE Join(c)
  <2>1. UNCHANGED <<pinned, leader, staged>> /\ pc[c] = "joined" /\ pc'[c] = "end"
    BY <1>2 DEF Join, Goto, Typed
  <2> QED
    BY <1>0, <2>1, QuietPlaced DEF Before, Submitting
<1>3. CASE Claim(c)
  <2>1. UNCHANGED <<pinned, leader, staged>> /\ pc[c] = "claim" /\ pc'[c] \in {"present", "end"} /\ Internal(c)
    BY <1>0, <1>3 DEF Claim, Goto, Ends, Typed, PlacedAt
  <2> QED
    BY <1>0, <2>1, QuietPlaced DEF Before, Submitting
<1>4. CASE Present(c)
  <2>1. UNCHANGED <<pinned, leader, staged>> /\ pc[c] = "present" /\ pc'[c] \in {"load", "end"} /\ Internal(c)
    BY <1>0, <1>4 DEF Present, Goto, Ends, Typed, PlacedAt
  <2> QED
    BY <1>0, <2>1, QuietPlaced DEF Before, Submitting
<1>5. CASE Settle(c)
  <2>1. UNCHANGED <<pinned, leader, staged>> /\ pc[c] = "settle" /\ pc'[c] = "end"
    BY <1>5 DEF Settle, Goto, Ends, Typed
  <2> QED
    BY <1>0, <2>1, QuietPlaced DEF Before, Submitting
<1> QED
  BY <1>1, <1>2, <1>3, <1>4, <1>5

LEMMA PlacedCancel ==
    ASSUME ProactiveAssumption, Typed, Core, Placed, Staged, NEW c \in Calls, Cancel(c)
    PROVE  PlacedAt(c)' /\ StagedAt(c)'
<1>0. PlacedAt(c) /\ StagedAt(c) /\ UNCHANGED <<records, pinned, leader, staged, taken>>
  BY DEF Placed, Staged, Cancel, access, store
<1>1. CASE pc[c] = "gather"
  <2>1. /\ \A d \in Dests :
                task'[c][d] = IF task[c][d] = "sending" THEN "joining"
                              ELSE IF task[c][d] \in {"update", "persist"} THEN "raised" ELSE task[c][d]
        /\ UNCHANGED pc
    BY <1>1, Cancelled
  <2>2. PlacedAt(c)'
    BY <1>0, <1>1, <2>1 DEF PlacedAt, Before, Exists, Sid, NoRecord
  <2>3. StagedAt(c)'
    BY <1>0, <1>1, <2>1 DEF StagedAt
  <2> QED
    BY <2>2, <2>3
<1>2. CASE pc[c] # "gather"
  <2>1. Quiet /\ Returns(c, "cancelled", FALSE)
    BY <1>2 DEF Cancel, Quiet, store
  <2> QED
    BY <1>0, <1>2, <2>1, ReturnPlaced
<1> QED
  BY <1>1, <1>2

(* A destination that is worked on stays so, or ends, under a call that stands there. *)
LEMMA PlacedSend ==
    ASSUME ProactiveAssumption, Typed, Core, Placed, Staged, Next, NEW c \in Calls, NEW d \in Dests,
           Send(c, d) \/ Take(c, d) \/ UpdateFails(c, d)
    PROVE  Placed' /\ Staged'
<1>1. /\ UNCHANGED <<pc, pinned, leader, staged, answer>> /\ task[c][d] # "none"
      /\ \A o \in Calls, x \in Dests : o # c \/ x # d => task'[o][x] = task[o][x]
      /\ \A o \in Calls, x \in Dests : o # c \/ x # d => (x \in taken'[o] <=> x \in taken[o])
      /\ task[c][d] \notin {"raised", "claimed"}
      /\ Working(c, d)' => Working(c, d)
  BY DEF Send, Joined, Update, Outcome, Take, UpdateFails, access, Working, Typed
<1>2. pc[c] \notin Before /\ pc[c] # "resume"
  BY <1>1 DEF Placed, PlacedAt, Stands
<1> SUFFICES ASSUME NEW o \in Calls PROVE PlacedAt(o)' /\ StagedAt(o)'
  BY DEF Placed, Staged
<1>3. PlacedAt(o) /\ StagedAt(o)
  BY DEF Placed, Staged
<1>4. Exists(Sid(o)) => Exists(Sid(o))' /\ Pinned(Sid(o))' = Pinned(Sid(o))
  BY RecordsStay, SidType DEF Sid
<1>5. PlacedAt(o)'
  <2>1. /\ UNCHANGED <<pc, pinned, leader>> /\ Sid(o)' = Sid(o) /\ Sid(leader[o])' = Sid(leader[o])
        /\ Internal(o)' = Internal(o)
    BY <1>1 DEF Sid, Internal
  <2>2. CASE o = c
    BY <1>1, <1>2, <1>3, <1>4, <2>1, <2>2 DEF PlacedAt
  <2>3. CASE o # c
    <3>1. \A x \in Dests : /\ task'[o][x] = task[o][x] /\ (x \in taken'[o] <=> x \in taken[o])
                            /\ Stands(o, x)' = Stands(o, x)
      BY <1>1, <2>3 DEF Stands
    <3>2. (pc[o] = "resume")' =>
            /\ (pinned[o] \subseteq Pinned(Sid(o)))'
            /\ \A x \in Dests : (task[o][x] \in {"none", "claimed"} /\ x \notin taken[o])'
            /\ \A x \in pinned'[o] : task'[o][x] = "none"
      <4> SUFFICES ASSUME (pc[o] = "resume")'
                   PROVE  /\ (pinned[o] \subseteq Pinned(Sid(o)))'
                          /\ \A x \in Dests : (task[o][x] \in {"none", "claimed"} /\ x \notin taken[o])'
                          /\ \A x \in pinned'[o] : task'[o][x] = "none"
        OBVIOUS
      <4>1. /\ pc[o] = "resume" /\ Exists(Sid(o)) /\ pinned[o] \subseteq Pinned(Sid(o))
            /\ \A x \in Dests : task[o][x] \in {"none", "claimed"} /\ x \notin taken[o]
            /\ \A x \in pinned[o] : task[o][x] = "none"
        BY <1>3, <2>1 DEF PlacedAt
      <4>2. pinned[o] \subseteq Dests
        BY DEF Typed
      <4> QED
        BY <1>4, <2>1, <3>1, <4>1, <4>2
    <3> QED
      BY <1>3, <1>4, <2>1, <3>1, <3>2 DEF PlacedAt
  <2> QED
    BY <2>2, <2>3
<1>6. StagedAt(o)'
  <2>1. \A x \in Dests : Working(o, x)' => Working(o, x)
    BY <1>1 DEF Working
  <2>2. \A x \in Dests : task[o][x] = "raised" => task'[o][x] = "raised"
    BY <1>1
  <2> QED
    BY <1>1, <1>3, <2>1, <2>2 DEF StagedAt
<1> QED
  BY <1>5, <1>6

LEMMA PlacedCrash ==
    ASSUME ProactiveAssumption, Typed, Core, Placed, Staged, Crash
    PROVE  Placed' /\ Staged'
<1>1. /\ \A c \in Calls, d \in Dests : task'[c][d] = IF Engaged(c, d) THEN "raised" ELSE task[c][d]
      /\ \A c \in Calls : pc'[c] = IF Running(c) THEN "crashed" ELSE pc[c]
      /\ UNCHANGED <<records, pinned, leader, staged, taken>>
  BY Crashed DEF Crash, store
<1> SUFFICES ASSUME NEW o \in Calls PROVE PlacedAt(o)' /\ StagedAt(o)'
  BY DEF Placed, Staged
<1>2. PlacedAt(o) /\ pc'[o] \in {"idle", "end", "crashed"} /\ (pc'[o] = "idle" => pc[o] = "idle")
  BY <1>1 DEF Placed, Running
<1>3. PlacedAt(o)'
  BY <1>1, <1>2 DEF PlacedAt, Before, Stands, Engaged, Sid
<1>4. \A d \in Dests : ~Working(o, d)'
  BY <1>1 DEF Working, Engaged
<1>5. StagedAt(o)'
  BY <1>2, <1>4 DEF StagedAt, Submitting
<1> QED
  BY <1>3, <1>5

LEMMA NextPlaced ==
    ASSUME ProactiveAssumption, Typed, Core, Placed, Staged, Next
    PROVE  Placed' /\ Staged'
<1>1. ASSUME NEW c \in Calls, Step(c) \/ Cancel(c) \/ ResumeFails(c) PROVE Placed' /\ Staged'
  <2>1. PlacedAt(c)' /\ StagedAt(c)'
    BY <1>1, PlacedWays, PlacedSubmit, PlacedOutbound, PlacedCancel DEF Step
  <2>2. \A o \in Calls : o # c => PlacedAt(o)' /\ StagedAt(o)'
    BY <1>1, StepIsOwn, OthersPlaced
  <2> QED
    BY <2>1, <2>2 DEF Placed, Staged
<1>2. ASSUME NEW c \in Calls, NEW d \in Dests, Send(c, d) \/ Take(c, d) \/ UpdateFails(c, d)
      PROVE  Placed' /\ Staged'
  BY <1>2, PlacedSend
<1>3. CASE RouteMoves \/ \E c \in Calls : Revoke(PrincipalOf[c])
  <2>1. UNCHANGED <<records, pc, pinned, task, taken, leader, staged>>
    BY <1>3 DEF RouteMoves, Revoke, store, mine, access
  <2> QED
    BY <2>1 DEF Placed, PlacedAt, Staged, StagedAt, Stands, Working, Exists, Pinned, Sid, Internal, NoRecord
<1>4. CASE Crash
  BY <1>4, PlacedCrash
<1> QED
  BY <1>1, <1>2, <1>3, <1>4 DEF Next, NextOf

-----------------------------------------------------------------------------
(* What callers are told *)

Answered == Told /\ OneAcquires /\ Claimed

(* A completed claim stays completed. *)
LEMMA ClaimsStay ==
    ASSUME ProactiveAssumption, Typed, Next
    PROVE  \A i \in Ids : claims[i].status = "completed" => claims'[i] = claims[i]
<1>1. ASSUME NEW c \in Calls, Claim(c) PROVE \A i \in Ids : claims[i].status = "completed" => claims'[i] = claims[i]
  BY <1>1 DEF Claim, Typed
<1>2. ASSUME NEW c \in Calls, Present(c) \/ Settle(c)
      PROVE  \A i \in Ids : claims[i].status = "completed" => claims'[i] = claims[i]
  <2>1. claims[IdOf[c]].status = "in_flight"
    BY <1>2 DEF Present, Settle, Own
  <2>2. UNCHANGED claims \/ Complete(c) \/ Release(c)
    BY <1>2 DEF Present, Settle
  <2> QED
    BY <2>1, <2>2 DEF Complete, Release, Typed
<1>3. ASSUME NEW c \in Calls, Step(c), ~Claim(c), ~Present(c), ~Settle(c) PROVE UNCHANGED claims
  BY <1>3 DEF Step, store, Arrive, Admit, Stage, Cleanup, Call, Lookup, Permit, Load, Resolve, Reserve, Resume,
              Launch, Gather, Reread, Outbound, Join
<1>4. ASSUME NEW c \in Calls, NEW d \in Dests, Send(c, d) \/ Take(c, d) \/ UpdateFails(c, d) PROVE UNCHANGED claims
  BY <1>4 DEF Send, Joined, Update, Outcome, Take, UpdateFails, store
<1>5. CASE RouteMoves \/ Crash \/ \E c \in Calls : Cancel(c) \/ ResumeFails(c) \/ Revoke(PrincipalOf[c])
  BY <1>5 DEF RouteMoves, Crash, Cancel, ResumeFails, Revoke, store
<1> QED
  BY <1>1, <1>2, <1>3, <1>4, <1>5 DEF Next, NextOf

(* What was told stays true when nobody is told anything new. *)
LEMMA SilentAnswered ==
    ASSUME ProactiveAssumption, Typed, Core, Placed, Answered, Next, UNCHANGED <<claims, answer>>,
           \A c \in Calls : pc[c] = "end" => pc'[c] = "end"
    PROVE  Answered'
<1>1. \A s \in Sids : Accepted(s) => Accepted(s)'
  BY RecordsStay
<1>2. \A c \in Calls : Sid(c) \in Sids /\ Sid(c)' = Sid(c)
  BY SidType DEF Sid
<1>3. Told'
  BY <1>1, <1>2 DEF Answered, Told, ToldAt
<1>4. OneAcquires'
  BY DEF Answered, OneAcquires
<1>5. Claimed'
  BY <1>1 DEF Answered, Claimed, Sids, Sid, Ids
<1> QED
  BY <1>3, <1>4, <1>5 DEF Answered

(* What was told stays true when one call is told something that is no news of a delivery. *)
LEMMA PlainAnswered ==
    ASSUME ProactiveAssumption, Typed, Core, Placed, Answered, Next, NEW c \in Calls, Others(c),
           \A i \in Ids : claims'[i].status = "completed" => claims[i].status = "completed",
           pc[c] # "end",
           answer'[c].kind # answer[c].kind =>
              /\ answer'[c].kind \notin {"acquired", "suppressed"}
              /\ answer'[c].kind = "accepted" => Accepted(Sid(c))
    PROVE  Answered'
<1>1. \A s \in Sids : Accepted(s) => Accepted(s)'
  BY RecordsStay
<1>2. \A o \in Calls : Sid(o) \in Sids /\ Sid(o)' = Sid(o) /\ IdOf[o] \in Ids
  BY SidType DEF Sid
<1>3. \A o \in Calls : o # c => answer'[o] = answer[o] /\ pc'[o] = pc[o]
  BY DEF Others
<1>4. answer[c].kind # "suppressed"
  BY DEF Answered, Told, ToldAt
<1>5. \A i \in Ids : claims[i].status = "completed" => claims'[i].status = "completed"
  BY ClaimsStay
<1>6. Told'
  <2> SUFFICES ASSUME NEW o \in Calls PROVE ToldAt(o)'
    BY DEF Told
  <2>1. CASE o = c
    BY <1>1, <1>2, <1>4, <1>5, <2>1 DEF Answered, Told, ToldAt
  <2>2. CASE o # c
    BY <1>1, <1>2, <1>3, <1>5, <2>2 DEF Answered, Told, ToldAt
  <2> QED
    BY <2>1, <2>2
<1>7. OneAcquires'
  BY <1>3 DEF Answered, OneAcquires
<1>8. Claimed'
  BY <1>1, <1>3, <1>4 DEF Answered, Claimed, Sids, Sid, Ids
<1> QED
  BY <1>6, <1>7, <1>8 DEF Answered

LEMMA AnsweredSteps ==
    ASSUME ProactiveAssumption, Typed, Core, Placed, Answered, Next, NEW c \in Calls,
           \/ Arrive(c) \/ Admit(c) \/ Stage(c) \/ Cleanup(c) \/ Call(c) \/ Lookup(c) \/ Permit(c)
           \/ Load(c) \/ Resolve(c) \/ Reserve(c) \/ Resume(c) \/ Gather(c) \/ Reread(c) \/ Outbound(c)
           \/ Launch(c) \/ Cancel(c) \/ ResumeFails(c)
    PROVE  Answered'
<1>1. Others(c)
  BY StepIsOwn DEF Step
<1>2. UNCHANGED claims /\ pc[c] # "end"
  BY DEF Arrive, Admit, Stage, Cleanup, Call, Lookup, Permit, Load, Resolve, Reserve, Resume, Gather, Reread,
         Launch, Outbound, Cancel, ResumeFails, store, Running
<1>3. \/ UNCHANGED answer
      \/ answer' = [answer EXCEPT ![c].replayed = TRUE]
      \/ \E kind \in {"denied", "staging_failed", "conflict", "no_route", "capacity", "rejected", "error",
                      "cancelled", ResultOf(records[Sid(c)])} : \E replayed :
            answer' = [answer EXCEPT ![c] = [kind |-> kind, replayed |-> replayed]]
  <2>1. CASE Arrive(c)
    BY <2>1 DEF Arrive
  <2>2. CASE Admit(c) \/ Stage(c) \/ Cleanup(c) \/ Call(c) \/ Permit(c) \/ Gather(c) \/ Outbound(c)
           \/ Resume(c) \/ ResumeFails(c) \/ Launch(c)
    BY <2>2 DEF Admit, Stage, Cleanup, Call, Permit, Gather, Outbound, Resume, ResumeFails, Launch, Returns
  <2>3. CASE Lookup(c)
    BY <2>3 DEF Lookup, Returns
  <2>4. CASE Load(c)
    BY <2>4 DEF Load, Returns
  <2>5. CASE Resolve(c)
    BY <2>5 DEF Resolve, Returns
  <2>6. CASE Reserve(c)
    BY <2>6 DEF Reserve, Returns
  <2>7. CASE Reread(c)
    BY <2>7 DEF Reread, Returns
  <2>8. CASE Cancel(c)
    BY <2>8 DEF Cancel, Returns
  <2> QED
    BY <2>1, <2>2, <2>3, <2>4, <2>5, <2>6, <2>7, <2>8
<1>4. answer \in [Calls -> Answers] /\ answer[c] \in Answers
  BY DEF Typed
<1>5. \/ answer'[c].kind = answer[c].kind
      \/ answer'[c].kind \in {"denied", "staging_failed", "conflict", "no_route", "capacity", "rejected", "error",
                              "cancelled", ResultOf(records[Sid(c)])}
  <2>1. CASE UNCHANGED answer
    BY <2>1
  <2>2. CASE answer' = [answer EXCEPT ![c].replayed = TRUE]
    <3>1. answer'[c] = [answer[c] EXCEPT !.replayed = TRUE]
      BY <1>4, <2>2
    <3> QED
      BY <1>4, <3>1 DEF Answers
  <2>3. ASSUME NEW kind \in {"denied", "staging_failed", "conflict", "no_route", "capacity", "rejected", "error",
                             "cancelled", ResultOf(records[Sid(c)])}, NEW replayed,
               answer' = [answer EXCEPT ![c] = [kind |-> kind, replayed |-> replayed]]
        PROVE  answer'[c].kind = kind
    BY <1>4, <2>3
  <2> QED
    BY <1>3, <2>1, <2>2, <2>3
<1>6. /\ ResultOf(records[Sid(c)]) \in States
      /\ ResultOf(records[Sid(c)]) = "accepted" => Accepted(Sid(c))
  BY ResultType
<1>7. answer'[c].kind # answer[c].kind =>
              /\ answer'[c].kind \notin {"acquired", "suppressed"}
              /\ answer'[c].kind = "accepted" => Accepted(Sid(c))
  BY <1>5, <1>6 DEF States
<1> QED
  BY <1>1, <1>2, <1>7, PlainAnswered

LEMMA AnsweredJoin ==
    ASSUME ProactiveAssumption, Typed, Core, Placed, Answered, Next, NEW c \in Calls, Join(c)
    PROVE  Answered'
<1> DEFINE a == answer[leader[c]]
<1>1. leader[c] \in Calls /\ Sid(leader[c]) = Sid(c) /\ a \in Answers
  BY AnswerType DEF Typed, Placed, PlacedAt
<1>2. /\ answer' = [answer EXCEPT ![c] = IF a.kind = "acquired" THEN [a EXCEPT !.kind = "already"] ELSE a]
      /\ pc[c] = "joined" /\ pc'[c] = "end" /\ UNCHANGED claims
  BY DEF Join, Goto, Typed, store
<1>3. answer'[c].kind = IF a.kind = "acquired" THEN "already" ELSE a.kind
  <2>1. answer'[c] = IF a.kind = "acquired" THEN [a EXCEPT !.kind = "already"] ELSE a
    BY <1>2 DEF Typed
  <2> QED
    BY <1>1, <2>1 DEF Answers
<1>4. answer'[c].kind = "accepted" => Accepted(Sid(c))
  BY <1>1, <1>3 DEF Answered, Told, ToldAt
<1>5. answer'[c].kind # "acquired" /\ answer[c].kind # "suppressed"
  BY <1>2, <1>3 DEF Answered, Told, ToldAt
<1>6. /\ \A o \in Calls : o # c => answer'[o] = answer[o] /\ pc'[o] = pc[o]
  BY StepIsOwn DEF Step, Others
<1>7. \A s \in Sids : Accepted(s) => Accepted(s)'
  BY RecordsStay
<1>8. \A o \in Calls : Sid(o) \in Sids /\ Sid(o)' = Sid(o)
  BY SidType DEF Sid
<1>9. Told'
  BY <1>2, <1>4, <1>5, <1>6, <1>7, <1>8 DEF Answered, Told, ToldAt
<1>10. OneAcquires'
  BY <1>5, <1>6 DEF Answered, OneAcquires
<1>11. Claimed'
  BY <1>2, <1>5, <1>6, <1>7 DEF Answered, Claimed, Sids, Sid, Ids
<1> QED
  BY <1>9, <1>10, <1>11 DEF Answered

LEMMA AnsweredClaim ==
    ASSUME ProactiveAssumption, Typed, Core, Placed, Answered, Next, NEW c \in Calls, Claim(c)
    PROVE  Answered'
<1>1. Others(c) /\ pc[c] # "end"
  BY StepIsOwn DEF Step, Claim
<1>2. \A i \in Ids : claims'[i].status = "completed" => claims[i].status = "completed"
  <2>1. CASE claims' = [claims EXCEPT ![IdOf[c]] = [status |-> "in_flight", owner |-> c]]
    BY <2>1 DEF Typed
  <2>2. CASE UNCHANGED claims
    BY <2>2
  <2> QED
    BY <2>1, <2>2 DEF Claim
<1>3. answer'[c].kind = answer[c].kind \/ answer'[c].kind \in {"in_flight", "already"}
  BY DEF Claim, Ends, Typed
<1> QED
  BY <1>1, <1>2, <1>3, PlainAnswered

(* The outbound path completes its claim for what it suppressed, or for what was accepted. *)
LEMMA AnsweredComplete ==
    ASSUME ProactiveAssumption, Typed, Core, Placed, Answered, Next, NEW c \in Calls, Others(c), Own(c),
           Complete(c), pc[c] # "end", pc'[c] = "end", Internal(c),
           NEW kind \in {"suppressed", "already", "acquired"}, answer'[c].kind = kind,
           kind # "suppressed" => Accepted(Sid(c))
    PROVE  Answered'
<1> DEFINE i == IdOf[c]
<1>1. i \in Ids /\ claims[i].status = "in_flight" /\ claims'[i].status = "completed"
      /\ \A j \in Ids : j # i => claims'[j] = claims[j]
  <2>1. claims[i] \in ClaimType
    BY ClaimTypes
  <2>2. claims' = [claims EXCEPT ![i] = [claims[i] EXCEPT !.status = "completed"]]
    BY DEF Complete
  <2> QED
    BY <2>1, <2>2, SidType DEF Own, Typed, ClaimType
<1>2. /\ \A s \in Sids : Accepted(s) => Accepted(s)'
      /\ \A o \in Calls : Sid(o) \in Sids /\ Sid(o)' = Sid(o) /\ IdOf[o] \in Ids
  BY RecordsStay, SidType DEF Sid
<1>3. \A o \in Calls : o # c => answer'[o] = answer[o] /\ pc'[o] = pc[o]
  BY DEF Others
<1>4. \A o \in Calls : IdOf[o] = i => answer[o].kind # "acquired"
  BY <1>1 DEF Answered, Told, ToldAt
<1>5. answer[c].kind # "suppressed"
  BY DEF Answered, Told, ToldAt
<1>6. Told'
  <2> SUFFICES ASSUME NEW o \in Calls PROVE ToldAt(o)'
    BY DEF Told
  <2>1. CASE o = c
    BY <1>1, <1>2, <2>1 DEF ToldAt
  <2>2. CASE o # c
    BY <1>1, <1>2, <1>3, <2>2 DEF Answered, Told, ToldAt
  <2> QED
    BY <2>1, <2>2
<1>7. OneAcquires'
  BY <1>3, <1>4 DEF Answered, OneAcquires
<1>8. Claimed'
  <2> SUFFICES ASSUME NEW j \in Ids, claims'[j].status = "completed"
               PROVE  \/ \E o \in Calls : IdOf[o] = j /\ answer'[o].kind = "suppressed"
                      \/ <<"internal", j>> \in Sids /\ Accepted(<<"internal", j>>)'
    BY DEF Claimed, Ids, Sids, Sid
  <2>1. CASE j = i
    <3>1. Sid(c) = <<"internal", j>>
      BY <2>1 DEF Internal, Sid
    <3> QED
      BY <1>2, <2>1, <3>1
  <2>2. CASE j # i
    <3>1. claims[j].status = "completed"
      BY <1>1, <2>2
    <3> QED
      BY <1>2, <1>3, <1>5, <3>1 DEF Answered, Claimed
  <2> QED
    BY <2>1, <2>2
<1> QED
  BY <1>6, <1>7, <1>8 DEF Answered

(* A claim that is released or kept: nothing is completed, and nothing is acquired. *)
LEMMA AnsweredPresent ==
    ASSUME ProactiveAssumption, Typed, Core, Placed, Answered, Next, NEW c \in Calls, Present(c)
    PROVE  Answered'
<1>1. Others(c) /\ pc[c] = "present" /\ Own(c) /\ Internal(c)
  BY StepIsOwn DEF Step, Present, Placed, PlacedAt
<1>2. CASE Goto(c, "load") /\ UNCHANGED <<claims, answer>>
  BY <1>1, <1>2, PlainAnswered
<1>3. CASE Complete(c) /\ Ends(c, "suppressed")
  <2>1. answer'[c].kind = "suppressed" /\ pc'[c] = "end"
    BY <1>3 DEF Ends, Goto, Typed
  <2> QED
    BY <1>1, <1>3, <2>1, AnsweredComplete
<1>4. CASE Release(c) /\ Ends(c, "recovery_required")
  <2>1. answer'[c].kind = "recovery_required"
    BY <1>4 DEF Ends, Typed
  <2>2. \A i \in Ids : claims'[i].status = "completed" => claims[i].status = "completed"
    BY <1>4 DEF Release, NoClaim, Typed
  <2> QED
    BY <1>1, <2>1, <2>2, PlainAnswered
<1> QED
  BY <1>2, <1>3, <1>4 DEF Present

LEMMA AnsweredSettle ==
    ASSUME ProactiveAssumption, Typed, Core, Placed, Answered, Next, NEW c \in Calls, Settle(c)
    PROVE  Answered'
<1>1. Others(c) /\ pc[c] = "settle" /\ Own(c) /\ Internal(c)
  BY StepIsOwn DEF Step, Settle, Placed, PlacedAt
<1>2. CASE answer[c].kind = "accepted"
  <2>1. Complete(c) /\ (Ends(c, "already") \/ Ends(c, "acquired"))
    BY <1>2 DEF Settle
  <2>2. answer'[c].kind \in {"already", "acquired"} /\ pc'[c] = "end"
    BY <2>1 DEF Ends, Goto, Typed
  <2>3. Accepted(Sid(c))
    BY <1>2 DEF Answered, Told, ToldAt
  <2> QED
    BY <1>1, <2>1, <2>2, <2>3, AnsweredComplete
<1>3. CASE answer[c].kind # "accepted"
  <2>1. (Release(c) \/ UNCHANGED claims) /\ Ends(c, answer[c].kind)
    BY <1>3 DEF Settle
  <2>2. answer'[c].kind = answer[c].kind
    BY <2>1 DEF Ends, Typed
  <2>3. \A i \in Ids : claims'[i].status = "completed" => claims[i].status = "completed"
    <3>1. CASE UNCHANGED claims
      BY <3>1
    <3>2. CASE Release(c)
      BY <3>2 DEF Release, NoClaim, Typed
    <3> QED
      BY <2>1, <3>1, <3>2
  <2> QED
    BY <1>1, <2>2, <2>3, PlainAnswered
<1> QED
  BY <1>2, <1>3

LEMMA NextAnswered ==
    ASSUME ProactiveAssumption, Typed, Core, Placed, Answered, Next
    PROVE  Answered'
<1>1. ASSUME NEW c \in Calls, Step(c) \/ Cancel(c) \/ ResumeFails(c) PROVE Answered'
  BY <1>1, AnsweredSteps, AnsweredJoin, AnsweredClaim, AnsweredPresent, AnsweredSettle DEF Step
<1>2. ASSUME NEW c \in Calls, NEW d \in Dests, Send(c, d) \/ Take(c, d) \/ UpdateFails(c, d) PROVE Answered'
  <2>1. UNCHANGED <<claims, answer, pc>>
    BY <1>2 DEF Send, Joined, Update, Outcome, Take, UpdateFails, store
  <2> QED
    BY <2>1, SilentAnswered
<1>3. CASE RouteMoves \/ \E c \in Calls : Revoke(PrincipalOf[c])
  <2>1. UNCHANGED <<claims, answer, pc>>
    BY <1>3 DEF RouteMoves, Revoke, store
  <2> QED
    BY <2>1, SilentAnswered
<1>4. CASE Crash
  <2>1. UNCHANGED <<claims, answer>> /\ \A c \in Calls : pc[c] = "end" => pc'[c] = "end"
    BY <1>4, Crashed DEF Crash, store, Running
  <2> QED
    BY <2>1, SilentAnswered
<1> QED
  BY <1>1, <1>2, <1>3, <1>4 DEF Next, NextOf

-----------------------------------------------------------------------------
(* The theorem *)

LEMMA InitInv == ASSUME ProactiveAssumption, Init PROVE ProactiveInv
<1>1. Typed
  BY InitTyped
<1>2. \A s \in Sids : ~Exists(s) /\ Pinned(s) = {}
  BY NothingPinned DEF Init, Exists, Pinned, Sids, NoRecord
<1>3. \A c \in Calls, d \in Dests : ~Stands(c, d) /\ ~Engaged(c, d) /\ task[c][d] = "none"
  BY DEF Init, Stands, Engaged
<1>4. Pins /\ Handed /\ Alone /\ RecordIsTrue
  <2>1. DOMAIN records = Sids
    BY DEF Init, Sids
  <2> QED
    BY <1>2, <1>3, <2>1 DEF Pins, Handed, Alone, RecordIsTrue, Stands
<1>5. Placed /\ Staged
  BY <1>3 DEF Init, Placed, PlacedAt, Staged, StagedAt, Submitting, Working
<1>6. Told /\ OneAcquires
  BY DEF Init, Told, ToldAt, OneAcquires, NoAnswer
<1>7. Claimed
  BY DEF Init, Claimed, NoClaim
<1> QED
  BY <1>1, <1>4, <1>5, <1>6, <1>7 DEF ProactiveInv

LEMMA NextInv ==
    ASSUME ProactiveAssumption, ProactiveInv, [Next]_vars
    PROVE  ProactiveInv'
<1>1. Typed /\ Core /\ Placed /\ Staged /\ Answered /\ Handed
  BY DEF ProactiveInv, Core, Answered
<1>2. CASE Next
  <2>1. Typed' /\ Core' /\ Placed' /\ Staged' /\ Answered'
    BY <1>1, <1>2, NextTyped, NextCore, NextPlaced, NextAnswered
  <2> QED
    BY <2>1 DEF ProactiveInv, Core, Answered
<1>3. CASE UNCHANGED vars
  <2>1. UNCHANGED <<records, claims, routes, pc, pinned, task, verdict, answer, leader, locks, staged, taken>>
    BY <1>3 DEF vars
  <2>2. Typed'
    BY <1>1, <2>1 DEF Typed, Sids, Sid
  <2>3. Core'
    BY <1>1, <2>1, QuietCore DEF Quiet
  <2>4. Placed' /\ Staged'
    BY <1>1, <2>1 DEF Placed, PlacedAt, Staged, StagedAt, Stands, Working, Exists, Pinned, Sid, Internal, NoRecord
  <2>5. Answered'
    BY <1>1, <2>1 DEF Answered, Told, ToldAt, OneAcquires, Claimed, Accepted, Pinned, Sids, Sid, Ids
  <2> QED
    BY <2>2, <2>3, <2>4, <2>5 DEF ProactiveInv, Core, Answered
<1> QED
  BY <1>2, <1>3

LEMMA InvDelivers ==
    ASSUME ProactiveAssumption, ProactiveInv
    PROVE  DeliveredAtMostOnce
<1>1. Typed /\ Core /\ Placed /\ Staged /\ Told /\ OneAcquires /\ Claimed /\ RecordIsTrue
  BY DEF ProactiveInv, Core
<1>2. \A s \in Sids : records[s] \in RecordType /\ records[s].state \in StatesOf
  BY <1>1 DEF Typed, RecordType
<1>3. TypeOK
  <2>1. \A s \in DOMAIN records : \A d \in Pinned(s) : records[s].state[d] \in States
    <3>1. DOMAIN records = Sids
      BY <1>1 DEF Typed
    <3> QED
      BY <1>2, <3>1, StateType DEF Pinned
  <2>2. \A i \in Ids : claims[i].status \in {"none", "in_flight", "completed"}
    BY <1>1 DEF Typed, ClaimType
  <2> QED
    BY <1>1, <2>1, <2>2 DEF TypeOK, Typed, TaskStates
<1>4. AtMostOnce
  <2> SUFFICES ASSUME NEW s \in DOMAIN records, NEW d \in Dests
               PROVE  Cardinality({c \in Same(s) : d \in taken[c]}) <= 1
    BY DEF AtMostOnce
  <2>1. \A c, o \in {c \in Same(s) : d \in taken[c]} : c = o
    BY <1>1 DEF Core, Alone, Same
  <2> QED
    BY <2>1, AtMostOne
<1>5. AnswerIsTrue
  <2>1. ASSUME NEW c \in Calls, answer[c].kind \in {"accepted", "acquired"}
        PROVE  \A d \in Pinned(Sid(c)) : \E o \in Same(Sid(c)) : d \in taken[o]
    <3>1. Accepted(Sid(c)) /\ Sid(c) \in DOMAIN records
      BY <1>1, <2>1, SidType DEF Told, ToldAt, Typed
    <3> QED
      BY <1>1, <3>1 DEF Accepted, RecordIsTrue
  <2>2. ASSUME NEW i \in Ids
        PROVE  Cardinality({c \in Calls : IdOf[c] = i /\ answer[c].kind = "acquired"}) <= 1
    <3>1. \A c, o \in {c \in Calls : IdOf[c] = i /\ answer[c].kind = "acquired"} : c = o
      BY <1>1 DEF OneAcquires
    <3> QED
      BY <3>1, AtMostOne
  <2> QED
    BY <2>1, <2>2 DEF AnswerIsTrue
<1>6. ClaimIsTrue
  <2> SUFFICES ASSUME NEW i \in Ids, <<"internal", i>> \in Sids, Accepted(<<"internal", i>>)
               PROVE  /\ Exists(<<"internal", i>>)
                      /\ ResultOf(records[<<"internal", i>>]) = "accepted"
    BY <1>1 DEF ClaimIsTrue, Claimed
  <2>1. Exists(<<"internal", i>>)
    BY <1>1, PinnedExists DEF Core, Accepted
  <2>2. records[<<"internal", i>>].state \in StatesOf
    BY <1>2
  <2> QED
    BY <2>1, <2>2, ResultIsState DEF Accepted, Pinned
<1>7. StagedWhileSending
  <2> SUFFICES ASSUME NEW c \in ViaIngress, NEW d \in Dests, Working(c, d),
                      \A x \in Dests : task[c][x] # "raised"
               PROVE  c \in staged
    BY DEF StagedWhileSending
  <2>1. c \in Calls /\ StagedAt(c)
    BY <1>1 DEF ProactiveAssumption, Staged
  <2> QED
    BY <2>1 DEF StagedAt, Submitting
<1> QED
  BY <1>1, <1>3, <1>4, <1>5, <1>6, <1>7 DEF DeliveredAtMostOnce

(* A delivery id is handed to the platform at most once for a destination, and what its record, its
   claim and its callers say of it is true: for any calls that share ids, with destinations that
   fail or are retried, cancelled or cut off by a crash (ProactiveDeliveryService.deliver,
   ProactiveDeliveryJsonHandler.handle, _deliver_outbound_once). *)
THEOREM SubmissionDeliveredAtMostOnce ==
    ASSUME ProactiveAssumption
    PROVE  Spec => []DeliveredAtMostOnce
<1>1. Init => ProactiveInv
  BY InitInv
<1>2. ProactiveInv /\ [Next]_vars => ProactiveInv'
  BY NextInv
<1>3. ProactiveInv => DeliveredAtMostOnce
  BY InvDelivers
<1> QED
  BY <1>1, <1>2, <1>3, PTL DEF Spec

=============================================================================

--------------------------- MODULE RequestProofs ----------------------------
(***************************************************************************)
(* Proofs about RequestCorrelation, for every set of requests,             *)
(* Conversations and users, every capacity and any number of crashes, gaps *)
(* and moved routes: the rows of a request agree and never go back, only   *)
(* those who were shown it answer, a request is not made stale while it    *)
(* can be answered, and while no row is lost it is answered once.          *)
(***************************************************************************)
EXTENDS RequestCorrelation, FiniteSetTheorems, TLAPS

NativeStates == {"unborn", "pending", "answered", "resolved", "stale"}
TaskStates == {None, "ready", "publishing", "shown", "accepted"}
Places == {"idle", "awaiting", "queued", "expiring", "native", "answered", "refused", "done"}
Holding == {"expiring", "native", "answered", "refused"}
Events == [type : {"opened", "ended"}, r : Requests, as : {"open", "resolved", "stale"}]
Over == {"resolved", "stale"}

(* The values of the variables. *)
Typed ==
    /\ native \in [Requests -> NativeStates]
    /\ accepted \in [Requests -> Users \cup {None}]
    /\ events \in Seq(Events)
    /\ closing \in Events \cup {NoJob}
    /\ closed \subseteq Requests
    /\ jobs \in [{"worker", "recovery"} -> [r : Requests \cup {None}, routes : SUBSET Convs]]
    /\ \A w \in {"worker", "recovery"} : jobs[w] = NoJob \/ jobs[w].r \in Requests
    /\ tasks \in [Requests -> [Convs -> TaskStates]]
    /\ sent \in [Requests -> [Convs -> {None, "inflight", "done"}]]
    /\ rows \in [Requests -> [Convs -> RowStates \cup {None}]]
    /\ active \subseteq Convs
    /\ recon \in [stage : {"idle", "start", "deliver"}, by : {None, "gap", "restart"},
                  open : SUBSET Requests, pending : SUBSET Requests, listed : SUBSET Requests]
    /\ pc \in [Users -> Places]
    /\ faults \in [crashes : Nat, gaps : Nat, moves : Nat]

(* The tasks are within their capacity. *)
Bounded == IsFiniteSet(Running) /\ Cardinality(Running) <= Capacity

(* What a row stands on: a prompt that was delivered, of a request that was
   opened; and a task that is to write one, or a user who passed one. *)
Grounded ==
    /\ \A r \in Requests, c \in Convs :
         /\ rows[r][c] # None => sent[r][c] = "done" /\ native[r] # "unborn"
         /\ tasks[r][c] = "accepted" => sent[r][c] = "done"
         /\ tasks[r][c] # None => native[r] # "unborn"
    /\ \A w \in {"worker", "recovery"} : jobs[w] # NoJob => native[jobs[w].r] # "unborn"
    /\ \A u \in Users :
         /\ pc[u] \in {"native", "answered"} => sent[Asked[u]][From[u]] = "done"
         /\ pc[u] = "expiring" => Asked[u] \in expired

(* The events of a request: its opening, then its end, and each is true. *)
Announced(e) ==
    /\ native[e.r] # "unborn"
    /\ e.type = "ended" => e.as \in Over /\ native[e.r] = e.as
Ordered ==
    /\ \A i \in 1..Len(events) : Announced(events[i])
    /\ \A i, j \in 1..Len(events) : i < j /\ events[i].r = events[j].r =>
         events[i].type = "opened" /\ events[j].type = "ended"
    /\ closing # NoJob => closing.type = "ended" /\ Announced(closing)
    /\ \A r \in closed : native[r] \in Over

(* What recovery found open and the Application did not list is over. *)
Listed ==
    /\ \A r \in recon.open : native[r] # "unborn"
    /\ \A r \in recon.pending \cup recon.listed : native[r] # "unborn"
    /\ Snapshot /\ recon.stage = "deliver" =>
         \A r \in recon.open \ recon.listed : native[r] # "pending"
    /\ recon.stage = "idle" => recon = NoRecon
    /\ jobs["recovery"] # NoJob => recon.stage = "deliver"

(* The lock of a request is with one user. *)
Exclusive ==
    \A u, o \in Users : u # o /\ Asked[u] = Asked[o] => ~(pc[u] \in Holding /\ pc[o] \in Holding)

(* While no row is lost: an answer that the Application took is on its way to
   the rows, or they no longer invite another. *)
Invites(r) == \A c \in Convs : rows[r][c] # None => rows[r][c] = "open"
Taken ==
    /\ \A u \in Users : pc[u] \in Holding => RowsOf(Asked[u]) # {}
    /\ \A u \in Users : pc[u] \in {"native", "refused", "expiring"} => native[Asked[u]] # "answered"
    /\ \A r \in Requests : native[r] = "answered" =>
         \/ \E u \in Users : Asked[u] = r /\ pc[u] = "answered"
         \/ \E c \in Convs : rows[r][c] \in RowStates \ {"open"}
    /\ repeated = {}

(* ... no route is being retired ... *)
Kept == retiring = [c \in Convs |-> None]

(* ... and a request whose end the worker took has no delivery left. *)
Ending == closed \cup ({closing.r} \ {None})
Gone(r) ==
    /\ \A c \in Convs : tasks[r][c] = None
    /\ \A w \in {"worker", "recovery"} : jobs[w].r # r
    /\ r \notin recon.pending
    /\ \A i \in 1..Len(events) : events[i].r # r
Settled ==
    /\ \A r \in Ending : Gone(r)
    /\ \A r \in closed, c \in Convs : rows[r][c] # "open"
    /\ closing # NoJob => recon.stage = "idle" /\ jobs["worker"] = NoJob
    /\ recon.stage # "idle" => recon.by = "gap" /\ jobs["worker"] = NoJob

RequestInv ==
    /\ Typed /\ Bounded /\ OneState /\ Grounded /\ OnlyRecipientsAnswer
    /\ Ordered /\ Listed /\ StaleIsOver /\ Exclusive
    /\ Undisturbed => Kept /\ Taken /\ Settled

-----------------------------------------------------------------------------
(* The steps, by what they are about. *)

NativeStep(r) == NativeOpens(r) \/ NativeEnds(r) \/ Expire(r)
WorkerStep == TakeOpened \/ TakeEnded \/ ApplyEnded
ReconStep == Crash \/ Gap \/ ListPending \/ Redeliver \/ MarkStale

LEMMA StepCases ==
    ASSUME Next
    PROVE  \/ \E r \in Requests : NativeStep(r)
           \/ \E w \in {"worker", "recovery"} : ScheduleStep(w) \/ Scheduled(w)
           \/ WorkerStep
           \/ \E r \in Requests, c \in Convs : TaskStep(r, c)
           \/ \E u \in Users : Answer(u) \/ UserStep(u)
           \/ \E c \in Convs : RouteStep(c)
           \/ ReconStep
  BY DEF Next, NativeStep, WorkerStep, ReconStep

(* Merge gives a row, and a row that agrees with those it is put beside. *)
LEMMA MergeType ==
    ASSUME NEW e \in RowStates \cup {None}, NEW others \in SUBSET (RowStates \cup {None})
    PROVE  Merge(e, others) \in RowStates
<1> DEFINE terminal == others \ {"open", None}
<1>1. terminal \subseteq {"responded", "stale", "resolved"}
  BY DEF RowStates
<1>2. terminal # {} => \E s \in terminal : \A o \in terminal : Precedence[o] <= Precedence[s]
  <2>1. CASE "resolved" \in terminal
    BY <1>1, <2>1 DEF Precedence
  <2>2. CASE "resolved" \notin terminal /\ "stale" \in terminal
    BY <1>1, <2>2 DEF Precedence
  <2>3. CASE "resolved" \notin terminal /\ "stale" \notin terminal
    BY <1>1, <2>3 DEF Precedence
  <2> QED
    BY <2>1, <2>2, <2>3
<1>3. terminal # {} =>
        (CHOOSE s \in terminal : \A o \in terminal : Precedence[o] <= Precedence[s]) \in terminal
  BY <1>2
<1>4. CASE e = None /\ terminal # {}
  BY <1>1, <1>3, <1>4 DEF Merge, RowStates
<1>5. CASE ~(e = None /\ terminal # {})
  BY <1>5 DEF Merge, RowStates, None
<1> QED
  BY <1>4, <1>5

LEMMA MergeAgrees ==
    ASSUME NEW e \in RowStates \cup {None}, NEW others \in SUBSET (RowStates \cup {None}),
           e \in others,
           \A a, b \in others : a # None /\ b # None => a = b
    PROVE  /\ \A o \in others : o # None => Merge(e, others) = o
           /\ others \subseteq {None} => Merge(e, others) = "open"
<1> DEFINE terminal == others \ {"open", None}
<1>1. CASE e = None /\ terminal # {}
  <2>1. PICK s \in terminal : TRUE
    BY <1>1
  <2>2. terminal = {s}
    BY <2>1
  <2>3. s \in {"responded", "stale", "resolved"}
    BY <2>1 DEF RowStates
  <2>4. Precedence[s] <= Precedence[s]
    BY <2>3 DEF Precedence
  <2>5. (CHOOSE t \in terminal : \A o \in terminal : Precedence[o] <= Precedence[t]) \in terminal
    BY <2>2, <2>4
  <2>6. Merge(e, others) \in terminal
    BY <1>1, <2>5 DEF Merge, RowStates, None
  <2> QED
    BY <2>1, <2>2, <2>6
<1>2. CASE e = None /\ terminal = {}
  <2>1. Merge(e, others) = "open"
    BY <1>2 DEF Merge, RowStates, None
  <2> QED
    BY <1>2, <2>1
<1>3. CASE e # None /\ e # "open"
  <2>1. Merge(e, others) = e
    BY <1>3 DEF Merge, RowStates
  <2> QED
    BY <1>3, <2>1
<1>4. CASE e = "open"
  <2>1. Merge(e, others) = "open"
    BY <1>4 DEF Merge, RowStates, None
  <2> QED
    BY <1>4, <2>1 DEF None
<1> QED
  BY <1>1, <1>2, <1>3, <1>4

(* What a write does to the rows: one more row that agrees with the others, or all rows
   of a request to a state that none of them has passed. *)
LEMMA PutRows ==
    ASSUME Typed, OneState, NEW r \in Requests, NEW c \in Convs, Put(r, c)
    PROVE  /\ rows' \in [Requests -> [Convs -> RowStates \cup {None}]]
           /\ \A q \in Requests, d \in Convs : <<q, d>> # <<r, c>> => rows'[q][d] = rows[q][d]
           /\ rows'[r][c] # None
           /\ \A d \in Convs : rows[r][d] # None => rows'[r][c] = rows[r][d]
           /\ RowsOf(r) = {} => rows'[r][c] = "open"
<1> DEFINE others == {rows[r][o] : o \in Convs}
<1>1. rows[r][c] \in RowStates \cup {None} /\ others \in SUBSET (RowStates \cup {None})
  BY DEF Typed
<1>2. rows' = [rows EXCEPT ![r] = [@ EXCEPT ![c] = Merge(rows[r][c], others)]]
  BY DEF Put, Typed
<1>3. Merge(rows[r][c], others) \in RowStates
  BY <1>1, MergeType
<1>4. \A a, b \in others : a # None /\ b # None => a = b
  BY DEF OneState
<1>5. /\ \A o \in others : o # None => Merge(rows[r][c], others) = o
      /\ others \subseteq {None} => Merge(rows[r][c], others) = "open"
  BY <1>1, <1>4, MergeAgrees
<1>6. rows'[r][c] = Merge(rows[r][c], others)
  BY <1>2 DEF Typed
<1>7. rows' \in [Requests -> [Convs -> RowStates \cup {None}]]
  BY <1>2, <1>3 DEF Typed
<1>8. \A q \in Requests, d \in Convs : <<q, d>> # <<r, c>> => rows'[q][d] = rows[q][d]
  BY <1>2 DEF Typed
<1>9. RowsOf(r) = {} => others \subseteq {None}
  BY DEF RowsOf
<1> QED
  BY <1>3, <1>5, <1>6, <1>7, <1>8, <1>9 DEF RowStates, None

LEMMA TransitionRows ==
    ASSUME Typed, NEW r \in Requests, NEW expected \in SUBSET RowStates, NEW state \in RowStates,
           Transition(r, expected, state)
    PROVE  /\ rows' \in [Requests -> [Convs -> RowStates \cup {None}]]
           /\ \A q \in Requests, d \in Convs : q # r => rows'[q][d] = rows[q][d]
           /\ \A d \in Convs : rows[r][d] = None <=> rows'[r][d] = None
           /\ \/ rows' = rows /\ ~Transitions(r, expected, state)
              \/ /\ Transitions(r, expected, state)
                 /\ \A d \in Convs : rows[r][d] # None => rows'[r][d] = state
<1>1. CASE ~Transitions(r, expected, state)
  BY <1>1 DEF Transition, Typed
<1>2. CASE Transitions(r, expected, state)
  <2>1. rows' = [rows EXCEPT ![r] = [d \in Convs |-> IF rows[r][d] = None THEN None ELSE state]]
    BY <1>2 DEF Transition, Typed
  <2>2. \A d \in Convs : rows'[r][d] = IF rows[r][d] = None THEN None ELSE state
    BY <2>1 DEF Typed
  <2>3. rows' \in [Requests -> [Convs -> RowStates \cup {None}]]
    BY <2>1 DEF Typed
  <2>4. state # None
    BY DEF RowStates, None
  <2> QED
    BY <1>2, <2>1, <2>2, <2>3, <2>4 DEF Typed
<1> QED
  BY <1>1, <1>2

-----------------------------------------------------------------------------
(* The values of the variables stay in their sets. *)

LEMMA InitTyped == Init => Typed
  BY DEF Init, Typed, NoJob, NoRecon, NativeStates, TaskStates, RowStates, Places, None

(* How the rows change. *)
Moves(r, expected, state) ==
    expected \in SUBSET RowStates /\ state \in RowStates \ {"open"} /\ Transition(r, expected, state)
RowsChange ==
    \/ UNCHANGED rows
    \/ \E r \in Requests, c \in Convs : RecordStep(r, c) /\ Put(r, c)
    \/ \E r \in Requests : \E expected, state : Moves(r, expected, state)
    \/ Crash
    \/ \E c \in Convs : DeleteDestination(c)

LEMMA RowCases ==
    ASSUME CorrelationAssumption, Typed, Ordered, Next
    PROVE  RowsChange
<1> USE DEF RowsChange
<1>1. CASE UNCHANGED rows
  BY <1>1
<1>2. ASSUME NEW r \in Requests, NEW c \in Convs, RecordStep(r, c) PROVE RowsChange
  <2>1. Put(r, c) \/ UNCHANGED rows
    BY <1>2 DEF RecordStep, Record
  <2> QED
    BY <1>2, <2>1
<1>3. ASSUME NEW r \in Requests, NEW expected \in SUBSET RowStates,
             NEW state \in RowStates \ {"open"}, Transition(r, expected, state)
      PROVE  RowsChange
  BY <1>3 DEF Moves
<1> HIDE DEF RowsChange
<1>4. CASE ApplyEnded
  <2>1. closing.r \in Requests /\ closing.as \in RowStates \ {"open"}
    BY <1>4 DEF ApplyEnded, Typed, Events, Ordered, Announced, Over, RowStates
  <2> DEFINE expected == {"open", "responded"} \cup (IF closing.as = "resolved" THEN {"stale"} ELSE {})
  <2>2. expected \in SUBSET RowStates
    BY DEF RowStates
  <2>3. Transition(closing.r, expected, closing.as)
    BY <1>4 DEF ApplyEnded
  <2> HIDE DEF expected
  <2> QED
    BY <1>3, <2>1, <2>2, <2>3
<1>5. ASSUME NEW u \in Users, UserStep(u) PROVE RowsChange
  <2>1. Asked[u] \in Requests
    BY DEF CorrelationAssumption
  <2>2. CASE ExpireRows(u)
    BY <1>3, <2>1, <2>2 DEF ExpireRows, RowStates
  <2>3. CASE Responded(u)
    BY <1>3, <2>1, <2>3 DEF Responded, RecordResponse, RowStates
  <2>4. CASE Converge(u)
    <3>1. CASE native[Asked[u]] = "answered"
      BY <1>3, <2>1, <2>4, <3>1 DEF Converge, RowStates, None
    <3>2. CASE native[Asked[u]] = "resolved"
      BY <1>3, <2>1, <2>4, <3>2 DEF Converge, RowStates, None
    <3>3. CASE native[Asked[u]] = "stale"
      BY <1>3, <2>1, <2>4, <3>3 DEF Converge, RowStates, None
    <3>4. CASE native[Asked[u]] \notin {"answered", "resolved", "stale"}
      BY <1>1, <2>4, <3>4 DEF Converge, None
    <3> QED
      BY <3>1, <3>2, <3>3, <3>4
  <2>5. CASE UNCHANGED rows
    BY <1>1, <2>5
  <2> QED
    BY <1>5, <2>2, <2>3, <2>4, <2>5
       DEF UserStep, PublicationEnds, PublicationPends, AuthorizeStep, Respond
<1>6. CASE MarkStale
  <2>1. UNCHANGED rows \/ \E r \in Missing : Transition(r, {"open"}, "stale")
    BY <1>6 DEF MarkStale
  <2>2. Missing \subseteq Requests
    BY DEF Missing, Typed
  <2> QED
    BY <1>1, <1>3, <2>1, <2>2 DEF RowStates
<1>7. CASE Crash
  BY <1>7 DEF RowsChange
<1>8. ASSUME NEW c \in Convs, DeleteDestination(c) PROVE RowsChange
  BY <1>8 DEF RowsChange
<1>9. CASE \E r \in Requests : NativeStep(r)
  BY <1>1, <1>9 DEF NativeStep, NativeOpens, NativeEnds, Expire
<1>10. CASE \E w \in {"worker", "recovery"} : ScheduleStep(w) \/ Scheduled(w)
  BY <1>1, <1>10 DEF ScheduleStep, Scheduled
<1>11. CASE WorkerStep
  BY <1>1, <1>4, <1>11 DEF WorkerStep, TakeOpened, TakeEnded
<1>12. ASSUME NEW r \in Requests, NEW c \in Convs, TaskStep(r, c) PROVE RowsChange
  BY <1>1, <1>2, <1>12 DEF TaskStep, BeginPublication, Shows, Accepts, Retries, Fails, DeliveryTimesOut
<1>13. CASE \E u \in Users : Answer(u)
  BY <1>1, <1>13 DEF Answer
<1>14. CASE \E c \in Convs : RouteStep(c)
  BY <1>1, <1>8, <1>14 DEF RouteStep, Retire, ForgetRoute, Readd, OpenBarrier
<1>15. CASE ReconStep
  BY <1>1, <1>6, <1>7, <1>15 DEF ReconStep, Gap, ListPending, Redeliver
<1> QED
  BY <1>5, <1>9, <1>10, <1>11, <1>12, <1>13, <1>14, <1>15, StepCases

(* A row that is written is a row. *)
LEMMA RowsTyped ==
    ASSUME CorrelationAssumption, Typed, OneState, Ordered, Next
    PROVE  rows' \in [Requests -> [Convs -> RowStates \cup {None}]]
<1>1. CASE UNCHANGED rows
  BY <1>1 DEF Typed
<1>2. ASSUME NEW r \in Requests, NEW c \in Convs, Put(r, c)
      PROVE  rows' \in [Requests -> [Convs -> RowStates \cup {None}]]
  BY <1>2, PutRows
<1>3. ASSUME NEW r \in Requests, NEW expected, NEW state, Moves(r, expected, state)
      PROVE  rows' \in [Requests -> [Convs -> RowStates \cup {None}]]
  BY <1>3, TransitionRows DEF Moves
<1>4. CASE Crash
  BY <1>4 DEF Crash, Typed
<1>5. ASSUME NEW c \in Convs, DeleteDestination(c)
      PROVE  rows' \in [Requests -> [Convs -> RowStates \cup {None}]]
  BY <1>5 DEF DeleteDestination, Typed
<1> QED
  BY <1>1, <1>2, <1>3, <1>4, <1>5, RowCases DEF RowsChange

LEMMA FaultsTyped ==
    \A f \in [crashes : Nat, gaps : Nat, moves : Nat] :
       /\ [f EXCEPT !.crashes = @ + 1] \in [crashes : Nat, gaps : Nat, moves : Nat]
       /\ [f EXCEPT !.gaps = @ + 1] \in [crashes : Nat, gaps : Nat, moves : Nat]
       /\ [f EXCEPT !.moves = @ + 1] \in [crashes : Nat, gaps : Nat, moves : Nat]
  OBVIOUS

LEMMA NextTyped ==
    ASSUME CorrelationAssumption, Typed, OneState, Ordered, [Next]_vars
    PROVE  Typed'
<1>1. CASE UNCHANGED vars
  BY <1>1 DEF vars, Typed
<1> SUFFICES ASSUME Next PROVE Typed'
  BY <1>1
<1>2. rows' \in [Requests -> [Convs -> RowStates \cup {None}]]
  BY RowsTyped
<1>3. ASSUME NEW r \in Requests, NativeStep(r) PROVE Typed'
  <2>1. CASE NativeOpens(r)
    <3>1. [type |-> "opened", r |-> r, as |-> "open"] \in Events
      BY DEF Events
    <3>2. events' \in Seq(Events)
      BY <2>1, <3>1 DEF NativeOpens, Typed
    <3>3. native' \in [Requests -> NativeStates]
      BY <2>1 DEF NativeOpens, Typed, NativeStates
    <3> QED
      BY <1>2, <2>1, <3>2, <3>3 DEF NativeOpens, Typed, taskVars, routeVars, userVars
  <2>2. CASE NativeEnds(r)
    <3>1. PICK as \in {"resolved", "stale"} :
             /\ native' = [native EXCEPT ![r] = as]
             /\ events' = Append(events, [type |-> "ended", r |-> r, as |-> as])
      BY <2>2 DEF NativeEnds
    <3>2. [type |-> "ended", r |-> r, as |-> as] \in Events
      BY DEF Events
    <3>3. events' \in Seq(Events)
      BY <3>1, <3>2 DEF Typed
    <3>4. native' \in [Requests -> NativeStates]
      BY <3>1 DEF Typed, NativeStates
    <3> QED
      BY <1>2, <2>2, <3>3, <3>4 DEF NativeEnds, Typed, taskVars, routeVars, userVars
  <2>3. CASE Expire(r)
    BY <1>2, <2>3 DEF Expire, Typed, nativeVars, taskVars, routeVars, userVars
  <2> QED
    BY <1>3, <2>1, <2>2, <2>3 DEF NativeStep
<1>4. ASSUME NEW w \in {"worker", "recovery"}, ScheduleStep(w) \/ Scheduled(w) PROVE Typed'
  <2>1. CASE ScheduleStep(w)
    <3>1. PICK c \in Unscheduled(w) :
             /\ tasks' = [tasks EXCEPT ![jobs[w].r][c] = "ready"]
             /\ jobs' = [jobs EXCEPT ![w].routes = @ \ {c}]
      BY <2>1 DEF ScheduleStep, Schedule
    <3>2. jobs[w].r \in Requests /\ c \in Convs /\ jobs[w].routes \subseteq Convs
      BY <2>1, <3>1 DEF ScheduleStep, Schedule, Typed, Unscheduled
    <3>3. tasks' \in [Requests -> [Convs -> TaskStates]]
      BY <3>1, <3>2 DEF Typed, TaskStates
    <3> DEFINE J == [r : Requests \cup {None}, routes : SUBSET Convs]
    <3>5. [jobs[w] EXCEPT !.routes = @ \ {c}] \in J /\ [jobs[w] EXCEPT !.routes = @ \ {c}].r = jobs[w].r
      BY <3>2 DEF Typed
    <3>6. jobs' = [jobs EXCEPT ![w] = [jobs[w] EXCEPT !.routes = @ \ {c}]]
      BY <3>1 DEF Typed
    <3>7. jobs' \in [{"worker", "recovery"} -> J]
      BY <3>5, <3>6 DEF Typed
    <3>4. /\ jobs' \in [{"worker", "recovery"} -> [r : Requests \cup {None}, routes : SUBSET Convs]]
          /\ \A v \in {"worker", "recovery"} : jobs'[v] = NoJob \/ jobs'[v].r \in Requests
      BY <3>2, <3>5, <3>6, <3>7 DEF Typed
    <3> QED
      BY <1>2, <2>1, <3>3, <3>4 DEF ScheduleStep, Typed, nativeVars, routeVars, userVars
  <2>2. CASE Scheduled(w)
    <3>1. /\ jobs' \in [{"worker", "recovery"} -> [r : Requests \cup {None}, routes : SUBSET Convs]]
          /\ \A v \in {"worker", "recovery"} : jobs'[v] = NoJob \/ jobs'[v].r \in Requests
      BY <2>2 DEF Scheduled, Typed, NoJob
    <3> QED
      BY <1>2, <2>2, <3>1 DEF Scheduled, Typed, nativeVars, taskVars, routeVars, userVars
  <2> QED
    BY <1>4, <2>1, <2>2
<1>5. ASSUME NEW r \in Requests PROVE Job(r) \in [r : Requests \cup {None}, routes : SUBSET Convs] /\ Job(r).r = r
  BY DEF Job, Typed
<1>6. CASE WorkerStep
  <2>1. events # <<>> => Head(events) \in Events /\ Tail(events) \in Seq(Events)
    BY DEF Typed
  <2>2. CASE TakeOpened
    <3>1. Head(events).r \in Requests
      BY <2>1, <2>2 DEF TakeOpened, Events
    <3>2. /\ jobs' \in [{"worker", "recovery"} -> [r : Requests \cup {None}, routes : SUBSET Convs]]
          /\ \A v \in {"worker", "recovery"} : jobs'[v] = NoJob \/ jobs'[v].r \in Requests
      BY <1>5, <2>2, <3>1 DEF TakeOpened, Typed
    <3> QED
      BY <1>2, <2>1, <2>2, <3>2 DEF TakeOpened, Typed, nativeVars, taskVars, routeVars, userVars
  <2>3. CASE TakeEnded
    <3>1. tasks' \in [Requests -> [Convs -> TaskStates]]
      BY <2>3 DEF TakeEnded, CancelDeliveries, Typed, TaskStates
    <3> QED
      BY <1>2, <2>1, <2>3, <3>1 DEF TakeEnded, Typed, nativeVars, routeVars, userVars
  <2>4. CASE ApplyEnded
    <3>1. closing.r \in Requests
      BY <2>4 DEF ApplyEnded, Typed, Events
    <3> QED
      BY <1>2, <2>4, <3>1 DEF ApplyEnded, Typed, nativeVars, taskVars, routeVars, userVars
  <2> QED
    BY <1>6, <2>2, <2>3, <2>4 DEF WorkerStep
<1>7. ASSUME NEW r \in Requests, NEW c \in Convs, TaskStep(r, c) PROVE Typed'
  <2>1. /\ tasks' \in [Requests -> [Convs -> TaskStates]]
        /\ sent' \in [Requests -> [Convs -> {None, "inflight", "done"}]]
    <3>1. \E to \in TaskStates : tasks' = [tasks EXCEPT ![r][c] = to]
      BY <1>7 DEF TaskStep, BeginPublication, Shows, Accepts, Retries, Fails, DeliveryTimesOut,
                  RecordStep, Record, Task, TaskStates
    <3>2. sent' = sent \/ \E to \in {"inflight", "done"} :
                            sent' = [sent EXCEPT ![r][c] = to]
      BY <1>7 DEF TaskStep, BeginPublication, Shows, Accepts, Retries, Fails, DeliveryTimesOut,
                  RecordStep
    <3>3. tasks' \in [Requests -> [Convs -> TaskStates]]
      BY <3>1 DEF Typed
    <3>4. sent' \in [Requests -> [Convs -> {None, "inflight", "done"}]]
      <4>1. CASE sent' = sent
        BY <4>1 DEF Typed
      <4>2. ASSUME NEW to \in {"inflight", "done"}, sent' = [sent EXCEPT ![r][c] = to]
            PROVE  sent' \in [Requests -> [Convs -> {None, "inflight", "done"}]]
        BY <4>2 DEF Typed
      <4> QED
        BY <3>2, <4>1, <4>2
    <3> QED
      BY <3>3, <3>4
  <2> QED
    BY <1>2, <1>7, <2>1
       DEF TaskStep, BeginPublication, Shows, Accepts, Retries, Fails, DeliveryTimesOut,
           RecordStep, Typed, nativeVars, routeVars, userVars
<1>8. ASSUME NEW u \in Users, Answer(u) \/ UserStep(u) PROVE Typed'
  <2>1. \E to \in Places : pc' = [pc EXCEPT ![u] = to]
    BY <1>8 DEF Answer, UserStep, PublicationEnds, PublicationPends, AuthorizeStep, Authorize,
                ExpireRows, Respond, Converge, Responded, User, End, Places
  <2>2. pc' \in [Users -> Places]
    BY <2>1 DEF Typed
  <2>3. accepted' \in [Requests -> Users \cup {None}] /\ native' \in [Requests -> NativeStates]
    <3>1. UNCHANGED <<native, accepted>> \/ Respond(u)
      BY <1>8 DEF Answer, UserStep, PublicationEnds, PublicationPends, AuthorizeStep,
                  ExpireRows, Converge, Responded, nativeVars
    <3>2. CASE Respond(u)
      <4>1. Asked[u] \in Requests
        BY DEF CorrelationAssumption
      <4>2. native' \in [Requests -> NativeStates]
        <5>1. native' = native \/ native' = [native EXCEPT ![Asked[u]] = "answered"]
          BY <3>2 DEF Respond
        <5> QED
          BY <4>1, <5>1 DEF Typed, NativeStates
      <4>3. accepted' \in [Requests -> Users \cup {None}]
        BY <3>2, <4>1 DEF Respond, Typed
      <4> QED
        BY <4>2, <4>3
    <3> QED
      BY <3>1, <3>2 DEF Typed
  <2>4. UNCHANGED RestOfUser
    BY <1>8 DEF Answer, UserStep, PublicationEnds, PublicationPends, AuthorizeStep,
                ExpireRows, Respond, Converge, Responded
  <2> QED
    BY <1>2, <2>2, <2>3, <2>4 DEF RestOfUser, taskVars, routeVars, Typed
<1>9. ASSUME NEW c \in Convs, RouteStep(c) PROVE Typed'
  <2>0. faults' = faults \/ faults' = [faults EXCEPT !.moves = @ + 1]
    BY <1>9 DEF RouteStep, Retire, DeleteDestination, ForgetRoute, Readd, OpenBarrier
  <2>1. faults' \in [crashes : Nat, gaps : Nat, moves : Nat]
    BY <2>0, FaultsTyped DEF Typed
  <2>2. tasks' \in [Requests -> [Convs -> TaskStates]]
    <3>1. tasks' = tasks \/ tasks' = [r \in Requests |-> [tasks[r] EXCEPT ![c] = None]]
      BY <1>9 DEF RouteStep, Retire, DeleteDestination, ForgetRoute, Readd, OpenBarrier, taskVars
    <3>2. tasks \in [Requests -> [Convs -> TaskStates]] /\ None \in TaskStates
      BY DEF Typed, TaskStates
    <3> QED
      BY <3>1, <3>2
  <2>3. active' \subseteq Convs
    BY <1>9 DEF RouteStep, Retire, DeleteDestination, ForgetRoute, Readd, OpenBarrier, Typed
  <2> QED
    BY <1>2, <1>9, <2>1, <2>2, <2>3
       DEF RouteStep, Retire, DeleteDestination, ForgetRoute, Readd, OpenBarrier, Typed,
           nativeVars, taskVars, userVars
<1>10. CASE ReconStep
  <2>1. CASE Crash
    <3>1. recon' \in [stage : {"idle", "start", "deliver"}, by : {None, "gap", "restart"},
                  open : SUBSET Requests, pending : SUBSET Requests, listed : SUBSET Requests]
      BY <2>1 DEF Crash, NoRecon, OpenRefs
    <3>5. faults' \in [crashes : Nat, gaps : Nat, moves : Nat]
      BY <2>1, FaultsTyped DEF Crash, Typed
    <3>6. pc' \in [Users -> Places]
      BY <2>1 DEF Crash, Places
    <3>2. tasks' \in [Requests -> [Convs -> TaskStates]]
      BY <2>1 DEF Crash, TaskStates
    <3>3. /\ jobs' \in [{"worker", "recovery"} -> [r : Requests \cup {None}, routes : SUBSET Convs]]
          /\ \A v \in {"worker", "recovery"} : jobs'[v] = NoJob \/ jobs'[v].r \in Requests
      BY <2>1 DEF Crash, NoJob
    <3>4. events' \in Seq(Events)
      BY <2>1 DEF Crash
    <3> QED
      BY <1>2, <2>1, <3>1, <3>2, <3>3, <3>4, <3>5, <3>6 DEF Crash, Typed, nativeVars
  <2>2. CASE Gap
    <3>1. recon' \in [stage : {"idle", "start", "deliver"}, by : {None, "gap", "restart"},
                  open : SUBSET Requests, pending : SUBSET Requests, listed : SUBSET Requests]
      BY <2>2 DEF Gap, NoRecon, OpenRefs
    <3>2. events' \in Seq(Events) /\ faults' \in [crashes : Nat, gaps : Nat, moves : Nat]
      <4>1. faults \in [crashes : Nat, gaps : Nat, moves : Nat]
        BY DEF Typed
      <4>2. faults' = [faults EXCEPT !.gaps = @ + 1] /\ events' = <<>>
        BY <2>2 DEF Gap
      <4> QED
        BY <4>1, <4>2, FaultsTyped
    <3> QED
      BY <1>2, <2>2, <3>1, <3>2 DEF Gap, Typed, nativeVars, taskVars, routeVars, userVars
  <2>3. CASE ListPending
    <3>1. recon' \in [stage : {"idle", "start", "deliver"}, by : {None, "gap", "restart"},
                  open : SUBSET Requests, pending : SUBSET Requests, listed : SUBSET Requests]
      BY <2>3 DEF ListPending, Typed
    <3> QED
      BY <1>2, <2>3, <3>1 DEF ListPending, Typed, nativeVars, taskVars, routeVars, userVars
  <2>4. CASE Redeliver
    <3>1. PICK r \in recon.pending :
            /\ jobs' = [jobs EXCEPT !["recovery"] = Job(r)]
            /\ recon' = [recon EXCEPT !.pending = @ \ {r}]
      BY <2>4 DEF Redeliver
    <3>2. r \in Requests
      BY DEF Typed
    <3>3. recon' \in [stage : {"idle", "start", "deliver"}, by : {None, "gap", "restart"},
                  open : SUBSET Requests, pending : SUBSET Requests, listed : SUBSET Requests]
      BY <3>1 DEF Typed
    <3>4. /\ jobs' \in [{"worker", "recovery"} -> [r : Requests \cup {None}, routes : SUBSET Convs]]
          /\ \A v \in {"worker", "recovery"} : jobs'[v] = NoJob \/ jobs'[v].r \in Requests
      BY <1>5, <3>1, <3>2 DEF Typed
    <3> QED
      BY <1>2, <2>4, <3>3, <3>4 DEF Redeliver, Typed, nativeVars, taskVars, routeVars, userVars
  <2>5. CASE MarkStale
    <3>1. recon' \in [stage : {"idle", "start", "deliver"}, by : {None, "gap", "restart"},
                  open : SUBSET Requests, pending : SUBSET Requests, listed : SUBSET Requests]
      BY <2>5 DEF MarkStale, Typed, NoRecon
    <3> QED
      BY <1>2, <2>5, <3>1 DEF MarkStale, Typed, nativeVars, taskVars, routeVars, userVars
  <2> QED
    BY <1>10, <2>1, <2>2, <2>3, <2>4, <2>5 DEF ReconStep
<1> QED
  BY <1>3, <1>4, <1>6, <1>7, <1>8, <1>9, <1>10, StepCases

-----------------------------------------------------------------------------
(* The capacity: a task is only added where there is room. *)

LEMMA InitBounded == CorrelationAssumption /\ Init => Bounded
<1> SUFFICES ASSUME CorrelationAssumption, Init PROVE Bounded
  OBVIOUS
<1>1. Running = {}
  BY DEF Running, Init
<1> QED
  BY <1>1, FS_EmptySet DEF Bounded, CorrelationAssumption

(* Where no delivery is scheduled or goes on, a task stays as it is or is cancelled. *)
LEMMA TasksStay ==
    ASSUME Typed, Next, \A w \in {"worker", "recovery"} : ~ScheduleStep(w),
           \A q \in Requests, d \in Convs : ~TaskStep(q, d),
           NEW r \in Requests, NEW c \in Convs
    PROVE  tasks'[r][c] \in {tasks[r][c], None}
<1>1. CASE WorkerStep
  <2>1. UNCHANGED tasks \/ \E q : tasks' = [tasks EXCEPT ![q] = [d \in Convs |-> None]]
    BY <1>1 DEF WorkerStep, TakeOpened, TakeEnded, ApplyEnded, CancelDeliveries, taskVars
  <2>2. ASSUME NEW q, tasks' = [tasks EXCEPT ![q] = [d \in Convs |-> None]]
        PROVE  tasks'[r][c] \in {tasks[r][c], None}
    <3>1. tasks \in [Requests -> [Convs -> TaskStates]]
      BY DEF Typed
    <3>2. tasks'[r] = IF r = q THEN [d \in Convs |-> None] ELSE tasks[r]
      BY <2>2, <3>1
    <3> QED
      BY <3>2
  <2> QED
    BY <2>1, <2>2
<1>2. CASE ReconStep
  <2>1. UNCHANGED tasks \/ tasks' = [q \in Requests |-> [d \in Convs |-> None]]
    BY <1>2 DEF ReconStep, Crash, Gap, ListPending, Redeliver, MarkStale, taskVars
  <2> QED
    BY <2>1
<1>3. CASE \E d \in Convs : RouteStep(d)
  <2>1. UNCHANGED tasks \/ \E d \in Convs : tasks' = [q \in Requests |-> [tasks[q] EXCEPT ![d] = None]]
    BY <1>3 DEF RouteStep, Retire, DeleteDestination, ForgetRoute, Readd, OpenBarrier, taskVars
  <2> QED
    BY <2>1 DEF Typed
<1>4. CASE UNCHANGED tasks
  BY <1>4
<1>5. CASE \E q \in Requests : NativeStep(q)
  BY <1>4, <1>5 DEF NativeStep, NativeOpens, NativeEnds, Expire, taskVars
<1>6. CASE \E w \in {"worker", "recovery"} : Scheduled(w)
  BY <1>4, <1>6 DEF Scheduled, taskVars
<1>7. CASE \E u \in Users : Answer(u) \/ UserStep(u)
  BY <1>4, <1>7 DEF Answer, UserStep, PublicationEnds, PublicationPends, AuthorizeStep,
              ExpireRows, Respond, Converge, Responded, RestOfUser, taskVars
<1> QED
  BY <1>1, <1>2, <1>3, <1>5, <1>6, <1>7, StepCases

(* No step but Schedule adds a task. *)
LEMMA TasksEnd ==
    ASSUME Typed, Next, \A w \in {"worker", "recovery"} : ~ScheduleStep(w)
    PROVE  \A r \in Requests, c \in Convs : tasks'[r][c] # None => tasks[r][c] # None
<1> SUFFICES ASSUME NEW r \in Requests, NEW c \in Convs, tasks[r][c] = None
             PROVE  tasks'[r][c] = None
  OBVIOUS
<1>1. ASSUME NEW q \in Requests, NEW d \in Convs, TaskStep(q, d) PROVE tasks'[r][c] = None
  <2>1. tasks[q][d] # None
    BY <1>1 DEF TaskStep, BeginPublication, Shows, Accepts, Retries, Fails, DeliveryTimesOut,
                RecordStep, Record, None
  <2>2. PICK to \in TaskStates : tasks' = [tasks EXCEPT ![q][d] = to]
    BY <1>1 DEF TaskStep, BeginPublication, Shows, Accepts, Retries, Fails, DeliveryTimesOut,
                RecordStep, Record, Task, TaskStates
  <2> QED
    BY <2>1, <2>2 DEF Typed
<1> QED
  BY <1>1, TasksStay

LEMMA NextBounded ==
    ASSUME CorrelationAssumption, Typed, Bounded, [Next]_vars
    PROVE  Bounded'
<1>1. CASE UNCHANGED vars
  BY <1>1 DEF vars, Bounded, Running
<1> SUFFICES ASSUME Next PROVE Bounded'
  BY <1>1
<1>2. CASE \A w \in {"worker", "recovery"} : ~ScheduleStep(w)
  <2>1. Running' \subseteq Running
    BY <1>2, TasksEnd DEF Running
  <2>2. IsFiniteSet(Running')
    BY <2>1, FS_Subset DEF Bounded
  <2>3. Cardinality(Running') <= Cardinality(Running)
    BY <2>1, FS_Subset DEF Bounded
  <2>4. Cardinality(Running') \in Nat /\ Cardinality(Running) \in Nat
    BY <2>2, FS_CardinalityType DEF Bounded
  <2> QED
    BY <2>2, <2>3, <2>4 DEF Bounded, CorrelationAssumption
<1>3. ASSUME NEW w \in {"worker", "recovery"}, ScheduleStep(w) PROVE Bounded'
  <2>1. PICK c \in Unscheduled(w) : tasks' = [tasks EXCEPT ![jobs[w].r][c] = "ready"]
    BY <1>3 DEF ScheduleStep, Schedule
  <2>2. jobs[w].r \in Requests /\ c \in Convs
    BY <1>3, <2>1 DEF ScheduleStep, Schedule, Typed, Unscheduled
  <2>3. \A r \in Requests, d \in Convs :
           tasks'[r][d] = IF r = jobs[w].r /\ d = c THEN "ready" ELSE tasks[r][d]
    BY <2>1, <2>2 DEF Typed
  <2>4. Running' \subseteq Running \cup {<<jobs[w].r, c>>}
    BY <2>3 DEF Running
  <2>5. Cardinality(Running) < Capacity /\ Cardinality(Running) \in Nat
    BY <1>3, FS_CardinalityType DEF ScheduleStep, Schedule, Bounded
  <2>6. /\ IsFiniteSet(Running \cup {<<jobs[w].r, c>>})
        /\ \/ Cardinality(Running \cup {<<jobs[w].r, c>>}) = Cardinality(Running) + 1
           \/ Cardinality(Running \cup {<<jobs[w].r, c>>}) = Cardinality(Running)
    BY FS_AddElement DEF Bounded
  <2>7. /\ IsFiniteSet(Running')
        /\ Cardinality(Running') <= Cardinality(Running \cup {<<jobs[w].r, c>>})
    BY <2>4, <2>6, FS_Subset
  <2>8. Cardinality(Running') \in Nat
    BY <2>7, FS_CardinalityType
  <2> QED
    BY <2>5, <2>6, <2>7, <2>8 DEF Bounded, CorrelationAssumption
<1> QED
  BY <1>2, <1>3

-----------------------------------------------------------------------------
(* The rows of a request agree, and go forward. *)

LEMMA DropRows ==
    ASSUME Typed, Crash \/ \E c \in Convs : DeleteDestination(c)
    PROVE  \A r \in Requests, c \in Convs : rows'[r][c] = rows[r][c] \/ rows'[r][c] = None
<1>1. CASE Crash
  <2>1. PICK old : rows' = [r \in Requests |-> IF r \in old THEN [c \in Convs |-> None] ELSE rows[r]]
    BY <1>1 DEF Crash
  <2> QED
    BY <2>1
<1>2. ASSUME NEW c \in Convs, DeleteDestination(c)
      PROVE  \A r \in Requests, d \in Convs : rows'[r][d] = rows[r][d] \/ rows'[r][d] = None
  BY <1>2 DEF DeleteDestination, Typed
<1> QED
  BY <1>1, <1>2

LEMMA NextOneState ==
    ASSUME CorrelationAssumption, Typed, OneState, Ordered, [Next]_vars
    PROVE  /\ OneState'
           /\ \A r \in Requests, c \in Convs :
                (rows[r][c] # None /\ rows'[r][c] # None)
                    => Precedence[rows[r][c]] <= Precedence[rows'[r][c]]
<1> DEFINE Forward == \A r \in Requests, c \in Convs :
                        (rows[r][c] # None /\ rows'[r][c] # None)
                            => Precedence[rows[r][c]] <= Precedence[rows'[r][c]]
<1>0. \A s \in RowStates : Precedence[s] <= Precedence[s]
  BY DEF RowStates, Precedence
<1>t. \A r \in Requests, c \in Convs : rows[r][c] # None => rows[r][c] \in RowStates
  BY DEF Typed
<1>1. CASE UNCHANGED rows
  BY <1>0, <1>1, <1>t DEF OneState
<1>2. ASSUME NEW r \in Requests, NEW c \in Convs, Put(r, c) PROVE OneState' /\ Forward
  <2>1. /\ \A q \in Requests, d \in Convs : <<q, d>> # <<r, c>> => rows'[q][d] = rows[q][d]
        /\ \A d \in Convs : rows[r][d] # None => rows'[r][c] = rows[r][d]
    BY <1>2, PutRows
  <2>2. \A q \in Requests, d \in Convs : q # r \/ d # c => rows'[q][d] = rows[q][d]
    BY <2>1
  <2>3. OneState'
    BY <2>1, <2>2 DEF OneState
  <2>4. Forward
    BY <1>0, <1>t, <2>1, <2>2
  <2> QED
    BY <2>3, <2>4
<1>3. ASSUME NEW r \in Requests, NEW expected, NEW state, Moves(r, expected, state)
      PROVE  OneState' /\ Forward
  <2>1. /\ \A q \in Requests, d \in Convs : q # r => rows'[q][d] = rows[q][d]
        /\ \A d \in Convs : rows[r][d] = None <=> rows'[r][d] = None
        /\ \/ rows' = rows /\ ~Transitions(r, expected, state)
           \/ /\ Transitions(r, expected, state)
              /\ \A d \in Convs : rows[r][d] # None => rows'[r][d] = state
    BY <1>3, TransitionRows DEF Moves
  <2>2. CASE rows' = rows
    BY <1>1, <2>2
  <2>3. CASE Transitions(r, expected, state) /\ \A d \in Convs : rows[r][d] # None => rows'[r][d] = state
    <3>1. OneState'
      BY <2>1, <2>3 DEF OneState
    <3>2. Forward
      BY <1>0, <1>t, <2>1, <2>3 DEF Transitions, RowsOf
    <3> QED
      BY <3>1, <3>2
  <2> QED
    BY <2>1, <2>2, <2>3
<1>4. CASE Crash \/ \E c \in Convs : DeleteDestination(c)
  <2>1. OneState'
    BY <1>4, DropRows DEF OneState
  <2>2. Forward
    BY <1>0, <1>4, <1>t, DropRows
  <2> QED
    BY <2>1, <2>2
<1>5. CASE UNCHANGED vars
  BY <1>1, <1>5 DEF vars
<1> QED
  BY <1>1, <1>2, <1>3, <1>4, <1>5, RowCases DEF RowsChange

-----------------------------------------------------------------------------
(* What was opened stays opened, what is over stays over, and what was delivered stays
   delivered. *)
LEMMA Onward ==
    ASSUME CorrelationAssumption, Typed, [Next]_vars
    PROVE  /\ \A r \in Requests :
                /\ native[r] # "unborn" => native'[r] # "unborn"
                /\ native[r] \notin {"unborn", "pending"} => native'[r] \notin {"unborn", "pending"}
                /\ native[r] \in Over => native'[r] = native[r]
           /\ \A r \in Requests, c \in Convs : sent[r][c] = "done" => sent'[r][c] = "done"
           /\ expired \subseteq expired'
<1> DEFINE N == \A r \in Requests :
                  /\ native[r] # "unborn" => native'[r] # "unborn"
                  /\ native[r] \notin {"unborn", "pending"} => native'[r] \notin {"unborn", "pending"}
                  /\ native[r] \in Over => native'[r] = native[r]
           S == \A r \in Requests, c \in Convs : sent[r][c] = "done" => sent'[r][c] = "done"
<1>1. CASE UNCHANGED vars
  BY <1>1 DEF vars
<1> SUFFICES ASSUME Next PROVE N /\ S /\ expired \subseteq expired'
  BY <1>1
<1>2. CASE UNCHANGED <<native, sent, expired>>
  BY <1>2
<1>3. ASSUME NEW r \in Requests, NativeStep(r) PROVE N /\ S /\ expired \subseteq expired'
  <2>1. CASE Expire(r)
    BY <2>1 DEF Expire, nativeVars, taskVars
  <2>2. CASE NativeOpens(r)
    BY <2>2 DEF NativeOpens, taskVars, Typed, NativeStates, Over
  <2>3. CASE NativeEnds(r)
    BY <2>3 DEF NativeEnds, taskVars, Typed, NativeStates, Over
  <2> QED
    BY <1>3, <2>1, <2>2, <2>3 DEF NativeStep
<1>4. CASE \E w \in {"worker", "recovery"} : ScheduleStep(w) \/ Scheduled(w)
  BY <1>2, <1>4 DEF ScheduleStep, Scheduled, nativeVars, taskVars
<1>5. CASE WorkerStep
  BY <1>2, <1>5 DEF WorkerStep, TakeOpened, TakeEnded, ApplyEnded, nativeVars, taskVars
<1>6. ASSUME NEW r \in Requests, NEW c \in Convs, TaskStep(r, c) PROVE N /\ S /\ expired \subseteq expired'
  <2>1. CASE UNCHANGED sent
    BY <1>2, <1>6, <2>1 DEF TaskStep, BeginPublication, Shows, Accepts, Retries, Fails,
                            DeliveryTimesOut, RecordStep, nativeVars
  <2>2. CASE Shows(r, c)
    BY <2>2 DEF Shows, nativeVars, Typed, None
  <2>3. CASE Accepts(r, c)
    BY <2>3 DEF Accepts, nativeVars, Typed
  <2> QED
    BY <1>6, <2>1, <2>2, <2>3 DEF TaskStep, BeginPublication, Retries, Fails,
                                  DeliveryTimesOut, RecordStep
<1>7. ASSUME NEW u \in Users, Answer(u) \/ UserStep(u) PROVE N /\ S /\ expired \subseteq expired'
  <2>1. UNCHANGED <<sent, expired>>
    BY <1>7 DEF Answer, UserStep, PublicationEnds, PublicationPends, AuthorizeStep,
                ExpireRows, Respond, Converge, Responded, RestOfUser, taskVars
  <2>2. UNCHANGED native \/ (native[Asked[u]] = "pending"
                             /\ native' = [native EXCEPT ![Asked[u]] = "answered"])
    BY <1>7 DEF Answer, UserStep, PublicationEnds, PublicationPends, AuthorizeStep,
                ExpireRows, Respond, Converge, Responded, nativeVars
  <2> QED
    BY <2>1, <2>2 DEF Typed, Over
<1>8. CASE \E c \in Convs : RouteStep(c)
  BY <1>2, <1>8 DEF RouteStep, Retire, DeleteDestination, ForgetRoute, Readd, OpenBarrier,
                    nativeVars, taskVars
<1>9. CASE ReconStep
  BY <1>2, <1>9 DEF ReconStep, Crash, Gap, ListPending, Redeliver, MarkStale, nativeVars, taskVars
<1> QED
  BY <1>3, <1>4, <1>5, <1>6, <1>7, <1>8, <1>9, StepCases

LEMMA InitGrounded == Init => Grounded
  BY DEF Init, Grounded, NoJob, None

(* A row is only written for a prompt that was accepted. *)
LEMMA RowsGrounded ==
    ASSUME CorrelationAssumption, Typed, OneState, Ordered, Grounded, Next
    PROVE  \A r \in Requests, c \in Convs :
             rows'[r][c] # None => sent'[r][c] = "done" /\ native'[r] # "unborn"
<1> SUFFICES ASSUME NEW r \in Requests, NEW c \in Convs, rows'[r][c] # None
             PROVE  sent[r][c] = "done" /\ native[r] # "unborn"
  BY Onward
<1>1. CASE rows[r][c] # None
  BY <1>1 DEF Grounded
<1>2. ASSUME NEW q \in Requests, NEW d \in Convs, RecordStep(q, d), Put(q, d)
      PROVE  rows[r][c] # None \/ (r = q /\ c = d)
  <2>1. \A x \in Requests, y \in Convs : <<x, y>> # <<q, d>> => rows'[x][y] = rows[x][y]
    BY <1>2, PutRows
  <2> QED
    BY <2>1
<1>3. ASSUME NEW q \in Requests, NEW expected, NEW state, Moves(q, expected, state)
      PROVE  rows[r][c] # None
  BY <1>3, TransitionRows DEF Moves
<1>4. CASE RecordStep(r, c)
  BY <1>4 DEF RecordStep, Record, Grounded, None
<1>5. CASE Crash \/ \E d \in Convs : DeleteDestination(d)
  BY <1>1, <1>5, DropRows
<1> QED
  BY <1>1, <1>2, <1>3, <1>4, <1>5, RowCases DEF RowsChange

LEMMA TasksGrounded ==
    ASSUME CorrelationAssumption, Typed, Grounded, Next
    PROVE  \A r \in Requests, c \in Convs :
             /\ tasks'[r][c] # None => native'[r] # "unborn"
             /\ tasks'[r][c] = "accepted" => sent'[r][c] = "done"
<1> SUFFICES ASSUME NEW r \in Requests, NEW c \in Convs
             PROVE  /\ tasks'[r][c] # None => native[r] # "unborn"
                    /\ tasks'[r][c] = "accepted" => sent'[r][c] = "done"
  BY Onward
<1>1. ASSUME NEW w \in {"worker", "recovery"}, ScheduleStep(w)
      PROVE  /\ tasks'[r][c] # None => native[r] # "unborn"
             /\ tasks'[r][c] = "accepted" => sent'[r][c] = "done"
  <2>1. PICK d \in Unscheduled(w) : tasks' = [tasks EXCEPT ![jobs[w].r][d] = "ready"]
    BY <1>1 DEF ScheduleStep, Schedule
  <2>2. jobs[w].r \in Requests /\ d \in Convs /\ native[jobs[w].r] # "unborn" /\ UNCHANGED sent
    BY <1>1, <2>1 DEF ScheduleStep, Schedule, Typed, Unscheduled, Grounded
  <2>3. tasks'[r][c] = IF r = jobs[w].r /\ c = d THEN "ready" ELSE tasks[r][c]
    BY <2>1, <2>2 DEF Typed
  <2> QED
    BY <2>2, <2>3 DEF Grounded
<1>2. CASE \A w \in {"worker", "recovery"} : ~ScheduleStep(w)
  <2>1. tasks'[r][c] # None => tasks[r][c] # None
    BY <1>2, TasksEnd
  <2>2. tasks'[r][c] = "accepted" => tasks[r][c] = "accepted" \/ Accepts(r, c)
    <3>1. CASE UNCHANGED tasks
      BY <3>1
    <3>2. ASSUME NEW q \in Requests, NEW d \in Convs, TaskStep(q, d), tasks'[r][c] = "accepted"
          PROVE  tasks[r][c] = "accepted" \/ Accepts(r, c)
      <4>1. PICK to \in TaskStates : tasks' = [tasks EXCEPT ![q][d] = to]
        BY <3>2 DEF TaskStep, BeginPublication, Shows, Accepts, Retries, Fails, DeliveryTimesOut,
                    RecordStep, Record, Task, TaskStates
      <4>2. CASE r # q \/ c # d
        BY <3>2, <4>1, <4>2 DEF Typed
      <4>3. CASE r = q /\ c = d
        BY <3>2, <4>3 DEF TaskStep, BeginPublication, Shows, Retries, Fails, DeliveryTimesOut,
                    RecordStep, Record, Task, Typed, None
      <4> QED
        BY <4>2, <4>3
    <3>3. ASSUME \A q \in Requests, d \in Convs : ~TaskStep(q, d) PROVE tasks'[r][c] \in {tasks[r][c], None}
      BY <1>2, <3>3, TasksStay
    <3> QED
      BY <3>2, <3>3 DEF None
  <2>3. Accepts(r, c) => sent'[r][c] = "done"
    BY DEF Accepts, Typed
  <2> QED
    BY <2>1, <2>2, <2>3, Onward DEF Grounded
<1> QED
  BY <1>1, <1>2

(* Where the jobs of the deliveries come from. *)
LEMMA JobCases ==
    ASSUME Typed, Next, NEW w \in {"worker", "recovery"}, jobs'[w] # NoJob
    PROVE  \/ jobs[w] # NoJob /\ jobs'[w].r = jobs[w].r
           \/ w = "worker" /\ TakeOpened /\ jobs'[w].r = Head(events).r
           \/ w = "recovery" /\ Redeliver /\ jobs'[w].r \in recon.pending
<1>1. CASE UNCHANGED jobs
  BY <1>1
<1>2. CASE \E v \in {"worker", "recovery"} : ScheduleStep(v) \/ Scheduled(v)
  <2>1. PICK v \in {"worker", "recovery"} : ScheduleStep(v) \/ Scheduled(v)
    BY <1>2
  <2>2. CASE v # w
    BY <2>1, <2>2, <1>1 DEF ScheduleStep, Schedule, Scheduled, Typed
  <2>3. CASE v = w /\ Scheduled(v)
    BY <2>3 DEF Scheduled, Typed
  <2>4. CASE v = w /\ ScheduleStep(v)
    BY <2>4 DEF ScheduleStep, Schedule, Typed
  <2> QED
    BY <2>1, <2>2, <2>3, <2>4
<1>3. CASE TakeOpened
  <2>1. jobs' = [jobs EXCEPT !["worker"] = Job(Head(events).r)]
    BY <1>3 DEF TakeOpened
  <2> QED
    BY <1>3, <2>1 DEF Typed, Job
<1>4. CASE Redeliver
  <2>1. PICK r \in recon.pending : jobs' = [jobs EXCEPT !["recovery"] = Job(r)]
    BY <1>4 DEF Redeliver
  <2> QED
    BY <1>4, <2>1 DEF Typed, Job
<1>5. CASE Crash
  BY <1>5 DEF Crash
<1>6. CASE \E r \in Requests : NativeStep(r)
  BY <1>1, <1>6 DEF NativeStep, NativeOpens, NativeEnds, Expire
<1>7. CASE WorkerStep
  BY <1>1, <1>3, <1>7 DEF WorkerStep, TakeEnded, ApplyEnded
<1>8. CASE \E r \in Requests, c \in Convs : TaskStep(r, c)
  BY <1>1, <1>8 DEF TaskStep, BeginPublication, Shows, Accepts, Retries, Fails, DeliveryTimesOut,
                    RecordStep
<1>9. CASE \E u \in Users : Answer(u) \/ UserStep(u)
  BY <1>1, <1>9 DEF Answer, UserStep, PublicationEnds, PublicationPends, AuthorizeStep,
                    ExpireRows, Respond, Converge, Responded, RestOfUser
<1>10. CASE \E c \in Convs : RouteStep(c)
  BY <1>1, <1>10 DEF RouteStep, Retire, DeleteDestination, ForgetRoute, Readd, OpenBarrier
<1>11. CASE ReconStep
  BY <1>1, <1>4, <1>5, <1>11 DEF ReconStep, Gap, ListPending, MarkStale
<1> QED
  BY <1>2, <1>6, <1>7, <1>8, <1>9, <1>10, <1>11, StepCases

(* A user who stands where an answer is given came there by its own step. *)
LEMMA UserCases ==
    ASSUME Typed, Next, NEW u \in Users, pc'[u] \notin {"idle", "done"}
    PROVE  pc'[u] = pc[u] \/ Answer(u) \/ UserStep(u)
<1>1. CASE UNCHANGED pc
  BY <1>1
<1>2. ASSUME NEW o \in Users, Answer(o) \/ UserStep(o) PROVE pc'[u] = pc[u] \/ Answer(u) \/ UserStep(u)
  <2>1. PICK to \in Places : pc' = [pc EXCEPT ![o] = to]
    BY <1>2 DEF Answer, UserStep, PublicationEnds, PublicationPends, AuthorizeStep, Authorize,
                ExpireRows, Respond, Converge, Responded, User, End, Places
  <2> QED
    BY <1>2, <2>1 DEF Typed
<1>3. CASE Crash
  BY <1>3 DEF Crash
<1>4. CASE \E r \in Requests : NativeStep(r)
  BY <1>1, <1>4 DEF NativeStep, NativeOpens, NativeEnds, Expire, userVars
<1>5. CASE \E w \in {"worker", "recovery"} : ScheduleStep(w) \/ Scheduled(w)
  BY <1>1, <1>5 DEF ScheduleStep, Scheduled, userVars
<1>6. CASE WorkerStep
  BY <1>1, <1>6 DEF WorkerStep, TakeOpened, TakeEnded, ApplyEnded, userVars
<1>7. CASE \E r \in Requests, c \in Convs : TaskStep(r, c)
  BY <1>1, <1>7 DEF TaskStep, BeginPublication, Shows, Accepts, Retries, Fails, DeliveryTimesOut,
                    RecordStep, userVars
<1>8. CASE \E c \in Convs : RouteStep(c)
  BY <1>1, <1>8 DEF RouteStep, Retire, DeleteDestination, ForgetRoute, Readd, OpenBarrier, userVars
<1>9. CASE ReconStep
  BY <1>1, <1>3, <1>9 DEF ReconStep, Gap, ListPending, Redeliver, MarkStale, userVars
<1> QED
  BY <1>2, <1>4, <1>5, <1>6, <1>7, <1>8, <1>9, StepCases

(* How a user comes to hold the lock of its request. *)
LEMMA UserMoves ==
    ASSUME CorrelationAssumption, Typed, NEW u \in Users, Answer(u) \/ UserStep(u)
    PROVE  /\ pc'[u] \in {"expiring", "native"} =>
                /\ AuthorizeStep(u) /\ rows[Asked[u]][From[u]] = "open"
                /\ pc'[u] = "expiring" <=> Asked[u] \in expired
           /\ pc'[u] \in {"answered", "refused"} => Respond(u)
           /\ \A o \in Users : o # u => pc'[o] = pc[o]
<1>0. Asked[u] \in Requests /\ From[u] \in Convs
  BY DEF CorrelationAssumption
<1>r. rows[Asked[u]][From[u]] \in RowStates \cup {None}
  BY <1>0 DEF Typed
<1>1. CASE AuthorizeStep(u)
  <2>1. \/ End(u, "unknown") \/ End(u, "unauthorized") \/ End(u, rows[Asked[u]][From[u]])
        \/ rows[Asked[u]][From[u]] = "open" /\ Asked[u] \in expired /\ User(u, "expiring")
        \/ rows[Asked[u]][From[u]] = "open" /\ Asked[u] \notin expired /\ User(u, "native")
    BY <1>1, <1>r DEF AuthorizeStep, Authorize, RowStates, RowsOf, None
  <2> QED
    BY <1>1, <2>1 DEF End, User, Typed
<1>2. CASE Respond(u)
  BY <1>2 DEF Respond, User, Typed
<1>3. CASE Answer(u)
  BY <1>3 DEF Answer, User, Typed
<1>4. CASE PublicationEnds(u) \/ PublicationPends(u) \/ ExpireRows(u) \/ Converge(u) \/ Responded(u)
  BY <1>4 DEF PublicationEnds, PublicationPends, ExpireRows, Converge, Responded, User, End, Typed
<1> QED
  BY <1>1, <1>2, <1>3, <1>4 DEF UserStep

LEMMA NextGrounded ==
    ASSUME CorrelationAssumption, Typed, OneState, Ordered, Listed, Grounded, [Next]_vars
    PROVE  Grounded'
<1>1. CASE UNCHANGED vars
  BY <1>1 DEF vars, Grounded
<1> SUFFICES ASSUME Next PROVE Grounded'
  BY <1>1
<1>2. ASSUME NEW w \in {"worker", "recovery"}, jobs'[w] # NoJob PROVE native'[jobs'[w].r] # "unborn"
  <2>1. CASE jobs[w] # NoJob /\ jobs'[w].r = jobs[w].r
    BY <2>1, Onward DEF Grounded, Typed
  <2>2. CASE TakeOpened /\ jobs'[w].r = Head(events).r
    <3>1. Len(events) > 0 /\ Head(events) = events[1] /\ events[1] \in Events
      BY <2>2 DEF TakeOpened, Typed
    <3> QED
      BY <2>2, <3>1, Onward DEF Ordered, Announced, Events
  <2>3. CASE jobs'[w].r \in recon.pending
    BY <2>3, Onward DEF Listed, Typed
  <2> QED
    BY <1>2, <2>1, <2>2, <2>3, JobCases
<1>3. ASSUME NEW u \in Users, pc'[u] \in {"native", "answered"} PROVE sent'[Asked[u]][From[u]] = "done"
  <2>0. Asked[u] \in Requests /\ From[u] \in Convs
    BY DEF CorrelationAssumption
  <2>1. CASE pc'[u] = pc[u]
    BY <1>3, <2>0, <2>1, Onward DEF Grounded
  <2>2. CASE Answer(u) \/ UserStep(u)
    <3>1. CASE rows[Asked[u]][From[u]] = "open"
      BY <2>0, <3>1, Onward DEF Grounded, None
    <3>2. CASE Respond(u)
      BY <2>0, <3>2, Onward DEF Grounded, Respond
    <3> QED
      BY <1>3, <2>2, <3>1, <3>2, UserMoves
  <2> QED
    BY <1>3, <2>1, <2>2, UserCases
<1>4. ASSUME NEW u \in Users, pc'[u] = "expiring" PROVE Asked[u] \in expired'
  <2>1. CASE pc'[u] = pc[u]
    BY <1>4, <2>1, Onward DEF Grounded
  <2>2. CASE Answer(u) \/ UserStep(u)
    BY <1>4, <2>2, UserMoves, Onward
  <2> QED
    BY <1>4, <2>1, <2>2, UserCases
<1> QED
  BY <1>2, <1>3, <1>4, RowsGrounded, TasksGrounded DEF Grounded

(* Only those who were shown a request answer it. *)
LEMMA NextRecipients ==
    ASSUME CorrelationAssumption, Typed, Grounded, OnlyRecipientsAnswer, [Next]_vars
    PROVE  OnlyRecipientsAnswer'
<1> SUFFICES ASSUME NEW r \in Requests, accepted'[r] # None PROVE sent'[r][From[accepted'[r]]] = "done"
  BY DEF OnlyRecipientsAnswer
<1>1. CASE accepted'[r] = accepted[r]
  <2>1. From[accepted[r]] \in Convs
    BY <1>1 DEF CorrelationAssumption, Typed
  <2> QED
    BY <1>1, <2>1, Onward DEF OnlyRecipientsAnswer
<1>2. ASSUME NEW u \in Users, Respond(u) PROVE sent'[r][From[accepted'[r]]] = "done"
  <2>0. Asked[u] \in Requests /\ From[u] \in Convs
    BY DEF CorrelationAssumption
  <2>1. CASE accepted' = [accepted EXCEPT ![Asked[u]] = u] /\ r = Asked[u]
    <3>1. sent[r][From[u]] = "done" /\ accepted'[r] = u
      BY <1>2, <2>1 DEF Grounded, Respond, Typed
    <3> QED
      BY <2>0, <2>1, <3>1, Onward
  <2>2. CASE accepted'[r] = accepted[r]
    BY <1>1, <2>2
  <2>3. \/ accepted' = accepted \/ accepted' = [accepted EXCEPT ![Asked[u]] = u]
    BY <1>2 DEF Respond
  <2> QED
    BY <2>1, <2>2, <2>3 DEF Typed
<1>3. UNCHANGED accepted \/ \E u \in Users : Respond(u)
  <2>1. CASE UNCHANGED vars
    BY <2>1 DEF vars
  <2>2. CASE Next
    <3> USE DEF nativeVars
    <3>2. CASE \E q \in Requests : NativeStep(q)
      BY <3>2 DEF NativeStep, NativeOpens, NativeEnds, Expire
    <3>3. CASE \E w \in {"worker", "recovery"} : ScheduleStep(w) \/ Scheduled(w)
      BY <3>3 DEF ScheduleStep, Scheduled
    <3>4. CASE WorkerStep
      BY <3>4 DEF WorkerStep, TakeOpened, TakeEnded, ApplyEnded
    <3>5. CASE \E q \in Requests, c \in Convs : TaskStep(q, c)
      BY <3>5 DEF TaskStep, BeginPublication, Shows, Accepts, Retries, Fails, DeliveryTimesOut,
                  RecordStep
    <3>6. CASE \E u \in Users : Answer(u) \/ UserStep(u)
      BY <3>6 DEF Answer, UserStep, PublicationEnds, PublicationPends, AuthorizeStep,
                  ExpireRows, Converge, Responded
    <3>7. CASE \E c \in Convs : RouteStep(c)
      BY <3>7 DEF RouteStep, Retire, DeleteDestination, ForgetRoute, Readd, OpenBarrier
    <3>8. CASE ReconStep
      BY <3>8 DEF ReconStep, Crash, Gap, ListPending, Redeliver, MarkStale
    <3> QED
      BY <2>2, <3>2, <3>3, <3>4, <3>5, <3>6, <3>7, <3>8, StepCases
  <2> QED
    BY <2>1, <2>2
<1> QED
  BY <1>1, <1>2, <1>3

-----------------------------------------------------------------------------
(* The events are true and in order. *)

LEMMA InitOrdered == Init => Ordered
  BY DEF Init, Ordered

LEMMA StillAnnounced ==
    ASSUME CorrelationAssumption, Typed, [Next]_vars, NEW e \in Events, Announced(e)
    PROVE  Announced(e)'
  BY Onward DEF Announced, Events

(* How the queue of the worker changes. *)
LEMMA EventCases ==
    ASSUME Next
    PROVE  \/ UNCHANGED events
           \/ \E r \in Requests : NativeOpens(r) \/ NativeEnds(r)
           \/ (TakeOpened \/ TakeEnded) /\ events # <<>> /\ events' = Tail(events)
           \/ events' = <<>>
<1>1. CASE \E r \in Requests : NativeStep(r)
  BY <1>1 DEF NativeStep, Expire
<1>2. CASE \E w \in {"worker", "recovery"} : ScheduleStep(w) \/ Scheduled(w)
  BY <1>2 DEF ScheduleStep, Scheduled
<1>3. CASE WorkerStep
  BY <1>3 DEF WorkerStep, TakeOpened, TakeEnded, ApplyEnded
<1>4. CASE \E q \in Requests, c \in Convs : TaskStep(q, c)
  BY <1>4 DEF TaskStep, BeginPublication, Shows, Accepts, Retries, Fails, DeliveryTimesOut,
              RecordStep
<1>5. CASE \E u \in Users : Answer(u) \/ UserStep(u)
  BY <1>5 DEF Answer, UserStep, PublicationEnds, PublicationPends, AuthorizeStep,
              ExpireRows, Respond, Converge, Responded, RestOfUser
<1>6. CASE \E c \in Convs : RouteStep(c)
  BY <1>6 DEF RouteStep, Retire, DeleteDestination, ForgetRoute, Readd, OpenBarrier
<1>7. CASE ReconStep
  BY <1>7 DEF ReconStep, Crash, Gap, ListPending, Redeliver, MarkStale
<1> QED
  BY <1>1, <1>2, <1>3, <1>4, <1>5, <1>6, <1>7, StepCases

(* The resolution the worker is at: taken from the queue, applied, or dropped. *)
LEMMA ClosingCases ==
    ASSUME Next
    PROVE  \/ UNCHANGED <<closing, closed>>
           \/ TakeEnded
           \/ ApplyEnded
           \/ Crash
<1>1. CASE \E r \in Requests : NativeStep(r)
  BY <1>1 DEF NativeStep, NativeOpens, NativeEnds, Expire
<1>2. CASE \E w \in {"worker", "recovery"} : ScheduleStep(w) \/ Scheduled(w)
  BY <1>2 DEF ScheduleStep, Scheduled
<1>3. CASE WorkerStep
  BY <1>3 DEF WorkerStep, TakeOpened
<1>4. CASE \E q \in Requests, c \in Convs : TaskStep(q, c)
  BY <1>4 DEF TaskStep, BeginPublication, Shows, Accepts, Retries, Fails, DeliveryTimesOut,
              RecordStep
<1>5. CASE \E u \in Users : Answer(u) \/ UserStep(u)
  BY <1>5 DEF Answer, UserStep, PublicationEnds, PublicationPends, AuthorizeStep,
              ExpireRows, Respond, Converge, Responded, RestOfUser
<1>6. CASE \E c \in Convs : RouteStep(c)
  BY <1>6 DEF RouteStep, Retire, DeleteDestination, ForgetRoute, Readd, OpenBarrier
<1>7. CASE ReconStep
  BY <1>7 DEF ReconStep, Gap, ListPending, Redeliver, MarkStale
<1> QED
  BY <1>1, <1>2, <1>3, <1>4, <1>5, <1>6, <1>7, StepCases

(* The head and the tail of the queue. *)
LEMMA TakenEvent ==
    ASSUME Typed, events # <<>>
    PROVE  /\ Len(events) \in Nat /\ Len(events) >= 1
           /\ Head(events) = events[1] /\ events[1] \in Events
           /\ Tail(events) \in Seq(Events) /\ Len(Tail(events)) = Len(events) - 1
           /\ \A i \in 1..Len(Tail(events)) : Tail(events)[i] = events[i + 1] /\ i + 1 \in 1..Len(events)
<1>1. events \in Seq(Events)
  BY DEF Typed
<1> QED
  BY <1>1

LEMMA AddedEvent ==
    ASSUME Typed, NEW e \in Events, events' = Append(events, e)
    PROVE  /\ Len(events) \in Nat /\ Len(events') = Len(events) + 1
           /\ \A i \in 1..Len(events) : events'[i] = events[i]
           /\ events'[Len(events) + 1] = e
<1>1. events \in Seq(Events)
  BY DEF Typed
<1> QED
  BY <1>1

LEMMA NextOrdered ==
    ASSUME CorrelationAssumption, Typed, Ordered, [Next]_vars
    PROVE  Ordered'
<1>1. CASE UNCHANGED vars
  BY <1>1 DEF vars, Ordered, Announced
<1> SUFFICES ASSUME Next PROVE Ordered'
  BY <1>1
<1>e. events \in Seq(Events) /\ \A i \in 1..Len(events) : events[i] \in Events
  BY DEF Typed
<1>2. /\ \A i \in 1..Len(events') : \A x : x = events'[i] => Announced(x)'
      /\ \A i, j \in 1..Len(events') : i < j /\ events'[i].r = events'[j].r =>
           events'[i].type = "opened" /\ events'[j].type = "ended"
  <2> DEFINE Goal == /\ \A i \in 1..Len(events') : \A x : x = events'[i] => Announced(x)'
                     /\ \A i, j \in 1..Len(events') : i < j /\ events'[i].r = events'[j].r =>
                          events'[i].type = "opened" /\ events'[j].type = "ended"
  <2>0. \A i \in 1..Len(events) : \A x : x = events[i] => Announced(x)'
    BY <1>e, StillAnnounced DEF Ordered
  <2>1. CASE UNCHANGED events
    <3>1. Len(events') = Len(events)
      BY <2>1
    <3>2. \A i \in 1..Len(events) : \A e : e = events'[i] => Announced(e)'
      BY <2>0, <2>1
    <3> QED
      BY <2>1, <3>1, <3>2 DEF Ordered
  <2>2. ASSUME NEW e \in Events, events' = Append(events, e), Announced(e)',
               \A i \in 1..Len(events) : events[i].r = e.r => events[i].type = "opened" /\ e.type = "ended"
        PROVE  Goal
    <3>1. /\ Len(events) \in Nat /\ Len(events') = Len(events) + 1
          /\ \A i \in 1..Len(events) : events'[i] = events[i]
          /\ events'[Len(events) + 1] = e
      BY <2>2, AddedEvent
    <3>2. \A i \in 1..Len(events') : i \in 1..Len(events) \/ i = Len(events) + 1
      BY <3>1
    <3>3. \A i \in 1..Len(events') : \A x : x = events'[i] => Announced(x)'
      BY <2>0, <2>2, <3>1, <3>2
    <3>4. \A i, j \in 1..Len(events') : i < j /\ events'[i].r = events'[j].r =>
            events'[i].type = "opened" /\ events'[j].type = "ended"
      <4> SUFFICES ASSUME NEW i \in 1..Len(events'), NEW j \in 1..Len(events'), i < j,
                          events'[i].r = events'[j].r
                   PROVE  events'[i].type = "opened" /\ events'[j].type = "ended"
        OBVIOUS
      <4>1. i \in 1..Len(events)
        BY <3>1
      <4>2. CASE j \in 1..Len(events)
        BY <3>1, <4>1, <4>2 DEF Ordered
      <4>3. CASE j = Len(events) + 1
        BY <2>2, <3>1, <4>1, <4>3
      <4> QED
        BY <3>2, <4>2, <4>3
    <3> QED
      BY <3>3, <3>4
  <2>3. ASSUME NEW r \in Requests, NativeOpens(r) PROVE Goal
    <3> DEFINE e == [type |-> "opened", r |-> r, as |-> "open"]
    <3>1. e \in Events /\ events' = Append(events, e) /\ e.r = r /\ e.type = "opened"
      BY <2>3 DEF NativeOpens, Events
    <3>2. native[r] = "unborn" /\ native'[r] = "pending"
      BY <2>3 DEF NativeOpens, Typed
    <3>3. Announced(e)'
      BY <3>2 DEF Announced
    <3>4. \A i \in 1..Len(events) : events[i].r # r
      BY <3>2 DEF Ordered, Announced
    <3> QED
      BY <2>2, <3>1, <3>3, <3>4
  <2>4. ASSUME NEW r \in Requests, NativeEnds(r) PROVE Goal
    <3>1. PICK as \in {"resolved", "stale"} :
             /\ native[r] = "pending" \/ native[r] = "answered"
             /\ native' = [native EXCEPT ![r] = as]
             /\ events' = Append(events, [type |-> "ended", r |-> r, as |-> as])
      BY <2>4 DEF NativeEnds
    <3> DEFINE e == [type |-> "ended", r |-> r, as |-> as]
    <3>2. e \in Events /\ events' = Append(events, e) /\ e.r = r /\ e.type = "ended" /\ e.as = as
      BY <3>1 DEF Events
    <3>3. native'[r] = as
      BY <3>1 DEF Typed
    <3>4. Announced(e)'
      BY <3>2, <3>3 DEF Announced, Over
    <3>5. \A i \in 1..Len(events) : events[i].r = r => events[i].type = "opened"
      BY <1>e, <3>1 DEF Ordered, Announced, Over, Events
    <3> QED
      BY <2>2, <3>2, <3>4, <3>5
  <2>5. CASE events # <<>> /\ events' = Tail(events)
    <3>1. /\ Len(events) \in Nat /\ Len(events) >= 1 /\ Len(events') = Len(events) - 1
          /\ \A i \in 1..Len(events') : events'[i] = events[i + 1] /\ i + 1 \in 1..Len(events)
      BY <2>5, TakenEvent
    <3>2. \A i \in 1..Len(events') : \A x : x = events'[i] => Announced(x)'
      BY <2>0, <3>1
    <3>3. \A i, j \in 1..Len(events') : i < j /\ events'[i].r = events'[j].r =>
            events'[i].type = "opened" /\ events'[j].type = "ended"
      BY <3>1 DEF Ordered
    <3> QED
      BY <3>2, <3>3
  <2>6. CASE events' = <<>>
    BY <2>6
  <2> QED
    BY <2>1, <2>3, <2>4, <2>5, <2>6, EventCases
<1>3. /\ closing' # NoJob => closing'.type = "ended" /\ \A e : e = closing' => Announced(e)'
      /\ \A r \in closed' : native'[r] \in Over
  <2>1. CASE UNCHANGED <<closing, closed>>
    <3>1. closing # NoJob => closing.type = "ended" /\ \A e : e = closing => Announced(e)'
      BY StillAnnounced DEF Ordered, Typed
    <3> QED
      BY <2>1, <3>1, Onward DEF Ordered, Typed
  <2>2. CASE TakeEnded
    <3>1. Head(events) = events[1] /\ 1 \in 1..Len(events) /\ events[1] \in Events
      BY <2>2, TakenEvent DEF TakeEnded
    <3>2. \A e : e = events[1] => Announced(e)'
      BY <3>1, StillAnnounced DEF Ordered
    <3> QED
      BY <2>2, <3>1, <3>2, Onward DEF TakeEnded, Ordered, Typed
  <2>3. CASE ApplyEnded
    <3>1. closing.r \in Requests /\ native[closing.r] \in Over
      BY <2>3 DEF ApplyEnded, Ordered, Announced, Typed, Events
    <3> QED
      BY <2>3, <3>1, Onward DEF ApplyEnded, Ordered, Typed
  <2>4. CASE Crash
    BY <2>4, Onward DEF Crash, Ordered, Typed
  <2> QED
    BY <2>1, <2>2, <2>3, <2>4, ClosingCases
<1> QED
  BY <1>2, <1>3 DEF Ordered, Announced

-----------------------------------------------------------------------------
(* Recovery. *)

LEMMA InitListed == Init => Listed
  BY DEF Init, Listed, NoRecon, NoJob

LEMMA ReconCases ==
    ASSUME Next
    PROVE  UNCHANGED recon \/ ReconStep
<1>1. CASE \E r \in Requests : NativeStep(r)
  BY <1>1 DEF NativeStep, NativeOpens, NativeEnds, Expire
<1>2. CASE \E w \in {"worker", "recovery"} : ScheduleStep(w) \/ Scheduled(w)
  BY <1>2 DEF ScheduleStep, Scheduled
<1>3. CASE WorkerStep
  BY <1>3 DEF WorkerStep, TakeOpened, TakeEnded, ApplyEnded
<1>4. CASE \E q \in Requests, c \in Convs : TaskStep(q, c)
  BY <1>4 DEF TaskStep, BeginPublication, Shows, Accepts, Retries, Fails, DeliveryTimesOut,
              RecordStep
<1>5. CASE \E u \in Users : Answer(u) \/ UserStep(u)
  BY <1>5 DEF Answer, UserStep, PublicationEnds, PublicationPends, AuthorizeStep,
              ExpireRows, Respond, Converge, Responded, RestOfUser
<1>6. CASE \E c \in Convs : RouteStep(c)
  BY <1>6 DEF RouteStep, Retire, DeleteDestination, ForgetRoute, Readd, OpenBarrier
<1> QED
  BY <1>1, <1>2, <1>3, <1>4, <1>5, <1>6, StepCases

(* A recovery that begins knows nothing but the requests that have an open row. *)
LEMMA ReconBegins ==
    ASSUME Typed, Grounded, recon' = NoRecon \/
           \E open \in SUBSET OpenRefs, by \in {"gap", "restart"} :
              recon' = [NoRecon EXCEPT !.stage = "start", !.by = by, !.open = open]
    PROVE  /\ \A r \in recon'.open : native[r] # "unborn"
           /\ recon'.pending = {} /\ recon'.listed = {} /\ recon'.stage # "deliver"
           /\ recon'.stage = "idle" => recon' = NoRecon
<1>1. \A r \in OpenRefs : native[r] # "unborn"
  BY DEF OpenRefs, Grounded, None
<1>2. CASE recon' = NoRecon
  BY <1>2 DEF NoRecon
<1>3. ASSUME NEW open \in SUBSET OpenRefs, NEW by \in {"gap", "restart"},
             recon' = [NoRecon EXCEPT !.stage = "start", !.by = by, !.open = open]
      PROVE  /\ recon'.open = open /\ recon'.pending = {} /\ recon'.listed = {}
             /\ recon'.stage = "start"
  BY <1>3 DEF NoRecon
<1> QED
  BY <1>1, <1>2, <1>3

LEMMA NextListed ==
    ASSUME CorrelationAssumption, Typed, Grounded, Listed, [Next]_vars
    PROVE  Listed'
<1>1. CASE UNCHANGED vars
  BY <1>1 DEF vars, Listed
<1> SUFFICES ASSUME Next PROVE Listed'
  BY <1>1
<1>t. recon.open \subseteq Requests /\ recon.pending \subseteq Requests /\ recon.listed \subseteq Requests
  BY DEF Typed
<1>2. ASSUME /\ \A r \in recon'.open : r \in Requests /\ native[r] # "unborn"
             /\ \A r \in recon'.pending \cup recon'.listed : r \in Requests /\ native[r] # "unborn"
             /\ Snapshot /\ recon'.stage = "deliver" =>
                  \A r \in recon'.open \ recon'.listed : native[r] # "pending"
             /\ recon'.stage = "idle" => recon' = NoRecon
             /\ jobs'["recovery"] # NoJob => recon'.stage = "deliver"
      PROVE  Listed'
  BY <1>2, Onward DEF Listed
<1>3. jobs'["recovery"] # NoJob => jobs["recovery"] # NoJob \/ Redeliver
  BY JobCases
<1>4. CASE UNCHANGED recon
  <2>1. ~Redeliver
    BY <1>4 DEF Redeliver, Typed
  <2> QED
    BY <1>2, <1>3, <1>4, <1>t, <2>1 DEF Listed
<1>5. CASE Crash
  <2>1. \E open \in SUBSET OpenRefs :
          recon' = [NoRecon EXCEPT !.stage = "start", !.by = "restart", !.open = open]
    BY <1>5 DEF Crash
  <2>2. jobs'["recovery"] = NoJob
    BY <1>5 DEF Crash
  <2>3. /\ \A r \in recon'.open : native[r] # "unborn"
        /\ recon'.pending = {} /\ recon'.listed = {} /\ recon'.stage # "deliver"
        /\ recon'.stage = "idle" => recon' = NoRecon
    BY <2>1, ReconBegins
  <2>4. recon'.open \subseteq Requests
    BY <2>1 DEF NoRecon, OpenRefs
  <2> QED
    BY <1>2, <2>2, <2>3, <2>4
<1>6. CASE Gap
  <2>1. recon' = NoRecon \/ \E open \in SUBSET OpenRefs :
          recon' = [NoRecon EXCEPT !.stage = "start", !.by = "gap", !.open = open]
    BY <1>6 DEF Gap
  <2>2. jobs'["recovery"] = NoJob
    BY <1>6 DEF Gap, Listed
  <2>3. /\ \A r \in recon'.open : native[r] # "unborn"
        /\ recon'.pending = {} /\ recon'.listed = {} /\ recon'.stage # "deliver"
        /\ recon'.stage = "idle" => recon' = NoRecon
    BY <2>1, ReconBegins
  <2>4. recon'.open \subseteq Requests
    <3>1. CASE recon' = NoRecon
      BY <3>1 DEF NoRecon
    <3>2. ASSUME NEW open \in SUBSET OpenRefs,
                 recon' = [NoRecon EXCEPT !.stage = "start", !.by = "gap", !.open = open]
          PROVE  recon'.open \subseteq Requests
      <4>1. recon'.open = open
        BY <3>2 DEF NoRecon
      <4> QED
        BY <4>1 DEF OpenRefs
    <3> QED
      BY <2>1, <3>1, <3>2
  <2> QED
    BY <1>2, <2>2, <2>3, <2>4
<1>7. CASE ListPending
  <2>1. PICK pending : /\ pending = IF Snapshot THEN {r \in Requests : native[r] = "pending"} ELSE {}
                       /\ recon' = [recon EXCEPT !.stage = "deliver", !.pending = pending, !.listed = pending]
    BY <1>7 DEF ListPending
  <2>2. /\ recon'.open = recon.open /\ recon'.pending = pending /\ recon'.listed = pending
        /\ recon'.stage = "deliver"
    BY <2>1 DEF Typed
  <2>3. \A r \in pending : r \in Requests /\ native[r] # "unborn"
    BY <2>1
  <2>4. Snapshot => \A r \in recon.open \ pending : native[r] # "pending"
    BY <1>t, <2>1
  <2> QED
    BY <1>2, <1>t, <2>2, <2>3, <2>4 DEF Listed
<1>8. CASE Redeliver
  <2>1. /\ recon'.open = recon.open /\ recon'.pending \subseteq recon.pending
        /\ recon'.listed = recon.listed /\ recon'.stage = "deliver" /\ recon.stage = "deliver"
    BY <1>8 DEF Redeliver, Typed
  <2> QED
    BY <1>2, <1>t, <2>1 DEF Listed
<1>9. CASE MarkStale
  <2>1. jobs'["recovery"] = NoJob
    BY <1>9 DEF MarkStale
  <2>2. CASE recon' = NoRecon
    BY <1>2, <2>1, <2>2 DEF NoRecon
  <2>3. ASSUME NEW r, recon' = [recon EXCEPT !.open = @ \ {r}] PROVE Listed'
    <3>1. /\ recon'.open \subseteq recon.open /\ recon'.pending = recon.pending
          /\ recon'.listed = recon.listed /\ recon'.stage = "deliver" /\ recon.stage = "deliver"
      BY <1>9, <2>3 DEF MarkStale, Typed
    <3> QED
      BY <1>2, <1>t, <2>1, <3>1 DEF Listed
  <2> QED
    BY <1>9, <2>2, <2>3 DEF MarkStale
<1> QED
  BY <1>4, <1>5, <1>6, <1>7, <1>8, <1>9, ReconCases DEF ReconStep

(* A request is made stale only when it is over, or past its time. *)
LEMMA NextStale ==
    ASSUME CorrelationAssumption, Typed, OneState, Grounded, Ordered, Listed, StaleIsOver, [Next]_vars
    PROVE  StaleIsOver'
<1> SUFFICES ASSUME NEW r \in Requests, NEW c \in Convs, Snapshot, rows'[r][c] = "stale"
             PROVE  native'[r] # "pending" \/ r \in expired'
  BY DEF StaleIsOver
<1> DEFINE Ok == native[r] \notin {"unborn", "pending"} \/ r \in expired
<1>0. Ok => native'[r] # "pending" \/ r \in expired'
  BY Onward
<1>1. ASSUME NEW d \in Convs, rows[r][d] = "stale" PROVE Ok
  BY <1>1 DEF StaleIsOver, Grounded, None
<1>2. CASE UNCHANGED rows
  BY <1>0, <1>1, <1>2
<1>3. ASSUME NEW q \in Requests, NEW d \in Convs, Put(q, d) PROVE Ok
  <2>1. CASE r = q /\ c = d
    <3>1. PICK o \in Convs : rows[r][o] # None
      BY <1>3, <2>1, PutRows DEF RowsOf
    <3>2. rows[r][o] = "stale"
      BY <1>3, <2>1, <3>1, PutRows
    <3> QED
      BY <1>1, <3>2
  <2>2. CASE <<r, c>> # <<q, d>>
    BY <1>1, <1>3, <2>2, PutRows
  <2> QED
    BY <2>1, <2>2
<1>4. ASSUME NEW q \in Requests, NEW expected \in SUBSET RowStates, NEW state \in RowStates,
             Transition(q, expected, state),
             state = "stale" => native[q] \notin {"unborn", "pending"} \/ q \in expired
      PROVE  Ok
  <2>1. /\ \A x \in Requests, d \in Convs : x # q => rows'[x][d] = rows[x][d]
        /\ \A d \in Convs : rows[q][d] = None <=> rows'[q][d] = None
        /\ rows' = rows \/ \A d \in Convs : rows[q][d] # None => rows'[q][d] = state
    BY <1>4, TransitionRows
  <2>2. CASE r # q \/ rows' = rows
    BY <1>1, <2>1, <2>2
  <2>3. CASE r = q /\ \A d \in Convs : rows[q][d] # None => rows'[q][d] = state
    BY <1>4, <2>1, <2>3 DEF None
  <2> QED
    BY <2>1, <2>2, <2>3
<1>5. CASE Crash \/ \E d \in Convs : DeleteDestination(d)
  BY <1>0, <1>1, <1>5, DropRows DEF None
<1>6. CASE UNCHANGED vars
  BY <1>2, <1>6 DEF vars
<1>7. CASE ApplyEnded
  <2>1. closing.r \in Requests /\ closing.as \in RowStates /\ native[closing.r] = closing.as
    BY <1>7 DEF ApplyEnded, Typed, Events, Ordered, Announced, Over, RowStates
  <2> DEFINE expected == {"open", "responded"} \cup (IF closing.as = "resolved" THEN {"stale"} ELSE {})
  <2>2. expected \in SUBSET RowStates
    BY DEF RowStates
  <2>3. Transition(closing.r, expected, closing.as)
    BY <1>7 DEF ApplyEnded
  <2> HIDE DEF expected
  <2> QED
    BY <1>0, <1>4, <2>1, <2>2, <2>3
<1>8. ASSUME NEW u \in Users, UserStep(u) PROVE native'[r] # "pending" \/ r \in expired'
  <2>1. Asked[u] \in Requests
    BY DEF CorrelationAssumption
  <2>2. CASE ExpireRows(u)
    <3>1. Asked[u] \in expired /\ Transition(Asked[u], {"open"}, "stale")
      BY <2>2 DEF ExpireRows, Grounded
    <3> QED
      BY <1>0, <1>4, <2>1, <3>1 DEF RowStates
  <2>3. CASE Responded(u)
    BY <1>0, <1>4, <2>1, <2>3 DEF Responded, RecordResponse, RowStates
  <2>4. CASE Converge(u)
    <3>1. CASE native[Asked[u]] = "answered"
      BY <1>0, <1>4, <2>1, <2>4, <3>1 DEF Converge, RowStates, None
    <3>2. CASE native[Asked[u]] = "resolved"
      BY <1>0, <1>4, <2>1, <2>4, <3>2 DEF Converge, RowStates, None
    <3>3. CASE native[Asked[u]] = "stale"
      BY <1>0, <1>4, <2>1, <2>4, <3>3 DEF Converge, RowStates, None
    <3>4. CASE native[Asked[u]] \notin {"answered", "resolved", "stale"}
      BY <1>2, <2>4, <3>4 DEF Converge, None
    <3> QED
      BY <3>1, <3>2, <3>3, <3>4
  <2> QED
    BY <1>2, <1>8, <2>2, <2>3, <2>4
       DEF UserStep, PublicationEnds, PublicationPends, AuthorizeStep, Respond
<1>9. CASE MarkStale
  <2>1. CASE UNCHANGED rows
    BY <1>2, <2>1
  <2>2. ASSUME NEW q \in Missing, Transition(q, {"open"}, "stale") PROVE Ok
    <3>1. q \in Requests /\ native[q] \notin {"unborn", "pending"}
      BY <1>9, <2>2 DEF MarkStale, Missing, Listed, Typed
    <3> QED
      BY <1>4, <2>2, <3>1 DEF RowStates
  <2> QED
    BY <1>0, <1>9, <2>1, <2>2 DEF MarkStale
<1>10. CASE \E q \in Requests : NativeStep(q)
  BY <1>2, <1>10 DEF NativeStep, NativeOpens, NativeEnds, Expire
<1>11. CASE \E w \in {"worker", "recovery"} : ScheduleStep(w) \/ Scheduled(w)
  BY <1>2, <1>11 DEF ScheduleStep, Scheduled
<1>12. CASE WorkerStep
  BY <1>2, <1>7, <1>12 DEF WorkerStep, TakeOpened, TakeEnded
<1>13. CASE \E q \in Requests, d \in Convs : TaskStep(q, d)
  <2>1. UNCHANGED rows \/ \E q \in Requests, d \in Convs : Put(q, d)
    BY <1>13 DEF TaskStep, BeginPublication, Shows, Accepts, Retries, Fails, DeliveryTimesOut,
                 RecordStep, Record
  <2> QED
    BY <1>0, <1>2, <1>3, <2>1
<1>14. CASE \E u \in Users : Answer(u)
  BY <1>2, <1>14 DEF Answer
<1>15. CASE \E d \in Convs : RouteStep(d)
  BY <1>2, <1>5, <1>15 DEF RouteStep, Retire, ForgetRoute, Readd, OpenBarrier
<1>16. CASE ReconStep
  BY <1>2, <1>5, <1>9, <1>16 DEF ReconStep, Gap, ListPending, Redeliver
<1> QED
  BY <1>6, <1>8, <1>10, <1>11, <1>12, <1>13, <1>14, <1>15, <1>16, StepCases

(* The lock of a request. *)
LEMMA NextExclusive ==
    ASSUME CorrelationAssumption, Typed, Exclusive, [Next]_vars
    PROVE  Exclusive'
<1> SUFFICES ASSUME NEW u \in Users, NEW o \in Users, u # o, Asked[u] = Asked[o],
                    pc'[u] \in Holding, pc'[o] \in Holding
             PROVE  FALSE
  BY DEF Exclusive
<1>1. ASSUME NEW v \in Users, NEW x \in Users, v # x, Asked[v] = Asked[x], pc'[v] \in Holding,
             pc'[x] \in Holding, Answer(v) \/ UserStep(v)
      PROVE  FALSE
  <2>1. pc'[x] = pc[x]
    BY <1>1, UserMoves
  <2>2. CASE AuthorizeStep(v)
    BY <1>1, <2>1, <2>2 DEF AuthorizeStep, HoldsLock, Holding
  <2>3. CASE Respond(v)
    BY <1>1, <2>1, <2>3 DEF Respond, Exclusive, Holding
  <2> QED
    BY <1>1, <2>2, <2>3, UserMoves DEF Holding
<1>2. CASE UNCHANGED vars
  BY <1>2 DEF vars, Exclusive
<1>3. CASE Next
  BY <1>1, <1>3, UserCases DEF Exclusive, Holding
<1> QED
  BY <1>2, <1>3

-----------------------------------------------------------------------------
(* While nothing disturbs the rows. *)

LEMMA FaultCases ==
    ASSUME Next
    PROVE  UNCHANGED faults \/ Crash \/ Gap \/ \E c \in Convs : Retire(c)
<1>1. CASE \E r \in Requests : NativeStep(r)
  BY <1>1 DEF NativeStep, NativeOpens, NativeEnds, Expire
<1>2. CASE \E w \in {"worker", "recovery"} : ScheduleStep(w) \/ Scheduled(w)
  BY <1>2 DEF ScheduleStep, Scheduled
<1>3. CASE WorkerStep
  BY <1>3 DEF WorkerStep, TakeOpened, TakeEnded, ApplyEnded
<1>4. CASE \E q \in Requests, c \in Convs : TaskStep(q, c)
  BY <1>4 DEF TaskStep, BeginPublication, Shows, Accepts, Retries, Fails, DeliveryTimesOut,
              RecordStep
<1>5. CASE \E u \in Users : Answer(u) \/ UserStep(u)
  BY <1>5 DEF Answer, UserStep, PublicationEnds, PublicationPends, AuthorizeStep,
              ExpireRows, Respond, Converge, Responded, RestOfUser
<1>6. CASE \E c \in Convs : RouteStep(c)
  BY <1>6 DEF RouteStep, DeleteDestination, ForgetRoute, Readd, OpenBarrier
<1>7. CASE ReconStep
  BY <1>7 DEF ReconStep, ListPending, Redeliver, MarkStale
<1> QED
  BY <1>1, <1>2, <1>3, <1>4, <1>5, <1>6, <1>7, StepCases

(* Rows were not disturbed before either, and this step does not disturb them. *)
LEMMA Calm ==
    ASSUME Typed, Undisturbed => Kept, Next, Undisturbed'
    PROVE  /\ Undisturbed /\ ~Crash /\ Kept'
           /\ \A c \in Convs : ~Retire(c) /\ ~DeleteDestination(c)
<1>f. faults \in [crashes : Nat, gaps : Nat, moves : Nat]
  BY DEF Typed
<1>1. ~Crash
  <2> SUFFICES ASSUME Crash PROVE FALSE
    OBVIOUS
  <2>1. faults' = [faults EXCEPT !.crashes = @ + 1]
    BY DEF Crash
  <2>2. faults'.crashes = faults.crashes + 1 /\ faults.crashes \in Nat
    BY <1>f, <2>1
  <2> QED
    BY <2>2 DEF Undisturbed
<1>2. \A c \in Convs : ~Retire(c)
  <2> SUFFICES ASSUME NEW c \in Convs, Retire(c) PROVE FALSE
    OBVIOUS
  <2>1. faults' = [faults EXCEPT !.moves = @ + 1]
    BY DEF Retire
  <2>2. faults'.moves = faults.moves + 1 /\ faults.moves \in Nat
    BY <1>f, <2>1
  <2> QED
    BY <2>2 DEF Undisturbed
<1>3. Undisturbed
  <2>1. CASE UNCHANGED faults
    BY <2>1 DEF Undisturbed
  <2>2. CASE Gap
    <3>1. faults' = [faults EXCEPT !.gaps = @ + 1]
      BY <2>2 DEF Gap
    <3>2. faults'.crashes = faults.crashes /\ faults'.moves = faults.moves
      BY <1>f, <3>1
    <3> QED
      BY <3>2 DEF Undisturbed
  <2> QED
    BY <1>1, <1>2, <2>1, <2>2, FaultCases
<1>4. \A c \in Convs : ~DeleteDestination(c) /\ ~ForgetRoute(c)
  BY <1>3 DEF Kept, DeleteDestination, ForgetRoute, None
<1>5. UNCHANGED retiring
  <2>1. CASE \E r \in Requests : NativeStep(r)
    BY <2>1 DEF NativeStep, NativeOpens, NativeEnds, Expire, routeVars
  <2>2. CASE \E w \in {"worker", "recovery"} : ScheduleStep(w) \/ Scheduled(w)
    BY <2>2 DEF ScheduleStep, Scheduled, routeVars
  <2>3. CASE WorkerStep
    BY <2>3 DEF WorkerStep, TakeOpened, TakeEnded, ApplyEnded, routeVars
  <2>4. CASE \E q \in Requests, c \in Convs : TaskStep(q, c)
    BY <2>4 DEF TaskStep, BeginPublication, Shows, Accepts, Retries, Fails, DeliveryTimesOut,
                RecordStep, routeVars
  <2>5. CASE \E u \in Users : Answer(u) \/ UserStep(u)
    BY <2>5 DEF Answer, UserStep, PublicationEnds, PublicationPends, AuthorizeStep,
                ExpireRows, Respond, Converge, Responded, RestOfUser, routeVars
  <2>6. CASE \E c \in Convs : RouteStep(c)
    BY <1>2, <1>4, <2>6 DEF RouteStep, Readd, OpenBarrier
  <2>7. CASE ReconStep
    BY <1>1, <2>7 DEF ReconStep, Gap, ListPending, Redeliver, MarkStale, routeVars
  <2> QED
    BY <2>1, <2>2, <2>3, <2>4, <2>5, <2>6, <2>7, StepCases
<1> QED
  BY <1>1, <1>2, <1>3, <1>4, <1>5 DEF Kept

(* A row stays, and a row that is not open is not opened again. *)
LEMMA RowsStay ==
    ASSUME CorrelationAssumption, Typed, OneState, Ordered, Next, ~Crash,
           \A c \in Convs : ~DeleteDestination(c), NEW r \in Requests, NEW c \in Convs
    PROVE  /\ rows[r][c] # None => rows'[r][c] # None
           /\ rows[r][c] \in RowStates \ {"open"} => rows'[r][c] \in RowStates \ {"open"}
<1>1. CASE UNCHANGED rows
  BY <1>1
<1>2. ASSUME NEW q \in Requests, NEW d \in Convs, Put(q, d)
      PROVE  rows[r][c] # None => rows'[r][c] = rows[r][c]
  BY <1>2, PutRows
<1>3. ASSUME NEW q \in Requests, NEW expected \in SUBSET RowStates, NEW state \in RowStates \ {"open"},
             Transition(q, expected, state)
      PROVE  rows[r][c] # None => rows'[r][c] \in {rows[r][c], state}
  <2>1. state \in RowStates
    OBVIOUS
  <2>2. /\ q # r => rows'[r][c] = rows[r][c]
        /\ rows' = rows \/ \A d \in Convs : rows[q][d] # None => rows'[q][d] = state
    BY <1>3, <2>1, TransitionRows
  <2> QED
    BY <2>2
<1>4. CASE \E q \in Requests, d \in Convs : RecordStep(q, d) /\ Put(q, d)
  BY <1>2, <1>4 DEF RowStates, None
<1>5. CASE \E q \in Requests : \E expected, state : Moves(q, expected, state)
  BY <1>3, <1>5 DEF Moves, RowStates, None
<1> QED
  BY <1>1, <1>4, <1>5, RowCases DEF RowsChange

(* Who answers, and who has answered. *)
LEMMA AnsweredCases ==
    ASSUME CorrelationAssumption, Typed, Next, NEW r \in Requests, native'[r] = "answered"
    PROVE  \/ native[r] = "answered"
           \/ \E o \in Users : Respond(o) /\ Asked[o] = r /\ pc'[o] = "answered"
<1>1. CASE UNCHANGED native
  BY <1>1
<1>2. ASSUME NEW q \in Requests, NativeStep(q) PROVE native[r] = "answered"
  BY <1>2 DEF NativeStep, NativeOpens, NativeEnds, Expire, nativeVars, Typed
<1>3. ASSUME NEW o \in Users, Respond(o)
      PROVE  native[r] = "answered" \/ (Asked[o] = r /\ pc'[o] = "answered")
  <2>1. \/ UNCHANGED native
        \/ native' = [native EXCEPT ![Asked[o]] = "answered"] /\ pc' = [pc EXCEPT ![o] = "answered"]
    BY <1>3 DEF Respond, User
  <2> QED
    BY <2>1 DEF Typed
<1>4. CASE \E w \in {"worker", "recovery"} : ScheduleStep(w) \/ Scheduled(w)
  BY <1>1, <1>4 DEF ScheduleStep, Scheduled, nativeVars
<1>5. CASE WorkerStep
  BY <1>1, <1>5 DEF WorkerStep, TakeOpened, TakeEnded, ApplyEnded, nativeVars
<1>6. CASE \E q \in Requests, c \in Convs : TaskStep(q, c)
  BY <1>1, <1>6 DEF TaskStep, BeginPublication, Shows, Accepts, Retries, Fails, DeliveryTimesOut,
                    RecordStep, nativeVars
<1>7. CASE \E u \in Users : Answer(u) \/ UserStep(u)
  BY <1>1, <1>3, <1>7 DEF Answer, UserStep, PublicationEnds, PublicationPends, AuthorizeStep,
                          ExpireRows, Converge, Responded, nativeVars
<1>8. CASE \E c \in Convs : RouteStep(c)
  BY <1>1, <1>8 DEF RouteStep, Retire, DeleteDestination, ForgetRoute, Readd, OpenBarrier, nativeVars
<1>9. CASE ReconStep
  BY <1>1, <1>9 DEF ReconStep, Crash, Gap, ListPending, Redeliver, MarkStale, nativeVars
<1> QED
  BY <1>2, <1>4, <1>5, <1>6, <1>7, <1>8, <1>9, StepCases

LEMMA RepeatedCases ==
    ASSUME Next
    PROVE  UNCHANGED repeated \/ \E o \in Users : Respond(o)
<1>1. CASE \E r \in Requests : NativeStep(r)
  BY <1>1 DEF NativeStep, NativeOpens, NativeEnds, Expire, nativeVars
<1>2. CASE \E w \in {"worker", "recovery"} : ScheduleStep(w) \/ Scheduled(w)
  BY <1>2 DEF ScheduleStep, Scheduled, nativeVars
<1>3. CASE WorkerStep
  BY <1>3 DEF WorkerStep, TakeOpened, TakeEnded, ApplyEnded, nativeVars
<1>4. CASE \E q \in Requests, c \in Convs : TaskStep(q, c)
  BY <1>4 DEF TaskStep, BeginPublication, Shows, Accepts, Retries, Fails, DeliveryTimesOut,
              RecordStep, nativeVars
<1>5. CASE \E u \in Users : Answer(u) \/ UserStep(u)
  BY <1>5 DEF Answer, UserStep, PublicationEnds, PublicationPends, AuthorizeStep,
              ExpireRows, Converge, Responded, nativeVars
<1>6. CASE \E c \in Convs : RouteStep(c)
  BY <1>6 DEF RouteStep, Retire, DeleteDestination, ForgetRoute, Readd, OpenBarrier, nativeVars
<1>7. CASE ReconStep
  BY <1>7 DEF ReconStep, Crash, Gap, ListPending, Redeliver, MarkStale, nativeVars
<1> QED
  BY <1>1, <1>2, <1>3, <1>4, <1>5, <1>6, <1>7, StepCases

LEMMA AnsweredStays ==
    ASSUME Typed, Next, ~Crash, NEW u \in Users, pc[u] = "answered"
    PROVE  pc'[u] = "answered" \/ Responded(u)
<1>1. CASE UNCHANGED pc
  BY <1>1
<1>2. ASSUME NEW o \in Users, Answer(o) \/ UserStep(o) PROVE pc'[u] = "answered" \/ Responded(u)
  <2>1. PICK to \in Places : pc' = [pc EXCEPT ![o] = to]
    BY <1>2 DEF Answer, UserStep, PublicationEnds, PublicationPends, AuthorizeStep, Authorize,
                ExpireRows, Respond, Converge, Responded, User, End, Places
  <2>2. CASE o # u
    BY <2>1, <2>2 DEF Typed
  <2>3. CASE o = u
    BY <1>2, <2>3 DEF Answer, UserStep, PublicationEnds, PublicationPends, AuthorizeStep,
                ExpireRows, Respond, Converge
  <2> QED
    BY <2>2, <2>3
<1>4. CASE \E r \in Requests : NativeStep(r)
  BY <1>1, <1>4 DEF NativeStep, NativeOpens, NativeEnds, Expire, userVars
<1>5. CASE \E w \in {"worker", "recovery"} : ScheduleStep(w) \/ Scheduled(w)
  BY <1>1, <1>5 DEF ScheduleStep, Scheduled, userVars
<1>6. CASE WorkerStep
  BY <1>1, <1>6 DEF WorkerStep, TakeOpened, TakeEnded, ApplyEnded, userVars
<1>7. CASE \E r \in Requests, c \in Convs : TaskStep(r, c)
  BY <1>1, <1>7 DEF TaskStep, BeginPublication, Shows, Accepts, Retries, Fails, DeliveryTimesOut,
                    RecordStep, userVars
<1>8. CASE \E c \in Convs : RouteStep(c)
  BY <1>1, <1>8 DEF RouteStep, Retire, DeleteDestination, ForgetRoute, Readd, OpenBarrier, userVars
<1>9. CASE ReconStep
  BY <1>1, <1>9 DEF ReconStep, Gap, ListPending, Redeliver, MarkStale, userVars
<1> QED
  BY <1>2, <1>4, <1>5, <1>6, <1>7, <1>8, <1>9, StepCases

(* An answer that was taken leaves no open row once it is recorded. *)
LEMMA ResponseRecorded ==
    ASSUME CorrelationAssumption, Typed, OneState, Taken, NEW u \in Users, Responded(u)
    PROVE  \E c \in Convs : rows'[Asked[u]][c] \in RowStates \ {"open"}
<1>0. Asked[u] \in Requests
  BY DEF CorrelationAssumption
<1>1. PICK c \in Convs : rows[Asked[u]][c] # None
  BY DEF Responded, Taken, Holding, RowsOf
<1>2. rows[Asked[u]][c] \in RowStates
  BY <1>0, <1>1 DEF Typed
<1>3. "responded" \in RowStates /\ {"open"} \in SUBSET RowStates
  BY DEF RowStates
<1>4. Transition(Asked[u], {"open"}, "responded")
  BY DEF Responded, RecordResponse
<1>5. \/ rows' = rows /\ ~Transitions(Asked[u], {"open"}, "responded")
      \/ \A d \in Convs : rows[Asked[u]][d] # None => rows'[Asked[u]][d] = "responded"
  BY <1>0, <1>3, <1>4, TransitionRows
<1>6. CASE rows[Asked[u]][c] # "open" /\ rows' = rows
  BY <1>2, <1>6
<1>7. CASE rows[Asked[u]][c] = "open" /\ ~Transitions(Asked[u], {"open"}, "responded")
  <2>1. \A d \in RowsOf(Asked[u]) : rows[Asked[u]][d] = "open"
    BY <1>0, <1>1, <1>7 DEF RowsOf, OneState
  <2>2. RowsOf(Asked[u]) # {}
    BY <1>1 DEF RowsOf
  <2> QED
    BY <1>7, <2>1, <2>2 DEF Transitions, Precedence
<1> QED
  BY <1>1, <1>3, <1>5, <1>6, <1>7 DEF RowStates

LEMMA NextTaken ==
    ASSUME CorrelationAssumption, Typed, OneState, Ordered, Exclusive, Taken, Next, ~Crash,
           \A c \in Convs : ~DeleteDestination(c)
    PROVE  Taken'
<1>1. ASSUME NEW u \in Users, pc'[u] \in Holding PROVE RowsOf(Asked[u])' # {}
  <2>0. Asked[u] \in Requests /\ From[u] \in Convs
    BY DEF CorrelationAssumption
  <2>1. \E c \in Convs : rows[Asked[u]][c] # None
    <3>1. CASE pc[u] \in Holding
      BY <3>1 DEF Taken, RowsOf
    <3>2. CASE Answer(u) \/ UserStep(u)
      BY <1>1, <2>0, <3>1, <3>2, UserMoves DEF Holding, Respond, None
    <3> QED
      BY <1>1, <3>1, <3>2, UserCases DEF Holding
  <2>2. \E c \in Convs : rows'[Asked[u]][c] # None
    BY <2>0, <2>1, RowsStay
  <2> QED
    BY <2>2 DEF RowsOf
<1>2. ASSUME NEW u \in Users, pc'[u] \in {"native", "refused", "expiring"}, native'[Asked[u]] = "answered"
      PROVE  FALSE
  <2>0. Asked[u] \in Requests /\ From[u] \in Convs
    BY DEF CorrelationAssumption
  <2>1. CASE native[Asked[u]] = "answered"
    <3>1. CASE pc[u] \in {"native", "refused", "expiring"}
      BY <2>1, <3>1 DEF Taken
    <3>2. CASE AuthorizeStep(u) /\ rows[Asked[u]][From[u]] = "open"
      <4>1. CASE \E o \in Users : Asked[o] = Asked[u] /\ pc[o] = "answered"
        BY <3>2, <4>1 DEF AuthorizeStep, HoldsLock
      <4>2. ASSUME NEW c \in Convs, rows[Asked[u]][c] \in RowStates \ {"open"} PROVE FALSE
        BY <2>0, <3>2, <4>2 DEF OneState, RowStates, None
      <4> QED
        BY <2>0, <2>1, <4>1, <4>2 DEF Taken
    <3>3. CASE Respond(u)
      BY <3>1, <3>3 DEF Respond
    <3> QED
      BY <1>2, <3>1, <3>2, <3>3, UserCases, UserMoves
  <2>2. ASSUME NEW o \in Users, Respond(o), Asked[o] = Asked[u], pc'[o] = "answered" PROVE FALSE
    <3>1. u # o
      BY <1>2, <2>2
    <3>2. pc'[u] = pc[u] /\ pc[o] = "native"
      BY <2>2, <3>1, UserMoves DEF UserStep, Respond
    <3> QED
      BY <1>2, <2>2, <3>1, <3>2 DEF Exclusive, Holding
  <2> QED
    BY <1>2, <2>0, <2>1, <2>2, AnsweredCases
<1>3. ASSUME NEW r \in Requests, native'[r] = "answered"
      PROVE  \/ \E u \in Users : Asked[u] = r /\ pc'[u] = "answered"
             \/ \E c \in Convs : rows'[r][c] \in RowStates \ {"open"}
  <2>1. ASSUME NEW u \in Users, Asked[u] = r, pc[u] = "answered"
        PROVE  \/ pc'[u] = "answered"
               \/ \E c \in Convs : rows'[r][c] \in RowStates \ {"open"}
    BY <2>1, AnsweredStays, ResponseRecorded
  <2>2. ASSUME NEW c \in Convs, rows[r][c] \in RowStates \ {"open"}
        PROVE  rows'[r][c] \in RowStates \ {"open"}
    BY <2>2, RowsStay
  <2> QED
    BY <1>3, <2>1, <2>2, AnsweredCases DEF Taken
<1>4. repeated' = {}
  <2>1. ASSUME NEW o \in Users, Respond(o) PROVE repeated' = repeated
    BY <2>1 DEF Respond, Taken
  <2> QED
    BY <2>1, RepeatedCases DEF Taken
<1> QED
  BY <1>1, <1>2, <1>3, <1>4 DEF Taken

(* The requests whose end the worker has taken. *)
LEMMA EndingIsOver ==
    ASSUME CorrelationAssumption, Typed, Ordered, NEW r \in Ending
    PROVE  r \in Requests /\ native[r] \in Over
<1>1. CASE r \in closed
  BY <1>1 DEF Typed, Ordered
<1>2. CASE r = closing.r /\ r # None
  <2>1. closing # NoJob
    BY <1>2 DEF NoJob
  <2>2. closing \in Events
    BY <2>1 DEF Typed
  <2> QED
    BY <1>2, <2>1, <2>2 DEF Ordered, Announced, Events
<1> QED
  BY <1>1, <1>2 DEF Ending

(* Nothing starts a delivery of such a request again. *)
LEMMA GoneStays ==
    ASSUME CorrelationAssumption, Typed, Ordered, Next, ~Crash, NEW r \in Requests,
           native[r] \in Over, Gone(r)
    PROVE  Gone(r)'
<1>1. ASSUME NEW c \in Convs PROVE tasks'[r][c] = None
  <2>1. tasks[r][c] = None
    BY DEF Gone
  <2>2. ASSUME NEW w \in {"worker", "recovery"}, ScheduleStep(w) PROVE tasks'[r][c] = None
    <3>1. PICK d \in Unscheduled(w) : tasks' = [tasks EXCEPT ![jobs[w].r][d] = "ready"]
      BY <2>2 DEF ScheduleStep, Schedule
    <3>2. jobs[w].r # r
      BY DEF Gone
    <3> QED
      BY <2>1, <3>1, <3>2 DEF Typed
  <2> QED
    BY <2>1, <2>2, TasksEnd
<1>2. ASSUME NEW w \in {"worker", "recovery"} PROVE jobs'[w].r # r
  <2>1. CASE jobs'[w] = NoJob
    BY <2>1 DEF NoJob, CorrelationAssumption, None
  <2>2. CASE TakeOpened /\ jobs'[w].r = Head(events).r
    <3>1. Head(events) = events[1] /\ 1 \in 1..Len(events)
      BY <2>2, TakenEvent DEF TakeOpened
    <3> QED
      BY <2>2, <3>1 DEF Gone
  <2> QED
    BY <2>1, <2>2, JobCases DEF Gone
<1>3. r \notin recon'.pending
  <2>1. CASE UNCHANGED recon
    BY <2>1 DEF Gone
  <2>2. CASE Gap
    BY <2>2 DEF Gap, NoRecon
  <2>3. CASE ListPending
    <3>1. PICK pending : /\ pending = IF Snapshot THEN {q \in Requests : native[q] = "pending"} ELSE {}
                         /\ recon' = [recon EXCEPT !.stage = "deliver", !.pending = pending, !.listed = pending]
      BY <2>3 DEF ListPending
    <3>2. recon'.pending = pending
      BY <3>1 DEF Typed
    <3> QED
      BY <3>1, <3>2 DEF Over
  <2>4. CASE Redeliver
    BY <2>4 DEF Redeliver, Typed, Gone
  <2>5. CASE MarkStale
    <3>1. recon' = NoRecon \/ \E q : recon' = [recon EXCEPT !.open = @ \ {q}]
      BY <2>5 DEF MarkStale
    <3>2. recon'.pending \in {{}, recon.pending}
      BY <3>1 DEF NoRecon, Typed
    <3> QED
      BY <3>2 DEF Gone
  <2> QED
    BY <2>1, <2>2, <2>3, <2>4, <2>5, ReconCases DEF ReconStep
<1>4. \A i \in 1..Len(events') : events'[i].r # r
  <2>1. CASE UNCHANGED events
    BY <2>1 DEF Gone
  <2>2. ASSUME NEW q \in Requests, NativeOpens(q) \/ NativeEnds(q)
        PROVE  \A i \in 1..Len(events') : events'[i].r # r
    <3>1. q # r
      BY <2>2 DEF NativeOpens, NativeEnds, Over
    <3>2. PICK e \in Events : e.r = q /\ events' = Append(events, e)
      BY <2>2 DEF NativeOpens, NativeEnds, Events
    <3>3. /\ Len(events) \in Nat /\ Len(events') = Len(events) + 1
          /\ \A i \in 1..Len(events) : events'[i] = events[i]
          /\ events'[Len(events) + 1] = e
      BY <3>2, AddedEvent
    <3>4. \A i \in 1..Len(events') : i \in 1..Len(events) \/ i = Len(events) + 1
      BY <3>3
    <3> QED
      BY <3>1, <3>2, <3>3, <3>4 DEF Gone
  <2>3. CASE events # <<>> /\ events' = Tail(events)
    BY <2>3, TakenEvent DEF Gone
  <2>4. CASE events' = <<>>
    BY <2>4
  <2> QED
    BY <2>1, <2>2, <2>3, <2>4, EventCases
<1> QED
  BY <1>1, <1>2, <1>3, <1>4 DEF Gone

(* The worker takes the end of a request only when recovery is not at work. *)
LEMMA GoneBegins ==
    ASSUME CorrelationAssumption, Typed, Ordered, Listed, Settled, TakeEnded
    PROVE  (\A q : q = Head(events).r => Gone(q)') /\ recon.stage = "idle"
<1>1. Head(events) = events[1] /\ 1 \in 1..Len(events) /\ events[1] \in Events
  BY TakenEvent DEF TakeEnded
<1>2. recon.stage = "idle" /\ recon = NoRecon
  BY DEF TakeEnded, WorkerFree, Settled, Listed
<1>3. jobs["worker"] = NoJob /\ jobs["recovery"] = NoJob
  BY <1>2 DEF TakeEnded, WorkerFree, Listed
<1> DEFINE r == events[1].r
<1>4. r \in Requests
  BY <1>1 DEF Events
<1>5. \A c \in Convs : tasks'[r][c] = None
  <2>1. tasks' = [tasks EXCEPT ![r] = [c \in Convs |-> None]]
    BY <1>1 DEF TakeEnded, CancelDeliveries
  <2> HIDE DEF r
  <2> QED
    BY <1>4, <2>1 DEF Typed
<1>6. \A w \in {"worker", "recovery"} : jobs'[w].r # r
  BY <1>3, <1>4 DEF TakeEnded, NoJob, None, CorrelationAssumption
<1>7. r \notin recon'.pending
  BY <1>2 DEF TakeEnded, NoRecon
<1>8. \A i \in 1..Len(events') : events'[i].r # r
  <2>1. events' = Tail(events) /\ events # <<>> /\ events[1].type = "ended"
    BY <1>1 DEF TakeEnded
  <2>2. /\ Len(events) \in Nat
        /\ \A i \in 1..Len(events') : events'[i] = events[i + 1] /\ i + 1 \in 1..Len(events) /\ 1 < i + 1
    BY <2>1, TakenEvent
  <2> QED
    BY <1>1, <2>1, <2>2 DEF Ordered
<1>9. \A q : q = r => Gone(q)'
  <2> HIDE DEF r
  <2> QED
    BY <1>5, <1>6, <1>7, <1>8 DEF Gone
<1> QED
  BY <1>1, <1>2, <1>9


(* The end of a request leaves none of its rows open. *)
LEMMA EndApplied ==
    ASSUME CorrelationAssumption, Typed, OneState, Ordered, ApplyEnded, NEW c \in Convs
    PROVE  rows'[closing.r][c] # "open"
<1>1. closing.r \in Requests /\ closing.as \in {"resolved", "stale"}
  BY DEF ApplyEnded, Typed, Events, Ordered, Announced, Over
<1> DEFINE expected == {"open", "responded"} \cup (IF closing.as = "resolved" THEN {"stale"} ELSE {})
<1>2. expected \in SUBSET RowStates /\ closing.as \in RowStates /\ "open" \in expected
  BY <1>1 DEF RowStates
<1>3. Transition(closing.r, expected, closing.as)
  BY DEF ApplyEnded
<1> HIDE DEF expected
<1>4. /\ \A d \in Convs : rows[closing.r][d] = None <=> rows'[closing.r][d] = None
      /\ \/ rows' = rows /\ ~Transitions(closing.r, expected, closing.as)
         \/ \A d \in Convs : rows[closing.r][d] # None => rows'[closing.r][d] = closing.as
  BY <1>1, <1>2, <1>3, TransitionRows
<1>5. CASE rows[closing.r][c] = "open"
  <2>1. \A d \in RowsOf(closing.r) : rows[closing.r][d] = "open"
    BY <1>1, <1>5 DEF RowsOf, OneState, None
  <2>2. RowsOf(closing.r) # {}
    BY <1>5 DEF RowsOf, None
  <2>3. Precedence["open"] <= Precedence[closing.as]
    BY <1>1 DEF Precedence
  <2>4. Transitions(closing.r, expected, closing.as)
    BY <1>2, <2>1, <2>2, <2>3 DEF Transitions
  <2> QED
    BY <1>1, <1>4, <1>5, <2>4 DEF None
<1>6. CASE rows[closing.r][c] # "open"
  BY <1>1, <1>4, <1>6 DEF None
<1> QED
  BY <1>5, <1>6

LEMMA NextSettled ==
    ASSUME CorrelationAssumption, Typed, OneState, Ordered, Listed, Settled, Next, ~Crash,
           \A c \in Convs : ~DeleteDestination(c)
    PROVE  Settled'
<1>1. ASSUME NEW r \in Ending' PROVE Gone(r)'
  <2>1. CASE r \in Ending
    BY <2>1, EndingIsOver, GoneStays DEF Settled
  <2>2. CASE r \notin Ending
    <3>1. r \in closed' \/ (r = closing'.r /\ r # None)
      BY <1>1 DEF Ending
    <3>2. ~UNCHANGED <<closing, closed>>
      BY <2>2, <3>1 DEF Ending
    <3>3. ~ApplyEnded
      <4> SUFFICES ASSUME ApplyEnded PROVE FALSE
        OBVIOUS
      <4>1. closing.r # None
        BY DEF ApplyEnded, Typed, Events, CorrelationAssumption, None
      <4> QED
        BY <2>2, <3>1, <4>1 DEF ApplyEnded, Ending, NoJob
    <3>4. TakeEnded
      BY <3>2, <3>3, ClosingCases
    <3>5. r = Head(events).r
      BY <2>2, <3>1, <3>4 DEF TakeEnded, Ending
    <3> QED
      BY <3>4, <3>5, GoneBegins
  <2> QED
    BY <2>1, <2>2
<1>2. ASSUME NEW r \in closed', NEW c \in Convs PROVE rows'[r][c] # "open"
  <2>1. CASE ApplyEnded /\ r = closing.r
    BY <2>1, EndApplied
  <2>2. CASE r \in closed
    <3>0. r \in Requests /\ rows[r][c] # "open" /\ Gone(r)
      BY <2>2 DEF Settled, Typed, Ending
    <3>1. CASE UNCHANGED rows
      BY <3>0, <3>1
    <3>2. ASSUME NEW q \in Requests, NEW d \in Convs, RecordStep(q, d), Put(q, d)
          PROVE  rows'[r][c] # "open"
      <4>1. q # r
        BY <3>0, <3>2 DEF Gone, RecordStep, Record, None
      <4> QED
        BY <3>0, <3>2, <4>1, PutRows
    <3>3. ASSUME NEW q \in Requests, NEW expected \in SUBSET RowStates,
                 NEW state \in RowStates \ {"open"}, Transition(q, expected, state)
          PROVE  rows'[r][c] # "open"
      <4>1. state \in RowStates
        OBVIOUS
      <4>2. /\ q # r => rows'[r][c] = rows[r][c]
            /\ rows[q][c] = None <=> rows'[q][c] = None
            /\ rows' = rows \/ \A d \in Convs : rows[q][d] # None => rows'[q][d] = state
        BY <3>0, <3>3, <4>1, TransitionRows
      <4> QED
        BY <3>0, <4>2 DEF None
    <3>4. CASE \E q \in Requests : \E expected, state : Moves(q, expected, state)
      BY <3>3, <3>4 DEF Moves
    <3> QED
      BY <3>1, <3>2, <3>4, RowCases DEF RowsChange
  <2> QED
    BY <1>2, <2>1, <2>2, ClosingCases DEF TakeEnded, ApplyEnded
<1>3. closing' # NoJob => recon'.stage = "idle" /\ jobs'["worker"] = NoJob
  <2>1. CASE UNCHANGED closing /\ closing # NoJob
    <3>1. recon.stage = "idle" /\ jobs["worker"] = NoJob
      BY <2>1 DEF Settled
    <3>2. UNCHANGED recon
      BY <2>1, <3>1, ReconCases DEF ReconStep, Gap, WorkerFree, ListPending, Redeliver, MarkStale
    <3>3. jobs'["worker"] = NoJob
      BY <2>1, <3>1, JobCases DEF TakeOpened, WorkerFree
    <3> QED
      BY <3>1, <3>2, <3>3
  <2>2. CASE TakeEnded
    BY <2>2, GoneBegins DEF TakeEnded, WorkerFree
  <2>3. CASE ApplyEnded
    BY <2>3 DEF ApplyEnded
  <2> QED
    BY <2>1, <2>2, <2>3, ClosingCases
<1>4. recon'.stage # "idle" => recon'.by = "gap" /\ jobs'["worker"] = NoJob
  <2>1. CASE recon.stage # "idle" /\ (recon' = NoRecon \/ recon'.by = recon.by)
    <3>1. recon.by = "gap" /\ jobs["worker"] = NoJob
      BY <2>1 DEF Settled
    <3>2. jobs'["worker"] = NoJob
      BY <3>1, JobCases DEF TakeOpened, WorkerFree
    <3> QED
      BY <2>1, <3>1, <3>2 DEF NoRecon
  <2>2. CASE UNCHANGED recon
    BY <2>1, <2>2
  <2>3. CASE Gap
    <3>1. jobs'["worker"] = NoJob
      BY <2>3 DEF Gap, WorkerFree
    <3>2. PICK open : recon' = NoRecon \/ recon' = [NoRecon EXCEPT !.stage = "start", !.by = "gap", !.open = open]
      BY <2>3 DEF Gap
    <3>3. CASE recon' = NoRecon
      BY <3>3 DEF NoRecon
    <3>4. CASE recon' = [NoRecon EXCEPT !.stage = "start", !.by = "gap", !.open = open]
      <4>1. recon'.by = "gap"
        BY <3>4 DEF NoRecon
      <4> QED
        BY <3>1, <4>1
    <3> QED
      BY <3>2, <3>3, <3>4
  <2>4. CASE ListPending
    <3>1. recon'.by = recon.by /\ recon.stage # "idle"
      BY <2>4 DEF ListPending, Typed
    <3> QED
      BY <2>1, <3>1
  <2>5. CASE Redeliver
    <3>1. recon'.by = recon.by /\ recon.stage # "idle"
      BY <2>5 DEF Redeliver, Typed
    <3> QED
      BY <2>1, <3>1
  <2>6. CASE MarkStale
    <3>1. recon' = NoRecon \/ \E q : recon' = [recon EXCEPT !.open = @ \ {q}]
      BY <2>6 DEF MarkStale
    <3>2. recon' = NoRecon \/ recon'.by = recon.by
      BY <3>1 DEF Typed
    <3>3. recon.stage # "idle"
      BY <2>6 DEF MarkStale
    <3> QED
      BY <2>1, <3>2, <3>3
  <2> QED
    BY <2>2, <2>3, <2>4, <2>5, <2>6, ReconCases DEF ReconStep
<1> QED
  BY <1>1, <1>2, <1>3, <1>4 DEF Settled

-----------------------------------------------------------------------------
(* The invariant, and what it says of the system. *)

LEMMA InitInv == CorrelationAssumption /\ Init => RequestInv
<1> SUFFICES ASSUME CorrelationAssumption, Init PROVE RequestInv
  OBVIOUS
<1>1. Typed /\ Bounded /\ Grounded /\ Ordered /\ Listed
  BY InitTyped, InitBounded, InitGrounded, InitOrdered, InitListed
<1>2. OneState /\ StaleIsOver
  BY DEF Init, OneState, StaleIsOver, None
<1>3. OnlyRecipientsAnswer
  BY DEF Init, OnlyRecipientsAnswer
<1>4. Exclusive
  BY DEF Init, Exclusive, Holding
<1>5. Kept
  BY DEF Init, Kept
<1>6. Taken
  BY DEF Init, Taken, Holding
<1>7. Settled
  BY DEF Init, Settled, Ending, NoJob, NoRecon, None
<1> QED
  BY <1>1, <1>2, <1>3, <1>4, <1>5, <1>6, <1>7 DEF RequestInv

LEMMA NextInv ==
    ASSUME CorrelationAssumption, RequestInv, [Next]_vars
    PROVE  RequestInv'
<1>0. /\ Typed /\ Bounded /\ OneState /\ Grounded /\ OnlyRecipientsAnswer
      /\ Ordered /\ Listed /\ StaleIsOver /\ Exclusive
      /\ Undisturbed => Kept /\ Taken /\ Settled
  BY DEF RequestInv
<1>1. Typed' /\ OneState' /\ Ordered' /\ Exclusive'
  BY <1>0, NextTyped, NextOneState, NextOrdered, NextExclusive
<1>2. Bounded'
  BY <1>0, NextBounded
<1>3. Grounded' /\ Listed'
  BY <1>0, NextGrounded, NextListed
<1>4. OnlyRecipientsAnswer' /\ StaleIsOver'
  BY <1>0, NextRecipients, NextStale
<1>5. ASSUME UNCHANGED vars PROVE (Undisturbed => Kept /\ Taken /\ Settled)'
  <2>1. (Undisturbed => Kept)'
    BY <1>0, <1>5 DEF vars, Undisturbed, Kept
  <2>2. (Undisturbed => Taken)'
    BY <1>0, <1>5 DEF vars, Undisturbed, Taken, RowsOf
  <2>3. (Undisturbed => Settled)'
    BY <1>0, <1>5 DEF vars, Undisturbed, Settled, Ending, Gone
  <2> QED
    BY <2>1, <2>2, <2>3
<1>6. ASSUME Next, Undisturbed' PROVE Kept' /\ Taken' /\ Settled'
  <2>1. /\ Undisturbed /\ ~Crash /\ Kept'
        /\ \A c \in Convs : ~DeleteDestination(c)
    BY <1>0, <1>6, Calm
  <2>2. Taken'
    BY <1>0, <1>6, <2>1, NextTaken
  <2>3. Settled'
    BY <1>0, <1>6, <2>1, NextSettled
  <2> QED
    BY <2>1, <2>2, <2>3
<1> QED
  BY <1>1, <1>2, <1>3, <1>4, <1>5, <1>6 DEF RequestInv

(* What the invariant says of the properties of the component. *)
LEMMA InvAnswers == CorrelationAssumption /\ RequestInv => AnsweredOnce
<1> SUFFICES ASSUME CorrelationAssumption, RequestInv PROVE AnsweredOnce
  OBVIOUS
<1>1. TypeOK
  <2>1. DOMAIN jobs = {"worker", "recovery"} /\ \A w \in {"worker", "recovery"} : jobs[w].routes \subseteq Convs
    BY DEF RequestInv, Typed
  <2> QED
    BY <2>1 DEF RequestInv, Typed, Bounded, TypeOK, NativeStates, TaskStates, Places
<1>2. Undisturbed => TakenOnce /\ LateIsNeverOpen
  BY DEF RequestInv, Taken, Settled, TakenOnce, LateIsNeverOpen
<1> QED
  BY <1>1, <1>2 DEF RequestInv, AnsweredOnce

(* In every run, whatever the users, the Application, the retries, crashes, gaps and moved
   routes do: the deliveries are within their capacity, the rows of a request agree, only a
   Conversation that was shown a request answers it, and a request is not made stale while
   it can be answered. While neither the process nor a route is lost, the Application gets
   one answer of a request, and a request that has ended is not opened again. *)
THEOREM RequestAnsweredOnce ==
    ASSUME CorrelationAssumption
    PROVE  Spec => []AnsweredOnce
<1>1. Init => RequestInv
  BY InitInv
<1>2. RequestInv /\ [Next]_vars => RequestInv'
  BY NextInv
<1>3. RequestInv => AnsweredOnce
  BY InvAnswers
<1> QED
  BY <1>1, <1>2, <1>3, PTL DEF Spec

(* A row of a request goes open, responded, stale, resolved and never back, in every step
   of every run (_transition_correlations, _merge_correlation). *)
THEOREM RowsNeverRegress ==
    ASSUME CorrelationAssumption
    PROVE  Spec => NeverRegresses
<1> DEFINE Forward == \A r \in Requests, c \in Convs :
                        (rows[r][c] # None /\ rows'[r][c] # None)
                            => Precedence[rows[r][c]] <= Precedence[rows'[r][c]]
<1>1. Init => RequestInv
  BY InitInv
<1>2. RequestInv /\ [Next]_vars => RequestInv'
  BY NextInv
<1>3. RequestInv /\ [Next]_vars => [Forward]_vars
  BY NextOneState DEF RequestInv
<1> QED
  BY <1>1, <1>2, <1>3, PTL DEF Spec, NeverRegresses

=============================================================================

--------------------------- MODULE InboundProofs ----------------------------
(***************************************************************************)
(* Proofs about InboundAdmission, for every set of messages, Conversations *)
(* and deliveries, every number of processes and every FIFO bound: an      *)
(* input is sent at most once, a fenced record is never opened again, a    *)
(* notice of failure is true and stays true, a claim does not outlive its  *)
(* delivery, and a completed message was decided or never left.            *)
(***************************************************************************)
EXTENDS InboundAdmission, TLAPS

(* The part of TypeOK the argument needs. *)
Typed ==
    /\ status \in [Messages -> Statuses]
    /\ owner \in [Messages -> Deliveries \cup {Nobody}]
    /\ fifo \in [Processes -> Seq(Deliveries)]
    /\ pc \in [Deliveries -> PCs]
    /\ msg \in [Deliveries -> Messages]
    /\ home \in [Deliveries -> 0..MaxEpoch]
    /\ sends \in [Messages -> Nat]
    /\ \A d \in Deliveries : pc[d] # "idle" => home[d] \in Processes

Inv == Typed /\ SendInv

(* What the argument watches: the records, the messages of the deliveries,
   and what was sent. *)
watched == <<status, owner, msg, home, sends>>

(* A step of one delivery that leaves the records alone and does not go
   back behind the fence. *)
Shift(d, p) ==
    /\ Goto(d, p)
    /\ UNCHANGED <<watched, fifo>>
    /\ pc[d] \notin {"queued", "idle"}
    /\ p \in PCs \ {"queued", "send", "idle", "claim"}
    /\ pc[d] \in PastFence => p \in PastFence

(* A step of one delivery that moves its program counter only keeps the
   invariant (every failure path and every wait of the code). *)
LEMMA ShiftPreserves ==
    ASSUME Inv, NEW d \in Deliveries, NEW p, Shift(d, p)
    PROVE  Inv'
<1>1. Typed'
  BY DEF Inv, Typed, Shift, Goto, watched
<1>2. Owners'
  BY DEF Inv, Typed, SendInv, Owners, Shift, Goto, watched
<1>3. Senders'
  BY DEF Inv, Typed, SendInv, Senders, Shift, Goto, At, watched
<1>4. Entries'
  <2> SUFFICES ASSUME NEW e \in Processes, NEW i \in 1..Len(fifo[e])
               PROVE  /\ pc'[fifo[e][i]] = "queued"
                      /\ home[fifo[e][i]] = e
                      /\ \A j \in 1..Len(fifo[e]) : fifo[e][i] = fifo[e][j] => i = j
    BY DEF Entries, At, Shift, watched
  <2>1. /\ pc[fifo[e][i]] = "queued"
        /\ home[fifo[e][i]] = e
        /\ \A j \in 1..Len(fifo[e]) : fifo[e][i] = fifo[e][j] => i = j
    BY DEF Inv, SendInv, Entries, At
  <2>2. fifo[e][i] \in Deliveries
    BY DEF Inv, Typed
  <2> QED
    BY <2>1, <2>2 DEF Shift, Goto, Inv, Typed
<1>5. /\ \A m \in Messages : sends'[m] > 0 => status'[m] \in {"started", "completed"}
      /\ AtMostOneSend'
  BY DEF Inv, SendInv, AtMostOneSend, Shift, watched
<1> QED
  BY <1>1, <1>2, <1>3, <1>4, <1>5 DEF Inv, SendInv

(* A step that changes nothing the argument is about. *)
LEMMA IdlePreserves ==
    ASSUME Inv, UNCHANGED <<watched, fifo, pc>>
    PROVE  Inv'
BY DEF Inv, Typed, SendInv, Owners, Senders, Entries, AtMostOneSend, At, watched

(* The startup FIFOs survive a step of a delivery that is in none of them. *)
LEMMA EntriesStay ==
    ASSUME Inv, NEW d \in Deliveries, pc[d] # "queued", NEW p, Goto(d, p),
           UNCHANGED <<fifo, home>>
    PROVE  Entries'
<1> SUFFICES ASSUME NEW e \in Processes, NEW i \in 1..Len(fifo[e])
             PROVE  /\ pc'[fifo[e][i]] = "queued"
                    /\ home[fifo[e][i]] = e
                    /\ \A j \in 1..Len(fifo[e]) : fifo[e][i] = fifo[e][j] => i = j
  BY DEF Entries, At
<1>1. /\ pc[fifo[e][i]] = "queued"
      /\ home[fifo[e][i]] = e
      /\ \A j \in 1..Len(fifo[e]) : fifo[e][i] = fifo[e][j] => i = j
  BY DEF Inv, SendInv, Entries, At
<1>2. fifo[e][i] \in Deliveries
  BY DEF Inv, Typed
<1> QED
  BY <1>1, <1>2 DEF Goto, Inv, Typed

(* A Channel callback: the delivery is in no FIFO and owns nothing. *)
LEMMA PresentPreserves ==
    ASSUME Inv, NEW d \in Deliveries, NEW m \in Messages, NEW e \in Processes,
           Present(d, m, e)
    PROVE  Inv'
<1>1. Typed'
  BY DEF Inv, Typed, Present, Goto, PCs, Processes, recordVars, startupVars, nativeVars
<1>2. Owners'
  BY DEF Inv, Typed, SendInv, Owners, Present, Goto, At, recordVars
<1>3. Senders'
  BY DEF Inv, Typed, SendInv, Senders, Present, Goto, At, recordVars, nativeVars
<1>4. Entries'
  <2> SUFFICES ASSUME NEW f \in Processes, NEW i \in 1..Len(fifo[f])
               PROVE  /\ pc'[fifo[f][i]] = "queued"
                      /\ home'[fifo[f][i]] = f
                      /\ \A j \in 1..Len(fifo[f]) : fifo[f][i] = fifo[f][j] => i = j
    BY DEF Entries, At, Present, startupVars
  <2>1. /\ pc[fifo[f][i]] = "queued"
        /\ home[fifo[f][i]] = f
        /\ \A j \in 1..Len(fifo[f]) : fifo[f][i] = fifo[f][j] => i = j
    BY DEF Inv, SendInv, Entries, At
  <2>2. fifo[f][i] \in Deliveries
    BY DEF Inv, Typed
  <2> QED
    BY <2>1, <2>2 DEF Present, Goto, At, Inv, Typed
<1>5. /\ \A n \in Messages : sends'[n] > 0 => status'[n] \in {"started", "completed"}
      /\ AtMostOneSend'
  BY DEF Inv, SendInv, AtMostOneSend, Present, recordVars, nativeVars
<1> QED
  BY <1>1, <1>2, <1>3, <1>4, <1>5 DEF Inv, SendInv

(* A claim is taken on a record that nobody has fenced. *)
LEMMA ClaimPreserves ==
    ASSUME Inv, NEW d \in Deliveries, Claim(d)
    PROVE  Inv'
<1> USE DEF recordVars, startupVars, nativeVars
<1>1. CASE /\ Claimable(msg[d])
           /\ SetRecord(msg[d], "in_flight", d)
           /\ \E p \in {"admitted", "release", "raised"} : Goto(d, p)
  <2> PICK p \in {"admitted", "release", "raised"} : Goto(d, p)
    BY <1>1
  <2>0. pc[d] = "claim" /\ UNCHANGED <<fifo, msg, home, sends>>
    BY DEF Claim, At
  <2>1. Typed'
    BY <1>1, <2>0 DEF Inv, Typed, SetRecord, Goto, PCs, Ended, Statuses
  <2>2. Owners'
    BY <1>1, <2>0 DEF Inv, Typed, SendInv, Owners, SetRecord, Goto, Claimable
  <2>3. Senders'
    BY <1>1, <2>0 DEF Inv, Typed, SendInv, Senders, SetRecord, Goto, At, Claimable
  <2>4. Entries'
    BY <2>0, EntriesStay
  <2>5. \A m \in Messages : sends'[m] > 0 => status'[m] \in {"started", "completed"}
    BY <1>1, <2>0 DEF Inv, Typed, SendInv, SetRecord, Claimable
  <2>6. AtMostOneSend'
    BY <2>0 DEF Inv, SendInv, AtMostOneSend
  <2> QED
    BY <2>1, <2>2, <2>3, <2>4, <2>5, <2>6 DEF Inv, SendInv
<1>2. CASE UNCHANGED recordVars /\ \E p \in {"returned", "raised"} : Goto(d, p)
  <2> PICK p \in {"returned", "raised"} : Goto(d, p)
    BY <1>2
  <2>1. Shift(d, p)
    BY <1>2 DEF Shift, Claim, At, watched, PCs, PastFence, Ended
  <2> QED
    BY <2>1, ShiftPreserves
<1> QED
  BY <1>1, <1>2 DEF Claim

(* A record is given back by an owner that is not past its fence. *)
LEMMA FreeRecordFacts ==
    ASSUME Inv, NEW d \in Deliveries, FreeRecord(d), pc[d] \in {"release", "queued"},
           UNCHANGED <<msg, sends>>,
           NEW p \in {"raised", "returned"}, Goto(d, p)
    PROVE  /\ status' \in [Messages -> Statuses]
           /\ owner' \in [Messages -> Deliveries \cup {Nobody}]
           /\ Owners'
           /\ Senders'
           /\ \A m \in Messages : sends'[m] > 0 => status'[m] \in {"started", "completed"}
           /\ \A m \in Messages : status[m] \in {"started", "completed"} =>
                  status'[m] = status[m] /\ owner'[m] = owner[m]
<1> USE DEF recordVars
<1>0. msg[d] \in Messages /\ pc[d] \notin PastFence
  BY DEF Inv, Typed, PastFence, Ended
<1>1. status[msg[d]] = "started" => owner[msg[d]] # d
  BY <1>0 DEF Inv, SendInv, Owners
<1>2. CASE /\ status[msg[d]] = "in_flight"
           /\ owner[msg[d]] = d
           /\ SetRecord(msg[d], "none", Nobody)
  <2>1. /\ status' \in [Messages -> Statuses]
        /\ owner' \in [Messages -> Deliveries \cup {Nobody}]
    BY <1>0, <1>2 DEF Inv, Typed, SetRecord, Statuses
  <2>2. Owners'
    BY <1>0, <1>2 DEF Inv, Typed, SendInv, Owners, SetRecord, Goto, Statuses
  <2>3. Senders'
    BY <1>0, <1>2 DEF Inv, Typed, SendInv, Senders, SetRecord, Goto, At
  <2>4. /\ \A m \in Messages : sends'[m] > 0 => status'[m] \in {"started", "completed"}
        /\ \A m \in Messages : status[m] \in {"started", "completed"} =>
              status'[m] = status[m] /\ owner'[m] = owner[m]
    BY <1>0, <1>2 DEF Inv, Typed, SendInv, SetRecord
  <2> QED
    BY <2>1, <2>2, <2>3, <2>4
<1>3. CASE UNCHANGED recordVars
  <2>1. Owners'
    BY <1>0, <1>1, <1>3 DEF Inv, Typed, SendInv, Owners, Goto, PastFence, Ended
  <2>2. Senders'
    BY <1>3 DEF Inv, Typed, SendInv, Senders, Goto, At
  <2> QED
    BY <1>3, <2>1, <2>2 DEF Inv, Typed, SendInv
<1> QED
  BY <1>1, <1>2, <1>3 DEF FreeRecord

(* A delivery that gives up: its claim is released, or the call fails. *)
LEMMA ReleasePreserves ==
    ASSUME Inv, NEW d \in Deliveries, Release(d)
    PROVE  Inv'
<1> USE DEF recordVars, startupVars, nativeVars
<1>0. /\ pc[d] = "release" /\ Goto(d, "raised")
      /\ UNCHANGED <<fifo, msg, home, sends>>
  BY DEF Release, At
<1>1. CASE FreeRecord(d)
  <2>1. Entries'
    BY <1>0, EntriesStay
  <2>2. Typed' /\ AtMostOneSend'
    BY <1>0, <1>1, FreeRecordFacts DEF Inv, Typed, SendInv, AtMostOneSend, Goto, PCs, Ended
  <2> QED
    BY <1>0, <1>1, <2>1, <2>2, FreeRecordFacts DEF Inv, SendInv
<1>2. CASE UNCHANGED recordVars
  <2>1. Shift(d, "raised")
    BY <1>0, <1>2 DEF Shift, watched, PCs, PastFence, Ended
  <2> QED
    BY <2>1, ShiftPreserves
<1> QED
  BY <1>1, <1>2 DEF Release

-----------------------------------------------------------------------------
(* Admission to a startup FIFO: the delivery is in none yet. *)
LEMMA AdmitPreserves ==
    ASSUME Inv, NEW d \in Deliveries, pc[d] = "refresh", home[d] \in Processes,
           UNCHANGED watched, Goto(d, "queued"),
           fifo' = [fifo EXCEPT ![home[d]] = Append(fifo[home[d]], d)]
    PROVE  Inv'
<1>1. Typed'
  BY DEF Inv, Typed, Goto, watched, PCs
<1>2. Owners'
  BY DEF Inv, Typed, SendInv, Owners, Goto, watched, PastFence, Ended
<1>3. Senders'
  BY DEF Inv, Typed, SendInv, Senders, Goto, At, watched
<1>4. Entries'
  <2> SUFFICES ASSUME NEW e \in Processes, NEW i \in 1..Len(fifo'[e])
               PROVE  /\ pc'[fifo'[e][i]] = "queued"
                      /\ home[fifo'[e][i]] = e
                      /\ \A j \in 1..Len(fifo'[e]) : fifo'[e][i] = fifo'[e][j] => i = j
    BY DEF Entries, At, watched
  <2>1. fifo[e] \in Seq(Deliveries)
    BY DEF Inv, Typed
  <2>2. \A k \in 1..Len(fifo[e]) :
           /\ pc[fifo[e][k]] = "queued"
           /\ home[fifo[e][k]] = e
           /\ fifo[e][k] \in Deliveries
           /\ fifo[e][k] # d
           /\ \A j \in 1..Len(fifo[e]) : fifo[e][k] = fifo[e][j] => k = j
    BY <2>1 DEF Inv, SendInv, Entries, At
  <2>3. \A k \in 1..Len(fifo[e]) : pc'[fifo[e][k]] = "queued"
    BY <2>2 DEF Goto, Inv, Typed
  <2>4. pc'[d] = "queued"
    BY DEF Goto, Inv, Typed
  <2>5. CASE e # home[d]
    <3>1. fifo'[e] = fifo[e]
      BY <2>5 DEF Inv, Typed
    <3> QED
      BY <3>1, <2>2, <2>3
  <2>6. CASE e = home[d]
    <3>1. fifo'[e] = Append(fifo[e], d)
      BY <2>6 DEF Inv, Typed
    <3>2. /\ Len(fifo'[e]) = Len(fifo[e]) + 1
          /\ fifo'[e][Len(fifo[e]) + 1] = d
          /\ \A k \in 1..Len(fifo[e]) : fifo'[e][k] = fifo[e][k]
      BY <2>1, <3>1
    <3>3. Len(fifo[e]) \in Nat
      BY <2>1
    <3>4. \A k \in 1..Len(fifo'[e]) : k \in 1..Len(fifo[e]) \/ k = Len(fifo[e]) + 1
      BY <3>2, <3>3
    <3> QED
      BY <2>2, <2>3, <2>4, <2>6, <3>2, <3>4
  <2> QED
    BY <2>5, <2>6
<1>5. /\ \A m \in Messages : sends'[m] > 0 => status'[m] \in {"started", "completed"}
      /\ AtMostOneSend'
  BY DEF Inv, SendInv, AtMostOneSend, watched
<1> QED
  BY <1>1, <1>2, <1>3, <1>4, <1>5 DEF Inv, SendInv

(* The handoff: live, into the startup FIFO, or turned away. *)
LEMMA DeliverPreserves ==
    ASSUME Inv, NEW d \in Deliveries, Deliver(d)
    PROVE  Inv'
<1> USE DEF recordVars, startupVars, nativeVars
<1>0. pc[d] = "refresh" /\ UNCHANGED watched
  BY DEF Deliver, At, watched
<1>1. CASE UNCHANGED fifo /\ \E p \in {"release", "lock"} : Goto(d, p)
  <2> PICK p \in {"release", "lock"} : Goto(d, p)
    BY <1>1
  <2>1. Shift(d, p)
    BY <1>0, <1>1 DEF Shift, PCs, PastFence, Ended
  <2> QED
    BY <2>1, ShiftPreserves
<1>2. CASE /\ Starting(home[d])
           /\ Goto(d, "queued")
           /\ fifo' = [fifo EXCEPT ![home[d]] = Append(fifo[home[d]], d)]
  <2>1. home[d] \in Processes
    BY <1>0 DEF Inv, Typed
  <2> QED
    BY <1>0, <1>2, <2>1, AdmitPreserves
<1> QED
  BY <1>1, <1>2 DEF Deliver, Handoff, Admit

-----------------------------------------------------------------------------
(* The head of a startup FIFO leaves it, for the drain loop or in a
   rollback: no other entry is the same delivery. *)
LEMMA EntriesAfterPop ==
    ASSUME Inv, NEW e \in Processes, fifo[e] # <<>>, NEW p,
           Goto(Head(fifo[e]), p),
           fifo' = [fifo EXCEPT ![e] = Tail(fifo[e])],
           UNCHANGED home
    PROVE  /\ Head(fifo[e]) \in Deliveries
           /\ pc[Head(fifo[e])] = "queued"
           /\ fifo' \in [Processes -> Seq(Deliveries)]
           /\ Entries'
<1>1. \A f \in Processes : fifo[f] \in Seq(Deliveries)
  BY DEF Inv, Typed
<1>2. /\ Len(fifo[e]) >= 1
      /\ Head(fifo[e]) = fifo[e][1]
      /\ Head(fifo[e]) \in Deliveries
      /\ Tail(fifo[e]) \in Seq(Deliveries)
      /\ Len(Tail(fifo[e])) = Len(fifo[e]) - 1
      /\ Len(fifo[e]) \in Nat
  BY <1>1
<1>3. \A i \in 1..Len(Tail(fifo[e])) :
         /\ i \in Nat
         /\ Tail(fifo[e])[i] = fifo[e][i + 1]
         /\ i + 1 \in 1..Len(fifo[e])
         /\ i + 1 # 1
  <2> SUFFICES ASSUME NEW i \in 1..Len(Tail(fifo[e]))
               PROVE  /\ i \in Nat
                      /\ Tail(fifo[e])[i] = fifo[e][i + 1]
                      /\ i + 1 \in 1..Len(fifo[e])
                      /\ i + 1 # 1
    OBVIOUS
  <2>1. i \in Nat /\ i + 1 \in 1..Len(fifo[e]) /\ i + 1 # 1
    BY <1>2
  <2>2. Tail(fifo[e])[i] = fifo[e][i + 1]
    BY <1>1, <1>2
  <2> QED
    BY <2>1, <2>2
<1>4. \A f \in Processes : \A i \in 1..Len(fifo[f]) :
         /\ pc[fifo[f][i]] = "queued"
         /\ home[fifo[f][i]] = f
         /\ fifo[f][i] \in Deliveries
         /\ \A j \in 1..Len(fifo[f]) : fifo[f][i] = fifo[f][j] => i = j
  BY <1>1 DEF Inv, SendInv, Entries, At
<1>5. pc[Head(fifo[e])] = "queued" /\ home[Head(fifo[e])] = e
  BY <1>2, <1>4
<1>6. fifo' \in [Processes -> Seq(Deliveries)]
  BY <1>2 DEF Inv, Typed
<1>7. Entries'
  <2> SUFFICES ASSUME NEW f \in Processes, NEW i \in 1..Len(fifo'[f])
               PROVE  /\ pc'[fifo'[f][i]] = "queued"
                      /\ home[fifo'[f][i]] = f
                      /\ \A j \in 1..Len(fifo'[f]) : fifo'[f][i] = fifo'[f][j] => i = j
    BY DEF Entries, At
  <2>1. CASE f # e
    <3>1. fifo'[f] = fifo[f]
      BY <2>1 DEF Inv, Typed
    <3>2. fifo[f][i] # Head(fifo[e])
      BY <1>4, <1>5, <2>1, <3>1
    <3> QED
      BY <1>4, <3>1, <3>2 DEF Goto, Inv, Typed
  <2>2. CASE f = e
    <3>1. fifo'[f] = Tail(fifo[e])
      BY <2>2 DEF Inv, Typed
    <3>2. \A k \in 1..Len(fifo'[f]) :
             /\ k \in Nat
             /\ fifo'[f][k] = fifo[e][k + 1]
             /\ k + 1 \in 1..Len(fifo[e])
             /\ k + 1 # 1
      BY <1>3, <3>1
    <3>3. fifo[e][i + 1] # Head(fifo[e])
      BY <1>2, <1>4, <3>2
    <3>4. pc'[fifo'[f][i]] = "queued" /\ home[fifo'[f][i]] = f
      BY <1>4, <2>2, <3>2, <3>3 DEF Goto, Inv, Typed
    <3>5. ASSUME NEW j \in 1..Len(fifo'[f]), fifo'[f][i] = fifo'[f][j]
          PROVE  i = j
      <4>1. /\ fifo[e][i + 1] = fifo[e][j + 1]
            /\ i + 1 \in 1..Len(fifo[e])
            /\ j + 1 \in 1..Len(fifo[e])
        BY <3>2, <3>5
      <4>2. i + 1 = j + 1
        BY <1>4, <4>1
      <4>3. i \in Nat /\ j \in Nat
        BY <3>2
      <4> QED
        BY <4>2, <4>3
    <3> QED
      BY <3>4, <3>5
  <2> QED
    BY <2>1, <2>2
<1> QED
  BY <1>2, <1>5, <1>6, <1>7

(* The drain loop takes the head of the FIFO and nothing else. *)
LEMMA DrainLoopPreserves ==
    ASSUME Inv, NEW e \in Processes, DrainLoop(e)
    PROVE  Inv'
<1> USE DEF recordVars, startupVars, nativeVars
<1>0. UNCHANGED watched
  BY DEF DrainLoop, watched
<1>1. CASE UNCHANGED <<fifo, pc>>
  BY <1>0, <1>1, IdlePreserves
<1>2. CASE /\ fifo[e] # <<>>
           /\ fifo' = [fifo EXCEPT ![e] = Tail(fifo[e])]
           /\ Goto(Head(fifo[e]), "lock")
  <2>1. /\ Head(fifo[e]) \in Deliveries
        /\ pc[Head(fifo[e])] = "queued"
        /\ fifo' \in [Processes -> Seq(Deliveries)]
        /\ Entries'
    BY <1>0, <1>2, EntriesAfterPop DEF watched
  <2>2. Typed'
    BY <1>0, <1>2, <2>1 DEF Inv, Typed, Goto, watched, PCs
  <2>3. Owners'
    BY <1>0, <1>2, <2>1 DEF Inv, Typed, SendInv, Owners, Goto, watched, PastFence, Ended
  <2>4. Senders'
    BY <1>0, <1>2, <2>1 DEF Inv, Typed, SendInv, Senders, Goto, At, watched
  <2>5. /\ \A m \in Messages : sends'[m] > 0 => status'[m] \in {"started", "completed"}
        /\ AtMostOneSend'
    BY <1>0 DEF Inv, SendInv, AtMostOneSend, watched
  <2> QED
    BY <2>1, <2>2, <2>3, <2>4, <2>5 DEF Inv, SendInv
<1> QED
  BY <1>1, <1>2 DEF DrainLoop

(* The rollback gives the claim of the head of the FIFO back. *)
LEMMA RollbackPreserves ==
    ASSUME Inv, NEW e \in Processes, Rollback(e)
    PROVE  Inv'
<1> USE DEF recordVars, startupVars, nativeVars
<1> DEFINE d == Head(fifo[e])
<1>0. /\ fifo[e] # <<>>
      /\ fifo' = [fifo EXCEPT ![e] = Tail(fifo[e])]
      /\ Goto(d, "returned")
      /\ UNCHANGED <<msg, home, sends>>
      /\ FreeRecord(d) \/ UNCHANGED recordVars
  BY DEF Rollback
<1>1. /\ d \in Deliveries
      /\ pc[d] = "queued"
      /\ fifo' \in [Processes -> Seq(Deliveries)]
      /\ Entries'
  BY <1>0, EntriesAfterPop
<1>2. pc' \in [Deliveries -> PCs]
  BY <1>0, <1>1 DEF Inv, Typed, Goto, PCs, Ended
<1>3. AtMostOneSend' /\ (\A x \in Deliveries : pc'[x] # "idle" => home'[x] \in Processes)
  BY <1>0, <1>1 DEF Inv, Typed, SendInv, AtMostOneSend, Goto
<1>4. /\ status' \in [Messages -> Statuses]
      /\ owner' \in [Messages -> Deliveries \cup {Nobody}]
      /\ Owners'
      /\ Senders'
      /\ \A m \in Messages : sends'[m] > 0 => status'[m] \in {"started", "completed"}
  <2>1. CASE FreeRecord(d)
    BY <1>0, <1>1, <2>1, FreeRecordFacts
  <2>2. CASE UNCHANGED recordVars
    <3>1. Owners'
      BY <1>0, <1>1, <2>2 DEF Inv, Typed, SendInv, Owners, Goto, PastFence, Ended
    <3>2. Senders'
      BY <1>0, <1>1, <2>2 DEF Inv, Typed, SendInv, Senders, Goto, At
    <3> QED
      BY <1>0, <2>2, <3>1, <3>2 DEF Inv, Typed, SendInv
  <2> QED
    BY <1>0, <2>1, <2>2
<1> QED
  BY <1>0, <1>1, <1>2, <1>3, <1>4 DEF Inv, Typed, SendInv

(* A dead process: its deliveries are over and its FIFO is gone. *)
LEMMA CrashPreserves ==
    ASSUME Inv, NEW e \in Processes, Crash(e)
    PROVE  Inv'
<1> USE DEF recordVars, startupVars, nativeVars
<1>0. /\ UNCHANGED watched
      /\ fifo' = [fifo EXCEPT ![e] = <<>>]
      /\ pc' = [d \in Deliveries |->
            IF home[d] = e /\ pc[d] \notin Ended THEN "dead" ELSE pc[d]]
  BY DEF Crash, watched
<1>1. Typed'
  BY <1>0 DEF Inv, Typed, watched, PCs, Ended
<1>2. Owners'
  BY <1>0 DEF Inv, Typed, SendInv, Owners, watched, PastFence, Ended
<1>3. Senders'
  BY <1>0 DEF Inv, Typed, SendInv, Senders, At, watched
<1>4. Entries'
  <2> SUFFICES ASSUME NEW f \in Processes, NEW i \in 1..Len(fifo'[f])
               PROVE  /\ pc'[fifo'[f][i]] = "queued"
                      /\ home[fifo'[f][i]] = f
                      /\ \A j \in 1..Len(fifo'[f]) : fifo'[f][i] = fifo'[f][j] => i = j
    BY <1>0 DEF Entries, At, watched
  <2>1. f # e /\ fifo'[f] = fifo[f]
    <3>1. CASE f = e
      <4>1. fifo'[f] = <<>>
        BY <1>0, <3>1 DEF Inv, Typed
      <4> QED
        BY <4>1
    <3>2. CASE f # e
      BY <1>0, <3>2 DEF Inv, Typed
    <3> QED
      BY <3>1, <3>2
  <2>2. /\ pc[fifo[f][i]] = "queued"
        /\ home[fifo[f][i]] = f
        /\ \A j \in 1..Len(fifo[f]) : fifo[f][i] = fifo[f][j] => i = j
    BY <2>1 DEF Inv, SendInv, Entries, At
  <2>3. fifo[f][i] \in Deliveries
    BY <2>1 DEF Inv, Typed
  <2> QED
    BY <1>0, <2>1, <2>2, <2>3
<1>5. /\ \A m \in Messages : sends'[m] > 0 => status'[m] \in {"started", "completed"}
      /\ AtMostOneSend'
  BY <1>0 DEF Inv, SendInv, AtMostOneSend, watched
<1> QED
  BY <1>1, <1>2, <1>3, <1>4, <1>5 DEF Inv, SendInv

-----------------------------------------------------------------------------
(* The steps that wait, prepare, fail or present: they move one delivery. *)

(* Where an error or a cancellation before the fence leads. *)
LEMMA FailBeforeFacts ==
    ASSUME NEW d, NEW err, FailBefore(d, err)
    PROVE  \E p \in {"complete", "release"} : Goto(d, p)
BY DEF FailBefore

(* Where an error or a cancellation after the fence leads. *)
LEMMA FailAfterFacts ==
    ASSUME NEW d, NEW err, FailAfter(d, err)
    PROVE  \E p \in {"notify", "raised"} : Goto(d, p)
BY DEF FailAfter

(* No wait, preparation, answer or notice disturbs the invariant. *)
LEMMA WaitingPreserves ==
    ASSUME Inv, NEW d \in Deliveries,
           \/ PrepareMedia(d)
           \/ AwaitConversation(d)
           \/ PrepareInput(d)
           \/ ReceiveAnswer(d)
           \/ PresentFailure(d)
    PROVE  Inv'
<1> USE DEF recordVars, startupVars, nativeVars, At
<1>1. CASE PrepareMedia(d)
  <2> PICK p \in {"refresh", "release"} : Goto(d, p)
    BY <1>1 DEF PrepareMedia
  <2>1. Shift(d, p)
    BY <1>1 DEF PrepareMedia, Shift, watched, PCs, PastFence, Ended
  <2> QED
    BY <2>1, ShiftPreserves
<1>2. CASE AwaitConversation(d)
  <2> PICK p \in {"prepare", "complete", "release"} : Goto(d, p)
    BY <1>2, FailBeforeFacts DEF AwaitConversation
  <2>1. Shift(d, p)
    BY <1>2 DEF AwaitConversation, Shift, watched, PCs, PastFence, Ended
  <2> QED
    BY <2>1, ShiftPreserves
<1>3. CASE PrepareInput(d)
  <2> PICK p \in {"mark", "complete", "release"} : Goto(d, p)
    BY <1>3, FailBeforeFacts DEF PrepareInput
  <2>1. Shift(d, p)
    BY <1>3 DEF PrepareInput, Shift, watched, PCs, PastFence, Ended
  <2> QED
    BY <2>1, ShiftPreserves
<1>4. CASE ReceiveAnswer(d)
  <2> PICK p \in {"complete", "notify", "raised"} : Goto(d, p)
    BY <1>4, FailAfterFacts DEF ReceiveAnswer
  <2>1. Shift(d, p)
    BY <1>4 DEF ReceiveAnswer, Shift, watched, PCs, PastFence, Ended
  <2> QED
    BY <2>1, ShiftPreserves
<1>5. CASE PresentFailure(d)
  <2> PICK p \in {"returned", "raised"} : Goto(d, p)
    BY <1>5 DEF PresentFailure
  <2>1. Shift(d, p)
    BY <1>5 DEF PresentFailure, Shift, watched, PCs, PastFence, Ended
  <2> QED
    BY <2>1, ShiftPreserves
<1> QED
  BY <1>1, <1>2, <1>3, <1>4, <1>5

-----------------------------------------------------------------------------
(* The fence: the record was an ordinary claim of this delivery, so the
   message has not been sent and nobody else is about to send it. *)
LEMMA EnterFencePreserves ==
    ASSUME Inv, NEW d \in Deliveries, EnterFence(d)
    PROVE  Inv'
<1> USE DEF recordVars, startupVars, nativeVars
<1>0. pc[d] = "mark" /\ UNCHANGED <<fifo, msg, home, sends>>
  BY DEF EnterFence, At
<1>1. CASE /\ Owns(d)
           /\ SetRecord(msg[d], "started", d)
           /\ \E p \in {"send", "notify", "raised"} : Goto(d, p)
  <2> PICK p \in {"send", "notify", "raised"} : Goto(d, p)
    BY <1>1
  <2>0. msg[d] \in Messages /\ p \in PastFence /\ p \in PCs
    BY DEF Inv, Typed, PastFence, Ended, PCs
  <2>1. Typed'
    BY <1>0, <1>1, <2>0 DEF Inv, Typed, SetRecord, Goto, Statuses
  <2>2. Owners'
    BY <1>0, <1>1, <2>0 DEF Inv, Typed, SendInv, Owners, SetRecord, Goto
  <2>3. sends[msg[d]] = 0
    <3>1. status[msg[d]] = "in_flight"
      BY <1>1 DEF Owns
    <3>2. sends[msg[d]] > 0 => status[msg[d]] \in {"started", "completed"}
      BY <2>0 DEF Inv, SendInv
    <3>3. sends[msg[d]] \in Nat
      BY <2>0 DEF Inv, Typed
    <3> QED
      BY <3>1, <3>2, <3>3
  <2>4. Senders'
    BY <1>0, <1>1, <2>0, <2>3 DEF Inv, Typed, SendInv, Senders, SetRecord, Goto, At, Owns
  <2>5. Entries'
    BY <1>0, EntriesStay
  <2>6. /\ \A m \in Messages : sends'[m] > 0 => status'[m] \in {"started", "completed"}
        /\ AtMostOneSend'
    BY <1>0, <1>1, <2>0 DEF Inv, Typed, SendInv, SetRecord, AtMostOneSend
  <2> QED
    BY <2>1, <2>2, <2>4, <2>5, <2>6 DEF Inv, SendInv
<1>2. CASE UNCHANGED recordVars /\ \E p \in {"notify", "raised"} : Goto(d, p)
  <2> PICK p \in {"notify", "raised"} : Goto(d, p)
    BY <1>2
  <2>1. Shift(d, p)
    BY <1>0, <1>2 DEF Shift, watched, PCs, PastFence, Ended
  <2> QED
    BY <2>1, ShiftPreserves
<1> QED
  BY <1>1, <1>2, FailAfterFacts DEF EnterFence

(* The send: by the owner of a fenced record, for the first time. *)
LEMMA SendInputPreserves ==
    ASSUME Inv, NEW d \in Deliveries, SendInput(d)
    PROVE  Inv'
<1> USE DEF recordVars, startupVars, nativeVars
<1>0. pc[d] = "send" /\ UNCHANGED <<status, owner, fifo, msg, home>>
  BY DEF SendInput, At
<1>1. CASE /\ sends' = [sends EXCEPT ![msg[d]] = sends[msg[d]] + 1]
           /\ Goto(d, "sent")
  <2>0. /\ msg[d] \in Messages
        /\ status[msg[d]] = "started"
        /\ owner[msg[d]] = d
        /\ sends[msg[d]] = 0
    BY <1>0 DEF Inv, Typed, SendInv, Senders, At
  <2>1. Typed'
    BY <1>0, <1>1, <2>0 DEF Inv, Typed, Goto, PCs
  <2>2. Owners'
    BY <1>0, <1>1 DEF Inv, Typed, SendInv, Owners, Goto, PastFence, Ended
  <2>3. Senders'
    <3> SUFFICES ASSUME NEW x \in Deliveries, pc'[x] = "send"
                 PROVE  /\ status[msg[x]] = "started"
                        /\ owner[msg[x]] = x
                        /\ sends'[msg[x]] = 0
      BY <1>0 DEF Senders, At
    <3>1. x # d /\ pc[x] = "send"
      BY <1>1 DEF Inv, Typed, Goto
    <3>2. status[msg[x]] = "started" /\ owner[msg[x]] = x /\ sends[msg[x]] = 0
      BY <3>1 DEF Inv, SendInv, Senders, At
    <3>3. msg[x] # msg[d] /\ msg[x] \in Messages
      BY <2>0, <3>1, <3>2 DEF Inv, Typed
    <3> QED
      BY <1>1, <2>0, <3>2, <3>3 DEF Inv, Typed
  <2>4. Entries'
    BY <1>0, <1>1, EntriesStay
  <2>5. /\ \A m \in Messages : sends'[m] > 0 => status'[m] \in {"started", "completed"}
        /\ AtMostOneSend'
    BY <1>0, <1>1, <2>0 DEF Inv, Typed, SendInv, AtMostOneSend
  <2> QED
    BY <2>1, <2>2, <2>3, <2>4, <2>5 DEF Inv, SendInv
<1>2. CASE UNCHANGED sends /\ \E p \in {"notify", "raised"} : Goto(d, p)
  <2> PICK p \in {"notify", "raised"} : Goto(d, p)
    BY <1>2
  <2>1. Shift(d, p)
    BY <1>0, <1>2 DEF Shift, watched, PCs, PastFence, Ended
  <2> QED
    BY <2>1, ShiftPreserves
<1> QED
  BY <1>1, <1>2, FailAfterFacts DEF SendInput

(* The completion: the owner is not about to send, and stays the owner. *)
LEMMA CompletePreserves ==
    ASSUME Inv, NEW d \in Deliveries, Complete(d)
    PROVE  Inv'
<1> USE DEF recordVars, startupVars, nativeVars
<1>0. pc[d] = "complete" /\ UNCHANGED <<owner, fifo, msg, home, sends>>
  BY DEF Complete, At
<1>1. CASE /\ MayComplete(d)
           /\ status' = [status EXCEPT ![msg[d]] = "completed"]
           /\ \E p \in {"returned", "notify", "raised"} : Goto(d, p)
  <2> PICK p \in {"returned", "notify", "raised"} : Goto(d, p)
    BY <1>1
  <2>0. /\ msg[d] \in Messages /\ p \in PastFence /\ p \in PCs
        /\ owner[msg[d]] = d
    BY <1>1 DEF Inv, Typed, PastFence, Ended, PCs, MayComplete
  <2>1. Typed'
    BY <1>0, <1>1, <2>0 DEF Inv, Typed, Goto, Statuses
  <2>2. Owners'
    BY <1>0, <1>1, <2>0, InboundAssumption DEF Inv, Typed, SendInv, Owners, Goto
  <2>3. Senders'
    BY <1>0, <1>1, <2>0 DEF Inv, Typed, SendInv, Senders, Goto, At
  <2>4. Entries'
    BY <1>0, EntriesStay
  <2>5. /\ \A m \in Messages : sends'[m] > 0 => status'[m] \in {"started", "completed"}
        /\ AtMostOneSend'
    BY <1>0, <1>1, <2>0 DEF Inv, Typed, SendInv, AtMostOneSend
  <2> QED
    BY <2>1, <2>2, <2>3, <2>4, <2>5 DEF Inv, SendInv
<1>2. CASE UNCHANGED status /\ Goto(d, "raised")
  <2>1. Shift(d, "raised")
    BY <1>0, <1>2 DEF Shift, watched, PCs, PastFence, Ended
  <2> QED
    BY <2>1, ShiftPreserves
<1> QED
  BY <1>1, <1>2 DEF Complete

-----------------------------------------------------------------------------
(* Nothing has been delivered: the invariant holds initially. *)
LEMMA InitInv == Init => Inv
<1> SUFFICES ASSUME Init PROVE Inv
  OBVIOUS
<1>1. msg \in [Deliveries -> Messages]
  <2> DEFINE first == CHOOSE m \in Messages : TRUE
  <2>1. first \in Messages
    BY InboundAssumption
  <2>2. msg = [d \in Deliveries |-> first]
    BY DEF Init
  <2> HIDE DEF first
  <2> QED
    BY <2>1, <2>2
<1>2. /\ status = [m \in Messages |-> "none"]
      /\ owner = [m \in Messages |-> Nobody]
      /\ fifo = [e \in Processes |-> <<>>]
      /\ pc = [d \in Deliveries |-> "idle"]
      /\ home = [d \in Deliveries |-> 0]
      /\ sends = [m \in Messages |-> 0]
  BY DEF Init
<1>3. Typed
  <2>1. 0 \in 0..MaxEpoch
    BY InboundAssumption
  <2>2. fifo \in [Processes -> Seq(Deliveries)]
    BY <1>2
  <2> QED
    BY <1>1, <1>2, <2>1, <2>2 DEF Typed, Statuses, PCs
<1>4. Owners /\ Senders /\ AtMostOneSend
  BY <1>2 DEF Owners, Senders, At, AtMostOneSend
<1>5. Entries
  BY <1>2 DEF Entries
<1>6. \A m \in Messages : sends[m] > 0 => status[m] \in {"started", "completed"}
  BY <1>2
<1> QED
  BY <1>3, <1>4, <1>5, <1>6 DEF Inv, SendInv

(* Every step keeps the invariant: one case per action. *)
LEMMA NextInv == Inv /\ [Next]_vars => Inv'
<1> SUFFICES ASSUME Inv, [Next]_vars PROVE Inv'
  OBVIOUS
<1> USE DEF recordVars, startupVars, nativeVars, deliveryVars
<1>1. CASE StartProcess
  BY <1>1, IdlePreserves DEF StartProcess, watched
<1>2. CASE LeaseExpires
  BY <1>2, IdlePreserves DEF LeaseExpires, watched
<1>3. ASSUME NEW e \in Processes, LifecycleStep(e) PROVE Inv'
  <2>1. CASE StartupFails(e) \/ Stop(e) \/ Close(e)
    BY <2>1, IdlePreserves DEF StartupFails, Stop, Close, watched
  <2>2. CASE DrainLoop(e)
    BY <2>2, DrainLoopPreserves
  <2>3. CASE Rollback(e)
    BY <2>3, RollbackPreserves
  <2>4. CASE Crash(e)
    BY <2>4, CrashPreserves
  <2> QED
    BY <1>3, <2>1, <2>2, <2>3, <2>4 DEF LifecycleStep
<1>4. ASSUME NEW d \in Deliveries, NEW m \in Messages, NEW e \in Processes, Present(d, m, e)
      PROVE  Inv'
  BY <1>4, PresentPreserves
<1>5. ASSUME NEW d \in Deliveries, DeliveryStep(d) PROVE Inv'
  BY <1>5, ClaimPreserves, DeliverPreserves, ReleasePreserves, WaitingPreserves,
     EnterFencePreserves, SendInputPreserves, CompletePreserves DEF DeliveryStep
<1>6. ASSUME NEW m \in Messages, ApplicationDecides(m) PROVE Inv'
  BY <1>6, IdlePreserves DEF ApplicationDecides, watched
<1>7. CASE UNCHANGED vars
  BY <1>7, IdlePreserves DEF vars, watched
<1> QED
  BY <1>1, <1>2, <1>3, <1>4, <1>5, <1>6, <1>7 DEF Next

(* The inductive invariant holds throughout. *)
LEMMA Invariance == Spec => []Inv
BY InitInv, NextInv, PTL DEF Spec

(* AtMostOneSend: whatever redeliveries, takeovers of stale claims, store
   failures, crashes and restarts there are, and whatever task outlives its
   lease, _process_message sends a message to its Application at most once. *)
THEOREM SentAtMostOnce == Spec => []AtMostOneSend
<1>1. Inv => AtMostOneSend
  BY DEF Inv, SendInv
<1> QED
  BY <1>1, Invariance, PTL

-----------------------------------------------------------------------------
(* The step a fenced or completed record may make. *)
Kept ==
    \A m \in Messages : status[m] \in {"started", "completed"} =>
        /\ owner'[m] = owner[m]
        /\ status'[m] \in {status[m], "completed"}

(* No step opens a fenced record: claims need an unfenced one, and
   releases come from deliveries that are not past their fence. *)
LEMMA StepKeeps == Inv /\ [Next]_vars => Kept
<1> SUFFICES ASSUME Inv, [Next]_vars PROVE Kept
  OBVIOUS
<1> USE DEF recordVars, nativeVars
<1>0. CASE UNCHANGED recordVars
  BY <1>0 DEF Kept
<1>1. ASSUME NEW d \in Deliveries, Claim(d) PROVE Kept
  BY <1>1 DEF Kept, Claim, Claimable, SetRecord, Inv, Typed
<1>2. ASSUME NEW d \in Deliveries, Release(d) PROVE Kept
  <2>1. CASE FreeRecord(d)
    BY <1>2, <2>1, FreeRecordFacts DEF Kept, Release, At
  <2> QED
    BY <1>0, <1>2, <2>1 DEF Release
<1>3. ASSUME NEW e \in Processes, Rollback(e) PROVE Kept
  <2>1. /\ fifo[e] # <<>>
        /\ fifo' = [fifo EXCEPT ![e] = Tail(fifo[e])]
        /\ Goto(Head(fifo[e]), "returned")
        /\ UNCHANGED <<msg, home, sends>>
        /\ FreeRecord(Head(fifo[e])) \/ UNCHANGED recordVars
    BY <1>3 DEF Rollback
  <2>2. Head(fifo[e]) \in Deliveries /\ pc[Head(fifo[e])] = "queued"
    BY <2>1, EntriesAfterPop
  <2>3. CASE FreeRecord(Head(fifo[e]))
    BY <2>1, <2>2, <2>3, FreeRecordFacts DEF Kept
  <2> QED
    BY <1>0, <2>1, <2>3
<1>4. ASSUME NEW d \in Deliveries, EnterFence(d) PROVE Kept
  <2>1. CASE Owns(d) /\ SetRecord(msg[d], "started", d)
    BY <2>1 DEF Kept, Owns, SetRecord, Inv, Typed
  <2> QED
    BY <1>0, <1>4, <2>1 DEF EnterFence
<1>5. ASSUME NEW d \in Deliveries, Complete(d) PROVE Kept
  BY <1>5 DEF Kept, Complete, Inv, Typed
<1>6. ASSUME NEW d \in Deliveries, DeliveryStep(d) PROVE Kept
  <2>1. \/ Claim(d) \/ Release(d) \/ EnterFence(d) \/ Complete(d)
        \/ UNCHANGED recordVars
    BY <1>6 DEF DeliveryStep, PrepareMedia, Deliver, AwaitConversation, PrepareInput,
                SendInput, ReceiveAnswer, PresentFailure
  <2> QED
    BY <2>1, <1>0, <1>1, <1>2, <1>4, <1>5
<1>7. ASSUME NEW e \in Processes, LifecycleStep(e) PROVE Kept
  <2>1. Rollback(e) \/ UNCHANGED recordVars
    BY <1>7 DEF LifecycleStep, StartupFails, DrainLoop, Stop, Close, Crash
  <2> QED
    BY <2>1, <1>0, <1>3
<1>8. CASE \/ StartProcess
           \/ LeaseExpires
           \/ \E d \in Deliveries, m \in Messages, e \in Processes : Present(d, m, e)
           \/ \E m \in Messages : ApplicationDecides(m)
           \/ UNCHANGED vars
  <2>1. UNCHANGED recordVars
    BY <1>8 DEF StartProcess, LeaseExpires, Present, ApplicationDecides, vars
  <2> QED
    BY <2>1, <1>0
<1> QED
  BY <1>6, <1>7, <1>8 DEF Next

(* FencedStaysFenced: once an inbound record is effect_started, no release,
   rollback, takeover or restart opens it again; it stays, or its owner
   completes it (persistence/idempotency.py). *)
THEOREM FencedRecordsStay == Spec => FencedStaysFenced
<1>1. Inv /\ [Next]_vars => [Kept]_vars
  BY StepKeeps
<1>2. Spec => [][Kept]_vars
  BY <1>1, Invariance, PTL DEF Spec
<1> QED
  BY <1>2 DEF FencedStaysFenced, Kept

-----------------------------------------------------------------------------
(* What admission tells its users and what it leaves in the store. *)

Decided(m) == verdict[m] \in {"accepted", "refused"}

(* The message was given up before it left, for good. *)
Unsent(m) == status[m] = "completed" /\ sends[m] = 0

(* What a delivery holds as the reason of its end, and what it told. A
   delivery about to complete its own record knows what became of the
   message; "pre" is told only after such a completion. *)
NoticeOK(d) ==
    /\ At(d, "idle") => why[d] = "none" /\ told[d] = "none"
    /\ "rejected" \in {why[d], told[d]} => verdict[msg[d]] = "refused"
    /\ "post" \in {why[d], told[d]} => verdict[msg[d]] = "accepted"
    /\ told[d] = "pre" => Unsent(msg[d])
    /\ At(d, "notify") /\ why[d] = "pre" => Unsent(msg[d])
    /\ At(d, "complete") /\ owner[msg[d]] = d =>
          \/ sends[msg[d]] = 0
          \/ Decided(msg[d]) /\ why[d] # "pre"

BeforeFence == {"admitted", "refresh", "release", "queued", "lock", "prepare", "mark"}

(* Before its fence a delivery that owns a record has an ordinary claim;
   after it, or ended, only one the store failed has. *)
ClaimOK(d) ==
    /\ pc[d] \in BeforeFence /\ owner[msg[d]] = d => status[msg[d]] = "in_flight"
    /\ pc[d] \in {"sent", "notify", "returned", "raised"} /\ Owns(d) => d \in faulty

TruthTyped ==
    /\ why \in [Deliveries -> Reasons]
    /\ told \in [Deliveries -> Reasons]
    /\ verdict \in [Messages -> Verdicts]

TruthInv ==
    /\ TruthTyped
    /\ \A d \in Deliveries : NoticeOK(d) /\ ClaimOK(d)
    /\ CompletedIsDecided

-----------------------------------------------------------------------------
(* A step of one delivery: no other moves, no verdict is taken back, and a
   record that changes is not completed and stays with this delivery or with
   nobody. *)
Alone(x) ==
    /\ \A d \in Deliveries \ {x} :
          pc'[d] = pc[d] /\ msg'[d] = msg[d] /\ why'[d] = why[d] /\ told'[d] = told[d]
    /\ faulty \subseteq faulty'
    /\ \A m \in Messages : Decided(m) => verdict'[m] = verdict[m]
    /\ \A m \in Messages :
          \/ status'[m] = status[m] /\ owner'[m] = owner[m] /\ sends'[m] = sends[m]
          \/ status[m] # "completed" /\ owner'[m] \in {x, Nobody}

(* What the other deliveries hold and told stays true. *)
LEMMA PeersStay ==
    ASSUME Inv, TruthInv, NEW x \in Deliveries, Alone(x), NEW d \in Deliveries, d # x
    PROVE  NoticeOK(d)' /\ ClaimOK(d)'
<1>1. /\ pc'[d] = pc[d] /\ msg'[d] = msg[d] /\ why'[d] = why[d] /\ told'[d] = told[d]
      /\ msg[d] \in Messages
  BY DEF Alone, Inv, Typed
<1>2. Unsent(msg[d]) => Unsent(msg[d])'
  BY <1>1 DEF Alone, Unsent
<1>3. Decided(msg[d]) => verdict'[msg[d]] = verdict[msg[d]]
  BY <1>1 DEF Alone
<1>4. owner'[msg[d]] = d =>
         /\ owner[msg[d]] = d
         /\ status'[msg[d]] = status[msg[d]]
         /\ sends'[msg[d]] = sends[msg[d]]
  BY <1>1, InboundAssumption DEF Alone
<1>5. NoticeOK(d) /\ ClaimOK(d)
  BY DEF TruthInv
<1>6. NoticeOK(d)'
  BY <1>1, <1>2, <1>3, <1>4, <1>5 DEF NoticeOK, At, Decided
<1>7. ClaimOK(d)'
  BY <1>1, <1>4, <1>5 DEF ClaimOK, Owns, Alone
<1> QED
  BY <1>6, <1>7

(* So a step of one delivery has to be right about that delivery only. *)
LEMMA AloneKeeps ==
    ASSUME Inv, TruthInv, NEW x \in Deliveries, Alone(x),
           TruthTyped', NoticeOK(x)', ClaimOK(x)', CompletedIsDecided'
    PROVE  TruthInv'
<1>1. \A d \in Deliveries : NoticeOK(d)' /\ ClaimOK(d)'
  BY PeersStay
<1> QED
  BY <1>1 DEF TruthInv

(* A step of one delivery that leaves records, sends and verdicts alone. *)
LEMMA QuietKeeps ==
    ASSUME Inv, TruthInv, NEW d \in Deliveries, NEW p, NEW w \in Reasons, NEW t \in Reasons,
           Goto(d, p),
           why' = [why EXCEPT ![d] = w],
           told' = [told EXCEPT ![d] = t],
           UNCHANGED <<status, owner, msg, sends, verdict>>,
           faulty \subseteq faulty',
           NoticeOK(d)', ClaimOK(d)'
    PROVE  TruthInv'
<1>1. Alone(d)
  BY DEF Alone, Goto, Inv, Typed, TruthInv, TruthTyped
<1>2. TruthTyped'
  BY DEF TruthInv, TruthTyped
<1>3. CompletedIsDecided'
  BY DEF TruthInv, CompletedIsDecided
<1> QED
  BY <1>1, <1>2, <1>3, AloneKeeps

(* Reasons and notices that stay are reasons and notices. *)
LEMMA Unmoved ==
    ASSUME Inv, TruthInv, NEW d \in Deliveries
    PROVE  /\ why = [why EXCEPT ![d] = why[d]]
           /\ told = [told EXCEPT ![d] = told[d]]
           /\ why[d] \in Reasons
           /\ told[d] \in Reasons
           /\ msg[d] \in Messages
           /\ pc[d] \in PCs
           /\ \A p : Goto(d, p) => pc'[d] = p
           /\ \A w : why' = [why EXCEPT ![d] = w] => why'[d] = w
           /\ \A t : told' = [told EXCEPT ![d] = t] => told'[d] = t
BY DEF Inv, Typed, TruthInv, TruthTyped, Goto

(* Before its fence a delivery that owns the record was not sent. *)
LEMMA OwnedIsUnsent ==
    ASSUME Inv, TruthInv, NEW d \in Deliveries, pc[d] \in BeforeFence, owner[msg[d]] = d
    PROVE  sends[msg[d]] = 0 /\ status[msg[d]] = "in_flight"
<1>1. status[msg[d]] = "in_flight"
  BY DEF TruthInv, ClaimOK
<1>2. sends[msg[d]] \in Nat /\ msg[d] \in Messages
  BY DEF Inv, Typed
<1>3. sends[msg[d]] > 0 => status[msg[d]] \in {"started", "completed"}
  BY <1>2 DEF Inv, SendInv
<1> QED
  BY <1>1, <1>2, <1>3

-----------------------------------------------------------------------------
(* The steps that move a delivery and leave the records alone. *)

(* From one place before the fence to another. *)
LEMMA BeforeFenceKeeps ==
    ASSUME Inv, TruthInv, NEW d \in Deliveries, pc[d] \in BeforeFence,
           NEW p \in BeforeFence, Goto(d, p),
           UNCHANGED <<why, told, status, owner, msg, sends, verdict, faulty>>
    PROVE  TruthInv'
<1>0. pc'[d] = p
  BY Unmoved
<1>1. NoticeOK(d) /\ ClaimOK(d)
  BY DEF TruthInv
<1>2. NoticeOK(d)'
  BY <1>0, <1>1 DEF NoticeOK, At, Unsent, BeforeFence
<1>3. ClaimOK(d)'
  BY <1>0, <1>1 DEF ClaimOK, Owns, BeforeFence
<1> QED
  BY <1>2, <1>3, Unmoved, QuietKeeps

(* To the completion of a message that was consumed or failed before its
   fence. *)
LEMMA EndsBeforeFence ==
    ASSUME Inv, TruthInv, NEW d \in Deliveries, pc[d] \in BeforeFence,
           NEW w \in {"ok", "pre"}, Goto(d, "complete"), why' = [why EXCEPT ![d] = w],
           UNCHANGED <<told, status, owner, msg, sends, verdict, faulty>>
    PROVE  TruthInv'
<1>0. pc'[d] = "complete" /\ why'[d] = w
  BY Unmoved
<1>1. NoticeOK(d) /\ ClaimOK(d)
  BY DEF TruthInv
<1>2. NoticeOK(d)'
  BY <1>0, <1>1, OwnedIsUnsent DEF NoticeOK, At, Unsent
<1>3. ClaimOK(d)'
  BY <1>0, <1>1 DEF ClaimOK, BeforeFence
<1>4. w \in Reasons
  BY DEF Reasons
<1> QED
  BY <1>2, <1>3, <1>4, Unmoved, QuietKeeps

(* To an end after the fence, of a delivery that holds no ordinary claim
   unless the store failed it. *)
LEMMA EndsAfterFence ==
    ASSUME Inv, TruthInv, NEW d \in Deliveries, NEW err, FailAfter(d, err),
           pc[d] # "idle",
           Owns(d) => d \in faulty',
           faulty \subseteq faulty',
           UNCHANGED <<told, status, owner, msg, sends, verdict>>
    PROVE  TruthInv'
<1>1. NoticeOK(d) /\ ClaimOK(d)
  BY DEF TruthInv
<1>2. CASE Goto(d, "notify") /\ why' = [why EXCEPT ![d] = "unknown"]
  <2>0. pc'[d] = "notify" /\ why'[d] = "unknown"
    BY <1>2, Unmoved
  <2>1. NoticeOK(d)'
    BY <2>0, <1>1 DEF NoticeOK, At, Unsent
  <2>2. ClaimOK(d)'
    BY <2>0 DEF ClaimOK, Owns, BeforeFence
  <2>3. "unknown" \in Reasons
    BY DEF Reasons
  <2> QED
    BY <1>2, <2>1, <2>2, <2>3, Unmoved, QuietKeeps
<1>3. CASE Goto(d, "raised") /\ UNCHANGED why
  <2>0. pc'[d] = "raised"
    BY <1>3, Unmoved
  <2>1. NoticeOK(d)'
    BY <2>0, <1>1, <1>3 DEF NoticeOK, At, Unsent
  <2>2. ClaimOK(d)'
    BY <2>0 DEF ClaimOK, Owns, BeforeFence
  <2> QED
    BY <1>3, <2>1, <2>2, Unmoved, QuietKeeps
<1> QED
  BY <1>2, <1>3 DEF FailAfter

(* A failure before the fence. *)
LEMMA FailBeforeKeeps ==
    ASSUME Inv, TruthInv, NEW d \in Deliveries, pc[d] \in BeforeFence,
           NEW err, FailBefore(d, err),
           UNCHANGED <<told, status, owner, msg, sends, verdict, faulty>>
    PROVE  TruthInv'
<1>1. CASE Goto(d, "complete") /\ why' = [why EXCEPT ![d] = "pre"]
  BY <1>1, EndsBeforeFence
<1>2. CASE Goto(d, "release") /\ UNCHANGED why
  <2>1. "release" \in BeforeFence
    BY DEF BeforeFence
  <2> QED
    BY <1>2, <2>1, BeforeFenceKeeps
<1> QED
  BY <1>1, <1>2 DEF FailBefore

(* Preparing, handing over and waiting. *)
LEMMA WaitsKeep ==
    ASSUME Inv, TruthInv, NEW d \in Deliveries,
           PrepareMedia(d) \/ Deliver(d) \/ AwaitConversation(d) \/ PrepareInput(d)
    PROVE  TruthInv'
<1> USE DEF recordVars, startupVars, nativeVars, historyVars, At
<1>0. /\ pc[d] \in BeforeFence
      /\ UNCHANGED <<told, status, owner, msg, sends, verdict, faulty>>
  BY DEF PrepareMedia, Deliver, AwaitConversation, PrepareInput, BeforeFence
<1>1. CASE UNCHANGED why /\ \E p \in BeforeFence : Goto(d, p)
  BY <1>0, <1>1, BeforeFenceKeeps
<1>2. CASE \E err : FailBefore(d, err)
  BY <1>0, <1>2, FailBeforeKeeps
<1>3. CASE Goto(d, "complete") /\ why' = [why EXCEPT ![d] = "ok"]
  BY <1>0, <1>3, EndsBeforeFence
<1>4. CASE PrepareMedia(d)
  BY <1>1, <1>4 DEF PrepareMedia, BeforeFence
<1>5. CASE Deliver(d)
  BY <1>1, <1>5 DEF Deliver, Handoff, Admit, BeforeFence
<1>6. CASE AwaitConversation(d)
  BY <1>1, <1>2, <1>6 DEF AwaitConversation, BeforeFence
<1>7. CASE PrepareInput(d)
  BY <1>1, <1>2, <1>3, <1>7 DEF PrepareInput, BeforeFence
<1> QED
  BY <1>4, <1>5, <1>6, <1>7

(* The answer: what is kept as the reason is what the Application decided. *)
LEMMA ReceiveAnswerKeeps ==
    ASSUME Inv, TruthInv, NEW d \in Deliveries, ReceiveAnswer(d)
    PROVE  TruthInv'
<1> USE DEF recordVars, startupVars, nativeVars, historyVars
<1>0. /\ pc[d] = "sent"
      /\ UNCHANGED <<told, status, owner, msg, sends, verdict, faulty>>
  BY DEF ReceiveAnswer, At
<1>1. NoticeOK(d) /\ ClaimOK(d)
  BY DEF TruthInv
<1>2. ASSUME NEW w \in {"ok", "post", "rejected"},
             Goto(d, "complete"), why' = [why EXCEPT ![d] = w],
             Decided(msg[d]),
             w = "post" => verdict[msg[d]] = "accepted",
             w = "rejected" => verdict[msg[d]] = "refused"
      PROVE  TruthInv'
  <2>0. pc'[d] = "complete" /\ why'[d] = w /\ w \in Reasons
    BY <1>2, Unmoved DEF Reasons
  <2>1. NoticeOK(d)'
    BY <1>0, <1>1, <1>2, <2>0 DEF NoticeOK, At, Unsent, Decided
  <2>2. ClaimOK(d)'
    BY <2>0 DEF ClaimOK, BeforeFence
  <2> QED
    BY <1>0, <1>2, <2>0, <2>1, <2>2, Unmoved, QuietKeeps
<1>3. CASE \E err : FailAfter(d, err)
  BY <1>0, <1>1, <1>3, EndsAfterFence DEF ClaimOK
<1>4. CASE verdict[msg[d]] = "accepted" /\ Goto(d, "complete")
           /\ \E r \in {"ok", "post"} : why' = [why EXCEPT ![d] = r]
  <2> PICK r \in {"ok", "post"} : why' = [why EXCEPT ![d] = r]
    BY <1>4
  <2> QED
    BY <1>2, <1>4 DEF Decided
<1>5. CASE verdict[msg[d]] = "refused" /\ Goto(d, "complete")
           /\ why' = [why EXCEPT ![d] = "rejected"]
  BY <1>2, <1>5 DEF Decided
<1> QED
  BY <1>3, <1>4, <1>5 DEF ReceiveAnswer

(* The notice says what is held as the reason. *)
LEMMA PresentFailureKeeps ==
    ASSUME Inv, TruthInv, NEW d \in Deliveries, PresentFailure(d)
    PROVE  TruthInv'
<1> USE DEF recordVars, startupVars, nativeVars, historyVars
<1>0. /\ pc[d] = "notify"
      /\ UNCHANGED <<why, status, owner, msg, sends, verdict, faulty>>
  BY DEF PresentFailure, At
<1>1. NoticeOK(d) /\ ClaimOK(d)
  BY DEF TruthInv
<1>2. ASSUME NEW p \in {"returned", "raised"}, NEW t \in {why[d], told[d]},
             Goto(d, p), told' = [told EXCEPT ![d] = t]
      PROVE  TruthInv'
  <2>0. pc'[d] = p /\ told'[d] = t /\ t \in Reasons
    BY <1>2, Unmoved
  <2>1. NoticeOK(d)'
    BY <1>0, <1>1, <2>0 DEF NoticeOK, At, Unsent
  <2>2. ClaimOK(d)'
    BY <1>0, <1>1, <2>0 DEF ClaimOK, Owns, BeforeFence
  <2> QED
    BY <1>0, <1>2, <2>0, <2>1, <2>2, Unmoved, QuietKeeps
<1>3. CASE Goto(d, "returned") /\ told' = [told EXCEPT ![d] = why[d]]
  BY <1>2, <1>3
<1>4. CASE Goto(d, "raised") /\ UNCHANGED told
  <2>1. told' = [told EXCEPT ![d] = told[d]]
    BY <1>4, Unmoved
  <2> QED
    BY <1>2, <1>4, <2>1
<1> QED
  BY <1>3, <1>4 DEF PresentFailure

-----------------------------------------------------------------------------
(* The steps that change a record. *)

(* A Channel callback: the delivery has held and told nothing. *)
LEMMA PresentKeeps ==
    ASSUME Inv, TruthInv, NEW d \in Deliveries, NEW m \in Messages, NEW e \in Processes,
           Present(d, m, e)
    PROVE  TruthInv'
<1> USE DEF recordVars, startupVars, nativeVars, historyVars
<1>0. /\ pc[d] = "idle" /\ Goto(d, "claim") /\ msg' = [msg EXCEPT ![d] = m]
      /\ UNCHANGED <<status, owner, why, told, sends, verdict, faulty>>
  BY DEF Present, At
<1>1. Alone(d)
  BY <1>0 DEF Alone, Goto, Inv, Typed
<1>2. why[d] = "none" /\ told[d] = "none" /\ pc'[d] = "claim"
  BY <1>0, Unmoved DEF TruthInv, NoticeOK, At
<1>3. NoticeOK(d)' /\ ClaimOK(d)'
  BY <1>0, <1>2 DEF NoticeOK, ClaimOK, At, BeforeFence
<1>4. TruthTyped' /\ CompletedIsDecided'
  BY <1>0 DEF TruthInv, TruthTyped, CompletedIsDecided
<1> QED
  BY <1>1, <1>3, <1>4, AloneKeeps

(* A claim is taken, or refused to a delivery that owns nothing. *)
LEMMA ClaimKeeps ==
    ASSUME Inv, TruthInv, NEW d \in Deliveries, Claim(d)
    PROVE  TruthInv'
<1> USE DEF recordVars, startupVars, nativeVars
<1>0. pc[d] = "claim" /\ UNCHANGED <<msg, why, told, sends, verdict>>
  BY DEF Claim, At
<1>1. NoticeOK(d) /\ ClaimOK(d) /\ msg[d] \in Messages
  BY Unmoved DEF TruthInv
<1>2. ASSUME NEW p, Goto(d, p), Claimable(msg[d]), SetRecord(msg[d], "in_flight", d),
             \/ p \in {"admitted", "release"} /\ faulty' = faulty
             \/ p = "raised" /\ faulty' = faulty \cup {d}
      PROVE  TruthInv'
  <2>0. pc'[d] = p /\ status'[msg[d]] = "in_flight" /\ owner'[msg[d]] = d
    BY <1>1, <1>2, Unmoved DEF SetRecord, Inv, Typed
  <2>1. Alone(d)
    BY <1>0, <1>1, <1>2 DEF Alone, Goto, SetRecord, Claimable, Inv, Typed
  <2>2. ~Unsent(msg[d])
    BY <1>2 DEF Unsent, Claimable
  <2>3. NoticeOK(d)'
    BY <1>0, <1>1, <1>2, <2>0, <2>2 DEF NoticeOK, At
  <2>4. ClaimOK(d)'
    BY <1>0, <1>2, <2>0 DEF ClaimOK, BeforeFence
  <2>5. CompletedIsDecided'
    BY <1>0, <1>1, <1>2 DEF TruthInv, CompletedIsDecided, SetRecord, Inv, Typed
  <2>6. TruthTyped'
    BY <1>0 DEF TruthInv, TruthTyped
  <2> QED
    BY <2>1, <2>3, <2>4, <2>5, <2>6, AloneKeeps
<1>3. ASSUME NEW p \in {"returned", "raised"}, Goto(d, p), UNCHANGED <<status, owner, faulty>>
      PROVE  TruthInv'
  <2>0. pc'[d] = p
    BY <1>3, Unmoved
  <2>1. owner[msg[d]] # d
    BY <1>0, <1>1, InboundAssumption DEF Inv, SendInv, Owners
  <2>2. NoticeOK(d)'
    BY <1>0, <1>1, <1>3, <2>0 DEF NoticeOK, At, Unsent
  <2>3. ClaimOK(d)'
    BY <1>0, <1>3, <2>0, <2>1 DEF ClaimOK, Owns, BeforeFence
  <2> QED
    BY <1>0, <1>3, <2>2, <2>3, Unmoved, QuietKeeps
<1>4. CASE /\ Claimable(msg[d])
           /\ SetRecord(msg[d], "in_flight", d)
           /\ \/ Goto(d, "admitted") /\ faulty' = faulty
              \/ Goto(d, "release") /\ faulty' = faulty
              \/ Goto(d, "raised") /\ faulty' = faulty \cup {d}
  BY <1>2, <1>4
<1>5. CASE /\ UNCHANGED <<status, owner, faulty>>
           /\ Goto(d, "returned") \/ Goto(d, "raised")
  BY <1>3, <1>5
<1> QED
  BY <1>4, <1>5 DEF Claim

(* A claim is given back, or the store fails the call. *)
LEMMA GivesBackKeeps ==
    ASSUME Inv, TruthInv, NEW d \in Deliveries, pc[d] \in BeforeFence,
           NEW p \in {"returned", "raised"}, Goto(d, p),
           \/ FreeRecord(d) /\ UNCHANGED faulty
           \/ faulty' = faulty \cup {d} /\ UNCHANGED recordVars,
           UNCHANGED <<msg, why, told, sends, verdict>>
    PROVE  TruthInv'
<1> USE DEF recordVars
<1>0. pc'[d] = p /\ msg[d] \in Messages /\ faulty \subseteq faulty'
  BY Unmoved
<1>1. NoticeOK(d) /\ ClaimOK(d)
  BY DEF TruthInv
<1>2. CASE UNCHANGED recordVars /\ (Owns(d) => d \in faulty')
  <2>1. NoticeOK(d)'
    BY <1>0, <1>1, <1>2 DEF NoticeOK, At, Unsent, BeforeFence
  <2>2. ClaimOK(d)'
    BY <1>0, <1>2 DEF ClaimOK, Owns, BeforeFence
  <2> QED
    BY <1>0, <1>2, <2>1, <2>2, Unmoved, QuietKeeps
<1>3. CASE /\ owner[msg[d]] = d
           /\ SetRecord(msg[d], "none", Nobody)
           /\ UNCHANGED faulty
  <2>0. /\ status[msg[d]] = "in_flight"
        /\ status'[msg[d]] = "none" /\ owner'[msg[d]] = Nobody
    BY <1>0, <1>3, OwnedIsUnsent DEF SetRecord, Inv, Typed
  <2>1. Alone(d)
    BY <1>0, <1>3, <2>0 DEF Alone, Goto, SetRecord, Inv, Typed
  <2>2. NoticeOK(d)'
    BY <1>0, <1>1, <2>0 DEF NoticeOK, At, Unsent
  <2>3. ClaimOK(d)'
    BY <1>0, <2>0, InboundAssumption DEF ClaimOK, Owns
  <2>4. CompletedIsDecided'
    BY <1>0, <1>3 DEF TruthInv, CompletedIsDecided, SetRecord, Inv, Typed
  <2>5. TruthTyped'
    BY DEF TruthInv, TruthTyped
  <2> QED
    BY <2>1, <2>2, <2>3, <2>4, <2>5, AloneKeeps
<1> QED
  BY <1>2, <1>3 DEF FreeRecord, Owns

(* The fence: what is left behind it is not an ordinary claim, or the store
   failed the call. *)
LEMMA EnterFenceKeeps ==
    ASSUME Inv, TruthInv, NEW d \in Deliveries, EnterFence(d)
    PROVE  TruthInv'
<1> USE DEF recordVars, startupVars, nativeVars
<1>0. pc[d] = "mark" /\ UNCHANGED <<msg, told, sends, verdict>>
  BY DEF EnterFence, At
<1>1. NoticeOK(d) /\ ClaimOK(d) /\ msg[d] \in Messages
  BY Unmoved DEF TruthInv
<1>2. ASSUME NEW p \in {"send", "notify", "raised"}, NEW w \in Reasons, Goto(d, p),
             why' = [why EXCEPT ![d] = w],
             \/ w = "unknown"
             \/ w = why[d] /\ p # "notify",
             Owns(d), SetRecord(msg[d], "started", d), UNCHANGED faulty
      PROVE  TruthInv'
  <2>0. /\ pc'[d] = p /\ why'[d] = w
        /\ status[msg[d]] = "in_flight"
        /\ status'[msg[d]] = "started" /\ owner'[msg[d]] = d
    BY <1>1, <1>2, Unmoved DEF SetRecord, Owns, Inv, Typed
  <2>1. Alone(d)
    BY <1>0, <1>1, <1>2, <2>0 DEF Alone, Goto, SetRecord, Inv, Typed, TruthInv, TruthTyped
  <2>2. NoticeOK(d)'
    BY <1>0, <1>1, <1>2, <2>0 DEF NoticeOK, At, Unsent
  <2>3. ClaimOK(d)'
    BY <1>0, <1>2, <2>0 DEF ClaimOK, Owns, BeforeFence
  <2>4. CompletedIsDecided'
    BY <1>0, <1>1, <1>2 DEF TruthInv, CompletedIsDecided, SetRecord, Inv, Typed
  <2>5. TruthTyped'
    BY <1>0, <1>2 DEF TruthInv, TruthTyped
  <2> QED
    BY <2>1, <2>2, <2>3, <2>4, <2>5, AloneKeeps
<1>3. CASE /\ Owns(d) /\ SetRecord(msg[d], "started", d) /\ UNCHANGED faulty
           /\ \/ Goto(d, "send") /\ UNCHANGED why
              \/ \E err : FailAfter(d, err)
  <2>1. CASE Goto(d, "send") /\ UNCHANGED why
    BY <1>2, <1>3, <2>1, Unmoved
  <2>2. CASE Goto(d, "raised") /\ UNCHANGED why
    BY <1>2, <1>3, <2>2, Unmoved
  <2>3. CASE Goto(d, "notify") /\ why' = [why EXCEPT ![d] = "unknown"]
    BY <1>2, <1>3, <2>3 DEF Reasons
  <2> QED
    BY <1>3, <2>1, <2>2, <2>3 DEF FailAfter
<1>4. CASE /\ faulty' = faulty \cup {d}
           /\ UNCHANGED recordVars
           /\ \E err : FailAfter(d, err)
  BY <1>0, <1>4, EndsAfterFence
<1> QED
  BY <1>3, <1>4 DEF EnterFence

(* The send: the record is fenced, so it is not completed. *)
LEMMA SendInputKeeps ==
    ASSUME Inv, TruthInv, NEW d \in Deliveries, SendInput(d)
    PROVE  TruthInv'
<1> USE DEF recordVars, startupVars, nativeVars, historyVars
<1>0. pc[d] = "send" /\ UNCHANGED <<status, owner, msg, told, faulty>>
  BY DEF SendInput, At
<1>1. /\ NoticeOK(d) /\ ClaimOK(d) /\ msg[d] \in Messages
      /\ status[msg[d]] = "started" /\ owner[msg[d]] = d
  BY <1>0, Unmoved DEF TruthInv, Inv, SendInv, Senders, At
<1>2. CASE /\ sends' = [sends EXCEPT ![msg[d]] = @ + 1]
           /\ verdict' = [verdict EXCEPT ![msg[d]] = IF @ = "none" THEN "pending" ELSE @]
           /\ Goto(d, "sent")
           /\ UNCHANGED why
  <2>0. /\ pc'[d] = "sent"
        /\ \A m \in Messages : Decided(m) => verdict'[m] = verdict[m]
        /\ \A m \in Messages \ {msg[d]} : sends'[m] = sends[m] /\ verdict'[m] = verdict[m]
    BY <1>1, <1>2, Unmoved DEF Decided, TruthInv, TruthTyped, Inv, Typed
  <2>1. Alone(d)
    BY <1>0, <1>1, <1>2, <2>0 DEF Alone, Goto, Inv, Typed
  <2>2. NoticeOK(d)'
    BY <1>0, <1>1, <1>2, <2>0 DEF NoticeOK, At, Unsent, Decided
  <2>3. ClaimOK(d)'
    BY <1>0, <1>1, <2>0 DEF ClaimOK, Owns, BeforeFence
  <2>4. CompletedIsDecided'
    BY <1>0, <1>1, <2>0 DEF TruthInv, CompletedIsDecided, Decided
  <2>5. TruthTyped'
    BY <1>0, <1>1, <1>2 DEF TruthInv, TruthTyped, Verdicts
  <2> QED
    BY <2>1, <2>2, <2>3, <2>4, <2>5, AloneKeeps
<1>3. CASE UNCHANGED nativeVars /\ \E err : FailAfter(d, err)
  BY <1>0, <1>1, <1>3, EndsAfterFence DEF Owns
<1> QED
  BY <1>2, <1>3 DEF SendInput

(* The completion: by an owner that knows what became of the message. *)
LEMMA CompleteKeeps ==
    ASSUME Inv, TruthInv, NEW d \in Deliveries, Complete(d)
    PROVE  TruthInv'
<1> USE DEF recordVars, startupVars, nativeVars
<1>0. pc[d] = "complete" /\ UNCHANGED <<owner, msg, why, told, sends, verdict>>
  BY DEF Complete, At
<1>1. NoticeOK(d) /\ ClaimOK(d) /\ msg[d] \in Messages
  BY Unmoved DEF TruthInv
<1>2. ASSUME NEW p \in {"returned", "notify", "raised"}, Goto(d, p), MayComplete(d),
             status' = [status EXCEPT ![msg[d]] = "completed"], UNCHANGED faulty
      PROVE  TruthInv'
  <2>0. /\ pc'[d] = p /\ owner[msg[d]] = d /\ status'[msg[d]] = "completed"
        /\ \A m \in Messages \ {msg[d]} : status'[m] = status[m]
    BY <1>1, <1>2, Unmoved DEF MayComplete, Inv, Typed
  <2>1. Alone(d)
    BY <1>0, <1>1, <1>2, <2>0 DEF Alone, Goto, Inv, Typed
  <2>2. NoticeOK(d)'
    BY <1>0, <1>1, <2>0 DEF NoticeOK, At, Unsent
  <2>3. ClaimOK(d)'
    BY <1>0, <2>0 DEF ClaimOK, Owns, BeforeFence
  <2>4. CompletedIsDecided'
    BY <1>0, <1>1, <2>0 DEF TruthInv, CompletedIsDecided, NoticeOK, At, Decided
  <2>5. TruthTyped'
    BY <1>0 DEF TruthInv, TruthTyped
  <2> QED
    BY <2>1, <2>2, <2>3, <2>4, <2>5, AloneKeeps
<1>3. ASSUME Goto(d, "raised"), UNCHANGED status, faulty \subseteq faulty',
             Owns(d) => d \in faulty'
      PROVE  TruthInv'
  <2>0. pc'[d] = "raised"
    BY <1>3, Unmoved
  <2>1. NoticeOK(d)'
    BY <1>0, <1>1, <1>3, <2>0 DEF NoticeOK, At, Unsent
  <2>2. ClaimOK(d)'
    BY <1>0, <1>3, <2>0 DEF ClaimOK, Owns, BeforeFence
  <2> QED
    BY <1>0, <1>3, <2>1, <2>2, Unmoved, QuietKeeps
<1>4. CASE MayComplete(d) /\ status' = [status EXCEPT ![msg[d]] = "completed"] /\ UNCHANGED faulty
           /\ \/ Goto(d, "returned") \/ Goto(d, "notify") \/ Goto(d, "raised")
  BY <1>2, <1>4
<1>5. CASE ~MayComplete(d) /\ Goto(d, "raised") /\ UNCHANGED <<status, faulty>>
  BY <1>3, <1>5 DEF MayComplete, Owns
<1>6. CASE Goto(d, "raised") /\ faulty' = faulty \cup {d} /\ UNCHANGED status
  BY <1>3, <1>6
<1> QED
  BY <1>4, <1>5, <1>6 DEF Complete

-----------------------------------------------------------------------------
(* The steps of a process and of the Application. *)

(* The entry the drain loop takes, or a rollback gives up. *)
LEMMA HeadIsQueued ==
    ASSUME Inv, NEW e \in Processes, fifo[e] # <<>>
    PROVE  Head(fifo[e]) \in Deliveries /\ pc[Head(fifo[e])] = "queued"
<1>1. fifo[e] \in Seq(Deliveries)
  BY DEF Inv, Typed
<1>2. 1 \in 1..Len(fifo[e]) /\ Head(fifo[e]) = fifo[e][1] /\ Head(fifo[e]) \in Deliveries
  BY <1>1
<1> QED
  BY <1>2 DEF Inv, SendInv, Entries, At

(* Nothing the invariant speaks of changes, but for a verdict that falls. *)
LEMMA VerdictFalls ==
    ASSUME Inv, TruthInv,
           UNCHANGED <<status, owner, pc, msg, why, told, sends, faulty>>,
           verdict' \in [Messages -> Verdicts],
           \A m \in Messages : Decided(m) => verdict'[m] = verdict[m]
    PROVE  TruthInv'
<1>1. ASSUME NEW d \in Deliveries PROVE NoticeOK(d)' /\ ClaimOK(d)'
  <2>1. NoticeOK(d) /\ ClaimOK(d) /\ msg[d] \in Messages
    BY Unmoved DEF TruthInv
  <2>2. NoticeOK(d)'
    BY <2>1 DEF NoticeOK, At, Unsent, Decided
  <2>3. ClaimOK(d)'
    BY <2>1 DEF ClaimOK, Owns
  <2> QED
    BY <2>2, <2>3
<1>2. CompletedIsDecided'
  BY DEF TruthInv, CompletedIsDecided, Decided
<1>3. TruthTyped'
  BY DEF TruthInv, TruthTyped
<1> QED
  BY <1>1, <1>2, <1>3 DEF TruthInv

(* A crash: a dead delivery promises nothing. *)
LEMMA CrashKeeps ==
    ASSUME Inv, TruthInv, NEW e \in Processes, Crash(e)
    PROVE  TruthInv'
<1> USE DEF recordVars, nativeVars, historyVars
<1>0. /\ UNCHANGED <<status, owner, msg, why, told, sends, verdict, faulty>>
      /\ \A d \in Deliveries : pc'[d] = pc[d] \/ pc'[d] = "dead"
  BY DEF Crash
<1>1. ASSUME NEW d \in Deliveries PROVE NoticeOK(d)' /\ ClaimOK(d)'
  <2>1. NoticeOK(d) /\ ClaimOK(d) /\ (pc'[d] = pc[d] \/ pc'[d] = "dead")
    BY <1>0 DEF TruthInv
  <2>2. NoticeOK(d)'
    BY <1>0, <2>1 DEF NoticeOK, At, Unsent, Decided
  <2>3. ClaimOK(d)'
    BY <1>0, <2>1 DEF ClaimOK, Owns, BeforeFence
  <2> QED
    BY <2>2, <2>3
<1>2. CompletedIsDecided' /\ TruthTyped'
  BY <1>0 DEF TruthInv, TruthTyped, CompletedIsDecided
<1> QED
  BY <1>1, <1>2 DEF TruthInv

(* The life of a process. *)
LEMMA LifecycleKeeps ==
    ASSUME Inv, TruthInv, NEW e \in Processes, LifecycleStep(e)
    PROVE  TruthInv'
<1> USE DEF recordVars, nativeVars, historyVars, deliveryVars
<1>0. CASE UNCHANGED <<status, owner, pc, msg, why, told, sends, verdict, faulty>>
  BY <1>0, VerdictFalls DEF TruthInv, TruthTyped
<1>1. CASE StartupFails(e) \/ Stop(e) \/ Close(e)
  BY <1>0, <1>1 DEF StartupFails, Stop, Close
<1>2. CASE DrainLoop(e)
  <2>1. CASE fifo[e] # <<>> /\ Goto(Head(fifo[e]), "lock")
    <3>1. "queued" \in BeforeFence /\ "lock" \in BeforeFence
      BY DEF BeforeFence
    <3> QED
      BY <1>2, <2>1, <3>1, HeadIsQueued, BeforeFenceKeeps DEF DrainLoop
  <2>2. CASE UNCHANGED pc
    BY <1>0, <1>2, <2>2 DEF DrainLoop
  <2> QED
    BY <1>2, <2>1, <2>2 DEF DrainLoop
<1>3. CASE Rollback(e)
  <2>1. Head(fifo[e]) \in Deliveries /\ pc[Head(fifo[e])] \in BeforeFence
    BY <1>3, HeadIsQueued DEF Rollback, BeforeFence
  <2> QED
    BY <1>3, <2>1, GivesBackKeeps DEF Rollback
<1>4. CASE Crash(e)
  BY <1>4, CrashKeeps
<1> QED
  BY <1>1, <1>2, <1>3, <1>4 DEF LifecycleStep

-----------------------------------------------------------------------------
(* Nothing has been claimed, sent or told. *)
LEMMA InitTruth == Init => TruthInv
<1> SUFFICES ASSUME Init PROVE TruthInv
  OBVIOUS
<1>1. TruthTyped
  BY DEF Init, TruthTyped, Reasons, Verdicts
<1>2. ASSUME NEW d \in Deliveries PROVE NoticeOK(d) /\ ClaimOK(d)
  <2>1. pc[d] = "idle" /\ why[d] = "none" /\ told[d] = "none"
    BY DEF Init
  <2> QED
    BY <2>1 DEF NoticeOK, ClaimOK, At, BeforeFence
<1>3. CompletedIsDecided
  BY DEF Init, CompletedIsDecided
<1> QED
  BY <1>1, <1>2, <1>3 DEF TruthInv

(* Every step keeps what is held and told true. *)
LEMMA NextTruth == Inv /\ TruthInv /\ [Next]_vars => TruthInv'
<1> SUFFICES ASSUME Inv, TruthInv, [Next]_vars PROVE TruthInv'
  OBVIOUS
<1> USE DEF recordVars, nativeVars, historyVars, deliveryVars
<1>1. CASE StartProcess \/ LeaseExpires \/ UNCHANGED vars
  <2>1. UNCHANGED <<status, owner, pc, msg, why, told, sends, verdict, faulty>>
    BY <1>1 DEF StartProcess, LeaseExpires, vars
  <2> QED
    BY <2>1, VerdictFalls DEF TruthInv, TruthTyped
<1>2. ASSUME NEW e \in Processes, LifecycleStep(e) PROVE TruthInv'
  BY <1>2, LifecycleKeeps
<1>3. ASSUME NEW d \in Deliveries, NEW m \in Messages, NEW e \in Processes, Present(d, m, e)
      PROVE  TruthInv'
  BY <1>3, PresentKeeps
<1>4. ASSUME NEW d \in Deliveries, DeliveryStep(d) PROVE TruthInv'
  <2>1. CASE Release(d)
    <3>1. pc[d] \in BeforeFence
      BY <2>1 DEF Release, At, BeforeFence
    <3> QED
      BY <2>1, <3>1, GivesBackKeeps DEF Release
  <2> QED
    BY <1>4, <2>1, ClaimKeeps, WaitsKeep, EnterFenceKeeps, SendInputKeeps,
       ReceiveAnswerKeeps, CompleteKeeps, PresentFailureKeeps DEF DeliveryStep
<1>5. ASSUME NEW m \in Messages, ApplicationDecides(m) PROVE TruthInv'
  <2>1. /\ verdict' \in [Messages -> Verdicts]
        /\ \A n \in Messages : Decided(n) => verdict'[n] = verdict[n]
    BY <1>5 DEF ApplicationDecides, Decided, TruthInv, TruthTyped, Verdicts
  <2> QED
    BY <1>5, <2>1, VerdictFalls DEF ApplicationDecides
<1> QED
  BY <1>1, <1>2, <1>3, <1>4, <1>5 DEF Next

(* The inductive invariant holds throughout. *)
LEMMA TruthInvariance == Spec => [](Inv /\ TruthInv)
BY InitInv, InitTruth, NextInv, NextTruth, PTL DEF Spec

(* NoticesAreTrue: what handle_claimed_inbound presents to a Conversation is
   true when it is said and stays true: a message said not to have reached the
   Application never reaches it, by a redelivery, a later process or a task
   that was overtaken; and one said to be refused or accepted was. *)
THEOREM NoticesStayTrue == Spec => []NoticesAreTrue
<1>1. Inv /\ TruthInv => NoticesAreTrue
  BY DEF TruthInv, NoticeOK, NoticesAreTrue, Unsent
<1> QED
  BY <1>1, TruthInvariance, PTL

(* ClaimsAreSettled: a delivery that ended holds no ordinary claim, so that a
   redelivery is not refused for a message nobody handles, unless the store
   failed the delivery; and a completed record is a decided message or one
   that never left (release, complete and their error paths). *)
THEOREM ClaimsStaySettled == Spec => []ClaimsAreSettled
<1>1. Inv /\ TruthInv => ClaimsAreReturned
  BY DEF TruthInv, ClaimOK, ClaimsAreReturned, Ended
<1>2. Inv /\ TruthInv => CompletedIsDecided
  BY DEF TruthInv
<1> QED
  BY <1>1, <1>2, TruthInvariance, PTL DEF ClaimsAreSettled

-----------------------------------------------------------------------------
(***************************************************************************)
(* Proof that messages of one Conversation are sent in the order in which  *)
(* a process took them over, across the startup FIFO, its drain and live   *)
(* handling, and that none is sent after an earlier one was turned away.   *)
(***************************************************************************)

(* The order of the handoffs. *)
Listed(d) == \E i \in 1..Len(arrivals) : arrivals[i] = d

Before(d, f) ==
    \E i, j \in 1..Len(arrivals) : i < j /\ arrivals[i] = d /\ arrivals[j] = f

(* The places before the handoff, in the queue of a Conversation lock, and
   those that only its head can be at. *)
Early   == {"idle", "claim", "admitted", "refresh"}
Holding == {"prepare", "mark", "send", "sent"}
InLock  == {"lock"} \cup Holding

(* The process turns every further handoff away. *)
Shut(e) == overflow[e] \/ ~Accepts(e)

OrderTyped ==
    /\ phase \in [Processes -> Phases]
    /\ overflow \in [Processes -> BOOLEAN]
    /\ locks \in [Processes -> [Conversations -> Seq(Deliveries)]]
    /\ arrivals \in Seq(Deliveries)
    /\ epoch \in Nat

(* A delivery is handed over once. *)
ArrivesOnce ==
    /\ \A i \in 1..Len(arrivals) : pc[arrivals[i]] \notin Early
    /\ \A i, j \in 1..Len(arrivals) : arrivals[i] = arrivals[j] => i = j

(* Who waits for a Conversation is of that Conversation, and only the head
   of the queue is past the wait. *)
Members(e, c) ==
    \A i \in 1..Len(locks[e][c]) :
        /\ home[locks[e][c][i]] = e
        /\ ConversationOf[msg[locks[e][c][i]]] = c
        /\ pc[locks[e][c][i]] \in InLock
        /\ pc[locks[e][c][i]] \in Holding => i = 1

(* A lock serves in the order of the handoff. *)
Sorted(e, c) ==
    \A i, j \in 1..Len(locks[e][c]) : i < j => Before(locks[e][c][i], locks[e][c][j])

(* Who waits for a Conversation came before everyone in the startup FIFO. *)
Ahead(e, c) ==
    \A i \in 1..Len(locks[e][c]), k \in 1..Len(fifo[e]) :
        Before(locks[e][c][i], fifo[e][k])

(* The startup FIFO is in the order of the handoff, and inbound is live only
   when it is empty and has not overflowed. *)
FifoOK(e) ==
    /\ \A i, j \in 1..Len(fifo[e]) : i < j => Before(fifo[e][i], fifo[e][j])
    /\ phase[e] # "off" => e <= epoch
    /\ phase[e] = "running" => fifo[e] = <<>> /\ ~overflow[e]

(* A delivery between its handoff and its send is in the queue it waits in;
   one that was turned away never gets there, and its process stays shut. *)
PlaceOK(d) ==
    /\ pc[d] \in InLock => \E i \in 1..Len(Lock(d)) : Lock(d)[i] = d
    /\ pc[d] = "queued" => \E k \in 1..Len(fifo[home[d]]) : fifo[home[d]][k] = d
    /\ pc[d] \in InLock \cup {"queued"} => Listed(d)
    /\ d \in turned => pc[d] \in Ended \cup {"release"} /\ Shut(home[d])
    /\ pc[d] # "idle" => phase[home[d]] # "off"

(* Once one is turned away, every later one is. *)
TurnedAfter ==
    \A i, j \in 1..Len(arrivals) :
        /\ i < j
        /\ arrivals[i] \in turned
        /\ home[arrivals[i]] = home[arrivals[j]]
        => arrivals[j] \in turned

OrderInv ==
    /\ OrderTyped
    /\ ArrivesOnce
    /\ \A e \in Processes : FifoOK(e)
    /\ \A e \in Processes, c \in Conversations :
          Members(e, c) /\ Sorted(e, c) /\ Ahead(e, c)
    /\ \A d \in Deliveries : PlaceOK(d)
    /\ TurnedAfter

-----------------------------------------------------------------------------
(* Facts about the order. *)

(* The order of the handoffs is strict. *)
LEMMA BeforeIsStrict ==
    ASSUME OrderInv, NEW x, NEW y, Before(x, y)
    PROVE  x # y /\ ~Before(y, x) /\ Listed(x) /\ Listed(y)
<1>0. Len(arrivals) \in Nat
  BY DEF OrderInv, OrderTyped
<1>1. PICK i, j \in 1..Len(arrivals) : i < j /\ arrivals[i] = x /\ arrivals[j] = y
  BY DEF Before
<1>2. x # y
  BY <1>0, <1>1 DEF OrderInv, ArrivesOnce
<1>3. ASSUME Before(y, x) PROVE FALSE
  <2>1. PICK k, l \in 1..Len(arrivals) : k < l /\ arrivals[k] = y /\ arrivals[l] = x
    BY <1>3 DEF Before
  <2>2. i = l /\ j = k
    BY <1>1, <2>1 DEF OrderInv, ArrivesOnce
  <2> QED
    BY <1>0, <1>1, <2>1, <2>2
<1> QED
  BY <1>1, <1>2, <1>3 DEF Listed

(* Without a handoff the order stays. *)
LEMMA OrderStays ==
    ASSUME UNCHANGED arrivals
    PROVE  /\ \A x, y : Before(x, y) => Before(x, y)'
           /\ \A x : Listed(x) => Listed(x)'
BY DEF Before, Listed

(* A handoff comes after all others. *)
LEMMA HandoffIsLast ==
    ASSUME OrderInv, NEW d \in Deliveries, arrivals' = Append(arrivals, d)
    PROVE  /\ arrivals' \in Seq(Deliveries)
           /\ Len(arrivals') = Len(arrivals) + 1
           /\ arrivals'[Len(arrivals) + 1] = d
           /\ \A i \in 1..Len(arrivals) : arrivals'[i] = arrivals[i]
           /\ \A i \in 1..Len(arrivals') : i \in 1..Len(arrivals) \/ i = Len(arrivals) + 1
           /\ \A x, y : Before(x, y) => Before(x, y)'
           /\ \A x : Listed(x) => Listed(x)' /\ Before(x, d)'
           /\ Listed(d)'
<1>0. arrivals \in Seq(Deliveries) /\ Len(arrivals) \in Nat
  BY DEF OrderInv, OrderTyped
<1>1. /\ arrivals' \in Seq(Deliveries)
      /\ Len(arrivals') = Len(arrivals) + 1
      /\ arrivals'[Len(arrivals) + 1] = d
      /\ \A i \in 1..Len(arrivals) : arrivals'[i] = arrivals[i]
  BY <1>0
<1>2. \A i \in 1..Len(arrivals') : i \in 1..Len(arrivals) \/ i = Len(arrivals) + 1
  BY <1>0, <1>1
<1>3. \A i \in 1..Len(arrivals) : i \in 1..Len(arrivals') /\ i < Len(arrivals) + 1
  BY <1>0, <1>1
<1>4. Len(arrivals) + 1 \in 1..Len(arrivals')
  BY <1>0, <1>1
<1>5. \A x, y : Before(x, y) => Before(x, y)'
  BY <1>1, <1>3 DEF Before
<1>6. \A x : Listed(x) => Listed(x)' /\ Before(x, d)'
  BY <1>1, <1>3, <1>4 DEF Before, Listed
<1>7. Listed(d)'
  BY <1>1, <1>4 DEF Listed
<1> QED
  BY <1>1, <1>2, <1>5, <1>6, <1>7

(* A delivery that leaves the queue of a lock: the rest keeps its order. *)
LEMMA WithoutFacts ==
    ASSUME NEW s \in Seq(Deliveries), NEW d, NEW i \in 1..Len(s), s[i] = d,
           \A j \in 1..Len(s) : s[j] = d => j = i
    PROVE  /\ Without(s, d) \in Seq(Deliveries)
           /\ Len(Without(s, d)) = Len(s) - 1
           /\ \A j \in 1..(Len(s) - 1) :
                 Without(s, d)[j] = IF j < i THEN s[j] ELSE s[j + 1]
<1> DEFINE k == CHOOSE k \in 1..Len(s) : s[k] = d
<1>0. Len(s) \in Nat /\ Len(s) - 1 \in Nat
  OBVIOUS
<1>1. k = i
  OBVIOUS
<1> HIDE DEF k
<1>2. Without(s, d) = [j \in 1..(Len(s) - 1) |-> IF j < i THEN s[j] ELSE s[j + 1]]
  BY <1>1 DEF Without, k
<1>3. \A j \in 1..(Len(s) - 1) : (IF j < i THEN s[j] ELSE s[j + 1]) \in Deliveries
  BY <1>0
<1>4. Without(s, d) \in [1..(Len(s) - 1) -> Deliveries]
  BY <1>2, <1>3
<1>5. Without(s, d) \in Seq(Deliveries) /\ Len(Without(s, d)) = Len(s) - 1
  BY <1>0, <1>4
<1> QED
  BY <1>2, <1>5

(* Only the queue of one Conversation changes. *)
LEMMA SetLockFacts ==
    ASSUME Inv, OrderInv, NEW d \in Deliveries, pc[d] # "idle",
           NEW s \in Seq(Deliveries), SetLock(d, s)
    PROVE  /\ home[d] \in Processes
           /\ ConversationOf[msg[d]] \in Conversations
           /\ Lock(d) \in Seq(Deliveries)
           /\ locks' \in [Processes -> [Conversations -> Seq(Deliveries)]]
           /\ locks'[home[d]][ConversationOf[msg[d]]] = s
           /\ \A e \in Processes, c \in Conversations :
                 e # home[d] \/ c # ConversationOf[msg[d]] => locks'[e][c] = locks[e][c]
<1>1. home[d] \in Processes /\ ConversationOf[msg[d]] \in Conversations
  BY InboundAssumption DEF Inv, Typed
<1>2. locks \in [Processes -> [Conversations -> Seq(Deliveries)]]
  BY DEF OrderInv, OrderTyped
<1>3. Lock(d) \in Seq(Deliveries)
  BY <1>1, <1>2 DEF Lock
<1> DEFINE e0 == home[d]
           c0 == ConversationOf[msg[d]]
<1>4. locks' = [locks EXCEPT ![e0] = [locks[e0] EXCEPT ![c0] = s]]
  BY DEF SetLock
<1> HIDE DEF e0, c0
<1>5. e0 \in Processes /\ c0 \in Conversations
  BY <1>1 DEF e0, c0
<1>6. [locks[e0] EXCEPT ![c0] = s] \in [Conversations -> Seq(Deliveries)]
  BY <1>2, <1>5
<1>7. /\ locks' \in [Processes -> [Conversations -> Seq(Deliveries)]]
      /\ locks'[e0][c0] = s
      /\ \A e \in Processes, c \in Conversations :
            e # e0 \/ c # c0 => locks'[e][c] = locks[e][c]
  BY <1>2, <1>4, <1>5, <1>6
<1> QED
  BY <1>1, <1>3, <1>7 DEF e0, c0

-----------------------------------------------------------------------------
(* What a step leaves alone. *)

(* Queues that stay are still in order. *)
LEMMA QueuesStay ==
    ASSUME OrderInv, UNCHANGED <<locks, fifo, arrivals>>
    PROVE  /\ \A e \in Processes, c \in Conversations : Sorted(e, c)' /\ Ahead(e, c)'
           /\ \A e \in Processes : \A i, j \in 1..Len(fifo[e]) :
                 i < j => Before(fifo[e][i], fifo[e][j])'
<1>1. \A x, y : Before(x, y) => Before(x, y)'
  BY OrderStays
<1> QED
  BY <1>1 DEF OrderInv, Sorted, Ahead, FifoOK

(* A lock keeps its members when none of them moves. *)
LEMMA MembersStay ==
    ASSUME Inv, OrderInv, NEW e \in Processes, NEW c \in Conversations,
           locks'[e][c] = locks[e][c],
           \A x \in Deliveries : pc[x] \in InLock /\ home[x] = e =>
               pc'[x] = pc[x] /\ home'[x] = home[x] /\ msg'[x] = msg[x]
    PROVE  Members(e, c)'
<1>1. Members(e, c)
  BY DEF OrderInv
<1>2. \A i \in 1..Len(locks[e][c]) : locks[e][c][i] \in Deliveries
  BY DEF OrderInv, OrderTyped
<1> QED
  BY <1>1, <1>2 DEF Members

(* A delivery that stays where it is, and whose queues stay. *)
LEMMA PlaceStays ==
    ASSUME OrderInv, NEW x \in Deliveries,
           UNCHANGED <<locks, fifo, phase, overflow>>,
           \A y : Listed(y) => Listed(y)',
           x \in turned' => x \in turned,
           pc'[x] = pc[x], home'[x] = home[x], msg'[x] = msg[x]
    PROVE  PlaceOK(x)'
<1>1. PlaceOK(x)
  BY DEF OrderInv
<1>2. Lock(x)' = Lock(x) /\ (Shut(home[x]) => Shut(home[x])')
  BY DEF Lock, Shut, Accepts
<1> QED
  BY <1>1, <1>2 DEF PlaceOK, Shut, Accepts

(* A step of one delivery moves no other. *)
LEMMA OthersStay ==
    ASSUME Inv, NEW d \in Deliveries, NEW p, Goto(d, p)
    PROVE  pc'[d] = p /\ \A x \in Deliveries \ {d} : pc'[x] = pc[x]
BY DEF Inv, Typed, Goto

orderVars == <<home, msg, phase, overflow, fifo, locks, arrivals, turned, epoch>>

-----------------------------------------------------------------------------
(* Outside the queues. *)

(* A delivery moves that is in no queue and enters none. *)
LEMMA OutMoves ==
    ASSUME Inv, OrderInv, NEW d \in Deliveries, NEW p, Goto(d, p), UNCHANGED orderVars,
           pc[d] \notin InLock \cup {"queued", "idle"},
           p \notin InLock \cup {"queued", "idle"},
           pc[d] \notin Early => p \notin Early,
           pc[d] \in Ended \cup {"release"} => p \in Ended \cup {"release"}
    PROVE  OrderInv'
<1> USE DEF orderVars
<1>0. pc'[d] = p /\ \A x \in Deliveries \ {d} : pc'[x] = pc[x]
  BY OthersStay
<1>1. OrderTyped'
  BY DEF OrderInv, OrderTyped
<1>2. ArrivesOnce'
  <2>1. \A i \in 1..Len(arrivals) : arrivals[i] \in Deliveries
    BY DEF OrderInv, OrderTyped
  <2> QED
    BY <1>0, <2>1 DEF OrderInv, ArrivesOnce
<1>3. \A e \in Processes : FifoOK(e)'
  BY QueuesStay DEF OrderInv, FifoOK
<1>4. \A e \in Processes, c \in Conversations : Members(e, c)' /\ Sorted(e, c)' /\ Ahead(e, c)'
  BY <1>0, QueuesStay, MembersStay
<1>5. ASSUME NEW x \in Deliveries PROVE PlaceOK(x)'
  <2>1. CASE x # d
    BY <1>0, <2>1, PlaceStays, OrderStays
  <2>2. CASE x = d
    <3>1. PlaceOK(d)
      BY DEF OrderInv
    <3>2. Shut(home[d]) => Shut(home[d])'
      BY DEF Shut, Accepts
    <3> QED
      BY <1>0, <2>2, <3>1, <3>2 DEF PlaceOK, Shut, Accepts
  <2> QED
    BY <2>1, <2>2
<1>6. TurnedAfter'
  BY DEF OrderInv, TurnedAfter
<1> QED
  BY <1>1, <1>2, <1>3, <1>4, <1>5, <1>6 DEF OrderInv

(* A Channel callback, to a process that was started. *)
LEMMA PresentOrder ==
    ASSUME Inv, OrderInv, NEW d \in Deliveries, NEW m \in Messages, NEW e0 \in Processes,
           Present(d, m, e0)
    PROVE  OrderInv'
<1> USE DEF startupVars, historyVars, leaseVars
<1>0. /\ pc[d] = "idle" /\ pc'[d] = "claim"
      /\ \A x \in Deliveries \ {d} : pc'[x] = pc[x] /\ home'[x] = home[x] /\ msg'[x] = msg[x]
      /\ home'[d] = e0 /\ phase[e0] # "off"
      /\ UNCHANGED <<phase, overflow, fifo, locks, arrivals, turned, epoch>>
  BY OthersStay DEF Present, At, Accepts, Inv, Typed
<1>1. OrderTyped'
  BY <1>0 DEF OrderInv, OrderTyped
<1>2. \A i \in 1..Len(arrivals) : arrivals[i] \in Deliveries \ {d}
  BY <1>0 DEF OrderInv, OrderTyped, ArrivesOnce, Early
<1>3. ArrivesOnce'
  BY <1>0, <1>2 DEF OrderInv, ArrivesOnce
<1>4. \A e \in Processes : FifoOK(e)'
  BY <1>0, QueuesStay DEF OrderInv, FifoOK
<1>5. \A e \in Processes, c \in Conversations : Members(e, c)' /\ Sorted(e, c)' /\ Ahead(e, c)'
  <2>1. \A x \in Deliveries : pc[x] \in InLock => x # d
    BY <1>0 DEF InLock, Holding
  <2> QED
    BY <1>0, <2>1, QueuesStay, MembersStay
<1>6. ASSUME NEW x \in Deliveries PROVE PlaceOK(x)'
  <2>1. CASE x # d
    BY <1>0, <2>1, PlaceStays, OrderStays
  <2>2. CASE x = d
    <3>1. d \notin turned
      BY <1>0 DEF OrderInv, PlaceOK, Ended
    <3> QED
      BY <1>0, <2>2, <3>1 DEF PlaceOK, InLock, Holding
  <2> QED
    BY <2>1, <2>2
<1>7. TurnedAfter'
  BY <1>0, <1>2 DEF OrderInv, TurnedAfter
<1> QED
  BY <1>1, <1>3, <1>4, <1>5, <1>6, <1>7 DEF OrderInv

(* A process goes on to its next phase: it does not open again what it shut,
   and goes live only with its FIFO empty. *)
LEMMA PhaseMoves ==
    ASSUME Inv, OrderInv,
           UNCHANGED <<pc, home, msg, overflow, fifo, locks, arrivals, turned>>,
           phase' \in [Processes -> Phases], epoch' \in Nat,
           \A e \in Processes :
              /\ phase[e] # "off" => phase'[e] # "off" /\ (Shut(e) => Shut(e)')
              /\ phase'[e] # "off" => e <= epoch'
              /\ phase'[e] = "running" => fifo[e] = <<>> /\ ~overflow[e]
    PROVE  OrderInv'
<1>1. OrderTyped'
  BY DEF OrderInv, OrderTyped
<1>2. ArrivesOnce' /\ TurnedAfter'
  BY DEF OrderInv, ArrivesOnce, TurnedAfter
<1>3. \A e \in Processes : FifoOK(e)'
  BY QueuesStay DEF FifoOK
<1>4. \A e \in Processes, c \in Conversations : Members(e, c)' /\ Sorted(e, c)' /\ Ahead(e, c)'
  BY QueuesStay, MembersStay
<1>5. ASSUME NEW x \in Deliveries PROVE PlaceOK(x)'
  <2>1. PlaceOK(x) /\ Lock(x)' = Lock(x) /\ (Listed(x) => Listed(x)')
    BY OrderStays DEF OrderInv, Lock
  <2>2. CASE pc[x] = "idle"
    <3>1. x \notin turned
      BY <2>1, <2>2 DEF PlaceOK, Ended
    <3> QED
      BY <2>2, <3>1 DEF PlaceOK, InLock, Holding
  <2>3. CASE pc[x] # "idle"
    <3>1. home[x] \in Processes /\ phase[home[x]] # "off"
      BY <2>1, <2>3 DEF PlaceOK, Inv, Typed
    <3>2. phase'[home[x]] # "off" /\ (Shut(home[x]) => Shut(home[x])')
      BY <3>1 DEF Shut, Accepts
    <3> QED
      BY <2>1, <2>3, <3>2 DEF PlaceOK
  <2> QED
    BY <2>2, <2>3
<1> QED
  BY <1>1, <1>2, <1>3, <1>4, <1>5 DEF OrderInv

-----------------------------------------------------------------------------
(* In the queue of a Conversation. *)

(* A delivery is in the queue of its own lock only, and once. *)
LEMMA OnePlace ==
    ASSUME Inv, OrderInv, NEW d \in Deliveries,
           NEW e \in Processes, NEW c \in Conversations,
           NEW i \in 1..Len(locks[e][c]), locks[e][c][i] = d
    PROVE  /\ e = home[d] /\ c = ConversationOf[msg[d]] /\ locks[e][c] = Lock(d)
           /\ \A j \in 1..Len(locks[e][c]) : locks[e][c][j] = d => j = i
<1>1. e = home[d] /\ c = ConversationOf[msg[d]]
  BY DEF OrderInv, Members
<1>2. Len(locks[e][c]) \in Nat
  BY DEF OrderInv, OrderTyped
<1>3. ASSUME NEW j \in 1..Len(locks[e][c]), locks[e][c][j] = d PROVE j = i
  <2>1. ~(i < j) /\ ~(j < i)
    BY <1>3, BeforeIsStrict DEF OrderInv, Sorted
  <2> QED
    BY <1>2, <2>1
<1> QED
  BY <1>1, <1>3 DEF Lock

(* A delivery that waits or holds is in the queue of its lock. *)
LEMMA InItsLock ==
    ASSUME Inv, OrderInv, NEW d \in Deliveries, pc[d] \in InLock
    PROVE  /\ home[d] \in Processes
           /\ ConversationOf[msg[d]] \in Conversations
           /\ Lock(d) = locks[home[d]][ConversationOf[msg[d]]]
           /\ Lock(d) \in Seq(Deliveries)
           /\ \E i \in 1..Len(Lock(d)) :
                 /\ Lock(d)[i] = d
                 /\ \A j \in 1..Len(Lock(d)) : Lock(d)[j] = d => j = i
                 /\ pc[d] \in Holding => i = 1
<1>0. pc[d] # "idle"
  BY DEF InLock, Holding
<1>1. home[d] \in Processes /\ ConversationOf[msg[d]] \in Conversations
  BY <1>0, InboundAssumption DEF Inv, Typed
<1>2. Lock(d) = locks[home[d]][ConversationOf[msg[d]]]
  BY DEF Lock
<1>3. Lock(d) \in Seq(Deliveries)
  BY <1>1, <1>2 DEF OrderInv, OrderTyped
<1>4. PICK i \in 1..Len(Lock(d)) : Lock(d)[i] = d
  BY DEF OrderInv, PlaceOK
<1>5. \A j \in 1..Len(Lock(d)) : Lock(d)[j] = d => j = i
  BY <1>1, <1>2, <1>4, OnePlace
<1>6. pc[d] \in Holding => i = 1
  BY <1>1, <1>2, <1>4 DEF OrderInv, Members
<1> QED
  BY <1>1, <1>2, <1>3, <1>4, <1>5, <1>6

(* A delivery goes on in the queue: only the head goes past the wait. *)
LEMMA InMoves ==
    ASSUME Inv, OrderInv, NEW d \in Deliveries, NEW p \in Holding, Goto(d, p),
           UNCHANGED orderVars,
           pc[d] \in InLock,
           pc[d] \in Holding \/ Head(Lock(d)) = d
    PROVE  OrderInv'
<1> USE DEF orderVars
<1>0. pc'[d] = p /\ \A x \in Deliveries \ {d} : pc'[x] = pc[x]
  BY OthersStay
<1>1. OrderTyped' /\ TurnedAfter'
  BY DEF OrderInv, OrderTyped, TurnedAfter
<1>2. ArrivesOnce'
  <2>1. \A i \in 1..Len(arrivals) : arrivals[i] \in Deliveries
    BY DEF OrderInv, OrderTyped
  <2>2. p \notin Early
    BY DEF Holding, Early
  <2> QED
    BY <1>0, <2>1, <2>2 DEF OrderInv, ArrivesOnce
<1>3. \A e \in Processes : FifoOK(e)'
  BY QueuesStay DEF OrderInv, FifoOK
<1>4. ASSUME NEW e \in Processes, NEW c \in Conversations PROVE Members(e, c)'
  <2> SUFFICES ASSUME NEW i \in 1..Len(locks[e][c])
               PROVE  /\ home[locks[e][c][i]] = e
                      /\ ConversationOf[msg[locks[e][c][i]]] = c
                      /\ pc'[locks[e][c][i]] \in InLock
                      /\ pc'[locks[e][c][i]] \in Holding => i = 1
    BY DEF Members
  <2>1. /\ home[locks[e][c][i]] = e
        /\ ConversationOf[msg[locks[e][c][i]]] = c
        /\ pc[locks[e][c][i]] \in InLock
        /\ pc[locks[e][c][i]] \in Holding => i = 1
        /\ locks[e][c][i] \in Deliveries
    BY DEF OrderInv, OrderTyped, Members
  <2>2. CASE locks[e][c][i] # d
    BY <1>0, <2>1, <2>2
  <2>3. CASE locks[e][c][i] = d
    <3>1. locks[e][c] = Lock(d) /\ \A j \in 1..Len(Lock(d)) : Lock(d)[j] = d => j = i
      BY <2>3, OnePlace
    <3>2. Lock(d) \in Seq(Deliveries)
      BY InItsLock
    <3>3. i = 1
      <4>1. CASE Head(Lock(d)) = d
        <5>1. 1 \in 1..Len(Lock(d)) /\ Lock(d)[1] = d
          BY <3>1, <3>2, <4>1
        <5> QED
          BY <3>1, <5>1
      <4>2. CASE pc[d] \in Holding
        BY <2>1, <2>3, <4>2
      <4> QED
        BY <4>1, <4>2
    <3> QED
      BY <1>0, <2>1, <2>3, <3>3 DEF InLock
  <2> QED
    BY <2>2, <2>3
<1>5. ASSUME NEW x \in Deliveries PROVE PlaceOK(x)'
  <2>1. CASE x # d
    BY <1>0, <2>1, PlaceStays, OrderStays
  <2>2. CASE x = d
    <3>1. PlaceOK(d) /\ Lock(d)' = Lock(d) /\ (Listed(d) => Listed(d)')
      BY OrderStays DEF OrderInv, Lock
    <3>2. d \notin turned /\ pc[d] # "idle"
      BY <3>1 DEF PlaceOK, InLock, Holding, Ended
    <3>3. p # "queued" /\ p \in InLock
      BY DEF InLock, Holding
    <3> QED
      BY <1>0, <2>2, <3>1, <3>2, <3>3 DEF PlaceOK
  <2> QED
    BY <2>1, <2>2
<1> QED
  BY <1>1, <1>2, <1>3, <1>4, <1>5, QueuesStay DEF OrderInv

(* A delivery leaves the queue, by the release of the lock or cancelled while
   it waits: the others keep their order. *)
LEMMA Leaves ==
    ASSUME Inv, OrderInv, NEW d \in Deliveries, NEW p, Goto(d, p), LeaveLock(d),
           UNCHANGED <<home, msg, phase, overflow, fifo, arrivals, turned, epoch>>,
           pc[d] \in InLock,
           p \notin InLock \cup Early \cup {"queued"}
    PROVE  OrderInv'
<1> DEFINE e0 == home[d]
           c0 == ConversationOf[msg[d]]
<1>0. /\ pc'[d] = p /\ \A x \in Deliveries \ {d} : pc'[x] = pc[x]
      /\ pc[d] # "idle"
  BY OthersStay DEF InLock, Holding
<1> PICK s \in Seq(Deliveries) : s = Lock(d)
  BY InItsLock
<1>1. PICK i0 \in 1..Len(s) : s[i0] = d /\ \A j \in 1..Len(s) : s[j] = d => j = i0
  BY InItsLock
<1>2. /\ e0 \in Processes /\ c0 \in Conversations
      /\ s = locks[e0][c0]
  BY InItsLock
<1>a. /\ Without(s, d) \in Seq(Deliveries)
      /\ Len(Without(s, d)) = Len(s) - 1
      /\ \A j \in 1..(Len(s) - 1) : Without(s, d)[j] = IF j < i0 THEN s[j] ELSE s[j + 1]
  BY <1>1, WithoutFacts
<1> PICK t \in Seq(Deliveries) : t = Without(s, d)
  BY <1>a
<1>3. /\ Len(t) = Len(s) - 1
      /\ \A j \in 1..(Len(s) - 1) : t[j] = IF j < i0 THEN s[j] ELSE s[j + 1]
  BY <1>a
<1>4. /\ locks' \in [Processes -> [Conversations -> Seq(Deliveries)]]
      /\ locks'[e0][c0] = t
      /\ \A e \in Processes, c \in Conversations :
            e # e0 \/ c # c0 => locks'[e][c] = locks[e][c]
  <2>1. SetLock(d, t)
    BY DEF LeaveLock
  <2> QED
    BY <1>0, <1>3, <2>1, SetLockFacts
<1>5. \A j \in 1..Len(t) : \E i \in 1..Len(s) :
         /\ t[j] = s[i] /\ i # i0
         /\ i = IF j < i0 THEN j ELSE j + 1
  <2> SUFFICES ASSUME NEW j \in 1..Len(t)
               PROVE  \E i \in 1..Len(s) :
                         t[j] = s[i] /\ i # i0 /\ i = IF j < i0 THEN j ELSE j + 1
    OBVIOUS
  <2>1. Len(s) \in Nat
    BY <1>2
  <2>2. (IF j < i0 THEN j ELSE j + 1) \in 1..Len(s) /\ (IF j < i0 THEN j ELSE j + 1) # i0
    BY <1>3, <2>1
  <2>3. t[j] = s[IF j < i0 THEN j ELSE j + 1]
    BY <1>3
  <2> QED
    BY <2>2, <2>3
<1>6. \A i \in 1..Len(s) : i # i0 => \E j \in 1..Len(t) : t[j] = s[i]
  <2> SUFFICES ASSUME NEW i \in 1..Len(s), i # i0
               PROVE  \E j \in 1..Len(t) : t[j] = s[i]
    OBVIOUS
  <2>1. Len(s) \in Nat
    BY <1>2
  <2>2. CASE i < i0
    <3>1. i \in 1..Len(t) /\ t[i] = s[i]
      BY <1>3, <2>1, <2>2
    <3> QED
      BY <3>1
  <2>3. CASE i > i0
    <3>1. i - 1 \in 1..Len(t) /\ ~(i - 1 < i0) /\ (i - 1) + 1 = i
      BY <1>3, <2>1, <2>3
    <3>2. t[i - 1] = s[i]
      BY <1>3, <3>1
    <3> QED
      BY <3>1, <3>2
  <2> QED
    BY <2>1, <2>2, <2>3
<1>7. Members(e0, c0) /\ Sorted(e0, c0) /\ Ahead(e0, c0)
  BY <1>2 DEF OrderInv
<1>8. \A x, y : Before(x, y) => Before(x, y)'
  BY OrderStays
<1>9. OrderTyped' /\ TurnedAfter'
  BY <1>4 DEF OrderInv, OrderTyped, TurnedAfter
<1>10. ArrivesOnce'
  <2>1. \A i \in 1..Len(arrivals) : arrivals[i] \in Deliveries
    BY DEF OrderInv, OrderTyped
  <2> QED
    BY <1>0, <2>1 DEF OrderInv, ArrivesOnce
<1>11. \A e \in Processes : FifoOK(e)'
  BY <1>8 DEF OrderInv, FifoOK
<1>12. ASSUME NEW e \in Processes, NEW c \in Conversations
       PROVE  Members(e, c)' /\ Sorted(e, c)' /\ Ahead(e, c)'
  <2>1. CASE e # e0 \/ c # c0
    <3>1. locks'[e][c] = locks[e][c]
      BY <1>4, <2>1
    <3>2. Sorted(e, c)' /\ Ahead(e, c)'
      BY <1>8, <3>1 DEF OrderInv, Sorted, Ahead
    <3>3. \A i \in 1..Len(locks[e][c]) : locks[e][c][i] \in Deliveries /\ locks[e][c][i] # d
      BY <2>1 DEF OrderInv, OrderTyped, Members
    <3>4. Members(e, c)'
      BY <1>0, <3>1, <3>3 DEF OrderInv, Members
    <3> QED
      BY <3>2, <3>4
  <2>2. CASE e = e0 /\ c = c0
    <3>0. locks'[e][c] = t /\ locks[e][c] = s
      BY <1>2, <1>4, <2>2
    <3>1. Members(e, c)'
      <4> SUFFICES ASSUME NEW j \in 1..Len(t)
                   PROVE  /\ home[t[j]] = e
                          /\ ConversationOf[msg[t[j]]] = c
                          /\ pc'[t[j]] \in InLock
                          /\ pc'[t[j]] \in Holding => j = 1
        BY <3>0 DEF Members
      <4>1. PICK i \in 1..Len(s) :
               t[j] = s[i] /\ i # i0 /\ i = IF j < i0 THEN j ELSE j + 1
        BY <1>5
      <4>2. s[i] # d /\ s[i] \in Deliveries
        BY <1>1, <1>2, <4>1
      <4>3. /\ home[s[i]] = e
            /\ ConversationOf[msg[s[i]]] = c
            /\ pc[s[i]] \in InLock
            /\ pc[s[i]] \in Holding => i = 1
        BY <1>7, <2>2, <3>0 DEF Members
      <4>4. i = 1 => j = 1
        BY <1>3, <4>1
      <4> QED
        BY <1>0, <4>1, <4>2, <4>3, <4>4
    <3>2. Sorted(e, c)'
      <4> SUFFICES ASSUME NEW j \in 1..Len(t), NEW k \in 1..Len(t), j < k
                   PROVE  Before(t[j], t[k])'
        BY <3>0 DEF Sorted
      <4>1. PICK i \in 1..Len(s) :
               t[j] = s[i] /\ i # i0 /\ i = IF j < i0 THEN j ELSE j + 1
        BY <1>5
      <4>2. PICK l \in 1..Len(s) :
               t[k] = s[l] /\ l # i0 /\ l = IF k < i0 THEN k ELSE k + 1
        BY <1>5
      <4>3. i < l
        BY <1>3, <4>1, <4>2
      <4>4. Before(s[i], s[l])
        BY <1>7, <2>2, <3>0, <4>3 DEF Sorted
      <4> QED
        BY <1>8, <4>1, <4>2, <4>4
    <3>3. Ahead(e, c)'
      <4> SUFFICES ASSUME NEW j \in 1..Len(t), NEW k \in 1..Len(fifo[e])
                   PROVE  Before(t[j], fifo[e][k])'
        BY <3>0 DEF Ahead
      <4>1. PICK i \in 1..Len(s) : t[j] = s[i]
        BY <1>5
      <4>2. Before(s[i], fifo[e][k])
        BY <1>7, <2>2, <3>0 DEF Ahead
      <4> QED
        BY <1>8, <4>1, <4>2
    <3> QED
      BY <3>1, <3>2, <3>3
  <2> QED
    BY <2>1, <2>2
<1>13. ASSUME NEW x \in Deliveries PROVE PlaceOK(x)'
  <2>0. PlaceOK(x) /\ (Listed(x) => Listed(x)') /\ (Shut(home[x]) => Shut(home[x])')
    BY OrderStays DEF OrderInv, Shut, Accepts
  <2>1. CASE x = d
    <3>1. d \notin turned
      BY <2>0, <2>1 DEF PlaceOK, InLock, Holding, Ended
    <3> QED
      BY <1>0, <2>0, <2>1, <3>1 DEF PlaceOK
  <2>2. CASE x # d
    <3>1. ASSUME pc[x] \in InLock
          PROVE  \E i \in 1..Len(Lock(x)') : Lock(x)'[i] = x
      <4>0. home[x] \in Processes /\ ConversationOf[msg[x]] \in Conversations
        BY <3>1, InItsLock
      <4>1. PICK i \in 1..Len(Lock(x)) : Lock(x)[i] = x
        BY <2>0, <3>1 DEF PlaceOK
      <4>2. CASE home[x] # e0 \/ ConversationOf[msg[x]] # c0
        <5>1. Lock(x)' = Lock(x)
          BY <1>4, <4>0, <4>2 DEF Lock
        <5> QED
          BY <4>1, <5>1
      <4>3. CASE home[x] = e0 /\ ConversationOf[msg[x]] = c0
        <5>1. Lock(x)' = t /\ Lock(x) = s
          BY <1>2, <1>4, <4>3 DEF Lock
        <5>2. i # i0
          BY <1>1, <2>2, <4>1, <5>1
        <5> QED
          BY <1>6, <4>1, <5>1, <5>2
      <4> QED
        BY <4>2, <4>3
    <3> QED
      BY <1>0, <2>0, <2>2, <3>1 DEF PlaceOK
  <2> QED
    BY <2>1, <2>2
<1> QED
  BY <1>9, <1>10, <1>11, <1>12, <1>13 DEF OrderInv

-----------------------------------------------------------------------------
(* The handoff. *)

(* Everyone in a queue was handed over. *)
LEMMA QueuedAreListed ==
    ASSUME Inv, OrderInv, NEW e \in Processes
    PROVE  /\ \A k \in 1..Len(fifo[e]) : fifo[e][k] \in Deliveries /\ Listed(fifo[e][k])
           /\ \A c \in Conversations : \A i \in 1..Len(locks[e][c]) :
                 locks[e][c][i] \in Deliveries /\ Listed(locks[e][c][i])
<1>1. ASSUME NEW k \in 1..Len(fifo[e]) PROVE fifo[e][k] \in Deliveries /\ Listed(fifo[e][k])
  <2>1. fifo[e][k] \in Deliveries /\ pc[fifo[e][k]] = "queued"
    BY DEF Inv, Typed, SendInv, Entries, At
  <2> QED
    BY <2>1 DEF OrderInv, PlaceOK
<1>2. ASSUME NEW c \in Conversations, NEW i \in 1..Len(locks[e][c])
      PROVE  locks[e][c][i] \in Deliveries /\ Listed(locks[e][c][i])
  <2>1. locks[e][c][i] \in Deliveries /\ pc[locks[e][c][i]] \in InLock
    BY DEF OrderInv, OrderTyped, Members
  <2> QED
    BY <2>1 DEF OrderInv, PlaceOK
<1> QED
  BY <1>1, <1>2

(* A delivery is handed over for the first time, and turned away when its
   process is shut. *)
LEMMA HandoffArrives ==
    ASSUME Inv, OrderInv, NEW d \in Deliveries, pc[d] = "refresh",
           NEW p, Goto(d, p), p \notin Early,
           arrivals' = Append(arrivals, d), UNCHANGED home,
           turned' = turned \/ turned' = turned \cup {d},
           Shut(home[d]) => d \in turned'
    PROVE  ArrivesOnce' /\ TurnedAfter'
<1> DEFINE n == Len(arrivals) + 1
<1>0. /\ Len(arrivals) \in Nat
      /\ Len(arrivals') = n
      /\ arrivals'[n] = d
      /\ \A i \in 1..Len(arrivals) : arrivals'[i] = arrivals[i]
      /\ \A i \in 1..Len(arrivals') : i \in 1..Len(arrivals) \/ i = n
  BY HandoffIsLast DEF OrderInv, OrderTyped
<1>1. \A i \in 1..Len(arrivals) :
         /\ arrivals[i] \in Deliveries
         /\ arrivals[i] # d
         /\ pc'[arrivals[i]] \notin Early
         /\ i # n
  <2> SUFFICES ASSUME NEW i \in 1..Len(arrivals)
               PROVE  /\ arrivals[i] \in Deliveries
                      /\ arrivals[i] # d
                      /\ pc'[arrivals[i]] \notin Early
                      /\ i # n
    OBVIOUS
  <2>1. arrivals[i] \in Deliveries /\ pc[arrivals[i]] \notin Early
    BY DEF OrderInv, OrderTyped, ArrivesOnce
  <2>2. arrivals[i] # d
    BY <2>1 DEF Early
  <2>3. i # n
    BY <1>0
  <2> QED
    BY <2>1, <2>2, <2>3, OthersStay
<1>2. pc'[d] \notin Early
  BY OthersStay
<1> HIDE DEF n
<1>3. ArrivesOnce'
  BY <1>0, <1>1, <1>2 DEF OrderInv, ArrivesOnce
<1>4. TurnedAfter'
  <2> SUFFICES ASSUME NEW i \in 1..Len(arrivals'), NEW j \in 1..Len(arrivals'), i < j,
                      arrivals'[i] \in turned', home[arrivals'[i]] = home[arrivals'[j]]
               PROVE  arrivals'[j] \in turned'
    BY DEF TurnedAfter
  <2>1. i \in 1..Len(arrivals)
    BY <1>0 DEF n
  <2>2. arrivals[i] \in turned
    BY <1>0, <1>1, <2>1
  <2>3. CASE j \in 1..Len(arrivals)
    BY <1>0, <2>1, <2>2, <2>3 DEF OrderInv, TurnedAfter
  <2>4. CASE j = n
    <3>1. Shut(home[arrivals[i]])
      BY <1>1, <2>1, <2>2 DEF OrderInv, PlaceOK
    <3>2. home[arrivals[i]] = home[d]
      BY <1>0, <2>1, <2>4
    <3> QED
      BY <1>0, <2>4, <3>1, <3>2
  <2> QED
    BY <1>0, <2>3, <2>4
<1> QED
  BY <1>3, <1>4

(* A handoff that is turned away. *)
LEMMA TurnedAway ==
    ASSUME Inv, OrderInv, NEW d \in Deliveries, pc[d] = "refresh", Goto(d, "release"),
           arrivals' = Append(arrivals, d), turned' = turned \cup {d},
           UNCHANGED <<home, msg, phase, fifo, locks, epoch>>,
           \/ ~Accepts(home[d]) /\ UNCHANGED overflow
           \/ Starting(home[d]) /\ overflow' = [overflow EXCEPT ![home[d]] = TRUE]
    PROVE  OrderInv'
<1>0. /\ pc'[d] = "release" /\ \A x \in Deliveries \ {d} : pc'[x] = pc[x]
      /\ home[d] \in Processes
  BY OthersStay DEF Inv, Typed
<1>1. /\ overflow' \in [Processes -> BOOLEAN]
      /\ \A e \in Processes : overflow[e] => overflow'[e]
      /\ \A e \in Processes : phase[e] = "running" => overflow'[e] = overflow[e]
      /\ overflow'[home[d]] \/ ~Accepts(home[d])
  BY <1>0 DEF OrderInv, OrderTyped, Starting
<1>2. ArrivesOnce' /\ TurnedAfter'
  <2>1. "release" \notin Early
    BY DEF Early
  <2> QED
    BY <2>1, HandoffArrives
<1>3. /\ \A x, y : Before(x, y) => Before(x, y)'
      /\ \A x : Listed(x) => Listed(x)'
      /\ arrivals' \in Seq(Deliveries)
  BY HandoffIsLast
<1>4. OrderTyped'
  BY <1>1, <1>3 DEF OrderInv, OrderTyped
<1>5. \A e \in Processes : FifoOK(e)'
  BY <1>1, <1>3 DEF OrderInv, FifoOK
<1>6. ASSUME NEW e \in Processes, NEW c \in Conversations
      PROVE  Members(e, c)' /\ Sorted(e, c)' /\ Ahead(e, c)'
  <2>1. Sorted(e, c)' /\ Ahead(e, c)'
    BY <1>3 DEF OrderInv, Sorted, Ahead
  <2>2. \A x \in Deliveries : pc[x] \in InLock => x # d
    BY DEF InLock, Holding
  <2> QED
    BY <1>0, <2>1, <2>2, MembersStay
<1>7. ASSUME NEW x \in Deliveries PROVE PlaceOK(x)'
  <2>0. PlaceOK(x) /\ Lock(x)' = Lock(x) /\ (Listed(x) => Listed(x)')
    BY <1>3 DEF OrderInv, Lock
  <2>1. CASE x = d
    <3>1. Shut(home[d])'
      BY <1>1 DEF Shut, Accepts
    <3> QED
      BY <1>0, <2>0, <2>1, <3>1 DEF PlaceOK, InLock, Holding
  <2>2. CASE x # d
    <3>1. ASSUME x \in turned PROVE Shut(home[x])'
      <4>1. Shut(home[x]) /\ home[x] \in Processes
        BY <2>0, <3>1 DEF PlaceOK, Ended, Inv, Typed
      <4> QED
        BY <1>1, <4>1 DEF Shut, Accepts
    <3> QED
      BY <1>0, <2>0, <2>2, <3>1 DEF PlaceOK
  <2> QED
    BY <2>1, <2>2
<1> QED
  BY <1>2, <1>4, <1>5, <1>6, <1>7 DEF OrderInv

(* A handoff into the startup FIFO goes to its end. *)
LEMMA Admitted ==
    ASSUME Inv, OrderInv, NEW d \in Deliveries, pc[d] = "refresh", Goto(d, "queued"),
           arrivals' = Append(arrivals, d), Starting(home[d]), ~overflow[home[d]],
           fifo' = [fifo EXCEPT ![home[d]] = Append(fifo[home[d]], d)],
           UNCHANGED <<home, msg, phase, overflow, locks, epoch, turned>>
    PROVE  OrderInv'
<1>0. /\ pc'[d] = "queued" /\ \A x \in Deliveries \ {d} : pc'[x] = pc[x]
      /\ home[d] \in Processes
  BY OthersStay DEF Inv, Typed
<1>1. ~Shut(home[d])
  BY DEF Shut, Starting, Accepts
<1>2. ArrivesOnce' /\ TurnedAfter'
  <2>1. "queued" \notin Early
    BY DEF Early
  <2> QED
    BY <1>1, <2>1, HandoffArrives
<1>3. /\ \A x, y : Before(x, y) => Before(x, y)'
      /\ \A x : Listed(x) => Listed(x)' /\ Before(x, d)'
      /\ Listed(d)'
      /\ arrivals' \in Seq(Deliveries)
  BY HandoffIsLast
<1>4. OrderTyped'
  BY <1>3 DEF OrderInv, OrderTyped
<1>5. ASSUME NEW e \in Processes, e # home[d] PROVE fifo'[e] = fifo[e]
  BY <1>5 DEF Inv, Typed
<1> PICK s \in Seq(Deliveries) : s = fifo[home[d]]
  BY <1>0 DEF Inv, Typed
<1>a. Append(s, d) \in Seq(Deliveries)
  OBVIOUS
<1> PICK t \in Seq(Deliveries) : t = Append(s, d)
  BY <1>a
<1>6. fifo'[home[d]] = t
  BY <1>0 DEF Inv, Typed
<1>7. /\ Len(s) \in Nat /\ Len(t) = Len(s) + 1 /\ t[Len(s) + 1] = d
      /\ \A k \in 1..Len(s) : t[k] = s[k]
  OBVIOUS
<1>8. \A k \in 1..Len(t) : k \in 1..Len(s) \/ k = Len(s) + 1
  BY <1>7
<1>9. ASSUME NEW e \in Processes PROVE FifoOK(e)'
  <2>0. FifoOK(e)
    BY DEF OrderInv
  <2>1. CASE e # home[d]
    BY <1>3, <1>5, <2>0, <2>1 DEF FifoOK
  <2>2. CASE e = home[d]
    <3>1. phase[e] # "running"
      BY <2>2 DEF Starting
    <3>2. \A i, j \in 1..Len(t) : i < j => i \in 1..Len(s)
      BY <1>7
    <3>3. ASSUME NEW i \in 1..Len(t), NEW j \in 1..Len(t), i < j PROVE Before(t[i], t[j])'
      <4>1. i \in 1..Len(s) /\ t[i] = s[i]
        BY <1>7, <3>2, <3>3
      <4>2. CASE j \in 1..Len(s)
        <5>1. Before(s[i], s[j]) /\ t[j] = s[j]
          BY <1>7, <2>0, <2>2, <3>3, <4>1, <4>2 DEF FifoOK
        <5> QED
          BY <1>3, <4>1, <5>1
      <4>3. CASE j = Len(s) + 1
        <5>1. Listed(s[i])
          BY <1>0, <4>1, QueuedAreListed
        <5> QED
          BY <1>3, <1>7, <4>1, <4>3, <5>1
      <4> QED
        BY <1>8, <4>2, <4>3
    <3> QED
      BY <1>6, <2>0, <2>2, <3>1, <3>3 DEF FifoOK
  <2> QED
    BY <2>1, <2>2
<1>10. ASSUME NEW e \in Processes, NEW c \in Conversations
       PROVE  Members(e, c)' /\ Sorted(e, c)' /\ Ahead(e, c)'
  <2>1. Sorted(e, c)'
    BY <1>3 DEF OrderInv, Sorted
  <2>2. Members(e, c)'
    <3>1. \A x \in Deliveries : pc[x] \in InLock => x # d
      BY DEF InLock, Holding
    <3> QED
      BY <1>0, <3>1, MembersStay
  <2>3. Ahead(e, c)'
    <3>0. Ahead(e, c)
      BY DEF OrderInv
    <3>1. CASE e # home[d]
      BY <1>3, <1>5, <3>0, <3>1 DEF Ahead
    <3>2. CASE e = home[d]
      <4> SUFFICES ASSUME NEW i \in 1..Len(locks[e][c]), NEW k \in 1..Len(t)
                   PROVE  Before(locks[e][c][i], t[k])'
        BY <1>6, <3>2 DEF Ahead
      <4>1. CASE k \in 1..Len(s)
        <5>1. Before(locks[e][c][i], s[k]) /\ t[k] = s[k]
          BY <1>7, <3>0, <3>2, <4>1 DEF Ahead
        <5> QED
          BY <1>3, <5>1
      <4>2. CASE k = Len(s) + 1
        <5>1. Listed(locks[e][c][i])
          BY QueuedAreListed
        <5> QED
          BY <1>3, <1>7, <4>2, <5>1
      <4> QED
        BY <1>8, <4>1, <4>2
    <3> QED
      BY <3>1, <3>2
  <2> QED
    BY <2>1, <2>2, <2>3
<1>11. ASSUME NEW x \in Deliveries PROVE PlaceOK(x)'
  <2>0. PlaceOK(x) /\ Lock(x)' = Lock(x) /\ (Shut(home[x]) => Shut(home[x])')
    BY DEF OrderInv, Lock, Shut, Accepts
  <2>1. CASE x = d
    <3>1. d \notin turned
      BY <2>0, <2>1 DEF PlaceOK, Ended
    <3>2. \E k \in 1..Len(t) : t[k] = d
      BY <1>7
    <3> QED
      BY <1>0, <1>3, <1>6, <2>0, <2>1, <3>1, <3>2 DEF PlaceOK, InLock, Holding
  <2>2. CASE x # d
    <3>1. ASSUME pc[x] = "queued"
          PROVE  \E k \in 1..Len(fifo'[home[x]]) : fifo'[home[x]][k] = x
      <4>0. PICK k \in 1..Len(fifo[home[x]]) : fifo[home[x]][k] = x
        BY <2>0, <3>1 DEF PlaceOK
      <4>1. CASE home[x] = home[d]
        <5>1. k \in 1..Len(s) /\ s[k] = x
          BY <4>0, <4>1
        <5>2. k \in 1..Len(t) /\ t[k] = x
          BY <1>7, <5>1
        <5> QED
          BY <1>6, <4>1, <5>2
      <4>2. CASE home[x] # home[d]
        <5>1. home[x] \in Processes
          BY <3>1 DEF Inv, Typed
        <5> QED
          BY <1>5, <4>0, <4>2, <5>1
      <4> QED
        BY <4>1, <4>2
    <3> QED
      BY <1>0, <1>3, <2>0, <2>2, <3>1 DEF PlaceOK
  <2> QED
    BY <2>1, <2>2
<1> QED
  BY <1>2, <1>4, <1>9, <1>10, <1>11 DEF OrderInv

-----------------------------------------------------------------------------
(* Joining the queue of a Conversation. *)

(* The end of the queue is the right place for a delivery that was handed over
   after everyone in it, and before everyone left in the FIFO. *)
LEMMA JoinedQueues ==
    ASSUME Inv, OrderInv, NEW d \in Deliveries, pc[d] \notin InLock \cup {"idle"},
           Goto(d, "lock"), JoinLock(d), UNCHANGED <<home, msg>>,
           \A x, y : Before(x, y) => Before(x, y)',
           \A i \in 1..Len(Lock(d)) : \A x : x = Lock(d)[i] => Before(x, d)',
           \A e \in Processes : \A k \in 1..Len(fifo'[e]) :
               \E j \in 1..Len(fifo[e]) : fifo'[e][k] = fifo[e][j],
           \A k \in 1..Len(fifo'[home[d]]) : \A y : y = fifo'[home[d]][k] => Before(d, y)'
    PROVE  /\ locks' \in [Processes -> [Conversations -> Seq(Deliveries)]]
           /\ \A e \in Processes, c \in Conversations :
                 Members(e, c)' /\ Sorted(e, c)' /\ Ahead(e, c)'
           /\ \A x \in Deliveries : pc'[x] \in InLock =>
                 \E i \in 1..Len(Lock(x)') : Lock(x)'[i] = x
<1> DEFINE e0 == home[d]
           c0 == ConversationOf[msg[d]]
<1>0. /\ pc'[d] = "lock" /\ \A x \in Deliveries \ {d} : pc'[x] = pc[x]
      /\ pc[d] # "idle"
      /\ e0 \in Processes /\ c0 \in Conversations
  BY OthersStay, InboundAssumption DEF Inv, Typed
<1>1. Lock(d) \in Seq(Deliveries) /\ Lock(d) = locks[e0][c0]
  BY <1>0 DEF Lock, OrderInv, OrderTyped
<1> PICK s \in Seq(Deliveries) : s = Lock(d)
  BY <1>1
<1>a. Append(s, d) \in Seq(Deliveries)
  OBVIOUS
<1> PICK t \in Seq(Deliveries) : t = Append(s, d)
  BY <1>a
<1>2. SetLock(d, t)
  BY DEF JoinLock
<1>3. /\ locks' \in [Processes -> [Conversations -> Seq(Deliveries)]]
      /\ locks'[e0][c0] = t
      /\ \A e \in Processes, c \in Conversations :
            e # e0 \/ c # c0 => locks'[e][c] = locks[e][c]
  BY <1>0, <1>2, SetLockFacts
<1>4. /\ Len(s) \in Nat /\ Len(t) = Len(s) + 1 /\ t[Len(s) + 1] = d
      /\ \A k \in 1..Len(s) : t[k] = s[k]
  OBVIOUS
<1>5. /\ \A k \in 1..Len(t) : k \in 1..Len(s) \/ k = Len(s) + 1
      /\ \A k \in 1..Len(s) : k \in 1..Len(t)
      /\ Len(s) + 1 \in 1..Len(t)
  BY <1>4
<1>6. ASSUME NEW e \in Processes, NEW c \in Conversations
      PROVE  Members(e, c)' /\ Sorted(e, c)' /\ Ahead(e, c)'
  <2>0. Members(e, c) /\ Sorted(e, c) /\ Ahead(e, c)
    BY DEF OrderInv
  <2>1. CASE e # e0 \/ c # c0
    <3>1. locks'[e][c] = locks[e][c]
      BY <1>3, <2>1
    <3>2. Sorted(e, c)'
      BY <2>0, <3>1 DEF Sorted
    <3>3. Members(e, c)'
      <4>1. \A x \in Deliveries : pc[x] \in InLock => x # d
        OBVIOUS
      <4> QED
        BY <1>0, <3>1, <4>1, MembersStay
    <3>4. Ahead(e, c)'
      BY <2>0, <3>1 DEF Ahead
    <3> QED
      BY <3>2, <3>3, <3>4
  <2>2. CASE e = e0 /\ c = c0
    <3>0. locks'[e][c] = t /\ locks[e][c] = s
      BY <1>1, <1>3, <2>2
    <3>1. Members(e, c)'
      <4> SUFFICES ASSUME NEW i \in 1..Len(t)
                   PROVE  /\ home[t[i]] = e
                          /\ ConversationOf[msg[t[i]]] = c
                          /\ pc'[t[i]] \in InLock
                          /\ pc'[t[i]] \in Holding => i = 1
        BY <3>0 DEF Members
      <4>1. CASE i \in 1..Len(s)
        <5>1. /\ home[s[i]] = e
              /\ ConversationOf[msg[s[i]]] = c
              /\ pc[s[i]] \in InLock
              /\ pc[s[i]] \in Holding => i = 1
          BY <2>0, <3>0, <4>1 DEF Members
        <5>2. s[i] \in Deliveries /\ s[i] # d /\ t[i] = s[i]
          BY <1>4, <4>1, <5>1
        <5> QED
          BY <1>0, <5>1, <5>2
      <4>2. CASE i = Len(s) + 1
        <5>1. t[i] = d
          BY <1>4, <4>2
        <5> QED
          BY <1>0, <2>2, <5>1 DEF InLock, Holding
      <4> QED
        BY <1>5, <4>1, <4>2
    <3>2. Sorted(e, c)'
      <4> SUFFICES ASSUME NEW i \in 1..Len(t), NEW j \in 1..Len(t), i < j
                   PROVE  Before(t[i], t[j])'
        BY <3>0 DEF Sorted
      <4>1. i \in 1..Len(s)
        BY <1>4
      <4>2. t[i] = s[i]
        BY <1>4, <4>1
      <4>3. CASE j \in 1..Len(s)
        <5>1. Before(s[i], s[j]) /\ t[j] = s[j]
          BY <1>4, <2>0, <3>0, <4>1, <4>3 DEF Sorted
        <5> QED
          BY <4>2, <5>1
      <4>4. CASE j = Len(s) + 1
        <5>1. Before(s[i], d)'
          BY <4>1
        <5> QED
          BY <1>4, <4>2, <4>4, <5>1
      <4> QED
        BY <1>5, <4>3, <4>4
    <3>3. Ahead(e, c)'
      <4> SUFFICES ASSUME NEW i \in 1..Len(t), NEW k \in 1..Len(fifo'[e])
                   PROVE  \A y : y = fifo'[e][k] => Before(t[i], y)'
        BY <3>0 DEF Ahead
      <4>1. CASE i \in 1..Len(s)
        <5>1. PICK j \in 1..Len(fifo[e]) : fifo'[e][k] = fifo[e][j]
          OBVIOUS
        <5>2. Before(s[i], fifo[e][j]) /\ t[i] = s[i]
          BY <1>4, <2>0, <3>0, <4>1 DEF Ahead
        <5>3. \A y : y = fifo[e][j] => Before(s[i], y)
          BY <5>2
        <5>4. \A y : y = fifo[e][j] => Before(s[i], y)'
          BY <5>3
        <5> QED
          BY <5>1, <5>2, <5>4
      <4>2. CASE i = Len(s) + 1
        BY <1>4, <2>2, <4>2
      <4> QED
        BY <1>5, <4>1, <4>2
    <3> QED
      BY <3>1, <3>2, <3>3
  <2> QED
    BY <2>1, <2>2
<1>7. ASSUME NEW x \in Deliveries, pc'[x] \in InLock
      PROVE  \E i \in 1..Len(Lock(x)') : Lock(x)'[i] = x
  <2>1. CASE x = d
    <3>1. Lock(x)' = t
      BY <1>3, <2>1 DEF Lock
    <3> QED
      BY <1>4, <1>5, <2>1, <3>1
  <2>2. CASE x # d
    <3>0. pc[x] \in InLock
      BY <1>0, <1>7, <2>2
    <3>1. PICK i \in 1..Len(Lock(x)) : Lock(x)[i] = x
      BY <3>0, InItsLock
    <3>2. home[x] \in Processes /\ ConversationOf[msg[x]] \in Conversations
      BY <3>0, InItsLock
    <3>3. CASE home[x] # e0 \/ ConversationOf[msg[x]] # c0
      <4>1. Lock(x)' = Lock(x)
        BY <1>3, <3>2, <3>3 DEF Lock
      <4> QED
        BY <3>1, <4>1
    <3>4. CASE home[x] = e0 /\ ConversationOf[msg[x]] = c0
      <4>1. Lock(x)' = t /\ Lock(x) = s
        BY <1>1, <1>3, <3>4 DEF Lock
      <4> QED
        BY <1>4, <1>5, <3>1, <4>1
    <3> QED
      BY <3>3, <3>4
  <2> QED
    BY <2>1, <2>2
<1> QED
  BY <1>3, <1>6, <1>7

(* A handoff to a live process joins the queue: the FIFO is empty. *)
LEMMA HandedOverLive ==
    ASSUME Inv, OrderInv, NEW d \in Deliveries, pc[d] = "refresh", Goto(d, "lock"),
           arrivals' = Append(arrivals, d), phase[home[d]] = "running", JoinLock(d),
           UNCHANGED <<home, msg, phase, overflow, fifo, epoch, turned>>
    PROVE  OrderInv'
<1>0. /\ pc'[d] = "lock" /\ \A x \in Deliveries \ {d} : pc'[x] = pc[x]
      /\ home[d] \in Processes
      /\ fifo[home[d]] = <<>> /\ ~overflow[home[d]]
  BY OthersStay DEF Inv, Typed, OrderInv, FifoOK
<1>1. ArrivesOnce' /\ TurnedAfter'
  <2>1. "lock" \notin Early /\ ~Shut(home[d])
    BY <1>0 DEF Early, Shut, Accepts
  <2> QED
    BY <2>1, HandoffArrives
<1>2. /\ \A x, y : Before(x, y) => Before(x, y)'
      /\ \A x : Listed(x) => Listed(x)' /\ Before(x, d)'
      /\ Listed(d)'
      /\ arrivals' \in Seq(Deliveries)
  BY HandoffIsLast
<1>3. /\ locks' \in [Processes -> [Conversations -> Seq(Deliveries)]]
      /\ \A e \in Processes, c \in Conversations :
            Members(e, c)' /\ Sorted(e, c)' /\ Ahead(e, c)'
      /\ \A x \in Deliveries : pc'[x] \in InLock =>
            \E i \in 1..Len(Lock(x)') : Lock(x)'[i] = x
  <2>1. pc[d] \notin InLock \cup {"idle"}
    BY DEF InLock, Holding
  <2>2. \A i \in 1..Len(Lock(d)) : Listed(Lock(d)[i])
    <3>1. ConversationOf[msg[d]] \in Conversations
      BY InboundAssumption DEF Inv, Typed
    <3> QED
      BY <1>0, <3>1, QueuedAreListed DEF Lock
  <2>3. \A i \in 1..Len(Lock(d)) : \A x : x = Lock(d)[i] => Before(x, d)'
    BY <1>2, <2>2
  <2>4. \A k \in 1..Len(fifo'[home[d]]) : \A y : y = fifo'[home[d]][k] => Before(d, y)'
    BY <1>0
  <2>5. \A e \in Processes : \A k \in 1..Len(fifo'[e]) :
           \E j \in 1..Len(fifo[e]) : fifo'[e][k] = fifo[e][j]
    OBVIOUS
  <2> QED
    BY <1>2, <2>1, <2>3, <2>4, <2>5, JoinedQueues
<1>4. OrderTyped'
  BY <1>2, <1>3 DEF OrderInv, OrderTyped
<1>5. \A e \in Processes : FifoOK(e)'
  BY <1>2 DEF OrderInv, FifoOK
<1>6. ASSUME NEW x \in Deliveries PROVE PlaceOK(x)'
  <2>0. PlaceOK(x) /\ (Shut(home[x]) => Shut(home[x])')
    BY DEF OrderInv, Shut, Accepts
  <2>1. CASE x = d
    <3>1. d \notin turned
      BY <2>0, <2>1 DEF PlaceOK, Ended
    <3> QED
      BY <1>0, <1>2, <1>3, <2>0, <2>1, <3>1 DEF PlaceOK
  <2>2. CASE x # d
    BY <1>0, <1>2, <1>3, <2>0, <2>2 DEF PlaceOK
  <2> QED
    BY <2>1, <2>2
<1> QED
  BY <1>1, <1>3, <1>4, <1>5, <1>6 DEF OrderInv

(* The handoff and the refresh that comes before it. *)
LEMMA DeliverOrder ==
    ASSUME Inv, OrderInv, NEW d \in Deliveries, Deliver(d)
    PROVE  OrderInv'
<1> USE DEF startupVars, leaseVars
<1>0. /\ pc[d] = "refresh"
      /\ UNCHANGED <<home, msg, epoch>>
  BY DEF Deliver, At
<1>1. CASE Goto(d, "release") /\ UNCHANGED <<startupVars, locks, arrivals, turned>>
  <2>1. UNCHANGED orderVars
    BY <1>0, <1>1 DEF orderVars
  <2>2. /\ pc[d] \notin InLock \cup {"queued", "idle"}
        /\ "release" \notin InLock \cup {"queued", "idle"}
        /\ "release" \notin Early
    BY <1>0 DEF InLock, Holding, Early
  <2> QED
    BY <1>1, <2>1, <2>2, OutMoves
<1>2. CASE Handoff(d)
  <2>0. arrivals' = Append(arrivals, d)
    BY <1>2 DEF Handoff
  <2>1. CASE /\ ~Accepts(home[d])
             /\ Goto(d, "release")
             /\ turned' = turned \cup {d}
             /\ UNCHANGED <<startupVars, locks>>
    BY <1>0, <2>0, <2>1, TurnedAway
  <2>2. CASE /\ Starting(home[d])
             /\ overflow' = [overflow EXCEPT ![home[d]] = TRUE]
             /\ Goto(d, "release")
             /\ turned' = turned \cup {d}
             /\ UNCHANGED <<fifo, phase, draining, locks>>
    BY <1>0, <2>0, <2>2, TurnedAway
  <2>3. CASE /\ Starting(home[d])
             /\ ~overflow[home[d]]
             /\ fifo' = [fifo EXCEPT ![home[d]] = Append(fifo[home[d]], d)]
             /\ Goto(d, "queued")
             /\ UNCHANGED <<overflow, turned, phase, draining, locks>>
    BY <1>0, <2>0, <2>3, Admitted
  <2>4. CASE /\ phase[home[d]] = "running"
             /\ JoinLock(d)
             /\ Goto(d, "lock")
             /\ UNCHANGED <<startupVars, turned>>
    BY <1>0, <2>0, <2>4, HandedOverLive
  <2> QED
    BY <1>2, <2>1, <2>2, <2>3, <2>4 DEF Handoff, Admit
<1> QED
  BY <1>1, <1>2 DEF Deliver

-----------------------------------------------------------------------------
(* The startup FIFO gives its head away. *)

LEMMA PopFacts ==
    ASSUME Inv, OrderInv, NEW e \in Processes, fifo[e] # <<>>,
           fifo' = [fifo EXCEPT ![e] = Tail(fifo[e])]
    PROVE  /\ Head(fifo[e]) \in Deliveries
           /\ pc[Head(fifo[e])] = "queued"
           /\ home[Head(fifo[e])] = e
           /\ Head(fifo[e]) = fifo[e][1] /\ 1 \in 1..Len(fifo[e])
           /\ \A f \in Processes : f # e => fifo'[f] = fifo[f]
           /\ \A k \in 1..Len(fifo'[e]) :
                 k \in Nat /\ k + 1 \in 1..Len(fifo[e]) /\ fifo'[e][k] = fifo[e][k + 1]
           /\ \A k \in 1..Len(fifo[e]) : k # 1 =>
                 k - 1 \in 1..Len(fifo'[e]) /\ fifo'[e][k - 1] = fifo[e][k]
<1>1. fifo[e] \in Seq(Deliveries)
  BY DEF Inv, Typed
<1>2. fifo'[e] = Tail(fifo[e]) /\ \A f \in Processes : f # e => fifo'[f] = fifo[f]
  BY DEF Inv, Typed
<1>3. /\ Len(fifo[e]) \in Nat /\ Len(fifo[e]) >= 1
      /\ Head(fifo[e]) = fifo[e][1]
      /\ Head(fifo[e]) \in Deliveries
      /\ Len(Tail(fifo[e])) = Len(fifo[e]) - 1
      /\ \A k \in 1..(Len(fifo[e]) - 1) : Tail(fifo[e])[k] = fifo[e][k + 1]
  BY <1>1
<1>4. 1 \in 1..Len(fifo[e])
  BY <1>3
<1>5. pc[Head(fifo[e])] = "queued" /\ home[Head(fifo[e])] = e
  BY <1>3, <1>4 DEF Inv, SendInv, Entries, At
<1>6. ASSUME NEW k \in 1..Len(fifo'[e])
      PROVE  k \in Nat /\ k + 1 \in 1..Len(fifo[e]) /\ fifo'[e][k] = fifo[e][k + 1]
  <2>1. k \in 1..(Len(fifo[e]) - 1)
    BY <1>2, <1>3, <1>6
  <2>2. k \in Nat /\ k + 1 \in 1..Len(fifo[e])
    BY <1>3, <2>1
  <2> QED
    BY <1>2, <1>3, <2>1, <2>2
<1>7. ASSUME NEW k \in 1..Len(fifo[e]), k # 1
      PROVE  k - 1 \in 1..Len(fifo'[e]) /\ fifo'[e][k - 1] = fifo[e][k]
  <2>1. k - 1 \in 1..(Len(fifo[e]) - 1) /\ (k - 1) + 1 = k
    BY <1>3, <1>7
  <2>2. Tail(fifo[e])[k - 1] = fifo[e][k]
    BY <1>3, <2>1
  <2> QED
    BY <1>2, <1>3, <2>1, <2>2
<1> QED
  BY <1>2, <1>3, <1>4, <1>5, <1>6, <1>7

(* What is left is in order, and behind the one that left. *)
LEMMA PoppedFifos ==
    ASSUME Inv, OrderInv, NEW e \in Processes, fifo[e] # <<>>,
           fifo' = [fifo EXCEPT ![e] = Tail(fifo[e])],
           UNCHANGED <<arrivals, home>>
    PROVE  /\ \A f \in Processes : \A k \in 1..Len(fifo'[f]) :
                 \E j \in 1..Len(fifo[f]) : fifo'[f][k] = fifo[f][j]
           /\ \A f \in Processes : \A i, j \in 1..Len(fifo'[f]) : i < j =>
                 Before(fifo'[f][i], fifo'[f][j])
           /\ \A k \in 1..Len(fifo'[e]) : Before(Head(fifo[e]), fifo'[e][k])
           /\ \A x \in Deliveries : pc[x] = "queued" /\ x # Head(fifo[e]) =>
                 \E k \in 1..Len(fifo'[home[x]]) : fifo'[home[x]][k] = x
<1>1. \A f \in Processes : \A i, j \in 1..Len(fifo[f]) : i < j => Before(fifo[f][i], fifo[f][j])
  BY DEF OrderInv, FifoOK
<1>2. ASSUME NEW k \in 1..Len(fifo'[e])
      PROVE  /\ k \in Nat
             /\ k + 1 \in 1..Len(fifo[e])
             /\ fifo'[e][k] = fifo[e][k + 1]
             /\ Before(Head(fifo[e]), fifo'[e][k])
  <2>0. /\ \A j \in 1..Len(fifo'[e]) :
              j \in Nat /\ j + 1 \in 1..Len(fifo[e]) /\ fifo'[e][j] = fifo[e][j + 1]
        /\ 1 \in 1..Len(fifo[e]) /\ Head(fifo[e]) = fifo[e][1]
    BY PopFacts
  <2>1. k \in Nat /\ k + 1 \in 1..Len(fifo[e]) /\ fifo'[e][k] = fifo[e][k + 1]
    BY <2>0
  <2>2. k \in 1..Len(fifo'[e]) => 1 < k + 1
    BY <2>1
  <2> QED
    BY <1>1, <2>0, <2>1, <2>2
<1>3. ASSUME NEW f \in Processes, NEW i \in 1..Len(fifo'[f]), NEW j \in 1..Len(fifo'[f]), i < j
      PROVE  Before(fifo'[f][i], fifo'[f][j])
  <2>1. CASE f # e
    BY <1>1, <1>3, <2>1, PopFacts
  <2>2. CASE f = e
    <3>1. i + 1 < j + 1
      BY <1>2, <1>3, <2>2
    <3> QED
      BY <1>1, <1>2, <2>2, <3>1
  <2> QED
    BY <2>1, <2>2
<1>4. ASSUME NEW f \in Processes, NEW k \in 1..Len(fifo'[f])
      PROVE  \E j \in 1..Len(fifo[f]) : fifo'[f][k] = fifo[f][j]
  BY <1>2, PopFacts
<1>5. ASSUME NEW x \in Deliveries, pc[x] = "queued", x # Head(fifo[e])
      PROVE  \E k \in 1..Len(fifo'[home[x]]) : fifo'[home[x]][k] = x
  <2>0. PICK k \in 1..Len(fifo[home[x]]) : fifo[home[x]][k] = x
    BY <1>5 DEF OrderInv, PlaceOK
  <2>1. home[x] \in Processes
    BY <1>5 DEF Inv, Typed
  <2>2. CASE home[x] # e
    BY <2>0, <2>1, <2>2, PopFacts
  <2>3. CASE home[x] = e
    <3>1. k # 1
      BY <1>5, <2>0, <2>3, PopFacts
    <3>2. k - 1 \in 1..Len(fifo'[e]) /\ fifo'[e][k - 1] = fifo[e][k]
      BY <2>0, <2>3, <3>1, PopFacts
    <3> QED
      BY <2>0, <2>3, <3>2
  <2> QED
    BY <2>2, <2>3
<1> QED
  BY <1>2, <1>3, <1>4, <1>5

(* The drain loop hands the head of the FIFO to its Conversation. *)
LEMMA Drained ==
    ASSUME Inv, OrderInv, NEW e \in Processes, Starting(e), fifo[e] # <<>>,
           phase' = [phase EXCEPT ![e] = "drain"],
           fifo' = [fifo EXCEPT ![e] = Tail(fifo[e])],
           JoinLock(Head(fifo[e])),
           Goto(Head(fifo[e]), "lock"),
           UNCHANGED <<home, msg, overflow, arrivals, turned, epoch>>
    PROVE  OrderInv'
<1> PICK d \in Deliveries : d = Head(fifo[e])
  BY PopFacts
<1>0. /\ pc[d] = "queued" /\ home[d] = e
      /\ pc'[d] = "lock" /\ \A x \in Deliveries \ {d} : pc'[x] = pc[x]
  <2>1. pc[d] = "queued" /\ home[d] = e
    BY PopFacts
  <2>2. Goto(d, "lock")
    OBVIOUS
  <2>3. pc'[d] = "lock" /\ \A x \in Deliveries \ {d} : pc'[x] = pc[x]
    BY <2>2, OthersStay
  <2> QED
    BY <2>1, <2>3
<1>1. /\ \A x, y : Before(x, y) => Before(x, y)'
      /\ \A x : Listed(x) => Listed(x)'
  BY OrderStays
<1>2. /\ phase' \in [Processes -> Phases] /\ phase'[e] = "drain"
      /\ \A f \in Processes \ {e} : phase'[f] = phase[f]
  BY DEF OrderInv, OrderTyped, Phases
<1>3. /\ locks' \in [Processes -> [Conversations -> Seq(Deliveries)]]
      /\ \A f \in Processes, c \in Conversations :
            Members(f, c)' /\ Sorted(f, c)' /\ Ahead(f, c)'
      /\ \A x \in Deliveries : pc'[x] \in InLock =>
            \E i \in 1..Len(Lock(x)') : Lock(x)'[i] = x
  <2>1. pc[d] \notin InLock \cup {"idle"}
    BY <1>0 DEF InLock, Holding
  <2>2. \A i \in 1..Len(Lock(d)) : \A x : x = Lock(d)[i] => Before(x, d)'
    <3>1. ConversationOf[msg[d]] \in Conversations
      BY InboundAssumption DEF Inv, Typed
    <3>2. \A i \in 1..Len(Lock(d)) : Before(Lock(d)[i], fifo[e][1])
      BY <1>0, <3>1, PopFacts DEF OrderInv, Ahead, Lock
    <3>3. d = fifo[e][1]
      BY PopFacts
    <3>4. \A i \in 1..Len(Lock(d)) : \A x : x = Lock(d)[i] => Before(x, d)
      BY <3>2, <3>3
    <3> QED
      BY <1>1, <3>4
  <2>3. \A k \in 1..Len(fifo'[home[d]]) : \A y : y = fifo'[home[d]][k] => Before(d, y)'
    <3>0. \A k \in 1..Len(fifo'[e]) : Before(Head(fifo[e]), fifo'[e][k])
      BY PoppedFifos
    <3>1. \A k \in 1..Len(fifo'[e]) : \A y : y = fifo'[e][k] => Before(d, y)
      BY <3>0
    <3> QED
      BY <1>0, <1>1, <3>1
  <2>4. \A f \in Processes : \A k \in 1..Len(fifo'[f]) :
           \E j \in 1..Len(fifo[f]) : fifo'[f][k] = fifo[f][j]
    BY PoppedFifos
  <2> QED
    BY <1>1, <2>1, <2>2, <2>3, <2>4, JoinedQueues
<1>4. OrderTyped' /\ TurnedAfter'
  BY <1>2, <1>3 DEF OrderInv, OrderTyped, TurnedAfter
<1>5. ArrivesOnce'
  <2>1. \A i \in 1..Len(arrivals) : arrivals[i] \in Deliveries
    BY DEF OrderInv, OrderTyped
  <2>2. "lock" \notin Early
    BY DEF Early
  <2> QED
    BY <1>0, <2>1, <2>2 DEF OrderInv, ArrivesOnce
<1>6. ASSUME NEW f \in Processes PROVE FifoOK(f)'
  <2>0. \A i, j \in 1..Len(fifo'[f]) : i < j => Before(fifo'[f][i], fifo'[f][j])
    BY PoppedFifos
  <2>1. \A i, j \in 1..Len(fifo'[f]) : i < j => \A x, y : x = fifo'[f][i] /\ y = fifo'[f][j]
           => Before(x, y)
    BY <2>0
  <2>2. FifoOK(f) /\ phase[e] # "off"
    BY DEF OrderInv, Starting
  <2>3. f # e => fifo'[f] = fifo[f]
    BY PopFacts
  <2> QED
    BY <1>1, <1>2, <2>1, <2>2, <2>3 DEF FifoOK
<1>7. ASSUME NEW x \in Deliveries PROVE PlaceOK(x)'
  <2>0. PlaceOK(x)
    BY DEF OrderInv
  <2>1. ASSUME x \in turned PROVE Shut(home[x])'
    <3>1. Shut(home[x]) /\ home[x] \in Processes
      BY <2>0, <2>1 DEF PlaceOK, Ended, Inv, Typed
    <3> QED
      BY <1>2, <3>1 DEF Shut, Accepts, Starting
  <2>2. ASSUME pc[x] # "idle" PROVE phase'[home[x]] # "off"
    <3>1. phase[home[x]] # "off" /\ home[x] \in Processes
      BY <2>0, <2>2 DEF PlaceOK, Inv, Typed
    <3> QED
      BY <1>2, <3>1
  <2>3. CASE x = d
    <3>1. d \notin turned /\ Listed(d)
      BY <1>0, <2>0, <2>3 DEF PlaceOK, Ended
    <3> QED
      BY <1>0, <1>1, <1>3, <2>2, <2>3, <3>1 DEF PlaceOK
  <2>4. CASE x # d
    <3>1. pc[x] = "queued" => \E k \in 1..Len(fifo'[home[x]]) : fifo'[home[x]][k] = x
      BY <2>4, PoppedFifos
    <3> QED
      BY <1>0, <1>1, <1>3, <2>0, <2>1, <2>2, <2>4, <3>1 DEF PlaceOK
  <2> QED
    BY <2>3, <2>4
<1> QED
  BY <1>3, <1>4, <1>5, <1>6, <1>7 DEF OrderInv

(* A rollback gives the head of the FIFO up. *)
LEMMA RollbackOrder ==
    ASSUME Inv, OrderInv, NEW e \in Processes, Rollback(e)
    PROVE  OrderInv'
<1> USE DEF leaseVars
<1>a. /\ fifo[e] # <<>>
      /\ phase[e] = "rollback"
      /\ fifo' = [fifo EXCEPT ![e] = Tail(fifo[e])]
      /\ Goto(Head(fifo[e]), "returned")
      /\ UNCHANGED <<home, msg, phase, overflow, locks, arrivals, turned, epoch>>
  BY DEF Rollback
<1> PICK d \in Deliveries : d = Head(fifo[e])
  BY <1>a, PopFacts
<1>0. /\ pc[d] = "queued" /\ home[d] = e
      /\ pc'[d] = "returned" /\ \A x \in Deliveries \ {d} : pc'[x] = pc[x]
  BY <1>a, PopFacts, OthersStay
<1>1. /\ \A x, y : Before(x, y) => Before(x, y)'
      /\ \A x : Listed(x) => Listed(x)'
  BY <1>a, OrderStays
<1>2. OrderTyped' /\ TurnedAfter'
  BY <1>a DEF OrderInv, OrderTyped, TurnedAfter
<1>3. ArrivesOnce'
  <2>1. \A i \in 1..Len(arrivals) : arrivals[i] \in Deliveries
    BY DEF OrderInv, OrderTyped
  <2>2. "returned" \notin Early
    BY DEF Early
  <2> QED
    BY <1>a, <1>0, <2>1, <2>2 DEF OrderInv, ArrivesOnce
<1>4. ASSUME NEW f \in Processes PROVE FifoOK(f)'
  <2>0. \A i, j \in 1..Len(fifo'[f]) : i < j => Before(fifo'[f][i], fifo'[f][j])
    BY <1>a, PoppedFifos
  <2>1. \A i, j \in 1..Len(fifo'[f]) : i < j => \A x, y : x = fifo'[f][i] /\ y = fifo'[f][j]
           => Before(x, y)
    BY <2>0
  <2>2. FifoOK(f)
    BY DEF OrderInv
  <2>3. f # e => fifo'[f] = fifo[f]
    BY <1>a, PopFacts
  <2> QED
    BY <1>a, <1>1, <2>1, <2>2, <2>3 DEF FifoOK
<1>5. ASSUME NEW f \in Processes, NEW c \in Conversations
      PROVE  Members(f, c)' /\ Sorted(f, c)' /\ Ahead(f, c)'
  <2>0. Sorted(f, c) /\ Ahead(f, c)
    BY DEF OrderInv
  <2>1. Members(f, c)'
    <3>1. \A x \in Deliveries : pc[x] \in InLock => x # d
      BY <1>0 DEF InLock, Holding
    <3> QED
      BY <1>a, <1>0, <3>1, MembersStay
  <2>2. Sorted(f, c)'
    BY <1>a, <1>1, <2>0 DEF Sorted
  <2>3. Ahead(f, c)'
    <3> SUFFICES ASSUME NEW i \in 1..Len(locks[f][c]), NEW k \in 1..Len(fifo'[f])
                 PROVE  \A x, y : x = locks[f][c][i] /\ y = fifo'[f][k] => Before(x, y)'
      BY <1>a DEF Ahead
    <3>1. PICK j \in 1..Len(fifo[f]) : fifo'[f][k] = fifo[f][j]
      BY <1>a, PoppedFifos
    <3>2. Before(locks[f][c][i], fifo[f][j])
      BY <2>0 DEF Ahead
    <3>3. \A x, y : x = locks[f][c][i] /\ y = fifo'[f][k] => Before(x, y)
      BY <3>1, <3>2
    <3> QED
      BY <1>1, <3>3
  <2> QED
    BY <2>1, <2>2, <2>3
<1>6. ASSUME NEW x \in Deliveries PROVE PlaceOK(x)'
  <2>0. PlaceOK(x) /\ Lock(x)' = Lock(x) /\ (Shut(home[x]) => Shut(home[x])')
    BY <1>a DEF OrderInv, Lock, Shut, Accepts
  <2>1. CASE x = d
    BY <1>a, <1>0, <2>0, <2>1 DEF PlaceOK, InLock, Holding, Ended
  <2>2. CASE x # d
    <3>1. pc[x] = "queued" => \E k \in 1..Len(fifo'[home[x]]) : fifo'[home[x]][k] = x
      BY <1>a, <2>2, PoppedFifos
    <3> QED
      BY <1>a, <1>0, <1>1, <2>0, <2>2, <3>1 DEF PlaceOK
  <2> QED
    BY <2>1, <2>2
<1> QED
  BY <1>2, <1>3, <1>4, <1>5, <1>6 DEF OrderInv

-----------------------------------------------------------------------------
(* The steps of the specification. *)

(* A crash empties the queues of one process and ends its deliveries. *)
LEMMA CrashOrder ==
    ASSUME Inv, OrderInv, NEW e \in Processes, Crash(e)
    PROVE  OrderInv'
<1> USE DEF leaseVars, historyVars
<1>0. /\ UNCHANGED <<home, msg, overflow, arrivals, turned, epoch>>
      /\ phase[e] # "off" /\ phase' = [phase EXCEPT ![e] = "closed"]
      /\ fifo' = [fifo EXCEPT ![e] = <<>>]
      /\ locks' = [locks EXCEPT ![e] = [c \in Conversations |-> <<>>]]
      /\ \A x \in Deliveries :
            pc'[x] = IF home[x] = e /\ pc[x] \notin Ended THEN "dead" ELSE pc[x]
  BY DEF Crash
<1>1. /\ \A x, y : Before(x, y) => Before(x, y)'
      /\ \A x : Listed(x) => Listed(x)'
  BY <1>0, OrderStays
<1>2. /\ phase' \in [Processes -> Phases] /\ phase'[e] = "closed"
      /\ \A f \in Processes \ {e} : phase'[f] = phase[f] /\ fifo'[f] = fifo[f]
      /\ fifo'[e] = <<>>
  BY <1>0 DEF OrderInv, OrderTyped, Inv, Typed, Phases
<1>3. [c \in Conversations |-> <<>>] \in [Conversations -> Seq(Deliveries)]
  <2>1. <<>> \in Seq(Deliveries)
    OBVIOUS
  <2> QED
    BY <2>1
<1>4. /\ locks' \in [Processes -> [Conversations -> Seq(Deliveries)]]
      /\ \A f \in Processes \ {e}, c \in Conversations : locks'[f][c] = locks[f][c]
      /\ \A c \in Conversations : locks'[e][c] = <<>>
  BY <1>0, <1>3 DEF OrderInv, OrderTyped
<1>5. OrderTyped' /\ TurnedAfter'
  BY <1>0, <1>2, <1>4 DEF OrderInv, OrderTyped, TurnedAfter
<1>6. ArrivesOnce'
  <2>1. \A i \in 1..Len(arrivals) : arrivals[i] \in Deliveries
    BY DEF OrderInv, OrderTyped
  <2>2. "dead" \notin Early
    BY DEF Early
  <2> QED
    BY <1>0, <2>1, <2>2 DEF OrderInv, ArrivesOnce
<1>7. ASSUME NEW f \in Processes PROVE FifoOK(f)'
  <2>0. FifoOK(f)
    BY DEF OrderInv
  <2>1. CASE f = e
    <3>1. 1..Len(fifo'[f]) = {}
      BY <1>2, <2>1
    <3>2. e <= epoch
      BY <1>0, <2>0, <2>1 DEF FifoOK
    <3> QED
      BY <1>0, <1>2, <2>1, <3>1, <3>2 DEF FifoOK
  <2>2. CASE f # e
    <3>1. fifo'[f] = fifo[f] /\ phase'[f] = phase[f]
      BY <1>2, <2>2
    <3> QED
      BY <1>0, <1>1, <2>0, <3>1 DEF FifoOK
  <2> QED
    BY <2>1, <2>2
<1>8. ASSUME NEW f \in Processes, NEW c \in Conversations
      PROVE  Members(f, c)' /\ Sorted(f, c)' /\ Ahead(f, c)'
  <2>1. CASE f = e
    <3>1. 1..Len(locks'[f][c]) = {}
      BY <1>4, <2>1
    <3> QED
      BY <3>1 DEF Members, Sorted, Ahead
  <2>2. CASE f # e
    <3>1. locks'[f][c] = locks[f][c] /\ fifo'[f] = fifo[f]
      BY <1>2, <1>4, <2>2
    <3>2. Sorted(f, c)' /\ Ahead(f, c)'
      BY <1>1, <3>1 DEF OrderInv, Sorted, Ahead
    <3>3. Members(f, c)'
      BY <1>0, <2>2, <3>1, MembersStay
    <3> QED
      BY <3>2, <3>3
  <2> QED
    BY <2>1, <2>2
<1>9. ASSUME NEW x \in Deliveries PROVE PlaceOK(x)'
  <2>0. PlaceOK(x)
    BY DEF OrderInv
  <2>1. CASE home[x] = e
    <3>1. pc'[x] \in Ended
      BY <1>0, <2>1 DEF Ended
    <3>2. Shut(home[x])'
      BY <1>0, <1>2, <2>1 DEF Shut, Accepts
    <3>3. pc'[x] \notin InLock \cup {"queued"}
      BY <3>1 DEF Ended, InLock, Holding
    <3> QED
      BY <1>0, <1>2, <2>1, <3>1, <3>2, <3>3 DEF PlaceOK
  <2>2. CASE home[x] # e /\ pc[x] = "idle"
    <3>1. x \notin turned /\ pc'[x] = "idle"
      BY <1>0, <2>0, <2>2 DEF PlaceOK, Ended
    <3> QED
      BY <1>0, <3>1 DEF PlaceOK, InLock, Holding
  <2>3. CASE home[x] # e /\ pc[x] # "idle"
    <3>1. /\ home[x] \in Processes \ {e} /\ ConversationOf[msg[x]] \in Conversations
          /\ pc'[x] = pc[x]
      BY <1>0, <2>3, InboundAssumption DEF Inv, Typed
    <3>2. Lock(x)' = Lock(x)
      BY <1>0, <1>4, <3>1 DEF Lock
    <3>3. fifo'[home[x]] = fifo[home[x]] /\ phase'[home[x]] = phase[home[x]]
      BY <1>2, <3>1
    <3>4. Shut(home[x]) => Shut(home[x])'
      BY <1>0, <3>3 DEF Shut, Accepts
    <3> QED
      BY <1>0, <1>1, <2>0, <3>1, <3>2, <3>3, <3>4 DEF PlaceOK
  <2> QED
    BY <2>1, <2>2, <2>3
<1> QED
  BY <1>5, <1>6, <1>7, <1>8, <1>9 DEF OrderInv

(* A process starts: it is the next one, so nothing was delivered to it. *)
LEMMA StartOrder ==
    ASSUME Inv, OrderInv, StartProcess
    PROVE  OrderInv'
<1> USE DEF deliveryVars, historyVars
<1>0. /\ UNCHANGED <<pc, home, msg, overflow, fifo, locks, arrivals, turned>>
      /\ epoch' = epoch + 1 /\ phase' = [phase EXCEPT ![epoch + 1] = "boot"]
      /\ epoch \in Nat /\ phase \in [Processes -> Phases]
  BY DEF StartProcess, OrderInv, OrderTyped
<1>1. phase' \in [Processes -> Phases] /\ epoch' \in Nat
  <2>1. "boot" \in Phases
    BY DEF Phases
  <2>2. epoch' \in Nat
    BY <1>0
  <2>3. phase' \in [Processes -> Phases]
    BY <1>0, <2>1
  <2> QED
    BY <2>2, <2>3
<1>2. ASSUME NEW e \in Processes
      PROVE  /\ phase[e] # "off" => phase'[e] # "off" /\ (Shut(e) => Shut(e)')
             /\ phase'[e] # "off" => e <= epoch'
             /\ phase'[e] = "running" => fifo[e] = <<>> /\ ~overflow[e]
  <2>0. FifoOK(e) /\ e \in Int
    BY DEF OrderInv, Processes
  <2>1. CASE e = epoch + 1
    <3>1. phase[e] = "off"
      BY <1>0, <2>0, <2>1 DEF FifoOK
    <3> QED
      BY <1>0, <2>0, <2>1, <3>1
  <2>2. CASE e # epoch + 1
    <3>1. phase'[e] = phase[e]
      BY <1>0, <2>2
    <3>2. phase[e] # "off" => e <= epoch + 1
      BY <1>0, <2>0 DEF FifoOK
    <3>3. Shut(e) => Shut(e)'
      BY <1>0, <3>1 DEF Shut, Accepts
    <3> QED
      BY <1>0, <2>0, <3>1, <3>2, <3>3 DEF FifoOK
  <2> QED
    BY <2>1, <2>2
<1> QED
  BY <1>0, <1>1, <1>2, PhaseMoves

(* A process goes from one phase to the next. *)
LEMMA NextPhase ==
    ASSUME Inv, OrderInv, NEW e \in Processes, phase[e] # "off",
           NEW q \in Phases \ {"off", "boot", "drain"}, phase' = [phase EXCEPT ![e] = q],
           q = "running" => Starting(e) /\ fifo[e] = <<>> /\ ~overflow[e],
           UNCHANGED <<pc, home, msg, overflow, fifo, locks, arrivals, turned, epoch>>
    PROVE  OrderInv'
<1>0. phase \in [Processes -> Phases] /\ epoch' \in Nat /\ q \in Phases
  BY DEF OrderInv, OrderTyped
<1>1. phase' \in [Processes -> Phases]
  BY <1>0
<1>2. ASSUME NEW f \in Processes
      PROVE  /\ phase[f] # "off" => phase'[f] # "off" /\ (Shut(f) => Shut(f)')
             /\ phase'[f] # "off" => f <= epoch'
             /\ phase'[f] = "running" => fifo[f] = <<>> /\ ~overflow[f]
  <2>0. FifoOK(f)
    BY DEF OrderInv
  <2>1. CASE f = e
    <3>1. phase'[f] = q
      BY <1>0, <2>1
    <3>2. Shut(f) => Shut(f)'
      BY <2>1, <3>1 DEF Shut, Accepts, Starting
    <3> QED
      BY <2>0, <2>1, <3>1, <3>2 DEF FifoOK
  <2>2. CASE f # e
    <3>1. phase'[f] = phase[f]
      BY <1>0, <2>2
    <3>2. Shut(f) => Shut(f)'
      BY <3>1 DEF Shut, Accepts
    <3> QED
      BY <2>0, <3>1, <3>2 DEF FifoOK
  <2> QED
    BY <2>1, <2>2
<1> QED
  BY <1>0, <1>1, <1>2, PhaseMoves

(* The life of a process keeps the order. *)
LEMMA LifecycleOrder ==
    ASSUME Inv, OrderInv, NEW e \in Processes, LifecycleStep(e)
    PROVE  OrderInv'
<1> USE DEF leaseVars, deliveryVars, historyVars
<1>1. CASE StartupFails(e)
  <2>1. "rollback" \in Phases \ {"off", "boot", "drain"}
    BY DEF Phases
  <2> QED
    BY <1>1, <2>1, NextPhase DEF StartupFails
<1>2. CASE Stop(e)
  <2>1. "stopping" \in Phases \ {"off", "boot", "drain"}
    BY DEF Phases
  <2> QED
    BY <1>2, <2>1, NextPhase DEF Stop
<1>3. CASE Close(e)
  <2>1. "closed" \in Phases \ {"off", "boot", "drain"} /\ phase[e] # "off"
    BY <1>3 DEF Phases, Close
  <2> QED
    BY <1>3, <2>1, NextPhase DEF Close
<1>4. CASE DrainLoop(e)
  <2>0. /\ phase[e] # "off" /\ Starting(e)
        /\ UNCHANGED <<home, msg, overflow, arrivals, turned, epoch>>
    BY <1>4 DEF DrainLoop, Starting
  <2>1. CASE phase' = [phase EXCEPT ![e] = "rollback"] /\ UNCHANGED <<fifo, draining, locks, pc>>
    <3>1. "rollback" \in Phases \ {"off", "boot", "drain"}
      BY DEF Phases
    <3> QED
      BY <2>0, <2>1, <3>1, NextPhase
  <2>2. CASE /\ fifo[e] # <<>>
             /\ phase' = [phase EXCEPT ![e] = "drain"]
             /\ fifo' = [fifo EXCEPT ![e] = Tail(fifo[e])]
             /\ JoinLock(Head(fifo[e]))
             /\ Goto(Head(fifo[e]), "lock")
    BY <2>0, <2>2, Drained
  <2>3. CASE /\ ~overflow[e] /\ fifo[e] = <<>>
             /\ phase' = [phase EXCEPT ![e] = "running"]
             /\ UNCHANGED <<fifo, locks, pc>>
    <3>1. "running" \in Phases \ {"off", "boot", "drain"}
      BY DEF Phases
    <3> QED
      BY <2>0, <2>3, <3>1, NextPhase
  <2> QED
    BY <1>4, <2>1, <2>2, <2>3 DEF DrainLoop
<1> QED
  BY <1>1, <1>2, <1>3, <1>4, RollbackOrder, CrashOrder DEF LifecycleStep

(* A failure leaves the queue of the Conversation. *)
LEMMA FailureLeaves ==
    ASSUME Inv, OrderInv, NEW d \in Deliveries, NEW err,
           FailBefore(d, err) \/ FailAfter(d, err),
           pc[d] \in InLock,
           UNCHANGED <<home, msg, phase, overflow, fifo, arrivals, turned, epoch>>
    PROVE  OrderInv'
<1>1. PICK p \in {"complete", "release", "notify", "raised"} : Goto(d, p)
  BY DEF FailBefore, FailAfter
<1>2. LeaveLock(d)
  BY DEF FailBefore, FailAfter
<1>3. p \notin InLock \cup Early \cup {"queued"}
  BY DEF InLock, Holding, Early
<1> QED
  BY <1>1, <1>2, <1>3, Leaves

(* The steps of a delivery in the queue of its Conversation. *)
LEMMA QueueStepOrder ==
    ASSUME Inv, OrderInv, NEW d \in Deliveries,
           \/ AwaitConversation(d) \/ PrepareInput(d) \/ EnterFence(d)
           \/ SendInput(d) \/ ReceiveAnswer(d)
    PROVE  OrderInv'
<1> USE DEF leaseVars, startupVars, historyVars
<1>0. /\ pc[d] \in InLock
      /\ UNCHANGED <<home, msg, phase, overflow, fifo, arrivals, turned, epoch>>
  BY DEF AwaitConversation, PrepareInput, EnterFence, SendInput, ReceiveAnswer, At,
         InLock, Holding
<1>1. CASE \E err : FailBefore(d, err) \/ FailAfter(d, err)
  BY <1>0, <1>1, FailureLeaves
<1>2. CASE Goto(d, "complete") /\ LeaveLock(d)
  <2>1. "complete" \notin InLock \cup Early \cup {"queued"}
    BY DEF InLock, Holding, Early
  <2> QED
    BY <1>0, <1>2, <2>1, Leaves
<1>3. ASSUME NEW p \in Holding, Goto(d, p), UNCHANGED locks,
             pc[d] \in Holding \/ Head(Lock(d)) = d
      PROVE  OrderInv'
  BY <1>0, <1>3, InMoves DEF orderVars
<1>4. CASE AwaitConversation(d)
  <2>1. CASE Goto(d, "prepare") /\ UNCHANGED locks /\ Head(Lock(d)) = d
    BY <1>3, <2>1 DEF Holding
  <2> QED
    BY <1>1, <1>4, <2>1 DEF AwaitConversation
<1>5. CASE PrepareInput(d)
  <2>0. pc[d] \in Holding
    BY <1>5 DEF PrepareInput, At, Holding
  <2>1. CASE Goto(d, "mark") /\ UNCHANGED locks
    BY <1>3, <2>0, <2>1 DEF Holding
  <2> QED
    BY <1>1, <1>2, <1>5, <2>1 DEF PrepareInput
<1>6. CASE EnterFence(d)
  <2>0. pc[d] \in Holding
    BY <1>6 DEF EnterFence, At, Holding
  <2>1. CASE Goto(d, "send") /\ UNCHANGED locks
    BY <1>3, <2>0, <2>1 DEF Holding
  <2> QED
    BY <1>1, <1>6, <2>1 DEF EnterFence
<1>7. CASE SendInput(d)
  <2>0. pc[d] \in Holding
    BY <1>7 DEF SendInput, At, Holding
  <2>1. CASE Goto(d, "sent") /\ UNCHANGED locks
    BY <1>3, <2>0, <2>1 DEF Holding
  <2> QED
    BY <1>1, <1>7, <2>1 DEF SendInput
<1>8. CASE ReceiveAnswer(d)
  BY <1>1, <1>2, <1>8 DEF ReceiveAnswer
<1> QED
  BY <1>4, <1>5, <1>6, <1>7, <1>8

(* The steps of a delivery before its handoff and after its Conversation. *)
LEMMA OtherStepOrder ==
    ASSUME Inv, OrderInv, NEW d \in Deliveries,
           Claim(d) \/ PrepareMedia(d) \/ Release(d) \/ Complete(d) \/ PresentFailure(d)
    PROVE  OrderInv'
<1> USE DEF leaseVars, startupVars, historyVars
<1>0. /\ pc[d] \in {"claim", "admitted", "release", "complete", "notify"}
      /\ UNCHANGED orderVars
  BY DEF Claim, PrepareMedia, Release, Complete, PresentFailure, At, orderVars
<1>1. PICK p \in {"admitted", "refresh", "release", "notify", "returned", "raised"} :
         /\ Goto(d, p)
         /\ p \in {"admitted", "refresh"} => pc[d] \in {"claim", "admitted"}
         /\ pc[d] = "release" => p = "raised"
  <2>1. CASE Claim(d)
    BY <2>1 DEF Claim, At
  <2>2. CASE PrepareMedia(d)
    BY <2>2 DEF PrepareMedia, At
  <2>3. CASE Release(d)
    BY <2>3 DEF Release, At
  <2>4. CASE Complete(d)
    BY <2>4 DEF Complete, At
  <2>5. CASE PresentFailure(d)
    BY <2>5 DEF PresentFailure, At
  <2> QED
    BY <2>1, <2>2, <2>3, <2>4, <2>5
<1>2. /\ pc[d] \notin InLock \cup {"queued", "idle"}
      /\ p \notin InLock \cup {"queued", "idle"}
      /\ pc[d] \notin Early => p \notin Early
      /\ pc[d] \in Ended \cup {"release"} => p \in Ended \cup {"release"}
  BY <1>0, <1>1 DEF InLock, Holding, Early, Ended
<1> QED
  BY <1>0, <1>1, <1>2, OutMoves

-----------------------------------------------------------------------------
(* Nothing was handed over. *)
LEMMA InitOrder == Init => OrderInv
<1> SUFFICES ASSUME Init PROVE OrderInv
  OBVIOUS
<1>0. /\ phase = [e \in Processes |-> "off"]
      /\ overflow = [e \in Processes |-> FALSE]
      /\ fifo = [e \in Processes |-> <<>>]
      /\ locks = [e \in Processes |-> [c \in Conversations |-> <<>>]]
      /\ pc = [d \in Deliveries |-> "idle"]
      /\ arrivals = <<>> /\ turned = {} /\ epoch = 0
  BY DEF Init
<1>1. <<>> \in Seq(Deliveries) /\ 1..Len(<<>>) = {}
  OBVIOUS
<1>2. OrderTyped
  BY <1>0, <1>1 DEF OrderTyped, Phases
<1>3. ArrivesOnce /\ TurnedAfter
  BY <1>0, <1>1 DEF ArrivesOnce, TurnedAfter
<1>4. \A e \in Processes : FifoOK(e)
  BY <1>0, <1>1 DEF FifoOK
<1>5. ASSUME NEW e \in Processes, NEW c \in Conversations
      PROVE  Members(e, c) /\ Sorted(e, c) /\ Ahead(e, c)
  <2>1. 1..Len(locks[e][c]) = {}
    BY <1>0, <1>1
  <2> QED
    BY <2>1 DEF Members, Sorted, Ahead
<1>6. ASSUME NEW d \in Deliveries PROVE PlaceOK(d)
  <2>1. pc[d] = "idle" /\ d \notin turned
    BY <1>0
  <2> QED
    BY <2>1 DEF PlaceOK, InLock, Holding
<1> QED
  BY <1>2, <1>3, <1>4, <1>5, <1>6 DEF OrderInv

(* Every step keeps the order. *)
LEMMA NextOrder == Inv /\ OrderInv /\ [Next]_vars => OrderInv'
<1> SUFFICES ASSUME Inv, OrderInv, [Next]_vars PROVE OrderInv'
  OBVIOUS
<1>1. CASE StartProcess
  BY <1>1, StartOrder
<1>2. ASSUME UNCHANGED <<pc, home, msg, phase, overflow, fifo, locks, arrivals, turned, epoch>>
      PROVE  OrderInv'
  <2>1. phase' \in [Processes -> Phases] /\ epoch' \in Nat
    BY <1>2 DEF OrderInv, OrderTyped
  <2>2. ASSUME NEW e \in Processes
        PROVE  /\ phase[e] # "off" => phase'[e] # "off" /\ (Shut(e) => Shut(e)')
               /\ phase'[e] # "off" => e <= epoch'
               /\ phase'[e] = "running" => fifo[e] = <<>> /\ ~overflow[e]
    <3>1. FifoOK(e)
      BY DEF OrderInv
    <3>2. Shut(e) => Shut(e)'
      BY <1>2 DEF Shut, Accepts
    <3> QED
      BY <1>2, <3>1, <3>2 DEF FifoOK
  <2> QED
    BY <1>2, <2>1, <2>2, PhaseMoves
<1>3. CASE LeaseExpires \/ (\E m \in Messages : ApplicationDecides(m)) \/ UNCHANGED vars
  BY <1>2, <1>3 DEF LeaseExpires, ApplicationDecides, vars, leaseVars, startupVars,
                    deliveryVars, historyVars
<1>4. ASSUME NEW e \in Processes, LifecycleStep(e) PROVE OrderInv'
  BY <1>4, LifecycleOrder
<1>5. ASSUME NEW d \in Deliveries, NEW m \in Messages, NEW e \in Processes, Present(d, m, e)
      PROVE  OrderInv'
  BY <1>5, PresentOrder
<1>6. ASSUME NEW d \in Deliveries, DeliveryStep(d) PROVE OrderInv'
  BY <1>6, DeliverOrder, QueueStepOrder, OtherStepOrder DEF DeliveryStep
<1> QED
  BY <1>1, <1>3, <1>4, <1>5, <1>6 DEF Next

(* Why the order holds: the sender is the head of its queue, whoever is still
   behind it came later, and so did the startup FIFO. *)
LEMMA OrderImplies == ASSUME Inv, OrderInv PROVE InOrder
<1> SUFFICES ASSUME NEW i \in 1..Len(arrivals), NEW j \in 1..Len(arrivals), i < j,
                    home[arrivals[i]] = home[arrivals[j]],
                    ConversationOf[msg[arrivals[i]]] = ConversationOf[msg[arrivals[j]]],
                    pc[arrivals[j]] = "sent"
             PROVE  pc[arrivals[i]] \notin BeforeSend /\ arrivals[i] \notin turned
  <2>1. DOMAIN arrivals = 1..Len(arrivals)
    BY DEF OrderInv, OrderTyped
  <2> QED
    BY <2>1 DEF InOrder, At
<1> DEFINE d == arrivals[i]
           f == arrivals[j]
<1>1. d \in Deliveries /\ f \in Deliveries /\ Before(d, f)
  BY DEF OrderInv, OrderTyped, Before
<1>2. d # f /\ ~Before(f, d)
  BY <1>1, BeforeIsStrict
<1>3. pc[f] \in Holding /\ pc[f] \in InLock
  BY DEF Holding, InLock
<1>4. /\ home[f] \in Processes /\ ConversationOf[msg[f]] \in Conversations
      /\ Lock(f) = locks[home[f]][ConversationOf[msg[f]]]
      /\ 1 \in 1..Len(Lock(f)) /\ Lock(f)[1] = f
  BY <1>1, <1>3, InItsLock
<1>5. d \notin turned
  <2>1. d \in turned => f \in turned
    BY DEF OrderInv, TurnedAfter
  <2>2. f \notin turned
    BY <1>1 DEF OrderInv, PlaceOK, Ended
  <2> QED
    BY <2>1, <2>2
<1>6. ASSUME pc[d] \in InLock PROVE pc[d] \notin {"lock", "prepare", "mark", "send"}
  <2>1. Lock(d) = Lock(f)
    BY DEF Lock
  <2>2. PICK k \in 1..Len(Lock(f)) : Lock(f)[k] = d
    BY <1>1, <1>6, <2>1, InItsLock
  <2>3. k # 1
    BY <1>2, <1>4, <2>2
  <2>4. 1 < k
    BY <2>2, <2>3
  <2>5. Before(f, d)
    BY <1>4, <2>2, <2>4 DEF OrderInv, Sorted
  <2> QED
    BY <1>2, <2>5
<1>7. pc[d] # "queued"
  <2> SUFFICES ASSUME pc[d] = "queued" PROVE FALSE
    OBVIOUS
  <2>1. PICK k \in 1..Len(fifo[home[d]]) : fifo[home[d]][k] = d
    BY <1>1 DEF OrderInv, PlaceOK
  <2>2. Before(f, d)
    BY <1>4, <2>1 DEF OrderInv, Ahead
  <2> QED
    BY <1>2, <2>2
<1> QED
  BY <1>5, <1>6, <1>7 DEF BeforeSend, InLock, Holding

(* InOrder: the messages of one Conversation reach the Application in the order
   in which their process took them over, across the startup FIFO, its drain
   and live handling, with cancellation, store failures and crashes at any
   step; and none is sent after an earlier one was turned away. *)
THEOREM SentInOrder == Spec => []InOrder
<1>1. Init => Inv /\ OrderInv
  BY InitInv, InitOrder
<1>2. (Inv /\ OrderInv) /\ [Next]_vars => (Inv /\ OrderInv)'
  BY NextInv, NextOrder
<1>3. Inv /\ OrderInv => InOrder
  BY OrderImplies
<1> QED
  BY <1>1, <1>2, <1>3, PTL DEF Spec

=============================================================================

--------------------------- MODULE IngressProofs ---------------------------
(***************************************************************************)
(* Proofs about the transaction every Channel dispatches a native message  *)
(* with, and about the gate and the startup FIFO of the Gateway behind it: *)
(* what their steps keep, for the Channels that are built from them.       *)
(***************************************************************************)
EXTENDS IngressTransaction, SequenceTheorems, TLAPS

(* The message needs no dispatch any more: turned away by the policy, kept
   or given up by the Gateway, or answered by the open claim of another. *)
Handled(m) == m \in Denied \cup skipped \cup Kept

Opened == {"prepare", "deliver", "release"}

(* A message that was handed over has a fenced record, and only such a one. *)
FencedIsHanded == \A m \in Messages : claim[m] = "fenced" <=> m \in Handed

(* Between the claim and the handoff the record is open. A dispatch that
   ended does not leave the key of a message the Gateway did not return from,
   and returns only when the message is dealt with. *)
DispatchOK ==
    /\ pc \in Opened => claim[cur] = "open"
    /\ pc \in {"returned", "raised"} /\ cur \in admitted => cur \in Kept
    /\ pc = "returned" => Handled(cur)

(* An entry of the FIFO is there once unless it was disowned. *)
Distinct ==
    \A i, j \in DOMAIN startup : startup[i] = startup[j] /\ startup[i] # 0 => i = j

(* An entry owns an open record, which the dispatch has not; a Gateway that is
   live has taken them all. *)
FifoOK ==
    /\ \A m \in Waiting : claim[m] = "open" /\ (pc \in Opened => m # cur)
    /\ Distinct
    /\ gate = "live" => startup = <<>>

TransactionInv ==
    /\ TransactionTypeOK
    /\ FencedIsHanded
    /\ DispatchOK
    /\ HandedOnce
    /\ FastPathIsTrue
    /\ OpenClaimIsOwned
    /\ FifoOK

(* What is handled stays handled. *)
Keeps == \A m : Handled(m) => Handled(m)'

-----------------------------------------------------------------------------
(* What most steps keep. *)

LEMMA StillKept ==
    ASSUME Kept \subseteq Kept', skipped \subseteq skipped'
    PROVE  Keeps
BY DEF Keeps, Handled

LEMMA NothingMoves ==
    ASSUME UNCHANGED <<handed, startup>>, dropped \subseteq dropped', skipped \subseteq skipped'
    PROVE  /\ Handed' = Handed /\ Waiting' = Waiting /\ Kept \subseteq Kept' /\ Keeps
           /\ HandedOnce' = HandedOnce /\ Distinct' = Distinct
<1>1. Handed' = Handed /\ Waiting' = Waiting
  BY DEF Handed, Waiting
<1>2. Kept \subseteq Kept'
  BY <1>1 DEF Kept
<1>3. HandedOnce' = HandedOnce /\ Distinct' = Distinct
  BY DEF HandedOnce, Distinct
<1> QED
  BY <1>1, <1>2, <1>3, StillKept

LEMMA InvFacts ==
    ASSUME TransactionInv, TransactionAssumption
    PROVE  /\ Count \in Nat /\ 0 \in 0..Count /\ MaxFaults \in Nat
           /\ pc \in Places /\ cur \in 0..Count /\ (pc # "idle" => cur \in Messages /\ cur # 0)
           /\ admitted \subseteq Messages /\ orphans \subseteq Messages
           /\ skipped \subseteq Messages /\ dropped \subseteq Messages
           /\ claim \in [Messages -> {"none", "open", "fenced"}]
           /\ handed \in Seq(Messages) /\ startup \in Seq(0..Count)
           /\ gate \in {"starting", "live", "closed"} /\ faults \in 0..MaxFaults
           /\ Waiting \subseteq Messages /\ 0 \notin Messages
           /\ FencedIsHanded /\ DispatchOK /\ HandedOnce /\ FastPathIsTrue
           /\ OpenClaimIsOwned /\ FifoOK /\ Distinct
<1>1. /\ Count \in Nat /\ MaxFaults \in Nat /\ 0 \in 0..Count /\ 0 \notin Messages
      /\ \A x \in 0..Count : x # 0 => x \in Messages
  BY DEF TransactionAssumption, Messages
<1>2. TransactionTypeOK
  BY DEF TransactionInv
<1>3. startup \in Seq(0..Count)
  BY <1>2 DEF TransactionTypeOK
<1>4. \A i \in DOMAIN startup : startup[i] \in 0..Count
  <2>1. DOMAIN startup = 1..Len(startup) /\ \A i \in 1..Len(startup) : startup[i] \in 0..Count
    BY <1>3, ElementOfSeq, LenProperties
  <2> QED
    BY <2>1
<1>5. Waiting \subseteq Messages
  BY <1>1, <1>4 DEF Waiting
<1> QED
  BY <1>1, <1>2, <1>3, <1>5 DEF TransactionInv, TransactionTypeOK, FifoOK

LEMMA FaultKeeps ==
    ASSUME TransactionTypeOK, MaxFaults \in Nat, Fault \/ UNCHANGED faults
    PROVE  faults' \in 0..MaxFaults
BY DEF TransactionTypeOK, Fault

(* The handoff of a message adds it to what was handed over. *)
LEMMA HandoffAdds ==
    ASSUME handed \in Seq(Messages), NEW m \in Messages, handed' = Append(handed, m)
    PROVE  /\ handed' \in Seq(Messages)
           /\ Handed' = Handed \cup {m}
           /\ HandedOnce /\ m \notin Handed => HandedOnce'
<1>1. /\ handed' \in Seq(Messages)
      /\ Len(handed') = Len(handed) + 1 /\ Len(handed) \in Nat
      /\ handed'[Len(handed) + 1] = m
      /\ \A i \in 1..Len(handed) : handed'[i] = handed[i]
      /\ DOMAIN handed = 1..Len(handed) /\ DOMAIN handed' = 1..(Len(handed) + 1)
  OBVIOUS
<1>2. \A i \in DOMAIN handed' : i \in DOMAIN handed \/ i = Len(handed) + 1
  BY <1>1
<1>3. DOMAIN handed \subseteq DOMAIN handed' /\ Len(handed) + 1 \in DOMAIN handed'
  BY <1>1
<1>4. Handed' = Handed \cup {m}
  BY <1>1, <1>2, <1>3 DEF Handed
<1>5. ASSUME HandedOnce, m \notin Handed PROVE HandedOnce'
  <2> SUFFICES ASSUME NEW i \in DOMAIN handed', NEW j \in DOMAIN handed',
                      handed'[i] = handed'[j]
               PROVE  i = j
    BY DEF HandedOnce
  <2>1. \A k \in DOMAIN handed : handed[k] # m
    BY <1>5 DEF Handed
  <2> QED
    BY <1>1, <1>2, <1>5, <2>1 DEF HandedOnce
<1> QED
  BY <1>1, <1>4, <1>5

(* The FIFO grows at its end, is taken from its front, or loses the claim of
   one of its entries. *)
LEMMA AdmitWaits ==
    ASSUME startup \in Seq(0..Count), cur \in 0..Count, cur # 0, Distinct, cur \notin Waiting,
           startup' = Append(startup, cur)
    PROVE  startup' \in Seq(0..Count) /\ Waiting' = Waiting \cup {cur} /\ Distinct'
<1>1. /\ startup' \in Seq(0..Count)
      /\ Len(startup') = Len(startup) + 1 /\ Len(startup) \in Nat
      /\ startup'[Len(startup) + 1] = cur
      /\ \A i \in 1..Len(startup) : startup'[i] = startup[i]
      /\ DOMAIN startup = 1..Len(startup) /\ DOMAIN startup' = 1..(Len(startup) + 1)
  OBVIOUS
<1>2. \A i \in DOMAIN startup' : i \in DOMAIN startup \/ i = Len(startup) + 1
  BY <1>1
<1>3. DOMAIN startup \subseteq DOMAIN startup' /\ Len(startup) + 1 \in DOMAIN startup'
  BY <1>1
<1>4. Waiting' = Waiting \cup {cur}
  BY <1>1, <1>2, <1>3 DEF Waiting
<1>5. \A k \in DOMAIN startup : startup[k] # cur
  BY DEF Waiting
<1>6. Distinct'
  BY <1>1, <1>2, <1>5 DEF Distinct
<1> QED
  BY <1>1, <1>4, <1>6

LEMMA TailWaits ==
    ASSUME startup \in Seq(0..Count), startup # <<>>, Distinct, startup' = Tail(startup)
    PROVE  /\ startup' \in Seq(0..Count) /\ Distinct'
           /\ Head(startup) \in 0..Count
           /\ Head(startup) = 0 => Waiting' = Waiting
           /\ Head(startup) # 0 => /\ Head(startup) \in Waiting
                                   /\ Waiting' = Waiting \ {Head(startup)}
<1>1. /\ startup' \in Seq(0..Count) /\ Len(startup) \in Nat \ {0}
      /\ Len(startup') = Len(startup) - 1 /\ Head(startup) = startup[1]
      /\ \A i \in 1..Len(startup') : startup'[i] = startup[i + 1]
      /\ DOMAIN startup = 1..Len(startup) /\ DOMAIN startup' = 1..Len(startup')
  OBVIOUS
<1>2. 1 \in DOMAIN startup /\ Head(startup) \in 0..Count
  <2>1. 1 \in 1..Len(startup)
    BY <1>1
  <2>2. startup[1] \in 0..Count
    BY <2>1, ElementOfSeq
  <2> QED
    BY <1>1, <2>1, <2>2
<1>3. \A i \in DOMAIN startup' : i + 1 \in DOMAIN startup /\ i + 1 # 1
  BY <1>1
<1>4. \A i \in DOMAIN startup : i = 1 \/ \E j \in DOMAIN startup' : i = j + 1
  <2> SUFFICES ASSUME NEW i \in DOMAIN startup, i # 1 PROVE \E j \in DOMAIN startup' : i = j + 1
    OBVIOUS
  <2>1. i - 1 \in DOMAIN startup' /\ i = (i - 1) + 1
    BY <1>1
  <2> QED
    BY <2>1
<1>5. Distinct'
  <2>1. \A i, j \in DOMAIN startup' : i + 1 = j + 1 => i = j
    BY <1>1
  <2> QED
    BY <1>1, <1>3, <2>1 DEF Distinct
<1>6. \A i \in DOMAIN startup' : startup'[i] # 0 => startup'[i] # startup[1]
  BY <1>1, <1>2, <1>3 DEF Distinct
<1>7. \A x \in Waiting' : x \in Waiting /\ x # startup[1]
  BY <1>1, <1>3, <1>6 DEF Waiting
<1>8. \A x \in Waiting : x = startup[1] \/ x \in Waiting'
  BY <1>1, <1>4 DEF Waiting
<1>9. startup[1] # 0 => startup[1] \in Waiting
  BY <1>2 DEF Waiting
<1>10. 0 \notin Waiting
  BY DEF Waiting
<1> QED
  BY <1>1, <1>2, <1>5, <1>7, <1>8, <1>9, <1>10

LEMMA DisownWaits ==
    ASSUME startup \in Seq(0..Count), Count \in Nat, Distinct, cur # 0, startup' = Disowned
    PROVE  /\ startup' \in Seq(0..Count) /\ Distinct' /\ Waiting' = Waiting \ {cur}
           /\ startup = <<>> => startup' = <<>>
<1>1. Len(startup) \in Nat /\ DOMAIN startup = 1..Len(startup) /\ 0 \in 0..Count
  OBVIOUS
<1>2. /\ startup' = [i \in 1..Len(startup) |-> IF startup[i] = cur THEN 0 ELSE startup[i]]
      /\ DOMAIN startup' = DOMAIN startup
      /\ \A i \in DOMAIN startup : startup'[i] = IF startup[i] = cur THEN 0 ELSE startup[i]
  BY <1>1 DEF Disowned
<1>3. \A i \in 1..Len(startup) : (IF startup[i] = cur THEN 0 ELSE startup[i]) \in 0..Count
  BY <1>1
<1>4. startup' \in Seq(0..Count) /\ Len(startup') = Len(startup)
  BY <1>1, <1>2, <1>3
<1>5. startup = <<>> => startup' = <<>>
  BY <1>4
<1>6. Distinct'
  BY <1>2 DEF Distinct
<1>7. Waiting' = Waiting \ {cur}
  BY <1>2 DEF Waiting
<1> QED
  BY <1>4, <1>5, <1>6, <1>7

(* The record of a message changes, nothing is handed over. *)
LEMMA RecordKeeps ==
    ASSUME TransactionInv, NEW m \in Messages, UNCHANGED handed,
           NEW r \in {"none", "open"}, claim' = [claim EXCEPT ![m] = r],
           claim[m] # "fenced"
    PROVE  /\ claim' \in [Messages -> {"none", "open", "fenced"}]
           /\ claim'[m] = r /\ \A x \in Messages \ {m} : claim'[x] = claim[x]
           /\ FencedIsHanded' /\ HandedOnce' /\ Handed' = Handed
<1>1. /\ claim \in [Messages -> {"none", "open", "fenced"}] /\ FencedIsHanded /\ HandedOnce
  BY DEF TransactionInv, TransactionTypeOK
<1>2. claim'[m] = r /\ \A x \in Messages \ {m} : claim'[x] = claim[x]
  BY <1>1
<1>3. claim' \in [Messages -> {"none", "open", "fenced"}]
  BY <1>1
<1>4. FencedIsHanded' /\ HandedOnce' /\ Handed' = Handed
  BY <1>1, <1>2 DEF FencedIsHanded, HandedOnce, Handed
<1> QED
  BY <1>2, <1>3, <1>4

(* A message is handed over: its record is fenced. *)
LEMMA HandoffKeeps ==
    ASSUME TransactionInv, NEW m \in Messages, claim[m] = "open",
           claim' = [claim EXCEPT ![m] = "fenced"], handed' = Append(handed, m)
    PROVE  /\ claim' \in [Messages -> {"none", "open", "fenced"}]
           /\ claim'[m] = "fenced" /\ \A x \in Messages \ {m} : claim'[x] = claim[x]
           /\ handed' \in Seq(Messages) /\ Handed' = Handed \cup {m}
           /\ FencedIsHanded' /\ HandedOnce'
<1>1. /\ claim \in [Messages -> {"none", "open", "fenced"}] /\ handed \in Seq(Messages)
      /\ FencedIsHanded /\ HandedOnce
  BY DEF TransactionInv, TransactionTypeOK
<1>2. m \notin Handed
  BY <1>1 DEF FencedIsHanded
<1>3. handed' \in Seq(Messages) /\ Handed' = Handed \cup {m} /\ HandedOnce'
  BY <1>1, <1>2, HandoffAdds
<1>4. /\ claim'[m] = "fenced" /\ \A x \in Messages \ {m} : claim'[x] = claim[x]
      /\ claim' \in [Messages -> {"none", "open", "fenced"}]
  BY <1>1
<1>5. FencedIsHanded'
  BY <1>1, <1>3, <1>4 DEF FencedIsHanded
<1> QED
  BY <1>3, <1>4, <1>5

LEMMA RememberFacts ==
    ASSUME NEW m, NEW keys, NEW next \in Remember(m, keys)
    PROVE  next \subseteq keys \cup {m}
BY DEF Remember

(* A key that is forgotten, while the message stays the one dispatched. *)
LEMMA ForgetKeeps ==
    ASSUME TransactionInv, Forget, cur' = cur, Kept \subseteq Kept'
    PROVE  FastPathIsTrue' /\ cur' \notin admitted' /\ admitted' \subseteq Messages
BY DEF TransactionInv, TransactionTypeOK, Forget, FastPathIsTrue

-----------------------------------------------------------------------------
(* One lemma for each step. *)

LEMMA InitTransaction ==
    ASSUME TransactionAssumption, TransactionInit, gate \in {"starting", "closed"}
    PROVE  TransactionInv
<1> USE DEF TransactionInit
<1>1. TransactionTypeOK
  BY DEF TransactionTypeOK, TransactionAssumption, Places
<1>2. Handed = {} /\ DOMAIN handed = {} /\ Waiting = {} /\ DOMAIN startup = {}
  BY DEF Handed, Waiting
<1>3. FencedIsHanded /\ DispatchOK /\ HandedOnce /\ FastPathIsTrue /\ OpenClaimIsOwned
  BY <1>2 DEF FencedIsHanded, DispatchOK, HandedOnce, FastPathIsTrue, OpenClaimIsOwned, Opened
<1>4. FifoOK
  BY <1>2 DEF FifoOK, Distinct
<1> QED
  BY <1>1, <1>3, <1>4 DEF TransactionInv

LEMMA DispatchKeeps ==
    ASSUME TransactionInv, NEW m \in Messages, Dispatch(m), TransactionAssumption
    PROVE  TransactionInv' /\ Keeps
<1>0. \/ admitted' = admitted /\ pc' = "returned" /\ m \in Denied \cup admitted
      \/ admitted' \subseteq admitted \cup {m} /\ pc' = "claim"
  <2>1. CASE admitted' \in Remember(m, admitted) /\ pc' = "claim"
    BY <2>1, RememberFacts
  <2> QED
    BY <2>1 DEF Dispatch
<1>1. /\ UNCHANGED <<claim, handed, orphans, skipped, gate, startup, dropped, faults>>
      /\ pc = "idle" /\ cur = 0 /\ cur' = m /\ m # 0 /\ m \in 0..Count
      /\ admitted' \subseteq admitted \cup {m} /\ admitted' \subseteq Messages
      /\ \/ pc' = "returned" /\ m \in Denied \cup admitted /\ admitted' = admitted
         \/ pc' = "claim"
  <2>1. /\ UNCHANGED <<claim, handed, orphans, skipped, gate, startup, dropped, faults>>
        /\ pc = "idle" /\ cur = 0 /\ cur' = m
    BY DEF Dispatch, TransactionInv, TransactionTypeOK, gateVars
  <2>2. m # 0 /\ m \in 0..Count
    BY DEF Messages, TransactionAssumption
  <2>3. admitted \subseteq Messages
    BY DEF TransactionInv, TransactionTypeOK
  <2> QED
    BY <1>0, <2>1, <2>2, <2>3
<1>2. /\ Handed' = Handed /\ Waiting' = Waiting /\ Kept \subseteq Kept' /\ Keeps
      /\ HandedOnce' = HandedOnce /\ Distinct' = Distinct
  BY <1>1, NothingMoves
<1>3. TransactionTypeOK'
  BY <1>1 DEF TransactionInv, TransactionTypeOK, Places
<1>4. \A k \in admitted : k \in Kept
  BY <1>1, InvFacts DEF FastPathIsTrue
<1>5. DispatchOK' /\ FastPathIsTrue'
  BY <1>1, <1>2, <1>4 DEF DispatchOK, FastPathIsTrue, Opened, Handled
<1>6. FencedIsHanded' /\ HandedOnce' /\ OpenClaimIsOwned' /\ FifoOK'
  BY <1>1, <1>2 DEF TransactionInv, FencedIsHanded, OpenClaimIsOwned, FifoOK, Opened
<1> QED
  BY <1>2, <1>3, <1>5, <1>6 DEF TransactionInv

LEMMA AcquireKeeps ==
    ASSUME TransactionInv, TransactionAssumption, AcquireClaim
    PROVE  TransactionInv' /\ Keeps
<1> USE DEF AcquireClaim, Disown
<1>1. cur \in Messages /\ cur # 0 /\ claim[cur] # "fenced"
  BY InvFacts DEF Claimable
<1>2. /\ claim' \in [Messages -> {"none", "open", "fenced"}]
      /\ claim'[cur] = "open" /\ \A x \in Messages \ {cur} : claim'[x] = claim[x]
      /\ FencedIsHanded' /\ HandedOnce' /\ Handed' = Handed
  BY <1>1, RecordKeeps
<1>3. /\ startup' \in Seq(0..Count) /\ Distinct' /\ Waiting' = Waiting \ {cur}
      /\ startup = <<>> => startup' = <<>>
  BY <1>1, InvFacts, DisownWaits
<1>4. Kept \subseteq Kept' /\ dropped' \subseteq Messages
  BY <1>1, <1>2, <1>3, InvFacts DEF Kept
<1>5. Keeps
  BY <1>4, StillKept
<1>6. TransactionTypeOK'
  BY <1>1, <1>2, <1>3, <1>4 DEF TransactionInv, TransactionTypeOK, Places
<1>7. DispatchOK' /\ FastPathIsTrue'
  BY <1>2, <1>4 DEF TransactionInv, DispatchOK, FastPathIsTrue
<1>8. OpenClaimIsOwned' /\ FifoOK'
  BY <1>2, <1>3, InvFacts DEF OpenClaimIsOwned, FifoOK
<1> QED
  BY <1>2, <1>5, <1>6, <1>7, <1>8 DEF TransactionInv

(* The dispatch is over and its key is forgotten. *)
LEMMA EndedKeeps ==
    ASSUME TransactionInv, TransactionAssumption, pc # "idle",
           Forget, pc' \in {"returned", "raised"}, UNCHANGED <<cur, gate>>,
           skipped \subseteq skipped', skipped' \subseteq Messages,
           Fault \/ UNCHANGED faults, Kept \subseteq Kept',
           claim' \in [Messages -> {"none", "open", "fenced"}],
           handed' \in Seq(Messages), orphans' \subseteq Messages,
           startup' \in Seq(0..Count), dropped' \subseteq Messages,
           pc' = "returned" => cur \in skipped' \cup Kept'
    PROVE  TransactionTypeOK' /\ DispatchOK' /\ FastPathIsTrue' /\ Keeps
<1>1. FastPathIsTrue' /\ cur' \notin admitted' /\ admitted' \subseteq Messages
  BY ForgetKeeps
<1>2. faults' \in 0..MaxFaults
  BY FaultKeeps DEF TransactionInv, TransactionAssumption
<1>3. cur' \in 0..Count /\ cur' # 0
  BY InvFacts
<1>4. TransactionTypeOK'
  BY <1>1, <1>2, <1>3 DEF TransactionInv, TransactionTypeOK, Places
<1>5. DispatchOK'
  BY <1>1 DEF DispatchOK, Opened, Handled
<1> QED
  BY <1>1, <1>4, <1>5, StillKept

LEMMA NoLeaseKeeps ==
    ASSUME TransactionInv, TransactionAssumption, NoLease
    PROVE  TransactionInv' /\ Keeps
<1>0. /\ cur \in Messages /\ cur # 0 /\ pc = "claim" /\ pc' = "returned" /\ Forget
      /\ UNCHANGED <<cur, handed, gate, faults>>
  BY InvFacts DEF NoLease
<1>1. CASE /\ claim[cur] # "none"
           /\ skipped' = IF claim[cur] = "open" THEN skipped \cup {cur} ELSE skipped
           /\ UNCHANGED <<claim, orphans, startup, dropped>>
  <2>1. skipped \subseteq skipped' /\ skipped' \subseteq Messages
    BY <1>0, <1>1, InvFacts
  <2>2. /\ Handed' = Handed /\ Waiting' = Waiting /\ Kept \subseteq Kept'
        /\ HandedOnce' = HandedOnce /\ Distinct' = Distinct
    BY <1>0, <1>1, <2>1, NothingMoves
  <2>3. cur \in skipped' \cup Kept'
    BY <1>0, <1>1, <2>2, InvFacts DEF FencedIsHanded, Kept
  <2>4. TransactionTypeOK' /\ DispatchOK' /\ FastPathIsTrue' /\ Keeps
    BY <1>0, <1>1, <2>1, <2>2, <2>3, EndedKeeps, InvFacts
  <2>5. FencedIsHanded' /\ HandedOnce' /\ OpenClaimIsOwned' /\ FifoOK'
    BY <1>0, <1>1, <2>2, InvFacts DEF FencedIsHanded, OpenClaimIsOwned, FifoOK, Opened
  <2> QED
    BY <2>4, <2>5 DEF TransactionInv
<1>2. CASE /\ dropped' = dropped \cup {cur}
           /\ UNCHANGED <<claim, orphans, skipped, startup>>
  <2>1. /\ Handed' = Handed /\ Waiting' = Waiting /\ Kept \subseteq Kept'
        /\ HandedOnce' = HandedOnce /\ Distinct' = Distinct
    BY <1>0, <1>2, NothingMoves
  <2>2. cur \in Kept' /\ dropped' \subseteq Messages
    BY <1>0, <1>2, InvFacts DEF Kept
  <2>3. TransactionTypeOK' /\ DispatchOK' /\ FastPathIsTrue' /\ Keeps
    BY <1>0, <1>2, <2>1, <2>2, EndedKeeps, InvFacts
  <2>4. FencedIsHanded' /\ HandedOnce' /\ OpenClaimIsOwned' /\ FifoOK'
    BY <1>0, <1>2, <2>1, InvFacts DEF FencedIsHanded, OpenClaimIsOwned, FifoOK, Opened
  <2> QED
    BY <2>3, <2>4 DEF TransactionInv
<1>3. CASE /\ Claimable(cur) /\ claim' = [claim EXCEPT ![cur] = "none"]
           /\ orphans' = orphans \ {cur} /\ startup' = Disowned
           /\ dropped' = dropped \cup {cur} /\ UNCHANGED skipped
  <2>1. /\ claim' \in [Messages -> {"none", "open", "fenced"}]
        /\ claim'[cur] = "none" /\ \A x \in Messages \ {cur} : claim'[x] = claim[x]
        /\ FencedIsHanded' /\ HandedOnce' /\ Handed' = Handed
    BY <1>0, <1>3, RecordKeeps DEF Claimable
  <2>2. /\ startup' \in Seq(0..Count) /\ Distinct' /\ Waiting' = Waiting \ {cur}
        /\ startup = <<>> => startup' = <<>>
    BY <1>0, <1>3, InvFacts, DisownWaits
  <2>3. cur \in Kept' /\ dropped' \subseteq Messages /\ Kept \subseteq Kept'
    BY <1>0, <1>3, <2>1, <2>2, InvFacts DEF Kept
  <2>4. orphans' \subseteq Messages
    BY <1>3, InvFacts
  <2>5. TransactionTypeOK' /\ DispatchOK' /\ FastPathIsTrue' /\ Keeps
    BY <1>0, <1>3, <2>1, <2>2, <2>3, <2>4, EndedKeeps, InvFacts
  <2>6. OpenClaimIsOwned' /\ FifoOK'
    BY <1>0, <1>3, <2>1, <2>2, InvFacts DEF OpenClaimIsOwned, FifoOK, Opened
  <2> QED
    BY <2>1, <2>5, <2>6 DEF TransactionInv
<1> QED
  BY <1>1, <1>2, <1>3 DEF NoLease

LEMMA ClaimFailsKeeps ==
    ASSUME TransactionInv, TransactionAssumption, ClaimFails
    PROVE  TransactionInv' /\ Keeps
<1>0. /\ cur \in Messages /\ cur # 0 /\ pc = "claim" /\ pc' = "raised" /\ Forget /\ Fault
      /\ UNCHANGED <<cur, handed, skipped, gate>>
  BY InvFacts DEF ClaimFails
<1>1. CASE UNCHANGED <<claim, orphans, startup, dropped>>
  <2>1. /\ Handed' = Handed /\ Waiting' = Waiting /\ Kept \subseteq Kept'
        /\ HandedOnce' = HandedOnce /\ Distinct' = Distinct
    BY <1>0, <1>1, NothingMoves
  <2>2. TransactionTypeOK' /\ DispatchOK' /\ FastPathIsTrue' /\ Keeps
    BY <1>0, <1>1, <2>1, EndedKeeps, InvFacts
  <2>3. FencedIsHanded' /\ HandedOnce' /\ OpenClaimIsOwned' /\ FifoOK'
    BY <1>0, <1>1, <2>1, InvFacts DEF FencedIsHanded, OpenClaimIsOwned, FifoOK, Opened
  <2> QED
    BY <2>2, <2>3 DEF TransactionInv
<1>2. CASE /\ Claimable(cur) /\ claim' = [claim EXCEPT ![cur] = "open"]
           /\ orphans' = orphans \cup {cur} /\ Disown
  <2>1. /\ claim' \in [Messages -> {"none", "open", "fenced"}]
        /\ claim'[cur] = "open" /\ \A x \in Messages \ {cur} : claim'[x] = claim[x]
        /\ FencedIsHanded' /\ HandedOnce' /\ Handed' = Handed
    BY <1>0, <1>2, RecordKeeps DEF Claimable
  <2>2. /\ startup' \in Seq(0..Count) /\ Distinct' /\ Waiting' = Waiting \ {cur}
        /\ startup = <<>> => startup' = <<>>
    BY <1>0, <1>2, InvFacts, DisownWaits DEF Disown
  <2>3. Kept \subseteq Kept' /\ dropped' \subseteq Messages /\ orphans' \subseteq Messages
    BY <1>0, <1>2, <2>1, <2>2, InvFacts DEF Kept, Disown
  <2>4. TransactionTypeOK' /\ DispatchOK' /\ FastPathIsTrue' /\ Keeps
    BY <1>0, <1>2, <2>1, <2>2, <2>3, EndedKeeps, InvFacts
  <2>5. OpenClaimIsOwned' /\ FifoOK'
    BY <1>0, <1>2, <2>1, <2>2, InvFacts DEF OpenClaimIsOwned, FifoOK, Opened
  <2> QED
    BY <2>1, <2>4, <2>5 DEF TransactionInv
<1> QED
  BY <1>1, <1>2 DEF ClaimFails

LEMMA PrepareKeeps ==
    ASSUME TransactionInv, TransactionAssumption, Prepare
    PROVE  TransactionInv' /\ Keeps
<1> USE DEF Prepare, gateVars
<1>1. /\ Handed' = Handed /\ Waiting' = Waiting /\ Kept \subseteq Kept' /\ Keeps
      /\ HandedOnce' = HandedOnce /\ Distinct' = Distinct
  BY NothingMoves
<1>2. faults' \in 0..MaxFaults
  BY FaultKeeps DEF TransactionInv, TransactionAssumption
<1>3. TransactionTypeOK'
  BY <1>2 DEF TransactionInv, TransactionTypeOK, Places
<1>4. DispatchOK' /\ FastPathIsTrue' /\ FencedIsHanded' /\ HandedOnce'
  BY <1>1 DEF TransactionInv, DispatchOK, FastPathIsTrue, FencedIsHanded, Opened
<1>5. OpenClaimIsOwned' /\ FifoOK'
  BY <1>1 DEF TransactionInv, OpenClaimIsOwned, FifoOK, Opened
<1> QED
  BY <1>1, <1>3, <1>4, <1>5 DEF TransactionInv

LEMMA HandKeeps ==
    ASSUME TransactionInv, TransactionAssumption, pc = "deliver", Hand,
           UNCHANGED <<cur, skipped, gate>>
    PROVE  TransactionInv' /\ Keeps
<1> USE DEF Hand
<1>0. /\ cur \in Messages /\ cur # 0 /\ claim[cur] = "open" /\ cur \notin Waiting
      /\ startup = <<>>
  BY InvFacts DEF DispatchOK, Opened, FifoOK
<1>1. /\ claim' \in [Messages -> {"none", "open", "fenced"}]
      /\ claim'[cur] = "fenced" /\ \A x \in Messages \ {cur} : claim'[x] = claim[x]
      /\ handed' \in Seq(Messages) /\ Handed' = Handed \cup {cur}
      /\ FencedIsHanded' /\ HandedOnce'
  BY <1>0, HandoffKeeps
<1>2. Waiting' = Waiting /\ (Distinct' = Distinct)
  BY DEF Waiting, Distinct
<1>3. Kept \subseteq Kept' /\ cur \in Kept'
  BY <1>1, <1>2 DEF Kept
<1>4. OpenClaimIsOwned' /\ FifoOK'
  BY <1>0, <1>1, <1>2, InvFacts DEF OpenClaimIsOwned, FifoOK, Opened
<1>5. CASE pc' = "returned" /\ UNCHANGED <<admitted, faults>>
  <2>1. TransactionTypeOK'
    BY <1>0, <1>1, <1>5 DEF TransactionInv, TransactionTypeOK, Places
  <2>2. DispatchOK' /\ FastPathIsTrue' /\ Keeps
    BY <1>3, <1>5, StillKept DEF TransactionInv, DispatchOK, FastPathIsTrue, Handled, Opened
  <2> QED
    BY <1>1, <1>4, <2>1, <2>2 DEF TransactionInv
<1>6. CASE pc' = "raised" /\ Fault /\ Forget
  <2>1. TransactionTypeOK' /\ DispatchOK' /\ FastPathIsTrue' /\ Keeps
    BY <1>1, <1>3, <1>6, EndedKeeps, InvFacts
  <2> QED
    BY <1>1, <1>4, <2>1 DEF TransactionInv
<1> QED
  BY <1>5, <1>6

LEMMA AdmitKeeps ==
    ASSUME TransactionInv, TransactionAssumption, pc = "deliver", Admit,
           UNCHANGED <<cur, skipped, gate>>
    PROVE  TransactionInv' /\ Keeps
<1> USE DEF Admit
<1>0. /\ cur \in Messages /\ cur # 0 /\ claim[cur] = "open" /\ cur \notin Waiting
      /\ cur \in 0..Count
  BY InvFacts DEF DispatchOK, Opened, FifoOK
<1>1. startup' \in Seq(0..Count) /\ Waiting' = Waiting \cup {cur} /\ Distinct'
  BY <1>0, InvFacts, AdmitWaits
<1>2. Handed' = Handed /\ (HandedOnce' = HandedOnce)
  BY DEF Handed, HandedOnce
<1>3. Kept \subseteq Kept' /\ cur \in Kept'
  BY <1>1, <1>2 DEF Kept
<1>4. TransactionTypeOK'
  BY <1>1 DEF TransactionInv, TransactionTypeOK, Places
<1>5. DispatchOK' /\ FastPathIsTrue' /\ Keeps
  BY <1>3, StillKept DEF TransactionInv, DispatchOK, FastPathIsTrue, Handled, Opened
<1>6. FencedIsHanded' /\ HandedOnce' /\ OpenClaimIsOwned' /\ FifoOK'
  BY <1>0, <1>1, <1>2, InvFacts DEF FencedIsHanded, OpenClaimIsOwned, FifoOK, Opened
<1> QED
  BY <1>4, <1>5, <1>6 DEF TransactionInv

LEMMA TurnAwayKeeps ==
    ASSUME TransactionInv, TransactionAssumption, pc = "deliver", TurnAway,
           UNCHANGED <<cur, skipped, gate>>
    PROVE  TransactionInv' /\ Keeps
<1>0. /\ cur \in Messages /\ cur # 0 /\ claim[cur] = "open" /\ cur \notin Waiting
      /\ UNCHANGED <<handed, startup>>
  BY InvFacts DEF DispatchOK, Opened, FifoOK, TurnAway
<1>1. CASE /\ claim' = [claim EXCEPT ![cur] = "none"] /\ dropped' = dropped \cup {cur}
           /\ pc' = "returned" /\ UNCHANGED <<admitted, orphans, faults>>
  <2>1. /\ claim' \in [Messages -> {"none", "open", "fenced"}]
        /\ claim'[cur] = "none" /\ \A x \in Messages \ {cur} : claim'[x] = claim[x]
        /\ FencedIsHanded' /\ HandedOnce' /\ Handed' = Handed
    BY <1>0, <1>1, RecordKeeps
  <2>2. Waiting' = Waiting /\ Kept \subseteq Kept' /\ Keeps /\ (Distinct' = Distinct)
    BY <1>0, <1>1, NothingMoves
  <2>3. cur \in Kept' /\ dropped' \subseteq Messages
    BY <1>0, <1>1, InvFacts DEF Kept
  <2>4. TransactionTypeOK'
    BY <1>0, <1>1, <2>1, <2>3 DEF TransactionInv, TransactionTypeOK, Places
  <2>5. DispatchOK' /\ FastPathIsTrue'
    BY <1>1, <2>2, <2>3 DEF TransactionInv, DispatchOK, FastPathIsTrue, Handled, Opened
  <2>6. OpenClaimIsOwned' /\ FifoOK'
    BY <1>0, <1>1, <2>1, <2>2, InvFacts DEF OpenClaimIsOwned, FifoOK, Opened
  <2> QED
    BY <2>1, <2>2, <2>4, <2>5, <2>6 DEF TransactionInv
<1>2. CASE /\ Fault /\ Forget /\ orphans' = orphans \cup {cur} /\ pc' = "raised"
           /\ UNCHANGED <<claim, dropped>>
  <2>1. /\ Handed' = Handed /\ Waiting' = Waiting /\ Kept \subseteq Kept'
        /\ HandedOnce' = HandedOnce /\ Distinct' = Distinct
    BY <1>0, <1>2, NothingMoves
  <2>2. orphans' \subseteq Messages
    BY <1>0, <1>2, InvFacts
  <2>3. TransactionTypeOK' /\ DispatchOK' /\ FastPathIsTrue' /\ Keeps
    BY <1>0, <1>2, <2>1, <2>2, EndedKeeps, InvFacts
  <2>4. FencedIsHanded' /\ HandedOnce' /\ OpenClaimIsOwned' /\ FifoOK'
    BY <1>0, <1>2, <2>1, InvFacts DEF FencedIsHanded, OpenClaimIsOwned, FifoOK, Opened
  <2> QED
    BY <2>3, <2>4 DEF TransactionInv
<1> QED
  BY <1>1, <1>2 DEF TurnAway

LEMMA RefuseKeeps ==
    ASSUME TransactionInv, TransactionAssumption, pc = "deliver", Refuse,
           UNCHANGED <<cur, skipped, gate>>
    PROVE  TransactionInv' /\ Keeps
<1> USE DEF Refuse
<1>1. /\ Handed' = Handed /\ Waiting' = Waiting /\ Kept \subseteq Kept' /\ Keeps
      /\ HandedOnce' = HandedOnce /\ Distinct' = Distinct
  BY NothingMoves
<1>2. faults' \in 0..MaxFaults
  BY FaultKeeps DEF TransactionInv, TransactionAssumption
<1>3. TransactionTypeOK'
  BY <1>2 DEF TransactionInv, TransactionTypeOK, Places
<1>4. DispatchOK' /\ FastPathIsTrue' /\ FencedIsHanded' /\ HandedOnce'
  BY <1>1 DEF TransactionInv, DispatchOK, FastPathIsTrue, FencedIsHanded, Opened
<1>5. OpenClaimIsOwned' /\ FifoOK'
  BY <1>1 DEF TransactionInv, OpenClaimIsOwned, FifoOK, Opened
<1> QED
  BY <1>1, <1>3, <1>4, <1>5 DEF TransactionInv

LEMMA DeliverKeeps ==
    ASSUME TransactionInv, TransactionAssumption, Deliver
    PROVE  TransactionInv' /\ Keeps
BY HandKeeps, AdmitKeeps, TurnAwayKeeps, RefuseKeeps DEF Deliver

LEMMA ReleaseKeeps ==
    ASSUME TransactionInv, TransactionAssumption, Release
    PROVE  TransactionInv' /\ Keeps
<1>0. /\ cur \in Messages /\ cur # 0 /\ claim[cur] = "open" /\ cur \notin Waiting
      /\ pc = "release" /\ pc' = "raised" /\ Forget
      /\ UNCHANGED <<cur, handed, skipped, gate, startup, dropped>>
  BY InvFacts DEF DispatchOK, Opened, FifoOK, Release, gateVars
<1>1. /\ Handed' = Handed /\ Waiting' = Waiting /\ Kept \subseteq Kept'
      /\ HandedOnce' = HandedOnce /\ Distinct' = Distinct
  BY <1>0, NothingMoves
<1>2. CASE claim' = [claim EXCEPT ![cur] = "none"] /\ UNCHANGED <<orphans, faults>>
  <2>1. /\ claim' \in [Messages -> {"none", "open", "fenced"}]
        /\ claim'[cur] = "none" /\ \A x \in Messages \ {cur} : claim'[x] = claim[x]
        /\ FencedIsHanded' /\ HandedOnce'
    BY <1>0, <1>2, RecordKeeps
  <2>2. TransactionTypeOK' /\ DispatchOK' /\ FastPathIsTrue' /\ Keeps
    BY <1>0, <1>1, <1>2, <2>1, EndedKeeps, InvFacts
  <2>3. OpenClaimIsOwned' /\ FifoOK'
    BY <1>0, <1>1, <1>2, <2>1, InvFacts DEF OpenClaimIsOwned, FifoOK, Opened
  <2> QED
    BY <2>1, <2>2, <2>3 DEF TransactionInv
<1>3. CASE Fault /\ orphans' = orphans \cup {cur} /\ UNCHANGED claim
  <2>1. orphans' \subseteq Messages
    BY <1>0, <1>3, InvFacts
  <2>2. TransactionTypeOK' /\ DispatchOK' /\ FastPathIsTrue' /\ Keeps
    BY <1>0, <1>1, <1>3, <2>1, EndedKeeps, InvFacts
  <2>3. FencedIsHanded' /\ HandedOnce' /\ OpenClaimIsOwned' /\ FifoOK'
    BY <1>0, <1>1, <1>3, InvFacts DEF FencedIsHanded, OpenClaimIsOwned, FifoOK, Opened
  <2> QED
    BY <2>2, <2>3 DEF TransactionInv
<1> QED
  BY <1>2, <1>3 DEF Release

(* Every step of a transaction keeps its invariant, and what is handled. *)
LEMMA StepKeeps ==
    ASSUME TransactionInv, TransactionAssumption, TransactionStep
    PROVE  TransactionInv' /\ Keeps
BY AcquireKeeps, NoLeaseKeeps, ClaimFailsKeeps, PrepareKeeps, DeliverKeeps, ReleaseKeeps
   DEF TransactionStep

LEMMA StepIsDispatch ==
    ASSUME TransactionStep
    PROVE  pc # "idle" /\ cur' = cur
BY DEF TransactionStep, AcquireClaim, NoLease, ClaimFails, Prepare, Deliver, Release

(* The adapter takes the outcome. *)
LEMMA TakenKeeps ==
    ASSUME TransactionInv, TransactionAssumption, Taken, pc \in {"returned", "raised"},
           UNCHANGED <<admitted, claim, handed, orphans, skipped, gateVars, faults>>
    PROVE  TransactionInv' /\ Keeps
<1> USE DEF gateVars, Taken
<1>1. /\ Handed' = Handed /\ Waiting' = Waiting /\ Kept \subseteq Kept' /\ Keeps
      /\ HandedOnce' = HandedOnce /\ Distinct' = Distinct
  BY NothingMoves
<1>2. TransactionTypeOK'
  BY DEF TransactionInv, TransactionTypeOK, Places, TransactionAssumption
<1>3. DispatchOK' /\ FastPathIsTrue' /\ FencedIsHanded' /\ HandedOnce'
  BY <1>1 DEF TransactionInv, DispatchOK, FastPathIsTrue, FencedIsHanded, Opened
<1>4. OpenClaimIsOwned' /\ FifoOK'
  BY <1>1 DEF TransactionInv, OpenClaimIsOwned, FifoOK, Opened
<1> QED
  BY <1>1, <1>2, <1>3, <1>4 DEF TransactionInv

LEMMA CancelledKeeps ==
    ASSUME TransactionInv, TransactionAssumption, Cancelled
    PROVE  TransactionInv' /\ Keeps
<1>0. /\ pc' = "idle" /\ cur' = 0 /\ gate' = "closed"
      /\ UNCHANGED <<orphans, skipped, startup, dropped, faults>>
      /\ admitted' = IF pc \in {"idle", "returned"} THEN admitted ELSE admitted \ {cur}
  BY DEF Cancelled, Taken
<1>1. /\ admitted' \subseteq admitted /\ Waiting' = Waiting /\ (Distinct' = Distinct)
      /\ \A k \in admitted' : k \in Kept
  <2>1. admitted' \subseteq admitted /\ Waiting' = Waiting /\ (Distinct' = Distinct)
    BY <1>0 DEF Waiting, Distinct
  <2>2. \A k \in admitted' : k \in Kept
    <3>1. \A k \in admitted : k \in Kept \/ k = cur
      BY InvFacts DEF FastPathIsTrue
    <3>2. CASE pc = "idle"
      <4>1. cur = 0 /\ admitted \subseteq Messages /\ 0 \notin Messages
        BY <3>2, InvFacts DEF TransactionInv, TransactionTypeOK
      <4> QED
        BY <1>0, <3>1, <4>1
    <3>3. CASE pc = "returned"
      <4>1. cur \in admitted => cur \in Kept
        BY <3>3, InvFacts DEF DispatchOK
      <4> QED
        BY <1>0, <3>1, <3>3, <4>1
    <3>4. CASE pc \notin {"idle", "returned"}
      BY <1>0, <3>1, <3>4
    <3> QED
      BY <3>2, <3>3, <3>4
  <2> QED
    BY <2>1, <2>2
<1>2. Handed \subseteq Handed' => Kept \subseteq Kept'
  BY <1>0, <1>1 DEF Kept
<1>3. /\ Handed \subseteq Handed' => FastPathIsTrue' /\ Keeps
      /\ DispatchOK'
  BY <1>0, <1>1, <1>2, StillKept DEF FastPathIsTrue, DispatchOK, Opened
<1>4. /\ claim' \in [Messages -> {"none", "open", "fenced"}]
      /\ handed' \in Seq(Messages)
      => TransactionTypeOK'
  BY <1>0, <1>1, InvFacts DEF TransactionTypeOK, Places
<1>5. CASE pc \in {"idle", "returned", "raised", "claim"} /\ UNCHANGED <<claim, handed>>
  <2>1. Handed' = Handed /\ (HandedOnce' = HandedOnce)
    BY <1>5 DEF Handed, HandedOnce
  <2>2. FencedIsHanded' /\ HandedOnce'
    BY <1>5, <2>1, InvFacts DEF FencedIsHanded
  <2>3. OpenClaimIsOwned' /\ FifoOK'
    BY <1>0, <1>1, <1>5, InvFacts DEF OpenClaimIsOwned, FifoOK, Opened
  <2>4. TransactionTypeOK'
    BY <1>4, <1>5, InvFacts
  <2> QED
    BY <1>3, <2>1, <2>2, <2>3, <2>4 DEF TransactionInv
<1>6. CASE pc \in Opened /\ claim' = [claim EXCEPT ![cur] = "none"] /\ UNCHANGED handed
  <2>1. cur \in Messages /\ claim[cur] = "open" /\ cur \notin Waiting
    BY <1>6, InvFacts DEF DispatchOK, FifoOK, Opened
  <2>2. /\ claim' \in [Messages -> {"none", "open", "fenced"}]
        /\ claim'[cur] = "none" /\ \A x \in Messages \ {cur} : claim'[x] = claim[x]
        /\ FencedIsHanded' /\ HandedOnce' /\ Handed' = Handed
    BY <1>6, <2>1, RecordKeeps
  <2>3. OpenClaimIsOwned' /\ FifoOK'
    BY <1>0, <1>1, <2>1, <2>2, InvFacts DEF OpenClaimIsOwned, FifoOK, Opened
  <2>4. TransactionTypeOK'
    BY <1>4, <1>6, <2>2, InvFacts
  <2> QED
    BY <1>3, <2>2, <2>3, <2>4 DEF TransactionInv
<1>7. CASE /\ pc = "deliver" /\ claim' = [claim EXCEPT ![cur] = "fenced"]
           /\ handed' = Append(handed, cur)
  <2>1. cur \in Messages /\ claim[cur] = "open" /\ cur \notin Waiting
    BY <1>7, InvFacts DEF DispatchOK, FifoOK, Opened
  <2>2. /\ claim' \in [Messages -> {"none", "open", "fenced"}]
        /\ claim'[cur] = "fenced" /\ \A x \in Messages \ {cur} : claim'[x] = claim[x]
        /\ handed' \in Seq(Messages) /\ Handed' = Handed \cup {cur}
        /\ FencedIsHanded' /\ HandedOnce'
    BY <1>7, <2>1, HandoffKeeps
  <2>3. OpenClaimIsOwned' /\ FifoOK'
    BY <1>0, <1>1, <2>1, <2>2, InvFacts DEF OpenClaimIsOwned, FifoOK, Opened
  <2> QED
    BY <1>3, <1>4, <2>2, <2>3 DEF TransactionInv
<1> QED
  BY <1>5, <1>6, <1>7 DEF Cancelled, Opened

LEMMA DiedKeeps ==
    ASSUME TransactionInv, TransactionAssumption, Died
    PROVE  TransactionInv' /\ Keeps
<1> USE DEF Died, Taken
<1>1. Handed' = Handed /\ Waiting' = {} /\ DOMAIN startup' = {} /\ (HandedOnce' = HandedOnce)
  BY DEF Handed, Waiting, HandedOnce
<1>2. Kept \subseteq Kept'
  BY <1>1 DEF Kept
<1>3. /\ orphans' \subseteq Messages /\ orphans \cup Waiting \subseteq orphans'
      /\ dropped' \subseteq Messages /\ startup' \in Seq(0..Count)
  <2>1. pc \in {"prepare", "deliver", "release"} => cur \in Messages
    BY InvFacts
  <2> QED
    BY <2>1, InvFacts
<1>4. TransactionTypeOK'
  BY <1>3, InvFacts DEF TransactionTypeOK, Places
<1>5. DispatchOK' /\ FastPathIsTrue' /\ FencedIsHanded' /\ HandedOnce'
  BY <1>1, InvFacts DEF DispatchOK, FastPathIsTrue, FencedIsHanded, Opened
<1>6. OpenClaimIsOwned'
  BY <1>1, <1>3, InvFacts DEF OpenClaimIsOwned
<1>7. FifoOK'
  BY <1>1 DEF FifoOK, Distinct
<1> QED
  BY <1>2, <1>4, <1>5, <1>6, <1>7, StillKept DEF TransactionInv

-----------------------------------------------------------------------------
(* The steps of the Gateway. *)

(* The gate moves, and nothing else. *)
LEMMA GateKeeps ==
    ASSUME TransactionInv, TransactionAssumption, OpenGate \/ GoLive \/ CloseGate
    PROVE  TransactionInv' /\ Keeps
<1>0. /\ UNCHANGED <<pc, cur, admitted, claim, handed, orphans, skipped, startup, dropped, faults>>
      /\ gate' \in {"starting", "live", "closed"} /\ (gate' = "live" => startup = <<>>)
  BY DEF OpenGate, GoLive, CloseGate
<1>1. /\ Handed' = Handed /\ Waiting' = Waiting /\ Kept \subseteq Kept' /\ Keeps
      /\ HandedOnce' = HandedOnce /\ Distinct' = Distinct
  BY <1>0, NothingMoves
<1>2. TransactionTypeOK'
  BY <1>0 DEF TransactionInv, TransactionTypeOK
<1>3. DispatchOK' /\ FastPathIsTrue' /\ FencedIsHanded' /\ HandedOnce'
  BY <1>0, <1>1 DEF TransactionInv, DispatchOK, FastPathIsTrue, FencedIsHanded, Opened, Keeps
<1>4. OpenClaimIsOwned' /\ FifoOK'
  BY <1>0, <1>1 DEF TransactionInv, OpenClaimIsOwned, FifoOK, Opened
<1> QED
  BY <1>1, <1>2, <1>3, <1>4 DEF TransactionInv

(* The first entry leaves the FIFO: handed over, given up, or disowned. *)
LEMMA PoppedKeeps ==
    ASSUME TransactionInv, TransactionAssumption, gate # "live", startup # <<>>,
           startup' = Tail(startup), UNCHANGED <<pc, cur, admitted, skipped>>,
           gate' \in {gate, "closed"}, Fault \/ UNCHANGED faults,
           \/ /\ Head(startup) # 0
              /\ claim' = [claim EXCEPT ![Head(startup)] = "fenced"]
              /\ handed' = Append(handed, Head(startup))
              /\ UNCHANGED <<orphans, dropped>>
           \/ /\ Head(startup) # 0
              /\ \/ claim' = [claim EXCEPT ![Head(startup)] = "none"] /\ UNCHANGED orphans
                 \/ orphans' = orphans \cup {Head(startup)} /\ UNCHANGED claim
              /\ dropped' = dropped \cup {Head(startup)}
              /\ UNCHANGED handed
           \/ /\ Head(startup) = 0
              /\ UNCHANGED <<claim, handed, orphans, dropped>>
    PROVE  TransactionInv' /\ Keeps
<1>0. PICK m \in 0..Count : m = Head(startup)
  BY InvFacts, TailWaits
<1>1. /\ startup' \in Seq(0..Count) /\ Distinct'
      /\ m = 0 => Waiting' = Waiting
      /\ m # 0 => m \in Waiting /\ Waiting' = Waiting \ {m}
  BY <1>0, InvFacts, TailWaits
<1>2. /\ m # 0 => m \in Messages /\ claim[m] = "open" /\ (pc \in Opened => m # cur)
      /\ faults' \in 0..MaxFaults /\ gate' \in {"starting", "live", "closed"} /\ gate' # "live"
  <2>1. faults' \in 0..MaxFaults
    BY FaultKeeps, InvFacts DEF TransactionInv
  <2> QED
    BY <1>1, <2>1, InvFacts DEF FifoOK
<1>3. /\ Handed \subseteq Handed' /\ FencedIsHanded' /\ HandedOnce' /\ Kept \subseteq Kept'
      /\ claim' \in [Messages -> {"none", "open", "fenced"}]
      /\ handed' \in Seq(Messages) /\ orphans' \subseteq Messages /\ dropped' \subseteq Messages
      /\ \A x \in Messages : x # m => claim'[x] = claim[x]
      /\ m # 0 /\ claim'[m] = "open" => m \in orphans'
      /\ orphans \subseteq orphans'
  <2>1. CASE /\ m # 0 /\ claim' = [claim EXCEPT ![m] = "fenced"]
             /\ handed' = Append(handed, m) /\ UNCHANGED <<orphans, dropped>>
    <3>1. /\ claim' \in [Messages -> {"none", "open", "fenced"}]
          /\ claim'[m] = "fenced" /\ \A x \in Messages \ {m} : claim'[x] = claim[x]
          /\ handed' \in Seq(Messages) /\ Handed' = Handed \cup {m}
          /\ FencedIsHanded' /\ HandedOnce'
      BY <1>2, <2>1, HandoffKeeps
    <3>2. Kept \subseteq Kept'
      BY <1>1, <2>1, <3>1 DEF Kept
    <3> QED
      BY <2>1, <3>1, <3>2, InvFacts
  <2>2. CASE /\ m # 0 /\ claim' = [claim EXCEPT ![m] = "none"] /\ UNCHANGED orphans
             /\ dropped' = dropped \cup {m} /\ UNCHANGED handed
    <3>1. /\ claim' \in [Messages -> {"none", "open", "fenced"}]
          /\ claim'[m] = "none" /\ \A x \in Messages \ {m} : claim'[x] = claim[x]
          /\ FencedIsHanded' /\ HandedOnce' /\ Handed' = Handed
      BY <1>2, <2>2, RecordKeeps
    <3>2. Kept \subseteq Kept'
      BY <1>1, <2>2, <3>1 DEF Kept
    <3> QED
      BY <1>2, <2>2, <3>1, <3>2, InvFacts
  <2>3. CASE /\ m # 0 /\ orphans' = orphans \cup {m} /\ UNCHANGED claim
             /\ dropped' = dropped \cup {m} /\ UNCHANGED handed
    <3>1. Handed' = Handed /\ (HandedOnce' = HandedOnce)
      BY <2>3 DEF Handed, HandedOnce
    <3>2. Kept \subseteq Kept' /\ FencedIsHanded'
      BY <1>1, <2>3, <3>1, InvFacts DEF Kept, FencedIsHanded
    <3> QED
      BY <1>2, <2>3, <3>1, <3>2, InvFacts
  <2>4. CASE m = 0 /\ UNCHANGED <<claim, handed, orphans, dropped>>
    <3>1. Handed' = Handed /\ (HandedOnce' = HandedOnce)
      BY <2>4 DEF Handed, HandedOnce
    <3>2. Kept \subseteq Kept' /\ FencedIsHanded'
      BY <1>1, <2>4, <3>1, InvFacts DEF Kept, FencedIsHanded
    <3> QED
      BY <2>4, <3>1, <3>2, InvFacts
  <2> QED
    BY <1>0, <2>1, <2>2, <2>3, <2>4
<1>4. Keeps
  BY <1>3, StillKept
<1>5. TransactionTypeOK'
  BY <1>1, <1>2, <1>3 DEF TransactionInv, TransactionTypeOK
<1>6. DispatchOK' /\ FastPathIsTrue'
  <2>1. pc' \in Opened => claim'[cur'] = "open"
    BY <1>2, <1>3, InvFacts DEF DispatchOK, Opened
  <2>2. Handled(cur) => Handled(cur)'
    BY <1>3 DEF Handled
  <2> QED
    BY <1>3, <2>1, <2>2, InvFacts DEF DispatchOK, FastPathIsTrue
<1>7. OpenClaimIsOwned'
  BY <1>1, <1>3, InvFacts DEF OpenClaimIsOwned
<1>8. FifoOK'
  BY <1>1, <1>2, <1>3, InvFacts DEF FifoOK
<1> QED
  BY <1>3, <1>4, <1>5, <1>6, <1>7, <1>8 DEF TransactionInv

LEMMA DrainKeeps ==
    ASSUME TransactionInv, TransactionAssumption, Drain
    PROVE  TransactionInv' /\ Keeps
BY PoppedKeeps DEF Drain

LEMMA RollBackKeeps ==
    ASSUME TransactionInv, TransactionAssumption, RollBack
    PROVE  TransactionInv' /\ Keeps
BY PoppedKeeps DEF RollBack

LEMMA GatewayKeeps ==
    ASSUME TransactionInv, TransactionAssumption, GatewayStep
    PROVE  TransactionInv' /\ Keeps /\ UNCHANGED <<pc, cur>>
<1>1. UNCHANGED <<pc, cur>>
  BY DEF GatewayStep, Drain, GoLive, RollBack
<1> QED
  BY <1>1, GateKeeps, DrainKeeps, RollBackKeeps DEF GatewayStep

-----------------------------------------------------------------------------
(* A step beside the transaction. *)
LEMMA TransactionStays ==
    ASSUME TransactionInv, TransactionAssumption, Fault \/ UNCHANGED faults,
           UNCHANGED dispatchVars
    PROVE  TransactionInv' /\ Keeps
<1>0. UNCHANGED <<pc, cur, admitted, claim, handed, orphans, skipped, gate, startup, dropped>>
  BY DEF dispatchVars, gateVars
<1>1. /\ Handed' = Handed /\ Waiting' = Waiting /\ Kept \subseteq Kept' /\ Keeps
      /\ HandedOnce' = HandedOnce /\ Distinct' = Distinct
  BY <1>0, NothingMoves
<1>2. faults' \in 0..MaxFaults
  BY FaultKeeps DEF TransactionInv, TransactionAssumption
<1>3. TransactionTypeOK'
  BY <1>0, <1>2 DEF TransactionInv, TransactionTypeOK
<1>4. DispatchOK' /\ FastPathIsTrue' /\ FencedIsHanded' /\ HandedOnce'
  BY <1>0, <1>1 DEF TransactionInv, DispatchOK, FastPathIsTrue, FencedIsHanded, Opened, Keeps
<1>5. OpenClaimIsOwned' /\ FifoOK'
  BY <1>0, <1>1 DEF TransactionInv, OpenClaimIsOwned, FifoOK, Opened
<1> QED
  BY <1>1, <1>3, <1>4, <1>5 DEF TransactionInv

LEMMA TransactionStutters ==
    ASSUME TransactionInv, TransactionAssumption, UNCHANGED transactionVars
    PROVE  TransactionInv' /\ Keeps /\ Handed' = Handed
<1>1. UNCHANGED dispatchVars /\ UNCHANGED faults
  BY DEF transactionVars
<1>2. Handed' = Handed
  BY <1>1 DEF dispatchVars, Handed
<1> QED
  BY <1>1, <1>2, TransactionStays

(* The message whose dispatch raised is dispatched again. *)
LEMMA RetryKeeps ==
    ASSUME TransactionInv, TransactionAssumption, pc = "raised", pc' = "claim", cur' = cur,
           admitted' \in Remember(cur, admitted),
           UNCHANGED <<claim, handed, orphans, skipped, gateVars, faults>>
    PROVE  TransactionInv' /\ Keeps
<1> USE DEF gateVars
<1>1. /\ Handed' = Handed /\ Waiting' = Waiting /\ Kept \subseteq Kept' /\ Keeps
      /\ HandedOnce' = HandedOnce /\ Distinct' = Distinct
  BY NothingMoves
<1>2. cur \in Messages /\ cur # 0 /\ admitted \subseteq Messages
  BY InvFacts
<1>3. admitted' \subseteq admitted \cup {cur}
  BY RememberFacts
<1>4. TransactionTypeOK'
  BY <1>2, <1>3 DEF TransactionInv, TransactionTypeOK, Places
<1>5. DispatchOK' /\ FastPathIsTrue' /\ FencedIsHanded' /\ HandedOnce'
  BY <1>1, <1>3 DEF TransactionInv, DispatchOK, FastPathIsTrue, FencedIsHanded, Opened
<1>6. OpenClaimIsOwned' /\ FifoOK'
  BY <1>1 DEF TransactionInv, OpenClaimIsOwned, FifoOK, Opened
<1> QED
  BY <1>1, <1>4, <1>5, <1>6 DEF TransactionInv

=============================================================================

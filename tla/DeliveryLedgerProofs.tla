------------------------ MODULE DeliveryLedgerProofs ------------------------
(***************************************************************************)
(* Theorems about the delivery ledger, for every set of deliveries, every  *)
(* number of chunks and copies and every failure budget; and about the     *)
(* history cursors the adapters catch up with, for every page and slice,   *)
(* every number of attempts and every history.                             *)
(***************************************************************************)
EXTENDS DeliveryLedger, HistoryCursors, TLAPS, FiniteSetTheorems, WellFoundedInduction

USE BatchesAssumption, ChunksAssumption, MaxFailuresAssumption, MaxCopiesAssumption

-----------------------------------------------------------------------------
(* What the adapter knows of a copy, the strengthening ConfirmedLanded     *)
(* needs: a slot that was never emitted left nothing on the platform, a    *)
(* posting under way has a chunk to go, a confirm request follows the last *)
(* chunk.                                                                  *)
CopyOK(c) ==
  /\ c.phase = "unsent" => c.landed = 0
  /\ c.phase \in {"open", "orphan"} => c.landed < Chunks
  /\ c.phase = "confirm" => c.landed = Chunks

CopyInv ==
  \A d \in Deliveries : \A i \in Slots :
    /\ CopyOK(copy[d][i])
    /\ i > sent[d] => copy[d][i].phase = "unsent"

(* Every chunk once on the platform stays there.                           *)
LandedKept ==
  \A d \in Deliveries : \A i \in Slots : copy'[d][i].landed >= copy[d][i].landed

(* The part of the type invariant an emission or a posting can disturb.    *)
CopyTypeOK ==
  /\ copy \in [Deliveries -> [Slots -> Copy]]
  /\ sent \in [Deliveries -> 0..MaxCopies]

(* An emission fills the next free slot of a delivery with an open copy    *)
(* and leaves every other slot alone (broadcastDelivery, the connect       *)
(* replay).                                                                *)
LEMMA EmitLemma ==
  ASSUME CopyTypeOK, CopyInv, NEW E, NEW Warned, NEW connected, Emit(E, Warned, connected)
  PROVE  CopyTypeOK' /\ CopyInv' /\ LandedKept
<1> DEFINE Room == {d \in E : connected /\ sent[d] < MaxCopies}
<1> DEFINE Fresh(d) == [phase |-> "open", warn |-> d \in Warned, landed |-> 0]
<1>1. copy' = [d \in Deliveries |->
                 IF d \in Room THEN [copy[d] EXCEPT ![sent[d] + 1] = Fresh(d)] ELSE copy[d]]
  BY DEF Emit
<1>2. sent' = [d \in Deliveries |-> IF d \in Room THEN sent[d] + 1 ELSE sent[d]]
  BY DEF Emit
<1>3. ASSUME NEW d \in Deliveries PROVE Fresh(d) \in Copy /\ CopyOK(Fresh(d))
  BY DEF Copy, Phases, CopyOK
<1>4. ASSUME NEW d \in Deliveries, NEW i \in Slots
      PROVE  /\ copy'[d][i] \in Copy
             /\ CopyOK(copy'[d][i])
             /\ i > sent'[d] => copy'[d][i].phase = "unsent"
             /\ copy'[d][i].landed >= copy[d][i].landed
  <2>1. sent[d] \in 0..MaxCopies /\ copy[d][i] \in Copy /\ copy[d] \in [Slots -> Copy]
    BY DEF CopyTypeOK
  <2>2. CASE d \in Room /\ i = sent[d] + 1
    <3>1. copy'[d][i] = Fresh(d) /\ sent'[d] = sent[d] + 1
      BY <1>1, <1>2, <2>1, <2>2
    <3>2. copy[d][i].phase = "unsent" /\ copy[d][i].landed = 0
      BY <2>1, <2>2 DEF CopyInv, CopyOK, Slots
    <3> QED BY <1>3, <2>1, <2>2, <3>1, <3>2
  <2>3. CASE ~(d \in Room /\ i = sent[d] + 1)
    <3>1. copy'[d][i] = copy[d][i] /\ sent'[d] \in {sent[d], sent[d] + 1}
      BY <1>1, <1>2, <2>1, <2>3
    <3>2. copy[d][i].landed \in Nat
      BY <2>1 DEF Copy
    <3>3. CopyOK(copy[d][i]) /\ (i > sent[d] => copy[d][i].phase = "unsent")
      BY DEF CopyInv
    <3> QED BY <2>1, <3>1, <3>2, <3>3 DEF Slots
  <2> QED BY <2>2, <2>3
<1>5. sent' \in [Deliveries -> 0..MaxCopies]
  BY <1>2 DEF CopyTypeOK
<1>6. copy' \in [Deliveries -> [Slots -> Copy]]
  <2>1. ASSUME NEW d \in Deliveries PROVE copy'[d] \in [Slots -> Copy]
    <3>1. copy[d] \in [Slots -> Copy] BY DEF CopyTypeOK
    <3>2. CASE d \in Room BY <1>1, <1>3, <3>1, <3>2
    <3>3. CASE d \notin Room BY <1>1, <3>1, <3>3
    <3> QED BY <3>2, <3>3
  <2> QED BY <1>1, <2>1
<1> QED BY <1>4, <1>5, <1>6 DEF CopyTypeOK, CopyInv, LandedKept

(* Losing the connection moves phases on and takes nothing back from the   *)
(* platform.                                                               *)
LEMMA DropLemma ==
  ASSUME CopyTypeOK, CopyInv, DropConnection
  PROVE  CopyTypeOK' /\ CopyInv' /\ LandedKept
<1>1. ASSUME NEW c \in Copy, CopyOK(c)
      PROVE  /\ Orphaned(c) \in Copy /\ CopyOK(Orphaned(c)) /\ Orphaned(c).landed = c.landed
             /\ c.phase = "unsent" => Orphaned(c).phase = "unsent"
  BY <1>1 DEF Copy, Phases, CopyOK, Orphaned
<1>2. ASSUME NEW d \in Deliveries, NEW i \in Slots
      PROVE  /\ copy'[d][i] \in Copy
             /\ CopyOK(copy'[d][i])
             /\ i > sent'[d] => copy'[d][i].phase = "unsent"
             /\ copy'[d][i].landed >= copy[d][i].landed
  <2>1. copy[d][i] \in Copy /\ CopyOK(copy[d][i]) /\ copy'[d][i] = Orphaned(copy[d][i])
    BY DEF CopyTypeOK, CopyInv, DropConnection
  <2>2. copy[d][i].landed \in Nat BY <2>1 DEF Copy
  <2>3. sent' = sent /\ (i > sent[d] => copy[d][i].phase = "unsent")
    BY DEF CopyInv, DropConnection
  <2> QED BY <1>1, <2>1, <2>2, <2>3
<1>3. copy' \in [Deliveries -> [Slots -> Copy]] /\ sent' = sent
  BY <1>2 DEF DropConnection
<1> QED BY <1>2, <1>3 DEF CopyTypeOK, CopyInv, LandedKept

(* The death of the adapter process does the same, and ends every copy.    *)
LEMMA AdapterCrashLemma ==
  ASSUME CopyTypeOK, CopyInv, AdapterCrash
  PROVE  CopyTypeOK' /\ CopyInv' /\ LandedKept
<1> DEFINE Ended(c) == [c EXCEPT !.phase = IF @ = "unsent" THEN @ ELSE "done"]
<1>1. ASSUME NEW c \in Copy, CopyOK(c)
      PROVE  /\ Ended(c) \in Copy /\ CopyOK(Ended(c)) /\ Ended(c).landed = c.landed
             /\ c.phase = "unsent" => Ended(c).phase = "unsent"
  BY <1>1 DEF Copy, Phases, CopyOK
<1>2. ASSUME NEW d \in Deliveries, NEW i \in Slots
      PROVE  /\ copy'[d][i] \in Copy
             /\ CopyOK(copy'[d][i])
             /\ i > sent'[d] => copy'[d][i].phase = "unsent"
             /\ copy'[d][i].landed >= copy[d][i].landed
  <2>1. copy[d][i] \in Copy /\ CopyOK(copy[d][i]) /\ copy'[d][i] = Ended(copy[d][i])
    BY DEF CopyTypeOK, CopyInv, AdapterCrash
  <2>2. copy[d][i].landed \in Nat BY <2>1 DEF Copy
  <2>3. sent' = sent /\ (i > sent[d] => copy[d][i].phase = "unsent")
    BY DEF CopyInv, AdapterCrash
  <2> HIDE DEF Ended
  <2> QED BY <1>1, <2>1, <2>2, <2>3
<1>3. copy' \in [Deliveries -> [Slots -> Copy]] /\ sent' = sent
  BY <1>2 DEF AdapterCrash
<1> QED BY <1>2, <1>3 DEF CopyTypeOK, CopyInv, LandedKept

(* A handler that moves one copy on changes that slot only.                *)
LEMMA SlotLemma ==
  ASSUME CopyTypeOK, CopyInv, NEW d \in Deliveries, NEW i \in Slots,
         NEW c \in Copy, CopyOK(c), c.landed >= copy[d][i].landed,
         copy[d][i].phase # "unsent",
         copy' = [copy EXCEPT ![d][i] = c], sent' = sent
  PROVE  CopyTypeOK' /\ CopyInv' /\ LandedKept
<1>1. ASSUME NEW e \in Deliveries, NEW j \in Slots
      PROVE  /\ copy'[e][j] \in Copy
             /\ CopyOK(copy'[e][j])
             /\ j > sent'[e] => copy'[e][j].phase = "unsent"
             /\ copy'[e][j].landed >= copy[e][j].landed
  <2>1. copy[e][j] \in Copy /\ CopyOK(copy[e][j])
        /\ (j > sent[e] => copy[e][j].phase = "unsent")
    BY DEF CopyTypeOK, CopyInv
  <2>2. copy[e][j].landed \in Nat BY <2>1 DEF Copy
  <2>3. copy'[e][j] = IF e = d /\ j = i THEN c ELSE copy[e][j]
    BY DEF CopyTypeOK
  <2> QED BY <2>1, <2>2, <2>3
<1>2. copy' \in [Deliveries -> [Slots -> Copy]]
  BY DEF CopyTypeOK
<1> QED BY <1>1, <1>2 DEF CopyTypeOK, CopyInv, LandedKept

(* A confirmed row keeps its witness: what landed stays landed.            *)
LEMMA WitnessLemma ==
  ASSUME TypeOK, CopyTypeOK', ConfirmedLanded, LandedKept,
         NEW d \in Deliveries, state[d] = "confirmed"
  PROVE  \E i \in Slots : copy'[d][i].landed = Chunks
<1>1. PICK i \in Slots : copy[d][i].landed = Chunks
  BY DEF ConfirmedLanded
<1>2. copy'[d][i].landed \in 0..Chunks /\ copy'[d][i].landed >= Chunks
  BY <1>1 DEF CopyTypeOK, Copy, LandedKept
<1> QED BY <1>2

-----------------------------------------------------------------------------
(* The parts of TypeOK that are not about copies.                          *)
RowTypeOK ==
  /\ state \in [Deliveries -> States]
  /\ attempts \in [Deliveries -> Nat]
  /\ rested \in [Deliveries -> BOOLEAN]
  /\ stale \in [Deliveries -> BOOLEAN]
  /\ conn \in BOOLEAN
  /\ event \in [Deliveries -> {"none", "authored", "delivered", "failed_no_retry"}]
  /\ noticed \in SUBSET Deliveries

(* A row not yet created has no failures to its name.                      *)
NoEarlyFailures == \A d \in Deliveries : state[d] = "absent" => attempts[d] = 0

(* The inductive invariant of the ledger.                                  *)
IInv ==
  /\ TypeOK
  /\ CopyInv
  /\ ConfirmedLanded
  /\ DeliveredOnlyConfirmed
  /\ FailureBudget
  /\ NoEarlyFailures

(* A step that keeps what landed re-establishes ConfirmedLanded when every *)
(* newly confirmed row has a full copy.                                    *)
LEMMA ConfirmedLemma ==
  ASSUME TypeOK, CopyTypeOK', ConfirmedLanded, LandedKept,
         \A d \in Deliveries : state'[d] = "confirmed" => state[d] = "confirmed"
  PROVE  ConfirmedLanded'
BY WitnessLemma DEF ConfirmedLanded

LEMMA InitLemma == Init => IInv
<1> SUFFICES ASSUME Init PROVE IInv OBVIOUS
<1>1. Unsent \in Copy /\ CopyOK(Unsent)
  BY DEF Unsent, Copy, Phases, CopyOK
<1>2. TypeOK
  <2>1. copy \in [Deliveries -> [Slots -> Copy]] /\ sent \in [Deliveries -> 0..MaxCopies]
    BY <1>1 DEF Init
  <2>2. event \in [Deliveries -> {"none", "authored", "delivered", "failed_no_retry"}]
    BY DEF Init
  <2>3. state \in [Deliveries -> States] /\ noticed \in SUBSET Deliveries
    BY DEF Init, States
  <2>4. attempts \in [Deliveries -> Nat] /\ rested \in [Deliveries -> BOOLEAN]
        /\ stale \in [Deliveries -> BOOLEAN] /\ conn \in BOOLEAN
    BY DEF Init
  <2> QED BY <2>1, <2>2, <2>3, <2>4 DEF TypeOK
<1>3. CopyInv
  BY <1>1 DEF Init, CopyInv, Unsent
<1> QED BY <1>2, <1>3 DEF Init, IInv, ConfirmedLanded, DeliveredOnlyConfirmed, FailureBudget, NoEarlyFailures

RowInv == RowTypeOK /\ DeliveredOnlyConfirmed /\ FailureBudget /\ NoEarlyFailures

(* Each action keeps the row types, and the row invariants that do not     *)
(* mention copies.                                                         *)
LEMMA RowLemma ==
  ASSUME IInv, Next
  PROVE  RowInv'
<1> USE DEF IInv, TypeOK, RowInv, RowTypeOK, DeliveredOnlyConfirmed, FailureBudget, NoEarlyFailures
<1> USE DEF States, Unsettled
<1>1. CASE Connect
  BY <1>1 DEF Connect, ReportExpired, StaleRows
<1>2. CASE SweepTimer
  BY <1>2 DEF SweepTimer, ReportExpired, StaleRows, Undelivered
<1>3. CASE SweepCrash
  BY <1>3 DEF SweepCrash, DropConnection, StaleRows
<1>4. CASE Disconnect
  BY <1>4 DEF Disconnect, DropConnection, ledgerVars
<1>5. CASE AdapterCrash
  BY <1>5 DEF AdapterCrash, ledgerVars
<1>6. ASSUME NEW D \in SUBSET Deliveries, Requeue(D)
      PROVE  RowInv'
  BY <1>6 DEF Requeue, Requeueable
<1>7. ASSUME NEW d \in Deliveries,
             Prepare(d) \/ PrepareCrash(d) \/ Prune(d) \/ Rest(d) \/ Age(d)
      PROVE  RowInv'
  <2>1. CASE Prepare(d) \/ PrepareCrash(d)
    <3>1. PICK s \in {"inflight", "pending"} : state' = [state EXCEPT ![d] = s]
      BY <2>1 DEF Prepare, PrepareCrash
    <3>2. /\ state[d] = "absent" /\ attempts' = attempts /\ rested' = rested
          /\ stale' = stale /\ event' = event /\ noticed' = noticed /\ conn' \in BOOLEAN
      BY <2>1 DEF Prepare, PrepareCrash, DropConnection
    <3> QED BY <3>1, <3>2
  <2>2. CASE Prune(d) BY <2>2 DEF Prune
  <2>3. CASE Rest(d) BY <2>3 DEF Rest
  <2>4. CASE Age(d) BY <2>4 DEF Age
  <2> QED BY <1>7, <2>1, <2>2, <2>3, <2>4
<1>8. ASSUME NEW d \in Deliveries, ReconcileBatch(d)
      PROVE  RowInv'
  BY <1>8 DEF ReconcileBatch, ledgerVars
<1>9. ASSUME NEW d \in Deliveries, NEW i \in Slots, Confirm(d, i)
      PROVE  RowInv'
  <2>1. /\ state' \in {state, [state EXCEPT ![d] = "confirmed"]}
        /\ rested' \in {rested, [rested EXCEPT ![d] = FALSE]}
        /\ event' \in {event, [event EXCEPT ![d] = "delivered"]}
        /\ UNCHANGED <<attempts, stale, conn, noticed>>
    BY <1>9 DEF Confirm
  <2> HIDE DEF IInv, RowInv, DeliveredOnlyConfirmed, FailureBudget, NoEarlyFailures
  <2>2. RowTypeOK'
    <3>1. TypeOK
      BY DEF IInv
    <3>2. state' \in [Deliveries -> States]
      BY <2>1, <3>1
    <3>3. rested' \in [Deliveries -> BOOLEAN]
      BY <2>1, <3>1
    <3>4. event' \in [Deliveries -> {"none", "authored", "delivered", "failed_no_retry"}]
      BY <2>1, <3>1
    <3> QED BY <2>1, <3>1, <3>2, <3>3, <3>4
  <2>3. \A b \in Deliveries : (b # d \/ state'[b] # "confirmed") => state'[b] = state[b] /\ event'[b] = event[b]
    BY <1>9 DEF Confirm, IInv
  <2> QED BY <2>1, <2>2, <2>3 DEF IInv, RowInv, DeliveredOnlyConfirmed, FailureBudget, NoEarlyFailures
<1>10. ASSUME NEW d \in Deliveries, NEW i \in Slots, RecordFailure(d, i),
              conn' \in BOOLEAN,
              \/ UNCHANGED <<event, noticed>>
              \/ ReportExpired(IF state[d] \in Unsettled /\ state'[d] = "expired"
                               THEN {d} ELSE {})
      PROVE  RowInv'
  <2>1. /\ event' \in [Deliveries -> {"none", "authored", "delivered", "failed_no_retry"}]
        /\ noticed' \in SUBSET Deliveries
        /\ \A e \in Deliveries : event'[e] = "delivered" => event[e] = "delivered"
    BY <1>10 DEF ReportExpired
  <2>2. CASE state[d] \in Unsettled
    <3> DEFINE s == FailedState(copy[d][i].phase = "failAmbiguous", attempts[d] + 1)
    <3>1. /\ state' = [state EXCEPT ![d] = s]
          /\ attempts' = [attempts EXCEPT ![d] = attempts[d] + 1]
          /\ rested' = [rested EXCEPT ![d] = FALSE] /\ stale' = stale
      BY <1>10, <2>2 DEF RecordFailure
    <3>2. /\ s \in {"failed_ambiguous", "expired", "pending"}
          /\ s = "expired" => attempts[d] + 1 >= MaxFailures
          /\ s = "pending" => attempts[d] + 1 < MaxFailures
      BY DEF FailedState
    <3> HIDE DEF s
    <3> QED BY <1>10, <2>1, <2>2, <3>1, <3>2
  <2>3. CASE state[d] \notin Unsettled
    BY <1>10, <2>1, <2>3 DEF RecordFailure
  <2> QED BY <2>2, <2>3
<1>11. ASSUME NEW d \in Deliveries, NEW i \in Slots, Fail(d, i) \/ FailCrash(d, i)
      PROVE  RowInv'
  <2>1. RecordFailure(d, i) /\ conn' \in BOOLEAN
    BY <1>11 DEF Fail, FailCrash, DropConnection
  <2> QED BY <1>10, <1>11, <2>1 DEF Fail, FailCrash
<1>12. ASSUME NEW d \in Deliveries, NEW i \in Slots,
              PostChunk(d, i) \/ PostRefused(d, i) \/ PostUnknown(d, i)
      PROVE  RowInv'
  BY <1>12 DEF PostChunk, PostRefused, PostUnknown, ledgerVars
<1> QED BY <1>1, <1>2, <1>3, <1>4, <1>5, <1>6, <1>7, <1>8, <1>9, <1>10, <1>11, <1>12 DEF Next

(* Each action keeps the copies in order and what landed landed.           *)
LEMMA CopyLemma ==
  ASSUME IInv, Next
  PROVE  CopyTypeOK' /\ CopyInv' /\ LandedKept
<1>1. CopyTypeOK /\ CopyInv
  BY DEF IInv, TypeOK, CopyTypeOK
<1>2. CASE Connect \/ SweepTimer \/ (\E D \in SUBSET Deliveries : Requeue(D))
           \/ \E d \in Deliveries : Prepare(d)
  <2>1. \E E, W, c : Emit(E, W, c)
    BY <1>2 DEF Connect, SweepTimer, Requeue, Prepare
  <2> QED BY <1>1, <2>1, EmitLemma
<1>3. CASE SweepCrash \/ Disconnect \/ (\E d \in Deliveries : PrepareCrash(d))
           \/ \E d \in Deliveries : \E i \in Slots : FailCrash(d, i)
  BY <1>1, <1>3, DropLemma DEF SweepCrash, Disconnect, PrepareCrash, FailCrash
<1>4. CASE AdapterCrash
  BY <1>1, <1>4, AdapterCrashLemma
<1>5. CASE UNCHANGED <<copy, sent>>
  <2>1. LandedKept
    <3> SUFFICES ASSUME NEW d \in Deliveries, NEW i \in Slots
                 PROVE  copy'[d][i].landed >= copy[d][i].landed
      BY DEF LandedKept
    <3>1. copy[d][i].landed \in Nat BY <1>1 DEF CopyTypeOK, Copy
    <3> QED BY <1>5, <3>1
  <2> QED BY <1>1, <1>5, <2>1 DEF CopyTypeOK, CopyInv
<1>6. ASSUME NEW d \in Deliveries, NEW i \in Slots,
             \/ Confirm(d, i) \/ Fail(d, i)
             \/ PostChunk(d, i) \/ PostRefused(d, i) \/ PostUnknown(d, i)
      PROVE  CopyTypeOK' /\ CopyInv' /\ LandedKept
  <2> DEFINE c == copy[d][i]
  <2>1. c \in Copy /\ CopyOK(c) /\ sent' = sent
    BY <1>1, <1>6 DEF CopyTypeOK, CopyInv, Confirm, Fail, PostChunk, PostRefused, PostUnknown
  <2>2. CASE Confirm(d, i) \/ Fail(d, i)
    <3>1. PICK p \in {"done", "failAmbiguous"} : copy' = [copy EXCEPT ![d][i].phase = p]
      BY <2>2 DEF Confirm, Fail
    <3>2. c.phase # "unsent"
      BY <2>2 DEF Confirm, Fail, RecordFailure
    <3> DEFINE n == [c EXCEPT !.phase = p]
    <3>3. n \in Copy /\ CopyOK(n) /\ n.landed >= c.landed
      BY <2>1 DEF Copy, Phases, CopyOK
    <3>4. copy' = [copy EXCEPT ![d][i] = n]
      BY <3>1, <1>1 DEF CopyTypeOK
    <3> HIDE DEF n
    <3> QED BY <1>1, <2>1, <3>2, <3>3, <3>4, SlotLemma
  <2>3. CASE PostChunk(d, i)
    <3> DEFINE n == [phase |-> IF c.landed + 1 < Chunks THEN c.phase
                               ELSE IF c.phase = "open" THEN "confirm" ELSE "done",
                     warn |-> c.warn, landed |-> c.landed + 1]
    <3>1. c.phase # "unsent" /\ copy' = [copy EXCEPT ![d][i] = n]
      BY <2>3 DEF PostChunk
    <3>2. n \in Copy /\ CopyOK(n) /\ n.landed >= c.landed
      BY <2>1, <2>3 DEF Copy, Phases, CopyOK, PostChunk
    <3> HIDE DEF n
    <3> QED BY <1>1, <2>1, <3>1, <3>2, SlotLemma
  <2>4. CASE PostRefused(d, i)
    <3> DEFINE n == [c EXCEPT !.phase = IF c.phase = "open" THEN "fail" ELSE "done"]
    <3>1. c.phase # "unsent" /\ copy' = [copy EXCEPT ![d][i] = n]
      BY <2>4 DEF PostRefused
    <3>2. n \in Copy /\ CopyOK(n) /\ n.landed >= c.landed
      BY <2>1 DEF Copy, Phases, CopyOK
    <3> HIDE DEF n
    <3> QED BY <1>1, <2>1, <3>1, <3>2, SlotLemma
  <2>5. CASE PostUnknown(d, i)
    <3> DEFINE n(k) == [phase |-> IF c.phase = "open" THEN "failAmbiguous" ELSE "done",
                        warn |-> c.warn, landed |-> c.landed + k]
    <3>1. PICK k \in {0, 1} : copy' = [copy EXCEPT ![d][i] = n(k)]
      BY <2>5 DEF PostUnknown
    <3>2. c.phase # "unsent" /\ c.phase \in {"open", "orphan"}
      BY <2>5 DEF PostUnknown
    <3>3. n(k) \in Copy /\ CopyOK(n(k)) /\ n(k).landed >= c.landed
      BY <2>1, <3>2 DEF Copy, Phases, CopyOK
    <3> HIDE DEF n
    <3> QED BY <1>1, <2>1, <3>1, <3>2, <3>3, SlotLemma
  <2> QED BY <1>6, <2>2, <2>3, <2>4, <2>5
<1>7. ASSUME NEW d \in Deliveries, Prune(d) \/ ReconcileBatch(d) \/ Rest(d) \/ Age(d)
      PROVE  UNCHANGED <<copy, sent>>
  BY <1>7 DEF Prune, ReconcileBatch, Rest, Age
<1> QED BY <1>2, <1>3, <1>4, <1>5, <1>6, <1>7 DEF Next

(* Only a confirm request turns a row confirmed.                           *)
LEMMA OnlyConfirmLemma ==
  ASSUME TypeOK, Next, NEW d \in Deliveries, state'[d] = "confirmed", state[d] # "confirmed"
  PROVE  \E i \in Slots : Confirm(d, i)
<1> USE DEF TypeOK
<1>1. ~Connect /\ ~SweepTimer /\ ~SweepCrash
  BY DEF Connect, SweepTimer, SweepCrash
<1>2. ~Disconnect /\ ~AdapterCrash
  BY DEF Disconnect, AdapterCrash, ledgerVars
<1>3. \A D \in SUBSET Deliveries : ~Requeue(D)
  BY DEF Requeue
<1>4. ASSUME NEW e \in Deliveries
      PROVE  /\ ~Prepare(e) /\ ~PrepareCrash(e) /\ ~Prune(e) /\ ~ReconcileBatch(e)
             /\ ~Rest(e) /\ ~Age(e)
  BY DEF Prepare, PrepareCrash, Prune, ReconcileBatch, Rest, Age, ledgerVars
<1>5. ASSUME NEW e \in Deliveries, NEW i \in Slots
      PROVE  /\ ~Fail(e, i) /\ ~FailCrash(e, i)
             /\ ~PostChunk(e, i) /\ ~PostRefused(e, i) /\ ~PostUnknown(e, i)
  <2>1. ~RecordFailure(e, i)
    BY DEF RecordFailure, FailedState
  <2> QED BY <2>1 DEF Fail, FailCrash, PostChunk, PostRefused, PostUnknown, ledgerVars
<1>6. ASSUME NEW e \in Deliveries, NEW i \in Slots, Confirm(e, i)
      PROVE  e = d
  BY <1>6 DEF Confirm
<1> QED BY <1>1, <1>2, <1>3, <1>4, <1>5, <1>6 DEF Next

(* A step keeps the inductive invariant.                                   *)
LEMMA StepLemma == IInv /\ [Next]_vars => IInv'
<1> SUFFICES ASSUME IInv, [Next]_vars PROVE IInv' OBVIOUS
<1>1. CASE Next
  <2>1. RowInv' BY <1>1, RowLemma
  <2>2. CopyTypeOK' /\ CopyInv' /\ LandedKept BY <1>1, CopyLemma
  <2>3. ConfirmedLanded'
    <3> SUFFICES ASSUME NEW d \in Deliveries, state'[d] = "confirmed"
                 PROVE  \E i \in Slots : copy'[d][i].landed = Chunks
      BY DEF ConfirmedLanded
    <3>1. CASE state[d] = "confirmed"
      BY <2>2, <3>1, WitnessLemma DEF IInv
    <3>2. CASE state[d] # "confirmed"
      <4>1. PICK i \in Slots : Confirm(d, i)
        BY <1>1, <3>2, OnlyConfirmLemma DEF IInv
      <4>2. copy[d][i].landed = Chunks
        BY <4>1 DEF Confirm, IInv, CopyInv, CopyOK
      <4>3. copy'[d][i].landed \in 0..Chunks /\ copy'[d][i].landed >= Chunks
        BY <2>2, <4>2 DEF CopyTypeOK, Copy, LandedKept
      <4> QED BY <4>3
    <3> QED BY <3>1, <3>2
  <2>4. TypeOK' BY <2>1, <2>2 DEF RowInv, RowTypeOK, CopyTypeOK, TypeOK
  <2> QED BY <2>1, <2>2, <2>3, <2>4 DEF IInv, RowInv
<1>2. CASE UNCHANGED vars
  <2> USE <1>2 DEF vars, IInv
  <2>1. TypeOK' BY DEF TypeOK
  <2>2. CopyInv' BY DEF CopyInv
  <2>3. ConfirmedLanded' /\ DeliveredOnlyConfirmed' BY DEF ConfirmedLanded, DeliveredOnlyConfirmed
  <2>4. FailureBudget' /\ NoEarlyFailures' BY DEF FailureBudget, NoEarlyFailures
  <2> QED BY <2>1, <2>2, <2>3, <2>4
<1> QED BY <1>1, <1>2

LEMMA InvariantLemma == Spec => []IInv
BY InitLemma, StepLemma, PTL DEF Spec

(* Type correctness of the ledger.                                         *)
THEOREM TypeCorrect == Spec => []TypeOK
BY InvariantLemma, PTL DEF IInv

(* delivery.confirm, sweeps, requeues and crashes never leave a row        *)
(* confirmed that no copy delivered in full.                               *)
THEOREM ConfirmedSafe == Spec => []ConfirmedLanded
BY InvariantLemma, PTL DEF IInv

(* Monitor events are delivered only behind a confirmed ledger row.        *)
THEOREM DeliveredSafe == Spec => []DeliveredOnlyConfirmed
BY InvariantLemma, PTL DEF IInv

(* Retries respect MAX_DEFINITIVE_FAILURES, whatever the budget.           *)
THEOREM BudgetSafe == Spec => []FailureBudget
BY InvariantLemma, PTL DEF IInv

(* One step leaves terminal rows alone, except for retention and requeue.  *)
LEMMA TerminalLemma ==
  ASSUME TypeOK, Next
  PROVE  TerminalStep
<1> USE DEF TypeOK, TerminalStep, Unsettled
<1>1. CASE Connect
  BY <1>1 DEF Connect, StaleRows
<1>2. CASE SweepTimer
  BY <1>2 DEF SweepTimer, StaleRows, Undelivered
<1>3. CASE SweepCrash
  BY <1>3 DEF SweepCrash, StaleRows
<1>4. CASE Disconnect \/ AdapterCrash
  BY <1>4 DEF Disconnect, AdapterCrash, ledgerVars
<1>5. ASSUME NEW D \in SUBSET Deliveries, Requeue(D)
      PROVE  TerminalStep
  BY <1>5 DEF Requeue, Requeueable
<1>6. ASSUME NEW d \in Deliveries,
             \/ Prepare(d) \/ PrepareCrash(d) \/ Prune(d) \/ ReconcileBatch(d)
             \/ Rest(d) \/ Age(d)
      PROVE  TerminalStep
  <2>1. CASE Prepare(d) BY <2>1 DEF Prepare
  <2>2. CASE PrepareCrash(d) BY <2>2 DEF PrepareCrash
  <2>3. CASE Prune(d) BY <2>3 DEF Prune
  <2>4. CASE UNCHANGED <<state, attempts>> BY <2>4
  <2> QED BY <1>6, <2>1, <2>2, <2>3, <2>4 DEF ReconcileBatch, Rest, Age, ledgerVars
<1>7. ASSUME NEW d \in Deliveries, NEW i \in Slots, Confirm(d, i)
      PROVE  TerminalStep
  BY <1>7 DEF Confirm
<1>8. ASSUME NEW d \in Deliveries, NEW i \in Slots, Fail(d, i) \/ FailCrash(d, i)
      PROVE  TerminalStep
  <2>1. RecordFailure(d, i) BY <1>8 DEF Fail, FailCrash
  <2> QED BY <2>1 DEF RecordFailure
<1>9. ASSUME NEW d \in Deliveries, NEW i \in Slots,
             PostChunk(d, i) \/ PostRefused(d, i) \/ PostUnknown(d, i)
      PROVE  TerminalStep
  BY <1>9 DEF PostChunk, PostRefused, PostUnknown, ledgerVars
<1> QED BY <1>1, <1>2, <1>3, <1>4, <1>5, <1>6, <1>7, <1>8, <1>9 DEF Next

(* No handler rewrites a terminal row: late confirms, late failures,       *)
(* sweeps and crashes leave confirmed and expired rows as they are.        *)
THEOREM TerminalMonotonic == Spec => TerminalStable
<1>1. TypeOK /\ [Next]_vars => [TerminalStep]_vars
  BY TerminalLemma
<1> QED BY <1>1, TypeCorrect, PTL DEF Spec, TerminalStable

-----------------------------------------------------------------------------
USE DiscordAssumption, SlackAssumption

(* A queue of stores after one more is queued, and after the first left.   *)
LEMMA Queued ==
  ASSUME NEW S, NEW q \in Seq(S), NEW n \in S, NEW r, r = q \/ r = Append(q, n)
  PROVE  r \in Seq(S) /\ \A i \in 1..Len(r) : r[i] = n \/ (i \in 1..Len(q) /\ r[i] = q[i])
<1>1. CASE r = q
  BY <1>1
<1>2. CASE r = Append(q, n)
  <2>1. Append(q, n) \in Seq(S) /\ Len(Append(q, n)) = Len(q) + 1 /\ Len(q) \in Nat
    OBVIOUS
  <2>2. ASSUME NEW i \in 1..Len(q) + 1
        PROVE  Append(q, n)[i] = n \/ (i \in 1..Len(q) /\ Append(q, n)[i] = q[i])
    <3>1. CASE i = Len(q) + 1
      BY <3>1
    <3>2. CASE i # Len(q) + 1
      <4>1. i \in 1..Len(q)
        BY <2>1, <3>2
      <4> QED
        BY <4>1
    <3> QED
      BY <3>1, <3>2
  <2> QED
    BY <1>2, <2>1, <2>2
<1> QED
  BY <1>1, <1>2

LEMMA Dequeued ==
  ASSUME NEW S, NEW q \in Seq(S), q # << >>
  PROVE  /\ q[1] \in S /\ Head(q) = q[1] /\ Tail(q) \in Seq(S)
         /\ \A i \in 1..Len(Tail(q)) : i + 1 \in 1..Len(q) /\ Tail(q)[i] = q[i + 1]
<1>1. Len(q) \in Nat /\ Len(q) >= 1
  OBVIOUS
<1>2. q[1] \in S
  BY <1>1
<1>3. Head(q) = q[1]
  OBVIOUS
<1>4. Tail(q) \in Seq(S)
  OBVIOUS
<1>5. Len(Tail(q)) = Len(q) - 1
  OBVIOUS
<1>6. ASSUME NEW i \in 1..Len(Tail(q)) PROVE i + 1 \in 1..Len(q) /\ Tail(q)[i] = q[i + 1]
  <2>1. i \in Nat /\ i >= 1 /\ i <= Len(q) - 1
    BY <1>1, <1>5
  <2>2. i + 1 \in 1..Len(q)
    BY <1>1, <2>1
  <2>3. Tail(q)[i] = q[i + 1]
    BY <1>1, <1>5, <2>1
  <2> QED
    BY <2>2, <2>3
<1> QED
  BY <1>2, <1>3, <1>4, <1>6

(* The Discord cursor.                                                     *)
DiscordStore == [through : Nat, terminal : [DiscordMessage -> Nat], dead : SUBSET DiscordMessage]
DiscordPass ==
  [pc : {"off", "fetch", "walk", "end"}, cursor : Nat, scan : Nat, end : Nat, full : BOOLEAN,
   page : Nat, held : SUBSET DiscordMessage, try : Nat]
DiscordTypeOK ==
  /\ dcPosted \in 0..MaxDiscordMsg /\ dcLanded \subseteq DiscordMessage
  /\ dcLinked \in BOOLEAN /\ dcLive \subseteq DiscordMessage /\ dcAcked \subseteq DiscordMessage
  /\ dcMem \in DiscordStore /\ dcSaves \in Seq(DiscordStore) /\ dcDisk \in DiscordStore
  /\ dcPass \in DiscordPass /\ dcPass.end <= dcPosted
  /\ dcCrashes \in Nat /\ dcFaults \in Nat

(* Every store that is, was or will be the file accounts for what its      *)
(* watermark passed; a walk has passed nothing but what landed, is quiet,  *)
(* is dead or is held, and its cursor nothing that is held.                *)
DiscordOver(s, m) == m \in dcLanded \cup DiscordQuiet \cup s.dead
StoresKnown ==
  /\ DiscordAccounted(dcMem) /\ DiscordAccounted(dcDisk)
  /\ \A i \in 1..Len(dcSaves) : DiscordAccounted(dcSaves[i])
PassKnown ==
  /\ \A m \in 1..dcPass.cursor : DiscordOver(dcMem, m)
  /\ \A m \in 1..dcPass.scan : DiscordOver(dcMem, m) \/ m \in dcPass.held
DiscordInv == DiscordTypeOK /\ dcAcked \subseteq dcLanded /\ StoresKnown /\ PassKnown

LEMMA DiscordStarts == DiscordInit => DiscordInv
<1> SUFFICES ASSUME DiscordInit PROVE DiscordInv
  OBVIOUS
<1>1. DiscordEmpty \in DiscordStore /\ DiscordOff \in DiscordPass /\ DiscordEmpty.through = 0
  BY DEF DiscordEmpty, DiscordStore, DiscordOff, DiscordPass
<1>2. DiscordTypeOK
  BY <1>1 DEF DiscordInit, DiscordTypeOK, DiscordOff
<1>3. StoresKnown /\ PassKnown
  BY <1>1 DEF DiscordInit, StoresKnown, PassKnown, DiscordAccounted, DiscordOff
<1> QED
  BY <1>2, <1>3 DEF DiscordInit, DiscordInv

(* What a persisted state n leaves: the stores stay accounted for when n   *)
(* is and nothing recorded is lost.                                        *)
Covers(s, L) == \A m \in 1..s.through : m \in L \cup DiscordQuiet \cup s.dead
Written(n) == dcMem' = n /\ (dcSaves' = dcSaves \/ dcSaves' = Append(dcSaves, n))

LEMMA DiscordPersists == ASSUME NEW n, DiscordPersist(n) PROVE Written(n)
  BY DEF DiscordPersist, Written

LEMMA DiscordKeepsStore == ASSUME DiscordKept PROVE Written(dcMem)
  BY DEF DiscordKept, Written

LEMMA DiscordWrites ==
  ASSUME DiscordInv, NEW n \in DiscordStore, Written(n), UNCHANGED dcDisk,
         dcLanded \subseteq dcLanded', Covers(n, dcLanded')
  PROVE  /\ dcMem' = n /\ dcMem' \in DiscordStore /\ dcSaves' \in Seq(DiscordStore) /\ dcDisk' \in DiscordStore
         /\ StoresKnown'
<1>1. dcMem' = n /\ dcSaves \in Seq(DiscordStore) /\ dcDisk \in DiscordStore
  BY DEF Written, DiscordInv, DiscordTypeOK
<1>2. dcSaves' = dcSaves \/ dcSaves' = Append(dcSaves, n)
  BY DEF Written
<1>3. /\ dcSaves' \in Seq(DiscordStore)
      /\ \A i \in 1..Len(dcSaves') : dcSaves'[i] = n \/ (i \in 1..Len(dcSaves) /\ dcSaves'[i] = dcSaves[i])
  <2>1. ASSUME NEW q \in Seq(DiscordStore), NEW r, r = q \/ r = Append(q, n)
        PROVE  r \in Seq(DiscordStore) /\ \A i \in 1..Len(r) : r[i] = n \/ (i \in 1..Len(q) /\ r[i] = q[i])
    BY <2>1, Queued
  <2> QED
    BY <1>1, <1>2, <2>1
<1>4. Covers(dcDisk, dcLanded') /\ \A i \in 1..Len(dcSaves) : Covers(dcSaves[i], dcLanded')
  BY DEF DiscordInv, StoresKnown, DiscordAccounted, Covers
<1>5. \A i \in 1..Len(dcSaves') : Covers(dcSaves'[i], dcLanded')
  BY <1>3, <1>4
<1> QED
  BY <1>1, <1>3, <1>4, <1>5 DEF StoresKnown, DiscordAccounted, Covers

(* The invariant of a step, from what it does to the store and to the walk.*)
LEMMA DiscordMoves ==
  ASSUME DiscordInv, NEW n \in DiscordStore, Written(n), UNCHANGED dcDisk,
         dcLanded \subseteq dcLanded', Covers(n, dcLanded'),
         dcPosted' \in 0..MaxDiscordMsg, dcLanded' \subseteq DiscordMessage, dcLinked' \in BOOLEAN,
         dcLive' \subseteq DiscordMessage, dcAcked' \subseteq dcLanded',
         dcPass' \in DiscordPass, dcPass'.end <= dcPosted', dcCrashes' \in Nat, dcFaults' \in Nat,
         \A m \in 1..dcPass'.cursor : m \in dcLanded' \cup DiscordQuiet \cup n.dead,
         \A m \in 1..dcPass'.scan : m \in dcLanded' \cup DiscordQuiet \cup n.dead \cup dcPass'.held
  PROVE  DiscordInv'
<1>1. /\ dcMem' = n /\ dcMem' \in DiscordStore /\ dcSaves' \in Seq(DiscordStore) /\ dcDisk' \in DiscordStore
      /\ StoresKnown'
  BY DiscordWrites
<1>2. DiscordTypeOK'
  BY <1>1 DEF DiscordTypeOK
<1>3. PassKnown'
  BY <1>1 DEF PassKnown, DiscordOver
<1> QED
  BY <1>1, <1>2, <1>3 DEF DiscordInv

(* What the walk knows now, of what is recorded later.                     *)
LEMMA DiscordKeeps ==
  ASSUME DiscordInv, dcLanded \subseteq dcLanded'
  PROVE  /\ dcMem \in DiscordStore /\ Covers(dcMem, dcLanded') /\ dcPass \in DiscordPass
         /\ \A m \in 1..dcPass.cursor : m \in dcLanded' \cup DiscordQuiet \cup dcMem.dead
         /\ \A m \in 1..dcPass.scan : m \in dcLanded' \cup DiscordQuiet \cup dcMem.dead \cup dcPass.held
  BY DEF DiscordInv, DiscordTypeOK, StoresKnown, DiscordAccounted, PassKnown, DiscordOver, Covers

LEMMA DiscordLiveKept ==
  ASSUME DiscordInv,
         \/ \E m \in DiscordMessage, b \in BOOLEAN : DiscordPost(m, b) \/ DiscordLiveFails(m, b)
         \/ \E m \in DiscordMessage : DiscordLiveLands(m)
         \/ Unlink \/ DiscordRelink \/ UNCHANGED discordVars
  PROVE  DiscordInv'
<1> DEFINE Beside ==
      /\ dcLanded \subseteq dcLanded' /\ UNCHANGED <<dcDisk, dcPass>> /\ Written(dcMem)
      /\ dcPosted' \in 0..MaxDiscordMsg /\ dcLanded' \subseteq DiscordMessage /\ dcLinked' \in BOOLEAN
      /\ dcLive' \subseteq DiscordMessage /\ dcAcked' \subseteq dcLanded'
      /\ dcPass.end <= dcPosted' /\ dcCrashes' \in Nat /\ dcFaults' \in Nat
<1>1. /\ dcPosted \in 0..MaxDiscordMsg /\ dcLanded \subseteq DiscordMessage /\ dcLinked \in BOOLEAN
      /\ dcLive \subseteq DiscordMessage /\ dcAcked \subseteq dcLanded
      /\ dcPass.end \in Nat /\ dcPass.end <= dcPosted /\ dcCrashes \in Nat /\ dcFaults \in Nat
  BY DEF DiscordInv, DiscordTypeOK, DiscordPass
<1>2. ASSUME NEW m \in DiscordMessage, NEW b \in BOOLEAN, DiscordPost(m, b) PROVE Beside
  <2>1. dcPosted' = dcPosted + 1 /\ dcPosted < MaxDiscordMsg
    BY <1>2 DEF DiscordPost
  <2>2. dcLive' \subseteq dcLive \cup {m}
    BY <1>2 DEF DiscordPost
  <2>3. UNCHANGED <<dcLanded, dcLinked, dcAcked, dcMem, dcSaves, dcDisk, dcPass, dcCrashes, dcFaults>>
    BY <1>2 DEF DiscordPost
  <2> QED
    BY <1>1, <2>1, <2>2, <2>3 DEF Written, DiscordKept
<1>3. ASSUME NEW m \in DiscordMessage, NEW b \in BOOLEAN, DiscordLiveFails(m, b) PROVE Beside
  <2>1. dcLive' \subseteq dcLive /\ dcLanded \subseteq dcLanded' /\ dcLanded' \subseteq dcLanded \cup {m}
    BY <1>3 DEF DiscordLiveFails
  <2>2. dcLinked' = FALSE /\ (dcFaults' = dcFaults \/ dcFaults' = dcFaults + 1)
    BY <1>3 DEF DiscordLiveFails
  <2>3. DiscordKept /\ UNCHANGED <<dcPosted, dcAcked, dcDisk, dcPass, dcCrashes>>
    BY <1>3 DEF DiscordLiveFails
  <2>4. Written(dcMem)
    BY <2>3, DiscordKeepsStore
  <2>5. dcLanded' \subseteq DiscordMessage /\ dcAcked' \subseteq dcLanded' /\ dcLive' \subseteq DiscordMessage
    BY <1>1, <2>1, <2>3
  <2>6. dcFaults' \in Nat
    BY <1>1, <2>2
  <2>7. dcLinked' \in BOOLEAN
    BY <2>2, Zenon
  <2> QED
    BY <1>1, <2>1, <2>3, <2>4, <2>5, <2>6, <2>7
<1>4. ASSUME NEW m \in DiscordMessage, DiscordLiveLands(m) PROVE Beside
  BY <1>1, <1>4, DiscordKeepsStore DEF DiscordLiveLands, LiveAck
<1>5. ASSUME Unlink \/ DiscordRelink PROVE Beside
  <2>1. Written(dcMem)
    BY <1>5 DEF Unlink, DiscordRelink, Written, DiscordKept
  <2>2. /\ UNCHANGED <<dcPosted, dcLanded, dcLive, dcAcked, dcDisk, dcPass, dcCrashes>>
        /\ dcLinked' \in BOOLEAN /\ (dcFaults' = dcFaults \/ dcFaults' = dcFaults + 1)
    BY <1>5 DEF Unlink, DiscordRelink, DiscordFails
  <2> QED
    BY <1>1, <2>1, <2>2
<1>6. ASSUME UNCHANGED discordVars PROVE Beside
  <2>1. Written(dcMem)
    BY <1>6 DEF discordVars, Written, DiscordKept
  <2>2. UNCHANGED <<dcPosted, dcLanded, dcLinked, dcLive, dcAcked, dcDisk, dcPass, dcCrashes, dcFaults>>
    BY <1>6 DEF discordVars
  <2> QED
    BY <1>1, <2>1, <2>2
<1> HIDE DEF Beside
<1>7. Beside
  BY <1>2, <1>3, <1>4, <1>5, <1>6
<1> USE DEF Beside
<1> QED
  BY <1>7, <1>1, DiscordKeeps, DiscordMoves

LEMMA DiscordSaveKept ==
  ASSUME DiscordInv, DiscordSave \/ DiscordSaveFails
  PROVE  DiscordInv'
<1>1. dcSaves \in Seq(DiscordStore) /\ dcSaves # << >>
  BY DEF DiscordInv, DiscordTypeOK, DiscordSave, DiscordSaveFails
<1>2. /\ dcSaves[1] \in DiscordStore /\ Tail(dcSaves) \in Seq(DiscordStore) /\ Head(dcSaves) = dcSaves[1]
      /\ \A i \in 1..Len(Tail(dcSaves)) : i + 1 \in 1..Len(dcSaves) /\ Tail(dcSaves)[i] = dcSaves[i + 1]
  BY <1>1, Dequeued
<1>3. UNCHANGED <<dcPosted, dcLanded, dcLinked, dcLive, dcAcked, dcMem, dcPass, dcCrashes>> /\ dcFaults' \in Nat
  <2>1. UNCHANGED <<dcPosted, dcLanded, dcLinked, dcLive, dcAcked, dcMem, dcPass, dcCrashes>>
    BY DEF DiscordSave, DiscordSaveFails
  <2>2. dcFaults' = dcFaults \/ dcFaults' = dcFaults + 1
    BY DEF DiscordSave, DiscordSaveFails, DiscordFails
  <2>3. dcFaults \in Nat
    BY DEF DiscordInv, DiscordTypeOK
  <2> QED
    BY <2>1, <2>2, <2>3
<1>4. dcSaves' = Tail(dcSaves) /\ (dcDisk' = dcDisk \/ dcDisk' = dcSaves[1])
  BY <1>2 DEF DiscordSave, DiscordSaveFails
<1>5. DiscordTypeOK'
  BY <1>2, <1>3, <1>4 DEF DiscordInv, DiscordTypeOK
<1>6. StoresKnown'
  <2>1. /\ Covers(dcMem, dcLanded) /\ Covers(dcDisk, dcLanded)
        /\ \A i \in 1..Len(dcSaves) : Covers(dcSaves[i], dcLanded)
    BY DEF DiscordInv, StoresKnown, DiscordAccounted, Covers
  <2>2. 1 \in 1..Len(dcSaves)
    BY <1>1
  <2>3. Covers(dcMem', dcLanded) /\ Covers(dcDisk', dcLanded)
    BY <1>3, <1>4, <2>1, <2>2
  <2>4. ASSUME NEW i \in 1..Len(dcSaves') PROVE Covers(dcSaves'[i], dcLanded)
    BY <1>2, <1>4, <2>1
  <2>5. dcLanded' = dcLanded
    BY <1>3
  <2> QED
    BY <2>3, <2>4, <2>5 DEF StoresKnown, DiscordAccounted, Covers
<1>7. PassKnown' /\ dcAcked' \subseteq dcLanded'
  BY <1>3 DEF DiscordInv, PassKnown, DiscordOver
<1> QED
  BY <1>5, <1>6, <1>7 DEF DiscordInv

LEMMA DiscordCrashKept == ASSUME DiscordInv, DiscordCrash PROVE DiscordInv'
<1>1. DiscordOff \in DiscordPass /\ DiscordOff.cursor = 0 /\ DiscordOff.scan = 0 /\ DiscordOff.end = 0
  BY DEF DiscordOff, DiscordPass
<1>2. DiscordTypeOK'
  <2>1. << >> \in Seq(DiscordStore)
    OBVIOUS
  <2>2. dcPosted' = dcPosted /\ dcLanded' = dcLanded /\ dcLinked' = FALSE /\ dcFaults' = dcFaults
    BY DEF DiscordCrash
  <2>3. dcMem' = dcDisk /\ dcDisk' = dcDisk /\ dcSaves' = << >> /\ dcPass' = DiscordOff /\ dcCrashes' = dcCrashes + 1
    BY DEF DiscordCrash
  <2>4. dcLive' = {} /\ dcAcked' = {}
    BY DEF DiscordCrash
  <2>5. dcMem' \in DiscordStore /\ dcDisk' \in DiscordStore /\ dcSaves' \in Seq(DiscordStore)
    BY <2>1, <2>3 DEF DiscordInv, DiscordTypeOK
  <2>6. dcPass' \in DiscordPass /\ dcPosted' \in 0..MaxDiscordMsg /\ dcPass'.end <= dcPosted'
    BY <1>1, <2>2, <2>3 DEF DiscordInv, DiscordTypeOK
  <2>7. /\ dcLanded' \subseteq DiscordMessage /\ dcLive' \subseteq DiscordMessage
        /\ dcAcked' \subseteq DiscordMessage /\ dcCrashes' \in Nat /\ dcFaults' \in Nat
    BY <2>2, <2>3, <2>4 DEF DiscordInv, DiscordTypeOK
  <2>8. dcLinked' \in BOOLEAN
    BY <2>2, Zenon
  <2> QED
    BY <2>5, <2>6, <2>7, <2>8 DEF DiscordTypeOK
<1>3. StoresKnown' /\ PassKnown'
  BY <1>1 DEF DiscordInv, DiscordCrash, StoresKnown, PassKnown, DiscordAccounted
<1> QED
  BY <1>2, <1>3 DEF DiscordInv, DiscordCrash

(* Steps of the walk that write nothing, or a state that only forgets      *)
(* attempts.                                                               *)
DiscordBeside ==
  /\ UNCHANGED <<dcPosted, dcLinked, dcDisk, dcCrashes>> /\ dcFaults' \in Nat
  /\ dcLanded \subseteq dcLanded' /\ dcLanded' \subseteq DiscordMessage
  /\ dcLive' \subseteq DiscordMessage /\ dcAcked' \subseteq dcLanded'

LEMMA DiscordWalks ==
  ASSUME DiscordInv, DiscordBeside, NEW n \in DiscordStore, Written(n), Covers(n, dcLanded'),
         dcPass' \in DiscordPass, dcPass'.end <= dcPosted,
         \A m \in 1..dcPass'.cursor : m \in dcLanded' \cup DiscordQuiet \cup n.dead,
         \A m \in 1..dcPass'.scan : m \in dcLanded' \cup DiscordQuiet \cup n.dead \cup dcPass'.held
  PROVE  DiscordInv'
<1>1. /\ dcPosted' = dcPosted /\ dcDisk' = dcDisk /\ dcLinked' = dcLinked /\ dcCrashes' = dcCrashes
      /\ dcPosted \in 0..MaxDiscordMsg /\ dcCrashes \in Nat /\ dcLinked \in BOOLEAN
  BY DEF DiscordBeside, DiscordInv, DiscordTypeOK
<1> QED
  BY <1>1, DiscordMoves DEF DiscordBeside

(* The updates of a pass, field by field.                                  *)
LEMMA WalkedFields ==
  ASSUME NEW p \in DiscordPass
  PROVE  /\ Walked(p) \in DiscordPass /\ Walked(p).scan = p.scan + 1 /\ Walked(p).held = p.held
         /\ Walked(p).end = p.end /\ Walked(p).cursor = IF p.held = {} THEN p.scan + 1 ELSE p.cursor
<1> DEFINE Up(s, x) == [p EXCEPT !.scan = s, !.cursor = x, !.try = 0]
           c == IF p.held = {} THEN p.scan + 1 ELSE p.cursor
           n == p.scan + 1
<1>1. ASSUME NEW s \in Nat, NEW x \in Nat
      PROVE  /\ Up(s, x) \in DiscordPass /\ Up(s, x).scan = s /\ Up(s, x).cursor = x
             /\ Up(s, x).held = p.held /\ Up(s, x).end = p.end
  <2>1. 0 \in Nat
    OBVIOUS
  <2> QED
    BY <2>1, Zenon DEF DiscordPass
<1>2. n \in Nat /\ c \in Nat
  BY DEF DiscordPass
<1>3. Walked(p) = Up(n, c)
  BY Zenon DEF Walked
<1>4. c = (IF p.held = {} THEN p.scan + 1 ELSE p.cursor) /\ n = p.scan + 1
  OBVIOUS
<1> HIDE DEF c, n, Up
<1>5. /\ Up(n, c) \in DiscordPass /\ Up(n, c).scan = n /\ Up(n, c).cursor = c
      /\ Up(n, c).held = p.held /\ Up(n, c).end = p.end
  BY <1>1, <1>2
<1> QED
  BY <1>3, <1>4, <1>5

LEMMA DiscordReads ==
  ASSUME DiscordInv, DiscordBegin \/ Fetch \/ FetchEnds \/ PageWalked \/ DiscordSkips
  PROVE  DiscordInv'
<1>1. DiscordBeside /\ Written(dcMem) /\ dcLanded' = dcLanded
  <2>1. DiscordKept
    BY DEF DiscordBegin, Fetch, FetchEnds, PageWalked, DiscordSkips
  <2>2. /\ UNCHANGED <<dcPosted, dcLanded, dcLinked, dcLive, dcAcked, dcDisk, dcCrashes>>
        /\ dcFaults' = dcFaults \/ dcFaults' = dcFaults + 1
    BY DEF DiscordBegin, Fetch, FetchEnds, PageWalked, DiscordSkips, DiscordFails
  <2> QED
    BY <2>1, <2>2, DiscordKeepsStore DEF DiscordBeside, DiscordInv, DiscordTypeOK
<1>2. dcPass \in DiscordPass /\ dcPosted \in Nat /\ dcPass.end <= dcPosted /\ dcMem.through \in Nat
  BY DEF DiscordInv, DiscordTypeOK, DiscordStore
<1>3. CASE DiscordBegin
  <2>1. dcPass' \in DiscordPass /\ dcPass'.cursor = dcMem.through /\ dcPass'.scan = dcMem.through /\ dcPass'.end = 0
    BY <1>2, <1>3 DEF DiscordBegin, DiscordOff, DiscordPass
  <2> QED
    BY <1>1, <1>2, <2>1, DiscordKeeps, DiscordWalks DEF Covers
<1>4. CASE Fetch
  <2> DEFINE Up(x, y, w) ==
               [dcPass EXCEPT !.pc = x, !.end = y, !.full = y = dcPass.scan + PageLimit, !.page = w]
             e == Least(dcPosted, dcPass.scan + PageLimit)
             a == IF e = dcPass.scan THEN "end" ELSE "walk"
             g == dcPass.page + 1
  <2>1. dcPass' = Up(a, e, g)
    BY <1>4, Zenon DEF Fetch
  <2>2. a \in {"off", "fetch", "walk", "end"} /\ e \in Nat /\ e <= dcPosted /\ g \in Nat
    BY <1>2 DEF DiscordPass, Least
  <2>3. (e = dcPass.scan + PageLimit) \in BOOLEAN
    OBVIOUS
  <2> HIDE DEF e, a, g
  <2>4. /\ Up(a, e, g) \in DiscordPass /\ Up(a, e, g).end = e
        /\ Up(a, e, g).cursor = dcPass.cursor /\ Up(a, e, g).scan = dcPass.scan
        /\ Up(a, e, g).held = dcPass.held
    BY <1>2, <2>3, <2>2, Zenon DEF DiscordPass
  <2> HIDE DEF Up
  <2>5. /\ dcPass' \in DiscordPass /\ dcPass'.cursor = dcPass.cursor /\ dcPass'.scan = dcPass.scan
        /\ dcPass'.held = dcPass.held /\ dcPass'.end <= dcPosted
    BY <2>1, <2>2, <2>4
  <2> QED
    BY <1>1, <2>5, DiscordKeeps, DiscordWalks
<1>5. CASE FetchEnds \/ PageWalked
  <2>1. /\ dcPass' \in DiscordPass /\ dcPass'.cursor = dcPass.cursor /\ dcPass'.scan = dcPass.scan
        /\ dcPass'.held = dcPass.held /\ dcPass'.end <= dcPosted
    BY <1>2, <1>5 DEF FetchEnds, PageWalked, DiscordPass
  <2> QED
    BY <1>1, <2>1, DiscordKeeps, DiscordWalks
<1>6. CASE DiscordSkips
  <2>1. /\ dcPass' \in DiscordPass /\ dcPass'.scan = dcPass.scan + 1 /\ dcPass'.held = dcPass.held
        /\ dcPass'.end = dcPass.end /\ dcPass'.cursor = IF dcPass.held = {} THEN dcPass.scan + 1 ELSE dcPass.cursor
    BY <1>2, <1>6, WalkedFields DEF DiscordSkips
  <2>2. dcPass.scan + 1 \in DiscordQuiet
    BY <1>6 DEF DiscordSkips, DiscordCurrent
  <2> QED
    BY <1>1, <1>2, <2>1, <2>2, DiscordKeeps, DiscordWalks DEF DiscordPass
<1> QED
  BY <1>3, <1>4, <1>5, <1>6

LEMMA DiscordForgets ==
  ASSUME NEW s \in DiscordStore, NEW m \in DiscordMessage
  PROVE  /\ DiscordForgotten(s, m) \in DiscordStore
         /\ DiscordForgotten(s, m).through = s.through /\ DiscordForgotten(s, m).dead = s.dead
  BY DEF DiscordStore, DiscordForgotten

LEMMA DiscordDiscards ==
  ASSUME NEW s \in DiscordStore, NEW H \in SUBSET DiscordMessage
  PROVE  /\ DiscordDiscarded(s, H) \in DiscordStore
         /\ DiscordDiscarded(s, H).through = s.through /\ DiscordDiscarded(s, H).dead = s.dead \cup H
<1>1. [m \in DiscordMessage |-> IF m \in H THEN 0 ELSE s.terminal[m]] \in [DiscordMessage -> Nat]
  BY DEF DiscordStore
<1> QED
  BY <1>1 DEF DiscordStore, DiscordDiscarded

LEMMA DiscordAt ==
  ASSUME DiscordInv, DiscordWalking
  PROVE  DiscordCurrent \in DiscordMessage /\ DiscordCurrent = dcPass.scan + 1 /\ dcPass \in DiscordPass
<1>1. dcPass \in DiscordPass /\ dcPass.end <= dcPosted /\ dcPosted \in 0..MaxDiscordMsg
  BY DEF DiscordInv, DiscordTypeOK
<1>2. dcPass.scan \in Nat /\ dcPass.end \in Nat
  BY <1>1 DEF DiscordPass
<1>3. dcPass.scan < dcPass.end
  BY DEF DiscordWalking
<1>4. dcPass.scan + 1 \in 1..MaxDiscordMsg
  BY <1>1, <1>2, <1>3
<1> QED
  BY <1>1, <1>4 DEF DiscordCurrent, DiscordMessage

LEMMA DiscordDuplicateKept == ASSUME DiscordInv, DiscordDuplicate PROVE DiscordInv'
<1> DEFINE c == DiscordCurrent
           n == IF dcMem.terminal[c] > 0 THEN DiscordForgotten(dcMem, c) ELSE dcMem
<1>1. c \in DiscordMessage /\ c = dcPass.scan + 1 /\ dcPass \in DiscordPass /\ dcMem \in DiscordStore
  BY DiscordAt DEF DiscordDuplicate, DiscordInv, DiscordTypeOK
<1>2. n \in DiscordStore /\ n.through = dcMem.through /\ n.dead = dcMem.dead
  BY <1>1, DiscordForgets
<1>3. Written(n)
  BY DiscordPersists, DiscordKeepsStore DEF DiscordDuplicate
<1>4. DiscordBeside /\ dcLanded' = dcLanded /\ c \in dcLanded
  BY DEF DiscordDuplicate, DiscordBeside, DiscordInv, DiscordTypeOK
<1>5. /\ dcPass' \in DiscordPass /\ dcPass'.scan = dcPass.scan + 1 /\ dcPass'.held = dcPass.held
      /\ dcPass'.end = dcPass.end /\ dcPass'.cursor = IF dcPass.held = {} THEN dcPass.scan + 1 ELSE dcPass.cursor
  BY <1>1, WalkedFields DEF DiscordDuplicate
<1>6. dcPass.end <= dcPosted
  BY DEF DiscordInv, DiscordTypeOK
<1> HIDE DEF n, c
<1>7. Covers(n, dcLanded')
  BY <1>2, <1>4, DiscordKeeps DEF Covers
<1> QED
  BY <1>1, <1>2, <1>3, <1>4, <1>5, <1>6, <1>7, DiscordKeeps, DiscordWalks DEF DiscordPass

LEMMA DiscordLandsKept == ASSUME DiscordInv, DiscordLands PROVE DiscordInv'
<1> DEFINE c == DiscordCurrent
           n == DiscordDiscarded(DiscordForgotten(dcMem, c), dcPass.held)
<1>1. c \in DiscordMessage /\ c = dcPass.scan + 1 /\ dcPass \in DiscordPass /\ dcMem \in DiscordStore
  BY DiscordAt DEF DiscordLands, DiscordInv, DiscordTypeOK
<1>2. n \in DiscordStore /\ n.through = dcMem.through /\ n.dead = dcMem.dead \cup dcPass.held
  <2>1. dcPass.held \in SUBSET DiscordMessage
    BY <1>1 DEF DiscordPass
  <2> QED
    BY <1>1, <2>1, DiscordForgets, DiscordDiscards
<1>3. Written(n)
  BY DiscordPersists, DiscordKeepsStore DEF DiscordLands
<1>4. DiscordBeside /\ dcLanded' = dcLanded \cup {c}
  BY <1>1 DEF DiscordLands, DiscordBeside, DiscordInv, DiscordTypeOK
<1>5. /\ dcPass' \in DiscordPass /\ dcPass'.scan = dcPass.scan + 1 /\ dcPass'.held = {}
      /\ dcPass'.end = dcPass.end /\ dcPass'.cursor = c
  <2> DEFINE Up(x, y) == [dcPass EXCEPT !.scan = x, !.cursor = y, !.held = {}, !.try = 0]
  <2>1. 0 \in Nat /\ {} \in SUBSET DiscordMessage /\ c \in Nat /\ dcPass.scan + 1 \in Nat
    BY <1>1 DEF DiscordMessage, DiscordPass
  <2>2. ASSUME NEW x \in Nat, NEW y \in Nat
        PROVE  /\ Up(x, y) \in DiscordPass /\ Up(x, y).scan = x /\ Up(x, y).cursor = y
               /\ Up(x, y).held = {} /\ Up(x, y).end = dcPass.end
    BY <1>1, <2>1, Zenon DEF DiscordPass
  <2>3. dcPass' = Up(dcPass.scan + 1, c)
    BY Zenon DEF DiscordLands
  <2> HIDE DEF Up, c
  <2> QED
    BY <2>1, <2>2, <2>3
<1>6. dcPass.end <= dcPosted
  BY DEF DiscordInv, DiscordTypeOK
<1> HIDE DEF n, c
<1>7. Covers(n, dcLanded')
  BY <1>2, <1>4, DiscordKeeps DEF Covers
<1>8. dcLanded \subseteq dcLanded' /\ c \in dcLanded'
  BY <1>4
<1>9. \A m \in 1..dcPass.scan : m \in dcLanded' \cup DiscordQuiet \cup n.dead
  BY <1>2, <1>8, DiscordKeeps
<1>10. dcPass.scan \in Nat
  BY <1>1 DEF DiscordPass
<1>11. \A m \in 1..c : m \in dcLanded' \cup DiscordQuiet \cup n.dead
  BY <1>1, <1>8, <1>9, <1>10
<1>12. dcPass'.scan = c /\ dcPass'.cursor = c /\ dcPass'.end <= dcPosted
  BY <1>1, <1>5, <1>6
<1> QED
  BY <1>2, <1>3, <1>4, <1>5, <1>7, <1>11, <1>12, DiscordWalks

LEMMA DiscordCounts ==
  ASSUME DiscordInv, DiscordWalking
  PROVE  /\ Counted \in DiscordStore /\ Counted.through = dcMem.through /\ Counted.dead = dcMem.dead
<1>1. DiscordCurrent \in DiscordMessage /\ dcMem \in DiscordStore
  BY DiscordAt DEF DiscordInv, DiscordTypeOK
<1>2. Least(dcMem.terminal[DiscordCurrent] + 1, MaxDiscordAttempts) \in Nat
  BY <1>1 DEF Least, DiscordStore
<1> QED
  BY <1>1, <1>2 DEF Counted, DiscordStore

LEMMA DiscordFailsKept == ASSUME DiscordInv, NEW b \in BOOLEAN, AttemptFails(b) PROVE DiscordInv'
<1> DEFINE c == DiscordCurrent
<1>1. c \in DiscordMessage /\ c = dcPass.scan + 1 /\ dcPass \in DiscordPass /\ dcMem \in DiscordStore
  BY DiscordAt DEF AttemptFails, DiscordInv, DiscordTypeOK
<1>2. Counted \in DiscordStore /\ Counted.through = dcMem.through /\ Counted.dead = dcMem.dead
  BY DiscordCounts DEF AttemptFails
<1>3. DiscordBeside
  <2>1. UNCHANGED <<dcPosted, dcLinked, dcLive, dcAcked, dcDisk, dcCrashes>>
    BY DEF AttemptFails
  <2>2. dcFaults \in Nat /\ dcLanded \subseteq DiscordMessage /\ dcLive \subseteq DiscordMessage /\ dcAcked \subseteq dcLanded
    BY DEF DiscordInv, DiscordTypeOK
  <2>3. dcFaults' = dcFaults \/ dcFaults' = dcFaults + 1
    BY DEF AttemptFails
  <2>4. dcFaults' \in Nat
    BY <2>2, <2>3
  <2>5. dcLanded' = dcLanded \/ dcLanded' = dcLanded \cup {c}
    BY DEF AttemptFails
  <2> HIDE DEF c
  <2>6. dcLanded \subseteq dcLanded' /\ dcLanded' \subseteq DiscordMessage /\ dcAcked' \subseteq dcLanded'
    BY <1>1, <2>1, <2>2, <2>5
  <2> QED
    BY <2>1, <2>2, <2>4, <2>6 DEF DiscordBeside
<1>4. Written(Counted)
  BY DiscordPersists DEF AttemptFails, Written
<1>5. /\ dcPass' \in DiscordPass /\ dcPass'.end = dcPass.end /\ dcPass'.cursor = dcPass.cursor
      /\ \/ dcPass'.scan = dcPass.scan /\ dcPass'.held = dcPass.held
         \/ dcPass'.scan = dcPass.scan + 1 /\ dcPass'.held = dcPass.held \cup {c}
  <2> DEFINE h == dcPass.held \cup {c}
             Up(x, y, z) == [dcPass EXCEPT !.held = x, !.scan = y, !.try = 0, !.pc = z]
  <2>1. \/ dcPass' = [dcPass EXCEPT !.try = @ + 1]
        \/ dcPass' = [dcPass EXCEPT !.pc = "end"]
        \/ dcPass' = Up(h, dcPass.scan + 1, IF Cardinality(h) >= Uniform THEN "end" ELSE dcPass.pc)
    BY Zenon DEF AttemptFails
  <2>2. CASE dcPass' = [dcPass EXCEPT !.try = @ + 1] \/ dcPass' = [dcPass EXCEPT !.pc = "end"]
    BY <1>1, <2>2 DEF DiscordPass
  <2>3. ASSUME NEW x \in SUBSET DiscordMessage, NEW y \in Nat, NEW z \in {"off", "fetch", "walk", "end"}
        PROVE  /\ Up(x, y, z) \in DiscordPass /\ Up(x, y, z).scan = y /\ Up(x, y, z).held = x
               /\ Up(x, y, z).end = dcPass.end /\ Up(x, y, z).cursor = dcPass.cursor
    <3>1. 0 \in Nat
      OBVIOUS
    <3> QED
      BY <1>1, <3>1, Zenon DEF DiscordPass
  <2>4. h \in SUBSET DiscordMessage /\ dcPass.scan + 1 \in Nat /\ dcPass.pc \in {"off", "fetch", "walk", "end"}
    BY <1>1 DEF DiscordPass
  <2>5. h = dcPass.held \cup {c}
    OBVIOUS
  <2> HIDE DEF Up, h
  <2> QED
    BY <2>1, <2>2, <2>3, <2>4, <2>5
<1>6. dcPass.end <= dcPosted
  BY DEF DiscordInv, DiscordTypeOK
<1>7. Covers(Counted, dcLanded')
  BY <1>2, <1>3, DiscordKeeps DEF Covers, DiscordBeside
<1> HIDE DEF c
<1> QED
  BY <1>1, <1>2, <1>4, <1>3, <1>5, <1>6, <1>7, DiscordKeeps, DiscordWalks DEF DiscordPass, DiscordBeside

LEMMA DiscordEndKept == ASSUME DiscordInv, End PROVE DiscordInv'
<1> DEFINE n == IF dcPass.cursor > dcMem.through THEN [dcMem EXCEPT !.through = dcPass.cursor] ELSE dcMem
<1>1. dcPass \in DiscordPass /\ dcMem \in DiscordStore /\ dcPass.cursor \in Nat /\ dcPosted \in Nat
  BY DEF DiscordInv, DiscordTypeOK, DiscordPass
<1>2. n \in DiscordStore /\ n.dead = dcMem.dead /\ (n.through = dcPass.cursor \/ n.through = dcMem.through)
  BY <1>1 DEF DiscordStore
<1>3. Written(n)
  BY DiscordPersists, DiscordKeepsStore DEF End
<1> HIDE DEF n
<1>4. DiscordBeside /\ dcLanded' = dcLanded
  BY DEF End, DiscordBeside, DiscordInv, DiscordTypeOK
<1>5. Covers(n, dcLanded')
  BY <1>2, <1>4, DiscordKeeps DEF Covers
<1>6. /\ dcPass' = DiscordOff /\ DiscordOff \in DiscordPass /\ DiscordOff.cursor = 0 /\ DiscordOff.scan = 0
      /\ DiscordOff.end = 0
  BY DEF End, DiscordOff, DiscordPass
<1> QED
  BY <1>1, <1>2, <1>3, <1>4, <1>5, <1>6, DiscordWalks

-----------------------------------------------------------------------------
(* The Slack cursors.                                                      *)
SlackStore ==
  [watermark : Nat, olderThan : Nat, through : Nat, thread : Nat, takesPart : BOOLEAN,
   pending : BOOLEAN, terminal : [SlackMessage -> Nat], dead : SUBSET SlackMessage]
SlackPass ==
  [pc : {"off", "threads", "walk", "thread"}, batch : SUBSET SlackMessage, cut : BOOLEAN,
   cutThread : BOOLEAN, last : Nat, kind : {"channel", "thread"}]
SlackTypeOK ==
  /\ slPosted \in 0..MaxSlackMsg /\ replies \subseteq 1..slPosted
  /\ slLanded \subseteq SlackMessage /\ slLinked \in BOOLEAN
  /\ slLive \subseteq SlackMessage /\ slKnown \subseteq SlackMessage
  /\ slMem \in SlackStore /\ slSaves \in Seq(SlackStore) /\ slDisk \in SlackStore
  /\ slPass \in SlackPass /\ slPass.batch \subseteq 1..slPosted
  /\ slCrashes \in Nat /\ slFaults \in Nat

(* What a store s accounts for, with P messages posted, R of them replies, *)
(* and L landed: below its watermark, and between where the next slice     *)
(* ends and what the first one noted; in the thread, below its cursor.     *)
ChannelGood(s, P, L) ==
  /\ s.watermark <= P /\ s.olderThan <= P /\ s.through <= P /\ s.olderThan <= s.through
  /\ s.olderThan # 0 <=> s.through # 0
  /\ \A m \in 1..s.watermark : m \in L \cup s.dead
  /\ s.olderThan # 0 => \A m \in s.olderThan..s.through : m \in L \cup s.dead
ThreadGood(s, P, R, L) == s.thread <= P /\ \A m \in R : m <= s.thread => m \in L \cup s.dead
SlackGood(s, P, R, L) == ThreadGood(s, P, R, L) /\ (R = {} => ChannelGood(s, P, L))
SlackStoresGood ==
  /\ SlackGood(slMem, slPosted, replies, slLanded) /\ SlackGood(slDisk, slPosted, replies, slLanded)
  /\ \A i \in 1..Len(slSaves) : SlackGood(slSaves[i], slPosted, replies, slLanded)

(* What a walk p read: of the channel, everything in the gap down to where *)
(* the slice was cut, but for what was posted since; of the thread,        *)
(* everything up to there. And what it has passed.                         *)
Within(s, m) == s.watermark < m /\ (s.olderThan # 0 => m < s.olderThan)
Capped(s, p, m) == s.olderThan = 0 => \E x \in p.batch : m <= x
ReadsChannel(s, p, P) ==
  /\ \A m \in p.batch : Within(s, m)
  /\ ~p.cut => \A m \in 1..P : Within(s, m) /\ Capped(s, p, m) => m \in p.batch
  /\ \A m \in 1..P : \A x \in p.batch : x <= m /\ Within(s, m) /\ Capped(s, p, m) => m \in p.batch
ReadsThread(s, p, R) ==
  \A m \in R : \A x \in p.batch : s.thread < m /\ m <= x => m \in p.batch
SlackPassed(s, p, L) ==
  /\ \A m \in p.batch : m <= p.last => m \in L \cup s.dead
  /\ p.last = 0 \/ p.last \in p.batch
SlackWalked(s, p, P, R, L) ==
  /\ SlackPassed(s, p, L)
  /\ p.pc # "walk" => p.last = 0
  /\ p.pc = "threads" => p.kind = "channel"
  /\ p.pc \in {"threads", "walk"} /\ p.kind = "channel" /\ p.cut => p.batch \ R # {}
  /\ p.pc \in {"threads", "walk"} /\ p.kind = "channel" /\ R = {} => ReadsChannel(s, p, P)
  /\ p.pc = "walk" /\ p.kind = "thread" => ReadsThread(s, p, R)
SlackInv ==
  /\ SlackTypeOK /\ slKnown \subseteq slLanded /\ SlackStoresGood
  /\ SlackWalked(slMem, slPass, slPosted, replies, slLanded)

(* The least and the greatest of a set of messages, the newest and the     *)
(* oldest of it.                                                           *)
LEMMA LeastExists ==
  ASSUME NEW S \in SUBSET Nat, S # {} PROVE MinOf(S) \in S /\ \A y \in S : MinOf(S) <= y
<1> DEFINE R == OpToRel(<, Nat)
<1>1. IsWellFoundedOn(R, Nat)
  BY NatLessThanWellFounded
<1>2. \A x, y \in Nat : x < y => <<x, y>> \in R
  BY DEF OpToRel
<1> HIDE DEF R
<1>3. PICK x \in S : \A y \in S : ~(<<y, x>> \in R)
  BY <1>1, WFMin, Zenon
<1>4. \A y \in S : y >= x
  <2>1. S \subseteq Nat /\ \A y \in S : ~(y < x)
    BY <1>2, <1>3
  <2> QED
    BY <1>3, <2>1
<1>5. MinOf(S) \in S /\ \A y \in S : y >= MinOf(S)
  BY <1>4, Zenon DEF MinOf
<1> QED
  BY <1>5

LEMMA GreatestExists ==
  ASSUME NEW P \in Nat, NEW S \in SUBSET (1..P), S # {} PROVE MaxOf(S) \in S /\ \A y \in S : y <= MaxOf(S)
<1> DEFINE T == {k \in Nat : \A y \in S : y <= k}
<1>1. T \in SUBSET Nat /\ P \in T
  OBVIOUS
<1>2. MinOf(T) \in T /\ \A k \in T : MinOf(T) <= k
  BY <1>1, LeastExists
<1> DEFINE k == MinOf(T)
<1>3. k \in Nat /\ (\A y \in S : y <= k) /\ \A x \in Nat : (\A y \in S : y <= x) => k <= x
  BY <1>2
<1> HIDE DEF T, k
<1>4. k \in S
  <2>1. SUFFICES ASSUME k \notin S PROVE FALSE
    OBVIOUS
  <2>2. PICK z \in S : TRUE
    OBVIOUS
  <2>3. k - 1 \in Nat
    BY <1>3, <2>1, <2>2
  <2>4. \A y \in S : y <= k - 1
    BY <1>3, <2>1
  <2>5. k <= k - 1
    BY <1>3, <2>3, <2>4
  <2> QED
    BY <1>3, <2>5
<1>5. MaxOf(S) \in S /\ \A y \in S : y <= MaxOf(S)
  BY <1>3, <1>4, Zenon DEF MaxOf
<1> QED
  BY <1>5

LEMMA NewestClosed ==
  ASSUME NEW P \in Nat, NEW S \in SUBSET (1..P), NEW n \in Nat \ {0}
  PROVE  /\ Newest(S, n) \subseteq S /\ (S # {} => Newest(S, n) # {})
         /\ \A x \in Newest(S, n) : \A m \in S : x <= m => m \in Newest(S, n)
<1>1. IsFiniteSet(S)
  <2>1. IsFiniteSet(1..P)
    BY FS_Interval
  <2> QED
    BY <2>1, FS_Subset
<1>2. ASSUME S # {} PROVE MaxOf(S) \in Newest(S, n)
  <2> DEFINE k == MaxOf(S)
  <2>1. k \in S /\ \A y \in S : y <= k
    BY <1>2, GreatestExists
  <2> HIDE DEF k
  <2>2. S \subseteq Nat
    OBVIOUS
  <2>3. \A y \in S : ~(y > k)
    BY <2>1, <2>2
  <2>4. {y \in S : y > k} = {}
    BY <2>3
  <2>5. Cardinality({y \in S : y > k}) < n
    BY <2>4, FS_EmptySet
  <2> USE DEF k
  <2> QED
    BY <2>1, <2>5 DEF Newest
<1>3. ASSUME NEW x \in Newest(S, n), NEW m \in S, x <= m PROVE m \in Newest(S, n)
  <2> DEFINE A == {y \in S : y > x}
             B == {y \in S : y > m}
  <2>1. x \in 1..P /\ m \in 1..P
    BY DEF Newest
  <2>2. S \subseteq Nat
    OBVIOUS
  <2>3. \A y \in S : y > m => y > x
    BY <1>3, <2>1, <2>2
  <2>4. A \in SUBSET S /\ B \in SUBSET A
    BY <2>3
  <2>5. Cardinality(A) < n
    BY DEF Newest
  <2>6. IsFiniteSet(A)
    BY <1>1, <2>4, FS_Subset
  <2>7. Cardinality(A) \in Nat /\ Cardinality(B) \in Nat /\ Cardinality(B) <= Cardinality(A)
    BY <2>4, <2>6, FS_Subset, FS_CardinalityType
  <2>8. Cardinality(B) < n
    BY <2>5, <2>7
  <2> QED
    BY <2>8 DEF Newest
<1>4. Newest(S, n) \subseteq S
  BY DEF Newest
<1> QED
  BY <1>2, <1>3, <1>4

LEMMA OldestClosed ==
  ASSUME NEW P \in Nat, NEW S \in SUBSET (1..P), NEW n \in Nat
  PROVE  /\ Oldest(S, n) \subseteq S
         /\ \A x \in Oldest(S, n) : \A m \in S : m <= x => m \in Oldest(S, n)
<1>1. IsFiniteSet(S)
  <2>1. IsFiniteSet(1..P)
    BY FS_Interval
  <2> QED
    BY <2>1, FS_Subset
<1>2. ASSUME NEW x \in Oldest(S, n), NEW m \in S, m <= x PROVE m \in Oldest(S, n)
  <2> DEFINE A == {y \in S : y < x}
             B == {y \in S : y < m}
  <2>1. x \in 1..P /\ m \in 1..P
    BY DEF Oldest
  <2>2. S \subseteq Nat
    OBVIOUS
  <2>3. \A y \in S : y < m => y < x
    BY <1>2, <2>1, <2>2
  <2>4. A \in SUBSET S /\ B \in SUBSET A
    BY <2>3
  <2>5. Cardinality(A) < n
    BY DEF Oldest
  <2>6. IsFiniteSet(A)
    BY <1>1, <2>4, FS_Subset
  <2>7. Cardinality(A) \in Nat /\ Cardinality(B) \in Nat /\ Cardinality(B) <= Cardinality(A)
    BY <2>4, <2>6, FS_Subset, FS_CardinalityType
  <2>8. Cardinality(B) < n
    BY <2>5, <2>7
  <2> QED
    BY <2>8 DEF Oldest
<1>3. Oldest(S, n) \subseteq S
  BY DEF Oldest
<1> QED
  BY <1>2, <1>3

(* A store keeps its worth while more is posted, more lands and more is    *)
(* given up; so does what a walk has read and passed.                      *)
SameCursors(s, t) ==
  /\ t.watermark = s.watermark /\ t.olderThan = s.olderThan /\ t.through = s.through
  /\ t.thread = s.thread /\ s.dead \subseteq t.dead
Later(P, R, L, Q, T, M) == P <= Q /\ R \subseteq T /\ (\A m \in T \ R : m > P) /\ L \subseteq M

LEMMA SlackGrows ==
  ASSUME NEW s \in SlackStore, NEW t \in SlackStore, SameCursors(s, t),
         NEW P \in Nat, NEW Q \in Nat, NEW R \in SUBSET (1..P), NEW T \in SUBSET (1..Q), NEW L, NEW M,
         Later(P, R, L, Q, T, M), SlackGood(s, P, R, L)
  PROVE  SlackGood(t, Q, T, M)
<1>1. /\ s.watermark \in Nat /\ s.olderThan \in Nat /\ s.through \in Nat /\ s.thread \in Nat
  BY DEF SlackStore
<1>2. ThreadGood(t, Q, T, M)
  BY <1>1 DEF SlackGood, ThreadGood, SameCursors, Later
<1>3. ASSUME T = {} PROVE ChannelGood(t, Q, M)
  BY <1>1, <1>3 DEF SlackGood, ChannelGood, SameCursors, Later
<1> QED
  BY <1>2, <1>3 DEF SlackGood

LEMMA WalkGrows ==
  ASSUME NEW s \in SlackStore, NEW t \in SlackStore, SameCursors(s, t), NEW p \in SlackPass,
         NEW P \in Nat, NEW Q \in Nat, NEW R \in SUBSET (1..P), NEW T \in SUBSET (1..Q), NEW L, NEW M,
         Later(P, R, L, Q, T, M), p.batch \subseteq 1..P, SlackGood(s, P, R, L), SlackWalked(s, p, P, R, L)
  PROVE  SlackWalked(t, p, Q, T, M)
<1>1. s.watermark \in Nat /\ s.olderThan \in Nat /\ s.through \in Nat /\ s.thread \in Nat
  BY DEF SlackStore
<1>2. SlackPassed(t, p, M)
  BY DEF SlackWalked, SlackPassed, SameCursors, Later
<1>3. ASSUME T = {}, ReadsChannel(s, p, P) PROVE ReadsChannel(t, p, Q)
  <2>1. R = {} /\ s.olderThan <= P
    BY <1>3 DEF Later, SlackGood, ChannelGood
  <2>2. ASSUME NEW m \in 1..Q, Within(t, m), Capped(t, p, m)
        PROVE  m \in 1..P /\ Within(s, m) /\ Capped(s, p, m)
    <3>1. Within(s, m) /\ Capped(s, p, m)
      BY <2>2 DEF Within, Capped, SameCursors
    <3>2. m <= P
      BY <1>1, <2>1, <3>1 DEF Within, Capped
    <3> QED
      BY <3>1, <3>2
  <2>3. \A m \in p.batch : Within(t, m)
    BY <1>3 DEF ReadsChannel, Within, SameCursors
  <2> QED
    BY <1>3, <2>2, <2>3 DEF ReadsChannel
<1>4. ASSUME ReadsThread(s, p, R) PROVE ReadsThread(t, p, T)
  <2>1. SUFFICES ASSUME NEW m \in T, NEW x \in p.batch, t.thread < m, m <= x PROVE m \in p.batch
    BY DEF ReadsThread
  <2>2. m \in R
    <3>1. p.batch \subseteq 1..P /\ T \subseteq Nat
      OBVIOUS
    <3>2. x \in 1..P /\ m \in Nat
      BY <2>1, <3>1
    <3>3. ~(m > P)
      BY <2>1, <3>2
    <3> QED
      BY <3>3 DEF Later
  <2> QED
    BY <1>4, <2>1, <2>2 DEF ReadsThread, SameCursors
<1>5. T = {} => R = {}
  BY DEF Later
<1>6. p.batch \ R # {} => p.batch \ T # {}
  BY DEF Later
<1> QED
  BY <1>2, <1>3, <1>4, <1>5, <1>6 DEF SlackWalked

(* What a persisted state leaves.                                          *)
SlackWritten(n) == slMem' = n /\ (slSaves' = slSaves \/ slSaves' = Append(slSaves, n))

LEMMA SlackPersists == ASSUME NEW n, SlackPersist(n) PROVE SlackWritten(n)
  BY DEF SlackPersist, SlackWritten

LEMMA SlackKeepsStore == ASSUME SlackKept PROVE SlackWritten(slMem)
  BY DEF SlackKept, SlackWritten

(* The invariant of a step, from what it writes and where its walk is.     *)
SlackBeside ==
  /\ slDisk' = slDisk /\ slPosted' \in 0..MaxSlackMsg /\ replies' \subseteq 1..slPosted'
  /\ Later(slPosted, replies, slLanded, slPosted', replies', slLanded')
  /\ slLanded' \subseteq SlackMessage /\ slLinked' \in BOOLEAN
  /\ slLive' \subseteq SlackMessage /\ slKnown' \subseteq slLanded'
  /\ slCrashes' \in Nat /\ slFaults' \in Nat

LEMMA SlackTypes ==
  ASSUME SlackInv
  PROVE  /\ slPosted \in Nat /\ slPosted <= MaxSlackMsg /\ replies \in SUBSET (1..slPosted)
         /\ slMem \in SlackStore /\ slDisk \in SlackStore /\ slPass \in SlackPass
         /\ slPass.batch \subseteq 1..slPosted /\ slSaves \in Seq(SlackStore)
  BY DEF SlackInv, SlackTypeOK

LEMMA SlackNexts ==
  ASSUME SlackBeside
  PROVE  /\ slPosted' \in Nat /\ replies' \in SUBSET (1..slPosted')
         /\ Later(slPosted, replies, slLanded, slPosted', replies', slLanded') /\ slPosted <= slPosted'
<1>1. slPosted' \in 0..MaxSlackMsg /\ replies' \subseteq 1..slPosted'
  BY DEF SlackBeside
<1>2. Later(slPosted, replies, slLanded, slPosted', replies', slLanded')
  BY DEF SlackBeside
<1>3. slPosted <= slPosted'
  BY <1>2 DEF Later
<1>4. slPosted' \in Nat
  BY <1>1
<1>5. replies' \in SUBSET (1..slPosted')
  BY <1>1
<1> QED
  BY <1>2, <1>3, <1>4, <1>5

LEMMA SameStore == ASSUME NEW s \in SlackStore PROVE SameCursors(s, s)
  BY DEF SameCursors

LEMMA SlackMoves ==
  ASSUME SlackInv, SlackBeside, NEW n \in SlackStore, SlackWritten(n),
         SlackGood(n, slPosted', replies', slLanded'),
         slPass' \in SlackPass, slPass'.batch \subseteq 1..slPosted',
         SlackWalked(n, slPass', slPosted', replies', slLanded')
  PROVE  SlackInv'
<1>1. slMem' = n /\ slSaves \in Seq(SlackStore) /\ slDisk \in SlackStore /\ slDisk' = slDisk
  BY SlackTypes DEF SlackWritten, SlackBeside
<1>2. slSaves' = slSaves \/ slSaves' = Append(slSaves, n)
  BY DEF SlackWritten
<1>3. /\ slSaves' \in Seq(SlackStore)
      /\ \A i \in 1..Len(slSaves') : slSaves'[i] = n \/ (i \in 1..Len(slSaves) /\ slSaves'[i] = slSaves[i])
  <2>1. ASSUME NEW q \in Seq(SlackStore), NEW r, r = q \/ r = Append(q, n)
        PROVE  r \in Seq(SlackStore) /\ \A i \in 1..Len(r) : r[i] = n \/ (i \in 1..Len(q) /\ r[i] = q[i])
    BY <2>1, Queued
  <2> QED
    BY <1>1, <1>2, <2>1
<1>4. slPosted \in Nat /\ slPosted' \in Nat /\ replies \in SUBSET (1..slPosted) /\ replies' \in SUBSET (1..slPosted')
  BY SlackTypes, SlackNexts
<1>5. ASSUME NEW s \in SlackStore, SlackGood(s, slPosted, replies, slLanded)
      PROVE  SlackGood(s, slPosted', replies', slLanded')
  BY <1>4, <1>5, SameStore, SlackGrows DEF SlackBeside
<1>6. SlackGood(slDisk, slPosted', replies', slLanded')
  BY <1>1, <1>5 DEF SlackInv, SlackStoresGood
<1>7. \A i \in 1..Len(slSaves') : SlackGood(slSaves'[i], slPosted', replies', slLanded')
  <2>1. ASSUME NEW i \in 1..Len(slSaves) PROVE SlackGood(slSaves[i], slPosted', replies', slLanded')
    BY <1>1, <1>5 DEF SlackInv, SlackStoresGood
  <2> QED
    BY <1>3, <2>1
<1>8. SlackStoresGood'
  BY <1>1, <1>6, <1>7 DEF SlackStoresGood
<1>9. SlackTypeOK'
  BY <1>1, <1>3 DEF SlackTypeOK, SlackBeside
<1>10. SlackWalked(slMem, slPass, slPosted, replies, slLanded)'
  BY <1>1
<1> QED
  BY <1>8, <1>9, <1>10 DEF SlackInv, SlackBeside

LEMMA SlackStarts == SlackInit => SlackInv
<1> SUFFICES ASSUME SlackInit PROVE SlackInv
  OBVIOUS
<1>1. SlackEmpty \in SlackStore /\ SlackOff \in SlackPass /\ SlackOff.batch = {} /\ SlackOff.last = 0
  BY DEF SlackEmpty, SlackStore, SlackOff, SlackPass
<1>2. /\ SlackEmpty.watermark = 0 /\ SlackEmpty.olderThan = 0 /\ SlackEmpty.through = 0 /\ SlackEmpty.thread = 0
      /\ SlackOff.pc = "off"
  BY DEF SlackEmpty, SlackOff
<1>3. SlackTypeOK
  <2>1. << >> \in Seq(SlackStore) /\ TRUE \in BOOLEAN
    OBVIOUS
  <2> QED
    BY <1>1, <2>1 DEF SlackInit, SlackTypeOK
<1>4. SlackGood(SlackEmpty, 0, {}, {})
  BY <1>2 DEF SlackGood, ThreadGood, ChannelGood
<1>5. SlackWalked(SlackEmpty, SlackOff, 0, {}, {})
  BY <1>1, <1>2 DEF SlackWalked, SlackPassed
<1> QED
  BY <1>3, <1>4, <1>5 DEF SlackInit, SlackInv, SlackStoresGood

(* The fields of what is written.                                          *)
LEMMA SlackEngages ==
  ASSUME NEW s \in SlackStore, NEW m
  PROVE  Engaged(s, m) \in SlackStore /\ SameCursors(s, Engaged(s, m))
<1>1. TRUE \in BOOLEAN
  OBVIOUS
<1>2. [s EXCEPT !.takesPart = TRUE] \in SlackStore /\ SameCursors(s, [s EXCEPT !.takesPart = TRUE])
  BY <1>1 DEF SlackStore, SameCursors
<1> QED
  BY <1>2, SameStore DEF Engaged

LEMMA SlackTries ==
  ASSUME NEW s \in SlackStore, NEW m \in SlackMessage, NEW n \in Nat
  PROVE  SlackTried(s, m, n) \in SlackStore /\ SameCursors(s, SlackTried(s, m, n))
  BY DEF SlackStore, SlackTried, SameCursors

LEMMA SlackBuries ==
  ASSUME NEW s \in SlackStore, NEW m \in SlackMessage
  PROVE  /\ [s EXCEPT !.dead = @ \cup {m}] \in SlackStore /\ SameCursors(s, [s EXCEPT !.dead = @ \cup {m}])
         /\ m \in [s EXCEPT !.dead = @ \cup {m}].dead
  BY DEF SlackStore, SameCursors

LEMMA SameCursorsTwice ==
  ASSUME NEW r, NEW s, NEW t, SameCursors(r, s), SameCursors(s, t) PROVE SameCursors(r, t)
  BY DEF SameCursors

(* Live traffic, the link and stutters: the walk stands still.             *)
LEMMA SlackStands ==
  ASSUME SlackInv, SlackBeside, NEW n \in SlackStore, SlackWritten(n), SameCursors(slMem, n), slPass' = slPass
  PROVE  SlackInv'
<1>1. /\ slPosted \in Nat /\ slPosted' \in Nat /\ replies \in SUBSET (1..slPosted)
      /\ replies' \in SUBSET (1..slPosted') /\ slMem \in SlackStore /\ slPass \in SlackPass
      /\ slPass.batch \subseteq 1..slPosted /\ slPosted <= slPosted'
      /\ Later(slPosted, replies, slLanded, slPosted', replies', slLanded')
  BY SlackTypes, SlackNexts
<1>2. /\ SlackGood(slMem, slPosted, replies, slLanded)
      /\ SlackWalked(slMem, slPass, slPosted, replies, slLanded)
  BY DEF SlackInv, SlackStoresGood
<1>3. SlackGood(n, slPosted', replies', slLanded')
  BY <1>1, <1>2, SlackGrows
<1>4. SlackWalked(n, slPass, slPosted', replies', slLanded')
  BY <1>1, <1>2, WalkGrows
<1> QED
  BY <1>1, <1>3, <1>4, SlackMoves

LEMMA SlackAlike ==
  ASSUME SlackInv, UNCHANGED <<slPosted, replies, slDisk>>, slLanded \subseteq slLanded',
         slLanded' \subseteq SlackMessage, slLinked' \in BOOLEAN, slLive' \subseteq SlackMessage,
         slKnown' \subseteq slLanded', slCrashes' \in Nat, slFaults' \in Nat
  PROVE  SlackBeside
<1>1. slPosted \in 0..MaxSlackMsg /\ replies \subseteq 1..slPosted
  BY DEF SlackInv, SlackTypeOK
<1>2. slPosted' = slPosted /\ replies' = replies /\ slDisk' = slDisk
  OBVIOUS
<1>3. Later(slPosted, replies, slLanded, slPosted', replies', slLanded')
  BY <1>1, <1>2 DEF Later
<1> QED
  BY <1>1, <1>2, <1>3 DEF SlackBeside

LEMMA SlackLiveKept ==
  ASSUME SlackInv,
         \/ \E m \in SlackMessage, heard, reply \in BOOLEAN : SlackPost(m, heard, reply)
         \/ \E m \in SlackMessage : SlackLiveLands(m) \/ SlackLiveFails(m)
         \/ SlackRelink \/ UNCHANGED slackVars
  PROVE  SlackInv'
<1>1. /\ slLanded \subseteq SlackMessage /\ slLinked \in BOOLEAN /\ slLive \subseteq SlackMessage
      /\ slKnown \subseteq slLanded /\ slCrashes \in Nat /\ slFaults \in Nat /\ slMem \in SlackStore
  BY DEF SlackInv, SlackTypeOK
<1>2. ASSUME NEW m \in SlackMessage, NEW heard \in BOOLEAN, NEW reply \in BOOLEAN, SlackPost(m, heard, reply)
      PROVE  SlackInv'
  <2>1. /\ slPosted' = slPosted + 1 /\ slPosted < MaxSlackMsg
        /\ replies \subseteq replies' /\ replies' \subseteq replies \cup {slPosted'}
    BY <1>2 DEF SlackPost
  <2>2. slLive' \subseteq slLive \cup {m}
    BY <1>2 DEF SlackPost
  <2>3. UNCHANGED <<slLanded, slLinked, slKnown, slMem, slSaves, slDisk, slPass, slCrashes, slFaults>>
    BY <1>2 DEF SlackPost
  <2>4. slPosted \in Nat /\ replies \subseteq 1..slPosted
    BY SlackTypes
  <2>5. slPosted' \in 0..MaxSlackMsg /\ replies' \subseteq 1..slPosted' /\ slPosted <= slPosted'
    BY <2>1, <2>4 DEF SlackInv, SlackTypeOK
  <2>6. \A x \in replies' \ replies : x > slPosted
    BY <2>1, <2>4
  <2>7. Later(slPosted, replies, slLanded, slPosted', replies', slLanded')
    BY <2>1, <2>3, <2>5, <2>6 DEF Later
  <2>8. SlackBeside
    BY <1>1, <2>2, <2>3, <2>5, <2>7 DEF SlackBeside
  <2>9. SlackKept
    BY <2>3 DEF SlackKept
  <2> QED
    BY <1>1, <2>3, <2>8, <2>9, SlackKeepsStore, SameStore, SlackStands
<1>3. ASSUME NEW m \in SlackMessage, SlackLiveLands(m) PROVE SlackInv'
  <2>1. SlackBeside
    BY <1>1, <1>3, SlackAlike DEF SlackLiveLands
  <2>2. SlackWritten(Engaged(slMem, m)) /\ slPass' = slPass
    BY <1>3, SlackPersists DEF SlackLiveLands
  <2> QED
    BY <1>1, <2>1, <2>2, SlackEngages, SlackStands
<1>4. ASSUME NEW m \in SlackMessage, SlackLiveFails(m) PROVE SlackInv'
  <2>1. SlackKept /\ UNCHANGED <<slPosted, replies, slLanded, slKnown, slDisk, slPass, slCrashes>>
    BY <1>4 DEF SlackLiveFails
  <2>2. /\ slLive' = slLive \ {m} /\ (slLinked' = slLinked \/ slLinked' = FALSE)
        /\ (slFaults' = slFaults \/ slFaults' = slFaults + 1)
    BY <1>4 DEF SlackLiveFails, SlackFails
  <2>3. slLinked' \in BOOLEAN
    BY <1>1, <2>2, Zenon
  <2>4. slFaults' \in Nat
    BY <1>1, <2>2
  <2>5. SlackBeside
    BY <1>1, <2>1, <2>2, <2>3, <2>4, SlackAlike
  <2> QED
    BY <1>1, <2>1, <2>5, SlackKeepsStore, SameStore, SlackStands
<1>5. ASSUME SlackRelink \/ UNCHANGED slackVars PROVE SlackInv'
  <2>1. /\ UNCHANGED <<slPosted, replies, slLanded, slLive, slKnown, slMem, slSaves, slDisk, slPass, slCrashes, slFaults>>
        /\ slLinked' = TRUE \/ slLinked' = slLinked
    BY <1>5 DEF SlackRelink, slackVars
  <2>2. slLinked' \in BOOLEAN
    BY <1>1, <2>1, Zenon
  <2>3. SlackBeside /\ SlackKept
    BY <1>1, <2>1, <2>2, SlackAlike DEF SlackKept
  <2> QED
    BY <1>1, <2>1, <2>3, SlackKeepsStore, SameStore, SlackStands
<1> QED
  BY <1>2, <1>3, <1>4, <1>5

(* A pass that is over, or about to look at the thread, has read nothing.  *)
Resting(p) == p \in SlackPass /\ p.batch = {} /\ p.last = 0 /\ p.pc \in {"off", "thread"}

LEMMA SlackOffRests == Resting(SlackOff) /\ Resting([SlackOff EXCEPT !.pc = "thread"])
  BY DEF Resting, SlackOff, SlackPass

LEMMA SlackRests ==
  ASSUME SlackInv, SlackBeside, NEW n \in SlackStore, SlackWritten(n), Resting(slPass'),
         SlackGood(n, slPosted', replies', slLanded')
  PROVE  SlackInv'
<1>1. SlackWalked(n, slPass', slPosted', replies', slLanded')
  BY DEF Resting, SlackWalked, SlackPassed
<1>2. slPass' \in SlackPass /\ slPass'.batch \subseteq 1..slPosted'
  BY DEF Resting
<1> QED
  BY <1>1, <1>2, SlackMoves

LEMMA SlackStays ==
  ASSUME SlackInv, SlackBeside, NEW n \in SlackStore, SameCursors(slMem, n)
  PROVE  /\ SlackGood(n, slPosted', replies', slLanded')
         /\ SlackWalked(n, slPass, slPosted', replies', slLanded')
<1>1. /\ slPosted \in Nat /\ slPosted' \in Nat /\ replies \in SUBSET (1..slPosted)
      /\ replies' \in SUBSET (1..slPosted') /\ slMem \in SlackStore /\ slPass \in SlackPass
      /\ slPass.batch \subseteq 1..slPosted
      /\ Later(slPosted, replies, slLanded, slPosted', replies', slLanded')
  BY SlackTypes, SlackNexts
<1>2. /\ SlackGood(slMem, slPosted, replies, slLanded)
      /\ SlackWalked(slMem, slPass, slPosted, replies, slLanded)
  BY DEF SlackInv, SlackStoresGood
<1> QED
  BY <1>1, <1>2, SlackGrows, WalkGrows

(* The message the walk is at, and the step past it.                       *)
LEMMA SlackAt ==
  ASSUME SlackInv, SlackWalking
  PROVE  /\ SlackCurrent \in slPass.batch /\ SlackCurrent > slPass.last /\ SlackCurrent \in SlackMessage
         /\ \A m \in slPass.batch : m <= slPass.last \/ SlackCurrent <= m
<1>1. slPass \in SlackPass /\ slPass.batch \subseteq 1..slPosted
  BY SlackTypes
<1>2. Left \in SUBSET Nat /\ Left # {}
  BY <1>1 DEF Left, SlackWalking
<1>3. SlackCurrent \in Left /\ \A y \in Left : SlackCurrent <= y
  BY <1>2, LeastExists DEF SlackCurrent
<1>4. slPass.batch \subseteq Nat /\ slPass.last \in Nat /\ slPass.batch \subseteq SlackMessage
  BY <1>1 DEF SlackPass
<1> HIDE DEF SlackCurrent
<1> QED
  BY <1>3, <1>4 DEF Left

LEMMA SlackSteps ==
  ASSUME SlackInv, SlackBeside, NEW n \in SlackStore, SlackWritten(n), SameCursors(slMem, n),
         SlackWalking, Past(SlackCurrent), SlackCurrent \in slLanded' \cup n.dead
  PROVE  SlackInv'
<1> DEFINE c == SlackCurrent
           p == [slPass EXCEPT !.last = c]
<1>1. /\ c \in slPass.batch /\ c \in Nat /\ c > slPass.last
      /\ \A m \in slPass.batch : m <= slPass.last \/ c <= m
  BY SlackAt DEF SlackMessage
<1>2. slPass \in SlackPass /\ slPass.batch \subseteq 1..slPosted /\ slPass.pc = "walk"
  BY SlackTypes DEF SlackWalking
<1>3. slPass' = p
  BY DEF Past
<1>4. c \in slLanded' \cup n.dead
  OBVIOUS
<1> HIDE DEF c
<1>5. /\ p \in SlackPass /\ p.last = c /\ p.batch = slPass.batch /\ p.pc = slPass.pc /\ p.kind = slPass.kind
      /\ p.cut = slPass.cut
  BY <1>1, <1>2 DEF SlackPass
<1> HIDE DEF p
<1>6. /\ SlackGood(n, slPosted', replies', slLanded')
      /\ SlackWalked(n, slPass, slPosted', replies', slLanded')
  BY SlackStays
<1>7. SlackPassed(n, p, slLanded')
  <2>1. ASSUME NEW m \in p.batch, m <= p.last PROVE m \in slLanded' \cup n.dead
    <3>1. m \in slPass.batch /\ m \in Nat /\ slPass.last \in Nat /\ m <= c
      BY <1>2, <1>5, <2>1 DEF SlackPass
    <3>2. m <= slPass.last \/ m = c
      BY <1>1, <3>1
    <3> QED
      BY <1>4, <1>6, <3>1, <3>2 DEF SlackWalked, SlackPassed
  <2> QED
    BY <1>1, <1>5, <2>1 DEF SlackPassed
<1>8. ReadsChannel(n, slPass, slPosted') => ReadsChannel(n, p, slPosted')
  BY <1>5 DEF ReadsChannel, Capped
<1>9. ReadsThread(n, slPass, replies') => ReadsThread(n, p, replies')
  BY <1>5 DEF ReadsThread
<1>10. SlackWalked(n, p, slPosted', replies', slLanded')
  BY <1>2, <1>5, <1>6, <1>7, <1>8, <1>9 DEF SlackWalked
<1>11. slPass'.batch \subseteq 1..slPosted'
  <2>1. slPosted <= slPosted' /\ slPosted \in Nat /\ slPosted' \in Nat
    BY SlackTypes DEF SlackBeside, Later
  <2> QED
    BY <1>2, <1>3, <1>5, <2>1
<1> QED
  BY <1>3, <1>5, <1>6, <1>10, <1>11, SlackMoves

LEMMA SlackWalkKept ==
  ASSUME SlackInv,
         \/ SlackLands \/ SlackDuplicate \/ SlackRefused \/ \E b \in BOOLEAN : Unavailable(b)
         \/ PassFails \/ NoThread \/ Revisit
  PROVE  SlackInv'
<1>1. /\ slLanded \subseteq SlackMessage /\ slLinked \in BOOLEAN /\ slLive \subseteq SlackMessage
      /\ slKnown \subseteq slLanded /\ slCrashes \in Nat /\ slFaults \in Nat /\ slMem \in SlackStore
  BY DEF SlackInv, SlackTypeOK
<1>2. CASE SlackLands
  <2> DEFINE n == SlackTried(Engaged(slMem, SlackCurrent), SlackCurrent, 0)
  <2>1. SlackWalking /\ SlackCurrent \in SlackMessage
    BY <1>2, SlackAt DEF SlackLands
  <2>2. n \in SlackStore /\ SameCursors(slMem, n)
    <3>1. 0 \in Nat /\ Engaged(slMem, SlackCurrent) \in SlackStore /\ SameCursors(slMem, Engaged(slMem, SlackCurrent))
      BY <1>1, SlackEngages
    <3> QED
      BY <2>1, <3>1, SlackTries, SameCursorsTwice
  <2>3. SlackWritten(n) /\ Past(SlackCurrent) /\ SlackCurrent \in slLanded'
    BY <1>2, SlackPersists DEF SlackLands
  <2>4. SlackBeside
    BY <1>1, <1>2, <2>1, SlackAlike DEF SlackLands
  <2> HIDE DEF n
  <2> QED
    BY <2>1, <2>2, <2>3, <2>4, SlackSteps
<1>3. CASE SlackDuplicate
  <2>1. SlackBeside
    BY <1>1, <1>3, SlackAlike DEF SlackDuplicate
  <2>2. SlackWalking /\ SlackWritten(slMem) /\ Past(SlackCurrent) /\ SlackCurrent \in slLanded'
    BY <1>1, <1>3, SlackKeepsStore DEF SlackDuplicate
  <2> QED
    BY <1>1, <2>1, <2>2, SameStore, SlackSteps
<1>4. CASE SlackRefused
  <2> DEFINE k == slMem.terminal[SlackCurrent] + 1
             s == SlackTried(slMem, SlackCurrent, 0)
             n == [s EXCEPT !.dead = @ \cup {SlackCurrent}]
  <2>1. SlackWalking /\ SlackCurrent \in SlackMessage
    BY <1>4, SlackAt DEF SlackRefused
  <2>2. SlackBeside
    BY <1>1, <1>4, SlackAlike DEF SlackRefused
  <2>3. k \in Nat
    BY <1>1, <2>1 DEF SlackStore
  <2>4. \/ SlackPersist(SlackTried(slMem, SlackCurrent, k)) /\ slPass' = SlackOff
        \/ SlackPersist(n) /\ Past(SlackCurrent)
    BY <1>4, Zenon DEF SlackRefused
  <2> HIDE DEF k
  <2>5. CASE SlackPersist(SlackTried(slMem, SlackCurrent, k)) /\ slPass' = SlackOff
    <3>1. /\ SlackTried(slMem, SlackCurrent, k) \in SlackStore
          /\ SameCursors(slMem, SlackTried(slMem, SlackCurrent, k))
      BY <1>1, <2>1, <2>3, SlackTries
    <3> QED
      BY <2>2, <2>5, <3>1, SlackPersists, SlackStays, SlackOffRests, SlackRests
  <2>6. CASE SlackPersist(n) /\ Past(SlackCurrent)
    <3>1. 0 \in Nat
      OBVIOUS
    <3>2. s \in SlackStore /\ SameCursors(slMem, s)
      BY <1>1, <2>1, <3>1, SlackTries
    <3> HIDE DEF s
    <3>3. n \in SlackStore /\ SameCursors(slMem, n) /\ SlackCurrent \in n.dead
      BY <2>1, <3>2, SlackBuries, SameCursorsTwice
    <3> HIDE DEF n
    <3> QED
      BY <2>1, <2>2, <2>6, <3>3, SlackPersists, SlackSteps
  <2> QED
    BY <2>4, <2>5, <2>6
<1>5. CASE (\E b \in BOOLEAN : Unavailable(b)) \/ PassFails \/ NoThread \/ Revisit
  <2>1. SlackKept /\ UNCHANGED <<slPosted, replies, slLive, slKnown, slDisk, slCrashes>>
    BY <1>5 DEF Unavailable, PassFails, NoThread, Revisit
  <2>2. /\ slLinked' = slLinked \/ slLinked' = FALSE
        /\ slFaults' = slFaults \/ slFaults' = slFaults + 1
    BY <1>5 DEF Unavailable, PassFails, NoThread, Revisit, SlackFails
  <2>3. slLanded \subseteq slLanded' /\ slLanded' \subseteq SlackMessage
    BY <1>1, <1>5, SlackAt DEF Unavailable, PassFails, NoThread, Revisit
  <2>4. Resting(slPass')
    BY <1>5, SlackOffRests DEF Unavailable, PassFails, NoThread, Revisit
  <2>5. slLinked' \in BOOLEAN
    BY <1>1, <2>2, Zenon
  <2>6. slFaults' \in Nat
    BY <1>1, <2>2
  <2>7. SlackBeside
    BY <1>1, <2>1, <2>3, <2>5, <2>6, SlackAlike
  <2> QED
    BY <1>1, <2>1, <2>4, <2>7, SlackKeepsStore, SameStore, SlackStays, SlackRests
<1> QED
  BY <1>2, <1>3, <1>4, <1>5

(* The reads.                                                              *)
LEMMA SliceNat == Slice \in Nat \ {0}
  OBVIOUS

LEMMA SlackReads ==
  ASSUME SlackInv, SlackBegin \/ ReadThread \/ BeginThread
  PROVE  /\ SlackBeside /\ SlackWritten(slMem) /\ slMem \in SlackStore
         /\ SlackGood(slMem, slPosted', replies', slLanded') /\ slPosted' = slPosted /\ replies' = replies
<1>1. SlackKept /\ UNCHANGED <<slPosted, replies, slLanded, slLinked, slLive, slKnown, slDisk, slCrashes, slFaults>>
  BY DEF SlackBegin, ReadThread, BeginThread
<1>2. SlackBeside
  BY <1>1, SlackAlike DEF SlackInv, SlackTypeOK
<1> QED
  BY <1>1, <1>2, SlackTypes, SlackKeepsStore, SameStore, SlackStays

(* A pass that has read something, and walked none of it.                  *)
LEMMA SlackFresh ==
  ASSUME SlackInv, SlackBegin \/ ReadThread \/ BeginThread, slPass' \in SlackPass,
         slPass'.batch \subseteq 1..slPosted, slPass'.last = 0, slPass'.pc \in {"threads", "walk"},
         slPass'.pc = "threads" => slPass'.kind = "channel",
         slPass'.kind = "channel" /\ slPass'.cut => slPass'.batch \ replies # {},
         slPass'.kind = "channel" /\ replies = {} => ReadsChannel(slMem, slPass', slPosted),
         slPass'.kind = "thread" => ReadsThread(slMem, slPass', replies)
  PROVE  SlackInv'
<1>1. SlackPassed(slMem, slPass', slLanded')
  BY DEF SlackPassed
<1>2. SlackWalked(slMem, slPass', slPosted', replies', slLanded')
  BY <1>1, SlackReads DEF SlackWalked
<1> QED
  BY <1>2, SlackReads, SlackMoves

LEMMA SlackBeginKept == ASSUME SlackInv, SlackBegin PROVE SlackInv'
<1> DEFINE slice == Newest(Gap, Slice)
           p == [SlackOff EXCEPT !.pc = "threads", !.batch = slice, !.cut = slice # Gap]
<1>1. slPass' = p
  BY Zenon DEF SlackBegin
<1>2. slPosted \in Nat /\ Gap \in SUBSET (1..slPosted) /\ slPosted <= MaxSlackMsg
  BY SlackTypes DEF Gap, Top
<1>3. /\ slice \subseteq Gap /\ (Gap # {} => slice # {})
      /\ \A x \in slice : \A m \in Gap : x <= m => m \in slice
  BY <1>2, SliceNat, NewestClosed
<1> HIDE DEF slice
<1>4. slice \in SUBSET SlackMessage /\ (slice # Gap) \in BOOLEAN
  BY <1>2, <1>3 DEF SlackMessage
<1>5. /\ p \in SlackPass /\ p.batch = slice /\ p.last = 0 /\ p.pc = "threads" /\ p.kind = "channel"
      /\ p.cut = (slice # Gap)
  BY <1>4 DEF SlackOff, SlackPass
<1> HIDE DEF p
<1>6. ASSUME replies = {} PROVE ReadsChannel(slMem, p, slPosted)
  <2>1. \A m : m \in Gap <=> m \in 1..slPosted /\ Within(slMem, m)
    BY <1>6 DEF Gap, Top, Within
  <2>2. \A m \in p.batch : Within(slMem, m)
    BY <1>3, <1>5, <2>1
  <2>3. ~p.cut => \A m \in 1..slPosted : Within(slMem, m) => m \in p.batch
    BY <1>5, <2>1
  <2>4. \A m \in 1..slPosted : \A x \in p.batch : x <= m /\ Within(slMem, m) => m \in p.batch
    BY <1>3, <1>5, <2>1
  <2> QED
    BY <2>2, <2>3, <2>4 DEF ReadsChannel
<1>7. p.batch \subseteq 1..slPosted
  BY <1>2, <1>3, <1>5
<1>8. p.cut => p.batch \ replies # {}
  BY <1>3, <1>5 DEF Gap, Top
<1> QED
  BY <1>1, <1>5, <1>6, <1>7, <1>8, SlackFresh

LEMMA ReadThreadKept == ASSUME SlackInv, ReadThread PROVE SlackInv'
<1> DEFINE oldest == IF Root \in slPass.batch THEN Oldest(Thread, Slice) ELSE {}
           b == slPass.batch \cup oldest
           p == [slPass EXCEPT !.pc = "walk", !.batch = b,
                               !.cutThread = Root \in slPass.batch /\ oldest # Thread]
<1>1. slPass' = p
  BY Zenon DEF ReadThread
<1>2. slPosted \in Nat /\ Thread \in SUBSET (1..slPosted) /\ Thread \subseteq replies /\ slPosted <= MaxSlackMsg
  BY SlackTypes DEF Thread
<1>3. oldest \subseteq Thread
  BY <1>2, SliceNat, OldestClosed
<1> HIDE DEF oldest
<1>4. /\ slPass \in SlackPass /\ slPass.batch \subseteq 1..slPosted /\ slPass.pc = "threads" /\ slPass.kind = "channel"
      /\ slPass.last = 0
  BY SlackTypes DEF ReadThread, SlackInv, SlackWalked
<1>5. b \in SUBSET SlackMessage /\ b \subseteq 1..slPosted /\ (replies = {} => b = slPass.batch)
  <2>1. oldest \subseteq 1..slPosted
    BY <1>2, <1>3
  <2>2. 1..slPosted \subseteq SlackMessage
    BY <1>2 DEF SlackMessage
  <2>3. replies = {} => oldest = {}
    BY <1>2, <1>3
  <2>4. b \subseteq 1..slPosted /\ (replies = {} => b = slPass.batch)
    BY <1>4, <2>1, <2>3
  <2> HIDE DEF b
  <2> QED
    BY <2>2, <2>4
<1>6. slPass.batch \subseteq b
  OBVIOUS
<1> HIDE DEF b
<1>7. (Root \in slPass.batch /\ oldest # Thread) \in BOOLEAN
  OBVIOUS
<1>8. /\ p \in SlackPass /\ p.batch = b /\ p.last = slPass.last /\ p.pc = "walk" /\ p.kind = slPass.kind
      /\ p.cut = slPass.cut
  BY <1>4, <1>5, <1>7, Zenon DEF SlackPass
<1> HIDE DEF p
<1>9. ASSUME replies = {} PROVE ReadsChannel(slMem, p, slPosted)
  <2>1. ReadsChannel(slMem, slPass, slPosted)
    BY <1>4, <1>9 DEF SlackInv, SlackWalked
  <2> QED
    BY <1>5, <1>8, <1>9, <2>1 DEF ReadsChannel, Capped
<1>10. p.cut => p.batch \ replies # {}
  BY <1>4, <1>8, <1>6 DEF SlackInv, SlackWalked
<1> QED
  BY <1>1, <1>4, <1>5, <1>8, <1>9, <1>10, SlackFresh

LEMMA BeginThreadKept == ASSUME SlackInv, BeginThread PROVE SlackInv'
<1> DEFINE slice == Oldest(SlackUnread, Slice)
           p == [SlackOff EXCEPT !.pc = "walk", !.kind = "thread", !.batch = slice,
                                 !.cutThread = slice # SlackUnread]
<1>1. slPass' = p
  BY Zenon DEF BeginThread
<1>2. /\ slPosted \in Nat /\ SlackUnread \in SUBSET (1..slPosted) /\ slPosted <= MaxSlackMsg
      /\ \A m \in replies : slMem.thread < m => m \in SlackUnread
  BY SlackTypes DEF SlackUnread
<1>3. slice \subseteq SlackUnread /\ \A x \in slice : \A m \in SlackUnread : m <= x => m \in slice
  BY <1>2, SliceNat, OldestClosed
<1> HIDE DEF slice
<1>4. slice \in SUBSET SlackMessage /\ (slice # SlackUnread) \in BOOLEAN
  BY <1>2, <1>3 DEF SlackMessage
<1>5. /\ p \in SlackPass /\ p.batch = slice /\ p.last = 0 /\ p.pc = "walk" /\ p.kind = "thread"
  BY <1>4 DEF SlackOff, SlackPass
<1> HIDE DEF p
<1>6. ReadsThread(slMem, p, replies)
  BY <1>2, <1>3, <1>5 DEF ReadsThread
<1>7. p.batch \subseteq 1..slPosted
  BY <1>2, <1>3, <1>5
<1> QED
  BY <1>1, <1>5, <1>6, <1>7, SlackFresh

(* The ends of the walks.                                                  *)
LEMMA WalkDone ==
  ASSUME SlackInv, slPass.pc = "walk", Left = {}
  PROVE  /\ \A m \in slPass.batch : m <= slPass.last /\ m \in slLanded \cup slMem.dead
         /\ slPass.last = 0 => slPass.batch = {}
         /\ slPass.last # 0 => slPass.last \in slPass.batch
<1>1. slPass.batch \subseteq 1..slPosted /\ slPosted \in Nat /\ slPass.last \in Nat
  BY SlackTypes DEF SlackPass
<1>2. \A m \in slPass.batch : m <= slPass.last
  BY <1>1 DEF Left
<1>3. SlackPassed(slMem, slPass, slLanded)
  BY DEF SlackInv, SlackWalked
<1> QED
  BY <1>1, <1>2, <1>3 DEF SlackPassed

LEMMA PendingFields ==
  ASSUME NEW s \in SlackStore, slPass \in SlackPass
  PROVE  /\ [s EXCEPT !.pending = @ \/ slPass.cutThread] \in SlackStore
         /\ SameCursors(s, [s EXCEPT !.pending = @ \/ slPass.cutThread])
<1>1. (s.pending \/ slPass.cutThread) \in BOOLEAN
  OBVIOUS
<1> QED
  BY <1>1, Zenon DEF SlackStore, SameCursors

LEMMA ClosedFields ==
  ASSUME NEW s \in SlackStore, slPass \in SlackPass
  PROVE  /\ Closed(s) \in SlackStore /\ Closed(s).olderThan = 0 /\ Closed(s).through = 0
         /\ Closed(s).thread = s.thread /\ Closed(s).dead = s.dead
         /\ Closed(s).watermark = IF s.through # 0 THEN s.through
                                  ELSE IF slPass.last # 0 THEN slPass.last ELSE s.watermark
<1> DEFINE w == IF s.through # 0 THEN s.through ELSE IF slPass.last # 0 THEN slPass.last ELSE s.watermark
<1>1. 0 \in Nat /\ w \in Nat
  BY DEF SlackStore, SlackPass
<1>2. Closed(s) = [s EXCEPT !.watermark = w, !.olderThan = 0, !.through = 0]
  BY Zenon DEF Closed
<1>3. w = IF s.through # 0 THEN s.through ELSE IF slPass.last # 0 THEN slPass.last ELSE s.watermark
  OBVIOUS
<1> HIDE DEF w
<1>4. /\ Closed(s) \in SlackStore /\ Closed(s).olderThan = 0 /\ Closed(s).through = 0
      /\ Closed(s).thread = s.thread /\ Closed(s).dead = s.dead /\ Closed(s).watermark = w
  BY <1>1, <1>2, Zenon DEF SlackStore
<1> QED
  BY <1>3, <1>4

LEMMA SlicedFields ==
  ASSUME NEW s \in SlackStore, slPass \in SlackPass, slPass.batch \cap Top # {}, slPosted \in Nat
  PROVE  LET top == slPass.batch \cap Top
         IN  /\ Sliced(s) \in SlackStore /\ Sliced(s).olderThan = MinOf(top)
             /\ Sliced(s).through = IF s.olderThan # 0 THEN s.olderThan ELSE MaxOf(top)
             /\ Sliced(s).thread = s.thread /\ Sliced(s).dead = s.dead /\ Sliced(s).watermark = s.watermark
             /\ MinOf(top) \in top /\ MaxOf(top) \in top /\ \A m \in top : MinOf(top) <= m /\ m <= MaxOf(top)
<1> DEFINE top == slPass.batch \cap Top
           a == MinOf(top)
           b == MaxOf(top)
           t == IF s.olderThan # 0 THEN s.olderThan ELSE b
<1>1. top \in SUBSET (1..slPosted) /\ top \in SUBSET Nat /\ top # {}
  BY DEF Top
<1> HIDE DEF top
<1>2. a \in top /\ b \in top /\ \A m \in top : a <= m /\ m <= b
  BY <1>1, LeastExists, GreatestExists
<1>3. Sliced(s) = [s EXCEPT !.olderThan = a, !.through = t]
  BY Zenon DEF Sliced, top
<1>4. t = IF s.olderThan # 0 THEN s.olderThan ELSE b
  OBVIOUS
<1> HIDE DEF a, b
<1>5. a \in Nat /\ t \in Nat
  BY <1>1, <1>2 DEF SlackStore
<1> HIDE DEF t
<1>6. /\ Sliced(s) \in SlackStore /\ Sliced(s).olderThan = a /\ Sliced(s).through = t
      /\ Sliced(s).thread = s.thread /\ Sliced(s).dead = s.dead /\ Sliced(s).watermark = s.watermark
  BY <1>3, <1>5, Zenon DEF SlackStore
<1> QED
  BY <1>2, <1>4, <1>6 DEF a, b, top

LEMMA EndChannelKept == ASSUME SlackInv, EndChannel PROVE SlackInv'
<1> DEFINE next == IF slPass.cut THEN Sliced(slMem) ELSE Closed(slMem)
           n == [next EXCEPT !.pending = @ \/ slPass.cutThread]
           top == slPass.batch \cap Top
<1>1. /\ slPosted \in Nat /\ slMem \in SlackStore /\ slPass \in SlackPass /\ slPass.batch \subseteq 1..slPosted
      /\ slMem.watermark \in Nat /\ slMem.olderThan \in Nat /\ slMem.through \in Nat /\ slPass.last \in Nat
      /\ slMem.thread \in Nat
  BY SlackTypes DEF SlackStore, SlackPass
<1>2. SlackWritten(n)
  BY SlackPersists DEF EndChannel
<1>3. Resting(slPass') /\ UNCHANGED <<slPosted, replies, slLanded, slLinked, slLive, slKnown, slDisk, slCrashes, slFaults>>
  BY SlackOffRests DEF EndChannel
<1>4. SlackBeside
  BY <1>3, SlackAlike DEF SlackInv, SlackTypeOK
<1>5. /\ slPass.pc = "walk" /\ slPass.kind = "channel" /\ Left = {}
  BY DEF EndChannel
<1>6. /\ \A m \in slPass.batch : m <= slPass.last /\ m \in slLanded \cup slMem.dead
      /\ slPass.last = 0 => slPass.batch = {}
      /\ slPass.last # 0 => slPass.last \in slPass.batch
  BY <1>5, WalkDone
<1>7. SlackGood(slMem, slPosted, replies, slLanded)
  BY DEF SlackInv, SlackStoresGood
<1>8. replies = {} => ReadsChannel(slMem, slPass, slPosted) /\ ChannelGood(slMem, slPosted, slLanded)
  BY <1>5, <1>7 DEF SlackInv, SlackWalked, SlackGood
<1>9. /\ next \in SlackStore /\ next.thread = slMem.thread /\ next.dead = slMem.dead
      /\ replies = {} => ChannelGood(next, slPosted, slLanded)
  <2>1. CASE slPass.cut
    <3>1. slPass.batch \cap Top # {}
      BY <1>1, <1>5, <2>1 DEF SlackInv, SlackWalked, Top
    <3>2. next = Sliced(slMem)
      BY <2>1
    <3> HIDE DEF next
    <3>3. /\ next \in SlackStore /\ next.olderThan = MinOf(top)
          /\ next.through = IF slMem.olderThan # 0 THEN slMem.olderThan ELSE MaxOf(top)
          /\ next.thread = slMem.thread /\ next.dead = slMem.dead /\ next.watermark = slMem.watermark
          /\ MinOf(top) \in top /\ MaxOf(top) \in top /\ \A m \in top : MinOf(top) <= m /\ m <= MaxOf(top)
      BY <1>1, <3>1, <3>2, SlicedFields
    <3>4. ASSUME replies = {} PROVE ChannelGood(next, slPosted, slLanded)
      <4> DEFINE a == MinOf(top)
                 b == MaxOf(top)
      <4>1. top = slPass.batch
        BY <1>1, <3>4 DEF Top
      <4> HIDE DEF a, b
      <4>2. /\ a \in slPass.batch /\ b \in slPass.batch /\ a <= b /\ a \in 1..slPosted /\ b \in 1..slPosted
            /\ next.olderThan = a /\ next.through = IF slMem.olderThan # 0 THEN slMem.olderThan ELSE b
        BY <1>1, <3>3, <4>1 DEF a, b
      <4>3. ChannelGood(slMem, slPosted, slLanded) /\ ReadsChannel(slMem, slPass, slPosted)
        BY <1>8, <3>4
      <4>4. Within(slMem, a) /\ Within(slMem, b)
        BY <4>2, <4>3 DEF ReadsChannel
      <4>5. ASSUME NEW m \in a..next.through PROVE m \in slLanded \cup next.dead
        <5>1. m \in 1..slPosted /\ a <= m /\ m <= next.through
          BY <1>1, <4>2, <4>3 DEF ChannelGood
        <5>2. CASE slMem.olderThan # 0 /\ m = slMem.olderThan
          BY <1>1, <3>3, <4>3, <5>2 DEF ChannelGood
        <5>3. CASE ~(slMem.olderThan # 0 /\ m = slMem.olderThan)
          <6>1. Within(slMem, m) /\ Capped(slMem, slPass, m)
            BY <1>1, <4>2, <4>4, <5>1, <5>3 DEF Within, Capped
          <6>2. m \in slPass.batch
            BY <4>2, <4>3, <5>1, <6>1 DEF ReadsChannel
          <6> QED
            BY <1>6, <3>3, <6>2
        <5> QED
          BY <5>2, <5>3
      <4>6. next.olderThan <= next.through /\ next.through <= slPosted /\ next.through # 0
        BY <1>1, <4>2, <4>3, <4>4 DEF ChannelGood, Within
      <4>7. next.watermark <= slPosted /\ \A m \in 1..next.watermark : m \in slLanded \cup next.dead
        BY <3>3, <4>3 DEF ChannelGood
      <4> QED
        BY <4>2, <4>5, <4>6, <4>7 DEF ChannelGood
    <3> QED
      BY <3>3, <3>4
  <2>2. CASE ~slPass.cut
    <3>1. next = Closed(slMem)
      BY <2>2
    <3> HIDE DEF next
    <3>2. /\ next \in SlackStore /\ next.olderThan = 0 /\ next.through = 0
          /\ next.thread = slMem.thread /\ next.dead = slMem.dead
          /\ next.watermark = IF slMem.through # 0 THEN slMem.through
                              ELSE IF slPass.last # 0 THEN slPass.last ELSE slMem.watermark
      BY <1>1, <3>1, ClosedFields
    <3>3. ASSUME replies = {} PROVE ChannelGood(next, slPosted, slLanded)
      <4>1. ChannelGood(slMem, slPosted, slLanded) /\ ReadsChannel(slMem, slPass, slPosted)
        BY <1>8, <3>3
      <4>2. next.watermark <= slPosted
        BY <1>1, <1>6, <3>2, <4>1 DEF ChannelGood
      <4>3. ASSUME NEW m \in 1..next.watermark PROVE m \in slLanded \cup next.dead
        <5>1. m \in 1..slPosted /\ next.watermark \in Nat
          BY <1>1, <3>2, <4>2
        <5>2. CASE m <= slMem.watermark
          BY <1>1, <3>2, <4>1, <5>1, <5>2 DEF ChannelGood
        <5>3. CASE slMem.olderThan # 0 /\ m >= slMem.olderThan
          BY <1>1, <3>2, <4>1, <5>1, <5>3 DEF ChannelGood
        <5>4. CASE slMem.watermark < m /\ (slMem.olderThan # 0 => m < slMem.olderThan)
          <6>1. Within(slMem, m)
            BY <5>4 DEF Within
          <6>2. Capped(slMem, slPass, m)
            BY <1>1, <1>6, <3>2, <4>1, <5>1, <5>4 DEF Capped, ChannelGood
          <6>3. m \in slPass.batch
            BY <2>2, <4>1, <5>1, <6>1, <6>2 DEF ReadsChannel
          <6> QED
            BY <1>6, <3>2, <6>3
        <5> QED
          BY <1>1, <5>1, <5>2, <5>3, <5>4
      <4> QED
        BY <1>1, <3>2, <4>2, <4>3 DEF ChannelGood
    <3> QED
      BY <3>2, <3>3
  <2> QED
    BY <2>1, <2>2
<1> HIDE DEF next
<1>10. n \in SlackStore /\ SameCursors(next, n)
  BY <1>1, <1>9, PendingFields
<1>11. SlackGood(next, slPosted, replies, slLanded)
  BY <1>7, <1>9 DEF SlackGood, ThreadGood
<1> HIDE DEF n
<1>12. SlackGood(n, slPosted', replies', slLanded')
  <2>1. Later(slPosted, replies, slLanded, slPosted', replies', slLanded')
    BY <1>4 DEF SlackBeside
  <2>2. slPosted' \in Nat /\ replies' \in SUBSET (1..slPosted') /\ replies \in SUBSET (1..slPosted)
    BY <1>4, SlackTypes, SlackNexts
  <2> QED
    BY <1>1, <1>9, <1>10, <1>11, <2>1, <2>2, SlackGrows
<1> QED
  BY <1>2, <1>3, <1>4, <1>10, <1>12, SlackRests

LEMMA EndThreadKept == ASSUME SlackInv, EndThread PROVE SlackInv'
<1> DEFINE t == IF ~slMem.takesPart /\ ~slPass.cutThread THEN 0
                ELSE IF slPass.last # 0 THEN slPass.last ELSE slMem.thread
           n == [slMem EXCEPT !.thread = t, !.pending = @ /\ slPass.cutThread]
<1>1. /\ slPosted \in Nat /\ slMem \in SlackStore /\ slPass \in SlackPass /\ slPass.batch \subseteq 1..slPosted
      /\ slPass.last \in Nat /\ slMem.thread \in Nat /\ replies \subseteq 1..slPosted
  BY SlackTypes DEF SlackStore, SlackPass
<1>2. SlackPersist(n)
  BY Zenon DEF EndThread
<1>3. Resting(slPass') /\ UNCHANGED <<slPosted, replies, slLanded, slLinked, slLive, slKnown, slDisk, slCrashes, slFaults>>
  BY SlackOffRests DEF EndThread
<1>4. SlackBeside
  BY <1>3, SlackAlike DEF SlackInv, SlackTypeOK
<1>5. slPass.pc = "walk" /\ slPass.kind = "thread" /\ Left = {}
  BY DEF EndThread
<1>6. /\ \A m \in slPass.batch : m <= slPass.last /\ m \in slLanded \cup slMem.dead
      /\ slPass.last # 0 => slPass.last \in slPass.batch
  BY <1>5, WalkDone
<1>7. SlackGood(slMem, slPosted, replies, slLanded) /\ ReadsThread(slMem, slPass, replies)
  BY <1>5 DEF SlackInv, SlackStoresGood, SlackWalked
<1>8. t \in Nat /\ (t = 0 \/ t = slMem.thread \/ (t = slPass.last /\ t \in slPass.batch))
  BY <1>1, <1>6
<1>9. (slMem.pending /\ slPass.cutThread) \in BOOLEAN
  OBVIOUS
<1> HIDE DEF t
<1>10. /\ n \in SlackStore /\ n.thread = t /\ n.dead = slMem.dead /\ n.watermark = slMem.watermark
      /\ n.olderThan = slMem.olderThan /\ n.through = slMem.through
  BY <1>1, <1>8, <1>9, Zenon DEF SlackStore
<1> HIDE DEF n
<1>11. ThreadGood(n, slPosted, replies, slLanded)
  <2>1. t <= slPosted
    BY <1>1, <1>7, <1>8 DEF SlackGood, ThreadGood
  <2>2. ASSUME NEW m \in replies, m <= t PROVE m \in slLanded \cup slMem.dead
    <3>1. m \in 1..slPosted
      BY <1>1
    <3>2. CASE m <= slMem.thread
      BY <1>7, <3>2 DEF SlackGood, ThreadGood
    <3>3. CASE slMem.thread < m
      <4>1. t \in slPass.batch
        BY <1>1, <1>8, <2>2, <3>1, <3>3
      <4>2. m \in slPass.batch
        BY <1>7, <2>2, <3>3, <4>1 DEF ReadsThread
      <4> QED
        BY <1>6, <4>2
    <3> QED
      BY <1>1, <3>1, <3>2, <3>3
  <2> QED
    BY <1>10, <2>1, <2>2 DEF ThreadGood
<1>12. SlackGood(n, slPosted, replies, slLanded)
  BY <1>7, <1>10, <1>11 DEF SlackGood, ChannelGood
<1> QED
  BY <1>2, <1>3, <1>4, <1>10, <1>12, SlackPersists, SlackRests

LEMMA SlackSaveKept ==
  ASSUME SlackInv, SlackSave \/ SlackSaveFails
  PROVE  SlackInv'
<1>1. slSaves \in Seq(SlackStore) /\ slSaves # << >>
  BY SlackTypes DEF SlackSave, SlackSaveFails
<1>2. /\ slSaves[1] \in SlackStore /\ Tail(slSaves) \in Seq(SlackStore) /\ Head(slSaves) = slSaves[1]
      /\ \A i \in 1..Len(Tail(slSaves)) : i + 1 \in 1..Len(slSaves) /\ Tail(slSaves)[i] = slSaves[i + 1]
  BY <1>1, Dequeued
<1>3. /\ UNCHANGED <<slPosted, replies, slLanded, slLinked, slLive, slKnown, slMem, slPass, slCrashes>>
      /\ slFaults' \in Nat
  <2>1. UNCHANGED <<slPosted, replies, slLanded, slLinked, slLive, slKnown, slMem, slPass, slCrashes>>
    BY DEF SlackSave, SlackSaveFails
  <2>2. slFaults' = slFaults \/ slFaults' = slFaults + 1
    BY DEF SlackSave, SlackSaveFails, SlackFails
  <2>3. slFaults \in Nat
    BY DEF SlackInv, SlackTypeOK
  <2> QED
    BY <2>1, <2>2, <2>3
<1>4. slSaves' = Tail(slSaves) /\ (slDisk' = slDisk \/ slDisk' = slSaves[1])
  BY <1>2 DEF SlackSave, SlackSaveFails
<1>5. SlackTypeOK'
  BY <1>2, <1>3, <1>4 DEF SlackInv, SlackTypeOK
<1>6. SlackStoresGood'
  <2>1. /\ SlackGood(slMem, slPosted, replies, slLanded) /\ SlackGood(slDisk, slPosted, replies, slLanded)
        /\ \A i \in 1..Len(slSaves) : SlackGood(slSaves[i], slPosted, replies, slLanded)
    BY DEF SlackInv, SlackStoresGood
  <2>2. 1 \in 1..Len(slSaves)
    BY <1>1
  <2>3. SlackGood(slMem', slPosted, replies, slLanded) /\ SlackGood(slDisk', slPosted, replies, slLanded)
    BY <1>3, <1>4, <2>1, <2>2
  <2>4. ASSUME NEW i \in 1..Len(slSaves') PROVE SlackGood(slSaves'[i], slPosted, replies, slLanded)
    BY <1>2, <1>4, <2>1
  <2> QED
    BY <1>3, <2>3, <2>4 DEF SlackStoresGood
<1>7. SlackWalked(slMem, slPass, slPosted, replies, slLanded)' /\ slKnown' \subseteq slLanded'
  BY <1>3 DEF SlackInv
<1> QED
  BY <1>5, <1>6, <1>7 DEF SlackInv

LEMMA SlackCrashKept == ASSUME SlackInv, SlackCrash PROVE SlackInv'
<1>1. /\ slPosted' = slPosted /\ replies' = replies /\ slLanded' = slLanded /\ slDisk' = slDisk /\ slFaults' = slFaults
      /\ slMem' = slDisk /\ slSaves' = << >> /\ slLive' = {} /\ slKnown' = {} /\ slPass' = SlackOff
      /\ slCrashes' = slCrashes + 1 /\ slLinked' = FALSE
  BY DEF SlackCrash
<1>2. SlackTypeOK'
  <2>1. slSaves' \in Seq(SlackStore)
    <3>1. << >> \in Seq(SlackStore)
      OBVIOUS
    <3> QED
      BY <1>1, <3>1
  <2>2. slLinked' \in BOOLEAN
    BY <1>1, Zenon
  <2>3. slPass' \in SlackPass /\ slPass'.batch = {}
    BY <1>1, SlackOffRests DEF Resting
  <2>4. slCrashes' \in Nat
    BY <1>1 DEF SlackInv, SlackTypeOK
  <2> QED
    BY <1>1, <2>1, <2>2, <2>3, <2>4 DEF SlackInv, SlackTypeOK
<1>3. SlackGood(slDisk, slPosted, replies, slLanded)
  BY DEF SlackInv, SlackStoresGood
<1>4. SlackStoresGood'
  BY <1>1, <1>3 DEF SlackStoresGood
<1>5. SlackWalked(slMem, slPass, slPosted, replies, slLanded)'
  <2>1. Resting(slPass')
    BY <1>1, SlackOffRests
  <2> QED
    BY <2>1 DEF Resting, SlackWalked, SlackPassed
<1>6. slKnown' \subseteq slLanded'
  BY <1>1
<1> QED
  BY <1>2, <1>4, <1>5, <1>6 DEF SlackInv

LEMMA SlackKeeps == ASSUME SlackInv, [SlackNext]_slackVars PROVE SlackInv'
<1>1. CASE \/ \E m \in SlackMessage, heard, reply \in BOOLEAN : SlackPost(m, heard, reply)
           \/ \E m \in SlackMessage : SlackLiveLands(m) \/ SlackLiveFails(m)
           \/ SlackRelink \/ UNCHANGED slackVars
  BY <1>1, SlackLiveKept
<1>2. CASE SlackWalk
  <2>1. CASE SlackBegin \/ ReadThread \/ BeginThread
    BY <2>1, SlackBeginKept, ReadThreadKept, BeginThreadKept
  <2>2. CASE EndChannel \/ EndThread
    BY <2>2, EndChannelKept, EndThreadKept
  <2> QED
    BY <1>2, <2>1, <2>2, SlackWalkKept DEF SlackWalk
<1>3. CASE SlackSave \/ SlackSaveFails \/ SlackCrash
  BY <1>3, SlackSaveKept, SlackCrashKept
<1> QED
  BY <1>1, <1>2, <1>3 DEF SlackNext

LEMMA DiscordKeepsInv == ASSUME DiscordInv, [DiscordNext]_discordVars PROVE DiscordInv'
<1>1. CASE \/ \E m \in DiscordMessage, b \in BOOLEAN : DiscordPost(m, b) \/ DiscordLiveFails(m, b)
           \/ \E m \in DiscordMessage : DiscordLiveLands(m)
           \/ Unlink \/ DiscordRelink \/ UNCHANGED discordVars
  BY <1>1, DiscordLiveKept
<1>2. CASE DiscordWalk
  <2>1. CASE DiscordBegin \/ Fetch \/ FetchEnds \/ PageWalked \/ DiscordSkips
    BY <2>1, DiscordReads
  <2>2. CASE DiscordDuplicate \/ DiscordLands \/ End
    BY <2>2, DiscordDuplicateKept, DiscordLandsKept, DiscordEndKept
  <2>3. CASE \E b \in BOOLEAN : AttemptFails(b)
    BY <2>3, DiscordFailsKept
  <2> QED
    BY <1>2, <2>1, <2>2, <2>3 DEF DiscordWalk
<1>3. CASE DiscordSave \/ DiscordSaveFails \/ DiscordCrash
  BY <1>3, DiscordSaveKept, DiscordCrashKept
<1> QED
  BY <1>1, <1>2, <1>3 DEF DiscordNext

LEMMA CursorsHold ==
  ASSUME DiscordInv, SlackInv PROVE NothingSkipped
<1>1. DiscordSkipsNothing
  BY DEF DiscordInv, StoresKnown, DiscordSkipsNothing
<1>2. NoReplySkipped
  BY DEF SlackInv, SlackStoresGood, SlackGood, ThreadGood, NoReplySkipped, ThreadAccounted
<1>3. replies = {} => SlackSkipsNothing
  <2>1. SUFFICES ASSUME replies = {} PROVE SlackSkipsNothing
    OBVIOUS
  <2>2. ChannelGood(slMem, slPosted, slLanded) /\ ChannelGood(slDisk, slPosted, slLanded)
    BY <2>1 DEF SlackInv, SlackStoresGood, SlackGood
  <2>3. slMem.watermark \in Nat /\ slDisk.watermark \in Nat
    BY SlackTypes DEF SlackStore
  <2> QED
    BY <2>2, <2>3 DEF ChannelGood, SlackSkipsNothing, SlackAccounted, Top
<1> QED
  BY <1>1, <1>2, <1>3 DEF NothingSkipped

LEMMA CursorsKeep ==
  ASSUME DiscordInv, SlackInv, [CursorsNext]_<<discordVars, slackVars>> PROVE DiscordInv' /\ SlackInv'
<1>1. [DiscordNext]_discordVars /\ [SlackNext]_slackVars
  BY DEF CursorsNext
<1> QED
  BY <1>1, DiscordKeepsInv, SlackKeeps

(* The cursor stores of both adapters, their queued saves and their walks  *)
(* stay what the code declares them to be (recovery.ts of each adapter).   *)
THEOREM CursorTypesCorrect == CursorsSpec => [](DiscordTypeOK /\ SlackTypeOK)
<1>1. CursorsInit => DiscordInv /\ SlackInv
  BY DiscordStarts, SlackStarts DEF CursorsInit
<1>2. DiscordInv /\ SlackInv /\ [CursorsNext]_<<discordVars, slackVars>> => (DiscordInv /\ SlackInv)'
  BY CursorsKeep
<1>3. DiscordInv /\ SlackInv => DiscordTypeOK /\ SlackTypeOK
  BY DEF DiscordInv, SlackInv
<1> QED
  BY <1>1, <1>2, <1>3, PTL DEF CursorsSpec

(* No history cursor passes a message nobody has accounted for, whatever   *)
(* the page and slice sizes, the attempts, the crashes and failed writes   *)
(* (advanceRecovered, recoverConversation, recoverMissedMessages).         *)
THEOREM NothingEverSkipped == CursorsSpec => []NothingSkipped
<1>1. CursorsInit => DiscordInv /\ SlackInv
  BY DiscordStarts, SlackStarts DEF CursorsInit
<1>2. DiscordInv /\ SlackInv /\ [CursorsNext]_<<discordVars, slackVars>> => (DiscordInv /\ SlackInv)'
  BY CursorsKeep
<1>3. DiscordInv /\ SlackInv => NothingSkipped
  BY CursorsHold
<1> QED
  BY <1>1, <1>2, <1>3, PTL DEF CursorsSpec
=============================================================================

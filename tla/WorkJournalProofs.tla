-------------------------- MODULE WorkJournalProofs --------------------------
(***************************************************************************)
(* The journal replays to the committed rows, for every set of keys, every *)
(* retention window and every batch size.                                  *)
(***************************************************************************)
EXTENDS WorkJournal, FiniteSetTheorems, TLAPS

USE SweepAssumption, BoundAssumption

(* A journal J tells the truth T: every key with entries has a last one,   *)
(* that one holds the row, and a key without entries has no row. This is   *)
(* ReplayExact without the CHOOSE, strengthened with what a deletion needs.*)
Faithful(J, T) ==
  /\ J \subseteq Entry
  /\ \A e, f \in J : e.seq = f.seq => e = f
  /\ \A e \in J : \E m \in J : m.key = e.key /\ Later(J, m) = {}
  /\ \A e \in J : Later(J, e) = {} => e.row = T[e.key]
  /\ \A k \in Keys : (\A e \in J : e.key # k) => T[k] = None

(* Reading the latest row of a faithful journal gives the truth.           *)
LEMMA FaithfulLatest ==
  ASSUME NEW J, NEW T, Faithful(J, T), NEW k \in Keys
  PROVE  Latest(J, k) = T[k]
<1>1. CASE \E e \in J : e.key = k /\ Later(J, e) = {}
  <2> DEFINE m == CHOOSE e \in J : e.key = k /\ Later(J, e) = {}
  <2>1. m \in J /\ m.key = k /\ Later(J, m) = {}
    BY <1>1
  <2> QED BY <1>1, <2>1 DEF Faithful, Latest
<1>2. CASE ~\E e \in J : e.key = k /\ Later(J, e) = {}
  <2>1. \A e \in J : e.key # k
    BY <1>2 DEF Faithful
  <2> QED BY <1>2, <2>1 DEF Faithful, Latest
<1> QED BY <1>1, <1>2

(* Appending the snapshot of a write keeps the journal faithful to the     *)
(* written row (JournalGroup.record).                                      *)
LEMMA AppendFaithful ==
  ASSUME NEW J, NEW T \in [Keys -> Rows], Faithful(J, T),
         NEW e \in Entry, \A f \in J : f.seq < e.seq
  PROVE  Faithful(J \cup {e}, [T EXCEPT ![e.key] = e.row])
<1> DEFINE K == J \cup {e}
<1> DEFINE U == [T EXCEPT ![e.key] = e.row]
<1>0. K \subseteq Entry /\ \A f \in K : f.seq \in Int /\ f.key \in Keys
  BY DEF Faithful, Entry
<1>1. \A f, g \in K : f.seq = g.seq => f = g
  BY <1>0 DEF Faithful
<1>2. Later(K, e) = {}
  BY <1>0 DEF Later
<1>3. ASSUME NEW f \in J, f.key # e.key PROVE Later(K, f) = Later(J, f)
  BY <1>3 DEF Later
<1>4. ASSUME NEW f \in J, f.key = e.key PROVE e \in Later(K, f)
  BY <1>0, <1>4 DEF Later
<1>5. ASSUME NEW f \in K PROVE \E m \in K : m.key = f.key /\ Later(K, m) = {}
  <2>1. CASE f.key = e.key BY <1>2, <2>1
  <2>2. CASE f.key # e.key
    <3>1. PICK m \in J : m.key = f.key /\ Later(J, m) = {}
      BY <1>5, <2>2 DEF Faithful
    <3> QED BY <1>3, <2>2, <3>1
  <2> QED BY <2>1, <2>2
<1>6. ASSUME NEW f \in K, Later(K, f) = {} PROVE f.row = U[f.key]
  <2>1. CASE f = e BY <1>0, <2>1
  <2>2. CASE f # e
    <3>1. f \in J /\ f.key # e.key BY <1>4, <1>6, <2>2
    <3>2. Later(J, f) = {} BY <1>3, <1>6, <3>1
    <3>3. f.key \in Keys BY <1>0
    <3> QED BY <3>1, <3>2, <3>3 DEF Faithful
  <2> QED BY <2>1, <2>2
<1>7. ASSUME NEW k \in Keys, \A f \in K : f.key # k PROVE U[k] = None
  BY <1>7 DEF Faithful
<1> HIDE DEF K, U
<1>8. Faithful(K, U)
  BY <1>0, <1>1, <1>5, <1>6, <1>7 DEF Faithful
<1> QED BY <1>8 DEF K, U

(* What HISTORY_SWEEP_SQL and ATTEMPT_UPDATED_SWEEP_SQL delete, superseded *)
(* snapshots and tombstones left alone, never changes what the journal     *)
(* says.                                                                   *)
LEMMA CompactFaithful ==
  ASSUME NEW J, NEW T, Faithful(J, T), NEW G,
         \A g \in G : Later(J, g) # {} \/ (g.row = None /\ Earlier(J, g) = {})
  PROVE  Faithful(J \ G, T)
<1> DEFINE K == J \ G
<1>0. \A f \in J : f.seq \in Int /\ f.key \in Keys
  BY DEF Faithful, Entry
<1>1. ASSUME NEW f \in K PROVE \E m \in K : m.key = f.key /\ Later(J, m) = {}
  <2>1. PICK m \in J : m.key = f.key /\ Later(J, m) = {}
    BY DEF Faithful
  <2>2. CASE m = f BY <2>1, <2>2
  <2>3. CASE m # f
    <3>1. f.seq < m.seq
      BY <1>0, <2>1, <2>3 DEF Faithful, Later
    <3>2. f \in Earlier(J, m)
      BY <2>1, <3>1 DEF Earlier
    <3> QED BY <2>1, <3>2
  <2> QED BY <2>2, <2>3
<1>2. ASSUME NEW f \in K PROVE Later(K, f) \subseteq Later(J, f)
  BY DEF Later
<1>3. ASSUME NEW f \in K, Later(K, f) = {} PROVE Later(J, f) = {}
  <2>1. PICK m \in K : m.key = f.key /\ Later(J, m) = {}
    BY <1>1
  <2>2. m.seq <= f.seq
    BY <1>0, <1>3, <2>1 DEF Later
  <2>3. m = f
    BY <1>0, <2>1, <2>2 DEF Faithful, Later
  <2> QED BY <2>1, <2>3
<1>4. ASSUME NEW f \in K, Later(K, f) = {} PROVE f.row = T[f.key]
  BY <1>3, <1>4 DEF Faithful
<1>5. ASSUME NEW f \in K PROVE \E m \in K : m.key = f.key /\ Later(K, m) = {}
  <2>1. PICK m \in K : m.key = f.key /\ Later(J, m) = {}
    BY <1>1
  <2> QED BY <1>2, <2>1
<1>6. ASSUME NEW k \in Keys, \A f \in K : f.key # k PROVE T[k] = None
  <2>1. CASE \A f \in J : f.key # k BY <2>1 DEF Faithful
  <2>2. CASE \E f \in J : f.key = k
    <3>1. PICK m \in J : m.key = k /\ Later(J, m) = {}
      BY <2>2 DEF Faithful
    <3>2. m \in G BY <1>6, <3>1
    <3>3. m.row = None BY <3>1, <3>2
    <3> QED BY <3>1, <3>3 DEF Faithful
  <2> QED BY <2>1, <2>2
<1> HIDE DEF K
<1>7. K \subseteq J BY DEF K
<1>8. Faithful(K, T)
  BY <1>4, <1>5, <1>6, <1>7 DEF Faithful
<1> QED BY <1>8 DEF K

(* Both sweep statements together (Store.sweep).                           *)
LEMMA CompactedFaithful ==
  ASSUME NEW J, NEW T, Faithful(J, T)
  PROVE  Faithful(Compacted(J), T) /\ Compacted(J) \subseteq J
<1> DEFINE Gone == FirstBySeq(HistoryEligible(J), Batch)
<1> DEFINE J1 == J \ Gone
<1> DEFINE Updates == FirstBySeq(UpdateEligible(J1), Batch - Cardinality(Gone))
<1>1. \A g \in Gone : Later(J, g) # {} \/ (g.row = None /\ Earlier(J, g) = {})
  BY DEF FirstBySeq, HistoryEligible
<1>2. \A g \in Updates : Later(J1, g) # {}
  BY DEF FirstBySeq, UpdateEligible
<1>3. Compacted(J) = J1 \ Updates
  BY DEF Compacted
<1> HIDE DEF Gone, Updates
<1>4. Faithful(J1, T) BY <1>1, CompactFaithful
<1> HIDE DEF J1
<1>5. Faithful(J1 \ Updates, T) BY <1>2, <1>4, CompactFaithful
<1> QED BY <1>3, <1>5 DEF J1

-----------------------------------------------------------------------------
(* The inductive invariant: types, a faithful journal, and projections     *)
(* that agree with it while the gateway runs.                              *)
IInv ==
  /\ TypeOK
  /\ Faithful(journal, truth)
  /\ ServesTruth

LEMMA InitLemma == Init => IInv
BY DEF Init, IInv, TypeOK, Faithful, ServesTruth, Rows, None

(* A projection write and its event.                                       *)
LEMMA WriteLemma ==
  ASSUME IInv, NEW k \in Keys, NEW isUpdate \in BOOLEAN, Write(k, isUpdate)
  PROVE  IInv'
<1> DEFINE e == Event(journal, k, isUpdate, next)
<1>1. e \in Entry /\ e.key = k /\ e.row = next /\ e.seq = next
  BY DEF IInv, TypeOK, Write, Event, Entry, Rows
<1>2. \A f \in journal : f.seq < e.seq
  BY <1>1 DEF IInv, TypeOK
<1>3. journal' = journal \cup {e} /\ truth' = [truth EXCEPT ![e.key] = e.row]
  BY <1>1 DEF Write
<1> HIDE DEF e
<1>4. Faithful(journal', truth')
  BY <1>1, <1>2, <1>3, AppendFaithful DEF IInv, TypeOK
<1>5. TypeOK'
  <2>1. journal \subseteq Entry /\ next \in 1..MaxSeq /\ \A f \in journal : f.seq \in Int /\ f.seq < next
    BY DEF IInv, TypeOK, Write, Entry
  <2>2. next' = next + 1 /\ \A f \in journal' : f.seq < next'
    BY <1>1, <1>3, <2>1 DEF Write
  <2>3. rows' \in [Keys -> Rows] /\ truth' \in [Keys -> Rows]
    BY <2>1 DEF IInv, TypeOK, Write, Rows
  <2>4. journal' \in SUBSET Entry /\ next' \in 1..(MaxSeq + 1)
    BY <1>1, <1>3, <2>1, <2>2
  <2>5. \A f, g \in journal' : f.seq = g.seq => f = g
    BY <1>4 DEF Faithful
  <2> QED BY <2>2, <2>3, <2>4, <2>5 DEF IInv, TypeOK, Write
<1>6. ServesTruth'
  BY DEF IInv, ServesTruth, Write
<1> QED BY <1>4, <1>5, <1>6 DEF IInv

(* The retention sweep, with no delivery deleted and with one.             *)
LEMMA SweepLemma ==
  ASSUME IInv, NEW D, D = {} \/ (\E k \in Outbox : D = {k}), Sweep(D)
  PROVE  IInv'
<1> DEFINE J == journal \cup {Event(journal, k, FALSE, None) : k \in D}
<1>1. Faithful(J, truth') /\ (\A f \in J : f.seq \in Int /\ f.seq < next')
      /\ next' \in 1..(MaxSeq + 1) /\ rows' \in [Keys -> Rows] /\ truth' \in [Keys -> Rows]
  <2>0. next \in 1..(MaxSeq + 1) /\ \A f \in journal : f.seq \in Int /\ f.seq < next
    BY DEF IInv, TypeOK, Entry
  <2>1. CASE D = {}
    <3>1. J = journal BY <2>1
    <3>2. next' = next BY <2>0, <2>1, FS_EmptySet DEF Sweep
    <3>3. truth' = truth /\ rows' = rows
      BY <2>1 DEF Sweep, IInv, TypeOK
    <3> QED BY <2>0, <3>1, <3>2, <3>3 DEF IInv, TypeOK
  <2>2. CASE \E k \in Outbox : D = {k}
    <3>1. PICK k \in Outbox : D = {k} BY <2>2
    <3>2. Cardinality(D) = 1 BY <3>1, FS_Singleton
    <3>3. next <= MaxSeq /\ next' = next + 1
      BY <2>0, <3>2 DEF Sweep
    <3> DEFINE e == Event(journal, k, FALSE, None)
    <3>4. e \in Entry /\ e.key = k /\ e.row = None /\ e.seq = next /\ k \in Keys
      BY <2>0, <3>3 DEF IInv, TypeOK, Event, Entry, Rows, None, Keys
    <3>5. J = journal \cup {e} BY <3>1
    <3> HIDE DEF e, J
    <3>6. truth' = [truth EXCEPT ![e.key] = e.row] /\ truth' \in [Keys -> Rows]
      <4>1. truth \in [Keys -> Rows] /\ None \in Rows
        BY DEF IInv, TypeOK, Rows, None
      <4>2. truth' = [j \in Keys |-> IF j = k THEN None ELSE truth[j]]
        BY <3>1 DEF Sweep
      <4>3. [truth EXCEPT ![e.key] = e.row] = [j \in Keys |-> IF j = k THEN None ELSE truth[j]]
        BY <3>4, <4>1
      <4> QED BY <4>1, <4>2, <4>3
    <3>7. rows' \in [Keys -> Rows]
      BY DEF Sweep, IInv, TypeOK, Rows, None
    <3>8. Faithful(J, truth')
      BY <2>0, <3>4, <3>5, <3>6, AppendFaithful DEF IInv, TypeOK
    <3>9. \A f \in J : f.seq \in Int /\ f.seq < next'
      BY <2>0, <3>3, <3>4, <3>5
    <3>10. next' \in 1..(MaxSeq + 1)
      BY <2>0, <3>3
    <3> QED BY <3>6, <3>7, <3>8, <3>9, <3>10
  <2> QED BY <2>1, <2>2
<1>2. journal' = Compacted(J) BY DEF Sweep
<1> HIDE DEF J
<1>3. Faithful(journal', truth') /\ journal' \subseteq J
  BY <1>1, <1>2, CompactedFaithful
<1>4. TypeOK'
  BY <1>1, <1>3 DEF Sweep, IInv, TypeOK, Faithful
<1>5. ServesTruth'
  BY DEF Sweep, IInv, TypeOK, ServesTruth
<1> QED BY <1>3, <1>4, <1>5 DEF IInv

(* The replay at boot restores the committed rows, whatever the projection *)
(* tables hold.                                                            *)
LEMMA BootLemma ==
  ASSUME IInv, Boot
  PROVE  IInv'
<1>1. \A k \in Keys : Latest(journal, k) = truth[k]
  BY FaithfulLatest DEF IInv
<1>2. rows' = truth
  BY <1>1 DEF Boot, Replayed, IInv, TypeOK
<1> QED BY <1>2 DEF Boot, IInv, TypeOK, ServesTruth

(* Every other step leaves journal and truth alone.                        *)
LEMMA OtherLemma ==
  ASSUME IInv, Crash \/ Tick \/ StepBack \/ (\E k \in Keys, r \in Rows : Damage(k, r))
  PROVE  IInv'
<1>1. journal' = journal /\ truth' = truth /\ next' = next
  BY DEF Crash, Tick, StepBack, Damage
<1>2. TypeOK'
  <2>1. CASE Crash BY <2>1 DEF IInv, TypeOK, Crash
  <2>2. CASE Tick BY <2>2 DEF IInv, TypeOK, Tick
  <2>3. CASE StepBack BY <2>3 DEF IInv, TypeOK, StepBack
  <2>4. CASE \E k \in Keys, r \in Rows : Damage(k, r)
    BY <2>4 DEF IInv, TypeOK, Damage
  <2> QED BY <2>1, <2>2, <2>3, <2>4
<1>3. ServesTruth'
  BY DEF IInv, ServesTruth, Crash, Tick, StepBack, Damage
<1> QED BY <1>1, <1>2, <1>3 DEF IInv

LEMMA StepLemma == IInv /\ [Next]_vars => IInv'
<1> SUFFICES ASSUME IInv, [Next]_vars PROVE IInv' OBVIOUS
<1>1. CASE Next
  BY <1>1, WriteLemma, SweepLemma, BootLemma, OtherLemma DEF Next, SweepAny
<1>2. CASE UNCHANGED vars
  BY <1>2 DEF vars, IInv, TypeOK, ServesTruth
<1> QED BY <1>1, <1>2

LEMMA InvariantLemma == Spec => []IInv
BY InitLemma, StepLemma, PTL DEF Spec

(* Type correctness, and one event per seq.                                *)
THEOREM JournalTypeCorrect == Spec => []TypeOK
BY InvariantLemma, PTL DEF IInv

(* Compaction never changes what a replay produces: at every moment the    *)
(* journal alone yields the committed row of every key.                    *)
THEOREM JournalReplaysExactly == Spec => []ReplayExact
<1>1. IInv => ReplayExact
  BY FaithfulLatest DEF IInv, ReplayExact
<1> QED BY <1>1, InvariantLemma, PTL

(* A running gateway serves the committed rows, after any damage to the    *)
(* projections while it was down.                                          *)
THEOREM ProjectionsServeTruth == Spec => []ServesTruth
BY InvariantLemma, PTL DEF IInv

(* What a compaction removes was written outside the window it is kept for,*)
(* whichever of the two statements took it.                                *)
LEMMA CompactedSpares ==
  ASSUME NEW J, NEW e \in J, e \notin Compacted(J), e.at \in Int, clock \in Int
  PROVE  e.at + Hour < clock /\ (~e.updated => e.at + Month < clock)
<1> DEFINE Gone == FirstBySeq(HistoryEligible(J), Batch)
<1> DEFINE J1 == J \ Gone
<1>1. CASE e \in Gone
  <2>1. e \in HistoryEligible(J)
    BY <1>1 DEF FirstBySeq
  <2>2. e.at + Month < clock
    BY <2>1 DEF HistoryEligible, InRange
  <2> QED BY <2>2
<1>2. CASE e \notin Gone
  <2>1. e \in FirstBySeq(UpdateEligible(J1), Batch - Cardinality(Gone))
    BY <1>2 DEF Compacted
  <2>2. e \in UpdateEligible(J1)
    BY <2>1 DEF FirstBySeq
  <2> QED BY <2>2 DEF UpdateEligible, InRange
<1> QED BY <1>1, <1>2

(* Store.sweep takes no row younger than the window of its kind, whatever  *)
(* the clock did before and however the batch was split: the hour of       *)
(* progress updates and the month of everything else are lower bounds.     *)
THEOREM CompactionSpares == Spec => SweepSparing
<1> DEFINE Spares == \A e \in journal \ journal' :
                       /\ e.at + Hour < clock
                       /\ ~e.updated => e.at + Month < clock
<1>1. ASSUME IInv, [Next]_vars PROVE Spares
  <2>0. clock \in Int /\ \A e \in journal : e.at \in Int
    BY <1>1 DEF IInv, TypeOK, Entry
  <2>1. CASE \E D : Sweep(D)
    <3>1. PICK D : Sweep(D)
      BY <2>1
    <3>2. journal' = Compacted(journal \cup {Event(journal, k, FALSE, None) : k \in D})
      BY <3>1 DEF Sweep
    <3>3. ASSUME NEW e \in journal, e \notin journal'
          PROVE  e.at + Hour < clock /\ (~e.updated => e.at + Month < clock)
      BY <2>0, <3>2, <3>3, CompactedSpares
    <3> QED BY <3>3
  <2>2. CASE \E k \in Keys, isUpdate \in BOOLEAN : Write(k, isUpdate)
    BY <2>2 DEF Write
  <2>3. CASE UNCHANGED journal
    BY <2>3
  <2>4. UNCHANGED journal \/ (\E D : Sweep(D)) \/ \E k \in Keys, isUpdate \in BOOLEAN : Write(k, isUpdate)
    <3>1. Crash \/ Boot \/ Tick \/ StepBack \/ (\E k \in Keys, r \in Rows : Damage(k, r)) \/ UNCHANGED vars
          => UNCHANGED journal
      BY DEF Crash, Boot, Tick, StepBack, Damage, vars
    <3> QED BY <1>1, <3>1 DEF Next, SweepAny
  <2> QED BY <2>1, <2>2, <2>3, <2>4
<1>2. IInv /\ [Next]_vars => [Spares]_vars
  BY <1>1
<1> QED BY <1>2, InvariantLemma, PTL DEF Spec, SweepSparing
=============================================================================

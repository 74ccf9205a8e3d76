----------------------------- MODULE WorkJournal -----------------------------
(***************************************************************************)
(* The append-only journal behind the work-attempt, lane-job and outbox    *)
(* projections (store/groups/journal.ts), its compaction inside the        *)
(* retention sweep (store/store.ts) and the replay that rebuilds the       *)
(* projections when the gateway boots.                                     *)
(*                                                                         *)
(* A row is a version number: the journal stores whole rows and compares   *)
(* them column by column, so which columns differ does not matter.         *)
(* Timestamps are a small clock that may be stepped back a bounded number  *)
(* of times.                                                               *)
(***************************************************************************)
EXTENDS Integers, FiniteSets

CONSTANTS
  Attempts,      (* keys of work_attempt_runtime                           *)
  LaneJobs,      (* keys of lane_jobs                                      *)
  Outbox,        (* keys of deliveries: the rows retention deletes         *)
  Hour,          (* ATTEMPT_UPDATE_RETENTION_MS                            *)
  Month,         (* HISTORY_RETENTION_MS                                   *)
  Batch,         (* RETENTION_BATCH_ROWS                                   *)
  MaxSeq,        (* bound: journal appends                                 *)
  MaxClock,      (* bound: clock                                           *)
  MaxStepBacks   (* bound: backward clock steps                            *)

Keys == Attempts \cup LaneJobs \cup Outbox

ASSUME SweepAssumption ==
  /\ Hour \in Nat /\ Month \in Nat /\ Hour <= Month /\ Batch \in Nat \ {0}
ASSUME BoundAssumption == MaxSeq \in Nat /\ MaxClock \in Nat /\ MaxStepBacks \in Nat

VARIABLES
  rows,      (* the projections: the row of each key, None when absent     *)
  journal,   (* the work_journal table                                     *)
  next,      (* the next AUTOINCREMENT seq                                 *)
  clock,     (* the wall clock                                             *)
  backs,     (* how often it was stepped back                              *)
  up,        (* the gateway runs                                           *)
  truth      (* history: the row each key had at its last committed write  *)

vars == <<rows, journal, next, clock, backs, up, truth>>

None == 0
Rows == 0..MaxSeq
Entry == [seq : 1..MaxSeq, key : Keys, updated : BOOLEAN, row : Rows, at : 0..MaxClock]

Init ==
  /\ rows = [k \in Keys |-> None]
  /\ journal = {}
  /\ next = 1
  /\ clock = 0
  /\ backs = 0
  /\ up = TRUE
  /\ truth = [k \in Keys |-> None]

-----------------------------------------------------------------------------
(* Reading the journal.                                                    *)

Later(J, e) == {f \in J : f.key = e.key /\ f.seq > e.seq}
Earlier(J, e) == {f \in J : f.key = e.key /\ f.seq < e.seq}

(* latest: the row of the highest seq; a tombstone, or no entry, is None.  *)
Latest(J, k) ==
  IF \E e \in J : e.key = k /\ Later(J, e) = {}
  THEN (CHOOSE e \in J : e.key = k /\ Later(J, e) = {}).row
  ELSE None

(* record: the snapshot of the row as the transaction left it.             *)
Event(J, k, isUpdate, r) ==
  [seq |-> next, key |-> k, updated |-> isUpdate, row |-> r, at |-> clock]

-----------------------------------------------------------------------------
(* Projection writes.                                                      *)

(* Every insert and update of a projection row, with the event recorded in *)
(* the same transaction. Only an update of an open attempt that neither    *)
(* accepts nor ends it is an attempt_updated event.                        *)
Write(k, isUpdate) ==
  /\ up /\ next <= MaxSeq
  /\ isUpdate => k \in Attempts /\ rows[k] # None
  /\ rows' = [rows EXCEPT ![k] = next]
  /\ truth' = [truth EXCEPT ![k] = next]
  /\ journal' = journal \cup {Event(journal, k, isUpdate, next)}
  /\ next' = next + 1
  /\ UNCHANGED <<clock, backs, up>>

-----------------------------------------------------------------------------
(* Retention.                                                              *)

(* #seqBefore: the seq of the youngest entry recorded before the cutoff.   *)
SeqBefore(J, age) ==
  LET Old == {e \in J : e.at + age < clock}
      Youngest == {e \in Old : \A f \in Old :
                     f.at < e.at \/ (f.at = e.at /\ f.seq <= e.seq)}
  IN  {e.seq : e \in Youngest}

(* Mutant: the seq range alone decides.                                    *)
InRangeBySeq(J, age) == {e \in J : \E s \in SeqBefore(J, age) : e.seq <= s}

(* The rows a sweep statement may delete: inside the seq range, and old    *)
(* themselves.                                                             *)
InRange(J, age) ==
  {e \in J : e.at + age < clock /\ \E s \in SeqBefore(J, age) : e.seq <= s}

(* Mutant: a tombstone goes with the snapshots it supersedes.              *)
HistoryEligibleEager(J) ==
  {e \in InRange(J, Month) : Later(J, e) # {} \/ e.row = None}

(* HISTORY_SWEEP_SQL: superseded snapshots, and tombstones that are alone. *)
HistoryEligible(J) ==
  {e \in InRange(J, Month) :
     Later(J, e) # {} \/ (e.row = None /\ Earlier(J, e) = {})}

(* ATTEMPT_UPDATED_SWEEP_SQL.                                              *)
UpdateEligible(J) ==
  {e \in InRange(J, Hour) : e.updated /\ Later(J, e) # {}}

(* ORDER BY seq LIMIT n.                                                   *)
FirstBySeq(E, n) == {e \in E : Cardinality({f \in E : f.seq < e.seq}) < n}

(* journal.sweep then journal.sweepAttemptUpdated on what the batch leaves.*)
Compacted(J) ==
  LET Gone == FirstBySeq(HistoryEligible(J), Batch)
      J1 == J \ Gone
  IN  J1 \ FirstBySeq(UpdateEligible(J1), Batch - Cardinality(Gone))

(* Mutant: the sweep forgets the journal.                                  *)
SweepOutboxOnly(D) ==
  /\ up /\ \A k \in D : rows[k] # None
  /\ next + Cardinality(D) <= MaxSeq + 1
  /\ rows' = [k \in Keys |-> IF k \in D THEN None ELSE rows[k]]
  /\ truth' = [k \in Keys |-> IF k \in D THEN None ELSE truth[k]]
  /\ journal' = journal \cup {Event(journal, k, FALSE, None) : k \in D}
  /\ next' = next + Cardinality(D)
  /\ journal' # journal
  /\ UNCHANGED <<clock, backs, up>>

(* Store.sweep: outbox.sweep deletes the old terminal deliveries D, each   *)
(* with its tombstone, then the journal is compacted.                      *)
Sweep(D) ==
  /\ up /\ \A k \in D : rows[k] # None
  /\ next + Cardinality(D) <= MaxSeq + 1
  /\ rows' = [k \in Keys |-> IF k \in D THEN None ELSE rows[k]]
  /\ truth' = [k \in Keys |-> IF k \in D THEN None ELSE truth[k]]
  /\ journal' = Compacted(journal \cup {Event(journal, k, FALSE, None) : k \in D})
  /\ next' = next + Cardinality(D)
  /\ journal' # journal
  /\ UNCHANGED <<clock, backs, up>>

-----------------------------------------------------------------------------
(* Restarts.                                                               *)

Crash ==
  /\ up
  /\ up' = FALSE
  /\ UNCHANGED <<rows, journal, next, clock, backs, truth>>

(* While the gateway is down a projection row is lost, altered or invented *)
(* by something that does not write the journal.                           *)
Damage(k, r) ==
  /\ ~up
  /\ rows' = [rows EXCEPT ![k] = r]
  /\ UNCHANGED <<journal, next, clock, backs, up, truth>>

(* Mutant: a row the journal does not know survives the replay.            *)
ReplayedMissingOnly(R, J) ==
  [k \in Keys |-> IF Latest(J, k) # None THEN Latest(J, k) ELSE R[k]]

(* staleJournalKeys and replayProjection, for the three projections: a row *)
(* that differs from its snapshot, or has none, is removed and rewritten.  *)
Replayed(R, J) ==
  LET Stale == {k \in Keys : R[k] # Latest(J, k)}
  IN  [k \in Keys |-> IF k \in Stale THEN Latest(J, k) ELSE R[k]]

Boot ==
  /\ ~up
  /\ up' = TRUE
  /\ rows' = Replayed(rows, journal)
  /\ UNCHANGED <<journal, next, clock, backs, truth>>

Tick ==
  /\ clock < MaxClock
  /\ clock' = clock + 1
  /\ UNCHANGED <<rows, journal, next, backs, up, truth>>

StepBack ==
  /\ clock > 0 /\ backs < MaxStepBacks
  /\ clock' = clock - 1
  /\ backs' = backs + 1
  /\ UNCHANGED <<rows, journal, next, up, truth>>

-----------------------------------------------------------------------------
(* The retention timer sweeps at most one delivery at a time here: more    *)
(* are a sequence of sweeps.                                               *)
SweepAny == Sweep({}) \/ \E k \in Outbox : Sweep({k})

Next ==
  \/ \E k \in Keys, isUpdate \in BOOLEAN : Write(k, isUpdate)
  \/ SweepAny
  \/ Crash \/ Boot \/ Tick \/ StepBack
  \/ \E k \in Keys, r \in Rows : Damage(k, r)

Spec == Init /\ [][Next]_vars

-----------------------------------------------------------------------------
(* Every variable has its type, and a seq names one event.                 *)
TypeOK ==
  /\ rows \in [Keys -> Rows]
  /\ journal \in SUBSET Entry
  /\ next \in 1..(MaxSeq + 1)
  /\ clock \in 0..MaxClock
  /\ backs \in 0..MaxStepBacks
  /\ up \in BOOLEAN
  /\ truth \in [Keys -> Rows]
  /\ \A e \in journal : e.seq < next
  /\ \A e, f \in journal : e.seq = f.seq => e = f

(* Replaying the journal yields the last committed row of every key and    *)
(* nothing for a deleted one, whatever compaction has removed, in whatever *)
(* order batches, budgets and a stepped clock made it go.                  *)
ReplayExact == \A k \in Keys : Latest(journal, k) = truth[k]

(* A gateway that booted serves the committed rows, whatever happened to   *)
(* the projection tables while it was down.                                *)
ServesTruth == up => rows = truth

(* Compaction never takes history younger than the hour kept for progress  *)
(* updates, or the month kept for everything else, even when a stepped     *)
(* clock put young rows below the seq bound.                               *)
SweepSparing ==
  [][\A e \in journal \ journal' :
       /\ e.at + Hour < clock
       /\ ~e.updated => e.at + Month < clock]_vars
=============================================================================

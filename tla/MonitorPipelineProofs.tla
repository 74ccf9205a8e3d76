------------------------ MODULE MonitorPipelineProofs ------------------------
(***************************************************************************)
(* Proofs about the events of a monitor: an event is answered once and its *)
(* note carried by one delivery, the prompts it costs stay within the      *)
(* reclaim budget, and no step ends an event that is leased or running, or *)
(* changes one that has ended; and the failures of a session the origin    *)
(* has left never roll the one it has.                                     *)
(*                                                                         *)
(* The inductive invariant says where an answered event can still be held  *)
(* (Answers), that its note is carried by a delivery only once its lease   *)
(* is gone (Carriers), what the burst window may hold (Bursts), that a     *)
(* resumed dispatch names an operation (Resumes), and how many dispatches  *)
(* may still prompt for an event (Budget).                                 *)
(***************************************************************************)
EXTENDS MonitorPipeline, MonitorSessionRoll, FiniteSetTheorems, TLAPS

USE DEF rowVars, taskVars, hostVars, historyVars, dispatchRest, sweepRest,
        taskRest, quietRest

Phases == {"off", "queued", "bind", "probe", "request", "harvest", "failing", "deliver"}

Rows ==
  /\ stage \in [Events -> Stages] /\ out \in [Events -> Kinds \cup {"none"}]
  /\ lease \in [Events -> 0..MaxDispatch]
Counts ==
  /\ att \in [Events -> 0..MaxAttempts]
  /\ prompts \in [Events -> Nat] /\ retries \in [Events -> Nat]
  /\ notes \in [Events -> Nat] /\ sent \in [Events -> Nat]
Tasks ==
  /\ pc \in [Dispatches -> Phases]
  /\ DOMAIN evs = Dispatches /\ DOMAIN opOf = Dispatches /\ DOMAIN run = Dispatches
Types == Rows /\ Counts /\ Tasks

(* An event counts a note exactly when it has one; it is then out of the   *)
(* reach of every dispatch but the one that delivers it.                   *)
Answers ==
  \A e \in Events :
    /\ notes[e] = IF out[e] = "none" THEN 0 ELSE 1
    /\ out[e] # "none" =>
         /\ stage[e] \notin InFlight \cup {"none"}
         /\ lease[e] # 0 => pc[lease[e]] \in {"deliver", "off"}

(* A note is carried once the lease it was recorded under is gone.         *)
Carriers ==
  \A e \in Events : sent[e] # 0 => sent[e] = 1 /\ out[e] # "none" /\ lease[e] = 0

(* The burst window holds submitted events that were not skipped.          *)
Bursts == burst \subseteq Events /\ \A e \in burst : stage[e] \notin {"none", "skipped"}

-----------------------------------------------------------------------------
(* On: c on S and f elsewhere.                                             *)
LEMMA OnType ==
  ASSUME NEW D, NEW R, NEW f \in [D -> R], NEW S, NEW c \in R
  PROVE  /\ On(S, c, f) \in [D -> R]
         /\ \A x \in D : On(S, c, f)[x] = IF x \in S THEN c ELSE f[x]
BY DEF On

LEMMA Counted ==
  ASSUME NEW D, NEW f \in [D -> Nat], NEW S
  PROVE  [e \in D |-> IF e \in S THEN f[e] + 1 ELSE f[e]] \in [D -> Nat]
OBVIOUS

(* #dispatch: what it does to the rows, and whether it starts a dispatch,  *)
(* which is then one that nothing refers to.                               *)
LEMMA LaunchRows ==
  ASSUME Types, NEW S, NEW op, NEW st \in [Events -> Stages], NEW ag, NEW cd,
         Launch(S, op, st, ag, cd)
  PROVE  /\ stage' \in [Events -> Stages]
         /\ \A e \in Events :
              \/ stage'[e] = st[e]
              \/ stage'[e] = "failed_no_retry" /\ op = 0 /\ e \in S
                   /\ st[e] \notin Terminal \ {"skipped"}
              \/ stage'[e] = "batched" /\ e \in S /\ lease[e] = 0 /\ st[e] \in InFlight
<1>1. \A X : On(X, "failed_no_retry", st) \in [Events -> Stages]
             /\ On(X, "batched", st) \in [Events -> Stages]
  <2>1. "failed_no_retry" \in Stages /\ "batched" \in Stages
    BY DEF Stages, InFlight, Terminal
  <2> QED
    BY <2>1, OnType
<1>2. \A X, e : e \in Events =>
        /\ On(X, "failed_no_retry", st)[e] = IF e \in X THEN "failed_no_retry" ELSE st[e]
        /\ On(X, "batched", st)[e] = IF e \in X THEN "batched" ELSE st[e]
  BY DEF On
<1>3. \/ stage' = On({e \in S : op = 0 /\ st[e] \notin Terminal \ {"skipped"}}, "failed_no_retry", st)
      \/ stage' = st \/ stage' = On(Leasable(S, st), "batched", st)
  BY DEF Launch
<1>4. \A e \in Leasable(S, st) : e \in S /\ lease[e] = 0 /\ st[e] \in InFlight
  BY DEF Leasable
<1>6. CASE stage' = On({e \in S : op = 0 /\ st[e] \notin Terminal \ {"skipped"}}, "failed_no_retry", st)
  BY <1>1, <1>2, <1>6
<1>7. CASE stage' = On(Leasable(S, st), "batched", st)
  BY <1>1, <1>2, <1>4, <1>7
<1>8. CASE stage' = st
  BY <1>8
<1> QED
  BY <1>3, <1>6, <1>7, <1>8

(* The dispatch d is queued for the events L and the operation op.         *)
Queued(d, L, op) ==
  /\ pc' = [pc EXCEPT ![d] = "queued"] /\ evs' = [evs EXCEPT ![d] = L]
  /\ opOf' = [opOf EXCEPT ![d] = op] /\ run' = [run EXCEPT ![d] = "none"]

LEMMA LaunchTasks ==
  ASSUME BoundAssumption, Types, NEW S, NEW op, NEW st, NEW ag, NEW cd,
         Launch(S, op, st, ag, cd)
  PROVE  \/ UNCHANGED <<lease, taskVars, run, turn>>
         \/ \E d \in Dispatches : \E L \in SUBSET S :
              /\ L # {} /\ pc[d] = "off" /\ \A e \in Events : lease[e] # d
              /\ \A e \in L : lease[e] = 0 /\ st[e] \in InFlight
              /\ lease' = On(L, d, lease) /\ Queued(d, L, op)
<1>1. CASE \/ ~monitor
           \/ monitor /\ (Leasable(S, st) = {} \/ (op # 0 /\ Leasable(S, st) # S))
  BY <1>1 DEF Launch
<1>2. CASE monitor /\ Leasable(S, st) # {} /\ (op # 0 => Leasable(S, st) = S)
  <2>1. PICK d \in NewIds :
          lease' = On(Leasable(S, st), d, lease) /\ Queued(d, Leasable(S, st), op)
    BY <1>2 DEF Launch, Queued
  <2>2. d \in Dispatches /\ pc[d] = "off" /\ \A e \in Events : lease[e] # d
    BY DEF NewIds, Free
  <2>3. Leasable(S, st) \in SUBSET S
        /\ \A e \in Leasable(S, st) : lease[e] = 0 /\ st[e] \in InFlight
    BY DEF Leasable
  <2> QED
    BY <1>2, <2>1, <2>2, <2>3
<1> QED
  BY <1>1, <1>2

LEMMA LaunchTypes ==
  ASSUME BoundAssumption, Types, NEW S, NEW op, NEW st, NEW ag, NEW cd,
         Launch(S, op, st, ag, cd)
  PROVE  lease' \in [Events -> 0..MaxDispatch] /\ Tasks'
<1>1. CASE UNCHANGED <<lease, taskVars, run, turn>>
  BY <1>1 DEF Types, Rows, Tasks
<1>2. ASSUME NEW d \in Dispatches, NEW L,
             lease' = On(L, d, lease), Queued(d, L, op)
      PROVE  lease' \in [Events -> 0..MaxDispatch] /\ Tasks'
  <2>1. d \in 0..MaxDispatch
    BY DEF Dispatches, BoundAssumption
  <2>2. On(L, d, lease) \in [Events -> 0..MaxDispatch]
    BY <2>1 DEF Types, Rows, On
  <2> QED
    BY <1>2, <2>2 DEF Types, Tasks, Phases, Queued
<1> QED
  BY <1>1, <1>2, LaunchTasks

(* The rows eventCreate leaves before the new one is dispatched.           *)
LEMMA SupersededRows ==
  ASSUME Types
  PROVE  /\ On(Superseded, "failed_no_retry", stage) \in [Events -> Stages]
         /\ \A x \in Events : On(Superseded, "failed_no_retry", stage)[x] =
              IF x \in Superseded THEN "failed_no_retry" ELSE stage[x]
<1>1. "failed_no_retry" \in Stages
  BY DEF Stages, Terminal
<1>2. stage \in [Events -> Stages]
  BY DEF Types, Rows
<1> QED
  BY <1>1, <1>2 DEF On

LEMMA TypesInit == BoundAssumption /\ Init => Types
BY DEF BoundAssumption, Init, Events, Dispatches, Types, Rows, Counts, Tasks,
       Phases, Stages, InFlight, Terminal, Kinds

LEMMA RowsStep ==
  ASSUME BoundAssumption, Types, [Next]_vars PROVE Rows'
<1> USE DEF Types, Rows, Counts, Tasks, Phases, Stages, InFlight, Terminal, Kinds, Events, Dispatches, BoundAssumption
<1>1. ASSUME NEW e \in Events, NEW same \in BOOLEAN, Submit(e, same) PROVE Rows'
  <2> DEFINE st == On(Superseded, "failed_no_retry", stage)
             st2 == [st EXCEPT ![e] = "admitted"]
  <2>1. st \in [Events -> Stages] /\ st2 \in [Events -> Stages]
    BY SupersededRows DEF Stages, InFlight
  <2>2. CASE \E ag, cd : Launch({e}, 0, st2, ag, cd)
    <3>1. out' = out
      BY <1>1 DEF Submit
    <3>2. stage' \in [Events -> Stages] /\ lease' \in [Events -> 0..MaxDispatch]
      BY <2>1, <2>2, LaunchRows, LaunchTypes
    <3> QED
      BY <3>1, <3>2
  <2>3. CASE (\E s \in {"skipped", "batched", "admitted"} : stage' = [st EXCEPT ![e] = s])
             /\ UNCHANGED <<lease, taskVars, run>>
    <3>1. stage' \in [Events -> Stages]
      BY <2>1, <2>3
    <3> QED
      BY <1>1, <2>3, <3>1 DEF Submit
  <2> QED
    BY <1>1, <2>2, <2>3 DEF Submit
<1>2. CASE BurstTimer
  BY <1>2, LaunchRows, LaunchTypes DEF BurstTimer
<1>3. ASSUME NEW d \in Dispatches, Enter(d) PROVE Rows'
  BY <1>3 DEF Enter
<1>4. ASSUME NEW d \in Dispatches, Bound(d) PROVE Rows'
  BY <1>4 DEF Bound, Point, On, Forget
<1>5. ASSUME NEW d \in Dispatches, NEW readable \in BOOLEAN, Probed(d, readable) PROVE Rows'
  BY <1>5 DEF Probed, Point, On, Forget
<1>6. ASSUME NEW d \in Dispatches, Prompted(d) PROVE Rows'
  BY <1>6 DEF Prompted
<1>7. ASSUME NEW o \in Dispatches, NEW how \in {"ok", "gone", "failed", "lost"}, RunEnds(o, how) PROVE Rows'
  BY <1>7 DEF RunEnds
<1>8. ASSUME NEW d \in Dispatches, NEW c \in {"busy", "other"}, Fail(d, c) PROVE Rows'
  BY <1>8 DEF Fail, Write, Fenced, Forget, On
<1>9. ASSUME NEW d \in Dispatches, AnswerBad(d) PROVE Rows'
  BY <1>9 DEF AnswerBad, Answered, Write, Fenced, Forget, On
<1>10. ASSUME NEW d \in Dispatches, AnswerStale(d) PROVE Rows'
  BY <1>10 DEF AnswerStale, Answered, Leave, Fenced, Forget
<1>11. ASSUME NEW d \in Dispatches, NEW note \in [Events -> Kinds], AnswerGood(d, note) PROVE Rows'
  BY <1>11 DEF AnswerGood, Answered, Fenced, Forget, On
<1>12. ASSUME NEW d \in Dispatches, Deliver(d) PROVE Rows'
  BY <1>12 DEF Deliver, Fenced, Release, Owned, Leave, On
<1>13. ASSUME NEW d \in Dispatches, Failed(d) PROVE Rows'
  BY <1>13 DEF Failed, Release, Owned, Leave, On
<1>14. CASE Reap
  BY <1>14 DEF Reap, Write, Stale, On
<1>15. CASE SweepStart
  BY <1>15 DEF SweepStart, Stale, Idle, On
<1>16. CASE ReopenStep
  BY <1>16 DEF ReopenStep, Reopenable, Write, Forget, On
<1>17. CASE ReopenDone
  BY <1>17 DEF ReopenDone, Idle
<1>18. CASE ScanSkip
  BY <1>18 DEF ScanSkip, Write, On
<1>19. CASE ScanRedispatch
  <2>1. out' = out /\ \E S, ag, cd : Launch(S, 0, stage, ag, cd)
    BY <1>19 DEF ScanRedispatch
  <2>2. stage' \in [Events -> Stages] /\ lease' \in [Events -> 0..MaxDispatch]
    BY <2>1, LaunchRows, LaunchTypes
  <2> QED
    BY <2>1, <2>2
<1>20. CASE ScanExhausted
  BY <1>20 DEF ScanExhausted, Reclaimable, Recoverable, Write, On
<1>21. ASSUME NEW readable \in BOOLEAN, SweepStatus(readable) PROVE Rows'
  <2>1. CASE \E S, ag, cd : Launch(S, sw.op, stage, ag, cd)
    BY <1>21, <2>1, LaunchRows, LaunchTypes DEF SweepStatus
  <2>2. CASE ~\E S, ag, cd : Launch(S, sw.op, stage, ag, cd)
    BY <1>21, <2>2 DEF SweepStatus, Write, On
  <2> QED
    BY <2>1, <2>2
<1>22. CASE SweepWaited
  BY <1>22 DEF SweepWaited
<1>23. CASE SweepDone
  BY <1>23 DEF SweepDone, Idle
<1>24. ASSUME NEW e \in Events, Settle(e) PROVE Rows'
  BY <1>24 DEF Settle, Hand, Write, On
<1>25. ASSUME NEW e \in Events, Retry(e) PROVE Rows'
  BY <1>25 DEF Retry, RetryAble, Hand, Write, On
<1>26. CASE Remove
  BY <1>26 DEF Remove, Hand, Write, On
<1>27. ASSUME NEW d \in Dispatches, Confirm(d) PROVE Rows'
  BY <1>27 DEF Confirm, Write, On
<1>28. ASSUME NEW d \in Dispatches, Expire(d) PROVE Rows'
  BY <1>28 DEF Expire, Expired, Write, On
<1>29. ASSUME NEW e \in Events, Age(e) PROVE Rows'
  BY <1>29 DEF Age
<1>30. ASSUME NEW e \in Events, LeaseExpires(e) PROVE Rows'
  <2>1. lease' = [lease EXCEPT ![e] = 0] /\ stage' = stage /\ out' = out
    BY <1>30 DEF LeaseExpires
  <2>2. 0 \in 0..MaxDispatch
    BY BoundAssumption
  <2>3. lease' \in [Events -> 0..MaxDispatch]
    BY <2>1, <2>2
  <2> QED
    BY <2>1, <2>3
<1>31. CASE Suspend
  <2>1. lease' = [e \in Events |-> 0] /\ stage' = stage /\ out' = out
    BY <1>31 DEF Suspend
  <2>2. 0 \in 0..MaxDispatch
    OBVIOUS
  <2>3. lease' \in [Events -> 0..MaxDispatch]
    BY <2>1, <2>2
  <2> QED
    BY <2>1, <2>3
<1>32. CASE Close
  BY <1>32 DEF Close
<1>33. CASE Interrupt
  BY <1>33 DEF Interrupt, Fenced, Write, On
<1>34. CASE Crash
  BY <1>34 DEF Crash, Idle
<1>35. CASE UNCHANGED vars
  BY <1>35 DEF vars
<1> QED
  BY <1>1, <1>2, <1>3, <1>4, <1>5, <1>6, <1>7, <1>8, <1>9, <1>10, <1>11, <1>12,
     <1>13, <1>14, <1>15, <1>16, <1>17, <1>18, <1>19, <1>20, <1>21, <1>22,
     <1>23, <1>24, <1>25, <1>26, <1>27, <1>28, <1>29, <1>30, <1>31, <1>32,
     <1>33, <1>34, <1>35
  DEF Next, Sweep, Operator, Work

LEMMA CountsStep ==
  ASSUME BoundAssumption, Types, [Next]_vars PROVE Counts'
<1> USE DEF Types, Counts, BoundAssumption
<1>1. ASSUME NEW e \in Events, NEW same \in BOOLEAN, Submit(e, same) PROVE Counts'
  BY <1>1 DEF Submit
<1>2. CASE BurstTimer
  BY <1>2 DEF BurstTimer
<1>3. ASSUME NEW d \in Dispatches, Enter(d) PROVE Counts'
  BY <1>3 DEF Enter
<1>4. ASSUME NEW d \in Dispatches, Bound(d) PROVE Counts'
  BY <1>4 DEF Bound, Point, On, Forget
<1>5. ASSUME NEW d \in Dispatches, NEW readable \in BOOLEAN, Probed(d, readable) PROVE Counts'
  BY <1>5 DEF Probed, Point, On, Forget
<1>6. ASSUME NEW d \in Dispatches, Prompted(d) PROVE Counts'
  BY <1>6, Counted DEF Prompted
<1>7. ASSUME NEW o \in Dispatches, NEW how \in {"ok", "gone", "failed", "lost"}, RunEnds(o, how) PROVE Counts'
  BY <1>7 DEF RunEnds
<1>8. ASSUME NEW d \in Dispatches, NEW c \in {"busy", "other"}, Fail(d, c) PROVE Counts'
  BY <1>8 DEF Fail, Write, Fenced, Forget, On
<1>9. ASSUME NEW d \in Dispatches, AnswerBad(d) PROVE Counts'
  BY <1>9 DEF AnswerBad, Answered, Write, Fenced, Forget, On
<1>10. ASSUME NEW d \in Dispatches, AnswerStale(d) PROVE Counts'
  BY <1>10 DEF AnswerStale, Answered, Leave, Fenced, Forget
<1>11. ASSUME NEW d \in Dispatches, NEW note \in [Events -> Kinds], AnswerGood(d, note) PROVE Counts'
  BY <1>11, Counted DEF AnswerGood
<1>12. ASSUME NEW d \in Dispatches, Deliver(d) PROVE Counts'
  <2> DEFINE W == {e \in Fenced(d) : stage[e] = "authored" /\ out[e] = "note"}
             S == IF HasTarget THEN W ELSE {}
  <2>1. sent' = [e \in Events |-> IF e \in S THEN sent[e] + 1 ELSE sent[e]]
    BY <1>12 DEF Deliver
  <2> HIDE DEF S
  <2> QED
    BY <1>12, <2>1, Counted DEF Deliver
<1>13. ASSUME NEW d \in Dispatches, Failed(d) PROVE Counts'
  BY <1>13 DEF Failed, Release, Owned, Leave, On
<1>14. CASE Reap
  BY <1>14 DEF Reap, Write, Stale, On
<1>15. CASE SweepStart
  BY <1>15 DEF SweepStart, Stale, Idle, On
<1>16. CASE ReopenStep
  BY <1>16 DEF ReopenStep, Reopenable, Write, Forget, On
<1>17. CASE ReopenDone
  BY <1>17 DEF ReopenDone, Idle
<1>18. CASE ScanSkip
  BY <1>18 DEF ScanSkip, Write, On
<1>19. CASE ScanRedispatch
  <2>1. \A m \in SavedBatch(Min(sw.todo)) : att[m] < MaxAttempts
    BY <1>19 DEF ScanRedispatch, SavedBatch
  <2>2. att' \in [Events -> 0..MaxAttempts]
    BY <1>19, <2>1 DEF ScanRedispatch
  <2> QED
    BY <1>19, <2>2 DEF ScanRedispatch
<1>20. CASE ScanExhausted
  BY <1>20 DEF ScanExhausted, Reclaimable, Recoverable, Write, On
<1>21. ASSUME NEW readable \in BOOLEAN, SweepStatus(readable) PROVE Counts'
  BY <1>21 DEF SweepStatus
<1>22. CASE SweepWaited
  BY <1>22 DEF SweepWaited
<1>23. CASE SweepDone
  BY <1>23 DEF SweepDone, Idle
<1>24. ASSUME NEW e \in Events, Settle(e) PROVE Counts'
  BY <1>24 DEF Settle, Hand, Write, On
<1>25. ASSUME NEW e \in Events, Retry(e) PROVE Counts'
  <2>1. PICK S : /\ att' = On(S, 0, att)
                 /\ retries' = [m \in Events |-> IF m \in S THEN retries[m] + 1 ELSE retries[m]]
    BY <1>25 DEF Retry
  <2>2. att' \in [Events -> 0..MaxAttempts]
    <3>1. 0 \in 0..MaxAttempts
      OBVIOUS
    <3> QED
      BY <2>1, <3>1 DEF On
  <2> QED
    BY <1>25, <2>1, <2>2, Counted DEF Retry
<1>26. CASE Remove
  BY <1>26 DEF Remove, Hand, Write, On
<1>27. ASSUME NEW d \in Dispatches, Confirm(d) PROVE Counts'
  BY <1>27 DEF Confirm, Write, On
<1>28. ASSUME NEW d \in Dispatches, Expire(d) PROVE Counts'
  BY <1>28 DEF Expire, Expired, Write, On
<1>29. ASSUME NEW e \in Events, Age(e) PROVE Counts'
  BY <1>29 DEF Age
<1>30. ASSUME NEW e \in Events, LeaseExpires(e) PROVE Counts'
  BY <1>30 DEF LeaseExpires
<1>31. CASE Suspend
  BY <1>31 DEF Suspend
<1>32. CASE Close
  BY <1>32 DEF Close
<1>33. CASE Interrupt
  BY <1>33 DEF Interrupt, Fenced, Write, On
<1>34. CASE Crash
  BY <1>34 DEF Crash, Idle
<1>35. CASE UNCHANGED vars
  BY <1>35 DEF vars
<1> QED
  BY <1>1, <1>2, <1>3, <1>4, <1>5, <1>6, <1>7, <1>8, <1>9, <1>10, <1>11, <1>12,
     <1>13, <1>14, <1>15, <1>16, <1>17, <1>18, <1>19, <1>20, <1>21, <1>22,
     <1>23, <1>24, <1>25, <1>26, <1>27, <1>28, <1>29, <1>30, <1>31, <1>32,
     <1>33, <1>34, <1>35
  DEF Next, Sweep, Operator, Work

LEMMA TasksStep ==
  ASSUME BoundAssumption, Types, [Next]_vars PROVE Tasks'
<1> USE DEF Types, Rows, Counts, Tasks, Phases, Stages, InFlight, Terminal, Kinds, Events, Dispatches, BoundAssumption
<1>1. ASSUME NEW e \in Events, NEW same \in BOOLEAN, Submit(e, same) PROVE Tasks'
  <2>1. CASE \E st, ag, cd : Launch({e}, 0, st, ag, cd)
    BY <2>1, LaunchTypes
  <2>2. CASE ~\E st, ag, cd : Launch({e}, 0, st, ag, cd)
    BY <1>1, <2>2 DEF Submit
  <2> QED
    BY <2>1, <2>2
<1>2. CASE BurstTimer
  BY <1>2, LaunchTypes DEF BurstTimer
<1>3. ASSUME NEW d \in Dispatches, Enter(d) PROVE Tasks'
  BY <1>3 DEF Enter
<1>4. ASSUME NEW d \in Dispatches, Bound(d) PROVE Tasks'
  BY <1>4 DEF Bound, Point, On, Forget
<1>5. ASSUME NEW d \in Dispatches, NEW readable \in BOOLEAN, Probed(d, readable) PROVE Tasks'
  BY <1>5 DEF Probed, Point, On, Forget
<1>6. ASSUME NEW d \in Dispatches, Prompted(d) PROVE Tasks'
  BY <1>6 DEF Prompted
<1>7. ASSUME NEW o \in Dispatches, NEW how \in {"ok", "gone", "failed", "lost"}, RunEnds(o, how) PROVE Tasks'
  BY <1>7 DEF RunEnds
<1>8. ASSUME NEW d \in Dispatches, NEW c \in {"busy", "other"}, Fail(d, c) PROVE Tasks'
  BY <1>8 DEF Fail, Write, Fenced, Forget, On
<1>9. ASSUME NEW d \in Dispatches, AnswerBad(d) PROVE Tasks'
  BY <1>9 DEF AnswerBad, Answered, Write, Fenced, Forget, On
<1>10. ASSUME NEW d \in Dispatches, AnswerStale(d) PROVE Tasks'
  BY <1>10 DEF AnswerStale, Answered, Leave, Fenced, Forget
<1>11. ASSUME NEW d \in Dispatches, NEW note \in [Events -> Kinds], AnswerGood(d, note) PROVE Tasks'
  BY <1>11 DEF AnswerGood, Answered, Fenced, Forget, On
<1>12. ASSUME NEW d \in Dispatches, Deliver(d) PROVE Tasks'
  BY <1>12 DEF Deliver, Fenced, Release, Owned, Leave, On
<1>13. ASSUME NEW d \in Dispatches, Failed(d) PROVE Tasks'
  BY <1>13 DEF Failed, Release, Owned, Leave, On
<1>14. CASE Reap
  BY <1>14 DEF Reap, Write, Stale, On
<1>15. CASE SweepStart
  BY <1>15 DEF SweepStart, Stale, Idle, On
<1>16. CASE ReopenStep
  BY <1>16 DEF ReopenStep, Reopenable, Write, Forget, On
<1>17. CASE ReopenDone
  BY <1>17 DEF ReopenDone, Idle
<1>18. CASE ScanSkip
  BY <1>18 DEF ScanSkip, Write, On
<1>19. CASE ScanRedispatch
  BY <1>19, LaunchTypes DEF ScanRedispatch
<1>20. CASE ScanExhausted
  BY <1>20 DEF ScanExhausted, Reclaimable, Recoverable, Write, On
<1>21. ASSUME NEW readable \in BOOLEAN, SweepStatus(readable) PROVE Tasks'
  <2>1. CASE \E S, ag, cd : Launch(S, sw.op, stage, ag, cd)
    BY <2>1, LaunchTypes
  <2>2. CASE ~\E S, ag, cd : Launch(S, sw.op, stage, ag, cd)
    BY <1>21, <2>2 DEF SweepStatus
  <2> QED
    BY <2>1, <2>2
<1>22. CASE SweepWaited
  BY <1>22 DEF SweepWaited
<1>23. CASE SweepDone
  BY <1>23 DEF SweepDone, Idle
<1>24. ASSUME NEW e \in Events, Settle(e) PROVE Tasks'
  BY <1>24 DEF Settle, Hand, Write, On
<1>25. ASSUME NEW e \in Events, Retry(e) PROVE Tasks'
  BY <1>25 DEF Retry, RetryAble, Hand, Write, On
<1>26. CASE Remove
  BY <1>26 DEF Remove, Hand, Write, On
<1>27. ASSUME NEW d \in Dispatches, Confirm(d) PROVE Tasks'
  BY <1>27 DEF Confirm, Write, On
<1>28. ASSUME NEW d \in Dispatches, Expire(d) PROVE Tasks'
  BY <1>28 DEF Expire, Expired, Write, On
<1>29. ASSUME NEW e \in Events, Age(e) PROVE Tasks'
  BY <1>29 DEF Age
<1>30. ASSUME NEW e \in Events, LeaseExpires(e) PROVE Tasks'
  BY <1>30 DEF LeaseExpires
<1>31. CASE Suspend
  BY <1>31 DEF Suspend
<1>32. CASE Close
  BY <1>32 DEF Close
<1>33. CASE Interrupt
  BY <1>33 DEF Interrupt, Fenced, Write, On
<1>34. CASE Crash
  BY <1>34 DEF Crash, Idle
<1>35. CASE UNCHANGED vars
  BY <1>35 DEF vars
<1> HIDE DEF Types, Rows, Counts, Tasks, Phases, Stages, InFlight, Terminal, Kinds, Events, Dispatches
<1> QED
  BY <1>1, <1>2, <1>3, <1>4, <1>5, <1>6, <1>7, <1>8, <1>9, <1>10, <1>11, <1>12,
     <1>13, <1>14, <1>15, <1>16, <1>17, <1>18, <1>19, <1>20, <1>21, <1>22,
     <1>23, <1>24, <1>25, <1>26, <1>27, <1>28, <1>29, <1>30, <1>31, <1>32,
     <1>33, <1>34, <1>35
  DEF Next, Sweep, Operator, Work

LEMMA TypesStep ==
  ASSUME BoundAssumption, Types, [Next]_vars PROVE Types'
BY RowsStep, CountsStep, TasksStep DEF Types

-----------------------------------------------------------------------------
Held == Answers /\ Carriers

(* A dispatch that is neither over nor delivering holds unanswered events. *)
LEMMA HeldOut ==
  ASSUME Held, NEW d \in Dispatches, pc[d] \notin {"deliver", "off"}
  PROVE  \A e \in Events : lease[e] = d => out[e] = "none"
BY DEF Held, Answers, Dispatches

LEMMA HeldMove ==
  ASSUME Types, Held, NEW d \in Dispatches, pc[d] \notin {"deliver", "off"},
         NEW x, pc' = [pc EXCEPT ![d] = x], UNCHANGED <<stage, lease, out, notes, sent>>
  PROVE  Held'
<1>1. \A e \in Events : lease[e] = d => out[e] = "none"
  BY HeldOut
<1> QED
  BY <1>1 DEF Held, Answers, Carriers, Types, Tasks

LEMMA LaunchHeld ==
  ASSUME BoundAssumption, Types, Held,
         NEW S, NEW op, NEW st \in [Events -> Stages], NEW ag, NEW cd,
         Launch(S, op, st, ag, cd), UNCHANGED <<out, notes, sent>>,
         \A e \in Events : out[e] # "none" => st[e] \notin InFlight \cup {"none"}
  PROVE  Held'
<1>1. \A e \in Events : out[e] # "none" => stage'[e] \notin InFlight \cup {"none"}
  <2>1. "failed_no_retry" \notin InFlight \cup {"none"}
    BY DEF InFlight
  <2> QED
    BY <2>1, LaunchRows
<1>2. CASE UNCHANGED <<lease, taskVars, run, turn>>
  BY <1>1, <1>2 DEF Held, Answers, Carriers
<1>3. ASSUME NEW d \in Dispatches, NEW L \in SUBSET S, pc[d] = "off",
             \A e \in Events : lease[e] # d,
             \A e \in L : lease[e] = 0 /\ st[e] \in InFlight,
             lease' = On(L, d, lease), Queued(d, L, op)
      PROVE  Held'
  <2>p. pc' = [pc EXCEPT ![d] = "queued"]
    BY <1>3 DEF Queued
  <2>1. ASSUME NEW e \in Events, out[e] # "none"
        PROVE  lease'[e] = lease[e] /\ (lease[e] # 0 => pc'[lease[e]] = pc[lease[e]])
    <3>1. e \notin L
      BY <1>3, <2>1
    <3>2. lease'[e] = lease[e]
      BY <1>3, <3>1 DEF On, Types, Rows
    <3>3. lease[e] # 0 => lease[e] \in Dispatches /\ lease[e] # d
      BY <1>3 DEF Types, Rows, Dispatches, BoundAssumption
    <3> QED
      BY <2>p, <3>2, <3>3 DEF Types, Tasks
  <2>2. Answers'
    BY <1>1, <2>1 DEF Held, Answers
  <2>3. Carriers'
    BY <2>1 DEF Held, Carriers
  <2> QED
    BY <2>2, <2>3 DEF Held
<1> QED
  BY <1>2, <1>3, LaunchTasks

LEMMA HeldStep ==
  ASSUME BoundAssumption, Types, Held, [Next]_vars PROVE Held'
<1> USE DEF Types, Rows, Counts, Tasks, Held, Answers, Carriers, InFlight, Kinds, BoundAssumption
<1>1. ASSUME NEW e \in Events, NEW same \in BOOLEAN, Submit(e, same) PROVE Held'
  <2> DEFINE st == On(Superseded, "failed_no_retry", stage)
             st2 == [st EXCEPT ![e] = "admitted"]
  <2>1. st2 \in [Events -> Stages]
    BY SupersededRows DEF Stages
  <2>2. stage[e] = "none" /\ out[e] = "none"
    BY <1>1 DEF Submit
  <2>3. \A x \in Events : x # e => st[x] = IF x \in Superseded THEN "failed_no_retry" ELSE stage[x]
    BY SupersededRows
  <2>4. \A x \in Events : out[x] # "none" => x # e /\ st[x] \notin InFlight \cup {"none"}
    BY <2>2, <2>3
  <2>5. CASE \E ag, cd : Launch({e}, 0, st2, ag, cd)
    <3>1. \A x \in Events : out[x] # "none" => st2[x] \notin InFlight \cup {"none"}
      BY <2>4 DEF On
    <3>2. UNCHANGED <<out, notes, sent>>
      BY <1>1 DEF Submit
    <3> QED
      BY <2>1, <2>5, <3>1, <3>2, LaunchHeld
  <2>6. CASE (\E s \in {"skipped", "batched", "admitted"} : stage' = [st EXCEPT ![e] = s])
             /\ UNCHANGED <<lease, taskVars, run>>
    <3>1. \A x \in Events : out[x] # "none" => stage'[x] \notin InFlight \cup {"none"}
      BY <2>4, <2>6, SupersededRows
    <3> QED
      BY <1>1, <2>6, <3>1 DEF Submit
  <2> QED
    BY <1>1, <2>5, <2>6 DEF Submit
<1>2. CASE BurstTimer
  <2>1. UNCHANGED <<out, notes, sent>> /\ \E S, op, ag, cd : Launch(S, op, stage, ag, cd)
    BY <1>2 DEF BurstTimer
  <2>2. stage \in [Events -> Stages]
    BY DEF Types, Rows
  <2>3. \A x \in Events : out[x] # "none" => stage[x] \notin InFlight \cup {"none"}
    BY DEF Held, Answers
  <2> QED
    BY <2>1, <2>2, <2>3, LaunchHeld
<1>3. ASSUME NEW d \in Dispatches, Enter(d) PROVE Held'
  BY <1>3 DEF Enter
<1>4. ASSUME NEW d \in Dispatches, Bound(d) PROVE Held'
  <2>1. pc[d] = "bind" /\ \E y : pc' = [pc EXCEPT ![d] = y]
    BY <1>4 DEF Bound
  <2>2. UNCHANGED <<stage, lease, out, notes, sent>>
    BY <1>4 DEF Bound
  <2> QED
    BY <2>1, <2>2, HeldMove
<1>5. ASSUME NEW d \in Dispatches, NEW readable \in BOOLEAN, Probed(d, readable) PROVE Held'
  <2>1. pc[d] = "probe" /\ \E y : pc' = [pc EXCEPT ![d] = y]
    BY <1>5 DEF Probed
  <2>2. UNCHANGED <<stage, lease, out, notes, sent>>
    BY <1>5 DEF Probed
  <2> QED
    BY <2>1, <2>2, HeldMove
<1>6. ASSUME NEW d \in Dispatches, Prompted(d) PROVE Held'
  BY <1>6 DEF Prompted
<1>7. ASSUME NEW o \in Dispatches, NEW how \in {"ok", "gone", "failed", "lost"}, RunEnds(o, how) PROVE Held'
  BY <1>7 DEF RunEnds
<1>8. ASSUME NEW d \in Dispatches, NEW c \in {"busy", "other"}, Fail(d, c) PROVE Held'
  <2>1. pc[d] \in {"bind", "request", "harvest"} /\ pc' = [pc EXCEPT ![d] = "failing"]
        /\ stage' = On(Fenced(d), "failed", stage) /\ UNCHANGED <<lease, out, notes, sent>>
    BY <1>8 DEF Fail, Write
  <2>2. \A e \in Events \cap Fenced(d) : out[e] = "none"
    BY <2>1, HeldOut DEF Fenced
  <2> QED
    BY <2>1, <2>2 DEF On
<1>9. ASSUME NEW d \in Dispatches, AnswerBad(d) PROVE Held'
  <2>1. pc[d] \in {"request", "harvest"} /\ pc' = [pc EXCEPT ![d] = "failing"]
        /\ stage' = On(Fenced(d), "failed", stage) /\ UNCHANGED <<lease, out, notes, sent>>
    BY <1>9 DEF AnswerBad, Answered, Write
  <2>2. \A e \in Events \cap Fenced(d) : out[e] = "none"
    BY <2>1, HeldOut DEF Fenced
  <2> QED
    BY <2>1, <2>2 DEF On
<1>10. ASSUME NEW d \in Dispatches, AnswerStale(d) PROVE Held'
  BY <1>10 DEF AnswerStale, Answered, Leave, Fenced, Forget
<1>11. ASSUME NEW d \in Dispatches, NEW note \in [Events -> Kinds], AnswerGood(d, note) PROVE Held'
  <2>1. pc[d] \in {"request", "harvest"} /\ pc' = [pc EXCEPT ![d] = "deliver"]
        /\ UNCHANGED <<lease, sent>>
    BY <1>11 DEF AnswerGood, Answered
  <2>2. ASSUME NEW e \in Fenced(d)
        PROVE  /\ e \in Events => out[e] = "none"
               /\ lease[e] = d
    BY <2>1, HeldOut DEF Fenced
  <2>3. ASSUME NEW e \in Events \cap Fenced(d)
        PROVE  /\ notes'[e] = 1 /\ out'[e] # "none" /\ stage'[e] = "authored"
    BY <1>11, <2>2 DEF AnswerGood, On
  <2>4. ASSUME NEW e \in Events \ Fenced(d)
        PROVE  notes'[e] = notes[e] /\ out'[e] = out[e] /\ stage'[e] = stage[e]
    BY <1>11 DEF AnswerGood, On
  <2>5. Answers'
    BY <2>1, <2>2, <2>3, <2>4
  <2>6. Carriers'
    BY <2>1, <2>2, <2>3, <2>4
  <2> QED
    BY <2>5, <2>6
<1>12. ASSUME NEW d \in Dispatches, Deliver(d) PROVE Held'
  <2> DEFINE W == {e \in Fenced(d) : stage[e] = "authored" /\ out[e] = "note"}
  <2>1. /\ pc' = [pc EXCEPT ![d] = "off"] /\ UNCHANGED <<out, notes>>
        /\ lease' = On({e \in Events : lease[e] = d}, 0, lease)
        /\ sent' = [e \in Events |-> IF HasTarget /\ e \in W THEN sent[e] + 1 ELSE sent[e]]
    BY <1>12 DEF Deliver, Release, Owned, Leave
  <2>2. \A e \in Events : stage'[e] = stage[e] \/ stage'[e] \in {"authored_no_delivery", "contract_unmet"}
    BY <1>12 DEF Deliver, On
  <2>3. \A e \in Events : lease'[e] = IF lease[e] = d THEN 0 ELSE lease[e]
    BY <2>1 DEF On
  <2>4. \A e \in W : lease[e] = d /\ d # 0 /\ out[e] = "note"
    BY DEF Fenced, Dispatches
  <2>5. ASSUME NEW e \in Events, lease'[e] # 0
        PROVE  pc'[lease'[e]] = pc[lease'[e]] /\ lease'[e] = lease[e]
    <3>1. lease'[e] = lease[e] /\ lease[e] # d /\ lease[e] # 0
      BY <2>3, <2>5
    <3>2. lease[e] \in Dispatches
      BY <3>1 DEF Dispatches
    <3> QED
      BY <2>1, <3>1, <3>2
  <2> HIDE DEF W
  <2>6. Answers'
    BY <2>1, <2>2, <2>5
  <2>7. Carriers'
    BY <2>1, <2>3, <2>4
  <2> QED
    BY <2>6, <2>7
<1>13. ASSUME NEW d \in Dispatches, Failed(d) PROVE Held'
  BY <1>13 DEF Failed, Release, Owned, Leave, On
<1>14. CASE Reap
  BY <1>14 DEF Reap, Write, Stale, On
<1>15. CASE SweepStart
  BY <1>15 DEF SweepStart, Stale, Idle, On
<1>16. CASE ReopenStep
  BY <1>16 DEF ReopenStep, Reopenable, Write, Forget, On
<1>17. CASE ReopenDone
  BY <1>17 DEF ReopenDone, Idle
<1>18. CASE ScanSkip
  BY <1>18 DEF ScanSkip, Write, On
<1>19. CASE ScanRedispatch
  <2>1. UNCHANGED <<out, notes, sent>> /\ \E S, op, ag, cd : Launch(S, op, stage, ag, cd)
    BY <1>19 DEF ScanRedispatch
  <2>2. stage \in [Events -> Stages]
    BY DEF Types, Rows
  <2>3. \A x \in Events : out[x] # "none" => stage[x] \notin InFlight \cup {"none"}
    BY DEF Held, Answers
  <2> QED
    BY <2>1, <2>2, <2>3, LaunchHeld
<1>20. CASE ScanExhausted
  BY <1>20 DEF ScanExhausted, Reclaimable, Recoverable, Write, On
<1>21. ASSUME NEW readable \in BOOLEAN, SweepStatus(readable) PROVE Held'
  <2>1. CASE \E S, ag, cd : Launch(S, sw.op, stage, ag, cd)
    <3>1. UNCHANGED <<out, notes, sent>>
      BY <1>21 DEF SweepStatus
    <3>2. stage \in [Events -> Stages]
      OBVIOUS
    <3>3. \A x \in Events : out[x] # "none" => stage[x] \notin InFlight \cup {"none"}
      OBVIOUS
    <3> QED
      BY <2>1, <3>1, <3>2, <3>3, LaunchHeld
  <2>2. CASE ~\E S, ag, cd : Launch(S, sw.op, stage, ag, cd)
    BY <1>21, <2>2 DEF SweepStatus, Write, On
  <2> QED
    BY <2>1, <2>2
<1>22. CASE SweepWaited
  BY <1>22 DEF SweepWaited
<1>23. CASE SweepDone
  BY <1>23 DEF SweepDone, Idle
<1>24. ASSUME NEW e \in Events, Settle(e) PROVE Held'
  BY <1>24 DEF Settle, Hand, Write, On
<1>25. ASSUME NEW e \in Events, Retry(e) PROVE Held'
  BY <1>25 DEF Retry, RetryAble, Hand, Write, On
<1>26. CASE Remove
  BY <1>26 DEF Remove, Hand, Write, On
<1>27. ASSUME NEW d \in Dispatches, Confirm(d) PROVE Held'
  BY <1>27 DEF Confirm, Write, On
<1>28. ASSUME NEW d \in Dispatches, Expire(d) PROVE Held'
  BY <1>28 DEF Expire, Expired, Write, On
<1>29. ASSUME NEW e \in Events, Age(e) PROVE Held'
  BY <1>29 DEF Age
<1>30. ASSUME NEW e \in Events, LeaseExpires(e) PROVE Held'
  <2>1. lease' = [lease EXCEPT ![e] = 0] /\ UNCHANGED <<stage, out, notes, sent, pc>>
    BY <1>30 DEF LeaseExpires
  <2> QED
    BY <2>1
<1>31. CASE Suspend
  BY <1>31 DEF Suspend
<1>32. CASE Close
  BY <1>32 DEF Close
<1>33. CASE Interrupt
  <2> DEFINE F == UNION {IF pc[d] = "off" THEN {} ELSE Fenced(d) : d \in Dispatches}
  <2>1. stage' = On(F, "failed", stage) /\ UNCHANGED <<out, notes, sent, pc>>
        /\ lease' = [e \in Events |-> IF lease[e] # 0 /\ pc[lease[e]] # "off" THEN 0 ELSE lease[e]]
    BY <1>33 DEF Interrupt, Write
  <2>2. ASSUME NEW e \in Events \cap F PROVE out[e] = "none"
    BY <1>33, HeldOut DEF Interrupt, Quiet, Fenced
  <2> HIDE DEF F
  <2>3. Answers'
    BY <2>1, <2>2 DEF On
  <2>4. Carriers'
    BY <2>1
  <2> QED
    BY <2>3, <2>4
<1>34. CASE Crash
  <2>1. pc' = [d \in Dispatches |-> "off"] /\ UNCHANGED <<stage, lease, out, notes, sent>>
    BY <1>34 DEF Crash
  <2>2. \A e \in Events : lease[e] # 0 => lease[e] \in Dispatches
    BY DEF Dispatches
  <2> QED
    BY <2>1, <2>2
<1>35. CASE UNCHANGED vars
  BY <1>35 DEF vars
<1> QED
  BY <1>1, <1>2, <1>3, <1>4, <1>5, <1>6, <1>7, <1>8, <1>9, <1>10, <1>11, <1>12,
     <1>13, <1>14, <1>15, <1>16, <1>17, <1>18, <1>19, <1>20, <1>21, <1>22,
     <1>23, <1>24, <1>25, <1>26, <1>27, <1>28, <1>29, <1>30, <1>31, <1>32,
     <1>33, <1>34, <1>35
  DEF Next, Sweep, Operator, Work

-----------------------------------------------------------------------------
(* A step writes no row back to the state before it was submitted.         *)
LEMMA StaysSubmitted ==
  ASSUME BoundAssumption, Types, [Next]_vars,
         NEW x \in Events, stage[x] # "none"
  PROVE  stage'[x] # "none"
<1> USE DEF Types, Rows, InFlight, Terminal
<1>1. ASSUME NEW e \in Events, NEW same \in BOOLEAN, Submit(e, same) PROVE stage'[x] # "none"
  <2> DEFINE st == On(Superseded, "failed_no_retry", stage)
             st2 == [st EXCEPT ![e] = "admitted"]
  <2>1. st2 \in [Events -> Stages] /\ st2[x] # "none"
    BY SupersededRows DEF Stages
  <2>2. CASE \E ag, cd : Launch({e}, 0, st2, ag, cd)
    BY <2>1, <2>2, LaunchRows
  <2>3. CASE \E s \in {"skipped", "batched", "admitted"} : stage' = [st EXCEPT ![e] = s]
    BY <2>3, SupersededRows
  <2> QED
    BY <1>1, <2>2, <2>3 DEF Submit
<1>2. CASE BurstTimer
  <2>1. \E S, op, ag, cd : Launch(S, op, stage, ag, cd)
    BY <1>2 DEF BurstTimer
  <2>2. stage \in [Events -> Stages]
    BY DEF Types, Rows
  <2> QED
    BY <2>1, <2>2, LaunchRows
<1>3. ASSUME NEW d \in Dispatches, Enter(d) PROVE stage'[x] # "none"
  BY <1>3 DEF Enter
<1>4. ASSUME NEW d \in Dispatches, Bound(d) PROVE stage'[x] # "none"
  BY <1>4 DEF Bound, Point, On, Forget
<1>5. ASSUME NEW d \in Dispatches, NEW readable \in BOOLEAN, Probed(d, readable) PROVE stage'[x] # "none"
  BY <1>5 DEF Probed, Point, On, Forget
<1>6. ASSUME NEW d \in Dispatches, Prompted(d) PROVE stage'[x] # "none"
  BY <1>6 DEF Prompted
<1>7. ASSUME NEW o \in Dispatches, NEW how \in {"ok", "gone", "failed", "lost"}, RunEnds(o, how) PROVE stage'[x] # "none"
  BY <1>7 DEF RunEnds
<1>8. ASSUME NEW d \in Dispatches, NEW c \in {"busy", "other"}, Fail(d, c) PROVE stage'[x] # "none"
  BY <1>8 DEF Fail, Write, Fenced, Forget, On
<1>9. ASSUME NEW d \in Dispatches, AnswerBad(d) PROVE stage'[x] # "none"
  BY <1>9 DEF AnswerBad, Answered, Write, Fenced, Forget, On
<1>10. ASSUME NEW d \in Dispatches, AnswerStale(d) PROVE stage'[x] # "none"
  BY <1>10 DEF AnswerStale, Answered, Leave, Fenced, Forget
<1>11. ASSUME NEW d \in Dispatches, NEW note \in [Events -> Kinds], AnswerGood(d, note) PROVE stage'[x] # "none"
  BY <1>11 DEF AnswerGood, On
<1>12. ASSUME NEW d \in Dispatches, Deliver(d) PROVE stage'[x] # "none"
  BY <1>12 DEF Deliver, Fenced, Release, Owned, Leave, On
<1>13. ASSUME NEW d \in Dispatches, Failed(d) PROVE stage'[x] # "none"
  BY <1>13 DEF Failed, Release, Owned, Leave, On
<1>14. CASE Reap
  BY <1>14 DEF Reap, Write, Stale, On
<1>15. CASE SweepStart
  BY <1>15 DEF SweepStart, Stale, Idle, On
<1>16. CASE ReopenStep
  BY <1>16 DEF ReopenStep, Reopenable, Write, Forget, On
<1>17. CASE ReopenDone
  BY <1>17 DEF ReopenDone, Idle
<1>18. CASE ScanSkip
  BY <1>18 DEF ScanSkip, Write, On
<1>19. CASE ScanRedispatch
  <2>1. \E S, op, ag, cd : Launch(S, op, stage, ag, cd)
    BY <1>19 DEF ScanRedispatch
  <2>2. stage \in [Events -> Stages]
    BY DEF Types, Rows
  <2> QED
    BY <2>1, <2>2, LaunchRows
<1>20. CASE ScanExhausted
  BY <1>20 DEF ScanExhausted, Reclaimable, Recoverable, Write, On
<1>21. ASSUME NEW readable \in BOOLEAN, SweepStatus(readable) PROVE stage'[x] # "none"
  <2>1. CASE \E S, ag, cd : Launch(S, sw.op, stage, ag, cd)
    BY <2>1, LaunchRows
  <2>2. CASE ~\E S, ag, cd : Launch(S, sw.op, stage, ag, cd)
    BY <1>21, <2>2 DEF SweepStatus, Write, On
  <2> QED
    BY <2>1, <2>2
<1>22. CASE SweepWaited
  BY <1>22 DEF SweepWaited
<1>23. CASE SweepDone
  BY <1>23 DEF SweepDone, Idle
<1>24. ASSUME NEW e \in Events, Settle(e) PROVE stage'[x] # "none"
  BY <1>24 DEF Settle, Hand, Write, On
<1>25. ASSUME NEW e \in Events, Retry(e) PROVE stage'[x] # "none"
  BY <1>25 DEF Retry, RetryAble, Hand, Write, On
<1>26. CASE Remove
  BY <1>26 DEF Remove, Hand, Write, On
<1>27. ASSUME NEW d \in Dispatches, Confirm(d) PROVE stage'[x] # "none"
  BY <1>27 DEF Confirm, Write, On
<1>28. ASSUME NEW d \in Dispatches, Expire(d) PROVE stage'[x] # "none"
  BY <1>28 DEF Expire, Expired, Write, On
<1>29. ASSUME NEW e \in Events, Age(e) PROVE stage'[x] # "none"
  BY <1>29 DEF Age
<1>30. ASSUME NEW e \in Events, LeaseExpires(e) PROVE stage'[x] # "none"
  BY <1>30 DEF LeaseExpires
<1>31. CASE Suspend
  BY <1>31 DEF Suspend
<1>32. CASE Close
  BY <1>32 DEF Close
<1>33. CASE Interrupt
  BY <1>33 DEF Interrupt, Fenced, Write, On
<1>34. CASE Crash
  BY <1>34 DEF Crash, Idle
<1>35. CASE UNCHANGED vars
  BY <1>35 DEF vars
<1> QED
  BY <1>1, <1>2, <1>3, <1>4, <1>5, <1>6, <1>7, <1>8, <1>9, <1>10, <1>11, <1>12,
     <1>13, <1>14, <1>15, <1>16, <1>17, <1>18, <1>19, <1>20, <1>21, <1>22,
     <1>23, <1>24, <1>25, <1>26, <1>27, <1>28, <1>29, <1>30, <1>31, <1>32,
     <1>33, <1>34, <1>35
  DEF Next, Sweep, Operator, Work

(* What the burst window holds stays submitted, and was not skipped.       *)
LEMMA BurstsStep ==
  ASSUME BoundAssumption, Types, Bursts, [Next]_vars PROVE Bursts'
<1> USE DEF Types, Rows, Bursts, InFlight, Terminal
<1>1. ASSUME NEW e \in Events, NEW same \in BOOLEAN, Submit(e, same) PROVE Bursts'
  <2> DEFINE st == On(Superseded, "failed_no_retry", stage)
             st2 == [st EXCEPT ![e] = "admitted"]
  <2>1. st2 \in [Events -> Stages] /\ \A x \in burst : st2[x] \notin {"none", "skipped"}
    BY SupersededRows DEF Stages
  <2>2. CASE (\E ag, cd : Launch({e}, 0, st2, ag, cd)) /\ burst' = burst
    BY <2>1, <2>2, LaunchRows
  <2>3. CASE stage' = [st EXCEPT ![e] = "skipped"] /\ burst' = burst
    <3>1. e \notin burst
      BY <1>1 DEF Submit
    <3> QED
      BY <2>3, <3>1, SupersededRows
  <2>4. CASE \E s \in {"batched", "admitted"} : stage' = [st EXCEPT ![e] = s]
    <3>1. burst' \subseteq burst \cup {e}
      BY <1>1, <2>4 DEF Submit, Launch
    <3> QED
      BY <2>4, <3>1, SupersededRows
  <2>5. \/ \E ag, cd : Launch({e}, 0, st2, ag, cd) /\ burst' = burst
        \/ stage' = [st EXCEPT ![e] = "skipped"] /\ burst' = burst
        \/ \E s \in {"batched", "admitted"} : stage' = [st EXCEPT ![e] = s]
    BY <1>1 DEF Submit
  <2> QED
    BY <2>2, <2>3, <2>4, <2>5
<1>2. CASE BurstTimer
  BY <1>2 DEF BurstTimer
<1>3. ASSUME NEW d \in Dispatches, Enter(d) PROVE Bursts'
  BY <1>3 DEF Enter
<1>4. ASSUME NEW d \in Dispatches, Bound(d) PROVE Bursts'
  BY <1>4 DEF Bound, Point, On, Forget
<1>5. ASSUME NEW d \in Dispatches, NEW readable \in BOOLEAN, Probed(d, readable) PROVE Bursts'
  BY <1>5 DEF Probed, Point, On, Forget
<1>6. ASSUME NEW d \in Dispatches, Prompted(d) PROVE Bursts'
  BY <1>6 DEF Prompted
<1>7. ASSUME NEW o \in Dispatches, NEW how \in {"ok", "gone", "failed", "lost"}, RunEnds(o, how) PROVE Bursts'
  BY <1>7 DEF RunEnds
<1>8. ASSUME NEW d \in Dispatches, NEW c \in {"busy", "other"}, Fail(d, c) PROVE Bursts'
  BY <1>8 DEF Fail, Write, Fenced, Forget, On
<1>9. ASSUME NEW d \in Dispatches, AnswerBad(d) PROVE Bursts'
  BY <1>9 DEF AnswerBad, Answered, Write, Fenced, Forget, On
<1>10. ASSUME NEW d \in Dispatches, AnswerStale(d) PROVE Bursts'
  BY <1>10 DEF AnswerStale, Answered, Leave, Fenced, Forget
<1>11. ASSUME NEW d \in Dispatches, NEW note \in [Events -> Kinds], AnswerGood(d, note) PROVE Bursts'
  BY <1>11 DEF AnswerGood, On
<1>12. ASSUME NEW d \in Dispatches, Deliver(d) PROVE Bursts'
  BY <1>12 DEF Deliver, Fenced, Release, Owned, Leave, On
<1>13. ASSUME NEW d \in Dispatches, Failed(d) PROVE Bursts'
  BY <1>13 DEF Failed, Release, Owned, Leave, On
<1>14. CASE Reap
  BY <1>14 DEF Reap, Write, Stale, On
<1>15. CASE SweepStart
  BY <1>15 DEF SweepStart, Stale, Idle, On
<1>16. CASE ReopenStep
  BY <1>16 DEF ReopenStep, Reopenable, Write, Forget, On
<1>17. CASE ReopenDone
  BY <1>17 DEF ReopenDone, Idle
<1>18. CASE ScanSkip
  BY <1>18 DEF ScanSkip, Write, On
<1>19. CASE ScanRedispatch
  <2>1. burst' = burst /\ \E S, op, ag, cd : Launch(S, op, stage, ag, cd)
    BY <1>19 DEF ScanRedispatch
  <2>2. stage \in [Events -> Stages]
    BY DEF Types, Rows
  <2> QED
    BY <2>1, <2>2, LaunchRows
<1>20. CASE ScanExhausted
  BY <1>20 DEF ScanExhausted, Reclaimable, Recoverable, Write, On
<1>21. ASSUME NEW readable \in BOOLEAN, SweepStatus(readable) PROVE Bursts'
  <2>1. burst' = burst
    BY <1>21 DEF SweepStatus
  <2>2. CASE \E S, ag, cd : Launch(S, sw.op, stage, ag, cd)
    BY <2>1, <2>2, LaunchRows
  <2>3. CASE ~\E S, ag, cd : Launch(S, sw.op, stage, ag, cd)
    BY <1>21, <2>1, <2>3 DEF SweepStatus, Write, On
  <2> QED
    BY <2>2, <2>3
<1>22. CASE SweepWaited
  BY <1>22 DEF SweepWaited
<1>23. CASE SweepDone
  BY <1>23 DEF SweepDone, Idle
<1>24. ASSUME NEW e \in Events, Settle(e) PROVE Bursts'
  BY <1>24 DEF Settle, Hand, Write, On
<1>25. ASSUME NEW e \in Events, Retry(e) PROVE Bursts'
  BY <1>25 DEF Retry, RetryAble, Hand, Write, On
<1>26. CASE Remove
  BY <1>26 DEF Remove, Hand, Write, On
<1>27. ASSUME NEW d \in Dispatches, Confirm(d) PROVE Bursts'
  BY <1>27 DEF Confirm, Write, On
<1>28. ASSUME NEW d \in Dispatches, Expire(d) PROVE Bursts'
  BY <1>28 DEF Expire, Expired, Write, On
<1>29. ASSUME NEW e \in Events, Age(e) PROVE Bursts'
  BY <1>29 DEF Age
<1>30. ASSUME NEW e \in Events, LeaseExpires(e) PROVE Bursts'
  BY <1>30 DEF LeaseExpires
<1>31. CASE Suspend
  BY <1>31 DEF Suspend
<1>32. CASE Close
  BY <1>32 DEF Close
<1>33. CASE Interrupt
  BY <1>33 DEF Interrupt, Fenced, Write, On
<1>34. CASE Crash
  BY <1>34 DEF Crash, Idle
<1>35. CASE UNCHANGED vars
  BY <1>35 DEF vars
<1> QED
  BY <1>1, <1>2, <1>3, <1>4, <1>5, <1>6, <1>7, <1>8, <1>9, <1>10, <1>11, <1>12,
     <1>13, <1>14, <1>15, <1>16, <1>17, <1>18, <1>19, <1>20, <1>21, <1>22,
     <1>23, <1>24, <1>25, <1>26, <1>27, <1>28, <1>29, <1>30, <1>31, <1>32,
     <1>33, <1>34, <1>35
  DEF Next, Sweep, Operator, Work

-----------------------------------------------------------------------------
(* The sweep that waits for the status of a turn has the turn's operation. *)
Resumes == DOMAIN sw = DOMAIN Idle /\ (sw.pc = "status" => sw.op # 0)

LEMMA ResumesStep ==
  ASSUME Resumes, [Next]_vars PROVE Resumes'
<1> USE DEF Resumes, Idle
<1>1. ASSUME NEW e \in Events, NEW same \in BOOLEAN, Submit(e, same) PROVE Resumes'
  BY <1>1 DEF Submit
<1>2. CASE BurstTimer
  BY <1>2 DEF BurstTimer
<1>3. ASSUME NEW d \in Dispatches, Enter(d) PROVE Resumes'
  BY <1>3 DEF Enter
<1>4. ASSUME NEW d \in Dispatches, Bound(d) PROVE Resumes'
  BY <1>4 DEF Bound, Point, On, Forget
<1>5. ASSUME NEW d \in Dispatches, NEW readable \in BOOLEAN, Probed(d, readable) PROVE Resumes'
  BY <1>5 DEF Probed, Point, On, Forget
<1>6. ASSUME NEW d \in Dispatches, Prompted(d) PROVE Resumes'
  BY <1>6 DEF Prompted
<1>7. ASSUME NEW o \in Dispatches, NEW how \in {"ok", "gone", "failed", "lost"}, RunEnds(o, how) PROVE Resumes'
  BY <1>7 DEF RunEnds
<1>8. ASSUME NEW d \in Dispatches, NEW c \in {"busy", "other"}, Fail(d, c) PROVE Resumes'
  BY <1>8 DEF Fail, Write, Fenced, Forget, On
<1>9. ASSUME NEW d \in Dispatches, AnswerBad(d) PROVE Resumes'
  BY <1>9 DEF AnswerBad, Answered, Write, Fenced, Forget, On
<1>10. ASSUME NEW d \in Dispatches, AnswerStale(d) PROVE Resumes'
  BY <1>10 DEF AnswerStale, Answered, Leave, Fenced, Forget
<1>11. ASSUME NEW d \in Dispatches, NEW note \in [Events -> Kinds], AnswerGood(d, note) PROVE Resumes'
  BY <1>11 DEF AnswerGood, Answered, Fenced, Forget, On
<1>12. ASSUME NEW d \in Dispatches, Deliver(d) PROVE Resumes'
  BY <1>12 DEF Deliver, Fenced, Release, Owned, Leave, On
<1>13. ASSUME NEW d \in Dispatches, Failed(d) PROVE Resumes'
  BY <1>13 DEF Failed, Release, Owned, Leave, On
<1>14. CASE Reap
  BY <1>14 DEF Reap, Write, Stale, On
<1>15. CASE SweepStart
  BY <1>15 DEF SweepStart, Stale, Idle, On
<1>16. CASE ReopenStep
  BY <1>16 DEF ReopenStep, Reopenable, Write, Forget, On
<1>17. CASE ReopenDone
  BY <1>17 DEF ReopenDone, Idle
<1>18. CASE ScanSkip
  BY <1>18 DEF ScanSkip, Write, On
<1>19. CASE ScanRedispatch
  BY <1>19 DEF ScanRedispatch, AwaitLaunch
<1>20. CASE ScanExhausted
  BY <1>20 DEF ScanExhausted, Reclaimable, Recoverable, Write, On
<1>21. ASSUME NEW readable \in BOOLEAN, SweepStatus(readable) PROVE Resumes'
  BY <1>21 DEF SweepStatus, AwaitLaunch
<1>22. CASE SweepWaited
  BY <1>22 DEF SweepWaited
<1>23. CASE SweepDone
  BY <1>23 DEF SweepDone, Idle
<1>24. ASSUME NEW e \in Events, Settle(e) PROVE Resumes'
  BY <1>24 DEF Settle, Hand, Write, On
<1>25. ASSUME NEW e \in Events, Retry(e) PROVE Resumes'
  BY <1>25 DEF Retry, RetryAble, Hand, Write, On
<1>26. CASE Remove
  BY <1>26 DEF Remove, Hand, Write, On
<1>27. ASSUME NEW d \in Dispatches, Confirm(d) PROVE Resumes'
  BY <1>27 DEF Confirm, Write, On
<1>28. ASSUME NEW d \in Dispatches, Expire(d) PROVE Resumes'
  BY <1>28 DEF Expire, Expired, Write, On
<1>29. ASSUME NEW e \in Events, Age(e) PROVE Resumes'
  BY <1>29 DEF Age
<1>30. ASSUME NEW e \in Events, LeaseExpires(e) PROVE Resumes'
  BY <1>30 DEF LeaseExpires
<1>31. CASE Suspend
  BY <1>31 DEF Suspend
<1>32. CASE Close
  BY <1>32 DEF Close
<1>33. CASE Interrupt
  BY <1>33 DEF Interrupt, Fenced, Write, On
<1>34. CASE Crash
  BY <1>34 DEF Crash, Idle
<1>35. CASE UNCHANGED vars
  BY <1>35 DEF vars
<1> QED
  BY <1>1, <1>2, <1>3, <1>4, <1>5, <1>6, <1>7, <1>8, <1>9, <1>10, <1>11, <1>12,
     <1>13, <1>14, <1>15, <1>16, <1>17, <1>18, <1>19, <1>20, <1>21, <1>22,
     <1>23, <1>24, <1>25, <1>26, <1>27, <1>28, <1>29, <1>30, <1>31, <1>32,
     <1>33, <1>34, <1>35
  DEF Next, Sweep, Operator, Work

-----------------------------------------------------------------------------
(* A dispatch may still send a fresh prompt until it has.                  *)
MayPrompt(d) ==
  \/ pc[d] \in {"queued", "bind"} /\ opOf[d] = 0
  \/ pc[d] = "probe"
  \/ pc[d] = "request" /\ run[d] = "none"
Fresh(e) == {d \in Dispatches : MayPrompt(d) /\ e \in evs[d]}

(* The prompt of its own an event is still owed.                           *)
Owed(e) == IF stage[e] = "none" \/ e \in burst THEN 1 ELSE 0

Budget ==
  \A e \in Events :
    prompts[e] + Cardinality(Fresh(e)) + Owed(e) <= 1 + att[e] + MaxAttempts * retries[e]

LEMMA FreshCount ==
  ASSUME BoundAssumption, NEW T, T \subseteq Dispatches
  PROVE  IsFiniteSet(T) /\ Cardinality(T) \in Nat
<1>1. IsFiniteSet(Dispatches)
  BY FS_Interval DEF BoundAssumption, Dispatches
<1>2. IsFiniteSet(T)
  BY <1>1, FS_Subset
<1> QED
  BY <1>2, FS_CardinalityType

LEMMA Product ==
  ASSUME NEW m \in Nat, NEW r \in Nat
  PROVE  m * r \in Nat /\ m * (r + 1) = m * r + m
OBVIOUS

(* No prompt is sent, and no dispatch is started.                          *)
LEMMA BudgetKept ==
  ASSUME BoundAssumption, Types, Types', Budget,
         UNCHANGED <<prompts, att, retries>>,
         \A d \in Dispatches : MayPrompt(d)' => MayPrompt(d) /\ evs'[d] = evs[d],
         \A e \in Events : Owed(e)' <= Owed(e)
  PROVE  Budget'
<1> SUFFICES ASSUME NEW e \in Events
             PROVE  prompts'[e] + Cardinality(Fresh(e)') + Owed(e)' <= 1 + att'[e] + MaxAttempts * retries'[e]
  BY DEF Budget
<1>1. Fresh(e)' \subseteq Fresh(e) /\ Fresh(e) \subseteq Dispatches
  BY DEF Fresh
<1>2. Cardinality(Fresh(e)') <= Cardinality(Fresh(e))
      /\ Cardinality(Fresh(e)) \in Nat /\ Cardinality(Fresh(e)') \in Nat
  BY <1>1, FreshCount, FS_Subset
<1>3. prompts[e] + Cardinality(Fresh(e)) + Owed(e) <= 1 + att[e] + MaxAttempts * retries[e]
  BY DEF Budget
<1>4. prompts[e] \in Nat /\ att[e] \in Nat /\ MaxAttempts * retries[e] \in Nat
      /\ Owed(e) \in Nat /\ Owed(e)' \in Nat
  BY Product DEF Types, Counts, BoundAssumption, Owed
<1> QED
  BY <1>2, <1>3, <1>4

(* A dispatch is started for events that had a prompt owed or reclaimed.   *)
LEMMA BudgetLaunch ==
  ASSUME BoundAssumption, Types, Types', Budget, UNCHANGED <<prompts, retries>>,
         NEW S, NEW op, NEW st, NEW ag, NEW cd, Launch(S, op, st, ag, cd),
         \A e \in Events :
           Owed(e)' + att[e] + (IF op = 0 /\ e \in S THEN 1 ELSE 0) <= Owed(e) + att'[e]
  PROVE  Budget'
<1> SUFFICES ASSUME NEW e \in Events
             PROVE  prompts'[e] + Cardinality(Fresh(e)') + Owed(e)' <= 1 + att'[e] + MaxAttempts * retries'[e]
  BY DEF Budget
<1>1. Fresh(e) \subseteq Dispatches
  BY DEF Fresh
<1>2. IsFiniteSet(Fresh(e)) /\ Cardinality(Fresh(e)) \in Nat
  BY <1>1, FreshCount
<1>3. Cardinality(Fresh(e)') \in Nat
      /\ Cardinality(Fresh(e)') <= Cardinality(Fresh(e)) + (IF op = 0 /\ e \in S THEN 1 ELSE 0)
  <2>1. CASE UNCHANGED <<lease, taskVars, run, turn>>
    BY <1>2, <2>1 DEF Fresh, MayPrompt
  <2>2. ASSUME NEW d \in Dispatches, NEW L \in SUBSET S, Queued(d, L, op)
        PROVE  Cardinality(Fresh(e)') \in Nat
               /\ Cardinality(Fresh(e)') <= Cardinality(Fresh(e)) + (IF op = 0 /\ e \in S THEN 1 ELSE 0)
    <3>1. \A b \in Dispatches : b # d => (MayPrompt(b)' <=> MayPrompt(b)) /\ evs'[b] = evs[b]
      BY <2>2 DEF MayPrompt, Types, Tasks, Queued
    <3>2. MayPrompt(d)' /\ e \in evs'[d] => op = 0 /\ e \in S
      BY <2>2 DEF MayPrompt, Types, Tasks, Queued
    <3>3. CASE op = 0 /\ e \in S
      <4>1. Fresh(e)' \subseteq Fresh(e) \cup {d}
        BY <3>1 DEF Fresh
      <4>2. IsFiniteSet(Fresh(e) \cup {d}) /\ Cardinality(Fresh(e) \cup {d}) <= Cardinality(Fresh(e)) + 1
        <5>1. CASE d \in Fresh(e)
          <6>1. Fresh(e) \cup {d} = Fresh(e)
            BY <5>1
          <6>2. Cardinality(Fresh(e)) <= Cardinality(Fresh(e)) + 1
            BY <1>2
          <6> QED
            BY <1>2, <6>1, <6>2
        <5>2. CASE d \notin Fresh(e)
          <6>1. IsFiniteSet(Fresh(e) \cup {d}) /\ Cardinality(Fresh(e) \cup {d}) = Cardinality(Fresh(e)) + 1
            BY <1>2, <5>2, FS_AddElement
          <6>2. Cardinality(Fresh(e)) + 1 <= Cardinality(Fresh(e)) + 1
            BY <1>2
          <6> QED
            BY <6>1, <6>2
        <5> QED
          BY <5>1, <5>2
      <4> QED
        BY <1>2, <3>3, <4>1, <4>2, FS_Subset, FS_CardinalityType
    <3>4. CASE ~(op = 0 /\ e \in S)
      <4>1. Fresh(e)' \subseteq Fresh(e)
        BY <3>1, <3>2, <3>4 DEF Fresh
      <4> QED
        BY <1>2, <3>4, <4>1, FS_Subset, FS_CardinalityType
    <3> QED
      BY <3>3, <3>4
  <2> QED
    BY <2>1, <2>2, LaunchTasks
<1>4. prompts[e] + Cardinality(Fresh(e)) + Owed(e) <= 1 + att[e] + MaxAttempts * retries[e]
  BY DEF Budget
<1>5. prompts[e] \in Nat /\ att[e] \in Nat /\ att'[e] \in Nat /\ MaxAttempts * retries[e] \in Nat
      /\ Owed(e) \in Nat /\ Owed(e)' \in Nat
  BY Product DEF Types, Counts, BoundAssumption, Owed
<1>6. Owed(e)' + att[e] + (IF op = 0 /\ e \in S THEN 1 ELSE 0) <= Owed(e) + att'[e]
  OBVIOUS
<1>7. prompts'[e] = prompts[e] /\ retries'[e] = retries[e]
  OBVIOUS
<1> QED
  BY <1>2, <1>3, <1>4, <1>5, <1>6, <1>7

LEMMA BudgetStep ==
  ASSUME BoundAssumption, Types, Bursts, Resumes, Budget, [Next]_vars PROVE Budget'
<1> USE DEF BoundAssumption
<1>a. Types'
  BY TypesStep
<1>b. \A x \in Events : stage[x] # "none" => stage'[x] # "none"
  BY StaysSubmitted
<1>1. ASSUME NEW e \in Events, NEW same \in BOOLEAN, Submit(e, same) PROVE Budget'
  <2> DEFINE st == On(Superseded, "failed_no_retry", stage)
             st2 == [st EXCEPT ![e] = "admitted"]
  <2>1. UNCHANGED <<prompts, att, retries>> /\ stage[e] = "none" /\ burst' \subseteq burst \cup {e}
    BY <1>1 DEF Submit
  <2>2. \A x \in Events : Owed(x)' <= Owed(x)
    BY <1>b, <2>1 DEF Owed
  <2>3. st2 \in [Events -> Stages] /\ st2[e] = "admitted"
    BY SupersededRows DEF Stages, InFlight
  <2>4. CASE burst' = burst /\ \E ag, cd : Launch({e}, 0, st2, ag, cd)
    <3>1. e \notin burst
      BY <2>1 DEF Bursts
    <3>2. stage'[e] # "none"
      BY <2>3, <2>4, LaunchRows
    <3>3. Owed(e) = 1 /\ Owed(e)' = 0
      BY <2>1, <2>4, <3>1, <3>2 DEF Owed
    <3>4. \A x \in Events : att[x] \in Nat /\ Owed(x) \in Nat /\ Owed(x)' \in Nat
      BY DEF Types, Counts, Owed
    <3>5. \A x \in Events :
            Owed(x)' + att[x] + (IF 0 = 0 /\ x \in {e} THEN 1 ELSE 0) <= Owed(x) + att'[x]
      BY <2>1, <2>2, <3>3, <3>4
    <3> QED
      BY <1>a, <2>1, <2>4, <3>5, BudgetLaunch
  <2>5. CASE UNCHANGED <<taskVars, run>>
    <3>1. \A b \in Dispatches : MayPrompt(b)' => MayPrompt(b) /\ evs'[b] = evs[b]
      BY <2>5 DEF MayPrompt
    <3> QED
      BY <1>a, <2>1, <2>2, <3>1, BudgetKept
  <2> QED
    BY <1>1, <2>4, <2>5 DEF Submit
<1>2. CASE BurstTimer
  <2>1. UNCHANGED <<prompts, att, retries>> /\ burst' = {} /\ Launch(burst, 0, stage, age, code)
    BY <1>2 DEF BurstTimer
  <2>2. \A x \in Events : att[x] \in Nat /\ (x \in burst => Owed(x) = 1 /\ Owed(x)' = 0)
    BY <1>b, <2>1 DEF Types, Counts, Bursts, Owed
  <2>3. \A x \in Events : Owed(x)' <= Owed(x) /\ Owed(x) \in Nat /\ Owed(x)' \in Nat
    BY <1>b, <2>1 DEF Owed
  <2>4. \A x \in Events :
          Owed(x)' + att[x] + (IF 0 = 0 /\ x \in burst THEN 1 ELSE 0) <= Owed(x) + att'[x]
    BY <2>1, <2>2, <2>3
  <2> QED
    BY <1>a, <2>1, <2>4, BudgetLaunch
<1>3. ASSUME NEW d \in Dispatches, Enter(d) PROVE Budget'
  <2>1. UNCHANGED <<prompts, att, retries>> /\ burst' \subseteq burst
    BY <1>3 DEF Enter
  <2>2. \A b \in Dispatches : MayPrompt(b)' => MayPrompt(b) /\ evs'[b] = evs[b]
    BY <1>3 DEF MayPrompt, Types, Tasks, Enter
  <2>3. \A x \in Events : Owed(x)' <= Owed(x)
    BY <1>b, <2>1 DEF Owed
  <2> QED
    BY <1>a, <2>1, <2>2, <2>3, BudgetKept
<1>4. ASSUME NEW d \in Dispatches, Bound(d) PROVE Budget'
  <2>1. UNCHANGED <<prompts, att, retries>> /\ burst' \subseteq burst
    BY <1>4 DEF Bound
  <2>2. \A b \in Dispatches : MayPrompt(b)' => MayPrompt(b) /\ evs'[b] = evs[b]
    BY <1>4 DEF MayPrompt, Types, Tasks, Bound, Point, On, Forget
  <2>3. \A x \in Events : Owed(x)' <= Owed(x)
    BY <1>b, <2>1 DEF Owed
  <2> QED
    BY <1>a, <2>1, <2>2, <2>3, BudgetKept
<1>5. ASSUME NEW d \in Dispatches, NEW readable \in BOOLEAN, Probed(d, readable) PROVE Budget'
  <2>1. UNCHANGED <<prompts, att, retries>> /\ burst' \subseteq burst
    BY <1>5 DEF Probed
  <2>2. \A b \in Dispatches : MayPrompt(b)' => MayPrompt(b) /\ evs'[b] = evs[b]
    BY <1>5 DEF MayPrompt, Types, Tasks, Probed, Point, On, Forget
  <2>3. \A x \in Events : Owed(x)' <= Owed(x)
    BY <1>b, <2>1 DEF Owed
  <2> QED
    BY <1>a, <2>1, <2>2, <2>3, BudgetKept
<1>6. ASSUME NEW d \in Dispatches, Prompted(d) PROVE Budget'
  <2>1. /\ pc[d] = "request" /\ run[d] = "none" /\ run' = [run EXCEPT ![d] = "running"]
        /\ prompts' = [e \in Events |-> IF e \in evs[d] THEN prompts[e] + 1 ELSE prompts[e]]
        /\ UNCHANGED <<att, retries, burst, stage, pc, evs, opOf>>
    BY <1>6 DEF Prompted
  <2> SUFFICES ASSUME NEW e \in Events
               PROVE  prompts'[e] + Cardinality(Fresh(e)') + Owed(e)' <= 1 + att'[e] + MaxAttempts * retries'[e]
    BY DEF Budget
  <2>2. Fresh(e) \subseteq Dispatches /\ IsFiniteSet(Fresh(e)) /\ Cardinality(Fresh(e)) \in Nat
    BY FreshCount DEF Fresh
  <2>3. \A b \in Dispatches : MayPrompt(b)' <=> MayPrompt(b) /\ b # d
    BY <2>1 DEF MayPrompt, Types, Tasks
  <2>4. MayPrompt(d)
    BY <2>1 DEF MayPrompt
  <2>5. Fresh(e)' = Fresh(e) \ {d}
    BY <2>1, <2>3 DEF Fresh
  <2>6. e \in evs[d] => d \in Fresh(e)
    BY <2>4 DEF Fresh
  <2>7. Cardinality(Fresh(e)') = IF d \in Fresh(e) THEN Cardinality(Fresh(e)) - 1 ELSE Cardinality(Fresh(e))
    BY <2>2, <2>5, FS_RemoveElement
  <2>8. prompts[e] + Cardinality(Fresh(e)) + Owed(e) <= 1 + att[e] + MaxAttempts * retries[e]
    BY DEF Budget
  <2>9. prompts[e] \in Nat /\ att[e] \in Nat /\ MaxAttempts * retries[e] \in Nat
        /\ Owed(e) \in Nat /\ Owed(e)' = Owed(e)
    BY <2>1, Product DEF Types, Counts, Owed
  <2> QED
    BY <2>1, <2>2, <2>6, <2>7, <2>8, <2>9
<1>7. ASSUME NEW o \in Dispatches, NEW how \in {"ok", "gone", "failed", "lost"}, RunEnds(o, how) PROVE Budget'
  <2>1. UNCHANGED <<prompts, att, retries>> /\ burst' \subseteq burst
    BY <1>7 DEF RunEnds
  <2>2. \A b \in Dispatches : MayPrompt(b)' => MayPrompt(b) /\ evs'[b] = evs[b]
    BY <1>7 DEF MayPrompt, Types, Tasks, RunEnds
  <2>3. \A x \in Events : Owed(x)' <= Owed(x)
    BY <1>b, <2>1 DEF Owed
  <2> QED
    BY <1>a, <2>1, <2>2, <2>3, BudgetKept
<1>8. ASSUME NEW d \in Dispatches, NEW c \in {"busy", "other"}, Fail(d, c) PROVE Budget'
  <2>1. UNCHANGED <<prompts, att, retries>> /\ burst' \subseteq burst
    BY <1>8 DEF Fail
  <2>2. \A b \in Dispatches : MayPrompt(b)' => MayPrompt(b) /\ evs'[b] = evs[b]
    BY <1>8 DEF MayPrompt, Types, Tasks, Fail, Write, Fenced, Forget, On
  <2>3. \A x \in Events : Owed(x)' <= Owed(x)
    BY <1>b, <2>1 DEF Owed
  <2> QED
    BY <1>a, <2>1, <2>2, <2>3, BudgetKept
<1>9. ASSUME NEW d \in Dispatches, AnswerBad(d) PROVE Budget'
  <2>1. UNCHANGED <<prompts, att, retries>> /\ burst' \subseteq burst
    BY <1>9 DEF AnswerBad
  <2>2. \A b \in Dispatches : MayPrompt(b)' => MayPrompt(b) /\ evs'[b] = evs[b]
    BY <1>9
    DEF MayPrompt, Types, Tasks, AnswerBad, Answered, Write, Fenced, Forget, On
  <2>3. \A x \in Events : Owed(x)' <= Owed(x)
    BY <1>b, <2>1 DEF Owed
  <2> QED
    BY <1>a, <2>1, <2>2, <2>3, BudgetKept
<1>10. ASSUME NEW d \in Dispatches, AnswerStale(d) PROVE Budget'
  <2>1. UNCHANGED <<prompts, att, retries>> /\ burst' \subseteq burst
    BY <1>10 DEF AnswerStale
  <2>2. \A b \in Dispatches : MayPrompt(b)' => MayPrompt(b) /\ evs'[b] = evs[b]
    BY <1>10
    DEF MayPrompt, Types, Tasks, AnswerStale, Answered, Leave, Fenced, Forget
  <2>3. \A x \in Events : Owed(x)' <= Owed(x)
    BY <1>b, <2>1 DEF Owed
  <2> QED
    BY <1>a, <2>1, <2>2, <2>3, BudgetKept
<1>11. ASSUME NEW d \in Dispatches, NEW note \in [Events -> Kinds], AnswerGood(d, note) PROVE Budget'
  <2>1. UNCHANGED <<prompts, att, retries>> /\ burst' \subseteq burst
    BY <1>11 DEF AnswerGood
  <2>2. \A b \in Dispatches : MayPrompt(b)' => MayPrompt(b) /\ evs'[b] = evs[b]
    BY <1>11
    DEF MayPrompt, Types, Tasks, AnswerGood, Answered, Fenced, Forget, On
  <2>3. \A x \in Events : Owed(x)' <= Owed(x)
    BY <1>b, <2>1 DEF Owed
  <2> QED
    BY <1>a, <2>1, <2>2, <2>3, BudgetKept
<1>12. ASSUME NEW d \in Dispatches, Deliver(d) PROVE Budget'
  <2>1. UNCHANGED <<prompts, att, retries>> /\ burst' \subseteq burst
    BY <1>12 DEF Deliver
  <2>2. \A b \in Dispatches : MayPrompt(b)' => MayPrompt(b) /\ evs'[b] = evs[b]
    BY <1>12
    DEF MayPrompt, Types, Tasks, Deliver, Fenced, Release, Owned, Leave, On
  <2>3. \A x \in Events : Owed(x)' <= Owed(x)
    BY <1>b, <2>1 DEF Owed
  <2> QED
    BY <1>a, <2>1, <2>2, <2>3, BudgetKept
<1>13. ASSUME NEW d \in Dispatches, Failed(d) PROVE Budget'
  <2>1. UNCHANGED <<prompts, att, retries>> /\ burst' \subseteq burst
    BY <1>13 DEF Failed
  <2>2. \A b \in Dispatches : MayPrompt(b)' => MayPrompt(b) /\ evs'[b] = evs[b]
    BY <1>13 DEF MayPrompt, Types, Tasks, Failed, Release, Owned, Leave, On
  <2>3. \A x \in Events : Owed(x)' <= Owed(x)
    BY <1>b, <2>1 DEF Owed
  <2> QED
    BY <1>a, <2>1, <2>2, <2>3, BudgetKept
<1>14. CASE Reap
  <2>1. UNCHANGED <<prompts, att, retries>> /\ burst' \subseteq burst
    BY <1>14 DEF Reap
  <2>2. \A b \in Dispatches : MayPrompt(b)' => MayPrompt(b) /\ evs'[b] = evs[b]
    BY <1>14 DEF MayPrompt, Types, Tasks, Reap, Write, Stale, On
  <2>3. \A x \in Events : Owed(x)' <= Owed(x)
    BY <1>b, <2>1 DEF Owed
  <2> QED
    BY <1>a, <2>1, <2>2, <2>3, BudgetKept
<1>15. CASE SweepStart
  <2>1. UNCHANGED <<prompts, att, retries>> /\ burst' \subseteq burst
    BY <1>15 DEF SweepStart
  <2>2. \A b \in Dispatches : MayPrompt(b)' => MayPrompt(b) /\ evs'[b] = evs[b]
    BY <1>15 DEF MayPrompt, Types, Tasks, SweepStart, Stale, Idle, On
  <2>3. \A x \in Events : Owed(x)' <= Owed(x)
    BY <1>b, <2>1 DEF Owed
  <2> QED
    BY <1>a, <2>1, <2>2, <2>3, BudgetKept
<1>16. CASE ReopenStep
  <2>1. UNCHANGED <<prompts, att, retries>> /\ burst' \subseteq burst
    BY <1>16 DEF ReopenStep
  <2>2. \A b \in Dispatches : MayPrompt(b)' => MayPrompt(b) /\ evs'[b] = evs[b]
    BY <1>16
    DEF MayPrompt, Types, Tasks, ReopenStep, Reopenable, Write, Forget, On
  <2>3. \A x \in Events : Owed(x)' <= Owed(x)
    BY <1>b, <2>1 DEF Owed
  <2> QED
    BY <1>a, <2>1, <2>2, <2>3, BudgetKept
<1>17. CASE ReopenDone
  <2>1. UNCHANGED <<prompts, att, retries>> /\ burst' \subseteq burst
    BY <1>17 DEF ReopenDone
  <2>2. \A b \in Dispatches : MayPrompt(b)' => MayPrompt(b) /\ evs'[b] = evs[b]
    BY <1>17 DEF MayPrompt, Types, Tasks, ReopenDone, Idle
  <2>3. \A x \in Events : Owed(x)' <= Owed(x)
    BY <1>b, <2>1 DEF Owed
  <2> QED
    BY <1>a, <2>1, <2>2, <2>3, BudgetKept
<1>18. CASE ScanSkip
  <2>1. UNCHANGED <<prompts, att, retries>> /\ burst' \subseteq burst
    BY <1>18 DEF ScanSkip
  <2>2. \A b \in Dispatches : MayPrompt(b)' => MayPrompt(b) /\ evs'[b] = evs[b]
    BY <1>18 DEF MayPrompt, Types, Tasks, ScanSkip, Write, On
  <2>3. \A x \in Events : Owed(x)' <= Owed(x)
    BY <1>b, <2>1 DEF Owed
  <2> QED
    BY <1>a, <2>1, <2>2, <2>3, BudgetKept
<1>19. CASE ScanRedispatch
  <2> DEFINE S == SavedBatch(Min(sw.todo))
  <2>1. /\ UNCHANGED <<prompts, retries, burst>>
        /\ att' = [m \in Events |-> IF m \in S THEN att[m] + 1 ELSE att[m]]
        /\ \E ag, cd : Launch(S, 0, stage, ag, cd)
    BY <1>19 DEF ScanRedispatch
  <2>2. \A x \in Events : att[x] \in Nat
    BY DEF Types, Counts
  <2>3. \A x \in Events : Owed(x)' <= Owed(x) /\ Owed(x) \in Nat /\ Owed(x)' \in Nat
    BY <1>b, <2>1 DEF Owed
  <2> HIDE DEF S
  <2>4. \A x \in Events :
          Owed(x)' + att[x] + (IF 0 = 0 /\ x \in S THEN 1 ELSE 0) <= Owed(x) + att'[x]
    BY <2>1, <2>2, <2>3
  <2> QED
    BY <1>a, <2>1, <2>4, BudgetLaunch
<1>20. CASE ScanExhausted
  <2>1. UNCHANGED <<prompts, att, retries>> /\ burst' \subseteq burst
    BY <1>20 DEF ScanExhausted
  <2>2. \A b \in Dispatches : MayPrompt(b)' => MayPrompt(b) /\ evs'[b] = evs[b]
    BY <1>20
    DEF MayPrompt, Types, Tasks, ScanExhausted, Reclaimable, Recoverable,
        Write, On
  <2>3. \A x \in Events : Owed(x)' <= Owed(x)
    BY <1>b, <2>1 DEF Owed
  <2> QED
    BY <1>a, <2>1, <2>2, <2>3, BudgetKept
<1>21. ASSUME NEW readable \in BOOLEAN, SweepStatus(readable) PROVE Budget'
  <2>1. UNCHANGED <<prompts, att, retries, burst>> /\ sw.op # 0
    BY <1>21 DEF SweepStatus, Resumes
  <2>2. \A x \in Events : Owed(x)' <= Owed(x) /\ Owed(x) \in Nat /\ Owed(x)' \in Nat
    BY <1>b, <2>1 DEF Owed
  <2>3. ASSUME NEW S, NEW ag, NEW cd, Launch(S, sw.op, stage, ag, cd) PROVE Budget'
    <3>1. \A x \in Events : att[x] \in Nat
      BY DEF Types, Counts
    <3>2. \A x \in Events :
            Owed(x)' + att[x] + (IF sw.op = 0 /\ x \in S THEN 1 ELSE 0) <= Owed(x) + att'[x]
      BY <2>1, <2>2, <3>1
    <3> QED
      BY <1>a, <2>1, <2>3, <3>2, BudgetLaunch
  <2>4. CASE UNCHANGED <<taskVars, run>>
    <3>1. \A b \in Dispatches : MayPrompt(b)' => MayPrompt(b) /\ evs'[b] = evs[b]
      BY <2>4 DEF MayPrompt
    <3> QED
      BY <1>a, <2>1, <2>2, <3>1, BudgetKept
  <2> QED
    BY <1>21, <2>3, <2>4 DEF SweepStatus
<1>22. CASE SweepWaited
  <2>1. UNCHANGED <<prompts, att, retries>> /\ burst' \subseteq burst
    BY <1>22 DEF SweepWaited
  <2>2. \A b \in Dispatches : MayPrompt(b)' => MayPrompt(b) /\ evs'[b] = evs[b]
    BY <1>22 DEF MayPrompt, Types, Tasks, SweepWaited
  <2>3. \A x \in Events : Owed(x)' <= Owed(x)
    BY <1>b, <2>1 DEF Owed
  <2> QED
    BY <1>a, <2>1, <2>2, <2>3, BudgetKept
<1>23. CASE SweepDone
  <2>1. UNCHANGED <<prompts, att, retries>> /\ burst' \subseteq burst
    BY <1>23 DEF SweepDone
  <2>2. \A b \in Dispatches : MayPrompt(b)' => MayPrompt(b) /\ evs'[b] = evs[b]
    BY <1>23 DEF MayPrompt, Types, Tasks, SweepDone, Idle
  <2>3. \A x \in Events : Owed(x)' <= Owed(x)
    BY <1>b, <2>1 DEF Owed
  <2> QED
    BY <1>a, <2>1, <2>2, <2>3, BudgetKept
<1>24. ASSUME NEW e \in Events, Settle(e) PROVE Budget'
  <2>1. UNCHANGED <<prompts, att, retries>> /\ burst' \subseteq burst
    BY <1>24 DEF Settle
  <2>2. \A b \in Dispatches : MayPrompt(b)' => MayPrompt(b) /\ evs'[b] = evs[b]
    BY <1>24 DEF MayPrompt, Types, Tasks, Settle, Hand, Write, On
  <2>3. \A x \in Events : Owed(x)' <= Owed(x)
    BY <1>b, <2>1 DEF Owed
  <2> QED
    BY <1>a, <2>1, <2>2, <2>3, BudgetKept
<1>25. ASSUME NEW e \in Events, Retry(e) PROVE Budget'
  <2>1. PICK S : /\ att' = On(S, 0, att)
                 /\ retries' = [m \in Events |-> IF m \in S THEN retries[m] + 1 ELSE retries[m]]
    BY <1>25 DEF Retry
  <2>2. UNCHANGED <<prompts, burst, pc, evs, opOf, run>>
    BY <1>25 DEF Retry
  <2> SUFFICES ASSUME NEW x \in Events
               PROVE  prompts'[x] + Cardinality(Fresh(x)') + Owed(x)' <= 1 + att'[x] + MaxAttempts * retries'[x]
    BY DEF Budget
  <2>3. Cardinality(Fresh(x)) \in Nat /\ Fresh(x)' = Fresh(x)
    BY <2>2, FreshCount DEF Fresh, MayPrompt
  <2>4. prompts[x] + Cardinality(Fresh(x)) + Owed(x) <= 1 + att[x] + MaxAttempts * retries[x]
    BY DEF Budget
  <2>5. prompts[x] \in Nat /\ att[x] \in 0..MaxAttempts /\ retries[x] \in Nat
        /\ Owed(x) \in Nat /\ Owed(x)' \in Nat /\ Owed(x)' <= Owed(x)
    BY <1>b, <2>2 DEF Types, Counts, Owed
  <2>6. MaxAttempts * retries[x] \in Nat
        /\ MaxAttempts * (retries[x] + 1) = MaxAttempts * retries[x] + MaxAttempts
    BY <2>5, Product
  <2>7. CASE x \in S
    <3>1. att'[x] = 0 /\ retries'[x] = retries[x] + 1
      BY <2>1, <2>7 DEF On, Types, Counts
    <3> QED
      BY <2>2, <2>3, <2>4, <2>5, <2>6, <3>1
  <2>8. CASE x \notin S
    <3>1. att'[x] = att[x] /\ retries'[x] = retries[x]
      BY <2>1, <2>8 DEF On, Types, Counts
    <3> QED
      BY <2>2, <2>3, <2>4, <2>5, <2>6, <3>1
  <2> QED
    BY <2>7, <2>8
<1>26. CASE Remove
  <2>1. UNCHANGED <<prompts, att, retries>> /\ burst' \subseteq burst
    BY <1>26 DEF Remove
  <2>2. \A b \in Dispatches : MayPrompt(b)' => MayPrompt(b) /\ evs'[b] = evs[b]
    BY <1>26 DEF MayPrompt, Types, Tasks, Remove, Hand, Write, On
  <2>3. \A x \in Events : Owed(x)' <= Owed(x)
    BY <1>b, <2>1 DEF Owed
  <2> QED
    BY <1>a, <2>1, <2>2, <2>3, BudgetKept
<1>27. ASSUME NEW d \in Dispatches, Confirm(d) PROVE Budget'
  <2>1. UNCHANGED <<prompts, att, retries>> /\ burst' \subseteq burst
    BY <1>27 DEF Confirm
  <2>2. \A b \in Dispatches : MayPrompt(b)' => MayPrompt(b) /\ evs'[b] = evs[b]
    BY <1>27 DEF MayPrompt, Types, Tasks, Confirm, Write, On
  <2>3. \A x \in Events : Owed(x)' <= Owed(x)
    BY <1>b, <2>1 DEF Owed
  <2> QED
    BY <1>a, <2>1, <2>2, <2>3, BudgetKept
<1>28. ASSUME NEW d \in Dispatches, Expire(d) PROVE Budget'
  <2>1. UNCHANGED <<prompts, att, retries>> /\ burst' \subseteq burst
    BY <1>28 DEF Expire
  <2>2. \A b \in Dispatches : MayPrompt(b)' => MayPrompt(b) /\ evs'[b] = evs[b]
    BY <1>28 DEF MayPrompt, Types, Tasks, Expire, Expired, Write, On
  <2>3. \A x \in Events : Owed(x)' <= Owed(x)
    BY <1>b, <2>1 DEF Owed
  <2> QED
    BY <1>a, <2>1, <2>2, <2>3, BudgetKept
<1>29. ASSUME NEW e \in Events, Age(e) PROVE Budget'
  <2>1. UNCHANGED <<prompts, att, retries>> /\ burst' \subseteq burst
    BY <1>29 DEF Age
  <2>2. \A b \in Dispatches : MayPrompt(b)' => MayPrompt(b) /\ evs'[b] = evs[b]
    BY <1>29 DEF MayPrompt, Types, Tasks, Age
  <2>3. \A x \in Events : Owed(x)' <= Owed(x)
    BY <1>b, <2>1 DEF Owed
  <2> QED
    BY <1>a, <2>1, <2>2, <2>3, BudgetKept
<1>30. ASSUME NEW e \in Events, LeaseExpires(e) PROVE Budget'
  <2>1. UNCHANGED <<prompts, att, retries>> /\ burst' \subseteq burst
    BY <1>30 DEF LeaseExpires
  <2>2. \A b \in Dispatches : MayPrompt(b)' => MayPrompt(b) /\ evs'[b] = evs[b]
    BY <1>30 DEF MayPrompt, Types, Tasks, LeaseExpires
  <2>3. \A x \in Events : Owed(x)' <= Owed(x)
    BY <1>b, <2>1 DEF Owed
  <2> QED
    BY <1>a, <2>1, <2>2, <2>3, BudgetKept
<1>31. CASE Suspend
  <2>1. UNCHANGED <<prompts, att, retries>> /\ burst' \subseteq burst
    BY <1>31 DEF Suspend
  <2>2. \A b \in Dispatches : MayPrompt(b)' => MayPrompt(b) /\ evs'[b] = evs[b]
    BY <1>31 DEF MayPrompt, Types, Tasks, Suspend
  <2>3. \A x \in Events : Owed(x)' <= Owed(x)
    BY <1>b, <2>1 DEF Owed
  <2> QED
    BY <1>a, <2>1, <2>2, <2>3, BudgetKept
<1>32. CASE Close
  <2>1. UNCHANGED <<prompts, att, retries>> /\ burst' \subseteq burst
    BY <1>32 DEF Close
  <2>2. \A b \in Dispatches : MayPrompt(b)' => MayPrompt(b) /\ evs'[b] = evs[b]
    BY <1>32 DEF MayPrompt, Types, Tasks, Close
  <2>3. \A x \in Events : Owed(x)' <= Owed(x)
    BY <1>b, <2>1 DEF Owed
  <2> QED
    BY <1>a, <2>1, <2>2, <2>3, BudgetKept
<1>33. CASE Interrupt
  <2>1. UNCHANGED <<prompts, att, retries>> /\ burst' \subseteq burst
    BY <1>33 DEF Interrupt
  <2>2. \A b \in Dispatches : MayPrompt(b)' => MayPrompt(b) /\ evs'[b] = evs[b]
    BY <1>33 DEF MayPrompt, Types, Tasks, Interrupt, Fenced, Write, On
  <2>3. \A x \in Events : Owed(x)' <= Owed(x)
    BY <1>b, <2>1 DEF Owed
  <2> QED
    BY <1>a, <2>1, <2>2, <2>3, BudgetKept
<1>34. CASE Crash
  <2>1. UNCHANGED <<prompts, att, retries>> /\ burst' \subseteq burst
    BY <1>34 DEF Crash
  <2>2. \A b \in Dispatches : MayPrompt(b)' => MayPrompt(b) /\ evs'[b] = evs[b]
    BY <1>34 DEF MayPrompt, Types, Tasks, Crash, Idle
  <2>3. \A x \in Events : Owed(x)' <= Owed(x)
    BY <1>b, <2>1 DEF Owed
  <2> QED
    BY <1>a, <2>1, <2>2, <2>3, BudgetKept
<1>35. CASE UNCHANGED vars
  BY <1>35 DEF Budget, Fresh, MayPrompt, Owed, vars
<1> QED
  BY <1>1, <1>2, <1>3, <1>4, <1>5, <1>6, <1>7, <1>8, <1>9, <1>10, <1>11, <1>12,
     <1>13, <1>14, <1>15, <1>16, <1>17, <1>18, <1>19, <1>20, <1>21, <1>22,
     <1>23, <1>24, <1>25, <1>26, <1>27, <1>28, <1>29, <1>30, <1>31, <1>32,
     <1>33, <1>34, <1>35
  DEF Next, Sweep, Operator, Work

-----------------------------------------------------------------------------
Ledger == DOMAIN code = Events /\ DOMAIN outbox = Dispatches

LEMMA LedgerStep ==
  ASSUME Ledger, [Next]_vars PROVE Ledger'
<1> USE DEF Ledger
<1>1. ASSUME NEW e \in Events, NEW same \in BOOLEAN, Submit(e, same) PROVE Ledger'
  BY <1>1 DEF Submit, Launch, On
<1>2. CASE BurstTimer
  BY <1>2 DEF BurstTimer, Launch, On
<1>3. ASSUME NEW d \in Dispatches, Enter(d) PROVE Ledger'
  BY <1>3 DEF Enter
<1>4. ASSUME NEW d \in Dispatches, Bound(d) PROVE Ledger'
  BY <1>4 DEF Bound, Point, On, Forget
<1>5. ASSUME NEW d \in Dispatches, NEW readable \in BOOLEAN, Probed(d, readable) PROVE Ledger'
  BY <1>5 DEF Probed, Point, On, Forget
<1>6. ASSUME NEW d \in Dispatches, Prompted(d) PROVE Ledger'
  BY <1>6 DEF Prompted
<1>7. ASSUME NEW o \in Dispatches, NEW how \in {"ok", "gone", "failed", "lost"}, RunEnds(o, how) PROVE Ledger'
  BY <1>7 DEF RunEnds
<1>8. ASSUME NEW d \in Dispatches, NEW c \in {"busy", "other"}, Fail(d, c) PROVE Ledger'
  BY <1>8 DEF Fail, Write, Fenced, Forget, On
<1>9. ASSUME NEW d \in Dispatches, AnswerBad(d) PROVE Ledger'
  BY <1>9 DEF AnswerBad, Answered, Write, Fenced, Forget, On
<1>10. ASSUME NEW d \in Dispatches, AnswerStale(d) PROVE Ledger'
  BY <1>10 DEF AnswerStale, Answered, Leave, Fenced, Forget
<1>11. ASSUME NEW d \in Dispatches, NEW note \in [Events -> Kinds], AnswerGood(d, note) PROVE Ledger'
  BY <1>11 DEF AnswerGood, Answered, Fenced, Forget, On
<1>12. ASSUME NEW d \in Dispatches, Deliver(d) PROVE Ledger'
  BY <1>12 DEF Deliver, Fenced, Release, Owned, Leave, On
<1>13. ASSUME NEW d \in Dispatches, Failed(d) PROVE Ledger'
  BY <1>13 DEF Failed, Release, Owned, Leave, On
<1>14. CASE Reap
  BY <1>14 DEF Reap, Write, Stale, On
<1>15. CASE SweepStart
  BY <1>15 DEF SweepStart, Stale, Idle, On
<1>16. CASE ReopenStep
  BY <1>16 DEF ReopenStep, Reopenable, Write, Forget, On
<1>17. CASE ReopenDone
  BY <1>17 DEF ReopenDone, Idle
<1>18. CASE ScanSkip
  BY <1>18 DEF ScanSkip, Write, On
<1>19. CASE ScanRedispatch
  BY <1>19 DEF ScanRedispatch, Launch, On
<1>20. CASE ScanExhausted
  BY <1>20 DEF ScanExhausted, Reclaimable, Recoverable, Write, On
<1>21. ASSUME NEW readable \in BOOLEAN, SweepStatus(readable) PROVE Ledger'
  BY <1>21 DEF SweepStatus, Launch, Write, On
<1>22. CASE SweepWaited
  BY <1>22 DEF SweepWaited
<1>23. CASE SweepDone
  BY <1>23 DEF SweepDone, Idle
<1>24. ASSUME NEW e \in Events, Settle(e) PROVE Ledger'
  BY <1>24 DEF Settle, Hand, Write, On
<1>25. ASSUME NEW e \in Events, Retry(e) PROVE Ledger'
  BY <1>25 DEF Retry, RetryAble, Hand, Write, On
<1>26. CASE Remove
  BY <1>26 DEF Remove, Hand, Write, On
<1>27. ASSUME NEW d \in Dispatches, Confirm(d) PROVE Ledger'
  BY <1>27 DEF Confirm, Write, On
<1>28. ASSUME NEW d \in Dispatches, Expire(d) PROVE Ledger'
  BY <1>28 DEF Expire, Expired, Write, On
<1>29. ASSUME NEW e \in Events, Age(e) PROVE Ledger'
  BY <1>29 DEF Age
<1>30. ASSUME NEW e \in Events, LeaseExpires(e) PROVE Ledger'
  BY <1>30 DEF LeaseExpires
<1>31. CASE Suspend
  BY <1>31 DEF Suspend
<1>32. CASE Close
  BY <1>32 DEF Close
<1>33. CASE Interrupt
  BY <1>33 DEF Interrupt, Fenced, Write, On
<1>34. CASE Crash
  BY <1>34 DEF Crash, Idle
<1>35. CASE UNCHANGED vars
  BY <1>35 DEF vars
<1> QED
  BY <1>1, <1>2, <1>3, <1>4, <1>5, <1>6, <1>7, <1>8, <1>9, <1>10, <1>11, <1>12,
     <1>13, <1>14, <1>15, <1>16, <1>17, <1>18, <1>19, <1>20, <1>21, <1>22,
     <1>23, <1>24, <1>25, <1>26, <1>27, <1>28, <1>29, <1>30, <1>31, <1>32,
     <1>33, <1>34, <1>35
  DEF Next, Sweep, Operator, Work

(* #dispatch ends an event only for a monitor that is gone.                *)
LEMMA LaunchCode ==
  ASSUME NEW S, NEW op, NEW st \in [Events -> Stages], NEW ag, NEW cd, DOMAIN cd = Events,
         Launch(S, op, st, ag, cd), NEW e \in Events, stage'[e] = "failed_no_retry"
  PROVE  \/ code'[e] = "removed"
         \/ st[e] = "failed_no_retry" /\ code'[e] = cd[e]
<1>1. \/ stage' = st /\ code' = cd
      \/ stage' = On(Leasable(S, st), "batched", st) /\ code' = cd
      \/ \E F : stage' = On(F, "failed_no_retry", st) /\ code' = On(F, "removed", cd)
  BY DEF Launch
<1>2. CASE stage' = st /\ code' = cd
  BY <1>2
<1>3. CASE stage' = On(Leasable(S, st), "batched", st) /\ code' = cd
  BY <1>3 DEF On
<1>4. ASSUME NEW F, stage' = On(F, "failed_no_retry", st) /\ code' = On(F, "removed", cd)
      PROVE  \/ code'[e] = "removed"
             \/ st[e] = "failed_no_retry" /\ code'[e] = cd[e]
  BY <1>4 DEF On
<1> QED
  BY <1>1, <1>2, <1>3, <1>4

LEMMA LeaseStep ==
  ASSUME BoundAssumption, Types, Bursts, Ledger, [Next]_vars PROVE LeaseKept
<1> USE DEF LeaseKept, Types, Rows, Ledger, InFlight, Terminal
<1>1. ASSUME NEW e \in Events, NEW same \in BOOLEAN, Submit(e, same) PROVE LeaseKept
  <2> DEFINE st == On(Superseded, "failed_no_retry", stage)
             st2 == [st EXCEPT ![e] = "admitted"]
             cd == On(Superseded, "other", code)
  <2>1. st2 \in [Events -> Stages] /\ DOMAIN cd = Events
    BY SupersededRows DEF Stages, InFlight, On
  <2>2. \A x \in Superseded : stage[x] = "failed" /\ lease[x] = 0 /\ ptr[x] = 0
    BY DEF Superseded
  <2>3. stage[e] = "none" /\ ptr' = ptr /\ out' = out
    BY <1>1 DEF Submit
  <2>4. CASE \E ag : Launch({e}, 0, st2, ag, cd)
    BY <2>1, <2>2, <2>3, <2>4, LaunchRows, LaunchCode, SupersededRows
  <2>5. CASE \E s \in {"skipped", "batched", "admitted"} : stage' = [st EXCEPT ![e] = s]
    BY <2>2, <2>3, <2>5, SupersededRows
  <2> QED
    BY <1>1, <2>4, <2>5 DEF Submit
<1>2. CASE BurstTimer
  <2>1. ptr' = ptr /\ out' = out /\ \E S, op, ag : Launch(S, op, stage, ag, code)
    BY <1>2 DEF BurstTimer
  <2>2. stage \in [Events -> Stages] /\ DOMAIN code = Events
    OBVIOUS
  <2> QED
    BY <2>1, <2>2, LaunchRows, LaunchCode
<1>3. ASSUME NEW d \in Dispatches, Enter(d) PROVE LeaseKept
  BY <1>3 DEF Enter
<1>4. ASSUME NEW d \in Dispatches, Bound(d) PROVE LeaseKept
  BY <1>4 DEF Bound, Point, On, Forget
<1>5. ASSUME NEW d \in Dispatches, NEW readable \in BOOLEAN, Probed(d, readable) PROVE LeaseKept
  BY <1>5 DEF Probed, Point, On, Forget
<1>6. ASSUME NEW d \in Dispatches, Prompted(d) PROVE LeaseKept
  BY <1>6 DEF Prompted
<1>7. ASSUME NEW o \in Dispatches, NEW how \in {"ok", "gone", "failed", "lost"}, RunEnds(o, how) PROVE LeaseKept
  BY <1>7 DEF RunEnds
<1>8. ASSUME NEW d \in Dispatches, NEW c \in {"busy", "other"}, Fail(d, c) PROVE LeaseKept
  BY <1>8 DEF Fail, Write, Fenced, Forget, On
<1>9. ASSUME NEW d \in Dispatches, AnswerBad(d) PROVE LeaseKept
  BY <1>9 DEF AnswerBad, Answered, Write, Fenced, Forget, On
<1>10. ASSUME NEW d \in Dispatches, AnswerStale(d) PROVE LeaseKept
  BY <1>10 DEF AnswerStale, Answered, Leave, Fenced, Forget
<1>11. ASSUME NEW d \in Dispatches, NEW note \in [Events -> Kinds], AnswerGood(d, note) PROVE LeaseKept
  BY <1>11 DEF AnswerGood, Answered, Fenced, Forget, On
<1>12. ASSUME NEW d \in Dispatches, Deliver(d) PROVE LeaseKept
  BY <1>12 DEF Deliver, Fenced, Release, Owned, Leave, On
<1>13. ASSUME NEW d \in Dispatches, Failed(d) PROVE LeaseKept
  BY <1>13 DEF Failed, Release, Owned, Leave, On
<1>14. CASE Reap
  BY <1>14 DEF Reap, Write, Stale, On
<1>15. CASE SweepStart
  BY <1>15 DEF SweepStart, Stale, Idle, On
<1>16. CASE ReopenStep
  BY <1>16 DEF ReopenStep, Reopenable, Write, Forget, On
<1>17. CASE ReopenDone
  BY <1>17 DEF ReopenDone, Idle
<1>18. CASE ScanSkip
  BY <1>18 DEF ScanSkip, Write, On
<1>19. CASE ScanRedispatch
  <2>1. ptr' = ptr /\ out' = out /\ \E S, op, ag : Launch(S, op, stage, ag, code)
    BY <1>19 DEF ScanRedispatch
  <2>2. stage \in [Events -> Stages] /\ DOMAIN code = Events
    OBVIOUS
  <2> QED
    BY <2>1, <2>2, LaunchRows, LaunchCode
<1>20. CASE ScanExhausted
  BY <1>20 DEF ScanExhausted, Reclaimable, Recoverable, Write, On
<1>21. ASSUME NEW readable \in BOOLEAN, SweepStatus(readable) PROVE LeaseKept
  <2>1. CASE ptr' = ptr /\ \E S, ag : Launch(S, sw.op, stage, ag, code)
    <3>1. stage \in [Events -> Stages] /\ DOMAIN code = Events
      OBVIOUS
    <3> QED
      BY <2>1, <3>1, LaunchRows, LaunchCode
  <2>2. CASE UNCHANGED <<stage, code>>
    BY <2>2
  <2> DEFINE how == Disposition(turn[sw.op].evs, sw.op, readable)
  <2>3. CASE /\ Ends(sw.e, how)
             /\ Write({sw.e}, "failed_no_retry", IF how = "terminal" THEN "kept"
                            ELSE IF how = "unresolved" THEN how ELSE "removed")
             /\ ptr' = IF how = "terminal" THEN Forget({sw.e}, sw.op) ELSE ptr
    BY <2>3 DEF Disposition, Ends, StillExhausted, Write, Forget, On
  <2> QED
    BY <1>21, <2>1, <2>2, <2>3 DEF SweepStatus
<1>22. CASE SweepWaited
  BY <1>22 DEF SweepWaited
<1>23. CASE SweepDone
  BY <1>23 DEF SweepDone, Idle
<1>24. ASSUME NEW e \in Events, Settle(e) PROVE LeaseKept
  BY <1>24 DEF Settle, Hand, Write, On
<1>25. ASSUME NEW e \in Events, Retry(e) PROVE LeaseKept
  BY <1>25 DEF Retry, RetryAble, Hand, Write, On
<1>26. CASE Remove
  BY <1>26 DEF Remove, Hand, Write, On
<1>27. ASSUME NEW d \in Dispatches, Confirm(d) PROVE LeaseKept
  BY <1>27 DEF Confirm, Write, On
<1>28. ASSUME NEW d \in Dispatches, Expire(d) PROVE LeaseKept
  BY <1>28 DEF Expire, Expired, Write, On
<1>29. ASSUME NEW e \in Events, Age(e) PROVE LeaseKept
  BY <1>29 DEF Age
<1>30. ASSUME NEW e \in Events, LeaseExpires(e) PROVE LeaseKept
  BY <1>30 DEF LeaseExpires
<1>31. CASE Suspend
  BY <1>31 DEF Suspend
<1>32. CASE Close
  BY <1>32 DEF Close
<1>33. CASE Interrupt
  BY <1>33 DEF Interrupt, Fenced, Write, On
<1>34. CASE Crash
  BY <1>34 DEF Crash, Idle
<1>35. CASE UNCHANGED vars
  BY <1>35 DEF vars
<1> QED
  BY <1>1, <1>2, <1>3, <1>4, <1>5, <1>6, <1>7, <1>8, <1>9, <1>10, <1>11, <1>12,
     <1>13, <1>14, <1>15, <1>16, <1>17, <1>18, <1>19, <1>20, <1>21, <1>22,
     <1>23, <1>24, <1>25, <1>26, <1>27, <1>28, <1>29, <1>30, <1>31, <1>32,
     <1>33, <1>34, <1>35
  DEF Next, Sweep, Operator, Work

LEMMA RunningStep ==
  ASSUME BoundAssumption, Types, Bursts, Ledger, [Next]_vars PROVE RunningKept
<1> USE DEF RunningKept, Types, Rows, Ledger, InFlight, Terminal
<1>1. ASSUME NEW e \in Events, NEW same \in BOOLEAN, Submit(e, same) PROVE RunningKept
  <2> DEFINE st == On(Superseded, "failed_no_retry", stage)
             st2 == [st EXCEPT ![e] = "admitted"]
             cd == On(Superseded, "other", code)
  <2>1. st2 \in [Events -> Stages] /\ DOMAIN cd = Events
    BY SupersededRows DEF Stages, InFlight, On
  <2>2. \A x \in Superseded : stage[x] = "failed" /\ lease[x] = 0 /\ ptr[x] = 0
    BY DEF Superseded
  <2>3. stage[e] = "none" /\ ptr' = ptr /\ out' = out
    BY <1>1 DEF Submit
  <2>4. CASE \E ag : Launch({e}, 0, st2, ag, cd)
    BY <2>1, <2>2, <2>3, <2>4, LaunchRows, LaunchCode, SupersededRows
  <2>5. CASE \E s \in {"skipped", "batched", "admitted"} : stage' = [st EXCEPT ![e] = s]
    BY <2>2, <2>3, <2>5, SupersededRows
  <2> QED
    BY <1>1, <2>4, <2>5 DEF Submit
<1>2. CASE BurstTimer
  <2>1. ptr' = ptr /\ out' = out /\ \E S, op, ag : Launch(S, op, stage, ag, code)
    BY <1>2 DEF BurstTimer
  <2>2. stage \in [Events -> Stages] /\ DOMAIN code = Events
    OBVIOUS
  <2> QED
    BY <2>1, <2>2, LaunchRows, LaunchCode
<1>3. ASSUME NEW d \in Dispatches, Enter(d) PROVE RunningKept
  BY <1>3 DEF Enter
<1>4. ASSUME NEW d \in Dispatches, Bound(d) PROVE RunningKept
  BY <1>4 DEF Bound, Point, On, Forget
<1>5. ASSUME NEW d \in Dispatches, NEW readable \in BOOLEAN, Probed(d, readable) PROVE RunningKept
  BY <1>5 DEF Probed, Point, On, Forget
<1>6. ASSUME NEW d \in Dispatches, Prompted(d) PROVE RunningKept
  BY <1>6 DEF Prompted
<1>7. ASSUME NEW o \in Dispatches, NEW how \in {"ok", "gone", "failed", "lost"}, RunEnds(o, how) PROVE RunningKept
  BY <1>7 DEF RunEnds
<1>8. ASSUME NEW d \in Dispatches, NEW c \in {"busy", "other"}, Fail(d, c) PROVE RunningKept
  BY <1>8 DEF Fail, Write, Fenced, Forget, On
<1>9. ASSUME NEW d \in Dispatches, AnswerBad(d) PROVE RunningKept
  BY <1>9 DEF AnswerBad, Answered, Write, Fenced, Forget, On
<1>10. ASSUME NEW d \in Dispatches, AnswerStale(d) PROVE RunningKept
  BY <1>10 DEF AnswerStale, Answered, Leave, Fenced, Forget
<1>11. ASSUME NEW d \in Dispatches, NEW note \in [Events -> Kinds], AnswerGood(d, note) PROVE RunningKept
  BY <1>11 DEF AnswerGood, Answered, Fenced, Forget, On
<1>12. ASSUME NEW d \in Dispatches, Deliver(d) PROVE RunningKept
  BY <1>12 DEF Deliver, Fenced, Release, Owned, Leave, On
<1>13. ASSUME NEW d \in Dispatches, Failed(d) PROVE RunningKept
  BY <1>13 DEF Failed, Release, Owned, Leave, On
<1>14. CASE Reap
  BY <1>14 DEF Reap, Write, Stale, On
<1>15. CASE SweepStart
  BY <1>15 DEF SweepStart, Stale, Idle, On
<1>16. CASE ReopenStep
  BY <1>16 DEF ReopenStep, Reopenable, Write, Forget, On
<1>17. CASE ReopenDone
  BY <1>17 DEF ReopenDone, Idle
<1>18. CASE ScanSkip
  BY <1>18 DEF ScanSkip, Write, On
<1>19. CASE ScanRedispatch
  <2>1. ptr' = ptr /\ out' = out /\ \E S, op, ag : Launch(S, op, stage, ag, code)
    BY <1>19 DEF ScanRedispatch
  <2>2. stage \in [Events -> Stages] /\ DOMAIN code = Events
    OBVIOUS
  <2> QED
    BY <2>1, <2>2, LaunchRows, LaunchCode
<1>20. CASE ScanExhausted
  BY <1>20 DEF ScanExhausted, Reclaimable, Recoverable, Write, On
<1>21. ASSUME NEW readable \in BOOLEAN, SweepStatus(readable) PROVE RunningKept
  <2>1. CASE ptr' = ptr /\ \E S, ag : Launch(S, sw.op, stage, ag, code)
    <3>1. stage \in [Events -> Stages] /\ DOMAIN code = Events
      OBVIOUS
    <3> QED
      BY <2>1, <3>1, LaunchRows, LaunchCode
  <2>2. CASE UNCHANGED <<stage, code>>
    BY <2>2
  <2> DEFINE how == Disposition(turn[sw.op].evs, sw.op, readable)
  <2>3. CASE /\ Ends(sw.e, how)
             /\ Write({sw.e}, "failed_no_retry", IF how = "terminal" THEN "kept"
                            ELSE IF how = "unresolved" THEN how ELSE "removed")
             /\ ptr' = IF how = "terminal" THEN Forget({sw.e}, sw.op) ELSE ptr
    BY <2>3 DEF Disposition, Ends, StillExhausted, Write, Forget, On
  <2> QED
    BY <1>21, <2>1, <2>2, <2>3 DEF SweepStatus
<1>22. CASE SweepWaited
  BY <1>22 DEF SweepWaited
<1>23. CASE SweepDone
  BY <1>23 DEF SweepDone, Idle
<1>24. ASSUME NEW e \in Events, Settle(e) PROVE RunningKept
  BY <1>24 DEF Settle, Hand, Write, On
<1>25. ASSUME NEW e \in Events, Retry(e) PROVE RunningKept
  BY <1>25 DEF Retry, RetryAble, Hand, Write, On
<1>26. CASE Remove
  BY <1>26 DEF Remove, Hand, Write, On
<1>27. ASSUME NEW d \in Dispatches, Confirm(d) PROVE RunningKept
  BY <1>27 DEF Confirm, Write, On
<1>28. ASSUME NEW d \in Dispatches, Expire(d) PROVE RunningKept
  BY <1>28 DEF Expire, Expired, Write, On
<1>29. ASSUME NEW e \in Events, Age(e) PROVE RunningKept
  BY <1>29 DEF Age
<1>30. ASSUME NEW e \in Events, LeaseExpires(e) PROVE RunningKept
  BY <1>30 DEF LeaseExpires
<1>31. CASE Suspend
  BY <1>31 DEF Suspend
<1>32. CASE Close
  BY <1>32 DEF Close
<1>33. CASE Interrupt
  BY <1>33 DEF Interrupt, Fenced, Write, On
<1>34. CASE Crash
  BY <1>34 DEF Crash, Idle
<1>35. CASE UNCHANGED vars
  BY <1>35 DEF vars
<1> QED
  BY <1>1, <1>2, <1>3, <1>4, <1>5, <1>6, <1>7, <1>8, <1>9, <1>10, <1>11, <1>12,
     <1>13, <1>14, <1>15, <1>16, <1>17, <1>18, <1>19, <1>20, <1>21, <1>22,
     <1>23, <1>24, <1>25, <1>26, <1>27, <1>28, <1>29, <1>30, <1>31, <1>32,
     <1>33, <1>34, <1>35
  DEF Next, Sweep, Operator, Work

LEMMA TerminalStep ==
  ASSUME BoundAssumption, Types, Bursts, Resumes, Ledger, [Next]_vars PROVE TerminalKept
<1> USE DEF TerminalKept, Types, Rows, Ledger, InFlight, Terminal
<1>1. ASSUME NEW e \in Events, NEW same \in BOOLEAN, Submit(e, same) PROVE TerminalKept
  <2> DEFINE st == On(Superseded, "failed_no_retry", stage)
             st2 == [st EXCEPT ![e] = "admitted"]
             cd == On(Superseded, "other", code)
  <2>1. st2 \in [Events -> Stages] /\ DOMAIN cd = Events
    BY SupersededRows DEF Stages, InFlight, On
  <2>2. \A x \in Superseded : stage[x] = "failed" /\ lease[x] = 0 /\ ptr[x] = 0
    BY DEF Superseded
  <2>3. stage[e] = "none" /\ ptr' = ptr /\ out' = out
    BY <1>1 DEF Submit
  <2>4. CASE \E ag : Launch({e}, 0, st2, ag, cd)
    BY <2>1, <2>2, <2>3, <2>4, LaunchRows, LaunchCode, SupersededRows
  <2>5. CASE \E s \in {"skipped", "batched", "admitted"} : stage' = [st EXCEPT ![e] = s]
    BY <2>2, <2>3, <2>5, SupersededRows
  <2> QED
    BY <1>1, <2>4, <2>5 DEF Submit
<1>2. CASE BurstTimer
  <2>1. out' = out /\ \E ag : Launch(burst, 0, stage, ag, code)
    BY <1>2 DEF BurstTimer
  <2>2. stage \in [Events -> Stages] /\ \A x \in burst : stage[x] # "skipped"
    BY DEF Bursts
  <2> QED
    BY <2>1, <2>2, LaunchRows
<1>3. ASSUME NEW d \in Dispatches, Enter(d) PROVE TerminalKept
  BY <1>3 DEF Enter
<1>4. ASSUME NEW d \in Dispatches, Bound(d) PROVE TerminalKept
  BY <1>4 DEF Bound, Point, On, Forget
<1>5. ASSUME NEW d \in Dispatches, NEW readable \in BOOLEAN, Probed(d, readable) PROVE TerminalKept
  BY <1>5 DEF Probed, Point, On, Forget
<1>6. ASSUME NEW d \in Dispatches, Prompted(d) PROVE TerminalKept
  BY <1>6 DEF Prompted
<1>7. ASSUME NEW o \in Dispatches, NEW how \in {"ok", "gone", "failed", "lost"}, RunEnds(o, how) PROVE TerminalKept
  BY <1>7 DEF RunEnds
<1>8. ASSUME NEW d \in Dispatches, NEW c \in {"busy", "other"}, Fail(d, c) PROVE TerminalKept
  BY <1>8 DEF Fail, Write, Fenced, Forget, On
<1>9. ASSUME NEW d \in Dispatches, AnswerBad(d) PROVE TerminalKept
  BY <1>9 DEF AnswerBad, Answered, Write, Fenced, Forget, On
<1>10. ASSUME NEW d \in Dispatches, AnswerStale(d) PROVE TerminalKept
  BY <1>10 DEF AnswerStale, Answered, Leave, Fenced, Forget
<1>11. ASSUME NEW d \in Dispatches, NEW note \in [Events -> Kinds], AnswerGood(d, note) PROVE TerminalKept
  BY <1>11 DEF AnswerGood, Answered, Fenced, Forget, On
<1>12. ASSUME NEW d \in Dispatches, Deliver(d) PROVE TerminalKept
  BY <1>12 DEF Deliver, Fenced, Release, Owned, Leave, On
<1>13. ASSUME NEW d \in Dispatches, Failed(d) PROVE TerminalKept
  BY <1>13 DEF Failed, Release, Owned, Leave, On
<1>14. CASE Reap
  BY <1>14 DEF Reap, Write, Stale, On
<1>15. CASE SweepStart
  BY <1>15 DEF SweepStart, Stale, Idle, On
<1>16. CASE ReopenStep
  BY <1>16 DEF ReopenStep, Reopenable, Write, Forget, On
<1>17. CASE ReopenDone
  BY <1>17 DEF ReopenDone, Idle
<1>18. CASE ScanSkip
  BY <1>18 DEF ScanSkip, Write, On
<1>19. CASE ScanRedispatch
  <2> DEFINE S == SavedBatch(Min(sw.todo))
  <2>1. \E ag : Launch(S, 0, stage, ag, code)
    BY <1>19 DEF ScanRedispatch
  <2>2. stage \in [Events -> Stages] /\ \A x \in S : stage[x] \in InFlight
    BY <1>19 DEF ScanRedispatch, SavedBatch, Reclaimable, Recoverable
  <2> HIDE DEF S
  <2> QED
    BY <2>1, <2>2, LaunchRows
<1>20. CASE ScanExhausted
  BY <1>20 DEF ScanExhausted, Reclaimable, Recoverable, Write, On
<1>21. ASSUME NEW readable \in BOOLEAN, SweepStatus(readable) PROVE TerminalKept
  <2>1. CASE \E S, ag : Launch(S, sw.op, stage, ag, code)
    <3>1. stage \in [Events -> Stages] /\ sw.op # 0
      BY <1>21 DEF SweepStatus, Resumes
    <3> QED
      BY <2>1, <3>1, LaunchRows
  <2>2. CASE UNCHANGED <<stage, code>>
    BY <2>2
  <2>3. CASE \E how : Ends(sw.e, how) /\ stage' = On({sw.e}, "failed_no_retry", stage)
    BY <2>3 DEF Ends, StillExhausted, On
  <2> QED
    BY <1>21, <2>1, <2>2, <2>3 DEF SweepStatus, Write
<1>22. CASE SweepWaited
  BY <1>22 DEF SweepWaited
<1>23. CASE SweepDone
  BY <1>23 DEF SweepDone, Idle
<1>24. ASSUME NEW e \in Events, Settle(e) PROVE TerminalKept
  BY <1>24 DEF Settle, Hand, Write, On
<1>25. ASSUME NEW e \in Events, Retry(e) PROVE TerminalKept
  BY <1>25 DEF Retry, RetryAble, Hand, Write, On
<1>26. CASE Remove
  BY <1>26 DEF Remove, Hand, Write, On
<1>27. ASSUME NEW d \in Dispatches, Confirm(d) PROVE TerminalKept
  BY <1>27 DEF Confirm, Write, On
<1>28. ASSUME NEW d \in Dispatches, Expire(d) PROVE TerminalKept
  BY <1>28 DEF Expire, Expired, Write, On
<1>29. ASSUME NEW e \in Events, Age(e) PROVE TerminalKept
  BY <1>29 DEF Age
<1>30. ASSUME NEW e \in Events, LeaseExpires(e) PROVE TerminalKept
  BY <1>30 DEF LeaseExpires
<1>31. CASE Suspend
  BY <1>31 DEF Suspend
<1>32. CASE Close
  BY <1>32 DEF Close
<1>33. CASE Interrupt
  BY <1>33 DEF Interrupt, Fenced, Write, On
<1>34. CASE Crash
  BY <1>34 DEF Crash, Idle
<1>35. CASE UNCHANGED vars
  BY <1>35 DEF vars
<1> QED
  BY <1>1, <1>2, <1>3, <1>4, <1>5, <1>6, <1>7, <1>8, <1>9, <1>10, <1>11, <1>12,
     <1>13, <1>14, <1>15, <1>16, <1>17, <1>18, <1>19, <1>20, <1>21, <1>22,
     <1>23, <1>24, <1>25, <1>26, <1>27, <1>28, <1>29, <1>30, <1>31, <1>32,
     <1>33, <1>34, <1>35
  DEF Next, Sweep, Operator, Work

-----------------------------------------------------------------------------
Inv == Types /\ Held /\ Bursts /\ Resumes /\ Budget /\ Ledger

LEMMA InvInit == BoundAssumption /\ Init => Inv
<1> SUFFICES ASSUME BoundAssumption, Init PROVE Inv
  OBVIOUS
<1>1. Types
  BY TypesInit
<1>2. Held /\ Bursts /\ Ledger
  BY DEF Init, Held, Answers, Carriers, Bursts, Ledger
<1>3. Resumes
  BY DEF Init, Resumes, Idle
<1>4. Budget
  <2> SUFFICES ASSUME NEW e \in Events
               PROVE  prompts[e] + Cardinality(Fresh(e)) + Owed(e) <= 1 + att[e] + MaxAttempts * retries[e]
    BY DEF Budget
  <2>1. Fresh(e) = {}
    BY DEF Init, Fresh, MayPrompt
  <2>2. prompts[e] = 0 /\ att[e] = 0 /\ retries[e] = 0 /\ Owed(e) = 1
    BY DEF Init, Owed
  <2>3. MaxAttempts * 0 = 0
    BY DEF BoundAssumption
  <2> QED
    BY <2>1, <2>2, <2>3, FS_EmptySet
<1> QED
  BY <1>1, <1>2, <1>3, <1>4 DEF Inv

LEMMA InvStep ==
  ASSUME BoundAssumption, Inv, [Next]_vars PROVE Inv'
BY TypesStep, HeldStep, BurstsStep, ResumesStep, BudgetStep, LedgerStep DEF Inv

(* The inductive invariant of a monitor's events.                          *)
THEOREM InvAlways ==
  ASSUME BoundAssumption PROVE Spec => []Inv
BY InvInit, InvStep, PTL DEF Spec

(* #authorOutputs under the live lease: an event is answered once, and one *)
(* delivery carries its note, whatever leases ran out and whoever retried. *)
THEOREM Answered1 ==
  ASSUME BoundAssumption PROVE Spec => []AnsweredOnce
<1>1. Inv => AnsweredOnce
  BY DEF Inv, Types, Counts, Held, Answers, Carriers, AnsweredOnce
<1> QED
  BY <1>1, InvAlways, PTL

(* reconcile: the reclaim budget bounds the fresh prompts of an event.     *)
THEOREM Budgeted ==
  ASSUME BoundAssumption PROVE Spec => []PromptBudget
<1>1. ASSUME Inv, NEW e \in Events PROVE prompts[e] <= 1 + MaxAttempts * (1 + retries[e])
  <2>1. Cardinality(Fresh(e)) \in Nat
    BY FreshCount DEF Fresh
  <2>2. prompts[e] + Cardinality(Fresh(e)) + Owed(e) <= 1 + att[e] + MaxAttempts * retries[e]
    BY <1>1 DEF Inv, Budget
  <2>3. prompts[e] \in Nat /\ att[e] \in 0..MaxAttempts /\ retries[e] \in Nat /\ Owed(e) \in Nat
    BY <1>1 DEF Inv, Types, Counts, Owed
  <2>4. MaxAttempts * retries[e] \in Nat
        /\ MaxAttempts * (retries[e] + 1) = MaxAttempts * retries[e] + MaxAttempts
    BY <2>3, Product DEF BoundAssumption
  <2>5. MaxAttempts * (1 + retries[e]) = MaxAttempts * (retries[e] + 1)
    BY <2>3
  <2> QED
    BY <2>1, <2>2, <2>3, <2>4, <2>5 DEF BoundAssumption
<1>2. Inv => PromptBudget
  BY <1>1 DEF Inv, Types, Counts, PromptBudget
<1> QED
  BY <1>2, InvAlways, PTL

(* eventFencedFail, eventReapStale, eventFail, registry.remove and the     *)
(* confirmation: no step ends an event that is leased, or whose prompt     *)
(* still runs, and none changes one that has ended but to try a failure    *)
(* without a note again or to find one with a note delivered.              *)
THEOREM Respected ==
  ASSUME BoundAssumption PROVE Spec => LeaseRespected
<1>1. ASSUME Inv, [Next]_vars PROVE LeaseKept /\ RunningKept /\ TerminalKept
  BY <1>1, LeaseStep, RunningStep, TerminalStep DEF Inv
<1>2. Inv /\ [Next]_vars => [LeaseKept /\ RunningKept /\ TerminalKept]_vars
  BY <1>1
<1> QED
  BY <1>2, InvAlways, PTL DEF Spec, LeaseRespected

-----------------------------------------------------------------------------
(* The safety net over the session. Compaction is asked only for fresh     *)
(* work of the session the origin has, and nothing moves it meanwhile.     *)
CompactsOwn == phase = "compact" => FreshOfCurrent

Streak(c) ==
  /\ c \in [Streaks -> Nat]
  /\ \A k \in Streaks : c[k] <= IF k = "prior" THEN PriorThreshold ELSE MaxCount

RollInvariant == RollTypeOK /\ CompactsOwn

LEMMA StreakZero == Streak(Zero)
BY ThresholdAssumption DEF Streak, Zero

LEMMA StreakCapped ==
  ASSUME NEW c, Streak(c), NEW k \in Streaks \ {"prior"} PROVE Streak(Capped(c, k))
<1>1. c[k] < MaxCount => c[k] + 1 \in 0..MaxCount
  BY ThresholdAssumption DEF Streak
<1>2. CASE c[k] < MaxCount
  BY <1>1, <1>2 DEF Streak, Capped
<1>3. CASE ~(c[k] < MaxCount)
  BY <1>3 DEF Capped
<1> QED
  BY <1>2, <1>3

LEMMA StreakReset ==
  ASSUME NEW c, Streak(c)
  PROVE  Streak(Priorless(c)) /\ Streak(Unbusy(c)) /\ Streak(Cleared(c, FALSE))
<1>1. \A d : d \in [Streaks -> Nat] /\ (\A k \in Streaks : d[k] = c[k] \/ d[k] = 0) => Streak(d)
  BY ThresholdAssumption DEF Streak
<1>2. Streak(Unbusy(c))
  <2>1. Unbusy(c) \in [Streaks -> Nat] /\ \A k \in Streaks : Unbusy(c)[k] = c[k] \/ Unbusy(c)[k] = 0
    BY DEF Unbusy, Streak
  <2> QED
    BY <1>1, <2>1
<1>3. Streak(Priorless(c))
  <2>1. /\ Priorless(c) \in [Streaks -> Nat]
        /\ \A k \in Streaks : Priorless(c)[k] = c[k] \/ Priorless(c)[k] = 0
    BY DEF Priorless, Streak
  <2> QED
    BY <1>1, <2>1
<1>4. Streak(Cleared(c, FALSE))
  <2>1. /\ Cleared(c, FALSE) \in [Streaks -> Nat]
        /\ \A k \in Streaks : Cleared(c, FALSE)[k] = c[k] \/ Cleared(c, FALSE)[k] = 0
    BY DEF Cleared, Streak
  <2> QED
    BY <1>1, <2>1
<1> QED
  BY <1>2, <1>3, <1>4

LEMMA RollInitLemma == RollInit => RollInvariant
<1> SUFFICES ASSUME RollInit PROVE RollInvariant
  OBVIOUS
<1>1. streaks \in [Streaks -> Nat] /\ \A k \in Streaks : streaks[k] <= IF k = "prior" THEN PriorThreshold ELSE MaxCount
  BY StreakZero DEF RollInit, Streak
<1>2. epoch \in 0..MaxRolls /\ bound \in -1..epoch /\ resumes \in 0..MaxResume
  BY ThresholdAssumption DEF RollInit
<1> QED
  BY <1>1, <1>2 DEF RollInit, RollInvariant, RollTypeOK, CompactsOwn, Reasons, Stuck

(* What a step of the origin must leave.                                   *)
LEMMA Kept ==
  ASSUME RollInvariant, Streak(streaks'), UNCHANGED <<epoch, bound, replayed, stuck, resumes>>,
         pending' \in Reasons, phase' = "idle" \/ (phase' = "compact" /\ FreshOfCurrent)
  PROVE  RollInvariant'
BY DEF RollInvariant, RollTypeOK, CompactsOwn, Streak, FreshOfCurrent, OfCurrent

LEMMA StreaksAre == RollInvariant => Streak(streaks)
BY DEF RollInvariant, RollTypeOK, Streak

LEMMA OutcomeStep ==
  ASSUME RollInvariant,
         \/ TurnAnswered \/ FailBusy \/ FailPrior \/ FailExecutor \/ FailProtocol \/ FailContext
         \/ \E k \in {"host", "wedged"} : FailHost(k)
         \/ \E s \in {"succeeded", "unavailable", "failed", "skipped"} : Compacted(s)
  PROVE  RollInvariant' /\ DeadIsQuiet
<1>r. pending \in Reasons /\ Streak(streaks)
  BY StreaksAre DEF RollInvariant, RollTypeOK
<1>1. CASE TurnAnswered
  <2>1. Streak(streaks')
    BY <1>r, <1>1, StreakReset DEF TurnAnswered
  <2> QED
    BY <1>r, <1>1, <2>1, Kept DEF TurnAnswered, Over, DeadIsQuiet
<1>2. CASE FailBusy
  <2>1. Streak(streaks')
    BY <1>r, <1>2, StreakReset, StreakCapped DEF FailBusy, Streaks
  <2> QED
    BY <1>r, <1>2, <2>1, Kept DEF FailBusy, Over, DeadIsQuiet, OfCurrent, Reasons
<1>3. CASE FailPrior
  <2>1. PICK c : c = [Unbusy(streaks) EXCEPT !["prior"] = IF @ < PriorThreshold THEN @ + 1 ELSE @]
    OBVIOUS
  <2>2. Streak(Unbusy(streaks))
    BY <1>r, StreakReset
  <2>3. Streak(c)
    BY <2>1, <2>2, ThresholdAssumption DEF Streak, Streaks
  <2>4. Streak(streaks')
    BY <1>r, <1>3, <2>1, <2>3 DEF FailPrior
  <2> QED
    BY <1>r, <1>3, <2>4, Kept DEF FailPrior, Over, DeadIsQuiet, OfCurrent, Reasons
<1>4. CASE FailExecutor
  <2>1. Streak(streaks')
    BY <1>r, <1>4, StreakReset DEF FailExecutor
  <2> QED
    BY <1>r, <1>4, <2>1, Kept DEF FailExecutor, Over, DeadIsQuiet
<1>5. CASE FailProtocol
  <2>1. Streak(streaks')
    BY <1>r, <1>5, StreakReset, StreakCapped DEF FailProtocol, Streaks
  <2> QED
    BY <1>r, <1>5, <2>1, Kept DEF FailProtocol, Over, DeadIsQuiet, FreshOfCurrent, OfCurrent, Reasons
<1>6. CASE FailContext
  <2>1. Streak(Unbusy(Priorless(streaks)))
    BY <1>r, StreakReset
  <2>2. Streak(streaks')
    BY <1>6, <2>1, StreakCapped DEF FailContext, Streaks
  <2> QED
    BY <1>r, <1>6, <2>2, Kept DEF FailContext, DeadIsQuiet
<1>7. ASSUME NEW k \in {"host", "wedged"}, FailHost(k) PROVE RollInvariant' /\ DeadIsQuiet
  <2>1. Streak(streaks')
    BY <1>r, <1>7, StreakReset DEF FailHost
  <2> QED
    BY <1>r, <1>7, <2>1, Kept DEF FailHost, Over, DeadIsQuiet, OfCurrent, Reasons
<1>8. ASSUME NEW s \in {"succeeded", "unavailable", "failed", "skipped"}, Compacted(s)
      PROVE  RollInvariant' /\ DeadIsQuiet
  <2>1. FreshOfCurrent
    BY <1>8 DEF Compacted, RollInvariant, CompactsOwn
  <2> QED
    BY <1>r, <1>8, <2>1, Kept DEF Compacted, Over, DeadIsQuiet, FreshOfCurrent, OfCurrent, Reasons
<1> QED
  BY <1>1, <1>2, <1>3, <1>4, <1>5, <1>6, <1>7, <1>8

LEMMA BeginStep ==
  ASSUME RollInvariant, \/ \E b \in BOOLEAN : Begin(b) \/ ResumeTurn(b)
                        \/ \E k \in Stuck \ {"none"} : Sticks(k)
                        \/ Restart
  PROVE  RollInvariant' /\ DeadIsQuiet
<1>r. pending \in Reasons /\ Streak(streaks)
  BY StreaksAre DEF RollInvariant, RollTypeOK
<1>1. Streak(streaks')
  BY <1>r, StreakZero DEF Begin, ResumeTurn, Sticks, Restart
<1>2. DeadIsQuiet
  BY DEF DeadIsQuiet, Begin, ResumeTurn, Sticks, Restart
<1>3. pending' \in Reasons /\ phase' \in {"idle", "turn", "compact"} /\ stuck' \in Stuck
  BY <1>r DEF Begin, ResumeTurn, Sticks, Restart, Reasons, Same, Rotate, Stuck, RollInvariant, RollTypeOK
<1>e. epoch \in 0..MaxRolls /\ bound \in -1..epoch /\ MaxRolls \in Nat
  BY ThresholdAssumption DEF RollInvariant, RollTypeOK
<1>f. /\ epoch' = epoch \/ (epoch < MaxRolls /\ epoch' = epoch + 1)
      /\ bound' = epoch' \/ (epoch' = epoch /\ (bound' = bound \/ bound' = -1))
  BY DEF Begin, ResumeTurn, Sticks, Restart, Same, Rotate
<1>4. epoch' \in 0..MaxRolls /\ bound' \in -1..epoch'
  BY <1>e, <1>f
<1>7. replayed' \in BOOLEAN
  BY DEF Begin, ResumeTurn, Sticks, Restart, RollInvariant, RollTypeOK
<1>5. resumes' \in 0..MaxResume
  BY ThresholdAssumption DEF Begin, ResumeTurn, Sticks, Restart, RollInvariant, RollTypeOK
<1>6. CompactsOwn'
  BY DEF Begin, ResumeTurn, Sticks, Restart, CompactsOwn, RollInvariant, FreshOfCurrent, OfCurrent
<1> QED
  BY <1>1, <1>2, <1>3, <1>4, <1>5, <1>6, <1>7 DEF RollInvariant, RollTypeOK, Streak

LEMMA RollStepLemma == RollInvariant /\ [RollNext]_roll => RollInvariant' /\ [DeadIsQuiet]_roll
<1> SUFFICES ASSUME RollInvariant, [RollNext]_roll PROVE RollInvariant' /\ [DeadIsQuiet]_roll
  OBVIOUS
<1>1. CASE UNCHANGED roll
  BY <1>1 DEF roll, RollInvariant, RollTypeOK, CompactsOwn, FreshOfCurrent, OfCurrent
<1>2. CASE RollNext
  BY <1>2, OutcomeStep, BeginStep DEF RollNext
<1> QED
  BY <1>1, <1>2

LEMMA RollInvariantLemma == RollSpec => []RollInvariant
<1>1. RollInvariant /\ [RollNext]_roll => RollInvariant'
  BY RollStepLemma
<1> QED
  BY <1>1, RollInitLemma, PTL DEF RollSpec

(* The streaks, the pending roll and the dispatch under way stay in their  *)
(* ranges: a streak never passes its ceiling.                              *)
THEOREM RollTypeCorrect == RollSpec => []RollTypeOK
<1>1. RollInvariant => RollTypeOK
  BY DEF RollInvariant
<1> QED
  BY <1>1, RollInvariantLemma, PTL

(* Whatever is resumed, replayed, answered late or refused, and through any*)
(* restarts, the failure of a session the origin has left never arms a roll*)
(* of its successor, nor does a replayed batch's context or contract.      *)
THEOREM DeadNeverArmsAlways == RollSpec => DeadNeverArms
<1>1. RollInvariant /\ [RollNext]_roll => [DeadIsQuiet]_roll
  BY RollStepLemma
<1> QED
  BY <1>1, RollInvariantLemma, PTL DEF RollSpec, DeadNeverArms
=============================================================================

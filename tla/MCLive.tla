-------------------------------- MODULE MCLive --------------------------------
(***************************************************************************)
(* The background work of one gateway, one instance at a time, under the   *)
(* fairness its timers and promises have: journal compaction, a monitor    *)
(* event, a work attempt, a report and a checks cycle; and the restart     *)
(* hold of one and of two supervisors. Only one instance runs, so a        *)
(* fairness conjunct may speak of an action of each.                       *)
(***************************************************************************)
EXTENDS Naturals, RestartDrain

VARIABLES
  part,  (* the instance that runs *)
  rows, journal, next, clock, backs, up2, truth, stage, att, code, batch,
  age, lease, ptr, out, outbox, monitor, closing, burst, pc, evs, opOf,
  queue, sw, sess, turn, run, prompts, retries, notes, sent, spent, job,
  bound, told, host, reindex, prompt, word, busy2, gen, crashes, obs, lock,
  st, tk, rc, rep, quar, srec, took, want, dr, lane, cyc, late, made,
  local, remote, pr, ci, good, mine, doneAt, cycles, steers, reported,
  poll, stl, alive, deaths

others == <<rows, journal, next, clock, backs, up2, truth, stage, att,
            code, batch, age, lease, ptr, out, outbox, monitor, closing,
            burst, pc, evs, opOf, queue, sw, sess, turn, run, prompts,
            retries, notes, sent, spent, job, bound, told, host, reindex,
            prompt, word, busy2, gen, crashes, obs, lock, st, tk, rc, rep,
            quar, srec, took, want, dr, lane, cyc, late, made, local,
            remote, pr, ci, good, mine, doneAt, cycles, steers, reported,
            poll, stl, alive, deaths>>
all == <<part, vars, others>>

Journal == INSTANCE WorkJournal WITH
  Attempts <- {1}, LaneJobs <- {}, Outbox <- {2}, Hour <- 0, Month <- 1,
  Batch <- 1, MaxSeq <- 3, MaxClock <- 3, MaxStepBacks <- 0, up <- up2
Event == INSTANCE MonitorPipeline WITH
  N <- 1, Burst <- "serialize", Overlap <- "queue", HasTarget <- TRUE,
  MaxAttempts <- 1, MaxDispatch <- 2, MaxSession <- 1, MaxHands <- 0,
  MaxSuspend <- 1, MaxCrash <- 1
Lane == INSTANCE WorkLane WITH
  MaxAttempts <- 1, MaxSessions <- 1, MaxGen <- 0, MaxCrashes <- 1,
  MaxReads <- 1, Reindexing <- FALSE, busy <- busy2, up <- up2
Report == INSTANCE LaneReports WITH
  MaxReports <- 1, Rooted <- {1}, MaxAttempts <- 1, MaxClaims <- 2,
  MaxCrashes <- 1, Unreadable <- FALSE, up <- up2
Checks == INSTANCE WorkChecks WITH
  MaxHeads <- 2, MaxCycles <- 1, RetryLimit <- 0, MaxDeaths <- 1
Restarts == INSTANCE RestartDrain WITH
  Sup <- {1, 2}, Own <- 9, MaxBoot <- 2, MaxOwner <- 0, SupDies <- FALSE

(* The variables that are no component's own, at rest. *)
Still == rows = 0 /\ journal = 0 /\ next = 0 /\ clock = 0 /\ backs = 0 /\
         up2 = 0 /\ truth = 0 /\ stage = 0 /\ att = 0 /\ code = 0 /\
         batch = 0 /\ age = 0 /\ lease = 0 /\ ptr = 0 /\ out = 0 /\
         outbox = 0 /\ monitor = 0 /\ closing = 0 /\ burst = 0 /\ pc = 0 /\
         evs = 0 /\ opOf = 0 /\ queue = 0 /\ sw = 0 /\ sess = 0 /\
         turn = 0 /\ run = 0 /\ prompts = 0 /\ retries = 0 /\ notes = 0 /\
         sent = 0 /\ spent = 0 /\ job = 0 /\ bound = 0 /\ told = 0 /\
         host = 0 /\ reindex = 0 /\ prompt = 0 /\ word = 0 /\ busy2 = 0 /\
         gen = 0 /\ crashes = 0 /\ obs = 0 /\ lock = 0 /\ st = 0 /\
         tk = 0 /\ rc = 0 /\ rep = 0 /\ quar = 0 /\ srec = 0 /\ took = 0 /\
         want = 0 /\ dr = 0 /\ lane = 0 /\ cyc = 0 /\ late = 0 /\
         made = 0 /\ local = 0 /\ remote = 0 /\ pr = 0 /\ ci = 0 /\
         good = 0 /\ mine = 0 /\ doneAt = 0 /\ cycles = 0 /\ steers = 0 /\
         reported = 0 /\ poll = 0 /\ stl = 0 /\ alive = 0 /\ deaths = 0

LiveInit ==
  \/ part = "restart" /\ Init /\ Still
  \/ /\ part = "journal" /\ Journal!Init /\ Init
     /\ stage = 0 /\ att = 0 /\ code = 0 /\ batch = 0 /\ age = 0 /\
        lease = 0 /\ ptr = 0 /\ out = 0 /\ outbox = 0 /\ monitor = 0 /\
        closing = 0 /\ burst = 0 /\ pc = 0 /\ evs = 0 /\ opOf = 0 /\
        queue = 0 /\ sw = 0 /\ sess = 0 /\ turn = 0 /\ run = 0 /\
        prompts = 0 /\ retries = 0 /\ notes = 0 /\ sent = 0 /\ spent = 0 /\
        job = 0 /\ bound = 0 /\ told = 0 /\ host = 0 /\ reindex = 0 /\
        prompt = 0 /\ word = 0 /\ busy2 = 0 /\ gen = 0 /\ crashes = 0 /\
        obs = 0 /\ lock = 0 /\ st = 0 /\ tk = 0 /\ rc = 0 /\ rep = 0 /\
        quar = 0 /\ srec = 0 /\ took = 0 /\ want = 0 /\ dr = 0 /\
        lane = 0 /\ cyc = 0 /\ late = 0 /\ made = 0 /\ local = 0 /\
        remote = 0 /\ pr = 0 /\ ci = 0 /\ good = 0 /\ mine = 0 /\
        doneAt = 0 /\ cycles = 0 /\ steers = 0 /\ reported = 0 /\
        poll = 0 /\ stl = 0 /\ alive = 0 /\ deaths = 0
  \/ /\ part = "event" /\ Event!Init /\ Init
     /\ rows = 0 /\ journal = 0 /\ next = 0 /\ clock = 0 /\ backs = 0 /\
        up2 = 0 /\ truth = 0 /\ job = 0 /\ bound = 0 /\ told = 0 /\
        host = 0 /\ reindex = 0 /\ prompt = 0 /\ word = 0 /\ busy2 = 0 /\
        gen = 0 /\ crashes = 0 /\ obs = 0 /\ lock = 0 /\ st = 0 /\
        tk = 0 /\ rc = 0 /\ rep = 0 /\ quar = 0 /\ srec = 0 /\ took = 0 /\
        want = 0 /\ dr = 0 /\ lane = 0 /\ cyc = 0 /\ late = 0 /\
        made = 0 /\ local = 0 /\ remote = 0 /\ pr = 0 /\ ci = 0 /\
        good = 0 /\ mine = 0 /\ doneAt = 0 /\ cycles = 0 /\ steers = 0 /\
        reported = 0 /\ poll = 0 /\ stl = 0 /\ alive = 0 /\ deaths = 0
  \/ /\ part = "lane" /\ Lane!Init /\ Init
     /\ rows = 0 /\ journal = 0 /\ next = 0 /\ clock = 0 /\ backs = 0 /\
        truth = 0 /\ stage = 0 /\ code = 0 /\ batch = 0 /\ age = 0 /\
        lease = 0 /\ ptr = 0 /\ out = 0 /\ outbox = 0 /\ monitor = 0 /\
        closing = 0 /\ burst = 0 /\ pc = 0 /\ evs = 0 /\ opOf = 0 /\
        queue = 0 /\ sw = 0 /\ sess = 0 /\ turn = 0 /\ run = 0 /\
        prompts = 0 /\ retries = 0 /\ notes = 0 /\ sent = 0 /\ spent = 0 /\
        rep = 0 /\ quar = 0 /\ srec = 0 /\ took = 0 /\ want = 0 /\
        dr = 0 /\ lane = 0 /\ cyc = 0 /\ late = 0 /\ made = 0 /\
        local = 0 /\ remote = 0 /\ pr = 0 /\ ci = 0 /\ good = 0 /\
        mine = 0 /\ doneAt = 0 /\ cycles = 0 /\ steers = 0 /\
        reported = 0 /\ poll = 0 /\ stl = 0 /\ alive = 0 /\ deaths = 0
  \/ /\ part = "report" /\ Report!Init /\ Init
     /\ rows = 0 /\ journal = 0 /\ next = 0 /\ clock = 0 /\ backs = 0 /\
        truth = 0 /\ stage = 0 /\ code = 0 /\ batch = 0 /\ age = 0 /\
        lease = 0 /\ ptr = 0 /\ out = 0 /\ outbox = 0 /\ monitor = 0 /\
        closing = 0 /\ burst = 0 /\ pc = 0 /\ evs = 0 /\ opOf = 0 /\
        queue = 0 /\ sw = 0 /\ sess = 0 /\ turn = 0 /\ run = 0 /\
        prompts = 0 /\ retries = 0 /\ notes = 0 /\ sent = 0 /\ spent = 0 /\
        bound = 0 /\ reindex = 0 /\ prompt = 0 /\ word = 0 /\ busy2 = 0 /\
        gen = 0 /\ obs = 0 /\ lock = 0 /\ st = 0 /\ tk = 0 /\ rc = 0 /\
        lane = 0 /\ cyc = 0 /\ late = 0 /\ made = 0 /\ local = 0 /\
        remote = 0 /\ pr = 0 /\ ci = 0 /\ good = 0 /\ mine = 0 /\
        doneAt = 0 /\ cycles = 0 /\ steers = 0 /\ reported = 0 /\
        poll = 0 /\ stl = 0 /\ alive = 0 /\ deaths = 0
  \/ /\ part = "checks" /\ Checks!ChecksInit /\ Init
     /\ rows = 0 /\ journal = 0 /\ next = 0 /\ clock = 0 /\ backs = 0 /\
        up2 = 0 /\ truth = 0 /\ stage = 0 /\ att = 0 /\ code = 0 /\
        batch = 0 /\ age = 0 /\ lease = 0 /\ ptr = 0 /\ out = 0 /\
        outbox = 0 /\ monitor = 0 /\ closing = 0 /\ burst = 0 /\ pc = 0 /\
        evs = 0 /\ opOf = 0 /\ queue = 0 /\ sw = 0 /\ sess = 0 /\
        turn = 0 /\ prompts = 0 /\ retries = 0 /\ notes = 0 /\ sent = 0 /\
        spent = 0 /\ job = 0 /\ bound = 0 /\ told = 0 /\ host = 0 /\
        reindex = 0 /\ prompt = 0 /\ word = 0 /\ busy2 = 0 /\ gen = 0 /\
        crashes = 0 /\ obs = 0 /\ lock = 0 /\ st = 0 /\ tk = 0 /\ rc = 0 /\
        rep = 0 /\ quar = 0 /\ srec = 0 /\ took = 0 /\ want = 0 /\ dr = 0
  \/ part = "restarts" /\ Restarts!Init /\ Still

OwnRuns == part = "restart" /\ UNCHANGED <<part, others>>
JournalRuns ==
  part = "journal" /\ UNCHANGED <<part, vars, stage, att, code, batch, age, lease, ptr, out, outbox,
      monitor, closing, burst, pc, evs, opOf, queue, sw, sess, turn, run,
      prompts, retries, notes, sent, spent, job, bound, told, host,
      reindex, prompt, word, busy2, gen, crashes, obs, lock, st, tk, rc,
      rep, quar, srec, took, want, dr, lane, cyc, late, made, local,
      remote, pr, ci, good, mine, doneAt, cycles, steers, reported, poll,
      stl, alive, deaths>>
EventRuns ==
  part = "event" /\ UNCHANGED <<part, vars, rows, journal, next, clock, backs, up2, truth, job,
      bound, told, host, reindex, prompt, word, busy2, gen, crashes, obs,
      lock, st, tk, rc, rep, quar, srec, took, want, dr, lane, cyc, late,
      made, local, remote, pr, ci, good, mine, doneAt, cycles, steers,
      reported, poll, stl, alive, deaths>>
LaneRuns ==
  part = "lane" /\ UNCHANGED <<part, vars, rows, journal, next, clock, backs, truth, stage, code,
      batch, age, lease, ptr, out, outbox, monitor, closing, burst, pc,
      evs, opOf, queue, sw, sess, turn, run, prompts, retries, notes, sent,
      spent, rep, quar, srec, took, want, dr, lane, cyc, late, made, local,
      remote, pr, ci, good, mine, doneAt, cycles, steers, reported, poll,
      stl, alive, deaths>>
ReportRuns ==
  part = "report" /\ UNCHANGED <<part, vars, rows, journal, next, clock, backs, truth, stage, code,
      batch, age, lease, ptr, out, outbox, monitor, closing, burst, pc,
      evs, opOf, queue, sw, sess, turn, run, prompts, retries, notes, sent,
      spent, bound, reindex, prompt, word, busy2, gen, obs, lock, st, tk,
      rc, lane, cyc, late, made, local, remote, pr, ci, good, mine, doneAt,
      cycles, steers, reported, poll, stl, alive, deaths>>
ChecksRuns ==
  part = "checks" /\ UNCHANGED <<part, vars, rows, journal, next, clock, backs, up2, truth, stage,
      att, code, batch, age, lease, ptr, out, outbox, monitor, closing,
      burst, pc, evs, opOf, queue, sw, sess, turn, prompts, retries, notes,
      sent, spent, job, bound, told, host, reindex, prompt, word, busy2,
      gen, crashes, obs, lock, st, tk, rc, rep, quar, srec, took, want, dr>>
RestartsRuns == part = "restarts" /\ UNCHANGED <<part, others>>

LiveNext ==
  \/ OwnRuns /\ Next
  \/ JournalRuns /\ Journal!Next
  \/ EventRuns /\ Event!Next
  \/ LaneRuns /\ Lane!Next
  \/ ReportRuns /\ Report!Next
  \/ ChecksRuns /\ Checks!ChecksNext
  \/ RestartsRuns /\ Restarts!Next

(* Timers, promises and the service manager go on: a process that is down  *)
(* comes back, a sweep, dispatch, drain or poll that is due runs, an await *)
(* returns, turns and prompts end, an adapter settles what it was sent,    *)
(* leases run out and the hour passes. Nothing is assumed of GitHub.       *)
WeakFairness ==
  /\ WF_all(\/ JournalRuns /\ Journal!Boot
            \/ EventRuns /\ closing /\ Event!Crash
            \/ LaneRuns /\ Lane!Restart
            \/ ReportRuns /\ (Report!Restart \/ Report!Recovers)
            \/ ChecksRuns /\ Checks!GatewayStarts)
  /\ WF_all(\/ JournalRuns /\ Journal!Tick
            \/ EventRuns /\ Event!Sweep
            \/ LaneRuns /\ (Lane!Prepare \/ Lane!FenceOrSend)
            \/ ReportRuns /\ Report!Drain
            \/ ChecksRuns /\ Checks!Poll)
  /\ WF_all(\/ EventRuns /\ Event!BurstTimer
            \/ LaneRuns /\ \E w \in {"ok", "failed", "missing", "deadline"} : Lane!TurnEnds(1, w)
            \/ ReportRuns /\ Report!HostSteer(1)
            \/ ChecksRuns /\ Checks!HourPasses)
  /\ WF_all(\/ EventRuns /\ Event!Age(1)
            \/ LaneRuns /\ \E to \in {"accepted", "rejected", "error"} : Lane!SendReturns(to)
            \/ ReportRuns /\ (Report!HostPrompt(1) \/ Report!TurnEnds(1)
                               \/ Report!AttemptAccepted(1) \/ Report!AttemptObserved(1))
            \/ ChecksRuns /\ Checks!AttemptEnds)
  /\ WF_all(\/ EventRuns /\ Event!LeaseExpires(1)
            \/ LaneRuns /\ Lane!SendResolved
            \/ ChecksRuns /\ Checks!Settlement)
  /\ WF_all(\/ EventRuns /\ Event!Work(1)
            \/ LaneRuns /\ \E c \in BOOLEAN : Lane!RetireCloses(c))
  /\ WF_all(\/ EventRuns /\ Event!Work(2)
            \/ LaneRuns /\ Lane!ForceCloses)
  /\ WF_all(\/ EventRuns /\ Event!Fail(1, "other")
            \/ LaneRuns /\ Lane!RecoverAsks(1))
  /\ WF_all(\/ EventRuns /\ Event!Fail(2, "other")
            \/ LaneRuns /\ Lane!TickApplies)
  /\ WF_all(\/ EventRuns /\ (Event!Confirm(1) \/ Event!Expire(1))
            \/ LaneRuns /\ Lane!DeadProof)
  /\ WF_all(\/ EventRuns /\ (Event!Confirm(2) \/ Event!Expire(2))
            \/ LaneRuns /\ \E idle \in BOOLEAN : Lane!IdleProof(idle))
  /\ WF_all(\/ EventRuns /\ \E how \in {"ok", "gone", "failed", "lost"} : Event!RunEnds(1, how)
            \/ LaneRuns /\ \E f \in {"available", "silent", "unavailable", "absent"} : Lane!ReadReturns(f))
  /\ WF_all(\/ EventRuns /\ \E how \in {"ok", "gone", "failed", "lost"} : Event!RunEnds(2, how)
            \/ LaneRuns /\ Lane!SettleCommits)
  /\ WF_all(LaneRuns /\ Lane!RecoverApplies)
  /\ WF_all(LaneRuns /\ Lane!RecoverRefusal)
  /\ WF_all(LaneRuns /\ \E live \in {"live", "dead", "disowned", "unknown"} : Lane!RecoverDecides(live))

(* What is tried again and again succeeds: a sweep between two writes, a   *)
(* binding, a reading, a status query that is answered truthfully, a lock, *)
(* a wake that is prepared.                                                *)
StrongFairness ==
  /\ SF_all(\/ JournalRuns /\ Journal!Sweep({})
            \/ EventRuns /\ \E d \in 1..2 : Event!Bound(d)
            \/ LaneRuns /\ Lane!TickAsks(1, Lane!Truth(1))
            \/ ReportRuns /\ Report!WakePrepared)
  /\ SF_all(\/ EventRuns /\ \E d \in 1..2, k \in Event!Kinds : Event!AnswerGood(d, [e \in {1} |-> k])
            \/ LaneRuns /\ Lane!ReadClaims(1)
            \/ ReportRuns /\ Report!SteerAnswered)
  /\ SF_all(\/ LaneRuns /\ Lane!SettleBegins(1)
            \/ ReportRuns /\ Report!AttemptSettles(1))
  /\ SF_all(LaneRuns /\ Lane!IdleProof(TRUE))
  /\ SF_all(LaneRuns /\ Lane!SettleEnters)

(* The broker may leave calls unanswered, and deny a verdict it gave, but  *)
(* not for ever.                                                           *)
LiveSpec ==
  /\ LiveInit /\ [][LiveNext]_all /\ WeakFairness /\ StrongFairness
  /\ <>[](part = "lane" => Lane!Answered)

(* With a clock that only advances, what the sweep may delete is deleted   *)
(* in the end: no row is out of reach of the seq bound or starved by the   *)
(* batch budget the two statements share. Every fired event ends, through  *)
(* failures, crashes, lost leases and turns whose status stays unknown; an *)
(* orphaned note is where it does not.                                     *)
Sweepable == part = "journal" /\ Journal!HistoryEligible(journal) \cup Journal!UpdateEligible(journal) # {}
EventOpen ==
  /\ part = "event" /\ ~Event!Orphaned(1)
  /\ stage[1] \in Event!InFlight \cup {"authored"}
EveryEventEnds == Sweepable \/ EventOpen ~> ~(Sweepable \/ EventOpen)

(* Once the host has taken an attempt's prompt, the attempt is settled: no *)
(* lost answer, generation change or restart leaves it open for ever. A    *)
(* pending report is steered, wakes its parent or falls back, also when    *)
(* its wake could not be prepared or a steer replayed after its attempt    *)
(* ended was refused (MaxClaims bounds how often that happens). And every  *)
(* checks cycle ends, also when GitHub never answers again.                *)
AttemptOpen == part = "lane" /\ prompt[1] \in {"running", "over"} /\ att[1].st # "settled"
ReportPending == part = "report" /\ rep[1].st = "pending" /\ rep[1].seq # 2
CycleOpen == part = "checks" /\ cyc.on
WorkOpen == AttemptOpen \/ ReportPending \/ CycleOpen
WorkEnds == WorkOpen ~> ~WorkOpen
=============================================================================

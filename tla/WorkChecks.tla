----------------------------- MODULE WorkChecks -----------------------------
(***************************************************************************)
(* The checks cycle of a work lane: a completed attempt with an open pull  *)
(* request parks the lane in awaiting_checks; the poll settles it done     *)
(* when the checks of the recorded head are green or the PR merged,        *)
(* re-steers it a bounded number of times when they are red, and ends the  *)
(* wait when the head moved, the PR closed or an hour passed.              *)
(*                                                                         *)
(* The worktree, the remote branch, the PR and its checks move while the   *)
(* facts are read: git in one step, the PR in the next, the lane's lock in *)
(* a third.  Heads are numbered; the attempt itself is WorkLane's.         *)
(***************************************************************************)
EXTENDS Naturals, FiniteSets

CONSTANTS
    MaxHeads,    \* commits ever made on the lane's branch
    MaxCycles,   \* checks cycles of the lane
    RetryLimit,  \* AWAITING_CHECKS_RETRY_LIMIT
    MaxDeaths    \* gateway crashes

ASSUME WorkChecksAssumption ==
    /\ {MaxHeads, MaxCycles} \subseteq Nat \ {0}
    /\ {RetryLimit, MaxDeaths} \subseteq Nat

Head  == 1..MaxHeads
Cycle == 1..MaxCycles

VARIABLES
    lane,     \* the lane job's state
    cyc,      \* its awaitingChecks record
    late,     \* the hour since the cycle began has passed
    run,      \* the open attempt: none, working, completed, other
    made,     \* external: commits made so far
    local,    \* external: HEAD of the worktree
    remote,   \* external: head of the pushed branch, 0 before a push
    pr,       \* external: the pull request
    ci,       \* external: the check rollup of each head
    good,     \* history: heads that were green or merged
    mine,     \* history: the last head an attempt pushed
    doneAt,   \* history: the head on which the lane was found done
    cycles,   \* history: cycles begun
    steers,   \* history: attempts re-steered, per cycle
    reported, \* history: outcomes reported, per cycle
    poll,     \* the poll of the lane
    stl,      \* the settlement of the attempt
    alive, deaths

surroundings == <<made, local, remote, pr, ci>>
checks == <<lane, cyc, late, run, surroundings, good, mine, doneAt, cycles, steers, reported, poll, stl, alive,
            deaths>>

NoCycle == [on |-> FALSE, id |-> 0, pr |-> FALSE, head |-> 0, retries |-> 0]

(* collectRepoFacts: git says nothing, or the local head and, when the probe *)
(* of the remote answered, its head (0: no such branch); pr is none when no  *)
(* PR has the head, unknown when the lookup failed.                          *)
NoFacts == [git |-> FALSE, local |-> 0, known |-> FALSE, remote |-> 0,
            pr |-> [st |-> "unknown", head |-> 0, ci |-> "none"]]

NoPoll   == [pc |-> "idle", cyc |-> NoCycle, facts |-> NoFacts]
NoSettle == [pc |-> "idle", facts |-> NoFacts]

(* runGit and remoteBranchSha *)
GitReads ==
    {NoFacts, [NoFacts EXCEPT !.git = TRUE, !.local = local],
     [NoFacts EXCEPT !.git = TRUE, !.local = local, !.known = TRUE, !.remote = remote]}

Pushed(facts)    == facts.known /\ facts.remote = facts.local
NotPushed(facts) == facts.known /\ facts.remote # facts.local

(* getCheckStatus: by number once the cycle knows the PR, else by exact head. *)
ChecksRead(known, head) ==
    IF pr.st # "none" /\ (known \/ pr.head = head)
    THEN {[st |-> pr.st, head |-> pr.head, ci |-> ci[pr.head]], NoFacts.pr}
    ELSE {[st |-> "none", head |-> 0, ci |-> "none"], NoFacts.pr}

Seen(facts) == facts.pr.st \notin {"none", "unknown"}

TimeoutOrWait == IF late THEN "ended" ELSE "wait"

(* The worktree or the remote branch is past the head the cycle waits on. *)
HeadMoved(c, facts) ==
    facts.git /\ (facts.local # c.head \/ facts.remote \notin {0, c.head})

HeadPublished(c, facts) ==
    \/ Pushed(facts) /\ facts.remote = c.head
    \/ Seen(facts) /\ facts.pr.head = c.head

(* What checks that concern the cycle's head say; green and red are final. *)
Verdict(facts) ==
    IF facts.pr.ci = "green" THEN "passed" ELSE IF facts.pr.ci = "red" THEN "red" ELSE TimeoutOrWait

(* Mutant of Outcome: any green rollup of the PR passes. *)
OutcomeAnyHead(c, facts) ==
    IF Seen(facts) /\ facts.pr.ci = "green" THEN "passed"
    ELSE IF Seen(facts) /\ facts.pr.ci = "red" THEN "red" ELSE TimeoutOrWait

(* Mutant of Outcome: a lookup that fails keeps the lane waiting. *)
OutcomeNeverLate(c, facts) ==
    IF ~Seen(facts) THEN "wait" ELSE Verdict(facts)

(* checksOutcome *)
Outcome(c, facts) ==
    IF facts.pr.st = "merged" /\ facts.pr.head = c.head THEN "passed"
    ELSE IF HeadMoved(c, facts) THEN "ended"
    ELSE IF ~Seen(facts) THEN TimeoutOrWait
    ELSE IF facts.pr.st \in {"closed", "merged"} THEN "ended"
    ELSE IF facts.pr.head # c.head \/ ~HeadPublished(c, facts) THEN TimeoutOrWait
    ELSE Verdict(facts)

-----------------------------------------------------------------------------
ChecksInit ==
    /\ lane = "attempt_ended" /\ cyc = NoCycle /\ late = FALSE /\ run = "none"
    /\ made = 1 /\ local = 1 /\ remote = 0
    /\ pr = [st |-> "none", head |-> 0]
    /\ ci = [h \in Head |-> "none"]
    /\ good = {} /\ mine = 0 /\ doneAt = 0 /\ cycles = 0
    /\ steers = [c \in Cycle |-> 0] /\ reported = [c \in Cycle |-> 0]
    /\ poll = NoPoll /\ stl = NoSettle /\ alive = TRUE /\ deaths = 0

history == <<good, mine, doneAt, cycles, steers, reported>>
runners == <<poll, stl, alive, deaths>>

-----------------------------------------------------------------------------
(* The world: an attempt commits and pushes, people push, merge and close,   *)
(* checks conclude and are run again.                                        *)

Commits ==
    /\ run = "working" /\ made < MaxHeads
    /\ made' = made + 1 /\ local' = made + 1
    /\ UNCHANGED <<lane, cyc, late, run, remote, pr, ci, history, runners>>

Pushes ==
    /\ run = "working" /\ remote # local /\ pr.st \in {"none", "open"}
    /\ remote' = local /\ mine' = local
    /\ pr' = [st |-> "open", head |-> local]
    /\ ci' = [ci EXCEPT ![local] = "pending"]
    /\ UNCHANGED <<lane, cyc, late, run, made, local, good, doneAt, cycles, steers, reported, runners>>

(* Someone else pushes to the branch of the open PR. *)
OthersPush ==
    /\ pr.st = "open" /\ made < MaxHeads
    /\ made' = made + 1 /\ remote' = made + 1
    /\ pr' = [pr EXCEPT !.head = made + 1]
    /\ ci' = [ci EXCEPT ![made + 1] = "pending"]
    /\ UNCHANGED <<lane, cyc, late, run, local, history, runners>>

ChecksConclude ==
    /\ pr.st = "open" /\ ci[pr.head] = "pending"
    /\ \E verdict \in {"green", "red"} :
          /\ ci' = [ci EXCEPT ![pr.head] = verdict]
          /\ good' = IF verdict = "green" THEN good \cup {pr.head} ELSE good
    /\ UNCHANGED <<lane, cyc, late, run, made, local, remote, pr, mine, doneAt, cycles, steers, reported, runners>>

ChecksRerun ==
    /\ pr.st = "open" /\ ci[pr.head] = "red"
    /\ ci' = [ci EXCEPT ![pr.head] = "pending"]
    /\ UNCHANGED <<lane, cyc, late, run, made, local, remote, pr, history, runners>>

PrCloses ==
    /\ pr.st = "open"
    /\ \E how \in {"closed", "merged"} :
          /\ pr' = [pr EXCEPT !.st = how]
          /\ good' = IF how = "merged" THEN good \cup {pr.head} ELSE good
    /\ UNCHANGED <<lane, cyc, late, run, made, local, remote, ci, mine, doneAt, cycles, steers, reported, runners>>

HourPasses ==
    /\ cyc.on /\ ~late
    /\ late' = TRUE
    /\ UNCHANGED <<lane, cyc, run, surroundings, history, runners>>

(* The execution of the attempt ends. *)
AttemptEnds ==
    /\ run = "working"
    /\ run' \in {"completed", "other"}
    /\ UNCHANGED <<lane, cyc, late, surroundings, history, runners>>

-----------------------------------------------------------------------------
LockFree == alive /\ poll.pc # "resteer"

(* A start, or the resume of a held lane. *)
Starts ==
    /\ LockFree /\ lane \in {"attempt_ended", "awaiting_operator"} /\ run = "none" /\ cycles < MaxCycles
    /\ lane' = "running" /\ run' = "working"
    /\ UNCHANGED <<cyc, late, surroundings, history, runners>>

SettleReadsGit ==
    /\ alive /\ stl.pc = "idle" /\ run \in {"completed", "other"}
    /\ \E facts \in GitReads : stl' = [pc |-> "checks", facts |-> facts]
    /\ UNCHANGED <<lane, cyc, late, run, surroundings, history, poll, alive, deaths>>

SettleReadsChecks ==
    /\ alive /\ stl.pc = "checks"
    /\ LET f == stl.facts
       IN  \E seen \in IF f.git THEN ChecksRead(FALSE, IF f.remote = 0 THEN f.local ELSE f.remote)
                       ELSE {NoFacts.pr} :
             stl' = [pc |-> "apply", facts |-> [f EXCEPT !.pr = seen]]
    /\ UNCHANGED <<lane, cyc, late, run, surroundings, history, poll, alive, deaths>>

(* A cycle the completed attempt begins: its PR found, or its lookup failed. *)
BeginsCycle(f) == f.git /\ (Seen(f) \/ (f.pr.st = "unknown" /\ ~NotPushed(f))) /\ cycles < MaxCycles

(* transitionToAwaitingChecks: the retries spent and the hour carry over. *)
CycleAfter(f) ==
    IF cyc.on
    THEN [cyc EXCEPT !.pr = @ \/ (Seen(f) /\ ~NotPushed(f)),
                     !.head = IF Pushed(f) THEN f.local ELSE @]
    ELSE IF BeginsCycle(f)
    THEN [on |-> TRUE, id |-> cycles + 1, pr |-> Seen(f), head |-> f.local, retries |-> 0]
    ELSE NoCycle

GreenAlready(c, f) ==
    c.on /\ f.pr.st \in {"open", "merged"} /\ f.pr.ci = "green" /\ f.git /\ f.pr.head = f.local

(* #settle: the attempt closes, and its checks cycle begins, goes on or ends. *)
Settles ==
    /\ LockFree /\ stl.pc = "apply"
    /\ LET f == stl.facts
           c == CycleAfter(f)
       IN  \/ /\ run = "completed" /\ c.on /\ ~GreenAlready(c, f)
              /\ lane' = "awaiting_checks" /\ cyc' = c /\ UNCHANGED doneAt
           \/ /\ run = "completed" /\ GreenAlready(c, f)
              /\ lane' = "done" /\ cyc' = NoCycle /\ doneAt' = f.local
           \/ /\ run = "completed" /\ ~c.on
              /\ lane' = "attempt_ended" /\ cyc' = NoCycle /\ UNCHANGED doneAt
           \/ /\ run = "other"
              /\ lane' \in {"attempt_ended", "awaiting_operator"} /\ cyc' = NoCycle /\ UNCHANGED doneAt
    /\ cycles' = IF run = "completed" /\ ~cyc.on /\ CycleAfter(stl.facts).on THEN cycles + 1 ELSE cycles
    /\ late' = (late /\ cyc'.on /\ cyc.on)
    /\ run' = "none" /\ stl' = NoSettle
    /\ UNCHANGED <<surroundings, good, mine, steers, reported, poll, alive, deaths>>

-----------------------------------------------------------------------------
(* The poll.                                                               *)

PollBegins ==
    /\ alive /\ poll.pc = "idle" /\ lane = "awaiting_checks" /\ cyc.on
    /\ poll' = [NoPoll EXCEPT !.pc = "git", !.cyc = cyc]
    /\ UNCHANGED <<lane, cyc, late, run, surroundings, history, stl, alive, deaths>>

PollReadsGit ==
    /\ alive /\ poll.pc = "git"
    /\ \E facts \in GitReads : poll' = [poll EXCEPT !.pc = "checks", !.facts = facts]
    /\ UNCHANGED <<lane, cyc, late, run, surroundings, history, stl, alive, deaths>>

PollReadsChecks ==
    /\ alive /\ poll.pc = "checks"
    /\ \E seen \in IF poll.facts.git THEN ChecksRead(poll.cyc.pr, poll.cyc.head) ELSE {NoFacts.pr} :
          poll' = [poll EXCEPT !.pc = "apply", !.facts = [@ EXCEPT !.pr = seen]]
    /\ UNCHANGED <<lane, cyc, late, run, surroundings, history, stl, alive, deaths>>

(* The cycle as the poll applies it: the PR it discovered is recorded first. *)
Active == [cyc EXCEPT !.pr = @ \/ Seen(poll.facts)]

(* The job has not moved on while the checks were read. *)
StillTheCycle == lane = "awaiting_checks" /\ cyc = poll.cyc

PollMovedOn ==
    /\ LockFree /\ poll.pc = "apply" /\ ~StillTheCycle
    /\ poll' = NoPoll
    /\ UNCHANGED <<lane, cyc, late, run, surroundings, history, stl, alive, deaths>>

PollWaits ==
    /\ LockFree /\ poll.pc = "apply" /\ StillTheCycle /\ Outcome(Active, poll.facts) = "wait"
    /\ cyc' = Active /\ poll' = NoPoll
    /\ UNCHANGED <<lane, late, run, surroundings, history, stl, alive, deaths>>

(* Mutant of PollCountsRetry: the retry is not counted before the start. *)
PollCountsNothing ==
    /\ LockFree /\ poll.pc = "apply" /\ StillTheCycle
    /\ Outcome(Active, poll.facts) = "red" /\ cyc.retries < RetryLimit
    /\ cyc' = Active
    /\ poll' = [poll EXCEPT !.pc = "resteer"]
    /\ UNCHANGED <<lane, late, run, surroundings, history, stl, alive, deaths>>

(* #resteerRedChecks spends the retry durably, then starts an attempt. *)
PollCountsRetry ==
    /\ LockFree /\ poll.pc = "apply" /\ StillTheCycle
    /\ Outcome(Active, poll.facts) = "red" /\ cyc.retries < RetryLimit
    /\ cyc' = [Active EXCEPT !.retries = @ + 1]
    /\ poll' = [poll EXCEPT !.pc = "resteer"]
    /\ UNCHANGED <<lane, late, run, surroundings, history, stl, alive, deaths>>

Resteers ==
    /\ alive /\ poll.pc = "resteer"
    /\ \/ /\ lane' = "running" /\ run' = "working"
          /\ steers' = [steers EXCEPT ![cyc.id] = @ + 1]
       \/ UNCHANGED <<lane, run, steers>>
    /\ poll' = NoPoll
    /\ UNCHANGED <<cyc, late, surroundings, good, mine, doneAt, cycles, reported, stl, alive, deaths>>

(* settleAwaitingChecks and its report, in one transaction. *)
Concludes(state) ==
    /\ lane' = state /\ cyc' = NoCycle /\ late' = FALSE
    /\ reported' = [reported EXCEPT ![cyc.id] = @ + 1]

(* #settleChecks: green, merged, red with the budget spent, or an ended wait. *)
PollSettles ==
    /\ LockFree /\ poll.pc = "apply" /\ StillTheCycle
    /\ LET verdict == Outcome(Active, poll.facts)
       IN  \/ verdict = "passed" /\ Concludes("done") /\ doneAt' = cyc.head
           \/ verdict = "red" /\ cyc.retries >= RetryLimit /\ Concludes("awaiting_operator") /\ UNCHANGED doneAt
           \/ verdict = "ended" /\ Concludes("attempt_ended") /\ UNCHANGED doneAt
    /\ poll' = NoPoll
    /\ UNCHANGED <<run, surroundings, good, mine, cycles, steers, stl, alive, deaths>>

(* settleForceRetiredAttempt on a lane that only waits for its checks. *)
Retires ==
    /\ LockFree /\ lane = "awaiting_checks" /\ run = "none"
    /\ Concludes("attempt_ended")
    /\ UNCHANGED <<run, surroundings, good, mine, doneAt, cycles, steers, runners>>

GatewayDies ==
    /\ alive /\ deaths < MaxDeaths
    /\ alive' = FALSE /\ deaths' = deaths + 1 /\ poll' = NoPoll /\ stl' = NoSettle
    /\ UNCHANGED <<lane, cyc, late, run, surroundings, history>>

GatewayStarts ==
    /\ ~alive /\ alive' = TRUE
    /\ UNCHANGED <<lane, cyc, late, run, surroundings, history, poll, stl, deaths>>

Poll ==
    PollBegins \/ PollReadsGit \/ PollReadsChecks \/ PollMovedOn \/ PollWaits \/ PollCountsRetry
    \/ Resteers \/ PollSettles

Settlement == SettleReadsGit \/ SettleReadsChecks \/ Settles

Surroundings == Commits \/ Pushes \/ OthersPush \/ ChecksConclude \/ ChecksRerun \/ PrCloses

ChecksNext ==
    Surroundings \/ HourPasses \/ AttemptEnds \/ Starts \/ Settlement \/ Poll \/ Retires \/ GatewayDies
    \/ GatewayStarts

ChecksSpec == ChecksInit /\ [][ChecksNext]_checks

-----------------------------------------------------------------------------
ChecksTypeOK ==
    /\ lane \in {"attempt_ended", "running", "awaiting_operator", "awaiting_checks", "done"}
    /\ cyc \in [on : BOOLEAN, id : 0..MaxCycles, pr : BOOLEAN, head : 0..MaxHeads, retries : 0..RetryLimit]
    /\ run \in {"none", "working", "completed", "other"}
    /\ lane = "running" <=> run # "none"
    /\ lane = "awaiting_checks" => cyc.on
    /\ cyc.on => lane \in {"awaiting_checks", "running"}
    /\ poll.pc \in {"idle", "git", "checks", "apply", "resteer"}

(* A lane is done on the head its last push left, and only when the checks   *)
(* of that very head were green or the PR merged it: facts read before a     *)
(* push, a re-run or a re-steer do not finish the lane on another head.      *)
GreenHead == lane = "done" => doneAt \in good /\ doneAt = mine

(* A checks cycle re-steers at most the retry limit, across crashes between  *)
(* the count and the start and across the attempts it re-steers.             *)
ResteersBounded == \A c \in Cycle : steers[c] <= RetryLimit

(* The outcome of a cycle is reported once, whether the poll or a forced     *)
(* retirement concludes it.                                                  *)
ConcludedOnce == \A c \in Cycle : reported[c] <= 1

(* A lane is done on the head its last push left, and only when the checks   *)
(* of that very head were green or the PR merged it. A cycle ends once and   *)
(* re-steers at most the retry limit.                                        *)
DoneIsGreen == GreenHead /\ ConcludedOnce /\ ResteersBounded
=============================================================================

---------------------------- MODULE LaneReports ----------------------------
(***************************************************************************)
(* The report inbox of one parent lane: each settled child leaves a row in *)
(* lane_reports, and a drain of the rows, under the parent's lane lock,    *)
(* steers them into the parent's open attempt, wakes a new attempt, or     *)
(* falls back to the human at the root (WorkLane.#drainLaneReports).  The  *)
(* parent's attempts are WorkLane's, reduced here to what the inbox reads: *)
(* open or not, accepted or not, settled with which job state.             *)
(*                                                                         *)
(* A request on the wire outlives the drain that sent it and the gateway.  *)
(***************************************************************************)
EXTENDS Naturals, Sequences, FiniteSets, FiniteSetsExt

CONSTANTS
    MaxReports,    \* children that settle, in the order of their numbers
    Rooted,        \* the reports with a human root to fall back to
    MaxAttempts,   \* attempts of the parent
    MaxClaims,     \* claims of one report
    MaxCrashes,    \* gateway crashes
    Unreadable     \* whether a restart may find a parent attempt row invalid

LaneReportsAssumption ==
    /\ {MaxReports, MaxAttempts, MaxClaims} \subseteq Nat \ {0}
    /\ MaxCrashes \in Nat /\ Unreadable \in BOOLEAN
    /\ Rooted \subseteq 1..MaxReports

Report  == 1..MaxReports
Attempt == 1..MaxAttempts

VARIABLES
    rep,      \* the lane_reports rows
    job,      \* the parent job's state
    quar,     \* the parent is quarantined
    att,      \* the parent's attempt rows
    told,     \* fallback deliveries of each report
    host,     \* external: where each attempt's prompt is
    srec,     \* external: what became of each steer's clientRef
    took,     \* external: how often a turn of the parent took each report
    up, crashes,
    want,     \* a drain is queued behind the lane's lock
    dr        \* the drain that holds it

durable == <<rep, job, quar, att, told>>
world   == <<host, srec, took>>
vars    == <<durable, world, up, crashes, want, dr>>

Row == [st |-> "none", kind |-> "none", seq |-> 0, target |-> 0]

NoAttempt == [st |-> "none", wake |-> 0, seq |-> 0, acc |-> FALSE, term |-> "none", bad |-> FALSE]

NoDrain == [pc |-> "idle", todo |-> <<>>, job |-> "none", open |-> 0]

JobStates == {"attempt_ended", "running", "awaiting_operator", "awaiting_checks", "done", "aborted"}

Done == {"consumed", "fallback", "undeliverable"}

(* laneParentAvailable: the admission's test. *)
ParentAvailable == ~quar /\ job \in {"attempt_ended", "running"}

Opened == {a \in Attempt : att[a].st = "open"}

OpenAttempt == IF Opened = {} THEN 0 ELSE Max(Opened)

NextAttempt == 1 + Cardinality({a \in Attempt : att[a].st # "none"})

(* #attemptByOpRef of a wake's deterministic opRef; an invalid row reads as none. *)
WakeAttempt(r, seq) == {a \in Attempt : att[a].wake = r /\ att[a].seq = seq /\ ~att[a].bad}

(* laneReportConsume *)
Consumed(f, r, kind, seq) ==
    IF f[r].st \in {"claimed", "held"} /\ f[r].kind = kind /\ f[r].seq = seq
    THEN [f EXCEPT ![r].st = "consumed"] ELSE f

(* laneReportRequeue *)
Requeued(f, r, kind, seq) ==
    IF f[r].st \in {"claimed", "held"} /\ f[r].kind = kind /\ f[r].seq = seq
    THEN [f EXCEPT ![r] = [@ EXCEPT !.st = "pending", !.kind = "none", !.target = 0]] ELSE f

(* laneReportHold *)
HeldRow(f, r) == IF f[r].st = "claimed" THEN [f EXCEPT ![r].st = "held"] ELSE f

(* laneReportClaim *)
Claimed(f, r, kind, target) ==
    [f EXCEPT ![r] = [st |-> "claimed", kind |-> kind, seq |-> @.seq + 1, target |-> target]]

(* #fallbackLaneReport: the row, then the delivery, in one transaction. *)
FallenRow(f, r) ==
    IF f[r].st # "pending" THEN f
    ELSE [f EXCEPT ![r].st = IF r \in Rooted THEN "fallback" ELSE "undeliverable"]

Deliveries(f, r) == IF f[r].st = "pending" /\ r \in Rooted THEN [told EXCEPT ![r] = @ + 1] ELSE told

Falls(f, r) == rep' = FallenRow(f, r) /\ told' = Deliveries(f, r)

-----------------------------------------------------------------------------
Init ==
    /\ rep = [r \in Report |-> Row]
    /\ job = "attempt_ended" /\ quar = FALSE
    /\ att = [a \in Attempt |-> NoAttempt]
    /\ told = [r \in Report |-> 0]
    /\ host = [a \in Attempt |-> "none"]
    /\ srec = [r \in Report |-> [q \in 1..MaxClaims |-> "none"]]
    /\ took = [r \in Report |-> 0]
    /\ up = TRUE /\ crashes = 0 /\ want = FALSE
    /\ dr = NoDrain

(***************************************************************************)
(* A child settles (workAttemptSettle): its report is admitted, or falls   *)
(* back in the same transaction when the parent cannot take it.            *)
(***************************************************************************)
ChildSettles(r) ==
    /\ up /\ rep[r].st = "none"
    /\ \A q \in Report : q < r => rep[q].st # "none"
    /\ \/ ParentAvailable /\ rep' = [rep EXCEPT ![r].st = "pending"] /\ UNCHANGED told
       \/ ~ParentAvailable /\ Falls([rep EXCEPT ![r].st = "pending"], r)
    /\ want' = TRUE
    /\ UNCHANGED <<job, quar, att, world, up, crashes, dr>>

-----------------------------------------------------------------------------
(* The drain.                                                              *)

LockFree == up /\ dr.pc = "idle"

(* The rows and the job are read once; the drain works through the copies. *)
DrainBegins ==
    /\ LockFree /\ want
    /\ want' = FALSE
    /\ dr' = [pc |-> "scan",
              todo |-> [r \in Report |-> [r |-> r, row |-> rep[r]]],
              job |-> IF quar THEN "none" ELSE job,
              open |-> OpenAttempt]
    /\ UNCHANGED <<durable, world, up, crashes>>

DrainEnds ==
    /\ up /\ dr.pc = "scan" /\ dr.todo = <<>>
    /\ dr' = NoDrain
    /\ UNCHANGED <<durable, world, up, crashes, want>>

Scanning == up /\ dr.pc = "scan" /\ dr.todo # <<>>
Here == Head(dr.todo).r
Seen == Head(dr.todo).row
Popped == [dr EXCEPT !.todo = Tail(@)]

(* Rows the drain passes over. *)
DrainSkips ==
    /\ Scanning
    /\ \/ Seen.st \in Done \cup {"none"}
       \/ dr.job = "none" /\ Seen.st = "held" /\ Seen.kind = "steer"
       \/ Seen.st = "held" /\ Seen.kind = "wake"
          /\ ~\E a \in WakeAttempt(Here, Seen.seq) : att[a].acc
       \/ dr.job # "none" /\ Seen.st = "claimed" /\ Seen.kind = "wake" /\ WakeAttempt(Here, Seen.seq) # {}
       \/ dr.job \notin {"none", "aborted"} /\ Seen.st = "pending" /\ dr.open # 0
          /\ (att[dr.open].term # "none" \/ att[dr.open].bad)
    /\ dr' = Popped
    /\ UNCHANGED <<durable, world, up, crashes, want>>

(* A held wake whose attempt proves it was accepted. *)
DrainProves ==
    /\ Scanning /\ Seen.st = "held" /\ Seen.kind = "wake"
    /\ \E a \in WakeAttempt(Here, Seen.seq) : att[a].acc
    /\ rep' = Consumed(rep, Here, "wake", Seen.seq)
    /\ dr' = Popped
    /\ UNCHANGED <<job, quar, att, told, world, up, crashes, want>>

(* #resolveUnavailableLaneReport *)
DrainUnavailable ==
    /\ Scanning /\ dr.job = "none"
    /\ \/ Seen.st = "pending" /\ Falls(rep, Here)
       \/ /\ Seen.st = "claimed" /\ Seen.kind = "wake" /\ WakeAttempt(Here, Seen.seq) = {}
          /\ Falls(Requeued(rep, Here, "wake", Seen.seq), Here)
       \/ /\ Seen.st = "claimed"
          /\ Seen.kind = "steer" \/ WakeAttempt(Here, Seen.seq) # {}
          /\ rep' = HeldRow(rep, Here) /\ UNCHANGED told
    /\ dr' = Popped
    /\ UNCHANGED <<job, quar, att, world, up, crashes, want>>

(* A parent that takes no reports: held, parked in its checks, done or aborted. *)
DrainFallsBack ==
    /\ Scanning /\ dr.job # "none"
    /\ \/ /\ Seen.st = "claimed" /\ Seen.kind = "wake" /\ WakeAttempt(Here, Seen.seq) = {}
          /\ dr.open = 0 /\ dr.job \in {"awaiting_checks", "done"}
          /\ Falls(Requeued(rep, Here, "wake", Seen.seq), Here)
       \/ /\ Seen.st = "pending"
          /\ \/ dr.job = "aborted"
             \/ dr.open = 0 /\ dr.job \in {"awaiting_operator", "awaiting_checks", "done"}
          /\ Falls(rep, Here)
    /\ dr' = Popped
    /\ UNCHANGED <<job, quar, att, world, up, crashes, want>>

(* A wake that was claimed but never prepared, and a parent that has since opened. *)
DrainUnwakes ==
    /\ Scanning /\ dr.job # "none"
    /\ Seen.st = "claimed" /\ Seen.kind = "wake" /\ WakeAttempt(Here, Seen.seq) = {} /\ dr.open # 0
    /\ rep' = Requeued(rep, Here, "wake", Seen.seq)
    /\ dr' = [dr EXCEPT !.todo = <<[r |-> Here, row |-> rep'[Here]]>> \o Tail(@)]
    /\ UNCHANGED <<job, quar, att, told, world, up, crashes, want>>

(* #claimAndSteerLaneReport: the claim is durable before the request leaves. *)
DrainSteers ==
    /\ Scanning /\ Seen.st = "pending" /\ dr.job \notin {"none", "aborted"}
    /\ dr.open # 0 /\ att[dr.open].term = "none" /\ ~att[dr.open].bad
    /\ rep[Here].st = "pending" /\ rep[Here].seq < MaxClaims
    /\ rep' = Claimed(rep, Here, "steer", dr.open)
    /\ dr' = [dr EXCEPT !.pc = "steer", !.todo = <<[r |-> Here, row |-> rep'[Here]]>> \o Tail(@)]
    /\ UNCHANGED <<job, quar, att, told, world, up, crashes, want>>

(* #replayLaneSteer: the same clientRef, to the session it was claimed for. *)
DrainReplays ==
    /\ Scanning /\ dr.job # "none" /\ Seen.kind = "steer" /\ Seen.st \in {"claimed", "held"}
    /\ \/ ~att[Seen.target].bad /\ dr' = [dr EXCEPT !.pc = "steer"] /\ UNCHANGED rep
       \/ att[Seen.target].bad /\ rep' = HeldRow(rep, Here) /\ dr' = Popped
    /\ UNCHANGED <<job, quar, att, told, world, up, crashes, want>>

(* #sendLaneSteer, the answer: accepted, refused, no such session, or lost. *)
SteerAnswered ==
    /\ up /\ dr.pc = "steer"
    /\ \/ /\ srec[Here][Seen.seq] = "accepted"
          /\ rep' = Consumed(rep, Here, "steer", Seen.seq)
       \/ /\ srec[Here][Seen.seq] = "refused"
          /\ rep' = Requeued(rep, Here, "steer", Seen.seq)
       \/ /\ host[Seen.target] # "running"
          /\ rep' = HeldRow(rep, Here)
    /\ dr' = [Popped EXCEPT !.pc = "scan"]
    /\ UNCHANGED <<job, quar, att, told, world, up, crashes, want>>

SteerLost ==
    /\ up /\ dr.pc = "steer"
    /\ dr' = [Popped EXCEPT !.pc = "scan"]
    /\ UNCHANGED <<durable, world, up, crashes, want>>

(* #wakeLaneReport: claim the row with the opRef the new attempt will have. *)
DrainWakes ==
    /\ Scanning /\ dr.job = "attempt_ended" /\ dr.open = 0
    /\ \/ /\ Seen.st = "pending" /\ rep[Here].st = "pending" /\ rep[Here].seq < MaxClaims
          /\ rep' = Claimed(rep, Here, "wake", 0)
       \/ /\ Seen.st = "claimed" /\ Seen.kind = "wake" /\ WakeAttempt(Here, Seen.seq) = {}
          /\ UNCHANGED rep
    /\ dr' = [dr EXCEPT !.pc = "wake", !.todo = <<[r |-> Here, row |-> rep'[Here]]>> \o Tail(@)]
    /\ UNCHANGED <<job, quar, att, told, world, up, crashes, want>>

(* #startLocked prepares the attempt row, linked to the report. *)
WakePrepared ==
    /\ up /\ dr.pc = "wake" /\ NextAttempt \in Attempt /\ job = "attempt_ended"
    /\ att' = [att EXCEPT ![NextAttempt] = [NoAttempt EXCEPT !.st = "open", !.wake = Here, !.seq = Seen.seq]]
    /\ job' = "running"
    /\ dr' = [dr EXCEPT !.pc = "woken", !.open = NextAttempt]
    /\ UNCHANGED <<rep, quar, told, world, up, crashes, want>>

(* The send; whatever became of it the drain goes on with the job as it is now. *)
WakeReturns ==
    /\ up /\ dr.pc = "woken"
    /\ host' = [host EXCEPT ![dr.open] = IF @ = "none" /\ att[dr.open].term = "none" THEN "wire" ELSE @]
    /\ dr' = [Popped EXCEPT !.pc = "scan", !.job = job, !.open = OpenAttempt]
    /\ UNCHANGED <<durable, srec, took, up, crashes, want>>

(* Binding failed before the row was prepared: the report waits for the next drain. *)
WakeFails ==
    /\ up /\ dr.pc = "wake"
    /\ LET f == Requeued(rep, Here, "wake", Seen.seq)
       IN  \/ job \in {"awaiting_operator", "awaiting_checks", "done"} /\ Falls(f, Here)
           \/ job \notin {"awaiting_operator", "awaiting_checks", "done"} /\ rep' = f /\ UNCHANGED told
    /\ dr' = [Popped EXCEPT !.pc = "scan", !.job = job, !.open = OpenAttempt]
    /\ UNCHANGED <<job, quar, att, world, up, crashes, want>>

-----------------------------------------------------------------------------
(* The parent's own attempts.                                              *)

(* A start, a resume of a held lane, or a re-steer of its checks. *)
ParentStarts ==
    /\ LockFree /\ ~quar /\ NextAttempt \in Attempt
    /\ job \in {"attempt_ended", "awaiting_operator", "awaiting_checks"}
    /\ att' = [att EXCEPT ![NextAttempt] = [NoAttempt EXCEPT !.st = "open"]]
    /\ job' = "running"
    /\ host' = [host EXCEPT ![NextAttempt] = "wire"]
    /\ UNCHANGED <<rep, quar, told, srec, took, up, crashes, want, dr>>

(* workAttemptUpdate with acceptance evidence consumes the wake's report with it. *)
AttemptAccepted(a) ==
    /\ up /\ ~quar /\ att[a].st = "open" /\ ~att[a].acc /\ ~att[a].bad
    /\ host[a] \in {"running", "over"}
    /\ att' = [att EXCEPT ![a].acc = TRUE]
    /\ rep' = IF att[a].wake = 0 THEN rep ELSE Consumed(rep, att[a].wake, "wake", att[a].seq)
    /\ UNCHANGED <<job, quar, told, world, up, crashes, want, dr>>

(* The outcome is noted before it is settled; a lost one proves nothing. *)
AttemptObserved(a) ==
    /\ up /\ ~quar /\ att[a].st = "open" /\ att[a].term = "none" /\ ~att[a].bad
    /\ \/ host[a] = "over" /\ att[a].acc /\ att' = [att EXCEPT ![a].term = "ended"]
       \/ host[a] = "refused" /\ att' = [att EXCEPT ![a].term = "send_rejected"]
       \/ host[a] # "running" /\ dr.pc # "woken" /\ att' = [att EXCEPT ![a].term = "lost"]
    /\ UNCHANGED <<rep, job, quar, told, world, up, crashes, want, dr>>

(* Mutant of WakeSettled: an attempt that ended unaccepted gives its report back. *)
WakeSettledRequeues(a, state) ==
    /\ rep' = Requeued(rep, att[a].wake, "wake", att[a].seq)
    /\ UNCHANGED told

(* #settleWakeReport: only a refused send gives the report back. *)
WakeSettled(a, state) ==
    LET r == att[a].wake
        f == Requeued(rep, r, "wake", att[a].seq)
    IN  \/ att[a].term # "send_rejected" /\ rep' = HeldRow(rep, r) /\ UNCHANGED told
        \/ att[a].term = "send_rejected" /\ state # "awaiting_operator" /\ rep' = f /\ UNCHANGED told
        \/ att[a].term = "send_rejected" /\ state = "awaiting_operator" /\ Falls(f, r)

(* workAttemptSettle of the parent, under its lock, then a drain. *)
AttemptSettles(a) ==
    /\ LockFree /\ ~quar /\ att[a].st = "open" /\ att[a].term # "none" /\ ~att[a].bad
    /\ \E state \in CASE att[a].term = "ended" -> {"attempt_ended", "awaiting_operator", "awaiting_checks", "done"}
                      [] att[a].term = "send_rejected" -> {"awaiting_operator"}
                      [] OTHER -> {"attempt_ended", "awaiting_operator"} :
          /\ job' = state
          /\ \/ (att[a].wake = 0 \/ att[a].acc) /\ UNCHANGED <<rep, told>>
             \/ att[a].wake # 0 /\ ~att[a].acc /\ WakeSettled(a, state)
    /\ att' = [att EXCEPT ![a].st = "closed"]
    /\ want' = TRUE
    /\ UNCHANGED <<quar, world, up, crashes, dr>>

(* External: the host takes or refuses a prompt or a steer; a turn ends. *)
HostPrompt(a) ==
    /\ host[a] = "wire" /\ att[a].st = "open"
    /\ \/ /\ host' = [host EXCEPT ![a] = "running"]
          /\ took' = IF att[a].wake = 0 THEN took ELSE [took EXCEPT ![att[a].wake] = @ + 1]
       \/ host' = [host EXCEPT ![a] = "refused"] /\ UNCHANGED took
    /\ UNCHANGED <<durable, srec, up, crashes, want, dr>>

HostSteer(r) ==
    /\ rep[r].kind = "steer" /\ rep[r].st \in {"claimed", "held"}
    /\ srec[r][rep[r].seq] = "none"
    /\ \/ /\ host[rep[r].target] = "running"
          /\ srec' = [srec EXCEPT ![r][rep[r].seq] = "accepted"]
          /\ took' = [took EXCEPT ![r] = @ + 1]
       \/ srec' = [srec EXCEPT ![r][rep[r].seq] = "refused"] /\ UNCHANGED took
    /\ UNCHANGED <<durable, host, up, crashes, want, dr>>

TurnEnds(a) ==
    /\ host[a] = "running"
    /\ host' = [host EXCEPT ![a] = "over"]
    /\ UNCHANGED <<durable, srec, took, up, crashes, want, dr>>

-----------------------------------------------------------------------------
Crash ==
    /\ up /\ crashes < MaxCrashes
    /\ up' = FALSE /\ crashes' = crashes + 1 /\ dr' = NoDrain /\ want' = FALSE
    /\ UNCHANGED <<durable, world>>

(* Recovery drains every parent; an invalid attempt row quarantines its lane. *)
Restart ==
    /\ ~up /\ up' = TRUE /\ want' = TRUE
    /\ \/ UNCHANGED <<quar, att>>
       \/ quar' = TRUE /\ UNCHANGED att
       \/ /\ Unreadable /\ OpenAttempt # 0
          /\ att' = [att EXCEPT ![OpenAttempt].bad = TRUE]
          /\ quar' = TRUE
    /\ UNCHANGED <<rep, job, told, world, crashes, dr>>

(* Mutant of Recovers: only settlements and restarts drain a parent. *)
RecoversNever == FALSE /\ UNCHANGED vars

(* The recovery pass of every minute, and of every start, drains every parent. *)
Recovers ==
    /\ LockFree /\ ~want /\ \E r \in Report : rep[r].st \in {"pending", "claimed", "held"}
    /\ want' = TRUE
    /\ UNCHANGED <<durable, world, up, crashes, dr>>

Drain ==
    \/ DrainBegins \/ DrainEnds \/ DrainSkips \/ DrainProves \/ DrainUnavailable \/ DrainFallsBack
    \/ DrainUnwakes \/ DrainSteers \/ DrainReplays \/ DrainWakes
    \/ SteerAnswered \/ SteerLost \/ WakePrepared \/ WakeReturns \/ WakeFails

Next ==
    \/ Drain
    \/ \E r \in Report : ChildSettles(r) \/ HostSteer(r)
    \/ \E a \in Attempt : AttemptAccepted(a) \/ AttemptObserved(a) \/ AttemptSettles(a)
                          \/ HostPrompt(a) \/ TurnEnds(a)
    \/ Recovers \/ ParentStarts \/ Crash \/ Restart

Spec == Init /\ [][Next]_vars

-----------------------------------------------------------------------------
TypeOK ==
    /\ rep \in [Report -> [st : {"none", "pending", "claimed", "held"} \cup Done,
                           kind : {"none", "steer", "wake"}, seq : 0..MaxClaims, target : 0..MaxAttempts]]
    /\ job \in JobStates /\ quar \in BOOLEAN /\ up \in BOOLEAN /\ want \in BOOLEAN
    /\ \A a \in Attempt : att[a].st \in {"none", "open", "closed"}
    /\ dr.pc \in {"idle", "scan", "steer", "wake", "woken"}
    /\ Cardinality(Opened) <= 1

(* A child's report reaches its parent or the human once: never twice into   *)
(* the parent's turns, never two fallback deliveries, never both, whatever   *)
(* crash, torn steer or refused wake comes between.                          *)
HeardOnce == \A r \in Report : took[r] + told[r] <= 1

(* A row that says consumed was taken by a turn of the parent: no report is  *)
(* written off as read on the strength of an answer to something else.       *)
ConsumedWasTaken == \A r \in Report : rep[r].st = "consumed" => took[r] = 1
=============================================================================

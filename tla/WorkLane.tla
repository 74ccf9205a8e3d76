------------------------------ MODULE WorkLane ------------------------------
(***************************************************************************)
(* One named work lane: its job record and attempt rows, the start that    *)
(* prepares and sends an attempt (WorkLane.#startLocked), the observer     *)
(* that polls it to an outcome (#tick, #settle), the recovery pass after   *)
(* a restart or a broker generation change (#recover), and retirement      *)
(* (LaneGovernor.#retire, #forceRetire).  The start, the settlement, the   *)
(* refusal check and retirement run under the lane's lock (runExclusive);  *)
(* the observer and recovery do not, and are fenced by #writeCurrent and   *)
(* by the row's version.                                                   *)
(*                                                                         *)
(* The lane has no checks client (WorkChecks) and its parent is a persona  *)
(* (LaneReports has the lane parent).  A status or liveness answer is      *)
(* taken in one step and used in a later one.                              *)
(***************************************************************************)
EXTENDS Naturals, FiniteSets, FiniteSetsExt

CONSTANTS
    MaxAttempts,   \* attempts of the lane
    MaxSessions,   \* sessions the lane is ever bound to
    MaxGen,        \* broker generations
    MaxCrashes,    \* gateway crashes
    MaxReads,      \* output reads of an attempt (3 in the code)
    Reindexing     \* whether a restarted router may briefly disown a live host

WorkLaneAssumption ==
    /\ {MaxAttempts, MaxSessions, MaxReads} \subseteq Nat \ {0}
    /\ {MaxGen, MaxCrashes} \subseteq Nat
    /\ Reindexing \in BOOLEAN

Attempt == 1..MaxAttempts
Session == 1..MaxSessions

VARIABLES
    job,      \* the lane job's state
    att,      \* the attempt rows
    bound,    \* the session the lane is bound to, 0 for none
    told,     \* reports handed to the parent, per attempt
    host,     \* the session hosts
    reindex,  \* the router is re-indexing its hosts
    prompt,   \* where each attempt's prompt is
    word,     \* what the host last said of the prompt
    busy,     \* a durable busy refusal stands for the prompt
    up, gen, crashes,
    obs,      \* the observer of each attempt
    lock,     \* the holder of the lane's lock
    st,       \* the start
    tk,       \* the observer's tick
    rc        \* the recovery pass

durable == <<job, att, bound, told>>
world   == <<host, reindex, prompt, word, busy>>
proc    == <<st, tk, rc>>
vars    == <<durable, world, up, gen, crashes, obs, lock, proc>>

Row == [st |-> "none", sess |-> 0, phase |-> "prepared", term |-> "none",
        turnEnd |-> FALSE, out |-> "pending", reads |-> 0, end |-> "none"]

NoObs == [on |-> FALSE, gen |-> 0, sess |-> 0, gone |-> FALSE, dead |-> FALSE]

Idle == [pc |-> "idle", a |-> 0, said |-> "none", snap |-> Row]

Reasons == {"end_turn", "sdk_failed", "prompt_deadline_exceeded", "terminal_missing_receipt",
            "send_rejected", "host_lost", "session_dead", "session_disowned",
            "recovery_indeterminate"}

LocalReasons == {"send_rejected", "host_lost", "session_dead", "session_disowned",
                 "recovery_indeterminate"}

(* workAttemptEndState: the end state an outcome leads to. *)
EndState(reason) ==
    IF reason = "end_turn" THEN "completed"
    ELSE IF reason = "terminal_missing_receipt" THEN "terminal_missing_receipt"
    ELSE IF reason \in {"session_dead", "session_disowned", "recovery_indeterminate"} THEN "terminal_uncertain"
    ELSE IF reason \in {"sdk_failed", "send_rejected"} THEN "failed"
    ELSE "attempt_ended"

(* closeAttempt: the end states that hold the job for an operator. *)
Held(end) == end \in {"failed", "terminal_uncertain", "terminal_missing_receipt"}

(* terminalEvidence: the outcome a status answer states, if it is one. *)
Reason(said) ==
    IF said = "ok" THEN "end_turn"
    ELSE IF said = "failed" THEN "sdk_failed"
    ELSE IF said = "deadline" THEN "prompt_deadline_exceeded"
    ELSE IF said = "missing" THEN "terminal_missing_receipt"
    ELSE "none"

(* Mutant of Unresolved: a request's deadline is taken for the turn's end. *)
UnresolvedDeadlineEnds(reason) == reason = "terminal_missing_receipt"

(* unresolvedTerminalReceipt: a terminal answer that proves no execution end. *)
Unresolved(reason) == reason \in {"prompt_deadline_exceeded", "terminal_missing_receipt"}

(* provesAcceptance *)
ProvesAcceptance(said) == said \in {"in_flight", "ok", "failed"}

(* hasAcceptanceEvidence: accepted, or output proven to be the attempt's. *)
Accepted(row) == row.phase = "accepted" \/ row.out \in {"available", "silent"}

Open(a) == att[a].st = "open"

Running(a) == prompt[a] = "running"

Live(s) == s \in Session /\ host[s] = "live"

(* #current: neither revoked nor of an earlier broker generation. *)
Current(a) == up /\ obs[a].on /\ obs[a].gen = gen

(* #writeCurrent: the lane is still bound as it was when the observer was registered. *)
WriteCurrent(a) == Current(a) /\ obs[a].sess = bound

(* What SessionPort.status may answer for the attempt's operation. *)
StatusAnswers(a) ==
    LET s == att[a].sess
        truth == IF Running(a) /\ word[a] = "none" THEN "in_flight"
                 ELSE IF prompt[a] \in {"running", "over"} THEN word[a] ELSE "unknown"
    IN  {"error"}
        \cup (IF Live(s) THEN {truth} \cup (IF reindex THEN {"gone"} ELSE {})
                         ELSE {"gone"} \cup (IF word[a] \in {"deadline", "missing"} THEN {word[a]} ELSE {}))

(* What SessionPort.liveness may answer for a session. *)
LiveAnswers(s) ==
    {"unknown"} \cup (IF Live(s) THEN {"live"} \cup (IF reindex THEN {"disowned"} ELSE {})
                                 ELSE {"dead", "disowned"})

(* workAttemptUpdate: the row is written only if it is still the one that was read. *)
Cas(a, snap, new) ==
    att' = IF att[a] = snap /\ Open(a) THEN [att EXCEPT ![a] = new] ELSE att

NextAttempt == 1 + Cardinality({a \in Attempt : att[a].st # "none"})

-----------------------------------------------------------------------------
Init ==
    /\ job = "attempt_ended"
    /\ att = [a \in Attempt |-> Row]
    /\ bound = 0
    /\ told = [a \in Attempt |-> 0]
    /\ host = [s \in Session |-> "none"]
    /\ reindex = FALSE
    /\ prompt = [a \in Attempt |-> "unsent"]
    /\ word = [a \in Attempt |-> "none"]
    /\ busy = [a \in Attempt |-> FALSE]
    /\ up = TRUE /\ gen = 0 /\ crashes = 0
    /\ obs = [a \in Attempt |-> NoObs]
    /\ lock = "free"
    /\ st = Idle /\ tk = Idle /\ rc = Idle

-----------------------------------------------------------------------------
(* The session hosts and the broker. *)

(* The host accepts the prompt that was sent to it; a busy host does not. *)
HostTakes(a) ==
    /\ prompt[a] = "sent" /\ Live(att[a].sess)
    /\ \A b \in Attempt : Running(b) => att[b].sess # att[a].sess
    /\ prompt' = [prompt EXCEPT ![a] = "running"]
    /\ UNCHANGED <<durable, host, reindex, word, busy, up, gen, crashes, obs, lock, proc>>

(* The request's deadline passes, or its receipt is lost, while the turn runs on. *)
RequestEnds(a, w) ==
    /\ Running(a) /\ word[a] = "none"
    /\ word' = [word EXCEPT ![a] = w]
    /\ UNCHANGED <<durable, host, reindex, prompt, busy, up, gen, crashes, obs, lock, proc>>

(* The turn ends; a verdict already given stands or is replaced by the receipt. *)
TurnEnds(a, w) ==
    /\ Running(a)
    /\ w \in (IF word[a] = "none" THEN {"ok", "failed", "missing"} ELSE {word[a], "ok"})
    /\ prompt' = [prompt EXCEPT ![a] = "over"]
    /\ word' = [word EXCEPT ![a] = w]
    /\ UNCHANGED <<durable, host, reindex, busy, up, gen, crashes, obs, lock, proc>>

Dying(s) ==
    /\ host' = [host EXCEPT ![s] = "dead"]
    /\ prompt' = [a \in Attempt |->
         IF att[a].sess # s THEN prompt[a]
         ELSE IF Running(a) THEN "over" ELSE IF prompt[a] = "sent" THEN "lost" ELSE prompt[a]]

HostDies(s) ==
    /\ Live(s)
    /\ Dying(s)
    /\ UNCHANGED <<durable, reindex, word, busy, up, gen, crashes, obs, lock, proc>>

(* The broker is replaced: observers of the earlier generation are revoked. *)
NewGeneration ==
    /\ up /\ gen < MaxGen
    /\ gen' = gen + 1
    /\ reindex' = Reindexing
    /\ UNCHANGED <<durable, host, prompt, word, busy, up, crashes, obs, lock, proc>>

Reindexed ==
    /\ reindex
    /\ reindex' = FALSE
    /\ UNCHANGED <<durable, host, prompt, word, busy, up, gen, crashes, obs, lock, proc>>

Crash ==
    /\ up /\ crashes < MaxCrashes
    /\ up' = FALSE /\ crashes' = crashes + 1
    /\ obs' = [a \in Attempt |-> NoObs]
    /\ lock' = "free"
    /\ st' = Idle /\ tk' = Idle /\ rc' = Idle
    /\ UNCHANGED <<durable, world, gen>>

Restart ==
    /\ ~up
    /\ up' = TRUE
    /\ UNCHANGED <<durable, world, gen, crashes, obs, lock, proc>>

-----------------------------------------------------------------------------
(* WorkLane.#startLocked, under the lane's lock. *)

(* Mutant of StartAdmit: an open attempt does not refuse the start. *)
StartAdmitAnyway(resume) ==
    /\ up /\ st.pc = "idle" /\ lock = "free"
    /\ NextAttempt \in Attempt
    /\ job = "awaiting_operator" => resume
    /\ lock' = "start"
    /\ st' = [Idle EXCEPT !.pc = "bind", !.a = NextAttempt]
    /\ UNCHANGED <<durable, world, up, gen, crashes, obs, tk, rc>>

(* Refused while an attempt is open; a held job starts only on an explicit resume. *)
StartAdmit(resume) ==
    /\ up /\ st.pc = "idle" /\ lock = "free"
    /\ NextAttempt \in Attempt
    /\ ~\E a \in Attempt : Open(a)
    /\ job = "awaiting_operator" => resume
    /\ lock' = "start"
    /\ st' = [Idle EXCEPT !.pc = "bind", !.a = NextAttempt]
    /\ UNCHANGED <<durable, world, up, gen, crashes, obs, tk, rc>>

(* SessionPort.bind failed: nothing is prepared. *)
BindFails ==
    /\ st.pc = "bind"
    /\ st' = Idle /\ lock' = "free"
    /\ UNCHANGED <<durable, world, up, gen, crashes, obs, tk, rc>>

(* The lane is bound, its host resumed or its session created, and the attempt *)
(* prepared and observed in the same turn of the event loop.                   *)
Prepare ==
    LET a == st.a
        s == IF bound # 0 THEN bound ELSE 1 + Cardinality({x \in Session : host[x] # "none"})
    IN  /\ st.pc = "bind" /\ s \in Session
        /\ host' = [host EXCEPT ![s] = "live"]
        /\ bound' = s
        /\ job' = "running"
        /\ att' = [att EXCEPT ![a] = [Row EXCEPT !.st = "open", !.sess = s]]
        /\ obs' = [obs EXCEPT ![a] = [NoObs EXCEPT !.on = TRUE, !.gen = gen, !.sess = s]]
        /\ st' = [st EXCEPT !.pc = "attach"]
        /\ UNCHANGED <<told, reindex, prompt, word, busy, up, gen, crashes, lock, tk, rc>>

(* After the relay is attached: sent only by an observer that is still current; *)
(* otherwise this start knows that it never called send.                        *)
FenceOrSend ==
    LET a == st.a IN
    /\ st.pc = "attach"
    /\ IF WriteCurrent(a)
       THEN /\ prompt' = [prompt EXCEPT ![a] = IF Live(bound) THEN "sent" ELSE "lost"]
            /\ st' = [st EXCEPT !.pc = "send"]
            /\ UNCHANGED <<att, lock>>
       ELSE /\ att' = IF Open(a) /\ att[a].term = "none" /\ ~Accepted(att[a])
                      THEN [att EXCEPT ![a].term = "send_rejected"] ELSE att
            /\ st' = Idle /\ lock' = "free"
            /\ UNCHANGED prompt
    /\ UNCHANGED <<job, bound, told, host, reindex, word, busy, up, gen, crashes, obs, tk, rc>>

(* SessionPort.#submitPrompt: a busy host's refusal is made durable, then the *)
(* port submits the same operation again or gives up.                         *)
BusyRefused ==
    LET a == st.a IN
    /\ st.pc = "send" /\ prompt[a] = "sent"
    /\ prompt' = [prompt EXCEPT ![a] = "refused"]
    /\ busy' = [busy EXCEPT ![a] = TRUE]
    /\ UNCHANGED <<durable, host, reindex, word, up, gen, crashes, obs, lock, proc>>

Rearm ==
    LET a == st.a IN
    /\ st.pc = "send" /\ busy[a] /\ Live(att[a].sess)
    /\ prompt' = [prompt EXCEPT ![a] = "sent"]
    /\ busy' = [busy EXCEPT ![a] = FALSE]
    /\ UNCHANGED <<durable, host, reindex, word, up, gen, crashes, obs, lock, proc>>

(* Any other definitive refusal: nothing is left of the operation. *)
Refuses ==
    LET a == st.a IN
    /\ st.pc = "send" /\ prompt[a] = "sent"
    /\ prompt' = [prompt EXCEPT ![a] = "refused"]
    /\ UNCHANGED <<durable, host, reindex, word, busy, up, gen, crashes, obs, lock, proc>>

(* The send returns its receipt, a definitive refusal, or an error that says nothing. *)
SendReturns(said) ==
    LET a == st.a IN
    /\ st.pc = "send"
    /\ said = "accepted" => prompt[a] \in {"running", "over"}
    /\ said = "rejected" => prompt[a] = "refused"
    /\ \/ /\ ~WriteCurrent(a)
          /\ st' = Idle /\ lock' = "free" /\ UNCHANGED att
       \/ /\ WriteCurrent(a) /\ said = "accepted"
          /\ att' = [att EXCEPT ![a].phase = IF Open(a) THEN "accepted" ELSE @]
          /\ st' = Idle /\ lock' = "free"
       \/ /\ WriteCurrent(a) /\ said = "rejected"
          /\ att' = IF Open(a)
                    THEN [att EXCEPT ![a].phase = "uncertain",
                            ![a].term = IF @ = "none" THEN "send_rejected" ELSE @]
                    ELSE att
          /\ st' = Idle /\ lock' = "free"
       \/ /\ WriteCurrent(a) /\ said = "error"
          /\ \E w \in StatusAnswers(a) :
               st' = [pc |-> "asked", a |-> a, said |-> w, snap |-> att[a]]
          /\ UNCHANGED <<att, lock>>
    /\ UNCHANGED <<job, bound, told, world, up, gen, crashes, obs, tk, rc>>

(* The status that was asked proves acceptance, or the send stays uncertain. *)
SendResolved ==
    LET a == st.a IN
    /\ st.pc = "asked"
    /\ IF WriteCurrent(a)
       THEN Cas(a, st.snap, [st.snap EXCEPT !.phase = IF ProvesAcceptance(st.said) THEN "accepted" ELSE "uncertain"])
       ELSE UNCHANGED att
    /\ st' = Idle /\ lock' = "free"
    /\ UNCHANGED <<job, bound, told, world, up, gen, crashes, obs, tk, rc>>

-----------------------------------------------------------------------------
(* The observer: the relay's frames and WorkLane.#tick. *)

(* A correlated agent_end reaches the current observer. *)
FrameEnds(a) ==
    /\ WriteCurrent(a) /\ Open(a) /\ prompt[a] = "over" /\ Live(att[a].sess)
    /\ ~att[a].turnEnd
    /\ att' = [att EXCEPT ![a].turnEnd = TRUE]
    /\ UNCHANGED <<job, bound, told, world, up, gen, crashes, obs, lock, proc>>

(* A tick is scheduled by the start, by a frame or by the recovery pass once it is done. *)
Ticks(a) == tk.pc = "idle" /\ rc.pc = "idle" /\ WriteCurrent(a) /\ Open(a)

Settleable(row) == row.term # "none" /\ (Unresolved(row.term) => row.turnEnd)

(* The status of an attempt without a usable outcome is asked. *)
TickAsks(a, said) ==
    /\ Ticks(a) /\ ~Settleable(att[a])
    /\ said \in StatusAnswers(a)
    /\ tk' = [pc |-> "asked", a |-> a, said |-> said, snap |-> att[a]]
    /\ UNCHANGED <<durable, world, up, gen, crashes, obs, lock, st, rc>>

(* The row with what the answer proves of acceptance and outcome. *)
Noted(row, said, reason) ==
    [row EXCEPT !.phase = IF ProvesAcceptance(said) THEN "accepted" ELSE @,
                !.term = IF @ = "none" THEN reason ELSE @]

TickStops == tk' = Idle

(* The answer is used: nothing on unknown or error; an unresolved receipt needs *)
(* proof of the execution's end; a gone host must be gone for a whole grace.    *)
TickApplies ==
    LET a == tk.a
        row == tk.snap
        said == tk.said
        reason == Reason(said)
    IN  /\ tk.pc = "asked"
        /\ \/ /\ ~WriteCurrent(a)
              /\ TickStops /\ UNCHANGED <<att, obs>>
           \/ /\ WriteCurrent(a) /\ said \in {"error", "unknown"}
              /\ obs' = [obs EXCEPT ![a].gone = FALSE, ![a].dead = FALSE]
              /\ TickStops /\ UNCHANGED att
           \/ /\ WriteCurrent(a) /\ said = "gone"
              /\ obs' = [obs EXCEPT ![a].gone = TRUE, ![a].dead = FALSE]
              /\ IF obs[a].gone /\ ~reindex
                 THEN Cas(a, row, Noted(row, said, "host_lost"))
                 ELSE UNCHANGED att
              /\ TickStops
           \/ /\ WriteCurrent(a) /\ Unresolved(reason) /\ ~row.turnEnd
              /\ tk' = [tk EXCEPT !.pc = "proof"]
              /\ obs' = [obs EXCEPT ![a].gone = FALSE]
              /\ UNCHANGED att
           \/ /\ WriteCurrent(a) /\ said \notin {"error", "unknown", "gone"}
              /\ Unresolved(reason) => row.turnEnd
              /\ Cas(a, row, Noted(row, said, reason))
              /\ obs' = [obs EXCEPT ![a].gone = FALSE, ![a].dead = FALSE]
              /\ TickStops
        /\ UNCHANGED <<job, bound, told, world, up, gen, crashes, lock, st, rc>>

(* #observeIdleTurnEnd: the live host's idle snapshot proves that the turn is over. *)
IdleProof(idle) ==
    LET a == tk.a
        row == tk.snap
    IN  /\ tk.pc = "proof"
        /\ Live(att[a].sess)
        /\ idle => ~\E b \in Attempt : Running(b) /\ att[b].sess = att[a].sess
        /\ IF idle /\ WriteCurrent(a)
           THEN Cas(a, row, [Noted(row, tk.said, Reason(tk.said)) EXCEPT !.turnEnd = TRUE])
           ELSE UNCHANGED att
        /\ obs' = [obs EXCEPT ![a].dead = FALSE]
        /\ TickStops
        /\ UNCHANGED <<job, bound, told, world, up, gen, crashes, lock, st, rc>>

(* #missingReceiptHostDead: the host has been dead for a whole grace. *)
DeadProof ==
    LET a == tk.a
        row == tk.snap
        reason == Reason(tk.said)
    IN  /\ tk.pc = "proof"
        /\ ~Live(att[a].sess)
        /\ IF ~WriteCurrent(a) THEN UNCHANGED <<att, obs>>
           ELSE /\ obs' = [obs EXCEPT ![a].dead = TRUE]
                /\ IF ~obs[a].dead THEN UNCHANGED att
                   ELSE Cas(a, row,
                          IF reason = "prompt_deadline_exceeded"
                          THEN [Noted(row, tk.said, reason) EXCEPT !.turnEnd = TRUE,
                                  !.out = IF row.term = "none" THEN "unavailable" ELSE @]
                          ELSE Noted(row, tk.said, "session_dead"))
        /\ TickStops
        /\ UNCHANGED <<job, bound, told, world, up, gen, crashes, lock, st, rc>>

(* The output of a concluded attempt is read, at most MaxReads times. *)
ReadClaims(a) ==
    LET row == att[a] IN
    /\ Ticks(a) /\ Settleable(row) /\ row.out = "pending"
    /\ IF row.reads >= MaxReads \/ row.term \in LocalReasons
       THEN att' = [att EXCEPT ![a].out = "unavailable"] /\ TickStops
       ELSE /\ att' = [att EXCEPT ![a].reads = @ + 1]
            /\ tk' = [pc |-> "read", a |-> a, said |-> "none", snap |-> att'[a]]
    /\ UNCHANGED <<job, bound, told, world, up, gen, crashes, obs, lock, st, rc>>

(* The read proves the attempt's own output (and with it a late receipt), finds *)
(* none, or must be tried again.                                                *)
ReadReturns(found) ==
    LET a == tk.a
        row == tk.snap
    IN  /\ tk.pc = "read"
        /\ found \in {"available", "silent"} => word[a] = "ok" \/ row.term = "sdk_failed"
        /\ IF ~WriteCurrent(a) THEN UNCHANGED att
           ELSE IF found \in {"available", "silent"}
           THEN Cas(a, row, [row EXCEPT !.out = found,
                               !.term = IF Unresolved(@) THEN "end_turn" ELSE @])
           ELSE IF found = "unavailable" \/ row.reads >= MaxReads
           THEN Cas(a, row, [row EXCEPT !.out = "unavailable"])
           ELSE UNCHANGED att
        /\ TickStops
        /\ UNCHANGED <<job, bound, told, world, up, gen, crashes, obs, lock, st, rc>>

-----------------------------------------------------------------------------
(* Settlement: the row, the job and the parent's report in one transaction. *)

(* #settleAttempt: the report goes to the persona's inbox or, refused there, to *)
(* the outbox; a silent output is reported to nobody.                           *)
Settled(a, row, end) ==
    /\ att' = [att EXCEPT ![a] = [row EXCEPT !.st = "settled", !.end = end]]
    /\ job' = IF Held(end) THEN "awaiting_operator" ELSE "attempt_ended"
    /\ told' = [told EXCEPT ![a] = IF row.out = "silent" THEN @ ELSE @ + 1]

(* The repository's facts are collected before the lane's lock is waited for. *)
SettleBegins(a) ==
    /\ Ticks(a) /\ Settleable(att[a]) /\ att[a].out # "pending"
    /\ tk' = [pc |-> "facts", a |-> a, said |-> "none", snap |-> att[a]]
    /\ UNCHANGED <<durable, world, up, gen, crashes, obs, lock, st, rc>>

(* Mutant of Unsettled: neither the fence nor the row is proved again under the lock. *)
UnsettledUnproved(a, snap) == up

Unsettled(a, snap) == WriteCurrent(a) /\ Open(a) /\ att[a] = snap

SettleEnters ==
    /\ tk.pc = "facts" /\ lock = "free"
    /\ IF Unsettled(tk.a, tk.snap)
       THEN lock' = "settle" /\ tk' = [tk EXCEPT !.pc = "settle"]
       ELSE TickStops /\ UNCHANGED lock
    /\ UNCHANGED <<durable, world, up, gen, crashes, obs, st, rc>>

(* After the diagnostics were read the fence is proved once more. *)
SettleCommits ==
    LET a == tk.a IN
    /\ tk.pc = "settle"
    /\ IF Unsettled(a, tk.snap)
       THEN /\ Settled(a, att[a], EndState(att[a].term))
            /\ obs' = [obs EXCEPT ![a] = NoObs]
       ELSE UNCHANGED <<job, att, told, obs>>
    /\ TickStops
    /\ lock' = "free"
    /\ UNCHANGED <<bound, world, up, gen, crashes, st, rc>>

-----------------------------------------------------------------------------
(* WorkLane.#recover: an open attempt without a current observer. *)

(* Mutant of RecoverAsks: only an attempt whose send is open is recovered. *)
RecoverAsksPrepared(a) ==
    /\ up /\ rc.pc = "idle" /\ Open(a) /\ ~WriteCurrent(a) /\ att[a].phase = "prepared"
    /\ tk.pc = "idle"
    /\ obs' = [obs EXCEPT ![a] = [NoObs EXCEPT !.on = TRUE, !.gen = gen, !.sess = bound]]
    /\ IF att[a].term # "none" THEN rc' = Idle
       ELSE \E said \in StatusAnswers(a) :
              rc' = [pc |-> "asked", a |-> a, said |-> said, snap |-> att[a]]
    /\ UNCHANGED <<durable, world, up, gen, crashes, lock, st, tk>>

(* The observer before it is revoked and its tick awaited; a new one is registered. *)
RecoverAsks(a) ==
    /\ up /\ rc.pc = "idle" /\ Open(a) /\ ~WriteCurrent(a)
    /\ tk.pc = "idle"
    /\ obs' = [obs EXCEPT ![a] = [NoObs EXCEPT !.on = TRUE, !.gen = gen, !.sess = bound]]
    /\ IF att[a].term # "none" THEN rc' = Idle
       ELSE \E said \in StatusAnswers(a) :
              rc' = [pc |-> "asked", a |-> a, said |-> said, snap |-> att[a]]
    /\ UNCHANGED <<durable, world, up, gen, crashes, lock, st, tk>>

RecoverApplies ==
    LET a == rc.a
        row == rc.snap
        reason == Reason(rc.said)
        running == Unresolved(reason) /\ ~row.turnEnd
    IN  /\ rc.pc = "asked"
        /\ IF ~Current(a) THEN rc' = Idle /\ UNCHANGED att
           ELSE IF rc.said = "unknown" THEN rc' = [rc EXCEPT !.pc = "refusal"] /\ UNCHANGED att
           ELSE IF reason # "none" /\ ~running /\ WriteCurrent(a)
           THEN Cas(a, row, Noted(row, rc.said, reason)) /\ rc' = Idle
           ELSE IF running /\ att[a].sess = bound /\ WriteCurrent(a)
           THEN rc' = Idle /\ UNCHANGED att
           ELSE rc' = [rc EXCEPT !.pc = "live"] /\ UNCHANGED att
        /\ UNCHANGED <<job, bound, told, world, up, gen, crashes, obs, lock, st, tk>>

(* Mutant of RecoverRefusal: the refusal is read while a send may be retrying. *)
RecoverRefusalUnlocked ==
    LET a == rc.a
        row == att[a]
        proved == WriteCurrent(a) /\ Open(a) /\ row.term = "none" /\ ~Accepted(row) /\ busy[a]
    IN  /\ rc.pc = "refusal"
        /\ IF proved THEN att' = [att EXCEPT ![a].term = "send_rejected"] /\ rc' = Idle
           ELSE UNCHANGED att /\ rc' = IF Current(a) THEN [rc EXCEPT !.pc = "live"] ELSE Idle
        /\ UNCHANGED <<job, bound, told, world, up, gen, crashes, obs, lock, st, tk>>

(* SessionPort.promptRefusal, read under the lane's lock so that no live send *)
(* can submit the operation again.                                            *)
RecoverRefusal ==
    LET a == rc.a
        row == att[a]
        proved == WriteCurrent(a) /\ Open(a) /\ row.term = "none" /\ ~Accepted(row) /\ busy[a]
    IN  /\ rc.pc = "refusal" /\ lock = "free"
        /\ IF proved THEN att' = [att EXCEPT ![a].term = "send_rejected"] /\ rc' = Idle
           ELSE UNCHANGED att /\ rc' = IF Current(a) THEN [rc EXCEPT !.pc = "live"] ELSE Idle
        /\ UNCHANGED <<job, bound, told, world, up, gen, crashes, obs, lock, st, tk>>

(* Liveness decides: a live bound host is observed on, anything else ends the *)
(* attempt with the reason that was proved.                                   *)
RecoverDecides(live) ==
    LET a == rc.a
        lost == rc.said = "gone" /\ live \in {"dead", "disowned"}
        mine == att[a].sess = bound
        reason == IF lost THEN "host_lost"
                  ELSE IF live = "disowned" \/ ~mine THEN "session_disowned"
                  ELSE IF live = "dead" THEN "session_dead" ELSE "recovery_indeterminate"
    IN  /\ rc.pc = "live"
        /\ live \in LiveAnswers(att[a].sess)
        /\ IF WriteCurrent(a) /\ ~(live = "live" /\ mine)
           THEN Cas(a, rc.snap, Noted(rc.snap, "none", reason))
           ELSE UNCHANGED att
        /\ rc' = Idle
        /\ UNCHANGED <<job, bound, told, world, up, gen, crashes, obs, lock, st, tk>>

-----------------------------------------------------------------------------
(* LaneGovernor: retirement, under the lane's lock. *)

(* #runtimeSettled: an end the ledger recorded without broker proof needs it now. *)
RuntimeSettled(a) ==
    \/ att[a].sess # bound \/ att[a].end = "completed"
    \/ \E said \in StatusAnswers(a) :
         \/ Reason(said) # "none"
         \/ said \in {"unknown", "error", "gone"} /\ LiveAnswers(bound) \cap {"dead", "disowned"} # {}

(* Not while an attempt is open. *)
RetireEnters ==
    /\ up /\ lock = "free" /\ bound # 0
    /\ ~\E a \in Attempt : Open(a)
    /\ NextAttempt > 1 => RuntimeSettled(NextAttempt - 1)
    /\ lock' = "retire"
    /\ UNCHANGED <<durable, world, up, gen, crashes, obs, proc>>

(* Mutant of RetireCloses: any failed close frees the slot. *)
RetireClosesUnproven(closed) ==
    /\ lock = "retire"
    /\ IF closed /\ Live(bound) THEN Dying(bound) ELSE UNCHANGED <<host, prompt>>
    /\ bound' = 0
    /\ lock' = "free"
    /\ UNCHANGED <<job, att, told, reindex, word, busy, up, gen, crashes, obs, proc>>

(* An unconfirmed close keeps the binding unless the session is proven gone. *)
RetireCloses(closed) ==
    /\ lock = "retire"
    /\ IF closed /\ Live(bound) THEN Dying(bound) ELSE UNCHANGED <<host, prompt>>
    /\ \E reply \in BOOLEAN, live \in LiveAnswers(bound) :
         /\ reply => closed
         /\ bound' = IF reply \/ live \in {"dead", "disowned"} THEN 0 ELSE bound
    /\ lock' = "free"
    /\ UNCHANGED <<job, att, told, reindex, word, busy, up, gen, crashes, obs, proc>>

(* #forceRetire: liveness proves the session gone; the open attempt is settled *)
(* with its recorded outcome, or as lost with its host.                        *)
ForceSettles ==
    /\ up /\ lock = "free" /\ bound # 0
    /\ LiveAnswers(bound) \cap {"dead", "disowned"} # {}
    /\ \/ \E a \in Attempt :
            /\ Open(a)
            /\ LET row == [att[a] EXCEPT !.term = IF @ = "none" THEN "session_dead" ELSE @,
                                         !.out = IF @ = "pending" THEN "unavailable" ELSE @]
               IN  Settled(a, row, IF att[a].term = "none" THEN "attempt_ended" ELSE EndState(att[a].term))
       \/ (~\E a \in Attempt : Open(a)) /\ UNCHANGED <<job, att, told>>
    /\ lock' = "force"
    /\ UNCHANGED <<bound, world, up, gen, crashes, obs, proc>>

(* The close is tried and its failure ignored; the epoch is rotated. *)
ForceCloses ==
    /\ lock = "force"
    /\ bound' = 0 /\ lock' = "free"
    /\ UNCHANGED <<job, att, told, world, up, gen, crashes, obs, proc>>

-----------------------------------------------------------------------------
Start ==
    \/ \E r \in BOOLEAN : StartAdmit(r)
    \/ BindFails \/ Prepare \/ FenceOrSend \/ BusyRefused \/ Rearm \/ Refuses
    \/ \E said \in {"accepted", "rejected", "error"} : SendReturns(said)
    \/ SendResolved

Tick ==
    \/ \E a \in Attempt : \E said \in StatusAnswers(a) : TickAsks(a, said)
    \/ TickApplies
    \/ \E idle \in BOOLEAN : IdleProof(idle)
    \/ DeadProof
    \/ \E a \in Attempt : ReadClaims(a) \/ SettleBegins(a) \/ FrameEnds(a)
    \/ \E found \in {"available", "silent", "unavailable", "absent"} : ReadReturns(found)
    \/ SettleEnters \/ SettleCommits

Recover ==
    \/ \E a \in Attempt : RecoverAsks(a)
    \/ RecoverApplies \/ RecoverRefusal
    \/ \E live \in {"live", "dead", "disowned", "unknown"} : RecoverDecides(live)

Retire ==
    \/ RetireEnters \/ ForceSettles \/ ForceCloses
    \/ \E c \in BOOLEAN : RetireCloses(c)

World ==
    \/ \E a \in Attempt : HostTakes(a)
    \/ \E a \in Attempt, w \in {"deadline", "missing"} : RequestEnds(a, w)
    \/ \E a \in Attempt, w \in {"ok", "failed", "missing", "deadline"} : TurnEnds(a, w)
    \/ \E s \in Session : HostDies(s)
    \/ NewGeneration \/ Reindexed \/ Crash \/ Restart

Next == Start \/ Tick \/ Recover \/ Retire \/ World

Spec == Init /\ [][Next]_vars

-----------------------------------------------------------------------------
TypeOK ==
    /\ job \in {"attempt_ended", "running", "awaiting_operator"}
    /\ \A a \in Attempt :
         /\ att[a].st \in {"none", "open", "settled"}
         /\ att[a].term \in Reasons \cup {"none"}
         /\ att[a].reads \in 0..MaxReads
    /\ bound \in Session \cup {0}
    /\ told \in [Attempt -> Nat]
    /\ host \in [Session -> {"none", "live", "dead"}]
    /\ prompt \in [Attempt -> {"unsent", "sent", "refused", "lost", "running", "over"}]
    /\ word \in [Attempt -> {"none", "deadline", "missing", "ok", "failed"}]
    /\ lock \in {"free", "start", "settle", "retire", "force"}
    /\ gen \in 0..MaxGen /\ crashes \in 0..MaxCrashes

(* A send the lane records as rejected was never accepted and never will be, *)
(* whichever of the start, the recovery pass and the fence recorded it.      *)
RejectedNeverTaken ==
    \A a \in DOMAIN att : att[a].term = "send_rejected" => prompt[a] \in {"unsent", "refused", "lost"}

(* An attempt that leaves its lane free to continue without an operator has no *)
(* turn running and none that may still start: the next attempt cannot meet it *)
(* on the same worktree.                                                       *)
ContinuesOnlyWhenOver ==
    \A a \in DOMAIN att :
        att[a].end \in {"completed", "attempt_ended"} => prompt[a] \notin {"sent", "running"}

(* An attempt's outcome reaches its parent once, and only a settled one's does. *)
ToldOnce ==
    \A a \in DOMAIN att : told[a] <= IF att[a].st = "settled" THEN 1 ELSE 0

(* At most one attempt is open, and the job is running exactly then. *)
OneOpenAttempt ==
    /\ Cardinality({a \in DOMAIN att : Open(a)}) <= 1
    /\ (job = "running") = (\E a \in DOMAIN att : Open(a))

(* A slot is freed only when no worker is left on the session it held. *)
FreedSlotsIdle ==
    \A a \in DOMAIN att : prompt[a] = "running" => att[a].sess = bound

-----------------------------------------------------------------------------
(* What the broker answers when it answers truthfully.                        *)
Truth(a) == IF Running(a) /\ word[a] = "none" THEN "in_flight"
            ELSE IF ~Live(att[a].sess) /\ word[a] \notin {"deadline", "missing"} THEN "gone"
            ELSE IF prompt[a] \in {"running", "over"} THEN word[a] ELSE "unknown"

(* The broker may leave calls unanswered, and deny a verdict it gave, but not for ever. *)
Answered ==
    \A p \in {st, tk, rc} :
        /\ p.said # "error"
        /\ p.said = "gone" => word[p.a] \notin {"deadline", "missing"}
=============================================================================

----------------------------- MODULE StallCutoff -----------------------------
(***************************************************************************)
(* The cut-off of a turn that went silent (orchestrator/persona-session.ts,*)
(* terminateStalledTurn; orchestrator/session-port.ts, terminateHost). The *)
(* host is signalled, its end is proved from the process table and the     *)
(* proof is stored before the owner is told and the trigger is closed.     *)
(* Every await of that path is a step, so frames, exits of the host, a     *)
(* reused pid, /new between two passes and a crash fall anywhere.          *)
(***************************************************************************)
EXTENDS Naturals

CONSTANTS
  MaxFaults,    \* bound: unreadable process tables, statuses and failed writes
  MaxRestarts,  \* bound: deaths of the gateway
  MaxFrames     \* bound: bursts of activity on the tail

ASSUME CutoffAssumption == {MaxFaults, MaxRestarts, MaxFrames} \subseteq Nat

VARIABLES
  proc,      \* what the pid names: the session's "host", nothing ("gone"), an "other" process
  op,        \* the operation in the host: "running", "done"
  trigger,   \* the trigger: "open", "cut" or "dropped" (closed as stalled), "settled"
  proof,     \* the stored proof that the producer is gone
  told,      \* the stall notice is persisted
  binding,   \* the origin's session record: "this" turn's epoch, a "next" one
  view,      \* the actor's view: "none" (not recovered), "current", "retired" by /new
  tail,      \* the relay: "live", "blind" (attached, without the turn's content), "lost"
  stalled,   \* statusRecheckAfterStall
  aged,      \* the stall is older than STALLED_TURN_TERMINAL_TIMEOUT_MS
  moved,     \* the tail showed activity after the stall
  timer,     \* the status recheck is armed
  signaled,  \* signaledHosts: "none", "term", "kill"
  ending,    \* hostTerminatingSessionId and its recheck timer
  owned,     \* stallExitOwner was captured
  step, who, \* the step and the caller of the pass in progress
  torn,      \* the cut-off rotated a newer epoch away
  faults, restarts, frames

stored == <<trigger, proof, told, binding, torn>>
stall == <<stalled, aged, moved>>
signals == <<signaled, ending, owned>>
bounds == <<faults, restarts, frames>>
cutoff == <<proc, op, stored, view, tail, stall, timer, signals, step, who, bounds>>

CutoffInit ==
  /\ proc = "host" /\ op = "running" /\ trigger = "open" /\ proof = FALSE /\ told = FALSE
  /\ binding = "this" /\ view = "current" /\ tail = "live"
  /\ stalled = FALSE /\ aged = FALSE /\ moved = FALSE /\ timer = FALSE
  /\ signaled = "none" /\ ending = FALSE /\ owned = FALSE
  /\ step = "idle" /\ who = "none" /\ torn = FALSE
  /\ faults = 0 /\ restarts = 0 /\ frames = 0

Fault == faults < MaxFaults /\ faults' = faults + 1 /\ UNCHANGED <<restarts, frames>>

Blind == tail # "live"      \* tailEvidenceUnavailable
Attached == tail # "lost"
CanTerminate == view = "current" /\ stalled /\ Attached /\ ~moved
Guarded == who = "cutoff"
StatusKnown == UNCHANGED bounds
StatusUnread == Fault

\* clearStallReconciliation: the status recheck stays for a turn without tail evidence.
ClearStall ==
  /\ stalled' = FALSE /\ aged' = FALSE /\ moved' = FALSE
  /\ timer' = (timer /\ Blind)

\* Mutant: a failed closing is left to chance.
RecheckNever == UNCHANGED timer

Recheck == timer' = TRUE
PassEnds == step' = "idle" /\ who' = "none"

-----------------------------------------------------------------------------
(* The host and its frames.                                                *)
Finishes == op = "running" /\ proc = "host" /\ op' = "done" /\ UNCHANGED <<proc, stored, view, tail, stall, timer, signals, step, who, bounds>>

Exits ==
  /\ proc = "host" /\ proc' = "gone"
  /\ UNCHANGED <<op, stored, view, tail, stall, timer, signals, step, who, bounds>>

PidReused ==
  /\ proc = "gone" /\ Fault /\ proc' = "other"
  /\ UNCHANGED <<op, stored, view, tail, stall, timer, signals, step, who>>

\* The activity counts when the frame arrives; the mailbox hears of it later.
Frame ==
  /\ proc = "host" /\ view = "current" /\ Attached /\ stalled /\ ~moved /\ frames < MaxFrames
  /\ moved' = TRUE /\ frames' = frames + 1
  /\ UNCHANGED <<proc, op, stored, view, tail, stalled, aged, timer, signals, step, who, faults, restarts>>

FrameHeard ==
  /\ step = "idle" /\ view = "current" /\ moved
  /\ IF proof \/ (ending /\ owned) THEN UNCHANGED <<stall, timer>> ELSE ClearStall
  /\ moved /\ UNCHANGED <<proc, op, stored, view, tail, signals, step, who, bounds>>

\* The relay breaks or dies: the turn is settled from status from now on.
RelayLost ==
  /\ step = "idle" /\ view = "current" /\ Attached /\ trigger = "open"
  /\ tail' \in {"blind", "lost"} /\ timer' = TRUE
  /\ UNCHANGED <<proc, op, stored, view, stall, signals, step, who, bounds>>

Stall ==
  /\ step = "idle" /\ view = "current" /\ Attached /\ trigger = "open" /\ ~stalled
  /\ stalled' = TRUE /\ moved' = FALSE /\ timer' = TRUE
  /\ UNCHANGED <<proc, op, stored, view, tail, aged, signals, step, who, bounds>>

Ages ==
  /\ stalled /\ ~aged /\ aged' = TRUE
  /\ UNCHANGED <<proc, op, stored, view, tail, stalled, moved, timer, signals, step, who, bounds>>

\* A retired turn stalls: its tail is closed and its host ended without a guard.
RetiredStall ==
  /\ step = "idle" /\ view = "retired" /\ Attached /\ trigger = "open"
  /\ tail' = "lost" /\ timer' = TRUE /\ who' = "discard"
  /\ step' = IF signaled = "none" THEN "look" ELSE "check"
  /\ UNCHANGED <<proc, op, stored, view, stall, signals, bounds>>

-----------------------------------------------------------------------------
(* reconcileBound: the status timer, the sweep and idle frames come here.  *)
MayReconcile == step = "idle" /\ view # "none" /\ trigger = "open"

\* A terminal status settles the turn, whatever the cut-off was about to do.
SettleNow ==
  /\ trigger' = "settled" /\ view' = "none" /\ timer' = FALSE
  /\ stalled' = FALSE /\ aged' = FALSE /\ moved' = FALSE
  /\ UNCHANGED <<proof, told, binding, torn>>

ReconcileTerminal ==
  /\ MayReconcile /\ op = "done" /\ SettleNow
  /\ UNCHANGED <<proc, op, tail, signals, step, who, bounds>>

\* Status failed, or answers unknown: only a proved exit closes the turn.
ReconcileUnread ==
  /\ MayReconcile /\ StatusUnread
  /\ IF proof THEN step' = "notify" /\ who' = "cutoff" /\ timer' = FALSE
     ELSE timer' = (Blind \/ stalled) /\ UNCHANGED <<step, who>>
  /\ UNCHANGED <<proc, op, stored, view, tail, stall, signals>>

ReconcileRunning ==
  /\ MayReconcile /\ op = "running" /\ StatusKnown
  /\ \/ proof /\ step' = "notify" /\ who' = "cutoff" /\ timer' = FALSE /\ UNCHANGED stall
     \/ /\ ~proof /\ stalled /\ aged /\ CanTerminate
        /\ who' = "cutoff" /\ timer' = FALSE /\ UNCHANGED stall
        /\ step' = IF signaled = "none" THEN "look" ELSE "check"
     \/ /\ ~proof /\ stalled /\ aged /\ view = "current" /\ ~CanTerminate
        /\ stalled' = FALSE /\ aged' = FALSE /\ moved' = FALSE /\ timer' = Blind
        /\ UNCHANGED <<step, who>>
     \/ /\ ~proof /\ ~(stalled /\ aged /\ view = "current") /\ timer' = (Blind \/ stalled)
        /\ UNCHANGED <<step, who, stall>>
  /\ UNCHANGED <<proc, op, stored, view, tail, signals>>

-----------------------------------------------------------------------------
(* terminateHost.                                                          *)
AtPc(p) == step = p /\ UNCHANGED <<proc, op, view, tail>>

Refused ==
  /\ PassEnds /\ UNCHANGED <<signaled, stall, stored, owned>>
  /\ timer' = (timer \/ (view # "none" /\ (Blind \/ stalled)))
  /\ UNCHANGED ending

\* The guard of the cut-off refused: activity since the stall ends the stall.
GuardRefused ==
  /\ PassEnds /\ UNCHANGED <<signals, stored>>
  /\ IF CanTerminate THEN UNCHANGED stall /\ timer' = TRUE
     ELSE stalled' = FALSE /\ aged' = FALSE /\ moved' = FALSE /\ timer' = Blind

\* Mutant: a host that was only signalled counts as ended.
TerminatingProves(sig) ==
  /\ PassEnds /\ signaled' = sig /\ UNCHANGED <<stall, trigger, told, binding, torn>>
  /\ proof' = (proof \/ (Guarded /\ trigger = "open"))
  /\ ending' = (ending \/ Guarded) /\ owned' = (owned \/ Guarded)
  /\ timer' = (timer \/ Guarded)

\* A pass that must be repeated: by the host timer for the cut-off and the recheck.
Terminating(sig) ==
  /\ PassEnds /\ signaled' = sig /\ UNCHANGED <<stall, stored>>
  /\ ending' = (ending \/ Guarded) /\ owned' = (owned \/ Guarded)
  /\ timer' = (timer \/ Guarded)

(* The exit is proved. The cut-off and the recheck of its captured turn    *)
(* store the proof before anything else is awaited.                        *)
ExitProved ==
  /\ signaled' = "none"
  /\ LET proves == trigger = "open" /\ (Guarded \/ (who = "recheck" /\ owned /\ view # "none"))
     IN  /\ proof' = (proof \/ proves)
         /\ IF proves THEN step' = (IF Guarded THEN "post" ELSE "idle") /\ who' = (IF Guarded THEN who ELSE "none") ELSE PassEnds
         /\ timer' = (timer \/ (proves /\ ~Guarded))
         /\ ending' = (ending /\ who # "recheck")
  /\ UNCHANGED <<stall, trigger, told, binding, torn, owned>>

Look ==
  /\ AtPc("look")
  /\ \/ proc = "host" /\ step' = (IF Guarded THEN "guard" ELSE "signal") /\ StatusKnown
        /\ UNCHANGED <<who, timer, signals, stall, stored>>
     \/ proc = "gone" /\ ExitProved /\ UNCHANGED bounds
     \/ proc = "other" /\ Refused /\ UNCHANGED bounds
     \/ Refused /\ Fault

Guard ==
  /\ AtPc("guard")
  /\ \/ op = "running" /\ CanTerminate /\ step' = "signal" /\ StatusKnown /\ UNCHANGED <<who, timer, signals, stall, stored>>
     \/ (op = "done" \/ ~CanTerminate) /\ GuardRefused /\ StatusKnown
     \/ GuardRefused /\ StatusUnread

\* The process is read once more and, when it is the one inspected, signalled.
Signal ==
  /\ AtPc("signal")
  /\ \/ proc = "host" /\ signaled' = "term" /\ step' = "grace" /\ UNCHANGED <<who, timer, ending, owned, stall, stored, bounds>>
     \/ proc = "gone" /\ ExitProved /\ UNCHANGED bounds
     \/ proc = "other" /\ Refused /\ UNCHANGED bounds
     \/ Refused /\ Fault

Grace ==
  /\ AtPc("grace")
  /\ \/ proc = "gone" /\ ExitProved /\ UNCHANGED bounds
     \/ proc = "other" /\ Terminating("term") /\ UNCHANGED bounds
     \/ Terminating("term") /\ Fault
     \/ proc = "host" /\ step' = "escalate" /\ UNCHANGED <<who, timer, signals, stall, stored, bounds>>

Escalate ==
  /\ AtPc("escalate")
  /\ \/ (Guarded => op = "running" /\ CanTerminate) /\ step' = "kill"
        /\ UNCHANGED <<who, timer, signals, stall, stored, bounds>>
     \/ Guarded /\ (op = "done" \/ ~CanTerminate) /\ Terminating("term") /\ UNCHANGED bounds
     \/ Guarded /\ Terminating("term") /\ StatusUnread

Kill ==
  /\ AtPc("kill")
  /\ \/ proc = "host" /\ signaled' = "kill" /\ step' = "dead" /\ UNCHANGED <<who, timer, ending, owned, stall, stored, bounds>>
     \/ proc = "gone" /\ ExitProved /\ UNCHANGED bounds
     \/ proc = "other" /\ Terminating("term") /\ UNCHANGED bounds
     \/ Terminating("term") /\ Fault

Dead ==
  /\ AtPc("dead")
  /\ \/ proc = "gone" /\ ExitProved /\ UNCHANGED bounds
     \/ proc # "gone" /\ Terminating("kill") /\ UNCHANGED bounds

\* checkSignaledHost: a process other than the signalled one proves the exit.
Check ==
  /\ AtPc("check")
  /\ \/ proc # "host" /\ ExitProved /\ UNCHANGED bounds
     \/ Refused /\ Fault
     \/ proc = "host" /\ Terminating(signaled) /\ UNCHANGED bounds
     \/ /\ proc = "host" /\ (Guarded /\ signaled = "term" => op = "running" /\ CanTerminate)
        /\ signaled' = "kill" /\ step' = "dead" /\ UNCHANGED <<who, timer, ending, owned, stall, stored, bounds>>

\* The host recheck timer: no guard, the signal is already out.
HostRecheck ==
  /\ step = "idle" /\ ending
  /\ who' = "recheck" /\ step' = IF signaled = "none" THEN "look" ELSE "check"
  /\ UNCHANGED <<proc, op, stored, view, tail, stall, timer, signals, bounds>>

-----------------------------------------------------------------------------
Settling == <<proc, op, tail, signals>>

\* The last status read: a terminal one still wins.
Reread ==
  /\ step = "post" /\ UNCHANGED Settling
  /\ \/ op = "done" /\ SettleNow /\ PassEnds /\ UNCHANGED bounds
     \/ op = "running" /\ CanTerminate /\ step' = "notify" /\ UNCHANGED <<who, view, timer, stall, stored, bounds>>
     \/ op = "running" /\ ~CanTerminate /\ PassEnds /\ Recheck /\ UNCHANGED <<view, stall, stored, bounds>>
     \/ Fault /\ PassEnds /\ Recheck /\ UNCHANGED <<view, stall, stored>>

\* closeTerminatedStalledTurn: the notice is persisted first.
Discarded == view = "retired"

\* Mutant: a notice that failed does not stop the closing.
NotifyBestEffort ==
  /\ step = "notify" /\ UNCHANGED Settling /\ proof
  /\ \/ told' = (told \/ ~Discarded) /\ UNCHANGED bounds
     \/ ~Discarded /\ Fault /\ UNCHANGED told
  /\ step' = "complete"
  /\ UNCHANGED <<who, timer, view, stall, trigger, proof, binding, torn>>

Notify ==
  /\ step = "notify" /\ UNCHANGED Settling /\ proof
  /\ \/ told' = (told \/ ~Discarded) /\ step' = "complete" /\ UNCHANGED <<who, timer, bounds>>
     \/ ~Discarded /\ Fault /\ PassEnds /\ Recheck /\ UNCHANGED told
  /\ UNCHANGED <<view, stall, trigger, proof, binding, torn>>

\* Mutant: the epoch is rotated whatever it is.
RotatesAlways == TRUE

Rotates == view = "current" /\ binding = "this"

\* Completion, release of the proof and rotation commit together.
Complete ==
  /\ step = "complete" /\ UNCHANGED Settling
  /\ \/ /\ trigger' = (IF Discarded THEN "dropped" ELSE "cut") /\ proof' = FALSE /\ view' = "none" /\ timer' = FALSE /\ PassEnds
        /\ stalled' = FALSE /\ aged' = FALSE /\ moved' = FALSE
        /\ binding' = IF Rotates THEN "next" ELSE binding
        /\ torn' = (torn \/ (Rotates /\ binding = "next"))
        /\ UNCHANGED <<told, bounds>>
     \/ Fault /\ PassEnds /\ Recheck /\ UNCHANGED <<view, stall, stored>>

-----------------------------------------------------------------------------
\* /new: the turn is retired, the origin goes on under a new epoch.
New ==
  /\ step = "idle" /\ view = "current" /\ trigger = "open"
  /\ view' = "retired" /\ binding' = "next"
  /\ UNCHANGED <<proc, op, trigger, proof, told, torn, tail, stall, timer, signals, step, who, bounds>>

Dies ==
  /\ restarts < MaxRestarts /\ restarts' = restarts + 1
  /\ view' = "none" /\ tail' = "lost" /\ stalled' = FALSE /\ aged' = FALSE /\ moved' = FALSE
  /\ timer' = FALSE /\ signaled' = "none" /\ ending' = FALSE /\ owned' = FALSE /\ PassEnds
  /\ UNCHANGED <<proc, op, stored, faults, frames>>

\* recoverTurn: with a proof the native operation is read first, no relay is opened.
Recover ==
  /\ step = "idle" /\ view = "none" /\ trigger = "open"
  /\ view' = IF binding = "this" THEN "current" ELSE "retired"
  /\ timer' = TRUE /\ tail' = IF proof \/ proc # "host" THEN "lost" ELSE "blind"
  /\ UNCHANGED <<proc, op, stored, stall, signals, step, who, bounds>>

CutoffNext ==
  \/ Finishes \/ Exits \/ PidReused \/ Frame \/ FrameHeard \/ RelayLost \/ Stall \/ Ages \/ RetiredStall
  \/ ReconcileTerminal \/ ReconcileUnread \/ ReconcileRunning
  \/ Look \/ Guard \/ Signal \/ Grace \/ Escalate \/ Kill \/ Dead \/ Check \/ HostRecheck
  \/ Reread \/ Notify \/ Complete \/ New \/ Dies \/ Recover

CutoffSpec == CutoffInit /\ [][CutoffNext]_cutoff
-----------------------------------------------------------------------------
CutoffTypeOK ==
  /\ proc \in {"host", "gone", "other"} /\ op \in {"running", "done"}
  /\ trigger \in {"open", "cut", "dropped", "settled"} /\ binding \in {"this", "next"}
  /\ view \in {"none", "current", "retired"} /\ tail \in {"live", "blind", "lost"}
  /\ signaled \in {"none", "term", "kill"} /\ who \in {"none", "cutoff", "recheck", "discard"}
  /\ step \in {"idle", "look", "guard", "signal", "grace", "escalate", "kill", "dead", "check",
             "post", "notify", "complete"}

(* A turn is closed as stalled, and its proof stored, only when the host   *)
(* that ran it is gone: no unreadable table, refusal or missing record     *)
(* counts as an exit.                                                      *)
ClosedWhenGone == proof \/ trigger \in {"cut", "dropped"} => proc # "host"

(* A turn whose owner still waits is closed as stalled only after the      *)
(* notice is persisted, whatever dies or fails in between.                 *)
CutTold == trigger = "cut" => told

(* The cut-off never rotates away the binding of a newer epoch.            *)
NewerKept == ~torn

(* A turn nobody will announce the end of has a status check coming.       *)
Polled == view # "none" /\ trigger = "open" /\ step = "idle" /\ (Blind \/ stalled) => timer

(* A silent turn is closed only on the proof that its host is gone, after  *)
(* its owner was told, without touching a newer epoch, and never forgotten.*)
CutOffProved == ClosedWhenGone /\ CutTold /\ NewerKept /\ Polled
=============================================================================

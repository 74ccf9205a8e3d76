-------------------------- MODULE MonitorSessionRoll --------------------------
(***************************************************************************)
(* The safety net over the long-lived session of a monitor origin:         *)
(* #recordAuthoringFailure and #rollSessionIfArmed of                      *)
(* monitors/propagate.ts with decideSessionRoll of monitors/compaction.ts. *)
(*                                                                         *)
(* Dispatches of the origin run one at a time (MonitorPipeline). Each is   *)
(* fresh, replayed, or resumes a saved turn, possibly of a session the     *)
(* origin has left; it is answered or fails in one of the ways the         *)
(* classifiers tell apart. The counters live in memory.                    *)
(***************************************************************************)
EXTENDS Integers

CONSTANTS
  ContextThreshold,  (* contextFailureRollThreshold                        *)
  ProtocolThreshold, (* protocolFailureRollThreshold                       *)
  BusyThreshold,     (* MONITOR_BUSY_FAILURE_ROLL_THRESHOLD                *)
  PriorThreshold,    (* MONITOR_PRIOR_RUN_BUSY_FAILURE_ROLL_THRESHOLD      *)
  MaxRolls,          (* bound: sessions of the origin                      *)
  MaxCount,          (* bound: counters without a ceiling of their own     *)
  MaxResume          (* bound: resumed dispatches and restarts             *)

ASSUME ThresholdAssumption ==
  /\ ContextThreshold \in Nat \ {0} /\ ProtocolThreshold \in Nat \ {0}
  /\ BusyThreshold \in Nat \ {0} /\ PriorThreshold \in Nat \ {0}
  /\ MaxRolls \in Nat \ {0} /\ MaxCount \in Nat /\ MaxResume \in Nat

VARIABLES
  epoch,    (* sessions.epoch of the origin                                *)
  streaks,  (* the counters of MonitorSessionSafetyState                   *)
  pending,  (* pendingRoll                                                 *)
  phase,    (* idle, in a turn, or awaiting native compaction              *)
  bound,    (* boundEpoch of the dispatch; -1 when it resumed another      *)
            (* session's turn                                              *)
  replayed, (* the batch has been reclaimed before                         *)
  stuck,    (* external: how the current session refuses every prompt      *)
  resumes   (* history: resumed dispatches and restarts                    *)

roll == <<epoch, streaks, pending, phase, bound, replayed, stuck, resumes>>

Streaks == {"context", "protocol", "busy", "prior"}
Reasons == {"none", "context", "protocol", "busy", "prior", "host", "wedged"}
Zero == [k \in Streaks |-> 0]
Stuck == {"none", "busy", "prior", "host", "wedged"}

RollInit ==
  /\ epoch = 0 /\ streaks = Zero /\ pending = "none" /\ phase = "idle" /\ bound = 0
  /\ replayed = FALSE /\ stuck = "none" /\ resumes = 0

OfCurrent == bound = epoch
FreshOfCurrent == OfCurrent /\ ~replayed
Capped(c, k) == IF c[k] < MaxCount THEN [c EXCEPT ![k] = @ + 1] ELSE c

-----------------------------------------------------------------------------
(* The boundary of a dispatch.                                             *)

(* The session the origin is bound to changes.                             *)
Rotate == epoch < MaxRolls /\ epoch' = epoch + 1
          /\ stuck' \in Stuck
Same == UNCHANGED <<epoch, stuck>>

(* A fresh or replayed dispatch rolls an armed session first; the bind may *)
(* find the session gone and rotate as well.                               *)
Begin(again) ==
  /\ phase = "idle" /\ phase' = "turn" /\ replayed' = again
  /\ \/ /\ pending # "none" /\ Rotate
        /\ pending' = "none" /\ streaks' = Zero
     \/ /\ pending = "none" /\ (Same \/ Rotate)
        /\ UNCHANGED <<streaks, pending>>
  /\ bound' = epoch' /\ UNCHANGED resumes

(* A resumed turn is harvested before any roll, in the session it ran in.  *)
ResumeTurn(current) ==
  /\ phase = "idle" /\ phase' = "turn" /\ resumes < MaxResume /\ resumes' = resumes + 1
  /\ bound' = (IF current THEN epoch ELSE -1) /\ replayed' = TRUE
  /\ Same /\ UNCHANGED <<streaks, pending>>

(* The session begins to refuse.                                           *)
Sticks(k) ==
  /\ stuck = "none" /\ stuck' = k
  /\ UNCHANGED <<epoch, streaks, pending, phase, bound, replayed, resumes>>

Restart ==
  /\ resumes < MaxResume /\ resumes' = resumes + 1
  /\ streaks' = Zero /\ pending' = "none" /\ phase' = "idle"
  /\ UNCHANGED <<epoch, bound, replayed, stuck>>

-----------------------------------------------------------------------------
(* The outcome of a dispatch.                                              *)

Able(k) == phase = "turn" /\ (OfCurrent => stuck \in {"none", k})
Over == phase' = "idle" /\ UNCHANGED <<epoch, bound, replayed, stuck, resumes>>

(* An answer ends the prior-run streak of its session, and a non-empty one *)
(* the context and busy streaks.                                           *)
Cleared(c, empty) ==
  [k \in Streaks |-> IF bound # -1 /\ (k = "prior" \/ (~empty /\ k \in {"context", "busy"}))
                     THEN 0 ELSE c[k]]

TurnAnswered ==
  /\ Able("none") /\ streaks' = Cleared(streaks, FALSE)
  /\ Over /\ UNCHANGED pending

(* The first lines of #recordAuthoringFailure.                             *)
Priorless(c) == IF OfCurrent THEN [c EXCEPT !["prior"] = 0] ELSE c
Unbusy(c) == [c EXCEPT !["busy"] = 0]

(* Mutant: whichever session refused.                                      *)
FailBusyAny ==
  LET c == Capped(Priorless(streaks), "busy") IN
  /\ Able("busy") /\ streaks' = c
  /\ pending' = IF pending = "none" /\ c["busy"] >= BusyThreshold THEN "busy" ELSE pending
  /\ Over

FailBusy ==
  LET c == Capped(Priorless(streaks), "busy") IN
  /\ Able("busy") /\ streaks' = c
  /\ pending' = IF OfCurrent /\ pending = "none" /\ c["busy"] >= BusyThreshold
                THEN "busy" ELSE pending
  /\ Over

FailPrior ==
  LET c == [Unbusy(streaks) EXCEPT !["prior"] = IF @ < PriorThreshold THEN @ + 1 ELSE @] IN
  /\ Able("prior") /\ Over
  /\ IF OfCurrent
     THEN /\ streaks' = c
          /\ pending' = IF pending = "none" /\ c["prior"] >= PriorThreshold
                        THEN "prior" ELSE pending
     ELSE UNCHANGED <<streaks, pending>>

(* The host is gone, or took the prompt and never began a run.             *)
FailHost(k) ==
  /\ k \in {"host", "wedged"} /\ Able(k)
  /\ streaks' = Unbusy(Priorless(streaks))
  /\ pending' = IF OfCurrent /\ pending = "none" THEN k ELSE pending
  /\ Over

FailExecutor ==
  /\ Able("none") /\ streaks' = Unbusy(Priorless(streaks))
  /\ Over /\ UNCHANGED pending

(* An answer that broke the contract: counted as an answer first.          *)
FailProtocol ==
  LET c == Capped(Unbusy(Priorless(Cleared(streaks, FALSE))), "protocol") IN
  /\ Able("none") /\ streaks' = c
  /\ pending' = IF FreshOfCurrent /\ c["protocol"] >= ProtocolThreshold THEN "protocol" ELSE pending
  /\ Over

(* A context failure of the session's own fresh work asks for native       *)
(* compaction first.                                                       *)
FailContext ==
  LET c == Unbusy(Priorless(streaks)) IN
  /\ Able("none") /\ UNCHANGED <<epoch, pending, bound, replayed, stuck, resumes>>
  /\ IF FreshOfCurrent
     THEN /\ streaks' = Capped(c, "context")
          /\ phase' = "compact"
     ELSE /\ streaks' = c /\ phase' = "idle"

(* decideSessionRoll.                                                      *)
Decides(status) == streaks["context"] >= ContextThreshold /\ status \in {"unavailable", "failed", "skipped"}
Compacted(status) ==
  /\ phase = "compact"
  /\ pending' = IF Decides(status) THEN "context" ELSE pending
  /\ Over /\ UNCHANGED streaks

RollNext ==
  \/ \E b \in BOOLEAN : Begin(b) \/ ResumeTurn(b)
  \/ \E k \in Stuck \ {"none"} : Sticks(k)
  \/ Restart \/ TurnAnswered \/ FailBusy \/ FailPrior \/ FailExecutor \/ FailProtocol \/ FailContext
  \/ \E k \in {"host", "wedged"} : FailHost(k)
  \/ \E s \in {"succeeded", "unavailable", "failed", "skipped"} : Compacted(s)

RollSpec == RollInit /\ [][RollNext]_roll

-----------------------------------------------------------------------------
(* Properties.                                                             *)

(* The streaks, the pending reason and the dispatch under way.             *)
RollTypeOK ==
  /\ epoch \in 0..MaxRolls /\ streaks \in [Streaks -> Nat]
  /\ \A k \in Streaks : streaks[k] <= IF k = "prior" THEN PriorThreshold ELSE MaxCount
  /\ pending \in Reasons /\ phase \in {"idle", "turn", "compact"}
  /\ bound \in -1..epoch /\ replayed \in BOOLEAN /\ stuck \in Stuck /\ resumes \in 0..MaxResume

(* The failure of a session the origin has left, or of a replayed batch's  *)
(* context or contract, never arms a roll of its successor.                *)
DeadIsQuiet ==
  pending' # pending /\ pending' # "none" =>
    bound = epoch /\ (pending' \in {"context", "protocol"} => ~replayed)
(* No step of the origin arms a roll that is not its session's due.        *)
DeadNeverArms == [][DeadIsQuiet]_roll
===============================================================================

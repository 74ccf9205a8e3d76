---------------------------- MODULE PromptJournal ----------------------------
(***************************************************************************)
(* One prompt in the broker journal (broker_operations, kind turn.prompt)  *)
(* and the calls of BrokerSessionPort.send that name it.                   *)
(*                                                                         *)
(* turn.prompt is not idempotent at the session, so send writes an intent  *)
(* row before it calls and the answer after. A call runs from one await to *)
(* the next: attaching a relay, selecting the model, about to submit, the  *)
(* request in hand, sampling a busy host, asking what became of an earlier *)
(* request. Several calls may name the same prompt (a retry beside a call  *)
(* that waits out a busy session), and the process may die at any await    *)
(* with a request under way.                                               *)
(*                                                                         *)
(* Of the session it is assumed that a busy or refused answer means it did *)
(* not take that request, that a reference it already took is answered     *)
(* with a conflict, and that it reports a status other than unknown only   *)
(* for a prompt it took.                                                   *)
(***************************************************************************)
EXTENDS FiniteSets

CONSTANT Caller      \* calls of send that may be in progress together

VARIABLES
  row,               \* the journal row of this prompt, durable
  pc,                \* the await each call is at
  intent,            \* the row as the call last read or wrote it
  wire,              \* what became of the request a call is waiting on
  late,              \* calls whose busy deadline has passed
  sampled,           \* calls that sampled the busy host before
  adrift,            \* calls that died on a written request which may still land
  taken,             \* the session accepted the prompt
  dropped,           \* its owner relinquished it on the evidence of a refusal
  told,              \* calls that returned a receipt
  denied             \* calls that reported a stalled busy session

memory == <<intent, late, sampled>>
fate == <<adrift, taken, dropped>>
heard == <<told, denied>>
vars == <<row, pc, wire, memory, fate, heard>>

Rows == {"absent", "pending", "busy", "receipt"}
Phases == {"idle", "attach", "model", "submit", "sending", "probing", "asking"}
Intents == {"fresh", "resumed", "busy"}
Wires == {"none", "unwritten", "out", "ok", "busy", "refused", "conflict"}

TypeOK ==
  /\ row \in Rows
  /\ pc \in [Caller -> Phases]
  /\ intent \in [Caller -> Intents]
  /\ wire \in [Caller -> Wires]
  /\ late \in [Caller -> BOOLEAN]
  /\ sampled \subseteq Caller /\ adrift \subseteq Caller
  /\ taken \in BOOLEAN /\ dropped \in BOOLEAN
  /\ told \subseteq Caller /\ denied \subseteq Caller
  /\ \A c \in Caller : (pc[c] = "sending") = (wire[c] # "none")

Init ==
  /\ row = "absent"
  /\ pc = [c \in Caller |-> "idle"]
  /\ intent = [c \in Caller |-> "fresh"]
  /\ wire = [c \in Caller |-> "none"]
  /\ late = [c \in Caller |-> FALSE]
  /\ sampled = {} /\ adrift = {} /\ taken = FALSE /\ dropped = FALSE
  /\ told = {} /\ denied = {}

Goto(c, p) == pc' = [pc EXCEPT ![c] = p]

\* The request of c is answered, torn or was never made.
WireIs(c, w) == wire' = [wire EXCEPT ![c] = w]

\* releaseBrokerOperation: the row of this reference goes, whatever its state.
Release == row' = "absent"

(***************************************************************************)
(* completePromptOperation: the first persisted acceptance stands. A row   *)
(* that is gone, or that holds a refusal, is an identity error.            *)
(***************************************************************************)
Accept(c) ==
  /\ Goto(c, "idle")
  /\ IF row \in {"pending", "receipt"}
     THEN row' = "receipt" /\ told' = told \cup {c}
     ELSE UNCHANGED <<row, told>>

\* completeBrokerOperation with the busy refusal: pending, or the same answer again.
KeepRefusal == row' = IF row = "pending" THEN "busy" ELSE row

-----------------------------------------------------------------------------
(* The call.                                                               *)

\* Mutant: a pending intent is taken for one that was never sent.
BeginAnew(c) ==
  /\ pc[c] = "idle" /\ ~dropped /\ row # "receipt"
  /\ row' = IF row = "absent" THEN "pending" ELSE row
  /\ intent' = [intent EXCEPT ![c] = IF row = "busy" THEN "busy" ELSE "fresh"]
  /\ told' = told \ {c} /\ denied' = denied \ {c}
  /\ late' = [late EXCEPT ![c] = FALSE]
  /\ sampled' = sampled \ {c}
  /\ Goto(c, "attach")
  /\ UNCHANGED <<wire, fate>>

(***************************************************************************)
(* Begin: send records the intent, or reads the row an earlier attempt     *)
(* left. An accepted prompt answers at once. An owner that relinquished    *)
(* the prompt goes on under a fresh reference, so it never calls again.    *)
(***************************************************************************)
Begin(c) ==
  /\ pc[c] = "idle" /\ ~dropped
  /\ denied' = denied \ {c}
  /\ late' = [late EXCEPT ![c] = FALSE]
  /\ sampled' = sampled \ {c}
  /\ UNCHANGED <<wire, fate>>
  /\ \/ /\ row = "receipt"
        /\ told' = told \cup {c}
        /\ UNCHANGED <<row, pc, intent>>
     \/ /\ row # "receipt"
        /\ row' = IF row = "absent" THEN "pending" ELSE row
        /\ intent' = [intent EXCEPT ![c] = IF row = "absent" THEN "fresh"
                                          ELSE IF row = "pending" THEN "resumed"
                                          ELSE "busy"]
        /\ told' = told \ {c}
        /\ Goto(c, "attach")

\* A pending intent of an earlier call is asked about; anything else is submitted.
Attach(c) ==
  /\ pc[c] = "attach"
  /\ Goto(c, IF intent[c] = "resumed" THEN "asking" ELSE "model")
  /\ UNCHANGED <<row, wire, memory, fate, heard>>

\* Only the call that wrote the intent removes it when no relay can be had.
AttachFails(c) ==
  /\ pc[c] = "attach"
  /\ Goto(c, "idle")
  /\ IF intent[c] = "fresh" THEN Release ELSE UNCHANGED row
  /\ UNCHANGED <<wire, memory, fate, heard>>

ModelSet(c) ==
  /\ pc[c] = "model"
  /\ Goto(c, "submit")
  /\ UNCHANGED <<row, wire, memory, fate, heard>>

\* Model selection is preflight: the intent goes, a known refusal stays.
ModelFails(c) ==
  /\ pc[c] = "model"
  /\ Goto(c, "idle")
  /\ IF intent[c] = "busy" THEN UNCHANGED row ELSE Release
  /\ UNCHANGED <<wire, memory, fate, heard>>

\* Mutant: the retry of a refused prompt is submitted without claiming the row.
SubmitUnclaimed(c) ==
  /\ pc[c] = "submit"
  /\ Goto(c, "sending") /\ WireIs(c, "unwritten")
  /\ UNCHANGED <<row, memory, fate, heard>>

(***************************************************************************)
(* One turn of the submission loop up to relay.control. A refused prompt   *)
(* is re-armed first: another call may have accepted it meanwhile, may     *)
(* have a request of its own under way, or the owner may have let it go.   *)
(***************************************************************************)
Submit(c) ==
  /\ pc[c] = "submit"
  /\ UNCHANGED <<denied, memory, fate>>
  /\ \/ /\ intent[c] # "busy" \/ row = "busy"
        /\ row' = IF intent[c] = "busy" THEN "pending" ELSE row
        /\ Goto(c, "sending") /\ WireIs(c, "unwritten")
        /\ UNCHANGED told
     \/ /\ intent[c] = "busy" /\ row = "receipt"
        /\ Accept(c)
        /\ UNCHANGED wire
     \/ /\ intent[c] = "busy" /\ row = "pending"
        /\ Goto(c, "asking")
        /\ UNCHANGED <<row, wire, told>>
     \/ /\ intent[c] = "busy" /\ row = "absent"
        /\ Goto(c, "idle")
        /\ UNCHANGED <<row, wire, told>>

Write(c) ==
  /\ wire[c] = "unwritten"
  /\ WireIs(c, "out")
  /\ UNCHANGED <<row, pc, memory, fate, heard>>

\* The relay closes before the frame is written: of a retry, the refusal still stands.
Unwritten(c) ==
  /\ wire[c] = "unwritten"
  /\ WireIs(c, "none") /\ Goto(c, "idle")
  /\ IF intent[c] = "busy" THEN KeepRefusal ELSE UNCHANGED row
  /\ UNCHANGED <<memory, fate, heard>>

\* The relay closes, or the request times out, after the frame was written.
Torn(c) ==
  /\ wire[c] \notin {"none", "unwritten"}
  /\ WireIs(c, "none") /\ Goto(c, "idle")
  /\ adrift' = IF wire[c] = "out" THEN adrift \cup {c} ELSE adrift
  /\ UNCHANGED <<row, taken, dropped, memory, heard>>

AnswerOk(c) ==
  /\ wire[c] = "ok"
  /\ WireIs(c, "none") /\ Accept(c)
  /\ UNCHANGED <<denied, memory, fate>>

\* The session knows the reference: only a later status read may decide.
AnswerConflict(c) ==
  /\ wire[c] = "conflict"
  /\ WireIs(c, "none") /\ Goto(c, "idle")
  /\ UNCHANGED <<row, memory, fate, heard>>

\* model_not_selected, or any other definite refusal but busy.
AnswerRefused(c) ==
  /\ wire[c] = "refused"
  /\ WireIs(c, "none") /\ Goto(c, "idle") /\ Release
  /\ UNCHANGED <<memory, fate, heard>>

\* The refusal is durable before the call waits; a row that moved on is an error.
AnswerBusy(c) ==
  /\ wire[c] = "busy"
  /\ WireIs(c, "none") /\ KeepRefusal
  /\ Goto(c, IF row \in {"pending", "busy"} THEN "probing" ELSE "idle")
  /\ intent' = [intent EXCEPT ![c] = "busy"]
  /\ UNCHANGED <<late, sampled, fate, heard>>

\* Mutant: the wait never looks at its deadline.
ProbedForever(c) ==
  /\ pc[c] = "probing"
  /\ Goto(c, "submit")
  /\ sampled' = sampled \cup {c}
  /\ UNCHANGED <<row, intent, wire, late, fate, heard>>

(***************************************************************************)
(* The progress sample is in. A host that did not move since an earlier    *)
(* sample may be reported stalled, a passed deadline ends the wait,        *)
(* otherwise the call sleeps and retries.                                  *)
(***************************************************************************)
Probed(c) ==
  /\ pc[c] = "probing"
  /\ UNCHANGED <<row, intent, wire, late, told, fate>>
  /\ \/ /\ c \in sampled
        /\ Goto(c, "idle")
        /\ denied' = denied \cup {c}
        /\ UNCHANGED sampled
     \/ /\ Goto(c, IF late[c] THEN "idle" ELSE "submit")
        /\ sampled' = sampled \cup {c}
        /\ UNCHANGED denied

\* Mutant: an unknown status is taken for an acceptance.
AskTrusting(c) ==
  /\ pc[c] = "asking"
  /\ Accept(c)
  /\ UNCHANGED <<wire, denied, memory, fate>>

\* The session reports the prompt accepted, running or ended.
AskKnown(c) ==
  /\ pc[c] = "asking" /\ taken
  /\ Accept(c)
  /\ UNCHANGED <<wire, denied, memory, fate>>

\* Unknown, also for a prompt it took, or no answer at all: never resent.
AskUnknown(c) ==
  /\ pc[c] = "asking"
  /\ Goto(c, "idle")
  /\ UNCHANGED <<row, wire, memory, fate, heard>>

\* The clock passes the deadline of a call that submits.
Expire(c) ==
  /\ pc[c] \in {"submit", "sending", "probing"} /\ ~late[c]
  /\ late' = [late EXCEPT ![c] = TRUE]
  /\ UNCHANGED <<row, pc, intent, wire, sampled, fate, heard>>

-----------------------------------------------------------------------------
(* The session, the owner and the process.                                 *)

HostTakes(c) ==
  /\ wire[c] = "out" /\ ~taken
  /\ taken' = TRUE
  /\ WireIs(c, "ok")
  /\ UNCHANGED <<row, pc, adrift, dropped, memory, heard>>

HostAnswers(c) ==
  /\ wire[c] = "out"
  /\ IF taken THEN WireIs(c, "conflict")
              ELSE \E w \in {"busy", "refused"} : WireIs(c, w)
  /\ UNCHANGED <<row, pc, memory, fate, heard>>

\* A torn request lands after all: the session takes it, or does not.
Lands(c) ==
  /\ c \in adrift
  /\ adrift' = adrift \ {c}
  /\ taken' = TRUE \/ UNCHANGED taken
  /\ UNCHANGED <<row, pc, wire, dropped, memory, heard>>

(***************************************************************************)
(* The owner of the prompt ends or requeues its work for good and, in the  *)
(* same transaction, drops the refusal (abandonBrokerPromptBusyRefusal; a  *)
(* settled work attempt leaves it to the next prune).                      *)
(***************************************************************************)
Abandon ==
  /\ row = "busy"
  /\ Release
  /\ dropped' = TRUE
  /\ UNCHANGED <<pc, wire, adrift, taken, memory, heard>>

\* A receipt is pruned after an hour, when no call of its own time is left.
Prune ==
  /\ row = "receipt"
  /\ \A c \in Caller : pc[c] = "idle"
  /\ Release
  /\ UNCHANGED <<pc, wire, memory, fate, heard>>

\* Memory goes; requests that were written may still land.
Crash ==
  /\ \E c \in Caller : pc[c] # "idle"
  /\ pc' = [c \in Caller |-> "idle"]
  /\ wire' = [c \in Caller |-> "none"]
  /\ adrift' = adrift \cup {c \in Caller : wire[c] = "out"}
  /\ told' = {} /\ denied' = {}
  /\ UNCHANGED <<row, taken, dropped, memory>>

\* The steps of a call, each the end of an await that has a timeout.
Step(c) ==
  \/ Attach(c) \/ AttachFails(c) \/ ModelSet(c) \/ ModelFails(c)
  \/ Submit(c) \/ Write(c) \/ Unwritten(c) \/ Torn(c)
  \/ AnswerOk(c) \/ AnswerConflict(c) \/ AnswerRefused(c) \/ AnswerBusy(c)
  \/ Probed(c) \/ AskKnown(c) \/ AskUnknown(c)

Next ==
  \/ \E c \in Caller : Begin(c) \/ Step(c) \/ Expire(c)
  \/ \E c \in Caller : HostTakes(c) \/ HostAnswers(c) \/ Lands(c)
  \/ Abandon \/ Prune \/ Crash

Spec == Init /\ [][Next]_vars

\* A call's awaits all end and time passes; of the session nothing is assumed.
Fairness == \A c \in Caller : WF_vars(Step(c)) /\ WF_vars(Expire(c))

FairSpec == Spec /\ Fairness

-----------------------------------------------------------------------------
(* Properties.                                                             *)

\* A request of c is written and unanswered: the session may still take it.
Underway(c) == wire[c] = "out" \/ c \in adrift

(***************************************************************************)
(* A durable busy refusal proves the prompt was not accepted and that no   *)
(* request for it is under way (docs/architecture.md on the journal).      *)
(***************************************************************************)
RefusalProves ==
  row = "busy" => ~taken /\ \A c \in Caller : ~Underway(c)

(***************************************************************************)
(* While the prompt is not accepted at most one request for it is under    *)
(* way: retries, restarts and concurrent calls never submit it twice.      *)
(***************************************************************************)
OneSubmission ==
  ~taken => /\ \A c, d \in Caller : Underway(c) /\ Underway(d) => c = d
            /\ \A c \in Caller : c \in adrift => wire[c] # "out"

(***************************************************************************)
(* A prompt that may still be accepted keeps its pending intent, so that   *)
(* every later call asks about it instead of sending it again.             *)
(***************************************************************************)
UncertainKept ==
  ~taken /\ (\E c \in Caller : Underway(c)) => row = "pending"

Promise == INSTANCE PromptPromise WITH taken <- taken, dropped <- dropped, told <- told,
                                       Caller <- Caller

(***************************************************************************)
(* The journal implements the promise: taken at most once, receipts only   *)
(* for what was taken, nothing taken after its owner dropped it.           *)
(***************************************************************************)
KeepsPromise == Promise!Spec

(***************************************************************************)
(* Every call of send returns or fails, also when the session answers busy *)
(* forever: the busy wait is bounded by its deadline.                      *)
(***************************************************************************)
EverySendEnds == \A c \in Caller : (pc[c] # "idle") ~> (pc[c] = "idle")
=============================================================================

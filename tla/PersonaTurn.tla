----------------------------- MODULE PersonaTurn -----------------------------
(***************************************************************************)
(* One conversation: the inbound rows of store/groups/inbox.ts, the        *)
(* per-origin actor of orchestrator/persona-session.ts that turns them     *)
(* into turns and steers of a broker-hosted session, and the session       *)
(* itself, seen through the port.                                          *)
(*                                                                         *)
(* The actor's mailbox runs one task at a time; a task yields only at its  *)
(* awaits, which are the phases of pc. Arrivals commit between any two     *)
(* steps. A crash loses the actor's memory and keeps every row.            *)
(*                                                                         *)
(* An operation is named by its trigger, the epoch (one session each) and  *)
(* the attempt, as personaTurnOpRef does. A request whose transport tore   *)
(* is in transit: it may still land, at any later time.                    *)
(***************************************************************************)
EXTENDS Integers, FiniteSets

CONSTANTS
  N,          (* messages of the conversation, in arrival order            *)
  MaxEpoch,   (* bound: epochs                                             *)
  MaxTries    (* bound: no requeue once a trigger has had this many        *)

ASSUME BoundAssumption == N \in Nat /\ MaxEpoch \in Nat /\ MaxTries \in Nat

VARIABLES
  row,        (* inbound_messages                                          *)
  unread,     (* conversation_context rows with consumed_at NULL           *)
  epoch,      (* sessions.epoch of the origin                              *)
  tries,      (* fresh-turn meta counters                                  *)
  escalated,  (* escalated-hold meta keys                                  *)
  told,       (* history: operations whose end the origin was told of     *)
  fenced,     (* history: operations retired by /new                       *)
  loosed,     (* history: messages a retry released with a steer undecided *)
  pc,         (* the await the actor's current task is at                  *)
  cur,        (* #current                                                  *)
  ctx,        (* contextMessageIds of the current lifecycle                *)
  steered,    (* the row being steered                                     *)
  adopted,    (* the current turn was recovered, not sent, by this process *)
  held,       (* #holdSweeps has the current operation                     *)
  shut,       (* its reply is visible or a steer was refused               *)
  paused,     (* #modelRefusalPaused                                       *)
  retired,    (* #retired                                                  *)
  host,       (* external: what became of each operation's prompt          *)
  srec,       (* external: what became of each steer's clientRef           *)
  alive       (* external: the broker lists the session of an epoch live   *)

rowVars == <<row, unread, epoch, tries, escalated>>
historyVars == <<told, fenced, loosed>>
actorVars == <<pc, cur, ctx, steered, adopted, held, shut, paused, retired>>
hostVars == <<host, srec, alive>>
vars == <<rowVars, historyVars, actorVars, hostVars>>

Messages == 1..N
Epochs == 0..MaxEpoch
Ops == [msg : Messages, epoch : Epochs, try : 0..MaxTries]
NoOp == [msg |-> 0, epoch |-> 0, try |-> 0]

(* recorded: only the context ledger has it. steer: issued into op, answer *)
(* unknown. A done row is a trigger's when op.msg is the row itself.       *)
RowStates == {"absent", "recorded", "pending", "bound", "accepted", "steer", "done"}
Row == [st : RowStates, op : Ops \cup {NoOp}, sent : BOOLEAN, claim : SUBSET Messages]
Plain(s) == [st |-> s, op |-> NoOp, sent |-> FALSE, claim |-> {}]

(* unselected and busy are refusals; unstarted is a submission failure,    *)
(* dropped a provider transport failure, cut a confirmed host exit.        *)
HostStates == {"none", "transit", "busy", "unselected", "queued", "running",
               "ok", "failed", "dropped", "unstarted", "cut"}
Landed == {"queued", "running", "ok", "failed", "dropped", "unstarted", "cut"}
Terminal == {"ok", "failed", "dropped", "unstarted", "cut"}
MayAct == {"transit", "queued", "running", "ok", "failed", "cut"}

Init ==
  /\ row = [m \in Messages |-> Plain("absent")]
  /\ unread = {}
  /\ epoch = 0
  /\ tries = [m \in Messages |-> [e \in Epochs |-> 0]]
  /\ escalated = {} /\ told = {} /\ fenced = {} /\ loosed = {}
  /\ pc = "free" /\ cur = NoOp /\ ctx = {} /\ steered = 0
  /\ adopted = FALSE /\ held = FALSE /\ shut = FALSE /\ paused = FALSE
  /\ retired = {}
  /\ host = [o \in Ops |-> "none"]
  /\ srec = [m \in Messages |-> [e \in Epochs |-> "none"]]
  /\ alive = [e \in Epochs |-> FALSE]

-----------------------------------------------------------------------------
(* Reading and rewriting rows.                                             *)

Open(m) == row[m].st \in {"bound", "accepted"}
OpenOps == {row[m].op : m \in {n \in Messages : Open(n)}}
Unresolved == {o \in OpenOps : o.epoch = epoch}
Tracked == retired \cup {cur}
Steers(o) == {m \in Messages : row[m].op = o /\ m # o.msg}

(* pendingOldest.                                                          *)
PendingOldest == {m \in Messages : row[m].st = "pending" /\ \A n \in Messages :
                    row[n].st = "pending" => m <= n}
(* steersHeld of the current operation, oldest first.                      *)
HeldOldest == {m \in Messages : row[m].st = "steer" /\ row[m].op = cur /\
                 \A n \in Messages : row[n].st = "steer" /\ row[n].op = cur => m <= n}

(* turnAccept closes the steers bound to the operation as well.            *)
Accept(o) ==
  [m \in Messages |->
     IF row[o.msg].st = "bound" /\ row[m].op = o /\ row[m].st \in {"bound", "steer"}
     THEN [row[m] EXCEPT !.st = IF @ = "bound" THEN "accepted" ELSE "done"]
     ELSE row[m]]

(* turnComplete leaves unanswered steers where they are.                   *)
Complete(o) ==
  [m \in Messages |-> IF m = o.msg THEN [row[m] EXCEPT !.st = "done"] ELSE row[m]]

(* turnRequeue: the trigger and its unanswered steers.                     *)
Requeue(o) ==
  [m \in Messages |->
     IF row[m].op = o /\ row[m].st \in {"bound", "accepted", "steer"}
     THEN Plain("pending") ELSE row[m]]

(* retryInboundTurn: a fresh attempt number, then the requeue.             *)
Retry(o) ==
  /\ \A m \in Messages, e \in Epochs : tries[m][e] < MaxTries
  /\ tries' = [tries EXCEPT ![o.msg][o.epoch] = @ + 1]
  /\ row' = Requeue(o)

(* rotateEpoch, when the condition calls for it.                           *)
RotateIf(c) ==
  /\ c => epoch < MaxEpoch
  /\ epoch' = IF c THEN epoch + 1 ELSE epoch

(* sentContextIds.                                                         *)
Claimed(o) == {o.msg} \cup row[o.msg].claim \cup Steers(o)

(* The actor forgets its current turn.                                     *)
Idle == cur' = NoOp /\ ctx' = {} /\ adopted' = FALSE /\ held' = FALSE /\ shut' = FALSE

(* The actor drops an operation, current or retired, that is settled.      *)
Forget(o) ==
  /\ retired' = retired \ {o}
  /\ IF o = cur THEN Idle ELSE UNCHANGED <<cur, ctx, adopted, held, shut>>

-----------------------------------------------------------------------------
(* Intake: the context ledger first, then the durable queue row.           *)

Record(m) ==
  /\ pc # "down" /\ row[m].st = "absent"
  /\ \A n \in Messages : n < m => row[n].st # "absent"
  /\ row' = [row EXCEPT ![m] = Plain("recorded")]
  /\ unread' = unread \cup {m}
  /\ UNCHANGED <<epoch, tries, escalated, historyVars, actorVars, hostVars>>

Enqueue(m) ==
  /\ pc # "down" /\ row[m].st = "recorded"
  /\ \A n \in Messages : n > m => row[n].st \in {"absent", "recorded"}
  /\ row' = [row EXCEPT ![m] = Plain("pending")]
  /\ UNCHANGED <<unread, epoch, tries, escalated, historyVars, actorVars, hostVars>>

-----------------------------------------------------------------------------
(* Dispatching the oldest pending row as the next turn.                    *)

(* Mutant: an unresolved turn of this epoch does not fence the next one.   *)
DispatchUnfenced ==
  /\ pc = "free" /\ cur = NoOp /\ ~paused
  /\ \E m \in PendingOldest :
       LET o == [msg |-> m, epoch |-> epoch, try |-> tries[m][epoch]]
       IN  /\ row' = [row EXCEPT ![m] =
                        [st |-> "bound", op |-> o, sent |-> FALSE, claim |-> {}]]
           /\ cur' = o
  /\ pc' = "bound"
  /\ alive' = [alive EXCEPT ![epoch] = TRUE]
  /\ UNCHANGED <<unread, epoch, tries, escalated, historyVars, ctx, steered,
                 adopted, held, shut, paused, retired, host, srec>>

(* #dispatchNext up to bindTurn: a live or resumed session, then the bind. *)
Dispatch ==
  /\ pc = "free" /\ cur = NoOp /\ ~paused /\ Unresolved = {}
  /\ \E m \in PendingOldest :
       LET o == [msg |-> m, epoch |-> epoch, try |-> tries[m][epoch]]
       IN  /\ row' = [row EXCEPT ![m] =
                        [st |-> "bound", op |-> o, sent |-> FALSE, claim |-> {}]]
           /\ cur' = o
  /\ pc' = "bound"
  /\ alive' = [alive EXCEPT ![epoch] = TRUE]
  /\ UNCHANGED <<unread, epoch, tries, escalated, historyVars, ctx, steered,
                 adopted, held, shut, paused, retired, host, srec>>

(* #noteBindFailure: a poisoned session key rotates the epoch.             *)
BindPoisoned ==
  /\ pc = "free" /\ cur = NoOp /\ ~paused /\ Unresolved = {} /\ PendingOldest # {}
  /\ RotateIf(TRUE)
  /\ UNCHANGED <<row, unread, tries, escalated, historyVars, actorVars, hostVars>>

(* startTurn: the prompt carries the unread messages of the conversation.  *)
StartTurn ==
  /\ pc = "bound"
  /\ pc' = "prepared"
  /\ ctx' = unread \cup {cur.msg}
  /\ UNCHANGED <<rowVars, historyVars, cur, steered, adopted, held, shut, paused,
                 retired, hostVars>>

(* #requeuePreSend, and the model selection that fails before the send: a  *)
(* session proven gone is rotated away from.                               *)
PreSendFails ==
  /\ pc \in {"bound", "prepared"}
  /\ Retry(cur)
  /\ \E gone \in {FALSE, ~alive[epoch]} : RotateIf(gone)
  /\ pc' = "free" /\ Idle
  /\ UNCHANGED <<unread, escalated, historyVars, steered, paused, retired, hostVars>>

(* markSendAttempted: from here on the prompt may land.                    *)
MarkSendAttempted ==
  /\ pc = "prepared"
  /\ pc' = "sending"
  /\ row' = [row EXCEPT ![cur.msg] = [st |-> "bound", op |-> cur, sent |-> TRUE, claim |-> ctx]]
  /\ UNCHANGED <<unread, epoch, tries, escalated, historyVars, cur, ctx, steered,
                 adopted, held, shut, paused, retired, hostVars>>

(* The session takes or refuses the prompt; the answer is still on its way.*)
PromptReaches(answer) ==
  /\ pc = "sending" /\ host[cur] = "none"
  /\ answer \in {"queued", "busy", "unselected"}
  /\ host' = [host EXCEPT ![cur] = answer]
  /\ UNCHANGED <<rowVars, historyVars, actorVars, srec, alive>>

(* port.send returned a receipt.                                           *)
SendAccepted ==
  /\ pc = "sending" /\ host[cur] \in Landed
  /\ row' = Accept(cur)
  /\ pc' = "free"
  /\ UNCHANGED <<unread, epoch, tries, escalated, historyVars, cur, ctx, steered,
                 adopted, held, shut, paused, retired, hostVars>>

(* #releaseUnadmittedSend, and the model refusal that pauses the origin.   *)
SendRefused ==
  /\ pc = "sending" /\ host[cur] \in {"busy", "unselected"}
  /\ Retry(cur)
  /\ paused' = (host[cur] = "unselected")
  /\ pc' = "free" /\ Idle
  /\ UNCHANGED <<unread, epoch, escalated, historyVars, steered, retired, hostVars>>

(* port.send failed without an answer: the turn stays bound and current.   *)
SendTorn ==
  /\ pc = "sending" /\ host[cur] # "busy"
  /\ IF host[cur] = "none"
     THEN \E s \in {"none", "transit"} : host' = [host EXCEPT ![cur] = s]
     ELSE UNCHANGED host
  /\ pc' = "free"
  /\ UNCHANGED <<rowVars, historyVars, cur, ctx, steered, adopted, held, shut,
                 paused, retired, srec, alive>>

-----------------------------------------------------------------------------
(* Steering rows into the running turn.                                    *)

SteerOpen == pc = "free" /\ cur # NoOp /\ ~paused /\ ~shut /\ ~held

(* #steerPending takes the unanswered steers first, then pending rows.     *)
SteerNext == IF HeldOldest # {} THEN HeldOldest ELSE PendingOldest

(* The prompt already carried the message: closed without sending it.      *)
SteerSkip ==
  /\ SteerOpen
  /\ \E m \in SteerNext \cap ctx :
       /\ row' = [row EXCEPT ![m] = [st |-> "done", op |-> cur, sent |-> FALSE, claim |-> {}]]
       /\ unread' = unread \ {m}
  /\ UNCHANGED <<epoch, tries, escalated, historyVars, actorVars, hostVars>>

(* steerIssued commits before the request leaves.                          *)
SteerIssued ==
  /\ SteerOpen
  /\ \E m \in SteerNext \ ctx :
       /\ row' = [row EXCEPT ![m] = [st |-> "steer", op |-> cur, sent |-> FALSE, claim |-> {}]]
       /\ srec' = IF srec[m][cur.epoch] = "none"
                  THEN [srec EXCEPT ![m][cur.epoch] = "transit"] ELSE srec
       /\ steered' = m
  /\ pc' = "steering"
  /\ UNCHANGED <<unread, epoch, tries, escalated, historyVars, cur, ctx, adopted,
                 held, shut, paused, retired, host, alive>>

SteerAccepted ==
  /\ pc = "steering" /\ srec[steered][cur.epoch] = "accepted"
  /\ row' = [row EXCEPT ![steered].st = "done"]
  /\ unread' = unread \ {steered}
  /\ pc' = "free" /\ steered' = 0
  /\ UNCHANGED <<epoch, tries, escalated, historyVars, cur, ctx, adopted, held,
                 shut, paused, retired, hostVars>>

SteerRefused ==
  /\ pc = "steering" /\ srec[steered][cur.epoch] = "refused"
  /\ row' = [row EXCEPT ![steered] = Plain("pending")]
  /\ shut' = TRUE
  /\ pc' = "free" /\ steered' = 0
  /\ UNCHANGED <<unread, epoch, tries, escalated, historyVars, cur, ctx, adopted,
                 held, paused, retired, hostVars>>

(* Mutant: a steer whose transport stayed torn is taken for refused.       *)
SteerTornRefused ==
  /\ pc = "steering"
  /\ row' = [row EXCEPT ![steered] = Plain("pending")]
  /\ pc' = "free" /\ steered' = 0 /\ shut' = TRUE
  /\ UNCHANGED <<unread, epoch, tries, escalated, historyVars, cur, ctx, adopted,
                 held, paused, retired, hostVars>>

(* The replays stayed torn: the row is held on its operation.              *)
SteerTorn ==
  /\ pc = "steering"
  /\ pc' = "free" /\ steered' = 0
  /\ UNCHANGED <<rowVars, historyVars, cur, ctx, adopted, held, shut, paused,
                 retired, hostVars>>

(* #resolveStaleHolds and the replay after a terminal: the runtime answers *)
(* with the recorded outcome; a session proven gone, as a cut one is,      *)
(* closes the steer.                                                       *)
ResolveHold(m) ==
  /\ pc = "free" /\ row[m].st = "steer"
  /\ row[row[m].op.msg].st = "done" /\ row[row[m].op.msg].op = row[m].op
  /\ \/ /\ srec[m][row[m].op.epoch] = "accepted"
        /\ row' = [row EXCEPT ![m].st = "done"]
        /\ unread' = unread \ {m}
     \/ /\ srec[m][row[m].op.epoch] = "refused"
        /\ row' = [row EXCEPT ![m] = Plain("pending")]
        /\ UNCHANGED unread
     \/ /\ ~alive[row[m].op.epoch]
        /\ row' = [row EXCEPT ![m].st = "done"]
        /\ unread' = unread \ {m}
  /\ UNCHANGED <<epoch, tries, escalated, historyVars, actorVars, hostVars>>

(* The tail shows the reply: no steer after it.                            *)
ReplyVisible ==
  /\ pc = "free" /\ cur # NoOp /\ ~shut /\ ~adopted
  /\ host[cur] \in {"running", "ok", "failed"}
  /\ shut' = TRUE
  /\ UNCHANGED <<rowVars, historyVars, pc, cur, ctx, steered, adopted, held, paused,
                 retired, hostVars>>

-----------------------------------------------------------------------------
(* Reconciling a bound turn with its operation's status.                   *)

(* An unknown status closes the steer window and decides nothing.          *)
StatusUnknown ==
  /\ pc = "free" /\ cur # NoOp /\ ~held
  /\ held' = TRUE
  /\ UNCHANGED <<rowVars, historyVars, pc, cur, ctx, steered, adopted, shut, paused,
                 retired, hostVars>>

(* A known status is the receipt a torn send did not bring.                *)
StatusKnown(o) ==
  /\ pc = "free" /\ o \in Tracked /\ o # NoOp /\ host[o] \in Landed
  /\ row' = Accept(o)
  /\ held' = IF o = cur THEN FALSE ELSE held
  /\ <<row', held'>> # <<row, held>>
  /\ UNCHANGED <<unread, epoch, tries, escalated, historyVars, pc, cur, ctx, steered,
                 adopted, shut, paused, retired, hostVars>>

(* answerWanted, or simply current.                                        *)
Wanted(o) == o \notin retired \/ o \in escalated

(* onTerminal or onFailure ran: the answer, if there is one, or the notice *)
(* is in the outbox before the trigger closes, under an id derived from    *)
(* the trigger, so telling twice is once. A prompt that was answered, if   *)
(* only in part, has its messages read.                                    *)
Tell(o) ==
  /\ pc = "free" /\ o \in Tracked /\ o # NoOp /\ host[o] \in Terminal
  /\ row[o.msg].st = "accepted" /\ Wanted(o) /\ o \notin told
  /\ told' = told \cup {o}
  /\ \E heard \in {TRUE, host[o] = "ok"} :
       unread' = unread \ (IF ~heard THEN {} ELSE IF o = cur THEN ctx ELSE Claimed(o))
  /\ UNCHANGED <<row, epoch, tries, escalated, fenced, loosed, actorVars, hostVars>>

(* Mutant: the trigger closes whether or not the outbox has the answer.    *)
SettleUntold(o) ==
  /\ pc = "free" /\ o \in Tracked /\ o # NoOp /\ host[o] \in Terminal
  /\ row[o.msg].st = "accepted"
  /\ row' = Complete(o)
  /\ escalated' = escalated \ {o}
  /\ Forget(o)
  /\ UNCHANGED <<unread, epoch, tries, historyVars, pc, steered, paused, hostVars>>

(* completeInboundTurn, resetFailedTurn and the stall cutoff: a failed     *)
(* turn may, and a cut one does, rotate the epoch with the completion.     *)
(* Steers it leaves undecided are resolved next, by ResolveHold.           *)
Settle(o) ==
  /\ pc = "free" /\ o \in Tracked /\ o # NoOp /\ host[o] \in Terminal
  /\ row[o.msg].st = "accepted"
  /\ Wanted(o) => o \in told
  /\ \E reset \in BOOLEAN :
       /\ reset => o = cur /\ o.epoch = epoch /\ host[o] # "ok"
       /\ host[o] = "cut" /\ o = cur /\ o.epoch = epoch => reset
       /\ RotateIf(reset)
       /\ unread' = IF reset /\ host[o] # "cut" THEN unread \ {o.msg} ELSE unread
  /\ row' = Complete(o)
  /\ escalated' = escalated \ {o}
  /\ Forget(o)
  /\ UNCHANGED <<tries, historyVars, pc, steered, paused, hostVars>>

(* #scheduleAgentErrorRetry and #releaseForSubmissionRetry: a failure that *)
(* left nothing behind is sent again under a fresh attempt.                *)
RetryFailed ==
  /\ pc = "free" /\ cur # NoOp /\ row[cur.msg].st = "accepted" /\ cur \notin told
  /\ \/ host[cur] = "dropped" /\ ~adopted /\ ~shut /\ Steers(cur) = {}
     \/ host[cur] = "unstarted" /\ ~shut /\ tries[cur.msg][cur.epoch] = 0
  /\ Retry(cur)
  /\ loosed' = loosed \cup {m \in Messages : row[m].st = "steer" /\ row[m].op = cur}
  /\ Idle
  /\ UNCHANGED <<unread, epoch, escalated, told, fenced, pc, steered, paused, retired,
                 hostVars>>

(* #terminateStalledTurn: the host's exit is confirmed and recorded.       *)
CutStalled ==
  /\ pc = "free" /\ cur # NoOp /\ row[cur.msg].st = "accepted"
  /\ host[cur] \in {"queued", "running"}
  /\ host' = [host EXCEPT ![cur] = "cut"]
  /\ alive' = [alive EXCEPT ![cur.epoch] = FALSE]
  /\ UNCHANGED <<rowVars, historyVars, actorVars, srec>>

(* Mutant: only a busy refusal is looked at; a turn without one is taken   *)
(* to be unsent.                                                           *)
UnadmittedUnlessSeen(o) ==
  row[o.msg].st = "bound" /\ (~row[o.msg].sent \/ host[o] \in {"none", "transit", "busy"})

(* #unadmittedReason.                                                      *)
Unadmitted(o) ==
  row[o.msg].st = "bound" /\ (~row[o.msg].sent \/ host[o] = "busy")

(* #escalateUnresolvedHold: past the hold bound, with the host not live    *)
(* and the status unknown, the turn becomes a retired hold whose answer is *)
(* still wanted and the conversation goes on in a fresh epoch.             *)
Escalate(o) ==
  /\ pc = "free" /\ o \in OpenOps /\ o \notin escalated
  /\ o = cur \/ (o \notin Tracked /\ ~Unadmitted(o))
  /\ row[o.msg].sent /\ host[o] # "cut" /\ ~alive[o.epoch]
  /\ RotateIf(o.epoch = epoch)
  /\ escalated' = escalated \cup {o}
  /\ unread' = unread \ Claimed(o)
  /\ row' = [m \in Messages |->
               IF m \in Claimed(o) /\ row[m].st = "pending"
               THEN [st |-> "done", op |-> o, sent |-> FALSE, claim |-> {}] ELSE row[m]]
  /\ retired' = retired \cup {o}
  /\ IF o = cur THEN Idle ELSE UNCHANGED <<cur, ctx, adopted, held, shut>>
  /\ UNCHANGED <<tries, historyVars, pc, steered, paused, hostVars>>

-----------------------------------------------------------------------------
(* /new, crashes and recovery.                                             *)

(* reset: the pending rows up to the command are discarded, the running    *)
(* turn is retired, the epoch rotates.                                     *)
Reset(k) ==
  /\ pc = "free" /\ \E m \in Messages : row[m].st # "absent"
  /\ RotateIf(TRUE)
  /\ unread' = {}
  /\ row' = [m \in Messages |->
               IF m <= k /\ row[m].st = "pending" THEN Plain("done") ELSE row[m]]
  /\ fenced' = fenced \cup Unresolved
  /\ retired' = retired \cup ({cur} \ {NoOp})
  /\ Idle /\ paused' = FALSE
  /\ UNCHANGED <<tries, escalated, told, loosed, pc, steered, hostVars>>

Crash ==
  /\ pc # "down"
  /\ pc' = "down" /\ Idle /\ steered' = 0 /\ paused' = FALSE /\ retired' = {}
  /\ UNCHANGED <<rowVars, historyVars, hostVars>>

Restart ==
  /\ pc = "down"
  /\ pc' = "free"
  /\ UNCHANGED <<rowVars, historyVars, cur, ctx, steered, adopted, held, shut, paused,
                 retired, hostVars>>

(* #releaseUnadmittedTurn of a recovery scan or a dispatch.                *)
ReleaseUnadmitted(o) ==
  /\ pc = "free" /\ o \in OpenOps \ Tracked /\ Unadmitted(o)
  /\ IF o.epoch = epoch THEN Retry(o) ELSE row' = Complete(o) /\ UNCHANGED tries
  /\ UNCHANGED <<unread, epoch, escalated, historyVars, actorVars, hostVars>>

(* #recoverTurn and #adoptRecoveredTurn, once the status is known.         *)
Adopt(o) ==
  /\ pc = "free" /\ o \in OpenOps \ Tracked /\ host[o] \in Landed
  /\ row' = Accept(o)
  /\ IF o.epoch < epoch
     THEN retired' = retired \cup {o} /\ UNCHANGED <<cur, ctx, adopted, held, shut>>
     ELSE /\ cur' = o /\ ctx' = Claimed(o) /\ adopted' = TRUE
          /\ held' = FALSE /\ shut' = FALSE
          /\ UNCHANGED retired
  /\ UNCHANGED <<unread, epoch, tries, escalated, historyVars, pc, steered, paused, hostVars>>

(* rebindModel ends the pause after a model refusal.                       *)
RebindModel ==
  /\ pc = "free" /\ paused
  /\ paused' = FALSE
  /\ UNCHANGED <<rowVars, historyVars, pc, cur, ctx, steered, adopted, held, shut,
                 retired, hostVars>>

-----------------------------------------------------------------------------
(* The session behind the broker.                                          *)

HostStep(o, s, t) ==
  /\ host[o] = s
  /\ host' = [host EXCEPT ![o] = t]
  /\ UNCHANGED <<rowVars, historyVars, actorVars, srec, alive>>

(* A prompt lands late, starts, and ends in one of its ways.               *)
HostLate(o) == HostStep(o, "transit", "queued")
HostStarts(o) == HostStep(o, "queued", "running") \/ HostStep(o, "queued", "unstarted")
HostEnds(o) == \E t \in {"ok", "failed", "dropped"} : HostStep(o, "running", t)

(* A steer is taken by a running turn of its session and refused without   *)
(* one; the clientRef keeps the outcome.                                   *)
SteerLands(m, e) ==
  /\ srec[m][e] = "transit"
  /\ srec' = [srec EXCEPT ![m][e] =
       IF \E o \in Ops : o.epoch = e /\ host[o] = "running" THEN "accepted" ELSE "refused"]
  /\ UNCHANGED <<rowVars, historyVars, actorVars, host, alive>>

(* The broker loses the session: its host exits or is disowned.            *)
SessionLost(e) ==
  /\ alive[e]
  /\ alive' = [alive EXCEPT ![e] = FALSE]
  /\ UNCHANGED <<rowVars, historyVars, actorVars, host, srec>>

-----------------------------------------------------------------------------
Sweep(o) ==
  \/ StatusKnown(o) \/ Tell(o) \/ Settle(o) \/ Escalate(o)
  \/ ReleaseUnadmitted(o) \/ Adopt(o)

Next ==
  \/ Dispatch \/ BindPoisoned \/ StartTurn \/ PreSendFails \/ MarkSendAttempted
  \/ \E a \in {"queued", "busy", "unselected"} : PromptReaches(a)
  \/ SendAccepted \/ SendRefused \/ SendTorn
  \/ SteerSkip \/ SteerIssued \/ SteerAccepted \/ SteerRefused \/ SteerTorn
  \/ ReplyVisible \/ StatusUnknown \/ RetryFailed \/ CutStalled
  \/ Crash \/ Restart \/ RebindModel
  \/ \E m \in Messages : Record(m) \/ Enqueue(m) \/ ResolveHold(m)
  \/ \E k \in 0..N : Reset(k)
  \/ \E o \in Ops : Sweep(o) \/ HostLate(o) \/ HostStarts(o) \/ HostEnds(o)
  \/ \E e \in Epochs : SessionLost(e) \/ \E m \in Messages : SteerLands(m, e)

Spec == Init /\ [][Next]_vars

-----------------------------------------------------------------------------
(* An unattributed row carries nothing of an earlier attempt, and a        *)
(* trigger is bound to an operation of its own.                            *)
RowShape(m) ==
  /\ row[m].st \in {"absent", "recorded", "pending"} => row[m] = Plain(row[m].st)
  /\ row[m].st \in {"bound", "accepted"} => row[m].op \in Ops /\ row[m].op.msg = m
  /\ row[m].st = "steer" => row[m].op \in Ops /\ row[m].op.msg # m

(* Every variable has its type, and every row the shape of its state.      *)
TypeOK ==
  /\ row \in [Messages -> Row]
  /\ \A m \in Messages : RowShape(m)
  /\ unread \in SUBSET Messages
  /\ epoch \in Epochs
  /\ tries \in [Messages -> [Epochs -> 0..MaxTries]]
  /\ escalated \in SUBSET Ops /\ told \in SUBSET Ops /\ fenced \in SUBSET Ops
  /\ loosed \in SUBSET Messages
  /\ pc \in {"down", "free", "bound", "prepared", "sending", "steering"}
  /\ cur \in Ops \cup {NoOp}
  /\ ctx \in SUBSET Messages
  /\ steered \in 0..N
  /\ adopted \in BOOLEAN /\ held \in BOOLEAN /\ shut \in BOOLEAN /\ paused \in BOOLEAN
  /\ retired \in SUBSET Ops
  /\ host \in [Ops -> HostStates]
  /\ srec \in [Messages -> [Epochs -> {"none", "transit", "accepted", "refused"}]]
  /\ alive \in [Epochs -> BOOLEAN]

(* Whatever the session has, or may still get, of a prompt is named by the *)
(* trigger's row: no operation is released, reattempted or forgotten while *)
(* it may act, so its result has an owner.                                 *)
NoOrphan == \A o \in Ops : host[o] \in MayAct => row[o.msg].op = o

(* A message is put before the model once: as the prompt of one operation  *)
(* or as one accepted steer, whatever crashed, tore or came late. The      *)
(* exception is a steer that a submission retry released undecided.        *)
TakenOnce ==
  \A m \in Messages \ loosed :
    Cardinality({o \in Ops : o.msg = m /\ host[o] \in MayAct})
      + Cardinality({e \in Epochs : srec[m][e] = "accepted"}) <= 1

(* A trigger closes only behind an answer or a notice, unless /new retired *)
(* its turn: no crash, escalation or late result ends a turn in silence.   *)
NoSilentEnd ==
  \A m \in Messages :
    row[m].st = "done" /\ row[m].op.msg = m => row[m].op \in told \cup fenced

(* One epoch has one unresolved turn, and the actor's current turn is it.  *)
OneOwner ==
  /\ \A m, n \in Messages : Open(m) /\ Open(n) /\ row[m].op.epoch = row[n].op.epoch => m = n
  /\ cur # NoOp => Open(cur.msg) /\ row[cur.msg].op = cur /\ cur.epoch = epoch

(* What the comment on a torn steer says: it stays held on its turn until  *)
(* the runtime records acceptance or refuses, or its session is gone.      *)
HeldUntilDecided ==
  [][\A m \in Messages :
       row[m].st = "steer" /\ row'[m].st # "steer" =>
         \/ srec[m][row[m].op.epoch] \in {"accepted", "refused"}
         \/ ~alive[row[m].op.epoch]]_vars
=============================================================================

---------------------------- MODULE RestartDrain ----------------------------
(***************************************************************************)
(* The hold on persona dispatch around a restart. Four parties share it:   *)
(* the gateway, which owns the hold and loses it when it dies; a detached  *)
(* supervisor (cli/src/restart-stack.ts), which takes the hold over a      *)
(* socket, restarts the services and records its progress in one receipt   *)
(* file; the owner's /restart, which supersedes a supervisor; and the      *)
(* operator, who releases a hold nobody can. The announcements of the hold *)
(* (restart-notice.ts) ride on it.                                         *)
(***************************************************************************)
EXTENDS Naturals, FiniteSets

CONSTANTS
  Sup,        \* the restart ids of supervisors, positive numbers
  Own,        \* the restart id of the owner restart, another number
  MaxBoot,    \* bound: gateway processes
  MaxOwner,   \* bound: owner restarts asked for
  SupDies     \* a supervisor may be killed between two of its steps

ASSUME RestartAssumption ==
  /\ Sup \subseteq Nat \ {0} /\ Own \in Nat \ (Sup \cup {0})
  /\ MaxBoot \in Nat \ {0} /\ MaxOwner \in Nat
  /\ SupDies \in BOOLEAN

VARIABLES
  up,       \* the gateway runs
  boot,     \* which process it is
  drain,    \* the id that holds dispatch, 0 for none
  inherited,\* the id this process inherited at boot, 0 for none
  owners,   \* ids whose supervisor connection holds a prepared drain
  own,      \* the owner restart: "idle", "waits", "cutting", "drains"
  asked,    \* owner restarts asked for
  busy,     \* an accepted turn or its reply is not settled
  receipt,  \* restart-stack.json
  queued,   \* launched workers that have not started
  sup,      \* the supervisor that holds the update lease
  op,       \* the service-manager operation in flight
  note      \* per id, the process whose announcement is open, 0 for none

vars == <<up, boot, drain, inherited, owners, own, asked, busy, receipt, queued, sup, op, note>>

Ids == Sup \cup {Own}
Steps == {"first", "gateway", "last", "done"}
After(todo) == IF todo = "first" THEN "gateway" ELSE IF todo = "gateway" THEN "last" ELSE "done"

Off == [id |-> 0, pc |-> "off", todo |-> "done", held |-> FALSE, gwOk |-> FALSE, cut |-> FALSE, link |-> FALSE]
NoOp == [kind |-> "none", id |-> 0, held |-> FALSE, at |-> 0]

Init ==
  /\ up = TRUE /\ boot = 1 /\ drain = 0 /\ inherited = 0 /\ owners = {}
  /\ own = "idle" /\ asked = 0 /\ busy = FALSE
  /\ receipt = [id |-> 0, st |-> "ok", prep |-> FALSE]
  /\ queued = Sup /\ sup = Off /\ op = NoOp
  /\ note = [i \in Ids |-> 0]

gateway == <<up, boot, inherited, asked>>
Kept == UNCHANGED gateway

-----------------------------------------------------------------------------
(* Mutant: only a receipt that says indeterminate is inherited.            *)
PersistedUnlessRunning == IF receipt.st = "indeterminate" THEN receipt.id ELSE 0

(* The receipt is read again whenever a connection closes and at boot: it  *)
(* keeps a hold behind which a service command may still be unsettled.     *)
KeepsDrain(i) ==
  receipt.id = i /\ (receipt.st = "indeterminate" \/ (receipt.st = "running" /\ receipt.prep))

PersistedDrain ==
  IF receipt.st = "indeterminate" \/ (receipt.st = "running" /\ receipt.prep) THEN receipt.id ELSE 0


-----------------------------------------------------------------------------
(* Mutant: the announcement of a transferred hold stays with its first id. *)
MovedNot(i, j) == note

(* Announcements: once per hold, moved with it, closed with it.            *)
Announced(i) == IF note[i] = 0 /\ i # inherited THEN [note EXCEPT ![i] = boot] ELSE note
Closed(i) == [note EXCEPT ![i] = 0]
Moved(i, j) == [note EXCEPT ![i] = 0, ![j] = IF note[j] = 0 THEN note[i] ELSE note[j]]

(* resumeAfterBoot: announcements of earlier processes are closed, but the *)
(* one of the inherited hold.                                              *)
NoteBoot == [i \in Ids |-> IF i = PersistedDrain THEN note[i] ELSE 0]

(* drainForRestart: the hold is taken at once, and only its first entry is *)
(* announced.                                                              *)
Hold(i) ==
  /\ drain \in {0, i} /\ drain' = i
  /\ note' = IF drain = 0 THEN Announced(i) ELSE note

(* releaseOrTransferRestartDrain: an owner restart that is waiting gets    *)
(* the hold, otherwise dispatch resumes; a hold of another id is no one's. *)
ReleaseOrTransfer(i) ==
  IF drain # i THEN UNCHANGED <<drain, note>>
  ELSE IF own # "idle" /\ i # Own THEN drain' = Own /\ note' = Moved(i, Own)
  ELSE drain' = 0 /\ note' = Closed(i)

(* A socket close at the gateway.                                          *)
Close(i) ==
  IF i \in owners
  THEN /\ owners' = owners \ {i}
       /\ IF KeepsDrain(i) THEN UNCHANGED <<drain, note>> ELSE ReleaseOrTransfer(i)
  ELSE UNCHANGED <<owners, drain, note>>

(* gateway.restart.prepare, up to the wait for the persona turns.          *)
Prepared(i) == up /\ own = "idle" /\ drain \in {0, i}

-----------------------------------------------------------------------------
(* The supervisor.                                                         *)
Finish(st) == receipt' = [receipt EXCEPT !.st = st] /\ sup' = Off
Goto(pc) == sup' = [sup EXCEPT !.pc = pc]
NoGateway == Kept /\ UNCHANGED <<drain, owners, own, note, busy>>

Launch(i) ==
  /\ sup.pc = "off" /\ i \in queued /\ receipt.id # i
  /\ receipt' = [id |-> i, st |-> "queued", prep |-> FALSE]
  /\ NoGateway /\ UNCHANGED <<queued, sup, op>>

Start(i) ==
  /\ sup.pc = "off" /\ i \in queued /\ (receipt.id = i => receipt.st = "queued")
  /\ queued' = queued \ {i}
  /\ receipt' = [id |-> i, st |-> "running", prep |-> FALSE]
  /\ sup' = [Off EXCEPT !.id = i, !.pc = "prepare", !.todo = "first"]
  /\ NoGateway /\ UNCHANGED op

(* Without a gateway there is nothing to drain; a refused drain ends the   *)
(* restart before its first command.                                       *)
PrepareAlone ==
  /\ sup.pc = "prepare" /\ ~up /\ Goto("run")
  /\ NoGateway /\ UNCHANGED <<receipt, queued, op>>

PrepareRefused ==
  /\ sup.pc = "prepare" /\ up /\ ~Prepared(sup.id) /\ Finish("failed")
  /\ NoGateway /\ UNCHANGED <<queued, op>>

PrepareAsks ==
  /\ sup.pc = "prepare" /\ Prepared(sup.id)
  /\ Hold(sup.id) /\ owners' = owners \cup {sup.id}
  /\ sup' = [sup EXCEPT !.pc = "asked", !.link = TRUE]
  /\ Kept /\ UNCHANGED <<own, busy, receipt, queued, op>>

PrepareDrained ==
  /\ sup.pc = "asked" /\ sup.link /\ ~busy
  /\ sup' = [sup EXCEPT !.pc = "prepared", !.held = TRUE]
  /\ NoGateway /\ UNCHANGED <<receipt, queued, op>>

(* The turns did not settle in time, or the gateway went away: the hold is *)
(* given back, which a dead gateway has done already.                      *)
PrepareFails ==
  /\ sup.pc = "asked" /\ (sup.link => busy) /\ Finish("failed")
  /\ IF sup.link THEN ReleaseOrTransfer(sup.id) ELSE UNCHANGED <<drain, note>>
  /\ owners' = owners \ {sup.id}
  /\ Kept /\ UNCHANGED <<own, busy, queued, op>>

MarkPrepared ==
  /\ sup.pc = "prepared" /\ receipt' = [receipt EXCEPT !.prep = TRUE] /\ Goto("run")
  /\ NoGateway /\ UNCHANGED <<queued, op>>

(* assertRestartDrain: before each command until the gateway has been      *)
(* restarted, the gateway must confirm the hold again.                     *)
StillHeld ==
  /\ ~sup.cut
  /\ sup.held /\ ~sup.gwOk => sup.link /\ Prepared(sup.id) /\ drain = sup.id /\ ~busy

(* The services come in order: those before the gateway, the gateway,      *)
(* those after it. A service that is not installed is skipped.             *)
Skip ==
  /\ sup.pc = "run" /\ sup.todo # "done" /\ sup' = [sup EXCEPT !.todo = After(@)]
  /\ NoGateway /\ UNCHANGED <<receipt, queued, op>>

Issue ==
  /\ sup.pc = "run" /\ sup.todo # "done" /\ StillHeld /\ op = NoOp
  /\ op' = [kind |-> IF sup.todo = "gateway" THEN "gateway" ELSE "other",
            id |-> sup.id, held |-> sup.held, at |-> boot]
  /\ Goto("command")
  /\ NoGateway /\ UNCHANGED <<receipt, queued>>

(* A step that fails ends the sequence; a gateway step that was entered    *)
(* and did not verify needs the operator.                                  *)
Failed == IF sup.todo = "gateway" THEN "indeterminate" ELSE "failed"

NotIssued ==
  /\ sup.pc = "run" /\ sup.todo # "done" /\ ~StillHeld
  /\ receipt' = [receipt EXCEPT !.st = Failed] /\ Goto("release")
  /\ NoGateway /\ UNCHANGED <<queued, op>>

Verified == op.kind = "gateway" => up /\ boot > op.at

CommandOk ==
  /\ sup.pc = "command" /\ ~sup.cut /\ Verified
  /\ op' = NoOp
  /\ sup' = [sup EXCEPT !.pc = "run", !.todo = After(@), !.gwOk = @ \/ op.kind = "gateway"]
  /\ NoGateway /\ UNCHANGED <<receipt, queued>>

CommandFails ==
  /\ sup.pc = "command"
  /\ op' = NoOp /\ receipt' = [receipt EXCEPT !.st = Failed] /\ Goto("release")
  /\ NoGateway /\ UNCHANGED queued

(* RestartOperationIndeterminateError: nobody knows whether it settled.    *)
CommandTimesOut ==
  /\ sup.pc = "command"
  /\ receipt' = [receipt EXCEPT !.st = "indeterminate"] /\ Goto("release")
  /\ NoGateway /\ UNCHANGED <<queued, op>>

(* releaseRestartDrain. An indeterminate restart only closes its socket;   *)
(* one that restarted the gateway reattaches to the new one; any other     *)
(* cancels its hold, and a cancellation that is not confirmed, because the *)
(* gateway is gone or gave the hold to the owner, leaves the receipt       *)
(* indeterminate.                                                          *)
Ending == sup.pc = "release" \/ (sup.pc = "run" /\ sup.todo = "done")
Final == IF receipt.st = "running" THEN "ok" ELSE receipt.st
Reattaches == sup.gwOk /\ receipt.prep

ReleaseKeeps ==
  /\ Ending /\ (receipt.st = "indeterminate" \/ (~Reattaches /\ ~sup.held))
  /\ Finish(Final) /\ Close(sup.id)
  /\ Kept /\ UNCHANGED <<own, busy, queued, op>>

Confirmed == sup.link /\ drain = sup.id /\ own = "idle"

ReleaseCancels ==
  /\ Ending /\ receipt.st # "indeterminate" /\ ~Reattaches /\ sup.held
  /\ Finish(IF Confirmed THEN Final ELSE "indeterminate")
  /\ IF sup.link THEN ReleaseOrTransfer(sup.id) ELSE UNCHANGED <<drain, note>>
  /\ owners' = owners \ {sup.id}
  /\ Kept /\ UNCHANGED <<own, busy, queued, op>>

ReattachAsks ==
  /\ Ending /\ receipt.st # "indeterminate" /\ Reattaches /\ Prepared(sup.id)
  /\ Hold(sup.id) /\ owners' = owners \cup {sup.id}
  /\ sup' = [sup EXCEPT !.pc = "reattach", !.link = TRUE]
  /\ Kept /\ UNCHANGED <<own, busy, receipt, queued, op>>

ReattachRefused ==
  /\ Ending /\ receipt.st # "indeterminate" /\ Reattaches /\ ~Prepared(sup.id)
  /\ Finish("indeterminate")
  /\ NoGateway /\ UNCHANGED <<queued, op>>

ReattachDrained ==
  /\ sup.pc = "reattach" /\ sup.link /\ ~busy
  /\ Finish(IF Confirmed THEN Final ELSE "indeterminate")
  /\ ReleaseOrTransfer(sup.id) /\ owners' = owners \ {sup.id}
  /\ Kept /\ UNCHANGED <<own, busy, queued, op>>

ReattachFails ==
  /\ sup.pc = "reattach" /\ (sup.link => busy)
  /\ Finish("indeterminate") /\ owners' = owners \ {sup.id}
  /\ Kept /\ UNCHANGED <<drain, note, own, busy, queued, op>>

SupervisorDies ==
  /\ SupDies /\ sup.pc # "off" /\ sup' = Off /\ Close(sup.id)
  /\ Kept /\ UNCHANGED <<own, busy, receipt, queued, op>>

-----------------------------------------------------------------------------
(* The owner's /restart.                                                   *)
NoSupervisor == UNCHANGED <<receipt, queued, op, owners>>

OwnerAsks ==
  /\ up /\ own = "idle" /\ asked < MaxOwner
  /\ own' = "waits" /\ asked' = asked + 1
  /\ NoSupervisor /\ UNCHANGED <<up, boot, inherited, drain, busy, sup, note>>

(* The supervisor deadline: whoever prepared the hold is told it is        *)
(* superseded.                                                             *)
OwnerSupersedes ==
  /\ own = "waits" /\ drain \notin {0, Own}
  /\ own' = "cutting"
  /\ sup' = IF drain \in owners /\ sup.id = drain THEN [sup EXCEPT !.cut = TRUE] ELSE sup
  /\ NoSupervisor /\ Kept /\ UNCHANGED <<drain, busy, note>>

OwnerHolds ==
  /\ own \in {"waits", "cutting"} /\ drain \in {0, Own}
  /\ Hold(Own) /\ own' = "drains"
  /\ NoSupervisor /\ Kept /\ UNCHANGED <<busy, sup>>

(* The supervisor did not settle its command before the cancel deadline.   *)
OwnerGivesUp ==
  /\ own = "cutting" /\ drain \notin {0, Own} /\ own' = "idle"
  /\ NoSupervisor /\ Kept /\ UNCHANGED <<drain, busy, sup, note>>

OwnerTimesOut ==
  /\ own = "drains" /\ busy
  /\ drain' = 0 /\ note' = Closed(Own) /\ own' = "idle"
  /\ NoSupervisor /\ Kept /\ UNCHANGED <<busy, sup>>

-----------------------------------------------------------------------------
(* A gateway process ends: the owner restart exits it, a service command   *)
(* kills it, it crashes. Its hold, its connections and its pending owner   *)
(* restart go with it.                                                     *)
Stop ==
  /\ up /\ boot < MaxBoot /\ up' = FALSE
  /\ drain' = 0 /\ inherited' = 0 /\ owners' = {} /\ own' = "idle"
  /\ sup' = [sup EXCEPT !.link = FALSE]
  /\ UNCHANGED <<boot, asked, busy, receipt, queued, op, note>>

(* Boot inherits the hold the receipt names.                               *)
Boot ==
  /\ ~up /\ up' = TRUE /\ boot' = boot + 1
  /\ drain' = PersistedDrain /\ inherited' = PersistedDrain
  /\ note' = NoteBoot
  /\ UNCHANGED <<owners, own, asked, busy, receipt, queued, sup, op>>

(* An operation whose command timed out, or whose supervisor died, settles *)
(* in the end.                                                             *)
SettlesLate ==
  /\ op # NoOp /\ sup.pc # "command" /\ op' = NoOp
  /\ NoGateway /\ UNCHANGED <<receipt, queued, sup>>

Dispatch ==
  /\ up /\ drain = 0 /\ ~busy /\ busy' = TRUE
  /\ Kept /\ UNCHANGED <<drain, owners, own, receipt, queued, sup, op, note>>

Settled ==
  /\ busy /\ busy' = FALSE
  /\ Kept /\ UNCHANGED <<drain, owners, own, receipt, queued, sup, op, note>>

(* recoverRestartStack: the operator has confirmed that no operation is in *)
(* flight. Only a confirmed cancellation, or no gateway, clears the        *)
(* receipt; an owner restart that is waiting takes the hold instead.       *)
Recover ==
  /\ sup.pc = "off" /\ op = NoOp /\ receipt.st \in {"running", "indeterminate"}
  /\ up => drain = receipt.id
  /\ IF up THEN ReleaseOrTransfer(receipt.id) ELSE UNCHANGED <<drain, note>>
  /\ receipt' = IF up /\ own # "idle" THEN receipt ELSE [receipt EXCEPT !.st = "failed"]
  /\ Kept /\ UNCHANGED <<owners, own, busy, queued, sup, op>>

-----------------------------------------------------------------------------
Supervisor ==
  \/ \E i \in Sup : Launch(i) \/ Start(i)
  \/ PrepareAlone \/ PrepareRefused \/ PrepareAsks \/ PrepareDrained \/ PrepareFails \/ MarkPrepared
  \/ Skip \/ Issue \/ NotIssued \/ CommandOk \/ CommandFails \/ CommandTimesOut
  \/ ReleaseKeeps \/ ReleaseCancels \/ ReattachAsks \/ ReattachRefused \/ ReattachDrained \/ ReattachFails
  \/ SupervisorDies

Owner == OwnerAsks \/ OwnerSupersedes \/ OwnerHolds \/ OwnerGivesUp \/ OwnerTimesOut

Next == Supervisor \/ Owner \/ Stop \/ Boot \/ SettlesLate \/ Dispatch \/ Settled \/ Recover

Spec == Init /\ [][Next]_vars

-----------------------------------------------------------------------------
Pcs == {"off", "prepare", "asked", "prepared", "run", "command", "release", "reattach"}

Receipts ==
  [id : Sup \cup {0}, prep : BOOLEAN, st : {"ok", "queued", "running", "failed", "indeterminate"}]
Supervisors ==
  [id : Sup \cup {0}, pc : Pcs, todo : Steps, held : BOOLEAN, gwOk : BOOLEAN, cut : BOOLEAN,
   link : BOOLEAN]
Operations == [kind : {"none", "gateway", "other"}, id : Sup \cup {0}, held : BOOLEAN, at : Nat]

TypeOK ==
  /\ up \in BOOLEAN /\ boot \in Nat /\ drain \in Ids \cup {0} /\ inherited \in Sup \cup {0}
  /\ owners \subseteq Sup /\ queued \subseteq Sup
  /\ own \in {"idle", "waits", "cutting", "drains"} /\ asked \in Nat /\ busy \in BOOLEAN
  /\ receipt \in Receipts /\ sup \in Supervisors /\ op \in Operations
  /\ note \in [Ids -> Nat]

(* While a service operation of a prepared restart may still act, and its  *)
(* receipt is the current one, the gateway dispatches no new turn: not     *)
(* after its supervisor died, not in the next process, not when an owner   *)
(* restart cuts in.                                                        *)
DispatchFenced ==
  op.kind # "none" /\ op.held /\ op.id = receipt.id /\ up => drain # 0

(* An open announcement belongs to the hold in force: no conversation is   *)
(* left with a restart that is neither over nor under way.                 *)
OpenNoticeIsHeld == up => \A i \in Ids : note[i] # 0 => drain = i

(* While a restart may still be under way, no process dispatches a turn    *)
(* the restart did not let through, and a restart notice that is still     *)
(* open belongs to a hold that is.                                         *)
FenceHolds == DispatchFenced /\ OpenNoticeIsHeld

(* A hold whose supervisor is gone is named by a receipt the operator can  *)
(* recover (docs/deployment.md, server.ts on inherited holds).             *)
HoldIsRecoverable ==
  drain \in Sup /\ sup.id # drain =>
    receipt.id = drain /\ receipt.st \in {"running", "indeterminate"}
=============================================================================

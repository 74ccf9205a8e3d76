--------------------------- MODULE MonitorPipeline ---------------------------
(***************************************************************************)
(* The events of one monitor, from the fire to the delivered note:         *)
(* monitors/propagate.ts over the rows of store/groups/monitors.ts.        *)
(*                                                                         *)
(* A dispatch is an asynchronous task: it leases and claims its events in  *)
(* the tick that starts it, waits its turn on the origin, binds, looks for *)
(* a saved authoring turn, prompts or harvests, and writes the answer. The *)
(* phases of pc are its awaits; what it does between two awaits is one     *)
(* step, except that a crash may fall between the transactions of the last *)
(* one. The recovery sweep, the operator and the clock run between.        *)
(*                                                                         *)
(* An operation is named after the dispatch that minted it, and so are its *)
(* lease and its batch. An expired lease is no lease: no statement tells   *)
(* the two apart. A dispatch id is used again once nothing refers to it.   *)
(***************************************************************************)
EXTENDS Integers, Sequences, FiniteSets, FiniteSetsExt

CONSTANTS
  N,            (* events, in the order they fire                          *)
  Burst,        (* burst policy of the monitor                             *)
  Overlap,      (* overlap policy of the monitor                           *)
  HasTarget,    (* the monitor or the owner has a channel                  *)
  MaxAttempts,  (* MONITOR_EVENT_MAX_DISPATCH_ATTEMPTS                     *)
  MaxDispatch,  (* bound: dispatch ids in use at once                      *)
  MaxSession,   (* bound: sessions of the origin                           *)
  MaxHands,     (* bound: acts of the operator                             *)
  MaxSuspend,   (* bound: times the process is suspended past its leases   *)
  MaxCrash      (* bound: crashes                                          *)

PolicyAssumption ==
  /\ Burst \in {"serialize", "coalesce", "dedupe", "drop"}
  /\ Overlap \in {"queue", "skip"}
  /\ HasTarget \in BOOLEAN

BoundAssumption ==
  /\ N \in Nat /\ MaxAttempts \in Nat /\ MaxDispatch \in Nat /\ MaxSession \in Nat
  /\ MaxHands \in Nat /\ MaxSuspend \in Nat /\ MaxCrash \in Nat

VARIABLES
  stage,    (* monitor_events.stage                                        *)
  att,      (* dispatch_attempts                                           *)
  code,     (* class of the latest monitor_failures row                    *)
  batch,    (* batch_id of an authored event: nothing reads another's      *)
  age,      (* time since updated_at: 0 now, 1 past the backoff, 2 a day   *)
  lease,    (* the live row of dispatch_leases                             *)
  ptr,      (* the operation in the authoring-turn pointer                 *)
  out,      (* authored_outputs                                            *)
  outbox,   (* the delivery of a batch                                     *)
  monitor,  (* the monitor exists                                          *)
  closing,  (* #closing                                                    *)
  burst,    (* #batches: events of the pending burst window                *)
  pc,       (* where each dispatch is                                      *)
  evs,      (* the events a dispatch claimed                               *)
  opOf,     (* the operation a dispatch prompts or harvests                *)
  queue,    (* runExclusive of the origin                                  *)
  sw,       (* the reconcile sweep                                         *)
  sess,     (* the session the origin is bound to                          *)
  turn,     (* events and session of a saved authoring turn                *)
  run,      (* external: what became of an operation's prompt              *)
  prompts,  (* history: fresh prompts sent for an event                    *)
  retries,  (* history: operator retries of an event                       *)
  notes,    (* history: answers recorded for an event                      *)
  sent,     (* history: deliveries that carry an event's note              *)
  spent     (* history: suspensions, crashes and acts of the operator      *)

rowVars == <<stage, att, code, batch, age>>
taskVars == <<pc, evs, opOf, queue>>
hostVars == <<sess, turn, run>>
historyVars == <<prompts, retries, notes, sent, spent>>
vars == <<rowVars, lease, ptr, out, outbox, monitor, closing, burst, taskVars, sw,
          hostVars, historyVars>>

Events == 1..N
Dispatches == 1..MaxDispatch
InFlight == {"admitted", "batched", "dispatched", "failed"}
Terminal == {"delivered", "authored_no_delivery", "failed_no_retry", "skipped",
             "contract_unmet"}
Stages == InFlight \cup Terminal \cup {"none", "authored"}
Codes == {"none", "busy", "unresolved", "removed", "operator", "other"}
Idle == [pc |-> "idle", todo |-> {}, seen |-> {}, e |-> 0, op |-> 0, att |-> 0, d |-> 0]

Init ==
  /\ stage = [e \in Events |-> "none"] /\ att = [e \in Events |-> 0]
  /\ code = [e \in Events |-> "none"] /\ batch = [e \in Events |-> 0]
  /\ age = [e \in Events |-> 0] /\ lease = [e \in Events |-> 0]
  /\ ptr = [e \in Events |-> 0] /\ out = [e \in Events |-> "none"]
  /\ outbox = [d \in Dispatches |-> "none"]
  /\ monitor = TRUE /\ closing = FALSE /\ burst = {}
  /\ pc = [d \in Dispatches |-> "off"] /\ evs = [d \in Dispatches |-> {}]
  /\ opOf = [d \in Dispatches |-> 0] /\ queue = <<>> /\ sw = Idle
  /\ sess = 1 /\ turn = [d \in Dispatches |-> [evs |-> {}, sess |-> 0]]
  /\ run = [d \in Dispatches |-> "none"]
  /\ prompts = [e \in Events |-> 0] /\ retries = [e \in Events |-> 0]
  /\ notes = [e \in Events |-> 0] /\ sent = [e \in Events |-> 0]
  /\ spent = [suspend |-> 0, crash |-> 0, hands |-> 0]

-----------------------------------------------------------------------------
(* Rows.                                                                   *)

(* A function that is c on S and f elsewhere.                              *)
On(S, c, f) == [x \in DOMAIN f |-> IF x \in S THEN c ELSE f[x]]

(* Rows of S written with a stage and, unless it is kept, a failure code.  *)
Write(S, s, c) ==
  /\ stage' = On(S, s, stage)
  /\ age' = On(S, 0, age)
  /\ code' = IF c = "kept" THEN code ELSE On(S, c, code)

(* #inFlight: a dispatch of this process has the event.                    *)
Dispatching(e) == \E d \in Dispatches : pc[d] # "off" /\ e \in evs[d]

(* The tick that writes an answer runs to its end.                         *)
Quiet == \A d \in Dispatches : pc[d] # "deliver"

(* Mutant: a batched row is always taken for a live one.                   *)
RecoverableUnbatched(e) == stage[e] \in InFlight \ {"batched"}

Recoverable(e) ==
  /\ stage[e] \in InFlight
  /\ stage[e] = "batched" => ~Dispatching(e)

(* Mutant: a write is not fenced by the lease.                             *)
FencedLoose(d) == {e \in evs[d] : stage[e] \notin Terminal}

(* The rows a fenced write of dispatch d reaches.                          *)
Fenced(d) == {e \in evs[d] : lease[e] = d /\ stage[e] \notin Terminal}

(* #forgetAuthoringTurn: only pointers that still name the operation.      *)
Forget(S, op) == [e \in Events |-> IF e \in S /\ ptr[e] = op THEN 0 ELSE ptr[e]]

Free(d) ==
  /\ pc[d] = "off" /\ outbox[d] # "pending" /\ sw.d # d
  /\ \A e \in Events : d \notin {lease[e], ptr[e], batch[e]}
  /\ \A o \in Dispatches : pc[o] # "off" => opOf[o] # d
NewIds == {d \in Dispatches : Free(d) /\ \A o \in 1..(d - 1) : ~Free(o)}

-----------------------------------------------------------------------------
(* #dispatch up to its first await: over the rows st, ag, cd its caller    *)
(* has just written, the events S are leased and claimed; op # 0 resumes   *)
(* that operation, all of its events or none.                              *)

Leasable(S, st) == {e \in S : lease[e] = 0 /\ st[e] \in InFlight}

Launch(S, op, st, ag, cd) ==
  LET L == Leasable(S, st)
      F == {e \in S : op = 0 /\ st[e] \notin Terminal \ {"skipped"}} IN
  \/ /\ ~monitor
     /\ stage' = On(F, "failed_no_retry", st) /\ age' = On(F, 0, ag)
     /\ code' = On(F, "removed", cd)
     /\ UNCHANGED <<batch, lease, outbox, taskVars, run, turn>>
  \/ /\ monitor /\ (L = {} \/ (op # 0 /\ L # S))
     /\ stage' = st /\ age' = ag /\ code' = cd
     /\ UNCHANGED <<batch, lease, outbox, taskVars, run, turn>>
  \/ /\ monitor /\ L # {} /\ (op # 0 => L = S)
     /\ \E d \in NewIds :
          /\ stage' = On(L, "batched", st) /\ age' = On(L, 0, ag) /\ code' = cd
          /\ lease' = On(L, d, lease) /\ UNCHANGED batch
          /\ pc' = [pc EXCEPT ![d] = "queued"] /\ evs' = [evs EXCEPT ![d] = L]
          /\ opOf' = [opOf EXCEPT ![d] = op] /\ queue' = Append(queue, d)
          /\ outbox' = [outbox EXCEPT ![d] = "none"]
          /\ run' = [run EXCEPT ![d] = "none"]
          /\ turn' = [turn EXCEPT ![d] = [evs |-> {}, sess |-> 0]]

-----------------------------------------------------------------------------
(* Submission.                                                             *)

(* Mutant: a saved turn does not protect the predecessor.                  *)
SupersededRunning ==
  {p \in Events : Overlap = "skip" /\ stage[p] = "failed" /\ lease[p] = 0 /\ out[p] = "none"}

(* #supersedeFailedPredecessors.                                           *)
Superseded ==
  {p \in Events : Overlap = "skip" /\ stage[p] = "failed" /\ lease[p] = 0
                  /\ ptr[p] = 0 /\ out[p] = "none"}

(* eventCreate over rows st: skipped behind a predecessor in flight.       *)
Skips(st) == Overlap = "skip" /\ \E p \in Events : st[p] \in InFlight

(* same: an event of the open window has the payload of this one.          *)
Submit(e, same) ==
  LET st == On(Superseded, "failed_no_retry", stage)
      ag == On(Superseded \cup {e}, 0, age)
      cd == On(Superseded, "other", code)
      dup == same /\ Burst = "dedupe"
      Put(s) == stage' = [st EXCEPT ![e] = s] /\ age' = ag /\ code' = cd /\
                UNCHANGED <<batch, lease, outbox, taskVars, run, turn>> IN
  /\ Quiet /\ ~closing /\ monitor /\ stage[e] = "none"
  /\ \A p \in 1..(e - 1) : stage[p] # "none"
  /\ same => Burst = "dedupe" /\ burst # {}
  /\ \/ Skips(st) /\ Put("skipped") /\ UNCHANGED burst
     \/ /\ ~Skips(st) /\ Burst = "serialize"
        /\ Launch({e}, 0, [st EXCEPT ![e] = "admitted"], ag, cd)
        /\ UNCHANGED burst
     \/ /\ ~Skips(st) /\ Burst # "serialize"
        /\ Put(IF dup THEN "batched" ELSE "admitted")
        /\ burst' = CASE Burst = "drop" -> {e} [] dup -> burst [] OTHER -> burst \cup {e}
  /\ UNCHANGED <<att, ptr, out, monitor, closing, sw, sess, prompts, retries, notes, sent, spent>>

(* The 250 ms window closes.                                               *)
BurstTimer ==
  /\ Quiet /\ ~closing /\ burst # {}
  /\ burst' = {}
  /\ Launch(burst, 0, stage, age, code)
  /\ UNCHANGED <<att, ptr, out, monitor, closing, sw, sess, historyVars>>

-----------------------------------------------------------------------------
(* The dispatch on its origin.                                             *)

dispatchRest == <<att, out, outbox, monitor, closing, burst, sw, historyVars>>

(* runExclusive lets it in; an armed roll moves a fresh one to a new       *)
(* session, then bind and configure are awaited.                           *)
Enter(d) ==
  /\ Quiet /\ queue # <<>> /\ Head(queue) = d /\ pc[d] = "queued"
  /\ pc' = [pc EXCEPT ![d] = "bind"]
  /\ \/ sess' = sess
     \/ opOf[d] = 0 /\ sess < MaxSession /\ sess' = sess + 1
  /\ UNCHANGED <<rowVars, lease, ptr, evs, opOf, queue, turn, run, dispatchRest>>

(* The pointer write before a request is not fenced by the lease.          *)
Point(d, op, old) ==
  /\ ptr' = On(evs[d], op, old)
  /\ opOf' = [opOf EXCEPT ![d] = op]
  /\ turn' = [turn EXCEPT ![op] = IF op = d THEN [evs |-> evs[d], sess |-> sess] ELSE @]

(* Mutant: a resumed turn is prompted afresh.                              *)
BoundFresh(d) ==
  /\ Quiet /\ pc[d] = "bind"
  /\ Point(d, d, Forget(evs[d], ptr[Min(evs[d])])) /\ pc' = [pc EXCEPT ![d] = "request"]
  /\ UNCHANGED <<rowVars, lease, evs, queue, sess, run, dispatchRest>>

(* #reusableAuthoringTurn, up to the status of the saved operation.        *)
Bound(d) ==
  LET p == ptr[Min(evs[d])]
      match == p # 0 /\ turn[p] = [evs |-> evs[d], sess |-> sess] IN
  /\ Quiet /\ pc[d] = "bind"
  /\ \/ /\ opOf[d] # 0
        /\ Point(d, opOf[d], ptr) /\ pc' = [pc EXCEPT ![d] = "harvest"]
     \/ /\ opOf[d] = 0 /\ match
        /\ pc' = [pc EXCEPT ![d] = "probe"] /\ UNCHANGED <<ptr, opOf, turn>>
     \/ /\ opOf[d] = 0 /\ ~match
        /\ Point(d, d, Forget(evs[d], p)) /\ pc' = [pc EXCEPT ![d] = "request"]
  /\ UNCHANGED <<rowVars, lease, evs, queue, sess, run, dispatchRest>>

(* The status answers, or cannot be read.                                  *)
Probed(d, readable) ==
  LET p == ptr[Min(evs[d])]
      reuse == readable /\ p # 0 /\ run[p] \in {"running", "ok", "gone"} IN
  /\ Quiet /\ pc[d] = "probe"
  /\ \/ reuse /\ Point(d, p, ptr) /\ pc' = [pc EXCEPT ![d] = "harvest"]
     \/ ~reuse /\ Point(d, d, Forget(evs[d], p)) /\ pc' = [pc EXCEPT ![d] = "request"]
  /\ UNCHANGED <<rowVars, lease, evs, queue, sess, run, dispatchRest>>

(* External: the session takes the prompt of a fresh operation.            *)
Prompted(d) ==
  /\ pc[d] = "request" /\ opOf[d] = d /\ run[d] = "none"
  /\ run' = [run EXCEPT ![d] = "running"]
  /\ prompts' = [e \in Events |-> IF e \in evs[d] THEN prompts[e] + 1 ELSE prompts[e]]
  /\ UNCHANGED <<rowVars, lease, ptr, out, outbox, monitor, closing, burst, taskVars, sw,
                 sess, turn, retries, notes, sent, spent>>

(* External: the turn ends. gone: it completed and its own result can      *)
(* never be read; lost: its status is unknown.                             *)
RunEnds(o, how) ==
  /\ run[o] = "running" /\ run' = [run EXCEPT ![o] = how]
  /\ UNCHANGED <<rowVars, lease, ptr, out, outbox, monitor, closing, burst, taskVars, sw,
                 sess, turn, historyVars>>

-----------------------------------------------------------------------------
(* The end of a dispatch.                                                  *)

Owned(d) == {e \in Events : lease[e] = d}
Release(d) == lease' = On(Owned(d), 0, lease)

Leave(d) ==
  /\ pc' = [pc EXCEPT ![d] = "off"] /\ evs' = [evs EXCEPT ![d] = {}]
  /\ opOf' = [opOf EXCEPT ![d] = 0] /\ queue' = SelectSeq(queue, LAMBDA o : o # d)

(* eventFencedFail of every event; the lease is kept while the failure is  *)
(* recorded and a native compaction awaited. A result that is definitively *)
(* unreadable drops the pointer.                                           *)
Fail(d, c) ==
  /\ Quiet /\ pc[d] \in {"bind", "request", "harvest"}
  /\ c = "busy" /\ opOf[d] # 0 => run[opOf[d]] \in {"none", "failed"}
  /\ Write(Fenced(d), "failed", c)
  /\ pc' = [pc EXCEPT ![d] = "failing"]
  /\ \/ ptr' = ptr
     \/ pc[d] = "harvest" /\ run[opOf[d]] = "gone" /\ ptr' = Forget(evs[d], opOf[d])
  /\ UNCHANGED <<lease, evs, opOf, queue, batch, hostVars, dispatchRest>>

(* The session answers: dispatched and the pointer's retirement commit     *)
(* together for each event still owned; an answer nobody owns is dropped.  *)
Answered(d) == /\ Quiet /\ pc[d] \in {"request", "harvest"} /\ run[opOf[d]] = "ok"
               /\ ptr' = Forget(Fenced(d), opOf[d])

(* An empty or malformed answer fails what it had dispatched.              *)
AnswerBad(d) ==
  /\ Answered(d) /\ Fenced(d) # {}
  /\ Write(Fenced(d), "failed", "other")
  /\ pc' = [pc EXCEPT ![d] = "failing"]
  /\ UNCHANGED <<batch, lease, evs, opOf, queue, hostVars, dispatchRest>>

AnswerStale(d) ==
  /\ Answered(d) /\ Fenced(d) = {} /\ Leave(d)
  /\ UNCHANGED <<rowVars, lease, hostVars, dispatchRest>>

(* authorFenced for each event, note[e] being the kind of its note.        *)
AnswerGood(d, note) ==
  /\ Answered(d) /\ Fenced(d) # {}
  /\ stage' = On(Fenced(d), "authored", stage) /\ age' = On(Fenced(d), 0, age)
  /\ batch' = On(Fenced(d), d, batch)
  /\ out' = [e \in Events |-> IF e \in Fenced(d) THEN note[e] ELSE out[e]]
  /\ notes' = [e \in Events |-> IF e \in Fenced(d) THEN notes[e] + 1 ELSE notes[e]]
  /\ pc' = [pc EXCEPT ![d] = "deliver"]
  /\ UNCHANGED <<att, code, lease, evs, opOf, queue, hostVars, outbox, monitor, closing, burst,
                 sw, prompts, retries, sent, spent>>

(* Silence and echoes settle, the rest is one delivery; then the release.  *)
Deliver(d) ==
  LET W(k) == {e \in Fenced(d) : stage[e] = "authored" /\ out[e] = k} IN
  /\ pc[d] = "deliver"
  /\ stage' = IF HasTarget
              THEN On(W("silent"), "authored_no_delivery", On(W("echo"), "contract_unmet", stage))
              ELSE On(Fenced(d), "authored_no_delivery", stage)
  /\ code' = IF HasTarget THEN On(W("echo"), "other", code) ELSE code
  /\ outbox' = [outbox EXCEPT ![d] = IF HasTarget /\ W("note") # {} THEN "pending" ELSE @]
  /\ sent' = [e \in Events |-> IF HasTarget /\ e \in W("note") THEN sent[e] + 1 ELSE sent[e]]
  /\ Release(d) /\ Leave(d)
  /\ UNCHANGED <<att, batch, age, ptr, out, monitor, closing, burst, sw, hostVars, prompts,
                 retries, notes, spent>>

Failed(d) ==
  /\ Quiet /\ pc[d] = "failing" /\ Release(d) /\ Leave(d)
  /\ UNCHANGED <<rowVars, ptr, hostVars, dispatchRest>>

-----------------------------------------------------------------------------
(* reconcile.                                                              *)

sweepRest == <<monitor, closing, burst, sess, historyVars>>
taskRest == <<batch, lease, outbox, taskVars, run, turn>>

(* Mutant: the reaper does not look at the leases.                         *)
StaleLeased(e) == stage[e] \in InFlight /\ age[e] = 2 /\ out[e] = "none" /\ ptr[e] = 0

(* eventReapStale, at the head of every reconcile, also of one that finds  *)
(* a sweep already running.                                                *)
Stale(e) == /\ stage[e] \in InFlight /\ age[e] = 2 /\ out[e] = "none" /\ lease[e] = 0
            /\ ptr[e] = 0

Reap ==
  /\ Quiet /\ {e \in Events : Stale(e)} # {}
  /\ Write({e \in Events : Stale(e)}, "failed_no_retry", "other")
  /\ UNCHANGED <<att, batch, lease, ptr, out, outbox, taskVars, sw, turn, run, sweepRest>>

GivenUp == {e \in Events : stage[e] = "failed_no_retry" /\ code[e] = "unresolved" /\ ptr[e] # 0}
Open == {e \in Events : stage[e] \notin Terminal \cup {"none"}}

(* The sweep begins with the authored events behind a settled delivery.    *)
SweepStart ==
  LET Gone == {e \in Events : stage[e] = "authored" /\ outbox[batch[e]] = "expired"}
      Lost == {e \in Events : stage[e] = "authored" /\ outbox[batch[e]] = "confirmed"} IN
  /\ Quiet /\ sw.pc = "idle" /\ ~closing /\ {e \in Events : Stale(e)} = {}
  /\ Open \cup GivenUp # {}
  /\ stage' = On(Gone, "failed_no_retry", On(Lost, "delivered", stage))
  /\ age' = On(Gone \cup Lost, 0, age) /\ code' = On(Gone, "other", code)
  /\ sw' = [Idle EXCEPT !.pc = "reopen", !.todo = GivenUp]
  /\ UNCHANGED <<att, ptr, out, taskRest, sweepRest>>

(* #recoverUnresolvedTurns: the batch of a given-up event, whole. Its two  *)
(* reads are of a turn that has ended, which they cannot find otherwise    *)
(* later, and the transaction reads the rows again: they are one step.     *)
Reopenable(S, op) ==
  \A e \in S : stage[e] = "failed_no_retry" /\ att[e] >= MaxAttempts /\ lease[e] = 0
               /\ code[e] = "unresolved" /\ ptr[e] = op /\ out[e] = "none"
ReopenStep ==
  LET e == Min(sw.todo)
      S == turn[ptr[e]].evs
      able == ptr[e] # 0 /\ e \in S /\ Reopenable(S, ptr[e]) IN
  /\ Quiet /\ sw.pc = "reopen" /\ sw.todo # {} /\ ~closing
  /\ sw' = [sw EXCEPT !.todo = @ \ ({e} \cup S)]
  /\ \/ able /\ run[ptr[e]] = "ok" /\ Write(S, "failed", "kept") /\ UNCHANGED ptr
     \/ able /\ run[ptr[e]] \in {"failed", "gone"} /\ ptr' = Forget(S, ptr[e])
        /\ UNCHANGED <<stage, age, code>>
     \/ UNCHANGED <<stage, age, code, ptr>>
  /\ UNCHANGED <<att, out, taskRest, sweepRest>>

ReopenDone ==
  /\ Quiet /\ sw.pc = "reopen" /\ (sw.todo = {} \/ closing)
  /\ sw' = [Idle EXCEPT !.pc = "scan", !.todo = Open]
  /\ UNCHANGED <<rowVars, ptr, out, taskRest, sweepRest>>

(* #savedBatch, or the event alone.                                        *)
SavedBatch(e) ==
  LET S == IF ptr[e] = 0 THEN {} ELSE turn[ptr[e]].evs
      whole == /\ e \in S /\ S \cap sw.seen = {}
               /\ \A m \in S : /\ Recoverable(m) /\ att[m] < MaxAttempts /\ ptr[m] = ptr[e]
                               /\ out[m] = "none" /\ lease[m] = 0 IN
  IF whole THEN S ELSE {e}

Reclaimable(e) == Recoverable(e) /\ out[e] = "none" /\ lease[e] = 0
BackedOff(e) == stage[e] = "failed" /\ age[e] = 0 /\ code[e] # "busy" /\ att[e] > 0

(* The scan passes an event by, or settles a silent note a crash left.     *)
ScanSkip ==
  LET e == Min(sw.todo) IN
  /\ Quiet /\ sw.pc = "scan" /\ sw.todo # {} /\ ~closing
  /\ e \in sw.seen \/ ~Reclaimable(e) \/ (att[e] < MaxAttempts /\ BackedOff(e))
  /\ IF e \notin sw.seen /\ stage[e] = "authored" /\ out[e] = "silent"
     THEN Write({e}, "authored_no_delivery", "kept") ELSE UNCHANGED <<stage, age, code>>
  /\ sw' = [sw EXCEPT !.todo = @ \ {e}]
  /\ UNCHANGED <<att, ptr, out, taskRest, sweepRest>>

(* The sweep, in state s, waits for the dispatch it started, if any.       *)
AwaitLaunch(s) == IF queue' = queue THEN [s EXCEPT !.pc = "scan"]
                  ELSE [s EXCEPT !.pc = "wait", !.d = queue'[Len(queue')]]

(* Reclaimed within the budget; the sweep waits for the dispatch.          *)
ScanRedispatch ==
  LET e == Min(sw.todo)
      S == SavedBatch(e) IN
  /\ Quiet /\ sw.pc = "scan" /\ sw.todo # {} /\ ~closing
  /\ e \notin sw.seen /\ Reclaimable(e) /\ att[e] < MaxAttempts /\ ~BackedOff(e)
  /\ att' = [m \in Events |-> IF m \in S THEN att[m] + 1 ELSE att[m]]
  /\ Launch(S, 0, stage, On(S, 0, age), code)
  /\ sw' = AwaitLaunch([sw EXCEPT !.todo = @ \ {e}, !.seen = @ \cup S])
  /\ UNCHANGED <<ptr, out, sweepRest>>

(* The budget is spent: the event ends, unless it has a saved turn, whose  *)
(* status is awaited.                                                      *)
ScanExhausted ==
  LET e == Min(sw.todo) IN
  /\ Quiet /\ sw.pc = "scan" /\ sw.todo # {} /\ ~closing
  /\ e \notin sw.seen /\ Reclaimable(e) /\ att[e] >= MaxAttempts
  /\ \/ ptr[e] = 0 /\ Write({e}, "failed_no_retry", "kept")
        /\ sw' = [sw EXCEPT !.todo = @ \ {e}]
     \/ ptr[e] # 0 /\ UNCHANGED <<stage, age, code>>
        /\ sw' = [sw EXCEPT !.pc = "status", !.todo = @ \ {e}, !.e = e, !.op = ptr[e], !.att = att[e]]
  /\ UNCHANGED <<att, ptr, out, taskRest, sweepRest>>

(* What the transaction that ends the event reads again.                   *)
StillExhausted(e) == /\ stage[e] \notin Terminal /\ att[e] = sw.att /\ out[e] = "none"
                     /\ lease[e] = 0

Resumable(S, op) ==
  \A m \in S : stage[m] \notin Terminal /\ ptr[m] = op /\ out[m] = "none" /\ lease[m] = 0

(* #exhaustedTurnDisposition of operation op with events S.                *)
Disposition(S, op, readable) ==
  CASE ~readable \/ run[op] \in {"none", "lost"} -> "unresolved"
    [] run[op] = "running" -> "hold"
    [] run[op] = "failed" -> "terminal"
    [] OTHER -> IF ~monitor THEN "monitor_invalid"
                ELSE IF ~Resumable(S, op) THEN "unresolved"
                ELSE IF run[op] = "gone" THEN "terminal" ELSE "resume"

(* The event ends: a turn nobody can resolve after a day, with its pointer *)
(* kept; a turn that failed or cannot be read, without it.                 *)
Ends(e, how) ==
  /\ StillExhausted(e)
  /\ \/ how = "unresolved" /\ age[e] = 2 /\ ptr[e] # 0
     \/ how \in {"terminal", "monitor_invalid"} /\ ptr[e] = sw.op /\ att[e] >= MaxAttempts

SweepStatus(readable) ==
  LET e == sw.e
      S == turn[sw.op].evs
      how == Disposition(S, sw.op, readable) IN
  /\ Quiet /\ sw.pc = "status"
  /\ \/ /\ how = "resume" /\ UNCHANGED ptr
        /\ Launch(S, sw.op, stage, age, code)
        /\ sw' = AwaitLaunch([sw EXCEPT !.seen = @ \cup S])
     \/ /\ how # "resume" /\ Ends(e, how)
        /\ Write({e}, "failed_no_retry", IF how = "terminal" THEN "kept"
                                         ELSE IF how = "unresolved" THEN how ELSE "removed")
        /\ ptr' = IF how = "terminal" THEN Forget({e}, sw.op) ELSE ptr
        /\ sw' = [sw EXCEPT !.pc = "scan"] /\ UNCHANGED taskRest
     \/ /\ how # "resume" /\ ~Ends(e, how)
        /\ sw' = [sw EXCEPT !.pc = "scan"] /\ UNCHANGED <<stage, age, code, ptr, taskRest>>
  /\ UNCHANGED <<att, out, sweepRest>>

SweepWaited ==
  /\ Quiet /\ sw.pc = "wait" /\ pc[sw.d] = "off"
  /\ sw' = [sw EXCEPT !.pc = "scan", !.d = 0]
  /\ UNCHANGED <<rowVars, ptr, out, taskRest, sweepRest>>

SweepDone ==
  /\ Quiet /\ sw.pc = "scan" /\ (sw.todo = {} \/ closing)
  /\ sw' = Idle
  /\ UNCHANGED <<rowVars, ptr, out, taskRest, sweepRest>>

-----------------------------------------------------------------------------
(* The operator, the registry, the adapter and the clock.                  *)

quietRest == <<out, taskRest, sw, monitor, closing, burst, sess, prompts, notes, sent>>

Hand == spent.hands < MaxHands /\ spent' = [spent EXCEPT !.hands = @ + 1]

Settle(e) ==
  /\ Quiet /\ Hand /\ stage[e] \in InFlight /\ out[e] = "none" /\ lease[e] = 0
  /\ Write({e}, "failed_no_retry", "operator")
  /\ UNCHANGED <<att, ptr, retries, quietRest>>

(* eventOperatorRetry, and retry: the rest of the saved turn goes with it. *)
RetryAble(e) == /\ stage[e] \in {"failed", "failed_no_retry"} /\ out[e] = "none"
                /\ lease[e] = 0

Retry(e) ==
  LET S == {e} \cup {m \in Events : ptr[e] # 0 /\ m \in turn[ptr[e]].evs
                                    /\ ptr[m] = ptr[e] /\ RetryAble(m)} IN
  /\ Quiet /\ Hand /\ RetryAble(e)
  /\ Write(S, "failed", "kept") /\ att' = On(S, 0, att)
  /\ retries' = [m \in Events |-> IF m \in S THEN retries[m] + 1 ELSE retries[m]]
  /\ UNCHANGED <<ptr, quietRest>>

(* registry.remove.                                                        *)
Remove ==
  /\ Quiet /\ Hand /\ monitor /\ monitor' = FALSE
  /\ Write({e \in Events : stage[e] \in {"admitted", "failed"}}, "failed_no_retry", "removed")
  /\ UNCHANGED <<att, ptr, out, taskRest, sw, closing, burst, sess, prompts, retries, notes,
                 sent>>

(* confirmAndSettleMonitorDelivery: a confirmation that finds the delivery *)
(* expired settles nothing, a second one settles again.                    *)
Confirm(d) ==
  /\ Quiet /\ outbox[d] \in {"pending", "confirmed"}
  /\ outbox' = [outbox EXCEPT ![d] = "confirmed"]
  /\ Write({e \in Events : batch[e] = d /\ (stage[e] = "authored" \/
              (stage[e] = "failed_no_retry" /\ out[e] # "none"))}, "delivered", "kept")
  /\ UNCHANGED <<att, batch, lease, ptr, out, taskVars, run, turn, sw, sweepRest>>

(* eventsFailExpiredDelivery: the events an expired delivery strands.      *)
Expired(S) == {e \in Events : batch[e] \in S /\ stage[e] = "authored"}

(* The outbox gives a delivery up, and reportDeliveryExpired fails its     *)
(* events in a transaction of its own.                                     *)
Expire(d) ==
  /\ Quiet /\ outbox[d] = "pending"
  /\ outbox' = [outbox EXCEPT ![d] = "expired"]
  /\ Write(Expired({d}), "failed_no_retry", "other")
  /\ UNCHANGED <<att, batch, lease, ptr, out, taskVars, run, turn, sw, sweepRest>>

Age(e) ==
  /\ Quiet /\ stage[e] \in InFlight /\ age[e] < 2
  /\ age' = [age EXCEPT ![e] = @ + 1]
  /\ UNCHANGED <<stage, att, code, ptr, retries, spent, quietRest>>

(* The lease of a dead dispatch runs out.                                  *)
LeaseExpires(e) ==
  /\ Quiet /\ lease[e] # 0 /\ pc[lease[e]] = "off"
  /\ lease' = [lease EXCEPT ![e] = 0]
  /\ UNCHANGED <<rowVars, ptr, out, batch, outbox, taskVars, run, turn, sw, sweepRest>>

(* The process sleeps longer than the leases it renews.                    *)
Suspend ==
  /\ Quiet /\ spent.suspend < MaxSuspend /\ \E e \in Events : lease[e] # 0
  /\ spent' = [spent EXCEPT !.suspend = @ + 1]
  /\ lease' = [e \in Events |-> 0]
  /\ UNCHANGED <<rowVars, ptr, out, outbox, monitor, closing, burst, taskVars, sw, hostVars,
                 prompts, retries, notes, sent>>

(* dispose, then the end of drain: #interruptClaims.                       *)
Close ==
  /\ Quiet /\ ~closing /\ spent.crash < MaxCrash
  /\ closing' = TRUE /\ burst' = {}
  /\ UNCHANGED <<rowVars, lease, ptr, out, outbox, monitor, taskVars, sw, hostVars, historyVars>>

Interrupt ==
  LET S(d) == IF pc[d] = "off" THEN {} ELSE Fenced(d)
      F == UNION {S(d) : d \in Dispatches} IN
  /\ Quiet /\ closing /\ \E e \in Events : lease[e] # 0 /\ pc[lease[e]] # "off"
  /\ Write(F, "failed", "busy")
  /\ lease' = [e \in Events |-> IF lease[e] # 0 /\ pc[lease[e]] # "off" THEN 0 ELSE lease[e]]
  /\ UNCHANGED <<att, batch, ptr, out, outbox, monitor, closing, burst, taskVars, sw, hostVars,
                 historyVars>>

(* The process dies, also between an answer and its delivery or between a  *)
(* delivery given up and its events, and is started again.                 *)
Crash ==
  /\ spent.crash < MaxCrash /\ spent' = [spent EXCEPT !.crash = @ + 1]
  /\ pc' = [d \in Dispatches |-> "off"] /\ evs' = [d \in Dispatches |-> {}]
  /\ opOf' = [d \in Dispatches |-> 0] /\ queue' = <<>> /\ sw' = Idle
  /\ closing' = FALSE /\ burst' = {}
  /\ \/ outbox' = outbox
     \/ Quiet /\ \E d \in Dispatches : outbox[d] = "pending" /\ outbox' = [outbox EXCEPT ![d] = "expired"]
  /\ UNCHANGED <<rowVars, lease, ptr, out, monitor, hostVars, prompts, retries, notes,
                 sent>>

Kinds == {"note", "silent", "echo"}
Work(d) ==
  \/ Enter(d) \/ Bound(d) \/ Prompted(d) \/ AnswerStale(d) \/ Deliver(d) \/ Failed(d)
  \/ \E readable \in BOOLEAN : Probed(d, readable)
  \/ \E note \in [Events -> Kinds] :
       (\A e \in Events \ Fenced(d) : note[e] = "note") /\ AnswerGood(d, note)
Sweep ==
  \/ Reap \/ SweepStart \/ ReopenStep \/ ReopenDone \/ ScanSkip \/ ScanRedispatch
  \/ ScanExhausted \/ SweepWaited \/ SweepDone
  \/ \E readable \in BOOLEAN : SweepStatus(readable)
Operator == Remove \/ \E e \in Events : Settle(e) \/ Retry(e)

Next ==
  \/ \E e \in Events, same \in BOOLEAN : Submit(e, same)
  \/ BurstTimer \/ Sweep \/ Operator \/ Suspend \/ Close \/ Interrupt \/ Crash
  \/ \E d \in Dispatches : Work(d) \/ AnswerBad(d) \/ Confirm(d) \/ Expire(d)
                           \/ \E c \in {"busy", "other"} : Fail(d, c)
  \/ \E o \in Dispatches, how \in {"ok", "gone", "failed", "lost"} : RunEnds(o, how)
  \/ \E e \in Events : Age(e) \/ LeaseExpires(e)

Spec == Init /\ [][Next]_vars

-----------------------------------------------------------------------------
(* Properties.                                                             *)

(* The values of the rows, of the dispatches and of the sweep; whoever is  *)
(* past runExclusive is first in its queue.                                *)
TypeOK ==
  /\ stage \in [Events -> Stages] /\ att \in [Events -> 0..MaxAttempts]
  /\ code \in [Events -> Codes] /\ age \in [Events -> 0..2]
  /\ \A f \in {batch, lease, ptr} : f \in [Events -> 0..MaxDispatch]
  /\ out \in [Events -> Kinds \cup {"none"}]
  /\ outbox \in [Dispatches -> {"none", "pending", "confirmed", "expired"}]
  /\ evs \in [Dispatches -> SUBSET Events] /\ opOf \in [Dispatches -> 0..MaxDispatch]
  /\ {queue[i] : i \in DOMAIN queue} = {d \in Dispatches : pc[d] # "off"}
  /\ \A d \in Dispatches : pc[d] \notin {"off", "queued"} => Head(queue) = d

(* An event is answered once: whatever leases ran out, processes died and  *)
(* operators retried, a late attempt never records a second note over the  *)
(* first (authorFenced under the live lease), and one delivery carries it. *)
AnsweredOnce == \A e \in DOMAIN notes : notes[e] <= 1 /\ sent[e] <= 1

(* The reclaim budget bounds the prompts an event costs: one of its own    *)
(* and one for each reclaim, again after each operator retry. Resuming a   *)
(* saved turn and reopening a given-up batch never send a fresh prompt.    *)
PromptBudget == \A e \in DOMAIN prompts : prompts[e] <= 1 + MaxAttempts * (1 + retries[e])

(* Nobody ends an event under a live lease but the removal of its monitor. *)
LeaseKept ==
  \A e \in DOMAIN stage : stage[e] \in InFlight /\ stage'[e] = "failed_no_retry"
                            => lease[e] = 0 \/ code'[e] = "removed"

(* Neither the next fire, nor the reaper, nor a spent budget ends an event *)
(* whose prompt is still running: only the operator does, or a day without *)
(* a readable status, which keeps the pointer.                             *)
RunningKept ==
  \A e \in DOMAIN stage :
    /\ stage[e] \in InFlight /\ stage'[e] = "failed_no_retry"
    /\ ptr[e] # 0 /\ run[ptr[e]] = "running"
    => ptr'[e] = ptr[e] /\ code'[e] \in {"removed", "operator", "unresolved"}

(* A terminal event stays as it ended: only a failure without a note is    *)
(* tried again, and only one with a note is found delivered after all.     *)
TerminalKept ==
  \A e \in DOMAIN stage : stage[e] \in Terminal /\ stage'[e] # stage[e] =>
    /\ stage[e] = "failed_no_retry"
    /\ \/ stage'[e] = "failed" /\ out[e] = "none"
       \/ stage'[e] = "delivered" /\ out[e] # "none" /\ outbox'[batch[e]] = "confirmed"

(* What a step may not do to an event that is leased, runs or has ended.   *)
LeaseRespected == [][LeaseKept /\ RunningKept /\ TerminalKept]_vars

(* A note whose dispatch died between recording it and enqueueing it.      *)
Orphaned(e) ==
  /\ stage[e] = "authored" /\ out[e] \in {"note", "echo"} /\ outbox[batch[e]] = "none"
  /\ pc[batch[e]] # "deliver"
=============================================================================

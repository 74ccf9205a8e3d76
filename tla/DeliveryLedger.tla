--------------------------- MODULE DeliveryLedger ---------------------------
(***************************************************************************)
(* The durable delivery outbox of the gateway and the adapter that empties *)
(* it: store/groups/outbox.ts (the ledger rows), delivery/delivery.ts (the *)
(* sweep and the payloads it reissues), the delivery verbs, the connect    *)
(* handshake and the expiry report of server/server.ts, the monitor batch  *)
(* that rides on a delivery, and the settlement routine every platform     *)
(* adapter runs for a chat.message event.                                  *)
(*                                                                         *)
(* One platform adapter is modelled: the adapter lease admits one process  *)
(* per platform and an adapter ignores the events of the other platforms.  *)
(* SQLite transactions are atomic and survive a crash; the connection and  *)
(* everything the adapter has in hand do not.                              *)
(*                                                                         *)
(* Time is two flags per row, both measured by the code against one stored *)
(* timestamp: "stale" (created_at is older than the freshness window) and  *)
(* "rested" (updated_at is older than the retry backoff and, for an        *)
(* inflight row, the ack timeout).                                         *)
(***************************************************************************)
EXTENDS Integers, FiniteSets

CONSTANTS
  Deliveries,    (* delivery ids                                           *)
  Batches,       (* the ones whose turn_id is a monitor batch              *)
  Chunks,        (* platform messages one delivery is split into           *)
  MaxFailures,   (* MAX_DEFINITIVE_FAILURES                                *)
  MaxCopies      (* bound: chat.message events emitted per delivery        *)

ASSUME BatchesAssumption == Batches \subseteq Deliveries
ASSUME ChunksAssumption == Chunks \in Nat \ {0}
ASSUME MaxFailuresAssumption == MaxFailures \in Nat \ {0}
ASSUME MaxCopiesAssumption == MaxCopies \in Nat

VARIABLES
  state,      (* deliveries.state, or whether the row exists               *)
  attempts,   (* deliveries.attempts                                       *)
  rested,     (* updated_at + backoff (and ack timeout) has passed         *)
  stale,      (* created_at + freshness window has passed                  *)
  copy,       (* the events emitted for a delivery, in emission order      *)
  sent,       (* how many slots of copy are used                           *)
  conn,       (* the adapter holds a negotiated connection                 *)
  event,      (* stage of the monitor events of the batch                  *)
  noticed     (* deliveries whose owner notice (gw-x- id) was created      *)

vars == <<state, attempts, rested, stale, copy, sent, conn, event, noticed>>
ledgerVars == <<state, attempts, rested, stale>>

States == {"absent", "pending", "inflight", "confirmed", "failed_ambiguous",
           "expired", "deleted"}
Unsettled == {"pending", "inflight", "failed_ambiguous"}
Requeueable == {"expired", "failed_ambiguous", "pending"}

(* A copy is open while the adapter is posting it, then owes one           *)
(* settlement request; an orphan posts on behalf of a dead connection.     *)
Phases == {"unsent", "open", "orphan", "confirm", "fail", "failAmbiguous", "done"}
Slots == 1..MaxCopies
Copy == [phase : Phases, warn : BOOLEAN, landed : 0..Chunks]
Unsent == [phase |-> "unsent", warn |-> FALSE, landed |-> 0]

Init ==
  /\ state = [d \in Deliveries |-> "absent"]
  /\ attempts = [d \in Deliveries |-> 0]
  /\ rested = [d \in Deliveries |-> FALSE]
  /\ stale = [d \in Deliveries |-> FALSE]
  /\ copy = [d \in Deliveries |-> [i \in Slots |-> Unsent]]
  /\ sent = [d \in Deliveries |-> 0]
  /\ conn = FALSE
  /\ event = [d \in Deliveries |-> IF d \in Batches THEN "authored" ELSE "none"]
  /\ noticed = {}

-----------------------------------------------------------------------------
(* Emission and connection loss.                                           *)

(* A chat.message event of every delivery in E goes to the adapter when it *)
(* is connected; Warned are the ones carrying duplicateWarning. An event   *)
(* past the MaxCopies bound is one the adapter never acts on.              *)
Emit(E, Warned, connected) ==
  LET Room == {d \in E : connected /\ sent[d] < MaxCopies}
  IN  /\ copy' = [d \in Deliveries |->
                    IF d \in Room
                    THEN [copy[d] EXCEPT ![sent[d] + 1] =
                            [phase |-> "open", warn |-> d \in Warned, landed |-> 0]]
                    ELSE copy[d]]
      /\ sent' = [d \in Deliveries |-> IF d \in Room THEN sent[d] + 1 ELSE sent[d]]

(* What a copy becomes when its connection is gone: settlement requests    *)
(* fail, a posting that has started goes on without anyone to report to.   *)
Orphaned(c) ==
  [c EXCEPT !.phase = IF @ = "open" THEN "orphan"
                      ELSE IF @ \in {"confirm", "fail", "failAmbiguous"} THEN "done"
                      ELSE @]

DropConnection ==
  /\ conn' = FALSE
  /\ copy' = [d \in Deliveries |-> [i \in Slots |-> Orphaned(copy[d][i])]]
  /\ UNCHANGED sent

(* reportDeliveryExpired of the rows in X: the monitor events riding on    *)
(* them fail terminally, the owner gets one notice per delivery id.        *)
ReportExpired(X) ==
  /\ event' = [d \in Deliveries |->
                 IF d \in X /\ event[d] = "authored" THEN "failed_no_retry" ELSE event[d]]
  /\ noticed' = noticed \cup X

-----------------------------------------------------------------------------
(* Gateway: creating, sweeping, settling, requeueing, pruning.             *)

(* DeliveryService.prepare then broadcastDelivery, without a yield between *)
(* the two transactions. A second prepare of the same id creates nothing.  *)
Prepare(d) ==
  /\ state[d] = "absent"
  /\ state' = [state EXCEPT ![d] = "inflight"]
  /\ Emit({d}, {}, conn)
  /\ UNCHANGED <<attempts, rested, stale, conn, event, noticed>>

(* The gateway dies between the two transactions.                          *)
PrepareCrash(d) ==
  /\ state[d] = "absent"
  /\ state' = [state EXCEPT ![d] = "pending"]
  /\ DropConnection
  /\ UNCHANGED <<attempts, rested, stale, event, noticed>>

StaleRows == {d \in Deliveries : state[d] \in Unsettled /\ stale[d]}

(* listUndelivered: fresh, and past the backoff and ack timeout unless the *)
(* adapter has just connected.                                             *)
Undelivered(onConnect) ==
  {d \in Deliveries :
     /\ state[d] \in Unsettled /\ ~stale[d]
     /\ \/ onConnect \/ rested[d]
        \/ attempts[d] = 0 /\ state[d] # "inflight"}

WarnedRows == {d \in Deliveries : state[d] \in {"inflight", "failed_ambiguous"}}

(* The hello of an adapter: expire, then write the replay candidates to    *)
(* this connection. The replay does not mark them inflight.                *)
Connect ==
  /\ ~conn
  /\ conn' = TRUE
  /\ state' = [d \in Deliveries |-> IF d \in StaleRows THEN "expired" ELSE state[d]]
  /\ rested' = [d \in Deliveries |-> IF d \in StaleRows THEN FALSE ELSE rested[d]]
  /\ ReportExpired(StaleRows)
  /\ Emit(Undelivered(TRUE), WarnedRows, TRUE)
  /\ UNCHANGED <<attempts, stale>>

(* Mutant of the sweep: it runs only while an adapter is connected.        *)
SweepTimerConnected ==
  LET Due == Undelivered(FALSE)
  IN  /\ conn /\ StaleRows \cup Due # {}
      /\ state' = [d \in Deliveries |->
                     IF d \in StaleRows THEN "expired"
                     ELSE IF d \in Due THEN "inflight" ELSE state[d]]
      /\ rested' = [d \in Deliveries |->
                      IF d \in StaleRows \cup Due THEN FALSE ELSE rested[d]]
      /\ ReportExpired(StaleRows)
      /\ Emit(Due, WarnedRows, conn)
      /\ UNCHANGED <<attempts, stale, conn>>

(* The 15 second timer: expire with or without an adapter, then broadcast  *)
(* the due rows, each marked inflight before it is written.                *)
SweepTimer ==
  LET Due == IF conn THEN Undelivered(FALSE) ELSE {}
  IN  /\ StaleRows \cup Due # {}
      /\ state' = [d \in Deliveries |->
                     IF d \in StaleRows THEN "expired"
                     ELSE IF d \in Due THEN "inflight" ELSE state[d]]
      /\ rested' = [d \in Deliveries |->
                      IF d \in StaleRows \cup Due THEN FALSE ELSE rested[d]]
      /\ ReportExpired(StaleRows)
      /\ Emit(Due, WarnedRows, conn)
      /\ UNCHANGED <<attempts, stale, conn>>

(* The gateway dies after expireStale committed and before the report.     *)
SweepCrash ==
  /\ StaleRows # {}
  /\ state' = [d \in Deliveries |-> IF d \in StaleRows THEN "expired" ELSE state[d]]
  /\ rested' = [d \in Deliveries |-> IF d \in StaleRows THEN FALSE ELSE rested[d]]
  /\ DropConnection
  /\ UNCHANGED <<attempts, stale, event, noticed>>

(* Mutant: the monitor batch settles whatever the row's state.             *)
ConfirmAnyRow(d, i) ==
  /\ conn /\ copy[d][i].phase = "confirm"
  /\ state' = IF state[d] \in Unsettled THEN [state EXCEPT ![d] = "confirmed"] ELSE state
  /\ rested' = IF state[d] \in Unsettled THEN [rested EXCEPT ![d] = FALSE] ELSE rested
  /\ event' = IF event[d] # "none" THEN [event EXCEPT ![d] = "delivered"] ELSE event
  /\ copy' = [copy EXCEPT ![d][i].phase = "done"]
  /\ UNCHANGED <<attempts, stale, sent, conn, noticed>>

(* delivery.confirm: the row and the monitor batch settle in one           *)
(* transaction; an expired row acknowledges and settles nothing. The       *)
(* answer may time out, and then the adapter reports an ambiguous failure. *)
Confirm(d, i) ==
  /\ conn /\ copy[d][i].phase = "confirm"
  /\ IF state[d] \in Unsettled
     THEN /\ state' = [state EXCEPT ![d] = "confirmed"]
          /\ rested' = [rested EXCEPT ![d] = FALSE]
     ELSE UNCHANGED <<state, rested>>
  /\ event' = IF state[d] \in Unsettled \cup {"confirmed"} /\ event[d] # "none"
              THEN [event EXCEPT ![d] = "delivered"] ELSE event
  /\ \E p \in {"done", "failAmbiguous"} : copy' = [copy EXCEPT ![d][i].phase = p]
  /\ UNCHANGED <<attempts, stale, sent, conn, noticed>>

(* OutboxGroup.fail: the state a reported failure leaves the row in.       *)
FailedState(ambiguous, n) ==
  IF ambiguous THEN "failed_ambiguous"
  ELSE IF n >= MaxFailures THEN "expired" ELSE "pending"

(* Mutant: the terminal guard is dropped.                                  *)
RecordFailureAlways(d, i) ==
  /\ conn /\ copy[d][i].phase \in {"fail", "failAmbiguous"}
  /\ attempts' = [attempts EXCEPT ![d] = @ + 1]
  /\ state' = [state EXCEPT ![d] =
        FailedState(copy[d][i].phase = "failAmbiguous", attempts[d] + 1)]
  /\ rested' = [rested EXCEPT ![d] = FALSE]
  /\ UNCHANGED stale

(* The ledger half of delivery.fail; a terminal or deleted row is left.    *)
RecordFailure(d, i) ==
  /\ conn /\ copy[d][i].phase \in {"fail", "failAmbiguous"}
  /\ IF state[d] \in Unsettled
     THEN /\ attempts' = [attempts EXCEPT ![d] = @ + 1]
          /\ state' = [state EXCEPT ![d] =
                FailedState(copy[d][i].phase = "failAmbiguous", attempts[d] + 1)]
          /\ rested' = [rested EXCEPT ![d] = FALSE]
     ELSE UNCHANGED <<attempts, state, rested>>
  /\ UNCHANGED stale

Fail(d, i) ==
  /\ RecordFailure(d, i)
  /\ copy' = [copy EXCEPT ![d][i].phase = "done"]
  /\ ReportExpired(IF state[d] \in Unsettled /\ state'[d] = "expired" THEN {d} ELSE {})
  /\ UNCHANGED <<sent, conn>>

(* The gateway dies between the ledger transaction and the expiry report.  *)
FailCrash(d, i) ==
  /\ state[d] \in Unsettled
  /\ RecordFailure(d, i)
  /\ DropConnection
  /\ UNCHANGED <<event, noticed>>

(* ops.redeliver by id (a singleton) or since a time (any set of eligible  *)
(* rows): requeued, then broadcast with the duplicate warning.             *)
Requeue(D) ==
  /\ D # {} /\ \A d \in D : state[d] \in Requeueable
  /\ state' = [d \in Deliveries |-> IF d \in D THEN "inflight" ELSE state[d]]
  /\ attempts' = [d \in Deliveries |-> IF d \in D THEN 0 ELSE attempts[d]]
  /\ rested' = [d \in Deliveries |-> IF d \in D THEN FALSE ELSE rested[d]]
  /\ Emit(D, D, conn)
  /\ UNCHANGED <<stale, conn, event, noticed>>

(* Retention deletes old confirmed and expired rows.                       *)
Prune(d) ==
  /\ state[d] \in {"confirmed", "expired"}
  /\ state' = [state EXCEPT ![d] = "deleted"]
  /\ UNCHANGED <<attempts, rested, stale, copy, sent, conn, event, noticed>>

(* Mutant: the repair pass looks at confirmed rows only.                   *)
ReconcileConfirmed(d) ==
  /\ event[d] = "authored" /\ state[d] = "confirmed"
  /\ event' = [event EXCEPT ![d] = "delivered"]
  /\ UNCHANGED <<ledgerVars, copy, sent, conn, noticed>>

(* The repair pass of MonitorPropagator.reconcile over terminal rows whose *)
(* events are still authored.                                              *)
ReconcileBatch(d) ==
  /\ event[d] = "authored" /\ state[d] \in {"confirmed", "expired"}
  /\ event' = [event EXCEPT ![d] =
                 IF state[d] = "expired" THEN "failed_no_retry" ELSE "delivered"]
  /\ UNCHANGED <<ledgerVars, copy, sent, conn, noticed>>

-----------------------------------------------------------------------------
(* Adapter: posting the chunks of a copy.                                  *)

(* Mutant: the adapter confirms after the first chunk.                     *)
PostChunkEarly(d, i) ==
  LET c == copy[d][i]
  IN  /\ c.phase \in {"open", "orphan"}
      /\ copy' = [copy EXCEPT ![d][i] =
           [c EXCEPT !.landed = c.landed + 1,
                     !.phase = IF c.phase = "open" THEN "confirm" ELSE "done"]]
      /\ UNCHANGED <<ledgerVars, sent, conn, event, noticed>>

(* One chunk is accepted by the platform; after the last one the adapter   *)
(* asks the gateway to confirm.                                            *)
PostChunk(d, i) ==
  LET c == copy[d][i]
  IN  /\ c.phase \in {"open", "orphan"}
      /\ copy' = [copy EXCEPT ![d][i] =
           [phase |-> IF c.landed + 1 < Chunks THEN c.phase
                      ELSE IF c.phase = "open" THEN "confirm" ELSE "done",
            warn |-> c.warn, landed |-> c.landed + 1]]
      /\ UNCHANGED <<ledgerVars, sent, conn, event, noticed>>

(* The platform refuses the next chunk with an error the adapter knows to  *)
(* be definitive; earlier chunks stay where they are.                      *)
PostRefused(d, i) ==
  LET c == copy[d][i]
  IN  /\ c.phase \in {"open", "orphan"}
      /\ copy' = [copy EXCEPT ![d][i] =
           [c EXCEPT !.phase = IF c.phase = "open" THEN "fail" ELSE "done"]]
      /\ UNCHANGED <<ledgerVars, sent, conn, event, noticed>>

(* The request for the next chunk ends without an answer: it may have been *)
(* posted.                                                                 *)
PostUnknown(d, i) ==
  LET c == copy[d][i]
  IN  /\ c.phase \in {"open", "orphan"}
      /\ \E n \in {0, 1} :
           copy' = [copy EXCEPT ![d][i] =
             [phase |-> IF c.phase = "open" THEN "failAmbiguous" ELSE "done",
              warn |-> c.warn, landed |-> c.landed + n]]
      /\ UNCHANGED <<ledgerVars, sent, conn, event, noticed>>

(* The socket closes, or the gateway dies outside a delivery handler.      *)
Disconnect ==
  /\ conn
  /\ DropConnection
  /\ UNCHANGED <<ledgerVars, event, noticed>>

(* The adapter process dies: what it was posting stops where it is.        *)
AdapterCrash ==
  /\ \E d \in Deliveries, i \in Slots : copy[d][i].phase \notin {"unsent", "done"}
  /\ conn' = FALSE
  /\ copy' = [d \in Deliveries |-> [i \in Slots |->
       [copy[d][i] EXCEPT !.phase = IF @ = "unsent" THEN @ ELSE "done"]]]
  /\ UNCHANGED <<ledgerVars, sent, event, noticed>>

-----------------------------------------------------------------------------
(* Time.                                                                   *)

Rest(d) ==
  /\ state[d] \in Unsettled /\ ~rested[d]
  /\ attempts[d] > 0 \/ state[d] = "inflight"
  /\ rested' = [rested EXCEPT ![d] = TRUE]
  /\ UNCHANGED <<state, attempts, stale, copy, sent, conn, event, noticed>>

Age(d) ==
  /\ state[d] \notin {"absent", "deleted"} /\ ~stale[d]
  /\ stale' = [stale EXCEPT ![d] = TRUE]
  /\ UNCHANGED <<state, attempts, rested, copy, sent, conn, event, noticed>>

-----------------------------------------------------------------------------
Next ==
  \/ Connect \/ SweepTimer \/ SweepCrash \/ Disconnect \/ AdapterCrash
  \/ \E D \in SUBSET Deliveries : Requeue(D)
  \/ \E d \in Deliveries :
       \/ Prepare(d) \/ PrepareCrash(d) \/ Prune(d) \/ ReconcileBatch(d)
       \/ Rest(d) \/ Age(d)
       \/ \E i \in Slots :
            \/ Confirm(d, i) \/ Fail(d, i) \/ FailCrash(d, i)
            \/ PostChunk(d, i) \/ PostRefused(d, i) \/ PostUnknown(d, i)

Spec == Init /\ [][Next]_vars

(* The timers of a running gateway and the passing of time; nothing is     *)
(* assumed of the adapter, the platform or the operator.                   *)
Fairness ==
  /\ WF_vars(SweepTimer)
  /\ \A d \in Deliveries : WF_vars(Age(d)) /\ WF_vars(ReconcileBatch(d))

FairSpec == Spec /\ Fairness

-----------------------------------------------------------------------------
(* Every variable has its type.                                            *)
TypeOK ==
  /\ state \in [Deliveries -> States]
  /\ attempts \in [Deliveries -> Nat]
  /\ rested \in [Deliveries -> BOOLEAN]
  /\ stale \in [Deliveries -> BOOLEAN]
  /\ copy \in [Deliveries -> [Slots -> Copy]]
  /\ sent \in [Deliveries -> 0..MaxCopies]
  /\ conn \in BOOLEAN
  /\ event \in [Deliveries -> {"none", "authored", "delivered", "failed_no_retry"}]
  /\ noticed \in SUBSET Deliveries

(* A row is confirmed only when some emitted copy was posted in full: no   *)
(* order of sweeps, reconnects, late reports and crashes confirms a        *)
(* delivery whose last chunk the platform never accepted.                  *)
ConfirmedLanded ==
  \A d \in Deliveries :
    state[d] = "confirmed" => \E i \in Slots : copy[d][i].landed = Chunks

(* Monitor events are delivered only behind a confirmed row: a late        *)
(* confirm of an expired delivery, a requeue or the repair pass never      *)
(* marks them delivered while the ledger says otherwise.                   *)
DeliveredOnlyConfirmed ==
  \A d \in Deliveries : event[d] = "delivered" => state[d] \in {"confirmed", "deleted"}

(* A row still inside the freshness window expires only when its failure   *)
(* budget is spent, and a row waiting for a retry has budget left.         *)
FailureBudget ==
  \A d \in Deliveries :
    /\ state[d] = "pending" => attempts[d] < MaxFailures
    /\ state[d] = "expired" /\ ~stale[d] => attempts[d] >= MaxFailures

(* Terminal rows are monotonic: a confirmed row only leaves by retention,  *)
(* an expired one by retention or an operator's requeue, which starts its  *)
(* failure count again. Late confirms and fails rewrite neither.           *)
TerminalStep ==
  \A d \in Deliveries :
    /\ state[d] = "confirmed" => state'[d] \in {"confirmed", "deleted"}
    /\ state[d] = "expired" /\ state'[d] # "expired" =>
         \/ state'[d] = "deleted"
         \/ state'[d] = "inflight" /\ attempts'[d] = 0

(* TerminalStep of every step of the gateway and the adapter.              *)
TerminalStable == [][TerminalStep]_vars

(* Every queued delivery reaches a terminal state, whether or not an       *)
(* adapter is ever connected to retry it.                                  *)
EveryDeliverySettles ==
  \A d \in Deliveries : (state[d] \in Unsettled) ~> (state[d] \notin Unsettled)

(* Monitor events stranded behind an expired delivery by a crash before    *)
(* the expiry report do not stay authored.                                 *)
ExpiredBatchFails ==
  \A d \in Deliveries :
    (state[d] = "expired" /\ event[d] = "authored")
      ~> (state[d] # "expired" \/ event[d] # "authored")

(* What README.md says of replies: a reissued send whose outcome was       *)
(* uncertain is visibly labelled. Two copies of a delivery that both left  *)
(* something on the platform are told apart by the warning.                *)
DuplicatesLabelled ==
  \A d \in Deliveries : \A i, j \in Slots :
    i < j /\ copy[d][i].landed > 0 /\ copy[d][j].landed > 0 => copy[d][j].warn
=============================================================================

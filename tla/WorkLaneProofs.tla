--------------------------- MODULE WorkLaneProofs ---------------------------
(***************************************************************************)
(* Theorems about one work lane, for every number of attempts, sessions,   *)
(* broker generations, crashes and reads; about its checks; and about the  *)
(* start of lanes, for every number of lanes, calls, seats, failing        *)
(* commands and crashes.                                                   *)
(***************************************************************************)
EXTENDS WorkLane, WorkChecks, LaneStart, FiniteSetTheorems, TLAPS

-----------------------------------------------------------------------------
(* The types of the rows, the observers and the three processes.           *)
Ends == {"none", "completed", "terminal_missing_receipt", "terminal_uncertain",
         "failed", "attempt_ended"}
Outs == {"pending", "available", "silent", "unavailable"}
Answers == {"error", "gone", "in_flight", "unknown", "none", "deadline", "missing", "ok", "failed"}
RowType == [st : {"none", "open", "settled"}, sess : Session \cup {0},
            phase : {"prepared", "accepted", "uncertain"}, term : Reasons \cup {"none"},
            turnEnd : BOOLEAN, out : Outs,
            reads : 0..MaxReads, end : Ends]
ObsType == [on : BOOLEAN, gen : Nat, sess : Session \cup {0}, gone : BOOLEAN, dead : BOOLEAN]
ProcType(pcs) == [pc : pcs, a : Attempt \cup {0}, said : Answers, snap : RowType]

StType == ProcType({"idle", "bind", "attach", "send", "asked"})
TkType == ProcType({"idle", "asked", "proof", "read", "facts", "settle"})
RcType == ProcType({"idle", "asked", "refusal", "live"})

Rows == att \in [Attempt -> RowType]
Observers == obs \in [Attempt -> ObsType]
Passes == st \in StType /\ tk \in TkType /\ rc \in RcType
Binding ==
  /\ job \in {"attempt_ended", "running", "awaiting_operator"}
  /\ bound \in Session \cup {0} /\ told \in [Attempt -> Nat]
  /\ lock \in {"free", "start", "settle", "retire", "force"}
Outside ==
  /\ host \in [Session -> {"none", "live", "dead"}] /\ reindex \in BOOLEAN
  /\ prompt \in [Attempt -> {"unsent", "sent", "refused", "lost", "running", "over"}]
  /\ word \in [Attempt -> {"none", "deadline", "missing", "ok", "failed"}]
  /\ busy \in [Attempt -> BOOLEAN]
  /\ up \in BOOLEAN /\ gen \in 0..MaxGen /\ crashes \in 0..MaxCrashes

Types == Rows /\ Observers /\ Passes /\ Binding /\ Outside

(* Who holds the lane's lock, and what cannot happen while it is held.     *)
LockInv ==
  /\ lock = "start" <=> st.pc # "idle"
  /\ lock = "settle" <=> tk.pc = "settle"
  /\ lock \in {"retire", "force"} \/ st.pc = "bind" => \A a \in Attempt : ~Open(a)

(* Attempts are numbered in the order they are prepared; one that was not  *)
(* prepared yet has left no trace.                                         *)
Used == {a \in Attempt : att[a].st # "none"}
FreshInv ==
  /\ \A a, b \in Attempt : a < b /\ b \in Used => a \in Used
  /\ \A a \in Attempt : a \notin Used =>
       att[a] = Row /\ prompt[a] = "unsent" /\ word[a] = "none" /\ ~busy[a]

(* The start works on the attempt it prepared, in the session it bound,    *)
(* and until the prompt is away nothing else decides that attempt's send.  *)
StartInv ==
  /\ st.pc # "idle" => st.a \in Attempt
  /\ st.pc = "bind" => st.a \notin Used /\ \A b \in Attempt : b < st.a => b \in Used
  /\ st.pc \in {"attach", "send", "asked"} => Open(st.a)
  /\ st.pc = "attach" => prompt[st.a] = "unsent"

(* What the tick and the recovery pass are about.                          *)
PassInv ==
  /\ tk.pc # "idle" => tk.a \in Used
  /\ rc.pc # "idle" => rc.a \in Used

(* The open attempt is the one the job runs, in the bound session.         *)
OpenInv ==
  /\ \A a, b \in Attempt : Open(a) /\ Open(b) => a = b
  /\ job = "running" <=> \E a \in Attempt : Open(a)
  /\ \A a \in Attempt : Open(a) => att[a].sess = bound /\ bound \in Session

(* What has been told and how it ended.                                    *)
ToldInv ==
  \A a \in Attempt :
    /\ told[a] <= 1
    /\ att[a].st # "settled" => told[a] = 0 /\ att[a].end = "none"

(* The broker's word and the durable busy refusal.                         *)
WordInv ==
  \A a \in Attempt :
    /\ word[a] # "none" => prompt[a] \in {"running", "over"}
    /\ word[a] \in {"ok", "failed"} => prompt[a] = "over"
    /\ busy[a] => prompt[a] = "refused"

(* A send recorded as rejected is past its start and was never taken.      *)
RejectedInv ==
  \A a \in Attempt : att[a].term = "send_rejected" =>
    /\ prompt[a] \in {"unsent", "refused", "lost"}
    /\ ~(st.pc \in {"attach", "send"} /\ st.a = a)

Core == Types /\ LockInv /\ FreshInv /\ StartInv /\ PassInv /\ OpenInv /\ ToldInv /\ WordInv /\ RejectedInv

(* With a router that never disowns a live host: only the bound session    *)
(* lives, and a prompt that may act is in it.                              *)
SlotInv ==
  /\ ~reindex
  /\ \A s \in Session : host[s] = "live" => s = bound
  /\ \A a \in Attempt : prompt[a] \in {"sent", "running"} => Live(att[a].sess)
  /\ lock = "force" => ~Live(bound)

(* The turn of an attempt is over, or it never starts.                     *)
Over(a) ==
  \/ prompt[a] = "over"
  \/ /\ prompt[a] \notin {"sent", "running"}
     /\ (st.pc \in {"attach", "send"} /\ st.a = a) => ~Live(att[a].sess)

Concluded(row) ==
  row.term \in {"end_turn", "host_lost"} \/ row.turnEnd \/ row.end \in {"completed", "attempt_ended"}

(* What the tick's answer, still to be used, says of the turn.             *)
TickSure ==
  tk.pc # "idle" =>
    /\ tk.said = "ok" => prompt[tk.a] = "over"
    /\ tk.said \in {"deadline", "missing"} => prompt[tk.a] \in {"running", "over"}
    /\ tk.said = "gone" => Over(tk.a)
    /\ tk.pc = "proof" => tk.said \in {"deadline", "missing"}
    /\ tk.pc \in {"facts", "settle"} => Settleable(tk.snap)

(* Whatever lets the lane continue was proved while the turn was over.     *)
EndInv ==
  /\ \A a \in Attempt : Concluded(att[a]) => Over(a)
  /\ TickSure
  /\ rc.pc # "idle" => (rc.said = "ok" => prompt[rc.a] = "over")

Quiet == SlotInv /\ EndInv

-----------------------------------------------------------------------------
(* The constants, the classifiers of an answer and of an outcome.          *)
LEMMA Consts ==
  ASSUME WorkLaneAssumption
  PROVE  /\ MaxAttempts \in Nat \ {0} /\ MaxSessions \in Nat \ {0} /\ MaxReads \in Nat \ {0}
         /\ MaxGen \in Nat /\ MaxCrashes \in Nat /\ Reindexing \in BOOLEAN
BY DEF WorkLaneAssumption

LEMMA ReasonFacts ==
  /\ \A said \in Answers : Reason(said) \in Reasons \cup {"none"} /\ Reason(said) \notin LocalReasons
  /\ \A said \in Answers : Reason(said) = "end_turn" <=> said = "ok"
  /\ \A said \in Answers : Unresolved(Reason(said)) <=> said \in {"deadline", "missing"}
BY DEF Reason, Answers, Reasons, LocalReasons, Unresolved

LEMMA EndStateFacts ==
  /\ \A reason \in Reasons : EndState(reason) \in Ends \ {"none"}
  /\ \A reason \in Reasons : EndState(reason) \in {"completed", "attempt_ended"} =>
       reason \in {"end_turn", "host_lost", "prompt_deadline_exceeded"}
BY DEF EndState, Ends, Reasons

LEMMA StatusFacts ==
  ASSUME Types, NEW a \in Attempt, NEW said \in StatusAnswers(a)
  PROVE  /\ said \in Answers
         /\ said = "ok" => prompt[a] \in {"running", "over"} /\ word[a] = "ok"
         /\ said \in {"deadline", "missing"} => word[a] = said
         /\ said = "gone" => ~Live(att[a].sess) \/ reindex
BY DEF StatusAnswers, Types, Outside, Answers, Running

(* A row with what an answer proves; the other ways a row is written.      *)
LEMMA NotedFacts ==
  ASSUME NEW row \in RowType, NEW said, NEW reason \in Reasons \cup {"none"}
  PROVE  /\ Noted(row, said, reason) \in RowType
         /\ Noted(row, said, reason).st = row.st
         /\ Noted(row, said, reason).sess = row.sess
         /\ Noted(row, said, reason).end = row.end
         /\ Noted(row, said, reason).turnEnd = row.turnEnd
         /\ Noted(row, said, reason).term = IF row.term = "none" THEN reason ELSE row.term
BY DEF Noted, RowType, ProvesAcceptance

(* One row replaces another of the same open attempt.                      *)
Rewrites(row, new) ==
  new \in RowType /\ new.st = row.st /\ new.sess = row.sess /\ new.end = row.end

LEMMA Put ==
  ASSUME NEW row \in RowType, NEW t \in Reasons \cup {"none"}, NEW o \in Outs
  PROVE  /\ Rewrites(row, [row EXCEPT !.term = t])
         /\ Rewrites(row, [row EXCEPT !.phase = "accepted"])
         /\ Rewrites(row, [row EXCEPT !.phase = "uncertain"])
         /\ Rewrites(row, [row EXCEPT !.phase = "uncertain", !.term = t])
         /\ Rewrites(row, [row EXCEPT !.turnEnd = TRUE])
         /\ Rewrites(row, [row EXCEPT !.turnEnd = TRUE, !.out = o])
         /\ Rewrites(row, [row EXCEPT !.out = o])
         /\ Rewrites(row, [row EXCEPT !.out = o, !.term = t])
<1>1. Rewrites(row, [row EXCEPT !.term = t])
  BY DEF Rewrites, RowType
<1>2. Rewrites(row, [row EXCEPT !.phase = "accepted"])
  BY DEF Rewrites, RowType
<1>3. Rewrites(row, [row EXCEPT !.phase = "uncertain"])
  BY DEF Rewrites, RowType
<1>4. Rewrites(row, [row EXCEPT !.phase = "uncertain", !.term = t])
  BY DEF Rewrites, RowType
<1>5. Rewrites(row, [row EXCEPT !.turnEnd = TRUE])
  BY DEF Rewrites, RowType
<1>6. Rewrites(row, [row EXCEPT !.turnEnd = TRUE, !.out = o])
  BY DEF Rewrites, RowType
<1>7. Rewrites(row, [row EXCEPT !.out = o])
  BY DEF Rewrites, RowType
<1>8. Rewrites(row, [row EXCEPT !.out = o, !.term = t])
  BY DEF Rewrites, RowType
<1> QED
  BY <1>1, <1>2, <1>3, <1>4, <1>5, <1>6, <1>7, <1>8

LEMMA PutRead ==
  ASSUME WorkLaneAssumption, NEW row \in RowType, row.reads < MaxReads
  PROVE  Rewrites(row, [row EXCEPT !.reads = row.reads + 1])
BY Consts DEF Rewrites, RowType

LEMMA Close ==
  ASSUME NEW row \in RowType, NEW e \in Ends
  PROVE  /\ [row EXCEPT !.st = "settled", !.end = e] \in RowType
         /\ [row EXCEPT !.st = "settled", !.end = e].st = "settled"
         /\ [row EXCEPT !.st = "settled", !.end = e].sess = row.sess
BY DEF RowType

(* The null values have their types.                                       *)
LEMMA NullTypes ==
  ASSUME WorkLaneAssumption
  PROVE  /\ Row \in RowType /\ NoObs \in ObsType
         /\ Idle \in StType /\ Idle \in TkType /\ Idle \in RcType
<1>1. Row \in RowType
  BY Consts DEF Row, RowType, Ends, Reasons, Outs
<1>2. NoObs \in ObsType
  BY DEF NoObs, ObsType
<1>3. ASSUME NEW pcs, "idle" \in pcs PROVE Idle \in ProcType(pcs)
  BY <1>1, <1>3 DEF Idle, ProcType, Answers
<1> QED
  BY <1>1, <1>2, <1>3 DEF StType, TkType, RcType

(* Attempts are numbered without a gap.                                    *)
LEMMA Gapless ==
  ASSUME NEW N \in Nat, NEW S \in SUBSET (1..N),
         \A a, b \in 1..N : a < b /\ b \in S => a \in S
  PROVE  IsFiniteSet(S) /\ S = 1..Cardinality(S)
<1>1. IsFiniteSet(S) /\ Cardinality(S) \in Nat
  <2>1. IsFiniteSet(1..N)
    BY FS_Interval
  <2>2. IsFiniteSet(S)
    BY <2>1, FS_Subset
  <2> QED
    BY <2>2, FS_CardinalityType
<1>2. ASSUME NEW b \in S PROVE b <= Cardinality(S)
  <2>1. 1..b \subseteq S /\ b \in Nat
    OBVIOUS
  <2>2. Cardinality(1..b) = b
    BY <2>1, FS_Interval
  <2> QED
    BY <2>1, <2>2, <1>1, FS_Subset
<1>3. S \in SUBSET (1..Cardinality(S))
  BY <1>1, <1>2
<1>4. IsFiniteSet(1..Cardinality(S)) /\ Cardinality(1..Cardinality(S)) = Cardinality(S)
  BY <1>1, FS_Interval
<1> QED
  BY <1>1, <1>3, <1>4, FS_Subset

LEMMA NextIsFresh ==
  ASSUME WorkLaneAssumption, FreshInv, NextAttempt \in Attempt
  PROVE  NextAttempt \notin Used /\ \A b \in Attempt : b < NextAttempt => b \in Used
<1>1. Used = 1..Cardinality(Used) /\ IsFiniteSet(Used)
  BY Consts, Gapless DEF FreshInv, Attempt, Used
<1>2. NextAttempt = 1 + Cardinality(Used) /\ Cardinality(Used) \in Nat
  BY <1>1, FS_CardinalityType DEF NextAttempt, Used
<1> QED
  BY <1>1, <1>2, Consts DEF Attempt

-----------------------------------------------------------------------------
(* Which steps touch what.                                                 *)
LEMMA RowFrame ==
  ASSUME Next
  PROVE  \/ UNCHANGED <<att, job, told>>
         \/ Prepare \/ SettleCommits \/ ForceSettles
         \/ /\ UNCHANGED <<job, told>>
            /\ \/ FenceOrSend \/ SendResolved \/ TickApplies \/ DeadProof
               \/ RecoverApplies \/ RecoverRefusal
               \/ \E said \in {"accepted", "rejected", "error"} : SendReturns(said)
               \/ \E idle \in BOOLEAN : IdleProof(idle)
               \/ \E a \in Attempt : FrameEnds(a) \/ ReadClaims(a)
               \/ \E found \in {"available", "silent", "unavailable", "absent"} : ReadReturns(found)
               \/ \E live \in {"live", "dead", "disowned", "unknown"} : RecoverDecides(live)
<1> USE DEF durable, world, proc
<1>1. CASE Start
  BY <1>1 DEF Start, StartAdmit, BindFails, FenceOrSend, BusyRefused, Rearm, Refuses, SendReturns, SendResolved
<1>2. CASE Tick
  BY <1>2 DEF Tick, TickAsks, TickApplies, IdleProof, DeadProof, ReadClaims, SettleBegins, FrameEnds,
              ReadReturns, SettleEnters
<1>3. CASE Recover
  BY <1>3 DEF Recover, RecoverAsks, RecoverApplies, RecoverRefusal, RecoverDecides
<1>4. CASE Retire
  BY <1>4 DEF Retire, RetireEnters, ForceCloses, RetireCloses
<1>5. CASE World
  BY <1>5 DEF World, HostTakes, RequestEnds, TurnEnds, HostDies, NewGeneration, Reindexed, Crash, Restart
<1> QED
  BY <1>1, <1>2, <1>3, <1>4, <1>5 DEF Next

-----------------------------------------------------------------------------
(* What a step does to the rows: an open attempt's row is rewritten, the   *)
(* open attempt is settled and its outcome told, or one is prepared.       *)
Written == Rows' /\ \A b \in Attempt : att'[b] = att[b] \/ (Open(b) /\ Rewrites(att[b], att'[b]))

Closes(a) ==
  /\ Rows' /\ Open(a) /\ \A b \in Attempt \ {a} : att'[b] = att[b]
  /\ att'[a].st = "settled" /\ att'[a].sess = att[a].sess
  /\ att'[a].end \in Ends
  /\ told' \in [Attempt -> Nat] /\ \A b \in Attempt \ {a} : told'[b] = told[b]
  /\ told'[a] <= told[a] + 1
  /\ job' \in {"attempt_ended", "awaiting_operator"}
  /\ lock \in {"free", "settle"} /\ bound' = bound

LEMMA CasWrites ==
  ASSUME Rows, NEW a \in Attempt, NEW snap, NEW new, Cas(a, snap, new),
         att[a] = snap => Rewrites(snap, new)
  PROVE  Written
BY DEF Rows, Cas, Written, Rewrites

LEMMA PutWrites ==
  ASSUME Rows, NEW a \in Attempt, NEW new, Open(a), att' = [att EXCEPT ![a] = new], Rewrites(att[a], new)
  PROVE  Written
BY DEF Rows, Written, Rewrites

LEMMA SettledCloses ==
  ASSUME Types, NEW a \in Attempt, Open(a), NEW row \in RowType, row.sess = att[a].sess, NEW e \in Ends,
         Settled(a, row, e), lock \in {"free", "settle"}, bound' = bound
  PROVE  Closes(a)
<1>1. Rows' /\ \A b \in Attempt \ {a} : att'[b] = att[b]
  BY Close DEF Types, Rows, Settled
<1>2. att'[a].st = "settled" /\ att'[a].sess = att[a].sess /\ att'[a].end \in Ends
  <2>1. PICK n : n = [row EXCEPT !.st = "settled", !.end = e]
    OBVIOUS
  <2>2. n.st = "settled" /\ n.sess = row.sess /\ n.end = e
    BY <2>1 DEF RowType
  <2>3. att'[a] = n
    BY <2>1 DEF Types, Rows, Settled
  <2> QED
    BY <2>2, <2>3
<1>3. told' \in [Attempt -> Nat] /\ (\A b \in Attempt \ {a} : told'[b] = told[b]) /\ told'[a] <= told[a] + 1
  BY DEF Types, Binding, Settled
<1>4. job' \in {"attempt_ended", "awaiting_operator"}
  BY DEF Settled
<1> QED
  BY <1>1, <1>2, <1>3, <1>4 DEF Closes

LEMMA WriteSteps ==
  ASSUME WorkLaneAssumption, Types, StartInv, PassInv,
         \/ FenceOrSend \/ SendResolved \/ TickApplies \/ DeadProof
         \/ RecoverApplies \/ RecoverRefusal
         \/ \E said \in {"accepted", "rejected", "error"} : SendReturns(said)
         \/ \E idle \in BOOLEAN : IdleProof(idle)
         \/ \E a \in Attempt : FrameEnds(a) \/ ReadClaims(a)
         \/ \E found \in {"available", "silent", "unavailable", "absent"} : ReadReturns(found)
         \/ \E live \in {"live", "dead", "disowned", "unknown"} : RecoverDecides(live)
  PROVE  Written
<1> DEFINE A == st.a
           T == tk.a
           R == rc.a
<1>0. Rows /\ \A a \in Attempt : att[a] \in RowType
  BY DEF Types, Rows
<1>a. st.pc \in {"attach", "send", "asked"} => A \in Attempt /\ Open(A)
  BY DEF StartInv
<1>t. tk.pc # "idle" => T \in Attempt
  BY DEF PassInv, Used
<1>r. rc.pc # "idle" => R \in Attempt
  BY DEF PassInv, Used
<1>s. att' = att => Written
  BY <1>0 DEF Written, Rows
<1>n. "none" \in Reasons \cup {"none"} /\ "send_rejected" \in Reasons /\ "session_dead" \in Reasons
      /\ "host_lost" \in Reasons /\ "unavailable" \in Outs
  BY DEF Reasons, Outs
<1>1. CASE FenceOrSend
  BY <1>1, <1>0, <1>a, <1>s, <1>n, Put, PutWrites DEF FenceOrSend
<1>m. ASSUME NEW row \in RowType, NEW said, NEW reason \in Reasons \cup {"none"}
      PROVE  Rewrites(row, Noted(row, said, reason))
  BY NotedFacts DEF Rewrites
<1>2. CASE SendResolved
  <2>1. ASSUME WriteCurrent(A) PROVE Cas(A, st.snap, [st.snap EXCEPT !.phase = "accepted"])
                                     \/ Cas(A, st.snap, [st.snap EXCEPT !.phase = "uncertain"])
    BY <1>2, <2>1 DEF SendResolved
  <2>2. ~WriteCurrent(A) => att' = att
    BY <1>2 DEF SendResolved
  <2>3. att[A] = st.snap => /\ Rewrites(st.snap, [st.snap EXCEPT !.phase = "accepted"])
                            /\ Rewrites(st.snap, [st.snap EXCEPT !.phase = "uncertain"])
    BY <1>0, <1>2, <1>a, <1>n, Put DEF SendResolved
  <2> QED
    BY <2>1, <2>2, <2>3, <1>0, <1>2, <1>a, <1>s, CasWrites DEF SendResolved
<1>3. CASE TickApplies
  <2>1. T \in Attempt /\ tk.said \in Answers
    BY <1>3, <1>t DEF TickApplies, Types, Passes, TkType, ProcType
  <2>2. \/ att' = att
        \/ Cas(T, tk.snap, Noted(tk.snap, tk.said, "host_lost"))
        \/ Cas(T, tk.snap, Noted(tk.snap, tk.said, Reason(tk.said)))
    BY <1>3 DEF TickApplies
  <2>3. att[T] = tk.snap => /\ Rewrites(tk.snap, Noted(tk.snap, tk.said, "host_lost"))
                            /\ Rewrites(tk.snap, Noted(tk.snap, tk.said, Reason(tk.said)))
    BY <2>1, <1>0, <1>n, <1>m, ReasonFacts
  <2> QED
    BY <2>1, <2>2, <2>3, <1>0, <1>s, CasWrites
<1>4. CASE DeadProof
  <2> DEFINE noted == Noted(tk.snap, tk.said, Reason(tk.said))
  <2>1. T \in Attempt /\ tk.said \in Answers
    BY <1>4, <1>t DEF DeadProof, Types, Passes, TkType, ProcType
  <2>2. \/ att' = att
        \/ Cas(T, tk.snap, [noted EXCEPT !.turnEnd = TRUE, !.out = "unavailable"])
        \/ Cas(T, tk.snap, [noted EXCEPT !.turnEnd = TRUE, !.out = noted.out])
        \/ Cas(T, tk.snap, Noted(tk.snap, tk.said, "session_dead"))
    BY <1>4 DEF DeadProof
  <2>3. ASSUME att[T] = tk.snap
        PROVE  /\ Rewrites(tk.snap, [noted EXCEPT !.turnEnd = TRUE, !.out = "unavailable"])
               /\ Rewrites(tk.snap, [noted EXCEPT !.turnEnd = TRUE, !.out = noted.out])
               /\ Rewrites(tk.snap, Noted(tk.snap, tk.said, "session_dead"))
    <3>1. tk.snap \in RowType /\ noted \in RowType /\ Rewrites(tk.snap, noted) /\ noted.out \in Outs
      BY <2>1, <2>3, <1>0, <1>m, ReasonFacts DEF Rewrites, RowType
    <3>2. /\ Rewrites(noted, [noted EXCEPT !.turnEnd = TRUE, !.out = "unavailable"])
          /\ Rewrites(noted, [noted EXCEPT !.turnEnd = TRUE, !.out = noted.out])
      BY <3>1, <1>n, Put
    <3>3. Rewrites(tk.snap, Noted(tk.snap, tk.said, "session_dead"))
      BY <3>1, <1>n, <1>m
    <3> QED
      BY <3>1, <3>2, <3>3 DEF Rewrites
  <2> QED
    BY <2>1, <2>2, <2>3, <1>0, <1>s, CasWrites
<1>5. CASE RecoverApplies
  <2>1. R \in Attempt /\ rc.said \in Answers
    BY <1>5, <1>r DEF RecoverApplies, Types, Passes, RcType, ProcType
  <2>2. att' = att \/ Cas(R, rc.snap, Noted(rc.snap, rc.said, Reason(rc.said)))
    BY <1>5 DEF RecoverApplies
  <2>3. att[R] = rc.snap => Rewrites(rc.snap, Noted(rc.snap, rc.said, Reason(rc.said)))
    BY <2>1, <1>0, <1>m, ReasonFacts
  <2> QED
    BY <2>1, <2>2, <2>3, <1>0, <1>s, CasWrites
<1>6. ASSUME RecoverRefusal PROVE Written
  <2>1. CASE att' = att
    BY <2>1, <1>s
  <2>2. CASE att' # att
    <3>1. rc.a \in Attempt /\ Open(rc.a) /\ att' = [att EXCEPT ![rc.a] = [att[rc.a] EXCEPT !.term = "send_rejected"]]
      BY <1>6, <1>r, <2>2 DEF RecoverRefusal
    <3>2. Rewrites(att[rc.a], [att[rc.a] EXCEPT !.term = "send_rejected"])
      BY <3>1, <1>0, <1>n, Put
    <3> QED
      BY <3>1, <3>2, <1>0, PutWrites DEF Types
  <2> QED
    BY <2>1, <2>2
<1>7. ASSUME NEW said \in {"accepted", "rejected", "error"}, SendReturns(said) PROVE Written
  <2>1. A \in Attempt /\ Open(A)
    BY <1>7, <1>a DEF SendReturns
  <2>2. \/ att' = att
        \/ att' = [att EXCEPT ![A] = [att[A] EXCEPT !.phase = "accepted"]]
        \/ att' = [att EXCEPT ![A] = [att[A] EXCEPT !.phase = "uncertain", !.term = "send_rejected"]]
        \/ att' = [att EXCEPT ![A] = [att[A] EXCEPT !.phase = "uncertain", !.term = att[A].term]]
    BY <1>7, <2>1 DEF SendReturns
  <2>3. att[A].term \in Reasons \cup {"none"}
    BY <1>0, <2>1 DEF RowType
  <2>4. /\ Rewrites(att[A], [att[A] EXCEPT !.phase = "accepted"])
        /\ Rewrites(att[A], [att[A] EXCEPT !.phase = "uncertain", !.term = "send_rejected"])
        /\ Rewrites(att[A], [att[A] EXCEPT !.phase = "uncertain", !.term = att[A].term])
    BY <2>1, <2>3, <1>0, <1>n, Put
  <2> QED
    BY <2>1, <2>2, <2>4, <1>s, PutWrites DEF Types
<1>8. ASSUME NEW idle \in BOOLEAN, IdleProof(idle) PROVE Written
  <2> DEFINE noted == Noted(tk.snap, tk.said, Reason(tk.said))
  <2>1. T \in Attempt /\ tk.said \in Answers
    BY <1>8, <1>t DEF IdleProof, Types, Passes, TkType, ProcType
  <2>2. att' = att \/ Cas(T, tk.snap, [noted EXCEPT !.turnEnd = TRUE])
    BY <1>8 DEF IdleProof
  <2>3. ASSUME att[T] = tk.snap PROVE Rewrites(tk.snap, [noted EXCEPT !.turnEnd = TRUE])
    <3>1. noted \in RowType /\ Rewrites(tk.snap, noted)
      BY <2>1, <2>3, <1>0, <1>m, ReasonFacts DEF Rewrites
    <3> QED
      BY <3>1, <1>n, Put DEF Rewrites
  <2> QED
    BY <2>1, <2>2, <2>3, <1>0, <1>s, CasWrites
<1>9. ASSUME NEW a \in Attempt, FrameEnds(a) PROVE Written
  <2>1. Open(a) /\ att' = [att EXCEPT ![a] = [att[a] EXCEPT !.turnEnd = TRUE]]
    BY <1>9 DEF FrameEnds
  <2> QED
    BY <2>1, <1>0, <1>n, Put, PutWrites
<1>10. ASSUME NEW a \in Attempt, ReadClaims(a) PROVE Written
  <2>1. /\ Open(a)
        /\ \/ att' = [att EXCEPT ![a] = [att[a] EXCEPT !.out = "unavailable"]]
           \/ /\ ~(att[a].reads >= MaxReads)
              /\ att' = [att EXCEPT ![a] = [att[a] EXCEPT !.reads = att[a].reads + 1]]
    BY <1>10 DEF ReadClaims, Ticks
  <2>2. att[a].reads \in 0..MaxReads
    BY <1>0 DEF RowType
  <2>3. CASE att' = [att EXCEPT ![a] = [att[a] EXCEPT !.out = "unavailable"]]
    BY <2>1, <2>3, <1>0, <1>n, Put, PutWrites
  <2>4. CASE ~(att[a].reads >= MaxReads) /\ att' = [att EXCEPT ![a] = [att[a] EXCEPT !.reads = att[a].reads + 1]]
    <3>1. att[a].reads < MaxReads
      BY <2>2, <2>4, Consts
    <3> QED
      BY <3>1, <2>1, <2>4, <1>0, PutWrites, PutRead
  <2> QED
    BY <2>1, <2>3, <2>4
<1>11. ASSUME NEW found \in {"available", "silent", "unavailable", "absent"}, ReadReturns(found) PROVE Written
  <2>1. T \in Attempt
    BY <1>11, <1>t DEF ReadReturns
  <2>2. \/ att' = att
        \/ /\ found \in {"available", "silent"}
           /\ \/ Cas(T, tk.snap, [tk.snap EXCEPT !.out = found, !.term = "end_turn"])
              \/ Cas(T, tk.snap, [tk.snap EXCEPT !.out = found, !.term = tk.snap.term])
        \/ Cas(T, tk.snap, [tk.snap EXCEPT !.out = "unavailable"])
    BY <1>11 DEF ReadReturns
  <2>3. att[T] = tk.snap => tk.snap \in RowType /\ tk.snap.term \in Reasons \cup {"none"}
    BY <2>1, <1>0 DEF RowType
  <2>4. "end_turn" \in Reasons \cup {"none"} /\ {"available", "silent", "unavailable"} \subseteq Outs
    BY DEF Reasons, Outs
  <2> QED
    BY <2>1, <2>2, <2>3, <2>4, <1>0, <1>s, Put, CasWrites
<1>12. ASSUME NEW live \in {"live", "dead", "disowned", "unknown"}, RecoverDecides(live) PROVE Written
  <2>1. R \in Attempt
    BY <1>12, <1>r DEF RecoverDecides
  <2>2. \/ att' = att
        \/ \E reason \in {"host_lost", "session_disowned", "session_dead", "recovery_indeterminate"} :
             Cas(R, rc.snap, Noted(rc.snap, "none", reason))
    BY <1>12 DEF RecoverDecides
  <2>3. {"host_lost", "session_disowned", "session_dead", "recovery_indeterminate"} \subseteq Reasons
    BY DEF Reasons
  <2> QED
    BY <2>1, <2>2, <2>3, <1>0, <1>s, <1>m, CasWrites
<1> QED
  BY <1>1, <1>2, <1>3, <1>4, <1>5, <1>6, <1>7, <1>8, <1>9, <1>10, <1>11, <1>12

LEMMA CloseSteps ==
  ASSUME WorkLaneAssumption, Types, LockInv, PassInv, SettleCommits \/ ForceSettles
  PROVE  \/ /\ Written /\ UNCHANGED <<job, told>>
            /\ ForceSettles => \A a \in Attempt : ~Open(a)
         \/ \E a \in Attempt : Closes(a)
<1>0. \A a \in Attempt : att[a] \in RowType
  BY DEF Types, Rows
<1>s. att' = att => Written
  BY DEF Types, Written, Rows
<1>1. CASE SettleCommits
  <2>1. tk.a \in Attempt /\ bound' = bound /\ lock \in {"free", "settle"}
    BY <1>1 DEF SettleCommits, PassInv, Used, LockInv
  <2>2. CASE ~Unsettled(tk.a, tk.snap)
    BY <1>1, <2>2, <1>s DEF SettleCommits, ForceSettles, LockInv
  <2>3. CASE Unsettled(tk.a, tk.snap)
    <3>1. Open(tk.a) /\ Settled(tk.a, att[tk.a], EndState(att[tk.a].term))
      BY <1>1, <2>3 DEF SettleCommits, Unsettled
    <3>2. att[tk.a].term # "none" => EndState(att[tk.a].term) \in Ends
      BY <2>1, <1>0, EndStateFacts DEF RowType
    <3>3. EndState(att[tk.a].term) \in Ends
      BY DEF EndState, Ends
    <3> QED
      BY <2>1, <3>1, <3>3, <1>0, SettledCloses
  <2> QED
    BY <2>2, <2>3
<1>2. CASE ForceSettles
  <2>1. bound' = bound /\ lock \in {"free", "settle"}
    BY <1>2 DEF ForceSettles
  <2>2. CASE UNCHANGED <<job, att, told>> /\ \A a \in Attempt : ~Open(a)
    BY <2>2, <1>s
  <2>3. ASSUME NEW a \in Attempt, Open(a), NEW t \in {att[a].term, "session_dead"}, NEW o \in {att[a].out, "unavailable"},
               NEW e \in Ends, Settled(a, [att[a] EXCEPT !.term = t, !.out = o], e)
        PROVE  Closes(a)
    <3>1. att[a] \in RowType /\ t \in Reasons \cup {"none"} /\ o \in Outs
      BY <2>3, <1>0 DEF RowType, Reasons, Outs
    <3>2. [att[a] EXCEPT !.term = t, !.out = o] \in RowType /\ [att[a] EXCEPT !.term = t, !.out = o].sess = att[a].sess
      BY <3>1 DEF RowType
    <3> QED
      BY <3>2, <2>1, <2>3, SettledCloses
  <2>4. \A a \in Attempt : EndState(att[a].term) \in Ends /\ "attempt_ended" \in Ends
    BY DEF EndState, Ends
  <2>5. \/ UNCHANGED <<job, att, told>> /\ \A a \in Attempt : ~Open(a)
        \/ \E a \in Attempt : \E t \in {att[a].term, "session_dead"}, o \in {att[a].out, "unavailable"}, e \in Ends :
             Open(a) /\ Settled(a, [att[a] EXCEPT !.term = t, !.out = o], e)
    BY <1>2, <2>4 DEF ForceSettles
  <2> QED
    BY <2>2, <2>3, <2>5
<1> QED
  BY <1>1, <1>2

Prepares ==
  LET a == st.a IN
  /\ Prepare /\ Rows' /\ st.pc = "bind" /\ a \in Attempt /\ told' = told
  /\ \A b \in Attempt \ {a} : att'[b] = att[b]
  /\ att'[a].st = "open" /\ att'[a].sess = bound' /\ bound' \in Session
  /\ att'[a].end = "none" /\ att'[a].term = "none" /\ ~att'[a].turnEnd

LEMMA PrepareStep ==
  ASSUME WorkLaneAssumption, Types, StartInv, Prepare PROVE Prepares
<1> DEFINE s == IF bound # 0 THEN bound ELSE 1 + Cardinality({x \in Session : host[x] # "none"})
           new == [Row EXCEPT !.st = "open", !.sess = s]
<1>1. st.a \in Attempt /\ st.pc = "bind" /\ s \in Session /\ bound' = s /\ told' = told /\ att' = [att EXCEPT ![st.a] = new]
  BY DEF StartInv, Prepare
<1>2. Row \in RowType
  BY NullTypes
<1>3. \A x \in Session : [Row EXCEPT !.st = "open", !.sess = x] \in RowType
  BY <1>2 DEF RowType
<1>4. \A x \in Session : [Row EXCEPT !.st = "open", !.sess = x].st = "open" /\ [Row EXCEPT !.st = "open", !.sess = x].sess = x
  BY <1>2 DEF RowType
<1>5. \A x \in Session : /\ [Row EXCEPT !.st = "open", !.sess = x].end = "none" /\ [Row EXCEPT !.st = "open", !.sess = x].term = "none"
                         /\ ~[Row EXCEPT !.st = "open", !.sess = x].turnEnd
  BY DEF Row
<1> HIDE DEF s
<1>6. Rows' /\ \A b \in Attempt \ {st.a} : att'[b] = att[b]
  BY <1>1, <1>3 DEF Types, Rows
<1>7. att'[st.a] = new
  BY <1>1 DEF Types, Rows
<1>8. /\ att'[st.a].st = "open" /\ att'[st.a].sess = s
      /\ att'[st.a].end = "none" /\ att'[st.a].term = "none" /\ ~att'[st.a].turnEnd
  BY <1>1, <1>4, <1>5, <1>7
<1> HIDE DEF new
<1> QED
  BY <1>1, <1>6, <1>8 DEF Prepares

(* Every step rewrites, closes or prepares.                                *)
LEMMA RowStep ==
  ASSUME WorkLaneAssumption, Types, LockInv, StartInv, PassInv, [Next]_vars
  PROVE  \/ Written /\ UNCHANGED <<job, told>>
         \/ \E a \in Attempt : Closes(a)
         \/ Prepares
<1>1. att' = att => Written
  BY DEF Types, Written, Rows
<1>2. CASE UNCHANGED vars
  BY <1>1, <1>2 DEF vars, durable
<1>3. CASE Next
  BY <1>1, <1>3, RowFrame, WriteSteps, CloseSteps, PrepareStep
<1> QED
  BY <1>2, <1>3

-----------------------------------------------------------------------------
(* Every step keeps the types.                                             *)
LEMMA ObserversStep ==
  ASSUME WorkLaneAssumption, Types, StartInv, PassInv, Next PROVE Observers'
<1> USE DEF durable, world, proc, Observers
<1>0. obs \in [Attempt -> ObsType] /\ gen \in Nat /\ bound \in Session \cup {0} /\ NoObs \in ObsType
  BY NullTypes, Consts DEF Types, Observers, Outside, Binding
<1>1. ASSUME NEW o \in ObsType, NEW b \in BOOLEAN
      PROVE  [o EXCEPT !.gone = b] \in ObsType /\ [o EXCEPT !.dead = b] \in ObsType
             /\ [o EXCEPT !.gone = b, !.dead = FALSE] \in ObsType
  BY DEF ObsType
<1>2. ASSUME NEW s \in Session \cup {0} PROVE [NoObs EXCEPT !.on = TRUE, !.gen = gen, !.sess = s] \in ObsType
  BY <1>0 DEF ObsType, NoObs
<1>3. CASE Prepare
  BY <1>3, <1>0, <1>2 DEF Prepare
<1>4. CASE TickApplies
  <2>1. tk.a \in Attempt /\ obs[tk.a] \in ObsType
    BY <1>4, <1>0 DEF TickApplies, PassInv, Used
  <2>2. \/ obs' = obs
        \/ \E b \in BOOLEAN : obs' = [obs EXCEPT ![tk.a] = [obs[tk.a] EXCEPT !.gone = b, !.dead = FALSE]]
        \/ obs' = [obs EXCEPT ![tk.a] = [obs[tk.a] EXCEPT !.gone = FALSE]]
    BY <1>4, <1>0, <2>1 DEF TickApplies
  <2> QED
    BY <2>1, <2>2, <1>0, <1>1
<1>5. ASSUME NEW idle \in BOOLEAN, IdleProof(idle) PROVE Observers'
  BY <1>5, <1>0, <1>1 DEF IdleProof, PassInv, Used
<1>6. CASE DeadProof
  <2>1. tk.a \in Attempt /\ obs[tk.a] \in ObsType
    BY <1>6, <1>0 DEF DeadProof, PassInv, Used
  <2>2. obs' = obs \/ obs' = [obs EXCEPT ![tk.a] = [obs[tk.a] EXCEPT !.dead = TRUE]]
    BY <1>6 DEF DeadProof
  <2> QED
    BY <2>1, <2>2, <1>0, <1>1
<1>7. CASE SettleCommits
  BY <1>7, <1>0 DEF SettleCommits
<1>8. ASSUME NEW a \in Attempt, RecoverAsks(a) PROVE Observers'
  BY <1>8, <1>0, <1>2 DEF RecoverAsks
<1>9. CASE Crash
  BY <1>9, <1>0 DEF Crash
<1>10. CASE UNCHANGED obs
  BY <1>10, <1>0
<1>11. Start => Prepare \/ UNCHANGED obs
  BY DEF Start, StartAdmit, BindFails, FenceOrSend, BusyRefused, Rearm, Refuses, SendReturns, SendResolved
<1>12. Tick => TickApplies \/ (\E idle \in BOOLEAN : IdleProof(idle)) \/ DeadProof \/ SettleCommits \/ UNCHANGED obs
  BY DEF Tick, TickAsks, ReadClaims, SettleBegins, FrameEnds, ReadReturns, SettleEnters
<1>13. Recover => (\E a \in Attempt : RecoverAsks(a)) \/ UNCHANGED obs
  BY DEF Recover, RecoverApplies, RecoverRefusal, RecoverDecides
<1>14. Retire => UNCHANGED obs
  BY DEF Retire, RetireEnters, ForceSettles, ForceCloses, RetireCloses
<1>15. World => Crash \/ UNCHANGED obs
  BY DEF World, HostTakes, RequestEnds, TurnEnds, HostDies, NewGeneration, Reindexed, Restart
<1> QED
  BY <1>3, <1>4, <1>5, <1>6, <1>7, <1>8, <1>9, <1>10, <1>11, <1>12, <1>13, <1>14, <1>15 DEF Next

(* Which steps touch the three processes.                                  *)
LEMMA PassFrame ==
  ASSUME Next
  PROVE  /\ Start \/ Crash \/ UNCHANGED st
         /\ Tick \/ Crash \/ UNCHANGED tk
         /\ Recover \/ Crash \/ UNCHANGED rc
<1> USE DEF durable, world, proc
<1>1. Start => UNCHANGED <<tk, rc>>
  BY DEF Start, StartAdmit, BindFails, Prepare, FenceOrSend, BusyRefused, Rearm, Refuses, SendReturns, SendResolved
<1>2. Tick => UNCHANGED <<st, rc>>
  BY DEF Tick, TickAsks, TickApplies, IdleProof, DeadProof, ReadClaims, SettleBegins, FrameEnds,
         ReadReturns, SettleEnters, SettleCommits
<1>3. Recover => UNCHANGED <<st, tk>>
  BY DEF Recover, RecoverAsks, RecoverApplies, RecoverRefusal, RecoverDecides
<1>4. Retire => UNCHANGED <<st, tk, rc>>
  BY DEF Retire, RetireEnters, ForceSettles, ForceCloses, RetireCloses
<1>5. World => Crash \/ UNCHANGED <<st, tk, rc>>
  BY DEF World, HostTakes, RequestEnds, TurnEnds, HostDies, NewGeneration, Reindexed, Restart
<1> QED
  BY <1>1, <1>2, <1>3, <1>4, <1>5 DEF Next

LEMMA PassesStep ==
  ASSUME WorkLaneAssumption, Types, LockInv, StartInv, PassInv, FreshInv, Next, Rows' PROVE Passes'
<1> USE DEF durable, world, proc
<1>0. /\ st \in StType /\ tk \in TkType /\ rc \in RcType
      /\ Idle \in StType /\ Idle \in TkType /\ Idle \in RcType
      /\ \A a \in Attempt : att[a] \in RowType /\ att'[a] \in RowType
  BY NullTypes DEF Types, Passes, Rows
<1>1. Crash => Passes'
  BY <1>0 DEF Crash, Passes
<1>2. ASSUME NEW p, NEW pcs, p \in ProcType(pcs), NEW pc \in pcs PROVE [p EXCEPT !.pc = pc] \in ProcType(pcs)
  BY <1>2 DEF ProcType
<1>3. ASSUME NEW pcs, NEW pc \in pcs, NEW a \in Attempt, NEW said \in Answers, NEW row \in RowType
      PROVE  [pc |-> pc, a |-> a, said |-> said, snap |-> row] \in ProcType(pcs)
  BY DEF ProcType
<1>4. "none" \in Answers
  BY DEF Answers
<1>5. Start => st' \in StType
  <2>1. ASSUME NEW r \in BOOLEAN, StartAdmit(r) PROVE st' \in StType
    <3>1. st' = [pc |-> "bind", a |-> NextAttempt, said |-> "none", snap |-> Row] /\ NextAttempt \in Attempt
      BY <2>1 DEF StartAdmit, Idle
    <3> QED
      BY <3>1, <1>3, <1>4, NullTypes DEF StType
  <2>2. BindFails \/ FenceOrSend \/ SendResolved => st' \in StType
    BY <1>0, <1>2 DEF BindFails, FenceOrSend, SendResolved, StType
  <2>3. Prepare => st' \in StType
    <3>1. [st EXCEPT !.pc = "attach"] \in StType
      BY <1>0, <1>2 DEF StType
    <3> QED
      BY <3>1 DEF Prepare
  <2>4. BusyRefused \/ Rearm \/ Refuses => st' = st
    BY DEF BusyRefused, Rearm, Refuses
  <2>5. ASSUME NEW said \in {"accepted", "rejected", "error"}, SendReturns(said) PROVE st' \in StType
    <3>1. st.a \in Attempt /\ att[st.a] \in RowType
      BY <2>5, <1>0 DEF SendReturns, StartInv
    <3>2. st' = Idle \/ \E w \in StatusAnswers(st.a) : st' = [pc |-> "asked", a |-> st.a, said |-> w, snap |-> att[st.a]]
      BY <2>5 DEF SendReturns
    <3> QED
      BY <3>1, <3>2, <1>0, <1>3, StatusFacts DEF StType
  <2> QED
    BY <2>1, <2>2, <2>3, <2>4, <2>5, <1>0 DEF Start
<1>6. Tick => tk' \in TkType
  <2>1. ASSUME NEW a \in Attempt, NEW said \in StatusAnswers(a), TickAsks(a, said) PROVE tk' \in TkType
    <3>1. said \in Answers /\ tk' = [pc |-> "asked", a |-> a, said |-> said, snap |-> att[a]]
      BY <2>1, StatusFacts DEF TickAsks
    <3> QED
      BY <3>1, <1>0, <1>3 DEF TkType
  <2>2. TickApplies => tk' = Idle \/ tk' = [tk EXCEPT !.pc = "proof"]
    BY DEF TickApplies, TickStops
  <2>3. SettleEnters => tk' = Idle \/ tk' = [tk EXCEPT !.pc = "settle"]
    BY DEF SettleEnters, TickStops
  <2>4. DeadProof \/ SettleCommits \/ (\E idle \in BOOLEAN : IdleProof(idle))
        \/ (\E found \in {"available", "silent", "unavailable", "absent"} : ReadReturns(found)) => tk' = Idle
    BY DEF DeadProof, SettleCommits, IdleProof, ReadReturns, TickStops
  <2>5. ASSUME NEW a \in Attempt, ReadClaims(a) PROVE tk' \in TkType
    <3>1. tk' = Idle \/ tk' = [pc |-> "read", a |-> a, said |-> "none", snap |-> att'[a]]
      BY <2>5 DEF ReadClaims, TickStops
    <3> QED
      BY <3>1, <1>0, <1>3, <1>4 DEF TkType
  <2>6. ASSUME NEW a \in Attempt, SettleBegins(a) PROVE tk' \in TkType
    <3>1. tk' = [pc |-> "facts", a |-> a, said |-> "none", snap |-> att[a]]
      BY <2>6 DEF SettleBegins
    <3> QED
      BY <3>1, <1>0, <1>3, <1>4 DEF TkType
  <2>7. ASSUME NEW a \in Attempt, FrameEnds(a) PROVE tk' = tk
    BY <2>7 DEF FrameEnds
  <2>8. [tk EXCEPT !.pc = "proof"] \in TkType /\ [tk EXCEPT !.pc = "settle"] \in TkType
    BY <1>0, <1>2 DEF TkType
  <2> QED
    BY <2>1, <2>2, <2>3, <2>4, <2>5, <2>6, <2>7, <2>8, <1>0 DEF Tick
<1>7. Recover => rc' \in RcType
  <2>1. ASSUME NEW a \in Attempt, RecoverAsks(a) PROVE rc' \in RcType
    <3>1. rc' = Idle \/ \E said \in StatusAnswers(a) : rc' = [pc |-> "asked", a |-> a, said |-> said, snap |-> att[a]]
      BY <2>1 DEF RecoverAsks
    <3> QED
      BY <3>1, <1>0, <1>3, StatusFacts DEF RcType
  <2>2. [rc EXCEPT !.pc = "refusal"] \in RcType /\ [rc EXCEPT !.pc = "live"] \in RcType
    BY <1>0, <1>2 DEF RcType
  <2>3. RecoverApplies \/ RecoverRefusal => rc' \in {Idle, [rc EXCEPT !.pc = "refusal"], [rc EXCEPT !.pc = "live"]}
    BY DEF RecoverApplies, RecoverRefusal
  <2>4. (\E live \in {"live", "dead", "disowned", "unknown"} : RecoverDecides(live)) => rc' = Idle
    BY DEF RecoverDecides
  <2> QED
    BY <2>1, <2>2, <2>3, <2>4, <1>0 DEF Recover
<1> QED
  BY <1>0, <1>1, <1>5, <1>6, <1>7, PassFrame DEF Passes

LEMMA BindingStep ==
  ASSUME WorkLaneAssumption, Types, LockInv, StartInv, PassInv, Next PROVE Binding'
<1> USE DEF durable, world, proc
<1>0. Binding /\ 0 \in Session \cup {0}
  BY DEF Types
<1>1. told' \in [Attempt -> Nat] /\ job' \in {"attempt_ended", "running", "awaiting_operator"}
  <2>1. Prepares => job' = "running" /\ told' = told
    BY DEF Prepares, Prepare
  <2> QED
    BY <2>1, <1>0, RowStep DEF Binding, Closes
<1>2. bound' \in Session \cup {0}
  <2>1. Start => bound' \in Session \/ bound' = bound
    BY DEF Start, StartAdmit, BindFails, Prepare, FenceOrSend, BusyRefused, Rearm, Refuses, SendReturns, SendResolved
  <2>2. Tick \/ Recover \/ World => bound' = bound
    BY DEF Tick, TickAsks, TickApplies, IdleProof, DeadProof, ReadClaims, SettleBegins, FrameEnds,
           ReadReturns, SettleEnters, SettleCommits, Recover, RecoverAsks, RecoverApplies, RecoverRefusal,
           RecoverDecides, World, HostTakes, RequestEnds, TurnEnds, HostDies, NewGeneration, Reindexed, Crash, Restart
  <2>3. Retire => bound' \in {0, bound}
    BY DEF Retire, RetireEnters, ForceSettles, ForceCloses, RetireCloses
  <2> QED
    BY <2>1, <2>2, <2>3, <1>0 DEF Binding, Next
<1>3. lock' \in {"free", "start", "settle", "retire", "force"}
  <2>1. Start => lock' \in {"free", "start"} \/ lock' = lock
    BY DEF Start, StartAdmit, BindFails, Prepare, FenceOrSend, BusyRefused, Rearm, Refuses, SendReturns, SendResolved
  <2>2. Tick \/ Recover => lock' \in {"free", "settle"} \/ lock' = lock
    BY DEF Tick, TickAsks, TickApplies, IdleProof, DeadProof, ReadClaims, SettleBegins, FrameEnds,
           ReadReturns, SettleEnters, SettleCommits, Recover, RecoverAsks, RecoverApplies, RecoverRefusal,
           RecoverDecides
  <2>3. Retire \/ World => lock' \in {"free", "retire", "force"} \/ lock' = lock
    BY DEF Retire, RetireEnters, ForceSettles, ForceCloses, RetireCloses,
           World, HostTakes, RequestEnds, TurnEnds, HostDies, NewGeneration, Reindexed, Crash, Restart
  <2> QED
    BY <2>1, <2>2, <2>3, <1>0 DEF Binding, Next
<1> QED
  BY <1>1, <1>2, <1>3 DEF Binding

(* The hosts and the prompts: who moves them.                              *)
LEMMA OutsideStep ==
  ASSUME WorkLaneAssumption, Types, StartInv, Next PROVE Outside'
<1>c. Crash => up' \in BOOLEAN /\ crashes' \in 0..MaxCrashes /\ UNCHANGED <<world, gen>>
  <2>1. Crash => UNCHANGED <<world, gen>> /\ up' \in BOOLEAN
    BY DEF Crash, world
  <2>2. Crash => crashes' \in 0..MaxCrashes
    BY Consts DEF Crash, Types, Outside
  <2> QED
    BY <2>1, <2>2
<1> USE DEF durable, world, proc, Outside
<1>0. Outside /\ MaxGen \in Nat /\ MaxCrashes \in Nat /\ Reindexing \in BOOLEAN
  BY Consts DEF Types
<1>1. ASSUME NEW s \in Session, Dying(s) PROVE host' \in [Session -> {"none", "live", "dead"}]
             /\ prompt' \in [Attempt -> {"unsent", "sent", "refused", "lost", "running", "over"}]
  BY <1>0, <1>1 DEF Dying
<1>2. Start => Outside'
  <2>1. st.pc \in {"attach", "send"} => st.a \in Attempt
    BY DEF StartInv
  <2>2. (\E r \in BOOLEAN : StartAdmit(r)) \/ BindFails \/ SendResolved
        \/ (\E said \in {"accepted", "rejected", "error"} : SendReturns(said)) => UNCHANGED <<world, up, gen, crashes>>
    BY DEF StartAdmit, BindFails, SendResolved, SendReturns
  <2>3. Prepare => Outside'
    BY <1>0 DEF Prepare
  <2>4. FenceOrSend => Outside'
    BY <1>0, <2>1 DEF FenceOrSend
  <2>5. BusyRefused \/ Rearm \/ Refuses => Outside'
    BY <1>0, <2>1 DEF BusyRefused, Rearm, Refuses
  <2> QED
    BY <2>2, <2>3, <2>4, <2>5, <1>0 DEF Start
<1>3. Tick \/ Recover => UNCHANGED <<world, up, gen, crashes>>
  BY DEF Tick, TickAsks, TickApplies, IdleProof, DeadProof, ReadClaims, SettleBegins, FrameEnds,
         ReadReturns, SettleEnters, SettleCommits, Recover, RecoverAsks, RecoverApplies, RecoverRefusal,
         RecoverDecides
<1>4. Retire => Outside'
  <2>1. RetireEnters \/ ForceSettles \/ ForceCloses => UNCHANGED <<world, up, gen, crashes>>
    BY DEF RetireEnters, ForceSettles, ForceCloses
  <2>2. ASSUME NEW c \in BOOLEAN, RetireCloses(c) PROVE Outside'
    <3>1. UNCHANGED <<reindex, word, busy, up, gen, crashes>>
          /\ (UNCHANGED <<host, prompt>> \/ (bound \in Session /\ Dying(bound)))
      <4>1. CASE c /\ Live(bound)
        BY <2>2, <4>1 DEF RetireCloses, Live
      <4>2. CASE ~(c /\ Live(bound))
        BY <2>2, <4>2 DEF RetireCloses
      <4> QED
        BY <4>1, <4>2
    <3> QED
      BY <3>1, <1>0, <1>1
  <2> QED
    BY <2>1, <2>2, <1>0 DEF Retire
<1>5. World => Outside'
  <2>1. ASSUME NEW a \in Attempt, HostTakes(a) PROVE Outside'
    BY <2>1, <1>0 DEF HostTakes
  <2>2. ASSUME NEW a \in Attempt, NEW w \in {"deadline", "missing"}, RequestEnds(a, w) PROVE Outside'
    BY <2>2, <1>0 DEF RequestEnds
  <2>3. ASSUME NEW a \in Attempt, NEW w \in {"ok", "failed", "missing", "deadline"}, TurnEnds(a, w) PROVE Outside'
    BY <2>3, <1>0 DEF TurnEnds
  <2>4. ASSUME NEW s \in Session, HostDies(s) PROVE Outside'
    BY <2>4, <1>0, <1>1 DEF HostDies
  <2>5. NewGeneration => Outside'
    BY <1>0 DEF NewGeneration
  <2>6. Reindexed \/ Restart => Outside'
    BY <1>0 DEF Reindexed, Restart
  <2>7. ASSUME Crash PROVE Outside'
    BY <2>7, <1>c, <1>0
  <2> QED
    BY <2>1, <2>2, <2>3, <2>4, <2>5, <2>6, <2>7 DEF World
<1> QED
  BY <1>0, <1>2, <1>3, <1>4, <1>5 DEF Next

LEMMA TypesStep ==
  ASSUME WorkLaneAssumption, Types, LockInv, FreshInv, StartInv, PassInv, [Next]_vars PROVE Types'
<1>1. CASE UNCHANGED vars
  BY <1>1 DEF vars, durable, world, proc, Types, Rows, Observers, Passes, Binding, Outside
<1>2. CASE Next
  <2>1. Rows'
    BY RowStep DEF Written, Closes, Prepares
  <2> QED
    BY <1>2, <2>1, ObserversStep, PassesStep, BindingStep, OutsideStep DEF Types
<1> QED
  BY <1>1, <1>2

-----------------------------------------------------------------------------
(* How the start, the tick and the recovery pass move, and the lock.       *)
StMoves ==
  \/ /\ lock = "free" /\ lock' = "start" /\ st.pc = "idle" /\ st'.pc = "bind" /\ st'.a = NextAttempt
     /\ NextAttempt \in Attempt /\ (\A a \in Attempt : ~Open(a)) /\ UNCHANGED <<att, prompt, bound>>
  \/ /\ Prepare /\ st.pc = "bind" /\ st'.pc = "attach" /\ st'.a = st.a /\ lock' = lock /\ UNCHANGED prompt
  \/ /\ FenceOrSend /\ st.pc = "attach" /\ st'.pc = "send" /\ st'.a = st.a /\ lock' = lock /\ UNCHANGED <<att, bound>>
  \/ st.pc \in {"bind", "attach", "send", "asked"} /\ st'.pc = "idle" /\ lock' = "free" /\ UNCHANGED <<prompt, bound>>
  \/ st.pc = "send" /\ st'.pc = "asked" /\ st'.a = st.a /\ lock' = lock /\ UNCHANGED <<att, prompt, bound>>
  \/ st.pc = "send" /\ st' = st /\ lock' = lock /\ UNCHANGED <<att, bound>>

LEMMA StartSteps ==
  ASSUME Types, Start PROVE StMoves /\ UNCHANGED <<tk, rc, reindex, word>>
<1> USE DEF durable, world, proc
<1>0. st \in StType /\ Idle.pc = "idle" /\ \A pc : [st EXCEPT !.pc = pc].pc = pc /\ [st EXCEPT !.pc = pc].a = st.a
  BY DEF Types, Passes, StType, ProcType, Idle
<1>1. ASSUME NEW r \in BOOLEAN, StartAdmit(r) PROVE StMoves
  <2>1. st'.pc = "bind" /\ st'.a = NextAttempt
    BY <1>1 DEF StartAdmit, Idle
  <2> QED
    BY <1>1, <2>1 DEF StartAdmit, StMoves
<1>2. BindFails => StMoves
  BY <1>0 DEF BindFails, StMoves
<1>3. Prepare => StMoves
  BY <1>0 DEF Prepare, StMoves
<1>4. FenceOrSend => StMoves
  <2>1. FenceOrSend => \/ st'.pc = "send" /\ st'.a = st.a /\ lock' = lock /\ UNCHANGED <<att, bound>>
                       \/ st'.pc = "idle" /\ lock' = "free" /\ UNCHANGED <<prompt, bound>>
    BY <1>0 DEF FenceOrSend
  <2>2. FenceOrSend => st.pc = "attach"
    BY DEF FenceOrSend
  <2> QED
    BY <2>1, <2>2 DEF StMoves
<1>5. BusyRefused \/ Rearm \/ Refuses => StMoves
  BY DEF BusyRefused, Rearm, Refuses, StMoves
<1>6. ASSUME NEW said \in {"accepted", "rejected", "error"}, SendReturns(said) PROVE StMoves
  <2>1. st.pc = "send" /\ UNCHANGED <<prompt, bound>>
    BY <1>6 DEF SendReturns
  <2>2. \/ st' = Idle /\ lock' = "free"
        \/ st'.pc = "asked" /\ st'.a = st.a /\ lock' = lock /\ UNCHANGED att
    BY <1>6 DEF SendReturns
  <2> QED
    BY <2>1, <2>2, <1>0 DEF StMoves
<1>7. SendResolved => StMoves
  BY <1>0 DEF SendResolved, StMoves
<1>8. UNCHANGED <<tk, rc, reindex, word>>
  BY DEF Start, StartAdmit, BindFails, Prepare, FenceOrSend, BusyRefused, Rearm, Refuses, SendReturns, SendResolved
<1> QED
  BY <1>1, <1>2, <1>3, <1>4, <1>5, <1>6, <1>7, <1>8 DEF Start

TkMoves ==
  \/ lock' = lock /\ tk.pc # "settle" /\ tk'.pc = "idle"
  \/ lock' = lock /\ tk.pc # "settle" /\ tk'.pc \in {"asked", "proof", "read", "facts"} /\ tk'.a \in Attempt /\ Open(tk'.a)
  \/ lock' = lock /\ tk.pc # "settle" /\ tk'.pc \in {"asked", "proof"} /\ tk.pc # "idle" /\ tk'.a = tk.a
  \/ lock' = lock /\ tk' = tk
  \/ tk.pc = "facts" /\ lock = "free" /\ lock' = "settle" /\ tk'.pc = "settle" /\ tk'.a = tk.a
  \/ tk.pc = "settle" /\ lock' = "free" /\ tk'.pc = "idle"

LEMMA TickSteps ==
  ASSUME Types, Tick PROVE TkMoves /\ UNCHANGED <<st, rc, prompt, word, busy, bound, host, reindex>>
<1> USE DEF durable, world, proc, TickStops
<1>0. tk \in TkType /\ Idle.pc = "idle" /\ \A pc : [tk EXCEPT !.pc = pc].pc = pc /\ [tk EXCEPT !.pc = pc].a = tk.a
  BY DEF Types, Passes, TkType, ProcType, Idle
<1>1. ASSUME NEW a \in Attempt, NEW said \in StatusAnswers(a), TickAsks(a, said) PROVE TkMoves
  <2>1. tk.pc = "idle" /\ Open(a) /\ lock' = lock /\ tk'.pc = "asked" /\ tk'.a = a
    BY <1>1 DEF TickAsks, Ticks
  <2> QED
    BY <2>1 DEF TkMoves
<1>2. TickApplies => TkMoves
  <2>1. TickApplies => tk.pc = "asked" /\ lock' = lock /\ (tk' = Idle \/ tk' = [tk EXCEPT !.pc = "proof"])
    BY DEF TickApplies
  <2> QED
    BY <2>1, <1>0 DEF TkMoves
<1>3. ASSUME NEW idle \in BOOLEAN, IdleProof(idle) PROVE TkMoves
  BY <1>3, <1>0 DEF IdleProof, TkMoves
<1>4. DeadProof => TkMoves
  BY <1>0 DEF DeadProof, TkMoves
<1>5. ASSUME NEW a \in Attempt, ReadClaims(a) PROVE TkMoves
  <2>1. /\ tk.pc = "idle" /\ Open(a) /\ lock' = lock
        /\ tk' = Idle \/ (tk'.pc = "read" /\ tk'.a = a)
    BY <1>5 DEF ReadClaims, Ticks
  <2> QED
    BY <2>1, <1>0 DEF TkMoves
<1>6. ASSUME NEW a \in Attempt, SettleBegins(a) PROVE TkMoves
  <2>1. tk.pc = "idle" /\ Open(a) /\ lock' = lock /\ tk'.pc = "facts" /\ tk'.a = a
    BY <1>6 DEF SettleBegins, Ticks
  <2> QED
    BY <2>1 DEF TkMoves
<1>7. ASSUME NEW a \in Attempt, FrameEnds(a) PROVE TkMoves
  BY <1>7 DEF FrameEnds, TkMoves
<1>8. ASSUME NEW found \in {"available", "silent", "unavailable", "absent"}, ReadReturns(found) PROVE TkMoves
  <2>1. tk.pc = "read" /\ lock' = lock /\ tk' = Idle
    BY <1>8 DEF ReadReturns
  <2> QED
    BY <2>1, <1>0 DEF TkMoves
<1>9. SettleEnters => TkMoves
  <2>1. SettleEnters => /\ tk.pc = "facts" /\ lock = "free"
                        /\ \/ lock' = "settle" /\ tk' = [tk EXCEPT !.pc = "settle"]
                           \/ lock' = lock /\ tk' = Idle
    BY DEF SettleEnters
  <2> QED
    BY <2>1, <1>0 DEF TkMoves
<1>10. SettleCommits => TkMoves
  <2>1. SettleCommits => tk.pc = "settle" /\ lock' = "free" /\ tk' = Idle
    BY DEF SettleCommits
  <2> QED
    BY <2>1, <1>0 DEF TkMoves
<1>11. UNCHANGED <<st, rc, prompt, word, busy, bound, host, reindex>>
  BY DEF Tick, TickAsks, TickApplies, IdleProof, DeadProof, ReadClaims, SettleBegins, FrameEnds,
         ReadReturns, SettleEnters, SettleCommits
<1> QED
  BY <1>1, <1>2, <1>3, <1>4, <1>5, <1>6, <1>7, <1>8, <1>9, <1>10, <1>11 DEF Tick

RcMoves ==
  \/ rc'.pc = "idle"
  \/ rc'.pc # "idle" /\ rc'.a \in Attempt /\ Open(rc'.a)
  \/ rc'.pc # "idle" /\ rc.pc # "idle" /\ rc'.a = rc.a

LEMMA RecoverSteps ==
  ASSUME Types, Recover PROVE RcMoves /\ UNCHANGED <<lock, st, tk, prompt, word, busy, bound, host, reindex>>
<1> USE DEF durable, world, proc
<1>0. rc \in RcType /\ Idle.pc = "idle" /\ \A pc : [rc EXCEPT !.pc = pc].pc = pc /\ [rc EXCEPT !.pc = pc].a = rc.a
  BY DEF Types, Passes, RcType, ProcType, Idle
<1>1. ASSUME NEW a \in Attempt, RecoverAsks(a) PROVE RcMoves
  <2>1. Open(a) /\ (rc' = Idle \/ (rc'.pc = "asked" /\ rc'.a = a))
    BY <1>1 DEF RecoverAsks
  <2> QED
    BY <2>1, <1>0 DEF RcMoves
<1>2. RecoverApplies \/ RecoverRefusal => RcMoves
  <2>1. RecoverApplies \/ RecoverRefusal =>
          rc.pc # "idle" /\ rc' \in {Idle, [rc EXCEPT !.pc = "refusal"], [rc EXCEPT !.pc = "live"]}
    BY DEF RecoverApplies, RecoverRefusal
  <2> QED
    BY <2>1, <1>0 DEF RcMoves
<1>3. ASSUME NEW live \in {"live", "dead", "disowned", "unknown"}, RecoverDecides(live) PROVE RcMoves
  BY <1>3, <1>0 DEF RecoverDecides, RcMoves
<1>4. UNCHANGED <<lock, st, tk, prompt, word, busy, bound, host, reindex>>
  BY DEF Recover, RecoverAsks, RecoverApplies, RecoverRefusal, RecoverDecides
<1> QED
  BY <1>1, <1>2, <1>3, <1>4 DEF Recover

LEMMA RetireSteps ==
  ASSUME Retire
  PROVE  /\ UNCHANGED <<word, busy, reindex, st, tk, rc>>
         /\ \/ RetireEnters /\ lock = "free" /\ lock' = "retire" /\ (\A a \in Attempt : ~Open(a)) /\ UNCHANGED <<att, bound, prompt, host>>
            \/ ForceSettles /\ lock = "free" /\ lock' = "force" /\ UNCHANGED <<bound, prompt, host>>
            \/ lock \in {"retire", "force"} /\ lock' = "free" /\ UNCHANGED att
<1>1. RetireEnters => /\ lock = "free" /\ lock' = "retire" /\ (\A a \in Attempt : ~Open(a)) /\ UNCHANGED <<att, bound, prompt, host>>
                      /\ UNCHANGED <<word, busy, reindex, st, tk, rc>>
  BY DEF RetireEnters, durable, world, proc
<1>2. ForceSettles => /\ lock = "free" /\ lock' = "force" /\ UNCHANGED <<bound, prompt, host>>
                      /\ UNCHANGED <<word, busy, reindex, st, tk, rc>>
  BY DEF ForceSettles, world, proc
<1>3. ForceCloses \/ (\E c \in BOOLEAN : RetireCloses(c)) =>
        lock \in {"retire", "force"} /\ lock' = "free" /\ UNCHANGED <<att, word, busy, reindex, st, tk, rc>>
  BY DEF ForceCloses, RetireCloses, world, proc
<1> QED
  BY <1>1, <1>2, <1>3 DEF Retire

-----------------------------------------------------------------------------
(* The parts of Core, one by one.                                          *)
Shape == Types /\ LockInv /\ FreshInv /\ StartInv /\ PassInv /\ OpenInv

(* A step other than the preparation opens nothing.                        *)
LEMMA NothingOpens ==
  ASSUME WorkLaneAssumption, Shape, [Next]_vars, ~Prepares, NEW a \in Attempt, Open(a)'
  PROVE  Open(a) /\ att'[a].sess = att[a].sess
BY RowStep DEF Shape, Open, Written, Closes, Rewrites

LEMMA PreparesMoves ==
  ASSUME Types, Prepares PROVE st.pc = "bind" /\ st'.pc = "attach" /\ st'.a = st.a /\ UNCHANGED <<lock, prompt, word, busy>>
BY DEF Types, Passes, StType, ProcType, Prepares, Prepare

LEMMA WorldSteps ==
  ASSUME World
  PROVE  /\ UNCHANGED <<att, job, told, bound>>
         /\ \/ Crash /\ lock' = "free" /\ st'.pc = "idle" /\ tk'.pc = "idle" /\ rc'.pc = "idle" /\ UNCHANGED world
            \/ UNCHANGED <<lock, st, tk, rc>>
<1>1. Crash => lock' = "free" /\ st'.pc = "idle" /\ tk'.pc = "idle" /\ rc'.pc = "idle" /\ UNCHANGED <<durable, world>>
  BY DEF Crash, Idle
<1>2. ~Crash => UNCHANGED <<durable, lock, proc>>
  BY DEF World, HostTakes, RequestEnds, TurnEnds, HostDies, NewGeneration, Reindexed, Restart, proc
<1> QED
  BY <1>1, <1>2 DEF durable, proc

LEMMA LockStep ==
  ASSUME WorkLaneAssumption, Shape, [Next]_vars PROVE LockInv'
<1> USE DEF Shape
<1>1. CASE UNCHANGED vars
  BY <1>1 DEF vars, durable, proc, LockInv, Open
<1>2. CASE Start
  <2>1. StMoves /\ UNCHANGED tk
    BY <1>2, StartSteps
  <2>2. (lock' = "start" <=> st'.pc # "idle") /\ (lock' = "settle" <=> tk'.pc = "settle")
    BY <2>1 DEF StMoves, LockInv
  <2>3. st'.pc = "bind" => (st.pc = "idle" /\ (\A a \in Attempt : ~Open(a)) /\ att' = att)
    BY <2>1 DEF StMoves
  <2> QED
    BY <2>1, <2>2, <2>3 DEF LockInv, Open, StMoves
<1>3. CASE Tick
  <2>1. TkMoves /\ UNCHANGED st /\ ~Prepares
    BY <1>3, TickSteps, PreparesMoves
  <2>2. \A a \in Attempt : Open(a)' => Open(a)
    BY <2>1, <1>3, NothingOpens DEF Next
  <2> QED
    BY <2>1, <2>2 DEF TkMoves, LockInv
<1>4. CASE Recover
  <2>1. UNCHANGED <<lock, st, tk>> /\ ~Prepares
    BY <1>4, RecoverSteps, PreparesMoves
  <2>2. \A a \in Attempt : Open(a)' => Open(a)
    BY <2>1, <1>4, NothingOpens DEF Next
  <2> QED
    BY <2>1, <2>2 DEF LockInv
<1>5. CASE Retire
  <2>1. UNCHANGED <<st, tk>> /\ st.pc = "idle" /\ tk.pc # "settle" /\ lock' \in {"free", "retire", "force"}
    BY <1>5, RetireSteps DEF LockInv
  <2>2. lock' \in {"retire", "force"} => \A a \in Attempt : ~Open(a)'
    BY <1>5, RetireSteps, CloseSteps DEF Closes, Written, Rewrites, Open, OpenInv
  <2> QED
    BY <2>1, <2>2 DEF LockInv
<1>6. CASE World
  BY <1>6, WorldSteps DEF LockInv, Open
<1> QED
  BY <1>1, <1>2, <1>3, <1>4, <1>5, <1>6 DEF Next

(* What a step does to the prompt of an attempt.                           *)
PromptMoves(a) ==
  \/ prompt'[a] = prompt[a] /\ word'[a] = word[a] /\ busy'[a] = busy[a]
  \/ prompt[a] = "sent" /\ prompt'[a] = "running" /\ Live(att[a].sess) /\ word'[a] = word[a] /\ busy'[a] = busy[a]
  \/ prompt[a] = "running" /\ prompt'[a] = "running" /\ word'[a] \in {"deadline", "missing"} /\ busy'[a] = busy[a]
  \/ prompt[a] = "running" /\ prompt'[a] = "over" /\ busy'[a] = busy[a]
  \/ prompt[a] = "sent" /\ prompt'[a] = "lost" /\ word'[a] = word[a] /\ busy'[a] = busy[a]
  \/ st.pc = "attach" /\ st.a = a /\ prompt'[a] = (IF Live(bound) THEN "sent" ELSE "lost") /\ st'.pc = "send" /\ st'.a = a
     /\ word'[a] = word[a] /\ busy'[a] = busy[a]
  \/ st.pc = "send" /\ st.a = a /\ prompt[a] = "sent" /\ prompt'[a] = "refused" /\ word'[a] = word[a]
  \/ st.pc = "send" /\ st.a = a /\ busy[a] /\ prompt'[a] = "sent" /\ ~busy'[a] /\ Live(att[a].sess) /\ word'[a] = word[a]

LEMMA PromptSteps ==
  ASSUME WorkLaneAssumption, Shape, [Next]_vars, NEW a \in Attempt PROVE PromptMoves(a)
<1> USE DEF durable, world, proc
<1>0. Outside /\ (st.pc \in {"attach", "send"} => st.a \in Attempt)
  BY DEF Shape, Types, StartInv
<1>1. CASE UNCHANGED vars
  BY <1>1 DEF vars, PromptMoves
<1>2. UNCHANGED <<prompt, word, busy>> => PromptMoves(a)
  BY DEF PromptMoves
<1>3. CASE FenceOrSend
  <2>1. CASE WriteCurrent(st.a)
    <3>1. /\ st.pc = "attach" /\ prompt' = [prompt EXCEPT ![st.a] = IF Live(bound) THEN "sent" ELSE "lost"]
          /\ UNCHANGED <<word, busy>> /\ st' = [st EXCEPT !.pc = "send"]
      BY <1>3, <2>1 DEF FenceOrSend
    <3>2. st'.pc = "send" /\ st'.a = st.a
      BY <3>1 DEF Shape, Types, Passes, StType, ProcType
    <3> QED
      BY <3>1, <3>2, <1>0 DEF PromptMoves, Outside
  <2> QED
    BY <2>1, <1>2, <1>3 DEF FenceOrSend
<1>4. CASE BusyRefused \/ Refuses
  BY <1>4, <1>0 DEF BusyRefused, Refuses, PromptMoves, Outside
<1>5. CASE Rearm
  BY <1>5, <1>0 DEF Rearm, PromptMoves, Outside
<1>6. ASSUME NEW s, Dying(s), UNCHANGED <<word, busy>> PROVE PromptMoves(a)
  BY <1>6 DEF Dying, PromptMoves, Running
<1>7. CASE Retire
  <2>1. RetireEnters \/ ForceSettles \/ ForceCloses => UNCHANGED <<prompt, word, busy>>
    BY DEF RetireEnters, ForceSettles, ForceCloses
  <2>2. ASSUME NEW c \in BOOLEAN, RetireCloses(c) PROVE UNCHANGED <<word, busy>> /\ (UNCHANGED prompt \/ Dying(bound))
    BY <2>2 DEF RetireCloses
  <2> QED
    BY <2>1, <2>2, <1>2, <1>6, <1>7 DEF Retire
<1>8. ASSUME NEW b \in Attempt, HostTakes(b) PROVE PromptMoves(a)
  BY <1>8, <1>0 DEF HostTakes, PromptMoves, Outside
<1>9. ASSUME NEW b \in Attempt, NEW w \in {"deadline", "missing"}, RequestEnds(b, w) PROVE PromptMoves(a)
  BY <1>9, <1>0 DEF RequestEnds, PromptMoves, Outside, Running
<1>10. ASSUME NEW b \in Attempt, NEW w \in {"ok", "failed", "missing", "deadline"}, TurnEnds(b, w) PROVE PromptMoves(a)
  BY <1>10, <1>0 DEF TurnEnds, PromptMoves, Outside, Running
<1>11. ASSUME NEW s \in Session, HostDies(s) PROVE PromptMoves(a)
  BY <1>11, <1>6 DEF HostDies
<1>12. CASE Start
  BY <1>2, <1>3, <1>4, <1>5, <1>12
     DEF Start, StartAdmit, BindFails, Prepare, SendReturns, SendResolved
<1>13. CASE Tick \/ Recover
  BY <1>2, <1>13, TickSteps, RecoverSteps DEF Shape
<1>14. CASE World
  BY <1>2, <1>8, <1>9, <1>10, <1>11, <1>14 DEF World, NewGeneration, Reindexed, Crash, Restart
<1> QED
  BY <1>1, <1>7, <1>12, <1>13, <1>14 DEF Next

LEMMA FreshStep ==
  ASSUME WorkLaneAssumption, Shape, [Next]_vars PROVE FreshInv'
<1> USE DEF Shape
<1>1. \A a \in Attempt : a \in Used' <=> (a \in Used \/ (Prepares /\ a = st.a))
  BY RowStep DEF Used, Written, Closes, Prepares, Rewrites, Open
<1>2. \A a, b \in Attempt : a < b /\ b \in Used' => a \in Used'
  BY <1>1 DEF FreshInv, StartInv, Prepares
<1>3. ASSUME NEW a \in Attempt, a \notin Used'
      PROVE  att'[a] = Row /\ prompt'[a] = "unsent" /\ word'[a] = "none" /\ ~busy'[a]
  <2>1. a \notin Used /\ ~(Prepares /\ a = st.a) /\ ~Open(a)
    BY <1>1, <1>3 DEF Used, Open
  <2>2. att'[a] = att[a]
    BY <2>1, RowStep DEF Written, Closes, Prepares
  <2>3. ~(st.pc \in {"attach", "send"} /\ st.a = a)
    BY <2>1 DEF StartInv
  <2> QED
    BY <2>1, <2>2, <2>3, PromptSteps DEF PromptMoves, FreshInv
<1> QED
  BY <1>2, <1>3 DEF FreshInv

LEMMA StartStep ==
  ASSUME WorkLaneAssumption, Shape, [Next]_vars PROVE StartInv'
<1> USE DEF Shape
<1>1. CASE StMoves
  <2>1. st'.pc # "idle" => st'.a \in Attempt
    BY <1>1 DEF StMoves, StartInv
  <2>2. st'.pc = "bind" => (st.a \notin Used)' /\ \A b \in Attempt : b < st'.a => b \in Used'
    BY <1>1, NextIsFresh DEF StMoves, Used
  <2>3. st'.pc \in {"attach", "send", "asked"} => Open(st.a)'
    <3>1. Prepare /\ st'.a = st.a => Open(st.a)'
      BY PrepareStep DEF Prepares, Open
    <3>2. st.pc \in {"attach", "send", "asked"} /\ st'.a = st.a /\ att' = att => Open(st.a)'
      BY DEF StartInv, Open
    <3> QED
      BY <1>1, <3>1, <3>2 DEF StMoves
  <2>4. st'.pc = "attach" => prompt'[st'.a] = "unsent"
    BY <1>1 DEF StMoves, StartInv, FreshInv
  <2> QED
    BY <2>1, <2>2, <2>3, <2>4 DEF StartInv, Used, Open
<1>2. CASE UNCHANGED st
  <2>1. ~Prepares
    BY <1>2, PreparesMoves
  <2>2. \A a \in Attempt : a \in Used' <=> a \in Used
    BY <2>1, RowStep DEF Used, Written, Closes, Rewrites, Open
  <2>3. st.pc \in {"attach", "send", "asked"} => Open(st.a)'
    <3>1. ASSUME Written, st.pc \in {"attach", "send", "asked"} PROVE Open(st.a)'
      BY <1>2, <3>1 DEF Written, Rewrites, Open, StartInv
    <3>2. ASSUME NEW a \in Attempt, Closes(a) PROVE st.pc = "idle"
      BY <3>2 DEF Closes, LockInv
    <3> QED
      BY <2>1, <3>1, <3>2, RowStep
  <2>4. st.pc = "attach" => prompt'[st.a] = "unsent"
    BY <1>2, PromptSteps DEF PromptMoves, StartInv
  <2> QED
    BY <1>2, <2>2, <2>3, <2>4 DEF StartInv
<1>3. st'.pc = "idle" => StartInv'
  BY DEF StartInv
<1>4. StMoves \/ UNCHANGED st \/ st'.pc = "idle"
  BY StartSteps, TickSteps, RecoverSteps, RetireSteps, WorldSteps DEF Next, vars, proc
<1> QED
  BY <1>1, <1>2, <1>3, <1>4

LEMMA PassStep ==
  ASSUME WorkLaneAssumption, Shape, [Next]_vars PROVE PassInv'
<1> USE DEF Shape
<1>1. \A a \in Attempt : Open(a) \/ a \in Used => a \in Used'
  BY RowStep DEF Used, Written, Closes, Prepares, Rewrites, Open
<1>2. TkMoves \/ UNCHANGED tk \/ tk'.pc = "idle"
  BY StartSteps, TickSteps, RecoverSteps, RetireSteps, WorldSteps DEF Next, vars, proc
<1>3. RcMoves \/ UNCHANGED rc \/ rc'.pc = "idle"
  BY StartSteps, TickSteps, RecoverSteps, RetireSteps, WorldSteps DEF Next, vars, proc
<1>4. tk'.pc # "idle" => tk'.a \in Used'
  BY <1>1, <1>2 DEF TkMoves, PassInv, Used
<1>5. rc'.pc # "idle" => rc'.a \in Used'
  BY <1>1, <1>3 DEF RcMoves, PassInv, Used
<1> QED
  BY <1>4, <1>5 DEF PassInv

LEMMA OpenStep ==
  ASSUME WorkLaneAssumption, Shape, [Next]_vars PROVE OpenInv'
<1> USE DEF Shape
<1>1. CASE Prepares
  <2>1. \A a \in Attempt : Open(a)' <=> a = st.a
    BY <1>1 DEF Prepares, Open, LockInv
  <2>2. job' = "running" /\ bound' \in Session /\ att'[st.a].sess = bound' /\ st.a \in Attempt
    BY <1>1 DEF Prepares, Prepare
  <2> QED
    BY <2>1, <2>2 DEF OpenInv
<1>2. CASE Written /\ UNCHANGED <<job, told>>
  <2>1. \A a \in Attempt : (Open(a)' <=> Open(a)) /\ att'[a].sess = att[a].sess
    BY <1>2 DEF Written, Rewrites, Open
  <2>2. (\E a \in Attempt : Open(a)) => bound' = bound \/ Prepares
    BY StartSteps, TickSteps, RecoverSteps, RetireSteps, WorldSteps, PrepareStep DEF StMoves, LockInv, Next, vars, durable
  <2> QED
    BY <1>1, <1>2, <2>1, <2>2 DEF OpenInv
<1>3. ASSUME NEW a \in Attempt, Closes(a) PROVE OpenInv'
  <2>1. \A b \in Attempt : ~Open(b)'
    BY <1>3 DEF Closes, Open, OpenInv
  <2> QED
    BY <1>3, <2>1 DEF OpenInv, Closes
<1> QED
  BY <1>1, <1>2, <1>3, RowStep

LEMMA ShapeStep ==
  ASSUME WorkLaneAssumption, Shape, [Next]_vars PROVE Shape'
BY TypesStep, LockStep, FreshStep, StartStep, PassStep, OpenStep DEF Shape

-----------------------------------------------------------------------------
(* What was told, the broker's word, and the rejected sends.               *)
LEMMA ToldStep ==
  ASSUME WorkLaneAssumption, Shape, ToldInv, [Next]_vars PROVE ToldInv'
<1> USE DEF Shape
<1>0. told \in [Attempt -> Nat]
  BY DEF Types, Binding
<1>1. ASSUME Written, UNCHANGED told PROVE ToldInv'
  BY <1>1 DEF Written, Rewrites, ToldInv
<1>2. ASSUME NEW a \in Attempt, Closes(a) PROVE ToldInv'
  <2>1. told[a] = 0
    BY <1>2 DEF Closes, Open, ToldInv
  <2>2. told' \in [Attempt -> Nat] /\ told'[a] <= 1 /\ att'[a].st = "settled"
    BY <1>0, <1>2, <2>1 DEF Closes
  <2>3. \A b \in Attempt \ {a} : told'[b] = told[b] /\ att'[b] = att[b]
    BY <1>2 DEF Closes
  <2> QED
    BY <2>2, <2>3 DEF ToldInv
<1>3. ASSUME Prepares PROVE ToldInv'
  <2>1. att[st.a].st = "none"
    BY <1>3 DEF Prepares, StartInv, Used
  <2> QED
    BY <1>3, <2>1 DEF Prepares, ToldInv
<1> QED
  BY <1>1, <1>2, <1>3, RowStep

LEMMA WordStep ==
  ASSUME WorkLaneAssumption, Shape, WordInv, [Next]_vars PROVE WordInv'
<1> SUFFICES ASSUME NEW a \in Attempt
             PROVE  /\ word'[a] # "none" => prompt'[a] \in {"running", "over"}
                    /\ word'[a] \in {"ok", "failed"} => prompt'[a] = "over"
                    /\ busy'[a] => prompt'[a] = "refused"
  BY DEF WordInv
<1>1. /\ word[a] # "none" => prompt[a] \in {"running", "over"}
      /\ word[a] \in {"ok", "failed"} => prompt[a] = "over"
      /\ busy[a] => prompt[a] = "refused"
  BY DEF WordInv
<1>2. st.pc = "attach" /\ st.a = a => prompt[a] = "unsent"
  BY DEF Shape, StartInv
<1> QED
  BY <1>1, <1>2, PromptSteps DEF PromptMoves

(* Who records that a send was rejected.                                   *)
Rejects(a) ==
  \/ /\ st.pc = "attach" /\ st.a = a /\ prompt' = prompt /\ st'.pc = "idle"
  \/ /\ st.pc = "send" /\ st.a = a /\ prompt[a] = "refused" /\ prompt' = prompt /\ st'.pc = "idle"
  \/ /\ lock = "free" /\ busy[a] /\ prompt' = prompt /\ st' = st

TermKept(a) == att'[a].term = att[a].term \/ att'[a].term # "send_rejected"

LEMMA CasKeeps ==
  ASSUME Rows, NEW b \in Attempt, NEW snap, NEW new, Cas(b, snap, new),
         att[b] = snap => (new.term = snap.term \/ new.term # "send_rejected"),
         NEW a \in Attempt
  PROVE  TermKept(a)
BY DEF Rows, Cas, TermKept

LEMMA PutKeeps ==
  ASSUME Rows, NEW b \in Attempt, NEW new, att' = [att EXCEPT ![b] = new],
         new.term = att[b].term \/ new.term # "send_rejected",
         NEW a \in Attempt
  PROVE  TermKept(a)
BY DEF Rows, TermKept

(* How a row's outcome changes.                                            *)
LEMMA TermOf ==
  ASSUME NEW row \in RowType, NEW t, NEW o, NEW e
  PROVE  /\ [row EXCEPT !.term = t].term = t
         /\ [row EXCEPT !.phase = o].term = row.term
         /\ [row EXCEPT !.phase = o, !.term = t].term = t
         /\ [row EXCEPT !.turnEnd = TRUE].term = row.term
         /\ [row EXCEPT !.turnEnd = TRUE, !.out = o].term = row.term
         /\ [row EXCEPT !.out = o].term = row.term
         /\ [row EXCEPT !.out = o, !.term = t].term = t
         /\ [row EXCEPT !.term = t, !.out = o].term = t
         /\ [row EXCEPT !.reads = o].term = row.term
         /\ [row EXCEPT !.st = "settled", !.end = e].term = row.term
BY DEF RowType

LEMMA RejectSteps ==
  ASSUME WorkLaneAssumption, Shape, [Next]_vars, NEW a \in Attempt
  PROVE  TermKept(a) \/ Rejects(a)
<1> USE DEF Shape
<1> DEFINE A == st.a
           T == tk.a
           R == rc.a
<1>0. Rows /\ \A b \in Attempt : att[b] \in RowType
  BY DEF Types, Rows
<1>a. st.pc \in {"attach", "send", "asked"} => A \in Attempt
  BY DEF StartInv
<1>t. tk.pc # "idle" => T \in Attempt
  BY DEF PassInv, Used
<1>r. rc.pc # "idle" => R \in Attempt
  BY DEF PassInv, Used
<1>s. att' = att => TermKept(a)
  BY DEF TermKept
<1>m. ASSUME NEW row \in RowType, NEW said, NEW reason \in Reasons \cup {"none"}, reason # "send_rejected"
      PROVE  Noted(row, said, reason) \in RowType
             /\ (Noted(row, said, reason).term = row.term \/ Noted(row, said, reason).term # "send_rejected")
  BY <1>m, NotedFacts
<1>n. \A said \in Answers : Reason(said) \in Reasons \cup {"none"} /\ Reason(said) # "send_rejected"
  BY ReasonFacts DEF LocalReasons
<1>o. "host_lost" \in Reasons /\ "session_dead" \in Reasons
  BY DEF Reasons
<1>1. CASE FenceOrSend
  <2>1. st.pc = "attach" /\ A \in Attempt
    BY <1>1, <1>a DEF FenceOrSend
  <2>2. \/ att' = att
        \/ att' = [att EXCEPT ![A] = [att[A] EXCEPT !.term = "send_rejected"]] /\ prompt' = prompt /\ st' = Idle
    BY <1>1 DEF FenceOrSend
  <2>3. A # a /\ ~(att' = att) => att'[a] = att[a]
    BY <2>1, <2>2, <1>0 DEF Rows
  <2> QED
    BY <2>1, <2>2, <2>3, <1>s DEF Rejects, TermKept, Idle
<1>2. CASE SendResolved
  <2>1. \/ att' = att
        \/ Cas(A, st.snap, [st.snap EXCEPT !.phase = "accepted"])
        \/ Cas(A, st.snap, [st.snap EXCEPT !.phase = "uncertain"])
    BY <1>2 DEF SendResolved
  <2>2. A \in Attempt /\ (att[A] = st.snap => st.snap \in RowType)
    BY <1>2, <1>a, <1>0 DEF SendResolved
  <2>3. att[A] = st.snap => /\ [st.snap EXCEPT !.phase = "accepted"].term = st.snap.term
                            /\ [st.snap EXCEPT !.phase = "uncertain"].term = st.snap.term
    BY <2>2, TermOf
  <2> QED
    BY <2>1, <2>2, <2>3, <1>0, <1>s, CasKeeps
<1>3. CASE TickApplies
  <2>1. T \in Attempt /\ tk.said \in Answers /\ (att[T] = tk.snap => tk.snap \in RowType)
    BY <1>3, <1>t, <1>0 DEF TickApplies, Types, Passes, TkType, ProcType
  <2>2. \/ att' = att
        \/ Cas(T, tk.snap, Noted(tk.snap, tk.said, "host_lost"))
        \/ Cas(T, tk.snap, Noted(tk.snap, tk.said, Reason(tk.said)))
    BY <1>3 DEF TickApplies
  <2> QED
    BY <2>1, <2>2, <1>0, <1>m, <1>n, <1>o, <1>s, CasKeeps
<1>4. CASE DeadProof
  <2> DEFINE noted == Noted(tk.snap, tk.said, Reason(tk.said))
  <2>1. T \in Attempt /\ tk.said \in Answers /\ (att[T] = tk.snap => tk.snap \in RowType)
    BY <1>4, <1>t, <1>0 DEF DeadProof, Types, Passes, TkType, ProcType
  <2>2. \/ att' = att
        \/ Cas(T, tk.snap, [noted EXCEPT !.turnEnd = TRUE, !.out = "unavailable"])
        \/ Cas(T, tk.snap, [noted EXCEPT !.turnEnd = TRUE, !.out = noted.out])
        \/ Cas(T, tk.snap, Noted(tk.snap, tk.said, "session_dead"))
    BY <1>4 DEF DeadProof
  <2>3. att[T] = tk.snap =>
          /\ noted \in RowType /\ (noted.term = tk.snap.term \/ noted.term # "send_rejected")
          /\ \/ Noted(tk.snap, tk.said, "session_dead").term = tk.snap.term
             \/ Noted(tk.snap, tk.said, "session_dead").term # "send_rejected"
    BY <2>1, <1>m, <1>n, <1>o
  <2>4. att[T] = tk.snap =>
          /\ [noted EXCEPT !.turnEnd = TRUE, !.out = "unavailable"].term = noted.term
          /\ [noted EXCEPT !.turnEnd = TRUE, !.out = noted.out].term = noted.term
    BY <2>3, TermOf
  <2> QED
    BY <2>1, <2>2, <2>3, <2>4, <1>0, <1>s, CasKeeps
<1>5. CASE RecoverApplies
  <2>1. R \in Attempt /\ rc.said \in Answers /\ (att[R] = rc.snap => rc.snap \in RowType)
    BY <1>5, <1>r, <1>0 DEF RecoverApplies, Types, Passes, RcType, ProcType
  <2>2. att' = att \/ Cas(R, rc.snap, Noted(rc.snap, rc.said, Reason(rc.said)))
    BY <1>5 DEF RecoverApplies
  <2> QED
    BY <2>1, <2>2, <1>0, <1>m, <1>n, <1>s, CasKeeps
<1>6. ASSUME RecoverRefusal PROVE TermKept(a) \/ Rejects(a)
  <2>1. R \in Attempt /\ lock = "free" /\ prompt' = prompt /\ st' = st
    BY <1>6, <1>r DEF RecoverRefusal, world
  <2>2. att' = att \/ (busy[R] /\ att' = [att EXCEPT ![R] = [att[R] EXCEPT !.term = "send_rejected"]])
    BY <1>6 DEF RecoverRefusal
  <2>3. R # a /\ ~(att' = att) => att'[a] = att[a]
    BY <2>1, <2>2, <1>0 DEF Rows
  <2> QED
    BY <2>1, <2>2, <2>3, <1>s DEF Rejects, TermKept
<1>7. ASSUME NEW said \in {"accepted", "rejected", "error"}, SendReturns(said) PROVE TermKept(a) \/ Rejects(a)
  <2>1. A \in Attempt /\ st.pc = "send" /\ prompt' = prompt
    BY <1>7, <1>a DEF SendReturns, world
  <2>2. \/ att' = att
        \/ att' = [att EXCEPT ![A] = [att[A] EXCEPT !.phase = "accepted"]]
        \/ /\ att' = [att EXCEPT ![A] = [att[A] EXCEPT !.phase = "uncertain", !.term = "send_rejected"]]
           /\ prompt[A] = "refused" /\ st' = Idle
        \/ att' = [att EXCEPT ![A] = [att[A] EXCEPT !.phase = "uncertain", !.term = att[A].term]]
        \/ att' = [att EXCEPT ![A] = [att[A] EXCEPT !.phase = att[A].phase]]
    BY <1>7, <2>1 DEF SendReturns
  <2>3. CASE att' = [att EXCEPT ![A] = [att[A] EXCEPT !.phase = "uncertain", !.term = "send_rejected"]]
             /\ prompt[A] = "refused" /\ st' = Idle
    <3>1. A # a => att'[a] = att[a]
      BY <2>1, <2>3, <1>0 DEF Rows
    <3> QED
      BY <2>1, <2>3, <3>1 DEF Rejects, TermKept, Idle
  <2>4. /\ [att[A] EXCEPT !.phase = "accepted"].term = att[A].term
        /\ [att[A] EXCEPT !.phase = att[A].phase].term = att[A].term
        /\ [att[A] EXCEPT !.phase = "uncertain", !.term = att[A].term].term = att[A].term
    BY <2>1, <1>0, TermOf
  <2> QED
    BY <2>1, <2>2, <2>3, <2>4, <1>0, <1>s, PutKeeps
<1>8. ASSUME NEW idle \in BOOLEAN, IdleProof(idle) PROVE TermKept(a)
  <2> DEFINE noted == Noted(tk.snap, tk.said, Reason(tk.said))
  <2>1. T \in Attempt /\ tk.said \in Answers /\ (att[T] = tk.snap => tk.snap \in RowType)
    BY <1>8, <1>t, <1>0 DEF IdleProof, Types, Passes, TkType, ProcType
  <2>2. att' = att \/ Cas(T, tk.snap, [noted EXCEPT !.turnEnd = TRUE])
    BY <1>8 DEF IdleProof
  <2>3. att[T] = tk.snap =>
          /\ noted.term = tk.snap.term \/ noted.term # "send_rejected"
          /\ [noted EXCEPT !.turnEnd = TRUE].term = noted.term
    BY <2>1, <1>m, <1>n, TermOf
  <2> QED
    BY <2>1, <2>2, <2>3, <1>0, <1>s, CasKeeps
<1>9. ASSUME NEW b \in Attempt, FrameEnds(b) PROVE TermKept(a)
  <2>1. att' = [att EXCEPT ![b] = [att[b] EXCEPT !.turnEnd = TRUE]]
    BY <1>9 DEF FrameEnds
  <2> QED
    BY <2>1, <1>0, PutKeeps, TermOf
<1>10. ASSUME NEW b \in Attempt, ReadClaims(b) PROVE TermKept(a)
  <2>1. \/ att' = [att EXCEPT ![b] = [att[b] EXCEPT !.out = "unavailable"]]
        \/ att' = [att EXCEPT ![b] = [att[b] EXCEPT !.reads = att[b].reads + 1]]
    BY <1>10 DEF ReadClaims
  <2> QED
    BY <2>1, <1>0, PutKeeps, TermOf
<1>11. ASSUME NEW found \in {"available", "silent", "unavailable", "absent"}, ReadReturns(found) PROVE TermKept(a)
  <2>1. T \in Attempt /\ (att[T] = tk.snap => tk.snap \in RowType)
    BY <1>11, <1>t, <1>0 DEF ReadReturns
  <2>2. \/ att' = att
        \/ Cas(T, tk.snap, [tk.snap EXCEPT !.out = found, !.term = "end_turn"])
        \/ Cas(T, tk.snap, [tk.snap EXCEPT !.out = found, !.term = tk.snap.term])
        \/ Cas(T, tk.snap, [tk.snap EXCEPT !.out = "unavailable"])
    BY <1>11 DEF ReadReturns
  <2>3. att[T] = tk.snap =>
          /\ [tk.snap EXCEPT !.out = found, !.term = "end_turn"].term = "end_turn"
          /\ [tk.snap EXCEPT !.out = found, !.term = tk.snap.term].term = tk.snap.term
          /\ [tk.snap EXCEPT !.out = "unavailable"].term = tk.snap.term
    BY <2>1, TermOf
  <2> QED
    BY <2>1, <2>2, <2>3, <1>0, <1>s, CasKeeps
<1>12. ASSUME NEW live \in {"live", "dead", "disowned", "unknown"}, RecoverDecides(live) PROVE TermKept(a)
  <2>1. R \in Attempt /\ (att[R] = rc.snap => rc.snap \in RowType)
    BY <1>12, <1>r, <1>0 DEF RecoverDecides
  <2>2. \/ att' = att
        \/ \E reason \in {"host_lost", "session_disowned", "session_dead", "recovery_indeterminate"} :
             Cas(R, rc.snap, Noted(rc.snap, "none", reason))
    BY <1>12 DEF RecoverDecides
  <2>3. {"host_lost", "session_disowned", "session_dead", "recovery_indeterminate"} \subseteq Reasons
    BY DEF Reasons
  <2> QED
    BY <2>1, <2>2, <2>3, <1>0, <1>m, <1>s, CasKeeps
<1>13. CASE Prepare
  <2>1. Prepares
    BY <1>13, PrepareStep
  <2> QED
    BY <2>1 DEF Prepares, TermKept
<1>14. ASSUME NEW b \in Attempt, NEW row \in RowType, NEW e, Settled(b, row, e),
              row.term = att[b].term \/ row.term # "send_rejected"
       PROVE  TermKept(a)
  <2>1. att' = [att EXCEPT ![b] = [row EXCEPT !.st = "settled", !.end = e]]
    BY <1>14 DEF Settled
  <2>2. [row EXCEPT !.st = "settled", !.end = e].term = row.term
    BY TermOf
  <2> QED
    BY <2>1, <2>2, <1>14, <1>0, PutKeeps
<1>15. CASE SettleCommits
  <2>1. att' = att \/ \E e : Settled(T, att[T], e)
    BY <1>15 DEF SettleCommits
  <2>2. T \in Attempt
    BY <1>15, <1>t DEF SettleCommits
  <2> QED
    BY <2>1, <2>2, <1>0, <1>14, <1>s
<1>16. CASE ForceSettles
  <2>1. \/ att' = att
        \/ \E b \in Attempt : \E t \in {att[b].term, "session_dead"}, o \in {att[b].out, "unavailable"} : \E e :
             Settled(b, [att[b] EXCEPT !.term = t, !.out = o], e)
    BY <1>16 DEF ForceSettles
  <2>2. ASSUME NEW b \in Attempt, NEW t \in {att[b].term, "session_dead"}, NEW o \in {att[b].out, "unavailable"}
        PROVE  [att[b] EXCEPT !.term = t, !.out = o] \in RowType /\ [att[b] EXCEPT !.term = t, !.out = o].term = t
    BY <1>0 DEF RowType, Reasons, Outs
  <2> QED
    BY <2>1, <2>2, <1>14, <1>s
<1>17. UNCHANGED vars => att' = att
  BY DEF vars, durable
<1> QED
  BY <1>1, <1>2, <1>3, <1>4, <1>5, <1>6, <1>7, <1>8, <1>9, <1>10, <1>11, <1>12, <1>13, <1>15, <1>16, <1>17, <1>s, RowFrame

LEMMA RejectedStep ==
  ASSUME WorkLaneAssumption, Shape, WordInv, RejectedInv, [Next]_vars PROVE RejectedInv'
<1> SUFFICES ASSUME NEW a \in Attempt, att'[a].term = "send_rejected"
             PROVE  /\ prompt'[a] \in {"unsent", "refused", "lost"}
                    /\ ~(st'.pc \in {"attach", "send"} /\ st'.a = a)
  BY DEF RejectedInv
<1>1. CASE Rejects(a)
  BY <1>1 DEF Rejects, Shape, StartInv, LockInv, WordInv
<1>2. CASE att[a].term = "send_rejected"
  <2>1. prompt[a] \in {"unsent", "refused", "lost"} /\ ~(st.pc \in {"attach", "send"} /\ st.a = a)
    BY <1>2 DEF RejectedInv
  <2>2. prompt'[a] = prompt[a]
    BY <2>1, PromptSteps DEF PromptMoves
  <2>3. StMoves \/ UNCHANGED st \/ st'.pc = "idle"
    BY StartSteps, TickSteps, RecoverSteps, RetireSteps, WorldSteps DEF Next, vars, proc, Shape
  <2>4. Prepare => att'[st.a].term = "none"
    BY PrepareStep DEF Prepares, Shape
  <2>5. ~(st'.pc \in {"attach", "send"} /\ st'.a = a)
    BY <2>1, <2>3, <2>4 DEF StMoves
  <2> QED
    BY <2>1, <2>2, <2>5
<1> QED
  BY <1>1, <1>2, RejectSteps DEF TermKept

-----------------------------------------------------------------------------
(* With a router that never disowns a live host.                           *)
LEMMA HostSteps ==
  ASSUME WorkLaneAssumption, Shape, ~reindex, [Next]_vars
  PROVE  \/ UNCHANGED <<host, bound>>
         \/ Prepare
         \/ \E s \in Session : Dying(s) /\ UNCHANGED <<bound, att, st, lock>>
         \/ /\ lock = "retire" /\ lock' = "free" /\ UNCHANGED <<att, st>> /\ bound' \in {0, bound}
            /\ \/ UNCHANGED <<host, prompt>> /\ (bound' = 0 => ~Live(bound))
               \/ bound \in Session /\ Dying(bound)
         \/ lock = "force" /\ lock' = "free" /\ bound' = 0 /\ UNCHANGED <<host, prompt, att, st>>
<1> USE DEF durable, world, proc
<1>1. UNCHANGED vars => UNCHANGED <<host, bound>>
  BY DEF vars
<1>2. Start => Prepare \/ UNCHANGED <<host, bound>>
  BY DEF Start, StartAdmit, BindFails, FenceOrSend, BusyRefused, Rearm, Refuses, SendReturns, SendResolved
<1>3. Tick \/ Recover => UNCHANGED <<host, bound>>
  BY TickSteps, RecoverSteps DEF Shape
<1>4. RetireEnters \/ ForceSettles => UNCHANGED <<host, bound>>
  BY DEF RetireEnters, ForceSettles
<1>5. ForceCloses => lock = "force" /\ lock' = "free" /\ bound' = 0 /\ UNCHANGED <<host, prompt, att, st>>
  BY DEF ForceCloses
<1>6. ASSUME NEW c \in BOOLEAN, RetireCloses(c)
      PROVE  /\ lock = "retire" /\ lock' = "free" /\ UNCHANGED <<att, st>> /\ bound' \in {0, bound}
             /\ \/ UNCHANGED <<host, prompt>> /\ (bound' = 0 => ~Live(bound))
                \/ bound \in Session /\ Dying(bound)
  <2>1. lock = "retire" /\ lock' = "free" /\ UNCHANGED <<att, st>> /\ bound' \in {0, bound}
    BY <1>6 DEF RetireCloses
  <2>2. CASE c /\ Live(bound)
    BY <1>6, <2>1, <2>2 DEF RetireCloses, Live
  <2>3. CASE ~(c /\ Live(bound))
    <3>1. UNCHANGED <<host, prompt>>
      BY <1>6, <2>3 DEF RetireCloses
    <3>2. ASSUME Live(bound), bound' = 0 PROVE FALSE
      <4>1. ~c /\ LiveAnswers(bound) = {"unknown", "live"}
        BY <2>3, <3>2 DEF LiveAnswers
      <4>2. bound # 0
        BY <3>2, Consts DEF Live, Session
      <4> QED
        BY <1>6, <3>2, <4>1, <4>2 DEF RetireCloses
    <3> QED
      BY <2>1, <3>1, <3>2
  <2> QED
    BY <2>2, <2>3
<1>7. World => UNCHANGED <<host, bound>> \/ \E s \in Session : Dying(s) /\ UNCHANGED <<bound, att, st, lock>>
  BY DEF World, HostTakes, RequestEnds, TurnEnds, HostDies, NewGeneration, Reindexed, Crash, Restart
<1> QED
  BY <1>1, <1>2, <1>3, <1>4, <1>5, <1>6, <1>7 DEF Next, Retire

LEMMA PrepareHosts ==
  ASSUME WorkLaneAssumption, Shape, Prepare
  PROVE  /\ bound' \in Session /\ host' = [host EXCEPT ![bound'] = "live"]
         /\ bound # 0 => bound' = bound
         /\ UNCHANGED <<prompt, lock>> /\ lock = "start"
BY DEF Prepare, Shape, LockInv

(* An attempt whose session is dead acts no more.                          *)
LEMMA GoneIsOver ==
  ASSUME SlotInv, NEW a \in Attempt, ~Live(att[a].sess) PROVE Over(a)
BY DEF SlotInv, Over

LEMMA SlotStep ==
  ASSUME WorkLaneAssumption, ~Reindexing, Shape, SlotInv, [Next]_vars PROVE SlotInv'
<1> USE DEF durable, world, proc
<1>0. /\ host \in [Session -> {"none", "live", "dead"}] /\ bound \in Session \cup {0} /\ 0 \notin Session /\ ~reindex
      /\ prompt \in [Attempt -> {"unsent", "sent", "refused", "lost", "running", "over"}]
  BY Consts DEF Shape, Types, Binding, Outside, SlotInv, Session
<1>1. ~reindex'
  BY <1>0, StartSteps, TickSteps, RecoverSteps, RetireSteps
     DEF Shape, Next, vars, World, HostTakes, RequestEnds, TurnEnds, HostDies, NewGeneration, Reindexed, Crash, Restart
<1>2. \A s \in Session : host'[s] = "live" => s = bound'
  <2>1. CASE Prepare
    BY <1>0, <2>1, PrepareHosts DEF SlotInv
  <2>2. ASSUME NEW s \in Session, Dying(s), bound' = bound PROVE \A x \in Session : host'[x] = "live" => x = bound'
    BY <1>0, <2>2 DEF SlotInv, Dying
  <2>3. ASSUME bound \in Session, Dying(bound) PROVE \A x \in Session : host'[x] # "live"
    BY <1>0, <2>3 DEF SlotInv, Dying
  <2>4. CASE UNCHANGED <<host, bound>>
    BY <2>4 DEF SlotInv
  <2>5. ASSUME host' = host, ~Live(bound) PROVE \A x \in Session : host'[x] # "live"
    BY <2>5 DEF SlotInv, Live
  <2>6. lock = "force" => ~Live(bound)
    BY DEF SlotInv
  <2> QED
    BY <1>0, <2>1, <2>2, <2>3, <2>4, <2>5, <2>6, HostSteps
<1>3. ASSUME NEW a \in Attempt, prompt'[a] \in {"sent", "running"} PROVE Live(att[a].sess)'
  <2>1. CASE Prepare
    <3>1. a # st.a
      <4>1. st.a \notin Used /\ prompt[st.a] = "unsent"
        BY <2>1 DEF Prepare, Shape, StartInv, FreshInv
      <4> QED
        BY <1>3, <2>1, <4>1, PrepareHosts
    <3>2. att'[a].sess = att[a].sess /\ prompt[a] = prompt'[a]
      BY <2>1, <3>1, PrepareStep, PrepareHosts DEF Shape, Prepares
    <3>3. att[a].sess \in Session /\ host[att[a].sess] = "live"
      BY <1>3, <3>2 DEF SlotInv, Live
    <3> QED
      BY <1>0, <2>1, <3>2, <3>3, PrepareHosts DEF Live
  <2>2. ASSUME NEW s \in Session, Dying(s), att' = att PROVE Live(att[a].sess)'
    <3>1. att[a].sess # s /\ prompt'[a] = prompt[a]
      BY <1>3, <2>2 DEF Dying, Running
    <3>2. att[a].sess \in Session /\ host[att[a].sess] = "live"
      BY <1>3, <3>1 DEF SlotInv, Live
    <3> QED
      BY <1>0, <2>2, <3>1, <3>2 DEF Live, Dying
  <2>3. CASE host' = host /\ ~Prepare
    <3>1. att'[a].sess = att[a].sess
      BY <2>3, RowStep DEF Shape, Written, Closes, Prepares, Rewrites
    <3>2. Live(att[a].sess)
      <4>1. st.pc = "attach" /\ st.a = a => att[a].sess = bound
        BY DEF Shape, StartInv, OpenInv
      <4> QED
        BY <1>3, <4>1, PromptSteps DEF PromptMoves, SlotInv
    <3> QED
      BY <2>3, <3>1, <3>2 DEF Live
  <2> QED
    BY <1>0, <2>1, <2>2, <2>3, HostSteps
<1>4. lock' = "force" => ~Live(bound)'
  <2>1. ASSUME lock' = "force" PROVE ForceSettles \/ (lock = "force" /\ ~Prepare)
    <3>1. Start => lock' # "force" /\ TRUE
      BY StartSteps DEF StMoves, Shape, LockInv
    <3>2. Tick => lock = "force"
      BY <2>1, TickSteps DEF TkMoves, Shape
    <3>3. Recover => lock = "force"
      BY <2>1, RecoverSteps DEF Shape
    <3>4. Retire => ForceSettles
      BY <2>1, RetireSteps
    <3>5. World \/ UNCHANGED vars => lock = "force"
      BY <2>1, WorldSteps DEF vars
    <3>6. Prepare => lock' = "start"
      BY PrepareHosts
    <3> QED
      BY <2>1, <3>1, <3>2, <3>3, <3>4, <3>5, <3>6 DEF Next
  <2>2. ForceSettles => ~Live(bound) /\ UNCHANGED <<host, bound>>
    BY <1>0 DEF ForceSettles, LiveAnswers
  <2>3. ASSUME lock = "force", lock' = "force", ~Prepare PROVE ~Live(bound)'
    <3>1. ~Live(bound)
      BY <2>3 DEF SlotInv
    <3>2. UNCHANGED <<host, bound>> \/ \E s \in Session : Dying(s) /\ bound' = bound
      BY <1>0, <2>3, HostSteps
    <3> QED
      BY <1>0, <3>1, <3>2 DEF Live, Dying
  <2> QED
    BY <2>1, <2>2, <2>3 DEF Live
<1> QED
  BY <1>1, <1>2, <1>3, <1>4 DEF SlotInv

(* An attempt that is over stays over.                                     *)
LEMMA OverStays ==
  ASSUME WorkLaneAssumption, Shape, WordInv, SlotInv, [Next]_vars, NEW a \in Used, Over(a)
  PROVE  Over(a)'
<1>0. a \in Attempt /\ ~reindex
  BY DEF Used, SlotInv
<1>1. CASE prompt[a] = "over"
  <2>1. ~(st.pc = "attach" /\ st.a = a) /\ ~busy[a]
    BY <1>0, <1>1 DEF Shape, StartInv, WordInv
  <2>2. prompt'[a] = "over"
    BY <1>0, <1>1, <2>1, PromptSteps DEF PromptMoves
  <2> QED
    BY <2>2 DEF Over
<1>2. CASE prompt[a] # "over"
  <2>1. /\ prompt[a] \notin {"sent", "running"}
        /\ (st.pc \in {"attach", "send"} /\ st.a = a) => ~Live(att[a].sess)
    BY <1>2 DEF Over
  <2>2. st.pc = "attach" /\ st.a = a => att[a].sess = bound
    BY <1>0 DEF Shape, StartInv, OpenInv
  <2>3. prompt'[a] \notin {"sent", "running"}
    BY <1>0, <2>1, <2>2, PromptSteps DEF PromptMoves
  <2>4. ASSUME st'.pc \in {"attach", "send"}, st'.a = a PROVE ~Live(att[a].sess)'
    <3>1. ~Prepare
      <4>1. Prepare => st'.a = st.a /\ st.a \notin Used
        BY PrepareStep, PreparesMoves DEF Shape, StartInv, Prepares
      <4> QED
        BY <2>4, <4>1
    <3>2. st.pc \in {"attach", "send"} /\ st.a = a
      <4>1. StMoves \/ UNCHANGED st \/ st'.pc = "idle"
        BY StartSteps, TickSteps, RecoverSteps, RetireSteps, WorldSteps DEF Next, vars, proc, Shape
      <4> QED
        BY <2>4, <3>1, <4>1 DEF StMoves
    <3>3. att'[a].sess = att[a].sess
      BY <1>0, <3>1, RowStep DEF Shape, Written, Closes, Prepares, Rewrites
    <3>4. host' = host \/ \E s \in Session : Dying(s)
      BY <1>0, <3>1, HostSteps
    <3>5. host \in [Session -> {"none", "live", "dead"}]
      BY DEF Shape, Types, Outside
    <3> QED
      BY <2>1, <3>2, <3>3, <3>4, <3>5 DEF Live, Dying
  <2> QED
    BY <2>3, <2>4 DEF Over
<1> QED
  BY <1>1, <1>2

-----------------------------------------------------------------------------
(* What lets the lane continue is recorded only when the turn is over.     *)
CasConcludes(b, snap, new) ==
  att[b] = snap => (Concluded(new) => Concluded(snap) \/ Over(b))

LEMMA CasFinds ==
  ASSUME Rows, NEW b \in Attempt, NEW snap, NEW new, Cas(b, snap, new), CasConcludes(b, snap, new),
         NEW a \in Attempt, Concluded(att'[a])
  PROVE  Concluded(att[a]) \/ Over(a)
<1>1. CASE att[b] = snap /\ Open(b)
  <2>1. att' = [att EXCEPT ![b] = new]
    BY <1>1 DEF Cas
  <2> QED
    BY <2>1, <1>1 DEF Rows, CasConcludes
<1>2. CASE ~(att[b] = snap /\ Open(b))
  BY <1>2 DEF Cas
<1> QED
  BY <1>1, <1>2

LEMMA PutFinds ==
  ASSUME Rows, NEW b \in Attempt, NEW new, att' = [att EXCEPT ![b] = new],
         Concluded(new) => Concluded(att[b]) \/ Over(b),
         NEW a \in Attempt, Concluded(att'[a])
  PROVE  Concluded(att[a]) \/ Over(a)
BY DEF Rows

LEMMA ConcludedOf ==
  ASSUME NEW row \in RowType, NEW t, NEW o, NEW e
  PROVE  /\ t \notin {"end_turn", "host_lost"} =>
              /\ Concluded([row EXCEPT !.term = t]) => Concluded(row)
              /\ Concluded([row EXCEPT !.phase = o, !.term = t]) => Concluded(row)
              /\ Concluded([row EXCEPT !.term = t, !.out = o]) => Concluded(row)
         /\ Concluded([row EXCEPT !.phase = o, !.term = row.term]) => Concluded(row)
         /\ Concluded([row EXCEPT !.phase = o]) => Concluded(row)
         /\ Concluded([row EXCEPT !.out = o]) => Concluded(row)
         /\ Concluded([row EXCEPT !.reads = o]) => Concluded(row)
         /\ Concluded([row EXCEPT !.out = o, !.term = row.term]) => Concluded(row)
         /\ Concluded([row EXCEPT !.term = row.term, !.out = o]) => Concluded(row)
         /\ Concluded([row EXCEPT !.st = "settled", !.end = e]) =>
              Concluded(row) \/ e \in {"completed", "attempt_ended"}
BY DEF RowType, Concluded

LEMMA NotedConcludes ==
  ASSUME NEW row \in RowType, NEW said, NEW reason \in Reasons \cup {"none"},
         reason \notin {"end_turn", "host_lost"}
  PROVE  Concluded(Noted(row, said, reason)) => Concluded(row)
BY NotedFacts DEF Concluded

(* An outcome that settles to an end the lane may continue from.           *)
LEMMA SettleableEnds ==
  ASSUME NEW row \in RowType, Settleable(row), EndState(row.term) \in {"completed", "attempt_ended"}
  PROVE  Concluded(row)
<1>1. row.term \in Reasons
  BY DEF Settleable, RowType
<1>2. row.term \in {"end_turn", "host_lost", "prompt_deadline_exceeded"}
  BY <1>1, EndStateFacts
<1> QED
  BY <1>2 DEF Settleable, Unresolved, Concluded

LEMMA ConcludeSteps ==
  ASSUME WorkLaneAssumption, Shape, WordInv, SlotInv, EndInv, [Next]_vars,
         NEW a \in Attempt, Concluded(att'[a])
  PROVE  Concluded(att[a]) \/ Over(a)
<1> USE DEF Shape
<1> DEFINE A == st.a
           T == tk.a
           R == rc.a
           Goal == Concluded(att[a]) \/ Over(a)
<1>0. Rows /\ (\A b \in Attempt : att[b] \in RowType) /\ ~reindex
  BY DEF Types, Rows, SlotInv
<1>a. st.pc \in {"attach", "send", "asked"} => A \in Attempt
  BY DEF StartInv
<1>t. tk.pc # "idle" => T \in Attempt /\ tk.said \in Answers
  BY DEF PassInv, Used, Types, Passes, TkType, ProcType
<1>r. rc.pc # "idle" => R \in Attempt /\ rc.said \in Answers
  BY DEF PassInv, Used, Types, Passes, RcType, ProcType
<1>s. att' = att => Goal
  OBVIOUS
<1>n. \A said \in Answers : /\ Reason(said) \in Reasons \cup {"none"} /\ Reason(said) # "host_lost"
                            /\ Reason(said) = "end_turn" <=> said = "ok"
  BY ReasonFacts DEF LocalReasons
<1>o. {"host_lost", "session_dead", "session_disowned", "recovery_indeterminate"} \subseteq Reasons
  BY DEF Reasons
<1>p. ASSUME NEW b \in Attempt, prompt[b] = "over" PROVE Over(b)
  BY <1>p DEF Over
<1> HIDE DEF Goal
<1>1. CASE FenceOrSend
  <2>1. att' = att \/ att' = [att EXCEPT ![A] = [att[A] EXCEPT !.term = "send_rejected"]]
    BY <1>1 DEF FenceOrSend
  <2>2. A \in Attempt
    BY <1>1, <1>a DEF FenceOrSend
  <2>3. Concluded([att[A] EXCEPT !.term = "send_rejected"]) => Concluded(att[A])
    BY <2>2, <1>0, ConcludedOf
  <2> QED
    BY <2>1, <2>2, <2>3, <1>0, <1>s, PutFinds DEF Goal
<1>2. CASE SendResolved
  <2>1. \/ att' = att
        \/ Cas(A, st.snap, [st.snap EXCEPT !.phase = "accepted"])
        \/ Cas(A, st.snap, [st.snap EXCEPT !.phase = "uncertain"])
    BY <1>2 DEF SendResolved
  <2>2. A \in Attempt /\ (att[A] = st.snap => st.snap \in RowType)
    BY <1>2, <1>a, <1>0 DEF SendResolved
  <2>3. CasConcludes(A, st.snap, [st.snap EXCEPT !.phase = "accepted"])
        /\ CasConcludes(A, st.snap, [st.snap EXCEPT !.phase = "uncertain"])
    BY <2>2, ConcludedOf DEF CasConcludes
  <2> QED
    BY <2>1, <2>2, <2>3, <1>0, <1>s, CasFinds DEF Goal
<1>3. CASE TickApplies
  <2>1. T \in Attempt /\ tk.said \in Answers /\ (att[T] = tk.snap => tk.snap \in RowType) /\ tk.pc # "idle"
    BY <1>3, <1>t, <1>0 DEF TickApplies
  <2>2. \/ att' = att
        \/ tk.said = "gone" /\ Cas(T, tk.snap, Noted(tk.snap, tk.said, "host_lost"))
        \/ Cas(T, tk.snap, Noted(tk.snap, tk.said, Reason(tk.said)))
    BY <1>3 DEF TickApplies
  <2>3. tk.said = "gone" => CasConcludes(T, tk.snap, Noted(tk.snap, tk.said, "host_lost"))
    BY <2>1 DEF CasConcludes, EndInv, TickSure
  <2>4. CasConcludes(T, tk.snap, Noted(tk.snap, tk.said, Reason(tk.said)))
    <3>1. CASE tk.said = "ok"
      BY <2>1, <3>1, <1>p DEF CasConcludes, EndInv, TickSure
    <3>2. CASE tk.said # "ok"
      BY <2>1, <3>2, <1>n, NotedConcludes DEF CasConcludes
    <3> QED
      BY <3>1, <3>2
  <2> QED
    BY <2>1, <2>2, <2>3, <2>4, <1>0, <1>s, CasFinds DEF Goal
<1>4. CASE DeadProof
  <2> DEFINE noted == Noted(tk.snap, tk.said, Reason(tk.said))
  <2>1. T \in Attempt /\ Over(T) /\ tk.said \in {"deadline", "missing"}
    BY <1>4, <1>t, GoneIsOver DEF DeadProof, EndInv, TickSure
  <2>2. \/ att' = att
        \/ Cas(T, tk.snap, [noted EXCEPT !.turnEnd = TRUE, !.out = "unavailable"])
        \/ Cas(T, tk.snap, [noted EXCEPT !.turnEnd = TRUE, !.out = noted.out])
        \/ Cas(T, tk.snap, Noted(tk.snap, tk.said, "session_dead"))
    BY <1>4 DEF DeadProof
  <2>3. \A new : CasConcludes(T, tk.snap, new)
    BY <2>1 DEF CasConcludes
  <2> QED
    BY <2>1, <2>2, <2>3, <1>0, <1>s, CasFinds DEF Goal
<1>5. CASE RecoverApplies
  <2>1. R \in Attempt /\ rc.said \in Answers /\ (att[R] = rc.snap => rc.snap \in RowType) /\ rc.pc # "idle"
    BY <1>5, <1>r, <1>0 DEF RecoverApplies
  <2>2. att' = att \/ Cas(R, rc.snap, Noted(rc.snap, rc.said, Reason(rc.said)))
    BY <1>5 DEF RecoverApplies
  <2>3. CasConcludes(R, rc.snap, Noted(rc.snap, rc.said, Reason(rc.said)))
    <3>1. CASE rc.said = "ok"
      BY <2>1, <3>1, <1>p DEF CasConcludes, EndInv, TickSure
    <3>2. CASE rc.said # "ok"
      BY <2>1, <3>2, <1>n, NotedConcludes DEF CasConcludes
    <3> QED
      BY <3>1, <3>2
  <2> QED
    BY <2>1, <2>2, <2>3, <1>0, <1>s, CasFinds DEF Goal
<1>6. CASE RecoverRefusal
  <2>1. R \in Attempt
    BY <1>6, <1>r DEF RecoverRefusal
  <2>2. att' = att \/ att' = [att EXCEPT ![R] = [att[R] EXCEPT !.term = "send_rejected"]]
    BY <1>6 DEF RecoverRefusal
  <2>3. Concluded([att[R] EXCEPT !.term = "send_rejected"]) => Concluded(att[R])
    BY <2>1, <1>0, ConcludedOf
  <2> QED
    BY <2>1, <2>2, <2>3, <1>0, <1>s, PutFinds DEF Goal
<1>7. ASSUME NEW said \in {"accepted", "rejected", "error"}, SendReturns(said) PROVE Goal
  <2>1. A \in Attempt
    BY <1>7, <1>a DEF SendReturns
  <2>2. \/ att' = att
        \/ att' = [att EXCEPT ![A] = [att[A] EXCEPT !.phase = "accepted"]]
        \/ att' = [att EXCEPT ![A] = [att[A] EXCEPT !.phase = "uncertain", !.term = "send_rejected"]]
        \/ att' = [att EXCEPT ![A] = [att[A] EXCEPT !.phase = "uncertain", !.term = att[A].term]]
        \/ att' = [att EXCEPT ![A] = [att[A] EXCEPT !.phase = att[A].phase]]
    BY <1>7, <2>1 DEF SendReturns
  <2>3. /\ Concluded([att[A] EXCEPT !.phase = "accepted"]) => Concluded(att[A])
        /\ Concluded([att[A] EXCEPT !.phase = "uncertain", !.term = "send_rejected"]) => Concluded(att[A])
        /\ Concluded([att[A] EXCEPT !.phase = "uncertain", !.term = att[A].term]) => Concluded(att[A])
        /\ Concluded([att[A] EXCEPT !.phase = att[A].phase]) => Concluded(att[A])
    BY <2>1, <1>0, ConcludedOf
  <2> QED
    BY <2>1, <2>2, <2>3, <1>0, <1>s, PutFinds DEF Goal
<1>8. ASSUME NEW idle \in BOOLEAN, IdleProof(idle) PROVE Goal
  <2> DEFINE noted == Noted(tk.snap, tk.said, Reason(tk.said))
  <2>1. T \in Attempt /\ tk.said \in {"deadline", "missing"} /\ prompt[T] \in {"running", "over"}
    BY <1>8, <1>t DEF IdleProof, EndInv, TickSure
  <2>2. att' = att \/ (idle /\ Cas(T, tk.snap, [noted EXCEPT !.turnEnd = TRUE]))
    BY <1>8 DEF IdleProof
  <2>3. idle => Over(T)
    BY <1>8, <2>1, <1>p DEF IdleProof, Running
  <2>4. idle => \A new : CasConcludes(T, tk.snap, new)
    BY <2>3 DEF CasConcludes
  <2> QED
    BY <2>1, <2>2, <2>4, <1>0, <1>s, CasFinds DEF Goal
<1>9. ASSUME NEW b \in Attempt, FrameEnds(b) PROVE Goal
  <2>1. att' = [att EXCEPT ![b] = [att[b] EXCEPT !.turnEnd = TRUE]] /\ Over(b)
    BY <1>9, <1>p DEF FrameEnds
  <2> QED
    BY <2>1, <1>0, PutFinds DEF Goal
<1>10. ASSUME NEW b \in Attempt, ReadClaims(b) PROVE Goal
  <2>1. \/ att' = [att EXCEPT ![b] = [att[b] EXCEPT !.out = "unavailable"]]
        \/ att' = [att EXCEPT ![b] = [att[b] EXCEPT !.reads = att[b].reads + 1]]
    BY <1>10 DEF ReadClaims
  <2>2. /\ Concluded([att[b] EXCEPT !.out = "unavailable"]) => Concluded(att[b])
        /\ Concluded([att[b] EXCEPT !.reads = att[b].reads + 1]) => Concluded(att[b])
    BY <1>0, ConcludedOf
  <2> QED
    BY <2>1, <2>2, <1>0, PutFinds DEF Goal
<1>11. ASSUME NEW found \in {"available", "silent", "unavailable", "absent"}, ReadReturns(found) PROVE Goal
  <2>1. T \in Attempt /\ (att[T] = tk.snap => tk.snap \in RowType)
    BY <1>11, <1>t, <1>0 DEF ReadReturns
  <2>2. \/ att' = att
        \/ /\ Cas(T, tk.snap, [tk.snap EXCEPT !.out = found, !.term = "end_turn"])
           /\ word[T] = "ok"
        \/ Cas(T, tk.snap, [tk.snap EXCEPT !.out = found, !.term = tk.snap.term])
        \/ Cas(T, tk.snap, [tk.snap EXCEPT !.out = "unavailable"])
    BY <1>11 DEF ReadReturns, Unresolved
  <2>3. word[T] = "ok" => CasConcludes(T, tk.snap, [tk.snap EXCEPT !.out = found, !.term = "end_turn"])
    BY <2>1, <1>p DEF WordInv, CasConcludes
  <2>4. /\ CasConcludes(T, tk.snap, [tk.snap EXCEPT !.out = found, !.term = tk.snap.term])
        /\ CasConcludes(T, tk.snap, [tk.snap EXCEPT !.out = "unavailable"])
    BY <2>1, ConcludedOf DEF CasConcludes
  <2> QED
    BY <2>1, <2>2, <2>3, <2>4, <1>0, <1>s, CasFinds DEF Goal
<1>12. ASSUME NEW live \in {"live", "dead", "disowned", "unknown"}, RecoverDecides(live) PROVE Goal
  <2>1. R \in Attempt /\ (att[R] = rc.snap => rc.snap \in RowType) /\ live \in LiveAnswers(att[R].sess)
    BY <1>12, <1>r, <1>0 DEF RecoverDecides
  <2>2. \/ att' = att
        \/ /\ live \in {"dead", "disowned"}
           /\ Cas(R, rc.snap, Noted(rc.snap, "none", "host_lost"))
        \/ \E reason \in {"session_disowned", "session_dead", "recovery_indeterminate"} :
             Cas(R, rc.snap, Noted(rc.snap, "none", reason))
    BY <1>12 DEF RecoverDecides
  <2>3. live \in {"dead", "disowned"} => Over(R)
    BY <2>1, <1>0, GoneIsOver DEF LiveAnswers
  <2>4. live \in {"dead", "disowned"} => CasConcludes(R, rc.snap, Noted(rc.snap, "none", "host_lost"))
    BY <2>3 DEF CasConcludes
  <2>5. ASSUME NEW reason \in {"session_disowned", "session_dead", "recovery_indeterminate"}
        PROVE  CasConcludes(R, rc.snap, Noted(rc.snap, "none", reason))
    BY <2>1, <1>o, NotedConcludes DEF CasConcludes
  <2> QED
    BY <2>1, <2>2, <2>4, <2>5, <1>0, <1>s, CasFinds DEF Goal
<1>13. CASE Prepare
  <2>1. Prepares
    BY <1>13, PrepareStep
  <2>2. a # st.a
    BY <2>1 DEF Prepares, Concluded
  <2> QED
    BY <2>1, <2>2 DEF Prepares, Goal
<1>14. ASSUME NEW b \in Attempt, NEW row \in RowType, NEW e, Settled(b, row, e),
              Concluded(row) \/ e \in {"completed", "attempt_ended"} => Concluded(att[b]) \/ Over(b)
       PROVE  Goal
  <2>1. att' = [att EXCEPT ![b] = [row EXCEPT !.st = "settled", !.end = e]]
    BY <1>14 DEF Settled
  <2>2. Concluded([row EXCEPT !.st = "settled", !.end = e]) => Concluded(row) \/ e \in {"completed", "attempt_ended"}
    BY ConcludedOf
  <2> QED
    BY <2>1, <2>2, <1>14, <1>0, PutFinds DEF Goal
<1>15. CASE SettleCommits
  <2>1. att' = att \/ (Settled(T, att[T], EndState(att[T].term)) /\ Settleable(att[T]))
    BY <1>15 DEF SettleCommits, Unsettled, EndInv, TickSure
  <2>2. T \in Attempt
    BY <1>15, <1>t DEF SettleCommits
  <2>3. Settleable(att[T]) /\ EndState(att[T].term) \in {"completed", "attempt_ended"} => Concluded(att[T])
    BY <2>2, <1>0, SettleableEnds
  <2>4. Settled(T, att[T], EndState(att[T].term)) /\ Settleable(att[T]) => Goal
    BY <2>2, <2>3, <1>0, <1>14
  <2> QED
    BY <2>1, <2>4, <1>s DEF Goal
<1>16. CASE ForceSettles
  <2>1. ~Live(bound)
    BY <1>16, <1>0 DEF ForceSettles, LiveAnswers
  <2>2. \A b \in Attempt : Open(b) => Over(b)
    BY <2>1, GoneIsOver DEF OpenInv
  <2>3. \/ att' = att
        \/ \E b \in Attempt : \E t \in {att[b].term, "session_dead"}, o \in {att[b].out, "unavailable"} : \E e :
             Open(b) /\ Settled(b, [att[b] EXCEPT !.term = t, !.out = o], e)
    BY <1>16 DEF ForceSettles
  <2>4. ASSUME NEW b \in Attempt, NEW t \in {att[b].term, "session_dead"}, NEW o \in {att[b].out, "unavailable"}
        PROVE  [att[b] EXCEPT !.term = t, !.out = o] \in RowType
    <3>1. t \in Reasons \cup {"none"} /\ o \in Outs
      BY <1>0 DEF RowType, Reasons, Outs
    <3> QED
      BY <1>0, <3>1 DEF RowType
  <2>5. ASSUME NEW b \in Attempt, NEW t \in {att[b].term, "session_dead"}, NEW o \in {att[b].out, "unavailable"},
               NEW e, Open(b), Settled(b, [att[b] EXCEPT !.term = t, !.out = o], e)
        PROVE  Goal
    <3>1. Over(b)
      BY <2>2, <2>5
    <3> DEFINE row == [att[b] EXCEPT !.term = t, !.out = o]
    <3>2. row \in RowType
      BY <2>4
    <3>3. Settled(b, row, e)
      BY <2>5
    <3> HIDE DEF row
    <3> QED
      BY <3>1, <3>2, <3>3, <1>14
  <2> QED
    BY <2>3, <2>5, <1>s DEF Goal
<1>17. UNCHANGED vars => att' = att
  BY DEF vars, durable
<1> QED
  BY <1>1, <1>2, <1>3, <1>4, <1>5, <1>6, <1>7, <1>8, <1>9, <1>10, <1>11, <1>12, <1>13, <1>15, <1>16, <1>17, <1>s, RowFrame DEF Goal

LEMMA EndStep ==
  ASSUME WorkLaneAssumption, Shape, WordInv, SlotInv, EndInv, [Next]_vars PROVE EndInv'
<1> USE DEF durable, world, proc
<1>0. ~reindex /\ (\A a \in Attempt : att[a] \in RowType) /\ Shape
  BY DEF Shape, Types, Rows, SlotInv
<1>1. ASSUME NEW a \in Attempt, Concluded(att'[a]) PROVE Over(a)'
  <2>1. Over(a)
    BY <1>1, ConcludeSteps DEF EndInv
  <2>2. CASE a \in Used
    BY <2>1, <2>2, OverStays
  <2>3. CASE a \notin Used
    <3>1. Row \in RowType /\ ~Concluded(Row)
      BY NullTypes DEF Concluded, Row
    <3>2. att[a] = Row /\ ~Open(a)
      BY <2>3 DEF Shape, FreshInv, Used, Open
    <3>3. Prepares /\ a = st.a
      BY <1>1, <3>1, <3>2, RowStep DEF Shape, Written, Closes, Prepares
    <3> QED
      BY <1>1, <3>3 DEF Prepares, Concluded
  <2> QED
    BY <2>2, <2>3
<1>2. ASSUME NEW a \in Used, prompt[a] = "over" PROVE prompt'[a] = "over"
  <2>1. a \in Attempt /\ ~(st.pc = "attach" /\ st.a = a) /\ ~busy[a]
    BY <1>2 DEF Shape, StartInv, WordInv, Used
  <2> QED
    BY <1>2, <2>1, PromptSteps DEF PromptMoves
<1>3. ASSUME NEW a \in Used, prompt[a] \in {"running", "over"} PROVE prompt'[a] \in {"running", "over"}
  <2>1. a \in Attempt /\ ~(st.pc = "attach" /\ st.a = a) /\ ~busy[a]
    BY <1>3 DEF Shape, StartInv, WordInv, Used
  <2> QED
    BY <1>3, <2>1, PromptSteps DEF PromptMoves
<1>4. ASSUME NEW a \in Attempt, NEW said \in StatusAnswers(a)
      PROVE  /\ said = "ok" => prompt[a] = "over"
             /\ said \in {"deadline", "missing"} => prompt[a] \in {"running", "over"}
             /\ said = "gone" => Over(a)
  <2>1. /\ said = "ok" => word[a] = "ok"
        /\ said \in {"deadline", "missing"} => word[a] = said
        /\ said = "gone" => ~Live(att[a].sess)
    BY <1>0, StatusFacts DEF Shape
  <2> QED
    BY <2>1, GoneIsOver DEF WordInv
<1>5. ASSUME NEW b \in Used, Over(b), tk'.a = b PROVE Over(tk.a)'
  <2>1. Over(b)'
    BY <1>5, OverStays
  <2> QED
    BY <2>1, <1>5 DEF Over
<1>6. TickSure'
  <2>1. ASSUME tk'.pc = "idle" PROVE TickSure'
    BY <2>1 DEF TickSure
  <2>2. ASSUME tk.pc # "idle", tk'.a = tk.a, tk'.said = tk.said, tk'.pc \notin {"facts", "settle"},
               tk'.pc = "proof" => tk.said \in {"deadline", "missing"}
        PROVE  TickSure'
    <3>1. tk.a \in Used /\ TickSure
      BY <2>2 DEF Shape, PassInv, EndInv
    <3>2. tk.said = "gone" => Over(tk.a)'
      BY <2>2, <3>1, <1>5 DEF TickSure
    <3> QED
      BY <2>2, <3>1, <3>2, <1>2, <1>3 DEF TickSure
  <2>3. ASSUME tk'.said = "none", tk'.pc # "proof", Settleable(tk'.snap) \/ tk'.pc \notin {"facts", "settle"}
        PROVE  TickSure'
    BY <2>3 DEF TickSure, Settleable
  <2>4. ASSUME tk.pc # "idle", tk'.a = tk.a, tk'.said = tk.said, tk'.snap = tk.snap,
               tk'.pc \in {"facts", "settle"} => tk.pc \in {"facts", "settle"},
               tk'.pc = "proof" => tk.pc = "proof"
        PROVE  TickSure'
    <3>1. tk.a \in Used /\ TickSure
      BY <2>4 DEF Shape, PassInv, EndInv
    <3>2. tk.said = "gone" => Over(tk.a)'
      BY <2>4, <3>1, <1>5 DEF TickSure
    <3> QED
      BY <2>4, <3>1, <3>2, <1>2, <1>3 DEF TickSure, Settleable
  <2>5. UNCHANGED tk => TickSure'
    BY <2>1, <2>4
  <2>6. ASSUME NEW a \in Attempt, NEW said \in StatusAnswers(a), TickAsks(a, said) PROVE TickSure'
    <3>1. /\ tk' = [pc |-> "asked", a |-> a, said |-> said, snap |-> att[a]]
          /\ a \in Used /\ UNCHANGED prompt
      BY <2>6 DEF TickAsks, Ticks, Open, Used
    <3>2. said = "gone" => Over(tk.a)'
      BY <3>1, <1>4, <1>5
    <3> QED
      BY <2>6, <3>1, <3>2, <1>4 DEF TickSure
  <2>7. TickApplies => TickSure'
    <3>1. tk \in TkType
      BY DEF Shape, Types, Passes
    <3>2. TickApplies => tk' = Idle \/ (/\ tk' = [tk EXCEPT !.pc = "proof"] /\ tk.pc = "asked" /\ Unresolved(Reason(tk.said)))
      BY DEF TickApplies, TickStops
    <3>3. tk.pc = "asked" /\ Unresolved(Reason(tk.said)) => tk.said \in {"deadline", "missing"}
      BY <3>1, ReasonFacts DEF TkType, ProcType
    <3> QED
      BY <3>1, <3>2, <3>3, <2>1, <2>2 DEF Idle, TkType, ProcType
  <2>8. SettleEnters => TickSure'
    <3>1. tk \in TkType
      BY DEF Shape, Types, Passes
    <3>2. SettleEnters => tk.pc = "facts" /\ (tk' = Idle \/ tk' = [tk EXCEPT !.pc = "settle"])
      BY DEF SettleEnters, TickStops
    <3> QED
      BY <3>1, <3>2, <2>1, <2>4 DEF Idle, TkType, ProcType
  <2>9. ASSUME NEW a \in Attempt, ReadClaims(a) PROVE TickSure'
    <3>1. tk' = Idle \/ tk' = [pc |-> "read", a |-> a, said |-> "none", snap |-> att'[a]]
      BY <2>9 DEF ReadClaims, TickStops
    <3> QED
      BY <3>1, <2>1, <2>3 DEF Idle
  <2>10. ASSUME NEW a \in Attempt, SettleBegins(a) PROVE TickSure'
    <3>1. tk' = [pc |-> "facts", a |-> a, said |-> "none", snap |-> att[a]] /\ Settleable(att[a])
      BY <2>10 DEF SettleBegins
    <3> QED
      BY <3>1, <2>3
  <2>11. ASSUME NEW a \in Attempt, FrameEnds(a) PROVE TickSure'
    BY <2>11, <2>5 DEF FrameEnds
  <2>12. DeadProof \/ SettleCommits \/ (\E idle \in BOOLEAN : IdleProof(idle))
         \/ (\E found \in {"available", "silent", "unavailable", "absent"} : ReadReturns(found)) => TickSure'
    BY <2>1 DEF DeadProof, SettleCommits, IdleProof, ReadReturns, TickStops, Idle
  <2>13. Tick => TickSure'
    BY <2>6, <2>7, <2>8, <2>9, <2>10, <2>11, <2>12 DEF Tick
  <2> QED
    BY <2>1, <2>5, <2>13, <1>0, StartSteps, RecoverSteps, RetireSteps, WorldSteps DEF Next, vars, Shape
<1>7. rc'.pc # "idle" => (rc'.said = "ok" => prompt'[rc'.a] = "over")
  <2>1. ASSUME UNCHANGED rc, rc.pc # "idle", rc.said = "ok" PROVE prompt'[rc.a] = "over"
    BY <2>1, <1>2 DEF Shape, PassInv, EndInv
  <2>2. ASSUME NEW a \in Attempt, RecoverAsks(a), rc'.pc # "idle", rc'.said = "ok" PROVE prompt'[rc'.a] = "over"
    <3>1. UNCHANGED prompt /\ (rc' = Idle \/ \E said \in StatusAnswers(a) :
                                               rc' = [pc |-> "asked", a |-> a, said |-> said, snap |-> att[a]])
      BY <2>2 DEF RecoverAsks
    <3> QED
      BY <2>2, <3>1, <1>4 DEF Idle
  <2>3. ASSUME RecoverApplies \/ RecoverRefusal, rc'.pc # "idle", rc'.said = "ok" PROVE prompt'[rc'.a] = "over"
    <3>1. rc.pc # "idle" /\ rc' \in {Idle, [rc EXCEPT !.pc = "refusal"], [rc EXCEPT !.pc = "live"]} /\ UNCHANGED prompt
      BY <2>3 DEF RecoverApplies, RecoverRefusal
    <3>2. rc'.a = rc.a /\ rc'.said = rc.said
      BY <2>3, <3>1 DEF Idle, Shape, Types, Passes, RcType, ProcType
    <3> QED
      BY <2>3, <3>1, <3>2 DEF EndInv
  <2>4. (\E live \in {"live", "dead", "disowned", "unknown"} : RecoverDecides(live)) => rc'.pc = "idle"
    BY DEF RecoverDecides, Idle
  <2>5. Recover => (rc'.pc # "idle" => (rc'.said = "ok" => prompt'[rc'.a] = "over"))
    BY <2>2, <2>3, <2>4 DEF Recover
  <2> QED
    BY <2>1, <2>5, <1>0, StartSteps, TickSteps, RetireSteps, WorldSteps DEF Next, vars, Shape
<1> QED
  BY <1>1, <1>6, <1>7 DEF EndInv

-----------------------------------------------------------------------------
(* The inductive invariants hold initially, and so always.                 *)
LEMMA CoreInit ==
  ASSUME WorkLaneAssumption, Init PROVE Core
<1>1. Types
  <2>1. Rows /\ Observers /\ Passes
    BY NullTypes DEF Init, Rows, Observers, Passes
  <2>2. Binding
    BY DEF Init, Binding
  <2>3. host \in [Session -> {"none", "live", "dead"}] /\ reindex \in BOOLEAN /\ up \in BOOLEAN
    BY DEF Init
  <2>4. /\ prompt \in [Attempt -> {"unsent", "sent", "refused", "lost", "running", "over"}]
        /\ word \in [Attempt -> {"none", "deadline", "missing", "ok", "failed"}]
        /\ busy \in [Attempt -> BOOLEAN]
    BY DEF Init
  <2>5. gen \in 0..MaxGen /\ crashes \in 0..MaxCrashes
    BY Consts DEF Init
  <2> QED
    BY <2>1, <2>2, <2>3, <2>4, <2>5 DEF Types, Outside
<1>2. LockInv /\ StartInv /\ PassInv
  BY DEF Init, LockInv, StartInv, PassInv, Idle
<1>3. \A a \in Attempt : att[a] = Row /\ ~Open(a) /\ a \notin Used /\ ~busy[a]
  BY DEF Init, Row, Open, Used
<1>4. FreshInv /\ OpenInv
  BY <1>3 DEF Init, FreshInv, OpenInv
<1>5. ToldInv /\ WordInv /\ RejectedInv
  BY <1>3 DEF Init, ToldInv, WordInv, RejectedInv, Row
<1> QED
  BY <1>1, <1>2, <1>4, <1>5 DEF Core

LEMMA CoreStep ==
  ASSUME WorkLaneAssumption, Core, [Next]_vars PROVE Core'
<1>1. Shape
  BY DEF Core, Shape
<1> QED
  BY <1>1, ShapeStep, ToldStep, WordStep, RejectedStep DEF Core, Shape

LEMMA QuietInit ==
  ASSUME WorkLaneAssumption, Init PROVE Quiet
<1>1. SlotInv
  BY DEF Init, SlotInv
<1>2. TickSure /\ ~Concluded(Row)
  BY DEF Init, TickSure, Idle, Concluded, Row
<1> QED
  BY <1>1, <1>2 DEF Init, Quiet, EndInv, Idle

LEMMA QuietStep ==
  ASSUME WorkLaneAssumption, ~Reindexing, Core, Quiet, [Next]_vars PROVE Quiet'
<1>1. Shape /\ WordInv
  BY DEF Core, Shape
<1> QED
  BY <1>1, SlotStep, EndStep DEF Quiet

THEOREM CoreAlways ==
  ASSUME WorkLaneAssumption PROVE Spec => []Core
BY CoreInit, CoreStep, PTL DEF Spec

THEOREM QuietAlways ==
  ASSUME WorkLaneAssumption, ~Reindexing PROVE Spec => []Quiet
BY CoreInit, CoreStep, QuietInit, QuietStep, PTL DEF Spec

-----------------------------------------------------------------------------
(* Every attempt of the lane has a row. *)
LEMMA Rowed == Core => DOMAIN att = Attempt
BY DEF Core, Types, Rows, RowType

(* WorkLane.#startLocked: at most one attempt is open, and the job says so. *)
THEOREM OneOpen ==
  ASSUME WorkLaneAssumption PROVE Spec => []OneOpenAttempt
<1> DEFINE S == {a \in Attempt : Open(a)}
<1>1. ASSUME Core PROVE Cardinality(S) <= 1
  <2>1. CASE S = {}
    BY <2>1, FS_EmptySet
  <2>2. ASSUME NEW a \in S PROVE Cardinality(S) <= 1
    <3>1. S = {a}
      BY <1>1, <2>2 DEF Core, OpenInv
    <3>2. Cardinality({a}) = 1
      BY FS_Singleton
    <3> QED
      BY <3>1, <3>2
  <2> QED
    BY <2>1, <2>2
<1>2. Core => ((job = "running") = (\E a \in Attempt : Open(a)))
  BY DEF Core, OpenInv
<1>3. Core => OneOpenAttempt
  BY <1>1, <1>2, Rowed DEF OneOpenAttempt
<1> QED
  BY <1>3, CoreAlways, PTL

(* WorkLane.#settleAttempt: an outcome reaches the parent at most once, and *)
(* only when the attempt is settled.                                       *)
THEOREM Told ==
  ASSUME WorkLaneAssumption PROVE Spec => []ToldOnce
<1>1. Core => ToldOnce
  BY Rowed DEF Core, Types, Binding, ToldInv, ToldOnce
<1> QED
  BY <1>1, CoreAlways, PTL

(* #startLocked and #recover: a send recorded as rejected was never taken by *)
(* a host, whoever recorded it.                                            *)
THEOREM Rejected ==
  ASSUME WorkLaneAssumption PROVE Spec => []RejectedNeverTaken
<1>1. Core => RejectedNeverTaken
  BY Rowed DEF Core, RejectedInv, RejectedNeverTaken
<1> QED
  BY <1>1, CoreAlways, PTL

(* LaneGovernor.#retire: with a router that never disowns a live host, no  *)
(* worker is left on the session of a slot that was freed.                 *)
THEOREM Freed ==
  ASSUME WorkLaneAssumption, ~Reindexing PROVE Spec => []FreedSlotsIdle
<1>1. Core /\ Quiet => FreedSlotsIdle
  BY Rowed DEF Quiet, SlotInv, Live, FreedSlotsIdle
<1> QED
  BY <1>1, CoreAlways, QuietAlways, PTL

(* closeAttempt: with such a router, an attempt that leaves its lane free to *)
(* continue has no turn running and none that may still start.             *)
THEOREM Continues ==
  ASSUME WorkLaneAssumption, ~Reindexing PROVE Spec => []ContinuesOnlyWhenOver
<1>1. Core /\ Quiet => ContinuesOnlyWhenOver
  BY Rowed DEF Quiet, EndInv, Concluded, Over, ContinuesOnlyWhenOver
<1> QED
  BY <1>1, CoreAlways, QuietAlways, PTL

-----------------------------------------------------------------------------
(* The checks cycle. The argument: what a poll or a settlement read of the *)
(* pull request was true of the head it names, an attempt's head is never  *)
(* the head of someone else's push, and while a poll waits for the lock    *)
(* either its cycle still waits with it or it is another cycle by now.     *)
LEMMA Sizes ==
  /\ MaxHeads \in Nat /\ MaxHeads > 0 /\ MaxCycles \in Nat /\ MaxCycles > 0
  /\ RetryLimit \in Nat /\ MaxDeaths \in Nat
BY WorkChecksAssumption

Heads == 0..MaxHeads

USE Sizes DEF Head, Cycle, Heads

Lanes == {"attempt_ended", "running", "awaiting_operator", "awaiting_checks", "done"}
PrStates == {"none", "open", "closed", "merged"}
Rollups == {"none", "pending", "green", "red"}
CycleRec == [on : BOOLEAN, id : 0..MaxCycles, pr : BOOLEAN, head : Heads, retries : 0..RetryLimit]
SeenRec == [st : PrStates \cup {"unknown"}, head : Heads, ci : Rollups]
FactsRec == [git : BOOLEAN, local : Heads, known : BOOLEAN, remote : Heads, pr : SeenRec]

ChecksTypes ==
  /\ lane \in Lanes /\ cyc \in CycleRec /\ run \in {"none", "working", "completed", "other"}
  /\ made \in Head /\ local \in Head /\ remote \in Heads /\ pr \in [st : PrStates, head : Heads]
  /\ ci \in [Head -> Rollups] /\ good \subseteq Head /\ mine \in Heads /\ cycles \in 0..MaxCycles
  /\ steers \in [Cycle -> Nat] /\ reported \in [Cycle -> Nat]
  /\ poll \in [pc : {"idle", "git", "checks", "apply", "resteer"}, cyc : CycleRec, facts : FactsRec]
  /\ stl \in [pc : {"idle", "checks", "apply"}, facts : FactsRec]

(* The same, value by value.                                               *)
ChecksValues ==
  /\ made \in Head /\ local \in Head /\ mine \in Heads /\ pr.head \in Heads /\ remote \in Heads
  /\ cycles \in 0..MaxCycles
  /\ cyc.id \in 0..MaxCycles /\ cyc.head \in Heads /\ cyc.retries \in 0..RetryLimit /\ cyc.on \in BOOLEAN
  /\ poll.cyc.id \in 0..MaxCycles /\ poll.cyc.head \in Heads /\ poll.cyc.on \in BOOLEAN
  /\ stl.facts.local \in Heads /\ poll.facts.local \in Heads
  /\ \A c \in Cycle : steers[c] \in Nat /\ reported[c] \in Nat

(* The lane's state and its attempt agree; a settlement holds an attempt   *)
(* that is over, so nothing is committed or pushed by it meanwhile.        *)
LaneRuns ==
  /\ lane = "running" <=> run # "none"
  /\ lane = "awaiting_checks" => cyc.on
  /\ cyc.on => lane \in {"awaiting_checks", "running"}
  /\ stl.pc # "idle" => run \in {"completed", "other"}

(* Whatever names a head names one that was made: a new commit or push is  *)
(* on a head nobody has seen.                                              *)
HeadsMade ==
  /\ local <= made
  /\ (pr.st # "none" => pr.head \in 1..made)
  /\ (cyc.on => cyc.head <= made) /\ (poll.pc # "idle" => poll.cyc.head <= made)
  /\ stl.facts.known => stl.facts.git
  /\ (stl.pc = "idle" => ~stl.facts.git)
  /\ (stl.pc # "idle" => (stl.facts.local <= made /\ (stl.facts.git => stl.facts.local = local)))

GreenKnown ==
  /\ \A h \in Head : ci[h] = "green" => h \in good
  /\ pr.st = "merged" => pr.head \in good

(* A head the lane knows is the head of the PR only when the lane pushed it*)
(* last.                                                                   *)
OwnHead(h) == (pr.st # "none" /\ pr.head = h) => mine = h
OwnHeads ==
  /\ OwnHead(local)
  /\ cyc.on => OwnHead(cyc.head)
  /\ poll.pc # "idle" => OwnHead(poll.cyc.head)
  /\ stl.pc # "idle" /\ stl.facts.git => OwnHead(stl.facts.local)

(* What was read stays true: a green head was green, and a head that was   *)
(* the lane's own still is, as long as the cycle it was read for lasts.    *)
ReadTrue(f) == (f.pr.ci = "green" \/ f.pr.st = "merged") => f.pr.head \in good
FactsTrue ==
  /\ ReadTrue(stl.facts)
  /\ ReadTrue(poll.facts)
  /\ stl.facts.git /\ Seen(stl.facts) /\ stl.facts.pr.head = stl.facts.local => mine = stl.facts.local
  /\ cyc.on /\ cyc.id = poll.cyc.id /\ Seen(poll.facts) /\ poll.facts.pr.head = poll.cyc.head
       => mine = poll.cyc.head

(* Cycles are numbered; one that has not begun left no trace, and the one  *)
(* a poll works on waits for its checks as long as it lasts.               *)
CyclesKnown ==
  /\ cyc.on => cyc.id \in 1..cycles
  /\ \A c \in Cycle : c > cycles => steers[c] = 0 /\ reported[c] = 0
  /\ cyc.on => reported[cyc.id] = 0
  /\ poll.cyc.id <= cycles
  /\ poll.pc # "idle" /\ cyc.on /\ cyc.id = poll.cyc.id => lane = "awaiting_checks"
  /\ poll.pc = "resteer" => cyc.on /\ cyc.id = poll.cyc.id
  /\ poll.pc = "idle" => poll.cyc.id = 0

(* The retry of a re-steer is spent before it starts an attempt.           *)
Spent ==
  /\ ResteersBounded
  /\ cyc.on => steers[cyc.id] + (IF poll.pc = "resteer" THEN 1 ELSE 0) <= cyc.retries

ChecksInvariant ==
  /\ ChecksTypes /\ LaneRuns /\ HeadsMade /\ GreenKnown /\ OwnHeads /\ FactsTrue /\ CyclesKnown
  /\ Spent /\ GreenHead /\ ConcludedOnce

LEMMA ChecksTypedValues == ChecksTypes => ChecksValues
BY DEF ChecksTypes, ChecksValues, CycleRec, SeenRec, FactsRec

(* The blank records are of their types, and say nothing.                  *)
LEMMA Blanks ==
  /\ NoFacts \in FactsRec /\ NoFacts.pr \in SeenRec /\ NoCycle \in CycleRec
  /\ NoPoll = [pc |-> "idle", cyc |-> NoCycle, facts |-> NoFacts] /\ NoSettle = [pc |-> "idle", facts |-> NoFacts]
  /\ ~NoFacts.git /\ ~NoFacts.known /\ ~Seen(NoFacts) /\ NoFacts.local = 0
  /\ NoFacts.pr.st = "unknown" /\ NoFacts.pr.ci = "none"
  /\ ~NoCycle.on /\ NoCycle.id = 0 /\ NoCycle.head = 0 /\ NoCycle.retries = 0
BY DEF NoFacts, NoCycle, FactsRec, SeenRec, CycleRec, PrStates, Rollups, NoPoll, NoSettle, Seen

(* What git can answer about the worktree and the remote branch.           *)
LEMMA GitRead ==
  ASSUME ChecksInvariant, NEW f \in GitReads
  PROVE  /\ f \in FactsRec /\ f.local <= made /\ (f.git => f.local = local) /\ (f.known => f.git)
         /\ f.pr = NoFacts.pr
<1>1. local \in Head /\ remote \in Heads /\ made \in Head /\ local <= made
  BY DEF ChecksInvariant, ChecksTypes, HeadsMade
<1>2. CASE f = NoFacts
  BY <1>1, <1>2, Blanks
<1>3. CASE f = [NoFacts EXCEPT !.git = TRUE, !.local = local]
  <2>1. f = [git |-> TRUE, local |-> local, known |-> FALSE, remote |-> 0, pr |-> NoFacts.pr]
    BY <1>3 DEF NoFacts
  <2> QED
    BY <1>1, <2>1, Blanks DEF FactsRec
<1>4. CASE f = [NoFacts EXCEPT !.git = TRUE, !.local = local, !.known = TRUE, !.remote = remote]
  <2>1. f = [git |-> TRUE, local |-> local, known |-> TRUE, remote |-> remote, pr |-> NoFacts.pr]
    BY <1>4 DEF NoFacts
  <2> QED
    BY <1>1, <2>1, Blanks DEF FactsRec
<1> QED
  BY <1>2, <1>3, <1>4 DEF GitReads

(* What a lookup of the pull request can answer: the truth, or nothing.    *)
LEMMA CheckRead ==
  ASSUME ChecksInvariant, NEW known, NEW head, NEW s \in ChecksRead(known, head)
  PROVE  /\ s \in SeenRec /\ (s.ci = "green" \/ s.st = "merged" => s.head \in good)
         /\ (s.st \notin {"none", "unknown"} => pr.st # "none" /\ s.head = pr.head)
<1>1. /\ pr.st \in PrStates /\ pr.head \in Heads /\ (pr.st # "none" => pr.head \in Head /\ ci[pr.head] \in Rollups)
      /\ (pr.st = "merged" => pr.head \in good) /\ (pr.st # "none" /\ ci[pr.head] = "green" => pr.head \in good)
  BY DEF ChecksInvariant, ChecksTypes, HeadsMade, GreenKnown
<1> QED
  BY <1>1 DEF ChecksRead, NoFacts, SeenRec, PrStates, Rollups

(* The facts with the answer of that lookup.                               *)
LEMMA WithPr ==
  ASSUME NEW f \in FactsRec, NEW s \in SeenRec
  PROVE  /\ [f EXCEPT !.pr = s] \in FactsRec /\ [f EXCEPT !.pr = s].pr = s
         /\ [f EXCEPT !.pr = s].git = f.git /\ [f EXCEPT !.pr = s].local = f.local
         /\ [f EXCEPT !.pr = s].known = f.known
BY DEF FactsRec

(* The cycle a settlement leaves is the one that was there, or a new one.  *)
LEMMA NextCycle ==
  ASSUME ChecksInvariant, NEW f \in FactsRec, NEW c, c = CycleAfter(f), f.known => f.git
  PROVE  /\ c \in CycleRec
         /\ c.on => \/ cyc.on /\ c.id = cyc.id /\ c.retries = cyc.retries
                       /\ (c.head = cyc.head \/ (f.git /\ c.head = f.local))
                    \/ ~cyc.on /\ c.id = cycles + 1 /\ c.id \in Cycle /\ c.retries = 0 /\ f.git /\ c.head = f.local
<1>1. cyc \in CycleRec /\ cycles \in 0..MaxCycles /\ f.local \in Heads /\ f.git \in BOOLEAN
  BY DEF ChecksInvariant, ChecksTypes, FactsRec
<1>2. CASE cyc.on
  BY <1>1, <1>2 DEF CycleAfter, CycleRec, Pushed, Seen, NotPushed
<1>3. CASE ~cyc.on
  BY <1>1, <1>3, Blanks DEF CycleAfter, BeginsCycle, CycleRec, Seen
<1> QED
  BY <1>2, <1>3

(* A cycle passes on its own head only.                                    *)
LEMMA Passed ==
  ASSUME NEW c, NEW f, Outcome(c, f) = "passed"
  PROVE  f.pr.head = c.head /\ Seen(f) /\ (f.pr.ci = "green" \/ f.pr.st = "merged")
BY DEF Outcome, Verdict, TimeoutOrWait, Seen

(* The world: commits, pushes, checks and what people do to the PR.        *)
LEMMA CommitsKeeps ==
  ASSUME ChecksInvariant, Commits
  PROVE  ChecksInvariant'
<1>t. ChecksTypes /\ ChecksValues
  BY ChecksTypedValues DEF ChecksInvariant
<1>ChecksTypes. ChecksTypes'
  BY <1>t DEF ChecksTypes, Lanes, PrStates, Rollups, Commits, surroundings, history, runners
<1>v. ChecksValues'
  BY <1>ChecksTypes, ChecksTypedValues, PTL
<1>LaneRuns. LaneRuns'
  BY <1>t, <1>v DEF ChecksInvariant, ChecksValues, LaneRuns, Commits, surroundings, history, runners
<1>HeadsMade. HeadsMade'
  BY <1>t, <1>v
     DEF ChecksInvariant, ChecksValues, HeadsMade, LaneRuns, Commits, surroundings, history, runners
<1>GreenKnown. GreenKnown'
  BY <1>t, <1>v DEF ChecksInvariant, ChecksValues, GreenKnown, Commits, surroundings, history, runners
<1>OwnHeads. OwnHeads'
  BY <1>t, <1>v
     DEF ChecksInvariant, ChecksValues, OwnHeads, OwnHead, HeadsMade, LaneRuns, Commits, surroundings,
         history, runners
<1>FactsTrue. FactsTrue'
  BY <1>t, <1>v
     DEF ChecksInvariant, ChecksValues, FactsTrue, ReadTrue, Seen, GreenKnown, OwnHeads, OwnHead, LaneRuns,
         HeadsMade, CyclesKnown, Commits, surroundings, history, runners
<1>CyclesKnown. CyclesKnown'
  BY <1>t, <1>v
     DEF ChecksInvariant, ChecksValues, CyclesKnown, LaneRuns, Commits, surroundings, history, runners
<1>Spent. Spent'
  BY <1>t, <1>v
     DEF ChecksInvariant, ChecksValues, Spent, ResteersBounded, CyclesKnown, Commits, surroundings,
         history, runners
<1>GreenHead. GreenHead'
  BY <1>t, <1>v
     DEF ChecksInvariant, ChecksValues, GreenHead, FactsTrue, LaneRuns, ReadTrue, Commits, surroundings,
         history, runners
<1>ConcludedOnce. ConcludedOnce'
  BY <1>t, <1>v
     DEF ChecksInvariant, ChecksValues, ConcludedOnce, CyclesKnown, Commits, surroundings, history, runners
<1> QED
  BY <1>ChecksTypes, <1>LaneRuns, <1>HeadsMade, <1>GreenKnown, <1>OwnHeads,
     <1>FactsTrue, <1>CyclesKnown, <1>Spent, <1>GreenHead, <1>ConcludedOnce
     DEF ChecksInvariant

LEMMA PushesKeeps ==
  ASSUME ChecksInvariant, Pushes
  PROVE  ChecksInvariant'
<1>t. ChecksTypes /\ ChecksValues
  BY ChecksTypedValues DEF ChecksInvariant
<1>ChecksTypes. ChecksTypes'
  BY <1>t DEF ChecksTypes, Lanes, PrStates, Rollups, Pushes, surroundings, history, runners
<1>v. ChecksValues'
  BY <1>ChecksTypes, ChecksTypedValues, PTL
<1>LaneRuns. LaneRuns'
  BY <1>t, <1>v DEF ChecksInvariant, ChecksValues, LaneRuns, Pushes, surroundings, history, runners
<1>HeadsMade. HeadsMade'
  BY <1>t, <1>v
     DEF ChecksInvariant, ChecksValues, HeadsMade, LaneRuns, Pushes, surroundings, history, runners
<1>GreenKnown. GreenKnown'
  BY <1>t, <1>v DEF ChecksInvariant, ChecksValues, GreenKnown, Pushes, surroundings, history, runners
<1>OwnHeads. OwnHeads'
  BY <1>t, <1>v
     DEF ChecksInvariant, ChecksValues, OwnHeads, OwnHead, HeadsMade, LaneRuns, Pushes, surroundings,
         history, runners
<1>FactsTrue. FactsTrue'
  BY <1>t, <1>v
     DEF ChecksInvariant, ChecksValues, FactsTrue, ReadTrue, Seen, GreenKnown, OwnHeads, OwnHead, LaneRuns,
         HeadsMade, CyclesKnown, Pushes, surroundings, history, runners
<1>CyclesKnown. CyclesKnown'
  BY <1>t, <1>v
     DEF ChecksInvariant, ChecksValues, CyclesKnown, LaneRuns, Pushes, surroundings, history, runners
<1>Spent. Spent'
  BY <1>t, <1>v
     DEF ChecksInvariant, ChecksValues, Spent, ResteersBounded, CyclesKnown, Pushes, surroundings, history,
         runners
<1>GreenHead. GreenHead'
  BY <1>t, <1>v
     DEF ChecksInvariant, ChecksValues, GreenHead, FactsTrue, LaneRuns, ReadTrue, Pushes, surroundings,
         history, runners
<1>ConcludedOnce. ConcludedOnce'
  BY <1>t, <1>v
     DEF ChecksInvariant, ChecksValues, ConcludedOnce, CyclesKnown, Pushes, surroundings, history, runners
<1> QED
  BY <1>ChecksTypes, <1>LaneRuns, <1>HeadsMade, <1>GreenKnown, <1>OwnHeads,
     <1>FactsTrue, <1>CyclesKnown, <1>Spent, <1>GreenHead, <1>ConcludedOnce
     DEF ChecksInvariant

LEMMA OthersPushKeeps ==
  ASSUME ChecksInvariant, OthersPush
  PROVE  ChecksInvariant'
<1>t. ChecksTypes /\ ChecksValues
  BY ChecksTypedValues DEF ChecksInvariant
<1>ChecksTypes. ChecksTypes'
  <2>1. made' \in Head /\ remote' \in Heads /\ made + 1 \in Head
    BY <1>t DEF ChecksTypes, OthersPush
  <2>2. pr' \in [st : PrStates, head : Heads]
    BY <1>t, <2>1 DEF ChecksTypes, OthersPush
  <2>3. ci' \in [Head -> Rollups]
    BY <1>t, <2>1 DEF ChecksTypes, OthersPush, Rollups
  <2> QED
    BY <1>t, <2>1, <2>2, <2>3 DEF ChecksTypes, OthersPush, history, runners
<1>v. ChecksValues'
  BY <1>ChecksTypes, ChecksTypedValues, PTL
<1>LaneRuns. LaneRuns'
  BY <1>t, <1>v DEF ChecksInvariant, ChecksValues, LaneRuns, OthersPush, surroundings, history, runners
<1>HeadsMade. HeadsMade'
  BY <1>t, <1>v
     DEF ChecksInvariant, ChecksValues, HeadsMade, LaneRuns, OthersPush, surroundings, history, runners
<1>GreenKnown. GreenKnown'
  BY <1>t, <1>v DEF ChecksInvariant, ChecksValues, GreenKnown, OthersPush, surroundings, history, runners
<1>OwnHeads. OwnHeads'
  BY <1>t, <1>v
     DEF ChecksInvariant, ChecksValues, OwnHeads, OwnHead, HeadsMade, LaneRuns, OthersPush, surroundings,
         history, runners
<1>FactsTrue. FactsTrue'
  BY <1>t, <1>v
     DEF ChecksInvariant, ChecksValues, FactsTrue, ReadTrue, Seen, GreenKnown, OwnHeads, OwnHead, LaneRuns,
         HeadsMade, CyclesKnown, OthersPush, surroundings, history, runners
<1>CyclesKnown. CyclesKnown'
  BY <1>t, <1>v
     DEF ChecksInvariant, ChecksValues, CyclesKnown, LaneRuns, OthersPush, surroundings, history, runners
<1>Spent. Spent'
  BY <1>t, <1>v
     DEF ChecksInvariant, ChecksValues, Spent, ResteersBounded, CyclesKnown, OthersPush, surroundings,
         history, runners
<1>GreenHead. GreenHead'
  BY <1>t, <1>v
     DEF ChecksInvariant, ChecksValues, GreenHead, FactsTrue, LaneRuns, ReadTrue, OthersPush, surroundings,
         history, runners
<1>ConcludedOnce. ConcludedOnce'
  BY <1>t, <1>v
     DEF ChecksInvariant, ChecksValues, ConcludedOnce, CyclesKnown, OthersPush, surroundings, history,
         runners
<1> QED
  BY <1>ChecksTypes, <1>LaneRuns, <1>HeadsMade, <1>GreenKnown, <1>OwnHeads,
     <1>FactsTrue, <1>CyclesKnown, <1>Spent, <1>GreenHead, <1>ConcludedOnce
     DEF ChecksInvariant

LEMMA ChecksConcludeKeeps ==
  ASSUME ChecksInvariant, ChecksConclude
  PROVE  ChecksInvariant'
<1>t. ChecksTypes /\ ChecksValues
  BY ChecksTypedValues DEF ChecksInvariant
<1>p. pr.head \in Head /\ good \subseteq Head
  <2>1. pr.head \in 1..made /\ made \in Head
    BY <1>t DEF ChecksConclude, ChecksInvariant, HeadsMade, ChecksValues
  <2> QED
    BY <1>t, <2>1 DEF ChecksTypes
<1>h. good' \subseteq Head
  BY <1>p DEF ChecksConclude
<1>i. ci' \in [Head -> Rollups]
  <2>1. ci \in [Head -> Rollups]
    BY <1>t DEF ChecksTypes
  <2>2. PICK v \in Rollups : ci' = [ci EXCEPT ![pr.head] = v]
    BY DEF ChecksConclude, Rollups
  <2> QED
    BY <1>p, <2>1, <2>2
<1>ChecksTypes. ChecksTypes'
  BY <1>t, <1>h, <1>i
     DEF ChecksTypes, Lanes, PrStates, Rollups, ChecksConclude, surroundings, history, runners
<1>v. ChecksValues'
  BY <1>ChecksTypes, ChecksTypedValues, PTL
<1>LaneRuns. LaneRuns'
  BY <1>t, <1>v DEF ChecksInvariant, ChecksValues, LaneRuns, ChecksConclude, surroundings, history, runners
<1>HeadsMade. HeadsMade'
  BY <1>t, <1>v
     DEF ChecksInvariant, ChecksValues, HeadsMade, LaneRuns, ChecksConclude, surroundings, history, runners
<1>GreenKnown. GreenKnown'
  BY <1>t, <1>v
     DEF ChecksInvariant, ChecksValues, GreenKnown, ChecksConclude, surroundings, history, runners
<1>OwnHeads. OwnHeads'
  BY <1>t, <1>v
     DEF ChecksInvariant, ChecksValues, OwnHeads, OwnHead, HeadsMade, LaneRuns, ChecksConclude,
         surroundings, history, runners
<1>FactsTrue. FactsTrue'
  BY <1>t, <1>v
     DEF ChecksInvariant, ChecksValues, FactsTrue, ReadTrue, Seen, GreenKnown, OwnHeads, OwnHead, LaneRuns,
         HeadsMade, CyclesKnown, ChecksConclude, surroundings, history, runners
<1>CyclesKnown. CyclesKnown'
  BY <1>t, <1>v
     DEF ChecksInvariant, ChecksValues, CyclesKnown, LaneRuns, ChecksConclude, surroundings, history,
         runners
<1>Spent. Spent'
  BY <1>t, <1>v
     DEF ChecksInvariant, ChecksValues, Spent, ResteersBounded, CyclesKnown, ChecksConclude, surroundings,
         history, runners
<1>GreenHead. GreenHead'
  BY <1>t, <1>v
     DEF ChecksInvariant, ChecksValues, GreenHead, FactsTrue, LaneRuns, ReadTrue, ChecksConclude, surroundings,
         history, runners
<1>ConcludedOnce. ConcludedOnce'
  BY <1>t, <1>v
     DEF ChecksInvariant, ChecksValues, ConcludedOnce, CyclesKnown, ChecksConclude, surroundings, history,
         runners
<1> QED
  BY <1>ChecksTypes, <1>LaneRuns, <1>HeadsMade, <1>GreenKnown, <1>OwnHeads,
     <1>FactsTrue, <1>CyclesKnown, <1>Spent, <1>GreenHead, <1>ConcludedOnce
     DEF ChecksInvariant

LEMMA ChecksRerunKeeps ==
  ASSUME ChecksInvariant, ChecksRerun
  PROVE  ChecksInvariant'
<1>t. ChecksTypes /\ ChecksValues
  BY ChecksTypedValues DEF ChecksInvariant
<1>ChecksTypes. ChecksTypes'
  BY <1>t DEF ChecksTypes, Lanes, PrStates, Rollups, ChecksRerun, surroundings, history, runners
<1>v. ChecksValues'
  BY <1>ChecksTypes, ChecksTypedValues, PTL
<1>LaneRuns. LaneRuns'
  BY <1>t, <1>v DEF ChecksInvariant, ChecksValues, LaneRuns, ChecksRerun, surroundings, history, runners
<1>HeadsMade. HeadsMade'
  BY <1>t, <1>v
     DEF ChecksInvariant, ChecksValues, HeadsMade, LaneRuns, ChecksRerun, surroundings, history, runners
<1>GreenKnown. GreenKnown'
  BY <1>t, <1>v DEF ChecksInvariant, ChecksValues, GreenKnown, ChecksRerun, surroundings, history, runners
<1>OwnHeads. OwnHeads'
  BY <1>t, <1>v
     DEF ChecksInvariant, ChecksValues, OwnHeads, OwnHead, HeadsMade, LaneRuns, ChecksRerun, surroundings,
         history, runners
<1>FactsTrue. FactsTrue'
  BY <1>t, <1>v
     DEF ChecksInvariant, ChecksValues, FactsTrue, ReadTrue, Seen, GreenKnown, OwnHeads, OwnHead, LaneRuns,
         HeadsMade, CyclesKnown, ChecksRerun, surroundings, history, runners
<1>CyclesKnown. CyclesKnown'
  BY <1>t, <1>v
     DEF ChecksInvariant, ChecksValues, CyclesKnown, LaneRuns, ChecksRerun, surroundings, history, runners
<1>Spent. Spent'
  BY <1>t, <1>v
     DEF ChecksInvariant, ChecksValues, Spent, ResteersBounded, CyclesKnown, ChecksRerun, surroundings,
         history, runners
<1>GreenHead. GreenHead'
  BY <1>t, <1>v
     DEF ChecksInvariant, ChecksValues, GreenHead, FactsTrue, LaneRuns, ReadTrue, ChecksRerun, surroundings,
         history, runners
<1>ConcludedOnce. ConcludedOnce'
  BY <1>t, <1>v
     DEF ChecksInvariant, ChecksValues, ConcludedOnce, CyclesKnown, ChecksRerun, surroundings, history,
         runners
<1> QED
  BY <1>ChecksTypes, <1>LaneRuns, <1>HeadsMade, <1>GreenKnown, <1>OwnHeads,
     <1>FactsTrue, <1>CyclesKnown, <1>Spent, <1>GreenHead, <1>ConcludedOnce
     DEF ChecksInvariant

LEMMA PrClosesKeeps ==
  ASSUME ChecksInvariant, PrCloses
  PROVE  ChecksInvariant'
<1>t. ChecksTypes /\ ChecksValues
  BY ChecksTypedValues DEF ChecksInvariant
<1>p. pr.head \in Head /\ good \subseteq Head /\ pr \in [st : PrStates, head : Heads]
  <2>1. pr.head \in 1..made /\ made \in Head
    BY <1>t DEF PrCloses, ChecksInvariant, HeadsMade, ChecksValues
  <2> QED
    BY <1>t, <2>1 DEF ChecksTypes
<1>h. good' \subseteq Head /\ pr' \in [st : PrStates, head : Heads]
  <2>1. good' \subseteq Head
    BY <1>p DEF PrCloses
  <2>2. pr' \in [st : PrStates, head : Heads]
    BY <1>p DEF PrCloses, PrStates
  <2> QED
    BY <2>1, <2>2
<1>ChecksTypes. ChecksTypes'
  BY <1>t, <1>h DEF ChecksTypes, Lanes, PrStates, Rollups, PrCloses, surroundings, history, runners
<1>v. ChecksValues'
  BY <1>ChecksTypes, ChecksTypedValues, PTL
<1>LaneRuns. LaneRuns'
  BY <1>t, <1>v DEF ChecksInvariant, ChecksValues, LaneRuns, PrCloses, surroundings, history, runners
<1>HeadsMade. HeadsMade'
  BY <1>t, <1>v
     DEF ChecksInvariant, ChecksValues, HeadsMade, LaneRuns, PrCloses, surroundings, history, runners
<1>GreenKnown. GreenKnown'
  BY <1>t, <1>v DEF ChecksInvariant, ChecksValues, GreenKnown, PrCloses, surroundings, history, runners
<1>OwnHeads. OwnHeads'
  BY <1>t, <1>v
     DEF ChecksInvariant, ChecksValues, OwnHeads, OwnHead, HeadsMade, LaneRuns, PrCloses, surroundings,
         history, runners
<1>FactsTrue. FactsTrue'
  BY <1>t, <1>v
     DEF ChecksInvariant, ChecksValues, FactsTrue, ReadTrue, Seen, GreenKnown, OwnHeads, OwnHead, LaneRuns,
         HeadsMade, CyclesKnown, PrCloses, surroundings, history, runners
<1>CyclesKnown. CyclesKnown'
  BY <1>t, <1>v
     DEF ChecksInvariant, ChecksValues, CyclesKnown, LaneRuns, PrCloses, surroundings, history, runners
<1>Spent. Spent'
  BY <1>t, <1>v
     DEF ChecksInvariant, ChecksValues, Spent, ResteersBounded, CyclesKnown, PrCloses, surroundings,
         history, runners
<1>GreenHead. GreenHead'
  BY <1>t, <1>v
     DEF ChecksInvariant, ChecksValues, GreenHead, FactsTrue, LaneRuns, ReadTrue, PrCloses, surroundings,
         history, runners
<1>ConcludedOnce. ConcludedOnce'
  BY <1>t, <1>v
     DEF ChecksInvariant, ChecksValues, ConcludedOnce, CyclesKnown, PrCloses, surroundings, history,
         runners
<1> QED
  BY <1>ChecksTypes, <1>LaneRuns, <1>HeadsMade, <1>GreenKnown, <1>OwnHeads,
     <1>FactsTrue, <1>CyclesKnown, <1>Spent, <1>GreenHead, <1>ConcludedOnce
     DEF ChecksInvariant

(* Time, the end of an attempt and the start of one.                       *)
LEMMA HourPassesKeeps ==
  ASSUME ChecksInvariant, HourPasses
  PROVE  ChecksInvariant'
<1>t. ChecksTypes /\ ChecksValues
  BY ChecksTypedValues DEF ChecksInvariant
<1>ChecksTypes. ChecksTypes'
  BY <1>t DEF ChecksTypes, Lanes, PrStates, Rollups, HourPasses, surroundings, history, runners
<1>v. ChecksValues'
  BY <1>ChecksTypes, ChecksTypedValues, PTL
<1>LaneRuns. LaneRuns'
  BY <1>t, <1>v DEF ChecksInvariant, ChecksValues, LaneRuns, HourPasses, surroundings, history, runners
<1>HeadsMade. HeadsMade'
  BY <1>t, <1>v
     DEF ChecksInvariant, ChecksValues, HeadsMade, LaneRuns, HourPasses, surroundings, history, runners
<1>GreenKnown. GreenKnown'
  BY <1>t, <1>v DEF ChecksInvariant, ChecksValues, GreenKnown, HourPasses, surroundings, history, runners
<1>OwnHeads. OwnHeads'
  BY <1>t, <1>v
     DEF ChecksInvariant, ChecksValues, OwnHeads, OwnHead, HeadsMade, LaneRuns, HourPasses, surroundings,
         history, runners
<1>FactsTrue. FactsTrue'
  BY <1>t, <1>v
     DEF ChecksInvariant, ChecksValues, FactsTrue, ReadTrue, Seen, GreenKnown, OwnHeads, OwnHead, LaneRuns,
         HeadsMade, CyclesKnown, HourPasses, surroundings, history, runners
<1>CyclesKnown. CyclesKnown'
  BY <1>t, <1>v
     DEF ChecksInvariant, ChecksValues, CyclesKnown, LaneRuns, HourPasses, surroundings, history, runners
<1>Spent. Spent'
  BY <1>t, <1>v
     DEF ChecksInvariant, ChecksValues, Spent, ResteersBounded, CyclesKnown, HourPasses, surroundings,
         history, runners
<1>GreenHead. GreenHead'
  BY <1>t, <1>v
     DEF ChecksInvariant, ChecksValues, GreenHead, FactsTrue, LaneRuns, ReadTrue, HourPasses, surroundings,
         history, runners
<1>ConcludedOnce. ConcludedOnce'
  BY <1>t, <1>v
     DEF ChecksInvariant, ChecksValues, ConcludedOnce, CyclesKnown, HourPasses, surroundings, history,
         runners
<1> QED
  BY <1>ChecksTypes, <1>LaneRuns, <1>HeadsMade, <1>GreenKnown, <1>OwnHeads,
     <1>FactsTrue, <1>CyclesKnown, <1>Spent, <1>GreenHead, <1>ConcludedOnce
     DEF ChecksInvariant

LEMMA AttemptEndsKeeps ==
  ASSUME ChecksInvariant, AttemptEnds
  PROVE  ChecksInvariant'
<1>t. ChecksTypes /\ ChecksValues
  BY ChecksTypedValues DEF ChecksInvariant
<1>ChecksTypes. ChecksTypes'
  BY <1>t DEF ChecksTypes, Lanes, PrStates, Rollups, AttemptEnds, surroundings, history, runners
<1>v. ChecksValues'
  BY <1>ChecksTypes, ChecksTypedValues, PTL
<1>LaneRuns. LaneRuns'
  BY <1>t, <1>v DEF ChecksInvariant, ChecksValues, LaneRuns, AttemptEnds, surroundings, history, runners
<1>HeadsMade. HeadsMade'
  BY <1>t, <1>v
     DEF ChecksInvariant, ChecksValues, HeadsMade, LaneRuns, AttemptEnds, surroundings, history, runners
<1>GreenKnown. GreenKnown'
  BY <1>t, <1>v DEF ChecksInvariant, ChecksValues, GreenKnown, AttemptEnds, surroundings, history, runners
<1>OwnHeads. OwnHeads'
  BY <1>t, <1>v
     DEF ChecksInvariant, ChecksValues, OwnHeads, OwnHead, HeadsMade, LaneRuns, AttemptEnds, surroundings,
         history, runners
<1>FactsTrue. FactsTrue'
  BY <1>t, <1>v
     DEF ChecksInvariant, ChecksValues, FactsTrue, ReadTrue, Seen, GreenKnown, OwnHeads, OwnHead, LaneRuns,
         HeadsMade, CyclesKnown, AttemptEnds, surroundings, history, runners
<1>CyclesKnown. CyclesKnown'
  BY <1>t, <1>v
     DEF ChecksInvariant, ChecksValues, CyclesKnown, LaneRuns, AttemptEnds, surroundings, history, runners
<1>Spent. Spent'
  BY <1>t, <1>v
     DEF ChecksInvariant, ChecksValues, Spent, ResteersBounded, CyclesKnown, AttemptEnds, surroundings,
         history, runners
<1>GreenHead. GreenHead'
  BY <1>t, <1>v
     DEF ChecksInvariant, ChecksValues, GreenHead, FactsTrue, LaneRuns, ReadTrue, AttemptEnds, surroundings,
         history, runners
<1>ConcludedOnce. ConcludedOnce'
  BY <1>t, <1>v
     DEF ChecksInvariant, ChecksValues, ConcludedOnce, CyclesKnown, AttemptEnds, surroundings, history,
         runners
<1> QED
  BY <1>ChecksTypes, <1>LaneRuns, <1>HeadsMade, <1>GreenKnown, <1>OwnHeads,
     <1>FactsTrue, <1>CyclesKnown, <1>Spent, <1>GreenHead, <1>ConcludedOnce
     DEF ChecksInvariant

LEMMA StartsKeeps ==
  ASSUME ChecksInvariant, Starts
  PROVE  ChecksInvariant'
<1>t. ChecksTypes /\ ChecksValues
  BY ChecksTypedValues DEF ChecksInvariant
<1>ChecksTypes. ChecksTypes'
  BY <1>t DEF ChecksTypes, Lanes, PrStates, Rollups, Starts, surroundings, history, runners, LockFree
<1>v. ChecksValues'
  BY <1>ChecksTypes, ChecksTypedValues, PTL
<1>LaneRuns. LaneRuns'
  BY <1>t, <1>v
     DEF ChecksInvariant, ChecksValues, LaneRuns, Starts, surroundings, history, runners, LockFree
<1>HeadsMade. HeadsMade'
  BY <1>t, <1>v
     DEF ChecksInvariant, ChecksValues, HeadsMade, LaneRuns, Starts, surroundings, history, runners,
         LockFree
<1>GreenKnown. GreenKnown'
  BY <1>t, <1>v
     DEF ChecksInvariant, ChecksValues, GreenKnown, Starts, surroundings, history, runners, LockFree
<1>OwnHeads. OwnHeads'
  BY <1>t, <1>v
     DEF ChecksInvariant, ChecksValues, OwnHeads, OwnHead, HeadsMade, LaneRuns, Starts, surroundings,
         history, runners, LockFree
<1>FactsTrue. FactsTrue'
  BY <1>t, <1>v
     DEF ChecksInvariant, ChecksValues, FactsTrue, ReadTrue, Seen, GreenKnown, OwnHeads, OwnHead, LaneRuns,
         HeadsMade, CyclesKnown, Starts, surroundings, history, runners, LockFree
<1>CyclesKnown. CyclesKnown'
  BY <1>t, <1>v
     DEF ChecksInvariant, ChecksValues, CyclesKnown, LaneRuns, Starts, surroundings, history, runners,
         LockFree
<1>Spent. Spent'
  BY <1>t, <1>v
     DEF ChecksInvariant, ChecksValues, Spent, ResteersBounded, CyclesKnown, Starts, surroundings, history,
         runners, LockFree
<1>GreenHead. GreenHead'
  BY <1>t, <1>v
     DEF ChecksInvariant, ChecksValues, GreenHead, FactsTrue, LaneRuns, ReadTrue, Starts, surroundings,
         history, runners, LockFree
<1>ConcludedOnce. ConcludedOnce'
  BY <1>t, <1>v
     DEF ChecksInvariant, ChecksValues, ConcludedOnce, CyclesKnown, Starts, surroundings, history, runners,
         LockFree
<1> QED
  BY <1>ChecksTypes, <1>LaneRuns, <1>HeadsMade, <1>GreenKnown, <1>OwnHeads,
     <1>FactsTrue, <1>CyclesKnown, <1>Spent, <1>GreenHead, <1>ConcludedOnce
     DEF ChecksInvariant

(* The settlement of an attempt.                                           *)
LEMMA SettleReadsGitKeeps ==
  ASSUME ChecksInvariant, SettleReadsGit
  PROVE  ChecksInvariant'
<1>t. ChecksTypes /\ ChecksValues
  BY ChecksTypedValues DEF ChecksInvariant
<1>1. PICK f \in GitReads : stl' = [pc |-> "checks", facts |-> f]
  BY DEF SettleReadsGit
<1>2. /\ f \in FactsRec /\ stl'.pc = "checks" /\ stl'.facts = f
      /\ f.local <= made /\ (f.git => f.local = local) /\ (f.known => f.git) /\ f.pr = NoFacts.pr /\ ~Seen(f)
  BY <1>1, GitRead, Blanks DEF Seen
<1>3. /\ UNCHANGED <<lane, cyc, late, run, made, local, remote, pr, ci, good,
                     mine, doneAt, cycles, steers, reported, poll>>
      /\ run \in {"completed", "other"}
  BY DEF SettleReadsGit, surroundings, history
<1>ChecksTypes. ChecksTypes'
  BY <1>t, <1>1, <1>2, <1>3 DEF ChecksTypes, Lanes
<1>v. ChecksValues'
  BY <1>ChecksTypes, ChecksTypedValues, PTL
<1>LaneRuns. LaneRuns'
  BY <1>t, <1>v, <1>2, <1>3, Blanks DEF ChecksInvariant, ChecksValues, LaneRuns
<1>HeadsMade. HeadsMade'
  BY <1>t, <1>v, <1>2, <1>3, Blanks DEF ChecksInvariant, ChecksValues, HeadsMade, LaneRuns
<1>GreenKnown. GreenKnown'
  BY <1>t, <1>v, <1>2, <1>3, Blanks DEF ChecksInvariant, ChecksValues, GreenKnown
<1>OwnHeads. OwnHeads'
  BY <1>t, <1>v, <1>2, <1>3, Blanks
     DEF ChecksInvariant, ChecksValues, OwnHeads, OwnHead, HeadsMade, LaneRuns
<1>FactsTrue. FactsTrue'
  BY <1>t, <1>v, <1>2, <1>3, Blanks
     DEF ChecksInvariant, ChecksValues, FactsTrue, ReadTrue, Seen, GreenKnown, OwnHeads, OwnHead, LaneRuns,
         HeadsMade, CyclesKnown
<1>CyclesKnown. CyclesKnown'
  BY <1>t, <1>v, <1>2, <1>3, Blanks DEF ChecksInvariant, ChecksValues, CyclesKnown, LaneRuns
<1>Spent. Spent'
  BY <1>t, <1>v, <1>2, <1>3, Blanks DEF ChecksInvariant, ChecksValues, Spent, ResteersBounded, CyclesKnown
<1>GreenHead. GreenHead'
  BY <1>t, <1>v, <1>2, <1>3, Blanks DEF ChecksInvariant, ChecksValues, GreenHead, FactsTrue, LaneRuns, ReadTrue
<1>ConcludedOnce. ConcludedOnce'
  BY <1>t, <1>v, <1>2, <1>3, Blanks DEF ChecksInvariant, ChecksValues, ConcludedOnce, CyclesKnown
<1> QED
  BY <1>ChecksTypes, <1>LaneRuns, <1>HeadsMade, <1>GreenKnown, <1>OwnHeads,
     <1>FactsTrue, <1>CyclesKnown, <1>Spent, <1>GreenHead, <1>ConcludedOnce
     DEF ChecksInvariant

LEMMA SettleReadsChecksKeeps ==
  ASSUME ChecksInvariant, SettleReadsChecks
  PROVE  ChecksInvariant'
<1>t. ChecksTypes /\ ChecksValues
  BY ChecksTypedValues DEF ChecksInvariant
<1>0. stl.facts \in FactsRec /\ NoFacts.pr \in SeenRec
  BY <1>t, Blanks DEF ChecksTypes
<1>1. PICK s \in SeenRec : /\ stl' = [pc |-> "apply", facts |-> [stl.facts EXCEPT !.pr = s]]
                           /\ (s.ci = "green" \/ s.st = "merged" => s.head \in good)
                           /\ (s.st \notin {"none", "unknown"} => pr.st # "none" /\ s.head = pr.head)
  <2>1. CASE stl.facts.git
    <3>1. PICK s \in ChecksRead(FALSE, IF stl.facts.remote = 0 THEN stl.facts.local ELSE stl.facts.remote) :
             stl' = [pc |-> "apply", facts |-> [stl.facts EXCEPT !.pr = s]]
      BY <2>1 DEF SettleReadsChecks
    <3> QED
      BY <3>1, CheckRead
  <2>2. CASE ~stl.facts.git
    BY <2>2, <1>0, Blanks DEF SettleReadsChecks
  <2> QED
    BY <2>1, <2>2
<1>2. /\ stl'.pc = "apply" /\ stl'.facts \in FactsRec /\ stl'.facts.pr = s
      /\ stl'.facts.git = stl.facts.git /\ stl'.facts.local = stl.facts.local /\ stl'.facts.known = stl.facts.known
  BY <1>0, <1>1, WithPr
<1>3. /\ UNCHANGED <<lane, cyc, late, run, made, local, remote, pr, ci, good,
                     mine, doneAt, cycles, steers, reported, poll>>
      /\ stl.pc = "checks"
  BY DEF SettleReadsChecks, surroundings, history
<1>ChecksTypes. ChecksTypes'
  BY <1>t, <1>1, <1>2, <1>3 DEF ChecksTypes, Lanes
<1>v. ChecksValues'
  BY <1>ChecksTypes, ChecksTypedValues, PTL
<1>LaneRuns. LaneRuns'
  BY <1>t, <1>v, <1>1, <1>2, <1>3 DEF ChecksInvariant, ChecksValues, LaneRuns
<1>HeadsMade. HeadsMade'
  BY <1>t, <1>v, <1>1, <1>2, <1>3 DEF ChecksInvariant, ChecksValues, HeadsMade, LaneRuns
<1>GreenKnown. GreenKnown'
  BY <1>t, <1>v, <1>1, <1>2, <1>3 DEF ChecksInvariant, ChecksValues, GreenKnown
<1>OwnHeads. OwnHeads'
  BY <1>t, <1>v, <1>1, <1>2, <1>3 DEF ChecksInvariant, ChecksValues, OwnHeads, OwnHead, HeadsMade, LaneRuns
<1>FactsTrue. FactsTrue'
  BY <1>t, <1>v, <1>1, <1>2, <1>3
     DEF ChecksInvariant, ChecksValues, FactsTrue, ReadTrue, Seen, GreenKnown, OwnHeads, OwnHead, LaneRuns,
         HeadsMade, CyclesKnown
<1>CyclesKnown. CyclesKnown'
  BY <1>t, <1>v, <1>1, <1>2, <1>3 DEF ChecksInvariant, ChecksValues, CyclesKnown, LaneRuns
<1>Spent. Spent'
  BY <1>t, <1>v, <1>1, <1>2, <1>3 DEF ChecksInvariant, ChecksValues, Spent, ResteersBounded, CyclesKnown
<1>GreenHead. GreenHead'
  BY <1>t, <1>v, <1>1, <1>2, <1>3 DEF ChecksInvariant, ChecksValues, GreenHead, FactsTrue, LaneRuns, ReadTrue
<1>ConcludedOnce. ConcludedOnce'
  BY <1>t, <1>v, <1>1, <1>2, <1>3 DEF ChecksInvariant, ChecksValues, ConcludedOnce, CyclesKnown
<1> QED
  BY <1>ChecksTypes, <1>LaneRuns, <1>HeadsMade, <1>GreenKnown, <1>OwnHeads,
     <1>FactsTrue, <1>CyclesKnown, <1>Spent, <1>GreenHead, <1>ConcludedOnce
     DEF ChecksInvariant

LEMMA SettlesKeeps ==
  ASSUME ChecksInvariant, Settles
  PROVE  ChecksInvariant'
<1>t. ChecksTypes /\ ChecksValues
  BY ChecksTypedValues DEF ChecksInvariant
<1>f. stl.facts \in FactsRec /\ (stl.facts.known => stl.facts.git)
  BY <1>t DEF ChecksTypes, ChecksInvariant, HeadsMade
<1>0. PICK c : c = CycleAfter(stl.facts)
  OBVIOUS
<1>n. /\ c \in CycleRec
      /\ c.on => \/ /\ cyc.on /\ c.id = cyc.id /\ c.retries = cyc.retries
                    /\ c.head = cyc.head \/ (stl.facts.git /\ c.head = stl.facts.local)
                 \/ /\ ~cyc.on /\ c.id = cycles + 1 /\ c.id \in Cycle /\ c.retries = 0
                    /\ stl.facts.git /\ c.head = stl.facts.local
  BY <1>f, <1>0, NextCycle
<1>1. /\ stl.pc = "apply" /\ poll.pc # "resteer" /\ run' = "none" /\ stl' = [pc |-> "idle", facts |-> NoFacts]
      /\ UNCHANGED <<made, local, remote, pr, ci, good, mine, steers, reported, poll>>
  BY DEF Settles, LockFree, surroundings, NoSettle
<1>2. cycles' = IF run = "completed" /\ ~cyc.on /\ c.on THEN cycles + 1 ELSE cycles
  BY <1>0 DEF Settles
<1>3. \/ run = "completed" /\ c.on /\ lane' = "awaiting_checks" /\ cyc' = c
      \/ run = "completed" /\ GreenAlready(c, stl.facts)
         /\ lane' = "done" /\ cyc' = NoCycle /\ doneAt' = stl.facts.local
      \/ lane' \in {"attempt_ended", "awaiting_operator"} /\ cyc' = NoCycle
  BY <1>0 DEF Settles
<1>4. GreenAlready(c, stl.facts) => stl.facts.local \in good /\ stl.facts.local = mine
  BY DEF GreenAlready, ChecksInvariant, FactsTrue, ReadTrue, Seen
<1>5. lane = "running" /\ cycles' \in 0..MaxCycles /\ cycles <= cycles'
  BY <1>t, <1>1, <1>2, <1>n DEF ChecksInvariant, LaneRuns, ChecksValues
<1>ChecksTypes. ChecksTypes'
  BY <1>t, <1>n, <1>1, <1>3, <1>5, Blanks DEF ChecksTypes, Lanes
<1>v. ChecksValues'
  BY <1>ChecksTypes, ChecksTypedValues, PTL
<1>LaneRuns. LaneRuns'
  BY <1>t, <1>v, <1>n, <1>1, <1>2, <1>3, <1>4, <1>5, Blanks DEF ChecksInvariant, ChecksValues, LaneRuns
<1>HeadsMade. HeadsMade'
  BY <1>t, <1>v, <1>n, <1>1, <1>2, <1>3, <1>4, <1>5, Blanks
     DEF ChecksInvariant, ChecksValues, HeadsMade, LaneRuns
<1>GreenKnown. GreenKnown'
  BY <1>t, <1>v, <1>n, <1>1, <1>2, <1>3, <1>4, <1>5, Blanks DEF ChecksInvariant, ChecksValues, GreenKnown
<1>OwnHeads. OwnHeads'
  BY <1>t, <1>v, <1>n, <1>1, <1>2, <1>3, <1>4, <1>5, Blanks
     DEF ChecksInvariant, ChecksValues, OwnHeads, OwnHead, HeadsMade, LaneRuns
<1>FactsTrue. FactsTrue'
  BY <1>t, <1>v, <1>n, <1>1, <1>2, <1>3, <1>4, <1>5, Blanks
     DEF ChecksInvariant, ChecksValues, FactsTrue, ReadTrue, Seen, GreenKnown, OwnHeads, OwnHead, LaneRuns,
         HeadsMade, CyclesKnown
<1>CyclesKnown. CyclesKnown'
  BY <1>t, <1>v, <1>n, <1>1, <1>2, <1>3, <1>4, <1>5, Blanks
     DEF ChecksInvariant, ChecksValues, CyclesKnown, LaneRuns
<1>Spent. Spent'
  BY <1>t, <1>v, <1>n, <1>1, <1>2, <1>3, <1>4, <1>5, Blanks
     DEF ChecksInvariant, ChecksValues, Spent, ResteersBounded, CyclesKnown
<1>GreenHead. GreenHead'
  BY <1>t, <1>v, <1>n, <1>1, <1>2, <1>3, <1>4, <1>5, Blanks
     DEF ChecksInvariant, ChecksValues, GreenHead, FactsTrue, LaneRuns, ReadTrue
<1>ConcludedOnce. ConcludedOnce'
  BY <1>t, <1>v, <1>n, <1>1, <1>2, <1>3, <1>4, <1>5, Blanks
     DEF ChecksInvariant, ChecksValues, ConcludedOnce, CyclesKnown
<1> QED
  BY <1>ChecksTypes, <1>LaneRuns, <1>HeadsMade, <1>GreenKnown, <1>OwnHeads,
     <1>FactsTrue, <1>CyclesKnown, <1>Spent, <1>GreenHead, <1>ConcludedOnce
     DEF ChecksInvariant

(* The poll.                                                               *)
LEMMA PollBeginsKeeps ==
  ASSUME ChecksInvariant, PollBegins
  PROVE  ChecksInvariant'
<1>t. ChecksTypes /\ ChecksValues
  BY ChecksTypedValues DEF ChecksInvariant
<1>2. /\ poll' = [pc |-> "git", cyc |-> cyc, facts |-> NoFacts]
      /\ UNCHANGED <<lane, cyc, late, run, made, local, remote, pr, ci, good,
                     mine, doneAt, cycles, steers, reported, stl>>
      /\ lane = "awaiting_checks" /\ cyc.on /\ poll.pc = "idle"
  BY DEF PollBegins, surroundings, history, NoPoll
<1>ChecksTypes. ChecksTypes'
  BY <1>t, <1>2, Blanks DEF ChecksTypes, Lanes
<1>v. ChecksValues'
  BY <1>ChecksTypes, ChecksTypedValues, PTL
<1>LaneRuns. LaneRuns'
  BY <1>t, <1>v, <1>2, Blanks DEF ChecksInvariant, ChecksValues, LaneRuns
<1>HeadsMade. HeadsMade'
  BY <1>t, <1>v, <1>2, Blanks DEF ChecksInvariant, ChecksValues, HeadsMade, LaneRuns
<1>GreenKnown. GreenKnown'
  BY <1>t, <1>v, <1>2, Blanks DEF ChecksInvariant, ChecksValues, GreenKnown
<1>OwnHeads. OwnHeads'
  BY <1>t, <1>v, <1>2, Blanks DEF ChecksInvariant, ChecksValues, OwnHeads, OwnHead, HeadsMade, LaneRuns
<1>FactsTrue. FactsTrue'
  BY <1>t, <1>v, <1>2, Blanks
     DEF ChecksInvariant, ChecksValues, FactsTrue, ReadTrue, Seen, GreenKnown, OwnHeads, OwnHead, LaneRuns,
         HeadsMade, CyclesKnown
<1>CyclesKnown. CyclesKnown'
  BY <1>t, <1>v, <1>2, Blanks DEF ChecksInvariant, ChecksValues, CyclesKnown, LaneRuns
<1>Spent. Spent'
  BY <1>t, <1>v, <1>2, Blanks DEF ChecksInvariant, ChecksValues, Spent, ResteersBounded, CyclesKnown
<1>GreenHead. GreenHead'
  BY <1>t, <1>v, <1>2, Blanks DEF ChecksInvariant, ChecksValues, GreenHead, FactsTrue, LaneRuns, ReadTrue
<1>ConcludedOnce. ConcludedOnce'
  BY <1>t, <1>v, <1>2, Blanks DEF ChecksInvariant, ChecksValues, ConcludedOnce, CyclesKnown
<1> QED
  BY <1>ChecksTypes, <1>LaneRuns, <1>HeadsMade, <1>GreenKnown, <1>OwnHeads,
     <1>FactsTrue, <1>CyclesKnown, <1>Spent, <1>GreenHead, <1>ConcludedOnce
     DEF ChecksInvariant

LEMMA PollReadsGitKeeps ==
  ASSUME ChecksInvariant, PollReadsGit
  PROVE  ChecksInvariant'
<1>t. ChecksTypes /\ ChecksValues
  BY ChecksTypedValues DEF ChecksInvariant
<1>1. PICK f \in GitReads : poll' = [poll EXCEPT !.pc = "checks", !.facts = f]
  BY DEF PollReadsGit
<1>2. /\ poll' = [pc |-> "checks", cyc |-> poll.cyc, facts |-> f]
      /\ f \in FactsRec /\ f.pr = NoFacts.pr /\ ~Seen(f)
  BY <1>t, <1>1, GitRead, Blanks DEF ChecksTypes, Seen
<1>3. /\ UNCHANGED <<lane, cyc, late, run, made, local, remote, pr, ci, good,
                     mine, doneAt, cycles, steers, reported, stl>>
      /\ poll.pc = "git"
  BY DEF PollReadsGit, surroundings, history
<1>ChecksTypes. ChecksTypes'
  BY <1>t, <1>2, <1>3 DEF ChecksTypes, Lanes
<1>v. ChecksValues'
  BY <1>ChecksTypes, ChecksTypedValues, PTL
<1>LaneRuns. LaneRuns'
  BY <1>t, <1>v, <1>2, <1>3, Blanks DEF ChecksInvariant, ChecksValues, LaneRuns
<1>HeadsMade. HeadsMade'
  BY <1>t, <1>v, <1>2, <1>3, Blanks DEF ChecksInvariant, ChecksValues, HeadsMade, LaneRuns
<1>GreenKnown. GreenKnown'
  BY <1>t, <1>v, <1>2, <1>3, Blanks DEF ChecksInvariant, ChecksValues, GreenKnown
<1>OwnHeads. OwnHeads'
  BY <1>t, <1>v, <1>2, <1>3, Blanks
     DEF ChecksInvariant, ChecksValues, OwnHeads, OwnHead, HeadsMade, LaneRuns
<1>FactsTrue. FactsTrue'
  BY <1>t, <1>v, <1>2, <1>3, Blanks
     DEF ChecksInvariant, ChecksValues, FactsTrue, ReadTrue, Seen, GreenKnown, OwnHeads, OwnHead, LaneRuns,
         HeadsMade, CyclesKnown
<1>CyclesKnown. CyclesKnown'
  BY <1>t, <1>v, <1>2, <1>3, Blanks DEF ChecksInvariant, ChecksValues, CyclesKnown, LaneRuns
<1>Spent. Spent'
  BY <1>t, <1>v, <1>2, <1>3, Blanks DEF ChecksInvariant, ChecksValues, Spent, ResteersBounded, CyclesKnown
<1>GreenHead. GreenHead'
  BY <1>t, <1>v, <1>2, <1>3, Blanks DEF ChecksInvariant, ChecksValues, GreenHead, FactsTrue, LaneRuns, ReadTrue
<1>ConcludedOnce. ConcludedOnce'
  BY <1>t, <1>v, <1>2, <1>3, Blanks DEF ChecksInvariant, ChecksValues, ConcludedOnce, CyclesKnown
<1> QED
  BY <1>ChecksTypes, <1>LaneRuns, <1>HeadsMade, <1>GreenKnown, <1>OwnHeads,
     <1>FactsTrue, <1>CyclesKnown, <1>Spent, <1>GreenHead, <1>ConcludedOnce
     DEF ChecksInvariant

LEMMA PollReadsChecksKeeps ==
  ASSUME ChecksInvariant, PollReadsChecks
  PROVE  ChecksInvariant'
<1>t. ChecksTypes /\ ChecksValues
  BY ChecksTypedValues DEF ChecksInvariant
<1>0. poll.facts \in FactsRec /\ NoFacts.pr \in SeenRec
  BY <1>t, Blanks DEF ChecksTypes
<1>1. PICK s \in SeenRec : /\ poll' = [poll EXCEPT !.pc = "apply", !.facts = [@ EXCEPT !.pr = s]]
                           /\ (s.ci = "green" \/ s.st = "merged" => s.head \in good)
                           /\ (s.st \notin {"none", "unknown"} => pr.st # "none" /\ s.head = pr.head)
  <2>1. CASE poll.facts.git
    <3>1. PICK s \in ChecksRead(poll.cyc.pr, poll.cyc.head) :
            poll' = [poll EXCEPT !.pc = "apply", !.facts = [@ EXCEPT !.pr = s]]
      BY <2>1 DEF PollReadsChecks
    <3> QED
      BY <3>1, CheckRead
  <2>2. CASE ~poll.facts.git
    BY <2>2, <1>0, Blanks DEF PollReadsChecks
  <2> QED
    BY <2>1, <2>2
<1>2. /\ poll' \in [pc : {"idle", "git", "checks", "apply", "resteer"}, cyc : CycleRec, facts : FactsRec]
      /\ poll'.facts \in FactsRec /\ poll'.facts.pr = s /\ poll'.pc = "apply" /\ poll'.cyc = poll.cyc
  <2>1. poll \in [pc : {"idle", "git", "checks", "apply", "resteer"}, cyc : CycleRec, facts : FactsRec]
    BY <1>t DEF ChecksTypes
  <2>2. PICK g \in FactsRec : g = [poll.facts EXCEPT !.pr = s] /\ g.pr = s
    BY <1>0, <1>1, WithPr
  <2>3. poll' = [poll EXCEPT !.pc = "apply", !.facts = g]
    BY <2>2, <1>1
  <2> QED
    BY <2>1, <2>2, <2>3
<1>3. /\ UNCHANGED <<lane, cyc, late, run, made, local, remote, pr, ci, good,
                     mine, doneAt, cycles, steers, reported, stl>>
      /\ poll.pc = "checks"
  BY DEF PollReadsChecks, surroundings, history
<1>ChecksTypes. ChecksTypes'
  BY <1>t, <1>2, <1>3 DEF ChecksTypes, Lanes
<1>v. ChecksValues'
  BY <1>ChecksTypes, ChecksTypedValues, PTL
<1>LaneRuns. LaneRuns'
  BY <1>t, <1>v, <1>1, <1>2, <1>3 DEF ChecksInvariant, ChecksValues, LaneRuns
<1>HeadsMade. HeadsMade'
  BY <1>t, <1>v, <1>1, <1>2, <1>3 DEF ChecksInvariant, ChecksValues, HeadsMade, LaneRuns
<1>GreenKnown. GreenKnown'
  BY <1>t, <1>v, <1>1, <1>2, <1>3 DEF ChecksInvariant, ChecksValues, GreenKnown
<1>OwnHeads. OwnHeads'
  BY <1>t, <1>v, <1>1, <1>2, <1>3 DEF ChecksInvariant, ChecksValues, OwnHeads, OwnHead, HeadsMade, LaneRuns
<1>FactsTrue. FactsTrue'
  BY <1>t, <1>v, <1>1, <1>2, <1>3
     DEF ChecksInvariant, ChecksValues, FactsTrue, ReadTrue, Seen, GreenKnown, OwnHeads, OwnHead, LaneRuns,
         HeadsMade, CyclesKnown
<1>CyclesKnown. CyclesKnown'
  BY <1>t, <1>v, <1>1, <1>2, <1>3 DEF ChecksInvariant, ChecksValues, CyclesKnown, LaneRuns
<1>Spent. Spent'
  BY <1>t, <1>v, <1>1, <1>2, <1>3 DEF ChecksInvariant, ChecksValues, Spent, ResteersBounded, CyclesKnown
<1>GreenHead. GreenHead'
  BY <1>t, <1>v, <1>1, <1>2, <1>3 DEF ChecksInvariant, ChecksValues, GreenHead, FactsTrue, LaneRuns, ReadTrue
<1>ConcludedOnce. ConcludedOnce'
  BY <1>t, <1>v, <1>1, <1>2, <1>3 DEF ChecksInvariant, ChecksValues, ConcludedOnce, CyclesKnown
<1> QED
  BY <1>ChecksTypes, <1>LaneRuns, <1>HeadsMade, <1>GreenKnown, <1>OwnHeads,
     <1>FactsTrue, <1>CyclesKnown, <1>Spent, <1>GreenHead, <1>ConcludedOnce
     DEF ChecksInvariant

LEMMA PollMovedOnKeeps ==
  ASSUME ChecksInvariant, PollMovedOn
  PROVE  ChecksInvariant'
<1>t. ChecksTypes /\ ChecksValues
  BY ChecksTypedValues DEF ChecksInvariant
<1>2. /\ poll' = [pc |-> "idle", cyc |-> NoCycle, facts |-> NoFacts]
      /\ UNCHANGED <<lane, cyc, late, run, made, local, remote, pr, ci, good,
                     mine, doneAt, cycles, steers, reported, stl>>
  BY DEF PollMovedOn, surroundings, history, NoPoll
<1>ChecksTypes. ChecksTypes'
  BY <1>t, <1>2, Blanks DEF ChecksTypes, Lanes
<1>v. ChecksValues'
  BY <1>ChecksTypes, ChecksTypedValues, PTL
<1>LaneRuns. LaneRuns'
  BY <1>t, <1>v, <1>2, Blanks DEF ChecksInvariant, ChecksValues, LaneRuns
<1>HeadsMade. HeadsMade'
  BY <1>t, <1>v, <1>2, Blanks DEF ChecksInvariant, ChecksValues, HeadsMade, LaneRuns
<1>GreenKnown. GreenKnown'
  BY <1>t, <1>v, <1>2, Blanks DEF ChecksInvariant, ChecksValues, GreenKnown
<1>OwnHeads. OwnHeads'
  BY <1>t, <1>v, <1>2, Blanks DEF ChecksInvariant, ChecksValues, OwnHeads, OwnHead, HeadsMade, LaneRuns
<1>FactsTrue. FactsTrue'
  BY <1>t, <1>v, <1>2, Blanks
     DEF ChecksInvariant, ChecksValues, FactsTrue, ReadTrue, Seen, GreenKnown, OwnHeads, OwnHead, LaneRuns,
         HeadsMade, CyclesKnown
<1>CyclesKnown. CyclesKnown'
  BY <1>t, <1>v, <1>2, Blanks DEF ChecksInvariant, ChecksValues, CyclesKnown, LaneRuns
<1>Spent. Spent'
  BY <1>t, <1>v, <1>2, Blanks DEF ChecksInvariant, ChecksValues, Spent, ResteersBounded, CyclesKnown
<1>GreenHead. GreenHead'
  BY <1>t, <1>v, <1>2, Blanks DEF ChecksInvariant, ChecksValues, GreenHead, FactsTrue, LaneRuns, ReadTrue
<1>ConcludedOnce. ConcludedOnce'
  BY <1>t, <1>v, <1>2, Blanks DEF ChecksInvariant, ChecksValues, ConcludedOnce, CyclesKnown
<1> QED
  BY <1>ChecksTypes, <1>LaneRuns, <1>HeadsMade, <1>GreenKnown, <1>OwnHeads,
     <1>FactsTrue, <1>CyclesKnown, <1>Spent, <1>GreenHead, <1>ConcludedOnce
     DEF ChecksInvariant

LEMMA PollWaitsKeeps ==
  ASSUME ChecksInvariant, PollWaits
  PROVE  ChecksInvariant'
<1>t. ChecksTypes /\ ChecksValues
  BY ChecksTypedValues DEF ChecksInvariant
<1>r. poll.facts \in FactsRec /\ cyc \in CycleRec
  BY <1>t DEF ChecksTypes
<1>a. /\ Active \in CycleRec /\ Active.on = cyc.on /\ Active.id = cyc.id /\ Active.head = cyc.head
      /\ Active.retries = cyc.retries
  BY <1>r DEF Active, CycleRec, Seen
<1>2. /\ poll' = [pc |-> "idle", cyc |-> NoCycle, facts |-> NoFacts]
      /\ UNCHANGED <<lane, late, run, made, local, remote, pr, ci, good,
                     mine, doneAt, cycles, steers, reported, stl>>
      /\ cyc' = Active /\ lane = "awaiting_checks"
  BY DEF PollWaits, StillTheCycle, surroundings, history, NoPoll
<1>ChecksTypes. ChecksTypes'
  BY <1>t, <1>a, <1>2, Blanks DEF ChecksTypes, Lanes
<1>v. ChecksValues'
  BY <1>ChecksTypes, ChecksTypedValues, PTL
<1>LaneRuns. LaneRuns'
  BY <1>t, <1>v, <1>a, <1>2, Blanks DEF ChecksInvariant, ChecksValues, LaneRuns
<1>HeadsMade. HeadsMade'
  BY <1>t, <1>v, <1>a, <1>2, Blanks DEF ChecksInvariant, ChecksValues, HeadsMade, LaneRuns
<1>GreenKnown. GreenKnown'
  BY <1>t, <1>v, <1>a, <1>2, Blanks DEF ChecksInvariant, ChecksValues, GreenKnown
<1>OwnHeads. OwnHeads'
  BY <1>t, <1>v, <1>a, <1>2, Blanks
     DEF ChecksInvariant, ChecksValues, OwnHeads, OwnHead, HeadsMade, LaneRuns
<1>FactsTrue. FactsTrue'
  BY <1>t, <1>v, <1>a, <1>2, Blanks
     DEF ChecksInvariant, ChecksValues, FactsTrue, ReadTrue, Seen, GreenKnown, OwnHeads, OwnHead, LaneRuns,
         HeadsMade, CyclesKnown
<1>CyclesKnown. CyclesKnown'
  BY <1>t, <1>v, <1>a, <1>2, Blanks DEF ChecksInvariant, ChecksValues, CyclesKnown, LaneRuns
<1>Spent. Spent'
  BY <1>t, <1>v, <1>a, <1>2, Blanks DEF ChecksInvariant, ChecksValues, Spent, ResteersBounded, CyclesKnown
<1>GreenHead. GreenHead'
  BY <1>t, <1>v, <1>a, <1>2, Blanks DEF ChecksInvariant, ChecksValues, GreenHead, FactsTrue, LaneRuns, ReadTrue
<1>ConcludedOnce. ConcludedOnce'
  BY <1>t, <1>v, <1>a, <1>2, Blanks DEF ChecksInvariant, ChecksValues, ConcludedOnce, CyclesKnown
<1> QED
  BY <1>ChecksTypes, <1>LaneRuns, <1>HeadsMade, <1>GreenKnown, <1>OwnHeads,
     <1>FactsTrue, <1>CyclesKnown, <1>Spent, <1>GreenHead, <1>ConcludedOnce
     DEF ChecksInvariant

LEMMA PollCountsRetryKeeps ==
  ASSUME ChecksInvariant, PollCountsRetry
  PROVE  ChecksInvariant'
<1>t. ChecksTypes /\ ChecksValues
  BY ChecksTypedValues DEF ChecksInvariant
<1>r. poll.facts \in FactsRec /\ cyc \in CycleRec
  BY <1>t DEF ChecksTypes
<1>a. /\ Active \in CycleRec /\ Active.on = cyc.on /\ Active.id = cyc.id /\ Active.head = cyc.head
      /\ Active.retries = cyc.retries
  BY <1>r DEF Active, CycleRec, Seen
<1>2. /\ cyc' = [Active EXCEPT !.retries = @ + 1] /\ cyc.retries < RetryLimit
      /\ poll' = [poll EXCEPT !.pc = "resteer"] /\ cyc = poll.cyc
      /\ UNCHANGED <<lane, late, run, made, local, remote, pr, ci, good,
                     mine, doneAt, cycles, steers, reported, stl>>
      /\ lane = "awaiting_checks" /\ poll.pc = "apply"
  BY DEF PollCountsRetry, StillTheCycle, surroundings, history
<1>3. /\ cyc' \in CycleRec /\ cyc'.on = cyc.on /\ cyc'.id = cyc.id /\ cyc'.head = cyc.head
      /\ cyc'.retries = cyc.retries + 1
  BY <1>a, <1>2 DEF CycleRec
<1>4. poll' = [pc |-> "resteer", cyc |-> poll.cyc, facts |-> poll.facts]
  BY <1>t, <1>2 DEF ChecksTypes
<1>ChecksTypes. ChecksTypes'
  BY <1>t, <1>2, <1>3, <1>4 DEF ChecksTypes, Lanes
<1>v. ChecksValues'
  BY <1>ChecksTypes, ChecksTypedValues, PTL
<1>LaneRuns. LaneRuns'
  BY <1>t, <1>v, <1>2, <1>3, <1>4 DEF ChecksInvariant, ChecksValues, LaneRuns
<1>HeadsMade. HeadsMade'
  BY <1>t, <1>v, <1>2, <1>3, <1>4 DEF ChecksInvariant, ChecksValues, HeadsMade, LaneRuns
<1>GreenKnown. GreenKnown'
  BY <1>t, <1>v, <1>2, <1>3, <1>4 DEF ChecksInvariant, ChecksValues, GreenKnown
<1>OwnHeads. OwnHeads'
  BY <1>t, <1>v, <1>2, <1>3, <1>4 DEF ChecksInvariant, ChecksValues, OwnHeads, OwnHead, HeadsMade, LaneRuns
<1>FactsTrue. FactsTrue'
  BY <1>t, <1>v, <1>2, <1>3, <1>4
     DEF ChecksInvariant, ChecksValues, FactsTrue, ReadTrue, Seen, GreenKnown, OwnHeads, OwnHead, LaneRuns,
         HeadsMade, CyclesKnown
<1>CyclesKnown. CyclesKnown'
  BY <1>t, <1>v, <1>2, <1>3, <1>4 DEF ChecksInvariant, ChecksValues, CyclesKnown, LaneRuns
<1>Spent. Spent'
  BY <1>t, <1>v, <1>2, <1>3, <1>4 DEF ChecksInvariant, ChecksValues, Spent, ResteersBounded, CyclesKnown
<1>GreenHead. GreenHead'
  BY <1>t, <1>v, <1>2, <1>3, <1>4 DEF ChecksInvariant, ChecksValues, GreenHead, FactsTrue, LaneRuns, ReadTrue
<1>ConcludedOnce. ConcludedOnce'
  BY <1>t, <1>v, <1>2, <1>3, <1>4 DEF ChecksInvariant, ChecksValues, ConcludedOnce, CyclesKnown
<1> QED
  BY <1>ChecksTypes, <1>LaneRuns, <1>HeadsMade, <1>GreenKnown, <1>OwnHeads,
     <1>FactsTrue, <1>CyclesKnown, <1>Spent, <1>GreenHead, <1>ConcludedOnce
     DEF ChecksInvariant

LEMMA ResteersKeeps ==
  ASSUME ChecksInvariant, Resteers
  PROVE  ChecksInvariant'
<1>t. ChecksTypes /\ ChecksValues
  BY ChecksTypedValues DEF ChecksInvariant
<1>c. cyc.on /\ cyc.id \in Cycle /\ lane = "awaiting_checks" /\ run = "none"
  BY <1>t DEF Resteers, ChecksInvariant, CyclesKnown, LaneRuns, ChecksValues
<1>2. /\ poll' = [pc |-> "idle", cyc |-> NoCycle, facts |-> NoFacts] /\ poll.pc = "resteer"
      /\ UNCHANGED <<cyc, late, made, local, remote, pr, ci, good, mine, doneAt, cycles, reported, stl>>
      /\ \/ lane' = "running" /\ run' = "working" /\ steers' = [steers EXCEPT ![cyc.id] = @ + 1]
         \/ UNCHANGED <<lane, run, steers>>
  BY DEF Resteers, surroundings, NoPoll
<1>3. /\ \A c \in Cycle : c # cyc.id => steers'[c] = steers[c]
      /\ steers'[cyc.id] = steers[cyc.id] \/ steers'[cyc.id] = steers[cyc.id] + 1
  BY <1>t, <1>c, <1>2 DEF ChecksTypes
<1>5. steers' \in [Cycle -> Nat]
  <2>1. steers \in [Cycle -> Nat] /\ steers[cyc.id] \in Nat
    BY <1>t, <1>c DEF ChecksTypes
  <2>2. CASE steers' = steers
    BY <2>1, <2>2
  <2>3. CASE steers' = [steers EXCEPT ![cyc.id] = @ + 1]
    <3>1. PICK k \in Nat : k = steers[cyc.id] + 1
      BY <2>1
    <3>2. steers' = [steers EXCEPT ![cyc.id] = k]
      BY <2>3, <3>1
    <3> QED
      BY <2>1, <3>2
  <2> QED
    BY <1>2, <2>2, <2>3
<1>ChecksTypes. ChecksTypes'
  BY <1>t, <1>c, <1>2, Blanks, <1>5 DEF ChecksTypes, Lanes
<1>v. ChecksValues'
  BY <1>ChecksTypes, ChecksTypedValues, PTL
<1>LaneRuns. LaneRuns'
  BY <1>t, <1>v, <1>c, <1>2, <1>3, Blanks DEF ChecksInvariant, ChecksValues, LaneRuns
<1>HeadsMade. HeadsMade'
  BY <1>t, <1>v, <1>c, <1>2, <1>3, Blanks DEF ChecksInvariant, ChecksValues, HeadsMade, LaneRuns
<1>GreenKnown. GreenKnown'
  BY <1>t, <1>v, <1>c, <1>2, <1>3, Blanks DEF ChecksInvariant, ChecksValues, GreenKnown
<1>OwnHeads. OwnHeads'
  BY <1>t, <1>v, <1>c, <1>2, <1>3, Blanks
     DEF ChecksInvariant, ChecksValues, OwnHeads, OwnHead, HeadsMade, LaneRuns
<1>FactsTrue. FactsTrue'
  BY <1>t, <1>v, <1>c, <1>2, <1>3, Blanks
     DEF ChecksInvariant, ChecksValues, FactsTrue, ReadTrue, Seen, GreenKnown, OwnHeads, OwnHead, LaneRuns,
         HeadsMade, CyclesKnown
<1>CyclesKnown. CyclesKnown'
  BY <1>t, <1>v, <1>c, <1>2, <1>3, Blanks DEF ChecksInvariant, ChecksValues, CyclesKnown, LaneRuns
<1>Spent. Spent'
  BY <1>t, <1>v, <1>c, <1>2, <1>3, Blanks
     DEF ChecksInvariant, ChecksValues, Spent, ResteersBounded, CyclesKnown
<1>GreenHead. GreenHead'
  BY <1>t, <1>v, <1>c, <1>2, <1>3, Blanks
     DEF ChecksInvariant, ChecksValues, GreenHead, FactsTrue, LaneRuns, ReadTrue
<1>ConcludedOnce. ConcludedOnce'
  BY <1>t, <1>v, <1>c, <1>2, <1>3, Blanks DEF ChecksInvariant, ChecksValues, ConcludedOnce, CyclesKnown
<1> QED
  BY <1>ChecksTypes, <1>LaneRuns, <1>HeadsMade, <1>GreenKnown, <1>OwnHeads,
     <1>FactsTrue, <1>CyclesKnown, <1>Spent, <1>GreenHead, <1>ConcludedOnce
     DEF ChecksInvariant

LEMMA PollSettlesKeeps ==
  ASSUME ChecksInvariant, PollSettles
  PROVE  ChecksInvariant'
<1>t. ChecksTypes /\ ChecksValues
  BY ChecksTypedValues DEF ChecksInvariant
<1>r. poll.facts \in FactsRec /\ cyc \in CycleRec
  BY <1>t DEF ChecksTypes
<1>a. /\ Active \in CycleRec /\ Active.on = cyc.on /\ Active.id = cyc.id /\ Active.head = cyc.head
      /\ Active.retries = cyc.retries
  BY <1>r DEF Active, CycleRec, Seen
<1>c. cyc.on /\ cyc.id \in Cycle
  BY <1>t DEF PollSettles, StillTheCycle, ChecksInvariant, CyclesKnown, LaneRuns, ChecksValues
<1>2. /\ cyc' = NoCycle /\ lane = "awaiting_checks" /\ lane' \in {"done", "awaiting_operator", "attempt_ended"}
      /\ reported' = [reported EXCEPT ![cyc.id] = @ + 1]
      /\ UNCHANGED <<run, made, local, remote, pr, ci, good, mine, cycles, steers, stl>>
  BY DEF PollSettles, StillTheCycle, Concludes, surroundings, history, runners
<1>3. poll' = [pc |-> "idle", cyc |-> NoCycle, facts |-> NoFacts]
  BY DEF PollSettles, NoPoll
<1>5. lane' = "done" => doneAt' = cyc.head /\ Outcome(Active, poll.facts) = "passed"
  BY DEF PollSettles, Concludes
<1>6. lane' = "done" => doneAt' \in good /\ doneAt' = mine
  BY <1>2, <1>5, <1>a, <1>c, Passed DEF PollSettles, StillTheCycle, ChecksInvariant, FactsTrue, ReadTrue
<1>4. /\ \A c \in Cycle : c # cyc.id => reported'[c] = reported[c]
      /\ reported'[cyc.id] = reported[cyc.id] + 1
  BY <1>t, <1>c, <1>2 DEF ChecksTypes
<1>7. reported' \in [Cycle -> Nat]
  BY <1>t, <1>c, <1>2 DEF ChecksTypes
<1>ChecksTypes. ChecksTypes'
  BY <1>t, <1>c, <1>2, <1>3, Blanks, <1>7 DEF ChecksTypes, Lanes
<1>v. ChecksValues'
  BY <1>ChecksTypes, ChecksTypedValues, PTL
<1>LaneRuns. LaneRuns'
  BY <1>t, <1>v, <1>c, <1>2, <1>3, <1>4, <1>6, Blanks DEF ChecksInvariant, ChecksValues, LaneRuns
<1>HeadsMade. HeadsMade'
  BY <1>t, <1>v, <1>c, <1>2, <1>3, <1>4, <1>6, Blanks DEF ChecksInvariant, ChecksValues, HeadsMade, LaneRuns
<1>GreenKnown. GreenKnown'
  BY <1>t, <1>v, <1>c, <1>2, <1>3, <1>4, <1>6, Blanks DEF ChecksInvariant, ChecksValues, GreenKnown
<1>OwnHeads. OwnHeads'
  BY <1>t, <1>v, <1>c, <1>2, <1>3, <1>4, <1>6, Blanks
     DEF ChecksInvariant, ChecksValues, OwnHeads, OwnHead, HeadsMade, LaneRuns
<1>FactsTrue. FactsTrue'
  BY <1>t, <1>v, <1>c, <1>2, <1>3, <1>4, <1>6, Blanks
     DEF ChecksInvariant, ChecksValues, FactsTrue, ReadTrue, Seen, GreenKnown, OwnHeads, OwnHead, LaneRuns,
         HeadsMade, CyclesKnown
<1>CyclesKnown. CyclesKnown'
  BY <1>t, <1>v, <1>c, <1>2, <1>3, <1>4, <1>6, Blanks
     DEF ChecksInvariant, ChecksValues, CyclesKnown, LaneRuns
<1>Spent. Spent'
  BY <1>t, <1>v, <1>c, <1>2, <1>3, <1>4, <1>6, Blanks
     DEF ChecksInvariant, ChecksValues, Spent, ResteersBounded, CyclesKnown
<1>GreenHead. GreenHead'
  BY <1>t, <1>v, <1>c, <1>2, <1>3, <1>4, <1>6, Blanks
     DEF ChecksInvariant, ChecksValues, GreenHead, FactsTrue, LaneRuns, ReadTrue
<1>ConcludedOnce. ConcludedOnce'
  BY <1>t, <1>v, <1>c, <1>2, <1>3, <1>4, <1>6, Blanks
     DEF ChecksInvariant, ChecksValues, ConcludedOnce, CyclesKnown
<1> QED
  BY <1>ChecksTypes, <1>LaneRuns, <1>HeadsMade, <1>GreenKnown, <1>OwnHeads,
     <1>FactsTrue, <1>CyclesKnown, <1>Spent, <1>GreenHead, <1>ConcludedOnce
     DEF ChecksInvariant

(* A forced retirement, a crash and a restart.                             *)
LEMMA RetiresKeeps ==
  ASSUME ChecksInvariant, Retires
  PROVE  ChecksInvariant'
<1>t. ChecksTypes /\ ChecksValues
  BY ChecksTypedValues DEF ChecksInvariant
<1>c. cyc.on /\ cyc.id \in Cycle
  BY <1>t DEF Retires, ChecksInvariant, CyclesKnown, LaneRuns, ChecksValues
<1>2. /\ cyc' = NoCycle /\ lane = "awaiting_checks" /\ lane' \in {"done", "awaiting_operator", "attempt_ended"}
      /\ reported' = [reported EXCEPT ![cyc.id] = @ + 1]
      /\ UNCHANGED <<run, made, local, remote, pr, ci, good, mine, cycles, steers, stl>>
  BY DEF Retires, Concludes, surroundings, history, runners
<1>3. UNCHANGED <<poll, doneAt>> /\ lane' = "attempt_ended" /\ poll.pc # "resteer"
  BY DEF Retires, Concludes, history, runners, LockFree
<1>4. /\ \A c \in Cycle : c # cyc.id => reported'[c] = reported[c]
      /\ reported'[cyc.id] = reported[cyc.id] + 1
  BY <1>t, <1>c, <1>2 DEF ChecksTypes
<1>7. reported' \in [Cycle -> Nat]
  BY <1>t, <1>c, <1>2 DEF ChecksTypes
<1>ChecksTypes. ChecksTypes'
  BY <1>t, <1>c, <1>2, <1>3, Blanks, <1>7 DEF ChecksTypes, Lanes
<1>v. ChecksValues'
  BY <1>ChecksTypes, ChecksTypedValues, PTL
<1>LaneRuns. LaneRuns'
  BY <1>t, <1>v, <1>c, <1>2, <1>3, <1>4, Blanks DEF ChecksInvariant, ChecksValues, LaneRuns
<1>HeadsMade. HeadsMade'
  BY <1>t, <1>v, <1>c, <1>2, <1>3, <1>4, Blanks DEF ChecksInvariant, ChecksValues, HeadsMade, LaneRuns
<1>GreenKnown. GreenKnown'
  BY <1>t, <1>v, <1>c, <1>2, <1>3, <1>4, Blanks DEF ChecksInvariant, ChecksValues, GreenKnown
<1>OwnHeads. OwnHeads'
  BY <1>t, <1>v, <1>c, <1>2, <1>3, <1>4, Blanks
     DEF ChecksInvariant, ChecksValues, OwnHeads, OwnHead, HeadsMade, LaneRuns
<1>FactsTrue. FactsTrue'
  BY <1>t, <1>v, <1>c, <1>2, <1>3, <1>4, Blanks
     DEF ChecksInvariant, ChecksValues, FactsTrue, ReadTrue, Seen, GreenKnown, OwnHeads, OwnHead, LaneRuns,
         HeadsMade, CyclesKnown
<1>CyclesKnown. CyclesKnown'
  BY <1>t, <1>v, <1>c, <1>2, <1>3, <1>4, Blanks DEF ChecksInvariant, ChecksValues, CyclesKnown, LaneRuns
<1>Spent. Spent'
  BY <1>t, <1>v, <1>c, <1>2, <1>3, <1>4, Blanks
     DEF ChecksInvariant, ChecksValues, Spent, ResteersBounded, CyclesKnown
<1>GreenHead. GreenHead'
  BY <1>t, <1>v, <1>c, <1>2, <1>3, <1>4, Blanks
     DEF ChecksInvariant, ChecksValues, GreenHead, FactsTrue, LaneRuns, ReadTrue
<1>ConcludedOnce. ConcludedOnce'
  BY <1>t, <1>v, <1>c, <1>2, <1>3, <1>4, Blanks
     DEF ChecksInvariant, ChecksValues, ConcludedOnce, CyclesKnown
<1> QED
  BY <1>ChecksTypes, <1>LaneRuns, <1>HeadsMade, <1>GreenKnown, <1>OwnHeads,
     <1>FactsTrue, <1>CyclesKnown, <1>Spent, <1>GreenHead, <1>ConcludedOnce
     DEF ChecksInvariant

LEMMA GatewayDiesKeeps ==
  ASSUME ChecksInvariant, GatewayDies
  PROVE  ChecksInvariant'
<1>t. ChecksTypes /\ ChecksValues
  BY ChecksTypedValues DEF ChecksInvariant
<1>2. /\ poll' = [pc |-> "idle", cyc |-> NoCycle, facts |-> NoFacts]
      /\ stl' = [pc |-> "idle", facts |-> NoFacts]
      /\ UNCHANGED <<lane, cyc, late, run, made, local, remote, pr, ci, good,
                     mine, doneAt, cycles, steers, reported>>
  BY DEF GatewayDies, surroundings, history, NoPoll, NoSettle
<1>ChecksTypes. ChecksTypes'
  BY <1>t, <1>2, Blanks DEF ChecksTypes, Lanes
<1>v. ChecksValues'
  BY <1>ChecksTypes, ChecksTypedValues, PTL
<1>LaneRuns. LaneRuns'
  BY <1>t, <1>v, <1>2, Blanks DEF ChecksInvariant, ChecksValues, LaneRuns
<1>HeadsMade. HeadsMade'
  BY <1>t, <1>v, <1>2, Blanks DEF ChecksInvariant, ChecksValues, HeadsMade, LaneRuns
<1>GreenKnown. GreenKnown'
  BY <1>t, <1>v, <1>2, Blanks DEF ChecksInvariant, ChecksValues, GreenKnown
<1>OwnHeads. OwnHeads'
  BY <1>t, <1>v, <1>2, Blanks DEF ChecksInvariant, ChecksValues, OwnHeads, OwnHead, HeadsMade, LaneRuns
<1>FactsTrue. FactsTrue'
  BY <1>t, <1>v, <1>2, Blanks
     DEF ChecksInvariant, ChecksValues, FactsTrue, ReadTrue, Seen, GreenKnown, OwnHeads, OwnHead, LaneRuns,
         HeadsMade, CyclesKnown
<1>CyclesKnown. CyclesKnown'
  BY <1>t, <1>v, <1>2, Blanks DEF ChecksInvariant, ChecksValues, CyclesKnown, LaneRuns
<1>Spent. Spent'
  BY <1>t, <1>v, <1>2, Blanks DEF ChecksInvariant, ChecksValues, Spent, ResteersBounded, CyclesKnown
<1>GreenHead. GreenHead'
  BY <1>t, <1>v, <1>2, Blanks DEF ChecksInvariant, ChecksValues, GreenHead, FactsTrue, LaneRuns, ReadTrue
<1>ConcludedOnce. ConcludedOnce'
  BY <1>t, <1>v, <1>2, Blanks DEF ChecksInvariant, ChecksValues, ConcludedOnce, CyclesKnown
<1> QED
  BY <1>ChecksTypes, <1>LaneRuns, <1>HeadsMade, <1>GreenKnown, <1>OwnHeads,
     <1>FactsTrue, <1>CyclesKnown, <1>Spent, <1>GreenHead, <1>ConcludedOnce
     DEF ChecksInvariant

LEMMA GatewayStartsKeeps ==
  ASSUME ChecksInvariant, GatewayStarts
  PROVE  ChecksInvariant'
<1>t. ChecksTypes /\ ChecksValues
  BY ChecksTypedValues DEF ChecksInvariant
<1>ChecksTypes. ChecksTypes'
  BY <1>t DEF ChecksTypes, Lanes, PrStates, Rollups, GatewayStarts, surroundings, history, runners
<1>v. ChecksValues'
  BY <1>ChecksTypes, ChecksTypedValues, PTL
<1>LaneRuns. LaneRuns'
  BY <1>t, <1>v DEF ChecksInvariant, ChecksValues, LaneRuns, GatewayStarts, surroundings, history, runners
<1>HeadsMade. HeadsMade'
  BY <1>t, <1>v
     DEF ChecksInvariant, ChecksValues, HeadsMade, LaneRuns, GatewayStarts, surroundings, history, runners
<1>GreenKnown. GreenKnown'
  BY <1>t, <1>v DEF ChecksInvariant, ChecksValues, GreenKnown, GatewayStarts, surroundings, history, runners
<1>OwnHeads. OwnHeads'
  BY <1>t, <1>v
     DEF ChecksInvariant, ChecksValues, OwnHeads, OwnHead, HeadsMade, LaneRuns, GatewayStarts,
         surroundings, history, runners
<1>FactsTrue. FactsTrue'
  BY <1>t, <1>v
     DEF ChecksInvariant, ChecksValues, FactsTrue, ReadTrue, Seen, GreenKnown, OwnHeads, OwnHead, LaneRuns,
         HeadsMade, CyclesKnown, GatewayStarts, surroundings, history, runners
<1>CyclesKnown. CyclesKnown'
  BY <1>t, <1>v
     DEF ChecksInvariant, ChecksValues, CyclesKnown, LaneRuns, GatewayStarts, surroundings, history,
         runners
<1>Spent. Spent'
  BY <1>t, <1>v
     DEF ChecksInvariant, ChecksValues, Spent, ResteersBounded, CyclesKnown, GatewayStarts, surroundings,
         history, runners
<1>GreenHead. GreenHead'
  BY <1>t, <1>v
     DEF ChecksInvariant, ChecksValues, GreenHead, FactsTrue, LaneRuns, ReadTrue, GatewayStarts, surroundings,
         history, runners
<1>ConcludedOnce. ConcludedOnce'
  BY <1>t, <1>v
     DEF ChecksInvariant, ChecksValues, ConcludedOnce, CyclesKnown, GatewayStarts, surroundings, history,
         runners
<1> QED
  BY <1>ChecksTypes, <1>LaneRuns, <1>HeadsMade, <1>GreenKnown, <1>OwnHeads,
     <1>FactsTrue, <1>CyclesKnown, <1>Spent, <1>GreenHead, <1>ConcludedOnce
     DEF ChecksInvariant

LEMMA ChecksInitLemma == ChecksInit => ChecksInvariant
<1> SUFFICES ASSUME ChecksInit PROVE ChecksInvariant
  OBVIOUS
<1>1. /\ poll = [pc |-> "idle", cyc |-> NoCycle, facts |-> NoFacts] /\ stl = [pc |-> "idle", facts |-> NoFacts]
      /\ cyc = NoCycle
  BY Blanks DEF ChecksInit
<1>2. ChecksTypes
  BY <1>1, Blanks DEF ChecksInit, ChecksTypes, Lanes, PrStates, Rollups
<1>3. LaneRuns /\ HeadsMade /\ GreenKnown /\ OwnHeads /\ FactsTrue
  BY <1>1, Blanks DEF ChecksInit, LaneRuns, HeadsMade, GreenKnown, OwnHeads, OwnHead, FactsTrue, ReadTrue
<1>4. CyclesKnown /\ Spent /\ GreenHead /\ ConcludedOnce
  BY <1>1, Blanks DEF ChecksInit, CyclesKnown, Spent, ResteersBounded, GreenHead, ConcludedOnce
<1> QED
  BY <1>2, <1>3, <1>4 DEF ChecksInvariant

LEMMA ChecksStutter ==
  ASSUME ChecksInvariant, UNCHANGED checks
  PROVE  ChecksInvariant'
<1>t. ChecksTypes'
  BY DEF ChecksInvariant, ChecksTypes, checks, surroundings
<1>LaneRuns. LaneRuns'
  BY DEF ChecksInvariant, LaneRuns, checks, surroundings
<1>HeadsMade. HeadsMade'
  BY DEF ChecksInvariant, HeadsMade, checks, surroundings
<1>GreenKnown. GreenKnown'
  BY DEF ChecksInvariant, GreenKnown, checks, surroundings
<1>OwnHeads. OwnHeads'
  BY DEF ChecksInvariant, OwnHeads, OwnHead, checks, surroundings
<1>FactsTrue. FactsTrue'
  BY DEF ChecksInvariant, FactsTrue, ReadTrue, Seen, checks, surroundings
<1>CyclesKnown. CyclesKnown'
  BY DEF ChecksInvariant, CyclesKnown, checks, surroundings
<1>Spent. Spent'
  BY DEF ChecksInvariant, Spent, ResteersBounded, checks, surroundings
<1>GreenHead. GreenHead'
  BY DEF ChecksInvariant, GreenHead, checks, surroundings
<1>ConcludedOnce. ConcludedOnce'
  BY DEF ChecksInvariant, ConcludedOnce, checks, surroundings
<1> QED
  BY <1>t, <1>LaneRuns, <1>HeadsMade, <1>GreenKnown, <1>OwnHeads,
     <1>FactsTrue, <1>CyclesKnown, <1>Spent, <1>GreenHead, <1>ConcludedOnce
     DEF ChecksInvariant

LEMMA ChecksStepLemma == ChecksInvariant /\ [ChecksNext]_checks => ChecksInvariant'
<1> SUFFICES ASSUME ChecksInvariant, [ChecksNext]_checks PROVE ChecksInvariant'
  OBVIOUS
<1>1. CASE Surroundings
  BY <1>1, CommitsKeeps, PushesKeeps, OthersPushKeeps, ChecksConcludeKeeps, ChecksRerunKeeps, PrClosesKeeps
     DEF Surroundings
<1>2. CASE HourPasses \/ AttemptEnds \/ Starts
  BY <1>2, HourPassesKeeps, AttemptEndsKeeps, StartsKeeps
<1>3. CASE Settlement
  BY <1>3, SettleReadsGitKeeps, SettleReadsChecksKeeps, SettlesKeeps DEF Settlement
<1>4. CASE Poll
  BY <1>4, PollBeginsKeeps, PollReadsGitKeeps, PollReadsChecksKeeps, PollMovedOnKeeps,
     PollWaitsKeeps, PollCountsRetryKeeps, ResteersKeeps, PollSettlesKeeps
     DEF Poll
<1>5. CASE Retires \/ GatewayDies \/ GatewayStarts
  BY <1>5, RetiresKeeps, GatewayDiesKeeps, GatewayStartsKeeps
<1>6. CASE UNCHANGED checks
  BY <1>6, ChecksStutter
<1> QED
  BY <1>1, <1>2, <1>3, <1>4, <1>5, <1>6 DEF ChecksNext

LEMMA ChecksInvariantLemma == ChecksSpec => []ChecksInvariant
BY ChecksInitLemma, ChecksStepLemma, PTL DEF ChecksSpec

(* The job, the cycle record and the poll are in the states the code       *)
(* declares, and a job waits for checks only with a cycle.                 *)
THEOREM ChecksTypeCorrect == ChecksSpec => []ChecksTypeOK
<1>1. ChecksInvariant => ChecksTypeOK
  BY DEF ChecksInvariant, ChecksTypes, ChecksTypeOK, Lanes, CycleRec, LaneRuns
<1> QED
  BY <1>1, ChecksInvariantLemma, PTL

(* A lane is done on the head its last push left, and only when the checks *)
(* of that very head were green or the PR merged it; a cycle is reported   *)
(* once and re-steers at most the retry limit: for any number of heads,    *)
(* cycles, retries and crashes, whoever pushes, merges, closes or re-runs  *)
(* while the facts are read.                                               *)
THEOREM DoneAlwaysGreen == ChecksSpec => []DoneIsGreen
<1>1. ChecksInvariant => DoneIsGreen
  BY DEF ChecksInvariant, DoneIsGreen, Spent
<1> QED
  BY <1>1, ChecksInvariantLemma, PTL

-----------------------------------------------------------------------------
(* The start of a lane. What a call and a lane may be.                     *)
Locked == {"mkdir", "mkrepo", "clone", "add", "clean", "bind", "binding", "undo", "prepare", "send"}
CallPcs == {"idle", "wait"} \cup Locked
CallRec == [pc : CallPcs, lane : Name \cup {0}, ownsTree : BOOLEAN, ownsRepo : BOOLEAN, added : BOOLEAN,
            made : BOOLEAN, saved : BOOLEAN, tried : BOOLEAN]

StartTypes ==
  /\ status \in [Name -> {"none", "idle", "open", "done"}]
  /\ tree \in [Name -> {"none", "foreign", "dir", "linked"}]
  /\ repo \in [Name -> {"none", "dir", "clone"}]
  /\ adm \in [Name -> {"none", "busy", "failed"}]
  /\ holder \in [Name -> Call \cup {0}]
  /\ gate \in Call \cup {0}
  /\ call \in [Call -> CallRec]

(* A call is under its lane's lock exactly while it holds it, and has done *)
(* nothing before.                                                         *)
Fresh(r) == ~r.ownsTree /\ ~r.ownsRepo /\ ~r.made /\ ~r.saved /\ ~r.tried
Holding ==
  /\ \A c \in Call : call[c].pc \in Locked => call[c].lane \in Name /\ holder[call[c].lane] = c
  /\ \A c \in Call : call[c].pc = "wait" => call[c].lane \in Name /\ Fresh(call[c])
  /\ \A n \in Name : holder[n] # 0 => call[holder[n]].pc \in Locked /\ call[holder[n]].lane = n

(* One call binds at a time, for a lane that has a seat or will find one.  *)
Seating ==
  /\ \A c \in Call : call[c].pc = "binding" <=> gate = c
  /\ IsFiniteSet(seated) /\ Cardinality(seated) <= Cap
  /\ \A c \in Call : call[c].pc = "binding" => call[c].lane \in seated \/ Cardinality(seated) < Cap

(* What a call r under a lane's lock knows of the lane's job, its worktree *)
(* and its repository; whether the lane was left messy or is foreign.      *)
Stage(r, work, dir, git, left, other) ==
  /\ r.pc \in {"mkdir", "mkrepo", "clone", "add", "clean"} =>
       work = "none" /\ ~r.made /\ ~r.saved /\ ~r.tried
  /\ r.pc = "mkdir" => ~r.ownsTree /\ ~r.ownsRepo
  /\ r.pc = "mkrepo" => r.ownsTree /\ ~r.ownsRepo /\ dir = "dir" /\ (git = "none" \/ left)
  /\ r.pc = "clone" => r.ownsTree /\ r.ownsRepo /\ dir = "dir" /\ git = "dir"
  /\ r.pc = "add" => r.ownsTree /\ r.ownsRepo /\ dir = "dir" /\ git = "clone"
  /\ r.pc = "clean" =>
       /\ r.ownsTree => dir = "dir" \/ (dir = "linked" /\ git = "clone" /\ r.ownsRepo)
       /\ r.ownsTree /\ ~r.ownsRepo => git = "none" \/ left
       /\ ~r.ownsTree => ~r.ownsRepo /\ (left \/ other)
  /\ r.pc = "bind" =>
       /\ r.saved <=> r.tried
       /\ r.made /\ ~r.tried => work = "none" /\ dir = "linked" /\ git = "clone"
       /\ ~r.made \/ r.tried => work = "idle"
  /\ r.pc = "binding" => r.saved /\ r.tried /\ work = "idle"
  /\ r.pc = "undo" => r.made /\ ~r.tried /\ work = "none" /\ dir = "linked" /\ git = "clone"
  /\ r.pc = "prepare" => work = "idle"
  /\ r.pc = "send" => work = "open"
StageOf(c) ==
  LET n == call[c].lane IN Stage(call[c], status[n], tree[n], repo[n], n \in messy, n \in foreign)
Staged == \A c \in Call : call[c].pc \in Locked => StageOf(c)

(* The directories of a lane: somebody else's, none yet, kept, in order.   *)
Others(n) == n \in foreign => tree[n] = "foreign" /\ repo[n] = "none" /\ status[n] = "none"
Clear(n) ==
  n \notin messy \cup foreign /\ status[n] = "none" /\ (holder[n] = 0 \/ call[holder[n]].pc = "mkdir")
    => tree[n] = "none" /\ repo[n] = "none"
Kept(n) == n \notin dropped /\ status[n] # "none" => tree[n] = "linked" /\ repo[n] = "clone"
Linked(n) == tree[n] = "linked" => repo[n] = "clone"
DirsOf(n) == Others(n) /\ Clear(n) /\ Kept(n) /\ Linked(n)
Dirs == \A n \in Name : DirsOf(n)

(* A lane that has no job has one call at most, and is being admitted      *)
(* while it has one.                                                       *)
In(c, n) == call[c].lane = n /\ call[c].pc # "idle"
Admitted(n) ==
  status[n] = "none" =>
    /\ \A c, d \in Call : In(c, n) /\ In(d, n) => c = d
    /\ adm[n] = "busy" <=> \E c \in Call : In(c, n)
Admission == \A n \in Name : Admitted(n)

StartInvariant == StartTypes /\ Holding /\ Seating /\ Staged /\ Dirs /\ Admission /\ DirectiveHeard

LEMMA StartInvariantHolds == StartInvariant => LanesStart
<1> SUFFICES ASSUME StartInvariant PROVE LanesStart
  OBVIOUS
<1> USE DEF StartInvariant
<1>1. TreeKept
  BY DEF Dirs, DirsOf, Kept, TreeKept
<1>2. NoDangling
  BY DEF Dirs, DirsOf, Linked, Others, NoDangling
<1>3. NameFree
  <2> SUFFICES ASSUME NEW n \in Name, n \notin messy \cup foreign, status[n] = "none", Inside(n) = {}
               PROVE  tree[n] = "none" /\ repo[n] = "none"
    BY DEF NameFree
  <2>1. holder[n] = 0
    BY DEF Inside, Holding, StartTypes, Lane, At, Locked
  <2> QED
    BY <2>1 DEF Dirs, DirsOf, Clear
<1>4. WithinCap
  BY DEF Seating, WithinCap
<1>5. OneAdmission
  <2> SUFFICES ASSUME NEW n \in Name, status[n] = "none"
               PROVE  Cardinality(Inside(n)) <= 1 /\ (adm[n] = "busy" <=> Inside(n) # {})
    BY DEF OneAdmission
  <2>1. Inside(n) = {c \in Call : In(c, n)}
    BY DEF Inside, In, Lane, At
  <2>2. adm[n] = "busy" <=> Inside(n) # {}
    BY <2>1 DEF Admission, Admitted
  <2>3. CASE Inside(n) = {}
    BY <2>2, <2>3, FS_EmptySet
  <2>4. CASE Inside(n) # {}
    <3>1. PICK c : c \in Inside(n)
      BY <2>4
    <3>2. Inside(n) = {c}
      BY <2>1, <3>1 DEF Admission, Admitted
    <3>3. Cardinality({c}) = 1
      BY FS_Singleton
    <3> QED
      BY <2>2, <2>4, <3>2, <3>3
  <2> QED
    BY <2>3, <2>4
<1> QED
  BY <1>1, <1>2, <1>3, <1>4, <1>5 DEF LanesStart

LEMMA StartBegins == StartInit => StartInvariant
<1> SUFFICES ASSUME StartInit PROVE StartInvariant
  OBVIOUS
<1> USE DEF StartInit
<1>c. \A c \in Call : call[c] = NoCall
  OBVIOUS
<1>i. \A c \in Call : call[c].pc = "idle"
  BY <1>c DEF NoCall
<1>1. StartTypes
  <2>1. NoCall \in CallRec
    BY DEF NoCall, CallRec, CallPcs
  <2>2. tree \in [Name -> {"none", "foreign", "dir", "linked"}]
    OBVIOUS
  <2> QED
    BY <2>1, <2>2 DEF StartTypes
<1>2. Holding
  BY <1>i DEF Holding, Locked
<1>3. Seating
  <2>1. gate \notin Call
    BY LaneStartAssumption
  <2> QED
    BY <1>i, <2>1, FS_EmptySet, LaneStartAssumption DEF Seating
<1>4. Staged
  BY <1>i DEF Staged, Locked
<1>5. Dirs
  BY DEF Dirs, DirsOf, Others, Clear, Kept, Linked
<1>6. Admission
  BY <1>i DEF Admission, Admitted, In
<1>7. DirectiveHeard
  BY DEF DirectiveHeard
<1> QED
  BY <1>1, <1>2, <1>3, <1>4, <1>5, <1>6, <1>7 DEF StartInvariant

(* A step of the call c, which holds the lock of the lane n or takes it:   *)
(* what it leaves alone, and that it goes on under the lock or returns.    *)
Own(c, n) ==
  /\ \A d \in Call : d # c => call'[d] = call[d]
  /\ \A m \in Name : m # n =>
       /\ status'[m] = status[m] /\ tree'[m] = tree[m] /\ repo'[m] = repo[m]
       /\ adm'[m] = adm[m] /\ holder'[m] = holder[m]
       /\ (m \in messy' <=> m \in messy)
       /\ (m \in heard' <=> m \in heard) /\ (m \in excused' <=> m \in excused)
  /\ UNCHANGED <<foreign, dropped, standing, steering>>
GoesOn(c, n) == call'[c].pc \in Locked /\ call'[c].lane = n /\ holder'[n] = c /\ adm'[n] = adm[n]
Returns(c, n) == call'[c].pc = "idle" /\ holder'[n] = 0 /\ (status'[n] = "none" => adm'[n] # "busy")

LEMMA OwnStep ==
  ASSUME StartInvariant, NEW c \in Call, NEW n \in Name,
         call[c].pc \in Locked \/ (call[c].pc = "wait" /\ holder[n] = 0),
         call[c].lane = n, Own(c, n), StartTypes', Seating', DirsOf(n)',
         (GoesOn(c, n) /\ StageOf(c)') \/ Returns(c, n),
         status'[n] = "none" => status[n] = "none",
         status'[n] = "open" /\ standing => call'[c].pc = "send" \/ n \in heard' \cup excused' \cup steering'
  PROVE  StartInvariant'
<1>a. holder[n] \in {0, c} /\ call[c].pc # "idle"
  BY DEF StartInvariant, Holding, Locked
<1>h. \A d \in Call : d # c /\ call[d].pc \in Locked => call[d].lane \in Name /\ call[d].lane # n
  BY <1>a, LaneStartAssumption DEF StartInvariant, Holding
<1>k. \A m \in Name : m # n /\ holder[m] # 0 => holder[m] \in Call /\ holder[m] # c
  BY DEF StartInvariant, Holding, StartTypes
<1>0. "idle" \notin Locked /\ "wait" \notin Locked /\ 0 \notin Call
  BY LaneStartAssumption DEF Locked
<1>1. Holding'
  <2>1. \A d \in Call : call'[d].pc \in Locked => call'[d].lane \in Name /\ holder'[call'[d].lane] = d
    BY <1>h, <1>0 DEF StartInvariant, Holding, Own, GoesOn, Returns
  <2>2. \A d \in Call : call'[d].pc = "wait" => call'[d].lane \in Name /\ Fresh(call'[d])
    BY <1>0 DEF StartInvariant, Holding, Own, GoesOn, Returns
  <2>3. \A m \in Name : holder'[m] # 0 => call'[holder'[m]].pc \in Locked /\ call'[holder'[m]].lane = m
    <3> SUFFICES ASSUME NEW m \in Name, holder'[m] # 0
                 PROVE  call'[holder'[m]].pc \in Locked /\ call'[holder'[m]].lane = m
      OBVIOUS
    <3>1. CASE m = n
      BY <3>1 DEF GoesOn, Returns
    <3>2. CASE m # n
      BY <3>2, <1>k DEF StartInvariant, Holding, Own
    <3> QED
      BY <3>1, <3>2
  <2> QED
    BY <2>1, <2>2, <2>3 DEF Holding
<1>2. Staged'
  <2> SUFFICES ASSUME NEW d \in Call, call'[d].pc \in Locked
               PROVE  StageOf(d)'
    BY DEF Staged
  <2>1. CASE d = c
    BY <2>1, <1>0 DEF Returns
  <2>2. CASE d # c
    <3>1. call'[d] = call[d] /\ call[d].lane \in Name /\ call[d].lane # n /\ StageOf(d)
      BY <2>2, <1>h DEF Own, StartInvariant, Staged
    <3>2. PICK m \in Name : m = call[d].lane
      BY <3>1
    <3> QED
      BY <3>1, <3>2 DEF StageOf, Own
  <2> QED
    BY <2>1, <2>2
<1>3. Dirs'
  <2> SUFFICES ASSUME NEW m \in Name, m # n
               PROVE  DirsOf(m)'
    BY DEF Dirs
  <2>1. DirsOf(m) /\ holder'[m] = holder[m] /\ (holder[m] # 0 => call'[holder[m]] = call[holder[m]])
    BY <1>k DEF StartInvariant, Dirs, Own
  <2> QED
    BY <2>1 DEF DirsOf, Others, Clear, Kept, Linked, Own
<1>4. Admission'
  <2> SUFFICES ASSUME NEW m \in Name PROVE Admitted(m)'
    BY DEF Admission
  <2>a. Admitted(m)
    BY DEF StartInvariant, Admission
  <2>1. CASE m # n
    <3>1. \A d \in Call : In(d, m)' <=> In(d, m)
      BY <2>1, <1>0 DEF In, Own, GoesOn, Returns
    <3> QED
      BY <2>1, <2>a, <3>1 DEF Admitted, Own
  <2>2. CASE m = n
    <3>1. SUFFICES ASSUME status'[n] = "none"
                   PROVE  /\ \A d, e \in Call : In(d, n)' /\ In(e, n)' => d = e
                          /\ adm'[n] = "busy" <=> \E d \in Call : In(d, n)'
      BY <2>2 DEF Admitted
    <3>2. In(c, n) /\ \A d \in Call : In(d, n) => d = c
      BY <2>2, <2>a, <3>1, <1>a DEF Admitted, In
    <3>3. adm[n] = "busy" /\ \A d \in Call : In(d, n)' => d = c
      BY <2>2, <2>a, <3>1, <3>2 DEF Admitted, In, Own
    <3>4. CASE GoesOn(c, n)
      BY <3>3, <3>4, <1>0 DEF GoesOn, In
    <3>5. CASE Returns(c, n)
      BY <3>1, <3>3, <3>5 DEF Returns, In
    <3> QED
      BY <3>4, <3>5
  <2> QED
    BY <2>1, <2>2
<1>5. DirectiveHeard'
  <2> SUFFICES ASSUME NEW m \in Name, standing', status'[m] = "open",
                      \A d \in Call : ~(call'[d].pc = "send" /\ call'[d].lane = m)
               PROVE  m \in heard' \cup excused' \cup steering'
    BY DEF DirectiveHeard, At, Lane
  <2>1. CASE m = n
    BY <2>1, <1>0 DEF Own, GoesOn, Returns, Locked
  <2>2. CASE m # n
    <3>1. \A d \in Call : ~(call[d].pc = "send" /\ call[d].lane = m)
      BY <2>2 DEF Own
    <3> QED
      BY <2>2, <3>1 DEF StartInvariant, DirectiveHeard, At, Lane, Own
  <2> QED
    BY <2>1, <2>2
<1> QED
  BY <1>1, <1>2, <1>3, <1>4, <1>5 DEF StartInvariant

(* What a call under the lock of the lane n may rely on.                   *)
LEMMA HolderKnows ==
  ASSUME StartInvariant, NEW c \in Call, call[c].pc \in Locked
  PROVE  /\ call[c].lane \in Name /\ holder[call[c].lane] = c /\ StageOf(c) /\ DirsOf(call[c].lane)
         /\ call \in [Call -> CallRec]
BY DEF StartInvariant, Holding, Staged, Dirs, StartTypes

(* The call goes on, and only its place changes.                           *)
LEMMA GotoFacts ==
  ASSUME call \in [Call -> CallRec], NEW c \in Call, NEW p \in CallPcs, call' = Goto(c, p)
  PROVE  /\ call' \in [Call -> CallRec] /\ call'[c].pc = p /\ call'[c].lane = call[c].lane
         /\ call'[c].ownsTree = call[c].ownsTree /\ call'[c].ownsRepo = call[c].ownsRepo
         /\ call'[c].made = call[c].made /\ call'[c].saved = call[c].saved /\ call'[c].tried = call[c].tried
         /\ \A d \in Call : d # c => call'[d] = call[d]
<1>1. PICK r : r = [call[c] EXCEPT !.pc = p]
  OBVIOUS
<1>2. /\ r \in CallRec /\ r.pc = p /\ r.lane = call[c].lane
      /\ r.ownsTree = call[c].ownsTree /\ r.ownsRepo = call[c].ownsRepo
      /\ r.made = call[c].made /\ r.saved = call[c].saved /\ r.tried = call[c].tried
  BY <1>1 DEF CallRec
<1>3. call' = [call EXCEPT ![c] = r]
  BY <1>1 DEF Goto
<1> QED
  BY <1>2, <1>3

LEMMA PlacesKnown ==
  /\ "clean" \in CallPcs /\ "add" \in CallPcs /\ "prepare" \in CallPcs /\ "bind" \in CallPcs
  /\ "undo" \in CallPcs /\ "send" \in CallPcs /\ "mkdir" \in CallPcs
BY DEF CallPcs, Locked

(* The call is replaced by another record.                                 *)
LEMMA BecomesFacts ==
  ASSUME NEW C \in [Call -> CallRec], NEW c \in Call, NEW r \in CallRec, NEW D, D = [C EXCEPT ![c] = r]
  PROVE  D \in [Call -> CallRec] /\ D[c] = r /\ \A d \in Call : d # c => D[d] = C[d]
OBVIOUS

(* The call goes on knowing more: the records it may become.               *)
LEMMA Learns ==
  ASSUME NEW r \in CallRec, NEW p \in CallPcs, NEW b \in BOOLEAN
  PROVE  /\ [r EXCEPT !.pc = p, !.ownsTree = TRUE] \in CallRec
         /\ [r EXCEPT !.pc = p, !.ownsRepo = TRUE] \in CallRec
         /\ [r EXCEPT !.pc = p, !.added = TRUE, !.made = TRUE] \in CallRec
         /\ [r EXCEPT !.pc = p, !.added = b] \in CallRec
         /\ [r EXCEPT !.pc = p, !.saved = TRUE, !.tried = TRUE] \in CallRec
<1>1. [r EXCEPT !.pc = p, !.ownsTree = TRUE] \in CallRec
  BY DEF CallRec
<1>2. [r EXCEPT !.pc = p, !.ownsRepo = TRUE] \in CallRec
  BY DEF CallRec
<1>3. [r EXCEPT !.pc = p, !.added = TRUE, !.made = TRUE] \in CallRec
  BY DEF CallRec
<1>4. [r EXCEPT !.pc = p, !.added = b] \in CallRec
  BY DEF CallRec
<1>5. [r EXCEPT !.pc = p, !.saved = TRUE, !.tried = TRUE] \in CallRec
  BY DEF CallRec
<1> QED
  BY <1>1, <1>2, <1>3, <1>4, <1>5

(* No seat is taken or given up, and no call begins or ends binding.       *)
LEMMA SeatingKept ==
  ASSUME StartInvariant, NEW c \in Call, \A d \in Call : d # c => call'[d] = call[d],
         call[c].pc # "binding", call'[c].pc # "binding", UNCHANGED <<seated, gate>>
  PROVE  Seating'
BY DEF StartInvariant, Seating

LEMMA MakeTreeStep ==
  ASSUME StartInvariant, NEW c \in Call, MakeTree(c)
  PROVE  StartInvariant'
<1>1. PICK n : n = call[c].lane
  OBVIOUS
<1>2. call[c].pc = "mkdir" /\ call[c].pc \in Locked
  BY DEF MakeTree, At, Locked
<1>3. n \in Name /\ holder[n] = c /\ StageOf(c) /\ DirsOf(n) /\ call \in [Call -> CallRec]
  BY <1>1, <1>2, HolderKnows
<1>4. UNCHANGED <<status, seated, repo, adm, holder, gate, directives, past>>
  BY DEF MakeTree
<1>s. /\ status[n] = "none" /\ ~call[c].made /\ ~call[c].saved /\ ~call[c].tried
      /\ ~call[c].ownsTree /\ ~call[c].ownsRepo
  BY <1>1, <1>2, <1>3 DEF StageOf, Stage
<1>5. CASE tree[n] # "none" /\ tree' = tree /\ call' = Goto(c, "clean")
  <2>1. /\ call' \in [Call -> CallRec] /\ call'[c].pc = "clean" /\ call'[c].lane = n
        /\ call'[c].ownsTree = call[c].ownsTree /\ call'[c].ownsRepo = call[c].ownsRepo
        /\ call'[c].made = call[c].made /\ call'[c].saved = call[c].saved /\ call'[c].tried = call[c].tried
        /\ \A d \in Call : d # c => call'[d] = call[d]
    BY <1>1, <1>3, <1>5, GotoFacts, PlacesKnown
  <2>2. n \in messy \cup foreign
    BY <1>2, <1>3, <1>5, <1>s DEF DirsOf, Clear
  <2>3. StageOf(c)'
    BY <1>4, <1>5, <1>s, <2>1, <2>2 DEF StageOf, Stage, past
  <2>4. StartTypes' /\ Seating'
    BY <1>2, <1>4, <1>5, <2>1, SeatingKept DEF StartInvariant, StartTypes
  <2>5. DirsOf(n)'
    BY <1>3, <1>4, <1>5, <2>1, <2>2 DEF DirsOf, Others, Clear, Kept, Linked, past
  <2>6. Own(c, n) /\ GoesOn(c, n)
    BY <1>3, <1>4, <1>5, <2>1 DEF Own, GoesOn, directives, past, Locked
  <2> QED
    BY <1>1, <1>2, <1>3, <1>4, <1>s, <2>3, <2>4, <2>5, <2>6, OwnStep
<1>6. CASE /\ tree[n] = "none" /\ tree' = [tree EXCEPT ![n] = "dir"]
           /\ call' = [call EXCEPT ![c].pc = "mkrepo", ![c].ownsTree = TRUE]
  <2>1. /\ call' \in [Call -> CallRec] /\ call'[c].pc = "mkrepo" /\ call'[c].lane = n
        /\ call'[c].ownsTree = TRUE /\ call'[c].ownsRepo = call[c].ownsRepo
        /\ call'[c].made = call[c].made /\ call'[c].saved = call[c].saved /\ call'[c].tried = call[c].tried
        /\ \A d \in Call : d # c => call'[d] = call[d]
    <3>1. PICK r : r = [call[c] EXCEPT !.pc = "mkrepo", !.ownsTree = TRUE]
      OBVIOUS
    <3>2. r \in CallRec
      BY <1>3, <3>1, Learns DEF CallPcs, Locked
    <3>3. /\ r.pc = "mkrepo" /\ r.lane = call[c].lane /\ r.ownsTree = TRUE /\ r.ownsRepo = call[c].ownsRepo
          /\ r.made = call[c].made /\ r.saved = call[c].saved /\ r.tried = call[c].tried
      BY <1>3, <3>1 DEF CallRec
    <3>4. call' = [call EXCEPT ![c] = r]
      BY <1>6, <3>1
    <3> QED
      BY <1>1, <1>3, <3>2, <3>3, <3>4, BecomesFacts
  <2>2. /\ tree'[n] = "dir" /\ (\A m \in Name : m # n => tree'[m] = tree[m])
        /\ tree' \in [Name -> {"none", "foreign", "dir", "linked"}]
    BY <1>3, <1>6 DEF StartInvariant, StartTypes
  <2>3. n \notin foreign /\ (repo[n] = "none" \/ n \in messy)
    BY <1>2, <1>3, <1>6, <1>s DEF DirsOf, Clear, Others
  <2>4. StageOf(c)'
    BY <1>4, <1>s, <2>1, <2>2, <2>3 DEF StageOf, Stage, past
  <2>5. StartTypes' /\ Seating'
    BY <1>2, <1>4, <2>1, <2>2, SeatingKept DEF StartInvariant, StartTypes
  <2>6. DirsOf(n)'
    BY <1>3, <1>4, <1>s, <2>1, <2>2, <2>3, LaneStartAssumption DEF DirsOf, Others, Clear, Kept, Linked, past
  <2>7. Own(c, n) /\ GoesOn(c, n)
    BY <1>3, <1>4, <2>1, <2>2 DEF Own, GoesOn, directives, past, Locked
  <2> QED
    BY <1>1, <1>2, <1>3, <1>4, <1>s, <2>4, <2>5, <2>6, <2>7, OwnStep
<1> QED
  BY <1>1, <1>5, <1>6 DEF MakeTree, Lane

LEMMA MakeRepoStep ==
  ASSUME StartInvariant, NEW c \in Call, MakeRepo(c)
  PROVE  StartInvariant'
<1>1. PICK n : n = call[c].lane
  OBVIOUS
<1>2. call[c].pc = "mkrepo" /\ call[c].pc \in Locked
  BY DEF MakeRepo, At, Locked
<1>3. n \in Name /\ holder[n] = c /\ StageOf(c) /\ DirsOf(n) /\ call \in [Call -> CallRec]
  BY <1>1, <1>2, HolderKnows
<1>4. UNCHANGED <<status, seated, tree, adm, holder, gate, directives, past>>
  BY DEF MakeRepo
<1>s. /\ status[n] = "none" /\ ~call[c].made /\ ~call[c].saved /\ ~call[c].tried
      /\ call[c].ownsTree /\ ~call[c].ownsRepo /\ tree[n] = "dir" /\ (repo[n] = "none" \/ n \in messy)
  BY <1>1, <1>2, <1>3 DEF StageOf, Stage
<1>f. n \notin foreign
  BY <1>3, <1>s DEF DirsOf, Others
<1>5. CASE repo[n] # "none" /\ repo' = repo /\ call' = Goto(c, "clean")
  <2>1. /\ call' \in [Call -> CallRec] /\ call'[c].pc = "clean" /\ call'[c].lane = n
        /\ call'[c].ownsTree = call[c].ownsTree /\ call'[c].ownsRepo = call[c].ownsRepo
        /\ call'[c].made = call[c].made /\ call'[c].saved = call[c].saved /\ call'[c].tried = call[c].tried
        /\ \A d \in Call : d # c => call'[d] = call[d]
    BY <1>1, <1>3, <1>5, GotoFacts, PlacesKnown
  <2>3. StageOf(c)'
    BY <1>4, <1>5, <1>s, <2>1 DEF StageOf, Stage, past
  <2>4. StartTypes' /\ Seating'
    BY <1>2, <1>4, <1>5, <2>1, SeatingKept DEF StartInvariant, StartTypes
  <2>5. DirsOf(n)'
    BY <1>3, <1>4, <1>5, <1>s, <2>1 DEF DirsOf, Others, Clear, Kept, Linked, past
  <2>6. Own(c, n) /\ GoesOn(c, n)
    BY <1>3, <1>4, <1>5, <2>1 DEF Own, GoesOn, directives, past, Locked
  <2> QED
    BY <1>1, <1>2, <1>3, <1>4, <1>s, <2>3, <2>4, <2>5, <2>6, OwnStep
<1>6. CASE /\ repo[n] = "none" /\ repo' = [repo EXCEPT ![n] = "dir"]
           /\ call' = [call EXCEPT ![c].pc = "clone", ![c].ownsRepo = TRUE]
  <2>1. /\ call' \in [Call -> CallRec] /\ call'[c].pc = "clone" /\ call'[c].lane = n
        /\ call'[c].ownsTree = call[c].ownsTree /\ call'[c].ownsRepo = TRUE
        /\ call'[c].made = call[c].made /\ call'[c].saved = call[c].saved /\ call'[c].tried = call[c].tried
        /\ \A d \in Call : d # c => call'[d] = call[d]
    <3>1. PICK r : r = [call[c] EXCEPT !.pc = "clone", !.ownsRepo = TRUE]
      OBVIOUS
    <3>2. r \in CallRec
      BY <1>3, <3>1, Learns DEF CallPcs, Locked
    <3>3. /\ r.pc = "clone" /\ r.lane = call[c].lane /\ r.ownsTree = call[c].ownsTree /\ r.ownsRepo = TRUE
          /\ r.made = call[c].made /\ r.saved = call[c].saved /\ r.tried = call[c].tried
      BY <1>3, <3>1 DEF CallRec
    <3>4. call' = [call EXCEPT ![c] = r]
      BY <1>6, <3>1
    <3> QED
      BY <1>1, <1>3, <3>2, <3>3, <3>4, BecomesFacts
  <2>2. /\ repo'[n] = "dir" /\ (\A m \in Name : m # n => repo'[m] = repo[m])
        /\ repo' \in [Name -> {"none", "dir", "clone"}]
    BY <1>3, <1>6 DEF StartInvariant, StartTypes
  <2>4. StageOf(c)'
    BY <1>4, <1>s, <2>1, <2>2 DEF StageOf, Stage, past
  <2>5. StartTypes' /\ Seating'
    BY <1>2, <1>4, <2>1, <2>2, SeatingKept DEF StartInvariant, StartTypes
  <2>6. DirsOf(n)'
    BY <1>3, <1>4, <1>s, <1>f, <2>1, <2>2, LaneStartAssumption
       DEF DirsOf, Others, Clear, Kept, Linked, past
  <2>7. Own(c, n) /\ GoesOn(c, n)
    BY <1>3, <1>4, <2>1, <2>2 DEF Own, GoesOn, directives, past, Locked
  <2> QED
    BY <1>1, <1>2, <1>3, <1>4, <1>s, <2>4, <2>5, <2>6, <2>7, OwnStep
<1> QED
  BY <1>1, <1>5, <1>6 DEF MakeRepo, Lane

LEMMA CloneStep ==
  ASSUME StartInvariant, NEW c \in Call, Clone(c)
  PROVE  StartInvariant'
<1>1. PICK n : n = call[c].lane
  OBVIOUS
<1>2. call[c].pc = "clone" /\ call[c].pc \in Locked
  BY DEF Clone, At, Locked
<1>3. n \in Name /\ holder[n] = c /\ StageOf(c) /\ DirsOf(n) /\ call \in [Call -> CallRec]
  BY <1>1, <1>2, HolderKnows
<1>4. /\ UNCHANGED <<status, seated, tree, adm, holder, gate, directives, past>>
      /\ repo' = [repo EXCEPT ![n] = "clone"] /\ call' = Goto(c, "add")
  BY <1>1 DEF Clone, Lane
<1>s. /\ status[n] = "none" /\ ~call[c].made /\ ~call[c].saved /\ ~call[c].tried
      /\ call[c].ownsTree /\ call[c].ownsRepo /\ tree[n] = "dir"
  BY <1>1, <1>2, <1>3 DEF StageOf, Stage
<1>f. n \notin foreign
  BY <1>3, <1>s DEF DirsOf, Others
<1>5. /\ call' \in [Call -> CallRec] /\ call'[c].pc = "add" /\ call'[c].lane = n
      /\ call'[c].ownsTree = call[c].ownsTree /\ call'[c].ownsRepo = call[c].ownsRepo
      /\ call'[c].made = call[c].made /\ call'[c].saved = call[c].saved /\ call'[c].tried = call[c].tried
      /\ \A d \in Call : d # c => call'[d] = call[d]
  BY <1>1, <1>3, <1>4, GotoFacts, PlacesKnown
<1>6. /\ repo'[n] = "clone" /\ (\A m \in Name : m # n => repo'[m] = repo[m])
      /\ repo' \in [Name -> {"none", "dir", "clone"}]
  BY <1>3, <1>4 DEF StartInvariant, StartTypes
<1>7. StageOf(c)'
  BY <1>4, <1>s, <1>5, <1>6 DEF StageOf, Stage, past
<1>8. StartTypes' /\ Seating'
  BY <1>2, <1>4, <1>5, <1>6, SeatingKept DEF StartInvariant, StartTypes
<1>9. DirsOf(n)'
  BY <1>3, <1>4, <1>s, <1>f, <1>5, <1>6, LaneStartAssumption DEF DirsOf, Others, Clear, Kept, Linked, past
<1>10. Own(c, n) /\ GoesOn(c, n)
  BY <1>3, <1>4, <1>5, <1>6 DEF Own, GoesOn, directives, past, Locked
<1> QED
  BY <1>1, <1>2, <1>3, <1>4, <1>s, <1>7, <1>8, <1>9, <1>10, OwnStep

LEMMA AddTreeStep ==
  ASSUME StartInvariant, NEW c \in Call, AddTree(c)
  PROVE  StartInvariant'
<1>1. PICK n : n = call[c].lane
  OBVIOUS
<1>2. call[c].pc = "add" /\ call[c].pc \in Locked
  BY DEF AddTree, At, Locked
<1>3. n \in Name /\ holder[n] = c /\ StageOf(c) /\ DirsOf(n) /\ call \in [Call -> CallRec]
  BY <1>1, <1>2, HolderKnows
<1>4. /\ UNCHANGED <<status, seated, repo, adm, holder, gate, directives, past>>
      /\ tree' = [tree EXCEPT ![n] = "linked"]
  BY <1>1 DEF AddTree, Lane
<1>s. /\ status[n] = "none" /\ ~call[c].made /\ ~call[c].saved /\ ~call[c].tried
      /\ call[c].ownsTree /\ call[c].ownsRepo /\ tree[n] = "dir" /\ repo[n] = "clone"
  BY <1>1, <1>2, <1>3 DEF StageOf, Stage
<1>f. n \notin foreign
  BY <1>3, <1>s DEF DirsOf, Others
<1>5. /\ call' \in [Call -> CallRec] /\ call'[c].pc = "bind" /\ call'[c].lane = n
      /\ call'[c].made = TRUE /\ call'[c].saved = call[c].saved /\ call'[c].tried = call[c].tried
      /\ \A d \in Call : d # c => call'[d] = call[d]
  <2>1. PICK r : r = [call[c] EXCEPT !.pc = "bind", !.added = TRUE, !.made = TRUE]
    OBVIOUS
  <2>2. r \in CallRec
    BY <1>3, <2>1, Learns DEF CallPcs, Locked
  <2>3. /\ r.pc = "bind" /\ r.lane = call[c].lane
        /\ r.made = TRUE /\ r.saved = call[c].saved /\ r.tried = call[c].tried
    BY <1>3, <2>1 DEF CallRec
  <2>4. call' = [call EXCEPT ![c] = r]
    BY <2>1 DEF AddTree
  <2> QED
    BY <1>1, <1>3, <2>2, <2>3, <2>4, BecomesFacts
<1>6. /\ tree'[n] = "linked" /\ (\A m \in Name : m # n => tree'[m] = tree[m])
      /\ tree' \in [Name -> {"none", "foreign", "dir", "linked"}]
  BY <1>3, <1>4 DEF StartInvariant, StartTypes
<1>7. StageOf(c)'
  BY <1>4, <1>s, <1>5, <1>6 DEF StageOf, Stage, past
<1>8. StartTypes' /\ Seating'
  BY <1>2, <1>4, <1>5, <1>6, SeatingKept DEF StartInvariant, StartTypes
<1>9. DirsOf(n)'
  BY <1>3, <1>4, <1>s, <1>f, <1>5, <1>6, LaneStartAssumption DEF DirsOf, Others, Clear, Kept, Linked, past
<1>10. Own(c, n) /\ GoesOn(c, n)
  BY <1>3, <1>4, <1>5, <1>6 DEF Own, GoesOn, directives, past, Locked
<1> QED
  BY <1>1, <1>2, <1>3, <1>4, <1>s, <1>7, <1>8, <1>9, <1>10, OwnStep

LEMMA GitFailsStep ==
  ASSUME StartInvariant, NEW c \in Call, NEW linked \in BOOLEAN, GitFails(c, linked)
  PROVE  StartInvariant'
<1>1. PICK n : n = call[c].lane
  OBVIOUS
<1>2. call[c].pc \in {"mkrepo", "clone", "add"} /\ call[c].pc \in Locked
  BY DEF GitFails, At, Locked
<1>3. n \in Name /\ holder[n] = c /\ StageOf(c) /\ DirsOf(n) /\ call \in [Call -> CallRec]
  BY <1>1, <1>2, HolderKnows
<1>4. UNCHANGED <<status, seated, repo, adm, holder, gate, directives, past>>
  BY DEF GitFails
<1>s. /\ status[n] = "none" /\ ~call[c].made /\ ~call[c].saved /\ ~call[c].tried
      /\ call[c].ownsTree /\ tree[n] = "dir"
      /\ ~call[c].ownsRepo => repo[n] = "none" \/ n \in messy
      /\ call[c].pc = "add" => call[c].ownsRepo /\ repo[n] = "clone"
  BY <1>1, <1>2, <1>3 DEF StageOf, Stage
<1>f. n \notin foreign
  BY <1>3, <1>s DEF DirsOf, Others
<1>5. /\ call' \in [Call -> CallRec] /\ call'[c].pc = "clean" /\ call'[c].lane = n
      /\ call'[c].ownsTree = call[c].ownsTree /\ call'[c].ownsRepo = call[c].ownsRepo
      /\ call'[c].made = call[c].made /\ call'[c].saved = call[c].saved /\ call'[c].tried = call[c].tried
      /\ \A d \in Call : d # c => call'[d] = call[d]
  <2>1. PICK r : r = [call[c] EXCEPT !.pc = "clean", !.added = At(c, "add")]
    OBVIOUS
  <2>2. r \in CallRec
    BY <1>3, <2>1, Learns DEF CallPcs, Locked, At
  <2>3. /\ r.pc = "clean" /\ r.lane = call[c].lane
        /\ r.ownsTree = call[c].ownsTree /\ r.ownsRepo = call[c].ownsRepo
        /\ r.made = call[c].made /\ r.saved = call[c].saved /\ r.tried = call[c].tried
    BY <1>3, <2>1 DEF CallRec
  <2>4. call' = [call EXCEPT ![c] = r]
    BY <2>1 DEF GitFails
  <2> QED
    BY <1>1, <1>3, <2>2, <2>3, <2>4, BecomesFacts
<1>6. /\ tree'[n] = "dir" \/ (tree'[n] = "linked" /\ call[c].pc = "add")
      /\ \A m \in Name : m # n => tree'[m] = tree[m]
      /\ tree' \in [Name -> {"none", "foreign", "dir", "linked"}]
  <2>1. CASE tree' = tree
    BY <1>s, <2>1 DEF StartInvariant, StartTypes
  <2>2. CASE call[c].pc = "add" /\ tree' = [tree EXCEPT ![n] = "linked"]
    BY <1>3, <2>2 DEF StartInvariant, StartTypes
  <2> QED
    BY <1>1, <2>1, <2>2 DEF GitFails, At, Lane
<1>7. StageOf(c)'
  BY <1>4, <1>s, <1>5, <1>6 DEF StageOf, Stage, past
<1>8. StartTypes' /\ Seating'
  BY <1>2, <1>4, <1>5, <1>6, SeatingKept DEF StartInvariant, StartTypes
<1>9. DirsOf(n)'
  BY <1>3, <1>4, <1>s, <1>f, <1>5, <1>6, LaneStartAssumption DEF DirsOf, Others, Clear, Kept, Linked, past
<1>10. Own(c, n) /\ GoesOn(c, n)
  BY <1>3, <1>4, <1>5, <1>6 DEF Own, GoesOn, directives, past, Locked
<1> QED
  BY <1>1, <1>2, <1>3, <1>4, <1>s, <1>7, <1>8, <1>9, <1>10, OwnStep

(* A call that returns is gone, its lock is free and nothing is admitted.  *)
LEMMA EndsFacts ==
  ASSUME StartTypes, NEW c \in Call, NEW failed, NEW n \in Name, n = call[c].lane, CallEnds(c, failed)
  PROVE  /\ call' \in [Call -> CallRec] /\ holder' \in [Name -> Call \cup {0}]
         /\ adm' \in [Name -> {"none", "busy", "failed"}]
         /\ call'[c].pc = "idle" /\ holder'[n] = 0 /\ adm'[n] # "busy"
         /\ \A d \in Call : d # c => call'[d] = call[d]
         /\ \A m \in Name : m # n => holder'[m] = holder[m] /\ adm'[m] = adm[m]
<1>1. NoCall \in CallRec /\ NoCall.pc = "idle"
  BY DEF NoCall, CallRec, CallPcs
<1>2. /\ call' \in [Call -> CallRec] /\ call'[c] = NoCall /\ \A d \in Call : d # c => call'[d] = call[d]
  BY <1>1, BecomesFacts DEF StartTypes, CallEnds
<1>3. /\ holder' \in [Name -> Call \cup {0}] /\ holder'[n] = 0
      /\ \A m \in Name : m # n => holder'[m] = holder[m]
  BY DEF StartTypes, CallEnds, Lane
<1>4. PICK a : /\ adm' = [adm EXCEPT ![n] = a]
               /\ (a = adm[n] /\ adm[n] # "busy") \/ a \in {"none", "failed"}
  BY DEF CallEnds, Lane
<1>5. /\ adm' \in [Name -> {"none", "busy", "failed"}] /\ adm'[n] # "busy"
      /\ \A m \in Name : m # n => adm'[m] = adm[m]
  BY <1>4 DEF StartTypes
<1> QED
  BY <1>1, <1>2, <1>3, <1>5

LEMMA CleanStep ==
  ASSUME StartInvariant, NEW c \in Call, NEW gone \in BOOLEAN, NEW cleared \in BOOLEAN, Clean(c, gone, cleared)
  PROVE  StartInvariant'
<1>1. PICK n : n = call[c].lane
  OBVIOUS
<1>2. call[c].pc = "clean" /\ call[c].pc \in Locked
  BY DEF Clean, At, Locked
<1>3. n \in Name /\ holder[n] = c /\ StageOf(c) /\ DirsOf(n) /\ call \in [Call -> CallRec]
  BY <1>1, <1>2, HolderKnows
<1>4. UNCHANGED <<status, seated, gate, directives, foreign, dropped>> /\ CallEnds(c, TRUE)
  BY DEF Clean
<1>s. /\ status[n] = "none"
      /\ call[c].ownsTree => tree[n] = "dir" \/ (tree[n] = "linked" /\ repo[n] = "clone" /\ call[c].ownsRepo)
      /\ call[c].ownsTree /\ ~call[c].ownsRepo => repo[n] = "none" \/ n \in messy
      /\ ~call[c].ownsTree => ~call[c].ownsRepo /\ n \in messy \cup foreign
  BY <1>1, <1>2, <1>3 DEF StageOf, Stage
<1>5. /\ call' \in [Call -> CallRec] /\ holder' \in [Name -> Call \cup {0}]
      /\ adm' \in [Name -> {"none", "busy", "failed"}]
      /\ call'[c].pc = "idle" /\ holder'[n] = 0 /\ adm'[n] # "busy"
      /\ \A d \in Call : d # c => call'[d] = call[d]
      /\ \A m \in Name : m # n => holder'[m] = holder[m] /\ adm'[m] = adm[m]
  BY <1>1, <1>3, <1>4, EndsFacts DEF StartInvariant
<1>6. /\ tree' \in [Name -> {"none", "foreign", "dir", "linked"}]
      /\ tree'[n] = IF call[c].ownsTree /\ gone THEN "none" ELSE tree[n]
      /\ \A m \in Name : m # n => tree'[m] = tree[m]
  BY <1>1, <1>3 DEF StartInvariant, StartTypes, Clean, Lane
<1>7. /\ repo' \in [Name -> {"none", "dir", "clone"}]
      /\ repo'[n] = IF call[c].ownsRepo /\ gone /\ cleared THEN "none" ELSE repo[n]
      /\ \A m \in Name : m # n => repo'[m] = repo[m]
  BY <1>1, <1>3 DEF StartInvariant, StartTypes, Clean, Lane, RemovesRepo
<1>8. /\ \A m \in Name : m # n => (m \in messy' <=> m \in messy)
      /\ n \in messy => n \in messy'
      /\ (call[c].ownsTree /\ ~gone) \/ (call[c].ownsRepo /\ gone /\ ~cleared) => n \in messy'
  BY <1>1 DEF Clean, Lane, RemovesRepo
<1>9. DirsOf(n)'
  BY <1>3, <1>4, <1>s, <1>6, <1>7, <1>8 DEF DirsOf, Others, Clear, Kept, Linked
<1>10. StartTypes' /\ Seating'
  BY <1>2, <1>4, <1>5, <1>6, <1>7, SeatingKept DEF StartInvariant, StartTypes
<1>11. Own(c, n) /\ Returns(c, n)
  BY <1>3, <1>4, <1>5, <1>6, <1>7, <1>8 DEF Own, Returns, directives
<1> QED
  BY <1>1, <1>2, <1>3, <1>4, <1>s, <1>9, <1>10, <1>11, OwnStep

LEMMA UndoStep ==
  ASSUME StartInvariant, NEW c \in Call, NEW gone \in BOOLEAN, NEW cleared \in BOOLEAN, Undo(c, gone, cleared)
  PROVE  StartInvariant'
<1>1. PICK n : n = call[c].lane
  OBVIOUS
<1>2. call[c].pc = "undo" /\ call[c].pc \in Locked
  BY DEF Undo, At, Locked
<1>3. n \in Name /\ holder[n] = c /\ StageOf(c) /\ DirsOf(n) /\ call \in [Call -> CallRec]
  BY <1>1, <1>2, HolderKnows
<1>4. UNCHANGED <<status, seated, gate, directives, foreign, dropped>> /\ CallEnds(c, TRUE) /\ (cleared => gone)
  BY DEF Undo
<1>s. status[n] = "none" /\ tree[n] = "linked" /\ repo[n] = "clone"
  BY <1>1, <1>2, <1>3 DEF StageOf, Stage
<1>5. /\ call' \in [Call -> CallRec] /\ holder' \in [Name -> Call \cup {0}]
      /\ adm' \in [Name -> {"none", "busy", "failed"}]
      /\ call'[c].pc = "idle" /\ holder'[n] = 0 /\ adm'[n] # "busy"
      /\ \A d \in Call : d # c => call'[d] = call[d]
      /\ \A m \in Name : m # n => holder'[m] = holder[m] /\ adm'[m] = adm[m]
  BY <1>1, <1>3, <1>4, EndsFacts DEF StartInvariant
<1>6. /\ tree' \in [Name -> {"none", "foreign", "dir", "linked"}]
      /\ tree'[n] = IF gone THEN "none" ELSE tree[n]
      /\ \A m \in Name : m # n => tree'[m] = tree[m]
  BY <1>1, <1>3 DEF StartInvariant, StartTypes, Undo, Lane
<1>7. /\ repo' \in [Name -> {"none", "dir", "clone"}]
      /\ repo'[n] = IF cleared THEN "none" ELSE repo[n]
      /\ \A m \in Name : m # n => repo'[m] = repo[m]
  BY <1>1, <1>3 DEF StartInvariant, StartTypes, Undo, Lane
<1>8. /\ \A m \in Name : m # n => (m \in messy' <=> m \in messy)
      /\ n \in messy => n \in messy'
      /\ ~cleared => n \in messy'
  BY <1>1 DEF Undo, Lane
<1>9. DirsOf(n)'
  BY <1>3, <1>4, <1>s, <1>6, <1>7, <1>8 DEF DirsOf, Others, Clear, Kept, Linked
<1>10. StartTypes' /\ Seating'
  BY <1>2, <1>4, <1>5, <1>6, <1>7, SeatingKept DEF StartInvariant, StartTypes
<1>11. Own(c, n) /\ Returns(c, n)
  BY <1>3, <1>4, <1>5, <1>6, <1>7, <1>8 DEF Own, Returns, directives
<1> QED
  BY <1>1, <1>2, <1>3, <1>4, <1>s, <1>9, <1>10, <1>11, OwnStep

LEMMA BindTryStep ==
  ASSUME StartInvariant, NEW c \in Call, BindTry(c)
  PROVE  StartInvariant'
<1>1. PICK n : n = call[c].lane
  OBVIOUS
<1>2. call[c].pc = "bind" /\ call[c].pc \in Locked
  BY DEF BindTry, At, Locked
<1>3. n \in Name /\ holder[n] = c /\ StageOf(c) /\ DirsOf(n) /\ call \in [Call -> CallRec]
  BY <1>1, <1>2, HolderKnows
<1>4. UNCHANGED <<seated, disk, adm, holder, directives, past>> /\ gate = 0 /\ gate' = c /\ HasRoom(n)
  BY <1>1 DEF BindTry, Lane
<1>s. /\ call[c].saved <=> call[c].tried
      /\ call[c].made /\ ~call[c].tried => status[n] = "none" /\ tree[n] = "linked" /\ repo[n] = "clone"
      /\ ~call[c].made \/ call[c].tried => status[n] = "idle"
  BY <1>1, <1>2, <1>3 DEF StageOf, Stage
<1>f. n \notin foreign
  BY <1>3, <1>s DEF DirsOf, Others
<1>5. /\ call' \in [Call -> CallRec] /\ call'[c].pc = "binding" /\ call'[c].lane = n
      /\ call'[c].saved = TRUE /\ call'[c].tried = TRUE
      /\ \A d \in Call : d # c => call'[d] = call[d]
  <2>1. PICK r : r = [call[c] EXCEPT !.pc = "binding", !.saved = TRUE, !.tried = TRUE]
    OBVIOUS
  <2>2. r \in CallRec
    BY <1>3, <2>1, Learns DEF CallPcs, Locked
  <2>3. r.pc = "binding" /\ r.lane = call[c].lane /\ r.saved = TRUE /\ r.tried = TRUE
    BY <1>3, <2>1 DEF CallRec
  <2>4. call' = [call EXCEPT ![c] = r]
    BY <2>1 DEF BindTry
  <2> QED
    BY <1>1, <1>3, <2>2, <2>3, <2>4, BecomesFacts
<1>6. /\ status' \in [Name -> {"none", "idle", "open", "done"}] /\ status'[n] = "idle"
      /\ \A m \in Name : m # n => status'[m] = status[m]
  <2>1. CASE call[c].made /\ ~call[c].saved /\ status' = [status EXCEPT ![n] = "idle"]
    BY <1>3, <2>1 DEF StartInvariant, StartTypes
  <2>2. CASE ~(call[c].made /\ ~call[c].saved) /\ status' = status
    BY <1>s, <2>2 DEF StartInvariant, StartTypes
  <2> QED
    BY <1>1, <2>1, <2>2 DEF BindTry, Lane
<1>7. StageOf(c)'
  BY <1>5, <1>6 DEF StageOf, Stage
<1>8. Seating'
  BY <1>1, <1>4, <1>5, LaneStartAssumption DEF StartInvariant, Seating, HasRoom
<1>9. StartTypes'
  BY <1>4, <1>5, <1>6 DEF StartInvariant, StartTypes, disk
<1>10. DirsOf(n)'
  BY <1>3, <1>4, <1>s, <1>f, <1>6 DEF DirsOf, Others, Clear, Kept, Linked, disk, past
<1>11. Own(c, n) /\ GoesOn(c, n)
  BY <1>3, <1>4, <1>5, <1>6 DEF Own, GoesOn, directives, past, disk, Locked
<1> QED
  BY <1>1, <1>2, <1>3, <1>6, <1>7, <1>8, <1>9, <1>10, <1>11, OwnStep

LEMMA BindDoneStep ==
  ASSUME StartInvariant, NEW c \in Call, BindDone(c)
  PROVE  StartInvariant'
<1>1. PICK n : n = call[c].lane
  OBVIOUS
<1>2. call[c].pc = "binding" /\ call[c].pc \in Locked
  BY DEF BindDone, At, Locked
<1>3. n \in Name /\ holder[n] = c /\ StageOf(c) /\ DirsOf(n) /\ call \in [Call -> CallRec]
  BY <1>1, <1>2, HolderKnows
<1>4. /\ UNCHANGED <<status, disk, adm, holder, directives, past>> /\ gate' = 0
      /\ seated' = seated \cup {n} /\ call' = Goto(c, "prepare")
  BY <1>1 DEF BindDone, Lane
<1>s. status[n] = "idle"
  BY <1>1, <1>2, <1>3 DEF StageOf, Stage
<1>5. /\ call' \in [Call -> CallRec] /\ call'[c].pc = "prepare" /\ call'[c].lane = n
      /\ \A d \in Call : d # c => call'[d] = call[d]
  BY <1>1, <1>3, <1>4, GotoFacts, PlacesKnown
<1>6. StageOf(c)'
  BY <1>4, <1>s, <1>5 DEF StageOf, Stage
<1>7. Seating'
  <2>1. gate = c /\ IsFiniteSet(seated) /\ Cardinality(seated) <= Cap /\ (n \in seated \/ Cardinality(seated) < Cap)
    BY <1>1, <1>2 DEF StartInvariant, Seating
  <2>2. \A d \in Call : call'[d].pc = "binding" <=> gate' = d
    BY <1>2, <1>4, <1>5, <2>1, LaneStartAssumption DEF StartInvariant, Seating
  <2>3. IsFiniteSet(seated') /\ Cardinality(seated') <= Cap
    <3>1. CASE n \in seated
      <4>1. seated' = seated
        BY <1>4, <3>1
      <4> QED
        BY <2>1, <4>1
    <3>2. CASE n \notin seated
      <4>1. Cardinality(seated) \in Nat /\ Cardinality(seated') = Cardinality(seated) + 1 /\ IsFiniteSet(seated')
        BY <1>4, <2>1, <3>2, FS_AddElement, FS_CardinalityType
      <4> QED
        BY <2>1, <3>2, <4>1, LaneStartAssumption
    <3> QED
      BY <3>1, <3>2
  <2> QED
    BY <1>4, <2>2, <2>3, LaneStartAssumption DEF Seating
<1>8. StartTypes'
  BY <1>4, <1>5 DEF StartInvariant, StartTypes, disk
<1>9. DirsOf(n)'
  BY <1>3, <1>4, <1>s DEF DirsOf, Others, Clear, Kept, Linked, disk, past
<1>10. Own(c, n) /\ GoesOn(c, n)
  BY <1>3, <1>4, <1>5 DEF Own, GoesOn, directives, past, disk, Locked
<1> QED
  BY <1>1, <1>2, <1>3, <1>4, <1>s, <1>6, <1>7, <1>8, <1>9, <1>10, OwnStep

LEMMA BindAgainStep ==
  ASSUME StartInvariant, NEW c \in Call, BindAgain(c)
  PROVE  StartInvariant'
<1>1. PICK n : n = call[c].lane
  OBVIOUS
<1>2. call[c].pc = "binding" /\ call[c].pc \in Locked
  BY DEF BindAgain, At, Locked
<1>3. n \in Name /\ holder[n] = c /\ StageOf(c) /\ DirsOf(n) /\ call \in [Call -> CallRec]
  BY <1>1, <1>2, HolderKnows
<1>4. /\ UNCHANGED <<status, seated, disk, adm, holder, directives, past>> /\ gate' = 0
      /\ call' = Goto(c, "bind")
  BY DEF BindAgain
<1>s. status[n] = "idle" /\ call[c].saved /\ call[c].tried
  BY <1>1, <1>2, <1>3 DEF StageOf, Stage
<1>5. /\ call' \in [Call -> CallRec] /\ call'[c].pc = "bind" /\ call'[c].lane = n
      /\ call'[c].made = call[c].made /\ call'[c].saved = call[c].saved /\ call'[c].tried = call[c].tried
      /\ \A d \in Call : d # c => call'[d] = call[d]
  BY <1>1, <1>3, <1>4, GotoFacts, PlacesKnown
<1>6. StageOf(c)'
  BY <1>4, <1>s, <1>5 DEF StageOf, Stage
<1>7. Seating'
  BY <1>2, <1>4, <1>5, LaneStartAssumption DEF StartInvariant, Seating
<1>8. StartTypes'
  BY <1>4, <1>5 DEF StartInvariant, StartTypes, disk
<1>9. DirsOf(n)'
  BY <1>3, <1>4, <1>s DEF DirsOf, Others, Clear, Kept, Linked, disk, past
<1>10. Own(c, n) /\ GoesOn(c, n)
  BY <1>3, <1>4, <1>5 DEF Own, GoesOn, directives, past, disk, Locked
<1> QED
  BY <1>1, <1>2, <1>3, <1>4, <1>s, <1>6, <1>7, <1>8, <1>9, <1>10, OwnStep

LEMMA StartFailsStep ==
  ASSUME StartInvariant, NEW c \in Call, StartFails(c)
  PROVE  StartInvariant'
<1>1. PICK n : n = call[c].lane
  OBVIOUS
<1>2. call[c].pc \in {"bind", "binding"} /\ call[c].pc \in Locked
  BY DEF StartFails, At, Locked
<1>3. n \in Name /\ holder[n] = c /\ StageOf(c) /\ DirsOf(n) /\ call \in [Call -> CallRec]
  BY <1>1, <1>2, HolderKnows
<1>4. UNCHANGED <<status, seated, disk, directives, past>>
  BY DEF StartFails
<1>g. (call[c].pc = "bind" /\ gate' = gate) \/ (call[c].pc = "binding" /\ gate' = 0)
  BY DEF StartFails, At
<1>s. /\ call[c].pc = "bind" /\ call[c].made /\ ~call[c].tried =>
           status[n] = "none" /\ tree[n] = "linked" /\ repo[n] = "clone"
      /\ ~call[c].made \/ call[c].tried => status[n] = "idle"
      /\ call[c].pc = "binding" => call[c].tried
  BY <1>1, <1>2, <1>3 DEF StageOf, Stage
<1>S. ASSUME call'[c].pc # "binding", \A d \in Call : d # c => call'[d] = call[d]
      PROVE  Seating'
  BY <1>4, <1>g, <1>S, LaneStartAssumption DEF StartInvariant, Seating
<1>o. status'[n] # "open" /\ status'[n] = status[n]
  BY <1>4, <1>2, <1>s
<1>5. CASE Undoes(c) /\ call' = Goto(c, "undo") /\ UNCHANGED <<holder, adm>>
  <2>1. /\ call' \in [Call -> CallRec] /\ call'[c].pc = "undo" /\ call'[c].lane = n
        /\ call'[c].made = call[c].made /\ call'[c].saved = call[c].saved /\ call'[c].tried = call[c].tried
        /\ \A d \in Call : d # c => call'[d] = call[d]
    BY <1>1, <1>3, <1>5, GotoFacts, PlacesKnown
  <2>2. /\ call[c].made /\ ~call[c].tried /\ status[n] = "none" /\ tree[n] = "linked" /\ repo[n] = "clone"
    BY <1>2, <1>5, <1>s DEF Undoes
  <2>3. StageOf(c)'
    BY <1>4, <2>1, <2>2 DEF StageOf, Stage, disk
  <2>4. StartTypes' /\ Seating'
    BY <1>4, <1>5, <1>g, <1>S, <2>1 DEF StartInvariant, StartTypes, disk
  <2>5. DirsOf(n)'
    BY <1>3, <1>4, <1>5, <2>1, <2>2, LaneStartAssumption DEF DirsOf, Others, Clear, Kept, Linked, disk, past
  <2>6. Own(c, n) /\ GoesOn(c, n)
    BY <1>3, <1>4, <1>5, <2>1 DEF Own, GoesOn, directives, past, disk, Locked
  <2> QED
    BY <1>1, <1>2, <1>3, <1>o, <2>3, <2>4, <2>5, <2>6, OwnStep
<1>6. CASE ~Undoes(c) /\ CallEnds(c, TRUE)
  <2>1. /\ call' \in [Call -> CallRec] /\ holder' \in [Name -> Call \cup {0}]
        /\ adm' \in [Name -> {"none", "busy", "failed"}]
        /\ call'[c].pc = "idle" /\ holder'[n] = 0 /\ adm'[n] # "busy"
        /\ \A d \in Call : d # c => call'[d] = call[d]
        /\ \A m \in Name : m # n => holder'[m] = holder[m] /\ adm'[m] = adm[m]
    BY <1>1, <1>3, <1>6, EndsFacts DEF StartInvariant
  <2>2. status[n] = "idle"
    BY <1>6, <1>s DEF Undoes
  <2>3. StartTypes' /\ Seating'
    BY <1>4, <1>g, <1>S, <2>1 DEF StartInvariant, StartTypes, disk
  <2>4. DirsOf(n)'
    BY <1>3, <1>4, <2>2 DEF DirsOf, Others, Clear, Kept, Linked, disk, past
  <2>5. Own(c, n) /\ Returns(c, n)
    BY <1>3, <1>4, <2>1 DEF Own, Returns, directives, past, disk
  <2> QED
    BY <1>1, <1>2, <1>3, <1>o, <2>3, <2>4, <2>5, OwnStep
<1> QED
  BY <1>5, <1>6 DEF StartFails

LEMMA PrepareAttemptStep ==
  ASSUME StartInvariant, NEW c \in Call, PrepareAttempt(c)
  PROVE  StartInvariant'
<1>1. PICK n : n = call[c].lane
  OBVIOUS
<1>2. call[c].pc = "prepare" /\ call[c].pc \in Locked
  BY DEF PrepareAttempt, At, Locked
<1>3. n \in Name /\ holder[n] = c /\ StageOf(c) /\ DirsOf(n) /\ call \in [Call -> CallRec]
  BY <1>1, <1>2, HolderKnows
<1>4. /\ UNCHANGED <<seated, disk, adm, holder, gate, standing, steering, past>>
      /\ call' = Goto(c, "send") /\ status' = [status EXCEPT ![n] = "open"]
      /\ heard' = heard \ {n} /\ excused' = excused \ {n}
  BY <1>1 DEF PrepareAttempt, Lane
<1>s. status[n] = "idle"
  BY <1>1, <1>2, <1>3 DEF StageOf, Stage
<1>5. /\ call' \in [Call -> CallRec] /\ call'[c].pc = "send" /\ call'[c].lane = n
      /\ \A d \in Call : d # c => call'[d] = call[d]
  BY <1>1, <1>3, <1>4, GotoFacts, PlacesKnown
<1>6. /\ status' \in [Name -> {"none", "idle", "open", "done"}] /\ status'[n] = "open"
      /\ \A m \in Name : m # n => status'[m] = status[m]
  BY <1>3, <1>4 DEF StartInvariant, StartTypes
<1>7. StageOf(c)'
  BY <1>5, <1>6 DEF StageOf, Stage
<1>8. StartTypes' /\ Seating'
  BY <1>2, <1>4, <1>5, <1>6, SeatingKept DEF StartInvariant, StartTypes, disk
<1>9. DirsOf(n)'
  BY <1>3, <1>4, <1>s, <1>6 DEF DirsOf, Others, Clear, Kept, Linked, disk, past
<1>10. Own(c, n) /\ GoesOn(c, n)
  BY <1>3, <1>4, <1>5, <1>6 DEF Own, GoesOn, past, disk, Locked
<1> QED
  BY <1>1, <1>2, <1>3, <1>5, <1>6, <1>7, <1>8, <1>9, <1>10, OwnStep

LEMMA SendStep ==
  ASSUME StartInvariant, NEW c \in Call, NEW refused \in BOOLEAN, Send(c, refused)
  PROVE  StartInvariant'
<1>1. PICK n : n = call[c].lane
  OBVIOUS
<1>2. call[c].pc = "send" /\ call[c].pc \in Locked
  BY DEF Send, At, Locked
<1>3. n \in Name /\ holder[n] = c /\ StageOf(c) /\ DirsOf(n) /\ call \in [Call -> CallRec]
  BY <1>1, <1>2, HolderKnows
<1>4. /\ UNCHANGED <<seated, disk, gate, standing, steering, excused, past>> /\ CallEnds(c, refused)
      /\ heard' = (IF standing THEN heard \cup {n} ELSE heard)
  BY <1>1 DEF Send, Lane
<1>s. status[n] = "open"
  BY <1>1, <1>2, <1>3 DEF StageOf, Stage
<1>5. /\ call' \in [Call -> CallRec] /\ holder' \in [Name -> Call \cup {0}]
      /\ adm' \in [Name -> {"none", "busy", "failed"}]
      /\ call'[c].pc = "idle" /\ holder'[n] = 0 /\ adm'[n] # "busy"
      /\ \A d \in Call : d # c => call'[d] = call[d]
      /\ \A m \in Name : m # n => holder'[m] = holder[m] /\ adm'[m] = adm[m]
  BY <1>1, <1>3, <1>4, EndsFacts DEF StartInvariant
<1>6. /\ status' \in [Name -> {"none", "idle", "open", "done"}] /\ status'[n] # "none"
      /\ \A m \in Name : m # n => status'[m] = status[m]
  <2>1. status' = [status EXCEPT ![n] = "idle"] \/ status' = status
    BY <1>1 DEF Send, Lane
  <2> QED
    BY <1>3, <1>s, <2>1 DEF StartInvariant, StartTypes
<1>7. StartTypes' /\ Seating'
  BY <1>2, <1>4, <1>5, <1>6, SeatingKept DEF StartInvariant, StartTypes, disk
<1>8. DirsOf(n)'
  BY <1>3, <1>4, <1>s, <1>6 DEF DirsOf, Others, Clear, Kept, Linked, disk, past
<1>9. Own(c, n) /\ Returns(c, n)
  BY <1>3, <1>4, <1>5, <1>6 DEF Own, Returns, past, disk
<1> QED
  BY <1>1, <1>2, <1>3, <1>4, <1>6, <1>7, <1>8, <1>9, OwnStep

(* work.start: a name that is being admitted is refused.                   *)
LEMMA BeginStep ==
  ASSUME StartInvariant, NEW c \in Call, NEW n \in Name, Begin(c, n)
  PROVE  StartInvariant'
<1>1. /\ call[c].pc = "idle" /\ (status[n] # "none" \/ adm[n] # "busy")
      /\ UNCHANGED <<status, seated, disk, holder, gate, directives, past>>
  BY DEF Begin, At, Admits
<1>2. /\ call' \in [Call -> CallRec] /\ call'[c].pc = "wait" /\ call'[c].lane = n /\ Fresh(call'[c])
      /\ \A d \in Call : d # c => call'[d] = call[d]
  <2>1. PICK r : r = [NoCall EXCEPT !.pc = "wait", !.lane = n]
    OBVIOUS
  <2>2. r \in CallRec /\ r.pc = "wait" /\ r.lane = n /\ Fresh(r)
    BY <2>1 DEF NoCall, CallRec, CallPcs, Fresh
  <2>3. call' = [call EXCEPT ![c] = r]
    BY <2>1 DEF Begin
  <2> QED
    BY <2>2, <2>3, BecomesFacts DEF StartInvariant, StartTypes
<1>3. /\ adm' \in [Name -> {"none", "busy", "failed"}]
      /\ \A m \in Name : m # n => adm'[m] = adm[m]
      /\ status[n] = "none" => adm'[n] = "busy"
  <2>1. adm' = [adm EXCEPT ![n] = "busy"] \/ (adm' = adm /\ status[n] # "none")
    BY DEF Begin
  <2> QED
    BY <2>1 DEF StartInvariant, StartTypes
<1>0. "idle" \notin Locked /\ "wait" \notin Locked /\ 0 \notin Call
  BY LaneStartAssumption DEF Locked
<1>4. StartTypes'
  BY <1>1, <1>2, <1>3 DEF StartInvariant, StartTypes, disk
<1>5. Holding'
  <2>1. \A m \in Name : holder[m] # 0 => holder[m] \in Call /\ holder[m] # c
    BY <1>0, <1>1 DEF StartInvariant, Holding, StartTypes
  <2> QED
    BY <1>0, <1>1, <1>2, <2>1 DEF StartInvariant, Holding
<1>6. Seating'
  BY <1>1, <1>2, SeatingKept
<1>7. Staged'
  <2> SUFFICES ASSUME NEW d \in Call, call'[d].pc \in Locked
               PROVE  StageOf(d)'
    BY DEF Staged
  <2>1. call'[d] = call[d] /\ StageOf(d)
    BY <1>0, <1>2 DEF StartInvariant, Staged
  <2> QED
    BY <1>1, <2>1 DEF StageOf, disk, past
<1>8. Dirs'
  <2> SUFFICES ASSUME NEW m \in Name PROVE DirsOf(m)'
    BY DEF Dirs
  <2>1. DirsOf(m) /\ (holder[m] # 0 => call'[holder[m]] = call[holder[m]])
    BY <1>0, <1>1, <1>2 DEF StartInvariant, Dirs, Holding, StartTypes
  <2> QED
    BY <1>1, <2>1 DEF DirsOf, Others, Clear, Kept, Linked, disk, past
<1>9. Admission'
  <2> SUFFICES ASSUME NEW m \in Name, status[m] = "none"
               PROVE  /\ \A d, e \in Call : In(d, m)' /\ In(e, m)' => d = e
                      /\ adm'[m] = "busy" <=> \E d \in Call : In(d, m)'
    BY <1>1 DEF Admission, Admitted
  <2>a. /\ \A d, e \in Call : In(d, m) /\ In(e, m) => d = e
        /\ adm[m] = "busy" <=> \E d \in Call : In(d, m)
    BY DEF StartInvariant, Admission, Admitted
  <2>1. CASE m # n
    <3>1. \A d \in Call : In(d, m)' <=> In(d, m)
      BY <1>1, <1>2, <2>1 DEF In
    <3> QED
      BY <1>3, <2>a, <2>1, <3>1
  <2>2. CASE m = n
    <3>1. \A d \in Call : ~In(d, n)
      BY <1>1, <2>a, <2>2
    <3>2. \A d \in Call : In(d, n)' <=> d = c
      BY <1>2, <3>1 DEF In
    <3> QED
      BY <1>3, <2>2, <3>2
  <2> QED
    BY <2>1, <2>2
<1>10. DirectiveHeard'
  BY <1>1, <1>2 DEF StartInvariant, DirectiveHeard, At, Lane, directives
<1> QED
  BY <1>4, <1>5, <1>6, <1>7, <1>8, <1>9, <1>10 DEF StartInvariant

(* The lock is taken, or an open attempt or a complete lane is refused.    *)
LEMMA EnterStep ==
  ASSUME StartInvariant, NEW c \in Call, Enter(c)
  PROVE  StartInvariant'
<1>1. PICK n : n = call[c].lane
  OBVIOUS
<1>2. /\ call[c].pc = "wait" /\ n \in Name /\ holder[n] = 0 /\ call \in [Call -> CallRec] /\ Fresh(call[c])
      /\ UNCHANGED <<status, seated, disk, gate, directives, past>>
  BY <1>1 DEF Enter, At, Free, Lane, StartInvariant, Holding, StartTypes
<1>3. DirsOf(n)
  BY <1>2 DEF StartInvariant, Dirs
<1>4. CASE status[n] \in {"open", "done"} /\ CallEnds(c, FALSE)
  <2>1. /\ call' \in [Call -> CallRec] /\ holder' \in [Name -> Call \cup {0}]
        /\ adm' \in [Name -> {"none", "busy", "failed"}]
        /\ call'[c].pc = "idle" /\ holder'[n] = 0 /\ adm'[n] # "busy"
        /\ \A d \in Call : d # c => call'[d] = call[d]
        /\ \A m \in Name : m # n => holder'[m] = holder[m] /\ adm'[m] = adm[m]
    BY <1>1, <1>2, <1>4, EndsFacts DEF StartInvariant
  <2>2. StartTypes' /\ Seating'
    BY <1>2, <2>1, SeatingKept DEF StartInvariant, StartTypes, disk
  <2>3. DirsOf(n)'
    BY <1>2, <1>3, <1>4 DEF DirsOf, Others, Clear, Kept, Linked, disk, past
  <2>4. Own(c, n) /\ Returns(c, n)
    BY <1>2, <2>1 DEF Own, Returns, directives, past, disk
  <2>5. standing => n \in heard' \cup excused' \cup steering' \/ status[n] # "open"
    <3>1. \A d \in Call : ~(call[d].pc = "send" /\ call[d].lane = n)
      BY <1>2, LaneStartAssumption DEF StartInvariant, Holding, Locked
    <3> QED
      BY <1>2, <3>1 DEF StartInvariant, DirectiveHeard, At, Lane, directives
  <2> QED
    BY <1>1, <1>2, <2>2, <2>3, <2>4, <2>5, OwnStep
<1>5. CASE /\ status[n] \notin {"open", "done"} /\ holder' = [holder EXCEPT ![n] = c] /\ adm' = adm
           /\ call' = Goto(c, IF status[n] = "none" THEN "mkdir" ELSE "bind")
  <2>1. PICK p \in CallPcs : p = IF status[n] = "none" THEN "mkdir" ELSE "bind"
    BY PlacesKnown
  <2>2. /\ call' \in [Call -> CallRec] /\ call'[c].pc = p /\ call'[c].lane = n
        /\ call'[c].ownsTree = call[c].ownsTree /\ call'[c].ownsRepo = call[c].ownsRepo
        /\ call'[c].made = call[c].made /\ call'[c].saved = call[c].saved /\ call'[c].tried = call[c].tried
        /\ \A d \in Call : d # c => call'[d] = call[d]
    <3>1. call' = Goto(c, p)
      BY <1>5, <2>1
    <3> QED
      BY <1>1, <1>2, <3>1, GotoFacts
  <2>3. /\ ~call'[c].ownsTree /\ ~call'[c].ownsRepo
        /\ ~call'[c].made /\ ~call'[c].saved /\ ~call'[c].tried
    BY <1>2, <2>2 DEF Fresh
  <2>4. (status[n] = "none" /\ p = "mkdir") \/ (status[n] = "idle" /\ p = "bind")
    BY <1>2, <1>5, <2>1 DEF StartInvariant, StartTypes
  <2>5. StageOf(c)'
    BY <1>2, <2>2, <2>3, <2>4 DEF StageOf, Stage
  <2>6. /\ holder' \in [Name -> Call \cup {0}] /\ holder'[n] = c
        /\ \A m \in Name : m # n => holder'[m] = holder[m]
    BY <1>2, <1>5 DEF StartInvariant, StartTypes
  <2>7. StartTypes' /\ Seating'
    BY <1>2, <1>5, <2>2, <2>4, <2>6, SeatingKept DEF StartInvariant, StartTypes, disk
  <2>8. DirsOf(n)'
    BY <1>2, <1>3, <2>2, <2>4, <2>6 DEF DirsOf, Others, Clear, Kept, Linked, disk, past
  <2>9. Own(c, n) /\ GoesOn(c, n)
    BY <1>2, <1>5, <2>2, <2>4, <2>6 DEF Own, GoesOn, directives, past, disk, Locked
  <2> QED
    BY <1>1, <1>2, <1>5, <2>5, <2>7, <2>8, <2>9, OwnStep
<1> QED
  BY <1>1, <1>4, <1>5 DEF Enter, Lane

(* A lane whose lock is free, or whose attempt is open and already sent,   *)
(* has no call under its lock.                                             *)
LEMMA SentIsFree ==
  ASSUME StartInvariant, NEW n \in Name, status[n] = "open",
         \A c \in Call : ~(call[c].pc = "send" /\ call[c].lane = n)
  PROVE  holder[n] = 0
<1> SUFFICES ASSUME holder[n] # 0 PROVE FALSE
  OBVIOUS
<1>1. PICK c \in Call : c = holder[n]
  BY DEF StartInvariant, StartTypes
<1>2. call[c].pc \in Locked /\ call[c].lane = n /\ call[c].pc # "send"
  BY <1>1 DEF StartInvariant, Holding
<1>3. StageOf(c)
  BY <1>2 DEF StartInvariant, Staged
<1> QED
  BY <1>2, <1>3 DEF StageOf, Stage, Locked

(* A step about the lane n that no call takes, while its lock is free.     *)
LEMMA AsideStep ==
  ASSUME StartInvariant, NEW n \in Name, holder[n] = 0, UNCHANGED <<call, holder, gate, adm, foreign, messy>>,
         StartTypes', Seating', DirectiveHeard', DirsOf(n)', status'[n] = "none" <=> status[n] = "none",
         \A m \in Name : m # n => /\ status'[m] = status[m] /\ tree'[m] = tree[m] /\ repo'[m] = repo[m]
                                  /\ (m \in dropped => m \in dropped')
  PROVE  StartInvariant'
<1>1. Holding'
  BY DEF StartInvariant, Holding
<1>2. Staged'
  <2> SUFFICES ASSUME NEW c \in Call, call[c].pc \in Locked PROVE StageOf(c)'
    BY DEF Staged
  <2>1. call[c].lane \in Name /\ call[c].lane # n /\ StageOf(c)
    BY LaneStartAssumption DEF StartInvariant, Holding, Staged
  <2>2. PICK m \in Name : m = call[c].lane
    BY <2>1
  <2> QED
    BY <2>1, <2>2 DEF StageOf
<1>3. Dirs'
  <2> SUFFICES ASSUME NEW m \in Name, m # n PROVE DirsOf(m)'
    BY DEF Dirs
  <2>1. DirsOf(m)
    BY DEF StartInvariant, Dirs
  <2> QED
    BY <2>1 DEF DirsOf, Others, Clear, Kept, Linked
<1>4. Admission'
  <2> SUFFICES ASSUME NEW m \in Name PROVE Admitted(m)'
    BY DEF Admission
  <2>1. Admitted(m) /\ (status'[m] = "none" <=> status[m] = "none")
    BY DEF StartInvariant, Admission
  <2> QED
    BY <2>1 DEF Admitted, In
<1> QED
  BY <1>1, <1>2, <1>3, <1>4 DEF StartInvariant

LEMMA SettlesStep ==
  ASSUME StartInvariant, NEW n \in Name, NEW complete \in BOOLEAN, LaneSettles(n, complete)
  PROVE  StartInvariant'
<1>1. /\ status[n] = "open" /\ UNCHANGED <<seated, disk, adm, holder, gate, call, directives, past>>
      /\ \A c \in Call : ~(call[c].pc = "send" /\ call[c].lane = n)
  BY DEF LaneSettles, At, Lane
<1>2. PICK s \in {"idle", "done"} : status' = [status EXCEPT ![n] = s]
  BY DEF LaneSettles
<1>3. /\ status' \in [Name -> {"none", "idle", "open", "done"}] /\ status'[n] = s
      /\ \A m \in Name : m # n => status'[m] = status[m]
  BY <1>2 DEF StartInvariant, StartTypes
<1>4. holder[n] = 0
  BY <1>1, SentIsFree
<1>5. StartTypes' /\ Seating'
  BY <1>1, <1>3 DEF StartInvariant, StartTypes, Seating, disk
<1>6. DirectiveHeard'
  BY <1>1, <1>3 DEF StartInvariant, DirectiveHeard, At, Lane, directives
<1>7. DirsOf(n)'
  <2>1. DirsOf(n)
    BY DEF StartInvariant, Dirs
  <2> QED
    BY <1>1, <1>3, <2>1 DEF DirsOf, Others, Clear, Kept, Linked, disk, past
<1>8. UNCHANGED <<call, holder, gate, adm, foreign, messy, tree, repo, dropped>>
  BY <1>1 DEF disk, past
<1> QED
  BY <1>1, <1>3, <1>4, <1>5, <1>6, <1>7, <1>8, AsideStep

LEMMA SteerStep ==
  ASSUME StartInvariant, NEW n \in Name, NEW ok \in BOOLEAN, SteerDirective(n, ok)
  PROVE  StartInvariant'
<1>1. /\ UNCHANGED <<status, seated, disk, adm, holder, gate, call, standing, past>> /\ holder[n] = 0
      /\ steering' = steering \ {n} /\ n \in heard' \cup excused'
      /\ \A m \in Name : m \in heard \cup excused => m \in heard' \cup excused'
  BY DEF SteerDirective, Free
<1>2. StartTypes' /\ Seating'
  BY <1>1 DEF StartInvariant, StartTypes, Seating, disk
<1>3. DirectiveHeard'
  <2> SUFFICES ASSUME NEW m \in Name, standing, status[m] = "open",
                      \A c \in Call : ~(call[c].pc = "send" /\ call[c].lane = m)
               PROVE  m \in heard' \cup excused' \cup steering'
    BY <1>1 DEF DirectiveHeard, At, Lane
  <2>1. m \in heard \cup excused \cup steering
    BY DEF StartInvariant, DirectiveHeard, At, Lane
  <2> QED
    BY <1>1, <2>1
<1>4. DirsOf(n)'
  <2>1. DirsOf(n)
    BY DEF StartInvariant, Dirs
  <2> QED
    BY <1>1, <2>1 DEF DirsOf, Others, Clear, Kept, Linked, disk, past
<1>5. UNCHANGED <<call, holder, gate, adm, foreign, messy, tree, repo, dropped>>
  BY <1>1 DEF disk, past
<1> QED
  BY <1>1, <1>2, <1>3, <1>4, <1>5, AsideStep

LEMMA DirectiveStep ==
  ASSUME StartInvariant, AddDirective
  PROVE  StartInvariant'
<1>1. /\ UNCHANGED <<status, seated, disk, adm, holder, gate, call, heard, excused, past>>
      /\ steering' = {n \in Name : status[n] = "open"}
  BY DEF AddDirective
<1>2. StartTypes' /\ Holding' /\ Seating'
  BY <1>1 DEF StartInvariant, StartTypes, Holding, Seating, disk
<1>3. Staged'
  BY <1>1 DEF StartInvariant, Staged, StageOf, disk, past
<1>4. Dirs' /\ Admission'
  BY <1>1 DEF StartInvariant, Dirs, DirsOf, Others, Clear, Kept, Linked, Admission, Admitted, In, disk, past
<1>5. DirectiveHeard'
  BY <1>1 DEF DirectiveHeard
<1> QED
  BY <1>2, <1>3, <1>4, <1>5 DEF StartInvariant

(* work.retire: somebody else's directory has no repository, and is left.  *)
LEMMA RetireStep ==
  ASSUME StartInvariant, NEW n \in Name, NEW operator \in BOOLEAN, NEW gone \in BOOLEAN, NEW cleared \in BOOLEAN,
         RetireLane(n, operator, gone, cleared)
  PROVE  StartInvariant'
<1> DEFINE cleans == operator /\ repo[n] # "none"
<1>1. /\ n \in seated /\ holder[n] = 0 /\ status[n] # "open" /\ (cleared => gone)
      /\ UNCHANGED <<status, adm, holder, gate, call, directives, foreign, messy>>
  BY DEF RetireLane, Free
<1>2. /\ tree' = IF cleans /\ gone THEN [tree EXCEPT ![n] = "none"] ELSE tree
      /\ repo' = IF cleans /\ cleared THEN [repo EXCEPT ![n] = "none"] ELSE repo
      /\ seated' = IF cleans /\ ~cleared THEN seated ELSE seated \ {n}
      /\ dropped' = IF cleans THEN dropped \cup {n} ELSE dropped
  BY DEF RetireLane
<1>3. DirsOf(n)
  BY DEF StartInvariant, Dirs
<1>4. /\ tree' \in [Name -> {"none", "foreign", "dir", "linked"}]
      /\ tree'[n] = (IF cleans /\ gone THEN "none" ELSE tree[n])
      /\ \A m \in Name : m # n => tree'[m] = tree[m]
  BY <1>2 DEF StartInvariant, StartTypes
<1>5. /\ repo' \in [Name -> {"none", "dir", "clone"}]
      /\ repo'[n] = (IF cleans /\ cleared THEN "none" ELSE repo[n])
      /\ \A m \in Name : m # n => repo'[m] = repo[m]
  BY <1>2 DEF StartInvariant, StartTypes
<1>6. StartTypes'
  BY <1>1, <1>4, <1>5 DEF StartInvariant, StartTypes
<1>7. Seating'
  <2>1. CASE seated' = seated
    BY <1>1, <2>1 DEF StartInvariant, Seating
  <2>2. CASE seated' = seated \ {n}
    <3>1. IsFiniteSet(seated) /\ Cardinality(seated) <= Cap /\ Cardinality(seated) \in Nat
      BY FS_CardinalityType DEF StartInvariant, Seating
    <3>2. IsFiniteSet(seated') /\ Cardinality(seated') = Cardinality(seated) - 1
      BY <1>1, <2>2, <3>1, FS_RemoveElement
    <3>3. Cardinality(seated') < Cap
      BY <3>1, <3>2, LaneStartAssumption
    <3>4. Cardinality(seated') <= Cap
      BY <3>1, <3>2, <3>3, LaneStartAssumption
    <3> QED
      BY <1>1, <3>2, <3>3, <3>4 DEF StartInvariant, Seating
  <2> QED
    BY <1>2, <2>1, <2>2
<1>8. DirectiveHeard'
  BY <1>1 DEF StartInvariant, DirectiveHeard, At, Lane, directives
<1>9. DirsOf(n)'
  <2>1. CASE cleans
    <3>1. n \notin foreign /\ n \in dropped'
      BY <1>2, <1>3, <2>1 DEF DirsOf, Others
    <3>2. Linked(n)'
      BY <1>1, <1>3, <1>4, <1>5 DEF DirsOf, Linked
    <3>3. Clear(n)'
      BY <1>1, <1>3, <1>4, <1>5 DEF DirsOf, Clear
    <3> QED
      BY <1>1, <3>1, <3>2, <3>3 DEF DirsOf, Others, Kept
  <2>2. CASE ~cleans
    BY <1>1, <1>2, <1>3, <2>2 DEF DirsOf, Others, Clear, Kept, Linked
  <2> QED
    BY <2>1, <2>2
<1>10. \A m \in Name : m # n => (m \in dropped => m \in dropped')
  BY <1>2
<1> QED
  BY <1>1, <1>4, <1>5, <1>6, <1>7, <1>8, <1>9, <1>10, AsideStep

(* The gateway dies: the lanes it was making are left as they are, and the *)
(* attempts it had not sent will not hear what stands.                     *)
LEMMA DiesStep ==
  ASSUME StartInvariant, StartDies
  PROVE  StartInvariant'
<1>1. /\ messy' = messy \cup {n \in Name : status[n] = "none" /\ holder[n] # 0}
      /\ excused' = excused \cup steering \cup {Lane(c) : c \in {d \in Call : At(d, "send")}}
      /\ adm' = [n \in Name |-> "none"] /\ holder' = [n \in Name |-> 0] /\ gate' = 0
      /\ call' = [c \in Call |-> NoCall]
      /\ UNCHANGED <<status, seated, disk, standing, heard, foreign, dropped>>
  BY DEF StartDies
<1>2. \A c \in Call : call'[c] = NoCall /\ call'[c].pc = "idle"
  BY <1>1 DEF NoCall
<1>3. StartTypes'
  <2>1. NoCall \in CallRec
    BY DEF NoCall, CallRec, CallPcs
  <2> QED
    BY <1>1, <2>1 DEF StartInvariant, StartTypes, disk
<1>4. Holding'
  BY <1>1, <1>2 DEF Holding, Locked
<1>5. Seating'
  <2>1. gate' \notin Call
    BY <1>1, LaneStartAssumption
  <2> QED
    BY <1>1, <1>2, <2>1 DEF StartInvariant, Seating
<1>6. Staged'
  BY <1>2 DEF Staged, Locked
<1>7. Dirs'
  <2> SUFFICES ASSUME NEW n \in Name PROVE DirsOf(n)'
    BY DEF Dirs
  <2>1. DirsOf(n)
    BY DEF StartInvariant, Dirs
  <2>2. Clear(n)'
    BY <1>1, <2>1 DEF DirsOf, Clear, disk
  <2> QED
    BY <1>1, <2>1, <2>2 DEF DirsOf, Others, Kept, Linked, disk
<1>8. Admission'
  BY <1>1, <1>2 DEF Admission, Admitted, In
<1>9. DirectiveHeard'
  <2> SUFFICES ASSUME NEW n \in Name, standing, status[n] = "open"
               PROVE  n \in heard' \cup excused'
    BY <1>1 DEF DirectiveHeard
  <2>1. CASE \A c \in Call : ~(At(c, "send") /\ Lane(c) = n)
    BY <1>1, <2>1 DEF StartInvariant, DirectiveHeard
  <2>2. CASE \E c \in Call : At(c, "send") /\ Lane(c) = n
    BY <1>1, <2>2
  <2> QED
    BY <2>1, <2>2
<1> QED
  BY <1>3, <1>4, <1>5, <1>6, <1>7, <1>8, <1>9 DEF StartInvariant

LEMMA StartRests ==
  ASSUME StartInvariant, UNCHANGED starting
  PROVE  StartInvariant'
<1> USE DEF starting, disk, directives, past
<1>1. StartTypes' /\ Holding' /\ Seating'
  BY DEF StartInvariant, StartTypes, Holding, Seating
<1>2. Staged'
  BY DEF StartInvariant, Staged, StageOf
<1>3. Dirs' /\ Admission'
  BY DEF StartInvariant, Dirs, DirsOf, Others, Clear, Kept, Linked, Admission, Admitted, In
<1>4. DirectiveHeard'
  BY DEF StartInvariant, DirectiveHeard, At, Lane
<1> QED
  BY <1>1, <1>2, <1>3, <1>4 DEF StartInvariant

LEMMA StartNextStep ==
  ASSUME StartInvariant, [StartNext]_starting
  PROVE  StartInvariant'
<1>1. ASSUME NEW c \in Call, NEW n \in Name, Begin(c, n) PROVE StartInvariant'
  BY <1>1, BeginStep
<1>2. ASSUME NEW c \in Call, Enter(c) \/ MakeTree(c) \/ MakeRepo(c) \/ Clone(c) \/ AddTree(c)
      PROVE  StartInvariant'
  BY <1>2, EnterStep, MakeTreeStep, MakeRepoStep, CloneStep, AddTreeStep
<1>3. ASSUME NEW c \in Call, NEW b \in BOOLEAN, GitFails(c, b) \/ Send(c, b) PROVE StartInvariant'
  BY <1>3, GitFailsStep, SendStep
<1>4. ASSUME NEW c \in Call, NEW gone \in BOOLEAN, NEW cleared \in BOOLEAN,
             Clean(c, gone, cleared) \/ Undo(c, gone, cleared)
      PROVE  StartInvariant'
  BY <1>4, CleanStep, UndoStep
<1>5. ASSUME NEW c \in Call, BindTry(c) \/ BindDone(c) \/ BindAgain(c) \/ StartFails(c) \/ PrepareAttempt(c)
      PROVE  StartInvariant'
  BY <1>5, BindTryStep, BindDoneStep, BindAgainStep, StartFailsStep, PrepareAttemptStep
<1>6. ASSUME NEW n \in Name, NEW b \in BOOLEAN, LaneSettles(n, b) \/ SteerDirective(n, b) PROVE StartInvariant'
  BY <1>6, SettlesStep, SteerStep
<1>7. ASSUME NEW n \in Name, NEW operator \in BOOLEAN, NEW gone \in BOOLEAN, NEW cleared \in BOOLEAN,
             RetireLane(n, operator, gone, cleared)
      PROVE  StartInvariant'
  BY <1>7, RetireStep
<1>8. ASSUME AddDirective \/ StartDies PROVE StartInvariant'
  BY <1>8, DirectiveStep, DiesStep
<1>9. ASSUME UNCHANGED starting PROVE StartInvariant'
  BY <1>9, StartRests
<1> QED
  BY <1>1, <1>2, <1>3, <1>4, <1>5, <1>6, <1>7, <1>8, <1>9 DEF StartNext

(* Lanes start whole or not at all, for any number of lanes, calls, seats, *)
(* failing commands and crashes: the gateway never leaves a worktree whose *)
(* repository is gone, keeps the worktree a job names whatever start       *)
(* failed, gives a name back clean when its start failed, counts one       *)
(* admission a name and no more lanes than the cap, and a standing         *)
(* directive misses no attempt its adder is not told of.                   *)
THEOREM StartsWhole == StartSpec => []LanesStart
<1>1. StartInvariant /\ [StartNext]_starting => StartInvariant'
  BY StartNextStep
<1> QED
  BY <1>1, StartBegins, StartInvariantHolds, PTL DEF StartSpec
=============================================================================

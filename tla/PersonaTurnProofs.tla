-------------------------- MODULE PersonaTurnProofs --------------------------
(***************************************************************************)
(* Theorems about one conversation, for every number of messages, epochs   *)
(* and requeues.                                                           *)
(***************************************************************************)
EXTENDS PersonaTurn, TLAPS, FiniteSetTheorems

USE BoundAssumption

-----------------------------------------------------------------------------
(* The strengthening. An open row names an operation of an epoch not later *)
(* than the origin's, under the attempt counted last; without a send       *)
(* intent its prompt is nowhere; in an epoch the origin has left it was    *)
(* fenced by /new or escalated, and an escalated one may have landed.      *)
OpenOK(m) ==
  /\ row[m].op.epoch <= epoch
  /\ row[m].op.try = tries[m][row[m].op.epoch]
  /\ ~row[m].sent => host[row[m].op] = "none"
  /\ row[m].op.epoch < epoch =>
       \/ row[m].op \in fenced
       \/ row[m].op \in escalated /\ ~Unadmitted(row[m].op)

OpenInv == \A m \in Messages : Open(m) => OpenOK(m)

(* A prompt that ever left is named by its row or superseded by a counted  *)
(* attempt, so the next attempt's operation is a fresh name.               *)
UsedInv ==
  \A o \in Ops : host[o] # "none" => row[o.msg].op = o \/ o.try < tries[o.msg][o.epoch]

(* What the actor's task knows at each of its awaits.                      *)
PhaseInv ==
  /\ pc \in {"bound", "prepared", "sending"} => cur # NoOp /\ row[cur.msg].st = "bound"
  /\ pc \in {"bound", "prepared"} => ~row[cur.msg].sent
  /\ pc = "sending" => row[cur.msg].sent
  /\ pc = "steering" => steered \in Messages /\ row[steered].st = "steer" /\ row[steered].op = cur
  /\ pc \in {"free", "steering"} /\ cur # NoOp => ~Unadmitted(cur)
  /\ pc = "down" => cur = NoOp /\ retired = {}

(* A retired hold still has its row, and /new or an escalation made it.    *)
RetiredInv ==
  \A o \in retired :
    Open(o.msg) /\ row[o.msg].op = o /\ o \in fenced \cup escalated /\ o # cur

(* The two halves of OneOwner.                                             *)
Unique ==
  \A m, n \in Messages : Open(m) /\ Open(n) /\ row[m].op.epoch = row[n].op.epoch => m = n
CurInv == cur # NoOp => Open(cur.msg) /\ row[cur.msg].op = cur /\ cur.epoch = epoch

RowInv == OpenInv /\ UsedInv /\ Unique /\ NoOrphan /\ NoSilentEnd
ActorInv == CurInv /\ PhaseInv /\ RetiredInv
IInv == TypeOK /\ RowInv /\ ActorInv

-----------------------------------------------------------------------------
(* What the type invariant says of one operation and of one row.           *)
LEMMA OpFacts ==
  ASSUME NEW o \in Ops
  PROVE  /\ o.msg \in Messages /\ o.epoch \in Epochs /\ o.try \in 0..MaxTries
         /\ o # NoOp /\ o.epoch \in Int /\ o.try \in Int
BY DEF Ops, NoOp, Messages, Epochs

LEMMA RowFacts ==
  ASSUME TypeOK, NEW m \in Messages
  PROVE  /\ row[m] \in Row /\ row[m].st \in RowStates /\ row[m].sent \in BOOLEAN
         /\ row[m].op \in Ops \cup {NoOp} /\ row[m].claim \in SUBSET Messages
         /\ Open(m) => row[m].op \in Ops /\ row[m].op.msg = m
         /\ row[m].st = "steer" => row[m].op \in Ops /\ row[m].op.msg # m
         /\ row[m].st \in {"absent", "recorded", "pending"} => row[m] = Plain(row[m].st)
         /\ row[m].st \in {"absent", "recorded", "pending"} => row[m].op = NoOp /\ ~Open(m)
         /\ row[m].st = "steer" => ~Open(m)
         /\ NoOp.msg # m
BY DEF TypeOK, RowShape, Open, Row, Plain, NoOp, Messages

-----------------------------------------------------------------------------
(* A step that leaves the session alone treats each row in one of four     *)
(* ways: an open row stays open, an unowned row stays unowned, an open row *)
(* whose prompt cannot act is released under a new attempt, or it is       *)
(* closed behind an answer, a notice or /new.                              *)
Kept(m) ==
  /\ Open(m) /\ Open(m)' /\ row'[m].op = row[m].op
  /\ row'[m].st = "bound" => row[m].st = "bound"
  /\ row[m].sent => row'[m].sent
  /\ tries'[m] = tries[m]
  /\ row[m].op \in escalated => row[m].op \in escalated'
Quiet(m) ==
  /\ ~Open(m) /\ ~Open(m)'
  /\ row'[m].op = row[m].op \/ (row[m].op.msg # m /\ row'[m].op.msg # m)
  /\ row'[m].st = "done" /\ row'[m].op.msg = m => row[m].st = "done" /\ row'[m].op = row[m].op
Released(m) ==
  /\ Open(m) /\ row'[m] = Plain("pending") /\ host[row[m].op] \notin MayAct
  /\ row[m].op.try < tries'[m][row[m].op.epoch]
Closed(m) ==
  /\ Open(m) /\ row'[m].st = "done" /\ row'[m].op = row[m].op
  /\ row[m].op \in told' \cup fenced'

RowStep ==
  /\ host' = host /\ told \subseteq told' /\ fenced \subseteq fenced'
  /\ epoch' >= epoch
  /\ \A m \in Messages, e \in Epochs : tries[m][e] <= tries'[m][e]
  /\ \A m \in Messages : Kept(m) \/ Quiet(m) \/ Released(m) \/ Closed(m)
  /\ epoch' # epoch => \A m \in Messages : Kept(m) /\ row[m].op.epoch = epoch =>
       row[m].op \in fenced' \/ (row[m].op \in escalated' /\ ~Unadmitted(row[m].op))

LEMMA RowStepLemma ==
  ASSUME IInv, TypeOK', RowStep PROVE RowInv'
<1> USE DEF IInv, RowInv
<1>1. ASSUME NEW m \in Messages, Open(m)' PROVE Kept(m)
  BY <1>1 DEF RowStep, Quiet, Released, Closed, Open, Plain
<1>2. OpenInv'
  <2> SUFFICES ASSUME NEW m \in Messages, Open(m)' PROVE OpenOK(m)'
    BY DEF OpenInv
  <2>1. Kept(m) /\ OpenOK(m) /\ row[m].op \in Ops /\ row[m].op.msg = m
    BY <1>1, RowFacts DEF OpenInv, Kept
  <2>2. row[m].op.epoch \in Int /\ epoch \in Int /\ epoch' \in Int
    BY <2>1, OpFacts DEF TypeOK, Epochs
  <2>3. Unadmitted(row[m].op)' => Unadmitted(row[m].op)
    BY <2>1 DEF Unadmitted, Kept, RowStep
  <2>4. row'[m].op.epoch <= epoch' /\ row'[m].op.try = tries'[m][row'[m].op.epoch]
    BY <2>1, <2>2 DEF OpenOK, Kept, RowStep
  <2>5. ~row'[m].sent => host'[row'[m].op] = "none"
    BY <2>1 DEF OpenOK, Kept, RowStep
  <2>6. row'[m].op.epoch < epoch' =>
          \/ row'[m].op \in fenced'
          \/ row'[m].op \in escalated' /\ ~Unadmitted(row[m].op)'
    <3>1. CASE row[m].op.epoch < epoch
      BY <3>1, <2>1, <2>3 DEF OpenOK, Kept, RowStep
    <3>2. CASE row[m].op.epoch = epoch
      BY <3>2, <2>1, <2>2, <2>3 DEF Kept, RowStep
    <3> QED BY <3>1, <3>2, <2>1, <2>2 DEF OpenOK
  <2> QED BY <2>1, <2>4, <2>5, <2>6 DEF OpenOK, Kept
<1>3. ASSUME NEW o \in Ops, row[o.msg].op = o PROVE row'[o.msg].op = o \/ Released(o.msg)
  BY <1>3, OpFacts DEF RowStep, Kept, Quiet, Closed
<1>4. UsedInv'
  <2> SUFFICES ASSUME NEW o \in Ops, host'[o] # "none", row'[o.msg].op # o
               PROVE  o.try < tries'[o.msg][o.epoch]
    BY DEF UsedInv
  <2>1. CASE row[o.msg].op = o
    BY <2>1, <1>3, OpFacts DEF Released
  <2>2. CASE row[o.msg].op # o
    <3>1. o.try < tries[o.msg][o.epoch]
      BY <2>2 DEF UsedInv, RowStep
    <3>2. tries[o.msg][o.epoch] \in Int /\ tries'[o.msg][o.epoch] \in Int
      BY OpFacts DEF TypeOK
    <3> QED BY <3>1, <3>2, OpFacts DEF RowStep
  <2> QED BY <2>1, <2>2
<1>5. Unique'
  BY <1>1 DEF Unique, Kept
<1>6. NoOrphan'
  <2> SUFFICES ASSUME NEW o \in Ops, host'[o] \in MayAct PROVE row'[o.msg].op = o
    BY DEF NoOrphan
  <2>1. row[o.msg].op = o /\ host[o] \in MayAct
    BY DEF NoOrphan, RowStep
  <2> QED BY <2>1, <1>3 DEF Released
<1>7. NoSilentEnd'
  <2> SUFFICES ASSUME NEW m \in Messages, row'[m].st = "done", row'[m].op.msg = m
               PROVE  row'[m].op \in told' \cup fenced'
    BY DEF NoSilentEnd
  <2>1. Quiet(m) \/ Closed(m)
    BY DEF RowStep, Kept, Released, Open, Plain
  <2>2. CASE Quiet(m)
    BY <2>2 DEF Quiet, NoSilentEnd, RowStep
  <2>3. CASE Closed(m)
    BY <2>3 DEF Closed
  <2> QED BY <2>1, <2>2, <2>3
<1> QED BY <1>2, <1>4, <1>5, <1>6, <1>7

(* A row the step does not touch, and one it touches that no operation of  *)
(* its own names.                                                          *)
LEMMA SameRow ==
  ASSUME TypeOK, NEW m \in Messages, row'[m] = row[m], tries'[m] = tries[m],
         row[m].op \in escalated => row[m].op \in escalated'
  PROVE  Kept(m) \/ Quiet(m)
BY DEF Kept, Quiet, Open

LEMMA QuietRow ==
  ASSUME TypeOK, TypeOK', NEW m \in Messages, row[m].op.msg # m, row'[m].op.msg # m
  PROVE  Quiet(m)
BY DEF Quiet, Open, TypeOK, RowShape

LightRows ==
  \A m \in Messages : row'[m] = row[m] \/ (row[m].op.msg # m /\ row'[m].op.msg # m)

(* Steps that touch only rows without an operation of their own.           *)
LEMMA LightLemma ==
  ASSUME IInv, TypeOK', LightRows, told \subseteq told',
         UNCHANGED <<tries, epoch, escalated, fenced, host, cur, retired>>
  PROVE  /\ RowInv' /\ CurInv' /\ RetiredInv'
         /\ cur # NoOp => row'[cur.msg] = row[cur.msg] /\ cur.msg \in Messages
<1> USE DEF IInv
<1>1. ASSUME NEW m \in Messages PROVE Kept(m) \/ Quiet(m)
  <2>1. CASE row'[m] = row[m]
    BY <2>1, SameRow
  <2>2. CASE row'[m] # row[m]
    BY <2>2, QuietRow DEF LightRows
  <2> QED BY <2>1, <2>2
<1>2. \A m \in Messages, e \in Epochs : tries[m][e] <= tries'[m][e]
  <2> SUFFICES ASSUME NEW m \in Messages, NEW e \in Epochs PROVE tries[m][e] <= tries'[m][e]
    OBVIOUS
  <2>1. tries[m][e] \in Int
    BY DEF TypeOK
  <2> QED BY <2>1
<1>3. epoch \in Int
  BY DEF TypeOK, Epochs
<1>4. RowInv'
  BY <1>1, <1>2, <1>3, RowStepLemma DEF RowStep
<1>5. ASSUME NEW m \in Messages, Open(m) PROVE row'[m] = row[m]
  BY <1>5, RowFacts DEF LightRows
<1>6. cur # NoOp => cur.msg \in Messages /\ row'[cur.msg] = row[cur.msg]
  BY <1>5, OpFacts DEF TypeOK, ActorInv, CurInv
<1>7. CurInv'
  BY <1>6 DEF ActorInv, CurInv, Open
<1>8. RetiredInv'
  <2> SUFFICES ASSUME NEW o \in retired
               PROVE (Open(o.msg) /\ row[o.msg].op = o /\ o \in fenced \cup escalated /\ o # cur)'
    BY DEF RetiredInv
  <2>1. o.msg \in Messages /\ Open(o.msg) /\ row[o.msg].op = o /\ o \in fenced \cup escalated /\ o # cur
    BY OpFacts DEF TypeOK, ActorInv, RetiredInv
  <2> QED BY <2>1, <1>5 DEF Open
<1> QED BY <1>4, <1>6, <1>7, <1>8

(* The phase of a task that does not move and whose turn's row it does not *)
(* touch.                                                                  *)
LEMMA PhaseLemma ==
  ASSUME PhaseInv, CurInv, cur \in Ops \cup {NoOp},
         UNCHANGED <<pc, cur, retired, host, steered>>,
         cur # NoOp => row'[cur.msg] = row[cur.msg],
         pc = "steering" => row'[steered] = row[steered]
  PROVE  PhaseInv'
BY OpFacts DEF PhaseInv, CurInv, Unadmitted

(* One row replaced.                                                       *)
ShapeOK(m, r) ==
  /\ r \in Row
  /\ r.st \in {"absent", "recorded", "pending"} => r = Plain(r.st)
  /\ r.st \in {"bound", "accepted"} => r.op \in Ops /\ r.op.msg = m
  /\ r.st = "steer" => r.op \in Ops /\ r.op.msg # m

RowsOK == row \in [Messages -> Row] /\ \A m \in Messages : RowShape(m)

LEMMA PutRow ==
  ASSUME TypeOK, NEW m \in Messages, NEW r, ShapeOK(m, r), row' = [row EXCEPT ![m] = r]
  PROVE  /\ RowsOK' /\ row'[m] = r
         /\ \A n \in Messages \ {m} : row'[n] = row[n]
<1>1. row' \in [Messages -> Row] /\ row'[m] = r /\ \A n \in Messages \ {m} : row'[n] = row[n]
  BY DEF TypeOK, ShapeOK
<1>2. ASSUME NEW n \in Messages PROVE RowShape(n)'
  <2>1. CASE n = m
    BY <1>1, <2>1 DEF ShapeOK, RowShape, Plain
  <2>2. CASE n # m
    BY <1>1, <2>2 DEF TypeOK, RowShape, Plain
  <2> QED BY <2>1, <2>2
<1> QED BY <1>1, <1>2 DEF RowsOK

-----------------------------------------------------------------------------
(* Intake.                                                                 *)
LEMMA RecordStep ==
  ASSUME IInv, NEW m \in Messages, Record(m) \/ Enqueue(m) PROVE IInv'
<1> USE DEF IInv
<1>1. /\ row[m].op = NoOp /\ row[m].st \in {"absent", "recorded"}
      /\ row' = [row EXCEPT ![m] = Plain("recorded")] \/ row' = [row EXCEPT ![m] = Plain("pending")]
      /\ unread' \in SUBSET Messages
      /\ UNCHANGED <<epoch, tries, escalated, historyVars, actorVars, hostVars>>
  BY RowFacts DEF Record, Enqueue, TypeOK
<1>2. TypeOK'
  <2>1. ShapeOK(m, Plain("recorded")) /\ ShapeOK(m, Plain("pending"))
    BY DEF ShapeOK, Plain, Row, RowStates
  <2>2. RowsOK'
    BY <1>1, <2>1, PutRow
  <2> QED BY <1>1, <2>2 DEF RowsOK, TypeOK, historyVars, actorVars, hostVars
<1>3. LightRows
  <2>1. row' \in {[row EXCEPT ![m] = Plain("recorded")], [row EXCEPT ![m] = Plain("pending")]}
    BY <1>1
  <2>2. \A n \in Messages : n # m => row'[n] = row[n]
    BY <2>1 DEF TypeOK
  <2>3. row'[m].op = NoOp
    BY <2>1 DEF TypeOK, Plain
  <2>4. row[m].op.msg # m /\ row'[m].op.msg # m
    BY <1>1, <2>3 DEF NoOp, Messages
  <2> QED BY <2>2, <2>4 DEF LightRows
<1>4. RowInv' /\ CurInv' /\ RetiredInv' /\ (cur # NoOp => row'[cur.msg] = row[cur.msg])
  BY <1>1, <1>2, <1>3, LightLemma DEF historyVars, actorVars, hostVars
<1>5. PhaseInv'
  <2>1. pc = "steering" => row'[steered] = row[steered]
    BY <1>1 DEF ActorInv, PhaseInv, TypeOK
  <2> QED BY <1>1, <1>4, <2>1, PhaseLemma DEF ActorInv, TypeOK, actorVars, hostVars
<1> QED BY <1>2, <1>4, <1>5 DEF ActorInv

(* Steps that touch no row: the actor's notes about its turn, the model    *)
(* pause, the answer in the outbox, the session and its steers.            *)
LEMMA NoRowStep ==
  ASSUME IInv, TypeOK', told \subseteq told',
         UNCHANGED <<row, tries, epoch, escalated, fenced, host, cur, retired, pc, steered>>
  PROVE  IInv'
<1> USE DEF IInv
<1>1. LightRows
  BY DEF LightRows
<1>2. RowInv' /\ CurInv' /\ RetiredInv'
  BY <1>1, LightLemma
<1>3. PhaseInv'
  BY PhaseLemma DEF ActorInv, TypeOK
<1> QED BY <1>2, <1>3 DEF ActorInv

LEMMA ReplyVisibleStep ==
  ASSUME IInv, ReplyVisible \/ StatusUnknown \/ RebindModel PROVE IInv'
<1>1. TypeOK'
  BY DEF IInv, TypeOK, RowShape, ReplyVisible, StatusUnknown, RebindModel, rowVars, historyVars, hostVars
<1> QED BY <1>1, NoRowStep DEF ReplyVisible, StatusUnknown, RebindModel, rowVars, historyVars, hostVars

LEMMA TellStep ==
  ASSUME IInv, NEW o \in Ops, Tell(o) PROVE IInv'
<1>1. TypeOK'
  BY DEF IInv, TypeOK, RowShape, Tell, actorVars, hostVars
<1> QED BY <1>1, NoRowStep DEF Tell, actorVars, hostVars

LEMMA SteerLandsStep ==
  ASSUME IInv, NEW e \in Epochs, SessionLost(e) \/ \E m \in Messages : SteerLands(m, e) PROVE IInv'
<1>1. TypeOK'
  <2>1. CASE SessionLost(e)
    BY <2>1 DEF IInv, TypeOK, RowShape, SessionLost, rowVars, historyVars, actorVars
  <2>2. ASSUME NEW m \in Messages, SteerLands(m, e) PROVE TypeOK'
    BY <2>2 DEF IInv, TypeOK, RowShape, SteerLands, rowVars, historyVars, actorVars
  <2> QED BY <2>1, <2>2
<1> QED BY <1>1, NoRowStep DEF SessionLost, SteerLands, rowVars, historyVars, actorVars

-----------------------------------------------------------------------------
(* Steering.                                                               *)
LEMMA SteerNextFacts ==
  ASSUME IInv, SteerOpen, NEW m \in SteerNext
  PROVE  /\ m \in Messages /\ cur \in Ops /\ cur.msg # m /\ cur.msg \in Messages
         /\ row[m].st \in {"pending", "steer"} /\ row[m].op.msg # m
<1>1. m \in Messages /\ row[m].st \in {"pending", "steer"} /\ ~Open(m)
  BY DEF SteerNext, HeldOldest, PendingOldest, Open
<1>2. cur \in Ops /\ Open(cur.msg)
  BY DEF SteerOpen, IInv, TypeOK, ActorInv, CurInv
<1>3. row[m].op.msg # m
  BY <1>1, RowFacts DEF IInv
<1> QED BY <1>1, <1>2, <1>3, OpFacts

LEMMA SteerSkipStep ==
  ASSUME IInv, SteerSkip PROVE IInv'
<1> USE DEF IInv
<1> PICK m \in SteerNext \cap ctx :
      /\ row' = [row EXCEPT ![m] = [st |-> "done", op |-> cur, sent |-> FALSE, claim |-> {}]]
      /\ unread' = unread \ {m}
  BY DEF SteerSkip
<1>1. SteerOpen /\ UNCHANGED <<epoch, tries, escalated, historyVars, actorVars, hostVars>>
  BY DEF SteerSkip
<1>2. m \in Messages /\ cur \in Ops /\ cur.msg # m /\ cur.msg \in Messages /\ row[m].op.msg # m
  BY <1>1, SteerNextFacts
<1> DEFINE r == [st |-> "done", op |-> cur, sent |-> FALSE, claim |-> {}]
<1>3. ShapeOK(m, r) /\ r.op = cur
  BY <1>2 DEF ShapeOK, Row, RowStates
<1> HIDE DEF r
<1>4. row' = [row EXCEPT ![m] = r]
  BY DEF r
<1>5. RowsOK' /\ row'[m] = r /\ \A n \in Messages \ {m} : row'[n] = row[n]
  BY <1>2, <1>3, <1>4, PutRow
<1>6. TypeOK'
  BY <1>1, <1>5 DEF RowsOK, TypeOK, historyVars, actorVars, hostVars
<1>7. LightRows
  BY <1>2, <1>3, <1>5 DEF LightRows
<1>8. RowInv' /\ CurInv' /\ RetiredInv' /\ (cur # NoOp => row'[cur.msg] = row[cur.msg])
  BY <1>1, <1>6, <1>7, LightLemma DEF historyVars, actorVars, hostVars
<1>9. PhaseInv'
  BY <1>1, <1>8, PhaseLemma DEF SteerOpen, ActorInv, TypeOK, actorVars, hostVars
<1> QED BY <1>6, <1>8, <1>9 DEF ActorInv

LEMMA SteerIssuedStep ==
  ASSUME IInv, SteerIssued PROVE IInv'
<1> USE DEF IInv
<1> PICK m \in SteerNext \ ctx :
      /\ row' = [row EXCEPT ![m] = [st |-> "steer", op |-> cur, sent |-> FALSE, claim |-> {}]]
      /\ srec' = IF srec[m][cur.epoch] = "none"
                 THEN [srec EXCEPT ![m][cur.epoch] = "transit"] ELSE srec
      /\ steered' = m
  BY DEF SteerIssued
<1>1. /\ SteerOpen /\ pc' = "steering"
      /\ UNCHANGED <<unread, epoch, tries, escalated, historyVars, cur, ctx, adopted,
                     held, shut, paused, retired, host, alive>>
  BY DEF SteerIssued
<1>2. m \in Messages /\ cur \in Ops /\ cur.msg # m /\ cur.msg \in Messages /\ row[m].op.msg # m
  BY <1>1, SteerNextFacts
<1> DEFINE r == [st |-> "steer", op |-> cur, sent |-> FALSE, claim |-> {}]
<1>3. ShapeOK(m, r) /\ r.op = cur /\ r.st = "steer"
  BY <1>2 DEF ShapeOK, Row, RowStates
<1> HIDE DEF r
<1>4. row' = [row EXCEPT ![m] = r]
  BY DEF r
<1>5. RowsOK' /\ row'[m] = r /\ \A n \in Messages \ {m} : row'[n] = row[n]
  BY <1>2, <1>3, <1>4, PutRow
<1>6. TypeOK'
  <2>1. srec' \in [Messages -> [Epochs -> {"none", "transit", "accepted", "refused"}]]
    BY <1>2, OpFacts DEF TypeOK
  <2>2. steered' \in 0..N
    BY <1>2 DEF Messages
  <2> QED BY <1>1, <1>5, <2>1, <2>2 DEF RowsOK, TypeOK, historyVars
<1>7. LightRows
  BY <1>2, <1>3, <1>5 DEF LightRows
<1>8. RowInv' /\ CurInv' /\ RetiredInv' /\ (cur # NoOp => row'[cur.msg] = row[cur.msg])
  BY <1>1, <1>6, <1>7, LightLemma DEF historyVars
<1>9. PhaseInv'
  <2>1. ~Unadmitted(cur)
    BY <1>1 DEF SteerOpen, ActorInv, PhaseInv
  <2>2. ~Unadmitted(cur)'
    BY <1>1, <1>8, <2>1 DEF SteerOpen, Unadmitted
  <2> QED BY <1>1, <1>2, <1>3, <1>5, <2>2 DEF PhaseInv
<1> QED BY <1>6, <1>8, <1>9 DEF ActorInv

LEMMA SteerTornStep ==
  ASSUME IInv, SteerTorn PROVE IInv'
<1> USE DEF IInv
<1>1. pc = "steering" /\ pc' = "free" /\ steered' = 0
      /\ UNCHANGED <<rowVars, historyVars, cur, ctx, adopted, held, shut, paused, retired, hostVars>>
  BY DEF SteerTorn
<1>2. TypeOK'
  BY <1>1 DEF TypeOK, RowShape, rowVars, historyVars, hostVars
<1>3. RowInv' /\ CurInv' /\ RetiredInv'
  BY <1>1, <1>2, LightLemma DEF LightRows, rowVars, historyVars, hostVars
<1>4. PhaseInv'
  BY <1>1 DEF ActorInv, PhaseInv, Unadmitted, rowVars, hostVars
<1> QED BY <1>2, <1>3, <1>4 DEF ActorInv

LEMMA SteerAnsweredStep ==
  ASSUME IInv, SteerAccepted \/ SteerRefused PROVE IInv'
<1> USE DEF IInv
<1>1. /\ pc = "steering" /\ pc' = "free" /\ steered' = 0
      /\ unread' \in SUBSET Messages /\ shut' \in BOOLEAN
      /\ UNCHANGED <<epoch, tries, escalated, historyVars, cur, ctx, adopted, held,
                     paused, retired, hostVars>>
  BY DEF SteerAccepted, SteerRefused, TypeOK
<1>2. /\ steered \in Messages /\ row[steered].st = "steer" /\ row[steered].op = cur
      /\ row[steered].op.msg # steered /\ row[steered] \in Row
  BY <1>1, RowFacts DEF ActorInv, PhaseInv
<1>3. PICK r : ShapeOK(steered, r) /\ r.op.msg # steered /\ row' = [row EXCEPT ![steered] = r]
  <2>1. CASE SteerAccepted
    <3> DEFINE r == [row[steered] EXCEPT !.st = "done"]
    <3>1. ShapeOK(steered, r) /\ r.op.msg # steered
      BY <1>2 DEF ShapeOK, Row, RowStates
    <3>2. row' = [row EXCEPT ![steered] = r]
      BY <1>2, <2>1 DEF SteerAccepted, TypeOK
    <3> QED BY <3>1, <3>2
  <2>2. CASE SteerRefused
    <3>1. ShapeOK(steered, Plain("pending")) /\ Plain("pending").op.msg # steered
      BY <1>2 DEF ShapeOK, Row, RowStates, Plain, NoOp, Messages
    <3> QED BY <2>2, <3>1 DEF SteerRefused
  <2> QED BY <2>1, <2>2
<1>4. RowsOK' /\ row'[steered] = r /\ \A n \in Messages \ {steered} : row'[n] = row[n]
  BY <1>2, <1>3, PutRow
<1>5. TypeOK'
  BY <1>1, <1>4 DEF RowsOK, TypeOK, historyVars, hostVars
<1>6. LightRows
  BY <1>2, <1>3, <1>4 DEF LightRows
<1>7. RowInv' /\ CurInv' /\ RetiredInv' /\ (cur # NoOp => row'[cur.msg] = row[cur.msg])
  BY <1>1, <1>5, <1>6, LightLemma DEF historyVars, hostVars
<1>8. PhaseInv'
  BY <1>1, <1>7 DEF ActorInv, PhaseInv, Unadmitted, hostVars
<1> QED BY <1>5, <1>7, <1>8 DEF ActorInv

LEMMA ResolveHoldStep ==
  ASSUME IInv, NEW m \in Messages, ResolveHold(m) PROVE IInv'
<1> USE DEF IInv
<1>1. /\ pc = "free" /\ row[m].st = "steer" /\ row[m].op.msg # m /\ row[m] \in Row
      /\ unread' \in SUBSET Messages
      /\ UNCHANGED <<epoch, tries, escalated, historyVars, actorVars, hostVars>>
  BY RowFacts DEF ResolveHold, TypeOK
<1>2. PICK r : ShapeOK(m, r) /\ r.op.msg # m /\ row' = [row EXCEPT ![m] = r]
  <2> DEFINE d == [row[m] EXCEPT !.st = "done"]
  <2>1. ShapeOK(m, d) /\ d.op.msg # m
    BY <1>1 DEF ShapeOK, Row, RowStates
  <2>2. ShapeOK(m, Plain("pending")) /\ Plain("pending").op.msg # m
    BY DEF ShapeOK, Row, RowStates, Plain, NoOp, Messages
  <2>3. row' = [row EXCEPT ![m] = d] \/ row' = [row EXCEPT ![m] = Plain("pending")]
    BY DEF ResolveHold, TypeOK
  <2> QED BY <2>1, <2>2, <2>3
<1>3. RowsOK' /\ row'[m] = r /\ \A n \in Messages \ {m} : row'[n] = row[n]
  BY <1>2, PutRow
<1>4. TypeOK'
  BY <1>1, <1>3 DEF RowsOK, TypeOK, historyVars, actorVars, hostVars
<1>5. LightRows
  BY <1>1, <1>2, <1>3 DEF LightRows
<1>6. RowInv' /\ CurInv' /\ RetiredInv' /\ (cur # NoOp => row'[cur.msg] = row[cur.msg])
  BY <1>1, <1>4, <1>5, LightLemma DEF historyVars, actorVars, hostVars
<1>7. PhaseInv'
  BY <1>1, <1>6, PhaseLemma DEF ActorInv, TypeOK, actorVars, hostVars
<1> QED BY <1>4, <1>6, <1>7 DEF ActorInv

-----------------------------------------------------------------------------
(* Sending.                                                                *)

(* A step under which no open row is released or closed.                   *)
LEMMA KeepLemma ==
  ASSUME IInv, TypeOK', \A m \in Messages : Kept(m) \/ Quiet(m),
         UNCHANGED <<tries, epoch, escalated, told, fenced, host>>
  PROVE  /\ RowInv'
         /\ UNCHANGED <<cur, retired>> => CurInv' /\ RetiredInv'
<1> USE DEF IInv
<1>1. \A m \in Messages, e \in Epochs : tries[m][e] <= tries'[m][e]
  <2> SUFFICES ASSUME NEW m \in Messages, NEW e \in Epochs PROVE tries[m][e] <= tries'[m][e]
    OBVIOUS
  <2>1. tries[m][e] \in Int
    BY DEF TypeOK
  <2> QED BY <2>1
<1>2. epoch \in Int
  BY DEF TypeOK, Epochs
<1>3. RowInv'
  BY <1>1, <1>2, RowStepLemma DEF RowStep
<1>4. ASSUME NEW m \in Messages, Open(m) PROVE Open(m)' /\ row'[m].op = row[m].op
  BY <1>4 DEF Kept, Quiet
<1>5. ASSUME UNCHANGED <<cur, retired>> PROVE CurInv'
  BY <1>4, <1>5, OpFacts DEF TypeOK, ActorInv, CurInv
<1>6. ASSUME UNCHANGED <<cur, retired>> PROVE RetiredInv'
  <2> SUFFICES ASSUME NEW o \in retired
               PROVE (Open(o.msg) /\ row[o.msg].op = o /\ o \in fenced \cup escalated /\ o # cur)'
    BY <1>6 DEF RetiredInv
  <2>1. o.msg \in Messages /\ Open(o.msg) /\ row[o.msg].op = o /\ o \in fenced \cup escalated /\ o # cur
    BY OpFacts DEF TypeOK, ActorInv, RetiredInv
  <2> QED BY <2>1, <1>4, <1>6
<1> QED BY <1>3, <1>5, <1>6

LEMMA StartTurnStep ==
  ASSUME IInv, StartTurn \/ Restart PROVE IInv'
<1> USE DEF IInv
<1>1. /\ (pc = "bound" /\ pc' = "prepared") \/ (pc = "down" /\ pc' = "free" /\ ctx' = ctx)
      /\ ctx' \in SUBSET Messages
      /\ UNCHANGED <<rowVars, historyVars, cur, steered, adopted, held, shut, paused,
                     retired, hostVars>>
  <2>1. CASE Restart
    BY <2>1 DEF Restart, TypeOK
  <2>2. CASE StartTurn
    <3>1. cur.msg \in Messages
      BY <2>2, OpFacts DEF StartTurn, ActorInv, PhaseInv, TypeOK
    <3> QED BY <2>2, <3>1 DEF StartTurn, TypeOK
  <2> QED BY <2>1, <2>2
<1>2. TypeOK'
  BY <1>1 DEF TypeOK, RowShape, rowVars, historyVars, hostVars
<1>3. RowInv' /\ CurInv' /\ RetiredInv'
  BY <1>1, <1>2, LightLemma DEF LightRows, rowVars, historyVars, hostVars
<1>4. PhaseInv'
  BY <1>1 DEF ActorInv, PhaseInv, Unadmitted, rowVars, hostVars
<1> QED BY <1>2, <1>3, <1>4 DEF ActorInv

LEMMA CrashStep ==
  ASSUME IInv, Crash PROVE IInv'
<1> USE DEF IInv
<1>1. /\ pc' = "down" /\ cur' = NoOp /\ retired' = {} /\ row' = row
      /\ UNCHANGED <<tries, epoch, escalated, told, fenced, host>>
  BY DEF Crash, Idle, rowVars, historyVars, hostVars
<1>2. TypeOK'
  <2>1. /\ pc' = "down" /\ cur' = NoOp /\ ctx' = {} /\ steered' = 0 /\ retired' = {}
        /\ adopted' = FALSE /\ held' = FALSE /\ shut' = FALSE /\ paused' = FALSE
        /\ UNCHANGED <<rowVars, historyVars, hostVars>>
    BY DEF Crash, Idle
  <2>2. steered' \in 0..N
    BY <2>1
  <2> QED BY <2>1, <2>2 DEF TypeOK, RowShape, rowVars, historyVars, hostVars
<1>3. RowInv'
  BY <1>1, <1>2, KeepLemma, SameRow
<1>4. CurInv' /\ PhaseInv' /\ RetiredInv'
  BY <1>1 DEF CurInv, PhaseInv, RetiredInv
<1> QED BY <1>2, <1>3, <1>4 DEF ActorInv

LEMMA MarkSendAttemptedStep ==
  ASSUME IInv, MarkSendAttempted PROVE IInv'
<1> USE DEF IInv
<1> DEFINE m == cur.msg
<1> DEFINE r == [st |-> "bound", op |-> cur, sent |-> TRUE, claim |-> ctx]
<1>1. /\ pc = "prepared" /\ pc' = "sending" /\ row' = [row EXCEPT ![m] = r]
      /\ UNCHANGED <<unread, epoch, tries, escalated, historyVars, cur, ctx, steered,
                     adopted, held, shut, paused, retired, hostVars>>
  BY DEF MarkSendAttempted
<1>2. cur \in Ops /\ m \in Messages /\ row[m].st = "bound" /\ row[m].op = cur
  BY <1>1, OpFacts DEF ActorInv, PhaseInv, CurInv, TypeOK
<1>3. ShapeOK(m, r) /\ r.op = cur /\ r.st = "bound" /\ r.sent
  BY <1>2 DEF ShapeOK, Row, RowStates, TypeOK
<1> HIDE DEF r, m
<1>4. RowsOK' /\ row'[m] = r /\ \A n \in Messages \ {m} : row'[n] = row[n]
  BY <1>1, <1>2, <1>3, PutRow
<1>5. TypeOK'
  BY <1>1, <1>4 DEF RowsOK, TypeOK, historyVars, hostVars
<1>6. ASSUME NEW n \in Messages PROVE Kept(n) \/ Quiet(n)
  <2>1. CASE n = m
    BY <1>1, <1>2, <1>3, <1>4, <2>1 DEF Kept, Open
  <2>2. CASE n # m
    BY <1>1, <1>4, <2>2, SameRow
  <2> QED BY <2>1, <2>2
<1>7. RowInv' /\ CurInv' /\ RetiredInv'
  BY <1>1, <1>5, <1>6, KeepLemma DEF historyVars, hostVars
<1>8. PhaseInv'
  BY <1>1, <1>2, <1>3, <1>4, OpFacts DEF PhaseInv, m
<1> QED BY <1>5, <1>7, <1>8 DEF ActorInv

(* turnAccept keeps every row's operation and every open row open.         *)
LEMMA AcceptLemma ==
  ASSUME IInv, NEW o \in Ops, row' = Accept(o), UNCHANGED <<tries, escalated>>
  PROVE  /\ RowsOK'
         /\ \A m \in Messages : (Kept(m) \/ Quiet(m)) /\ row'[m].op = row[m].op
                                /\ row'[m].sent = row[m].sent
                                /\ (row'[m].st = "bound" => row[m].st = "bound" /\ row[m].op # o)
<1> USE DEF IInv
<1>1. ASSUME NEW m \in Messages
      PROVE  /\ row'[m] \in Row /\ RowShape(m)' /\ (Kept(m) \/ Quiet(m))
             /\ row'[m].op = row[m].op /\ row'[m].sent = row[m].sent
             /\ row'[m].st = "bound" => row[m].st = "bound" /\ row[m].op # o
  <2> DEFINE hit == row[o.msg].st = "bound" /\ row[m].op = o /\ row[m].st \in {"bound", "steer"}
  <2>0. row[m] \in Row /\ RowShape(m)
    BY DEF TypeOK
  <2>1. CASE hit
    <3>1. row'[m] = [st |-> IF row[m].st = "bound" THEN "accepted" ELSE "done",
                     op |-> row[m].op, sent |-> row[m].sent, claim |-> row[m].claim]
      BY <2>0, <2>1 DEF Accept, Row
    <3>2. row'[m] \in Row /\ RowShape(m)'
      BY <2>0, <2>1, <3>1 DEF Row, RowStates, RowShape, Plain
    <3>3. Kept(m) \/ Quiet(m)
      BY <2>0, <2>1, <3>1 DEF Kept, Quiet, Open, RowShape
    <3> QED BY <2>1, <3>1, <3>2, <3>3
  <2>2. CASE ~hit
    <3>1. row'[m] = row[m]
      BY <2>2 DEF Accept
    <3>2. Kept(m) \/ Quiet(m)
      BY <3>1, SameRow
    <3>3. row[m].st = "bound" /\ row[m].op = o => hit
      BY <2>0, OpFacts DEF RowShape
    <3> QED BY <2>0, <2>2, <3>1, <3>2, <3>3 DEF RowShape, Plain
  <2> QED BY <2>1, <2>2
<1>2. row' \in [Messages -> Row]
  BY <1>1 DEF Accept
<1> QED BY <1>1, <1>2 DEF RowsOK

LEMMA SendAcceptedStep ==
  ASSUME IInv, SendAccepted PROVE IInv'
<1> USE DEF IInv
<1>1. /\ pc = "sending" /\ pc' = "free" /\ row' = Accept(cur)
      /\ UNCHANGED <<unread, epoch, tries, escalated, historyVars, cur, ctx, steered,
                     adopted, held, shut, paused, retired, hostVars>>
  BY DEF SendAccepted
<1>2. cur \in Ops /\ cur.msg \in Messages /\ row[cur.msg].op = cur
  BY <1>1, OpFacts DEF ActorInv, PhaseInv, CurInv, TypeOK
<1>3. /\ RowsOK'
      /\ \A m \in Messages : (Kept(m) \/ Quiet(m)) /\ (row'[m].st = "bound" => row[m].op # cur)
  BY <1>1, <1>2, AcceptLemma
<1>4. TypeOK'
  BY <1>1, <1>3 DEF RowsOK, TypeOK, historyVars, hostVars
<1>5. RowInv' /\ CurInv' /\ RetiredInv'
  BY <1>1, <1>3, <1>4, KeepLemma DEF historyVars, hostVars
<1>6. ~Unadmitted(cur)'
  BY <1>1, <1>2, <1>3 DEF Unadmitted
<1>7. PhaseInv'
  BY <1>1, <1>6 DEF PhaseInv
<1> QED BY <1>4, <1>5, <1>7 DEF ActorInv

LEMMA StatusKnownStep ==
  ASSUME IInv, NEW o \in Ops, StatusKnown(o) PROVE IInv'
<1> USE DEF IInv
<1>1. /\ pc = "free" /\ row' = Accept(o) /\ held' \in BOOLEAN
      /\ UNCHANGED <<unread, epoch, tries, escalated, historyVars, pc, cur, ctx, steered,
                     adopted, shut, paused, retired, hostVars>>
  BY DEF StatusKnown, TypeOK
<1>2. /\ RowsOK'
      /\ \A m \in Messages : /\ Kept(m) \/ Quiet(m)
                             /\ row'[m].sent = row[m].sent
                             /\ row'[m].st = "bound" => row[m].st = "bound"
  BY <1>1, AcceptLemma
<1>3. TypeOK'
  BY <1>1, <1>2 DEF RowsOK, TypeOK, historyVars, hostVars
<1>4. RowInv' /\ CurInv' /\ RetiredInv'
  BY <1>1, <1>2, <1>3, KeepLemma DEF historyVars, hostVars
<1>5. cur # NoOp => ~Unadmitted(cur)'
  <2> HAVE cur # NoOp
  <2>1. cur.msg \in Messages /\ ~Unadmitted(cur)
    BY <1>1, OpFacts DEF ActorInv, PhaseInv, TypeOK
  <2> QED BY <1>1, <1>2, <2>1 DEF Unadmitted, hostVars
<1>6. PhaseInv'
  BY <1>1, <1>5 DEF PhaseInv
<1> QED BY <1>3, <1>4, <1>6 DEF ActorInv

-----------------------------------------------------------------------------
(* The session moves: its record of one prompt changes, no row does. The   *)
(* prompt is one its row names, sent if it leaves now, and only the        *)
(* current epoch gets a busy refusal.                                      *)
LEMMA HostLemma ==
  ASSUME IInv, TypeOK', NEW p \in Ops, NEW s, host' = [host EXCEPT ![p] = s],
         row[p.msg].op = p, host[p] = "none" /\ s # "none" => row[p.msg].sent,
         s = "busy" => p.epoch = epoch,
         UNCHANGED <<row, tries, epoch, escalated, told, fenced, cur, retired>>
  PROVE  RowInv' /\ CurInv' /\ RetiredInv'
<1> USE DEF IInv, RowInv
<1>1. host'[p] = s /\ \A q \in Ops \ {p} : host'[q] = host[q]
  BY DEF TypeOK
<1>2. OpenInv'
  <2> SUFFICES ASSUME NEW m \in Messages, Open(m) PROVE OpenOK(m)'
    BY DEF OpenInv, Open
  <2>1. OpenOK(m) /\ row[m].op \in Ops /\ row[m].op.msg = m
    BY RowFacts DEF OpenInv
  <2>2. ~row[m].sent => host'[row[m].op] = "none"
    BY <1>1, <2>1 DEF OpenOK
  <2>3. row[m].op.epoch < epoch /\ Unadmitted(row[m].op)' => Unadmitted(row[m].op)
    <3>1. row[m].op.epoch \in Int /\ epoch \in Int
      BY <2>1, OpFacts DEF TypeOK, Epochs
    <3> QED BY <1>1, <2>1, <3>1 DEF Unadmitted
  <2> QED BY <2>1, <2>2, <2>3 DEF OpenOK
<1>3. UsedInv'
  BY <1>1 DEF UsedInv
<1>4. NoOrphan'
  BY <1>1 DEF NoOrphan
<1>5. Unique' /\ NoSilentEnd' /\ CurInv' /\ RetiredInv'
  BY DEF Unique, NoSilentEnd, CurInv, RetiredInv, ActorInv, Open
<1> QED BY <1>2, <1>3, <1>4, <1>5

LEMMA PromptReachesStep ==
  ASSUME IInv, NEW a \in {"queued", "busy", "unselected"}, PromptReaches(a) PROVE IInv'
<1> USE DEF IInv
<1>1. /\ pc = "sending" /\ host' = [host EXCEPT ![cur] = a]
      /\ UNCHANGED <<rowVars, historyVars, actorVars, srec, alive>>
  BY DEF PromptReaches
<1>2. cur \in Ops /\ row[cur.msg].op = cur /\ row[cur.msg].sent /\ cur.epoch = epoch
  BY <1>1 DEF ActorInv, PhaseInv, CurInv, TypeOK
<1>3. TypeOK'
  BY <1>1 DEF TypeOK, RowShape, HostStates, rowVars, historyVars, actorVars
<1>4. RowInv' /\ CurInv' /\ RetiredInv'
  BY <1>1, <1>2, <1>3, HostLemma DEF rowVars, historyVars, actorVars
<1>5. PhaseInv'
  BY <1>1 DEF ActorInv, PhaseInv, rowVars, actorVars
<1> QED BY <1>3, <1>4, <1>5 DEF ActorInv

LEMMA SendTornStep ==
  ASSUME IInv, SendTorn PROVE IInv'
<1> USE DEF IInv
<1>1. /\ pc = "sending" /\ pc' = "free"
      /\ UNCHANGED <<rowVars, historyVars, cur, ctx, steered, adopted, held, shut,
                     paused, retired, srec, alive>>
  BY DEF SendTorn
<1>2. cur \in Ops /\ row[cur.msg].op = cur /\ row[cur.msg].sent /\ cur.epoch = epoch
  BY <1>1 DEF ActorInv, PhaseInv, CurInv, TypeOK
<1>3. PICK s \in HostStates : host' = [host EXCEPT ![cur] = s] /\ s # "busy"
  <2>1. host[cur] \in HostStates
    BY <1>2 DEF TypeOK
  <2>2. CASE host[cur] = "none"
    BY <2>2 DEF SendTorn, HostStates
  <2>3. CASE host[cur] # "none"
    BY <2>1, <2>3 DEF SendTorn, TypeOK
  <2> QED BY <2>2, <2>3
<1>4. TypeOK'
  BY <1>1, <1>3 DEF TypeOK, RowShape, rowVars, historyVars
<1>5. RowInv' /\ CurInv' /\ RetiredInv'
  BY <1>1, <1>2, <1>3, <1>4, HostLemma DEF rowVars, historyVars
<1>6. host'[cur] = s
  BY <1>2, <1>3 DEF TypeOK
<1>7. PhaseInv'
  BY <1>1, <1>2, <1>3, <1>6 DEF PhaseInv, Unadmitted, rowVars
<1> QED BY <1>4, <1>5, <1>7 DEF ActorInv

(* A landed or travelling prompt moves on; the stall cutoff ends one.      *)
LEMMA HostStepLemma ==
  ASSUME IInv, NEW p \in Ops, NEW s \in HostStates, host' = [host EXCEPT ![p] = s],
         host[p] \in MayAct, s # "busy", alive' \in [Epochs -> BOOLEAN],
         UNCHANGED <<rowVars, historyVars, actorVars, srec>>
  PROVE  IInv'
<1> USE DEF IInv
<1>1. row[p.msg].op = p /\ host[p] # "none"
  BY DEF RowInv, NoOrphan, MayAct
<1>2. TypeOK'
  BY DEF TypeOK, RowShape, rowVars, historyVars, actorVars
<1>3. RowInv' /\ CurInv' /\ RetiredInv'
  BY <1>1, <1>2, HostLemma DEF rowVars, historyVars, actorVars
<1>4. cur # NoOp /\ ~Unadmitted(cur) => ~Unadmitted(cur)'
  BY DEF Unadmitted, TypeOK, rowVars, actorVars
<1>5. PhaseInv'
  BY <1>4 DEF ActorInv, PhaseInv, rowVars, actorVars
<1> QED BY <1>2, <1>3, <1>5 DEF ActorInv

LEMMA HostMovesStep ==
  ASSUME IInv, NEW o \in Ops, HostLate(o) \/ HostStarts(o) \/ HostEnds(o) PROVE IInv'
<1>1. PICK s \in MayAct, t \in HostStates \ {"busy"} : HostStep(o, s, t)
  BY DEF HostLate, HostStarts, HostEnds, MayAct, HostStates
<1>2. alive' \in [Epochs -> BOOLEAN]
  BY <1>1 DEF HostStep, IInv, TypeOK
<1> QED BY <1>1, <1>2, HostStepLemma DEF HostStep

LEMMA CutStalledStep ==
  ASSUME IInv, CutStalled PROVE IInv'
<1>1. cur \in Ops /\ host[cur] \in MayAct /\ "cut" \in HostStates
  BY DEF CutStalled, IInv, TypeOK, MayAct, HostStates
<1>2. alive' \in [Epochs -> BOOLEAN]
  BY DEF CutStalled, IInv, TypeOK
<1> QED BY <1>1, <1>2, HostStepLemma DEF CutStalled

-----------------------------------------------------------------------------
(* One open row leaves: released for a new attempt or closed. The origin   *)
(* leaves an epoch only with that epoch's turn.                            *)
LEMMA LeaveLemma ==
  ASSUME IInv, TypeOK', NEW o \in Ops, Open(o.msg), row[o.msg].op = o,
         Released(o.msg) \/ Closed(o.msg),
         \A m \in Messages \ {o.msg} : Kept(m) \/ Quiet(m),
         host' = host, told' = told, fenced' = fenced,
         \A m \in Messages, e \in Epochs : tries[m][e] <= tries'[m][e],
         epoch' >= epoch, epoch' # epoch => o.epoch = epoch
  PROVE  /\ RowInv'
         /\ \A p \in Ops \ {o} : Open(p.msg) /\ row[p.msg].op = p =>
              Open(p.msg)' /\ row'[p.msg].op = p
<1> USE DEF IInv
<1>1. o.msg \in Messages
  BY OpFacts
<1>2. ~Kept(o.msg)
  BY DEF Released, Closed, Kept, Open, Plain
<1>3. ASSUME NEW m \in Messages, Kept(m), row[m].op.epoch = epoch, epoch' # epoch PROVE FALSE
  BY <1>1, <1>2, <1>3 DEF RowInv, Unique, Kept
<1>4. RowInv'
  BY <1>1, <1>3, RowStepLemma DEF RowStep
<1>5. ASSUME NEW p \in Ops \ {o}, Open(p.msg), row[p.msg].op = p
      PROVE  Open(p.msg)' /\ row'[p.msg].op = p
  BY <1>5, OpFacts DEF Kept, Quiet
<1> QED BY <1>4, <1>5

(* turnRequeue under retryInboundTurn.                                     *)
LEMMA RetryLemma ==
  ASSUME IInv, NEW o \in Ops, Retry(o), Open(o.msg), row[o.msg].op = o,
         host[o] \notin MayAct, escalated' = escalated
  PROVE  /\ RowsOK' /\ tries' \in [Messages -> [Epochs -> 0..MaxTries]]
         /\ Released(o.msg)
         /\ \A m \in Messages \ {o.msg} : Kept(m) \/ Quiet(m)
         /\ \A m \in Messages, e \in Epochs : tries[m][e] <= tries'[m][e]
<1> USE DEF IInv
<1>0. o.msg \in Messages /\ o.epoch \in Epochs
  BY OpFacts
<1> DEFINE t == tries[o.msg][o.epoch]
<1>1. t \in 0..MaxTries /\ t < MaxTries /\ t \in Int /\ t + 1 \in 0..MaxTries
  BY <1>0 DEF Retry, TypeOK
<1>2. /\ tries' = [tries EXCEPT ![o.msg][o.epoch] = t + 1] /\ row' = Requeue(o)
  BY DEF Retry
<1> HIDE DEF t
<1>3. tries' \in [Messages -> [Epochs -> 0..MaxTries]]
  BY <1>0, <1>1, <1>2 DEF TypeOK
<1>4. tries'[o.msg][o.epoch] = t + 1 /\ \A m \in Messages \ {o.msg} : tries'[m] = tries[m]
  BY <1>0, <1>2 DEF TypeOK
<1>5. ASSUME NEW m \in Messages, NEW e \in Epochs PROVE tries[m][e] <= tries'[m][e]
  <2>1. tries[m][e] \in Int
    BY DEF TypeOK
  <2>2. CASE m = o.msg /\ e = o.epoch
    BY <1>1, <1>4, <2>2 DEF t
  <2>3. CASE ~(m = o.msg /\ e = o.epoch)
    <3>1. tries'[m][e] = tries[m][e]
      BY <1>0, <1>2, <2>3 DEF TypeOK
    <3> QED BY <2>1, <3>1
  <2> QED BY <2>2, <2>3
<1>6. ASSUME NEW m \in Messages
      PROVE  row'[m] = Plain("pending") \/ row'[m] = row[m]
  BY <1>2 DEF Requeue
<1>7. RowsOK'
  <2>1. row' \in [Messages -> Row]
    <3>1. Plain("pending") \in Row
      BY DEF Plain, Row, RowStates
    <3> QED BY <1>2, <1>6, <3>1 DEF Requeue, TypeOK
  <2>2. ASSUME NEW m \in Messages PROVE RowShape(m)'
    <3>1. CASE row'[m] = Plain("pending")
      BY <3>1 DEF RowShape, Plain
    <3>2. CASE row'[m] = row[m]
      BY <3>2 DEF TypeOK, RowShape, Plain
    <3> QED BY <1>6, <3>1, <3>2
  <2> QED BY <2>1, <2>2 DEF RowsOK
<1>8. Released(o.msg)
  <2>1. row'[o.msg] = Plain("pending")
    BY <1>0, <1>2 DEF Requeue, Open
  <2>2. o.try = t
    BY <1>0 DEF RowInv, OpenInv, OpenOK, t
  <2> QED BY <1>1, <1>4, <2>1, <2>2 DEF Released
<1>9. ASSUME NEW m \in Messages \ {o.msg} PROVE Kept(m) \/ Quiet(m)
  <2>1. CASE row'[m] = row[m]
    BY <1>4, <2>1, SameRow
  <2>2. CASE row'[m] # row[m]
    <3>1. row'[m] = Plain("pending") /\ row[m].op = o /\ row[m].st \in {"bound", "accepted", "steer"}
      BY <1>2, <2>2 DEF Requeue
    <3>2. row[m].st = "steer"
      BY <3>1, RowFacts DEF Open
    <3> QED BY <3>1, <3>2 DEF Quiet, Open, Plain, NoOp, Messages
  <2> QED BY <2>1, <2>2
<1> QED BY <1>3, <1>5, <1>7, <1>8, <1>9

(* The current turn is released and the actor goes idle.                   *)
LEMMA ReleaseCurrent ==
  ASSUME IInv, cur # NoOp, host[cur] \notin MayAct, Retry(cur), Idle, pc' = "free",
         epoch' \in Epochs, epoch' >= epoch, paused' \in BOOLEAN,
         loosed' \in SUBSET Messages,
         UNCHANGED <<unread, escalated, told, fenced, steered, retired, hostVars>>
  PROVE  IInv'
<1> USE DEF IInv
<1>1. cur \in Ops /\ Open(cur.msg) /\ row[cur.msg].op = cur /\ cur.epoch = epoch
  BY DEF TypeOK, ActorInv, CurInv
<1>2. /\ RowsOK' /\ tries' \in [Messages -> [Epochs -> 0..MaxTries]]
      /\ Released(cur.msg)
      /\ \A m \in Messages \ {cur.msg} : Kept(m) \/ Quiet(m)
      /\ \A m \in Messages, e \in Epochs : tries[m][e] <= tries'[m][e]
  BY <1>1, RetryLemma
<1>3. TypeOK'
  BY <1>2 DEF RowsOK, TypeOK, Idle, hostVars
<1>4. /\ RowInv'
      /\ \A p \in Ops \ {cur} : Open(p.msg) /\ row[p.msg].op = p =>
           Open(p.msg)' /\ row'[p.msg].op = p
  BY <1>1, <1>2, <1>3, LeaveLemma DEF hostVars
<1>5. CurInv' /\ PhaseInv'
  BY DEF Idle, CurInv, PhaseInv
<1>6. RetiredInv'
  <2> SUFFICES ASSUME NEW p \in retired
               PROVE Open(p.msg)' /\ row'[p.msg].op = p /\ p \in fenced \cup escalated /\ p # NoOp
    BY DEF RetiredInv, Idle
  <2>1. p \in Ops /\ Open(p.msg) /\ row[p.msg].op = p /\ p \in fenced \cup escalated /\ p # cur
    BY DEF TypeOK, ActorInv, RetiredInv
  <2> QED BY <1>4, <2>1, OpFacts
<1> QED BY <1>3, <1>4, <1>5, <1>6 DEF ActorInv

LEMMA RotateFacts ==
  ASSUME TypeOK, NEW c \in BOOLEAN, RotateIf(c)
  PROVE  epoch' \in Epochs /\ epoch' >= epoch /\ (epoch' # epoch => c) /\ (c => epoch' = epoch + 1)
BY DEF TypeOK, RotateIf, Epochs

LEMMA PreSendFailsStep ==
  ASSUME IInv, PreSendFails PROVE IInv'
<1> USE DEF IInv
<1>1. cur # NoOp /\ host[cur] = "none"
  <2>1. cur # NoOp /\ row[cur.msg].st = "bound" /\ ~row[cur.msg].sent
    BY DEF PreSendFails, ActorInv, PhaseInv
  <2>2. cur.msg \in Messages /\ Open(cur.msg) /\ row[cur.msg].op = cur
    BY <2>1, OpFacts DEF TypeOK, ActorInv, CurInv
  <2> QED BY <2>1, <2>2 DEF RowInv, OpenInv, OpenOK
<1>2. PICK c \in BOOLEAN : RotateIf(c)
  BY DEF PreSendFails, TypeOK
<1>3. epoch' \in Epochs /\ epoch' >= epoch
  BY <1>2, RotateFacts
<1>4. /\ Retry(cur) /\ Idle /\ pc' = "free" /\ paused' \in BOOLEAN /\ loosed' \in SUBSET Messages
      /\ UNCHANGED <<unread, escalated, told, fenced, steered, retired, hostVars>>
  BY DEF PreSendFails, TypeOK, historyVars
<1>5. host[cur] \notin MayAct
  BY <1>1 DEF MayAct
<1> QED BY <1>1, <1>3, <1>4, <1>5, ReleaseCurrent

LEMMA SendRefusedStep ==
  ASSUME IInv, SendRefused PROVE IInv'
<1> USE DEF IInv
<1>1. cur # NoOp /\ host[cur] \notin MayAct
  BY DEF SendRefused, ActorInv, PhaseInv, MayAct
<1>2. /\ Retry(cur) /\ Idle /\ pc' = "free" /\ paused' \in BOOLEAN /\ loosed' \in SUBSET Messages
      /\ epoch' = epoch /\ epoch \in Epochs
      /\ UNCHANGED <<unread, escalated, told, fenced, steered, retired, hostVars>>
  BY DEF SendRefused, TypeOK, historyVars
<1>3. epoch' >= epoch
  BY <1>2 DEF Epochs
<1> QED BY <1>1, <1>2, <1>3, ReleaseCurrent

LEMMA RetryFailedStep ==
  ASSUME IInv, RetryFailed PROVE IInv'
<1> USE DEF IInv
<1>1. cur # NoOp /\ host[cur] \notin MayAct
  BY DEF RetryFailed, MayAct
<1>2. /\ Retry(cur) /\ Idle /\ pc' = "free" /\ paused' \in BOOLEAN /\ loosed' \in SUBSET Messages
      /\ epoch' = epoch /\ epoch \in Epochs
      /\ UNCHANGED <<unread, escalated, told, fenced, steered, retired, hostVars>>
  BY DEF RetryFailed, TypeOK
<1>3. epoch' >= epoch
  BY <1>2 DEF Epochs
<1> QED BY <1>1, <1>2, <1>3, ReleaseCurrent

-----------------------------------------------------------------------------
(* Recovery and settlement.                                                *)
LEMMA OpenOpsFacts ==
  ASSUME TypeOK, NEW o \in OpenOps
  PROVE  o \in Ops /\ o.msg \in Messages /\ Open(o.msg) /\ row[o.msg].op = o
<1> PICK m \in Messages : Open(m) /\ row[m].op = o
  BY DEF OpenOps
<1> QED BY RowFacts

(* The rows of a step that closes a trigger.                               *)
LEMMA CloseRows ==
  ASSUME IInv, NEW o \in Ops, Open(o.msg), row[o.msg].op = o,
         row' = Complete(o),
         tries' = tries, escalated' \in {escalated, escalated \ {o}},
         o \in told' \cup fenced'
  PROVE  /\ RowsOK' /\ Closed(o.msg)
         /\ \A m \in Messages \ {o.msg} : Kept(m) \/ Quiet(m)
<1> USE DEF IInv
<1>0. o.msg \in Messages
  BY OpFacts
<1>1. ASSUME NEW m \in Messages
      PROVE  /\ row'[m] \in Row /\ RowShape(m)'
             /\ m = o.msg => Closed(m)
             /\ m # o.msg => Kept(m) \/ Quiet(m)
  <2>0. row[m] \in Row /\ RowShape(m)
    BY DEF TypeOK
  <2>1. CASE m = o.msg
    <3>1. row'[m] = [st |-> "done", op |-> row[m].op, sent |-> row[m].sent, claim |-> row[m].claim]
      BY <2>0, <2>1 DEF Complete, Row
    <3>2. row'[m] \in Row /\ RowShape(m)'
      BY <2>0, <3>1 DEF Row, RowStates, RowShape, Plain
    <3> QED BY <2>1, <3>1, <3>2 DEF Closed
  <2>2. CASE m # o.msg
    <3>1. row'[m] = row[m] /\ m # o.msg
      BY <2>2 DEF Complete
    <3>2. row[m].op \in escalated => row[m].op \in escalated' \/ row[m].op = o
      OBVIOUS
    <3>3. row[m].op = o => Quiet(m)
      BY <2>0, <3>1 DEF Quiet, Open, RowShape
    <3>4. row[m].op # o => Kept(m) \/ Quiet(m)
      BY <3>1, <3>2, SameRow
    <3> QED BY <2>0, <2>2, <3>1, <3>3, <3>4 DEF RowShape, Plain
  <2> QED BY <2>1, <2>2
<1>2. row' \in [Messages -> Row]
  <2> HIDE DEF IInv
  <2>1. row' = [m \in Messages |-> row'[m]]
    BY DEF Complete
  <2> QED BY <1>1, <2>1
<1> QED BY <1>0, <1>1, <1>2 DEF RowsOK

LEMMA SameTries ==
  ASSUME TypeOK, tries' = tries
  PROVE  \A m \in Messages, e \in Epochs : tries[m][e] <= tries'[m][e]
<1> SUFFICES ASSUME NEW m \in Messages, NEW e \in Epochs PROVE tries[m][e] <= tries'[m][e]
  OBVIOUS
<1>1. tries[m][e] \in Int
  BY DEF TypeOK
<1> QED BY <1>1

LEMMA ReleaseUnadmittedStep ==
  ASSUME IInv, NEW o \in Ops, ReleaseUnadmitted(o) PROVE IInv'
<1> USE DEF IInv
<1>1. /\ pc = "free" /\ o \in OpenOps /\ o \notin Tracked /\ Unadmitted(o)
      /\ IF o.epoch = epoch THEN Retry(o) ELSE row' = Complete(o) /\ UNCHANGED tries
      /\ UNCHANGED <<unread, epoch, escalated, historyVars, actorVars, hostVars>>
  BY DEF ReleaseUnadmitted
<1>2. o.msg \in Messages /\ Open(o.msg) /\ row[o.msg].op = o
  BY <1>1, OpenOpsFacts
<1>3. OpenOK(o.msg)
  BY <1>2 DEF RowInv, OpenInv
<1>4. epoch \in Int /\ o.epoch \in Int
  BY OpFacts DEF TypeOK, Epochs
<1>5. /\ RowsOK' /\ tries' \in [Messages -> [Epochs -> 0..MaxTries]]
      /\ Released(o.msg) \/ Closed(o.msg)
      /\ \A m \in Messages \ {o.msg} : Kept(m) \/ Quiet(m)
      /\ \A m \in Messages, e \in Epochs : tries[m][e] <= tries'[m][e]
  <2>1. CASE o.epoch = epoch
    <3>1. host[o] \notin MayAct
      BY <1>1, <1>2, <1>3 DEF OpenOK, Unadmitted, MayAct
    <3> QED BY <1>1, <1>2, <2>1, <3>1, RetryLemma
  <2>2. CASE o.epoch # epoch
    <3>1. o \in fenced
      BY <1>1, <1>2, <1>3, <1>4, <2>2 DEF OpenOK
    <3>2. row' = Complete(o)
      BY <1>1, <2>2
    <3>3. tries' = tries /\ escalated' \in {escalated, escalated \ {o}} /\ o \in told' \cup fenced'
      BY <1>1, <2>2, <3>1 DEF historyVars
    <3>4. RowsOK' /\ Closed(o.msg) /\ \A m \in Messages \ {o.msg} : Kept(m) \/ Quiet(m)
      BY <1>2, <3>2, <3>3, CloseRows
    <3> QED BY <3>3, <3>4, SameTries DEF TypeOK
  <2> QED BY <2>1, <2>2
<1>6. TypeOK'
  BY <1>1, <1>5 DEF RowsOK, TypeOK, historyVars, actorVars, hostVars
<1>7. /\ RowInv'
      /\ \A p \in Ops \ {o} : Open(p.msg) /\ row[p.msg].op = p =>
           Open(p.msg)' /\ row'[p.msg].op = p
  BY <1>1, <1>2, <1>4, <1>5, <1>6, LeaveLemma DEF historyVars, hostVars
<1>8. CurInv'
  <2> SUFFICES ASSUME cur # NoOp PROVE Open(cur.msg)' /\ row'[cur.msg].op = cur /\ cur.epoch = epoch
    BY <1>1 DEF CurInv, actorVars
  <2>1. cur \in Ops \ {o} /\ Open(cur.msg) /\ row[cur.msg].op = cur /\ cur.epoch = epoch
    BY <1>1 DEF TypeOK, ActorInv, CurInv, Tracked
  <2> QED BY <1>1, <1>7, <2>1 DEF actorVars
<1>9. PhaseInv'
  <2> SUFFICES ASSUME cur # NoOp PROVE ~Unadmitted(cur)'
    BY <1>1 DEF PhaseInv, actorVars
  <2>1. /\ cur \in Ops \ {o} /\ cur.msg \in Messages /\ Open(cur.msg) /\ row[cur.msg].op = cur
        /\ ~Unadmitted(cur)
    BY <1>1, OpFacts DEF TypeOK, ActorInv, CurInv, PhaseInv, Tracked
  <2>2. cur.msg # o.msg
    BY <1>2, <2>1
  <2>3. Kept(cur.msg)
    BY <1>5, <2>1, <2>2 DEF Quiet
  <2> QED BY <1>1, <2>1, <2>3 DEF Unadmitted, Kept, hostVars, actorVars
<1>10. RetiredInv'
  <2> SUFFICES ASSUME NEW p \in retired
               PROVE Open(p.msg)' /\ row'[p.msg].op = p /\ p \in fenced \cup escalated /\ p # cur
    BY <1>1 DEF RetiredInv, actorVars, historyVars
  <2>1. p \in Ops \ {o} /\ Open(p.msg) /\ row[p.msg].op = p /\ p \in fenced \cup escalated /\ p # cur
    BY <1>1 DEF TypeOK, ActorInv, RetiredInv, Tracked
  <2> QED BY <1>7, <2>1
<1> QED BY <1>6, <1>7, <1>8, <1>9, <1>10 DEF ActorInv

LEMMA SettleStep ==
  ASSUME IInv, NEW o \in Ops, Settle(o) PROVE IInv'
<1> USE DEF IInv
<1>1. /\ pc = "free" /\ o \in Tracked /\ o # NoOp /\ (Wanted(o) => o \in told)
      /\ row' = Complete(o) /\ escalated' = escalated \ {o} /\ Forget(o)
      /\ UNCHANGED <<tries, historyVars, pc, steered, paused, hostVars>>
  BY DEF Settle
<1>2. PICK reset \in BOOLEAN :
        /\ reset => o = cur /\ o.epoch = epoch
        /\ RotateIf(reset)
        /\ unread' \in SUBSET Messages
  BY DEF Settle, TypeOK
<1>3. o.msg \in Messages /\ Open(o.msg) /\ row[o.msg].op = o
  BY <1>1, OpFacts DEF ActorInv, CurInv, RetiredInv, Tracked
<1>4. o \in told \cup fenced
  BY <1>1 DEF Wanted, ActorInv, RetiredInv
<1>5. RowsOK' /\ Closed(o.msg) /\ \A m \in Messages \ {o.msg} : Kept(m) \/ Quiet(m)
  <2>1. o \in told' \cup fenced' /\ escalated' \in {escalated, escalated \ {o}} /\ tries' = tries
    BY <1>1, <1>4 DEF historyVars
  <2> QED BY <1>1, <1>3, <2>1, CloseRows
<1>6. epoch' \in Epochs /\ epoch' >= epoch /\ (epoch' # epoch => reset)
  BY <1>2, RotateFacts
<1>7. TypeOK'
  BY <1>1, <1>2, <1>5, <1>6 DEF RowsOK, TypeOK, Forget, Idle, historyVars, hostVars
<1>8. /\ RowInv'
      /\ \A p \in Ops \ {o} : Open(p.msg) /\ row[p.msg].op = p =>
           Open(p.msg)' /\ row'[p.msg].op = p
  BY <1>1, <1>2, <1>3, <1>5, <1>6, <1>7, LeaveLemma, SameTries DEF historyVars, hostVars
<1>9. cur' = (IF o = cur THEN NoOp ELSE cur) /\ retired' = retired \ {o}
  BY <1>1 DEF Forget, Idle
<1>10. CurInv'
  <2> SUFFICES ASSUME cur # NoOp, cur # o
               PROVE Open(cur.msg)' /\ row'[cur.msg].op = cur /\ cur.epoch = epoch'
    BY <1>9 DEF CurInv
  <2>1. cur \in Ops \ {o} /\ Open(cur.msg) /\ row[cur.msg].op = cur /\ cur.epoch = epoch
    BY DEF TypeOK, ActorInv, CurInv
  <2> QED BY <1>2, <1>6, <1>8, <1>9, <2>1
<1>11. PhaseInv'
  <2> SUFFICES ASSUME cur # NoOp, cur # o PROVE ~Unadmitted(cur)'
    BY <1>1, <1>9 DEF PhaseInv
  <2>1. /\ cur \in Ops \ {o} /\ cur.msg \in Messages /\ Open(cur.msg) /\ row[cur.msg].op = cur
        /\ ~Unadmitted(cur)
    BY <1>1, OpFacts DEF TypeOK, ActorInv, CurInv, PhaseInv
  <2>2. cur.msg # o.msg
    BY <1>3, <2>1
  <2>3. Kept(cur.msg)
    BY <1>5, <2>1, <2>2 DEF Quiet
  <2> QED BY <1>1, <1>9, <2>1, <2>3 DEF Unadmitted, Kept, hostVars
<1>12. RetiredInv'
  <2> SUFFICES ASSUME NEW p \in retired \ {o}
               PROVE Open(p.msg)' /\ row'[p.msg].op = p /\ p \in fenced' \cup escalated' /\ p # cur'
    BY <1>9 DEF RetiredInv
  <2>1. p \in Ops \ {o} /\ Open(p.msg) /\ row[p.msg].op = p /\ p \in fenced \cup escalated /\ p # cur
    BY DEF TypeOK, ActorInv, RetiredInv
  <2> QED BY <1>1, <1>8, <1>9, <2>1, OpFacts DEF historyVars
<1> QED BY <1>7, <1>8, <1>10, <1>11, <1>12 DEF ActorInv

-----------------------------------------------------------------------------
(* Leaving an epoch, and taking the next or a recovered turn.              *)
LEMMA EscalateStep ==
  ASSUME IInv, NEW o \in Ops, Escalate(o) PROVE IInv'
<1> USE DEF IInv
<1> DEFINE r == [st |-> "done", op |-> o, sent |-> FALSE, claim |-> {}]
<1> DEFINE hit(m) == m \in Claimed(o) /\ row[m].st = "pending"
<1>1. /\ pc = "free" /\ o \in OpenOps /\ (o = cur \/ (o \notin Tracked /\ ~Unadmitted(o)))
      /\ row[o.msg].sent
      /\ RotateIf(o.epoch = epoch)
      /\ escalated' = escalated \cup {o}
      /\ unread' \in SUBSET Messages
      /\ row' = [m \in Messages |-> IF hit(m) THEN r ELSE row[m]]
      /\ retired' = retired \cup {o}
      /\ IF o = cur THEN Idle ELSE UNCHANGED <<cur, ctx, adopted, held, shut>>
      /\ UNCHANGED <<tries, historyVars, pc, steered, paused, hostVars>>
  BY DEF Escalate, TypeOK
<1>2. o.msg \in Messages /\ Open(o.msg) /\ row[o.msg].op = o /\ o # NoOp
  BY <1>1, OpenOpsFacts, OpFacts
<1>3. ~Unadmitted(o)
  BY <1>1, <1>2 DEF ActorInv, PhaseInv
<1>4. epoch' \in Epochs /\ epoch' >= epoch /\ (epoch' # epoch => o.epoch = epoch)
      /\ (o.epoch = epoch => epoch' = epoch + 1)
  <2>1. (o.epoch = epoch) \in BOOLEAN
    OBVIOUS
  <2> QED BY <1>1, <2>1, RotateFacts
<1>5. ASSUME NEW m \in Messages
      PROVE  /\ row'[m] \in Row /\ RowShape(m)' /\ (Kept(m) \/ Quiet(m))
             /\ Open(m) => row'[m] = row[m]
  <2>0. row[m] \in Row /\ RowShape(m)
    BY DEF TypeOK
  <2>1. CASE hit(m)
    <3>1. row'[m] = r /\ row[m].st = "pending" /\ row[m].op = NoOp
      BY <1>1, <2>1, RowFacts
    <3>2. o.msg # m
      BY <1>2, <3>1 DEF Open
    <3>3. Quiet(m)
      BY <3>1, <3>2 DEF Quiet, Open, NoOp, Messages
    <3> QED BY <3>1, <3>3 DEF Row, RowStates, RowShape, Open
  <2>2. CASE ~hit(m)
    <3>1. row'[m] = row[m]
      BY <1>1, <2>2
    <3>2. Kept(m) \/ Quiet(m)
      BY <1>1, <3>1, SameRow
    <3> QED BY <2>0, <3>1, <3>2 DEF RowShape, Plain
  <2> QED BY <2>1, <2>2
<1> HIDE DEF r, hit
<1>6. TypeOK'
  <2>1. row' \in [Messages -> Row]
    BY <1>1, <1>5
  <2>2. cur' \in Ops \cup {NoOp} /\ ctx' \in SUBSET Messages
        /\ adopted' \in BOOLEAN /\ held' \in BOOLEAN /\ shut' \in BOOLEAN
    BY <1>1 DEF Idle, TypeOK
  <2>3. retired' \in SUBSET Ops /\ escalated' \in SUBSET Ops
    BY <1>1 DEF TypeOK
  <2> QED BY <1>1, <1>4, <1>5, <2>1, <2>2, <2>3 DEF TypeOK, historyVars, hostVars
<1>7. ASSUME NEW m \in Messages, Kept(m), row[m].op.epoch = epoch, epoch' # epoch
      PROVE  row[m].op \in escalated' /\ ~Unadmitted(row[m].op)
  <2>1. m = o.msg
    BY <1>2, <1>4, <1>7 DEF RowInv, Unique, Kept
  <2> QED BY <1>1, <1>2, <1>3, <2>1
<1>8. RowInv'
  BY <1>1, <1>4, <1>5, <1>6, <1>7, SameTries, RowStepLemma DEF RowStep, historyVars, hostVars
<1>9. CurInv'
  <2>1. CASE o = cur
    BY <1>1, <2>1 DEF Idle, CurInv
  <2>2. CASE o # cur
    <3> SUFFICES ASSUME cur # NoOp PROVE CurInv'
      BY <1>1, <2>2 DEF CurInv
    <3>1. cur.msg \in Messages /\ Open(cur.msg) /\ row[cur.msg].op = cur /\ cur.epoch = epoch
      BY OpFacts DEF TypeOK, ActorInv, CurInv
    <3>2. o.epoch # epoch
      BY <1>2, <2>2, <3>1 DEF RowInv, Unique
    <3>3. epoch' = epoch /\ cur' = cur /\ row'[cur.msg] = row[cur.msg]
      BY <1>1, <1>4, <1>5, <2>2, <3>1, <3>2
    <3> QED BY <3>1, <3>3 DEF CurInv, Open
  <2> QED BY <2>1, <2>2
<1>10. PhaseInv'
  <2>1. CASE o = cur
    BY <1>1, <2>1 DEF Idle, PhaseInv
  <2>2. CASE o # cur
    <3> SUFFICES ASSUME cur # NoOp PROVE ~Unadmitted(cur)'
      BY <1>1, <2>2 DEF PhaseInv
    <3>1. cur.msg \in Messages /\ Open(cur.msg) /\ ~Unadmitted(cur)
      BY <1>1, OpFacts DEF TypeOK, ActorInv, CurInv, PhaseInv
    <3> QED BY <1>1, <1>5, <2>2, <3>1 DEF Unadmitted, hostVars
  <2> QED BY <2>1, <2>2
<1>11. RetiredInv'
  <2> SUFFICES ASSUME NEW p \in retired \cup {o}
               PROVE Open(p.msg)' /\ row'[p.msg].op = p /\ p \in fenced' \cup escalated' /\ p # cur'
    BY <1>1 DEF RetiredInv
  <2>1. p \in Ops /\ p.msg \in Messages /\ Open(p.msg) /\ row[p.msg].op = p
        /\ p \in fenced \cup escalated'
    BY <1>1, <1>2, OpFacts DEF TypeOK, ActorInv, RetiredInv
  <2>2. row'[p.msg] = row[p.msg]
    BY <1>5, <2>1
  <2>3. p # cur'
    BY <1>1, <1>2, OpFacts, <2>1 DEF Idle, ActorInv, RetiredInv
  <2> QED BY <1>1, <2>1, <2>2, <2>3 DEF Open, historyVars
<1> QED BY <1>6, <1>8, <1>9, <1>10, <1>11 DEF ActorInv

LEMMA ResetStep ==
  ASSUME IInv, NEW k \in 0..N, Reset(k) PROVE IInv'
<1> USE DEF IInv
<1>1. /\ pc = "free" /\ RotateIf(TRUE) /\ unread' = {}
      /\ row' = [m \in Messages |->
                   IF m <= k /\ row[m].st = "pending" THEN Plain("done") ELSE row[m]]
      /\ fenced' = fenced \cup Unresolved
      /\ retired' = retired \cup ({cur} \ {NoOp})
      /\ Idle /\ paused' = FALSE
      /\ UNCHANGED <<tries, escalated, told, loosed, pc, steered, hostVars>>
  BY DEF Reset
<1>2. epoch' \in Epochs /\ epoch' >= epoch
  BY <1>1, RotateFacts
<1>3. Unresolved \in SUBSET Ops
  BY OpenOpsFacts DEF Unresolved
<1>4. ASSUME NEW m \in Messages
      PROVE  /\ row'[m] \in Row /\ RowShape(m)' /\ (Kept(m) \/ Quiet(m))
             /\ Open(m) => row'[m] = row[m]
  <2>0. row[m] \in Row /\ RowShape(m)
    BY DEF TypeOK
  <2>1. CASE row'[m] = Plain("done") /\ row[m].st = "pending"
    <3>1. row[m].op = NoOp /\ row'[m] = [st |-> "done", op |-> NoOp, sent |-> FALSE, claim |-> {}]
      BY <2>1, RowFacts DEF Plain
    <3>2. Quiet(m)
      BY <2>1, <3>1 DEF Quiet, Open, NoOp, Messages
    <3>3. row'[m] \in Row /\ row'[m].st = "done"
      BY <3>1 DEF Row, RowStates
    <3>4. RowShape(m)' /\ ~Open(m)
      BY <2>1, <3>3 DEF RowShape, Open
    <3> QED BY <3>2, <3>3, <3>4
  <2>2. CASE row'[m] = row[m]
    <3>1. Kept(m) \/ Quiet(m)
      BY <1>1, <2>2, SameRow
    <3> QED BY <2>0, <2>2, <3>1 DEF RowShape, Plain
  <2> QED BY <1>1, <2>1, <2>2
<1>5. cur # NoOp => cur \in Unresolved /\ cur \in Ops /\ Open(cur.msg) /\ row[cur.msg].op = cur
  BY OpFacts DEF TypeOK, ActorInv, CurInv, Unresolved, OpenOps
<1>6. TypeOK'
  <2>1. row' \in [Messages -> Row]
    BY <1>1, <1>4
  <2>2. retired' \in SUBSET Ops /\ fenced' \in SUBSET Ops
    BY <1>1, <1>3 DEF TypeOK
  <2> QED BY <1>1, <1>2, <1>4, <2>1, <2>2 DEF TypeOK, Idle, hostVars
<1>7. ASSUME NEW m \in Messages, Kept(m), row[m].op.epoch = epoch PROVE row[m].op \in fenced'
  BY <1>1, <1>7 DEF Kept, Unresolved, OpenOps
<1>8. RowInv'
  BY <1>1, <1>2, <1>4, <1>6, <1>7, SameTries, RowStepLemma DEF RowStep, hostVars
<1>9. CurInv' /\ PhaseInv'
  BY <1>1 DEF Idle, CurInv, PhaseInv
<1>10. RetiredInv'
  <2> SUFFICES ASSUME NEW p \in retired \cup ({cur} \ {NoOp})
               PROVE Open(p.msg)' /\ row'[p.msg].op = p /\ p \in fenced' \cup escalated' /\ p # NoOp
    BY <1>1 DEF RetiredInv, Idle
  <2>1. p \in Ops /\ p.msg \in Messages /\ Open(p.msg) /\ row[p.msg].op = p
        /\ p \in fenced' \cup escalated
    BY <1>1, <1>5, OpFacts DEF TypeOK, ActorInv, RetiredInv
  <2> QED BY <1>1, <1>4, <2>1, OpFacts DEF Open
<1> QED BY <1>6, <1>8, <1>9, <1>10 DEF ActorInv

LEMMA BindPoisonedStep ==
  ASSUME IInv, BindPoisoned PROVE IInv'
<1> USE DEF IInv
<1>1. /\ pc = "free" /\ cur = NoOp /\ Unresolved = {} /\ RotateIf(TRUE)
      /\ UNCHANGED <<row, unread, tries, escalated, historyVars, actorVars, hostVars>>
  BY DEF BindPoisoned
<1>2. epoch' \in Epochs /\ epoch' >= epoch
  BY <1>1, RotateFacts
<1>3. TypeOK'
  BY <1>1, <1>2 DEF TypeOK, RowShape, historyVars, actorVars, hostVars
<1>4. ASSUME NEW m \in Messages PROVE Kept(m) \/ Quiet(m)
  BY <1>1, SameRow
<1>5. ASSUME NEW m \in Messages, Kept(m) PROVE row[m].op.epoch # epoch
  BY <1>1, <1>5 DEF Kept, Unresolved, OpenOps
<1>6. RowInv'
  BY <1>1, <1>2, <1>3, <1>4, <1>5, SameTries, RowStepLemma DEF RowStep, historyVars, hostVars
<1>7. ActorInv'
  BY <1>1 DEF ActorInv, CurInv, PhaseInv, RetiredInv, Open, historyVars, actorVars
<1> QED BY <1>3, <1>6, <1>7

LEMMA DispatchStep ==
  ASSUME IInv, Dispatch PROVE IInv'
<1> USE DEF IInv
<1> PICK m \in PendingOldest :
      LET o == [msg |-> m, epoch |-> epoch, try |-> tries[m][epoch]]
      IN  /\ row' = [row EXCEPT ![m] =
                       [st |-> "bound", op |-> o, sent |-> FALSE, claim |-> {}]]
          /\ cur' = o
  BY DEF Dispatch
<1> DEFINE o == [msg |-> m, epoch |-> epoch, try |-> tries[m][epoch]]
<1> DEFINE r == [st |-> "bound", op |-> o, sent |-> FALSE, claim |-> {}]
<1>1. /\ pc = "free" /\ cur = NoOp /\ Unresolved = {} /\ pc' = "bound"
      /\ alive' \in [Epochs -> BOOLEAN]
      /\ row' = [row EXCEPT ![m] = r] /\ cur' = o
      /\ UNCHANGED <<unread, epoch, tries, escalated, historyVars, ctx, steered,
                     adopted, held, shut, paused, retired, host, srec>>
  BY DEF Dispatch, TypeOK
<1>2. m \in Messages /\ row[m].st = "pending" /\ row[m].op = NoOp /\ ~Open(m)
  BY RowFacts DEF PendingOldest
<1>3. o \in Ops /\ o.msg = m /\ o.epoch = epoch /\ o.try = tries[m][epoch]
  BY <1>2 DEF TypeOK, Ops
<1>4. ShapeOK(m, r) /\ r.op = o /\ r.st = "bound" /\ ~r.sent
  BY <1>2, <1>3 DEF ShapeOK, Row, RowStates
<1> HIDE DEF o, r
<1>5. RowsOK' /\ row'[m] = r /\ \A n \in Messages \ {m} : row'[n] = row[n]
  BY <1>1, <1>2, <1>4, PutRow
<1>6. TypeOK'
  BY <1>1, <1>3, <1>5 DEF RowsOK, TypeOK, historyVars
<1>7. ASSUME NEW p \in Ops, p.msg = m PROVE host[p] \notin MayAct /\ (host[p] # "none" => p.try < tries[m][p.epoch])
  BY <1>2, <1>7, OpFacts DEF RowInv, NoOrphan, UsedInv
<1>8. host[o] = "none"
  BY <1>3, <1>7, OpFacts
<1>9. OpenInv'
  <2> SUFFICES ASSUME NEW n \in Messages, Open(n)' PROVE OpenOK(n)'
    BY DEF OpenInv
  <2>1. CASE n = m
    <3>1. epoch \in Int
      BY DEF TypeOK, Epochs
    <3> QED BY <1>1, <1>3, <1>4, <1>5, <1>8, <2>1, <3>1 DEF OpenOK
  <2>2. CASE n # m
    <3>1. row'[n] = row[n]
      BY <1>5, <2>2
    <3>2. Open(n) /\ OpenOK(n)
      BY <3>1 DEF Open, RowInv, OpenInv
    <3>3. UNCHANGED <<epoch, tries, fenced, escalated, host>>
      BY <1>1 DEF historyVars
    <3>4. row[n].op.msg = n /\ (Unadmitted(row[n].op)' => Unadmitted(row[n].op))
      BY <3>1, <3>2, <3>3, RowFacts DEF Unadmitted
    <3> QED BY <3>1, <3>2, <3>3, <3>4 DEF OpenOK
  <2> QED BY <2>1, <2>2
<1>10. UsedInv' /\ NoOrphan'
  <2>1. ASSUME NEW p \in Ops, p.msg # m PROVE row'[p.msg] = row[p.msg]
    BY <1>5, <2>1, OpFacts
  <2> QED BY <1>1, <1>7, <2>1 DEF RowInv, UsedInv, NoOrphan
<1>11. Unique'
  <2>1. ASSUME NEW n \in Messages, Open(n) PROVE row[n].op.epoch # epoch
    BY <1>1, <2>1 DEF Unresolved, OpenOps
  <2>2. ASSUME NEW n \in Messages \ {m}, Open(n)' PROVE Open(n) /\ row'[n].op = row[n].op
    BY <1>5, <2>2 DEF Open
  <2>3. row'[m].op.epoch = epoch
    BY <1>3, <1>4, <1>5
  <2> QED BY <2>1, <2>2, <2>3 DEF RowInv, Unique
<1>12. NoSilentEnd'
  BY <1>1, <1>4, <1>5 DEF RowInv, NoSilentEnd, historyVars
<1>13. CurInv' /\ PhaseInv'
  BY <1>1, <1>2, <1>3, <1>4, <1>5, OpFacts DEF CurInv, PhaseInv, Open
<1>14. RetiredInv'
  <2> SUFFICES ASSUME NEW p \in retired
               PROVE Open(p.msg)' /\ row'[p.msg].op = p /\ p \in fenced \cup escalated /\ p # o
    BY <1>1 DEF RetiredInv, historyVars
  <2>1. p.msg \in Messages /\ Open(p.msg) /\ row[p.msg].op = p /\ p \in fenced \cup escalated
    BY OpFacts DEF TypeOK, ActorInv, RetiredInv
  <2> QED BY <1>2, <1>3, <1>5, <2>1 DEF Open
<1> QED BY <1>6, <1>9, <1>10, <1>11, <1>12, <1>13, <1>14 DEF RowInv, ActorInv

LEMMA AdoptStep ==
  ASSUME IInv, NEW o \in Ops, Adopt(o) PROVE IInv'
<1> USE DEF IInv
<1>1. /\ pc = "free" /\ o \in OpenOps /\ o \notin Tracked /\ host[o] \in Landed
      /\ row' = Accept(o)
      /\ UNCHANGED <<unread, epoch, tries, escalated, historyVars, pc, steered, paused, hostVars>>
  BY DEF Adopt
<1>2. \/ /\ o.epoch < epoch /\ retired' = retired \cup {o}
         /\ UNCHANGED <<cur, ctx, adopted, held, shut>>
      \/ /\ ~(o.epoch < epoch) /\ cur' = o /\ ctx' = Claimed(o) /\ adopted' = TRUE
         /\ held' = FALSE /\ shut' = FALSE /\ retired' = retired
  BY DEF Adopt
<1>3. o.msg \in Messages /\ Open(o.msg) /\ row[o.msg].op = o /\ OpenOK(o.msg) /\ o # NoOp
  BY <1>1, OpenOpsFacts, OpFacts DEF RowInv, OpenInv
<1>4. /\ RowsOK'
      /\ \A m \in Messages : (Kept(m) \/ Quiet(m)) /\ row'[m].op = row[m].op
                             /\ row'[m].sent = row[m].sent
                             /\ (row'[m].st = "bound" => row[m].st = "bound" /\ row[m].op # o)
  BY <1>1, AcceptLemma
<1>5. TypeOK'
  <2>1. Claimed(o) \in SUBSET Messages
    BY <1>3, RowFacts DEF Claimed, Steers
  <2>2. cur' \in Ops \cup {NoOp} /\ ctx' \in SUBSET Messages /\ retired' \in SUBSET Ops
        /\ adopted' \in BOOLEAN /\ held' \in BOOLEAN /\ shut' \in BOOLEAN
    BY <1>2, <2>1 DEF TypeOK
  <2> QED BY <1>1, <1>4, <2>2 DEF RowsOK, TypeOK, historyVars, hostVars
<1>6. RowInv'
  BY <1>1, <1>4, <1>5, KeepLemma DEF historyVars, hostVars
<1>7. ASSUME NEW m \in Messages, Open(m) PROVE Open(m)' /\ row'[m].op = row[m].op
  BY <1>4, <1>7 DEF Kept, Quiet
<1>8. ~Unadmitted(o)'
  BY <1>3, <1>4 DEF Unadmitted
<1>9. epoch \in Int /\ o.epoch \in Int
  BY OpFacts DEF TypeOK, Epochs
<1>10. o \in fenced \cup escalated \/ ~(o.epoch < epoch)
  BY <1>3 DEF OpenOK
<1>11. CurInv'
  <2>1. CASE cur' = o /\ ~(o.epoch < epoch)
    BY <1>1, <1>3, <1>7, <1>9, <2>1 DEF OpenOK, CurInv
  <2>2. CASE cur' = cur
    BY <1>1, <1>7, <2>2, OpFacts DEF TypeOK, ActorInv, CurInv
  <2> QED BY <1>2, <2>1, <2>2
<1>12. PhaseInv'
  <2>1. cur' # NoOp => ~Unadmitted(cur)'
    <3>1. CASE cur' = o
      BY <1>8, <3>1 DEF Unadmitted
    <3>2. CASE cur' = cur /\ cur # NoOp
      <4>1. cur.msg \in Messages /\ ~Unadmitted(cur)
        BY <1>1, <3>2, OpFacts DEF TypeOK, ActorInv, PhaseInv
      <4> QED BY <1>1, <1>4, <3>2, <4>1 DEF Unadmitted, hostVars
    <3> QED BY <1>2, <3>1, <3>2
  <2> QED BY <1>1, <2>1 DEF PhaseInv
<1>13. RetiredInv'
  <2> SUFFICES ASSUME NEW p \in retired'
               PROVE Open(p.msg)' /\ row'[p.msg].op = p /\ p \in fenced \cup escalated /\ p # cur'
    BY <1>1 DEF RetiredInv, historyVars
  <2>1. CASE p \in retired
    <3>1. p.msg \in Messages /\ Open(p.msg) /\ row[p.msg].op = p /\ p \in fenced \cup escalated /\ p # cur
      BY <2>1, OpFacts DEF TypeOK, ActorInv, RetiredInv
    <3>2. p # o
      BY <1>1, <2>1 DEF Tracked
    <3> QED BY <1>2, <1>7, <3>1, <3>2
  <2>2. CASE p = o /\ o.epoch < epoch
    <3>1. cur' = cur /\ cur # o
      BY <1>1, <1>2, <2>2 DEF Tracked
    <3> QED BY <1>3, <1>7, <1>10, <2>2, <3>1
  <2> QED BY <1>2, <2>1, <2>2
<1> QED BY <1>5, <1>6, <1>11, <1>12, <1>13 DEF ActorInv

-----------------------------------------------------------------------------
(* A message is put before the model once. A steer the runtime has, or may *)
(* still get, is one the row names.                                        *)
InFlight == {"transit", "accepted"}
Sending == {"bound", "prepared", "sending"}
Carried(m) == row[m].op \in Ops /\ row[m].op.msg # m

(* A message is steered into an operation only after its prompt may have   *)
(* left, and never into one that was refused as busy.                      *)
Sent(o) ==
  \/ o.try < tries[o.msg][o.epoch]
  \/ /\ row[o.msg].op = o /\ row[o.msg].sent /\ host[o] # "busy"
     /\ ~(cur = o /\ pc \in Sending)

AcceptedInv == \A m \in Messages : row[m].st = "accepted" => host[row[m].op] \in Landed
SentInv == \A m \in Messages : Carried(m) => Sent(row[m].op)
SteerInv ==
  \A m \in Messages \ loosed, e \in Epochs :
    srec[m][e] \in InFlight => Carried(m) /\ row[m].op.epoch = e
CarryInv == AcceptedInv /\ SentInv /\ SteerInv

(* A step treats each row in one of four ways: it keeps its operation, it  *)
(* is an open row released under a new attempt, a steer let go of, or a    *)
(* row that had no operation.                                              *)
SameOp(m) ==
  /\ row'[m].op = row[m].op
  /\ row[m].sent => row'[m].sent \/ Carried(m)
  /\ row'[m].st = "accepted" => row[m].st = "accepted" \/ host[row[m].op] \in Landed
Reattempt(m) ==
  /\ Open(m) /\ row'[m] = Plain("pending")
  /\ row[m].op.try < tries'[m][row[m].op.epoch]
LetGo(m) ==
  /\ Carried(m) /\ row'[m] = Plain("pending")
  /\ m \in loosed' \/ \A e \in Epochs : srec[m][e] \notin InFlight
GotOp(m) ==
  /\ row[m].op = NoOp /\ row'[m].st # "accepted"
  /\ Carried(m)' => Sent(row[m].op)'

RowsCarry == \A m \in Messages : SameOp(m) \/ Reattempt(m) \/ LetGo(m) \/ GotOp(m)
CountsUp ==
  /\ \A m \in Messages, e \in Epochs : tries[m][e] <= tries'[m][e]
  /\ loosed \subseteq loosed'
HostUp ==
  \A o \in Ops :
    /\ host[o] \in Landed => host'[o] \in Landed
    /\ host'[o] = "busy" => host[o] = "busy" \/ (o = cur /\ pc = "sending")
TaskUp == pc' \in Sending /\ row[cur'.msg].op = cur' => pc \in Sending /\ cur' = cur
SrecUp ==
  \A m \in Messages, e \in Epochs :
    srec'[m][e] \in InFlight =>
      srec[m][e] \in InFlight \/ (Carried(m)' /\ row'[m].op.epoch = e)
CarryStep == RowsCarry /\ CountsUp /\ HostUp /\ TaskUp /\ SrecUp

LEMMA CarryLemma ==
  ASSUME IInv, IInv', CarryInv, CarryStep PROVE CarryInv'
<1> USE DEF CarryInv, CarryStep
<1>0. TypeOK /\ TypeOK'
  BY DEF IInv
<1>1. AcceptedInv'
  <2> SUFFICES ASSUME NEW m \in Messages, row'[m].st = "accepted"
               PROVE  host'[row'[m].op] \in Landed
    BY DEF AcceptedInv
  <2>1. SameOp(m)
    BY DEF RowsCarry, Reattempt, LetGo, GotOp, Plain
  <2>2. row'[m].op \in Ops
    BY <1>0 DEF TypeOK, RowShape
  <2>3. host[row[m].op] \in Landed
    BY <2>1 DEF SameOp, AcceptedInv
  <2> QED BY <2>1, <2>2, <2>3 DEF SameOp, HostUp
<1>2. ASSUME NEW o \in Ops, Sent(o) PROVE Sent(o)'
  <2>1. o.msg \in Messages /\ o.epoch \in Epochs /\ o.try \in Int /\ o # NoOp
    BY OpFacts
  <2>2. tries[o.msg][o.epoch] \in Int /\ tries'[o.msg][o.epoch] \in Int
        /\ tries[o.msg][o.epoch] <= tries'[o.msg][o.epoch]
    BY <1>0, <2>1 DEF TypeOK, CountsUp
  <2>3. CASE o.try < tries[o.msg][o.epoch]
    BY <2>1, <2>2, <2>3 DEF Sent
  <2>4. CASE /\ row[o.msg].op = o /\ row[o.msg].sent /\ host[o] # "busy"
             /\ ~(cur = o /\ pc \in Sending)
    <3>1. CASE SameOp(o.msg)
      <4>1. row'[o.msg].op = o /\ row'[o.msg].sent
        BY <2>4, <3>1 DEF SameOp, Carried
      <4>2. host'[o] # "busy"
        BY <2>1, <2>4 DEF HostUp, Sending
      <4>3. ~(cur' = o /\ pc' \in Sending)
        BY <2>4 DEF TaskUp
      <4> QED BY <4>1, <4>2, <4>3 DEF Sent
    <3>2. CASE Reattempt(o.msg)
      BY <2>4, <3>2 DEF Reattempt, Sent
    <3>3. ~LetGo(o.msg) /\ ~GotOp(o.msg)
      BY <2>1, <2>4 DEF LetGo, GotOp, Carried
    <3> QED BY <2>1, <3>1, <3>2, <3>3 DEF RowsCarry
  <2> QED BY <1>2, <2>3, <2>4 DEF Sent
<1>3. SentInv'
  <2> SUFFICES ASSUME NEW m \in Messages, Carried(m)' PROVE Sent(row[m].op)'
    BY DEF SentInv
  <2>1. CASE SameOp(m)
    <3> DEFINE o == row[m].op
    <3>1. Carried(m) /\ row'[m].op = o /\ o \in Ops
      BY <2>1 DEF SameOp, Carried
    <3>2. Sent(o)
      BY <3>1 DEF SentInv
    <3>3. PICK p \in Ops : p = o
      BY <3>1
    <3>4. Sent(p)'
      BY <1>2, <3>2, <3>3 DEF Sent
    <3> QED BY <3>1, <3>3, <3>4 DEF Sent
  <2>2. CASE GotOp(m)
    BY <2>2 DEF GotOp
  <2>3. ~Reattempt(m) /\ ~LetGo(m)
    <3>1. row'[m] # Plain("pending")
      BY DEF Carried, Plain, Ops, NoOp, Messages
    <3> QED BY <3>1 DEF Reattempt, LetGo
  <2> QED BY <2>1, <2>2, <2>3 DEF RowsCarry
<1>4. SteerInv'
  <2> SUFFICES ASSUME NEW m \in Messages \ loosed', NEW e \in Epochs, srec'[m][e] \in InFlight
               PROVE  Carried(m)' /\ row'[m].op.epoch = e
    BY DEF SteerInv
  <2>1. CASE srec[m][e] \in InFlight
    <3>1. Carried(m) /\ row[m].op.epoch = e
      BY <2>1 DEF CountsUp, SteerInv
    <3>2. ~Open(m)
      BY <1>0, <3>1, RowFacts DEF Carried
    <3>3. SameOp(m)
      BY <2>1, <3>1, <3>2, OpFacts DEF RowsCarry, Reattempt, LetGo, GotOp, Carried
    <3> QED BY <3>1, <3>3 DEF SameOp, Carried
  <2>2. CASE srec[m][e] \notin InFlight
    BY <2>2 DEF SrecUp
  <2> QED BY <2>1, <2>2
<1> QED BY <1>1, <1>3, <1>4

(* Steps that touch no row and no counter.                                 *)
LEMMA StillCarry ==
  ASSUME IInv, IInv', CarryInv, UNCHANGED <<row, tries, loosed>>, HostUp, TaskUp, SrecUp
  PROVE  CarryInv'
<1>1. RowsCarry
  BY DEF RowsCarry, SameOp
<1>2. CountsUp
  BY SameTries DEF IInv, CountsUp
<1> QED BY <1>1, <1>2, CarryLemma DEF CarryStep

LEMMA SameHost ==
  ASSUME host' = host PROVE HostUp
BY DEF HostUp

LEMMA SameTask ==
  ASSUME pc' \in Sending => pc \in Sending /\ cur' = cur PROVE TaskUp
BY DEF TaskUp

LEMMA SameSrec ==
  ASSUME srec' = srec PROVE SrecUp
BY DEF SrecUp

LEMMA QuietCarry ==
  ASSUME IInv, IInv', CarryInv,
         \/ BindPoisoned \/ StartTurn \/ SteerTorn \/ ReplyVisible \/ StatusUnknown
         \/ RebindModel \/ Crash \/ Restart
         \/ (\E o \in Ops : Tell(o)) \/ (\E e \in Epochs : SessionLost(e))
         \/ UNCHANGED vars
  PROVE  CarryInv'
<1>1. UNCHANGED <<row, tries, loosed, host, srec>>
  BY DEF BindPoisoned, StartTurn, SteerTorn, ReplyVisible, StatusUnknown, RebindModel, Crash,
         Restart, Tell, SessionLost, vars, rowVars, historyVars, actorVars, hostVars
<1>2. pc' \in Sending => pc \in Sending /\ cur' = cur
  BY DEF BindPoisoned, StartTurn, SteerTorn, ReplyVisible, StatusUnknown, RebindModel, Crash,
         Restart, Tell, SessionLost, vars, rowVars, historyVars, actorVars, hostVars, Sending
<1> QED BY <1>1, <1>2, StillCarry, SameHost, SameTask, SameSrec

LEMMA HostCarry ==
  ASSUME IInv, IInv', CarryInv,
         \/ \E a \in {"queued", "busy", "unselected"} : PromptReaches(a)
         \/ SendTorn \/ CutStalled
         \/ \E o \in Ops : HostLate(o) \/ HostStarts(o) \/ HostEnds(o)
  PROVE  CarryInv'
<1>1. UNCHANGED <<row, tries, loosed, srec, cur>>
  BY DEF PromptReaches, SendTorn, CutStalled, HostLate, HostStarts, HostEnds, HostStep,
         rowVars, historyVars, actorVars, hostVars
<1>2. pc' \in Sending => pc \in Sending
  BY DEF PromptReaches, SendTorn, CutStalled, HostLate, HostStarts, HostEnds, HostStep,
         actorVars, Sending
<1>3. HostUp
  <2>0. host \in [Ops -> HostStates] /\ cur \in Ops \cup {NoOp}
    BY DEF IInv, TypeOK
  <2>1. ASSUME NEW p \in Ops, NEW s, host' = [host EXCEPT ![p] = s],
               host[p] \in Landed => s \in Landed,
               s = "busy" => p = cur /\ pc = "sending"
        PROVE  HostUp
    BY <2>0, <2>1 DEF HostUp
  <2>2. ASSUME NEW a \in {"queued", "busy", "unselected"}, PromptReaches(a) PROVE HostUp
    <3>1. cur \in Ops
      BY <2>0, <2>2 DEF PromptReaches, IInv, ActorInv, PhaseInv
    <3> QED BY <2>1, <2>2, <3>1 DEF PromptReaches, Landed
  <2>3. CASE SendTorn
    <3>1. cur \in Ops
      BY <2>0, <2>3 DEF SendTorn, IInv, ActorInv, PhaseInv
    <3>2. CASE host[cur] = "none"
      BY <2>1, <2>3, <3>1, <3>2 DEF SendTorn, Landed
    <3>3. CASE host[cur] # "none"
      BY <2>3, <3>3, SameHost DEF SendTorn
    <3> QED BY <3>2, <3>3
  <2>4. CASE CutStalled
    <3>1. cur \in Ops
      BY <2>0, <2>4 DEF CutStalled
    <3> QED BY <2>1, <2>4, <3>1 DEF CutStalled, Landed
  <2>5. ASSUME NEW o \in Ops, HostLate(o) \/ HostStarts(o) \/ HostEnds(o) PROVE HostUp
    BY <2>1, <2>5 DEF HostLate, HostStarts, HostEnds, HostStep, Landed
  <2> QED BY <2>2, <2>3, <2>4, <2>5
<1> QED BY <1>1, <1>2, <1>3, StillCarry, SameTask, SameSrec

LEMMA SteerLandsCarry ==
  ASSUME IInv, IInv', CarryInv, NEW m \in Messages, NEW e \in Epochs, SteerLands(m, e)
  PROVE  CarryInv'
<1>1. UNCHANGED <<row, tries, loosed, host, pc, cur>>
  BY DEF SteerLands, rowVars, historyVars, actorVars
<1>2. SrecUp
  BY DEF IInv, TypeOK, SteerLands, SrecUp, InFlight
<1> QED BY <1>1, <1>2, StillCarry, SameHost, SameTask

(* A row replaced, the others untouched.                                   *)
LEMMA OneCarry ==
  ASSUME NEW m \in Messages, \A n \in Messages \ {m} : row'[n] = row[n],
         SameOp(m) \/ Reattempt(m) \/ LetGo(m) \/ GotOp(m)
  PROVE  RowsCarry
BY DEF RowsCarry, SameOp

(* The steps that change rows leave the session and its record of the      *)
(* steers alone, and take no new turn to be sent.                          *)
LEMMA RowCarry ==
  ASSUME IInv, IInv', CarryInv, RowsCarry, host' = host, srec' = srec,
         \A m \in Messages, e \in Epochs : tries[m][e] <= tries'[m][e],
         loosed \subseteq loosed', pc' \in Sending => pc \in Sending /\ cur' = cur
  PROVE  CarryInv'
BY CarryLemma, SameHost, SameSrec, SameTask DEF CarryStep, CountsUp

(* A row without an operation has no steer in flight.                      *)
LEMMA Grounded ==
  ASSUME IInv, CarryInv, NEW m \in Messages, ~Carried(m)
  PROVE  m \in loosed \/ \A e \in Epochs : srec[m][e] \notin InFlight
BY DEF CarryInv, SteerInv

(* The turn a sweep or the actor works on, past its send, may be steered.  *)
LEMMA SentTurn ==
  ASSUME IInv, CarryInv, NEW o \in Ops, Open(o.msg), row[o.msg].op = o, ~Unadmitted(o)
  PROVE  row[o.msg].sent /\ host[o] # "busy"
<1>1. o.msg \in Messages /\ OpenOK(o.msg)
  BY OpFacts DEF IInv, RowInv, OpenInv
<1>2. CASE row[o.msg].st = "bound"
  BY <1>2 DEF Unadmitted
<1>3. CASE row[o.msg].st = "accepted"
  BY <1>1, <1>3 DEF OpenOK, CarryInv, AcceptedInv, Landed
<1> QED BY <1>2, <1>3 DEF Open

LEMMA IntakeCarry ==
  ASSUME IInv, IInv', CarryInv, NEW m \in Messages, Record(m) \/ Enqueue(m)
  PROVE  CarryInv'
<1>0. TypeOK
  BY DEF IInv
<1>1. /\ UNCHANGED <<tries, loosed, host, srec, pc, cur>>
      /\ row[m].st \in {"absent", "recorded"}
      /\ row' = [row EXCEPT ![m] = Plain("recorded")] \/ row' = [row EXCEPT ![m] = Plain("pending")]
  BY DEF Record, Enqueue, historyVars, actorVars, hostVars
<1>2. row[m].op = NoOp
  BY <1>0, <1>1, RowFacts
<1>3. row'[m].op = NoOp /\ row'[m].st \in {"recorded", "pending"} /\ ~row'[m].sent
  BY <1>0, <1>1 DEF TypeOK, Plain
<1>4. \A n \in Messages \ {m} : row'[n] = row[n]
  BY <1>0, <1>1 DEF TypeOK
<1>5. GotOp(m)
  BY <1>2, <1>3 DEF GotOp, Carried, Ops, NoOp, Messages
<1> QED BY <1>0, <1>1, <1>4, <1>5, OneCarry, RowCarry, SameTries

LEMMA DispatchCarry ==
  ASSUME IInv, IInv', CarryInv, Dispatch PROVE CarryInv'
<1>0. TypeOK
  BY DEF IInv
<1>1. PICK m \in PendingOldest :
        /\ cur' = [msg |-> m, epoch |-> epoch, try |-> tries[m][epoch]]
        /\ row' = [row EXCEPT ![m] = [st |-> "bound", op |-> cur', sent |-> FALSE, claim |-> {}]]
  BY DEF Dispatch
<1>2. m \in Messages /\ row[m].op = NoOp /\ cur'.msg = m
  BY <1>0, <1>1, RowFacts DEF PendingOldest
<1>3. row'[m] = [st |-> "bound", op |-> cur', sent |-> FALSE, claim |-> {}]
      /\ \A n \in Messages \ {m} : row'[n] = row[n]
  BY <1>0, <1>1, <1>2 DEF TypeOK
<1>4. GotOp(m)
  BY <1>2, <1>3 DEF GotOp, Carried
<1>5. pc' = "bound" /\ UNCHANGED <<tries, loosed, host, srec>>
  BY DEF Dispatch, historyVars
<1>6. cur' # NoOp
  BY <1>2 DEF NoOp, Messages
<1>7. TaskUp
  BY <1>2, <1>6 DEF TaskUp
<1>8. RowsCarry
  BY <1>2, <1>3, <1>4, OneCarry
<1>9. CountsUp
  BY <1>0, <1>5, SameTries DEF CountsUp
<1> QED BY <1>5, <1>7, <1>8, <1>9, CarryLemma, SameHost, SameSrec DEF CarryStep

LEMMA MarkSendCarry ==
  ASSUME IInv, IInv', CarryInv, MarkSendAttempted PROVE CarryInv'
<1>0. TypeOK
  BY DEF IInv
<1>1. /\ pc = "prepared" /\ UNCHANGED <<tries, loosed, host, srec, cur>>
      /\ row' = [row EXCEPT ![cur.msg] = [st |-> "bound", op |-> cur, sent |-> TRUE, claim |-> ctx]]
  BY DEF MarkSendAttempted, historyVars, hostVars
<1>2. cur.msg \in Messages /\ row[cur.msg].op = cur
  BY <1>0, <1>1, OpFacts DEF IInv, ActorInv, PhaseInv, CurInv, TypeOK
<1>3. row'[cur.msg] = [st |-> "bound", op |-> cur, sent |-> TRUE, claim |-> ctx]
      /\ \A n \in Messages \ {cur.msg} : row'[n] = row[n]
  BY <1>0, <1>1, <1>2 DEF TypeOK
<1>4. SameOp(cur.msg)
  BY <1>2, <1>3 DEF SameOp
<1>5. pc \in Sending
  BY <1>1 DEF Sending
<1> QED BY <1>0, <1>1, <1>2, <1>3, <1>4, <1>5, OneCarry, RowCarry, SameTries

(* turnAccept of an operation that landed.                                 *)
LEMMA AcceptRows ==
  ASSUME IInv, NEW o \in Ops, row' = Accept(o), UNCHANGED <<tries, escalated>>, host[o] \in Landed
  PROVE  RowsCarry
<1>1. ASSUME NEW m \in Messages PROVE SameOp(m)
  <2>1. row'[m].op = row[m].op /\ row'[m].sent = row[m].sent
    BY AcceptLemma
  <2>2. row'[m] = row[m] \/ row[m].op = o
    BY DEF Accept
  <2> QED BY <2>1, <2>2 DEF SameOp
<1> QED BY <1>1 DEF RowsCarry

LEMMA AcceptCarry ==
  ASSUME IInv, IInv', CarryInv, NEW o \in Ops,
         (SendAccepted /\ o = cur) \/ StatusKnown(o) \/ Adopt(o)
  PROVE  CarryInv'
<1>1. /\ row' = Accept(o) /\ host[o] \in Landed
      /\ UNCHANGED <<tries, escalated, loosed, host, srec>> /\ pc' = "free"
  BY DEF SendAccepted, StatusKnown, Adopt, historyVars, hostVars
<1> QED BY <1>1, AcceptRows, RowCarry, SameTries DEF IInv, Sending

(* A requeue lets go of the steers of the operation: it has none, or they  *)
(* are the exception.                                                      *)
LEMMA RequeueRows ==
  ASSUME IInv, CarryInv, NEW o \in Ops, Retry(o), Open(o.msg), row[o.msg].op = o,
         host[o] \notin MayAct, escalated' = escalated,
         ~Sent(o) \/ {m \in Messages : row[m].st = "steer" /\ row[m].op = o} \subseteq loosed'
  PROVE  RowsCarry /\ \A m \in Messages, e \in Epochs : tries[m][e] <= tries'[m][e]
<1>0. TypeOK /\ o.msg \in Messages
  BY OpFacts DEF IInv
<1>1. Released(o.msg) /\ \A m \in Messages, e \in Epochs : tries[m][e] <= tries'[m][e]
  BY RetryLemma
<1>2. row' = Requeue(o)
  BY DEF Retry
<1>3. ASSUME NEW m \in Messages PROVE SameOp(m) \/ Reattempt(m) \/ LetGo(m)
  <2>1. CASE row'[m] = row[m]
    BY <2>1 DEF SameOp
  <2>2. CASE m = o.msg
    BY <1>1, <2>2 DEF Released, Reattempt
  <2>3. CASE row'[m] # row[m] /\ m # o.msg
    <3>1. row'[m] = Plain("pending") /\ row[m].op = o /\ row[m].st \in {"bound", "accepted", "steer"}
      BY <1>2, <2>3 DEF Requeue
    <3>2. row[m].st = "steer" /\ Carried(m)
      BY <1>0, <2>3, <3>1, RowFacts DEF Carried, Open
    <3>3. Sent(o)
      BY <3>1, <3>2 DEF CarryInv, SentInv
    <3> QED BY <3>1, <3>2, <3>3 DEF LetGo
  <2> QED BY <2>1, <2>2, <2>3
<1> QED BY <1>1, <1>3 DEF RowsCarry

LEMMA RetryCarry ==
  ASSUME IInv, IInv', CarryInv, PreSendFails \/ SendRefused \/ RetryFailed
  PROVE  CarryInv'
<1>0. TypeOK
  BY DEF IInv
<1>1. /\ Retry(cur) /\ UNCHANGED <<escalated, host, srec>> /\ loosed \subseteq loosed'
      /\ pc' = "free"
  BY DEF PreSendFails, SendRefused, RetryFailed, historyVars, hostVars
<1>2. cur \in Ops /\ cur # NoOp /\ cur.msg \in Messages /\ Open(cur.msg) /\ row[cur.msg].op = cur
  BY <1>0, OpFacts DEF PreSendFails, SendRefused, RetryFailed, IInv, ActorInv, PhaseInv, CurInv,
     TypeOK
<1>3. OpenOK(cur.msg)
  BY <1>2 DEF IInv, RowInv, OpenInv
<1>4. cur.try \in Int /\ cur.try = tries[cur.msg][cur.epoch]
  BY <1>2, <1>3, OpFacts DEF OpenOK
<1>5. host[cur] \notin MayAct
  <2>1. CASE PreSendFails
    <3>1. ~row[cur.msg].sent
      BY <2>1 DEF PreSendFails, IInv, ActorInv, PhaseInv
    <3> QED BY <1>2, <1>3, <3>1 DEF OpenOK, MayAct
  <2>2. CASE SendRefused
    BY <2>2 DEF SendRefused, MayAct
  <2>3. CASE RetryFailed
    BY <2>3 DEF RetryFailed, MayAct
  <2> QED BY <2>1, <2>2, <2>3
<1>6. ~Sent(cur) \/ {m \in Messages : row[m].st = "steer" /\ row[m].op = cur} \subseteq loosed'
  <2>1. CASE PreSendFails \/ SendRefused
    <3>1. pc \in Sending
      BY <2>1 DEF PreSendFails, SendRefused, Sending
    <3> QED BY <1>4, <3>1 DEF Sent
  <2>2. CASE RetryFailed
    BY <2>2 DEF RetryFailed
  <2> QED BY <2>1, <2>2
<1>7. RowsCarry /\ \A m \in Messages, e \in Epochs : tries[m][e] <= tries'[m][e]
  BY <1>1, <1>2, <1>5, <1>6, RequeueRows
<1> QED BY <1>1, <1>7, RowCarry DEF Sending

LEMMA ReleaseCarry ==
  ASSUME IInv, IInv', CarryInv, NEW o \in Ops, ReleaseUnadmitted(o) PROVE CarryInv'
<1>0. TypeOK
  BY DEF IInv
<1>1. /\ pc = "free" /\ o \in OpenOps /\ Unadmitted(o)
      /\ IF o.epoch = epoch THEN Retry(o) ELSE row' = Complete(o) /\ UNCHANGED tries
      /\ UNCHANGED <<escalated, loosed, host, srec, pc, cur>>
  BY DEF ReleaseUnadmitted, historyVars, actorVars, hostVars
<1>2. o.msg \in Messages /\ Open(o.msg) /\ row[o.msg].op = o
  BY <1>0, <1>1, OpenOpsFacts
<1>3. OpenOK(o.msg)
  BY <1>2 DEF IInv, RowInv, OpenInv
<1>4. CASE o.epoch = epoch
  <2>1. host[o] \notin MayAct
    BY <1>1, <1>2, <1>3 DEF OpenOK, Unadmitted, MayAct
  <2>2. ~Sent(o)
    <3>1. o.try \in Int /\ o.try = tries[o.msg][o.epoch]
      BY <1>2, <1>3, OpFacts DEF OpenOK
    <3> QED BY <1>1, <3>1 DEF Sent, Unadmitted
  <2>3. RowsCarry /\ \A m \in Messages, e \in Epochs : tries[m][e] <= tries'[m][e]
    BY <1>1, <1>2, <1>4, <2>1, <2>2, RequeueRows
  <2> QED BY <1>1, <2>3, RowCarry
<1>5. CASE o.epoch # epoch
  <2>1. row' = Complete(o) /\ tries' = tries
    BY <1>1, <1>5
  <2>2. RowsCarry
    BY <1>0, <2>1 DEF RowsCarry, SameOp, Complete, TypeOK, Row
  <2> QED BY <1>0, <1>1, <2>1, <2>2, RowCarry, SameTries
<1> QED BY <1>4, <1>5

LEMMA SettleCarry ==
  ASSUME IInv, IInv', CarryInv, NEW o \in Ops, Settle(o) PROVE CarryInv'
<1>0. TypeOK
  BY DEF IInv
<1>1. row' = Complete(o) /\ UNCHANGED <<tries, loosed, host, srec>> /\ pc' = "free"
  BY DEF Settle, historyVars, hostVars
<1>2. RowsCarry
  BY <1>0, <1>1 DEF RowsCarry, SameOp, Complete, TypeOK, Row
<1> QED BY <1>0, <1>1, <1>2, RowCarry, SameTries DEF Sending

LEMMA ResetCarry ==
  ASSUME IInv, IInv', CarryInv, NEW k \in 0..N, Reset(k) PROVE CarryInv'
<1>0. TypeOK
  BY DEF IInv
<1>1. /\ row' = [m \in Messages |->
                   IF m <= k /\ row[m].st = "pending" THEN Plain("done") ELSE row[m]]
      /\ UNCHANGED <<tries, loosed, host, srec>> /\ pc' = "free"
  BY DEF Reset, hostVars
<1>2. ASSUME NEW m \in Messages PROVE SameOp(m)
  <2>1. CASE row[m].st = "pending"
    <3>1. row[m] = Plain("pending")
      BY <1>0, <2>1, RowFacts
    <3> QED BY <1>1, <3>1 DEF SameOp, Plain
  <2>2. CASE row[m].st # "pending"
    BY <1>1, <2>2 DEF SameOp
  <2> QED BY <2>1, <2>2
<1>3. RowsCarry
  BY <1>2 DEF RowsCarry
<1> QED BY <1>0, <1>1, <1>3, RowCarry, SameTries DEF Sending

LEMMA EscalateCarry ==
  ASSUME IInv, IInv', CarryInv, NEW o \in Ops, Escalate(o) PROVE CarryInv'
<1>0. TypeOK
  BY DEF IInv
<1>1. /\ pc = "free" /\ pc' = "free" /\ o \in OpenOps /\ (o = cur \/ ~Unadmitted(o))
      /\ row' = [m \in Messages |->
                   IF m \in Claimed(o) /\ row[m].st = "pending"
                   THEN [st |-> "done", op |-> o, sent |-> FALSE, claim |-> {}] ELSE row[m]]
      /\ UNCHANGED <<tries, loosed, host, srec>>
  BY DEF Escalate, historyVars, hostVars
<1>2. o.msg \in Messages /\ Open(o.msg) /\ row[o.msg].op = o /\ o # NoOp
  BY <1>0, <1>1, OpenOpsFacts, OpFacts
<1>3. ~Unadmitted(o)
  BY <1>1, <1>2 DEF IInv, ActorInv, PhaseInv
<1>4. row'[o.msg] = row[o.msg] /\ row[o.msg].sent /\ host[o] # "busy"
  BY <1>1, <1>2, <1>3, SentTurn DEF Open
<1>5. Sent(o)'
  BY <1>1, <1>2, <1>4 DEF Sent, Sending
<1>6. ASSUME NEW m \in Messages PROVE SameOp(m) \/ GotOp(m)
  <2>1. CASE row'[m] = row[m]
    BY <2>1 DEF SameOp
  <2>2. CASE row'[m] # row[m]
    <3>1. row'[m] = [st |-> "done", op |-> o, sent |-> FALSE, claim |-> {}] /\ row[m].st = "pending"
      BY <1>1, <2>2
    <3>2. row[m].op = NoOp
      BY <1>0, <3>1, RowFacts
    <3>3. Sent(row[m].op)'
      BY <1>5, <3>1 DEF Sent
    <3> QED BY <3>1, <3>2, <3>3 DEF GotOp
  <2> QED BY <2>1, <2>2
<1>7. RowsCarry
  BY <1>6 DEF RowsCarry
<1> QED BY <1>0, <1>1, <1>7, RowCarry, SameTries DEF Sending

(* The next row to steer is held on the current turn or has no operation,  *)
(* and the current turn is one a row may be steered into.                  *)
LEMMA SteerTurn ==
  ASSUME IInv, CarryInv, SteerOpen, NEW m \in SteerNext,
         \A n \in Messages \ {m} : row'[n] = row[n], host' = host, cur' = cur, pc' \notin Sending
  PROVE  m \in Messages /\ cur \in Ops /\ cur.msg # m /\ Sent(cur)' /\ row[m].op \in {cur, NoOp}
         /\ (row[m].op = cur => Carried(m))
<1>0. TypeOK
  BY DEF IInv
<1>1. m \in Messages /\ cur \in Ops /\ cur.msg # m /\ cur.msg \in Messages
  BY SteerNextFacts
<1>2. row[m].op \in {cur, NoOp}
  <2>1. row[m].st = "pending" \/ (row[m].st = "steer" /\ row[m].op = cur)
    BY DEF SteerNext, HeldOldest, PendingOldest
  <2> QED BY <1>0, <1>1, <2>1, RowFacts
<1>3. Open(cur.msg) /\ row[cur.msg].op = cur /\ ~Unadmitted(cur)
  BY DEF SteerOpen, IInv, ActorInv, CurInv, PhaseInv
<1>4. Sent(cur)'
  BY <1>1, <1>3, SentTurn DEF Sent
<1> QED BY <1>1, <1>2, <1>4 DEF Carried

LEMMA SteerCarry ==
  ASSUME IInv, IInv', CarryInv, SteerSkip \/ SteerIssued PROVE CarryInv'
<1>0. TypeOK
  BY DEF IInv
<1>1. SteerOpen /\ UNCHANGED <<tries, loosed, host, cur>> /\ pc' \in {"free", "steering"}
  BY DEF SteerSkip, SteerIssued, SteerOpen, historyVars, actorVars, hostVars
<1>2. PICK m \in SteerNext, s \in {"done", "steer"} :
        /\ row' = [row EXCEPT ![m] = [st |-> s, op |-> cur, sent |-> FALSE, claim |-> {}]]
        /\ \/ srec' = srec
           \/ srec' = IF srec[m][cur.epoch] = "none"
                      THEN [srec EXCEPT ![m][cur.epoch] = "transit"] ELSE srec
  BY DEF SteerSkip, SteerIssued, hostVars
<1>3. m \in Messages /\ cur \in Ops /\ cur.msg # m
  BY <1>1, SteerNextFacts
<1>4. row'[m] = [st |-> s, op |-> cur, sent |-> FALSE, claim |-> {}]
      /\ \A n \in Messages \ {m} : row'[n] = row[n]
  BY <1>0, <1>2, <1>3 DEF TypeOK
<1>5. Sent(cur)' /\ row[m].op \in {cur, NoOp} /\ (row[m].op = cur => Carried(m))
  BY <1>1, <1>4, SteerTurn DEF Sending
<1>6. SameOp(m) \/ GotOp(m)
  <2>1. CASE row[m].op = cur
    BY <1>4, <1>5, <2>1 DEF SameOp
  <2>2. CASE row[m].op = NoOp
    <3>1. Sent(row[m].op)'
      BY <1>1, <1>4, <1>5 DEF Sent
    <3> QED BY <1>4, <2>2, <3>1 DEF GotOp
  <2> QED BY <1>5, <2>1, <2>2
<1>7. RowsCarry
  BY <1>3, <1>4, <1>6, OneCarry
<1>8. SrecUp
  <2>1. Carried(m)' /\ row'[m].op.epoch = cur.epoch
    BY <1>1, <1>3, <1>4 DEF Carried
  <2>2. ASSUME NEW n \in Messages, NEW e \in Epochs, srec'[n][e] # srec[n][e]
        PROVE  n = m /\ e = cur.epoch
    BY <1>0, <1>2, <1>3, <2>2, OpFacts DEF TypeOK
  <2> QED BY <2>1, <2>2 DEF SrecUp
<1>9. CountsUp
  BY <1>0, <1>1, SameTries DEF CountsUp
<1>10. TaskUp
  BY <1>1 DEF TaskUp, Sending
<1> QED BY <1>1, <1>7, <1>8, <1>9, <1>10, CarryLemma, SameHost DEF CarryStep

(* A steer the runtime answered: done, or let go of behind its refusal.    *)
LEMMA AnsweredCarry ==
  ASSUME IInv, IInv', CarryInv, NEW m \in Messages,
         (m = steered /\ (SteerAccepted \/ SteerRefused)) \/ ResolveHold(m)
  PROVE  CarryInv'
<1>0. TypeOK
  BY DEF IInv
<1>1. /\ UNCHANGED <<tries, loosed, host, srec, cur>> /\ pc' = "free"
      /\ row[m].st = "steer"
      /\ \/ row' = [row EXCEPT ![m].st = "done"]
         \/ row' = [row EXCEPT ![m] = Plain("pending")] /\ srec[m][row[m].op.epoch] = "refused"
  BY DEF SteerAccepted, SteerRefused, ResolveHold, historyVars, actorVars, hostVars, IInv, ActorInv,
     PhaseInv
<1>2. Carried(m)
  BY <1>0, <1>1, RowFacts DEF Carried
<1>3. \A n \in Messages \ {m} : row'[n] = row[n]
  BY <1>0, <1>1 DEF TypeOK
<1>4. SameOp(m) \/ LetGo(m)
  <2>1. CASE row' = [row EXCEPT ![m].st = "done"]
    BY <1>0, <1>2, <2>1 DEF SameOp, TypeOK, Row
  <2>2. CASE row' = [row EXCEPT ![m] = Plain("pending")] /\ srec[m][row[m].op.epoch] = "refused"
    <3>1. row'[m] = Plain("pending")
      BY <1>0, <2>2 DEF TypeOK
    <3>2. m \in loosed \/ \A e \in Epochs : srec[m][e] \notin InFlight
      BY <2>2 DEF CarryInv, SteerInv, InFlight
    <3> QED BY <1>1, <1>2, <3>1, <3>2 DEF LetGo
  <2> QED BY <1>1, <2>1, <2>2
<1>5. RowsCarry
  BY <1>3, <1>4, OneCarry
<1> QED BY <1>0, <1>1, <1>5, RowCarry, SameTries DEF Sending

LEMMA CarryNext ==
  ASSUME IInv, IInv', CarryInv, [Next]_vars PROVE CarryInv'
<1>1. CASE \/ Dispatch \/ BindPoisoned \/ StartTurn \/ PreSendFails \/ MarkSendAttempted
  BY <1>1, DispatchCarry, QuietCarry, RetryCarry, MarkSendCarry
<1>2. CASE \E a \in {"queued", "busy", "unselected"} : PromptReaches(a)
  BY <1>2, HostCarry
<1>3. CASE SendAccepted
  <2>1. cur \in Ops
    BY <1>3 DEF SendAccepted, IInv, TypeOK, ActorInv, PhaseInv
  <2> QED BY <1>3, <2>1, AcceptCarry
<1>4. CASE SendRefused \/ SendTorn
  BY <1>4, RetryCarry, HostCarry
<1>5. CASE SteerSkip \/ SteerIssued
  BY <1>5, SteerCarry
<1>6. CASE SteerAccepted \/ SteerRefused
  <2>1. steered \in Messages
    BY <1>6 DEF SteerAccepted, SteerRefused, IInv, ActorInv, PhaseInv
  <2> QED BY <1>6, <2>1, AnsweredCarry
<1>7. CASE SteerTorn \/ ReplyVisible \/ StatusUnknown \/ Crash \/ Restart \/ RebindModel
  BY <1>7, QuietCarry
<1>8. CASE RetryFailed \/ CutStalled
  BY <1>8, RetryCarry, HostCarry
<1>9. CASE \E m \in Messages : Record(m) \/ Enqueue(m) \/ ResolveHold(m)
  BY <1>9, IntakeCarry, AnsweredCarry
<1>10. CASE \E k \in 0..N : Reset(k)
  BY <1>10, ResetCarry
<1>11. CASE \E o \in Ops : HostLate(o) \/ HostStarts(o) \/ HostEnds(o)
  BY <1>11, HostCarry
<1>12. CASE \E o \in Ops : Sweep(o)
  BY <1>12, AcceptCarry, QuietCarry, SettleCarry, EscalateCarry, ReleaseCarry DEF Sweep
<1>13. CASE \E e \in Epochs : SessionLost(e) \/ \E m \in Messages : SteerLands(m, e)
  BY <1>13, QuietCarry, SteerLandsCarry
<1>14. CASE UNCHANGED vars
  BY <1>14, QuietCarry
<1> QED BY <1>1, <1>2, <1>3, <1>4, <1>5, <1>6, <1>7, <1>8, <1>9, <1>10, <1>11, <1>12, <1>13, <1>14
    DEF Next
-----------------------------------------------------------------------------
(* The theorems.                                                           *)
LEMMA InitIInv ==
  ASSUME Init PROVE IInv
<1>1. ASSUME NEW m \in Messages PROVE row[m] = Plain("absent") /\ row[m].st = "absent"
  BY DEF Init, Plain
<1>2. TypeOK
  <2>1. Plain("absent") \in Row
    BY DEF Plain, Row, RowStates
  <2>2. row \in [Messages -> Row]
    BY <2>1 DEF Init
  <2>3. ASSUME NEW m \in Messages PROVE RowShape(m)
    BY <1>1 DEF RowShape
  <2>4. 0 \in Epochs /\ 0 \in 0..MaxTries /\ 0 \in 0..N
    BY DEF Epochs
  <2>5. tries \in [Messages -> [Epochs -> 0..MaxTries]]
    BY <2>4 DEF Init
  <2>6. /\ host \in [Ops -> HostStates] /\ alive \in [Epochs -> BOOLEAN]
        /\ srec \in [Messages -> [Epochs -> {"none", "transit", "accepted", "refused"}]]
    BY DEF Init, HostStates
  <2> QED BY <2>2, <2>3, <2>4, <2>5, <2>6 DEF Init, TypeOK
<1>3. ASSUME NEW m \in Messages PROVE ~Open(m) /\ row[m].st # "done"
  BY <1>1 DEF Open
<1>4. OpenInv /\ Unique /\ NoSilentEnd
  BY <1>3 DEF OpenInv, Unique, NoSilentEnd
<1>5. UsedInv /\ NoOrphan
  BY DEF Init, UsedInv, NoOrphan, MayAct
<1>6. ActorInv
  BY DEF Init, ActorInv, CurInv, PhaseInv, RetiredInv
<1> QED BY <1>2, <1>4, <1>5, <1>6 DEF IInv, RowInv

LEMMA StutterIInv ==
  ASSUME IInv, UNCHANGED vars PROVE IInv'
<1>1. TypeOK'
  BY DEF IInv, TypeOK, RowShape, vars, rowVars, historyVars, actorVars, hostVars
<1> QED BY <1>1, NoRowStep DEF vars, rowVars, historyVars, actorVars, hostVars

LEMMA NextIInv ==
  ASSUME IInv, [Next]_vars PROVE IInv'
<1>1. CASE \/ Dispatch \/ BindPoisoned \/ StartTurn \/ PreSendFails \/ MarkSendAttempted
  BY <1>1, DispatchStep, BindPoisonedStep, StartTurnStep, PreSendFailsStep, MarkSendAttemptedStep
<1>2. CASE (\E a \in {"queued", "busy", "unselected"} : PromptReaches(a))
           \/ SendAccepted \/ SendRefused \/ SendTorn
  BY <1>2, PromptReachesStep, SendAcceptedStep, SendRefusedStep, SendTornStep
<1>3. CASE SteerSkip \/ SteerIssued \/ SteerAccepted \/ SteerRefused \/ SteerTorn
  BY <1>3, SteerSkipStep, SteerIssuedStep, SteerAnsweredStep, SteerTornStep
<1>4. CASE ReplyVisible \/ StatusUnknown \/ RetryFailed \/ CutStalled
           \/ Crash \/ Restart \/ RebindModel
  BY <1>4, ReplyVisibleStep, RetryFailedStep, CutStalledStep, CrashStep, StartTurnStep
<1>5. CASE \E m \in Messages : Record(m) \/ Enqueue(m) \/ ResolveHold(m)
  BY <1>5, RecordStep, ResolveHoldStep
<1>6. CASE \E k \in 0..N : Reset(k)
  BY <1>6, ResetStep
<1>7. CASE \E o \in Ops : Sweep(o) \/ HostLate(o) \/ HostStarts(o) \/ HostEnds(o)
  BY <1>7, StatusKnownStep, TellStep, SettleStep, EscalateStep, ReleaseUnadmittedStep,
     AdoptStep, HostMovesStep DEF Sweep
<1>8. CASE \E e \in Epochs : SessionLost(e) \/ \E m \in Messages : SteerLands(m, e)
  BY <1>8, SteerLandsStep
<1>9. CASE UNCHANGED vars
  BY <1>9, StutterIInv
<1> QED BY <1>1, <1>2, <1>3, <1>4, <1>5, <1>6, <1>7, <1>8, <1>9 DEF Next

(* The inductive invariant: every step of intake, dispatch, steering,      *)
(* reconciliation, reset, crash and recovery preserves it.                 *)
THEOREM ConversationInvariant == Spec => []IInv
<1>1. Init => IInv
  BY InitIInv
<1>2. IInv /\ [Next]_vars => IInv'
  BY NextIInv
<1> QED BY <1>1, <1>2, PTL DEF Spec

(* Every variable of the conversation has its type and every row the shape *)
(* of its state, through every crash, retry and reset.                     *)
THEOREM TypeCorrect == Spec => []TypeOK
<1>1. IInv => TypeOK
  BY DEF IInv
<1> QED BY <1>1, ConversationInvariant, PTL

(* A prompt that may act has an owner: markSendAttempted before the send,  *)
(* and the evidence every requeue asks for, leave no operation orphaned.   *)
THEOREM NoPromptOrphaned == Spec => []NoOrphan
<1>1. IInv => NoOrphan
  BY DEF IInv, RowInv
<1> QED BY <1>1, ConversationInvariant, PTL

(* No turn ends in silence: an answer, a notice or /new closes it.         *)
THEOREM NoTurnEndsSilently == Spec => []NoSilentEnd
<1>1. IInv => NoSilentEnd
  BY DEF IInv, RowInv
<1> QED BY <1>1, ConversationInvariant, PTL

(* One epoch has one unresolved turn and the actor's current turn is it.   *)
THEOREM OneTurnPerEpoch == Spec => []OneOwner
<1>1. IInv => OneOwner
  BY DEF IInv, RowInv, ActorInv, Unique, CurInv, OneOwner
<1> QED BY <1>1, ConversationInvariant, PTL

(* Of all the operations of one trigger, over all epochs and attempts, at  *)
(* most one may act: whatever tears or crashes, a message is not run twice *)
(* as a prompt.                                                            *)
THEOREM TriggerActsOnce ==
  Spec => [](\A o, p \in Ops : o.msg = p.msg /\ host[o] \in MayAct /\ host[p] \in MayAct => o = p)
<1>1. IInv => \A o, p \in Ops :
                o.msg = p.msg /\ host[o] \in MayAct /\ host[p] \in MayAct => o = p
  BY DEF IInv, RowInv, NoOrphan
<1> QED BY <1>1, ConversationInvariant, PTL

(* The invariant of the prompts and the steers of a message.               *)
THEOREM CarriedAlways == Spec => [](IInv /\ CarryInv)
<1>1. Init => IInv /\ CarryInv
  <2> SUFFICES ASSUME Init PROVE CarryInv
    BY InitIInv
  <2>1. ASSUME NEW m \in Messages PROVE row[m] = Plain("absent") /\ ~Carried(m)
    BY DEF Init, Plain, Carried, Ops, NoOp, Messages
  <2>2. ASSUME NEW m \in Messages, NEW e \in Epochs PROVE srec[m][e] \notin InFlight
    BY DEF Init, InFlight
  <2> QED BY <2>1, <2>2 DEF CarryInv, AcceptedInv, SentInv, SteerInv, Plain
<1>2. IInv /\ CarryInv /\ [Next]_vars => (IInv /\ CarryInv)'
  BY NextIInv, CarryNext
<1> QED BY <1>1, <1>2, PTL DEF Spec

(* What a set has at most one member of counts at most one.                *)
LEMMA AtMostOne ==
  ASSUME NEW S, \A x, y \in S : x = y
  PROVE  Cardinality(S) \in {0, 1} /\ (S = {} => Cardinality(S) = 0)
<1>1. CASE S = {}
  BY <1>1, FS_EmptySet
<1>2. CASE S # {}
  <2>1. PICK x \in S : TRUE
    BY <1>2
  <2>2. S = {x}
    BY <2>1
  <2> QED BY <1>2, <2>2, FS_Singleton
<1> QED BY <1>1, <1>2

(* A message is put before the model once, as a prompt or as a steer,      *)
(* whatever crashed, tore or came late: markSendAttempted, steerIssued and *)
(* the evidence every requeue and every resolved hold asks for.            *)
THEOREM ActsOnce == Spec => []TakenOnce
<1>1. ASSUME IInv, CarryInv PROVE TakenOnce
  <2> SUFFICES ASSUME NEW m \in Messages \ loosed
               PROVE  Cardinality({o \in Ops : o.msg = m /\ host[o] \in MayAct})
                        + Cardinality({e \in Epochs : srec[m][e] = "accepted"}) <= 1
    BY DEF TakenOnce
  <2> DEFINE P == {o \in Ops : o.msg = m /\ host[o] \in MayAct}
  <2> DEFINE S == {e \in Epochs : srec[m][e] = "accepted"}
  <2>1. ASSUME NEW o \in P PROVE row[m].op = o /\ o.msg = m
    BY <1>1 DEF IInv, RowInv, NoOrphan
  <2>2. ASSUME NEW e \in S PROVE Carried(m) /\ row[m].op.epoch = e
    BY <1>1 DEF CarryInv, SteerInv, InFlight
  <2>3. Cardinality(P) \in {0, 1} /\ (P = {} => Cardinality(P) = 0)
    <3>1. \A x, y \in P : x = y
      BY <2>1
    <3> QED BY <3>1, AtMostOne
  <2>4. Cardinality(S) \in {0, 1} /\ (S = {} => Cardinality(S) = 0)
    <3>1. \A x, y \in S : x = y
      BY <2>2
    <3> QED BY <3>1, AtMostOne
  <2>5. P = {} \/ S = {}
    BY <2>1, <2>2 DEF Carried
  <2> HIDE DEF P, S
  <2>6. Cardinality(P) + Cardinality(S) <= 1
    BY <2>3, <2>4, <2>5
  <2> QED BY <2>6 DEF P, S
<1> QED BY <1>1, CarriedAlways, PTL
=============================================================================

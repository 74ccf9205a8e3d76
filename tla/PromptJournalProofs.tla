------------------------- MODULE PromptJournalProofs -------------------------
(***************************************************************************)
(* Proofs that the prompt journal never submits a prompt twice, that a     *)
(* durable refusal proves it was not accepted, and that the journal        *)
(* implements PromptPromise, for every set of overlapping calls.           *)
(***************************************************************************)
EXTENDS PromptJournal, TLAPS

\* The call may submit without claiming the row again: it wrote the intent, or
\* re-armed it, and has not heard an answer.
Claims(c) ==
  \/ pc[c] = "sending"
  \/ pc[c] \in {"attach", "model", "submit"} /\ intent[c] = "fresh"

\* What a call knows follows from where it is.
CallInv ==
  \A c \in Caller :
    /\ pc[c] \in {"model", "submit", "sending", "probing"} => intent[c] # "resumed"
    /\ pc[c] = "probing" => intent[c] = "busy"
    /\ wire[c] \in {"busy", "refused"} => ~taken
    /\ wire[c] \in {"ok", "conflict"} => taken
    /\ wire[c] = "unwritten" /\ intent[c] = "busy" => ~taken

\* A claim is exclusive and holds the row.
ClaimInv ==
  /\ \A c \in Caller : Claims(c) => row = "pending" \/ (row = "receipt" /\ taken)
  /\ \A c, d \in Caller : Claims(c) /\ Claims(d) => c = d

\* A request that may still land excludes every claim while nothing is accepted.
AdriftInv ==
  ~taken => /\ \A c \in adrift : row = "pending" /\ \A d \in Caller : ~Claims(d)
            /\ \A c, d \in adrift : c = d

RowInv ==
  /\ row = "busy" => ~taken /\ adrift = {}
  /\ row = "receipt" => taken
  /\ told # {} => taken
  /\ dropped => row = "absent" /\ ~taken /\ adrift = {}

IInv == TypeOK /\ CallInv /\ ClaimInv /\ AdriftInv /\ RowInv

-----------------------------------------------------------------------------
\* The invariant holds of an unused reference.
LEMMA InitHolds == Init => IInv
BY DEF Init, IInv, TypeOK, CallInv, ClaimInv, AdriftInv, RowInv, Claims,
       Rows, Phases, Intents, Wires

\* Every step keeps the types.
LEMMA StepType == TypeOK /\ [Next]_vars => TypeOK'
<1> SUFFICES ASSUME TypeOK, [Next]_vars PROVE TypeOK'
  OBVIOUS
<1> USE DEF TypeOK, Rows, Phases, Intents, Wires, Goto, WireIs, Release, memory, fate, heard
<1>1. ASSUME NEW c \in Caller, Begin(c) PROVE TypeOK'
  BY <1>1 DEF Begin
<1>2. ASSUME NEW c \in Caller, Attach(c) PROVE TypeOK'
  BY <1>2 DEF Attach
<1>3. ASSUME NEW c \in Caller, AttachFails(c) PROVE TypeOK'
  BY <1>3 DEF AttachFails
<1>4. ASSUME NEW c \in Caller, ModelSet(c) PROVE TypeOK'
  BY <1>4 DEF ModelSet
<1>5. ASSUME NEW c \in Caller, ModelFails(c) PROVE TypeOK'
  BY <1>5 DEF ModelFails
<1>6. ASSUME NEW c \in Caller, Submit(c) PROVE TypeOK'
  BY <1>6 DEF Submit, Accept
<1>7. ASSUME NEW c \in Caller, Write(c) PROVE TypeOK'
  BY <1>7 DEF Write
<1>8. ASSUME NEW c \in Caller, Unwritten(c) PROVE TypeOK'
  BY <1>8 DEF Unwritten, KeepRefusal
<1>9. ASSUME NEW c \in Caller, Torn(c) PROVE TypeOK'
  BY <1>9 DEF Torn
<1>10. ASSUME NEW c \in Caller, AnswerOk(c) PROVE TypeOK'
  BY <1>10 DEF AnswerOk, Accept
<1>11. ASSUME NEW c \in Caller, AnswerConflict(c) PROVE TypeOK'
  BY <1>11 DEF AnswerConflict
<1>12. ASSUME NEW c \in Caller, AnswerRefused(c) PROVE TypeOK'
  BY <1>12 DEF AnswerRefused
<1>13. ASSUME NEW c \in Caller, AnswerBusy(c) PROVE TypeOK'
  BY <1>13 DEF AnswerBusy, KeepRefusal
<1>14. ASSUME NEW c \in Caller, Probed(c) PROVE TypeOK'
  BY <1>14 DEF Probed
<1>15. ASSUME NEW c \in Caller, AskKnown(c) PROVE TypeOK'
  BY <1>15 DEF AskKnown, Accept
<1>16. ASSUME NEW c \in Caller, AskUnknown(c) PROVE TypeOK'
  BY <1>16 DEF AskUnknown
<1>17. ASSUME NEW c \in Caller, Expire(c) PROVE TypeOK'
  BY <1>17 DEF Expire
<1>18. ASSUME NEW c \in Caller, HostTakes(c) PROVE TypeOK'
  BY <1>18 DEF HostTakes
<1>19. ASSUME NEW c \in Caller, HostAnswers(c) PROVE TypeOK'
  BY <1>19 DEF HostAnswers
<1>20. ASSUME NEW c \in Caller, Lands(c) PROVE TypeOK'
  BY <1>20 DEF Lands
<1>21. CASE Abandon
  BY <1>21 DEF Abandon
<1>22. CASE Prune
  BY <1>22 DEF Prune
<1>23. CASE Crash
  BY <1>23 DEF Crash
<1>24. CASE UNCHANGED vars
  BY <1>24 DEF vars
<1> QED
  BY <1>1, <1>2, <1>3, <1>4, <1>5, <1>6, <1>7, <1>8, <1>9, <1>10, <1>11, <1>12, <1>13, <1>14, <1>15, <1>16, <1>17, <1>18, <1>19, <1>20, <1>21, <1>22, <1>23, <1>24 DEF Next, Step

(***************************************************************************)
(* Every step keeps the invariant. A claim begins where the row is absent  *)
(* (Begin) or a refusal (Submit), and ClaimInv rules out any other claim   *)
(* there. It ends by returning the row (a failed preflight, a refusal, an  *)
(* acceptance) or, torn, by leaving the request adrift behind a pending    *)
(* row, which no later call claims. So a busy answer, or the proof that a  *)
(* retry was not written, is about the only request there is.              *)
(***************************************************************************)
LEMMA StepInv == IInv /\ [Next]_vars => IInv'
<1> DEFINE Parts == CallInv /\ ClaimInv /\ AdriftInv /\ RowInv
<1> SUFFICES ASSUME IInv, [Next]_vars PROVE Parts'
  BY StepType DEF IInv
<1>t. TypeOK'
  BY StepType DEF IInv
<1> USE <1>t DEF IInv, TypeOK, Rows, Phases, Intents, Wires, Goto, WireIs, Release,
                 memory, fate, heard, CallInv, ClaimInv, AdriftInv, RowInv, Claims
<1>1. ASSUME NEW c \in Caller, Begin(c) PROVE Parts'
  BY <1>1 DEF Begin
<1>2. ASSUME NEW c \in Caller, Attach(c) PROVE Parts'
  BY <1>2 DEF Attach
<1>3. ASSUME NEW c \in Caller, AttachFails(c) PROVE Parts'
  BY <1>3 DEF AttachFails
<1>4. ASSUME NEW c \in Caller, ModelSet(c) PROVE Parts'
  BY <1>4 DEF ModelSet
<1>5. ASSUME NEW c \in Caller, ModelFails(c) PROVE Parts'
  BY <1>5 DEF ModelFails
<1>6. ASSUME NEW c \in Caller, Submit(c) PROVE Parts'
  BY <1>6 DEF Submit, Accept
<1>7. ASSUME NEW c \in Caller, Write(c) PROVE Parts'
  BY <1>7 DEF Write
<1>8. ASSUME NEW c \in Caller, Unwritten(c) PROVE Parts'
  BY <1>8 DEF Unwritten, KeepRefusal
<1>9. ASSUME NEW c \in Caller, Torn(c) PROVE Parts'
  BY <1>9 DEF Torn
<1>10. ASSUME NEW c \in Caller, AnswerOk(c) PROVE Parts'
  BY <1>10 DEF AnswerOk, Accept
<1>11. ASSUME NEW c \in Caller, AnswerConflict(c) PROVE Parts'
  BY <1>11 DEF AnswerConflict
<1>12. ASSUME NEW c \in Caller, AnswerRefused(c) PROVE Parts'
  BY <1>12 DEF AnswerRefused
<1>13. ASSUME NEW c \in Caller, AnswerBusy(c) PROVE Parts'
  BY <1>13 DEF AnswerBusy, KeepRefusal
<1>14. ASSUME NEW c \in Caller, Probed(c) PROVE Parts'
  BY <1>14 DEF Probed
<1>15. ASSUME NEW c \in Caller, AskKnown(c) PROVE Parts'
  BY <1>15 DEF AskKnown, Accept
<1>16. ASSUME NEW c \in Caller, AskUnknown(c) PROVE Parts'
  BY <1>16 DEF AskUnknown
<1>17. ASSUME NEW c \in Caller, Expire(c) PROVE Parts'
  BY <1>17 DEF Expire
<1>18. ASSUME NEW c \in Caller, HostTakes(c) PROVE Parts'
  BY <1>18 DEF HostTakes
<1>19. ASSUME NEW c \in Caller, HostAnswers(c) PROVE Parts'
  BY <1>19 DEF HostAnswers
<1>20. ASSUME NEW c \in Caller, Lands(c) PROVE Parts'
  BY <1>20 DEF Lands
<1>21. CASE Abandon
  BY <1>21 DEF Abandon
<1>22. CASE Prune
  BY <1>22 DEF Prune
<1>23. CASE Crash
  BY <1>23 DEF Crash
<1>24. CASE UNCHANGED vars
  BY <1>24 DEF vars
<1> HIDE DEF Parts
<1> QED
  BY <1>1, <1>2, <1>3, <1>4, <1>5, <1>6, <1>7, <1>8, <1>9, <1>10, <1>11, <1>12, <1>13, <1>14, <1>15, <1>16, <1>17, <1>18, <1>19, <1>20, <1>21, <1>22, <1>23, <1>24 DEF Next, Step

\* So the invariant always holds.
LEMMA Invariant == Spec => []IInv
<1>1. IInv /\ [Next]_vars => IInv'
  BY StepInv
<1> QED
  BY InitHolds, <1>1, PTL DEF Spec

-----------------------------------------------------------------------------
\* Every variable keeps its type (the states of one prompt in session-port.ts).
THEOREM TypeCorrect == Spec => []TypeOK
<1>1. IInv => TypeOK
  BY DEF IInv
<1> QED
  BY Invariant, <1>1, PTL

\* A request under way belongs to a claim or is adrift.
LEMMA UnderwayClaims ==
  ASSUME IInv, NEW c \in Caller, Underway(c)
  PROVE  Claims(c) \/ c \in adrift
BY DEF IInv, TypeOK, Underway, Claims

\* A durable busy refusal proves that the prompt was not accepted and that no
\* request for it is under way, whatever calls overlap (promptRefusal).
THEOREM RefusalIsProof == Spec => []RefusalProves
<1>1. IInv => RefusalProves
  BY UnderwayClaims DEF IInv, ClaimInv, RowInv, RefusalProves
<1> QED
  BY Invariant, <1>1, PTL

\* Until the prompt is accepted at most one request for it is under way: send
\* and rearmBrokerPromptOperation never let two calls submit it.
THEOREM SubmittedOnce == Spec => []OneSubmission
<1>1. ASSUME IInv PROVE OneSubmission
  <2> SUFFICES ASSUME ~taken PROVE /\ \A c, d \in Caller : Underway(c) /\ Underway(d) => c = d
                                   /\ \A c \in Caller : c \in adrift => wire[c] # "out"
    BY DEF OneSubmission
  <2>1. ASSUME NEW c \in Caller, NEW d \in Caller, Underway(c), Underway(d) PROVE c = d
    BY <1>1, <2>1, UnderwayClaims DEF IInv, ClaimInv, AdriftInv
  <2>2. ASSUME NEW c \in Caller, c \in adrift PROVE wire[c] # "out"
    BY <1>1, <2>2 DEF IInv, TypeOK, AdriftInv, Claims
  <2> QED
    BY <2>1, <2>2
<1> QED
  BY Invariant, <1>1, PTL

\* A prompt with a request under way keeps its pending intent, so no failure of
\* another call and no restart makes it look unsent.
THEOREM UncertainIsKept == Spec => []UncertainKept
<1>1. IInv => UncertainKept
  BY UnderwayClaims DEF IInv, ClaimInv, AdriftInv, RowInv, UncertainKept
<1> QED
  BY Invariant, <1>1, PTL

-----------------------------------------------------------------------------
(* The journal implements PromptPromise.                                   *)

\* An unused reference is a fresh promise.
LEMMA InitPromises == Init => Promise!Init
BY DEF Init, Promise!Init

\* A recorded acceptance is told only of a prompt that was taken.
LEMMA AcceptTells ==
  ASSUME taken, NEW c \in Caller, Accept(c), UNCHANGED <<taken, dropped>>
  PROVE  [Promise!Next]_(Promise!vars)
BY DEF Accept, Promise!Next, Promise!Tell, Promise!vars

\* Every step of the journal is a step of the promise, or changes nothing in it.
LEMMA StepPromises == IInv /\ [Next]_vars => [Promise!Next]_(Promise!vars)
<1> SUFFICES ASSUME IInv, [Next]_vars PROVE [Promise!Next]_(Promise!vars)
  OBVIOUS
<1> USE DEF memory, fate, heard
<1>1. ASSUME UNCHANGED <<taken, dropped, told>> PROVE [Promise!Next]_(Promise!vars)
  BY <1>1 DEF Promise!vars
<1>2. ASSUME NEW c \in Caller, Begin(c) PROVE [Promise!Next]_(Promise!vars)
  <2>1. CASE row = "receipt"
    <3>1. Promise!Tell(c)
      BY <1>2, <2>1 DEF Begin, Promise!Tell, IInv, RowInv
    <3> QED
      BY <3>1 DEF Promise!Next
  <2>2. CASE row # "receipt"
    <3>1. Promise!Forget({c})
      BY <1>2, <2>2 DEF Begin, Promise!Forget
    <3> QED
      BY <3>1 DEF Promise!Next
  <2> QED
    BY <2>1, <2>2
<1>3. ASSUME NEW c \in Caller, Submit(c) PROVE [Promise!Next]_(Promise!vars)
  <2>1. CASE row = "receipt" /\ Accept(c)
    <3>1. taken /\ UNCHANGED <<taken, dropped>>
      BY <1>3, <2>1 DEF Submit, IInv, RowInv
    <3> QED
      BY <2>1, <3>1, AcceptTells
  <2>2. CASE UNCHANGED told
    BY <1>1, <1>3, <2>2 DEF Submit
  <2> QED
    BY <1>3, <2>1, <2>2 DEF Submit
<1>4. ASSUME NEW c \in Caller, AnswerOk(c) \/ AskKnown(c) PROVE [Promise!Next]_(Promise!vars)
  <2>1. taken /\ Accept(c) /\ UNCHANGED <<taken, dropped>>
    BY <1>4 DEF AnswerOk, AskKnown, IInv, CallInv
  <2> QED
    BY <2>1, AcceptTells
\* Nothing is taken once dropped: the row is gone, so no call holds a claim, and
\* nothing was adrift when the refusal was recorded.
<1>5. ASSUME NEW c \in Caller, HostTakes(c) PROVE [Promise!Next]_(Promise!vars)
  <2>1. Claims(c)
    BY <1>5 DEF HostTakes, Claims, IInv, TypeOK
  <2>2. ~dropped
    BY <2>1 DEF IInv, ClaimInv, RowInv
  <2>3. Promise!Take
    BY <1>5, <2>2 DEF HostTakes, Promise!Take
  <2> QED
    BY <2>3 DEF Promise!Next
<1>6. ASSUME NEW c \in Caller, Lands(c) PROVE [Promise!Next]_(Promise!vars)
  <2>1. ~dropped
    BY <1>6 DEF Lands, IInv, RowInv
  <2>2. CASE ~taken /\ taken'
    <3>1. Promise!Take
      BY <1>6, <2>1, <2>2 DEF Lands, Promise!Take, IInv, TypeOK
    <3> QED
      BY <3>1 DEF Promise!Next
  <2>3. CASE ~(~taken /\ taken')
    BY <1>1, <1>6, <2>3 DEF Lands, IInv, TypeOK
  <2> QED
    BY <2>2, <2>3
<1>7. CASE Abandon
  <2>1. Promise!Drop
    BY <1>7 DEF Abandon, Promise!Drop, IInv, RowInv
  <2> QED
    BY <2>1 DEF Promise!Next
<1>8. CASE Crash
  <2>1. Promise!Forget(Caller)
    BY <1>8 DEF Crash, Promise!Forget, IInv, TypeOK
  <2> QED
    BY <2>1 DEF Promise!Next
<1>9. ASSUME NEW c \in Caller,
             \/ Attach(c) \/ AttachFails(c) \/ ModelSet(c) \/ ModelFails(c) \/ Write(c)
             \/ Unwritten(c) \/ Torn(c) \/ AnswerConflict(c) \/ AnswerRefused(c)
             \/ AnswerBusy(c) \/ Probed(c) \/ AskUnknown(c) \/ Expire(c) \/ HostAnswers(c)
      PROVE  [Promise!Next]_(Promise!vars)
  BY <1>1, <1>9 DEF Attach, AttachFails, ModelSet, ModelFails, Write, Unwritten, Torn,
     AnswerConflict, AnswerRefused, AnswerBusy, Probed, AskUnknown, Expire, HostAnswers
<1>10. CASE Prune \/ UNCHANGED vars
  BY <1>1, <1>10 DEF Prune, vars
<1> QED
  BY <1>2, <1>3, <1>4, <1>5, <1>6, <1>7, <1>8, <1>9, <1>10 DEF Next, Step

\* The journal, with every crash, torn request and overlapping call, implements the
\* promise made of one prompt: taken once, receipts true, a dropped prompt stays dropped.
THEOREM Implements == Spec => KeepsPromise
<1>1. IInv /\ [Next]_vars => [Promise!Next]_(Promise!vars)
  BY StepPromises
<1> QED
  BY InitPromises, Invariant, <1>1, PTL DEF Spec, KeepsPromise, Promise!Spec
=============================================================================

---------------------------- MODULE PromptPromise ----------------------------
(***************************************************************************)
(* What the session port promises about one prompt, named by its operation *)
(* reference: the session takes it at most once, a caller is told it was   *)
(* accepted only when it was, and a prompt whose refusal its owner has     *)
(* acted on is never taken afterwards.                                     *)
(***************************************************************************)
CONSTANT Caller      \* the calls of send that may name this prompt

VARIABLES
  taken,             \* the session accepted the prompt
  dropped,           \* its owner gave it up on the evidence of a refusal
  told               \* callers whose last call returned a receipt

vars == <<taken, dropped, told>>

Init == taken = FALSE /\ dropped = FALSE /\ told = {}

Take ==
  /\ ~taken /\ ~dropped
  /\ taken' = TRUE
  /\ UNCHANGED <<dropped, told>>

Drop ==
  /\ ~taken
  /\ dropped' = TRUE
  /\ UNCHANGED <<taken, told>>

Tell(c) ==
  /\ taken
  /\ told' = told \cup {c}
  /\ UNCHANGED <<taken, dropped>>

\* A caller calls again, or the process that was told is gone.
Forget(C) ==
  /\ told' = told \ C
  /\ UNCHANGED <<taken, dropped>>

Next ==
  \/ Take
  \/ Drop
  \/ \E c \in Caller : Tell(c)
  \/ \E C \in SUBSET Caller : Forget(C)

Spec == Init /\ [][Next]_vars
=============================================================================

---------------------------- MODULE MCPersonaTurn ----------------------------
(* Model-checking instances of PersonaTurn.                                *)
EXTENDS PersonaTurn
=============================================================================

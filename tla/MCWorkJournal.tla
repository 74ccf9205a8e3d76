---------------------------- MODULE MCWorkJournal ----------------------------
(* Model-checking instances of WorkJournal.                                *)
EXTENDS WorkJournal
=============================================================================

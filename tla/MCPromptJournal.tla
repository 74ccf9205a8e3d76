--------------------------- MODULE MCPromptJournal ---------------------------
(* Model-checking instances of PromptJournal.                              *)
EXTENDS PromptJournal
=============================================================================

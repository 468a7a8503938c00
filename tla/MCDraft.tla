------------------------------- MODULE MCDraft -------------------------------
(* One movie, one editor, the sweeper.                                     *)
EXTENDS Titles

CONSTANT m, ed
=============================================================================

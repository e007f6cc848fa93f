--------------------------- MODULE MCHookVsHelper ---------------------------
(* An instance of HookVsHelper for TLC: up to three matches, and caps from 0 *)
(* to one above.                                                             *)
EXTENDS HookVsHelper, SequencesExt

MCMatches == BoundedSeq(Attempt, 3)
=============================================================================

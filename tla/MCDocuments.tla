----------------------------- MODULE MCDocuments -----------------------------
(***************************************************************************)
(* Two files of the same bytes or of different ones, and every submission  *)
(* of theirs.                                                              *)
(***************************************************************************)
EXTENDS DocumentIntake

\* A copy of one document under two names.
SameBytes(f) == "d1"
=============================================================================

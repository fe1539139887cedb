------------------------------- MODULE MCJob -------------------------------
(***************************************************************************)
(* A small instance of Job for TLC: a few requests as model values.        *)
(***************************************************************************)
EXTENDS Job, TLC

CONSTANTS j1, j2, j3
=============================================================================

------------------------------ MODULE MCServer ------------------------------
(***************************************************************************)
(* A small instance of Server for TLC: a few requests as model values.     *)
(***************************************************************************)
EXTENDS Server, TLC

CONSTANTS j1, j2, j3
=============================================================================

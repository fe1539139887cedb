--------------------------- MODULE MCSyncPackages ---------------------------
(***************************************************************************)
(* A small instance of SyncPackages for TLC.                               *)
(***************************************************************************)
EXTENDS SyncPackages, TLC

CONSTANTS java, node, r1, r2
=============================================================================

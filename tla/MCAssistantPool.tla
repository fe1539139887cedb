-------------------------- MODULE MCAssistantPool ---------------------------
(***************************************************************************)
(* A small instance of AssistantPool for TLC.                              *)
(***************************************************************************)
EXTENDS AssistantPool, TLC

CONSTANTS q1, q2, q3, p1, p2, sigint, sigterm
=============================================================================

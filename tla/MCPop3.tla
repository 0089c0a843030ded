------------------------------- MODULE MCPop3 -------------------------------
(* Small instances of Pop3 for TLC. *)
EXTENDS Pop3

CONSTANTS u1, u2

OneUser == <<u1>>
TwoUsers == <<u1, u2>>
=============================================================================

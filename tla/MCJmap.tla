------------------------------- MODULE MCJmap -------------------------------
(* Small instances of Jmap for TLC. *)
EXTENDS Jmap

CONSTANTS u1, u2

TwoUsers == <<u1, u2>>
=============================================================================

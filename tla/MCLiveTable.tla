---------------------------- MODULE MCLiveTable ----------------------------
(* Small instances of LiveTable for TLC. *)
EXTENDS LiveTable, TLC

CONSTANTS append, fetch, login

MCCommands == {append, fetch, login}

Symmetry == Permutations(Commands)
=============================================================================

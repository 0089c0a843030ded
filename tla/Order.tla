-------------------------------- MODULE Order --------------------------------
(***************************************************************************)
(* The members of a finite set of integers, the smallest first.            *)
(***************************************************************************)
EXTENDS Integers, FiniteSets

(* The member of S that k members of S reach up to.                        *)
Nth(S, k) == CHOOSE i \in S : Cardinality({j \in S : j <= i}) = k

InOrder(S) == [k \in 1 .. Cardinality(S) |-> Nth(S, k)]
=============================================================================

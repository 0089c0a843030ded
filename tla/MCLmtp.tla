------------------------------- MODULE MCLmtp -------------------------------
(* Small instances of Lmtp for TLC. *)
EXTENDS Lmtp, TLC

CONSTANTS c1, c2, r1, r2, r3

TwoClients == {c1, c2}
ThreeRecipients == <<r1, r2, r3>>
NamedTwice == <<r1, r2, r1>>

Symmetry == Permutations(Clients)
=============================================================================

------------------------------ MODULE MCDriver ------------------------------
(* Small instances of Driver for TLC. *)
EXTENDS Driver, TLC

CONSTANTS w1, w2

TwoWorkers == {w1, w2}

(* Workers differ in name only. *)
Symmetry == Permutations(Workers)

(* The four drivers.  A JMAP client whose session documents are all good    *)
(* returns nothing it did not observe.                                      *)
Lmtp == [cuts |-> {"context", "deadline"}, silent |-> FALSE, doubles |-> FALSE]
Pop3 == [cuts |-> {"context", "deadline"}, silent |-> TRUE, doubles |-> FALSE]
Imap == [cuts |-> {}, silent |-> TRUE, doubles |-> TRUE]
Jmap == [cuts |-> {"context"}, silent |-> TRUE, doubles |-> FALSE]
JmapKnown == [Jmap EXCEPT !.silent = FALSE]

AllKinds == {Lmtp, Pop3, Imap, Jmap, JmapKnown}
OnlyLmtp == {Lmtp}
OnlyImap == {Imap}
=============================================================================

--------------------------- MODULE MCImapSession ---------------------------
(* Small instances of ImapSession for TLC. *)
EXTENDS ImapSession

Inbox == <<"INBOX">>
TwoMailboxes == <<"Load1", "Load2">>

W(c, n) == [cmd |-> c, weight |-> n]

(* The shape of the default profile, in the order weights() gives it: more *)
(* is appended at a stretch than the deletes that follow can flag.         *)
MixedProfile == <<W("APPEND", 3), W("DELETE", 1), W("EXPUNGE", 1), W("FETCH", 2),
                  W("LOGOUT", 1), W("SELECT", 1), W("STORE", 1)>>

(* The profile of the -profile flag's help text.                           *)
HelpProfile == <<W("APPEND", 2), W("FETCH", 2), W("SEARCH", 1), W("STORE", 1)>>

(* A profile whose deletes keep up with its appends.                       *)
ChurnProfile == <<W("APPEND", 1), W("DELETE", 1), W("EXPUNGE", 1), W("NOOP", 1)>>

ReopenProfile == <<W("APPEND", 1), W("DELETE", 1), W("EXPUNGE", 1), W("LOGOUT", 1),
                   W("STATUS", 1)>>

ReadProfile == <<W("FETCH", 1), W("LIST", 1), W("NOOP", 1), W("STATUS", 1)>>

(* The commands the others leave out, over deletes that keep up.           *)
WideProfile == <<W("APPEND", 1), W("DELETE", 3), W("EXPUNGE", 1), W("FETCH2", 1),
                 W("SEARCH", 1), W("SELECT", 1), W("STORE", 1)>>

(* The README's own profile, in the order pick walks it.                   *)
ReadmeProfile == <<W("APPEND", 30), W("EXPUNGE", 5), W("FETCH", 30), W("FETCH2", 10),
                   W("LOGOUT", 2), W("SEARCH", 5), W("STORE", 15)>>

Readme == {ReadmeProfile}
MixedOrChurn == {MixedProfile, ChurnProfile}
Churn == {ChurnProfile}
AllProfiles == {MixedProfile, HelpProfile, ChurnProfile, ReadProfile}
Varied == {ChurnProfile, HelpProfile, ReopenProfile, WideProfile}

Honest == [stores |-> TRUE, repeats |-> {}, reports |-> FALSE]
Repeating == [Honest EXCEPT !.repeats = Commands]
Counting == [Honest EXCEPT !.repeats = {"EXPUNGE"}]
Reporting(honest) == [honest EXCEPT !.reports = TRUE]
Hollow == [Repeating EXCEPT !.stores = FALSE]

HonestOnly == {Honest}
ReportingOnly == {Reporting(Honest), Reporting(Counting)}
AnyServer == {Honest, Repeating, Counting, Reporting(Honest), Reporting(Counting), Hollow}
=============================================================================

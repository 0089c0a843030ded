----------------------------- MODULE ImapSession -----------------------------
(***************************************************************************)
(* The IMAP driver: persistent clients, the state each keeps of the        *)
(* mailbox it has open, the steady state and the profile that choose its   *)
(* next command, and the check of EXISTS against what it appended.         *)
(*                                                                         *)
(* The server is external, and honest about what it does unless it stores  *)
(* nothing: it reports to each session the messages that arrived and      *)
(* those that went since its last report, EXPUNGE before EXISTS, never an  *)
(* EXPUNGE in answer to FETCH, STORE or SEARCH.  A message that was        *)
(* expunged keeps its sequence number in every session not yet told.       *)
(***************************************************************************)
EXTENDS Order, Sequences, FiniteSetsExt

CONSTANTS
  Clients,        \* the workers of the run
  Mailboxes,      \* the mailbox set, a sequence (-mailboxes)
  Profiles,       \* the profiles considered: sequences of [cmd, weight]
  TargetMessages, \* -msgs; 0 is no steady state
  Window,         \* rangeCmd's window: a command names this many messages
  Initially,      \* messages in each mailbox before the run
  Iterations,     \* -iterations; 0 is none
  Durations,      \* subset of BOOLEAN: whether the run has a -duration
  Refuses,        \* BOOLEAN: the server may refuse any command
  Servers         \* the servers considered: stores, or acknowledges appends and
                  \*   stores nothing; the commands it answers with EXISTS even
                  \*   if that is unchanged (repeats); reports, to a session in
                  \*   answer to its APPEND too, as RFC 9051 6.3.12 asks, or only
                  \*   afterwards

Commands == {"LIST", "STATUS", "SELECT", "FETCH", "FETCH2", "STORE", "DELETE",
             "EXPUNGE", "SEARCH", "NOOP", "APPEND", "LOGOUT"}

ASSUME ClientsAssumption == IsFiniteSet(Clients) /\ Clients # {}
ASSUME ConfigAssumption ==
  /\ Mailboxes # <<>> /\ Mailboxes \in Seq(Range(Mailboxes))
  /\ TargetMessages \in Nat /\ Window \in Nat \ {0} /\ Initially \in Nat /\ Iterations \in Nat
  /\ {Refuses} \cup Durations \subseteq BOOLEAN
  /\ Servers \subseteq [stores : BOOLEAN, repeats : SUBSET Commands, reports : BOOLEAN]
  /\ Iterations = 0 => FALSE \notin Durations

VARIABLES
  box,        \* server: what each mailbox holds, oldest first
  server, profile, duration,  \* fixed for the run
  seq,        \* d.seq, modulo the length of the schedule it indexes
  pc,         \* where each worker is
  state,      \* each session's protocol state
  view,       \* each session's view of its mailbox
  pending,    \* the command each client is about to send
  iterCount,
  ended,      \* runCtx is done
  mismatched  \* history: a mismatch was reported

setting == <<server, profile, duration>>
vars == <<box, setting, seq, pc, state, view, pending, iterCount, ended, mismatched>>

MailboxNames == {Mailboxes[i] : i \in DOMAIN Mailboxes}
NoMailbox == "none"

EmptyView == [mailbox |-> NoMailbox, exists |-> 0, baseline |-> 0, appended |-> 0]

-----------------------------------------------------------------------------
(* Profile weights. *)

(* What weights leaves of a profile: the commands that have a weight.      *)
Weighted == [cmd : Commands, weight : Nat \ {0}]

(* ParseProfile refuses a profile without one. *)
ASSUME ProfilesAssumption == \A ws \in Profiles : ws # <<>> /\ ws \in Seq(Weighted)

TotalsOf(ws) ==
  LET upTo[i \in 0 .. Len(ws)] == IF i = 0 THEN 0 ELSE upTo[i - 1] + ws[i].weight
  IN  upTo

TotalUpTo(ws, i) == TotalsOf(ws)[i]
Total(ws) == TotalUpTo(ws, Len(ws))

Pick(ws, n) ==
  LET slot == n % Total(ws)
      i == CHOOSE k \in DOMAIN ws : TotalUpTo(ws, k - 1) <= slot /\ slot < TotalUpTo(ws, k)
  IN  ws[i].cmd

NextSeq(n) == (n + 1) % (Total(profile) * Len(Mailboxes))

MailboxAt(n) == Mailboxes[(n % Len(Mailboxes)) + 1]

-----------------------------------------------------------------------------
(* The server. *)

Arrived == [flagged |-> FALSE, gone |-> FALSE, known |-> {}]

Held(s) == {i \in DOMAIN s : ~s[i].gone}
KnownTo(c, s) == {i \in DOMAIN s : c \in s[i].known}
SeqNum(c, s, i) == Cardinality({j \in KnownTo(c, s) : j <= i})

Kept(s) == {i \in DOMAIN s : ~s[i].gone \/ s[i].known # {}}

Tidy(s) == [k \in 1 .. Cardinality(Kept(s)) |-> s[Nth(Kept(s), k)]]

Forget(c, boxes) ==
  [b \in MailboxNames |->
     Tidy([i \in DOMAIN boxes[b] |-> [boxes[b][i] EXCEPT !.known = @ \ {c}]])]

(* The commands in answer to which no EXPUNGE is sent. *)
Quiet == {"FETCH", "FETCH2", "STORE", "DELETE", "SEARCH"}

(* What a session is told of s in answer to cmd, and s afterwards. *)
Report(c, s, cmd) ==
  LET fresh == Held(s) \ KnownTo(c, s)
      expunged == IF cmd \in Quiet THEN {} ELSE KnownTo(c, s) \ Held(s)
  IN  [expunged |-> Cardinality(expunged),
       says |-> fresh # {} \/ cmd \in server.repeats,
       count |-> Cardinality((KnownTo(c, s) \cup fresh) \ expunged),
       box |-> Tidy([i \in DOMAIN s |->
                 [s[i] EXCEPT !.known = IF i \in fresh THEN @ \cup {c}
                                        ELSE IF i \in expunged THEN @ \ {c} ELSE @]])]

Expunge(s) == [i \in DOMAIN s |-> [s[i] EXCEPT !.gone = @ \/ s[i].flagged]]

Flag(c, s, range) ==
  [i \in DOMAIN s |->
     [s[i] EXCEPT !.flagged = @ \/ (i \in KnownTo(c, s) /\ SeqNum(c, s, i) \in range)]]

-----------------------------------------------------------------------------
(* The client's view. *)

Minus(a, b) == IF b < a THEN a - b ELSE 0

(* An EXPUNGE the view does not take off what it last saw. *)
ApplyToExistsOnly(v, k) == [v EXCEPT !.exists = Minus(@, k)]

ApplyExpunges(v, k) == [v EXCEPT !.exists = Minus(@, k), !.baseline = Minus(@, k)]

(* The client's own appends left out of the comparison. *)
ContradictsBaseline(v, n) == n < v.baseline

Contradicts(v, n) == n < v.baseline + v.appended

(* The report that leaves appended to be counted against the next one too. *)
TakeReportKeeping(v, n) == [v EXCEPT !.exists = n, !.baseline = n]

TakeReport(v, n) == [v EXCEPT !.exists = n, !.baseline = n, !.appended = 0]

Apply(v, r) ==
  LET w == ApplyExpunges(v, r.expunged)
  IN  IF r.says THEN TakeReport(w, r.count) ELSE w

Mismatch(v, r) == r.says /\ Contradicts(ApplyExpunges(v, r.expunged), r.count)

AtLeast1(n) == IF n < 1 THEN 1 ELSE n
RangeCmd(v) == AtLeast1(Minus(v.exists + 1, Window)) .. AtLeast1(v.exists)

(* What the client takes its mailbox to hold. *)
HeldBy(v) == v.exists + v.appended

-----------------------------------------------------------------------------
(* RunClient, one call of it after another. *)

Init ==
  /\ box = [b \in MailboxNames |-> [i \in 1 .. Initially |-> Arrived]]
  /\ server \in Servers
  /\ profile \in Profiles
  /\ duration \in Durations
  /\ seq = 0
  /\ pc = [c \in Clients |-> "idle"]
  /\ state = [c \in Clients |-> "disconnected"]
  /\ view = [c \in Clients |-> EmptyView]
  /\ pending = [c \in Clients |-> [cmd |-> "NOOP", mailbox |-> NoMailbox]]
  /\ iterCount = 0
  /\ ended = FALSE
  /\ mismatched = FALSE

Goto(c, place) == pc' = [pc EXCEPT ![c] = place]
In(c, st) == state' = [state EXCEPT ![c] = st]
SetView(c, v) == view' = [view EXCEPT ![c] = v]

EndRun ==
  /\ duration /\ ~ended
  /\ ended' = TRUE
  /\ UNCHANGED <<box, setting, seq, pc, state, view, pending, iterCount, mismatched>>

ClaimUnder(c, budget) ==
  /\ pc[c] = "idle"
  /\ IF ended \/ (Iterations > 0 /\ iterCount >= budget)
     THEN Goto(c, "done") /\ UNCHANGED iterCount
     ELSE Goto(c, "loop") /\ iterCount' = IF Iterations > 0 THEN iterCount + 1 ELSE 0
  /\ UNCHANGED <<box, setting, seq, state, view, pending, ended, mismatched>>

ClaimPastBudget(c) == ClaimUnder(c, Iterations + 1)

Claim(c) == ClaimUnder(c, Iterations)

(* RunClient returns: its session is closed, and the next call has another. *)
Return(c, boxes) ==
  /\ Goto(c, "idle")
  /\ In(c, "disconnected")
  /\ SetView(c, EmptyView)
  /\ box' = Forget(c, boxes)

(* The context checked only where a session is about to be opened.         *)
LeaveBetweenSessions(c) ==
  /\ pc[c] = "loop" /\ ended /\ state[c] = "disconnected"
  /\ Return(c, box)
  /\ UNCHANGED <<setting, seq, pending, iterCount, ended, mismatched>>

Leave(c) ==
  /\ pc[c] = "loop" /\ ended
  /\ Return(c, box)
  /\ UNCHANGED <<setting, seq, pending, iterCount, ended, mismatched>>

Connect(c) ==
  /\ pc[c] = "loop" /\ ~ended /\ state[c] = "disconnected"
  /\ \/ /\ Goto(c, "choose")
        /\ In(c, "authenticated")
        /\ SetView(c, EmptyView)
        /\ UNCHANGED box
     \/ Refuses /\ Return(c, box)
  /\ UNCHANGED <<setting, seq, pending, iterCount, ended, mismatched>>

-----------------------------------------------------------------------------
(* step: choose a command. *)

Choosing(c) == pc[c] = "choose" \/ (pc[c] = "loop" /\ ~ended /\ state[c] # "disconnected")

SendNext(c, cmd, b) ==
  /\ Goto(c, "send")
  /\ pending' = [pending EXCEPT ![c] = [cmd |-> cmd, mailbox |-> b]]

SelectAt(c, n) == SendNext(c, "SELECT", MailboxAt(n))

(* The steady state first; the profile only when it has nothing to say. *)
ChooseByExists(v, n) ==
  IF TargetMessages > 0 /\ v.exists < TargetMessages THEN "APPEND"
  ELSE IF TargetMessages > 0 /\ v.exists > 2 * TargetMessages THEN "EXPUNGE"
  ELSE Pick(profile, n)

ChooseFor(v, n) ==
  IF TargetMessages > 0 /\ HeldBy(v) < TargetMessages THEN "APPEND"
  ELSE IF TargetMessages > 0 /\ HeldBy(v) > 2 * TargetMessages THEN "EXPUNGE"
  ELSE Pick(profile, n)

Choose(c) ==
  /\ Choosing(c)
  /\ seq' = NextSeq(seq)
  /\ IF state[c] # "selected"
     THEN SelectAt(c, seq)
     ELSE LET cmd == ChooseFor(view[c], seq)
          IN  IF cmd = "SELECT"
              THEN Goto(c, "reselect") /\ UNCHANGED pending
              ELSE SendNext(c, cmd, view[c].mailbox)
  /\ UNCHANGED <<box, setting, state, view, iterCount, ended, mismatched>>

(* A SELECT from the profile numbers itself anew before it is sent. *)
Reselect(c) ==
  /\ pc[c] = "reselect"
  /\ seq' = NextSeq(seq)
  /\ SelectAt(c, seq)
  /\ UNCHANGED <<box, setting, state, view, iterCount, ended, mismatched>>

-----------------------------------------------------------------------------
(* run and doSelect: one command and its answer. *)

Sending(c, cmds) == pc[c] = "send" /\ pending[c].cmd \in cmds

RefuseCommand(c) ==
  /\ Refuses /\ Sending(c, Commands)
  /\ Return(c, box)
  /\ UNCHANGED <<setting, seq, pending, iterCount, ended, mismatched>>

Select(c) ==
  /\ Sending(c, {"SELECT"})
  /\ LET b == pending[c].mailbox
         closed == Forget(c, box)
         r == Report(c, closed[b], "SELECT")
     IN  /\ box' = [closed EXCEPT ![b] = r.box]
         /\ SetView(c, TakeReport([EmptyView EXCEPT !.mailbox = b], r.count))
  /\ In(c, "selected")
  /\ Goto(c, "loop")
  /\ UNCHANGED <<setting, seq, pending, iterCount, ended, mismatched>>

(* appendMessage: whatever the server reports with its answer is discarded. *)
AppendMessage(c) ==
  /\ Sending(c, {"APPEND"})
  /\ LET b == pending[c].mailbox
         s == IF server.stores THEN Append(box[b], Arrived) ELSE box[b]
     IN  box' = [box EXCEPT ![b] = IF server.reports THEN Report(c, s, "APPEND").box ELSE s]
  /\ SetView(c, [view[c] EXCEPT !.appended = @ + 1])
  /\ Goto(c, "loop")
  /\ UNCHANGED <<setting, seq, state, pending, iterCount, ended, mismatched>>

(* The connection is closed before the answer to LOGOUT is looked at; the   *)
(* server may say in it what is new, or nothing.                            *)
Logout(c) ==
  /\ Sending(c, {"LOGOUT"})
  /\ LET r == Report(c, box[pending[c].mailbox], "LOGOUT")
     IN  \/ Goto(c, "loop") /\ UNCHANGED <<view, mismatched>>
         \/ /\ ~Mismatch(view[c], r)
            /\ SetView(c, Apply(view[c], r))
            /\ Goto(c, "loop")
            /\ UNCHANGED mismatched
         \/ /\ Mismatch(view[c], r)
            /\ SetView(c, EmptyView)
            /\ Goto(c, "idle")
            /\ mismatched' = TRUE
  /\ box' = Forget(c, box)
  /\ In(c, "disconnected")
  /\ UNCHANGED <<setting, seq, pending, iterCount, ended>>

AfterCommand(c, s) ==
  CASE pending[c].cmd = "EXPUNGE" -> Expunge(s)
    [] pending[c].cmd = "DELETE" -> Flag(c, s, RangeCmd(view[c]))
    [] OTHER -> s

RunCommand(c) ==
  /\ Sending(c, Commands \ {"SELECT", "APPEND", "LOGOUT"})
  /\ LET b == pending[c].mailbox
         r == Report(c, AfterCommand(c, box[b]), pending[c].cmd)
     IN  \/ /\ ~Mismatch(view[c], r)
            /\ box' = [box EXCEPT ![b] = r.box]
            /\ SetView(c, Apply(view[c], r))
            /\ Goto(c, "loop")
            /\ UNCHANGED <<state, mismatched>>
         \/ /\ Mismatch(view[c], r)
            /\ mismatched' = TRUE
            /\ Return(c, [box EXCEPT ![b] = r.box])
  /\ UNCHANGED <<setting, seq, pending, iterCount, ended>>

ClientStep(c) ==
  \/ Claim(c) \/ Leave(c) \/ Connect(c) \/ Choose(c) \/ Reselect(c)
  \/ RefuseCommand(c) \/ Select(c) \/ AppendMessage(c) \/ Logout(c) \/ RunCommand(c)

Finished == (\A c \in Clients : pc[c] = "done") /\ UNCHANGED vars

Next == EndRun \/ (\E c \in Clients : ClientStep(c)) \/ Finished

Safety == Init /\ [][Next]_vars

(* A client that can step does, for each command it sends is answered, and *)
(* the deadline passes.                                                    *)
Spec == Safety /\ WF_vars(EndRun) /\ \A c \in Clients : WF_vars(ClientStep(c))

-----------------------------------------------------------------------------
(* Properties. *)

Views == [mailbox : MailboxNames \cup {NoMailbox}, exists : Nat, baseline : Nat,
          appended : Nat]

Messages == [flagged : BOOLEAN, gone : BOOLEAN, known : SUBSET Clients]

TypeOK ==
  /\ DOMAIN box = MailboxNames
  /\ \A b \in MailboxNames : \A i \in DOMAIN box[b] : box[b][i] \in Messages
  /\ server \in Servers
  /\ profile \in Profiles
  /\ duration \in Durations
  /\ seq \in 0 .. Total(profile) * Len(Mailboxes) - 1
  /\ pc \in [Clients -> {"idle", "loop", "choose", "reselect", "send", "done"}]
  /\ state \in [Clients -> {"disconnected", "authenticated", "selected"}]
  /\ \A c \in Clients : view[c] \in Views
  /\ \A c \in Clients : pending[c] \in
       [cmd : Commands, mailbox : MailboxNames \cup {NoMailbox}]
  /\ iterCount \in 0 .. Iterations
  /\ {ended, mismatched} \subseteq BOOLEAN

Selected == {c \in Clients : state[c] = "selected"}

(* What the client last saw of its mailbox is exactly what the server has  *)
(* told this session of, so its sequence numbers name the messages it      *)
(* means, whatever other clients append and expunge: as long as the server *)
(* reports nothing in answer to APPEND, which appendMessage would discard. *)
ViewIsSession == ~server.reports => \A c \in Selected :
  LET v == view[c] IN
  v.exists = v.baseline /\ v.exists = Cardinality(KnownTo(c, box[v.mailbox]))

(* A client never names a message beyond the end of its session's mailbox. *)
NoStaleRange == \A c \in Selected :
  view[c].exists <= Cardinality(KnownTo(c, box[view[c].mailbox]))

(* What session.go says of the check on EXISTS: fewer messages than a      *)
(* client was shown and added can only be a server that stored nothing.    *)
HonestNeverAccused == server.stores => ~mismatched

(* It is so of a client that has its mailbox to itself and of a server     *)
(* that reports nothing in answer to APPEND.                               *)
NoFalseAlarm == ~server.reports => HonestNeverAccused

HeldIn(b) == Cardinality(Held(box[b]))

(* The steady state decides on what a client alone with its mailbox takes  *)
(* that to hold, exists and appended: it is never less than what is there, *)
(* even if the server reports in answer to APPEND, what appendMessage      *)
(* discards, and no more than is there if it does not.                     *)
HeldIsReal == server.stores => \A c \in Selected :
  /\ HeldIn(view[c].mailbox) <= HeldBy(view[c])
  /\ ~server.reports => HeldIn(view[c].mailbox) = HeldBy(view[c])

(* -msgs keeps a mailbox that one client has to itself from growing all    *)
(* the way through the run, whatever the profile and whatever the server   *)
(* reports in answer to APPEND.                                            *)
GrowthBounded == TargetMessages > 0 => \A b \in MailboxNames :
  HeldIn(b) <= Max({Initially, 2 * TargetMessages + 1})

(* A mailbox above its limit in which an EXPUNGE removes nothing.          *)
Overfull(c) ==
  /\ state[c] = "selected"
  /\ HeldIn(view[c].mailbox) > 2 * TargetMessages
  /\ \A i \in Held(box[view[c].mailbox]) : ~box[view[c].mailbox][i].flagged

(* Every client keeps coming back to the steady state, where the profile   *)
(* has its say, under any profile, unless its mailbox really is above its  *)
(* limit for ever with nothing in it to expunge; of servers that report    *)
(* nothing in answer to APPEND.                                            *)
MailboxKeptNear == ~server.reports => \A c \in Clients :
  []<>(HeldBy(view[c]) <= 2 * TargetMessages) \/ <>[]Overfull(c)

(* What the README says of -msgs without that exception: a client keeps    *)
(* its mailbox near that many messages, expunging above it.                *)
SteadyState == \A c \in Clients : []<>(HeldBy(view[c]) <= 2 * TargetMessages)

(* A run reaches its end, by -duration or by -iterations.                  *)
RunEnds == <>(\A c \in Clients : pc[c] = "done")

(* A run with a -duration does: its clients notice, wherever they are.     *)
TimedRunEnds == duration => RunEnds

(* A server that acknowledges appends, stores nothing and states EXISTS in *)
(* every answer is found out by the client that appended, if it goes on with  *)
(* its session.                                                            *)
HollowFoundOut == \A c \in Clients :
  (~server.stores /\ server.repeats = Commands /\ view[c].appended > 0)
     ~> (mismatched \/ state[c] = "disconnected")
=============================================================================

-------------------------------- MODULE Pop3 --------------------------------
(***************************************************************************)
(* The POP3 driver: sessions that each log in, survey one maildrop,        *)
(* retrieve its newest messages, delete them if told to and quit.          *)
(*                                                                         *)
(* A session is named by its value of d.seq, which also picks its user; as *)
(* many run at a time as the run has clients.  A command is sent as soon   *)
(* as the one before it was answered, so the two are one step.             *)
(*                                                                         *)
(* The server is external.  It locks a maildrop from PASS until QUIT, or   *)
(* until it notices that the client is gone, which it may do after acting  *)
(* on the command the client last sent; it removes messages at QUIT alone. *)
(* A line of an answer is tagged with the command it answers, which the    *)
(* client cannot see.                                                      *)
(***************************************************************************)
EXTENDS Naturals, Sequences, FiniteSets, Functions

CONSTANTS
  Users,      \* the users of the run, a sequence
  Sessions,   \* bound: -iterations
  ClientNums, \* the values of -concurrency considered
  Retrs,      \* the values of -retr considered
  Deletes,    \* the values of -delete considered
  Mail,       \* bound: messages in each maildrop at the start
  Arrivals,   \* bound: messages delivered to each maildrop during the run
  Refuses,    \* BOOLEAN: the server may refuse a command
  Drops       \* BOOLEAN: a connection may fail, or reach its deadline

ASSUME UsersAssumption == Users # <<>> /\ Users \in Seq(Range(Users))
ASSUME RunAssumption ==
  /\ Sessions \in Nat \ {0} /\ ClientNums \subseteq Nat \ {0} /\ Retrs \subseteq Nat
  /\ Mail \in Nat /\ Arrivals \in Nat
  /\ Deletes \subseteq BOOLEAN /\ {Refuses, Drops} \subseteq BOOLEAN

VARIABLES
  opts,      \* the run's flags
  seq,       \* d.seq: sessions started
  pc,        \* where each session is
  cmd,       \* the command it is awaiting the answer to
  n,         \* the message number its loop is at
  retrieved, \* messages it has retrieved
  open,      \* its connection is open at the client's end
  sent,      \* the command the server has to answer, or "none"
  buffer,    \* lines received and not read
  lock,      \* the session holding each user's maildrop, or NoSession
  maildrop,  \* the messages of each user, named in order of arrival
  arrived,   \* how many messages each user ever had
  view,      \* the maildrop as it was when the session locked it
  marked,    \* message numbers the session has marked as deleted
  fetched,   \* history: the messages each session retrieved in whole
  expunged,  \* history: the messages each session's QUIT removed
  contended  \* history: a session found its maildrop locked by another

client == <<pc, cmd, n, retrieved, open>>
store == <<lock, maildrop, arrived, view, marked>>
history == <<fetched, expunged, contended>>
vars == <<opts, seq, client, sent, buffer, store, history>>

Ids == 1 .. Sessions
NoSession == 0
UserOf(s) == Users[((s - 1) % Len(Users)) + 1]
Accounts == Range(Users)

Commands == {"greeting", "USER", "PASS", "STAT", "LIST", "UIDL", "RETR", "DELE", "QUIT"}
Multiline == {"LIST", "UIDL", "RETR"}
Over == {"ok", "failed"}

Init ==
  /\ opts \in [clients : ClientNums, retr : Retrs, delete : Deletes, uidl : BOOLEAN]
  /\ seq = 0
  /\ pc = [s \in Ids |-> "new"]
  /\ cmd = [s \in Ids |-> "greeting"]
  /\ n = [s \in Ids |-> 0]
  /\ retrieved = [s \in Ids |-> 0]
  /\ open = [s \in Ids |-> FALSE]
  /\ sent = [s \in Ids |-> "none"]
  /\ buffer = [s \in Ids |-> <<>>]
  /\ lock = [u \in Accounts |-> NoSession]
  /\ maildrop = [u \in Accounts |-> 1 .. Mail]
  /\ arrived = [u \in Accounts |-> Mail]
  /\ view = [s \in Ids |-> <<>>]
  /\ marked = [s \in Ids |-> {}]
  /\ fetched = [s \in Ids |-> {}]
  /\ expunged = [s \in Ids |-> {}]
  /\ contended = FALSE

Set(f, s, v) == [f EXCEPT ![s] = v]

-----------------------------------------------------------------------------
(* The server. *)

Line(s, text) == [to |-> sent[s], text |-> text]

(* What it says is lost on a client that has gone. *)
Say(s, texts) ==
  /\ buffer' = IF open[s] THEN [buffer EXCEPT ![s] = @ \o [i \in DOMAIN texts |-> Line(s, texts[i])]]
                          ELSE buffer
  /\ sent' = Set(sent, s, "none")

Refuse(s) ==
  /\ sent[s] # "none"
  /\ \/ Refuses
     \/ sent[s] = "PASS" /\ lock[UserOf(s)] # NoSession
     \/ sent[s] \in {"RETR", "DELE"} /\ n[s] \notin DOMAIN view[s]
  /\ Say(s, <<"-ERR">>)
  /\ contended' = (contended \/ (open[s] /\ sent[s] = "PASS" /\ lock[UserOf(s)] # NoSession))
  /\ UNCHANGED <<opts, seq, client, store, fetched, expunged>>

Welcome(s) ==
  /\ sent[s] \in {"greeting", "USER"}
  /\ Say(s, <<"+OK">>)
  /\ UNCHANGED <<opts, seq, client, store, history>>

(* The messages of a maildrop, in the order of their arrival. *)
Listings(messages) ==
  {q \in [1 .. Cardinality(messages) -> messages] : \A i, j \in DOMAIN q : i < j => q[i] < q[j]}

Authorise(s) ==
  /\ sent[s] = "PASS" /\ lock[UserOf(s)] = NoSession
  /\ lock' = Set(lock, UserOf(s), s)
  /\ \E q \in Listings(maildrop[UserOf(s)]) : view' = Set(view, s, q)
  /\ Say(s, <<"+OK">>)
  /\ UNCHANGED <<opts, seq, client, maildrop, arrived, marked, history>>

(* STAT's count is its maildrop's size, or nothing a client can parse. *)
Survey(s) ==
  /\ sent[s] \in {"STAT", "LIST", "UIDL"}
  /\ \/ sent[s] = "STAT" /\ Say(s, <<"+OK">>)
     \/ sent[s] = "STAT" /\ Refuses /\ Say(s, <<"+OK?">>)
     \/ sent[s] # "STAT" /\ Say(s, <<"+OK">> \o [i \in DOMAIN view[s] |-> "text"] \o <<".">>)
  /\ UNCHANGED <<opts, seq, client, store, history>>

(* A message may hold a line that began with a dot, stuffed on the wire. *)
Transfer(s) ==
  /\ sent[s] = "RETR" /\ n[s] \in DOMAIN view[s]
  /\ \E line \in {"text", ".."} : Say(s, <<"+OK", line, ".">>)
  /\ UNCHANGED <<opts, seq, client, store, history>>

Mark(s) ==
  /\ sent[s] = "DELE" /\ n[s] \in DOMAIN view[s]
  /\ marked' = [marked EXCEPT ![s] = @ \cup {n[s]}]
  /\ Say(s, <<"+OK">>)
  /\ UNCHANGED <<opts, seq, client, lock, maildrop, arrived, view, history>>

Holds(s) == lock[UserOf(s)] = s

(* The update phase. *)
Update(s) ==
  /\ sent[s] = "QUIT"
  /\ LET gone == {view[s][i] : i \in marked[s]} IN
     /\ maildrop' = [maildrop EXCEPT ![UserOf(s)] = @ \ gone]
     /\ expunged' = Set(expunged, s, gone)
  /\ lock' = IF Holds(s) THEN Set(lock, UserOf(s), NoSession) ELSE lock
  /\ Say(s, <<"+OK">>)
  /\ UNCHANGED <<opts, seq, client, arrived, view, marked, fetched, contended>>

(* The server finds the connection closed. *)
Notice(s) ==
  /\ pc[s] \in Over /\ ~open[s] /\ Holds(s)
  /\ lock' = Set(lock, UserOf(s), NoSession)
  /\ sent' = Set(sent, s, "none")
  /\ UNCHANGED <<opts, seq, client, buffer, maildrop, arrived, view, marked, history>>

(* Mail arrives, whoever has the maildrop locked. *)
Deliver(u) ==
  /\ arrived[u] < Mail + Arrivals
  /\ arrived' = [arrived EXCEPT ![u] = @ + 1]
  /\ maildrop' = [maildrop EXCEPT ![u] = @ \cup {arrived'[u]}]
  /\ UNCHANGED <<opts, seq, client, sent, buffer, lock, view, marked, history>>

Serve(s) ==
  \/ Refuse(s) \/ Welcome(s) \/ Authorise(s) \/ Survey(s)
  \/ Transfer(s) \/ Mark(s) \/ Update(s)

-----------------------------------------------------------------------------
(* One session. *)

(* A client takes the next user, if the run has a client to spare. *)
Start(s) ==
  /\ s = seq + 1
  /\ Cardinality({t \in 1 .. seq : pc[t] \notin Over}) < opts.clients
  /\ seq' = s
  /\ pc' = Set(pc, s, "dial")
  /\ UNCHANGED <<opts, cmd, n, retrieved, open, sent, buffer, store, history>>

Dial(s) ==
  /\ pc[s] = "dial"
  /\ \/ /\ pc' = Set(pc, s, "status")
        /\ open' = Set(open, s, TRUE)
        /\ sent' = Set(sent, s, "greeting")
     \/ /\ Drops
        /\ pc' = Set(pc, s, "failed")
        /\ UNCHANGED <<open, sent>>
  /\ UNCHANGED <<opts, seq, cmd, n, retrieved, buffer, store, history>>

SendThenGo(s, next, place) ==
  /\ cmd' = Set(cmd, s, next)
  /\ sent' = Set(sent, s, next)
  /\ pc' = Set(pc, s, place)
  /\ open' = Set(open, s, place # "ok")

(* QUIT as a farewell nobody waits to hear answered. *)
CommandParting(s, next) == SendThenGo(s, next, IF next = "QUIT" THEN "ok" ELSE "status")

Command(s, next) == SendThenGo(s, next, "status")

(* return err, and the deferred close. *)
FailClosing(s) ==
  /\ pc' = Set(pc, s, "failed")
  /\ open' = Set(open, s, FALSE)
  /\ UNCHANGED <<cmd, sent, n, retrieved>>

(* The close forgotten on the way out of a failure. *)
FailOpen(s) ==
  /\ pc' = Set(pc, s, "failed")
  /\ UNCHANGED <<cmd, sent, n, retrieved, open>>

(* A session that quits politely when it fails. *)
FailQuitting(s) ==
  /\ pc' = Set(pc, s, "failed")
  /\ open' = Set(open, s, FALSE)
  /\ sent' = Set(sent, s, "QUIT")
  /\ UNCHANGED <<cmd, n, retrieved>>

Fail(s) == FailClosing(s)

Succeed(s) ==
  /\ pc' = Set(pc, s, "ok")
  /\ open' = Set(open, s, FALSE)
  /\ UNCHANGED <<cmd, sent>>

LoopUnder(s, i, limit) ==
  /\ n' = Set(n, s, i)
  /\ Command(s, IF i > 0 /\ retrieved'[s] < limit THEN "RETR" ELSE "QUIT")

(* A message more than -retr. *)
LoopInclusive(s, i) == LoopUnder(s, i, opts.retr + 1)

(* The head of the retrieval loop, at message i. *)
Loop(s, i) == LoopUnder(s, i, opts.retr)

Delete(s, i) == n' = Set(n, s, i) /\ Command(s, "DELE")

(* The loop's decrement before its DELE. *)
AfterRetrDecremented(s) ==
  /\ retrieved' = [retrieved EXCEPT ![s] = @ + 1]
  /\ IF opts.delete THEN Delete(s, n[s] - 1) ELSE Loop(s, n[s] - 1)

AfterRetr(s) ==
  /\ retrieved' = [retrieved EXCEPT ![s] = @ + 1]
  /\ IF opts.delete THEN Delete(s, n[s]) ELSE Loop(s, n[s] - 1)

Simply(s, next) == UNCHANGED <<n, retrieved>> /\ Command(s, next)

(* Its command was answered: what Session does next. *)
Follow(s) ==
  \/ cmd[s] = "greeting" /\ Simply(s, "USER")
  \/ cmd[s] = "USER" /\ Simply(s, "PASS")
  \/ cmd[s] = "PASS" /\ Simply(s, "STAT")
  \/ cmd[s] = "STAT" /\ n' = Set(n, s, Len(view[s])) /\ UNCHANGED retrieved /\ Command(s, "LIST")
  \/ cmd[s] = "LIST" /\ opts.uidl /\ Simply(s, "UIDL")
  \/ cmd[s] = "LIST" /\ ~opts.uidl /\ UNCHANGED retrieved /\ Loop(s, n[s])
  \/ cmd[s] = "UIDL" /\ UNCHANGED retrieved /\ Loop(s, n[s])
  \/ cmd[s] = "RETR" /\ AfterRetr(s)
  \/ cmd[s] = "DELE" /\ UNCHANGED retrieved /\ Loop(s, n[s] - 1)
  \/ cmd[s] = "QUIT" /\ UNCHANGED <<n, retrieved>> /\ Succeed(s)

Receive(s) ==
  /\ buffer[s] # <<>>
  /\ buffer' = [buffer EXCEPT ![s] = Tail(@)]

Read(s) == Head(buffer[s]).text

(* readStatus, and stat's parsing of the count: that failure alone is not  *)
(* observed in the collector.                                              *)
ReadStatus(s) ==
  /\ pc[s] = "status" /\ Receive(s)
  /\ \/ /\ Read(s) = "+OK" /\ cmd[s] \in Multiline
        /\ pc' = Set(pc, s, "body")
        /\ UNCHANGED <<cmd, n, retrieved, open, sent>>
     \/ Read(s) = "+OK" /\ cmd[s] \notin Multiline /\ Follow(s)
     \/ Read(s) # "+OK" /\ Fail(s)
  /\ UNCHANGED <<opts, seq, store, history>>

(* A reader that ends a reply at any line that starts with a dot. *)
EndsAtDot(text) == text \in {".", ".."}

(* A line that is a dot and nothing else ends the reply. *)
Ends(text) == text = "."

(* readMultiline. *)
ReadBody(s) ==
  /\ pc[s] = "body" /\ Receive(s)
  /\ \/ /\ ~Ends(Read(s))
        /\ UNCHANGED <<client, sent>>
     \/ /\ Ends(Read(s))
        /\ Follow(s)
  /\ fetched' = IF cmd[s] = "RETR" /\ Read(s) = "."
                THEN [fetched EXCEPT ![s] = @ \cup {view[s][n[s]]}] ELSE fetched
  /\ UNCHANGED <<opts, seq, store, expunged, contended>>

(* A read fails: the connection was lost, or its deadline came. *)
Break(s) ==
  /\ Drops /\ pc[s] \in {"status", "body"}
  /\ Fail(s)
  /\ UNCHANGED <<opts, seq, buffer, store, history>>

ClientStep(s) == Dial(s) \/ ReadStatus(s) \/ ReadBody(s) \/ Break(s)

Finished == (\A s \in Ids : pc[s] \in Over) /\ UNCHANGED vars

Next ==
  \/ \E s \in Ids : Start(s) \/ ClientStep(s) \/ Serve(s) \/ Notice(s)
  \/ \E u \in Accounts : Deliver(u)
  \/ Finished

(***************************************************************************)
(* A session's connection has a deadline, so a session that awaits an      *)
(* answer goes on or fails; and a server finds out about a connection that *)
(* was closed.  It need not answer.                                        *)
(***************************************************************************)
Fairness == \A s \in Ids :
  WF_vars(Start(s)) /\ WF_vars(ClientStep(s)) /\ WF_vars(Notice(s))

Spec == Init /\ [][Next]_vars /\ Fairness

-----------------------------------------------------------------------------
(* Properties. *)

Messages == 1 .. Mail + Arrivals
Texts == {"+OK", "+OK?", "-ERR", "text", "..", "."}

TypeOK ==
  /\ opts \in [clients : ClientNums, retr : Retrs, delete : Deletes, uidl : BOOLEAN]
  /\ seq \in 0 .. Sessions
  /\ pc \in [Ids -> {"new", "dial", "status", "body"} \cup Over]
  /\ cmd \in [Ids -> Commands]
  /\ n \in [Ids -> 0 .. Mail + Arrivals]
  /\ retrieved \in [Ids -> 0 .. Mail + Arrivals]
  /\ open \in [Ids -> BOOLEAN]
  /\ sent \in [Ids -> Commands \cup {"none"}]
  /\ buffer \in [Ids -> Seq([to : Commands, text : Texts])]
  /\ lock \in [Accounts -> Ids \cup {NoSession}]
  /\ arrived \in [Accounts -> Mail .. Mail + Arrivals]
  /\ maildrop \in [Accounts -> SUBSET Messages]
  /\ view \in [Ids -> Seq(Messages)]
  /\ \A s \in Ids : Len(view[s]) <= Mail + Arrivals
  /\ {marked, fetched, expunged} \subseteq [Ids -> SUBSET Messages]
  /\ contended \in BOOLEAN

(* readMultiline's promise: the client never takes a line of one reply for *)
(* the answer to another command, whatever the messages hold.  All it has  *)
(* not read answers the command it awaits.                                 *)
InStep == \A s \in Ids : \A i \in DOMAIN buffer[s] :
  open[s] => buffer[s][i].to = cmd[s]

(* -delete consumes only what was retrieved: a message a session removed   *)
(* was read in whole, by that session, before.  Mail that arrived while    *)
(* the maildrop was locked is not touched.                                 *)
NothingLost == \A s \in Ids : expunged[s] \subseteq fetched[s]

(* A session that fails before its QUIT deletes nothing, whatever it had   *)
(* marked and whatever the server still does with its last command.        *)
FailureKeepsMail == \A s \in Ids :
  pc[s] = "failed" /\ cmd[s] # "QUIT" => expunged[s] = {}

(* A session that succeeds retrieved the newest -retr messages of the      *)
(* maildrop it locked, or all of them, and removed these with -delete and  *)
(* none without.                                                           *)
Newest(s) == {view[s][i] : i \in {i \in DOMAIN view[s] : i + opts.retr > Len(view[s])}}

SessionComplete == \A s \in Ids : pc[s] = "ok" =>
  /\ fetched[s] = Newest(s)
  /\ expunged[s] = IF opts.delete THEN fetched[s] ELSE {}

(* One client never contends with itself: as long as none of its sessions  *)
(* failed, the maildrop it returns to is free again.                       *)
SoloUncontended ==
  opts.clients = 1 /\ (\A s \in Ids : pc[s] # "failed") => ~contended

(* The package's reason for a session per iteration: no session is refused *)
(* because of another one of the run.                                      *)
NoSelfContention == ~contended

(* No session, however it ends, leaves its maildrop locked for good.       *)
LockReleased == \A u \in Accounts : lock[u] # NoSession ~> lock[u] = NoSession
=============================================================================

-------------------------------- MODULE Lmtp --------------------------------
(***************************************************************************)
(* The LMTP driver: clients that each deliver one message per connection,  *)
(* over the counters they share, the recipient walk and the corpus         *)
(* generator.                                                              *)
(*                                                                         *)
(* A reply is one or more lines, and the client takes them off its buffer  *)
(* one at a time.  The server is external: it answers each command in      *)
(* order, one reply for every recipient once the message was transferred,  *)
(* and may refuse anything or drop the connection.  A line carries the     *)
(* command it answers, which the client cannot see; it sees only whether   *)
(* the code is the one it wants and whether another line follows.          *)
(***************************************************************************)
EXTENDS Naturals, Sequences, FiniteSets, Functions

CONSTANTS
  Clients,      \* the workers of the run
  Recipients,   \* the recipients -recipients names, a sequence; it may name one
                \*   more than once, which expandRecipients does not look for
  PerMessages,  \* the values of -rcpt-per-message considered
  Deliveries,   \* -iterations
  MaxLines,     \* bound: lines of one reply
  Refuses,      \* BOOLEAN: the server may refuse a command
  Drops         \* BOOLEAN: a connection may fail while a reply is awaited

ASSUME ClientsAssumption == IsFiniteSet(Clients) /\ Clients # {}
ASSUME RecipientsAssumption ==
  Recipients # <<>> /\ Recipients \in Seq(Range(Recipients))
ASSUME ConfigAssumption ==
  /\ PerMessages \subseteq Nat /\ Deliveries \in Nat \ {0} /\ MaxLines \in Nat \ {0}
  /\ {Refuses, Drops} \subseteq BOOLEAN

VARIABLES
  perMessage, \* fixed for the run, at least one
  claimed,    \* deliveries started
  seq,        \* d.seq
  generated,  \* the corpus: the recipient each message was generated for, in
              \*   the order of the generator's numbers
  pc,         \* where each client is
  cmd,        \* the command it is sending or awaiting the answer to
  rcpts,      \* the recipients of its delivery
  named,      \* how many of them RCPT has named
  unread,     \* replies it has yet to read before its command is answered
  owed,       \* the server's commands to answer, one entry for each reply
  lines,      \* lines of the reply under way
  buffer,     \* lines received and not read
  refused,    \* history: the server refused something in this delivery
  used,       \* history: how often each entry of Recipients was drawn
  spoiled     \* history: a delivery failed

shared == <<perMessage, claimed, seq, generated>>
client == <<pc, cmd, rcpts, named, unread>>
server == <<owed, lines, buffer, refused>>
history == <<used, spoiled>>
vars == <<shared, client, server, history>>

Commands == {"greeting", "LHLO", "MAIL", "RCPT", "DATA", "BODY", "QUIT"}

Want(c) ==
  CASE c = "greeting" -> "220"
    [] c = "DATA" -> "354"
    [] c = "QUIT" -> "221"
    [] OTHER -> "250"

Size == Len(Recipients)

Init ==
  /\ \E n \in PerMessages : perMessage = IF n = 0 THEN 1 ELSE n
  /\ claimed = 0 /\ seq = 0 /\ generated = <<>>
  /\ pc = [c \in Clients |-> "idle"]
  /\ cmd = [c \in Clients |-> "greeting"]
  /\ rcpts = [c \in Clients |-> <<>>]
  /\ named = [c \in Clients |-> 0]
  /\ unread = [c \in Clients |-> 0]
  /\ owed = [c \in Clients |-> <<>>]
  /\ lines = [c \in Clients |-> 0]
  /\ buffer = [c \in Clients |-> <<>>]
  /\ refused = [c \in Clients |-> FALSE]
  /\ used = [k \in 1 .. Size |-> 0]
  /\ spoiled = FALSE

Set(f, c, v) == [f EXCEPT ![c] = v]

Times(x, n) == [i \in 1 .. n |-> x]

-----------------------------------------------------------------------------
(* The server. *)

ServerLine(c) ==
  /\ owed[c] # <<>>
  /\ LET to == Head(owed[c]) IN
     \E no \in {FALSE, Refuses}, more \in {FALSE, lines[c] + 1 < MaxLines} :
       /\ buffer' = [buffer EXCEPT ![c] = Append(@,
                       [to |-> to, code |-> IF no THEN "5xx" ELSE Want(to), more |-> more])]
       /\ refused' = Set(refused, c, refused[c] \/ no)
       /\ owed' = IF more THEN owed ELSE [owed EXCEPT ![c] = Tail(@)]
       /\ lines' = Set(lines, c, IF more THEN lines[c] + 1 ELSE 0)
  /\ UNCHANGED <<shared, client, history>>

-----------------------------------------------------------------------------
(* One delivery. *)

Claim(c) ==
  /\ pc[c] = "idle"
  /\ IF claimed < Deliveries
     THEN claimed' = claimed + 1 /\ pc' = Set(pc, c, "dial")
     ELSE pc' = Set(pc, c, "done") /\ UNCHANGED claimed
  /\ UNCHANGED <<perMessage, seq, generated, cmd, rcpts, named, unread, server, history>>

(* A new connection owes nothing but its greeting. *)
Dial(c) ==
  /\ pc[c] = "dial"
  /\ pc' = Set(pc, c, "read")
  /\ cmd' = Set(cmd, c, "greeting")
  /\ rcpts' = Set(rcpts, c, <<>>)
  /\ named' = Set(named, c, 0)
  /\ unread' = Set(unread, c, 1)
  /\ owed' = Set(owed, c, <<"greeting">>)
  /\ lines' = Set(lines, c, 0)
  /\ buffer' = Set(buffer, c, <<>>)
  /\ refused' = Set(refused, c, FALSE)
  /\ UNCHANGED <<shared, history>>

DrawCapped(c, n) ==
  /\ pc[c] = "draw"
  /\ LET drawn == [i \in 1 .. n |-> ((seq + i - 1) % Size) + 1]
     IN  /\ rcpts' = Set(rcpts, c, [i \in 1 .. n |-> Recipients[drawn[i]]])
         /\ used' = [k \in 1 .. Size |->
                       used[k] + Cardinality({i \in 1 .. n : drawn[i] = k})]
  /\ seq' = seq + n
  /\ pc' = Set(pc, c, "send")
  /\ cmd' = Set(cmd, c, "RCPT")
  /\ UNCHANGED <<perMessage, claimed, generated, named, unread, server, spoiled>>

(* The fan-out not held to the size of the set. *)
DrawUncapped(c) == DrawCapped(c, perMessage)

(* Each client walking the set for itself, from its first recipient. *)
DrawPinned(c) ==
  /\ pc[c] = "draw"
  /\ rcpts' = Set(rcpts, c, <<Recipients[1]>>)
  /\ used' = [used EXCEPT ![1] = @ + 1]
  /\ pc' = Set(pc, c, "send")
  /\ cmd' = Set(cmd, c, "RCPT")
  /\ UNCHANGED <<perMessage, claimed, seq, generated, named, unread, server, spoiled>>

(* nextRecipients: n consecutive recipients for one addition to d.seq. *)
Draw(c) == DrawCapped(c, IF perMessage > Size THEN Size ELSE perMessage)

(* The generator gives the message its number, under its lock.              *)
Generate(c) ==
  /\ pc[c] = "generate"
  /\ generated' = Append(generated, rcpts[c][1])
  /\ pc' = Set(pc, c, "send")
  /\ cmd' = Set(cmd, c, "BODY")
  /\ UNCHANGED <<perMessage, claimed, seq, rcpts, named, unread, server, history>>

SendAwaiting(c, n) ==
  /\ pc[c] = "send"
  /\ owed' = [owed EXCEPT ![c] =
                @ \o Times(cmd[c], IF cmd[c] = "BODY" THEN Len(rcpts[c]) ELSE 1)]
  /\ unread' = Set(unread, c, n)
  /\ named' = Set(named, c, IF cmd[c] = "RCPT" THEN named[c] + 1 ELSE named[c])
  /\ pc' = Set(pc, c, "read")
  /\ UNCHANGED <<shared, cmd, rcpts, lines, buffer, refused, history>>

(* One reply read for the message, whatever its recipients. *)
SendAwaitingOne(c) == SendAwaiting(c, 1)

Send(c) == SendAwaiting(c, IF cmd[c] = "BODY" THEN Len(rcpts[c]) ELSE 1)

NextCommand(c) ==
  CASE cmd[c] = "greeting" -> "LHLO"
    [] cmd[c] = "LHLO" -> "MAIL"
    [] cmd[c] = "RCPT" /\ named[c] < Len(rcpts[c]) -> "RCPT"
    [] cmd[c] = "RCPT" /\ named[c] = Len(rcpts[c]) -> "DATA"
    [] cmd[c] = "BODY" -> "QUIT"
    [] OTHER -> cmd[c]

(* The command is answered: what follows it in Deliver. *)
Follow(c) ==
  /\ pc' = Set(pc, c, CASE cmd[c] = "MAIL" -> "draw"
                        [] cmd[c] = "DATA" -> "generate"
                        [] cmd[c] = "QUIT" -> "delivered"
                        [] OTHER -> "send")
  /\ cmd' = Set(cmd, c, NextCommand(c))

ReadLineIf(c, wanted, last) ==
  /\ pc[c] = "read" /\ buffer[c] # <<>>
  /\ buffer' = [buffer EXCEPT ![c] = Tail(@)]
  /\ IF ~wanted
     THEN pc' = Set(pc, c, "failed") /\ UNCHANGED <<cmd, unread>>
     ELSE /\ unread' = Set(unread, c, IF last THEN unread[c] - 1 ELSE unread[c])
          /\ IF unread'[c] = 0 THEN Follow(c) ELSE UNCHANGED <<pc, cmd>>
  /\ UNCHANGED <<shared, rcpts, named, owed, lines, refused, history>>

Wanted(c) == Head(buffer[c]).code = Want(cmd[c])
Last(c) == ~Head(buffer[c]).more

(* The reader that stops at a reply's first line. *)
ReadFirstLine(c) == ReadLineIf(c, Wanted(c), TRUE)

(* The reader that takes any reply for the one it wants.                   *)
ReadAnyCode(c) == ReadLineIf(c, TRUE, Last(c))

ReadLine(c) == ReadLineIf(c, Wanted(c), Last(c))

Drop(c) ==
  /\ Drops /\ pc[c] = "read"
  /\ pc' = Set(pc, c, "failed")
  /\ UNCHANGED <<shared, cmd, rcpts, named, unread, server, history>>

(* Deliver returns, and closes its connection. *)
Return(c) ==
  /\ pc[c] \in {"delivered", "failed"}
  /\ pc' = Set(pc, c, "idle")
  /\ spoiled' = (spoiled \/ pc[c] = "failed")
  /\ owed' = Set(owed, c, <<>>)
  /\ buffer' = Set(buffer, c, <<>>)
  /\ lines' = Set(lines, c, 0)
  /\ refused' = Set(refused, c, FALSE)
  /\ UNCHANGED <<shared, cmd, rcpts, named, unread, used>>

ClientStep(c) ==
  \/ Claim(c) \/ Dial(c) \/ Draw(c) \/ Generate(c) \/ Send(c)
  \/ ReadLine(c) \/ Drop(c) \/ Return(c)

Finished == (\A c \in Clients : pc[c] = "done") /\ UNCHANGED vars

Next == (\E c \in Clients : ClientStep(c) \/ ServerLine(c)) \/ Finished

Spec == Init /\ [][Next]_vars

-----------------------------------------------------------------------------
(* Properties. *)

Lines == [to : Commands, code : {"220", "221", "250", "354", "5xx"}, more : BOOLEAN]

TypeOK ==
  /\ perMessage \in Nat \ {0}
  /\ claimed \in 0 .. Deliveries
  /\ seq \in Nat
  /\ generated \in Seq(Range(Recipients))
  /\ pc \in [Clients -> {"idle", "dial", "send", "read", "draw", "generate",
                         "delivered", "failed", "done"}]
  /\ cmd \in [Clients -> Commands]
  /\ rcpts \in [Clients -> Seq(Range(Recipients))]
  /\ named \in [Clients -> 0 .. Size] /\ unread \in [Clients -> 0 .. Size]
  /\ \A c \in Clients : Len(rcpts[c]) <= Size /\ named[c] <= Len(rcpts[c])
  /\ owed \in [Clients -> Seq(Commands)] /\ buffer \in [Clients -> Seq(Lines)]
  /\ lines \in [Clients -> 0 .. MaxLines - 1]
  /\ refused \in [Clients -> BOOLEAN]
  /\ used \in [1 .. Size -> Nat]
  /\ spoiled \in BOOLEAN

(* Client and server never fall out of step.  While the client awaits an   *)
(* answer, what it has not read and what the server has yet to say answer  *)
(* that command and no other, and there is something to wait for; when it  *)
(* sends the next one nothing is left over to be misread as its answer.    *)
Outstanding(c) == Range(owed[c]) \cup {line.to : line \in Range(buffer[c])}

InStep == \A c \in Clients :
  /\ pc[c] = "read" => Outstanding(c) = {cmd[c]}
  /\ pc[c] \in {"send", "draw", "generate", "delivered"} => Outstanding(c) = {}

(* A delivery succeeds only if the server refused none of it, no single    *)
(* recipient included.                                                     *)
NoSilentRefusal == \A c \in Clients : pc[c] = "delivered" => ~refused[c]

(* However many deliveries are in flight and whichever of them fail, the   *)
(* recipients are drawn evenly, each as often as the list names it: the    *)
(* walk covers the whole list before it returns to any of its entries.     *)
DrawnEvenly == \A k, l \in 1 .. Size : used[k] <= used[l] + 1

Mentions(s, r) == {i \in DOMAIN s : s[i] = r}

(* No delivery names a recipient more often than the list does: the server *)
(* would answer for each mention, and store the message that often.        *)
NamedOnce == \A c \in Clients, r \in Range(Recipients) :
  Cardinality(Mentions(rcpts[c], r)) <= Cardinality(Mentions(Recipients, r))

(* A seed gives one corpus: in a run that loses nothing, the message the   *)
(* generator numbers k is rendered for the same recipient every time.      *)
FanOut == IF perMessage > Size THEN Size ELSE perMessage
CorpusIsSeeded ==
  (\A c \in Clients : pc[c] = "done") /\ ~spoiled =>
    generated = [k \in 1 .. Deliveries |-> Recipients[(((k - 1) * FanOut) % Size) + 1]]
=============================================================================

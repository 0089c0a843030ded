--------------------------- MODULE CommandTimeout ---------------------------
(***************************************************************************)
(* What bounds a command in time.  The four drivers put -timeout and the   *)
(* run's own deadline on the wire in four ways: LMTP, POP3 and IMAP dial   *)
(* under a limit, each its own, and once connected set an absolute         *)
(* deadline on the connection, each from other terms; JMAP gives every     *)
(* request its own.  One client of one driver over a discrete clock,       *)
(* against a server that answers in time or never.                         *)
(***************************************************************************)
EXTENDS Naturals, FiniteSets, FiniteSetsExt

CONSTANTS
  Drivers,     \* the drivers considered; "pop3s" is POP3 with -tls, the one
               \*   driver that dials in another way over TLS
  Durations,   \* the values of -duration considered; 0 is none
  Timeout,     \* -timeout
  Latency,     \* the longest a healthy server takes to accept or to answer
  PerSession,  \* bound: replies in one LMTP or POP3 session or JMAP chain
  Horizon,     \* bound: the clock stops here
  Wedges       \* BOOLEAN: the server may stop answering for good

ASSUME ClockAssumption ==
  /\ Timeout \in Nat \ {0} /\ Latency \in Nat /\ Horizon \in Nat
  /\ Durations \subseteq 0 .. Horizon /\ PerSession \in Nat \ {0}
  /\ Wedges \in BOOLEAN
  /\ Drivers \subseteq {"lmtp", "pop3", "pop3s", "imap", "jmap"}

VARIABLES
  driver, duration,  \* fixed for the run
  now,
  pc,         \* "idle" between iterations, "dial" while connecting, "open"
              \*   between commands, "wait" for an answer, "over"
  deadline,   \* of the dial, of the connection, or of the request in flight
  sentAt,     \* when the dial began or the command in flight was sent
  commands,   \* replies had on this connection, as far as they are counted
  wedged,     \* the server has stopped answering
  failedAt,   \* when something was last ended by its deadline, or Never
  waited      \* how long that had been waited for

vars == <<driver, duration, now, pc, deadline, sentAt, commands, wedged, failedAt, waited>>

Never == Horizon + Timeout + 1   \* later than any deadline and any clock reading

RunEnd == IF duration > 0 THEN duration ELSE Never
RunOver == now >= RunEnd

Earlier(a, b) == Min({a, b})

(* A driver that gives -timeout to the connection only when the run has no *)
(* deadline of its own.                                                    *)
RunDeadlineElseTimeout == IF duration > 0 THEN RunEnd ELSE now + Timeout

TimeoutWithinRun == Earlier(now + Timeout, RunEnd)

NoDeadline == Never

(* How long each driver tries to connect; over TLS, and for IMAP always,   *)
(* the context is not given to the dialler.                                *)
DialLimit == IF driver \in {"imap", "pop3s"} THEN now + Timeout ELSE TimeoutWithinRun

(* What each driver sets once it is connected.                             *)
DialDeadline ==
  CASE driver = "lmtp" -> RunDeadlineElseTimeout
    [] driver \in {"pop3", "pop3s"} -> TimeoutWithinRun
    [] driver = "imap" -> now + Timeout
    [] driver = "jmap" -> NoDeadline

(* What bounds a command sent now.                                         *)
CommandDeadline == IF driver = "jmap" THEN TimeoutWithinRun ELSE deadline

Persistent == driver = "imap"

(* The greeting, LOGIN and one command: what RunClient has had answered    *)
(* on a connection before it looks at the context again.                   *)
Opening == 3

LooksAtRun == Persistent /\ commands = Opening

Init ==
  /\ driver \in Drivers /\ duration \in Durations
  /\ now = 0 /\ pc = "idle" /\ deadline = Never /\ sentAt = 0 /\ commands = 0
  /\ wedged = FALSE /\ failedAt = Never /\ waited = 0

(* No iteration starts once the run is over, and RunClient's loop ends.    *)
Stop ==
  /\ pc = "idle" \/ (pc = "open" /\ LooksAtRun)
  /\ RunOver
  /\ pc' = "over"
  /\ UNCHANGED <<driver, duration, now, deadline, sentAt, commands, wedged, failedAt, waited>>

(* A JMAP chain connects as part of its requests.                          *)
Dial ==
  /\ pc = "idle" /\ ~RunOver
  /\ pc' = IF driver = "jmap" THEN "open" ELSE "dial"
  /\ deadline' = IF driver = "jmap" THEN DialDeadline ELSE DialLimit
  /\ sentAt' = now
  /\ commands' = 0
  /\ UNCHANGED <<driver, duration, now, wedged, failedAt, waited>>

(* A server that has stopped answering may still accept a connection.      *)
Connected ==
  /\ pc = "dial" /\ now < deadline
  /\ pc' = "open"
  /\ deadline' = DialDeadline
  /\ UNCHANGED <<driver, duration, now, sentAt, commands, wedged, failedAt, waited>>

(* A command is sent, or the greeting awaited.  A session or chain goes on *)
(* whatever the clock says; RunClient looks at the context before each     *)
(* command but those that open the connection.                             *)
Send ==
  /\ pc = "open"
  /\ LooksAtRun => ~RunOver
  /\ pc' = "wait"
  /\ sentAt' = now
  /\ deadline' = CommandDeadline
  /\ UNCHANGED <<driver, duration, now, commands, wedged, failedAt, waited>>

(* The session goes on, or this was its last reply: a LOGOUT's, for IMAP.  *)
Answer ==
  /\ pc = "wait" /\ ~wedged /\ now < deadline
  /\ \/ /\ Persistent \/ commands + 1 < PerSession
        /\ pc' = "open"
        /\ commands' = IF LooksAtRun THEN commands ELSE commands + 1
     \/ /\ IF Persistent THEN LooksAtRun ELSE commands + 1 = PerSession
        /\ pc' = "idle"
        /\ commands' = 0
  /\ UNCHANGED <<driver, duration, now, deadline, sentAt, wedged, failedAt, waited>>

Expire ==
  /\ pc \in {"dial", "wait"} /\ now >= deadline
  /\ pc' = "idle"
  /\ failedAt' = now
  /\ waited' = now - sentAt
  /\ commands' = 0
  /\ UNCHANGED <<driver, duration, now, deadline, sentAt, wedged>>

Wedge ==
  /\ Wedges /\ ~wedged
  /\ wedged' = TRUE
  /\ UNCHANGED <<driver, duration, now, pc, deadline, sentAt, commands, failedAt, waited>>

(* Time passes, but no further than the next thing that must happen: one   *)
(* command follows another at once, an expired deadline ends its command,  *)
(* and a server that is not wedged accepts and answers within Latency.     *)
Tick ==
  /\ now < Horizon
  /\ pc # "open"
  /\ pc \in {"dial", "wait"} => now < deadline /\ (wedged \/ now - sentAt < Latency)
  /\ now' = now + 1
  /\ UNCHANGED <<driver, duration, pc, deadline, sentAt, commands, wedged, failedAt, waited>>

(* The clock of the model has run out.                                     *)
Rest == now = Horizon /\ UNCHANGED vars

Next == Stop \/ Dial \/ Connected \/ Send \/ Answer \/ Expire \/ Wedge \/ Tick \/ Rest

Spec == Init /\ [][Next]_vars

-----------------------------------------------------------------------------
(* Properties. *)

TypeOK ==
  /\ driver \in Drivers /\ duration \in Durations
  /\ now \in 0 .. Horizon
  /\ pc \in {"idle", "dial", "open", "wait", "over"}
  /\ deadline \in 0 .. Never
  /\ sentAt \in 0 .. now
  /\ commands \in 0 .. (IF Persistent THEN Opening ELSE PerSession - 1)
  /\ wedged \in BOOLEAN
  /\ failedAt \in 0 .. Never
  /\ waited \in 0 .. Horizon

Waiting == pc \in {"dial", "wait"}

(* A server that stops answering cannot hold a client for ever: whichever  *)
(* driver it is, it still waits, for a connection or for an answer, only   *)
(* while no more than -timeout has passed since it began to or the run has *)
(* a deadline it has not passed.                                           *)
WedgeEnds == Waiting =>
  now - sentAt <= Timeout \/ (duration > 0 /\ now <= RunEnd)

(* -timeout bounds one command: no command waits longer, even when the     *)
(* server never answers.                                                   *)
WedgeBounded == pc = "wait" => now - sentAt <= Timeout

(* -timeout bounds one command and nothing shorter: while the run lasts, a *)
(* command is ended by a deadline only after waiting -timeout for it.      *)
FullTimeoutGiven == failedAt < Never => waited >= Timeout \/ failedAt >= RunEnd

(* How long past the end of the run what was begun before it can last: for *)
(* IMAP a dial and then, from when it has connected, greeting, LOGIN and   *)
(* first command; for POP3 over TLS the dial alone; for the others, whose  *)
(* dial and deadline both heed the run's, not at all.                      *)
Overrun == CASE driver = "imap" -> 2 * Timeout
             [] driver = "pop3s" -> Timeout
             [] OTHER -> 0

(* No client still waits for a connection or for an answer after the run's *)
(* deadline by more than its driver can have left to wait.                 *)
EndsSoonAfterRun == Waiting /\ duration > 0 => now <= RunEnd + Overrun
=============================================================================

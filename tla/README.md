# A verification of yarilo-loadtest

TLA+ modules that model the control of yarilo-loadtest, TLC configurations that
check them on small instances, and proofs that hold for every number of clients
and every bound. Paths such as `driver.go:87` are relative to
the repository (`src/`); `PROJECT.json` maps each definition to its lines.

yarilo-loadtest drives a mail server with many concurrent clients over one of
four protocols and judges it: a run exits non-zero when the server failed it. It
is a *judge*, so what can go wrong in it is not a crash but a wrong verdict: a
failure lost between a goroutine and the exit status, the run's own end counted
against the server, an honest server accused, a hollow one believed, a run that
never reaches its verdict. The properties below are about those.

## 1. Inventory

| Part | Code | State it keeps | Operations |
|---|---|---|---|
| Run harness | `internal/driver/driver.go` | run context, iteration counter, first error, one goroutine per client | `Run`: bounds, ramp-up, claim, call, fail, stop, wait |
| Collector | `internal/stats/stats.go` | samples, error and cancelled counts per command, under a mutex; the bound run context | `BindRun`, `Observe`, `Summary`, renderings |
| Live table | `internal/stats/live.go` | counts at its last line, column order, lines since the header | `Run`, `tick`, header |
| main | `main.go` | flags, signal context, `done` channel of the table | read the corpus and the recipients, build a driver, run it, summarise, exit status |
| IMAP driver | `internal/imapdrv/` | per session: protocol state, `mailboxView`; shared: `d.seq`, profile | `Prepare`, `RunClient`, `connect`, `step`, `doSelect`, `run`, `appendMessage`, `checkMismatch` |
| LMTP driver | `internal/lmtp/lmtp.go` | shared `d.seq`; per delivery: connection, recipients | `Deliver`, `nextRecipients`, `readReply`, `body` |
| POP3 driver | `internal/pop3drv/pop3.go` | shared `d.seq`, which picks the user; one connection per session | `Session`: login, STAT, LIST/UIDL, RETR, DELE, QUIT |
| JMAP driver | `internal/jmapdrv/jmap.go` | per client: the session document and the account | `NewClient`, `discover`, `Iterate`, `call`, `checkMethodErrors` |
| Corpus | `internal/corpus/` | generator: number and random source under a mutex; mbox: messages and index | `Next`, `LoadMbox`, `checkLineLengths` |
| stall-watch | `internal/stallwatch/` | time of the last capture, captures on disk | `backends`, `targetPod`, read lines, `capture`, `save` |
| Toolchain test | `internal/toolchain/` | none | compares version strings in build files |

How they interact:

- `main` builds a driver and calls it with a context a signal cancels. Each
  driver calls `driver.Run`, which derives the run's context, binds it to the
  collector and runs the driver's function `fn` in one goroutine per client until
  the context is done or the budget is spent.
- `fn` is a whole LMTP delivery, a whole POP3 session, a whole JMAP chain, but a
  whole *persistent* IMAP client: what `-iterations` counts differs by protocol.
- every command is observed in the collector, which decides at that moment, by
  the run's context, whether a failure is an error or a cancellation. The exit
  status is derived from the summary and from the error `driver.Run` returns.
- the live table reads the collector from a goroutine of its own; `main` closes
  its `done` channel and goes on without waiting for it.
- clients share a driver's counters (recipient walk, mailbox walk, profile, users)
  and the corpus generator. The server relates them further: two IMAP clients with
  one mailbox open see each other's work, and two POP3 sessions of one user exclude
  each other.
- a corpus file and a list of recipients are read before the run, and either can
  end the program; what they hold reaches the server through the LMTP driver.
- stall-watch is a program of its own. It knows a run by its pod and its log.

What is hard here: the end of a run (a clock, a timer, a signal, a stop, each in
the middle of other workers' commands); the view an IMAP session keeps of a
mailbox others change; the number of replies a protocol owes; deadlines that
are absolute where the documentation speaks of each command; the loop between
the steady state, the profile and the server; a session that fails half way; a
failure inside an answer that says 200; a file that holds what a protocol reserves;
and evidence gathered later than what it is evidence of. `PROJECT.json` lists the hazards
line by line under "hazards".

What makes each part correct:

- *harness and collector*: the verdict fails when a failure reached a client while
  the run was live and does not fail for the run's own end, every command is in the
  books, the budget is exact, and a verdict is reached;
- *IMAP*: the view is what the session was told; an honest server is not
  accused and a hollow one is found out; `-msgs` bounds the mailbox; the run ends;
- *LMTP*: client and server stay in step; no refusal passes for a success; the
  recipients are drawn evenly; a seed gives one corpus;
- *live table*: each line agrees with the collector under a header that names
  its columns, and nothing is missing at the end;
- *deadlines*: a server that stops answering cannot hold a run for ever, and one
  that answers in time is never cut off;
- *POP3*: client and server stay in step whatever a message holds; a message
  deleted was one this session retrieved; a session that fails deletes nothing and
  leaves no lock; a maildrop is not contended by the tool's own sessions;
- *JMAP*: a method error is found in a successful response and counted; requests go
  where the session says, for the client's own user; a failed discovery is not for
  ever;
- *replay*: the server stores what the file held; what it would refuse is refused
  before the run;
- *recipients*: a list expands to what it names, or is refused;
- *stall-watch*: evidence taken while the stall lasts, every stall covered, the
  watch ends.

## 2. Modules and the code

| Module | Models | Composes / implements |
|---|---|---|
| `RunContract` | what a run promises to the job that launched it, in five variables | abstract specification |
| `Driver` | `driver.Run`, `Collector.Observe`, `main`'s exit status | implements `RunContract` (`ContractSpec`) |
| `DriverProofs` | theorems about `Driver` | extends `Driver`, TLAPS |
| `ImapSession` | IMAP clients, their views, the steady state, the profile, over an external server | |
| `ImapSessionProofs` | theorems about `ImapSession` | extends it, TLAPS |
| `Lmtp` | deliveries over the shared walk and corpus numbering, over an external server | |
| `CommandTimeout` | how long each of the four drivers dials and waits, over a discrete clock | |
| `LiveTable` | `Live.Run` and `tick` with `main`'s shutdown | |
| `RunEndProofs` | theorems about `LiveTable` and `CommandTimeout`, both about how a run ends | extends the two, TLAPS |
| `LmtpProofs` | theorems about `Lmtp` | extends it, TLAPS |
| `Pop3` | POP3 sessions over an external server with locks and an update phase | |
| `Pop3Proofs` | theorems about `Pop3` | extends it, TLAPS |
| `Jmap` | discovery and chains of requests over an external server | |
| `JmapProofs` | theorems about `Jmap` | extends it, TLAPS |
| `Replay` | `LoadMbox`, `checkLineLengths`, `body` with stuffing and terminator, over an external server's DATA | |
| `Recipients` | `expandRecipients` and its helpers, with a reference definition | |
| `Launch` | `main` on its way to an LMTP run that replays a file | composes `Replay` and `Recipients` |
| `LaunchProofs` | theorems about `Launch` and the algorithms of its two parts | extends it, TLAPS |
| `Order` | the members of a set of numbers, the smallest first | extended by `ImapSession`, `Replay`, `Recipients` |
| `StallWatch` | stall-watch over a discrete clock and an external cluster | |
| `StallWatchProofs` | theorems about `StallWatch` | extends it, TLAPS |
| `MCDriver`, `MCImapSession`, `MCLmtp`, `MCLiveTable`, `MCPop3`, `MCJmap` | small instances for TLC | extend the module each names |

### Driver

One action per step of a worker goroutine: `Ramp` (driver.go's stagger; its
length is left out, so a worker leaves it at any moment), `LoopHead` (the test of
`runCtx.Err()`), `Claim` (the comparison and the count, under one mutex), then the call of
`fn`, of which the harness sees only that it sends commands (`Issue`), that each
concludes (`Answer` by the server, `Cut` by the tool), that `Observe` files it
under one mutex, and that it returns (`ReturnNil`, or an error after the first
failure). `Fail`, `Record` and `Stop` are the three steps after an error: the
second look at the context, the recording of `firstErr` under its mutex, and
`cancel`. `Finish` is `wg.Wait` and the exit status.

The deadline is two events on purpose. `expired` is the clock passing it, at
which instant a read on a connection that carries the same deadline fails;
`FireDeadline` is the timer of `context.WithTimeout`, after which `runCtx.Err()`
is not nil. The Go runtime promises no order between a network poller and a
timer, so nothing in the model does.

`opts.driver` is the kind of driver, one of `Kinds`, by three things in which the four
differ. `cuts`: what can end its command in flight when the run ends. LMTP and POP3 put
the run's deadline on the connection (`"deadline"`) and dial with the context
(`"context"`), JMAP's requests carry the context, and nothing of the run reaches an IMAP
connection. `silent`: whether it returns errors it never observed. Three do, at one
place each: IMAP for a contradicted EXISTS, POP3 for a STAT it cannot parse, JMAP for a
bad session document. `doubles`: IMAP observes a SELECT its profile chose once before it
sends it (`ObserveAhead`) and once after, and `doubled` counts the former.

The first two make exceptions of two promises. `EndIsNotAFault` and `CleanRunPasses` say
that the end of a run is no fault of the server's but in a command cut off by a
connection that carries the run's deadline; `NoWindow` is what `stats.go` says, without
the exception, and `driver_deadline` is the counterexample. The third is in
`EveryCommandCounted`, which counts the samples taken ahead by themselves;
`driver_doubled` shows that a command may have two (`OneSampleEach`).

### ImapSession

`RunClient`'s loop is `Claim`, `Connect`, `Choose`, the command, and `Leave`.
`Choose` is `step`: SELECT unless a mailbox is open, then the steady state
(`ChooseFor`: APPEND below `-msgs`, EXPUNGE above twice it), then `Pick` from the
profile. `Reselect` is the second sequence number `doSelect` takes when the
profile chose SELECT. `RunCommand` is `run` with the folding of the untagged
responses into the view, the mismatch check, and the return that closes the
session. `Logout` does the same with what the server says in its answer, on a connection
already closed.

The server is external and modelled in full, because it decides the properties:
a mailbox is a sequence of messages, each with the sessions that know of it. A
message expunged keeps its sequence number in every session not yet told, no
EXPUNGE is sent in answer to FETCH, STORE or SEARCH, and EXPUNGE comes before
EXISTS. It may refuse any command (`Refuses`). `Servers` are the kinds of it, fixed for
a run: `repeats`, the commands it answers with EXISTS even when that did not change;
`reports`, whether it tells a session what is new in answer to its APPEND, as RFC 9051
asks, or only with a later command; and whether it `stores` anything. `Report` is what a
session is told. Of what comes with APPEND the client sees nothing (`client.go:200`),
and so several properties are of a server that does not report there, each saying so:
`ViewIsSession`, `NoFalseAlarm`, `MailboxKeptNear`, and one half of `HeldIsReal`. The
other half, `GrowthBounded`, `HollowFoundOut` and `TimedRunEnds` are of every server, and
`imap_append_report` and `imap_stale_range` show what goes wrong with one that reports.

`Tidy` is what is left of a mailbox
once a message that is gone is known to nobody: those it keeps (`Kept`), in their order
(`Nth`, of `Order`).

A profile is a sequence of commands with positive weights, which is what `weights`
returns (`ProfilesAssumption`). `Pick` walks it as `pick` does: `TotalUpTo` are the sums
its slot is compared with, the last of them `total`.

`d.seq` is kept modulo the length of the schedule it indexes, which is what makes
liveness checkable: the state space is finite without a bound on the run.

### Lmtp

`Deliver` as the walk through its commands, each sent, then read line by line
from a buffer. A line carries the command it answers, which the client cannot
see: `InStep` is about the difference. `Draw` is `nextRecipients` under its
atomic add, `Generate` the corpus generator's numbering under its mutex; they are
separate steps, as they are in the code. The list of recipients is any sequence: what
`expandRecipients` makes may name one twice. `used` counts for each entry of the list,
and `NamedOnce` compares a delivery's recipients with the list's own repetitions.

### CommandTimeout

A client of one driver over a clock that ticks. The four drivers differ in how long
they dial (`DialLimit`), in what they set once connected (`DialDeadline`) and in what
bounds a command (`CommandDeadline`); POP3 with TLS, `"pop3s"`, dials as IMAP does,
without the context. JMAP's connecting is part of its request. `RunClient` does not look
at the context between its dial and its first command: the greeting, LOGIN and that
command are `Opening`, and `LooksAtRun` is true behind them. `Tick` cannot pass the
moment something must happen, so a server accepts and answers within `Latency` unless it
is wedged.

### LiveTable

A line is modelled by what it adds to the sums a reader keeps, so "the table
agrees with the summary" is an equation. `LiveTick` is `tick`, `OnTicker` and `OnDone` are the two
branches of the `select`, `ExitProcess` is `main` going on without waiting.

### Pop3

A session is named by its value of `d.seq`. `Start` is `driver.Run` calling
`Session` while it has a client to spare; from there the command a session awaits is
its place in `Session`, and `Follow` the step to the next one: `Loop` is the head of
the retrieval loop, `AfterRetr` what follows a message. `ReadStatus` is `readStatus`
with `stat`'s parsing, `ReadBody` one line of `readMultiline`, `Break` a read that
fails. Every `return err` is `Fail`, which closes the connection and says nothing.

The server is external: it locks a maildrop at PASS, may refuse anything or answer
STAT with no number, removes messages at QUIT alone, and finds out late that a
client has gone (`Notice`), possibly after acting on its last command. A session
numbers the messages its maildrop held at PASS in the order of their arrival
(`Listings`). Mail arrives
whoever holds the lock. A line carries the command it answers, as in `Lmtp`.

### Jmap

`Begin` is `Iterate` up to its first request, `Discover` what follows the answer to
`discover`, `Answered` what follows the answer to `call`, `Again` the return to
`driver.Run`. A request carries the URL it is sent to and the account it names, both from
what the client has learnt, so where it goes can be compared with where the server has
its API. A server gives that place as a URL or as a path of the host its session resource
is at, and `ApiUrl` resolves it as `apiURL` does. `counted` is whether this
chain left an error in the collector: `discover` observes before it looks at the
body, `call` after it has looked at the methods, and the order is the point.
`accountID` takes the first key of a Go map where no account is primary, which is
any of them.

The server may lose a request, answer it with a status, name no endpoint or no
account, fail a method (and with it those that refer back to it), or be repaired for
good.

### Replay, Recipients and Launch

`MessagesOf` is `LoadMbox`'s loop with `add` and the unescaping, `Load` its two
refusals. `Deliver` is `body`: the message stuffed if it needs to be, the terminator
that depends on how it ends, and the server that takes octets until a line that is a
dot. An octet is one of six, which are all the code tells apart; "From " counts as one.
The reference (`FiledMessages`) reads the file by what it says instead: maximal runs of
lines that do not separate. Blank lines at the end of a message are not part of it in
either, for program and reference share `TrimRight` (`mbox.go` ends every message in one
line end): that such lines are not sent is not a claim `StoredAsFiled` could refute.

`Recipients` is `expandRecipients` with `splitCount` and `splitTrailingNumber`, over
integers that wrap at `IntSize`. The reference (`NamedBy`) is declarative: a part's
readings are all the ways to take it apart into prefix, number, domain and count.
Lists hold no white space, so `TrimSpace` (`main.go:377, 383`) has nothing to trim and is
left out.

`Launch` is `main`'s order: file, then recipients, then deliveries. An input either
reader refuses ends the program.

### StallWatch

`FindBackends`, `Poll`, `Open`, then a line at a time: `SkipStall` within the cooldown,
`CaptureStall` outside it, `ScanFails` at a line longer than the reader's buffer. A
capture is one `Save` per file and blocks the reader, which is what matters: lines wait
in the log while it lasts. The run, its log, the cluster's API and the signal are
external; a run may be over before the watch looks, and the log holds what was written up
to `SinceSeconds` before the API looked.

Each save has a time limit (`stallwatch.go:238`), and a request to the API has none
(`stallwatch.go:107-111`): while the watch is at `"start"`, `"poll"` or `"open"` time
passes, and its answer (`Answer`) comes at any moment or never. `opts.well` says of a run
of the model that all goes well in the cluster, which only fairness and `Terminates` look
at. What the watch does by itself is `Work`.

## 3. Runs

Runs that pass:

| Run | Instance | What it shows |
|---|---|---|
| `driver_contract` | 2 workers, up to 2 iterations, 2 commands a call, the four drivers and a JMAP whose sessions are all good, fairness | `Driver` implements `RunContract`, liveness included; the budget is exact, the end is a fault only where a connection carries the run's deadline, a stopped run fails, every command is counted, the verdict hears what was observed |
| `imap_client` | 1 client, 2 mailboxes, 4 profiles (the `-profile` help's among them), `-msgs` 2, window 2, 2 iterations, with and without `-duration`, refusals, 6 servers: silent, repeating, reporting in answer to APPEND, hollow | no false alarm, the client never counts less than there is, growth is bounded, the profile has its say again unless the mailbox is full of unflagged messages, a hollow server is found out, `-duration` ends the run |
| `imap_shared` | 2 clients of one mailbox, `-msgs` 1, `-duration`, nothing reported in answer to APPEND | the view is exactly what the session was told |
| `live_table` | 3 commands, 3 samples each, header every 2 lines | every line catches up under the right header |
| `timeout_ends` | 4 drivers, POP3 with and without TLS, `-timeout` 3, `-duration` 0 or 5, horizon 12 | no client waits, for a connection or an answer, longer than both `-timeout` and the run |
| `lmtp_deliver` | 2 clients, a list of 3 that names one of its 2 recipients twice, 2 or all per message, 2 deliveries, replies of 1 or 2 lines, refusals, drops | in step, no silent refusal, drawn evenly, nobody named more often than the list does |
| `pop3_sessions` | 2 sessions of one maildrop, one client or two, 2 messages and an arrival, `-retr` 0 to 2, with and without `-delete` and UIDL, refusals, drops | in step, nothing deleted unread, a failed session deletes nothing, a session that succeeds did all of it, one client does not contend with itself, every lock is released |
| `jmap_chain` | `-concurrency` 0 to 2, 2 users, 2 hosts and a path, batches of 1 to 3 methods, faults, bad sessions, a repair | a failed method fails its chain and is counted, requests go where the server has its API, a client recovers |
| `stall_watch` | 0 or 2 backends, cooldown 2, captures of up to 1 or 2, 3 lines, horizon 4, an API that may never answer | captures that fit the cooldown are fresh and cover the stalls passed over once the log is open, every file is tried, the watch ends when told to, or by itself where all goes well |
| `launch` | every file of up to 5 octets with lines of up to 3, every list of up to 6 characters, integers of 10 bits, one delivery past the end of the file | stored as filed, refused exactly when it must be, expanded as named |

Why the bounds are enough:

- *two workers* are what every race of the harness needs: one that ends the run
  and one in the middle of each step. The proofs cover every other number.
- `MaxIterations = 2` includes 0 (unlimited), fewer iterations than workers and
  as many. `MaxCommands = 2` has a call that fails after a success. `MaxClaims`
  bounds only runs without `-iterations`; a worker there waits at the loop's head
  for the deadline.
- *IMAP*: `-msgs` 2 with a window of 2 has every regime of the steady state,
  below, inside and above, and ranges shorter and longer than the mailbox. The
  shared run uses `-msgs` 1, which makes two clients collide at once; it stops
  at no bound, for `seq` is cyclic and the steady state bounds the mailbox.
- *LMTP*: a list of three and two per message make the walk wrap in the middle
  of a delivery; five per message exceeds the list, whose first and last entries name one
  recipient. Two-line replies tell a
  reader of lines from a reader of replies.
- *clock*: a horizon of 12 is four times `-timeout`, twice `-duration`, and past the two
  `-timeout`s that IMAP may go on after the run's end.
- *POP3*: two sessions are one predecessor and one successor, at once or in turn,
  which is all a lock can tell apart; two messages, one arriving and `-retr` up to 2
  have the loop end at its limit, at the last message and before the first. With
  deletions the second session finds a smaller maildrop.
- *JMAP*: two clients of two users tell "its own user" from "a user"; three methods
  have a first, a last and one between; of two hosts one is the session's own, where alone a
  path leads.
- *replay*: five octets hold an escaped separator between two messages, a lone dot at
  the start or in the middle, a line too long by its CRLF alone, a bare LF and a bare
  CR. One delivery past the end is the wrap of `Next`.
- *recipients*: `u1@:11`, two parts, empty parts, a count of three digits next to
  `IntSize` 512; a sum that wraps is excluded by `Fits` and shown by hand.
- *stall-watch*: cooldown 2 with captures of 1 and of 2 is both sides of the one
  relation that matters. Three lines are a capture, one passed over and one after. A
  horizon of 4 has the wait for the run (2), and a run whose log was opened at once.

Runs that find what the code does to contradict what the repository says of it.
Each checks one property and is a finding in `PROJECT.json`, with the line it
contradicts:

| Run | Counterexample |
|---|---|
| `driver_mismatch` (`RecordedErrorFails`) | a worker's error is recorded while the run is live, and the verdict is "pass": the error was returned but never observed (`imapdrv/driver.go:312` against `README.md:35`) |
| `imap_false_alarm` (`HonestNeverAccused`) | A appends; B flags and expunges the message before A's session has heard of it, so no EXPUNGE is owed to A; A's next EXISTS is below its floor and the server is accused (`session.go:76` against `session.go:70-74`) |

`RecordedErrorFails` is `FailureReachesVerdict` without its exception for errors never
observed, and `HonestNeverAccused` is `NoFalseAlarm` without its condition on reports.

The other configurations hold a witness each and are run by hand
(`tlc -config X.cfg M`). Each ends in a counterexample, and a finding in `PROJECT.json`
names it:

| Configuration | Module | Property | Counterexample |
|---|---|---|---|
| `driver_deadline` | `MCDriver` | `NoWindow` | the connection's deadline passes before the context's timer has fired: the tool's own cut-off is filed as an error of a clean run, though `stats.go:63-66` calls the decision race-free (LMTP, POP3) |
| `driver_doubled` | `MCDriver` | `OneSampleEach` | a SELECT of the profile is observed before it is sent and again when it is answered (`imapdrv/driver.go:264` against its own comment, "counted inside doSelect") |
| `imap_append_report` | `MCImapSession` | `HonestNeverAccused` | one client, and a server that reports EXISTS in answer to APPEND: `appendMessage` discards it, the message is still counted as unreported when it is expunged, and the next EXISTS is below the floor (`client.go:200` against `session.go:70-74`) |
| `imap_iterations` | `MCImapSession` | `RunEnds` | a run bounded by `-iterations` alone: the first session of a client is one iteration and never ends (`imapdrv/driver.go:142` against `main.go:39`) |
| `imap_expunge_forever` | `MCImapSession` | `SteadyState` | under the README's own profile the mailbox passes twice `-msgs`, and the client sends EXPUNGE for ever: nothing was flagged, and nothing else is sent any more (`imapdrv/driver.go:220` against `README.md:99-100`) |
| `imap_stale_range` | `MCImapSession` | `NoStaleRange` | a server that reports expunges in answer to APPEND: `appendMessage` discards them, and the next range names a message the session no longer has |
| `timeout_imap` | `CommandTimeout` | `FullTimeoutGiven` | a healthy server and a session older than `-timeout`: the next command is cut off (`client.go:53` against `main.go:42`) |
| `timeout_lmtp` | `CommandTimeout` | `WedgeBounded` | with `-duration`, a wedged server holds an LMTP command past `-timeout`, until the run ends (`lmtp.go:32-34`) |
| `live_exit` | `MCLiveTable` | `TableAgreesAtExit` | the process exits before the goroutine has printed its last line (`live.go:52-53`) |
| `lmtp_corpus` | `MCLmtp` | `CorpusIsSeeded` | two clients draw in one order and generate in the other: one seed, two corpora (`README.md:74-77`) |
| `pop3_contention` | `MCPop3` | `NoSelfContention` | three sessions, two users, two clients: the third session returns to the first user while the first session is still open, and is refused (`pop3.go:87` against `README.md:170-174`) |
| `jmap_short` | `MCJmap` | `EveryMethodAnswered` | a batch answered in part passes: the answers there are are looked at, never counted (`jmap.go:313` against `jmap.go:300-304`) |
| `jmap_panic` | `MCJmap` | `NeverPanics` | `-concurrency 0`: `driver.Run` raises it to one, the list of clients stays empty, and `id % 0` panics (`main.go:291`) |
| `stall_stale` | `StallWatch` | `FreshSinceOpened` | a capture as long as the cooldown: the line that waited behind it is captured at once, as late as it is old (`stallwatch.go:328` against `stallwatch.go:9-12`) |
| `stall_replay` | `StallWatch` | `FreshEvidence` | a stall from before the log was opened, up to an hour old, is captured as if it were new (`stallwatch.go:312`) |
| `stall_absent` | `StallWatch` | `AbsentWithoutPprof` | with pprof off the error page is saved under the name of the dump (`stallwatch.go:258` against `README.md:255-257`) |
| `stall_never` | `StallWatch` | `NeverMeansNever` | a run that started and failed between two looks is reported as never started (`stallwatch.go:221`) |
| `launch_overflow` | `Launch` | `ExpandsAnyNumber` | a count too large for an integer wraps, and the run goes to other addresses than its list names (`main.go:445` against `expand_test.go:43-44`) |

Observations made on the way that no run states:

- three clients of one mailbox whose profile only reads overshoot twice `-msgs`
  too, each appending before it is told of the others' messages, and then expunge
  for ever;
- the SELECT that opens a session takes the number of a slot of the profile, and one
  the profile asks for takes two, so the slots they use are skipped: the proportions of a
  run are not quite those of its weights;
- in an empty mailbox a range is `1:1`, which names no message;
- `-mbox` is not consulted by the IMAP driver, which is handed the file and generates
  its mail (`main.go:310`, against `main.go:60` and `README.md:371`);
- a hollow server that never states EXISTS is not found out: `HollowFoundOut` is about
  one that repeats it in every answer;
- a refusal that arrives just before the end and is observed just after is filed
  as cancelled. The contract allows it: the books say nothing false of the server.

## 4. Fairness

- `Driver`: each worker that can step does. The code justifies it where a command
  is in flight by the deadline every connection and request carries
  (`timeout_ends` shows the deadlines do end it), and elsewhere by the Go
  scheduler. Time passes and timers fire. No signal is obliged to arrive. A weak
  fairness per worker is enough: no step of another worker disables one's own.
- `ImapSession`: each client steps, for each command is answered; `EndRun` happens
  if there is a `-duration`. The server has no steps of its own.
- `RunContract`: a verdict is reached; nothing else is promised to happen.
- `Pop3`: sessions start and step, for a read ends at the latest with the deadline of
  its connection (`Break`), whether the server answers or not; and a server finds out
  about a closed connection. It need not answer.
- `Jmap`: a request is answered or ended by the time limit of the client, which the
  model takes for a step of the server; workers are scheduled. Nobody need repair the
  server: `Recovers` speaks of what happens if it is.
- `StallWatch`: time passes, and the watch does its own work, for each file of a capture
  has a time limit. What it asks of the API need never be answered, for such requests have
  none; only a context that is done ends them. That the API answers, that a run once
  scheduled ends and that its log ends with it is assumed of a cluster where all goes
  well (`opts.well`), and `Terminates` says of the others only that the watch ends when it
  is told to. No run need be scheduled: that is what the ten minutes are for. No stream
  need break and no signal need come.
- `Lmtp`, `LiveTable`, `CommandTimeout` and `Launch` are checked for safety only.

Deadlock is checked in every run: a finished run stutters in a named action, so
any other stop is an error.

## 5. Proofs

Each theorem holds for every value of the constants that the assumptions of its
module allow: at least one worker or session, bounds that are naturals, lists of
users and recipients that are not empty, a cooldown and a polling period that are not
zero, profiles whose weights are positive. What a property excepts, it says itself: the
run's deadline on a connection in `EndIsNotAFault` and `CleanRunPasses`, reports in answer
to APPEND in those of `ImapSession`, a long capture and the log of before in those of
`StallWatch`, numbers beyond an integer in `ExpandsAsNamed`. The last column is what a theorem assumes
beyond that.

| Module | Theorem | Statement | Assumes |
|---|---|---|---|
| `DriverProofs` | `TypeCorrect` | `Safety => []TypeOK` | |
| | `EndNotCounted` | `Safety => []EndIsNotAFault` | |
| | `VerdictHearsFailures` | `Safety => []FailureReachesVerdict` | |
| | `StopIsHeard` | `Safety => []StopSurfaces` | |
| | `NoFalseAlarm` | `Safety => []CleanRunPasses` | |
| | `BudgetExact` | `Safety => []IterationBudget` | |
| | `BooksBalance` | `Safety => []EveryCommandCounted` | |
| | `Implements` | the safety part of `RunContract` | |
| `RunEndProofs` | `LiveTypeCorrect` | `LiveSpec => []LiveTypeOK` | |
| | `EveryLineCatchesUp` | `LiveSpec => LineCatchesUp` | |
| | `HeaderTrue` | `LiveSpec => []HeaderNamesColumns` | |
| | `LastLineComplete` | `LiveSpec => []LastLinePrinted` | |
| | `TypeCorrect` | `Spec => []TypeOK` | |
| | `NoWedgeForEver` | `Spec => []WedgeEnds` | |
| | `RunNotHeld` | `Spec => []EndsSoonAfterRun` | |
| `LmtpProofs` | `TypeCorrect` | `Spec => []TypeOK` | |
| | `StaysInStep` | `Spec => []InStep` | |
| | `NoRefusalLost` | `Spec => []NoSilentRefusal` | |
| | `EvenlyDrawn` | `Spec => []DrawnEvenly` | |
| | `NobodyTwice` | `Spec => []NamedOnce` | |
| `Pop3Proofs` | `TypeCorrect` | `Spec => []TypeOK` | |
| | `StaysInStep` | `Spec => []InStep` | |
| | `NothingDeletedUnread` | `Spec => []NothingLost` | |
| | `FailureDeletesNothing` | `Spec => []FailureKeepsMail` | |
| | `SuccessIsComplete` | `Spec => []SessionComplete` | |
| | `AloneIsUncontended` | `Spec => []SoloUncontended` | |
| `JmapProofs` | `TypeCorrect` | `Spec => []TypeOK` | |
| | `FailuresFail` | `Spec => []MethodFailureIsError` | the server answers every method of a batch |
| | `FailuresCounted` | `Spec => []FailureIsObserved` | |
| | `RightAccount` | `Spec => []RequestsAsDiscovered` | |
| | `NoSecondDiscovery` | `Spec => DiscoveredOnce` | |
| `StallWatchProofs` | `TypeCorrect` | `Spec => []TypeOK` | |
| | `FreshEvidenceWhenBrief` | `Spec => []FreshWhenBrief` | |
| | `SkippedCovered` | `Spec => []SkippedIsCovered` | |
| | `FilesAllTried` | `Spec => []EveryFileTried` | |
| | `FirstStallCaptured` | `Spec => []FirstCaptured` | |
| `ImapSessionProofs` | `TypeCorrect` | `Spec => []TypeOK` | |
| | `ViewsAreSessions` | `Spec => []ViewIsSession` | |
| | `RangesAreFresh` | `Spec => [](~server.reports => NoStaleRange)` | |
| | `HonestNotAccused` | `Spec => []NoFalseAlarm` | one client |
| | `HeldTruly` | `Spec => []HeldIsReal` | one client |
| | `GrowthIsBounded` | `Spec => []GrowthBounded` | one client |
| | `SharesAreWeights` | of the numbers below the sum of a profile's weights, a command listed once is picked by as many as its weight | |
| `LaunchProofs` | `SentAsFiled` | `Spec => []StoredAsFiled` | |
| | `LoadsWhatIsSendable` | `Spec => []LoadsWhatCanBeSent` | |
| | `ExpandsWhatIsNamed` | `Spec => []ExpandsAsNamed` | |
| | `ReplayTypeCorrect` | `Spec => []TypeOK` | |
| | `LoadsAll` | `MessagesOf`, of any octets, is the messages they hold | |
| | `WireTransparent` | what a server takes off the wire is the message, and nothing is left over | the message is one the loader makes |
| | `PartsAre` | `Parts(list) = PartsOf(list)`, for lists over any alphabet | |
| | `OneReading` | a part has one reading at most | |
| | `ListAgrees` | what the program makes of a list is what it says | its numbers fit an integer |

Most of these exceptions and assumptions are shown to be needed by a configuration that
goes without: `driver_deadline`, `jmap_short`, `imap_append_report` and
`imap_stale_range`, `imap_false_alarm` (a second client), `stall_stale`, `stall_replay`,
`launch_overflow`. That a recipient list holds no white space, and that a message is
taken without the blank lines at its end, are conveniences of the model.

`DiscoveredOnce`, `EndsSoonAfterRun` and `FirstCaptured` are proved and in no run that
passes, nor is `NoStaleRange`, whose only configuration is the one that violates it,
nor `SharesAreWeights`, which is about a function, nor the last five of `LaunchProofs`, which are about the
algorithms that the three before them need. So is the type invariant of each of
these modules, which the runs therefore do not repeat, `ImapSession`'s excepted.
Every invariant that a passing run checks is the statement of a theorem.

No property is inductive alone, and each module's proof is the search for what
makes it so.

*Driver.* A verdict depends on what was in the collector, which depends on what a
worker was about to report, which depends on whether the run had ended when its
command did. The strengthening follows that chain, one named part per link:

- `OutcomeOK`: a command that ended late or was cut belongs to a run that is over, or to
  a connection whose deadline, the run's, has passed (`DeadlineCuts`); with `EndIsFinal`
  (the context never becomes live again) and `DeadlineIsFinal` it holds until the worker
  observes it. `ErrorsOK` follows: nothing else is filed as an error but a live failure.
- `PendingOK` and `RecordedOK`: a worker that reports has an outcome; and if its
  driver observes what it returns, a worker at "failed" has an error in the books or
  belongs to a run that is over. Past the second look at the context only the first is
  left, and `ErrorsGrow` keeps it so.
- `StopOK`: only a recorded error stops a run, which makes `StopSurfaces`
  independent of what was observed.
- `BudgetOK`: the budget is never overdrawn, and a worker of a live run is done
  only when it is spent.
- `CountOK`: commands issued, and those observed ahead, are those in the books and those
  between sending and observing; counting the latter needs the cardinality of a set of workers that
  gains and loses one element at a time.
- `ExitOK`: the status is the gate's and every worker is done.

`Implements` maps each step: `Observe` to `Fault`, `CutOff` or a stutter,
`FireDeadline`, `Signal` and `Stop` to `End`, `Finish` to `Judge`. That `Judge`
looks only at the errors while `Finish` also looks at the returned error is where
`RecordedOK` is used.

*Live table.* The counts kept for the next line are the sums of the lines printed
(`SumsAreCopies`) and never ahead of the collector (`NeverAhead`), so what a line
adds is what was missing. It returns only when the workers no longer observe
(`ReturnsLate`), so nothing is missing from its last line.

*Deadlines.* The four drivers differ, and every one of their deadlines is limited:
`-timeout` from when it was set, or the end of the run if there is one (`Limited`). What a
command waits for is a deadline set when it was sent or before (`WaitOK`). A dial begins
before the end of the run (`DialOK`), so one that does not heed it ends no later than one
`-timeout` after it; the deadline an IMAP client then sets is a second, and no command sent
behind its look at the context has more (`OpenOK`). That sum is `Overrun`.

*LMTP.* To stay in step is to count: the replies a client has yet to read are those
the server owes and those that have ended in the buffer (`CountOK`), all of the
command awaited (`Talk`). A refusal is still in the buffer or has ended the delivery
(`RefusedOK`). That recipients are drawn evenly is division: after so many draws the
walk has been round so many whole times and is at one place of the next turn
(`WalkOK`), whatever the order in which the clients drew. As many consecutive entries as
the list is long, or fewer, are different entries, so a delivery mentions a recipient no
more often than the list does.

*POP3.* Two parts for each session. `Talk`: one command is under way, or lines of its
reply of which only the last can end it. `Work`: what a session has done to its
maildrop depends on the command it is at and not on how that command ends. The
messages above the one its loop is at are retrieved (`DoneAbove`) and, with
`-delete`, marked (`Doomed`). So the invariant stands when a session fails and the
server, which has not noticed, goes on. A QUIT removes what is marked, at most once:
the set removed is empty before, and exactly these after.

A client alone does not contend with itself because its sessions follow one another
(`Alone`), and one that succeeded gave its lock back before it was over (`HeldRightly`):
a lock that is found is the lock of a session that failed.

*JMAP.* A client looks at an answer one step after the server gave it, so the
invariant says what an answer not looked at may be (`AnswerOK`, `HonestOK`), what the
client has learnt from those before (`LearntOK`), and what a request in flight
carries (`CarriesOK`); that what a session names resolves to where the API is, path or
URL, is `Resolved`. `FailedOK`, a method that failed is in the answer, is the one
part that needs the assumption.

*stall-watch.* Evidence is stale when the line it answers has waited. While the watch
reads, time stands still until the log is read to its end, so only a capture makes a
line wait. `UnreadOK` says which lines wait behind it: no older than its start and, as a
capture fits the cooldown, still inside it when the watch reads again. So such a line is
passed over, never captured late, and the capture it waited for is its evidence
(`CoveredOK`). That the first stall read is the first captured is about the prefix of
the log that has been read (`HeadOK`), and needs the log to be in the order of time.

*IMAP.* A view is a number and a mailbox a sequence of messages with the sessions that
know of each, so the argument counts. `Session` says that a client's EXISTS is the number
of messages its session knows in the mailbox it has open, and that it knows none of any
other. To keep it, each operation of the server has a lemma of what it does to that number:
`Report` tells a session of everything and shows it what went, `Forget` has it know
nothing, `Tidy` drops what nobody knows and renumbers the rest. The last is a
bijection between the messages kept and their new numbers. A step of one client leaves
alone what another knows (`Spares`), and so the theorem is for any number of them. A
range that ends at EXISTS then names only messages the session has.

With one client three facts follow that do not hold of two. Nothing expunged remains in a
mailbox, for nobody else has to be told. What the client does not know of was not
flagged, for it alone flags, and by the numbers it knows. And what it takes the mailbox
to hold, EXISTS and its own appends since, is never less than the length of the mailbox,
and is that length if the server reports nothing in answer to APPEND (`Sound`). With such
a server an EXISTS below the client's floor is not something an honest one says. The bound
on growth needs the first half only, and so is of every server: `step` chooses APPEND, or lets the profile do so, only as
long as the client counts no more than twice `-msgs` (`Bounded`).

`SharesAreWeights` is about the function `pick`: the slots that choose a command are those
from the sum of the weights before it up to the sum with its own, and no others, for the
sums increase. The sums are a recursive function of the position; that they exist and
increase is by way of the least position at which they would not.

*Replay.* Two descriptions of the same file meet. The program reads it once, octet by
octet and line by line; the reference points into it, at the maximal runs of lines
between separators. `LaunchInv` says little, that what is loaded is `MessagesOf(file)`
and that delivery *k* stored message *k* modulo their number. The work is in two facts
about functions of the file.

`LoadsAll`: after *i* lines the loop has done the runs that ended before *i* and holds,
unescaped, the one that reaches it. Runs are counted in order (`Order`), so a line that
starts one is that of the next number. Line by line, what the loop keeps differs from
what the file says (`Original`) only in a carriage return that `add` supplies. That `add`
looks at octets and `Original` at lines is reconciled by a line ending at its LF and
nowhere else, and trimming either gives the same text.

`WireTransparent`: stuffing doubles each dot behind an LF; the server drops a dot behind a
CRLF. They agree because a loaded message has no LF without its CR (`Clean`), which is
what the loader's own normalisation is for. A dot that starts a line of the wire is
therefore followed by a dot (`Doubled`), never by CR, so the data ends at the terminator
and nowhere before; and the message ends in CRLF, so the terminator is found. The
invariant of that argument, `Carries`, is one of prefixes of a message.

*Recipients.* `Expanded` finds its way by the last colon, the first @ and the longest
numeral; the reference asks for any place to cut that makes sense. `PartsAre`: a part of
a list is between two commas, and taking it by its end, as the program does, or by its
start, as the reference does, puts the parts in one order. `OneReading`: what is behind
the colon is digits, so no later colon exists, what is before the @ has no @, and the
prefix ends in what is no digit; all three places are settled. `ListAgrees` then compares
numbers: a numeral denotes a natural, the sum that starts a run and its count stays
below `IntSize`, and below it `Wrapped` is the identity. A number is zero or begins with
zero where the reference only looks at its first digit: that a numeral of value zero
begins with one is the part of the refusal that has to be proved. `NamedInv` says of the
launch that what was read is what the list expands to.

Both rest on induction over a position in a sequence, for which the prover has no rule
it can apply. It is had from `LeastNumber`, that a set of naturals has a least member:
the least position at which a claim fails is not the first, and it held one before. That
a recursive function on positions exists, so that its equations may be used, is shown in
the same way (`Iteration`).

Model-checked only:

- the liveness half of `ContractSpec` and every other liveness property: fairness and
  ENABLED are outside what the prover handles;
- that the digits of a printed number are what `Numeral` says: it is defined on all the
  integers and prints a negative one by way of its absolute value, so its equations need
  an induction that is not on the naturals. Nothing proved depends on it, because program
  and reference print with the same operator, as the program and its users do with
  `Sprintf`. For that reason the part of `LaunchTypeOK` that says which characters an
  address is made of has no theorem either;
- what the configurations that expect a violation show, which is that something is *not*
  so.

## 6. Not modelled

| Part | Why |
|---|---|
| `Prepare`, TLS, literals, LOGIN of the IMAP driver | I/O whose failures are the same `return` as a refused connection |
| percentiles, text and JSON renderings | pure functions of the samples |
| message bodies, headers, random sizes | data no property tells apart |
| what a JMAP query asks for | data; the server of the model answers any |
| flag parsing, environment variables and file names of stall-watch | no state |
| toolchain test | compares strings in build files |

The hazards that no passing run covers are listed with their reason in
`PROJECT.json`. Most are findings: a property the code does not have is stated by a
configuration of its own, and only its being violated can be checked.

## 7. What is left

1. The liveness of `Driver`, `Pop3` and `Jmap` for more processes than TLC can follow.
2. The typing of `Launch`'s recipients, which needs the digits of a number.
3. The parts of section 6, of which `Prepare` of the IMAP driver is the nearest to the
   model: it fills the mailboxes that `ImapSession` finds.

## 8. Running it

    tlc -config driver_contract.cfg MCDriver
    tlc -config timeout_ends.cfg CommandTimeout
    tlapm LmtpProofs.tla
    tlapm LaunchProofs.tla      # some minutes the first time

`PROJECT.json` names the module of each configuration. Every property has a
mutant there: an operator of the model, changed the way a plausible bug would
change it, under which the same run must fail.

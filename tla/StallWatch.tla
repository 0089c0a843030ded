----------------------------- MODULE StallWatch -----------------------------
(***************************************************************************)
(* stall-watch: it finds the backends and the pod of the run to watch,     *)
(* follows the run's log, and at a line that reports a stall captures      *)
(* evidence from every backend, one file after the other, reading no line  *)
(* meanwhile.                                                              *)
(*                                                                         *)
(* Time is discrete.  The watched run, its log and the cluster are         *)
(* external: the run is scheduled at any time or never, and writes lines   *)
(* while it is running.  A request to the cluster's API has no time limit: *)
(* it is answered at once, or fails, or takes as long as it likes, if need *)
(* be for ever.  What it answers is of that moment, and a line of a log    *)
(* that is followed arrives as it is written.  A line that reports nothing *)
(* is skipped in the code and left out here.  The clock starts when the    *)
(* backends are known.                                                     *)
(***************************************************************************)
EXTENDS Integers, Sequences, FiniteSets, Functions

CONSTANTS
  BackendNums,  \* the numbers of backends with an address considered
  Pprofs,       \* whether pprof is on in the backends: the values considered
  Cooldown,     \* COOLDOWN, at least one
  Longest,      \* bounds considered on how long a capture takes
  PollPeriod, PollDeadline,
  SinceSeconds, \* how far back the log is asked for
  MaxLines,     \* bound: lines the run writes
  Horizon       \* bound: the clock stops here

ASSUME TimeAssumption ==
  /\ Cooldown \in Nat \ {0} /\ PollPeriod \in Nat \ {0}
  /\ {PollDeadline, SinceSeconds, MaxLines, Horizon} \subseteq Nat
  /\ PollDeadline + PollPeriod <= Horizon
  /\ Longest \subseteq Nat /\ BackendNums \subseteq Nat /\ Pprofs \subseteq BOOLEAN

VARIABLES
  opts,      \* how many backends there are, whether pprof is on in them, and
             \*   how long a capture may take; and whether all goes well in the
             \*   cluster, which Fairness explains
  now,
  phase,     \* of the watched pod
  log,       \* the lines that count, in order: kind and time
  cancelled, \* ctx is done
  pc,        \* where the watch is
  pollAt,    \* when the API was last asked, or will be asked next
  opened,    \* when the log was opened
  next,      \* the next line to read
  last, hits,
  file,      \* the next file of the capture under way
  captures,  \* history: for each capture its line, its start and the files tried
  skipped,   \* history: stall lines read and not captured
  errorPage  \* history: some file holds an error page

target == <<phase, log>>
progress == <<pollAt, opened, next>>
stalls == <<last, hits, skipped>>
vars == <<opts, now, target, cancelled, pc, progress, stalls, file, captures, errorPage>>

Over == {"ended", "failed", "never"}
PerBackend == <<"goroutine", "metrics", "cpu.stat">>
Pprof == {"goroutine", "profile"}

(* capture's files: three of each backend, and a profile of the first.     *)
FileCount == Len(PerBackend) * opts.backends + 1
Kind(i) == IF i = FileCount THEN "profile" ELSE PerBackend[((i - 1) % 3) + 1]

Init ==
  /\ opts \in [backends : BackendNums, pprof : Pprofs, longest : Longest, well : BOOLEAN]
  /\ now = 0
  /\ phase = "none"
  /\ log = <<>>
  /\ cancelled = FALSE
  /\ pc = "start"
  /\ pollAt = 0
  /\ opened = 0
  /\ next = 1
  /\ last = -Cooldown
  /\ hits = 0
  /\ file = 1
  /\ captures = <<>>
  /\ skipped = {}
  /\ errorPage = FALSE

-----------------------------------------------------------------------------
(* The cluster. *)

RunStep ==
  /\ \/ phase = "none" /\ phase' = "Pending"
     \/ phase = "Pending" /\ phase' = "Running"
     \/ phase = "Running" /\ phase' \in {"Succeeded", "Failed"}
  /\ UNCHANGED <<opts, now, log, cancelled, pc, progress, stalls, file, captures, errorPage>>

(* A huge line is longer than the reader's buffer may grow; no line behind *)
(* one is ever read, so none is written.                                   *)
Write ==
  /\ phase = "Running" /\ Len(log) < MaxLines
  /\ \A i \in DOMAIN log : log[i].kind # "huge"
  /\ \E kind \in {"stall", "huge"} : log' = Append(log, [kind |-> kind, at |-> now])
  /\ UNCHANGED <<opts, now, phase, cancelled, pc, progress, stalls, file, captures, errorPage>>

Cancel ==
  /\ ~cancelled
  /\ cancelled' = TRUE
  /\ UNCHANGED <<opts, now, target, pc, progress, stalls, file, captures, errorPage>>

Unread == next <= Len(log)
Began == captures[Len(captures)].start

(* Time passes, unless the watch has something to do now; a request to the *)
(* API is nothing it can do.                                               *)
Tick ==
  /\ now < Horizon
  /\ pc # "start"
  /\ pc = "read" => ~Unread
  /\ pc = "capture" => now < Began + opts.longest
  /\ now' = now + 1
  /\ UNCHANGED <<opts, target, cancelled, pc, progress, stalls, file, captures, errorPage>>

-----------------------------------------------------------------------------
(* The watch. *)

(* The answer to the list of backends. *)
FindBackends ==
  /\ pc = "start"
  /\ \/ pc' = "failed"
     \/ opts.backends > 0 /\ ~cancelled /\ pc' = "poll"
  /\ UNCHANGED <<opts, now, target, cancelled, progress, stalls, file, captures, errorPage>>

PollUntil(deadline) ==
  /\ pc = "poll" /\ now >= pollAt /\ ~cancelled
  /\ \/ /\ phase \in {"Running", "Succeeded"}
        /\ pc' = "open"
        /\ pollAt' = now
     \/ /\ phase \notin {"Running", "Succeeded"}
        /\ pc' = IF now > deadline THEN "never" ELSE "poll"
        /\ pollAt' = now + PollPeriod
  /\ UNCHANGED <<opts, now, target, cancelled, opened, next, stalls, file, captures, errorPage>>

(* The wait for a run that is never scheduled, without its deadline.       *)
PollForEver == PollUntil(Horizon)

(* One turn of targetPod's loop: an answer to what was asked at pollAt.    *)
Poll == PollUntil(PollDeadline)

PollFails ==
  /\ pc = "poll"
  /\ cancelled \/ now >= pollAt
  /\ pc' = "failed"
  /\ UNCHANGED <<opts, now, target, cancelled, progress, stalls, file, captures, errorPage>>

InReach(i, t) == log[i].at >= t - SinceSeconds

OpenWith(stalled) ==
  /\ pc = "open" /\ ~cancelled
  /\ pc' = "read"
  /\ opened' = now
  /\ \E asked \in pollAt .. now :
       next' = 1 + Cardinality({i \in DOMAIN log : ~InReach(i, asked)})
  /\ last' = stalled
  /\ UNCHANGED <<opts, now, target, cancelled, pollAt, hits, skipped, file, captures, errorPage>>

(* A watch that starts in its cooldown. *)
OpenCoolingDown == OpenWith(now)

(* The log from SinceSeconds before the API looked, and whatever is added. *)
Open == OpenWith(last)

OpenFails ==
  /\ pc = "open"
  /\ pc' = "failed"
  /\ UNCHANGED <<opts, now, target, cancelled, progress, stalls, file, captures, errorPage>>

Scan(kind) ==
  /\ pc = "read" /\ Unread /\ log[next].kind = kind
  /\ next' = next + 1

Cooling == now - last < Cooldown

Skip(stalled) ==
  /\ Scan("stall") /\ Cooling
  /\ hits' = hits + 1
  /\ skipped' = skipped \cup {next}
  /\ last' = stalled
  /\ UNCHANGED <<opts, now, target, cancelled, pc, pollAt, opened, file, captures, errorPage>>

(* Every stall line starting the cooldown again. *)
SkipExtending == Skip(now)

(* A stall line within the cooldown: seen, and nothing more. *)
SkipStall == Skip(last)

CaptureFrom(stalled) ==
  /\ Scan("stall") /\ ~Cooling
  /\ hits' = hits + 1
  /\ last' = stalled
  /\ file' = 1
  /\ captures' = Append(captures, [line |-> next, start |-> now, tried |-> 0])
  /\ pc' = "capture"
  /\ UNCHANGED <<opts, now, target, cancelled, pollAt, opened, skipped, errorPage>>

(* A capture that does not start a cooldown. *)
CaptureUnlimited == CaptureFrom(last)

CaptureStall == CaptureFrom(now)

Results == {"nothing", "part", "error page", "evidence"}

(* What save may leave: nothing, the beginning of an answer, or all of it, *)
(* whatever its status; cpuStat copies a file or leaves nothing.           *)
Left(kind) ==
  IF kind = "cpu.stat" THEN {"nothing", "evidence"}
  ELSE {"nothing", "part"} \cup
       IF cancelled THEN {}
       ELSE IF kind \in Pprof /\ ~opts.pprof THEN {"error page"} ELSE {"evidence"}

(* A file that is left as one of goOn lets the capture go on to the next.  *)
SaveWhile(goOn) ==
  /\ pc = "capture"
  /\ captures' = [captures EXCEPT ![Len(captures)].tried = file]
  /\ \E left \in Left(Kind(file)) :
       /\ errorPage' = (errorPage \/ left = "error page")
       /\ IF file < FileCount /\ left \in goOn
          THEN file' = file + 1 /\ UNCHANGED pc
          ELSE pc' = "read" /\ UNCHANGED file
  /\ UNCHANGED <<opts, now, target, cancelled, progress, stalls>>

(* A capture given up at the first file it could not get. *)
SaveUntilFailure == SaveWhile(Results \ {"nothing"})

Save == SaveWhile(Results)

(* The reader's buffer may not hold the line. *)
ScanFails ==
  /\ Scan("huge")
  /\ pc' = "failed"
  /\ UNCHANGED <<opts, now, target, cancelled, pollAt, opened, stalls, file, captures, errorPage>>

(* The log ends with its pod, and the stream with its context; or it is    *)
(* lost.                                                                   *)
End ==
  /\ pc = "read"
  /\ \/ ~Unread /\ phase \in {"Succeeded", "Failed"} /\ pc' = "ended"
     \/ pc' = "failed"
  /\ UNCHANGED <<opts, now, target, cancelled, progress, stalls, file, captures, errorPage>>

(* What waits for an answer of the API, and what the watch does by itself. *)
Answer == FindBackends \/ Poll \/ PollFails \/ Open \/ OpenFails

Work == SkipStall \/ CaptureStall \/ Save \/ ScanFails

Finished == pc \in Over /\ UNCHANGED vars

(* Once the watch is over, what goes on is not its concern. *)
Cluster == pc \notin Over /\ (RunStep \/ Write \/ Cancel \/ Tick)

Next == Cluster \/ Answer \/ Work \/ End \/ Finished

(***************************************************************************)
(* Time passes; the watch does its own work, for a file of a capture has a *)
(* time limit; and ctx ends every request and the stream.  Nothing else is *)
(* certain.  In a cluster where all goes well, and in no other, the API    *)
(* answers, a run that was scheduled ends, and its log with it.  No run    *)
(* need ever be scheduled, no signal need come and no stream need break.   *)
(***************************************************************************)
Fairness ==
  /\ WF_vars(pc \notin Over /\ Tick) /\ WF_vars(Work)
  /\ WF_vars((cancelled \/ opts.well) /\ Answer)
  /\ WF_vars((cancelled \/ (opts.well /\ phase \in {"Succeeded", "Failed"})) /\ End)
  /\ WF_vars(opts.well /\ pc \notin Over /\ phase \in {"Pending", "Running"} /\ RunStep)

Spec == Init /\ [][Next]_vars /\ Fairness

-----------------------------------------------------------------------------
(* Properties. *)

TypeOK ==
  /\ opts \in [backends : BackendNums, pprof : Pprofs, longest : Longest, well : BOOLEAN]
  /\ now \in 0 .. Horizon
  /\ phase \in {"none", "Pending", "Running", "Succeeded", "Failed"}
  /\ log \in Seq([kind : {"stall", "huge"}, at : 0 .. now])
  /\ cancelled \in BOOLEAN
  /\ pc \in {"start", "poll", "open", "read", "capture"} \cup Over
  /\ pollAt \in 0 .. Horizon + PollPeriod
  /\ opened \in 0 .. now
  /\ next \in 1 .. Len(log) + 1
  /\ last \in {-Cooldown} \cup 0 .. now
  /\ hits \in 0 .. Len(log)
  /\ file \in 1 .. FileCount
  /\ captures \in Seq([line : 1 .. Len(log), start : 0 .. now, tried : 0 .. FileCount])
  /\ skipped \subseteq 1 .. Len(log)
  /\ errorPage \in BOOLEAN

Captures == Range(captures)

Brief == opts.longest < Cooldown
Fresh(c) == c.start = log[c.line].at

(* Whatever a capture takes, it starts when its line is written, if the    *)
(* run was followed by then.                                               *)
FreshSinceOpened == \A c \in Captures : log[c.line].at >= opened => Fresh(c)

(* The watch captures at the moment a stall is reported, on two conditions:*)
(* no capture outlasts the cooldown, and the line was written after the    *)
(* log was opened, not in the hour before that the log is asked for too.   *)
FreshWhenBrief == Brief => FreshSinceOpened

(* On the same two conditions, a stall that was passed over has evidence   *)
(* all the same, from less than a cooldown before or after it was reported.*)
(* Behind a longer capture, or in what the log held when it was opened, a  *)
(* stall may be passed over for a capture of any other time.               *)
SkippedIsCovered == Brief => \A i \in skipped : log[i].at >= opened =>
  \E c \in Captures : c.start < log[i].at + Cooldown /\ log[i].at < c.start + Cooldown

(* A burst cannot bury the first stall: the first line in reach is the     *)
(* first one captured.                                                     *)
FirstCaptured == hits > 0 =>
  /\ captures # <<>>
  /\ \A i \in 1 .. captures[1].line - 1 : ~InReach(i, opened)

(* One file that cannot be had costs nothing but itself: every capture     *)
(* tries all of its files, of every backend.                               *)
EveryFileTried == \A k \in DOMAIN captures :
  \/ pc = "capture" /\ k = Len(captures)
  \/ captures[k].tried = FileCount

(* Told to stop, the watch ends, whatever it waits for and whatever the    *)
(* cluster does.  Otherwise it ends, with the run or because none came, in *)
(* a cluster where all goes well; a request that is never answered holds   *)
(* it for ever, past the ten minutes it gives the run to start.            *)
Terminates ==
  /\ cancelled ~> pc \in Over
  /\ opts.well ~> pc \in Over

(* No capture shows a stall that was over long before.                     *)
FreshEvidence == \A c \in Captures : Fresh(c)

(* With pprof off in the backends, its two files are simply absent.        *)
AbsentWithoutPprof == ~opts.pprof => ~errorPage

(* A run reported as never started did not start.                          *)
NeverMeansNever == pc = "never" => phase \in {"none", "Pending"}
=============================================================================

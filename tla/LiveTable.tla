------------------------------ MODULE LiveTable ------------------------------
(***************************************************************************)
(* The live table: a goroutine that prints, at each tick, what the run's   *)
(* workers added to the collector since the last one, and main, which      *)
(* stops it, writes the summary and exits.                                 *)
(*                                                                         *)
(* A line is modelled by what it adds to the sums a reader of the table    *)
(* would keep: one per command from its column, and the errors.            *)
(***************************************************************************)
EXTENDS Naturals, FiniteSets

CONSTANTS
  Commands,     \* the command names the workers observe
  MaxSamples,   \* bound: samples of each command
  HeaderEvery   \* the header is repeated after this many lines

ASSUME CommandsAssumption == IsFiniteSet(Commands)
ASSUME BoundsAssumption == MaxSamples \in Nat /\ HeaderEvery \in Nat \ {0}

VARIABLES
  count, errs,    \* the collector: samples and errors of each command
  prev, prevE,    \* the table's copy of them at its last line
  columns,        \* the commands with a column; also l.known
  rows,           \* lines printed, modulo HeaderEvery
  header,         \* the columns named by the last header printed
  sum, sumE,      \* history: what the lines printed so far add up to
  mainAt,         \* "running" a driver, "stopped" (done closed), "exited"
  live            \* the table's goroutine: "running" or "returned"

collector == <<count, errs>>
table == <<prev, prevE, columns, rows, header, sum, sumE>>
liveVars == <<collector, table, mainAt, live>>

Zero == [c \in Commands |-> 0]

LiveInit ==
  /\ count = Zero /\ errs = Zero
  /\ prev = Zero /\ prevE = Zero
  /\ columns = {} /\ header = {}
  /\ rows = 0
  /\ sum = Zero /\ sumE = Zero
  /\ mainAt = "running" /\ live = "running"

(* Summary holds a command once a sample of it was recorded.               *)
Seen == {c \in Commands : count[c] > 0}

ObserveBy(c, failed, n) ==
  /\ mainAt = "running" /\ count[c] < MaxSamples
  /\ count' = [count EXCEPT ![c] = @ + n]
  /\ errs' = IF failed THEN [errs EXCEPT ![c] = @ + 1] ELSE errs
  /\ UNCHANGED <<table, mainAt, live>>

(* A delivery recorded under one name for its handshake and its transfer.  *)
ObserveTwice(c, failed) == ObserveBy(c, failed, 2)

Observe(c, failed) == ObserveBy(c, failed, 1)

(* One line, after a header if one is due: the errors are summed over the  *)
(* commands in counted, and each column in shown gives its own increment.  *)
Line(counted, shown, headed) ==
  /\ prevE' = [c \in Commands |-> IF c \in counted THEN errs[c] ELSE prevE[c]]
  /\ sumE' = [c \in Commands |->
                IF c \in counted THEN sumE[c] + (errs[c] - prevE[c]) ELSE sumE[c]]
  /\ columns' = shown
  /\ prev' = [c \in Commands |-> IF c \in shown THEN count[c] ELSE prev[c]]
  /\ sum' = [c \in Commands |->
               IF c \in shown THEN sum[c] + (count[c] - prev[c]) ELSE sum[c]]
  /\ rows' = (rows + 1) % HeaderEvery
  /\ header' = IF headed \/ rows' = 0 THEN shown ELSE header

(* The table whose columns were frozen at its first line, its errors with  *)
(* them.                                                                   *)
FrozenTick ==
  LET shown == IF columns = {} THEN Seen ELSE columns
  IN  IF Seen = {} THEN UNCHANGED table ELSE Line(shown, shown, columns = {})

(* The header reprinted on schedule only.                                  *)
HeadedOnScheduleTick ==
  IF Seen = {} THEN UNCHANGED table ELSE Line(Seen, columns \cup Seen, FALSE)

LiveTick ==
  IF Seen = {} THEN UNCHANGED table
  ELSE Line(Seen, columns \cup Seen, columns \cup Seen # columns)

(* Live.Run: the select takes either branch when both are ready.           *)
OnTicker ==
  /\ live = "running" /\ mainAt # "exited"
  /\ LiveTick
  /\ UNCHANGED <<collector, mainAt, live>>

(* The goroutine that returns as soon as it is told to.                     *)
ReturnAtOnce ==
  /\ live = "running" /\ mainAt = "stopped"
  /\ live' = "returned"
  /\ UNCHANGED <<collector, table, mainAt>>

OnDone ==
  /\ live = "running" /\ mainAt = "stopped"
  /\ LiveTick
  /\ live' = "returned"
  /\ UNCHANGED <<collector, mainAt>>

(* The driver returned: every worker is done and nothing observes any more.*)
CloseDone ==
  /\ mainAt = "running"
  /\ mainAt' = "stopped"
  /\ UNCHANGED <<collector, table, live>>

(* The summary is written and the process exits, waiting for nobody.       *)
ExitProcess ==
  /\ mainAt = "stopped"
  /\ mainAt' = "exited"
  /\ UNCHANGED <<collector, table, live>>

Exited == mainAt = "exited" /\ UNCHANGED liveVars

LiveNext ==
  \/ \E c \in Commands, failed \in BOOLEAN : Observe(c, failed)
  \/ OnTicker \/ OnDone \/ CloseDone \/ ExitProcess \/ Exited

LiveSpec == LiveInit /\ [][LiveNext]_liveVars

-----------------------------------------------------------------------------
(* Properties. *)

LiveTypeOK ==
  /\ {count, errs, prev, prevE, sum, sumE} \subseteq [Commands -> 0 .. MaxSamples]
  /\ columns \subseteq Commands /\ header \subseteq Commands
  /\ rows \in 0 .. HeaderEvery - 1
  /\ mainAt \in {"running", "stopped", "exited"}
  /\ live \in {"running", "returned"}

CaughtUp == sum = count /\ sumE = errs

(* Every line brings the table up to date with the collector, errors of    *)
(* commands that first ran long after the first line included: the table   *)
(* never contradicts the summary about what had happened by its last line. *)
LineCatchesUp == [][table' # table => CaughtUp']_liveVars

(* A line's columns are the ones the header above it names.                *)
HeaderNamesColumns == header = columns

(* The goroutine's own promise: it prints one last line before it returns, *)
(* so a run that failed in its closing second shows it.                    *)
LastLinePrinted == live = "returned" => CaughtUp

(* The same promise for the program: whatever happened after the last tick *)
(* is in the table when the process exits.                                 *)
TableAgreesAtExit == mainAt = "exited" => CaughtUp
=============================================================================

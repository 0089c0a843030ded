------------------------------- MODULE Driver -------------------------------
(***************************************************************************)
(* The run harness: driver.Run's worker goroutines and their bounds, the   *)
(* stats.Collector they report to, and the exit status main derives.       *)
(*                                                                         *)
(* A protocol driver appears here as what driver.Run sees of it, a         *)
(* function that issues commands, observes each one in the collector and   *)
(* returns an error at the first that fails.  Three things tell one kind   *)
(* of driver from another (opts.driver): what can end its command in       *)
(* flight when the run ends (cuts), whether it returns errors it never     *)
(* observed (silent), and whether it observes some commands twice          *)
(* (doubles).                                                              *)
(*                                                                         *)
(* Reaching the deadline is two events.  The clock passes it (expired),    *)
(* at which moment reads on a connection carrying that deadline fail; and  *)
(* the timer of context.WithTimeout fires, at which moment runCtx.Err() is *)
(* no longer nil (ctx).  The runtime orders the two as it likes.           *)
(***************************************************************************)
EXTENDS Naturals, FiniteSets

CONSTANTS
  Workers,        \* the clients of the run (-concurrency, at least one)
  MaxIterations,  \* bound: largest -iterations considered
  MaxCommands,    \* bound: commands one call of the worker function issues
  MaxClaims,      \* bound: a run without -iterations starts no new iteration
                  \*   once this many were started
  Kinds,          \* the kinds of driver considered
  NoError         \* firstErr before any worker failed

ASSUME WorkersAssumption == IsFiniteSet(Workers) /\ Workers # {}
ASSUME BoundsAssumption ==
  /\ MaxIterations \in Nat
  /\ MaxCommands \in Nat \ {0}
  /\ MaxClaims \in Nat \ {0}
ASSUME KindsAssumption ==
  Kinds \subseteq [cuts : SUBSET {"context", "deadline"}, silent : BOOLEAN, doubles : BOOLEAN]
ASSUME NoErrorAssumption == NoError \notin Workers

VARIABLES
  opts,       \* the run's flags and kind of driver, fixed for its lifetime
  status,     \* "start", "running", then the exit status: "pass" or "fail"
  expired,    \* the clock has passed the run's deadline
  ctx,        \* "live", or why runCtx is done
  pc,         \* where each worker goroutine is
  cmds,       \* commands issued in the worker's current call
  outcome,    \* how the worker's last command ended, before it is observed
  iterCount,
  firstErr,   \* the worker whose error was recorded first, or NoError
  issued,     \* history: commands sent to the server
  doubled,    \* history: samples of a command that was observed before it was sent
  served,     \* samples with no error
  errors,     \* samples counted as errors, by how the command ended
  cancelled   \* samples counted as cancelled, by how the command ended

clock == <<expired, ctx>>
sent == <<issued, doubled>>
tally == <<served, errors, cancelled>>
vars == <<opts, status, clock, pc, cmds, outcome, iterCount, firstErr, sent, tally>>

Options == [duration : BOOLEAN, iterations : 0 .. MaxIterations, stopOnError : BOOLEAN,
            driver : Kinds]
Ended == {"deadline", "signal", "stopped"}

(* How a command that failed came to fail.  "refused": the server's failure *)
(* reached the client while the run was live; "late": it did so after the   *)
(* run had ended; "cut": the tool ended the command itself.                 *)
Failures == {"refused", "late", "cut"}

Places == {"ramp", "loop", "claim", "call", "select", "wait", "report", "failed", "record",
           "stop", "done"}

Sum3(f) == f["refused"] + f["late"] + f["cut"]
TotalErrors == Sum3(errors)
TotalCancelled == Sum3(cancelled)

Unbounded == ~opts.duration /\ opts.iterations = 0

Init ==
  /\ opts \in Options
  /\ status = "start"
  /\ expired = FALSE
  /\ ctx = "live"
  /\ pc = [w \in Workers |-> "ramp"]
  /\ cmds = [w \in Workers |-> 0]
  /\ outcome = [w \in Workers |-> "none"]
  /\ iterCount = 0
  /\ firstErr = NoError
  /\ issued = 0
  /\ doubled = 0
  /\ served = 0
  /\ errors = [f \in Failures |-> 0]
  /\ cancelled = [f \in Failures |-> 0]

Goto(w, place) == pc' = [pc EXCEPT ![w] = place]

-----------------------------------------------------------------------------
(* The bounds of the run. *)

RefuseUnbounded ==
  /\ status = "start" /\ Unbounded
  /\ status' = "fail"
  /\ UNCHANGED <<opts, clock, pc, cmds, outcome, iterCount, firstErr, sent, tally>>

Start ==
  /\ status = "start" /\ ~Unbounded
  /\ status' = "running"
  /\ UNCHANGED <<opts, clock, pc, cmds, outcome, iterCount, firstErr, sent, tally>>

Expire ==
  /\ opts.duration /\ ~expired
  /\ expired' = TRUE
  /\ UNCHANGED <<opts, status, ctx, pc, cmds, outcome, iterCount, firstErr, sent, tally>>

FireDeadline ==
  /\ expired /\ ctx = "live"
  /\ ctx' = "deadline"
  /\ UNCHANGED <<opts, status, expired, pc, cmds, outcome, iterCount, firstErr, sent, tally>>

Signal ==
  /\ ctx = "live"
  /\ ctx' = "signal"
  /\ UNCHANGED <<opts, status, expired, pc, cmds, outcome, iterCount, firstErr, sent, tally>>

-----------------------------------------------------------------------------
(* One worker goroutine. *)

Ramp(w) ==
  /\ pc[w] = "ramp"
  /\ \/ Goto(w, "loop")
     \/ ctx # "live" /\ Goto(w, "done")
  /\ UNCHANGED <<opts, status, clock, cmds, outcome, iterCount, firstErr, sent, tally>>

(* for runCtx.Err() == nil.  The check and the claim are separate steps:    *)
(* the run may end in between.                                              *)
LoopHead(w) ==
  /\ pc[w] = "loop"
  /\ \/ ctx # "live" /\ Goto(w, "done")
     \/ /\ ctx = "live"
        /\ opts.iterations > 0 \/ iterCount < MaxClaims
        /\ Goto(w, "claim")
  /\ UNCHANGED <<opts, status, clock, cmds, outcome, iterCount, firstErr, sent, tally>>

ClaimUnder(w, budget) ==
  /\ pc[w] = "claim"
  /\ \/ /\ opts.iterations > 0 /\ iterCount >= budget
        /\ Goto(w, "done")
        /\ UNCHANGED <<cmds, iterCount>>
     \/ /\ ~(opts.iterations > 0 /\ iterCount >= budget)
        /\ iterCount' = iterCount + 1
        /\ cmds' = [cmds EXCEPT ![w] = 0]
        /\ Goto(w, "call")
  /\ UNCHANGED <<opts, status, clock, outcome, firstErr, sent, tally>>

ClaimPastBudget(w) == ClaimUnder(w, opts.iterations + 1)

Claim(w) == ClaimUnder(w, opts.iterations)

(* The profile of the IMAP driver chose SELECT: one sample is observed, of  *)
(* no duration, before doSelect sends the command and observes it.          *)
ObserveAhead(w) ==
  /\ opts.driver.doubles
  /\ pc[w] = "call" /\ cmds[w] < MaxCommands
  /\ served' = served + 1
  /\ doubled' = doubled + 1
  /\ Goto(w, "select")
  /\ UNCHANGED <<opts, status, clock, cmds, outcome, iterCount, firstErr, issued, errors,
                 cancelled>>

(* fn goes on: it sends its next command, or returns nil after the last. *)
Issue(w) ==
  /\ pc[w] \in {"call", "select"} /\ cmds[w] < MaxCommands
  /\ cmds' = [cmds EXCEPT ![w] = @ + 1]
  /\ issued' = issued + 1
  /\ Goto(w, "wait")
  /\ UNCHANGED <<opts, status, clock, outcome, iterCount, firstErr, doubled, tally>>

ReturnNil(w) ==
  /\ pc[w] = "call" /\ cmds[w] > 0
  /\ Goto(w, "loop")
  /\ UNCHANGED <<opts, status, clock, cmds, outcome, iterCount, firstErr, sent, tally>>

(* fn returns an error although every command it observed succeeded. *)
ReturnUnobserved(w) ==
  /\ opts.driver.silent
  /\ pc[w] = "call" /\ cmds[w] > 0
  /\ Goto(w, "failed")
  /\ UNCHANGED <<opts, status, clock, cmds, outcome, iterCount, firstErr, sent, tally>>

Conclude(w, how) ==
  /\ pc[w] = "wait"
  /\ outcome' = [outcome EXCEPT ![w] = how]
  /\ Goto(w, "report")
  /\ UNCHANGED <<opts, status, clock, cmds, iterCount, firstErr, sent, tally>>

Answer(w) ==
  \E how \in {"served", IF ctx = "live" THEN "refused" ELSE "late"} : Conclude(w, how)

Cut(w) ==
  /\ \/ "context" \in opts.driver.cuts /\ ctx # "live"
     \/ "deadline" \in opts.driver.cuts /\ expired
  /\ Conclude(w, "cut")

Bump(f, k) == [f EXCEPT ![k] = @ + 1]

(* A worker that leaves its cut-off command out of the books. *)
ObserveOnlyWhileLive(w) ==
  /\ pc[w] = "report"
  /\ outcome' = [outcome EXCEPT ![w] = "none"]
  /\ \/ /\ outcome[w] = "served"
        /\ served' = served + 1
        /\ Goto(w, "call")
        /\ UNCHANGED <<errors, cancelled>>
     \/ /\ outcome[w] # "served"
        /\ errors' = IF ctx = "live" THEN Bump(errors, outcome[w]) ELSE errors
        /\ Goto(w, "failed")
        /\ UNCHANGED <<served, cancelled>>
  /\ UNCHANGED <<opts, status, clock, cmds, iterCount, firstErr, sent>>

(* Collector.Observe, whole under its mutex, then fn returning the error. *)
ObserveBy(w, cancelling) ==
  /\ pc[w] = "report"
  /\ outcome' = [outcome EXCEPT ![w] = "none"]
  /\ \/ /\ outcome[w] = "served"
        /\ served' = served + 1
        /\ Goto(w, "call")
        /\ UNCHANGED <<errors, cancelled>>
     \/ /\ outcome[w] # "served" /\ cancelling
        /\ cancelled' = Bump(cancelled, outcome[w])
        /\ Goto(w, "failed")
        /\ UNCHANGED <<served, errors>>
     \/ /\ outcome[w] # "served" /\ ~cancelling
        /\ errors' = Bump(errors, outcome[w])
        /\ Goto(w, "failed")
        /\ UNCHANGED <<served, cancelled>>
  /\ UNCHANGED <<opts, status, clock, cmds, iterCount, firstErr, sent>>

(* The context forgotten for a run that -stop-on-error or a signal ended. *)
ObserveByDeadlineOnly(w) == ObserveBy(w, ctx = "deadline")

Observe(w) == ObserveBy(w, ctx # "live")

FailUnless(w, over) ==
  /\ pc[w] = "failed"
  /\ Goto(w, IF over THEN "done" ELSE "record")
  /\ UNCHANGED <<opts, status, clock, cmds, outcome, iterCount, firstErr, sent, tally>>

(* The check on runCtx dropped: a cancellation is recorded as a fault. *)
FailAlways(w) == FailUnless(w, FALSE)

Fail(w) == FailUnless(w, ctx # "live")

Record(w) ==
  /\ pc[w] = "record"
  /\ firstErr' = IF firstErr = NoError THEN w ELSE firstErr
  /\ Goto(w, IF opts.stopOnError THEN "stop" ELSE "loop")
  /\ UNCHANGED <<opts, status, clock, cmds, outcome, iterCount, sent, tally>>

Stop(w) ==
  /\ pc[w] = "stop"
  /\ ctx' = IF ctx = "live" THEN "stopped" ELSE ctx
  /\ Goto(w, "done")
  /\ UNCHANGED <<opts, status, expired, cmds, outcome, iterCount, firstErr, sent, tally>>

WorkerStep(w) ==
  \/ Ramp(w) \/ LoopHead(w) \/ Claim(w)
  \/ ObserveAhead(w) \/ Issue(w) \/ ReturnNil(w) \/ ReturnUnobserved(w)
  \/ Answer(w) \/ Cut(w) \/ Observe(w)
  \/ Fail(w) \/ Record(w) \/ Stop(w)

-----------------------------------------------------------------------------
(* wg.Wait, the error Run returns, and main's exit status. *)

FinishWith(failed) ==
  /\ \A w \in Workers : pc[w] = "done"
  /\ status' = IF failed THEN "fail" ELSE "pass"
  /\ UNCHANGED <<opts, clock, pc, cmds, outcome, iterCount, firstErr, sent, tally>>

ReturnedError == opts.stopOnError /\ firstErr # NoError

FinishOnErrorOnly == FinishWith(ReturnedError)

FinishOnSummaryOnly == FinishWith(TotalErrors > 0)

Finish == FinishWith(ReturnedError \/ TotalErrors > 0)

Running ==
  \/ Expire \/ FireDeadline \/ Signal
  \/ \E w \in Workers : WorkerStep(w)
  \/ Finish

Exited == status \in {"pass", "fail"} /\ UNCHANGED vars

Next == RefuseUnbounded \/ Start \/ (status = "running" /\ Running) \/ Exited

Safety == Init /\ [][Next]_vars

(***************************************************************************)
(* A command in flight always ends: every connection and request carries a *)
(* deadline, so a worker that can step does.  Time passes and timers fire. *)
(* Nothing obliges a signal to arrive.                                     *)
(***************************************************************************)
Fairness ==
  /\ WF_vars(RefuseUnbounded \/ Start)
  /\ WF_vars(status = "running" /\ (Expire \/ FireDeadline))
  /\ WF_vars(status = "running" /\ Finish)
  /\ \A w \in Workers : WF_vars(status = "running" /\ WorkerStep(w))

Spec == Safety /\ Fairness

-----------------------------------------------------------------------------
(* Properties. *)

TypeOK ==
  /\ opts \in Options
  /\ status \in {"start", "running", "pass", "fail"}
  /\ expired \in BOOLEAN
  /\ ctx \in Ended \cup {"live"}
  /\ pc \in [Workers -> Places]
  /\ cmds \in [Workers -> 0 .. MaxCommands]
  /\ outcome \in [Workers -> Failures \cup {"none", "served"}]
  /\ iterCount \in Nat
  /\ firstErr \in Workers \cup {NoError}
  /\ issued \in Nat
  /\ doubled \in Nat
  /\ served \in Nat
  /\ errors \in [Failures -> Nat]
  /\ cancelled \in [Failures -> Nat]

Exit == status \in {"pass", "fail"}

(* The budget shared by all workers is never overdrawn, however their      *)
(* claims interleave, and a run nothing cut short spends all of it.        *)
IterationBudget ==
  opts.iterations > 0 =>
    /\ iterCount <= opts.iterations
    /\ Exit /\ ctx = "live" => iterCount = opts.iterations

(* BindRun's promise, as far as it is kept: a failure is an error of the    *)
(* summary only if it happened while the run was live.  A command that      *)
(* failed after the end is never counted against the server, and one the    *)
(* tool itself cut off is only where the connection carries the run's own   *)
(* deadline (LMTP, POP3), once the clock has passed it.                     *)
EndIsNotAFault ==
  /\ errors["late"] = 0
  /\ errors["cut"] > 0 => "deadline" \in opts.driver.cuts /\ expired

(* What BindRun's comment says without that exception: a worker cancelled   *)
(* by the run's context sees it done when it observes its command, so that  *)
(* there is no window in which the cancellation is counted as a fault.      *)
NoWindow == errors["late"] = 0 /\ errors["cut"] = 0

(* What driver.go's comment says of the gate: a run in which some worker's *)
(* error was recorded while the run was live does not exit zero.           *)
RecordedErrorFails == status = "pass" => firstErr = NoError

(* It is so, with or without -stop-on-error, for a driver that observes    *)
(* what it returns.                                                        *)
FailureReachesVerdict == ~opts.driver.silent => RecordedErrorFails

(* A run that -stop-on-error cut short never exits zero.                   *)
StopSurfaces == status = "pass" => ctx # "stopped"

(* The gate raises no false alarm but one: a run that was not refused, of a *)
(* driver that observes what it returns, fails only if a server failure     *)
(* reached a client while the run was live, or if its connections carry     *)
(* the run's own deadline (LMTP, POP3) and a command was cut off by it.     *)
CleanRunPasses ==
  status = "fail" /\ ~Unbounded /\ ~opts.driver.silent =>
    \/ errors["refused"] > 0
    \/ "deadline" \in opts.driver.cuts /\ expired /\ errors["cut"] > 0

(* At exit every command sent to the server is in the summary, once as      *)
(* served, as an error or as cancelled, however the run ended, and the only *)
(* other samples are those of the SELECTs the IMAP driver observes ahead.   *)
EveryCommandCounted == Exit => issued + doubled = served + TotalErrors + TotalCancelled

(* What the comment on that observation says, "counted inside doSelect":    *)
(* a command has one sample.                                                *)
OneSampleEach == Exit => issued = served + TotalErrors + TotalCancelled

(* Driver implements RunContract, its liveness included: a run that is not *)
(* refused reaches its verdict.                                            *)
Contract == INSTANCE RunContract WITH
  silent <- opts.driver.silent,
  bounded <- ~Unbounded,
  ended <- ctx # "live",
  faults <- TotalErrors,
  cutoffs <- TotalCancelled,
  verdict <- IF Exit THEN status ELSE "none"

ContractSpec == Contract!Spec
=============================================================================

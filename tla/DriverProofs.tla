---------------------------- MODULE DriverProofs ----------------------------
(***************************************************************************)
(* Proofs about Driver, for every set of workers and every bound.          *)
(*                                                                         *)
(* The inductive invariant adds to the properties of Driver what each of   *)
(* them rests on: where a worker's pending failure came from, why a worker *)
(* is done, and why runCtx is.                                             *)
(***************************************************************************)
EXTENDS Driver, FiniteSetTheorems, TLAPS

(* Commands can be cut off by the run's deadline on the connection itself. *)
DeadlineCuts == "deadline" \in opts.driver.cuts /\ expired

(* A pending failure is late, or was cut, only once the run has ended or,  *)
(* for a connection that carries its deadline, once that has passed.       *)
OutcomeOK == \A w \in Workers :
  /\ outcome[w] = "late" => ctx # "live"
  /\ outcome[w] = "cut" => ctx # "live" \/ DeadlineCuts

(* A worker reports an outcome it has.                                     *)
PendingOK == \A w \in Workers : pc[w] = "report" => outcome[w] # "none"

(* No failure of the run's end is among the errors, that exception apart.  *)
ErrorsOK ==
  /\ errors["late"] = 0
  /\ errors["cut"] > 0 => DeadlineCuts

(* A driver that observes what it returns leaves an error in the summary   *)
(* for every failure it recorded.                                          *)
RecordedOK == ~opts.driver.silent =>
  /\ \A w \in Workers :
       /\ pc[w] = "failed" => ctx # "live" \/ TotalErrors > 0
       /\ pc[w] \in {"record", "stop"} => TotalErrors > 0
  /\ firstErr # NoError => TotalErrors > 0

(* Only a recorded error stops a run, and only if the run was asked to.    *)
StopOK ==
  /\ \A w \in Workers : pc[w] = "stop" => firstErr # NoError /\ opts.stopOnError
  /\ ctx = "stopped" => firstErr # NoError /\ opts.stopOnError

(* A worker of a live run is done only because the budget is spent.        *)
BudgetOK ==
  /\ opts.iterations > 0 => iterCount <= opts.iterations
  /\ \A w \in Workers :
       pc[w] = "done" /\ ctx = "live" => iterCount >= opts.iterations

(* The exit status is the gate's, and is final.                            *)
ExitOK ==
  /\ Unbounded => status \in {"start", "fail"} /\ \A w \in Workers : pc[w] = "ramp"
  /\ Exit /\ ~Unbounded =>
       /\ \A w \in Workers : pc[w] = "done"
       /\ status = "fail" <=> ReturnedError \/ TotalErrors > 0

-----------------------------------------------------------------------------
(* Type correctness: every reachable state of the run harness has the      *)
(* shape driver.Run and the collector give it.                             *)
LEMMA TypeStep == TypeOK /\ [Next]_vars => TypeOK'
<1> SUFFICES ASSUME TypeOK, [Next]_vars PROVE TypeOK'
  OBVIOUS
<1> USE DEF TypeOK, Options, Ended, Failures, Places, clock, sent, tally, Goto
<1>1. CASE RefuseUnbounded
  BY <1>1 DEF RefuseUnbounded
<1>2. CASE Start
  BY <1>2 DEF Start
<1>3. CASE Expire \/ FireDeadline \/ Signal
  BY <1>3 DEF Expire, FireDeadline, Signal
<1>4. ASSUME NEW w \in Workers, WorkerStep(w) PROVE TypeOK'
  <2>1. CASE Ramp(w) \/ LoopHead(w) \/ ReturnNil(w) \/ ReturnUnobserved(w)
    BY <2>1 DEF Ramp, LoopHead, ReturnNil, ReturnUnobserved
  <2>2. CASE Claim(w)
    BY <2>2, BoundsAssumption DEF Claim, ClaimUnder
  <2>3. CASE ObserveAhead(w) \/ Issue(w)
    BY <2>3, BoundsAssumption DEF ObserveAhead, Issue
  <2>4. CASE Answer(w) \/ Cut(w)
    BY <2>4 DEF Answer, Cut, Conclude
  <2>5. CASE Observe(w)
    BY <2>5 DEF Observe, ObserveBy, Bump
  <2>6. CASE Fail(w)
    BY <2>6 DEF Fail, FailUnless
  <2>7. CASE Record(w)
    BY <2>7 DEF Record
  <2>8. CASE Stop(w)
    BY <2>8 DEF Stop
  <2> QED
    BY <1>4, <2>1, <2>2, <2>3, <2>4, <2>5, <2>6, <2>7, <2>8 DEF WorkerStep
<1>5. CASE Finish
  BY <1>5 DEF Finish, FinishWith
<1>6. CASE UNCHANGED vars
  BY <1>6 DEF vars
<1> QED
  BY <1>1, <1>2, <1>3, <1>4, <1>5, <1>6 DEF Next, Running, Exited

THEOREM TypeCorrect == Safety => []TypeOK
<1>1. Init => TypeOK
  <2> SUFFICES ASSUME Init PROVE TypeOK
    OBVIOUS
  <2>1. cmds \in [Workers -> 0 .. MaxCommands] /\ pc \in [Workers -> Places]
    BY BoundsAssumption DEF Init, Places
  <2>2. outcome \in [Workers -> Failures \cup {"none", "served"}]
    BY DEF Init
  <2>3. errors \in [Failures -> Nat] /\ cancelled \in [Failures -> Nat]
    BY DEF Init
  <2> QED
    BY <2>1, <2>2, <2>3 DEF Init, TypeOK
<1> QED
  BY <1>1, TypeStep, PTL DEF Safety

-----------------------------------------------------------------------------
(* The end of a run is not a fault.                                        *)

(* The flags and the kind of driver are those of the launch.               *)
LEMMA FlagsFixed == [Next]_vars => opts' = opts
  BY DEF Next, Running, WorkerStep, RefuseUnbounded, Start, Expire, FireDeadline, Signal,
    Ramp, LoopHead, Claim, ClaimUnder, ObserveAhead, Issue, ReturnNil, ReturnUnobserved,
    Answer, Cut, Conclude, Observe, ObserveBy, Fail, FailUnless, Record, Stop, Finish,
    FinishWith, Exited, vars

(* Once done, runCtx stays done.                                           *)
LEMMA EndIsFinal == TypeOK /\ ctx # "live" /\ [Next]_vars => ctx' # "live"
  BY DEF Next, Running, WorkerStep, RefuseUnbounded, Start, Expire, FireDeadline, Signal,
    Ramp, LoopHead, Claim, ClaimUnder, ObserveAhead, Issue, ReturnNil, ReturnUnobserved,
    Answer, Cut, Conclude, Observe, ObserveBy, Fail, FailUnless, Record, Stop, Finish,
    FinishWith, Exited, clock, sent, tally, vars

(* Once passed, the deadline stays passed.                                 *)
LEMMA DeadlineIsFinal == TypeOK /\ DeadlineCuts /\ [Next]_vars => DeadlineCuts'
<1> SUFFICES ASSUME TypeOK, DeadlineCuts, [Next]_vars PROVE DeadlineCuts'
  OBVIOUS
<1>1. opts' = opts
  BY FlagsFixed
<1>2. expired' = expired \/ expired' = TRUE
  BY DEF Next, Running, WorkerStep, RefuseUnbounded, Start, Expire, FireDeadline, Signal,
    Ramp, LoopHead, Claim, ClaimUnder, ObserveAhead, Issue, ReturnNil, ReturnUnobserved,
    Answer, Cut, Conclude, Observe, ObserveBy, Fail, FailUnless, Record, Stop, Finish,
    FinishWith, Exited, clock, vars
<1> QED
  BY <1>1, <1>2 DEF DeadlineCuts

LEMMA OutcomeStep == TypeOK /\ OutcomeOK /\ [Next]_vars => OutcomeOK'
<1> SUFFICES ASSUME TypeOK, OutcomeOK, [Next]_vars PROVE OutcomeOK'
  OBVIOUS
<1>1. (ctx # "live" => ctx' # "live") /\ (DeadlineCuts => DeadlineCuts')
  BY EndIsFinal, DeadlineIsFinal
<1>2. CASE UNCHANGED outcome
  BY <1>1, <1>2 DEF OutcomeOK
<1>3. ASSUME NEW w \in Workers, Answer(w) \/ Cut(w) PROVE OutcomeOK'
  <2>1. PICK how \in Failures \cup {"served"} :
          /\ outcome' = [outcome EXCEPT ![w] = how] /\ ctx' = ctx
          /\ how = "late" => ctx # "live"
          /\ how = "cut" => ctx # "live" \/ DeadlineCuts
    BY <1>3 DEF Answer, Cut, Conclude, Failures, clock, DeadlineCuts
  <2> QED
    BY <1>1, <2>1 DEF OutcomeOK, TypeOK
<1>4. ASSUME NEW w \in Workers, Observe(w) PROVE OutcomeOK'
  <2>1. outcome' = [outcome EXCEPT ![w] = "none"]
    BY <1>4 DEF Observe, ObserveBy
  <2> QED
    BY <1>1, <2>1 DEF OutcomeOK, TypeOK
<1> QED
  BY <1>2, <1>3, <1>4 DEF Next, Running, WorkerStep, RefuseUnbounded, Start, Expire,
    FireDeadline, Signal, Ramp, LoopHead, Claim, ClaimUnder, ObserveAhead, Issue, ReturnNil,
    ReturnUnobserved, Fail, FailUnless, Record, Stop, Finish, FinishWith, Exited, vars

(* Only an observation of what was sent changes the books of failures.     *)
LEMMA BooksStep ==
  [Next]_vars => UNCHANGED <<errors, cancelled>> \/ \E w \in Workers : Observe(w)
  BY DEF Next, Running, WorkerStep, RefuseUnbounded, Start, Expire, FireDeadline, Signal,
    Ramp, LoopHead, Claim, ClaimUnder, ObserveAhead, Issue, ReturnNil, ReturnUnobserved,
    Answer, Cut, Conclude, Fail, FailUnless, Record, Stop, Finish, FinishWith, Exited,
    tally, vars

LEMMA ErrorsStep == TypeOK /\ OutcomeOK /\ ErrorsOK /\ [Next]_vars => ErrorsOK'
<1> SUFFICES ASSUME TypeOK, OutcomeOK, ErrorsOK, [Next]_vars PROVE ErrorsOK'
  OBVIOUS
<1>1. CASE UNCHANGED <<errors, cancelled>>
  BY <1>1, DeadlineIsFinal DEF ErrorsOK
<1>2. ASSUME NEW w \in Workers, Observe(w) PROVE ErrorsOK'
  <2>1. outcome[w] = "cut" /\ ctx = "live" => DeadlineCuts'
    BY DeadlineIsFinal DEF OutcomeOK
  <2>2. errors["cut"] > 0 => DeadlineCuts'
    BY DeadlineIsFinal DEF ErrorsOK
  <2> QED
    BY <1>2, <2>1, <2>2 DEF Observe, ObserveBy, Bump, OutcomeOK, ErrorsOK, TypeOK, Failures
<1> QED
  BY <1>1, <1>2, BooksStep

(* EndIsNotAFault, for any number of clients of any kind of driver: the    *)
(* end of a run is no fault of the server's, except where a connection     *)
(* carries the run's deadline and that has passed.                         *)
THEOREM EndNotCounted == Safety => []EndIsNotAFault
<1>1. Init => OutcomeOK /\ ErrorsOK
  BY DEF Init, OutcomeOK, ErrorsOK, Failures
<1>2. TypeOK /\ OutcomeOK /\ ErrorsOK /\ [Next]_vars => (OutcomeOK /\ ErrorsOK)'
  BY OutcomeStep, ErrorsStep
<1>3. ErrorsOK => EndIsNotAFault
  BY DEF ErrorsOK, EndIsNotAFault, DeadlineCuts
<1> QED
  BY <1>1, <1>2, <1>3, TypeCorrect, PTL DEF Safety

-----------------------------------------------------------------------------
(* A recorded failure reaches the verdict.                                 *)

(* The number of errors never falls.                                       *)
LEMMA ErrorsGrow == TypeOK /\ TotalErrors > 0 /\ [Next]_vars => TotalErrors' > 0
<1> SUFFICES ASSUME TypeOK, TotalErrors > 0, [Next]_vars PROVE TotalErrors' > 0
  OBVIOUS
<1>1. CASE UNCHANGED <<errors, cancelled>>
  BY <1>1 DEF TotalErrors, Sum3
<1>2. ASSUME NEW w \in Workers, Observe(w) PROVE TotalErrors' > 0
  BY <1>2 DEF Observe, ObserveBy, Bump, TypeOK, Failures, TotalErrors, Sum3
<1> QED
  BY <1>1, <1>2, BooksStep

LEMMA PendingStep == TypeOK /\ PendingOK /\ [Next]_vars => PendingOK'
<1> SUFFICES ASSUME TypeOK, PendingOK, [Next]_vars PROVE PendingOK'
  OBVIOUS
<1>1. CASE UNCHANGED <<pc, outcome>>
  BY <1>1 DEF PendingOK
<1>2. ASSUME NEW w \in Workers, NEW place \in Places \ {"report"},
             pc' = [pc EXCEPT ![w] = place],
             \A v \in Workers \ {w} : outcome'[v] = outcome[v]
      PROVE  PendingOK'
  BY <1>2 DEF PendingOK, TypeOK
<1>3. ASSUME NEW w \in Workers, Answer(w) \/ Cut(w) PROVE PendingOK'
  BY <1>3 DEF Answer, Cut, Conclude, Goto, PendingOK, TypeOK
<1>4. ASSUME NEW w \in Workers, WorkerStep(w), ~Answer(w), ~Cut(w) PROVE PendingOK'
  <2>1. \A v \in Workers \ {w} : outcome'[v] = outcome[v]
    BY <1>4 DEF WorkerStep, Ramp, LoopHead, Claim, ClaimUnder, ObserveAhead, Issue,
      ReturnNil, ReturnUnobserved, Observe, ObserveBy, Fail, FailUnless, Record, Stop,
      TypeOK
  <2>2. \E place \in Places \ {"report"} : pc' = [pc EXCEPT ![w] = place]
    BY <1>4 DEF WorkerStep, Ramp, LoopHead, Claim, ClaimUnder, ObserveAhead, Issue,
      ReturnNil, ReturnUnobserved, Observe, ObserveBy, Fail, FailUnless, Record, Stop,
      Goto, Places
  <2> QED
    BY <1>2, <2>1, <2>2
<1> QED
  BY <1>1, <1>3, <1>4 DEF Next, Running, RefuseUnbounded, Start, Expire, FireDeadline,
    Signal, Finish, FinishWith, Exited, vars

LEMMA RecordedStep == TypeOK /\ PendingOK /\ RecordedOK /\ [Next]_vars => RecordedOK'
<1> SUFFICES ASSUME TypeOK, PendingOK, RecordedOK, [Next]_vars, ~opts.driver.silent
             PROVE  RecordedOK'
  BY FlagsFixed DEF RecordedOK
<1> opts' = opts
  BY FlagsFixed
<1>1. TotalErrors > 0 => TotalErrors' > 0
  BY ErrorsGrow
<1>2. ctx # "live" => ctx' # "live"
  BY EndIsFinal
<1>3. CASE UNCHANGED <<pc, firstErr>>
  BY <1>1, <1>2, <1>3 DEF RecordedOK
<1>4. ASSUME NEW w \in Workers, WorkerStep(w) PROVE RecordedOK'
  <2>1. ASSUME NEW place \in {"loop", "claim", "call", "select", "wait", "report", "done"},
               pc' = [pc EXCEPT ![w] = place], UNCHANGED firstErr
        PROVE  RecordedOK'
    BY <1>1, <1>2, <2>1 DEF RecordedOK, TypeOK
  <2>2. CASE Observe(w)
    <3>1. CASE pc' = [pc EXCEPT ![w] = "call"] /\ UNCHANGED firstErr
      BY <2>1, <3>1
    <3>2. CASE pc' = [pc EXCEPT ![w] = "failed"] /\ UNCHANGED firstErr
      <4>1. outcome[w] # "served"
        BY <2>2, <3>2 DEF Observe, ObserveBy, Goto, TypeOK
      <4>2. CASE ctx # "live"
        BY <1>1, <1>2, <3>2, <4>2 DEF RecordedOK, TypeOK
      <4>3. CASE ctx = "live"
        <5>1. PICK f \in Failures : errors' = [errors EXCEPT ![f] = @ + 1]
          BY <2>2, <4>1, <4>3 DEF Observe, ObserveBy, Bump, PendingOK, TypeOK
        <5>2. TotalErrors' > 0
          BY <5>1 DEF TotalErrors, Sum3, TypeOK, Failures
        <5> QED
          BY <1>1, <1>2, <3>2, <5>2 DEF RecordedOK, TypeOK
      <4> QED
        BY <4>2, <4>3
    <3> QED
      BY <2>2, <3>1, <3>2 DEF Observe, ObserveBy, Goto
  <2>3. CASE Fail(w)
    BY <1>1, <1>2, <2>3 DEF Fail, FailUnless, Goto, RecordedOK, TypeOK, clock
  <2>4. CASE Record(w)
    BY <1>1, <1>2, <2>4 DEF Record, Goto, RecordedOK, TypeOK
  <2>5. CASE Ramp(w) \/ LoopHead(w) \/ Claim(w) \/ ObserveAhead(w) \/ Issue(w)
             \/ ReturnNil(w) \/ Answer(w) \/ Cut(w) \/ Stop(w)
    BY <2>1, <2>5 DEF Ramp, LoopHead, Claim, ClaimUnder, ObserveAhead, Issue, ReturnNil,
      Answer, Cut, Conclude, Stop, Goto
  <2>6. ~ReturnUnobserved(w)
    BY DEF ReturnUnobserved
  <2> QED
    BY <1>4, <2>2, <2>3, <2>4, <2>5, <2>6 DEF WorkerStep
<1> QED
  BY <1>3, <1>4 DEF Next, Running, RefuseUnbounded, Start, Expire, FireDeadline, Signal,
    Finish, FinishWith, Exited, vars

LEMMA StopStep == TypeOK /\ StopOK /\ [Next]_vars => StopOK'
<1> SUFFICES ASSUME TypeOK, StopOK, [Next]_vars PROVE StopOK'
  OBVIOUS
<1>1. opts' = opts
  BY FlagsFixed
<1>2. CASE UNCHANGED <<pc, firstErr>> /\ ctx' \in {ctx, "deadline", "signal"}
  BY <1>1, <1>2 DEF StopOK
<1>3. ASSUME NEW w \in Workers, Record(w) PROVE StopOK'
  BY <1>1, <1>3, NoErrorAssumption DEF Record, Goto, clock, StopOK, TypeOK
<1>4. ASSUME NEW w \in Workers, Stop(w) PROVE StopOK'
  BY <1>1, <1>4 DEF Stop, Goto, StopOK, TypeOK
<1>5. ASSUME NEW w \in Workers, NEW place \in Places \ {"stop"},
             pc' = [pc EXCEPT ![w] = place], UNCHANGED <<firstErr, ctx>>
      PROVE  StopOK'
  BY <1>1, <1>5 DEF StopOK, TypeOK
<1>6. ASSUME NEW w \in Workers, WorkerStep(w), ~Record(w), ~Stop(w) PROVE StopOK'
  BY <1>5, <1>6 DEF WorkerStep, Ramp, LoopHead, Claim, ClaimUnder, ObserveAhead, Issue,
    ReturnNil, ReturnUnobserved, Answer, Cut, Conclude, Observe, ObserveBy, Fail,
    FailUnless, Goto, clock, Places
<1> QED
  BY <1>2, <1>3, <1>4, <1>6 DEF Next, Running, RefuseUnbounded, Start, Expire,
    FireDeadline, Signal, Finish, FinishWith, Exited, clock, vars

LEMMA ExitStep == TypeOK /\ ExitOK /\ [Next]_vars => ExitOK'
<1> SUFFICES ASSUME TypeOK, ExitOK, [Next]_vars PROVE ExitOK'
  OBVIOUS
<1> USE DEF Exit, Unbounded, ReturnedError
<1>1. CASE RefuseUnbounded
  BY <1>1 DEF RefuseUnbounded, ExitOK
<1>2. CASE Start
  BY <1>2 DEF Start, ExitOK
<1>3. CASE status = "running" /\ Finish
  BY <1>3 DEF Finish, FinishWith, ExitOK, TypeOK, TotalErrors, Sum3, tally
<1>4. CASE status = "running" /\ Running /\ ~Finish
  <2>1. UNCHANGED <<status, opts>>
    BY <1>4 DEF Running, WorkerStep, Expire, FireDeadline, Signal, Ramp, LoopHead, Claim,
      ClaimUnder, ObserveAhead, Issue, ReturnNil, ReturnUnobserved, Answer, Cut, Conclude,
      Observe, ObserveBy, Fail, FailUnless, Record, Stop
  <2> QED
    BY <1>4, <2>1 DEF ExitOK
<1>5. CASE UNCHANGED vars
  BY <1>5 DEF vars, tally, ExitOK, TotalErrors, Sum3
<1> QED
  BY <1>1, <1>2, <1>3, <1>4, <1>5 DEF Next, Exited

(* What every reachable state of a run satisfies, whatever its driver.     *)
LEMMA Invariance ==
  Safety => [](TypeOK /\ PendingOK /\ RecordedOK /\ StopOK /\ ExitOK)
<1>1. Init => PendingOK /\ RecordedOK /\ StopOK /\ ExitOK
  BY DEF Init, PendingOK, RecordedOK, StopOK, ExitOK, Exit
<1>2. TypeOK /\ PendingOK /\ [Next]_vars => PendingOK'
  BY PendingStep
<1>3. TypeOK /\ PendingOK /\ RecordedOK /\ [Next]_vars => RecordedOK'
  BY RecordedStep
<1>4. TypeOK /\ StopOK /\ ExitOK /\ [Next]_vars => StopOK' /\ ExitOK'
  BY StopStep, ExitStep
<1> QED
  BY <1>1, <1>2, <1>3, <1>4, TypeCorrect, PTL DEF Safety

(* The gate: a run in which a worker's failure was recorded while it was   *)
(* live never exits zero, provided its driver observes the errors it       *)
(* returns.                                                                *)
THEOREM VerdictHearsFailures == Safety => []FailureReachesVerdict
<1>1. TypeOK /\ RecordedOK /\ ExitOK => FailureReachesVerdict
  BY DEF RecordedOK, ExitOK, Exit, FailureReachesVerdict, RecordedErrorFails,
    Unbounded
<1> QED
  BY <1>1, Invariance, PTL

(* Every driver, even one that returns errors it never observed: a run cut *)
(* short by -stop-on-error never exits zero.                               *)
THEOREM StopIsHeard == Safety => []StopSurfaces
<1>1. TypeOK /\ StopOK /\ ExitOK => StopSurfaces
  BY DEF StopOK, ExitOK, Exit, StopSurfaces, ReturnedError, Unbounded
<1> QED
  BY <1>1, Invariance, PTL

(* The gate raises no false alarm when the driver observes what it         *)
(* returns, a command cut off by a connection carrying the run's deadline  *)
(* excepted.                                                               *)
THEOREM NoFalseAlarm == Safety => []CleanRunPasses
<1>1. TypeOK /\ RecordedOK /\ ExitOK /\ EndIsNotAFault => CleanRunPasses
  <2> SUFFICES ASSUME TypeOK, RecordedOK, ExitOK, EndIsNotAFault,
                      status = "fail", ~Unbounded, ~opts.driver.silent
               PROVE  errors["refused"] > 0 \/ (DeadlineCuts /\ errors["cut"] > 0)
    BY DEF CleanRunPasses, DeadlineCuts
  <2>1. TotalErrors > 0
    BY DEF ExitOK, Exit, RecordedOK, ReturnedError
  <2> QED
    BY <2>1 DEF TotalErrors, Sum3, EndIsNotAFault, TypeOK, Failures, DeadlineCuts
<1> QED
  BY <1>1, Invariance, EndNotCounted, PTL

-----------------------------------------------------------------------------
(* The iteration budget.                                                   *)

LEMMA BudgetStep == TypeOK /\ BudgetOK /\ [Next]_vars => BudgetOK'
<1> SUFFICES ASSUME TypeOK, BudgetOK, [Next]_vars PROVE BudgetOK'
  OBVIOUS
<1>1. ctx # "live" => ctx' # "live"
  BY EndIsFinal
<1>2. opts.iterations \in Nat
  BY BoundsAssumption DEF TypeOK, Options
<1>3. CASE UNCHANGED <<opts, pc, iterCount>>
  BY <1>1, <1>3 DEF BudgetOK
<1>4. ASSUME NEW w \in Workers, WorkerStep(w) PROVE BudgetOK'
  <2>1. ASSUME NEW place \in Places, pc' = [pc EXCEPT ![w] = place],
               UNCHANGED <<opts, iterCount>>,
               place = "done" /\ ctx' = "live" => iterCount >= opts.iterations
        PROVE  BudgetOK'
    BY <1>1, <2>1 DEF BudgetOK, TypeOK
  <2>2. CASE Claim(w)
    <3>1. CASE opts.iterations > 0 /\ iterCount >= opts.iterations
      BY <1>2, <2>1, <2>2, <3>1 DEF Claim, ClaimUnder, Goto, Places, TypeOK
    <3>2. CASE ~(opts.iterations > 0 /\ iterCount >= opts.iterations)
      <4>1. /\ iterCount' = iterCount + 1 /\ UNCHANGED <<opts, ctx>>
            /\ pc' = [pc EXCEPT ![w] = "call"]
        BY <2>2, <3>2 DEF Claim, ClaimUnder, Goto, clock
      <4>2. opts.iterations > 0 => iterCount' <= opts.iterations
        BY <1>2, <3>2, <4>1 DEF TypeOK
      <4>3. ASSUME NEW v \in Workers, pc'[v] = "done", ctx' = "live"
            PROVE  iterCount' >= opts.iterations
        BY <1>2, <4>1, <4>3 DEF BudgetOK, TypeOK
      <4> QED
        BY <4>1, <4>2, <4>3 DEF BudgetOK
    <3> QED
      BY <3>1, <3>2
  <2>3. CASE Ramp(w) \/ LoopHead(w) \/ Fail(w) \/ Stop(w)
    BY <1>1, <2>1, <2>3 DEF Ramp, LoopHead, Fail, FailUnless, Stop, Goto, Places, clock
  <2>4. CASE ObserveAhead(w) \/ Issue(w) \/ ReturnNil(w) \/ ReturnUnobserved(w)
             \/ Answer(w) \/ Cut(w) \/ Observe(w) \/ Record(w)
    BY <2>1, <2>4 DEF ObserveAhead, Issue, ReturnNil, ReturnUnobserved, Answer, Cut,
      Conclude, Observe, ObserveBy, Record, Goto, Places
  <2> QED
    BY <1>4, <2>2, <2>3, <2>4 DEF WorkerStep
<1> QED
  BY <1>3, <1>4 DEF Next, Running, RefuseUnbounded, Start, Expire, FireDeadline, Signal,
    Finish, FinishWith, Exited, vars

(* The iteration budget is shared exactly by any number of workers: it is  *)
(* never overdrawn, and a run nothing cut short has spent all of it.       *)
THEOREM BudgetExact == Safety => []IterationBudget
<1>1. Init => BudgetOK
  BY BoundsAssumption DEF Init, BudgetOK, Options
<1>2. TypeOK /\ BudgetOK /\ ExitOK => IterationBudget
  <2> SUFFICES ASSUME TypeOK, BudgetOK, ExitOK, opts.iterations > 0, Exit, ctx = "live"
               PROVE  iterCount = opts.iterations
    BY DEF BudgetOK, IterationBudget
  <2>1. PICK w \in Workers : pc[w] = "done"
    BY WorkersAssumption DEF ExitOK, Unbounded
  <2>2. opts.iterations \in Nat
    BY BoundsAssumption DEF TypeOK, Options
  <2> QED
    BY <2>1, <2>2 DEF BudgetOK, TypeOK
<1> QED
  BY <1>1, <1>2, BudgetStep, TypeCorrect, Invariance, PTL DEF Safety

-----------------------------------------------------------------------------
(* The books of the run.                                                   *)

InFlight == {w \in Workers : pc[w] \in {"wait", "report"}}

(* Between exits, what was sent is in the books or in flight, and what was *)
(* observed ahead is in the books at once.                                 *)
CountOK ==
  /\ PendingOK
  /\ issued + doubled = served + TotalErrors + TotalCancelled + Cardinality(InFlight)

LEMMA InFlightFinite ==
  /\ IsFiniteSet(InFlight) /\ Cardinality(InFlight) \in Nat
  /\ IsFiniteSet(InFlight') /\ Cardinality(InFlight') \in Nat
  BY WorkersAssumption, FS_Subset, FS_CardinalityType DEF InFlight

LEMMA CountStep == TypeOK /\ CountOK /\ [Next]_vars => CountOK'
<1> SUFFICES ASSUME TypeOK, CountOK, [Next]_vars PROVE CountOK'
  OBVIOUS
<1>1. PendingOK'
  BY PendingStep DEF CountOK
<1>2. CASE UNCHANGED <<sent, tally>> /\ InFlight' = InFlight
  BY <1>1, <1>2 DEF CountOK, sent, tally, TotalErrors, TotalCancelled, Sum3
<1>3. ASSUME NEW w \in Workers, Issue(w) PROVE CountOK'
  <2>1. w \notin InFlight /\ InFlight' = InFlight \cup {w}
    BY <1>3 DEF Issue, Goto, InFlight, TypeOK
  <2>2. Cardinality(InFlight') = Cardinality(InFlight) + 1
    BY <2>1, InFlightFinite, FS_AddElement
  <2>3. issued' = issued + 1 /\ UNCHANGED <<doubled, tally>>
    BY <1>3 DEF Issue
  <2> QED
    BY <1>1, <2>2, <2>3, InFlightFinite DEF CountOK, TypeOK, Failures, tally, TotalErrors,
      TotalCancelled, Sum3
<1>4. ASSUME NEW w \in Workers, Observe(w) PROVE CountOK'
  <2>1. w \in InFlight /\ InFlight' = InFlight \ {w}
    BY <1>4 DEF Observe, ObserveBy, Goto, InFlight, TypeOK
  <2>2. Cardinality(InFlight') = Cardinality(InFlight) - 1
    BY <2>1, InFlightFinite, FS_RemoveElement
  <2>3. outcome[w] \in Failures \cup {"served"}
    BY <1>4 DEF Observe, ObserveBy, CountOK, PendingOK, TypeOK
  <2>4. served' + TotalErrors' + TotalCancelled' = served + TotalErrors + TotalCancelled + 1
    <3>1. CASE outcome[w] = "served"
      <4>1. served' = served + 1 /\ TotalErrors' = TotalErrors /\ TotalCancelled' = TotalCancelled
        BY <1>4, <3>1 DEF Observe, ObserveBy, TotalErrors, TotalCancelled, Sum3
      <4>2. served \in Nat /\ TotalErrors \in Nat /\ TotalCancelled \in Nat
        BY DEF TypeOK, Failures, TotalErrors, TotalCancelled, Sum3
      <4> QED
        BY <4>1, <4>2
    <3>2. CASE outcome[w] \in Failures /\ ctx # "live"
      BY <1>4, <3>2 DEF Observe, ObserveBy, Bump, TypeOK, Failures, TotalErrors,
        TotalCancelled, Sum3
    <3>3. CASE outcome[w] \in Failures /\ ctx = "live"
      BY <1>4, <3>3 DEF Observe, ObserveBy, Bump, TypeOK, Failures, TotalErrors,
        TotalCancelled, Sum3
    <3> QED
      BY <2>3, <3>1, <3>2, <3>3
  <2>5. issued' + doubled' = issued + doubled
    BY <1>4 DEF Observe, ObserveBy, sent
  <2>6. issued + doubled = (served + TotalErrors + TotalCancelled) + Cardinality(InFlight)
    BY DEF CountOK
  <2>7. Cardinality(InFlight) \in Nat /\ Cardinality(InFlight') \in Nat
    BY InFlightFinite
  <2>8. issued' + doubled' = served' + TotalErrors' + TotalCancelled' + Cardinality(InFlight')
    <3>1. ASSUME NEW i, NEW b \in Nat, NEW c \in Nat, NEW b1 \in Nat, NEW c1 \in Nat,
                 i = b + c, b1 = b + 1, c1 = c - 1
          PROVE  i = b1 + c1
      BY <3>1
    <3>2. /\ served + TotalErrors + TotalCancelled \in Nat
          /\ served' + TotalErrors' + TotalCancelled' \in Nat
      BY TypeStep DEF TypeOK, Failures, TotalErrors, TotalCancelled, Sum3
    <3> QED
      BY <2>2, <2>4, <2>5, <2>6, <2>7, <3>1, <3>2
  <2> QED
    BY <1>1, <2>8 DEF CountOK
<1>5. ASSUME NEW w \in Workers, ObserveAhead(w) PROVE CountOK'
  <2>1. InFlight' = InFlight
    BY <1>5 DEF ObserveAhead, Goto, InFlight, TypeOK
  <2>2. served' = served + 1 /\ doubled' = doubled + 1 /\ UNCHANGED <<issued, errors, cancelled>>
    BY <1>5 DEF ObserveAhead
  <2> QED
    BY <1>1, <2>1, <2>2, InFlightFinite DEF CountOK, TypeOK, Failures, TotalErrors,
      TotalCancelled, Sum3
<1>6. ASSUME NEW w \in Workers, WorkerStep(w), ~Issue(w), ~ObserveAhead(w), ~Observe(w)
      PROVE  CountOK'
  <2>1. UNCHANGED <<sent, tally>>
    BY <1>6 DEF WorkerStep, Ramp, LoopHead, Claim, ClaimUnder, ReturnNil, ReturnUnobserved,
      Answer, Cut, Conclude, Fail, FailUnless, Record, Stop
  <2>2. PICK place \in Places :
          /\ pc' = [pc EXCEPT ![w] = place]
          /\ place \in {"wait", "report"} <=> pc[w] \in {"wait", "report"}
    BY <1>6 DEF WorkerStep, Ramp, LoopHead, Claim, ClaimUnder, ReturnNil, ReturnUnobserved,
      Answer, Cut, Conclude, Fail, FailUnless, Record, Stop, Goto, Places
  <2>3. InFlight' = InFlight
    BY <2>2 DEF InFlight, TypeOK
  <2> QED
    BY <1>2, <2>1, <2>3
<1>7. CASE UNCHANGED <<pc, sent, tally>>
  BY <1>2, <1>7 DEF InFlight
<1> QED
  BY <1>3, <1>4, <1>5, <1>6, <1>7 DEF Next, Running, RefuseUnbounded, Start, Expire,
    FireDeadline, Signal, Finish, FinishWith, Exited, vars

(* Every driver, any number of clients: at exit the samples of the summary *)
(* are as many as the commands sent and the SELECTs observed ahead,        *)
(* however the run ended.                                                  *)
THEOREM BooksBalance == Safety => []EveryCommandCounted
<1>1. Init => CountOK
  <2> SUFFICES ASSUME Init PROVE CountOK
    OBVIOUS
  <2>1. InFlight = {}
    BY DEF Init, InFlight
  <2> QED
    BY <2>1, FS_EmptySet DEF Init, CountOK, PendingOK, Failures, TotalErrors,
      TotalCancelled, Sum3
<1>2. TypeOK /\ CountOK /\ ExitOK => EveryCommandCounted
  <2> SUFFICES ASSUME TypeOK, CountOK, ExitOK, Exit
               PROVE  issued + doubled = served + TotalErrors + TotalCancelled
    BY DEF EveryCommandCounted
  <2>1. TotalErrors \in Nat /\ TotalCancelled \in Nat
    BY DEF TypeOK, Failures, TotalErrors, TotalCancelled, Sum3
  <2>2. CASE InFlight = {}
    BY <2>1, <2>2, FS_EmptySet DEF CountOK, TypeOK
  <2>3. InFlight = {}
    BY DEF ExitOK, InFlight
  <2> QED
    BY <2>2, <2>3
<1> QED
  BY <1>1, <1>2, CountStep, TypeCorrect, Invariance, PTL DEF Safety

-----------------------------------------------------------------------------
(* Driver implements RunContract.                                          *)

(* The run harness keeps the contract, for any number of clients and       *)
(* whatever cuts their commands off: each of its steps is a step of the    *)
(* contract or leaves what the contract speaks of alone.                   *)
THEOREM Implements == Safety => Contract!Init /\ [][Contract!Next]_(Contract!vars)
<1>1. Init => Contract!Init
  BY KindsAssumption DEF Init, Options, Contract!Init, TotalErrors, TotalCancelled, Sum3,
    Failures, Exit, Unbounded
<1>2. TypeOK /\ PendingOK /\ RecordedOK /\ ExitOK /\ [Next]_vars
        => [Contract!Next]_(Contract!vars)
  <2> SUFFICES ASSUME TypeOK, PendingOK, RecordedOK, ExitOK, [Next]_vars
               PROVE  [Contract!Next]_(Contract!vars)
    OBVIOUS
  <2>1. CASE RefuseUnbounded
    BY <2>1 DEF RefuseUnbounded, Contract!Next, Contract!Refuse, Exit, Unbounded, clock,
      tally, TotalErrors, TotalCancelled, Sum3
  <2>2. CASE /\ UNCHANGED <<opts, ctx, errors, cancelled>>
             /\ Exit' = Exit /\ (Exit => UNCHANGED status)
    BY <2>2 DEF Contract!vars, Unbounded, TotalErrors, TotalCancelled, Sum3
  <2>3. CASE /\ status = "running" /\ ctx = "live" /\ ctx' # "live"
             /\ UNCHANGED <<opts, status, tally>>
    BY <2>3 DEF Contract!Next, Contract!End, ExitOK, Exit, Unbounded, tally, TotalErrors,
      TotalCancelled, Sum3
  <2>4. ASSUME NEW w \in Workers, status = "running", Observe(w)
        PROVE  [Contract!Next]_(Contract!vars)
    <3>1. UNCHANGED <<opts, status, ctx>> /\ ~Unbounded /\ ~Exit
      BY <2>4 DEF Observe, ObserveBy, ExitOK, Exit, clock
    <3>2. CASE UNCHANGED tally
      BY <3>1, <3>2 DEF Contract!vars, Exit, Unbounded, tally, TotalErrors,
        TotalCancelled, Sum3
    <3>3. CASE outcome[w] = "served"
      BY <2>4, <3>1, <3>3 DEF Observe, ObserveBy, Contract!vars, Exit, Unbounded,
        TotalErrors, TotalCancelled, Sum3
    <3>4. CASE outcome[w] # "served"
      <4>1. outcome[w] \in Failures
        BY <2>4, <3>4 DEF Observe, ObserveBy, PendingOK, TypeOK
      <4>2. CASE ctx # "live"
        <5>1. TotalCancelled' = TotalCancelled + 1 /\ TotalErrors' = TotalErrors
          BY <2>4, <3>4, <4>1, <4>2 DEF Observe, ObserveBy, Bump, Failures, TypeOK,
            TotalErrors, TotalCancelled, Sum3
        <5> QED
          BY <3>1, <4>2, <5>1 DEF Contract!Next, Contract!CutOff, Exit, Unbounded
      <4>3. CASE ctx = "live"
        <5>1. TotalErrors' = TotalErrors + 1 /\ TotalCancelled' = TotalCancelled
          BY <2>4, <3>4, <4>1, <4>3 DEF Observe, ObserveBy, Bump, Failures, TypeOK,
            TotalErrors, TotalCancelled, Sum3
        <5> QED
          BY <3>1, <4>3, <5>1 DEF Contract!Next, Contract!Fault, Exit, Unbounded
      <4> QED
        BY <4>2, <4>3
    <3> QED
      BY <3>3, <3>4
  <2>5. CASE status = "running" /\ Finish
    <3>1. ReturnedError => TotalErrors > 0 \/ opts.driver.silent
      BY DEF RecordedOK, ReturnedError
    <3>2. /\ ~Unbounded /\ ~Exit /\ Exit' /\ UNCHANGED <<opts, ctx, errors, cancelled>>
          /\ status' = IF ReturnedError \/ TotalErrors > 0 THEN "fail" ELSE "pass"
      BY <2>5 DEF Finish, FinishWith, ExitOK, Exit, clock, tally
    <3>3. TotalErrors \in Nat
      BY DEF TotalErrors, Sum3, TypeOK, Failures
    <3>4. Contract!Judge
      BY <3>1, <3>2, <3>3 DEF Contract!Judge, Exit, Unbounded, TotalErrors, TotalCancelled, Sum3
    <3> QED
      BY <3>4 DEF Contract!Next
  <2>6. ASSUME NEW w \in Workers, status = "running", WorkerStep(w), ~Observe(w)
        PROVE  [Contract!Next]_(Contract!vars)
    BY <2>2, <2>3, <2>6 DEF WorkerStep, Ramp, LoopHead, Claim, ClaimUnder, ObserveAhead,
      Issue, ReturnNil, ReturnUnobserved, Answer, Cut, Conclude, Fail, FailUnless, Record,
      Stop, Exit, clock, tally
  <2> QED
    BY <2>1, <2>2, <2>3, <2>4, <2>5, <2>6 DEF Next, Running, Start, Expire, FireDeadline,
      Signal, Exited, Exit, clock, tally, vars
<1> QED
  BY <1>1, <1>2, TypeCorrect, Invariance, PTL DEF Safety
=============================================================================

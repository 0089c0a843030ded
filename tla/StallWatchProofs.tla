-------------------------- MODULE StallWatchProofs --------------------------
(***************************************************************************)
(* Proofs about StallWatch, for every number of backends, every cooldown   *)
(* and every length of log: as long as no capture outlasts the cooldown,   *)
(* the evidence for a line written since the log was opened is fresh, or   *)
(* near if the line was passed over; every file is tried; and the first    *)
(* stall in reach is the first one captured.                               *)
(*                                                                         *)
(* The argument is about the lines that wait.  While the watch reads, time *)
(* stands still until it has read them all; only a capture lets them grow  *)
(* old, and a line that grew old behind one is within its cooldown.        *)
(***************************************************************************)
EXTENDS StallWatch, SequenceTheorems, FiniteSetTheorems, WellFoundedInduction, TLAPS

Entries == [kind : {"stall", "huge"}, at : Nat]
Shots == [line : Nat, start : Nat, tried : Nat]

Early == {"start", "poll", "open"}
Following == {"read", "capture"}
Places == Early \cup Following \cup Over

(* TypeOK, with the sets that depend on the state taken apart.             *)
LogOK == log \in Seq(Entries) /\ \A i \in DOMAIN log : log[i].at <= now
ShotsOK == captures \in Seq(Shots) /\ \A k \in DOMAIN captures :
  /\ captures[k].line \in DOMAIN log
  /\ captures[k].start <= now
  /\ captures[k].tried <= FileCount
ClockOK ==
  /\ now \in 0 .. Horizon
  /\ pollAt \in 0 .. Horizon + PollPeriod
  /\ opened \in 0 .. now
  /\ last \in {-Cooldown} \cup 0 .. now
PlaceOK ==
  /\ opts \in [backends : BackendNums, pprof : Pprofs, longest : Longest, well : BOOLEAN]
  /\ phase \in {"none", "Pending", "Running", "Succeeded", "Failed"}
  /\ {cancelled, errorPage} \subseteq BOOLEAN
  /\ pc \in Places
  /\ file \in 1 .. FileCount
ReadOK ==
  /\ next \in 1 .. Len(log) + 1
  /\ hits \in Nat /\ hits < next
  /\ skipped \subseteq DOMAIN log

Typed == PlaceOK /\ ClockOK /\ LogOK /\ ShotsOK /\ ReadOK

(* Nothing was read before the log was opened.                             *)
EarlyOK == pc \in Early => captures = <<>> /\ skipped = {} /\ hits = 0 /\ next = 1

(* The cooldown runs from the start of the last capture.                   *)
LastOK == last = IF captures = <<>> THEN -Cooldown ELSE Began

CaptureOK == pc = "capture" => captures # <<>> /\ now <= Began + opts.longest

(* A line that waits is new, or it grew old behind the last capture and    *)
(* will be passed over.                                                    *)
Waits(i) == log[i].at >= last /\ (pc = "read" => log[i].at = now \/ Cooling)
UnreadOK == Brief /\ pc \in Following =>
  \A i \in DOMAIN log : i >= next /\ log[i].at >= opened => Waits(i)

FreshOK == Brief => \A k \in DOMAIN captures :
  log[captures[k].line].at >= opened => captures[k].start = log[captures[k].line].at

Near(k, i) ==
  captures[k].start < log[i].at + Cooldown /\ log[i].at < captures[k].start + Cooldown
CoveredOK == Brief => \A i \in skipped : log[i].at >= opened =>
  \E k \in DOMAIN captures : Near(k, i)

Inv ==
  /\ Typed /\ EarlyOK /\ LastOK /\ CaptureOK /\ UnreadOK /\ FreshOK /\ CoveredOK
  /\ EveryFileTried

-----------------------------------------------------------------------------
(* What the parts say of the types. *)

LEMMA Recast ==
  ASSUME NEW S, NEW s \in Seq(S), NEW T, \A i \in 1 .. Len(s) : s[i] \in T
  PROVE  s \in Seq(T)
<1>1. Len(s) \in Nat /\ s \in [1 .. Len(s) -> S]
  BY LenProperties
<1>2. s \in [1 .. Len(s) -> T]
  BY <1>1
<1> HIDE <1>1
<1> QED
  BY <1>1, <1>2, SeqDef

(* The facts about numbers and lengths that the steps keep needing.        *)
LEMMA Facts ==
  ASSUME Typed
  PROVE  /\ Len(log) \in Nat /\ DOMAIN log = 1 .. Len(log)
         /\ \A i \in DOMAIN log : log[i].at \in Nat /\ log[i].at <= now
         /\ Len(captures) \in Nat /\ DOMAIN captures = 1 .. Len(captures)
         /\ captures # <<>> => Len(captures) \in DOMAIN captures
         /\ \A k \in DOMAIN captures : captures[k] \in Shots
         /\ FileCount \in Nat \ {0}
         /\ now \in Nat /\ Cooldown \in Nat /\ Cooldown > 0 /\ last \in Int /\ opened \in Nat
         /\ opts.longest \in Nat
<1>1. Len(log) \in Nat /\ DOMAIN log = 1 .. Len(log)
  BY LenProperties DEF Typed, LogOK
<1>2. \A i \in DOMAIN log : log[i] \in Entries /\ log[i].at <= now
  BY <1>1, ElementOfSeq DEF Typed, LogOK
<1>3. Len(captures) \in Nat /\ DOMAIN captures = 1 .. Len(captures)
  BY LenProperties DEF Typed, ShotsOK
<1>4. captures # <<>> => Len(captures) \in Nat \ {0}
  BY EmptySeq DEF Typed, ShotsOK
<1>5. \A k \in DOMAIN captures : captures[k] \in Shots
  BY <1>3, ElementOfSeq DEF Typed, ShotsOK
<1>6. /\ now \in Nat /\ Cooldown \in Nat /\ Cooldown > 0 /\ last \in Int /\ opened \in Nat
  BY TimeAssumption DEF Typed, ClockOK
<1>7. opts.longest \in Nat /\ opts.backends \in Nat
  BY TimeAssumption DEF Typed, PlaceOK
<1>8. FileCount \in Nat \ {0}
  BY <1>7 DEF FileCount, PerBackend
<1>9. captures # <<>> => Len(captures) \in DOMAIN captures
  BY <1>3, <1>4
<1> QED
  BY <1>1, <1>2, <1>3, <1>5, <1>6, <1>7, <1>8, <1>9 DEF Entries

LEMMA IsTypeOK == Typed => TypeOK
<1> SUFFICES ASSUME Typed PROVE TypeOK
  OBVIOUS
<1> DEFINE Logged == [kind : {"stall", "huge"}, at : 0 .. now]
           Shot == [line : 1 .. Len(log), start : 0 .. now, tried : 0 .. FileCount]
<1>1. \A i \in 1 .. Len(log) : log[i] \in Logged
  <2> SUFFICES ASSUME NEW i \in 1 .. Len(log) PROVE log[i] \in Logged
    OBVIOUS
  <2>1. log[i] \in Entries /\ log[i].at \in Nat /\ log[i].at <= now /\ now \in Nat
    BY Facts, ElementOfSeq DEF Typed, LogOK
  <2>2. log[i] = [kind |-> log[i].kind, at |-> log[i].at] /\ log[i].kind \in {"stall", "huge"}
    BY <2>1 DEF Entries
  <2>3. log[i].at \in 0 .. now
    BY <2>1
  <2> QED
    BY <2>2, <2>3
<1>2. \A k \in 1 .. Len(captures) : captures[k] \in Shot
  <2> SUFFICES ASSUME NEW k \in 1 .. Len(captures) PROVE captures[k] \in Shot
    OBVIOUS
  <2>1. k \in DOMAIN captures /\ captures[k] \in Shots
    BY Facts
  <2>2. captures[k] = [line |-> captures[k].line, start |-> captures[k].start,
                       tried |-> captures[k].tried]
    BY <2>1 DEF Shots
  <2>3. captures[k].line \in 1 .. Len(log)
    BY <2>1, Facts DEF Typed, ShotsOK
  <2>4. captures[k].start \in 0 .. now /\ captures[k].tried \in 0 .. FileCount
    BY <2>1, Facts DEF Typed, ShotsOK, Shots
  <2> HIDE DEF Shots
  <2> QED
    BY <2>2, <2>3, <2>4
<1> HIDE DEF Logged, Shot
<1>3. log \in Seq(Logged)
  BY <1>1, Recast DEF Typed, LogOK
<1>4. captures \in Seq(Shot)
  BY <1>2, Recast DEF Typed, ShotsOK
<1>5. hits \in 0 .. Len(log) /\ skipped \subseteq 1 .. Len(log)
  BY Facts DEF Typed, ReadOK
<1>6. /\ pc \in {"start", "poll", "open", "read", "capture"} \cup Over
      /\ cancelled \in BOOLEAN /\ errorPage \in BOOLEAN
  BY DEF Typed, PlaceOK, Places, Early, Following
<1> QED
  BY <1>3, <1>4, <1>5, <1>6 DEF Typed, PlaceOK, ClockOK, ReadOK, TypeOK, Logged, Shot

-----------------------------------------------------------------------------
(* The steps. *)

LEMMA Starts == Init => Inv
<1> SUFFICES ASSUME Init PROVE Inv
  OBVIOUS
<1>1. /\ Horizon \in Nat /\ PollPeriod \in Nat /\ Cooldown \in Nat
      /\ opts.backends \in Nat
  BY TimeAssumption DEF Init
<1>2. 1 \in 1 .. FileCount
  BY <1>1 DEF FileCount, PerBackend
<1>3. <<>> \in Seq(Entries) /\ <<>> \in Seq(Shots) /\ Len(<<>>) = 0 /\ DOMAIN <<>> = {}
  BY EmptySeq
<1>4. Typed
  <2>1. PlaceOK
    <3>1. cancelled \in BOOLEAN /\ errorPage \in BOOLEAN
      BY DEF Init
    <3> QED
      BY <1>2, <3>1 DEF Init, PlaceOK, Places, Early
  <2>2. ClockOK
    BY <1>1 DEF Init, ClockOK
  <2>3. LogOK /\ ShotsOK
    BY <1>3 DEF Init, LogOK, ShotsOK
  <2>4. ReadOK
    BY <1>3 DEF Init, ReadOK
  <2> QED
    BY <2>1, <2>2, <2>3, <2>4 DEF Typed
<1> QED
  BY <1>3, <1>4 DEF Init, Inv, EarlyOK, LastOK, CaptureOK, UnreadOK, FreshOK, CoveredOK,
    EveryFileTried, Early, Following

(* A step that leaves the log, the clock and the captures alone, and       *)
(* neither begins nor ends one.                                            *)
LEMMA QuietStep ==
  ASSUME Inv, UNCHANGED <<opts, now, log, opened, last, hits, file, captures, skipped>>,
         PlaceOK', pollAt' \in 0 .. Horizon + PollPeriod, next' \in 1 .. Len(log) + 1,
         next' >= next,
         pc' \in Early => pc \in Early /\ next' = next,
         pc' \in Following => pc' = pc,
         pc = "capture" => pc' = "capture"
  PROVE  Inv'
<1>1. /\ next \in Nat /\ next' \in Nat /\ hits \in Nat /\ hits < next
      /\ \A i \in DOMAIN log : i \in Nat
  BY Facts DEF Inv, Typed, ReadOK
<1>2. Typed'
  <2>1. LogOK' /\ ShotsOK'
    BY DEF Inv, Typed, LogOK, ShotsOK, FileCount
  <2>2. ClockOK'
    BY DEF Inv, Typed, ClockOK
  <2>3. ReadOK'
    BY <1>1 DEF Inv, Typed, ReadOK
  <2> QED
    BY <2>1, <2>2, <2>3 DEF Typed
<1>3. EarlyOK' /\ LastOK' /\ CaptureOK'
  BY DEF Inv, EarlyOK, LastOK, CaptureOK, Began, Following
<1>4. UnreadOK'
  BY <1>1 DEF Inv, UnreadOK, Waits, Cooling, Brief
<1>5. FreshOK' /\ CoveredOK'
  BY DEF Inv, FreshOK, CoveredOK, Near, Brief
<1>6. EveryFileTried'
  BY DEF Inv, EveryFileTried, FileCount
<1> QED
  BY <1>2, <1>3, <1>4, <1>5, <1>6 DEF Inv

LEMMA RunStepStep ==
  ASSUME Inv, RunStep
  PROVE  Inv'
<1>1. UNCHANGED <<opts, now, log, opened, last, hits, file, captures, skipped, pc, next, pollAt>>
  BY DEF RunStep, progress, stalls
<1>2. PlaceOK'
  BY DEF RunStep, Inv, Typed, PlaceOK, FileCount
<1>3. next \in 1 .. Len(log) + 1 /\ next >= next /\ pollAt \in 0 .. Horizon + PollPeriod
  BY Facts DEF Inv, Typed, ReadOK, ClockOK
<1> QED
  BY <1>1, <1>2, <1>3, QuietStep

LEMMA CancelStep ==
  ASSUME Inv, Cancel
  PROVE  Inv'
<1>1. UNCHANGED <<opts, now, log, opened, last, hits, file, captures, skipped, pc, next, pollAt>>
  BY DEF Cancel, progress, stalls, target
<1>2. PlaceOK'
  BY DEF Cancel, Inv, Typed, PlaceOK, FileCount, target
<1>3. next \in 1 .. Len(log) + 1 /\ next >= next /\ pollAt \in 0 .. Horizon + PollPeriod
  BY Facts DEF Inv, Typed, ReadOK, ClockOK
<1> QED
  BY <1>1, <1>2, <1>3, QuietStep

(* The watch goes from one place to another, and does nothing else.        *)
LEMMA MoveStep ==
  ASSUME Inv, UNCHANGED <<opts, now, phase, log, cancelled, opened, last, hits, skipped>>,
         UNCHANGED <<file, captures, errorPage>>,
         pollAt' \in 0 .. Horizon + PollPeriod,
         next' \in 1 .. Len(log) + 1, next' >= next,
         pc' \in Over \/ (pc' \in Early /\ next' = next), pc \in Early \cup {"read"},
         pc' \in Early => pc \in Early
  PROVE  Inv'
<1>1. PlaceOK'
  BY DEF Inv, Typed, PlaceOK, Places, FileCount
<1>2. pc # "capture" /\ pc' \notin Following
  BY DEF Early, Following, Over
<1> QED
  BY <1>1, <1>2, QuietStep DEF Early, Over, Following

LEMMA WatchMoves ==
  ASSUME Inv, FindBackends \/ Poll \/ PollFails \/ OpenFails \/ ScanFails \/ End
  PROVE  Inv'
<1>1. next \in 1 .. Len(log) + 1 /\ next >= next /\ pollAt \in 0 .. Horizon + PollPeriod
      /\ next + 1 >= next
  BY Facts DEF Inv, Typed, ReadOK, ClockOK
<1>2. CASE FindBackends \/ PollFails \/ OpenFails \/ End
  <2>1. /\ UNCHANGED <<opts, now, phase, log, cancelled, opened, last, hits, skipped>>
        /\ UNCHANGED <<file, captures, errorPage, next, pollAt>>
    BY <1>2 DEF FindBackends, PollFails, OpenFails, End, target, progress, stalls
  <2>2. /\ pc \in Early \cup {"read"} /\ pc' \in Over \cup Early
        /\ pc' \in Early => pc \in Early
    BY <1>2 DEF FindBackends, PollFails, OpenFails, End, Early, Over
  <2> QED
    BY <1>1, <2>1, <2>2, MoveStep
<1>3. CASE Poll
  <2>1. /\ UNCHANGED <<opts, now, phase, log, cancelled, opened, last, hits, skipped>>
        /\ UNCHANGED <<file, captures, errorPage, next>>
        /\ pollAt' \in {now, now + PollPeriod}
        /\ pc \in Early /\ pc' \in Over \cup Early
    BY <1>3 DEF Poll, PollUntil, target, stalls, Early, Over
  <2>2. pollAt' \in 0 .. Horizon + PollPeriod
    BY <1>1, <2>1, TimeAssumption DEF Inv, Typed, ClockOK
  <2> QED
    BY <1>1, <2>1, <2>2, MoveStep
<1>4. CASE ScanFails
  <2>1. /\ UNCHANGED <<opts, now, phase, log, cancelled, opened, last, hits, skipped>>
        /\ UNCHANGED <<file, captures, errorPage, pollAt>>
        /\ pc = "read" /\ pc' = "failed" /\ next' = next + 1 /\ next <= Len(log)
    BY <1>4 DEF ScanFails, Scan, Unread, target, stalls
  <2>2. next' \in 1 .. Len(log) + 1
    BY <2>1, Facts DEF Inv, Typed, ReadOK
  <2>3. pc' \in Over /\ pc' \notin Early
    BY <2>1 DEF Over, Early
  <2> QED
    BY <1>1, <2>1, <2>2, <2>3, MoveStep
<1> QED
  BY <1>2, <1>3, <1>4

(* Time passes only where no line waits, or during a capture.              *)
LEMMA TickStep ==
  ASSUME Inv, Tick
  PROVE  Inv'
<1>1. /\ now < Horizon /\ now' = now + 1
      /\ pc = "read" => next > Len(log)
      /\ pc = "capture" => now < Began + opts.longest
      /\ UNCHANGED <<opts, phase, log, cancelled, pc, pollAt, opened, next, last, hits, skipped>>
      /\ UNCHANGED <<file, captures, errorPage>>
  <2>1. pc = "read" => ~(next <= Len(log))
    BY DEF Tick, Unread
  <2> QED
    BY <2>1, Facts DEF Tick, target, progress, stalls, Inv, Typed, ReadOK
<1>2. now \in Nat /\ now' \in Nat /\ Horizon \in Nat /\ now <= now'
  BY <1>1, TimeAssumption DEF Inv, Typed, ClockOK
<1>3. Typed'
  <2>1. ClockOK'
    BY <1>1, <1>2, TimeAssumption DEF Inv, Typed, ClockOK
  <2>2. LogOK'
    <3>1. \A i \in DOMAIN log : log[i].at <= now'
      BY <1>2, Facts DEF Inv, Typed
    <3> QED
      BY <1>1, <3>1 DEF Inv, Typed, LogOK
  <2>3. ShotsOK'
    <3>1. \A k \in DOMAIN captures : captures[k].start <= now'
      BY <1>2, Facts DEF Inv, Typed, ShotsOK, Shots
    <3> QED
      BY <1>1, <3>1 DEF Inv, Typed, ShotsOK, FileCount
  <2> QED
    BY <1>1, <2>1, <2>2, <2>3 DEF Inv, Typed, PlaceOK, ReadOK, FileCount
<1>4. EarlyOK' /\ LastOK'
  BY <1>1 DEF Inv, EarlyOK, LastOK, Began
<1>5. CaptureOK'
  <2>1. ASSUME pc = "capture"
        PROVE  now' <= Began + opts.longest
    <3>1. Began \in Nat /\ opts.longest \in Nat
      BY <2>1, Facts DEF Inv, CaptureOK, Began, Shots
    <3> QED
      BY <1>1, <1>2, <2>1, <3>1
  <2> QED
    BY <1>1, <2>1 DEF Inv, CaptureOK, Began
<1>6. UnreadOK'
  <2>1. CASE pc = "read"
    <3>1. \A i \in DOMAIN log : ~(i >= next)
      BY <1>1, <2>1, Facts DEF Inv, Typed, ReadOK
    <3> QED
      BY <1>1, <3>1 DEF UnreadOK
  <2>2. CASE pc # "read"
    BY <1>1, <2>2 DEF Inv, UnreadOK, Waits, Brief
  <2> QED
    BY <2>1, <2>2
<1>7. FreshOK' /\ CoveredOK' /\ EveryFileTried'
  BY <1>1 DEF Inv, FreshOK, CoveredOK, Near, Brief, EveryFileTried, FileCount
<1> QED
  BY <1>3, <1>4, <1>5, <1>6, <1>7 DEF Inv

(* A set of lines is no larger than the log.                               *)
LEMMA SomeLines ==
  ASSUME NEW S, S \subseteq DOMAIN log, Typed
  PROVE  IsFiniteSet(S) /\ Cardinality(S) \in 0 .. Len(log)
<1>1. Len(log) \in Nat /\ DOMAIN log = 1 .. Len(log)
  BY Facts
<1>2. IsFiniteSet(1 .. Len(log)) /\ Cardinality(1 .. Len(log)) = Len(log)
  BY <1>1, FS_Interval
<1>3. IsFiniteSet(S) /\ Cardinality(S) <= Len(log)
  BY <1>1, <1>2, FS_Subset
<1> QED
  BY <1>1, <1>3, FS_CardinalityType

LEMMA OpenStep ==
  ASSUME Inv, Open
  PROVE  Inv'
<1>1. /\ UNCHANGED <<opts, now, phase, log, cancelled, pollAt, hits, skipped, file, captures>>
      /\ UNCHANGED <<errorPage, last>>
      /\ pc = "open" /\ pc' = "read" /\ opened' = now
  BY DEF Open, OpenWith, target
<1>2. captures = <<>> /\ skipped = {} /\ hits = 0 /\ last = -Cooldown
  BY <1>1 DEF Inv, EarlyOK, LastOK, Early
<1>3. next' \in 1 .. Len(log) + 1
  <2>0. PICK asked \in pollAt .. now :
          next' = 1 + Cardinality({i \in DOMAIN log : ~InReach(i, asked)})
    BY DEF Open, OpenWith
  <2> DEFINE beyond == {i \in DOMAIN log : ~InReach(i, asked)}
  <2>1. Cardinality(beyond) \in 0 .. Len(log)
    BY SomeLines DEF Inv
  <2>2. next' = 1 + Cardinality(beyond)
    BY <2>0
  <2> HIDE DEF beyond
  <2> QED
    BY <2>1, <2>2, Facts DEF Inv
<1>4. Typed'
  <2>1. PlaceOK'
    BY <1>1 DEF Inv, Typed, PlaceOK, Places, Following, FileCount
  <2>2. ClockOK'
    BY <1>1, Facts DEF Inv, Typed, ClockOK
  <2>3. LogOK' /\ ShotsOK'
    BY <1>1 DEF Inv, Typed, LogOK, ShotsOK, FileCount
  <2>4. ReadOK'
    BY <1>1, <1>2, <1>3, Facts DEF Inv, Typed, ReadOK
  <2> QED
    BY <2>1, <2>2, <2>3, <2>4 DEF Typed
<1>5. EarlyOK' /\ LastOK' /\ CaptureOK'
  BY <1>1 DEF Inv, EarlyOK, LastOK, CaptureOK, Began, Early
<1>6. UnreadOK'
  <2>1. ASSUME NEW i \in DOMAIN log, log[i].at >= now
        PROVE  log[i].at = now /\ log[i].at >= last
    BY <1>2, <2>1, Facts DEF Inv
  <2> QED
    BY <1>1, <2>1 DEF UnreadOK, Waits
<1>7. FreshOK' /\ CoveredOK' /\ EveryFileTried'
  <2>1. DOMAIN captures = {}
    BY <1>2, EmptySeq
  <2> QED
    BY <1>1, <1>2, <2>1 DEF FreshOK, CoveredOK, EveryFileTried
<1> QED
  BY <1>4, <1>5, <1>6, <1>7 DEF Inv

LEMMA WriteStep ==
  ASSUME Inv, Write
  PROVE  Inv'
<1>1. /\ UNCHANGED <<opts, now, phase, cancelled, pc, pollAt, opened, next, last, hits>>
      /\ UNCHANGED <<skipped, file, captures, errorPage>>
  BY DEF Write, progress, stalls
<1>2. PICK kind \in {"stall", "huge"} : log' = Append(log, [kind |-> kind, at |-> now])
  BY DEF Write
<1> DEFINE line == [kind |-> kind, at |-> now]
<1>3. line \in Entries /\ line.at = now /\ now \in Nat /\ last <= now /\ now <= now
  BY Facts DEF Entries, Inv, Typed, ClockOK
<1> HIDE DEF line
<1>4. /\ log' \in Seq(Entries)
      /\ Len(log') = Len(log) + 1
      /\ \A i \in DOMAIN log : log'[i] = log[i]
      /\ log'[Len(log) + 1] = line
      /\ DOMAIN log' = DOMAIN log \cup {Len(log) + 1}
  <2>1. log \in Seq(Entries) /\ log' = Append(log, line)
    BY <1>2 DEF line, Inv, Typed, LogOK
  <2>2. /\ log' \in Seq(Entries)
        /\ Len(log') = Len(log) + 1
        /\ \A i \in 1 .. Len(log) : log'[i] = log[i]
        /\ log'[Len(log) + 1] = line
    BY <1>3, <2>1, AppendProperties
  <2>3. DOMAIN log' = 1 .. Len(log) + 1
    BY <2>2, LenProperties
  <2> QED
    BY <2>2, <2>3, Facts DEF Inv
<1>5. Typed'
  <2>1. PlaceOK' /\ ClockOK'
    BY <1>1 DEF Inv, Typed, PlaceOK, ClockOK, FileCount
  <2>2. LogOK'
    BY <1>1, <1>3, <1>4, Facts DEF Inv, Typed, LogOK
  <2>3. ShotsOK'
    BY <1>1, <1>4 DEF Inv, Typed, ShotsOK, FileCount
  <2>4. ReadOK'
    BY <1>1, <1>4, Facts DEF Inv, Typed, ReadOK
  <2> QED
    BY <2>1, <2>2, <2>3, <2>4 DEF Typed
<1>6. EarlyOK' /\ LastOK' /\ CaptureOK' /\ EveryFileTried'
  BY <1>1 DEF Inv, EarlyOK, LastOK, CaptureOK, Began, EveryFileTried, FileCount
<1>7. UnreadOK'
  <2> SUFFICES ASSUME Brief, pc \in Following, NEW i \in DOMAIN log',
                      i >= next, log'[i].at >= opened
               PROVE  Waits(i)'
    BY <1>1 DEF UnreadOK, Brief
  <2>1. CASE i \in DOMAIN log
    BY <1>1, <1>4, <2>1 DEF Inv, UnreadOK, Waits, Cooling
  <2>2. CASE i = Len(log) + 1
    BY <1>1, <1>3, <1>4, <2>2, Facts DEF Inv, Waits
  <2> QED
    BY <1>4, <2>1, <2>2
<1>8. FreshOK'
  <2>1. \A k \in DOMAIN captures : log'[captures[k].line] = log[captures[k].line]
    BY <1>4 DEF Inv, Typed, ShotsOK
  <2> QED
    BY <1>1, <2>1 DEF Inv, FreshOK, Brief
<1>9. CoveredOK'
  <2>1. \A i \in skipped : log'[i] = log[i]
    BY <1>4 DEF Inv, Typed, ReadOK
  <2> QED
    BY <1>1, <2>1 DEF Inv, CoveredOK, Brief, Near
<1> QED
  BY <1>5, <1>6, <1>7, <1>8, <1>9 DEF Inv

(* A line passed over is within the cooldown of the last capture.          *)
LEMMA SkipStep ==
  ASSUME Inv, SkipStall
  PROVE  Inv'
<1>1. /\ UNCHANGED <<opts, now, phase, log, cancelled, pc, pollAt, opened, file, captures>>
      /\ UNCHANGED <<last, errorPage>>
      /\ pc = "read" /\ next <= Len(log) /\ Cooling
      /\ next' = next + 1 /\ hits' = hits + 1 /\ skipped' = skipped \cup {next}
  BY DEF SkipStall, Skip, Scan, Unread, target
<1>2. next \in DOMAIN log /\ next \in Nat /\ hits \in Nat /\ hits < next
  BY <1>1, Facts DEF Inv, Typed, ReadOK
<1>3. captures # <<>> /\ last = Began /\ now < last + Cooldown
  <2>1. now \in Nat /\ Cooldown \in Nat /\ last \in Int /\ now - last < Cooldown
    BY <1>1, Facts DEF Inv, Cooling
  <2>2. last # -Cooldown
    BY <2>1
  <2> QED
    BY <2>1, <2>2 DEF Inv, LastOK
<1>4. Typed'
  <2>1. PlaceOK' /\ ClockOK' /\ LogOK' /\ ShotsOK'
    BY <1>1 DEF Inv, Typed, PlaceOK, ClockOK, LogOK, ShotsOK, FileCount
  <2>2. ReadOK'
    <3>1. next' \in 1 .. Len(log) + 1 /\ hits' \in Nat /\ hits' < next'
      BY <1>1, <1>2, Facts DEF Inv
    <3>2. skipped' \subseteq DOMAIN log
      BY <1>1, <1>2 DEF Inv, Typed, ReadOK
    <3> QED
      BY <1>1, <3>1, <3>2 DEF ReadOK
  <2> QED
    BY <2>1, <2>2 DEF Typed
<1>5. EarlyOK' /\ LastOK' /\ CaptureOK' /\ EveryFileTried' /\ FreshOK'
  BY <1>1 DEF Inv, EarlyOK, LastOK, CaptureOK, Began, EveryFileTried, FileCount, Early,
    FreshOK, Brief
<1>6. UnreadOK'
  <2>1. \A i \in DOMAIN log : i >= next + 1 => i >= next
    BY <1>2, Facts DEF Inv
  <2> QED
    BY <1>1, <2>1 DEF Inv, UnreadOK, Waits, Cooling, Brief
<1>7. CoveredOK'
  <2> SUFFICES ASSUME Brief, log[next].at >= opened
               PROVE  \E k \in DOMAIN captures : Near(k, next)
    BY <1>1 DEF Inv, CoveredOK, Brief, Near
  <2>1. log[next].at >= last
    BY <1>1, <1>2 DEF Inv, UnreadOK, Waits, Following
  <2>2. Len(captures) \in DOMAIN captures
    BY <1>3, Facts DEF Inv
  <2>3. Near(Len(captures), next)
    <3>1. /\ log[next].at \in Nat /\ log[next].at <= now /\ now \in Nat
          /\ Cooldown \in Nat /\ Cooldown > 0 /\ last \in Int
      BY <1>2, Facts DEF Inv
    <3>2. last < log[next].at + Cooldown /\ log[next].at < last + Cooldown
      BY <1>3, <2>1, <3>1
    <3> QED
      BY <1>3, <3>2 DEF Near, Began
  <2> QED
    BY <2>2, <2>3
<1> QED
  BY <1>4, <1>5, <1>6, <1>7 DEF Inv

(* A capture begins outside any cooldown, where every line that waits was  *)
(* written now.                                                            *)
LEMMA CaptureStep ==
  ASSUME Inv, CaptureStall
  PROVE  Inv'
<1>1. /\ UNCHANGED <<opts, now, phase, log, cancelled, pollAt, opened, skipped, errorPage>>
      /\ pc = "read" /\ pc' = "capture" /\ next <= Len(log) /\ ~Cooling
      /\ next' = next + 1 /\ hits' = hits + 1 /\ last' = now /\ file' = 1
  BY DEF CaptureStall, CaptureFrom, Scan, Unread, target
<1> DEFINE shot == [line |-> next, start |-> now, tried |-> 0]
<1>2. next \in DOMAIN log /\ next \in Nat /\ hits \in Nat /\ hits < next /\ now \in Nat
  BY <1>1, Facts DEF Inv, Typed, ReadOK
<1>3. shot \in Shots /\ shot.line = next /\ shot.start = now /\ shot.tried = 0
  BY <1>2 DEF Shots
<1>4. captures' = Append(captures, shot)
  BY DEF CaptureStall, CaptureFrom
<1> HIDE DEF shot
<1>5. /\ captures' \in Seq(Shots) /\ captures' # <<>>
      /\ Len(captures') = Len(captures) + 1
      /\ \A k \in DOMAIN captures : captures'[k] = captures[k]
      /\ captures'[Len(captures')] = shot
      /\ DOMAIN captures' = DOMAIN captures \cup {Len(captures')}
  <2>1. captures \in Seq(Shots)
    BY DEF Inv, Typed, ShotsOK
  <2>2. /\ captures' \in Seq(Shots) /\ captures' # <<>>
        /\ Len(captures') = Len(captures) + 1
        /\ \A k \in 1 .. Len(captures) : captures'[k] = captures[k]
        /\ captures'[Len(captures) + 1] = shot
    BY <1>3, <1>4, <2>1, AppendProperties
  <2>3. DOMAIN captures' = 1 .. Len(captures')
    BY <2>2, LenProperties
  <2> QED
    BY <2>2, <2>3, Facts DEF Inv
<1>6. Typed'
  <2>1. ClockOK' /\ LogOK'
    BY <1>1, <1>2 DEF Inv, Typed, ClockOK, LogOK
  <2>2. PlaceOK'
    BY <1>1, Facts DEF Inv, Typed, PlaceOK, Places, Following, FileCount
  <2>3. ShotsOK'
    <3>1. ASSUME NEW k \in DOMAIN captures'
          PROVE  /\ captures'[k].line \in DOMAIN log
                 /\ captures'[k].start <= now
                 /\ captures'[k].tried <= FileCount
      <4>1. CASE k \in DOMAIN captures
        BY <1>5, <4>1 DEF Inv, Typed, ShotsOK
      <4>2. CASE k = Len(captures')
        BY <1>2, <1>3, <1>5, <4>2, Facts DEF Inv
      <4> QED
        BY <1>5, <4>1, <4>2
    <3> QED
      BY <1>1, <1>5, <3>1 DEF ShotsOK, FileCount
  <2>4. ReadOK'
    <3>1. next' \in 1 .. Len(log) + 1 /\ hits' \in Nat /\ hits' < next'
      BY <1>1, <1>2, Facts DEF Inv
    <3> QED
      BY <1>1, <3>1 DEF Inv, Typed, ReadOK
  <2> QED
    BY <2>1, <2>2, <2>3, <2>4 DEF Typed
<1>7. EarlyOK' /\ LastOK'
  BY <1>1, <1>3, <1>5 DEF EarlyOK, LastOK, Began, Early
<1>8. CaptureOK'
  <2>1. now <= now + opts.longest
    BY <1>2, Facts DEF Inv
  <2> QED
    BY <1>1, <1>3, <1>5, <2>1 DEF CaptureOK, Began
<1>9. ASSUME Brief, NEW i \in DOMAIN log, i >= next, log[i].at >= opened
      PROVE  log[i].at = now
  BY <1>1, <1>9 DEF Inv, UnreadOK, Waits, Following
<1>10. UnreadOK'
  <2> SUFFICES ASSUME Brief, NEW i \in DOMAIN log, i >= next + 1, log[i].at >= opened
               PROVE  log[i].at >= now
    BY <1>1 DEF UnreadOK, Waits, Brief
  <2>1. i >= next /\ now >= now
    BY <1>2, Facts DEF Inv
  <2> QED
    BY <1>9, <2>1
<1>11. FreshOK'
  <2> SUFFICES ASSUME Brief, NEW k \in DOMAIN captures', log[captures'[k].line].at >= opened
               PROVE  captures'[k].start = log[captures'[k].line].at
    BY <1>1 DEF FreshOK, Brief
  <2>1. CASE k \in DOMAIN captures
    BY <1>5, <2>1 DEF Inv, FreshOK
  <2>2. CASE k = Len(captures')
    <3>1. next >= next
      BY <1>2
    <3> QED
      BY <1>2, <1>3, <1>5, <1>9, <2>2, <3>1
  <2> QED
    BY <1>5, <2>1, <2>2
<1>12. CoveredOK'
  <2>1. \A k \in DOMAIN captures, i \in DOMAIN log : Near(k, i) => Near(k, i)'
    BY <1>1, <1>5 DEF Near
  <2>2. skipped \subseteq DOMAIN log
    BY DEF Inv, Typed, ReadOK
  <2> QED
    BY <1>1, <1>5, <2>1, <2>2 DEF Inv, CoveredOK, Brief
<1>13. EveryFileTried'
  BY <1>1, <1>5 DEF Inv, EveryFileTried, FileCount
<1> QED
  BY <1>6, <1>7, <1>8, <1>10, <1>11, <1>12, <1>13 DEF Inv

(* A capture goes on whatever a file leaves; at its end, if it was brief,  *)
(* its cooldown still runs.                                                *)
LEMMA SaveStep ==
  ASSUME Inv, Save
  PROVE  Inv'
<1>1. /\ UNCHANGED <<opts, now, phase, log, cancelled, pollAt, opened, next, last, hits, skipped>>
      /\ pc = "capture"
      /\ captures' = [captures EXCEPT ![Len(captures)].tried = file]
  BY DEF Save, SaveWhile, target, progress, stalls
<1>2. \/ file < FileCount /\ file' = file + 1 /\ pc' = "capture"
      \/ file = FileCount /\ file' = file /\ pc' = "read"
  <2>1. \A kind : Left(kind) \subseteq Results
    BY DEF Left, Results
  <2>2. file \in Nat /\ file <= FileCount /\ FileCount \in Nat
    BY Facts DEF Inv, Typed, PlaceOK
  <2>3. PICK left \in Left(Kind(file)) :
          IF file < FileCount /\ left \in Results
          THEN file' = file + 1 /\ pc' = pc
          ELSE pc' = "read" /\ file' = file
    BY DEF Save, SaveWhile
  <2>4. left \in Results
    BY <2>1
  <2> QED
    BY <1>1, <2>2, <2>3, <2>4
<1>3. errorPage' \in BOOLEAN
  <2>1. PICK left \in Left(Kind(file)) : errorPage' = (errorPage \/ left = "error page")
    BY DEF Save, SaveWhile
  <2> QED
    BY <2>1
<1> DEFINE n == Len(captures)
           shot == [captures[n] EXCEPT !.tried = file]
<1>4. n \in Nat /\ n \in DOMAIN captures /\ DOMAIN captures = 1 .. n /\ captures # <<>>
  BY <1>1, Facts DEF Inv, CaptureOK
<1>5. captures[n] \in Shots /\ file \in Nat /\ file <= FileCount
  BY <1>4, Facts DEF Inv, Typed, PlaceOK
<1>6. /\ shot \in Shots /\ shot.tried = file
      /\ shot.line = captures[n].line /\ shot.start = captures[n].start
  BY <1>5 DEF Shots
<1>7. /\ captures' \in Seq(Shots) /\ captures' # <<>> /\ Len(captures') = n
      /\ DOMAIN captures' = DOMAIN captures
      /\ captures'[n] = shot
      /\ \A k \in DOMAIN captures : k # n => captures'[k] = captures[k]
  <2>1. captures \in Seq(Shots) /\ captures' = [captures EXCEPT ![n] = shot]
    BY <1>1 DEF Inv, Typed, ShotsOK
  <2> HIDE DEF shot
  <2>2. n \in 1 .. Len(captures)
    BY <1>4
  <2>3. /\ captures' \in Seq(Shots) /\ Len(captures') = n
        /\ \A k \in 1 .. Len(captures) : captures'[k] = IF k = n THEN shot ELSE captures[k]
    BY <1>6, <2>1, <2>2, ExceptSeq
  <2>4. DOMAIN captures' = 1 .. n
    BY <2>3, LenProperties
  <2>5. captures' # <<>>
    BY <1>4, <2>4, EmptySeq
  <2> QED
    BY <1>4, <2>3, <2>4, <2>5
<1> HIDE DEF n, shot
<1>8. \A k \in DOMAIN captures : /\ captures'[k].line = captures[k].line
                                 /\ captures'[k].start = captures[k].start
  BY <1>6, <1>7
<1>9. Typed'
  <2>1. ClockOK' /\ LogOK' /\ ReadOK'
    BY <1>1 DEF Inv, Typed, ClockOK, LogOK, ReadOK
  <2>2. PlaceOK'
    BY <1>1, <1>2, <1>3, Facts DEF Inv, Typed, PlaceOK, Places, Following, FileCount
  <2>3. ShotsOK'
    <3>1. \A k \in DOMAIN captures : captures'[k].tried <= FileCount
      BY <1>5, <1>6, <1>7 DEF Inv, Typed, ShotsOK
    <3> QED
      BY <1>1, <1>7, <1>8, <3>1 DEF Inv, Typed, ShotsOK, FileCount
  <2> QED
    BY <2>1, <2>2, <2>3 DEF Typed
<1>10. Began' = Began /\ Began = last
  BY <1>4, <1>7, <1>8 DEF Inv, LastOK, Began, n
<1>11. EarlyOK' /\ LastOK' /\ CaptureOK'
  BY <1>1, <1>2, <1>4, <1>7, <1>10 DEF Inv, EarlyOK, LastOK, CaptureOK, Early
<1>12. UnreadOK'
  <2>1. ASSUME Brief
        PROVE  Cooling
    <3>1. now <= last + opts.longest
      BY <1>1, <1>10 DEF Inv, CaptureOK
    <3> QED
      BY <2>1, <3>1, Facts DEF Inv, Brief, Cooling
  <2>2. Following = {"read", "capture"}
    BY DEF Following
  <2> QED
    BY <1>1, <1>2, <2>1, <2>2 DEF Inv, UnreadOK, Waits, Cooling, Brief
<1>13. FreshOK'
  BY <1>1, <1>7, <1>8 DEF Inv, FreshOK, Brief
<1>14. CoveredOK'
  <2>1. \A k \in DOMAIN captures : \A i \in DOMAIN log : Near(k, i) => Near(k, i)'
    BY <1>1, <1>8 DEF Near
  <2>2. skipped \subseteq DOMAIN log
    BY DEF Inv, Typed, ReadOK
  <2> QED
    BY <1>1, <1>7, <2>1, <2>2 DEF Inv, CoveredOK, Brief
<1>15. EveryFileTried'
  <2> SUFFICES ASSUME NEW k \in DOMAIN captures
               PROVE  (pc' = "capture" /\ k = n) \/ captures'[k].tried = FileCount
    BY <1>1, <1>7 DEF EveryFileTried, FileCount
  <2>1. CASE k = n
    BY <1>2, <1>6, <1>7, <2>1
  <2>2. CASE k # n
    BY <1>7, <2>2 DEF Inv, EveryFileTried, n
  <2> QED
    BY <2>1, <2>2
<1> QED
  BY <1>9, <1>11, <1>12, <1>13, <1>14, <1>15 DEF Inv

LEMMA Steps == Inv /\ [Next]_vars => Inv'
<1> SUFFICES ASSUME Inv, [Next]_vars PROVE Inv'
  OBVIOUS
<1>1. CASE RunStep \/ Write \/ Cancel \/ Tick
  BY <1>1, RunStepStep, WriteStep, CancelStep, TickStep
<1>2. CASE FindBackends \/ Poll \/ PollFails \/ OpenFails \/ ScanFails \/ End
  BY <1>2, WatchMoves
<1>3. CASE Open \/ SkipStall \/ CaptureStall \/ Save
  BY <1>3, OpenStep, SkipStep, CaptureStep, SaveStep
<1>4. CASE UNCHANGED vars
  <2>1. UNCHANGED <<opts, now, phase, log, cancelled, pc, pollAt, opened, next, last, hits>>
    BY <1>4 DEF vars, target, progress, stalls
  <2>2. UNCHANGED <<skipped, file, captures, errorPage>>
    BY <1>4 DEF vars, stalls
  <2>3. PlaceOK' /\ pollAt \in 0 .. Horizon + PollPeriod
    BY <2>1, <2>2 DEF Inv, Typed, PlaceOK, ClockOK, FileCount
  <2>4. next \in 1 .. Len(log) + 1 /\ next >= next
    BY Facts DEF Inv, Typed, ReadOK
  <2> QED
    BY <2>1, <2>2, <2>3, <2>4, QuietStep
<1> QED
  BY <1>1, <1>2, <1>3, <1>4 DEF Next, Cluster, Answer, Work, Finished

LEMMA Always == Spec => []Inv
<1> QED
  BY Starts, Steps, PTL DEF Spec

(* Every variable keeps its type.                                          *)
THEOREM TypeCorrect == Spec => []TypeOK
<1>1. Inv => TypeOK
  BY IsTypeOK DEF Inv
<1> QED
  BY Always, <1>1, PTL

(* Evidence is of the moment a stall is reported, whatever the number of   *)
(* backends, as long as no capture outlasts the cooldown and for the lines *)
(* written since the log was opened.                                       *)
THEOREM FreshEvidenceWhenBrief == Spec => []FreshWhenBrief
<1>1. Inv => FreshWhenBrief
  <2> SUFFICES ASSUME Inv, Brief, NEW c \in Captures, log[c.line].at >= opened
               PROVE  c.start = log[c.line].at
    BY DEF FreshWhenBrief, FreshSinceOpened, Fresh
  <2>1. PICK k \in DOMAIN captures : c = captures[k]
    BY DEF Captures, Range
  <2> QED
    BY <2>1 DEF Inv, FreshOK
<1> QED
  BY Always, <1>1, PTL

(* On the same conditions, a stall that was passed over has evidence from  *)
(* less than a cooldown away.                                              *)
THEOREM SkippedCovered == Spec => []SkippedIsCovered
<1>1. Inv => SkippedIsCovered
  <2> SUFFICES ASSUME Inv, Brief, NEW i \in skipped, log[i].at >= opened
               PROVE  \E c \in Captures : /\ c.start < log[i].at + Cooldown
                                          /\ log[i].at < c.start + Cooldown
    BY DEF SkippedIsCovered
  <2>1. PICK k \in DOMAIN captures : Near(k, i)
    BY DEF Inv, CoveredOK
  <2>2. captures[k] \in Captures
    BY <2>1 DEF Captures, Range
  <2> QED
    BY <2>1, <2>2 DEF Near
<1> QED
  BY Always, <1>1, PTL

(* A file that cannot be had costs nothing but itself.                     *)
THEOREM FilesAllTried == Spec => []EveryFileTried
<1>1. Inv => EveryFileTried
  BY DEF Inv
<1> QED
  BY Always, <1>1, PTL

-----------------------------------------------------------------------------
(* The first stall in reach is the first one captured.                     *)

(* The log is in the order of time.                                        *)
Ordered == \A i, j \in DOMAIN log : i <= j => log[i].at <= log[j].at

(* Until the first stall is read, the lines behind the watch are the ones  *)
(* that were too old for it.                                               *)
HeadOK ==
  /\ captures # <<>> => hits > 0
  /\ pc \in Following /\ hits = 0 => \A i \in 1 .. next - 1 : ~InReach(i, opened)
  /\ FirstCaptured

LEMMA LeastNumber ==
  ASSUME NEW T \in SUBSET Nat, T # {}
  PROVE  \E n \in T : \A m \in T : n <= m
<1> DEFINE less == OpToRel(<, Nat)
<1>1. PICK n \in T : \A m \in T : <<m, n>> \notin less
  <2>1. IsWellFoundedOn(less, Nat)
    BY NatLessThanWellFounded
  <2> HIDE DEF less
  <2> QED
    BY <2>1, WFMin
<1>2. \A a, b \in Nat : a < b => <<a, b>> \in less
  BY DEF OpToRel
<1> HIDE DEF less
<1>3. \A m \in T : ~(m < n)
  BY <1>1, <1>2
<1> QED
  BY <1>3

(* Counting a set of numbers that has no gap names its members.            *)
LEMMA Prefix ==
  ASSUME NEW n \in Nat, NEW S \in SUBSET (1 .. n),
         \A i, j \in 1 .. n : i <= j /\ j \in S => i \in S
  PROVE  S = 1 .. Cardinality(S)
<1> DEFINE T == {i \in 1 .. n + 1 : i \notin S}
<1>1. T \in SUBSET Nat /\ n + 1 \in T
  OBVIOUS
<1>2. PICK m \in T : \A i \in T : m <= i
  BY <1>1, LeastNumber
<1>3. m \in 1 .. n + 1 /\ m \notin S
  BY <1>2
<1>4. \A i \in 1 .. m - 1 : i \in S
  BY <1>2, <1>3
<1>5. \A i \in S : i \in 1 .. m - 1
  BY <1>3
<1>6. S = 1 .. m - 1
  BY <1>4, <1>5
<1>7. m - 1 \in Nat
  BY <1>3
<1>8. Cardinality(1 .. m - 1) = m - 1
  BY <1>7, FS_Interval
<1> QED
  BY <1>6, <1>8

LEMMA HeadStarts == Init => Ordered /\ HeadOK
<1> SUFFICES ASSUME Init PROVE Ordered /\ HeadOK
  OBVIOUS
<1>1. DOMAIN <<>> = {}
  OBVIOUS
<1> QED
  BY <1>1 DEF Init, Ordered, HeadOK, FirstCaptured, Following

(* A step that reads no stall.                                             *)
LEMMA HeadKept ==
  ASSUME HeadOK, UNCHANGED <<log, opened, hits>>,
         captures # <<>> => captures' # <<>> /\ captures'[1].line = captures[1].line,
         captures = <<>> => captures' = <<>>,
         pc' \in Following => pc \in Following /\ next' = next
  PROVE  HeadOK'
<1>1. captures' # <<>> => hits' > 0
  BY DEF HeadOK
<1>2. pc' \in Following /\ hits' = 0 => \A i \in 1 .. next' - 1 : ~InReach(i, opened)'
  BY DEF HeadOK, InReach
<1>3. FirstCaptured'
  BY DEF HeadOK, FirstCaptured, InReach
<1> QED
  BY <1>1, <1>2, <1>3 DEF HeadOK

LEMMA HeadWrite ==
  ASSUME Inv, Ordered, HeadOK, Write
  PROVE  Ordered' /\ HeadOK'
<1>1. UNCHANGED <<now, pc, opened, next, hits, captures>>
  BY DEF Write, progress, stalls
<1>2. PICK kind \in {"stall", "huge"} : log' = Append(log, [kind |-> kind, at |-> now])
  BY DEF Write
<1> DEFINE line == [kind |-> kind, at |-> now]
<1>3. line \in Entries /\ line.at = now /\ now \in Nat
  BY Facts DEF Entries, Inv
<1> HIDE DEF line
<1>4. /\ \A i \in DOMAIN log : log'[i] = log[i] /\ i \in Nat /\ i <= Len(log)
      /\ Len(log) \in Nat
      /\ log'[Len(log) + 1].at = now
      /\ DOMAIN log' = DOMAIN log \cup {Len(log) + 1}
  <2>1. log \in Seq(Entries) /\ log' = Append(log, line)
    BY <1>2 DEF line, Inv, Typed, LogOK
  <2>2. /\ log' \in Seq(Entries)
        /\ Len(log') = Len(log) + 1
        /\ \A i \in 1 .. Len(log) : log'[i] = log[i]
        /\ log'[Len(log) + 1] = line
    BY <1>3, <2>1, AppendProperties
  <2>3. DOMAIN log' = 1 .. Len(log) + 1
    BY <2>2, LenProperties
  <2> QED
    BY <1>3, <2>2, <2>3, Facts DEF Inv
<1>5. Ordered'
  <2> SUFFICES ASSUME NEW i \in DOMAIN log', NEW j \in DOMAIN log', i <= j
               PROVE  log'[i].at <= log'[j].at
    BY DEF Ordered
  <2>1. CASE j \in DOMAIN log
    <3>1. i \in DOMAIN log
      BY <1>4, <2>1
    <3> QED
      BY <1>4, <2>1, <3>1 DEF Ordered
  <2>2. CASE j = Len(log) + 1 /\ i \in DOMAIN log
    BY <1>4, <2>2, Facts DEF Inv
  <2>3. CASE j = Len(log) + 1 /\ i = Len(log) + 1
    BY <1>3, <1>4, <2>3
  <2> QED
    BY <1>4, <2>1, <2>2, <2>3
<1>6. \A n : n \in 1 .. Len(log) + 1 /\ (\A i \in 1 .. n - 1 : ~InReach(i, opened))
        => \A i \in 1 .. n - 1 : ~InReach(i, opened)'
  <2> SUFFICES ASSUME NEW n \in 1 .. Len(log) + 1, NEW i \in 1 .. n - 1, ~InReach(i, opened)
               PROVE  ~InReach(i, opened)'
    OBVIOUS
  <2>1. i \in DOMAIN log
    BY Facts DEF Inv
  <2> QED
    BY <1>1, <1>4, <2>1 DEF InReach
<1>7. next \in 1 .. Len(log) + 1
  BY DEF Inv, Typed, ReadOK
<1>8. captures # <<>> => captures[1].line \in 1 .. Len(log) + 1
  <2>1. captures # <<>> => 1 \in DOMAIN captures
    BY Facts DEF Inv
  <2> QED
    BY <2>1, Facts DEF Inv, Typed, ShotsOK
<1>9. HeadOK'
  <2>1. FirstCaptured'
    BY <1>1, <1>6, <1>8 DEF HeadOK, FirstCaptured
  <2> QED
    BY <1>1, <1>6, <1>7, <2>1 DEF HeadOK
<1> QED
  BY <1>5, <1>9

(* The log is in order, so what is too old for the watch is its beginning. *)
LEMMA HeadOpen ==
  ASSUME Inv, Ordered, HeadOK, Open
  PROVE  HeadOK'
<1>0. PICK asked \in pollAt .. now :
        next' = 1 + Cardinality({i \in DOMAIN log : ~InReach(i, asked)})
  BY DEF Open, OpenWith
<1>1. /\ UNCHANGED <<log, hits, captures>>
      /\ pc = "open" /\ opened' = now
      /\ asked \in Int /\ asked <= now
      /\ next' = 1 + Cardinality({i \in DOMAIN log : ~InReach(i, asked)})
  BY <1>0 DEF Open, OpenWith, target, Inv, Typed, ClockOK
<1>2. captures = <<>> /\ hits = 0
  BY <1>1 DEF Inv, EarlyOK, Early
<1> DEFINE beyond == {i \in DOMAIN log : ~InReach(i, asked)}
<1>3. Len(log) \in Nat /\ DOMAIN log = 1 .. Len(log)
  BY Facts DEF Inv
<1>4. \A i, j \in DOMAIN log : i <= j /\ j \in beyond => i \in beyond
  <2> SUFFICES ASSUME NEW i \in DOMAIN log, NEW j \in DOMAIN log, i <= j, ~InReach(j, asked)
               PROVE  ~InReach(i, asked)
    OBVIOUS
  <2>1. log[i].at <= log[j].at /\ log[i].at \in Nat /\ log[j].at \in Nat
    BY Facts DEF Ordered, Inv
  <2>2. asked \in Int /\ SinceSeconds \in Nat
    BY <1>1, TimeAssumption
  <2> QED
    BY <2>1, <2>2 DEF InReach
<1>5. beyond \in SUBSET (1 .. Len(log))
  BY <1>3
<1> HIDE DEF beyond
<1>6. beyond = 1 .. Cardinality(beyond)
  BY <1>3, <1>4, <1>5, Prefix
<1>7. Cardinality(beyond) \in Nat /\ next' = 1 + Cardinality(beyond)
  BY <1>1, <1>3, <1>5, SomeLines DEF beyond, Inv
<1>8. 1 .. next' - 1 = beyond
  BY <1>6, <1>7
<1>9. \A i \in beyond : ~InReach(i, now)
  <2> SUFFICES ASSUME NEW i \in beyond PROVE ~InReach(i, now)
    OBVIOUS
  <2>1. log[i].at \in Nat /\ ~InReach(i, asked)
    BY Facts DEF beyond, Inv
  <2>2. now \in Nat /\ SinceSeconds \in Nat
    BY Facts, TimeAssumption DEF Inv
  <2> QED
    BY <1>1, <2>1, <2>2 DEF InReach
<1> QED
  BY <1>1, <1>2, <1>8, <1>9 DEF HeadOK, FirstCaptured, InReach

LEMMA HeadSkip ==
  ASSUME Inv, HeadOK, SkipStall
  PROVE  HeadOK'
<1>1. /\ UNCHANGED <<log, opened, captures>> /\ hits' = hits + 1 /\ Cooling
  BY DEF SkipStall, Skip, target
<1>2. captures # <<>>
  <2>1. now \in Nat /\ Cooldown \in Nat /\ last \in Int /\ now - last < Cooldown
    BY <1>1, Facts DEF Inv, Cooling
  <2>2. last # -Cooldown
    BY <2>1
  <2> QED
    BY <2>2 DEF Inv, LastOK
<1>3. hits \in Nat /\ hits > 0
  BY <1>2 DEF HeadOK, Inv, Typed, ReadOK
<1> QED
  BY <1>1, <1>2, <1>3 DEF HeadOK, FirstCaptured, InReach

LEMMA HeadCapture ==
  ASSUME Inv, HeadOK, CaptureStall
  PROVE  HeadOK'
<1> DEFINE shot == [line |-> next, start |-> now, tried |-> 0]
<1>1. /\ UNCHANGED <<log, opened>> /\ hits' = hits + 1 /\ pc = "read"
      /\ captures' = Append(captures, shot)
  BY DEF CaptureStall, CaptureFrom, Scan, target
<1>2. hits \in Nat /\ next \in Nat /\ now \in Nat
  BY Facts DEF Inv, Typed, ReadOK
<1>3. shot \in Shots /\ shot.line = next
  BY <1>2 DEF Shots
<1> HIDE DEF shot
<1>4. /\ captures' # <<>>
      /\ \A k \in 1 .. Len(captures) : captures'[k] = captures[k]
      /\ captures'[Len(captures) + 1] = shot
  <2>1. captures \in Seq(Shots)
    BY DEF Inv, Typed, ShotsOK
  <2> QED
    BY <1>1, <1>3, <2>1, AppendProperties
<1>5. FirstCaptured'
  <2>1. CASE captures = <<>>
    <3>1. Len(captures) = 0
      BY <2>1
    <3>2. captures'[1].line = next
      BY <1>3, <1>4, <3>1
    <3>3. hits = 0
      BY <1>2, <2>1 DEF HeadOK, FirstCaptured
    <3>4. \A i \in 1 .. next - 1 : ~InReach(i, opened)
      BY <1>1, <3>3 DEF HeadOK, Following
    <3> QED
      BY <1>1, <1>4, <3>2, <3>4 DEF FirstCaptured, InReach
  <2>2. CASE captures # <<>>
    <3>1. 1 \in 1 .. Len(captures)
      BY <2>2, Facts DEF Inv
    <3>2. captures'[1] = captures[1]
      BY <1>4, <3>1
    <3> QED
      BY <1>1, <1>4, <2>2, <3>2 DEF HeadOK, FirstCaptured, InReach
  <2> QED
    BY <2>1, <2>2
<1>6. hits' > 0 /\ hits' # 0
  BY <1>1, <1>2
<1> QED
  BY <1>5, <1>6 DEF HeadOK

LEMMA HeadSave ==
  ASSUME Inv, HeadOK, Save
  PROVE  HeadOK'
<1>1. /\ UNCHANGED <<log, opened, hits, next>> /\ pc = "capture"
      /\ captures' = [captures EXCEPT ![Len(captures)].tried = file]
  BY DEF Save, SaveWhile, target, progress, stalls
<1>2. captures # <<>> /\ 1 \in DOMAIN captures /\ DOMAIN captures' = DOMAIN captures
  BY <1>1, Facts DEF Inv, CaptureOK
<1>3. captures'[1].line = captures[1].line
  <2>1. captures[1] \in Shots
    BY <1>2, Facts DEF Inv
  <2> QED
    BY <1>1, <1>2, <2>1 DEF Shots
<1>4. captures' # <<>>
  BY <1>2
<1> QED
  BY <1>1, <1>2, <1>3, <1>4, HeadKept DEF Following

LEMMA HeadSteps == Inv /\ Ordered /\ HeadOK /\ [Next]_vars => Ordered' /\ HeadOK'
<1> SUFFICES ASSUME Inv, Ordered, HeadOK, [Next]_vars PROVE Ordered' /\ HeadOK'
  OBVIOUS
<1>1. CASE Write
  BY <1>1, HeadWrite
<1>2. CASE FindBackends \/ Poll \/ PollFails \/ OpenFails \/ ScanFails \/ End
           \/ RunStep \/ Cancel \/ Tick \/ UNCHANGED vars
  <2>1. UNCHANGED <<log, opened, hits, captures>>
    BY <1>2 DEF FindBackends, Poll, PollUntil, PollFails, OpenFails, ScanFails, Scan, End,
      RunStep, Cancel, Tick, vars, target, progress, stalls
  <2>2. pc' \in Following => pc \in Following /\ next' = next
    BY <1>2 DEF FindBackends, Poll, PollUntil, PollFails, OpenFails, ScanFails, Scan, End,
      RunStep, Cancel, Tick, vars, target, progress, stalls, Following
  <2> QED
    BY <2>1, <2>2, HeadKept DEF Ordered
<1>3. CASE Open
  BY <1>3, HeadOpen DEF Open, OpenWith, Ordered, target
<1>4. CASE SkipStall
  BY <1>4, HeadSkip DEF SkipStall, Skip, Ordered, target
<1>5. CASE CaptureStall
  BY <1>5, HeadCapture DEF CaptureStall, CaptureFrom, Ordered, target
<1>6. CASE Save
  BY <1>6, HeadSave DEF Save, SaveWhile, Ordered, target
<1> QED
  BY <1>1, <1>2, <1>3, <1>4, <1>5, <1>6 DEF Next, Cluster, Answer, Work, Finished

(* A burst cannot bury the first stall.                                    *)
THEOREM FirstStallCaptured == Spec => []FirstCaptured
<1>1. Ordered /\ HeadOK => FirstCaptured
  BY DEF HeadOK
<1> QED
  BY Always, HeadStarts, HeadSteps, <1>1, PTL DEF Spec
=============================================================================

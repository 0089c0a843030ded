---------------------------- MODULE RunEndProofs ----------------------------
(***************************************************************************)
(* Proofs about what is under way when a run ends: the commands that wait  *)
(* for an answer (CommandTimeout), for every -timeout, every -duration and *)
(* every length of session, and the table that is being printed            *)
(* (LiveTable), for every set of commands, every number of samples and     *)
(* every distance between headers.                                         *)
(*                                                                         *)
(* The deadlines of the four drivers differ, and each of them ends a       *)
(* command that is never answered.  What the table's lines add up to is    *)
(* what it remembers, and what it remembers is never ahead of the          *)
(* collector: from these two a line that is printed is seen to catch up,   *)
(* commands without a column included, for such a command has no sample.   *)
(***************************************************************************)
EXTENDS CommandTimeout, LiveTable, TLAPS

-----------------------------------------------------------------------------
(* The commands. *)

(* A deadline set for a command sent at t: -timeout away, or no later than *)
(* the end of a run that has one.                                          *)
Limited(t) == deadline <= t + Timeout \/ (duration > 0 /\ deadline <= RunEnd)

(* A dial begins before the run ends; only some are ended with it.         *)
DialOK == pc = "dial" =>
  /\ driver # "jmap"
  /\ now <= deadline
  /\ deadline <= sentAt + Timeout
  /\ deadline <= RunEnd + Timeout
  /\ driver \in {"lmtp", "pop3"} => deadline <= RunEnd

(* The deadline of an open connection was set when it was connected; that  *)
(* of a JMAP request, when it is sent.  A connection that POP3 has over    *)
(* TLS only after the run's end is dead from the start.                    *)
OpenOK == pc = "open" =>
  /\ now <= RunEnd + Overrun
  /\ driver # "jmap" =>
       /\ now <= deadline \/ driver = "pop3s"
       /\ Limited(now)
       /\ deadline <= RunEnd + Overrun

WaitOK == pc = "wait" =>
  /\ now <= deadline \/ now = sentAt
  /\ Limited(sentAt)
  /\ now <= RunEnd + Overrun /\ deadline <= RunEnd + Overrun

Inv == TypeOK /\ DialOK /\ OpenOK /\ WaitOK

-----------------------------------------------------------------------------
LEMMA EarlierIsLeast ==
  ASSUME NEW a \in Nat, NEW b \in Nat
  PROVE  Earlier(a, b) \in {a, b} /\ Earlier(a, b) <= a /\ Earlier(a, b) <= b
<1>1. \E x \in {a, b} : \A y \in {a, b} : x <= y
  <2>1. CASE a <= b
    BY <2>1
  <2>2. CASE b <= a
    BY <2>2
  <2> QED
    BY <2>1, <2>2
<1>2. Earlier(a, b) \in {a, b} /\ \A y \in {a, b} : Earlier(a, b) <= y
  BY <1>1 DEF Earlier, Min
<1> QED
  BY <1>2

LEMMA InitInv == Init => Inv
<1> SUFFICES ASSUME Init PROVE Inv
  OBVIOUS
<1>1. Never \in 0 .. Never
  BY ClockAssumption DEF Never
<1>2. /\ 0 \in 0 .. Horizon /\ 0 \in 0 .. 0
      /\ 0 \in 0 .. (IF Persistent THEN Opening ELSE PerSession - 1)
  BY ClockAssumption DEF Opening
<1>3. TypeOK
  BY <1>1, <1>2 DEF Init, TypeOK
<1> QED
  BY <1>3 DEF Init, Inv, DialOK, OpenOK, WaitOK

(* The end of the run, as the model's clock can tell it, and what may last *)
(* past it.                                                                *)
LEMMA RunEndType ==
  ASSUME TypeOK
  PROVE  /\ RunEnd \in 0 .. Never /\ now \in Nat /\ now + Timeout \in 0 .. Never
         /\ duration > 0 => RunEnd = duration
         /\ duration = 0 => RunEnd = Never
         /\ duration \in Nat /\ Never \in Nat
         /\ sentAt \in Nat /\ sentAt <= now /\ deadline \in Nat
  BY ClockAssumption DEF TypeOK, RunEnd, Never

LEMMA OverrunIs ==
  /\ Timeout \in Nat \ {0} /\ Overrun \in Nat
  /\ driver = "imap" => Overrun = Timeout + Timeout
  /\ driver = "pop3s" => Overrun = Timeout
  /\ driver \in {"lmtp", "pop3", "jmap"} => Overrun = 0
<1>1. Timeout \in Nat \ {0}
  BY ClockAssumption
<1>2. CASE driver = "imap"
  BY <1>1, <1>2 DEF Overrun
<1>3. CASE driver = "pop3s"
  BY <1>1, <1>3 DEF Overrun
<1>4. CASE driver \notin {"imap", "pop3s"}
  BY <1>1, <1>4 DEF Overrun
<1> QED
  BY <1>1, <1>2, <1>3, <1>4

LEMMA WithinRun ==
  ASSUME TypeOK
  PROVE  /\ TimeoutWithinRun \in 0 .. Never
         /\ TimeoutWithinRun \in {now + Timeout, RunEnd}
         /\ TimeoutWithinRun <= now + Timeout /\ TimeoutWithinRun <= RunEnd
  BY RunEndType, EarlierIsLeast DEF TimeoutWithinRun

(* A dial is limited by -timeout, and by the run's end where it heeds it.  *)
LEMMA DialStep ==
  ASSUME Inv, Dial
  PROVE  Inv'
<1> USE DEF Inv
<1>1. /\ driver \in {"lmtp", "pop3", "pop3s", "imap", "jmap"}
      /\ now < RunEnd
  BY RunEndType, ClockAssumption DEF Dial, RunOver, TypeOK
<1>2. /\ sentAt' = now /\ commands' = 0
      /\ UNCHANGED <<driver, duration, now, wedged, failedAt, waited>>
      /\ IF driver = "jmap" THEN pc' = "open" /\ deadline' = Never
                            ELSE pc' = "dial" /\ deadline' = DialLimit
  BY DEF Dial, DialDeadline, NoDeadline
<1>3. UNCHANGED <<RunEnd, Overrun>>
  BY <1>2 DEF RunEnd, Overrun
<1>4. /\ DialLimit \in 0 .. Never /\ now <= DialLimit /\ DialLimit <= now + Timeout
      /\ DialLimit <= RunEnd + Timeout
      /\ driver \in {"lmtp", "pop3"} => DialLimit <= RunEnd
  BY <1>1, WithinRun, RunEndType, OverrunIs DEF DialLimit
<1>5. deadline' \in 0 .. Never
  BY <1>2, <1>4, RunEndType
<1>6. 0 \in 0 .. (IF Persistent THEN Opening ELSE PerSession - 1)
  BY ClockAssumption DEF Opening
<1>7. TypeOK'
  BY <1>2, <1>5, <1>6, RunEndType DEF TypeOK, Persistent
<1>8. DialOK'
  BY <1>2, <1>3, <1>4 DEF DialOK
<1>9. OpenOK'
  BY <1>1, <1>2, <1>3, RunEndType, OverrunIs DEF OpenOK
<1>10. WaitOK'
  BY <1>2 DEF WaitOK
<1> QED
  BY <1>7, <1>8, <1>9, <1>10

(* What a driver is connected with: a deadline ahead unless the run ended  *)
(* while POP3 was dialling over TLS, and bounded as Limited says.          *)
LEMMA ConnectedStep ==
  ASSUME Inv, Connected
  PROVE  Inv'
<1> USE DEF Inv
<1>1. driver \in {"lmtp", "pop3", "pop3s", "imap"} /\ now < deadline
  BY ClockAssumption DEF Connected, TypeOK, DialOK
<1>2. /\ pc = "dial" /\ pc' = "open" /\ deadline' = DialDeadline
      /\ UNCHANGED <<driver, duration, now, sentAt, commands, wedged, failedAt, waited>>
  BY DEF Connected
<1>3. UNCHANGED <<RunEnd, Overrun>>
  BY <1>2 DEF RunEnd, Overrun
<1>4. now <= RunEnd + Timeout /\ (driver \in {"lmtp", "pop3"} => now <= RunEnd)
  BY <1>1, <1>2, RunEndType, OverrunIs DEF DialOK
<1>5. /\ DialDeadline \in 0 .. Never
      /\ now <= DialDeadline \/ driver = "pop3s"
      /\ DialDeadline <= now + Timeout \/ (duration > 0 /\ DialDeadline <= RunEnd)
      /\ DialDeadline <= RunEnd + Overrun
  <2>1. CASE driver = "lmtp"
    BY <1>4, <2>1, RunEndType, OverrunIs DEF DialDeadline, RunDeadlineElseTimeout
  <2>2. CASE driver \in {"pop3", "pop3s"}
    <3>1. DialDeadline = TimeoutWithinRun
      BY <2>2 DEF DialDeadline
    <3> QED
      BY <1>4, <2>2, <3>1, WithinRun, RunEndType, OverrunIs
  <2>3. CASE driver = "imap"
    BY <1>4, <2>3, RunEndType, OverrunIs DEF DialDeadline
  <2> QED
    BY <1>1, <2>1, <2>2, <2>3
<1>6. TypeOK'
  BY <1>2, <1>5 DEF TypeOK, Persistent
<1>7. OpenOK'
  <2>1. now <= RunEnd + Overrun
    BY <1>1, <1>4, RunEndType, OverrunIs
  <2> QED
    BY <1>2, <1>3, <1>5, <2>1 DEF OpenOK, Limited
<1>8. DialOK' /\ WaitOK'
  BY <1>2 DEF DialOK, WaitOK
<1> QED
  BY <1>6, <1>7, <1>8

LEMMA SendStep ==
  ASSUME Inv, Send
  PROVE  Inv'
<1> USE DEF Inv
<1>1. /\ pc = "open" /\ pc' = "wait" /\ sentAt' = now /\ deadline' = CommandDeadline
      /\ UNCHANGED <<driver, duration, now, commands, wedged, failedAt, waited>>
  BY DEF Send
<1>2. UNCHANGED <<RunEnd, Overrun>>
  BY <1>1 DEF RunEnd, Overrun
<1>3. /\ CommandDeadline \in 0 .. Never
      /\ CommandDeadline <= now + Timeout \/ (duration > 0 /\ CommandDeadline <= RunEnd)
      /\ now <= RunEnd + Overrun /\ CommandDeadline <= RunEnd + Overrun
  <2>1. CASE driver = "jmap"
    BY <1>1, <2>1, WithinRun, RunEndType, OverrunIs DEF CommandDeadline, OpenOK
  <2>2. CASE driver # "jmap"
    BY <1>1, <2>2 DEF CommandDeadline, OpenOK, Limited, TypeOK
  <2> QED
    BY <2>1, <2>2
<1>4. TypeOK'
  BY <1>1, <1>3, RunEndType DEF TypeOK, Persistent
<1>5. DialOK' /\ OpenOK' /\ WaitOK'
  BY <1>1, <1>2, <1>3 DEF DialOK, OpenOK, WaitOK, Limited
<1> QED
  BY <1>4, <1>5

LEMMA AnswerStep ==
  ASSUME Inv, Answer
  PROVE  Inv'
<1> USE DEF Inv
<1>1. /\ pc = "wait" /\ now < deadline /\ pc' \in {"open", "idle"}
      /\ UNCHANGED <<driver, duration, now, deadline, sentAt, wedged, failedAt, waited>>
  BY DEF Answer
<1>2. commands' \in 0 .. (IF Persistent THEN Opening ELSE PerSession - 1)
  BY ClockAssumption DEF Answer, TypeOK, LooksAtRun, Opening
<1>3. UNCHANGED <<RunEnd, Overrun>>
  BY <1>1 DEF RunEnd, Overrun
<1>4. TypeOK'
  BY <1>1, <1>2 DEF TypeOK, Persistent
<1>5. Limited(sentAt) => Limited(now)
  BY RunEndType, OverrunIs DEF Limited
<1>6. DialOK' /\ OpenOK' /\ WaitOK'
  BY <1>1, <1>3, <1>5, RunEndType DEF DialOK, OpenOK, WaitOK, Limited
<1> QED
  BY <1>4, <1>6

LEMMA TickStep ==
  ASSUME Inv, Tick
  PROVE  Inv'
<1> USE DEF Inv
<1>1. /\ now < Horizon /\ pc # "open" /\ now' = now + 1
      /\ pc \in {"dial", "wait"} => now < deadline
      /\ UNCHANGED <<driver, duration, pc, deadline, sentAt, commands, wedged, failedAt, waited>>
  BY DEF Tick
<1>2. UNCHANGED <<RunEnd, Overrun>>
  BY <1>1 DEF RunEnd, Overrun
<1>3. TypeOK'
  BY <1>1, ClockAssumption DEF TypeOK, Persistent
<1>4. DialOK' /\ OpenOK'
  BY <1>1, <1>2, RunEndType DEF DialOK, OpenOK
<1>5. WaitOK'
  BY <1>1, <1>2, RunEndType, OverrunIs DEF WaitOK, Limited
<1> QED
  BY <1>3, <1>4, <1>5

LEMMA InvStep == Inv /\ [Next]_vars => Inv'
<1> SUFFICES ASSUME Inv, [Next]_vars PROVE Inv'
  OBVIOUS
<1>1. CASE Expire
  <2>1. now - sentAt \in 0 .. Horizon /\ now \in 0 .. Never
    BY RunEndType, ClockAssumption DEF Inv, TypeOK, Never
  <2>2. 0 \in 0 .. (IF Persistent THEN Opening ELSE PerSession - 1)
    BY ClockAssumption DEF Opening
  <2>3. TypeOK'
    BY <1>1, <2>1, <2>2 DEF Expire, Inv, TypeOK, Persistent
  <2> QED
    BY <1>1, <2>3 DEF Expire, Inv, DialOK, OpenOK, WaitOK
<1>2. CASE Stop
  BY <1>2 DEF Stop, Inv, TypeOK, Persistent, DialOK, OpenOK, WaitOK
<1>3. CASE Wedge
  BY <1>3 DEF Wedge, Inv, TypeOK, Persistent, DialOK, OpenOK, WaitOK, Limited, RunEnd, Overrun
<1>4. CASE UNCHANGED vars
  BY <1>4 DEF vars, Inv, TypeOK, Persistent, DialOK, OpenOK, WaitOK, Limited, RunEnd, Overrun
<1> QED
  BY <1>1, <1>2, <1>3, <1>4, DialStep, ConnectedStep, SendStep, AnswerStep, TickStep
  DEF Next, Rest

LEMMA Invariance == Spec => []Inv
  BY InitInv, InvStep, PTL DEF Spec

(* Deadlines, clock readings and waiting times stay within what the clock  *)
(* of the model can tell.                                                  *)
THEOREM TypeCorrect == Spec => []TypeOK
<1>1. Inv => TypeOK
  BY DEF Inv
<1> QED
  BY <1>1, Invariance, PTL

(* Whichever driver it is and whatever its -timeout and -duration, a       *)
(* server that stops answering, or does not accept, does not hold a client *)
(* for ever.                                                               *)
THEOREM NoWedgeForEver == Spec => []WedgeEnds
<1>1. Inv => WedgeEnds
  <2> SUFFICES ASSUME Inv, Waiting
               PROVE  now - sentAt <= Timeout \/ (duration > 0 /\ now <= RunEnd)
    BY DEF WedgeEnds
  <2>1. CASE pc = "dial"
    BY <2>1, RunEndType, OverrunIs DEF Inv, DialOK
  <2>2. CASE pc = "wait"
    BY <2>2, RunEndType, OverrunIs DEF Inv, WaitOK, Limited
  <2> QED
    BY <2>1, <2>2 DEF Waiting
<1> QED
  BY <1>1, Invariance, PTL

(* A run with a deadline is held past it only by what its driver began     *)
(* before: nothing for LMTP, JMAP and POP3 without TLS, one -timeout for   *)
(* POP3 over TLS, two for IMAP.                                            *)
THEOREM RunNotHeld == Spec => []EndsSoonAfterRun
<1>1. Inv => EndsSoonAfterRun
  <2> SUFFICES ASSUME Inv, Waiting, duration > 0 PROVE now <= RunEnd + Overrun
    BY DEF EndsSoonAfterRun
  <2>1. CASE pc = "dial"
    <3>1. driver \in {"lmtp", "pop3", "pop3s", "imap"}
      BY <2>1, ClockAssumption DEF Inv, TypeOK, DialOK
    <3> QED
      BY <2>1, <3>1, RunEndType, OverrunIs DEF Inv, DialOK
  <2>2. CASE pc = "wait"
    BY <2>2 DEF Inv, WaitOK
  <2> QED
    BY <2>1, <2>2 DEF Waiting
<1> QED
  BY <1>1, Invariance, PTL

-----------------------------------------------------------------------------
(* The table. *)

(* A command has as many errors as samples at most. *)
ErrorsAreSamples == \A c \in Commands : errs[c] <= count[c]

(* The lines printed add up to the copies the table keeps of the collector. *)
SumsAreCopies == sum = prev /\ sumE = prevE

(* The copies are of the past. *)
NeverAhead == \A c \in Commands : prev[c] <= count[c] /\ prevE[c] <= errs[c]

(* Workers no longer observe once the table has returned. *)
ReturnsLate == live = "returned" => mainAt # "running"

LiveInv ==
  /\ LiveTypeOK
  /\ ErrorsAreSamples
  /\ SumsAreCopies
  /\ NeverAhead
  /\ ReturnsLate

-----------------------------------------------------------------------------
LEMMA InitLive == LiveInit => LiveInv /\ HeaderNamesColumns /\ LastLinePrinted
  BY BoundsAssumption DEF LiveInit, LiveInv, LiveTypeOK, ErrorsAreSamples, SumsAreCopies, NeverAhead,
    ReturnsLate, HeaderNamesColumns, LastLinePrinted, CaughtUp, Zero

(* What a line leaves the table with.                                      *)
TableOK ==
  /\ {prev, prevE, sum, sumE} \subseteq [Commands -> 0 .. MaxSamples]
  /\ columns \subseteq Commands /\ header \subseteq Commands
  /\ rows \in 0 .. HeaderEvery - 1
  /\ CaughtUp /\ SumsAreCopies /\ NeverAhead

(* One line, of the commands seen and under the columns there are then.    *)
LEMMA LineStep ==
  ASSUME LiveInv, UNCHANGED collector, NEW headed \in BOOLEAN,
         Line(Seen, columns \cup Seen, headed)
  PROVE  TableOK'
<1> USE DEF LiveInv, LiveTypeOK, collector
<1>1. ASSUME NEW c \in Commands PROVE sumE'[c] = errs[c] /\ prevE'[c] = errs[c]
  <2>1. CASE c \in Seen
    BY <2>1 DEF Line, SumsAreCopies
  <2>2. CASE c \notin Seen
    BY <2>2 DEF Line, SumsAreCopies, NeverAhead, ErrorsAreSamples, Seen
  <2> QED
    BY <2>1, <2>2
<1>2. ASSUME NEW c \in Commands PROVE sum'[c] = count[c] /\ prev'[c] = count[c]
  <2>1. CASE c \in columns \cup Seen
    BY <2>1 DEF Line, SumsAreCopies
  <2>2. CASE c \notin columns \cup Seen
    BY <2>2 DEF Line, SumsAreCopies, NeverAhead, Seen
  <2> QED
    BY <2>1, <2>2
<1>3. sum' = count /\ prev' = count /\ sumE' = errs /\ prevE' = errs
  BY <1>1, <1>2 DEF Line
<1>4. rows' \in 0 .. HeaderEvery - 1
  BY BoundsAssumption DEF Line
<1>5. columns' \subseteq Commands /\ header' \subseteq Commands
  BY DEF Line, Seen
<1>6. CaughtUp' /\ SumsAreCopies' /\ NeverAhead'
  BY <1>3 DEF CaughtUp, SumsAreCopies, NeverAhead
<1> QED
  BY <1>3, <1>4, <1>5, <1>6 DEF TableOK

(* A turn of the table's goroutine leaves it caught up, a line or none.    *)
LEMMA LiveTickStep ==
  ASSUME LiveInv, UNCHANGED collector, LiveTick
  PROVE  TableOK'
<1>1. CASE Seen # {}
  BY <1>1, LineStep DEF LiveTick
<1>2. CASE Seen = {}
  <2>1. \A c \in Commands : count[c] = 0 /\ errs[c] = 0 /\ prev[c] = 0 /\ prevE[c] = 0
    BY <1>2 DEF Seen, LiveInv, LiveTypeOK, ErrorsAreSamples, NeverAhead
  <2>2. prev = count /\ prevE = errs
    BY <2>1 DEF LiveInv, LiveTypeOK
  <2>3. UNCHANGED table
    BY <1>2 DEF LiveTick
  <2> QED
    BY <2>2, <2>3 DEF table, collector, LiveInv, LiveTypeOK, TableOK, CaughtUp, SumsAreCopies,
      NeverAhead
<1> QED
  BY <1>1, <1>2

LEMMA HeaderStep == LiveInv /\ HeaderNamesColumns /\ LiveTick => HeaderNamesColumns'
  BY DEF LiveTick, Line, HeaderNamesColumns, table

LEMMA StepLive == LiveInv /\ [LiveNext]_liveVars => LiveInv'
<1> SUFFICES ASSUME LiveInv, [LiveNext]_liveVars PROVE LiveInv'
  OBVIOUS
<1>1. ASSUME NEW c \in Commands, NEW failed \in BOOLEAN, Observe(c, failed) PROVE LiveInv'
  <2>1. count[c] + 1 \in 0 .. MaxSamples /\ errs[c] + 1 \in 0 .. MaxSamples
    BY <1>1, BoundsAssumption DEF Observe, ObserveBy, LiveInv, LiveTypeOK, ErrorsAreSamples
  <2>2. /\ count' = [count EXCEPT ![c] = @ + 1] /\ UNCHANGED <<table, mainAt, live>>
        /\ errs' = errs \/ errs' = [errs EXCEPT ![c] = @ + 1]
        /\ mainAt = "running"
    BY <1>1 DEF Observe, ObserveBy
  <2>3. LiveTypeOK'
    BY <2>1, <2>2 DEF LiveInv, LiveTypeOK, table
  <2>4. ErrorsAreSamples' /\ NeverAhead'
    BY <2>2 DEF LiveInv, LiveTypeOK, table, ErrorsAreSamples, NeverAhead
  <2> QED
    BY <2>2, <2>3, <2>4 DEF LiveInv, SumsAreCopies, ReturnsLate, table
<1>2. CASE OnTicker \/ OnDone
  <2>1. UNCHANGED <<collector, mainAt>> /\ LiveTick /\ ReturnsLate'
    BY <1>2 DEF OnTicker, OnDone, LiveInv, ReturnsLate
  <2>2. TableOK'
    BY <2>1, LiveTickStep
  <2>3. live' \in {"running", "returned"}
    BY <1>2 DEF OnTicker, OnDone, LiveInv, LiveTypeOK
  <2> QED
    BY <2>1, <2>2, <2>3 DEF TableOK, LiveInv, LiveTypeOK, collector, ErrorsAreSamples
<1>3. CASE CloseDone \/ ExitProcess
  BY <1>3 DEF CloseDone, ExitProcess, LiveInv, LiveTypeOK, ErrorsAreSamples, SumsAreCopies,
    NeverAhead, ReturnsLate, collector, table
<1>4. CASE UNCHANGED liveVars
  BY <1>4 DEF liveVars, LiveInv, LiveTypeOK, ErrorsAreSamples, SumsAreCopies, NeverAhead, ReturnsLate,
    collector, table
<1> QED
  BY <1>1, <1>2, <1>3, <1>4 DEF LiveNext, Exited

LEMMA LiveAlways == LiveSpec => []LiveInv
  BY InitLive, StepLive, PTL DEF LiveSpec

(* The collector's counts, the table's copies and what its lines add up to *)
(* stay within what the workers observed.                                  *)
THEOREM LiveTypeCorrect == LiveSpec => []LiveTypeOK
<1>1. LiveInv => LiveTypeOK
  BY DEF LiveInv
<1> QED
  BY <1>1, LiveAlways, PTL

(* live.go's tick: every line brings the table up to date with the         *)
(* collector, whatever commands ran first since the one before.            *)
THEOREM EveryLineCatchesUp == LiveSpec => LineCatchesUp
<1>1. LiveInv /\ [LiveNext]_liveVars => [table' # table => CaughtUp']_liveVars
  <2> SUFFICES ASSUME LiveInv, LiveNext, table' # table PROVE CaughtUp'
    OBVIOUS
  <2>1. OnTicker \/ OnDone
    BY DEF LiveNext, Observe, ObserveBy, CloseDone, ExitProcess, Exited, liveVars
  <2>2. UNCHANGED collector /\ LiveTick
    BY <2>1 DEF OnTicker, OnDone
  <2> QED
    BY <2>2, LiveTickStep DEF TableOK
<1> QED
  BY <1>1, LiveAlways, PTL DEF LineCatchesUp, LiveSpec

(* The header above a line names its columns: it is printed again whenever *)
(* a command runs for the first time.                                      *)
THEOREM HeaderTrue == LiveSpec => []HeaderNamesColumns
<1>1. LiveInv /\ HeaderNamesColumns /\ [LiveNext]_liveVars => HeaderNamesColumns'
  BY HeaderStep DEF LiveNext, Observe, ObserveBy, OnTicker, OnDone, CloseDone, ExitProcess,
    Exited, liveVars, table, HeaderNamesColumns
<1> QED
  BY <1>1, InitLive, LiveAlways, PTL DEF LiveSpec

(* A goroutine that has returned printed everything its run observed.      *)
THEOREM LastLineComplete == LiveSpec => []LastLinePrinted
<1>1. LiveInv /\ LastLinePrinted /\ [LiveNext]_liveVars => LastLinePrinted'
  <2> SUFFICES ASSUME LiveInv, LastLinePrinted, [LiveNext]_liveVars PROVE LastLinePrinted'
    OBVIOUS
  <2>1. CASE OnTicker \/ OnDone
    BY <2>1, LiveTickStep DEF OnTicker, OnDone, TableOK, LastLinePrinted
  <2>2. ASSUME NEW c \in Commands, NEW failed \in BOOLEAN, Observe(c, failed)
        PROVE  LastLinePrinted'
    BY <2>2 DEF Observe, ObserveBy, LiveInv, ReturnsLate, LastLinePrinted
  <2>3. CASE CloseDone \/ ExitProcess \/ UNCHANGED liveVars
    BY <2>3 DEF CloseDone, ExitProcess, liveVars, LastLinePrinted, CaughtUp, collector, table
  <2> QED
    BY <2>1, <2>2, <2>3 DEF LiveNext, Exited
<1> QED
  BY <1>1, InitLive, LiveAlways, PTL DEF LiveSpec
=============================================================================

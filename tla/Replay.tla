------------------------------- MODULE Replay -------------------------------
(***************************************************************************)
(* Replaying an mbox file: LoadMbox cuts it into messages, and the LMTP    *)
(* driver sends each of them dot-stuffed to a server, which takes octets   *)
(* until a line that is a dot.  The promise is end to end: what the server *)
(* stores is what the file held.                                           *)
(*                                                                         *)
(* An octet is one of six, "From " counting as one.  The server is         *)
(* external: it ends a line at CRLF, and a message at a lone dot.          *)
(***************************************************************************)
EXTENDS Order, Sequences, SequencesExt

CONSTANTS
  MaxFile,        \* bound: the length of the file
  MaxLineOctets,  \* the longest line, CRLF included
  Again           \* bound: deliveries after the last message of the file

ASSUME SizesAssumption == MaxFile \in Nat /\ MaxLineOctets \in Nat \ {0, 1} /\ Again \in Nat

VARIABLES
  file,
  phase,     \* "given", then "refused", or "loaded"
  messages,  \* m.messages
  seq,       \* messages delivered
  stored,    \* what the server made of each
  strays     \* octets it took for commands

vars == <<file, phase, messages, seq, stored, strays>>

Octets == {"From ", ">", ".", "x", "CR", "LF"}
CRLF == <<"CR", "LF">>
Ends(s, t) == IsSuffix(t, s)
At(s, i) == IF i \in DOMAIN s THEN s[i] ELSE "none"

-----------------------------------------------------------------------------
(* LoadMbox. *)

(* The lines of s, each with what ends it.                                 *)
TakeOctet(a, o) ==
  IF o = "LF" THEN [whole |-> Append(a.whole, Append(a.line, o)), line |-> <<>>]
              ELSE [a EXCEPT !.line = Append(@, o)]

LinesOf(s) ==
  LET after[i \in 0 .. Len(s)] ==
        IF i = 0 THEN [whole |-> <<>>, line |-> <<>>] ELSE TakeOctet(after[i - 1], s[i])
      read == after[Len(s)]
  IN  IF read.line = <<>> THEN read.whole ELSE Append(read.whole, read.line)

TrimRight(s) ==
  LET kept == {i \in DOMAIN s : s[i] \notin {"CR", "LF"}}
  IN  SubSeq(s, 1, Max(kept \cup {0}))

(* The carriage return a line already had not looked for. *)
AddAnyway(body) ==
  TrimRight(FlattenSeq([i \in DOMAIN body |-> IF body[i] = "LF" THEN CRLF ELSE <<body[i]>>])) \o CRLF

(* add, every line ended as the wire ends it.                              *)
Add(body) ==
  LET bare(i) == body[i] = "LF" /\ At(body, i - 1) # "CR"
  IN  TrimRight(FlattenSeq([i \in DOMAIN body |-> IF bare(i) THEN CRLF ELSE <<body[i]>>])) \o CRLF

KeepLine(line) == line

Unescape(line) == IF At(line, 1) = ">" /\ At(line, 2) = "From " THEN Tail(line) ELSE line

(* The loop of LoadMbox: every line it reads starts a line of the file.    *)
Flush(a) == IF a.cur = <<>> THEN a.done ELSE Append(a.done, Add(a.cur))

TakeLine(a, line) ==
  IF At(line, 1) = "From " THEN [done |-> Flush(a), cur |-> <<>>]
                           ELSE [a EXCEPT !.cur = @ \o Unescape(line)]

MessagesOf(s) ==
  LET lines == LinesOf(s)
      after[i \in 0 .. Len(lines)] ==
        IF i = 0 THEN [done |-> <<>>, cur |-> <<>>] ELSE TakeLine(after[i - 1], lines[i])
  IN  Flush(after[Len(lines)])

TooLongWithoutLF(line) == Len(line) - 1 > MaxLineOctets

(* checkLineLengths, on a line with its CRLF.                              *)
TooLong(line) == Len(line) > MaxLineOctets

Load ==
  /\ phase = "given"
  /\ LET read == MessagesOf(file)
         long == \E i \in DOMAIN read : \E line \in ToSet(LinesOf(read[i])) : TooLong(line)
     IN  \/ /\ (read = <<>> \/ long)
            /\ phase' = "refused"
            /\ UNCHANGED messages
         \/ /\ read # <<>> /\ ~long
            /\ phase' = "loaded"
            /\ messages' = read
  /\ UNCHANGED <<file, seq, stored, strays>>

-----------------------------------------------------------------------------
(* body, and the server. *)

NeedsStuffingInside(msg) == \E i \in DOMAIN msg : msg[i] = "LF" /\ At(msg, i + 1) = "."

NeedsStuffing(msg) == At(msg, 1) = "." \/ NeedsStuffingInside(msg)

StuffDots(msg) ==
  LET atLineStart(i) == i = 1 \/ At(msg, i - 1) = "LF"
  IN  IF NeedsStuffing(msg)
      THEN FlattenSeq([i \in DOMAIN msg |->
             IF atLineStart(i) /\ msg[i] = "." THEN <<".", ".">> ELSE <<msg[i]>>])
      ELSE msg

FullTerminator(msg) == CRLF \o <<".">> \o CRLF

Terminator(msg) == IF Ends(msg, CRLF) THEN <<".">> \o CRLF ELSE FullTerminator(msg)

(* Where lines start for the server: at the first octet, and after CRLF.   *)
StartsLine(s, i) == i = 1 \/ (At(s, i - 1) = "LF" /\ At(s, i - 2) = "CR")
EndsData(s, i) == StartsLine(s, i) /\ At(s, i) = "." /\ At(s, i + 1) = "CR" /\ At(s, i + 2) = "LF"

Unstuffed(s) ==
  FlattenSeq([i \in DOMAIN s |-> IF StartsLine(s, i) /\ s[i] = "." THEN <<>> ELSE <<s[i]>>])

Deliver ==
  /\ phase = "loaded" /\ seq < Len(messages) + Again
  /\ seq' = seq + 1
  /\ LET msg == messages[(seq % Len(messages)) + 1]
         wire == StuffDots(msg) \o Terminator(msg)
         end == Min({i \in DOMAIN wire : EndsData(wire, i)})
     IN  /\ stored' = Append(stored, Unstuffed(SubSeq(wire, 1, end - 1)))
         /\ strays' = strays \o SubSeq(wire, end + 3, Len(wire))
  /\ UNCHANGED <<file, phase, messages>>

Replayed == seq = Len(messages) + Again

ReplayInit ==
  /\ phase = "given"
  /\ messages = <<>> /\ seq = 0 /\ stored = <<>> /\ strays = <<>>

-----------------------------------------------------------------------------
(* What an mbox file says, line by line: the reference.                    *)

Separates(line) == At(line, 1) = "From "

(* A maximal run of lines none of which separates is a message.            *)
Starts(lines) == {i \in DOMAIN lines : ~Separates(lines[i]) /\ (i = 1 \/ Separates(lines[i - 1]))}

RunFrom(lines, i) ==
  SubSeq(lines, i, Max({j \in i .. Len(lines) : \A k \in i .. j : ~Separates(lines[k])}))

WithoutEnd(line) ==
  CASE Ends(line, CRLF) -> SubSeq(line, 1, Len(line) - 2)
    [] Ends(line, <<"LF">>) /\ ~Ends(line, CRLF) -> SubSeq(line, 1, Len(line) - 1)
    [] OTHER -> line

Original(line) ==
  LET text == WithoutEnd(line)
  IN  (IF IsPrefix(<<">", "From ">>, text) THEN Tail(text) ELSE text) \o CRLF

(* Line ends at the end of a message are taken to belong to the format, so *)
(* how many there are is nothing a message says.                           *)
Filed(run) == TrimRight(FlattenSeq([i \in DOMAIN run |-> Original(run[i])])) \o CRLF

FiledMessages ==
  LET lines == LinesOf(file)
      starts == InOrder(Starts(lines))
  IN  [k \in DOMAIN starts |-> Filed(RunFrom(lines, starts[k]))]

-----------------------------------------------------------------------------
(* Properties. *)

TypeOK ==
  /\ file \in Seq(Octets)
  /\ phase \in {"given", "refused", "loaded"}
  /\ messages \in Seq(Seq(Octets)) /\ stored \in Seq(Seq(Octets))
  /\ seq \in 0 .. Len(messages) + Again /\ Len(stored) = seq
  /\ strays \in Seq(Octets)

(* End to end: the server stores the messages of the file, in their order  *)
(* and over again, as they were before the format escaped and the wire     *)
(* stuffed them, but for the line ends at the end of each, of which one is *)
(* kept; and no message ends before its end, which would leave the rest of *)
(* it to be taken for commands.                                            *)
StoredAsFiled ==
  /\ \A k \in DOMAIN stored : stored[k] = FiledMessages[((k - 1) % Len(FiledMessages)) + 1]
  /\ strays = <<>>

(* A run starts exactly with a corpus a server accepts: some messages, and *)
(* no line longer than SMTP carries.                                       *)
LoadsWhatCanBeSent == phase # "given" =>
  LET long == \E k \in DOMAIN FiledMessages :
                \E line \in ToSet(LinesOf(FiledMessages[k])) : Len(line) > MaxLineOctets
  IN  phase = "loaded" <=> FiledMessages # <<>> /\ ~long
=============================================================================

----------------------------- MODULE Pop3Proofs -----------------------------
(***************************************************************************)
(* Proofs about Pop3, for every number of sessions, clients and messages,  *)
(* every -retr and whatever the server refuses: client and server stay in  *)
(* step, and -delete removes what was retrieved and nothing else.          *)
(*                                                                         *)
(* Two things are kept for each session.  Talk is what may be under way on *)
(* its connection: one command, or lines of its reply of which only the    *)
(* last can end it.  Work is what it has done to its maildrop, which       *)
(* depends on the command it is at and not on how that command ends: so it *)
(* stands when the session fails there, and the server goes on.            *)
(***************************************************************************)
EXTENDS Pop3, FiniteSetTheorems, SequenceTheorems, TLAPS

Lines == [to : Commands, text : Texts]

(* Only the last line of a reply can end it, and what is not a multi-line  *)
(* reply has one line.                                                     *)
Talk(s) ==
  /\ open[s] <=> pc[s] \in {"status", "body"}
  /\ sent[s] \in {"none", cmd[s]}
  /\ open[s] /\ sent[s] # "none" => buffer[s] = <<>>
  /\ open[s] => \A i \in DOMAIN buffer[s] :
       buffer[s][i].to = cmd[s] /\ (Ends(buffer[s][i].text) => i = Len(buffer[s]))
  /\ open[s] /\ cmd[s] \notin Multiline => Len(buffer[s]) <= 1
  /\ s > seq => pc[s] = "new"
  /\ pc[s] \in {"new", "dial"} => cmd[s] = "greeting" /\ sent[s] = "none" /\ buffer[s] = <<>>
  /\ pc[s] = "body" => cmd[s] \in Multiline /\ sent[s] = "none"
  /\ pc[s] = "ok" => cmd[s] = "QUIT" /\ sent[s] = "none"

(* The messages above number k, and what they are called.                  *)
Above(s, k) == {i \in DOMAIN view[s] : i > k}
Named(s, numbers) == {view[s][i] : i \in numbers}
Doomed(s, k) == IF opts.delete THEN Above(s, k) ELSE {}

(* The loop has done with the messages above k.                            *)
DoneAbove(s, k) ==
  /\ k \in 0 .. Len(view[s])
  /\ retrieved[s] = Len(view[s]) - k /\ retrieved[s] <= opts.retr
  /\ fetched[s] = Named(s, Above(s, k))

Answered(s) == sent[s] = "none" /\ buffer[s] # <<>> /\ Read(s) = "+OK"

Before == {"greeting", "USER", "PASS", "STAT", "LIST", "UIDL"}

Work(s) ==
  /\ cmd[s] \in Before => retrieved[s] = 0 /\ marked[s] = {} /\ fetched[s] = {}
  /\ cmd[s] \in {"LIST", "UIDL"} => n[s] = Len(view[s])
  /\ cmd[s] = "RETR" =>
       n[s] > 0 /\ DoneAbove(s, n[s]) /\ retrieved[s] < opts.retr /\ marked[s] = Doomed(s, n[s])
  /\ cmd[s] = "DELE" =>
       /\ opts.delete /\ n[s] > 0 /\ DoneAbove(s, n[s] - 1)
       /\ marked[s] \in {Above(s, n[s]), Above(s, n[s] - 1)}
       /\ open[s] /\ Answered(s) => marked[s] = Above(s, n[s] - 1)
  /\ cmd[s] = "QUIT" =>
       /\ DoneAbove(s, n[s]) /\ marked[s] = Doomed(s, n[s])
       /\ n[s] = 0 \/ retrieved[s] = opts.retr
       /\ expunged[s] \in {{}, Named(s, marked[s])}
       /\ (open[s] /\ Answered(s)) \/ pc[s] = "ok" => expunged[s] = Named(s, marked[s])
  /\ cmd[s] # "QUIT" => expunged[s] = {}

Inv == TypeOK /\ \A s \in Ids : Talk(s) /\ Work(s)

-----------------------------------------------------------------------------
(* What the steps have in common. *)

LEMMA UserType == \A s \in Ids : UserOf(s) \in Accounts
<1> SUFFICES ASSUME NEW s \in Ids PROVE UserOf(s) \in Accounts
  OBVIOUS
<1>1. Len(Users) \in Nat \ {0} /\ DOMAIN Users = 1 .. Len(Users)
  BY UsersAssumption, EmptySeq, LenProperties
<1>2. ((s - 1) % Len(Users)) + 1 \in 1 .. Len(Users)
  <2>1. s - 1 \in Nat
    BY RunAssumption DEF Ids
  <2>2. (s - 1) % Len(Users) \in 0 .. Len(Users) - 1
    BY <1>1, <2>1, Z3
  <2> HIDE DEF Ids
  <2> QED
    BY <1>1, <2>2
<1> QED
  BY <1>1, <1>2 DEF UserOf, Accounts, Range

(* The work stands, if nothing of it changes and no answer came.           *)
LEMMA WorkKept ==
  ASSUME NEW s \in Ids, Work(s), opts' = opts,
         cmd'[s] = cmd[s], n'[s] = n[s], retrieved'[s] = retrieved[s], view'[s] = view[s],
         marked'[s] = marked[s], fetched'[s] = fetched[s], expunged'[s] = expunged[s],
         cmd[s] \in {"DELE", "QUIT"} /\ open'[s] /\ Answered(s)' => open[s] /\ Answered(s),
         pc'[s] = "ok" => pc[s] = "ok" \/ (open[s] /\ Answered(s))
  PROVE  Work(s)'
<1>1. \A k : Above(s, k)' = Above(s, k) /\ Doomed(s, k)' = Doomed(s, k)
  BY DEF Above, Doomed
<1>2. \A k : DoneAbove(s, k)' <=> DoneAbove(s, k)
  BY <1>1 DEF DoneAbove, Named
<1>3. \A numbers : Named(s, numbers)' = Named(s, numbers)
  BY DEF Named
<1> QED
  BY <1>1, <1>2, <1>3 DEF Work

(* A session is left alone by a step that changes nothing of it.           *)
LEMMA LeftAlone ==
  ASSUME NEW s \in Ids, Talk(s), Work(s), opts' = opts, s > seq' => s > seq,
         pc'[s] = pc[s], cmd'[s] = cmd[s], n'[s] = n[s], retrieved'[s] = retrieved[s],
         open'[s] = open[s], sent'[s] = sent[s], buffer'[s] = buffer[s], view'[s] = view[s],
         marked'[s] = marked[s], fetched'[s] = fetched[s], expunged'[s] = expunged[s]
  PROVE  Talk(s)' /\ Work(s)'
<1>1. Talk(s)'
  BY DEF Talk
<1>2. Answered(s)' <=> Answered(s)
  BY DEF Answered, Read
<1> QED
  BY <1>1, <1>2, WorkKept

(* A step of one session is judged by that session.                        *)
LEMMA OfOneSession ==
  ASSUME Inv, TypeOK', NEW s \in Ids, Talk(s)', Work(s)', opts' = opts,
         \A d \in Ids \ {s} :
           /\ d > seq' => d > seq
           /\ pc'[d] = pc[d] /\ cmd'[d] = cmd[d] /\ n'[d] = n[d] /\ retrieved'[d] = retrieved[d]
           /\ open'[d] = open[d] /\ sent'[d] = sent[d] /\ buffer'[d] = buffer[d]
           /\ view'[d] = view[d] /\ marked'[d] = marked[d] /\ fetched'[d] = fetched[d]
           /\ expunged'[d] = expunged[d]
  PROVE  Inv'
<1>1. ASSUME NEW d \in Ids \ {s}
      PROVE  Talk(d)' /\ Work(d)'
  BY LeftAlone DEF Inv
<1> QED
  BY <1>1 DEF Inv

-----------------------------------------------------------------------------
(* The initial states. *)

LEMMA Starts == Init => Inv
<1> SUFFICES ASSUME Init PROVE Inv
  OBVIOUS
<1>1. /\ 0 \in 0 .. Sessions /\ 0 \in 0 .. Mail + Arrivals /\ Mail \in Mail .. Mail + Arrivals
      /\ 1 .. Mail \in SUBSET Messages /\ Len(<<>>) = 0 /\ 0 <= Mail + Arrivals
  BY RunAssumption DEF Messages
<1>2. \A S : <<>> \in Seq(S)
  BY EmptySeq
<1>3. TypeOK
  BY <1>1, <1>2 DEF Init, TypeOK, Commands
<1>4. \A s \in Ids : Talk(s) /\ Work(s)
  BY <1>1 DEF Init, Talk, Work, Before
<1> QED
  BY <1>3, <1>4 DEF Inv

-----------------------------------------------------------------------------
(* The server. *)

(* It replies.                                                             *)
LEMMA Said ==
  ASSUME Inv, NEW s \in Ids, sent[s] # "none", NEW texts \in Seq(Texts), texts # <<>>,
         \A i \in DOMAIN texts : Ends(texts[i]) => i = Len(texts),
         sent[s] \notin Multiline => Len(texts) <= 1,
         Say(s, texts), UNCHANGED client, seq' = seq
  PROVE  /\ buffer' \in [Ids -> Seq(Lines)]
         /\ sent' = [sent EXCEPT ![s] = "none"]
         /\ \A d \in Ids \ {s} : buffer'[d] = buffer[d] /\ sent'[d] = sent[d]
         /\ sent[s] = cmd[s] /\ sent'[s] = "none" /\ pc[s] # "ok"
         /\ open[s] => buffer'[s] # <<>> /\ Read(s)' = texts[1]
         /\ Talk(s)'
<1> DEFINE said == [i \in DOMAIN texts |-> Line(s, texts[i])]
<1>1. /\ sent[s] = cmd[s] /\ cmd[s] \in Commands
      /\ sent' = [sent EXCEPT ![s] = "none"] /\ sent'[s] = "none"
      /\ pc[s] \notin {"ok", "body"} /\ Talk(s)
  BY DEF Inv, TypeOK, Talk, Say, Set
<1>2. DOMAIN texts = 1 .. Len(texts) /\ Len(texts) \in Nat \ {0}
  BY EmptySeq, LenProperties
<1>3. \A i \in 1 .. Len(texts) : texts[i] \in Texts
  BY ElementOfSeq
<1>4. said \in [1 .. Len(texts) -> Lines]
  BY <1>1, <1>2, <1>3 DEF Line, Lines
<1>5. said \in Seq(Lines) /\ Len(said) = Len(texts)
  BY <1>2, <1>4
<1>6. \A i \in 1 .. Len(texts) : said[i].to = cmd[s] /\ said[i].text = texts[i]
  BY <1>1, <1>2 DEF Line
<1>7. open[s] => buffer[s] \o said = said
  <2>1. open[s] => buffer[s] = <<>>
    BY <1>1 DEF Talk
  <2> HIDE DEF said
  <2> QED
    BY <1>5, <2>1, ConcatEmptySeq
<1>8. open[s] => buffer' = [buffer EXCEPT ![s] = said]
  <2>1. open[s] => buffer' = [buffer EXCEPT ![s] = buffer[s] \o said]
    BY DEF Say
  <2> HIDE DEF said
  <2> QED
    BY <1>7, <2>1
<1>9. ~open[s] => buffer' = buffer
  BY DEF Say
<1> HIDE DEF said
<1>10. buffer' \in [Ids -> Seq(Lines)]
  <2>1. buffer \in [Ids -> Seq(Lines)]
    BY DEF Inv, TypeOK, Lines
  <2>2. CASE open[s]
    BY <1>5, <1>8, <2>1, <2>2
  <2>3. CASE ~open[s]
    BY <1>9, <2>1, <2>3
  <2> QED
    BY <2>2, <2>3
<1>11. \A d \in Ids \ {s} : buffer'[d] = buffer[d] /\ sent'[d] = sent[d]
  BY <1>1, <1>8, <1>9 DEF Inv, TypeOK
<1>12. open[s] => buffer'[s] = said /\ said # <<>> /\ Head(said) = said[1]
  <2>1. said # <<>>
    BY <1>2, <1>5, EmptySeq
  <2> QED
    BY <1>5, <1>8, <2>1 DEF Inv, TypeOK
<1>13. open[s] => Read(s)' = texts[1]
  BY <1>2, <1>6, <1>12 DEF Read
<1>14. Talk(s)'
  <2>1. CASE open[s]
    <3>1. DOMAIN said = 1 .. Len(texts)
      BY <1>4
    <3> QED
      BY <1>1, <1>2, <1>5, <1>6, <1>12, <2>1, <3>1 DEF Talk, client
  <2>2. CASE ~open[s]
    BY <1>1, <1>9, <2>2 DEF Talk, client
  <2> QED
    BY <2>1, <2>2
<1> QED
  BY <1>1, <1>10, <1>11, <1>12, <1>13, <1>14

(* A reply that leaves the maildrops and the session's work as they are.   *)
LEMMA SaidOnly ==
  ASSUME Inv, NEW s \in Ids, sent[s] # "none", NEW texts \in Seq(Texts), texts # <<>>,
         \A i \in DOMAIN texts : Ends(texts[i]) => i = Len(texts),
         sent[s] \notin Multiline => Len(texts) <= 1,
         texts[1] = "+OK" => sent[s] \notin {"DELE", "QUIT"},
         contended' \in BOOLEAN,
         Say(s, texts), UNCHANGED <<opts, seq, client, store, fetched, expunged>>
  PROVE  Inv'
<1>1. /\ buffer' \in [Ids -> Seq(Lines)]
      /\ sent' = [sent EXCEPT ![s] = "none"]
      /\ \A d \in Ids \ {s} : buffer'[d] = buffer[d] /\ sent'[d] = sent[d]
      /\ sent[s] = cmd[s] /\ pc[s] # "ok"
      /\ open[s] => Read(s)' = texts[1]
      /\ Talk(s)'
  BY Said
<1>2. TypeOK'
  BY <1>1 DEF Inv, TypeOK, client, store, Lines
<1>3. Work(s)'
  <2>1. Work(s) /\ UNCHANGED <<opts, cmd, n, pc, open, retrieved, view, marked, fetched, expunged>>
    BY DEF Inv, client, store
  <2>2. ~(cmd[s] \in {"DELE", "QUIT"} /\ open'[s] /\ Answered(s)')
    BY <1>1, <2>1 DEF Answered
  <2> QED
    BY <1>1, <2>1, <2>2, WorkKept
<1> QED
  BY <1>1, <1>2, <1>3, OfOneSession DEF client, store

LEMMA RefuseStep ==
  ASSUME Inv, NEW s \in Ids, Refuse(s)
  PROVE  Inv'
<1> DEFINE texts == <<"-ERR">>
<1>1. /\ texts \in Seq(Texts) /\ texts # <<>> /\ Len(texts) <= 1
      /\ \A i \in DOMAIN texts : i = Len(texts)
      /\ texts[1] # "+OK"
  BY DEF Texts
<1>2. /\ sent[s] # "none" /\ Say(s, texts) /\ contended' \in BOOLEAN
      /\ UNCHANGED <<opts, seq, client, store, fetched, expunged>>
  BY DEF Refuse, Inv, TypeOK
<1> HIDE DEF texts
<1> QED
  BY <1>1, <1>2, SaidOnly

LEMMA WelcomeStep ==
  ASSUME Inv, NEW s \in Ids, Welcome(s)
  PROVE  Inv'
<1> DEFINE texts == <<"+OK">>
<1>1. /\ texts \in Seq(Texts) /\ texts # <<>> /\ Len(texts) <= 1
      /\ \A i \in DOMAIN texts : i = Len(texts)
  BY DEF Texts
<1>2. /\ sent[s] \in {"greeting", "USER"} /\ Say(s, texts) /\ contended' \in BOOLEAN
      /\ UNCHANGED <<opts, seq, client, store, fetched, expunged>>
  BY DEF Welcome, Inv, TypeOK, history
<1> HIDE DEF texts
<1> QED
  BY <1>1, <1>2, SaidOnly

(* What a listing is.                                                      *)
LEMMA ListingIs ==
  ASSUME Inv, NEW u \in Accounts, NEW q \in Listings(maildrop[u])
  PROVE  q \in Seq(Messages) /\ Len(q) <= Mail + Arrivals
<1> DEFINE size == Cardinality(maildrop[u])
<1>1. maildrop[u] \in SUBSET Messages
  BY DEF Inv, TypeOK
<1>2. size \in Nat /\ size <= Mail + Arrivals
  <2>1. Mail + Arrivals \in Nat
    BY RunAssumption
  <2>2. IsFiniteSet(Messages) /\ Cardinality(Messages) = Mail + Arrivals
    <3> DEFINE m == Mail + Arrivals
    <3>1. m \in Int /\ 1 \in Int
      BY <2>1
    <3> HIDE DEF m
    <3>2. IsFiniteSet(1 .. m) /\ Cardinality(1 .. m) = IF 1 > m THEN 0 ELSE m - 1 + 1
      BY <3>1, FS_Interval
    <3>3. m \in Nat /\ Messages = 1 .. m
      BY <2>1 DEF m, Messages
    <3>4. Cardinality(1 .. m) = m
      BY <3>2, <3>3
    <3> QED
      BY <3>2, <3>3, <3>4 DEF m
  <2>3. IsFiniteSet(maildrop[u]) /\ Cardinality(maildrop[u]) <= Mail + Arrivals
    BY <1>1, <2>2, FS_Subset
  <2> QED
    BY <2>3, FS_CardinalityType
<1>3. q \in [1 .. size -> maildrop[u]]
  BY DEF Listings
<1>4. q \in [1 .. size -> Messages]
  BY <1>1, <1>3
<1> HIDE DEF size
<1>5. q \in Seq(Messages) /\ Len(q) = size
  BY <1>2, <1>4
<1> QED
  BY <1>2, <1>5

LEMMA AuthoriseStep ==
  ASSUME Inv, NEW s \in Ids, Authorise(s)
  PROVE  Inv'
<1> DEFINE texts == <<"+OK">>
<1>1. /\ texts \in Seq(Texts) /\ texts # <<>> /\ Len(texts) <= 1
      /\ \A i \in DOMAIN texts : i = Len(texts)
  BY DEF Texts
<1>2. /\ sent[s] = "PASS" /\ Say(s, texts)
      /\ UNCHANGED <<opts, seq, client, maildrop, arrived, marked, history>>
      /\ lock' = [lock EXCEPT ![UserOf(s)] = s]
  BY DEF Authorise, Set
<1>3. PICK q \in Listings(maildrop[UserOf(s)]) : view' = [view EXCEPT ![s] = q]
  BY DEF Authorise, Set
<1>4. q \in Seq(Messages) /\ Len(q) <= Mail + Arrivals
  BY ListingIs, UserType
<1> HIDE DEF texts
<1>5. /\ buffer' \in [Ids -> Seq(Lines)]
      /\ sent' = [sent EXCEPT ![s] = "none"]
      /\ \A d \in Ids \ {s} : buffer'[d] = buffer[d] /\ sent'[d] = sent[d]
      /\ cmd[s] = "PASS" /\ Talk(s)'
  BY <1>1, <1>2, Said
<1>6. TypeOK'
  <2>1. view' \in [Ids -> Seq(Messages)] /\ \A d \in Ids : Len(view'[d]) <= Mail + Arrivals
    BY <1>3, <1>4 DEF Inv, TypeOK
  <2>2. lock' \in [Accounts -> Ids \cup {NoSession}]
    BY <1>2, UserType DEF Inv, TypeOK
  <2>3. buffer' \in [Ids -> Seq([to : Commands, text : Texts])]
    BY <1>5 DEF Lines
  <2> QED
    BY <1>2, <1>5, <2>1, <2>2, <2>3 DEF Inv, TypeOK, client, history
<1>7. Work(s)'
  BY <1>2, <1>5 DEF Inv, Work, Before, client, history
<1> QED
  BY <1>2, <1>3, <1>5, <1>6, <1>7, OfOneSession DEF client, history, Inv, TypeOK

LEMMA SurveyStep ==
  ASSUME Inv, NEW s \in Ids, Survey(s)
  PROVE  Inv'
<1>1. /\ contended' \in BOOLEAN /\ sent[s] \in {"STAT", "LIST", "UIDL"}
      /\ UNCHANGED <<opts, seq, client, store, fetched, expunged>>
  BY DEF Survey, Inv, TypeOK, history
<1>2. ASSUME NEW text \in {"+OK", "+OK?"}, sent[s] = "STAT", Say(s, <<text>>)
      PROVE  Inv'
  <2> DEFINE texts == <<text>>
  <2>1. /\ texts \in Seq(Texts) /\ texts # <<>> /\ Len(texts) <= 1
        /\ \A i \in DOMAIN texts : i = Len(texts)
    BY DEF Texts
  <2>2. Say(s, texts)
    BY <1>2
  <2> HIDE DEF texts
  <2> QED
    BY <1>1, <1>2, <2>1, <2>2, SaidOnly
<1>3. CASE /\ sent[s] \in {"LIST", "UIDL"}
           /\ Say(s, <<"+OK">> \o [i \in DOMAIN view[s] |-> "text"] \o <<".">>)
  <2> DEFINE size == Len(view[s])
             body == [i \in DOMAIN view[s] |-> "text"]
             first == <<"+OK">> \o body
             texts == first \o <<".">>
  <2>1. size \in Nat /\ DOMAIN view[s] = 1 .. size
    BY LenProperties DEF Inv, TypeOK
  <2>2. /\ body \in Seq(Texts) /\ Len(body) = size /\ \A i \in 1 .. size : body[i] = "text"
    <3>1. body \in [1 .. size -> Texts]
      BY <2>1 DEF Texts
    <3> QED
      BY <2>1, <3>1
  <2>3. <<"+OK">> \in Seq(Texts) /\ <<".">> \in Seq(Texts)
    BY DEF Texts
  <2> HIDE DEF body, size
  <2>4. /\ first \in Seq(Texts) /\ Len(first) = size + 1
        /\ \A i \in 1 .. size + 1 : first[i] = IF i = 1 THEN "+OK" ELSE "text"
    BY <2>1, <2>2, <2>3, ConcatProperties
  <2> HIDE DEF first
  <2>5. /\ texts \in Seq(Texts) /\ Len(texts) = size + 2
        /\ \A i \in 1 .. size + 2 :
             texts[i] = IF i = 1 THEN "+OK" ELSE IF i = size + 2 THEN "." ELSE "text"
    BY <2>1, <2>3, <2>4, ConcatProperties
  <2>6. texts # <<>> /\ DOMAIN texts = 1 .. size + 2
    BY <2>1, <2>5, EmptySeq, LenProperties
  <2>7. Say(s, texts)
    BY <1>3 DEF first, body
  <2> HIDE DEF texts
  <2>8. \A i \in DOMAIN texts : Ends(texts[i]) => i = Len(texts)
    BY <2>5, <2>6 DEF Ends
  <2>9. sent[s] # "none" /\ sent[s] \in Multiline /\ sent[s] \notin {"DELE", "QUIT"}
    BY <1>3 DEF Multiline
  <2> QED
    BY <1>1, <2>5, <2>6, <2>7, <2>8, <2>9, SaidOnly
<1> QED
  BY <1>1, <1>2, <1>3 DEF Survey

LEMMA TransferStep ==
  ASSUME Inv, NEW s \in Ids, Transfer(s)
  PROVE  Inv'
<1>1. /\ contended' \in BOOLEAN /\ sent[s] = "RETR"
      /\ UNCHANGED <<opts, seq, client, store, fetched, expunged>>
  BY DEF Transfer, Inv, TypeOK, history
<1>2. PICK line \in {"text", ".."} : Say(s, <<"+OK", line, ".">>)
  BY DEF Transfer
<1> DEFINE texts == <<"+OK", line, ".">>
<1>3. texts \in Seq(Texts) /\ texts # <<>>
  BY DEF Texts
<1>4. \A i \in DOMAIN texts : Ends(texts[i]) => i = Len(texts)
  BY DEF Ends
<1>5. Say(s, texts)
  BY <1>2
<1>6. sent[s] # "none" /\ sent[s] \in Multiline /\ sent[s] \notin {"DELE", "QUIT"}
  BY <1>1 DEF Multiline
<1> HIDE DEF texts
<1> QED
  BY <1>1, <1>3, <1>4, <1>5, <1>6, SaidOnly

(* A message marked, and the maildrop updated: only then is mail removed.  *)
LEMMA MarkStep ==
  ASSUME Inv, NEW s \in Ids, Mark(s)
  PROVE  Inv'
<1> DEFINE texts == <<"+OK">>
<1>1. /\ texts \in Seq(Texts) /\ texts # <<>> /\ Len(texts) <= 1
      /\ \A i \in DOMAIN texts : i = Len(texts)
  BY DEF Texts
<1>2. /\ sent[s] = "DELE" /\ Say(s, texts) /\ n[s] \in DOMAIN view[s]
      /\ UNCHANGED <<opts, seq, client, lock, maildrop, arrived, view, history>>
      /\ marked' = [marked EXCEPT ![s] = marked[s] \cup {n[s]}]
  BY DEF Mark
<1> HIDE DEF texts
<1>3. /\ buffer' \in [Ids -> Seq(Lines)]
      /\ sent' = [sent EXCEPT ![s] = "none"]
      /\ \A d \in Ids \ {s} : buffer'[d] = buffer[d] /\ sent'[d] = sent[d]
      /\ cmd[s] = "DELE" /\ pc[s] # "ok" /\ Talk(s)'
  BY <1>1, <1>2, Said
<1>4. /\ DOMAIN view[s] = 1 .. Len(view[s]) /\ Len(view[s]) \in Nat
      /\ Len(view[s]) <= Mail + Arrivals /\ n[s] \in 1 .. Len(view[s])
  BY <1>2, LenProperties DEF Inv, TypeOK
<1>5. n[s] \in Messages
  BY <1>4, RunAssumption DEF Messages
<1>6. TypeOK'
  <2>1. marked' \in [Ids -> SUBSET Messages]
    BY <1>2, <1>5 DEF Inv, TypeOK
  <2>2. buffer' \in [Ids -> Seq([to : Commands, text : Texts])]
    BY <1>3 DEF Lines
  <2>3. sent' \in [Ids -> Commands \cup {"none"}]
    BY <1>3 DEF Inv, TypeOK
  <2>4. {marked', fetched', expunged'} \subseteq [Ids -> SUBSET Messages]
    BY <1>2, <2>1 DEF Inv, TypeOK, history
  <2>5. /\ UNCHANGED <<opts, seq, pc, cmd, n, retrieved, open>>
        /\ UNCHANGED <<lock, maildrop, arrived, view, contended>>
    BY <1>2 DEF client, history
  <2> QED
    BY <2>2, <2>3, <2>4, <2>5 DEF Inv, TypeOK
<1>7. marked'[s] = Above(s, n[s] - 1)
  <2>1. marked[s] \in {Above(s, n[s]), Above(s, n[s] - 1)}
    BY <1>3 DEF Inv, Work
  <2>2. Above(s, n[s] - 1) = Above(s, n[s]) \cup {n[s]}
    BY <1>4 DEF Above
  <2>3. marked'[s] = marked[s] \cup {n[s]}
    BY <1>2 DEF Inv, TypeOK
  <2> QED
    BY <2>1, <2>2, <2>3
<1>8. Work(s)'
  <2>1. Work(s) /\ UNCHANGED <<opts, cmd, n, retrieved, view, fetched, expunged>>
    BY <1>2 DEF Inv, client, history
  <2>2. \A k : Above(s, k)' = Above(s, k)
    BY <2>1 DEF Above
  <2>3. \A k : DoneAbove(s, k)' <=> DoneAbove(s, k)
    BY <2>1 DEF DoneAbove, Above, Named
  <2> QED
    BY <1>3, <1>7, <2>1, <2>2, <2>3 DEF Work, Before
<1> QED
  BY <1>2, <1>3, <1>6, <1>8, OfOneSession DEF client, history, Inv, TypeOK

LEMMA UpdateStep ==
  ASSUME Inv, NEW s \in Ids, Update(s)
  PROVE  Inv'
<1> DEFINE texts == <<"+OK">>
           gone == Named(s, marked[s])
<1>1. /\ texts \in Seq(Texts) /\ texts # <<>> /\ Len(texts) <= 1
      /\ \A i \in DOMAIN texts : i = Len(texts)
  BY DEF Texts
<1>2. /\ sent[s] = "QUIT" /\ Say(s, texts)
      /\ UNCHANGED <<opts, seq, client, arrived, view, marked, fetched, contended>>
      /\ maildrop' = [maildrop EXCEPT ![UserOf(s)] = @ \ gone]
      /\ expunged' = [expunged EXCEPT ![s] = gone]
      /\ lock' = lock \/ lock' = [lock EXCEPT ![UserOf(s)] = NoSession]
  BY DEF Update, Set, Named
<1> HIDE DEF texts
<1>3. /\ buffer' \in [Ids -> Seq(Lines)]
      /\ sent' = [sent EXCEPT ![s] = "none"]
      /\ \A d \in Ids \ {s} : buffer'[d] = buffer[d] /\ sent'[d] = sent[d]
      /\ cmd[s] = "QUIT" /\ pc[s] # "ok" /\ Talk(s)'
  BY <1>1, <1>2, Said
<1>4. gone \in SUBSET Messages
  <2>1. marked[s] \subseteq DOMAIN view[s]
    BY <1>3 DEF Inv, Work, Doomed, Above
  <2>2. \A i \in DOMAIN view[s] : view[s][i] \in Messages
    BY LenProperties, ElementOfSeq DEF Inv, TypeOK
  <2> QED
    BY <2>1, <2>2 DEF Named
<1> HIDE DEF gone
<1>5. TypeOK'
  <2>1. maildrop' \in [Accounts -> SUBSET Messages] /\ expunged' \in [Ids -> SUBSET Messages]
    BY <1>2, <1>4 DEF Inv, TypeOK
  <2>2. lock' \in [Accounts -> Ids \cup {NoSession}]
    BY <1>2 DEF Inv, TypeOK
  <2>3. buffer' \in [Ids -> Seq([to : Commands, text : Texts])]
    BY <1>3 DEF Lines
  <2>4. sent' \in [Ids -> Commands \cup {"none"}]
    BY <1>3 DEF Inv, TypeOK
  <2>5. {marked', fetched', expunged'} \subseteq [Ids -> SUBSET Messages]
    BY <1>2, <2>1 DEF Inv, TypeOK
  <2>6. UNCHANGED <<opts, seq, pc, cmd, n, retrieved, open, arrived, view, contended>>
    BY <1>2 DEF client
  <2> QED
    BY <2>1, <2>2, <2>3, <2>4, <2>5, <2>6 DEF Inv, TypeOK
<1>6. Work(s)'
  <2>1. Work(s) /\ UNCHANGED <<opts, cmd, n, retrieved, view, fetched, marked>>
    BY <1>2 DEF Inv, client
  <2>2. \A k : Above(s, k)' = Above(s, k) /\ Doomed(s, k)' = Doomed(s, k)
    BY <2>1 DEF Above, Doomed
  <2>3. \A k : DoneAbove(s, k)' <=> DoneAbove(s, k)
    BY <2>1 DEF DoneAbove, Above, Named
  <2>4. expunged'[s] = Named(s, marked[s]) /\ Named(s, marked[s])' = Named(s, marked[s])
    BY <1>2, <2>1 DEF Inv, TypeOK, gone, Named
  <2> QED
    BY <1>3, <2>1, <2>2, <2>3, <2>4 DEF Work, Before
<1> QED
  BY <1>2, <1>3, <1>5, <1>6, OfOneSession DEF client, Inv, TypeOK

LEMMA NoticeStep ==
  ASSUME Inv, NEW s \in Ids, Notice(s)
  PROVE  Inv'
<1>1. /\ pc[s] \in Over /\ ~open[s] /\ sent' = [sent EXCEPT ![s] = "none"]
      /\ lock' = [lock EXCEPT ![UserOf(s)] = NoSession]
      /\ UNCHANGED <<opts, seq, client, buffer, maildrop, arrived, view, marked, history>>
  BY DEF Notice, Set
<1>2. TypeOK'
  BY <1>1 DEF Inv, TypeOK, client, history
<1>3. Talk(s)'
  BY <1>1 DEF Inv, TypeOK, Talk, client
<1>4. Work(s)'
  <2>1. Work(s)
    BY DEF Inv
  <2> QED
    BY <1>1, <2>1, WorkKept DEF client, history
<1> QED
  BY <1>1, <1>2, <1>3, <1>4, OfOneSession DEF Inv, TypeOK, client, history

LEMMA DeliverStep ==
  ASSUME Inv, NEW u \in Accounts, Deliver(u)
  PROVE  Inv'
<1>1. /\ arrived[u] < Mail + Arrivals /\ arrived' = [arrived EXCEPT ![u] = arrived[u] + 1]
      /\ maildrop' = [maildrop EXCEPT ![u] = maildrop[u] \cup {arrived'[u]}]
      /\ UNCHANGED <<opts, seq, client, sent, buffer, lock, view, marked, history>>
  BY DEF Deliver
<1>2. /\ arrived[u] + 1 \in Mail .. Mail + Arrivals /\ arrived[u] + 1 \in Messages
      /\ arrived'[u] = arrived[u] + 1
  BY <1>1, RunAssumption DEF Inv, TypeOK, Messages
<1>3. TypeOK'
  <2>1. arrived' \in [Accounts -> Mail .. Mail + Arrivals]
    BY <1>1, <1>2 DEF Inv, TypeOK
  <2>2. maildrop' \in [Accounts -> SUBSET Messages]
    BY <1>1, <1>2 DEF Inv, TypeOK
  <2>3. /\ UNCHANGED <<opts, seq, pc, cmd, n, retrieved, open, sent, buffer, lock>>
        /\ UNCHANGED <<view, marked, fetched, expunged, contended>>
    BY <1>1 DEF client, history
  <2> QED
    BY <2>1, <2>2, <2>3 DEF Inv, TypeOK
<1>4. ASSUME NEW s \in Ids
      PROVE  Talk(s)' /\ Work(s)'
  BY <1>1, LeftAlone DEF Inv, client, history
<1> QED
  BY <1>3, <1>4 DEF Inv

-----------------------------------------------------------------------------
(* The client. *)

LEMMA StartStep ==
  ASSUME Inv, NEW s \in Ids, Start(s)
  PROVE  Inv'
<1>1. /\ s = seq + 1 /\ seq' = s /\ pc' = [pc EXCEPT ![s] = "dial"]
      /\ UNCHANGED <<opts, cmd, n, retrieved, open, sent, buffer, store, history>>
  BY DEF Start, Set
<1>2. seq \in 0 .. Sessions /\ Sessions \in Nat /\ s \in 1 .. Sessions
  BY RunAssumption DEF Inv, TypeOK, Ids
<1>3. TypeOK'
  <2>1. seq' \in 0 .. Sessions
    BY <1>1, <1>2
  <2> QED
    BY <1>1, <2>1 DEF Inv, TypeOK, store, history
<1>4. pc[s] = "new" /\ ~(s > seq')
  BY <1>1, <1>2 DEF Inv, Talk
<1>5. Talk(s)'
  BY <1>1, <1>4 DEF Inv, TypeOK, Talk
<1>6. Work(s)'
  <2>1. Work(s) /\ pc'[s] = "dial" /\ cmd[s] = "greeting"
    BY <1>1, <1>4 DEF Inv, TypeOK, Talk
  <2> QED
    BY <1>1, <2>1, WorkKept DEF store, history
<1>7. \A d \in Ids : d > seq' => d > seq
  BY <1>1, <1>2 DEF Ids
<1> QED
  BY <1>1, <1>3, <1>5, <1>6, <1>7, OfOneSession DEF Inv, TypeOK, store, history

(* A step of the client that ends the session, and leaves the rest.        *)
LEMMA FailStep ==
  ASSUME Inv, NEW s \in Ids, pc[s] \in {"status", "body"}, Fail(s),
         buffer' \in [Ids -> Seq(Lines)], \A d \in Ids \ {s} : buffer'[d] = buffer[d],
         UNCHANGED <<opts, seq, store, history>>
  PROVE  Inv'
<1>1. /\ pc' = [pc EXCEPT ![s] = "failed"] /\ open' = [open EXCEPT ![s] = FALSE]
      /\ UNCHANGED <<cmd, sent, n, retrieved>>
  BY DEF Fail, FailClosing, Set
<1>2. TypeOK'
  <2>1. buffer' \in [Ids -> Seq([to : Commands, text : Texts])]
    BY DEF Lines
  <2> QED
    BY <1>1, <2>1 DEF Inv, TypeOK, store, history, Over
<1>3. Talk(s)'
  BY <1>1 DEF Inv, TypeOK, Talk
<1>4. Work(s)'
  <2>1. Work(s) /\ open'[s] = FALSE /\ pc'[s] = "failed"
    BY <1>1 DEF Inv, TypeOK
  <2> QED
    BY <1>1, <2>1, WorkKept DEF store, history
<1> QED
  BY <1>1, <1>2, <1>3, <1>4, OfOneSession DEF Inv, TypeOK, store, history

LEMMA DialStep ==
  ASSUME Inv, NEW s \in Ids, Dial(s)
  PROVE  Inv'
<1>1. PICK place \in {"status", "failed"} :
        /\ pc[s] = "dial" /\ pc' = [pc EXCEPT ![s] = place]
        /\ place = "status" => /\ open' = [open EXCEPT ![s] = TRUE]
                               /\ sent' = [sent EXCEPT ![s] = "greeting"]
        /\ place = "failed" => UNCHANGED <<open, sent>>
        /\ UNCHANGED <<opts, seq, cmd, n, retrieved, buffer, store, history>>
  BY DEF Dial, Set
<1>2. TypeOK'
  BY <1>1 DEF Inv, TypeOK, store, history, Over, Commands
<1>3. Talk(s)'
  <2>1. Talk(s) /\ Len(<<>>) = 0
    BY DEF Inv
  <2> QED
    BY <1>1, <2>1 DEF Inv, TypeOK, Talk
<1>4. Work(s)'
  <2>1. Work(s) /\ cmd[s] = "greeting"
    BY <1>1 DEF Inv, Talk
  <2> QED
    BY <1>1, <2>1, WorkKept DEF Inv, TypeOK, store, history
<1> QED
  BY <1>1, <1>2, <1>3, <1>4, OfOneSession DEF Inv, TypeOK, store, history

LEMMA BreakStep ==
  ASSUME Inv, NEW s \in Ids, Break(s)
  PROVE  Inv'
<1>1. /\ pc[s] \in {"status", "body"} /\ Fail(s)
      /\ UNCHANGED <<opts, seq, buffer, store, history>>
  BY DEF Break
<1>2. buffer' \in [Ids -> Seq(Lines)] /\ \A d \in Ids \ {s} : buffer'[d] = buffer[d]
  BY <1>1 DEF Inv, TypeOK, Lines
<1> QED
  BY <1>1, <1>2, FailStep

(* What a line leaves behind.                                              *)
LEMMA Received ==
  ASSUME Inv, NEW s \in Ids, open[s], Receive(s)
  PROVE  /\ buffer' = [buffer EXCEPT ![s] = Tail(buffer[s])]
         /\ buffer' \in [Ids -> Seq(Lines)] /\ \A d \in Ids \ {s} : buffer'[d] = buffer[d]
         /\ buffer'[s] = Tail(buffer[s])
         /\ sent[s] = "none"
         /\ \A i \in DOMAIN buffer'[s] :
              buffer'[s][i].to = cmd[s] /\ (Ends(buffer'[s][i].text) => i = Len(buffer'[s]))
         /\ cmd[s] \notin Multiline \/ Ends(Read(s)) => buffer'[s] = <<>>
<1>1. /\ buffer[s] # <<>> /\ buffer' = [buffer EXCEPT ![s] = Tail(buffer[s])]
      /\ buffer \in [Ids -> Seq(Lines)] /\ buffer'[s] = Tail(buffer[s]) /\ Talk(s)
  BY DEF Receive, Inv, TypeOK, Lines
<1>2. /\ Tail(buffer[s]) \in Seq(Lines) /\ Head(buffer[s]) = buffer[s][1]
      /\ Len(buffer[s]) \in Nat \ {0} /\ DOMAIN buffer[s] = 1 .. Len(buffer[s])
      /\ Len(Tail(buffer[s])) = Len(buffer[s]) - 1
      /\ DOMAIN Tail(buffer[s]) = 1 .. Len(buffer[s]) - 1
      /\ \A i \in 1 .. Len(buffer[s]) - 1 : Tail(buffer[s])[i] = buffer[s][i + 1]
  BY <1>1, HeadTailProperties, LenProperties, EmptySeq
<1>3. \A i \in DOMAIN Tail(buffer[s]) :
        /\ Tail(buffer[s])[i].to = cmd[s]
        /\ Ends(Tail(buffer[s])[i].text) => i = Len(Tail(buffer[s]))
  <2> SUFFICES ASSUME NEW i \in 1 .. Len(buffer[s]) - 1
               PROVE  /\ buffer[s][i + 1].to = cmd[s]
                      /\ Ends(buffer[s][i + 1].text) => i = Len(buffer[s]) - 1
    BY <1>2
  <2>1. i + 1 \in DOMAIN buffer[s]
    BY <1>2
  <2>2. /\ buffer[s][i + 1].to = cmd[s]
        /\ Ends(buffer[s][i + 1].text) => i + 1 = Len(buffer[s])
    BY <1>1, <2>1 DEF Talk
  <2> QED
    BY <1>2, <2>2
<1>4. Len(buffer[s]) <= 1 \/ 1 = Len(buffer[s]) => Len(buffer[s]) = 1
  <2> DEFINE k == Len(buffer[s])
  <2>1. k \in Nat \ {0}
    BY <1>2
  <2> HIDE DEF k
  <2>2. k <= 1 \/ 1 = k => k = 1
    BY <2>1
  <2> QED
    BY <2>2 DEF k
<1>5. Len(buffer[s]) = 1 => Tail(buffer[s]) = <<>>
  BY <1>2, EmptySeq
<1>6. cmd[s] \notin Multiline \/ Ends(Read(s)) => buffer'[s] = <<>>
  <2>1. cmd[s] \notin Multiline => Len(buffer[s]) <= 1
    BY <1>1 DEF Talk
  <2>2. Ends(Read(s)) => 1 = Len(buffer[s])
    BY <1>1, <1>2 DEF Talk, Read
  <2> QED
    BY <1>1, <1>4, <1>5, <2>1, <2>2, Zenon
<1>7. buffer' \in [Ids -> Seq(Lines)] /\ \A d \in Ids \ {s} : buffer'[d] = buffer[d]
  BY <1>1, <1>2
<1>8. sent[s] = "none"
  BY <1>1 DEF Talk
<1> QED
  BY <1>1, <1>3, <1>6, <1>7, <1>8

(* The next command goes out, with the loop at message k.                  *)
GoOn(s, next, k) ==
  /\ n' = [n EXCEPT ![s] = k]
  /\ Command(s, next)
  /\ UNCHANGED <<opts, seq, store, expunged, contended>>
  /\ buffer' = [buffer EXCEPT ![s] = <<>>]

Retrieved(s) ==
  fetched' = IF cmd[s] = "RETR"
             THEN [fetched EXCEPT ![s] = fetched[s] \cup {view[s][n[s]]}] ELSE fetched

LEMMA GoneOn ==
  ASSUME Inv, NEW s \in Ids, open[s], NEW next \in Commands, NEW k \in 0 .. Mail + Arrivals,
         GoOn(s, next, k), NEW count \in 0 .. Mail + Arrivals,
         retrieved' = [retrieved EXCEPT ![s] = count],
         NEW got \in SUBSET Messages, fetched' = [fetched EXCEPT ![s] = got],
         Work(s)'
  PROVE  Inv'
<1>1. /\ cmd' = [cmd EXCEPT ![s] = next] /\ sent' = [sent EXCEPT ![s] = next]
      /\ pc' = [pc EXCEPT ![s] = "status"] /\ open' = [open EXCEPT ![s] = TRUE]
      /\ n' = [n EXCEPT ![s] = k] /\ buffer' = [buffer EXCEPT ![s] = <<>>]
      /\ UNCHANGED <<opts, seq, store, expunged, contended>>
  BY DEF GoOn, Command, SendThenGo, Set
<1>2. TypeOK'
  <2>1. buffer' \in [Ids -> Seq([to : Commands, text : Texts])]
    BY <1>1, EmptySeq DEF Inv, TypeOK
  <2>2. fetched' \in [Ids -> SUBSET Messages]
    BY DEF Inv, TypeOK
  <2>3. cmd' \in [Ids -> Commands] /\ sent' \in [Ids -> Commands \cup {"none"}]
    BY <1>1 DEF Inv, TypeOK
  <2>4. n' \in [Ids -> 0 .. Mail + Arrivals] /\ retrieved' \in [Ids -> 0 .. Mail + Arrivals]
    BY <1>1 DEF Inv, TypeOK
  <2>5. pc' \in [Ids -> {"new", "dial", "status", "body"} \cup Over] /\ open' \in [Ids -> BOOLEAN]
    BY <1>1 DEF Inv, TypeOK
  <2>6. {marked', fetched', expunged'} \subseteq [Ids -> SUBSET Messages]
    BY <1>1, <2>2 DEF Inv, TypeOK, store
  <2>7. UNCHANGED <<opts, seq, lock, arrived, maildrop, view, contended>>
    BY <1>1 DEF store
  <2> QED
    BY <2>1, <2>3, <2>4, <2>5, <2>6, <2>7 DEF Inv, TypeOK
<1>3. Talk(s)'
  <2>1. Talk(s) /\ Len(<<>>) = 0
    BY DEF Inv
  <2> QED
    BY <1>1, <2>1 DEF Inv, TypeOK, Talk
<1> QED
  BY <1>1, <1>2, <1>3, OfOneSession DEF Inv, TypeOK, store

(* The head of the loop: one more message, or the end.                     *)
LEMMA LoopHead ==
  ASSUME Inv, NEW s \in Ids, open[s], NEW k \in 0 .. Len(view[s]), k \in 0 .. Mail + Arrivals,
         NEW next \in Commands, GoOn(s, next, k),
         NEW count \in 0 .. Mail + Arrivals, count = Len(view[s]) - k, count <= opts.retr,
         retrieved' = [retrieved EXCEPT ![s] = count],
         next = IF k > 0 /\ count < opts.retr THEN "RETR" ELSE "QUIT",
         NEW got \in SUBSET Messages, fetched' = [fetched EXCEPT ![s] = got],
         got = Named(s, Above(s, k)), marked[s] = Doomed(s, k), expunged[s] = {}
  PROVE  Inv'
<1>1. /\ cmd'[s] = next /\ n'[s] = k /\ retrieved'[s] = count /\ fetched'[s] = got
      /\ sent'[s] = next /\ pc'[s] = "status" /\ buffer'[s] = <<>>
      /\ UNCHANGED <<opts, view, marked, expunged>>
  BY DEF GoOn, Command, SendThenGo, Set, Inv, TypeOK, store
<1>2. DoneAbove(s, k)'
  BY <1>1 DEF DoneAbove, Named, Above
<1>3. (marked[s] = Doomed(s, k))'
  BY <1>1 DEF Doomed, Above
<1>4. opts.retr \in Nat
  BY RunAssumption DEF Inv, TypeOK
<1>5. Work(s)'
  <2>1. CASE next = "RETR"
    BY <1>1, <1>2, <1>3, <2>1 DEF Work, Before
  <2>2. CASE next = "QUIT"
    <3>1. k = 0 \/ count = opts.retr
      BY <1>4, <2>2
    <3>2. ~Answered(s)'
      BY <1>1 DEF Answered
    <3> QED
      BY <1>1, <1>2, <1>3, <2>2, <3>1, <3>2 DEF Work, Before
  <2> QED
    BY <2>1, <2>2
<1> QED
  BY <1>5, GoneOn

(* The line is the last of the reply: the next command follows, or the     *)
(* end.                                                                    *)
LEMMA FollowStep ==
  ASSUME Inv, NEW s \in Ids, open[s], Follow(s), sent[s] = "none", Retrieved(s),
         buffer' = [buffer EXCEPT ![s] = <<>>],
         cmd[s] \in {"DELE", "QUIT"} => Answered(s),
         UNCHANGED <<opts, seq, store, expunged, contended>>
  PROVE  Inv'
<1>1. Talk(s) /\ Work(s) /\ pc[s] \in {"status", "body"} /\ ~(s > seq) /\ cmd[s] \in Commands
  BY DEF Inv, Talk, TypeOK
<1>2. /\ Len(view[s]) \in 0 .. Mail + Arrivals /\ DOMAIN view[s] = 1 .. Len(view[s])
      /\ n[s] \in 0 .. Mail + Arrivals /\ Mail + Arrivals \in Nat
      /\ opts.retr \in Nat /\ opts.delete \in BOOLEAN
      /\ retrieved[s] \in 0 .. Mail + Arrivals
      /\ fetched[s] \in SUBSET Messages
  <2>1. view[s] \in Seq(Messages) /\ Len(view[s]) <= Mail + Arrivals
    BY DEF Inv, TypeOK
  <2>2. Len(view[s]) \in Nat /\ DOMAIN view[s] = 1 .. Len(view[s])
    BY <2>1, LenProperties
  <2>3. Mail + Arrivals \in Nat
    BY RunAssumption
  <2>4. opts.retr \in Nat /\ opts.delete \in BOOLEAN
    BY RunAssumption DEF Inv, TypeOK
  <2>5. /\ n[s] \in 0 .. Mail + Arrivals /\ retrieved[s] \in 0 .. Mail + Arrivals
        /\ fetched[s] \in SUBSET Messages
    BY DEF Inv, TypeOK
  <2>6. Len(view[s]) \in 0 .. Mail + Arrivals
    BY <2>1, <2>2, <2>3
  <2> QED
    BY <2>2, <2>3, <2>4, <2>5, <2>6
<1>3. CASE cmd[s] = "QUIT"
  <2>1. /\ pc' = [pc EXCEPT ![s] = "ok"] /\ open' = [open EXCEPT ![s] = FALSE]
        /\ UNCHANGED <<n, retrieved, cmd, sent, fetched>>
    BY <1>3 DEF Follow, Succeed, Set, Retrieved
  <2>2. TypeOK'
    <3>1. buffer' \in [Ids -> Seq([to : Commands, text : Texts])]
      BY EmptySeq DEF Inv, TypeOK
    <3> QED
      BY <2>1, <3>1 DEF Inv, TypeOK, store, Over
  <2>3. Talk(s)'
    BY <1>1, <1>3, <2>1 DEF Inv, TypeOK, Talk
  <2>4. Work(s)'
    <3>1. open'[s] = FALSE /\ Answered(s)
      BY <1>3, <2>1 DEF Inv, TypeOK
    <3> QED
      BY <1>1, <2>1, <3>1, WorkKept DEF store
  <2> QED
    BY <2>1, <2>2, <2>3, <2>4, OfOneSession DEF Inv, TypeOK, store
<1>4. ASSUME NEW k, NEW next, n' = [n EXCEPT ![s] = k], Command(s, next)
      PROVE  GoOn(s, next, k)
  BY <1>4 DEF GoOn
<1>5. ASSUME NEW next, Simply(s, next)
      PROVE  GoOn(s, next, n[s]) /\ retrieved' = [retrieved EXCEPT ![s] = retrieved[s]]
  BY <1>4, <1>5 DEF Simply, Inv, TypeOK
<1>6. ASSUME NEW k, Loop(s, k)
      PROVE  GoOn(s, IF k > 0 /\ retrieved'[s] < opts.retr THEN "RETR" ELSE "QUIT", k)
  BY <1>4, <1>6 DEF Loop, LoopUnder, Set
<1>7. cmd[s] # "RETR" => fetched' = [fetched EXCEPT ![s] = fetched[s]]
  BY DEF Retrieved, Inv, TypeOK
<1>8. CASE cmd[s] \in {"greeting", "USER", "PASS"}
  <2>1. PICK next \in {"USER", "PASS", "STAT"} : Simply(s, next)
    BY <1>8 DEF Follow
  <2>2. GoOn(s, next, n[s]) /\ retrieved' = [retrieved EXCEPT ![s] = retrieved[s]]
    BY <1>5, <2>1
  <2>3. cmd'[s] = next /\ UNCHANGED <<retrieved, marked, fetched, expunged>>
    BY <1>7, <1>8, <2>1, <2>2
       DEF GoOn, Command, SendThenGo, Set, Simply, Inv, TypeOK, store, Retrieved
  <2>4. Work(s)'
    BY <1>1, <1>8, <2>3 DEF Work, Before
  <2> QED
    BY <1>2, <1>7, <1>8, <2>2, <2>4, GoneOn DEF Commands
<1>9. CASE cmd[s] = "STAT" \/ (cmd[s] = "LIST" /\ opts.uidl /\ Simply(s, "UIDL"))
  <2>1. PICK next \in {"LIST", "UIDL"} :
          GoOn(s, next, Len(view[s])) /\ retrieved' = [retrieved EXCEPT ![s] = retrieved[s]]
    <3>1. CASE cmd[s] = "STAT"
      <4>1. n' = [n EXCEPT ![s] = Len(view[s])] /\ UNCHANGED retrieved /\ Command(s, "LIST")
        BY <3>1 DEF Follow, Set
      <4> QED
        BY <1>4, <4>1 DEF Inv, TypeOK
    <3>2. CASE cmd[s] = "LIST" /\ Simply(s, "UIDL")
      BY <1>1, <1>5, <3>2 DEF Work
    <3> QED
      BY <1>9, <3>1, <3>2
  <2>2. cmd'[s] = next /\ n'[s] = Len(view[s]) /\ UNCHANGED <<retrieved, view, marked, fetched, expunged>>
    BY <1>7, <1>9, <2>1 DEF GoOn, Command, SendThenGo, Set, Inv, TypeOK, store, Retrieved
  <2>3. Work(s)'
    BY <1>1, <1>9, <2>2 DEF Work, Before
  <2> QED
    BY <1>2, <1>7, <1>9, <2>1, <2>3, GoneOn DEF Commands
<1>10. CASE cmd[s] \in {"LIST", "UIDL"} /\ UNCHANGED retrieved /\ Loop(s, n[s])
  <2>1. retrieved[s] = 0 /\ marked[s] = {} /\ fetched[s] = {} /\ n[s] = Len(view[s]) /\ expunged[s] = {}
    BY <1>1, <1>10 DEF Work, Before
  <2>2. Above(s, n[s]) = {}
    BY <1>2, <2>1 DEF Above
  <2>3. fetched[s] = Named(s, Above(s, n[s])) /\ marked[s] = Doomed(s, n[s])
    BY <2>1, <2>2 DEF Named, Doomed
  <2>4. retrieved' = [retrieved EXCEPT ![s] = retrieved[s]] /\ retrieved'[s] = retrieved[s]
    BY <1>10 DEF Inv, TypeOK
  <2>5. retrieved[s] = Len(view[s]) - n[s] /\ retrieved[s] <= opts.retr /\ n[s] \in 0 .. Len(view[s])
    BY <1>2, <2>1
  <2> DEFINE next == IF n[s] > 0 /\ retrieved[s] < opts.retr THEN "RETR" ELSE "QUIT"
  <2>6. GoOn(s, next, n[s]) /\ next \in Commands
    BY <1>6, <1>10, <2>4 DEF Commands
  <2> HIDE DEF next
  <2>7. fetched' = [fetched EXCEPT ![s] = fetched[s]]
    BY <1>7, <1>10
  <2>8. next = IF n[s] > 0 /\ retrieved[s] < opts.retr THEN "RETR" ELSE "QUIT"
    BY DEF next
  <2> QED
    BY <1>2, <2>1, <2>3, <2>4, <2>5, <2>6, <2>7, <2>8, LoopHead
<1>11. CASE cmd[s] = "RETR"
  <2> DEFINE got == fetched[s] \cup {view[s][n[s]]}
             k == n[s] - 1
             count == retrieved[s] + 1
  <2>1. /\ n[s] > 0 /\ DoneAbove(s, n[s]) /\ retrieved[s] < opts.retr
        /\ marked[s] = Doomed(s, n[s]) /\ expunged[s] = {}
    BY <1>1, <1>11 DEF Work
  <2>2. /\ n[s] \in DOMAIN view[s] /\ k \in 0 .. Len(view[s]) /\ k \in 0 .. Mail + Arrivals
        /\ count = Len(view[s]) - k /\ count <= opts.retr /\ count \in 0 .. Mail + Arrivals
    <3> DEFINE size == Len(view[s])
               most == Mail + Arrivals
               retr == opts.retr
    <3>1. /\ size \in 0 .. most /\ DOMAIN view[s] = 1 .. size /\ most \in Nat /\ retr \in Nat
          /\ n[s] \in 1 .. size /\ retrieved[s] = size - n[s] /\ retrieved[s] < retr
      BY <1>2, <2>1 DEF DoneAbove
    <3> HIDE DEF size, most, retr
    <3>2. n[s] \in DOMAIN view[s] /\ k \in 0 .. size /\ k \in 0 .. most
      BY <3>1
    <3>3. count = size - k /\ count <= retr /\ count \in 0 .. most
      BY <3>1
    <3> QED
      BY <3>2, <3>3 DEF size, most, retr
  <2>3. Above(s, k) = Above(s, n[s]) \cup {n[s]}
    BY <1>2, <2>2 DEF Above
  <2>4. got = Named(s, Above(s, k))
    BY <2>1, <2>3 DEF DoneAbove, Named
  <2>5. view[s][n[s]] \in Messages
    BY <2>2, <1>2, ElementOfSeq DEF Inv, TypeOK
  <2>6. got \in SUBSET Messages
    BY <1>2, <2>5
  <2>7. fetched' = [fetched EXCEPT ![s] = got]
    BY <1>11 DEF Retrieved
  <2>8. retrieved' = [retrieved EXCEPT ![s] = count] /\ retrieved'[s] = count
    BY <1>11 DEF Follow, AfterRetr, Inv, TypeOK
  <2>9. CASE opts.delete
    <3>1. GoOn(s, "DELE", n[s])
      BY <1>4, <1>11, <2>9 DEF Follow, AfterRetr, Delete, Set
    <3> HIDE DEF got, count
    <3>2. /\ cmd'[s] = "DELE" /\ n'[s] = n[s] /\ retrieved'[s] = count /\ fetched'[s] = got
          /\ buffer'[s] = <<>> /\ UNCHANGED <<opts, view, marked, expunged>>
      BY <2>7, <2>8, <3>1 DEF GoOn, Command, SendThenGo, Set, Inv, TypeOK, store
    <3>3. DoneAbove(s, k)'
      BY <2>2, <2>4, <3>2 DEF DoneAbove, Named, Above
    <3>4. marked'[s] = Above(s, n[s])' /\ ~Answered(s)'
      BY <2>1, <2>9, <3>2 DEF Doomed, Above, Answered
    <3>5. Work(s)'
      BY <2>1, <2>9, <3>2, <3>3, <3>4 DEF Work, Before
    <3> QED
      BY <1>2, <2>2, <2>6, <2>7, <2>8, <3>1, <3>5, GoneOn DEF Commands
  <2>10. CASE ~opts.delete
    <3> DEFINE next == IF k > 0 /\ count < opts.retr THEN "RETR" ELSE "QUIT"
    <3>1. GoOn(s, next, k) /\ next \in Commands
      BY <1>6, <1>11, <2>8, <2>10 DEF Follow, AfterRetr, Commands
    <3>2. marked[s] = Doomed(s, k)
      BY <2>1, <2>10 DEF Doomed
    <3> HIDE DEF got, count, k, next
    <3> QED
      BY <2>1, <2>2, <2>4, <2>6, <2>7, <2>8, <3>1, <3>2, LoopHead DEF next
  <2> QED
    BY <2>9, <2>10
<1>12. CASE cmd[s] = "DELE"
  <2> DEFINE k == n[s] - 1
             next == IF k > 0 /\ retrieved[s] < opts.retr THEN "RETR" ELSE "QUIT"
  <2>1. /\ opts.delete /\ n[s] > 0 /\ DoneAbove(s, k) /\ expunged[s] = {}
        /\ marked[s] = Above(s, k)
    BY <1>1, <1>12 DEF Work
  <2>2. UNCHANGED retrieved /\ Loop(s, k)
    BY <1>12 DEF Follow
  <2>3. retrieved' = [retrieved EXCEPT ![s] = retrieved[s]] /\ retrieved'[s] = retrieved[s]
    BY <2>2 DEF Inv, TypeOK
  <2>4. GoOn(s, next, k) /\ next \in Commands
    BY <1>6, <2>2, <2>3 DEF Commands
  <2>5. marked[s] = Doomed(s, k)
    BY <2>1 DEF Doomed
  <2>6. /\ k \in 0 .. Len(view[s]) /\ k \in 0 .. Mail + Arrivals
        /\ retrieved[s] = Len(view[s]) - k /\ retrieved[s] <= opts.retr
        /\ fetched[s] = Named(s, Above(s, k))
    BY <1>2, <2>1 DEF DoneAbove
  <2>7. fetched' = [fetched EXCEPT ![s] = fetched[s]]
    BY <1>7, <1>12
  <2> HIDE DEF k, next
  <2> QED
    BY <1>2, <2>1, <2>3, <2>4, <2>5, <2>6, <2>7, LoopHead DEF next
<1> QED
  <2>1. CASE cmd[s] \in {"LIST", "UIDL"}
    BY <1>9, <1>10, <2>1 DEF Follow
  <2> QED
    BY <1>1, <1>3, <1>8, <1>9, <1>11, <1>12, <2>1 DEF Commands

LEMMA ReadStatusStep ==
  ASSUME Inv, NEW s \in Ids, ReadStatus(s)
  PROVE  Inv'
<1>1. /\ pc[s] = "status" /\ Receive(s) /\ buffer[s] # <<>>
      /\ UNCHANGED <<opts, seq, store, history>>
  BY DEF ReadStatus, Receive
<1>2. open[s] /\ Talk(s) /\ Work(s)
  BY <1>1 DEF Inv, Talk
<1>3. /\ buffer' = [buffer EXCEPT ![s] = Tail(buffer[s])]
      /\ buffer' \in [Ids -> Seq(Lines)] /\ \A d \in Ids \ {s} : buffer'[d] = buffer[d]
      /\ buffer'[s] = Tail(buffer[s])
      /\ sent[s] = "none"
      /\ \A i \in DOMAIN buffer'[s] :
           buffer'[s][i].to = cmd[s] /\ (Ends(buffer'[s][i].text) => i = Len(buffer'[s]))
      /\ cmd[s] \notin Multiline => buffer'[s] = <<>>
  BY <1>1, <1>2, Received
<1>4. CASE Read(s) # "+OK" /\ Fail(s)
  BY <1>1, <1>3, <1>4, FailStep
<1>5. CASE Read(s) = "+OK" /\ cmd[s] \notin Multiline /\ Follow(s)
  <2>1. cmd[s] # "RETR"
    BY <1>5 DEF Multiline
  <2>2. Retrieved(s)
    BY <1>1, <2>1 DEF Retrieved, history
  <2>3. buffer' = [buffer EXCEPT ![s] = <<>>]
    BY <1>3, <1>5
  <2>4. Answered(s)
    BY <1>1, <1>3, <1>5 DEF Answered
  <2> QED
    BY <1>1, <1>2, <1>3, <1>5, <2>2, <2>3, <2>4, FollowStep DEF history
<1>6. CASE /\ Read(s) = "+OK" /\ cmd[s] \in Multiline
           /\ pc' = Set(pc, s, "body") /\ UNCHANGED <<cmd, n, retrieved, open, sent>>
  <2>1. pc' = [pc EXCEPT ![s] = "body"] /\ UNCHANGED <<opts, seq, cmd, n, retrieved, open, sent, store, history>>
    BY <1>1, <1>6 DEF Set
  <2>2. buffer' \in [Ids -> Seq([to : Commands, text : Texts])]
    BY <1>3 DEF Lines
  <2>3. TypeOK'
    BY <2>1, <2>2 DEF Inv, TypeOK, store, history
  <2>4. Talk(s)'
    BY <1>1, <1>2, <1>3, <1>6, <2>1 DEF Inv, TypeOK, Talk
  <2>5. Work(s)'
    <3>1. cmd[s] \notin {"DELE", "QUIT"} /\ pc'[s] = "body"
      BY <1>6, <2>1 DEF Multiline, Inv, TypeOK
    <3> QED
      BY <1>2, <2>1, <3>1, WorkKept DEF store, history
  <2> QED
    BY <1>3, <2>1, <2>3, <2>4, <2>5, OfOneSession DEF Inv, TypeOK, store, history
<1> QED
  BY <1>4, <1>5, <1>6 DEF ReadStatus

LEMMA ReadBodyStep ==
  ASSUME Inv, NEW s \in Ids, ReadBody(s)
  PROVE  Inv'
<1>1. /\ pc[s] = "body" /\ Receive(s)
      /\ UNCHANGED <<opts, seq, store, expunged, contended>>
  BY DEF ReadBody
<1>2. open[s] /\ Talk(s) /\ Work(s) /\ cmd[s] \in Multiline
  BY <1>1 DEF Inv, Talk
<1>3. /\ buffer' = [buffer EXCEPT ![s] = Tail(buffer[s])]
      /\ buffer' \in [Ids -> Seq(Lines)] /\ \A d \in Ids \ {s} : buffer'[d] = buffer[d]
      /\ buffer'[s] = Tail(buffer[s])
      /\ sent[s] = "none"
      /\ \A i \in DOMAIN buffer'[s] :
           buffer'[s][i].to = cmd[s] /\ (Ends(buffer'[s][i].text) => i = Len(buffer'[s]))
      /\ Ends(Read(s)) => buffer'[s] = <<>>
  BY <1>1, <1>2, Received
<1>4. cmd[s] \notin {"DELE", "QUIT"}
  BY <1>2 DEF Multiline
<1>5. CASE ~Ends(Read(s))
  <2>1. UNCHANGED <<opts, seq, client, sent, store, fetched, expunged, contended>>
    BY <1>1, <1>5 DEF ReadBody, Ends
  <2>2. buffer' \in [Ids -> Seq([to : Commands, text : Texts])]
    BY <1>3 DEF Lines
  <2>3. TypeOK'
    BY <2>1, <2>2 DEF Inv, TypeOK, client, store
  <2>4. Talk(s)'
    BY <1>1, <1>2, <1>3, <2>1 DEF Talk, client
  <2>5. Work(s)'
    BY <1>2, <1>4, <2>1, WorkKept DEF client, store
  <2> QED
    BY <1>3, <2>1, <2>3, <2>4, <2>5, OfOneSession DEF client, store
<1>6. CASE Ends(Read(s)) /\ Follow(s)
  <2>1. Retrieved(s)
    BY <1>6 DEF Retrieved, ReadBody, Ends
  <2>2. buffer' = [buffer EXCEPT ![s] = <<>>]
    BY <1>3, <1>6
  <2> QED
    BY <1>1, <1>2, <1>3, <1>4, <1>6, <2>1, <2>2, FollowStep
<1> QED
  BY <1>5, <1>6 DEF ReadBody

-----------------------------------------------------------------------------
(* Every step, and what the invariant says.                                *)

LEMMA Steps == Inv /\ [Next]_vars => Inv'
<1> SUFFICES ASSUME Inv, [Next]_vars PROVE Inv'
  OBVIOUS
<1>1. CASE UNCHANGED vars
  <2>1. TypeOK'
    BY <1>1 DEF vars, client, store, history, Inv, TypeOK
  <2>2. ASSUME NEW s \in Ids
        PROVE  Talk(s)' /\ Work(s)'
    BY <1>1, LeftAlone DEF Inv, vars, client, store, history
  <2> QED
    BY <2>1, <2>2 DEF Inv
<1>2. ASSUME NEW s \in Ids, Start(s) \/ ClientStep(s) \/ Notice(s)
      PROVE  Inv'
  BY <1>2, StartStep, DialStep, ReadStatusStep, ReadBodyStep, BreakStep, NoticeStep
     DEF ClientStep
<1>3. ASSUME NEW s \in Ids, Serve(s)
      PROVE  Inv'
  BY <1>3, RefuseStep, WelcomeStep, AuthoriseStep, SurveyStep, TransferStep, MarkStep, UpdateStep
     DEF Serve
<1>4. ASSUME NEW u \in Accounts, Deliver(u)
      PROVE  Inv'
  BY <1>4, DeliverStep
<1> QED
  BY <1>1, <1>2, <1>3, <1>4 DEF Next, Finished

LEMMA Always == Spec => []Inv
<1> QED
  BY Starts, Steps, PTL DEF Spec

(* What a QUIT removes was marked, and what was marked was retrieved.      *)
LEMMA Fetched == Inv => NothingLost
<1> SUFFICES ASSUME Inv, NEW s \in Ids PROVE expunged[s] \subseteq fetched[s]
  BY DEF NothingLost
<1>1. CASE cmd[s] = "QUIT"
  <2>1. /\ fetched[s] = Named(s, Above(s, n[s])) /\ marked[s] \subseteq Above(s, n[s])
        /\ expunged[s] \in {{}, Named(s, marked[s])}
    BY <1>1 DEF Inv, Work, DoneAbove, Doomed
  <2> QED
    BY <2>1 DEF Named
<1>2. CASE cmd[s] # "QUIT"
  BY <1>2 DEF Inv, Work
<1> QED
  BY <1>1, <1>2

LEMMA Complete == Inv => SessionComplete
<1> SUFFICES ASSUME Inv, NEW s \in Ids, pc[s] = "ok"
             PROVE  fetched[s] = Newest(s) /\ expunged[s] = IF opts.delete THEN fetched[s] ELSE {}
  BY DEF SessionComplete
<1>1. /\ DoneAbove(s, n[s]) /\ marked[s] = Doomed(s, n[s])
      /\ n[s] = 0 \/ retrieved[s] = opts.retr
      /\ expunged[s] = Named(s, marked[s])
  BY DEF Inv, Talk, Work
<1>2. Above(s, n[s]) = {i \in DOMAIN view[s] : i + opts.retr > Len(view[s])}
  <2> DEFINE size == Len(view[s])
             k == n[s]
             retr == opts.retr
  <2>1. /\ size \in Nat /\ DOMAIN view[s] = 1 .. size
    BY LenProperties DEF Inv, TypeOK
  <2>2. retr \in Nat
    BY RunAssumption DEF Inv, TypeOK
  <2>3. k \in 0 .. size /\ size - k <= retr /\ (k = 0 \/ size - k = retr)
    BY <1>1, <2>1 DEF DoneAbove
  <2> HIDE DEF size, k, retr
  <2>4. \A i \in 1 .. size : i > k <=> i + retr > size
    BY <2>1, <2>2, <2>3
  <2> QED
    BY <2>1, <2>4 DEF Above, size, k, retr
<1>3. fetched[s] = Newest(s)
  BY <1>1, <1>2 DEF DoneAbove, Named, Newest
<1>4. expunged[s] = IF opts.delete THEN fetched[s] ELSE {}
  BY <1>1 DEF DoneAbove, Doomed, Named
<1> QED
  BY <1>3, <1>4

-----------------------------------------------------------------------------

(* The sessions stay within their types.                                   *)
THEOREM TypeCorrect == Spec => []TypeOK
<1>1. Inv => TypeOK
  BY DEF Inv
<1> QED
  BY Always, <1>1, PTL

(* readMultiline's promise: whatever the messages hold, no line of one     *)
(* reply is ever taken for the answer to another command.                  *)
THEOREM StaysInStep == Spec => []InStep
<1>1. Inv => InStep
  BY DEF Inv, Talk, InStep
<1> QED
  BY Always, <1>1, PTL

(* -delete removes nothing that its session did not retrieve, however long *)
(* the run, whatever arrives meanwhile and however many sessions share the *)
(* maildrop.                                                               *)
THEOREM NothingDeletedUnread == Spec => []NothingLost
<1> QED
  BY Always, Fetched, PTL

(* A session that fails before its QUIT removes nothing.                   *)
THEOREM FailureDeletesNothing == Spec => []FailureKeepsMail
<1>1. Inv => FailureKeepsMail
  BY DEF Inv, Work, FailureKeepsMail
<1> QED
  BY Always, <1>1, PTL

(* A session that succeeds did all it was to do: the newest -retr messages *)
(* were retrieved, and with -delete removed.                               *)
THEOREM SuccessIsComplete == Spec => []SessionComplete
<1> QED
  BY Always, Complete, PTL

-----------------------------------------------------------------------------
(* A client alone never contends with itself.  Its sessions follow one     *)
(* another, and one that succeeded has given its maildrop back: a lock it  *)
(* could find is the lock of a session that failed.                        *)

Active(s) == pc[s] \notin Over \cup {"new"}
Alone == opts.clients = 1 => \A s, t \in Ids : Active(s) /\ Active(t) => s = t

(* A maildrop is locked by a session of its own user.                      *)
OwnLocks == \A u \in Accounts : lock[u] # NoSession => UserOf(lock[u]) = u

(* A session that holds its maildrop's lock had its PASS accepted and no   *)
(* QUIT.                                                                   *)
HeldRightly(s) == Holds(s) =>
  /\ cmd[s] \notin {"greeting", "USER"}
  /\ cmd[s] = "PASS" => sent[s] = "none"
  /\ cmd[s] = "QUIT" /\ open[s] => ~Answered(s)
  /\ pc[s] # "ok"

SomeFailed == \E s \in Ids : pc[s] = "failed"

Solo ==
  /\ Alone /\ OwnLocks /\ \A s \in Ids : HeldRightly(s)
  /\ opts.clients = 1 /\ contended => SomeFailed

LEMMA SoloStarts == Init => Solo
<1> SUFFICES ASSUME Init PROVE Solo
  OBVIOUS
<1>1. \A s \in Ids : ~Holds(s)
  <2> SUFFICES ASSUME NEW s \in Ids PROVE ~Holds(s)
    OBVIOUS
  <2>1. lock[UserOf(s)] = NoSession
    BY UserType DEF Init
  <2> QED
    BY <2>1 DEF Holds, Ids, NoSession
<1> QED
  BY <1>1 DEF Init, Solo, Alone, Active, OwnLocks, HeldRightly

(* A step of one session, which takes or gives back its own lock only.     *)
LEMMA SoloOfOne ==
  ASSUME Inv, Solo, NEW s \in Ids, HeldRightly(s)', opts' = opts,
         \/ lock' = lock
         \/ \E t \in {s, NoSession} : lock' = [lock EXCEPT ![UserOf(s)] = t],
         \A d \in Ids \ {s} :
           /\ pc'[d] = pc[d] /\ cmd'[d] = cmd[d] /\ open'[d] = open[d]
           /\ sent'[d] = sent[d] /\ buffer'[d] = buffer[d],
         Active(s)' => Active(s),
         pc[s] = "failed" => pc'[s] = "failed",
         opts.clients = 1 /\ contended' => contended \/ SomeFailed
  PROVE  Solo'
<1>1. Alone'
  BY DEF Solo, Alone, Active
<1>2. UserOf(s) \in Accounts /\ s # NoSession
  BY UserType DEF Ids, NoSession
<1>3. OwnLocks'
  <2> SUFFICES ASSUME NEW u \in Accounts, lock'[u] # NoSession
               PROVE  UserOf(lock'[u]) = u
    BY DEF OwnLocks, UserOf
  <2>1. lock'[u] = lock[u] \/ (u = UserOf(s) /\ lock'[u] = s)
    BY <1>2 DEF Inv, TypeOK
  <2> QED
    BY <2>1 DEF Solo, OwnLocks
<1>4. ASSUME NEW d \in Ids \ {s}
      PROVE  HeldRightly(d)'
  <2>1. Holds(d)' => Holds(d)
    <3>1. UserOf(d) \in Accounts /\ d # NoSession
      BY UserType DEF Ids, NoSession
    <3> QED
      BY <1>2, <3>1 DEF Holds, Inv, TypeOK, UserOf
  <2> QED
    BY <2>1 DEF Solo, HeldRightly, Answered, Read
<1>5. SomeFailed => SomeFailed'
  BY DEF SomeFailed
<1> QED
  BY <1>1, <1>3, <1>4, <1>5 DEF Solo

LEMMA SoloStart ==
  ASSUME Inv, Solo, NEW s \in Ids, Start(s)
  PROVE  Solo'
<1>1. /\ s = seq + 1 /\ seq' = s /\ pc' = [pc EXCEPT ![s] = "dial"]
      /\ Cardinality({t \in 1 .. seq : pc[t] \notin Over}) < opts.clients
      /\ UNCHANGED <<opts, cmd, open, sent, buffer, lock, contended>>
  BY DEF Start, Set, store, history
<1>2. /\ seq \in 0 .. Sessions /\ Sessions \in Nat /\ s \in 1 .. Sessions
      /\ \A d \in Ids : d \in Nat /\ d > 0
  BY RunAssumption DEF Inv, TypeOK, Ids
<1>3. pc[s] = "new" /\ cmd[s] = "greeting"
  <2>1. s > seq
    BY <1>1, <1>2
  <2> QED
    BY <2>1 DEF Inv, Talk
<1>4. opts.clients = 1 => \A t \in Ids : ~Active(t)
  <2> SUFFICES ASSUME opts.clients = 1, NEW t \in Ids, Active(t)
               PROVE  FALSE
    OBVIOUS
  <2> DEFINE running == {d \in 1 .. seq : pc[d] \notin Over}
  <2>1. ~(t > seq)
    BY DEF Inv, Talk, Active
  <2>2. t \in running
    BY <1>2, <2>1 DEF Active
  <2>3. IsFiniteSet(running)
    <3>1. IsFiniteSet(1 .. seq)
      BY <1>2, FS_Interval
    <3> QED
      BY <3>1, FS_Subset
  <2>4. Cardinality(running) < 1
    BY <1>1
  <2> HIDE DEF running
  <2>5. Cardinality(running) = 0
    BY <2>3, <2>4, FS_CardinalityType
  <2> QED
    BY <2>2, <2>3, <2>5, FS_EmptySet
<1>5. Alone'
  BY <1>1, <1>4 DEF Alone, Active, Inv, TypeOK
<1>6. OwnLocks'
  BY <1>1 DEF Solo, OwnLocks, UserOf
<1>7. \A d \in Ids : HeldRightly(d)'
  BY <1>1, <1>3 DEF Solo, HeldRightly, Holds, UserOf, Answered, Read, Inv, TypeOK
<1>8. SomeFailed => SomeFailed'
  BY <1>1, <1>3 DEF SomeFailed, Inv, TypeOK
<1> QED
  BY <1>1, <1>5, <1>6, <1>7, <1>8 DEF Solo

LEMMA SoloDial ==
  ASSUME Inv, Solo, NEW s \in Ids, Dial(s)
  PROVE  Solo'
<1>1. /\ pc[s] = "dial" /\ \E place \in {"status", "failed"} : pc' = [pc EXCEPT ![s] = place]
      /\ \A d \in Ids \ {s} : open'[d] = open[d] /\ sent'[d] = sent[d]
      /\ UNCHANGED <<opts, cmd, buffer, lock, contended>>
  BY DEF Dial, Set, store, history, Inv, TypeOK
<1>2. cmd[s] = "greeting" /\ ~Holds(s)
  BY <1>1 DEF Inv, Talk, Solo, HeldRightly
<1>3. HeldRightly(s)'
  BY <1>1, <1>2 DEF HeldRightly, Holds, UserOf
<1> QED
  BY <1>1, <1>3, SoloOfOne DEF Active, Over, Inv, TypeOK

(* The server replies.                                                     *)
LEMMA SoloSaid ==
  ASSUME Inv, Solo, NEW s \in Ids, sent[s] # "none", NEW texts, Say(s, texts),
         UNCHANGED <<opts, client>>,
         \/ lock' = lock
         \/ \E t \in {s, NoSession} : lock' = [lock EXCEPT ![UserOf(s)] = t],
         Holds(s)' => /\ cmd[s] \notin {"greeting", "USER"}
                      /\ cmd[s] = "QUIT" /\ open[s] => ~Answered(s)',
         opts.clients = 1 /\ contended' => contended \/ SomeFailed
  PROVE  Solo'
<1>1. sent' = [sent EXCEPT ![s] = "none"] /\ \A d \in Ids \ {s} : buffer'[d] = buffer[d]
  BY DEF Say, Set, Inv, TypeOK
<1>2. pc[s] # "ok"
  BY DEF Inv, Talk
<1>3. HeldRightly(s)'
  BY <1>1, <1>2 DEF HeldRightly, client, Inv, TypeOK
<1> QED
  BY <1>1, <1>3, SoloOfOne DEF client, Active, Inv, TypeOK

(* A PASS refused for a lock: of a client alone, the lock's session is     *)
(* over, and did not succeed.                                              *)
LEMMA SoloRefuse ==
  ASSUME Inv, Solo, NEW s \in Ids, Refuse(s)
  PROVE  Solo'
<1> DEFINE texts == <<"-ERR">>
<1>1. /\ sent[s] # "none" /\ Say(s, texts) /\ UNCHANGED <<opts, seq, client, store>>
      /\ contended' = (contended \/ (open[s] /\ sent[s] = "PASS" /\ lock[UserOf(s)] # NoSession))
  BY DEF Refuse
<1>2. texts \in Seq(Texts) /\ texts # <<>> /\ Len(texts) <= 1 /\ texts[1] = "-ERR"
      /\ \A i \in DOMAIN texts : i = Len(texts)
  BY DEF Texts
<1> HIDE DEF texts
<1>3. sent[s] = cmd[s] /\ (open[s] => Read(s)' = "-ERR")
  BY <1>1, <1>2, Said
<1>4. ASSUME opts.clients = 1, open[s], sent[s] = "PASS", lock[UserOf(s)] # NoSession
      PROVE  SomeFailed
  <2> DEFINE t == lock[UserOf(s)]
  <2>1. t \in Ids /\ UserOf(t) = UserOf(s)
    BY <1>4, UserType DEF Solo, OwnLocks, Inv, TypeOK
  <2>2. Holds(t) /\ HeldRightly(t) /\ HeldRightly(s)
    BY <2>1 DEF Holds, Solo
  <2> HIDE DEF t
  <2>3. t # s
    BY <1>3, <1>4, <2>2 DEF HeldRightly
  <2>4. Active(s)
    BY <1>4 DEF Inv, Talk, Active, Over
  <2>5. ~Active(t)
    BY <1>4, <2>1, <2>3, <2>4 DEF Solo, Alone
  <2>6. pc[t] # "new" /\ pc[t] # "ok"
    BY <2>1, <2>2 DEF HeldRightly, Inv, Talk
  <2>7. pc[t] = "failed"
    BY <2>5, <2>6 DEF Active, Over
  <2> QED
    BY <2>1, <2>7 DEF SomeFailed
<1>5. Holds(s)' => cmd[s] \notin {"greeting", "USER"}
  BY <1>1 DEF Solo, HeldRightly, Holds, UserOf, store
<1>6. open[s] => ~Answered(s)'
  BY <1>3 DEF Answered
<1> QED
  BY <1>1, <1>4, <1>5, <1>6, SoloSaid DEF store

LEMMA SoloServe ==
  ASSUME Inv, Solo, NEW s \in Ids, Serve(s)
  PROVE  Solo'
<1> DEFINE Same == UNCHANGED <<opts, seq, client, contended>>
<1>1. HeldRightly(s) /\ (sent[s] # "none" => sent[s] = cmd[s]) /\ Talk(s)
  BY DEF Solo, Inv, Talk
<1>2. CASE Refuse(s)
  BY <1>2, SoloRefuse
<1>3. CASE Welcome(s)
  <2>1. sent[s] \in {"greeting", "USER"} /\ Say(s, <<"+OK">>) /\ UNCHANGED lock /\ Same
    BY <1>3 DEF Welcome, store, history
  <2>2. ~Holds(s)'
    BY <1>1, <2>1 DEF HeldRightly, Holds, UserOf
  <2> QED
    BY <2>1, <2>2, SoloSaid
<1>4. CASE Authorise(s)
  <2>1. /\ sent[s] = "PASS" /\ Say(s, <<"+OK">>) /\ Same
        /\ lock' = [lock EXCEPT ![UserOf(s)] = s]
    BY <1>4 DEF Authorise, Set, history
  <2>2. cmd[s] = "PASS"
    BY <1>1, <2>1
  <2> QED
    BY <2>1, <2>2, SoloSaid
<1>5. CASE Survey(s) \/ Transfer(s) \/ Mark(s)
  <2>1. /\ sent[s] \in {"STAT", "LIST", "UIDL", "RETR", "DELE"} /\ UNCHANGED lock /\ Same
        /\ \E texts : Say(s, texts)
    BY <1>5 DEF Survey, Transfer, Mark, store, history
  <2>2. cmd[s] \notin {"greeting", "USER", "QUIT"}
    BY <1>1, <2>1
  <2> QED
    BY <2>1, <2>2, SoloSaid
<1>6. CASE Update(s)
  <2>1. /\ sent[s] = "QUIT" /\ Say(s, <<"+OK">>) /\ Same
        /\ lock' = IF Holds(s) THEN [lock EXCEPT ![UserOf(s)] = NoSession] ELSE lock
    BY <1>6 DEF Update, Set
  <2>2. ~Holds(s)'
    <3>1. UserOf(s) \in Accounts /\ s # NoSession
      BY UserType DEF Ids, NoSession
    <3> QED
      BY <2>1, <3>1 DEF Holds, UserOf, Inv, TypeOK
  <2>3. lock' = lock \/ lock' = [lock EXCEPT ![UserOf(s)] = NoSession]
    BY <2>1
  <2> QED
    BY <2>1, <2>2, <2>3, SoloSaid
<1> QED
  BY <1>2, <1>3, <1>4, <1>5, <1>6 DEF Serve

LEMMA SoloNotice ==
  ASSUME Inv, Solo, NEW s \in Ids, Notice(s)
  PROVE  Solo'
<1>1. /\ sent' = [sent EXCEPT ![s] = "none"]
      /\ lock' = [lock EXCEPT ![UserOf(s)] = NoSession]
      /\ UNCHANGED <<opts, seq, client, buffer, history>>
  BY DEF Notice, Set
<1>2. ~Holds(s)'
  <2>1. UserOf(s) \in Accounts /\ s # NoSession
    BY UserType DEF Ids, NoSession
  <2> QED
    BY <1>1, <2>1 DEF Holds, UserOf, Inv, TypeOK
<1>3. HeldRightly(s)'
  BY <1>2 DEF HeldRightly
<1> QED
  BY <1>1, <1>3, SoloOfOne DEF client, history, Active, Inv, TypeOK

(* What follows an answer: PASS is sent behind USER alone, and a session   *)
(* succeeds behind the answer to its QUIT.                                 *)
LEMMA FollowGoes ==
  ASSUME NEW s \in Ids, Follow(s)
  PROVE  \/ \E next \in Commands \ {"greeting"} :
              /\ Command(s, next)
              /\ next = "USER" => cmd[s] = "greeting"
              /\ next = "PASS" => cmd[s] = "USER"
         \/ cmd[s] = "QUIT" /\ Succeed(s)
<1> SUFFICES ASSUME ~(cmd[s] = "QUIT" /\ Succeed(s))
             PROVE  \E next \in Commands \ {"greeting"} :
                      /\ Command(s, next)
                      /\ next = "USER" => cmd[s] = "greeting"
                      /\ next = "PASS" => cmd[s] = "USER"
  OBVIOUS
<1>1. ASSUME NEW i, Loop(s, i)
      PROVE  \E next \in {"RETR", "QUIT"} : Command(s, next)
  BY <1>1 DEF Loop, LoopUnder
<1>2. CASE cmd[s] = "RETR"
  <2>1. \E next \in {"DELE", "RETR", "QUIT"} : Command(s, next)
    BY <1>1, <1>2 DEF Follow, AfterRetr, Delete
  <2> QED
    BY <2>1 DEF Commands
<1>3. CASE cmd[s] = "DELE"
  <2>1. Loop(s, n[s] - 1)
    BY <1>3 DEF Follow
  <2> QED
    BY <1>1, <2>1 DEF Commands
<1>4. CASE cmd[s] \in {"LIST", "UIDL"}
  <2>1. \E next \in {"UIDL", "RETR", "QUIT"} : Command(s, next)
    BY <1>1, <1>4 DEF Follow, Simply
  <2> QED
    BY <2>1 DEF Commands
<1>5. CASE cmd[s] \notin {"RETR", "DELE", "LIST", "UIDL"}
  BY <1>5 DEF Follow, Simply, Commands
<1> QED
  BY <1>2, <1>3, <1>4, <1>5

LEMMA SoloRead ==
  ASSUME Inv, Solo, NEW s \in Ids, open[s], \A d \in Ids \ {s} : buffer'[d] = buffer[d],
         UNCHANGED <<opts, lock, contended>>,
         \/ Fail(s)
         \/ Follow(s) /\ (cmd[s] = "QUIT" => Answered(s))
  PROVE  Solo'
<1>1. pc[s] \in {"status", "body"} /\ Active(s)
  BY DEF Inv, Talk, Active, Over
<1>2. HeldRightly(s)
  BY DEF Solo
<1>3. CASE Fail(s)
  <2>1. /\ pc' = [pc EXCEPT ![s] = "failed"] /\ open' = [open EXCEPT ![s] = FALSE]
        /\ UNCHANGED <<cmd, sent>>
    BY <1>3 DEF Fail, FailClosing, Set
  <2>2. HeldRightly(s)'
    BY <1>2, <2>1 DEF HeldRightly, Holds, UserOf, Inv, TypeOK
  <2> QED
    BY <1>1, <2>1, <2>2, SoloOfOne DEF Inv, TypeOK
<1>4. ASSUME NEW next \in Commands \ {"greeting"}, Command(s, next),
             next = "USER" => cmd[s] = "greeting", next = "PASS" => cmd[s] = "USER"
      PROVE  Solo'
  <2>1. /\ cmd' = [cmd EXCEPT ![s] = next] /\ sent' = [sent EXCEPT ![s] = next]
        /\ pc' = [pc EXCEPT ![s] = "status"] /\ open' = [open EXCEPT ![s] = TRUE]
    BY <1>4 DEF Command, SendThenGo, Set
  <2>2. next # "none"
    BY DEF Commands
  <2>3. HeldRightly(s)'
    BY <1>2, <1>4, <2>1, <2>2 DEF HeldRightly, Holds, UserOf, Answered, Inv, TypeOK
  <2> QED
    BY <1>1, <2>1, <2>3, SoloOfOne DEF Inv, TypeOK
<1>5. CASE cmd[s] = "QUIT" /\ Succeed(s) /\ Answered(s)
  <2>1. /\ pc' = [pc EXCEPT ![s] = "ok"] /\ open' = [open EXCEPT ![s] = FALSE]
        /\ UNCHANGED <<cmd, sent>>
    BY <1>5 DEF Succeed, Set
  <2>2. ~Holds(s)'
    BY <1>2, <1>5 DEF HeldRightly, Holds, UserOf
  <2>3. HeldRightly(s)'
    BY <2>2 DEF HeldRightly
  <2> QED
    BY <1>1, <2>1, <2>3, SoloOfOne DEF Inv, TypeOK
<1> QED
  BY <1>3, <1>4, <1>5, FollowGoes

LEMMA SoloClient ==
  ASSUME Inv, Solo, NEW s \in Ids, ClientStep(s)
  PROVE  Solo'
<1>1. CASE Dial(s)
  BY <1>1, SoloDial
<1>2. CASE Break(s)
  <2>1. open[s]
    BY <1>2 DEF Break, Inv, Talk
  <2> QED
    BY <1>2, <2>1, SoloRead DEF Break, store, history
<1>3. CASE ReadStatus(s)
  <2>1. /\ pc[s] = "status" /\ open[s] /\ Receive(s) /\ buffer[s] # <<>>
        /\ UNCHANGED <<opts, lock, contended>>
    BY <1>3 DEF ReadStatus, Receive, Inv, Talk, store, history
  <2>2. sent[s] = "none" /\ \A d \in Ids \ {s} : buffer'[d] = buffer[d]
    BY <2>1, Received
  <2>3. CASE Read(s) = "+OK" /\ Follow(s)
    BY <2>1, <2>2, <2>3, SoloRead DEF Answered
  <2>4. CASE Fail(s)
    BY <2>1, <2>2, <2>4, SoloRead
  <2>5. CASE /\ cmd[s] \in Multiline
             /\ pc' = Set(pc, s, "body") /\ UNCHANGED <<cmd, n, retrieved, open, sent>>
    <3>1. HeldRightly(s)'
      BY <2>1, <2>5 DEF Solo, HeldRightly, Holds, UserOf, Multiline, Set, Inv, TypeOK
    <3> QED
      BY <2>1, <2>2, <2>5, <3>1, SoloOfOne DEF Set, Active, Over, Inv, TypeOK
  <2> QED
    BY <1>3, <2>3, <2>4, <2>5 DEF ReadStatus
<1>4. CASE ReadBody(s)
  <2>1. /\ pc[s] = "body" /\ open[s] /\ Receive(s) /\ cmd[s] \in Multiline
        /\ UNCHANGED <<opts, lock, contended>>
    BY <1>4 DEF ReadBody, Inv, Talk, store
  <2>2. \A d \in Ids \ {s} : buffer'[d] = buffer[d]
    BY <2>1, Received
  <2>3. cmd[s] # "QUIT"
    BY <2>1 DEF Multiline
  <2>4. CASE Follow(s)
    BY <2>1, <2>2, <2>3, <2>4, SoloRead
  <2>5. CASE UNCHANGED <<client, sent>>
    <3>1. HeldRightly(s)'
      BY <2>1, <2>3, <2>5 DEF Solo, HeldRightly, Holds, UserOf, client
    <3> QED
      BY <2>1, <2>2, <2>5, <3>1, SoloOfOne DEF client, Active
  <2> QED
    BY <1>4, <2>4, <2>5 DEF ReadBody
<1> QED
  BY <1>1, <1>2, <1>3, <1>4 DEF ClientStep

LEMMA SoloSteps == Inv /\ Solo /\ [Next]_vars => Solo'
<1> SUFFICES ASSUME Inv, Solo, [Next]_vars PROVE Solo'
  OBVIOUS
<1>1. CASE UNCHANGED vars \/ \E u \in Accounts : Deliver(u)
  <2>1. UNCHANGED <<opts, pc, cmd, open, sent, buffer, lock, contended>>
    BY <1>1 DEF vars, client, store, history, Deliver
  <2> QED
    BY <2>1 DEF Solo, Alone, Active, OwnLocks, HeldRightly, Holds, UserOf, Answered, Read,
      SomeFailed
<1>2. ASSUME NEW s \in Ids, Start(s) \/ ClientStep(s) \/ Serve(s) \/ Notice(s)
      PROVE  Solo'
  BY <1>2, SoloStart, SoloClient, SoloServe, SoloNotice
<1> QED
  BY <1>1, <1>2 DEF Next, Finished

(* One client never contends with itself, while none of its sessions fails.*)
THEOREM AloneIsUncontended == Spec => []SoloUncontended
<1>1. Solo => SoloUncontended
  BY DEF Solo, SoloUncontended, SomeFailed
<1> QED
  BY Always, SoloStarts, SoloSteps, <1>1, PTL DEF Spec
=============================================================================

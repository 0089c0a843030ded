------------------------------ MODULE LmtpProofs ------------------------------
(***************************************************************************)
(* Proofs about Lmtp, for every set of clients, every recipient set and    *)
(* every fan-out: client and server stay in step, no refusal passes for a  *)
(* success, and the recipients are drawn evenly.                           *)
(*                                                                         *)
(* That they stay in step is a matter of counting: the replies a client    *)
(* has yet to read are those the server owes and those that have ended in  *)
(* the buffer.  That they are drawn evenly is a matter of division.        *)
(***************************************************************************)
EXTENDS Lmtp, FiniteSetTheorems, FunctionTheorems, SequenceTheorems, TLAPS

(* Where a client is says which command it is at, and how far it is with   *)
(* its recipients.                                                         *)
PlaceOK == \A c \in Clients :
  /\ pc[c] = "draw" => cmd[c] = "MAIL"
  /\ pc[c] = "generate" => cmd[c] = "DATA"
  /\ pc[c] = "delivered" => cmd[c] = "QUIT"
  /\ pc[c] = "send" => cmd[c] # "greeting"
  /\ pc[c] \in {"send", "read", "draw"} /\ cmd[c] \in {"greeting", "LHLO", "MAIL"} => named[c] = 0
  /\ pc[c] \in {"send", "read", "generate"} /\ cmd[c] \in {"RCPT", "DATA", "BODY", "QUIT"} =>
       rcpts[c] # <<>>
  /\ pc[c] = "send" /\ cmd[c] = "RCPT" => named[c] < Len(rcpts[c])

(* The replies that have ended in a buffer.                                *)
Ended(s) == {i \in DOMAIN s : ~s[i].more}
Replies(s) == Cardinality(Ended(s))

(* The server says nothing of another command, and ends what it begins.    *)
Talk(c) ==
  /\ \A i \in DOMAIN owed[c] : owed[c][i] = cmd[c]
  /\ \A i \in DOMAIN buffer[c] : buffer[c][i].to = cmd[c]
  /\ owed[c] = <<>> /\ buffer[c] # <<>> => ~buffer[c][Len(buffer[c])].more

Midway == {"send", "read", "draw", "generate", "delivered"}
TalkOK == \A c \in Clients : pc[c] \in Midway => Talk(c)

(* What the client waits for is what the server owes and what has arrived. *)
CountOK == \A c \in Clients :
  /\ pc[c] = "read" => unread[c] > 0 /\ unread[c] = Len(owed[c]) + Replies(buffer[c])
  /\ pc[c] \in {"send", "draw", "generate", "delivered"} => owed[c] = <<>> /\ buffer[c] = <<>>

(* A refusal is still to be read, or was the end of the delivery.          *)
RefusedOK == \A c \in Clients : pc[c] \in Midway /\ refused[c] =>
    \E i \in DOMAIN buffer[c] : buffer[c][i].code = "5xx"

Inv == TypeOK /\ PlaceOK /\ TalkOK /\ CountOK /\ RefusedOK

-----------------------------------------------------------------------------
(* Replies in a buffer. *)

LEMMA RepliesType ==
  ASSUME NEW s \in Seq(Lines)
  PROVE  /\ IsFiniteSet(Ended(s)) /\ Replies(s) \in Nat
         /\ \A i \in DOMAIN s : ~s[i].more => Replies(s) > 0
<1>1. DOMAIN s = 1 .. Len(s) /\ Len(s) \in Nat
  BY LenProperties
<1>2. IsFiniteSet(1 .. Len(s)) /\ Ended(s) \in SUBSET (1 .. Len(s))
  BY <1>1, FS_Interval DEF Ended
<1>3. IsFiniteSet(Ended(s))
  BY <1>2, FS_Subset
<1>4. Replies(s) \in Nat
  BY <1>3, FS_CardinalityType DEF Replies
<1>5. ASSUME NEW i \in DOMAIN s, ~s[i].more
      PROVE  Replies(s) > 0
  <2>1. Ended(s) # {}
    BY <1>5 DEF Ended
  <2> QED
    BY <1>3, <1>4, <2>1, FS_EmptySet DEF Replies
<1> QED
  BY <1>3, <1>4, <1>5

LEMMA RepliesNone == Replies(<<>>) = 0
<1>1. Ended(<<>>) = {}
  BY DEF Ended
<1> QED
  BY <1>1, FS_EmptySet DEF Replies

LEMMA RepliesAppend ==
  ASSUME NEW s \in Seq(Lines), NEW l \in Lines
  PROVE  Replies(Append(s, l)) = IF l.more THEN Replies(s) ELSE Replies(s) + 1
<1> DEFINE t == Append(s, l)
<1>1. /\ Len(s) \in Nat /\ DOMAIN s = 1 .. Len(s) /\ DOMAIN t = 1 .. Len(s) + 1
      /\ \A i \in 1 .. Len(s) : t[i] = s[i]
      /\ t[Len(s) + 1] = l
  BY AppendProperties, LenProperties
<1>2. Ended(t) = IF l.more THEN Ended(s) ELSE Ended(s) \cup {Len(s) + 1}
  BY <1>1 DEF Ended
<1>3. Len(s) + 1 \notin Ended(s)
  BY <1>1 DEF Ended
<1> QED
  BY <1>2, <1>3, RepliesType, FS_AddElement DEF Replies

LEMMA RepliesTail ==
  ASSUME NEW s \in Seq(Lines), s # <<>>
  PROVE  Replies(s) = IF Head(s).more THEN Replies(Tail(s)) ELSE Replies(Tail(s)) + 1
<1> DEFINE t == Tail(s)
           later == Ended(s) \ {1}
           f == [i \in Ended(t) |-> i + 1]
<1>1. /\ t \in Seq(Lines) /\ Len(s) \in Nat \ {0} /\ DOMAIN s = 1 .. Len(s)
      /\ DOMAIN t = 1 .. Len(s) - 1
      /\ \A i \in DOMAIN t : t[i] = s[i + 1]
  BY HeadTailProperties, LenProperties, EmptySeq
<1>2. f \in [Ended(t) -> later]
  BY <1>1 DEF Ended
<1>3. \A a, b \in Ended(t) : f[a] = f[b] => a = b
  BY <1>1 DEF Ended
<1>4. ASSUME NEW j \in later
      PROVE  \E i \in Ended(t) : f[i] = j
  <2>1. j - 1 \in Ended(t) /\ f[j - 1] = j
    BY <1>1, <1>4 DEF Ended
  <2> QED
    BY <2>1
<1>5. ExistsBijection(Ended(t), later)
  <2>1. f \in Bijection(Ended(t), later)
    BY <1>2, <1>3, <1>4, Fun_IsBij
  <2> QED
    BY <2>1 DEF ExistsBijection
<1>6. IsFiniteSet(Ended(t))
  BY <1>1, RepliesType
<1>7. Cardinality(later) = Replies(t)
  BY <1>5, <1>6, FS_Bijection DEF Replies
<1>8. 1 \in Ended(s) <=> ~Head(s).more
  BY <1>1 DEF Ended
<1>9. /\ IsFiniteSet(Ended(s)) /\ Replies(s) \in Nat
      /\ Cardinality(later) = IF 1 \in Ended(s) THEN Replies(s) - 1 ELSE Replies(s)
  BY RepliesType, FS_RemoveElement DEF Replies
<1>10. Replies(t) \in Nat
  BY <1>1, RepliesType
<1> QED
  BY <1>7, <1>8, <1>9, <1>10

-----------------------------------------------------------------------------
(* The arithmetic of a walk around a set of s. *)

(* Division, and that its result is the only one.                          *)
LEMMA Division ==
  ASSUME NEW s \in Nat \ {0}, NEW x \in Int
  PROVE  /\ x \div s \in Int /\ x % s \in 0 .. s - 1
         /\ x = s * (x \div s) + (x % s)
  BY Z3

LEMMA Distributes ==
  ASSUME NEW s \in Nat, NEW a \in Int, NEW b \in Int
  PROVE  /\ s * a \in Int /\ s * b \in Int
         /\ s * (a + b) = s * a + s * b /\ s * (a - b) = s * a - s * b
  BY Z3

LEMMA Multiple ==
  ASSUME NEW s \in Nat \ {0}, NEW z \in Int, s * z < s, -s < s * z
  PROVE  z = 0
<1>1. CASE z >= 1
  <2>1. s * z >= s * 1
    BY <1>1, Z3
  <2> QED
    BY <2>1
<1>2. CASE z <= -1
  <2>1. s * (-z) >= s * 1
    BY <1>2, Z3
  <2>2. s * (-z) = -(s * z)
    BY Z3
  <2> QED
    BY <2>1, <2>2
<1> QED
  BY <1>1, <1>2

LEMMA DivisionUnique ==
  ASSUME NEW s \in Nat \ {0}, NEW x \in Int, NEW q \in Int, NEW r \in 0 .. s - 1,
         x = s * q + r
  PROVE  x \div s = q /\ x % s = r
<1> DEFINE p == x \div s
           t == x % s
           sq == s * q
           sp == s * p
           sd == s * (q - p)
<1>1. p \in Int /\ t \in 0 .. s - 1 /\ x = sp + t
  BY Division
<1>2. x = sq + r
  OBVIOUS
<1>3. sq \in Int /\ sp \in Int /\ sd = sq - sp
  BY <1>1, Distributes
<1> HIDE DEF p, t, sq, sp, sd
<1>4. sd = t - r
  BY <1>1, <1>2, <1>3
<1>5. sd < s /\ -s < sd
  BY <1>1, <1>4
<1>6. q - p = 0
  BY <1>1, <1>5, Multiple DEF sd
<1>7. q = p /\ r = t
  BY <1>1, <1>3, <1>4, <1>6 DEF sd
<1> QED
  BY <1>7 DEF p, t

(* How often a walk of q steps around s has passed its k-th place, and the *)
(* place it stands at before its i-th next step.                           *)
Turns(q, k, s) == (q + s - k) \div s
Place(q, i, s) == (q + i - 1) % s
Passing(q, n, k, s) == {i \in 1 .. n : Place(q, i, s) = k - 1}

(* Of n consecutive numbers, n at most s, one or none leaves the remainder *)
(* k - 1 by s: one exactly if the quotient grows.                          *)
LEMMA Hits ==
  ASSUME NEW s \in Nat \ {0}, NEW q \in Nat, NEW n \in 1 .. s, NEW k \in 1 .. s
  PROVE  /\ Turns(q, k, s) \in Nat
         /\ \A i, j \in Passing(q, n, k, s) : i = j
         /\ Cardinality(Passing(q, n, k, s)) \in Nat
         /\ Turns(q + n, k, s) = Turns(q, k, s) + Cardinality(Passing(q, n, k, s))
<1> DEFINE hits == Passing(q, n, k, s)
<1> DEFINE d == Turns(q, k, s)
           r == (q + s - k) % s
           sd == s * d
<1>1. d \in Int /\ r \in 0 .. s - 1 /\ q + s - k = sd + r
  BY Division DEF Turns
<1>2. sd \in Int /\ s * (d + 1) = sd + s /\ s * (d - 1) = sd - s
  BY <1>1, Distributes
<1>3. d \in Nat
  <2>1. CASE d < 0
    <3>1. s * (-d) >= s /\ s * (-d) = -sd
      BY <1>1, <2>1, Z3
    <3> HIDE DEF d, r, sd
    <3> QED
      BY <1>1, <1>2, <3>1
  <2> QED
    BY <1>1, <2>1
<1> HIDE DEF d, r, sd, hits
<1>4. \A e \in Int, t \in 0 .. s - 1, x \in Int : x = s * e + t => x % s = t /\ x \div s = e
  BY DivisionUnique
<1>5. ASSUME NEW i \in 1 .. n
      PROVE  Place(q, i, s) = k - 1 <=> i = s - r
  <2> DEFINE x == q + i - 1
             t == r + i + k - 1
  <2>1. x \in Int /\ t \in Int /\ x = sd - s + t
    BY <1>1, <1>2
  <2> HIDE DEF x
  <2>2. CASE t < s
    <3>1. x = s * (d - 1) + t /\ t \in 0 .. s - 1 /\ d - 1 \in Int
      BY <1>1, <1>2, <2>1, <2>2
    <3> HIDE DEF t
    <3>2. x % s = t
      BY <1>4, <2>1, <3>1
    <3> QED
      BY <1>1, <2>2, <3>2 DEF x, t, Place
  <2>3. CASE s <= t /\ t < s + s
    <3> DEFINE u == t - s
    <3>1. x = s * d + u /\ u \in 0 .. s - 1 /\ d \in Int
      BY <1>1, <1>2, <2>1, <2>3 DEF sd
    <3> HIDE DEF u
    <3>2. x % s = u
      BY <1>4, <2>1, <3>1
    <3> QED
      BY <1>1, <2>3, <3>2 DEF x, u, Place
  <2>4. CASE s + s <= t
    <3> DEFINE u == t - s - s
    <3>1. x = s * (d + 1) + u /\ u \in 0 .. s - 1 /\ d + 1 \in Int
      BY <1>1, <1>2, <2>1, <2>4
    <3> HIDE DEF u
    <3>2. x % s = u
      BY <1>4, <2>1, <3>1
    <3> QED
      BY <1>1, <2>4, <3>2 DEF x, u, Place
  <2> QED
    BY <2>1, <2>2, <2>3, <2>4
<1> DEFINE y == q + n + s - k
<1>6. hits = {i \in 1 .. n : i = s - r}
  BY <1>5 DEF hits, Passing
<1>7. \A i, j \in hits : i = j
  BY <1>6
<1>8. y \in Int /\ y = sd + (r + n)
  BY <1>1, <1>2
<1> HIDE DEF y
<1>9. ASSUME s - r <= n
      PROVE  Cardinality(hits) \in Nat /\ y \div s = d + Cardinality(hits)
  <2>1. hits = {s - r}
    BY <1>1, <1>9, <1>6
  <2> DEFINE u == r + n - s
  <2>2. y = s * (d + 1) + u /\ u \in 0 .. s - 1 /\ d + 1 \in Int
    BY <1>1, <1>2, <1>8, <1>9
  <2>3. y \div s = d + 1
    BY <1>4, <1>8, <2>2
  <2>4. Cardinality(hits) = 1
    BY <2>1, FS_Singleton
  <2> QED
    BY <1>3, <2>3, <2>4
<1>10. ASSUME s - r > n
      PROVE  Cardinality(hits) \in Nat /\ y \div s = d + Cardinality(hits)
  <2>1. hits = {}
    BY <1>1, <1>10, <1>6
  <2> DEFINE u == r + n
  <2>2. y = s * d + u /\ u \in 0 .. s - 1
    BY <1>1, <1>8, <1>10 DEF sd
  <2>3. y \div s = d
    BY <1>1, <1>4, <1>8, <2>2
  <2>4. Cardinality(hits) = 0
    BY <2>1, FS_EmptySet
  <2> QED
    BY <1>3, <2>3, <2>4
<1>11. Cardinality(hits) \in Nat /\ y \div s = d + Cardinality(hits)
  BY <1>1, <1>9, <1>10
<1>12. Turns(q + n, k, s) = y \div s
  BY DEF Turns, y
<1> QED
  BY <1>3, <1>7, <1>11, <1>12 DEF d, hits

-----------------------------------------------------------------------------
(* The recipient set, and what a delivery draws from it. *)

LEMMA Sizes ==
  /\ Size \in Nat \ {0} /\ DOMAIN Recipients = 1 .. Size
  /\ \A k \in 1 .. Size : Recipients[k] \in Range(Recipients)
  /\ \A r \in Range(Recipients) : \E k \in 1 .. Size : r = Recipients[k]
<1>1. Size \in Nat \ {0} /\ DOMAIN Recipients = 1 .. Size
  BY RecipientsAssumption, LenProperties, EmptySeq DEF Size
<1> QED
  BY <1>1, RecipientsAssumption DEF Range

(* How many recipients a delivery draws, and which: the entries of the     *)
(* list that it draws, and whom they name.                                 *)
Fan == IF perMessage > Size THEN Size ELSE perMessage
Entry(i) == ((seq + i - 1) % Size) + 1
Drawn == [i \in 1 .. Fan |-> Recipients[Entry(i)]]

LEMMA DrawnType ==
  ASSUME TypeOK
  PROVE  /\ Fan \in 1 .. Size
         /\ \A i \in 1 .. Fan : Entry(i) \in 1 .. Size
         /\ Drawn \in Seq(Range(Recipients)) /\ Len(Drawn) = Fan /\ Drawn # <<>>
<1>1. Fan \in 1 .. Size
  BY Sizes DEF TypeOK, Fan
<1>2. \A i \in 1 .. Fan : Entry(i) \in 1 .. Size
  <2> SUFFICES ASSUME NEW i \in 1 .. Fan PROVE ((seq + i - 1) % Size) + 1 \in 1 .. Size
    BY DEF Entry
  <2>1. seq + i - 1 \in Int
    BY <1>1 DEF TypeOK
  <2>2. (seq + i - 1) % Size \in 0 .. Size - 1
    BY <2>1, Sizes, Division
  <2> QED
    BY <2>2, Sizes
<1>3. \A i \in 1 .. Fan : Recipients[Entry(i)] \in Range(Recipients)
  BY <1>2, Sizes
<1>4. Drawn \in [1 .. Fan -> Range(Recipients)]
  BY <1>3 DEF Drawn
<1>5. Fan \in Nat /\ Fan > 0
  BY <1>1, Sizes
<1>6. Drawn \in Seq(Range(Recipients)) /\ Len(Drawn) = Fan
  BY <1>4, <1>5
<1>7. Drawn # <<>>
  BY <1>5, <1>6
<1> QED
  BY <1>1, <1>2, <1>6, <1>7

LEMMA DrawIs ==
  ASSUME NEW c \in Clients, Draw(c)
  PROVE  /\ pc[c] = "draw"
         /\ rcpts' = [rcpts EXCEPT ![c] = Drawn]
         /\ used' = [k \in 1 .. Size |->
                       used[k] + Cardinality({i \in 1 .. Fan : Entry(i) = k})]
         /\ seq' = seq + Fan
         /\ pc' = [pc EXCEPT ![c] = "send"] /\ cmd' = [cmd EXCEPT ![c] = "RCPT"]
         /\ UNCHANGED <<perMessage, claimed, generated, named, unread, server, spoiled>>
<1> DEFINE drawn == [i \in 1 .. Fan |-> ((seq + i - 1) % Size) + 1]
<1>1. /\ pc[c] = "draw"
      /\ rcpts' = [rcpts EXCEPT ![c] = [i \in 1 .. Fan |-> Recipients[drawn[i]]]]
      /\ used' = [k \in 1 .. Size |->
                    used[k] + Cardinality({i \in 1 .. Fan : drawn[i] = k})]
      /\ seq' = seq + Fan
      /\ pc' = [pc EXCEPT ![c] = "send"] /\ cmd' = [cmd EXCEPT ![c] = "RCPT"]
      /\ UNCHANGED <<perMessage, claimed, generated, named, unread, server, spoiled>>
  BY DEF Draw, DrawCapped, Set, Fan
<1>2. \A i \in 1 .. Fan : drawn[i] = Entry(i)
  BY DEF Entry
<1> HIDE DEF drawn
<1>3. [i \in 1 .. Fan |-> Recipients[drawn[i]]] = Drawn
  BY <1>2 DEF Drawn
<1>4. \A k : {i \in 1 .. Fan : drawn[i] = k} = {i \in 1 .. Fan : Entry(i) = k}
  BY <1>2
<1> QED
  BY <1>1, <1>3, <1>4

(* An entry is hit as often as its place in the walk is.                   *)
LEMMA DrawnOf ==
  ASSUME TypeOK, NEW k \in 1 .. Size
  PROVE  {i \in 1 .. Fan : Entry(i) = k} = Passing(seq, Fan, k, Size)
<1> SUFFICES ASSUME NEW i \in 1 .. Fan
             PROVE  Entry(i) = k <=> Place(seq, i, Size) = k - 1
  BY DEF Passing
<1> DEFINE m == (seq + i - 1) % Size
<1>1. Entry(i) = m + 1
  BY DEF Entry
<1>2. m \in 0 .. Size - 1
  <2>1. seq + i - 1 \in Int
    BY DrawnType DEF TypeOK
  <2> QED
    BY <2>1, Sizes, Division
<1> HIDE DEF m
<1>3. m + 1 = k <=> m = k - 1
  BY <1>2, Sizes
<1> QED
  BY <1>1, <1>3 DEF m, Place

LEMMA DrawnCount ==
  ASSUME TypeOK, NEW k \in 1 .. Size,
         NEW hits, hits = {i \in 1 .. Fan : Entry(i) = k}
  PROVE  /\ Turns(seq, k, Size) \in Nat
         /\ \A i, j \in hits : i = j
         /\ Cardinality(hits) \in Nat
         /\ Turns(seq + Fan, k, Size) = Turns(seq, k, Size) + Cardinality(hits)
<1>1. Size \in Nat \ {0} /\ seq \in Nat /\ Fan \in 1 .. Size
  BY Sizes, DrawnType DEF TypeOK
<1>2. hits = Passing(seq, Fan, k, Size)
  BY DrawnOf
<1> QED
  BY <1>1, <1>2, Hits

(* No entry is drawn twice for one delivery.                               *)
LEMMA DrawnOnce ==
  ASSUME TypeOK, NEW a \in 1 .. Fan, NEW b \in 1 .. Fan, Entry(a) = Entry(b)
  PROVE  a = b
<1>1. Entry(a) \in 1 .. Size
  BY DrawnType
<1>2. PICK hits : hits = {i \in 1 .. Fan : Entry(i) = Entry(a)}
  OBVIOUS
<1>3. \A i, j \in hits : i = j
  BY <1>1, <1>2, DrawnCount
<1>4. a \in hits /\ b \in hits
  BY <1>2
<1> QED
  BY <1>3, <1>4

(* So each mention of a recipient is one of the list's.                    *)
LEMMA DrawnMentions ==
  ASSUME TypeOK, NEW r
  PROVE  Cardinality(Mentions(Drawn, r)) <= Cardinality(Mentions(Recipients, r))
<1> DEFINE S == Mentions(Drawn, r)
           T == Mentions(Recipients, r)
           f == [i \in S |-> Entry(i)]
<1>1. S = {i \in 1 .. Fan : Recipients[Entry(i)] = r}
  BY DEF Mentions, Drawn
<1>2. T = {k \in 1 .. Size : Recipients[k] = r}
  BY Sizes DEF Mentions
<1> HIDE DEF S, T
<1>3. f \in [S -> T]
  BY <1>1, <1>2, DrawnType
<1>4. \A i, j \in S : f[i] = f[j] => i = j
  BY <1>1, DrawnOnce
<1>5. f \in Injection(S, T)
  <2> HIDE DEF f
  <2> QED
    BY <1>3, <1>4 DEF Injection, IsInjective
<1>6. IsFiniteSet(T)
  <2>1. IsFiniteSet(1 .. Size)
    BY Sizes, FS_Interval
  <2> QED
    BY <1>2, <2>1, FS_Subset
<1>7. Cardinality(S) <= Cardinality(T)
  BY <1>5, <1>6, FS_Injection
<1> QED
  BY <1>7 DEF S, T

-----------------------------------------------------------------------------
(* The initial states, and every step. *)

LEMMA Starts == Init => Inv
<1> SUFFICES ASSUME Init PROVE Inv
  OBVIOUS
<1>1. perMessage \in Nat \ {0}
  BY ConfigAssumption DEF Init
<1>2. TypeOK
  <2>1. /\ <<>> \in Seq(Range(Recipients)) /\ <<>> \in Seq(Commands) /\ <<>> \in Seq(Lines)
        /\ Len(<<>>) = 0
    OBVIOUS
  <2>2. rcpts \in [Clients -> Seq(Range(Recipients))] /\ owed \in [Clients -> Seq(Commands)]
    BY <2>1 DEF Init
  <2>3. buffer \in [Clients -> Seq(Lines)] /\ generated \in Seq(Range(Recipients))
    BY <2>1 DEF Init
  <2>4. \A c \in Clients : Len(rcpts[c]) <= Size /\ named[c] <= Len(rcpts[c])
    BY <2>1, Sizes DEF Init
  <2>5. /\ named \in [Clients -> 0 .. Size] /\ unread \in [Clients -> 0 .. Size]
        /\ lines \in [Clients -> 0 .. MaxLines - 1]
    BY Sizes, ConfigAssumption DEF Init
  <2>6. /\ claimed \in 0 .. Deliveries /\ seq \in Nat /\ used \in [1 .. Size -> Nat]
        /\ cmd \in [Clients -> Commands]
    BY ConfigAssumption, Sizes DEF Init, Commands
  <2> QED
    BY <1>1, <2>1, <2>2, <2>3, <2>4, <2>5, <2>6, Sizes DEF Init, TypeOK
<1> QED
  BY <1>2 DEF Init, Inv, PlaceOK, TalkOK, CountOK, RefusedOK, Midway

LEMMA ServerLineStep ==
  ASSUME Inv, NEW c \in Clients, ServerLine(c)
  PROVE  Inv'
<1> DEFINE to == Head(owed[c])
<1>1. /\ owed[c] # <<>> /\ owed[c] \in Seq(Commands) /\ buffer[c] \in Seq(Lines)
      /\ lines[c] \in 0 .. MaxLines - 1 /\ MaxLines \in Nat
  BY ConfigAssumption DEF Inv, TypeOK, ServerLine
<1>2. /\ to \in Commands /\ to = owed[c][1] /\ Tail(owed[c]) \in Seq(Commands)
      /\ Len(Tail(owed[c])) = Len(owed[c]) - 1 /\ Len(owed[c]) \in Nat \ {0}
      /\ DOMAIN owed[c] = 1 .. Len(owed[c])
      /\ \A i \in DOMAIN Tail(owed[c]) : i + 1 \in DOMAIN owed[c] /\ Tail(owed[c])[i] = owed[c][i + 1]
      /\ owed[c] # <<>>
  BY <1>1, HeadTailProperties, LenProperties, EmptySeq
<1>3. PICK no \in {FALSE, Refuses}, more \in {FALSE, lines[c] + 1 < MaxLines} :
        /\ buffer' = [buffer EXCEPT ![c] = Append(@,
                        [to |-> to, code |-> IF no THEN "5xx" ELSE Want(to), more |-> more])]
        /\ refused' = [refused EXCEPT ![c] = refused[c] \/ no]
        /\ owed' = IF more THEN owed ELSE [owed EXCEPT ![c] = Tail(@)]
        /\ lines' = [lines EXCEPT ![c] = IF more THEN lines[c] + 1 ELSE 0]
  BY DEF ServerLine, Set
<1>4. UNCHANGED <<shared, client, history>>
  BY DEF ServerLine
<1>5. no \in BOOLEAN /\ more \in BOOLEAN /\ (more => lines[c] + 1 < MaxLines)
  <2>1. Refuses \in BOOLEAN
    BY ConfigAssumption
  <2>2. (lines[c] + 1 < MaxLines) \in BOOLEAN
    OBVIOUS
  <2> QED
    BY <2>1, <2>2
<1> DEFINE l == [to |-> to, code |-> IF no THEN "5xx" ELSE Want(to), more |-> more]
           b == Append(buffer[c], l)
<1>6. l \in Lines /\ l.to = to /\ l.more = more /\ (no => l.code = "5xx")
  BY <1>2, <1>5 DEF Lines, Want, Commands
<1> HIDE DEF l, to
<1>7. /\ b \in Seq(Lines) /\ Len(b) = Len(buffer[c]) + 1 /\ Len(buffer[c]) \in Nat
      /\ DOMAIN b = 1 .. Len(buffer[c]) + 1 /\ DOMAIN buffer[c] = 1 .. Len(buffer[c])
      /\ \A i \in 1 .. Len(buffer[c]) : b[i] = buffer[c][i]
      /\ b[Len(buffer[c]) + 1] = l
  BY <1>1, <1>6, AppendProperties, LenProperties
<1>8. Replies(b) = IF more THEN Replies(buffer[c]) ELSE Replies(buffer[c]) + 1
  BY <1>1, <1>6, RepliesAppend
<1>9. Replies(buffer[c]) \in Nat
  BY <1>1, RepliesType
<1> HIDE DEF b
<1>10. buffer' = [buffer EXCEPT ![c] = b]
  BY <1>3 DEF b, l
<1>11. owed' = [owed EXCEPT ![c] = IF more THEN owed[c] ELSE Tail(owed[c])]
  BY <1>3 DEF Inv, TypeOK
<1>12. TypeOK'
  <2>1. lines' = [lines EXCEPT ![c] = IF more THEN lines[c] + 1 ELSE 0]
    BY <1>3
  <2>2. (IF more THEN lines[c] + 1 ELSE 0) \in 0 .. MaxLines - 1
    BY <1>1, <1>5
  <2>3. refused' \in [Clients -> BOOLEAN]
    BY <1>3, <1>5 DEF Inv, TypeOK
  <2> QED
    BY <1>1, <1>2, <1>4, <1>7, <1>10, <1>11, <2>1, <2>2, <2>3 DEF Inv, TypeOK, shared, client, history
<1>13. PlaceOK'
  BY <1>4 DEF Inv, PlaceOK, client
<1>14. TalkOK'
  <2> SUFFICES ASSUME NEW d \in Clients, pc[d] \in Midway PROVE Talk(d)'
    BY <1>4 DEF TalkOK, client
  <2>1. Talk(d) /\ cmd'[d] = cmd[d]
    BY <1>4 DEF Inv, TalkOK, client
  <2>2. CASE d # c
    BY <1>10, <1>11, <2>1, <2>2 DEF Inv, TypeOK, Talk
  <2>3. CASE d = c
    <3>1. /\ buffer'[c] = b /\ cmd'[c] = cmd[c]
          /\ owed'[c] = IF more THEN owed[c] ELSE Tail(owed[c])
      BY <1>10, <1>11, <2>1, <2>3 DEF Inv, TypeOK
    <3>2. \A i \in DOMAIN owed'[c] : owed'[c][i] = cmd[c]
      BY <1>2, <2>1, <2>3, <3>1 DEF Talk
    <3>3. to = cmd[c]
      BY <1>2, <2>1, <2>3 DEF Talk
    <3>4. \A i \in DOMAIN b : b[i].to = cmd[c]
      BY <1>6, <1>7, <2>1, <2>3, <3>3 DEF Talk
    <3>5. more => owed'[c] # <<>>
      BY <1>1, <3>1
    <3>6. ~more => ~b[Len(b)].more
      BY <1>6, <1>7
    <3> QED
      BY <2>3, <3>1, <3>2, <3>4, <3>5, <3>6 DEF Talk
  <2> QED
    BY <2>2, <2>3
<1>15. CountOK'
  <2> SUFFICES ASSUME NEW d \in Clients
               PROVE  /\ pc[d] = "read" =>
                           unread[d] > 0 /\ unread[d] = Len(owed'[d]) + Replies(buffer'[d])
                      /\ pc[d] \in {"send", "draw", "generate", "delivered"} =>
                           owed'[d] = <<>> /\ buffer'[d] = <<>>
    BY <1>4 DEF CountOK, client
  <2>1. CASE d # c
    BY <1>10, <1>11, <2>1 DEF Inv, TypeOK, CountOK
  <2>2. CASE d = c
    <3>1. buffer'[c] = b /\ owed'[c] = IF more THEN owed[c] ELSE Tail(owed[c])
      BY <1>10, <1>11 DEF Inv, TypeOK
    <3>2. Len(owed'[c]) + Replies(b) = Len(owed[c]) + Replies(buffer[c])
      BY <1>2, <1>5, <1>8, <1>9, <3>1
    <3> QED
      BY <1>1, <2>2, <3>1, <3>2 DEF Inv, CountOK
  <2> QED
    BY <2>1, <2>2
<1>16. RefusedOK'
  <2> SUFFICES ASSUME NEW d \in Clients, pc[d] \in Midway, refused'[d]
               PROVE  \E i \in DOMAIN buffer'[d] : buffer'[d][i].code = "5xx"
    BY <1>4 DEF RefusedOK, client
  <2>1. CASE d # c
    BY <1>3, <1>10, <2>1 DEF Inv, TypeOK, RefusedOK
  <2>2. CASE d = c
    <3>1. buffer'[c] = b /\ (refused[c] \/ no)
      BY <1>3, <1>10, <2>2 DEF Inv, TypeOK
    <3>2. CASE no
      <4>1. Len(buffer[c]) + 1 \in DOMAIN b
        BY <1>7
      <4> QED
        BY <1>6, <1>7, <2>2, <3>1, <3>2, <4>1
    <3>3. CASE refused[c]
      BY <1>7, <2>2, <3>1, <3>3 DEF Inv, RefusedOK
    <3> QED
      BY <3>1, <3>2, <3>3
  <2> QED
    BY <2>1, <2>2
<1> QED
  BY <1>12, <1>13, <1>14, <1>15, <1>16 DEF Inv

LEMMA ClaimStep ==
  ASSUME Inv, NEW c \in Clients, Claim(c)
  PROVE  Inv'
<1>1. PICK place \in {"dial", "done"} :
        /\ pc' = [pc EXCEPT ![c] = place]
        /\ claimed' \in 0 .. Deliveries
        /\ UNCHANGED <<perMessage, seq, generated, cmd, rcpts, named, unread, server, history>>
  BY ConfigAssumption DEF Inv, TypeOK, Claim, Set
<1>2. TypeOK'
  BY <1>1 DEF Inv, TypeOK, server, history
<1>3. PlaceOK'
  BY <1>1 DEF Inv, TypeOK, PlaceOK
<1>4. TalkOK'
  BY <1>1 DEF Inv, TypeOK, TalkOK, Talk, Midway, server
<1>5. CountOK' /\ RefusedOK'
  BY <1>1 DEF Inv, TypeOK, CountOK, RefusedOK, Midway, server
<1> QED
  BY <1>2, <1>3, <1>4, <1>5 DEF Inv

LEMMA DialStep ==
  ASSUME Inv, NEW c \in Clients, Dial(c)
  PROVE  Inv'
<1>1. /\ <<"greeting">> \in Seq(Commands) /\ Len(<<"greeting">>) = 1
      /\ \A S : <<>> \in Seq(S)
  BY DEF Commands
<1>2. TypeOK'
  <2>1. /\ pc' \in [Clients -> {"idle", "dial", "send", "read", "draw", "generate",
                                "delivered", "failed", "done"}]
        /\ cmd' \in [Clients -> Commands]
    BY DEF Inv, TypeOK, Dial, Set, Commands
  <2>2. /\ rcpts' \in [Clients -> Seq(Range(Recipients))]
        /\ named' \in [Clients -> 0 .. Size] /\ unread' \in [Clients -> 0 .. Size]
    BY <1>1, Sizes DEF Inv, TypeOK, Dial, Set
  <2>3. \A d \in Clients : Len(rcpts'[d]) <= Size /\ named'[d] <= Len(rcpts'[d])
    <3>1. rcpts'[c] = <<>> /\ named'[c] = 0 /\ Len(<<>>) = 0 /\ 0 <= Size
      BY Sizes DEF Inv, TypeOK, Dial, Set
    <3>2. \A d \in Clients \ {c} : rcpts'[d] = rcpts[d] /\ named'[d] = named[d]
      BY DEF Inv, TypeOK, Dial, Set
    <3>3. \A d \in Clients : Len(rcpts[d]) <= Size /\ named[d] <= Len(rcpts[d])
      BY DEF Inv, TypeOK
    <3>4. Len(rcpts'[c]) <= Size /\ named'[c] <= Len(rcpts'[c])
      BY <3>1
    <3> QED
      BY <3>2, <3>3, <3>4
  <2>4. owed' \in [Clients -> Seq(Commands)] /\ buffer' \in [Clients -> Seq(Lines)]
    BY <1>1 DEF Inv, TypeOK, Dial, Set
  <2>5. lines' \in [Clients -> 0 .. MaxLines - 1] /\ refused' \in [Clients -> BOOLEAN]
    BY ConfigAssumption DEF Inv, TypeOK, Dial, Set
  <2>6. UNCHANGED <<perMessage, claimed, seq, generated, used, spoiled>>
    BY DEF Dial, shared, history
  <2> QED
    BY <2>1, <2>2, <2>3, <2>4, <2>5, <2>6 DEF Inv, TypeOK
<1>3. PlaceOK'
  BY DEF Inv, TypeOK, PlaceOK, Dial, Set
<1>4. TalkOK'
  <2>1. cmd'[c] = "greeting" /\ owed'[c] = <<"greeting">> /\ buffer'[c] = <<>>
    BY DEF Inv, TypeOK, Dial, Set
  <2>2. Talk(c)'
    BY <2>1 DEF Talk
  <2>3. \A d \in Clients \ {c} :
          pc'[d] = pc[d] /\ cmd'[d] = cmd[d] /\ owed'[d] = owed[d] /\ buffer'[d] = buffer[d]
    BY DEF Inv, TypeOK, Dial, Set
  <2> QED
    BY <2>2, <2>3 DEF Inv, TalkOK, Talk
<1>5. CountOK'
  BY <1>1, RepliesNone DEF Inv, TypeOK, CountOK, Dial, Set
<1>6. RefusedOK'
  BY DEF Inv, TypeOK, RefusedOK, Midway, Dial, Set
<1> QED
  BY <1>2, <1>3, <1>4, <1>5, <1>6 DEF Inv

LEMMA DrawStep ==
  ASSUME Inv, NEW c \in Clients, Draw(c)
  PROVE  Inv'
<1>1. /\ pc[c] = "draw"
      /\ rcpts' = [rcpts EXCEPT ![c] = Drawn]
      /\ seq' = seq + Fan
      /\ pc' = [pc EXCEPT ![c] = "send"] /\ cmd' = [cmd EXCEPT ![c] = "RCPT"]
      /\ UNCHANGED <<perMessage, claimed, generated, named, unread, server, spoiled>>
  BY DrawIs
<1>2. /\ Drawn \in Seq(Range(Recipients)) /\ Len(Drawn) = Fan /\ Drawn # <<>>
      /\ Fan \in 1 .. Size /\ Size \in Nat
  BY DrawnType, Sizes DEF Inv
<1>3. used' \in [1 .. Size -> Nat]
  <2> DEFINE hits(k) == Cardinality({i \in 1 .. Fan : Entry(i) = k})
  <2>1. \A k \in 1 .. Size : hits(k) \in Nat
    <3> TAKE k \in 1 .. Size
    <3>1. PICK here : here = {i \in 1 .. Fan : Entry(i) = k}
      OBVIOUS
    <3>2. Cardinality(here) \in Nat
      BY <3>1, DrawnCount DEF Inv
    <3> QED
      BY <3>1, <3>2
  <2>2. used' = [k \in 1 .. Size |-> used[k] + hits(k)]
    BY DrawIs
  <2> HIDE DEF hits
  <2> QED
    BY <2>1, <2>2 DEF Inv, TypeOK
<1>4. named[c] = 0
  BY <1>1 DEF Inv, PlaceOK
<1>5. TypeOK'
  <2>1. /\ rcpts' \in [Clients -> Seq(Range(Recipients))]
        /\ \A d \in Clients : Len(rcpts'[d]) <= Size /\ named[d] <= Len(rcpts'[d])
    <3>1. /\ rcpts \in [Clients -> Seq(Range(Recipients))] /\ named[c] = 0
          /\ \A d \in Clients : Len(rcpts[d]) <= Size /\ named[d] <= Len(rcpts[d])
      BY <1>4 DEF Inv, TypeOK
    <3>2. /\ rcpts' \in [Clients -> Seq(Range(Recipients))] /\ rcpts'[c] = Drawn
          /\ \A d \in Clients \ {c} : rcpts'[d] = rcpts[d]
      BY <1>1, <1>2, <3>1
    <3>3. Len(Drawn) <= Size /\ 0 <= Len(Drawn)
      BY <1>2
    <3> QED
      BY <3>1, <3>2, <3>3
  <2>2. seq' \in Nat
    BY <1>1, <1>2 DEF Inv, TypeOK
  <2>3. cmd' \in [Clients -> Commands]
    BY <1>1 DEF Inv, TypeOK, Commands
  <2>4. pc' \in [Clients -> {"idle", "dial", "send", "read", "draw", "generate",
                             "delivered", "failed", "done"}]
    BY <1>1 DEF Inv, TypeOK
  <2>5. /\ UNCHANGED <<perMessage, claimed, generated, named, unread, owed, lines, buffer>>
        /\ UNCHANGED <<refused, spoiled>>
    BY <1>1 DEF server
  <2> QED
    BY <1>3, <2>1, <2>2, <2>3, <2>4, <2>5 DEF Inv, TypeOK
<1>6. PlaceOK'
  BY <1>1, <1>2, <1>4 DEF Inv, TypeOK, PlaceOK
<1>7. TalkOK'
  <2> SUFFICES ASSUME NEW d \in Clients, pc'[d] \in Midway PROVE Talk(d)'
    BY DEF TalkOK
  <2>1. CASE d # c
    BY <1>1, <2>1 DEF Inv, TypeOK, TalkOK, Talk, server
  <2>2. CASE d = c
    <3>1. owed'[c] = <<>> /\ buffer'[c] = <<>>
      BY <1>1 DEF Inv, CountOK, server
    <3> QED
      BY <2>2, <3>1 DEF Talk
  <2> QED
    BY <2>1, <2>2
<1>8. CountOK' /\ RefusedOK'
  BY <1>1 DEF Inv, TypeOK, CountOK, RefusedOK, Midway, server
<1> QED
  BY <1>5, <1>6, <1>7, <1>8 DEF Inv

LEMMA GenerateStep ==
  ASSUME Inv, NEW c \in Clients, Generate(c)
  PROVE  Inv'
<1>1. /\ pc[c] = "generate" /\ rcpts[c] # <<>>
      /\ generated' = Append(generated, rcpts[c][1])
      /\ pc' = [pc EXCEPT ![c] = "send"] /\ cmd' = [cmd EXCEPT ![c] = "BODY"]
      /\ UNCHANGED <<perMessage, claimed, seq, rcpts, named, unread, server, history>>
  BY DEF Generate, Set, Inv, PlaceOK
<1>2. rcpts[c][1] \in Range(Recipients)
  <2>1. rcpts[c] \in Seq(Range(Recipients))
    BY DEF Inv, TypeOK
  <2> QED
    BY <1>1, <2>1
<1>3. generated' \in Seq(Range(Recipients))
  BY <1>1, <1>2, AppendProperties DEF Inv, TypeOK
<1>4. TypeOK'
  BY <1>1, <1>3 DEF Inv, TypeOK, server, history, Commands
<1>5. PlaceOK'
  BY <1>1 DEF Inv, TypeOK, PlaceOK
<1>6. TalkOK'
  <2> SUFFICES ASSUME NEW d \in Clients, pc'[d] \in Midway PROVE Talk(d)'
    BY DEF TalkOK
  <2>1. CASE d # c
    BY <1>1, <2>1 DEF Inv, TypeOK, TalkOK, Talk, server
  <2>2. CASE d = c
    <3>1. owed'[c] = <<>> /\ buffer'[c] = <<>>
      BY <1>1 DEF Inv, CountOK, server
    <3> QED
      BY <2>2, <3>1 DEF Talk
  <2> QED
    BY <2>1, <2>2
<1>7. CountOK' /\ RefusedOK'
  BY <1>1 DEF Inv, TypeOK, CountOK, RefusedOK, Midway, server
<1> QED
  BY <1>4, <1>5, <1>6, <1>7 DEF Inv

LEMMA SendStep ==
  ASSUME Inv, NEW c \in Clients, Send(c)
  PROVE  Inv'
<1> DEFINE n == IF cmd[c] = "BODY" THEN Len(rcpts[c]) ELSE 1
           more == Times(cmd[c], n)
<1>1. /\ pc[c] = "send"
      /\ owed' = [owed EXCEPT ![c] = @ \o more]
      /\ unread' = [unread EXCEPT ![c] = n]
      /\ named' = [named EXCEPT ![c] = IF cmd[c] = "RCPT" THEN named[c] + 1 ELSE named[c]]
      /\ pc' = [pc EXCEPT ![c] = "read"]
      /\ UNCHANGED <<shared, cmd, rcpts, lines, buffer, refused, history>>
  BY DEF Send, SendAwaiting, Set
<1>2. /\ cmd[c] \in Commands /\ rcpts[c] \in Seq(Range(Recipients)) /\ Len(rcpts[c]) <= Size
      /\ owed[c] = <<>> /\ buffer[c] = <<>> /\ cmd[c] # "greeting"
      /\ named[c] \in 0 .. Len(rcpts[c])
      /\ cmd[c] = "RCPT" => named[c] < Len(rcpts[c])
  BY <1>1 DEF Inv, TypeOK, CountOK, PlaceOK
<1>3. cmd[c] = "BODY" => rcpts[c] # <<>>
  BY <1>1 DEF Inv, PlaceOK
<1>4. n \in 1 .. Size
  BY <1>2, <1>3, Sizes, EmptySeq
<1> HIDE DEF n
<1>5. more \in Seq(Commands) /\ Len(more) = n /\ DOMAIN more = 1 .. n /\ \A i \in 1 .. n : more[i] = cmd[c]
  <2>1. n \in Nat
    BY <1>4, Sizes
  <2>2. more \in [1 .. n -> Commands] /\ \A i \in 1 .. n : more[i] = cmd[c]
    BY <1>2 DEF Times
  <2> QED
    BY <2>1, <2>2
<1> HIDE DEF more
<1>6. owed[c] \o more = more
  BY <1>2, <1>5, ConcatEmptySeq
<1>7. owed' = [owed EXCEPT ![c] = more]
  BY <1>1, <1>6 DEF Inv, TypeOK
<1>8. TypeOK'
  <2>1. named' \in [Clients -> 0 .. Size] /\ \A d \in Clients : named'[d] <= Len(rcpts[d])
    <3> DEFINE m == IF cmd[c] = "RCPT" THEN named[c] + 1 ELSE named[c]
    <3>1. m \in 0 .. Size /\ m <= Len(rcpts[c])
      BY <1>2, Sizes, LenProperties
    <3> HIDE DEF m
    <3>2. named' = [named EXCEPT ![c] = m]
      BY <1>1 DEF m
    <3> QED
      BY <3>1, <3>2 DEF Inv, TypeOK
  <2>2. unread' \in [Clients -> 0 .. Size]
    BY <1>1, <1>4, Sizes DEF Inv, TypeOK
  <2>3. owed' \in [Clients -> Seq(Commands)]
    BY <1>5, <1>7 DEF Inv, TypeOK
  <2> QED
    BY <1>1, <2>1, <2>2, <2>3 DEF Inv, TypeOK, shared, history
<1>9. PlaceOK'
  BY <1>1, <1>2 DEF Inv, TypeOK, PlaceOK
<1>10. more # <<>>
  BY <1>4, <1>5
<1>11. TalkOK'
  <2> SUFFICES ASSUME NEW d \in Clients, pc'[d] \in Midway PROVE Talk(d)'
    BY DEF TalkOK
  <2>1. CASE d # c
    BY <1>1, <1>7, <2>1 DEF Inv, TypeOK, TalkOK, Talk
  <2>2. CASE d = c
    <3>1. owed'[c] = more /\ buffer'[c] = <<>> /\ cmd'[c] = cmd[c]
      BY <1>1, <1>2, <1>7 DEF Inv, TypeOK
    <3> QED
      BY <1>5, <1>10, <2>2, <3>1 DEF Talk
  <2> QED
    BY <2>1, <2>2
<1>12. CountOK'
  BY <1>1, <1>2, <1>4, <1>5, <1>7, RepliesNone DEF Inv, TypeOK, CountOK
<1>13. RefusedOK'
  BY <1>1 DEF Inv, TypeOK, RefusedOK, Midway
<1> QED
  BY <1>8, <1>9, <1>11, <1>12, <1>13 DEF Inv

(* Every entry is drawn once in each turn of the walk.                     *)
WalkOK == \A k \in 1 .. Size : used[k] = Turns(seq, k, Size)

LEMMA WalkStep ==
  ASSUME Inv, WalkOK, [Next]_vars
  PROVE  WalkOK'
<1>1. CASE \E c \in Clients : Draw(c)
  <2> SUFFICES ASSUME NEW k \in 1 .. Size
               PROVE  used'[k] = Turns(seq', k, Size)
    BY DEF WalkOK
  <2>1. PICK c \in Clients : Draw(c)
    BY <1>1
  <2>2. PICK hits : hits = {i \in 1 .. Fan : Entry(i) = k}
    OBVIOUS
  <2>3. Turns(seq + Fan, k, Size) = Turns(seq, k, Size) + Cardinality(hits)
    BY <2>2, DrawnCount DEF Inv
  <2>4. seq' = seq + Fan
    BY <2>1, DrawIs
  <2>5. used'[k] = used[k] + Cardinality(hits)
    BY <2>1, <2>2, DrawIs
  <2>6. used[k] = Turns(seq, k, Size)
    BY DEF WalkOK
  <2> QED
    BY <2>3, <2>4, <2>5, <2>6
<1>2. CASE ~\E c \in Clients : Draw(c)
  <2>1. UNCHANGED <<used, seq>>
    BY <1>2 DEF Next, ClientStep, ServerLine, Claim, Dial, Generate, Send, SendAwaiting, ReadLine,
       ReadLineIf, Drop, Return, Finished, vars, shared, client, server, history
  <2> QED
    BY <2>1 DEF WalkOK
<1> QED
  BY <1>1, <1>2

(* Two places of a set of s differ by less than s.                         *)
LEMMA Even ==
  ASSUME NEW s \in Nat \ {0}, NEW q \in Nat, NEW a \in 1 .. s, NEW b \in 1 .. s
  PROVE  Turns(q, a, s) <= Turns(q, b, s) + 1
<1> DEFINE x == q + s - a
           y == q + s - b
           d == x \div s
           e == y \div s
<1>1. x \in Int /\ y \in Int /\ x < y + s
  OBVIOUS
<1> HIDE DEF x, y
<1>2. /\ d \in Int /\ e \in Int
      /\ x % s \in 0 .. s - 1 /\ y % s \in 0 .. s - 1
      /\ x = s * d + (x % s) /\ y = s * e + (y % s)
  BY <1>1, Division
<1> DEFINE sd == s * d
           se == s * e
           t == x % s
           u == y % s
<1>3. sd \in Int /\ se \in Int /\ s * (d - e) = sd - se
  BY <1>1, <1>2, Distributes
<1>4. ASSUME d > e + 1
      PROVE  FALSE
  <2>1. s * (d - e) >= s * 2
    BY <1>1, <1>2, <1>4, Z3
  <2> HIDE DEF d, e
  <2>2. sd - se >= s + s
    BY <1>1, <1>2, <1>3, <2>1
  <2>3. sd <= x /\ y < se + s
    BY <1>1, <1>2
  <2> HIDE DEF sd, se
  <2> QED
    BY <1>1, <1>2, <1>3, <2>2, <2>3
<1> QED
  BY <1>2, <1>4 DEF x, y, Turns

-----------------------------------------------------------------------------
(* The client reads a line, gives up, or is done. *)

(* What a line leaves behind.                                              *)
LEMMA Taken ==
  ASSUME Inv, NEW c \in Clients, pc[c] = "read", buffer[c] # <<>>
  PROVE  LET s == buffer[c]
         IN  /\ s \in Seq(Lines) /\ Tail(s) \in Seq(Lines)
             /\ Head(s) \in Lines /\ Head(s) = s[1] /\ 1 \in DOMAIN s
             /\ Len(Tail(s)) = Len(s) - 1 /\ Len(s) \in Nat \ {0}
             /\ \A i \in DOMAIN Tail(s) : i + 1 \in DOMAIN s /\ Tail(s)[i] = s[i + 1]
             /\ \A i \in DOMAIN s : i # 1 => i - 1 \in DOMAIN Tail(s) /\ Tail(s)[i - 1] = s[i]
             /\ Tail(s) # <<>> => Tail(s)[Len(Tail(s))] = s[Len(s)]
             /\ Tail(s) # <<>> => Len(Tail(s)) \in DOMAIN Tail(s)
             /\ Replies(Tail(s)) \in Nat
             /\ Replies(s) = IF Head(s).more THEN Replies(Tail(s)) ELSE Replies(Tail(s)) + 1
             /\ \A i \in DOMAIN Tail(s) : ~Tail(s)[i].more => Replies(Tail(s)) > 0
<1> DEFINE s == buffer[c]
<1>1. s \in Seq(Lines)
  BY DEF Inv, TypeOK
<1>2. /\ Tail(s) \in Seq(Lines) /\ Head(s) \in Lines /\ Head(s) = s[1]
      /\ Len(s) \in Nat \ {0} /\ DOMAIN s = 1 .. Len(s)
      /\ Len(Tail(s)) = Len(s) - 1 /\ DOMAIN Tail(s) = 1 .. Len(s) - 1
      /\ \A i \in 1 .. Len(s) - 1 : Tail(s)[i] = s[i + 1]
  BY <1>1, HeadTailProperties, LenProperties, EmptySeq
<1>3. /\ Replies(Tail(s)) \in Nat
      /\ \A i \in DOMAIN Tail(s) : ~Tail(s)[i].more => Replies(Tail(s)) > 0
  BY <1>2, RepliesType
<1>4. Replies(s) = IF Head(s).more THEN Replies(Tail(s)) ELSE Replies(Tail(s)) + 1
  BY <1>1, RepliesTail
<1>5. Tail(s) # <<>> => Len(Tail(s)) \in Nat \ {0}
  BY <1>2, EmptySeq
<1> HIDE DEF s
<1>6. /\ 1 \in DOMAIN s
      /\ \A i \in DOMAIN Tail(s) : i + 1 \in DOMAIN s /\ Tail(s)[i] = s[i + 1]
      /\ \A i \in DOMAIN s : i # 1 => i - 1 \in DOMAIN Tail(s) /\ Tail(s)[i - 1] = s[i]
  BY <1>2
<1>7. Tail(s) # <<>> => /\ Tail(s)[Len(Tail(s))] = s[Len(s)]
                        /\ Len(Tail(s)) \in DOMAIN Tail(s)
  BY <1>2, <1>5
<1> QED
  BY <1>1, <1>2, <1>3, <1>4, <1>6, <1>7 DEF s

(* Once the last reply is read nothing is outstanding.                     *)
LEMMA NothingLeft ==
  ASSUME Inv, NEW c \in Clients, pc[c] = "read", buffer[c] # <<>>,
         ~Head(buffer[c]).more, unread[c] = 1
  PROVE  owed[c] = <<>> /\ Tail(buffer[c]) = <<>>
<1> DEFINE s == buffer[c]
<1>1. unread[c] = Len(owed[c]) + Replies(s) /\ owed[c] \in Seq(Commands)
  BY DEF Inv, TypeOK, CountOK
<1>2. Replies(Tail(s)) \in Nat /\ Replies(s) = Replies(Tail(s)) + 1
  BY Taken
<1>3. Len(owed[c]) = 0 /\ Replies(Tail(s)) = 0
  BY <1>1, <1>2, LenProperties
<1>4. owed[c] = <<>>
  BY <1>1, <1>3, EmptySeq
<1>5. ~s[Len(s)].more
  BY <1>4 DEF Inv, TalkOK, Talk, Midway
<1>6. ASSUME Tail(s) # <<>>
      PROVE  FALSE
  <2>1. ~Tail(s)[Len(Tail(s))].more /\ Len(Tail(s)) \in DOMAIN Tail(s)
    BY <1>5, <1>6, Taken
  <2>2. \A i \in DOMAIN Tail(s) : ~Tail(s)[i].more => Replies(Tail(s)) > 0
    BY Taken
  <2> HIDE DEF s
  <2>3. Replies(Tail(s)) > 0
    BY <2>1, <2>2, Zenon
  <2> QED
    BY <1>3, <2>3
<1> QED
  BY <1>4, <1>6

LEMMA ReadLineStep ==
  ASSUME Inv, NEW c \in Clients, ReadLine(c)
  PROVE  Inv'
<1> DEFINE s == buffer[c]
           left == IF Last(c) THEN unread[c] - 1 ELSE unread[c]
<1>1. /\ pc[c] = "read" /\ s # <<>>
      /\ buffer' = [buffer EXCEPT ![c] = Tail(s)]
      /\ UNCHANGED <<shared, rcpts, named, owed, lines, refused, history>>
  BY DEF ReadLine, ReadLineIf
<1>2. /\ Last(c) <=> ~Head(s).more
      /\ Wanted(c) <=> Head(s).code = Want(cmd[c])
  BY DEF Last, Wanted
<1>3. /\ unread[c] \in 0 .. Size /\ unread[c] > 0 /\ Size \in Nat
      /\ unread[c] = Len(owed[c]) + Replies(s)
      /\ owed[c] \in Seq(Commands) /\ Len(owed[c]) \in Nat /\ cmd[c] \in Commands
  BY <1>1, Sizes, LenProperties DEF Inv, TypeOK, CountOK
<1>4. Talk(c)
  BY <1>1 DEF Inv, TalkOK, Midway
<1>5. buffer' \in [Clients -> Seq(Lines)]
  BY <1>1, Taken DEF Inv, TypeOK
<1>6. CASE ~Wanted(c)
  <2>1. pc' = [pc EXCEPT ![c] = "failed"] /\ UNCHANGED <<cmd, unread>>
    BY <1>6, <1>1 DEF ReadLine, ReadLineIf, Set
  <2>2. TypeOK'
    BY <1>1, <1>5, <2>1 DEF Inv, TypeOK, shared, history
  <2>3. PlaceOK'
    BY <1>1, <2>1 DEF Inv, TypeOK, PlaceOK
  <2>4. TalkOK'
    BY <1>1, <2>1 DEF Inv, TypeOK, TalkOK, Talk, Midway
  <2>5. CountOK' /\ RefusedOK'
    BY <1>1, <2>1 DEF Inv, TypeOK, CountOK, RefusedOK, Midway
  <2> QED
    BY <2>2, <2>3, <2>4, <2>5 DEF Inv
<1>7. CASE Wanted(c) /\ left # 0
  <2>1. unread' = [unread EXCEPT ![c] = left] /\ UNCHANGED <<pc, cmd>>
    <3>1. unread' = [unread EXCEPT ![c] = left] /\ unread'[c] = left
      BY <1>1, <1>7 DEF ReadLine, ReadLineIf, Set, Inv, TypeOK
    <3> QED
      BY <1>1, <1>7, <3>1 DEF ReadLine, ReadLineIf
  <2>2. left \in 0 .. Size /\ left > 0
    BY <1>3, <1>7
  <2>3. left = Len(owed[c]) + Replies(Tail(s))
    BY <1>1, <1>2, <1>3, Taken
  <2> HIDE DEF left
  <2>4. TypeOK'
    BY <1>1, <1>5, <2>1, <2>2 DEF Inv, TypeOK, shared, history
  <2>5. PlaceOK'
    BY <1>1, <2>1 DEF Inv, PlaceOK
  <2>6. CountOK'
    BY <1>1, <2>1, <2>2, <2>3 DEF Inv, TypeOK, CountOK
  <2>7. TalkOK'
    <3> SUFFICES ASSUME NEW d \in Clients, pc[d] \in Midway PROVE Talk(d)'
      BY <2>1 DEF TalkOK
    <3>1. CASE d # c
      BY <1>1, <2>1, <3>1 DEF Inv, TypeOK, TalkOK, Talk
    <3>2. CASE d = c
      <4>1. buffer'[c] = Tail(s) /\ cmd'[c] = cmd[c] /\ owed'[c] = owed[c]
        BY <1>1, <2>1 DEF Inv, TypeOK
      <4>2. \A i \in DOMAIN Tail(s) : Tail(s)[i].to = cmd[c]
        BY <1>1, <1>4, Taken DEF Talk
      <4>3. owed[c] = <<>> /\ Tail(s) # <<>> => ~Tail(s)[Len(Tail(s))].more
        BY <1>1, <1>4, Taken DEF Talk
      <4> HIDE DEF s
      <4> QED
        BY <1>4, <3>2, <4>1, <4>2, <4>3 DEF Talk
    <3> QED
      BY <3>1, <3>2
  <2>8. RefusedOK'
    <3> SUFFICES ASSUME NEW d \in Clients, pc[d] \in Midway, refused[d]
                 PROVE  \E i \in DOMAIN buffer'[d] : buffer'[d][i].code = "5xx"
      BY <1>1, <2>1 DEF RefusedOK
    <3>1. PICK i \in DOMAIN buffer[d] : buffer[d][i].code = "5xx"
      BY DEF Inv, RefusedOK
    <3>2. CASE d # c
      BY <1>1, <3>1, <3>2 DEF Inv, TypeOK
    <3>3. CASE d = c
      <4>1. i # 1
        <5>1. Want(cmd[c]) # "5xx"
          BY DEF Want
        <5> QED
          BY <1>1, <1>2, <1>7, <3>1, <3>3, <5>1, Taken
      <4>2. i - 1 \in DOMAIN Tail(s) /\ Tail(s)[i - 1] = s[i]
        BY <1>1, <3>1, <3>3, <4>1, Taken
      <4>3. buffer'[c] = Tail(s)
        BY <1>1 DEF Inv, TypeOK
      <4> QED
        BY <3>1, <3>3, <4>2, <4>3
    <3> QED
      BY <3>2, <3>3
  <2> QED
    BY <2>4, <2>5, <2>6, <2>7, <2>8 DEF Inv
<1>8. CASE Wanted(c) /\ left = 0
  <2>1. unread' = [unread EXCEPT ![c] = 0] /\ Follow(c)
    <3>1. unread' = [unread EXCEPT ![c] = left] /\ unread'[c] = left
      BY <1>1, <1>8 DEF ReadLine, ReadLineIf, Set, Inv, TypeOK
    <3> QED
      BY <1>1, <1>8, <3>1 DEF ReadLine, ReadLineIf
  <2>2. owed[c] = <<>> /\ Tail(s) = <<>>
    <3>1. ~Head(s).more /\ unread[c] = 1
      BY <1>2, <1>3, <1>8
    <3> QED
      BY <1>1, <3>1, NothingLeft
  <2> DEFINE place == CASE cmd[c] = "MAIL" -> "draw"
                        [] cmd[c] = "DATA" -> "generate"
                        [] cmd[c] = "QUIT" -> "delivered"
                        [] OTHER -> "send"
             next == NextCommand(c)
  <2>3. pc' = [pc EXCEPT ![c] = place] /\ cmd' = [cmd EXCEPT ![c] = next]
    BY <2>1 DEF Follow, Set
  <2>4. /\ next \in Commands
        /\ place \in {"draw", "generate", "delivered", "send"}
        /\ place = "draw" => next = "MAIL" /\ cmd[c] = "MAIL"
        /\ place = "generate" => next = "DATA" /\ cmd[c] = "DATA"
        /\ place = "delivered" => next = "QUIT"
        /\ place = "send" => next # "greeting" /\ cmd[c] \notin {"MAIL", "DATA", "QUIT"}
        /\ place = "send" /\ next \in {"LHLO", "MAIL"} => cmd[c] \in {"greeting", "LHLO"}
        /\ place = "send" /\ next \in {"RCPT", "DATA", "BODY", "QUIT"} =>
             cmd[c] \in {"RCPT", "DATA", "BODY", "QUIT"}
        /\ place = "send" /\ next = "RCPT" => named[c] < Len(rcpts[c])
    <3>1. CASE cmd[c] = "RCPT"
      <4>1. named[c] \in 0 .. Size /\ named[c] <= Len(rcpts[c]) /\ Len(rcpts[c]) \in Nat
        BY LenProperties DEF Inv, TypeOK
      <4> QED
        BY <3>1, <4>1 DEF NextCommand, Commands
    <3>2. CASE cmd[c] # "RCPT"
      BY <1>3, <3>2 DEF NextCommand, Commands
    <3> QED
      BY <3>1, <3>2
  <2> HIDE DEF place, next, left, s
  <2>5. TypeOK'
    <3>1. pc' \in [Clients -> {"idle", "dial", "send", "read", "draw", "generate",
                               "delivered", "failed", "done"}]
      BY <2>3, <2>4 DEF Inv, TypeOK
    <3>2. cmd' \in [Clients -> Commands] /\ unread' \in [Clients -> 0 .. Size]
      BY <1>3, <2>1, <2>3, <2>4 DEF Inv, TypeOK
    <3> QED
      BY <1>1, <1>5, <3>1, <3>2 DEF Inv, TypeOK, shared, history
  <2>6. PlaceOK'
    <3> SUFFICES ASSUME NEW d \in Clients
                 PROVE  /\ pc'[d] = "draw" => cmd'[d] = "MAIL"
                        /\ pc'[d] = "generate" => cmd'[d] = "DATA"
                        /\ pc'[d] = "delivered" => cmd'[d] = "QUIT"
                        /\ pc'[d] = "send" => cmd'[d] # "greeting"
                        /\ pc'[d] \in {"send", "read", "draw"} /\ cmd'[d] \in {"greeting", "LHLO", "MAIL"} =>
                             named[d] = 0
                        /\ pc'[d] \in {"send", "read", "generate"}
                             /\ cmd'[d] \in {"RCPT", "DATA", "BODY", "QUIT"} => rcpts[d] # <<>>
                        /\ pc'[d] = "send" /\ cmd'[d] = "RCPT" => named[d] < Len(rcpts[d])
      BY <1>1 DEF PlaceOK
    <3>1. CASE d # c
      BY <2>3, <3>1 DEF Inv, TypeOK, PlaceOK
    <3>2. CASE d = c
      <4>1. pc'[c] = place /\ cmd'[c] = next
        BY <2>3 DEF Inv, TypeOK
      <4>2. /\ cmd[c] \in {"greeting", "LHLO", "MAIL"} => named[c] = 0
            /\ cmd[c] \in {"RCPT", "DATA", "BODY", "QUIT"} => rcpts[c] # <<>>
        BY <1>1 DEF Inv, PlaceOK
      <4> QED
        BY <2>4, <3>2, <4>1, <4>2
    <3> QED
      BY <3>1, <3>2
  <2>7. owed'[c] = <<>> /\ buffer'[c] = <<>>
    BY <1>1, <2>2 DEF Inv, TypeOK, s
  <2>8. TalkOK'
    <3> SUFFICES ASSUME NEW d \in Clients, pc'[d] \in Midway PROVE Talk(d)'
      BY DEF TalkOK
    <3>1. CASE d # c
      BY <1>1, <2>3, <3>1 DEF Inv, TypeOK, TalkOK, Talk
    <3>2. CASE d = c
      BY <2>7, <3>2 DEF Talk
    <3> QED
      BY <3>1, <3>2
  <2>9. CountOK'
    <3>1. pc'[c] # "read"
      BY <2>3, <2>4 DEF Inv, TypeOK
    <3> QED
      BY <1>1, <2>1, <2>3, <2>7, <3>1 DEF Inv, TypeOK, CountOK
  <2>10. ~refused[c]
    <3> SUFFICES ASSUME refused[c] PROVE FALSE
      OBVIOUS
    <3>1. PICK i \in DOMAIN buffer[c] : buffer[c][i].code = "5xx"
      BY <1>1 DEF Inv, RefusedOK, Midway
    <3>2. i = 1
      <4>1. DOMAIN Tail(s) = {}
        BY <2>2
      <4> QED
        BY <1>1, <3>1, <4>1, Taken DEF s
    <3>3. Want(cmd[c]) # "5xx"
      BY DEF Want
    <3> QED
      BY <1>1, <1>2, <1>8, <3>1, <3>2, <3>3, Taken DEF s
  <2>11. RefusedOK'
    BY <1>1, <2>3, <2>10 DEF Inv, TypeOK, RefusedOK, Midway
  <2> QED
    BY <2>5, <2>6, <2>8, <2>9, <2>11 DEF Inv
<1> QED
  BY <1>6, <1>7, <1>8

LEMMA DropStep ==
  ASSUME Inv, NEW c \in Clients, Drop(c)
  PROVE  Inv'
<1>1. TypeOK'
  BY DEF Inv, TypeOK, Drop, Set, shared, server, history
<1>2. PlaceOK'
  BY DEF Inv, TypeOK, PlaceOK, Drop, Set
<1>3. TalkOK'
  BY DEF Inv, TypeOK, TalkOK, Talk, Midway, Drop, Set, server
<1>4. CountOK' /\ RefusedOK'
  BY DEF Inv, TypeOK, CountOK, RefusedOK, Midway, Drop, Set, server
<1> QED
  BY <1>1, <1>2, <1>3, <1>4 DEF Inv

LEMMA ReturnStep ==
  ASSUME Inv, NEW c \in Clients, Return(c)
  PROVE  Inv'
<1>1. TypeOK'
  <2>1. <<>> \in Seq(Commands) /\ <<>> \in Seq(Lines) /\ 0 \in 0 .. MaxLines - 1
    BY ConfigAssumption
  <2>2. spoiled' \in BOOLEAN
    BY DEF Inv, TypeOK, Return
  <2> QED
    BY <2>1, <2>2 DEF Inv, TypeOK, Return, Set, shared
<1>2. PlaceOK'
  BY DEF Inv, TypeOK, PlaceOK, Return, Set
<1>3. TalkOK'
  <2>1. pc'[c] \notin Midway
    BY DEF Inv, TypeOK, Return, Set, Midway
  <2>2. \A d \in Clients \ {c} :
          pc'[d] = pc[d] /\ cmd'[d] = cmd[d] /\ owed'[d] = owed[d] /\ buffer'[d] = buffer[d]
    BY DEF Inv, TypeOK, Return, Set
  <2> QED
    BY <2>1, <2>2 DEF Inv, TalkOK, Talk
<1>4. CountOK' /\ RefusedOK'
  BY DEF Inv, TypeOK, CountOK, RefusedOK, Midway, Return, Set
<1> QED
  BY <1>1, <1>2, <1>3, <1>4 DEF Inv

LEMMA Steps == Inv /\ [Next]_vars => Inv'
<1> SUFFICES ASSUME Inv, [Next]_vars PROVE Inv'
  OBVIOUS
<1>1. ASSUME NEW c \in Clients, ServerLine(c) PROVE Inv'
  BY <1>1, ServerLineStep
<1>2. ASSUME NEW c \in Clients, Claim(c) PROVE Inv'
  BY <1>2, ClaimStep
<1>3. ASSUME NEW c \in Clients, Dial(c) PROVE Inv'
  BY <1>3, DialStep
<1>4. ASSUME NEW c \in Clients, Draw(c) PROVE Inv'
  BY <1>4, DrawStep
<1>5. ASSUME NEW c \in Clients, Generate(c) PROVE Inv'
  BY <1>5, GenerateStep
<1>6. ASSUME NEW c \in Clients, Send(c) PROVE Inv'
  BY <1>6, SendStep
<1>7. ASSUME NEW c \in Clients, ReadLine(c) PROVE Inv'
  BY <1>7, ReadLineStep
<1>8. ASSUME NEW c \in Clients, Drop(c) PROVE Inv'
  BY <1>8, DropStep
<1>9. ASSUME NEW c \in Clients, Return(c) PROVE Inv'
  BY <1>9, ReturnStep
<1>10. CASE UNCHANGED vars
  <2>1. UNCHANGED <<perMessage, claimed, seq, generated>> /\ UNCHANGED <<pc, cmd, rcpts, named, unread>>
        /\ UNCHANGED <<owed, lines, buffer, refused>> /\ UNCHANGED <<used, spoiled>>
    BY <1>10 DEF vars, shared, client, server, history
  <2>2. TypeOK'
    BY <2>1 DEF Inv, TypeOK
  <2>3. PlaceOK' /\ TalkOK'
    BY <2>1 DEF Inv, PlaceOK, TalkOK, Talk
  <2>4. CountOK' /\ RefusedOK'
    BY <2>1 DEF Inv, CountOK, RefusedOK
  <2> QED
    BY <2>2, <2>3, <2>4 DEF Inv
<1> QED
  BY <1>1, <1>2, <1>3, <1>4, <1>5, <1>6, <1>7, <1>8, <1>9, <1>10 DEF Next, ClientStep, Finished

-----------------------------------------------------------------------------
(* What the invariant says of the properties. *)

LEMMA InvInStep == Inv => InStep
<1> SUFFICES ASSUME Inv, NEW c \in Clients
             PROVE  /\ pc[c] = "read" => Outstanding(c) = {cmd[c]}
                    /\ pc[c] \in {"send", "draw", "generate", "delivered"} => Outstanding(c) = {}
  BY DEF InStep
<1>1. CASE pc[c] = "read"
  <2>1. Talk(c) /\ unread[c] > 0 /\ unread[c] = Len(owed[c]) + Replies(buffer[c])
    BY <1>1 DEF Inv, TalkOK, CountOK, Midway
  <2>2. \A x \in Outstanding(c) : x = cmd[c]
    BY <2>1 DEF Talk, Outstanding, Range
  <2>3. owed[c] # <<>> \/ buffer[c] # <<>>
    <3>1. Len(<<>>) = 0
      OBVIOUS
    <3> QED
      BY <2>1, <3>1, RepliesNone
  <2>4. Outstanding(c) # {}
    <3>1. CASE owed[c] # <<>>
      <4>1. owed[c] \in Seq(Commands) /\ 1 \in DOMAIN owed[c]
        BY <3>1, EmptySeq, LenProperties DEF Inv, TypeOK
      <4> QED
        BY <4>1 DEF Outstanding, Range
    <3>2. CASE buffer[c] # <<>>
      <4>1. 1 \in DOMAIN buffer[c]
        BY <3>2, EmptySeq, LenProperties DEF Inv, TypeOK
      <4> QED
        BY <4>1 DEF Outstanding, Range
    <3> QED
      BY <2>3, <3>1, <3>2
  <2> QED
    BY <1>1, <2>2, <2>4
<1>2. CASE pc[c] \in {"send", "draw", "generate", "delivered"}
  <2>1. owed[c] = <<>> /\ buffer[c] = <<>>
    BY <1>2 DEF Inv, CountOK
  <2> QED
    BY <1>2, <2>1 DEF Outstanding, Range
<1> QED
  BY <1>1, <1>2

LEMMA InvNoSilentRefusal == Inv => NoSilentRefusal
<1> SUFFICES ASSUME Inv, NEW c \in Clients, pc[c] = "delivered", refused[c]
             PROVE  FALSE
  BY DEF NoSilentRefusal
<1>1. buffer[c] = <<>>
  BY DEF Inv, CountOK
<1>2. \E i \in DOMAIN buffer[c] : buffer[c][i].code = "5xx"
  BY DEF Inv, RefusedOK, Midway
<1> QED
  BY <1>1, <1>2

LEMMA WalkStarts == Init => WalkOK
<1> SUFFICES ASSUME Init, NEW k \in 1 .. Size
             PROVE  used[k] = Turns(seq, k, Size)
  BY DEF WalkOK
<1>1. used[k] = 0 /\ seq = 0
  BY Sizes DEF Init
<1> DEFINE x == seq + Size - k
<1>2. Size \in Nat \ {0} /\ x \in 0 .. Size - 1
  BY <1>1, Sizes
<1> HIDE DEF x
<1>3. x \in Int /\ 0 \in Int /\ x = Size * 0 + x
  BY <1>2
<1>4. x \div Size = 0
  BY <1>2, <1>3, DivisionUnique
<1> QED
  BY <1>1, <1>4 DEF x, Turns

LEMMA WalkIsEven == Inv /\ WalkOK => DrawnEvenly
<1> SUFFICES ASSUME Inv, WalkOK, NEW k \in 1 .. Size, NEW l \in 1 .. Size
             PROVE  used[k] <= used[l] + 1
  BY DEF DrawnEvenly
<1>1. Turns(seq, k, Size) <= Turns(seq, l, Size) + 1
  BY Sizes, Even DEF Inv, TypeOK
<1> QED
  BY <1>1 DEF WalkOK

(* The empty list mentions nobody. *)
LEMMA NoMentions ==
  ASSUME NEW r \in Range(Recipients)
  PROVE  Cardinality(Mentions(<<>>, r)) <= Cardinality(Mentions(Recipients, r))
<1>1. Mentions(<<>>, r) = {}
  BY DEF Mentions
<1>2. Cardinality(Mentions(<<>>, r)) = 0
  BY <1>1, FS_EmptySet
<1>3. Cardinality(Mentions(Recipients, r)) \in Nat
  <2>1. IsFiniteSet(1 .. Size)
    BY Sizes, FS_Interval
  <2>2. Mentions(Recipients, r) \subseteq 1 .. Size
    BY Sizes DEF Mentions
  <2> QED
    BY <2>1, <2>2, FS_Subset, FS_CardinalityType
<1> QED
  BY <1>2, <1>3

LEMMA NamedOnceStep == Inv /\ NamedOnce /\ [Next]_vars => NamedOnce'
<1> SUFFICES ASSUME Inv, NamedOnce, [Next]_vars PROVE NamedOnce'
  OBVIOUS
<1>1. ASSUME NEW c \in Clients, Draw(c) PROVE NamedOnce'
  <2>1. rcpts' = [rcpts EXCEPT ![c] = Drawn]
    BY <1>1, DrawIs
  <2>2. \A r \in Range(Recipients) :
          Cardinality(Mentions(Drawn, r)) <= Cardinality(Mentions(Recipients, r))
    BY DrawnMentions DEF Inv
  <2> QED
    BY <2>1, <2>2 DEF NamedOnce, Inv, TypeOK
<1>2. ASSUME NEW c \in Clients, Dial(c) PROVE NamedOnce'
  <2>1. rcpts' = [rcpts EXCEPT ![c] = <<>>]
    BY <1>2 DEF Dial, Set
  <2> QED
    BY <2>1, NoMentions DEF NamedOnce, Inv, TypeOK
<1>3. CASE ~\E c \in Clients : Draw(c) \/ Dial(c)
  <2>1. UNCHANGED rcpts
    BY <1>3 DEF Next, ClientStep, ServerLine, Claim, Generate, Send, SendAwaiting, ReadLine,
       ReadLineIf, Drop, Return, Finished, vars, client
  <2> QED
    BY <2>1 DEF NamedOnce
<1> QED
  BY <1>1, <1>2, <1>3

-----------------------------------------------------------------------------
(* The theorems. *)

LEMMA Invariance == Spec => []Inv
<1> QED
  BY Starts, Steps, PTL DEF Spec

(* Every variable keeps its type: no client names more recipients than the *)
(* set has, or waits for more replies than that.                           *)
THEOREM TypeCorrect == Spec => []TypeOK
<1>1. Inv => TypeOK
  BY DEF Inv
<1> QED
  BY <1>1, Invariance, PTL

(* Whatever the server answers, in however many lines and at whatever      *)
(* moment, command and readN never read an answer to something else.       *)
THEOREM StaysInStep == Spec => []InStep
<1> QED
  BY InvInStep, Invariance, PTL

(* A delivery Deliver reports as a success had no command refused, nor any *)
(* of its recipients.                                                      *)
THEOREM NoRefusalLost == Spec => []NoSilentRefusal
<1> QED
  BY InvNoSilentRefusal, Invariance, PTL

(* nextRecipients draws every entry of the list equally often, give or     *)
(* take one, however the deliveries of the clients interleave and fail.    *)
THEOREM EvenlyDrawn == Spec => []DrawnEvenly
<1>1. Inv /\ WalkOK /\ [Next]_vars => WalkOK'
  BY WalkStep
<1> QED
  BY <1>1, WalkStarts, WalkIsEven, Starts, Steps, PTL DEF Spec

(* nextRecipients names nobody for one message more often than -recipients *)
(* does, repetitions or not: the cap by the length of the list is what it  *)
(* takes.                                                                  *)
THEOREM NobodyTwice == Spec => []NamedOnce
<1>1. Init => NamedOnce
  BY NoMentions DEF Init, NamedOnce
<1> QED
  BY <1>1, NamedOnceStep, Starts, Steps, PTL DEF Spec
=============================================================================
